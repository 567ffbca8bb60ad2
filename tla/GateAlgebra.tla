------------------------------ MODULE GateAlgebra ------------------------------
(***************************************************************************)
(* What quantum gates do, as matrices over a finite field.  The field has  *)
(* P elements, a root of unity omega of order 32 and so an image of every  *)
(* number e^(i pi k / 16): equal operations have equal images, and unequal *)
(* ones are told apart unless P divides what they differ by.               *)
(*                                                                         *)
(* Angles are whole multiples of pi/8, the unit of all definitions here.   *)
(* Qubit q of a register of n is bit q of the index of a basis state.      *)
(***************************************************************************)
EXTENDS Integers, Sequences, SequencesExt

P == 12289
Half == 6145

omega == 5860

Powers[k \in 0 .. 31] == IF k = 0 THEN 1 ELSE (Powers[k - 1] * omega) % P

(* e^(i angle/2) and e^(i angle).                                          *)
HalfPhase(angle) == Powers[angle % 32]
Phase(angle)     == Powers[(2 * angle) % 32]

Cosine(angle) == ((HalfPhase(angle) + HalfPhase(-angle)) * Half) % P       \* of angle/2
ISine(angle)  == ((HalfPhase(angle) - HalfPhase(-angle)) * Half) % P       \* i times the sine

-----------------------------------------------------------------------------
(* Matrices of operations on one, two and three qubits, by row and column; *)
(* the first qubit an operation names is the most significant.             *)
Diagonal(d) == [rc \in (1 .. Len(d)) \X (1 .. Len(d)) |-> IF rc[1] = rc[2] THEN d[rc[1]] ELSE 0]
Matrix(rows) == [rc \in (1 .. Len(rows)) \X (1 .. Len(rows)) |-> rows[rc[1]][rc[2]]]

(* The r-th basis state goes to the one at position r.                     *)
Permutation(to) == [rc \in (1 .. Len(to)) \X (1 .. Len(to)) |-> IF to[rc[2]] = rc[1] THEN 1 ELSE 0]

RotXY(theta, phi) ==
  Matrix(<<<<Cosine(theta), (-ISine(theta) * Phase(-phi)) % P>>,
           <<(-ISine(theta) * Phase(phi)) % P, Cosine(theta)>>>>)
RotZ(theta)    == Diagonal(<<HalfPhase(-theta), HalfPhase(theta)>>)
PhaseOf(theta) == Diagonal(<<1, Phase(theta)>>)
CPhase(theta)  == Diagonal(<<1, 1, 1, Phase(theta)>>)
Swapalp(theta) ==
  LET same == ((1 + Phase(theta)) * Half) % P
      swap == ((1 - Phase(theta)) * Half) % P
  IN  Matrix(<<<<1, 0, 0, 0>>, <<0, same, swap, 0>>, <<0, swap, same, 0>>, <<0, 0, 0, 1>>>>)

(* Kraus operators: a preparation that finds the qubit in state b, and a   *)
(* measurement with outcome b, in the basis that u takes the Z basis to.   *)
InBasis(u, v) ==    \* u comes with its inverse
  LET Times(a, b) == [rc \in (1 .. 2) \X (1 .. 2) |->
                        (a[<<rc[1], 1>>] * b[<<1, rc[2]>>] + a[<<rc[1], 2>>] * b[<<2, rc[2]>>]) % P]
  IN  Times(u[1], Times(v, u[2]))
XBasis == <<RotXY(4, 4), RotXY(4, 12)>>      \* +x from 0, and back
YBasis == <<RotXY(4, 8), RotXY(4, 0)>>

Prepare(b) == Matrix(IF b = 0 THEN <<<<1, 0>>, <<0, 0>>>> ELSE <<<<0, 1>>, <<0, 0>>>>)
Project(b) == Diagonal(IF b = 0 THEN <<1, 0>> ELSE <<0, 1>>)

-----------------------------------------------------------------------------
(* A matrix on the register, as the function from indices <<row, column>>. *)
Size(n)     == 2 ^ n
Indices2(n) == (0 .. Size(n) - 1) \X (0 .. Size(n) - 1)
Identity(n) == [rc \in Indices2(n) |-> IF rc[1] = rc[2] THEN 1 ELSE 0]

Bit(x, q) == (x \div 2 ^ q) % 2

(* The row of an operation's matrix that index x of the register meets,    *)
(* and x with its bits at the qubits replaced by those of row r.           *)
RowOf(x, qubits) == FoldLeft(LAMBDA r, q : 2 * r + Bit(x, q), 0, qubits) + 1
WithRow(x, qubits, r) ==
  LET k == Len(qubits)
  IN  FoldLeftDomain(LAMBDA y, j : y + (Bit(r - 1, k - j) - Bit(x, qubits[j])) * 2 ^ qubits[j], x, qubits)

(* The operation m on the qubits, after the operation u.  (As a function   *)
(* of u its argument is evaluated once.)                                   *)
Apply(m, qubits, n, u) ==
  LET d   == 2 ^ Len(qubits)
      row == [x \in 0 .. Size(n) - 1 |-> RowOf(x, qubits)]
      to  == [xc \in (0 .. Size(n) - 1) \X (1 .. d) |-> WithRow(xc[1], qubits, xc[2])]
      Term(v, r, c, x) == IF m[<<row[r], x>>] = 0 THEN 0 ELSE m[<<row[r], x>>] * v[<<to[<<r, x>>], c>>]
      Sum(v, r, c)     == LET s[x \in 0 .. d] == IF x = 0 THEN 0 ELSE (s[x - 1] + Term(v, r, c, x)) % P IN s[d]
      after            == [v \in {u} |-> [rc \in Indices2(n) |-> Sum(v, rc[1], rc[2])]]
  IN  after[u]

(* Equal up to a factor, the global phase.                                 *)
SameUpToPhase(u, v) ==
  \/ u = v
  \/ \E at \in DOMAIN u :
       /\ u[at] # 0 /\ v[at] # 0
       /\ \A rc \in DOMAIN u : (u[rc] * v[at]) % P = (v[rc] * u[at]) % P
==============================================================================
