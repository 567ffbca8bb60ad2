---------------------------- MODULE NativeLowering -----------------------------
(***************************************************************************)
(* The passes that take a quantum basic block from the gates of the        *)
(* language to instructions of the backend: Toffoli gates are decomposed   *)
(* on request, canonical gates replaced by native ones, angles brought     *)
(* into range, and operands made immediate.  An angle that is only known   *)
(* at run time becomes the index of a table entry, which the block before  *)
(* this one fills; the result of a measurement is moved to its cbit by a   *)
(* call in the block after it.                                             *)
(*                                                                         *)
(* Angles are multiples of pi/8.  Slices, which placement and scheduling   *)
(* add between these passes, are left out.                                 *)
(***************************************************************************)
EXTENDS GateAlgebra, FiniteSets, TLC

CONSTANTS
  Programs,      \* records: qubits, their number; gates, the canonical ones
  Samples,       \* values an angle that is not known may take at run time
  NoCbit

PI == 8        \* FP_PI and its fractions
PIby2 == 4
PIby4 == 2
Reserved == 4  \* QSDA_RESERVED_POSITIONS

(* An angle is a constant, the value of a variable of the classical code   *)
(* or half of one, or an entry of the table.                               *)
Known(units)    == [kind |-> "known", units |-> units]
Unknown(v, den) == [kind |-> "unknown", v |-> v, den |-> den]
Entry(slot)     == [kind |-> "entry", slot |-> slot]

HalfOf(a) == IF a.kind = "known" THEN Known(a.units \div 2) ELSE Unknown(a.v, 2)

isResolved(a) == a.kind = "known"

Gate(name, qubits, angles) == [name |-> name, qubits |-> qubits, angles |-> angles, cbit |-> NoCbit, imm |-> FALSE]
Meas(qubit, cbit)          == [Gate("MeasZ", <<qubit>>, <<>>) EXCEPT !.cbit = cbit]

VARIABLES
  pc,
  program,
  HasRz,        \* the platform has the gate RZ, or no platform is given
  method,       \* how results are returned: "queued" or "matched"
  block,
  at,           \* position of the iterator
  stores,       \* what the block before stores in the table, behind the reserved entries
  moves,        \* calls [cbit, idx] at the head of the block after, in order
  max           \* QSCbA_used_map

vars == <<pc, program, HasRz, method, block, at, stores, moves, max>>

-----------------------------------------------------------------------------
RXY(q, theta, phi) == Gate("RXY", <<q>>, <<theta, phi>>)
CP(q, r, theta)    == Gate("CPhase", <<q, r>>, <<theta>>)
XPi(q)             == RXY(q, Known(PI), Known(0))
Y90(q)             == RXY(q, Known(PIby2), Known(PIby2))
YMinus90(q)        == RXY(q, Known(PIby2), Known(3 * PIby2))
X90(q)             == RXY(q, Known(PIby2), Known(0))
XMinus90(q)        == RXY(q, Known(PIby2), Known(PI))

(* A rotation about Z, as two of RXY when the platform has none.           *)
Rz(q, theta) ==
  IF HasRz THEN <<Gate("RotZ", <<q>>, <<theta>>)>>
  ELSE <<XPi(q), RXY(q, Known(PI), HalfOf(theta))>>

(* The native gates of every canonical gate, in the order they are         *)
(* executed, which is the reverse of the order in which they are inserted. *)
Pulses(q) ==
  [H |-> <<Y90(q), XPi(q)>>,
   X |-> <<XPi(q)>>,
   Y |-> <<RXY(q, Known(PI), Known(PIby2))>>]

Phases(q) ==
  [Z    |-> Rz(q, Known(PI)),
   S    |-> Rz(q, Known(PIby2)),
   SDAG |-> Rz(q, Known(3 * PIby2)),
   T    |-> Rz(q, Known(PIby4)),
   TDAG |-> Rz(q, Known(7 * PIby4))]

Rotations(q, a) ==
  [RX |-> <<RXY(q, a, Known(0))>>,
   RY |-> <<RXY(q, a, Known(PIby2))>>,
   RZ |-> Rz(q, a)]

(* RZ of iSWAP does not depend on the platform.                            *)
Interactions(q, r) ==
  [CX    |-> <<YMinus90(r), CP(q, r, Known(PI)), Y90(r)>>,
   ISWAP |-> <<Gate("RotZ", <<r>>, <<Known(PIby2)>>), Gate("RotZ", <<q>>, <<Known(PIby2)>>),
               Y90(q), XPi(q), YMinus90(r), CP(q, r, Known(PI)), Y90(r),
               YMinus90(q), CP(r, q, Known(PI)), Y90(q), Y90(r), XPi(r)>>,
   CZ    |-> <<CP(q, r, Known(PI))>>,
   SWAP  |-> <<Gate("Swapalp", <<q, r>>, <<Known(PI)>>)>>]

NativeToffoli(q, r, s) ==
  <<RXY(s, Known(3 * PIby2), Known(PIby2)), CP(q, r, Known(PIby2)), CP(r, s, Known(PIby2)),
    Y90(s), CP(q, s, Known(PI)), RXY(s, Known(3 * PIby2), Known(PIby2)),
    CP(r, s, Known(3 * PIby2)), Y90(s), CP(q, s, Known(PI))>>

Preparations(q) ==
  [PREPX |-> <<YMinus90(q), Gate("PrepZ", <<q>>, <<>>), Y90(q)>>,
   PREPY |-> <<X90(q), Gate("PrepZ", <<q>>, <<>>), XMinus90(q)>>,
   PREPZ |-> <<Gate("PrepZ", <<q>>, <<>>)>>]

MeasurementsOf(q, cbit) ==
  [MEASX |-> <<YMinus90(q), Meas(q, cbit), Y90(q)>>,
   MEASY |-> <<X90(q), Meas(q, cbit), XMinus90(q)>>,
   MEASZ |-> <<Meas(q, cbit)>>]

Native(g) ==
  LET q == g.qubits[1]
      r == g.qubits[2]
      a == g.angles[1]
  IN  CASE g.name \in {"H", "X", "Y"}                   -> Pulses(q)[g.name]
        [] g.name \in {"Z", "S", "SDAG", "T", "TDAG"}   -> Phases(q)[g.name]
        [] g.name \in {"RX", "RY", "RZ"}                -> Rotations(q, a)[g.name]
        [] g.name \in {"CX", "ISWAP", "CZ", "SWAP"}     -> Interactions(q, r)[g.name]
        [] g.name = "TOFF"                              -> NativeToffoli(q, r, g.qubits[3])
        [] g.name \in {"PREPX", "PREPY", "PREPZ"}       -> Preparations(q)[g.name]
        [] g.name \in {"MEASX", "MEASY", "MEASZ"}       -> MeasurementsOf(q, g.cbit)[g.name]
        [] g.name = "CPHASE"                            -> <<CP(q, r, a)>>
        [] g.name = "RXYGATE"                           -> <<RXY(q, a, g.angles[2])>>
        [] g.name = "SWAPA"                             -> <<Gate("Swapalp", <<q, r>>, <<a>>)>>
        [] OTHER                                        -> <<g>>

(* decomposeAllToffoli: the canonical gates of a Toffoli gate.             *)
OfToffoli(g) ==
  LET One(name, k)    == Gate(name, <<g.qubits[k]>>, <<>>)
      CX(k, l)        == Gate("CX", <<g.qubits[k], g.qubits[l]>>, <<>>)
  IN  <<One("H", 3), CX(2, 3), One("TDAG", 3), CX(1, 3), One("T", 3), CX(2, 3), One("TDAG", 3),
        CX(1, 3), One("T", 3), One("T", 2), One("H", 3), CX(1, 2), One("T", 1), One("TDAG", 2), CX(1, 2)>>

Replaced(gates, k, new) == SubSeq(gates, 1, k - 1) \o new \o SubSeq(gates, k + 1, Len(gates))

-----------------------------------------------------------------------------
Init ==
  /\ program \in Programs /\ block = program.gates
  /\ HasRz \in BOOLEAN /\ method \in {"queued", "matched"}
  /\ pc \in {"toffoli", "lower"} /\ at = (IF pc = "lower" THEN Len(block) ELSE 1)
  /\ stores = <<>> /\ moves = <<>> /\ max = 0

(* A pass over the block ends, and the next one starts.                    *)
PassEnds(pass, next, position) ==
  /\ pc = pass
  /\ pc' = next /\ at' = position
  /\ UNCHANGED <<program, HasRz, method, block, stores, moves, max>>

(* DecomposeToffoli: on to the next Toffoli gate, which is replaced.       *)
DecomposeToffoli ==
  /\ pc = "toffoli" /\ at <= Len(block)
  /\ IF block[at].name = "TOFF"
     THEN block' = Replaced(block, at, OfToffoli(block[at])) /\ at' = at + Len(OfToffoli(block[at]))
     ELSE at' = at + 1 /\ UNCHANGED block
  /\ UNCHANGED <<pc, program, HasRz, method, stores, moves, max>>

ToffoliDone == at > Len(block) /\ PassEnds("toffoli", "lower", Len(block))

(* lowerFromCanonical goes backwards through the block.                    *)
LowerFromCanonical ==
  /\ pc = "lower" /\ at > 0
  /\ block' = Replaced(block, at, Native(block[at]))
  /\ at' = at - 1
  /\ UNCHANGED <<pc, program, HasRz, method, stores, moves, max>>

LoweringDone == at = 0 /\ PassEnds("lower", "range", 1)

ShorterSameAxis(g) ==    \* a variant
  IF g.angles[1].units > PI THEN [g EXCEPT !.angles[1] = Known(2 * PI - g.angles[1].units)] ELSE g

(* An angle of RXY beyond pi turns the other way about the opposite axis.  *)
Shorter(g) ==
  LET theta == g.angles[1].units
      phi   == g.angles[2].units
  IN  IF theta > PI
      THEN [g EXCEPT !.angles = <<Known(2 * PI - theta), Known(IF phi < PI THEN phi + PI ELSE phi - PI)>>]
      ELSE g

InRange(g) ==
  LET h == [g EXCEPT !.angles = [k \in DOMAIN g.angles |->
              IF isResolved(g.angles[k]) THEN Known(g.angles[k].units % (2 * PI)) ELSE g.angles[k]]]
  IN  IF h.name = "RXY" /\ \A k \in 1 .. 2 : isResolved(h.angles[k]) THEN Shorter(h) ELSE h

AnglesInRange ==
  /\ pc = "range" /\ at <= Len(block)
  /\ block' = [block EXCEPT ![at] = InRange(block[at])]
  /\ at' = at + 1
  /\ UNCHANGED <<pc, program, HasRz, method, stores, moves, max>>

RangeDone == at > Len(block) /\ PassEnds("range", "imm", 1)

(* getAsQSDAIndex: the entry of an angle, and the stores it leaves.        *)
OnReserved(a) == isResolved(a) /\ a.units \in {k * PIby2 : k \in 0 .. Reserved - 1}
SlotOf(a, st) == IF OnReserved(a) THEN a.units \div PIby2 ELSE Reserved + Len(st)
Stored(a, st) == IF OnReserved(a) THEN st ELSE Append(st, a)

(* Both angles of RXY are read from the table when one has to be; theta is *)
(* entered first.                                                          *)
ConvertAngles ==
  LET g  == block[at]
      st == Stored(g.angles[1], stores)
  IN  /\ pc = "imm" /\ at <= Len(block) /\ ~ (g.name = "MeasZ" /\ g.cbit # NoCbit)
      /\ IF g.name = "RXY" /\ \E k \in 1 .. 2 : ~ isResolved(g.angles[k])
         THEN /\ block' = [block EXCEPT ![at].imm = TRUE,
                             ![at].angles = <<Entry(SlotOf(g.angles[1], stores)), Entry(SlotOf(g.angles[2], st))>>]
              /\ stores' = Stored(g.angles[2], st)
         ELSE IF g.angles # <<>> /\ ~ isResolved(g.angles[1])
         THEN /\ block' = [block EXCEPT ![at].imm = TRUE, ![at].angles = <<Entry(SlotOf(g.angles[1], stores))>>]
              /\ stores' = st
         ELSE block' = [block EXCEPT ![at].imm = TRUE] /\ UNCHANGED stores
      /\ at' = at + 1
      /\ UNCHANGED <<pc, program, HasRz, method, moves, max>>

MoveOfNext(g) == [cbit |-> g.cbit, idx |-> IF method = "queued" THEN max + 1 ELSE g.qubits[1]]   \* a variant

(* getAsQSCbAIndex: where the backend leaves the result, and a call in     *)
(* front of what the block after this one begins with.                     *)
MoveOf(g) == [cbit |-> g.cbit, idx |-> IF method = "queued" THEN max ELSE g.qubits[1]]
InFront(call) == <<call>> \o moves

ConvertMeasurement ==
  LET g == block[at]
  IN  /\ pc = "imm" /\ at <= Len(block) /\ g.name = "MeasZ" /\ g.cbit # NoCbit
      /\ moves' = InFront(MoveOf(g))
      /\ max' = IF method = "queued" THEN max + 1 ELSE max
      /\ block' = [block EXCEPT ![at].imm = TRUE, ![at].cbit = NoCbit]
      /\ at' = at + 1
      /\ UNCHANGED <<pc, program, HasRz, method, stores>>

Measurements == SelectSeq(block, LAMBDA g : g.name = "MeasZ")

(* checkForMultipleMeasuredQIDs.                                           *)
MeasuredTwice ==
  \E k, l \in DOMAIN Measurements : k < l /\ Measurements[k].qubits = Measurements[l].qubits

ConversionDone ==
  /\ at > Len(block)
  /\ PassEnds("imm", IF method = "matched" /\ MeasuredTwice THEN "exit" ELSE "done", at)

Next ==
  \/ DecomposeToffoli \/ ToffoliDone
  \/ LowerFromCanonical \/ LoweringDone
  \/ AnglesInRange \/ RangeDone
  \/ ConvertAngles \/ ConvertMeasurement \/ ConversionDone

Spec == Init /\ [][Next]_vars

-----------------------------------------------------------------------------
(* What a block does.  A run of it is given by what every preparation      *)
(* finds and every measurement answers, and by the values of the angles.   *)
Events == {"PREPX", "PREPY", "PREPZ", "PrepZ", "MEASX", "MEASY", "MEASZ", "MeasZ"}
EventsOf(gates) == Cardinality({k \in DOMAIN gates : gates[k].name \in Events})

AngleValue(a, s) ==
  CASE a.kind = "known"   -> a.units
    [] a.kind = "unknown" -> s[a.v] \div a.den
    [] a.kind = "entry"   ->
         IF a.slot < Reserved THEN a.slot * PIby2
         ELSE LET e == stores[a.slot - Reserved + 1] IN IF e.kind = "known" THEN e.units ELSE s[e.v] \div e.den

CXMatrix == Permutation(<<1, 2, 4, 3>>)
Hadamard == Matrix(<<<<1, 1>>, <<1, P - 1>>>>)     \* up to a factor
ISwapMatrix == [rc \in (1 .. 4) \X (1 .. 4) |->
                  IF rc \in {<<2, 3>>, <<3, 2>>} THEN Phase(PIby2)
                  ELSE IF rc \in {<<1, 1>>, <<4, 4>>} THEN 1 ELSE 0]

(* The definitions of the gates of the language, and those of the backend. *)
Effect(g, v, b) ==
  CASE g.name = "H" -> Hadamard
    [] g.name = "X" -> Permutation(<<2, 1>>)
    [] g.name = "Y" -> Matrix(<<<<0, P - Phase(PIby2)>>, <<Phase(PIby2), 0>>>>)
    [] g.name = "Z" -> PhaseOf(PI)
    [] g.name = "S" -> PhaseOf(PIby2)
    [] g.name = "SDAG" -> PhaseOf(-PIby2)
    [] g.name = "T" -> PhaseOf(PIby4)
    [] g.name = "TDAG" -> PhaseOf(-PIby4)
    [] g.name = "RX" -> RotXY(v[1], 0)
    [] g.name = "RY" -> RotXY(v[1], PIby2)
    [] g.name \in {"RZ", "RotZ"} -> RotZ(v[1])
    [] g.name \in {"RXY", "RXYGATE"} -> RotXY(v[1], v[2])
    [] g.name = "CX" -> CXMatrix
    [] g.name = "CZ" -> CPhase(PI)
    [] g.name \in {"CPHASE", "CPhase"} -> CPhase(v[1])
    [] g.name = "SWAP" -> Permutation(<<1, 3, 2, 4>>)
    [] g.name = "ISWAP" -> ISwapMatrix
    [] g.name \in {"SWAPA", "Swapalp"} -> Swapalp(v[1])
    [] g.name = "TOFF" -> Permutation(<<1, 2, 3, 4, 5, 6, 8, 7>>)
    [] g.name \in {"PREPZ", "PrepZ"} -> Prepare(b)
    [] g.name = "PREPX" -> InBasis(XBasis, Prepare(b))
    [] g.name = "PREPY" -> InBasis(YBasis, Prepare(b))
    [] g.name \in {"MEASZ", "MeasZ"} -> Project(b)
    [] g.name = "MEASX" -> InBasis(XBasis, Project(b))
    [] g.name = "MEASY" -> InBasis(YBasis, Project(b))

Operation(gates, outcomes, s) ==
  LET n == program.qubits
      Step(acc, g) ==
        LET v == [k \in DOMAIN g.angles |-> AngleValue(g.angles[k], s)]
            e == IF g.name \in Events THEN 1 ELSE 0
        IN  [u |-> Apply(Effect(g, v, IF e = 1 THEN outcomes[acc.k] ELSE 0), g.qubits, n, acc.u), k |-> acc.k + e]
  IN  FoldLeft(Step, [u |-> Identity(n), k |-> 1], gates).u

UsesSamples == \E k \in DOMAIN program.gates : \E j \in DOMAIN program.gates[k].angles :
                 ~ isResolved(program.gates[k].angles[j])

(* After every step of every pass the block does what the program says, for *)
(* every outcome and every value that the unknown angles turn out to have,  *)
(* with the table filled as the block before leaves it.                     *)
SameOperation ==
  /\ EventsOf(block) = EventsOf(program.gates)
  /\ \A outcomes \in [1 .. EventsOf(block) -> {0, 1}] :
     \A s \in IF UsesSamples THEN Samples ELSE {CHOOSE s \in Samples : TRUE} :
       SameUpToPhase(Operation(program.gates, outcomes, s), Operation(block, outcomes, s))

(* The backend leaves the result of the k-th measurement at position k - 1 *)
(* or at that of its qubit; the calls after the block read it from there,  *)
(* and a cbit that one measurement was given to ends up with its result.   *)
Sources == SelectSeq(program.gates, LAMBDA g : g.name \in {"MEASX", "MEASY", "MEASZ"})
ResultAt(k) == IF method = "queued" THEN k - 1 ELSE Measurements[k].qubits[1]
MeasurementsReadBack ==
  pc = "done" =>
    \A k \in DOMAIN Sources :
      (\A l \in DOMAIN Sources \ {k} : Sources[l].cbit # Sources[k].cbit) =>
        LET last == CHOOSE j \in DOMAIN moves :
                      /\ moves[j].cbit = Sources[k].cbit
                      /\ \A i \in j + 1 .. Len(moves) : moves[i].cbit # Sources[k].cbit
        IN  {l \in DOMAIN Measurements : ResultAt(l) = moves[last].idx} = {k}
==============================================================================
