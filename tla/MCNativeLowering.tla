--------------------------- MODULE MCNativeLowering ----------------------------
(***************************************************************************)
(* Instances for TLC: every gate of the language, on its qubits in either  *)
(* order, with angles on both sides of the bounds the passes compare with  *)
(* (negative, pi, beyond pi and beyond 2 pi; multiples of pi/4, which can  *)
(* be halved); blocks of several measurements; blocks with several angles  *)
(* that are not known, next to known ones with and without a reserved      *)
(* entry.  Or else the expressions that parameters are made as: either of  *)
(* the two is run.                                                         *)
(***************************************************************************)
EXTENDS NativeLowering, MCParameterExpressions

Of(n, gates) == [qubits |-> n, gates |-> gates]
Val(v)       == Unknown(v, 1)
Constants    == {Known(u) : u \in {-6, 0, 6, 8, 10, 18}}
A            == Val("a")
B            == Val("b")

One(name, q)    == Gate(name, <<q>>, <<>>)
Ask(name, q, c) == [One(name, q) EXCEPT !.cbit = c]

Fixed ==
  {Of(1, <<One(name, 0)>>) : name \in {"H", "X", "Y", "Z", "S", "SDAG", "T", "TDAG", "PREPX", "PREPY", "PREPZ"}}
  \cup {Of(2, <<Gate(name, qs, <<>>)>>) : name \in {"CX", "CZ", "SWAP", "ISWAP"}, qs \in {<<0, 1>>, <<1, 0>>}}

Rotated ==
  {Of(1, <<Gate(name, <<0>>, <<a>>)>>) : name \in {"RX", "RY", "RZ"}, a \in Constants \cup {A}}
  \cup {Of(2, <<Gate(name, <<1, 0>>, <<a>>)>>) : name \in {"CPHASE", "SWAPA"}, a \in Constants \cup {A}}
  \cup {Of(1, <<Gate("RXYGATE", <<0>>, <<a, b>>)>>) : a \in Constants \cup {A}, b \in Constants \cup {B}}

(* Several entries of the table in one block, and the same value twice.    *)
Tables ==
  {Of(2, <<Gate("RXYGATE", <<0>>, <<a, b>>), Gate("RZ", <<1>>, <<A>>), Gate("SWAPA", <<0, 1>>, <<b>>)>>) :
     a \in {Known(4), Known(18), A, B}, b \in {A, B, Known(-6)}}

Toffolis ==
  {Of(3, <<Gate("TOFF", qs, <<>>)>>) : qs \in {<<0, 1, 2>>, <<2, 0, 1>>}}
  \cup {Of(3, <<Gate("TOFF", <<1, 0, 2>>, <<>>), One("H", 2)>>)}

Measured ==
  {Of(2, <<Ask(name, q, "c"), One("X", 0), Ask("MEASZ", r, d)>>) :
     name \in {"MEASX", "MEASY", "MEASZ"}, q \in 0 .. 1, r \in 0 .. 1, d \in {"c", "d"}}
  \cup {Of(2, <<One("PREPX", 0), Ask("MEASX", 0, "c"), Ask("MEASZ", 1, "d")>>)}
  \cup {Of(3, <<Ask("MEASZ", 2, "c"), Ask("MEASZ", 0, "d"), Ask("MEASZ", 1, "e")>>)}

MCPrograms == Fixed \cup Rotated \cup Tables \cup Toffolis \cup Measured
MCSamples  == {[a |-> 6, b |-> 18], [a |-> -2, b |-> 4]}

-----------------------------------------------------------------------------
NoScript == script = <<>>

GatesInit ==
  \/ Init /\ script = <<>> /\ insts = <<>> /\ outcome = <<>> /\ paras = <<>>
  \/ Init /\ ParametersInit /\ program = Of(1, <<One("X", 0)>>) /\ pc = "lower" /\ HasRz /\ method = "queued"

GatesNext ==
  \/ NoScript /\ Next /\ UNCHANGED parameterVars
  \/ ~NoScript /\ ParametersNext /\ UNCHANGED vars

GatesSpec == GatesInit /\ [][GatesNext]_<<vars, parameterVars>>
=============================================================================
