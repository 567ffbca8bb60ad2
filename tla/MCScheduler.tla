----------------------------- MODULE MCScheduler -----------------------------
(***************************************************************************)
(* Small platforms, blocks and placements for the scheduler.               *)
(*                                                                         *)
(*   line     0 - 1 - 2 - 3, no interaction between 2 and 3                *)
(*   kite     the line with a link between 1 and 3                         *)
(*                                                                         *)
(* Three program qubits leave one physical qubit free, four leave none.    *)
(***************************************************************************)
EXTENDS Scheduler

CONSTANTS a, b, c, d, Reg

ThreeQubits == {a, b, c}
FourQubits  == {a, b, c, d}

LineLinks == {{0, 1}, {1, 2}, {2, 3}}
KiteLinks == LineLinks \cup {{1, 3}}

LinePath == <<0, 1, 2, 3>>

Everywhere == {<<x>> : x \in Phys}

LineAvailable ==
  [rotz   |-> Everywhere,
   cphase |-> {<<0, 1>>, <<1, 0>>, <<1, 2>>},
   measz  |-> {<<0>>, <<3>>}]

Cycles == [rotz |-> 1, cphase |-> 2, measz |-> 3]

ByPhys(f) == [x \in Phys |->
  IF \E q \in Qubits : f[q] = x THEN CHOOSE q \in Qubits : f[q] = x ELSE Free]

Placed(f) == [order |-> <<Reg>>, prog |-> f, phys |-> ByPhys(f)]

HoleAt2 == Placed([q \in Qubits |-> CASE q = a -> 0 [] q = b -> 1 [] OTHER -> 3])
HoleAt0 == Placed([q \in Qubits |-> CASE q = a -> 1 [] q = b -> 2 [] OTHER -> 3])
HoleAt1 == Placed([q \in Qubits |-> CASE q = a -> 0 [] q = b -> 2 [] OTHER -> 3])
Full    == Placed([q \in Qubits |->
                     CASE q = a -> 0 [] q = b -> 1 [] q = c -> 2 [] OTHER -> 3])

OneHole  == {HoleAt2}
AnyHole  == {HoleAt0, HoleAt1, HoleAt2}
NoHole   == {Full}

Gate(k, qs) == [kind |-> k, qubits |-> qs]

Blocks(n, gs) == UNION {[1 .. k -> gs] : k \in 0 .. n}

(* Gates whose routes cross, measurements that call qubits back over the   *)
(* way they came or past others, and a block that cannot be executed.      *)
Crossing == {Gate("cphase", <<a, c>>), Gate("cphase", <<c, b>>), Gate("cphase", <<b, c>>)}

CallingBack == {Gate("measz", <<b>>), Gate("measz", <<c>>)}

Entangling == Blocks(3, Crossing \cup CallingBack)
                \cup Blocks(2, Crossing \cup {Gate("rotz", <<a>>)})
                \cup {<<Gate("toffoli", <<a, b, c>>)>>}

(* More measurements than places to measure.                               *)
Measuring ==
  Blocks(3, {Gate("cphase", <<a, c>>), Gate("measz", <<a>>), Gate("measz", <<b>>),
             Gate("measz", <<c>>)})

(* Routes that cross, and measurements more than there are places.         *)
Scrambling ==
  Blocks(2, Crossing \cup {Gate("measz", <<a>>), Gate("measz", <<c>>)})
    \cup {<<Gate("measz", <<a>>), Gate("measz", <<b>>), Gate("measz", <<c>>)>>}

(* Generic gates, scheduled before they are lowered to native ones.        *)
Generic ==
  Blocks(2, {Gate("prep", <<a>>), Gate("cnot", <<a, c>>), Gate("cphase", <<b, d>>)})

==============================================================================
