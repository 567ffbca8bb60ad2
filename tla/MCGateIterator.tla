---------------------------- MODULE MCGateIterator -----------------------------
(***************************************************************************)
(* Two iterators on blocks of up to two gates; gates B and C have one      *)
(* angle, gates D two.                                                     *)
(***************************************************************************)
EXTENDS GateIterator, TLC

Fixed(id)             == [id |-> id, kind |-> "fixed", type |-> "none", uses |-> <<>>]
Value(id, type, uses) == [id |-> id, kind |-> "value", type |-> type, uses |-> uses]
Qubit(id)             == [id |-> id, kind |-> "load", type |-> "none", uses |-> <<>>]
Call(id, type, uses)  == [id |-> id, kind |-> "gate", type |-> type, uses |-> uses]
Return                == [id |-> 9, kind |-> "terminator", type |-> "none", uses |-> <<>>]

(* Angles that follow the gate, one computed from the other.               *)
Late == <<Fixed(1), Qubit(2), Call(3, "B", <<2>>), Value(4, "angle", <<>>),
          Value(5, "angle", <<4>>), Return>>

(* Two gates on one load, an angle between them.                           *)
Shared == <<Qubit(1), Call(2, "B", <<1>>), Value(3, "angle", <<>>), Call(4, "C", <<1, 3>>), Return>>

(* No gate yet; indices, one computed from the other.                      *)
NoGate == <<Fixed(1), Value(2, "int", <<>>), Value(3, "int", <<2>>), Return>>

NumAnglesOf == ("B" :> 1) @@ ("C" :> 1) @@ ("D" :> 2)

SmallBlocks == {Late, Shared, NoGate}
OneLate     == {Late}

Symmetric == Permutations(Iterators)
==============================================================================
