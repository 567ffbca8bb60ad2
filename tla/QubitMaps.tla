------------------------------ MODULE QubitMaps ------------------------------
(***************************************************************************)
(* The placement of program qubits on physical qubits: the state of class  *)
(* scheduler::MapProgToPhysQubits.                                         *)
(*                                                                         *)
(* The class keeps two arrays, one the inverse of the other, and a table   *)
(* from qubit registers to ranges of ids in the first.  An id carries no   *)
(* information besides its position, so a map is the record                *)
(*   order : the registers known to the map, in the order of their ids     *)
(*           (from_prog_qbitref_to_range_, from_id_to_prog_qbitref_),      *)
(*   prog  : prog_to_phys_map_, indexed by the qubit instead of its id; a  *)
(*           qubit the map has never seen is Excluded, as getProgToPhys    *)
(*           answers for it,                                               *)
(*   phys  : phys_to_prog_map_, a function on 0 .. (number of qubits - 1). *)
(***************************************************************************)
EXTENDS Integers, Sequences

CONSTANTS
  Qubits,      \* program qubits (the resolved QbitRefs)
  Registers,   \* the arrays they belong to
  Virtual,     \* get_virtual_value_(): known, not placed yet
  Excluded,    \* get_excluded_value_(): not to be placed
  Free         \* get_free_value_(): physical qubit holding no program qubit

(* The three conventional values differ from every index of the array they *)
(* are stored in, and the two of prog_to_phys_map_ from one another.       *)
ASSUME ConventionalValues ==
  /\ Virtual \notin Int
  /\ Excluded \notin Int
  /\ Virtual # Excluded
  /\ Free \notin Qubits

Unplaced == {Virtual, Excluded}

QubitMap(Phys) ==
  [order : Seq(Registers),
   prog  : [Qubits -> Phys \cup Unplaced],
   phys  : [Phys -> Qubits \cup {Free}]]

(* The two arrays are inverse of one another.                              *)
isConsistent(m) ==
  /\ \A q \in Qubits :
        m.prog[q] \notin Unplaced =>
          /\ m.prog[q] \in DOMAIN m.phys
          /\ m.phys[m.prog[q]] = q
  /\ \A x \in DOMAIN m.phys :
        m.phys[x] # Free => m.prog[m.phys[x]] = x

(* Records are equal exactly when IsEqual answers true: the same qubits    *)
(* under the same ids and the same two arrays.                             *)
IsEqual(m, n) == m = n

isPhysicalQubitFree(m, x) == x \notin DOMAIN m.phys \/ m.phys[x] = Free

(* A variant that moves the program qubit on x only.                       *)
updateMapByMovingPhysQubit(m, x, y) ==
  [order |-> m.order,
   prog  |-> [q \in Qubits |-> IF q = m.phys[x] THEN y ELSE m.prog[q]],
   phys  |-> [m.phys EXCEPT ![x] = m.phys[y], ![y] = m.phys[x]]]

(* Exchange the contents of two physical qubits.                           *)
updateMapBySwappingPhysQubits(m, x, y) ==
  [order |-> m.order,
   prog  |-> [q \in Qubits |-> IF q = m.phys[x] THEN y
                               ELSE IF q = m.phys[y] THEN x
                               ELSE m.prog[q]],
   phys  |-> [m.phys EXCEPT ![x] = m.phys[y], ![y] = m.phys[x]]]

==============================================================================
