---------------------------- MODULE PlacementMaps -----------------------------
(***************************************************************************)
(* Registration of qubit arrays in a placement and the ways to fill it:    *)
(* the operations of scheduler::MapProgToPhysQubits that the placement     *)
(* methods use.                                                            *)
(*                                                                         *)
(* An array that is registered takes consecutive ids for all its elements, *)
(* and each of them is excluded until it is added.  Loops over ids, over   *)
(* physical qubits and over qubits to be added are written as the          *)
(* assignment they amount to.                                              *)
(***************************************************************************)
EXTENDS QubitMaps, FiniteSets, SequencesExt

CONSTANTS
  Array,      \* register -> the sequence of its qubits
  KeyOrder    \* registers in the order of the map they are keys of

(* Arrays are disjoint and every qubit is in one.                          *)
ASSUME ArraysPartitionQubits ==
  /\ Array \in [Registers -> Seq(Qubits)]
  /\ \A q \in Qubits : \E r \in Registers : \E i \in 1 .. Len(Array[r]) : Array[r][i] = q
  /\ \A r, s \in Registers : \A i \in 1 .. Len(Array[r]), j \in 1 .. Len(Array[s]) :
        Array[r][i] = Array[s][j] => r = s /\ i = j
  /\ KeyOrder \in Seq(Registers)
  /\ \A r \in Registers : \E k \in 1 .. Len(KeyOrder) : KeyOrder[k] = r

RegisterOf(q) == CHOOSE r \in Registers : q \in ToSet(Array[r])

EmptyMap == [order |-> <<>>, prog |-> [q \in Qubits |-> Excluded], phys |-> <<>>]

-----------------------------------------------------------------------------
(* Where x occurs in s first, and the elements of S in the order in which  *)
(* they occur there.                                                       *)
Position(s, x) == CHOOSE i \in DOMAIN s : s[i] = x /\ \A j \in 1 .. i - 1 : s[j] # x

OrderedBy(S, s) ==
  [i \in 1 .. Cardinality(S) |->
     CHOOSE x \in S : Cardinality({y \in S : Position(s, y) < Position(s, x)}) = i - 1]

(* An array has the ids that follow those of the arrays before it.         *)
ArrayQubits(arrays) == UNION {ToSet(Array[r]) : r \in ToSet(arrays)}

IdOf(arrays, q) ==
  Cardinality(ArrayQubits(SubSeq(arrays, 1, Position(arrays, RegisterOf(q)) - 1)))
    + Position(Array[RegisterOf(q)], q)

(* The qubits that the ids name.                                           *)
Ids(arrays) ==
  [id \in 1 .. Cardinality(ArrayQubits(arrays)) |->
     CHOOSE q \in ArrayQubits(arrays) : IdOf(arrays, q) = id]

KnownQubits(m)    == {q \in Qubits : m.prog[q] # Excluded}
getNumProgQubits(m) == Cardinality(KnownQubits(m))
getNumPhysQubits(m) == Cardinality(DOMAIN m.phys)

VirtualQubits(m) == OrderedBy({q \in Qubits : m.prog[q] = Virtual}, Ids(m.order))

getMappedPhysQubits(m) == {x \in DOMAIN m.phys : m.phys[x] # Free}

AscendingPhys(m, S) == OrderedBy(S, [i \in 1 .. getNumPhysQubits(m) |-> i - 1])

FreePhysQubits(m) == AscendingPhys(m, {x \in DOMAIN m.phys : m.phys[x] = Free})

setNumPhysQubits(m, n) ==
  IF n <= getNumPhysQubits(m) THEN m
  ELSE [m EXCEPT !.phys = [x \in 0 .. n - 1 |-> IF x \in DOMAIN m.phys THEN m.phys[x] ELSE Free]]

(* addProgQubit for one qubit of qs after the other: the array of each is  *)
(* registered first, and a qubit that is in the map stays as it is.        *)
addProgQubitRegisters(m, qs) ==
  LET registers == [i \in DOMAIN qs |-> RegisterOf(qs[i])]
  IN  [m EXCEPT !.order = @ \o OrderedBy(ToSet(registers) \ ToSet(@), registers)]

addProgQubitsReset(m, qs) ==                                      \* a variant
  [addProgQubitRegisters(m, qs) EXCEPT
     !.prog = [q \in Qubits |-> IF q \in ToSet(qs) THEN Virtual ELSE @[q]]]

addProgQubits(m, qs) ==
  [addProgQubitRegisters(m, qs) EXCEPT
     !.prog = [q \in Qubits |-> IF q \in ToSet(qs) /\ @[q] = Excluded THEN Virtual ELSE @[q]]]

-----------------------------------------------------------------------------
(* Qubit qs[i] goes to xs[i], as long as there are both.                   *)
PairedBelow(qs, xs) ==                                            \* a variant
  {<<qs[i], xs[i]>> : i \in {i \in DOMAIN qs \cap DOMAIN xs : i + 1 \in DOMAIN qs \cap DOMAIN xs}}

Paired(qs, xs) == {<<qs[i], xs[i]>> : i \in DOMAIN qs \cap DOMAIN xs}

(* For pairs of a qubit and the physical qubit it goes to.                 *)
Assign(m, pairs) ==
  [m EXCEPT
     !.prog = [q \in Qubits |-> IF \E a \in pairs : a[1] = q
                                THEN (CHOOSE a \in pairs : a[1] = q)[2] ELSE @[q]],
     !.phys = [x \in DOMAIN @ |-> IF \E a \in pairs : a[2] = x
                                  THEN (CHOOSE a \in pairs : a[2] = x)[1] ELSE @[x]]]

(* setTrivialProgToPhysMap returns false and does nothing otherwise.       *)
FitsWithRoom(m) == Len(VirtualQubits(m)) < Len(FreePhysQubits(m))     \* a variant

FitsTrivially(m) == Len(VirtualQubits(m)) <= Len(FreePhysQubits(m))

setTrivialProgToPhysMap(m) == Assign(m, Paired(VirtualQubits(m), FreePhysQubits(m)))

(* setCustomProgToPhysMap for a set of physical qubits: those in use are   *)
(* skipped.                                                                *)
setCustomSetAll(m, S) == Assign(m, Paired(VirtualQubits(m), AscendingPhys(m, S)))   \* a variant

setCustomSet(m, S) ==
  Assign(m, Paired(VirtualQubits(m), AscendingPhys(m, {x \in S \cap DOMAIN m.phys : m.phys[x] = Free})))

(* setCustomProgToPhysMap for a map from ids: all ids have to fit, also    *)
(* excluded ones, and only virtual qubits are placed.                      *)
FitsById(m) == Len(Ids(m.order)) <= getNumPhysQubits(m)

setCustomMap(m, f) ==
  Assign(m, {<<Ids(m.order)[id], f[id]>> : id \in {id \in DOMAIN f : m.prog[Ids(m.order)[id]] = Virtual}})

(* setCustomProgToPhysMap for the ids of an array: the position in the     *)
(* list of values advances past a value only when it has been used, so     *)
(* that the loop never gets past the first virtual one.  The arrays of     *)
(* values[r] follow one another and share no value.                        *)
LeadingValues(values) ==
  UNION {{<<Array[r][i], values[r][i]>> :
            i \in {i \in DOMAIN values[r] : \A j \in 1 .. i : values[r][j] # Virtual}} :
           r \in DOMAIN values}

setCustomRanges(m, values) == Assign(m, LeadingValues(values))

(* Qubits of other that m does not know come in as they are in other, new  *)
(* arrays in key order.                                                    *)
join(m, other) ==
  LET n     == setNumPhysQubits(m, getNumPhysQubits(other))
      taken == {q \in Qubits : m.prog[q] = Excluded /\ other.prog[q] \notin Unplaced}
  IN  [order |-> m.order \o OrderedBy(ToSet(other.order) \ ToSet(m.order), KeyOrder),
       prog  |-> [q \in Qubits |-> IF m.prog[q] = Excluded THEN other.prog[q] ELSE m.prog[q]],
       phys  |-> [x \in DOMAIN n.phys |->
                    IF \E q \in taken : other.prog[q] = x
                    THEN CHOOSE q \in taken : other.prog[q] = x ELSE n.phys[x]]]
==============================================================================
