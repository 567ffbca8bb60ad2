------------------------------- MODULE Placement ------------------------------
(***************************************************************************)
(* QuantumInitPlacement: places the program qubits of every quantum kernel *)
(* on physical qubits, before anything is scheduled.                       *)
(*                                                                         *)
(* Global qubits are placed once, for the whole program.  Every kernel     *)
(* starts from that placement and adds the local qubits its gates use.     *)
(* After conditioning a kernel has a single block, and the walk over its   *)
(* predecessors ends at the entry of the kernel, with the global map.      *)
(***************************************************************************)
EXTENDS PlacementMaps

CONSTANTS
  NumPlatformQubits,   \* QM.getNumPlatformQubits()
  Inputs               \* records [method, globals, kernels, initializer]: the
                       \* placement method; the global registers in module order;
                       \* of each kernel the operands of its gates in order; and
                       \* a function: global register -> sequence of integers

PlatformQubits == 0 .. NumPlatformQubits - 1

(* A kernel uses global qubits and local ones of its own.                  *)
ASSUME PlacementInputs ==
  /\ NumPlatformQubits \in Nat \ {0}
  /\ \A c \in Inputs :
        /\ c.method \in {"trivial", "dense", "custom", "local"}
        /\ c.globals \in Seq(Registers)
        /\ \A i, j \in 1 .. Len(c.globals) : c.globals[i] = c.globals[j] => i = j
        /\ c.kernels \in Seq(Seq(Qubits))
        /\ \A i \in 1 .. Len(c.globals) :
              /\ c.initializer[c.globals[i]] \in Seq(Int)
              /\ Len(c.initializer[c.globals[i]]) = Len(Array[c.globals[i]])

NoMap == [order |-> <<>>]     \* a null pointer

VARIABLES
  phase,
  placement_method_,
  input,            \* the program
  global_qubit_map,
  qubit_maps, final_qubit_maps,    \* per kernel
  k                 \* the kernel that is next

placementVars == <<phase, placement_method_, input, global_qubit_map, qubit_maps, final_qubit_maps, k>>

mapVars   == <<global_qubit_map, qubit_maps, final_qubit_maps>>

-----------------------------------------------------------------------------
GlobalArrays == input.globals
kernels      == input.kernels
initializer  == input.initializer

GlobalQubits == ArrayQubits(GlobalArrays)
GlobalIds    == Ids(GlobalArrays)

PlacementInit ==
  /\ phase = "register"
  /\ input \in Inputs
  /\ placement_method_ = input.method
  /\ global_qubit_map = NoMap
  /\ qubit_maps = [i \in DOMAIN kernels |-> NoMap]
  /\ final_qubit_maps = [i \in DOMAIN kernels |-> NoMap]
  /\ k = 1

(* displayErrorAndExit, or EXIT_FAILURE, on which run exits.               *)
Exit ==
  /\ phase' = "exit"
  /\ UNCHANGED <<placement_method_, input, mapVars, k>>

RegisteredGlobals ==
  setNumPhysQubits(addProgQubits(EmptyMap, GlobalIds), NumPlatformQubits)

initializeGlobalQubitMap ==
  /\ phase = "register"
  /\ IF Len(GlobalIds) > NumPlatformQubits THEN Exit
     ELSE /\ global_qubit_map' = RegisteredGlobals
          /\ phase' = "globals"
          /\ UNCHANGED <<placement_method_, input, qubit_maps, final_qubit_maps, k>>

PlaceGlobals(m) ==
  /\ global_qubit_map' = m
  /\ phase' = "kernels"
  /\ UNCHANGED <<placement_method_, input, qubit_maps, final_qubit_maps, k>>

(* What findBestDenseSet may answer: see module DenseSet.                  *)
DenseSets(mapped, n) ==
  {S \in SUBSET PlatformQubits : mapped \subseteq S /\ (S = mapped \/ Cardinality(S) <= n)}

TrivialGlobals ==
  /\ phase = "globals" /\ placement_method_ = "trivial"
  /\ IF FitsTrivially(global_qubit_map)
     THEN PlaceGlobals(setTrivialProgToPhysMap(global_qubit_map)) ELSE Exit

(* The rest of the method finds everything in place after the trivial      *)
(* placement it falls back to.                                             *)
DenseGlobals ==
  /\ phase = "globals" /\ placement_method_ = "dense"
  /\ \E S \in DenseSets({}, Len(GlobalIds)) :
       IF Cardinality(S) < Len(GlobalIds)
       THEN /\ placement_method_' = "trivial"
            /\ phase' = "register"
            /\ UNCHANGED <<input, mapVars, k>>
       ELSE PlaceGlobals(setCustomSet(global_qubit_map, S))

(* An array of zeros is taken for one that was not initialized; a negative *)
(* value leaves the qubit to the compiler.                                 *)
CustomizedThroughout ==                                           \* a variant
  {r \in ToSet(GlobalArrays) : \A i \in 1 .. Len(initializer[r]) : initializer[r][i] # 0}

Customized ==
  {r \in ToSet(GlobalArrays) : \E i \in 1 .. Len(initializer[r]) : initializer[r][i] # 0}

CustomValues == [r \in Customized |-> [i \in 1 .. Len(initializer[r]) |->
                   IF initializer[r][i] < 0 THEN Virtual ELSE initializer[r][i]]]

CustomEntries == UNION {{<<r, i>> : i \in 1 .. Len(initializer[r])} : r \in Customized}

IndexTooLarge == \E j \in 1 .. Len(GlobalArrays) :
                   \E i \in 1 .. Len(initializer[GlobalArrays[j]]) :
                      initializer[GlobalArrays[j]][i] > NumPlatformQubits - 1

DuplicateIndex == \E a, b \in CustomEntries :
                    /\ a # b
                    /\ initializer[a[1]][a[2]] = initializer[b[1]][b[2]]
                    /\ initializer[a[1]][a[2]] >= 0

CustomGlobals ==
  /\ phase = "globals" /\ placement_method_ = "custom"
  /\ IF IndexTooLarge \/ DuplicateIndex THEN Exit
     ELSE LET custom == setCustomRanges(global_qubit_map, CustomValues)
          IN  \E S \in DenseSets(getMappedPhysQubits(custom), Len(GlobalIds)) :
                LET dense == setCustomSet(custom, S)
                IN  IF FitsTrivially(dense) THEN PlaceGlobals(setTrivialProgToPhysMap(dense)) ELSE Exit

(* Local search places as many ids as the largest kernel has qubits.       *)
LargestKernel ==
  LET sizes == {Cardinality(GlobalQubits \cup ToSet(kernels[i])) : i \in DOMAIN kernels} \cup {Len(GlobalIds)}
  IN  CHOOSE n \in sizes : \A o \in sizes : o <= n

Placements(ids, targets) == {f \in [ids -> targets] : \A i, j \in ids : i # j => f[i] # f[j]}

LocalGlobals ==
  /\ phase = "globals" /\ placement_method_ = "local"
  /\ IF GlobalIds = <<>> THEN PlaceGlobals(global_qubit_map)
     ELSE IF LargestKernel > NumPlatformQubits \/ ~ FitsById(global_qubit_map) THEN Exit
     ELSE \E f \in Placements(1 .. Len(GlobalIds), PlatformQubits) :
            PlaceGlobals(setCustomMap(global_qubit_map, f))

-----------------------------------------------------------------------------
(* updateWithPredecessorQubitMap: the walk reaches the entry of the kernel *)
(* through blocks without gates, and joins the global map.                 *)
PredecessorMap == join(EmptyMap, join(EmptyMap, global_qubit_map))

(* initializeQBBQubitMap                                                   *)
InitializedMap == addProgQubits(PredecessorMap, kernels[k])

NextKernel(m, final) ==
  /\ qubit_maps' = [qubit_maps EXCEPT ![k] = m]
  /\ final_qubit_maps' = [final_qubit_maps EXCEPT ![k] = final]
  /\ k' = k + 1
  /\ UNCHANGED <<phase, placement_method_, input, global_qubit_map>>

(* A kernel without any qubit keeps its empty map and gets no final one.   *)
SkipKernel ==
  /\ phase = "kernels" /\ k <= Len(kernels)
  /\ placement_method_ # "custom"
  /\ getNumProgQubits(InitializedMap) = 0
  /\ NextKernel(InitializedMap, final_qubit_maps[k])

HasKernel(methods) ==
  /\ phase = "kernels" /\ k <= Len(kernels)
  /\ placement_method_ \in methods
  /\ placement_method_ # "custom" => getNumProgQubits(InitializedMap) > 0

KernelTooLarge == getNumProgQubits(InitializedMap) > NumPlatformQubits

SizedMap == setNumPhysQubits(InitializedMap, NumPlatformQubits)

TrivialKernel ==
  /\ HasKernel({"trivial"})
  /\ IF KernelTooLarge \/ ~ FitsTrivially(SizedMap) THEN Exit
     ELSE LET m == setTrivialProgToPhysMap(SizedMap) IN NextKernel(m, m)

DenseKernel ==
  /\ HasKernel({"dense", "custom"})
  /\ IF KernelTooLarge THEN Exit
     ELSE \E S \in DenseSets(getMappedPhysQubits(SizedMap), getNumProgQubits(SizedMap)) :
            LET dense == setCustomSet(SizedMap, S)
                m     == setTrivialProgToPhysMap(dense)
            IN  IF ~ FitsTrivially(dense) \/ ~ isConsistent(m) THEN Exit ELSE NextKernel(m, m)

(* Ids below the number of qubits in use are placed, whichever these are.  *)
IdsToPlace(m) ==
  {id \in DOMAIN Ids(m.order) : id <= getNumProgQubits(m) /\ m.prog[Ids(m.order)[id]] \in Unplaced}

UnusedPhys(m) == PlatformQubits \ getMappedPhysQubits(m)

(* Other qubits with a gate are unknown to the search, which enters them   *)
(* at 0 when it looks up the place of a partner in a gate.                 *)
Strays(m) == {q \in Qubits : m.prog[q] = Virtual /\ \A id \in IdsToPlace(m) : Ids(m.order)[id] # q}

LookedUp(m) ==
  {W \in SUBSET Strays(m) :
     W # {} => IdsToPlace(m) # {} /\ (Cardinality(W) > 1 \/ ~ ToSet(kernels[k]) \subseteq Strays(m))}

(* Qubits with the same value: the last one in the order of a hash table   *)
(* has the entry of the physical qubit.                                    *)
PlacedAtZero(m, placed, W) ==
  LET candidates == IF W = {} \/ (m.phys[0] = Free /\ placed.phys[0] # Free)
                    THEN W \cup {placed.phys[0]} ELSE W
  IN  {[placed EXCEPT !.prog = [q \in Qubits |-> IF q \in W THEN 0 ELSE @[q]], !.phys[0] = last] :
         last \in candidates}

LocalKernel ==
  /\ HasKernel({"local"})
  /\ IF \/ KernelTooLarge
        \/ Cardinality(IdsToPlace(SizedMap)) > Cardinality(UnusedPhys(SizedMap))
        \/ ~ FitsById(SizedMap)
     THEN Exit
     ELSE \E f \in Placements(IdsToPlace(SizedMap), UnusedPhys(SizedMap)), W \in LookedUp(SizedMap) :
            \E m \in PlacedAtZero(SizedMap, setCustomMap(SizedMap, f), W) : NextKernel(m, m)

Finish ==
  /\ phase = "kernels" /\ k > Len(kernels)
  /\ phase' = "done"
  /\ UNCHANGED <<placement_method_, input, mapVars, k>>

PlacementNext ==
  \/ initializeGlobalQubitMap
  \/ TrivialGlobals \/ DenseGlobals \/ CustomGlobals \/ LocalGlobals
  \/ SkipKernel \/ TrivialKernel \/ DenseKernel \/ LocalKernel
  \/ Finish

PlacementSpec == PlacementInit /\ [][PlacementNext]_placementVars

-----------------------------------------------------------------------------
PlacementTypeOK ==
  /\ phase \in {"register", "globals", "kernels", "done", "exit"}
  /\ placement_method_ \in {"trivial", "dense", "custom", "local"}
  /\ global_qubit_map # NoMap => global_qubit_map \in QubitMap(PlatformQubits)
  /\ \A i \in DOMAIN kernels :
        /\ qubit_maps[i] = NoMap \/ qubit_maps[i] \in QubitMap(PlatformQubits)
        /\ final_qubit_maps[i] = NoMap \/ final_qubit_maps[i] \in QubitMap(PlatformQubits)
  /\ k \in 1 .. Len(kernels) + 1

Placed(i) == i < k /\ KnownQubits(qubit_maps[i]) # {}

(* Local search takes the ids of the qubits to be placed for granted: they *)
(* are 0, 1, ... when kernels use the first elements of their arrays, and  *)
(* all of each but the last array they use.                                *)
IdsAreDense(m) ==
  \A id \in DOMAIN Ids(m.order) :
     id <= getNumProgQubits(m) <=> m.prog[Ids(m.order)[id]] # Excluded

AsAssumed(i) == Placed(i) /\ (placement_method_ = "local" => IdsAreDense(qubit_maps[i]))

(* Whatever was placed, joined or added in which order, the two arrays of  *)
(* every map are inverse of one another.                                   *)
MapsConsistent ==
  /\ PlacementTypeOK
  /\ global_qubit_map # NoMap => isConsistent(global_qubit_map)
  /\ \A i \in DOMAIN kernels :
        AsAssumed(i) => isConsistent(qubit_maps[i]) /\ isConsistent(final_qubit_maps[i])

(* Kernels are called in any order and hand global qubits on to each       *)
(* other: every kernel starts with them where the program has them.        *)
GlobalQubitsAgree ==
  \A i \in DOMAIN kernels : Placed(i) =>
    \A q \in GlobalQubits : qubit_maps[i].prog[q] = global_qubit_map.prog[q]

PlacementsAgree == MapsConsistent /\ GlobalQubitsAgree

OperandsPlaced(i) ==
  \A q \in GlobalQubits \cup ToSet(kernels[i]) : qubit_maps[i].prog[q] \in PlatformQubits

(* The compiler gives up only on programs with too many qubits, on custom  *)
(* placements that no placement satisfies, and, with local search, when    *)
(* the arrays a kernel uses are too large as a whole.                      *)
ReasonToExit ==
  \/ Len(GlobalIds) > NumPlatformQubits
  \/ \E i \in DOMAIN kernels : Cardinality(GlobalQubits \cup ToSet(kernels[i])) > NumPlatformQubits
  \/ placement_method_ = "custom" /\ (IndexTooLarge \/ DuplicateIndex)
  \/ placement_method_ = "local" /\ \E i \in DOMAIN kernels :
        Cardinality(GlobalQubits \cup UNION {ToSet(Array[RegisterOf(q)]) : q \in ToSet(kernels[i])}) > NumPlatformQubits

ExitsAreJustified == phase = "exit" => ReasonToExit


(* Unless the compiler has a reason to give up, the scheduler finds every  *)
(* operand of a gate on a physical qubit.                                  *)
EveryOperandPlaced ==
  /\ ExitsAreJustified
  /\ \A i \in DOMAIN kernels : AsAssumed(i) => OperandsPlaced(i)

(* What the user wrote, in arrays that are not all zeros.                  *)
UserEntries ==
  UNION {{<<r, i>> : i \in 1 .. Len(initializer[r])} :
           r \in {s \in ToSet(GlobalArrays) : ToSet(initializer[s]) # {0}}}

CustomFollowed(entries) ==
  placement_method_ = "custom" /\ phase \in {"kernels", "done"} =>
    \A e \in entries : initializer[e[1]][e[2]] >= 0 =>
      global_qubit_map.prog[Array[e[1]][e[2]]] = initializer[e[1]][e[2]]

(* Values written before the first placeholder of an array are followed.   *)
ValuesBeforePlaceholderFollowed ==
  CustomFollowed({e \in UserEntries : \A j \in 1 .. e[2] : initializer[e[1]][j] >= 0})

(* "If you wish some qubits to be mapped by the compiler, use -1 as a      *)
(* placeholder": the others are mapped as the user says.                   *)
CustomValuesFollowed == CustomFollowed(UserEntries)

(* "Assumption - anything in the application graph is eithier a fixed      *)
(* qubit or in the physical_qubit_subset": the graph is made of the gates  *)
(* of the kernel, and each of their qubits gets a place of its own.        *)
LocalSearchPlacesGraph ==
  placement_method_ = "local" =>
    \A i \in DOMAIN kernels : Placed(i) => OperandsPlaced(i) /\ isConsistent(qubit_maps[i])
==============================================================================
