------------------------------- MODULE DenseSet -------------------------------
(***************************************************************************)
(* findBestDenseSet: extends the set of physical qubits that are already   *)
(* in use to a well connected set of a given size.                         *)
(*                                                                         *)
(* From every root (a neighbour of the set, or any qubit when the set is   *)
(* empty) a breadth-first search collects qubits layer by layer until      *)
(* there are enough of them; a last layer that collects too many is        *)
(* trimmed.  The collection with the largest sum of coordination numbers   *)
(* is kept.                                                                *)
(***************************************************************************)
EXTENDS Integers, Sequences, FiniteSets, SequencesExt, Functions

CONSTANTS
  Platforms    \* records [n : number of qubits, links : pairs {x, y}]

ASSUME PlatformsAreGraphs ==
  \A p \in Platforms :
    /\ p.n \in Nat \ {0}
    /\ \A l \in p.links : \E x, y \in 0 .. p.n - 1 : x # y /\ l = {x, y}

VARIABLES
  dense_pc,
  platform,         \* the connectivity graph
  prog_qubits,      \* the size asked for
  mapped,           \* the set that is extended, as it was at the call
  best_subset,
  roots,            \* the roots still to be tried, a set
  bfs_list,
  vec_markers,      \* iteration in which a vertex was found, 0 if it was not
  dense_iteration,
  new_found_vertices,
  sources,          \* vertices of the previous layer still to be expanded
  targets,          \* neighbours of the last of these still to be visited, a set
  num_left,
  to_rm,            \* positions in bfs_list
  scanned,          \* positions of bfs_list looked at so far
  connectivity,
  max_connectivity,
  outcome

inputVars  == <<platform, prog_qubits, mapped>>
searchVars == <<bfs_list, vec_markers, dense_iteration, new_found_vertices, sources, targets, num_left>>
trimVars   == <<to_rm, scanned, connectivity>>
keptVars   == <<max_connectivity, outcome, best_subset>>
denseVars  == <<dense_pc, inputVars, roots, searchVars, trimVars, keptVars>>

-----------------------------------------------------------------------------
Vertices == 0 .. platform.n - 1

Linked(v) == {w \in Vertices : {v, w} \in platform.links}

Least(S) == CHOOSE x \in S : \A y \in S : x <= y

coord_value(v) == Cardinality(Linked(v))

(* The boundary of the set, or every vertex.                               *)
RootsOf(S) == IF S = {} THEN Vertices ELSE {v \in Vertices \ S : Linked(v) \cap S # {}}

(* Roots are found by going through the set in ascending order.  That one  *)
(* is found again from other members of the set changes nothing: a search  *)
(* that is repeated is not better.                                         *)
FoundFrom(root) == IF best_subset = {} THEN 0 ELSE Least(Linked(root) \cap best_subset)

NextRoot ==
  CHOOSE r \in roots : \A o \in roots :
    FoundFrom(r) < FoundFrom(o) \/ (FoundFrom(r) = FoundFrom(o) /\ r <= o)

(* Positions of to_rm are positions of bfs_list.                           *)
CoordAt(i) == coord_value(bfs_list[i])

(* The entry of to_rm that a less connected position i replaces, 0 if      *)
(* there is none: the loop compares candidates j with the replacement      *)
(* chosen so far, but reads the coordination number of the latter through  *)
(* bfs_list[replacement] instead of bfs_list[to_rm[replacement]].          *)
replacement(i) ==
  LET Better(best, j) ==
        IF ~ CoordAt(i) < CoordAt(to_rm[j]) THEN best
        ELSE IF best = 0 \/ CoordAt(to_rm[j]) < CoordAt(best) THEN j ELSE best
  IN  FoldLeft(Better, 0, [j \in 1 .. Len(to_rm) |-> j])

num_to_rm_of_all ==                                               \* a variant
  IF Len(bfs_list) > prog_qubits THEN Len(bfs_list) - prog_qubits ELSE 0

num_to_rm ==
  LET surplus == Len(bfs_list) - prog_qubits + Cardinality(best_subset)
  IN  IF surplus > 0 THEN surplus ELSE 0

SumOfCoords(S) == SumFunctionOnSet([v \in S |-> coord_value(v)], S)

-----------------------------------------------------------------------------
DenseInit ==
  /\ dense_pc = "roots"
  /\ platform \in Platforms
  /\ mapped \in SUBSET (0 .. platform.n - 1)
  /\ prog_qubits \in 1 .. platform.n
  /\ best_subset = mapped
  /\ roots = {} /\ bfs_list = <<>> /\ vec_markers = [v \in Vertices |-> 0]
  /\ dense_iteration = 0 /\ new_found_vertices = <<>> /\ sources = <<>> /\ targets = {} /\ num_left = 0
  /\ to_rm = <<>> /\ scanned = 0 /\ connectivity = 0
  /\ max_connectivity = 0 /\ outcome = {}

(* Nothing to do when the set is large enough.                             *)
FindRoots ==
  /\ dense_pc = "roots"
  /\ IF Cardinality(best_subset) >= prog_qubits
     THEN dense_pc' = "done" /\ UNCHANGED roots
     ELSE dense_pc' = "root" /\ roots' = RootsOf(best_subset)
  /\ UNCHANGED <<inputVars, searchVars, trimVars, keptVars>>

StartAtRoot ==
  /\ dense_pc = "root" /\ roots # {}
  /\ bfs_list' = <<NextRoot>>
  /\ vec_markers' = [v \in Vertices |-> IF v = NextRoot \/ v \in best_subset THEN 1 ELSE 0]
  /\ dense_iteration' = 1
  /\ new_found_vertices' = <<NextRoot>>
  /\ sources' = <<>> /\ targets' = {}
  /\ num_left' = prog_qubits - Cardinality(best_subset) - 1
  /\ roots' = roots \ {NextRoot}
  /\ dense_pc' = "search"
  /\ UNCHANGED <<inputVars, trimVars, keptVars>>

StartLayerUncounted ==                                            \* a variant
  /\ dense_pc = "search" /\ sources = <<>> /\ targets = {}
  /\ Len(new_found_vertices) > 0 /\ num_left > 0
  /\ sources' = new_found_vertices
  /\ new_found_vertices' = <<>>
  /\ UNCHANGED <<dense_pc, inputVars, roots, dense_iteration, bfs_list, vec_markers, targets, num_left, trimVars, keptVars>>

StartLayer ==
  /\ dense_pc = "search" /\ sources = <<>> /\ targets = {}
  /\ Len(new_found_vertices) > 0 /\ num_left > 0
  /\ sources' = new_found_vertices
  /\ new_found_vertices' = <<>>
  /\ dense_iteration' = dense_iteration + 1
  /\ UNCHANGED <<dense_pc, inputVars, roots, bfs_list, vec_markers, targets, num_left, trimVars, keptVars>>

StartSource ==
  /\ dense_pc = "search" /\ sources # <<>> /\ targets = {}
  /\ targets' = Linked(Head(sources))
  /\ sources' = Tail(sources)
  /\ UNCHANGED <<dense_pc, inputVars, roots, bfs_list, vec_markers, dense_iteration, new_found_vertices, num_left, trimVars, keptVars>>

(* A vertex marked at the start, the root or one of the given set, is not  *)
(* collected but passed through, once.                                     *)
VisitUnmarked ==                                                  \* a variant
  /\ dense_pc = "search" /\ targets # {}
  /\ LET target == Least(targets)
     IN  /\ targets' = targets \ {target}
         /\ IF vec_markers[target] > 0
            THEN UNCHANGED <<bfs_list, vec_markers, new_found_vertices, num_left>>
            ELSE /\ bfs_list' = Append(bfs_list, target)
                 /\ num_left' = num_left - 1
                 /\ vec_markers' = [vec_markers EXCEPT ![target] = dense_iteration]
                 /\ new_found_vertices' = Append(new_found_vertices, target)
  /\ UNCHANGED <<dense_pc, inputVars, roots, sources, dense_iteration, trimVars, keptVars>>

Visit ==
  /\ dense_pc = "search" /\ targets # {}
  /\ LET target == Least(targets)
     IN  /\ targets' = targets \ {target}
         /\ IF vec_markers[target] = 0
            THEN bfs_list' = Append(bfs_list, target) /\ num_left' = num_left - 1
            ELSE UNCHANGED <<bfs_list, num_left>>
         /\ IF vec_markers[target] <= 1
            THEN /\ vec_markers' = [vec_markers EXCEPT ![target] = dense_iteration]
                 /\ new_found_vertices' = Append(new_found_vertices, target)
            ELSE UNCHANGED <<vec_markers, new_found_vertices>>
  /\ UNCHANGED <<dense_pc, inputVars, roots, sources, dense_iteration, trimVars, keptVars>>

StartTrim ==
  /\ dense_pc = "search" /\ sources = <<>> /\ targets = {}
  /\ ~ (Len(new_found_vertices) > 0 /\ num_left > 0)
  /\ to_rm' = <<>> /\ scanned' = 0 /\ connectivity' = 0
  /\ dense_pc' = "trim"
  /\ UNCHANGED <<inputVars, roots, searchVars, keptVars>>

TrimPosition ==
  /\ dense_pc = "trim" /\ scanned < Len(bfs_list)
  /\ LET i == scanned + 1
     IN  /\ to_rm' = IF Len(to_rm) < num_to_rm THEN Append(to_rm, i)
                     ELSE IF replacement(i) # 0
                     THEN [to_rm EXCEPT ![replacement(i)] = i]
                     ELSE to_rm
         /\ connectivity' = connectivity + CoordAt(i)
         /\ scanned' = i
  /\ UNCHANGED <<dense_pc, inputVars, roots, searchVars, keptVars>>

SumRemoved == SumFunctionOnSet([j \in DOMAIN to_rm |-> CoordAt(to_rm[j])], DOMAIN to_rm)
Kept       == {bfs_list[i] : i \in DOMAIN bfs_list \ ToSet(to_rm)}

(* The removed elements are subtracted, a better collection is kept, and   *)
(* the search ends early when it cannot be improved on.                    *)
KeepBetter ==
  /\ dense_pc = "trim" /\ scanned = Len(bfs_list)
  /\ LET trimmed == connectivity - SumRemoved
     IN  /\ connectivity' = trimmed
         /\ IF trimmed > max_connectivity
            THEN max_connectivity' = trimmed /\ outcome' = Kept
            ELSE UNCHANGED <<max_connectivity, outcome>>
  /\ dense_pc' = IF max_connectivity' = 8 * prog_qubits THEN "finish" ELSE "root"
  /\ UNCHANGED <<inputVars, roots, searchVars, to_rm, scanned, best_subset>>

ReturnSet ==
  /\ dense_pc = "finish" \/ (dense_pc = "root" /\ roots = {})
  /\ best_subset' = best_subset \cup outcome
  /\ dense_pc' = "done"
  /\ UNCHANGED <<inputVars, roots, searchVars, trimVars, max_connectivity, outcome>>

DenseNext ==
  \/ FindRoots \/ StartAtRoot \/ StartLayer \/ StartSource \/ Visit \/ StartTrim
  \/ TrimPosition \/ KeepBetter \/ ReturnSet

DenseSpec == DenseInit /\ [][DenseNext]_denseVars

-----------------------------------------------------------------------------
DenseTypeOK ==
  /\ dense_pc \in {"roots", "root", "search", "trim", "finish", "done"}
  /\ best_subset \subseteq Vertices /\ mapped \subseteq Vertices
  /\ roots \subseteq Vertices /\ targets \subseteq Vertices /\ outcome \subseteq Vertices
  /\ \A s \in {bfs_list, new_found_vertices, sources} : s \in Seq(Vertices)
  /\ vec_markers \in [Vertices -> Nat]
  /\ num_left \in Int
  /\ to_rm \in Seq(1 .. Len(bfs_list)) \/ dense_pc \notin {"trim"}
  /\ {dense_iteration, scanned, connectivity, max_connectivity} \subseteq Nat

(* The number by which collections are compared is that of the collection  *)
(* that is kept, after trimming.                                           *)
ConnectivityIsOfOutcome == max_connectivity = SumOfCoords(outcome)

(* What the placement methods rely on: qubits in use stay in the set, and  *)
(* it never has more qubits than were asked for, so that the qubits that   *)
(* were not in use are as many as there are left to place.  All along, the *)
(* variables keep their kinds and the best collection has its own number.  *)
ExtendsMappedSet ==
  /\ DenseTypeOK /\ ConnectivityIsOfOutcome
  /\ dense_pc = "done" =>
       /\ mapped \subseteq best_subset
       /\ best_subset = mapped \/ Cardinality(best_subset) <= prog_qubits

IsConnected ==
  \A S \in SUBSET Vertices :
    S \notin {{}, Vertices} => \E v \in S : \E w \in Linked(v) : w \notin S

(* On a connected platform with a link the set asked for is always found:  *)
(* qubits in use surround a root without cutting it off from the others.   *)
FindsEnoughQubits ==
  dense_pc = "done" /\ IsConnected /\ platform.n > 1 =>
    Cardinality(best_subset) >= prog_qubits

AnswersAsPromised == ExtendsMappedSet /\ FindsEnoughQubits
==============================================================================
