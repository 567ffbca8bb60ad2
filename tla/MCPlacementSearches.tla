-------------------------- MODULE MCPlacementSearches --------------------------
(***************************************************************************)
(* The placement of programs, and the two searches of                      *)
(* QuantumPlacementUtils each from calls of its own: a behaviour is one of *)
(* the three, while the variables of the others stay as for one input      *)
(* that is not started.                                                    *)
(***************************************************************************)
EXTENDS LocalSearch, DenseSet, Placement, MCPlacementPrograms, TLC

VARIABLE part        \* of the three

(***************************************************************************)
(* Platforms for the dense set: a line, a ring, a grid, a tree with a long *)
(* branch, two parts that are not linked, a single qubit, and a qubit with *)
(* as many neighbours as the search expects at most.                       *)
(***************************************************************************)
Platform(n, pairs) == [n |-> n, links |-> {{p[1], p[2]} : p \in pairs}]

Line  == Platform(5, {<<0, 1>>, <<1, 2>>, <<2, 3>>, <<3, 4>>})
Ring  == Platform(5, {<<0, 1>>, <<1, 2>>, <<2, 3>>, <<3, 4>>, <<0, 4>>})
Grid  == Platform(6, {<<0, 1>>, <<1, 2>>, <<3, 4>>, <<4, 5>>, <<0, 3>>, <<1, 4>>, <<2, 5>>})
Tree  == Platform(6, {<<0, 1>>, <<1, 2>>, <<2, 3>>, <<2, 4>>, <<0, 5>>})
Fork  == Platform(6, {<<0, 1>>, <<0, 2>>, <<0, 3>>, <<1, 4>>, <<3, 4>>, <<3, 5>>})
Parts == Platform(4, {<<0, 1>>, <<2, 3>>})
Dot   == Platform(1, {})

SmallPlatforms == {Line, Ring, Grid, Tree, Fork, Parts, Dot}

(* Eight neighbours: the largest coordination number the search expects.   *)
Star == Platform(9, {<<8, v>> : v \in 0 .. 7})

SmallAndStar == SmallPlatforms \cup {Star}

(***************************************************************************)
(* The platform of local search: a ring 0-1-2-3 and a qubit 4 linked to 1; *)
(* on a tree, an exchange changes no entry of the table away from it.      *)
(* Qubits of the program are numbered as in the map of their block.        *)
(***************************************************************************)
Pan == {{0, 1}, {1, 2}, {2, 3}, {0, 3}, {1, 4}}

(* The length of a shortest path, as the platform computes it: no two      *)
(* qubits are more than three links apart.                                 *)
PanDistance ==
  [s \in {{x, y} : x, y \in 0 .. 4} |->
     IF Cardinality(s) = 1 THEN 0
     ELSE IF s \in Pan THEN 1
     ELSE IF \E z \in 0 .. 4 : \A x \in s : {x, z} \in Pan THEN 2
     ELSE 3]

Call(program, physical, fixed, pairs) ==
  [program |-> program, physical |-> physical, fixed |-> fixed,
   graph |-> {{p[1], p[2]} : p \in pairs}]

All == <<0, 1, 2, 3, 4>>

(* Nothing fixed, as for the global qubits: a triangle, a path and a star. *)
Free3 == Call(<<0, 1, 2>>, All, <<>>, {<<0, 1>>, <<1, 2>>, <<0, 2>>})
Path4 == Call(<<0, 1, 2, 3>>, All, <<>>, {<<0, 1>>, <<1, 2>>, <<2, 3>>})

(* Global qubits fixed by an earlier search, local ones to be placed.      *)
Fixed1 == Call(<<1, 2>>, <<0, 1, 2, 4>>, 0 :> 3, {<<0, 1>>, <<1, 2>>, <<0, 2>>})
Fixed2 == Call(<<2, 3>>, <<0, 1, 4>>, (0 :> 3 @@ 1 :> 2), {<<0, 1>>, <<0, 2>>, <<1, 3>>, <<2, 3>>})

(* The fixed qubit in the middle leaves 4 without a link.                  *)
Cut == Call(<<1>>, <<0, 2, 3, 4>>, 0 :> 1, {<<0, 1>>})

(* No link among the usable qubits, nothing to place, too much to place.   *)
NoLink  == Call(<<1>>, <<0, 2, 4>>, (0 :> 1 @@ 2 :> 3), {<<0, 1>>})
Nothing == Call(<<>>, <<0, 1, 2, 3>>, 0 :> 4, {})
TooMany == Call(<<1, 2>>, <<3>>, (0 :> 0), {<<1, 2>>})

SmallCalls == {Free3, Path4, Fixed1, Fixed2, Cut, NoLink, Nothing, TooMany}

-----------------------------------------------------------------------------
SomeInput == CHOOSE c \in SmallInputs : TRUE

-----------------------------------------------------------------------------
allVars == <<vars, denseVars, placementVars, part>>

SearchesInit ==
  /\ part \in {"placement", "dense set", "local search"}
  /\ part # "placement"    => input = SomeInput
  /\ part # "dense set"    => platform = Dot /\ mapped = {}
  /\ part # "local search" => call = Nothing
  /\ Init /\ DenseInit /\ PlacementInit

Search ==
  \/ part = "dense set" /\ DenseNext /\ UNCHANGED <<part, vars, placementVars>>
  \/ part = "local search" /\ Next /\ UNCHANGED <<part, denseVars, placementVars>>

SearchesNext ==
  \/ Search
  \/ part = "placement" /\ PlacementNext /\ UNCHANGED <<part, vars, denseVars>>

SearchesSpec == SearchesInit /\ [][SearchesNext]_allVars /\ WF_allVars(Search)

(* Both searches end, the dense set because every layer brings new         *)
(* vertices or is the last, local search also when it gives up.            *)
SearchesTerminate ==
  <>(\/ part = "placement"
     \/ part = "dense set" /\ dense_pc = "done"
     \/ part = "local search" /\ pc \in {"done", "exit", "undefined"})
==============================================================================
