------------------------------ MODULE LocalSearch ------------------------------
(***************************************************************************)
(* LocalSearch::localSearch: places program qubits on physical qubits so   *)
(* that qubits with a common gate are close to one another.                *)
(*                                                                         *)
(* From a random placement, every iteration exchanges the contents of two  *)
(* linked qubits, a random pair or the one that lowers the cost most.  The *)
(* cost is never computed again: the change every exchange would make is   *)
(* kept in a table, of which only the entries that the last exchange may   *)
(* have changed are refreshed.                                             *)
(***************************************************************************)
EXTENDS Integers, Sequences, FiniteSets, Functions

CONSTANTS
  NumPhys,         \* qubits of the platform
  Distance,        \* pair {x, y} -> length of a shortest path between them
  Instances,       \* arguments of the call, see below
  num_iterations,
  num_resets,
  NoProgram        \* a physical qubit phys_to_program_map has no entry for

Phys == 0 .. NumPhys - 1

ASSUME PlatformShape ==
  /\ NumPhys \in Nat
  /\ \A x, y \in Phys : x # y => Distance[{x, y}] \in Nat \ {0}

ASSUME OptionsShape == num_iterations \in Nat /\ num_resets \in Nat

(* program: the qubits to place; physical: where, in ascending order;      *)
(* fixed: the placement of others; graph: pairs {p, q} with a common gate. *)
ProgramOf(c)  == {c.program[i] : i \in 1 .. Len(c.program)}
PhysicalOf(c) == {c.physical[i] : i \in 1 .. Len(c.physical)}

ASSUME InstanceShape ==
  \A c \in Instances :
    /\ Len(c.program) \in Nat /\ \A i, j \in 1 .. Len(c.program) : c.program[i] = c.program[j] => i = j
    /\ Len(c.physical) \in Nat /\ \A i, j \in 1 .. Len(c.physical) : c.physical[i] = c.physical[j] => i = j
    /\ c.fixed \in [DOMAIN c.fixed -> Phys] /\ IsFiniteSet(DOMAIN c.fixed)
    /\ \A p, q \in DOMAIN c.fixed : c.fixed[p] = c.fixed[q] => p = q
    /\ PhysicalOf(c) \subseteq Phys /\ \A p \in DOMAIN c.fixed : c.fixed[p] \notin PhysicalOf(c)
    /\ ProgramOf(c) \cap DOMAIN c.fixed = {}
    /\ \A e \in c.graph : \E p, q \in ProgramOf(c) \cup DOMAIN c.fixed : p # q /\ e = {p, q}
    /\ NoProgram \notin ProgramOf(c) \cup DOMAIN c.fixed

VARIABLES
  pc,
  call,                  \* the instance
  reset, iteration,
  current_placement,     \* program qubit -> physical qubit, with the fixed ones
  current_placement_cost,
  phys_to_program_map,
  swaps_to_check,
  placement_cost_differential,
  best_placement, best_placement_cost

currentVars == <<current_placement, current_placement_cost, phys_to_program_map>>
tableVars   == <<swaps_to_check, placement_cost_differential>>
bestVars    == <<best_placement, best_placement_cost>>
vars == <<pc, call, reset, iteration, currentVars, tableVars, bestVars>>

-----------------------------------------------------------------------------
ToPlace  == ProgramOf(call)
Usable   == PhysicalOf(call)
Program  == ToPlace \cup DOMAIN call.fixed
Neighbours(p) == {q \in Program : {p, q} \in call.graph}

connected_pairs ==
  {{xy[1], xy[2]} : xy \in {xy \in Usable \X Usable : xy[1] # xy[2] /\ Distance[{xy[1], xy[2]}] = 1}}

(* Swaps needed before two qubits interact.  Pairs of fixed qubits cost    *)
(* the same in every placement and are left out.                           *)
heuristic_cost(x, y) ==
  IF x = y \/ {x, y} \cap Usable = {} THEN 0 ELSE Distance[{x, y}] - 1

PairCost(placement, e) ==
  LET p == CHOOSE p \in e : TRUE
      q == CHOOSE q \in e : q # p
  IN  heuristic_cost(placement[p], placement[q])

valueHeuristic(placement) == SumFunction([e \in call.graph |-> PairCost(placement, e)])

(* What moving the qubit on x to y changes for its neighbours, which stay. *)
CostOfMove(x, y) ==
  IF phys_to_program_map[x] = NoProgram THEN 0
  ELSE SumFunction([q \in Neighbours(phys_to_program_map[x]) |->
                      heuristic_cost(y, current_placement[q]) - heuristic_cost(x, current_placement[q])])

FirstOf(s)  == CHOOSE x \in s : \A y \in s : x <= y
SecondOf(s) == CHOOSE x \in s : \A y \in s : x >= y

valueHeuristicDifferential(s) ==
  CostOfMove(FirstOf(s), SecondOf(s)) + CostOfMove(SecondOf(s), FirstOf(s))

initializePhysToProgramMap(placement) ==
  [x \in Phys |-> IF \E p \in DOMAIN placement : placement[p] = x
                  THEN CHOOSE p \in DOMAIN placement : placement[p] = x
                  ELSE NoProgram]

(* swapQubits moves the program qubits on either side, if there are any.   *)
Moved(placement, x, y) ==
  [p \in DOMAIN placement |->
     IF p = phys_to_program_map[x] THEN y
     ELSE IF p = phys_to_program_map[y] THEN x ELSE placement[p]]

ExchangedUnerased(x, y) ==                                        \* a variant
  LET Entry(to, from) == IF phys_to_program_map[from] = NoProgram
                         THEN phys_to_program_map[to] ELSE phys_to_program_map[from]
  IN  [phys_to_program_map EXCEPT ![x] = Entry(x, y), ![y] = Entry(y, x)]

Exchanged(x, y) ==
  [phys_to_program_map EXCEPT ![x] = phys_to_program_map[y],
                              ![y] = phys_to_program_map[x]]

(* The qubits around an exchange of x and y: both, and where the program   *)
(* qubits now on them have their neighbours.                               *)
AroundProgram(placement, map, x, y) ==                            \* a variant
  LET moved == {map[x], map[y]} \ {NoProgram}
  IN  {placement[p] : p \in moved \cup UNION {Neighbours(q) : q \in moved}}

AroundMoved(placement, map, x, y) == {x, y}                       \* a variant

Around(placement, map, x, y) ==
  LET moved == {map[x], map[y]} \ {NoProgram}
  IN  {x, y} \cup {placement[p] : p \in UNION {Neighbours(q) : q \in moved}}

PairsAt(S)   == {l \in connected_pairs : l \cap S # {}}
Vacant(map)  == {l \in connected_pairs : \A x \in l : map[x] = NoProgram}

-----------------------------------------------------------------------------
Init ==
  /\ pc = "start"
  /\ call \in Instances
  /\ reset = 0 /\ iteration = 0
  /\ current_placement = <<>> /\ current_placement_cost = 0
  /\ phys_to_program_map = [x \in Phys |-> NoProgram]
  /\ swaps_to_check = {} /\ placement_cost_differential = <<>>
  /\ best_placement = <<>> /\ best_placement_cost = 0

(* displayErrorAndExit                                                     *)
TooManyQubits ==
  /\ pc = "start"
  /\ Len(call.program) > Len(call.physical)
  /\ pc' = "exit"
  /\ UNCHANGED <<call, reset, iteration, currentVars, tableVars, bestVars>>

InOrder ==
  [p \in Program |-> IF p \in DOMAIN call.fixed THEN call.fixed[p]
                     ELSE call.physical[CHOOSE i \in 1 .. Len(call.program) : call.program[i] = p]]

PlaceInOrder ==
  /\ pc = "start"
  /\ Len(call.program) <= Len(call.physical)
  /\ best_placement' = InOrder
  /\ IF connected_pairs = {} \/ ToPlace = {}
     THEN pc' = "done" /\ UNCHANGED best_placement_cost
     ELSE pc' = "reset" /\ best_placement_cost' = valueHeuristic(best_placement')
  /\ UNCHANGED <<call, reset, iteration, currentVars, tableVars>>

(* A random placement; the table starts empty, and every pair with a       *)
(* program qubit on it is to be entered.                                   *)
Shuffle ==
  /\ pc = "reset" /\ reset < num_resets
  /\ \E where \in [ToPlace -> Usable] :
       /\ \A p, q \in ToPlace : p # q => where[p] # where[q]
       /\ current_placement' = [p \in Program |-> IF p \in ToPlace THEN where[p] ELSE call.fixed[p]]
  /\ current_placement_cost' = valueHeuristic(current_placement')
  /\ phys_to_program_map' = initializePhysToProgramMap(current_placement')
  /\ swaps_to_check' = PairsAt({current_placement'[p] : p \in Program})
  /\ placement_cost_differential' = <<>>
  /\ iteration' = 0
  /\ reset' = reset + 1
  /\ pc' = "check"
  /\ UNCHANGED <<call, bestVars>>

CostAfter(s) == current_placement_cost + valueHeuristicDifferential(s)

(* The search returns as soon as an exchange it looks at costs nothing.    *)
ReturnZeroCost ==
  /\ pc = "check" /\ iteration < num_iterations
  /\ \E s \in swaps_to_check :
       /\ CostAfter(s) = 0
       /\ best_placement' = Moved(current_placement, FirstOf(s), SecondOf(s))
       /\ best_placement_cost' = 0
  /\ pc' = "done"
  /\ UNCHANGED <<call, reset, iteration, currentVars, tableVars>>

CheckSwaps ==
  /\ pc = "check" /\ iteration < num_iterations
  /\ \A s \in swaps_to_check : CostAfter(s) # 0
  /\ placement_cost_differential' =
       [s \in DOMAIN placement_cost_differential \cup swaps_to_check |->
          IF s \in swaps_to_check THEN valueHeuristicDifferential(s)
          ELSE placement_cost_differential[s]]
  /\ pc' = "move"
  /\ UNCHANGED <<call, reset, iteration, currentVars, swaps_to_check, bestVars>>

(* The exchange of the pair s, the entries to refresh, and the entry of s  *)
(* itself: taking the exchange back reverts the cost.                      *)
Swap(s) ==
  LET x == FirstOf(s)
      y == SecondOf(s)
      around == PairsAt(Around(current_placement', phys_to_program_map', x, y))
      left   == (DOMAIN placement_cost_differential \ (around \cap Vacant(phys_to_program_map'))) \cup {s}
  IN  /\ current_placement' = Moved(current_placement, x, y)
      /\ phys_to_program_map' = Exchanged(x, y)
      /\ current_placement_cost' = current_placement_cost + placement_cost_differential[s]
      /\ swaps_to_check' = (around \ Vacant(phys_to_program_map')) \ {s}
      /\ placement_cost_differential' =
           [t \in left |-> IF t = s THEN - placement_cost_differential[s]
                           ELSE placement_cost_differential[t]]

KeepBest ==
  IF best_placement_cost > current_placement_cost'
  THEN best_placement' = current_placement' /\ best_placement_cost' = current_placement_cost'
  ELSE UNCHANGED bestVars

Move(s) ==
  /\ Swap(s)
  /\ KeepBest
  /\ iteration' = iteration + 1
  /\ pc' = "check"
  /\ UNCHANGED <<call, reset>>

(* Every pair in the table has a positive probability.                     *)
MoveRandom ==
  /\ pc = "move"
  /\ \E s \in DOMAIN placement_cost_differential : Move(s)

MoveBest ==
  /\ pc = "move"
  /\ \E s \in DOMAIN placement_cost_differential :
       /\ \A t \in DOMAIN placement_cost_differential :
            placement_cost_differential[s] <= placement_cost_differential[t]
       /\ Move(s)

(* The minimum of an empty table is its end, and a random index into an    *)
(* empty vector is 0: both are dereferenced, and anything may follow.      *)
MoveInEmptyTable ==
  /\ pc = "move" /\ DOMAIN placement_cost_differential = {}
  /\ pc' = "undefined"
  /\ UNCHANGED <<call, reset, iteration, currentVars, tableVars, bestVars>>

EndIterationsAgain ==                                             \* a variant
  /\ pc = "check" /\ iteration = num_iterations
  /\ pc' = "reset" /\ reset' = 0
  /\ UNCHANGED <<call, iteration, currentVars, tableVars, bestVars>>

EndIterations ==
  /\ pc = "check" /\ iteration = num_iterations
  /\ pc' = "reset"
  /\ UNCHANGED <<call, reset, iteration, currentVars, tableVars, bestVars>>

ReturnBest ==
  /\ pc = "reset" /\ reset = num_resets
  /\ pc' = "done"
  /\ UNCHANGED <<call, reset, iteration, currentVars, tableVars, bestVars>>

Next ==
  \/ TooManyQubits \/ PlaceInOrder \/ Shuffle
  \/ ReturnZeroCost \/ CheckSwaps
  \/ MoveRandom \/ MoveBest \/ MoveInEmptyTable
  \/ EndIterations \/ ReturnBest

Spec     == Init /\ [][Next]_vars
FairSpec == Spec /\ WF_vars(Next)

-----------------------------------------------------------------------------
Searching == pc \in {"check", "move"}

TypeOK ==
  /\ pc \in {"start", "reset", "check", "move", "done", "exit", "undefined"}
  /\ reset \in 0 .. num_resets /\ iteration \in 0 .. num_iterations
  /\ current_placement \in [DOMAIN current_placement -> Phys]
  /\ {current_placement_cost, best_placement_cost} \subseteq Nat
  /\ phys_to_program_map \in [Phys -> Program \cup {NoProgram}]
  /\ swaps_to_check \subseteq connected_pairs
  /\ DOMAIN placement_cost_differential \subseteq connected_pairs

IsPlacement(placement) ==
  /\ DOMAIN placement = Program
  /\ \A p, q \in Program : p # q => placement[p] # placement[q]
  /\ \A p \in DOMAIN call.fixed : placement[p] = call.fixed[p]
  /\ \A p \in ToPlace : placement[p] \in Usable

(* The two maps are inverse of one another, no two qubits share a place    *)
(* and the fixed ones never move; so is the placement that is returned.    *)
PlacementsValid ==
  /\ Searching => /\ IsPlacement(current_placement)
                  /\ phys_to_program_map = initializePhysToProgramMap(current_placement)
  /\ pc = "done" => IsPlacement(best_placement)

(* The search never returns anything worse than placing in order.          *)
NeverWorse ==
  pc = "done" => valueHeuristic(best_placement) <= valueHeuristic(InOrder)

(* "assert(valueHeuristic(best_placement, application_graph) ==            *)
(* best_placement_cost)", at any time, and the same for the current one:   *)
(* the costs that were added up are those of the placements, so that they  *)
(* are never negative, and what is returned is the best that was met.      *)
CostsExact ==
  /\ TypeOK /\ NeverWorse
  /\ Searching => current_placement_cost = valueHeuristic(current_placement)
  /\ pc \in {"reset", "check", "move"} => best_placement_cost = valueHeuristic(best_placement)
  /\ pc = "done" /\ reset > 0 => best_placement_cost = valueHeuristic(best_placement)

(* Entries of the table that were not refreshed still say what an exchange *)
(* would change, and the table has an entry for every pair with a program  *)
(* qubit on it and for no other.                                           *)
TableIsExact ==
  pc = "move" =>
    /\ DOMAIN placement_cost_differential = connected_pairs \ Vacant(phys_to_program_map)
    /\ \A s \in DOMAIN placement_cost_differential :
         placement_cost_differential[s] =
           valueHeuristic(Moved(current_placement, FirstOf(s), SecondOf(s)))
             - current_placement_cost

(* A search ends, also when it gives up.                                   *)
SearchTerminates == <>(pc \in {"done", "exit", "undefined"})

==============================================================================
