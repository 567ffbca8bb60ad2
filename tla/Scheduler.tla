------------------------------ MODULE Scheduler ------------------------------
(***************************************************************************)
(* The scheduler of quantum basic blocks, class QuantumScheduler, and the  *)
(* pass that turns the operands it leaves behind into qubit identifiers,   *)
(* ConvertQbitToQID.                                                       *)
(*                                                                         *)
(* A block (QBB) is a sequence of gates on program qubits.  The scheduler  *)
(* walks over it and, when the platform cannot execute a gate where its    *)
(* qubits are, inserts swaps that bring them where it can (populate).  A   *)
(* block that holds its qubits is then extended with swaps that bring all  *)
(* of them back (scan and undo, or prune and sort).  All gates have been   *)
(* entered in a table of time slots, one row per physical qubit; the table *)
(* is swept into a sequence (sweep), the block is rewritten in that order  *)
(* (reorder) and its operands are converted (convert).  Then the next      *)
(* block is taken up by the same scheduler object.                         *)
(***************************************************************************)
EXTENDS QubitMaps, FiniteSets

CONSTANTS
  NumPhys,            \* num_phys_qubits_
  Links,              \* pairs {x, y} that the routing swap is available on
  Available,          \* native gate -> tuples of qubits it is available on
  Duration,           \* native gate -> clock cycles
  SwapDuration,       \* clock cycles of the routing swap
  Programs,           \* the blocks: sequences of [kind, qubits]
  InitialMaps,        \* placements a block may start from
  BackwardMethod,     \* backward_scheduling_method_
  HamiltonianPath,    \* hamil_path_for_sort_
  CanonicalSchedule,  \* scheduling canonical gates instead of native ones
  MatchedMeasurement  \* QM.isMeasurementMatched()

Phys == 0 .. NumPhys - 1

IsIdle  == 2147483647     \* is_idle_, INT_MAX
MaxTime == 2147483646     \* the time no qubit ever waits for

Arity1Default == "rotz"
Arity2Default == "cphase"

(* The platform describes gates on one qubit and on pairs.                 *)
ASSUME PlatformShape ==
  /\ NumPhys \in Nat \ {0}
  /\ \A l \in Links : \E x, y \in Phys : x # y /\ l = {x, y}
  /\ SwapDuration \in Nat \ {0}
  /\ \A k \in DOMAIN Available :
        /\ Duration[k] \in Nat \ {0}
        /\ \A xs \in Available[k] : xs \in Seq(Phys) /\ Len(xs) \in {1, 2}
  /\ HamiltonianPath \in Seq(Phys)
  /\ BackwardMethod \in {"retrace", "sort"}
  /\ CanonicalSchedule \in BOOLEAN /\ MatchedMeasurement \in BOOLEAN

(* A block names the qubits of its gates, and starts with all of them in   *)
(* place (confirmExistenceOfQubitMapsInQuantumModule).                     *)
ASSUME BlockShape ==
  /\ \A p \in Programs :
        /\ p \in Seq([kind : STRING, qubits : Seq(Qubits)])
        /\ \A i \in 1 .. Len(p) :
              /\ Len(p[i].qubits) > 0
              /\ p[i].kind \in {"init", "meas", "measz"} => Len(p[i].qubits) = 1
              /\ \A m \in InitialMaps : \A k \in 1 .. Len(p[i].qubits) :
                    m.prog[p[i].qubits[k]] \in Phys
  /\ \A m \in InitialMaps : m \in QubitMap(Phys) /\ isConsistent(m)

VARIABLES
  pc,                 \* the part of runImpl being executed
  gates,              \* the block as it was before scheduling
  release,            \* isReleaseQBB(QBB)
  initial_qubit_map_, \* the placement at the start of the block
  qubit_map_,         \* the placement after the swaps added so far
  final_qubit_map,    \* QM.final_qubit_maps[&QBB]
  gate_index,         \* gates already in the table
  route,              \* swaps left to do for the current gate, and its goal
  routing,            \* routing_source_ and routing_target_, as pairs
  measured,           \* phys_qubits_already_measured
  operands,           \* the operands written back, gate by gate
  table_,             \* per physical qubit, entries [gate, end]
  todo,               \* temp_routing_source and temp_routing_target
  scan,               \* loop index over todo or over line
  was_swap_removed,
  line,               \* the path the sorting methods work on
  sweep,              \* locals of convertTableToSequence
  sequence,           \* its result
  block               \* the block being rewritten: [gate, qubits]

(* History variables: trail[k] is the placement before swap k of the swaps *)
(* that are still to be undone; where and executed follow the rewritten    *)
(* block as hardware runs it: the program qubit each physical qubit holds, *)
(* and the program gates executed so far, with the qubits they acted on.   *)
VARIABLES trail, where, executed

blockVars   == <<gates, release, initial_qubit_map_>>
forwardVars == <<gate_index, route, measured, operands>>
tableVars   == <<routing, table_, qubit_map_>>
loopVars    == <<todo, scan, was_swap_removed, line>>
outputVars  == <<sweep, sequence, block>>
histVars    == <<where, executed>>
vars == <<pc, blockVars, final_qubit_map, forwardVars, tableVars, loopVars,
          outputVars, trail, histVars>>

-----------------------------------------------------------------------------
(* The platform, as class Machine answers for it.                          *)

Linked(x, y) == {x, y} \in Links

(* Simple paths along links.                                               *)
PathsFrom == [x \in Phys |->
  {p \in UNION {[1 .. n -> Phys] : n \in 1 .. NumPhys} :
     /\ p[1] = x
     /\ \A i, j \in 1 .. Len(p) : i # j => p[i] # p[j]
     /\ \A i \in 2 .. Len(p) : Linked(p[i - 1], p[i])}]

PathEnd(p)    == p[Len(p)]
PathQubits(p) == {p[i] : i \in 1 .. Len(p)}

SwapsOf(p) == [i \in 1 .. Len(p) - 1 |-> <<p[i], p[i + 1]>>]

(* A gate the platform does not list is scheduled as a default one of the  *)
(* same arity when canonical gates are scheduled.  Otherwise generic       *)
(* preparation and measurement cost one cycle anywhere.                    *)
PlatformKind(g) ==
  IF CanonicalSchedule /\ g.kind \notin DOMAIN Available
  THEN IF Len(g.qubits) = 1 THEN Arity1Default ELSE Arity2Default
  ELSE g.kind

IsGenericSPAM(g) == PlatformKind(g) \in {"init", "meas"}

IsAvailable(g, xs) ==
  \/ IsGenericSPAM(g)
  \/ PlatformKind(g) \in DOMAIN Available /\ xs \in Available[PlatformKind(g)]

GateDuration(g) == IF IsGenericSPAM(g) THEN 1 ELSE Duration[PlatformKind(g)]

IsMatchedMeasurement(g) == MatchedMeasurement /\ PlatformKind(g) = "measz"

(* What updateShortestPathToAvailable1QubitGate and ...2QubitGate may      *)
(* answer for a gate on the physical qubits xs: swaps along one path per   *)
(* operand, and the qubits the operands are on after them.  The swaps are  *)
(* executed path after path, so that no path may displace the operand that *)
(* is not its own: the first one avoids where the second starts, the       *)
(* second one where the first ends.                                        *)
RoutesTo(g, xs) ==
  IF Len(xs) = 1
  THEN {[swaps |-> SwapsOf(p), goal |-> <<PathEnd(p)>>] :
          p \in {p \in PathsFrom[xs[1]] :
                   /\ IsAvailable(g, <<PathEnd(p)>>)
                   /\ IsMatchedMeasurement(g) => PathEnd(p) \notin measured}}
  ELSE {[swaps |-> SwapsOf(p[1]) \o SwapsOf(p[2]),
         goal  |-> <<PathEnd(p[1]), PathEnd(p[2])>>] :
          p \in {p \in PathsFrom[xs[1]] \X PathsFrom[xs[2]] :
                   /\ xs[2] \notin PathQubits(p[1])
                   /\ PathEnd(p[1]) \notin PathQubits(p[2])
                   /\ IsAvailable(g, <<PathEnd(p[1]), PathEnd(p[2])>>)}}

-----------------------------------------------------------------------------
(* The table.                                                              *)

EndTimeOfFirst(x) == IF table_[x] = <<>> THEN 0 ELSE table_[x][1].end   \* a variant

EndTime(x) == IF table_[x] = <<>> THEN 0 ELSE table_[x][Len(table_[x])].end

(* A variant that does not pad the rows of the qubits that are early.      *)
addGateToTableUnpadded(xs, g, duration) ==
  LET start == CHOOSE t \in {EndTime(x) : x \in xs} : \A x \in xs : EndTime(x) <= t
  IN  table_' = [x \in Phys |->
        IF x \in xs THEN Append(table_[x], [gate |-> g, end |-> start + duration])
                   ELSE table_[x]]

(* A gate starts when the last of its qubits is available; the rows of the *)
(* others are padded with an idle entry up to that time.                   *)
addGateToTable(xs, g, duration) ==
  LET start == CHOOSE t \in {EndTime(x) : x \in xs} : \A x \in xs : EndTime(x) <= t
      padding(x) == IF EndTime(x) < start THEN <<[gate |-> IsIdle, end |-> start]>>
                                          ELSE <<>>
  IN  table_' = [x \in Phys |->
        IF x \in xs
        THEN table_[x] \o padding(x) \o <<[gate |-> g, end |-> start + duration]>>
        ELSE table_[x]]

(* One routing swap: recorded, entered in the table under the opposite of  *)
(* its position, and applied to the placement.                             *)
addRoutingSwap(s) ==
  /\ routing' = Append(routing, s)
  /\ addGateToTable({s[1], s[2]}, -Len(routing'), SwapDuration)
  /\ qubit_map_' = updateMapBySwappingPhysQubits(qubit_map_, s[1], s[2])

(* The operand written back for physical qubit x: a QID, or the program    *)
(* qubit that was on x at the start of the block.  If there was none the   *)
(* code indexes fromIdToProgQbitRef out of its bounds: any qubit may be    *)
(* read.                                                                   *)
OperandsFor(x) ==
  IF ~CanonicalSchedule THEN {<<"qid", x>>}
  ELSE IF initial_qubit_map_.phys[x] # Free
       THEN {<<"prog", initial_qubit_map_.phys[x]>>}
       ELSE {<<"prog", q>> : q \in Qubits}

-----------------------------------------------------------------------------
(* populateTableFromQBB                                                    *)

NoRoute == [swaps |-> <<>>, goal |-> <<>>]
NoSweep == [time |-> 0, iq |-> 0, counter |-> 0, min |-> MaxTime,
            Idxs |-> [x \in Phys |-> 0]]

CurrentGate  == gates[gate_index + 1]
CurrentPlace == [i \in 1 .. Len(CurrentGate.qubits) |->
                   qubit_map_.prog[CurrentGate.qubits[i]]]

NeedsRouting ==
  \/ ~IsAvailable(CurrentGate, CurrentPlace)
  \/ IsMatchedMeasurement(CurrentGate)

MeasuredUnchanged(g, goal) == measured                                    \* a variant

MeasuredAfter(g, goal) ==
  IF IsMatchedMeasurement(g) THEN measured \cup {goal[1]} ELSE measured

(* Take up the next block.                                                 *)
StartQBB ==
  /\ pc = "idle"
  /\ gates' \in Programs
  /\ release' \in BOOLEAN
  /\ initial_qubit_map_' \in InitialMaps
  /\ qubit_map_' = initial_qubit_map_'
  /\ final_qubit_map' = initial_qubit_map_'
  /\ table_' = [x \in Phys |-> <<>>]
  /\ gate_index' = 0
  /\ measured' = {}
  /\ operands' = <<>>
  /\ pc' = "populate"
  /\ where' = initial_qubit_map_'
  /\ executed' = <<>>
  /\ UNCHANGED <<route, routing, loopVars, outputVars, trail>>

(* A variant that replaces operands of canonical gates only.               *)
placeGateCanonical(xs) ==
  /\ addGateToTable({xs[i] : i \in 1 .. Len(xs)}, gate_index, GateDuration(CurrentGate))
  /\ IF CanonicalSchedule
     THEN \E ops \in [1 .. Len(xs) -> UNION {OperandsFor(x) : x \in Phys}] :
            /\ \A i \in 1 .. Len(xs) : ops[i] \in OperandsFor(xs[i])
            /\ operands' = Append(operands, ops)
     ELSE UNCHANGED operands
  /\ gate_index' = gate_index + 1

(* The end of an iteration: the gate goes into the table and its operands  *)
(* are replaced.                                                           *)
placeGate(xs) ==
  /\ addGateToTable({xs[i] : i \in 1 .. Len(xs)}, gate_index, GateDuration(CurrentGate))
  /\ \E ops \in [1 .. Len(xs) -> UNION {OperandsFor(x) : x \in Phys}] :
       /\ \A i \in 1 .. Len(xs) : ops[i] \in OperandsFor(xs[i])
       /\ operands' = Append(operands, ops)
  /\ gate_index' = gate_index + 1

(* A gate available where its qubits are.                                  *)
ScheduleInPlace ==
  /\ pc = "populate" /\ gate_index < Len(gates)
  /\ ~NeedsRouting
  /\ placeGate(CurrentPlace)
  /\ UNCHANGED <<pc, blockVars, final_qubit_map, route, measured, routing,
                 qubit_map_, loopVars, outputVars, trail, histVars>>

FindRoute ==
  /\ pc = "populate" /\ gate_index < Len(gates)
  /\ NeedsRouting
  /\ Len(CurrentPlace) <= 2
  /\ route' \in RoutesTo(CurrentGate, CurrentPlace)
  /\ measured' = MeasuredAfter(CurrentGate, route'.goal)
  /\ pc' = "route"
  /\ UNCHANGED <<blockVars, final_qubit_map, gate_index, operands, tableVars,
                 loopVars, outputVars, trail, histVars>>

(* The compiler exits: the gate has more than two operands, or no place in *)
(* the platform can be reached where it is available.                      *)
FailToRoute ==
  /\ pc = "populate" /\ gate_index < Len(gates)
  /\ NeedsRouting
  /\ Len(CurrentPlace) > 2 \/ RoutesTo(CurrentGate, CurrentPlace) = {}
  /\ pc' = "no route"
  /\ UNCHANGED <<blockVars, final_qubit_map, forwardVars, tableVars, loopVars,
                 outputVars, trail, histVars>>

RoutingSwap ==
  /\ pc = "route" /\ route.swaps # <<>>
  /\ addRoutingSwap(Head(route.swaps))
  /\ route' = [route EXCEPT !.swaps = Tail(@)]
  /\ trail' = Append(trail, qubit_map_)
  /\ UNCHANGED <<pc, blockVars, final_qubit_map, gate_index, measured, operands,
                 loopVars, outputVars, histVars>>

PlaceRouted ==
  /\ pc = "route" /\ route.swaps = <<>>
  /\ placeGate(route.goal)
  /\ route' = NoRoute
  /\ pc' = "populate"
  /\ UNCHANGED <<blockVars, final_qubit_map, measured, routing, qubit_map_,
                 loopVars, outputVars, trail, histVars>>

(* All gates are in the table: a hold block is brought back to its final   *)
(* placement, a release block gets the placement reached as its final one. *)
EndPopulate ==
  /\ pc = "populate" /\ gate_index = Len(gates)
  /\ IF release
     THEN /\ final_qubit_map' = qubit_map_
          /\ pc' = "sweep" /\ sweep' = NoSweep /\ sequence' = <<>>
          /\ UNCHANGED <<todo, scan, was_swap_removed, line>>
     ELSE /\ IF BackwardMethod = "retrace"
             THEN /\ todo' = routing /\ scan' = Len(routing)
                  /\ was_swap_removed' = FALSE
                  /\ pc' = IF IsEqual(initial_qubit_map_, final_qubit_map)
                           THEN "scan" ELSE "not restored"
                  /\ UNCHANGED line
             ELSE /\ line' = HamiltonianPath /\ scan' = Len(HamiltonianPath)
                  /\ pc' = "prune"
                  /\ UNCHANGED <<todo, was_swap_removed>>
          /\ UNCHANGED <<final_qubit_map, sweep, sequence>>
  /\ UNCHANGED <<blockVars, forwardVars, tableVars, block, trail, histVars>>

-----------------------------------------------------------------------------
(* extendTableWithRoutingBackToExpectedFinalQubitMap, "retrace"            *)

Ends(s) == {s[1], s[2]}

WithoutShifted(s, i, j) ==   \* a variant: the second erase one place too far
  [k \in 1 .. Len(s) - 2 |->
     IF k < j THEN s[k] ELSE IF k < i THEN s[k + 1] ELSE s[k + 2]]

Without(s, i, j) ==   \* s without its elements j < i
  [k \in 1 .. Len(s) - 2 |->
     IF k < j THEN s[k] ELSE IF k < i - 1 THEN s[k + 1] ELSE s[k + 2]]

TouchingSame(i) == {j \in 1 .. i - 1 : Ends(todo[j]) = Ends(todo[i])}     \* a variant

Touching(i) == {j \in 1 .. i - 1 : Ends(todo[j]) \cap Ends(todo[i]) # {}}

(* One iteration of the outer loop: the closest earlier swap that touches  *)
(* the qubits of swap scan cancels with it when it is on the same pair.    *)
RetraceScan ==
  /\ pc = "scan" /\ scan >= 2
  /\ LET touching == Touching(scan)
     IN \/ /\ \E j \in touching :
                /\ \A k \in touching : k <= j
                /\ Ends(todo[j]) = Ends(todo[scan])
                /\ todo' = Without(todo, scan, j)
                /\ trail' = [k \in 1 .. Len(todo) - 2 |->
                     IF k < j THEN trail[k]
                     ELSE IF k < scan - 1
                     THEN updateMapBySwappingPhysQubits(trail[k + 1], todo[scan][1], todo[scan][2])
                     ELSE trail[k + 2]]
           /\ was_swap_removed' = TRUE
           /\ scan' = scan - 2
        \/ /\ \A j \in touching :
                (\A k \in touching : k <= j) => Ends(todo[j]) # Ends(todo[scan])
           /\ scan' = scan - 1
           /\ UNCHANGED <<todo, was_swap_removed, trail>>
  /\ UNCHANGED <<pc, blockVars, final_qubit_map, forwardVars, tableVars, line,
                 outputVars, histVars>>

(* Variants: one pass only, and a flag that stays up.                      *)
RetracePassOnce ==
  /\ pc = "scan" /\ scan < 2
  /\ pc' = "undo"
  /\ UNCHANGED <<blockVars, final_qubit_map, forwardVars, tableVars, loopVars,
                 outputVars, trail, histVars>>

RetracePassAgain ==
  /\ pc = "scan" /\ scan < 2
  /\ IF was_swap_removed
     THEN scan' = Len(todo) /\ pc' = pc
     ELSE pc' = "undo" /\ UNCHANGED scan
  /\ UNCHANGED <<blockVars, final_qubit_map, forwardVars, tableVars, todo, line,
                 was_swap_removed, outputVars, trail, histVars>>

(* The end of a pass: another one follows if this one removed a swap.      *)
RetracePass ==
  /\ pc = "scan" /\ scan < 2
  /\ IF was_swap_removed
     THEN scan' = Len(todo) /\ was_swap_removed' = FALSE /\ pc' = pc
     ELSE pc' = "undo" /\ UNCHANGED <<scan, was_swap_removed>>
  /\ UNCHANGED <<blockVars, final_qubit_map, forwardVars, tableVars, todo, line,
                 outputVars, trail, histVars>>

RetraceSwap ==
  /\ pc = "undo" /\ todo # <<>>
  /\ addRoutingSwap(todo[Len(todo)])
  /\ todo' = SubSeq(todo, 1, Len(todo) - 1)
  /\ trail' = SubSeq(trail, 1, Len(trail) - 1)
  /\ UNCHANGED <<pc, blockVars, final_qubit_map, forwardVars, scan,
                 was_swap_removed, line, outputVars, histVars>>

-----------------------------------------------------------------------------
(* extendTableWithRoutingBackToExpectedFinalQubitMap, "bubble-sort" and    *)
(* "oddeven-sort"                                                          *)

(* Variants: neighbours not asked for, and the qubit free at the start only. *)
PrunableAnyway(k) == /\ isPhysicalQubitFree(initial_qubit_map_, line[k])
                     /\ isPhysicalQubitFree(qubit_map_, line[k])

PrunableIfFreeAtStart(k) == /\ isPhysicalQubitFree(initial_qubit_map_, line[k])
                            /\ k \in {1, Len(line)} \/ Linked(line[k - 1], line[k + 1])

(* A qubit that is free at the start and now leaves the path, unless its   *)
(* neighbours on it cannot be swapped directly.                            *)
Prunable(k) == /\ isPhysicalQubitFree(initial_qubit_map_, line[k])
               /\ isPhysicalQubitFree(qubit_map_, line[k])
               /\ k \in {1, Len(line)} \/ Linked(line[k - 1], line[k + 1])

PruneQubit ==
  /\ pc = "prune" /\ scan >= 1
  /\ line' = IF Prunable(scan)
             THEN SubSeq(line, 1, scan - 1) \o SubSeq(line, scan + 1, Len(line))
             ELSE line
  /\ scan' = scan - 1
  /\ UNCHANGED <<pc, blockVars, final_qubit_map, forwardVars, tableVars, todo,
                 was_swap_removed, outputVars, trail, histVars>>

NumProgQubits == Cardinality({q \in Qubits : qubit_map_.prog[q] # Excluded})

PruneDone ==
  /\ pc = "prune" /\ scan = 0
  /\ pc' = IF Len(line) < NumProgQubits THEN "not restored" ELSE "undo"
  /\ UNCHANGED <<blockVars, final_qubit_map, forwardVars, tableVars, loopVars,
                 outputVars, trail, histVars>>

(* The swaps of swapnet: neighbours on the path are exchanged when one     *)
(* must end on the far side of the other.                                  *)
Target(k) ==   \* where the content of position k has to be
  LET q == qubit_map_.phys[line[k]]
  IN  IF q = Free THEN k
      ELSE CHOOSE i \in 1 .. Len(line) : final_qubit_map.phys[line[i]] = q

IsFreeAt(k) == qubit_map_.phys[line[k]] = Free

OutOfOrder(k) ==
  \/ ~IsFreeAt(k) /\ ~IsFreeAt(k + 1) /\ Target(k) > Target(k + 1)
  \/ ~IsFreeAt(k) /\ IsFreeAt(k + 1) /\ Target(k) > k
  \/ IsFreeAt(k) /\ ~IsFreeAt(k + 1) /\ Target(k + 1) <= k

Sorted == \A k \in 1 .. Len(line) - 1 : ~OutOfOrder(k)

SortSwap ==
  /\ pc = "undo" /\ BackwardMethod = "sort"
  /\ \E k \in 1 .. Len(line) - 1 :
       OutOfOrder(k) /\ addRoutingSwap(<<line[k], line[k + 1]>>)
  /\ UNCHANGED <<pc, blockVars, final_qubit_map, forwardVars, loopVars,
                 outputVars, trail, histVars>>

BackwardDone ==
  /\ pc = "undo"
  /\ IF BackwardMethod = "retrace" THEN todo = <<>> ELSE Sorted
  /\ IF IsEqual(qubit_map_, final_qubit_map)
     THEN pc' = "sweep" /\ sweep' = NoSweep /\ sequence' = <<>>
     ELSE pc' = "not restored" /\ UNCHANGED <<sweep, sequence>>
  /\ UNCHANGED <<blockVars, final_qubit_map, forwardVars, tableVars, loopVars,
                 block, trail, histVars>>

-----------------------------------------------------------------------------
(* convertTableToSequence                                                  *)

(* The body of the inner loop: qubit iq moves to its next entry when the   *)
(* one it is in has ended, and a gate seen for the first time is emitted.  *)
SweepQubit ==
  /\ pc = "sweep" /\ sweep.iq < NumPhys
  /\ LET row   == table_[sweep.iq]
         idx   == sweep.Idxs[sweep.iq]
         moves == idx < Len(row) /\ (idx > 0 => row[idx].end <= sweep.time)
         next  == IF moves THEN idx + 1 ELSE idx
         g     == row[idx + 1].gate
     IN /\ sweep' = [sweep EXCEPT
             !.iq      = @ + 1,
             !.Idxs    = [@ EXCEPT ![sweep.iq] = next],
             !.counter = IF moves THEN @ + 1 ELSE @,
             !.min     = IF next < Len(row) /\ row[next].end < @
                         THEN row[next].end ELSE @]
        /\ sequence' = IF moves /\ g # IsIdle
                          /\ \A i \in 1 .. Len(sequence) : sequence[i] # g
                       THEN Append(sequence, g) ELSE sequence
  /\ UNCHANGED <<pc, blockVars, final_qubit_map, forwardVars, tableVars,
                 loopVars, block, trail, histVars>>

NextRound == [sweep EXCEPT !.time = sweep.min, !.iq = 0, !.counter = 0, !.min = MaxTime]

(* The end of a round: time jumps to the earliest end a qubit waits for,   *)
(* until no qubit moves.  The compiler exits when gates are missing.       *)
SweepRound ==
  /\ pc = "sweep" /\ sweep.iq = NumPhys
  /\ IF sweep.counter > 0
     THEN /\ sweep' = NextRound
          /\ UNCHANGED <<pc, block>>
     ELSE /\ pc' = IF Len(sequence) = Len(gates) + Len(routing)
                   THEN "reorder" ELSE "gates lost"
          /\ block' = <<>>
          /\ UNCHANGED sweep
  /\ UNCHANGED <<blockVars, final_qubit_map, forwardVars, tableVars, loopVars,
                 sequence, trail, histVars>>

-----------------------------------------------------------------------------
(* reorderGatesOfQuantumBasicBlock: the gates are inserted at the end in   *)
(* the new order, the old ones removed, and the lists of swaps cleared for *)
(* the next block.                                                         *)

ReorderGate ==
  /\ pc = "reorder" /\ Len(block) < Len(sequence)
  /\ LET g == sequence[Len(block) + 1]
     IN block' = Append(block,
          [gate   |-> g,
           qubits |-> IF g >= 0 THEN operands[g + 1]
                      ELSE <<<<"qid", routing[-g][1]>>, <<"qid", routing[-g][2]>>>>])
  /\ UNCHANGED <<pc, blockVars, final_qubit_map, forwardVars, tableVars,
                 loopVars, sweep, sequence, trail, histVars>>

ReorderDoneKeepsSwaps ==   \* a variant
  /\ pc = "reorder" /\ Len(block) = Len(sequence)
  /\ pc' = "convert"
  /\ UNCHANGED <<blockVars, final_qubit_map, forwardVars, tableVars, loopVars,
                 outputVars, trail, histVars>>

ReorderDone ==
  /\ pc = "reorder" /\ Len(block) = Len(sequence)
  /\ routing' = <<>>
  /\ pc' = "convert"
  /\ UNCHANGED <<blockVars, final_qubit_map, forwardVars, table_, qubit_map_,
                 loopVars, outputVars, trail, histVars>>

-----------------------------------------------------------------------------
(* ConvertQbitToQID, gate by gate.  The history variables run each         *)
(* converted gate: a swap exchanges the contents of its qubits, a program  *)
(* gate acts on the program qubits that are on its own.                    *)

QIDOf(op) == IF op[1] = "qid" THEN op[2] ELSE final_qubit_map.prog[op[2]]

ConvertGate ==
  /\ pc = "convert" /\ block # <<>>
  /\ LET g  == Head(block)
         xs == [i \in 1 .. Len(g.qubits) |-> QIDOf(g.qubits[i])]
     IN IF g.gate < 0
        THEN /\ where' = updateMapBySwappingPhysQubits(where, xs[1], xs[2])
             /\ UNCHANGED executed
        ELSE /\ executed' = Append(executed,
                  [gate |-> g.gate, qubits |-> [i \in 1 .. Len(xs) |-> where.phys[xs[i]]]])
             /\ UNCHANGED where
  /\ block' = Tail(block)
  /\ UNCHANGED <<pc, blockVars, final_qubit_map, forwardVars, tableVars,
                 loopVars, sweep, sequence, trail>>

FinishQBB ==
  /\ pc = "convert" /\ block = <<>>
  /\ pc' = "idle"
  /\ operands' = <<>> /\ measured' = {} /\ gate_index' = 0 /\ route' = NoRoute
  /\ todo' = <<>> /\ scan' = 0 /\ was_swap_removed' = FALSE /\ line' = <<>>
  /\ sweep' = NoSweep /\ sequence' = <<>> /\ trail' = <<>>
  /\ UNCHANGED <<blockVars, final_qubit_map, tableVars, block, histVars>>

-----------------------------------------------------------------------------
NoMap == [order |-> <<>>, prog |-> [q \in Qubits |-> Excluded],
          phys |-> [x \in Phys |-> Free]]

Init ==
  /\ pc = "idle"
  /\ gates = <<>> /\ release = FALSE
  /\ initial_qubit_map_ = NoMap /\ qubit_map_ = NoMap /\ final_qubit_map = NoMap
  /\ gate_index = 0 /\ route = NoRoute /\ routing = <<>>
  /\ measured = {} /\ operands = <<>>
  /\ table_ = [x \in Phys |-> <<>>]
  /\ todo = <<>> /\ scan = 0 /\ was_swap_removed = FALSE /\ line = <<>>
  /\ sweep = NoSweep /\ sequence = <<>> /\ block = <<>>
  /\ trail = <<>> /\ where = NoMap /\ executed = <<>>

Populate == StartQBB \/ ScheduleInPlace \/ FindRoute \/ FailToRoute \/ RoutingSwap
              \/ PlaceRouted \/ EndPopulate
Backward == RetraceScan \/ RetracePass \/ RetraceSwap \/ PruneQubit \/ PruneDone
              \/ SortSwap \/ BackwardDone
Rewrite  == SweepQubit \/ SweepRound \/ ReorderGate \/ ReorderDone \/ ConvertGate
              \/ FinishQBB

Next == Populate \/ Backward \/ Rewrite

Spec == Init /\ [][Next]_vars

(* One thread runs the pass to its end.                                    *)
FairSpec == Spec /\ WF_vars(Next)

-----------------------------------------------------------------------------
(* Properties                                                              *)

Stages == {"idle", "populate", "route", "scan", "prune", "undo", "sweep",
           "reorder", "convert"}
Errors == {"no route", "not restored", "gates lost"}

Operands == ({"qid"} \X Phys) \cup ({"prog"} \X Qubits)

(* The kinds of the variables.  Gates are named by their position in the   *)
(* block, from 0, swaps by their negated position in routing, from 1.      *)
TypeOK ==
  /\ pc \in Stages \cup Errors
  /\ gates \in Programs \cup {<<>>}
  /\ release \in BOOLEAN
  /\ initial_qubit_map_ \in QubitMap(Phys)
  /\ qubit_map_ \in QubitMap(Phys)
  /\ final_qubit_map \in QubitMap(Phys)
  /\ where \in QubitMap(Phys)
  /\ trail \in Seq(QubitMap(Phys))
  /\ gate_index \in 0 .. Len(gates)
  /\ route \in [swaps : Seq(Phys \X Phys), goal : Seq(Phys)]
  /\ routing \in Seq(Phys \X Phys)
  /\ measured \subseteq Phys
  /\ operands \in Seq(Seq(Operands)) /\ Len(operands) = gate_index
  /\ table_ \in [Phys -> Seq([gate : Int, end : Nat])]
  /\ todo \in Seq(Phys \X Phys)
  /\ scan \in Nat
  /\ was_swap_removed \in BOOLEAN
  /\ line \in Seq(Phys)
  /\ sweep \in [time : Nat, iq : 0 .. NumPhys, counter : Nat, min : Nat,
                Idxs : [Phys -> Nat]]
  /\ sequence \in Seq(Int)
  /\ block \in Seq([gate : Int, qubits : Seq(Operands)])

(* Every placement the compiler keeps, and the one the hardware has, pairs *)
(* program with physical qubits one to one.                                *)
PlacementsConsistent ==
  /\ isConsistent(initial_qubit_map_)
  /\ isConsistent(qubit_map_)
  /\ isConsistent(final_qubit_map)
  /\ isConsistent(where)

(* The swaps still to be undone lead from the placement at the start of    *)
(* the block to the current one.                                           *)
Pending == IF pc \in {"populate", "route"} THEN routing ELSE todo

PlacementBefore(k) == IF k <= Len(trail) THEN trail[k] ELSE qubit_map_

UndoLeadsBack ==
  \/ pc \in {"populate", "route"}
  \/ pc = "scan"
  \/ pc = "undo" /\ BackwardMethod = "retrace"
  => /\ Len(trail) = Len(Pending)
     /\ PlacementBefore(1) = initial_qubit_map_
     /\ \A k \in 1 .. Len(Pending) :
          PlacementBefore(k + 1) =
            updateMapBySwappingPhysQubits(PlacementBefore(k), Pending[k][1], Pending[k][2])

(* The backward routing never fails: a block that holds its qubits ends on *)
(* the placement it started from (the checks of runImpl and at the end of  *)
(* extendTableWithRoutingBackToExpectedFinalQubitMap).                     *)
HoldBlocksRestored ==
  /\ pc # "not restored"
  /\ pc \in {"sweep", "reorder", "convert"} /\ ~release =>
       qubit_map_ = initial_qubit_map_ /\ final_qubit_map = initial_qubit_map_

(* No pair of cancelling swaps is left to undo, however the scan and its   *)
(* repetitions were interleaved with removals.                             *)
UndoIsReduced ==
  pc = "undo" /\ BackwardMethod = "retrace" =>
    \A i \in 1 .. Len(todo) : \A j \in 1 .. i - 1 :
      Ends(todo[i]) = Ends(todo[j]) =>
        \E k \in j + 1 .. i - 1 : Ends(todo[k]) \cap Ends(todo[i]) # {}

(* The table: where a gate is on several rows, it is there once each and   *)
(* takes the same cycles on all of them, and time only grows along a row.  *)
StartTime(x, i) == IF i = 1 THEN 0 ELSE table_[x][i - 1].end

TableIsASchedule ==
  \A x, y \in Phys : \A i \in 1 .. Len(table_[x]) : \A j \in 1 .. Len(table_[y]) :
    LET e == table_[x][i]
        f == table_[y][j]
    IN /\ StartTime(x, i) < e.end
       /\ e.gate = f.gate /\ e.gate # IsIdle =>
            /\ StartTime(x, i) = StartTime(y, j) /\ e.end = f.end
            /\ x = y => i = j

(* The sequence taken from the table has every gate and swap, in the order *)
(* of their start times.                                                   *)
EntryOf(g) == CHOOSE e \in Phys \X (1 .. 2 * (Len(gates) + Len(routing))) :
                e[2] <= Len(table_[e[1]]) /\ table_[e[1]][e[2]].gate = g

StartOf(g) == StartTime(EntryOf(g)[1], EntryOf(g)[2])

SequenceFollowsTable ==
  /\ pc # "gates lost"
  /\ pc \in {"sweep", "reorder"} =>
       \A j \in 1 .. Len(sequence) : \A i \in 1 .. j - 1 :
         sequence[i] # sequence[j] /\ StartOf(sequence[i]) <= StartOf(sequence[j])

(* Every gate of the rewritten block is on qubits where the platform has   *)
(* it, the swaps on linked ones, whichever routing added them.             *)
BlockFitsPlatform ==
  pc \in {"reorder", "convert"} =>
    \A i \in 1 .. Len(block) :
      LET xs == [k \in 1 .. Len(block[i].qubits) |-> QIDOf(block[i].qubits[k])]
      IN  IF block[i].gate < 0 THEN Linked(xs[1], xs[2])
          ELSE IsAvailable(gates[block[i].gate + 1], xs)

(* The operands written back convert to the physical qubits the table has  *)
(* the gate on.                                                            *)
OperandsConvertToTable ==
  pc = "reorder" =>
    \A g \in 0 .. Len(gates) - 1 :
      {QIDOf(operands[g + 1][i]) : i \in 1 .. Len(operands[g + 1])}
        = {x \in Phys : \E i \in 1 .. Len(table_[x]) : table_[x][i].gate = g}

(* A measurement matched with its readout has a physical qubit of its own. *)
MatchedMeasuredOnce ==
  pc \in {"reorder", "convert"} =>
    \A i, j \in 1 .. Len(block) :
      /\ i # j
      /\ block[i].gate >= 0 /\ block[j].gate >= 0
      /\ IsMatchedMeasurement(gates[block[i].gate + 1])
      /\ IsMatchedMeasurement(gates[block[j].gate + 1])
      => block[i].qubits # block[j].qubits

(* Once the hardware has run the block, its qubits are where the compiler  *)
(* recorded, the placement that is stored back into the qubit arrays and   *)
(* that the next block of a hold sequence starts from.                     *)
FinalMapReached ==
  pc = "convert" /\ block = <<>> => where = final_qubit_map

(* What the hardware executes is the block of the source.                  *)
Logical == INSTANCE LogicalCircuit WITH
  Circuits <- Programs, circuit <- gates, executed <- executed

ImplementsLogicalCircuit == Logical!Spec

(* Every block is finished, unless the platform cannot execute it.         *)
EveryBlockIsFinished == pc = "populate" ~> pc \in {"idle", "no route"}

==============================================================================
