---------------------- MODULE SchedulerExecutionProofs -----------------------
(***************************************************************************)
(* Proofs about the rewritten block and what the hardware does with it.    *)
(* No two measurements matched with their readout share a qubit, a route   *)
(* brings the operands of a gate to a place the platform has it, and each  *)
(* gate of the block is executed in such a place.  The hardware ends with  *)
(* the placement the compiler recorded, and it executes the block of the   *)
(* source: these proofs keep an account of the scheduling table, what each *)
(* physical qubit holds after each entry of its row.                       *)

(***************************************************************************)
EXTENDS SchedulerProofs

-----------------------------------------------------------------------------
(* Matched measurements.  Every one of them has been given a qubit that    *)
(* is recorded as measured, and no two of them the same; the one that is   *)
(* being routed goes to a qubit that none of them has.  The sequence names *)
(* no gate twice, and the rewritten block has the operands of its gates.   *)

Matched(g) == IsMatchedMeasurement(gates[g + 1])

OperandOn(x) == <<<<"qid", x>>>>

MeasuredRecorded ==
  \A g \in 0 .. gate_index - 1 :
    Matched(g) => \E x \in measured : operands[g + 1] = OperandOn(x)

MeasuredApart ==
  \A g, h \in 0 .. gate_index - 1 :
    g # h /\ Matched(g) /\ Matched(h) => operands[g + 1] # operands[h + 1]

GoalIsNew ==
  pc = "route" /\ Matched(gate_index) =>
    /\ Len(route.goal) = 1 /\ route.goal[1] \in measured
    /\ \A g \in 0 .. gate_index - 1 : Matched(g) => operands[g + 1] # OperandOn(route.goal[1])

SequenceOnce ==
  pc \in {"sweep", "reorder"} =>
    \A i, j \in 1 .. Len(sequence) : i # j => sequence[i] # sequence[j]

BlockInSequence ==
  pc = "reorder" =>
    /\ Len(block) <= Len(sequence)
    /\ \A i \in 1 .. Len(block) : block[i].gate = sequence[i]

BlockOnce ==
  pc \in {"reorder", "convert"} =>
    /\ \A i, j \in 1 .. Len(block) : i # j => block[i].gate # block[j].gate
    /\ \A i \in 1 .. Len(block) : block[i].gate >= 0 =>
          block[i].gate < gate_index /\ block[i].qubits = operands[block[i].gate + 1]

MInv ==
  /\ MeasuredRecorded
  /\ MeasuredApart
  /\ GoalIsNew
  /\ SequenceOnce
  /\ BlockInSequence
  /\ BlockOnce

(* What the invariant is for.                                              *)
LEMMA MInvIsEnough ==
  ASSUME IInv, MInv
  PROVE  MatchedMeasuredOnce
<1> SUFFICES ASSUME pc \in {"reorder", "convert"},
                    NEW i \in 1 .. Len(block), NEW j \in 1 .. Len(block), i # j,
                    block[i].gate >= 0, block[j].gate >= 0,
                    IsMatchedMeasurement(gates[block[i].gate + 1]),
                    IsMatchedMeasurement(gates[block[j].gate + 1])
             PROVE  block[i].qubits # block[j].qubits
  BY DEF MatchedMeasuredOnce
<1>1. block[i].gate # block[j].gate
  BY DEF MInv, BlockOnce
<1>2. /\ block[i].gate < gate_index /\ block[i].qubits = operands[block[i].gate + 1]
      /\ block[j].gate < gate_index /\ block[j].qubits = operands[block[j].gate + 1]
  BY DEF MInv, BlockOnce
<1>3. block[i].gate \in Int /\ block[j].gate \in Int /\ gate_index \in Nat
  <2> DEFINE R == [gate : Int, qubits : Seq(Operands)]
  <2>1. block \in Seq(R)
    BY DEF IInv, TypeOK
  <2>2. block[i] \in R /\ block[j] \in R
    BY <2>1, ElementOfSeq
  <2>3. block[i].gate \in Int /\ block[j].gate \in Int
    BY <2>2
  <2>4. gate_index \in Nat
    BY DEF IInv, TypeOK
  <2> QED
    BY <2>3, <2>4
<1>4. block[i].gate \in 0 .. gate_index - 1 /\ block[j].gate \in 0 .. gate_index - 1
  BY <1>2, <1>3
<1> QED
  BY <1>1, <1>2, <1>4 DEF MInv, MeasuredApart, Matched

-----------------------------------------------------------------------------
(* Matched measurements are on one qubit, and always routed.               *)
LEMMA MatchedGate ==
  ASSUME ~CanonicalSchedule, TypeOK, gate_index < Len(gates), Matched(gate_index)
  PROVE  Len(CurrentGate.qubits) = 1 /\ NeedsRouting
<1>1. CurrentGate.kind = "measz"
  BY DEF Matched, IsMatchedMeasurement, PlatformKind, CurrentGate
<1>2. gates \in Programs /\ gate_index + 1 \in 1 .. Len(gates)
  BY CurrentGateFacts
<1>3. Len(CurrentGate.qubits) = 1
  BY <1>1, <1>2, BlockShape DEF CurrentGate
<1> QED
  BY <1>3 DEF NeedsRouting, Matched, CurrentGate

(* The operands that are written back for native gates.                    *)
LEMMA PlacedOperands ==
  ASSUME ~CanonicalSchedule, TypeOK, gate_index < Len(gates),
         NEW xs \in Seq(Phys), Len(xs) = Len(CurrentGate.qubits),
         IsAvailable(CurrentGate, xs), placeGate(xs)
  PROVE  /\ Len(operands) = gate_index /\ gate_index \in Nat
         /\ gate_index' = gate_index + 1
         /\ \A g \in 0 .. gate_index - 1 : operands'[g + 1] = operands[g + 1]
         /\ Len(xs) = 1 => operands'[gate_index + 1] = OperandOn(xs[1])
<1>1. PICK ops \in [1 .. Len(xs) -> UNION {OperandsFor(x) : x \in Phys}] :
         /\ \A i \in 1 .. Len(xs) : ops[i] \in OperandsFor(xs[i])
         /\ operands' = Append(operands, ops)
  BY DEF placeGate
<1>2. ops \in Seq(Operands)
  <2>1. UNION {OperandsFor(x) : x \in Phys} \subseteq Operands
    BY OperandsForQubit
  <2>2. ops \in [1 .. Len(xs) -> Operands]
    BY <1>1, <2>1
  <2> QED
    BY <2>2
<1>3. operands \in Seq(Seq(Operands)) /\ Len(operands) = gate_index /\ gate_index \in Nat
  BY DEF TypeOK
<1>4. /\ \A g \in 0 .. gate_index - 1 : operands'[g + 1] = operands[g + 1]
      /\ operands'[gate_index + 1] = ops
  BY <1>1, <1>2, <1>3, AppendProperties
<1>5. ASSUME Len(xs) = 1
      PROVE  ops = OperandOn(xs[1])
  <2>1. ops[1] = <<"qid", xs[1]>>
    BY <1>1, <1>5 DEF OperandsFor
  <2>2. ops \in [1 .. 1 -> Operands]
    <3>1. UNION {OperandsFor(x) : x \in Phys} \subseteq Operands
      BY OperandsForQubit
    <3> QED
      BY <1>1, <1>5, <3>1
  <2>3. OperandOn(xs[1]) \in Seq({<<"qid", xs[1]>>}) /\ Len(OperandOn(xs[1])) = 1
    BY DEF OperandOn
  <2>4. OperandOn(xs[1])[1] = <<"qid", xs[1]>>
    BY DEF OperandOn
  <2>5. ops = [k \in 1 .. 1 |-> ops[k]]
    BY <2>2
  <2>6. OperandOn(xs[1]) = [k \in 1 .. 1 |-> OperandOn(xs[1])[k]]
    BY <2>3
  <2>7. \A k \in 1 .. 1 : ops[k] = OperandOn(xs[1])[k]
    BY <2>1, <2>4
  <2> QED
    BY <2>5, <2>6, <2>7, Zenon
<1>6. gate_index' = gate_index + 1
  BY DEF placeGate
<1> QED
  BY <1>3, <1>4, <1>5, <1>6

-----------------------------------------------------------------------------
(* The steps.                                                              *)

(* Most steps leave alone what an invariant is about.                      *)
LEMMA OperandsUnchanged ==
  ASSUME MInv, UNCHANGED <<gates, gate_index, operands, measured>>,
         pc' = "route" => pc = "route" /\ route'.goal = route.goal
  PROVE  MeasuredRecorded' /\ MeasuredApart' /\ GoalIsNew'
<1>1. MeasuredRecorded'
  BY DEF MInv, MeasuredRecorded, Matched
<1>2. MeasuredApart'
  BY DEF MInv, MeasuredApart, Matched
<1>3. GoalIsNew'
  BY DEF MInv, GoalIsNew, Matched
<1> QED
  BY <1>1, <1>2, <1>3

LEMMA OutputNotStarted ==
  ASSUME pc' \notin {"reorder", "convert"}, pc' = "sweep" => sequence' = <<>>
  PROVE  SequenceOnce' /\ BlockInSequence' /\ BlockOnce'
<1>1. CASE pc' = "sweep"
  <2>1. Len(sequence') = 0
    BY <1>1
  <2>2. SequenceOnce'
    BY <2>1 DEF SequenceOnce
  <2> QED
    BY <2>2 DEF BlockInSequence, BlockOnce
<1>2. CASE pc' # "sweep"
  BY <1>2 DEF SequenceOnce, BlockInSequence, BlockOnce
<1> QED
  BY <1>1, <1>2

(* A gate gets a qubit.                                                    *)
LEMMA PlacedMeasure ==
  ASSUME ~CanonicalSchedule, TypeOK, MInv, gate_index < Len(gates),
         NEW xs \in Seq(Phys), Len(xs) = Len(CurrentGate.qubits),
         IsAvailable(CurrentGate, xs), placeGate(xs), UNCHANGED <<gates, measured>>,
         Matched(gate_index) => pc = "route" /\ xs = route.goal
  PROVE  MeasuredRecorded' /\ MeasuredApart'
<1>1. /\ Len(operands) = gate_index /\ gate_index \in Nat
      /\ gate_index' = gate_index + 1
      /\ \A g \in 0 .. gate_index - 1 : operands'[g + 1] = operands[g + 1]
      /\ Len(xs) = 1 => operands'[gate_index + 1] = OperandOn(xs[1])
  BY PlacedOperands
<1>2. \A g : Matched(g)' <=> Matched(g)
  BY DEF Matched
<1>3. Matched(gate_index) =>
        /\ operands'[gate_index + 1] = OperandOn(route.goal[1])
        /\ route.goal[1] \in measured
        /\ \A g \in 0 .. gate_index - 1 : Matched(g) => operands[g + 1] # OperandOn(route.goal[1])
  BY <1>1 DEF MInv, GoalIsNew
<1>4. \A g \in 0 .. gate_index' - 1 : g \in 0 .. gate_index - 1 \/ g = gate_index
  BY <1>1
<1>5. ASSUME NEW g \in 0 .. gate_index' - 1, Matched(g)
      PROVE  \E x \in measured : operands'[g + 1] = OperandOn(x)
  <2>1. CASE g \in 0 .. gate_index - 1
    BY <1>1, <1>5, <2>1 DEF MInv, MeasuredRecorded
  <2>2. CASE g = gate_index
    BY <1>3, <1>5, <2>2
  <2> QED
    BY <1>4, <2>1, <2>2
<1>6. ASSUME NEW g \in 0 .. gate_index' - 1, NEW h \in 0 .. gate_index' - 1,
             g # h, Matched(g), Matched(h)
      PROVE  operands'[g + 1] # operands'[h + 1]
  <2>1. CASE g \in 0 .. gate_index - 1 /\ h \in 0 .. gate_index - 1
    BY <1>1, <1>6, <2>1 DEF MInv, MeasuredApart
  <2>2. CASE g \in 0 .. gate_index - 1 /\ h = gate_index
    BY <1>1, <1>3, <1>6, <2>2
  <2>3. CASE g = gate_index /\ h \in 0 .. gate_index - 1
    BY <1>1, <1>3, <1>6, <2>3
  <2> QED
    BY <1>4, <1>6, <2>1, <2>2, <2>3
<1> QED
  BY <1>2, <1>5, <1>6 DEF MeasuredRecorded, MeasuredApart

LEMMA FindRouteMeasures ==
  ASSUME ~CanonicalSchedule, IInv, MInv, FindRoute
  PROVE  MInv'
<1>1. /\ pc = "populate" /\ gate_index < Len(gates) /\ pc' = "route"
      /\ route' \in RoutesTo(CurrentGate, CurrentPlace)
      /\ measured' = MeasuredAfter(CurrentGate, route'.goal)
      /\ UNCHANGED <<gates, gate_index, operands>>
  BY DEF FindRoute, blockVars
<1>2. \A g : Matched(g)' <=> Matched(g)
  BY <1>1 DEF Matched
<1>3. measured \subseteq measured'
  BY <1>1 DEF MeasuredAfter
<1>4. MeasuredRecorded' /\ MeasuredApart'
  BY <1>1, <1>2, <1>3 DEF MInv, MeasuredRecorded, MeasuredApart
<1>5. ASSUME Matched(gate_index)
      PROVE  /\ Len(route'.goal) = 1 /\ route'.goal[1] \in measured'
             /\ route'.goal[1] \notin measured
  <2>1. Len(CurrentPlace) = 1 /\ IsMatchedMeasurement(CurrentGate)
    <3>1. Len(CurrentGate.qubits) = 1 /\ IsMatchedMeasurement(CurrentGate)
      BY <1>1, <1>5, MatchedGate DEF IInv, Matched, CurrentGate
    <3>2. Len(CurrentPlace) = Len(CurrentGate.qubits)
      BY <1>1, CurrentPlaceIsSeq DEF IInv, Bookkeeping
    <3> QED
      BY <3>1, <3>2
  <2>2. PICK p : route' = [swaps |-> SwapsOf(p), goal |-> <<PathEnd(p)>>] /\ PathEnd(p) \notin measured
    BY <1>1, <2>1 DEF RoutesTo
  <2>3. Len(route'.goal) = 1 /\ route'.goal[1] \notin measured
    BY <2>2
  <2> QED
    BY <1>1, <2>1, <2>3 DEF MeasuredAfter
<1>6. GoalIsNew'
  <2> SUFFICES ASSUME Matched(gate_index)
               PROVE  /\ Len(route'.goal) = 1 /\ route'.goal[1] \in measured'
                      /\ \A g \in 0 .. gate_index - 1 :
                           Matched(g) => operands[g + 1] # OperandOn(route'.goal[1])
    BY <1>1, <1>2 DEF GoalIsNew
  <2>1. ASSUME NEW g \in 0 .. gate_index - 1, Matched(g)
        PROVE  operands[g + 1] # OperandOn(route'.goal[1])
    <3>1. PICK x \in measured : operands[g + 1] = OperandOn(x)
      BY <2>1 DEF MInv, MeasuredRecorded
    <3>2. x # route'.goal[1]
      BY <1>5
    <3> QED
      BY <3>1, <3>2 DEF OperandOn
  <2> QED
    BY <1>5, <2>1
<1> QED
  BY <1>1, <1>4, <1>6, OutputNotStarted DEF MInv

LEMMA PopulateMeasures ==
  ASSUME ~CanonicalSchedule, IInv, MInv, Populate
  PROVE  MInv'
<1>1. CASE StartQBB
  <2>1. gate_index' = 0 /\ pc' = "populate"
    BY <1>1 DEF StartQBB
  <2>2. MeasuredRecorded' /\ MeasuredApart' /\ GoalIsNew'
    BY <2>1 DEF MeasuredRecorded, MeasuredApart, GoalIsNew
  <2> QED
    BY <2>1, <2>2, OutputNotStarted DEF MInv
<1>2. CASE ScheduleInPlace
  <2>1. /\ pc = "populate" /\ pc' = pc /\ gate_index < Len(gates) /\ ~NeedsRouting
        /\ placeGate(CurrentPlace) /\ UNCHANGED <<gates, measured>>
    BY <1>2 DEF ScheduleInPlace, blockVars
  <2>2. CurrentPlace \in Seq(Phys) /\ Len(CurrentPlace) = Len(CurrentGate.qubits)
    BY <2>1, CurrentPlaceIsSeq DEF IInv, Bookkeeping
  <2>3. IsAvailable(CurrentGate, CurrentPlace) /\ ~Matched(gate_index)
    BY <2>1 DEF NeedsRouting, Matched, CurrentGate
  <2>4. MeasuredRecorded' /\ MeasuredApart'
    BY <2>1, <2>2, <2>3, PlacedMeasure DEF IInv
  <2> QED
    BY <2>1, <2>4, OutputNotStarted DEF MInv, GoalIsNew
<1>3. CASE FindRoute
  BY <1>3, FindRouteMeasures
<1>4. CASE FailToRoute
  <2>1. pc' = "no route" /\ UNCHANGED <<gates, gate_index, operands, measured>>
    BY <1>4 DEF FailToRoute, blockVars, forwardVars
  <2> QED
    BY <2>1, OperandsUnchanged, OutputNotStarted DEF MInv
<1>5. CASE RoutingSwap
  <2>1. /\ pc = "route" /\ pc' = pc /\ UNCHANGED <<gates, gate_index, operands, measured>>
        /\ route'.goal = route.goal
    <3>1. route \in [swaps : Seq(Phys \X Phys), goal : Seq(Phys)]
      BY DEF IInv, TypeOK
    <3>2. route' = [route EXCEPT !.swaps = Tail(route.swaps)]
      BY <1>5 DEF RoutingSwap
    <3> QED
      BY <1>5, <3>1, <3>2 DEF RoutingSwap, blockVars
  <2> QED
    BY <2>1, OperandsUnchanged, OutputNotStarted DEF MInv
<1>6. CASE PlaceRouted
  <2>1. /\ pc = "route" /\ pc' = "populate" /\ placeGate(route.goal)
        /\ UNCHANGED <<gates, measured>>
    BY <1>6 DEF PlaceRouted, blockVars
  <2>2. /\ gate_index < Len(gates)
        /\ route.goal \in Seq(Phys) /\ Len(route.goal) = Len(CurrentGate.qubits)
        /\ IsAvailable(CurrentGate, route.goal)
    BY <2>1 DEF IInv, Bookkeeping, TypeOK
  <2>3. MeasuredRecorded' /\ MeasuredApart'
    BY <2>1, <2>2, PlacedMeasure DEF IInv
  <2> QED
    BY <2>1, <2>3, OutputNotStarted DEF MInv, GoalIsNew
<1>7. CASE EndPopulate
  <2>1. /\ pc' \in {"sweep", "scan", "not restored", "prune"}
        /\ pc' = "sweep" => sequence' = <<>>
        /\ UNCHANGED <<gates, gate_index, operands, measured>>
    BY <1>7 DEF EndPopulate, blockVars, forwardVars
  <2> QED
    BY <2>1, OperandsUnchanged, OutputNotStarted DEF MInv
<1> QED
  BY <1>1, <1>2, <1>3, <1>4, <1>5, <1>6, <1>7 DEF Populate

LEMMA BackwardMeasures ==
  ASSUME MInv, Backward
  PROVE  MInv'
<1>1. /\ pc' \in {"scan", "prune", "undo", "not restored", "sweep"}
      /\ pc' = "sweep" => sequence' = <<>>
      /\ UNCHANGED <<gates, gate_index, operands, measured>>
  <2>1. CASE RetraceScan \/ RetracePass \/ RetraceSwap
    BY <2>1 DEF RetraceScan, RetracePass, RetraceSwap, blockVars, forwardVars
  <2>2. CASE PruneQubit \/ PruneDone \/ SortSwap
    BY <2>2 DEF PruneQubit, PruneDone, SortSwap, blockVars, forwardVars
  <2>3. CASE BackwardDone
    BY <2>3 DEF BackwardDone, blockVars, forwardVars
  <2> QED
    BY <2>1, <2>2, <2>3 DEF Backward
<1> QED
  BY <1>1, OperandsUnchanged, OutputNotStarted DEF MInv

(* Sweeping emits a gate that has not been emitted yet.                    *)
LEMMA SweepQubitMeasures ==
  ASSUME IInv, MInv, SweepQubit
  PROVE  MInv'
<1> DEFINE g == table_[sweep.iq][sweep.Idxs[sweep.iq] + 1].gate
<1>1. /\ pc = "sweep" /\ pc' = pc /\ UNCHANGED <<gates, gate_index, operands, measured>>
      /\ \/ sequence' = sequence
         \/ /\ \A i \in 1 .. Len(sequence) : sequence[i] # g
            /\ sequence' = Append(sequence, g)
  BY DEF SweepQubit, blockVars, forwardVars
<1> HIDE DEF g
<1>2. SequenceOnce'
  <2>1. CASE sequence' = sequence
    BY <1>1, <2>1 DEF MInv, SequenceOnce
  <2>2. CASE sequence' = Append(sequence, g) /\ \A i \in 1 .. Len(sequence) : sequence[i] # g
    <3>1. sequence \in Seq(Int)
      BY DEF IInv, TypeOK
    <3>2. PICK S : sequence \in Seq(S) /\ g \in S
      <4>1. sequence \in Seq(Int \cup {g}) /\ g \in Int \cup {g}
        BY <3>1
      <4> QED
        BY <4>1
    <3>3. /\ Len(sequence) \in Nat /\ Len(sequence') = Len(sequence) + 1
          /\ \A i \in 1 .. Len(sequence) : sequence'[i] = sequence[i]
          /\ sequence'[Len(sequence) + 1] = g
      BY <2>2, <3>2, AppendProperties, LenProperties
    <3>4. \A i \in 1 .. Len(sequence') : i \in 1 .. Len(sequence) \/ i = Len(sequence) + 1
      BY <3>3
    <3>5. \A i, j \in 1 .. Len(sequence) : i # j => sequence[i] # sequence[j]
      BY <1>1 DEF MInv, SequenceOnce
    <3> QED
      BY <2>2, <3>3, <3>4, <3>5 DEF SequenceOnce
  <2> QED
    BY <1>1, <2>1, <2>2
<1>3. BlockInSequence' /\ BlockOnce'
  BY <1>1 DEF BlockInSequence, BlockOnce
<1> QED
  BY <1>1, <1>2, <1>3, OperandsUnchanged DEF MInv

LEMMA SweepRoundMeasures ==
  ASSUME IInv, MInv, SweepRound
  PROVE  MInv'
<1>1. /\ pc = "sweep" /\ pc' \in {"sweep", "reorder", "gates lost"}
      /\ pc' = "reorder" => block' = <<>>
      /\ UNCHANGED <<gates, gate_index, operands, measured, sequence>>
  BY DEF SweepRound, blockVars, forwardVars
<1>2. SequenceOnce'
  BY <1>1 DEF MInv, SequenceOnce
<1>3. pc' = "reorder" => Len(block') = 0
  BY <1>1
<1>4. BlockInSequence' /\ BlockOnce'
  <2>1. Len(sequence') \in Nat
    BY <1>1, LenProperties DEF IInv, TypeOK
  <2>2. pc' = "reorder" => Len(block') <= Len(sequence')
    BY <1>3, <2>1
  <2>3. pc' = "reorder" => \A i \in 1 .. Len(block') : FALSE
    BY <1>3
  <2>4. BlockInSequence'
    BY <2>2, <2>3 DEF BlockInSequence
  <2>5. BlockOnce'
    BY <1>1, <2>3 DEF BlockOnce
  <2> QED
    BY <2>4, <2>5
<1> QED
  BY <1>1, <1>2, <1>4, OperandsUnchanged DEF MInv

(* Reordering names the gates in the order of the sequence.                *)
LEMMA ReorderGateMeasures ==
  ASSUME IInv, MInv, ReorderGate
  PROVE  MInv'
<1> DEFINE R == [gate : Int, qubits : Seq(Operands)]
           n == Len(block) + 1
           q == IF sequence[n] >= 0 THEN operands[sequence[n] + 1]
                ELSE <<<<"qid", routing[-sequence[n]][1]>>, <<"qid", routing[-sequence[n]][2]>>>>
           e == [gate |-> sequence[n], qubits |-> q]
<1>1. /\ pc = "reorder" /\ pc' = pc /\ Len(block) < Len(sequence)
      /\ UNCHANGED <<gates, gate_index, operands, measured, sequence>>
      /\ block' = Append(block, e)
  BY DEF ReorderGate, blockVars, forwardVars
<1>2. block \in Seq(R) /\ sequence \in Seq(Int) /\ gate_index \in Nat
  BY DEF IInv, TypeOK
<1>3. Len(block) \in Nat /\ Len(sequence) \in Nat
  BY <1>2, LenProperties
<1>4. n \in 1 .. Len(sequence)
  BY <1>1, <1>3
<1>5. sequence[n] \in Positions /\ sequence[n] \in Int
  BY <1>1, <1>2, <1>4, ElementOfSeq DEF IInv, EntriesKnown
<1>6. sequence[n] >= 0 => sequence[n] < gate_index
  <2>1. Len(routing) \in Nat
    BY LenProperties DEF IInv, TypeOK
  <2> QED
    BY <1>2, <1>5, <2>1 DEF Positions
<1>7. e.gate = sequence[n] /\ (e.gate >= 0 => e.qubits = operands[e.gate + 1])
  OBVIOUS
<1> HIDE DEF R, e
<1>8. block \in Seq(R \cup {e}) /\ e \in R \cup {e}
  BY <1>2
<1>9. /\ Len(block') = n
      /\ \A i \in 1 .. n - 1 : block'[i] = block[i]
      /\ block'[n] = e
  BY <1>1, <1>3, <1>8, AppendProperties
<1>10. \A i \in 1 .. n : i \in 1 .. n - 1 \/ i = n
  BY <1>3
<1>11. \A i \in 1 .. n - 1 : block[i].gate = sequence[i]
  BY <1>1, <1>3 DEF MInv, BlockInSequence
<1>12. \A i \in 1 .. n : block'[i].gate = sequence[i]
  BY <1>7, <1>9, <1>10, <1>11
<1>13. BlockInSequence'
  BY <1>1, <1>3, <1>9, <1>12 DEF BlockInSequence
<1>14. SequenceOnce'
  BY <1>1 DEF MInv, SequenceOnce
<1>15. \A i, j \in 1 .. Len(sequence) : i # j => sequence[i] # sequence[j]
  BY <1>1 DEF MInv, SequenceOnce
<1>16. \A i, j \in 1 .. n : i # j => block'[i].gate # block'[j].gate
  BY <1>3, <1>4, <1>12, <1>15
<1>17. \A i \in 1 .. n : block'[i].gate >= 0 =>
          block'[i].gate < gate_index /\ block'[i].qubits = operands[block'[i].gate + 1]
  <2>1. \A i \in 1 .. n - 1 : block[i].gate >= 0 =>
          block[i].gate < gate_index /\ block[i].qubits = operands[block[i].gate + 1]
    BY <1>1, <1>3 DEF MInv, BlockOnce
  <2> QED
    BY <1>6, <1>7, <1>9, <1>10, <2>1
<1>18. BlockOnce'
  BY <1>1, <1>9, <1>16, <1>17 DEF BlockOnce
<1> QED
  BY <1>1, <1>13, <1>14, <1>18, OperandsUnchanged DEF MInv

(* Converting takes the gates off one by one.                              *)
LEMMA ConvertMeasures ==
  ASSUME IInv, MInv, ReorderDone \/ ConvertGate \/ FinishQBB
  PROVE  MInv'
<1>1. CASE ReorderDone
  <2>1. /\ pc = "reorder" /\ pc' = "convert"
        /\ UNCHANGED <<gates, gate_index, operands, measured, block>>
    BY <1>1 DEF ReorderDone, blockVars, forwardVars, outputVars
  <2>2. BlockOnce'
    BY <2>1 DEF MInv, BlockOnce
  <2>3. SequenceOnce' /\ BlockInSequence'
    BY <2>1 DEF SequenceOnce, BlockInSequence
  <2> QED
    BY <2>1, <2>2, <2>3, OperandsUnchanged DEF MInv
<1>2. CASE ConvertGate
  <2>1. /\ pc = "convert" /\ pc' = pc /\ block # <<>> /\ block' = Tail(block)
        /\ UNCHANGED <<gates, gate_index, operands, measured>>
    BY <1>2 DEF ConvertGate, blockVars, forwardVars
  <2>2. PICK R : block \in Seq(R)
    BY DEF IInv, TypeOK
  <2>3. /\ Len(block) \in Nat /\ Len(block') = Len(block) - 1
        /\ \A i \in 1 .. Len(block') : block'[i] = block[i + 1] /\ i + 1 \in 1 .. Len(block)
    BY <2>1, <2>2, HeadTailProperties, LenProperties
  <2>4. /\ \A i, j \in 1 .. Len(block) : i # j => block[i].gate # block[j].gate
        /\ \A i \in 1 .. Len(block) : block[i].gate >= 0 =>
              block[i].gate < gate_index /\ block[i].qubits = operands[block[i].gate + 1]
    BY <2>1 DEF MInv, BlockOnce
  <2>5. BlockOnce'
    <3>1. \A i, j \in 1 .. Len(block') : i # j => block'[i].gate # block'[j].gate
      BY <2>3, <2>4
    <3>2. \A i \in 1 .. Len(block') : block'[i].gate >= 0 =>
            block'[i].gate < gate_index /\ block'[i].qubits = operands[block'[i].gate + 1]
      BY <2>3, <2>4
    <3> QED
      BY <2>1, <3>1, <3>2 DEF BlockOnce
  <2>6. SequenceOnce' /\ BlockInSequence'
    BY <2>1 DEF SequenceOnce, BlockInSequence
  <2> QED
    BY <2>1, <2>5, <2>6, OperandsUnchanged DEF MInv
<1>3. CASE FinishQBB
  <2>1. gate_index' = 0 /\ pc' = "idle"
    BY <1>3 DEF FinishQBB
  <2>2. MeasuredRecorded' /\ MeasuredApart' /\ GoalIsNew'
    BY <2>1 DEF MeasuredRecorded, MeasuredApart, GoalIsNew
  <2> QED
    BY <2>1, <2>2, OutputNotStarted DEF MInv
<1> QED
  BY <1>1, <1>2, <1>3

LEMMA NextMeasures == ~CanonicalSchedule /\ IInv /\ MInv /\ [Next]_vars => MInv'
<1> SUFFICES ASSUME ~CanonicalSchedule, IInv, MInv, [Next]_vars
             PROVE  MInv'
  OBVIOUS
<1>1. CASE UNCHANGED vars
  <2>1. UNCHANGED <<pc, gates, gate_index, route, operands, measured, sequence, block>>
    BY <1>1 DEF vars, blockVars, forwardVars, outputVars
  <2>2. SequenceOnce' /\ BlockInSequence' /\ BlockOnce'
    BY <2>1 DEF MInv, SequenceOnce, BlockInSequence, BlockOnce
  <2> QED
    BY <2>1, <2>2, OperandsUnchanged DEF MInv
<1> QED
  BY <1>1, PopulateMeasures, BackwardMeasures, SweepQubitMeasures, SweepRoundMeasures,
     ReorderGateMeasures, ConvertMeasures DEF Next, Rewrite

(* When native gates are scheduled, two measurements that are matched with *)
(* their readout never end up on the same physical qubit, whatever the     *)
(* routes chosen for them and for the gates in between, and although the   *)
(* qubits recorded are kept apart from the table and the operands.         *)
THEOREM MeasurementsStayApart ==
  ASSUME ~CanonicalSchedule
  PROVE  Spec => []MatchedMeasuredOnce
<1>1. Init => MInv
  <2> SUFFICES ASSUME Init
               PROVE  MInv
    OBVIOUS
  <2>1. pc = "idle" /\ gate_index = 0
    BY DEF Init
  <2> QED
    BY <2>1 DEF MInv, MeasuredRecorded, MeasuredApart, GoalIsNew, SequenceOnce,
                BlockInSequence, BlockOnce
<1>2. IInv /\ MInv /\ [Next]_vars => MInv'
  BY NextMeasures
<1>3. IInv /\ MInv => MatchedMeasuredOnce
  BY MInvIsEnough
<1> QED
  BY <1>1, <1>2, <1>3, InvHolds, PTL DEF Spec

-----------------------------------------------------------------------------
(* Routes.                                                                 *)

SimplePath(p) ==
  /\ p \in Seq(Phys) /\ Len(p) >= 1
  /\ \A i, j \in 1 .. Len(p) : i # j => p[i] # p[j]
  /\ \A i \in 2 .. Len(p) : Linked(p[i - 1], p[i])

LEMMA PathIsSimple ==
  ASSUME NEW x \in Phys, NEW p \in PathsFrom[x]
  PROVE  SimplePath(p) /\ p[1] = x
<1>1. p \in Seq(Phys) /\ Len(p) > 0 /\ Len(p) \in Nat
  BY PathIsSeq
<1>2. /\ p[1] = x
      /\ \A i, j \in 1 .. Len(p) : i # j => p[i] # p[j]
      /\ \A i \in 2 .. Len(p) : Linked(p[i - 1], p[i])
  BY DEF PathsFrom
<1> QED
  BY <1>1, <1>2 DEF SimplePath

LEMMA HeadIsFirst ==
  ASSUME NEW S, NEW s \in Seq(S), s # <<>>
  PROVE  Head(s) = s[1]
  OBVIOUS

(* A path that has come to its end has no swaps left;                      *)
LEMMA PathDone ==
  ASSUME NEW p, SimplePath(p), Len(p) = 1
  PROVE  SwapsOf(p) = <<>> /\ PathEnd(p) = p[1] /\ PathQubits(p) = {p[1]}
<1>1. Len(p) - 1 = 0
  BY DEF SimplePath
<1>2. SwapsOf(p) = [i \in 1 .. 0 |-> <<p[i], p[i + 1]>>]
  BY <1>1 DEF SwapsOf
<1>3. SwapsOf(p) = <<>>
  BY <1>2
<1>4. PathQubits(p) = {p[1]}
  BY DEF PathQubits
<1> QED
  BY <1>3, <1>4 DEF PathEnd

(* the first swap of another one leaves the rest of the path.              *)
LEMMA PathStep ==
  ASSUME NEW p, SimplePath(p), Len(p) # 1
  PROVE  /\ SimplePath(Tail(p)) /\ Tail(p)[1] = p[2]
         /\ PathEnd(Tail(p)) = PathEnd(p)
         /\ PathQubits(Tail(p)) \subseteq PathQubits(p) \ {p[1]}
         /\ p[1] \in PathQubits(p) /\ p[2] \in PathQubits(p) /\ p[1] # p[2]
         /\ p[1] \in Phys /\ p[2] \in Phys /\ Linked(p[1], p[2])
         /\ SwapsOf(p) \in Seq(Pair) /\ SwapsOf(p) # <<>>
         /\ Head(SwapsOf(p)) = <<p[1], p[2]>>
         /\ Tail(SwapsOf(p)) = SwapsOf(Tail(p))
<1> DEFINE t == Tail(p)
           n == Len(p)
<1>1. p \in Seq(Phys) /\ n \in Nat /\ n > 1
  <2>1. p \in Seq(Phys) /\ n >= 1 /\ n # 1
    BY DEF SimplePath
  <2>2. n \in Nat
    BY <2>1, LenProperties
  <2> HIDE DEF n
  <2> QED
    BY <2>1, <2>2
<1>2. t \in Seq(Phys) /\ Len(t) = n - 1 /\ \A i \in 1 .. n - 1 : t[i] = p[i + 1]
  <2>1. p # <<>>
    BY <1>1, EmptySeq
  <2>2. t \in Seq(Phys) /\ Len(t) = n - 1 /\ \A i \in 1 .. Len(t) : t[i] = p[i + 1]
    BY <1>1, <2>1, HeadTailProperties
  <2> QED
    BY <2>2
<1>3. \A i \in 1 .. n : p[i] \in Phys
  BY <1>1, ElementOfSeq
<1> HIDE DEF t, n
<1>4. SimplePath(t)
  <2>1. \A i, j \in 1 .. Len(t) : i # j => t[i] # t[j]
    <3> TAKE i \in 1 .. Len(t), j \in 1 .. Len(t)
    <3>1. i + 1 \in 1 .. n /\ j + 1 \in 1 .. n /\ (i # j => i + 1 # j + 1)
      BY <1>1, <1>2
    <3>2. t[i] = p[i + 1] /\ t[j] = p[j + 1]
      BY <1>2
    <3> QED
      BY <3>1, <3>2 DEF SimplePath, n
  <2>2. \A i \in 2 .. Len(t) : Linked(t[i - 1], t[i])
    <3>0. \A k \in 2 .. n : Linked(p[k - 1], p[k])
      BY DEF SimplePath, n
    <3> TAKE i \in 2 .. Len(t)
    <3>1. i + 1 \in 2 .. n /\ i + 1 - 1 = i /\ i \in 1 .. n - 1 /\ i - 1 \in 1 .. n - 1 /\ i - 1 + 1 = i
      BY <1>1, <1>2
    <3>2. t[i] = p[i + 1] /\ t[i - 1] = p[i]
      BY <1>2, <3>1
    <3>3. Linked(p[i + 1 - 1], p[i + 1])
      BY <3>0, <3>1
    <3> QED
      BY <3>1, <3>2, <3>3
  <2>3. Len(t) >= 1
    BY <1>1, <1>2
  <2> QED
    BY <1>2, <2>1, <2>2, <2>3 DEF SimplePath
<1>5. t[1] = p[2] /\ PathEnd(t) = PathEnd(p)
  BY <1>1, <1>2 DEF PathEnd, n
<1>6. PathQubits(t) \subseteq PathQubits(p) \ {p[1]}
  <2> SUFFICES ASSUME NEW i \in 1 .. n - 1
               PROVE  t[i] \in PathQubits(p) /\ t[i] # p[1]
    BY <1>2 DEF PathQubits
  <2>1. i + 1 \in 1 .. n /\ i + 1 # 1 /\ 1 \in 1 .. n
    BY <1>1
  <2>2. t[i] = p[i + 1]
    BY <1>2
  <2> QED
    BY <2>1, <2>2 DEF PathQubits, SimplePath, n
<1>7. /\ p[1] \in PathQubits(p) /\ p[2] \in PathQubits(p) /\ p[1] # p[2]
      /\ p[1] \in Phys /\ p[2] \in Phys /\ Linked(p[1], p[2])
  <2>1. 1 \in 1 .. n /\ 2 \in 1 .. n /\ 2 \in 2 .. n /\ 2 - 1 = 1
    BY <1>1
  <2>2. p[1] \in PathQubits(p) /\ p[2] \in PathQubits(p) /\ p[1] # p[2]
    BY <2>1 DEF PathQubits, SimplePath, n
  <2>3. Linked(p[2 - 1], p[2])
    BY <2>1 DEF SimplePath, n
  <2> QED
    BY <1>3, <2>1, <2>2, <2>3
<1>8. SwapsOf(p) \in Seq(Pair) /\ Len(SwapsOf(p)) = n - 1
  <2>1. SwapsOf(p) \in Seq(Pair)
    BY <1>1, SwapsOfIsSeq DEF n
  <2> QED
    BY <1>1, <2>1 DEF SwapsOf, n
<1>9. \A i \in 1 .. n - 1 : SwapsOf(p)[i] = <<p[i], p[i + 1]>>
  BY <1>1 DEF SwapsOf, n
<1>10. SwapsOf(p) # <<>> /\ Head(SwapsOf(p)) = <<p[1], p[2]>>
  <2>1. SwapsOf(p) # <<>>
    BY <1>1, <1>8, EmptySeq
  <2>2. Head(SwapsOf(p)) = SwapsOf(p)[1]
    BY <1>8, <2>1, HeadIsFirst
  <2>3. 1 \in 1 .. n - 1 /\ 1 + 1 = 2
    BY <1>1
  <2> QED
    BY <1>9, <2>1, <2>2, <2>3
<1>11. Tail(SwapsOf(p)) = SwapsOf(t)
  <2>1. /\ Tail(SwapsOf(p)) \in Seq(Pair) /\ Len(Tail(SwapsOf(p))) = n - 2
        /\ \A i \in 1 .. n - 2 : Tail(SwapsOf(p))[i] = SwapsOf(p)[i + 1]
    <3>1. /\ Tail(SwapsOf(p)) \in Seq(Pair) /\ Len(Tail(SwapsOf(p))) = Len(SwapsOf(p)) - 1
          /\ \A i \in 1 .. Len(Tail(SwapsOf(p))) : Tail(SwapsOf(p))[i] = SwapsOf(p)[i + 1]
      BY <1>8, <1>10, HeadTailProperties
    <3> QED
      BY <1>1, <1>8, <3>1
  <2>2. SwapsOf(t) \in Seq(Pair) /\ Len(SwapsOf(t)) = n - 2
    <3>1. SwapsOf(t) \in Seq(Pair)
      BY <1>1, <1>2, SwapsOfIsSeq
    <3> QED
      BY <1>1, <1>2, <3>1 DEF SwapsOf
  <2>3. ASSUME NEW i \in 1 .. n - 2
        PROVE  Tail(SwapsOf(p))[i] = SwapsOf(t)[i]
    <3>1. i \in 1 .. n - 1 /\ i + 1 \in 1 .. n - 1 /\ i \in 1 .. Len(t) - 1
      BY <1>1, <1>2
    <3>2. SwapsOf(t)[i] = <<t[i], t[i + 1]>>
      BY <3>1 DEF SwapsOf
    <3>3. t[i] = p[i + 1] /\ t[i + 1] = p[i + 1 + 1]
      BY <1>2, <3>1
    <3> QED
      BY <1>9, <2>1, <3>1, <3>2, <3>3
  <2> QED
    BY <2>1, <2>2, <2>3, SeqEqual
<1> QED
  BY <1>4, <1>5, <1>6, <1>7, <1>8, <1>10, <1>11 DEF t

LEMMA ConcatHead ==
  ASSUME NEW S, NEW s \in Seq(S), NEW e \in Seq(S), s # <<>>
  PROVE  Head(s \o e) = Head(s) /\ Tail(s \o e) = Tail(s) \o e /\ s \o e # <<>>
<1> DEFINE c == s \o e
<1>1. Len(s) \in Nat /\ Len(e) \in Nat /\ Len(s) > 0
  BY EmptySeq, LenProperties
<1>2. /\ c \in Seq(S) /\ Len(c) = Len(s) + Len(e)
      /\ \A i \in 1 .. Len(s) : c[i] = s[i]
      /\ \A i \in 1 .. Len(e) : c[Len(s) + i] = e[i]
  BY <1>1, ConcatProperties
<1>3. c # <<>>
  BY <1>1, <1>2, EmptySeq
<1>4. /\ Head(c) = c[1] /\ Tail(c) \in Seq(S) /\ Len(Tail(c)) = Len(c) - 1
      /\ \A i \in 1 .. Len(Tail(c)) : Tail(c)[i] = c[i + 1]
  <2> HIDE DEF c
  <2>1. Head(c) = c[1]
    BY <1>2, <1>3, HeadIsFirst
  <2> QED
    BY <1>2, <1>3, <2>1, HeadTailProperties
<1>5. /\ Head(s) = s[1] /\ Tail(s) \in Seq(S) /\ Len(Tail(s)) = Len(s) - 1
      /\ \A i \in 1 .. Len(Tail(s)) : Tail(s)[i] = s[i + 1]
  BY HeadIsFirst, HeadTailProperties
<1>6. /\ Tail(s) \o e \in Seq(S) /\ Len(Tail(s) \o e) = Len(s) - 1 + Len(e)
      /\ \A i \in 1 .. Len(s) - 1 : (Tail(s) \o e)[i] = Tail(s)[i]
      /\ \A i \in 1 .. Len(e) : (Tail(s) \o e)[Len(s) - 1 + i] = e[i]
  BY <1>1, <1>5, ConcatProperties
<1>7. Head(c) = Head(s)
  BY <1>1, <1>2, <1>4, <1>5
<1> HIDE DEF c
<1>8. ASSUME NEW i \in 1 .. Len(Tail(c))
      PROVE  Tail(c)[i] = (Tail(s) \o e)[i]
  <2> DEFINE m == Len(s)
             n == Len(e)
  <2>1. Tail(c)[i] = c[i + 1]
    BY <1>4
  <2>2. i \in 1 .. m + n - 1 /\ m \in Nat /\ n \in Nat /\ m > 0
    BY <1>1, <1>2, <1>4
  <2> HIDE DEF m, n
  <2>3. CASE i \in 1 .. m - 1
    <3>1. i + 1 \in 1 .. m
      BY <2>2, <2>3
    <3>2. c[i + 1] = s[i + 1]
      BY <1>2, <3>1 DEF m
    <3>3. (Tail(s) \o e)[i] = Tail(s)[i] /\ Tail(s)[i] = s[i + 1]
      BY <1>5, <1>6, <2>3 DEF m
    <3> QED
      BY <2>1, <3>2, <3>3
  <2>4. CASE i \notin 1 .. m - 1
    <3> DEFINE j == i - (m - 1)
    <3>1. j \in 1 .. n /\ i = m - 1 + j /\ i + 1 = m + j
      BY <2>2, <2>4
    <3> HIDE DEF j
    <3>2. c[m + j] = e[j] /\ (Tail(s) \o e)[m - 1 + j] = e[j]
      BY <1>2, <1>6, <3>1 DEF m, n
    <3> QED
      BY <2>1, <3>1, <3>2
  <2> QED
    BY <2>3, <2>4
<1>9. Tail(c) = Tail(s) \o e
  BY <1>1, <1>2, <1>4, <1>6, <1>8, SeqEqual
<1> QED
  BY <1>3, <1>7, <1>9 DEF c
-----------------------------------------------------------------------------
(* While a gate is being routed, the swaps left are those of a path from   *)
(* where its operand is to where it has to be, or of two such paths that   *)
(* leave each other's operand alone.                                       *)

LeadsOne(q, m, r) ==
  \E p \in Seq(Phys) :
    /\ SimplePath(p) /\ p[1] = m.prog[q[1]]
    /\ r.swaps = SwapsOf(p) /\ r.goal = <<PathEnd(p)>>

LeadsTwo(q, m, r) ==
  \E p, o \in Seq(Phys) :
    /\ SimplePath(p) /\ p[1] = m.prog[q[1]]
    /\ SimplePath(o) /\ o[1] = m.prog[q[2]]
    /\ o[1] \notin PathQubits(p) /\ PathEnd(p) \notin PathQubits(o)
    /\ r.swaps = SwapsOf(p) \o SwapsOf(o)
    /\ r.goal = <<PathEnd(p), PathEnd(o)>>

Leads(q, m, r) ==
  \/ Len(q) = 1 /\ LeadsOne(q, m, r)
  \/ Len(q) = 2 /\ LeadsTwo(q, m, r)

RouteLeads == pc = "route" => Leads(CurrentGate.qubits, qubit_map_, route)

(* Where an exchange takes a program qubit.                                *)
LEMMA SwapMoves ==
  ASSUME NEW m \in QubitMap(Phys), isConsistent(m), NEW x \in Phys, NEW y \in Phys,
         NEW q \in Qubits, m.prog[q] \in Phys
  PROVE  Swap(m, x, y).prog[q] =
           IF m.prog[q] = x THEN y ELSE IF m.prog[q] = y THEN x ELSE m.prog[q]
<1>1. m.phys[m.prog[q]] = q
  BY PhysIsPlaced DEF isConsistent
<1>2. DOMAIN m.phys = Phys
  BY DEF QubitMap
<1>3. \A z \in Phys : m.phys[z] = q => z = m.prog[q]
  BY <1>2, ConventionalValues DEF isConsistent
<1> QED
  BY <1>1, <1>3, SwapEntries

LEMMA EmptyConcat ==
  ASSUME NEW S, NEW s \in Seq(S)
  PROVE  <<>> \o s = s
  OBVIOUS

LEMMA RouteStepOne ==
  ASSUME NEW m \in QubitMap(Phys), isConsistent(m), NEW q \in Seq(Qubits), Len(q) = 1,
         NEW r, LeadsOne(q, m, r), r.swaps # <<>>, NEW r1,
         r1 = [r EXCEPT !.swaps = Tail(@)], r \in [swaps : Seq(Pair), goal : Seq(Phys)]
  PROVE  /\ Head(r.swaps) \in Pair /\ Linked(Head(r.swaps)[1], Head(r.swaps)[2])
         /\ Head(r.swaps)[1] # Head(r.swaps)[2]
         /\ LeadsOne(q, Swap(m, Head(r.swaps)[1], Head(r.swaps)[2]), r1)
<1>1. PICK p \in Seq(Phys) :
         /\ SimplePath(p) /\ p[1] = m.prog[q[1]]
         /\ r.swaps = SwapsOf(p) /\ r.goal = <<PathEnd(p)>>
  BY DEF LeadsOne
<1>2. Len(p) # 1
  BY <1>1, PathDone
<1>3. /\ SimplePath(Tail(p)) /\ Tail(p)[1] = p[2] /\ PathEnd(Tail(p)) = PathEnd(p)
      /\ p[1] # p[2] /\ p[1] \in Phys /\ p[2] \in Phys /\ Linked(p[1], p[2])
      /\ Head(SwapsOf(p)) = <<p[1], p[2]>> /\ Tail(SwapsOf(p)) = SwapsOf(Tail(p))
  BY <1>1, <1>2, PathStep
<1>4. q[1] \in Qubits
  <2>1. 1 \in 1 .. Len(q)
    OBVIOUS
  <2> QED
    BY <2>1, ElementOfSeq
<1>5. Swap(m, p[1], p[2]).prog[q[1]] = p[2]
  BY <1>1, <1>3, <1>4, SwapMoves
<1>6. r1.swaps = Tail(r.swaps) /\ r1.goal = r.goal
  OBVIOUS
<1>7. Tail(p) \in Seq(Phys)
  BY <1>3 DEF SimplePath
<1>8. LeadsOne(q, Swap(m, p[1], p[2]), r1)
  BY <1>1, <1>3, <1>5, <1>6, <1>7 DEF LeadsOne
<1>9. Head(r.swaps) = <<p[1], p[2]>>
  BY <1>1, <1>3
<1> QED
  BY <1>3, <1>8, <1>9 DEF Pair

LEMMA RouteStepTwo ==
  ASSUME NEW m \in QubitMap(Phys), isConsistent(m), NEW q \in Seq(Qubits), Len(q) = 2,
         NEW r, LeadsTwo(q, m, r), r.swaps # <<>>, NEW r1,
         r1 = [r EXCEPT !.swaps = Tail(@)], r \in [swaps : Seq(Pair), goal : Seq(Phys)]
  PROVE  /\ Head(r.swaps) \in Pair /\ Linked(Head(r.swaps)[1], Head(r.swaps)[2])
         /\ Head(r.swaps)[1] # Head(r.swaps)[2]
         /\ LeadsTwo(q, Swap(m, Head(r.swaps)[1], Head(r.swaps)[2]), r1)
<1>1. PICK p, o \in Seq(Phys) :
         /\ SimplePath(p) /\ p[1] = m.prog[q[1]]
         /\ SimplePath(o) /\ o[1] = m.prog[q[2]]
         /\ o[1] \notin PathQubits(p) /\ PathEnd(p) \notin PathQubits(o)
         /\ r.swaps = SwapsOf(p) \o SwapsOf(o)
         /\ r.goal = <<PathEnd(p), PathEnd(o)>>
  BY DEF LeadsTwo
<1>2. q[1] \in Qubits /\ q[2] \in Qubits
  <2>1. 1 \in 1 .. Len(q) /\ 2 \in 1 .. Len(q)
    OBVIOUS
  <2> QED
    BY <2>1, ElementOfSeq
<1>3. r1.swaps = Tail(r.swaps) /\ r1.goal = r.goal
  OBVIOUS
<1>4. SwapsOf(o) \in Seq(Pair) /\ SwapsOf(p) \in Seq(Pair) /\ p[1] \in Phys /\ o[1] \in Phys
  <2>1. Len(p) \in Nat /\ Len(o) \in Nat /\ Len(p) >= 1 /\ Len(o) >= 1
    BY <1>1, LenProperties DEF SimplePath
  <2>2. Len(p) > 0 /\ Len(o) > 0 /\ 1 \in 1 .. Len(p) /\ 1 \in 1 .. Len(o)
    BY <2>1
  <2> QED
    BY <1>1, <2>2, SwapsOfIsSeq, ElementOfSeq
<1>5. CASE Len(p) # 1
  <2>1. /\ SimplePath(Tail(p)) /\ Tail(p)[1] = p[2] /\ PathEnd(Tail(p)) = PathEnd(p)
        /\ PathQubits(Tail(p)) \subseteq PathQubits(p)
        /\ p[1] \in PathQubits(p) /\ p[2] \in PathQubits(p)
        /\ p[1] # p[2] /\ p[1] \in Phys /\ p[2] \in Phys /\ Linked(p[1], p[2])
        /\ SwapsOf(p) # <<>>
        /\ Head(SwapsOf(p)) = <<p[1], p[2]>> /\ Tail(SwapsOf(p)) = SwapsOf(Tail(p))
    BY <1>1, <1>5, PathStep
  <2>2. Head(r.swaps) = <<p[1], p[2]>> /\ Tail(r.swaps) = SwapsOf(Tail(p)) \o SwapsOf(o)
    <3>1. /\ Head(SwapsOf(p) \o SwapsOf(o)) = Head(SwapsOf(p))
          /\ Tail(SwapsOf(p) \o SwapsOf(o)) = Tail(SwapsOf(p)) \o SwapsOf(o)
      BY <1>4, <2>1, ConcatHead
    <3> QED
      BY <1>1, <2>1, <3>1
  <2>3. Swap(m, p[1], p[2]).prog[q[1]] = p[2]
    BY <1>1, <1>2, <2>1, SwapMoves
  <2>4. Swap(m, p[1], p[2]).prog[q[2]] = o[1]
    <3>1. o[1] # p[1] /\ o[1] # p[2]
      BY <1>1, <2>1
    <3>2. m.prog[q[2]] \in Phys /\ m.prog[q[2]] = o[1]
      BY <1>1, <1>4
    <3> QED
      BY <1>2, <2>1, <3>1, <3>2, SwapMoves
  <2>5. Tail(p) \in Seq(Phys)
    BY <2>1 DEF SimplePath
  <2>6. LeadsTwo(q, Swap(m, p[1], p[2]), r1)
    <3>1. o[1] \notin PathQubits(Tail(p))
      BY <1>1, <2>1
    <3> QED
      BY <1>1, <1>3, <2>1, <2>2, <2>3, <2>4, <2>5, <3>1 DEF LeadsTwo
  <2> QED
    BY <2>1, <2>2, <2>6 DEF Pair
<1>6. CASE Len(p) = 1
  <2>1. SwapsOf(p) = <<>> /\ PathEnd(p) = p[1] /\ PathQubits(p) = {p[1]}
    BY <1>1, <1>6, PathDone
  <2>2. r.swaps = SwapsOf(o)
    BY <1>1, <1>4, <2>1, EmptyConcat
  <2>3. Len(o) # 1
    BY <1>1, <2>2, PathDone
  <2>4. /\ SimplePath(Tail(o)) /\ Tail(o)[1] = o[2] /\ PathEnd(Tail(o)) = PathEnd(o)
        /\ PathQubits(Tail(o)) \subseteq PathQubits(o)
        /\ o[1] \in PathQubits(o) /\ o[2] \in PathQubits(o)
        /\ o[1] # o[2] /\ o[1] \in Phys /\ o[2] \in Phys /\ Linked(o[1], o[2])
        /\ Head(SwapsOf(o)) = <<o[1], o[2]>> /\ Tail(SwapsOf(o)) = SwapsOf(Tail(o))
    BY <1>1, <2>3, PathStep
  <2>5. Head(r.swaps) = <<o[1], o[2]>> /\ Tail(r.swaps) = SwapsOf(Tail(o))
    BY <2>2, <2>4
  <2>6. Swap(m, o[1], o[2]).prog[q[2]] = o[2]
    BY <1>1, <1>2, <2>4, SwapMoves
  <2>7. Swap(m, o[1], o[2]).prog[q[1]] = p[1]
    BY <1>1, <1>2, <1>4, <2>1, <2>4, SwapMoves
  <2>8. Tail(o) \in Seq(Phys)
    BY <2>4 DEF SimplePath
  <2>9. Tail(r.swaps) = SwapsOf(p) \o SwapsOf(Tail(o))
    <3>1. Len(Tail(o)) \in Nat /\ Len(Tail(o)) >= 1
      BY <2>4, <2>8, LenProperties DEF SimplePath
    <3>2. Len(Tail(o)) > 0
      BY <3>1
    <3>3. SwapsOf(Tail(o)) \in Seq(Pair)
      BY <2>8, <3>2, SwapsOfIsSeq
    <3> QED
      BY <2>1, <2>5, <3>3, EmptyConcat
  <2>10. Tail(o)[1] \notin PathQubits(p) /\ PathEnd(p) \notin PathQubits(Tail(o))
    BY <1>1, <2>1, <2>4
  <2>11. LeadsTwo(q, Swap(m, o[1], o[2]), r1)
    BY <1>1, <1>3, <2>4, <2>6, <2>7, <2>8, <2>9, <2>10 DEF LeadsTwo
  <2> QED
    BY <2>4, <2>5, <2>11 DEF Pair
<1> QED
  BY <1>5, <1>6

(* At the end of the route the operands are where they have to be.         *)
LEMMA RouteEnds ==
  ASSUME NEW m, NEW q, NEW r, Leads(q, m, r), r.swaps = <<>>
  PROVE  Len(q) \in {1, 2} /\ \A k \in 1 .. Len(q) : r.goal[k] = m.prog[q[k]]
<1>0. ASSUME NEW p, SimplePath(p), SwapsOf(p) = <<>>
      PROVE  PathEnd(p) = p[1]
  <2>1. p \in Seq(Phys)
    BY <1>0 DEF SimplePath
  <2>2. Len(p) # 1 => SwapsOf(p) # <<>>
    BY <1>0, PathStep
  <2> QED
    BY <1>0, <2>2, PathDone
<1>1. CASE Len(q) = 1 /\ LeadsOne(q, m, r)
  <2>1. r.goal[1] = m.prog[q[1]]
    BY <1>0, <1>1 DEF LeadsOne
  <2> QED
    BY <1>1, <2>1
<1>2. CASE Len(q) = 2 /\ LeadsTwo(q, m, r)
  <2>1. PICK p, o \in Seq(Phys) :
         /\ SimplePath(p) /\ p[1] = m.prog[q[1]]
         /\ SimplePath(o) /\ o[1] = m.prog[q[2]]
         /\ r.swaps = SwapsOf(p) \o SwapsOf(o)
         /\ r.goal = <<PathEnd(p), PathEnd(o)>>
    BY <1>2 DEF LeadsTwo
  <2>2. SwapsOf(o) \in Seq(Pair) /\ SwapsOf(p) \in Seq(Pair)
    <3>1. Len(p) \in Nat /\ Len(o) \in Nat /\ Len(p) >= 1 /\ Len(o) >= 1
      BY <2>1, LenProperties DEF SimplePath
    <3>2. Len(p) > 0 /\ Len(o) > 0
      BY <3>1
    <3> QED
      BY <2>1, <3>2, SwapsOfIsSeq
  <2>3. SwapsOf(p) = <<>>
    BY <2>1, <2>2, ConcatHead
  <2>4. SwapsOf(o) = <<>>
    BY <2>1, <2>2, <2>3, EmptyConcat
  <2> QED
    BY <1>0, <1>2, <2>1, <2>3, <2>4
<1> QED
  BY <1>1, <1>2 DEF Leads

LEMMA FindRouteLeads ==
  ASSUME IInv, FindRoute
  PROVE  RouteLeads'
<1>1. /\ gate_index < Len(gates) /\ pc = "populate" /\ Len(CurrentPlace) <= 2
      /\ route' \in RoutesTo(CurrentGate, CurrentPlace)
      /\ gates' = gates /\ gate_index' = gate_index /\ qubit_map_' = qubit_map_
  BY DEF FindRoute, blockVars, tableVars
<1> DEFINE q == CurrentGate.qubits
<1>2. /\ q \in Seq(Qubits) /\ Len(q) > 0 /\ Len(q) \in Nat
      /\ \A k \in 1 .. Len(q) : qubit_map_.prog[q[k]] \in Phys
  <2>1. gate_index + 1 \in 1 .. Len(gates) /\ q \in Seq(Qubits) /\ Len(q) > 0
    BY <1>1, CurrentGateFacts DEF IInv
  <2>2. Len(q) \in Nat
    BY <2>1, LenProperties
  <2>3. \A k \in 1 .. Len(q) : qubit_map_.prog[q[k]] \in Phys
    BY <1>1, <2>1 DEF IInv, Bookkeeping, QubitsPlaced, CurrentGate
  <2> QED
    BY <2>1, <2>2, <2>3
<1>3. Len(CurrentPlace) = Len(q) /\ \A k \in 1 .. Len(q) : CurrentPlace[k] = qubit_map_.prog[q[k]]
  BY <1>2 DEF CurrentPlace
<1>4. q' = q
  BY <1>1 DEF CurrentGate
<1>5. CASE Len(q) = 1
  <2>1. PICK p \in PathsFrom[CurrentPlace[1]] :
           route' = [swaps |-> SwapsOf(p), goal |-> <<PathEnd(p)>>]
    BY <1>1, <1>3, <1>5 DEF RoutesTo
  <2>2. SimplePath(p) /\ p[1] = CurrentPlace[1]
    BY <1>2, <1>3, <1>5, PathIsSimple
  <2>3. p \in Seq(Phys)
    BY <2>2 DEF SimplePath
  <2>4. LeadsOne(q, qubit_map_, route')
    BY <1>3, <1>5, <2>1, <2>2, <2>3 DEF LeadsOne
  <2> QED
    BY <1>1, <1>4, <1>5, <2>4 DEF RouteLeads, Leads
<1>6. CASE Len(q) = 2
  <2>1. PICK p \in PathsFrom[CurrentPlace[1]] \X PathsFrom[CurrentPlace[2]] :
           /\ CurrentPlace[2] \notin PathQubits(p[1])
           /\ PathEnd(p[1]) \notin PathQubits(p[2])
           /\ route' = [swaps |-> SwapsOf(p[1]) \o SwapsOf(p[2]),
                        goal  |-> <<PathEnd(p[1]), PathEnd(p[2])>>]
    <3>1. Len(CurrentPlace) = 2
      BY <1>3, <1>6
    <3>2. Len(CurrentPlace) # 1
      BY <3>1
    <3> QED
      BY <1>1, <3>2 DEF RoutesTo
  <2>2. /\ SimplePath(p[1]) /\ p[1][1] = CurrentPlace[1]
        /\ SimplePath(p[2]) /\ p[2][1] = CurrentPlace[2]
    BY <1>2, <1>3, <1>6, <2>1, PathIsSimple
  <2>3. p[1] \in Seq(Phys) /\ p[2] \in Seq(Phys)
    BY <2>2 DEF SimplePath
  <2>4. LeadsTwo(q, qubit_map_, route')
    <3>1. CurrentPlace[1] = qubit_map_.prog[q[1]] /\ CurrentPlace[2] = qubit_map_.prog[q[2]]
      BY <1>3, <1>6
    <3>2. /\ route'.swaps = SwapsOf(p[1]) \o SwapsOf(p[2])
          /\ route'.goal = <<PathEnd(p[1]), PathEnd(p[2])>>
      BY <2>1
    <3> HIDE DEF q
    <3> QED
      BY <2>1, <2>2, <2>3, <3>1, <3>2 DEF LeadsTwo
  <2> QED
    BY <1>1, <1>4, <1>6, <2>4 DEF RouteLeads, Leads
<1>7. Len(q) \in {1, 2}
  <2> HIDE DEF q
  <2> QED
    BY <1>1, <1>2, <1>3
<1> QED
  BY <1>5, <1>6, <1>7

(* What a routing swap does to the route.                                  *)
LEMMA RoutingSwapLeads ==
  ASSUME IInv, RouteLeads, RoutingSwap
  PROVE  /\ RouteLeads'
         /\ Head(route.swaps) \in Pair
         /\ Linked(Head(route.swaps)[1], Head(route.swaps)[2])
         /\ Head(route.swaps)[1] # Head(route.swaps)[2]
<1> DEFINE q == CurrentGate.qubits
           s == Head(route.swaps)
<1>1. /\ gate_index < Len(gates) /\ pc = "route" /\ route.swaps # <<>>
      /\ route' = [route EXCEPT !.swaps = Tail(@)]
      /\ gates' = gates /\ gate_index' = gate_index
      /\ qubit_map_' = Swap(qubit_map_, s[1], s[2])
  BY DEF RoutingSwap, addRoutingSwap, blockVars, Swap, IInv, Bookkeeping
<1>2. q \in Seq(Qubits)
  BY <1>1, GateQubits, CurrentGateFacts DEF IInv
<1>3. /\ qubit_map_ \in QubitMap(Phys) /\ isConsistent(qubit_map_)
      /\ route \in [swaps : Seq(Pair), goal : Seq(Phys)]
  BY DEF IInv, TypeOK, PlacementsConsistent, Pair
<1>4. q' = q
  BY <1>1 DEF CurrentGate
<1> HIDE DEF q
<1>5. Leads(q, qubit_map_, route)
  BY <1>1 DEF RouteLeads, q
<1>6. CASE Len(q) = 1 /\ LeadsOne(q, qubit_map_, route)
  <2>1. /\ s \in Pair /\ Linked(s[1], s[2]) /\ s[1] # s[2]
        /\ LeadsOne(q, Swap(qubit_map_, s[1], s[2]), route')
    BY <1>1, <1>2, <1>3, <1>6, RouteStepOne
  <2>2. Leads(q', qubit_map_', route')
    BY <1>1, <1>4, <1>6, <2>1 DEF Leads
  <2> QED
    BY <2>1, <2>2 DEF RouteLeads, q
<1>7. CASE Len(q) = 2 /\ LeadsTwo(q, qubit_map_, route)
  <2>1. /\ s \in Pair /\ Linked(s[1], s[2]) /\ s[1] # s[2]
        /\ LeadsTwo(q, Swap(qubit_map_, s[1], s[2]), route')
    BY <1>1, <1>2, <1>3, <1>7, RouteStepTwo
  <2>2. Leads(q', qubit_map_', route')
    BY <1>1, <1>4, <1>7, <2>1 DEF Leads
  <2> QED
    BY <2>1, <2>2 DEF RouteLeads, q
<1> QED
  BY <1>5, <1>6, <1>7 DEF Leads

LEMMA NextRoute == IInv /\ RouteLeads /\ [Next]_vars => RouteLeads'
<1> SUFFICES ASSUME IInv, RouteLeads, [Next]_vars
             PROVE  RouteLeads'
  OBVIOUS
<1>1. CASE FindRoute
  BY <1>1, FindRouteLeads
<1>2. CASE RoutingSwap
  BY <1>2, RoutingSwapLeads
<1>3. CASE UNCHANGED vars
  BY <1>3 DEF vars, blockVars, forwardVars, tableVars, RouteLeads, CurrentGate
<1>4. CASE StartQBB \/ ScheduleInPlace \/ FailToRoute \/ PlaceRouted \/ EndPopulate
  BY <1>4 DEF StartQBB, ScheduleInPlace, FailToRoute, PlaceRouted, EndPopulate, RouteLeads
<1>5. CASE Backward
  <2>1. pc # "route"
    BY <1>5 DEF Backward, RetraceScan, RetracePass, RetraceSwap, PruneQubit, PruneDone,
                SortSwap, BackwardDone
  <2>2. pc' # "route"
    BY <1>5, <2>1 DEF Backward, RetraceScan, RetracePass, RetraceSwap, PruneQubit, PruneDone,
                SortSwap, BackwardDone
  <2> QED
    BY <2>2 DEF RouteLeads
<1>6. CASE Rewrite
  <2>1. pc' # "route"
    BY <1>6 DEF Rewrite, SweepQubit, SweepRound, ReorderGate, ReorderDone, ConvertGate,
                FinishQBB
  <2> QED
    BY <2>1 DEF RouteLeads
<1> QED
  BY <1>1, <1>2, <1>3, <1>4, <1>5, <1>6 DEF Next, Populate

-----------------------------------------------------------------------------
(* Where operands and swaps are.                                           *)

Qids(xs) == [k \in 1 .. Len(xs) |-> <<"qid", xs[k]>>]

PlacedOn(g, xs) ==
  /\ Len(xs) = Len(gates[g + 1].qubits)
  /\ IsAvailable(gates[g + 1], xs)
  /\ operands[g + 1] = Qids(xs)

OperandsPlaced == \A g \in 0 .. gate_index - 1 : \E xs \in Seq(Phys) : PlacedOn(g, xs)

AllLinked(s)  == \A i \in 1 .. Len(s) : Linked(s[i][1], s[i][2])
LineLinked(l) == \A k \in 2 .. Len(l) : Linked(l[k - 1], l[k])

SwapsLinked == AllLinked(routing) /\ AllLinked(todo) /\ LineLinked(line)

BlockLinked ==
  pc \in {"reorder", "convert"} =>
    \A i \in 1 .. Len(block) : block[i].gate < 0 =>
      \E x, y \in Phys : block[i].qubits = <<<<"qid", x>>, <<"qid", y>>>> /\ Linked(x, y)

FitInv == SwapsLinked /\ OperandsPlaced /\ BlockLinked

(* The path for sorting is a path of the platform.                         *)
PathIsLinked == LineLinked(HamiltonianPath)

LEMMA FitIsEnough ==
  ASSUME IInv, MInv, FitInv
  PROVE  BlockFitsPlatform
<1> SUFFICES ASSUME pc \in {"reorder", "convert"}, NEW i \in 1 .. Len(block)
             PROVE  LET xs == [k \in 1 .. Len(block[i].qubits) |-> QIDOf(block[i].qubits[k])]
                    IN  IF block[i].gate < 0 THEN Linked(xs[1], xs[2])
                        ELSE IsAvailable(gates[block[i].gate + 1], xs)
  BY DEF BlockFitsPlatform
<1> DEFINE xs == [k \in 1 .. Len(block[i].qubits) |-> QIDOf(block[i].qubits[k])]
<1>0. block[i].gate \in Int /\ gate_index \in Nat
  <2> DEFINE R == [gate : Int, qubits : Seq(Operands)]
  <2>1. block \in Seq(R) /\ gate_index \in Nat
    BY DEF IInv, TypeOK
  <2>2. block[i] \in R
    BY <2>1, ElementOfSeq
  <2> QED
    BY <2>1, <2>2
<1>1. CASE block[i].gate < 0
  <2>1. PICK x, y \in Phys : block[i].qubits = <<<<"qid", x>>, <<"qid", y>>>> /\ Linked(x, y)
    BY <1>1 DEF FitInv, BlockLinked
  <2>2. Len(block[i].qubits) = 2 /\ block[i].qubits[1] = <<"qid", x>>
        /\ block[i].qubits[2] = <<"qid", y>>
    BY <2>1
  <2>3. xs[1] = x /\ xs[2] = y
    BY <2>2 DEF QIDOf
  <2> QED
    BY <1>1, <2>1, <2>3
<1>2. CASE block[i].gate >= 0
  <2> DEFINE g == block[i].gate
  <2>1. g \in 0 .. gate_index - 1 /\ block[i].qubits = operands[g + 1]
    BY <1>0, <1>2 DEF MInv, BlockOnce
  <2>2. PICK ys \in Seq(Phys) : IsAvailable(gates[g + 1], ys) /\ operands[g + 1] = Qids(ys)
    BY <2>1 DEF FitInv, OperandsPlaced, PlacedOn
  <2>3. block[i].qubits = Qids(ys) /\ Len(ys) \in Nat
    BY <2>1, <2>2, LenProperties
  <2>4. Len(block[i].qubits) = Len(ys)
        /\ \A k \in 1 .. Len(ys) : block[i].qubits[k] = <<"qid", ys[k]>>
    BY <2>3 DEF Qids
  <2>5. \A k \in 1 .. Len(ys) : QIDOf(block[i].qubits[k]) = ys[k]
    BY <2>4 DEF QIDOf
  <2>6. xs = [k \in 1 .. Len(ys) |-> ys[k]]
    BY <2>4, <2>5
  <2>7. ys = [k \in 1 .. Len(ys) |-> ys[k]]
    OBVIOUS
  <2> HIDE DEF xs
  <2>8. xs = ys
    BY <2>6, <2>7
  <2>9. ~(g < 0)
    BY <1>0, <1>2
  <2> QED
    BY <2>2, <2>8, <2>9 DEF xs
<1> QED
  BY <1>0, <1>1, <1>2

-----------------------------------------------------------------------------
(* Lists of swaps and the line.                                            *)

LEMMA AppendLinked ==
  ASSUME NEW s \in Seq(Pair), AllLinked(s), NEW e \in Pair, Linked(e[1], e[2])
  PROVE  AllLinked(Append(s, e))
<1>1. /\ Len(s) \in Nat /\ Len(Append(s, e)) = Len(s) + 1
      /\ \A i \in 1 .. Len(s) : Append(s, e)[i] = s[i]
      /\ Append(s, e)[Len(s) + 1] = e
  BY LenProperties, AppendProperties
<1>2. \A i \in 1 .. Len(s) + 1 : i \in 1 .. Len(s) \/ i = Len(s) + 1
  BY <1>1
<1> QED
  BY <1>1, <1>2 DEF AllLinked

LEMMA WithoutLinked ==
  ASSUME NEW s \in Seq(Pair), AllLinked(s), NEW i \in 1 .. Len(s), NEW j \in 1 .. i - 1
  PROVE  AllLinked(Without(s, i, j))
<1>1. Len(s) \in Nat /\ Len(s) - 2 \in Nat
  <2>1. Len(s) \in Nat
    BY LenProperties
  <2> QED
    BY <2>1
<1>2. Len(Without(s, i, j)) = Len(s) - 2
  BY <1>1 DEF Without
<1> SUFFICES ASSUME NEW k \in 1 .. Len(s) - 2
             PROVE  Linked(Without(s, i, j)[k][1], Without(s, i, j)[k][2])
  BY <1>2 DEF AllLinked
<1>3. k \in 1 .. Len(s) /\ k + 1 \in 1 .. Len(s) /\ k + 2 \in 1 .. Len(s)
  BY <1>1
<1>4. Without(s, i, j)[k] \in {s[k], s[k + 1], s[k + 2]}
  BY DEF Without
<1> QED
  BY <1>3, <1>4 DEF AllLinked

LEMMA PrunedLinked ==
  ASSUME NEW l \in Seq(Phys), LineLinked(l), NEW k \in 1 .. Len(l),
         k \in {1, Len(l)} \/ Linked(l[k - 1], l[k + 1])
  PROVE  LineLinked(Pruned(l, k))
<1> DEFINE n == Len(l)
           c == Pruned(l, k)
<1>1. n \in Nat
  BY LenProperties
<1>2. /\ Len(c) = n - 1
      /\ \A i \in 1 .. k - 1 : c[i] = l[i]
      /\ \A i \in 1 .. n - k : c[k - 1 + i] = l[k + i]
  BY PrunedElements
<1>3. \A i \in 2 .. n : Linked(l[i - 1], l[i])
  BY DEF LineLinked
<1>4. (k = 1 \/ k = n) \/ Linked(l[k - 1], l[k + 1])
  OBVIOUS
<1> HIDE DEF c, n
<1>5. ASSUME NEW i \in 2 .. n - 1
      PROVE  Linked(c[i - 1], c[i])
  <2>1. CASE i < k
    <3>1. i \in 1 .. k - 1 /\ i - 1 \in 1 .. k - 1 /\ i \in 2 .. n
      BY <1>1, <2>1
    <3> QED
      BY <1>2, <1>3, <3>1
  <2>2. CASE i = k
    <3>1. k - 1 \in 1 .. k - 1 /\ 1 \in 1 .. n - k /\ k - 1 + 1 = k /\ k # 1 /\ k # n
      BY <1>1, <2>2
    <3>2. c[i - 1] = l[k - 1] /\ c[i] = l[k + 1]
      BY <1>2, <2>2, <3>1
    <3> QED
      BY <1>4, <3>1, <3>2
  <2>3. CASE i > k
    <3> DEFINE u == i - k
               v == i - k + 1
    <3>1. /\ u \in 1 .. n - k /\ v \in 1 .. n - k
          /\ k - 1 + u = i - 1 /\ k - 1 + v = i /\ k + u = i /\ k + v = i + 1
          /\ i + 1 \in 2 .. n /\ i + 1 - 1 = i
      BY <1>1, <2>3 DEF n
    <3> HIDE DEF u, v
    <3>2. c[i - 1] = l[i] /\ c[i] = l[i + 1]
      BY <1>2, <3>1
    <3>3. Linked(l[i + 1 - 1], l[i + 1])
      BY <1>3, <3>1
    <3> QED
      BY <3>1, <3>2, <3>3
  <2> QED
    BY <1>1, <2>1, <2>2, <2>3
<1> QED
  BY <1>2, <1>5 DEF LineLinked, c, n
-----------------------------------------------------------------------------
(* The swaps that are entered are on links.                                *)

LEMMA LineElements ==
  ASSUME line \in Seq(Phys), LineLinked(line), NEW k \in 1 .. Len(line) - 1
  PROVE  <<line[k], line[k + 1]>> \in Pair /\ Linked(line[k], line[k + 1])
<1>1. k \in 1 .. Len(line) /\ k + 1 \in 1 .. Len(line) /\ k + 1 \in 2 .. Len(line) /\ k + 1 - 1 = k
  <2>1. Len(line) \in Nat
    BY LenProperties
  <2> QED
    BY <2>1
<1>2. Linked(line[k + 1 - 1], line[k + 1])
  BY <1>1 DEF LineLinked
<1>3. line[k] \in Phys /\ line[k + 1] \in Phys
  BY <1>1, ElementOfSeq
<1> QED
  BY <1>1, <1>2, <1>3 DEF Pair

LEMMA RoutingSwapLinked ==
  ASSUME IInv, RouteLeads, SwapsLinked, RoutingSwap
  PROVE  /\ SwapsLinked'
         /\ \E s \in Pair : SwapEntered(s) /\ Linked(s[1], s[2])
<1> DEFINE s == Head(route.swaps)
<1>1. s \in Pair /\ Linked(s[1], s[2])
  BY RoutingSwapLeads
<1>2. routing' = Append(routing, s) /\ UNCHANGED <<todo, line>>
  BY DEF RoutingSwap, addRoutingSwap, loopVars
<1>3. routing \in Seq(Pair)
  BY DEF IInv, TypeOK, Pair
<1>4. SwapEntered(s)
  BY DEF RoutingSwap, SwapEntered, blockVars
<1> HIDE DEF s
<1>5. AllLinked(routing')
  BY <1>1, <1>2, <1>3, AppendLinked DEF SwapsLinked
<1> QED
  BY <1>1, <1>2, <1>4, <1>5 DEF SwapsLinked

LEMMA RetraceSwapLinked ==
  ASSUME IInv, SwapsLinked, RetraceSwap
  PROVE  /\ SwapsLinked'
         /\ \E s \in Pair : SwapEntered(s) /\ Linked(s[1], s[2])
<1> DEFINE s == todo[Len(todo)]
<1>1. todo \in Seq(Pair) /\ todo # <<>> /\ routing \in Seq(Pair)
  BY DEF RetraceSwap, IInv, TypeOK, Pair
<1>2. Len(todo) \in Nat /\ Len(todo) > 0 /\ Len(todo) \in 1 .. Len(todo)
  BY <1>1, EmptySeq, LenProperties
<1>3. s \in Pair /\ Linked(s[1], s[2])
  BY <1>1, <1>2, ElementOfSeq DEF SwapsLinked, AllLinked
<1>4. /\ routing' = Append(routing, s) /\ todo' = SubSeq(todo, 1, Len(todo) - 1)
      /\ line' = line
  BY DEF RetraceSwap, addRoutingSwap
<1>5. SwapEntered(s)
  BY DEF RetraceSwap, SwapEntered, blockVars, forwardVars
<1> HIDE DEF s
<1>6. AllLinked(routing')
  BY <1>1, <1>3, <1>4, AppendLinked DEF SwapsLinked
<1>7. AllLinked(todo')
  <2>1. Len(todo') = Len(todo) - 1 /\ \A i \in 1 .. Len(todo) - 1 : todo'[i] = todo[i]
    BY <1>1, <1>2, <1>4, FrontOf
  <2>2. \A i \in 1 .. Len(todo) - 1 : i \in 1 .. Len(todo)
    BY <1>2
  <2> QED
    BY <2>1, <2>2 DEF SwapsLinked, AllLinked
<1> QED
  BY <1>3, <1>4, <1>5, <1>6, <1>7 DEF SwapsLinked

LEMMA SortSwapLinked ==
  ASSUME IInv, SwapsLinked, SortSwap
  PROVE  /\ SwapsLinked'
         /\ \E s \in Pair : SwapEntered(s) /\ Linked(s[1], s[2])
<1>1. PICK k \in 1 .. Len(line) - 1 : addRoutingSwap(<<line[k], line[k + 1]>>)
  BY DEF SortSwap
<1> DEFINE s == <<line[k], line[k + 1]>>
<1>2. line \in Seq(Phys) /\ routing \in Seq(Pair)
  BY DEF IInv, TypeOK, Pair
<1>3. s \in Pair /\ Linked(s[1], s[2])
  BY <1>2, LineElements DEF SwapsLinked
<1>4. SwapEntered(s)
  BY <1>1 DEF SortSwap, SwapEntered, blockVars, forwardVars
<1>5. routing' = Append(routing, s) /\ UNCHANGED <<todo, line>>
  BY <1>1 DEF SortSwap, addRoutingSwap, loopVars
<1> HIDE DEF s
<1>6. AllLinked(routing')
  BY <1>2, <1>3, <1>5, AppendLinked DEF SwapsLinked
<1> QED
  BY <1>3, <1>4, <1>5, <1>6 DEF SwapsLinked

LEMMA NextLinked ==
  ASSUME PathIsLinked, IInv, RouteLeads, SwapsLinked, [Next]_vars
  PROVE  SwapsLinked'
<1>1. CASE RoutingSwap
  BY <1>1, RoutingSwapLinked
<1>2. CASE RetraceSwap
  BY <1>2, RetraceSwapLinked
<1>3. CASE SortSwap
  BY <1>3, SortSwapLinked
<1>4. CASE EndPopulate
  <2>1. routing' = routing /\ todo' \in {todo, routing} /\ line' \in {line, HamiltonianPath}
    BY <1>4 DEF EndPopulate, tableVars
  <2> QED
    BY <2>1 DEF SwapsLinked, PathIsLinked
<1>5. CASE RetraceScan
  <2>1. routing' = routing /\ line' = line /\ pc = "scan" /\ scan >= 2
    BY <1>5 DEF RetraceScan, tableVars
  <2>2. todo' = todo \/ \E j \in Touching(scan) : todo' = Without(todo, scan, j)
    BY <1>5 DEF RetraceScan
  <2>3. todo \in Seq(Pair) /\ scan \in 1 .. Len(todo)
    <3>1. todo \in Seq(Pair) /\ scan \in Nat /\ scan <= Len(todo)
      BY <2>1 DEF IInv, TypeOK, Pair, Bookkeeping
    <3>2. Len(todo) \in Nat
      BY <3>1, LenProperties
    <3> QED
      BY <2>1, <3>1, <3>2
  <2>4. \A j \in Touching(scan) : j \in 1 .. scan - 1
    BY DEF Touching
  <2>5. AllLinked(todo')
    BY <2>2, <2>3, <2>4, WithoutLinked DEF SwapsLinked
  <2> QED
    BY <2>1, <2>5 DEF SwapsLinked
<1>6. CASE PruneQubit
  <2>1. /\ routing' = routing /\ todo' = todo /\ pc = "prune" /\ scan >= 1
        /\ line' = IF Prunable(scan) THEN Pruned(line, scan) ELSE line
    BY <1>6 DEF PruneQubit, Pruned, tableVars
  <2>2. line \in Seq(Phys) /\ scan \in 1 .. Len(line)
    <3>1. line \in Seq(Phys) /\ scan \in Nat /\ scan <= Len(line)
      BY <2>1 DEF IInv, TypeOK, Bookkeeping
    <3>2. Len(line) \in Nat
      BY <3>1, LenProperties
    <3> QED
      BY <2>1, <3>1, <3>2
  <2>3. Prunable(scan) => scan \in {1, Len(line)} \/ Linked(line[scan - 1], line[scan + 1])
    BY DEF Prunable
  <2>4. LineLinked(line')
    BY <2>1, <2>2, <2>3, PrunedLinked DEF SwapsLinked
  <2> QED
    BY <2>1, <2>4 DEF SwapsLinked
<1>7. CASE FinishQBB
  <2>1. routing' = routing /\ todo' = <<>> /\ line' = <<>>
    BY <1>7 DEF FinishQBB, tableVars
  <2> QED
    BY <2>1 DEF SwapsLinked, AllLinked, LineLinked
<1>8. CASE ReorderDone
  <2>1. routing' = <<>> /\ todo' = todo /\ line' = line
    BY <1>8 DEF ReorderDone, loopVars
  <2> QED
    BY <2>1 DEF SwapsLinked, AllLinked
<1>9. CASE UNCHANGED <<routing, todo, line>>
  BY <1>9 DEF SwapsLinked
<1>10. CASE StartQBB \/ ScheduleInPlace \/ FindRoute \/ FailToRoute \/ PlaceRouted
  BY <1>9, <1>10 DEF StartQBB, ScheduleInPlace, FindRoute, FailToRoute, PlaceRouted, tableVars,
                     loopVars
<1>11. CASE RetracePass \/ PruneDone \/ BackwardDone
  BY <1>9, <1>11 DEF RetracePass, PruneDone, BackwardDone, tableVars, loopVars
<1>12. CASE SweepQubit \/ SweepRound \/ ReorderGate \/ ConvertGate
  BY <1>9, <1>12 DEF SweepQubit, SweepRound, ReorderGate, ConvertGate, tableVars, loopVars
<1>13. CASE UNCHANGED vars
  BY <1>9, <1>13 DEF vars, tableVars, loopVars
<1> QED
  BY <1>1, <1>2, <1>3, <1>4, <1>5, <1>6, <1>7, <1>8, <1>10, <1>11, <1>12, <1>13
     DEF Next, Populate, Backward, Rewrite
-----------------------------------------------------------------------------
(* The operands.                                                           *)

(* A native gate is entered where its qubits are, and those are its        *)
(* operands.                                                               *)
GatePlaced(xs) ==
  /\ GateEntered(xs)
  /\ \A k \in 1 .. Len(xs) : xs[k] = qubit_map_.prog[CurrentGate.qubits[k]]
  /\ UNCHANGED <<block, where, executed>>

LEMMA QidsIsSeq ==
  ASSUME NEW xs \in Seq(Phys)
  PROVE  /\ Qids(xs) \in Seq(Operands) /\ Len(Qids(xs)) = Len(xs)
         /\ \A k \in 1 .. Len(xs) : Qids(xs)[k] = <<"qid", xs[k]>>
<1>1. Len(xs) \in Nat /\ \A k \in 1 .. Len(xs) : xs[k] \in Phys
  BY LenProperties, ElementOfSeq
<1> QED
  BY <1>1 DEF Qids, Operands

LEMMA GateOperands ==
  ASSUME ~CanonicalSchedule, TypeOK, gate_index < Len(gates),
         NEW xs \in Seq(Phys), Len(xs) = Len(CurrentGate.qubits),
         IsAvailable(CurrentGate, xs), placeGate(xs)
  PROVE  /\ Len(operands) = gate_index /\ gate_index \in Nat
         /\ gate_index' = gate_index + 1
         /\ \A g \in 0 .. gate_index - 1 : operands'[g + 1] = operands[g + 1]
         /\ operands'[gate_index + 1] = Qids(xs)
<1>1. PICK ops \in [1 .. Len(xs) -> UNION {OperandsFor(x) : x \in Phys}] :
         /\ \A i \in 1 .. Len(xs) : ops[i] \in OperandsFor(xs[i])
         /\ operands' = Append(operands, ops)
  BY DEF placeGate
<1>2. Len(xs) \in Nat
  BY LenProperties
<1>3. ops = Qids(xs)
  <2>1. \A i \in 1 .. Len(xs) : ops[i] = <<"qid", xs[i]>>
    BY <1>1 DEF OperandsFor
  <2>2. ops = [i \in 1 .. Len(xs) |-> ops[i]]
    BY <1>1
  <2> QED
    BY <2>1, <2>2 DEF Qids
<1>4. Qids(xs) \in Seq(Operands)
  BY QidsIsSeq
<1>5. operands \in Seq(Seq(Operands)) /\ Len(operands) = gate_index /\ gate_index \in Nat
  BY DEF TypeOK
<1>6. /\ \A g \in 0 .. gate_index - 1 : operands'[g + 1] = operands[g + 1]
      /\ operands'[gate_index + 1] = Qids(xs)
  BY <1>1, <1>3, <1>4, <1>5, AppendProperties
<1>7. gate_index' = gate_index + 1
  BY DEF placeGate
<1> QED
  BY <1>5, <1>6, <1>7

LEMMA PlacedOperandsStay ==
  ASSUME ~CanonicalSchedule, IInv, OperandsPlaced, NEW xs \in Seq(Phys), GateEntered(xs)
  PROVE  OperandsPlaced'
<1>1. /\ gate_index < Len(gates) /\ Len(xs) = Len(CurrentGate.qubits)
      /\ IsAvailable(CurrentGate, xs) /\ placeGate(xs) /\ gates' = gates
  BY DEF GateEntered
<1>2. /\ gate_index \in Nat /\ gate_index' = gate_index + 1
      /\ \A g \in 0 .. gate_index - 1 : operands'[g + 1] = operands[g + 1]
      /\ operands'[gate_index + 1] = Qids(xs)
  BY <1>1, GateOperands DEF IInv
<1> SUFFICES ASSUME NEW g \in 0 .. gate_index
             PROVE  \E ys \in Seq(Phys) : /\ Len(ys) = Len(gates[g + 1].qubits)
                                          /\ IsAvailable(gates[g + 1], ys)
                                          /\ operands'[g + 1] = Qids(ys)
  BY <1>1, <1>2 DEF OperandsPlaced, PlacedOn
<1>3. CASE g = gate_index
  BY <1>1, <1>2, <1>3 DEF CurrentGate
<1>4. CASE g # gate_index
  <2>1. g \in 0 .. gate_index - 1
    BY <1>2, <1>4
  <2> QED
    BY <1>2, <2>1 DEF OperandsPlaced, PlacedOn
<1> QED
  BY <1>3, <1>4

-----------------------------------------------------------------------------
(* What each step does to table, operands and output.                      *)

SwapMade(s) ==
  /\ SwapEntered(s) /\ Linked(s[1], s[2])
  /\ UNCHANGED <<operands, block, where, executed>>

ListsWorked ==
  /\ UNCHANGED <<gates, initial_qubit_map_, qubit_map_, table_, gate_index, operands,
                 routing, block, where, executed>>
  /\ \/ pc' = pc /\ UNCHANGED <<sequence, final_qubit_map>>
     \/ /\ pc \notin {"idle", "reorder", "convert"}
        /\ pc' \notin {"idle", "reorder", "convert"}
  /\ pc' \in {"populate", "route"} => pc \in {"populate", "route"}
  /\ pc' = "sweep" => pc = "sweep" \/ final_qubit_map' = qubit_map_

LEMMA PopulateCircuit ==
  ASSUME IInv, RouteLeads, SwapsLinked, Populate
  PROVE  \/ StartQBB
         \/ \E xs \in Seq(Phys) : GatePlaced(xs)
         \/ \E s \in Pair : SwapMade(s)
         \/ ListsWorked
<1>1. CASE StartQBB
  BY <1>1
<1>2. CASE ScheduleInPlace
  <2>1. /\ pc = "populate" /\ pc' = pc
        /\ gate_index < Len(gates) /\ ~NeedsRouting /\ placeGate(CurrentPlace)
        /\ UNCHANGED <<gates, initial_qubit_map_, routing, qubit_map_, block, where, executed>>
    BY <1>2 DEF ScheduleInPlace, blockVars, outputVars, histVars
  <2>2. CurrentPlace \in Seq(Phys) /\ Len(CurrentPlace) = Len(CurrentGate.qubits)
    BY <2>1, CurrentPlaceIsSeq DEF IInv, Bookkeeping
  <2>3. IsAvailable(CurrentGate, CurrentPlace)
    BY <2>1 DEF NeedsRouting
  <2>4. GateEntered(CurrentPlace)
    BY <2>1, <2>2, <2>3 DEF GateEntered
  <2>5. \A k \in 1 .. Len(CurrentPlace) : CurrentPlace[k] = qubit_map_.prog[CurrentGate.qubits[k]]
    BY <2>2 DEF CurrentPlace
  <2>6. GatePlaced(CurrentPlace)
    BY <2>1, <2>4, <2>5 DEF GatePlaced
  <2> QED
    BY <2>2, <2>6
<1>3. CASE PlaceRouted
  <2>1. /\ pc = "route" /\ pc' = "populate" /\ placeGate(route.goal) /\ route.swaps = <<>>
        /\ UNCHANGED <<gates, initial_qubit_map_, routing, qubit_map_, block, where, executed>>
    BY <1>3 DEF PlaceRouted, blockVars, outputVars, histVars
  <2>2. /\ gate_index < Len(gates)
        /\ route.goal \in Seq(Phys) /\ Len(route.goal) = Len(CurrentGate.qubits)
        /\ IsAvailable(CurrentGate, route.goal)
    BY <2>1 DEF IInv, Bookkeeping, TypeOK
  <2>3. GateEntered(route.goal)
    BY <2>1, <2>2 DEF GateEntered
  <2>4. \A k \in 1 .. Len(route.goal) : route.goal[k] = qubit_map_.prog[CurrentGate.qubits[k]]
    BY <2>1, <2>2, RouteEnds DEF RouteLeads
  <2>5. GatePlaced(route.goal)
    BY <2>1, <2>3, <2>4 DEF GatePlaced
  <2> QED
    BY <2>2, <2>5
<1>4. CASE RoutingSwap
  <2>1. PICK s \in Pair : SwapEntered(s) /\ Linked(s[1], s[2])
    BY <1>4, RoutingSwapLinked
  <2>2. SwapMade(s)
    BY <1>4, <2>1 DEF RoutingSwap, SwapMade, outputVars, histVars
  <2> QED
    BY <2>2
<1>5. CASE FindRoute
  BY <1>5 DEF FindRoute, blockVars, tableVars, outputVars, histVars, ListsWorked
<1>6. CASE FailToRoute
  BY <1>6 DEF FailToRoute, blockVars, tableVars, forwardVars, outputVars, histVars, ListsWorked
<1>7. CASE EndPopulate
  <2>1. /\ pc = "populate" /\ pc' \in {"sweep", "scan", "not restored", "prune"}
        /\ UNCHANGED <<gates, initial_qubit_map_, qubit_map_, table_, gate_index, operands,
                       routing, block, where, executed>>
        /\ pc' = "sweep" => final_qubit_map' = qubit_map_
    BY <1>7 DEF EndPopulate, blockVars, tableVars, forwardVars, histVars
  <2> QED
    BY <2>1 DEF ListsWorked
<1> QED
  BY <1>1, <1>2, <1>3, <1>4, <1>5, <1>6, <1>7 DEF Populate

LEMMA BackwardCircuit ==
  ASSUME IInv, SwapsLinked, Backward
  PROVE  (\E s \in Pair : SwapMade(s)) \/ ListsWorked
<1>1. CASE RetraceSwap
  <2>1. PICK s \in Pair : SwapEntered(s) /\ Linked(s[1], s[2])
    BY <1>1, RetraceSwapLinked
  <2>2. SwapMade(s)
    BY <1>1, <2>1 DEF RetraceSwap, SwapMade, forwardVars, outputVars, histVars
  <2> QED
    BY <2>2
<1>2. CASE SortSwap
  <2>1. PICK s \in Pair : SwapEntered(s) /\ Linked(s[1], s[2])
    BY <1>2, SortSwapLinked
  <2>2. SwapMade(s)
    BY <1>2, <2>1 DEF SortSwap, SwapMade, forwardVars, outputVars, histVars
  <2> QED
    BY <2>2
<1>3. CASE RetraceScan
  BY <1>3 DEF RetraceScan, blockVars, tableVars, forwardVars, outputVars, histVars, ListsWorked
<1>4. CASE RetracePass
  BY <1>4 DEF RetracePass, blockVars, tableVars, forwardVars, outputVars, histVars, ListsWorked
<1>5. CASE PruneQubit \/ PruneDone
  BY <1>5 DEF PruneQubit, PruneDone, blockVars, tableVars, forwardVars, outputVars, histVars,
              ListsWorked
<1>6. CASE BackwardDone
  <2>1. /\ pc = "undo" /\ pc' \in {"sweep", "not restored"}
        /\ UNCHANGED <<gates, initial_qubit_map_, qubit_map_, table_, gate_index, operands,
                       routing, block, where, executed, final_qubit_map>>
        /\ pc' = "sweep" => final_qubit_map = qubit_map_
    BY <1>6 DEF BackwardDone, blockVars, tableVars, forwardVars, histVars, IsEqual
  <2> QED
    BY <2>1 DEF ListsWorked
<1> QED
  BY <1>1, <1>2, <1>3, <1>4, <1>5, <1>6 DEF Backward

LEMMA CircuitSteps ==
  ASSUME IInv, RouteLeads, SwapsLinked, [Next]_vars
  PROVE  \/ StartQBB
         \/ \E xs \in Seq(Phys) : GatePlaced(xs)
         \/ \E s \in Pair : SwapMade(s)
         \/ ListsWorked
         \/ Rewrite
<1>1. CASE UNCHANGED vars
  BY <1>1 DEF vars, blockVars, forwardVars, tableVars, outputVars, histVars, ListsWorked
<1> QED
  BY <1>1, PopulateCircuit, BackwardCircuit DEF Next

-----------------------------------------------------------------------------
(* The rewritten block.                                                    *)

LEMMA NextOperands ==
  ASSUME ~CanonicalSchedule, IInv, RouteLeads, SwapsLinked, OperandsPlaced, [Next]_vars
  PROVE  OperandsPlaced'
<1>1. CASE StartQBB \/ FinishQBB
  <2>1. gate_index' = 0
    BY <1>1 DEF StartQBB, FinishQBB
  <2> QED
    BY <2>1 DEF OperandsPlaced
<1>2. ASSUME NEW xs \in Seq(Phys), GatePlaced(xs)
      PROVE  OperandsPlaced'
  BY <1>2, PlacedOperandsStay DEF GatePlaced
<1>3. CASE UNCHANGED <<gates, gate_index, operands>>
  BY <1>3 DEF OperandsPlaced, PlacedOn
<1>4. ASSUME NEW s \in Pair, SwapMade(s)
      PROVE  OperandsPlaced'
  BY <1>3, <1>4 DEF SwapMade, SwapEntered
<1>5. CASE ListsWorked
  BY <1>3, <1>5 DEF ListsWorked
<1>6. CASE SweepQubit \/ SweepRound \/ ReorderGate \/ ReorderDone \/ ConvertGate
  BY <1>3, <1>6 DEF SweepQubit, SweepRound, ReorderGate, ReorderDone, ConvertGate,
                    blockVars, forwardVars
<1> QED
  BY <1>1, <1>2, <1>4, <1>5, <1>6, CircuitSteps DEF Rewrite

LEMMA ReorderGateLinked ==
  ASSUME IInv, SwapsLinked, BlockLinked, ReorderGate
  PROVE  BlockLinked'
<1> DEFINE R == [gate : Int, qubits : Seq(Operands)]
           n == Len(block) + 1
           g == sequence[n]
           q == IF g >= 0 THEN operands[g + 1]
                ELSE <<<<"qid", routing[-g][1]>>, <<"qid", routing[-g][2]>>>>
           e == [gate |-> g, qubits |-> q]
<1>1. /\ pc = "reorder" /\ pc' = pc /\ Len(block) < Len(sequence)
      /\ block' = Append(block, e)
  BY DEF ReorderGate
<1>2. block \in Seq(R) /\ sequence \in Seq(Int) /\ routing \in Seq(Pair) /\ gate_index \in Nat
  BY DEF IInv, TypeOK, Pair
<1>3. Len(block) \in Nat /\ Len(sequence) \in Nat /\ Len(routing) \in Nat
  BY <1>2, LenProperties
<1>4. n \in 1 .. Len(sequence)
  BY <1>1, <1>3
<1>5. g \in Positions /\ g \in Int
  BY <1>1, <1>2, <1>4, ElementOfSeq DEF IInv, EntriesKnown
<1>6. g < 0 => -g \in 1 .. Len(routing)
  BY <1>2, <1>3, <1>5 DEF Positions
<1>7. e.gate = g /\ e.qubits = q
  OBVIOUS
<1> HIDE DEF R, e, n
<1>8. block \in Seq(R \cup {e}) /\ e \in R \cup {e}
  BY <1>2
<1>9. /\ Len(block') = n
      /\ \A i \in 1 .. n - 1 : block'[i] = block[i]
      /\ block'[n] = e
  BY <1>1, <1>3, <1>8, AppendProperties DEF n
<1>10. \A i \in 1 .. n : i \in 1 .. Len(block) \/ i = n
  BY <1>3 DEF n
<1>11. n - 1 = Len(block)
  BY <1>3 DEF n
<1>12. ASSUME g < 0
       PROVE  \E x, y \in Phys : q = <<<<"qid", x>>, <<"qid", y>>>> /\ Linked(x, y)
  <2>1. routing[-g] \in Pair /\ Linked(routing[-g][1], routing[-g][2])
    BY <1>2, <1>6, <1>12, ElementOfSeq DEF SwapsLinked, AllLinked
  <2>2. ~(g >= 0)
    BY <1>5, <1>12
  <2>3. q = <<<<"qid", routing[-g][1]>>, <<"qid", routing[-g][2]>>>>
    BY <2>2
  <2>4. routing[-g][1] \in Phys /\ routing[-g][2] \in Phys
    BY <2>1 DEF Pair
  <2> QED
    BY <2>1, <2>3, <2>4
<1> HIDE DEF q, g
<1>13. \A i \in 1 .. n : block'[i].gate < 0 =>
         \E x, y \in Phys : block'[i].qubits = <<<<"qid", x>>, <<"qid", y>>>> /\ Linked(x, y)
  <2>1. \A i \in 1 .. Len(block) : block[i].gate < 0 =>
         \E x, y \in Phys : block[i].qubits = <<<<"qid", x>>, <<"qid", y>>>> /\ Linked(x, y)
    BY <1>1 DEF BlockLinked
  <2> TAKE i \in 1 .. n
  <2>2. CASE i = n
    BY <1>7, <1>9, <1>12, <2>2
  <2>3. CASE i \in 1 .. Len(block)
    BY <1>9, <1>11, <2>1, <2>3
  <2> QED
    BY <1>10, <2>2, <2>3
<1> QED
  BY <1>9, <1>13 DEF BlockLinked

LEMMA NextBlockLinked ==
  ASSUME IInv, RouteLeads, SwapsLinked, BlockLinked, [Next]_vars
  PROVE  BlockLinked'
<1>1. CASE pc' \notin {"reorder", "convert"}
  BY <1>1 DEF BlockLinked
<1>2. CASE StartQBB \/ FinishQBB \/ SweepQubit
  BY <1>1, <1>2 DEF StartQBB, FinishQBB, SweepQubit
<1>3. ASSUME NEW xs \in Seq(Phys), GatePlaced(xs)
      PROVE  BlockLinked'
  BY <1>1, <1>3 DEF GatePlaced, GateEntered
<1>4. ASSUME NEW s \in Pair, SwapMade(s)
      PROVE  BlockLinked'
  BY <1>1, <1>4 DEF SwapMade, SwapEntered
<1>5. CASE ListsWorked
  BY <1>5 DEF ListsWorked, BlockLinked
<1>6. CASE SweepRound
  <2>1. pc' = "sweep" \/ block' = <<>>
    BY <1>6 DEF SweepRound
  <2> QED
    BY <2>1 DEF BlockLinked
<1>7. CASE ReorderGate
  BY <1>7, ReorderGateLinked
<1>8. CASE ReorderDone
  BY <1>8 DEF ReorderDone, outputVars, BlockLinked
<1>9. CASE ConvertGate
  <2>1. pc = "convert" /\ block # <<>> /\ block' = Tail(block)
    BY <1>9 DEF ConvertGate
  <2>2. PICK R : block \in Seq(R)
    BY DEF IInv, TypeOK
  <2>3. \A i \in 1 .. Len(block') : block'[i] = block[i + 1] /\ i + 1 \in 1 .. Len(block)
    BY <2>1, <2>2, HeadTailProperties, LenProperties
  <2> QED
    BY <2>1, <2>3 DEF BlockLinked
<1> QED
  BY <1>2, <1>3, <1>4, <1>5, <1>6, <1>7, <1>8, <1>9, CircuitSteps DEF Rewrite

LEMMA RouteHolds == Spec => []RouteLeads
<1>1. Init => RouteLeads
  BY DEF Init, RouteLeads
<1> QED
  BY <1>1, NextRoute, InvHolds, PTL DEF Spec

LEMMA MeasureHolds == ~CanonicalSchedule => (Spec => []MInv)
<1> SUFFICES ASSUME ~CanonicalSchedule
             PROVE  Spec => []MInv
  OBVIOUS
<1>1. Init => MInv
  <2> SUFFICES ASSUME Init
               PROVE  MInv
    OBVIOUS
  <2>1. pc = "idle" /\ gate_index = 0
    BY DEF Init
  <2> QED
    BY <2>1 DEF MInv, MeasuredRecorded, MeasuredApart, GoalIsNew, SequenceOnce,
                BlockInSequence, BlockOnce
<1>2. IInv /\ MInv /\ [Next]_vars => MInv'
  BY NextMeasures
<1> QED
  BY <1>1, <1>2, InvHolds, PTL DEF Spec

LEMMA FitHolds ==
  ASSUME ~CanonicalSchedule, PathIsLinked
  PROVE  Spec => []FitInv
<1>1. Init => FitInv
  BY DEF Init, FitInv, SwapsLinked, AllLinked, LineLinked, OperandsPlaced, BlockLinked
<1>2. IInv /\ RouteLeads /\ FitInv /\ [Next]_vars => FitInv'
  BY NextLinked, NextOperands, NextBlockLinked DEF FitInv
<1> QED
  BY <1>1, <1>2, InvHolds, RouteHolds, PTL DEF Spec

(* Every native gate of the rewritten block is where the platform has it,  *)
(* and every swap on a link, whether it was added on a route, to take the  *)
(* routes back, or to sort the qubits along a path that was pruned before. *)
THEOREM BlocksFitPlatform ==
  ASSUME ~CanonicalSchedule, PathIsLinked
  PROVE  Spec => []BlockFitsPlatform
<1>1. IInv /\ MInv /\ FitInv => BlockFitsPlatform
  BY FitIsEnough
<1> QED
  BY <1>1, InvHolds, MeasureHolds, FitHolds, PTL

-----------------------------------------------------------------------------
(* Contents of the rows.  C[x][i] is what qubit x holds after entry i of   *)
(* its row, m the placement the rows start from.                           *)

Contents == [Phys -> Seq(Qubits \cup {Free})]

Held(m, C, x, i) == IF i = 1 THEN m.phys[x] ELSE C[x][i - 1]

Fits(C, T) == \A x \in Phys : Len(C[x]) = Len(T[x])

(* Gates and idling leave the contents of a qubit alone,                   *)
Keeps(m, C, T) ==
  \A x \in Phys : \A i \in 1 .. Len(T[x]) : T[x][i].gate >= 0 => C[x][i] = Held(m, C, x, i)

(* and after the last entry it holds what the placement n says.            *)
LeadsTo(m, C, T, n) == \A x \in Phys : Held(m, C, x, Len(T[x]) + 1) = n.phys[x]

OnlyOn(T, g, S) == \A x \in Phys : \A i \in 1 .. Len(T[x]) : T[x][i].gate = g => x \in S

Sites(xs) == {xs[k] : k \in 1 .. Len(xs)}

(* Gate g is on the qubits xs, when they hold the program qubits qs.       *)
ActsOn(m, C, T, g, xs, qs) ==
  /\ OnlyOn(T, g, Sites(xs))
  /\ \A k \in 1 .. Len(xs) : \E i \in 1 .. Len(T[xs[k]]) :
       T[xs[k]][i].gate = g /\ Held(m, C, xs[k], i) = qs[k]

(* Swap g exchanges what a and b hold.                                     *)
Exchanges(m, C, T, g, a, b) ==
  /\ OnlyOn(T, g, {a, b})
  /\ \E i \in 1 .. Len(T[a]) : \E j \in 1 .. Len(T[b]) :
       /\ T[a][i].gate = g /\ T[b][j].gate = g
       /\ C[a][i] = Held(m, C, b, j) /\ C[b][j] = Held(m, C, a, i)

RowsExtend(T, U, u, v, t, g, d) ==
  \A x \in Phys : IF x \in {u, v} THEN RowExtends(T[x], U[x], t, g, d) ELSE U[x] = T[x]

RowCases(T, U, u, v, t, g, d, x) ==
  /\ Len(T[x]) \in Nat /\ Len(U[x]) \in Nat /\ Len(T[x]) <= Len(U[x])
  /\ \A i \in 1 .. Len(T[x]) : i \in 1 .. Len(U[x]) /\ U[x][i] = T[x][i]
  /\ x \in {u, v} => /\ Len(U[x]) \in 1 .. Len(U[x])
                     /\ U[x][Len(U[x])].gate = g /\ U[x][Len(U[x])].end = t + d
                     /\ Len(U[x]) = Len(T[x]) + 1 \/ Len(U[x]) = Len(T[x]) + 2
  /\ x \notin {u, v} => U[x] = T[x]
  /\ \A i \in 1 .. Len(U[x]) :
       \/ i \in 1 .. Len(T[x])
       \/ x \in {u, v} /\ i = Len(U[x])
       \/ /\ x \in {u, v} /\ i = Len(T[x]) + 1 /\ i + 1 = Len(U[x])
          /\ U[x][i].gate = IsIdle

LEMMA ExtendCases ==
  ASSUME NEW T \in [Phys -> Seq(Entry)], NEW U \in [Phys -> Seq(Entry)],
         NEW u, NEW v, NEW t, NEW g, NEW d, RowsExtend(T, U, u, v, t, g, d),
         NEW x \in Phys
  PROVE  RowCases(T, U, u, v, t, g, d, x)
<1> DEFINE n == Len(T[x])
           o == Len(U[x])
<1>1. n \in Nat /\ o \in Nat
  BY LenProperties
<1>2. CASE x \notin {u, v}
  <2>1. U[x] = T[x]
    BY <1>2 DEF RowsExtend
  <2> QED
    BY <1>1, <1>2, <2>1 DEF RowCases
<1>3. CASE x \in {u, v}
  <2>1. /\ \A i \in 1 .. n : U[x][i] = T[x][i]
        /\ U[x][o] = [gate |-> g, end |-> t + d]
        /\ \/ o = n + 1
           \/ o = n + 2 /\ U[x][n + 1] = [gate |-> IsIdle, end |-> t]
    BY <1>3 DEF RowsExtend, RowExtends
  <2>2. U[x][o].gate = g /\ U[x][o].end = t + d /\ (o = n + 2 => U[x][n + 1].gate = IsIdle)
    BY <1>1, <2>1
  <2> HIDE DEF n, o
  <2>3. n <= o /\ o \in 1 .. o /\ \A i \in 1 .. n : i \in 1 .. o
    BY <1>1, <2>1
  <2>4. \A i \in 1 .. o : \/ i \in 1 .. n \/ i = o \/ (o = n + 2 /\ i = n + 1 /\ i + 1 = o)
    BY <1>1, <2>1
  <2> QED
    BY <1>1, <1>3, <2>1, <2>2, <2>3, <2>4 DEF RowCases, n, o
<1> QED
  BY <1>2, <1>3

-----------------------------------------------------------------------------
LEMMA FunctionIsSeq ==
  ASSUME NEW S, NEW n \in Nat, NEW f \in [1 .. n -> S]
  PROVE  f \in Seq(S) /\ Len(f) = n
  OBVIOUS

(* An entry in the rows u and v takes the placement from n to o.           *)

Grow(C, T, U, n, o) ==
  [x \in Phys |-> [i \in 1 .. Len(U[x]) |->
     IF i <= Len(T[x]) THEN C[x][i]
     ELSE IF i < Len(U[x]) THEN n.phys[x] ELSE o.phys[x]]]

(* Rows grown by one entry, and their contents with them.                  *)
Grows(m, C, D, T, U, u, v, g, n, o) ==
  /\ D \in Contents /\ Fits(D, U) /\ LeadsTo(m, D, U, o)
  /\ \A x \in Phys : \A i \in 1 .. Len(T[x]) :
       /\ i \in 1 .. Len(U[x]) /\ U[x][i] = T[x][i]
       /\ D[x][i] = C[x][i] /\ Held(m, D, x, i) = Held(m, C, x, i)
  /\ \A x \in {u, v} :
       /\ Len(U[x]) \in 1 .. Len(U[x]) /\ U[x][Len(U[x])].gate = g
       /\ Held(m, D, x, Len(U[x])) = n.phys[x] /\ D[x][Len(U[x])] = o.phys[x]
  /\ \A x \in Phys : \A i \in 1 .. Len(U[x]) :
       \/ i \in 1 .. Len(T[x])
       \/ x \in {u, v} /\ i = Len(U[x])
       \/ U[x][i].gate = IsIdle /\ D[x][i] = Held(m, D, x, i)

LEMMA GrowsBy ==
  ASSUME NEW T \in [Phys -> Seq(Entry)], NEW U \in [Phys -> Seq(Entry)],
         NEW u \in Phys, NEW v \in Phys, NEW t, NEW g, NEW d,
         RowsExtend(T, U, u, v, t, g, d),
         NEW m \in QubitMap(Phys), NEW n \in QubitMap(Phys), NEW o \in QubitMap(Phys),
         \A x \in Phys \ {u, v} : o.phys[x] = n.phys[x],
         NEW C \in Contents, Fits(C, T), LeadsTo(m, C, T, n)
  PROVE  Grows(m, C, Grow(C, T, U, n, o), T, U, u, v, g, n, o)
<1> DEFINE D == Grow(C, T, U, n, o)
           B == Qubits \cup {Free}
<1>0. \A x \in Phys : RowCases(T, U, u, v, t, g, d, x)
  BY ExtendCases
<1>1. \A x \in Phys : m.phys[x] \in B /\ n.phys[x] \in B /\ o.phys[x] \in B
  BY DEF QubitMap
<1>2. ASSUME NEW x \in Phys
      PROVE  /\ Len(T[x]) \in Nat /\ Len(U[x]) \in Nat /\ Len(C[x]) = Len(T[x])
             /\ D[x] = [i \in 1 .. Len(U[x]) |->
                  IF i <= Len(T[x]) THEN C[x][i]
                  ELSE IF i < Len(U[x]) THEN n.phys[x] ELSE o.phys[x]]
             /\ \A i \in 1 .. Len(T[x]) : C[x][i] \in B
  <2>1. Len(T[x]) \in Nat /\ Len(U[x]) \in Nat /\ Len(C[x]) = Len(T[x])
    BY LenProperties DEF Fits
  <2>2. C[x] \in Seq(B)
    BY DEF Contents
  <2>3. \A i \in 1 .. Len(T[x]) : C[x][i] \in B
    BY <2>1, <2>2, ElementOfSeq
  <2> QED
    BY <2>1, <2>3 DEF Grow
<1>3. ASSUME NEW x \in Phys
      PROVE  D[x] \in Seq(B) /\ Len(D[x]) = Len(U[x])
  <2>1. \A i \in 1 .. Len(U[x]) : i <= Len(T[x]) => i \in 1 .. Len(T[x])
    BY <1>2
  <2>2. ASSUME NEW i \in 1 .. Len(U[x])
        PROVE  D[x][i] \in B
    <3>1. D[x][i] = IF i <= Len(T[x]) THEN C[x][i]
                    ELSE IF i < Len(U[x]) THEN n.phys[x] ELSE o.phys[x]
      BY <1>2
    <3> HIDE DEF D, B
    <3>2. CASE i <= Len(T[x])
      BY <1>2, <2>1, <3>1, <3>2
    <3>3. CASE ~(i <= Len(T[x]))
      BY <1>1, <3>1, <3>3
    <3> QED
      BY <3>2, <3>3
  <2>3. D[x] = [i \in 1 .. Len(U[x]) |-> D[x][i]]
    BY <1>2
  <2>4. Len(U[x]) \in Nat
    BY <1>2
  <2> HIDE DEF D, B
  <2>5. D[x] \in [1 .. Len(U[x]) -> B]
    BY <2>2, <2>3, Zenon
  <2> QED
    BY <2>4, <2>5, FunctionIsSeq
<1>4. D \in Contents /\ Fits(D, U)
  <2>1. D = [x \in Phys |-> D[x]]
    BY DEF Grow
  <2> HIDE DEF D
  <2> QED
    BY <1>3, <2>1 DEF Contents, Fits
<1> HIDE DEF D, B
<1>5. ASSUME NEW x \in Phys, NEW i \in 1 .. Len(T[x])
      PROVE  /\ i \in 1 .. Len(U[x]) /\ U[x][i] = T[x][i]
             /\ D[x][i] = C[x][i] /\ Held(m, D, x, i) = Held(m, C, x, i)
  <2>0. \A k \in 1 .. Len(T[x]) : D[x][k] = C[x][k]
    <3>1. \A k \in 1 .. Len(T[x]) : k \in 1 .. Len(U[x]) /\ k <= Len(T[x])
      BY <1>0 DEF RowCases
    <3> QED
      BY <1>2, <3>1
  <2>1. i \in 1 .. Len(U[x]) /\ U[x][i] = T[x][i] /\ Len(T[x]) <= Len(U[x])
    BY <1>0 DEF RowCases
  <2>2. D[x][i] = C[x][i]
    BY <2>0
  <2>3. CASE i = 1
    BY <2>1, <2>2, <2>3 DEF Held
  <2>4. CASE i # 1
    <3>1. i - 1 \in 1 .. Len(T[x]) /\ i - 1 \in 1 .. Len(U[x])
      BY <1>2, <2>1, <2>4
    <3>2. D[x][i - 1] = C[x][i - 1]
      BY <2>0, <3>1
    <3> QED
      BY <2>1, <2>2, <2>4, <3>2 DEF Held
  <2> QED
    BY <2>3, <2>4
<1>6. ASSUME NEW x \in Phys
      PROVE  Len(T[x]) < Len(U[x]) => Held(m, D, x, Len(T[x]) + 1) = n.phys[x]
  <2>1. Held(m, C, x, Len(T[x]) + 1) = n.phys[x]
    BY DEF LeadsTo
  <2>2. CASE Len(T[x]) = 0
    BY <2>1, <2>2 DEF Held
  <2>3. CASE Len(T[x]) # 0
    <3>1. /\ Len(T[x]) + 1 # 1 /\ Len(T[x]) + 1 - 1 = Len(T[x])
          /\ Len(T[x]) \in 1 .. Len(T[x])
      BY <1>2, <2>3
    <3>2. D[x][Len(T[x])] = C[x][Len(T[x])]
      BY <1>5, <3>1
    <3> QED
      BY <2>1, <3>1, <3>2 DEF Held
  <2> QED
    BY <2>2, <2>3
<1>7. ASSUME NEW x \in {u, v}
      PROVE  /\ Len(U[x]) \in 1 .. Len(U[x]) /\ U[x][Len(U[x])].gate = g
             /\ Held(m, D, x, Len(U[x])) = n.phys[x] /\ D[x][Len(U[x])] = o.phys[x]
             /\ Len(U[x]) > Len(T[x]) /\ x \in Phys
  <2>1. x \in Phys
    OBVIOUS
  <2>2. /\ Len(U[x]) \in 1 .. Len(U[x]) /\ U[x][Len(U[x])].gate = g
        /\ Len(U[x]) = Len(T[x]) + 1 \/ Len(U[x]) = Len(T[x]) + 2
    BY <1>0, <2>1 DEF RowCases
  <2>3. Len(U[x]) > Len(T[x]) /\ ~(Len(U[x]) <= Len(T[x])) /\ ~(Len(U[x]) < Len(U[x]))
    BY <1>2, <2>1, <2>2
  <2>4. D[x][Len(U[x])] = o.phys[x]
    BY <1>2, <2>1, <2>2, <2>3
  <2>5. Held(m, D, x, Len(U[x])) = n.phys[x]
    <3>1. CASE Len(U[x]) = Len(T[x]) + 1
      BY <1>6, <2>1, <2>3, <3>1
    <3>2. CASE Len(U[x]) = Len(T[x]) + 2
      <4> DEFINE k == Len(T[x]) + 1
      <4>1. /\ Len(U[x]) # 1 /\ Len(U[x]) - 1 = k /\ k \in 1 .. Len(U[x])
            /\ ~(k <= Len(T[x])) /\ k < Len(U[x])
        BY <1>2, <2>1, <3>2
      <4> HIDE DEF k
      <4>2. D[x][k] = n.phys[x]
        BY <1>2, <2>1, <4>1
      <4> QED
        BY <4>1, <4>2 DEF Held
    <3> QED
      BY <2>2, <3>1, <3>2
  <2> QED
    BY <2>1, <2>2, <2>3, <2>4, <2>5
<1>8. ASSUME NEW x \in Phys, NEW i \in 1 .. Len(U[x])
      PROVE  \/ i \in 1 .. Len(T[x])
             \/ x \in {u, v} /\ i = Len(U[x])
             \/ U[x][i].gate = IsIdle /\ D[x][i] = Held(m, D, x, i)
  <2> SUFFICES ASSUME x \in {u, v}, i = Len(T[x]) + 1, i + 1 = Len(U[x])
               PROVE  U[x][i].gate = IsIdle => D[x][i] = Held(m, D, x, i)
    BY <1>0 DEF RowCases
  <2>1. ~(i <= Len(T[x])) /\ i < Len(U[x]) /\ Len(T[x]) < Len(U[x])
    BY <1>2
  <2>2. D[x][i] = n.phys[x]
    BY <1>2, <2>1
  <2> QED
    BY <1>6, <2>1, <2>2
<1>9. ASSUME NEW x \in Phys
      PROVE  Held(m, D, x, Len(U[x]) + 1) = o.phys[x]
  <2>1. CASE x \in {u, v}
    <3>1. Len(U[x]) + 1 # 1 /\ Len(U[x]) + 1 - 1 = Len(U[x])
      BY <1>2, <1>7, <2>1
    <3> QED
      BY <1>7, <2>1, <3>1 DEF Held
  <2>2. CASE x \notin {u, v}
    <3>1. U[x] = T[x] /\ o.phys[x] = n.phys[x]
      BY <1>0, <2>2 DEF RowCases
    <3>2. Held(m, C, x, Len(T[x]) + 1) = n.phys[x]
      BY DEF LeadsTo
    <3>3. CASE Len(T[x]) = 0
      BY <3>1, <3>2, <3>3 DEF Held
    <3>4. CASE Len(T[x]) # 0
      <4>1. /\ Len(T[x]) + 1 # 1 /\ Len(T[x]) + 1 - 1 = Len(T[x])
            /\ Len(T[x]) \in 1 .. Len(T[x])
        BY <1>2, <3>4
      <4>2. D[x][Len(T[x])] = C[x][Len(T[x])]
        BY <1>5, <4>1
      <4> QED
        BY <3>1, <3>2, <4>1, <4>2 DEF Held
    <3> QED
      BY <3>3, <3>4
  <2> QED
    BY <2>1, <2>2
<1> QED
  BY <1>4, <1>5, <1>7, <1>8, <1>9 DEF Grows, LeadsTo, D
-----------------------------------------------------------------------------
(* What is true of the entries stays true when the rows grow.              *)

LEMMA KeepsGrown ==
  ASSUME NEW T, NEW U, NEW C, NEW D, NEW m, NEW n, NEW o, NEW u \in Phys, NEW v \in Phys,
         NEW g \in Int, Grows(m, C, D, T, U, u, v, g, n, o), Keeps(m, C, T),
         g >= 0 => \A x \in {u, v} : o.phys[x] = n.phys[x]
  PROVE  Keeps(m, D, U)
<1> SUFFICES ASSUME NEW x \in Phys, NEW i \in 1 .. Len(U[x]), U[x][i].gate >= 0
             PROVE  D[x][i] = Held(m, D, x, i)
  BY DEF Keeps
<1>1. CASE i \in 1 .. Len(T[x])
  BY <1>1 DEF Grows, Keeps
<1>2. CASE x \in {u, v} /\ i = Len(U[x])
  BY <1>2 DEF Grows
<1> QED
  BY <1>1, <1>2 DEF Grows

LEMMA OnlyOnGrown ==
  ASSUME NEW T, NEW U, NEW C, NEW D, NEW m, NEW n, NEW o, NEW u \in Phys, NEW v \in Phys,
         NEW g, Grows(m, C, D, T, U, u, v, g, n, o),
         NEW h, h # g, h # IsIdle, NEW S, OnlyOn(T, h, S)
  PROVE  OnlyOn(U, h, S)
<1> SUFFICES ASSUME NEW x \in Phys, NEW i \in 1 .. Len(U[x]), U[x][i].gate = h
             PROVE  x \in S
  BY DEF OnlyOn
<1>1. i \in 1 .. Len(T[x])
  BY DEF Grows
<1>2. T[x][i].gate = h
  BY <1>1 DEF Grows
<1> QED
  BY <1>1, <1>2 DEF OnlyOn

LEMMA ActsOnGrown ==
  ASSUME NEW T, NEW U, NEW C, NEW D, NEW m, NEW n, NEW o, NEW u \in Phys, NEW v \in Phys,
         NEW g, Grows(m, C, D, T, U, u, v, g, n, o),
         NEW h, h # g, h # IsIdle, NEW xs \in Seq(Phys), NEW qs, ActsOn(m, C, T, h, xs, qs)
  PROVE  ActsOn(m, D, U, h, xs, qs)
<1>1. OnlyOn(U, h, Sites(xs))
  BY OnlyOnGrown DEF ActsOn
<1>2. ASSUME NEW k \in 1 .. Len(xs)
      PROVE  \E i \in 1 .. Len(U[xs[k]]) : U[xs[k]][i].gate = h /\ Held(m, D, xs[k], i) = qs[k]
  <2>1. PICK i \in 1 .. Len(T[xs[k]]) : T[xs[k]][i].gate = h /\ Held(m, C, xs[k], i) = qs[k]
    BY DEF ActsOn
  <2>2. xs[k] \in Phys
    BY ElementOfSeq
  <2>3. /\ i \in 1 .. Len(U[xs[k]]) /\ U[xs[k]][i] = T[xs[k]][i]
        /\ Held(m, D, xs[k], i) = Held(m, C, xs[k], i)
    BY <2>2 DEF Grows
  <2> QED
    BY <2>1, <2>3
<1> QED
  BY <1>1, <1>2 DEF ActsOn

LEMMA ExchangesGrown ==
  ASSUME NEW T, NEW U, NEW C, NEW D, NEW m, NEW n, NEW o, NEW u \in Phys, NEW v \in Phys,
         NEW g, Grows(m, C, D, T, U, u, v, g, n, o),
         NEW h, h # g, h # IsIdle, NEW a \in Phys, NEW b \in Phys, Exchanges(m, C, T, h, a, b)
  PROVE  Exchanges(m, D, U, h, a, b)
<1>1. OnlyOn(U, h, {a, b})
  BY OnlyOnGrown DEF Exchanges
<1>2. PICK i \in 1 .. Len(T[a]) : \E j \in 1 .. Len(T[b]) :
       /\ T[a][i].gate = h /\ T[b][j].gate = h
       /\ C[a][i] = Held(m, C, b, j) /\ C[b][j] = Held(m, C, a, i)
  BY DEF Exchanges
<1>3. PICK j \in 1 .. Len(T[b]) :
       /\ T[a][i].gate = h /\ T[b][j].gate = h
       /\ C[a][i] = Held(m, C, b, j) /\ C[b][j] = Held(m, C, a, i)
  BY <1>2
<1>4. /\ i \in 1 .. Len(U[a]) /\ U[a][i] = T[a][i]
      /\ D[a][i] = C[a][i] /\ Held(m, D, a, i) = Held(m, C, a, i)
  BY DEF Grows
<1>5. /\ j \in 1 .. Len(U[b]) /\ U[b][j] = T[b][j]
      /\ D[b][j] = C[b][j] /\ Held(m, D, b, j) = Held(m, C, b, j)
  BY DEF Grows
<1> QED
  BY <1>1, <1>3, <1>4, <1>5 DEF Exchanges

(* The new entry itself.                                                   *)
Absent(T, g) == \A x \in Phys : \A i \in 1 .. Len(T[x]) : T[x][i].gate # g

LEMMA OnlyOnNew ==
  ASSUME NEW T, NEW U, NEW C, NEW D, NEW m, NEW n, NEW o, NEW u \in Phys, NEW v \in Phys,
         NEW g, Grows(m, C, D, T, U, u, v, g, n, o), g # IsIdle, Absent(T, g)
  PROVE  OnlyOn(U, g, {u, v})
<1> SUFFICES ASSUME NEW x \in Phys, NEW i \in 1 .. Len(U[x]), U[x][i].gate = g
             PROVE  x \in {u, v}
  BY DEF OnlyOn
<1>1. CASE i \in 1 .. Len(T[x])
  <2>1. U[x][i] = T[x][i]
    BY <1>1 DEF Grows
  <2> QED
    BY <1>1, <2>1 DEF Absent
<1> QED
  BY <1>1 DEF Grows

LEMMA ActsOnNew ==
  ASSUME NEW T, NEW U, NEW C, NEW D, NEW m, NEW n, NEW o, NEW u \in Phys, NEW v \in Phys,
         NEW g, Grows(m, C, D, T, U, u, v, g, n, o), g # IsIdle, Absent(T, g),
         NEW xs \in Seq(Phys), Sites(xs) = {u, v}, NEW qs,
         \A k \in 1 .. Len(xs) : n.phys[xs[k]] = qs[k]
  PROVE  ActsOn(m, D, U, g, xs, qs)
<1>1. OnlyOn(U, g, Sites(xs))
  BY OnlyOnNew
<1>2. ASSUME NEW k \in 1 .. Len(xs)
      PROVE  \E i \in 1 .. Len(U[xs[k]]) : U[xs[k]][i].gate = g /\ Held(m, D, xs[k], i) = qs[k]
  <2> DEFINE x == xs[k]
  <2>1. x \in {u, v}
    <3>1. x \in Sites(xs)
      BY DEF Sites
    <3> QED
      BY <3>1
  <2> HIDE DEF x
  <2>2. /\ Len(U[x]) \in 1 .. Len(U[x]) /\ U[x][Len(U[x])].gate = g
        /\ Held(m, D, x, Len(U[x])) = n.phys[x]
    BY <2>1 DEF Grows
  <2>3. n.phys[x] = qs[k]
    BY DEF x
  <2>4. \E i \in 1 .. Len(U[x]) : U[x][i].gate = g /\ Held(m, D, x, i) = qs[k]
    BY <2>2, <2>3
  <2> QED
    BY <2>4 DEF x
<1> QED
  BY <1>1, <1>2 DEF ActsOn

LEMMA ExchangesNew ==
  ASSUME NEW T, NEW U, NEW C, NEW D, NEW m, NEW n, NEW o, NEW u \in Phys, NEW v \in Phys,
         NEW g, Grows(m, C, D, T, U, u, v, g, n, o), g # IsIdle, Absent(T, g),
         o.phys[u] = n.phys[v], o.phys[v] = n.phys[u]
  PROVE  Exchanges(m, D, U, g, u, v)
<1>1. OnlyOn(U, g, {u, v})
  BY OnlyOnNew
<1>2. /\ Len(U[u]) \in 1 .. Len(U[u]) /\ U[u][Len(U[u])].gate = g
      /\ Held(m, D, u, Len(U[u])) = n.phys[u] /\ D[u][Len(U[u])] = o.phys[u]
  BY DEF Grows
<1>3. /\ Len(U[v]) \in 1 .. Len(U[v]) /\ U[v][Len(U[v])].gate = g
      /\ Held(m, D, v, Len(U[v])) = n.phys[v] /\ D[v][Len(U[v])] = o.phys[v]
  BY DEF Grows
<1> QED
  BY <1>1, <1>2, <1>3 DEF Exchanges

-----------------------------------------------------------------------------
(* The account of a block: contents for its rows that start from m, end    *)
(* with n, and agree with the gates entered and the swaps.                 *)

GateAccounted(m, C, T, gs, ops, h) ==
  \E xs \in Seq(Phys) :
    /\ ops[h + 1] = Qids(xs) /\ Len(xs) = Len(gs[h + 1].qubits)
    /\ ActsOn(m, C, T, h, xs, gs[h + 1].qubits)

Account(m, C, T, n, gs, k, ops, sw) ==
  /\ Fits(C, T) /\ Keeps(m, C, T) /\ LeadsTo(m, C, T, n)
  /\ \A h \in 0 .. k - 1 : GateAccounted(m, C, T, gs, ops, h)
  /\ \A p \in 1 .. Len(sw) : Exchanges(m, C, T, -p, sw[p][1], sw[p][2])

LEMMA AccountBegins ==
  ASSUME NEW m, NEW gs, NEW ops
  PROVE  \E C \in Contents :
           Account(m, C, [x \in Phys |-> <<>>], m, gs, 0, ops, <<>>)
<1> DEFINE C == [x \in Phys |-> <<>>]
<1>1. C \in Contents
  BY DEF Contents
<1>2. Account(m, C, C, m, gs, 0, ops, <<>>)
  BY DEF Account, Fits, Keeps, LeadsTo, Held
<1> QED
  BY <1>1, <1>2

LEMMA EntryIsAbsent ==
  ASSUME IInv, pc \notin {"idle", "convert"}, NEW g, g \notin Positions, g # IsIdle
  PROVE  Absent(table_, g)
  BY DEF IInv, EntriesKnown, Absent

LEMMA AddedRows ==
  ASSUME IInv, NEW u \in Phys, NEW v \in Phys, NEW g \in Int, NEW d \in Nat,
         addGateToTable({u, v}, g, d)
  PROVE  \E t \in Nat : TableExtends(u, v, t, g, d) /\ RowsExtend(table_, table_', u, v, t, g, d)
<1>1. table_ \in [Phys -> Seq(Entry)]
  BY DEF IInv, TypeOK, Entry
<1> QED
  BY <1>1, AddedExtends DEF TableExtends, RowsExtend

(* One more gate.                                                          *)
LEMMA GateAccount ==
  ASSUME ~CanonicalSchedule, IInv, IInv', NEW xs \in Seq(Phys), GatePlaced(xs),
         Len(gates) <= IsIdle, NEW C \in Contents,
         Account(initial_qubit_map_, C, table_, qubit_map_, gates, gate_index, operands, routing)
  PROVE  \E D \in Contents :
           Account(initial_qubit_map_, D, table_', qubit_map_, gates, gate_index + 1, operands',
                   routing)
<1> DEFINE m == initial_qubit_map_
           n == qubit_map_
           g == gate_index
<1>1. /\ GateEntered(xs) /\ gate_index < Len(gates) /\ pc \notin {"idle", "convert"}
      /\ pc \in {"populate", "route"}
      /\ Len(xs) = Len(CurrentGate.qubits) /\ IsAvailable(CurrentGate, xs) /\ placeGate(xs)
      /\ \A k \in 1 .. Len(xs) : xs[k] = n.prog[CurrentGate.qubits[k]]
  BY DEF GatePlaced, GateEntered
<1>2. /\ m \in QubitMap(Phys) /\ n \in QubitMap(Phys) /\ isConsistent(n) /\ DOMAIN n.phys = Phys
      /\ table_ \in [Phys -> Seq(Entry)] /\ table_' \in [Phys -> Seq(Entry)]
      /\ g \in Nat /\ routing \in Seq(Pair)
  <2>1. /\ m \in QubitMap(Phys) /\ n \in QubitMap(Phys)
        /\ gate_index \in 0 .. Len(gates)
    BY DEF IInv, TypeOK
  <2>2. table_ \in [Phys -> Seq(Entry)] /\ routing \in Seq(Pair)
    BY DEF IInv, TypeOK, Entry, Pair
  <2>3. table_' \in [Phys -> Seq(Entry)]
    BY DEF IInv, TypeOK, Entry
  <2>4. isConsistent(n)
    BY DEF IInv, PlacementsConsistent
  <2>5. DOMAIN n.phys = Phys
    BY <2>1 DEF QubitMap
  <2>6. g \in Nat
    BY <2>1
  <2> QED
    BY <2>1, <2>2, <2>3, <2>4, <2>5, <2>6
<1>3. PICK u, v \in Phys :
           /\ {xs[i] : i \in 1 .. Len(xs)} = {u, v}
           /\ Entered(u, v, g, GateDuration(CurrentGate))
           /\ GateDuration(CurrentGate) \in Nat \ {0}
  BY <1>1, GateIsEntered
<1>4. PICK t \in Nat : RowsExtend(table_, table_', u, v, t, g, GateDuration(CurrentGate))
  <2>1. GateDuration(CurrentGate) \in Nat /\ g \in Int
    BY <1>2, <1>3
  <2> QED
    BY <1>3, <2>1, AddedRows DEF Entered
<1> DEFINE D == Grow(C, table_, table_', n, n)
<1>5. Grows(m, C, D, table_, table_', u, v, g, n, n)
  BY <1>2, <1>4, GrowsBy DEF Account
<1>6. g # IsIdle /\ Absent(table_, g) /\ g \in Int
  <2>1. g # IsIdle
    <3>1. Len(gates) \in Nat
      BY <1>1, CurrentGateFacts, LenProperties, BlockShape DEF IInv
    <3> QED
      BY <1>1, <1>2, <3>1 DEF IsIdle
  <2>2. g \notin Positions
    BY <1>3 DEF Entered
  <2> QED
    BY <1>1, <1>2, <2>1, <2>2, EntryIsAbsent
<1>7. /\ \A h \in 0 .. g - 1 : operands'[h + 1] = operands[h + 1]
      /\ operands'[g + 1] = Qids(xs)
  BY <1>1, GateOperands DEF IInv
<1> HIDE DEF D
<1>8. D \in Contents /\ Fits(D, table_') /\ LeadsTo(m, D, table_', n)
  BY <1>5 DEF Grows
<1>9. Keeps(m, D, table_')
  BY <1>5, <1>6, KeepsGrown DEF Account
<1>10. ASSUME NEW h \in 0 .. g - 1
       PROVE  GateAccounted(m, D, table_', gates, operands', h)
  <2>1. h # g /\ h # IsIdle
    <3>1. h < g /\ g < IsIdle
      <4>1. Len(gates) \in Nat
        BY <1>1, CurrentGateFacts, LenProperties, BlockShape DEF IInv
      <4> QED
        BY <1>1, <1>2, <4>1 DEF IsIdle
    <3> QED
      BY <1>2, <3>1 DEF IsIdle
  <2>2. PICK ys \in Seq(Phys) : /\ operands[h + 1] = Qids(ys)
                                /\ Len(ys) = Len(gates[h + 1].qubits)
                                /\ ActsOn(m, C, table_, h, ys, gates[h + 1].qubits)
    BY DEF Account, GateAccounted
  <2>3. ActsOn(m, D, table_', h, ys, gates[h + 1].qubits)
    BY <1>5, <2>1, <2>2, ActsOnGrown
  <2> QED
    BY <1>7, <2>2, <2>3 DEF GateAccounted
<1>11. GateAccounted(m, D, table_', gates, operands', g)
  <2>1. \A k \in 1 .. Len(xs) : n.phys[xs[k]] = CurrentGate.qubits[k]
    <3> TAKE k \in 1 .. Len(xs)
    <3>1. xs[k] = n.prog[CurrentGate.qubits[k]] /\ xs[k] \in Phys
      BY <1>1, ElementOfSeq
    <3>2. CurrentGate.qubits[k] \in Qubits
      BY <1>1, CurrentGateFacts, ElementOfSeq DEF IInv
    <3> QED
      BY <1>2, <3>1, <3>2, PhysIsPlaced DEF isConsistent
  <2>2. ActsOn(m, D, table_', g, xs, CurrentGate.qubits)
    <3>1. Sites(xs) = {u, v}
      BY <1>3 DEF Sites
    <3> HIDE DEF g, m, n
    <3> QED
      BY <1>5, <1>6, <2>1, <3>1, ActsOnNew
  <2> QED
    BY <1>1, <1>7, <2>2 DEF GateAccounted, CurrentGate
<1>12. ASSUME NEW p \in 1 .. Len(routing)
       PROVE  Exchanges(m, D, table_', -p, routing[p][1], routing[p][2])
  <2>1. routing[p] \in Pair
    BY <1>2, ElementOfSeq
  <2>2. routing[p][1] \in Phys /\ routing[p][2] \in Phys
    BY <2>1 DEF Pair
  <2>3. -p # g /\ -p # IsIdle
    <3>1. p \in Nat /\ p > 0 /\ p <= Len(routing) /\ Len(routing) \in Nat
      BY <1>2, LenProperties
    <3> QED
      BY <1>2, <3>1 DEF IsIdle
  <2>4. Exchanges(m, C, table_, -p, routing[p][1], routing[p][2])
    BY DEF Account
  <2> QED
    BY <1>5, <2>2, <2>3, <2>4, ExchangesGrown
<1>13. \A h \in 0 .. (g + 1) - 1 : GateAccounted(m, D, table_', gates, operands', h)
  <2>1. \A h \in 0 .. (g + 1) - 1 : h \in 0 .. g - 1 \/ h = g
    BY <1>2
  <2> QED
    BY <1>10, <1>11, <2>1
<1>14. Account(m, D, table_', n, gates, g + 1, operands', routing)
  BY <1>8, <1>9, <1>12, <1>13 DEF Account
<1> QED
  BY <1>8, <1>14

(* One more swap.                                                          *)
LEMMA SwapAccount ==
  ASSUME IInv, IInv', NEW s \in Pair, SwapMade(s), gate_index <= IsIdle, NEW C \in Contents,
         Account(initial_qubit_map_, C, table_, qubit_map_, gates, gate_index, operands, routing)
  PROVE  \E D \in Contents :
           Account(initial_qubit_map_, D, table_', qubit_map_', gates, gate_index, operands,
                   routing')
<1> DEFINE m == initial_qubit_map_
           n == qubit_map_
           o == qubit_map_'
           N == Len(routing) + 1
           g == -N
           u == s[1]
           v == s[2]
<1>1. /\ SwapEntered(s) /\ pc \notin {"idle", "convert"} /\ addRoutingSwap(s)
  BY DEF SwapMade, SwapEntered
<1>2. /\ m \in QubitMap(Phys) /\ n \in QubitMap(Phys) /\ o \in QubitMap(Phys)
      /\ table_ \in [Phys -> Seq(Entry)] /\ table_' \in [Phys -> Seq(Entry)]
      /\ gate_index \in Nat /\ routing \in Seq(Pair) /\ Len(routing) \in Nat
  BY LenProperties DEF IInv, TypeOK, Entry, Pair
<1>3. /\ u \in Phys /\ v \in Phys
      /\ Entered(u, v, -Len(routing'), SwapDuration)
      /\ SwapDuration \in Nat \ {0} /\ Len(routing') = N
  BY <1>1, SwapIsEntered
<1>4. g \in Int /\ g < 0
  BY <1>2
<1>5. PICK t \in Nat : RowsExtend(table_, table_', u, v, t, g, SwapDuration)
  <2>1. SwapDuration \in Nat /\ g = -Len(routing')
    BY <1>3
  <2>2. addGateToTable({u, v}, g, SwapDuration)
    BY <1>3, <2>1 DEF Entered
  <2> QED
    BY <1>3, <1>4, <2>1, <2>2, AddedRows
<1>6. /\ o.phys[u] = n.phys[v] /\ o.phys[v] = n.phys[u]
      /\ \A x \in Phys \ {u, v} : o.phys[x] = n.phys[x]
  <2>1. o = Swap(n, u, v)
    BY <1>1 DEF addRoutingSwap, Swap
  <2> QED
    BY <1>2, <1>3, <2>1, SwapEntries
<1>7. /\ routing' = Append(routing, s)
      /\ \A p \in 1 .. Len(routing) : routing'[p] = routing[p]
      /\ routing'[N] = s
  BY <1>1, <1>2, AppendProperties DEF addRoutingSwap
<1> DEFINE D == Grow(C, table_, table_', n, o)
<1>8. Grows(m, C, D, table_, table_', u, v, g, n, o)
  BY <1>2, <1>3, <1>5, <1>6, GrowsBy DEF Account
<1>9. g # IsIdle /\ Absent(table_, g)
  <2>1. g # IsIdle
    BY <1>4 DEF IsIdle
  <2>2. g \notin Positions
    BY <1>3 DEF Entered
  <2> QED
    BY <1>1, <2>1, <2>2, EntryIsAbsent
<1> HIDE DEF D
<1>10. D \in Contents /\ Fits(D, table_') /\ LeadsTo(m, D, table_', o)
  BY <1>8 DEF Grows
<1>11. Keeps(m, D, table_')
  <2>1. Keeps(m, C, table_) /\ g \in Int /\ ~(g >= 0)
    BY <1>4 DEF Account
  <2> HIDE DEF g, m, n, o, u, v
  <2> QED
    BY <1>3, <1>8, <2>1, KeepsGrown
<1>12. ASSUME NEW h \in 0 .. gate_index - 1
       PROVE  GateAccounted(m, D, table_', gates, operands, h)
  <2>1. h # g /\ h # IsIdle
    BY <1>2, <1>4 DEF IsIdle
  <2>2. PICK ys \in Seq(Phys) : /\ operands[h + 1] = Qids(ys)
                                /\ Len(ys) = Len(gates[h + 1].qubits)
                                /\ ActsOn(m, C, table_, h, ys, gates[h + 1].qubits)
    BY DEF Account, GateAccounted
  <2>3. ActsOn(m, D, table_', h, ys, gates[h + 1].qubits)
    BY <1>3, <1>8, <2>1, <2>2, ActsOnGrown
  <2> QED
    BY <2>2, <2>3 DEF GateAccounted
<1>13. ASSUME NEW p \in 1 .. Len(routing)
       PROVE  Exchanges(m, D, table_', -p, routing'[p][1], routing'[p][2])
  <2>1. routing[p] \in Pair
    BY <1>2, ElementOfSeq
  <2>2. routing[p][1] \in Phys /\ routing[p][2] \in Phys
    BY <2>1 DEF Pair
  <2>3. -p # g /\ -p # IsIdle
    <3>1. p \in Nat /\ p > 0 /\ p <= Len(routing) /\ Len(routing) \in Nat
      BY <1>2, LenProperties
    <3> QED
      BY <1>2, <3>1 DEF IsIdle
  <2>4. Exchanges(m, C, table_, -p, routing[p][1], routing[p][2])
    BY DEF Account
  <2>5. Exchanges(m, D, table_', -p, routing[p][1], routing[p][2])
    BY <1>3, <1>8, <2>2, <2>3, <2>4, ExchangesGrown
  <2> QED
    BY <1>7, <2>5
<1>14. Exchanges(m, D, table_', g, routing'[N][1], routing'[N][2])
  <2>1. Exchanges(m, D, table_', g, u, v)
    BY <1>3, <1>6, <1>8, <1>9, ExchangesNew
  <2> QED
    BY <1>7, <2>1
<1>15. \A p \in 1 .. N : p \in 1 .. Len(routing) \/ p = N
  BY <1>2
<1>16. \A p \in 1 .. Len(routing') : Exchanges(m, D, table_', -p, routing'[p][1], routing'[p][2])
  <2> HIDE DEF g, N
  <2> QED
    BY <1>3, <1>13, <1>14, <1>15 DEF g
<1> QED
  BY <1>10, <1>11, <1>12, <1>16 DEF Account

-----------------------------------------------------------------------------
(* The shape of the table: a row is padded only in front of a gate, and    *)
(* entries further on start later.                                         *)

RowPadded(row) ==
  /\ row # <<>> => row[Len(row)].gate # IsIdle
  /\ \A i \in 2 .. Len(row) : row[i - 1].gate = IsIdle => row[i].gate # IsIdle

RowAscends(row) == \A j \in 1 .. Len(row) : \A i \in 1 .. j - 1 : row[i].end <= StartIn(row, j)

Shaped(T) == \A x \in Phys : RowPadded(T[x]) /\ RowAscends(T[x])

(* What entering a gate does to one row.                                   *)
LEMMA RowFacts ==
  ASSUME NEW row \in Seq(Entry), NEW new \in Seq(Entry), NEW t \in Nat, NEW g, NEW d \in Nat,
         RowExtends(row, new, t, g, d)
  PROVE  /\ Len(row) \in Nat /\ Len(new) \in Nat /\ Len(new) \in 1 .. Len(new)
         /\ Len(new) = Len(row) + 1 \/ Len(new) = Len(row) + 2
         /\ Len(new) = Len(row) + 2 => new[Len(row) + 1].gate = IsIdle
         /\ new[Len(new)].gate = g /\ new[Len(new)].end = t + d
         /\ EndIn(row) <= t /\ EndIn(new) = t + d /\ StartIn(new, Len(new)) = t
         /\ \A i \in 1 .. Len(row) : new[i] = row[i] /\ StartIn(new, i) = StartIn(row, i)
<1> DEFINE n == Len(row)
           o == Len(new)
<1>1. n \in Nat /\ o \in Nat
  BY LenProperties
<1>2. /\ \A i \in 1 .. n : new[i] = row[i]
      /\ new[o].gate = g /\ new[o].end = t + d
      /\ \/ o = n + 1 /\ EndIn(row) = t
         \/ o = n + 2 /\ new[n + 1] = [gate |-> IsIdle, end |-> t] /\ EndIn(row) < t
  <2>1. new[o] = [gate |-> g, end |-> t + d]
    BY DEF RowExtends
  <2>2. new[o].gate = g /\ new[o].end = t + d
    BY <2>1
  <2> QED
    BY <2>2 DEF RowExtends
<1>3. o = n + 2 => new[n + 1].gate = IsIdle /\ new[n + 1].end = t
  BY <1>1, <1>2
<1>4. EndIn(row) \in Nat /\ (n = 0 => EndIn(row) = 0) /\ (n # 0 => EndIn(row) = row[n].end)
  BY LastEntry, EmptySeq, LenProperties DEF EndIn
<1>5. new # <<>>
  BY <1>1, <1>2
<1>6. EndIn(new) = t + d
  BY <1>2, <1>5 DEF EndIn
<1> HIDE DEF n, o
<1>7. EndIn(row) <= t /\ o \in 1 .. o
  BY <1>1, <1>2, <1>4
<1>8. StartIn(new, o) = t
  <2>1. CASE o = n + 1 /\ n = 0
    BY <1>1, <1>2, <1>4, <2>1 DEF StartIn
  <2>2. CASE o = n + 1 /\ n # 0
    <3>1. o # 1 /\ o - 1 = n /\ n \in 1 .. n /\ o # n + 2
      BY <1>1, <2>2
    <3>2. new[n] = row[n]
      BY <1>2, <3>1
    <3> QED
      BY <1>2, <1>4, <2>2, <3>1, <3>2 DEF StartIn
  <2>3. CASE o = n + 2
    <3>1. o # 1 /\ o - 1 = n + 1
      BY <1>1, <2>3
    <3> QED
      BY <1>3, <2>3, <3>1 DEF StartIn
  <2> QED
    BY <1>2, <2>1, <2>2, <2>3
<1>9. ASSUME NEW i \in 1 .. n
      PROVE  StartIn(new, i) = StartIn(row, i)
  <2>1. CASE i = 1
    BY <2>1 DEF StartIn
  <2>2. CASE i # 1
    <3>1. i - 1 \in 1 .. n
      BY <1>1, <2>2
    <3> QED
      BY <1>2, <2>2, <3>1 DEF StartIn
  <2> QED
    BY <2>1, <2>2
<1> QED
  BY <1>1, <1>2, <1>3, <1>6, <1>7, <1>8, <1>9 DEF n, o

LEMMA RowKeepsShape ==
  ASSUME NEW row \in Seq(Entry), NEW new \in Seq(Entry), NEW t \in Nat, NEW g, NEW d \in Nat \ {0},
         RowExtends(row, new, t, g, d), g # IsIdle, RowPadded(row), RowAscends(row),
         \A i \in 1 .. Len(row) : StartIn(row, i) < row[i].end
  PROVE  RowPadded(new) /\ RowAscends(new)
<1> DEFINE n == Len(row)
           o == Len(new)
<1>0. d \in Nat
  OBVIOUS
<1>1. /\ n \in Nat /\ o \in Nat /\ o \in 1 .. o
      /\ o = n + 1 \/ o = n + 2
      /\ o = n + 2 => new[n + 1].gate = IsIdle
      /\ new[o].gate = g
      /\ EndIn(row) <= t /\ StartIn(new, o) = t
      /\ \A i \in 1 .. n : new[i] = row[i] /\ StartIn(new, i) = StartIn(row, i)
  BY <1>0, RowFacts
<1>2. /\ EndIn(row) \in Nat
      /\ n # 0 => n \in 1 .. n /\ EndIn(row) = row[n].end /\ row[n].gate # IsIdle
  BY <1>1, LastEntry, EmptySeq DEF RowPadded
<1>3. \A i \in 1 .. n : row[i].end \in Nat /\ StartIn(row, i) \in Nat
  BY <1>1, EndIsNat, StartIsNat
<1>4. \A i \in 2 .. n : i - 1 \in 1 .. n /\ i \in 1 .. n
  BY <1>1
<1>5. \A i \in 2 .. n : row[i - 1].gate = IsIdle => row[i].gate # IsIdle
  BY DEF RowPadded
<1>6. \A j \in 1 .. n : \A i \in 1 .. j - 1 : row[i].end <= StartIn(row, j)
  BY DEF RowAscends
<1>7. o = n + 2 => new[n + 1].end = t
  <2>1. o = n + 2 => StartIn(new, o) = new[o - 1].end
    BY <1>1 DEF StartIn
  <2>2. o = n + 2 => o - 1 = n + 1
    BY <1>1
  <2> QED
    BY <1>1, <2>1, <2>2
<1> HIDE DEF n, o
<1>8. \A i \in 1 .. n : row[i].end <= EndIn(row)
  <2> TAKE i \in 1 .. n
  <2>1. n # 0 /\ n \in 1 .. n
    BY <1>1
  <2>2. CASE i = n
    BY <1>2, <1>3, <2>1, <2>2
  <2>3. CASE i # n
    <3>1. i \in 1 .. n - 1
      BY <1>1, <2>3
    <3>2. row[i].end <= StartIn(row, n)
      BY <1>6, <2>1, <3>1
    <3>3. StartIn(row, n) < row[n].end
      BY <2>1 DEF n
    <3> QED
      BY <1>2, <1>3, <2>1, <3>2, <3>3
  <2> QED
    BY <2>2, <2>3
<1>9. RowPadded(new)
  <2>1. new[o].gate # IsIdle
    BY <1>1
  <2>2. ASSUME NEW i \in 2 .. o, new[i - 1].gate = IsIdle
        PROVE  new[i].gate # IsIdle
    <3>1. i \in 2 .. n \/ i = o \/ (i = n + 1 /\ n # 0 /\ o = n + 2)
      BY <1>1
    <3>2. CASE i \in 2 .. n
      <4>1. new[i - 1] = row[i - 1] /\ new[i] = row[i]
        BY <1>1, <1>4, <3>2
      <4> QED
        BY <1>5, <2>2, <3>2, <4>1
    <3>3. CASE i = n + 1 /\ n # 0
      <4>1. i - 1 = n /\ n \in 1 .. n
        BY <1>1, <3>3
      <4>2. new[i - 1] = row[n]
        BY <1>1, <4>1
      <4> QED
        BY <1>2, <2>2, <3>3, <4>2
    <3> QED
      BY <2>1, <3>1, <3>2, <3>3
  <2> QED
    BY <2>1, <2>2 DEF RowPadded, o
<1>10. RowAscends(new)
  <2> SUFFICES ASSUME NEW j \in 1 .. o, NEW i \in 1 .. j - 1
               PROVE  new[i].end <= StartIn(new, j)
    BY DEF RowAscends, o
  <2>1. j \in 1 .. n \/ j = o \/ (j = n + 1 /\ o = n + 2)
    BY <1>1
  <2>2. CASE j \in 1 .. n
    <3>1. i \in 1 .. n
      BY <1>1, <2>2
    <3> QED
      BY <1>1, <1>6, <2>2, <3>1
  <2>3. \A k \in 1 .. n : new[k].end <= EndIn(row) /\ new[k].end \in Nat
    BY <1>1, <1>3, <1>8
  <2>4. CASE j = o
    <3>1. i \in 1 .. n \/ (i = n + 1 /\ o = n + 2)
      BY <1>1, <2>4
    <3>2. CASE i \in 1 .. n
      BY <1>1, <1>2, <2>3, <2>4, <3>2
    <3>3. CASE i = n + 1 /\ o = n + 2
      BY <1>1, <1>7, <2>4, <3>3
    <3> QED
      BY <3>1, <3>2, <3>3
  <2>5. CASE j = n + 1 /\ o = n + 2
    <3>1. i \in 1 .. n /\ n # 0 /\ j # 1 /\ j - 1 = n /\ n \in 1 .. n
      BY <1>1, <2>5
    <3>2. StartIn(new, j) = new[n].end
      BY <3>1 DEF StartIn
    <3>3. new[n].end = EndIn(row)
      BY <1>1, <1>2, <3>1
    <3> QED
      BY <2>3, <3>1, <3>2, <3>3
  <2> QED
    BY <2>1, <2>2, <2>4, <2>5
<1> QED
  BY <1>9, <1>10

(* Every entry starts before it ends, by the theorem on the table.         *)
LEMMA RowsTakeTime ==
  ASSUME NEW T, AreASchedule(T), NEW x \in Phys
  PROVE  \A i \in 1 .. Len(T[x]) : StartIn(T[x], i) < T[x][i].end
BY DEF AreASchedule, EntriesAgree

LEMMA ShapeGrown ==
  ASSUME NEW T \in [Phys -> Seq(Entry)], NEW U \in [Phys -> Seq(Entry)],
         NEW u, NEW v, NEW t \in Nat, NEW g, NEW d \in Nat \ {0},
         RowsExtend(T, U, u, v, t, g, d), g # IsIdle, AreASchedule(T), Shaped(T)
  PROVE  Shaped(U)
<1> SUFFICES ASSUME NEW x \in Phys
             PROVE  RowPadded(U[x]) /\ RowAscends(U[x])
  BY DEF Shaped
<1>1. RowPadded(T[x]) /\ RowAscends(T[x]) /\ T[x] \in Seq(Entry) /\ U[x] \in Seq(Entry)
  BY DEF Shaped
<1>2. CASE x \notin {u, v}
  BY <1>1, <1>2 DEF RowsExtend
<1>3. CASE x \in {u, v}
  <2>1. RowExtends(T[x], U[x], t, g, d)
    BY <1>3 DEF RowsExtend
  <2> QED
    BY <1>1, <2>1, RowsTakeTime, RowKeepsShape
<1> QED
  BY <1>2, <1>3

-----------------------------------------------------------------------------
(* Gates that share a program qubit are in the table in their order.       *)

Sharing(gs, h, g) ==
  \E a \in 1 .. Len(gs[h + 1].qubits) : \E b \in 1 .. Len(gs[g + 1].qubits) :
    gs[h + 1].qubits[a] = gs[g + 1].qubits[b]

EndsBy(T, h, t) ==
  \A x \in Phys : \A i \in 1 .. Len(T[x]) : T[x][i].gate = h => T[x][i].end <= t

(* Where the qubits of a gate are now, its time is over.                   *)
Behind(T, n, gs, h) ==
  \A a \in 1 .. Len(gs[h + 1].qubits) : EndsBy(T, h, EndIn(T[n.prog[gs[h + 1].qubits[a]]]))

Precedes(T, h, g) ==
  \A x, y \in Phys : \A i \in 1 .. Len(T[x]) : \A j \in 1 .. Len(T[y]) :
    T[x][i].gate = h /\ T[y][j].gate = g => T[x][i].end <= StartIn(T[y], j)

Ordered(T, gs, k) ==
  \A g \in 0 .. k - 1 : \A h \in 0 .. g - 1 : Sharing(gs, h, g) => Precedes(T, h, g)

(* The table after one more gate, entry by entry.                          *)
EntersAs(T, U, u, v, t, g, d, x, i) ==
  \/ i \in 1 .. Len(T[x]) /\ U[x][i] = T[x][i] /\ StartIn(U[x], i) = StartIn(T[x], i)
  \/ U[x][i].gate = g /\ U[x][i].end = t + d /\ StartIn(U[x], i) = t /\ x \in {u, v}
  \/ U[x][i].gate = IsIdle

EndsLater(T, U, u, v, t, d, x) ==
  /\ EndIn(T[x]) \in Nat /\ EndIn(U[x]) \in Nat /\ EndIn(T[x]) <= EndIn(U[x])
  /\ x \in {u, v} => EndIn(T[x]) <= t /\ EndIn(U[x]) = t + d

Enters(T, U, u, v, t, g, d) ==
  /\ \A x \in Phys : \A i \in 1 .. Len(U[x]) : EntersAs(T, U, u, v, t, g, d, x, i)
  /\ \A x \in Phys : EndsLater(T, U, u, v, t, d, x)

LEMMA GrownEntry ==
  ASSUME NEW T \in [Phys -> Seq(Entry)], NEW U \in [Phys -> Seq(Entry)],
         NEW u, NEW v, NEW t \in Nat, NEW g, NEW d \in Nat,
         RowsExtend(T, U, u, v, t, g, d),
         NEW x \in Phys, NEW i \in 1 .. Len(U[x])
  PROVE  EntersAs(T, U, u, v, t, g, d, x, i)
<1>1. CASE x \notin {u, v}
  BY <1>1 DEF RowsExtend, EntersAs
<1>2. CASE x \in {u, v}
  <2> DEFINE n == Len(T[x])
             o == Len(U[x])
  <2>1. RowExtends(T[x], U[x], t, g, d) /\ T[x] \in Seq(Entry) /\ U[x] \in Seq(Entry)
    BY <1>2 DEF RowsExtend
  <2>2. /\ n \in Nat /\ o \in Nat
        /\ o = n + 1 \/ o = n + 2
        /\ o = n + 2 => U[x][n + 1].gate = IsIdle
        /\ U[x][o].gate = g /\ U[x][o].end = t + d /\ StartIn(U[x], o) = t
        /\ \A k \in 1 .. n : U[x][k] = T[x][k] /\ StartIn(U[x], k) = StartIn(T[x], k)
    BY <2>1, RowFacts
  <2>3. i \in 1 .. n \/ i = o \/ (i = n + 1 /\ o = n + 2)
    <3> HIDE DEF n
    <3> QED
      BY <2>2
  <2> QED
    BY <1>2, <2>2, <2>3 DEF EntersAs
<1> QED
  BY <1>1, <1>2

LEMMA RowsEnd ==
  ASSUME NEW T \in [Phys -> Seq(Entry)], NEW U \in [Phys -> Seq(Entry)],
         NEW u, NEW v, NEW t \in Nat, NEW g, NEW d \in Nat,
         RowsExtend(T, U, u, v, t, g, d), NEW x \in Phys
  PROVE  EndsLater(T, U, u, v, t, d, x)
<1>1. T[x] \in Seq(Entry) /\ U[x] \in Seq(Entry)
  OBVIOUS
<1>2. EndIn(T[x]) \in Nat /\ EndIn(U[x]) \in Nat
  BY <1>1, LastEntry
<1>3. CASE x \notin {u, v}
  BY <1>2, <1>3 DEF RowsExtend, EndsLater
<1>4. CASE x \in {u, v}
  <2>1. RowExtends(T[x], U[x], t, g, d)
    BY <1>4 DEF RowsExtend
  <2>2. EndIn(T[x]) <= t /\ EndIn(U[x]) = t + d
    BY <1>1, <2>1, RowFacts
  <2> QED
    BY <1>2, <2>2 DEF EndsLater
<1> QED
  BY <1>3, <1>4

LEMMA RowsEnter ==
  ASSUME NEW T \in [Phys -> Seq(Entry)], NEW U \in [Phys -> Seq(Entry)],
         NEW u, NEW v, NEW t \in Nat, NEW g, NEW d \in Nat,
         RowsExtend(T, U, u, v, t, g, d)
  PROVE  Enters(T, U, u, v, t, g, d)
<1>1. \A x \in Phys : \A i \in 1 .. Len(U[x]) : EntersAs(T, U, u, v, t, g, d, x, i)
  BY GrownEntry
<1>2. \A x \in Phys : EndsLater(T, U, u, v, t, d, x)
  BY RowsEnd
<1> QED
  BY <1>1, <1>2 DEF Enters

LEMMA EndsByGrown ==
  ASSUME NEW T \in [Phys -> Seq(Entry)], NEW U \in [Phys -> Seq(Entry)],
         NEW u, NEW v, NEW t \in Nat, NEW g, NEW d \in Nat,
         Enters(T, U, u, v, t, g, d),
         NEW h, h # g, h # IsIdle, NEW e \in Nat, NEW f \in Nat, e <= f, EndsBy(T, h, e)
  PROVE  EndsBy(U, h, f)
<1> SUFFICES ASSUME NEW x \in Phys, NEW i \in 1 .. Len(U[x]), U[x][i].gate = h
             PROVE  U[x][i].end <= f
  BY DEF EndsBy
<1>1. i \in 1 .. Len(T[x]) /\ U[x][i] = T[x][i]
  BY DEF Enters, EntersAs, EndsLater
<1>2. T[x][i].end <= e
  BY <1>1 DEF EndsBy
<1>3. T[x][i].end \in Nat
  BY <1>1, EndIsNat
<1> QED
  BY <1>1, <1>2, <1>3

LEMMA EndsByNew ==
  ASSUME NEW T \in [Phys -> Seq(Entry)], NEW U \in [Phys -> Seq(Entry)],
         NEW u, NEW v, NEW t \in Nat, NEW g, NEW d \in Nat,
         Enters(T, U, u, v, t, g, d), g # IsIdle, Absent(T, g)
  PROVE  EndsBy(U, g, t + d)
<1> SUFFICES ASSUME NEW x \in Phys, NEW i \in 1 .. Len(U[x]), U[x][i].gate = g
             PROVE  U[x][i].end <= t + d
  BY DEF EndsBy
<1>1. CASE i \in 1 .. Len(T[x]) /\ U[x][i] = T[x][i]
  BY <1>1 DEF Absent
<1>2. CASE U[x][i].end = t + d
  BY <1>2
<1> QED
  BY <1>1, <1>2 DEF Enters, EntersAs, EndsLater

LEMMA PrecedesGrown ==
  ASSUME NEW T \in [Phys -> Seq(Entry)], NEW U \in [Phys -> Seq(Entry)],
         NEW u, NEW v, NEW t \in Nat, NEW g, NEW d \in Nat,
         Enters(T, U, u, v, t, g, d),
         NEW h, h # g, h # IsIdle, NEW k, k # g, k # IsIdle, Precedes(T, h, k)
  PROVE  Precedes(U, h, k)
<1> SUFFICES ASSUME NEW x \in Phys, NEW y \in Phys,
                    NEW i \in 1 .. Len(U[x]), NEW j \in 1 .. Len(U[y]),
                    U[x][i].gate = h, U[y][j].gate = k
             PROVE  U[x][i].end <= StartIn(U[y], j)
  BY DEF Precedes
<1>1. i \in 1 .. Len(T[x]) /\ U[x][i] = T[x][i]
  BY DEF Enters, EntersAs, EndsLater
<1>2. j \in 1 .. Len(T[y]) /\ U[y][j] = T[y][j] /\ StartIn(U[y], j) = StartIn(T[y], j)
  BY DEF Enters, EntersAs, EndsLater
<1> QED
  BY <1>1, <1>2 DEF Precedes

LEMMA PrecedesNew ==
  ASSUME NEW T \in [Phys -> Seq(Entry)], NEW U \in [Phys -> Seq(Entry)],
         NEW u, NEW v, NEW t \in Nat, NEW g, NEW d \in Nat,
         Enters(T, U, u, v, t, g, d), g # IsIdle, Absent(T, g),
         NEW h, h # g, h # IsIdle, EndsBy(T, h, t)
  PROVE  Precedes(U, h, g)
<1> SUFFICES ASSUME NEW x \in Phys, NEW y \in Phys,
                    NEW i \in 1 .. Len(U[x]), NEW j \in 1 .. Len(U[y]),
                    U[x][i].gate = h, U[y][j].gate = g
             PROVE  U[x][i].end <= StartIn(U[y], j)
  BY DEF Precedes
<1>1. i \in 1 .. Len(T[x]) /\ U[x][i] = T[x][i]
  BY DEF Enters, EntersAs, EndsLater
<1>2. ~(j \in 1 .. Len(T[y]) /\ U[y][j] = T[y][j])
  BY DEF Absent
<1>3. StartIn(U[y], j) = t
  BY <1>2 DEF Enters, EntersAs, EndsLater
<1>4. T[x][i].end <= t
  BY <1>1 DEF EndsBy
<1> QED
  BY <1>1, <1>3, <1>4

-----------------------------------------------------------------------------
(* A swap moves qubits to rows that end later;                             *)
LEMMA BehindSwap ==
  ASSUME NEW T \in [Phys -> Seq(Entry)], NEW U \in [Phys -> Seq(Entry)],
         NEW u \in Phys, NEW v \in Phys, NEW t \in Nat, NEW g, NEW d \in Nat,
         Enters(T, U, u, v, t, g, d),
         NEW h, h # g, h # IsIdle, NEW gs, NEW n \in QubitMap(Phys), isConsistent(n),
         \A a \in 1 .. Len(gs[h + 1].qubits) :
            gs[h + 1].qubits[a] \in Qubits /\ n.prog[gs[h + 1].qubits[a]] \in Phys,
         Behind(T, n, gs, h)
  PROVE  Behind(U, Swap(n, u, v), gs, h)
<1> SUFFICES ASSUME NEW a \in 1 .. Len(gs[h + 1].qubits)
             PROVE  EndsBy(U, h, EndIn(U[Swap(n, u, v).prog[gs[h + 1].qubits[a]]]))
  BY DEF Behind
<1> DEFINE q == gs[h + 1].qubits[a]
           p == n.prog[q]
           r == Swap(n, u, v).prog[q]
<1>1. q \in Qubits /\ p \in Phys
  OBVIOUS
<1>2. EndsBy(T, h, EndIn(T[p]))
  BY DEF Behind
<1>3. r = IF q = n.phys[u] THEN v ELSE IF q = n.phys[v] THEN u ELSE p
  <2>1. \A z \in Qubits : Swap(n, u, v).prog[z] =
           IF z = n.phys[u] THEN v ELSE IF z = n.phys[v] THEN u ELSE n.prog[z]
    BY SwapEntries
  <2> QED
    BY <1>1, <2>1
<1>4. n.phys[p] = q
  BY <1>1, PhysIsPlaced DEF isConsistent
<1> HIDE DEF q, p, r
<1>5. (r = p /\ p \notin {u, v}) \/ (r \in {u, v} /\ p \in {u, v})
  <2>1. n.phys[u] # Free => n.prog[n.phys[u]] = u
    BY DEF isConsistent, QubitMap
  <2>2. n.phys[v] # Free => n.prog[n.phys[v]] = v
    BY DEF isConsistent, QubitMap
  <2>3. q # Free
    BY <1>1, ConventionalValues
  <2> QED
    BY <1>3, <1>4, <2>1, <2>2, <2>3 DEF p
<1>6. r \in Phys /\ EndIn(T[p]) \in Nat /\ EndIn(U[r]) \in Nat /\ EndIn(T[p]) <= EndIn(U[r])
  <2>1. CASE r = p
    BY <1>1, <2>1 DEF Enters, EntersAs, EndsLater
  <2>2. CASE r \in {u, v} /\ p \in {u, v}
    <3>1. EndIn(T[p]) <= t /\ EndIn(U[r]) = t + d /\ EndIn(T[p]) \in Nat
      BY <1>1, <2>2 DEF Enters, EntersAs, EndsLater
    <3> QED
      BY <2>2, <3>1
  <2> QED
    BY <1>5, <2>1, <2>2
<1>7. EndsBy(U, h, EndIn(U[r]))
  BY <1>2, <1>6, EndsByGrown
<1> QED
  BY <1>7 DEF r, q

(* a gate leaves them where they are,                                      *)
LEMMA BehindGate ==
  ASSUME NEW T \in [Phys -> Seq(Entry)], NEW U \in [Phys -> Seq(Entry)],
         NEW u \in Phys, NEW v \in Phys, NEW t \in Nat, NEW g, NEW d \in Nat,
         Enters(T, U, u, v, t, g, d),
         NEW h, h # g, h # IsIdle, NEW gs, NEW n,
         \A a \in 1 .. Len(gs[h + 1].qubits) : n.prog[gs[h + 1].qubits[a]] \in Phys,
         Behind(T, n, gs, h)
  PROVE  Behind(U, n, gs, h)
<1> SUFFICES ASSUME NEW a \in 1 .. Len(gs[h + 1].qubits)
             PROVE  EndsBy(U, h, EndIn(U[n.prog[gs[h + 1].qubits[a]]]))
  BY DEF Behind
<1> DEFINE p == n.prog[gs[h + 1].qubits[a]]
<1>1. p \in Phys /\ EndsBy(T, h, EndIn(T[p]))
  BY DEF Behind
<1> HIDE DEF p
<1>2. EndIn(T[p]) \in Nat /\ EndIn(U[p]) \in Nat /\ EndIn(T[p]) <= EndIn(U[p])
  BY <1>1 DEF Enters, EntersAs, EndsLater
<1>3. EndsBy(U, h, EndIn(U[p]))
  BY <1>1, <1>2, EndsByGrown
<1> QED
  BY <1>3 DEF p

(* and itself is the last in the rows of its own.                          *)
LEMMA BehindNew ==
  ASSUME NEW T \in [Phys -> Seq(Entry)], NEW U \in [Phys -> Seq(Entry)],
         NEW u \in Phys, NEW v \in Phys, NEW t \in Nat, NEW g, NEW d \in Nat,
         Enters(T, U, u, v, t, g, d), g # IsIdle, Absent(T, g), NEW gs, NEW n,
         \A a \in 1 .. Len(gs[g + 1].qubits) : n.prog[gs[g + 1].qubits[a]] \in {u, v}
  PROVE  Behind(U, n, gs, g)
<1> SUFFICES ASSUME NEW a \in 1 .. Len(gs[g + 1].qubits)
             PROVE  EndsBy(U, g, EndIn(U[n.prog[gs[g + 1].qubits[a]]]))
  BY DEF Behind
<1> DEFINE p == n.prog[gs[g + 1].qubits[a]]
<1>1. p \in {u, v}
  OBVIOUS
<1> HIDE DEF p
<1>2. EndIn(U[p]) = t + d
  BY <1>1 DEF Enters, EntersAs, EndsLater
<1>3. EndsBy(U, g, EndIn(U[p]))
  BY <1>2, EndsByNew
<1> QED
  BY <1>3 DEF p

(* A gate starts behind those that its qubits have been through.           *)
LEMMA OrderedNew ==
  ASSUME NEW T \in [Phys -> Seq(Entry)], NEW U \in [Phys -> Seq(Entry)],
         NEW u \in Phys, NEW v \in Phys, NEW t \in Nat, NEW g \in Nat, NEW d \in Nat,
         Enters(T, U, u, v, t, g, d), g # IsIdle, Absent(T, g), NEW gs, NEW n,
         \A a \in 1 .. Len(gs[g + 1].qubits) : n.prog[gs[g + 1].qubits[a]] \in {u, v},
         NEW h \in 0 .. g - 1, h # IsIdle, Behind(T, n, gs, h), Sharing(gs, h, g)
  PROVE  Precedes(U, h, g)
<1>1. PICK a \in 1 .. Len(gs[h + 1].qubits) : \E b \in 1 .. Len(gs[g + 1].qubits) :
         gs[h + 1].qubits[a] = gs[g + 1].qubits[b]
  BY DEF Sharing
<1> DEFINE p == n.prog[gs[h + 1].qubits[a]]
<1>2. p \in {u, v}
  BY <1>1
<1>3. EndsBy(T, h, EndIn(T[p]))
  BY DEF Behind
<1> HIDE DEF p
<1>4. EndIn(T[p]) <= t /\ EndIn(T[p]) \in Nat
  BY <1>2 DEF Enters, EntersAs, EndsLater
<1>5. EndsBy(T, h, t)
  <2> SUFFICES ASSUME NEW x \in Phys, NEW i \in 1 .. Len(T[x]), T[x][i].gate = h
               PROVE  T[x][i].end <= t
    BY DEF EndsBy
  <2>1. T[x][i].end <= EndIn(T[p])
    BY <1>3 DEF EndsBy
  <2>2. T[x][i].end \in Nat
    BY EndIsNat
  <2> QED
    BY <1>4, <2>1, <2>2
<1>6. h # g
  OBVIOUS
<1> QED
  BY <1>5, <1>6, PrecedesNew

-----------------------------------------------------------------------------
(* The table stays in order while it is filled.                            *)

TableInOrder ==
  pc # "idle" =>
    /\ Shaped(table_)
    /\ Ordered(table_, gates, gate_index)
    /\ pc \in {"populate", "route"} =>
         \A h \in 0 .. gate_index - 1 : Behind(table_, qubit_map_, gates, h)

NewRows(T, U, u, v, t, g, d) ==
  /\ RowsExtend(T, U, u, v, t, g, d)
  /\ g # IsIdle /\ Absent(T, g)

LEMMA GateGrows ==
  ASSUME IInv, NEW xs \in Seq(Phys), GatePlaced(xs), Len(gates) <= IsIdle
  PROVE  /\ gate_index \in Nat /\ gate_index < IsIdle
         /\ gate_index' = gate_index + 1
         /\ \E u, v \in Phys : \E t \in Nat : \E d \in Nat \ {0} :
              /\ Sites(xs) = {u, v}
              /\ NewRows(table_, table_', u, v, t, gate_index, d)
<1>1. /\ GateEntered(xs) /\ gate_index < Len(gates) /\ pc \notin {"idle", "convert"}
      /\ gate_index' = gate_index + 1
  BY DEF GatePlaced, GateEntered, placeGate
<1>2. gate_index \in Nat /\ gate_index < IsIdle /\ gate_index # IsIdle /\ gate_index \in Int
  <2>1. gate_index \in 0 .. Len(gates)
    BY DEF IInv, TypeOK
  <2>2. Len(gates) \in Nat
    BY <1>1, CurrentGateFacts, LenProperties, BlockShape DEF IInv
  <2> QED
    BY <1>1, <2>1, <2>2 DEF IsIdle
<1>3. PICK u, v \in Phys :
           /\ {xs[i] : i \in 1 .. Len(xs)} = {u, v}
           /\ Entered(u, v, gate_index, GateDuration(CurrentGate))
           /\ GateDuration(CurrentGate) \in Nat \ {0}
  BY <1>1, GateIsEntered
<1>4. GateDuration(CurrentGate) \in Nat
  BY <1>3
<1>5. PICK t \in Nat : RowsExtend(table_, table_', u, v, t, gate_index, GateDuration(CurrentGate))
  BY <1>2, <1>3, <1>4, AddedRows DEF Entered
<1>6. Absent(table_, gate_index)
  <2>1. gate_index \notin Positions
    BY <1>3 DEF Entered
  <2> QED
    BY <1>1, <1>2, <2>1, EntryIsAbsent
<1>7. NewRows(table_, table_', u, v, t, gate_index, GateDuration(CurrentGate))
  BY <1>2, <1>5, <1>6 DEF NewRows
<1>8. Sites(xs) = {u, v}
  BY <1>3 DEF Sites
<1> QED
  BY <1>1, <1>2, <1>3, <1>7, <1>8

LEMMA SwapGrows ==
  ASSUME IInv, NEW s \in Pair, SwapMade(s)
  PROVE  /\ s[1] \in Phys /\ s[2] \in Phys /\ gate_index' = gate_index
         /\ qubit_map_' = Swap(qubit_map_, s[1], s[2])
         /\ -Len(routing') \in Int /\ -Len(routing') < 0
         /\ \E t \in Nat : NewRows(table_, table_', s[1], s[2], t, -Len(routing'), SwapDuration)
<1>1. /\ SwapEntered(s) /\ pc \notin {"idle", "convert"} /\ addRoutingSwap(s)
      /\ gate_index' = gate_index
  BY DEF SwapMade, SwapEntered
<1>2. /\ s[1] \in Phys /\ s[2] \in Phys
      /\ Entered(s[1], s[2], -Len(routing'), SwapDuration)
      /\ SwapDuration \in Nat \ {0} /\ Len(routing') = Len(routing) + 1
  BY <1>1, SwapIsEntered
<1>3. qubit_map_' = Swap(qubit_map_, s[1], s[2])
  BY <1>1 DEF addRoutingSwap, Swap
<1>4. -Len(routing') \in Int /\ -Len(routing') < 0 /\ -Len(routing') # IsIdle
  <2>1. routing \in Seq(Pair)
    BY DEF IInv, TypeOK, Pair
  <2>2. Len(routing) \in Nat
    BY <2>1, LenProperties
  <2> QED
    BY <1>2, <2>2 DEF IsIdle
<1>5. SwapDuration \in Nat
  BY <1>2
<1> DEFINE g == -Len(routing')
<1> HIDE DEF g
<1>6. g \in Int /\ g # IsIdle /\ Entered(s[1], s[2], g, SwapDuration)
  BY <1>2, <1>4 DEF g
<1>7. PICK t \in Nat : RowsExtend(table_, table_', s[1], s[2], t, g, SwapDuration)
  BY <1>2, <1>5, <1>6, AddedRows DEF Entered
<1>8. Absent(table_, g)
  <2>1. g \notin Positions
    BY <1>6 DEF Entered
  <2> QED
    BY <1>1, <1>6, <2>1, EntryIsAbsent
<1>9. NewRows(table_, table_', s[1], s[2], t, g, SwapDuration)
  BY <1>6, <1>7, <1>8 DEF NewRows
<1> QED
  BY <1>1, <1>2, <1>3, <1>4, <1>9 DEF g

LEMMA LengthIsNat ==
  ASSUME TypeOK
  PROVE  Len(gates) \in Nat
<1>1. CASE gates \in Programs
  BY <1>1, BlockShape, LenProperties
<1>2. CASE gates = <<>>
  BY <1>2
<1> QED
  BY <1>1, <1>2 DEF TypeOK

LEMMA InvFacts ==
  ASSUME IInv
  PROVE  /\ initial_qubit_map_ \in QubitMap(Phys) /\ isConsistent(initial_qubit_map_)
         /\ qubit_map_ \in QubitMap(Phys) /\ isConsistent(qubit_map_)
         /\ final_qubit_map \in QubitMap(Phys) /\ isConsistent(final_qubit_map)
         /\ where \in QubitMap(Phys) /\ isConsistent(where)
         /\ table_ \in [Phys -> Seq(Entry)] /\ routing \in Seq(Pair)
         /\ gate_index \in Nat /\ sequence \in Seq(Int)
<1>1. TypeOK /\ PlacementsConsistent
  BY DEF IInv
<1>2. gate_index \in 0 .. Len(gates)
  BY <1>1 DEF TypeOK
<1>3. table_ \in [Phys -> Seq(Entry)] /\ routing \in Seq(Pair)
  BY <1>1 DEF TypeOK, Entry, Pair
<1> QED
  BY <1>1, <1>2, <1>3 DEF TypeOK, PlacementsConsistent

LEMMA GateKeepsOrder ==
  ASSUME IInv, IInv', NEW xs \in Seq(Phys), GatePlaced(xs), Len(gates) <= IsIdle,
         TableIsASchedule, TableInOrder
  PROVE  TableInOrder'
<1> DEFINE g == gate_index
           n == qubit_map_
           T == table_
           U == table_'
<1>1. /\ pc \in {"populate", "route"} /\ g < Len(gates) /\ pc # "idle"
      /\ Len(xs) = Len(CurrentGate.qubits)
      /\ \A k \in 1 .. Len(xs) : xs[k] = n.prog[CurrentGate.qubits[k]]
      /\ UNCHANGED <<gates, qubit_map_>>
  BY DEF GatePlaced, GateEntered
<1>2. g \in Nat /\ g < IsIdle /\ gate_index' = g + 1
  BY GateGrows
<1>3. PICK u \in Phys, v \in Phys, t \in Nat, d \in Nat \ {0} :
         Sites(xs) = {u, v} /\ NewRows(T, U, u, v, t, g, d)
  BY GateGrows
<1>4. T \in [Phys -> Seq(Entry)] /\ U \in [Phys -> Seq(Entry)] /\ d \in Nat
  BY InvFacts DEF IInv, TypeOK, Entry
<1>5. /\ RowsExtend(T, U, u, v, t, g, d) /\ g # IsIdle /\ Absent(T, g)
      /\ Shaped(T) /\ AreASchedule(T)
  BY <1>1, <1>3, ScheduleByRows DEF NewRows, TableInOrder
<1>6. Shaped(U)
  BY <1>4, <1>5, ShapeGrown
<1>7. Enters(T, U, u, v, t, g, d)
  BY <1>4, <1>5, RowsEnter
<1>8. QubitsPlaced
  BY <1>1 DEF IInv, Bookkeeping
<1>9. \A h \in 0 .. g : h + 1 \in 1 .. Len(gates)
  <2>1. Len(gates) \in Nat
    BY <1>1, CurrentGateFacts, LenProperties, BlockShape DEF IInv
  <2> QED
    BY <1>1, <1>2, <2>1
<1>10. \A h \in 0 .. g : \A a \in 1 .. Len(gates[h + 1].qubits) :
          n.prog[gates[h + 1].qubits[a]] \in Phys
  BY <1>8, <1>9 DEF QubitsPlaced
<1>11. \A a \in 1 .. Len(gates[g + 1].qubits) : n.prog[gates[g + 1].qubits[a]] \in {u, v}
  <2> TAKE a \in 1 .. Len(gates[g + 1].qubits)
  <2>1. a \in 1 .. Len(xs) /\ xs[a] = n.prog[gates[g + 1].qubits[a]]
    BY <1>1 DEF CurrentGate
  <2>2. xs[a] \in Sites(xs)
    BY <2>1 DEF Sites
  <2> QED
    BY <1>3, <2>1, <2>2
<1>12. \A h \in 0 .. g - 1 : h \in 0 .. g /\ h # g /\ h # IsIdle /\ Behind(T, n, gates, h)
  BY <1>1, <1>2 DEF TableInOrder, IsIdle
<1> HIDE DEF g, n, T, U
<1>13. \A h \in 0 .. (g + 1) - 1 : Behind(U, n, gates, h)
  <2>1. ASSUME NEW h \in 0 .. g - 1
        PROVE  Behind(U, n, gates, h)
    BY <1>4, <1>7, <1>10, <1>12, BehindGate
  <2>2. Behind(U, n, gates, g)
    BY <1>4, <1>5, <1>7, <1>11, BehindNew
  <2>3. \A h \in 0 .. (g + 1) - 1 : h \in 0 .. g - 1 \/ h = g
    BY <1>2
  <2> QED
    BY <2>1, <2>2, <2>3
<1>14. Ordered(U, gates, g + 1)
  <2> SUFFICES ASSUME NEW k \in 0 .. (g + 1) - 1, NEW h \in 0 .. k - 1, Sharing(gates, h, k)
               PROVE  Precedes(U, h, k)
    BY DEF Ordered
  <2>1. h \in 0 .. g - 1 /\ (k \in 0 .. g - 1 \/ k = g)
    BY <1>2
  <2>2. CASE k \in 0 .. g - 1
    <3>1. Precedes(T, h, k)
      BY <1>1, <2>2 DEF TableInOrder, Ordered, T, g
    <3> QED
      BY <1>4, <1>7, <1>12, <2>1, <2>2, <3>1, PrecedesGrown
  <2>3. CASE k = g
    BY <1>2, <1>4, <1>5, <1>7, <1>11, <1>12, <2>1, <2>3, OrderedNew
  <2> QED
    BY <2>1, <2>2, <2>3
<1> QED
  BY <1>1, <1>2, <1>6, <1>13, <1>14 DEF TableInOrder, g, n, T, U

LEMMA SwapKeepsOrder ==
  ASSUME IInv, IInv', NEW s \in Pair, SwapMade(s), gate_index <= IsIdle,
         TableIsASchedule, TableInOrder
  PROVE  TableInOrder'
<1> DEFINE g == -Len(routing')
           k == gate_index
           n == qubit_map_
           T == table_
           U == table_'
           u == s[1]
           v == s[2]
           d == SwapDuration
<1>1. /\ pc' = pc /\ pc # "idle" /\ UNCHANGED gates
  BY DEF SwapMade, SwapEntered
<1>2. u \in Phys /\ v \in Phys /\ g < 0 /\ g \in Int /\ gate_index' = k
      /\ qubit_map_' = Swap(n, u, v)
  BY SwapGrows
<1>3. PICK t \in Nat : NewRows(T, U, u, v, t, g, d)
  BY SwapGrows
<1>4. T \in [Phys -> Seq(Entry)] /\ U \in [Phys -> Seq(Entry)]
  BY InvFacts DEF IInv, TypeOK, Entry
<1>5. /\ RowsExtend(T, U, u, v, t, g, d) /\ g # IsIdle /\ Absent(T, g)
      /\ Shaped(T) /\ AreASchedule(T) /\ Ordered(T, gates, k)
  BY <1>1, <1>3, ScheduleByRows DEF NewRows, TableInOrder
<1>6. d \in Nat \ {0} /\ d \in Nat
  BY PlatformShape
<1>7. n \in QubitMap(Phys) /\ isConsistent(n) /\ k \in Nat
  BY InvFacts
<1>8. pc \in {"populate", "route"} => \A h \in 0 .. k - 1 :
         /\ Behind(T, n, gates, h)
         /\ \A a \in 1 .. Len(gates[h + 1].qubits) :
              gates[h + 1].qubits[a] \in Qubits /\ n.prog[gates[h + 1].qubits[a]] \in Phys
  <2>1. \A h \in 0 .. k - 1 : h + 1 \in 1 .. Len(gates)
    <3>1. gate_index \in 0 .. Len(gates)
      BY DEF IInv, TypeOK
    <3> QED
      BY <3>1
  <2>2. pc \in {"populate", "route"} => QubitsPlaced
    BY DEF IInv, Bookkeeping
  <2>3. \A i \in 1 .. Len(gates) : \A a \in 1 .. Len(gates[i].qubits) : gates[i].qubits[a] \in Qubits
    BY GateQubits DEF IInv
  <2>4. pc \in {"populate", "route"} => \A h \in 0 .. k - 1 : Behind(T, n, gates, h)
    BY DEF TableInOrder
  <2> QED
    BY <2>1, <2>2, <2>3, <2>4 DEF QubitsPlaced
<1>9. \A h \in 0 .. k - 1 : h # g /\ h # IsIdle
  BY <1>2, <1>7 DEF IsIdle
<1> HIDE DEF g, n, T, U, u, v, d, k
<1>10. Shaped(U)
  BY <1>4, <1>5, <1>6, ShapeGrown
<1>11. Enters(T, U, u, v, t, g, d)
  BY <1>4, <1>5, <1>6, RowsEnter
<1>12. Ordered(U, gates, k)
  <2> SUFFICES ASSUME NEW j \in 0 .. k - 1, NEW h \in 0 .. j - 1, Sharing(gates, h, j)
               PROVE  Precedes(U, h, j)
    BY DEF Ordered
  <2>1. h \in 0 .. k - 1
    BY <1>7
  <2>2. Precedes(T, h, j)
    BY <1>5 DEF Ordered
  <2> QED
    BY <1>4, <1>6, <1>9, <1>11, <2>1, <2>2, PrecedesGrown
<1>13. pc \in {"populate", "route"} => \A h \in 0 .. k - 1 : Behind(U, Swap(n, u, v), gates, h)
  BY <1>2, <1>4, <1>6, <1>7, <1>8, <1>9, <1>11, BehindSwap
<1> QED
  BY <1>1, <1>2, <1>10, <1>12, <1>13 DEF TableInOrder, k, n, U

-----------------------------------------------------------------------------
(* What the second half of the pass leaves alone.                          *)

OutputWorked ==
  /\ pc \in {"sweep", "reorder", "convert"}
  /\ UNCHANGED <<gates, initial_qubit_map_, qubit_map_, final_qubit_map, table_>>
  /\ \/ pc' = "idle" /\ pc = "convert"
     \/ /\ pc' \in {"sweep", "reorder", "convert", "gates lost"}
        /\ UNCHANGED <<gate_index, operands>>

LEMMA RewriteKeeps ==
  ASSUME Rewrite
  PROVE  OutputWorked
<1>1. CASE SweepQubit
  BY <1>1 DEF SweepQubit, OutputWorked, blockVars, forwardVars, tableVars
<1>2. CASE SweepRound
  BY <1>2 DEF SweepRound, OutputWorked, blockVars, forwardVars, tableVars
<1>3. CASE ReorderGate
  BY <1>3 DEF ReorderGate, OutputWorked, blockVars, forwardVars, tableVars
<1>4. CASE ReorderDone
  BY <1>4 DEF ReorderDone, OutputWorked, blockVars, forwardVars
<1>5. CASE ConvertGate
  BY <1>5 DEF ConvertGate, OutputWorked, blockVars, forwardVars, tableVars
<1>6. CASE FinishQBB
  BY <1>6 DEF FinishQBB, OutputWorked, blockVars, forwardVars, tableVars
<1> QED
  BY <1>1, <1>2, <1>3, <1>4, <1>5, <1>6 DEF Rewrite

LEMMA NextInOrder ==
  ASSUME IInv, IInv', RouteLeads, SwapsLinked, IntsSuffice, TableIsASchedule, TableInOrder,
         [Next]_vars
  PROVE  TableInOrder'
<1>1. CASE StartQBB
  <2>1. table_' = [x \in Phys |-> <<>>] /\ gate_index' = 0
    BY <1>1 DEF StartQBB
  <2>2. Shaped(table_)'
    BY <2>1 DEF Shaped, RowPadded, RowAscends
  <2>3. Ordered(table_, gates, gate_index)'
    BY <2>1 DEF Ordered
  <2> QED
    BY <2>1, <2>2, <2>3 DEF TableInOrder
<1>2. ASSUME NEW xs \in Seq(Phys), GatePlaced(xs)
      PROVE  TableInOrder'
  BY <1>2, GateKeepsOrder DEF IntsSuffice
<1>3. ASSUME NEW s \in Pair, SwapMade(s)
      PROVE  TableInOrder'
  <2>1. gate_index <= IsIdle
    <3>1. gate_index \in 0 .. Len(gates)
      BY DEF IInv, TypeOK
    <3>2. Len(gates) <= IsIdle /\ gate_index <= Len(gates)
      BY <3>1 DEF IntsSuffice
    <3>3. Len(gates) \in Nat
      BY <3>1, LengthIsNat DEF IInv
    <3> QED
      BY <3>1, <3>2, <3>3 DEF IsIdle
  <2> QED
    BY <1>3, <2>1, SwapKeepsOrder
<1>4. CASE ListsWorked
  <2>1. /\ pc' # "idle" => pc # "idle"
        /\ pc' \in {"populate", "route"} => pc \in {"populate", "route"}
        /\ UNCHANGED <<table_, gates, gate_index, qubit_map_>>
    BY <1>4 DEF ListsWorked
  <2> QED
    BY <2>1 DEF TableInOrder
<1>5. CASE Rewrite
  <2>1. OutputWorked
    BY <1>5, RewriteKeeps
  <2> QED
    BY <2>1 DEF TableInOrder, OutputWorked
<1> QED
  BY <1>1, <1>2, <1>3, <1>4, <1>5, CircuitSteps

-----------------------------------------------------------------------------
(* How far the rewritten block has come along a row.                       *)

Done(s, D, g) == \E k \in 1 .. D : s[k] = g

(* The entries of row x that are done, of the first D of the sequence, are *)
(* the first i, idling aside.                                              *)
CutAt(T, s, D, x, i) ==
  /\ \A j \in 1 .. Len(T[x]) : j <= i => T[x][j].gate = IsIdle \/ Done(s, D, T[x][j].gate)
  /\ \A j \in 1 .. Len(T[x]) : j > i => T[x][j].gate = IsIdle \/ ~Done(s, D, T[x][j].gate)

(* The placement w is what the rows hold where they are cut.               *)
Follows(m, C, T, s, D, w) ==
  \A x \in Phys : \A i \in 0 .. Len(T[x]) : CutAt(T, s, D, x, i) => w.phys[x] = Held(m, C, x, i + 1)

Covers(T, s) ==
  \A x \in Phys : \A i \in 1 .. Len(T[x]) : T[x][i].gate # IsIdle => InSeq(s, T[x][i].gate)

(* A sequence taken from the table.                                        *)
Sequenced(T, s) ==
  /\ AreASchedule(T) /\ Shaped(T) /\ InOrder(T, s) /\ Covers(T, s)
  /\ \A k \in 1 .. Len(s) : s[k] # IsIdle

LEMMA HeldAfter ==
  ASSUME NEW i \in Nat, i > 0, NEW m, NEW C, NEW x
  PROVE  Held(m, C, x, i + 1) = C[x][i]
<1>1. i + 1 # 1 /\ (i + 1) - 1 = i
  OBVIOUS
<1> QED
  BY <1>1 DEF Held

(* Entries of a row follow one another in time and in the sequence.        *)
LEMMA RowInSequence ==
  ASSUME NEW T \in [Phys -> Seq(Entry)], NEW s \in Seq(Int), Sequenced(T, s),
         NEW x \in Phys, NEW i \in 1 .. Len(T[x]), NEW j \in 1 .. Len(T[x]), i < j,
         NEW k \in 1 .. Len(s), NEW l \in 1 .. Len(s),
         T[x][i].gate = s[k], T[x][j].gate = s[l]
  PROVE  k < l
<1>1. Len(s) \in Nat /\ Len(T[x]) \in Nat /\ T[x] \in Seq(Entry)
  BY LenProperties
<1>2. T[x][i].end <= StartIn(T[x], j)
  <2>1. RowAscends(T[x]) /\ i \in 1 .. j - 1
    BY <1>1 DEF Sequenced, Shaped
  <2> QED
    BY <2>1 DEF RowAscends
<1>3. StartIn(T[x], i) < T[x][i].end
  BY RowsTakeTime DEF Sequenced
<1>4. StartIn(T[x], i) \in Nat /\ T[x][i].end \in Nat /\ StartIn(T[x], j) \in Nat
  <2>1. i \in 1 .. Len(T[x]) + 1 /\ j \in 1 .. Len(T[x]) + 1
    BY <1>1
  <2> QED
    BY <1>1, <2>1, StartIsNat, EndIsNat
<1>5. CASE l < k
  <2>1. l \in 1 .. k - 1
    BY <1>1, <1>5
  <2>2. StartsBefore(T, s[l], s[k])
    BY <2>1 DEF Sequenced, InOrder
  <2>3. StartIn(T[x], j) <= StartIn(T[x], i)
    BY <2>2 DEF StartsBefore
  <2> QED
    BY <1>2, <1>3, <1>4, <2>3
<1>6. CASE l = k
  <2>1. T[x][i].gate = T[x][j].gate /\ T[x][i].gate # IsIdle
    BY <1>6 DEF Sequenced
  <2>2. EntriesAgree(T, x, x, i, j)
    BY DEF Sequenced, AreASchedule
  <2>3. i = j
    BY <2>1, <2>2 DEF EntriesAgree
  <2> QED
    BY <1>1, <2>3
<1> QED
  BY <1>1, <1>5, <1>6

LEMMA DoneNext ==
  ASSUME NEW s \in Seq(Int), NEW D \in Nat, D + 1 \in 1 .. Len(s), NEW g
  PROVE  Done(s, D + 1, g) <=> Done(s, D, g) \/ g = s[D + 1]
<1>1. \A k \in 1 .. D + 1 : k \in 1 .. D \/ k = D + 1
  OBVIOUS
<1>2. D + 1 \in 1 .. D + 1 /\ \A k \in 1 .. D : k \in 1 .. D + 1
  OBVIOUS
<1> QED
  BY <1>1, <1>2 DEF Done

(* The next of the sequence is the next entry of its rows.                 *)
LEMMA CutBefore ==
  ASSUME NEW T \in [Phys -> Seq(Entry)], NEW s \in Seq(Int), Sequenced(T, s),
         NEW D \in Nat, D + 1 \in 1 .. Len(s), NEW x \in Phys, NEW j \in 1 .. Len(T[x]),
         T[x][j].gate = s[D + 1]
  PROVE  CutAt(T, s, D, x, j - 1)
<1>1. Len(s) \in Nat /\ Len(T[x]) \in Nat
  BY LenProperties
<1>2. ASSUME NEW i \in 1 .. Len(T[x]), i <= j - 1, T[x][i].gate # IsIdle
      PROVE  Done(s, D, T[x][i].gate)
  <2>1. PICK k \in 1 .. Len(s) : s[k] = T[x][i].gate
    BY <1>2 DEF Sequenced, Covers, InSeq
  <2>2. i < j
    BY <1>1, <1>2
  <2>3. k < D + 1
    <3>1. T[x][i].gate = s[k]
      BY <2>1
    <3> QED
      BY <2>2, <3>1, RowInSequence
  <2>4. k \in 1 .. D
    BY <1>1, <2>3
  <2> QED
    BY <2>1, <2>4 DEF Done
<1>3. ASSUME NEW i \in 1 .. Len(T[x]), i > j - 1, Done(s, D, T[x][i].gate)
      PROVE  FALSE
  <2>1. PICK k \in 1 .. D : s[k] = T[x][i].gate
    BY <1>3 DEF Done
  <2>2. k \in 1 .. Len(s) /\ k < D + 1
    BY <1>1
  <2>3. i = j \/ j < i
    BY <1>1, <1>3
  <2>4. CASE j < i
    <3>1. D + 1 < k
      BY <2>1, <2>2, <2>4, RowInSequence
    <3> QED
      BY <2>2, <3>1
  <2>5. CASE i = j
    <3>1. k \in 1 .. (D + 1) - 1
      BY <2>2
    <3>2. s[k] # s[D + 1]
      BY <3>1 DEF Sequenced, InOrder
    <3> QED
      BY <2>1, <2>5, <3>2
  <2> QED
    BY <2>3, <2>4, <2>5
<1> QED
  BY <1>2, <1>3 DEF CutAt

LEMMA CutAfter ==
  ASSUME NEW T \in [Phys -> Seq(Entry)], NEW s \in Seq(Int), Sequenced(T, s),
         NEW D \in Nat, D + 1 \in 1 .. Len(s), NEW x \in Phys, NEW j \in 1 .. Len(T[x]),
         T[x][j].gate = s[D + 1], NEW E, E = D + 1, NEW i \in 0 .. Len(T[x]), CutAt(T, s, E, x, i)
  PROVE  i = j \/ (i = j + 1 /\ T[x][i].gate = IsIdle)
<1>0. CutAt(T, s, D + 1, x, i)
  OBVIOUS
<1>1. Len(s) \in Nat /\ Len(T[x]) \in Nat
  BY LenProperties
<1>2. Done(s, D + 1, T[x][j].gate) /\ T[x][j].gate # IsIdle
  BY DoneNext DEF Sequenced
<1>3. ~(j > i)
  BY <1>0, <1>2 DEF CutAt
<1>4. CutAt(T, s, D, x, j - 1)
  BY CutBefore
<1>5. ASSUME NEW l \in 1 .. Len(T[x]), l <= i, l > j
      PROVE  T[x][l].gate = IsIdle
  <2> SUFFICES ASSUME T[x][l].gate # IsIdle
               PROVE  FALSE
    OBVIOUS
  <2>1. Done(s, D + 1, T[x][l].gate)
    BY <1>0, <1>5 DEF CutAt
  <2>2. l > j - 1
    BY <1>1, <1>5
  <2>3. ~Done(s, D, T[x][l].gate)
    BY <1>4, <2>2 DEF CutAt
  <2>4. T[x][l].gate = s[D + 1]
    BY <2>1, <2>3, DoneNext
  <2>5. D + 1 < D + 1
    BY <1>5, <2>4, RowInSequence
  <2> QED
    BY <2>5
<1>6. CASE i > j
  <2>1. j + 1 \in 1 .. Len(T[x]) /\ j + 1 <= i /\ j + 1 > j
    BY <1>1, <1>6
  <2>2. T[x][j + 1].gate = IsIdle
    BY <1>5, <2>1
  <2>3. CASE i > j + 1
    <3>1. j + 2 \in 1 .. Len(T[x]) /\ j + 2 <= i /\ j + 2 > j /\ j + 2 \in 2 .. Len(T[x])
          /\ (j + 2) - 1 = j + 1
      BY <1>1, <2>3
    <3>2. T[x][j + 2].gate = IsIdle
      BY <1>5, <3>1
    <3>3. RowPadded(T[x])
      BY DEF Sequenced, Shaped
    <3>4. T[x][j + 2].gate # IsIdle
      BY <2>2, <3>1, <3>3 DEF RowPadded
    <3> QED
      BY <3>2, <3>4
  <2> QED
    BY <1>1, <1>6, <2>2, <2>3
<1> QED
  BY <1>1, <1>3, <1>6

-----------------------------------------------------------------------------
(* One gate of the sequence executed: the rows it is on are cut behind it. *)
LEMMA FollowsStep ==
  ASSUME NEW T \in [Phys -> Seq(Entry)], NEW s \in Seq(Int), Sequenced(T, s),
         NEW D \in Nat, D + 1 \in 1 .. Len(s),
         NEW m, NEW C, NEW w, NEW v, Follows(m, C, T, s, D, w), Keeps(m, C, T),
         \A x \in Phys : \/ \E j \in 1 .. Len(T[x]) :
                              T[x][j].gate = s[D + 1] /\ v.phys[x] = C[x][j]
                         \/ /\ \A j \in 1 .. Len(T[x]) : T[x][j].gate # s[D + 1]
                            /\ v.phys[x] = w.phys[x]
  PROVE  Follows(m, C, T, s, D + 1, v)
<1> SUFFICES ASSUME NEW x \in Phys, NEW i \in 0 .. Len(T[x]), CutAt(T, s, D + 1, x, i)
             PROVE  v.phys[x] = Held(m, C, x, i + 1)
  BY DEF Follows
<1>0. Len(T[x]) \in Nat
  BY LenProperties
<1>1. ASSUME NEW j \in 1 .. Len(T[x]), T[x][j].gate = s[D + 1], v.phys[x] = C[x][j]
      PROVE  v.phys[x] = Held(m, C, x, i + 1)
  <2>1. i = j \/ (i = j + 1 /\ T[x][i].gate = IsIdle)
    <3> DEFINE E == D + 1
    <3>1. T[x][j].gate = s[D + 1]
      BY <1>1
    <3>2. E = D + 1 /\ CutAt(T, s, E, x, i)
      OBVIOUS
    <3> HIDE DEF E
    <3> QED
      BY <3>1, <3>2, CutAfter
  <2>2. Held(m, C, x, j + 1) = C[x][j]
    BY <1>0, HeldAfter
  <2>3. CASE i = j
    BY <1>1, <2>2, <2>3
  <2>4. CASE i = j + 1 /\ T[x][i].gate = IsIdle
    <3>1. i \in 1 .. Len(T[x]) /\ i \in Nat /\ i > 0 /\ T[x][i].gate >= 0
      BY <1>0, <2>4 DEF IsIdle
    <3>2. C[x][i] = Held(m, C, x, i)
      BY <3>1 DEF Keeps
    <3>3. Held(m, C, x, i + 1) = C[x][i]
      BY <3>1, HeldAfter
    <3> QED
      BY <1>1, <2>2, <2>4, <3>2, <3>3
  <2> QED
    BY <2>1, <2>3, <2>4
<1>2. ASSUME \A j \in 1 .. Len(T[x]) : T[x][j].gate # s[D + 1], v.phys[x] = w.phys[x]
      PROVE  v.phys[x] = Held(m, C, x, i + 1)
  <2>1. \A j \in 1 .. Len(T[x]) : Done(s, D + 1, T[x][j].gate) <=> Done(s, D, T[x][j].gate)
    <3> TAKE j \in 1 .. Len(T[x])
    <3>1. T[x][j].gate # s[D + 1]
      BY <1>2
    <3> QED
      BY <3>1, DoneNext
  <2>2. CutAt(T, s, D, x, i)
    BY <2>1 DEF CutAt
  <2> QED
    BY <1>2, <2>2 DEF Follows
<1> QED
  BY <1>1, <1>2

(* A gate of the program leaves all where it is,                           *)
LEMMA FollowsGate ==
  ASSUME NEW T \in [Phys -> Seq(Entry)], NEW s \in Seq(Int), Sequenced(T, s),
         NEW D \in Nat, D + 1 \in 1 .. Len(s), s[D + 1] >= 0,
         NEW m, NEW C, NEW w, Follows(m, C, T, s, D, w), Keeps(m, C, T)
  PROVE  Follows(m, C, T, s, D + 1, w)
<1>1. ASSUME NEW x \in Phys, NEW j \in 1 .. Len(T[x]), T[x][j].gate = s[D + 1]
      PROVE  w.phys[x] = C[x][j]
  <2>0. Len(T[x]) \in Nat
    BY LenProperties
  <2>1. CutAt(T, s, D, x, j - 1)
    BY <1>1, CutBefore
  <2>2. j - 1 \in 0 .. Len(T[x]) /\ (j - 1) + 1 = j
    BY <2>0
  <2>3. w.phys[x] = Held(m, C, x, j)
    BY <2>1, <2>2 DEF Follows
  <2> QED
    BY <1>1, <2>3 DEF Keeps
<1>2. \A x \in Phys : \/ \E j \in 1 .. Len(T[x]) :
                              T[x][j].gate = s[D + 1] /\ w.phys[x] = C[x][j]
                      \/ /\ \A j \in 1 .. Len(T[x]) : T[x][j].gate # s[D + 1]
                         /\ w.phys[x] = w.phys[x]
  BY <1>1
<1> QED
  BY <1>2, FollowsStep

(* and acts on what its qubits hold.                                       *)
FoundOn(w, xs, qs) == \A k \in 1 .. Len(xs) : w.phys[xs[k]] = qs[k]

LEMMA FollowedGate ==
  ASSUME NEW T \in [Phys -> Seq(Entry)], NEW s \in Seq(Int), Sequenced(T, s),
         NEW D \in Nat, D + 1 \in 1 .. Len(s),
         NEW m, NEW C, NEW w, Follows(m, C, T, s, D, w),
         NEW g, g = s[D + 1], NEW xs \in Seq(Phys), NEW qs, ActsOn(m, C, T, g, xs, qs)
  PROVE  FoundOn(w, xs, qs)
<1> SUFFICES ASSUME NEW k \in 1 .. Len(xs)
             PROVE  w.phys[xs[k]] = qs[k]
  BY DEF FoundOn
<1> DEFINE x == xs[k]
<1>1. x \in Phys
  BY ElementOfSeq
<1>2. PICK j \in 1 .. Len(T[x]) : T[x][j].gate = s[D + 1] /\ Held(m, C, x, j) = qs[k]
  BY DEF ActsOn
<1> HIDE DEF x
<1>3. Len(T[x]) \in Nat
  BY <1>1, LenProperties
<1>4. CutAt(T, s, D, x, j - 1)
  BY <1>1, <1>2, CutBefore
<1>5. j - 1 \in 0 .. Len(T[x]) /\ (j - 1) + 1 = j
  BY <1>3
<1>6. w.phys[x] = Held(m, C, x, j)
  BY <1>1, <1>4, <1>5 DEF Follows
<1> QED
  BY <1>2, <1>6 DEF x

(* A swap exchanges what its two hold.                                     *)
LEMMA FollowsSwap ==
  ASSUME NEW T \in [Phys -> Seq(Entry)], NEW s \in Seq(Int), Sequenced(T, s),
         NEW D \in Nat, D + 1 \in 1 .. Len(s),
         NEW m, NEW C, NEW w \in QubitMap(Phys), Follows(m, C, T, s, D, w), Keeps(m, C, T),
         NEW a \in Phys, NEW b \in Phys, Exchanges(m, C, T, s[D + 1], a, b)
  PROVE  Follows(m, C, T, s, D + 1, Swap(w, a, b))
<1> DEFINE v == Swap(w, a, b)
           g == s[D + 1]
<1>1. \A x \in Phys : v.phys[x] = IF x = a THEN w.phys[b] ELSE IF x = b THEN w.phys[a]
                                  ELSE w.phys[x]
  BY SwapEntries
<1>2. PICK i \in 1 .. Len(T[a]) : \E j \in 1 .. Len(T[b]) :
       /\ T[a][i].gate = g /\ T[b][j].gate = g
       /\ C[a][i] = Held(m, C, b, j) /\ C[b][j] = Held(m, C, a, i)
  BY DEF Exchanges
<1>3. PICK j \in 1 .. Len(T[b]) :
       /\ T[a][i].gate = g /\ T[b][j].gate = g
       /\ C[a][i] = Held(m, C, b, j) /\ C[b][j] = Held(m, C, a, i)
  BY <1>2
<1>4. ASSUME NEW x \in Phys, NEW k \in 1 .. Len(T[x]), T[x][k].gate = g
      PROVE  w.phys[x] = Held(m, C, x, k)
  <2>0. Len(T[x]) \in Nat
    BY LenProperties
  <2>1. CutAt(T, s, D, x, k - 1)
    BY <1>4, CutBefore
  <2>2. k - 1 \in 0 .. Len(T[x]) /\ (k - 1) + 1 = k
    BY <2>0
  <2> QED
    BY <2>1, <2>2 DEF Follows
<1>5. w.phys[a] = Held(m, C, a, i) /\ w.phys[b] = Held(m, C, b, j)
  BY <1>3, <1>4
<1>6. v.phys[a] = C[a][i] /\ v.phys[b] = C[b][j]
  <2>1. v.phys[a] = w.phys[b]
    BY <1>1
  <2>2. v.phys[b] = w.phys[a]
    BY <1>1
  <2> QED
    BY <1>3, <1>5, <2>1, <2>2
<1>7. \A x \in Phys : x \notin {a, b} =>
         v.phys[x] = w.phys[x] /\ \A k \in 1 .. Len(T[x]) : T[x][k].gate # g
  BY <1>1 DEF Exchanges, OnlyOn
<1> HIDE DEF v
<1>8. \A x \in Phys : \/ \E k \in 1 .. Len(T[x]) : T[x][k].gate = g /\ v.phys[x] = C[x][k]
                      \/ /\ \A k \in 1 .. Len(T[x]) : T[x][k].gate # g
                         /\ v.phys[x] = w.phys[x]
  BY <1>3, <1>6, <1>7
<1> QED
  BY <1>8, FollowsStep DEF v

(* It begins with the first placement,                                     *)
LEMMA FollowsBegins ==
  ASSUME NEW T \in [Phys -> Seq(Entry)], NEW s, NEW m, NEW C, Keeps(m, C, T), Shaped(T)
  PROVE  Follows(m, C, T, s, 0, m)
<1> SUFFICES ASSUME NEW x \in Phys, NEW i \in 0 .. Len(T[x]), CutAt(T, s, 0, x, i)
             PROVE  m.phys[x] = Held(m, C, x, i + 1)
  BY DEF Follows
<1>0. Len(T[x]) \in Nat
  BY LenProperties
<1>1. \A j \in 1 .. Len(T[x]) : j <= i => T[x][j].gate = IsIdle
  BY DEF CutAt, Done
<1>2. CASE i = 0
  BY <1>2 DEF Held
<1>3. CASE i = 1
  <2>1. 1 \in 1 .. Len(T[x]) /\ T[x][1].gate = IsIdle /\ T[x][1].gate >= 0
    BY <1>0, <1>1, <1>3 DEF IsIdle
  <2>2. C[x][1] = Held(m, C, x, 1)
    BY <2>1 DEF Keeps
  <2>3. Held(m, C, x, 1 + 1) = C[x][1]
    BY HeldAfter
  <2> QED
    BY <1>3, <2>2, <2>3 DEF Held
<1>4. CASE i > 1
  <2>1. /\ 1 \in 1 .. Len(T[x]) /\ 2 \in 1 .. Len(T[x]) /\ 2 \in 2 .. Len(T[x])
        /\ 1 <= i /\ 2 <= i /\ 2 - 1 = 1
    BY <1>0, <1>4
  <2>2. RowPadded(T[x])
    BY DEF Shaped
  <2>3. T[x][1].gate = IsIdle /\ T[x][2].gate = IsIdle
    BY <1>1, <2>1
  <2> QED
    BY <2>1, <2>2, <2>3 DEF RowPadded
<1> QED
  BY <1>0, <1>2, <1>3, <1>4

(* and ends with the last.                                                 *)
LEMMA FollowsEnds ==
  ASSUME NEW T \in [Phys -> Seq(Entry)], NEW s, NEW m, NEW C, NEW n, NEW w,
         Follows(m, C, T, s, Len(s), w), Covers(T, s), LeadsTo(m, C, T, n)
  PROVE  \A x \in Phys : w.phys[x] = n.phys[x]
<1> TAKE x \in Phys
<1>0. Len(T[x]) \in Nat
  BY LenProperties
<1>1. CutAt(T, s, Len(s), x, Len(T[x]))
  <2>1. \A j \in 1 .. Len(T[x]) : T[x][j].gate = IsIdle \/ Done(s, Len(s), T[x][j].gate)
    BY DEF Covers, InSeq, Done
  <2>2. \A j \in 1 .. Len(T[x]) : ~(j > Len(T[x]))
    BY <1>0
  <2> QED
    BY <2>1, <2>2 DEF CutAt
<1>2. Len(T[x]) \in 0 .. Len(T[x])
  BY <1>0
<1> QED
  BY <1>1, <1>2 DEF Follows, LeadsTo

-----------------------------------------------------------------------------
(* One gate of the rewritten block converted and run.                      *)

ConvertsSwap(a, b) ==
  /\ block[1].gate < 0
  /\ where' = Swap(where, a, b) /\ UNCHANGED executed

ConvertsGate(xs) ==
  /\ block[1].gate >= 0 /\ UNCHANGED where
  /\ executed' = Append(executed, [gate   |-> block[1].gate,
                                   qubits |-> [k \in 1 .. Len(xs) |-> where.phys[xs[k]]]])

LEMMA BlockIsSeq ==
  ASSUME IInv
  PROVE  block \in Seq([gate : Int, qubits : Seq(Operands)])
BY DEF IInv, TypeOK

LEMMA BlockHead ==
  ASSUME IInv, block # <<>>
  PROVE  /\ Head(block) = block[1] /\ 1 \in 1 .. Len(block)
         /\ block[1].gate \in Int
         /\ Len(Tail(block)) = Len(block) - 1 /\ Len(block) \in Nat
         /\ \A i \in 1 .. Len(block) - 1 : Tail(block)[i] = block[i + 1]
<1>1. block \in Seq([gate : Int, qubits : Seq(Operands)])
  BY BlockIsSeq
<1>2. Head(block) = block[1]
  BY <1>1, HeadIsFirst
<1>3. Len(block) \in Nat /\ 1 \in 1 .. Len(block)
  BY <1>1, EmptySeq, LenProperties
<1>4. block[1] \in [gate : Int, qubits : Seq(Operands)]
  BY <1>1, <1>3, ElementOfSeq
<1>5. Len(Tail(block)) = Len(block) - 1
  BY <1>1, HeadTailProperties
<1>6. \A i \in 1 .. Len(block) - 1 : Tail(block)[i] = block[i + 1]
  BY <1>1, <1>5, HeadTailProperties
<1> QED
  BY <1>2, <1>3, <1>4, <1>5, <1>6

LEMMA ConvertSwap ==
  ASSUME IInv, ConvertGate, block[1].gate < 0, NEW a \in Phys, NEW b \in Phys,
         block[1].qubits = <<<<"qid", a>>, <<"qid", b>>>>
  PROVE  ConvertsSwap(a, b)
<1>1. block # <<>> /\ Head(block) = block[1]
  BY BlockHead DEF ConvertGate
<1> DEFINE xs == [i \in 1 .. Len(block[1].qubits) |-> QIDOf(block[1].qubits[i])]
<1>2. where' = updateMapBySwappingPhysQubits(where, xs[1], xs[2]) /\ UNCHANGED executed
  BY <1>1 DEF ConvertGate
<1>3. Len(block[1].qubits) = 2 /\ block[1].qubits[1] = <<"qid", a>>
      /\ block[1].qubits[2] = <<"qid", b>>
  OBVIOUS
<1>4. xs[1] = a /\ xs[2] = b
  <2>1. QIDOf(<<"qid", a>>) = a /\ QIDOf(<<"qid", b>>) = b
    BY DEF QIDOf
  <2>2. xs[1] = QIDOf(block[1].qubits[1]) /\ xs[2] = QIDOf(block[1].qubits[2])
    BY <1>3
  <2> QED
    BY <1>3, <2>1, <2>2
<1> HIDE DEF xs
<1> QED
  BY <1>2, <1>4 DEF ConvertsSwap, Swap

LEMMA ConvertOperands ==
  ASSUME IInv, ConvertGate, block[1].gate >= 0, NEW ys \in Seq(Phys), block[1].qubits = Qids(ys)
  PROVE  ConvertsGate(ys)
<1>1. block # <<>> /\ Head(block) = block[1] /\ block[1].gate \in Int
  BY BlockHead DEF ConvertGate
<1> DEFINE g  == Head(block)
           xs == [i \in 1 .. Len(g.qubits) |-> QIDOf(g.qubits[i])]
<1>2. ~(g.gate < 0) /\ g = block[1]
  BY <1>1
<1>3. /\ UNCHANGED where
      /\ executed' = Append(executed, [gate   |-> g.gate,
                                       qubits |-> [k \in 1 .. Len(xs) |-> where.phys[xs[k]]]])
  BY <1>2, Zenon DEF ConvertGate
<1>4. Len(Qids(ys)) = Len(ys) /\ \A k \in 1 .. Len(ys) : Qids(ys)[k] = <<"qid", ys[k]>>
  BY QidsIsSeq
<1>5. xs = [i \in 1 .. Len(ys) |-> ys[i]]
  BY <1>2, <1>4 DEF QIDOf
<1>6. xs = ys
  <2> HIDE DEF xs
  <2> QED
    BY <1>5
<1> HIDE DEF xs, g
<1> QED
  BY <1>2, <1>3, <1>6 DEF ConvertsGate

(* Outside of it the history does not change.                              *)
LEMMA RewriteHistory ==
  ASSUME Rewrite
  PROVE  ConvertGate \/ UNCHANGED <<where, executed>>
BY DEF Rewrite, SweepQubit, SweepRound, ReorderGate, ReorderDone, FinishQBB, histVars

KinInv == Kin(initial_qubit_map_, qubit_map_) /\ Kin(initial_qubit_map_, where)

LEMMA NextKin ==
  ASSUME IInv, RouteLeads, SwapsLinked, KinInv, [Next]_vars
  PROVE  KinInv'
<1>1. CASE StartQBB
  <2>1. qubit_map_' = initial_qubit_map_' /\ where' = initial_qubit_map_'
    BY <1>1 DEF StartQBB
  <2> QED
    BY <2>1, KinSelf DEF KinInv
<1>2. ASSUME NEW xs \in Seq(Phys), GatePlaced(xs)
      PROVE  KinInv'
  BY <1>2 DEF GatePlaced, GateEntered, KinInv
<1>3. ASSUME NEW s \in Pair, SwapMade(s)
      PROVE  KinInv'
  <2>1. /\ s[1] \in Phys /\ s[2] \in Phys
        /\ qubit_map_' = Swap(qubit_map_, s[1], s[2])
    BY <1>3, SwapGrows
  <2>2. UNCHANGED <<initial_qubit_map_, where>>
    BY <1>3 DEF SwapMade, SwapEntered
  <2>3. qubit_map_ \in QubitMap(Phys) /\ isConsistent(qubit_map_)
    BY InvFacts
  <2>4. Kin(initial_qubit_map_, Swap(qubit_map_, s[1], s[2]))
    BY <2>1, <2>3, SwapKin DEF KinInv
  <2> QED
    BY <2>1, <2>2, <2>4 DEF KinInv
<1>4. CASE ListsWorked
  BY <1>4 DEF ListsWorked, KinInv
<1>5. CASE Rewrite
  <2>1. UNCHANGED <<initial_qubit_map_, qubit_map_>>
    BY <1>5, RewriteKeeps DEF OutputWorked
  <2>2. UNCHANGED where \/ \E a, b \in Phys : where' = Swap(where, a, b)
    <3>1. CASE ConvertGate
      <4>1. block # <<>> /\ block[1].gate \in Int /\ 1 \in 1 .. Len(block)
        BY <3>1, BlockHead DEF ConvertGate
      <4>2. CASE block[1].gate < 0
        <5>1. PICK a, b \in Phys : block[1].qubits = <<<<"qid", a>>, <<"qid", b>>>>
          BY <4>1, <4>2 DEF IInv, EntriesKnown
        <5>2. ConvertsSwap(a, b)
          BY <3>1, <4>2, <5>1, ConvertSwap
        <5> QED
          BY <5>2 DEF ConvertsSwap
      <4>3. CASE ~(block[1].gate < 0)
        <5>1. Head(block) = block[1]
          BY <4>1, BlockHead
        <5> QED
          BY <3>1, <4>3, <5>1 DEF ConvertGate
      <4> QED
        BY <4>2, <4>3
    <3> QED
      BY <1>5, <3>1, RewriteHistory
  <2>3. where \in QubitMap(Phys) /\ isConsistent(where)
    BY InvFacts
  <2> QED
    BY <2>1, <2>2, <2>3, SwapKin DEF KinInv
<1> QED
  BY <1>1, <1>2, <1>3, <1>4, <1>5, CircuitSteps

-----------------------------------------------------------------------------
(* The rewritten block is what is left of the sequence, and the placement  *)
(* reached has been recorded.                                              *)

HistoryStarts ==
  pc \notin {"idle", "convert"} => where = initial_qubit_map_ /\ executed = <<>>

FinalIsReached ==
  pc \in {"sweep", "reorder", "convert"} => final_qubit_map = qubit_map_

BlockIsRest ==
  pc = "convert" =>
    /\ Len(block) <= Len(sequence)
    /\ \A i \in 1 .. Len(block) : block[i].gate = sequence[(Len(sequence) - Len(block)) + i]

LEMMA NextStarts ==
  ASSUME IInv, RouteLeads, SwapsLinked, HistoryStarts, [Next]_vars
  PROVE  HistoryStarts'
<1>1. CASE StartQBB
  BY <1>1 DEF StartQBB, HistoryStarts
<1>2. ASSUME NEW xs \in Seq(Phys), GatePlaced(xs)
      PROVE  HistoryStarts'
  BY <1>2 DEF GatePlaced, GateEntered, HistoryStarts
<1>3. ASSUME NEW s \in Pair, SwapMade(s)
      PROVE  HistoryStarts'
  BY <1>3 DEF SwapMade, SwapEntered, HistoryStarts
<1>4. CASE ListsWorked
  BY <1>4 DEF ListsWorked, HistoryStarts
<1>5. CASE Rewrite
  <2>1. CASE ConvertGate
    BY <2>1 DEF ConvertGate, HistoryStarts
  <2>2. CASE ReorderDone
    BY <2>2 DEF ReorderDone, HistoryStarts
  <2>3. CASE SweepQubit \/ SweepRound \/ ReorderGate \/ FinishQBB
    BY <2>3 DEF SweepQubit, SweepRound, ReorderGate, FinishQBB, HistoryStarts, blockVars, histVars
  <2> QED
    BY <1>5, <2>1, <2>2, <2>3 DEF Rewrite
<1> QED
  BY <1>1, <1>2, <1>3, <1>4, <1>5, CircuitSteps

LEMMA NextFinal ==
  ASSUME FinalIsReached, [Next]_vars
  PROVE  FinalIsReached'
<1>1. CASE Populate
  <2>1. CASE EndPopulate
    BY <2>1 DEF EndPopulate, tableVars, FinalIsReached
  <2>2. CASE StartQBB \/ ScheduleInPlace \/ FindRoute \/ FailToRoute \/ RoutingSwap \/ PlaceRouted
    BY <2>2 DEF StartQBB, ScheduleInPlace, FindRoute, FailToRoute, RoutingSwap, PlaceRouted,
                FinalIsReached
  <2> QED
    BY <1>1, <2>1, <2>2 DEF Populate
<1>2. CASE Backward
  <2>1. CASE BackwardDone
    BY <2>1 DEF BackwardDone, tableVars, IsEqual, FinalIsReached
  <2>2. CASE RetraceScan \/ RetracePass \/ RetraceSwap \/ PruneQubit \/ PruneDone \/ SortSwap
    BY <2>2 DEF RetraceScan, RetracePass, RetraceSwap, PruneQubit, PruneDone, SortSwap,
                FinalIsReached
  <2> QED
    BY <1>2, <2>1, <2>2 DEF Backward
<1>3. CASE Rewrite
  BY <1>3, RewriteKeeps DEF OutputWorked, FinalIsReached
<1>4. CASE UNCHANGED vars
  BY <1>4 DEF vars, tableVars, FinalIsReached
<1> QED
  BY <1>1, <1>2, <1>3, <1>4 DEF Next

LEMMA NextBlockIsRest ==
  ASSUME IInv, RouteLeads, SwapsLinked, MInv, BlockIsRest, [Next]_vars
  PROVE  BlockIsRest'
<1>1. Len(block) \in Nat /\ Len(sequence) \in Nat
  BY BlockIsSeq, InvFacts, LenProperties
<1>2. CASE StartQBB
  BY <1>2 DEF StartQBB, BlockIsRest
<1>3. ASSUME NEW xs \in Seq(Phys), GatePlaced(xs)
      PROVE  BlockIsRest'
  BY <1>3 DEF GatePlaced, GateEntered, BlockIsRest
<1>4. ASSUME NEW s \in Pair, SwapMade(s)
      PROVE  BlockIsRest'
  BY <1>4 DEF SwapMade, SwapEntered, BlockIsRest
<1>5. CASE ListsWorked
  BY <1>5 DEF ListsWorked, BlockIsRest
<1>6. CASE ReorderDone
  <2>1. pc = "reorder" /\ Len(block) = Len(sequence) /\ UNCHANGED <<block, sequence>>
    BY <1>6 DEF ReorderDone, outputVars
  <2>2. \A i \in 1 .. Len(block) : block[i].gate = sequence[i]
    BY <2>1 DEF MInv, BlockInSequence
  <2>3. \A i \in 1 .. Len(block) : (Len(sequence) - Len(block)) + i = i
    BY <1>1, <2>1
  <2> QED
    BY <1>1, <2>1, <2>2, <2>3 DEF BlockIsRest
<1>7. CASE ConvertGate
  <2>1. pc = "convert" /\ block # <<>> /\ block' = Tail(block) /\ UNCHANGED sequence
    BY <1>7 DEF ConvertGate
  <2>2. /\ Len(block') = Len(block) - 1
        /\ \A i \in 1 .. Len(block') : block'[i] = block[i + 1]
    BY <2>1, BlockHead
  <2>3. ASSUME NEW i \in 1 .. Len(block')
        PROVE  block'[i].gate = sequence[(Len(sequence) - Len(block')) + i]
    <3>1. i + 1 \in 1 .. Len(block)
      BY <1>1, <2>2
    <3>2. (Len(sequence) - Len(block)) + (i + 1) = (Len(sequence) - Len(block')) + i
      BY <1>1, <2>2
    <3>3. block[i + 1].gate = sequence[(Len(sequence) - Len(block)) + (i + 1)]
      BY <2>1, <3>1 DEF BlockIsRest
    <3> QED
      BY <2>2, <3>2, <3>3
  <2>4. Len(block) <= Len(sequence) /\ Len(block') <= Len(sequence)
    BY <1>1, <2>1, <2>2 DEF BlockIsRest
  <2> QED
    BY <2>1, <2>3, <2>4 DEF BlockIsRest
<1>8. CASE SweepQubit \/ SweepRound \/ ReorderGate \/ FinishQBB
  BY <1>8 DEF SweepQubit, SweepRound, ReorderGate, FinishQBB, BlockIsRest
<1> QED
  BY <1>2, <1>3, <1>4, <1>5, <1>6, <1>7, <1>8, CircuitSteps DEF Rewrite

-----------------------------------------------------------------------------
(* Contents of the rows throughout the block, and while it is converted    *)
(* the placement the hardware has by then.                                 *)

Accounted(C) ==
  Account(initial_qubit_map_, C, table_, qubit_map_, gates, gate_index, operands, routing)

SwapInRows(C, T, b) ==
  b.gate < 0 =>
    \E x, y \in Phys : /\ b.qubits = <<<<"qid", x>>, <<"qid", y>>>>
                       /\ Exchanges(initial_qubit_map_, C, T, b.gate, x, y)

Reached(C) ==
  Follows(initial_qubit_map_, C, table_, sequence, Len(sequence) - Len(block), where)

ContentsKnown(C) ==
  /\ Accounted(C)
  /\ pc \in {"reorder", "convert"} =>
       \A i \in 1 .. Len(block) : SwapInRows(C, table_, block[i])
  /\ pc = "convert" => Reached(C)

ContentsInv == pc # "idle" => \E C \in Contents : ContentsKnown(C)

(* The sequence being converted is one of the table.                       *)
LEMMA SequenceOfTable ==
  ASSUME TableIsASchedule, TableInOrder, SequenceInv, pc \in {"reorder", "convert"}
  PROVE  Sequenced(table_, sequence)
<1>1. AreASchedule(table_)
  BY ScheduleByRows
<1>2. Shaped(table_)
  BY DEF TableInOrder
<1> QED
  BY <1>1, <1>2 DEF Sequenced, SequenceInv, Covers

(* A gate added to the block.                                              *)
LEMMA ReorderContents ==
  ASSUME IInv, ReorderGate, NEW C, ContentsKnown(C)
  PROVE  ContentsKnown(C)'
<1> DEFINE R == [gate : Int, qubits : Seq(Operands)]
           n == Len(block) + 1
           g == sequence[n]
           q == IF g >= 0 THEN operands[g + 1]
                ELSE <<<<"qid", routing[-g][1]>>, <<"qid", routing[-g][2]>>>>
           e == [gate |-> g, qubits |-> q]
<1>1. /\ pc = "reorder" /\ pc' = pc /\ Len(block) < Len(sequence)
      /\ block' = Append(block, e)
      /\ UNCHANGED <<initial_qubit_map_, table_, qubit_map_, gates, gate_index, operands, routing>>
  BY DEF ReorderGate, blockVars, tableVars, forwardVars
<1>2. block \in Seq(R) /\ sequence \in Seq(Int) /\ routing \in Seq(Pair) /\ gate_index \in Nat
  BY InvFacts, BlockIsSeq
<1>3. Len(block) \in Nat /\ Len(sequence) \in Nat /\ Len(routing) \in Nat
  BY <1>2, LenProperties
<1>4. n \in 1 .. Len(sequence)
  BY <1>1, <1>3
<1>5. g \in Positions /\ g \in Int
  BY <1>1, <1>2, <1>4, ElementOfSeq DEF IInv, EntriesKnown
<1>6. g < 0 => -g \in 1 .. Len(routing)
  BY <1>2, <1>3, <1>5 DEF Positions
<1>7. e.gate = g /\ e.qubits = q
  OBVIOUS
<1> HIDE DEF R, e, n
<1>8. block \in Seq(R \cup {e}) /\ e \in R \cup {e}
  BY <1>2
<1>9. /\ Len(block') = n
      /\ \A i \in 1 .. n - 1 : block'[i] = block[i]
      /\ block'[n] = e
  BY <1>1, <1>3, <1>8, AppendProperties DEF n
<1>10. \A i \in 1 .. n : i \in 1 .. Len(block) \/ i = n
  BY <1>3 DEF n
<1>11. n - 1 = Len(block)
  BY <1>3 DEF n
<1>12. ASSUME g < 0
       PROVE  \E x, y \in Phys : /\ q = <<<<"qid", x>>, <<"qid", y>>>>
                                 /\ Exchanges(initial_qubit_map_, C, table_, g, x, y)
  <2> DEFINE p == -g
  <2>1. p \in 1 .. Len(routing) /\ -p = g
    BY <1>5, <1>6, <1>12
  <2>2. routing[p] \in Pair /\ routing[p][1] \in Phys /\ routing[p][2] \in Phys
    BY <1>2, <2>1, ElementOfSeq DEF Pair
  <2>3. Exchanges(initial_qubit_map_, C, table_, -p, routing[p][1], routing[p][2])
    BY <2>1 DEF ContentsKnown, Accounted, Account
  <2>4. ~(g >= 0)
    BY <1>5, <1>12
  <2>5. q = <<<<"qid", routing[p][1]>>, <<"qid", routing[p][2]>>>>
    BY <2>4
  <2> HIDE DEF p, q
  <2> QED
    BY <2>1, <2>2, <2>3, <2>5
<1> HIDE DEF q, g
<1>13. \A i \in 1 .. Len(block) : SwapInRows(C, table_, block[i])
  BY <1>1 DEF ContentsKnown
<1>14. SwapInRows(C, table_, e)
  BY <1>7, <1>12 DEF SwapInRows
<1>15. \A i \in 1 .. n : SwapInRows(C, table_, block'[i])
  <2> TAKE i \in 1 .. n
  <2>1. block'[i] = e \/ (i \in 1 .. Len(block) /\ block'[i] = block[i])
    BY <1>9, <1>10, <1>11
  <2> QED
    BY <1>13, <1>14, <2>1
<1>16. \A i \in 1 .. Len(block') : SwapInRows(C, table_, block[i])'
  <2> TAKE i \in 1 .. Len(block')
  <2>1. SwapInRows(C, table_, block'[i])
    BY <1>9, <1>15
  <2> QED
    BY <1>1, <2>1 DEF SwapInRows
<1>17. Accounted(C)'
  BY <1>1 DEF ContentsKnown, Accounted
<1> QED
  BY <1>1, <1>16, <1>17 DEF ContentsKnown

(* The block complete.                                                     *)
LEMMA ReorderedContents ==
  ASSUME IInv, TableInOrder, HistoryStarts, ReorderDone, NEW C, ContentsKnown(C)
  PROVE  ContentsKnown(C)'
<1>1. /\ pc = "reorder" /\ pc' = "convert" /\ routing' = <<>> /\ Len(block) = Len(sequence)
      /\ UNCHANGED <<initial_qubit_map_, table_, qubit_map_, gates, gate_index, operands,
                     block, sequence, where>>
  BY DEF ReorderDone, blockVars, forwardVars, outputVars, histVars
<1>2. where = initial_qubit_map_ /\ Shaped(table_)
  BY <1>1 DEF HistoryStarts, TableInOrder
<1>3. table_ \in [Phys -> Seq(Entry)] /\ Len(sequence) \in Nat
  BY InvFacts, LenProperties
<1>4. Keeps(initial_qubit_map_, C, table_)
  BY DEF ContentsKnown, Accounted, Account
<1>5. Follows(initial_qubit_map_, C, table_, sequence, 0, initial_qubit_map_)
  BY <1>2, <1>3, <1>4, FollowsBegins
<1>6. Len(sequence) - Len(block) = 0
  BY <1>1, <1>3
<1>7. Reached(C)'
  BY <1>1, <1>2, <1>5, <1>6 DEF Reached
<1>8. Accounted(C)'
  BY <1>1 DEF ContentsKnown, Accounted, Account
<1>9. \A i \in 1 .. Len(block') : SwapInRows(C, table_, block[i])'
  BY <1>1 DEF ContentsKnown, SwapInRows
<1> QED
  BY <1>7, <1>8, <1>9 DEF ContentsKnown

(* The gate converted is the next of the sequence.                         *)
LEMMA ConvertNext ==
  ASSUME IInv, TableIsASchedule, TableInOrder, SequenceInv, BlockIsRest, ConvertGate,
         NEW D, D = Len(sequence) - Len(block)
  PROVE  /\ table_ \in [Phys -> Seq(Entry)] /\ sequence \in Seq(Int)
         /\ D \in Nat /\ D + 1 \in 1 .. Len(sequence)
         /\ Len(sequence') - Len(block') = D + 1
         /\ 1 \in 1 .. Len(block) /\ block[1].gate \in Int /\ block[1].gate = sequence[D + 1]
         /\ Sequenced(table_, sequence)
<1>1. pc = "convert" /\ block # <<>> /\ block' = Tail(block) /\ UNCHANGED sequence
  BY DEF ConvertGate
<1>2. /\ 1 \in 1 .. Len(block) /\ block[1].gate \in Int
      /\ Len(block') = Len(block) - 1 /\ Len(block) \in Nat
  BY <1>1, BlockHead
<1>3. table_ \in [Phys -> Seq(Entry)] /\ sequence \in Seq(Int) /\ Len(sequence) \in Nat
  BY InvFacts, LenProperties
<1>4. Len(block) <= Len(sequence) /\ block[1].gate = sequence[D + 1]
  BY <1>1, <1>2 DEF BlockIsRest
<1>5. /\ D \in Nat /\ D + 1 \in 1 .. Len(sequence)
      /\ Len(sequence') - Len(block') = D + 1
  BY <1>1, <1>2, <1>3, <1>4
<1>6. Sequenced(table_, sequence)
  BY <1>1, SequenceOfTable
<1> QED
  BY <1>2, <1>3, <1>4, <1>5, <1>6

(* One gate converted.                                                     *)
LEMMA ConvertFollows ==
  ASSUME IInv, TableIsASchedule, TableInOrder, SequenceInv, BlockIsRest, ConvertGate,
         NEW C, ContentsKnown(C)
  PROVE  Reached(C)'
<1> DEFINE D == Len(sequence) - Len(block)
           m == initial_qubit_map_
<1>1. /\ pc = "convert" /\ block # <<>> /\ block' = Tail(block)
      /\ UNCHANGED <<initial_qubit_map_, table_, sequence>>
  BY DEF ConvertGate, blockVars, tableVars
<1>2. D = Len(sequence) - Len(block)
  OBVIOUS
<1>3. where \in QubitMap(Phys) /\ table_ \in [Phys -> Seq(Entry)] /\ sequence \in Seq(Int)
  BY InvFacts
<1>4. /\ D \in Nat /\ D + 1 \in 1 .. Len(sequence)
      /\ Len(sequence') - Len(block') = D + 1
      /\ 1 \in 1 .. Len(block) /\ block[1].gate \in Int
  BY <1>2, ConvertNext
<1>5. block[1].gate = sequence[D + 1]
  BY <1>2, ConvertNext
<1>6. Sequenced(table_, sequence)
  BY <1>1, SequenceOfTable
<1>7. Follows(m, C, table_, sequence, D, where) /\ Keeps(m, C, table_)
  BY <1>1 DEF ContentsKnown, Accounted, Account, Reached
<1>8. ASSUME Follows(m, C, table_, sequence, D + 1, where')
      PROVE  Reached(C)'
  BY <1>1, <1>4, <1>8 DEF Reached
<1> HIDE DEF D, m
<1>9. CASE block[1].gate < 0
  <2>1. SwapInRows(C, table_, block[1])
    BY <1>1, <1>4 DEF ContentsKnown
  <2>2. PICK x, y \in Phys : /\ block[1].qubits = <<<<"qid", x>>, <<"qid", y>>>>
                             /\ Exchanges(initial_qubit_map_, C, table_, block[1].gate, x, y)
    BY <1>9, <2>1 DEF SwapInRows
  <2>3. where' = Swap(where, x, y)
    BY <1>9, <2>2, ConvertSwap DEF ConvertsSwap
  <2>4. Exchanges(m, C, table_, sequence[D + 1], x, y)
    BY <1>5, <2>2 DEF m
  <2>5. Follows(m, C, table_, sequence, D + 1, Swap(where, x, y))
    BY <1>3, <1>4, <1>6, <1>7, <2>4, FollowsSwap
  <2> QED
    BY <1>8, <2>3, <2>5
<1>10. CASE ~(block[1].gate < 0)
  <2>1. where' = where
    <3>1. Head(block) = block[1]
      BY <1>1, BlockHead
    <3> QED
      BY <1>10, <3>1 DEF ConvertGate
  <2>2. sequence[D + 1] >= 0
    BY <1>4, <1>5, <1>10
  <2>3. Follows(m, C, table_, sequence, D + 1, where)
    BY <1>3, <1>4, <1>6, <1>7, <2>2, FollowsGate
  <2> QED
    BY <1>8, <2>1, <2>3
<1> QED
  BY <1>9, <1>10

LEMMA ConvertContents ==
  ASSUME IInv, TableIsASchedule, TableInOrder, SequenceInv, BlockIsRest, ConvertGate,
         NEW C, ContentsKnown(C)
  PROVE  ContentsKnown(C)'
<1>1. /\ pc = "convert" /\ block # <<>> /\ block' = Tail(block)
      /\ UNCHANGED <<initial_qubit_map_, table_, qubit_map_, gates, gate_index, operands, routing>>
  BY DEF ConvertGate, blockVars, tableVars, forwardVars
<1>2. /\ Len(block') = Len(block) - 1 /\ Len(block) \in Nat
      /\ \A i \in 1 .. Len(block) - 1 : block'[i] = block[i + 1]
  BY <1>1, BlockHead
<1>3. \A i \in 1 .. Len(block') : SwapInRows(C, table_, block[i])'
  <2> TAKE i \in 1 .. Len(block')
  <2>1. i \in 1 .. Len(block) - 1 /\ i + 1 \in 1 .. Len(block)
    BY <1>2
  <2>2. SwapInRows(C, table_, block[i + 1]) /\ block'[i] = block[i + 1]
    BY <1>1, <1>2, <2>1 DEF ContentsKnown
  <2> QED
    BY <1>1, <2>2 DEF SwapInRows
<1>4. Accounted(C)'
  BY <1>1 DEF ContentsKnown, Accounted
<1>5. Reached(C)'
  BY ConvertFollows
<1> QED
  BY <1>3, <1>4, <1>5 DEF ContentsKnown

LEMMA RewriteContents ==
  ASSUME IInv, TableIsASchedule, TableInOrder, SequenceInv, BlockIsRest, HistoryStarts,
         Rewrite, NEW C, ContentsKnown(C)
  PROVE  pc' = "idle" \/ ContentsKnown(C)'
<1>1. CASE SweepQubit
  <2>1. pc' = "sweep" /\ UNCHANGED <<blockVars, tableVars, forwardVars>>
    BY <1>1 DEF SweepQubit
  <2>2. Accounted(C)'
    BY <2>1 DEF ContentsKnown, Accounted, blockVars, tableVars, forwardVars
  <2> QED
    BY <2>1, <2>2 DEF ContentsKnown
<1>2. CASE SweepRound
  <2>1. /\ pc = "sweep" /\ UNCHANGED <<blockVars, tableVars, forwardVars>>
        /\ pc' = "sweep" \/ (pc' \in {"reorder", "gates lost"} /\ block' = <<>>)
    BY <1>2 DEF SweepRound
  <2>2. Accounted(C)'
    BY <2>1 DEF ContentsKnown, Accounted, blockVars, tableVars, forwardVars
  <2>3. pc' = "reorder" => \A i \in 1 .. Len(block') : SwapInRows(C, table_, block[i])'
    BY <2>1
  <2> QED
    BY <2>1, <2>2, <2>3 DEF ContentsKnown
<1>3. CASE ReorderGate
  BY <1>3, ReorderContents
<1>4. CASE ReorderDone
  BY <1>4, ReorderedContents
<1>5. CASE ConvertGate
  BY <1>5, ConvertContents
<1>6. CASE FinishQBB
  BY <1>6 DEF FinishQBB
<1> QED
  BY <1>1, <1>2, <1>3, <1>4, <1>5, <1>6 DEF Rewrite

-----------------------------------------------------------------------------
LEMMA StartContents ==
  ASSUME IInv, StartQBB
  PROVE  ContentsInv'
<1>1. /\ pc = "idle" /\ pc' = "populate" /\ gate_index' = 0
      /\ table_' = [x \in Phys |-> <<>>]
      /\ qubit_map_' = initial_qubit_map_' /\ routing' = routing
  BY DEF StartQBB
<1>2. routing = <<>>
  BY <1>1 DEF IInv, Bookkeeping
<1>3. PICK C \in Contents :
        Account(initial_qubit_map_', C, [x \in Phys |-> <<>>], initial_qubit_map_', gates', 0,
                operands', <<>>)
  BY AccountBegins
<1>4. Accounted(C)'
  BY <1>1, <1>2, <1>3 DEF Accounted
<1>5. ContentsKnown(C)'
  BY <1>1, <1>4 DEF ContentsKnown
<1> QED
  BY <1>5 DEF ContentsInv

LEMMA NextContents ==
  ASSUME ~CanonicalSchedule, IInv, IInv', RouteLeads, SwapsLinked, IntsSuffice,
         TableIsASchedule, TableInOrder, SequenceInv, BlockIsRest, HistoryStarts,
         ContentsInv, [Next]_vars
  PROVE  ContentsInv'
<1>1. CASE StartQBB
  BY <1>1, StartContents
<1>2. ASSUME NEW xs \in Seq(Phys), GatePlaced(xs)
      PROVE  ContentsInv'
  <2>1. /\ pc # "idle" /\ pc' = "populate" /\ gate_index' = gate_index + 1
        /\ UNCHANGED <<gates, initial_qubit_map_, routing, qubit_map_>>
    BY <1>2 DEF GatePlaced, GateEntered, placeGate
  <2>2. PICK C \in Contents : Accounted(C)
    BY <2>1 DEF ContentsInv, ContentsKnown
  <2>3. Len(gates) <= IsIdle
    BY DEF IntsSuffice
  <2>4. PICK D \in Contents :
          Account(initial_qubit_map_, D, table_', qubit_map_, gates, gate_index + 1, operands',
                  routing)
    BY <1>2, <2>2, <2>3, GateAccount DEF Accounted
  <2>5. Accounted(D)'
    BY <2>1, <2>4 DEF Accounted
  <2>6. ContentsKnown(D)'
    BY <2>1, <2>5 DEF ContentsKnown
  <2> QED
    BY <2>6 DEF ContentsInv
<1>3. ASSUME NEW s \in Pair, SwapMade(s)
      PROVE  ContentsInv'
  <2>1. /\ pc \in {"route", "undo"} /\ pc' = pc
        /\ UNCHANGED <<gates, initial_qubit_map_, gate_index, operands>>
    BY <1>3 DEF SwapMade, SwapEntered
  <2>2. PICK C \in Contents : Accounted(C)
    BY <2>1 DEF ContentsInv, ContentsKnown
  <2>3. gate_index <= IsIdle
    <3>1. gate_index \in 0 .. Len(gates)
      BY DEF IInv, TypeOK
    <3>2. Len(gates) <= IsIdle /\ gate_index <= Len(gates)
      BY <3>1 DEF IntsSuffice
    <3>3. Len(gates) \in Nat
      BY <3>1, LengthIsNat DEF IInv
    <3> QED
      BY <3>1, <3>2, <3>3 DEF IsIdle
  <2>4. PICK D \in Contents :
          Account(initial_qubit_map_, D, table_', qubit_map_', gates, gate_index, operands,
                  routing')
    BY <1>3, <2>2, <2>3, SwapAccount DEF Accounted
  <2>5. Accounted(D)'
    BY <2>1, <2>4 DEF Accounted
  <2>6. ContentsKnown(D)'
    BY <2>1, <2>5 DEF ContentsKnown
  <2> QED
    BY <2>6 DEF ContentsInv
<1>4. CASE ListsWorked
  <2>1. /\ UNCHANGED <<gates, initial_qubit_map_, qubit_map_, table_, gate_index, operands,
                       routing, block, where>>
        /\ \/ pc' = pc /\ UNCHANGED sequence
           \/ /\ pc \notin {"idle", "reorder", "convert"}
              /\ pc' \notin {"idle", "reorder", "convert"}
    BY <1>4 DEF ListsWorked
  <2>2. CASE pc' = "idle"
    BY <2>2 DEF ContentsInv
  <2>3. CASE pc' # "idle"
    <3>1. PICK C \in Contents : ContentsKnown(C)
      BY <2>1, <2>3 DEF ContentsInv
    <3>2. Accounted(C)'
      BY <2>1, <3>1 DEF ContentsKnown, Accounted
    <3>3. ContentsKnown(C)'
      BY <2>1, <3>1, <3>2 DEF ContentsKnown, SwapInRows, Reached
    <3> QED
      BY <3>3 DEF ContentsInv
  <2> QED
    BY <2>2, <2>3
<1>5. CASE Rewrite
  <2>1. pc # "idle"
    BY <1>5, RewriteKeeps DEF OutputWorked
  <2>2. PICK C \in Contents : ContentsKnown(C)
    BY <2>1 DEF ContentsInv
  <2>3. pc' = "idle" \/ ContentsKnown(C)'
    BY <1>5, <2>2, RewriteContents
  <2> QED
    BY <2>3 DEF ContentsInv
<1> QED
  BY <1>1, <1>2, <1>3, <1>4, <1>5, CircuitSteps

-----------------------------------------------------------------------------
(* All of it.                                                              *)

RunInv ==
  /\ TableInOrder
  /\ KinInv
  /\ HistoryStarts
  /\ FinalIsReached
  /\ BlockIsRest
  /\ ContentsInv

LEMMA NextRun ==
  ASSUME ~CanonicalSchedule, IInv, IInv', RouteLeads, SwapsLinked, MInv, IntsSuffice,
         TableIsASchedule, SequenceInv, RunInv, [Next]_vars
  PROVE  RunInv'
<1>1. TableInOrder'
  BY NextInOrder DEF RunInv
<1>2. KinInv'
  BY NextKin DEF RunInv
<1>3. HistoryStarts'
  BY NextStarts DEF RunInv
<1>4. FinalIsReached'
  BY NextFinal DEF RunInv
<1>5. BlockIsRest'
  BY NextBlockIsRest DEF RunInv
<1>6. ContentsInv'
  BY NextContents DEF RunInv
<1> QED
  BY <1>1, <1>2, <1>3, <1>4, <1>5, <1>6 DEF RunInv

LEMMA RunHolds ==
  ASSUME ~CanonicalSchedule, PathIsLinked
  PROVE  Spec /\ []IntsSuffice => []RunInv
<1>1. Init => RunInv
  <2> SUFFICES ASSUME Init
               PROVE  RunInv
    OBVIOUS
  <2>1. pc = "idle" /\ qubit_map_ = initial_qubit_map_ /\ where = initial_qubit_map_
    BY DEF Init
  <2> QED
    BY <2>1, KinSelf DEF RunInv, TableInOrder, KinInv, HistoryStarts, FinalIsReached,
                         BlockIsRest, ContentsInv
<1>2. IInv /\ IInv' /\ RouteLeads /\ FitInv /\ MInv /\ IntsSuffice /\ TableIsASchedule
        /\ SequenceInv /\ RunInv /\ [Next]_vars => RunInv'
  BY NextRun DEF FitInv
<1>3. Spec => []IInv
  BY InvHolds
<1>4. Spec => []MInv
  BY MeasureHolds
<1>5. Spec => []FitInv
  BY FitHolds
<1> QED
  BY <1>1, <1>2, <1>3, <1>4, <1>5, RouteHolds, TableStaysSchedule, SequenceHolds, PTL DEF Spec

(* Once the block is converted its qubits are where the compiler recorded. *)
LEMMA FinalByInvariants ==
  ASSUME IInv, SequenceInv, RunInv
  PROVE  FinalMapReached
<1> SUFFICES ASSUME pc = "convert", block = <<>>
             PROVE  where = final_qubit_map
  BY DEF FinalMapReached
<1>1. PICK C \in Contents : ContentsKnown(C)
  BY DEF RunInv, ContentsInv
<1>2. table_ \in [Phys -> Seq(Entry)] /\ Len(sequence) \in Nat
  BY InvFacts, LenProperties
<1>3. Len(sequence) - Len(block) = Len(sequence)
  BY <1>2
<1>4. Follows(initial_qubit_map_, C, table_, sequence, Len(sequence), where)
  BY <1>1, <1>3 DEF ContentsKnown, Reached
<1>5. LeadsTo(initial_qubit_map_, C, table_, qubit_map_)
  BY <1>1 DEF ContentsKnown, Accounted, Account
<1>6. Covers(table_, sequence)
  BY DEF SequenceInv, Covers
<1>7. \A x \in Phys : where.phys[x] = qubit_map_.phys[x]
  BY <1>2, <1>4, <1>5, <1>6, FollowsEnds
<1>8. where = qubit_map_
  BY <1>7, InvFacts, KinEqual DEF RunInv, KinInv
<1> QED
  BY <1>8 DEF RunInv, FinalIsReached

(* Once the hardware has run the rewritten block, its qubits are where the *)
(* compiler recorded, whatever was scheduled and in which order the swaps  *)
(* were emitted: the placement stored back into the qubit arrays is the    *)
(* one the hardware has.                                                   *)
THEOREM FinalMapIsReached ==
  ASSUME ~CanonicalSchedule, PathIsLinked
  PROVE  Spec /\ []IntsSuffice => []FinalMapReached
<1>1. IInv /\ SequenceInv /\ RunInv => FinalMapReached
  BY FinalByInvariants
<1>2. Spec /\ []IntsSuffice => []RunInv
  BY RunHolds
<1> QED
  BY <1>1, <1>2, InvHolds, SequenceHolds, PTL

-----------------------------------------------------------------------------
LEMMA OperandsByInvariants ==
  ASSUME IInv, RunInv
  PROVE  OperandsConvertToTable
<1> SUFFICES ASSUME pc = "reorder", NEW g \in 0 .. Len(gates) - 1
             PROVE  {QIDOf(operands[g + 1][i]) : i \in 1 .. Len(operands[g + 1])}
                      = {x \in Phys : \E i \in 1 .. Len(table_[x]) : table_[x][i].gate = g}
  BY DEF OperandsConvertToTable
<1>1. PICK C \in Contents : ContentsKnown(C)
  BY DEF RunInv, ContentsInv
<1>2. gate_index = Len(gates)
  BY DEF IInv, Bookkeeping
<1>3. GateAccounted(initial_qubit_map_, C, table_, gates, operands, g)
  BY <1>1, <1>2 DEF ContentsKnown, Accounted, Account
<1>4. PICK xs \in Seq(Phys) :
        /\ operands[g + 1] = Qids(xs)
        /\ ActsOn(initial_qubit_map_, C, table_, g, xs, gates[g + 1].qubits)
  BY <1>3 DEF GateAccounted
<1>5. \A k \in 1 .. Len(xs) : xs[k] \in Phys
  BY ElementOfSeq
<1>6. /\ Len(operands[g + 1]) = Len(xs)
      /\ \A k \in 1 .. Len(xs) : QIDOf(operands[g + 1][k]) = xs[k]
  <2>1. Len(Qids(xs)) = Len(xs) /\ \A k \in 1 .. Len(xs) : Qids(xs)[k] = <<"qid", xs[k]>>
    BY QidsIsSeq
  <2> QED
    BY <1>4, <2>1 DEF QIDOf
<1>7. {QIDOf(operands[g + 1][i]) : i \in 1 .. Len(operands[g + 1])} = Sites(xs)
  BY <1>6 DEF Sites
<1>8. \A k \in 1 .. Len(xs) : \E i \in 1 .. Len(table_[xs[k]]) : table_[xs[k]][i].gate = g
  BY <1>4 DEF ActsOn
<1>9. \A x \in Phys : \A i \in 1 .. Len(table_[x]) : table_[x][i].gate = g => x \in Sites(xs)
  BY <1>4 DEF ActsOn, OnlyOn
<1>10. Sites(xs) = {x \in Phys : \E i \in 1 .. Len(table_[x]) : table_[x][i].gate = g}
  BY <1>5, <1>8, <1>9 DEF Sites
<1> QED
  BY <1>7, <1>10

(* The operands written back for a gate that is not canonical convert to   *)
(* the physical qubits the table has the gate on, no more and no fewer:    *)
(* what goes wrong for canonical gates is a matter of these alone.         *)
THEOREM OperandsAreOnTheirRows ==
  ASSUME ~CanonicalSchedule, PathIsLinked
  PROVE  Spec /\ []IntsSuffice => []OperandsConvertToTable
<1>1. IInv /\ RunInv => OperandsConvertToTable
  BY OperandsByInvariants
<1>2. Spec /\ []IntsSuffice => []RunInv
  BY RunHolds
<1> QED
  BY <1>1, <1>2, InvHolds, PTL

-----------------------------------------------------------------------------
(* The gates the hardware has executed.                                    *)

Ran == [gate : Int, qubits : Seq(Qubits \cup {Free})]

HistoryKept ==
  /\ executed \in Seq(Ran)
  /\ pc = "convert" =>
       \A g \in 0 .. Len(gates) - 1 :
         Logical!Executed(g) <=> Done(sequence, Len(sequence) - Len(block), g)
  /\ pc = "idle" => \A g \in 0 .. Len(gates) - 1 : Logical!Executed(g)

(* A gate of the block, and where the table has it.                        *)
LEMMA GateNamed ==
  ASSUME IInv, NEW g \in 0 .. Len(gates) - 1
  PROVE  /\ g \in Nat /\ Len(gates) \in Nat
         /\ gates[g + 1].qubits \in Seq(Qubits) /\ Len(gates[g + 1].qubits) \in Nat \ {0}
         /\ 1 \in 1 .. Len(gates[g + 1].qubits)
<1>1. gates \in Programs
  BY DEF IInv, TypeOK
<1>2. gates \in Seq([kind : STRING, qubits : Seq(Qubits)]) /\ Len(gates) \in Nat
  BY <1>1, BlockShape, LenProperties
<1>3. g + 1 \in 1 .. Len(gates) /\ g \in Nat
  BY <1>2
<1>4. gates[g + 1] \in [kind : STRING, qubits : Seq(Qubits)]
  BY <1>2, <1>3, ElementOfSeq
<1>5. Len(gates[g + 1].qubits) > 0
  BY <1>1, <1>3, BlockShape
<1>6. Len(gates[g + 1].qubits) \in Nat
  BY <1>4, LenProperties
<1> QED
  BY <1>2, <1>3, <1>4, <1>5, <1>6

LEMMA GateInRows ==
  ASSUME IInv, IntsSuffice, pc = "convert", NEW C, ContentsKnown(C),
         NEW g \in 0 .. Len(gates) - 1
  PROVE  /\ g # IsIdle /\ GateAccounted(initial_qubit_map_, C, table_, gates, operands, g)
         /\ \E x \in Phys : \E i \in 1 .. Len(table_[x]) : table_[x][i].gate = g
<1>1. g \in Nat /\ Len(gates) \in Nat /\ 1 \in 1 .. Len(gates[g + 1].qubits)
  BY GateNamed
<1>2. g # IsIdle
  BY <1>1 DEF IntsSuffice, IsIdle
<1>3. gate_index = Len(gates)
  BY DEF IInv, Bookkeeping
<1>4. GateAccounted(initial_qubit_map_, C, table_, gates, operands, g)
  BY <1>3 DEF ContentsKnown, Accounted, Account
<1>5. PICK xs \in Seq(Phys) :
        /\ Len(xs) = Len(gates[g + 1].qubits)
        /\ ActsOn(initial_qubit_map_, C, table_, g, xs, gates[g + 1].qubits)
  BY <1>4 DEF GateAccounted
<1>6. 1 \in 1 .. Len(xs)
  BY <1>1, <1>5
<1>7. xs[1] \in Phys
  BY <1>6, ElementOfSeq
<1>8. \E i \in 1 .. Len(table_[xs[1]]) : table_[xs[1]][i].gate = g
  BY <1>5, <1>6 DEF ActsOn
<1> QED
  BY <1>2, <1>4, <1>7, <1>8

(* The gates a gate depends on come before it in the sequence.             *)
LEMMA EarlierDone ==
  ASSUME NEW T \in [Phys -> Seq(Entry)], NEW s \in Seq(Int), Sequenced(T, s),
         NEW D \in Nat, D + 1 \in 1 .. Len(s), NEW h, NEW g, h # g, g = s[D + 1],
         Precedes(T, h, g), h # IsIdle,
         NEW x \in Phys, NEW i \in 1 .. Len(T[x]), T[x][i].gate = h,
         NEW y \in Phys, NEW j \in 1 .. Len(T[y]), T[y][j].gate = g
  PROVE  Done(s, D, h)
<1>1. Len(s) \in Nat /\ Len(T[x]) \in Nat /\ Len(T[y]) \in Nat
  BY LenProperties
<1>2. PICK k \in 1 .. Len(s) : s[k] = h
  BY DEF Sequenced, Covers, InSeq
<1>3. T[x][i].end <= StartIn(T[y], j)
  BY DEF Precedes
<1>4. StartIn(T[x], i) < T[x][i].end
  BY RowsTakeTime DEF Sequenced
<1>5. StartIn(T[x], i) \in Nat /\ T[x][i].end \in Nat /\ StartIn(T[y], j) \in Nat
  <2>1. i \in 1 .. Len(T[x]) + 1 /\ j \in 1 .. Len(T[y]) + 1
    BY <1>1
  <2> QED
    BY <2>1, StartIsNat, EndIsNat
<1>6. CASE k > D + 1
  <2>1. D + 1 \in 1 .. k - 1
    BY <1>1, <1>6
  <2>2. StartsBefore(T, s[D + 1], s[k])
    BY <2>1 DEF Sequenced, InOrder
  <2>3. StartIn(T[y], j) <= StartIn(T[x], i)
    BY <1>2, <2>2 DEF StartsBefore
  <2> QED
    BY <1>3, <1>4, <1>5, <2>3
<1>7. CASE k = D + 1
  BY <1>2, <1>7
<1>8. CASE k < D + 1
  <2>1. k \in 1 .. D
    BY <1>8
  <2> QED
    BY <1>2, <2>1 DEF Done
<1> QED
  BY <1>1, <1>6, <1>7, <1>8

(* What converting a gate of the program runs.                             *)
LEMMA ConvertRuns ==
  ASSUME IInv, MInv, IntsSuffice, TableIsASchedule, TableInOrder, SequenceInv, BlockIsRest,
         ConvertGate, block[1].gate >= 0, NEW C, ContentsKnown(C)
  PROVE  /\ block[1].gate \in 0 .. Len(gates) - 1
         /\ executed' = Append(executed, [gate   |-> block[1].gate,
                                          qubits |-> gates[block[1].gate + 1].qubits])
<1> DEFINE g == block[1].gate
           D == Len(sequence) - Len(block)
           m == initial_qubit_map_
<1>1. pc = "convert"
  BY DEF ConvertGate
<1>2. /\ table_ \in [Phys -> Seq(Entry)] /\ sequence \in Seq(Int)
      /\ D \in Nat /\ D + 1 \in 1 .. Len(sequence)
      /\ 1 \in 1 .. Len(block) /\ g \in Int /\ g = sequence[D + 1]
      /\ Sequenced(table_, sequence)
  BY ConvertNext
<1>3. g \in 0 .. Len(gates) - 1 /\ block[1].qubits = operands[g + 1]
  <2>1. gate_index = Len(gates)
    BY <1>1 DEF IInv, Bookkeeping
  <2>2. g < gate_index /\ block[1].qubits = operands[g + 1]
    BY <1>1, <1>2 DEF MInv, BlockOnce
  <2>3. gate_index \in Nat
    BY InvFacts
  <2> QED
    BY <1>2, <2>1, <2>2, <2>3
<1>4. GateAccounted(m, C, table_, gates, operands, g)
  BY <1>1, <1>3, GateInRows
<1>5. PICK ys \in Seq(Phys) :
        /\ operands[g + 1] = Qids(ys) /\ Len(ys) = Len(gates[g + 1].qubits)
        /\ ActsOn(m, C, table_, g, ys, gates[g + 1].qubits)
  BY <1>4 DEF GateAccounted
<1>6. executed' = Append(executed, [gate   |-> g,
                                    qubits |-> [k \in 1 .. Len(ys) |-> where.phys[ys[k]]]])
  <2>1. block[1].qubits = Qids(ys)
    BY <1>3, <1>5
  <2> QED
    BY <2>1, ConvertOperands DEF ConvertsGate
<1>7. Follows(m, C, table_, sequence, D, where)
  BY <1>1 DEF ContentsKnown, Reached
<1>8. gates[g + 1].qubits \in Seq(Qubits)
  BY <1>3, GateNamed
<1>9. \A k \in 1 .. Len(ys) : where.phys[ys[k]] = gates[g + 1].qubits[k]
  <2> DEFINE qs == gates[g + 1].qubits
  <2>1. ActsOn(m, C, table_, g, ys, qs)
    BY <1>5
  <2> HIDE DEF g, D, m, qs
  <2>2. FoundOn(where, ys, qs)
    BY <1>2, <1>7, <2>1, FollowedGate
  <2> QED
    BY <2>2 DEF FoundOn, qs
<1>10. [k \in 1 .. Len(ys) |-> where.phys[ys[k]]] = gates[g + 1].qubits
  <2> HIDE DEF g
  <2>1. gates[g + 1].qubits = [k \in 1 .. Len(ys) |-> gates[g + 1].qubits[k]]
    BY <1>5, <1>8
  <2> QED
    BY <1>9, <2>1
<1> QED
  BY <1>3, <1>6, <1>10

(* It is a step the source allows.                                         *)
LEMMA ConvertExecutes ==
  ASSUME IInv, MInv, IntsSuffice, TableIsASchedule, SequenceInv, RunInv, HistoryKept,
         ConvertGate, block[1].gate >= 0
  PROVE  Logical!Next
<1> DEFINE g == block[1].gate
           D == Len(sequence) - Len(block)
<1>1. pc = "convert" /\ UNCHANGED gates
  BY DEF ConvertGate, blockVars
<1>2. TableInOrder /\ BlockIsRest
  BY DEF RunInv
<1>3. PICK C \in Contents : ContentsKnown(C)
  BY <1>1 DEF RunInv, ContentsInv
<1>4. /\ g \in 0 .. Len(gates) - 1
      /\ executed' = Append(executed, [gate |-> g, qubits |-> gates[g + 1].qubits])
  BY <1>2, <1>3, ConvertRuns
<1>5. /\ table_ \in [Phys -> Seq(Entry)] /\ sequence \in Seq(Int)
      /\ D \in Nat /\ D + 1 \in 1 .. Len(sequence) /\ g = sequence[D + 1]
      /\ Sequenced(table_, sequence)
  BY <1>2, ConvertNext
<1>6. \A h \in 0 .. Len(gates) - 1 : Logical!Executed(h) <=> Done(sequence, D, h)
  BY <1>1 DEF HistoryKept
<1> HIDE DEF g, D
<1>7. ~Logical!Executed(g)
  <2> SUFFICES ASSUME NEW k \in 1 .. D, sequence[k] = g
               PROVE  FALSE
    BY <1>4, <1>6 DEF Done
  <2>1. k \in 1 .. (D + 1) - 1
    BY <1>5
  <2> QED
    BY <1>5, <2>1 DEF Sequenced, InOrder
<1>8. ASSUME NEW h \in 0 .. g - 1,
             Logical!QubitsOf(gates, h) \cap Logical!QubitsOf(gates, g) # {}
      PROVE  Logical!Executed(h)
  <2>1. h \in 0 .. Len(gates) - 1 /\ h # g /\ Len(gates) \in Nat /\ g \in Nat
    BY <1>4, GateNamed
  <2>2. Sharing(gates, h, g)
    BY <1>8 DEF Logical!QubitsOf, Sharing
  <2>3. gate_index = Len(gates)
    BY <1>1 DEF IInv, Bookkeeping
  <2>4. Precedes(table_, h, g)
    BY <1>1, <1>2, <1>4, <2>2, <2>3 DEF TableInOrder, Ordered
  <2>5. PICK x \in Phys : \E i \in 1 .. Len(table_[x]) : table_[x][i].gate = h
    BY <1>1, <1>3, <2>1, GateInRows
  <2>6. PICK i \in 1 .. Len(table_[x]) : table_[x][i].gate = h
    BY <2>5
  <2>7. PICK y \in Phys : \E j \in 1 .. Len(table_[y]) : table_[y][j].gate = g
    BY <1>1, <1>3, <1>4, GateInRows
  <2>8. PICK j \in 1 .. Len(table_[y]) : table_[y][j].gate = g
    BY <2>7
  <2>9. h # IsIdle
    BY <1>1, <1>3, <2>1, GateInRows
  <2>10. Done(sequence, D, h)
    BY <1>5, <2>1, <2>4, <2>6, <2>8, <2>9, EarlierDone
  <2> QED
    BY <1>6, <2>1, <2>10
<1>9. Logical!Execute(g)
  BY <1>1, <1>4, <1>7, <1>8 DEF Logical!Execute
<1> QED
  BY <1>4, <1>9 DEF Logical!Next

LEMMA NextLogical ==
  ASSUME IInv, MInv, IntsSuffice, RouteLeads, SwapsLinked, TableIsASchedule, SequenceInv,
         RunInv, HistoryKept, [Next]_vars
  PROVE  [Logical!Next]_(Logical!vars)
<1>1. CASE StartQBB
  <2>1. pc = "idle" /\ gates' \in Programs /\ executed' = <<>>
    BY <1>1 DEF StartQBB
  <2>2. Logical!Start
    BY <2>1 DEF HistoryKept, Logical!Start
  <2> QED
    BY <2>2 DEF Logical!Next
<1>2. CASE UNCHANGED <<gates, executed>>
  BY <1>2 DEF Logical!vars
<1>3. ASSUME NEW xs \in Seq(Phys), GatePlaced(xs)
      PROVE  UNCHANGED <<gates, executed>>
  BY <1>3 DEF GatePlaced, GateEntered
<1>4. ASSUME NEW s \in Pair, SwapMade(s)
      PROVE  UNCHANGED <<gates, executed>>
  BY <1>4 DEF SwapMade, SwapEntered
<1>5. CASE ListsWorked
  BY <1>2, <1>5 DEF ListsWorked
<1>6. CASE Rewrite
  <2>1. UNCHANGED gates
    BY <1>6, RewriteKeeps DEF OutputWorked
  <2>2. CASE ConvertGate
    <3>1. block # <<>>
      BY <2>2 DEF ConvertGate
    <3>2. Head(block) = block[1] /\ block[1].gate \in Int
      BY <3>1, BlockHead
    <3>3. CASE block[1].gate >= 0
      BY <2>2, <3>3, ConvertExecutes
    <3>4. CASE block[1].gate < 0
      <4>1. UNCHANGED executed
        BY <2>2, <3>2, <3>4 DEF ConvertGate
      <4> QED
        BY <1>2, <2>1, <4>1
    <3> QED
      BY <3>2, <3>3, <3>4
  <2> QED
    BY <1>2, <1>6, <2>1, <2>2, RewriteHistory
<1> QED
  BY <1>1, <1>2, <1>3, <1>4, <1>5, <1>6, CircuitSteps

-----------------------------------------------------------------------------
LEMMA ConvertHistory ==
  ASSUME IInv, MInv, IntsSuffice, TableIsASchedule, SequenceInv, RunInv, HistoryKept,
         ConvertGate
  PROVE  HistoryKept'
<1> DEFINE g == block[1].gate
           D == Len(sequence) - Len(block)
<1>1. pc = "convert" /\ pc' = pc /\ UNCHANGED <<gates, sequence>> /\ block # <<>>
  BY DEF ConvertGate, blockVars
<1>2. TableInOrder /\ BlockIsRest
  BY DEF RunInv
<1>3. PICK C \in Contents : ContentsKnown(C)
  BY <1>1 DEF RunInv, ContentsInv
<1>4. /\ table_ \in [Phys -> Seq(Entry)] /\ sequence \in Seq(Int)
      /\ D \in Nat /\ D + 1 \in 1 .. Len(sequence) /\ g = sequence[D + 1] /\ g \in Int
      /\ Len(sequence') - Len(block') = D + 1
  BY <1>2, ConvertNext
<1>5. \A h \in 0 .. Len(gates) - 1 : Logical!Executed(h) <=> Done(sequence, D, h)
  BY <1>1 DEF HistoryKept
<1>6. executed \in Seq(Ran)
  BY DEF HistoryKept
<1>7. CASE g >= 0
  <2> DEFINE e == [gate |-> g, qubits |-> gates[g + 1].qubits]
  <2>1. g \in 0 .. Len(gates) - 1 /\ executed' = Append(executed, e)
    BY <1>2, <1>3, <1>7, ConvertRuns
  <2>2. e \in Ran
    <3>1. gates[g + 1].qubits \in Seq(Qubits)
      BY <2>1, GateNamed
    <3>2. gates[g + 1].qubits \in Seq(Qubits \cup {Free})
      BY <3>1
    <3> QED
      BY <1>4, <3>2 DEF Ran
  <2>3. e.gate = g
    OBVIOUS
  <2> HIDE DEF e, g, D
  <2>4. /\ executed' \in Seq(Ran) /\ Len(executed') = Len(executed) + 1
        /\ \A i \in 1 .. Len(executed) : executed'[i] = executed[i]
        /\ executed'[Len(executed) + 1] = e
    BY <1>6, <2>1, <2>2, AppendProperties
  <2>5. Len(executed) \in Nat
    BY <1>6, LenProperties
  <2>6. ASSUME NEW h \in 0 .. Len(gates) - 1
        PROVE  Logical!Executed(h)' <=> Logical!Executed(h) \/ h = g
    <3>1. \A i \in 1 .. Len(executed') : i \in 1 .. Len(executed) \/ i = Len(executed) + 1
      BY <2>4, <2>5
    <3>2. Len(executed) + 1 \in 1 .. Len(executed')
          /\ \A i \in 1 .. Len(executed) : i \in 1 .. Len(executed')
      BY <2>4, <2>5
    <3> QED
      BY <2>3, <2>4, <3>1, <3>2 DEF Logical!Executed
  <2>7. ASSUME NEW h \in 0 .. Len(gates) - 1
        PROVE  Logical!Executed(h)' <=> Done(sequence, D + 1, h)
    <3>1. Done(sequence, D + 1, h) <=> Done(sequence, D, h) \/ h = sequence[D + 1]
      BY <1>4, DoneNext
    <3> QED
      BY <1>4, <1>5, <2>6, <3>1
  <2>8. ASSUME NEW h \in 0 .. Len(gates') - 1
        PROVE  Logical!Executed(h)' <=> Done(sequence', Len(sequence') - Len(block'), h)
    BY <1>1, <1>4, <2>7
  <2> QED
    BY <1>1, <2>4, <2>8 DEF HistoryKept
<1>8. CASE ~(g >= 0)
  <2>1. UNCHANGED executed
    <3>1. Head(block) = block[1] /\ g < 0
      BY <1>1, <1>4, <1>8, BlockHead
    <3> QED
      BY <3>1 DEF ConvertGate
  <2> HIDE DEF g, D
  <2>2. ASSUME NEW h \in 0 .. Len(gates) - 1
        PROVE  Logical!Executed(h)' <=> Done(sequence, D + 1, h)
    <3>1. Done(sequence, D + 1, h) <=> Done(sequence, D, h) \/ h = sequence[D + 1]
      BY <1>4, DoneNext
    <3>2. h >= 0 /\ h # g
      BY <1>8
    <3>3. Logical!Executed(h)' <=> Logical!Executed(h)
      BY <2>1 DEF Logical!Executed
    <3> QED
      BY <1>4, <1>5, <3>1, <3>2, <3>3
  <2>3. ASSUME NEW h \in 0 .. Len(gates') - 1
        PROVE  Logical!Executed(h)' <=> Done(sequence', Len(sequence') - Len(block'), h)
    BY <1>1, <1>4, <2>2
  <2> QED
    BY <1>1, <1>6, <2>1, <2>3 DEF HistoryKept
<1> QED
  BY <1>7, <1>8

LEMMA FinishHistory ==
  ASSUME IInv, IntsSuffice, SequenceInv, RunInv, HistoryKept, FinishQBB
  PROVE  HistoryKept'
<1>1. /\ pc = "convert" /\ pc' = "idle" /\ block = <<>> /\ UNCHANGED <<gates, executed>>
  BY DEF FinishQBB, blockVars, histVars
<1>2. PICK C \in Contents : ContentsKnown(C)
  BY <1>1 DEF RunInv, ContentsInv
<1>3. Len(sequence) - Len(block) = Len(sequence)
  BY <1>1, InvFacts, LenProperties
<1>4. ASSUME NEW g \in 0 .. Len(gates) - 1
      PROVE  Logical!Executed(g)
  <2>1. PICK x \in Phys : \E i \in 1 .. Len(table_[x]) : table_[x][i].gate = g
    BY <1>1, <1>2, GateInRows
  <2>2. g # IsIdle
    BY <1>1, <1>2, GateInRows
  <2>3. InSeq(sequence, g)
    BY <1>1, <2>1, <2>2 DEF SequenceInv
  <2>4. Done(sequence, Len(sequence) - Len(block), g)
    BY <1>3, <2>3 DEF InSeq, Done
  <2> QED
    BY <1>1, <2>4 DEF HistoryKept
<1> QED
  BY <1>1, <1>4 DEF HistoryKept, Logical!Executed

LEMMA NextHistory ==
  ASSUME IInv, MInv, IntsSuffice, RouteLeads, SwapsLinked, TableIsASchedule, SequenceInv,
         RunInv, HistoryKept, [Next]_vars
  PROVE  HistoryKept'
<1>1. CASE StartQBB
  <2>1. pc' = "populate" /\ executed' = <<>>
    BY <1>1 DEF StartQBB
  <2> QED
    BY <2>1 DEF HistoryKept
<1>2. CASE UNCHANGED executed /\ pc' \notin {"idle", "convert"}
  BY <1>2 DEF HistoryKept
<1>3. ASSUME NEW xs \in Seq(Phys), GatePlaced(xs)
      PROVE  HistoryKept'
  BY <1>2, <1>3 DEF GatePlaced, GateEntered
<1>4. ASSUME NEW s \in Pair, SwapMade(s)
      PROVE  HistoryKept'
  BY <1>2, <1>4 DEF SwapMade, SwapEntered
<1>5. CASE ListsWorked
  <2>1. UNCHANGED <<gates, block, executed>>
    BY <1>5 DEF ListsWorked
  <2>2. (pc' = pc /\ UNCHANGED sequence) \/ pc' \notin {"idle", "convert"}
    BY <1>5 DEF ListsWorked
  <2> QED
    BY <1>2, <2>1, <2>2 DEF HistoryKept, Logical!Executed
<1>6. CASE ConvertGate
  BY <1>6, ConvertHistory
<1>7. CASE FinishQBB
  BY <1>7, FinishHistory
<1>8. CASE ReorderDone
  <2>1. /\ pc = "reorder" /\ pc' = "convert" /\ Len(block) = Len(sequence)
        /\ UNCHANGED <<gates, block, sequence, executed>>
    BY <1>8 DEF ReorderDone, blockVars, outputVars, histVars
  <2>2. executed = <<>>
    BY <2>1 DEF RunInv, HistoryStarts
  <2>3. Len(sequence') - Len(block') = 0
    BY <2>1, InvFacts, LenProperties
  <2>4. \A g : ~Logical!Executed(g)' /\ ~Done(sequence', 0, g)
    BY <2>1, <2>2 DEF Logical!Executed, Done
  <2> QED
    BY <2>1, <2>2, <2>3, <2>4 DEF HistoryKept
<1>9. CASE SweepQubit \/ SweepRound \/ ReorderGate
  BY <1>2, <1>9 DEF SweepQubit, SweepRound, ReorderGate, histVars
<1> QED
  BY <1>1, <1>3, <1>4, <1>5, <1>6, <1>7, <1>8, <1>9, CircuitSteps DEF Rewrite

LEMMA HistoryHolds ==
  ASSUME ~CanonicalSchedule, PathIsLinked
  PROVE  Spec /\ []IntsSuffice => []HistoryKept
<1>1. Init => HistoryKept
  <2> SUFFICES ASSUME Init
               PROVE  HistoryKept
    OBVIOUS
  <2>1. pc = "idle" /\ gates = <<>> /\ executed = <<>>
    BY DEF Init
  <2> QED
    BY <2>1 DEF HistoryKept
<1>2. IInv /\ RouteLeads /\ FitInv /\ MInv /\ IntsSuffice /\ TableIsASchedule /\ SequenceInv
        /\ RunInv /\ HistoryKept /\ [Next]_vars => HistoryKept'
  BY NextHistory DEF FitInv
<1>3. Spec => []MInv
  BY MeasureHolds
<1>4. Spec => []FitInv
  BY FitHolds
<1>5. Spec /\ []IntsSuffice => []RunInv
  BY RunHolds
<1> QED
  BY <1>1, <1>2, <1>3, <1>4, <1>5, InvHolds, RouteHolds, TableStaysSchedule, SequenceHolds, PTL
     DEF Spec

(* What the hardware executes is the block of the source: every gate once, *)
(* on the program qubits it names wherever the swaps have taken them, and  *)
(* never before an earlier gate it shares a qubit with; and no block is    *)
(* started before the last gate of the one before.  The pass implements    *)
(* the abstract specification.                                             *)
THEOREM BlockOfTheSource ==
  ASSUME ~CanonicalSchedule, PathIsLinked
  PROVE  Spec /\ []IntsSuffice => ImplementsLogicalCircuit
<1>1. Init => Logical!Init
  BY DEF Init, Logical!Init
<1>2. IInv /\ RouteLeads /\ FitInv /\ MInv /\ IntsSuffice /\ TableIsASchedule /\ SequenceInv
        /\ RunInv /\ HistoryKept /\ [Next]_vars => [Logical!Next]_(Logical!vars)
  BY NextLogical DEF FitInv
<1>3. Spec => []MInv
  BY MeasureHolds
<1>4. Spec => []FitInv
  BY FitHolds
<1>5. Spec /\ []IntsSuffice => []RunInv
  BY RunHolds
<1>6. Spec /\ []IntsSuffice => []HistoryKept
  BY HistoryHolds
<1> QED
  BY <1>1, <1>2, <1>3, <1>4, <1>5, <1>6, InvHolds, RouteHolds, TableStaysSchedule, SequenceHolds,
     PTL DEF Spec, ImplementsLogicalCircuit, Logical!Spec
==============================================================================
