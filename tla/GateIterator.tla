----------------------------- MODULE GateIterator ------------------------------
(***************************************************************************)
(* QBBIter, the iterator with which every pass walks and rewrites the      *)
(* gates of a basic block.  The block holds other instructions as well:    *)
(* those that must stay in front, the loads of the qubits of a gate, and   *)
(* the classical values that qubit indices and angles are computed from.   *)
(*                                                                         *)
(* The first gate is kept in a map shared by all iterators of a block.     *)
(* Instructions a new gate depends on may stand behind it; those that have *)
(* been listed are put in order by updateGateDependencies, at once or when *)
(* the caller asks.                                                        *)
(*                                                                         *)
(* Instructions are records [id, kind, type, uses], uses the operands that *)
(* are instructions, in order; type tells gates apart, and the values that *)
(* are an index, "int", from those that are an angle.                      *)
(***************************************************************************)
EXTENDS Integers, Sequences, FiniteSets, FiniteSetsExt, SequencesExt

CONSTANTS
  Iterators,
  Blocks,        \* the blocks to start from
  GateTypes,
  NumAngles,     \* gate type -> its number of parametric operands
  FirstId,       \* the first identity no instruction of a block has
  MaxEdits,      \* bound: gates inserted, removed or changed
  End, Lost

Kinds == {"fixed", "load", "value", "gate", "terminator"}

ASSUME BlocksEndInTerminators ==
  \A b \in Blocks :
    /\ b[Len(b)].kind = "terminator"
    /\ \A k \in 1 .. Len(b) - 1 : b[k].kind \in Kinds \ {"terminator"}
    /\ \A k \in DOMAIN b : b[k].id < FirstId /\ \A l \in DOMAIN b : b[k].id = b[l].id => k = l
    /\ \A k \in DOMAIN b : ToSet(b[k].uses) \subseteq {b[l].id : l \in 1 .. k - 1}

VARIABLES
  block,
  begin,          \* q_BB_RANGE_MAP_[BB].begin: an identity, also of an erased instruction
  q_iterator_,    \* iterator -> an identity
  InstsToCheck,   \* iterator -> the instructions to put in order, oldest first
  edits           \* how many changes of gates there have been

vars == <<block, begin, q_iterator_, InstsToCheck, edits>>

-----------------------------------------------------------------------------
(* The block and its instructions.                                         *)
InBlock(b, id) == \E k \in DOMAIN b : b[k].id = id
Position(b, id) == CHOOSE k \in DOMAIN b : b[k].id = id
Inst(b, id)    == b[Position(b, id)]
TerminatorOf(b) == b[Len(b)].id
q_END          == TerminatorOf(block)

Gate(b, k)       == b[k].kind = "gate"
Users(b, id)     == {k \in DOMAIN b : id \in ToSet(b[k].uses)}
IdsOf(b, kind)   == {b[k].id : k \in {l \in DOMAIN b : b[l].kind = kind}}

(* The first gate from position k on, or the terminator.                   *)
GateFrom(b, k) ==
  LET found == {l \in k .. Len(b) : Gate(b, l)}
  IN  IF found = {} THEN TerminatorOf(b) ELSE b[CHOOSE l \in found : \A m \in found : l <= m].id

(* Where -- stops from position k: at the last gate before it or at begin. *)
GateBefore(b, first, k) ==
  LET found == {l \in 1 .. k - 1 : Gate(b, l) \/ b[l].id = first}
  IN  b[CHOOSE l \in found : \A m \in found : l >= m].id

EraseFrom(b, id)   == RemoveAt(b, Position(b, id))
PutBefore(b, new, id) ==
  LET k == Position(b, id) IN SubSeq(b, 1, k - 1) \o new \o SubSeq(b, k, Len(b))

isBegin(i) == q_iterator_[i] = begin
isEnd(i)   == q_iterator_[i] = q_END
Usable(i)  == InBlock(block, q_iterator_[i])
AtGate(i)  == \E k \in DOMAIN block : Gate(block, k) /\ block[k].id = q_iterator_[i]

-----------------------------------------------------------------------------
MoveOnlyItself(state, id, before, base, number) ==                \* a variant
  IF number[id] > base
  THEN [state EXCEPT !.b = PutBefore(EraseFrom(state.b, id), <<Inst(state.b, id)>>, before)]
  ELSE state

(* recursiveMoveBefore: number gives the order before anything is moved;   *)
(* moved remembers in front of which number an instruction has been put.   *)
RECURSIVE recursiveMoveBefore(_, _, _, _, _)
recursiveMoveBefore(state, id, before, base, number) ==
  LET put == number[id] > base /\ ~(id \in DOMAIN state.moved /\ state.moved[id] < base)
      now == IF put
             THEN [b |-> PutBefore(EraseFrom(state.b, id), <<Inst(state.b, id)>>, before),
                   moved |-> [x \in DOMAIN state.moved \cup {id} |->
                                IF x = id THEN base ELSE state.moved[x]]]
             ELSE state
  IN  FoldLeft(LAMBDA s, op : recursiveMoveBefore(s, op, id, base, number),
               now, Inst(state.b, id).uses)

(* One instruction of the list: it goes before its first user.             *)
Checked(state, id, number) ==
  IF ~InBlock(state.b, id) \/ Users(state.b, id) = {} THEN state
  ELSE LET users == {state.b[k].id : k \in Users(state.b, id)}
           first == CHOOSE u \in users : \A v \in users : number[u] <= number[v]
       IN  recursiveMoveBefore(state, id, first, number[first], number)

Once(list) == FoldLeft(LAMBDA s, x : IF x \in ToSet(s) THEN s ELSE Append(s, x), <<>>, list)

(* updateGatesForBBs: every instruction of the list once.                  *)
updateGatesForBB(b, list) ==
  LET number == [id \in {b[k].id : k \in DOMAIN b} |-> Position(b, id)]
  IN  FoldLeft(LAMBDA s, id : Checked(s, id, number),
               [b |-> b, moved |-> <<>>], Once(list)).b

-----------------------------------------------------------------------------
(* Inserting: where, and what is put there.                                *)

HeadOfBlock(b, k) == 1                                            \* a variant

(* At the first gate the walk goes back until it has passed an instruction *)
(* that must stay in front, or has reached the head of the block; one step *)
(* forward follows when it stands on an instruction of that sort.          *)
FrontOf(b, k) ==
  LET fixed == {l \in 2 .. k : b[l].kind = "fixed"}
      stop  == IF fixed = {} THEN 1 ELSE (CHOOSE l \in fixed : \A m \in fixed : l >= m) - 1
  IN  IF b[stop].kind = "fixed" THEN stop + 1 ELSE stop

PointBeforePreviousGate(i) ==                                     \* a variant
  LET k == Position(block, q_iterator_[i])
  IN  IF isBegin(i) THEN block[FrontOf(block, k)].id ELSE GateBefore(block, begin, k)

InsertionPoint(i) ==
  LET k == Position(block, q_iterator_[i])
  IN  IF isBegin(i) THEN block[FrontOf(block, k)].id
      ELSE block[Position(block, GateBefore(block, begin, k)) + 1].id

(* The index of the qubit of a new gate: a constant, for which Absent      *)
(* stands, or a value of the block, wherever it stands.  Its angle: a      *)
(* constant, such a value as it is, or an expression over one, which is in *)
(* no block yet and owned by the reference.                                *)
Absent == 0
ValuesOf(type) == {block[k].id : k \in {l \in DOMAIN block : block[l].kind = "value" /\ block[l].type = type}}
Indices        == ValuesOf("int") \cup {Absent}
Angles         == [kind : {"constant"}, of : {Absent}] \cup [kind : {"given", "owned"}, of : ValuesOf("angle")]
AnglesOf(type) == [1 .. NumAngles[type] -> Angles]

Load(index, id) ==
  [id |-> id, kind |-> "load", type |-> "none", uses |-> SelectSeq(<<index>>, LAMBDA v : v # Absent)]

(* What a reference to an angle adds before the instruction inst, what the *)
(* gate uses, and what is put on the list: the expression, if one has been *)
(* added, as its operand is there already; for a value that is given as it *)
(* is not that value but inst.                                             *)
add_para_call(inst, angle, id) ==
  LET owned == angle.kind = "owned"
      given == angle.kind = "given"
      computed == [id |-> id, kind |-> "value", type |-> "none", uses |-> <<angle.of>>]
  IN  [new   |-> IF owned THEN <<computed>> ELSE <<>>,
       use   |-> IF owned THEN <<id>> ELSE IF given THEN <<angle.of>> ELSE <<>>,
       check |-> IF owned THEN <<id>> ELSE IF given THEN <<inst>> ELSE <<>>]

AddParas(inst, angles, id) == [k \in DOMAIN angles |-> add_para_call(inst, angles[k], id + k - 1)]

Added(paras)  == FlattenSeq([k \in DOMAIN paras |-> paras[k].new])
Used(paras)   == FlattenSeq([k \in DOMAIN paras |-> paras[k].use])
Listed(paras) == FlattenSeq([k \in DOMAIN paras |-> paras[k].check])

(* The value of an index is listed itself.                                 *)
IndexCheck(index) == SelectSeq(<<index>>, LAMBDA v : v # Absent)

NewGate(type, id, load, paras) ==
  [id |-> id, kind |-> "gate", type |-> type, uses |-> <<load.id>> \o Used(paras)]

(* The load of an erased gate goes with it unless another gate uses it.    *)
remove_qbit_call(b, load) == IF Users(b, load) = {} THEN EraseFrom(b, load) ELSE b

-----------------------------------------------------------------------------
(* Iterators may be constructed at an instruction: they start at the first *)
(* gate from there on.                                                     *)
Init ==
  /\ block \in Blocks
  /\ begin = GateFrom(block, 1)
  /\ \E at \in [Iterators -> DOMAIN block] : q_iterator_ = [i \in Iterators |-> GateFrom(block, at[i])]
  /\ InstsToCheck = [i \in Iterators |-> <<>>]
  /\ edits = 0

(* An instruction may be erased while it waits on a list.  What is read    *)
(* then is memory given back: it belongs to no block, or it is that of an  *)
(* instruction created since.                                              *)
MayBeReadAs(b, id) ==
  IF InBlock(b, id) THEN {id} ELSE {id} \cup {x \in {b[k].id : k \in DOMAIN b} : x >= FirstId /\ x > id}

Readings(b, list) ==
  {read \in [DOMAIN list -> UNION {MayBeReadAs(b, id) : id \in ToSet(list)}] :
     \A k \in DOMAIN list : read[k] \in MayBeReadAs(b, list[k])}

(* The identity of the k-th instruction that an edit creates.              *)
Fresh(k) == FirstId + edits * (2 + Max({NumAngles[t] : t \in GateTypes})) + k

Edit == edits < MaxEdits /\ edits' = edits + 1

MoveTo(i, id) ==
  /\ q_iterator_' = [q_iterator_ EXCEPT ![i] = id]
  /\ UNCHANGED <<block, begin, InstsToCheck, edits>>

(* A new iterator in place of i; a list that has not been worked off would *)
(* go with the old one.                                                    *)
Construct(i) ==
  /\ InstsToCheck[i] = <<>>
  /\ begin' = GateFrom(block, 1)
  /\ q_iterator_' = [q_iterator_ EXCEPT ![i] = GateFrom(block, 1)]
  /\ UNCHANGED <<block, InstsToCheck, edits>>

Increment(i) ==
  /\ Usable(i) /\ ~isEnd(i)
  /\ MoveTo(i, GateFrom(block, Position(block, q_iterator_[i]) + 1))

Decrement(i) ==
  /\ Usable(i) /\ ~isBegin(i)
  /\ MoveTo(i, GateBefore(block, begin, Position(block, q_iterator_[i])))

(* The program exits when the beginning is no gate.                        *)
gotoBegin(i) == begin \in IdsOf(block, "gate") \cup {q_END} /\ MoveTo(i, begin)

gotoEnd(i) == MoveTo(i, q_END)

gotoNextGateInstance(i, type) ==
  /\ Usable(i) /\ ~isEnd(i)
  /\ LET found == {k \in Position(block, q_iterator_[i]) + 1 .. Len(block) :
                     k = Len(block) \/ block[k].type = type}
     IN  MoveTo(i, block[CHOOSE k \in found : \A l \in found : k <= l].id)

gotoPreviousGateInstance(i, type) ==
  /\ Usable(i) /\ ~isBegin(i)
  /\ LET found == {k \in 1 .. Position(block, q_iterator_[i]) - 1 :
                     block[k].id = begin \/ block[k].type = type}
     IN  MoveTo(i, block[CHOOSE k \in found : \A l \in found : k >= l].id)

(* insertGate.  At the beginning the iterator and the map are set to the   *)
(* first gate of the block afterwards, elsewhere -- finds the new gate.    *)
insertGate(i, type, index, angles, FixOrder) ==
  LET load  == Load(index, Fresh(0))
      point == InsertionPoint(i)
      paras == AddParas(point, angles, Fresh(1))
      gate  == NewGate(type, Fresh(1 + Len(angles)), load, paras)
      b     == PutBefore(block, <<load>> \o Added(paras) \o <<gate>>, point)
      list  == InstsToCheck[i] \o IndexCheck(index) \o Listed(paras)
  IN  /\ Usable(i)
      /\ Edit
      /\ begin' = IF isBegin(i) THEN GateFrom(b, 1) ELSE begin
      /\ q_iterator_' = [q_iterator_ EXCEPT ![i] = IF isBegin(i) THEN GateFrom(b, 1) ELSE gate.id]
      /\ \/ /\ FixOrder
            /\ \E read \in Readings(b, list) : block' = updateGatesForBB(b, read)
            /\ InstsToCheck' = [InstsToCheck EXCEPT ![i] = <<>>]
         \/ /\ ~FixOrder
            /\ block' = b
            /\ InstsToCheck' = [InstsToCheck EXCEPT ![i] = list]

BeginKept(i, next) == begin                                    \* a variant

BeginAfterRemoval(i, next) == IF isBegin(i) THEN next ELSE begin

(* removeGate: the iterator goes on, the call is erased and then the load  *)
(* of its qubit; the instructions of its angles are left to other passes.  *)
removeGate(i) ==
  /\ AtGate(i) /\ Edit
  /\ LET call == Inst(block, q_iterator_[i])
         next == GateFrom(block, Position(block, call.id) + 1)
         b    == remove_qbit_call(EraseFrom(block, call.id), call.uses[1])
     IN  /\ block' = b
         /\ q_iterator_' = [q_iterator_ EXCEPT ![i] = next]
         /\ begin' = BeginAfterRemoval(i, next)
  /\ UNCHANGED InstsToCheck

(* changeGate: a call of the other gate takes the place and the operands.  *)
changeGate(i, type) ==
  /\ AtGate(i) /\ Edit
  /\ LET call == Inst(block, q_iterator_[i])
     IN  /\ type # call.type
         /\ NumAngles[type] = NumAngles[call.type]
         /\ block' = [block EXCEPT ![Position(block, call.id)] = [call EXCEPT !.id = Fresh(0), !.type = type]]
         /\ begin' = IF isBegin(i) THEN Fresh(0) ELSE begin
         /\ q_iterator_' = [q_iterator_ EXCEPT ![i] = Fresh(0)]
         /\ UNCHANGED InstsToCheck

(* setQubitOperands and setParametricOperands: what the gate is given is   *)
(* put right before it, for the last angle first; an old load goes if no   *)
(* other gate uses it.  An operand that is known to be equal to the old    *)
(* one is skipped: these are calls in which all operands are replaced.     *)
setQubitOperands(i, index) ==
  /\ AtGate(i) /\ Edit
  /\ LET call == Inst(block, q_iterator_[i])
         b    == PutBefore(block, <<Load(index, Fresh(0))>>, call.id)
     IN  block' = remove_qbit_call([b EXCEPT ![Position(b, call.id)].uses[1] = Fresh(0)], call.uses[1])
  /\ InstsToCheck' = [InstsToCheck EXCEPT ![i] = @ \o IndexCheck(index)]
  /\ UNCHANGED <<begin, q_iterator_>>

setParametricOperands(i, angles) ==
  LET call  == Inst(block, q_iterator_[i])
      paras == AddParas(call.id, angles, Fresh(0))
      b     == PutBefore(block, Added(Reverse(paras)), call.id)
  IN  /\ AtGate(i) /\ Edit
      /\ angles \in AnglesOf(call.type)
      /\ block' = [b EXCEPT ![Position(b, call.id)].uses = <<@[1]>> \o Used(paras)]
      /\ InstsToCheck' = [InstsToCheck EXCEPT ![i] = @ \o Listed(Reverse(paras))]
      /\ UNCHANGED <<begin, q_iterator_>>

updateGateDependencies(i) ==
  /\ InstsToCheck[i] # <<>>
  /\ \E read \in Readings(block, InstsToCheck[i]) : block' = updateGatesForBB(block, read)
  /\ InstsToCheck' = [InstsToCheck EXCEPT ![i] = <<>>]
  /\ UNCHANGED <<begin, q_iterator_, edits>>

Next ==
  \E i \in Iterators :
    \/ Construct(i) \/ Increment(i) \/ Decrement(i) \/ gotoBegin(i) \/ gotoEnd(i)
    \/ removeGate(i) \/ updateGateDependencies(i)
    \/ \E type \in GateTypes :
         \/ gotoNextGateInstance(i, type) \/ gotoPreviousGateInstance(i, type) \/ changeGate(i, type)
         \/ \E index \in Indices, angles \in AnglesOf(type), FixOrder \in BOOLEAN :
              insertGate(i, type, index, angles, FixOrder)
    \/ \E index \in Indices : setQubitOperands(i, index)
    \/ \E angles \in UNION {AnglesOf(type) : type \in GateTypes} : setParametricOperands(i, angles)

Spec == Init /\ [][Next]_vars

-----------------------------------------------------------------------------
(* The map of the block names its first gate whenever an iterator can use  *)
(* it, also after insertions and removals by another one: otherwise        *)
(* isBegin never holds, and -- walks out of the block.                     *)
BeginIsFirstGate == begin = GateFrom(block, 1)

(* What the gates are computed from, however indirectly, and the users     *)
(* that stand before an operand of theirs, with that operand.              *)
OperandsOf(b, ids) == UNION {ToSet(Inst(b, id).uses) : id \in ids}

Live(b) ==
  LET live[n \in Nat] == IF n = 0 THEN IdsOf(b, "gate") ELSE live[n - 1] \cup OperandsOf(b, live[n - 1])
  IN  live[Len(b)]

Misplaced(b) ==
  UNION {{<<b[k].id, v>> : v \in ToSet(b[k].uses) \ {b[l].id : l \in 1 .. k - 1}} : k \in DOMAIN b}

NothingListed == \A i \in Iterators : InstsToCheck[i] = <<>>

(* An angle that is a value of the block as it is.                         *)
GivenAngle(u, v) == Inst(block, u).kind = "gate" /\ Inst(block, v).type = "angle"

(* Once no iterator has instructions left to put in order, the index of    *)
(* every gate, the expressions of its angles and all they are computed     *)
(* from stand before their users, wherever gates were inserted and in      *)
(* whatever order values were computed.  A value of the block that a gate  *)
(* was given as it is, without an expression, is not among the listed: it  *)
(* may be left behind the gate.                                            *)
GateOperandsDefined ==
  NothingListed =>
    \A pair \in Misplaced(block) : GivenAngle(pair[1], pair[2]) \/ pair[1] \notin Live(block)

(* What the comments on the list and on FixOrder say, for those values     *)
(* too: once the list has been worked off, "each argument is defined at    *)
(* the correct time".  The code violates it.                               *)
GivenAnglesDefined == NothingListed => \A pair \in Misplaced(block) : pair[1] \notin Live(block)

(* The front of a block: the first gate is known, and the instructions     *)
(* nothing may be put in front of stay in front of it.                     *)
FixedStayFirst ==
  /\ BeginIsFirstGate
  /\ \A k, l \in DOMAIN block : block[k].kind = "fixed" /\ Gate(block, l) => k < l

(* No operation of an iterator does more to the gates, or to the place of  *)
(* any iterator, than the same operation on a sequence of gates.           *)
GatesOf(b) == LET g == SelectSeq(b, LAMBDA x : x.kind = "gate")
              IN  [k \in DOMAIN g |-> [id |-> g[k].id, type |-> g[k].type]]

Cursors ==
  [i \in Iterators |->
     IF isEnd(i) THEN End ELSE IF AtGate(i) THEN q_iterator_[i] ELSE Lost]

Cursor == INSTANCE GateCursor WITH gates <- GatesOf(block), cursor <- Cursors

IsACursorOnTheGates == Cursor!Spec

=============================================================================
