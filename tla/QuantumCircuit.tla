---------------------------- MODULE QuantumCircuit ----------------------------
(***************************************************************************)
(* QuantumCircuit of one basic block: operations are appended, inserted,   *)
(* moved and removed, in the block and in the graph, and the two must      *)
(* keep telling the same story: the graph is what passes iterate over, the *)
(* block is what is compiled.                                              *)
(***************************************************************************)
EXTENDS OperationGraph

CONSTANTS
  Blocks,    \* the blocks circuits are made of: sequences of operations
  Places,    \* where gates may be put: <<an operation, one to follow>>
  Foreign    \* operations whose arguments do not belong to the function of
             \* the block and are not mapped: adding one fails

VARIABLES
  block,         \* the operations in the basic block, in order
  graph,
  qubits,        \* Qubits: those the circuit knows
  BlockingOps,   \* the operations without operands, in order
  NumberGates,
  members,       \* the operations whose parent is this circuit
  fault          \* an assertion failed or memory was read out of bounds

vars == <<block, graph, qubits, BlockingOps, NumberGates, members, fault>>

circuit == [block |-> block, graph |-> graph, qubits |-> qubits, blocking |-> BlockingOps,
            gates |-> NumberGates, members |-> members, fault |-> fault]

Becomes(c) ==
  /\ block' = c.block             /\ graph' = c.graph
  /\ qubits' = c.qubits           /\ BlockingOps' = c.blocking
  /\ NumberGates' = c.gates       /\ members' = c.members
  /\ fault' = c.fault

-----------------------------------------------------------------------------
(* Circuits made from a block.                                             *)

Fold(Op(_, _), base, s) == FoldLeft(Op, base, s)

(* A qubit met for the first time passes through every operation that      *)
(* blocks.                                                                 *)
Chained(g, blocking, q) ==
  Fold(LAMBDA a, b : [g |-> createDependence(addSuccessor(a.g, a.prev, b), a.prev, b, q), prev |-> b],
       [g |-> g, prev |-> StartOp], blocking).g

(* c also has prev, the operation that used a qubit last, and default, the *)
(* one that stands for the start.                                          *)
ConnectQubit(c, o, q) ==
  LET known == q \in c.qubits
      g == IF known THEN c.graph ELSE Chained(c.graph, c.blocking, q)
      p == IF c.prev[q] = NoOp THEN c.default ELSE c.prev[q]
      h == addSuccessor(g, p, o)
  IN  [c EXCEPT !.qubits = @ \cup {q},
                !.graph = IF p = c.default THEN createDependence(h, p, o, q) ELSE h,
                !.prev[q] = o]

ConnectBlocking(c, o) ==
  LET used == {q \in Qubits : c.prev[q] # NoOp}
      Through(g, q) == createDependence(addSuccessor(g, c.prev[q], o), c.prev[q], o, q)
  IN  [c EXCEPT !.graph = IF used = {} THEN addSuccessor(@, c.default, o)
                          ELSE Fold(Through, @, InOrder(used)),
                !.prev = [q \in Qubits |-> IF q \in used THEN o ELSE @[q]],
                !.blocking = Append(@, o),
                !.default = o]

AddFromBlock(c, o) ==
  LET d == IF Blocking(o) THEN ConnectBlocking(c, o)
           ELSE Fold(LAMBDA e, q : ConnectQubit(e, o, q), c, Operands[o])
  IN  [d EXCEPT !.block = Append(@, o), !.gates = @ + 1, !.members = @ \cup {o}]

CloseBlock(c) ==
  LET used == {q \in Qubits : c.prev[q] # NoOp}
      last == IF used = {} THEN {c.default} ELSE {c.prev[q] : q \in used}
  IN  [c EXCEPT !.graph = Fold(LAMBDA g, o : addSuccessor(g, o, EndOp), @, SetToSeq(last))]

FromBlock(s) ==
  CloseBlock(Fold(AddFromBlock,
    [block |-> <<>>, graph |-> [edges |-> {}, next |-> NoDependence, wires |-> {}],
     qubits |-> {}, blocking |-> <<>>, gates |-> 0, members |-> {}, fault |-> FALSE,
     prev |-> [q \in Qubits |-> NoOp], default |-> StartOp], s))

Init ==
  \E s \in Blocks :
    LET c == FromBlock(s)
    IN  /\ block = c.block        /\ graph = c.graph
        /\ qubits = c.qubits      /\ BlockingOps = c.blocking
        /\ NumberGates = c.gates  /\ members = c.members
        /\ fault = FALSE

-----------------------------------------------------------------------------
(* recursiveAddOperands: all arguments an operation depends on are at hand. *)
CanAdd(o) == o \notin Foreign

(* A qubit the circuit does not know passes through every operation that   *)
(* blocks; unlike in FromBlock no edge is added between them.              *)
LearnQubit(c, q) ==
  IF q \in c.qubits THEN c
  ELSE LET chained == Fold(LAMBDA a, b : [g |-> createDependence(a.g, a.prev, b, q), prev |-> b],
                           [g |-> c.graph, prev |-> StartOp], c.blocking)
       IN  [c EXCEPT !.qubits = @ \cup {q},
                     !.graph = IF chained.prev = StartOp THEN chained.g
                               ELSE createDependence(addSuccessor(chained.g, chained.prev, EndOp),
                                                     chained.prev, EndOp, q)]

LearnQubits(c, o) == Fold(LearnQubit, c, Operands[o])

(* The operation comes between p, that used q last, and the end.           *)
AppendOnQubit(a, p, o, q) ==
  IF getDependence(a.graph, p, q) \in {NoOp, o} THEN a
  ELSE LET g == unlinkOperationsIfNoDependence(unlinkDependence(a.graph, p, EndOp, q), p, EndOp)
       IN  [graph |-> addSuccessor(g, p, o), open |-> a.open \ {q}]

AppendAfter(a, p, o) == Fold(LAMBDA b, q : AppendOnQubit(b, p, o, q), a, Operands[o])

(* An operation without operands: all that led to the end leads to it.     *)
BlockAfter(g, p, o) ==
  LET qs == getQubitDependence(g, p, EndOp)
  IN  createDependences(addSuccessor(unlinkOperations(g, p, EndOp), p, o), p, o, qs)

AppendOpenUnlinked(c, a, o) == a.graph  \* a variant

(* No operation was found for the qubits in a.open.                        *)
AppendOpen(c, a, o) ==
  IF a.open = {} THEN a.graph
  ELSE IF c.blocking = <<>> THEN addSuccessor(a.graph, StartOp, o)
  ELSE createDependences(addSuccessor(a.graph, Last(c.blocking), o), Last(c.blocking), o, a.open)

AppendToGraph(c, o) ==
  LET preds == SetToSeq(Predecessors(c.graph, EndOp))
      found == Fold(LAMBDA a, p : AppendAfter(a, p, o), [graph |-> c.graph, open |-> QubitsOf(o)], preds)
      g     == IF Blocking(o)
               THEN createDependences(Fold(LAMBDA h, p : BlockAfter(h, p, o), c.graph, preds), o, EndOp, c.qubits)
               ELSE AppendOpen(c, found, o)
  IN  [c EXCEPT !.graph = addSuccessor(g, o, EndOp),
                !.blocking = IF Blocking(o) THEN Append(@, o) ELSE @]

(* Only the start comes before the end: the circuit is empty.              *)
AppendToEmpty(c, o) ==
  [c EXCEPT !.graph = addSuccessor(addSuccessor(removeSuccessor(@, StartOp, EndOp), o, EndOp), StartOp, o)]

(* The instruction and the count come first; what the operands need is     *)
(* found out after.                                                        *)
appendGate(c, o) ==
  LET counted == [c EXCEPT !.gates = @ + 1, !.block = Append(@, o)]
      learnt  == LearnQubits(counted, o)
      added   == IF Predecessors(learnt.graph, EndOp) = {StartOp}
                 THEN AppendToEmpty(learnt, o) ELSE AppendToGraph(learnt, o)
  IN  IF CanAdd(o) THEN [added EXCEPT !.members = @ \cup {o}] ELSE counted

-----------------------------------------------------------------------------
(* The operations up to the one to insert after, in the order of the       *)
(* iterator, tell which used each qubit last.                              *)
Until(s, o) ==
  LET before == {i \in 1 .. Len(s) : \A j \in 1 .. i - 1 : s[j] # o}
  IN  [i \in before |-> s[i]]

LatestUsed(g, s) ==
  Fold(LAMBDA latest, o : [q \in Qubits |-> IF \E n \in Successors(g, o) : q \in getQubitDependence(g, o, n)
                                            THEN o ELSE latest[q]],
       [q \in Qubits |-> NoOp], s)

BlockingIdx(s) == 1 + Len(SelectSeq(s, Blocking))

(* o comes between the operation that used q last and its next user.       *)
handleDependenceChange(g, o, q, latest) ==
  LET p == IF latest[q] = NoOp THEN StartOp ELSE latest[q]
      d == getDependence(g, p, q)
      h == IF d = NoOp THEN g
           ELSE unlinkOperationsIfNoDependence(unlinkDependence(g, p, d, q), p, d)
      k == addSuccessor(h, p, o)
  IN  IF d = NoOp THEN k ELSE addSuccessor(k, o, d)

(* A qubit that is new is taken to come from BlockingOps[BlockingIdx - 1], *)
(* counted from 0, when an operation that blocks was passed.               *)
LatestOfNew(c, idx, q, latest) ==
  IF q \in c.qubits \/ idx = 1 THEN latest[q] ELSE c.blocking[idx]

InsertBlocking(blocking, idx, o) ==
  IF idx > Len(blocking) THEN Append(blocking, o) ELSE InsertAt(blocking, idx + 1, o)

PutAfter(s, after, o) ==
  IF after = StartOp THEN <<o>> \o s
  ELSE InsertAt(s, 1 + CHOOSE i \in 1 .. Len(s) : s[i] = after, o)

(* The operations are linked qubit by qubit, in the order of the operands. *)
InsertToGraph(c, learnt, o, after, passed) ==
  LET idx    == BlockingIdx(passed)
      seen   == LatestUsed(c.graph, passed)
      latest == [q \in Qubits |-> IF q \in QubitsOf(o) THEN LatestOfNew(c, idx, q, seen) ELSE seen[q]]
      todo   == IF Blocking(o) THEN InOrder({q \in Qubits : seen[q] # NoOp}) ELSE Operands[o]
      g      == addSuccessor(Fold(LAMBDA h, q : handleDependenceChange(h, o, q, latest), learnt.graph, todo),
                             after, o)
  IN  [learnt EXCEPT !.graph = IF Successors(g, o) = {} THEN addSuccessor(g, o, EndOp) ELSE g,
                     !.blocking = IF Blocking(o) THEN InsertBlocking(@, idx, o) ELSE @,
                     !.members = @ \cup {o}]

insertGate(c, o, after) ==
  LET passed  == IF after = StartOp THEN <<>> ELSE Until(iterateGates(c.graph), after)
      counted == [c EXCEPT !.gates = @ + 1,
                           !.block = PutAfter(@, after, o),
                           !.graph = IF after = StartOp THEN removeSuccessor(@, StartOp, EndOp) ELSE @]
      outside == /\ BlockingIdx(passed) > 1
                 /\ BlockingIdx(passed) > Len(c.blocking)
                 /\ ~(QubitsOf(o) \subseteq c.qubits)
  IN  IF ~CanAdd(o) THEN counted
      ELSE IF outside THEN [counted EXCEPT !.fault = TRUE]
      ELSE InsertToGraph(c, LearnQubits(counted, o), o, after, passed)

-----------------------------------------------------------------------------
(* What came before the operation is linked to what came after it: qubit   *)
(* by qubit, and everything with everything where no qubit is the reason.  *)
RelinkToEndOnly(g, pairs) ==  \* a variant
  Fold(LAMBDA h, e : IF e[2] = EndOp THEN addSuccessor(h, e[1], e[2]) ELSE h, g, pairs)

Relink(g, pairs) == Fold(LAMBDA h, e : addSuccessor(h, e[1], e[2]), g, pairs)

removeGate(c, o) ==
  LET g      == c.graph
      succs  == Successors(g, o)
      preds  == Predecessors(g, o)
      After(q)  == {s \in succs : q \in getQubitDependence(g, o, s)}
      Before(q) == {p \in preds : q \in getQubitDependence(g, p, o)}
      lost   == {q \in Qubits : Before(q) # {}}
      cut    == Fold(LAMBDA h, s : unlinkOperations(h, o, s), g, SetToSeq(succs))
      apart  == Fold(LAMBDA h, p : unlinkOperations(h, p, o), cut, SetToSeq(preds))
      manual == ({p \in preds : getQubitDependence(g, p, o) = {}} \X succs)
                  \cup (preds \X {s \in succs : getQubitDependence(g, o, s) = {}})
      First(S) == CHOOSE x \in S : TRUE  \* the lowest address
      byQubit  == [i \in 1 .. Cardinality(lost) |->
                     LET q == InOrder(lost)[i] IN <<First(Before(q)), First(After(q))>>]
  IN  IF \E q \in lost : After(q) = {}
      THEN [c EXCEPT !.fault = TRUE]
      ELSE [c EXCEPT !.graph = Relink(Relink(apart, byQubit), SetToSeq(manual)),
                     !.gates = @ - 1,
                     !.block = SelectSeq(@, LAMBDA x : x # o),
                     !.members = @ \ {o}]

-----------------------------------------------------------------------------
(* An operation that could not be added leaves its instruction in the block *)
(* and is not tried again.                                                  *)
Free == Ops \ ToSet(block)

AppendGate(o) ==
  /\ o \in Free
  /\ Becomes(appendGate(circuit, o))

InsertGate(o, after) ==
  /\ o \in Free
  /\ after \in members \cup {StartOp}
  /\ Becomes(insertGate(circuit, o, after))

RemoveGate(o) ==
  /\ o \in members
  /\ Becomes(removeGate(circuit, o))

(* moveGate: the operation is taken out, then put in; after the end it is  *)
(* not, and stays out.                                                     *)
MoveGate(o, after) ==
  /\ o \in members
  /\ after \in (members \cup {StartOp, EndOp}) \ {o}
  /\ LET c == removeGate(circuit, o)
     IN  Becomes(IF c.fault \/ after = EndOp THEN c ELSE insertGate(c, o, after))

MoveGateToEnd(o) ==
  /\ o \in members
  /\ LET c == removeGate(circuit, o)
     IN  Becomes(IF c.fault THEN c ELSE appendGate(c, o))

Next ==
  /\ ~fault
  /\ \E o \in Ops :
       \/ AppendGate(o)
       \/ RemoveGate(o)
       \/ MoveGateToEnd(o)
       \/ \E after \in Nodes : <<o, after>> \in Places /\ InsertGate(o, after)
       \/ \E after \in Nodes : <<o, after>> \in Places /\ MoveGate(o, after)

Spec == Init /\ [][Next]_vars

-----------------------------------------------------------------------------
(* The variables keep their kinds, and the count of gates, an unsigned in   *)
(* the code, does not go below zero.                                        *)
TypeOK ==
  /\ ToSet(block) \subseteq Ops
  /\ graph.edges \subseteq Nodes \X Nodes
  /\ graph.next \in [Nodes -> [Qubits -> Nodes \cup {NoOp}]]
  /\ graph.wires \subseteq Nodes \X Nodes \X Qubits
  /\ qubits \subseteq Qubits
  /\ ToSet(BlockingOps) \subseteq Ops
  /\ NumberGates \in Nat
  /\ members \subseteq Ops
  /\ fault \in BOOLEAN

(* removeGate always finds, for each qubit an operation was reached by, the *)
(* operation it leads to (the assertion in removeGate), and insertGate      *)
(* never reads BlockingOps beyond its end.                                  *)
AssertionsHold == ~fault

On(q, s) == SelectSeq(s, LAMBDA o : o \in members /\ q \in QubitsOf(o))

(* The two maps by which an operation knows what follows it, by qubit and   *)
(* by operation, agree after any edits, and no assertion fails on the way.  *)
MapsAgree ==
  /\ TypeOK
  /\ AssertionsHold
  /\ \A p, s \in Nodes, q \in Qubits :
       (<<p, s, q>> \in graph.wires) <=> (graph.next[p][q] = s)

(* Whoever iterates over the circuit visits every gate of it, once: edits   *)
(* leave no gate dangling and no cycle the iterator cannot enter.           *)
EveryGateIterated ==
  LET order == iterateGates(graph)
  IN  ToSet(order) = members /\ Len(order) = Cardinality(members)

(* Iteration visits the gates on a qubit in the order in which the block,   *)
(* which is what is compiled, applies them.                                 *)
WireOrder ==
  LET order == iterateGates(graph)
  IN  \A q \in Qubits : On(q, order) = On(q, block)

After(s, o) == {i \in 1 .. Len(s) : \A j \in i .. Len(s) : s[j] # o}

(* What the block applies next to q after o; the start does not lead to the *)
(* end.                                                                     *)
NextUser(o, q) ==
  LET wire == On(q, block)
      rest == After(wire, o)
  IN  IF rest # {} THEN wire[Min(rest)] ELSE IF o = StartOp THEN NoOp ELSE EndOp

(* Every operation passes each of its qubits on to the operation that uses  *)
(* the qubit next in the block: what removeGate and insertGate promise to    *)
(* maintain and what later edits rely on.                                   *)
QubitDependenciesMaintained ==
  \A o \in members \cup {StartOp} :
    \A q \in (IF o = StartOp THEN Qubits ELSE QubitsOf(o)) : graph.next[o][q] = NextUser(o, q)

(* The time slices hold every gate in one slice, the gates of a slice have  *)
(* no qubit in common, and a gate is in a later slice than the gates before *)
(* it on any of its qubits.                                                 *)
SlicesAreParallel ==
  LET slices == iterateGatesTimeSlices(graph)
      SliceOf(o) == {i \in 1 .. Len(slices) : o \in slices[i]}
      InTurn(q)  == LET wire == On(q, block)
                    IN  \A i, j \in 1 .. Len(wire) : i < j =>
                          \A m \in SliceOf(wire[i]), n \in SliceOf(wire[j]) : m < n
  IN  /\ \A o \in members : Cardinality(SliceOf(o)) = 1
      /\ \A q \in Qubits : InTurn(q)

=============================================================================
