---------------------------- MODULE OperationGraph ----------------------------
(***************************************************************************)
(* QuantumCircuitOp: the graph of the operations of one circuit.           *)
(*                                                                         *)
(* A graph g is a record:                                                  *)
(*   edges    the pairs <<p, s>>, s in p->Successors (and, the code keeps   *)
(*            the two in step, p in s->Predecessors);                      *)
(*   next     SuccessorDependency: of each operation, the operation that   *)
(*            uses a qubit next, or NoOp;                                  *)
(*   wires    SuccessorDependence: <<p, s, q>> when s depends on p by q.    *)
(* The last two record the same thing from two sides and are kept in step  *)
(* by hand.  An operation is its gate identifier.                          *)
(***************************************************************************)
EXTENDS Integers, FiniteSets, Sequences, SequencesExt

CONSTANTS
  Ops,        \* gate identifiers
  QubitOrder, \* the qubits, in the order of QubitCompare
  Operands    \* the qubits of an operation, in the order of its operands; a
              \* call of a kernel may have none and then uses them all

Qubits == ToSet(QubitOrder)

ASSUME OperationInputs ==
  /\ Ops \subseteq Nat \ {0}
  /\ IsFiniteSet(Ops)
  /\ Operands \in [Ops -> Seq(Qubits)]

StartOp == 0       \* the sentinels; no operation has the identifier of one
EndOp   == -1
NoOp    == -2

Nodes == Ops \cup {StartOp, EndOp}
QubitsOf(o) == ToSet(Operands[o])
Blocking(o) == Operands[o] = <<>>

(* The order in which maps and sets of qubits are walked through.          *)
InOrder(S) == SelectSeq(QubitOrder, LAMBDA q : q \in S)

NoDependence == [o \in Nodes |-> [q \in Qubits |-> NoOp]]

Successors(g, o)   == {s \in Nodes : <<o, s>> \in g.edges}
Predecessors(g, o) == {p \in Nodes : <<p, o>> \in g.edges}
getDependence(g, o, q)      == g.next[o][q]
getQubitDependence(g, p, s) == {q \in Qubits : <<p, s, q>> \in g.wires}

-----------------------------------------------------------------------------
(* s becomes the next user, after p, of the qubits in qs.                  *)
createDependences(g, p, s, qs) ==
  [g EXCEPT !.next[p] = [q \in Qubits |-> IF q \in qs THEN s ELSE @[q]],
            !.wires = @ \cup {<<p, s, q>> : q \in qs}]

createDependence(g, p, s, q) == createDependences(g, p, s, {q})

SharedButEnd(p, s) ==  \* a variant
  CASE s \in Ops /\ p = StartOp  -> QubitsOf(s)
    [] s \in Ops /\ p \in Ops    -> QubitsOf(s) \cap QubitsOf(p)
    [] OTHER                     -> {}

(* The qubits p and s have in common, as far as the kinds tell; the start  *)
(* has them all and an operation that blocks has none.                     *)
Shared(p, s) ==
  CASE s \in Ops /\ p = StartOp  -> QubitsOf(s)
    [] s \in Ops /\ p \in Ops    -> QubitsOf(s) \cap QubitsOf(p)
    [] s = EndOp /\ p \in Ops    -> QubitsOf(p)
    [] OTHER                     -> {}

resolveDependenceAnew(g, p, s) ==  \* a variant
  createDependences(g, p, s, Shared(p, s))

(* What p already passes on is not replaced.                               *)
resolveDependence(g, p, s) ==
  createDependences(g, p, s, {q \in Shared(p, s) : getDependence(g, p, q) = NoOp})

addSuccessor(g, p, s) ==
  [resolveDependence(g, p, s) EXCEPT !.edges = @ \cup {<<p, s>>}]

removeSuccessor(g, p, s) == [g EXCEPT !.edges = @ \ {<<p, s>>}]

unlinkDependenceByHalf(g, p, s, q) ==  \* a variant
  IF getDependence(g, p, q) # s THEN g ELSE [g EXCEPT !.next[p][q] = NoOp]

unlinkDependence(g, p, s, q) ==
  IF getDependence(g, p, q) # s THEN g
  ELSE [g EXCEPT !.next[p][q] = NoOp, !.wires = @ \ {<<p, s, q>>}]

unlinkOperationsIfNoDependence(g, p, s) ==
  IF getQubitDependence(g, p, s) = {} THEN removeSuccessor(g, p, s) ELSE g

(* Every qubit that leads from p to s is forgotten by p, wherever the      *)
(* other map says it goes.                                                 *)
unlinkOperations(g, p, s) ==
  LET lost == getQubitDependence(g, p, s)
  IN  removeSuccessor(
        [g EXCEPT !.next[p] = [q \in Qubits |-> IF q \in lost THEN NoOp ELSE @[q]],
                  !.wires = {w \in @ : ~(w[1] = p /\ w[2] = s)}], p, s)

-----------------------------------------------------------------------------
(* isAncestorTo: whether b can be reached from a; nothing is looked for    *)
(* beyond the end.                                                         *)
Reach(g, a) ==
  LET Grow(S) == S \cup {s \in Nodes : \E c \in S \ {EndOp} : <<c, s>> \in g.edges}
  IN  FoldLeft(LAMBDA S, i : Grow(S), Successors(g, a), [i \in 1 .. Cardinality(Nodes) |-> i])

isAncestorTo(g, a, b) == b \in Reach(g, a)

ReadyBySome(g, visited, s) ==  \* a variant
  \E p \in Predecessors(g, s) : p \in visited \/ isAncestorTo(g, s, p)

(* An operation is ready when all that comes before it has been visited;   *)
(* what comes before it and after it, in a loop, is not waited for.        *)
Ready(g, visited, s) ==
  \A p \in Predecessors(g, s) : p \in visited \/ isAncestorTo(g, s, p)

Opened(g, visited, S) ==
  {s \in UNION {Successors(g, c) : c \in S} \ {EndOp} : Ready(g, visited, s)}

Rounds == [i \in 1 .. Cardinality(Nodes) |-> i]

Least(S) == CHOOSE o \in S : \A p \in S : o <= p

(* QuantumCircuitIterator: of the frontier, the oldest operation is next.  *)
Visit(g, it, c) ==
  LET visited == it.visited \cup {c}
  IN  [visited  |-> visited,
       frontier |-> (it.frontier \ {c}) \cup Opened(g, visited, {c}),
       order    |-> IF c = StartOp THEN it.order ELSE Append(it.order, c)]

advance(g, it) ==
  LET open == it.frontier \ it.visited
  IN  IF open = {} THEN it ELSE Visit(g, it, Least(open))

AtStart == [visited |-> {}, frontier |-> {StartOp}, order |-> <<>>]

iterateGates(g) == FoldLeft(LAMBDA it, i : advance(g, it), AtStart, Rounds).order

(* QuantumCircuitSliceIterator: the whole frontier is next.                *)
advanceSlice(g, it) ==
  LET open    == it.frontier \ it.visited
      visited == it.visited \cup open
      slice   == open \ {StartOp}
  IN  [visited  |-> visited,
       frontier |-> Opened(g, visited, open),
       slices   |-> IF slice = {} THEN it.slices ELSE Append(it.slices, slice)]

iterateGatesTimeSlices(g) ==
  FoldLeft(LAMBDA it, i : advanceSlice(g, it),
           [visited |-> {}, frontier |-> {StartOp}, slices |-> <<>>], Rounds).slices

=============================================================================
