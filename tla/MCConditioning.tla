---------------------------- MODULE MCConditioning -----------------------------
(***************************************************************************)
(* All control flow graphs of four blocks, of which three may hold gates,  *)
(* numbered so that edges lead forward, but for at most one that leads     *)
(* back.                                                                   *)
(***************************************************************************)
EXTENDS Conditioning

Ordered(s) == {<<>>} \cup {<<b>> : b \in s} \cup {<<p[1], p[2]>> : p \in {q \in s \X s : q[1] # q[2]}}

Forward == {<<a, b, c, <<>>>> : a \in Ordered(2 .. 4), b \in Ordered(3 .. 4), c \in Ordered({4})}

BackEdges == {e \in Blocks \X (Blocks \ {1}) : e[2] <= e[1]}

WithBackEdge(g, e) == [g EXCEPT ![e[1]] = Append(@, e[2])]

Connected(g) ==
  LET seen[n \in Nat] == IF n = 0 THEN {1} ELSE seen[n - 1] \cup UNION {ToSet(g[b]) : b \in seen[n - 1]}
  IN  seen[NumBlocks] = Blocks

Graphs == {g \in Forward \cup {WithBackEdge(f, e) : f \in Forward, e \in BackEdges} : Connected(g)}

Kernel(succ, gates, releases, operands, isQKernel, used) ==
  [succ |-> succ, gates |-> gates, releases |-> releases, operands |-> operands,
   isQKernel |-> isQKernel, used |-> used]

Ordinary(succ, gates, releases) == Kernel(succ, gates, releases, "distinct", TRUE, FALSE)

Unreleased == {Ordinary(g, c, {}) : g \in Graphs, c \in [Blocks -> {0, 2}]}

(* At most two blocks with gates; only the one with the release has two    *)
(* gates, the others one.                                                  *)
Marks ==
  {[gates |-> c, release |-> r] :
     c \in {d \in [Blocks -> 0 .. 2] : Cardinality({b \in Blocks : d[b] > 0}) <= 2},
     r \in {[block |-> b, after |-> n] : b \in Blocks, n \in 0 .. 1}}

Allowed == {m \in Marks : /\ m.release.after <= m.gates[m.release.block]
                           /\ \A b \in Blocks \ {m.release.block} : m.gates[b] <= 1}

Released == {Ordinary(g, m.gates, {m.release}) : g \in Graphs, m \in Allowed}

(* What the gates are applied to, and what is done with a function that is *)
(* invalid or no kernel.                                                   *)
Line == <<<<2>>, <<3>>, <<4>>, <<>>>>
Ring == <<<<2>>, <<3, 2>>, <<4>>, <<>>>>
Other ==
  {Kernel(g, <<1, 1, 0, 0>>, r, o, k, u) :
     g \in {Line, Ring}, r \in {{}, {[block |-> 2, after |-> 1]}, {[block |-> 1, after |-> 0], [block |-> 3, after |-> 0]}},
     o \in {"distinct", "unresolved", "repeated"}, k \in BOOLEAN, u \in BOOLEAN}

(* if (a || b) X; H;                                                       *)
Disjunction == {Ordinary(<<<<3, 2>>, <<3, 4>>, <<4>>, <<>>>>, <<0, 0, 1, 1>>, {})}

AllKernels == Unreleased \cup Released \cup Other
==============================================================================
