--------------------------- MODULE LocalSearchProofs ---------------------------
(***************************************************************************)
(* The costs that the local search adds up are those of its placements,    *)
(* and its table is exact, for every platform, every graph and any number  *)
(* of resets and iterations.                                               *)
(*                                                                         *)
(* The operators of the model are restated as functions of the instance,   *)
(* the placement and the map from physical qubits, so that what is proved  *)
(* of one placement can be used of the next.                               *)
(***************************************************************************)
EXTENDS LocalSearch, FiniteSums

ProgramIn(c)  == ProgramOf(c) \cup DOMAIN c.fixed
Near(c, p)    == {q \in ProgramIn(c) : {p, q} \in c.graph}

Hops(c, x, y) ==
  IF x = y \/ {x, y} \cap PhysicalOf(c) = {} THEN 0 ELSE Distance[{x, y}] - 1

One(e)        == CHOOSE p \in e : TRUE
Other(e, p)   == CHOOSE q \in e : q # p
EdgeCost(c, P, e) == Hops(c, P[One(e)], P[Other(e, One(e))])
Value(c, P)   == SumFunctionOnSet([e \in c.graph |-> EdgeCost(c, P, e)], c.graph)

Gain(c, P, x, y, q) == Hops(c, y, P[q]) - Hops(c, x, P[q])
Leaving(c, P, M, x, y) ==
  IF M[x] = NoProgram THEN 0
  ELSE SumFunctionOnSet([q \in Near(c, M[x]) |-> Gain(c, P, x, y, q)], Near(c, M[x]))
Delta(c, P, M, x, y) == Leaving(c, P, M, x, y) + Leaving(c, P, M, y, x)

Swapped(P, M, x, y) ==
  [p \in DOMAIN P |-> IF p = M[x] THEN y ELSE IF p = M[y] THEN x ELSE P[p]]
Flipped(M, x, y) == [M EXCEPT ![x] = M[y], ![y] = M[x]]

PlacementOf(c, P) ==
  /\ P \in [ProgramIn(c) -> Phys]
  /\ \A p, q \in ProgramIn(c) : p # q => P[p] # P[q]
  /\ \A p \in DOMAIN c.fixed : P[p] = c.fixed[p]
  /\ \A p \in ProgramOf(c) : P[p] \in PhysicalOf(c)

(* Each map says where the other has come from.                            *)
MutuallyInverse(c, P, M) ==
  /\ M \in [Phys -> ProgramIn(c) \cup {NoProgram}]
  /\ \A p \in ProgramIn(c) : M[P[p]] = p
  /\ \A x \in Phys : M[x] # NoProgram => P[M[x]] = x

Valid(c, P, M) == PlacementOf(c, P) /\ MutuallyInverse(c, P, M)

PairsOf(c) ==
  {{xy[1], xy[2]} : xy \in {xy \in PhysicalOf(c) \X PhysicalOf(c) : xy[1] # xy[2] /\ Distance[{xy[1], xy[2]}] = 1}}

VacantIn(c, M) == {l \in PairsOf(c) : \A x \in l : M[x] = NoProgram}
AroundIn(c, P, M, x, y) ==
  {x, y} \cup {P[p] : p \in UNION {Near(c, q) : q \in {M[x], M[y]} \ {NoProgram}}}

-----------------------------------------------------------------------------
(* What InstanceShape says of a call.                                      *)
LEMMA CallShape ==
  ASSUME NEW c \in Instances
  PROVE  /\ ProgramOf(c) \cap DOMAIN c.fixed = {}
         /\ NoProgram \notin ProgramIn(c)
         /\ PhysicalOf(c) \subseteq Phys
         /\ \A p \in DOMAIN c.fixed : c.fixed[p] \in Phys \ PhysicalOf(c)
         /\ \A p, q \in DOMAIN c.fixed : c.fixed[p] = c.fixed[q] => p = q
         /\ \A e \in c.graph : \E p, q \in ProgramIn(c) : p # q /\ e = {p, q}
  BY InstanceShape DEF ProgramIn

(* A call has finitely many qubits and gates.                              *)
LEMMA CallFinite ==
  ASSUME NEW c \in Instances
  PROVE  /\ IsFiniteSet(ProgramIn(c))
         /\ IsFiniteSet(c.graph)
         /\ \A p : IsFiniteSet(Near(c, p))
<1>1. Len(c.program) \in Nat /\ IsFiniteSet(DOMAIN c.fixed)
  BY InstanceShape
<1>2. IsFiniteSet(ProgramOf(c))
  <2>1. IsFiniteSet(1 .. Len(c.program))
    BY <1>1, FS_Interval
  <2> DEFINE f == [i \in 1 .. Len(c.program) |-> c.program[i]]
  <2>2. f \in Surjection(1 .. Len(c.program), ProgramOf(c))
    BY DEF Surjection, ProgramOf
  <2> QED
    BY <2>1, <2>2, FS_Surjection
<1>3. IsFiniteSet(ProgramIn(c))
  BY <1>1, <1>2, FS_Union DEF ProgramIn
<1>4. IsFiniteSet(c.graph)
  <2>1. IsFiniteSet(SUBSET ProgramIn(c))
    BY <1>3, FS_SUBSET
  <2>2. c.graph \subseteq SUBSET ProgramIn(c)
    BY CallShape
  <2> QED
    BY <2>1, <2>2, FS_Subset
<1>5. \A p : IsFiniteSet(Near(c, p))
  BY <1>3, FS_Subset DEF Near
<1> QED
  BY <1>3, <1>4, <1>5

(* The heuristic cost is symmetric, and zero between linked qubits.        *)
LEMMA HopsFacts ==
  ASSUME NEW c \in Instances, NEW x \in Phys, NEW y \in Phys
  PROVE  /\ Hops(c, x, y) \in Nat
         /\ Hops(c, x, y) = Hops(c, y, x)
         /\ x = y => Hops(c, x, y) = 0
         /\ Distance[{x, y}] = 1 => Hops(c, x, y) = 0
<1>1. x # y => Distance[{x, y}] \in Nat \ {0}
  BY PlatformShape
<1>2. {x, y} = {y, x}
  OBVIOUS
<1> QED
  BY <1>1, <1>2 DEF Hops

(* The cost of a pair is that of its qubits, whichever comes first.        *)
LEMMA EdgeCostOf ==
  ASSUME NEW c \in Instances, NEW P, PlacementOf(c, P),
         NEW p \in ProgramIn(c), NEW q \in ProgramIn(c), p # q
  PROVE  /\ EdgeCost(c, P, {p, q}) = Hops(c, P[p], P[q])
         /\ EdgeCost(c, P, {p, q}) \in Nat
<1>1. One({p, q}) \in {p, q}
  BY DEF One
<1>2. Other({p, q}, p) = q /\ Other({p, q}, q) = p
  BY DEF Other
<1>3. P[p] \in Phys /\ P[q] \in Phys
  BY DEF PlacementOf
<1>4. Hops(c, P[p], P[q]) = Hops(c, P[q], P[p]) /\ Hops(c, P[p], P[q]) \in Nat
  BY <1>3, HopsFacts
<1>5. CASE One({p, q}) = p
  BY <1>2, <1>4, <1>5 DEF EdgeCost
<1>6. CASE One({p, q}) = q
  BY <1>2, <1>4, <1>6 DEF EdgeCost
<1> QED
  BY <1>1, <1>5, <1>6

(* A cost is never negative.                                               *)
LEMMA ValueIsNat ==
  ASSUME NEW c \in Instances, NEW P, PlacementOf(c, P)
  PROVE  Value(c, P) \in Nat
<1>1. \A e \in c.graph : EdgeCost(c, P, e) \in Nat
  BY CallShape, EdgeCostOf
<1>2. IsFiniteSet(c.graph)
  BY CallFinite
<1> DEFINE f == [e \in c.graph |-> EdgeCost(c, P, e)]
<1>3. \A e \in c.graph : f[e] \in Nat
  BY <1>1
<1> HIDE DEF f
<1>4. SumFunctionOnSet(f, c.graph) \in Nat
  BY <1>2, <1>3, SumIsNat
<1> QED
  BY <1>4 DEF f, Value

(* Exchanging the qubits on x and y, of which one may be free, makes a     *)
(* placement of a placement, and the maps stay inverse.                    *)
LEMMA SwappedIsValid ==
  ASSUME NEW c \in Instances, NEW P, NEW M, Valid(c, P, M),
         NEW x \in PhysicalOf(c), NEW y \in PhysicalOf(c), x # y
  PROVE  /\ Valid(c, Swapped(P, M, x, y), Flipped(M, x, y))
         /\ Swapped(Swapped(P, M, x, y), Flipped(M, x, y), x, y) = P
<1> DEFINE Q == Swapped(P, M, x, y)
           N == Flipped(M, x, y)
<1>1. x \in Phys /\ y \in Phys /\ NoProgram \notin ProgramIn(c)
  BY CallShape
<1>2. P \in [ProgramIn(c) -> Phys] /\ M \in [Phys -> ProgramIn(c) \cup {NoProgram}]
  BY DEF Valid, PlacementOf, MutuallyInverse
<1>3. Q \in [ProgramIn(c) -> Phys]
  BY <1>1, <1>2 DEF Swapped
<1>4. \A p \in ProgramIn(c) : (p = M[x] <=> P[p] = x) /\ (p = M[y] <=> P[p] = y)
  BY <1>1, <1>2 DEF Valid, MutuallyInverse
<1>5. \A p \in ProgramIn(c) : Q[p] = IF P[p] = x THEN y ELSE IF P[p] = y THEN x ELSE P[p]
  BY <1>2, <1>4 DEF Swapped
<1>6. N \in [Phys -> ProgramIn(c) \cup {NoProgram}] /\ N[x] = M[y] /\ N[y] = M[x]
  BY <1>1, <1>2 DEF Flipped
<1>7. \A z \in Phys : z # x /\ z # y => N[z] = M[z]
  BY <1>2 DEF Flipped
<1> HIDE DEF Q, N
<1>8. PlacementOf(c, Q)
  <2>1. \A p, q \in ProgramIn(c) : p # q => Q[p] # Q[q]
    BY <1>5 DEF Valid, PlacementOf
  <2>2. \A p \in DOMAIN c.fixed : P[p] # x /\ P[p] # y /\ p \in ProgramIn(c)
    BY CallShape DEF Valid, PlacementOf, ProgramIn
  <2>3. \A p \in DOMAIN c.fixed : Q[p] = c.fixed[p]
    BY <1>5, <2>2 DEF Valid, PlacementOf
  <2>4. \A p \in ProgramOf(c) : Q[p] \in PhysicalOf(c)
    BY <1>5 DEF Valid, PlacementOf, ProgramIn
  <2> QED
    BY <1>3, <2>1, <2>3, <2>4 DEF PlacementOf
<1>9. MutuallyInverse(c, Q, N)
  <2>1. \A p \in ProgramIn(c) : N[Q[p]] = p
    <3> TAKE p \in ProgramIn(c)
    <3>1. M[P[p]] = p /\ P[p] \in Phys
      BY <1>2 DEF Valid, MutuallyInverse
    <3>2. CASE P[p] = x
      BY <1>5, <1>6, <3>1, <3>2
    <3>3. CASE P[p] = y
      BY <1>5, <1>6, <3>1, <3>3
    <3>4. CASE P[p] # x /\ P[p] # y
      BY <1>5, <1>7, <3>1, <3>4
    <3> QED
      BY <3>2, <3>3, <3>4
  <2>2. ASSUME NEW z \in Phys, N[z] # NoProgram
        PROVE  Q[N[z]] = z
    <3>0. \A u \in Phys : M[u] # NoProgram => M[u] \in ProgramIn(c) /\ P[M[u]] = u
      BY <1>2 DEF Valid, MutuallyInverse
    <3>1. CASE z = x
      BY <1>1, <1>5, <1>6, <2>2, <3>0, <3>1
    <3>2. CASE z = y
      BY <1>1, <1>5, <1>6, <2>2, <3>0, <3>2
    <3>3. CASE z # x /\ z # y
      BY <1>5, <1>7, <2>2, <3>0, <3>3
    <3> QED
      BY <3>1, <3>2, <3>3
  <2> QED
    BY <1>6, <2>1, <2>2 DEF MutuallyInverse
<1>10. Swapped(Q, N, x, y) = P
  <2>1. \A p \in ProgramIn(c) : (p = N[x] <=> P[p] = y) /\ (p = N[y] <=> P[p] = x)
    BY <1>4, <1>6
  <2>2. \A p \in ProgramIn(c) : (IF p = N[x] THEN y ELSE IF p = N[y] THEN x ELSE Q[p]) = P[p]
    BY <1>5, <2>1
  <2>3. DOMAIN Q = ProgramIn(c)
    BY <1>3
  <2>4. Swapped(Q, N, x, y) = [p \in ProgramIn(c) |-> P[p]]
    BY <2>2, <2>3 DEF Swapped
  <2> QED
    BY <1>2, <2>4
<1> QED
  BY <1>8, <1>9, <1>10 DEF Valid, Q, N

-----------------------------------------------------------------------------
(* What an edge's cost changes by when the qubit on x goes to y and the    *)
(* other end stays.                                                        *)
EdgeGain(c, P, M, x, y) ==
  [e \in c.graph |-> IF M[x] # NoProgram /\ M[x] \in e THEN Gain(c, P, x, y, Other(e, M[x])) ELSE 0]

LEMMA GainIsInt ==
  ASSUME NEW c \in Instances, NEW P, PlacementOf(c, P), NEW x \in Phys, NEW y \in Phys,
         NEW q \in ProgramIn(c)
  PROVE  Gain(c, P, x, y, q) \in Int
<1>1. P[q] \in Phys
  BY DEF PlacementOf
<1>2. Hops(c, y, P[q]) \in Nat /\ Hops(c, x, P[q]) \in Nat
  BY <1>1, HopsFacts
<1> QED
  BY <1>2 DEF Gain

LEMMA EdgeGainIsInt ==
  ASSUME NEW c \in Instances, NEW P, NEW M, Valid(c, P, M), NEW x \in Phys, NEW y \in Phys,
         NEW e \in c.graph
  PROVE  EdgeGain(c, P, M, x, y)[e] \in Int
<1>1. CASE M[x] # NoProgram /\ M[x] \in e
  <2>1. Other(e, M[x]) \in ProgramIn(c)
    BY <1>1, CallShape DEF Other
  <2> QED
    BY <1>1, <2>1, GainIsInt DEF EdgeGain, Valid
<1>2. CASE ~ (M[x] # NoProgram /\ M[x] \in e)
  BY <1>2 DEF EdgeGain
<1> QED
  BY <1>1, <1>2

(* The table's sum over the neighbours is the sum over the edges.          *)
LEMMA LeavingIsEdgeGain ==
  ASSUME NEW c \in Instances, NEW P, NEW M, Valid(c, P, M), NEW x \in Phys, NEW y \in Phys
  PROVE  /\ SumFunctionOnSet(EdgeGain(c, P, M, x, y), c.graph) = Leaving(c, P, M, x, y)
         /\ Leaving(c, P, M, x, y) \in Int
<1> DEFINE g == EdgeGain(c, P, M, x, y)
           a == M[x]
<1>0. IsFiniteSet(c.graph)
  BY CallFinite
<1>1. \A e \in c.graph : g[e] \in Int
  BY EdgeGainIsInt
<1>2. CASE a = NoProgram
  <2>1. \A e \in c.graph : g[e] = 0
    BY <1>2 DEF EdgeGain
  <2> HIDE DEF g
  <2>2. SumFunctionOnSet(g, c.graph) = 0
    BY <1>0, <2>1, SumZero
  <2> QED
    BY <1>2, <2>2 DEF g, Leaving
<1>3. CASE a # NoProgram
  <2> DEFINE near == Near(c, a)
             b == [q \in near |-> {a, q}]
             f == [q \in near |-> Gain(c, P, x, y, q)]
             at == {b[q] : q \in near}
             rest == c.graph \ at
  <2>1. a \in ProgramIn(c)
    BY <1>3 DEF Valid, MutuallyInverse
  <2>2. IsFiniteSet(near) /\ IsFiniteSet(at) /\ IsFiniteSet(rest)
    <3>1. IsFiniteSet(near)
      BY CallFinite
    <3>2. at \subseteq c.graph
      BY DEF Near
    <3> QED
      BY <1>0, <3>1, <3>2, FS_Subset
  <2>3. \A q \in near : q # a /\ q \in ProgramIn(c) /\ {a, q} \in c.graph
    BY CallShape DEF Near
  <2>4. \A q \in near : f[q] \in Int /\ g[b[q]] = f[q]
    <3> TAKE q \in near
    <3>1. Other({a, q}, a) = q
      BY <2>3 DEF Other
    <3>2. g[{a, q}] = Gain(c, P, x, y, q)
      BY <1>3, <2>3, <3>1 DEF EdgeGain
    <3>3. Gain(c, P, x, y, q) \in Int
      BY <2>3, GainIsInt DEF Valid
    <3> QED
      BY <3>2, <3>3
  <2>5. \A q, r \in near : b[q] = b[r] => q = r
    BY <2>3
  <2>6. \A e \in rest : g[e] = 0
    <3> SUFFICES ASSUME NEW e \in rest, a \in e
                 PROVE  FALSE
      BY DEF EdgeGain
    <3>1. PICK q \in ProgramIn(c) : e = {a, q}
      BY CallShape, <2>1
    <3>2. q \in near
      BY <3>1 DEF Near
    <3> QED
      BY <3>1, <3>2
  <2>7. at \subseteq c.graph /\ at \cup rest = c.graph /\ at \cap rest = {}
    BY <2>3
  <2>8. \A e \in at \cup rest : g[e] \in Int
    BY <1>1, <2>7
  <2>9. Leaving(c, P, M, x, y) = SumFunctionOnSet(f, near)
    BY <1>3 DEF Leaving
  <2>10. SumFunctionOnSet(g, at) = SumFunctionOnSet(f, near)
    <3> HIDE DEF f, g, b, near
    <3> QED
      BY <2>2, <2>4, <2>5, SumReindex
  <2> HIDE DEF f, g, at, rest, near
  <2>11. SumFunctionOnSet(g, at \cup rest) = SumFunctionOnSet(g, at) + SumFunctionOnSet(g, rest)
    BY <2>2, <2>7, <2>8, SumSplit
  <2>12. SumFunctionOnSet(g, rest) = 0
    BY <2>2, <2>6, SumZero
  <2>13. SumFunctionOnSet(f, near) \in Int
    BY <2>2, <2>4, SumIsInt
  <2>14. SumFunctionOnSet(g, c.graph) = SumFunctionOnSet(f, near)
    <3>1. SumFunctionOnSet(g, at \cup rest) = SumFunctionOnSet(f, near)
      BY <2>10, <2>11, <2>12, <2>13
    <3> QED
      BY <2>7, <3>1, Zenon
  <2> QED
    BY <2>9, <2>13, <2>14 DEF g
<1> QED
  BY <1>2, <1>3

(* valueHeuristicDifferential is the difference of two costs.              *)
LEMMA DeltaExact ==
  ASSUME NEW c \in Instances, NEW P, NEW M, Valid(c, P, M),
         NEW x \in PhysicalOf(c), NEW y \in PhysicalOf(c), x # y, Distance[{x, y}] = 1
  PROVE  /\ Value(c, Swapped(P, M, x, y)) = Value(c, P) + Delta(c, P, M, x, y)
         /\ Delta(c, P, M, x, y) \in Int
<1> DEFINE Q == Swapped(P, M, x, y)
           from == EdgeGain(c, P, M, x, y)
           to == EdgeGain(c, P, M, y, x)
           both == [e \in c.graph |-> from[e] + to[e]]
           old == [e \in c.graph |-> EdgeCost(c, P, e)]
           new == [e \in c.graph |-> EdgeCost(c, Q, e)]
<1>1. x \in Phys /\ y \in Phys /\ NoProgram \notin ProgramIn(c) /\ IsFiniteSet(c.graph)
  BY CallShape, CallFinite
<1>2. PlacementOf(c, P) /\ PlacementOf(c, Q) /\ MutuallyInverse(c, P, M)
  BY SwappedIsValid DEF Valid
<1>3. \A p \in ProgramIn(c) : (p = M[x] <=> P[p] = x) /\ (p = M[y] <=> P[p] = y) /\ P[p] \in Phys
  BY <1>1, <1>2 DEF MutuallyInverse, PlacementOf
<1>4. \A p \in ProgramIn(c) : Q[p] = IF P[p] = x THEN y ELSE IF P[p] = y THEN x ELSE P[p]
  BY <1>2, <1>3 DEF Swapped, PlacementOf
<1>5. \A e \in c.graph : from[e] \in Int /\ to[e] \in Int /\ old[e] \in Int
  <2>1. \A e \in c.graph : from[e] \in Int /\ to[e] \in Int
    BY <1>1, EdgeGainIsInt
  <2>2. \A e \in c.graph : EdgeCost(c, P, e) \in Nat
    BY <1>2, EdgeCostOf, CallShape
  <2> QED
    BY <2>1, <2>2
<1>6. ASSUME NEW e \in c.graph
      PROVE  EdgeCost(c, Q, e) = EdgeCost(c, P, e) + (from[e] + to[e])
  <2>1. PICK p \in ProgramIn(c), q \in ProgramIn(c) : p # q /\ e = {p, q} /\ (P[q] \in {x, y} => P[p] \in {x, y})
    <3>1. PICK p \in ProgramIn(c), q \in ProgramIn(c) : p # q /\ e = {p, q}
      BY CallShape
    <3>2. e = {q, p}
      BY <3>1
    <3> QED
      BY <3>1, <3>2
  <2>2. EdgeCost(c, P, e) = Hops(c, P[p], P[q]) /\ EdgeCost(c, Q, e) = Hops(c, Q[p], Q[q])
    BY <1>2, <2>1, EdgeCostOf
  <2>3. P[p] \in Phys /\ P[q] \in Phys /\ P[p] # P[q]
    BY <1>2, <2>1 DEF PlacementOf
  <2>4. Other(e, p) = q /\ Other(e, q) = p
    BY <2>1 DEF Other
  <2>5. from[e] = IF P[p] = x THEN Hops(c, y, P[q]) - Hops(c, x, P[q])
                  ELSE IF P[q] = x THEN Hops(c, y, P[p]) - Hops(c, x, P[p]) ELSE 0
    BY <1>1, <1>3, <2>1, <2>3, <2>4 DEF EdgeGain, Gain
  <2>6. to[e] = IF P[p] = y THEN Hops(c, x, P[q]) - Hops(c, y, P[q])
                ELSE IF P[q] = y THEN Hops(c, x, P[p]) - Hops(c, y, P[p]) ELSE 0
    BY <1>1, <1>3, <2>1, <2>3, <2>4 DEF EdgeGain, Gain
  <2>7. \A u, v \in Phys : Hops(c, u, v) \in Nat
    BY HopsFacts
  <2>8. Hops(c, x, y) = 0 /\ Hops(c, y, x) = 0 /\ Hops(c, x, x) = 0 /\ Hops(c, y, y) = 0
    BY <1>1, HopsFacts
  <2> HIDE DEF Q, from, to
  <2>9. CASE P[p] \notin {x, y}
    BY <1>4, <2>1, <2>2, <2>3, <2>5, <2>6, <2>7, <2>9
  <2>10. CASE P[p] = x /\ P[q] = y
    BY <1>4, <2>1, <2>2, <2>5, <2>6, <2>8, <2>10
  <2>11. CASE P[p] = y /\ P[q] = x
    BY <1>4, <2>1, <2>2, <2>5, <2>6, <2>8, <2>11
  <2>12. CASE P[p] = x /\ P[q] # y
    <3>1. Q[p] = y /\ Q[q] = P[q]
      BY <1>4, <2>1, <2>3, <2>12
    <3>2. from[e] = Hops(c, y, P[q]) - Hops(c, x, P[q]) /\ to[e] = 0
      BY <2>5, <2>6, <2>12
    <3>3. Hops(c, y, P[q]) \in Nat /\ Hops(c, x, P[q]) \in Nat
      BY <1>1, <2>3, <2>7
    <3> QED
      BY <2>2, <2>12, <3>1, <3>2, <3>3
  <2>13. CASE P[p] = y /\ P[q] # x
    <3>1. Q[p] = x /\ Q[q] = P[q]
      BY <1>4, <2>1, <2>3, <2>13
    <3>2. to[e] = Hops(c, x, P[q]) - Hops(c, y, P[q]) /\ from[e] = 0
      BY <2>5, <2>6, <2>13
    <3>3. Hops(c, y, P[q]) \in Nat /\ Hops(c, x, P[q]) \in Nat
      BY <1>1, <2>3, <2>7
    <3> QED
      BY <2>2, <2>13, <3>1, <3>2, <3>3
  <2> QED
    BY <2>1, <2>9, <2>10, <2>11, <2>12, <2>13
<1>7. \A e \in c.graph : both[e] \in Int /\ both[e] = from[e] + to[e] /\ new[e] = old[e] + both[e]
  <2> HIDE DEF from, to
  <2> QED
    BY <1>5, <1>6
<1>8. SumFunctionOnSet(from, c.graph) = Leaving(c, P, M, x, y) /\ Leaving(c, P, M, x, y) \in Int
  BY <1>1, LeavingIsEdgeGain
<1>9. SumFunctionOnSet(to, c.graph) = Leaving(c, P, M, y, x) /\ Leaving(c, P, M, y, x) \in Int
  BY <1>1, LeavingIsEdgeGain
<1>10. Value(c, P) = SumFunctionOnSet(old, c.graph) /\ Value(c, Q) = SumFunctionOnSet(new, c.graph)
  BY DEF Value
<1> HIDE DEF from, to, both, old, new, Q
<1>11. SumFunctionOnSet(both, c.graph) = SumFunctionOnSet(from, c.graph) + SumFunctionOnSet(to, c.graph)
  BY <1>1, <1>5, <1>7, SumAdd
<1>12. SumFunctionOnSet(new, c.graph) = SumFunctionOnSet(old, c.graph) + SumFunctionOnSet(both, c.graph)
  BY <1>1, <1>5, <1>7, SumAdd
<1> QED
  BY <1>8, <1>9, <1>10, <1>11, <1>12 DEF Delta, Q

(* Taking an exchange back reverts its change.                             *)
LEMMA DeltaReverts ==
  ASSUME NEW c \in Instances, NEW P, NEW M, Valid(c, P, M),
         NEW x \in PhysicalOf(c), NEW y \in PhysicalOf(c), x # y, Distance[{x, y}] = 1
  PROVE  Delta(c, Swapped(P, M, x, y), Flipped(M, x, y), x, y) = - Delta(c, P, M, x, y)
<1> DEFINE Q == Swapped(P, M, x, y)
           N == Flipped(M, x, y)
<1>1. Valid(c, Q, N) /\ Swapped(Q, N, x, y) = P
  BY SwappedIsValid
<1>2. Value(c, Q) = Value(c, P) + Delta(c, P, M, x, y) /\ Delta(c, P, M, x, y) \in Int
  BY DeltaExact
<1> HIDE DEF Q, N
<1>3. Value(c, Swapped(Q, N, x, y)) = Value(c, Q) + Delta(c, Q, N, x, y) /\ Delta(c, Q, N, x, y) \in Int
  BY <1>1, DeltaExact
<1>4. Value(c, P) \in Nat
  BY ValueIsNat DEF Valid
<1>5. Value(c, P) = Value(c, Q) + Delta(c, Q, N, x, y)
  BY <1>1, <1>3, Zenon
<1>6. Delta(c, Q, N, x, y) = - Delta(c, P, M, x, y)
  <2>1. \A a, d, e \in Int : a = (a + d) + e => e = - d
    OBVIOUS
  <2>2. Value(c, P) = (Value(c, P) + Delta(c, P, M, x, y)) + Delta(c, Q, N, x, y)
    BY <1>2, <1>5, Zenon
  <2>3. Value(c, P) \in Int
    BY <1>4
  <2> QED
    BY <1>2, <1>3, <2>1, <2>2, <2>3, Zenon
<1> QED
  BY <1>6 DEF Q, N

(* No neighbour of a qubit away from an exchange has moved.                *)
LEMMA LeavingFar ==
  ASSUME NEW c \in Instances, NEW P, NEW M, Valid(c, P, M),
         NEW x \in PhysicalOf(c), NEW y \in PhysicalOf(c), x # y,
         NEW u \in Phys, NEW v \in Phys,
         u \notin AroundIn(c, Swapped(P, M, x, y), Flipped(M, x, y), x, y)
  PROVE  /\ Flipped(M, x, y)[u] = M[u]
         /\ Leaving(c, Swapped(P, M, x, y), Flipped(M, x, y), u, v) = Leaving(c, P, M, u, v)
<1> DEFINE Q == Swapped(P, M, x, y)
           N == Flipped(M, x, y)
           a == M[u]
<1>1. x \in Phys /\ y \in Phys /\ NoProgram \notin ProgramIn(c)
  BY CallShape
<1>2. P \in [ProgramIn(c) -> Phys] /\ M \in [Phys -> ProgramIn(c) \cup {NoProgram}]
  BY DEF Valid, PlacementOf, MutuallyInverse
<1>3. u # x /\ u # y
  BY DEF AroundIn
<1>4. N[u] = M[u] /\ N[x] = M[y] /\ N[y] = M[x]
  BY <1>1, <1>2, <1>3 DEF Flipped
<1>5. CASE a = NoProgram
  BY <1>4, <1>5 DEF Leaving
<1>6. CASE a # NoProgram
  <2>1. a \in ProgramIn(c) /\ P[a] = u
    BY <1>2, <1>6 DEF Valid, MutuallyInverse
  <2>2. \A p \in ProgramIn(c) : (p = M[x] <=> P[p] = x) /\ (p = M[y] <=> P[p] = y)
    BY <1>1, <1>2 DEF Valid, MutuallyInverse
  <2>3. Q[a] = u
    BY <1>2, <1>3, <2>1, <2>2 DEF Swapped
  <2>4. ASSUME NEW q \in Near(c, a)
        PROVE  Q[q] = P[q]
    <3>1. q \in ProgramIn(c) /\ {a, q} \in c.graph
      BY DEF Near
    <3>2. a \in Near(c, q)
      <4>1. {q, a} = {a, q}
        OBVIOUS
      <4> QED
        BY <2>1, <3>1, <4>1 DEF Near
    <3>3. q # M[x] /\ q # M[y]
      <4> SUFFICES ASSUME q \in {M[x], M[y]}
                   PROVE  FALSE
        OBVIOUS
      <4>1. q \in {N[x], N[y]} \ {NoProgram}
        BY <1>1, <1>4, <3>1
      <4>2. Q[a] \in AroundIn(c, Q, N, x, y)
        BY <3>2, <4>1 DEF AroundIn
      <4> QED
        BY <2>3, <4>2
    <3> QED
      BY <1>2, <3>1, <3>3 DEF Swapped
  <2> HIDE DEF Q, N
  <2>5. \A q \in Near(c, a) : Gain(c, Q, u, v, q) = Gain(c, P, u, v, q)
    BY <2>4 DEF Gain
  <2>6. [q \in Near(c, a) |-> Gain(c, Q, u, v, q)] = [q \in Near(c, a) |-> Gain(c, P, u, v, q)]
    BY <2>5
  <2>7. Leaving(c, Q, N, u, v) = Leaving(c, P, M, u, v)
    BY <1>4, <1>6, <2>6 DEF Leaving
  <2> QED
    BY <1>4, <2>7 DEF Q, N
<1> QED
  BY <1>5, <1>6

(* A pair that may be exchanged has two linked, usable qubits.             *)
LEMMA PairShape ==
  ASSUME NEW c \in Instances, NEW s \in PairsOf(c)
  PROVE  /\ FirstOf(s) \in PhysicalOf(c) /\ SecondOf(s) \in PhysicalOf(c)
         /\ FirstOf(s) # SecondOf(s)
         /\ s = {FirstOf(s), SecondOf(s)}
         /\ Distance[{FirstOf(s), SecondOf(s)}] = 1
         /\ s \subseteq Phys
<1>1. PICK x \in PhysicalOf(c), y \in PhysicalOf(c) : x # y /\ Distance[{x, y}] = 1 /\ s = {x, y}
  BY DEF PairsOf
<1>2. x \in Phys /\ y \in Phys /\ x \in Int /\ y \in Int
  BY CallShape, PlatformShape DEF Phys
<1>3. {x, y} = {y, x}
  OBVIOUS
<1>4. CASE x < y
  <2>1. FirstOf(s) = x /\ SecondOf(s) = y
    BY <1>1, <1>2, <1>4 DEF FirstOf, SecondOf
  <2> QED
    BY <1>1, <1>2, <2>1
<1>5. CASE y < x
  <2>1. FirstOf(s) = y /\ SecondOf(s) = x
    BY <1>1, <1>2, <1>5 DEF FirstOf, SecondOf
  <2> QED
    BY <1>1, <1>2, <1>3, <2>1
<1> QED
  BY <1>1, <1>2, <1>4, <1>5

(* The placement and the map after the exchange of the pair s, the entries *)
(* that are left in the table, and those to refresh.                       *)
After(P, M, s)  == Swapped(P, M, FirstOf(s), SecondOf(s))
MapAfter(M, s)  == Flipped(M, FirstOf(s), SecondOf(s))
PairsAround(c, P, M, s) ==
  {l \in PairsOf(c) : l \cap AroundIn(c, After(P, M, s), MapAfter(M, s), FirstOf(s), SecondOf(s)) # {}}
Left(c, P, M, s) ==
  ((PairsOf(c) \ VacantIn(c, M)) \ (PairsAround(c, P, M, s) \cap VacantIn(c, MapAfter(M, s)))) \cup {s}
Refreshed(c, P, M, s) == (PairsAround(c, P, M, s) \ VacantIn(c, MapAfter(M, s))) \ {s}

(* The entries to keep and to refresh after an exchange are those of all   *)
(* pairs with a program qubit, and those kept are exact.                   *)
LEMMA TableAfter ==
  ASSUME NEW c \in Instances, NEW P, NEW M, Valid(c, P, M), NEW s \in PairsOf(c) \ VacantIn(c, M)
  PROVE  /\ Left(c, P, M, s) \cup Refreshed(c, P, M, s) = PairsOf(c) \ VacantIn(c, MapAfter(M, s))
         /\ \A t \in Left(c, P, M, s) \ Refreshed(c, P, M, s) :
              Delta(c, After(P, M, s), MapAfter(M, s), FirstOf(t), SecondOf(t))
                = IF t = s THEN - Delta(c, P, M, FirstOf(t), SecondOf(t))
                           ELSE Delta(c, P, M, FirstOf(t), SecondOf(t))
<1> DEFINE x == FirstOf(s)
           y == SecondOf(s)
           Q == Swapped(P, M, x, y)
           N == Flipped(M, x, y)
           around == {l \in PairsOf(c) : l \cap AroundIn(c, Q, N, x, y) # {}}
           left == ((PairsOf(c) \ VacantIn(c, M)) \ (around \cap VacantIn(c, N))) \cup {s}
           check == (around \ VacantIn(c, N)) \ {s}
<1>1. x \in PhysicalOf(c) /\ y \in PhysicalOf(c) /\ x # y /\ s = {x, y} /\ Distance[{x, y}] = 1
  BY PairShape
<1>2. x \in Phys /\ y \in Phys
  BY <1>1, CallShape
<1>3. M \in [Phys -> ProgramIn(c) \cup {NoProgram}]
  BY DEF Valid, MutuallyInverse
<1>4. N[x] = M[y] /\ N[y] = M[x] /\ \A z \in Phys : z # x /\ z # y => N[z] = M[z]
  BY <1>1, <1>2, <1>3 DEF Flipped
<1>5. x \in AroundIn(c, Q, N, x, y) /\ y \in AroundIn(c, Q, N, x, y)
  BY DEF AroundIn
<1>6. s \notin VacantIn(c, N)
  BY <1>1, <1>4 DEF VacantIn
<1>7. \A l \in PairsOf(c) : l \subseteq Phys
  BY PairShape
<1> HIDE DEF x, y, Q, N
<1>8. \A l \in PairsOf(c) \ around : x \notin l /\ y \notin l /\ (l \in VacantIn(c, N) <=> l \in VacantIn(c, M))
  <2> TAKE l \in PairsOf(c) \ around
  <2>1. x \notin l /\ y \notin l
    BY <1>5 DEF x, y
  <2> QED
    BY <1>4, <1>7, <2>1 DEF VacantIn
<1>9. VacantIn(c, N) \subseteq PairsOf(c) /\ around \subseteq PairsOf(c)
  BY DEF VacantIn
<1>10. left \cup check = PairsOf(c) \ VacantIn(c, N)
  <2>1. ASSUME NEW l \in left \cup check
        PROVE  l \in PairsOf(c) \ VacantIn(c, N)
    BY <1>6, <1>8, <1>9, <2>1
  <2>2. ASSUME NEW l \in PairsOf(c) \ VacantIn(c, N)
        PROVE  l \in left \cup check
    BY <1>8, <2>2
  <2> QED
    BY <2>1, <2>2
<1>11. Delta(c, Q, N, x, y) = - Delta(c, P, M, x, y)
  BY <1>1, DeltaReverts DEF x, y, Q, N
<1>12. ASSUME NEW t \in left \ check, t # s
       PROVE  Delta(c, Q, N, FirstOf(t), SecondOf(t)) = Delta(c, P, M, FirstOf(t), SecondOf(t))
  <2> DEFINE u == FirstOf(t)
             v == SecondOf(t)
  <2>1. t \in PairsOf(c) \ around
    BY <1>12
  <2>2. u \in Phys /\ v \in Phys /\ t = {u, v}
    BY <2>1, PairShape, CallShape
  <2>3. u \notin AroundIn(c, Q, N, x, y) /\ v \notin AroundIn(c, Q, N, x, y)
    BY <2>1, <2>2 DEF x, y
  <2> HIDE DEF u, v
  <2>4. Leaving(c, Q, N, u, v) = Leaving(c, P, M, u, v) /\ Leaving(c, Q, N, v, u) = Leaving(c, P, M, v, u)
    BY <1>1, <2>2, <2>3, LeavingFar DEF x, y, Q, N
  <2> QED
    BY <2>4 DEF Delta, u, v
<1> QED
  <2>1. After(P, M, s) = Q /\ MapAfter(M, s) = N /\ Left(c, P, M, s) = left /\ Refreshed(c, P, M, s) = check
    BY DEF After, MapAfter, PairsAround, Left, Refreshed, Q, N, x, y
  <2> HIDE DEF left, check
  <2> QED
    BY <1>10, <1>11, <1>12, <2>1 DEF x, y

-----------------------------------------------------------------------------
InOrderOf(c) ==
  [p \in ProgramIn(c) |-> IF p \in DOMAIN c.fixed THEN c.fixed[p]
                          ELSE c.physical[CHOOSE i \in 1 .. Len(c.program) : c.program[i] = p]]

(* Placing in order is a placement, if there is room.                      *)
LEMMA InOrderIsPlacement ==
  ASSUME NEW c \in Instances, Len(c.program) <= Len(c.physical)
  PROVE  PlacementOf(c, InOrderOf(c))
<1> DEFINE At(p) == CHOOSE i \in 1 .. Len(c.program) : c.program[i] = p
           P == InOrderOf(c)
<1>1. Len(c.program) \in Nat /\ Len(c.physical) \in Nat
  BY InstanceShape
<1>2. \A i, j \in 1 .. Len(c.physical) : c.physical[i] = c.physical[j] => i = j
  BY InstanceShape
<1>3. \A p \in ProgramOf(c) : At(p) \in 1 .. Len(c.program) /\ c.program[At(p)] = p
  BY DEF ProgramOf
<1>4. \A p \in ProgramOf(c) : At(p) \in 1 .. Len(c.physical)
  BY <1>1, <1>3
<1>5. \A p \in ProgramOf(c) : P[p] = c.physical[At(p)] /\ P[p] \in PhysicalOf(c)
  BY <1>4, CallShape DEF InOrderOf, ProgramIn, PhysicalOf
<1>6. \A p \in DOMAIN c.fixed : P[p] = c.fixed[p] /\ P[p] \in Phys \ PhysicalOf(c)
  BY CallShape DEF InOrderOf, ProgramIn
<1>7. P \in [ProgramIn(c) -> Phys]
  <2>1. \A p \in ProgramIn(c) : P[p] \in Phys
    BY <1>5, <1>6, CallShape DEF ProgramIn
  <2>2. P = [p \in ProgramIn(c) |-> P[p]]
    BY DEF InOrderOf
  <2> HIDE DEF P
  <2> QED
    BY <2>1, <2>2
<1> HIDE DEF P, At
<1>8. ASSUME NEW p \in ProgramIn(c), NEW q \in ProgramIn(c), P[p] = P[q]
      PROVE  p = q
  <2>1. CASE p \in ProgramOf(c) /\ q \in ProgramOf(c)
    <3>1. At(p) = At(q)
      BY <1>2, <1>4, <1>5, <1>8, <2>1
    <3> QED
      BY <1>3, <2>1, <3>1
  <2>2. CASE p \in DOMAIN c.fixed /\ q \in DOMAIN c.fixed
    BY <1>6, <1>8, <2>2, CallShape
  <2>3. CASE p \in DOMAIN c.fixed <=> q \in ProgramOf(c)
    BY <1>5, <1>6, <1>8, <2>3, CallShape DEF ProgramIn
  <2> QED
    BY <2>1, <2>2, <2>3 DEF ProgramIn
<1> QED
  BY <1>5, <1>6, <1>7, <1>8 DEF PlacementOf, P

(* The map from physical qubits is the only inverse of a placement.        *)
LEMMA MapOfPlacement ==
  ASSUME NEW c \in Instances, NEW P, PlacementOf(c, P)
  PROVE  /\ MutuallyInverse(c, P, initializePhysToProgramMap(P))
         /\ \A M : MutuallyInverse(c, P, M) => M = initializePhysToProgramMap(P)
<1> DEFINE N == initializePhysToProgramMap(P)
<1>1. P \in [ProgramIn(c) -> Phys] /\ NoProgram \notin ProgramIn(c)
  BY CallShape DEF PlacementOf
<1>2. \A p, q \in ProgramIn(c) : P[p] = P[q] => p = q
  BY DEF PlacementOf
<1>3. \A p \in ProgramIn(c) : N[P[p]] = p
  BY <1>1, <1>2 DEF initializePhysToProgramMap
<1>4. \A x \in Phys : (\A p \in ProgramIn(c) : P[p] # x) => N[x] = NoProgram
  BY <1>1 DEF initializePhysToProgramMap
<1>5. N = [x \in Phys |-> N[x]]
  BY DEF initializePhysToProgramMap
<1> HIDE DEF N
<1>6. N \in [Phys -> ProgramIn(c) \cup {NoProgram}]
  BY <1>3, <1>4, <1>5
<1>7. \A x \in Phys : N[x] # NoProgram => P[N[x]] = x
  BY <1>3, <1>4
<1>8. ASSUME NEW M, MutuallyInverse(c, P, M)
      PROVE  M = N
  <2>1. M \in [Phys -> ProgramIn(c) \cup {NoProgram}]
    BY <1>8 DEF MutuallyInverse
  <2>2. \A x \in Phys : M[x] = N[x]
    BY <1>1, <1>3, <1>4, <1>8, <2>1 DEF MutuallyInverse
  <2> QED
    BY <1>6, <2>1, <2>2
<1> QED
  BY <1>3, <1>6, <1>7, <1>8 DEF N, MutuallyInverse

-----------------------------------------------------------------------------
(* The operators of the model, in these terms.                             *)
LEMMA Restated ==
  ASSUME call \in Instances
  PROVE  /\ Program = ProgramIn(call) /\ ToPlace = ProgramOf(call) /\ Usable = PhysicalOf(call)
         /\ connected_pairs = PairsOf(call)
         /\ \A P : valueHeuristic(P) = Value(call, P)
         /\ \A P : IsPlacement(P) /\ P \in [DOMAIN P -> Phys] <=> PlacementOf(call, P)
         /\ \A s : valueHeuristicDifferential(s)
                     = Delta(call, current_placement, phys_to_program_map, FirstOf(s), SecondOf(s))
         /\ \A P, x, y : Moved(P, x, y) = Swapped(P, phys_to_program_map, x, y)
         /\ \A x, y : Exchanged(x, y) = Flipped(phys_to_program_map, x, y)
         /\ \A M : Vacant(M) = VacantIn(call, M)
         /\ \A P, M, x, y : Around(P, M, x, y) = AroundIn(call, P, M, x, y)
         /\ InOrder = InOrderOf(call)
<1>1. Program = ProgramIn(call) /\ ToPlace = ProgramOf(call) /\ Usable = PhysicalOf(call)
  BY DEF Program, ToPlace, Usable, ProgramIn
<1>2. connected_pairs = PairsOf(call)
  BY DEF connected_pairs, PairsOf, Usable
<1>3. \A x, y : heuristic_cost(x, y) = Hops(call, x, y)
  BY DEF heuristic_cost, Hops, Usable
<1>4. \A P : valueHeuristic(P) = Value(call, P)
  <2> TAKE P
  <2>1. \A e : PairCost(P, e) = EdgeCost(call, P, e)
    BY <1>3 DEF PairCost, EdgeCost, One, Other
  <2>2. [e \in call.graph |-> PairCost(P, e)] = [e \in call.graph |-> EdgeCost(call, P, e)]
    BY <2>1
  <2> QED
    BY <2>2 DEF valueHeuristic, Value, SumFunction
<1>5. \A p : Neighbours(p) = Near(call, p)
  BY <1>1 DEF Neighbours, Near
<1>6. \A x, y : CostOfMove(x, y) = Leaving(call, current_placement, phys_to_program_map, x, y)
  <2> TAKE x, y
  <2> DEFINE a == phys_to_program_map[x]
             f == [q \in Neighbours(a) |->
                      heuristic_cost(y, current_placement[q]) - heuristic_cost(x, current_placement[q])]
             g == [q \in Near(call, a) |-> Gain(call, current_placement, x, y, q)]
  <2>1. f = g
    BY <1>3, <1>5 DEF Gain
  <2>2. DOMAIN f = Near(call, a)
    BY <1>5
  <2> HIDE DEF f, g
  <2>3. SumFunction(f) = SumFunctionOnSet(g, Near(call, a))
    BY <2>1, <2>2 DEF SumFunction
  <2> QED
    BY <2>3 DEF CostOfMove, Leaving, f, g
<1>7. \A s : valueHeuristicDifferential(s)
               = Delta(call, current_placement, phys_to_program_map, FirstOf(s), SecondOf(s))
  BY <1>6 DEF valueHeuristicDifferential, Delta
<1>8. \A P : IsPlacement(P) /\ P \in [DOMAIN P -> Phys] <=> PlacementOf(call, P)
  BY <1>1 DEF IsPlacement, PlacementOf
<1>9. \A P, x, y : Moved(P, x, y) = Swapped(P, phys_to_program_map, x, y)
  BY DEF Moved, Swapped
<1>10. \A x, y : Exchanged(x, y) = Flipped(phys_to_program_map, x, y)
  BY DEF Exchanged, Flipped
<1>11. \A M : Vacant(M) = VacantIn(call, M)
  BY <1>2 DEF Vacant, VacantIn
<1>12. \A P, M, x, y : Around(P, M, x, y) = AroundIn(call, P, M, x, y)
  BY <1>5 DEF Around, AroundIn
<1>13. InOrder = InOrderOf(call)
  BY <1>1 DEF InOrder, InOrderOf
<1> QED
  BY <1>1, <1>2, <1>4, <1>7, <1>8, <1>9, <1>10, <1>11, <1>12, <1>13

-----------------------------------------------------------------------------
(* The inductive invariant.  StateOK is TypeOK without the entries of the  *)
(* table, with what the guards of the call leave behind.                   *)
StateOK ==
  /\ pc \in {"start", "reset", "check", "move", "done", "exit", "undefined"}
  /\ reset \in 0 .. num_resets /\ iteration \in 0 .. num_iterations
  /\ pc = "start" => reset = 0
  /\ pc = "move" => iteration < num_iterations
  /\ call \in Instances
  /\ pc \notin {"start", "exit"} => Len(call.program) <= Len(call.physical)
  /\ current_placement \in [DOMAIN current_placement -> Phys]
  /\ {current_placement_cost, best_placement_cost} \subseteq Nat
  /\ phys_to_program_map \in [Phys -> ProgramIn(call) \cup {NoProgram}]
  /\ swaps_to_check \subseteq PairsOf(call)
  /\ DOMAIN placement_cost_differential \subseteq PairsOf(call)

CurrentOK ==
  Searching => /\ Valid(call, current_placement, phys_to_program_map)
               /\ current_placement_cost = Value(call, current_placement)

BestOK ==
  /\ pc \in {"reset", "check", "move", "done"} =>
       /\ PlacementOf(call, best_placement)
       /\ Value(call, best_placement) <= Value(call, InOrderOf(call))
  /\ pc \in {"reset", "check", "move"} \/ (pc = "done" /\ reset > 0) =>
       best_placement_cost = Value(call, best_placement)

EntryOK(s) ==
  placement_cost_differential[s]
    = Delta(call, current_placement, phys_to_program_map, FirstOf(s), SecondOf(s))

TableOK ==
  Searching =>
    /\ DOMAIN placement_cost_differential \cup swaps_to_check
         = PairsOf(call) \ VacantIn(call, phys_to_program_map)
    /\ pc = "move" => swaps_to_check \subseteq DOMAIN placement_cost_differential
    /\ \A s \in DOMAIN placement_cost_differential :
         pc = "move" \/ s \notin swaps_to_check => EntryOK(s)

IInv == StateOK /\ CurrentOK /\ BestOK /\ TableOK

(* The invariant holds at first and after every step.                      *)
LEMMA InitIInv == Init => IInv
<1> SUFFICES ASSUME Init
             PROVE  IInv
  OBVIOUS
<1>1. DOMAIN <<>> = {} /\ <<>> \in [{} -> Phys]
  OBVIOUS
<1>2. StateOK
  BY <1>1, OptionsShape DEF Init, StateOK
<1> QED
  BY <1>2 DEF Init, IInv, CurrentOK, BestOK, TableOK, Searching

LEMMA StepTooManyQubits == IInv /\ TooManyQubits => IInv'
  BY DEF IInv, StateOK, CurrentOK, BestOK, TableOK, EntryOK, Searching, TooManyQubits,
         currentVars, tableVars, bestVars

LEMMA StepPlaceInOrder == IInv /\ PlaceInOrder => IInv'
<1> SUFFICES ASSUME IInv, PlaceInOrder
             PROVE  IInv'
  OBVIOUS
<1> USE DEF currentVars, tableVars, bestVars
<1>1. call' = call /\ call \in Instances /\ Len(call.program) <= Len(call.physical)
  BY DEF IInv, StateOK, PlaceInOrder
<1>2. best_placement' = InOrderOf(call) /\ pc' \in {"reset", "done"}
  BY <1>1, Restated DEF PlaceInOrder
<1>3. PlacementOf(call, best_placement') /\ Value(call, best_placement') \in Nat
  BY <1>1, <1>2, InOrderIsPlacement, ValueIsNat
<1>4. pc' = "reset" => best_placement_cost' = Value(call, best_placement')
  BY <1>1, Restated DEF PlaceInOrder
<1>5. best_placement_cost' \in Nat
  BY <1>3, <1>4 DEF PlaceInOrder, IInv, StateOK
<1>6. StateOK'
  BY <1>1, <1>2, <1>5 DEF IInv, StateOK, PlaceInOrder
<1>7. BestOK'
  <2>1. ~ (reset' > 0)
    BY DEF PlaceInOrder, IInv, StateOK
  <2> QED
    BY <1>1, <1>2, <1>3, <1>4, <2>1 DEF BestOK
<1> QED
  BY <1>2, <1>6, <1>7 DEF IInv, CurrentOK, TableOK, Searching

LEMMA StepShuffle == IInv /\ Shuffle => IInv'
<1> SUFFICES ASSUME IInv, Shuffle
             PROVE  IInv'
  OBVIOUS
<1> USE DEF currentVars, tableVars, bestVars
<1> DEFINE P == current_placement'
           M == phys_to_program_map'
<1>1. call' = call /\ call \in Instances /\ pc' = "check" /\ reset' \in 0 .. num_resets /\ reset' > 0
  BY OptionsShape DEF IInv, StateOK, Shuffle
<1>2. PICK where \in [ToPlace -> Usable] :
        /\ \A p, q \in ToPlace : p # q => where[p] # where[q]
        /\ P = [p \in Program |-> IF p \in ToPlace THEN where[p] ELSE call.fixed[p]]
  BY DEF Shuffle
<1>3. PlacementOf(call, P)
  <2>1. ToPlace = ProgramOf(call) /\ Usable = PhysicalOf(call) /\ Program = ProgramIn(call)
    BY <1>1, Restated
  <2>2. \A p \in ProgramOf(call) : P[p] = where[p] /\ P[p] \in PhysicalOf(call) /\ P[p] \in Phys
    BY <1>1, <1>2, <2>1, CallShape DEF ProgramIn
  <2>3. \A p \in DOMAIN call.fixed : P[p] = call.fixed[p] /\ P[p] \in Phys \ PhysicalOf(call)
    BY <1>1, <1>2, <2>1, CallShape DEF ProgramIn
  <2>4. P \in [ProgramIn(call) -> Phys]
    <3>1. \A p \in ProgramIn(call) : P[p] \in Phys
      BY <2>2, <2>3 DEF ProgramIn
    <3>2. P = [p \in ProgramIn(call) |-> P[p]]
      BY <1>2, <2>1
    <3> QED
      BY <3>1, <3>2
  <2>5. ASSUME NEW p \in ProgramIn(call), NEW q \in ProgramIn(call), p # q
        PROVE  P[p] # P[q]
    <3>1. CASE p \in ProgramOf(call) /\ q \in ProgramOf(call)
      BY <1>2, <2>1, <2>2, <2>5, <3>1
    <3>2. CASE p \in DOMAIN call.fixed /\ q \in DOMAIN call.fixed
      BY <1>1, <2>3, <2>5, <3>2, CallShape
    <3>3. CASE p \in DOMAIN call.fixed <=> q \in ProgramOf(call)
      BY <1>1, <2>2, <2>3, <3>3, CallShape DEF ProgramIn
    <3> QED
      BY <3>1, <3>2, <3>3 DEF ProgramIn
  <2> QED
    BY <2>2, <2>3, <2>4, <2>5 DEF PlacementOf
<1>4. M = initializePhysToProgramMap(P)
  BY DEF Shuffle
<1> HIDE DEF P, M
<1>5. Valid(call, P, M)
  BY <1>1, <1>3, <1>4, MapOfPlacement DEF Valid
<1>6. current_placement_cost' = Value(call, P) /\ Value(call, P) \in Nat
  <2>1. current_placement_cost' = valueHeuristic(P)
    BY DEF Shuffle, P
  <2> QED
    BY <1>1, <1>3, <2>1, Restated, ValueIsNat
<1>7. DOMAIN placement_cost_differential' = {}
  BY DEF Shuffle
<1>8. swaps_to_check' = PairsOf(call) \ VacantIn(call, M)
  <2> DEFINE on == {P[p] : p \in ProgramIn(call)}
  <2>1. swaps_to_check' = {l \in PairsOf(call) : l \cap on # {}}
    <3>1. swaps_to_check' = PairsAt({P[p] : p \in Program})
      BY DEF Shuffle, P
    <3> QED
      BY <1>1, <3>1, Restated DEF PairsAt
  <2>2. \A x \in Phys : x \in on <=> M[x] # NoProgram
    <3>1. NoProgram \notin ProgramIn(call) /\ M \in [Phys -> ProgramIn(call) \cup {NoProgram}]
      BY <1>1, <1>5, CallShape DEF Valid, MutuallyInverse
    <3> QED
      BY <1>5, <3>1 DEF Valid, MutuallyInverse
  <2>3. \A l \in PairsOf(call) : l \subseteq Phys
    BY <1>1, PairShape
  <2> HIDE DEF on
  <2> QED
    BY <2>1, <2>2, <2>3 DEF VacantIn
<1>9. StateOK'
  <2>1. P \in [DOMAIN P -> Phys] /\ M \in [Phys -> ProgramIn(call) \cup {NoProgram}]
    BY <1>5 DEF Valid, PlacementOf, MutuallyInverse
  <2>2. iteration' = 0 /\ best_placement_cost' \in Nat /\ Len(call.program) <= Len(call.physical)
    BY DEF IInv, StateOK, Shuffle
  <2> QED
    BY <1>1, <1>6, <1>7, <1>8, <2>1, <2>2, OptionsShape DEF StateOK, P, M
<1>10. CurrentOK'
  BY <1>1, <1>5, <1>6 DEF CurrentOK, P, M
<1>11. BestOK'
  BY <1>1 DEF IInv, BestOK, Shuffle
<1>12. TableOK'
  BY <1>1, <1>7, <1>8 DEF TableOK, M
<1> QED
  BY <1>9, <1>10, <1>11, <1>12 DEF IInv

(* What is known of a pair that may be exchanged.                          *)
LEMMA PairFacts ==
  ASSUME IInv, Searching, NEW s \in PairsOf(call)
  PROVE  /\ FirstOf(s) \in PhysicalOf(call) /\ SecondOf(s) \in PhysicalOf(call)
         /\ FirstOf(s) # SecondOf(s) /\ Distance[{FirstOf(s), SecondOf(s)}] = 1
         /\ Valid(call, Swapped(current_placement, phys_to_program_map, FirstOf(s), SecondOf(s)),
                        Flipped(phys_to_program_map, FirstOf(s), SecondOf(s)))
         /\ Value(call, Swapped(current_placement, phys_to_program_map, FirstOf(s), SecondOf(s)))
              = current_placement_cost
                + Delta(call, current_placement, phys_to_program_map, FirstOf(s), SecondOf(s))
         /\ Value(call, Swapped(current_placement, phys_to_program_map, FirstOf(s), SecondOf(s))) \in Nat
<1> DEFINE x == FirstOf(s)
           y == SecondOf(s)
<1>1. call \in Instances /\ Valid(call, current_placement, phys_to_program_map)
      /\ current_placement_cost = Value(call, current_placement)
  BY DEF IInv, StateOK, CurrentOK
<1>2. x \in PhysicalOf(call) /\ y \in PhysicalOf(call) /\ x # y /\ Distance[{x, y}] = 1
  BY <1>1, PairShape
<1> HIDE DEF x, y
<1>3. Valid(call, Swapped(current_placement, phys_to_program_map, x, y), Flipped(phys_to_program_map, x, y))
  BY <1>1, <1>2, SwappedIsValid
<1>4. Value(call, Swapped(current_placement, phys_to_program_map, x, y))
        = Value(call, current_placement) + Delta(call, current_placement, phys_to_program_map, x, y)
  BY <1>1, <1>2, DeltaExact
<1>5. Value(call, Swapped(current_placement, phys_to_program_map, x, y)) \in Nat
  BY <1>1, <1>3, ValueIsNat DEF Valid
<1> QED
  BY <1>1, <1>2, <1>3, <1>4, <1>5 DEF x, y

LEMMA StepReturnZeroCost == IInv /\ ReturnZeroCost => IInv'
<1> SUFFICES ASSUME IInv, ReturnZeroCost
             PROVE  IInv'
  OBVIOUS
<1> USE DEF currentVars, tableVars, bestVars
<1>1. call' = call /\ call \in Instances /\ pc' = "done" /\ Searching /\ reset' = reset
  BY DEF IInv, StateOK, ReturnZeroCost, Searching
<1>2. PICK s \in swaps_to_check :
        /\ CostAfter(s) = 0
        /\ best_placement' = Moved(current_placement, FirstOf(s), SecondOf(s))
        /\ best_placement_cost' = 0
  BY DEF ReturnZeroCost
<1>3. s \in PairsOf(call)
  BY DEF IInv, StateOK
<1>4. best_placement' = Swapped(current_placement, phys_to_program_map, FirstOf(s), SecondOf(s))
  BY <1>1, <1>2, Restated
<1>5. CostAfter(s) = current_placement_cost
                       + Delta(call, current_placement, phys_to_program_map, FirstOf(s), SecondOf(s))
  BY <1>1, Restated DEF CostAfter
<1>6. PlacementOf(call, best_placement') /\ Value(call, best_placement') = 0
  BY <1>1, <1>2, <1>3, <1>4, <1>5, PairFacts DEF Valid
<1>7. Value(call, InOrderOf(call)) \in Nat
  <2>1. Len(call.program) <= Len(call.physical)
    BY DEF IInv, StateOK, ReturnZeroCost
  <2> QED
    BY <1>1, <2>1, InOrderIsPlacement, ValueIsNat
<1>8. StateOK'
  BY <1>1, <1>2 DEF IInv, StateOK, ReturnZeroCost
<1>9. BestOK'
  BY <1>1, <1>2, <1>6, <1>7 DEF BestOK
<1> QED
  BY <1>1, <1>8, <1>9 DEF IInv, CurrentOK, TableOK, Searching

LEMMA StepCheckSwaps == IInv /\ CheckSwaps => IInv'
<1> SUFFICES ASSUME IInv, CheckSwaps
             PROVE  IInv'
  OBVIOUS
<1> USE DEF currentVars, tableVars, bestVars
<1>1. call' = call /\ call \in Instances /\ pc' = "move" /\ pc = "check" /\ Searching
      /\ UNCHANGED <<current_placement, current_placement_cost, phys_to_program_map, swaps_to_check>>
  BY DEF IInv, StateOK, CheckSwaps, Searching
<1> DEFINE entries == DOMAIN placement_cost_differential \cup swaps_to_check
<1>2. DOMAIN placement_cost_differential' = entries
  BY DEF CheckSwaps
<1>3. entries = PairsOf(call) \ VacantIn(call, phys_to_program_map)
  BY <1>1 DEF IInv, TableOK
<1>4. ASSUME NEW s \in entries
      PROVE  placement_cost_differential'[s]
               = Delta(call, current_placement, phys_to_program_map, FirstOf(s), SecondOf(s))
  <2>1. CASE s \in swaps_to_check
    <3>1. placement_cost_differential'[s] = valueHeuristicDifferential(s)
      BY <2>1 DEF CheckSwaps
    <3> QED
      BY <1>1, <3>1, Restated
  <2>2. CASE s \notin swaps_to_check
    <3>1. placement_cost_differential'[s] = placement_cost_differential[s]
      BY <2>2, <1>4 DEF CheckSwaps
    <3> QED
      BY <1>1, <1>4, <2>2, <3>1 DEF IInv, TableOK, EntryOK
  <2> QED
    BY <2>1, <2>2
<1> HIDE DEF entries
<1>5. TableOK'
  <2>1. swaps_to_check \subseteq entries
    BY DEF entries
  <2> QED
    BY <1>1, <1>2, <1>3, <1>4, <2>1 DEF TableOK, EntryOK
<1>6. StateOK'
  <2>1. entries \subseteq PairsOf(call)
    BY <1>3
  <2> QED
    BY <1>1, <1>2, <2>1 DEF IInv, StateOK, CheckSwaps
<1>7. CurrentOK'
  BY <1>1 DEF IInv, CurrentOK, Searching
<1>8. BestOK'
  BY <1>1 DEF IInv, BestOK, CheckSwaps
<1> QED
  BY <1>5, <1>6, <1>7, <1>8 DEF IInv

LEMMA StepMove == ASSUME IInv, pc = "move", NEW s \in DOMAIN placement_cost_differential, Move(s)
                  PROVE  IInv'
<1> USE DEF currentVars, tableVars, bestVars
<1> DEFINE x == FirstOf(s)
           y == SecondOf(s)
           P == current_placement
           M == phys_to_program_map
           Q == After(P, M, s)
           N == MapAfter(M, s)
           around == PairsAround(call, P, M, s)
           left == Left(call, P, M, s)
           check == Refreshed(call, P, M, s)
<1>1. call' = call /\ call \in Instances /\ pc' = "check" /\ Searching /\ reset' = reset
      /\ iteration' = iteration + 1 /\ iteration < num_iterations
  BY DEF IInv, StateOK, Move, Searching
<1>2. DOMAIN placement_cost_differential = PairsOf(call) \ VacantIn(call, M) /\ s \in PairsOf(call)
  BY <1>1 DEF IInv, TableOK
<1>3. \A t \in DOMAIN placement_cost_differential :
        placement_cost_differential[t] = Delta(call, P, M, FirstOf(t), SecondOf(t))
  BY <1>1 DEF IInv, TableOK, EntryOK
<1>4. Valid(call, P, M) /\ current_placement_cost = Value(call, P)
  BY <1>1 DEF IInv, CurrentOK
<1>5. current_placement' = Q /\ phys_to_program_map' = N
      /\ current_placement_cost' = current_placement_cost + placement_cost_differential[s]
  BY <1>1, Restated DEF Move, Swap, After, MapAfter
<1>6. Valid(call, Q, N) /\ Value(call, Q) \in Nat
      /\ Value(call, Q) = current_placement_cost + Delta(call, P, M, x, y)
  BY <1>1, <1>2, PairFacts DEF After, MapAfter
<1>7. current_placement_cost' = Value(call, Q)
  BY <1>3, <1>5, <1>6
<1>8. /\ swaps_to_check' = check
      /\ DOMAIN placement_cost_differential' = left
      /\ \A t \in left : placement_cost_differential'[t]
                          = IF t = s THEN - placement_cost_differential[s] ELSE placement_cost_differential[t]
  <2>1. PairsAt(Around(current_placement', phys_to_program_map', x, y)) = around
    BY <1>1, <1>5, Restated DEF PairsAt, PairsAround
  <2>2. Vacant(phys_to_program_map') = VacantIn(call, N)
    BY <1>1, <1>5, Restated
  <2> HIDE DEF around, x, y, Q, N, M
  <2> QED
    BY <1>2, <2>1, <2>2 DEF Move, Swap, x, y, left, check, Left, Refreshed, around, N, M
<1>9. /\ left \cup check = PairsOf(call) \ VacantIn(call, N)
      /\ \A t \in left \ check :
           Delta(call, Q, N, FirstOf(t), SecondOf(t))
             = IF t = s THEN - Delta(call, P, M, FirstOf(t), SecondOf(t))
                        ELSE Delta(call, P, M, FirstOf(t), SecondOf(t))
  <2>1. s \in PairsOf(call) \ VacantIn(call, M)
    BY <1>2
  <2> HIDE DEF P, M
  <2> QED
    BY <1>1, <1>4, <2>1, TableAfter
<1>10. left \subseteq DOMAIN placement_cost_differential
  BY <1>2 DEF Left
<1> HIDE DEF x, y, P, M, Q, N, around, left, check
<1>11. TableOK'
  <2>1. \A t \in left \ check :
          placement_cost_differential'[t] = Delta(call, Q, N, FirstOf(t), SecondOf(t))
    BY <1>3, <1>8, <1>9, <1>10
  <2> QED
    BY <1>1, <1>5, <1>8, <1>9, <2>1 DEF TableOK, EntryOK
<1>12. CurrentOK'
  BY <1>1, <1>5, <1>6, <1>7 DEF CurrentOK
<1>13. best_placement_cost' \in Nat /\ BestOK'
  <2>0. PlacementOf(call, best_placement) /\ Value(call, best_placement) <= Value(call, InOrderOf(call))
        /\ best_placement_cost = Value(call, best_placement) /\ best_placement_cost \in Nat
    BY DEF IInv, StateOK, BestOK
  <2>1. CASE best_placement_cost > current_placement_cost'
    <3>1. best_placement' = Q /\ best_placement_cost' = Value(call, Q)
      BY <1>5, <1>7, <2>1 DEF Move, KeepBest
    <3>2. PlacementOf(call, Q) /\ Value(call, Q) < Value(call, best_placement)
      BY <1>6, <1>7, <2>0, <2>1 DEF Valid
    <3>3. Value(call, InOrderOf(call)) \in Nat
      <4>1. Len(call.program) <= Len(call.physical)
        BY DEF IInv, StateOK
      <4> QED
        BY <1>1, <4>1, InOrderIsPlacement, ValueIsNat
    <3>4. Value(call, Q) <= Value(call, InOrderOf(call))
      BY <1>6, <2>0, <3>2, <3>3
    <3> QED
      BY <1>1, <1>6, <3>1, <3>2, <3>4 DEF BestOK
  <2>2. CASE ~ (best_placement_cost > current_placement_cost')
    <3>1. UNCHANGED <<best_placement, best_placement_cost>>
      BY <2>2 DEF Move, KeepBest
    <3> QED
      BY <1>1, <2>0, <3>1 DEF BestOK
  <2> QED
    BY <2>1, <2>2
<1>14. StateOK'
  <2>1. Q \in [DOMAIN Q -> Phys] /\ N \in [Phys -> ProgramIn(call) \cup {NoProgram}]
    BY <1>6 DEF Valid, PlacementOf, MutuallyInverse
  <2>2. left \subseteq PairsOf(call) /\ check \subseteq PairsOf(call)
    BY <1>9
  <2>3. iteration' \in 0 .. num_iterations /\ reset' \in 0 .. num_resets
        /\ Len(call.program) <= Len(call.physical)
    BY <1>1, OptionsShape DEF IInv, StateOK
  <2> QED
    BY <1>1, <1>5, <1>6, <1>7, <1>8, <1>13, <2>1, <2>2, <2>3 DEF StateOK
<1> QED
  BY <1>11, <1>12, <1>13, <1>14 DEF IInv

LEMMA StepOthers ==
  IInv /\ (MoveInEmptyTable \/ EndIterations \/ ReturnBest \/ UNCHANGED vars) => IInv'
<1> USE DEF currentVars, tableVars, bestVars, IInv
<1>1. ASSUME IInv, MoveInEmptyTable
      PROVE  IInv'
  BY <1>1 DEF StateOK, CurrentOK, BestOK, TableOK, Searching, MoveInEmptyTable
<1>2. ASSUME IInv, EndIterations
      PROVE  IInv'
  BY <1>2 DEF StateOK, CurrentOK, BestOK, TableOK, Searching, EndIterations
<1>3. ASSUME IInv, ReturnBest
      PROVE  IInv'
  BY <1>3 DEF StateOK, CurrentOK, BestOK, TableOK, Searching, ReturnBest
<1>4. ASSUME IInv, UNCHANGED vars
      PROVE  IInv'
  BY <1>4 DEF StateOK, CurrentOK, BestOK, TableOK, EntryOK, Searching, vars
<1> QED
  BY <1>1, <1>2, <1>3, <1>4

LEMMA NextIInv == IInv /\ [Next]_vars => IInv'
<1> SUFFICES ASSUME IInv, [Next]_vars
             PROVE  IInv'
  OBVIOUS
<1>1. CASE MoveRandom \/ MoveBest
  <2>1. PICK s \in DOMAIN placement_cost_differential : Move(s)
    BY <1>1 DEF MoveRandom, MoveBest
  <2>2. pc = "move"
    BY <1>1 DEF MoveRandom, MoveBest
  <2> QED
    BY <2>1, <2>2, StepMove
<1>2. CASE TooManyQubits
  BY <1>2, StepTooManyQubits
<1>3. CASE PlaceInOrder
  BY <1>3, StepPlaceInOrder
<1>4. CASE Shuffle
  BY <1>4, StepShuffle
<1>5. CASE ReturnZeroCost
  BY <1>5, StepReturnZeroCost
<1>6. CASE CheckSwaps
  BY <1>6, StepCheckSwaps
<1>7. CASE MoveInEmptyTable \/ EndIterations \/ ReturnBest \/ UNCHANGED vars
  BY <1>7, StepOthers
<1> QED
  BY <1>1, <1>2, <1>3, <1>4, <1>5, <1>6, <1>7 DEF Next

LEMMA IInvPlacements == IInv => PlacementsValid
<1> SUFFICES ASSUME IInv
             PROVE  PlacementsValid
  OBVIOUS
<1>1. call \in Instances
  BY DEF IInv, StateOK
<1>2. \A P : PlacementOf(call, P) => IsPlacement(P)
  BY <1>1, Restated
<1>3. Searching => IsPlacement(current_placement)
                   /\ phys_to_program_map = initializePhysToProgramMap(current_placement)
  BY <1>1, <1>2, MapOfPlacement DEF IInv, CurrentOK, Valid
<1>4. pc = "done" => IsPlacement(best_placement)
  BY <1>2 DEF IInv, BestOK
<1> QED
  BY <1>3, <1>4 DEF PlacementsValid

LEMMA IInvCosts == IInv => CostsExact
<1> SUFFICES ASSUME IInv
             PROVE  CostsExact
  OBVIOUS
<1>1. call \in Instances
  BY DEF IInv, StateOK
<1>2. Program = ProgramIn(call) /\ connected_pairs = PairsOf(call) /\ InOrder = InOrderOf(call)
      /\ \A P : valueHeuristic(P) = Value(call, P)
  BY <1>1, Restated
<1>3. TypeOK
  BY <1>2 DEF IInv, StateOK, TypeOK
<1>4. NeverWorse
  BY <1>2 DEF IInv, BestOK, NeverWorse
<1>5. Searching => current_placement_cost = valueHeuristic(current_placement)
  BY <1>2 DEF IInv, CurrentOK
<1>6. /\ pc \in {"reset", "check", "move"} => best_placement_cost = valueHeuristic(best_placement)
      /\ pc = "done" /\ reset > 0 => best_placement_cost = valueHeuristic(best_placement)
  BY <1>2 DEF IInv, BestOK
<1> QED
  BY <1>3, <1>4, <1>5, <1>6 DEF CostsExact

LEMMA IInvTable == IInv => TableIsExact
<1> SUFFICES ASSUME IInv, pc = "move"
             PROVE  /\ DOMAIN placement_cost_differential = connected_pairs \ Vacant(phys_to_program_map)
                    /\ \A s \in DOMAIN placement_cost_differential :
                         placement_cost_differential[s] =
                           valueHeuristic(Moved(current_placement, FirstOf(s), SecondOf(s)))
                             - current_placement_cost
  BY DEF TableIsExact
<1>1. call \in Instances /\ Searching
  BY DEF IInv, StateOK, Searching
<1>2. DOMAIN placement_cost_differential = PairsOf(call) \ VacantIn(call, phys_to_program_map)
  BY <1>1 DEF IInv, TableOK
<1>3. DOMAIN placement_cost_differential = connected_pairs \ Vacant(phys_to_program_map)
  BY <1>1, <1>2, Restated
<1>4. ASSUME NEW s \in DOMAIN placement_cost_differential
      PROVE  placement_cost_differential[s] =
               valueHeuristic(Moved(current_placement, FirstOf(s), SecondOf(s))) - current_placement_cost
  <2> DEFINE d == Delta(call, current_placement, phys_to_program_map, FirstOf(s), SecondOf(s))
             v == valueHeuristic(Moved(current_placement, FirstOf(s), SecondOf(s)))
  <2>1. s \in PairsOf(call) /\ placement_cost_differential[s] = d
    BY <1>1, <1>2 DEF IInv, TableOK, EntryOK
  <2>2. v = Value(call, Swapped(current_placement, phys_to_program_map, FirstOf(s), SecondOf(s)))
    BY <1>1, Restated
  <2>3. v = current_placement_cost + d
    BY <1>1, <2>1, <2>2, PairFacts
  <2>4. current_placement_cost \in Nat /\ d \in Int
    <3>1. Valid(call, current_placement, phys_to_program_map) /\ current_placement_cost \in Nat
      BY <1>1 DEF IInv, StateOK, CurrentOK
    <3>2. FirstOf(s) \in PhysicalOf(call) /\ SecondOf(s) \in PhysicalOf(call)
          /\ FirstOf(s) # SecondOf(s) /\ Distance[{FirstOf(s), SecondOf(s)}] = 1
      BY <1>1, <2>1, PairShape
    <3> QED
      BY <1>1, <3>1, <3>2, DeltaExact
  <2> HIDE DEF d, v
  <2>5. placement_cost_differential[s] = v - current_placement_cost
    BY <2>1, <2>3, <2>4
  <2> QED
    BY <2>5 DEF v
<1> QED
  BY <1>3, <1>4

LEMMA Invariance == Spec => []IInv
  BY InitIInv, NextIInv, PTL DEF Spec

(* The placement and its inverse agree, fixed qubits never move and no two *)
(* qubits share a place, after any sequence of exchanges.                  *)
THEOREM PlacementsStayValid == Spec => []PlacementsValid
  BY Invariance, IInvPlacements, PTL

(* The cost that is added up is the cost of the placement, is never        *)
(* negative, and what is returned is never worse than placing in order.    *)
THEOREM CostsStayExact == Spec => []CostsExact
  BY Invariance, IInvCosts, PTL

(* Refreshing only the entries around the last exchange leaves none stale. *)
THEOREM TableStaysExact == Spec => []TableIsExact
  BY Invariance, IInvTable, PTL
==============================================================================
