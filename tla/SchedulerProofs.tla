--------------------------- MODULE SchedulerProofs ---------------------------
(***************************************************************************)
(* Proofs about the scheduler, for every platform, every set of blocks and *)
(* every number of blocks scheduled one after the other: its placements,   *)
(* the way back to the first of them, and, in the second half, the table   *)
(* of time slots that it makes of a block, for all durations and any       *)
(* choice of routes.                                                       *)

(***************************************************************************)
EXTENDS Scheduler, FiniteSetTheorems, WellFoundedInduction, SequenceTheorems, TLAPS

-----------------------------------------------------------------------------
(* What exchanging two physical qubits does to a placement: the facts the  *)
(* scheduler relies on when it inserts swaps and takes them back.          *)

Swap(m, x, y) == updateMapBySwappingPhysQubits(m, x, y)

(* A placement with its two arrays inverse of one another.                 *)
Placement(P) == {m \in QubitMap(P) : isConsistent(m)}

(* The two arrays after an exchange, entry by entry.                       *)
LEMMA SwapEntries ==
  ASSUME NEW P, NEW m \in QubitMap(P), NEW x \in P, NEW y \in P
  PROVE  /\ Swap(m, x, y).order = m.order
         /\ DOMAIN Swap(m, x, y).phys = P
         /\ \A z \in P : Swap(m, x, y).phys[z] =
              IF z = x THEN m.phys[y] ELSE IF z = y THEN m.phys[x] ELSE m.phys[z]
         /\ \A q \in Qubits : Swap(m, x, y).prog[q] =
              IF q = m.phys[x] THEN y ELSE IF q = m.phys[y] THEN x ELSE m.prog[q]
<1> DEFINE s == Swap(m, x, y)
<1>1. m.phys \in [P -> Qubits \cup {Free}]
  BY DEF QubitMap
<1>2. /\ s.order = m.order
      /\ s.phys = [m.phys EXCEPT ![x] = m.phys[y], ![y] = m.phys[x]]
      /\ s.prog = [q \in Qubits |-> IF q = m.phys[x] THEN y
                                    ELSE IF q = m.phys[y] THEN x
                                    ELSE m.prog[q]]
  BY DEF Swap, updateMapBySwappingPhysQubits
<1>3. \A z \in P : s.phys[z] =
         IF z = x THEN m.phys[y] ELSE IF z = y THEN m.phys[x] ELSE m.phys[z]
  BY <1>1, <1>2
<1>4. \A q \in Qubits : s.prog[q] =
         IF q = m.phys[x] THEN y ELSE IF q = m.phys[y] THEN x ELSE m.prog[q]
  BY <1>2
<1>5. DOMAIN s.phys = P
  BY <1>1, <1>2
<1> QED
  BY <1>2, <1>3, <1>4, <1>5

(* An exchange keeps the arrays well formed and inverse of one another.    *)
LEMMA SwapIsPlacement ==
  ASSUME NEW P, P \cap Unplaced = {},
         NEW m \in Placement(P), NEW x \in P, NEW y \in P
  PROVE  Swap(m, x, y) \in Placement(P)
<1> DEFINE s == Swap(m, x, y)
<1>1. m \in QubitMap(P) /\ isConsistent(m) /\ DOMAIN m.phys = P
  BY DEF Placement, QubitMap
<1>2. s \in QubitMap(P)
  <2>1. /\ m.order \in Seq(Registers)
        /\ m.prog \in [Qubits -> P \cup Unplaced]
        /\ m.phys \in [P -> Qubits \cup {Free}]
    BY <1>1 DEF QubitMap
  <2> QED
    BY <2>1 DEF QubitMap, Swap, updateMapBySwappingPhysQubits
<1>3. /\ DOMAIN s.phys = P
      /\ \A z \in P : s.phys[z] =
            IF z = x THEN m.phys[y] ELSE IF z = y THEN m.phys[x] ELSE m.phys[z]
      /\ \A q \in Qubits : s.prog[q] =
            IF q = m.phys[x] THEN y ELSE IF q = m.phys[y] THEN x ELSE m.prog[q]
  BY <1>1, SwapEntries
<1>4. ASSUME NEW q \in Qubits, s.prog[q] \notin Unplaced
      PROVE  s.prog[q] \in P /\ s.phys[s.prog[q]] = q
  BY <1>1, <1>3, <1>4 DEF isConsistent
<1>5. ASSUME NEW z \in P, s.phys[z] # Free
      PROVE  s.prog[s.phys[z]] = z
  BY <1>1, <1>3, <1>5, ConventionalValues DEF isConsistent, QubitMap
<1>6. isConsistent(s)
  BY <1>3, <1>4, <1>5 DEF isConsistent
<1> QED
  BY <1>2, <1>6 DEF Placement

(* Two placements that agree entry by entry are the same.                  *)
LEMMA PlacementEqual ==
  ASSUME NEW P, NEW m \in QubitMap(P), NEW n \in QubitMap(P),
         m.order = n.order,
         \A q \in Qubits : m.prog[q] = n.prog[q],
         \A x \in P : m.phys[x] = n.phys[x]
  PROVE  m = n
<1>1. m.prog = n.prog
  BY DEF QubitMap
<1>2. m.phys = n.phys
  BY DEF QubitMap
<1> QED
  BY <1>1, <1>2 DEF QubitMap

(* Exchanging the same pair again, in either order, takes it back.         *)
LEMMA SwapTwice ==
  ASSUME NEW P, P \cap Unplaced = {},
         NEW m \in Placement(P), NEW x \in P, NEW y \in P,
         NEW u \in P, NEW v \in P, {u, v} = {x, y}
  PROVE  Swap(Swap(m, x, y), u, v) = m
<1> DEFINE s == Swap(m, x, y)
           t == Swap(s, u, v)
<1>1. /\ m \in QubitMap(P) /\ isConsistent(m) /\ DOMAIN m.phys = P
      /\ s \in QubitMap(P)
      /\ t \in QubitMap(P)
  BY SwapIsPlacement DEF Placement, QubitMap
<1>2. (u = x /\ v = y) \/ (u = y /\ v = x)
  OBVIOUS
<1>3. t.order = m.order
  BY <1>1, SwapEntries
<1>4. /\ \A z \in P : s.phys[z] =
            IF z = x THEN m.phys[y] ELSE IF z = y THEN m.phys[x] ELSE m.phys[z]
      /\ \A q \in Qubits : s.prog[q] =
            IF q = m.phys[x] THEN y ELSE IF q = m.phys[y] THEN x ELSE m.prog[q]
  BY <1>1, SwapEntries
<1>5. /\ \A z \in P : t.phys[z] =
            IF z = u THEN s.phys[v] ELSE IF z = v THEN s.phys[u] ELSE s.phys[z]
      /\ \A q \in Qubits : t.prog[q] =
            IF q = s.phys[u] THEN v ELSE IF q = s.phys[v] THEN u ELSE s.prog[q]
  BY <1>1, SwapEntries
<1> HIDE DEF s, t
<1>6. \A z \in P : t.phys[z] = m.phys[z]
  BY <1>2, <1>4, <1>5
<1>7. ASSUME NEW q \in Qubits
      PROVE  t.prog[q] = m.prog[q]
  <2>1. /\ s.phys[x] = m.phys[y]
        /\ s.phys[y] = m.phys[x]
    BY <1>4
  <2>2. /\ q = m.phys[x] => m.prog[q] = x
        /\ q = m.phys[y] => m.prog[q] = y
    BY <1>1, ConventionalValues DEF isConsistent
  <2>3. t.prog[q] = IF q = s.phys[u] THEN v ELSE IF q = s.phys[v] THEN u ELSE s.prog[q]
    BY <1>5
  <2>4. s.prog[q] = IF q = m.phys[x] THEN y ELSE IF q = m.phys[y] THEN x ELSE m.prog[q]
    BY <1>4
  <2> QED
    BY <1>2, <2>1, <2>2, <2>3, <2>4
<1> QED
  BY <1>1, <1>3, <1>6, <1>7, PlacementEqual DEF s, t

(* Exchanges of disjoint pairs commute.                                    *)
LEMMA SwapsCommute ==
  ASSUME NEW P, P \cap Unplaced = {},
         NEW m \in Placement(P), NEW x \in P, NEW y \in P,
         NEW u \in P, NEW v \in P, {u, v} \cap {x, y} = {}
  PROVE  Swap(Swap(m, x, y), u, v) = Swap(Swap(m, u, v), x, y)
<1> DEFINE s == Swap(m, x, y)
           t == Swap(s, u, v)
           w == Swap(m, u, v)
           r == Swap(w, x, y)
<1>1. /\ m \in QubitMap(P) /\ isConsistent(m) /\ DOMAIN m.phys = P
      /\ s \in QubitMap(P) /\ t \in QubitMap(P)
      /\ w \in QubitMap(P) /\ r \in QubitMap(P)
  <2>1. s \in Placement(P) /\ w \in Placement(P)
    BY SwapIsPlacement
  <2>2. t \in Placement(P) /\ r \in Placement(P)
    BY <2>1, SwapIsPlacement
  <2> QED
    BY <2>1, <2>2 DEF Placement, QubitMap
<1>2. t.order = r.order
  BY <1>1, SwapEntries
<1>3. /\ \A z \in P : s.phys[z] =
            IF z = x THEN m.phys[y] ELSE IF z = y THEN m.phys[x] ELSE m.phys[z]
      /\ \A q \in Qubits : s.prog[q] =
            IF q = m.phys[x] THEN y ELSE IF q = m.phys[y] THEN x ELSE m.prog[q]
  BY <1>1, SwapEntries
<1>4. /\ \A z \in P : t.phys[z] =
            IF z = u THEN s.phys[v] ELSE IF z = v THEN s.phys[u] ELSE s.phys[z]
      /\ \A q \in Qubits : t.prog[q] =
            IF q = s.phys[u] THEN v ELSE IF q = s.phys[v] THEN u ELSE s.prog[q]
  BY <1>1, SwapEntries
<1>5. /\ \A z \in P : w.phys[z] =
            IF z = u THEN m.phys[v] ELSE IF z = v THEN m.phys[u] ELSE m.phys[z]
      /\ \A q \in Qubits : w.prog[q] =
            IF q = m.phys[u] THEN v ELSE IF q = m.phys[v] THEN u ELSE m.prog[q]
  BY <1>1, SwapEntries
<1>6. /\ \A z \in P : r.phys[z] =
            IF z = x THEN w.phys[y] ELSE IF z = y THEN w.phys[x] ELSE w.phys[z]
      /\ \A q \in Qubits : r.prog[q] =
            IF q = w.phys[x] THEN y ELSE IF q = w.phys[y] THEN x ELSE w.prog[q]
  BY <1>1, SwapEntries
<1> HIDE DEF s, t, w, r
<1>7. /\ u # x /\ u # y /\ v # x /\ v # y
  OBVIOUS
<1>8. \A z \in P : t.phys[z] = r.phys[z]
  BY <1>3, <1>4, <1>5, <1>6, <1>7
<1>9. ASSUME NEW q \in Qubits
      PROVE  t.prog[q] = r.prog[q]
  <2>1. /\ s.phys[u] = m.phys[u] /\ s.phys[v] = m.phys[v]
        /\ w.phys[x] = m.phys[x] /\ w.phys[y] = m.phys[y]
    BY <1>3, <1>5, <1>7
  <2>2. \A z \in P : q = m.phys[z] => m.prog[q] = z
    BY <1>1, ConventionalValues DEF isConsistent
  <2>3. t.prog[q] = IF q = m.phys[u] THEN v ELSE IF q = m.phys[v] THEN u ELSE s.prog[q]
    BY <1>4, <2>1
  <2>4. r.prog[q] = IF q = m.phys[x] THEN y ELSE IF q = m.phys[y] THEN x ELSE w.prog[q]
    BY <1>6, <2>1
  <2>5. s.prog[q] = IF q = m.phys[x] THEN y ELSE IF q = m.phys[y] THEN x ELSE m.prog[q]
    BY <1>3
  <2>6. w.prog[q] = IF q = m.phys[u] THEN v ELSE IF q = m.phys[v] THEN u ELSE m.prog[q]
    BY <1>5
  <2> QED
    BY <1>7, <2>2, <2>3, <2>4, <2>5, <2>6
<1> QED
  BY <1>1, <1>2, <1>8, <1>9, PlacementEqual DEF s, t, w, r

Pair == Phys \X Phys
Entry == [gate : Int, end : Nat]

-----------------------------------------------------------------------------
(* Facts about the platform.                                               *)

(* A physical qubit is never one of the conventional values.               *)
LEMMA PhysIsPlaced == Phys \cap Unplaced = {}
  BY PlatformShape, ConventionalValues DEF Phys, Unplaced

(* A path is a non-empty sequence of qubits,                               *)
LEMMA PathIsSeq ==
  ASSUME NEW x \in Phys, NEW p \in PathsFrom[x]
  PROVE  p \in Seq(Phys) /\ Len(p) > 0 /\ Len(p) \in Nat
<1>1. p \in UNION {[1 .. n -> Phys] : n \in 1 .. NumPhys}
  BY DEF PathsFrom
<1>2. PICK n \in 1 .. NumPhys : p \in [1 .. n -> Phys]
  BY <1>1
<1>3. NumPhys \in Nat
  BY PlatformShape
<1> QED
  BY <1>2, <1>3

(* and makes a sequence of swaps.                                          *)
LEMMA SwapsOfIsSeq ==
  ASSUME NEW p \in Seq(Phys), Len(p) > 0
  PROVE  SwapsOf(p) \in Seq(Pair)
  BY DEF SwapsOf, Pair

(* A route is made of swaps, and ends where the gate is available.         *)
LEMMA RouteEndsAvailable ==
  ASSUME NEW g, NEW xs \in Seq(Phys), (Len(xs) = 1 \/ Len(xs) = 2), NEW r \in RoutesTo(g, xs)
  PROVE  /\ r \in [swaps : Seq(Pair), goal : Seq(Phys)]
         /\ Len(r.goal) = Len(xs)
         /\ IsAvailable(g, r.goal)
<1>1. CASE Len(xs) = 1
  <2>1. PICK p \in PathsFrom[xs[1]] :
           /\ IsAvailable(g, <<PathEnd(p)>>)
           /\ r = [swaps |-> SwapsOf(p), goal |-> <<PathEnd(p)>>]
    BY <1>1 DEF RoutesTo
  <2>2. xs[1] \in Phys
    BY <1>1
  <2>3. p \in Seq(Phys) /\ Len(p) > 0
    BY <2>2, PathIsSeq
  <2>4. PathEnd(p) \in Phys /\ SwapsOf(p) \in Seq(Pair)
    BY <2>3, SwapsOfIsSeq DEF PathEnd
  <2> QED
    BY <1>1, <2>1, <2>4
<1>2. CASE Len(xs) = 2
  <2>1. PICK p \in PathsFrom[xs[1]] \X PathsFrom[xs[2]] :
           /\ IsAvailable(g, <<PathEnd(p[1]), PathEnd(p[2])>>)
           /\ r = [swaps |-> SwapsOf(p[1]) \o SwapsOf(p[2]),
                   goal  |-> <<PathEnd(p[1]), PathEnd(p[2])>>]
    <3>1. Len(xs) # 1
      BY <1>2
    <3> QED
      BY <3>1, Zenon DEF RoutesTo
  <2>2. xs[1] \in Phys /\ xs[2] \in Phys
    <3>1. 1 \in 1 .. Len(xs) /\ 2 \in 1 .. Len(xs)
      BY <1>2
    <3> QED
      BY <3>1, ElementOfSeq
  <2>3. /\ p[1] \in Seq(Phys) /\ Len(p[1]) > 0
        /\ p[2] \in Seq(Phys) /\ Len(p[2]) > 0
    BY <2>1, <2>2, PathIsSeq
  <2>4. /\ PathEnd(p[1]) \in Phys /\ SwapsOf(p[1]) \in Seq(Pair)
        /\ PathEnd(p[2]) \in Phys /\ SwapsOf(p[2]) \in Seq(Pair)
    BY <2>3, SwapsOfIsSeq DEF PathEnd
  <2>5. SwapsOf(p[1]) \o SwapsOf(p[2]) \in Seq(Pair)
    BY <2>4
  <2> QED
    BY <1>2, <2>1, <2>4, <2>5
<1> QED
  BY <1>1, <1>2

(* A gate that is available acts on one or two qubits and takes time.      *)
LEMMA AvailableGate ==
  ASSUME NEW p \in Programs, NEW i \in 1 .. Len(p), NEW xs,
         Len(xs) = Len(p[i].qubits), IsAvailable(p[i], xs)
  PROVE  GateDuration(p[i]) \in Nat \ {0} /\ (Len(xs) = 1 \/ Len(xs) = 2)
<1>1. CASE IsGenericSPAM(p[i])
  <2>1. p[i].kind \in {"init", "meas"}
    BY <1>1 DEF IsGenericSPAM, PlatformKind, Arity1Default, Arity2Default
  <2> QED
    BY <1>1, <2>1, BlockShape DEF GateDuration
<1>2. CASE ~IsGenericSPAM(p[i])
  BY <1>2, PlatformShape DEF IsAvailable, GateDuration
<1> QED
  BY <1>1, <1>2

-----------------------------------------------------------------------------
(* Entering a gate keeps the table well formed, and adds nothing but the   *)
(* gate and idle entries.                                                  *)
LEMMA EndTimeIsNat ==
  ASSUME table_ \in [Phys -> Seq(Entry)], NEW x \in Phys
  PROVE  EndTime(x) \in Nat
<1>1. table_[x] \in Seq(Entry)
  OBVIOUS
<1>2. CASE table_[x] = <<>>
  BY <1>2 DEF EndTime
<1>3. CASE table_[x] # <<>>
  <2>1. Len(table_[x]) \in 1 .. Len(table_[x])
    BY <1>1, <1>3, EmptySeq, LenProperties
  <2>2. table_[x][Len(table_[x])] \in Entry
    BY <1>1, <2>1, ElementOfSeq
  <2> QED
    BY <1>3, <2>2 DEF EndTime, Entry
<1> QED
  BY <1>2, <1>3

FromParts(w, s, e) ==
  \A i \in 1 .. Len(w) : \/ \E j \in 1 .. Len(s) : w[i] = s[j]
                         \/ \E j \in 1 .. Len(e) : w[i] = e[j]

(* The elements of a concatenation come from its parts.                    *)
LEMMA ConcatElements ==
  ASSUME NEW S, NEW s \in Seq(S), NEW e \in Seq(S)
  PROVE  FromParts(s \o e, s, e)
<1> SUFFICES ASSUME NEW i \in 1 .. Len(s \o e)
             PROVE  \/ \E j \in 1 .. Len(s) : (s \o e)[i] = s[j]
                    \/ \E j \in 1 .. Len(e) : (s \o e)[i] = e[j]
  BY DEF FromParts
<1>1. CASE i <= Len(s)
  BY <1>1, ConcatProperties, LenProperties
<1>2. CASE i > Len(s)
  <2>1. (s \o e)[i] = e[i - Len(s)] /\ i - Len(s) \in 1 .. Len(e)
    BY <1>2, ConcatProperties, LenProperties
  <2> QED
    BY <2>1
<1> QED
  BY <1>1, <1>2, LenProperties

(* A row with padding and an entry added has no other new entries.         *)
LEMMA RowExtended ==
  ASSUME NEW row \in Seq(Entry), NEW p \in Seq(Entry), NEW f \in Seq(Entry),
         \A j \in 1 .. Len(p) : p[j].gate = IsIdle
  PROVE  /\ row \o p \o f \in Seq(Entry)
         /\ \A i \in 1 .. Len(row \o p \o f) :
               \/ (row \o p \o f)[i].gate = IsIdle
               \/ \E j \in 1 .. Len(f) : (row \o p \o f)[i].gate = f[j].gate
               \/ \E j \in 1 .. Len(row) : (row \o p \o f)[i].gate = row[j].gate
<1>1. row \o p \in Seq(Entry) /\ row \o p \o f \in Seq(Entry)
  BY ConcatProperties
<1>2. FromParts(row \o p, row, p)
  BY ConcatElements
<1>3. PICK rp \in Seq(Entry) : rp = row \o p
  BY <1>1
<1>4. FromParts(rp \o f, rp, f)
  BY ConcatElements
<1>5. \A i \in 1 .. Len(rp \o f) :
         \/ (rp \o f)[i].gate = IsIdle
         \/ \E j \in 1 .. Len(f) : (rp \o f)[i].gate = f[j].gate
         \/ \E j \in 1 .. Len(row) : (rp \o f)[i].gate = row[j].gate
  BY <1>2, <1>3, <1>4 DEF FromParts
<1> QED
  BY <1>1, <1>3, <1>5

(* The whole table, for a gate on one qubit or two.                        *)
LEMMA AddedToTable ==
  ASSUME table_ \in [Phys -> Seq(Entry)],
         NEW u \in Phys, NEW v \in Phys, NEW g \in Int, NEW d \in Nat,
         addGateToTable({u, v}, g, d)
  PROVE  /\ table_' \in [Phys -> Seq(Entry)]
         /\ \A x \in Phys : \A i \in 1 .. Len(table_'[x]) :
               \/ table_'[x][i].gate \in {g, IsIdle}
               \/ \E j \in 1 .. Len(table_[x]) : table_'[x][i].gate = table_[x][j].gate
<1> DEFINE start == CHOOSE t \in {EndTime(x) : x \in {u, v}} :
                       \A x \in {u, v} : EndTime(x) <= t
           padding(x) == IF EndTime(x) < start THEN <<[gate |-> IsIdle, end |-> start]>>
                                               ELSE <<>>
           f == <<[gate |-> g, end |-> start + d]>>
<1>1. EndTime(u) \in Nat /\ EndTime(v) \in Nat
  BY EndTimeIsNat
<1>2. start \in Nat
  <2>1. \E t \in {EndTime(x) : x \in {u, v}} : \A x \in {u, v} : EndTime(x) <= t
    <3>1. CASE EndTime(u) <= EndTime(v)
      BY <1>1, <3>1
    <3>2. CASE EndTime(v) <= EndTime(u)
      BY <1>1, <3>2
    <3> QED
      BY <1>1, <3>1, <3>2
  <2> QED
    BY <1>1, <2>1
<1>3. table_' = [x \in Phys |->
        IF x \in {u, v} THEN table_[x] \o padding(x) \o f ELSE table_[x]]
  BY DEF addGateToTable
<1>4. f \in Seq(Entry) /\ Len(f) = 1 /\ f[1].gate = g
  BY <1>2 DEF Entry
<1>5. \A x \in Phys : /\ padding(x) \in Seq(Entry)
                      /\ \A j \in 1 .. Len(padding(x)) : padding(x)[j].gate = IsIdle
  <2>1. IsIdle \in Int
    BY DEF IsIdle
  <2> DEFINE e == <<[gate |-> IsIdle, end |-> start]>>
  <2>2. e \in Seq(Entry) /\ \A j \in 1 .. Len(e) : e[j].gate = IsIdle
    BY <1>2, <2>1 DEF Entry
  <2>3. \A s \in {<<>>} : s \in Seq(Entry) /\ \A j \in 1 .. Len(s) : s[j].gate = IsIdle
    OBVIOUS
  <2>4. \A x \in Phys : padding(x) = e \/ padding(x) \in {<<>>}
    OBVIOUS
  <2> DEFINE Good(s) == s \in Seq(Entry) /\ \A j \in 1 .. Len(s) : s[j].gate = IsIdle
  <2>5. Good(e) /\ \A s \in {<<>>} : Good(s)
    BY <2>2, <2>3
  <2> HIDE DEF e, padding, Good
  <2>6. \A x \in Phys : Good(padding(x))
    BY <2>4, <2>5
  <2> QED
    BY <2>6 DEF Good
<1> HIDE DEF start, padding, f
<1>6. ASSUME NEW x \in Phys
      PROVE  /\ table_'[x] \in Seq(Entry)
             /\ \A i \in 1 .. Len(table_'[x]) :
                  \/ table_'[x][i].gate \in {g, IsIdle}
                  \/ \E j \in 1 .. Len(table_[x]) : table_'[x][i].gate = table_[x][j].gate
  <2>1. PICK row \in Seq(Entry) : row = table_[x]
    OBVIOUS
  <2>2. CASE x \notin {u, v}
    BY <1>3, <2>1, <2>2
  <2>3. CASE x \in {u, v}
    <3>1. PICK pad \in Seq(Entry) : pad = padding(x)
      BY <1>5
    <3>2. table_'[x] = row \o pad \o f
      BY <1>3, <2>1, <2>3, <3>1
    <3>3. \A j \in 1 .. Len(pad) : pad[j].gate = IsIdle
      BY <1>5, <3>1
    <3>4. /\ row \o pad \o f \in Seq(Entry)
          /\ \A i \in 1 .. Len(row \o pad \o f) :
               \/ (row \o pad \o f)[i].gate = IsIdle
               \/ \E j \in 1 .. Len(f) : (row \o pad \o f)[i].gate = f[j].gate
               \/ \E j \in 1 .. Len(row) : (row \o pad \o f)[i].gate = row[j].gate
      BY <1>4, <3>3, RowExtended
    <3>5. \A j \in 1 .. Len(f) : f[j].gate = g
      BY <1>4
    <3>6. PICK new \in Seq(Entry) : new = row \o pad \o f
      BY <3>4
    <3>7. \A i \in 1 .. Len(new) :
             \/ new[i].gate \in {g, IsIdle}
             \/ \E j \in 1 .. Len(row) : new[i].gate = row[j].gate
      BY <3>4, <3>5, <3>6
    <3>8. table_'[x] = new
      BY <3>2, <3>6
    <3> QED
      BY <2>1, <3>7, <3>8
  <2> QED
    BY <2>2, <2>3
<1>7. table_' \in [Phys -> Seq(Entry)]
  BY <1>3, <1>6
<1> QED
  BY <1>6, <1>7

-----------------------------------------------------------------------------
(* The inductive invariant.  Besides the kinds of the variables and the    *)
(* placements it says, for each stage, how far the counters and lists that *)
(* the next stage relies on have got.                                      *)

Positions == (-Len(routing) .. -1) \cup (0 .. gate_index - 1)

QubitsPlaced == \A i \in 1 .. Len(gates) : \A k \in 1 .. Len(gates[i].qubits) :
                  qubit_map_.prog[gates[i].qubits[k]] \in Phys

TrailConsistent == \A k \in 1 .. Len(trail) : isConsistent(trail[k])

Bookkeeping ==
  /\ pc \in {"scan", "prune", "undo", "sweep", "reorder", "convert"} =>
       gate_index = Len(gates)
  /\ pc = "route" =>
       /\ gate_index < Len(gates)
       /\ Len(route.goal) = Len(CurrentGate.qubits)
       /\ IsAvailable(CurrentGate, route.goal)
  /\ pc = "scan" => BackwardMethod = "retrace" /\ scan <= Len(todo)
  /\ pc = "prune" => BackwardMethod = "sort" /\ scan <= Len(line)
  /\ BackwardMethod = "sort" => todo = <<>>
  /\ pc \in {"idle", "convert"} => routing = <<>>
  /\ pc = "idle" => trail = <<>>
  /\ pc \in {"populate", "route"} => QubitsPlaced
  /\ pc \in {"populate", "route", "scan", "prune", "undo"} =>
       final_qubit_map = initial_qubit_map_

EntriesKnown ==
  /\ pc \notin {"idle", "convert"} =>
       \A x \in Phys : \A i \in 1 .. Len(table_[x]) :
          table_[x][i].gate \in Positions \cup {IsIdle}
  /\ pc \in {"sweep", "reorder"} =>
       \A i \in 1 .. Len(sequence) : sequence[i] \in Positions
  /\ \A i \in 1 .. Len(block) : block[i].gate < 0 =>
       \E x, y \in Phys : block[i].qubits = <<<<"qid", x>>, <<"qid", y>>>>

RestoredByRetrace == BackwardMethod = "retrace" => HoldBlocksRestored

IInv ==
  /\ TypeOK
  /\ PlacementsConsistent
  /\ TrailConsistent
  /\ Bookkeeping
  /\ EntriesKnown
  /\ UndoLeadsBack
  /\ RestoredByRetrace

-----------------------------------------------------------------------------
(* The gate being scheduled, and what entering it changes.                 *)

(* The gate being scheduled is one of the block's,                         *)
LEMMA CurrentGateFacts ==
  ASSUME TypeOK, gate_index < Len(gates)
  PROVE  /\ gates \in Programs
         /\ gate_index + 1 \in 1 .. Len(gates)
         /\ CurrentGate.qubits \in Seq(Qubits)
         /\ Len(CurrentGate.qubits) > 0
<1>1. gates \in Programs
  BY DEF TypeOK
<1>2. gates \in Seq([kind : STRING, qubits : Seq(Qubits)])
  BY <1>1, BlockShape
<1>3. gate_index + 1 \in 1 .. Len(gates)
  BY <1>2 DEF TypeOK
<1>4. gates[gate_index + 1] \in [kind : STRING, qubits : Seq(Qubits)]
  BY <1>2, <1>3, ElementOfSeq
<1> QED
  BY <1>1, <1>3, <1>4, BlockShape DEF CurrentGate

(* and its qubits are program qubits.                                      *)
LEMMA GateQubits ==
  ASSUME TypeOK, NEW i \in 1 .. Len(gates), NEW k \in 1 .. Len(gates[i].qubits)
  PROVE  gates[i].qubits[k] \in Qubits
<1>1. gates \in Programs
  BY DEF TypeOK
<1>2. gates \in Seq([kind : STRING, qubits : Seq(Qubits)])
  BY <1>1, BlockShape
<1>3. gates[i] \in [kind : STRING, qubits : Seq(Qubits)]
  BY <1>2, ElementOfSeq
<1> QED
  BY <1>3, ElementOfSeq

(* What is written back for a qubit is an operand.                         *)
LEMMA OperandsForQubit ==
  ASSUME TypeOK, NEW x \in Phys
  PROVE  OperandsFor(x) \subseteq Operands
<1>1. initial_qubit_map_.phys[x] \in Qubits \cup {Free}
  BY DEF TypeOK, QubitMap
<1>2. CASE ~CanonicalSchedule
  BY <1>2 DEF OperandsFor, Operands
<1>3. CASE CanonicalSchedule /\ initial_qubit_map_.phys[x] # Free
  BY <1>1, <1>3 DEF OperandsFor, Operands
<1>4. CASE CanonicalSchedule /\ initial_qubit_map_.phys[x] = Free
  BY <1>4 DEF OperandsFor, Operands
<1> QED
  BY <1>2, <1>3, <1>4

(* A gate placed leaves a table and operands of the right kind.            *)
LEMMA PlacedGate ==
  ASSUME TypeOK, gate_index < Len(gates),
         NEW xs \in Seq(Phys), Len(xs) = Len(CurrentGate.qubits),
         IsAvailable(CurrentGate, xs), placeGate(xs)
  PROVE  /\ table_' \in [Phys -> Seq(Entry)]
         /\ operands' \in Seq(Seq(Operands)) /\ Len(operands') = gate_index + 1
         /\ gate_index' = gate_index + 1
         /\ \A x \in Phys : \A i \in 1 .. Len(table_'[x]) :
               \/ table_'[x][i].gate \in {gate_index, IsIdle}
               \/ \E j \in 1 .. Len(table_[x]) : table_'[x][i].gate = table_[x][j].gate
<1>1. /\ gates \in Programs
      /\ gate_index + 1 \in 1 .. Len(gates)
      /\ gate_index \in Nat
  BY CurrentGateFacts DEF TypeOK
<1>2. GateDuration(CurrentGate) \in Nat /\ (Len(xs) = 1 \/ Len(xs) = 2)
  BY <1>1, AvailableGate DEF CurrentGate
<1>3. PICK u \in Phys, v \in Phys : {xs[i] : i \in 1 .. Len(xs)} = {u, v}
  <2> DEFINE n == Len(xs)
  <2>0. n = 1 \/ n = 2
    BY <1>2
  <2> HIDE DEF n
  <2>1. /\ 1 \in 1 .. n /\ n \in 1 .. n
        /\ \A i \in 1 .. n : i = 1 \/ i = n
    BY <2>0
  <2>2. xs[1] \in Phys /\ xs[n] \in Phys
    BY <2>1, ElementOfSeq DEF n
  <2>3. {xs[i] : i \in 1 .. n} = {xs[1], xs[n]}
    BY <2>1
  <2>4. \E u, v \in Phys : {xs[i] : i \in 1 .. n} = {u, v}
    BY <2>2, <2>3, Zenon
  <2> QED
    BY <2>4 DEF n
<1>4. addGateToTable({u, v}, gate_index, GateDuration(CurrentGate))
  BY <1>3 DEF placeGate
<1>5. table_ \in [Phys -> Seq(Entry)]
  BY DEF TypeOK, Entry
<1>6. PICK ops \in [1 .. Len(xs) -> UNION {OperandsFor(x) : x \in Phys}] :
         operands' = Append(operands, ops)
  BY DEF placeGate
<1>7. ops \in Seq(Operands)
  <2>1. UNION {OperandsFor(x) : x \in Phys} \subseteq Operands
    BY OperandsForQubit
  <2>2. ops \in [1 .. Len(xs) -> Operands]
    BY <2>1
  <2> QED
    BY <1>2, <2>2
<1>8. operands \in Seq(Seq(Operands)) /\ Len(operands) = gate_index
  BY DEF TypeOK
<1>9. operands' \in Seq(Seq(Operands)) /\ Len(operands') = gate_index + 1
  BY <1>6, <1>7, <1>8, AppendProperties
<1>10. gate_index' = gate_index + 1
  BY DEF placeGate
<1>11. gate_index \in Int
  BY <1>1
<1> QED
  BY <1>2, <1>4, <1>5, <1>9, <1>10, <1>11, AddedToTable

(* A gate whose qubits are placed is looked up on qubits of the platform.  *)
LEMMA CurrentPlaceIsSeq ==
  ASSUME TypeOK, gate_index < Len(gates), QubitsPlaced
  PROVE  CurrentPlace \in Seq(Phys) /\ Len(CurrentPlace) = Len(CurrentGate.qubits)
<1>1. /\ gate_index + 1 \in 1 .. Len(gates)
      /\ CurrentGate.qubits \in Seq(Qubits)
  BY CurrentGateFacts
<1>2. \A k \in 1 .. Len(CurrentGate.qubits) :
         qubit_map_.prog[CurrentGate.qubits[k]] \in Phys
  BY <1>1 DEF QubitsPlaced, CurrentGate
<1> QED
  BY <1>1, <1>2 DEF CurrentPlace

(* One more routing swap: what it changes.                                 *)
LEMMA AddedSwap ==
  ASSUME TypeOK, PlacementsConsistent, NEW s \in Pair, addRoutingSwap(s)
  PROVE  /\ s[1] \in Phys /\ s[2] \in Phys
         /\ routing' \in Seq(Pair) /\ Len(routing') = Len(routing) + 1
         /\ table_' \in [Phys -> Seq(Entry)]
         /\ qubit_map_' \in QubitMap(Phys) /\ isConsistent(qubit_map_')
         /\ qubit_map_' = Swap(qubit_map_, s[1], s[2])
         /\ \A x \in Phys : \A i \in 1 .. Len(table_'[x]) :
               \/ table_'[x][i].gate \in {-Len(routing'), IsIdle}
               \/ \E j \in 1 .. Len(table_[x]) : table_'[x][i].gate = table_[x][j].gate
<1>1. s[1] \in Phys /\ s[2] \in Phys
  BY DEF Pair
<1>2. routing \in Seq(Pair)
  BY DEF TypeOK, Pair
<1>3. routing' \in Seq(Pair) /\ Len(routing') = Len(routing) + 1
  BY <1>2, AppendProperties DEF addRoutingSwap
<1>4. qubit_map_ \in Placement(Phys)
  BY DEF TypeOK, PlacementsConsistent, Placement
<1>5. qubit_map_' = Swap(qubit_map_, s[1], s[2])
  BY DEF addRoutingSwap, Swap
<1>6. qubit_map_' \in Placement(Phys)
  BY <1>1, <1>4, <1>5, PhysIsPlaced, SwapIsPlacement
<1>7. -Len(routing') \in Int
  BY <1>3, LenProperties
<1>8. table_ \in [Phys -> Seq(Entry)]
  BY DEF TypeOK, Entry
<1>9. addGateToTable({s[1], s[2]}, -Len(routing'), SwapDuration) /\ SwapDuration \in Nat
  BY PlatformShape DEF addRoutingSwap
<1>10. /\ table_' \in [Phys -> Seq(Entry)]
       /\ \A x \in Phys : \A i \in 1 .. Len(table_'[x]) :
            \/ table_'[x][i].gate \in {-Len(routing'), IsIdle}
            \/ \E j \in 1 .. Len(table_[x]) : table_'[x][i].gate = table_[x][j].gate
  BY <1>1, <1>7, <1>8, <1>9, AddedToTable
<1> QED
  BY <1>1, <1>3, <1>5, <1>6, <1>10 DEF Placement

(* Swaps move program qubits but do not drop them.                         *)
LEMMA SwapKeepsPlaced ==
  ASSUME NEW m \in QubitMap(Phys), NEW x \in Phys, NEW y \in Phys, NEW q \in Qubits,
         m.prog[q] \in Phys
  PROVE  Swap(m, x, y).prog[q] \in Phys
  BY SwapEntries

-----------------------------------------------------------------------------
(* Chains of placements: t[k] is the placement before swap s[k], c the one *)
(* after the last.                                                         *)

At(t, c, k) == IF k <= Len(t) THEN t[k] ELSE c

Chain(t, s, c) ==
  /\ Len(t) = Len(s)
  /\ \A k \in 1 .. Len(s) : At(t, c, k + 1) = Swap(At(t, c, k), s[k][1], s[k][2])

(* The undo list as a chain of placements.                                 *)
LEMMA UndoIsChain ==
  UndoLeadsBack <=>
    (\/ pc \in {"populate", "route"}
     \/ pc = "scan"
     \/ pc = "undo" /\ BackwardMethod = "retrace"
     => /\ Chain(trail, Pending, qubit_map_)
        /\ At(trail, qubit_map_, 1) = initial_qubit_map_)
  BY DEF UndoLeadsBack, Chain, At, PlacementBefore, Swap

(* One link more at the end.                                               *)
LEMMA ChainAppend ==
  ASSUME NEW M, NEW t \in Seq(M), NEW s \in Seq(Pair), NEW c \in M, NEW e \in Pair,
         Chain(t, s, c)
  PROVE  LET t2 == Append(t, c)
             s2 == Append(s, e)
             c2 == Swap(c, e[1], e[2])
         IN  Chain(t2, s2, c2) /\ At(t2, c2, 1) = At(t, c, 1)
<1> DEFINE t2 == Append(t, c)
           s2 == Append(s, e)
           c2 == Swap(c, e[1], e[2])
<1>1. /\ Len(t) = Len(s) /\ Len(t) \in Nat
      /\ t2 \in Seq(M) /\ Len(t2) = Len(t) + 1
      /\ s2 \in Seq(Pair) /\ Len(s2) = Len(s) + 1
      /\ \A k \in 1 .. Len(t) : t2[k] = t[k]
      /\ \A k \in 1 .. Len(s) : s2[k] = s[k]
      /\ t2[Len(t) + 1] = c /\ s2[Len(s) + 1] = e
  BY AppendProperties, LenProperties DEF Chain
<1> HIDE DEF t2, s2, c2
<1>2. \A k \in 1 .. Len(t) + 1 : At(t2, c2, k) = At(t, c, k)
  BY <1>1 DEF At
<1>3. At(t2, c2, Len(t) + 2) = c2
  BY <1>1 DEF At
<1>4. ASSUME NEW k \in 1 .. Len(s2)
      PROVE  At(t2, c2, k + 1) = Swap(At(t2, c2, k), s2[k][1], s2[k][2])
  <2>1. CASE k <= Len(s)
    BY <1>1, <1>2, <2>1 DEF Chain
  <2>2. CASE k = Len(s) + 1
    BY <1>1, <1>2, <1>3, <2>2 DEF At, c2
  <2> QED
    BY <1>1, <2>1, <2>2
<1> QED
  BY <1>1, <1>2, <1>4 DEF Chain, t2, s2, c2

(* Dropping the last link, its swap done again.                            *)
LEMMA ChainPop ==
  ASSUME NEW t \in Seq(QubitMap(Phys)), NEW s \in Seq(Pair), NEW c \in QubitMap(Phys),
         Chain(t, s, c), s # <<>>,
         \A k \in 1 .. Len(t) : isConsistent(t[k])
  PROVE  LET t2 == SubSeq(t, 1, Len(t) - 1)
             s2 == SubSeq(s, 1, Len(s) - 1)
             e  == s[Len(s)]
             c2 == Swap(c, e[1], e[2])
         IN  /\ Chain(t2, s2, c2)
             /\ At(t2, c2, 1) = At(t, c, 1)
<1> DEFINE t2 == SubSeq(t, 1, Len(t) - 1)
           s2 == SubSeq(s, 1, Len(s) - 1)
           n  == Len(s)
           e  == s[n]
           c2 == Swap(c, e[1], e[2])
<1>1. n \in Nat /\ n > 0 /\ Len(t) = n
  BY EmptySeq, LenProperties DEF Chain
<1>2. /\ Len(t2) = n - 1 /\ Len(s2) = n - 1
      /\ \A k \in 1 .. n - 1 : t2[k] = t[k] /\ s2[k] = s[k]
  BY <1>1, SubSeqProperties
<1>3. e \in Pair /\ e[1] \in Phys /\ e[2] \in Phys
  BY <1>1, ElementOfSeq DEF Pair
<1>4. t[n] \in Placement(Phys)
  BY <1>1, ElementOfSeq DEF Placement
<1> HIDE DEF t2, s2, n
<1>5. c2 = t[n]
  <2>1. c = Swap(t[n], e[1], e[2])
    BY <1>1 DEF Chain, At, n
  <2> QED
    BY <1>3, <1>4, <2>1, PhysIsPlaced, SwapTwice
<1> HIDE DEF c2, e
<1>6. \A k \in 1 .. n : At(t2, c2, k) = At(t, c, k)
  BY <1>1, <1>2, <1>5 DEF At
<1>7. ASSUME NEW k \in 1 .. Len(s2)
      PROVE  At(t2, c2, k + 1) = Swap(At(t2, c2, k), s2[k][1], s2[k][2])
  BY <1>1, <1>2, <1>6 DEF Chain, n
<1> QED
  BY <1>1, <1>2, <1>6, <1>7 DEF Chain, t2, s2, c2, e, n

(* The swaps of one platform: undone by themselves, in either direction,   *)
(* and free to change places when they share no qubit.                     *)
LEMMA PhysSwaps ==
  \A m \in Placement(Phys) : \A x, y, a, b \in Phys :
    /\ Swap(Swap(m, x, y), x, y) = m
    /\ Swap(Swap(m, x, y), y, x) = m
    /\ {x, y} \cap {a, b} = {} => Swap(Swap(m, x, y), a, b) = Swap(Swap(m, a, b), x, y)
<1> SUFFICES ASSUME NEW m \in Placement(Phys), NEW x \in Phys, NEW y \in Phys,
                    NEW a \in Phys, NEW b \in Phys
             PROVE  /\ Swap(Swap(m, x, y), x, y) = m
                    /\ Swap(Swap(m, x, y), y, x) = m
                    /\ {x, y} \cap {a, b} = {} =>
                         Swap(Swap(m, x, y), a, b) = Swap(Swap(m, a, b), x, y)
  OBVIOUS
<1>1. Swap(Swap(m, x, y), x, y) = m /\ Swap(Swap(m, x, y), y, x) = m
  BY PhysIsPlaced, SwapTwice
<1>2. {a, b} \cap {x, y} = {} => Swap(Swap(m, x, y), a, b) = Swap(Swap(m, a, b), x, y)
  BY PhysIsPlaced, SwapsCommute
<1>3. {x, y} \cap {a, b} = {a, b} \cap {x, y}
  OBVIOUS
<1> QED
  BY <1>1, <1>2, <1>3

(* Swaps i and j of s cancel; r is s without them, and B the placements A  *)
(* without two, those between exchanged back.                              *)
Steps(n, A, s) == \A k \in 1 .. n : A[k + 1] = Swap(A[k], s[k][1], s[k][2])

Cancelling(s, i, j) ==
  /\ Ends(s[i]) = Ends(s[j])
  /\ \A k \in j + 1 .. i - 1 : Ends(s[k]) \cap Ends(s[i]) = {}

CutSwaps(n, s, i, j, r) ==
  \A k \in 1 .. n : r[k] = IF k < j THEN s[k]
                          ELSE IF k < i - 1 THEN s[k + 1] ELSE s[k + 2]

CutPlacements(n, A, s, i, j, B) ==
  \A k \in 1 .. n : B[k] = IF k < j THEN A[k]
                          ELSE IF k < i - 1 THEN Swap(A[k + 1], s[i][1], s[i][2])
                          ELSE A[k + 2]

(* Dropping two cancelling links, the placements between them shifted by   *)
(* the swap that is gone: first for the placements A as one function.      *)
Shortened(m, A, s, i, j, r, B) ==
  /\ m \in Nat
  /\ A \in [1 .. m + 3 -> Placement(Phys)] /\ s \in [1 .. m + 2 -> Pair]
  /\ Steps(m + 2, A, s)
  /\ i \in 1 .. m + 2 /\ j \in 1 .. i - 1
  /\ Cancelling(s, i, j)
  /\ CutSwaps(m, s, i, j, r)
  /\ CutPlacements(m + 1, A, s, i, j, B)

(* The placements that are left form a chain with the swaps that are left. *)
LEMMA ShiftedPlacements ==
  ASSUME NEW m, NEW A, NEW s, NEW i, NEW j, NEW r, NEW B, Shortened(m, A, s, i, j, r, B)
  PROVE  /\ \A k \in 1 .. m + 1 : B[k] \in Placement(Phys)
         /\ Steps(m, B, r)
         /\ B[1] = A[1]
<1> DEFINE n == m + 2
<1>a. /\ m \in Nat /\ n \in Nat /\ n = m + 2
      /\ A \in [1 .. n + 1 -> Placement(Phys)] /\ s \in [1 .. n -> Pair]
      /\ Steps(n, A, s)
      /\ i \in 1 .. n /\ j \in 1 .. i - 1
      /\ Cancelling(s, i, j) /\ CutSwaps(m, s, i, j, r) /\ CutPlacements(m + 1, A, s, i, j, B)
  BY DEF Shortened
<1> HIDE DEF n
<1> USE <1>a
<1>1. PICK u, v \in Phys : s[i] = <<u, v>>
  BY DEF Pair
<1>2. s[i][1] = u /\ s[i][2] = v
  BY <1>1
<1>3. \A k \in 1 .. m + 1 : B[k] = IF k < j THEN A[k]
                                   ELSE IF k < i - 1 THEN Swap(A[k + 1], u, v)
                                   ELSE A[k + 2]
  BY <1>2 DEF CutPlacements
<1>r. \A k \in 1 .. m : r[k] = IF k < j THEN s[k]
                                   ELSE IF k < i - 1 THEN s[k + 1] ELSE s[k + 2]
  BY DEF CutSwaps
<1>s. \A k \in 1 .. n : A[k + 1] = Swap(A[k], s[k][1], s[k][2])
  BY DEF Steps
<1>4. \A k \in 1 .. n + 1 : /\ A[k] \in Placement(Phys)
                            /\ Swap(A[k], u, v) \in Placement(Phys)
  BY PhysIsPlaced, SwapIsPlacement
<1>5. A[i + 1] = Swap(A[i], u, v)
  BY <1>2, <1>s
<1>6. Swap(A[j + 1], u, v) = A[j]
  <2>1. PICK a, b \in Phys : s[j] = <<a, b>>
    BY DEF Pair
  <2>2. A[j + 1] = Swap(A[j], a, b)
    <3>1. j \in 1 .. n /\ s[j][1] = a /\ s[j][2] = b
      BY <2>1
    <3> QED
      BY <3>1, <1>s
  <2>3. {u, v} = {a, b}
    <3>1. Ends(s[i]) = {u, v} /\ Ends(s[j]) = {a, b}
      BY <1>1, <2>1 DEF Ends
    <3> QED
      BY <3>1 DEF Cancelling
  <2>4. PICK p \in Placement(Phys) : p = A[j]
    BY <1>4
  <2>5. Swap(Swap(p, a, b), u, v) = p
    <3>1. (u = a /\ v = b) \/ (u = b /\ v = a)
      BY <2>3
    <3> QED
      BY <1>1, <2>1, <2>4, <3>1, PhysSwaps
  <2> QED
    BY <2>2, <2>4, <2>5
<1>7. ASSUME NEW k \in 1 .. m, k < j
      PROVE  B[k + 1] = Swap(B[k], r[k][1], r[k][2])
  <2>1. B[k] = A[k] /\ r[k] = s[k] /\ A[k + 1] = Swap(A[k], s[k][1], s[k][2])
    BY <1>3, <1>7, <1>r, <1>s
  <2>2. B[k + 1] = A[k + 1]
    <3>1. CASE k + 1 < j
      BY <1>3, <3>1
    <3>2. CASE k + 1 = j /\ j < i - 1
      BY <1>3, <1>6, <3>2
    <3>3. CASE k + 1 = j /\ j = i - 1
      <4>1. B[k + 1] = A[i + 1] /\ A[i] = A[j + 1]
        BY <1>3, <3>3
      <4> QED
        BY <1>5, <1>6, <3>3, <4>1
    <3> QED
      BY <1>7, <3>1, <3>2, <3>3
  <2> QED
    BY <2>1, <2>2
<1>8. ASSUME NEW k \in 1 .. m, j <= k, k < i - 1
      PROVE  B[k + 1] = Swap(B[k], r[k][1], r[k][2])
  <2>1. k + 1 \in j + 1 .. i - 1 /\ k + 1 \in 1 .. n
    BY <1>8
  <2>2. PICK a, b \in Phys : s[k + 1] = <<a, b>>
    BY <2>1 DEF Pair
  <2>3. B[k] = Swap(A[k + 1], u, v) /\ r[k] = s[k + 1]
    BY <1>3, <1>8, <1>r
  <2>4. A[k + 2] = Swap(A[k + 1], a, b)
    <3>1. A[(k + 1) + 1] = Swap(A[k + 1], s[k + 1][1], s[k + 1][2])
      BY <2>1, <1>s
    <3> QED
      BY <2>2, <3>1
  <2>5. B[k + 1] = Swap(A[k + 2], u, v)
    <3>1. CASE k + 1 < i - 1
      BY <1>3, <1>8, <3>1
    <3>2. CASE k + 1 = i - 1
      <4>1. B[k + 1] = A[i + 1] /\ A[i] = A[k + 2]
        BY <1>3, <1>8, <3>2
      <4> QED
        BY <1>5, <4>1
    <3> QED
      BY <1>8, <3>1, <3>2
  <2>6. {u, v} \cap {a, b} = {}
    <3>1. Ends(s[k + 1]) \cap Ends(s[i]) = {}
      BY <2>1 DEF Cancelling
    <3> QED
      BY <1>1, <2>2, <3>1 DEF Ends
  <2>7. PICK p \in Placement(Phys) : p = A[k + 1]
    BY <1>4, <2>1
  <2>8. Swap(Swap(p, u, v), a, b) = Swap(Swap(p, a, b), u, v)
    BY <1>1, <2>2, <2>6, <2>7, PhysSwaps
  <2> QED
    BY <2>2, <2>3, <2>4, <2>5, <2>7, <2>8
<1>9. ASSUME NEW k \in 1 .. m, i - 1 <= k
      PROVE  B[k + 1] = Swap(B[k], r[k][1], r[k][2])
  <2>1. k + 2 \in 1 .. n /\ k + 1 \in 1 .. m + 1 /\ k \in 1 .. m + 1
    BY <1>9
  <2>2. A[(k + 2) + 1] = Swap(A[k + 2], s[k + 2][1], s[k + 2][2])
    BY <2>1, <1>s
  <2>3. B[k] = A[k + 2] /\ B[k + 1] = A[(k + 2) + 1] /\ r[k] = s[k + 2]
    BY <1>3, <1>9, <2>1, <1>r
  <2> QED
    BY <2>2, <2>3
<1>10. B[1] = A[1]
  <2>1. CASE 1 < j
    BY <1>3, <2>1
  <2>2. CASE 1 = j /\ j < i - 1
    BY <1>3, <1>6, <2>2
  <2>3. CASE 1 = j /\ j = i - 1
    <3>1. B[1] = A[3] /\ i = 2
      BY <1>3, <2>3
    <3> QED
      BY <1>5, <1>6, <2>3, <3>1
  <2> QED
    BY <2>1, <2>2, <2>3
<1> QED
  <2>1. ASSUME NEW k \in 1 .. m + 1
        PROVE  B[k] \in Placement(Phys)
    BY <1>3, <1>4
  <2>2. ASSUME NEW k \in 1 .. m
        PROVE  B[k + 1] = Swap(B[k], r[k][1], r[k][2])
    BY <1>7, <1>8, <1>9
  <2>3. Steps(m, B, r)
    BY <2>2 DEF Steps
  <2> QED
    BY <1>10, <2>1, <2>3

Cut(m, t, s, c, i, j, s2, t2) ==
  /\ m \in Nat /\ Len(s) = m + 2
  /\ t \in Seq(QubitMap(Phys)) /\ s \in Seq(Pair) /\ c \in QubitMap(Phys)
  /\ Chain(t, s, c) /\ isConsistent(c)
  /\ \A k \in 1 .. Len(t) : isConsistent(t[k])
  /\ i \in 1 .. Len(s) /\ j \in 1 .. i - 1 /\ Cancelling(s, i, j)
  /\ s2 \in [1 .. m -> Pair] /\ CutSwaps(m, s, i, j, s2)
  /\ t2 \in [1 .. m -> Placement(Phys)] /\ CutPlacements(m, t, s, i, j, t2)

(* And the chain still leads from the same start to the same end.          *)
LEMMA ChainRemove ==
  ASSUME NEW m, NEW t, NEW s, NEW c, NEW i, NEW j, NEW s2, NEW t2,
         Cut(m, t, s, c, i, j, s2, t2)
  PROVE  /\ t2 \in Seq(QubitMap(Phys)) /\ s2 \in Seq(Pair) /\ Len(s2) = m
         /\ \A k \in 1 .. Len(t2) : isConsistent(t2[k])
         /\ Chain(t2, s2, c) /\ At(t2, c, 1) = At(t, c, 1)
<1> DEFINE n == m + 2
<1>a. /\ m \in Nat /\ n \in Nat /\ n = m + 2 /\ n = Len(s)
      /\ t \in Seq(QubitMap(Phys)) /\ s \in Seq(Pair) /\ c \in QubitMap(Phys)
      /\ Chain(t, s, c) /\ isConsistent(c)
      /\ \A k \in 1 .. Len(t) : isConsistent(t[k])
      /\ i \in 1 .. Len(s) /\ j \in 1 .. i - 1 /\ Cancelling(s, i, j)
      /\ s2 \in [1 .. m -> Pair] /\ CutSwaps(m, s, i, j, s2)
      /\ t2 \in [1 .. m -> Placement(Phys)] /\ CutPlacements(m, t, s, i, j, t2)
  BY DEF Cut
<1> HIDE DEF n
<1> USE <1>a
<1>1. Len(t) = n /\ i \in 1 .. n
  BY DEF Chain
<1>2. s \in [1 .. n -> Pair] /\ t \in [1 .. n -> QubitMap(Phys)]
  BY <1>1, LenProperties
<1> DEFINE A == [k \in 1 .. n + 1 |-> IF k <= n THEN t[k] ELSE c]
           B == [k \in 1 .. m + 1 |-> IF k < m + 1 THEN t2[k] ELSE c]
<1>3. A \in [1 .. n + 1 -> Placement(Phys)]
  <2>1. c \in Placement(Phys) /\ \A k \in 1 .. n : t[k] \in Placement(Phys)
    BY <1>1, <1>2 DEF Placement
  <2> QED
    BY <2>1
<1>4. \A k \in 1 .. n + 1 : At(t, c, k) = A[k]
  BY <1>1 DEF At
<1>5. Steps(n, A, s)
  <2> SUFFICES ASSUME NEW k \in 1 .. n
               PROVE  A[k + 1] = Swap(A[k], s[k][1], s[k][2])
    BY DEF Steps
  <2>1. At(t, c, k + 1) = Swap(At(t, c, k), s[k][1], s[k][2])
    BY DEF Chain
  <2>2. k \in 1 .. n + 1 /\ k + 1 \in 1 .. n + 1
    OBVIOUS
  <2> HIDE DEF A
  <2> QED
    BY <1>4, <2>1, <2>2
<1>6. CutPlacements(m + 1, A, s, i, j, B)
  <2> SUFFICES ASSUME NEW k \in 1 .. m + 1
               PROVE  B[k] = IF k < j THEN A[k]
                             ELSE IF k < i - 1 THEN Swap(A[k + 1], s[i][1], s[i][2])
                             ELSE A[k + 2]
    BY DEF CutPlacements
  <2>1. CASE k = m + 1
    <3>1. B[k] = c /\ ~(k < j) /\ ~(k < i - 1) /\ k + 2 = n + 1
      BY <1>1, <2>1
    <3>2. A[n + 1] = c
      OBVIOUS
    <3> QED
      BY <3>1, <3>2
  <2>2. CASE k < m + 1
    <3>1. k \in 1 .. m
      BY <2>2
    <3>2. t2[k] = IF k < j THEN t[k]
                  ELSE IF k < i - 1 THEN Swap(t[k + 1], s[i][1], s[i][2])
                  ELSE t[k + 2]
      BY <3>1 DEF CutPlacements
    <3>3. B[k] = t2[k] /\ A[k] = t[k] /\ A[k + 1] = t[k + 1] /\ A[k + 2] = t[k + 2]
      BY <2>2, <3>1
    <3> HIDE DEF A, B
    <3> QED
      BY <3>2, <3>3
  <2> QED
    BY <2>1, <2>2
<1>7. /\ \A k \in 1 .. m + 1 : B[k] \in Placement(Phys)
      /\ Steps(m, B, s2)
      /\ B[1] = A[1]
  <2>1. m + 3 = n + 1
    OBVIOUS
  <2> HIDE DEF A, B
  <2>2. Shortened(m, A, s, i, j, s2, B)
    BY <1>1, <1>2, <1>3, <1>5, <1>6, <2>1, Zenon DEF Shortened
  <2> QED
    BY <2>2, ShiftedPlacements
<1>8. t2 \in Seq(Placement(Phys)) /\ t2 \in Seq(QubitMap(Phys)) /\ Len(t2) = m
  <2>1. t2 \in [1 .. m -> QubitMap(Phys)]
    BY DEF Placement
  <2> QED
    BY <2>1
<1>9. s2 \in Seq(Pair) /\ Len(s2) = m
  OBVIOUS
<1>10. \A k \in 1 .. m + 1 : At(t2, c, k) = B[k]
  BY <1>8 DEF At
<1>11. Chain(t2, s2, c)
  <2> SUFFICES ASSUME NEW k \in 1 .. m
               PROVE  At(t2, c, k + 1) = Swap(At(t2, c, k), s2[k][1], s2[k][2])
    BY <1>8, <1>9 DEF Chain
  <2>1. k \in 1 .. m + 1 /\ k + 1 \in 1 .. m + 1
    OBVIOUS
  <2>2. B[k + 1] = Swap(B[k], s2[k][1], s2[k][2])
    BY <1>7 DEF Steps
  <2> HIDE DEF B
  <2> QED
    BY <1>10, <2>1, <2>2
<1>12. At(t2, c, 1) = At(t, c, 1)
  <2>1. 1 \in 1 .. m + 1 /\ 1 \in 1 .. n + 1
    OBVIOUS
  <2> HIDE DEF A, B
  <2> QED
    BY <1>4, <1>7, <1>10, <2>1
<1>13. \A k \in 1 .. Len(t2) : isConsistent(t2[k])
  BY <1>8, ElementOfSeq DEF Placement
<1> QED
  BY <1>8, <1>9, <1>11, <1>12, <1>13

(* The next block starts with a placement of its own, empty table and lists. *)
LEMMA StartQBBStep ==
  ASSUME IInv, StartQBB
  PROVE  IInv'
<1> USE DEF IInv, blockVars, forwardVars, tableVars, loopVars, outputVars, histVars
<1>1. TypeOK'
  BY BlockShape DEF StartQBB, TypeOK, Stages, Errors
<1>2. PlacementsConsistent' /\ TrailConsistent'
  BY BlockShape DEF StartQBB, PlacementsConsistent, TrailConsistent
<1>3. Bookkeeping'
  BY BlockShape DEF StartQBB, Bookkeeping, QubitsPlaced, CurrentGate
<1>4. EntriesKnown'
  BY DEF StartQBB, EntriesKnown, Positions
<1>5. UndoLeadsBack'
  BY DEF StartQBB, UndoLeadsBack, Pending, PlacementBefore, Bookkeeping
<1>6. RestoredByRetrace'
  BY DEF StartQBB, RestoredByRetrace, HoldBlocksRestored, Bookkeeping
<1> QED
  BY <1>1, <1>2, <1>3, <1>4, <1>5, <1>6

(* One gate more in the table and one list of operands more.               *)
LEMMA ScheduleInPlaceStep ==
  ASSUME IInv, ScheduleInPlace
  PROVE  IInv'
<1> USE DEF IInv, blockVars, forwardVars, tableVars, loopVars, outputVars, histVars
<1>a. /\ gate_index < Len(gates) /\ pc = "populate"
      /\ CurrentPlace \in Seq(Phys)
      /\ Len(CurrentPlace) = Len(CurrentGate.qubits)
      /\ IsAvailable(CurrentGate, CurrentPlace)
  BY CurrentPlaceIsSeq DEF ScheduleInPlace, NeedsRouting, Bookkeeping
<1>b. /\ table_' \in [Phys -> Seq(Entry)]
      /\ operands' \in Seq(Seq(Operands)) /\ Len(operands') = gate_index + 1
      /\ gate_index' = gate_index + 1
      /\ \A x \in Phys : \A i \in 1 .. Len(table_'[x]) :
            \/ table_'[x][i].gate \in {gate_index, IsIdle}
            \/ \E j \in 1 .. Len(table_[x]) : table_'[x][i].gate = table_[x][j].gate
  BY <1>a, PlacedGate DEF ScheduleInPlace
<1>c. gate_index \in Nat /\ gate_index + 1 \in 1 .. Len(gates)
  BY <1>a, CurrentGateFacts DEF TypeOK
<1>1. TypeOK'
  BY <1>b, <1>c DEF ScheduleInPlace, TypeOK, Stages, Errors, Entry
<1>2. PlacementsConsistent' /\ TrailConsistent'
  BY DEF ScheduleInPlace, PlacementsConsistent, TrailConsistent
<1>3. Bookkeeping'
  BY DEF ScheduleInPlace, Bookkeeping, QubitsPlaced, CurrentGate
<1>4. EntriesKnown'
  <2>1. gate_index \in Positions' /\ Positions \subseteq Positions'
    BY <1>b, <1>c DEF ScheduleInPlace, Positions
  <2>2. \A x \in Phys : \A i \in 1 .. Len(table_[x]) :
           table_[x][i].gate \in Positions \cup {IsIdle}
    BY <1>a DEF EntriesKnown
  <2>3. \A x \in Phys : \A i \in 1 .. Len(table_'[x]) :
           table_'[x][i].gate \in Positions' \cup {IsIdle}
    BY <1>b, <2>1, <2>2
  <2> QED
    BY <1>a, <2>3 DEF ScheduleInPlace, EntriesKnown
<1>5. UndoLeadsBack'
  BY DEF ScheduleInPlace, UndoLeadsBack, Pending, PlacementBefore, Bookkeeping
<1>6. RestoredByRetrace'
  BY DEF ScheduleInPlace, RestoredByRetrace, HoldBlocksRestored, Bookkeeping
<1> QED
  BY <1>1, <1>2, <1>3, <1>4, <1>5, <1>6

(* The route found ends where the gate is available.                       *)
LEMMA FindRouteStep ==
  ASSUME IInv, FindRoute
  PROVE  IInv'
<1> USE DEF IInv, blockVars, forwardVars, tableVars, loopVars, outputVars, histVars
<1>a. /\ gate_index < Len(gates) /\ pc = "populate"
      /\ CurrentPlace \in Seq(Phys)
      /\ Len(CurrentPlace) = Len(CurrentGate.qubits)
      /\ (Len(CurrentPlace) = 1 \/ Len(CurrentPlace) = 2)
  <2>1. /\ gate_index < Len(gates) /\ pc = "populate"
        /\ CurrentPlace \in Seq(Phys)
        /\ Len(CurrentPlace) = Len(CurrentGate.qubits)
    BY CurrentPlaceIsSeq DEF FindRoute, Bookkeeping
  <2>2. Len(CurrentGate.qubits) > 0
    BY <2>1, CurrentGateFacts
  <2>3. PICK n \in Nat : n = Len(CurrentPlace)
    BY <2>1, LenProperties
  <2>4. n <= 2 /\ n > 0
    BY <2>1, <2>2, <2>3 DEF FindRoute
  <2>5. n = 1 \/ n = 2
    BY <2>4
  <2> QED
    BY <2>1, <2>3, <2>5
<1>b. /\ route' \in [swaps : Seq(Pair), goal : Seq(Phys)]
      /\ Len(route'.goal) = Len(CurrentGate.qubits)
      /\ IsAvailable(CurrentGate, route'.goal)
  BY <1>a, RouteEndsAvailable DEF FindRoute
<1>c. /\ route' \in [swaps : Seq(Pair), goal : Seq(Phys)]
      /\ measured' \subseteq Phys
  <2>1. route'.goal[1] \in Phys
    <3>1. route'.goal \in Seq(Phys)
      BY <1>b
    <3>2. PICK n : n = Len(route'.goal)
      OBVIOUS
    <3>3. n = 1 \/ n = 2
      BY <1>a, <1>b, <3>2
    <3>4. 1 \in 1 .. n
      BY <3>3
    <3> QED
      BY <3>1, <3>2, <3>4, ElementOfSeq
  <2> QED
    BY <1>b, <2>1 DEF FindRoute, MeasuredAfter, TypeOK
<1>1. TypeOK'
  BY <1>c DEF FindRoute, TypeOK, Stages, Errors, Pair
<1>2. PlacementsConsistent' /\ TrailConsistent'
  BY DEF FindRoute, PlacementsConsistent, TrailConsistent
<1>3. Bookkeeping'
  BY <1>a, <1>b DEF FindRoute, Bookkeeping, QubitsPlaced, CurrentGate
<1>4. EntriesKnown'
  BY DEF FindRoute, EntriesKnown, Positions
<1>5. UndoLeadsBack'
  BY DEF FindRoute, UndoLeadsBack, Pending, PlacementBefore, Bookkeeping
<1>6. RestoredByRetrace'
  BY DEF FindRoute, RestoredByRetrace, HoldBlocksRestored, Bookkeeping
<1> QED
  BY <1>1, <1>2, <1>3, <1>4, <1>5, <1>6

(* The compiler gives up; nothing else changes.                            *)
LEMMA FailToRouteStep ==
  ASSUME IInv, FailToRoute
  PROVE  IInv'
<1> USE DEF IInv, blockVars, forwardVars, tableVars, loopVars, outputVars, histVars
<1>1. TypeOK'
  BY DEF FailToRoute, TypeOK, Stages, Errors
<1>2. PlacementsConsistent' /\ TrailConsistent'
  BY DEF FailToRoute, PlacementsConsistent, TrailConsistent
<1>3. Bookkeeping'
  BY DEF FailToRoute, Bookkeeping, QubitsPlaced, CurrentGate
<1>4. EntriesKnown'
  BY DEF FailToRoute, EntriesKnown, Positions
<1>5. UndoLeadsBack'
  BY DEF FailToRoute, UndoLeadsBack, Pending, PlacementBefore, Bookkeeping
<1>6. RestoredByRetrace'
  BY DEF FailToRoute, RestoredByRetrace, HoldBlocksRestored, Bookkeeping
<1> QED
  BY <1>1, <1>2, <1>3, <1>4, <1>5, <1>6

(* A swap on the way is one link more of the undo chain.                   *)
LEMMA RoutingSwapStep ==
  ASSUME IInv, RoutingSwap
  PROVE  IInv'
<1> USE DEF IInv, blockVars, forwardVars, tableVars, loopVars, outputVars, histVars
<1>a. /\ pc = "route"
      /\ route.swaps \in Seq(Pair) /\ route.swaps # <<>>
      /\ Head(route.swaps) \in Pair /\ Tail(route.swaps) \in Seq(Pair)
  BY HeadTailProperties DEF RoutingSwap, TypeOK, Pair
<1> DEFINE e == Head(route.swaps)
<1>b. /\ e[1] \in Phys /\ e[2] \in Phys
      /\ routing' \in Seq(Pair) /\ Len(routing') = Len(routing) + 1
      /\ table_' \in [Phys -> Seq(Entry)]
      /\ qubit_map_' \in QubitMap(Phys) /\ isConsistent(qubit_map_')
      /\ qubit_map_' = Swap(qubit_map_, e[1], e[2])
      /\ \A x \in Phys : \A i \in 1 .. Len(table_'[x]) :
            \/ table_'[x][i].gate \in {-Len(routing'), IsIdle}
            \/ \E j \in 1 .. Len(table_[x]) : table_'[x][i].gate = table_[x][j].gate
  BY <1>a, AddedSwap DEF RoutingSwap
<1>c. /\ trail' \in Seq(QubitMap(Phys)) /\ Len(trail') = Len(trail) + 1
      /\ \A k \in 1 .. Len(trail) : trail'[k] = trail[k]
      /\ trail'[Len(trail) + 1] = qubit_map_
  BY AppendProperties DEF RoutingSwap, TypeOK
<1> HIDE DEF e
<1>1. TypeOK'
  BY <1>a, <1>b, <1>c DEF RoutingSwap, TypeOK, Stages, Errors, Entry, Pair
<1>2. PlacementsConsistent' /\ TrailConsistent'
  <2>1. PlacementsConsistent'
    BY <1>b DEF RoutingSwap, PlacementsConsistent
  <2>2. ASSUME NEW k \in 1 .. Len(trail')
        PROVE  isConsistent(trail'[k])
    <3>1. Len(trail) \in Nat
      BY LenProperties DEF TypeOK
    <3>2. CASE k <= Len(trail)
      BY <1>c, <3>1, <3>2 DEF TrailConsistent
    <3>3. CASE k = Len(trail) + 1
      BY <1>c, <3>3 DEF PlacementsConsistent
    <3> QED
      BY <1>c, <3>1, <3>2, <3>3
  <2> QED
    BY <2>1, <2>2 DEF TrailConsistent
<1>3. Bookkeeping'
  <2>1. QubitsPlaced'
    <3>1. gates' = gates /\ QubitsPlaced /\ qubit_map_ \in QubitMap(Phys)
      BY <1>a DEF RoutingSwap, Bookkeeping, TypeOK
    <3> SUFFICES ASSUME NEW i \in 1 .. Len(gates), NEW k \in 1 .. Len(gates[i].qubits)
                 PROVE  qubit_map_'.prog[gates[i].qubits[k]] \in Phys
      BY <3>1 DEF QubitsPlaced
    <3> QED
      BY <1>b, <3>1, GateQubits, SwapKeepsPlaced DEF QubitsPlaced
  <2> QED
    BY <1>a, <2>1 DEF RoutingSwap, Bookkeeping, CurrentGate
<1>4. EntriesKnown'
  <2>1. -Len(routing') \in Positions' /\ Positions \subseteq Positions'
    <3>1. Len(routing) \in Nat
      BY LenProperties DEF TypeOK
    <3> QED
      BY <1>b, <3>1 DEF RoutingSwap, Positions
  <2>2. \A x \in Phys : \A i \in 1 .. Len(table_[x]) :
           table_[x][i].gate \in Positions \cup {IsIdle}
    BY <1>a DEF EntriesKnown
  <2>3. \A x \in Phys : \A i \in 1 .. Len(table_'[x]) :
           table_'[x][i].gate \in Positions' \cup {IsIdle}
    BY <1>b, <2>1, <2>2
  <2> QED
    BY <1>a, <2>3 DEF RoutingSwap, EntriesKnown
<1>5. UndoLeadsBack'
  <2>1. /\ trail \in Seq(QubitMap(Phys)) /\ routing \in Seq(Pair)
        /\ qubit_map_ \in QubitMap(Phys)
    BY DEF TypeOK, Pair
  <2>2. Chain(trail, routing, qubit_map_) /\ At(trail, qubit_map_, 1) = initial_qubit_map_
    BY <1>a, UndoIsChain DEF Pending
  <2>3. trail' = Append(trail, qubit_map_) /\ routing' = Append(routing, e)
    BY DEF RoutingSwap, addRoutingSwap, e
  <2>4. e \in Pair
    BY <1>a DEF e
  <2>5. /\ Chain(trail', routing', qubit_map_')
        /\ At(trail', qubit_map_', 1) = initial_qubit_map_
    BY <1>b, <2>1, <2>2, <2>3, <2>4, ChainAppend
  <2> QED
    BY <1>a, <2>5 DEF RoutingSwap, UndoLeadsBack, Pending, PlacementBefore, Chain, At, Swap
<1>6. RestoredByRetrace'
  BY DEF RoutingSwap, RestoredByRetrace, HoldBlocksRestored, Bookkeeping
<1> QED
  BY <1>1, <1>2, <1>3, <1>4, <1>5, <1>6

(* The gate is entered where its route ended.                              *)
LEMMA PlaceRoutedStep ==
  ASSUME IInv, PlaceRouted
  PROVE  IInv'
<1> USE DEF IInv, blockVars, forwardVars, tableVars, loopVars, outputVars, histVars
<1>a. /\ gate_index < Len(gates) /\ pc = "route"
      /\ route.goal \in Seq(Phys)
      /\ Len(route.goal) = Len(CurrentGate.qubits)
      /\ IsAvailable(CurrentGate, route.goal)
  BY DEF PlaceRouted, Bookkeeping, TypeOK
<1>b. /\ table_' \in [Phys -> Seq(Entry)]
      /\ operands' \in Seq(Seq(Operands)) /\ Len(operands') = gate_index + 1
      /\ gate_index' = gate_index + 1
      /\ \A x \in Phys : \A i \in 1 .. Len(table_'[x]) :
            \/ table_'[x][i].gate \in {gate_index, IsIdle}
            \/ \E j \in 1 .. Len(table_[x]) : table_'[x][i].gate = table_[x][j].gate
  BY <1>a, PlacedGate DEF PlaceRouted
<1>c. gate_index \in Nat /\ gate_index + 1 \in 1 .. Len(gates)
  BY <1>a, CurrentGateFacts DEF TypeOK
<1>1. TypeOK'
  BY <1>b, <1>c DEF PlaceRouted, TypeOK, Stages, Errors, Entry, NoRoute
<1>2. PlacementsConsistent' /\ TrailConsistent'
  BY DEF PlaceRouted, PlacementsConsistent, TrailConsistent
<1>3. Bookkeeping'
  BY DEF PlaceRouted, Bookkeeping, QubitsPlaced, CurrentGate
<1>4. EntriesKnown'
  <2>1. gate_index \in Positions' /\ Positions \subseteq Positions'
    BY <1>b, <1>c DEF PlaceRouted, Positions
  <2>2. \A x \in Phys : \A i \in 1 .. Len(table_[x]) :
           table_[x][i].gate \in Positions \cup {IsIdle}
    BY <1>a DEF EntriesKnown
  <2>3. \A x \in Phys : \A i \in 1 .. Len(table_'[x]) :
           table_'[x][i].gate \in Positions' \cup {IsIdle}
    BY <1>b, <2>1, <2>2
  <2> QED
    BY <1>a, <2>3 DEF PlaceRouted, EntriesKnown
<1>5. UndoLeadsBack'
  BY DEF PlaceRouted, UndoLeadsBack, Pending, PlacementBefore, Bookkeeping
<1>6. RestoredByRetrace'
  BY DEF PlaceRouted, RestoredByRetrace, HoldBlocksRestored, Bookkeeping
<1> QED
  BY <1>1, <1>2, <1>3, <1>4, <1>5, <1>6

(* The undo list starts as the list of all swaps.                          *)
LEMMA EndPopulateStep ==
  ASSUME IInv, EndPopulate
  PROVE  IInv'
<1> USE DEF IInv, blockVars, forwardVars, tableVars, loopVars, outputVars, histVars
<1>a. NoSweep \in [time : Nat, iq : 0 .. NumPhys, counter : Nat, min : Nat,
                    Idxs : [Phys -> Nat]]
  BY PlatformShape DEF NoSweep, MaxTime
<1>b. Len(routing) \in Nat /\ Len(HamiltonianPath) \in Nat
  BY PlatformShape, LenProperties DEF TypeOK
<1>1. TypeOK'
  <2>1. routing \in Seq(Phys \X Phys) /\ HamiltonianPath \in Seq(Phys)
    BY PlatformShape DEF TypeOK
  <2>2. CASE release
    BY <1>a, <2>2 DEF EndPopulate, TypeOK, Stages, Errors
  <2>3. CASE ~release /\ BackwardMethod = "retrace"
    BY <1>b, <2>1, <2>3 DEF EndPopulate, TypeOK, Stages, Errors
  <2>4. CASE ~release /\ BackwardMethod # "retrace"
    BY <1>b, <2>1, <2>4 DEF EndPopulate, TypeOK, Stages, Errors
  <2> QED
    BY <2>2, <2>3, <2>4
<1>2. PlacementsConsistent' /\ TrailConsistent'
  BY DEF EndPopulate, PlacementsConsistent, TrailConsistent
<1>3. Bookkeeping'
  <2>1. CASE release
    BY <2>1 DEF EndPopulate, Bookkeeping, QubitsPlaced
  <2>2. CASE ~release /\ BackwardMethod = "retrace"
    BY <1>b, <2>2 DEF EndPopulate, Bookkeeping, QubitsPlaced, IsEqual
  <2>3. CASE ~release /\ BackwardMethod # "retrace"
    BY <1>b, <2>3, PlatformShape DEF EndPopulate, Bookkeeping, QubitsPlaced
  <2> QED
    BY <2>1, <2>2, <2>3
<1>4. EntriesKnown'
  <2>1. routing' = routing /\ gate_index' = gate_index /\ table_' = table_ /\ block' = block
    BY DEF EndPopulate
  <2>2. pc = "populate" /\ pc' # "reorder" /\ (pc' = "sweep" => sequence' = <<>>)
    BY DEF EndPopulate
  <2> QED
    BY <2>1, <2>2 DEF EntriesKnown, Positions
<1>5. UndoLeadsBack'
  BY DEF EndPopulate, UndoLeadsBack, Pending, PlacementBefore, Bookkeeping
<1>6. RestoredByRetrace'
  BY DEF EndPopulate, RestoredByRetrace, HoldBlocksRestored, Bookkeeping, IsEqual
<1> QED
  BY <1>1, <1>2, <1>3, <1>4, <1>5, <1>6

(* Two cancelling swaps leave the chain, or nothing does.                  *)
LEMMA RetraceScanStep ==
  ASSUME IInv, RetraceScan
  PROVE  IInv'
<1> USE DEF IInv, blockVars, forwardVars, tableVars, loopVars, outputVars, histVars
<1>a. /\ pc = "scan" /\ scan \in 1 .. Len(todo) /\ scan >= 2
      /\ todo \in Seq(Pair) /\ Len(todo) \in Nat
      /\ trail \in Seq(QubitMap(Phys)) /\ qubit_map_ \in QubitMap(Phys)
      /\ Chain(trail, todo, qubit_map_)
      /\ At(trail, qubit_map_, 1) = initial_qubit_map_
  BY UndoIsChain, LenProperties DEF RetraceScan, Bookkeeping, TypeOK, Pair, Pending
<1> DEFINE Goal ==
    /\ todo' \in Seq(Pair) /\ trail' \in Seq(QubitMap(Phys))
    /\ scan' \in Nat /\ scan' <= Len(todo') /\ was_swap_removed' \in BOOLEAN
    /\ \A k \in 1 .. Len(trail') : isConsistent(trail'[k])
    /\ Chain(trail', todo', qubit_map_)
    /\ At(trail', qubit_map_, 1) = initial_qubit_map_
<1>b. Goal
  <2> DEFINE touching == {j \in 1 .. scan - 1 : Ends(todo[j]) \cap Ends(todo[scan]) # {}}
             Removed(j) == /\ \A k \in touching : k <= j
                           /\ Ends(todo[j]) = Ends(todo[scan])
                           /\ todo' = Without(todo, scan, j)
                           /\ trail' = [k \in 1 .. Len(todo) - 2 |->
                                IF k < j THEN trail[k]
                                ELSE IF k < scan - 1
                                THEN Swap(trail[k + 1], todo[scan][1], todo[scan][2])
                                ELSE trail[k + 2]]
                           /\ was_swap_removed' = TRUE /\ scan' = scan - 2
             Kept == scan' = scan - 1 /\ UNCHANGED <<todo, was_swap_removed, trail>>
  <2>1. (\E j \in touching : Removed(j)) \/ Kept
    BY DEF RetraceScan, Touching, Swap
  <2>2. ASSUME NEW j \in touching, Removed(j)
        PROVE  Goal
    <3>1. j \in 1 .. scan - 1
      OBVIOUS
    <3>2. ASSUME NEW k \in j + 1 .. scan - 1
          PROVE  Ends(todo[k]) \cap Ends(todo[scan]) = {}
      <4>1. k \in 1 .. scan - 1 /\ ~(k <= j)
        BY <1>a, <3>1
      <4>2. k \notin touching
        BY <2>2, <4>1
      <4> QED
        BY <4>1, <4>2
    <3> HIDE DEF touching
    <3>3. isConsistent(qubit_map_) /\ \A k \in 1 .. Len(trail) : isConsistent(trail[k])
      BY DEF PlacementsConsistent, TrailConsistent
    <3>9. PICK n, m \in Nat : n = Len(todo) /\ n = m + 2 /\ Len(trail) = n
      <4>1. Len(todo) - 2 \in Nat /\ Len(todo) = (Len(todo) - 2) + 2 /\ Len(trail) = Len(todo)
        BY <1>a DEF Chain
      <4> QED
        BY <1>a, <4>1
    <3>10. \A k \in 1 .. n : /\ trail[k] \in Placement(Phys)
                              /\ Swap(trail[k], todo[scan][1], todo[scan][2]) \in Placement(Phys)
      <4>1. \A k \in 1 .. n : trail[k] \in Placement(Phys)
        BY <1>a, <3>3, <3>9, ElementOfSeq DEF Placement
      <4>2. todo[scan][1] \in Phys /\ todo[scan][2] \in Phys
        BY <1>a DEF Pair
      <4> QED
        BY <4>1, <4>2, PhysIsPlaced, SwapIsPlacement
    <3>5. todo' \in [1 .. m -> Pair]
      <4>1. \A k \in 1 .. n : todo[k] \in Pair
        BY <1>a, <3>9, ElementOfSeq
      <4> QED
        BY <1>a, <2>2, <3>1, <3>9, <4>1 DEF Without
    <3>6. CutSwaps(m, todo, scan, j, todo')
      BY <2>2, <3>9 DEF Without, CutSwaps
    <3>7. trail' \in [1 .. m -> Placement(Phys)]
      BY <1>a, <2>2, <3>1, <3>9, <3>10
    <3>8. CutPlacements(m, trail, todo, scan, j, trail')
      BY <2>2, <3>9 DEF CutPlacements
    <3>11. Cancelling(todo, scan, j)
      BY <2>2, <3>2 DEF Cancelling
    <3>12. Cut(m, trail, todo, qubit_map_, scan, j, todo', trail')
      BY <1>a, <3>1, <3>3, <3>5, <3>6, <3>7, <3>8, <3>9, <3>11 DEF Cut
    <3>13. Len(todo) - 2 = m
      BY <3>9
    <3>4. /\ trail' \in Seq(QubitMap(Phys)) /\ todo' \in Seq(Pair)
          /\ Len(todo') = Len(todo) - 2
          /\ \A k \in 1 .. Len(trail') : isConsistent(trail'[k])
          /\ Chain(trail', todo', qubit_map_)
          /\ At(trail', qubit_map_, 1) = At(trail, qubit_map_, 1)
      BY <3>12, <3>13, ChainRemove
    <3> QED
      BY <1>a, <2>2, <3>4, <3>9
  <2>3. ASSUME Kept
        PROVE  Goal
    BY <1>a, <2>3 DEF TrailConsistent, TypeOK
  <2> HIDE DEF touching, Removed, Kept, Goal
  <2> QED
    BY <2>1, <2>2, <2>3
<1>c. UNCHANGED <<pc, blockVars, final_qubit_map, forwardVars, tableVars, line,
                  outputVars, histVars>>
  BY DEF RetraceScan
<1>1. TypeOK'
  BY <1>b, <1>c DEF TypeOK, Pair
<1>2. PlacementsConsistent' /\ TrailConsistent'
  BY <1>b, <1>c DEF PlacementsConsistent, TrailConsistent
<1>3. Bookkeeping'
  BY <1>a, <1>b, <1>c, PlatformShape DEF Bookkeeping, QubitsPlaced, CurrentGate
<1>4. EntriesKnown'
  BY <1>c DEF EntriesKnown, Positions
<1>5. UndoLeadsBack'
  BY <1>a, <1>b, <1>c DEF UndoLeadsBack, Pending, PlacementBefore, Chain, At, Swap
<1>6. RestoredByRetrace'
  BY <1>a, <1>c DEF RestoredByRetrace, HoldBlocksRestored, Bookkeeping
<1> QED
  BY <1>1, <1>2, <1>3, <1>4, <1>5, <1>6

(* Another pass, or the chain as it is will be undone.                     *)
LEMMA RetracePassStep ==
  ASSUME IInv, RetracePass
  PROVE  IInv'
<1> USE DEF IInv, blockVars, forwardVars, tableVars, loopVars, outputVars, histVars
<1>1. TypeOK'
  <2>1. Len(todo) \in Nat
    BY LenProperties DEF TypeOK
  <2> QED
    BY <2>1 DEF RetracePass, TypeOK, Stages, Errors
<1>2. PlacementsConsistent' /\ TrailConsistent'
  BY DEF RetracePass, PlacementsConsistent, TrailConsistent
<1>3. Bookkeeping'
  BY DEF RetracePass, Bookkeeping, QubitsPlaced, CurrentGate
<1>4. EntriesKnown'
  BY DEF RetracePass, EntriesKnown, Positions
<1>5. UndoLeadsBack'
  BY DEF RetracePass, UndoLeadsBack, Pending, PlacementBefore, Bookkeeping
<1>6. RestoredByRetrace'
  BY DEF RetracePass, RestoredByRetrace, HoldBlocksRestored, Bookkeeping
<1> QED
  BY <1>1, <1>2, <1>3, <1>4, <1>5, <1>6

(* The last link is undone.                                                *)
LEMMA RetraceSwapStep ==
  ASSUME IInv, RetraceSwap
  PROVE  IInv'
<1> USE DEF IInv, blockVars, forwardVars, tableVars, loopVars, outputVars, histVars
<1> DEFINE e == todo[Len(todo)]
<1>a. /\ pc = "undo" /\ BackwardMethod = "retrace"
      /\ todo \in Seq(Pair) /\ todo # <<>>
      /\ e \in Pair
  <2>1. /\ pc = "undo" /\ todo \in Seq(Pair) /\ todo # <<>>
        /\ BackwardMethod = "retrace"
    BY PlatformShape DEF RetraceSwap, TypeOK, Pair, Bookkeeping
  <2>2. Len(todo) \in 1 .. Len(todo)
    BY <2>1, EmptySeq, LenProperties
  <2> QED
    BY <2>1, <2>2, ElementOfSeq
<1>b. /\ e[1] \in Phys /\ e[2] \in Phys
      /\ routing' \in Seq(Pair) /\ Len(routing') = Len(routing) + 1
      /\ table_' \in [Phys -> Seq(Entry)]
      /\ qubit_map_' \in QubitMap(Phys) /\ isConsistent(qubit_map_')
      /\ qubit_map_' = Swap(qubit_map_, e[1], e[2])
      /\ \A x \in Phys : \A i \in 1 .. Len(table_'[x]) :
            \/ table_'[x][i].gate \in {-Len(routing'), IsIdle}
            \/ \E j \in 1 .. Len(table_[x]) : table_'[x][i].gate = table_[x][j].gate
  BY <1>a, AddedSwap DEF RetraceSwap
<1>c. /\ trail \in Seq(QubitMap(Phys)) /\ qubit_map_ \in QubitMap(Phys)
      /\ Chain(trail, todo, qubit_map_)
      /\ At(trail, qubit_map_, 1) = initial_qubit_map_
  BY <1>a, UndoIsChain DEF TypeOK, Pending
<1>d. /\ trail' = SubSeq(trail, 1, Len(trail) - 1) /\ todo' = SubSeq(todo, 1, Len(todo) - 1)
      /\ trail' \in Seq(QubitMap(Phys)) /\ todo' \in Seq(Pair)
      /\ Len(trail') <= Len(trail)
      /\ \A k \in 1 .. Len(trail') : trail'[k] = trail[k]
  <2>1. trail' = SubSeq(trail, 1, Len(trail) - 1) /\ todo' = SubSeq(todo, 1, Len(todo) - 1)
    BY DEF RetraceSwap
  <2>2. Len(todo) \in Nat /\ Len(todo) > 0 /\ Len(trail) = Len(todo)
    BY <1>a, <1>c, EmptySeq, LenProperties DEF Chain
  <2> QED
    BY <1>a, <1>c, <2>1, <2>2, SubSeqProperties
<1> HIDE DEF e
<1>1. TypeOK'
  BY <1>a, <1>b, <1>d DEF RetraceSwap, TypeOK, Stages, Errors, Entry, Pair
<1>2. PlacementsConsistent' /\ TrailConsistent'
  <2>1. PlacementsConsistent'
    BY <1>b DEF RetraceSwap, PlacementsConsistent
  <2>2. ASSUME NEW k \in 1 .. Len(trail')
        PROVE  isConsistent(trail'[k])
    BY <1>c, <1>d, LenProperties DEF TrailConsistent
  <2> QED
    BY <2>1, <2>2 DEF TrailConsistent
<1>3. Bookkeeping'
  BY DEF RetraceSwap, Bookkeeping, QubitsPlaced, CurrentGate
<1>4. EntriesKnown'
  <2>1. -Len(routing') \in Positions' /\ Positions \subseteq Positions'
    <3>1. Len(routing) \in Nat
      BY LenProperties DEF TypeOK
    <3> QED
      BY <1>b, <3>1 DEF RetraceSwap, Positions
  <2>2. \A x \in Phys : \A i \in 1 .. Len(table_[x]) :
           table_[x][i].gate \in Positions \cup {IsIdle}
    BY <1>a DEF EntriesKnown
  <2>3. \A x \in Phys : \A i \in 1 .. Len(table_'[x]) :
           table_'[x][i].gate \in Positions' \cup {IsIdle}
    BY <1>b, <2>1, <2>2
  <2> QED
    BY <1>a, <2>3 DEF RetraceSwap, EntriesKnown
<1>5. UndoLeadsBack'
  <2>1. /\ Chain(trail', todo', qubit_map_')
        /\ At(trail', qubit_map_', 1) = initial_qubit_map_
    <3>1. \A k \in 1 .. Len(trail) : isConsistent(trail[k])
      BY DEF TrailConsistent
    <3>2. qubit_map_' = Swap(qubit_map_, todo[Len(todo)][1], todo[Len(todo)][2])
      BY <1>b DEF e
    <3> QED
      BY <1>a, <1>c, <1>d, <3>1, <3>2, ChainPop
  <2> QED
    BY <1>a, <2>1 DEF RetraceSwap, UndoLeadsBack, Pending, PlacementBefore, Chain, At, Swap
<1>6. RestoredByRetrace'
  BY DEF RetraceSwap, RestoredByRetrace, HoldBlocksRestored, Bookkeeping
<1> QED
  BY <1>1, <1>2, <1>3, <1>4, <1>5, <1>6

(* The path of the sorting methods loses a qubit.                          *)
LEMMA PruneQubitStep ==
  ASSUME IInv, PruneQubit
  PROVE  IInv'
<1> USE DEF IInv, blockVars, forwardVars, tableVars, loopVars, outputVars, histVars
<1>a. /\ line \in Seq(Phys) /\ Len(line) \in Nat
      /\ scan \in 1 .. Len(line)
  BY LenProperties DEF TypeOK, Bookkeeping, PruneQubit
<1>b. /\ line' \in Seq(Phys)
      /\ scan - 1 <= Len(line')
  <2> DEFINE l == SubSeq(line, 1, scan - 1)
             r == SubSeq(line, scan + 1, Len(line))
  <2>1. /\ l \in Seq(Phys) /\ Len(l) = scan - 1
        /\ r \in Seq(Phys) /\ Len(r) \in Nat
    BY <1>a, SubSeqProperties, LenProperties
  <2>2. line' = l \o r \/ line' = line
    BY DEF PruneQubit
  <2> HIDE DEF l, r
  <2>3. l \o r \in Seq(Phys) /\ Len(l \o r) = Len(l) + Len(r)
    BY <2>1, ConcatProperties
  <2>4. CASE line' = line
    BY <1>a, <2>4
  <2>5. CASE line' = l \o r
    BY <1>a, <2>1, <2>3, <2>5
  <2> QED
    BY <2>2, <2>4, <2>5
<1>1. TypeOK'
  <2>1. scan' = scan - 1 /\ scan' \in Nat
    BY <1>a DEF PruneQubit
  <2>2. UNCHANGED <<pc, blockVars, final_qubit_map, forwardVars, tableVars, todo,
                    was_swap_removed, outputVars, trail, histVars>>
    BY DEF PruneQubit
  <2> QED
    BY <1>b, <2>1, <2>2 DEF TypeOK, Stages, Errors
<1>2. PlacementsConsistent' /\ TrailConsistent'
  BY DEF PruneQubit, PlacementsConsistent, TrailConsistent
<1>3. Bookkeeping'
  BY <1>a, <1>b DEF PruneQubit, Bookkeeping, QubitsPlaced
<1>4. EntriesKnown'
  BY DEF PruneQubit, EntriesKnown, Positions
<1>5. UndoLeadsBack'
  BY DEF PruneQubit, UndoLeadsBack, Pending, PlacementBefore, Bookkeeping
<1>6. RestoredByRetrace'
  BY DEF PruneQubit, RestoredByRetrace, HoldBlocksRestored, Bookkeeping
<1> QED
  BY <1>1, <1>2, <1>3, <1>4, <1>5, <1>6

(* The path is long enough, or the compiler gives up.                      *)
LEMMA PruneDoneStep ==
  ASSUME IInv, PruneDone
  PROVE  IInv'
<1> USE DEF IInv, blockVars, forwardVars, tableVars, loopVars, outputVars, histVars
<1>1. TypeOK'
  BY DEF PruneDone, TypeOK, Stages, Errors
<1>2. PlacementsConsistent' /\ TrailConsistent'
  BY DEF PruneDone, PlacementsConsistent, TrailConsistent
<1>3. Bookkeeping'
  BY DEF PruneDone, Bookkeeping, QubitsPlaced, CurrentGate
<1>4. EntriesKnown'
  BY DEF PruneDone, EntriesKnown, Positions
<1>5. UndoLeadsBack'
  BY DEF PruneDone, UndoLeadsBack, Pending, PlacementBefore, Bookkeeping
<1>6. RestoredByRetrace'
  BY DEF PruneDone, RestoredByRetrace, HoldBlocksRestored, Bookkeeping
<1> QED
  BY <1>1, <1>2, <1>3, <1>4, <1>5, <1>6

(* A swap of the sorting network; nothing is left to undo.                 *)
LEMMA SortSwapStep ==
  ASSUME IInv, SortSwap
  PROVE  IInv'
<1> USE DEF IInv, blockVars, forwardVars, tableVars, loopVars, outputVars, histVars
<1>a. PICK k \in 1 .. Len(line) - 1 : addRoutingSwap(<<line[k], line[k + 1]>>)
  BY DEF SortSwap
<1> DEFINE e == <<line[k], line[k + 1]>>
<1>b. pc = "undo" /\ BackwardMethod = "sort" /\ e \in Pair
  <2>1. line \in Seq(Phys) /\ Len(line) \in Nat
    BY LenProperties DEF TypeOK
  <2>2. k \in 1 .. Len(line) /\ k + 1 \in 1 .. Len(line)
    BY <2>1
  <2> QED
    BY <2>1, <2>2, ElementOfSeq DEF SortSwap, Pair
<1> HIDE DEF e
<1>c. /\ routing' \in Seq(Pair) /\ Len(routing') = Len(routing) + 1
      /\ table_' \in [Phys -> Seq(Entry)]
      /\ qubit_map_' \in QubitMap(Phys) /\ isConsistent(qubit_map_')
      /\ \A x \in Phys : \A i \in 1 .. Len(table_'[x]) :
            \/ table_'[x][i].gate \in {-Len(routing'), IsIdle}
            \/ \E j \in 1 .. Len(table_[x]) : table_'[x][i].gate = table_[x][j].gate
  BY <1>a, <1>b, AddedSwap DEF e
<1>1. TypeOK'
  BY <1>b, <1>c DEF SortSwap, TypeOK, Stages, Errors, Entry, Pair
<1>2. PlacementsConsistent' /\ TrailConsistent'
  BY <1>c DEF SortSwap, PlacementsConsistent, TrailConsistent
<1>3. Bookkeeping'
  BY DEF SortSwap, Bookkeeping, QubitsPlaced, CurrentGate
<1>4. EntriesKnown'
  <2>1. -Len(routing') \in Positions' /\ Positions \subseteq Positions'
    <3>1. Len(routing) \in Nat
      BY LenProperties DEF TypeOK
    <3> QED
      BY <1>c, <3>1 DEF SortSwap, Positions
  <2>2. \A x \in Phys : \A i \in 1 .. Len(table_[x]) :
           table_[x][i].gate \in Positions \cup {IsIdle}
    BY <1>b DEF EntriesKnown
  <2>3. \A x \in Phys : \A i \in 1 .. Len(table_'[x]) :
           table_'[x][i].gate \in Positions' \cup {IsIdle}
    BY <1>c, <2>1, <2>2
  <2> QED
    BY <1>b, <2>3 DEF SortSwap, EntriesKnown
<1>5. UndoLeadsBack'
  BY DEF SortSwap, UndoLeadsBack, Pending, PlacementBefore, Bookkeeping
<1>6. RestoredByRetrace'
  BY DEF SortSwap, RestoredByRetrace, HoldBlocksRestored, Bookkeeping
<1> QED
  BY <1>1, <1>2, <1>3, <1>4, <1>5, <1>6

(* An empty chain has its two ends equal.                                  *)
LEMMA BackwardDoneStep ==
  ASSUME IInv, BackwardDone
  PROVE  IInv'
<1> USE DEF IInv, blockVars, forwardVars, tableVars, loopVars, outputVars, histVars
<1>a. NoSweep \in [time : Nat, iq : 0 .. NumPhys, counter : Nat, min : Nat,
                    Idxs : [Phys -> Nat]]
  BY PlatformShape DEF NoSweep, MaxTime
<1>1. TypeOK'
  <2>1. pc' \in Stages \cup Errors
    BY DEF BackwardDone, Stages, Errors
  <2>2. (sweep' = NoSweep /\ sequence' = <<>>) \/ UNCHANGED <<sweep, sequence>>
    BY DEF BackwardDone
  <2>3. UNCHANGED <<blockVars, final_qubit_map, forwardVars, tableVars, loopVars,
                    block, trail, histVars>>
    BY DEF BackwardDone
  <2>4. /\ sweep' \in [time : Nat, iq : 0 .. NumPhys, counter : Nat, min : Nat,
                       Idxs : [Phys -> Nat]]
        /\ sequence' \in Seq(Int)
    <3> HIDE DEF NoSweep
    <3>1. CASE sweep' = NoSweep /\ sequence' = <<>>
      BY <1>a, <3>1
    <3>2. CASE UNCHANGED <<sweep, sequence>>
      BY <3>2 DEF TypeOK
    <3> QED
      BY <2>2, <3>1, <3>2
  <2> QED
    BY <2>1, <2>3, <2>4 DEF TypeOK
<1>2. PlacementsConsistent' /\ TrailConsistent'
  BY DEF BackwardDone, PlacementsConsistent, TrailConsistent
<1>3. Bookkeeping'
  BY DEF BackwardDone, Bookkeeping, QubitsPlaced, CurrentGate
<1>4. EntriesKnown'
  <2>1. routing' = routing /\ gate_index' = gate_index /\ table_' = table_ /\ block' = block
    BY DEF BackwardDone
  <2>2. pc = "undo" /\ pc' # "reorder" /\ (pc' = "sweep" => sequence' = <<>>)
    BY DEF BackwardDone
  <2> QED
    BY <2>1, <2>2 DEF EntriesKnown, Positions
<1>5. UndoLeadsBack'
  BY DEF BackwardDone, UndoLeadsBack, Pending, PlacementBefore, Bookkeeping
<1>6. RestoredByRetrace'
  <2>1. SUFFICES ASSUME BackwardMethod = "retrace"
                 PROVE  HoldBlocksRestored'
    BY DEF RestoredByRetrace, BackwardDone
  <2>2. /\ pc = "undo" /\ todo = <<>>
        /\ Chain(trail, todo, qubit_map_)
        /\ At(trail, qubit_map_, 1) = initial_qubit_map_
    BY <2>1, UndoIsChain DEF BackwardDone, Pending
  <2>3. qubit_map_ = initial_qubit_map_
    <3>1. Len(trail) = 0
      BY <2>2 DEF Chain
    <3> QED
      BY <2>2, <3>1 DEF At
  <2>4. final_qubit_map = initial_qubit_map_
    BY <2>2 DEF Bookkeeping
  <2> QED
    BY <2>3, <2>4 DEF BackwardDone, HoldBlocksRestored, IsEqual
<1> QED
  BY <1>1, <1>2, <1>3, <1>4, <1>5, <1>6

(* What is emitted is an entry of the table.                               *)
LEMMA SweepQubitStep ==
  ASSUME IInv, SweepQubit
  PROVE  IInv'
<1> USE DEF IInv, blockVars, forwardVars, tableVars, loopVars, outputVars, histVars
<1>a. pc = "sweep" /\ sweep.iq \in 0 .. NumPhys /\ sweep.iq < NumPhys
  BY DEF SweepQubit, TypeOK
<1> DEFINE x     == sweep.iq
           row   == table_[x]
           idx   == sweep.Idxs[x]
           moves == idx < Len(row) /\ (idx > 0 => row[idx].end <= sweep.time)
           next  == IF moves THEN idx + 1 ELSE idx
           g     == row[idx + 1].gate
<1>b. x \in Phys /\ row \in Seq(Entry) /\ Len(row) \in Nat /\ idx \in Nat
  <2>1. NumPhys \in Nat
    BY PlatformShape
  <2>2. x \in Phys
    BY <1>a, <2>1 DEF Phys
  <2> QED
    BY <2>2, LenProperties DEF TypeOK, Entry
<1>c. next \in Nat /\ (next < Len(row) => next \in 1 .. Len(row))
  BY <1>b
<1>d. moves => idx + 1 \in 1 .. Len(row)
  BY <1>b
<1>e. next < Len(row) => row[next].end \in Nat
  <2>1. next < Len(row) => row[next] \in Entry
    BY <1>b, <1>c, ElementOfSeq
  <2> QED
    BY <2>1 DEF Entry
<1>f. moves => g \in Int /\ g \in Positions \cup {IsIdle}
  <2>1. moves => row[idx + 1] \in Entry
    BY <1>b, <1>d, ElementOfSeq
  <2> QED
    BY <1>a, <1>b, <1>d, <2>1 DEF Entry, EntriesKnown
<1>g. /\ sweep' = [sweep EXCEPT
             !.iq      = @ + 1,
             !.Idxs    = [@ EXCEPT ![x] = next],
             !.counter = IF moves THEN @ + 1 ELSE @,
             !.min     = IF next < Len(row) /\ row[next].end < @
                         THEN row[next].end ELSE @]
      /\ \/ sequence' = sequence
         \/ moves /\ g # IsIdle /\ sequence' = Append(sequence, g)
  BY DEF SweepQubit
<1>h. UNCHANGED <<pc, blockVars, final_qubit_map, forwardVars, tableVars,
                  loopVars, block, trail, histVars>>
  BY DEF SweepQubit
<1> HIDE DEF x, row, idx, moves, next, g
<1>1. TypeOK'
  <2>1. sequence' \in Seq(Int)
    <3>1. sequence \in Seq(Int)
      BY DEF TypeOK
    <3>2. CASE moves /\ g # IsIdle /\ sequence' = Append(sequence, g)
      BY <1>f, <3>1, <3>2, AppendProperties
    <3> QED
      BY <1>g, <3>1, <3>2
  <2> DEFINE i == sweep.iq + 1
             c == IF moves THEN sweep.counter + 1 ELSE sweep.counter
             m == IF next < Len(row) /\ row[next].end < sweep.min
                  THEN row[next].end ELSE sweep.min
             f == [sweep.Idxs EXCEPT ![x] = next]
  <2>2. /\ sweep \in [time : Nat, iq : 0 .. NumPhys, counter : Nat, min : Nat,
                      Idxs : [Phys -> Nat]]
        /\ sweep' = [sweep EXCEPT !.iq = i, !.Idxs = f, !.counter = c, !.min = m]
    BY <1>g DEF TypeOK
  <2>3. i \in 0 .. NumPhys
    BY <1>a, PlatformShape
  <2>4. c \in Nat
    BY <2>2
  <2>5. m \in Nat
    BY <1>e, <2>2
  <2>6. f \in [Phys -> Nat]
    BY <1>b, <1>c, <2>2
  <2> HIDE DEF i, c, m, f
  <2>7. sweep' \in [time : Nat, iq : 0 .. NumPhys, counter : Nat, min : Nat,
                    Idxs : [Phys -> Nat]]
    BY <2>2, <2>3, <2>4, <2>5, <2>6
  <2> QED
    BY <1>h, <2>1, <2>7 DEF TypeOK
<1>2. PlacementsConsistent' /\ TrailConsistent'
  BY <1>a, <1>h DEF PlacementsConsistent, TrailConsistent
<1>3. Bookkeeping'
  BY <1>a, <1>h DEF Bookkeeping, QubitsPlaced, CurrentGate
<1>4. EntriesKnown'
  <2>1. Positions' = Positions
    BY <1>h DEF Positions
  <2>2. \A i \in 1 .. Len(sequence) : sequence[i] \in Positions
    BY <1>a DEF EntriesKnown
  <2>3. \A i \in 1 .. Len(sequence') : sequence'[i] \in Positions
    <3>1. CASE sequence' = sequence
      BY <2>2, <3>1
    <3>2. CASE moves /\ g # IsIdle /\ sequence' = Append(sequence, g)
      <4>1. sequence \in Seq(Int) /\ Len(sequence) \in Nat /\ g \in Int /\ g \in Positions
        BY <1>f, <3>2, LenProperties DEF TypeOK
      <4>2. /\ Len(sequence') = Len(sequence) + 1
            /\ \A i \in 1 .. Len(sequence) : sequence'[i] = sequence[i]
            /\ sequence'[Len(sequence) + 1] = g
        BY <3>2, <4>1, AppendProperties
      <4> QED
        BY <2>2, <4>1, <4>2
    <3> QED
      BY <1>g, <3>1, <3>2
  <2> QED
    BY <1>a, <1>h, <2>1, <2>3 DEF EntriesKnown
<1>5. UndoLeadsBack'
  BY <1>a, <1>h DEF UndoLeadsBack, Pending, PlacementBefore, Bookkeeping
<1>6. RestoredByRetrace'
  BY <1>a, <1>h DEF RestoredByRetrace, HoldBlocksRestored, Bookkeeping
<1> QED
  BY <1>1, <1>2, <1>3, <1>4, <1>5, <1>6

(* The sequence is complete, or the compiler gives up.                     *)
LEMMA SweepRoundStep ==
  ASSUME IInv, SweepRound
  PROVE  IInv'
<1> USE DEF IInv, blockVars, forwardVars, tableVars, loopVars, outputVars, histVars
<1>1. TypeOK'
  <2>1. (sweep' = [sweep EXCEPT !.time = sweep.min, !.iq = 0, !.counter = 0,
                                !.min = MaxTime]) \/ sweep' = sweep
    BY DEF SweepRound, NextRound
  <2>2. sweep' \in [time : Nat, iq : 0 .. NumPhys, counter : Nat, min : Nat,
                    Idxs : [Phys -> Nat]]
    <3>1. 0 \in 0 .. NumPhys /\ MaxTime \in Nat
      BY PlatformShape DEF MaxTime
    <3>2. sweep \in [time : Nat, iq : 0 .. NumPhys, counter : Nat, min : Nat,
                     Idxs : [Phys -> Nat]]
      BY DEF TypeOK
    <3> HIDE DEF MaxTime
    <3>3. CASE sweep' = sweep
      BY <3>2, <3>3
    <3>4. CASE sweep' = [sweep EXCEPT !.time = sweep.min, !.iq = 0, !.counter = 0,
                                      !.min = MaxTime]
      BY <3>1, <3>2, <3>4
    <3> QED
      BY <2>1, <3>3, <3>4
  <2>3. pc' \in Stages \cup Errors /\ block' \in Seq([gate : Int, qubits : Seq(Operands)])
    <3>1. pc' \in {"sweep", "reorder", "gates lost"} /\ (block' = <<>> \/ block' = block)
      BY DEF SweepRound
    <3>2. block \in Seq([gate : Int, qubits : Seq(Operands)])
      BY DEF TypeOK
    <3>3. block' \in Seq([gate : Int, qubits : Seq(Operands)])
      <4>1. CASE block' = block
        BY <3>2, <4>1
      <4>2. CASE block' = <<>>
        BY <4>2
      <4> QED
        BY <3>1, <4>1, <4>2
    <3> QED
      BY <3>1, <3>3 DEF Stages, Errors
  <2>4. UNCHANGED <<blockVars, final_qubit_map, forwardVars, tableVars, loopVars,
                    sequence, trail, histVars>>
    BY DEF SweepRound
  <2> QED
    BY <2>2, <2>3, <2>4 DEF TypeOK
<1>2. PlacementsConsistent' /\ TrailConsistent'
  BY DEF SweepRound, PlacementsConsistent, TrailConsistent
<1>3. Bookkeeping'
  BY DEF SweepRound, Bookkeeping, QubitsPlaced, CurrentGate
<1>4. EntriesKnown'
  <2>1. /\ pc = "sweep" /\ (block' = <<>> \/ block' = block)
        /\ UNCHANGED <<table_, routing, gate_index, sequence>>
    BY DEF SweepRound
  <2>2. Positions' = Positions
    BY <2>1 DEF Positions
  <2> QED
    BY <2>1, <2>2 DEF EntriesKnown
<1>5. UndoLeadsBack'
  BY DEF SweepRound, UndoLeadsBack, Pending, PlacementBefore, Bookkeeping
<1>6. RestoredByRetrace'
  BY DEF SweepRound, RestoredByRetrace, HoldBlocksRestored, Bookkeeping
<1> QED
  BY <1>1, <1>2, <1>3, <1>4, <1>5, <1>6

(* A gate is moved with the operands written back for it.                  *)
LEMMA ReorderGateStep ==
  ASSUME IInv, ReorderGate
  PROVE  IInv'
<1> USE DEF IInv, blockVars, forwardVars, tableVars, loopVars, outputVars, histVars
<1> DEFINE g == sequence[Len(block) + 1]
           ops == IF g >= 0 THEN operands[g + 1]
                  ELSE <<<<"qid", routing[-g][1]>>, <<"qid", routing[-g][2]>>>>
<1>a. /\ pc = "reorder" /\ block \in Seq([gate : Int, qubits : Seq(Operands)])
      /\ g \in Int /\ g \in Positions
  <2>1. /\ pc = "reorder" /\ block \in Seq([gate : Int, qubits : Seq(Operands)])
        /\ sequence \in Seq(Int) /\ Len(block) < Len(sequence)
    BY DEF ReorderGate, TypeOK
  <2>2. Len(block) + 1 \in 1 .. Len(sequence)
    BY <2>1, LenProperties
  <2> QED
    BY <2>1, <2>2, ElementOfSeq DEF EntriesKnown
<1>b. /\ ops \in Seq(Operands)
      /\ g < 0 => \E x, y \in Phys : ops = <<<<"qid", x>>, <<"qid", y>>>>
  <2>1. CASE g >= 0
    <3>0. /\ gate_index \in Nat /\ Len(operands) = gate_index /\ Len(routing) \in Nat
          /\ operands \in Seq(Seq(Operands))
      BY LenProperties DEF TypeOK
    <3>1. g + 1 \in 1 .. Len(operands)
      BY <1>a, <2>1, <3>0 DEF Positions
    <3>2. operands[g + 1] \in Seq(Operands)
      BY <3>0, <3>1, ElementOfSeq
    <3> QED
      BY <1>a, <2>1, <3>2
  <2>2. CASE g < 0
    <3>0. gate_index \in Nat /\ Len(routing) \in Nat /\ routing \in Seq(Pair)
      BY LenProperties DEF TypeOK, Pair
    <3>1. -g \in 1 .. Len(routing)
      BY <1>a, <2>2, <3>0 DEF Positions
    <3>2. routing[-g] \in Pair
      BY <3>0, <3>1, ElementOfSeq
    <3>3. routing[-g][1] \in Phys /\ routing[-g][2] \in Phys
      BY <3>2 DEF Pair
    <3>4. ops = <<<<"qid", routing[-g][1]>>, <<"qid", routing[-g][2]>>>>
      BY <1>a, <2>2
    <3> HIDE DEF ops
    <3> QED
      BY <3>3, <3>4 DEF Operands
  <2> QED
    BY <1>a, <2>1, <2>2
<1>c. block' = Append(block, [gate |-> g, qubits |-> ops])
  BY DEF ReorderGate
<1>d. UNCHANGED <<pc, blockVars, final_qubit_map, forwardVars, tableVars,
                  loopVars, sweep, sequence, trail, histVars>>
  BY DEF ReorderGate
<1> HIDE DEF g, ops
<1>e. /\ block' \in Seq([gate : Int, qubits : Seq(Operands)])
      /\ Len(block') = Len(block) + 1 /\ Len(block) \in Nat
      /\ \A i \in 1 .. Len(block) : block'[i] = block[i]
      /\ block'[Len(block) + 1] = [gate |-> g, qubits |-> ops]
  <2>1. [gate |-> g, qubits |-> ops] \in [gate : Int, qubits : Seq(Operands)]
    BY <1>a, <1>b
  <2> QED
    BY <1>a, <1>c, <2>1, AppendProperties, LenProperties
<1>1. TypeOK'
  BY <1>d, <1>e DEF TypeOK
<1>2. PlacementsConsistent' /\ TrailConsistent'
  BY DEF ReorderGate, PlacementsConsistent, TrailConsistent
<1>3. Bookkeeping'
  BY DEF ReorderGate, Bookkeeping, QubitsPlaced, CurrentGate
<1>4. EntriesKnown'
  <2> DEFINE IsSwap(e) == e.gate < 0 =>
                 \E x, y \in Phys : e.qubits = <<<<"qid", x>>, <<"qid", y>>>>
  <2>1. \A i \in 1 .. Len(block) : IsSwap(block[i])
    BY DEF EntriesKnown
  <2>2. IsSwap([gate |-> g, qubits |-> ops])
    BY <1>b
  <2> HIDE DEF IsSwap
  <2>3. \A i \in 1 .. Len(block') : IsSwap(block'[i])
    <3> SUFFICES ASSUME NEW i \in 1 .. Len(block')
                 PROVE  IsSwap(block'[i])
      OBVIOUS
    <3>1. CASE i <= Len(block)
      BY <1>e, <2>1, <3>1
    <3>2. CASE i = Len(block) + 1
      BY <1>e, <2>2, <3>2
    <3> QED
      BY <1>e, <3>1, <3>2
  <2> USE DEF IsSwap
  <2>4. Positions' = Positions
    BY <1>d DEF Positions
  <2> QED
    BY <1>d, <2>3, <2>4 DEF EntriesKnown
<1>5. UndoLeadsBack'
  BY DEF ReorderGate, UndoLeadsBack, Pending, PlacementBefore, Bookkeeping
<1>6. RestoredByRetrace'
  BY DEF ReorderGate, RestoredByRetrace, HoldBlocksRestored, Bookkeeping
<1> QED
  BY <1>1, <1>2, <1>3, <1>4, <1>5, <1>6

(* The lists of swaps are emptied for the next block.                      *)
LEMMA ReorderDoneStep ==
  ASSUME IInv, ReorderDone
  PROVE  IInv'
<1> USE DEF IInv, blockVars, forwardVars, tableVars, loopVars, outputVars, histVars
<1>1. TypeOK'
  BY DEF ReorderDone, TypeOK, Stages, Errors
<1>2. PlacementsConsistent' /\ TrailConsistent'
  BY DEF ReorderDone, PlacementsConsistent, TrailConsistent
<1>3. Bookkeeping'
  BY DEF ReorderDone, Bookkeeping, QubitsPlaced, CurrentGate
<1>4. EntriesKnown'
  BY DEF ReorderDone, EntriesKnown, Positions
<1>5. UndoLeadsBack'
  BY DEF ReorderDone, UndoLeadsBack, Pending, PlacementBefore, Bookkeeping
<1>6. RestoredByRetrace'
  BY DEF ReorderDone, RestoredByRetrace, HoldBlocksRestored, Bookkeeping
<1> QED
  BY <1>1, <1>2, <1>3, <1>4, <1>5, <1>6

(* The hardware exchanges two qubits or executes a gate.                   *)
LEMMA ConvertGateStep ==
  ASSUME IInv, ConvertGate
  PROVE  IInv'
<1> USE DEF IInv, blockVars, forwardVars, tableVars, loopVars, outputVars, histVars
<1>a. /\ pc = "convert" /\ block \in Seq([gate : Int, qubits : Seq(Operands)])
      /\ block # <<>> /\ Head(block) = block[1] /\ 1 \in 1 .. Len(block)
  BY EmptySeq, LenProperties, HeadTailProperties DEF ConvertGate, TypeOK
<1>b. /\ block' \in Seq([gate : Int, qubits : Seq(Operands)])
      /\ Len(block') = Len(block) - 1 /\ Len(block) \in Nat
      /\ \A i \in 1 .. Len(block') : block'[i] = block[i + 1]
  BY <1>a, HeadTailProperties, LenProperties DEF ConvertGate
<1>c. where' \in Placement(Phys)
  <2>0. where \in Placement(Phys)
    BY DEF TypeOK, PlacementsConsistent, Placement
  <2>1. CASE block[1].gate >= 0
    <3>1. where' = where
      <4>1. block[1] \in [gate : Int, qubits : Seq(Operands)]
        BY <1>a, ElementOfSeq
      <4>2. ~(block[1].gate < 0)
        BY <2>1, <4>1
      <4> QED
        BY <1>a, <4>2 DEF ConvertGate
    <3> QED
      BY <2>0, <3>1
  <2>2. CASE block[1].gate < 0
    <3>1. PICK x \in Phys, y \in Phys : block[1].qubits = <<<<"qid", x>>, <<"qid", y>>>>
      BY <1>a, <2>2 DEF EntriesKnown
    <3>2. /\ QIDOf(block[1].qubits[1]) = x
          /\ QIDOf(block[1].qubits[2]) = y
          /\ Len(block[1].qubits) = 2
      BY <3>1 DEF QIDOf
    <3>3. where' = Swap(where, x, y)
      BY <1>a, <2>2, <3>2 DEF ConvertGate, Swap
    <3> QED
      BY <2>0, <3>3, PhysIsPlaced, SwapIsPlacement
  <2>3. block[1].gate \in Int
    <3>1. block[1] \in [gate : Int, qubits : Seq(Operands)]
      BY <1>a, ElementOfSeq
    <3> QED
      BY <3>1
  <2> QED
    BY <2>1, <2>2, <2>3
<1>d. UNCHANGED <<pc, blockVars, final_qubit_map, forwardVars, tableVars,
                  loopVars, sweep, sequence, trail>>
  BY DEF ConvertGate
<1>1. TypeOK'
  BY <1>b, <1>c, <1>d DEF TypeOK, Placement
<1>2. PlacementsConsistent' /\ TrailConsistent'
  BY <1>c, <1>d DEF PlacementsConsistent, TrailConsistent, Placement
<1>3. Bookkeeping'
  BY DEF ConvertGate, Bookkeeping, QubitsPlaced, CurrentGate
<1>4. EntriesKnown'
  <2> DEFINE IsSwap(e) == e.gate < 0 =>
                 \E x, y \in Phys : e.qubits = <<<<"qid", x>>, <<"qid", y>>>>
  <2>1. \A i \in 1 .. Len(block) : IsSwap(block[i])
    BY DEF EntriesKnown
  <2> HIDE DEF IsSwap
  <2>2. \A i \in 1 .. Len(block') : i + 1 \in 1 .. Len(block)
    BY <1>b
  <2>3. \A i \in 1 .. Len(block') : IsSwap(block'[i])
    BY <1>b, <2>1, <2>2
  <2> USE DEF IsSwap
  <2> QED
    BY <1>a, <1>d, <2>3 DEF EntriesKnown
<1>5. UndoLeadsBack'
  BY DEF ConvertGate, UndoLeadsBack, Pending, PlacementBefore, Bookkeeping
<1>6. RestoredByRetrace'
  BY DEF ConvertGate, RestoredByRetrace, HoldBlocksRestored, Bookkeeping
<1> QED
  BY <1>1, <1>2, <1>3, <1>4, <1>5, <1>6

(* Everything local to a block is forgotten.                               *)
LEMMA FinishQBBStep ==
  ASSUME IInv, FinishQBB
  PROVE  IInv'
<1> USE DEF IInv, blockVars, forwardVars, tableVars, loopVars, outputVars, histVars
<1>a. NoSweep \in [time : Nat, iq : 0 .. NumPhys, counter : Nat, min : Nat,
                    Idxs : [Phys -> Nat]]
  BY PlatformShape DEF NoSweep, MaxTime
<1>1. TypeOK'
  <2>1. route' \in [swaps : Seq(Phys \X Phys), goal : Seq(Phys)]
    BY DEF FinishQBB, NoRoute
  <2>2. /\ sweep' \in [time : Nat, iq : 0 .. NumPhys, counter : Nat, min : Nat,
                       Idxs : [Phys -> Nat]]
        /\ sequence' \in Seq(Int)
    BY <1>a DEF FinishQBB
  <2>3. /\ operands' \in Seq(Seq(Operands)) /\ gate_index' = 0 /\ Len(operands') = 0
        /\ todo' \in Seq(Phys \X Phys) /\ line' \in Seq(Phys)
        /\ trail' \in Seq(QubitMap(Phys))
        /\ measured' \subseteq Phys /\ scan' \in Nat /\ was_swap_removed' \in BOOLEAN
        /\ pc' \in Stages
    <3>1. /\ operands' = <<>> /\ todo' = <<>> /\ line' = <<>> /\ trail' = <<>>
          /\ gate_index' = 0 /\ scan' = 0 /\ measured' = {} /\ was_swap_removed' = FALSE
          /\ pc' = "idle"
      BY DEF FinishQBB
    <3>2. operands' \in Seq(Seq(Operands)) /\ Len(operands') = 0
      BY <3>1
    <3>3. todo' \in Seq(Phys \X Phys) /\ line' \in Seq(Phys)
      BY <3>1
    <3>4. trail' \in Seq(QubitMap(Phys))
      BY <3>1
    <3>5. measured' \subseteq Phys /\ scan' \in Nat /\ was_swap_removed' \in BOOLEAN
      BY <3>1
    <3> QED
      BY <3>1, <3>2, <3>3, <3>4, <3>5 DEF Stages
  <2>4. UNCHANGED <<blockVars, final_qubit_map, tableVars, block, histVars>>
    BY DEF FinishQBB
  <2>5. 0 \in 0 .. Len(gates)
    BY DEF TypeOK
  <2> QED
    BY <2>1, <2>2, <2>3, <2>4, <2>5 DEF TypeOK
<1>2. PlacementsConsistent' /\ TrailConsistent'
  BY DEF FinishQBB, PlacementsConsistent, TrailConsistent
<1>3. Bookkeeping'
  BY DEF FinishQBB, Bookkeeping, QubitsPlaced, CurrentGate
<1>4. EntriesKnown'
  BY DEF FinishQBB, EntriesKnown, Positions
<1>5. UndoLeadsBack'
  BY DEF FinishQBB, UndoLeadsBack, Pending, PlacementBefore, Bookkeeping
<1>6. RestoredByRetrace'
  BY DEF FinishQBB, RestoredByRetrace, HoldBlocksRestored, Bookkeeping
<1> QED
  BY <1>1, <1>2, <1>3, <1>4, <1>5, <1>6

-----------------------------------------------------------------------------
(* The invariant holds at the start and is kept by every step.             *)

(* Before the first block nothing is placed.                               *)
LEMMA InitInv == Init => IInv
<1> SUFFICES ASSUME Init
             PROVE  IInv
  OBVIOUS
<1>1. NoMap \in QubitMap(Phys) /\ isConsistent(NoMap)
  BY DEF NoMap, QubitMap, isConsistent, Unplaced
<1>2. NoRoute \in [swaps : Seq(Phys \X Phys), goal : Seq(Phys)]
  BY DEF NoRoute
<1>3. NoSweep \in [time : Nat, iq : 0 .. NumPhys, counter : Nat, min : Nat,
                   Idxs : [Phys -> Nat]]
  BY PlatformShape DEF NoSweep, MaxTime
<1>4. pc = "idle" /\ gates = <<>> /\ routing = <<>> /\ todo = <<>> /\ trail = <<>>
      /\ block = <<>> /\ gate_index = 0
  BY DEF Init
<1>5. TypeOK
  <2>1. /\ trail \in Seq(QubitMap(Phys)) /\ todo \in Seq(Phys \X Phys) /\ line \in Seq(Phys)
        /\ routing \in Seq(Phys \X Phys)
    BY DEF Init
  <2>2. operands \in Seq(Seq(Operands)) /\ Len(operands) = gate_index
    BY DEF Init
  <2>3. table_ \in [Phys -> Seq([gate : Int, end : Nat])]
    BY DEF Init
  <2>4. sequence \in Seq(Int) /\ block \in Seq([gate : Int, qubits : Seq(Operands)])
    BY DEF Init
  <2>5. /\ pc \in Stages \cup Errors /\ gates \in Programs \cup {<<>>} /\ release \in BOOLEAN
        /\ gate_index \in 0 .. Len(gates) /\ measured \subseteq Phys /\ scan \in Nat
        /\ was_swap_removed \in BOOLEAN
    <3>1. pc \in Stages /\ gates \in {<<>>} /\ gate_index = 0 /\ Len(gates) = 0
      BY <1>4 DEF Stages
    <3>2. release = FALSE /\ measured = {} /\ scan = 0 /\ was_swap_removed = FALSE
      BY DEF Init
    <3>3. pc \in Stages \cup Errors /\ gates \in Programs \cup {<<>>}
      BY <3>1
    <3>4. gate_index \in 0 .. Len(gates)
      BY <3>1
    <3> QED
      BY <3>2, <3>3, <3>4
  <2>6. initial_qubit_map_ = NoMap /\ qubit_map_ = NoMap /\ final_qubit_map = NoMap
        /\ where = NoMap /\ route = NoRoute /\ sweep = NoSweep
    BY DEF Init
  <2> QED
    BY <1>1, <1>2, <1>3, <2>1, <2>2, <2>3, <2>4, <2>5, <2>6 DEF TypeOK
<1>6. PlacementsConsistent /\ TrailConsistent
  BY <1>1, <1>4 DEF Init, PlacementsConsistent, TrailConsistent
<1>7. Bookkeeping
  BY <1>4 DEF Bookkeeping
<1>8. EntriesKnown
  BY <1>4 DEF EntriesKnown
<1>9. UndoLeadsBack
  BY <1>4 DEF UndoLeadsBack
<1>10. RestoredByRetrace
  BY <1>4 DEF RestoredByRetrace, HoldBlocksRestored
<1> QED
  BY <1>5, <1>6, <1>7, <1>8, <1>9, <1>10 DEF IInv

(* No step leaves it, and none is left out.                                *)
LEMMA NextInv == IInv /\ [Next]_vars => IInv'
<1> SUFFICES ASSUME IInv, [Next]_vars
             PROVE  IInv'
  OBVIOUS
<1>1. CASE StartQBB
  BY <1>1, StartQBBStep
<1>2. CASE ScheduleInPlace
  BY <1>2, ScheduleInPlaceStep
<1>3. CASE FindRoute
  BY <1>3, FindRouteStep
<1>4. CASE FailToRoute
  BY <1>4, FailToRouteStep
<1>5. CASE RoutingSwap
  BY <1>5, RoutingSwapStep
<1>6. CASE PlaceRouted
  BY <1>6, PlaceRoutedStep
<1>7. CASE EndPopulate
  BY <1>7, EndPopulateStep
<1>8. CASE RetraceScan
  BY <1>8, RetraceScanStep
<1>9. CASE RetracePass
  BY <1>9, RetracePassStep
<1>10. CASE RetraceSwap
  BY <1>10, RetraceSwapStep
<1>11. CASE PruneQubit
  BY <1>11, PruneQubitStep
<1>12. CASE PruneDone
  BY <1>12, PruneDoneStep
<1>13. CASE SortSwap
  BY <1>13, SortSwapStep
<1>14. CASE BackwardDone
  BY <1>14, BackwardDoneStep
<1>15. CASE SweepQubit
  BY <1>15, SweepQubitStep
<1>16. CASE SweepRound
  BY <1>16, SweepRoundStep
<1>17. CASE ReorderGate
  BY <1>17, ReorderGateStep
<1>18. CASE ReorderDone
  BY <1>18, ReorderDoneStep
<1>19. CASE ConvertGate
  BY <1>19, ConvertGateStep
<1>20. CASE FinishQBB
  BY <1>20, FinishQBBStep
<1>21. CASE UNCHANGED vars
  <2>1. UNCHANGED <<pc, gates, release, initial_qubit_map_, qubit_map_, final_qubit_map,
                    gate_index, route, routing, measured, operands, table_, todo, scan,
                    was_swap_removed, line, sweep, sequence, block, trail, where, executed>>
    BY <1>21 DEF vars, blockVars, forwardVars, tableVars, loopVars, outputVars, histVars
  <2>2. TypeOK' /\ PlacementsConsistent' /\ TrailConsistent'
    BY <2>1 DEF IInv, TypeOK, PlacementsConsistent, TrailConsistent
  <2>3. Bookkeeping' /\ EntriesKnown'
    BY <2>1 DEF IInv, Bookkeeping, QubitsPlaced, CurrentGate, EntriesKnown, Positions
  <2>4. UndoLeadsBack'
    BY <2>1 DEF IInv, UndoLeadsBack, Pending, PlacementBefore
  <2>5. RestoredByRetrace'
    BY <2>1 DEF IInv, RestoredByRetrace, HoldBlocksRestored
  <2> QED
    BY <2>2, <2>3, <2>4, <2>5 DEF IInv
<1> QED
    BY <1>1, <1>2, <1>3, <1>4, <1>5, <1>6, <1>7, <1>8, <1>9, <1>10, <1>11,
     <1>12, <1>13, <1>14, <1>15, <1>16, <1>17, <1>18, <1>19, <1>20, <1>21 DEF
     Next, Populate, Backward, Rewrite

(* The inductive invariant is an invariant.                                *)
LEMMA InvHolds == Spec => []IInv
<1>1. Init => IInv
  BY InitInv
<1>2. IInv /\ [Next]_vars => IInv'
  BY NextInv
<1> QED
  BY <1>1, <1>2, PTL DEF Spec

(* The variables of the scheduler keep their kinds: gates stay inside the  *)
(* block, one list of operands is written back per gate scheduled, and the *)
(* loop index of the retrace scan, which erases two elements of the list   *)
(* it walks, does not go below zero.                                       *)
THEOREM TypeCorrect == Spec => []TypeOK
<1>1. IInv => TypeOK
  BY DEF IInv
<1> QED
  BY <1>1, InvHolds, PTL

(* Whatever swaps are inserted, removed and undone, and however often the  *)
(* scheduler object is used again, the three placements it keeps and the   *)
(* one the hardware reaches when it runs the rewritten block stay one to   *)
(* one between program and physical qubits.                                *)
THEOREM PlacementsStayConsistent == Spec => []PlacementsConsistent
<1>1. IInv => PlacementsConsistent
  BY DEF IInv
<1> QED
  BY <1>1, InvHolds, PTL

(* The list of swaps that the retrace method has still to undo leads, link *)
(* by link, from the placement at the start of the block to the current    *)
(* one, also after pairs were cancelled out of it and after the lists were *)
(* reused for the next block.                                              *)
THEOREM UndoChain == Spec => []UndoLeadsBack
<1>1. IInv => UndoLeadsBack
  BY DEF IInv
<1> QED
  BY <1>1, InvHolds, PTL

(* With the retrace method a block that holds its qubits always ends on    *)
(* the placement it started from, and the compiler never gives up on the   *)
(* way back: for every platform, whatever routes it offers.                *)
THEOREM RetraceRestoresBlocks ==
  ASSUME BackwardMethod = "retrace"
  PROVE  Spec => []HoldBlocksRestored
<1>1. IInv => HoldBlocksRestored
  BY DEF IInv, RestoredByRetrace
<1> QED
  BY <1>1, InvHolds, PTL

-----------------------------------------------------------------------------
(* The scan for cancelling swaps leaves none.                              *)

(* What is kept while the list is scanned from its end: as long as nothing *)
(* was taken out in this pass, what lies behind the scan is reduced.       *)
ReducedAt(s, i) ==
  \A j \in 1 .. i - 1 :
    Ends(s[i]) = Ends(s[j]) => \E k \in j + 1 .. i - 1 : Ends(s[k]) \cap Ends(s[i]) # {}

ScannedIsReduced ==
  pc = "scan" /\ ~was_swap_removed => \A i \in scan + 1 .. Len(todo) : ReducedAt(todo, i)

LEMMA ReducedByElements ==
  UndoIsReduced <=> (pc = "undo" /\ BackwardMethod = "retrace" =>
                       \A i \in 1 .. Len(todo) : ReducedAt(todo, i))
  BY DEF UndoIsReduced, ReducedAt

(* A swap that has no partner to cancel with is reduced.                   *)
LEMMA ScannedSwap ==
  ASSUME IInv, pc = "scan", scan >= 2,
         \A j \in Touching(scan) :
           (\A k \in Touching(scan) : k <= j) => Ends(todo[j]) # Ends(todo[scan])
  PROVE  ReducedAt(todo, scan)
<1> SUFFICES ASSUME NEW j \in 1 .. scan - 1, Ends(todo[scan]) = Ends(todo[j]),
                    \A k \in j + 1 .. scan - 1 : Ends(todo[k]) \cap Ends(todo[scan]) = {}
             PROVE  FALSE
  BY DEF ReducedAt
<1>1. j \in Touching(scan)
  BY DEF Touching, Ends
<1>2. scan \in Nat
  BY DEF IInv, TypeOK
<1>3. ASSUME NEW k \in Touching(scan)
      PROVE  k <= j
  <2>1. k \in 1 .. scan - 1 /\ Ends(todo[k]) \cap Ends(todo[scan]) # {}
    BY DEF Touching
  <2> QED
    BY <1>2, <2>1
<1> QED
  BY <1>1, <1>3

(* A sequence without its last element.                                    *)
LEMMA FrontOf ==
  ASSUME NEW S, NEW s \in Seq(S), Len(s) > 0
  PROVE  /\ Len(SubSeq(s, 1, Len(s) - 1)) = Len(s) - 1
         /\ \A i \in 1 .. Len(s) - 1 : SubSeq(s, 1, Len(s) - 1)[i] = s[i]
<1> DEFINE n == Len(s) - 1
<1>1. n \in Nat
  BY LenProperties
<1>2. \A i \in 1 .. n : s[i] \in S
  BY <1>1, ElementOfSeq
<1> HIDE DEF n
<1>3. 1 \in Int /\ n \in Int /\ n - 1 + 1 = n
  BY <1>1
<1>4. /\ Len(SubSeq(s, 1, n)) = IF 1 <= n THEN n - 1 + 1 ELSE 0
      /\ \A i \in 1 .. n - 1 + 1 : SubSeq(s, 1, n)[i] = s[1 + i - 1]
  BY <1>2, <1>3, SubSeqProperties
<1> QED
  BY <1>1, <1>3, <1>4 DEF n

LEMMA NextReduced ==
  IInv /\ ScannedIsReduced /\ UndoIsReduced /\ [Next]_vars => ScannedIsReduced' /\ UndoIsReduced'
<1> SUFFICES ASSUME IInv, ScannedIsReduced, UndoIsReduced, [Next]_vars
             PROVE  ScannedIsReduced' /\ UndoIsReduced'
  OBVIOUS
<1> DEFINE AllReduced(s) == \A i \in 1 .. Len(s) : ReducedAt(s, i)
<1>1. SUFFICES /\ pc' = "scan" /\ ~was_swap_removed' =>
                    \A i \in scan' + 1 .. Len(todo') : ReducedAt(todo', i)
               /\ pc' = "undo" /\ BackwardMethod = "retrace" => AllReduced(todo')
  BY DEF ScannedIsReduced, UndoIsReduced, ReducedAt
<1>2. scan \in Nat /\ todo \in Seq(Pair) /\ Len(todo) \in Nat
  BY LenProperties DEF IInv, TypeOK, Pair
<1>3. pc = "undo" /\ BackwardMethod = "retrace" => AllReduced(todo)
  BY ReducedByElements
<1> HIDE DEF AllReduced
<1>4. CASE EndPopulate
  <2>1. pc' # "undo" /\ (pc' = "scan" => todo' = routing /\ scan' = Len(routing))
    BY <1>4 DEF EndPopulate
  <2>2. Len(routing) \in Nat
    BY LenProperties DEF IInv, TypeOK
  <2>3. pc' = "scan" => \A i \in scan' + 1 .. Len(todo') : FALSE
    BY <2>1, <2>2
  <2> QED
    BY <2>1, <2>3
<1>5. CASE RetraceScan
  <2>1. pc = "scan" /\ scan >= 2 /\ pc' = pc
    BY <1>5 DEF RetraceScan
  <2>2. \/ was_swap_removed'
        \/ /\ \A j \in Touching(scan) :
                (\A k \in Touching(scan) : k <= j) => Ends(todo[j]) # Ends(todo[scan])
           /\ scan' = scan - 1 /\ UNCHANGED <<todo, was_swap_removed>>
    BY <1>5 DEF RetraceScan
  <2>3. CASE was_swap_removed'
    BY <2>1, <2>3
  <2>4. CASE /\ \A j \in Touching(scan) :
                  (\A k \in Touching(scan) : k <= j) => Ends(todo[j]) # Ends(todo[scan])
             /\ scan' = scan - 1 /\ UNCHANGED <<todo, was_swap_removed>>
    <3>1. ReducedAt(todo, scan)
      BY <2>1, <2>4, ScannedSwap
    <3>2. \A i \in scan' + 1 .. Len(todo') : i = scan \/ i \in scan + 1 .. Len(todo)
      BY <1>2, <2>4
    <3> QED
      BY <2>1, <2>4, <3>1, <3>2 DEF ScannedIsReduced
  <2> QED
    BY <2>2, <2>3, <2>4
<1>6. CASE RetracePass
  <2>1. pc = "scan" /\ scan < 2 /\ todo' = todo
    BY <1>6 DEF RetracePass
  <2>2. CASE was_swap_removed
    <3>1. pc' = "scan" /\ scan' = Len(todo)
      BY <1>6, <2>1, <2>2 DEF RetracePass
    <3>2. \A i \in scan' + 1 .. Len(todo') : FALSE
      BY <1>2, <2>1, <3>1
    <3> QED
      BY <3>1, <3>2
  <2>3. CASE ~was_swap_removed
    <3>1. pc' = "undo"
      BY <1>6, <2>3 DEF RetracePass
    <3>2. \A i \in 1 .. Len(todo) : i = 1 \/ i \in scan + 1 .. Len(todo)
      BY <1>2, <2>1
    <3>3. ReducedAt(todo, 1)
      BY DEF ReducedAt
    <3>4. AllReduced(todo)
      BY <2>1, <2>3, <3>2, <3>3 DEF ScannedIsReduced, AllReduced
    <3> QED
      BY <2>1, <3>1, <3>4
  <2> QED
    BY <2>2, <2>3
<1>7. CASE RetraceSwap
  <2>1. pc = "undo" /\ pc' = pc /\ todo # <<>> /\ todo' = SubSeq(todo, 1, Len(todo) - 1)
    BY <1>7 DEF RetraceSwap
  <2>2. Len(todo) > 0
    BY <1>2, <2>1, EmptySeq
  <2>3. /\ Len(todo') = Len(todo) - 1
        /\ \A i \in 1 .. Len(todo) - 1 : todo'[i] = todo[i]
    BY <1>2, <2>1, <2>2, FrontOf
  <2>4. ASSUME AllReduced(todo)
        PROVE  AllReduced(todo')
    <3>1. ASSUME NEW i \in 1 .. Len(todo')
          PROVE  ReducedAt(todo', i)
      <4>1. ReducedAt(todo, i)
        BY <1>2, <2>3, <2>4 DEF AllReduced
      <4>2. \A k \in 1 .. i : todo'[k] = todo[k]
        BY <1>2, <2>3
      <4> QED
        BY <1>2, <2>3, <4>1, <4>2 DEF ReducedAt
    <3> QED
      BY <3>1 DEF AllReduced
  <2> QED
    BY <1>3, <2>1, <2>4
<1>8. CASE PruneQubit \/ PruneDone
  BY <1>8 DEF PruneQubit, PruneDone, IInv, Bookkeeping
<1>9. CASE SortSwap
  BY <1>9 DEF SortSwap
<1>10. CASE StartQBB \/ ScheduleInPlace \/ FindRoute \/ FailToRoute \/ RoutingSwap \/ PlaceRouted
  BY <1>10 DEF StartQBB, ScheduleInPlace, FindRoute, FailToRoute, RoutingSwap, PlaceRouted
<1>11. CASE BackwardDone \/ SweepQubit \/ SweepRound
  BY <1>11 DEF BackwardDone, SweepQubit, SweepRound
<1>12. CASE ReorderGate \/ ReorderDone \/ ConvertGate \/ FinishQBB
  BY <1>12 DEF ReorderGate, ReorderDone, ConvertGate, FinishQBB
<1>13. CASE UNCHANGED vars
  BY <1>3, <1>13 DEF vars, loopVars, ScannedIsReduced
<1> QED
  BY <1>4, <1>5, <1>6, <1>7, <1>8, <1>9, <1>10, <1>11, <1>12, <1>13
     DEF Next, Populate, Backward, Rewrite

(* However the scan and its repetitions were interleaved with removals, no *)
(* pair of swaps that would cancel is left to undo when undoing starts,    *)
(* nor at any time while it goes on.                                       *)
THEOREM UndoStaysReduced == Spec => []UndoIsReduced
<1>1. Init => ScannedIsReduced /\ UndoIsReduced
  BY DEF Init, ScannedIsReduced, UndoIsReduced
<1>2. IInv /\ ScannedIsReduced /\ UndoIsReduced /\ [Next]_vars => ScannedIsReduced' /\ UndoIsReduced'
  BY NextReduced
<1> QED
  BY <1>1, <1>2, InvHolds, PTL DEF Spec

-----------------------------------------------------------------------------
(* Placements of the same qubits.                                          *)

Kin(m, w) ==
  /\ m.order = w.order
  /\ \A q \in Qubits : IF m.prog[q] \in Phys THEN w.prog[q] \in Phys ELSE w.prog[q] = m.prog[q]

LEMMA SwapKin ==
  ASSUME NEW m, NEW w \in QubitMap(Phys), isConsistent(w), Kin(m, w),
         NEW x \in Phys, NEW y \in Phys
  PROVE  Kin(m, Swap(w, x, y))
<1>1. /\ Swap(w, x, y).order = w.order
      /\ \A q \in Qubits : Swap(w, x, y).prog[q] =
           IF q = w.phys[x] THEN y ELSE IF q = w.phys[y] THEN x ELSE w.prog[q]
  BY SwapEntries
<1>2. /\ w.phys[x] # Free => w.prog[w.phys[x]] = x
      /\ w.phys[y] # Free => w.prog[w.phys[y]] = y
  BY DEF isConsistent, QubitMap
<1>3. ASSUME NEW q \in Qubits
      PROVE  IF m.prog[q] \in Phys THEN Swap(w, x, y).prog[q] \in Phys
             ELSE Swap(w, x, y).prog[q] = m.prog[q]
  <2>1. q # Free
    BY ConventionalValues
  <2>2. CASE m.prog[q] \in Phys
    <3>1. w.prog[q] \in Phys
      BY <2>2 DEF Kin
    <3> QED
      BY <1>1, <2>2, <3>1
  <2>3. CASE m.prog[q] \notin Phys
    <3>1. w.prog[q] = m.prog[q]
      BY <2>3 DEF Kin
    <3>2. q # w.phys[x] /\ q # w.phys[y]
      BY <1>2, <2>1, <2>3, <3>1
    <3> QED
      BY <1>1, <2>3, <3>1, <3>2
  <2> QED
    BY <2>2, <2>3
<1> QED
  BY <1>1, <1>3 DEF Kin

LEMMA KinEqual ==
  ASSUME NEW m, NEW n \in QubitMap(Phys), NEW w \in QubitMap(Phys),
         isConsistent(n), isConsistent(w), Kin(m, n), Kin(m, w),
         \A x \in Phys : w.phys[x] = n.phys[x]
  PROVE  w = n
<1>1. ASSUME NEW q \in Qubits
      PROVE  w.prog[q] = n.prog[q]
  <2>1. CASE m.prog[q] \in Phys
    <3>1. w.prog[q] \in Phys
      BY <2>1 DEF Kin
    <3>2. w.phys[w.prog[q]] = q
      BY <3>1, PhysIsPlaced DEF isConsistent
    <3>3. n.phys[w.prog[q]] = q /\ q # Free
      BY <3>1, <3>2, ConventionalValues
    <3>4. w.prog[q] \in DOMAIN n.phys
      BY <3>1 DEF QubitMap
    <3> QED
      BY <3>3, <3>4 DEF isConsistent
  <2>2. CASE m.prog[q] \notin Phys
    BY <2>2 DEF Kin
  <2> QED
    BY <2>1, <2>2
<1>2. w.order = n.order
  BY DEF Kin
<1> QED
  BY <1>1, <1>2, PlacementEqual

LEMMA KinSelf ==
  ASSUME NEW m
  PROVE  Kin(m, m)
BY DEF Kin

-----------------------------------------------------------------------------
(* The sorting methods bring every qubit of the path to its place.         *)

(* Every set of natural numbers that has an element has a least one.       *)
LEMMA LeastElement ==
  ASSUME NEW S \in SUBSET Nat, S # {}
  PROVE  \E m \in S : \A k \in S : m <= k
<1>1. PICK m \in S : \A k \in S : <<k, m>> \notin OpToRel(<, Nat)
  BY NatLessThanWellFounded, WFMin
<1>2. ASSUME NEW k \in S, k < m
      PROVE  FALSE
  <2>1. <<k, m>> \in OpToRel(<, Nat)
    BY <1>2 DEF OpToRel
  <2> QED
    BY <1>1, <2>1
<1> QED
  BY <1>2

(* What the network leaves when no neighbours are out of order: F are the  *)
(* positions that hold a program qubit, t[k] is where the one on k has to  *)
(* be.  The last one that would have to go up meets one that may not.      *)
NothingCrossed(n, F, t) ==
  \A k \in 1 .. n - 1 :
    /\ k \in F /\ k + 1 \in F => t[k] <= t[k + 1]
    /\ k \in F /\ k + 1 \notin F => t[k] <= k
    /\ k \notin F /\ k + 1 \in F => t[k + 1] > k

Assigned(n, F, t) ==
  /\ \A k \in F : k \in 1 .. n /\ t[k] \in 1 .. n
  /\ \A i, j \in F : t[i] = t[j] => i = j

InPlace(F, t) == \A k \in F : t[k] = k

LEMMA SortedStay ==
  ASSUME NEW n \in Nat, NEW F, NEW t, Assigned(n, F, t), NothingCrossed(n, F, t)
  PROVE  InPlace(F, t)
<1> USE DEF Assigned
<1>1. ASSUME NEW k \in F, t[k] > k
      PROVE  FALSE
  <2> DEFINE up == {n - i : i \in {i \in F : t[i] > i}}
  <2>1. up \in SUBSET Nat /\ up # {}
    BY <1>1
  <2>2. PICK d \in up : \A e \in up : d <= e
    BY <2>1, LeastElement
  <2>3. PICK i \in F : t[i] > i /\ d = n - i
    BY <2>2
  <2>4. ASSUME NEW j \in F, j > i
        PROVE  t[j] <= j
    <3>1. CASE t[j] > j
      <4>1. n - j \in up
        BY <3>1
      <4>2. d <= n - j
        BY <2>2, <4>1
      <4> QED
        BY <2>3, <2>4, <4>2
    <3>2. t[j] \in Int /\ j \in Int
      OBVIOUS
    <3> QED
      BY <3>1, <3>2
  <2>5. t[i] \in 1 .. n /\ i \in 1 .. n - 1 /\ i + 1 > i
    BY <2>3
  <2>6. i + 1 \in F
    BY <2>3, <2>5 DEF NothingCrossed
  <2>7. t[i] <= t[i + 1] /\ t[i + 1] <= i + 1 /\ t[i + 1] \in 1 .. n
    BY <2>4, <2>5, <2>6 DEF NothingCrossed
  <2>8. t[i] = t[i + 1]
    BY <2>3, <2>5, <2>7
  <2>9. i = i + 1
    BY <2>6, <2>8
  <2> QED
    BY <2>5, <2>9
<1>2. ASSUME NEW k \in F, t[k] < k
      PROVE  FALSE
  <2> DEFINE down == {i \in F : t[i] < i}
  <2>1. down \in SUBSET Nat /\ down # {}
    <3>1. k \in down
      BY <1>2
    <3>2. \A i \in down : i \in Nat
      OBVIOUS
    <3> HIDE DEF down
    <3> QED
      BY <3>1, <3>2
  <2>2. PICK i \in down : \A j \in down : i <= j
    BY <2>1, LeastElement
  <2> DEFINE h == i - 1
  <2>3. i \in F /\ t[i] < i /\ t[i] \in 1 .. n /\ i \in 1 .. n
    BY <2>2
  <2>4. h \in 1 .. n - 1 /\ h + 1 = i /\ h < i
    BY <2>3
  <2> HIDE DEF h
  <2>5. h \in F
    BY <2>3, <2>4 DEF NothingCrossed
  <2>6. t[h] <= t[i] /\ t[h] \in 1 .. n
    BY <2>3, <2>4, <2>5 DEF NothingCrossed
  <2>7. ~(t[h] < h)
    BY <2>2, <2>4, <2>5
  <2>8. t[h] = t[i]
    BY <2>3, <2>4, <2>6, <2>7
  <2>9. h = i
    BY <2>3, <2>5, <2>8
  <2> QED
    BY <2>4, <2>9
<1> QED
  BY <1>1, <1>2 DEF InPlace

(* The path of the platform visits every physical qubit once.              *)
PathIsHamiltonian ==
  /\ \A x \in Phys : \E k \in 1 .. Len(HamiltonianPath) : HamiltonianPath[k] = x
  /\ \A i, j \in 1 .. Len(HamiltonianPath) : HamiltonianPath[i] = HamiltonianPath[j] => i = j

(* The qubits of a block are all placed when it is scheduled.              *)
NothingVirtual == \A m \in InitialMaps : \A q \in Qubits : m.prog[q] # Virtual

(* What is left of the path still has every qubit in use, once.            *)
LineApart(l) == \A i, j \in 1 .. Len(l) : l[i] = l[j] => i = j

LineHas(l, x) == \E k \in 1 .. Len(l) : l[k] = x

LineCovers ==
  /\ LineApart(line)
  /\ \A x \in Phys : initial_qubit_map_.phys[x] # Free \/ qubit_map_.phys[x] # Free
                       => LineHas(line, x)

(* The program qubits on the path, and where they have to be, *)
LEMMA TargetFound ==
  ASSUME IInv, LineCovers, Kin(initial_qubit_map_, qubit_map_), pc = "undo",
         NEW k \in 1 .. Len(line), ~IsFreeAt(k)
  PROVE  /\ Target(k) \in 1 .. Len(line)
         /\ final_qubit_map.phys[line[Target(k)]] = qubit_map_.phys[line[k]]
<1> DEFINE q == qubit_map_.phys[line[k]]
           x == initial_qubit_map_.prog[q]
<1>1. /\ line \in Seq(Phys) /\ qubit_map_ \in QubitMap(Phys) /\ isConsistent(qubit_map_)
      /\ initial_qubit_map_ \in QubitMap(Phys) /\ isConsistent(initial_qubit_map_)
      /\ final_qubit_map = initial_qubit_map_
  BY DEF IInv, TypeOK, PlacementsConsistent, Bookkeeping
<1>2. line[k] \in Phys
  BY <1>1, ElementOfSeq
<1>3. q \in Qubits /\ q # Free
  BY <1>1, <1>2 DEF IsFreeAt, QubitMap
<1>4. qubit_map_.prog[q] = line[k]
  BY <1>1, <1>2, <1>3 DEF isConsistent, QubitMap
<1>5. x \in Phys
  BY <1>2, <1>3, <1>4 DEF Kin
<1>6. initial_qubit_map_.phys[x] = q
  BY <1>1, <1>3, <1>5, PhysIsPlaced DEF isConsistent
<1>7. \E i \in 1 .. Len(line) : line[i] = x
  BY <1>3, <1>5, <1>6 DEF LineCovers, LineHas
<1>8. \E i \in 1 .. Len(line) : final_qubit_map.phys[line[i]] = q
  BY <1>1, <1>6, <1>7
<1>9. Target(k) = CHOOSE i \in 1 .. Len(line) : final_qubit_map.phys[line[i]] = q
  BY <1>3 DEF Target
<1> HIDE DEF q
<1>10. Target(k) \in 1 .. Len(line) /\ final_qubit_map.phys[line[Target(k)]] = q
  BY <1>8, <1>9
<1> QED
  BY <1>10 DEF q

(* so that a path that needs no swap any more holds what it held at first. *)
LEMMA SortedIsRestored ==
  ASSUME IInv, LineCovers, Kin(initial_qubit_map_, qubit_map_), pc = "undo", Sorted
  PROVE  qubit_map_ = initial_qubit_map_
<1> DEFINE n == Len(line)
           F == {k \in 1 .. n : ~IsFreeAt(k)}
           t == [k \in 1 .. n |-> Target(k)]
<1>1. /\ line \in Seq(Phys) /\ qubit_map_ \in QubitMap(Phys) /\ isConsistent(qubit_map_)
      /\ initial_qubit_map_ \in QubitMap(Phys) /\ isConsistent(initial_qubit_map_)
      /\ final_qubit_map = initial_qubit_map_
  BY DEF IInv, TypeOK, PlacementsConsistent, Bookkeeping
<1>2. n \in Nat /\ F \in SUBSET (1 .. n)
  BY <1>1, LenProperties
<1>3. \A k \in 1 .. n : line[k] \in Phys
  BY <1>1, ElementOfSeq
<1>4. \A k \in F : /\ t[k] = Target(k) /\ t[k] \in 1 .. n
                   /\ initial_qubit_map_.phys[line[t[k]]] = qubit_map_.phys[line[k]]
  BY <1>1, TargetFound
<1>5. ASSUME NEW i \in F, NEW j \in F, t[i] = t[j]
      PROVE  i = j
  <2>1. qubit_map_.phys[line[i]] = qubit_map_.phys[line[j]]
    BY <1>4, <1>5
  <2>2. qubit_map_.phys[line[i]] # Free /\ line[i] \in Phys /\ line[j] \in Phys
    BY <1>3 DEF IsFreeAt
  <2>3. line[i] = line[j]
    BY <1>1, <2>1, <2>2 DEF isConsistent, QubitMap
  <2> QED
    BY <2>3 DEF LineCovers, LineApart
<1>6. NothingCrossed(n, F, t)
  <2> SUFFICES ASSUME NEW k \in 1 .. n - 1
               PROVE  /\ k \in F /\ k + 1 \in F => t[k] <= t[k + 1]
                      /\ k \in F /\ k + 1 \notin F => t[k] <= k
                      /\ k \notin F /\ k + 1 \in F => t[k + 1] > k
    BY DEF NothingCrossed
  <2>1. k \in 1 .. n /\ k + 1 \in 1 .. n
    BY <1>2
  <2>2. ~OutOfOrder(k)
    BY DEF Sorted
  <2>3. (k \in F <=> ~IsFreeAt(k)) /\ (k + 1 \in F <=> ~IsFreeAt(k + 1))
    BY <2>1
  <2>4. t[k] = Target(k) /\ t[k + 1] = Target(k + 1)
    BY <2>1
  <2>5. (k \in F => Target(k) \in Int) /\ (k + 1 \in F => Target(k + 1) \in Int)
    BY <1>4
  <2> HIDE DEF F, t
  <2> QED
    BY <2>1, <2>2, <2>3, <2>4, <2>5 DEF OutOfOrder
<1>7. InPlace(F, t)
  <2>1. \A k \in F : k \in 1 .. n
    BY <1>2
  <2> HIDE DEF F, t, n
  <2>2. Assigned(n, F, t)
    BY <1>4, <1>5, <2>1 DEF Assigned
  <2> QED
    BY <1>2, <1>6, <2>2, SortedStay
<1>8. ASSUME NEW x \in Phys, qubit_map_.phys[x] # Free
      PROVE  initial_qubit_map_.phys[x] = qubit_map_.phys[x]
  <2>1. PICK k \in 1 .. n : line[k] = x
    BY <1>8 DEF LineCovers, LineHas
  <2>2. k \in F
    BY <1>8, <2>1 DEF IsFreeAt
  <2> HIDE DEF F, t
  <2> QED
    BY <1>4, <1>7, <2>1, <2>2 DEF InPlace
<1>9. ASSUME NEW x \in Phys, qubit_map_.phys[x] = Free
      PROVE  initial_qubit_map_.phys[x] = qubit_map_.phys[x]
  <2> DEFINE q == initial_qubit_map_.phys[x]
             y == qubit_map_.prog[q]
  <2>1. SUFFICES ASSUME q # Free
                 PROVE  FALSE
    BY <1>9
  <2>2. q \in Qubits /\ initial_qubit_map_.prog[q] = x
    BY <1>1, <2>1 DEF isConsistent, QubitMap
  <2>3. y \in Phys
    BY <2>2 DEF Kin
  <2>4. qubit_map_.phys[y] = q
    BY <1>1, <2>2, <2>3, PhysIsPlaced DEF isConsistent
  <2>5. initial_qubit_map_.phys[y] = q
    BY <1>8, <2>1, <2>3, <2>4
  <2>6. initial_qubit_map_.prog[q] = y
    BY <1>1, <2>1, <2>3, <2>5 DEF isConsistent, QubitMap
  <2> QED
    BY <1>9, <2>1, <2>2, <2>4, <2>6
<1> QED
  BY <1>1, <1>8, <1>9, KinSelf, KinEqual

(* Taking element k out of a sequence: the elements before it stay, those  *)
(* behind it move up.                                                      *)
Pruned(l, k) == SubSeq(l, 1, k - 1) \o SubSeq(l, k + 1, Len(l))

LEMMA PrunedElements ==
  ASSUME NEW l \in Seq(Phys), NEW k \in 1 .. Len(l)
  PROVE  /\ Len(Pruned(l, k)) = Len(l) - 1
         /\ \A i \in 1 .. k - 1 : Pruned(l, k)[i] = l[i]
         /\ \A i \in 1 .. Len(l) - k : Pruned(l, k)[k - 1 + i] = l[k + i]
<1> DEFINE n == Len(l)
           a == SubSeq(l, 1, k - 1)
           b == SubSeq(l, k + 1, n)
           c == a \o b
<1>1. n \in Nat
  BY LenProperties
<1>2. /\ a \in Seq(Phys) /\ Len(a) = k - 1
      /\ \A i \in 1 .. k - 1 : a[i] = l[i]
  <2>1. \A i \in 1 .. k - 1 : l[i] \in Phys
    BY <1>1, ElementOfSeq
  <2> QED
    BY <1>1, <2>1, SubSeqProperties
<1>3. /\ b \in Seq(Phys) /\ Len(b) = n - k
      /\ \A i \in 1 .. n - k : b[i] = l[k + i]
  <2>1. \A i \in k + 1 .. n : l[i] \in Phys
    BY <1>1, ElementOfSeq
  <2> HIDE DEF n
  <2>2. /\ b \in Seq(Phys)
        /\ Len(b) = IF k + 1 <= n THEN n - (k + 1) + 1 ELSE 0
        /\ \A i \in 1 .. n - (k + 1) + 1 : b[i] = l[k + 1 + i - 1]
    BY <1>1, <2>1, SubSeqProperties DEF n
  <2>3. \A i \in 1 .. n - k : i \in 1 .. n - (k + 1) + 1 /\ k + 1 + i - 1 = k + i
    BY <1>1
  <2>4. Len(b) = n - k
    BY <1>1, <2>2 DEF n
  <2> QED
    BY <2>2, <2>3, <2>4
<1> HIDE DEF a, b
<1>4. /\ Len(c) = n - 1
      /\ \A i \in 1 .. k - 1 : c[i] = l[i]
      /\ \A i \in 1 .. n - k : c[k - 1 + i] = l[k + i]
  <2>1. /\ Len(c) = Len(a) + Len(b)
        /\ \A i \in 1 .. Len(a) : c[i] = a[i]
        /\ \A i \in 1 .. Len(b) : c[Len(a) + i] = b[i]
    <3>1. a \in Seq(Phys) /\ b \in Seq(Phys)
      BY <1>2, <1>3
    <3> QED
      BY <3>1, ConcatProperties
  <2>2. k - 1 + (n - k) = n - 1
    BY <1>1
  <2> QED
    BY <1>2, <1>3, <2>1, <2>2
<1> HIDE DEF c
<1> QED
  BY <1>4 DEF Pruned, c, a, b

LEMMA PrunedCovers ==
  ASSUME NEW l \in Seq(Phys), LineApart(l), NEW k \in 1 .. Len(l)
  PROVE  /\ LineApart(Pruned(l, k))
         /\ \A x \in Phys : LineHas(l, x) /\ x # l[k] => LineHas(Pruned(l, k), x)
<1> DEFINE n == Len(l)
           c == Pruned(l, k)
           from(i) == IF i < k THEN i ELSE i + 1
<1>1. n \in Nat
  BY LenProperties
<1>2. /\ Len(c) = n - 1
      /\ \A i \in 1 .. k - 1 : c[i] = l[i]
      /\ \A i \in 1 .. n - k : c[k - 1 + i] = l[k + i]
  BY PrunedElements
<1> HIDE DEF c, n
<1>3. ASSUME NEW i \in 1 .. n - 1
      PROVE  from(i) \in 1 .. n /\ c[i] = l[from(i)]
  <2>1. CASE i < k
    BY <1>1, <1>2, <2>1
  <2>2. CASE ~(i < k)
    <3> DEFINE u == i - k + 1
    <3>1. u \in 1 .. n - k /\ k - 1 + u = i /\ k + u = i + 1 /\ i + 1 \in 1 .. n
      BY <1>1, <2>2 DEF n
    <3> HIDE DEF u
    <3>2. c[i] = l[i + 1]
      BY <1>2, <3>1
    <3> QED
      BY <2>2, <3>1, <3>2
  <2> QED
    BY <2>1, <2>2
<1>4. ASSUME NEW i \in 1 .. n - 1, NEW j \in 1 .. n - 1, c[i] = c[j]
      PROVE  i = j
  <2>1. from(i) \in 1 .. n /\ from(j) \in 1 .. n /\ l[from(i)] = l[from(j)]
    BY <1>3, <1>4
  <2> HIDE DEF from
  <2>2. from(i) = from(j)
    BY <2>1 DEF LineApart, n
  <2> QED
    BY <1>1, <2>2 DEF from, n
<1>5. ASSUME NEW x \in Phys, NEW j \in 1 .. n, l[j] = x, x # l[k]
      PROVE  LineHas(c, x)
  <2> DEFINE i == IF j < k THEN j ELSE j - 1
  <2>1. j # k
    BY <1>5
  <2>2. i \in 1 .. n - 1 /\ from(i) = j
    BY <1>1, <2>1 DEF n
  <2> HIDE DEF i, from
  <2>3. c[i] = x
    BY <1>3, <1>5, <2>2
  <2> QED
    BY <1>2, <2>2, <2>3 DEF LineHas
<1> QED
  BY <1>2, <1>4, <1>5 DEF LineApart, LineHas, c, n

(* A path that has every qubit in use is long enough.                      *)
LEMMA LineIsLongEnough ==
  ASSUME NothingVirtual, IInv, LineCovers, Kin(initial_qubit_map_, qubit_map_),
         initial_qubit_map_ \in InitialMaps
  PROVE  ~(Len(line) < NumProgQubits)
<1> DEFINE S == {q \in Qubits : qubit_map_.prog[q] # Excluded}
           n == Len(line)
           site(q) == CHOOSE k \in 1 .. n : line[k] = qubit_map_.prog[q]
           f == [q \in S |-> site(q)]
<1>1. /\ line \in Seq(Phys) /\ qubit_map_ \in QubitMap(Phys) /\ isConsistent(qubit_map_)
      /\ initial_qubit_map_ \in QubitMap(Phys)
  BY DEF IInv, TypeOK, PlacementsConsistent
<1>2. n \in Nat
  BY <1>1, LenProperties
<1>3. ASSUME NEW q \in S
      PROVE  /\ qubit_map_.prog[q] \in Phys /\ qubit_map_.phys[qubit_map_.prog[q]] = q
             /\ f[q] \in 1 .. n /\ line[f[q]] = qubit_map_.prog[q]
  <2>1. q \in Qubits /\ initial_qubit_map_.prog[q] # Virtual
    BY DEF NothingVirtual
  <2>2. initial_qubit_map_.prog[q] \in Phys \cup Unplaced
    BY <1>1 DEF QubitMap
  <2>3. qubit_map_.prog[q] \in Phys
    <3>1. q \in Qubits /\ qubit_map_.prog[q] # Excluded
      OBVIOUS
    <3>2. initial_qubit_map_.prog[q] \notin Phys => initial_qubit_map_.prog[q] = Excluded
      BY <2>1, <2>2 DEF Unplaced
    <3> QED
      BY <3>1, <3>2 DEF Kin
  <2>4. qubit_map_.phys[qubit_map_.prog[q]] = q /\ q # Free
    BY <1>1, <2>3, PhysIsPlaced, ConventionalValues DEF isConsistent
  <2>5. \E k \in 1 .. n : line[k] = qubit_map_.prog[q]
    BY <2>3, <2>4 DEF LineCovers, LineHas
  <2>6. f[q] \in 1 .. n /\ line[f[q]] = qubit_map_.prog[q]
    BY <2>5
  <2> QED
    BY <2>3, <2>4, <2>6
<1>4. f \in [S -> 1 .. n]
  <2>1. \A q \in S : site(q) \in 1 .. n
    BY <1>3
  <2> HIDE DEF site, S, n
  <2> QED
    BY <2>1
<1>5. \A p, q \in S : f[p] = f[q] => p = q
  <2> SUFFICES ASSUME NEW p \in S, NEW q \in S, f[p] = f[q]
               PROVE  p = q
    OBVIOUS
  <2>1. qubit_map_.prog[p] = qubit_map_.prog[q]
    BY <1>3
  <2> HIDE DEF f, S
  <2> QED
    BY <1>3, <2>1
<1>6. IsFiniteSet(1 .. n) /\ Cardinality(1 .. n) = n
  BY <1>2, FS_Interval
<1>7. Cardinality(S) <= n /\ Cardinality(S) \in Nat
  <2> HIDE DEF f, S, n
  <2>1. f \in Injection(S, 1 .. n)
    BY <1>4, <1>5 DEF Injection, IsInjective
  <2>2. IsFiniteSet(S) /\ Cardinality(S) <= n
    BY <1>6, <2>1, FS_Injection
  <2> QED
    BY <2>2, FS_CardinalityType
<1> QED
  BY <1>2, <1>7 DEF NumProgQubits

-----------------------------------------------------------------------------
(* What is kept: the qubits in use are the ones the block started with,    *)
(* the path has them all, and nothing gives up.                            *)
SortInv ==
  /\ Kin(initial_qubit_map_, qubit_map_)
  /\ pc # "idle" => initial_qubit_map_ \in InitialMaps
  /\ pc \in {"prune", "undo"} => LineCovers
  /\ HoldBlocksRestored

(* Steps of the stages before: nothing is to be restored yet.              *)
LEMMA SortForward ==
  ASSUME IInv, SortInv, pc # "idle", UNCHANGED initial_qubit_map_,
         pc' \in {"populate", "route", "no route"},
         \/ UNCHANGED qubit_map_
         \/ \E x, y \in Phys : qubit_map_' = Swap(qubit_map_, x, y)
  PROVE  SortInv'
<1>1. qubit_map_ \in QubitMap(Phys) /\ isConsistent(qubit_map_)
  BY DEF IInv, TypeOK, PlacementsConsistent
<1>2. Kin(initial_qubit_map_, qubit_map_)'
  BY <1>1, SwapKin DEF SortInv
<1> QED
  BY <1>2 DEF SortInv, HoldBlocksRestored

(* Steps of the stages after: the placements stay.                         *)
LEMMA SortRewrite ==
  ASSUME IInv, SortInv, pc \in {"sweep", "reorder", "convert"},
         UNCHANGED <<initial_qubit_map_, qubit_map_, final_qubit_map, release>>,
         pc' \in {"sweep", "reorder", "convert", "gates lost", "idle"}
  PROVE  SortInv'
BY DEF SortInv, HoldBlocksRestored

LEMMA SortPopulate ==
  ASSUME BackwardMethod = "sort", PathIsHamiltonian, IInv, SortInv, Populate
  PROVE  SortInv'
<1>1. CASE StartQBB
  BY <1>1, KinSelf DEF StartQBB, SortInv, HoldBlocksRestored
<1>2. CASE ScheduleInPlace \/ FindRoute \/ FailToRoute \/ PlaceRouted
  <2>1. /\ pc \in {"populate", "route"} /\ pc' \in {"populate", "route", "no route"}
        /\ UNCHANGED <<initial_qubit_map_, qubit_map_>>
    BY <1>2 DEF ScheduleInPlace, FindRoute, FailToRoute, PlaceRouted, blockVars, tableVars
  <2> QED
    BY <2>1, SortForward
<1>3. CASE RoutingSwap
  <2> DEFINE s == Head(route.swaps)
  <2>1. s \in Pair
    BY <1>3, HeadTailProperties DEF RoutingSwap, IInv, TypeOK, Pair
  <2>2. qubit_map_' = Swap(qubit_map_, s[1], s[2])
    BY <1>3 DEF RoutingSwap, addRoutingSwap, Swap
  <2> HIDE DEF s
  <2>3. pc = "route" /\ pc' = "route" /\ UNCHANGED initial_qubit_map_
    BY <1>3 DEF RoutingSwap, blockVars
  <2>4. s[1] \in Phys /\ s[2] \in Phys
    BY <2>1 DEF Pair
  <2> QED
    BY <2>2, <2>3, <2>4, SortForward
<1>4. CASE EndPopulate
  <2>1. /\ pc = "populate" /\ UNCHANGED <<initial_qubit_map_, qubit_map_, release>>
        /\ IF release THEN pc' = "sweep" ELSE pc' = "prune" /\ line' = HamiltonianPath
    BY <1>4 DEF EndPopulate, blockVars, tableVars
  <2>2. CASE release
    BY <2>1, <2>2 DEF SortInv, HoldBlocksRestored
  <2>3. CASE ~release
    <3>1. LineCovers'
      BY <2>1, <2>3 DEF PathIsHamiltonian, LineCovers, LineApart, LineHas
    <3> QED
      BY <2>1, <2>3, <3>1 DEF SortInv, HoldBlocksRestored
  <2> QED
    BY <2>2, <2>3
<1> QED
  BY <1>1, <1>2, <1>3, <1>4 DEF Populate

LEMMA SortBackward ==
  ASSUME BackwardMethod = "sort", NothingVirtual, IInv, SortInv, Backward
  PROVE  SortInv'
<1>0. /\ line \in Seq(Phys) /\ qubit_map_ \in QubitMap(Phys) /\ isConsistent(qubit_map_)
      /\ initial_qubit_map_ \in QubitMap(Phys)
  BY DEF IInv, TypeOK, PlacementsConsistent
<1>1. ~(RetraceScan \/ RetracePass \/ RetraceSwap)
  BY DEF RetraceScan, RetracePass, RetraceSwap, IInv, Bookkeeping
<1>2. CASE PruneQubit
  <2>1. /\ pc = "prune" /\ pc' = "prune" /\ scan >= 1
        /\ line' = IF Prunable(scan) THEN Pruned(line, scan) ELSE line
        /\ UNCHANGED <<initial_qubit_map_, qubit_map_>>
    BY <1>2 DEF PruneQubit, Pruned, blockVars, tableVars
  <2>2. LineCovers
    BY <2>1 DEF SortInv
  <2>3. scan \in 1 .. Len(line)
    BY <1>0, <2>1, LenProperties DEF IInv, TypeOK, Bookkeeping
  <2>4. ASSUME Prunable(scan)
        PROVE  LineCovers'
    <3>1. line' = Pruned(line, scan)
      BY <2>1, <2>4
    <3>2. /\ LineApart(line')
          /\ \A x \in Phys : LineHas(line, x) /\ x # line[scan] => LineHas(line', x)
      BY <1>0, <2>2, <2>3, <3>1, PrunedCovers DEF LineCovers
    <3>3. line[scan] \in Phys
      BY <1>0, <2>3, ElementOfSeq
    <3>4. initial_qubit_map_.phys[line[scan]] = Free /\ qubit_map_.phys[line[scan]] = Free
      BY <1>0, <2>4, <3>3 DEF Prunable, isPhysicalQubitFree, QubitMap
    <3>5. ASSUME NEW x \in Phys, initial_qubit_map_.phys[x] # Free \/ qubit_map_.phys[x] # Free
          PROVE  LineHas(line', x)
      BY <2>2, <3>2, <3>4, <3>5 DEF LineCovers
    <3> QED
      BY <2>1, <3>2, <3>5 DEF LineCovers
  <2>5. LineCovers'
    <3>1. CASE Prunable(scan)
      BY <2>4, <3>1
    <3>2. CASE ~Prunable(scan)
      BY <2>1, <2>2, <3>2 DEF LineCovers
    <3> QED
      BY <3>1, <3>2
  <2> QED
    BY <2>1, <2>5 DEF SortInv, HoldBlocksRestored
<1>3. CASE PruneDone
  <2>1. /\ pc = "prune" /\ pc' = IF Len(line) < NumProgQubits THEN "not restored" ELSE "undo"
        /\ UNCHANGED <<initial_qubit_map_, qubit_map_, line>>
    BY <1>3 DEF PruneDone, blockVars, tableVars, loopVars
  <2>2. LineCovers /\ initial_qubit_map_ \in InitialMaps
    BY <2>1 DEF SortInv
  <2>3. ~(Len(line) < NumProgQubits)
    BY <2>2, LineIsLongEnough DEF SortInv
  <2>4. pc' = "undo"
    BY <2>1, <2>3
  <2> QED
    BY <2>1, <2>2, <2>4 DEF SortInv, HoldBlocksRestored, LineCovers
<1>4. CASE SortSwap
  <2>1. /\ pc = "undo" /\ pc' = "undo" /\ UNCHANGED <<initial_qubit_map_, line>>
    BY <1>4 DEF SortSwap, blockVars, loopVars
  <2>2. PICK k \in 1 .. Len(line) - 1 : addRoutingSwap(<<line[k], line[k + 1]>>)
    BY <1>4 DEF SortSwap
  <2> DEFINE x == line[k]
             y == line[k + 1]
  <2>3. k \in 1 .. Len(line) /\ k + 1 \in 1 .. Len(line)
    BY <1>0, LenProperties
  <2>4. x \in Phys /\ y \in Phys
    BY <1>0, <2>3, ElementOfSeq
  <2>5. qubit_map_' = Swap(qubit_map_, x, y)
    BY <2>2 DEF addRoutingSwap, Swap
  <2>6. LineHas(line, x) /\ LineHas(line, y)
    BY <2>3 DEF LineHas
  <2> HIDE DEF x, y
  <2>7. \A z \in Phys : z \notin {x, y} => qubit_map_'.phys[z] = qubit_map_.phys[z]
    BY <1>0, <2>4, <2>5, SwapEntries
  <2>8. LineCovers
    BY <2>1 DEF SortInv
  <2>9. LineCovers'
    BY <2>1, <2>6, <2>7, <2>8 DEF LineCovers
  <2>10. Kin(initial_qubit_map_, qubit_map_)'
    BY <1>0, <2>1, <2>4, <2>5, SwapKin DEF SortInv
  <2> QED
    BY <2>1, <2>9, <2>10 DEF SortInv, HoldBlocksRestored
<1>5. CASE BackwardDone
  <2>1. /\ pc = "undo" /\ Sorted
        /\ UNCHANGED <<initial_qubit_map_, qubit_map_, final_qubit_map>>
        /\ IF qubit_map_ = final_qubit_map THEN pc' = "sweep" ELSE pc' = "not restored"
    BY <1>5 DEF BackwardDone, IsEqual, blockVars, tableVars
  <2>2. qubit_map_ = initial_qubit_map_ /\ final_qubit_map = initial_qubit_map_
    BY <2>1, SortedIsRestored DEF SortInv, IInv, Bookkeeping
  <2> QED
    BY <2>1, <2>2 DEF SortInv, HoldBlocksRestored
<1> QED
  BY <1>1, <1>2, <1>3, <1>4, <1>5 DEF Backward

LEMMA NextSort ==
  ASSUME BackwardMethod = "sort", PathIsHamiltonian, NothingVirtual, IInv, SortInv, [Next]_vars
  PROVE  SortInv'
<1>1. CASE UNCHANGED vars
  <2>1. UNCHANGED <<pc, initial_qubit_map_, qubit_map_, final_qubit_map, release, line>>
    BY <1>1 DEF vars, blockVars, tableVars, loopVars
  <2> QED
    BY <2>1 DEF SortInv, HoldBlocksRestored, LineCovers
<1>2. CASE Rewrite
  <2>1. /\ pc \in {"sweep", "reorder", "convert"}
        /\ pc' \in {"sweep", "reorder", "convert", "gates lost", "idle"}
        /\ UNCHANGED <<initial_qubit_map_, qubit_map_, final_qubit_map, release>>
    BY <1>2 DEF Rewrite, SweepQubit, SweepRound, ReorderGate, ReorderDone, ConvertGate,
       FinishQBB, blockVars, tableVars
  <2> QED
    BY <2>1, SortRewrite
<1> QED
  BY <1>1, <1>2, SortPopulate, SortBackward DEF Next

(* With the sorting methods, too, a block that holds its qubits always     *)
(* ends on the placement it started from: pruning the path drops no qubit  *)
(* that is needed, and neighbours that need no exchange any more are all   *)
(* in their places.  The path has to be a Hamiltonian one, which the code  *)
(* asks the platform for.                                                  *)
THEOREM SortingRestoresBlocks ==
  ASSUME BackwardMethod = "sort", PathIsHamiltonian, NothingVirtual
  PROVE  Spec => []HoldBlocksRestored
<1>1. Init => SortInv
  BY KinSelf DEF Init, SortInv, HoldBlocksRestored
<1>2. IInv /\ SortInv /\ [Next]_vars => SortInv'
  BY NextSort
<1>3. SortInv => HoldBlocksRestored
  BY DEF SortInv
<1> QED
  BY <1>1, <1>2, <1>3, InvHolds, PTL DEF Spec

-----------------------------------------------------------------------------
(* One row of the table.                                                   *)

EndIn(row)      == IF row = <<>> THEN 0 ELSE row[Len(row)].end
StartIn(row, i) == IF i = 1 THEN 0 ELSE row[i - 1].end

Grown(row, t, g, d) ==
  row \o (IF EndIn(row) < t THEN <<[gate |-> IsIdle, end |-> t]>> ELSE <<>>)
      \o <<[gate |-> g, end |-> t + d]>>

(* What entry i of a row is after gate g was entered at time t: one the    *)
(* row had, padding, or the new one, which is the last.                    *)
EntryKept(row, new, i) ==
  i \in 1 .. Len(row) /\ new[i] = row[i] /\ StartIn(new, i) = StartIn(row, i)

EntryPads(new, i) == new[i].gate = IsIdle /\ StartIn(new, i) < new[i].end

EntryAdded(new, i, t, g, d) ==
  i = Len(new) /\ new[i] = [gate |-> g, end |-> t + d] /\ StartIn(new, i) = t

LEMMA LastEntry ==
  ASSUME NEW row \in Seq(Entry)
  PROVE  /\ EndIn(row) \in Nat
         /\ row # <<>> => Len(row) \in 1 .. Len(row) /\ EndIn(row) = row[Len(row)].end
<1>1. CASE row = <<>>
  BY <1>1 DEF EndIn
<1>2. CASE row # <<>>
  <2>1. Len(row) \in 1 .. Len(row)
    BY <1>2, EmptySeq, LenProperties
  <2>2. row[Len(row)] \in Entry
    BY <2>1, ElementOfSeq
  <2> QED
    BY <1>2, <2>1, <2>2 DEF EndIn, Entry
<1> QED
  BY <1>1, <1>2

(* With a gap the row gets two entries, without one it gets one.           *)
LEMMA RowGrows ==
  ASSUME NEW row \in Seq(Entry), NEW t \in Nat, NEW g \in Int, NEW d \in Nat,
         EndIn(row) <= t
  PROVE  \A i \in 1 .. Len(Grown(row, t, g, d)) :
            \/ EntryKept(row, Grown(row, t, g, d), i)
            \/ EntryPads(Grown(row, t, g, d), i)
            \/ EntryAdded(Grown(row, t, g, d), i, t, g, d)
<1> DEFINE n == Len(row)
           last == [gate |-> g, end |-> t + d]
<1>1. n \in Nat /\ EndIn(row) \in Nat
  BY LastEntry, LenProperties
<1>2. n > 0 => EndIn(row) = row[n].end
  BY LastEntry, EmptySeq
<1>3. n = 0 => EndIn(row) = 0
  BY EmptySeq DEF EndIn
<1>4. last \in Entry
  BY DEF Entry
<1> HIDE DEF n
<1>5. CASE EndIn(row) < t
  <2> DEFINE idle == [gate |-> IsIdle, end |-> t]
  <2>1. idle \in Entry
    BY DEF Entry, IsIdle
  <2>2. Grown(row, t, g, d) = row \o <<idle>> \o <<last>>
    BY <1>5 DEF Grown
  <2> HIDE DEF idle, last
  <2>3. row \o <<idle>> \o <<last>> = Append(Append(row, idle), last)
    BY <1>4, <2>1
  <2>4. PICK new : new = Append(Append(row, idle), last)
    OBVIOUS
  <2>5. /\ Len(new) = n + 2
        /\ \A i \in 1 .. n : new[i] = row[i]
        /\ new[n + 1] = idle /\ new[n + 2] = last
    BY <1>1, <1>4, <2>1, <2>4, AppendProperties DEF n
  <2>6. \A i \in 1 .. n : EntryKept(row, new, i)
    BY <1>1, <2>5 DEF EntryKept, StartIn, n
  <2>7. StartIn(new, n + 1) = EndIn(row)
    BY <1>1, <1>2, <1>3, <2>5 DEF StartIn
  <2>8. EntryPads(new, n + 1)
    BY <1>5, <2>5, <2>7 DEF EntryPads, idle
  <2>9. StartIn(new, n + 2) = t
    BY <1>1, <2>5 DEF StartIn, idle
  <2>10. EntryAdded(new, n + 2, t, g, d)
    BY <2>5, <2>9 DEF EntryAdded, last
  <2>11. \A i \in 1 .. Len(new) : i \in 1 .. n \/ i = n + 1 \/ i = n + 2
    BY <1>1, <2>5
  <2> QED
    BY <2>2, <2>3, <2>4, <2>6, <2>8, <2>10, <2>11
<1>6. CASE EndIn(row) = t
  <2>1. Grown(row, t, g, d) = row \o <<>> \o <<last>>
    <3>1. ~(EndIn(row) < t)
      BY <1>1, <1>6
    <3> QED
      BY <3>1, Zenon DEF Grown
  <2> HIDE DEF last
  <2>2. row \o <<>> \o <<last>> = Append(row, last)
    BY <1>4
  <2>3. PICK new : new = Append(row, last)
    OBVIOUS
  <2>4. /\ Len(new) = n + 1
        /\ \A i \in 1 .. n : new[i] = row[i]
        /\ new[n + 1] = last
    BY <1>1, <1>4, <2>3, AppendProperties DEF n
  <2>5. \A i \in 1 .. n : EntryKept(row, new, i)
    BY <1>1, <2>4 DEF EntryKept, StartIn, n
  <2>6. StartIn(new, n + 1) = t
    BY <1>1, <1>2, <1>3, <1>6, <2>4 DEF StartIn
  <2>7. EntryAdded(new, n + 1, t, g, d)
    BY <2>4, <2>6 DEF EntryAdded, last
  <2>8. \A i \in 1 .. Len(new) : i \in 1 .. n \/ i = n + 1
    BY <1>1, <2>4
  <2> QED
    BY <2>1, <2>2, <2>3, <2>5, <2>7, <2>8
<1> QED
  BY <1>1, <1>5, <1>6

-----------------------------------------------------------------------------
(* The table.                                                              *)

NewGate(g) == \A x \in Phys : \A i \in 1 .. Len(table_[x]) :
                table_[x][i].gate = g => g = IsIdle

(* An entry of the new table, given the time t at which the gate starts.   *)
EntryOrigin(x, i, t, g, d) ==
  \/ EntryKept(table_[x], table_'[x], i)
  \/ EntryPads(table_'[x], i)
  \/ EntryAdded(table_'[x], i, t, g, d)

(* The gate starts when the later of its qubits is available.              *)
LEMMA RowsGrow ==
  ASSUME table_ \in [Phys -> Seq(Entry)],
         NEW u \in Phys, NEW v \in Phys, NEW g \in Int, NEW d \in Nat,
         addGateToTable({u, v}, g, d)
  PROVE  \E t \in Nat : \A x \in Phys : \A i \in 1 .. Len(table_'[x]) : EntryOrigin(x, i, t, g, d)
<1> DEFINE t == CHOOSE t \in {EndTime(x) : x \in {u, v}} :
                  \A x \in {u, v} : EndTime(x) <= t
<1>1. \A x \in Phys : EndTime(x) = EndIn(table_[x])
  BY DEF EndTime, EndIn
<1>2. EndTime(u) \in Nat /\ EndTime(v) \in Nat
  BY EndTimeIsNat
<1>3. t \in Nat /\ \A x \in {u, v} : EndTime(x) <= t
  <2>1. \E s \in {EndTime(x) : x \in {u, v}} : \A x \in {u, v} : EndTime(x) <= s
    <3>1. CASE EndTime(u) <= EndTime(v)
      BY <1>2, <3>1
    <3>2. CASE EndTime(v) <= EndTime(u)
      BY <1>2, <3>2
    <3> QED
      BY <1>2, <3>1, <3>2
  <2> QED
    BY <1>2, <2>1
<1>4. table_' = [x \in Phys |->
        IF x \in {u, v}
        THEN table_[x] \o (IF EndTime(x) < t THEN <<[gate |-> IsIdle, end |-> t]>> ELSE <<>>)
                       \o <<[gate |-> g, end |-> t + d]>>
        ELSE table_[x]]
  BY DEF addGateToTable
<1> HIDE DEF t
<1>5. ASSUME NEW x \in Phys, x \in {u, v}
      PROVE  table_'[x] = Grown(table_[x], t, g, d)
  BY <1>1, <1>4, <1>5, Zenon DEF Grown
<1>6. ASSUME NEW x \in Phys, NEW i \in 1 .. Len(table_'[x])
      PROVE  EntryOrigin(x, i, t, g, d)
  <2>1. CASE x \in {u, v}
    <3>1. table_'[x] = Grown(table_[x], t, g, d)
      BY <1>5, <2>1
    <3>2. EndIn(table_[x]) <= t /\ table_[x] \in Seq(Entry)
      BY <1>1, <1>3, <2>1
    <3> QED
      BY <1>3, <3>1, <3>2, RowGrows DEF EntryOrigin
  <2>2. CASE x \notin {u, v}
    BY <1>4, <2>2 DEF EntryOrigin, EntryKept
  <2> QED
    BY <2>1, <2>2
<1> QED
  BY <1>3, <1>6

(* The schedule in terms of rows.                                          *)
EntriesAgree(T, x, y, i, j) ==
  /\ StartIn(T[x], i) < T[x][i].end
  /\ T[x][i].gate = T[y][j].gate /\ T[x][i].gate # IsIdle =>
       /\ StartIn(T[x], i) = StartIn(T[y], j)
       /\ T[x][i].end = T[y][j].end
       /\ x = y => i = j

AreASchedule(T) ==
  \A x, y \in Phys : \A i \in 1 .. Len(T[x]) : \A j \in 1 .. Len(T[y]) : EntriesAgree(T, x, y, i, j)

LEMMA ScheduleByRows == TableIsASchedule <=> AreASchedule(table_)
  BY DEF TableIsASchedule, StartTime, AreASchedule, EntriesAgree, StartIn

(* Entering a gate that takes time and is not in the table yet leaves a    *)
(* schedule.                                                               *)
LEMMA TableStaysASchedule ==
  ASSUME table_ \in [Phys -> Seq(Entry)], TableIsASchedule,
         NEW u \in Phys, NEW v \in Phys, NEW g \in Int, NEW d \in Nat \ {0}, NewGate(g),
         addGateToTable({u, v}, g, d)
  PROVE  TableIsASchedule'
<1>1. PICK t \in Nat :
        \A x \in Phys : \A i \in 1 .. Len(table_'[x]) : EntryOrigin(x, i, t, g, d)
  BY RowsGrow
<1>2. AreASchedule(table_)
  BY ScheduleByRows
<1> SUFFICES ASSUME NEW x \in Phys, NEW y \in Phys,
                    NEW i \in 1 .. Len(table_'[x]), NEW j \in 1 .. Len(table_'[y])
             PROVE  EntriesAgree(table_', x, y, i, j)
  <2>1. TableIsASchedule' <=> AreASchedule(table_')
    BY DEF TableIsASchedule, StartTime, AreASchedule, EntriesAgree, StartIn
  <2> QED
    BY <2>1 DEF AreASchedule
<1>3. EntryOrigin(x, i, t, g, d) /\ EntryOrigin(y, j, t, g, d)
  BY <1>1
<1>4. StartIn(table_'[x], i) < table_'[x][i].end
  <2>1. CASE EntryKept(table_[x], table_'[x], i)
    <3>1. i \in 1 .. Len(table_[x])
      BY <2>1 DEF EntryKept
    <3>2. EntriesAgree(table_, x, x, i, i)
      BY <1>2, <3>1 DEF AreASchedule
    <3> QED
      BY <2>1, <3>2 DEF EntryKept, EntriesAgree
  <2>2. CASE EntryAdded(table_'[x], i, t, g, d)
    BY <2>2 DEF EntryAdded
  <2> QED
    BY <1>3, <2>1, <2>2 DEF EntryOrigin, EntryPads
<1>5. ASSUME table_'[x][i].gate = table_'[y][j].gate, table_'[x][i].gate # IsIdle
      PROVE  /\ StartIn(table_'[x], i) = StartIn(table_'[y], j)
             /\ table_'[x][i].end = table_'[y][j].end
             /\ x = y => i = j
  <2>1. CASE EntryKept(table_[x], table_'[x], i) /\ EntryKept(table_[y], table_'[y], j)
    <3>1. i \in 1 .. Len(table_[x]) /\ j \in 1 .. Len(table_[y])
      BY <2>1 DEF EntryKept
    <3>2. EntriesAgree(table_, x, y, i, j)
      BY <1>2, <3>1 DEF AreASchedule
    <3> QED
      BY <1>5, <2>1, <3>2 DEF EntryKept, EntriesAgree
  <2>2. CASE EntryAdded(table_'[x], i, t, g, d) /\ EntryAdded(table_'[y], j, t, g, d)
    BY <2>2 DEF EntryAdded
  <2>3. CASE EntryKept(table_[x], table_'[x], i) /\ EntryAdded(table_'[y], j, t, g, d)
    BY <1>5, <2>3 DEF EntryKept, EntryAdded, NewGate
  <2>4. CASE EntryAdded(table_'[x], i, t, g, d) /\ EntryKept(table_[y], table_'[y], j)
    BY <1>5, <2>4 DEF EntryKept, EntryAdded, NewGate
  <2> QED
    BY <1>3, <1>5, <2>1, <2>2, <2>3, <2>4 DEF EntryOrigin, EntryPads
<1> QED
  BY <1>4, <1>5 DEF EntriesAgree

(* The qubits of a gate on one or two of them.                             *)
LEMMA SetOfOneOrTwo ==
  ASSUME NEW xs \in Seq(Phys), Len(xs) = 1 \/ Len(xs) = 2
  PROVE  \E u, v \in Phys : {xs[i] : i \in 1 .. Len(xs)} = {u, v}
<1> DEFINE n == Len(xs)
<1>1. n = 1 \/ n = 2
  OBVIOUS
<1> HIDE DEF n
<1>2. 1 \in 1 .. n /\ n \in 1 .. n /\ \A i \in 1 .. n : i = 1 \/ i = n
  BY <1>1
<1>3. xs[1] \in Phys /\ xs[n] \in Phys
  BY <1>2, ElementOfSeq DEF n
<1>4. {xs[i] : i \in 1 .. n} = {xs[1], xs[n]}
  BY <1>2
<1>5. \E u, v \in Phys : {xs[i] : i \in 1 .. n} = {u, v}
  BY <1>3, <1>4, Zenon
<1> QED
  BY <1>5 DEF n

(* The gates and swaps of a block are entered once each.                   *)
LEMMA PlacedKeepsSchedule ==
  ASSUME IInv, TableIsASchedule, pc \in {"populate", "route"}, gate_index < Len(gates),
         NEW xs \in Seq(Phys), Len(xs) = Len(CurrentGate.qubits),
         IsAvailable(CurrentGate, xs), placeGate(xs)
  PROVE  TableIsASchedule'
<1> DEFINE d == GateDuration(CurrentGate)
<1>1. /\ gates \in Programs
      /\ gate_index + 1 \in 1 .. Len(gates)
      /\ gate_index \in Nat
  BY CurrentGateFacts DEF IInv, TypeOK
<1>2. d \in Nat \ {0} /\ (Len(xs) = 1 \/ Len(xs) = 2)
  BY <1>1, AvailableGate DEF CurrentGate
<1>3. PICK u \in Phys, v \in Phys : {xs[i] : i \in 1 .. Len(xs)} = {u, v}
  BY <1>2, SetOfOneOrTwo
<1>4. addGateToTable({u, v}, gate_index, d)
  BY <1>3 DEF placeGate
<1>5. table_ \in [Phys -> Seq(Entry)]
  BY DEF IInv, TypeOK, Entry
<1>6. NewGate(gate_index)
  <2>1. Len(routing) \in Nat
    BY LenProperties DEF IInv, TypeOK
  <2>2. gate_index \notin Positions
    BY <1>1, <2>1 DEF Positions
  <2> QED
    BY <2>2 DEF NewGate, IInv, EntriesKnown
<1>7. gate_index \in Int
  BY <1>1
<1> HIDE DEF d
<1> QED
  BY <1>2, <1>4, <1>5, <1>6, <1>7, TableStaysASchedule

LEMMA SwapKeepsSchedule ==
  ASSUME IInv, TableIsASchedule, pc \in {"route", "undo"}, NEW s \in Pair, addRoutingSwap(s)
  PROVE  TableIsASchedule'
<1>1. s[1] \in Phys /\ s[2] \in Phys
  BY DEF Pair
<1>2. routing \in Seq(Pair) /\ Len(routing) \in Nat /\ gate_index \in Nat
  BY LenProperties DEF IInv, TypeOK, Pair
<1>3. Len(routing') = Len(routing) + 1
  BY <1>2, AppendProperties DEF addRoutingSwap
<1>4. -Len(routing') \in Int
  BY <1>2, <1>3
<1>5. table_ \in [Phys -> Seq(Entry)]
  BY DEF IInv, TypeOK, Entry
<1>6. NewGate(-Len(routing'))
  BY <1>2, <1>3 DEF NewGate, IInv, EntriesKnown, Positions
<1>7. addGateToTable({s[1], s[2]}, -Len(routing'), SwapDuration) /\ SwapDuration \in Nat \ {0}
  BY PlatformShape DEF addRoutingSwap
<1> QED
  BY <1>1, <1>4, <1>5, <1>6, <1>7, TableStaysASchedule

LEMMA UnchangedKeepsSchedule ==
  ASSUME TableIsASchedule, UNCHANGED table_
  PROVE  TableIsASchedule'
<1>1. table_' = table_
  OBVIOUS
<1>2. \A x, i : StartTime(x, i)' = StartTime(x, i)
  BY <1>1 DEF StartTime
<1>3. SUFFICES ASSUME NEW x \in Phys, NEW y \in Phys,
                      NEW i \in 1 .. Len(table_[x]), NEW j \in 1 .. Len(table_[y])
               PROVE  LET e == table_[x][i]
                          f == table_[y][j]
                      IN  /\ StartTime(x, i)' < e.end
                          /\ e.gate = f.gate /\ e.gate # IsIdle =>
                               /\ StartTime(x, i)' = StartTime(y, j)' /\ e.end = f.end
                               /\ x = y => i = j
  BY <1>1 DEF TableIsASchedule
<1> QED
  BY <1>2 DEF TableIsASchedule

LEMMA NextSchedule == IInv /\ TableIsASchedule /\ [Next]_vars => TableIsASchedule'
<1> SUFFICES ASSUME IInv, TableIsASchedule, [Next]_vars
             PROVE  TableIsASchedule'
  OBVIOUS
<1>1. CASE StartQBB
  <2>1. table_' = [x \in Phys |-> <<>>]
    BY <1>1 DEF StartQBB
  <2>2. \A x \in Phys : Len(table_'[x]) = 0
    BY <2>1
  <2> QED
    BY <2>2 DEF TableIsASchedule
<1>2. CASE ScheduleInPlace
  <2>1. pc = "populate" /\ gate_index < Len(gates) /\ ~NeedsRouting /\ placeGate(CurrentPlace)
    BY <1>2 DEF ScheduleInPlace
  <2>2. CurrentPlace \in Seq(Phys) /\ Len(CurrentPlace) = Len(CurrentGate.qubits)
    BY <2>1, CurrentPlaceIsSeq DEF IInv, Bookkeeping
  <2>3. IsAvailable(CurrentGate, CurrentPlace)
    BY <2>1 DEF NeedsRouting
  <2> QED
    BY <2>1, <2>2, <2>3, PlacedKeepsSchedule
<1>3. CASE PlaceRouted
  <2>1. pc = "route" /\ placeGate(route.goal)
    BY <1>3 DEF PlaceRouted
  <2>2. /\ gate_index < Len(gates)
        /\ route.goal \in Seq(Phys) /\ Len(route.goal) = Len(CurrentGate.qubits)
        /\ IsAvailable(CurrentGate, route.goal)
    BY <2>1 DEF IInv, Bookkeeping, TypeOK
  <2> QED
    BY <2>1, <2>2, PlacedKeepsSchedule
<1>4. CASE RoutingSwap
  <2>1. Head(route.swaps) \in Pair
    BY <1>4, HeadTailProperties DEF RoutingSwap, IInv, TypeOK, Pair
  <2> QED
    BY <1>4, <2>1, SwapKeepsSchedule DEF RoutingSwap
<1>5. CASE RetraceSwap
  <2>1. todo \in Seq(Pair) /\ todo # <<>>
    BY <1>5 DEF RetraceSwap, IInv, TypeOK, Pair
  <2>2. Len(todo) \in 1 .. Len(todo)
    BY <2>1, EmptySeq, LenProperties
  <2>3. todo[Len(todo)] \in Pair
    BY <2>1, <2>2, ElementOfSeq
  <2> QED
    BY <1>5, <2>3, SwapKeepsSchedule DEF RetraceSwap
<1>6. CASE SortSwap
  <2>1. PICK k \in 1 .. Len(line) - 1 : addRoutingSwap(<<line[k], line[k + 1]>>)
    BY <1>6 DEF SortSwap
  <2>2. line \in Seq(Phys) /\ Len(line) \in Nat
    BY LenProperties DEF IInv, TypeOK
  <2>3. k \in 1 .. Len(line) /\ k + 1 \in 1 .. Len(line)
    BY <2>2
  <2>4. line[k] \in Phys /\ line[k + 1] \in Phys
    BY <2>2, <2>3, ElementOfSeq
  <2>5. <<line[k], line[k + 1]>> \in Pair
    BY <2>4 DEF Pair
  <2> QED
    BY <1>6, <2>1, <2>5, SwapKeepsSchedule DEF SortSwap
<1>7. CASE FindRoute \/ FailToRoute \/ EndPopulate
  BY <1>7, UnchangedKeepsSchedule DEF FindRoute, FailToRoute, EndPopulate, tableVars
<1>8. CASE RetraceScan \/ RetracePass \/ PruneQubit \/ PruneDone \/ BackwardDone
  BY <1>8, UnchangedKeepsSchedule
     DEF RetraceScan, RetracePass, PruneQubit, PruneDone, BackwardDone, tableVars
<1>9. CASE SweepQubit \/ SweepRound \/ ReorderGate \/ ReorderDone \/ ConvertGate \/ FinishQBB
  BY <1>9, UnchangedKeepsSchedule
     DEF SweepQubit, SweepRound, ReorderGate, ReorderDone, ConvertGate, FinishQBB, tableVars
<1>10. CASE UNCHANGED vars
  BY <1>10, UnchangedKeepsSchedule DEF vars, tableVars
<1> QED
  BY <1>1, <1>2, <1>3, <1>4, <1>5, <1>6, <1>7, <1>8, <1>9, <1>10
     DEF Next, Populate, Backward, Rewrite

(* Whatever gates are scheduled and swaps inserted, on the way and on the  *)
(* way back, the table stays a schedule: on every row time only grows, and *)
(* a gate on several rows has the same start and end on all of them and is *)
(* on each of them once.                                                   *)
THEOREM TableStaysSchedule == Spec => []TableIsASchedule
<1>1. Init => TableIsASchedule
  <2> SUFFICES ASSUME Init
               PROVE  TableIsASchedule
    OBVIOUS
  <2>1. \A x \in Phys : Len(table_[x]) = 0
    BY DEF Init
  <2> QED
    BY <2>1 DEF TableIsASchedule
<1>2. IInv /\ TableIsASchedule /\ [Next]_vars => TableIsASchedule'
  BY NextSchedule
<1> QED
  BY <1>1, <1>2, InvHolds, PTL DEF Spec

-----------------------------------------------------------------------------
(* What the rows keep.                                                     *)

(* A row that a gate was entered in: the old entries, perhaps padding, and *)
(* the gate last.                                                          *)
RowExtends(row, new, t, g, d) ==
  LET n == Len(row)
      m == Len(new)
  IN  /\ \A i \in 1 .. n : new[i] = row[i]
      /\ new[m] = [gate |-> g, end |-> t + d]
      /\ \/ m = n + 1 /\ EndIn(row) = t
         \/ m = n + 2 /\ new[n + 1] = [gate |-> IsIdle, end |-> t] /\ EndIn(row) < t

LEMMA GrownExtends ==
  ASSUME NEW row \in Seq(Entry), NEW t \in Nat, NEW g \in Int, NEW d \in Nat,
         EndIn(row) <= t
  PROVE  RowExtends(row, Grown(row, t, g, d), t, g, d) /\ Grown(row, t, g, d) \in Seq(Entry)
<1> DEFINE n == Len(row)
           idle == [gate |-> IsIdle, end |-> t]
           last == [gate |-> g, end |-> t + d]
<1>1. n \in Nat /\ EndIn(row) \in Nat /\ idle \in Entry /\ last \in Entry
  BY LastEntry, LenProperties DEF Entry, IsIdle
<1>2. CASE EndIn(row) < t
  <2>1. Grown(row, t, g, d) = row \o <<idle>> \o <<last>>
    BY <1>2 DEF Grown
  <2> HIDE DEF idle, last
  <2>2. row \o <<idle>> \o <<last>> = Append(Append(row, idle), last)
    BY <1>1
  <2>3. PICK new : new = Append(Append(row, idle), last)
    OBVIOUS
  <2>a. new \in Seq(Entry)
    BY <1>1, <2>3
  <2>4. /\ Len(new) = n + 2
        /\ \A i \in 1 .. n : new[i] = row[i]
        /\ new[n + 1] = idle /\ new[n + 2] = last
    BY <1>1, <2>3, AppendProperties
  <2>5. RowExtends(row, new, t, g, d)
    BY <1>2, <2>4 DEF RowExtends, idle, last
  <2> QED
    BY <2>1, <2>2, <2>3, <2>a, <2>5
<1>3. CASE EndIn(row) = t
  <2>1. Grown(row, t, g, d) = row \o <<>> \o <<last>>
    <3>1. ~(EndIn(row) < t)
      BY <1>1, <1>3
    <3> QED
      BY <3>1, Zenon DEF Grown
  <2> HIDE DEF last
  <2>2. row \o <<>> \o <<last>> = Append(row, last)
    BY <1>1
  <2>3. PICK new : new = Append(row, last)
    OBVIOUS
  <2>a. new \in Seq(Entry)
    BY <1>1, <2>3
  <2>4. /\ Len(new) = n + 1
        /\ \A i \in 1 .. n : new[i] = row[i]
        /\ new[n + 1] = last
    BY <1>1, <2>3, AppendProperties
  <2>5. RowExtends(row, new, t, g, d)
    BY <1>3, <2>4 DEF RowExtends, last
  <2> QED
    BY <2>1, <2>2, <2>3, <2>a, <2>5
<1> QED
  BY <1>1, <1>2, <1>3

(* A gate on u and v starts at the time t that the later of them is free.  *)
TableExtends(u, v, t, g, d) ==
  /\ t = EndIn(table_[u]) \/ t = EndIn(table_[v])
  /\ \A x \in Phys : IF x \in {u, v} THEN RowExtends(table_[x], table_'[x], t, g, d)
                                     ELSE table_'[x] = table_[x]

LEMMA AddedExtends ==
  ASSUME table_ \in [Phys -> Seq(Entry)],
         NEW u \in Phys, NEW v \in Phys, NEW g \in Int, NEW d \in Nat,
         addGateToTable({u, v}, g, d)
  PROVE  /\ \E t \in Nat : TableExtends(u, v, t, g, d)
         /\ table_' \in [Phys -> Seq(Entry)]
<1> DEFINE t == CHOOSE t \in {EndTime(x) : x \in {u, v}} :
                  \A x \in {u, v} : EndTime(x) <= t
<1>1. \A x \in Phys : EndTime(x) = EndIn(table_[x])
  BY DEF EndTime, EndIn
<1>2. EndTime(u) \in Nat /\ EndTime(v) \in Nat
  BY EndTimeIsNat
<1>3. t \in {EndTime(u), EndTime(v)} /\ \A x \in {u, v} : EndTime(x) <= t
  <2>1. \E s \in {EndTime(x) : x \in {u, v}} : \A x \in {u, v} : EndTime(x) <= s
    <3>1. CASE EndTime(u) <= EndTime(v)
      BY <1>2, <3>1
    <3>2. CASE EndTime(v) <= EndTime(u)
      BY <1>2, <3>2
    <3> QED
      BY <1>2, <3>1, <3>2
  <2> QED
    BY <2>1
<1>4. table_' = [x \in Phys |->
        IF x \in {u, v}
        THEN table_[x] \o (IF EndTime(x) < t THEN <<[gate |-> IsIdle, end |-> t]>> ELSE <<>>)
                       \o <<[gate |-> g, end |-> t + d]>>
        ELSE table_[x]]
  BY DEF addGateToTable
<1> HIDE DEF t
<1>5. ASSUME NEW x \in Phys, x \in {u, v}
      PROVE  table_'[x] = Grown(table_[x], t, g, d)
  BY <1>1, <1>4, <1>5, Zenon DEF Grown
<1>6. t \in Nat /\ (t = EndIn(table_[u]) \/ t = EndIn(table_[v]))
  BY <1>1, <1>2, <1>3
<1>7. ASSUME NEW x \in Phys, x \in {u, v}
      PROVE  RowExtends(table_[x], table_'[x], t, g, d) /\ table_'[x] \in Seq(Entry)
  <2>1. EndIn(table_[x]) <= t /\ table_[x] \in Seq(Entry)
    BY <1>1, <1>3, <1>7
  <2> QED
    BY <1>5, <1>6, <1>7, <2>1, GrownExtends
<1>8. \A x \in Phys : x \notin {u, v} => table_'[x] = table_[x]
  BY <1>4
<1>9. TableExtends(u, v, t, g, d)
  BY <1>6, <1>7, <1>8 DEF TableExtends
<1>10. table_' \in [Phys -> Seq(Entry)]
  <2>1. ASSUME NEW x \in Phys
        PROVE  table_'[x] \in Seq(Entry)
    BY <1>7, <1>8
  <2> QED
    BY <1>4, <2>1
<1> QED
  BY <1>6, <1>9, <1>10

-----------------------------------------------------------------------------
(* The steps, by what they do to the table.                                *)

(* The current gate is entered on the qubits xs.                           *)
GateEntered(xs) ==
  /\ pc \in {"populate", "route"} /\ pc' = "populate"
  /\ gate_index < Len(gates)
  /\ Len(xs) = Len(CurrentGate.qubits)
  /\ IsAvailable(CurrentGate, xs)
  /\ placeGate(xs)
  /\ UNCHANGED <<gates, initial_qubit_map_, routing, qubit_map_>>

SwapEntered(s) ==
  /\ pc \in {"route", "undo"} /\ pc' = pc
  /\ addRoutingSwap(s)
  /\ UNCHANGED <<gates, initial_qubit_map_, gate_index>>

TableKept ==
  /\ UNCHANGED <<table_, qubit_map_, gates, initial_qubit_map_>>
  /\ pc' \notin {"idle", "convert"} =>
       pc \notin {"idle", "convert"} /\ UNCHANGED <<routing, gate_index>>

LEMMA TableSteps ==
  ASSUME IInv, [Next]_vars
  PROVE  \/ StartQBB
         \/ \E xs \in Seq(Phys) : GateEntered(xs)
         \/ \E s \in Pair : SwapEntered(s)
         \/ TableKept
<1>1. CASE StartQBB
  BY <1>1
<1>2. CASE ScheduleInPlace
  <2>1. /\ pc = "populate" /\ pc' = pc
        /\ gate_index < Len(gates) /\ ~NeedsRouting /\ placeGate(CurrentPlace)
        /\ UNCHANGED <<gates, initial_qubit_map_, routing, qubit_map_>>
    BY <1>2 DEF ScheduleInPlace, blockVars
  <2>2. CurrentPlace \in Seq(Phys) /\ Len(CurrentPlace) = Len(CurrentGate.qubits)
    BY <2>1, CurrentPlaceIsSeq DEF IInv, Bookkeeping
  <2>3. IsAvailable(CurrentGate, CurrentPlace)
    BY <2>1 DEF NeedsRouting
  <2>4. GateEntered(CurrentPlace)
    BY <2>1, <2>2, <2>3 DEF GateEntered
  <2> QED
    BY <2>2, <2>4
<1>3. CASE PlaceRouted
  <2>1. /\ pc = "route" /\ pc' = "populate" /\ placeGate(route.goal)
        /\ UNCHANGED <<gates, initial_qubit_map_, routing, qubit_map_>>
    BY <1>3 DEF PlaceRouted, blockVars
  <2>2. /\ gate_index < Len(gates)
        /\ route.goal \in Seq(Phys) /\ Len(route.goal) = Len(CurrentGate.qubits)
        /\ IsAvailable(CurrentGate, route.goal)
    BY <2>1 DEF IInv, Bookkeeping, TypeOK
  <2>3. GateEntered(route.goal)
    BY <2>1, <2>2 DEF GateEntered
  <2> QED
    BY <2>2, <2>3
<1>4. CASE RoutingSwap
  <2>1. Head(route.swaps) \in Pair
    BY <1>4, HeadTailProperties DEF RoutingSwap, IInv, TypeOK, Pair
  <2>2. SwapEntered(Head(route.swaps))
    BY <1>4 DEF RoutingSwap, SwapEntered, blockVars
  <2> QED
    BY <2>1, <2>2
<1>5. CASE RetraceSwap
  <2>1. todo \in Seq(Pair) /\ todo # <<>>
    BY <1>5 DEF RetraceSwap, IInv, TypeOK, Pair
  <2>2. Len(todo) \in 1 .. Len(todo)
    BY <2>1, EmptySeq, LenProperties
  <2>3. todo[Len(todo)] \in Pair
    BY <2>1, <2>2, ElementOfSeq
  <2>4. SwapEntered(todo[Len(todo)])
    BY <1>5 DEF RetraceSwap, SwapEntered, blockVars, forwardVars
  <2> QED
    BY <2>3, <2>4
<1>6. CASE SortSwap
  <2>1. PICK k \in 1 .. Len(line) - 1 : addRoutingSwap(<<line[k], line[k + 1]>>)
    BY <1>6 DEF SortSwap
  <2>2. line \in Seq(Phys) /\ Len(line) \in Nat
    BY LenProperties DEF IInv, TypeOK
  <2>3. k \in 1 .. Len(line) /\ k + 1 \in 1 .. Len(line)
    BY <2>2
  <2>4. line[k] \in Phys /\ line[k + 1] \in Phys
    BY <2>2, <2>3, ElementOfSeq
  <2>5. <<line[k], line[k + 1]>> \in Pair
    BY <2>4 DEF Pair
  <2>6. SwapEntered(<<line[k], line[k + 1]>>)
    BY <1>6, <2>1 DEF SortSwap, SwapEntered, blockVars, forwardVars
  <2> QED
    BY <2>5, <2>6
<1>7. CASE FindRoute \/ FailToRoute \/ EndPopulate
  BY <1>7 DEF FindRoute, FailToRoute, EndPopulate, tableVars, blockVars, forwardVars, TableKept
<1>8. CASE RetraceScan \/ RetracePass \/ PruneQubit \/ PruneDone \/ BackwardDone
  BY <1>8 DEF RetraceScan, RetracePass, PruneQubit, PruneDone, BackwardDone,
              tableVars, blockVars, forwardVars, TableKept
<1>9. CASE SweepQubit \/ SweepRound \/ ReorderGate \/ ReorderDone \/ ConvertGate \/ FinishQBB
  BY <1>9 DEF SweepQubit, SweepRound, ReorderGate, ReorderDone, ConvertGate, FinishQBB,
              tableVars, blockVars, forwardVars, TableKept
<1>10. CASE UNCHANGED vars
  BY <1>10 DEF vars, tableVars, blockVars, forwardVars, TableKept
<1> QED
  BY <1>1, <1>2, <1>3, <1>4, <1>5, <1>6, <1>7, <1>8, <1>9, <1>10
     DEF Next, Populate, Backward, Rewrite

(* Either of the two ways an entry is made enters a new position on one or *)
(* two qubits, with a duration.                                            *)
Entered(u, v, g, d) ==
  /\ addGateToTable({u, v}, g, d)
  /\ g \notin Positions /\ Positions' = Positions \cup {g}
  /\ gate_index' + Len(routing') = gate_index + Len(routing) + 1

LEMMA GateIsEntered ==
  ASSUME IInv, NEW xs \in Seq(Phys), GateEntered(xs)
  PROVE  \E u, v \in Phys :
           /\ {xs[i] : i \in 1 .. Len(xs)} = {u, v}
           /\ Entered(u, v, gate_index, GateDuration(CurrentGate))
           /\ GateDuration(CurrentGate) \in Nat \ {0}
<1>1. /\ gates \in Programs
      /\ gate_index + 1 \in 1 .. Len(gates)
      /\ gate_index \in Nat
  BY CurrentGateFacts DEF IInv, TypeOK, GateEntered
<1>2. GateDuration(CurrentGate) \in Nat \ {0} /\ (Len(xs) = 1 \/ Len(xs) = 2)
  BY <1>1, AvailableGate DEF CurrentGate, GateEntered
<1>3. PICK u \in Phys, v \in Phys : {xs[i] : i \in 1 .. Len(xs)} = {u, v}
  BY <1>2, SetOfOneOrTwo
<1>4. addGateToTable({u, v}, gate_index, GateDuration(CurrentGate))
  BY <1>3 DEF GateEntered, placeGate
<1>5. Len(routing) \in Nat /\ routing' = routing /\ gate_index' = gate_index + 1
  BY LenProperties DEF IInv, TypeOK, GateEntered, placeGate
<1>6. /\ gate_index \notin Positions /\ Positions' = Positions \cup {gate_index}
      /\ gate_index' + Len(routing') = gate_index + Len(routing) + 1
  BY <1>1, <1>5 DEF Positions
<1> QED
  BY <1>2, <1>3, <1>4, <1>6 DEF Entered

LEMMA SwapIsEntered ==
  ASSUME IInv, NEW s \in Pair, SwapEntered(s)
  PROVE  /\ s[1] \in Phys /\ s[2] \in Phys
         /\ Entered(s[1], s[2], -Len(routing'), SwapDuration)
         /\ SwapDuration \in Nat \ {0}
         /\ Len(routing') = Len(routing) + 1
<1>1. s[1] \in Phys /\ s[2] \in Phys
  BY DEF Pair
<1>2. routing \in Seq(Pair) /\ Len(routing) \in Nat /\ gate_index \in Nat
  BY LenProperties DEF IInv, TypeOK, Pair
<1>3. Len(routing') = Len(routing) + 1 /\ gate_index' = gate_index
  BY <1>2, AppendProperties DEF addRoutingSwap, SwapEntered
<1>4. addGateToTable({s[1], s[2]}, -Len(routing'), SwapDuration) /\ SwapDuration \in Nat \ {0}
  BY PlatformShape DEF addRoutingSwap, SwapEntered
<1>5. /\ -Len(routing') \notin Positions /\ Positions' = Positions \cup {-Len(routing')}
      /\ gate_index' + Len(routing') = gate_index + Len(routing) + 1
  BY <1>2, <1>3 DEF Positions
<1> QED
  BY <1>1, <1>3, <1>4, <1>5 DEF Entered

-----------------------------------------------------------------------------
(* No entry is lost, and a row has at most one idle entry per gate.        *)

InTable(g) == \E x \in Phys : \E i \in 1 .. Len(table_[x]) : table_[x][i].gate = g

InTableNext(g) == \E x \in Phys : \E i \in 1 .. Len(table_'[x]) : table_'[x][i].gate = g

EntriesComplete ==
  pc \notin {"idle", "convert"} =>
    /\ \A g \in Positions : InTable(g)
    /\ \A x \in Phys : Len(table_[x]) <= 2 * (gate_index + Len(routing))

LEMMA EnteredComplete ==
  ASSUME IInv, EntriesComplete, pc \notin {"idle", "convert"},
         NEW u \in Phys, NEW v \in Phys, NEW g \in Int, NEW d \in Nat, Entered(u, v, g, d)
  PROVE  EntriesComplete'
<1>1. table_ \in [Phys -> Seq(Entry)]
  BY DEF IInv, TypeOK, Entry
<1>2. PICK t \in Nat : TableExtends(u, v, t, g, d)
  BY <1>1, AddedExtends DEF Entered
<1>3. table_' \in [Phys -> Seq(Entry)]
  BY <1>1, AddedExtends DEF Entered
<1>4. /\ \A x \in Phys : Len(table_[x]) \in Nat /\ Len(table_'[x]) \in Nat
      /\ gate_index \in Nat /\ Len(routing) \in Nat
  BY <1>1, <1>3, LenProperties DEF IInv, TypeOK
<1>5. ASSUME NEW x \in Phys
      PROVE  /\ Len(table_'[x]) <= Len(table_[x]) + 2
             /\ Len(table_[x]) <= Len(table_'[x])
             /\ \A i \in 1 .. Len(table_[x]) : table_'[x][i] = table_[x][i]
  <2>1. Len(table_[x]) \in Nat /\ Len(table_'[x]) \in Nat
    BY <1>4
  <2>2. CASE RowExtends(table_[x], table_'[x], t, g, d)
    BY <2>1, <2>2 DEF RowExtends
  <2>3. CASE table_'[x] = table_[x]
    BY <2>1, <2>3
  <2> QED
    BY <1>2, <2>2, <2>3 DEF TableExtends
<1>6. ASSUME NEW h \in Positions, InTable(h)
      PROVE  InTableNext(h)
  <2>1. PICK x \in Phys : \E i \in 1 .. Len(table_[x]) : table_[x][i].gate = h
    BY <1>6 DEF InTable
  <2> PICK i \in 1 .. Len(table_[x]) : table_[x][i].gate = h
    BY <2>1
  <2>2. i \in 1 .. Len(table_'[x]) /\ table_'[x][i].gate = h
    BY <1>4, <1>5, <2>1
  <2> QED
    BY <2>2 DEF InTableNext
<1>7. InTableNext(g)
  <2>1. RowExtends(table_[u], table_'[u], t, g, d)
    BY <1>2 DEF TableExtends
  <2>2. Len(table_'[u]) \in 1 .. Len(table_'[u]) /\ table_'[u][Len(table_'[u])].gate = g
    BY <1>4, <2>1 DEF RowExtends
  <2> QED
    BY <2>2 DEF InTableNext
<1>8. \A h \in Positions' : InTableNext(h)
  BY <1>6, <1>7 DEF Entered, EntriesComplete
<1>9. ASSUME NEW x \in Phys
      PROVE  Len(table_'[x]) <= 2 * (gate_index' + Len(routing'))
  <2>1. Len(table_[x]) <= 2 * (gate_index + Len(routing))
    BY DEF EntriesComplete
  <2>2. gate_index' + Len(routing') = gate_index + Len(routing) + 1
    BY DEF Entered
  <2>3. Len(table_'[x]) <= Len(table_[x]) + 2
    BY <1>5
  <2> QED
    BY <1>4, <2>1, <2>2, <2>3
<1> QED
  BY <1>8, <1>9 DEF EntriesComplete, InTable, InTableNext

LEMMA NextComplete == IInv /\ EntriesComplete /\ [Next]_vars => EntriesComplete'
<1> SUFFICES ASSUME IInv, EntriesComplete, [Next]_vars
             PROVE  EntriesComplete'
  OBVIOUS
<1>1. CASE StartQBB
  <2>1. /\ pc = "idle" /\ pc' = "populate" /\ gate_index' = 0
        /\ table_' = [x \in Phys |-> <<>>] /\ routing' = <<>>
    BY <1>1 DEF StartQBB, IInv, Bookkeeping
  <2>2. Positions' = {} /\ Len(routing') = 0
    BY <2>1 DEF Positions
  <2>3. \A x \in Phys : Len(table_'[x]) = 0
    BY <2>1
  <2> QED
    BY <2>1, <2>2, <2>3 DEF EntriesComplete
<1>2. ASSUME NEW xs \in Seq(Phys), GateEntered(xs)
      PROVE  EntriesComplete'
  <2>1. PICK u \in Phys, v \in Phys :
           /\ Entered(u, v, gate_index, GateDuration(CurrentGate))
           /\ GateDuration(CurrentGate) \in Nat \ {0}
    BY <1>2, GateIsEntered
  <2>2. gate_index \in Int /\ pc \notin {"idle", "convert"}
    <3>1. gate_index \in Nat
      BY DEF IInv, TypeOK
    <3> QED
      BY <1>2, <3>1 DEF GateEntered
  <2>3. GateDuration(CurrentGate) \in Nat
    BY <2>1
  <2> QED
    BY <2>1, <2>2, <2>3, EnteredComplete
<1>3. ASSUME NEW s \in Pair, SwapEntered(s)
      PROVE  EntriesComplete'
  <2>1. /\ s[1] \in Phys /\ s[2] \in Phys
        /\ Entered(s[1], s[2], -Len(routing'), SwapDuration)
        /\ SwapDuration \in Nat /\ Len(routing') = Len(routing) + 1
    BY <1>3, SwapIsEntered
  <2>2. Len(routing) \in Nat
    BY LenProperties DEF IInv, TypeOK
  <2>3. -Len(routing') \in Int /\ pc \notin {"idle", "convert"}
    BY <1>3, <2>1, <2>2 DEF SwapEntered
  <2> QED
    BY <2>1, <2>3, EnteredComplete
<1>4. CASE TableKept
  BY <1>4 DEF TableKept, EntriesComplete, InTable, Positions
<1> QED
  BY <1>1, <1>2, <1>3, <1>4, TableSteps

-----------------------------------------------------------------------------
(* The sweep, for a table T, the locals w of the loop and the sequence s.  *)

SweepState == [time : Nat, iq : 0 .. NumPhys, counter : Nat, min : Nat, Idxs : [Phys -> Nat]]

Waits(T, w, x) == w.Idxs[x] < Len(T[x])

(* The time at which the next entry of a row is due.                       *)
Due(T, w, x) == StartIn(T[x], w.Idxs[x] + 1)

(* A row has passed the entries that started, and none that starts later;  *)
(* the rows already looked at in this round are not due before min.        *)
RowSwept(T, w, x) ==
  /\ w.Idxs[x] <= Len(T[x])
  /\ \A i \in 1 .. w.Idxs[x] : StartIn(T[x], i) <= w.time
  /\ Waits(T, w, x) => /\ w.time <= Due(T, w, x)
                       /\ x < w.iq => w.min <= Due(T, w, x)

(* A round in which no row has moved yet has one left that will, unless    *)
(* all are at their end; and time jumps no further than to the next entry. *)
NextRow(T, w) ==
  /\ w.counter = 0 => \/ \A x \in Phys : ~Waits(T, w, x)
                      \/ \E y \in Phys : y >= w.iq /\ Waits(T, w, y) /\ Due(T, w, y) <= w.time
  /\ w.min = MaxTime \/ \E y \in Phys : y < w.iq /\ Waits(T, w, y) /\ Due(T, w, y) = w.min

Passed(T, w, g) == \E x \in Phys : \E i \in 1 .. w.Idxs[x] : T[x][i].gate = g

InSeq(s, g) == \E k \in 1 .. Len(s) : s[k] = g

(* The sequence has the gates of the entries passed,                       *)
Collected(T, w, s) ==
  /\ \A x \in Phys : \A i \in 1 .. w.Idxs[x] : T[x][i].gate # IsIdle => InSeq(s, T[x][i].gate)
  /\ \A k \in 1 .. Len(s) : s[k] # IsIdle /\ Passed(T, w, s[k])

(* each once, in the order they start.                                     *)
StartsBefore(T, g, h) ==
  \A x, y \in Phys : \A i \in 1 .. Len(T[x]) : \A j \in 1 .. Len(T[y]) :
    T[x][i].gate = g /\ T[y][j].gate = h => StartIn(T[x], i) <= StartIn(T[y], j)

InOrder(T, s) ==
  \A j \in 1 .. Len(s) : \A i \in 1 .. j - 1 : s[i] # s[j] /\ StartsBefore(T, s[i], s[j])

Swept(T, w, s) ==
  /\ w.time <= w.min /\ w.min <= MaxTime
  /\ \A x \in Phys : RowSwept(T, w, x)
  /\ NextRow(T, w)
  /\ Collected(T, w, s)
  /\ InOrder(T, s)

(* Times are those of the code's int.                                      *)
TimesFit(T) == \A x \in Phys : \A i \in 1 .. Len(T[x]) : T[x][i].end <= MaxTime

LEMMA EndIsNat ==
  ASSUME NEW row \in Seq(Entry), NEW i \in 1 .. Len(row)
  PROVE  row[i].end \in Nat
<1>1. row[i] \in Entry
  BY ElementOfSeq
<1> QED
  BY <1>1 DEF Entry

LEMMA GateIsInt ==
  ASSUME NEW row \in Seq(Entry), NEW i \in 1 .. Len(row)
  PROVE  row[i].gate \in Int
<1>1. row[i] \in Entry
  BY ElementOfSeq
<1> QED
  BY <1>1 DEF Entry

LEMMA StartAfter ==
  ASSUME NEW row, NEW i \in Nat, i > 0
  PROVE  StartIn(row, i + 1) = row[i].end
<1>1. i + 1 # 1 /\ i + 1 - 1 = i
  OBVIOUS
<1> QED
  BY <1>1 DEF StartIn

LEMMA StartIsNat ==
  ASSUME NEW row \in Seq(Entry), NEW i \in 1 .. Len(row) + 1
  PROVE  StartIn(row, i) \in Nat
<1>1. Len(row) \in Nat
  BY LenProperties
<1>2. CASE i = 1
  BY <1>2 DEF StartIn
<1>3. CASE i # 1
  <2>1. i - 1 \in 1 .. Len(row)
    BY <1>1, <1>3
  <2>2. row[i - 1] \in Entry
    BY <2>1, ElementOfSeq
  <2> QED
    BY <1>3, <2>2 DEF StartIn, Entry
<1> QED
  BY <1>2, <1>3

(* The sweep begins before the first entry of every row.                   *)
LEMMA SweepBegins ==
  ASSUME NEW T \in [Phys -> Seq(Entry)]
  PROVE  Swept(T, NoSweep, <<>>)
<1>1. /\ NoSweep.time = 0 /\ NoSweep.min = MaxTime /\ NoSweep.iq = 0 /\ NoSweep.counter = 0
      /\ \A x \in Phys : NoSweep.Idxs[x] = 0
  BY DEF NoSweep
<1>2. MaxTime \in Nat /\ \A x \in Phys : x \in Nat /\ x >= 0
  BY PlatformShape DEF MaxTime, Phys
<1>3. \A x \in Phys : Len(T[x]) \in Nat
  BY LenProperties
<1>4. \A x \in Phys : Due(T, NoSweep, x) = 0
  BY <1>1 DEF Due, StartIn
<1>5. \A x \in Phys : RowSwept(T, NoSweep, x)
  BY <1>1, <1>2, <1>3, <1>4 DEF RowSwept
<1>6. NextRow(T, NoSweep)
  BY <1>1, <1>2, <1>4 DEF NextRow
<1>7. Collected(T, NoSweep, <<>>) /\ InOrder(T, <<>>)
  BY <1>1 DEF Collected, InOrder
<1> QED
  BY <1>1, <1>2, <1>5, <1>6, <1>7 DEF Swept

(* The step of one row.                                                    *)
MovesOn(T, w) ==
  LET x == w.iq IN w.Idxs[x] < Len(T[x]) /\ (w.Idxs[x] > 0 => T[x][w.Idxs[x]].end <= w.time)

RowStep(T, w, v) ==
  LET x    == w.iq
      next == IF MovesOn(T, w) THEN w.Idxs[x] + 1 ELSE w.Idxs[x]
  IN  /\ v.time = w.time /\ v.iq = w.iq + 1
      /\ v.Idxs = [w.Idxs EXCEPT ![x] = next]
      /\ v.counter = IF MovesOn(T, w) THEN w.counter + 1 ELSE w.counter
      /\ v.min = IF next < Len(T[x]) /\ T[x][next].end < w.min THEN T[x][next].end ELSE w.min

SequenceStep(T, w, s, r) ==
  LET g == T[w.iq][w.Idxs[w.iq] + 1].gate
  IN  r = IF MovesOn(T, w) /\ g # IsIdle /\ ~InSeq(s, g) THEN Append(s, g) ELSE s

(* What the row being looked at is due for, before and after.              *)
LEMMA RowDue ==
  ASSUME NEW T \in [Phys -> Seq(Entry)], AreASchedule(T),
         NEW w \in SweepState, NEW v \in SweepState, w.iq \in Phys,
         RowSwept(T, w, w.iq), RowStep(T, w, v)
  PROVE  /\ Waits(T, w, w.iq) => (MovesOn(T, w) <=> Due(T, w, w.iq) <= w.time)
         /\ MovesOn(T, w) => Due(T, w, w.iq) = w.time
         /\ v.Idxs[w.iq] <= Len(T[w.iq])
         /\ Waits(T, v, w.iq) => /\ Due(T, v, w.iq) = T[w.iq][v.Idxs[w.iq]].end
                                 /\ v.Idxs[w.iq] \in 1 .. Len(T[w.iq])
                                 /\ w.time <= Due(T, v, w.iq)
<1> DEFINE x == w.iq
           n == Len(T[x])
           i == w.Idxs[x]
<1>1. n \in Nat /\ i \in Nat /\ i <= n /\ w.time \in Nat
  BY LenProperties DEF SweepState, RowSwept
<1>2. v.Idxs[x] = IF MovesOn(T, w) THEN i + 1 ELSE i
  BY DEF RowStep, SweepState
<1>3. \A k \in 1 .. n : T[x][k].end \in Nat
  BY EndIsNat
<1>4. \A k \in 1 .. n : StartIn(T[x], k) < T[x][k].end
  BY DEF AreASchedule, EntriesAgree
<1>5. Due(T, w, x) = IF i = 0 THEN 0 ELSE T[x][i].end
  BY <1>1 DEF Due, StartIn
<1>6. MovesOn(T, w) <=> i < n /\ (i > 0 => T[x][i].end <= w.time)
  BY DEF MovesOn
<1>7. i < n => w.time <= Due(T, w, x)
  BY DEF RowSwept, Waits
<1>8. ASSUME v.Idxs[x] > 0
      PROVE  Due(T, v, x) = T[x][v.Idxs[x]].end
  <2>1. v.Idxs[x] \in Nat
    BY <1>1, <1>2
  <2> QED
    BY <1>8, <2>1, StartAfter DEF Due
<1>9. MovesOn(T, w) => Due(T, w, x) < T[x][i + 1].end
  <2>1. MovesOn(T, w) => i + 1 \in 1 .. n
    BY <1>1, <1>6
  <2> QED
    BY <1>4, <2>1 DEF Due
<1> HIDE DEF x, n, i
<1>10. /\ i < n => (MovesOn(T, w) <=> Due(T, w, x) <= w.time)
       /\ MovesOn(T, w) => Due(T, w, x) = w.time
  <2>1. Due(T, w, x) \in Nat
    BY <1>1, <1>3, <1>5
  <2> QED
    BY <1>1, <1>3, <1>5, <1>6, <1>7, <2>1
<1>11. v.Idxs[x] <= n
  BY <1>1, <1>2, <1>6
<1>12. ASSUME v.Idxs[x] < n
       PROVE  v.Idxs[x] \in 1 .. n /\ w.time <= T[x][v.Idxs[x]].end
  <2>1. CASE MovesOn(T, w)
    <3>1. v.Idxs[x] = i + 1 /\ i + 1 \in 1 .. n
      BY <1>1, <1>2, <1>6, <2>1
    <3>2. T[x][i + 1].end \in Nat /\ w.time < T[x][i + 1].end
      BY <1>1, <1>3, <1>9, <1>10, <2>1, <3>1
    <3> QED
      BY <1>1, <3>1, <3>2
  <2>2. CASE ~MovesOn(T, w)
    <3>1. v.Idxs[x] = i /\ i \in 1 .. n /\ ~(T[x][i].end <= w.time)
      BY <1>1, <1>2, <1>6, <1>12, <2>2
    <3> QED
      BY <1>1, <1>3, <3>1
  <2> QED
    BY <2>1, <2>2
<1>13. Waits(T, v, x) => /\ Due(T, v, x) = T[x][v.Idxs[x]].end
                         /\ v.Idxs[x] \in 1 .. n
                         /\ w.time <= Due(T, v, x)
  <2>1. Waits(T, v, x) => v.Idxs[x] < n
    BY DEF Waits, n
  <2>2. v.Idxs[x] \in 1 .. n => v.Idxs[x] > 0
    BY <1>1
  <2> QED
    BY <1>8, <1>12, <2>1, <2>2
<1> QED
  BY <1>10, <1>11, <1>13 DEF Waits, x, n, i

LEMMA RowStepRows ==
  ASSUME NEW T \in [Phys -> Seq(Entry)], AreASchedule(T),
         NEW w \in SweepState, NEW v \in SweepState, w.iq \in Phys,
         \A x \in Phys : RowSwept(T, w, x), w.time <= w.min, w.min <= MaxTime, RowStep(T, w, v)
  PROVE  /\ \A x \in Phys : RowSwept(T, v, x)
         /\ v.time <= v.min /\ v.min <= w.min
         /\ v.min = w.min \/ (Waits(T, v, w.iq) /\ Due(T, v, w.iq) = v.min)
<1> DEFINE z == w.iq
<1>1. /\ v.time = w.time /\ v.iq = z + 1
      /\ \A x \in Phys : x # z => v.Idxs[x] = w.Idxs[x]
      /\ z \in Int /\ \A x \in Phys : x \in Int
      /\ w.time \in Nat /\ w.min \in Nat /\ v.min \in Nat /\ \A x \in Phys : w.Idxs[x] \in Nat
      /\ v.Idxs[z] \in Nat /\ \A x \in Phys : Len(T[x]) \in Nat
  <2>1. /\ v.time = w.time /\ v.iq = z + 1
        /\ \A x \in Phys : x # z => v.Idxs[x] = w.Idxs[x]
    BY DEF RowStep, SweepState
  <2>2. z \in Int /\ \A x \in Phys : x \in Int
    BY PlatformShape DEF Phys
  <2>3. /\ w.time \in Nat /\ w.min \in Nat /\ v.min \in Nat /\ v.Idxs[z] \in Nat
        /\ \A x \in Phys : w.Idxs[x] \in Nat
    BY DEF SweepState
  <2>4. \A x \in Phys : Len(T[x]) \in Nat
    BY LenProperties
  <2> QED
    BY <2>1, <2>2, <2>3, <2>4
<1>2. v.Idxs[z] = IF MovesOn(T, w) THEN w.Idxs[z] + 1 ELSE w.Idxs[z]
  BY DEF RowStep, SweepState
<1>3. v.min = IF v.Idxs[z] < Len(T[z]) /\ T[z][v.Idxs[z]].end < w.min
              THEN T[z][v.Idxs[z]].end ELSE w.min
  BY <1>2 DEF RowStep
<1>4. /\ MovesOn(T, w) => Due(T, w, z) = w.time
      /\ v.Idxs[z] <= Len(T[z])
      /\ Waits(T, v, z) => /\ Due(T, v, z) = T[z][v.Idxs[z]].end
                           /\ v.Idxs[z] \in 1 .. Len(T[z])
                           /\ w.time <= Due(T, v, z)
  BY RowDue
<1>5. Waits(T, v, z) => T[z][v.Idxs[z]].end \in Nat
  BY <1>4, EndIsNat
<1> HIDE DEF z
<1>a. v.min = IF Waits(T, v, z) /\ Due(T, v, z) < w.min THEN Due(T, v, z) ELSE w.min
  BY <1>3, <1>4 DEF Waits
<1>b. Waits(T, v, z) => Due(T, v, z) \in Nat
  BY <1>4, <1>5
<1>6. v.time <= v.min /\ v.min <= w.min /\ (Waits(T, v, z) => v.min <= Due(T, v, z))
  BY <1>1, <1>4, <1>a, <1>b
<1>7. v.min = w.min \/ (Waits(T, v, z) /\ Due(T, v, z) = v.min)
  BY <1>a
<1>8. ASSUME NEW x \in Phys, x # z
      PROVE  RowSwept(T, v, x)
  <2>1. /\ v.Idxs[x] = w.Idxs[x] /\ (x < v.iq => x < w.iq)
    BY <1>1, <1>8 DEF z
  <2>2. (Waits(T, v, x) <=> Waits(T, w, x)) /\ Due(T, v, x) = Due(T, w, x)
    BY <2>1 DEF Waits, Due
  <2>3. Waits(T, w, x) => Due(T, w, x) \in Nat
    <3>1. Waits(T, w, x) => w.Idxs[x] + 1 \in 1 .. Len(T[x]) + 1
      BY <1>1 DEF Waits
    <3> QED
      BY <3>1, StartIsNat DEF Due
  <2> QED
    BY <1>1, <1>6, <2>1, <2>2, <2>3 DEF RowSwept
<1>9. RowSwept(T, v, z)
  <2>1. RowSwept(T, w, z)
    BY DEF z
  <2>2. ASSUME NEW i \in 1 .. v.Idxs[z]
        PROVE  StartIn(T[z], i) <= v.time
    <3>1. CASE i \in 1 .. w.Idxs[z]
      BY <1>1, <2>1, <3>1 DEF RowSwept
    <3>2. CASE MovesOn(T, w) /\ i = w.Idxs[z] + 1
      BY <1>1, <1>4, <3>2 DEF Due, z
    <3>3. z \in Phys
      BY DEF z
    <3> QED
      BY <1>1, <1>2, <3>1, <3>2, <3>3
  <2>3. Waits(T, v, z) => v.time <= Due(T, v, z)
    BY <1>1, <1>4
  <2> QED
    BY <1>4, <1>6, <2>2, <2>3 DEF RowSwept
<1> QED
  BY <1>6, <1>7, <1>8, <1>9 DEF z

LEMMA RowStepNext ==
  ASSUME NEW T \in [Phys -> Seq(Entry)], AreASchedule(T),
         NEW w \in SweepState, NEW v \in SweepState, w.iq \in Phys,
         \A x \in Phys : RowSwept(T, w, x), NextRow(T, w), RowStep(T, w, v),
         v.min = w.min \/ (Waits(T, v, w.iq) /\ Due(T, v, w.iq) = v.min)
  PROVE  NextRow(T, v)
<1> DEFINE z == w.iq
<1>1. /\ v.time = w.time /\ v.iq = z + 1
      /\ \A x \in Phys : x # z => v.Idxs[x] = w.Idxs[x]
      /\ z \in Int /\ \A x \in Phys : x \in Int
      /\ w.counter \in Nat
  BY PlatformShape DEF RowStep, SweepState, Phys
<1>2. Waits(T, w, z) => (MovesOn(T, w) <=> Due(T, w, z) <= w.time)
  BY RowDue
<1>3. \A x \in Phys : x # z => /\ Waits(T, v, x) <=> Waits(T, w, x)
                               /\ Due(T, v, x) = Due(T, w, x)
  BY <1>1 DEF Waits, Due
<1>4. ASSUME v.counter = 0
      PROVE  \/ \A x \in Phys : ~Waits(T, v, x)
             \/ \E y \in Phys : y >= v.iq /\ Waits(T, v, y) /\ Due(T, v, y) <= v.time
  <2>1. ~MovesOn(T, w) /\ w.counter = 0 /\ v.Idxs[z] = w.Idxs[z]
    BY <1>1, <1>4 DEF RowStep, SweepState
  <2>2. \A x \in Phys : /\ Waits(T, v, x) <=> Waits(T, w, x)
                        /\ Due(T, v, x) = Due(T, w, x)
    BY <1>3, <2>1 DEF Waits, Due
  <2>3. CASE \A x \in Phys : ~Waits(T, w, x)
    BY <2>2, <2>3
  <2>4. CASE \E y \in Phys : y >= w.iq /\ Waits(T, w, y) /\ Due(T, w, y) <= w.time
    <3>1. PICK y \in Phys : y >= z /\ Waits(T, w, y) /\ Due(T, w, y) <= w.time
      BY <2>4
    <3>2. y # z
      BY <1>2, <2>1, <3>1
    <3>3. y >= v.iq
      BY <1>1, <3>1, <3>2
    <3> QED
      BY <1>1, <2>2, <3>1, <3>3
  <2> QED
    BY <2>1, <2>3, <2>4 DEF NextRow
<1>5. v.min = MaxTime \/ \E y \in Phys : y < v.iq /\ Waits(T, v, y) /\ Due(T, v, y) = v.min
  <2>1. CASE Waits(T, v, z) /\ Due(T, v, z) = v.min
    BY <1>1, <2>1
  <2>2. CASE v.min = w.min
    <3>1. CASE w.min = MaxTime
      BY <2>2, <3>1
    <3>2. ASSUME NEW y \in Phys, y < z, Waits(T, w, y), Due(T, w, y) = w.min
          PROVE  y < v.iq /\ Waits(T, v, y) /\ Due(T, v, y) = v.min
      BY <1>1, <1>3, <2>2, <3>2
    <3> QED
      BY <3>1, <3>2 DEF NextRow
  <2> QED
    BY <2>1, <2>2
<1> QED
  BY <1>4, <1>5 DEF NextRow

LEMMA RowStepCollects ==
  ASSUME NEW T \in [Phys -> Seq(Entry)],
         NEW w \in SweepState, NEW v \in SweepState, w.iq \in Phys, RowStep(T, w, v),
         NEW s \in Seq(Int), NEW r \in Seq(Int), Collected(T, w, s), SequenceStep(T, w, s, r)
  PROVE  Collected(T, v, r)
<1> DEFINE z == w.iq
           n == w.Idxs[z]
           g == T[z][n + 1].gate
<1>1. /\ \A x \in Phys : x # z => v.Idxs[x] = w.Idxs[x]
      /\ v.Idxs[z] = IF MovesOn(T, w) THEN n + 1 ELSE n
      /\ \A x \in Phys : w.Idxs[x] \in Nat
  BY DEF RowStep, SweepState
<1>2. MovesOn(T, w) => n + 1 \in 1 .. Len(T[z])
  BY <1>1, LenProperties DEF MovesOn
<1>3. g \in Int \/ ~MovesOn(T, w)
  BY <1>2, GateIsInt
<1>a. \A x \in Phys : /\ \A i \in 1 .. w.Idxs[x] : i \in 1 .. v.Idxs[x]
                      /\ \A i \in 1 .. v.Idxs[x] :
                           i \in 1 .. w.Idxs[x] \/ (x = z /\ MovesOn(T, w) /\ i = n + 1)
  <2> TAKE x \in Phys
  <2>1. CASE x = z
    <3>1. n \in Nat /\ n = w.Idxs[x] /\ (v.Idxs[x] = n \/ (MovesOn(T, w) /\ v.Idxs[x] = n + 1))
      BY <1>1, <2>1
    <3> HIDE DEF n
    <3> QED
      BY <2>1, <3>1
  <2>2. CASE x # z
    BY <1>1, <2>2
  <2> QED
    BY <2>1, <2>2
<1>4. \A h : Passed(T, w, h) => Passed(T, v, h)
  BY <1>a DEF Passed
<1>5. MovesOn(T, w) => Passed(T, v, g)
  <2>1. MovesOn(T, w) => n + 1 \in 1 .. v.Idxs[z]
    BY <1>1
  <2> QED
    BY <2>1 DEF Passed
<1>6. r = s \/ (MovesOn(T, w) /\ g # IsIdle /\ g \in Int /\ r = Append(s, g))
  BY <1>3 DEF SequenceStep
<1>7. MovesOn(T, w) /\ g # IsIdle /\ ~InSeq(s, g) => r = Append(s, g)
  BY DEF SequenceStep
<1> HIDE DEF g, n, z
<1>8. Len(s) \in Nat
  BY LenProperties
<1>9. ASSUME NEW h \in Int, r = Append(s, h)
      PROVE  /\ Len(r) = Len(s) + 1 /\ r[Len(s) + 1] = h
             /\ \A k \in 1 .. Len(s) : r[k] = s[k]
  BY <1>9, AppendProperties
<1>10. ASSUME NEW h, InSeq(s, h)
       PROVE  InSeq(r, h)
  <2>1. CASE r = s
    BY <1>10, <2>1
  <2>2. CASE g \in Int /\ r = Append(s, g)
    <3>1. PICK k \in 1 .. Len(s) : s[k] = h
      BY <1>10 DEF InSeq
    <3>2. k \in 1 .. Len(r) /\ r[k] = h
      BY <1>8, <1>9, <2>2, <3>1
    <3> QED
      BY <3>2 DEF InSeq
  <2> QED
    BY <1>6, <2>1, <2>2
<1>11. MovesOn(T, w) /\ g # IsIdle => InSeq(r, g)
  <2>1. CASE InSeq(s, g)
    BY <1>10, <2>1
  <2>2. CASE MovesOn(T, w) /\ g # IsIdle /\ ~InSeq(s, g)
    <3>1. r = Append(s, g) /\ g \in Int
      BY <1>3, <1>7, <2>2
    <3>2. Len(s) + 1 \in 1 .. Len(r) /\ r[Len(s) + 1] = g
      BY <1>8, <1>9, <3>1
    <3> QED
      BY <3>2 DEF InSeq
  <2> QED
    BY <2>1, <2>2
<1>12. ASSUME NEW x \in Phys, NEW i \in 1 .. v.Idxs[x], T[x][i].gate # IsIdle
       PROVE  InSeq(r, T[x][i].gate)
  <2>1. CASE i \in 1 .. w.Idxs[x]
    BY <1>10, <1>12, <2>1 DEF Collected
  <2>2. CASE x = z /\ MovesOn(T, w) /\ i = n + 1
    <3>1. T[x][i].gate = g
      BY <2>2 DEF g
    <3> QED
      BY <1>11, <1>12, <2>2, <3>1
  <2>3. i \in 1 .. w.Idxs[x] \/ (x = z /\ MovesOn(T, w) /\ i = n + 1)
    BY <1>a
  <2> QED
    BY <2>1, <2>2, <2>3
<1>13. ASSUME NEW k \in 1 .. Len(r)
       PROVE  r[k] # IsIdle /\ Passed(T, v, r[k])
  <2>1. CASE k \in 1 .. Len(s) /\ r[k] = s[k]
    BY <1>4, <2>1 DEF Collected
  <2>2. CASE MovesOn(T, w) /\ g # IsIdle /\ r[k] = g
    BY <1>5, <2>2
  <2>3. ASSUME MovesOn(T, w), g # IsIdle, g \in Int, r = Append(s, g)
        PROVE  (k \in 1 .. Len(s) /\ r[k] = s[k]) \/ r[k] = g
    BY <1>8, <1>9, <2>3
  <2> QED
    BY <1>6, <2>1, <2>2, <2>3
<1> QED
  BY <1>12, <1>13 DEF Collected

LEMMA RowStepOrders ==
  ASSUME NEW T \in [Phys -> Seq(Entry)], AreASchedule(T),
         NEW w \in SweepState, w.iq \in Phys,
         \A x \in Phys : RowSwept(T, w, x),
         MovesOn(T, w) => Due(T, w, w.iq) = w.time,
         NEW s \in Seq(Int), NEW r \in Seq(Int), Collected(T, w, s), InOrder(T, s),
         SequenceStep(T, w, s, r)
  PROVE  InOrder(T, r)
<1> DEFINE z == w.iq
           n == w.Idxs[z]
           g == T[z][n + 1].gate
<1>1. CASE r = s
  BY <1>1
<1>2. CASE MovesOn(T, w) /\ g # IsIdle /\ ~InSeq(s, g) /\ r = Append(s, g)
  <2>1. n + 1 \in 1 .. Len(T[z]) /\ \A x \in Phys : w.Idxs[x] \in Nat /\ Len(T[x]) \in Nat
    <3>1. \A x \in Phys : w.Idxs[x] \in Nat /\ Len(T[x]) \in Nat
      BY LenProperties DEF SweepState
    <3>2. n < Len(T[z])
      BY <1>2 DEF MovesOn
    <3> QED
      BY <3>1, <3>2
  <2>2. g \in Int
    BY <2>1, GateIsInt
  <2>3. StartIn(T[z], n + 1) = w.time
    BY <1>2 DEF Due
  <2>a. Len(s) \in Nat
    BY LenProperties
  <2>b. n + 1 \in 1 .. Len(T[z]) /\ z \in Phys /\ T[z][n + 1].gate = g
    BY <2>1
  <2> HIDE DEF g, n, z
  <2>4. /\ Len(r) = Len(s) + 1 /\ r[Len(s) + 1] = g
        /\ \A k \in 1 .. Len(s) : r[k] = s[k]
    BY <1>2, <2>2, AppendProperties
  <2>5. ASSUME NEW k \in 1 .. Len(s)
        PROVE  s[k] # g /\ StartsBefore(T, s[k], g)
    <3>1. s[k] # g
      BY <1>2 DEF InSeq
    <3>2. s[k] # IsIdle /\ Passed(T, w, s[k])
      BY DEF Collected
    <3>3. PICK x \in Phys : \E i \in 1 .. w.Idxs[x] : T[x][i].gate = s[k]
      BY <3>2 DEF Passed
    <3>4. PICK i \in 1 .. w.Idxs[x] : T[x][i].gate = s[k]
      BY <3>3
    <3>5. i \in 1 .. Len(T[x]) /\ StartIn(T[x], i) <= w.time
      BY <2>1 DEF RowSwept
    <3>6. ASSUME NEW x1 \in Phys, NEW y1 \in Phys,
                 NEW i1 \in 1 .. Len(T[x1]), NEW j1 \in 1 .. Len(T[y1]),
                 T[x1][i1].gate = s[k], T[y1][j1].gate = g
          PROVE  StartIn(T[x1], i1) <= StartIn(T[y1], j1)
      <4>1. EntriesAgree(T, x1, x, i1, i) /\ EntriesAgree(T, y1, z, j1, n + 1)
        BY <2>b, <3>5 DEF AreASchedule
      <4>2. StartIn(T[x1], i1) = StartIn(T[x], i)
        BY <3>2, <3>4, <3>6, <4>1 DEF EntriesAgree
      <4>3. StartIn(T[y1], j1) = StartIn(T[z], n + 1)
        BY <1>2, <2>b, <3>6, <4>1 DEF EntriesAgree
      <4> QED
        BY <2>3, <3>5, <4>2, <4>3
    <3> QED
      BY <3>1, <3>6 DEF StartsBefore
  <2>6. ASSUME NEW j \in 1 .. Len(r), NEW i \in 1 .. j - 1
        PROVE  r[i] # r[j] /\ StartsBefore(T, r[i], r[j])
    <3>1. CASE j \in 1 .. Len(s)
      <4>0. i \in 1 .. Len(s)
        BY <2>a, <3>1
      <4>1. i \in 1 .. Len(s) /\ r[i] = s[i] /\ r[j] = s[j]
        BY <2>4, <3>1, <4>0
      <4> QED
        BY <3>1, <4>1 DEF InOrder
    <3>2. CASE j = Len(s) + 1
      <4>0. i \in 1 .. Len(s)
        BY <2>a, <3>2
      <4>1. i \in 1 .. Len(s) /\ r[i] = s[i] /\ r[j] = g
        BY <2>4, <3>2, <4>0
      <4> QED
        BY <2>5, <4>1
    <3> QED
      BY <2>a, <2>4, <3>1, <3>2
  <2> QED
    BY <2>6 DEF InOrder
<1> QED
  BY <1>1, <1>2 DEF SequenceStep

(* A round goes on with the next row,                                      *)
LEMMA SweptByRow ==
  ASSUME NEW T \in [Phys -> Seq(Entry)], AreASchedule(T),
         NEW w \in SweepState, NEW v \in SweepState, w.iq \in Phys, RowStep(T, w, v),
         NEW s \in Seq(Int), NEW r \in Seq(Int), SequenceStep(T, w, s, r), Swept(T, w, s)
  PROVE  Swept(T, v, r)
<1>1. /\ w.time <= w.min /\ w.min <= MaxTime
      /\ \A x \in Phys : RowSwept(T, w, x)
      /\ NextRow(T, w) /\ Collected(T, w, s) /\ InOrder(T, s)
  BY DEF Swept
<1>2. /\ \A x \in Phys : RowSwept(T, v, x)
      /\ v.time <= v.min /\ v.min <= w.min
      /\ v.min = w.min \/ (Waits(T, v, w.iq) /\ Due(T, v, w.iq) = v.min)
  BY <1>1, RowStepRows
<1>3. NextRow(T, v)
  BY <1>1, <1>2, RowStepNext
<1>4. Collected(T, v, r)
  BY <1>1, RowStepCollects
<1>5. MovesOn(T, w) => Due(T, w, w.iq) = w.time
  BY <1>1, RowDue
<1>6. InOrder(T, r)
  BY <1>1, <1>5, RowStepOrders
<1>7. v.min <= MaxTime
  BY <1>1, <1>2 DEF SweepState, MaxTime
<1> QED
  BY <1>2, <1>3, <1>4, <1>6, <1>7 DEF Swept

(* or ends, and time jumps,                                                *)
LEMMA SweptByRound ==
  ASSUME NEW T \in [Phys -> Seq(Entry)], TimesFit(T),
         NEW w \in SweepState, w.iq = NumPhys, NEW s, Swept(T, w, s)
  PROVE  Swept(T, [w EXCEPT !.time = w.min, !.iq = 0, !.counter = 0, !.min = MaxTime], s)
<1> DEFINE v == [w EXCEPT !.time = w.min, !.iq = 0, !.counter = 0, !.min = MaxTime]
<1>1. v.time = w.min /\ v.iq = 0 /\ v.counter = 0 /\ v.min = MaxTime /\ v.Idxs = w.Idxs
  BY DEF SweepState
<1> HIDE DEF v
<1>2. /\ w.time \in Nat /\ w.min \in Nat /\ MaxTime \in Nat
      /\ \A x \in Phys : x \in Nat /\ x < NumPhys /\ x >= 0
  BY PlatformShape DEF SweepState, Phys, MaxTime
<1>3. /\ w.time <= w.min /\ w.min <= MaxTime
      /\ \A x \in Phys : RowSwept(T, w, x)
      /\ NextRow(T, w) /\ Collected(T, w, s) /\ InOrder(T, s)
  BY DEF Swept
<1>4. /\ \A x \in Phys : (Waits(T, v, x) <=> Waits(T, w, x)) /\ Due(T, v, x) = Due(T, w, x)
      /\ \A g : Passed(T, v, g) <=> Passed(T, w, g)
  BY <1>1 DEF Waits, Due, Passed
<1>5. ASSUME NEW x \in Phys
      PROVE  /\ \A i \in 1 .. w.Idxs[x] : StartIn(T[x], i) \in Nat
             /\ Waits(T, w, x) => Due(T, w, x) \in Nat /\ Due(T, w, x) <= MaxTime
  <2>1. w.Idxs[x] \in Nat /\ Len(T[x]) \in Nat /\ w.Idxs[x] <= Len(T[x])
    BY <1>3, LenProperties DEF SweepState, RowSwept
  <2>2. \A i \in 1 .. w.Idxs[x] : i \in 1 .. Len(T[x]) + 1
    BY <2>1
  <2>3. \A i \in 1 .. w.Idxs[x] : StartIn(T[x], i) \in Nat
    BY <2>2, StartIsNat
  <2>4. ASSUME Waits(T, w, x)
        PROVE  Due(T, w, x) \in Nat /\ Due(T, w, x) <= MaxTime
    <3>1. CASE w.Idxs[x] = 0
      BY <1>2, <3>1 DEF Due, StartIn
    <3>2. CASE w.Idxs[x] # 0
      <4>1. w.Idxs[x] \in 1 .. Len(T[x]) /\ w.Idxs[x] > 0
        BY <2>1, <3>2
      <4>2. Due(T, w, x) = T[x][w.Idxs[x]].end
        BY <2>1, <4>1, StartAfter DEF Due
      <4> QED
        BY <4>1, <4>2, EndIsNat DEF TimesFit
    <3> QED
      BY <3>1, <3>2
  <2> QED
    BY <2>3, <2>4
<1>6. ASSUME NEW x \in Phys
      PROVE  RowSwept(T, v, x)
  <2>1. RowSwept(T, w, x) /\ ~(x < v.iq)
    BY <1>1, <1>2, <1>3
  <2>2. \A i \in 1 .. w.Idxs[x] : StartIn(T[x], i) <= w.min
    BY <1>2, <1>3, <1>5, <2>1 DEF RowSwept
  <2>3. Waits(T, w, x) => w.min <= Due(T, w, x)
    BY <1>2, <2>1 DEF RowSwept
  <2> QED
    BY <1>1, <1>4, <2>1, <2>2, <2>3 DEF RowSwept
<1>7. NextRow(T, v)
  <2>1. CASE \A x \in Phys : ~Waits(T, w, x)
    BY <1>1, <1>4, <2>1 DEF NextRow
  <2>2. ASSUME NEW x \in Phys, Waits(T, w, x)
        PROVE  \E y \in Phys : y >= v.iq /\ Waits(T, v, y) /\ Due(T, v, y) <= v.time
    <3>1. CASE w.min = MaxTime
      BY <1>1, <1>2, <1>4, <1>5, <2>2, <3>1
    <3>2. CASE w.min # MaxTime
      <4>1. PICK y \in Phys : Waits(T, w, y) /\ Due(T, w, y) = w.min
        BY <1>3, <3>2 DEF NextRow
      <4> QED
        BY <1>1, <1>2, <1>4, <4>1
    <3> QED
      BY <3>1, <3>2
  <2> QED
    BY <1>1, <2>1, <2>2 DEF NextRow
<1>8. Collected(T, v, s)
  BY <1>1, <1>3, <1>4 DEF Collected
<1>9. Swept(T, v, s)
  BY <1>1, <1>2, <1>3, <1>6, <1>7, <1>8 DEF Swept
<1> QED
  BY <1>9 DEF v

(* until no row moves: all have come to their end.                         *)
LEMMA SweepEnds ==
  ASSUME NEW T \in [Phys -> Seq(Entry)],
         NEW w \in SweepState, w.iq = NumPhys, w.counter = 0, NEW s, Swept(T, w, s)
  PROVE  \A x \in Phys : \A i \in 1 .. Len(T[x]) : T[x][i].gate # IsIdle => InSeq(s, T[x][i].gate)
<1>1. \A x \in Phys : x \in Int /\ ~(x >= NumPhys)
  BY PlatformShape DEF Phys
<1>2. NextRow(T, w) /\ Collected(T, w, s) /\ \A x \in Phys : RowSwept(T, w, x)
  BY DEF Swept
<1>3. \A x \in Phys : ~Waits(T, w, x)
  BY <1>1, <1>2 DEF NextRow
<1>4. \A x \in Phys : w.Idxs[x] = Len(T[x])
  <2> TAKE x \in Phys
  <2>1. w.Idxs[x] \in Nat /\ Len(T[x]) \in Nat /\ w.Idxs[x] <= Len(T[x])
    BY <1>2, LenProperties DEF SweepState, RowSwept
  <2> QED
    BY <1>3, <2>1 DEF Waits
<1> QED
  BY <1>2, <1>4 DEF Collected

-----------------------------------------------------------------------------
(* The sequence of the scheduler.                                          *)

(* What the code's int can hold: the positions of the gates, short of the  *)
(* value that stands for idling, and the times, short of the one that no   *)
(* row ever waits for.                                                     *)
IntsSuffice == Len(gates) <= IsIdle /\ TimesFit(table_)

SequenceInv ==
  /\ pc # "gates lost"
  /\ pc = "sweep" => Swept(table_, sweep, sequence)
  /\ pc \in {"reorder", "convert"} =>
       /\ InOrder(table_, sequence)
       /\ \A k \in 1 .. Len(sequence) : sequence[k] # IsIdle /\ InTable(sequence[k])
       /\ \A x \in Phys : \A i \in 1 .. Len(table_[x]) :
            table_[x][i].gate # IsIdle => InSeq(sequence, table_[x][i].gate)

Span(m, n) == (-m .. -1) \cup (0 .. n - 1)

(* A sequence that has every position once has as many elements.           *)
LEMMA EveryPositionOnce ==
  ASSUME NEW m \in Nat, NEW n \in Nat, NEW s \in Seq(Span(m, n)),
         \A p \in Span(m, n) : InSeq(s, p),
         \A j \in 1 .. Len(s) : \A i \in 1 .. j - 1 : s[i] # s[j]
  PROVE  Len(s) = n + m
<1> DEFINE P == Span(m, n)
<1>1. Len(s) \in Nat /\ s \in [1 .. Len(s) -> P]
  BY LenProperties
<1>2. ASSUME NEW i \in 1 .. Len(s), NEW j \in 1 .. Len(s), s[i] = s[j]
      PROVE  i = j
  <2>1. CASE i < j
    <3>1. i \in 1 .. j - 1
      BY <1>1, <2>1
    <3> QED
      BY <1>2, <3>1
  <2>2. CASE j < i
    <3>1. j \in 1 .. i - 1
      BY <1>1, <2>2
    <3> QED
      BY <1>2, <3>1
  <2> QED
    BY <1>1, <2>1, <2>2
<1>3. s \in Bijection(1 .. Len(s), P)
  <2>1. s \in Injection(1 .. Len(s), P)
    BY <1>1, <1>2 DEF Injection, IsInjective
  <2>2. s \in Surjection(1 .. Len(s), P)
    BY <1>1 DEF Surjection, InSeq
  <2> QED
    BY <2>1, <2>2 DEF Bijection
<1>4. Cardinality(P) = Len(s)
  <2>1. ExistsBijection(1 .. Len(s), P)
    BY <1>3 DEF ExistsBijection
  <2> QED
    BY <1>1, <2>1, FS_CountingElements
<1>5. P = (-m) .. (n - 1)
  BY DEF Span
<1>6. Cardinality((-m) .. (n - 1)) = n + m
  <2>1. -m \in Int /\ n - 1 \in Int
    OBVIOUS
  <2>2. Cardinality((-m) .. (n - 1)) = IF -m > n - 1 THEN 0 ELSE (n - 1) - (-m) + 1
    BY <2>1, FS_Interval
  <2> QED
    BY <2>2
<1> QED
  BY <1>4, <1>5, <1>6

(* When the sweep ends nothing is missing.                                 *)
LEMMA SweepComplete ==
  ASSUME IInv, EntriesComplete, IntsSuffice, pc = "sweep",
         Swept(table_, sweep, sequence), sweep.iq = NumPhys, sweep.counter = 0
  PROVE  /\ Len(sequence) = Len(gates) + Len(routing)
         /\ \A x \in Phys : \A i \in 1 .. Len(table_[x]) :
              table_[x][i].gate # IsIdle => InSeq(sequence, table_[x][i].gate)
<1>1. /\ table_ \in [Phys -> Seq(Entry)] /\ sweep \in SweepState
      /\ sequence \in Seq(Int)
      /\ gate_index = Len(gates) /\ gate_index \in Nat /\ Len(routing) \in Nat
      /\ \A i \in 1 .. Len(sequence) : sequence[i] \in Positions
  BY LenProperties DEF IInv, TypeOK, Entry, SweepState, Bookkeeping, EntriesKnown
<1>2. \A x \in Phys : \A i \in 1 .. Len(table_[x]) :
        table_[x][i].gate # IsIdle => InSeq(sequence, table_[x][i].gate)
  BY <1>1, SweepEnds
<1>3. ASSUME NEW p \in Positions
      PROVE  InSeq(sequence, p)
  <2>1. p # IsIdle
    BY <1>1 DEF Positions, IntsSuffice, IsIdle
  <2>2. InTable(p)
    BY DEF EntriesComplete
  <2> QED
    BY <1>2, <2>1, <2>2 DEF InTable
<1>4. sequence \in Seq(Positions)
  BY <1>1
<1>5. \A j \in 1 .. Len(sequence) : \A i \in 1 .. j - 1 : sequence[i] # sequence[j]
  BY DEF Swept, InOrder
<1>6. Positions = Span(Len(routing), gate_index)
  BY DEF Positions, Span
<1>7. Len(sequence) = gate_index + Len(routing)
  BY <1>1, <1>3, <1>4, <1>5, <1>6, EveryPositionOnce
<1> QED
  BY <1>1, <1>2, <1>7

LEMMA SweepQubitSequence ==
  ASSUME IInv, TableIsASchedule, SequenceInv, SweepQubit
  PROVE  SequenceInv'
<1>1. /\ pc = "sweep" /\ pc' = "sweep" /\ sweep.iq < NumPhys /\ table_' = table_
      /\ table_ \in [Phys -> Seq(Entry)] /\ sweep \in SweepState /\ sequence \in Seq(Int)
      /\ Swept(table_, sweep, sequence)
  BY DEF SweepQubit, IInv, TypeOK, Entry, SweepState, SequenceInv, tableVars
<1>2. sweep' \in SweepState /\ sequence' \in Seq(Int)
  <2>1. IInv'
    BY SweepQubitStep
  <2> QED
    BY <2>1 DEF IInv, TypeOK, SweepState
<1>3. sweep.iq \in Phys
  BY <1>1, PlatformShape DEF SweepState, Phys
<1>4. RowStep(table_, sweep, sweep')
  <2> DEFINE row   == table_[sweep.iq]
             idx   == sweep.Idxs[sweep.iq]
             moves == idx < Len(row) /\ (idx > 0 => row[idx].end <= sweep.time)
             next  == IF moves THEN idx + 1 ELSE idx
  <2>1. sweep' = [sweep EXCEPT
             !.iq      = @ + 1,
             !.Idxs    = [@ EXCEPT ![sweep.iq] = next],
             !.counter = IF moves THEN @ + 1 ELSE @,
             !.min     = IF next < Len(row) /\ row[next].end < @
                         THEN row[next].end ELSE @]
    BY DEF SweepQubit
  <2>2. moves <=> MovesOn(table_, sweep)
    BY DEF MovesOn
  <2>3. next = IF MovesOn(table_, sweep) THEN idx + 1 ELSE idx
    BY <2>2
  <2> HIDE DEF moves, next
  <2>4. /\ sweep'.time = sweep.time /\ sweep'.iq = sweep.iq + 1
        /\ sweep'.Idxs = [sweep.Idxs EXCEPT ![sweep.iq] = next]
        /\ sweep'.counter = IF moves THEN sweep.counter + 1 ELSE sweep.counter
        /\ sweep'.min = IF next < Len(row) /\ row[next].end < sweep.min
                        THEN row[next].end ELSE sweep.min
    BY <1>1, <2>1 DEF SweepState
  <2> QED
    BY <2>2, <2>3, <2>4 DEF RowStep
<1>5. SequenceStep(table_, sweep, sequence, sequence')
  <2> DEFINE idx == sweep.Idxs[sweep.iq]
             g   == table_[sweep.iq][idx + 1].gate
             moves == idx < Len(table_[sweep.iq])
                        /\ (idx > 0 => table_[sweep.iq][idx].end <= sweep.time)
  <2>1. sequence' = IF moves /\ g # IsIdle /\ \A i \in 1 .. Len(sequence) : sequence[i] # g
                    THEN Append(sequence, g) ELSE sequence
    BY DEF SweepQubit
  <2>2. (\A i \in 1 .. Len(sequence) : sequence[i] # g) <=> ~InSeq(sequence, g)
    BY DEF InSeq
  <2>3. moves <=> MovesOn(table_, sweep)
    BY DEF MovesOn
  <2> QED
    BY <2>1, <2>2, <2>3 DEF SequenceStep
<1>6. AreASchedule(table_)
  BY ScheduleByRows
<1>7. Swept(table_, sweep', sequence')
  BY <1>1, <1>2, <1>3, <1>4, <1>5, <1>6, SweptByRow
<1> QED
  BY <1>1, <1>7 DEF SequenceInv

LEMMA SweepRoundSequence ==
  ASSUME IInv, EntriesComplete, IntsSuffice, SequenceInv, SweepRound
  PROVE  SequenceInv'
<1>1. /\ pc = "sweep" /\ sweep.iq = NumPhys /\ table_' = table_ /\ sequence' = sequence
      /\ table_ \in [Phys -> Seq(Entry)] /\ sweep \in SweepState /\ sequence \in Seq(Int)
      /\ Swept(table_, sweep, sequence)
  BY DEF SweepRound, IInv, TypeOK, Entry, SweepState, SequenceInv, tableVars
<1>2. CASE sweep.counter > 0
  <2>1. pc' = "sweep" /\ sweep' = NextRound
    BY <1>1, <1>2 DEF SweepRound
  <2>2. Swept(table_, NextRound, sequence)
    BY <1>1, SweptByRound DEF NextRound, IntsSuffice
  <2> QED
    BY <1>1, <2>1, <2>2 DEF SequenceInv
<1>3. CASE sweep.counter = 0
  <2>1. /\ Len(sequence) = Len(gates) + Len(routing)
        /\ \A x \in Phys : \A i \in 1 .. Len(table_[x]) :
             table_[x][i].gate # IsIdle => InSeq(sequence, table_[x][i].gate)
    BY <1>1, <1>3, SweepComplete
  <2>2. pc' = "reorder"
    BY <1>3, <2>1 DEF SweepRound
  <2>3. ASSUME NEW k \in 1 .. Len(sequence)
        PROVE  sequence[k] # IsIdle /\ InTable(sequence[k])
    <3>1. sequence[k] # IsIdle /\ Passed(table_, sweep, sequence[k])
      BY <1>1 DEF Swept, Collected
    <3>2. ASSUME NEW x \in Phys, NEW i \in 1 .. sweep.Idxs[x]
          PROVE  i \in 1 .. Len(table_[x])
      <4>1. sweep.Idxs[x] \in Nat /\ Len(table_[x]) \in Nat /\ sweep.Idxs[x] <= Len(table_[x])
        BY <1>1, LenProperties DEF SweepState, Swept, RowSwept
      <4> QED
        BY <4>1
    <3> QED
      BY <3>1, <3>2 DEF Passed, InTable
  <2>4. InOrder(table_, sequence)
    BY <1>1 DEF Swept
  <2> QED
    BY <1>1, <2>1, <2>2, <2>3, <2>4 DEF SequenceInv, InTable
<1>4. sweep.counter \in Nat
  BY <1>1 DEF SweepState
<1> QED
  BY <1>2, <1>3, <1>4

LEMMA NextSequence ==
  ASSUME IInv, EntriesComplete, TableIsASchedule, IntsSuffice, SequenceInv, [Next]_vars
  PROVE  SequenceInv'
<1>1. CASE StartQBB \/ ScheduleInPlace \/ FindRoute \/ FailToRoute \/ RoutingSwap \/ PlaceRouted
  BY <1>1 DEF StartQBB, ScheduleInPlace, FindRoute, FailToRoute, RoutingSwap, PlaceRouted,
              SequenceInv
<1>2. ASSUME EndPopulate \/ BackwardDone
      PROVE  SequenceInv'
  <2>1. table_ \in [Phys -> Seq(Entry)] /\ table_' = table_
    BY <1>2 DEF IInv, TypeOK, Entry, EndPopulate, BackwardDone, tableVars
  <2>2. CASE pc' = "sweep" /\ sweep' = NoSweep /\ sequence' = <<>>
    <3>1. Swept(table_', sweep', sequence')
      BY <2>1, <2>2, SweepBegins
    <3> QED
      BY <2>2, <3>1 DEF SequenceInv
  <2>3. CASE pc' \in {"scan", "prune", "not restored"}
    BY <2>3 DEF SequenceInv
  <2> QED
    BY <1>2, <2>2, <2>3 DEF EndPopulate, BackwardDone
<1>3. CASE RetraceScan \/ RetracePass \/ RetraceSwap \/ PruneQubit \/ PruneDone \/ SortSwap
  BY <1>3 DEF RetraceScan, RetracePass, RetraceSwap, PruneQubit, PruneDone, SortSwap, SequenceInv
<1>4. CASE SweepQubit
  BY <1>4, SweepQubitSequence
<1>5. CASE SweepRound
  BY <1>5, SweepRoundSequence
<1>6. CASE ReorderGate \/ ReorderDone \/ ConvertGate \/ FinishQBB
  BY <1>6 DEF ReorderGate, ReorderDone, ConvertGate, FinishQBB, tableVars, outputVars,
              SequenceInv, InTable
<1>7. CASE UNCHANGED vars
  BY <1>7 DEF vars, tableVars, outputVars, SequenceInv, InTable
<1> QED
  BY <1>1, <1>2, <1>3, <1>4, <1>5, <1>6, <1>7 DEF Next, Populate, Backward, Rewrite

(* The invariants give the property, which looks a gate up in the table.   *)
LEMMA SequenceByInvariants ==
  ASSUME IInv, EntriesComplete, SequenceInv
  PROVE  SequenceFollowsTable
<1> SUFFICES ASSUME pc \in {"sweep", "reorder"},
                    NEW j \in 1 .. Len(sequence), NEW i \in 1 .. j - 1
             PROVE  sequence[i] # sequence[j] /\ StartOf(sequence[i]) <= StartOf(sequence[j])
  BY DEF SequenceFollowsTable, SequenceInv
<1>1. /\ table_ \in [Phys -> Seq(Entry)] /\ sweep \in SweepState /\ Len(sequence) \in Nat
      /\ gate_index = Len(gates)
  BY LenProperties DEF IInv, TypeOK, Entry, SweepState, Bookkeeping
<1>2. InOrder(table_, sequence)
  BY DEF SequenceInv, Swept
<1>3. ASSUME NEW k \in 1 .. Len(sequence)
      PROVE  InTable(sequence[k])
  <2>1. CASE pc = "sweep"
    <3>1. Passed(table_, sweep, sequence[k])
      BY <2>1 DEF SequenceInv, Swept, Collected
    <3>2. ASSUME NEW x \in Phys, NEW n \in 1 .. sweep.Idxs[x]
          PROVE  n \in 1 .. Len(table_[x])
      <4>1. sweep.Idxs[x] \in Nat /\ Len(table_[x]) \in Nat /\ sweep.Idxs[x] <= Len(table_[x])
        BY <1>1, <2>1, LenProperties DEF SweepState, SequenceInv, Swept, RowSwept
      <4> QED
        BY <4>1
    <3> QED
      BY <3>1, <3>2 DEF Passed, InTable
  <2>2. CASE pc = "reorder"
    BY <2>2 DEF SequenceInv
  <2> QED
    BY <2>1, <2>2
<1>4. ASSUME NEW g, InTable(g)
      PROVE  /\ EntryOf(g)[1] \in Phys
             /\ EntryOf(g)[2] \in 1 .. Len(table_[EntryOf(g)[1]])
             /\ table_[EntryOf(g)[1]][EntryOf(g)[2]].gate = g
  <2> DEFINE N == 2 * (Len(gates) + Len(routing))
             IsEntry(e) == e[2] <= Len(table_[e[1]]) /\ table_[e[1]][e[2]].gate = g
  <2>1. PICK x \in Phys : \E n \in 1 .. Len(table_[x]) : table_[x][n].gate = g
    BY <1>4 DEF InTable
  <2>2. PICK n \in 1 .. Len(table_[x]) : table_[x][n].gate = g
    BY <2>1
  <2>3. Len(table_[x]) <= N
    BY <1>1 DEF EntriesComplete
  <2>4. N \in Int /\ Len(table_[x]) \in Nat
    BY <1>1, LenProperties DEF IInv, TypeOK
  <2> HIDE DEF N
  <2>5. <<x, n>> \in Phys \X (1 .. N) /\ IsEntry(<<x, n>>)
    BY <2>2, <2>3, <2>4
  <2>6. EntryOf(g) = CHOOSE e \in Phys \X (1 .. N) : IsEntry(e)
    BY DEF EntryOf, N
  <2> HIDE DEF IsEntry
  <2>7. EntryOf(g) \in Phys \X (1 .. N) /\ IsEntry(EntryOf(g))
    BY <2>5, <2>6
  <2>8. EntryOf(g)[2] \in 1 .. Len(table_[EntryOf(g)[1]])
    <3>1. EntryOf(g)[2] \in 1 .. N /\ EntryOf(g)[2] <= Len(table_[EntryOf(g)[1]])
      BY <2>7 DEF IsEntry
    <3>2. Len(table_[EntryOf(g)[1]]) \in Nat
      BY <1>1, <2>7, LenProperties
    <3> QED
      BY <2>4, <3>1, <3>2
  <2> QED
    BY <2>7, <2>8 DEF IsEntry
<1>5. i \in 1 .. Len(sequence)
  BY <1>1
<1>6. sequence[i] # sequence[j] /\ StartsBefore(table_, sequence[i], sequence[j])
  BY <1>2 DEF InOrder
<1>7. /\ StartOf(sequence[i]) = StartIn(table_[EntryOf(sequence[i])[1]], EntryOf(sequence[i])[2])
      /\ StartOf(sequence[j]) = StartIn(table_[EntryOf(sequence[j])[1]], EntryOf(sequence[j])[2])
  BY DEF StartOf, StartTime, StartIn
<1> QED
  BY <1>3, <1>4, <1>5, <1>6, <1>7 DEF StartsBefore

LEMMA CompleteHolds == Spec => []EntriesComplete
<1>1. Init => EntriesComplete
  BY DEF Init, EntriesComplete
<1> QED
  BY <1>1, NextComplete, InvHolds, PTL DEF Spec

LEMMA SequenceHolds == Spec /\ []IntsSuffice => []SequenceInv
<1>1. Init => SequenceInv
  BY DEF Init, SequenceInv
<1>2. IInv /\ EntriesComplete /\ TableIsASchedule /\ IntsSuffice /\ SequenceInv /\ [Next]_vars
        => SequenceInv'
  BY NextSequence
<1> QED
  BY <1>1, <1>2, InvHolds, CompleteHolds, TableStaysSchedule, PTL DEF Spec

(* The sweep of the table never loses a gate, whatever the table: if the   *)
(* code's int can count the gates and the time, the sequence has every     *)
(* gate and swap, each once, in the order of their start times.            *)
THEOREM SequenceIsTheTable == Spec /\ []IntsSuffice => []SequenceFollowsTable
<1>1. IInv /\ EntriesComplete /\ SequenceInv => SequenceFollowsTable
  BY SequenceByInvariants
<1> QED
  BY <1>1, InvHolds, CompleteHolds, SequenceHolds, PTL
==============================================================================
