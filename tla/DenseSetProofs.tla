---------------------------- MODULE DenseSetProofs -----------------------------
(***************************************************************************)
(* What findBestDenseSet answers on every platform: the qubits in use stay *)
(* in the set, it is never larger than asked for, and on a connected       *)
(* platform it is as large.                                                *)
(***************************************************************************)
EXTENDS DenseSet, FiniteSums, NaturalsInduction, TLAPS

-----------------------------------------------------------------------------
(* Sequences.                                                              *)
LEMMA AppendFacts ==
  ASSUME NEW S, NEW s \in Seq(S), NEW x \in S
  PROVE  /\ Append(s, x) \in Seq(S)
         /\ Len(Append(s, x)) = Len(s) + 1
         /\ \A i \in 1 .. Len(s) : Append(s, x)[i] = s[i]
         /\ Append(s, x)[Len(s) + 1] = x
         /\ ToSet(Append(s, x)) = ToSet(s) \cup {x}
<1> DEFINE t == Append(s, x)
<1>1. t \in Seq(S) /\ Len(t) = Len(s) + 1 /\ t[Len(s) + 1] = x /\ (\A i \in 1 .. Len(s) : t[i] = s[i])
  OBVIOUS
<1>2. DOMAIN t = 1 .. Len(s) + 1 /\ DOMAIN s = 1 .. Len(s) /\ Len(s) \in Nat
  BY <1>1
<1> HIDE DEF t
<1>3. ToSet(t) = ToSet(s) \cup {x}
  <2>1. \A i \in 1 .. Len(s) + 1 : i \in 1 .. Len(s) \/ i = Len(s) + 1
    BY <1>2
  <2>2. \A i \in 1 .. Len(s) : i \in 1 .. Len(s) + 1
    BY <1>2
  <2>3. Len(s) + 1 \in 1 .. Len(s) + 1
    BY <1>2
  <2> QED
    BY <1>1, <1>2, <2>1, <2>2, <2>3 DEF ToSet
<1> QED
  BY <1>1, <1>3 DEF t

LEMMA SeqFacts ==
  ASSUME NEW S, NEW s \in Seq(S)
  PROVE  /\ Len(s) \in Nat /\ DOMAIN s = 1 .. Len(s)
         /\ \A k \in DOMAIN s : s[k] \in S
  OBVIOUS

LEMMA SeqWidens ==
  ASSUME NEW S, NEW T, S \subseteq T, NEW s \in Seq(S)
  PROVE  s \in Seq(T)
<1>1. s \in [1 .. Len(s) -> T] /\ Len(s) \in Nat
  BY SeqFacts
<1> QED
  BY <1>1

LEMMA SeqOfFunction ==
  ASSUME NEW S, NEW n \in Nat, NEW t, t = [k \in 1 .. n |-> t[k]],
         \A k \in 1 .. n : t[k] \in S
  PROVE  t \in Seq(S) /\ Len(t) = n /\ DOMAIN t = 1 .. n
<1>1. t \in [1 .. n -> S]
  OBVIOUS
<1>2. t \in Seq(S)
  BY <1>1
<1> QED
  BY <1>1, <1>2

LEMMA HeadTailFacts ==

  ASSUME NEW S, NEW s \in Seq(S), s # <<>>
  PROVE  /\ Head(s) \in S
         /\ Tail(s) \in Seq(S)
         /\ ToSet(s) = {Head(s)} \cup ToSet(Tail(s))
<1> DEFINE t == Tail(s)
<1>1. Head(s) = s[1] /\ t \in Seq(S) /\ Len(t) = Len(s) - 1 /\ Len(s) \in Nat \ {0} /\ Head(s) \in S
  OBVIOUS
<1>2. \A i \in 1 .. Len(t) : t[i] = s[i + 1]
  OBVIOUS
<1>3. DOMAIN t = 1 .. Len(s) - 1 /\ DOMAIN s = 1 .. Len(s)
  BY <1>1
<1>4. \A i \in 1 .. Len(s) : i = 1 \/ (i - 1 \in 1 .. Len(s) - 1 /\ (i - 1) + 1 = i)
  BY <1>1
<1>5. \A i \in 1 .. Len(s) - 1 : i + 1 \in 1 .. Len(s)
  BY <1>1
<1>6. 1 \in 1 .. Len(s)
  BY <1>1
<1> HIDE DEF t
<1>7. ToSet(s) \subseteq {Head(s)} \cup ToSet(t)
  <2> SUFFICES ASSUME NEW i \in 1 .. Len(s)
               PROVE  s[i] = Head(s) \/ s[i] \in ToSet(t)
    BY <1>3 DEF ToSet
  <2>1. CASE i = 1
    BY <1>1, <2>1
  <2>2. CASE i - 1 \in 1 .. Len(s) - 1 /\ (i - 1) + 1 = i
    <3>1. t[i - 1] = s[i]
      BY <1>1, <1>2, <2>2
    <3> QED
      BY <1>3, <2>2, <3>1 DEF ToSet
  <2> QED
    BY <1>4, <2>1, <2>2
<1>8. {Head(s)} \cup ToSet(t) \subseteq ToSet(s)
  <2>1. Head(s) \in ToSet(s)
    BY <1>1, <1>3, <1>6 DEF ToSet
  <2>2. ToSet(t) \subseteq ToSet(s)
    BY <1>1, <1>2, <1>3, <1>5 DEF ToSet
  <2> QED
    BY <2>1, <2>2
<1> QED
  BY <1>1, <1>7, <1>8 DEF t

(* A sequence without repetitions is as long as its set is large, and so   *)
(* is any part of it.                                                      *)
LEMMA PartSize ==
  ASSUME NEW s, IsInjective(s), NEW I \in SUBSET DOMAIN s, IsFiniteSet(I)
  PROVE  /\ IsFiniteSet({s[i] : i \in I})
         /\ Cardinality({s[i] : i \in I}) = Cardinality(I)
<1> DEFINE T == {s[i] : i \in I}
           f == [i \in I |-> s[i]]
<1>1. f \in Surjection(I, T)
  BY DEF Surjection
<1>2. f \in Injection(I, T)
  BY DEF Injection, IsInjective
<1> HIDE DEF f, T
<1>3. IsFiniteSet(T) /\ (Cardinality(T) = Cardinality(I) <=> f \in Injection(I, T))
  BY <1>1, FS_Surjection
<1> QED
  BY <1>2, <1>3 DEF T

LEMMA InjectiveSize ==
  ASSUME NEW S, NEW s \in Seq(S), IsInjective(s)
  PROVE  IsFiniteSet(ToSet(s)) /\ Cardinality(ToSet(s)) = Len(s)
<1>1. DOMAIN s = 1 .. Len(s) /\ Len(s) \in Nat
  OBVIOUS
<1>2. IsFiniteSet(1 .. Len(s)) /\ Cardinality(1 .. Len(s)) = Len(s)
  BY <1>1, FS_Interval
<1>3. IsFiniteSet(DOMAIN s) /\ Cardinality(DOMAIN s) = Len(s) /\ DOMAIN s \in SUBSET DOMAIN s
  BY <1>1, <1>2
<1> QED
  BY <1>3, PartSize DEF ToSet

-----------------------------------------------------------------------------
LEMMA LeastExists ==
  ASSUME NEW S \in SUBSET Nat, S # {}
  PROVE  Least(S) \in S /\ \A x \in S : Least(S) <= x
<1>1. PICK m \in S : \A i \in S : <<i, m>> \notin OpToRel(<, Nat)
  BY NatLessThanWellFounded, WFMin
<1>2. ASSUME NEW i \in S, i < m
      PROVE  FALSE
  <2>1. <<i, m>> \in OpToRel(<, Nat)
    BY <1>2 DEF OpToRel
  <2> QED
    BY <1>1, <2>1
<1>3. \E x \in S : \A y \in S : x <= y
  BY <1>2
<1> QED
  BY <1>3 DEF Least

-----------------------------------------------------------------------------
(* The invariant.  A collection is a list without repetitions of vertices  *)
(* outside the set; a vertex is marked when it is in one of the two.       *)
Wanted    == prog_qubits - Cardinality(mapped)
Collected == ToSet(bfs_list)
Expanded  == {v \in Vertices : v = bfs_list[1] \/ vec_markers[v] >= 2}

CallOK ==
  /\ platform \in Platforms
  /\ prog_qubits \in 1 .. platform.n
  /\ dense_pc # "done" => best_subset = mapped
  /\ dense_pc \notin {"roots", "done"} => Cardinality(mapped) < prog_qubits
  /\ roots \subseteq RootsOf(mapped)

CollectionOK ==
  dense_pc \in {"search", "trim"} =>
    /\ bfs_list # <<>>
    /\ IsInjective(bfs_list)
    /\ Collected \cap mapped = {}
    /\ num_left = Wanted - Len(bfs_list)
    /\ \A v \in Vertices : vec_markers[v] > 0 <=> v \in Collected \cup mapped
    /\ dense_iteration >= 1
    /\ sources # <<>> \/ targets # {} => dense_iteration >= 2

(* What has been expanded is closed under links, but for what is still to  *)
(* be expanded or visited: a search that stops early has been everywhere.  *)
Settled(v) == \A w \in Linked(v) : w \in Expanded \/ w \in targets

ClosureOK ==
  /\ dense_pc = "search" =>
       \A v \in Expanded : v \in ToSet(new_found_vertices) \/ v \in ToSet(sources) \/ Settled(v)
  /\ dense_pc = "trim" /\ IsConnected => num_left <= 0

SmallerOf(a, b) == IF a <= b THEN a ELSE b

CoordsOf(I) == SumFunctionOnSet([i \in DOMAIN bfs_list |-> CoordAt(i)], I)

TrimOK ==
  dense_pc = "trim" =>
    /\ scanned <= Len(bfs_list)
    /\ to_rm \in Seq(1 .. scanned)
    /\ IsInjective(to_rm)
    /\ Len(to_rm) = SmallerOf(scanned, num_to_rm)
    /\ connectivity = CoordsOf(1 .. scanned)

(* The best collection so far.                                             *)
BestOK ==
  /\ outcome \cap mapped = {}
  /\ dense_pc = "roots" => outcome = {}
  /\ outcome # {} => Cardinality(outcome) <= Wanted
  /\ IsConnected /\ outcome # {} => Cardinality(outcome) = Wanted
  /\ dense_pc = "finish" => outcome # {}
  /\ IsConnected /\ platform.n > 1 /\ dense_pc = "root" => outcome # {} \/ roots # {}

AnswerOK ==
  dense_pc = "done" =>
    /\ mapped \subseteq best_subset
    /\ best_subset = mapped \/ Cardinality(best_subset) <= prog_qubits
    /\ IsConnected /\ platform.n > 1 => Cardinality(best_subset) >= prog_qubits

DenseInv ==
  /\ DenseTypeOK /\ ConnectivityIsOfOutcome
  /\ CallOK /\ CollectionOK /\ ClosureOK /\ TrimOK /\ BestOK /\ AnswerOK

-----------------------------------------------------------------------------
LEMMA PlatformFacts ==
  ASSUME DenseTypeOK, CallOK
  PROVE  /\ platform.n \in Nat \ {0}
         /\ Vertices \in SUBSET Nat
         /\ IsFiniteSet(Vertices) /\ Cardinality(Vertices) = platform.n
         /\ IsFiniteSet(mapped) /\ Cardinality(mapped) \in Nat
         /\ prog_qubits \in Nat /\ prog_qubits <= platform.n /\ prog_qubits >= 1
         /\ Wanted \in Int
<1>1. platform.n \in Nat \ {0}
  BY PlatformsAreGraphs DEF CallOK
<1>2. Vertices \in SUBSET Nat
  BY <1>1 DEF Vertices
<1>3. IsFiniteSet(Vertices) /\ Cardinality(Vertices) = platform.n
  <2>1. 0 \in Int /\ platform.n - 1 \in Int /\ ~ 0 > platform.n - 1 /\ (platform.n - 1) - 0 + 1 = platform.n
    BY <1>1
  <2> QED
    BY <2>1, FS_Interval DEF Vertices
<1>4. IsFiniteSet(mapped)
  BY <1>3, FS_Subset DEF DenseTypeOK
<1>5. Cardinality(mapped) \in Nat
  BY <1>4, FS_CardinalityType
<1>6. prog_qubits \in Nat /\ prog_qubits <= platform.n /\ prog_qubits >= 1
  BY <1>1 DEF CallOK
<1> QED
  BY <1>1, <1>2, <1>3, <1>4, <1>5, <1>6 DEF Wanted

LEMMA LinkFacts ==
  ASSUME DenseTypeOK, CallOK
  PROVE  /\ \A v : Linked(v) \subseteq Vertices /\ IsFiniteSet(Linked(v)) /\ coord_value(v) \in Nat
         /\ \A v, w \in Vertices : w \in Linked(v) <=> v \in Linked(w)
<1>1. ASSUME NEW v
      PROVE  Linked(v) \subseteq Vertices /\ IsFiniteSet(Linked(v)) /\ coord_value(v) \in Nat
  <2>1. Linked(v) \subseteq Vertices
    BY DEF Linked
  <2>2. IsFiniteSet(Linked(v))
    BY <2>1, PlatformFacts, FS_Subset
  <2> QED
    BY <2>1, <2>2, FS_CardinalityType DEF coord_value
<1>2. ASSUME NEW v \in Vertices, NEW w \in Vertices
      PROVE  w \in Linked(v) <=> v \in Linked(w)
  <2>1. {v, w} = {w, v}
    OBVIOUS
  <2> QED
    BY <2>1 DEF Linked
<1> QED
  BY <1>1, <1>2

LEMMA SumOfCoordsIsNat ==
  ASSUME DenseTypeOK, CallOK, NEW S \in SUBSET Vertices
  PROVE  IsFiniteSet(S) /\ SumOfCoords(S) \in Nat
<1>1. IsFiniteSet(S)
  BY PlatformFacts, FS_Subset
<1> DEFINE f == [v \in S |-> coord_value(v)]
<1>2. \A v \in S : f[v] \in Nat
  BY LinkFacts
<1> HIDE DEF f
<1>3. SumFunctionOnSet(f, S) \in Nat
  BY <1>1, <1>2, SumIsNat
<1> QED
  BY <1>1, <1>3 DEF SumOfCoords, f

LEMMA ConnectedHasLinks ==
  ASSUME DenseTypeOK, CallOK, IsConnected, platform.n > 1, NEW v \in Vertices
  PROVE  coord_value(v) >= 1
<1>1. 0 \in Vertices /\ 1 \in Vertices
  BY PlatformFacts DEF Vertices
<1>2. {v} \in SUBSET Vertices /\ {v} # {} /\ {v} # Vertices
  BY <1>1
<1>3. {v} \notin {{}, Vertices}
  BY <1>2
<1>4. PICK u \in {v} : \E w \in Linked(u) : w \notin {v}
  BY <1>2, <1>3 DEF IsConnected
<1>5. Linked(v) # {}
  BY <1>4
<1>6. IsFiniteSet(Linked(v)) /\ coord_value(v) \in Nat
  BY LinkFacts
<1>7. coord_value(v) # 0
  BY <1>5, <1>6, FS_EmptySet DEF coord_value
<1> QED
  BY <1>6, <1>7

LEMMA ConnectedSum ==
  ASSUME DenseTypeOK, CallOK, IsConnected, platform.n > 1, NEW S \in SUBSET Vertices, S # {}
  PROVE  SumOfCoords(S) > 0
<1> DEFINE f == [v \in S |-> coord_value(v)]
<1>1. \A v \in S : f[v] \in Nat /\ f[v] >= 1
  BY LinkFacts, ConnectedHasLinks
<1>2. PICK x \in S : TRUE
  OBVIOUS
<1>3. IsFiniteSet(S) /\ IsFiniteSet(S \ {x})
  BY SumOfCoordsIsNat, FS_Subset
<1> HIDE DEF f
<1>4. SumFunctionOnSet(f, S) = f[x] + SumFunctionOnSet(f, S \ {x})
  <2>1. \A v \in S : f[v] \in Int
    BY <1>1
  <2> QED
    BY <1>2, <1>3, <2>1, SumRemove
<1>5. SumFunctionOnSet(f, S \ {x}) \in Nat
  <2>1. \A v \in S \ {x} : f[v] \in Nat
    BY <1>1
  <2> QED
    BY <1>3, <2>1, SumIsNat
<1>6. SumFunctionOnSet(f, S) > 0
  BY <1>1, <1>2, <1>4, <1>5
<1> QED
  BY <1>6 DEF SumOfCoords, f

LEMMA RootsExist ==

  ASSUME DenseTypeOK, CallOK, IsConnected, Cardinality(mapped) < prog_qubits
  PROVE  RootsOf(mapped) # {}
<1>1. mapped # Vertices
  BY PlatformFacts
<1>2. CASE mapped = {}
  <2>1. 0 \in Vertices
    BY PlatformFacts DEF Vertices
  <2> QED
    BY <1>2, <2>1 DEF RootsOf
<1>3. CASE mapped # {}
  <2>1. mapped \in SUBSET Vertices /\ mapped \notin {{}, Vertices}
    BY <1>1, <1>3 DEF DenseTypeOK
  <2>2. PICK v \in mapped : \E w \in Linked(v) : w \notin mapped
    BY <2>1 DEF IsConnected
  <2>3. PICK w \in Linked(v) : w \notin mapped
    BY <2>2
  <2>4. v \in Vertices /\ w \in Vertices
    BY <2>1, <2>2, <2>3, LinkFacts
  <2>5. v \in Linked(w) \cap mapped
    BY <2>2, <2>3, <2>4, LinkFacts
  <2>6. w \in {u \in Vertices \ mapped : Linked(u) \cap mapped # {}}
    BY <2>3, <2>4, <2>5
  <2> QED
    BY <1>3, <2>6 DEF RootsOf
<1> QED
  BY <1>2, <1>3

(* The search starts from one of the roots.                                *)
LEMMA NextRootIsRoot ==
  ASSUME DenseTypeOK, CallOK, dense_pc = "root", roots # {}
  PROVE  NextRoot \in roots /\ NextRoot \in Vertices \ mapped
<1>0. best_subset = mapped
  BY DEF CallOK
<1>1. \A r \in roots : r \in Vertices \ mapped
  BY DEF CallOK, RootsOf
<1>2. ASSUME NEW r \in roots
      PROVE  FoundFrom(r) \in Nat
  <2>1. CASE mapped = {}
    BY <1>0, <2>1 DEF FoundFrom
  <2>2. CASE mapped # {}
    <3>1. Linked(r) \cap mapped # {}
      BY <2>2 DEF CallOK, RootsOf
    <3>2. Linked(r) \cap mapped \in SUBSET Nat
      BY PlatformFacts DEF DenseTypeOK
    <3>3. Least(Linked(r) \cap mapped) \in Nat
      BY <3>1, <3>2, LeastExists
    <3> QED
      BY <1>0, <2>2, <3>3 DEF FoundFrom
  <2> QED
    BY <2>1, <2>2
<1> DEFINE F == {FoundFrom(r) : r \in roots}
<1>3. F \in SUBSET Nat /\ F # {}
  BY <1>2
<1>4. Least(F) \in F /\ \A x \in F : Least(F) <= x
  <2> HIDE DEF F
  <2> QED
    BY <1>3, LeastExists
<1> DEFINE R == {r \in roots : FoundFrom(r) = Least(F)}
<1>5. R \in SUBSET Nat /\ R # {}
  <2>1. R \subseteq Nat
    BY <1>1, PlatformFacts
  <2>2. PICK r \in roots : FoundFrom(r) = Least(F)
    BY <1>4
  <2> QED
    BY <2>1, <2>2
<1>6. Least(R) \in R /\ \A x \in R : Least(R) <= x
  <2> HIDE DEF R
  <2> QED
    BY <1>5, LeastExists
<1>7. ASSUME NEW o \in roots
      PROVE  FoundFrom(Least(R)) < FoundFrom(o) \/ (FoundFrom(Least(R)) = FoundFrom(o) /\ Least(R) <= o)
  <2>1. FoundFrom(Least(R)) = Least(F) /\ Least(F) \in Nat
    BY <1>3, <1>4, <1>6
  <2>2. Least(F) <= FoundFrom(o) /\ FoundFrom(o) \in Nat
    BY <1>2, <1>4
  <2> HIDE DEF F
  <2>3. FoundFrom(o) = Least(F) => Least(R) <= o
    BY <1>6
  <2> HIDE DEF R
  <2> QED
    BY <2>1, <2>2, <2>3
<1>8. \E r \in roots : \A o \in roots :
        FoundFrom(r) < FoundFrom(o) \/ (FoundFrom(r) = FoundFrom(o) /\ r <= o)
  <2>1. Least(R) \in roots
    BY <1>6
  <2> HIDE DEF R
  <2> QED
    BY <1>7, <2>1
<1>9. NextRoot \in roots
  BY <1>8 DEF NextRoot
<1> QED
  BY <1>1, <1>9

LEMMA SamePlatform ==
  ASSUME UNCHANGED platform
  PROVE  /\ Vertices' = Vertices
         /\ IsConnected' <=> IsConnected
         /\ \A v : Linked(v)' = Linked(v) /\ coord_value(v)' = coord_value(v)
         /\ \A S : RootsOf(S)' = RootsOf(S) /\ SumOfCoords(S)' = SumOfCoords(S)
<1>1. Vertices' = Vertices
  BY DEF Vertices
<1>2. \A v : Linked(v)' = Linked(v)
  BY <1>1 DEF Linked
<1>3. \A v : coord_value(v)' = coord_value(v)
  BY <1>2 DEF coord_value
<1>4. \A S : RootsOf(S)' = RootsOf(S)
  BY <1>1, <1>2 DEF RootsOf
<1>5. \A S : SumOfCoords(S)' = SumOfCoords(S)
  BY <1>3 DEF SumOfCoords
<1>6. IsConnected' <=> IsConnected
  BY <1>1, <1>2 DEF IsConnected
<1> QED
  BY <1>1, <1>2, <1>3, <1>4, <1>5, <1>6

-----------------------------------------------------------------------------
(* Trimming.  The positions to be removed are different positions of the   *)
(* list, as many as there are too many, whichever of them a position that  *)
(* is scanned later replaces.                                              *)
LEMMA TrimStep ==
  ASSUME DenseInv, TrimPosition
  PROVE  TrimOK' /\ connectivity' \in Nat /\ scanned' \in Nat
<1> DEFINE i == scanned + 1
           f == [k \in DOMAIN bfs_list |-> CoordAt(k)]
<1>1. /\ dense_pc = "trim" /\ scanned < Len(bfs_list)
      /\ to_rm' = IF Len(to_rm) < num_to_rm THEN Append(to_rm, i)
                  ELSE IF replacement(i) # 0
                  THEN [to_rm EXCEPT ![replacement(i)] = i]
                  ELSE to_rm
      /\ connectivity' = connectivity + CoordAt(i)
      /\ scanned' = i
      /\ UNCHANGED <<dense_pc, inputVars, roots, searchVars, keptVars>>
  BY DEF TrimPosition
<1>2. bfs_list \in Seq(Vertices) /\ scanned \in Nat /\ connectivity \in Nat
  BY DEF DenseInv, DenseTypeOK
<1>3. /\ to_rm \in Seq(1 .. scanned) /\ IsInjective(to_rm)
      /\ Len(to_rm) = SmallerOf(scanned, num_to_rm)
      /\ connectivity = CoordsOf(1 .. scanned)
  BY <1>1 DEF DenseInv, TrimOK
<1>4. num_to_rm \in Nat /\ num_to_rm' = num_to_rm
  <2>1. Len(bfs_list) - prog_qubits + Cardinality(best_subset) \in Int
    BY <1>1, <1>2, PlatformFacts DEF DenseInv, CallOK
  <2>2. num_to_rm \in Nat
    BY <2>1 DEF num_to_rm
  <2>3. num_to_rm' = num_to_rm
    BY <1>1 DEF num_to_rm, inputVars, searchVars, keptVars
  <2> QED
    BY <2>2, <2>3
<1>5. Len(to_rm) \in Nat /\ DOMAIN to_rm = 1 .. Len(to_rm) /\ \A k \in DOMAIN to_rm : to_rm[k] \in 1 .. scanned
  BY <1>3, SeqFacts
<1>6. /\ to_rm' \in Seq(1 .. i) /\ IsInjective(to_rm')
      /\ Len(to_rm') = SmallerOf(i, num_to_rm)
  <2>1. CASE Len(to_rm) < num_to_rm
    <3>1. to_rm' = Append(to_rm, i)
      BY <1>1, <2>1
    <3>2. to_rm \in Seq(1 .. i) /\ i \in 1 .. i
      <4>1. \A k \in 1 .. Len(to_rm) : to_rm[k] \in 1 .. i
        BY <1>2, <1>5
      <4> QED
        BY <1>2, <1>3, <1>5, <4>1
    <3>3. /\ to_rm' \in Seq(1 .. i) /\ Len(to_rm') = Len(to_rm) + 1
          /\ (\A k \in 1 .. Len(to_rm) : to_rm'[k] = to_rm[k]) /\ to_rm'[Len(to_rm) + 1] = i
      BY <3>1, <3>2, AppendFacts
    <3>4. DOMAIN to_rm' = 1 .. Len(to_rm) + 1
      BY <3>3
    <3>5. ASSUME NEW a \in DOMAIN to_rm', NEW b \in DOMAIN to_rm', to_rm'[a] = to_rm'[b]
          PROVE  a = b
      <4>1. a \in 1 .. Len(to_rm) \/ a = Len(to_rm) + 1
        BY <1>5, <3>4
      <4>2. b \in 1 .. Len(to_rm) \/ b = Len(to_rm) + 1
        BY <1>5, <3>4
      <4>3. i \notin 1 .. scanned
        BY <1>2
      <4> QED
        BY <1>3, <1>5, <3>3, <3>5, <4>1, <4>2, <4>3 DEF IsInjective
    <3>6. Len(to_rm) = scanned
      BY <1>2, <1>3, <1>4, <2>1 DEF SmallerOf
    <3>7. Len(to_rm') = SmallerOf(i, num_to_rm)
      BY <1>2, <1>4, <2>1, <3>3, <3>6 DEF SmallerOf
    <3> QED
      BY <3>3, <3>5, <3>7 DEF IsInjective
  <2>2. CASE ~ Len(to_rm) < num_to_rm
    <3>1. \E r : \A k \in DOMAIN to_rm : to_rm'[k] = IF k = r THEN i ELSE to_rm[k]
      <4>1. CASE replacement(i) # 0
        <5>1. to_rm' = [to_rm EXCEPT ![replacement(i)] = i]
          BY <1>1, <2>2, <4>1
        <5> QED
          BY <5>1
      <4>2. CASE ~ replacement(i) # 0
        <5>1. to_rm' = to_rm
          BY <1>1, <2>2, <4>2
        <5>2. \A k \in DOMAIN to_rm : to_rm'[k] = IF k = 0 THEN i ELSE to_rm[k]
          BY <1>5, <5>1
        <5> QED
          BY <5>2
      <4> QED
        BY <4>1, <4>2
    <3>2. PICK r : \A k \in DOMAIN to_rm : to_rm'[k] = IF k = r THEN i ELSE to_rm[k]
      BY <3>1
    <3>3. to_rm' = [k \in 1 .. Len(to_rm) |-> to_rm'[k]]
      <4>1. CASE replacement(i) # 0
        BY <1>1, <1>5, <2>2, <4>1
      <4>2. CASE ~ replacement(i) # 0
        BY <1>1, <1>3, <1>5, <2>2, <4>2
      <4> QED
        BY <4>1, <4>2
    <3>4. \A k \in 1 .. Len(to_rm) : to_rm'[k] \in 1 .. i
      BY <1>2, <1>5, <3>2
    <3>5. to_rm' \in Seq(1 .. i) /\ Len(to_rm') = Len(to_rm) /\ DOMAIN to_rm' = 1 .. Len(to_rm)
      <4>1. Len(to_rm) \in Nat
        BY <1>5
      <4> HIDE DEF i, f
      <4> DEFINE t == to_rm'
                 S == 1 .. i
                 n == Len(to_rm)
      <4>2. n \in Nat /\ t = [k \in 1 .. n |-> t[k]] /\ \A k \in 1 .. n : t[k] \in S
        BY <3>3, <3>4, <4>1
      <4> HIDE DEF t, S, n
      <4>3. t \in Seq(S) /\ Len(t) = n /\ DOMAIN t = 1 .. n
        BY <4>2, SeqOfFunction
      <4> QED
        BY <4>3 DEF t, S, n

    <3>6. ASSUME NEW a \in DOMAIN to_rm', NEW b \in DOMAIN to_rm', to_rm'[a] = to_rm'[b]
          PROVE  a = b
      <4>1. i \notin 1 .. scanned
        BY <1>2
      <4> QED
        BY <1>3, <1>5, <3>2, <3>5, <3>6, <4>1 DEF IsInjective
    <3>7. Len(to_rm') = SmallerOf(i, num_to_rm)
      BY <1>2, <1>3, <1>4, <2>2, <3>5 DEF SmallerOf
    <3> QED
      BY <3>5, <3>6, <3>7 DEF IsInjective
  <2> QED
    BY <2>1, <2>2
<1>7. \A k \in DOMAIN bfs_list : f[k] \in Nat
  BY LinkFacts DEF DenseInv, CoordAt
<1>8. CoordsOf(1 .. i) = CoordAt(i) + CoordsOf(1 .. scanned)
  <2>1. 1 .. i = (1 .. scanned) \cup {i} /\ i \notin 1 .. scanned
    BY <1>2
  <2>2. i \in DOMAIN bfs_list /\ 1 .. scanned \subseteq DOMAIN bfs_list
    BY <1>1, <1>2
  <2>3. IsFiniteSet(1 .. scanned)
    BY <1>2, FS_Interval
  <2>4. (\A k \in 1 .. scanned : f[k] \in Int) /\ f[i] \in Int /\ f[i] = CoordAt(i)
    BY <1>7, <2>2
  <2> HIDE DEF f, i
  <2>5. SumFunctionOnSet(f, (1 .. scanned) \cup {i}) = f[i] + SumFunctionOnSet(f, 1 .. scanned)
    BY <2>1, <2>3, <2>4, SumInsert
  <2>6. SumFunctionOnSet(f, 1 .. i) = f[i] + SumFunctionOnSet(f, 1 .. scanned)
    BY <2>1, <2>5
  <2> QED
    BY <2>4, <2>6 DEF CoordsOf, f
<1>9. i \in DOMAIN bfs_list /\ CoordAt(i) \in Nat
  BY <1>1, <1>2, LinkFacts DEF DenseInv, CoordAt
<1>10. connectivity' = CoordsOf(1 .. i)
  BY <1>1, <1>2, <1>3, <1>8, <1>9
<1>11. connectivity' = CoordsOf(1 .. scanned)'
  <2>1. platform' = platform /\ bfs_list' = bfs_list /\ scanned' = i
    BY <1>1 DEF inputVars, searchVars
  <2>2. \A k : CoordAt(k)' = CoordAt(k)
    BY <2>1, SamePlatform DEF CoordAt
  <2> HIDE DEF i
  <2>3. CoordsOf(1 .. scanned)' = CoordsOf(1 .. i)
    BY <2>1, <2>2 DEF CoordsOf
  <2> QED
    BY <1>10, <2>3
<1>12. scanned' <= Len(bfs_list')
  BY <1>1, <1>2 DEF searchVars
<1>13. Len(to_rm') = SmallerOf(scanned, num_to_rm)'
  BY <1>1, <1>4, <1>6 DEF SmallerOf
<1>14. TrimOK'
  BY <1>1, <1>6, <1>11, <1>12, <1>13 DEF TrimOK
<1> QED
  BY <1>1, <1>2, <1>9, <1>14

(* What is left of a collection has the number that is compared, and as    *)
(* many vertices as are wanted if there were enough.                       *)
LEMMA TrimmedIsKept ==
  ASSUME DenseInv, dense_pc = "trim", scanned = Len(bfs_list)
  PROVE  /\ Kept \in SUBSET Vertices /\ Kept \cap mapped = {}
         /\ connectivity - SumRemoved = SumOfCoords(Kept)
         /\ Cardinality(Kept) = SmallerOf(Len(bfs_list), Wanted)
         /\ Kept # {}
<1> DEFINE D == DOMAIN bfs_list
           R == ToSet(to_rm)
           f == [k \in D |-> CoordAt(k)]
           g == [j \in DOMAIN to_rm |-> CoordAt(to_rm[j])]
           h == [v \in Kept |-> coord_value(v)]
<1>0. bfs_list \in Seq(Vertices) /\ bfs_list # <<>> /\ IsInjective(bfs_list) /\ Collected \cap mapped = {}
  BY DEF DenseInv, DenseTypeOK, CollectionOK
<1>1. D = 1 .. Len(bfs_list) /\ Len(bfs_list) \in Nat /\ Len(bfs_list) >= 1 /\ \A k \in D : bfs_list[k] \in Vertices
  BY <1>0, SeqFacts
<1>2. /\ to_rm \in Seq(D) /\ IsInjective(to_rm)
      /\ Len(to_rm) = SmallerOf(Len(bfs_list), num_to_rm)
      /\ connectivity = CoordsOf(D)
  BY <1>1 DEF DenseInv, TrimOK
<1>3. DOMAIN to_rm = 1 .. Len(to_rm) /\ Len(to_rm) \in Nat /\ \A j \in DOMAIN to_rm : to_rm[j] \in D
  <2> HIDE DEF D
  <2> QED
    BY <1>2, SeqFacts
<1>4. Kept = {bfs_list[k] : k \in D \ R}
  BY DEF Kept
<1>5. Kept \in SUBSET Vertices /\ Kept \cap mapped = {}
  <2>1. \A k \in D : bfs_list[k] \in Collected
    BY DEF Collected, ToSet
  <2> QED
    BY <1>0, <1>1, <1>4, <2>1
<1>6. IsFiniteSet(D) /\ Cardinality(D) = Len(bfs_list)
  BY <1>0, <1>1, FS_Interval
<1>7. R \subseteq D /\ IsFiniteSet(R) /\ Cardinality(R) = Len(to_rm)
  <2>1. R \subseteq D
    BY <1>3 DEF ToSet
  <2> HIDE DEF D
  <2>2. IsFiniteSet(R) /\ Cardinality(R) = Len(to_rm)
    BY <1>2, InjectiveSize
  <2> QED
    BY <2>1, <2>2
<1>8. IsFiniteSet(D \ R) /\ Cardinality(D \ R) = Len(bfs_list) - Len(to_rm)
  <2>1. D \cap R = R
    BY <1>7
  <2> HIDE DEF D, R
  <2>2. IsFiniteSet(D \ R) /\ Cardinality(D \ R) = Cardinality(D) - Cardinality(D \cap R)
    BY <1>6, FS_Difference
  <2> QED
    BY <1>6, <1>7, <2>1, <2>2
<1>9. Cardinality(Kept) = Len(bfs_list) - Len(to_rm)
  <2>1. D \ R \in SUBSET DOMAIN bfs_list
    OBVIOUS
  <2> HIDE DEF D, R
  <2>2. Cardinality({bfs_list[k] : k \in D \ R}) = Cardinality(D \ R)
    BY <1>0, <1>8, <2>1, PartSize
  <2> QED
    BY <1>4, <1>8, <2>2
<1>10. Wanted \in Int /\ Wanted >= 1 /\ num_to_rm = IF Len(bfs_list) > Wanted THEN Len(bfs_list) - Wanted ELSE 0
  <2>1. Cardinality(mapped) \in Nat /\ prog_qubits \in Nat
    BY PlatformFacts DEF DenseInv
  <2>2. best_subset = mapped /\ Cardinality(mapped) < prog_qubits
    BY DEF DenseInv, CallOK
  <2>3. Len(bfs_list) - prog_qubits + Cardinality(mapped) = Len(bfs_list) - Wanted /\ Wanted \in Int /\ Wanted >= 1
    BY <1>1, <2>1, <2>2 DEF Wanted
  <2>4. num_to_rm = IF Len(bfs_list) - Wanted > 0 THEN Len(bfs_list) - Wanted ELSE 0
    BY <2>2, <2>3 DEF num_to_rm
  <2> QED
    BY <1>1, <2>3, <2>4
<1>11. Cardinality(Kept) = SmallerOf(Len(bfs_list), Wanted)
  <2> DEFINE n == Len(bfs_list)
             m == Len(to_rm)
             c == num_to_rm
  <2>1. n \in Nat /\ n >= 1 /\ Wanted \in Int /\ Wanted >= 1
    BY <1>1, <1>10
  <2>2. m = IF n <= c THEN n ELSE c
    BY <1>2 DEF SmallerOf
  <2>3. c = IF n > Wanted THEN n - Wanted ELSE 0
    BY <1>10
  <2> HIDE DEF n, m, c
  <2>4. n - m = IF n <= Wanted THEN n ELSE Wanted
    BY <2>1, <2>2, <2>3
  <2> QED
    BY <1>9, <2>4 DEF n, m, SmallerOf
<1>12. Kept # {}
  <2>1. Cardinality(Kept) # 0
    BY <1>1, <1>10, <1>11 DEF SmallerOf
  <2> QED
    BY <2>1, FS_EmptySet
<1>13. \A k \in D : f[k] \in Int
  BY LinkFacts DEF DenseInv, CoordAt
<1>14. SumFunctionOnSet(f, D) = SumFunctionOnSet(f, D \ R) + SumFunctionOnSet(f, R)
  <2>1. (D \ R) \cup R = D /\ (D \ R) \cap R = {}
    BY <1>7
  <2> HIDE DEF D, R, f
  <2>2. SumFunctionOnSet(f, (D \ R) \cup R) = SumFunctionOnSet(f, D \ R) + SumFunctionOnSet(f, R)
    BY <1>7, <1>8, <1>13, <2>1, SumSplit
  <2> QED
    BY <2>1, <2>2
<1>15. SumFunctionOnSet(f, R) = SumFunctionOnSet(g, DOMAIN to_rm)
  <2>1. R = {to_rm[j] : j \in DOMAIN to_rm}
    BY DEF ToSet
  <2>2. IsFiniteSet(DOMAIN to_rm)
    BY <1>3, FS_Interval
  <2>3. \A x, y \in DOMAIN to_rm : to_rm[x] = to_rm[y] => x = y
    BY <1>2 DEF IsInjective
  <2>4. \A x \in DOMAIN to_rm : g[x] \in Int /\ f[to_rm[x]] = g[x]
    BY <1>3, <1>13
  <2> HIDE DEF D, R, f, g
  <2>5. SumFunctionOnSet(f, {to_rm[j] : j \in DOMAIN to_rm}) = SumFunctionOnSet(g, DOMAIN to_rm)
    BY <2>2, <2>3, <2>4, SumReindex
  <2> QED
    BY <2>1, <2>5
<1>16. SumFunctionOnSet(h, Kept) = SumFunctionOnSet(f, D \ R)
  <2>1. \A x, y \in D \ R : bfs_list[x] = bfs_list[y] => x = y
    BY <1>0 DEF IsInjective
  <2>2. \A x \in D \ R : f[x] \in Int /\ h[bfs_list[x]] = f[x]
    <3>1. ASSUME NEW x \in D \ R
          PROVE  bfs_list[x] \in Kept
      BY <1>4
    <3>2. ASSUME NEW x \in D \ R
          PROVE  h[bfs_list[x]] = f[x]
      BY <3>1 DEF CoordAt
    <3> HIDE DEF h, f
    <3> QED
      BY <1>13, <3>2
  <2> HIDE
 DEF D, R, f, h
  <2>3. SumFunctionOnSet(h, {bfs_list[k] : k \in D \ R}) = SumFunctionOnSet(f, D \ R)
    BY <1>8, <2>1, <2>2, SumReindex
  <2> QED
    BY <1>4, <2>3
<1>17. SumFunctionOnSet(f, D \ R) \in Int /\ SumFunctionOnSet(f, R) \in Int
  <2>1. (\A k \in D \ R : f[k] \in Int) /\ \A k \in R : f[k] \in Int
    BY <1>7, <1>13
  <2> HIDE DEF D, R, f
  <2> QED
    BY <1>7, <1>8, <2>1, SumIsInt
<1>18. connectivity - SumRemoved = SumOfCoords(Kept)
  <2>1. connectivity = SumFunctionOnSet(f, D)
    BY <1>2 DEF CoordsOf
  <2>2. SumRemoved = SumFunctionOnSet(g, DOMAIN to_rm)
    BY DEF SumRemoved
  <2>3. SumOfCoords(Kept) = SumFunctionOnSet(h, Kept)
    BY DEF SumOfCoords
  <2> HIDE DEF D, R, f, g, h
  <2> QED
    BY <1>14, <1>15, <1>16, <1>17, <2>1, <2>2, <2>3
<1> QED
  BY <1>5, <1>11, <1>12, <1>18

-----------------------------------------------------------------------------
LEMMA InputsKept == DenseNext => UNCHANGED inputVars
  BY DEF DenseNext, FindRoots, StartAtRoot, StartLayer, StartSource, Visit, StartTrim,
         TrimPosition, KeepBetter, ReturnSet

Visited(target) ==
  /\ targets' = targets \ {target}
  /\ vec_markers[target] = 0 => bfs_list' = Append(bfs_list, target) /\ num_left' = num_left - 1
  /\ vec_markers[target] # 0 => bfs_list' = bfs_list /\ num_left' = num_left
  /\ vec_markers[target] <= 1 =>
       /\ vec_markers' = [vec_markers EXCEPT ![target] = dense_iteration]
       /\ new_found_vertices' = Append(new_found_vertices, target)
  /\ ~ vec_markers[target] <= 1 =>
       vec_markers' = vec_markers /\ new_found_vertices' = new_found_vertices

LEMMA VisitsOne ==
  ASSUME DenseInv, Visit
  PROVE  \E target \in targets : Visited(target)
<1>1. targets \in SUBSET Nat /\ targets # {}
  BY PlatformFacts DEF DenseInv, DenseTypeOK, Visit
<1>2. Least(targets) \in targets
  BY <1>1, LeastExists
<1>3. Visited(Least(targets))
  BY DEF Visit, Visited
<1> QED
  BY <1>2, <1>3

LEMMA KindsStep ==

  ASSUME DenseInv, DenseNext
  PROVE  DenseTypeOK'
<1> USE DEF inputVars, searchVars, trimVars, keptVars
<1>0. Vertices' = Vertices /\ mapped' = mapped
  BY InputsKept, SamePlatform
<1>1. DenseTypeOK
  BY DEF DenseInv
<1>2. CASE FindRoots
  <2>1. RootsOf(best_subset) \subseteq Vertices
    BY DEF RootsOf
  <2> QED
    BY <1>0, <1>1, <1>2, <2>1 DEF FindRoots, DenseTypeOK
<1>3. CASE StartAtRoot
  <2>1. NextRoot \in Vertices
    BY <1>1, <1>3, NextRootIsRoot DEF StartAtRoot, DenseInv
  <2>2. <<NextRoot>> \in Seq(Vertices)
    BY <2>1
  <2>3. vec_markers' \in [Vertices -> Nat]
    BY <1>3 DEF StartAtRoot
  <2>4. num_left' \in Int
    BY <1>3, PlatformFacts DEF StartAtRoot, DenseInv, CallOK
  <2>5. <<>> \in Seq(Vertices)
    OBVIOUS
  <2> QED
    BY <1>0, <1>1, <1>3, <2>2, <2>3, <2>4, <2>5 DEF StartAtRoot, DenseTypeOK
<1>4. CASE StartLayer
  <2>1. <<>> \in Seq(Vertices)
    OBVIOUS
  <2> QED
    BY <1>0, <1>1, <1>4, <2>1 DEF StartLayer, DenseTypeOK
<1>5. CASE StartSource
  <2>1. sources \in Seq(Vertices) /\ sources # <<>>
    BY <1>1, <1>5 DEF StartSource, DenseTypeOK
  <2>2. Tail(sources) \in Seq(Vertices)
    BY <2>1, HeadTailFacts
  <2>3. Linked(Head(sources)) \subseteq Vertices
    BY DEF Linked
  <2> QED
    BY <1>0, <1>1, <1>5, <2>2, <2>3 DEF StartSource, DenseTypeOK
<1>6. CASE Visit
  <2>1. PICK target \in targets : Visited(target)
    BY <1>6, VisitsOne
  <2>2. target \in Vertices /\ vec_markers \in [Vertices -> Nat] /\ dense_iteration \in Nat
        /\ bfs_list \in Seq(Vertices) /\ new_found_vertices \in Seq(Vertices) /\ num_left \in Int
    BY <1>1 DEF DenseTypeOK
  <2>3. bfs_list' \in Seq(Vertices) /\ num_left' \in Int
    <3>1. CASE vec_markers[target] = 0
      <4>1. Append(bfs_list, target) \in Seq(Vertices)
        BY <2>2, AppendFacts
      <4>2. bfs_list' = Append(bfs_list, target) /\ num_left' = num_left - 1
        BY <2>1, <3>1 DEF Visited
      <4>3. num_left - 1 \in Int
        BY <2>2
      <4> QED
        BY <4>1, <4>2, <4>3

    <3>2. CASE vec_markers[target] # 0
      BY <2>1, <2>2, <3>2 DEF Visited
    <3> QED
      BY <3>1, <3>2
  <2>4. vec_markers' \in [Vertices -> Nat] /\ new_found_vertices' \in Seq(Vertices)
    <3>1. CASE vec_markers[target] <= 1
      <4>1. Append(new_found_vertices, target) \in Seq(Vertices)
        BY <2>2, AppendFacts
      <4>2. /\ vec_markers' = [vec_markers EXCEPT ![target] = dense_iteration]
            /\ new_found_vertices' = Append(new_found_vertices, target)
        BY <2>1, <3>1 DEF Visited
      <4>3. [vec_markers EXCEPT ![target] = dense_iteration] \in [Vertices -> Nat]
        BY <2>2
      <4> QED
        BY <4>1, <4>2, <4>3


    <3>2. CASE ~ vec_markers[target] <= 1
      BY <2>1, <2>2, <3>2 DEF Visited
    <3> QED
      BY <3>1, <3>2
  <2> QED
    BY <1>0, <1>1, <1>6, <2>1, <2>3, <2>4 DEF DenseTypeOK, Visited, Visit
<1>7. CASE StartTrim
  <2>1. <<>> \in Seq(1 .. Len(bfs_list))
    OBVIOUS
  <2> QED
    BY <1>0, <1>1, <1>7, <2>1 DEF StartTrim, DenseTypeOK
<1>8. CASE TrimPosition
  <2>1. connectivity' \in Nat /\ scanned' \in Nat /\ TrimOK'
    BY <1>8, TrimStep
  <2>2. dense_pc' = "trim" /\ bfs_list' = bfs_list
    BY <1>8 DEF TrimPosition
  <2>3. to_rm' \in Seq(1 .. scanned') /\ scanned' <= Len(bfs_list)
    BY <2>1, <2>2 DEF TrimOK
  <2>4. Len(bfs_list) \in Nat
    BY <1>1 DEF DenseTypeOK
  <2>5. to_rm' \in Seq(1 .. Len(bfs_list))
    <3>1. 1 .. scanned' \subseteq 1 .. Len(bfs_list)
      BY <2>1, <2>3, <2>4
    <3> QED
      BY <2>3, <3>1, SeqWidens
  <2> QED
    BY <1>0, <1>1, <1>8, <2>1, <2>2, <2>5 DEF TrimPosition, DenseTypeOK
<1>9. CASE KeepBetter
  <2>1. Kept \in SUBSET Vertices /\ connectivity - SumRemoved = SumOfCoords(Kept)
    BY <1>9, TrimmedIsKept DEF KeepBetter
  <2>2. SumOfCoords(Kept) \in Nat
    BY <2>1, SumOfCoordsIsNat DEF DenseInv
  <2>3. connectivity' \in Nat /\ max_connectivity' \in Nat /\ outcome' \subseteq Vertices
    BY <1>1, <1>9, <2>1, <2>2 DEF KeepBetter, DenseTypeOK
  <2>4. dense_pc' \in {"root", "finish"}
    BY <1>9 DEF KeepBetter
  <2> QED
    BY <1>0, <1>1, <1>9, <2>3, <2>4 DEF KeepBetter, DenseTypeOK
<1>10. CASE ReturnSet
  BY <1>0, <1>1, <1>10 DEF ReturnSet, DenseTypeOK
<1> QED
  BY <1>2, <1>3, <1>4, <1>5, <1>6, <1>7, <1>8, <1>9, <1>10 DEF DenseNext

LEMMA CallStep ==
  ASSUME DenseInv, DenseNext
  PROVE  CallOK'
<1> USE DEF inputVars, searchVars, trimVars, keptVars
<1>0. /\ platform' = platform /\ prog_qubits' = prog_qubits /\ mapped' = mapped
      /\ RootsOf(mapped)' = RootsOf(mapped)
  BY InputsKept, SamePlatform
<1>1. CallOK /\ dense_pc \in {"roots", "root", "search", "trim", "finish", "done"}
  BY DEF DenseInv, DenseTypeOK
<1>2. CASE FindRoots
  <2>1. best_subset = mapped
    BY <1>1, <1>2 DEF FindRoots, CallOK
  <2>2. Cardinality(mapped) \in Nat /\ prog_qubits \in Nat
    BY PlatformFacts DEF DenseInv
  <2> QED
    BY <1>0, <1>1, <1>2, <2>1, <2>2 DEF FindRoots, CallOK
<1>3. CASE StartAtRoot
  BY <1>0, <1>1, <1>3 DEF StartAtRoot, CallOK
<1>4. CASE StartLayer
  BY <1>0, <1>1, <1>4 DEF StartLayer, CallOK
<1>5. CASE StartSource
  BY <1>0, <1>1, <1>5 DEF StartSource, CallOK
<1>6. CASE Visit
  BY <1>0, <1>1, <1>6 DEF Visit, CallOK
<1>7. CASE StartTrim
  BY <1>0, <1>1, <1>7 DEF StartTrim, CallOK
<1>8. CASE TrimPosition
  BY <1>0, <1>1, <1>8 DEF TrimPosition, CallOK
<1>9. CASE KeepBetter
  BY <1>0, <1>1, <1>9 DEF KeepBetter, CallOK
<1>10. CASE ReturnSet
  BY <1>0, <1>1, <1>10 DEF ReturnSet, CallOK
<1> QED
  BY <1>2, <1>3, <1>4, <1>5, <1>6, <1>7, <1>8, <1>9, <1>10 DEF DenseNext

-----------------------------------------------------------------------------
LEMMA VisitCollects ==
  ASSUME DenseInv, Visit
  PROVE  CollectionOK'
<1>0. /\ Vertices' = Vertices /\ mapped' = mapped /\ prog_qubits' = prog_qubits /\ Wanted' = Wanted
      /\ dense_pc = "search" /\ dense_pc' = "search" /\ dense_iteration' = dense_iteration
      /\ targets # {}
  <2>1. UNCHANGED inputVars
    BY DEF Visit
  <2> QED
    BY <2>1, SamePlatform DEF Visit, inputVars, Wanted
<1>1. /\ bfs_list # <<>> /\ IsInjective(bfs_list) /\ Collected \cap mapped = {}
      /\ num_left = Wanted - Len(bfs_list)
      /\ \A v \in Vertices : vec_markers[v] > 0 <=> v \in Collected \cup mapped
      /\ dense_iteration >= 1 /\ dense_iteration >= 2
  BY <1>0 DEF DenseInv, CollectionOK
<1>2. PICK t \in targets : Visited(t)
  BY VisitsOne
<1>3. /\ t \in Vertices /\ bfs_list \in Seq(Vertices)
      /\ vec_markers \in [Vertices -> Nat] /\ dense_iteration \in Nat /\ Wanted \in Int
  BY PlatformFacts DEF DenseInv, DenseTypeOK
<1>4. Len(bfs_list) \in Nat /\ DOMAIN bfs_list = 1 .. Len(bfs_list)
  BY <1>3, SeqFacts
<1>5. /\ bfs_list' # <<>> /\ IsInjective(bfs_list') /\ ToSet(bfs_list') \cap mapped = {}
      /\ num_left' = Wanted - Len(bfs_list')
      /\ ToSet(bfs_list') = IF vec_markers[t] = 0 THEN Collected \cup {t} ELSE Collected
  <2>1. CASE vec_markers[t] # 0
    <3>1. bfs_list' = bfs_list /\ num_left' = num_left
      BY <1>2, <2>1 DEF Visited
    <3> QED
      BY <1>1, <2>1, <3>1 DEF Collected
  <2>2. CASE vec_markers[t] = 0
    <3>1. bfs_list' = Append(bfs_list, t) /\ num_left' = num_left - 1
      BY <1>2, <2>2 DEF Visited
    <3>2. t \notin Collected \cup mapped
      BY <1>1, <1>3, <2>2
    <3>3. /\ bfs_list' \in Seq(Vertices) /\ Len(bfs_list') = Len(bfs_list) + 1
          /\ \A k \in 1 .. Len(bfs_list) : bfs_list'[k] = bfs_list[k]
          /\ bfs_list'[Len(bfs_list) + 1] = t
          /\ ToSet(bfs_list') = Collected \cup {t}
      BY <1>3, <3>1, AppendFacts DEF Collected
    <3>4. DOMAIN bfs_list' = 1 .. Len(bfs_list) + 1
      BY <3>3
    <3>5. \A k \in 1 .. Len(bfs_list) : bfs_list[k] \in Collected
      BY <1>4 DEF Collected, ToSet
    <3>6. ASSUME NEW a \in DOMAIN bfs_list', NEW b \in DOMAIN bfs_list', bfs_list'[a] = bfs_list'[b]
          PROVE  a = b
      <4>1. a \in 1 .. Len(bfs_list) \/ a = Len(bfs_list) + 1
        BY <1>4, <3>4
      <4>2. b \in 1 .. Len(bfs_list) \/ b = Len(bfs_list) + 1
        BY <1>4, <3>4
      <4> QED
        BY <1>1, <1>4, <3>2, <3>3, <3>5, <3>6, <4>1, <4>2 DEF IsInjective
    <3>7. bfs_list' # <<>>
      BY <1>4, <3>3
    <3>8. num_left' = Wanted - Len(bfs_list')
      BY <1>1, <1>3, <1>4, <3>1, <3>3
    <3>9. (Collected \cup {t}) \cap mapped = {}
      BY <1>1, <3>2
    <3> QED
      BY <2>2, <3>3, <3>6, <3>7, <3>8, <3>9 DEF IsInjective
  <2> QED
    BY <2>1, <2>2
<1>6. ASSUME NEW v \in Vertices
      PROVE  vec_markers'[v] > 0 <=> v \in ToSet(bfs_list') \cup mapped
  <2>1. vec_markers'[v] = IF v = t /\ vec_markers[t] <= 1 THEN dense_iteration ELSE vec_markers[v]
    <3>1. CASE vec_markers[t] <= 1
      <4>1. vec_markers' = [vec_markers EXCEPT ![t] = dense_iteration]
        BY <1>2, <3>1 DEF Visited
      <4> QED
        BY <1>3, <3>1, <4>1
    <3>2. CASE ~ vec_markers[t] <= 1
      <4>1. vec_markers' = vec_markers
        BY <1>2, <3>2 DEF Visited
      <4> QED
        BY <3>2, <4>1
    <3> QED
      BY <3>1, <3>2
  <2>2. vec_markers[v] \in Nat /\ vec_markers[t] \in Nat
    BY <1>3
  <2>3. CASE v # t
    <3>1. v \in ToSet(bfs_list') <=> v \in Collected
      BY <1>5, <2>3
    <3> QED
      BY <1>1, <2>1, <2>3, <3>1
  <2>4. CASE v = t
    <3>1. vec_markers'[v] > 0
      BY <1>1, <1>3, <2>1, <2>2, <2>4
    <3>2. v \in ToSet(bfs_list') \cup mapped
      <4>1. CASE vec_markers[t] = 0
        BY <1>5, <2>4, <4>1
      <4>2. CASE vec_markers[t] # 0
        BY <1>1, <1>5, <2>2, <2>4, <4>2
      <4> QED
        BY <4>1, <4>2
    <3> QED
      BY <3>1, <3>2
  <2> QED
    BY <2>3, <2>4
<1>7. Collected' = ToSet(bfs_list')
  BY DEF Collected
<1> QED
  BY <1>0, <1>1, <1>5, <1>6, <1>7 DEF CollectionOK

LEMMA CollectionStep ==
  ASSUME DenseInv, DenseNext
  PROVE  CollectionOK'
<1> USE DEF inputVars, searchVars, trimVars, keptVars
<1>0. /\ platform' = platform /\ prog_qubits' = prog_qubits /\ mapped' = mapped
      /\ Vertices' = Vertices /\ Wanted' = Wanted
  BY InputsKept, SamePlatform DEF Wanted
<1>1. CollectionOK
  BY DEF DenseInv
<1>2. CASE FindRoots
  BY <1>2 DEF FindRoots, CollectionOK
<1>3. CASE StartAtRoot
  <2>1. NextRoot \in Vertices \ mapped
    BY <1>3, NextRootIsRoot DEF StartAtRoot, DenseInv
  <2>2. best_subset = mapped
    BY <1>3 DEF StartAtRoot, DenseInv, CallOK
  <2>3. bfs_list' = <<NextRoot>> /\ sources' = <<>> /\ targets' = {} /\ dense_iteration' = 1
    BY <1>3 DEF StartAtRoot
  <2>4. num_left' = Wanted - 1
    BY <1>3, <2>2 DEF StartAtRoot, Wanted
  <2>5. Collected' = {NextRoot}
    BY <2>3 DEF Collected, ToSet
  <2>6. vec_markers' = [v \in Vertices |-> IF v = NextRoot \/ v \in mapped THEN 1 ELSE 0]
    BY <1>3, <2>2 DEF StartAtRoot
  <2>7.
 \A v \in Vertices : vec_markers'[v] > 0 <=> v \in {NextRoot} \cup mapped
    BY <2>6
  <2>8. bfs_list' # <<>> /\ Len(bfs_list') = 1 /\ IsInjective(bfs_list')
    BY <2>3 DEF IsInjective
  <2> QED
    BY <1>0, <2>1, <2>3, <2>4, <2>5, <2>7, <2>8 DEF CollectionOK
<1>4. CASE StartLayer
  <2>1. Collected' = Collected
    BY <1>4 DEF StartLayer, Collected
  <2>2. dense_iteration \in Nat
    BY DEF DenseInv, DenseTypeOK
  <2> QED
    BY <1>0, <1>1, <1>4, <2>1, <2>2 DEF StartLayer, CollectionOK
<1>5. CASE StartSource
  <2>1. Collected' = Collected
    BY <1>5 DEF StartSource, Collected
  <2> QED
    BY <1>0, <1>1, <1>5, <2>1 DEF StartSource, CollectionOK
<1>6. CASE Visit
  BY <1>6, VisitCollects
<1>7. CASE StartTrim
  <2>1. Collected' = Collected
    BY <1>7 DEF StartTrim, Collected
  <2> QED
    BY <1>0, <1>1, <1>7, <2>1 DEF StartTrim, CollectionOK
<1>8. CASE TrimPosition
  <2>1. Collected' = Collected
    BY <1>8 DEF TrimPosition, Collected
  <2> QED
    BY <1>0, <1>1, <1>8, <2>1 DEF TrimPosition, CollectionOK
<1>9. CASE KeepBetter
  BY <1>9 DEF KeepBetter, CollectionOK
<1>10. CASE ReturnSet
  BY <1>10 DEF ReturnSet, CollectionOK
<1> QED
  BY <1>2, <1>3, <1>4, <1>5, <1>6, <1>7, <1>8, <1>9, <1>10 DEF DenseNext

-----------------------------------------------------------------------------
(* A search that runs out of vertices to expand has been everywhere.       *)
LEMMA SearchedEverywhere ==
  ASSUME DenseInv, StartTrim, IsConnected
  PROVE  num_left <= 0
<1>0. /\ dense_pc = "search" /\ sources = <<>> /\ targets = {}
      /\ ~ (Len(new_found_vertices) > 0 /\ num_left > 0)
  BY DEF StartTrim
<1>1. num_left \in Int /\ new_found_vertices \in Seq(Vertices) /\ bfs_list \in Seq(Vertices)
  BY DEF DenseInv, DenseTypeOK
<1>2. CASE ~ num_left > 0
  BY <1>1, <1>2
<1>3. CASE ~ Len(new_found_vertices) > 0
  <2>1. ToSet(new_found_vertices) = {} /\ ToSet(sources) = {}
    <3>1. Len(new_found_vertices) = 0 /\ DOMAIN new_found_vertices = 1 .. Len(new_found_vertices)
      BY <1>1, <1>3, SeqFacts
    <3> QED
      BY <1>0, <3>1 DEF ToSet
  <2>2. \A v \in Expanded : Settled(v)
    BY <1>0, <2>1 DEF DenseInv, ClosureOK
  <2>3. \A v \in Expanded : \A w \in Linked(v) : w \in Expanded
    BY <1>0, <2>2 DEF Settled
  <2>4. /\ bfs_list # <<>> /\ IsInjective(bfs_list)
        /\ num_left = Wanted - Len(bfs_list)
        /\ \A v \in Vertices : vec_markers[v] > 0 <=> v \in Collected \cup mapped
    BY <1>0 DEF DenseInv, CollectionOK
  <2>5. bfs_list[1] \in Vertices /\ bfs_list[1] \in Collected /\ Len(bfs_list) \in Nat
    <3>1. 1 \in DOMAIN bfs_list /\ Len(bfs_list) \in Nat
      BY <1>1, <2>4
    <3> QED
      BY <1>1, <3>1, SeqFacts DEF Collected, ToSet
  <2>6. Expanded \in SUBSET Vertices /\ Expanded # {}
    BY <2>5 DEF Expanded
  <2>7. Expanded = Vertices
    BY <2>3, <2>6 DEF IsConnected
  <2>8. ASSUME NEW v \in Vertices
        PROVE  v \in Collected \cup mapped
    <3>1. v = bfs_list[1] \/ vec_markers[v] >= 2
      BY <2>7 DEF Expanded
    <3>2. vec_markers[v] \in Nat
      BY DEF DenseInv, DenseTypeOK
    <3> QED
      BY <2>4, <2>5, <3>1, <3>2
  <2>9. IsFiniteSet(Collected) /\ Cardinality(Collected) = Len(bfs_list)
    BY <1>1, <2>4, InjectiveSize DEF Collected
  <2>10. /\ IsFiniteSet(Vertices) /\ Cardinality(Vertices) = platform.n /\ platform.n \in Nat
         /\ IsFiniteSet(mapped) /\ Cardinality(mapped) \in Nat
         /\ prog_qubits \in Nat /\ prog_qubits <= platform.n
    BY PlatformFacts DEF DenseInv
  <2>11. /\ IsFiniteSet(Collected \cup mapped)
         /\ Cardinality(Collected \cup mapped) = Cardinality(Collected) + Cardinality(mapped) - Cardinality(Collected \cap mapped)
    BY <2>9, <2>10, FS_Union
  <2>12. Cardinality(Vertices) <= Cardinality(Collected \cup mapped)
    BY <2>8, <2>11, FS_Subset
  <2>13. Cardinality(Collected \cap mapped) \in Nat
    <3>1. IsFiniteSet(Collected \cap mapped)
      BY <2>9, FS_Intersection
    <3> QED
      BY <3>1, FS_CardinalityType
  <2>14. platform.n <= Len(bfs_list) + Cardinality(mapped)
    BY <2>5, <2>9, <2>10, <2>11, <2>12, <2>13
  <2> QED
    BY <2>4, <2>5, <2>10, <2>14 DEF Wanted
<1> QED
  BY <1>0, <1>2, <1>3

LEMMA ClosureStep ==
  ASSUME DenseInv, DenseNext
  PROVE  ClosureOK'
<1> USE DEF inputVars, searchVars, trimVars, keptVars
<1>0. /\ platform' = platform /\ Vertices' = Vertices /\ (IsConnected' <=> IsConnected)
      /\ \A v : Linked(v)' = Linked(v)
  BY InputsKept, SamePlatform
<1>1. ClosureOK /\ bfs_list \in Seq(Vertices) /\ sources \in Seq(Vertices)
  BY DEF DenseInv, DenseTypeOK
<1>2. CASE FindRoots
  BY <1>2 DEF FindRoots, ClosureOK
<1>3. CASE StartAtRoot
  <2>1. bfs_list' = <<NextRoot>> /\ new_found_vertices' = <<NextRoot>> /\ dense_pc' = "search"
    BY <1>3 DEF StartAtRoot
  <2>2. \A v \in Vertices : ~ vec_markers'[v] >= 2
    BY <1>3 DEF StartAtRoot
  <2>3. \A v \in Expanded' : v = NextRoot
    BY <1>0, <2>1, <2>2 DEF Expanded
  <2>4. NextRoot \in ToSet(new_found_vertices')
    BY <2>1 DEF ToSet
  <2> QED
    BY <2>1, <2>3, <2>4 DEF ClosureOK
<1>4. CASE StartLayer
  <2>1. /\ dense_pc = "search" /\ dense_pc' = "search" /\ sources = <<>> /\ targets = {} /\ targets' = {}
        /\ sources' = new_found_vertices /\ bfs_list' = bfs_list /\ vec_markers' = vec_markers
    BY <1>4 DEF StartLayer
  <2>2. Expanded' = Expanded
    BY <1>0, <2>1 DEF Expanded
  <2>3. \A v : Settled(v)' <=> Settled(v)
    BY <1>0, <2>1, <2>2 DEF Settled
  <2>4. ToSet(sources) = {}
    BY <2>1 DEF ToSet
  <2> QED
    BY <1>1, <2>1, <2>2, <2>3, <2>4 DEF ClosureOK
<1>5. CASE StartSource
  <2>1. /\ dense_pc = "search" /\ dense_pc' = "search" /\ sources # <<>> /\ targets = {}
        /\ targets' = Linked(Head(sources)) /\ sources' = Tail(sources)
        /\ bfs_list' = bfs_list /\ vec_markers' = vec_markers /\ new_found_vertices' = new_found_vertices
    BY <1>5 DEF StartSource
  <2>2. Expanded' = Expanded
    BY <1>0, <2>1 DEF Expanded
  <2>3. \A v : Settled(v) => Settled(v)'
    BY <1>0, <2>1, <2>2 DEF Settled
  <2>5. ToSet(sources) = {Head(sources)}
 \cup ToSet(sources')
    BY <1>1, <2>1, HeadTailFacts
  <2>6. \A v \in ToSet(sources) : v \in ToSet(sources') \/ Settled(v)'
    <3>1. ASSUME NEW v, v = Head(sources)
          PROVE  Settled(v)'
      BY <1>0, <2>1, <3>1 DEF Settled
    <3> QED
      BY <2>5, <3>1
  <2> QED
    BY <1>1, <2>1, <2>2, <2>3, <2>6 DEF ClosureOK
<1>6. CASE Visit
  <2>1. dense_pc = "search" /\ dense_pc' = "search" /\ sources' = sources
    BY <1>6 DEF Visit
  <2>2. PICK t \in targets : Visited(t)
    BY <1>6, VisitsOne
  <2>3. /\ t \in Vertices /\ vec_markers \in [Vertices -> Nat] /\ new_found_vertices \in Seq(Vertices)
        /\ dense_iteration \in Nat /\ dense_iteration >= 2 /\ bfs_list # <<>>
    <3>1. t \in Vertices /\ vec_markers \in [Vertices -> Nat] /\ new_found_vertices \in Seq(Vertices) /\ dense_iteration \in Nat
      BY <2>2 DEF DenseInv, DenseTypeOK
    <3>2. bfs_list # <<>> /\ dense_iteration >= 2
      BY <2>1, <2>2 DEF DenseInv, CollectionOK
    <3> QED
      BY <3>1, <3>2
  <2>4. bfs_list'[1]
 = bfs_list[1]
    <3>1. CASE vec_markers[t] = 0
      <4>1. bfs_list' = Append(bfs_list, t)
        BY <2>2, <3>1 DEF Visited
      <4>2. 1 \in 1 .. Len(bfs_list)
        BY <1>1, <2>3
      <4> QED
        BY <1>1, <2>3, <4>1, <4>2, AppendFacts
    <3>2. CASE vec_markers[t] # 0
      BY <2>2, <3>2 DEF Visited
    <3> QED
      BY <3>1, <3>2
  <2>5. \A v \in Vertices : vec_markers'[v] >= 2 <=> vec_markers[v] >= 2 \/ v = t
    <3>1. CASE vec_markers[t] <= 1
      <4>1. vec_markers' = [vec_markers EXCEPT ![t] = dense_iteration]
        BY <2>2, <3>1 DEF Visited
      <4> QED
        BY <2>3, <3>1, <4>1
    <3>2. CASE ~ vec_markers[t] <= 1
      <4>1. vec_markers' = vec_markers
        BY <2>2, <3>2 DEF Visited
      <4>2. vec_markers[t] >= 2
        BY <2>3, <3>2
      <4> QED
        BY <4>1, <4>2
    <3> QED
      BY <3>1, <3>2
  <2>6. \A v : v \in Expanded' <=> v \in Expanded \/ v = t
    BY <1>0, <2>3, <2>4, <2>5 DEF Expanded
  <2>7. targets' = targets \ {t}
    BY <2>2 DEF Visited
  <2>8. \A v : Settled(v) => Settled(v)'
    BY <1>0, <2>6, <2>7 DEF Settled
  <2>9. ToSet(new_found_vertices) \subseteq ToSet(new_found_vertices')
    <3>1. CASE vec_markers[t] <= 1
      <4>1. new_found_vertices' = Append(new_found_vertices, t)
        BY <2>2, <3>1 DEF Visited
      <4>2. ToSet(new_found_vertices') = ToSet(new_found_vertices) \cup {t}
        BY <2>3, <4>1, AppendFacts
      <4> QED
        BY <4>2
    <3>2. CASE ~ vec_markers[t] <= 1
      BY <2>2, <3>2 DEF Visited
    <3> QED
      BY <3>1, <3>2
  <2>10. t \in Expanded \/ t \in ToSet(new_found_vertices')
    <3>1. CASE vec_markers[t] <= 1
      <4>1. new_found_vertices' = Append(new_found_vertices, t)
        BY <2>2, <3>1 DEF Visited
      <4>2. ToSet(new_found_vertices') = ToSet(new_found_vertices) \cup {t}
        BY <2>3, <4>1, AppendFacts
      <4> QED
        BY <4>2
    <3>2. CASE ~ vec_markers[t] <= 1
      BY <2>3, <3>2 DEF Expanded
    <3> QED
      BY <3>1, <3>2
  <2> QED
    BY <1>1, <2>1, <2>6, <2>8, <2>9, <2>10 DEF ClosureOK
<1>7. CASE StartTrim
  <2>1. dense_pc' = "trim" /\ num_left' = num_left
    BY <1>7 DEF StartTrim
  <2> QED
    BY <1>0, <1>7, <2>1, SearchedEverywhere DEF ClosureOK
<1>8. CASE TrimPosition
  BY <1>0, <1>1, <1>8 DEF TrimPosition, ClosureOK
<1>9. CASE KeepBetter
  BY <1>9 DEF KeepBetter, ClosureOK
<1>10. CASE ReturnSet
  BY <1>10 DEF ReturnSet, ClosureOK
<1> QED
  BY <1>2, <1>3, <1>4, <1>5, <1>6, <1>7, <1>8, <1>9, <1>10 DEF DenseNext

-----------------------------------------------------------------------------
LEMMA TrimInvStep ==
  ASSUME DenseInv, DenseNext
  PROVE  TrimOK'
<1>1. bfs_list \in Seq(Vertices) /\ dense_pc \in {"roots", "root", "search", "trim", "finish", "done"}
  BY DEF DenseInv, DenseTypeOK
<1>2. CASE StartTrim
  <2>1. to_rm' = <<>> /\ scanned' = 0 /\ connectivity' = 0 /\ bfs_list' = bfs_list
    BY <1>2 DEF StartTrim, searchVars
  <2>2. num_to_rm' = num_to_rm /\ num_to_rm \in Nat
    <3>1. num_to_rm' = num_to_rm
      BY <1>2 DEF StartTrim, num_to_rm, inputVars, searchVars, keptVars
    <3>2. Len(bfs_list) \in Nat /\ best_subset = mapped /\ Cardinality(mapped) \in Nat /\ prog_qubits \in Nat
      BY <1>1, <1>2, PlatformFacts DEF StartTrim, DenseInv, CallOK
    <3> QED
      BY <3>1, <3>2 DEF num_to_rm
  <2>3. CoordsOf(1 .. scanned)' = 0
    <3>1. 1 .. scanned' = {}
      BY <2>1
    <3>2. CoordsOf(1 .. scanned)' = SumFunctionOnSet([k \in DOMAIN bfs_list |-> CoordAt(k)]', {})
      BY <3>1 DEF CoordsOf
    <3> QED
      BY <3>2, SumEmpty
  <2>4. to_rm' \in Seq(1 .. scanned') /\ IsInjective(to_rm') /\ Len(to_rm') = 0
    BY <2>1 DEF IsInjective
  <2>5. SmallerOf(scanned, num_to_rm)' = 0
    BY <2>1, <2>2 DEF SmallerOf
  <2>6. scanned' <= Len(bfs_list')
    BY <1>1, <2>1
  <2> QED
    BY <2>1, <2>3, <2>4, <2>5, <2>6 DEF TrimOK
<1>3. CASE TrimPosition
  BY <1>3, TrimStep
<1>4. CASE FindRoots \/ StartAtRoot \/ StartLayer \/ StartSource \/ Visit \/ KeepBetter \/ ReturnSet
  <2>1. dense_pc' # "trim"
    BY <1>4 DEF FindRoots, StartAtRoot, StartLayer, StartSource, Visit, KeepBetter, ReturnSet
  <2> QED
    BY <2>1 DEF TrimOK
<1> QED
  BY <1>2, <1>3, <1>4 DEF DenseNext

(* The best collection is replaced by one that is trimmed only.            *)
LEMMA BestStep ==
  ASSUME DenseInv, DenseNext
  PROVE  BestOK' /\ ConnectivityIsOfOutcome'
<1> USE DEF inputVars, searchVars, trimVars, keptVars
<1>0. /\ platform' = platform /\ prog_qubits' = prog_qubits /\ mapped' = mapped /\ Wanted' = Wanted
      /\ (IsConnected' <=> IsConnected) /\ \A S : SumOfCoords(S)' = SumOfCoords(S)
  BY InputsKept, SamePlatform DEF Wanted
<1>1. BestOK /\ ConnectivityIsOfOutcome
  BY DEF DenseInv
<1>2. ASSUME UNCHANGED <<max_connectivity, outcome>>
      PROVE  ConnectivityIsOfOutcome'
  BY <1>0, <1>1, <1>2 DEF ConnectivityIsOfOutcome
<1>3. CASE FindRoots
  <2>1. ConnectivityIsOfOutcome'
    BY <1>2, <1>3 DEF FindRoots
  <2>2. IsConnected /\ dense_pc' = "root" => roots' # {}
    <3>1. best_subset = mapped
      BY <1>3 DEF FindRoots, DenseInv, CallOK
    <3>2. dense_pc' = "root" => Cardinality(mapped) < prog_qubits
      <4>1. Cardinality(mapped) \in Nat /\ prog_qubits \in Nat
        BY PlatformFacts DEF DenseInv
      <4> QED
        BY <1>3, <3>1, <4>1 DEF FindRoots
    <3>3. dense_pc' = "root" => roots' = RootsOf(mapped)
      BY <1>3, <3>1 DEF FindRoots
    <3> QED
      BY <3>2, <3>3, RootsExist DEF DenseInv
  <2>3. outcome' = outcome /\ outcome = {} /\ dense_pc' \in {"root", "done"}
    BY <1>1, <1>3 DEF FindRoots, BestOK
  <2> QED
    BY <1>0, <2>1, <2>2, <2>3 DEF BestOK
<1>4. CASE StartAtRoot
  BY <1>0, <1>1, <1>2, <1>4 DEF StartAtRoot, BestOK
<1>5. CASE StartLayer
  BY <1>0, <1>1, <1>2, <1>5 DEF StartLayer, BestOK
<1>6. CASE StartSource
  BY <1>0, <1>1, <1>2, <1>6 DEF StartSource, BestOK
<1>7. CASE Visit
  BY <1>0, <1>1, <1>2, <1>7 DEF Visit, BestOK
<1>8. CASE StartTrim
  BY <1>0, <1>1, <1>2, <1>8 DEF StartTrim, BestOK
<1>9. CASE TrimPosition
  BY <1>0, <1>1, <1>2, <1>9 DEF TrimPosition, BestOK
<1>10. CASE KeepBetter
  <2>1. /\ dense_pc = "trim" /\ scanned = Len(bfs_list)
        /\ dense_pc' = IF max_connectivity' = 8 * prog_qubits THEN "finish" ELSE "root"
        /\ \/ /\ connectivity - SumRemoved > max_connectivity
              /\ max_connectivity' = connectivity - SumRemoved /\ outcome' = Kept
           \/ /\ ~ connectivity - SumRemoved > max_connectivity
              /\ max_connectivity' = max_connectivity /\ outcome' = outcome
    BY <1>10 DEF KeepBetter
  <2>2. /\ Kept \in SUBSET Vertices /\ Kept \cap mapped = {}
        /\ connectivity - SumRemoved = SumOfCoords(Kept)
        /\ Cardinality(Kept) = SmallerOf(Len(bfs_list), Wanted)
        /\ Kept # {}
    BY <2>1, TrimmedIsKept
  <2>3. /\ max_connectivity \in Nat /\ SumOfCoords(Kept) \in Nat /\ bfs_list \in Seq(Vertices)
        /\ prog_qubits \in Nat /\ prog_qubits >= 1 /\ Wanted \in Int
    BY <2>2, SumOfCoordsIsNat, PlatformFacts DEF DenseInv, DenseTypeOK
  <2>4. ConnectivityIsOfOutcome'
    BY <1>0, <1>1, <2>1, <2>2 DEF ConnectivityIsOfOutcome
  <2>5. Cardinality(Kept) <= Wanted /\ (IsConnected => Cardinality(Kept) = Wanted)
    <3>1. Len(bfs_list) \in Nat
      BY <2>3
    <3>2. num_left = Wanted - Len(bfs_list)
      BY <2>1 DEF DenseInv, CollectionOK
    <3>3. IsConnected => num_left <= 0
      BY <2>1 DEF DenseInv, ClosureOK
    <3> QED
      BY <2>2, <2>3, <3>1, <3>2, <3>3 DEF SmallerOf
  <2>6. max_connectivity' # 0 => outcome' # {}
    <3>1. SumOfCoords({}) = 0
      BY SumEmpty DEF SumOfCoords
    <3> QED
      BY <1>1, <2>1, <2>2, <3>1 DEF ConnectivityIsOfOutcome
  <2>7. dense_pc' = "finish" => outcome' # {}
    BY <2>1, <2>3, <2>6
  <2>8. IsConnected /\ platform.n > 1 => outcome' # {}
    <3> SUFFICES ASSUME IsConnected, platform.n > 1
                 PROVE  max_connectivity' # 0
      BY <2>6
    <3>1. SumOfCoords(Kept) > 0
      BY <2>2, ConnectedSum DEF DenseInv
    <3> QED
      BY <2>1, <2>2, <2>3, <3>1
  <2>9. outcome' \cap mapped = {} /\ (outcome' # {} => Cardinality(outcome') <= Wanted)
        /\ (IsConnected /\ outcome' # {} => Cardinality(outcome') = Wanted)
    BY <1>1, <2>1, <2>2, <2>5 DEF BestOK
  <2>10. dense_pc' # "roots"
    BY <2>1
  <2> QED
    BY <1>0, <2>4, <2>7, <2>8, <2>9, <2>10 DEF BestOK
<1>11. CASE ReturnSet
  BY <1>0, <1>1, <1>2, <1>11 DEF ReturnSet, BestOK
<1> QED
  BY <1>3, <1>4, <1>5, <1>6, <1>7, <1>8, <1>9, <1>10, <1>11 DEF DenseNext

LEMMA AnswerStep ==
  ASSUME DenseInv, DenseNext
  PROVE  AnswerOK'
<1> USE DEF inputVars, searchVars, trimVars, keptVars
<1>0. /\ platform' = platform /\ prog_qubits' = prog_qubits /\ mapped' = mapped
      /\ (IsConnected' <=> IsConnected)
  BY InputsKept, SamePlatform
<1>1. Cardinality(mapped) \in Nat /\ IsFiniteSet(mapped) /\ prog_qubits \in Nat
  BY PlatformFacts DEF DenseInv
<1>2. CASE FindRoots
  <2>1. best_subset' = mapped
    BY <1>2 DEF FindRoots, DenseInv, CallOK
  <2>2. dense_pc' = "done" => Cardinality(mapped) >= prog_qubits
    BY <1>2, <2>1 DEF FindRoots
  <2> QED
    BY <1>0, <2>1, <2>2 DEF AnswerOK
<1>3. CASE ReturnSet
  <2>1. best_subset' = mapped \cup outcome
    BY <1>3 DEF ReturnSet, DenseInv, CallOK
  <2>2. outcome \cap mapped = {} /\ IsFiniteSet(outcome)
    BY PlatformFacts, FS_Subset DEF DenseInv, DenseTypeOK, BestOK
  <2>3. Cardinality(mapped \cup outcome) = Cardinality(mapped) + Cardinality(outcome)
    <3>1. mapped \cap outcome = {}
      BY <2>2
    <3>2. Cardinality(mapped \cup outcome) = Cardinality(mapped) + Cardinality(outcome) - Cardinality(mapped \cap outcome)
      BY <1>1, <2>2, FS_Union
    <3>3. Cardinality(outcome) \in Nat
      BY <2>2, FS_CardinalityType
    <3> QED
      BY <1>1, <3>1, <3>2, <3>3, FS_EmptySet
  <2>4. Cardinality(outcome) \in Nat
    BY <2>2, FS_CardinalityType
  <2>5. outcome = {} => best_subset' = mapped
    BY <2>1
  <2>6. outcome # {} => Cardinality(best_subset') <= prog_qubits
    BY <1>1, <2>1, <2>3, <2>4 DEF DenseInv, BestOK, Wanted
  <2>7. IsConnected /\ platform.n > 1 => Cardinality(best_subset') >= prog_qubits
    <3> SUFFICES ASSUME IsConnected, platform.n > 1
                 PROVE  Cardinality(best_subset') >= prog_qubits
      OBVIOUS
    <3>1. outcome # {}
      BY <1>3 DEF ReturnSet, DenseInv, BestOK
    <3>2. Cardinality(outcome) = prog_qubits - Cardinality(mapped)
      BY <3>1 DEF DenseInv, BestOK, Wanted
    <3> QED
      BY <1>1, <2>1, <2>3, <2>4, <3>2
  <2>8. mapped \subseteq best_subset'
    BY <2>1
  <2> QED
    BY <1>0, <2>5, <2>6, <2>7, <2>8 DEF AnswerOK
<1>4. CASE StartAtRoot \/ StartLayer \/ StartSource \/ Visit \/ StartTrim \/ TrimPosition \/ KeepBetter
  <2>1. dense_pc' # "done"
    BY <1>4 DEF StartAtRoot, StartLayer, StartSource, Visit, StartTrim, TrimPosition, KeepBetter
  <2> QED
    BY <2>1 DEF AnswerOK
<1> QED
  BY <1>2, <1>3, <1>4 DEF DenseNext

-----------------------------------------------------------------------------
LEMMA DenseStart == DenseInit => DenseInv
<1> SUFFICES ASSUME DenseInit
             PROVE  DenseInv
  OBVIOUS
<1>1. /\ dense_pc = "roots" /\ best_subset = mapped /\ mapped \subseteq Vertices
      /\ roots = {} /\ targets = {} /\ outcome = {}
      /\ bfs_list = <<>> /\ new_found_vertices = <<>> /\ sources = <<>>
      /\ vec_markers = [v \in Vertices |-> 0] /\ num_left = 0
      /\ dense_iteration = 0 /\ scanned = 0 /\ connectivity = 0 /\ max_connectivity = 0
      /\ platform \in Platforms /\ prog_qubits \in 1 .. platform.n
  BY DEF DenseInit, Vertices
<1>2. DenseTypeOK
  <2>1. <<>> \in Seq(Vertices) /\ vec_markers \in [Vertices -> Nat]
    BY <1>1
  <2> QED
    BY <1>1, <2>1 DEF DenseTypeOK
<1>3. ConnectivityIsOfOutcome
  BY <1>1, SumEmpty DEF ConnectivityIsOfOutcome, SumOfCoords
<1>4. CallOK
  BY <1>1 DEF CallOK
<1>5. CollectionOK /\ ClosureOK /\ TrimOK /\ BestOK /\ AnswerOK
  BY <1>1 DEF CollectionOK, ClosureOK, TrimOK, BestOK, AnswerOK
<1> QED
  BY <1>2, <1>3, <1>4, <1>5 DEF DenseInv

LEMMA DenseStutter ==
  ASSUME DenseInv, UNCHANGED denseVars
  PROVE  DenseInv'
<1> USE DEF denseVars, inputVars, searchVars, trimVars, keptVars
<1>1. /\ Vertices' = Vertices /\ (IsConnected' <=> IsConnected)
      /\ \A v : Linked(v)' = Linked(v) /\ coord_value(v)' = coord_value(v)
      /\ \A S : RootsOf(S)' = RootsOf(S) /\ SumOfCoords(S)' = SumOfCoords(S)
  BY SamePlatform
<1>2. Wanted' = Wanted /\ Collected' = Collected /\ Expanded' = Expanded
  BY <1>1 DEF Wanted, Collected, Expanded
<1>3. \A v : Settled(v)' <=> Settled(v)
  BY <1>1, <1>2 DEF Settled
<1>4. \A k : CoordAt(k)' = CoordAt(k)
  BY <1>1 DEF CoordAt
<1>5. DenseTypeOK' /\ ConnectivityIsOfOutcome' /\ CallOK'
  BY <1>1 DEF DenseInv, DenseTypeOK, ConnectivityIsOfOutcome, CallOK
<1>6. CollectionOK' /\ ClosureOK'
  BY <1>1, <1>2, <1>3 DEF DenseInv, CollectionOK, ClosureOK
<1>7. TrimOK'
  <2>1. CoordsOf(1 .. scanned)' = CoordsOf(1 .. scanned)
    BY <1>4 DEF CoordsOf
  <2>2. SmallerOf(scanned, num_to_rm)' = SmallerOf(scanned, num_to_rm)
    BY DEF SmallerOf, num_to_rm
  <2> QED
    BY <2>1, <2>2 DEF DenseInv, TrimOK
<1>8. BestOK' /\ AnswerOK'
  BY <1>1, <1>2 DEF DenseInv, BestOK, AnswerOK
<1> QED
  BY <1>5, <1>6, <1>7, <1>8 DEF DenseInv

(* Every search keeps the invariant.                                       *)
THEOREM DenseSetInductive == DenseSpec => []DenseInv
<1>1. DenseInv /\ [DenseNext]_denseVars => DenseInv'
  <2>1. ASSUME DenseInv, DenseNext
        PROVE  DenseInv'
    BY <2>1, KindsStep, CallStep, CollectionStep, ClosureStep, TrimInvStep, BestStep, AnswerStep
       DEF DenseInv
  <2> QED
    BY <2>1, DenseStutter
<1> QED
  BY <1>1, DenseStart, PTL DEF DenseSpec

(* What findBestDenseSet promises its callers: the qubits in use stay in   *)
(* the set, it is never larger than asked for, and on a connected platform *)
(* with a link it is as large, however the qubits in use lie around a      *)
(* root; the number that decides between collections is that of the one    *)
(* that is kept.                                                           *)
THEOREM DenseSetAnswers == DenseSpec => []AnswersAsPromised
<1>1. DenseInv => AnswersAsPromised
  BY DEF DenseInv, AnswerOK, AnswersAsPromised, ExtendsMappedSet, FindsEnoughQubits
<1> QED
  BY <1>1, DenseSetInductive, PTL
==============================================================================
