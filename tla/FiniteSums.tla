------------------------------ MODULE FiniteSums ------------------------------
(***************************************************************************)
(* Sums of a function over a finite set: SumFunctionOnSet of Functions     *)
(* takes the elements in an order of its own choosing, which is immaterial *)
(* for integers.  Induction over the subsets of a finite set is the        *)
(* well-foundedness of their strict inclusion.                             *)
(***************************************************************************)
EXTENDS Integers, Functions, FiniteSets, FiniteSetTheorems, WellFoundedInduction, TLAPS

(* A set of subsets of S that has s whenever it has all smaller ones has   *)
(* every subset.                                                           *)
LEMMA StrongSubsetInduction ==
  ASSUME NEW S, IsFiniteSet(S), NEW T,
         \A s \in SUBSET S : (\A r \in SUBSET s : r # s => r \in T) => s \in T
  PROVE  SUBSET S \subseteq T
<1> DEFINE bad == (SUBSET S) \ T
<1> SUFFICES ASSUME bad # {}
             PROVE  FALSE
  OBVIOUS
<1>1. \A s \in SUBSET S : IsFiniteSet(s)
  BY FS_Subset
<1>2. bad \subseteq FiniteSubsetsOf(S)
  BY <1>1 DEF FiniteSubsetsOf
<1>3. IsWellFoundedOn(StrictSubsetOrdering(S), FiniteSubsetsOf(S))
  BY FS_StrictSubsetOrderingWellFounded
<1> HIDE DEF bad
<1>4. \E s : s \in bad
  OBVIOUS
<1>5. PICK s \in bad : \A r \in bad : <<r, s>> \notin StrictSubsetOrdering(S)
  BY <1>2, <1>3, <1>4, WFMin
<1> USE DEF bad
<1>6. ASSUME NEW r \in SUBSET s, r # s
      PROVE  r \in T
  <2>1. <<r, s>> \in StrictSubsetOrdering(S)
    BY <1>5, <1>6 DEF StrictSubsetOrdering
  <2>2. r \notin bad
    <3> HIDE DEF bad
    <3> QED
      BY <1>5, <2>1
  <2> QED
    BY <1>5, <2>2
<1> QED
  BY <1>5, <1>6

(* The same, one element at a time.                                        *)
LEMMA SubsetInduction ==
  ASSUME NEW S, IsFiniteSet(S), NEW T,
         {} \in T,
         \A s \in SUBSET S : \A x \in S \ s : s \in T => s \cup {x} \in T
  PROVE  SUBSET S \subseteq T
<1>1. ASSUME NEW s \in SUBSET S, \A r \in SUBSET s : r # s => r \in T, s # {}
      PROVE  s \in T
  <2>1. PICK x \in s : TRUE
    BY <1>1
  <2>2. s \ {x} \in T /\ s \ {x} \in SUBSET S /\ x \in S \ (s \ {x})
    BY <1>1, <2>1
  <2>3. (s \ {x}) \cup {x} = s
    BY <2>1
  <2> QED
    BY <2>2, <2>3
<1>2. \A s \in SUBSET S : (\A r \in SUBSET s : r # s => r \in T) => s \in T
  BY <1>1
<1> QED
  BY <1>2, StrongSubsetInduction

-----------------------------------------------------------------------------
Chosen(s) == CHOOSE x \in s : TRUE

(* The recursion SumFunctionOnSet stands for.                              *)
ByChoice(F, S, f) ==
  F = [s \in SUBSET S |-> IF s = {} THEN 0 ELSE f[Chosen(s)] + F[s \ {Chosen(s)}]]

LEMMA SumFunctionByChoice ==
  ASSUME NEW f, NEW S
  PROVE SumFunctionOnSet(f, S) = (CHOOSE F : ByChoice(F, S, f))[S]
  BY DEF SumFunctionOnSet, FoldFunctionOnSet, MapThenFoldSet, ByChoice, Chosen

LEMMA ChosenIn == \A s : s # {} => Chosen(s) \in s
  BY DEF Chosen

LEMMA ByChoiceUnique ==
  ASSUME NEW f, NEW S, IsFiniteSet(S), NEW R, S \subseteq R,
         NEW F, ByChoice(F, S, f), NEW G, ByChoice(G, R, f)
  PROVE  \A s \in SUBSET S : F[s] = G[s]
<1> DEFINE T == {s \in SUBSET S : F[s] = G[s]}
<1>1. ASSUME NEW s \in SUBSET S, \A r \in SUBSET s : r # s => r \in T
      PROVE  s \in T
  <2>1. F[s] = IF s = {} THEN 0 ELSE f[Chosen(s)] + F[s \ {Chosen(s)}]
    BY DEF ByChoice
  <2>2. G[s] = IF s = {} THEN 0 ELSE f[Chosen(s)] + G[s \ {Chosen(s)}]
    BY DEF ByChoice
  <2>3. s # {} => F[s \ {Chosen(s)}] = G[s \ {Chosen(s)}]
    BY <1>1, ChosenIn
  <2> QED
    BY <2>1, <2>2, <2>3
<1> HIDE DEF T
<1>2. SUBSET S \subseteq T
  BY <1>1, StrongSubsetInduction
<1> QED
  BY <1>2 DEF T

LEMMA ByChoiceExists ==
  ASSUME NEW f, NEW S, IsFiniteSet(S)
  PROVE  \A s \in SUBSET S : \E F : ByChoice(F, s, f)
<1> DEFINE T == {s \in SUBSET S : \E F : ByChoice(F, s, f)}
<1>1. ASSUME NEW s \in SUBSET S, \A r \in SUBSET s : r # s => r \in T
      PROVE  s \in T
  <2> DEFINE Of(r) == CHOOSE G : ByChoice(G, r, f)
             Less(r) == r \ {Chosen(r)}
             F == [r \in SUBSET s |-> IF r = {} THEN 0 ELSE f[Chosen(r)] + Of(Less(r))[Less(r)]]
  <2>1. \A r \in SUBSET s : r # s => ByChoice(Of(r), r, f)
    BY <1>1
  <2>2. \A r \in SUBSET s : r # {} => Less(r) \in SUBSET r /\ Less(r) # r /\ Less(r) \in SUBSET s /\ Less(r) # s
    BY ChosenIn
  <2>3. ASSUME NEW q \in SUBSET s, q # s
        PROVE  F[q] = Of(q)[q]
    <3> HIDE DEF Of
    <3>1. ByChoice(Of(q), q, f)
      BY <2>1, <2>3
    <3>2. Of(q)[q] = IF q = {} THEN 0 ELSE f[Chosen(q)] + Of(q)[Less(q)]
      BY <3>1 DEF ByChoice
    <3>3. CASE q = {}
      BY <3>2, <3>3
    <3>4. CASE q # {}
      <4>1. ByChoice(Of(Less(q)), Less(q), f)
        BY <2>1, <2>2, <3>4
      <4>2. IsFiniteSet(Less(q))
        BY FS_Subset
      <4>3. Less(q) \subseteq q /\ Less(q) \in SUBSET Less(q)
        OBVIOUS
      <4> HIDE DEF Less
      <4>4. Of(Less(q))[Less(q)] = Of(q)[Less(q)]
        BY <4>1, <4>2, <4>3, <3>1, ByChoiceUnique
      <4>5. F[q] = f[Chosen(q)] + Of(Less(q))[Less(q)]
        BY <3>4
      <4> QED
        BY <4>4, <4>5, <3>2, <3>4
    <3> QED
      BY <3>3, <3>4
  <2>4. \A r \in SUBSET s : r # {} => F[Less(r)] = Of(Less(r))[Less(r)]
    <3> HIDE DEF F, Of
    <3> QED
      BY <2>2, <2>3
  <2>5. ByChoice(F, s, f)
    <3> SUFFICES F = [r \in SUBSET s |-> IF r = {} THEN 0 ELSE f[Chosen(r)] + F[Less(r)]]
      BY DEF ByChoice
    <3> HIDE DEF Of, Less
    <3>1. \A r \in SUBSET s : F[r] = IF r = {} THEN 0 ELSE f[Chosen(r)] + Of(Less(r))[Less(r)]
      OBVIOUS
    <3>2. \A r \in SUBSET s : F[r] = IF r = {} THEN 0 ELSE f[Chosen(r)] + F[Less(r)]
      <4> HIDE DEF F
      <4> QED
        BY <3>1, <2>4
    <3>3. F = [r \in SUBSET s |-> F[r]]
      OBVIOUS
    <3> HIDE DEF F
    <3>4. [r \in SUBSET s |-> F[r]] = [r \in SUBSET s |-> IF r = {} THEN 0 ELSE f[Chosen(r)] + F[Less(r)]]
      BY <3>2
    <3> QED
      BY <3>3, <3>4
  <2> HIDE DEF F
  <2> QED
    BY <2>5
<1> HIDE DEF T
<1>2. SUBSET S \subseteq T
  BY <1>1, StrongSubsetInduction
<1> QED
  BY <1>2 DEF T

-----------------------------------------------------------------------------
LEMMA SumEmpty ==
  ASSUME NEW f
  PROVE  SumFunctionOnSet(f, {}) = 0
<1> DEFINE F == CHOOSE F : ByChoice(F, {}, f)
<1>1. IsFiniteSet({})
  BY FS_EmptySet
<1>2. ByChoice(F, {}, f)
  BY <1>1, ByChoiceExists
<1> HIDE DEF F
<1>3. F[{}] = 0
  BY <1>2 DEF ByChoice
<1> QED
  BY <1>3, SumFunctionByChoice DEF F

LEMMA SumChoice ==
  ASSUME NEW f, NEW S, IsFiniteSet(S), S # {}
  PROVE  SumFunctionOnSet(f, S) = f[Chosen(S)] + SumFunctionOnSet(f, S \ {Chosen(S)})
<1> DEFINE R == S \ {Chosen(S)}
           F == CHOOSE H : ByChoice(H, S, f)
           G == CHOOSE H : ByChoice(H, R, f)
<1>1. IsFiniteSet(R) /\ R \subseteq S /\ R \in SUBSET R
  BY FS_Subset
<1> HIDE DEF R
<1>2. ByChoice(F, S, f) /\ ByChoice(G, R, f)
  BY <1>1, ByChoiceExists
<1> HIDE DEF F, G
<1>3. F[S] = f[Chosen(S)] + F[R]
  BY <1>2 DEF ByChoice, R
<1>4. G[R] = F[R]
  BY <1>1, <1>2, ByChoiceUnique
<1>5. SumFunctionOnSet(f, S) = F[S] /\ SumFunctionOnSet(f, R) = G[R]
  BY SumFunctionByChoice DEF F, G
<1> QED
  BY <1>3, <1>4, <1>5 DEF R

(* The sum of integers is an integer, that of natural numbers is one.      *)
LEMMA SumIsInt ==
  ASSUME NEW f, NEW S, IsFiniteSet(S), \A x \in S : f[x] \in Int
  PROVE  SumFunctionOnSet(f, S) \in Int
<1> DEFINE T == {s \in SUBSET S : SumFunctionOnSet(f, s) \in Int}
<1>1. ASSUME NEW s \in SUBSET S, \A r \in SUBSET s : r # s => r \in T
      PROVE  s \in T
  <2>1. CASE s = {}
    BY <2>1, SumEmpty
  <2>2. CASE s # {}
    <3>1. SumFunctionOnSet(f, s) = f[Chosen(s)] + SumFunctionOnSet(f, s \ {Chosen(s)})
      BY <2>2, FS_Subset, SumChoice
    <3>2. Chosen(s) \in s /\ s \ {Chosen(s)} \in T
      BY <1>1, <2>2, ChosenIn
    <3> QED
      BY <3>1, <3>2
  <2> QED
    BY <2>1, <2>2
<1> HIDE DEF T
<1>2. SUBSET S \subseteq T
  BY <1>1, StrongSubsetInduction
<1> QED
  BY <1>2 DEF T

LEMMA SumIsNat ==
  ASSUME NEW f, NEW S, IsFiniteSet(S), \A x \in S : f[x] \in Nat
  PROVE  SumFunctionOnSet(f, S) \in Nat
<1> DEFINE T == {s \in SUBSET S : SumFunctionOnSet(f, s) \in Nat}
<1>1. ASSUME NEW s \in SUBSET S, \A r \in SUBSET s : r # s => r \in T
      PROVE  s \in T
  <2>1. CASE s = {}
    BY <2>1, SumEmpty
  <2>2. CASE s # {}
    <3>1. SumFunctionOnSet(f, s) = f[Chosen(s)] + SumFunctionOnSet(f, s \ {Chosen(s)})
      BY <2>2, FS_Subset, SumChoice
    <3>2. Chosen(s) \in s /\ s \ {Chosen(s)} \in T
      BY <1>1, <2>2, ChosenIn
    <3> QED
      BY <3>1, <3>2
  <2> QED
    BY <2>1, <2>2
<1> HIDE DEF T
<1>2. SUBSET S \subseteq T
  BY <1>1, StrongSubsetInduction
<1> QED
  BY <1>2 DEF T

(* Any element may be taken out of a sum of integers first.                *)
LEMMA SumRemove ==
  ASSUME NEW f, NEW S, IsFiniteSet(S), \A x \in S : f[x] \in Int, NEW x \in S
  PROVE  SumFunctionOnSet(f, S) = f[x] + SumFunctionOnSet(f, S \ {x})
<1> DEFINE Sum(s) == SumFunctionOnSet(f, s)
           T == {s \in SUBSET S : \A y \in s : Sum(s) = f[y] + Sum(s \ {y})}
<1>1. \A s \in SUBSET S : IsFiniteSet(s) /\ Sum(s) \in Int
  BY FS_Subset, SumIsInt
<1>2. ASSUME NEW s \in SUBSET S, \A r \in SUBSET s : r # s => r \in T, NEW y \in s
      PROVE  Sum(s) = f[y] + Sum(s \ {y})
  <2> DEFINE c == Chosen(s)
  <2>1. c \in s
    BY ChosenIn
  <2>2. Sum(s) = f[c] + Sum(s \ {c})
    BY <1>1, SumChoice
  <2> HIDE DEF c, Sum
  <2>3. CASE y = c
    BY <2>2, <2>3
  <2>4. CASE y # c
    <3>1. s \ {c} \in T /\ y \in s \ {c} /\ s \ {y} \in T /\ c \in s \ {y}
      BY <1>2, <2>1, <2>4
    <3>2. Sum(s \ {c}) = f[y] + Sum((s \ {c}) \ {y})
      BY <3>1
    <3>3. Sum(s \ {y}) = f[c] + Sum((s \ {y}) \ {c})
      BY <3>1
    <3>4. (s \ {c}) \ {y} = (s \ {y}) \ {c}
      OBVIOUS
    <3>5. f[c] \in Int /\ f[y] \in Int /\ Sum((s \ {c}) \ {y}) \in Int
      BY <2>1, <1>1
    <3>6. Sum(s) = f[c] + (f[y] + Sum((s \ {c}) \ {y}))
      BY <2>2, <3>2
    <3>7. Sum(s \ {y}) = f[c] + Sum((s \ {c}) \ {y})
      BY <3>3, <3>4
    <3>8. \A a, b, d \in Int : a + (b + d) = b + (a + d)
      OBVIOUS
    <3> QED
      BY <3>5, <3>6, <3>7, <3>8
  <2> QED
    BY <2>3, <2>4
<1>3. \A s \in SUBSET S : (\A r \in SUBSET s : r # s => r \in T) => s \in T
  BY <1>2
<1> HIDE DEF T
<1>4. SUBSET S \subseteq T
  BY <1>3, StrongSubsetInduction
<1> QED
  BY <1>4 DEF T

LEMMA SumInsert ==
  ASSUME NEW f, NEW S, IsFiniteSet(S), \A y \in S : f[y] \in Int, NEW x, x \notin S, f[x] \in Int
  PROVE  SumFunctionOnSet(f, S \cup {x}) = f[x] + SumFunctionOnSet(f, S)
<1>1. IsFiniteSet(S \cup {x}) /\ (S \cup {x}) \ {x} = S
  BY FS_AddElement
<1>2. \A y \in S \cup {x} : f[y] \in Int
  OBVIOUS
<1>3. x \in S \cup {x}
  OBVIOUS
<1>4. SumFunctionOnSet(f, S \cup {x}) = f[x] + SumFunctionOnSet(f, (S \cup {x}) \ {x})
  BY <1>1, <1>2, <1>3, SumRemove
<1> QED
  BY <1>1, <1>4

-----------------------------------------------------------------------------
(* A sum of sums, over functions of the same set.                          *)
LEMMA SumAdd ==
  ASSUME NEW S, IsFiniteSet(S), NEW f, NEW g, NEW h,
         \A x \in S : f[x] \in Int /\ g[x] \in Int /\ h[x] = f[x] + g[x]
  PROVE  SumFunctionOnSet(h, S) = SumFunctionOnSet(f, S) + SumFunctionOnSet(g, S)
<1> DEFINE T == {s \in SUBSET S : SumFunctionOnSet(h, s) = SumFunctionOnSet(f, s) + SumFunctionOnSet(g, s)}
<1>1. {} \in T
  BY SumEmpty
<1>2. ASSUME NEW s \in SUBSET S, NEW x \in S \ s, s \in T
      PROVE  s \cup {x} \in T
  <2>1. IsFiniteSet(s)
    BY FS_Subset
  <2>2. \A y \in s \cup {x} : f[y] \in Int /\ g[y] \in Int /\ h[y] \in Int
    OBVIOUS
  <2>3. SumFunctionOnSet(f, s) \in Int /\ SumFunctionOnSet(g, s) \in Int
    BY <2>1, <2>2, SumIsInt
  <2>4. SumFunctionOnSet(f, s \cup {x}) = f[x] + SumFunctionOnSet(f, s)
    BY <2>1, <2>2, SumInsert
  <2>5. SumFunctionOnSet(g, s \cup {x}) = g[x] + SumFunctionOnSet(g, s)
    BY <2>1, <2>2, SumInsert
  <2>6. SumFunctionOnSet(h, s \cup {x}) = h[x] + SumFunctionOnSet(h, s)
    BY <2>1, <2>2, SumInsert
  <2> QED
    BY <1>2, <2>2, <2>3, <2>4, <2>5, <2>6
<1> HIDE DEF T
<1>3. SUBSET S \subseteq T
  BY <1>1, <1>2, SubsetInduction
<1> QED
  BY <1>3 DEF T

(* A sum over two sets that have no element in common.                     *)
LEMMA SumSplit ==
  ASSUME NEW A, IsFiniteSet(A), NEW B, IsFiniteSet(B), A \cap B = {},
         NEW f, \A x \in A \cup B : f[x] \in Int
  PROVE  SumFunctionOnSet(f, A \cup B) = SumFunctionOnSet(f, A) + SumFunctionOnSet(f, B)
<1> DEFINE T == {s \in SUBSET B : SumFunctionOnSet(f, A \cup s) = SumFunctionOnSet(f, A) + SumFunctionOnSet(f, s)}
<1>0. SumFunctionOnSet(f, A) \in Int
  BY SumIsInt
<1>1. {} \in T
  <2>1. A \cup {} = A
    OBVIOUS
  <2> QED
    BY <1>0, <2>1, SumEmpty
<1>2. ASSUME NEW s \in SUBSET B, NEW x \in B \ s, s \in T
      PROVE  s \cup {x} \in T
  <2>1. IsFiniteSet(s) /\ IsFiniteSet(A \cup s)
    BY FS_Subset, FS_Union
  <2>2. SumFunctionOnSet(f, s) \in Int
    BY <2>1, SumIsInt
  <2>3. SumFunctionOnSet(f, s \cup {x}) = f[x] + SumFunctionOnSet(f, s)
    BY <2>1, SumInsert
  <2>4. x \notin A \cup s /\ (A \cup s) \cup {x} = A \cup (s \cup {x}) /\ (\A y \in A \cup s : f[y] \in Int) /\ f[x] \in Int
    OBVIOUS
  <2>5. SumFunctionOnSet(f, (A \cup s) \cup {x}) = f[x] + SumFunctionOnSet(f, A \cup s)
    BY <2>1, <2>4, SumInsert
  <2>6. SumFunctionOnSet(f, A \cup s) = SumFunctionOnSet(f, A) + SumFunctionOnSet(f, s)
    BY <1>2
  <2>7. SumFunctionOnSet(f, A \cup (s \cup {x})) = SumFunctionOnSet(f, A) + SumFunctionOnSet(f, s \cup {x})
    <3>1. SumFunctionOnSet(f, A \cup (s \cup {x})) = f[x] + (SumFunctionOnSet(f, A) + SumFunctionOnSet(f, s))
      BY <2>4, <2>5, <2>6, Zenon
    <3>2. \A a, b, d \in Int : d + (a + b) = a + (d + b)
      OBVIOUS
    <3>3. f[x] \in Int
      BY <2>4
    <3> QED
      BY <1>0, <2>2, <2>3, <3>1, <3>2, <3>3
  <2> QED
    BY <2>7
<1> HIDE DEF T
<1>3. \A s \in SUBSET B : \A x \in B \ s : s \in T => s \cup {x} \in T
  BY <1>2
<1>4. IsFiniteSet(B)
  OBVIOUS
<1>5. SUBSET B \subseteq T
  <2>1. ASSUME IsFiniteSet(B), {} \in T, \A s \in SUBSET B : \A x \in B \ s : s \in T => s \cup {x} \in T
        PROVE  SUBSET B \subseteq T
    BY ONLY <2>1, SubsetInduction
  <2> QED
    BY <1>1, <1>3, <1>4, <2>1
<1> QED
  BY <1>5 DEF T

(* A sum over the values of b, which takes no value twice on S.            *)
LEMMA SumReindex ==
  ASSUME NEW S, IsFiniteSet(S), NEW b, NEW f, NEW g,
         \A x, y \in S : b[x] = b[y] => x = y,
         \A x \in S : f[x] \in Int /\ g[b[x]] = f[x]
  PROVE  SumFunctionOnSet(g, {b[x] : x \in S}) = SumFunctionOnSet(f, S)
<1> DEFINE Img(s) == {b[x] : x \in s}
           T == {s \in SUBSET S : IsFiniteSet(Img(s)) /\ SumFunctionOnSet(g, Img(s)) = SumFunctionOnSet(f, s)}
<1>1. {} \in T
  <2>1. Img({}) = {}
    OBVIOUS
  <2> QED
    BY <2>1, SumEmpty, FS_EmptySet
<1>2. ASSUME NEW s \in SUBSET S, NEW x \in S \ s, s \in T
      PROVE  s \cup {x} \in T
  <2>1. IsFiniteSet(s)
    BY FS_Subset
  <2>2. SumFunctionOnSet(f, s \cup {x}) = f[x] + SumFunctionOnSet(f, s)
    BY <2>1, SumInsert
  <2>3. Img(s \cup {x}) = Img(s) \cup {b[x]} /\ b[x] \notin Img(s)
    OBVIOUS
  <2>4. \A y \in Img(s) : g[y] \in Int
    OBVIOUS
  <2>5. IsFiniteSet(Img(s)) /\ SumFunctionOnSet(g, Img(s)) = SumFunctionOnSet(f, s) /\ g[b[x]] \in Int /\ g[b[x]] = f[x]
    BY <1>2
  <2> HIDE DEF Img
  <2>6. SumFunctionOnSet(g, Img(s) \cup {b[x]}) = g[b[x]] + SumFunctionOnSet(g, Img(s))
    BY <2>3, <2>4, <2>5, SumInsert
  <2>7. IsFiniteSet(Img(s) \cup {b[x]})
    BY <2>5, FS_AddElement
  <2> QED
    BY <2>2, <2>3, <2>5, <2>6, <2>7
<1> HIDE DEF T
<1>3. SUBSET S \subseteq T
  BY <1>1, <1>2, SubsetInduction
<1> QED
  BY <1>3 DEF T

(* Terms of zero may be left out.                                          *)
LEMMA SumZero ==
  ASSUME NEW S, IsFiniteSet(S), NEW f, \A x \in S : f[x] = 0
  PROVE  SumFunctionOnSet(f, S) = 0
<1>1. \A x \in S : f[x] \in Int /\ f[x] = f[x] + f[x]
  OBVIOUS
<1>2. SumFunctionOnSet(f, S) = SumFunctionOnSet(f, S) + SumFunctionOnSet(f, S)
  BY <1>1, SumAdd
<1>3. SumFunctionOnSet(f, S) \in Int
  BY <1>1, SumIsInt
<1>4. \A a \in Int : a = a + a => a = 0
  OBVIOUS
<1> QED
  BY <1>2, <1>3, <1>4
==============================================================================
