-------------------------- MODULE KernelPassesProofs ---------------------------
(***************************************************************************)
(* Proofs about what becomes of the kernels, for every program, every      *)
(* limit of attempts and whatever the passes of LLVM unroll: first about   *)
(* the rounds of unrolling and validation, then about the walk over the    *)
(* call graph and the calls that are inlined.                              *)
(***************************************************************************)
EXTENDS KernelPasses, WellFoundedInduction, SequenceTheorems, FiniteSetTheorems, TLAPS

-----------------------------------------------------------------------------
(* Induction over the natural numbers: every set of them that has an       *)
(* element has a least one.                                                *)
LEMMA LeastElement ==
  ASSUME NEW S \in SUBSET Nat, S # {}
  PROVE  \E m \in S : \A k \in S : ~(k < m)
<1>1. \E n : n \in S
  OBVIOUS
<1>2. PICK m \in S : \A k \in S : <<k, m>> \notin OpToRel(<, Nat)
  BY <1>1, NatLessThanWellFounded, WFMin
<1>3. ASSUME NEW k \in S, k < m
      PROVE  FALSE
  <2>1. <<k, m>> \in OpToRel(<, Nat)
    BY <1>3 DEF OpToRel
  <2> QED
    BY <1>2, <2>1
<1> QED
  BY <1>3

LEMMA UpTo ==
  ASSUME NEW n \in Nat, NEW T, 1 \in T, \A m \in 1 .. n - 1 : m \in T => m + 1 \in T
  PROVE  1 .. n \subseteq T
<1> DEFINE bad == {m \in 1 .. n : m \notin T}
<1> SUFFICES ASSUME bad # {}
             PROVE  FALSE
  OBVIOUS
<1>1. bad \in SUBSET Nat
  OBVIOUS
<1>2. PICK m \in bad : \A k \in bad : ~(k < m)
  <2> HIDE DEF bad
  <2> QED
    BY <1>1, LeastElement
<1>3. m \in 1 .. n /\ m # 1
  OBVIOUS
<1>4. m - 1 \in 1 .. n - 1 /\ m - 1 < m
  BY <1>3
<1>5. m - 1 \in T
  BY <1>2, <1>3, <1>4
<1>6. (m - 1) + 1 = m
  BY <1>3
<1> QED
  BY <1>4, <1>5, <1>6

-----------------------------------------------------------------------------
(* Lists put together.  The recursion FlattenSeq stands for:               *)
Flattening(F, s, n) ==
  F = [i \in 1 .. n |-> IF i = 1 THEN s[i] ELSE F[i - 1] \o s[i]]

LEMMA FlatteningExists ==
  ASSUME NEW s, NEW n \in Nat, n # 0
  PROVE  \E F : Flattening(F, s, n)
<1> DEFINE T == {m \in 1 .. n : \E F : Flattening(F, s, m)}
<1>1. 1 \in T
  <2>1. Flattening([i \in 1 .. 1 |-> s[1]], s, 1)
    BY DEF Flattening
  <2> QED
    BY <2>1
<1>2. ASSUME NEW m \in 1 .. n - 1, m \in T
      PROVE  m + 1 \in T
  <2>1. PICK F : Flattening(F, s, m)
    BY <1>2
  <2> DEFINE G == [i \in 1 .. m + 1 |-> IF i = m + 1 THEN F[m] \o s[i] ELSE F[i]]
  <2>2. \A i \in 1 .. m + 1 : G[i] = IF i = 1 THEN s[i] ELSE G[i - 1] \o s[i]
    <3>1. ASSUME NEW i \in 1 .. m
          PROVE  F[i] = IF i = 1 THEN s[i] ELSE F[i - 1] \o s[i]
      BY <2>1 DEF Flattening
    <3>2. \A i \in 1 .. m : G[i] = F[i]
      OBVIOUS
    <3>3. m + 1 \in 1 .. m + 1 /\ m + 1 # 1 /\ m \in 1 .. m
      <4> HIDE DEF G
      <4> QED
        OBVIOUS
    <3>4. G[m + 1] = F[m] \o s[m + 1]
      BY <3>3
    <3>5. ASSUME NEW i \in 1 .. m
          PROVE  G[i] = IF i = 1 THEN s[i] ELSE G[i - 1] \o s[i]
      <4>1. i # 1 => i - 1 \in 1 .. m
        OBVIOUS
      <4> HIDE DEF G
      <4> QED
        BY <3>1, <3>2, <4>1
    <3>6. \A i \in 1 .. m + 1 : i \in 1 .. m \/ i = m + 1
      OBVIOUS
    <3>7. (m + 1) - 1 = m
      OBVIOUS
    <3> HIDE DEF G
    <3> QED
      BY <3>2, <3>3, <3>4, <3>5, <3>6, <3>7
  <2>3. Flattening(G, s, m + 1)
    <3>1. G = [i \in 1 .. m + 1 |-> G[i]]
      OBVIOUS
    <3> HIDE DEF G
    <3> QED
      BY <2>2, <3>1 DEF Flattening
  <2>4. m + 1 \in 1 .. n
    OBVIOUS
  <2> QED
    BY <2>3, <2>4
<1>3. 1 .. n \subseteq T
  <2> HIDE DEF T
  <2> QED
    BY <1>1, <1>2, UpTo
<1>4. n \in 1 .. n
  OBVIOUS
<1> QED
  BY <1>3, <1>4

LEMMA FlatteningInSeq ==
  ASSUME NEW T, NEW s, NEW n \in Nat, \A k \in 1 .. n : s[k] \in Seq(T), NEW F, Flattening(F, s, n)
  PROVE  \A k \in 1 .. n : F[k] \in Seq(T)
<1> DEFINE good == {m \in 1 .. n : F[m] \in Seq(T)}
<1>1. CASE n = 0
  BY <1>1
<1>2. CASE n # 0
  <2>1. \A m \in 1 .. n : F[m] = IF m = 1 THEN s[m] ELSE F[m - 1] \o s[m]
    BY DEF Flattening
  <2>2. 1 \in good
    BY <1>2, <2>1
  <2>3. ASSUME NEW m \in 1 .. n - 1, m \in good
        PROVE  m + 1 \in good
    <3>1. m + 1 \in 1 .. n /\ m + 1 # 1 /\ (m + 1) - 1 = m
      OBVIOUS
    <3>2. F[m + 1] = F[m] \o s[m + 1]
      BY <2>1, <3>1
    <3>3. F[m] \in Seq(T) /\ s[m + 1] \in Seq(T)
      BY <2>3, <3>1
    <3>4. F[m] \o s[m + 1] \in Seq(T)
      BY <3>3, ConcatProperties
    <3> QED
      BY <3>1, <3>2, <3>4
  <2>4. 1 .. n \subseteq good
    <3> HIDE DEF good
    <3> QED
      BY <2>2, <2>3, UpTo
  <2> QED
    BY <2>4
<1> QED
  BY <1>1, <1>2

(* What is put together of lists of elements of T is a list of elements    *)
(* of T.                                                                   *)
LEMMA FlattenSeqInSeq ==
  ASSUME NEW T, NEW s \in Seq(Seq(T))
  PROVE  FlattenSeq(s) \in Seq(T)
<1> DEFINE n == Len(s)
           F == CHOOSE F : Flattening(F, s, n)
<1>1. n \in Nat /\ \A k \in 1 .. n : s[k] \in Seq(T)
  BY LenProperties, ElementOfSeq
<1>2. CASE n = 0
  <2>1. s = <<>>
    BY <1>2, EmptySeq
  <2>2. FlattenSeq(s) = s
    BY <1>2 DEF FlattenSeq
  <2> QED
    BY <2>1, <2>2, EmptySeq
<1>3. CASE n # 0
  <2>1. FlattenSeq(s) = F[n]
    BY <1>3 DEF FlattenSeq, Flattening
  <2>2. Flattening(F, s, n)
    BY <1>1, <1>3, FlatteningExists
  <2>3. n \in 1 .. n
    BY <1>1, <1>3
  <2>4. F[n] \in Seq(T)
    <3> HIDE DEF F, n
    <3> QED
      BY <1>1, <2>2, <2>3, FlatteningInSeq
  <2> QED
    BY <2>1, <2>4
<1> QED
  BY <1>2, <1>3

ListOfLists(P, n) ==
  /\ n \in Nat /\ P = [k \in 1 .. n |-> P[k]]
  /\ \A k \in 1 .. n : P[k] \in Seq(ToSet(P[k]))

LEMMA PutTogether ==
  ASSUME NEW n, NEW P, ListOfLists(P, n)
  PROVE  /\ FlattenSeq(P) \in Seq(ToSet(FlattenSeq(P)))
         /\ \A i \in DOMAIN FlattenSeq(P) :
              \E k \in 1 .. n : \E j \in DOMAIN P[k] : FlattenSeq(P)[i] = P[k][j]
<1> DEFINE T == UNION {ToSet(P[k]) : k \in 1 .. n}
           r == FlattenSeq(P)
<1>0. n \in Nat /\ P = [k \in 1 .. n |-> P[k]] /\ \A k \in 1 .. n : P[k] \in Seq(ToSet(P[k]))
  BY DEF ListOfLists
<1>1. \A k \in 1 .. n : P[k] \in Seq(T)
  <2>1. ASSUME NEW k \in 1 .. n
        PROVE  P[k] \in Seq(T)
    <3>1. ToSet(P[k]) \subseteq T
      OBVIOUS
    <3>2. P[k] \in Seq(ToSet(P[k]))
      BY <1>0
    <3>3. \A i \in 1 .. Len(P[k]) : P[k][i] \in T
      <4> HIDE DEF T
      <4> QED
        BY <3>1, <3>2, ElementOfSeq
    <3>4. P[k] = [i \in 1 .. Len(P[k]) |-> P[k][i]] /\ Len(P[k]) \in Nat
      BY <3>2, LenProperties
    <3> HIDE DEF T
    <3> QED
      BY <3>3, <3>4, IsASeq
  <2> QED
    BY <2>1
<1>2. P \in Seq(Seq(T))
  <2> HIDE DEF T
  <2> QED
    BY <1>0, <1>1, IsASeq
<1>3. r \in Seq(T)
  <2> HIDE DEF T
  <2> QED
    BY <1>2, FlattenSeqInSeq
<1>4. DOMAIN r = 1 .. Len(r) /\ Len(r) \in Nat /\ r = [i \in 1 .. Len(r) |-> r[i]]
  <2> HIDE DEF r, T
  <2> QED
    BY <1>3, LenProperties
<1>5. r \in Seq(ToSet(r))
  <2>1. \A i \in 1 .. Len(r) : r[i] \in ToSet(r)
    <3> HIDE DEF r
    <3> QED
      BY <1>4 DEF ToSet
  <2> HIDE DEF r
  <2> QED
    BY <1>4, <2>1, IsASeq
<1>6. \A i \in DOMAIN r : r[i] \in T
  <2> HIDE DEF r, T
  <2> QED
    BY <1>3, <1>4, ElementOfSeq
<1>7. \A x \in T : \E k \in 1 .. n : \E j \in DOMAIN P[k] : x = P[k][j]
  BY DEF ToSet
<1> HIDE DEF T
<1> QED
  BY <1>5, <1>6, <1>7

-----------------------------------------------------------------------------
(* Bodies are lists; a call is of a function.                              *)
WellFormed(items) ==
  /\ items \in Seq(ToSet(items))
  /\ \A k \in DOMAIN items :
       /\ {"kind", "callee"} \subseteq DOMAIN items[k]
       /\ items[k].kind = "call" => items[k].callee \in Functions

LEMMA InlinedIsWellFormed ==
  ASSUME NEW items, WellFormed(items), \A g \in Functions : WellFormed(body[g]), NEW id
  PROVE  WellFormed(WithInlined(items, id))
<1> DEFINE n == Len(items)
           P == [k \in DOMAIN items |->
                   IF items[k].kind = "call" /\ items[k].id = id
                   THEN InPlaceOf(items[k], body[items[k].callee]) ELSE <<items[k]>>]
<1>1. n \in Nat /\ DOMAIN items = 1 .. n
  BY LenProperties DEF WellFormed
<1>2. ASSUME NEW k \in 1 .. n
      PROVE  /\ P[k] \in Seq(ToSet(P[k]))
             /\ \A j \in DOMAIN P[k] :
                  /\ {"kind", "callee"} \subseteq DOMAIN P[k][j]
                  /\ P[k][j].kind = "call" => P[k][j].callee \in Functions
  <2>1. CASE items[k].kind = "call" /\ items[k].id = id
    <3> DEFINE site == items[k]
               b == body[site.callee]
    <3>1. WellFormed(b)
      BY <1>1, <2>1 DEF WellFormed
    <3>2. P[k] = InPlaceOf(site, b)
      BY <1>1, <2>1
    <3> HIDE DEF b, site, P
    <3>3. Len(b) \in Nat /\ DOMAIN b = 1 .. Len(b)
      BY <3>1, LenProperties DEF WellFormed
    <3>4. DOMAIN P[k] = 1 .. Len(b) /\ P[k] = [j \in 1 .. Len(b) |-> P[k][j]]
      BY <3>2, <3>3 DEF InPlaceOf
    <3>5. \A j \in 1 .. Len(b) : P[k][j] \in ToSet(P[k])
      BY <3>4 DEF ToSet
    <3>6. P[k] \in Seq(ToSet(P[k]))
      BY <3>3, <3>4, <3>5, IsASeq
    <3>7. \A j \in 1 .. Len(b) :
            /\ DOMAIN P[k][j] = DOMAIN b[j]
            /\ {"kind", "callee"} \subseteq DOMAIN b[j]
            /\ P[k][j].kind = b[j].kind /\ P[k][j].callee = b[j].callee
      BY <3>1, <3>2, <3>3 DEF InPlaceOf, WellFormed
    <3> QED
      BY <3>1, <3>3, <3>4, <3>6, <3>7 DEF WellFormed
  <2>2. CASE ~(items[k].kind = "call" /\ items[k].id = id)
    <3>1. P[k] = <<items[k]>>
      BY <1>1, <2>2
    <3> HIDE DEF P
    <3>2. DOMAIN P[k] = {1} /\ P[k][1] = items[k]
      BY <3>1
    <3>3. ToSet(P[k]) = {items[k]}
      BY <3>2 DEF ToSet
    <3>4. P[k] \in Seq(ToSet(P[k]))
      BY <3>1, <3>3
    <3> QED
      BY <1>1, <3>2, <3>4 DEF WellFormed
  <2> QED
    BY <2>1, <2>2
<1>3. P = [k \in 1 .. n |-> P[k]] /\ FlattenSeq(P) = WithInlined(items, id)
  BY <1>1 DEF WithInlined
<1> HIDE DEF P, n
<1>4. /\ FlattenSeq(P) \in Seq(ToSet(FlattenSeq(P)))
      /\ \A i \in DOMAIN FlattenSeq(P) :
           \E k \in 1 .. n : \E j \in DOMAIN P[k] : FlattenSeq(P)[i] = P[k][j]
  <2>1. P = [k \in 1 .. n |-> P[k]]
    BY <1>3
  <2>2. \A k \in 1 .. n : P[k] \in Seq(ToSet(P[k]))
    BY <1>2
  <2>3. ListOfLists(P, n)
    BY <1>1, <2>1, <2>2 DEF ListOfLists
  <2> QED
    BY <2>3, PutTogether
<1>5. ASSUME NEW i \in DOMAIN WithInlined(items, id)
      PROVE  /\ {"kind", "callee"} \subseteq DOMAIN WithInlined(items, id)[i]
             /\ WithInlined(items, id)[i].kind = "call" => WithInlined(items, id)[i].callee \in Functions
  <2>1. PICK k \in 1 .. n : \E j \in DOMAIN P[k] : WithInlined(items, id)[i] = P[k][j]
    BY <1>3, <1>4
  <2> QED
    BY <1>2, <2>1
<1>6. WithInlined(items, id) \in Seq(ToSet(WithInlined(items, id)))
  BY <1>3, <1>4
<1> QED
  BY <1>5, <1>6 DEF WellFormed

(* Unrolling leaves the calls as they are.                                 *)
LEMMA RunKeepsCalls ==
  ASSUME NEW f \in Functions, WellFormed(body[f]), NEW loops
  PROVE  /\ WellFormed(FPMRun(f, loops))
         /\ CalledIn(FPMRun(f, loops)) \subseteq CalledIn(body[f])
<1> DEFINE items == body[f]
           n == Len(items)
           P == [k \in DOMAIN items |-> IF k \in loops THEN Unrolled(items[k]) ELSE <<items[k]>>]
<1>1. n \in Nat /\ DOMAIN items = 1 .. n
  BY LenProperties DEF WellFormed
<1>2. ASSUME NEW k \in 1 .. n
      PROVE  /\ P[k] \in Seq(ToSet(P[k]))
             /\ \A j \in DOMAIN P[k] :
                  /\ DOMAIN P[k][j] = DOMAIN items[k]
                  /\ P[k][j].kind = items[k].kind /\ P[k][j].callee = items[k].callee
  <2>0. {"kind", "callee"} \subseteq DOMAIN items[k]
    BY <1>1 DEF WellFormed
  <2>1. CASE k \in loops
    <3>1. P[k] = Unrolled(items[k])
      BY <1>1, <2>1
    <3> HIDE DEF P, items
    <3>2. DOMAIN P[k] = 1 .. 2 /\ P[k] = [j \in 1 .. 2 |-> P[k][j]]
      BY <3>1 DEF Unrolled
    <3>3. \A j \in 1 .. 2 : P[k][j] \in ToSet(P[k])
      BY <3>2 DEF ToSet
    <3>4. P[k] \in Seq(ToSet(P[k]))
      BY <3>2, <3>3, IsASeq
    <3>5. \A j \in 1 .. 2 :
            /\ DOMAIN P[k][j] = DOMAIN items[k]
            /\ P[k][j].kind = items[k].kind /\ P[k][j].callee = items[k].callee
      BY <2>0, <3>1 DEF Unrolled
    <3> QED
      BY <3>2, <3>4, <3>5
  <2>2. CASE k \notin loops
    <3>1. P[k] = <<items[k]>>
      BY <1>1, <2>2
    <3> HIDE DEF P
    <3>2. DOMAIN P[k] = {1} /\ P[k][1] = items[k]
      BY <3>1
    <3>3. ToSet(P[k]) = {items[k]}
      BY <3>2 DEF ToSet
    <3>4. P[k] \in Seq(ToSet(P[k]))
      BY <3>1, <3>3
    <3> QED
      BY <3>2, <3>4
  <2> QED
    BY <2>1, <2>2
<1>3. P = [k \in 1 .. n |-> P[k]] /\ FlattenSeq(P) = FPMRun(f, loops)
  BY <1>1 DEF FPMRun
<1> HIDE DEF P, n
<1>4. /\ FlattenSeq(P) \in Seq(ToSet(FlattenSeq(P)))
      /\ \A i \in DOMAIN FlattenSeq(P) :
           \E k \in 1 .. n : \E j \in DOMAIN P[k] : FlattenSeq(P)[i] = P[k][j]
  <2>1. P = [k \in 1 .. n |-> P[k]]
    BY <1>3
  <2>2. \A k \in 1 .. n : P[k] \in Seq(ToSet(P[k]))
    BY <1>2
  <2>3. ListOfLists(P, n)
    BY <1>1, <2>1, <2>2 DEF ListOfLists
  <2> QED
    BY <2>3, PutTogether
<1>5. ASSUME NEW i \in DOMAIN FPMRun(f, loops)
      PROVE  \E k \in DOMAIN items :
               /\ DOMAIN FPMRun(f, loops)[i] = DOMAIN items[k]
               /\ FPMRun(f, loops)[i].kind = items[k].kind
               /\ FPMRun(f, loops)[i].callee = items[k].callee
  <2>1. PICK k \in 1 .. n : \E j \in DOMAIN P[k] : FPMRun(f, loops)[i] = P[k][j]
    BY <1>3, <1>4
  <2>2. k \in DOMAIN items
    BY <1>1
  <2> QED
    BY <1>2, <2>1, <2>2
<1>6. WellFormed(FPMRun(f, loops))
  <2>1. FPMRun(f, loops) \in Seq(ToSet(FPMRun(f, loops)))
    BY <1>3, <1>4
  <2> QED
    BY <1>5, <2>1 DEF WellFormed
<1> QED
  BY <1>5, <1>6 DEF CalledIn

-----------------------------------------------------------------------------
(* The rounds.                                                             *)
Quantum(f) == isQKernel(f) \/ isQExprFunc(f)

TypeInv ==
  /\ pc \in {"scan", "inline", "pre", "round", "done", "exit"}
  /\ program \in Programs
  /\ present \in SUBSET Functions /\ Complete \in SUBSET Functions
  /\ DOMAIN body = Functions /\ \A f \in Functions : WellFormed(body[f])
  /\ at \in 1 .. NumFunctions + 1

(* What was found valid still is: bodies change in two places, before the  *)
(* rounds, when nothing has been found valid, and in them, where only what *)
(* has not been.                                                           *)
FoundValid ==
  /\ pc \in {"scan", "inline"} => Complete = {}
  /\ \A f \in Complete : Accepted(f, body[f])

(* Nothing calls what was inlined: calls never come back.                  *)
InlinedUnused ==
  /\ pc \in {"scan", "inline"} => quantum_inlined = {}
  /\ \A f \in quantum_inlined : ~Used(f)

(* What the round has passed was found valid, is not called, or calls for  *)
(* another round.                                                          *)
Passed(f) == f \in Complete \/ ~Used(f)

RoundInv ==
  /\ pc = "round" /\ ~FuncsFound => \A f \in present : f < at /\ Quantum(f) => Passed(f)
  /\ pc = "done" => \A f \in present : Quantum(f) => Passed(f)

IInv == TypeInv /\ FoundValid /\ InlinedUnused /\ RoundInv

LEMMA UsedShrinks ==
  ASSUME present' \subseteq present, present \subseteq Functions,
         \A g \in Functions : CalledIn(body[g])' \subseteq CalledIn(body[g])
  PROVE  \A f : Used(f)' => Used(f)
<1>1. \A g : g \in present' => g \in present /\ CalledIn(body[g])' \subseteq CalledIn(body[g])
  OBVIOUS
<1>2. \A g : Callees({g}) = CalledIn(body[g])
  BY DEF Callees
<1>3. \A g : Callees({g})' = CalledIn(body[g])'
  BY DEF Callees
<1> QED
  BY <1>1, <1>2, <1>3 DEF Used

LEMMA AcceptedUnchanged ==
  ASSUME program' = program, NEW f, body'[f] = body[f]
  PROVE  Accepted(f, body[f])' <=> Accepted(f, body[f])
  BY DEF Accepted, validateQuantumKernel, isQKernel, isQExprFunc

LEMMA InitHolds == Init => IInv
<1> SUFFICES ASSUME Init
             PROVE  IInv
  OBVIOUS
<1>1. DOMAIN body = Functions
  BY ProgramShape DEF Init
<1>2. ASSUME NEW f \in Functions
      PROVE  WellFormed(body[f])
  <2>1. body = program.body /\ program \in Programs
    BY DEF Init
  <2>2. body[f] \in Seq(ToSet(body[f]))
    BY <2>1, ProgramShape
  <2>3. ASSUME NEW i \in DOMAIN body[f]
        PROVE  /\ {"kind", "callee"} \subseteq DOMAIN body[f][i]
               /\ body[f][i].kind = "call" => body[f][i].callee \in Functions
    <3>1. /\ DOMAIN body[f][i] = {"id", "kind", "gate", "callee", "qubits", "looped"}
          /\ body[f][i].callee \in {0} \cup Functions
          /\ body[f][i].kind = "call" <=> body[f][i].callee # 0
      BY <2>1, ProgramShape
    <3> QED
      BY <3>1
  <2> QED
    BY <2>2, <2>3 DEF WellFormed
<1>3. TypeInv
  BY <1>1, <1>2, Counts DEF Init, TypeInv
<1> QED
  BY <1>3 DEF Init, IInv, FoundValid, InlinedUnused, RoundInv

LEMMA StepKeeps == IInv /\ [Next]_vars => IInv'
<1> SUFFICES ASSUME IInv, [Next]_vars
             PROVE  IInv'
  OBVIOUS
<1> USE DEF IInv
<1> DEFINE SameBodies == UNCHANGED <<program, body>>
<1>0. SameBodies => \A f : Accepted(f, body[f])' <=> Accepted(f, body[f])
  BY AcceptedUnchanged
<1>1. SameBodies /\ present' \subseteq present => \A f : Used(f)' => Used(f)
  BY UsedShrinks DEF TypeInv
<1>2. UNCHANGED program => \A f : Quantum(f)' <=> Quantum(f)
  BY DEF Quantum, isQKernel, isQExprFunc
<1>3. ASSUME NEW f \in Functions, ScanCycle(f) \/ ScanFunction(f)
      PROVE  IInv'
  <2>1. /\ pc = "scan" /\ pc' \in {"scan", "exit"}
        /\ UNCHANGED <<program, present, body, quantum_inlined, roundVars>>
    BY <1>3 DEF ScanCycle, ScanFunction, NextComponent
  <2>2. TypeInv'
    BY <2>1 DEF TypeInv, roundVars, WellFormed
  <2> QED
    BY <2>1, <2>2 DEF FoundValid, InlinedUnused, RoundInv, roundVars
<1>4. CASE ScanDone \/ InlineFails
  <2>1. /\ pc \in {"scan", "inline"} /\ pc' \in {"inline", "exit"}
        /\ UNCHANGED <<program, present, body, quantum_inlined, roundVars>>
    BY <1>4 DEF ScanDone, InlineFails, flattenVars
  <2>2. TypeInv'
    BY <2>1 DEF TypeInv, roundVars, WellFormed
  <2> QED
    BY <2>1, <2>2 DEF FoundValid, InlinedUnused, RoundInv, roundVars
<1>5. CASE InlineCall
  <2>1. /\ pc = "inline"
        /\ UNCHANGED <<pc, program, present, quantum_inlined, roundVars>>
    BY <1>5 DEF InlineCall
  <2>2. DOMAIN body' = Functions /\ \A f \in Functions : WellFormed(body'[f])
    <3>1. PICK site : body' = [body EXCEPT ![site[1]] = WithInlined(@, site[2])]
      BY <1>5 DEF InlineCall
    <3>2. \A f \in Functions : body'[f] = body[f] \/ body'[f] = WithInlined(body[f], site[2])
      BY <3>1 DEF TypeInv
    <3>3. \A f \in Functions : WellFormed(WithInlined(body[f], site[2]))
      BY InlinedIsWellFormed DEF TypeInv
    <3>4. DOMAIN body' = Functions
      BY <3>1 DEF TypeInv
    <3> QED
      BY <3>2, <3>3, <3>4 DEF TypeInv
  <2>3. TypeInv'
    BY <2>1, <2>2 DEF TypeInv, roundVars, WellFormed
  <2> QED
    BY <2>1, <2>3 DEF FoundValid, InlinedUnused, RoundInv, roundVars
<1>6. CASE MarkInlined
  <2>1. /\ pc = "inline" /\ pc' = "pre" /\ quantum_inlined' = {f \in Inlined : ~Used(f)}
        /\ UNCHANGED <<program, present, body, roundVars>>
    BY <1>6 DEF MarkInlined, Marked
  <2>2. TypeInv'
    BY <2>1 DEF TypeInv, roundVars, WellFormed
  <2>3. InlinedUnused'
    BY <1>1, <2>1 DEF InlinedUnused
  <2> QED
    BY <2>1, <2>2, <2>3 DEF FoundValid, RoundInv, roundVars
<1>7. CASE PreMPM
  <2>1. /\ pc = "pre" /\ pc' = "round" /\ present' \subseteq present /\ at' = 1
        /\ UNCHANGED <<program, body, quantum_inlined, Complete>>
    BY <1>7 DEF PreMPM, Needed, flattenVars
  <2>2. TypeInv'
    BY <2>1, Counts DEF TypeInv, WellFormed
  <2>3. FoundValid' /\ InlinedUnused'
    BY <1>0, <1>1, <2>1 DEF FoundValid, InlinedUnused
  <2>4. RoundInv'
    BY <2>1, <2>2 DEF RoundInv, TypeInv, Functions
  <2> QED
    BY <2>2, <2>3, <2>4
<1>8. CASE Skip \/ AlreadyValid \/ GiveUp
  <2>1. /\ pc = "round" /\ at <= NumFunctions /\ at' = at + 1
        /\ UNCHANGED <<program, present, body, quantum_inlined, FuncsFound>>
    BY <1>8 DEF Skip, AlreadyValid, GiveUp, AtPending, TypeInv, flattenVars, Functions
  <2>2. /\ pc' \in {"round", "exit"}
        /\ Complete \subseteq Complete' /\ \A f \in Complete' \ Complete : f = at /\ Accepted(at, body[at])
        /\ pc' = "round" /\ at \in present /\ Quantum(at) => at \in Complete' \/ ~Used(at)
    <3>1. CASE Skip
      BY <3>1 DEF Skip, AtPending, Quantum
    <3>2. CASE AlreadyValid
      BY <3>2 DEF AlreadyValid, AtPending
    <3>3. CASE GiveUp
      BY <3>3 DEF GiveUp, AtPending, InlinedUnused
    <3> QED
      BY <1>8, <3>1, <3>2, <3>3
  <2>3. TypeInv'
    <3>1. at \in Functions /\ at + 1 \in 1 .. NumFunctions + 1
      BY <2>1, Counts DEF TypeInv, Functions
    <3>2. Complete' \in SUBSET Functions
      BY <2>2, <3>1 DEF TypeInv
    <3> QED
      BY <2>1, <2>2, <3>1, <3>2 DEF TypeInv, WellFormed
  <2>4. FoundValid' /\ InlinedUnused'
    BY <1>0, <1>1, <2>1, <2>2 DEF FoundValid, InlinedUnused
  <2>5. RoundInv'
    <3>1. SUFFICES ASSUME pc' = "round", ~FuncsFound, NEW f \in present, f < at + 1, Quantum(f)
                   PROVE  f \in Complete' \/ ~Used(f)'
      BY <1>2, <2>1, <2>2 DEF RoundInv, Passed
    <3>2. f \in Nat /\ at \in Nat
      BY DEF TypeInv, Functions
    <3>3. CASE f = at
      BY <1>1, <2>1, <2>2, <3>1, <3>3
    <3>4. CASE f < at
      <4>1. Passed(f)
        BY <2>1, <3>1, <3>4 DEF RoundInv
      <4> QED
        BY <1>1, <2>1, <2>2, <4>1 DEF Passed
    <3> QED
      BY <3>1, <3>2, <3>3, <3>4
  <2> QED
    BY <2>3, <2>4, <2>5
<1>9. CASE Simplify
  <2>1. /\ pc = "round" /\ at <= NumFunctions /\ at' = at + 1 /\ at \in Functions /\ at \notin Complete
        /\ UNCHANGED <<pc, program, present, quantum_inlined>>
    BY <1>9 DEF Simplify, AtPending, TypeInv, flattenVars, Functions
  <2>2. PICK loops : body' = [body EXCEPT ![at] = FPMRun(at, loops)]
    BY <1>9 DEF Simplify
  <2>3. /\ DOMAIN body' = Functions /\ body'[at] = FPMRun(at, loops)
        /\ \A f \in Functions : f # at => body'[f] = body[f]
    BY <2>1, <2>2 DEF TypeInv
  <2>4. WellFormed(FPMRun(at, loops)) /\ CalledIn(FPMRun(at, loops)) \subseteq CalledIn(body[at])
    BY <2>1, RunKeepsCalls DEF TypeInv
  <2>5. \A f \in Functions : WellFormed(body'[f])
    BY <2>3, <2>4 DEF TypeInv
  <2>6. \A f : Used(f)' => Used(f)
    <3>1. \A g \in Functions : CalledIn(body'[g]) \subseteq CalledIn(body[g])
      BY <2>3, <2>4
    <3>2. \A g \in Functions : CalledIn(body[g])' \subseteq CalledIn(body[g])
      BY <3>1 DEF CalledIn
    <3> QED
      BY <2>1, <3>2, UsedShrinks DEF TypeInv
  <2>7. \/ Complete' = Complete \cup {at} /\ Accepted(at, body'[at]) /\ UNCHANGED FuncsFound
        \/ FuncsFound' = TRUE /\ UNCHANGED Complete
    BY <1>9 DEF Simplify
  <2>8. TypeInv'
    <3>1. at + 1 \in 1 .. NumFunctions + 1
      BY <2>1, Counts DEF TypeInv, Functions
    <3>2. Complete' \in SUBSET Functions
      BY <2>1, <2>7 DEF TypeInv
    <3>3. \A f \in Functions : WellFormed(body[f])'
      BY <2>5 DEF WellFormed
    <3> QED
      BY <2>1, <2>3, <3>1, <3>2, <3>3 DEF TypeInv
  <2>9. FoundValid'
    <3>1. ASSUME NEW f \in Complete'
          PROVE  Accepted(f, body[f])'
      <4>1. CASE f = at
        <5>1. Accepted(at, body'[at])
          BY <2>1, <2>7, <3>1, <4>1
        <5> QED
          BY <2>1, <4>1, <5>1 DEF Accepted, validateQuantumKernel, isQKernel, isQExprFunc
      <4>2. CASE f # at
        <5>1. f \in Complete
          BY <2>7, <3>1, <4>2
        <5>2. body'[f] = body[f]
          BY <2>3, <4>2, <5>1 DEF TypeInv
        <5> QED
          BY <2>1, <5>1, <5>2, AcceptedUnchanged DEF FoundValid
      <4> QED
        BY <4>1, <4>2
    <3> QED
      BY <2>1, <3>1 DEF FoundValid
  <2>10. InlinedUnused'
    BY <2>1, <2>6 DEF InlinedUnused
  <2>11. RoundInv'
    <3>1. SUFFICES ASSUME ~FuncsFound', NEW f \in present, f < at + 1, Quantum(f)
                   PROVE  f \in Complete' \/ ~Used(f)'
      BY <1>2, <2>1 DEF RoundInv, Passed
    <3>2. f \in Nat /\ at \in Nat
      BY DEF TypeInv, Functions
    <3>3. CASE f = at
      BY <2>7, <3>1, <3>3
    <3>4. CASE f < at
      <4>1. Passed(f)
        BY <2>1, <2>7, <3>1, <3>4 DEF RoundInv
      <4> QED
        BY <2>6, <2>7, <4>1 DEF Passed
    <3> QED
      BY <3>1, <3>2, <3>3, <3>4
  <2> QED
    BY <2>8, <2>9, <2>10, <2>11
<1>10. CASE PostMPM
  <2>1. /\ pc = "round" /\ at > NumFunctions /\ present' \subseteq present
        /\ pc' \in {"pre", "done"} /\ (pc' = "done" => ~FuncsFound)
        /\ UNCHANGED <<program, body, quantum_inlined, roundVars>>
    BY <1>10 DEF PostMPM, Needed, flattenVars
  <2>2. TypeInv'
    BY <2>1 DEF TypeInv, WellFormed, roundVars
  <2>3. FoundValid' /\ InlinedUnused'
    BY <1>0, <1>1, <2>1 DEF FoundValid, InlinedUnused, roundVars
  <2>4. RoundInv'
    <3>1. SUFFICES ASSUME pc' = "done", NEW f \in present, Quantum(f)
                   PROVE  f \in Complete \/ ~Used(f)'
      BY <1>2, <2>1 DEF RoundInv, Passed, roundVars
    <3>2. f < at
      BY <2>1, Counts DEF TypeInv, Functions
    <3>3. Passed(f)
      BY <2>1, <3>1, <3>2 DEF RoundInv
    <3> QED
      BY <1>1, <2>1, <3>3 DEF Passed
  <2> QED
    BY <2>2, <2>3, <2>4
<1>11. CASE UNCHANGED vars
  <2>1. UNCHANGED <<pc, program, present, body, quantum_inlined, roundVars>>
    BY <1>11 DEF vars, flattenVars
  <2>2. TypeInv'
    BY <2>1 DEF TypeInv, WellFormed, roundVars
  <2>3. FoundValid' /\ InlinedUnused'
    BY <1>0, <1>1, <2>1 DEF FoundValid, InlinedUnused, roundVars
  <2>4. RoundInv'
    BY <1>1, <1>2, <2>1 DEF RoundInv, Passed, roundVars
  <2> QED
    BY <2>2, <2>3, <2>4
<1> QED
  BY <1>3, <1>4, <1>5, <1>6, <1>7, <1>8, <1>9, <1>10, <1>11 DEF Next

(* For every program, every limit of attempts, and whatever the passes of  *)
(* LLVM unroll: no kernel or quantum expression that something calls comes *)
(* out of the rounds of runFunctionPassesQuantumKernels without having     *)
(* been found valid, and it still is.                                      *)
THEOREM CalledStayValid == Spec => []CalledAreValid
<1>1. IInv => CalledAreValid
  BY DEF IInv, FoundValid, RoundInv, Passed, Quantum, CalledAreValid
<1> QED
  BY <1>1, InitHolds, StepKeeps, PTL DEF Spec

-----------------------------------------------------------------------------
(* Lists put together and what is done to each of their elements.          *)
(* Induction from zero:                                                    *)
LEMMA FromZero ==
  ASSUME NEW n \in Nat, NEW T, 0 \in T, \A m \in 0 .. n - 1 : m \in T => m + 1 \in T
  PROVE  0 .. n \subseteq T
<1> DEFINE bad == {m \in 0 .. n : m \notin T}
<1> SUFFICES ASSUME bad # {}
             PROVE  FALSE
  OBVIOUS
<1>1. bad \in SUBSET Nat
  OBVIOUS
<1>2. PICK m \in bad : \A k \in bad : ~(k < m)
  <2> HIDE DEF bad
  <2> QED
    BY <1>1, LeastElement
<1>3. m \in 0 .. n /\ m # 0
  OBVIOUS
<1>4. m - 1 \in 0 .. n - 1 /\ m - 1 < m
  BY <1>3
<1>5. m - 1 \in T
  BY <1>2, <1>3, <1>4
<1>6. (m - 1) + 1 = m
  BY <1>3
<1> QED
  BY <1>4, <1>5, <1>6

(* Lists of lists are written as functions: the next one comes last.       *)
LEMMA FlattenNext ==
  ASSUME NEW U, NEW m \in Nat, NEW s, \A k \in 1 .. m + 1 : s[k] \in Seq(U)
  PROVE  FlattenSeq([k \in 1 .. m + 1 |-> s[k]]) = FlattenSeq([k \in 1 .. m |-> s[k]]) \o s[m + 1]
<1> DEFINE a == [k \in 1 .. m |-> s[k]]
           b == [k \in 1 .. m + 1 |-> s[k]]
           F == CHOOSE F : Flattening(F, a, m)
           G == CHOOSE G : Flattening(G, b, m + 1)
<1>1. a \in Seq(Seq(U)) /\ b \in Seq(Seq(U))
  <2>1. \A k \in 1 .. m : s[k] \in Seq(U)
    OBVIOUS
  <2>2. m + 1 \in Nat
    OBVIOUS
  <2> QED
    BY <2>1, <2>2, IsASeq
<1>2. Len(a) = m /\ Len(b) = m + 1
  <2>1. DOMAIN a = 1 .. m /\ DOMAIN b = 1 .. m + 1
    OBVIOUS
  <2> HIDE DEF a, b
  <2>2. DOMAIN a = 1 .. Len(a) /\ DOMAIN b = 1 .. Len(b) /\ Len(a) \in Nat /\ Len(b) \in Nat
    BY <1>1, LenProperties
  <2> QED
    BY <2>1, <2>2
<1>3. FlattenSeq(b) = G[m + 1] /\ Flattening(G, b, m + 1)
  <2>1. m + 1 # 0 /\ m + 1 \in Nat
    OBVIOUS
  <2>2. FlattenSeq(b) = G[m + 1]
    <3> HIDE DEF b
    <3> QED
      BY <1>2, <2>1 DEF FlattenSeq, Flattening
  <2>3. Flattening(G, b, m + 1)
    <3> HIDE DEF b
    <3> QED
      BY <2>1, FlatteningExists
  <2> QED
    BY <2>2, <2>3
<1>4. \A i \in 1 .. m + 1 : G[i] = IF i = 1 THEN s[i] ELSE G[i - 1] \o s[i]
  <2>1. \A i \in 1 .. m + 1 : G[i] = IF i = 1 THEN b[i] ELSE G[i - 1] \o b[i]
    <3> HIDE DEF b, G
    <3> QED
      BY <1>3 DEF Flattening
  <2>2. \A i \in 1 .. m + 1 : b[i] = s[i]
    OBVIOUS
  <2> HIDE DEF b, G
  <2> QED
    BY <2>1, <2>2
<1>5. CASE m = 0
  <2>1. a = <<>>
    BY <1>1, <1>2, <1>5, EmptySeq
  <2>2. FlattenSeq(a) = <<>>
    <3>1. FlattenSeq(a) = a
      BY <1>2, <1>5 DEF FlattenSeq
    <3> QED
      BY <2>1, <3>1
  <2>3. FlattenSeq(b) = s[1] /\ s[1] \in Seq(U) /\ m + 1 = 1
    <3> HIDE DEF b, G
    <3> QED
      BY <1>3, <1>4, <1>5
  <2>4. <<>> \o s[1] = s[1]
    BY <2>3, ConcatEmptySeq
  <2> QED
    BY <2>2, <2>3, <2>4
<1>6. CASE m # 0
  <2>1. FlattenSeq(a) = F[m] /\ Flattening(F, a, m)
    <3>1. FlattenSeq(a) = F[m]
      <4> HIDE DEF a
      <4> QED
        BY <1>2, <1>6 DEF FlattenSeq, Flattening
    <3>2. Flattening(F, a, m)
      <4> HIDE DEF a
      <4> QED
        BY <1>6, FlatteningExists
    <3> QED
      BY <3>1, <3>2
  <2>2. \A i \in 1 .. m : F[i] = IF i = 1 THEN s[i] ELSE F[i - 1] \o s[i]
    <3>1. \A i \in 1 .. m : F[i] = IF i = 1 THEN a[i] ELSE F[i - 1] \o a[i]
      <4> HIDE DEF a, F
      <4> QED
        BY <2>1 DEF Flattening
    <3>2. \A i \in 1 .. m : a[i] = s[i]
      OBVIOUS
    <3> HIDE DEF a, F
    <3> QED
      BY <3>1, <3>2
  <2> DEFINE same == {i \in 1 .. m : F[i] = G[i]}
  <2> HIDE DEF F, G, a, b
  <2>3. 1 \in same
    BY <1>4, <1>6, <2>2
  <2>4. ASSUME NEW i \in 1 .. m - 1, i \in same
        PROVE  i + 1 \in same
    <3>1. i + 1 \in 1 .. m /\ i + 1 \in 1 .. m + 1 /\ i + 1 # 1 /\ (i + 1) - 1 = i
      OBVIOUS
    <3>2. F[i + 1] = F[i] \o s[i + 1] /\ G[i + 1] = G[i] \o s[i + 1]
      BY <1>4, <2>2, <3>1
    <3> QED
      BY <2>4, <3>1, <3>2
  <2>5. 1 .. m \subseteq same
    <3> HIDE DEF same
    <3> QED
      BY <2>3, <2>4, UpTo
  <2>6. F[m] = G[m]
    BY <1>6, <2>5
  <2>7. G[m + 1] = G[m] \o s[m + 1]
    <3>1. m + 1 \in 1 .. m + 1 /\ m + 1 # 1 /\ (m + 1) - 1 = m
      BY <1>6
    <3> QED
      BY <1>4, <3>1
  <2> QED
    BY <1>3, <2>1, <2>6, <2>7 DEF a, b
<1> QED
  BY <1>5, <1>6

LEMMA FlattenNone == FlattenSeq([k \in 1 .. 0 |-> <<>>]) = <<>>
<1> DEFINE a == [k \in 1 .. 0 |-> <<>>]
<1>1. a = <<>>
  OBVIOUS
<1>2. Len(<<>>) = 0
  OBVIOUS
<1>3. FlattenSeq(<<>>) = <<>>
  BY <1>2 DEF FlattenSeq
<1> QED
  BY <1>1, <1>3

LEMMA FlattenIn ==
  ASSUME NEW U, NEW m \in Nat, NEW s, \A k \in 1 .. m : s[k] \in Seq(U)
  PROVE  /\ [k \in 1 .. m |-> s[k]] \in Seq(Seq(U))
         /\ FlattenSeq([k \in 1 .. m |-> s[k]]) \in Seq(U)
<1>1. [k \in 1 .. m |-> s[k]] \in Seq(Seq(U))
  BY IsASeq
<1> QED
  BY <1>1, FlattenSeqInSeq

(* Every element of a list replaced by a list.                             *)
Mapped(h, s) == FlattenSeq([k \in DOMAIN s |-> h[s[k]]])

LEMMA MappedIn ==
  ASSUME NEW T, NEW U, NEW h \in [T -> Seq(U)], NEW s \in Seq(T)
  PROVE  Mapped(h, s) \in Seq(U)
<1> DEFINE l == [k \in 1 .. Len(s) |-> h[s[k]]]
<1>1. Len(s) \in Nat /\ DOMAIN s = 1 .. Len(s) /\ \A k \in 1 .. Len(s) : h[s[k]] \in Seq(U)
  BY LenProperties, ElementOfSeq
<1>2. \A k \in 1 .. Len(s) : l[k] \in Seq(U)
  BY <1>1
<1>3. l = [k \in 1 .. Len(s) |-> l[k]] /\ Mapped(h, s) = FlattenSeq(l)
  BY <1>1 DEF Mapped
<1> HIDE DEF l
<1> QED
  BY <1>1, <1>2, <1>3, FlattenIn

LEMMA MappedConcat ==
  ASSUME NEW T, NEW U, NEW h \in [T -> Seq(U)], NEW s \in Seq(T), NEW t \in Seq(T)
  PROVE  Mapped(h, s \o t) = Mapped(h, s) \o Mapped(h, t)
<1> DEFINE n == Len(s)
           m == Len(t)
           r == s \o t
           R == [k \in 1 .. n + m |-> h[r[k]]]
           S == [k \in 1 .. n |-> h[s[k]]]
           V == [k \in 1 .. m |-> h[t[k]]]
           sum == FlattenSeq([k \in 1 .. n |-> S[k]])
           good == {j \in 0 .. m : FlattenSeq([k \in 1 .. n + j |-> R[k]])
                                     = sum \o FlattenSeq([k \in 1 .. j |-> V[k]])}
<1>1. /\ n \in Nat /\ m \in Nat /\ r \in Seq(T) /\ Len(r) = n + m
      /\ DOMAIN s = 1 .. n /\ DOMAIN t = 1 .. m /\ DOMAIN r = 1 .. n + m
      /\ \A k \in 1 .. n + m : r[k] = IF k <= n THEN s[k] ELSE t[k - n]
  <2>1. n \in Nat /\ m \in Nat /\ DOMAIN s = 1 .. n /\ DOMAIN t = 1 .. m
    BY LenProperties
  <2>2. r \in Seq(T) /\ Len(r) = n + m /\ \A k \in 1 .. n + m : r[k] = IF k <= n THEN s[k] ELSE t[k - n]
    BY ConcatProperties
  <2>3. DOMAIN r = 1 .. Len(r)
    <3> HIDE DEF r
    <3> QED
      BY <2>2, LenProperties
  <2> QED
    BY <2>1, <2>2, <2>3
<1>2. /\ \A k \in 1 .. n + m : R[k] \in Seq(U)
      /\ \A k \in 1 .. n : S[k] \in Seq(U) /\ R[k] = S[k]
      /\ \A k \in 1 .. m : V[k] \in Seq(U) /\ R[n + k] = V[k]
  <2>1. \A k \in 1 .. n : s[k] \in T
    BY ElementOfSeq
  <2>2. \A k \in 1 .. m : t[k] \in T
    BY ElementOfSeq
  <2>3. \A k \in 1 .. n + m : r[k] \in T
    <3> HIDE DEF r
    <3> QED
      BY <1>1, ElementOfSeq
  <2>4. \A k \in 1 .. n : k \in 1 .. n + m /\ r[k] = s[k]
    <3> HIDE DEF r, n, m
    <3> QED
      BY <1>1
  <2>5. \A k \in 1 .. m : n + k \in 1 .. n + m /\ r[n + k] = t[k]
    <3>1. ASSUME NEW k \in 1 .. m
          PROVE  n + k \in 1 .. n + m /\ r[n + k] = t[k]
      <4>1. n + k \in 1 .. n + m /\ ~(n + k <= n) /\ (n + k) - n = k
        <5> HIDE DEF n, m
        <5> QED
          BY <1>1
      <4> HIDE DEF r, n, m
      <4> QED
        BY <1>1, <4>1
    <3> QED
      BY <3>1
  <2> HIDE DEF r, n, m
  <2> QED
    BY <2>1, <2>2, <2>3, <2>4, <2>5
<1>3. /\ Mapped(h, s) = FlattenSeq([k \in 1 .. n |-> S[k]])
      /\ Mapped(h, t) = FlattenSeq([k \in 1 .. m |-> V[k]])
      /\ Mapped(h, r) = FlattenSeq([k \in 1 .. n + m |-> R[k]])
  <2> HIDE DEF n, m, r
  <2>1. S = [k \in 1 .. n |-> S[k]] /\ V = [k \in 1 .. m |-> V[k]] /\ R = [k \in 1 .. n + m |-> R[k]]
    OBVIOUS
  <2> QED
    BY <1>1, <2>1 DEF Mapped
<1> HIDE DEF n, m, r, R, S, V
<1>4. sum \in Seq(U)
  BY <1>1, <1>2, FlattenIn
<1>5. 0 \in good
  <2>1. [k \in 1 .. n + 0 |-> R[k]] = [k \in 1 .. n |-> S[k]]
    BY <1>1, <1>2
  <2>2. [k \in 1 .. 0 |-> V[k]] = [k \in 1 .. 0 |-> <<>>]
    OBVIOUS
  <2>3. sum \o <<>> = sum
    BY <1>4, ConcatEmptySeq
  <2>4. 0 \in 0 .. m
    BY <1>1
  <2>5. FlattenSeq([k \in 1 .. 0 |-> V[k]]) = <<>>
    BY <2>2, FlattenNone
  <2> QED
    BY <2>1, <2>3, <2>4, <2>5
<1>6. ASSUME NEW j \in 0 .. m - 1, j \in good
      PROVE  j + 1 \in good
  <2>1. /\ j + 1 \in 0 .. m /\ j + 1 \in 1 .. m /\ n + j \in Nat /\ j \in Nat /\ n + (j + 1) = (n + j) + 1
        /\ \A k \in 1 .. (n + j) + 1 : k \in 1 .. n + m
        /\ \A k \in 1 .. j + 1 : k \in 1 .. m
    BY <1>1
  <2>2. FlattenSeq([k \in 1 .. (n + j) + 1 |-> R[k]]) = FlattenSeq([k \in 1 .. n + j |-> R[k]]) \o R[(n + j) + 1]
    BY <1>2, <2>1, FlattenNext
  <2>3. FlattenSeq([k \in 1 .. j + 1 |-> V[k]]) = FlattenSeq([k \in 1 .. j |-> V[k]]) \o V[j + 1]
    BY <1>2, <2>1, FlattenNext
  <2>4. FlattenSeq([k \in 1 .. j |-> V[k]]) \in Seq(U)
    <3>1. \A k \in 1 .. j : V[k] \in Seq(U)
      BY <1>2, <2>1
    <3> QED
      BY <2>1, <3>1, FlattenIn
  <2>5. V[j + 1] \in Seq(U) /\ R[(n + j) + 1] = V[j + 1]
    BY <1>2, <2>1
  <2>6. (sum \o FlattenSeq([k \in 1 .. j |-> V[k]])) \o V[j + 1] = sum \o (FlattenSeq([k \in 1 .. j |-> V[k]]) \o V[j + 1])
    <3> DEFINE part == FlattenSeq([k \in 1 .. j |-> V[k]])
               next == V[j + 1]
    <3>1. sum \in Seq(U) /\ part \in Seq(U) /\ next \in Seq(U)
      BY <1>4, <2>4, <2>5
    <3> HIDE DEF sum, part, next
    <3>2. (sum \o part) \o next = sum \o (part \o next)
      BY <3>1, ConcatAssociative
    <3> QED
      BY <3>2 DEF part, next
  <2>7. FlattenSeq([k \in 1 .. n + j |-> R[k]]) = sum \o FlattenSeq([k \in 1 .. j |-> V[k]])
    BY <1>6
  <2>8. FlattenSeq([k \in 1 .. n + (j + 1) |-> R[k]]) = sum \o FlattenSeq([k \in 1 .. j + 1 |-> V[k]])
    <3> HIDE DEF sum, good
    <3> QED
      BY <2>1, <2>2, <2>3, <2>5, <2>6, <2>7
  <2> QED
    BY <2>1, <2>8
<1>7. m \in good
  <2>1. 0 .. m \subseteq good
    <3> HIDE DEF good
    <3> QED
      BY <1>1, <1>5, <1>6, FromZero
  <2> HIDE DEF good
  <2> QED
    BY <1>1, <2>1
<1> QED
  BY <1>3, <1>7 DEF r

LEMMA MappedOne ==
  ASSUME NEW U, NEW x, NEW h, h[x] \in Seq(U)
  PROVE  Mapped(h, <<x>>) = h[x]
<1> DEFINE l == [k \in 1 .. 0 + 1 |-> h[x]]
<1>1. [k \in DOMAIN <<x>> |-> h[<<x>>[k]]] = l
  OBVIOUS
<1>2. l = [k \in 1 .. 0 + 1 |-> l[k]] /\ \A k \in 1 .. 0 + 1 : l[k] = h[x]
  OBVIOUS
<1>3. [k \in 1 .. 0 |-> l[k]] = [k \in 1 .. 0 |-> <<>>]
  OBVIOUS
<1>4. 0 + 1 \in 1 .. 0 + 1
  OBVIOUS
<1> HIDE DEF l
<1>5. FlattenSeq([k \in 1 .. 0 + 1 |-> l[k]]) = FlattenSeq([k \in 1 .. 0 |-> l[k]]) \o l[0 + 1]
  BY <1>2, FlattenNext
<1>6. FlattenSeq([k \in 1 .. 0 |-> l[k]]) = <<>>
  BY <1>3, FlattenNone
<1>7. <<>> \o h[x] = h[x]
  BY ConcatEmptySeq
<1> QED
  BY <1>1, <1>2, <1>4, <1>5, <1>6, <1>7 DEF Mapped

Maps(h, T, U)     == h \in [T -> Seq(U)]
Parts(P, n, T)    == n \in Nat /\ \A k \in 1 .. n : P[k] \in Seq(T)
Together(P, n)    == FlattenSeq([k \in 1 .. n |-> P[k]])
EachMapped(h, P, R, n) == \A k \in 1 .. n : R[k] = Mapped(h, P[k])

(* To replace the elements of lists that are put together is to put        *)
(* together the lists in which they are replaced.                          *)
LEMMA MappedFlatten ==
  ASSUME NEW T, NEW U, NEW h, NEW n, NEW P, NEW R, Maps(h, T, U), Parts(P, n, T), EachMapped(h, P, R, n)
  PROVE  Mapped(h, Together(P, n)) = Together(R, n)
<1> USE DEF Maps, Parts, Together, EachMapped
<1> DEFINE good == {j \in 0 .. n : Mapped(h, FlattenSeq([k \in 1 .. j |-> P[k]])) = FlattenSeq([k \in 1 .. j |-> R[k]])}
<1>0. \A a, b \in Seq(T) : Mapped(h, a \o b) = Mapped(h, a) \o Mapped(h, b)
  <2>1. ASSUME NEW a \in Seq(T), NEW b \in Seq(T)
        PROVE  Mapped(h, a \o b) = Mapped(h, a) \o Mapped(h, b)
    <3> HIDE DEF good
    <3> QED
      BY MappedConcat
  <2> QED
    BY <2>1
<1>1. \A k \in 1 .. n : R[k] = Mapped(h, P[k]) /\ R[k] \in Seq(U)
  BY MappedIn
<1>3. 0 \in good
  <2>1. [k \in 1 .. 0 |-> P[k]] = [k \in 1 .. 0 |-> <<>>] /\ [k \in 1 .. 0 |-> R[k]] = [k \in 1 .. 0 |-> <<>>]
    OBVIOUS
  <2>2. Mapped(h, <<>>) = <<>>
    <3>1. [k \in DOMAIN <<>> |-> h[<<>>[k]]] = [k \in 1 .. 0 |-> <<>>]
      OBVIOUS
    <3> QED
      BY <3>1, FlattenNone DEF Mapped
  <2>3. 0 \in 0 .. n
    OBVIOUS
  <2> QED
    BY <2>1, <2>2, <2>3, FlattenNone
<1>4. ASSUME NEW j \in 0 .. n - 1, j \in good
      PROVE  j + 1 \in good
  <2>1. /\ j \in Nat /\ j + 1 \in 0 .. n /\ j + 1 \in 1 .. n
        /\ \A k \in 1 .. j + 1 : k \in 1 .. n
        /\ \A k \in 1 .. j : k \in 1 .. n
    OBVIOUS
  <2>2. FlattenSeq([k \in 1 .. j + 1 |-> P[k]]) = FlattenSeq([k \in 1 .. j |-> P[k]]) \o P[j + 1]
    BY <2>1, FlattenNext
  <2>3. FlattenSeq([k \in 1 .. j + 1 |-> R[k]]) = FlattenSeq([k \in 1 .. j |-> R[k]]) \o R[j + 1]
    BY <1>1, <2>1, FlattenNext
  <2>4. FlattenSeq([k \in 1 .. j |-> P[k]]) \in Seq(T)
    <3>1. \A k \in 1 .. j : P[k] \in Seq(T)
      BY <2>1
    <3> QED
      BY <2>1, <3>1, FlattenIn
  <2>5. P[j + 1] \in Seq(T) /\ R[j + 1] = Mapped(h, P[j + 1])
    BY <1>1, <2>1
  <2>6. Mapped(h, FlattenSeq([k \in 1 .. j |-> P[k]]) \o P[j + 1])
          = Mapped(h, FlattenSeq([k \in 1 .. j |-> P[k]])) \o Mapped(h, P[j + 1])
    <3> DEFINE part == FlattenSeq([k \in 1 .. j |-> P[k]])
               next == P[j + 1]
    <3>1. part \in Seq(T) /\ next \in Seq(T)
      BY <2>4, <2>5
    <3> HIDE DEF part, next
    <3>2. Mapped(h, part \o next) = Mapped(h, part) \o Mapped(h, next)
      BY <1>0, <3>1
    <3> QED
      BY <3>2 DEF part, next
  <2> QED
    BY <1>4, <2>1, <2>2, <2>3, <2>5, <2>6
<1>5. n \in good
  <2>1. 0 .. n \subseteq good
    <3> HIDE DEF good
    <3> QED
      BY <1>3, <1>4, FromZero
  <2> HIDE DEF good
  <2> QED
    BY <2>1
<1> QED
  BY <1>5

(* Every element replaced by one.                                          *)
Singles(h, s, e) == Len(e) = Len(s) /\ \A k \in 1 .. Len(s) : h[s[k]] = <<e[k]>>

LEMMA MappedSingles ==
  ASSUME NEW S, NEW T, NEW s \in Seq(S), NEW e \in Seq(T), NEW h, Singles(h, s, e)
  PROVE  Mapped(h, s) = e
<1> USE DEF Singles
<1> DEFINE n == Len(s)
           R == [k \in 1 .. n |-> h[s[k]]]
           good == {j \in 0 .. n : FlattenSeq([k \in 1 .. j |-> R[k]]) = [k \in 1 .. j |-> e[k]]}
<1>1. n \in Nat /\ DOMAIN s = 1 .. n /\ e = [k \in 1 .. n |-> e[k]] /\ \A k \in 1 .. n : h[s[k]] = <<e[k]>>
  BY LenProperties
<1>2. \A k \in 1 .. n : R[k] = <<e[k]>> /\ e[k] \in T /\ R[k] \in Seq(T)
  <2>1. \A k \in 1 .. n : e[k] \in T
    BY ElementOfSeq
  <2> HIDE DEF n
  <2>2. \A k \in 1 .. n : R[k] = h[s[k]] /\ h[s[k]] = <<e[k]>>
    BY <1>1
  <2>3. \A x \in T : <<x>> \in Seq(T)
    OBVIOUS
  <2> HIDE DEF R
  <2> QED
    BY <2>1, <2>2, <2>3
<1>3. Mapped(h, s) = FlattenSeq([k \in 1 .. n |-> R[k]])
  <2> HIDE DEF n
  <2>1. R = [k \in 1 .. n |-> R[k]]
    OBVIOUS
  <2> QED
    BY <1>1, <2>1 DEF Mapped
<1> HIDE DEF R, n
<1>4. 0 \in good
  <2>1. [k \in 1 .. 0 |-> R[k]] = [k \in 1 .. 0 |-> <<>>] /\ [k \in 1 .. 0 |-> e[k]] = <<>>
    OBVIOUS
  <2>2. 0 \in 0 .. n
    BY <1>1
  <2> QED
    BY <2>1, <2>2, FlattenNone
<1>5. ASSUME NEW j \in 0 .. n - 1, j \in good
      PROVE  j + 1 \in good
  <2>1. /\ j \in Nat /\ j + 1 \in 0 .. n /\ j + 1 \in 1 .. n
        /\ \A k \in 1 .. j + 1 : k \in 1 .. n
        /\ \A k \in 1 .. j : k \in 1 .. n
    BY <1>1
  <2>2. FlattenSeq([k \in 1 .. j + 1 |-> R[k]]) = FlattenSeq([k \in 1 .. j |-> R[k]]) \o R[j + 1]
    BY <1>2, <2>1, FlattenNext
  <2> DEFINE a == [k \in 1 .. j |-> e[k]]
             b == [k \in 1 .. j + 1 |-> e[k]]
  <2>3. a \in Seq(T) /\ b \in Seq(T)
    BY <1>2, <2>1, IsASeq
  <2>4. Len(a) = j /\ Len(b) = j + 1
    <3>1. DOMAIN a = 1 .. j /\ DOMAIN b = 1 .. j + 1
      OBVIOUS
    <3> HIDE DEF a, b
    <3>2. DOMAIN a = 1 .. Len(a) /\ DOMAIN b = 1 .. Len(b) /\ Len(a) \in Nat /\ Len(b) \in Nat
      BY <2>3, LenProperties
    <3> QED
      BY <2>1, <3>1, <3>2
  <2>5. \A k \in 1 .. j : a[k] = e[k]
    OBVIOUS
  <2>6. \A k \in 1 .. j + 1 : b[k] = e[k]
    OBVIOUS
  <2> HIDE DEF a, b
  <2>7. R[j + 1] = <<e[j + 1]>> /\ <<e[j + 1]>> \in Seq(T) /\ Len(<<e[j + 1]>>) = 1 /\ <<e[j + 1]>>[1] = e[j + 1]
    BY <1>2, <2>1
  <2>8. a \o R[j + 1] = b
    <3> DEFINE x == R[j + 1]
               c == a \o x
    <3>1. x \in Seq(T) /\ Len(x) = 1 /\ x[1] = e[j + 1]
      BY <2>7
    <3> HIDE DEF x
    <3>2. c \in Seq(T) /\ Len(c) = j + 1 /\ \A i \in 1 .. j + 1 : c[i] = IF i <= j THEN a[i] ELSE x[i - j]
      <4>1. /\ a \o x \in Seq(T) /\ Len(a \o x) = Len(a) + Len(x)
            /\ \A i \in 1 .. Len(a) + Len(x) : (a \o x)[i] = IF i <= Len(a) THEN a[i] ELSE x[i - Len(a)]
        BY <2>3, <3>1, ConcatProperties
      <4>2. Len(a) = j /\ Len(x) = 1
        BY <2>4, <3>1
      <4> QED
        BY <4>1, <4>2
    <3>3. \A i \in 1 .. j + 1 : c[i] = b[i]
      <4>1. ASSUME NEW i \in 1 .. j + 1
            PROVE  c[i] = b[i]
        <5>1. CASE i <= j
          <6>1. i \in 1 .. j
            BY <2>1, <5>1
          <6> HIDE DEF c
          <6> QED
            BY <2>5, <2>6, <3>2, <5>1, <6>1
        <5>2. CASE ~(i <= j)
          <6>1. i = j + 1 /\ i - j = 1
            BY <2>1, <5>2
          <6> HIDE DEF c
          <6> QED
            BY <2>6, <3>1, <3>2, <5>2, <6>1
        <5> QED
          BY <5>1, <5>2
      <4> QED
        BY <4>1
    <3> HIDE DEF c
    <3>4. c = b
      BY <2>3, <2>4, <3>2, <3>3, SeqEqual
    <3> QED
      BY <3>4 DEF c, x
  <2>9. FlattenSeq([k \in 1 .. j |-> R[k]]) = a
    BY <1>5 DEF a
  <2> QED
    BY <2>1, <2>2, <2>8, <2>9 DEF b
<1>6. n \in good
  <2>1. 0 .. n \subseteq good
    <3> HIDE DEF good
    <3> QED
      BY <1>1, <1>4, <1>5, FromZero
  <2> HIDE DEF good
  <2> QED
    BY <1>1, <2>1
<1> QED
  BY <1>1, <1>3, <1>6

LEMMA MappedIdentity ==
  ASSUME NEW T, NEW s \in Seq(T), NEW h, \A k \in DOMAIN s : h[s[k]] = <<s[k]>>
  PROVE  Mapped(h, s) = s
<1>1. Singles(h, s, s)
  BY LenProperties DEF Singles
<1> QED
  BY <1>1, MappedSingles

(* What is in one of the lists is in what they make together.              *)
LEMMA FlattenHas ==
  ASSUME NEW U, NEW n, NEW P, NEW k, NEW i, Parts(P, n, U), k \in 1 .. n, i \in DOMAIN P[k]
  PROVE  \E j \in DOMAIN Together(P, n) : Together(P, n)[j] = P[k][i]
<1>0. n \in Nat /\ k \in 1 .. n /\ i \in 1 .. Len(P[k]) /\ \A m \in 1 .. n : P[m] \in Seq(U)
  BY LenProperties DEF Parts
<1> USE <1>0
<1> DEFINE F(m) == FlattenSeq([l \in 1 .. m |-> P[l]])
           good == {m \in 0 .. n : m >= k => \E j \in DOMAIN F(m) : F(m)[j] = P[k][i]}
<1>1. 0 \in good
  OBVIOUS
<1>2. ASSUME NEW m \in 0 .. n - 1, m \in good
      PROVE  m + 1 \in good
  <2>1. m \in Nat /\ m + 1 \in 0 .. n /\ m + 1 \in 1 .. n /\ \A l \in 1 .. m + 1 : l \in 1 .. n
    OBVIOUS
  <2>2. F(m + 1) = F(m) \o P[m + 1]
    BY <2>1, FlattenNext
  <2>3. F(m) \in Seq(U)
    <3>1. \A l \in 1 .. m : P[l] \in Seq(U)
      BY <2>1
    <3> QED
      BY <2>1, <3>1, FlattenIn
  <2>4. P[m + 1] \in Seq(U)
    BY <2>1
  <2> DEFINE a == F(m)
             b == P[m + 1]
             c == F(m + 1)
  <2>5. a \in Seq(U) /\ b \in Seq(U) /\ c = a \o b
    BY <2>2, <2>3, <2>4
  <2>6. m >= k => \E j \in DOMAIN a : a[j] = P[k][i]
    BY <1>2
  <2>7. m + 1 = k => b = P[k]
    OBVIOUS
  <2> HIDE DEF a, b, c
  <2>8. /\ c \in Seq(U) /\ Len(c) = Len(a) + Len(b) /\ Len(a) \in Nat /\ Len(b) \in Nat
        /\ DOMAIN a = 1 .. Len(a) /\ DOMAIN c = 1 .. Len(c)
        /\ \A j \in 1 .. Len(a) + Len(b) : c[j] = IF j <= Len(a) THEN a[j] ELSE b[j - Len(a)]
    <3>1. /\ c \in Seq(U) /\ Len(c) = Len(a) + Len(b)
          /\ \A j \in 1 .. Len(a) + Len(b) : c[j] = IF j <= Len(a) THEN a[j] ELSE b[j - Len(a)]
      BY <2>5, ConcatProperties
    <3>2. Len(a) \in Nat /\ Len(b) \in Nat /\ DOMAIN a = 1 .. Len(a)
      BY <2>5, LenProperties
    <3>3. DOMAIN c = 1 .. Len(c)
      BY <3>1, LenProperties
    <3> QED
      BY <3>1, <3>2, <3>3
  <2>9. CASE m >= k
    <3>1. PICK j \in 1 .. Len(a) : a[j] = P[k][i]
      BY <2>6, <2>8, <2>9
    <3>2. j \in 1 .. Len(a) + Len(b) /\ j <= Len(a)
      BY <2>8
    <3>3. j \in DOMAIN c /\ c[j] = P[k][i]
      BY <2>8, <3>1, <3>2
    <3> QED
      BY <2>1, <3>3 DEF c
  <2>10. CASE m + 1 = k
    <3>1. i \in 1 .. Len(b) /\ b[i] = P[k][i]
      BY <2>7, <2>10
    <3>2. Len(a) + i \in 1 .. Len(a) + Len(b) /\ ~(Len(a) + i <= Len(a)) /\ (Len(a) + i) - Len(a) = i
      BY <2>8, <3>1
    <3>3. Len(a) + i \in DOMAIN c /\ c[Len(a) + i] = P[k][i]
      BY <2>8, <3>1, <3>2
    <3> QED
      BY <2>1, <3>3 DEF c
  <2>11. CASE ~(m + 1 >= k)
    BY <2>1, <2>11
  <2>12. m >= k \/ m + 1 = k \/ ~(m + 1 >= k)
    BY <2>1
  <2> HIDE DEF good
  <2> QED
    BY <2>9, <2>10, <2>11, <2>12
<1>3. n \in good
  <2>1. 0 .. n \subseteq good
    <3> HIDE DEF good
    <3> QED
      BY <1>1, <1>2, FromZero
  <2> HIDE DEF good
  <2> QED
    BY <2>1
<1>4. n >= k
  OBVIOUS
<1> QED
  BY <1>3, <1>4 DEF Together

-----------------------------------------------------------------------------
(* Bodies.  What an item of one is:                                        *)
Shaped(item) ==
  /\ DOMAIN item = {"id", "kind", "gate", "callee", "qubits", "looped"}
  /\ item.id \in Seq(Nat) /\ item.id # <<>>

AllShaped(items) == items \in Seq(ToSet(items)) /\ \A k \in DOMAIN items : Shaped(items[k])

LEMMA OneList ==
  ASSUME NEW x
  PROVE  /\ <<x>> \in Seq(ToSet(<<x>>)) /\ DOMAIN <<x>> = 1 .. 1 /\ <<x>>[1] = x
         /\ \A T : x \in T => <<x>> \in Seq(T)
<1>1. ToSet(<<x>>) = {x}
  BY DEF ToSet
<1> QED
  BY <1>1

(* Lists of which each is a list of some elements, as lists of the same.   *)
LEMMA ListsOfTheSame ==
  ASSUME NEW n \in Nat, NEW P, \A k \in 1 .. n : P[k] \in Seq(ToSet(P[k]))
  PROVE  \A k \in 1 .. n : P[k] \in Seq(UNION {ToSet(P[j]) : j \in 1 .. n})
<1> DEFINE T == UNION {ToSet(P[j]) : j \in 1 .. n}
<1>1. ASSUME NEW k \in 1 .. n
      PROVE  P[k] \in Seq(T)
  <2>1. ToSet(P[k]) \subseteq T /\ P[k] \in Seq(ToSet(P[k]))
    OBVIOUS
  <2> HIDE DEF T
  <2> QED
    BY <2>1, SeqMonotonic
<1> QED
  BY <1>1

LEMMA IsList ==
  ASSUME NEW T, NEW s \in Seq(T)
  PROVE  s \in Seq(ToSet(s)) /\ ToSet(s) \subseteq T
<1>1. Len(s) \in Nat /\ DOMAIN s = 1 .. Len(s) /\ s = [i \in 1 .. Len(s) |-> s[i]]
  BY LenProperties
<1>2. \A i \in 1 .. Len(s) : s[i] \in T /\ s[i] \in ToSet(s)
  BY <1>1, ElementOfSeq DEF ToSet
<1>3. s \in Seq(ToSet(s))
  BY <1>1, <1>2, IsASeq
<1> QED
  BY <1>1, <1>2, <1>3 DEF ToSet

TakesPlace(new, site, items) ==
  /\ DOMAIN new = DOMAIN items
  /\ \A k \in DOMAIN items :
       /\ new[k].kind = items[k].kind
       /\ new[k].callee = items[k].callee
       /\ new[k].gate = items[k].gate
       /\ new[k].id = site.id \o items[k].id
       /\ new[k].qubits = Substituted(items[k].qubits, site.qubits)
       /\ new[k].looped = (items[k].looped \/ site.looped)

LEMMA InPlaceIsShaped ==
  ASSUME NEW site, NEW items, Shaped(site), AllShaped(items)
  PROVE  AllShaped(InPlaceOf(site, items)) /\ TakesPlace(InPlaceOf(site, items), site, items)
<1> DEFINE new == InPlaceOf(site, items)
           n == Len(items)
<1>1. n \in Nat /\ DOMAIN items = 1 .. n
  BY LenProperties DEF AllShaped
<1>2. DOMAIN new = 1 .. n /\ new = [k \in 1 .. n |-> new[k]]
  BY <1>1 DEF InPlaceOf
<1>3. ASSUME NEW k \in 1 .. n
      PROVE  /\ DOMAIN new[k] = {"id", "kind", "gate", "callee", "qubits", "looped"}
             /\ new[k].kind = items[k].kind /\ new[k].callee = items[k].callee /\ new[k].gate = items[k].gate
             /\ new[k].id = site.id \o items[k].id
             /\ new[k].qubits = Substituted(items[k].qubits, site.qubits)
             /\ new[k].looped = (items[k].looped \/ site.looped)
  <2>1. DOMAIN items[k] = {"id", "kind", "gate", "callee", "qubits", "looped"}
    BY <1>1 DEF AllShaped, Shaped
  <2>2. new[k] = [items[k] EXCEPT !.id = site.id \o @,
                                  !.qubits = Substituted(@, site.qubits),
                                  !.looped = @ \/ site.looped]
    BY <1>1 DEF InPlaceOf
  <2> HIDE DEF new
  <2> QED
    BY <2>1, <2>2
<1>4. ASSUME NEW k \in 1 .. n
      PROVE  new[k].id \in Seq(Nat) /\ new[k].id # <<>>
  <2>1. items[k].id \in Seq(Nat) /\ items[k].id # <<>> /\ site.id \in Seq(Nat) /\ site.id # <<>>
    BY <1>1 DEF AllShaped, Shaped
  <2>2. site.id \o items[k].id \in Seq(Nat) /\ site.id \o items[k].id # <<>>
    BY <2>1, ConcatProperties, ConcatEqualIffEmpty
  <2>3. new[k].id = site.id \o items[k].id
    BY <1>3
  <2> QED
    BY <2>2, <2>3
<1> HIDE DEF new, n
<1>5. new \in Seq(ToSet(new))
  <2>1. \A k \in 1 .. n : new[k] \in ToSet(new)
    BY <1>2 DEF ToSet
  <2> QED
    BY <1>1, <1>2, <2>1, IsASeq
<1>6. AllShaped(new)
  BY <1>2, <1>3, <1>4, <1>5 DEF AllShaped, Shaped
<1>7. TakesPlace(new, site, items)
  BY <1>1, <1>2, <1>3 DEF TakesPlace
<1> QED
  BY <1>6, <1>7 DEF new

LEMMA ShapedTogether ==
  ASSUME NEW n \in Nat, NEW P, \A k \in 1 .. n : AllShaped(P[k])
  PROVE  AllShaped(FlattenSeq([k \in 1 .. n |-> P[k]]))
<1> DEFINE Q == [k \in 1 .. n |-> P[k]]
           r == FlattenSeq(Q)
<1>1. ListOfLists(Q, n)
  BY DEF ListOfLists, AllShaped
<1>2. \A k \in 1 .. n : Q[k] = P[k]
  OBVIOUS
<1> HIDE DEF Q
<1>3. r \in Seq(ToSet(r)) /\ \A i \in DOMAIN r : \E k \in 1 .. n : \E j \in DOMAIN Q[k] : r[i] = Q[k][j]
  BY <1>1, PutTogether
<1> HIDE DEF r
<1>4. ASSUME NEW i \in DOMAIN r
      PROVE  Shaped(r[i])
  <2>1. PICK k \in 1 .. n : \E j \in DOMAIN Q[k] : r[i] = Q[k][j]
    BY <1>3
  <2>2. AllShaped(Q[k])
    BY <1>2
  <2> QED
    BY <2>1, <2>2 DEF AllShaped
<1>5. AllShaped(r)
  BY <1>3, <1>4 DEF AllShaped
<1> QED
  BY <1>5 DEF r, Q

(* The gates in what is put together are those of the parts.               *)
GateList(x) == IF x.kind = "gate" THEN <<GateOf(x)>> ELSE <<>>

LEMMA GateListIn ==
  ASSUME NEW x
  PROVE  GateList(x) \in Seq({GateOf(x)})
<1>1. <<GateOf(x)>> \in Seq({GateOf(x)})
  OBVIOUS
<1>2. <<>> \in Seq({GateOf(x)})
  BY EmptySeq
<1> QED
  BY <1>1, <1>2 DEF GateList

LEMMA GatesAreMapped ==
  ASSUME NEW T
  PROVE  /\ [x \in T |-> GateList(x)] \in [T -> Seq({GateOf(x) : x \in T})]
         /\ \A s \in Seq(T) : GatesIn(s) = Mapped([x \in T |-> GateList(x)], s)
<1> DEFINE U == {GateOf(x) : x \in T}
           h == [x \in T |-> GateList(x)]
<1>1. ASSUME NEW x \in T
      PROVE  GateList(x) \in Seq(U)
  <2>1. {GateOf(x)} \subseteq U
    OBVIOUS
  <2> HIDE DEF U
  <2> QED
    BY <2>1, GateListIn, SeqMonotonic
<1>2. ASSUME NEW s \in Seq(T)
      PROVE  GatesIn(s) = Mapped(h, s)
  <2>1. DOMAIN s = 1 .. Len(s) /\ \A k \in 1 .. Len(s) : s[k] \in T
    BY LenProperties, ElementOfSeq
  <2>2. \A k \in DOMAIN s : h[s[k]] = GateList(s[k])
    BY <2>1
  <2>3. [k \in DOMAIN s |-> h[s[k]]] = [k \in DOMAIN s |-> IF s[k].kind = "gate" THEN <<GateOf(s[k])>> ELSE <<>>]
    <3> HIDE DEF h
    <3> QED
      BY <2>2 DEF GateList
  <2> QED
    BY <2>3 DEF GatesIn, Mapped
<1> QED
  BY <1>1, <1>2

LEMMA GatesTogether ==
  ASSUME NEW n \in Nat, NEW P, \A k \in 1 .. n : P[k] \in Seq(ToSet(P[k]))
  PROVE  GatesIn(FlattenSeq([k \in 1 .. n |-> P[k]])) = FlattenSeq([k \in 1 .. n |-> GatesIn(P[k])])
<1> DEFINE T == UNION {ToSet(P[k]) : k \in 1 .. n}
           U == {GateOf(x) : x \in T}
           h == [x \in T |-> GateList(x)]
           R == [k \in 1 .. n |-> GatesIn(P[k])]
<1>1. \A k \in 1 .. n : P[k] \in Seq(T)
  BY ListsOfTheSame
<1> HIDE DEF T
<1>2. h \in [T -> Seq(U)] /\ \A s \in Seq(T) : GatesIn(s) = Mapped(h, s)
  BY GatesAreMapped
<1> HIDE DEF h, U
<1>3. FlattenSeq([k \in 1 .. n |-> P[k]]) \in Seq(T)
  BY <1>1, FlattenIn
<1>4. (\A k \in 1 .. n : R[k] = Mapped(h, P[k])) /\ R = [k \in 1 .. n |-> R[k]]
  BY <1>1, <1>2
<1>5. Mapped(h, FlattenSeq([k \in 1 .. n |-> P[k]])) = FlattenSeq([k \in 1 .. n |-> R[k]])
  <2> HIDE DEF R
  <2>1. Maps(h, T, U) /\ Parts(P, n, T) /\ EachMapped(h, P, R, n)
    BY <1>1, <1>2, <1>4 DEF Maps, Parts, EachMapped
  <2>2. Mapped(h, Together(P, n)) = Together(R, n)
    BY <2>1, MappedFlatten
  <2> QED
    BY <2>2 DEF Together
<1>6. GatesIn(FlattenSeq([k \in 1 .. n |-> P[k]])) = FlattenSeq(R)
  <2> HIDE DEF R
  <2> QED
    BY <1>2, <1>3, <1>4, <1>5
<1> QED
  BY <1>6

LEMMA GatesInOne ==
  ASSUME NEW x
  PROVE  GatesIn(<<x>>) = GateList(x)
<1> DEFINE h == [y \in {x} |-> GateList(y)]
<1>1. <<x>> \in Seq({x}) /\ h[x] = GateList(x)
  OBVIOUS
<1>2. GatesIn(<<x>>) = Mapped(h, <<x>>)
  BY <1>1, GatesAreMapped
<1> HIDE DEF h
<1>3. h[x] \in Seq({GateOf(x)})
  BY <1>1, GateListIn
<1>4. Mapped(h, <<x>>) = h[x]
  BY <1>3, MappedOne
<1> QED
  BY <1>1, <1>2, <1>4

(* Gates that are in the place of a call.                                  *)
Placed(y, site) == [y EXCEPT !.qubits = Substituted(@, site.qubits), !.looped = @ \/ site.looped]

LEMMA PlacedRecord ==
  ASSUME NEW site, NEW gate, NEW qubits, NEW looped
  PROVE  Placed([gate |-> gate, qubits |-> qubits, looped |-> looped], site)
           = [gate |-> gate, qubits |-> Substituted(qubits, site.qubits), looped |-> (looped \/ site.looped)]
<1> DEFINE y == [gate |-> gate, qubits |-> qubits, looped |-> looped]
           z == Placed(y, site)
<1>1. y.qubits = qubits /\ y.looped = looped /\ y.gate = gate /\ DOMAIN y = {"gate", "qubits", "looped"}
  OBVIOUS
<1>2. z = [y EXCEPT !.qubits = Substituted(@, site.qubits), !.looped = @ \/ site.looped]
  BY DEF Placed
<1> HIDE DEF y, z
<1>3. /\ DOMAIN z = {"gate", "qubits", "looped"} /\ z = [x \in DOMAIN z |-> z[x]]
      /\ z.gate = gate /\ z.qubits = Substituted(qubits, site.qubits) /\ z.looped = (looped \/ site.looped)
  BY <1>1, <1>2
<1>4. z = [gate |-> gate, qubits |-> Substituted(qubits, site.qubits), looped |-> (looped \/ site.looped)]
  BY <1>3
<1> QED
  BY <1>4 DEF y, z

LEMMA AppliedIsMapped ==
  ASSUME NEW T, NEW site
  PROVE  /\ [y \in T |-> <<Placed(y, site)>>] \in [T -> Seq({Placed(y, site) : y \in T})]
         /\ \A s \in Seq(T) : Mapped([y \in T |-> <<Placed(y, site)>>], s) = AppliedTo(s, site)
<1> DEFINE U == {Placed(y, site) : y \in T}
           h == [y \in T |-> <<Placed(y, site)>>]
<1>1. ASSUME NEW y \in T
      PROVE  <<Placed(y, site)>> \in Seq(U)
  <2>1. Placed(y, site) \in U
    OBVIOUS
  <2> HIDE DEF U
  <2> QED
    BY <2>1, OneList
<1>2. ASSUME NEW s \in Seq(T)
      PROVE  Mapped(h, s) = AppliedTo(s, site)
  <2> DEFINE e == [k \in 1 .. Len(s) |-> Placed(s[k], site)]
  <2>1. Len(s) \in Nat /\ DOMAIN s = 1 .. Len(s) /\ \A k \in 1 .. Len(s) : s[k] \in T
    BY LenProperties, ElementOfSeq
  <2>2. e \in Seq(U)
    <3>1. \A k \in 1 .. Len(s) : Placed(s[k], site) \in U
      BY <2>1
    <3> HIDE DEF U
    <3> QED
      BY <2>1, <3>1, IsASeq
  <2>3. Len(e) = Len(s)
    <3>1. DOMAIN e = 1 .. Len(s)
      OBVIOUS
    <3> HIDE DEF e, U
    <3>2. Len(e) \in Nat /\ DOMAIN e = 1 .. Len(e)
      BY <2>2, LenProperties
    <3> QED
      BY <2>1, <3>1, <3>2
  <2>4. \A k \in 1 .. Len(s) : h[s[k]] = <<e[k]>>
    BY <2>1
  <2>5. e = AppliedTo(s, site)
    BY <2>1 DEF AppliedTo, Placed
  <2> HIDE DEF e, h, U
  <2>6. Singles(h, s, e)
    BY <2>3, <2>4 DEF Singles
  <2>7. Mapped(h, s) = e
    BY <2>2, <2>6, MappedSingles
  <2> QED
    BY <2>5, <2>7
<1> QED
  BY <1>1, <1>2

LEMMA GatesInPlace ==
  ASSUME NEW site, NEW items, Shaped(site), AllShaped(items)
  PROVE  GatesIn(InPlaceOf(site, items)) = AppliedTo(GatesIn(items), site)
<1> DEFINE n == Len(items)
           new == InPlaceOf(site, items)
           T == {GateOf(x) : x \in ToSet(items)}
           h == [y \in T |-> <<Placed(y, site)>>]
           P == [k \in 1 .. n |-> GateList(items[k])]
           Q == [k \in 1 .. n |-> GateList(new[k])]
<1>1. n \in Nat /\ DOMAIN items = 1 .. n /\ DOMAIN new = 1 .. n /\ \A k \in 1 .. n : items[k] \in ToSet(items)
  <2>1. n \in Nat /\ DOMAIN items = 1 .. n
    BY LenProperties DEF AllShaped
  <2>2. DOMAIN new = DOMAIN items
    BY InPlaceIsShaped DEF TakesPlace
  <2> QED
    BY <2>1, <2>2 DEF ToSet
<1>2. GatesIn(items) = FlattenSeq([k \in 1 .. n |-> P[k]]) /\ GatesIn(new) = FlattenSeq([k \in 1 .. n |-> Q[k]])
  <2> HIDE DEF n, new
  <2> QED
    BY <1>1 DEF GatesIn, GateList
<1>3. \A k \in 1 .. n : P[k] \in Seq(T)
  <2>1. ASSUME NEW k \in 1 .. n
        PROVE  GateList(items[k]) \in Seq(T)
    <3>1. {GateOf(items[k])} \subseteq T
      BY <1>1
    <3> HIDE DEF T
    <3> QED
      BY <3>1, GateListIn, SeqMonotonic
  <2> QED
    BY <2>1
<1>4. /\ h \in [T -> Seq({Placed(y, site) : y \in T})]
      /\ \A s \in Seq(T) : Mapped(h, s) = AppliedTo(s, site)
  <2> HIDE DEF T
  <2> QED
    BY AppliedIsMapped
<1>5. ASSUME NEW k \in 1 .. n
      PROVE  Mapped(h, P[k]) = Q[k]
  <2>1. /\ new[k].kind = items[k].kind /\ new[k].gate = items[k].gate
        /\ new[k].qubits = Substituted(items[k].qubits, site.qubits)
        /\ new[k].looped = (items[k].looped \/ site.looped)
    <3>1. k \in DOMAIN items
      BY <1>1
    <3>2. TakesPlace(InPlaceOf(site, items), site, items)
      BY InPlaceIsShaped
    <3> QED
      BY <3>1, <3>2 DEF TakesPlace
  <2>2. P[k] = GateList(items[k]) /\ Q[k] = GateList(new[k])
    OBVIOUS
  <2> HIDE DEF P, Q, new
  <2>3. CASE items[k].kind = "gate"
    <3> DEFINE y == GateOf(items[k])
    <3>1. P[k] = <<y>> /\ Q[k] = <<GateOf(new[k])>>
      BY <2>1, <2>2, <2>3 DEF GateList
    <3>2. GateOf(new[k]) = Placed(y, site)
      <4>1. Placed(y, site) = [gate |-> items[k].gate, qubits |-> Substituted(items[k].qubits, site.qubits),
                               looped |-> (items[k].looped \/ site.looped)]
        <5>1. y = [gate |-> items[k].gate, qubits |-> items[k].qubits, looped |-> items[k].looped]
          BY DEF GateOf
        <5> HIDE DEF y
        <5> QED
          BY <5>1, PlacedRecord
      <4>2. GateOf(new[k]) = [gate |-> items[k].gate, qubits |-> Substituted(items[k].qubits, site.qubits),
                              looped |-> (items[k].looped \/ site.looped)]
        BY <2>1 DEF GateOf
      <4> QED
        BY <4>1, <4>2
    <3>3. y \in T
      BY <1>1
    <3>4. h[y] = <<Placed(y, site)>>
      BY <3>3
    <3>5. h[y] \in Seq({Placed(x, site) : x \in T})
      BY <1>4, <3>3
    <3> HIDE DEF h, y, T
    <3>6. Mapped(h, <<y>>) = h[y]
      BY <3>5, MappedOne
    <3> QED
      BY <3>1, <3>2, <3>4, <3>6
  <2>4. CASE items[k].kind # "gate"
    <3>1. P[k] = <<>> /\ Q[k] = <<>>
      BY <2>1, <2>2, <2>4 DEF GateList
    <3>2. Mapped(h, <<>>) = <<>>
      <4>1. [i \in DOMAIN <<>> |-> h[<<>>[i]]] = [i \in 1 .. 0 |-> <<>>]
        OBVIOUS
      <4> QED
        BY <4>1, FlattenNone DEF Mapped
    <3> QED
      BY <3>1, <3>2
  <2> QED
    BY <2>3, <2>4
<1> HIDE DEF P, Q, h, T, new, n
<1>6. FlattenSeq([k \in 1 .. n |-> P[k]]) \in Seq(T)
  BY <1>1, <1>3, FlattenIn
<1>7. Mapped(h, FlattenSeq([k \in 1 .. n |-> P[k]])) = FlattenSeq([k \in 1 .. n |-> Q[k]])
  <2> DEFINE U == {Placed(y, site) : y \in T}
  <2>1. h \in [T -> Seq(U)]
    BY <1>4
  <2> HIDE DEF U
  <2>2. Maps(h, T, U) /\ Parts(P, n, T) /\ EachMapped(h, P, Q, n)
    BY <1>1, <1>3, <1>5, <2>1 DEF Maps, Parts, EachMapped
  <2>3. Mapped(h, Together(P, n)) = Together(Q, n)
    BY <2>2, MappedFlatten
  <2> QED
    BY <2>3 DEF Together
<1> QED
  BY <1>2, <1>4, <1>6, <1>7 DEF new

(* One call replaced, in a list that is put together.                      *)
Good(items) == AllShaped(items) /\ WellFormed(items)

GoodBodies == \A g \in Functions : Good(body[g])

Replaced(x, id) ==
  IF x.kind = "call" /\ x.id = id THEN InPlaceOf(x, body[x.callee]) ELSE <<x>>

GoodItem(x) == Shaped(x) /\ (x.kind = "call" => x.callee \in Functions)

LEMMA GoodItems ==
  ASSUME NEW items, Good(items)
  PROVE  items \in Seq(ToSet(items)) /\ \A x \in ToSet(items) : GoodItem(x)
BY DEF Good, AllShaped, WellFormed, ToSet, GoodItem

LEMMA ReplacedIsShaped ==
  ASSUME GoodBodies, NEW x, NEW id, GoodItem(x)
  PROVE  AllShaped(Replaced(x, id))
<1>1. CASE x.kind = "call" /\ x.id = id
  <2>1. x.callee \in Functions /\ Shaped(x)
    BY <1>1 DEF GoodItem
  <2>2. AllShaped(body[x.callee])
    BY <2>1 DEF GoodBodies, Good
  <2>3. AllShaped(InPlaceOf(x, body[x.callee]))
    BY <2>1, <2>2, InPlaceIsShaped
  <2> QED
    BY <1>1, <2>3 DEF Replaced
<1>2. CASE ~(x.kind = "call" /\ x.id = id)
  <2>1. Replaced(x, id) = <<x>>
    BY <1>2 DEF Replaced
  <2>2. <<x>> \in Seq(ToSet(<<x>>)) /\ DOMAIN <<x>> = 1 .. 1 /\ <<x>>[1] = x
    BY OneList
  <2>3. \A k \in DOMAIN <<x>> : Shaped(<<x>>[k])
    BY <2>2 DEF GoodItem
  <2> QED
    BY <2>1, <2>2, <2>3 DEF AllShaped
<1> QED
  BY <1>1, <1>2

LEMMA InlinedIsMapped ==
  ASSUME GoodBodies, NEW T, NEW id, \A x \in T : GoodItem(x)
  PROVE  /\ Maps([x \in T |-> Replaced(x, id)], T, UNION {ToSet(Replaced(x, id)) : x \in T})
         /\ \A s \in Seq(T) : WithInlined(s, id) = Mapped([x \in T |-> Replaced(x, id)], s)
<1> DEFINE h == [x \in T |-> Replaced(x, id)]
           U == UNION {ToSet(Replaced(x, id)) : x \in T}
<1>1. ASSUME NEW x \in T
      PROVE  Replaced(x, id) \in Seq(U)
  <2>1. ToSet(Replaced(x, id)) \subseteq U
    OBVIOUS
  <2>2. Replaced(x, id) \in Seq(ToSet(Replaced(x, id)))
    BY ReplacedIsShaped DEF AllShaped
  <2> HIDE DEF U
  <2> QED
    BY <2>1, <2>2, SeqMonotonic
<1>2. ASSUME NEW s \in Seq(T)
      PROVE  WithInlined(s, id) = Mapped(h, s)
  <2>1. DOMAIN s = 1 .. Len(s) /\ \A k \in 1 .. Len(s) : s[k] \in T
    BY LenProperties, ElementOfSeq
  <2>2. \A k \in DOMAIN s : h[s[k]] = Replaced(s[k], id)
    BY <2>1
  <2>3. [k \in DOMAIN s |-> h[s[k]]]
          = [k \in DOMAIN s |-> IF s[k].kind = "call" /\ s[k].id = id
                                THEN InPlaceOf(s[k], body[s[k].callee]) ELSE <<s[k]>>]
    <3> HIDE DEF h
    <3> QED
      BY <2>2 DEF Replaced
  <2> QED
    BY <2>3 DEF WithInlined, Mapped
<1>3. Maps(h, T, U)
  <2> HIDE DEF U
  <2> QED
    BY <1>1 DEF Maps
<1> QED
  BY <1>2, <1>3

LEMMA InlinedTogether ==
  ASSUME GoodBodies, NEW n, NEW P, NEW id, n \in Nat, \A k \in 1 .. n : Good(P[k])
  PROVE  WithInlined(Together(P, n), id) = Together([k \in 1 .. n |-> WithInlined(P[k], id)], n)
<1> DEFINE T == UNION {ToSet(P[k]) : k \in 1 .. n}
           h == [x \in T |-> Replaced(x, id)]
           U == UNION {ToSet(Replaced(x, id)) : x \in T}
           R == [k \in 1 .. n |-> WithInlined(P[k], id)]
<1>1. \A k \in 1 .. n : P[k] \in Seq(ToSet(P[k])) /\ \A x \in ToSet(P[k]) : GoodItem(x)
  BY GoodItems
<1>2. \A k \in 1 .. n : P[k] \in Seq(T)
  BY <1>1, ListsOfTheSame
<1>3. \A x \in T : GoodItem(x)
  BY <1>1
<1> HIDE DEF T
<1>4. Maps(h, T, U) /\ \A s \in Seq(T) : WithInlined(s, id) = Mapped(h, s)
  BY <1>3, InlinedIsMapped
<1> HIDE DEF h, U
<1>5. Parts(P, n, T)
  BY <1>2 DEF Parts
<1>6. EachMapped(h, P, R, n)
  BY <1>2, <1>4 DEF EachMapped
<1> HIDE DEF R
<1>7. Mapped(h, Together(P, n)) = Together(R, n)
  BY <1>4, <1>5, <1>6, MappedFlatten
<1>8. Together(P, n) \in Seq(T)
  BY <1>2, FlattenIn DEF Together
<1>9. WithInlined(Together(P, n), id) = Together(R, n)
  BY <1>4, <1>7, <1>8
<1> QED
  BY <1>9 DEF R

LEMMA InlinedOne ==
  ASSUME GoodBodies, NEW x, NEW id, GoodItem(x)
  PROVE  WithInlined(<<x>>, id) = Replaced(x, id)
<1> DEFINE h == [y \in {x} |-> Replaced(y, id)]
<1>1. <<x>> \in Seq({x}) /\ h[x] = Replaced(x, id)
  OBVIOUS
<1>2. WithInlined(<<x>>, id) = Mapped(h, <<x>>)
  <2>1. \A y \in {x} : GoodItem(y)
    OBVIOUS
  <2>2. \A s \in Seq({x}) : WithInlined(s, id) = Mapped(h, s)
    BY <2>1, InlinedIsMapped
  <2> QED
    BY <1>1, <2>2
<1> HIDE DEF h
<1>3. h[x] \in Seq(ToSet(h[x]))
  BY <1>1, ReplacedIsShaped DEF AllShaped
<1>4. Mapped(h, <<x>>) = h[x]
  BY <1>3, MappedOne
<1> QED
  BY <1>1, <1>2, <1>4

LEMMA InlinedNone ==
  ASSUME NEW items, NEW id, Good(items), \A k \in DOMAIN items : items[k].id # id
  PROVE  WithInlined(items, id) = items
<1> DEFINE T == ToSet(items)
           h == [x \in T |-> <<x>>]
<1>1. items \in Seq(T) /\ \A k \in DOMAIN items : items[k] \in T
  BY GoodItems DEF ToSet
<1>2. \A k \in DOMAIN items : h[items[k]] = <<items[k]>>
  BY <1>1
<1>3. WithInlined(items, id) = Mapped(h, items)
  <2>1. [k \in DOMAIN items |-> h[items[k]]]
          = [k \in DOMAIN items |-> IF items[k].kind = "call" /\ items[k].id = id
                                    THEN InPlaceOf(items[k], body[items[k].callee]) ELSE <<items[k]>>]
    <3> HIDE DEF h
    <3> QED
      BY <1>2
  <2> QED
    BY <2>1 DEF WithInlined, Mapped
<1> HIDE DEF h, T
<1>4. Mapped(h, items) = items
  BY <1>1, <1>2, MappedIdentity
<1> QED
  BY <1>3, <1>4

LEMMA InPlaceIsGood ==
  ASSUME NEW site, NEW items, Shaped(site), Good(items)
  PROVE  Good(InPlaceOf(site, items))
<1> DEFINE new == InPlaceOf(site, items)
<1>1. AllShaped(new) /\ TakesPlace(new, site, items)
  BY InPlaceIsShaped DEF Good
<1> HIDE DEF new
<1>2. \A k \in DOMAIN new : /\ {"kind", "callee"} \subseteq DOMAIN new[k]
                            /\ new[k].kind = "call" => new[k].callee \in Functions
  BY <1>1 DEF AllShaped, Shaped, TakesPlace, Good, WellFormed
<1>3. Good(new)
  BY <1>1, <1>2 DEF Good, AllShaped, WellFormed
<1> QED
  BY <1>3 DEF new

(* What is inlined of a function has longer identities than its own calls. *)
LEMMA LongerIds ==
  ASSUME NEW site, NEW items, NEW i, Shaped(site), AllShaped(items), site.id = <<i>>
  PROVE  \A j : \A k \in DOMAIN InPlaceOf(site, items) : InPlaceOf(site, items)[k].id # <<j>>
<1> DEFINE new == InPlaceOf(site, items)
<1>1. TakesPlace(new, site, items)
  BY InPlaceIsShaped
<1> HIDE DEF new
<1>2. ASSUME NEW j, NEW k \in DOMAIN new, new[k].id = <<j>>
      PROVE  FALSE
  <2>1. k \in DOMAIN items /\ new[k].id = site.id \o items[k].id
    BY <1>1 DEF TakesPlace
  <2> DEFINE a == items[k].id
             b == site.id
  <2>2. a \in Seq(Nat) /\ a # <<>> /\ b \in Seq(Nat) /\ b = <<i>>
    BY <2>1 DEF AllShaped, Shaped
  <2>3. b \o a = <<j>>
    BY <1>2, <2>1
  <2> HIDE DEF a, b
  <2>4. Len(a) \in Nat \ {0}
    BY <2>2, EmptySeq
  <2>5. Len(b \o a) = Len(b) + Len(a)
    BY <2>2, ConcatProperties
  <2>6. Len(b) = 1 /\ Len(<<j>>) = 1
    BY <2>2
  <2> QED
    BY <2>3, <2>4, <2>5, <2>6
<1> QED
  BY <1>2 DEF new

LEMMA OneIsGood ==
  ASSUME NEW x, GoodItem(x)
  PROVE  Good(<<x>>)
<1>1. <<x>> \in Seq(ToSet(<<x>>)) /\ DOMAIN <<x>> = 1 .. 1 /\ <<x>>[1] = x
  BY OneList
<1>2. \A k \in DOMAIN <<x>> : <<x>>[k] = x
  BY <1>1
<1> QED
  BY <1>1, <1>2 DEF Good, AllShaped, WellFormed, GoodItem, Shaped

-----------------------------------------------------------------------------
(* The program as it comes.                                                *)
LEMMA ProgramFacts ==
  ASSUME program \in Programs
  PROVE  \A g \in Functions :
           /\ Good(program.body[g])
           /\ DOMAIN program.body[g] = 1 .. Len(program.body[g]) /\ Len(program.body[g]) \in Nat
           /\ \A k \in DOMAIN program.body[g] :
                /\ program.body[g][k].id = <<k>>
                /\ program.body[g][k].kind \in {"gate", "call"}
                /\ GoodItem(program.body[g][k])
<1> SUFFICES ASSUME NEW g \in Functions
             PROVE  /\ Good(program.body[g])
                    /\ DOMAIN program.body[g] = 1 .. Len(program.body[g]) /\ Len(program.body[g]) \in Nat
                    /\ \A k \in DOMAIN program.body[g] :
                         /\ program.body[g][k].id = <<k>>
                         /\ program.body[g][k].kind \in {"gate", "call"}
                         /\ GoodItem(program.body[g][k])
  OBVIOUS
<1> DEFINE items == program.body[g]
<1>1. items \in Seq(ToSet(items))
  BY ProgramShape
<1>2. DOMAIN items = 1 .. Len(items) /\ Len(items) \in Nat
  BY <1>1, LenProperties
<1>3. ASSUME NEW k \in DOMAIN items
      PROVE  /\ DOMAIN items[k] = {"id", "kind", "gate", "callee", "qubits", "looped"}
             /\ items[k].id = <<k>>
             /\ items[k].kind \in {"gate", "call"}
             /\ items[k].callee \in {0} \cup Functions
             /\ items[k].kind = "call" <=> items[k].callee # 0
  BY ProgramShape
<1> HIDE DEF items
<1>4. ASSUME NEW k \in DOMAIN items
      PROVE  GoodItem(items[k])
  <2>1. k \in Nat
    BY <1>2
  <2>2. <<k>> \in Seq(Nat) /\ <<k>> # <<>>
    BY <2>1, OneList
  <2>3. items[k].kind = "call" => items[k].callee \in Functions
    BY <1>3
  <2> QED
    BY <1>3, <2>2, <2>3 DEF GoodItem, Shaped
<1>5. Good(items)
  BY <1>1, <1>3, <1>4 DEF Good, AllShaped, WellFormed, GoodItem
<1> QED
  BY <1>2, <1>3, <1>4, <1>5 DEF items

-----------------------------------------------------------------------------
(* The calls of kernels, by function and position, and what is known of    *)
(* them while the call graph is walked and the calls are inlined.          *)
Calls == UNION {{<<g, k>> : k \in {j \in DOMAIN program.body[g] : program.body[g][j].kind = "call"}} : g \in Functions}

CalleeOf(c) == program.body[c[1]][c[2]].callee

FoundCalls == {c \in Calls : Quantum(c[1]) /\ isQKernel(CalleeOf(c)) /\ CalleeOf(c) \in scanned}

SiteOf(c) == <<c[1], <<c[2]>>>>

Waiting(c) == \E i \in DOMAIN CB_to_inline : CB_to_inline[i] = SiteOf(c)

(* What a body has become when some of the calls have been inlined.        *)
Piece(g, k, done) ==
  IF <<g, k>> \in done THEN InPlaceOf(program.body[g][k], body[program.body[g][k].callee])
  ELSE <<program.body[g][k]>>

WithDone(g, done) == Together([k \in DOMAIN program.body[g] |-> Piece(g, k, done)], Len(program.body[g]))

(* What has been scanned calls only what has been; kernels that have been  *)
(* have a rank above the kernels they call.                                *)
Closed == \A g \in scanned : CalledIn(body[g]) \subseteq scanned /\ CalledIn(program.body[g]) \subseteq scanned

Ranks(rank) ==
  /\ rank \in [Functions -> Nat]
  /\ \A g \in scanned : isQKernel(g) =>
       /\ rank[g] < Cardinality(scanned)
       /\ \A c \in CalledIn(program.body[g]) : isQKernel(c) => rank[c] < rank[g]

(* A call comes after the calls in the function it calls.                  *)
CalleesFirst ==
  \A c, d \in FoundCalls : d[1] = CalleeOf(c) =>
    \A i, j \in DOMAIN CB_to_inline : CB_to_inline[i] = SiteOf(c) /\ CB_to_inline[j] = SiteOf(d) => j < i

ListInv ==
  /\ scanned \subseteq Functions /\ Closed /\ (\E rank : Ranks(rank))
  /\ CB_to_inline \in Seq({SiteOf(c) : c \in FoundCalls}) /\ CalleesFirst
  /\ \A g \in Functions : AllShaped(body[g])

ScanInv == present = Functions /\ body = program.body /\ \A c \in FoundCalls : Waiting(c)

InlinedAs(done) ==
  /\ done \subseteq FoundCalls
  /\ \A c \in FoundCalls : c \in done \/ Waiting(c)
  /\ \A c \in done : \A d \in FoundCalls : d[1] = CalleeOf(c) => ~Waiting(d)
  /\ \A g \in Functions : body[g] = WithDone(g, done)

InlineInv ==
  /\ \A f \in present : ~program.internal[f] => f \in scanned
  /\ \E done : InlinedAs(done)

FlatInv ==
  /\ pc \in {"scan", "inline"} => ListInv
  /\ pc = "scan" => ScanInv
  /\ pc = "inline" => InlineInv

-----------------------------------------------------------------------------
(* What a call is, and that its site in the list tells which it is.        *)
LEMMA CallFacts ==
  ASSUME TypeInv, NEW c \in Calls
  PROVE  /\ c = <<c[1], c[2]>> /\ c[1] \in Functions /\ c[2] \in DOMAIN program.body[c[1]] /\ c[2] \in Nat
         /\ program.body[c[1]][c[2]].kind = "call" /\ CalleeOf(c) \in Functions
         /\ CalleeOf(c) \in CalledIn(program.body[c[1]])
<1>1. PICK g \in Functions : c \in {<<g, k>> : k \in {j \in DOMAIN program.body[g] : program.body[g][j].kind = "call"}}
  BY DEF Calls
<1>2. PICK k \in DOMAIN program.body[g] : c = <<g, k>> /\ program.body[g][k].kind = "call"
  BY <1>1
<1>3. c[1] = g /\ c[2] = k
  BY <1>2
<1>4. DOMAIN program.body[g] = 1 .. Len(program.body[g]) /\ Len(program.body[g]) \in Nat /\ GoodItem(program.body[g][k])
  BY ProgramFacts DEF TypeInv
<1>5. k \in Nat
  BY <1>4
<1>6. CalleeOf(c) \in Functions
  BY <1>2, <1>3, <1>4 DEF GoodItem, CalleeOf
<1>7. CalleeOf(c) \in CalledIn(program.body[g])
  BY <1>2, <1>3 DEF CalledIn, CalleeOf
<1> QED
  BY <1>2, <1>3, <1>5, <1>6, <1>7

LEMMA SitesDiffer ==
  ASSUME TypeInv, NEW c \in Calls, NEW d \in Calls, SiteOf(c) = SiteOf(d)
  PROVE  c = d
<1>1. c[1] = d[1] /\ <<c[2]>> = <<d[2]>>
  BY DEF SiteOf
<1>2. c[2] = d[2]
  BY <1>1
<1> QED
  BY <1>1, <1>2, CallFacts

LEMMA PiecesAreGood ==
  ASSUME TypeInv, GoodBodies, NEW g \in Functions, NEW k \in DOMAIN program.body[g], NEW done, done \subseteq Calls
  PROVE  Good(Piece(g, k, done))
<1> DEFINE item == program.body[g][k]
<1>1. GoodItem(item)
  BY ProgramFacts DEF TypeInv
<1>2. CASE <<g, k>> \in done
  <2>1. <<g, k>> \in Calls /\ <<g, k>>[1] = g /\ <<g, k>>[2] = k
    BY <1>2
  <2>2. item.kind = "call"
    BY <2>1, CallFacts
  <2>3. item.callee \in Functions /\ Shaped(item)
    BY <1>1, <2>2 DEF GoodItem
  <2>4. Good(body[item.callee])
    BY <2>3 DEF GoodBodies
  <2>5. Good(InPlaceOf(item, body[item.callee]))
    BY <2>3, <2>4, InPlaceIsGood
  <2> QED
    BY <1>2, <2>5 DEF Piece
<1>3. CASE <<g, k>> \notin done
  <2>1. Good(<<item>>)
    BY <1>1, OneIsGood
  <2> QED
    BY <1>3, <2>1 DEF Piece
<1> QED
  BY <1>2, <1>3

(* Inlining one call more.                                                 *)
LEMMA InlineOne ==
  ASSUME TypeInv, GoodBodies, NEW g \in Functions, NEW i, NEW done,
         <<g, i>> \in Calls, done \subseteq Calls, body[g] = WithDone(g, done)
  PROVE  WithInlined(body[g], <<i>>) = WithDone(g, done \cup {<<g, i>>})
<1> DEFINE items == program.body[g]
           n == Len(items)
           more == done \cup {<<g, i>>}
           P == [k \in DOMAIN items |-> Piece(g, k, done)]
           Q == [k \in DOMAIN items |-> Piece(g, k, more)]
           R == [k \in 1 .. n |-> WithInlined(P[k], <<i>>)]
<1>1. DOMAIN items = 1 .. n /\ n \in Nat
  BY ProgramFacts DEF TypeInv
<1>2. \A k \in 1 .. n : GoodItem(items[k]) /\ items[k].id = <<k>> /\ k \in Nat
  <2>1. \A k \in DOMAIN items : GoodItem(items[k]) /\ items[k].id = <<k>>
    BY ProgramFacts DEF TypeInv
  <2> HIDE DEF items, n
  <2> QED
    BY <1>1, <2>1
<1>3. \A k \in 1 .. n : Good(P[k])
  <2>1. \A k \in DOMAIN items : Good(Piece(g, k, done))
    BY PiecesAreGood
  <2> HIDE DEF n, items
  <2> QED
    BY <1>1, <2>1
<1>4. ASSUME NEW k \in 1 .. n
      PROVE  WithInlined(P[k], <<i>>) = Q[k]
  <2>1. P[k] = Piece(g, k, done) /\ Q[k] = Piece(g, k, more)
    <3> HIDE DEF n, items
    <3> QED
      BY <1>1
  <2>2. Good(P[k])
    BY <1>3
  <2>3. GoodItem(items[k]) /\ items[k].id = <<k>>
    BY <1>2
  <2> HIDE DEF P, Q, more, n
  <2>4. CASE <<g, k>> \in done
    <3>1. P[k] = InPlaceOf(items[k], body[items[k].callee]) /\ Q[k] = P[k]
      BY <2>1, <2>4 DEF Piece, more
    <3>2. AllShaped(body[items[k].callee]) /\ Shaped(items[k])
      <4>1. <<g, k>> \in Calls /\ <<g, k>>[1] = g /\ <<g, k>>[2] = k
        BY <2>4
      <4>2. items[k].kind = "call"
        BY <4>1, CallFacts
      <4>3. items[k].callee \in Functions /\ Shaped(items[k])
        BY <2>3, <4>2 DEF GoodItem
      <4> QED
        BY <4>3 DEF GoodBodies, Good
    <3>3. \A j \in DOMAIN P[k] : P[k][j].id # <<i>>
      <4> HIDE DEF items
      <4> QED
        BY <2>3, <3>1, <3>2, LongerIds
    <3> QED
      BY <2>2, <3>1, <3>3, InlinedNone
  <2>5. CASE <<g, k>> \notin done
    <3>1. P[k] = <<items[k]>>
      BY <2>1, <2>5 DEF Piece
    <3>2. WithInlined(P[k], <<i>>) = Replaced(items[k], <<i>>)
      <4> HIDE DEF items
      <4> QED
        BY <2>3, <3>1, InlinedOne
    <3>3. CASE k = i
      <4>1. <<g, k>> \in more
        BY <3>3 DEF more
      <4>2. Q[k] = InPlaceOf(items[k], body[items[k].callee])
        BY <2>1, <4>1 DEF Piece
      <4>3. items[k].kind = "call"
        <5>1. <<g, i>>[1] = g /\ <<g, i>>[2] = k
          BY <3>3
        <5> QED
          BY <5>1, CallFacts
      <4>4. items[k].id = <<i>>
        BY <2>3, <3>3
      <4>5. Replaced(items[k], <<i>>) = InPlaceOf(items[k], body[items[k].callee])
        <5> HIDE DEF items
        <5> QED
          BY <4>3, <4>4 DEF Replaced
      <4> QED
        BY <3>2, <4>2, <4>5
    <3>4. CASE k # i
      <4>1. <<g, k>> \notin more
        BY <2>5, <3>4 DEF more
      <4>2. Q[k] = <<items[k]>>
        BY <2>1, <4>1 DEF Piece
      <4>3. items[k].id # <<i>>
        BY <2>3, <3>4
      <4>4. Replaced(items[k], <<i>>) = <<items[k]>>
        <5> HIDE DEF items
        <5> QED
          BY <4>3 DEF Replaced
      <4> QED
        BY <3>2, <4>2, <4>4
    <3> QED
      BY <3>3, <3>4
  <2> QED
    BY <2>4, <2>5
<1>5. body[g] = Together(P, n)
  BY DEF WithDone
<1>6. WithDone(g, more) = Together(Q, n)
  BY DEF WithDone
<1> HIDE DEF P, Q, more, n, items
<1>7. WithInlined(Together(P, n), <<i>>) = Together(R, n)
  BY <1>1, <1>3, InlinedTogether
<1>8. Together(R, n) = Together(Q, n)
  <2>1. [k \in 1 .. n |-> R[k]] = [k \in 1 .. n |-> Q[k]]
    BY <1>4
  <2> QED
    BY <2>1 DEF Together
<1> QED
  BY <1>5, <1>6, <1>7, <1>8 DEF more

(* A body stays what it is while the functions inlined in it do not        *)
(* change.                                                                 *)
LEMMA WithDoneKept ==
  ASSUME program' = program, NEW g, NEW done,
         \A k \in DOMAIN program.body[g] : <<g, k>> \in done =>
           body'[program.body[g][k].callee] = body[program.body[g][k].callee]
  PROVE  WithDone(g, done)' = WithDone(g, done)
<1> DEFINE P == [k \in DOMAIN program.body[g] |-> Piece(g, k, done)]
           Q == [k \in DOMAIN program.body[g] |->
                   IF <<g, k>> \in done THEN InPlaceOf(program.body[g][k], body'[program.body[g][k].callee])
                   ELSE <<program.body[g][k]>>]
<1>1. P = Q
  <2>1. \A k \in DOMAIN program.body[g] : Piece(g, k, done) =
          IF <<g, k>> \in done THEN InPlaceOf(program.body[g][k], body'[program.body[g][k].callee])
          ELSE <<program.body[g][k]>>
    BY DEF Piece
  <2> QED
    BY <2>1
<1>2. WithDone(g, done)' = Together(Q, Len(program.body[g]))
  BY DEF WithDone, Piece, Together, InPlaceOf, Substituted
<1>3. WithDone(g, done) = Together(P, Len(program.body[g]))
  BY DEF WithDone
<1> QED
  BY <1>1, <1>2, <1>3

-----------------------------------------------------------------------------
(* The call graph.                                                         *)
LEMMA CalleesOfBodies ==
  ASSUME TypeInv
  PROVE  /\ \A g \in Functions : CalledIn(body[g]) \subseteq Functions
         /\ \A s \in SUBSET Functions : Callees(s) \subseteq Functions
         /\ \A s, t : s \subseteq t => Callees(s) \subseteq Callees(t)
         /\ \A s : \A g \in s : CalledIn(body[g]) \subseteq Callees(s)
         /\ \A g : Callees({g}) = CalledIn(body[g])
<1>1. \A g \in Functions : CalledIn(body[g]) \subseteq Functions
  BY DEF CalledIn, TypeInv, WellFormed
<1> QED
  BY <1>1 DEF Callees

(* What is reached is closed under calls, and the least such set.          *)
LEMMA ReachedFacts ==
  ASSUME TypeInv, NEW s, s \subseteq Functions
  PROVE  /\ s \subseteq Reached(s) /\ Reached(s) \subseteq Functions
         /\ Callees(Reached(s)) \subseteq Reached(s)
         /\ \A c \in SUBSET Functions : s \subseteq c /\ Callees(c) \subseteq c => Reached(s) \subseteq c
<1>1. s \subseteq Reached(s) /\ Reached(s) \subseteq Functions
  BY DEF Reached
<1>2. \A c \in SUBSET Functions : s \subseteq c /\ Callees(c) \subseteq c => Reached(s) \subseteq c
  BY DEF Reached
<1>3. Callees(Reached(s)) \subseteq Reached(s)
  <2>1. SUFFICES ASSUME NEW f \in Callees(Reached(s))
                 PROVE  f \in Reached(s)
    OBVIOUS
  <2>2. f \in Functions
    BY <1>1, CalleesOfBodies
  <2>3. ASSUME NEW c \in SUBSET Functions, s \subseteq c, Callees(c) \subseteq c
        PROVE  f \in c
    <3>1. Callees(Reached(s)) \subseteq Callees(c)
      BY <1>2, <2>3, CalleesOfBodies
    <3> QED
      BY <2>3, <3>1
  <2> QED
    BY <2>2, <2>3 DEF Reached
<1> QED
  BY <1>1, <1>2, <1>3

(* A function that does not call itself, in a component whose other callees *)
(* have been scanned, calls only what has been.                            *)
LEMMA CallsOnlyScanned ==
  ASSUME TypeInv, scanned \subseteq Functions, \A g \in scanned : CalledIn(body[g]) \subseteq scanned,
         NEW f, f \in Functions, f \notin scanned, ~hasCycle(f), Callees(scc(f)) \subseteq scanned \cup scc(f)
  PROVE  CalledIn(body[f]) \subseteq scanned
<1>1. Callees({f}) = CalledIn(body[f]) /\ Callees({f}) \subseteq Functions
  BY CalleesOfBodies
<1>2. f \notin Reached(Callees({f}))
  BY DEF hasCycle
<1>3. \A g \in scc(f) : g = f
  <2>1. ASSUME NEW g \in Functions, g \in Reached(Callees({f})), f \in Reached(Callees({g}))
        PROVE  FALSE
    <3> DEFINE R == Reached(Callees({f}))
    <3>1. Callees(R) \subseteq R /\ R \in SUBSET Functions
      BY <1>1, ReachedFacts
    <3>2. Callees({g}) \subseteq R /\ Callees({g}) \subseteq Functions
      BY <2>1, <3>1, CalleesOfBodies
    <3>3. Reached(Callees({g})) \subseteq R
      <4> DEFINE s == Callees({g})
      <4>1. s \subseteq Functions /\ s \subseteq R
        BY <3>2
      <4> HIDE DEF s, R
      <4>2. Reached(s) \subseteq R
        BY <3>1, <4>1, ReachedFacts
      <4> QED
        BY <4>2 DEF s
    <3> QED
      BY <1>2, <2>1, <3>3
  <2> QED
    BY <2>1 DEF scc
<1>4. f \in scc(f)
  BY DEF scc
<1>5. Callees({f}) \subseteq scanned \cup {f}
  BY <1>3, <1>4, CalleesOfBodies
<1>6. f \notin Callees({f})
  <2> DEFINE s == Callees({f})
  <2>1. s \subseteq Functions /\ f \notin Reached(s)
    BY <1>1, <1>2
  <2> HIDE DEF s
  <2>2. s \subseteq Reached(s)
    BY <2>1, ReachedFacts
  <2>3. f \notin s
    BY <2>1, <2>2
  <2> QED
    BY <2>3 DEF s
<1>7. Callees({f}) \subseteq scanned
  <2> DEFINE s == Callees({f})
  <2>1. s \subseteq scanned \cup {f} /\ f \notin s
    BY <1>5, <1>6
  <2> HIDE DEF s
  <2>2. s \subseteq scanned
    BY <2>1
  <2> QED
    BY <2>2 DEF s
<1> QED
  BY <1>1, <1>7

-----------------------------------------------------------------------------
(* The calls of a function, in a list.                                     *)
SitesIn(g, f) ==
  FlattenSeq([k \in 1 .. Len(program.body[g]) |->
    IF program.body[g][k].kind = "call" /\ program.body[g][k].callee = f THEN <<<<g, program.body[g][k].id>>>> ELSE <<>>])

CallsOfKernel(f) == {c \in Calls : Quantum(c[1]) /\ CalleeOf(c) = f}

LEMMA TogetherHas ==
  ASSUME NEW T, NEW P, NEW n, Parts(P, n, T)
  PROVE  /\ Together(P, n) \in Seq(T)
         /\ \A k \in 1 .. n : \A i \in DOMAIN P[k] : \E j \in DOMAIN Together(P, n) : Together(P, n)[j] = P[k][i]
<1>1. n \in Nat /\ \A k \in 1 .. n : P[k] \in Seq(T)
  BY DEF Parts
<1>3. ASSUME NEW k \in 1 .. n, NEW i \in DOMAIN P[k]
      PROVE  \E j \in DOMAIN Together(P, n) : Together(P, n)[j] = P[k][i]
  BY FlattenHas
<1>4. Together(P, n) \in Seq(T)
  BY <1>1, FlattenIn DEF Together
<1> QED
  BY <1>3, <1>4

LEMMA SitesOfOne ==
  ASSUME program \in Programs, NEW g, NEW f, g \in Functions
  PROVE  /\ SitesIn(g, f) \in Seq({SiteOf(c) : c \in {d \in Calls : d[1] = g /\ CalleeOf(d) = f}})
         /\ \A c \in Calls : c[1] = g /\ CalleeOf(c) = f => \E j \in DOMAIN SitesIn(g, f) : SitesIn(g, f)[j] = SiteOf(c)
<1> DEFINE items == program.body[g]
           n == Len(items)
           T == {SiteOf(c) : c \in {d \in Calls : d[1] = g /\ CalleeOf(d) = f}}
           P == [k \in 1 .. n |-> IF items[k].kind = "call" /\ items[k].callee = f THEN <<<<g, items[k].id>>>> ELSE <<>>]
<1>1. n \in Nat /\ DOMAIN items = 1 .. n /\ \A k \in DOMAIN items : items[k].id = <<k>>
  BY ProgramFacts
<1>2. ASSUME NEW k \in 1 .. n, items[k].kind = "call", items[k].callee = f
      PROVE  <<g, k>> \in Calls /\ <<g, items[k].id>> = SiteOf(<<g, k>>) /\ CalleeOf(<<g, k>>) = f /\ <<g, items[k].id>> \in T
  <2>1. <<g, k>> \in Calls
    BY <1>1, <1>2 DEF Calls
  <2>2. <<g, k>>[1] = g /\ <<g, k>>[2] = k
    OBVIOUS
  <2>3. <<g, items[k].id>> = SiteOf(<<g, k>>) /\ CalleeOf(<<g, k>>) = f
    BY <1>1, <1>2, <2>2 DEF SiteOf, CalleeOf
  <2> QED
    BY <2>1, <2>2, <2>3
<1>3. \A k \in 1 .. n : P[k] \in Seq(T)
  <2>1. ASSUME NEW k \in 1 .. n
        PROVE  P[k] \in Seq(T)
    <3>1. <<>> \in Seq(T)
      BY EmptySeq
    <3>2. CASE items[k].kind = "call" /\ items[k].callee = f
      <4>1. <<<<g, items[k].id>>>> \in Seq(T)
        <5>1. <<g, items[k].id>> \in T
          BY <1>2, <3>2
        <5> HIDE DEF T, items
        <5> QED
          BY <5>1, OneList
      <4> QED
        BY <3>2, <4>1
    <3> QED
      BY <3>1, <3>2
  <2> QED
    BY <2>1
<1>4. SitesIn(g, f) = FlattenSeq([k \in 1 .. n |-> P[k]])
  BY DEF SitesIn
<1>5. ASSUME NEW c \in Calls, c[1] = g, CalleeOf(c) = f
      PROVE  \E k \in 1 .. n : P[k] = <<SiteOf(c)>>
  <2>1. PICK h \in Functions : c \in {<<h, k>> : k \in {j \in DOMAIN program.body[h] : program.body[h][j].kind = "call"}}
    BY DEF Calls
  <2>2. PICK k \in DOMAIN program.body[h] : c = <<h, k>> /\ program.body[h][k].kind = "call"
    BY <2>1
  <2>3. h = g /\ c[2] = k
    BY <1>5, <2>2
  <2>4. k \in 1 .. n /\ items[k].kind = "call" /\ items[k].callee = f /\ items[k].id = <<k>>
    BY <1>1, <1>5, <2>2, <2>3 DEF CalleeOf
  <2>5. P[k] = <<<<g, items[k].id>>>>
    BY <2>4
  <2>6. SiteOf(c) = <<g, items[k].id>>
    BY <1>5, <2>3, <2>4 DEF SiteOf
  <2> HIDE DEF P, items, n
  <2> QED
    BY <2>4, <2>5, <2>6
<1> HIDE DEF P, T, n
<1>6. SitesIn(g, f) \in Seq(T)
  BY <1>1, <1>3, <1>4, FlattenIn
<1>7. ASSUME NEW c \in Calls, c[1] = g, CalleeOf(c) = f
      PROVE  \E j \in DOMAIN SitesIn(g, f) : SitesIn(g, f)[j] = SiteOf(c)
  <2>1. PICK k \in 1 .. n : P[k] = <<SiteOf(c)>>
    BY <1>5, <1>7
  <2>2. 1 \in DOMAIN P[k] /\ P[k][1] = SiteOf(c)
    BY <2>1
  <2>3. Parts(P, n, T)
    BY <1>1, <1>3 DEF Parts
  <2>4. \E j \in DOMAIN Together(P, n) : Together(P, n)[j] = P[k][1]
    BY <2>2, <2>3, TogetherHas
  <2> QED
    BY <1>4, <2>2, <2>4 DEF Together
<1> QED
  BY <1>6, <1>7 DEF T

(* CallSites lists the calls of a function by kernels and quantum          *)
(* expressions: all of them, and nothing else.                             *)
LEMMA SitesOfAll ==
  ASSUME TypeInv, body = program.body, NEW f
  PROVE  /\ CallSites(f) \in Seq({SiteOf(c) : c \in CallsOfKernel(f)})
         /\ \A c \in CallsOfKernel(f) : \E j \in DOMAIN CallSites(f) : CallSites(f)[j] = SiteOf(c)
<1> DEFINE T == {SiteOf(c) : c \in CallsOfKernel(f)}
           P == [g \in 1 .. NumFunctions |-> IF Quantum(g) THEN SitesIn(g, f) ELSE <<>>]
<1>1. NumFunctions \in Nat /\ Functions = 1 .. NumFunctions
  BY Counts DEF Functions
<1>2. \A g \in Functions : DOMAIN program.body[g] = 1 .. Len(program.body[g])
  BY ProgramFacts DEF TypeInv
<1>3. CallSites(f) = FlattenSeq([g \in 1 .. NumFunctions |-> P[g]])
  <2>1. \A g \in Functions : P[g] = IF isQKernel(g) \/ isQExprFunc(g) THEN
            FlattenSeq([k \in DOMAIN body[g] |->
              IF body[g][k].kind = "call" /\ body[g][k].callee = f THEN <<<<g, body[g][k].id>>>> ELSE <<>>]) ELSE <<>>
    <3>1. SUFFICES ASSUME NEW g \in Functions
                   PROVE  P[g] = IF isQKernel(g) \/ isQExprFunc(g) THEN
            FlattenSeq([k \in DOMAIN body[g] |->
              IF body[g][k].kind = "call" /\ body[g][k].callee = f THEN <<<<g, body[g][k].id>>>> ELSE <<>>]) ELSE <<>>
      OBVIOUS
    <3>2. P[g] = IF Quantum(g) THEN SitesIn(g, f) ELSE <<>>
      BY <1>1
    <3>3. DOMAIN body[g] = 1 .. Len(program.body[g])
      BY <1>2
    <3> HIDE DEF P
    <3> QED
      BY <3>2, <3>3 DEF SitesIn, Quantum
  <2> HIDE DEF P
  <2> QED
    BY <1>1, <2>1 DEF CallSites
<1>4. \A g \in 1 .. NumFunctions : P[g] \in Seq(T)
  <2>1. ASSUME NEW g \in 1 .. NumFunctions
        PROVE  P[g] \in Seq(T)
    <3>1. CASE Quantum(g)
      <4> DEFINE U == {SiteOf(c) : c \in {d \in Calls : d[1] = g /\ CalleeOf(d) = f}}
      <4>1. SitesIn(g, f) \in Seq(U)
        BY <1>1, SitesOfOne DEF TypeInv
      <4>2. U \subseteq T
        BY <3>1 DEF CallsOfKernel
      <4> HIDE DEF U, T
      <4> QED
        BY <3>1, <4>1, <4>2, SeqMonotonic
    <3>2. CASE ~Quantum(g)
      BY <3>2, EmptySeq
    <3> QED
      BY <3>1, <3>2
  <2> QED
    BY <2>1
<1>5. ASSUME NEW c \in CallsOfKernel(f)
      PROVE  \E j \in DOMAIN CallSites(f) : CallSites(f)[j] = SiteOf(c)
  <2>1. c \in Calls /\ Quantum(c[1]) /\ CalleeOf(c) = f /\ c[1] \in Functions
    BY CallFacts DEF CallsOfKernel
  <2>2. P[c[1]] = SitesIn(c[1], f) /\ c[1] \in 1 .. NumFunctions
    BY <1>1, <2>1
  <2>3. PICK i \in DOMAIN SitesIn(c[1], f) : SitesIn(c[1], f)[i] = SiteOf(c)
    BY <2>1, SitesOfOne DEF TypeInv
  <2> HIDE DEF T, P
  <2>4. Parts(P, NumFunctions, T)
    BY <1>1, <1>4 DEF Parts
  <2>5. \E j \in DOMAIN Together(P, NumFunctions) : Together(P, NumFunctions)[j] = P[c[1]][i]
    BY <2>2, <2>3, <2>4, TogetherHas
  <2> QED
    BY <1>3, <2>2, <2>3, <2>5 DEF Together
<1>6. CallSites(f) \in Seq(T)
  <2> HIDE DEF T, P
  <2> QED
    BY <1>1, <1>3, <1>4, FlattenIn
<1> QED
  BY <1>5, <1>6

-----------------------------------------------------------------------------
(* What a body calls when a call has been inlined in it.                   *)
LEMMA InlinedCalls ==
  ASSUME GoodBodies, NEW items, NEW id, Good(items)
  PROVE  /\ AllShaped(WithInlined(items, id))
         /\ \A c \in CalledIn(WithInlined(items, id)) :
              c \in CalledIn(items) \/ \E g \in CalledIn(items) : c \in CalledIn(body[g])
<1> DEFINE n == Len(items)
           P == [k \in 1 .. n |-> Replaced(items[k], id)]
           r == FlattenSeq(P)
<1>1. n \in Nat /\ DOMAIN items = 1 .. n /\ \A k \in 1 .. n : GoodItem(items[k])
  <2>1. items \in Seq(ToSet(items)) /\ \A x \in ToSet(items) : GoodItem(x)
    BY GoodItems
  <2>2. n \in Nat /\ DOMAIN items = 1 .. n
    BY <2>1, LenProperties
  <2> QED
    BY <2>1, <2>2 DEF ToSet
<1>2. WithInlined(items, id) = r
  <2>1. P = [k \in DOMAIN items |-> IF items[k].kind = "call" /\ items[k].id = id
                                    THEN InPlaceOf(items[k], body[items[k].callee]) ELSE <<items[k]>>]
    BY <1>1 DEF Replaced
  <2> HIDE DEF P
  <2> QED
    BY <2>1 DEF WithInlined
<1>3. \A k \in 1 .. n : AllShaped(P[k])
  <2>1. ASSUME NEW k \in 1 .. n
        PROVE  AllShaped(Replaced(items[k], id))
    <3> DEFINE x == items[k]
    <3>1. GoodItem(x)
      BY <1>1
    <3> HIDE DEF x
    <3>2. AllShaped(Replaced(x, id))
      BY <3>1, ReplacedIsShaped
    <3> QED
      BY <3>2 DEF x
  <2> QED
    BY <2>1
<1>4. ListOfLists(P, n)
  <2>1. P = [k \in 1 .. n |-> P[k]]
    OBVIOUS
  <2> HIDE DEF P
  <2> QED
    BY <1>1, <1>3, <2>1 DEF ListOfLists, AllShaped
<1>5. \A k \in 1 .. n : \A j \in DOMAIN P[k] : P[k][j].kind = "call" =>
        P[k][j].callee \in CalledIn(items) \/ \E g \in CalledIn(items) : P[k][j].callee \in CalledIn(body[g])
  <2>1. SUFFICES ASSUME NEW k \in 1 .. n, NEW j \in DOMAIN P[k], P[k][j].kind = "call"
                 PROVE  P[k][j].callee \in CalledIn(items) \/ \E g \in CalledIn(items) : P[k][j].callee \in CalledIn(body[g])
    OBVIOUS
  <2>2. P[k] = Replaced(items[k], id) /\ k \in DOMAIN items /\ GoodItem(items[k])
    BY <1>1
  <2> HIDE DEF P
  <2>3. CASE items[k].kind = "call" /\ items[k].id = id
    <3> DEFINE g == items[k].callee
               new == InPlaceOf(items[k], body[g])
    <3>1. P[k] = new
      BY <2>2, <2>3 DEF Replaced
    <3>2. g \in CalledIn(items) /\ g \in Functions
      BY <2>2, <2>3 DEF CalledIn, GoodItem
    <3>3. TakesPlace(new, items[k], body[g])
      <4> DEFINE x == items[k]
                 b == body[g]
      <4>1. Shaped(x) /\ AllShaped(b)
        BY <2>2, <3>2 DEF GoodItem, GoodBodies, Good
      <4> HIDE DEF x, b
      <4>2. TakesPlace(InPlaceOf(x, b), x, b)
        BY <4>1, InPlaceIsShaped
      <4> QED
        BY <4>2 DEF x, b
    <3> HIDE DEF new, g
    <3>4. j \in DOMAIN body[g] /\ P[k][j].kind = body[g][j].kind /\ P[k][j].callee = body[g][j].callee
      BY <3>1, <3>3 DEF TakesPlace
    <3>5. P[k][j].callee \in CalledIn(body[g])
      BY <2>1, <3>4 DEF CalledIn
    <3> QED
      BY <3>2, <3>5
  <2>4. CASE ~(items[k].kind = "call" /\ items[k].id = id)
    <3>1. P[k] = <<items[k]>>
      BY <2>2, <2>4 DEF Replaced
    <3>2. P[k][j] = items[k]
      BY <3>1
    <3> QED
      BY <2>1, <2>2, <3>2 DEF CalledIn
  <2> QED
    BY <2>3, <2>4
<1>6. AllShaped(r)
  <2>1. P = [k \in 1 .. n |-> P[k]]
    OBVIOUS
  <2> HIDE DEF P, n
  <2>2. AllShaped(FlattenSeq([k \in 1 .. n |-> P[k]]))
    BY <1>1, <1>3, ShapedTogether
  <2> QED
    BY <2>1, <2>2
<1> HIDE DEF P
<1>7. \A i \in DOMAIN r : \E k \in 1 .. n : \E j \in DOMAIN P[k] : r[i] = P[k][j]
  <2> HIDE DEF n
  <2> QED
    BY <1>4, PutTogether
<1> HIDE DEF r, n
<1>8. \A c \in CalledIn(r) : c \in CalledIn(items) \/ \E g \in CalledIn(items) : c \in CalledIn(body[g])
  <2>1. SUFFICES ASSUME NEW c \in CalledIn(r)
                 PROVE  c \in CalledIn(items) \/ \E g \in CalledIn(items) : c \in CalledIn(body[g])
    OBVIOUS
  <2>2. PICK i \in DOMAIN r : r[i].kind = "call" /\ r[i].callee = c
    BY DEF CalledIn
  <2>3. PICK k \in 1 .. n : \E j \in DOMAIN P[k] : r[i] = P[k][j]
    BY <1>7
  <2>4. PICK j \in DOMAIN P[k] : r[i] = P[k][j]
    BY <2>3
  <2> QED
    BY <1>5, <2>2, <2>4
<1> QED
  BY <1>2, <1>6, <1>8

-----------------------------------------------------------------------------
(* At first nothing has been inlined.                                      *)
LEMMA WithNoneDone ==
  ASSUME TypeInv, NEW g, g \in Functions
  PROVE  WithDone(g, {}) = program.body[g]
<1> DEFINE items == program.body[g]
           n == Len(items)
           T == ToSet(items)
           h == [x \in T |-> <<x>>]
           P == [k \in DOMAIN items |-> Piece(g, k, {})]
<1>1. items \in Seq(T) /\ DOMAIN items = 1 .. n
  <2>1. Good(items) /\ DOMAIN items = 1 .. n
    BY ProgramFacts DEF TypeInv
  <2> QED
    BY <2>1, GoodItems
<1>2. \A k \in DOMAIN items : h[items[k]] = <<items[k]>>
  BY DEF ToSet
<1>3. \A k \in 1 .. n : P[k] = h[items[k]]
  <2>1. \A k \in DOMAIN items : P[k] = <<items[k]>>
    BY DEF Piece
  <2> HIDE DEF P, h, items
  <2> QED
    BY <1>1, <1>2, <2>1
<1>4. WithDone(g, {}) = Together(P, n)
  BY DEF WithDone
<1>5. Together(P, n) = Mapped(h, items)
  <2> HIDE DEF P, h, items, n
  <2>1. [k \in 1 .. n |-> P[k]] = [k \in DOMAIN items |-> h[items[k]]]
    BY <1>1, <1>3
  <2> QED
    BY <2>1 DEF Together, Mapped
<1>6. Mapped(h, items) = items
  <2> HIDE DEF h, items, T
  <2> QED
    BY <1>1, <1>2, MappedIdentity
<1> QED
  BY <1>4, <1>5, <1>6

(* Counting what has been scanned.                                         *)
LEMMA ScannedIsFinite ==
  ASSUME NEW s, NEW t, s \subseteq t, t \subseteq Functions
  PROVE  /\ IsFiniteSet(s) /\ Cardinality(s) \in Nat /\ Cardinality(t) \in Nat
         /\ Cardinality(s) <= Cardinality(t) /\ Cardinality(t) <= NumFunctions
<1>1. IsFiniteSet(Functions) /\ Cardinality(Functions) = NumFunctions
  <2>1. 1 \in Int /\ NumFunctions \in Int /\ NumFunctions \in Nat
    BY Counts
  <2>2. IsFiniteSet(1 .. NumFunctions) /\ Cardinality(1 .. NumFunctions) = IF 1 > NumFunctions THEN 0 ELSE NumFunctions - 1 + 1
    BY <2>1, FS_Interval
  <2> QED
    BY <2>1, <2>2 DEF Functions
<1>2. IsFiniteSet(t) /\ Cardinality(t) <= NumFunctions
  BY <1>1, FS_Subset
<1>3. IsFiniteSet(s) /\ Cardinality(s) <= Cardinality(t)
  BY <1>2, FS_Subset
<1> QED
  BY <1>2, <1>3, FS_CardinalityType

LEMMA FlatAtFirst ==
  ASSUME Init, TypeInv
  PROVE  FlatInv
<1>1. pc = "scan" /\ body = program.body /\ present = Functions /\ scanned = {} /\ CB_to_inline = <<>>
  BY DEF Init
<1>2. FoundCalls = {}
  BY <1>1 DEF FoundCalls
<1>3. \E rank : Ranks(rank)
  <2>1. Ranks([g \in Functions |-> 0])
    BY <1>1 DEF Ranks
  <2> QED
    BY <2>1
<1>4. CB_to_inline \in Seq({SiteOf(c) : c \in FoundCalls})
  BY <1>1, EmptySeq
<1>5. CalleesFirst
  BY <1>2 DEF CalleesFirst
<1>6. \A g \in Functions : AllShaped(body[g])
  BY <1>1, ProgramFacts DEF TypeInv, Good
<1>7. ListInv
  BY <1>1, <1>3, <1>4, <1>5, <1>6 DEF ListInv, Closed
<1>8. ScanInv
  BY <1>1, <1>2 DEF ScanInv
<1> QED
  BY <1>1, <1>7, <1>8 DEF FlatInv

(* Functions that are no kernels are scanned.                              *)
LEMMA ScanMore ==
  ASSUME TypeInv, FlatInv, NEW s, s \subseteq Functions, pc = "scan", pc' = "scan", scanned' = scanned \cup s,
         \A g \in s : ~isQKernel(g) /\ CalledIn(body[g]) \subseteq scanned \cup s,
         UNCHANGED <<program, present, body, CB_to_inline>>
  PROVE  FlatInv'
<1>1. ListInv /\ ScanInv
  BY DEF FlatInv
<1>2. scanned \subseteq Functions /\ Closed /\ (\E rank : Ranks(rank))
      /\ CB_to_inline \in Seq({SiteOf(c) : c \in FoundCalls}) /\ CalleesFirst
      /\ \A g \in Functions : AllShaped(body[g])
  BY <1>1 DEF ListInv
<1>3. \A f : isQKernel(f)' = isQKernel(f) /\ Quantum(f)' = Quantum(f)
  BY DEF isQKernel, isQExprFunc, Quantum
<1>4. Calls' = Calls /\ (\A c : CalleeOf(c)' = CalleeOf(c)) /\ \A c : SiteOf(c)' = SiteOf(c)
  BY DEF Calls, CalleeOf, SiteOf
<1>5. FoundCalls' = FoundCalls
  <2>1. ASSUME NEW c \in Calls
        PROVE  isQKernel(CalleeOf(c)) => (CalleeOf(c) \in scanned' <=> CalleeOf(c) \in scanned)
    OBVIOUS
  <2> QED
    BY <1>3, <1>4, <2>1 DEF FoundCalls
<1>6. Closed'
  <2>1. body = program.body
    BY <1>1 DEF ScanInv
  <2>2. \A g \in scanned' : CalledIn(body[g]) \subseteq scanned'
    BY <1>2 DEF Closed
  <2>3. \A g : CalledIn(body[g])' = CalledIn(body[g]) /\ CalledIn(program.body[g])' = CalledIn(body[g])
    BY <2>1 DEF CalledIn
  <2> QED
    BY <2>2, <2>3 DEF Closed
<1>7. \E rank : Ranks(rank)'
  <2>1. PICK rank : Ranks(rank)
    BY <1>2
  <2>2. Cardinality(scanned) \in Nat /\ Cardinality(scanned') \in Nat /\ Cardinality(scanned) <= Cardinality(scanned')
    <3>1. scanned \subseteq scanned' /\ scanned' \subseteq Functions
      BY <1>2
    <3> QED
      BY <3>1, ScannedIsFinite
  <2>3. \A g \in scanned' : isQKernel(g) => g \in scanned
    OBVIOUS
  <2>4. \A g : CalledIn(program.body[g])' = CalledIn(program.body[g])
    BY DEF CalledIn
  <2>5. rank \in [Functions -> Nat] /\ \A g \in scanned : isQKernel(g) =>
          rank[g] < Cardinality(scanned) /\ rank[g] \in Nat /\ \A c \in CalledIn(program.body[g]) : isQKernel(c) => rank[c] < rank[g]
    BY <1>2, <2>1 DEF Ranks
  <2>6. \A g \in scanned' : isQKernel(g) =>
          rank[g] < Cardinality(scanned') /\ \A c \in CalledIn(program.body[g]) : isQKernel(c) => rank[c] < rank[g]
    BY <2>2, <2>3, <2>5
  <2>7. Ranks(rank)'
    BY <1>3, <2>4, <2>5, <2>6 DEF Ranks, Functions
  <2> QED
    BY <2>7
<1>8. CB_to_inline' \in Seq({SiteOf(c)' : c \in FoundCalls'}) /\ CalleesFirst'
  BY <1>2, <1>4, <1>5 DEF CalleesFirst
<1>9. \A g \in Functions : AllShaped(body[g])'
  BY <1>2 DEF AllShaped, Shaped
<1>10. ListInv'
  BY <1>2, <1>6, <1>7, <1>8, <1>9 DEF ListInv, Functions
<1>11. ScanInv'
  BY <1>1, <1>4, <1>5 DEF ScanInv, Waiting
<1> QED
  BY <1>10, <1>11 DEF FlatInv

-----------------------------------------------------------------------------
(* A kernel is scanned: its calls come after what is in the list.          *)
LEMMA NewFound ==
  ASSUME TypeInv, NEW f, f \in Functions, isQKernel(f), scanned' = scanned \cup {f}, UNCHANGED program
  PROVE  /\ FoundCalls' = FoundCalls \cup CallsOfKernel(f)
         /\ Calls' = Calls /\ (\A c : CalleeOf(c)' = CalleeOf(c)) /\ (\A c : SiteOf(c)' = SiteOf(c))
         /\ \A g : isQKernel(g)' = isQKernel(g) /\ Quantum(g)' = Quantum(g)
<1>1. \A g : isQKernel(g)' = isQKernel(g) /\ Quantum(g)' = Quantum(g)
  BY DEF isQKernel, isQExprFunc, Quantum
<1>2. Calls' = Calls /\ (\A c : CalleeOf(c)' = CalleeOf(c)) /\ \A c : SiteOf(c)' = SiteOf(c)
  BY DEF Calls, CalleeOf, SiteOf
<1>3. FoundCalls' = {c \in Calls : Quantum(c[1]) /\ isQKernel(CalleeOf(c)) /\ CalleeOf(c) \in scanned \cup {f}}
  BY <1>1, <1>2 DEF FoundCalls
<1>4. FoundCalls' = FoundCalls \cup CallsOfKernel(f)
  BY <1>3 DEF FoundCalls, CallsOfKernel
<1> QED
  BY <1>1, <1>2, <1>4

(* The elements of a list and of what is put at its end.                   *)
Appends(c, a, b, S, T) ==
  /\ c \in Seq(S \cup T)
  /\ Len(a) \in Nat /\ DOMAIN c \subseteq Nat
  /\ \A i \in DOMAIN a : i \in DOMAIN c /\ c[i] = a[i]
  /\ \A i \in DOMAIN b : \E j \in DOMAIN c : c[j] = b[i]
  /\ \A i \in DOMAIN c : (i <= Len(a) => i \in DOMAIN a /\ c[i] = a[i]) /\ (~(i <= Len(a)) => c[i] \in T)
  /\ \A i \in DOMAIN a : a[i] \in S

LEMMA Appended ==
  ASSUME NEW S, NEW T, NEW a, NEW b, a \in Seq(S), b \in Seq(T)
  PROVE  Appends(a \o b, a, b, S, T)
<1> DEFINE U == S \cup T
           c == a \o b
<1>1. a \in Seq(U) /\ b \in Seq(U)
  <2>1. S \subseteq U /\ T \subseteq U
    OBVIOUS
  <2> HIDE DEF U
  <2> QED
    BY <2>1, SeqMonotonic
<1>2. /\ Len(a) \in Nat /\ Len(b) \in Nat /\ DOMAIN a = 1 .. Len(a) /\ DOMAIN b = 1 .. Len(b)
      /\ (\A i \in 1 .. Len(b) : b[i] \in T) /\ \A i \in 1 .. Len(a) : a[i] \in S
  BY LenProperties, ElementOfSeq
<1>3. /\ c \in Seq(U) /\ Len(c) = Len(a) + Len(b)
      /\ \A i \in 1 .. Len(a) + Len(b) : c[i] = IF i <= Len(a) THEN a[i] ELSE b[i - Len(a)]
  <2> HIDE DEF U
  <2> QED
    BY <1>1, ConcatProperties
<1>4. DOMAIN c = 1 .. Len(a) + Len(b)
  <2> HIDE DEF c, U
  <2> QED
    BY <1>3, LenProperties
<1> HIDE DEF c
<1>5. \A i \in DOMAIN a : i \in DOMAIN c /\ c[i] = a[i]
  BY <1>2, <1>3, <1>4
<1>6. ASSUME NEW i \in DOMAIN b
      PROVE  \E j \in DOMAIN c : c[j] = b[i]
  <2>1. Len(a) + i \in 1 .. Len(a) + Len(b) /\ ~(Len(a) + i <= Len(a)) /\ (Len(a) + i) - Len(a) = i
    BY <1>2
  <2>2. Len(a) + i \in DOMAIN c /\ c[Len(a) + i] = b[i]
    BY <1>3, <1>4, <2>1
  <2> QED
    BY <2>2
<1>7. ASSUME NEW i \in DOMAIN c
      PROVE  /\ i <= Len(a) => i \in DOMAIN a /\ c[i] = a[i]
             /\ ~(i <= Len(a)) => c[i] \in T
  <2>1. i \in 1 .. Len(a) + Len(b) /\ i \in Nat
    BY <1>2, <1>4
  <2>2. CASE i <= Len(a)
    BY <1>2, <1>3, <2>1, <2>2
  <2>3. CASE ~(i <= Len(a))
    <3>1. i - Len(a) \in 1 .. Len(b)
      BY <1>2, <2>1, <2>3
    <3> QED
      BY <1>2, <1>3, <2>1, <2>3, <3>1
  <2> QED
    BY <2>2, <2>3
<1>8. DOMAIN c \subseteq Nat
  BY <1>2, <1>4
<1> QED
  <2>1. Appends(c, a, b, S, T)
    BY <1>2, <1>3, <1>5, <1>6, <1>7, <1>8 DEF Appends
  <2> QED
    BY <2>1 DEF c

LEMMA ListGrows ==
  ASSUME TypeInv, FlatInv, NEW f, f \in Functions, f \notin scanned, isQKernel(f), pc = "scan",
         CalledIn(body[f]) \subseteq scanned,
         scanned' = scanned \cup {f}, CB_to_inline' = CB_to_inline \o CallSites(f), UNCHANGED program
  PROVE  /\ CB_to_inline' \in Seq({SiteOf(c)' : c \in FoundCalls'})
         /\ CalleesFirst'
         /\ \A c \in FoundCalls' : Waiting(c)'
<1> DEFINE S == {SiteOf(c) : c \in FoundCalls}
           T == {SiteOf(c) : c \in CallsOfKernel(f)}
           a == CB_to_inline
           b == CallSites(f)
           n == Len(CB_to_inline)
           new == CB_to_inline'
<1>1. /\ ListInv /\ ScanInv /\ body = program.body /\ Closed /\ CalleesFirst /\ a \in Seq(S)
      /\ \A c \in FoundCalls : Waiting(c)
  BY DEF FlatInv, ListInv, ScanInv
<1>2. b \in Seq(T) /\ \A c \in CallsOfKernel(f) : \E j \in DOMAIN b : b[j] = SiteOf(c)
  BY <1>1, SitesOfAll
<1>3. /\ FoundCalls' = FoundCalls \cup CallsOfKernel(f)
      /\ Calls' = Calls /\ (\A c : CalleeOf(c)' = CalleeOf(c)) /\ (\A c : SiteOf(c)' = SiteOf(c))
  BY NewFound
<1>4. /\ FoundCalls \subseteq Calls /\ CallsOfKernel(f) \subseteq Calls
      /\ (\A c \in FoundCalls : CalleeOf(c) \in scanned) /\ (\A c \in CallsOfKernel(f) : CalleeOf(c) = f)
  BY DEF FoundCalls, CallsOfKernel
<1>5. new = a \o b
  OBVIOUS
<1> HIDE DEF b, new
<1>6. /\ new \in Seq(S \cup T) /\ n \in Nat /\ DOMAIN new \subseteq Nat
      /\ \A i \in DOMAIN a : i \in DOMAIN new /\ new[i] = a[i]
      /\ \A i \in DOMAIN b : \E j \in DOMAIN new : new[j] = b[i]
      /\ \A i \in DOMAIN new : (i <= n => i \in DOMAIN a /\ new[i] = a[i]) /\ (~(i <= n) => new[i] \in T)
      /\ \A i \in DOMAIN a : a[i] \in S
  <2> HIDE DEF S, T, a
  <2>1. Appends(a \o b, a, b, S, T)
    BY <1>1, <1>2, Appended
  <2>2. n = Len(a)
    BY DEF a
  <2> QED
    BY <1>5, <2>1, <2>2 DEF Appends
<1>7. S \cup T = {SiteOf(c)' : c \in FoundCalls'}
  <2>1. S \cup T = {SiteOf(c) : c \in FoundCalls'}
    BY <1>3
  <2> QED
    BY <1>3, <2>1
<1>8. \A c \in FoundCalls : \A i \in DOMAIN new : new[i] = SiteOf(c) => i <= n /\ i \in DOMAIN a /\ a[i] = SiteOf(c)
  <2>1. SUFFICES ASSUME NEW c \in FoundCalls, NEW i \in DOMAIN new, new[i] = SiteOf(c), ~(i <= n)
                 PROVE  FALSE
    BY <1>6
  <2>2. new[i] \in T
    BY <1>6, <2>1
  <2>3. PICK d \in CallsOfKernel(f) : new[i] = SiteOf(d)
    BY <2>2
  <2>4. c \in Calls /\ d \in Calls /\ SiteOf(c) = SiteOf(d)
    BY <1>4, <2>1, <2>3
  <2>5. c = d
    BY <2>4, SitesDiffer
  <2> QED
    BY <1>4, <2>5
<1>9. \A c \in CallsOfKernel(f) : \A i \in DOMAIN new : new[i] = SiteOf(c) => ~(i <= n)
  <2>1. SUFFICES ASSUME NEW c \in CallsOfKernel(f), NEW i \in DOMAIN new, new[i] = SiteOf(c), i <= n
                 PROVE  FALSE
    OBVIOUS
  <2>2. new[i] \in S
    BY <1>6, <2>1
  <2>3. PICK d \in FoundCalls : new[i] = SiteOf(d)
    BY <2>2
  <2>4. c \in Calls /\ d \in Calls /\ SiteOf(c) = SiteOf(d)
    BY <1>4, <2>1, <2>3
  <2>5. c = d
    BY <2>4, SitesDiffer
  <2> QED
    BY <1>4, <2>5
<1>10. ASSUME NEW d \in FoundCalls', d[1] \in scanned \cup {f}
       PROVE  d \in FoundCalls
  <2>1. d \in Calls /\ d[1] \in Functions /\ CalleeOf(d) \in CalledIn(body[d[1]])
    <3>1. d \in Calls
      BY <1>3, <1>4
    <3> QED
      BY <1>1, <3>1, CallFacts
  <2>2. CalleeOf(d) \in scanned
    BY <1>1, <1>10, <2>1 DEF Closed
  <2>3. d \notin CallsOfKernel(f)
    BY <1>4, <2>2
  <2> QED
    BY <1>3, <1>10, <2>3
<1>11. ASSUME NEW c \in FoundCalls', NEW d \in FoundCalls', d[1] = CalleeOf(c),
              NEW i \in DOMAIN new, NEW j \in DOMAIN new, new[i] = SiteOf(c), new[j] = SiteOf(d)
       PROVE  j < i
  <2>1. CalleeOf(c) \in scanned \cup {f}
    BY <1>3, <1>4
  <2>2. d \in FoundCalls
    BY <1>10, <1>11, <2>1
  <2>3. j <= n /\ j \in DOMAIN a /\ a[j] = SiteOf(d)
    BY <1>8, <1>11, <2>2
  <2>4. CASE c \in FoundCalls
    <3>1. i \in DOMAIN a /\ a[i] = SiteOf(c)
      BY <1>8, <1>11, <2>4
    <3> QED
      BY <1>1, <1>11, <2>2, <2>3, <2>4, <3>1 DEF CalleesFirst
  <2>5. CASE c \in CallsOfKernel(f)
    <3>1. ~(i <= n)
      BY <1>9, <1>11, <2>5
    <3>2. i \in Nat /\ j \in Nat
      BY <1>6
    <3> QED
      BY <1>6, <2>3, <3>1, <3>2
  <2> QED
    BY <1>3, <2>4, <2>5
<1>12. CalleesFirst'
  BY <1>3, <1>11 DEF CalleesFirst, new
<1>13. ASSUME NEW c \in FoundCalls'
       PROVE  \E i \in DOMAIN new : new[i] = SiteOf(c)
  <2>1. CASE c \in FoundCalls
    <3>1. PICK i \in DOMAIN a : a[i] = SiteOf(c)
      BY <1>1, <2>1 DEF Waiting
    <3> QED
      BY <1>6, <3>1
  <2>2. CASE c \in CallsOfKernel(f)
    <3>1. PICK i \in DOMAIN b : b[i] = SiteOf(c)
      BY <1>2, <2>2
    <3> QED
      BY <1>6, <3>1
  <2> QED
    BY <1>3, <2>1, <2>2
<1>14. \A c \in FoundCalls' : Waiting(c)'
  BY <1>3, <1>13 DEF Waiting, new
<1>15. new \in Seq({SiteOf(c)' : c \in FoundCalls'})
  <2> HIDE DEF S, T
  <2> QED
    BY <1>6, <1>7
<1> QED
  BY <1>12, <1>14, <1>15 DEF new

LEMMA ScanKernel ==
  ASSUME TypeInv, FlatInv, NEW f, f \in Functions, f \notin scanned, isQKernel(f), pc = "scan", pc' = "scan",
         CalledIn(body[f]) \subseteq scanned,
         scanned' = scanned \cup {f}, CB_to_inline' = CB_to_inline \o CallSites(f), UNCHANGED <<program, present, body>>
  PROVE  FlatInv'
<1>1. /\ scanned \subseteq Functions /\ Closed /\ (\E rank : Ranks(rank))
      /\ (\A g \in Functions : AllShaped(body[g])) /\ present = Functions /\ body = program.body
  BY DEF FlatInv, ListInv, ScanInv
<1>2. \A g : isQKernel(g)' = isQKernel(g)
  BY DEF isQKernel
<1>3. Closed'
  <2>1. \A g \in scanned' : CalledIn(body[g]) \subseteq scanned'
    BY <1>1 DEF Closed
  <2>2. \A g : CalledIn(body[g])' = CalledIn(body[g]) /\ CalledIn(program.body[g])' = CalledIn(body[g])
    BY <1>1 DEF CalledIn
  <2> QED
    BY <2>1, <2>2 DEF Closed
<1>4. \E rank : Ranks(rank)'
  <2>1. PICK rank : Ranks(rank)
    BY <1>1
  <2> DEFINE n == Cardinality(scanned)
  <2>2. n \in Nat /\ Cardinality(scanned') = n + 1
    <3>1. IsFiniteSet(scanned) /\ n \in Nat
      BY <1>1, ScannedIsFinite
    <3>2. Cardinality(scanned \cup {f}) = n + 1
      BY <3>1, FS_AddElement
    <3> QED
      BY <3>1, <3>2
  <2>3. rank \in [Functions -> Nat] /\ \A g \in scanned : isQKernel(g) =>
          rank[g] < n /\ rank[g] \in Nat /\ \A c \in CalledIn(program.body[g]) : isQKernel(c) => rank[c] < rank[g]
    BY <1>1, <2>1 DEF Ranks
  <2>4. /\ \A g \in scanned : CalledIn(program.body[g]) \subseteq scanned
        /\ CalledIn(program.body[f]) \subseteq scanned
    BY <1>1 DEF Closed
  <2>5. PICK higher : higher = [g \in Functions |-> IF g = f THEN n ELSE rank[g]]
    OBVIOUS
  <2>6. higher \in [Functions -> Nat] /\ higher[f] = n /\ \A g \in scanned : higher[g] = rank[g]
    BY <1>1, <2>2, <2>3, <2>5
  <2>7. ASSUME NEW g \in scanned', isQKernel(g)
        PROVE  higher[g] < n + 1 /\ \A c \in CalledIn(program.body[g]) : isQKernel(c) => higher[c] < higher[g]
    <3>1. CASE g = f
      <4>1. \A c \in CalledIn(program.body[g]) : isQKernel(c) => c \in scanned /\ rank[c] < n
        BY <2>3, <2>4, <3>1
      <4> QED
        BY <2>2, <2>6, <3>1, <4>1
    <3>2. CASE g \in scanned
      <4>1. rank[g] < n /\ rank[g] \in Nat
        BY <2>3, <2>7, <3>2
      <4>2. \A c \in CalledIn(program.body[g]) : isQKernel(c) => c \in scanned /\ rank[c] < rank[g]
        BY <2>3, <2>4, <2>7, <3>2
      <4> QED
        BY <2>2, <2>6, <3>2, <4>1, <4>2
    <3> QED
      BY <3>1, <3>2
  <2>8. \A g : CalledIn(program.body[g])' = CalledIn(program.body[g])
    BY DEF CalledIn
  <2>9. Ranks(higher)'
    <3>1. \A g \in scanned' : isQKernel(g)' =>
            higher[g] < Cardinality(scanned') /\ \A c \in CalledIn(program.body[g])' : isQKernel(c)' => higher[c] < higher[g]
      BY <1>2, <2>2, <2>7, <2>8
    <3> QED
      BY <2>6, <3>1 DEF Ranks, Functions
  <2> QED
    BY <2>9
<1>5. /\ CB_to_inline' \in Seq({SiteOf(c)' : c \in FoundCalls'}) /\ CalleesFirst'
      /\ \A c \in FoundCalls' : Waiting(c)'
  BY ListGrows
<1>6. \A g \in Functions : AllShaped(body[g])'
  BY <1>1 DEF AllShaped, Shaped
<1>7. ListInv'
  BY <1>1, <1>3, <1>4, <1>5, <1>6 DEF ListInv, Functions
<1>8. ScanInv'
  BY <1>1, <1>5 DEF ScanInv, Functions
<1> QED
  BY <1>7, <1>8 DEF FlatInv

-----------------------------------------------------------------------------
(* The steps of the walk over the call graph.                              *)
LEMMA ScanKeepsFlat ==
  ASSUME TypeInv, FlatInv, NEW f, f \in Functions, ScanCycle(f) \/ ScanFunction(f)
  PROVE  FlatInv'
<1>1. /\ pc = "scan" /\ pc' \in {"scan", "exit"} /\ f \notin scanned
      /\ Callees(scc(f)) \subseteq scanned \cup scc(f)
      /\ UNCHANGED <<program, present, body>>
  BY DEF ScanCycle, ScanFunction, NextComponent
<1>2. CASE pc' = "exit"
  BY <1>2 DEF FlatInv
<1>3. CASE pc' = "scan" /\ ScanCycle(f)
  <2>1. scanned' = scanned \cup scc(f) /\ (\A g \in scc(f) : ~isQKernel(g)) /\ UNCHANGED CB_to_inline
    BY <1>3 DEF ScanCycle
  <2>2. scc(f) \subseteq Functions
    BY DEF scc
  <2>3. \A g \in scc(f) : CalledIn(body[g]) \subseteq scanned \cup scc(f)
    <3>1. \A g \in scc(f) : CalledIn(body[g]) \subseteq Callees(scc(f))
      BY CalleesOfBodies
    <3> QED
      BY <1>1, <3>1
  <2> DEFINE s == scc(f)
  <2>4. /\ s \subseteq Functions /\ scanned' = scanned \cup s
        /\ \A g \in s : ~isQKernel(g) /\ CalledIn(body[g]) \subseteq scanned \cup s
    BY <2>1, <2>2, <2>3
  <2> HIDE DEF s
  <2> QED
    BY <1>1, <1>3, <2>1, <2>4, ScanMore
<1>4. CASE pc' = "scan" /\ ScanFunction(f)
  <2>1. scanned' = scanned \cup {f} /\ ~hasCycle(f)
    BY <1>4 DEF ScanFunction
  <2>2. CalledIn(body[f]) \subseteq scanned
    <3>1. scanned \subseteq Functions /\ \A g \in scanned : CalledIn(body[g]) \subseteq scanned
      BY <1>1 DEF FlatInv, ListInv, Closed
    <3> QED
      BY <1>1, <2>1, <3>1, CallsOnlyScanned
  <2>3. CASE ~isQKernel(f)
    <3>1. UNCHANGED CB_to_inline
      BY <1>4, <2>3 DEF ScanFunction
    <3> DEFINE s == {f}
    <3>2. /\ s \subseteq Functions /\ scanned' = scanned \cup s
          /\ \A g \in s : ~isQKernel(g) /\ CalledIn(body[g]) \subseteq scanned \cup s
      BY <2>1, <2>2, <2>3
    <3> HIDE DEF s
    <3> QED
      BY <1>1, <1>4, <3>1, <3>2, ScanMore
  <2>4. CASE isQKernel(f)
    <3>1. CB_to_inline' = CB_to_inline \o CallSites(f)
      BY <1>1, <1>4, <2>4 DEF ScanFunction, PutLast
    <3> QED
      BY <1>1, <1>4, <2>1, <2>2, <2>4, <3>1, ScanKernel
  <2> QED
    BY <2>3, <2>4
<1> QED
  BY <1>1, <1>2, <1>3, <1>4

LEMMA Unchanged ==
  ASSUME UNCHANGED <<program, body, scanned, CB_to_inline>>
  PROVE  /\ FoundCalls' = FoundCalls /\ (\A c : SiteOf(c)' = SiteOf(c)) /\ (\A c : CalleeOf(c)' = CalleeOf(c))
         /\ (ListInv => ListInv') /\ \A c : Waiting(c)' = Waiting(c)
<1>1. FoundCalls' = FoundCalls
  BY DEF FoundCalls, Calls, CalleeOf, isQKernel, isQExprFunc, Quantum
<1>2. (\A c : SiteOf(c)' = SiteOf(c)) /\ \A c : CalleeOf(c)' = CalleeOf(c)
  BY DEF SiteOf, CalleeOf
<1>3. Closed' = Closed /\ \A rank : Ranks(rank) => Ranks(rank)'
  BY DEF Closed, CalledIn, Ranks, isQKernel, Functions
<1>4. CalleesFirst => CalleesFirst'
  BY <1>1, <1>2 DEF CalleesFirst
<1>5. \A g \in Functions : AllShaped(body[g]) => AllShaped(body[g])'
  BY DEF AllShaped, Shaped
<1>6. ListInv => ListInv'
  BY <1>1, <1>2, <1>3, <1>4, <1>5 DEF ListInv, Functions
<1>7. \A c : Waiting(c)' = Waiting(c)
  BY <1>2 DEF Waiting
<1> QED
  BY <1>1, <1>2, <1>6, <1>7

LEMMA NeededScanned ==
  ASSUME TypeInv, Needed \subseteq scanned
  PROVE  \A f \in present : ~program.internal[f] => f \in scanned
<1> DEFINE s == {f \in present : ~program.internal[f]}
<1>1. s \subseteq Functions /\ \A f \in present : ~program.internal[f] => f \in s
  BY DEF TypeInv
<1>2. Needed = present \cap Reached(s)
  BY DEF Needed
<1>3. s \subseteq present
  OBVIOUS
<1> HIDE DEF s
<1>4. s \subseteq Reached(s)
  BY <1>1, ReachedFacts
<1> QED
  BY <1>1, <1>2, <1>3, <1>4

LEMMA DoneKeepsFlat ==
  ASSUME TypeInv, FlatInv, ScanDone
  PROVE  FlatInv'
<1>1. /\ pc = "scan" /\ pc' = "inline" /\ Needed \subseteq scanned
      /\ UNCHANGED <<program, present, body, scanned, CB_to_inline>>
  BY DEF ScanDone, flattenVars
<1>2. ListInv /\ body = program.body /\ \A c \in FoundCalls : Waiting(c)
  BY <1>1 DEF FlatInv, ScanInv
<1>3. ListInv' /\ FoundCalls' = FoundCalls /\ \A c : Waiting(c)' = Waiting(c)
  BY <1>1, <1>2, Unchanged
<1>4. \A g \in Functions : body[g] = WithDone(g, {})
  BY <1>2, WithNoneDone
<1>5. \A g \in Functions : body'[g] = WithDone(g, {})'
  <2>1. \A g \in Functions : WithDone(g, {})' = WithDone(g, {})
    BY <1>1 DEF WithDone, Piece, Together, InPlaceOf, Substituted
  <2> QED
    BY <1>1, <1>4, <2>1
<1>6. InlinedAs({})'
  BY <1>2, <1>3, <1>5 DEF InlinedAs, Functions
<1>7. InlineInv'
  <2>1. \A f \in present' : ~program'.internal[f] => f \in scanned'
    BY <1>1, NeededScanned
  <2> QED
    BY <1>6, <2>1 DEF InlineInv
<1> QED
  BY <1>1, <1>3, <1>7 DEF FlatInv

-----------------------------------------------------------------------------
(* A list without its first element.                                       *)
LEMMA WithoutFirst ==
  ASSUME NEW S, NEW s, s \in Seq(S), s # <<>>
  PROVE  /\ 1 \in DOMAIN s /\ Head(s) = s[1] /\ Tail(s) \in Seq(S) /\ s[1] \in S
         /\ DOMAIN s \subseteq Nat /\ DOMAIN Tail(s) \subseteq Nat
         /\ \A i \in DOMAIN Tail(s) : i + 1 \in DOMAIN s /\ Tail(s)[i] = s[i + 1] /\ i # 0
         /\ \A i \in DOMAIN s : i # 1 => \E j \in DOMAIN Tail(s) : Tail(s)[j] = s[i]
<1> DEFINE t == Tail(s)
<1>1. Len(s) \in Nat /\ DOMAIN s = 1 .. Len(s) /\ Len(s) # 0
  BY LenProperties, EmptySeq
<1>2. /\ Head(s) = s[1] /\ t \in Seq(S) /\ Len(t) = Len(s) - 1
      /\ \A i \in 1 .. Len(t) : t[i] = s[i + 1]
  BY HeadTailProperties
<1>3. s[1] \in S
  BY <1>1, ElementOfSeq
<1> HIDE DEF t
<1>4. DOMAIN t = 1 .. Len(s) - 1
  BY <1>2, LenProperties
<1>5. \A i \in DOMAIN t : i + 1 \in DOMAIN s /\ t[i] = s[i + 1] /\ i # 0
  BY <1>1, <1>2, <1>4
<1>6. ASSUME NEW i \in DOMAIN s, i # 1
      PROVE  \E j \in DOMAIN t : t[j] = s[i]
  <2>1. i - 1 \in DOMAIN t /\ (i - 1) + 1 = i
    BY <1>1, <1>4, <1>6
  <2>2. t[i - 1] = s[i]
    BY <1>5, <2>1
  <2> QED
    BY <2>1, <2>2
<1> QED
  BY <1>1, <1>2, <1>3, <1>4, <1>5, <1>6 DEF t

(* What InlineCall does, in terms of the call it inlines.                  *)
InlinesCall(c) ==
  /\ c \in FoundCalls /\ 1 \in DOMAIN CB_to_inline /\ CB_to_inline[1] = SiteOf(c)
  /\ c[1] \in Functions /\ c = <<c[1], c[2]>>
  /\ CB_to_inline' = Tail(CB_to_inline) /\ CB_to_inline # <<>>
  /\ body' = [body EXCEPT ![c[1]] = WithInlined(body[c[1]], <<c[2]>>)]
  /\ UNCHANGED <<program, present, scanned>>

LEMMA HeadIsACall ==
  ASSUME TypeInv, FlatInv, InlineCall
  PROVE  \E c : InlinesCall(c)
<1> DEFINE S == {SiteOf(c) : c \in FoundCalls}
<1>1. pc = "inline" /\ CB_to_inline \in Seq(S) /\ CB_to_inline # <<>>
  BY DEF InlineCall, FlatInv, ListInv
<1>2. 1 \in DOMAIN CB_to_inline /\ Head(CB_to_inline) = CB_to_inline[1] /\ CB_to_inline[1] \in S
  <2> HIDE DEF S
  <2> QED
    BY <1>1, WithoutFirst
<1>3. PICK c \in FoundCalls : Head(CB_to_inline) = SiteOf(c)
  BY <1>2
<1>4. c \in Calls
  BY DEF FoundCalls
<1>5. c = <<c[1], c[2]>> /\ c[1] \in Functions
  BY <1>4, CallFacts
<1>6. Head(CB_to_inline)[1] = c[1] /\ Head(CB_to_inline)[2] = <<c[2]>>
  BY <1>3 DEF SiteOf
<1>7. body' = [body EXCEPT ![c[1]] = WithInlined(body[c[1]], <<c[2]>>)]
  BY <1>6 DEF InlineCall
<1>8. InlinesCall(c)
  BY <1>1, <1>2, <1>3, <1>5, <1>7 DEF InlineCall, InlinesCall
<1> QED
  BY <1>8

LEMMA ShapedIsGood ==
  ASSUME TypeInv, ListInv
  PROVE  GoodBodies
BY DEF TypeInv, ListInv, GoodBodies, Good

(* Inlining a call leaves the list in order, and the call graph closed.    *)
LEMMA InlineKeepsList ==
  ASSUME TypeInv, ListInv, NEW c, InlinesCall(c)
  PROVE  /\ ListInv' /\ FoundCalls' = FoundCalls
         /\ (\A d : SiteOf(d)' = SiteOf(d)) /\ (\A d : CalleeOf(d)' = CalleeOf(d))
<1> DEFINE g == c[1]
<1>1. /\ c \in FoundCalls /\ g \in Functions /\ CB_to_inline' = Tail(CB_to_inline) /\ CB_to_inline # <<>>
      /\ body' = [body EXCEPT ![g] = WithInlined(body[g], <<c[2]>>)]
      /\ UNCHANGED <<program, present, scanned>>
  BY DEF InlinesCall
<1>2. /\ scanned \subseteq Functions /\ Closed /\ (\E rank : Ranks(rank))
      /\ CB_to_inline \in Seq({SiteOf(d) : d \in FoundCalls}) /\ CalleesFirst
      /\ \A h \in Functions : AllShaped(body[h])
  BY DEF ListInv
<1>3. FoundCalls' = FoundCalls /\ (\A d : SiteOf(d)' = SiteOf(d)) /\ (\A d : CalleeOf(d)' = CalleeOf(d))
  BY <1>1 DEF FoundCalls, Calls, CalleeOf, SiteOf, isQKernel, isQExprFunc, Quantum
<1>4. GoodBodies
  BY ShapedIsGood
<1>5. /\ AllShaped(WithInlined(body[g], <<c[2]>>))
      /\ \A d \in CalledIn(WithInlined(body[g], <<c[2]>>)) :
           d \in CalledIn(body[g]) \/ \E h \in CalledIn(body[g]) : d \in CalledIn(body[h])
  <2> DEFINE items == body[g]
             id == <<c[2]>>
  <2>1. Good(items)
    BY <1>1, <1>4 DEF GoodBodies
  <2> HIDE DEF items, id
  <2>2. /\ AllShaped(WithInlined(items, id))
        /\ \A d \in CalledIn(WithInlined(items, id)) :
             d \in CalledIn(items) \/ \E h \in CalledIn(items) : d \in CalledIn(body[h])
    BY <1>4, <2>1, InlinedCalls
  <2> QED
    BY <2>2 DEF items, id
<1>6. body'[g] = WithInlined(body[g], <<c[2]>>) /\ \A h \in Functions : h # g => body'[h] = body[h]
  BY <1>1 DEF TypeInv
<1> HIDE DEF g
<1>7. Closed'
  <2>1. ASSUME NEW h \in scanned
        PROVE  CalledIn(body'[h]) \subseteq scanned
    <3>1. \A k \in scanned : CalledIn(body[k]) \subseteq scanned
      BY <1>2 DEF Closed
    <3>2. CASE h = g
      BY <1>5, <1>6, <2>1, <3>1, <3>2
    <3>3. CASE h # g
      <4>1. body'[h] = body[h]
        BY <1>2, <1>6, <3>3
      <4> QED
        BY <3>1, <4>1
    <3> QED
      BY <3>2, <3>3
  <2>2. \A h : CalledIn(body[h])' = CalledIn(body'[h]) /\ CalledIn(program.body[h])' = CalledIn(program.body[h])
    BY <1>1 DEF CalledIn
  <2>3. \A h \in scanned : CalledIn(program.body[h]) \subseteq scanned
    BY <1>2 DEF Closed
  <2> QED
    BY <1>1, <2>1, <2>2, <2>3 DEF Closed
<1>8. \E rank : Ranks(rank)'
  <2>1. \A rank : Ranks(rank) => Ranks(rank)'
    BY <1>1 DEF Ranks, CalledIn, isQKernel, Functions
  <2> QED
    BY <1>2, <2>1
<1>9. CB_to_inline' \in Seq({SiteOf(d)' : d \in FoundCalls'}) /\ CalleesFirst'
  <2> DEFINE S == {SiteOf(d) : d \in FoundCalls}
             s == CB_to_inline
             t == CB_to_inline'
  <2>1. s \in Seq(S) /\ t = Tail(s) /\ s # <<>> /\ S = {SiteOf(d)' : d \in FoundCalls'}
    BY <1>1, <1>2, <1>3
  <2> HIDE DEF s, t, S
  <2>2. /\ t \in Seq(S) /\ DOMAIN s \subseteq Nat /\ DOMAIN t \subseteq Nat
        /\ \A i \in DOMAIN t : i + 1 \in DOMAIN s /\ t[i] = s[i + 1]
    BY <2>1, WithoutFirst
  <2>3. ASSUME NEW a \in FoundCalls, NEW b \in FoundCalls, b[1] = CalleeOf(a),
               NEW i \in DOMAIN t, NEW j \in DOMAIN t, t[i] = SiteOf(a), t[j] = SiteOf(b)
        PROVE  j < i
    <3>1. \A k, l \in DOMAIN s : s[k] = SiteOf(a) /\ s[l] = SiteOf(b) => l < k
      BY <1>2, <2>3 DEF CalleesFirst, s
    <3>2. i + 1 \in DOMAIN s /\ s[i + 1] = SiteOf(a) /\ j + 1 \in DOMAIN s /\ s[j + 1] = SiteOf(b)
      BY <2>2, <2>3
    <3>3. j + 1 < i + 1
      BY <3>1, <3>2
    <3>4. i \in Nat /\ j \in Nat
      BY <2>2
    <3> QED
      BY <3>3, <3>4
  <2>4. CalleesFirst'
    BY <1>3, <2>3 DEF CalleesFirst, t
  <2> QED
    BY <2>1, <2>2, <2>4 DEF t
<1>10. \A h \in Functions : AllShaped(body[h])'
  <2>1. \A h \in Functions : AllShaped(body'[h])
    BY <1>2, <1>5, <1>6
  <2> QED
    BY <2>1 DEF AllShaped, Shaped
<1>11. ListInv'
  BY <1>1, <1>2, <1>7, <1>8, <1>9, <1>10 DEF ListInv, Functions
<1> QED
  BY <1>3, <1>11

(* The callee of the first call of the list has no call left that waits,   *)
(* so what takes its place is what it stays.                               *)
LEMMA InlineKeepsDone ==
  ASSUME TypeInv, ListInv, NEW c, InlinesCall(c), NEW done, InlinedAs(done)
  PROVE  InlinedAs(done \cup {c})'
<1> DEFINE g == c[1]
           more == done \cup {c}
           s == CB_to_inline
           t == CB_to_inline'
           S == {SiteOf(d) : d \in FoundCalls}
<1>1. /\ c \in FoundCalls /\ g \in Functions /\ c = <<g, c[2]>> /\ t = Tail(s) /\ s # <<>>
      /\ 1 \in DOMAIN s /\ s[1] = SiteOf(c)
      /\ body' = [body EXCEPT ![g] = WithInlined(body[g], <<c[2]>>)]
      /\ UNCHANGED <<program, present, scanned>>
  BY DEF InlinesCall
<1>2. /\ done \subseteq FoundCalls
      /\ \A d \in FoundCalls : d \in done \/ Waiting(d)
      /\ \A a \in done : \A d \in FoundCalls : d[1] = CalleeOf(a) => ~Waiting(d)
      /\ \A h \in Functions : body[h] = WithDone(h, done)
  BY DEF InlinedAs
<1>3. /\ FoundCalls' = FoundCalls
      /\ (\A d : SiteOf(d)' = SiteOf(d)) /\ (\A d : CalleeOf(d)' = CalleeOf(d))
  BY InlineKeepsList
<1>4. FoundCalls \subseteq Calls /\ s \in Seq(S) /\ CalleesFirst
  BY DEF FoundCalls, ListInv
<1>5. Waiting(c)
  BY <1>1 DEF Waiting
<1> HIDE DEF g, t, S
<1>6. /\ DOMAIN s \subseteq Nat /\ DOMAIN t \subseteq Nat
      /\ \A i \in DOMAIN t : i + 1 \in DOMAIN s /\ t[i] = s[i + 1] /\ i # 0
      /\ \A i \in DOMAIN s : i # 1 => \E j \in DOMAIN t : t[j] = s[i]
  <2> HIDE DEF s
  <2> QED
    BY <1>1, <1>4, WithoutFirst
<1>7. \A d : Waiting(d)' <=> \E i \in DOMAIN t : t[i] = SiteOf(d)
  BY <1>3 DEF Waiting, t
<1>8. \A d : Waiting(d)' => Waiting(d)
  BY <1>6, <1>7 DEF Waiting
<1>9. ASSUME NEW d \in FoundCalls
      PROVE  d \in more \/ Waiting(d)'
  <2>1. SUFFICES ASSUME d \notin more
                 PROVE  Waiting(d)'
    OBVIOUS
  <2>2. Waiting(d) /\ d # c
    BY <1>2, <2>1
  <2>3. PICK i \in DOMAIN s : s[i] = SiteOf(d)
    BY <2>2 DEF Waiting
  <2>4. i # 1
    <3>1. SUFFICES ASSUME i = 1
                   PROVE  FALSE
      OBVIOUS
    <3>2. SiteOf(c) = SiteOf(d) /\ c \in Calls /\ d \in Calls
      BY <1>1, <1>4, <2>3, <3>1
    <3> QED
      BY <2>2, <3>2, SitesDiffer
  <2> QED
    BY <1>6, <1>7, <2>3, <2>4
<1>10. ASSUME NEW a \in more, NEW d \in FoundCalls, d[1] = CalleeOf(a), Waiting(d)'
       PROVE  FALSE
  <2>1. Waiting(d)
    BY <1>8, <1>10
  <2>2. CASE a \in done
    BY <1>2, <1>10, <2>1, <2>2
  <2>3. CASE a = c
    <3>1. PICK i \in DOMAIN t : t[i] = SiteOf(d)
      BY <1>7, <1>10
    <3>2. i + 1 \in DOMAIN s /\ s[i + 1] = SiteOf(d) /\ i \in Nat /\ i # 0
      BY <1>6, <3>1
    <3>3. i + 1 < 1
      BY <1>1, <1>4, <1>10, <2>3, <3>2 DEF CalleesFirst
    <3> QED
      BY <3>2, <3>3
  <2> QED
    BY <1>10, <2>2, <2>3
<1>11. ASSUME NEW a \in more
       PROVE  CalleeOf(a) # g
  <2>1. SUFFICES ASSUME CalleeOf(a) = g
                 PROVE  FALSE
    OBVIOUS
  <2>2. c[1] = CalleeOf(a)
    BY <2>1 DEF g
  <2>3. CASE a \in done
    BY <1>1, <1>2, <1>5, <2>2, <2>3
  <2>4. CASE a = c
    <3>1. 1 < 1
      BY <1>1, <1>4, <2>2, <2>4 DEF CalleesFirst
    <3> QED
      BY <3>1
  <2> QED
    BY <1>11, <2>3, <2>4
<1>12. body'[g] = WithInlined(body[g], <<c[2]>>) /\ \A h \in Functions : h # g => body'[h] = body[h]
  BY <1>1 DEF TypeInv
<1>13. more \subseteq Calls
  BY <1>1, <1>2, <1>4
<1> HIDE DEF more
<1>14. ASSUME NEW h \in Functions
       PROVE  WithDone(h, more)' = WithDone(h, more)
  <2>1. ASSUME NEW k \in DOMAIN program.body[h], <<h, k>> \in more
        PROVE  body'[program.body[h][k].callee] = body[program.body[h][k].callee]
    <3> DEFINE a == <<h, k>>
    <3>1. a \in more /\ a \in Calls /\ CalleeOf(a) = program.body[h][k].callee
      BY <1>13, <2>1 DEF CalleeOf
    <3> HIDE DEF a
    <3>2. CalleeOf(a) \in Functions /\ CalleeOf(a) # g
      BY <1>11, <3>1, CallFacts
    <3> QED
      BY <1>12, <3>1, <3>2
  <2> QED
    BY <1>1, <1>14, <2>1, WithDoneKept DEF more
<1>15. body'[g] = WithDone(g, more)
  <2> DEFINE i == c[2]
  <2>1. <<g, i>> \in Calls /\ more = done \cup {<<g, i>>} /\ done \subseteq Calls /\ body[g] = WithDone(g, done)
    BY <1>1, <1>2, <1>4 DEF more
  <2>2. GoodBodies
    BY ShapedIsGood
  <2> HIDE DEF i
  <2>3. WithInlined(body[g], <<i>>) = WithDone(g, done \cup {<<g, i>>})
    BY <1>1, <2>1, <2>2, InlineOne
  <2> QED
    BY <1>12, <2>1, <2>3 DEF i
<1>16. ASSUME NEW h \in Functions, h # g
       PROVE  body'[h] = WithDone(h, more)
  <2>1. \A k : <<h, k>> \in more <=> <<h, k>> \in done
    BY <1>1, <1>16 DEF more
  <2>2. \A k : Piece(h, k, more) = Piece(h, k, done)
    BY <2>1 DEF Piece
  <2>3. WithDone(h, more) = WithDone(h, done)
    BY <2>2 DEF WithDone
  <2> QED
    BY <1>2, <1>12, <1>16, <2>3
<1>17. \A h \in Functions : body'[h] = WithDone(h, more)'
  BY <1>14, <1>15, <1>16
<1>18. more \subseteq FoundCalls
  BY <1>1, <1>2 DEF more
<1>19. InlinedAs(more)'
  BY <1>3, <1>9, <1>10, <1>17, <1>18 DEF InlinedAs, Functions, more
<1> QED
  BY <1>19 DEF more

-----------------------------------------------------------------------------
(* Every step keeps the invariant.                                         *)
LEMMA InlineKeepsFlat ==
  ASSUME TypeInv, FlatInv, InlineCall
  PROVE  FlatInv'
<1>1. pc = "inline" /\ pc' = "inline" /\ ListInv /\ InlineInv
  BY DEF InlineCall, FlatInv
<1>2. PICK c : InlinesCall(c)
  BY HeadIsACall
<1>3. PICK done : InlinedAs(done)
  BY <1>1 DEF InlineInv
<1>4. ListInv'
  BY <1>1, <1>2, InlineKeepsList
<1>5. InlinedAs(done \cup {c})'
  BY <1>1, <1>2, <1>3, InlineKeepsDone
<1>6. InlineInv'
  BY <1>1, <1>2, <1>5 DEF InlineInv, InlinesCall
<1> QED
  BY <1>1, <1>4, <1>6 DEF FlatInv

LEMMA FlatKept == IInv /\ FlatInv /\ [Next]_vars => FlatInv'
<1> SUFFICES ASSUME IInv, FlatInv, [Next]_vars
             PROVE  FlatInv'
  OBVIOUS
<1>1. TypeInv
  BY DEF IInv
<1>2. ASSUME NEW f \in Functions, ScanCycle(f) \/ ScanFunction(f)
      PROVE  FlatInv'
  BY <1>1, <1>2, ScanKeepsFlat
<1>3. CASE ScanDone
  BY <1>1, <1>3, DoneKeepsFlat
<1>4. CASE InlineCall
  BY <1>1, <1>4, InlineKeepsFlat
<1>5. CASE InlineFails \/ MarkInlined \/ PreMPM \/ Skip \/ AlreadyValid \/ GiveUp \/ Simplify \/ PostMPM
  <2>1. pc' \notin {"scan", "inline"}
    BY <1>5 DEF InlineFails, MarkInlined, PreMPM, Skip, AlreadyValid, GiveUp, Simplify, PostMPM, AtPending
  <2> QED
    BY <2>1 DEF FlatInv
<1>6. CASE UNCHANGED vars
  <2>1. UNCHANGED <<pc, program, present, body, scanned, CB_to_inline>>
    BY <1>6 DEF vars, flattenVars
  <2>2. /\ FoundCalls' = FoundCalls /\ (\A c : SiteOf(c)' = SiteOf(c)) /\ (\A c : CalleeOf(c)' = CalleeOf(c))
        /\ (ListInv => ListInv') /\ \A c : Waiting(c)' = Waiting(c)
    BY <2>1, Unchanged
  <2>3. \A done : InlinedAs(done) => InlinedAs(done)'
    <3>1. \A g, done : WithDone(g, done)' = WithDone(g, done)
      BY <2>1 DEF WithDone, Piece, Together, InPlaceOf, Substituted
    <3> QED
      BY <2>1, <2>2, <3>1 DEF InlinedAs, Functions
  <2>4. (InlineInv => InlineInv') /\ (ScanInv => ScanInv')
    BY <2>1, <2>2, <2>3 DEF InlineInv, ScanInv, Functions
  <2> QED
    BY <2>1, <2>2, <2>4 DEF FlatInv
<1> QED
  BY <1>2, <1>3, <1>4, <1>5, <1>6 DEF Next

-----------------------------------------------------------------------------
(* The recursion Written stands for.                                       *)
Deepening(D, m) ==
  D = [n \in 0 .. m |-> WithBelow(IF n = 0 THEN [g \in Functions |-> <<>>] ELSE D[n - 1])]

LEMMA DeepeningExists ==
  ASSUME NEW m, m \in Nat
  PROVE  \E D : Deepening(D, m)
<1> DEFINE zero == [g \in Functions |-> <<>>]
           T == {n \in 0 .. m : \E D : Deepening(D, n)}
<1>1. 0 \in T
  <2> DEFINE D == [n \in 0 .. 0 |-> WithBelow(zero)]
  <2>1. D = [n \in 0 .. 0 |-> WithBelow(IF n = 0 THEN zero ELSE D[n - 1])]
    <3>1. \A n \in 0 .. 0 : WithBelow(zero) = WithBelow(IF n = 0 THEN zero ELSE D[n - 1])
      <4> HIDE DEF zero
      <4> QED
        OBVIOUS
    <3> HIDE DEF zero
    <3> QED
      BY <3>1
  <2>2. Deepening(D, 0)
    <3> HIDE DEF D
    <3> QED
      BY <2>1 DEF Deepening
  <2> QED
    BY <2>2
<1>2. ASSUME NEW n \in 0 .. m - 1, n \in T
      PROVE  n + 1 \in T
  <2>1. n \in Nat /\ n + 1 \in 0 .. m
    OBVIOUS
  <2>2. PICK D : Deepening(D, n)
    BY <1>2
  <2> DEFINE F == [i \in 0 .. n + 1 |-> IF i = n + 1 THEN WithBelow(D[n]) ELSE D[i]]
  <2>3. \A i \in 0 .. n : D[i] = WithBelow(IF i = 0 THEN zero ELSE D[i - 1])
    <3> HIDE DEF zero
    <3> QED
      BY <2>2 DEF Deepening, zero
  <2>4. ASSUME NEW i \in 0 .. n + 1
        PROVE  F[i] = WithBelow(IF i = 0 THEN zero ELSE F[i - 1])
    <3> HIDE DEF zero
    <3>1. CASE i = n + 1
      <4>1. i # 0 /\ i - 1 = n /\ n \in 0 .. n + 1 /\ n # n + 1
        BY <2>1, <3>1
      <4>2. F[i - 1] = D[n] /\ F[i] = WithBelow(D[n])
        BY <3>1, <4>1
      <4> HIDE DEF F
      <4> QED
        BY <4>1, <4>2
    <3>2. CASE i # n + 1
      <4>1. i \in 0 .. n
        BY <2>1, <3>2
      <4>2. F[i] = D[i]
        BY <3>2
      <4>3. i # 0 => F[i - 1] = D[i - 1]
        BY <2>1, <4>1
      <4>4. D[i] = WithBelow(IF i = 0 THEN zero ELSE D[i - 1])
        BY <2>3, <4>1
      <4> HIDE DEF F
      <4> QED
        BY <4>2, <4>3, <4>4
    <3> QED
      BY <3>1, <3>2
  <2>5. F = [i \in 0 .. n + 1 |-> F[i]]
    OBVIOUS
  <2>6. Deepening(F, n + 1)
    <3> HIDE DEF F
    <3> QED
      BY <2>4, <2>5 DEF Deepening
  <2> QED
    BY <2>1, <2>6
<1>3. 0 .. m \subseteq T
  <2> HIDE DEF T
  <2> QED
    BY <1>1, <1>2, FromZero
<1> QED
  BY <1>3

-----------------------------------------------------------------------------
(* When nothing waits, a body has the gates it has as written, if the      *)
(* kernels called have.                                                    *)
AllInlined ==
  /\ TypeInv /\ GoodBodies /\ Closed
  /\ \A g \in Functions : body[g] = WithDone(g, FoundCalls)

LEMMA GatesOfPiece ==
  ASSUME AllInlined, NEW g, g \in scanned, g \in Functions, Quantum(g), NEW k, k \in DOMAIN program.body[g], NEW below,
         \A c \in CalledIn(program.body[g]) : isQKernel(c) => below[c] = GatesIn(body[c])
  PROVE  GatesIn(Piece(g, k, FoundCalls)) =
           IF program.body[g][k].kind = "gate" THEN <<GateOf(program.body[g][k])>>
           ELSE IF isQKernel(program.body[g][k].callee) THEN AppliedTo(below[program.body[g][k].callee], program.body[g][k])
           ELSE <<>>
<1> DEFINE item == program.body[g][k]
           P == Piece(g, k, FoundCalls)
<1>1. item.kind \in {"gate", "call"} /\ GoodItem(item)
  BY ProgramFacts DEF AllInlined, TypeInv
<1>2. <<g, k>>[1] = g /\ <<g, k>>[2] = k /\ CalleeOf(<<g, k>>) = item.callee
  BY DEF CalleeOf
<1>3. CASE item.kind = "gate"
  <2>1. <<g, k>> \notin FoundCalls
    <3>1. SUFFICES ASSUME <<g, k>> \in Calls
                   PROVE  FALSE
      BY DEF FoundCalls
    <3>2. program.body[<<g, k>>[1]][<<g, k>>[2]].kind = "call"
      BY <3>1, CallFacts DEF AllInlined
    <3> QED
      BY <1>2, <1>3, <3>2
  <2>2. P = <<item>>
    BY <2>1 DEF Piece
  <2>3. GatesIn(<<item>>) = GateList(item)
    BY GatesInOne
  <2> HIDE DEF item, P
  <2> QED
    BY <1>3, <2>2, <2>3 DEF GateList, item, P
<1>4. CASE item.kind = "call" /\ isQKernel(item.callee)
  <2>1. item.callee \in CalledIn(program.body[g]) /\ item.callee \in scanned /\ item.callee \in Functions
    <3>1. item.callee \in CalledIn(program.body[g])
      BY <1>4 DEF CalledIn
    <3>2. item.callee \in Functions
      BY <1>1, <1>4 DEF GoodItem
    <3> QED
      BY <3>1, <3>2 DEF AllInlined, Closed
  <2>2. <<g, k>> \in Calls
    BY <1>4 DEF Calls
  <2>3. <<g, k>> \in FoundCalls
    BY <1>2, <1>4, <2>1, <2>2 DEF FoundCalls
  <2>4. P = InPlaceOf(item, body[item.callee])
    BY <2>3 DEF Piece
  <2>5. below[item.callee] = GatesIn(body[item.callee])
    BY <1>4, <2>1
  <2> DEFINE items == body[item.callee]
  <2>6. Shaped(item) /\ AllShaped(items)
    BY <1>1, <2>1 DEF GoodItem, GoodBodies, Good, AllInlined
  <2> HIDE DEF item, items
  <2>7. GatesIn(InPlaceOf(item, items)) = AppliedTo(GatesIn(items), item)
    BY <2>6, GatesInPlace
  <2>8. GatesIn(P) = AppliedTo(below[item.callee], item)
    BY <2>4, <2>5, <2>7 DEF items
  <2> QED
    BY <1>4, <2>8 DEF item
<1>5. CASE item.kind = "call" /\ ~isQKernel(item.callee)
  <2>1. <<g, k>> \notin FoundCalls
    BY <1>2, <1>5 DEF FoundCalls
  <2>2. P = <<item>>
    BY <2>1 DEF Piece
  <2>3. GatesIn(<<item>>) = GateList(item)
    BY GatesInOne
  <2> HIDE DEF item, P
  <2> QED
    BY <1>5, <2>2, <2>3 DEF GateList, item, P
<1> QED
  BY <1>1, <1>3, <1>4, <1>5

LEMMA GatesOfOne ==
  ASSUME AllInlined, NEW g, g \in scanned, g \in Functions, Quantum(g), NEW below,
         \A c \in CalledIn(program.body[g]) : isQKernel(c) => below[c] = GatesIn(body[c])
  PROVE  GatesIn(body[g]) = WithBelow(below)[g]
<1> DEFINE items == program.body[g]
           n == Len(items)
           P == [k \in DOMAIN items |-> Piece(g, k, FoundCalls)]
           Q(k) == IF items[k].kind = "gate" THEN <<GateOf(items[k])>>
                   ELSE IF isQKernel(items[k].callee) THEN AppliedTo(below[items[k].callee], items[k])
                   ELSE <<>>
<1>1. n \in Nat /\ DOMAIN items = 1 .. n
  BY ProgramFacts DEF AllInlined, TypeInv
<1>2. FoundCalls \subseteq Calls
  BY DEF FoundCalls
<1>3. \A k \in 1 .. n : P[k] = Piece(g, k, FoundCalls)
  <2> HIDE DEF items, n
  <2> QED
    BY <1>1
<1>4. \A k \in 1 .. n : P[k] \in Seq(ToSet(P[k]))
  <2>1. \A k \in DOMAIN items : Good(Piece(g, k, FoundCalls))
    BY <1>2, PiecesAreGood DEF AllInlined
  <2> HIDE DEF P, items, n
  <2> QED
    BY <1>1, <1>3, <2>1 DEF Good, AllShaped
<1>5. \A k \in 1 .. n : GatesIn(P[k]) = Q(k)
  <2>1. \A k \in DOMAIN items : GatesIn(Piece(g, k, FoundCalls)) = Q(k)
    BY GatesOfPiece
  <2> HIDE DEF P, Q, items, n
  <2> QED
    BY <1>1, <1>3, <2>1
<1>6. body[g] = FlattenSeq([k \in 1 .. n |-> P[k]])
  BY DEF AllInlined, WithDone, Together
<1> HIDE DEF P
<1>7. GatesIn(FlattenSeq([k \in 1 .. n |-> P[k]])) = FlattenSeq([k \in 1 .. n |-> GatesIn(P[k])])
  <2> HIDE DEF n
  <2> QED
    BY <1>1, <1>4, GatesTogether
<1>8. [k \in 1 .. n |-> GatesIn(P[k])] = [k \in DOMAIN items |-> Q(k)]
  <2> HIDE DEF Q, n, items
  <2> QED
    BY <1>1, <1>5
<1>9. WithBelow(below)[g] = FlattenSeq([k \in DOMAIN items |-> Q(k)])
  BY DEF WithBelow
<1> QED
  BY <1>6, <1>7, <1>8, <1>9

(* By the ranks: a kernel has its gates after as many levels as its rank.  *)
LEMMA GatesOfAll ==
  ASSUME AllInlined, scanned \subseteq Functions, NEW rank, Ranks(rank), NEW f, f \in scanned, Quantum(f)
  PROVE  GatesIn(body[f]) = Written(f)
<1> DEFINE N == NumFunctions
           D == CHOOSE D : Deepening(D, N)
           zero == [g \in Functions |-> <<>>]
           T == {n \in 0 .. N : \A g \in scanned : isQKernel(g) /\ rank[g] <= n => D[n][g] = GatesIn(body[g])}
<1>1. N \in Nat /\ N # 0 /\ f \in Functions
  BY Counts DEF Functions
<1>2. Written(f) = D[N][f] /\ Deepening(D, N)
  <2>1. Written(f) = D[N][f]
    BY DEF Written, Deepening
  <2>2. Deepening(D, N)
    BY <1>1, DeepeningExists
  <2> QED
    BY <2>1, <2>2
<1> HIDE DEF D
<1>3. D[0] = WithBelow(zero) /\ \A n \in 0 .. N - 1 : D[n + 1] = WithBelow(D[n])
  <2>1. \A n \in 0 .. N : D[n] = WithBelow(IF n = 0 THEN zero ELSE D[n - 1])
    <3> HIDE DEF zero
    <3> QED
      BY <1>2 DEF Deepening, zero
  <2> HIDE DEF zero
  <2>2. D[0] = WithBelow(zero)
    BY <1>1, <2>1
  <2>3. ASSUME NEW n \in 0 .. N - 1
        PROVE  D[n + 1] = WithBelow(D[n])
    <3>1. n + 1 \in 0 .. N /\ n + 1 # 0 /\ (n + 1) - 1 = n
      BY <1>1
    <3> QED
      BY <2>1, <3>1
  <2> QED
    BY <2>2, <2>3
<1>4. Cardinality(scanned) \in Nat /\ Cardinality(scanned) <= N
  BY ScannedIsFinite
<1>5. /\ \A g \in scanned : CalledIn(program.body[g]) \subseteq scanned
      /\ \A g \in scanned : isQKernel(g) => rank[g] \in Nat /\ rank[g] < Cardinality(scanned)
      /\ \A g \in scanned : isQKernel(g) => \A c \in CalledIn(program.body[g]) : isQKernel(c) => rank[c] < rank[g]
  BY DEF AllInlined, Closed, Ranks
<1>6. \A g : isQKernel(g) => Quantum(g)
  BY DEF Quantum
<1>7. 0 \in T
  <2>1. ASSUME NEW g \in scanned, isQKernel(g), rank[g] <= 0
        PROVE  D[0][g] = GatesIn(body[g])
    <3>1. \A c \in CalledIn(program.body[g]) : ~isQKernel(c)
      <4>1. SUFFICES ASSUME NEW c \in CalledIn(program.body[g]), isQKernel(c)
                     PROVE  FALSE
        OBVIOUS
      <4>2. c \in scanned /\ rank[c] \in Nat /\ rank[c] < rank[g] /\ rank[g] \in Nat
        BY <1>5, <2>1, <4>1
      <4> QED
        BY <2>1, <4>2
    <3>2. GatesIn(body[g]) = WithBelow(zero)[g]
      <4> HIDE DEF zero
      <4> QED
        BY <1>6, <2>1, <3>1, GatesOfOne
    <3> QED
      BY <1>3, <3>2
  <2> QED
    BY <1>1, <2>1
<1>8. ASSUME NEW n \in 0 .. N - 1, n \in T
      PROVE  n + 1 \in T
  <2>1. n \in Nat /\ n + 1 \in 0 .. N
    BY <1>1
  <2>2. ASSUME NEW g \in scanned, isQKernel(g), rank[g] <= n + 1
        PROVE  D[n + 1][g] = GatesIn(body[g])
    <3>1. \A c \in CalledIn(program.body[g]) : isQKernel(c) => D[n][c] = GatesIn(body[c])
      <4>1. SUFFICES ASSUME NEW c \in CalledIn(program.body[g]), isQKernel(c)
                     PROVE  D[n][c] = GatesIn(body[c])
        OBVIOUS
      <4>2. c \in scanned /\ rank[c] \in Nat /\ rank[c] < rank[g] /\ rank[g] \in Nat
        BY <1>5, <2>2, <4>1
      <4>3. rank[c] <= n
        BY <2>1, <2>2, <4>2
      <4> QED
        BY <1>8, <4>1, <4>2, <4>3
    <3> DEFINE below == D[n]
    <3>2. \A c \in CalledIn(program.body[g]) : isQKernel(c) => below[c] = GatesIn(body[c])
      BY <3>1
    <3> HIDE DEF below
    <3>3. GatesIn(body[g]) = WithBelow(below)[g]
      BY <1>6, <2>2, <3>2, GatesOfOne
    <3> QED
      BY <1>3, <3>3 DEF below
  <2> QED
    BY <2>1, <2>2
<1>9. 0 .. N \subseteq T
  <2> HIDE DEF T, N
  <2> QED
    BY <1>1, <1>7, <1>8, FromZero
<1> DEFINE below == D[N - 1]
<1>10. N - 1 \in 0 .. N /\ N - 1 \in 0 .. N - 1 /\ (N - 1) + 1 = N /\ N - 1 \in Nat
  BY <1>1
<1>11. \A c \in CalledIn(program.body[f]) : isQKernel(c) => below[c] = GatesIn(body[c])
  <2>1. SUFFICES ASSUME NEW c \in CalledIn(program.body[f]), isQKernel(c)
                 PROVE  D[N - 1][c] = GatesIn(body[c])
    OBVIOUS
  <2>2. c \in scanned /\ rank[c] \in Nat /\ rank[c] < Cardinality(scanned)
    BY <1>5, <2>1
  <2>3. rank[c] <= N - 1
    BY <1>1, <1>4, <2>2
  <2>4. N - 1 \in T
    BY <1>9, <1>10
  <2> QED
    BY <2>1, <2>2, <2>3, <2>4
<1>12. D[N] = WithBelow(below)
  BY <1>3, <1>10
<1> HIDE DEF below
<1>13. GatesIn(body[f]) = WithBelow(below)[f]
  BY <1>1, <1>11, GatesOfOne
<1> QED
  BY <1>2, <1>12, <1>13

(* When the list is empty every call that was found has been inlined.      *)
LEMMA FlatShowsWritten == IInv /\ FlatInv => FlattenedAsWritten
<1> SUFFICES ASSUME IInv, FlatInv, pc = "inline", CB_to_inline = <<>>, NEW f \in Needed, Quantum(f)
             PROVE  GatesIn(body[f]) = Written(f)
  BY DEF FlattenedAsWritten, Quantum
<1>1. TypeInv /\ ListInv /\ InlineInv
  BY DEF IInv, FlatInv
<1>2. scanned \subseteq Functions /\ Closed /\ \E rank : Ranks(rank)
  BY <1>1 DEF ListInv
<1>3. f \in scanned
  <2> DEFINE s == {g \in present : ~program.internal[g]}
  <2>1. s \subseteq scanned
    BY <1>1 DEF InlineInv
  <2>2. Callees(scanned) \subseteq scanned
    BY <1>2 DEF Callees, Closed
  <2>3. f \in Reached(s)
    BY DEF Needed
  <2> HIDE DEF s
  <2>4. s \subseteq Functions /\ scanned \in SUBSET Functions
    BY <1>2, <2>1
  <2>5. Reached(s) \subseteq scanned
    BY <1>1, <2>1, <2>2, <2>4, ReachedFacts
  <2> QED
    BY <2>3, <2>5
<1>4. PICK done : InlinedAs(done)
  BY <1>1 DEF InlineInv
<1>5. done = FoundCalls
  <2>1. \A c : ~Waiting(c)
    BY DEF Waiting
  <2> QED
    BY <1>4, <2>1 DEF InlinedAs
<1>6. AllInlined
  BY <1>1, <1>2, <1>4, <1>5, ShapedIsGood DEF AllInlined, InlinedAs
<1>7. PICK rank : Ranks(rank)
  BY <1>2
<1> QED
  BY <1>2, <1>3, <1>6, <1>7, GatesOfAll

(* For every program, however deep its calls are and in whatever order the *)
(* components of its call graph come: when all calls have been inlined,    *)
(* every kernel and quantum expression that is needed holds the gates it   *)
(* and the kernels it calls are written with, in the order of the source.  *)
THEOREM KernelsFlattenedAsWritten == Spec => []FlattenedAsWritten
<1>1. Init => FlatInv
  BY InitHolds, FlatAtFirst DEF IInv
<1> QED
  BY <1>1, InitHolds, StepKeeps, FlatKept, FlatShowsWritten, PTL DEF Spec
===============================================================================
