--------------------------- MODULE PlacementProofs ----------------------------
(***************************************************************************)
(* What every placement method leaves behind, for every platform, every    *)
(* program and whatever the searches answer: maps whose two arrays are     *)
(* inverse of one another, kernels that agree on the global qubits, an     *)
(* operand of a gate on a physical qubit, and the user's values followed.  *)
(*                                                                         *)
(* Sequences are reduced to what the placements tell apart: an enumeration *)
(* of a finite set lists each element once.                                *)
(***************************************************************************)
EXTENDS Placement, FiniteSetTheorems, NaturalsInduction, SequenceTheorems, TLAPS

-----------------------------------------------------------------------------
LEMMA LeastOf ==
  ASSUME NEW S \in SUBSET Nat, S # {}
  PROVE  \E m \in S : \A i \in S : m <= i
<1>1. PICK m \in S : \A i \in S : <<i, m>> \notin OpToRel(<, Nat)
  BY NatLessThanWellFounded, WFMin
<1>2. ASSUME NEW i \in S, i < m
      PROVE  FALSE
  <2>1. <<i, m>> \in OpToRel(<, Nat)
    BY <1>2 DEF OpToRel
  <2> QED
    BY <1>1, <2>1
<1> QED
  BY <1>2

(* An element of a sequence occurs somewhere first.                        *)
LEMMA PositionExists ==
  ASSUME NEW n \in Nat, NEW s, DOMAIN s = 1 .. n, NEW x \in ToSet(s)
  PROVE  Position(s, x) \in 1 .. n /\ s[Position(s, x)] = x
<1> DEFINE I == {i \in 1 .. n : s[i] = x}
<1>1. I \in SUBSET Nat /\ I # {}
  BY DEF ToSet
<1>2. PICK m \in I : \A i \in I : m <= i
  <2> HIDE DEF I
  <2> QED
    BY <1>1, LeastOf
<1>3. m \in DOMAIN s /\ s[m] = x
  OBVIOUS
<1>4. ASSUME NEW j \in 1 .. m - 1
      PROVE  s[j] # x
  <2>1. j \in 1 .. n /\ ~ (m <= j)
    BY <1>1, <1>2
  <2> QED
    BY <1>2, <2>1
<1>5. \E i \in DOMAIN s : s[i] = x /\ \A j \in 1 .. i - 1 : s[j] # x
  BY <1>3, <1>4
<1>6. Position(s, x) \in DOMAIN s /\ s[Position(s, x)] = x
  BY <1>5 DEF Position
<1> QED
  BY <1>6

-----------------------------------------------------------------------------
(* f lists every element of S once.                                        *)
Enumeration(S) ==
  {f \in [1 .. Cardinality(S) -> S] :
     /\ \A i, j \in 1 .. Cardinality(S) : f[i] = f[j] => i = j
     /\ \A x \in S : \E i \in 1 .. Cardinality(S) : f[i] = x}

(* Elements that are numbered differently are listed by their numbers.     *)
LEMMA ListedByNumber ==
  ASSUME NEW S, IsFiniteSet(S),
         NEW r \in [S -> 1 .. Cardinality(S)], \A x, y \in S : r[x] = r[y] => x = y
  PROVE  [i \in 1 .. Cardinality(S) |-> CHOOSE x \in S : r[x] = i] \in Enumeration(S)
<1> DEFINE n == Cardinality(S)
           at(i) == CHOOSE x \in S : r[x] = i
           f == [i \in 1 .. n |-> at(i)]
<1>1. n \in Nat
  BY FS_CardinalityType
<1>2. IsFiniteSet(1 .. n) /\ Cardinality(1 .. n) = n
  BY <1>1, FS_Interval
<1>3. r \in Injection(S, 1 .. n)
  BY DEF Injection, IsInjective
<1>4. r \in Surjection(S, 1 .. n)
  <2> HIDE DEF n
  <2> QED
    BY <1>2, <1>3, FS_Injection DEF n
<1>5. \A i \in 1 .. n : at(i) \in S /\ r[at(i)] = i
  BY <1>4 DEF Surjection
<1>6. \A x \in S : r[x] \in 1 .. n /\ at(r[x]) = x
  OBVIOUS
<1> HIDE DEF at
<1>7. f \in [1 .. n -> S]
  BY <1>5
<1>8. \A i, j \in 1 .. n : f[i] = f[j] => i = j
  BY <1>5
<1>9. \A x \in S : \E i \in 1 .. n : f[i] = x
  BY <1>6
<1>10. f \in Enumeration(S)
  BY <1>7, <1>8, <1>9 DEF Enumeration
<1> QED
  BY <1>10 DEF at

(* Different integers order a finite set.                                  *)
LEMMA ListedByKey ==
  ASSUME NEW S, IsFiniteSet(S), NEW key \in [S -> Int], \A x, y \in S : key[x] = key[y] => x = y
  PROVE  [i \in 1 .. Cardinality(S) |->
            CHOOSE x \in S : Cardinality({y \in S : key[y] < key[x]}) = i - 1] \in Enumeration(S)
<1> DEFINE n == Cardinality(S)
           below(x) == {y \in S : key[y] < key[x]}
           r == [x \in S |-> Cardinality(below(x)) + 1]
<1>1. n \in Nat
  BY FS_CardinalityType
<1>2. ASSUME NEW x \in S
      PROVE  /\ IsFiniteSet(below(x)) /\ Cardinality(below(x)) \in Nat
             /\ Cardinality(below(x)) < n
  <2>1. below(x) \in SUBSET S /\ x \notin below(x)
    OBVIOUS
  <2> HIDE DEF below
  <2>2. IsFiniteSet(below(x)) /\ Cardinality(below(x)) <= n /\ (n = Cardinality(below(x)) => S = below(x))
    BY <2>1, FS_Subset
  <2>3. Cardinality(below(x)) \in Nat
    BY <2>2, FS_CardinalityType
  <2> QED
    BY <1>1, <2>1, <2>2, <2>3
<1>3. ASSUME NEW x \in S, NEW y \in S, key[x] < key[y]
      PROVE  Cardinality(below(x)) < Cardinality(below(y))
  <2>1. below(x) \in SUBSET below(y) /\ x \in below(y) /\ x \notin below(x)
    BY <1>3
  <2> HIDE DEF below
  <2>2. Cardinality(below(x)) <= Cardinality(below(y))
        /\ (Cardinality(below(y)) = Cardinality(below(x)) => below(y) = below(x))
    BY <1>2, <2>1, FS_Subset
  <2> QED
    BY <1>2, <2>1, <2>2
<1> HIDE DEF below
<1>4. ASSUME NEW x \in S, NEW y \in S, Cardinality(below(x)) = Cardinality(below(y))
      PROVE  x = y
  <2>1. ~ (key[x] < key[y]) /\ ~ (key[y] < key[x])
    BY <1>2, <1>3, <1>4
  <2> QED
    BY <2>1
<1>5. r \in [S -> 1 .. n]
  BY <1>1, <1>2
<1>6. \A x, y \in S : r[x] = r[y] => x = y
  BY <1>2, <1>4
<1> HIDE DEF n
<1>7. \A x \in S : \A i \in 1 .. n : (r[x] = i) <=> (Cardinality(below(x)) = i - 1)
  BY <1>2
<1> DEFINE numbered(i) == CHOOSE x \in S : r[x] = i
           ranked(i) == CHOOSE x \in S : Cardinality(below(x)) = i - 1
<1>8. [i \in 1 .. n |-> numbered(i)] \in Enumeration(S)
  <2> HIDE DEF r
  <2> QED
    BY <1>5, <1>6, ListedByNumber DEF n
<1>9. \A i \in 1 .. n : numbered(i) = ranked(i)
  <2> HIDE DEF r
  <2> QED
    BY <1>7
<1>10. [i \in 1 .. n |-> ranked(i)] \in Enumeration(S)
  <2> HIDE DEF numbered, ranked
  <2> QED
    BY <1>8, <1>9
<1> QED
  BY <1>10 DEF n, below

LEMMA OrderedByEnumerates ==
  ASSUME NEW n \in Nat, NEW s, DOMAIN s = 1 .. n, NEW S, IsFiniteSet(S), S \subseteq ToSet(s)
  PROVE  OrderedBy(S, s) \in Enumeration(S)
<1> DEFINE key == [x \in S |-> Position(s, x)]
<1>1. \A x \in S : Position(s, x) \in Int /\ s[Position(s, x)] = x
  BY PositionExists
<1>2. key \in [S -> Int] /\ \A x, y \in S : key[x] = key[y] => x = y
  BY <1>1
<1>3. \A x \in S : key[x] = Position(s, x)
  OBVIOUS
<1> HIDE DEF key
<1> DEFINE byKey(i) == CHOOSE x \in S : Cardinality({y \in S : key[y] < key[x]}) = i - 1
           byPosition(i) ==
             CHOOSE x \in S : Cardinality({y \in S : Position(s, y) < Position(s, x)}) = i - 1
<1>4. [i \in 1 .. Cardinality(S) |-> byKey(i)] \in Enumeration(S)
  BY <1>2, ListedByKey
<1>5. \A x \in S : {y \in S : key[y] < key[x]} = {y \in S : Position(s, y) < Position(s, x)}
  BY <1>3
<1>6. \A i \in 1 .. Cardinality(S) : byKey(i) = byPosition(i)
  BY <1>5
<1>7. [i \in 1 .. Cardinality(S) |-> byPosition(i)] \in Enumeration(S)
  <2> HIDE DEF byKey, byPosition
  <2> QED
    BY <1>4, <1>6
<1> QED
  BY <1>7 DEF OrderedBy

(* What an enumeration is used for.                                        *)
LEMMA EnumerationFacts ==
  ASSUME NEW S, IsFiniteSet(S), NEW f \in Enumeration(S)
  PROVE  /\ Cardinality(S) \in Nat
         /\ f \in Seq(S) /\ Len(f) = Cardinality(S) /\ DOMAIN f = 1 .. Cardinality(S)
         /\ ToSet(f) = S
         /\ \A i, j \in DOMAIN f : f[i] = f[j] => i = j
<1>1. Cardinality(S) \in Nat
  BY FS_CardinalityType
<1>2. f \in [1 .. Cardinality(S) -> S]
  BY DEF Enumeration
<1>3. f \in Seq(S) /\ Len(f) = Cardinality(S)
  BY <1>1, <1>2
<1>4. ToSet(f) = S
  BY <1>2 DEF ToSet, Enumeration
<1> QED
  BY <1>1, <1>2, <1>3, <1>4 DEF Enumeration

-----------------------------------------------------------------------------
(* The arrays of a program.                                                *)
LEMMA ArrayFacts ==
  /\ \A r \in Registers : Array[r] \in Seq(Qubits) /\ Len(Array[r]) \in Nat
                          /\ DOMAIN Array[r] = 1 .. Len(Array[r]) /\ ToSet(Array[r]) \subseteq Qubits
  /\ \A q \in Qubits : RegisterOf(q) \in Registers /\ q \in ToSet(Array[RegisterOf(q)])
  /\ \A r \in Registers : \A q \in ToSet(Array[r]) : q \in Qubits /\ RegisterOf(q) = r
<1>1. \A r \in Registers : Array[r] \in Seq(Qubits)
  BY ArraysPartitionQubits
<1>2. \A r \in Registers : Len(Array[r]) \in Nat /\ DOMAIN Array[r] = 1 .. Len(Array[r])
                           /\ \A i \in 1 .. Len(Array[r]) : Array[r][i] \in Qubits
  BY <1>1
<1>3. \A r \in Registers : ToSet(Array[r]) \subseteq Qubits
  BY <1>2 DEF ToSet
<1>4. \A q \in Qubits : \E r \in Registers : q \in ToSet(Array[r])
  <2> SUFFICES ASSUME NEW q \in Qubits
               PROVE  \E r \in Registers : q \in ToSet(Array[r])
    OBVIOUS
  <2>1. PICK r \in Registers : \E i \in 1 .. Len(Array[r]) : Array[r][i] = q
    BY ArraysPartitionQubits
  <2>2. q \in ToSet(Array[r])
    BY <1>2, <2>1 DEF ToSet
  <2> QED
    BY <2>2
<1>5. \A q \in Qubits : RegisterOf(q) \in Registers /\ q \in ToSet(Array[RegisterOf(q)])
  BY <1>4 DEF RegisterOf
<1>6. ASSUME NEW r \in Registers, NEW s \in Registers, NEW q \in ToSet(Array[r]), q \in ToSet(Array[s])
      PROVE  r = s
  <2>1. PICK i \in 1 .. Len(Array[r]) : Array[r][i] = q
    BY <1>2 DEF ToSet
  <2>2. PICK j \in 1 .. Len(Array[s]) : Array[s][j] = q
    BY <1>2, <1>6 DEF ToSet
  <2>3. \A i1 \in 1 .. Len(Array[r]), j1 \in 1 .. Len(Array[s]) : Array[r][i1] = Array[s][j1] => r = s
    BY ArraysPartitionQubits
  <2> QED
    BY <2>1, <2>2, <2>3
<1>7. \A r \in Registers : \A q \in ToSet(Array[r]) : q \in Qubits /\ RegisterOf(q) = r
  BY <1>3, <1>5, <1>6
<1> QED
  BY <1>1, <1>2, <1>3, <1>5, <1>7

LEMMA ArrayIsInjective ==
  ASSUME NEW r \in Registers
  PROVE  /\ \A i, j \in DOMAIN Array[r] : Array[r][i] = Array[r][j] => i = j
         /\ IsFiniteSet(ToSet(Array[r])) /\ Cardinality(ToSet(Array[r])) = Len(Array[r])
<1> DEFINE n == Len(Array[r])
<1>1. n \in Nat /\ DOMAIN Array[r] = 1 .. n /\ Array[r] \in Seq(Qubits)
  BY ArrayFacts
<1>2. \A i, j \in 1 .. n : Array[r][i] = Array[r][j] => i = j
  BY ArraysPartitionQubits
<1>3. IsFiniteSet(1 .. n) /\ Cardinality(1 .. n) = n
  BY <1>1, FS_Interval
<1>4. Array[r] \in [1 .. n -> ToSet(Array[r])]
  BY <1>1 DEF ToSet
<1>5. Array[r] \in Surjection(1 .. n, ToSet(Array[r])) /\ Array[r] \in Injection(1 .. n, ToSet(Array[r]))
  BY <1>1, <1>2, <1>4 DEF Surjection, Injection, IsInjective, ToSet
<1> HIDE DEF n
<1>6. IsFiniteSet(ToSet(Array[r])) /\ Cardinality(ToSet(Array[r])) = Cardinality(1 .. n)
  BY <1>3, <1>5, FS_Surjection
<1> QED
  BY <1>1, <1>2, <1>3, <1>6 DEF n

(* There are finitely many qubits: a program is finite.                    *)
LEMMA QubitsAreFinite == IsFiniteSet(Registers) /\ IsFiniteSet(Qubits)
<1> DEFINE n == Len(KeyOrder)
           arrays == {ToSet(Array[r]) : r \in Registers}
           f == [r \in Registers |-> ToSet(Array[r])]
<1>1. n \in Nat /\ KeyOrder \in [1 .. n -> Registers]
  BY ArraysPartitionQubits
<1>2. KeyOrder \in Surjection(1 .. n, Registers)
  BY <1>1, ArraysPartitionQubits DEF Surjection
<1>3. IsFiniteSet(1 .. n)
  BY <1>1, FS_Interval
<1> HIDE DEF n
<1>4. IsFiniteSet(Registers)
  BY <1>2, <1>3, FS_Surjection
<1>5. f \in Surjection(Registers, arrays)
  BY DEF Surjection
<1>6. \A T \in arrays : IsFiniteSet(T)
  BY ArrayIsInjective
<1>7. Qubits = UNION arrays
  BY ArrayFacts
<1> HIDE DEF f, arrays
<1>8. IsFiniteSet(arrays)
  BY <1>4, <1>5, FS_Surjection
<1>9. IsFiniteSet(UNION arrays)
  BY <1>6, <1>8, FS_UNION
<1> QED
  BY <1>4, <1>7, <1>9

LEMMA QubitSetsAreFinite ==
  \A S \in SUBSET Qubits : IsFiniteSet(S) /\ Cardinality(S) \in Nat
  BY QubitsAreFinite, FS_Subset, FS_CardinalityType

LEMMA ArrayQubitsFacts ==
  ASSUME NEW arrays, ToSet(arrays) \subseteq Registers
  PROVE  /\ ArrayQubits(arrays) \in SUBSET Qubits
         /\ \A q \in Qubits : q \in ArrayQubits(arrays) <=> RegisterOf(q) \in ToSet(arrays)
  BY ArrayFacts DEF ArrayQubits

(* The ids of an array follow those of the arrays before it, and each is   *)
(* the id of one qubit.                                                    *)
LEMMA IdsEnumerate ==
  ASSUME NEW arrays \in Seq(Registers), IsInjective(arrays)
  PROVE  Ids(arrays) \in Enumeration(ArrayQubits(arrays))
<1> DEFINE n == Len(arrays)
           Q == ArrayQubits(arrays)
           Upto(i) == ArrayQubits(SubSeq(arrays, 1, i))
           pos(q) == Position(arrays, RegisterOf(q))
           at(q) == Position(Array[RegisterOf(q)], q)
<1>1. n \in Nat /\ DOMAIN arrays = 1 .. n /\ \A i \in 1 .. n : arrays[i] \in Registers
  OBVIOUS
<1>2. ToSet(arrays) \subseteq Registers
  BY <1>1 DEF ToSet
<1>3. \A i \in 0 .. n : ToSet(SubSeq(arrays, 1, i)) = {arrays[j] : j \in 1 .. i}
  <2> SUFFICES ASSUME NEW i \in 0 .. n
               PROVE  ToSet(SubSeq(arrays, 1, i)) = {arrays[j] : j \in 1 .. i}
    OBVIOUS
  <2>1. \A j \in 1 .. i : arrays[j] \in Registers
    BY <1>1
  <2>2. /\ SubSeq(arrays, 1, i) \in Seq(Registers)
        /\ Len(SubSeq(arrays, 1, i)) = IF 1 <= i THEN i - 1 + 1 ELSE 0
        /\ \A j \in 1 .. i - 1 + 1 : SubSeq(arrays, 1, i)[j] = arrays[1 + j - 1]
    BY <1>1, <2>1, SubSeqProperties
  <2>3. Len(SubSeq(arrays, 1, i)) = i /\ \A j \in 1 .. i : SubSeq(arrays, 1, i)[j] = arrays[j]
    BY <1>1, <2>2
  <2>4. DOMAIN SubSeq(arrays, 1, i) = 1 .. i
    BY <2>2, <2>3
  <2> QED
    BY <2>3, <2>4 DEF ToSet
<1>4. \A i \in 0 .. n : \A q : q \in Upto(i) <=> \E j \in 1 .. i : q \in ToSet(Array[arrays[j]])
  BY <1>3 DEF ArrayQubits
<1>5. \A i \in 0 .. n : Upto(i) \in SUBSET Qubits
  BY <1>1, <1>4, ArrayFacts
<1>6. Upto(n) = Q
  <2>1. n \in 0 .. n
    BY <1>1
  <2>2. ToSet(SubSeq(arrays, 1, n)) = ToSet(arrays)
    BY <1>1, <1>3, <2>1 DEF ToSet
  <2> QED
    BY <2>2 DEF ArrayQubits
<1> HIDE DEF Upto
<1>7. \A i \in 0 .. n : IsFiniteSet(Upto(i)) /\ Cardinality(Upto(i)) \in Nat
  BY <1>5, QubitSetsAreFinite
<1>8. \A i, j \in 0 .. n : i <= j => Cardinality(Upto(i)) <= Cardinality(Upto(j))
  <2> SUFFICES ASSUME NEW i \in 0 .. n, NEW j \in 0 .. n, i <= j
               PROVE  Cardinality(Upto(i)) <= Cardinality(Upto(j))
    OBVIOUS
  <2>1. \A g \in 1 .. i : g \in 1 .. j
    OBVIOUS
  <2>2. Upto(i) \in SUBSET Upto(j)
    BY <1>4, <2>1
  <2> QED
    BY <1>7, <2>2, FS_Subset
<1>9. \A i \in 1 .. n : Cardinality(Upto(i)) = Cardinality(Upto(i - 1)) + Len(Array[arrays[i]])
  <2> SUFFICES ASSUME NEW i \in 1 .. n
               PROVE  Cardinality(Upto(i)) = Cardinality(Upto(i - 1)) + Len(Array[arrays[i]])
    OBVIOUS
  <2> DEFINE A == ToSet(Array[arrays[i]])
  <2>1. i - 1 \in 0 .. n /\ i \in 0 .. n
    BY <1>1
  <2>2. \A j : j \in 1 .. i <=> (j \in 1 .. i - 1 \/ j = i)
    BY <1>1
  <2>3. Upto(i) = Upto(i - 1) \cup A
    BY <1>4, <2>1, <2>2
  <2>4. Upto(i - 1) \cap A = {}
    <3> SUFFICES ASSUME NEW q \in A, NEW j \in 1 .. i - 1, q \in ToSet(Array[arrays[j]])
                 PROVE  FALSE
      BY <1>4, <2>1
    <3>1. j \in 1 .. n /\ j # i
      BY <1>1
    <3>2. RegisterOf(q) = arrays[i] /\ RegisterOf(q) = arrays[j]
      BY <1>1, <3>1, ArrayFacts
    <3> QED
      BY <1>1, <3>1, <3>2 DEF IsInjective
  <2>5. IsFiniteSet(A) /\ Cardinality(A) = Len(Array[arrays[i]]) /\ Len(Array[arrays[i]]) \in Nat
    BY <1>1, ArrayIsInjective, ArrayFacts
  <2> HIDE DEF A
  <2>6. Cardinality(Upto(i - 1) \cup A) = Cardinality(Upto(i - 1)) + Cardinality(A) - Cardinality(Upto(i - 1) \cap A)
    BY <1>7, <2>1, <2>5, FS_Union
  <2>7. Cardinality(Upto(i - 1)) \in Nat /\ Cardinality({}) = 0
    BY <1>7, <2>1, FS_EmptySet
  <2>8. Cardinality(Upto(i - 1)) + Cardinality(A) - 0 = Cardinality(Upto(i - 1)) + Len(Array[arrays[i]])
    BY <2>5, <2>7
  <2> QED
    BY <2>3, <2>4, <2>6, <2>7, <2>8
<1>10. \A q \in Q : q \in Qubits /\ RegisterOf(q) \in ToSet(arrays) /\ RegisterOf(q) \in Registers
  BY <1>2, ArrayQubitsFacts, ArrayFacts
<1>11. \A q \in Q : pos(q) \in 1 .. n /\ arrays[pos(q)] = RegisterOf(q)
  <2> SUFFICES ASSUME NEW q \in Q
               PROVE  pos(q) \in 1 .. n /\ arrays[pos(q)] = RegisterOf(q)
    OBVIOUS
  <2> QED
    BY <1>1, <1>10, PositionExists
<1>12. \A q \in Q : at(q) \in 1 .. Len(Array[RegisterOf(q)]) /\ Array[RegisterOf(q)][at(q)] = q
  <2> SUFFICES ASSUME NEW q \in Q
               PROVE  at(q) \in 1 .. Len(Array[RegisterOf(q)]) /\ Array[RegisterOf(q)][at(q)] = q
    OBVIOUS
  <2>1. Len(Array[RegisterOf(q)]) \in Nat /\ DOMAIN Array[RegisterOf(q)] = 1 .. Len(Array[RegisterOf(q)])
        /\ q \in ToSet(Array[RegisterOf(q)])
    BY <1>10, ArrayFacts
  <2> QED
    BY <2>1, PositionExists
<1>13. \A q \in Q : IdOf(arrays, q) = Cardinality(Upto(pos(q) - 1)) + at(q)
  BY DEF IdOf, Upto
<1> HIDE DEF pos, at
<1>14. ASSUME NEW q \in Q
       PROVE  /\ IdOf(arrays, q) \in Int /\ Cardinality(Upto(pos(q) - 1)) < IdOf(arrays, q)
              /\ IdOf(arrays, q) <= Cardinality(Upto(pos(q)))
  <2>1. pos(q) \in 1 .. n /\ pos(q) - 1 \in 0 .. n /\ pos(q) \in 0 .. n
    BY <1>1, <1>11
  <2>2. Cardinality(Upto(pos(q))) = Cardinality(Upto(pos(q) - 1)) + Len(Array[RegisterOf(q)])
    BY <1>9, <1>11
  <2>3. Cardinality(Upto(pos(q) - 1)) \in Nat /\ Len(Array[RegisterOf(q)]) \in Nat
    BY <1>7, <1>10, <2>1, ArrayFacts
  <2> QED
    BY <1>12, <1>13, <2>2, <2>3
<1>15. ASSUME NEW p \in Q, NEW q \in Q, pos(p) < pos(q)
       PROVE  IdOf(arrays, p) < IdOf(arrays, q)
  <2>1. pos(p) \in 0 .. n /\ pos(q) - 1 \in 0 .. n /\ pos(p) <= pos(q) - 1
    BY <1>1, <1>11, <1>15
  <2>2. Cardinality(Upto(pos(p))) <= Cardinality(Upto(pos(q) - 1))
        /\ Cardinality(Upto(pos(p))) \in Nat /\ Cardinality(Upto(pos(q) - 1)) \in Nat
    BY <1>7, <1>8, <2>1
  <2> QED
    BY <1>14, <2>2
<1>16. ASSUME NEW p \in Q, NEW q \in Q, IdOf(arrays, p) = IdOf(arrays, q)
       PROVE  p = q
  <2>1. ~ (pos(p) < pos(q)) /\ ~ (pos(q) < pos(p))
    BY <1>14, <1>15, <1>16
  <2>2. pos(p) = pos(q)
    BY <1>11, <2>1
  <2>3. RegisterOf(p) = RegisterOf(q)
    BY <1>11, <2>2
  <2>4. pos(p) - 1 \in 0 .. n
    BY <1>1, <1>11
  <2>5. Cardinality(Upto(pos(p) - 1)) \in Nat /\ at(p) \in Int /\ at(q) \in Int
    BY <1>7, <1>12, <2>4
  <2>6. at(p) = at(q)
    BY <1>13, <1>16, <2>2, <2>5
  <2> QED
    BY <1>12, <2>3, <2>6
<1>17. \A q \in Q : IdOf(arrays, q) \in 1 .. Cardinality(Q)
  <2> SUFFICES ASSUME NEW q \in Q
               PROVE  IdOf(arrays, q) \in 1 .. Cardinality(Q)
    OBVIOUS
  <2>1. pos(q) \in 0 .. n /\ pos(q) - 1 \in 0 .. n /\ pos(q) <= n /\ n \in 0 .. n
    BY <1>1, <1>11
  <2>2. Cardinality(Upto(pos(q))) <= Cardinality(Q) /\ Cardinality(Upto(pos(q))) \in Nat
        /\ Cardinality(Upto(pos(q) - 1)) \in Nat /\ Cardinality(Q) \in Nat
    BY <1>6, <1>7, <1>8, <2>1
  <2> QED
    BY <1>14, <2>2
<1>18. IsFiniteSet(Q)
  BY <1>1, <1>6, <1>7
<1> DEFINE r == [q \in Q |-> IdOf(arrays, q)]
           qubit(id) == CHOOSE q \in Q : IdOf(arrays, q) = id
           numbered(id) == CHOOSE q \in Q : r[q] = id
<1>19. r \in [Q -> 1 .. Cardinality(Q)] /\ \A p, q \in Q : r[p] = r[q] => p = q
  BY <1>16, <1>17
<1>20. \A q \in Q : r[q] = IdOf(arrays, q)
  OBVIOUS
<1> HIDE DEF r, Q
<1>21. [id \in 1 .. Cardinality(Q) |-> numbered(id)] \in Enumeration(Q)
  BY <1>18, <1>19, ListedByNumber
<1>22. \A id \in 1 .. Cardinality(Q) : numbered(id) = qubit(id)
  BY <1>20
<1>23. [id \in 1 .. Cardinality(Q) |-> qubit(id)] \in Enumeration(Q)
  <2> HIDE DEF numbered, qubit
  <2> QED
    BY <1>21, <1>22
<1> QED
  BY <1>23 DEF Ids, Q

-----------------------------------------------------------------------------
(* Maps of the pass: every known qubit is in a registered array.           *)
WellFormed(m) ==
  /\ m \in QubitMap(PlatformQubits)
  /\ IsInjective(m.order)
  /\ \A q \in Qubits : m.prog[q] # Excluded => RegisterOf(q) \in ToSet(m.order)

Unset(m) == {q \in Qubits : m.prog[q] = Virtual}
VacantSet(m) == {x \in PlatformQubits : m.phys[x] = Free}

(* A placement method only places qubits that have no place yet.           *)
PlacesMore(m, n) ==
  /\ WellFormed(n) /\ n.order = m.order
  /\ isConsistent(m) => isConsistent(n)
  /\ \A q \in Qubits : n.prog[q] = m.prog[q] \/ (m.prog[q] = Virtual /\ n.prog[q] \in PlatformQubits)

LEMMA PlatformFacts ==
  /\ NumPlatformQubits \in Nat \ {0}
  /\ IsFiniteSet(PlatformQubits) /\ Cardinality(PlatformQubits) = NumPlatformQubits
  /\ PlatformQubits \cap Unplaced = {} /\ 0 \in PlatformQubits
<1>1. NumPlatformQubits \in Nat \ {0}
  BY PlacementInputs
<1>2. IsFiniteSet(0 .. NumPlatformQubits - 1)
      /\ Cardinality(0 .. NumPlatformQubits - 1) =
           IF 0 > NumPlatformQubits - 1 THEN 0 ELSE NumPlatformQubits - 1 - 0 + 1
  BY <1>1, FS_Interval
<1>3. PlatformQubits \cap Unplaced = {} /\ 0 \in PlatformQubits
  BY <1>1, ConventionalValues DEF PlatformQubits, Unplaced
<1> QED
  BY <1>1, <1>2, <1>3 DEF PlatformQubits

LEMMA WellFormedFacts ==
  ASSUME NEW m, WellFormed(m)
  PROVE  /\ m = [order |-> m.order, prog |-> m.prog, phys |-> m.phys]
         /\ m.order \in Seq(Registers) /\ ToSet(m.order) \subseteq Registers
         /\ m.prog \in [Qubits -> PlatformQubits \cup Unplaced]
         /\ m.phys \in [PlatformQubits -> Qubits \cup {Free}] /\ DOMAIN m.phys = PlatformQubits
         /\ getNumPhysQubits(m) = NumPlatformQubits
         /\ Ids(m.order) \in Enumeration(ArrayQubits(m.order))
         /\ ArrayQubits(m.order) \in SUBSET Qubits
         /\ \A q \in Qubits : q \in ArrayQubits(m.order) <=> RegisterOf(q) \in ToSet(m.order)
         /\ KnownQubits(m) \in SUBSET ArrayQubits(m.order)
<1>1. /\ m = [order |-> m.order, prog |-> m.prog, phys |-> m.phys]
      /\ m.order \in Seq(Registers)
      /\ m.prog \in [Qubits -> PlatformQubits \cup Unplaced]
      /\ m.phys \in [PlatformQubits -> Qubits \cup {Free}]
  BY DEF WellFormed, QubitMap
<1>2. ToSet(m.order) \subseteq Registers
  BY <1>1 DEF ToSet
<1>3. getNumPhysQubits(m) = NumPlatformQubits
  BY <1>1, PlatformFacts DEF getNumPhysQubits
<1>4. Ids(m.order) \in Enumeration(ArrayQubits(m.order))
  BY <1>1, IdsEnumerate DEF WellFormed
<1>5. /\ ArrayQubits(m.order) \in SUBSET Qubits
      /\ \A q \in Qubits : q \in ArrayQubits(m.order) <=> RegisterOf(q) \in ToSet(m.order)
  BY <1>2, ArrayQubitsFacts
<1>6. KnownQubits(m) \in SUBSET ArrayQubits(m.order)
  BY <1>5 DEF WellFormed, KnownQubits
<1> QED
  BY <1>1, <1>2, <1>3, <1>4, <1>5, <1>6

(* Pairs of qubits without a place and of physical qubits that are free,   *)
(* none in two pairs.                                                      *)
Fitting(m, pairs) ==
  /\ \A a \in pairs : a[1] \in Unset(m) /\ a[2] \in VacantSet(m)
  /\ \A a, b \in pairs : a[1] = b[1] => a[2] = b[2]
  /\ \A a, b \in pairs : a[2] = b[2] => a[1] = b[1]

LEMMA AssignPlaces ==
  ASSUME NEW m, WellFormed(m), NEW pairs, Fitting(m, pairs)
  PROVE  /\ PlacesMore(m, Assign(m, pairs))
         /\ \A a \in pairs : Assign(m, pairs).prog[a[1]] = a[2]
         /\ \A q \in Qubits : (\A a \in pairs : a[1] # q) => Assign(m, pairs).prog[q] = m.prog[q]
<1> DEFINE n == Assign(m, pairs)
           ofProg(q) == (CHOOSE a \in pairs : a[1] = q)[2]
           ofPhys(x) == (CHOOSE a \in pairs : a[2] = x)[1]
<1>1. /\ m = [order |-> m.order, prog |-> m.prog, phys |-> m.phys]
      /\ m.prog \in [Qubits -> PlatformQubits \cup Unplaced]
      /\ m.phys \in [PlatformQubits -> Qubits \cup {Free}] /\ DOMAIN m.phys = PlatformQubits
  BY WellFormedFacts
<1>2. \A a \in pairs : /\ a[1] \in Qubits /\ m.prog[a[1]] = Virtual
                       /\ a[2] \in PlatformQubits /\ m.phys[a[2]] = Free
  BY DEF Fitting, Unset, VacantSet
<1>3. \A a \in pairs : ofProg(a[1]) = a[2]
  BY DEF Fitting
<1>4. \A a \in pairs : ofPhys(a[2]) = a[1]
  BY DEF Fitting
<1> DEFINE prog == [q \in Qubits |-> IF \E a \in pairs : a[1] = q THEN ofProg(q) ELSE m.prog[q]]
           phys == [x \in PlatformQubits |-> IF \E a \in pairs : a[2] = x THEN ofPhys(x) ELSE m.phys[x]]
<1>5. n.order = m.order /\ n.prog = prog /\ n.phys = phys
      /\ n = [order |-> n.order, prog |-> n.prog, phys |-> n.phys]
  <2>1. n = [m EXCEPT !.prog = prog,
                      !.phys = [x \in DOMAIN m.phys |-> IF \E a \in pairs : a[2] = x THEN ofPhys(x) ELSE m.phys[x]]]
    BY DEF Assign
  <2>2. n = [m EXCEPT !.prog = prog, !.phys = phys]
    BY <1>1, <2>1
  <2> HIDE DEF n, prog, phys
  <2> QED
    BY <1>1, <2>2
<1> HIDE DEF n, ofProg, ofPhys
<1>6. \A a \in pairs : n.prog[a[1]] = a[2] /\ n.phys[a[2]] = a[1]
  BY <1>2, <1>3, <1>4, <1>5
<1>7. \A q \in Qubits : (\A a \in pairs : a[1] # q) => n.prog[q] = m.prog[q]
  BY <1>5
<1>8. \A x \in PlatformQubits : (\A a \in pairs : a[2] # x) => n.phys[x] = m.phys[x]
  BY <1>5
<1>9. \A q \in Qubits : n.prog[q] = m.prog[q] \/ (m.prog[q] = Virtual /\ n.prog[q] \in PlatformQubits)
  <2> SUFFICES ASSUME NEW q \in Qubits
               PROVE  n.prog[q] = m.prog[q] \/ (m.prog[q] = Virtual /\ n.prog[q] \in PlatformQubits)
    OBVIOUS
  <2>1. CASE \A a \in pairs : a[1] # q
    BY <1>7, <2>1
  <2>2. CASE \E a \in pairs : a[1] = q
    <3>1. PICK a \in pairs : a[1] = q
      BY <2>2
    <3> QED
      BY <1>2, <1>6, <3>1
  <2> QED
    BY <2>1, <2>2
<1>10. n \in QubitMap(PlatformQubits)
  <2>1. \A q \in Qubits : n.prog[q] \in PlatformQubits \cup Unplaced
    BY <1>1, <1>9
  <2>2. \A x \in PlatformQubits : n.phys[x] \in Qubits \cup {Free}
    BY <1>1, <1>2, <1>6, <1>8
  <2>3. n.prog \in [Qubits -> PlatformQubits \cup Unplaced] /\ n.phys \in [PlatformQubits -> Qubits \cup {Free}]
    BY <1>5, <2>1, <2>2
  <2> QED
    BY <1>5, <2>3, WellFormedFacts DEF QubitMap
<1>11. WellFormed(n)
  <2>1. \A q \in Qubits : n.prog[q] # Excluded => m.prog[q] # Excluded
    BY <1>9, ConventionalValues
  <2> QED
    BY <1>5, <1>10, <2>1 DEF WellFormed
<1>12. ASSUME isConsistent(m)
       PROVE  isConsistent(n)
  <2>1. \A q \in Qubits : m.prog[q] \notin Unplaced => m.prog[q] \in PlatformQubits /\ m.phys[m.prog[q]] = q
    BY <1>1, <1>12 DEF isConsistent
  <2>2. \A x \in PlatformQubits : m.phys[x] # Free => m.prog[m.phys[x]] = x /\ m.phys[x] \in Qubits
    BY <1>1, <1>12 DEF isConsistent
  <2>3. ASSUME NEW q \in Qubits, n.prog[q] \notin Unplaced
        PROVE  n.prog[q] \in PlatformQubits /\ n.phys[n.prog[q]] = q
    <3>1. CASE \E a \in pairs : a[1] = q
      BY <1>2, <1>6, <3>1
    <3>2. CASE \A a \in pairs : a[1] # q
      <4>1. n.prog[q] = m.prog[q]
        BY <1>7, <3>2
      <4>2. m.prog[q] \in PlatformQubits /\ m.phys[m.prog[q]] = q
        BY <2>1, <2>3, <4>1
      <4>3. \A a \in pairs : a[2] # m.prog[q]
        BY <1>2, <4>2, ConventionalValues
      <4> QED
        BY <1>8, <4>1, <4>2, <4>3
    <3> QED
      BY <3>1, <3>2
  <2>4. ASSUME NEW x \in PlatformQubits, n.phys[x] # Free
        PROVE  n.prog[n.phys[x]] = x
    <3>1. CASE \E a \in pairs : a[2] = x
      BY <1>6, <3>1
    <3>2. CASE \A a \in pairs : a[2] # x
      <4>1. n.phys[x] = m.phys[x]
        BY <1>8, <3>2
      <4>2. m.prog[m.phys[x]] = x /\ m.phys[x] \in Qubits
        BY <2>2, <2>4, <4>1
      <4>3. \A a \in pairs : a[1] # m.phys[x]
        BY <1>2, <4>2, PlatformFacts DEF Unplaced
      <4> QED
        BY <1>7, <4>1, <4>2, <4>3
    <3> QED
      BY <3>1, <3>2
  <2>5. DOMAIN n.phys = PlatformQubits
    BY <1>5
  <2> QED
    BY <2>3, <2>4, <2>5 DEF isConsistent
<1>13. PlacesMore(m, n)
  BY <1>5, <1>9, <1>11, <1>12 DEF PlacesMore
<1> QED
  BY <1>6, <1>7, <1>13 DEF n

-----------------------------------------------------------------------------
(* Qubits in the order of their ids go to physical qubits in ascending     *)
(* order.                                                                  *)
LEMMA VirtualQubitsFacts ==
  ASSUME NEW m, WellFormed(m)
  PROVE  VirtualQubits(m) \in Enumeration(Unset(m)) /\ IsFiniteSet(Unset(m))
<1> DEFINE ids == Ids(m.order)
           Q == ArrayQubits(m.order)
<1>1. Q \in SUBSET Qubits /\ ids \in Enumeration(Q) /\ KnownQubits(m) \in SUBSET Q
  BY WellFormedFacts
<1>2. IsFiniteSet(Q)
  BY <1>1, QubitSetsAreFinite
<1> HIDE DEF ids, Q
<1>3. Cardinality(Q) \in Nat /\ DOMAIN ids = 1 .. Cardinality(Q) /\ ToSet(ids) = Q
  BY <1>1, <1>2, EnumerationFacts
<1>4. Unset(m) \subseteq ToSet(ids) /\ Unset(m) \in SUBSET Qubits
  BY <1>1, <1>3, ConventionalValues DEF Unset, KnownQubits
<1>5. IsFiniteSet(Unset(m))
  BY <1>4, QubitSetsAreFinite
<1>6. OrderedBy(Unset(m), ids) \in Enumeration(Unset(m))
  BY <1>3, <1>4, <1>5, OrderedByEnumerates
<1> QED
  BY <1>5, <1>6 DEF VirtualQubits, Unset, ids

LEMMA AscendingPhysFacts ==
  ASSUME NEW m, WellFormed(m), NEW S \in SUBSET PlatformQubits
  PROVE  AscendingPhys(m, S) \in Enumeration(S) /\ IsFiniteSet(S)
<1> DEFINE s == [i \in 1 .. NumPlatformQubits |-> i - 1]
<1>1. NumPlatformQubits \in Nat /\ IsFiniteSet(S)
  BY PlatformFacts, FS_Subset
<1>2. DOMAIN s = 1 .. NumPlatformQubits
  OBVIOUS
<1>3. S \subseteq ToSet(s)
  <2> SUFFICES ASSUME NEW x \in S
               PROVE  x \in ToSet(s)
    OBVIOUS
  <2>1. x + 1 \in 1 .. NumPlatformQubits /\ (x + 1) - 1 = x
    BY <1>1 DEF PlatformQubits
  <2>2. s[x + 1] = x
    BY <2>1
  <2> QED
    BY <1>2, <2>1, <2>2 DEF ToSet
<1> HIDE DEF s
<1>4. OrderedBy(S, s) \in Enumeration(S)
  BY <1>1, <1>2, <1>3, OrderedByEnumerates
<1> QED
  BY <1>1, <1>4, WellFormedFacts DEF AscendingPhys, s

LEMMA PairedFits ==
  ASSUME NEW m, WellFormed(m), NEW S \in SUBSET VacantSet(m)
  PROVE  LET pairs == Paired(VirtualQubits(m), AscendingPhys(m, S)) IN
         /\ Fitting(m, pairs)
         /\ Cardinality(Unset(m)) <= Cardinality(S) =>
              \A q \in Unset(m) : \E a \in pairs : a[1] = q
<1> DEFINE qs == VirtualQubits(m)
           xs == AscendingPhys(m, S)
           U == Unset(m)
<1>1. S \in SUBSET PlatformQubits
  BY DEF VacantSet
<1>2. qs \in Enumeration(U) /\ IsFiniteSet(U) /\ xs \in Enumeration(S) /\ IsFiniteSet(S)
  BY <1>1, VirtualQubitsFacts, AscendingPhysFacts
<1> HIDE DEF qs, xs, U
<1>3. /\ Cardinality(U) \in Nat /\ DOMAIN qs = 1 .. Cardinality(U) /\ ToSet(qs) = U
      /\ \A i, j \in DOMAIN qs : qs[i] = qs[j] => i = j
  BY <1>2, EnumerationFacts
<1>4. /\ Cardinality(S) \in Nat /\ DOMAIN xs = 1 .. Cardinality(S) /\ ToSet(xs) = S
      /\ \A i, j \in DOMAIN xs : xs[i] = xs[j] => i = j
  BY <1>2, EnumerationFacts
<1>5. \A a \in Paired(qs, xs) : \E i \in DOMAIN qs \cap DOMAIN xs : a = <<qs[i], xs[i]>>
  BY DEF Paired
<1>6. \A i \in DOMAIN qs \cap DOMAIN xs : qs[i] \in U /\ xs[i] \in S
  BY <1>3, <1>4 DEF ToSet
<1>7. Fitting(m, Paired(qs, xs))
  <2>1. \A a \in Paired(qs, xs) : a[1] \in U /\ a[2] \in VacantSet(m)
    BY <1>5, <1>6
  <2>2. \A a, b \in Paired(qs, xs) : a[1] = b[1] => a[2] = b[2]
    BY <1>3, <1>5
  <2>3. \A a, b \in Paired(qs, xs) : a[2] = b[2] => a[1] = b[1]
    BY <1>4, <1>5
  <2> QED
    BY <2>1, <2>2, <2>3 DEF Fitting, U
<1>8. ASSUME Cardinality(U) <= Cardinality(S), NEW q \in U
      PROVE  \E a \in Paired(qs, xs) : a[1] = q
  <2>1. PICK i \in DOMAIN qs : qs[i] = q
    BY <1>3 DEF ToSet
  <2>2. i \in DOMAIN xs
    BY <1>3, <1>4, <1>8
  <2>3. <<qs[i], xs[i]>> \in Paired(qs, xs)
    BY <2>1, <2>2 DEF Paired
  <2> QED
    BY <2>1, <2>3
<1> QED
  BY <1>7, <1>8 DEF qs, xs, U

(* Qubits that are placed have been known, and are not forgotten.          *)
LEMMA PlacesMoreFacts ==
  ASSUME NEW m, WellFormed(m), NEW n, PlacesMore(m, n)
  PROVE  /\ KnownQubits(n) = KnownQubits(m)
         /\ Unset(n) \in SUBSET Unset(m)
         /\ \A q \in Qubits : m.prog[q] # Virtual => n.prog[q] = m.prog[q]
         /\ \A o : PlacesMore(n, o) => PlacesMore(m, o)
<1>1. \A q \in Qubits : n.prog[q] = m.prog[q] \/ (m.prog[q] = Virtual /\ n.prog[q] \in PlatformQubits)
  BY DEF PlacesMore
<1>2. Virtual \notin PlatformQubits /\ Excluded \notin PlatformQubits /\ Virtual # Excluded
  BY PlatformFacts, ConventionalValues DEF Unplaced
<1>3. KnownQubits(n) = KnownQubits(m)
  BY <1>1, <1>2 DEF KnownQubits
<1>4. Unset(n) \in SUBSET Unset(m)
  BY <1>1, <1>2 DEF Unset
<1>5. \A q \in Qubits : m.prog[q] # Virtual => n.prog[q] = m.prog[q]
  BY <1>1
<1>6. ASSUME NEW o, PlacesMore(n, o)
      PROVE  PlacesMore(m, o)
  <2>1. /\ WellFormed(o) /\ o.order = n.order /\ n.order = m.order
        /\ isConsistent(m) => isConsistent(n)
        /\ isConsistent(n) => isConsistent(o)
    BY <1>6 DEF PlacesMore
  <2>2. \A q \in Qubits : o.prog[q] = n.prog[q] \/ (n.prog[q] = Virtual /\ o.prog[q] \in PlatformQubits)
    BY <1>6 DEF PlacesMore
  <2>3. \A q \in Qubits : o.prog[q] = m.prog[q] \/ (m.prog[q] = Virtual /\ o.prog[q] \in PlatformQubits)
    BY <1>1, <1>2, <2>2
  <2> QED
    BY <2>1, <2>3 DEF PlacesMore
<1> QED
  BY <1>3, <1>4, <1>5, <1>6

LEMMA PairsPlace ==
  ASSUME NEW m, WellFormed(m), NEW S \in SUBSET VacantSet(m)
  PROVE  LET n == Assign(m, Paired(VirtualQubits(m), AscendingPhys(m, S))) IN
         /\ PlacesMore(m, n)
         /\ Cardinality(Unset(m)) <= Cardinality(S) => Unset(n) = {}
<1> DEFINE pairs == Paired(VirtualQubits(m), AscendingPhys(m, S))
           n == Assign(m, pairs)
<1>1. Fitting(m, pairs)
  BY PairedFits
<1>2. Cardinality(Unset(m)) <= Cardinality(S) => \A q \in Unset(m) : \E a \in pairs : a[1] = q
  BY PairedFits
<1> HIDE DEF pairs
<1>3. PlacesMore(m, n) /\ \A a \in pairs : n.prog[a[1]] = a[2]
  BY <1>1, AssignPlaces
<1> HIDE DEF n
<1>4. \A a \in pairs : n.prog[a[1]] # Virtual
  BY <1>1, <1>3, PlatformFacts DEF Fitting, VacantSet, Unplaced
<1>5. Unset(n) \in SUBSET Unset(m)
  BY <1>3, PlacesMoreFacts
<1>6. ASSUME Cardinality(Unset(m)) <= Cardinality(S), NEW q \in Unset(n)
      PROVE  FALSE
  <2>1. PICK a \in pairs : a[1] = q
    BY <1>2, <1>5, <1>6
  <2> QED
    BY <1>4, <1>6, <2>1 DEF Unset
<1> QED
  BY <1>3, <1>6 DEF n, pairs

LEMMA TrivialPlaces ==
  ASSUME NEW m, WellFormed(m)
  PROVE  /\ PlacesMore(m, setTrivialProgToPhysMap(m))
         /\ FitsTrivially(m) <=> Cardinality(Unset(m)) <= Cardinality(VacantSet(m))
         /\ FitsTrivially(m) => Unset(setTrivialProgToPhysMap(m)) = {}
<1>1. FreePhysQubits(m) = AscendingPhys(m, VacantSet(m)) /\ VacantSet(m) \in SUBSET PlatformQubits
  BY WellFormedFacts DEF FreePhysQubits, VacantSet
<1>2. /\ VirtualQubits(m) \in Enumeration(Unset(m)) /\ IsFiniteSet(Unset(m))
      /\ FreePhysQubits(m) \in Enumeration(VacantSet(m)) /\ IsFiniteSet(VacantSet(m))
  BY <1>1, VirtualQubitsFacts, AscendingPhysFacts
<1>3. Len(VirtualQubits(m)) = Cardinality(Unset(m)) /\ Len(FreePhysQubits(m)) = Cardinality(VacantSet(m))
  BY <1>2, EnumerationFacts
<1>4. FitsTrivially(m) <=> Cardinality(Unset(m)) <= Cardinality(VacantSet(m))
  BY <1>3 DEF FitsTrivially
<1>5. setTrivialProgToPhysMap(m) = Assign(m, Paired(VirtualQubits(m), AscendingPhys(m, VacantSet(m))))
  BY <1>1 DEF setTrivialProgToPhysMap
<1> QED
  BY <1>4, <1>5, PairsPlace

LEMMA SetPlaces ==
  ASSUME NEW m, WellFormed(m), NEW S \in SUBSET PlatformQubits
  PROVE  /\ PlacesMore(m, setCustomSet(m, S))
         /\ Cardinality(Unset(m)) <= Cardinality(S \cap VacantSet(m)) => Unset(setCustomSet(m, S)) = {}
<1>1. {x \in S \cap DOMAIN m.phys : m.phys[x] = Free} = S \cap VacantSet(m)
  BY WellFormedFacts DEF VacantSet
<1>2. setCustomSet(m, S) = Assign(m, Paired(VirtualQubits(m), AscendingPhys(m, S \cap VacantSet(m))))
  BY <1>1 DEF setCustomSet
<1>3. S \cap VacantSet(m) \in SUBSET VacantSet(m)
  OBVIOUS
<1> QED
  BY <1>2, <1>3, PairsPlace

(* Ids go to where the map has them, if they have no place yet.            *)
LEMMA MapPlaces ==
  ASSUME NEW m, WellFormed(m), NEW I \in SUBSET DOMAIN Ids(m.order),
         NEW f \in Placements(I, VacantSet(m))
  PROVE  /\ PlacesMore(m, setCustomMap(m, f))
         /\ \A id \in I : Ids(m.order)[id] \notin Unset(setCustomMap(m, f))
<1> DEFINE ids == Ids(m.order)
           J == {id \in I : m.prog[ids[id]] = Virtual}
           pairs == {<<ids[id], f[id]>> : id \in J}
           n == Assign(m, pairs)
<1>1. ids \in Enumeration(ArrayQubits(m.order)) /\ ArrayQubits(m.order) \in SUBSET Qubits
      /\ IsFiniteSet(ArrayQubits(m.order))
  BY WellFormedFacts, QubitSetsAreFinite
<1>2. \A i, j \in I : /\ ids[i] \in Qubits
                      /\ ids[i] = ids[j] => i = j
  BY <1>1, EnumerationFacts DEF Enumeration, ToSet
<1>3. DOMAIN f = I /\ \A i, j \in I : /\ f[i] \in VacantSet(m)
                                      /\ f[i] = f[j] => i = j
  BY DEF Placements
<1>4. setCustomMap(m, f) = n
  BY <1>3 DEF setCustomMap
<1>5. \A a \in pairs : \E id \in J : a = <<ids[id], f[id]>>
  OBVIOUS
<1>6. \A id \in J : <<ids[id], f[id]>> \in pairs /\ id \in I /\ ids[id] \in Unset(m)
  BY <1>2 DEF Unset
<1> HIDE DEF pairs, J, ids
<1>7. Fitting(m, pairs)
  <2>1. \A a \in pairs : a[1] \in Unset(m) /\ a[2] \in VacantSet(m)
    BY <1>3, <1>5, <1>6
  <2>2. \A a, b \in pairs : a[1] = b[1] => a[2] = b[2]
    BY <1>2, <1>5, <1>6
  <2>3. \A a, b \in pairs : a[2] = b[2] => a[1] = b[1]
    BY <1>3, <1>5, <1>6
  <2> QED
    BY <2>1, <2>2, <2>3 DEF Fitting
<1>8. PlacesMore(m, n) /\ \A a \in pairs : n.prog[a[1]] = a[2]
  BY <1>7, AssignPlaces
<1> HIDE DEF n
<1>9. ASSUME NEW id \in I, ids[id] \in Unset(n)
      PROVE  FALSE
  <2>1. ids[id] \in Unset(m)
    BY <1>8, <1>9, PlacesMoreFacts
  <2>2. id \in J
    BY <2>1 DEF J, Unset
  <2>3. n.prog[ids[id]] = f[id] /\ f[id] \in PlatformQubits
    BY <1>3, <1>6, <1>8, <2>2 DEF VacantSet
  <2> QED
    BY <1>9, <2>3, PlatformFacts DEF Unset, Unplaced
<1> QED
  BY <1>4, <1>8, <1>9 DEF ids

-----------------------------------------------------------------------------
(* A map as far as its qubits are concerned, whatever its size is.         *)
Registered(m) ==
  /\ m = [order |-> m.order, prog |-> m.prog, phys |-> m.phys]
  /\ m.order \in Seq(Registers) /\ IsInjective(m.order)
  /\ m.prog \in [Qubits -> PlatformQubits \cup Unplaced]
  /\ \A q \in Qubits : m.prog[q] # Excluded => RegisterOf(q) \in ToSet(m.order)

LEMMA RegisteredFacts ==
  \A m : WellFormed(m) <=> Registered(m) /\ m.phys \in [PlatformQubits -> Qubits \cup {Free}]
<1> SUFFICES ASSUME NEW m
             PROVE  WellFormed(m) <=> Registered(m) /\ m.phys \in [PlatformQubits -> Qubits \cup {Free}]
  OBVIOUS
<1>1. ASSUME WellFormed(m)
      PROVE  Registered(m) /\ m.phys \in [PlatformQubits -> Qubits \cup {Free}]
  BY <1>1, WellFormedFacts DEF WellFormed, Registered
<1>2. ASSUME Registered(m), m.phys \in [PlatformQubits -> Qubits \cup {Free}]
      PROVE  WellFormed(m)
  <2>1. [order |-> m.order, prog |-> m.prog, phys |-> m.phys] \in QubitMap(PlatformQubits)
    BY <1>2 DEF Registered, QubitMap
  <2> QED
    BY <1>2, <2>1 DEF WellFormed, Registered
<1> QED
  BY <1>1, <1>2

LEMMA EmptyMapFacts ==
  /\ Registered(EmptyMap) /\ EmptyMap.phys = <<>> /\ ToSet(EmptyMap.order) = {}
  /\ EmptyMap.order = <<>> /\ \A q \in Qubits : EmptyMap.prog[q] = Excluded
<1>1. EmptyMap.order = <<>> /\ EmptyMap.phys = <<>> /\ EmptyMap.prog = [q \in Qubits |-> Excluded]
      /\ EmptyMap = [order |-> EmptyMap.order, prog |-> EmptyMap.prog, phys |-> EmptyMap.phys]
  BY DEF EmptyMap
<1>2. ToSet(<<>>) = {} /\ <<>> \in Seq(Registers) /\ IsInjective(<<>>)
  BY DEF ToSet, IsInjective
<1> QED
  BY <1>1, <1>2 DEF Registered, Unplaced

(* Arrays are appended at most once.                                       *)
LEMMA AppendedOrder ==
  ASSUME NEW order \in Seq(Registers), IsInjective(order),
         NEW n \in Nat, NEW s, DOMAIN s = 1 .. n,
         NEW S \in SUBSET Registers, S \subseteq ToSet(s), S \cap ToSet(order) = {}
  PROVE  /\ order \o OrderedBy(S, s) \in Seq(Registers)
         /\ IsInjective(order \o OrderedBy(S, s))
         /\ ToSet(order \o OrderedBy(S, s)) = ToSet(order) \cup S
<1> DEFINE new == OrderedBy(S, s)
           both == order \o new
<1>1. IsFiniteSet(S)
  BY QubitsAreFinite, FS_Subset
<1>2. new \in Enumeration(S)
  BY <1>1, OrderedByEnumerates
<1>3. /\ new \in Seq(S) /\ DOMAIN new = 1 .. Len(new) /\ Len(new) \in Nat /\ ToSet(new) = S
      /\ \A i, j \in DOMAIN new : new[i] = new[j] => i = j
  BY <1>1, <1>2, EnumerationFacts
<1> HIDE DEF new
<1>4. new \in Seq(Registers)
  BY <1>3, SeqMonotonic
<1>5. /\ Len(order) \in Nat /\ DOMAIN order = 1 .. Len(order)
      /\ \A i, j \in 1 .. Len(order) : order[i] = order[j] => i = j
  BY DEF IsInjective
<1>6. /\ both \in Seq(Registers) /\ Len(both) = Len(order) + Len(new)
      /\ \A i \in 1 .. Len(order) + Len(new) :
           both[i] = IF i <= Len(order) THEN order[i] ELSE new[i - Len(order)]
  BY <1>4, ConcatProperties
<1> HIDE DEF both
<1>7. DOMAIN both = 1 .. Len(order) + Len(new)
  BY <1>6
<1>8. \A i \in DOMAIN both :
        \/ i \in 1 .. Len(order) /\ both[i] = order[i] /\ both[i] \in ToSet(order)
        \/ i \notin 1 .. Len(order) /\ i - Len(order) \in 1 .. Len(new) /\ both[i] = new[i - Len(order)] /\ both[i] \in S
  <2> SUFFICES ASSUME NEW i \in DOMAIN both
               PROVE  \/ i \in 1 .. Len(order) /\ both[i] = order[i] /\ both[i] \in ToSet(order)
                      \/ i \notin 1 .. Len(order) /\ i - Len(order) \in 1 .. Len(new)
                         /\ both[i] = new[i - Len(order)] /\ both[i] \in S
    OBVIOUS
  <2>1. CASE i <= Len(order)
    <3>1. i \in 1 .. Len(order)
      BY <1>3, <1>5, <1>7, <2>1
    <3> QED
      BY <1>5, <1>6, <1>7, <2>1, <3>1 DEF ToSet
  <2>2. CASE ~ (i <= Len(order))
    <3>1. i \notin 1 .. Len(order) /\ i - Len(order) \in 1 .. Len(new)
      BY <1>3, <1>5, <1>7, <2>2
    <3>2. both[i] = new[i - Len(order)]
      BY <1>6, <1>7, <2>2
    <3>3. new[i - Len(order)] \in ToSet(new)
      BY <1>3, <3>1 DEF ToSet
    <3> QED
      BY <1>3, <3>1, <3>2, <3>3
  <2> QED
    BY <2>1, <2>2
<1>9. IsInjective(both)
  <2> SUFFICES ASSUME NEW i \in DOMAIN both, NEW j \in DOMAIN both, both[i] = both[j]
               PROVE  i = j
    BY DEF IsInjective
  <2>1. i \in 1 .. Len(order) <=> j \in 1 .. Len(order)
    BY <1>8
  <2>2. CASE i \in 1 .. Len(order)
    BY <1>5, <1>8, <2>1, <2>2
  <2>3. CASE i \notin 1 .. Len(order)
    <3>1. i - Len(order) = j - Len(order)
      BY <1>3, <1>8, <2>1, <2>3
    <3>2. i \in Int /\ j \in Int /\ Len(order) \in Int
      BY <1>5, <1>7
    <3> QED
      BY <3>1, <3>2
  <2> QED
    BY <2>2, <2>3
<1>10. ToSet(both) \subseteq ToSet(order) \cup S
  BY <1>8 DEF ToSet
<1>11. ASSUME NEW r \in ToSet(order)
       PROVE  r \in ToSet(both)
  <2>1. PICK i \in 1 .. Len(order) : order[i] = r
    BY <1>5 DEF ToSet
  <2>2. i \in DOMAIN both /\ both[i] = r
    BY <1>3, <1>5, <1>6, <1>7, <2>1
  <2> QED
    BY <2>2 DEF ToSet
<1>12. ASSUME NEW r \in S
       PROVE  r \in ToSet(both)
  <2>1. PICK i \in 1 .. Len(new) : new[i] = r
    BY <1>3 DEF ToSet
  <2>2. i + Len(order) \in DOMAIN both /\ ~ (i + Len(order) <= Len(order)) /\ (i + Len(order)) - Len(order) = i
    BY <1>3, <1>5, <1>7, <2>1
  <2>3. both[i + Len(order)] = r
    BY <1>6, <1>7, <2>1, <2>2
  <2> QED
    BY <2>2, <2>3 DEF ToSet
<1> QED
  BY <1>6, <1>9, <1>10, <1>11, <1>12 DEF both, new

LEMMA AddedQubits ==
  ASSUME NEW m, Registered(m), NEW qs \in Seq(Qubits)
  PROVE  LET n == addProgQubits(m, qs) IN
         /\ Registered(n) /\ n.phys = m.phys
         /\ \A q \in Qubits : n.prog[q] = IF q \in ToSet(qs) /\ m.prog[q] = Excluded THEN Virtual ELSE m.prog[q]
         /\ ToSet(n.order) = ToSet(m.order) \cup {RegisterOf(q) : q \in ToSet(qs)}
<1> DEFINE n == addProgQubits(m, qs)
           registers == [i \in DOMAIN qs |-> RegisterOf(qs[i])]
           S == ToSet(registers) \ ToSet(m.order)
           order == m.order \o OrderedBy(S, registers)
           prog == [q \in Qubits |-> IF q \in ToSet(qs) /\ m.prog[q] = Excluded THEN Virtual ELSE m.prog[q]]
<1>1. m = [order |-> m.order, prog |-> m.prog, phys |-> m.phys]
      /\ m.order \in Seq(Registers) /\ IsInjective(m.order)
      /\ m.prog \in [Qubits -> PlatformQubits \cup Unplaced]
      /\ \A q \in Qubits : m.prog[q] # Excluded => RegisterOf(q) \in ToSet(m.order)
  BY DEF Registered
<1>2. n = [order |-> order, prog |-> prog, phys |-> m.phys]
  <2>1. addProgQubitRegisters(m, qs) = [m EXCEPT !.order = order]
    BY DEF addProgQubitRegisters
  <2> HIDE DEF order
  <2>2. addProgQubitRegisters(m, qs) = [order |-> order, prog |-> m.prog, phys |-> m.phys]
    BY <1>1, <2>1
  <2>3. n = [addProgQubitRegisters(m, qs) EXCEPT
               !.prog = [q \in Qubits |-> IF q \in ToSet(qs) /\ addProgQubitRegisters(m, qs).prog[q] = Excluded
                                          THEN Virtual ELSE addProgQubitRegisters(m, qs).prog[q]]]
    BY DEF addProgQubits
  <2>4. n = [addProgQubitRegisters(m, qs) EXCEPT !.prog = prog]
    BY <2>2, <2>3
  <2> HIDE DEF n, prog
  <2> QED
    BY <2>2, <2>4
<1>3. DOMAIN qs = 1 .. Len(qs) /\ Len(qs) \in Nat /\ \A i \in DOMAIN qs : qs[i] \in Qubits
  OBVIOUS
<1>4. ToSet(registers) = {RegisterOf(q) : q \in ToSet(qs)} /\ ToSet(registers) \subseteq Registers
  BY <1>3, ArrayFacts DEF ToSet
<1>5. DOMAIN registers = 1 .. Len(qs) /\ S \subseteq ToSet(registers) /\ S \in SUBSET Registers
      /\ S \cap ToSet(m.order) = {}
  BY <1>3, <1>4
<1> HIDE DEF registers
<1>6. order \in Seq(Registers) /\ IsInjective(order) /\ ToSet(order) = ToSet(m.order) \cup S
  <2> HIDE DEF S
  <2> QED
    BY <1>1, <1>3, <1>5, AppendedOrder
<1>7. ToSet(order) = ToSet(m.order) \cup {RegisterOf(q) : q \in ToSet(qs)}
  BY <1>4, <1>6
<1> HIDE DEF order, S
<1>8. prog \in [Qubits -> PlatformQubits \cup Unplaced]
  BY <1>1 DEF Unplaced
<1>9. \A q \in Qubits : prog[q] # Excluded => RegisterOf(q) \in ToSet(order)
  BY <1>1, <1>7
<1>10. \A q \in Qubits : prog[q] = IF q \in ToSet(qs) /\ m.prog[q] = Excluded THEN Virtual ELSE m.prog[q]
  OBVIOUS
<1> HIDE DEF prog
<1>11. n.order = order /\ n.prog = prog /\ n.phys = m.phys
       /\ n = [order |-> n.order, prog |-> n.prog, phys |-> n.phys]
  BY <1>2
<1> HIDE DEF n
<1>12. Registered(n)
  BY <1>6, <1>8, <1>9, <1>11 DEF Registered
<1>13. /\ Registered(n) /\ n.phys = m.phys
       /\ \A q \in Qubits : n.prog[q] = IF q \in ToSet(qs) /\ m.prog[q] = Excluded THEN Virtual ELSE m.prog[q]
       /\ ToSet(n.order) = ToSet(m.order) \cup {RegisterOf(q) : q \in ToSet(qs)}
  BY <1>7, <1>10, <1>11, <1>12
<1> QED
  BY <1>13 DEF n

LEMMA NumPhysFacts ==
  /\ \A m : WellFormed(m) => setNumPhysQubits(m, NumPlatformQubits) = m
  /\ \A m : Registered(m) /\ m.phys = <<>> =>
       setNumPhysQubits(m, NumPlatformQubits) =
         [order |-> m.order, prog |-> m.prog, phys |-> [x \in PlatformQubits |-> Free]]
<1>1. ASSUME NEW m, WellFormed(m)
      PROVE  setNumPhysQubits(m, NumPlatformQubits) = m
  BY <1>1, WellFormedFacts, PlatformFacts DEF setNumPhysQubits
<1>2. ASSUME NEW m, Registered(m), m.phys = <<>>
      PROVE  setNumPhysQubits(m, NumPlatformQubits) =
               [order |-> m.order, prog |-> m.prog, phys |-> [x \in PlatformQubits |-> Free]]
  <2> DEFINE phys == [x \in 0 .. NumPlatformQubits - 1 |-> IF x \in DOMAIN m.phys THEN m.phys[x] ELSE Free]
  <2>1. DOMAIN m.phys = {}
    BY <1>2
  <2>2. getNumPhysQubits(m) = 0
    BY <2>1, FS_EmptySet DEF getNumPhysQubits
  <2>3. phys = [x \in PlatformQubits |-> Free]
    BY <2>1 DEF PlatformQubits
  <2>4. setNumPhysQubits(m, NumPlatformQubits) = [m EXCEPT !.phys = phys]
    BY <2>2, PlatformFacts DEF setNumPhysQubits
  <2> HIDE DEF phys
  <2>5. m = [order |-> m.order, prog |-> m.prog, phys |-> m.phys]
    BY <1>2 DEF Registered
  <2>6. [m EXCEPT !.phys = phys] = [order |-> m.order, prog |-> m.prog, phys |-> phys]
    BY <2>5
  <2> QED
    BY <2>3, <2>4, <2>6
<1> QED
  BY <1>1, <1>2

(* Joined to an empty map, a map changes the order of its arrays only.     *)
LEMMA JoinedToEmpty ==
  ASSUME NEW g, WellFormed(g), isConsistent(g)
  PROVE  LET j == join(EmptyMap, g) IN
         /\ WellFormed(j) /\ isConsistent(j)
         /\ j.prog = g.prog /\ j.phys = g.phys /\ ToSet(j.order) = ToSet(g.order)
<1> DEFINE j == join(EmptyMap, g)
           taken == {q \in Qubits : EmptyMap.prog[q] = Excluded /\ g.prog[q] \notin Unplaced}
           S == ToSet(g.order) \ ToSet(EmptyMap.order)
           order == EmptyMap.order \o OrderedBy(S, KeyOrder)
           n == setNumPhysQubits(EmptyMap, getNumPhysQubits(g))
           on(x) == CHOOSE q \in taken : g.prog[q] = x
           prog == [q \in Qubits |-> IF EmptyMap.prog[q] = Excluded THEN g.prog[q] ELSE EmptyMap.prog[q]]
           phys == [x \in DOMAIN n.phys |-> IF \E q \in taken : g.prog[q] = x THEN on(x) ELSE n.phys[x]]
<1>1. j = [order |-> order, prog |-> prog, phys |-> phys]
  BY DEF join
<1>2. /\ ToSet(g.order) \subseteq Registers /\ getNumPhysQubits(g) = NumPlatformQubits
      /\ g.prog \in [Qubits -> PlatformQubits \cup Unplaced]
      /\ g.phys \in [PlatformQubits -> Qubits \cup {Free}]
      /\ g = [order |-> g.order, prog |-> g.prog, phys |-> g.phys]
  BY WellFormedFacts
<1>3. order \in Seq(Registers) /\ IsInjective(order) /\ ToSet(order) = ToSet(g.order)
  <2>1. EmptyMap.order \in Seq(Registers) /\ IsInjective(EmptyMap.order) /\ ToSet(EmptyMap.order) = {}
    BY EmptyMapFacts DEF Registered
  <2>2. Len(KeyOrder) \in Nat /\ DOMAIN KeyOrder = 1 .. Len(KeyOrder) /\ \A r \in Registers : r \in ToSet(KeyOrder)
    <3>1. KeyOrder \in Seq(Registers) /\ \A r \in Registers : \E i \in 1 .. Len(KeyOrder) : KeyOrder[i] = r
      BY ArraysPartitionQubits
    <3>2. Len(KeyOrder) \in Nat /\ DOMAIN KeyOrder = 1 .. Len(KeyOrder)
      BY <3>1
    <3> QED
      BY <3>1, <3>2 DEF ToSet
  <2>3. S = ToSet(g.order) /\ S \in SUBSET Registers /\ S \subseteq ToSet(KeyOrder) /\ S \cap ToSet(EmptyMap.order) = {}
    BY <1>2, <2>1, <2>2
  <2> HIDE DEF S
  <2>4. order \in Seq(Registers) /\ IsInjective(order) /\ ToSet(order) = ToSet(EmptyMap.order) \cup S
    <3> DEFINE old == EmptyMap.order
               size == Len(KeyOrder)
    <3>1. order = old \o OrderedBy(S, KeyOrder)
      OBVIOUS
    <3>2. old \in Seq(Registers) /\ IsInjective(old) /\ size \in Nat /\ DOMAIN KeyOrder = 1 .. size
          /\ S \cap ToSet(old) = {}
      BY <2>1, <2>2, <2>3
    <3> HIDE DEF old, size, order

    <3>3. /\ old \o OrderedBy(S, KeyOrder) \in Seq(Registers)
          /\ IsInjective(old \o OrderedBy(S, KeyOrder))
          /\ ToSet(old \o OrderedBy(S, KeyOrder)) = ToSet(old) \cup S
      BY <2>3, <3>2, AppendedOrder
    <3> QED
      BY <3>1, <3>3 DEF old
  <2> QED
    BY <2>1, <2>3, <2>4


<1> HIDE DEF order, S

<1>4. prog = g.prog
  BY <1>2, EmptyMapFacts
<1>5. n.phys = [x \in PlatformQubits |-> Free]
  BY <1>2, EmptyMapFacts, NumPhysFacts
<1>6. taken = {q \in Qubits : g.prog[q] \notin Unplaced}
  BY EmptyMapFacts
<1>7. /\ \A q \in Qubits : g.prog[q] \notin Unplaced => g.phys[g.prog[q]] = q
      /\ \A x \in PlatformQubits : g.phys[x] # Free => g.prog[g.phys[x]] = x
  BY <1>2 DEF isConsistent
<1>8. \A x \in PlatformQubits : (\E q \in taken : g.prog[q] = x) => on(x) \in taken /\ g.prog[on(x)] = x
  OBVIOUS
<1> HIDE DEF on, taken, n
<1>9. ASSUME NEW x \in PlatformQubits
      PROVE  phys[x] = g.phys[x]
  <2>1. CASE \E q \in taken : g.prog[q] = x
    BY <1>5, <1>6, <1>7, <1>8, <2>1
  <2>2. CASE ~ \E q \in taken : g.prog[q] = x
    <3>1. phys[x] = Free
      BY <1>5, <2>2
    <3>2. g.phys[x] # Free => g.phys[x] \in Qubits /\ g.prog[g.phys[x]] = x
      BY <1>2, <1>7
    <3>3. g.phys[x] # Free => g.phys[x] \in taken
      BY <1>6, <3>2, PlatformFacts
    <3> QED
      BY <2>2, <3>1, <3>2, <3>3
  <2> QED
    BY <2>1, <2>2
<1>10. DOMAIN phys = PlatformQubits
  BY <1>5
<1>11. phys = g.phys
  <2>1. phys = [x \in PlatformQubits |-> phys[x]]
    BY <1>10
  <2> HIDE DEF phys
  <2> QED
    BY <1>2, <1>9, <2>1
<1> HIDE DEF phys, prog
<1>12. j.order = order /\ j.prog = g.prog /\ j.phys = g.phys
       /\ j = [order |-> j.order, prog |-> j.prog, phys |-> j.phys]
  BY <1>1, <1>4, <1>11
<1> HIDE DEF j
<1>13. Registered(j)
  BY <1>2, <1>3, <1>12, RegisteredFacts DEF Registered
<1>14. WellFormed(j)
  BY <1>2, <1>12, <1>13, RegisteredFacts
<1>15. isConsistent(j)
  BY <1>12 DEF isConsistent
<1> QED
  BY <1>3, <1>12, <1>14, <1>15 DEF j

-----------------------------------------------------------------------------
(* As many qubits are placed as physical qubits are in use.                *)
LEMMA PlacedAndMapped ==
  ASSUME NEW m, WellFormed(m), isConsistent(m)
  PROVE  /\ IsFiniteSet(KnownQubits(m)) /\ Cardinality(KnownQubits(m)) \in Nat
         /\ IsFiniteSet(Unset(m)) /\ Cardinality(Unset(m)) \in Nat
         /\ IsFiniteSet(VacantSet(m)) /\ Cardinality(VacantSet(m)) \in Nat
         /\ Cardinality(KnownQubits(m)) + Cardinality(VacantSet(m)) = NumPlatformQubits + Cardinality(Unset(m))
         /\ Cardinality(KnownQubits(m)) <= NumPlatformQubits
              <=> Cardinality(Unset(m)) <= Cardinality(VacantSet(m))
<1> DEFINE K == KnownQubits(m)
           U == Unset(m)
           placed == K \ U
           F == VacantSet(m)
           used == PlatformQubits \ F
           f == [q \in placed |-> m.prog[q]]
<1>1. /\ m.prog \in [Qubits -> PlatformQubits \cup Unplaced]
      /\ m.phys \in [PlatformQubits -> Qubits \cup {Free}] /\ DOMAIN m.phys = PlatformQubits
  BY WellFormedFacts
<1>2. U \in SUBSET K /\ K \in SUBSET Qubits /\ placed \in SUBSET Qubits
  BY ConventionalValues DEF Unset, KnownQubits
<1>3. \A q \in Qubits : q \in placed <=> m.prog[q] \in PlatformQubits
  BY <1>1, PlatformFacts DEF Unset, KnownQubits, Unplaced
<1>4. \A q \in placed : m.phys[m.prog[q]] = q /\ m.prog[q] \in PlatformQubits /\ m.prog[q] \in used
  <2> SUFFICES ASSUME NEW q \in placed
               PROVE  m.phys[m.prog[q]] = q /\ m.prog[q] \in PlatformQubits /\ m.prog[q] \in used
    OBVIOUS
  <2>1. q \in Qubits /\ m.prog[q] \in PlatformQubits /\ m.prog[q] \notin Unplaced
    BY <1>2, <1>3, PlatformFacts
  <2>2. m.phys[m.prog[q]] = q
    BY <2>1 DEF isConsistent
  <2> QED
    BY <2>1, <2>2, ConventionalValues DEF VacantSet
<1>5. \A x \in used : m.phys[x] \in Qubits /\ m.prog[m.phys[x]] = x /\ m.phys[x] \in placed
  <2> SUFFICES ASSUME NEW x \in used
               PROVE  m.phys[x] \in Qubits /\ m.prog[m.phys[x]] = x /\ m.phys[x] \in placed
    OBVIOUS
  <2>1. x \in PlatformQubits /\ m.phys[x] # Free /\ m.phys[x] \in Qubits
    BY <1>1 DEF VacantSet
  <2>2. m.prog[m.phys[x]] = x
    BY <1>1, <2>1 DEF isConsistent
  <2> QED
    BY <1>3, <2>1, <2>2
<1> HIDE DEF placed, used, K, U, F
<1>6. f \in [placed -> used] /\ \A q \in placed : f[q] = m.prog[q]
  BY <1>4
<1>7. \A x \in used : \E q \in placed : f[q] = x
  BY <1>5, <1>6
<1>8. f \in Injection(placed, used) /\ f \in Surjection(placed, used)
  BY <1>4, <1>6, <1>7 DEF Injection, IsInjective, Surjection
<1>9. IsFiniteSet(K) /\ Cardinality(K) \in Nat /\ IsFiniteSet(U) /\ Cardinality(U) \in Nat
      /\ IsFiniteSet(placed) /\ Cardinality(placed) \in Nat
  BY <1>2, QubitSetsAreFinite
<1>10. IsFiniteSet(F) /\ Cardinality(F) \in Nat /\ IsFiniteSet(used) /\ Cardinality(used) \in Nat
  <2>1. F \in SUBSET PlatformQubits /\ used \in SUBSET PlatformQubits
    BY DEF F, used, VacantSet
  <2> QED
    BY <2>1, PlatformFacts, FS_Subset, FS_CardinalityType
<1>11. Cardinality(placed) = Cardinality(used)
  BY <1>8, <1>9, FS_Surjection
<1>12. Cardinality(K) = Cardinality(U) + Cardinality(placed)
  <2>1. K \cap U = U
    BY <1>2
  <2>2. Cardinality(placed) = Cardinality(K) - Cardinality(U)
    BY <1>9, <2>1, FS_Difference DEF placed
  <2> QED
    BY <1>9, <2>2
<1>13. NumPlatformQubits = Cardinality(F) + Cardinality(used)
  <2>1. PlatformQubits \cap F = F
    BY DEF F, VacantSet
  <2>2. Cardinality(used) = Cardinality(PlatformQubits) - Cardinality(F)
    BY <2>1, PlatformFacts, FS_Difference DEF used
  <2> QED
    BY <1>10, <2>2, PlatformFacts
<1>14. /\ Cardinality(K) + Cardinality(F) = NumPlatformQubits + Cardinality(U)
       /\ Cardinality(K) <= NumPlatformQubits <=> Cardinality(U) <= Cardinality(F)
  BY <1>9, <1>10, <1>11, <1>12, <1>13
<1> QED
  BY <1>9, <1>10, <1>14 DEF K, U, F

-----------------------------------------------------------------------------
(* The map of the global qubits of program c, and that all are placed.     *)
GlobalsOf(c) == ArrayQubits(c.globals)
UsedBy(c, i) == GlobalsOf(c) \cup ToSet(c.kernels[i])

GlobalMapOf(c, g) ==
  /\ WellFormed(g) /\ isConsistent(g)
  /\ KnownQubits(g) = GlobalsOf(c) /\ ToSet(g.order) = {RegisterOf(q) : q \in GlobalsOf(c)}

GlobalsSettled(c, g) == GlobalMapOf(c, g) /\ Unset(g) = {}

(* The map m with which a kernel starts, and one in which it was placed.   *)
StartOf(c, g, i, m) ==
  /\ WellFormed(m) /\ isConsistent(m)
  /\ KnownQubits(m) = UsedBy(c, i)
  /\ ToSet(m.order) = {RegisterOf(q) : q \in UsedBy(c, i)}
  /\ \A q \in GlobalsOf(c) : m.prog[q] = g.prog[q]

PlacedFor(c, g, i, m) ==
  /\ WellFormed(m) /\ KnownQubits(m) = UsedBy(c, i)
  /\ \A q \in GlobalsOf(c) : m.prog[q] = g.prog[q]

Complete(m) == isConsistent(m) /\ Unset(m) = {}

LEMMA ProgramFacts ==
  ASSUME NEW c \in Inputs
  PROVE  /\ c.globals \in Seq(Registers) /\ IsInjective(c.globals) /\ ToSet(c.globals) \subseteq Registers
         /\ c.kernels \in Seq(Seq(Qubits)) /\ Len(c.kernels) \in Nat /\ DOMAIN c.kernels = 1 .. Len(c.kernels)
         /\ \A i \in 1 .. Len(c.kernels) : c.kernels[i] \in Seq(Qubits) /\ ToSet(c.kernels[i]) \subseteq Qubits
         /\ GlobalsOf(c) \in SUBSET Qubits
         /\ Ids(c.globals) \in Seq(Qubits) /\ ToSet(Ids(c.globals)) = GlobalsOf(c)
         /\ Len(Ids(c.globals)) = Cardinality(GlobalsOf(c)) /\ DOMAIN Ids(c.globals) = 1 .. Len(Ids(c.globals))
         /\ Cardinality(GlobalsOf(c)) \in Nat
<1>1. c.globals \in Seq(Registers) /\ c.kernels \in Seq(Seq(Qubits))
      /\ \A i, j \in 1 .. Len(c.globals) : c.globals[i] = c.globals[j] => i = j
  BY PlacementInputs
<1>2. IsInjective(c.globals) /\ ToSet(c.globals) \subseteq Registers
  BY <1>1 DEF IsInjective, ToSet
<1>3. \A i \in 1 .. Len(c.kernels) : c.kernels[i] \in Seq(Qubits)
  BY <1>1
<1>4. \A i \in 1 .. Len(c.kernels) : ToSet(c.kernels[i]) \subseteq Qubits
  <2> SUFFICES ASSUME NEW i \in 1 .. Len(c.kernels)
               PROVE  ToSet(c.kernels[i]) \subseteq Qubits
    OBVIOUS
  <2> DEFINE s == c.kernels[i]
  <2>1. s \in Seq(Qubits)
    BY <1>3
  <2> HIDE DEF s
  <2>2. ToSet(s) \subseteq Qubits
    BY <2>1 DEF ToSet
  <2> QED
    BY <2>2 DEF s
<1>5. GlobalsOf(c) \in SUBSET Qubits
  BY <1>2, ArrayQubitsFacts DEF GlobalsOf
<1>6. Ids(c.globals) \in Enumeration(GlobalsOf(c)) /\ IsFiniteSet(GlobalsOf(c)) /\ Cardinality(GlobalsOf(c)) \in Nat
  BY <1>1, <1>2, <1>5, IdsEnumerate, QubitSetsAreFinite DEF GlobalsOf
<1> DEFINE ids == Ids(c.globals)
<1> HIDE DEF ids
<1>7. ids \in Seq(GlobalsOf(c)) /\ ToSet(ids) = GlobalsOf(c) /\ Len(ids) = Cardinality(GlobalsOf(c))
      /\ DOMAIN ids = 1 .. Cardinality(GlobalsOf(c))
  BY <1>6, EnumerationFacts DEF ids
<1>8. ids \in Seq(Qubits)
  BY <1>5, <1>7, SeqMonotonic
<1>9. Len(c.kernels) \in Nat /\ DOMAIN c.kernels = 1 .. Len(c.kernels)
  BY <1>1
<1> QED
  BY <1>1, <1>2, <1>3, <1>4, <1>5, <1>6, <1>7, <1>8, <1>9 DEF ids

(* The map that initializeGlobalQubitMap makes.                            *)
LEMMA GlobalsRegistered ==
  ASSUME NEW c \in Inputs
  PROVE  LET g == setNumPhysQubits(addProgQubits(EmptyMap, Ids(c.globals)), NumPlatformQubits) IN
         /\ GlobalMapOf(c, g)
         /\ Unset(g) = GlobalsOf(c) /\ VacantSet(g) = PlatformQubits
<1> DEFINE ids == Ids(c.globals)
           a == addProgQubits(EmptyMap, ids)
           g == [order |-> a.order, prog |-> a.prog, phys |-> [x \in PlatformQubits |-> Free]]
<1>1. ids \in Seq(Qubits) /\ ToSet(ids) = GlobalsOf(c) /\ GlobalsOf(c) \in SUBSET Qubits
  BY ProgramFacts
<1> HIDE DEF ids
<1>2. /\ Registered(a) /\ a.phys = EmptyMap.phys
      /\ \A q \in Qubits : a.prog[q] = IF q \in ToSet(ids) /\ EmptyMap.prog[q] = Excluded THEN Virtual ELSE EmptyMap.prog[q]
      /\ ToSet(a.order) = ToSet(EmptyMap.order) \cup {RegisterOf(q) : q \in ToSet(ids)}
  BY <1>1, EmptyMapFacts, AddedQubits
<1> HIDE DEF a
<1>3. a.phys = <<>> /\ \A q \in Qubits : a.prog[q] = IF q \in GlobalsOf(c) THEN Virtual ELSE Excluded
  BY <1>1, <1>2, EmptyMapFacts
<1>4. setNumPhysQubits(a, NumPlatformQubits) = g
  BY <1>2, <1>3, NumPhysFacts
<1>5. g.order = a.order /\ g.prog = a.prog /\ \A x \in PlatformQubits : g.phys[x] = Free
  OBVIOUS
<1>6. Registered(g) /\ g.phys \in [PlatformQubits -> Qubits \cup {Free}]
  BY <1>2 DEF Registered
<1> HIDE DEF g
<1>7. WellFormed(g)
  BY <1>6, RegisteredFacts
<1>8. \A q \in Qubits : g.prog[q] \in Unplaced
  BY <1>3, <1>5 DEF Unplaced
<1>9. isConsistent(g)
  BY <1>5, <1>6, <1>8 DEF isConsistent
<1>10. KnownQubits(g) = GlobalsOf(c) /\ Unset(g) = GlobalsOf(c) /\ VacantSet(g) = PlatformQubits
  BY <1>1, <1>3, <1>5, ConventionalValues DEF KnownQubits, Unset, VacantSet
<1>11. ToSet(g.order) = {RegisterOf(q) : q \in GlobalsOf(c)}
  BY <1>1, <1>2, <1>5, EmptyMapFacts
<1> QED
  BY <1>4, <1>7, <1>9, <1>10, <1>11 DEF GlobalMapOf, a, ids
(* The map with which a kernel starts has the global qubits where they are *)
(* in the program, and its own qubits without a place.                     *)
LEMMA KernelStart ==
  ASSUME NEW c \in Inputs, NEW g, GlobalsSettled(c, g), NEW i \in 1 .. Len(c.kernels)
  PROVE  LET m == addProgQubits(join(EmptyMap, join(EmptyMap, g)), c.kernels[i]) IN
         /\ StartOf(c, g, i, m)
         /\ setNumPhysQubits(m, NumPlatformQubits) = m
<1> DEFINE qs == c.kernels[i]
           h == join(EmptyMap, g)
           j == join(EmptyMap, h)
           m == addProgQubits(j, qs)
<1>1. WellFormed(g) /\ isConsistent(g) /\ KnownQubits(g) = GlobalsOf(c)
      /\ ToSet(g.order) = {RegisterOf(q) : q \in GlobalsOf(c)}
  BY DEF GlobalsSettled, GlobalMapOf
<1>2. qs \in Seq(Qubits) /\ ToSet(qs) \subseteq Qubits /\ GlobalsOf(c) \in SUBSET Qubits
  BY ProgramFacts
<1>3. WellFormed(h) /\ isConsistent(h) /\ h.prog = g.prog /\ h.phys = g.phys /\ ToSet(h.order) = ToSet(g.order)
  BY <1>1, JoinedToEmpty
<1> HIDE DEF h, qs
<1>4. WellFormed(j) /\ isConsistent(j) /\ j.prog = g.prog /\ j.phys = g.phys /\ ToSet(j.order) = ToSet(g.order)
  BY <1>3, JoinedToEmpty
<1>5. Registered(j) /\ j.phys \in [PlatformQubits -> Qubits \cup {Free}]
  BY <1>4, RegisteredFacts
<1> HIDE DEF j
<1>6. /\ Registered(m) /\ m.phys = j.phys
      /\ \A q \in Qubits : m.prog[q] = IF q \in ToSet(qs) /\ j.prog[q] = Excluded THEN Virtual ELSE j.prog[q]
      /\ ToSet(m.order) = ToSet(j.order) \cup {RegisterOf(q) : q \in ToSet(qs)}
  BY <1>2, <1>5, AddedQubits
<1> HIDE DEF m
<1>7. WellFormed(m)
  BY <1>5, <1>6, RegisteredFacts
<1>8. \A q \in Qubits : j.prog[q] # Excluded => m.prog[q] = j.prog[q]
  BY <1>6
<1>9. \A q \in Qubits : m.prog[q] \notin Unplaced => j.prog[q] = m.prog[q]
  BY <1>6 DEF Unplaced
<1>10. isConsistent(m)
  <2>1. \A q \in Qubits : m.prog[q] \notin Unplaced => m.prog[q] \in DOMAIN m.phys /\ m.phys[m.prog[q]] = q
    BY <1>4, <1>6, <1>9 DEF isConsistent
  <2>2. ASSUME NEW x \in DOMAIN m.phys, m.phys[x] # Free
        PROVE  m.prog[m.phys[x]] = x
    <3>1. m.phys[x] \in Qubits /\ x \in PlatformQubits
      BY <1>5, <1>6, <2>2
    <3>2. j.prog[m.phys[x]] = x
      BY <1>4, <1>6, <2>2 DEF isConsistent
    <3>3. x # Excluded
      BY <3>1, PlatformFacts DEF Unplaced
    <3> QED
      BY <1>8, <3>1, <3>2, <3>3
  <2> QED
    BY <2>1, <2>2 DEF isConsistent
<1>11. KnownQubits(m) = GlobalsOf(c) \cup ToSet(qs)
  <2>1. \A q \in Qubits : m.prog[q] # Excluded <=> j.prog[q] # Excluded \/ q \in ToSet(qs)
    BY <1>6, ConventionalValues
  <2>2. \A q \in Qubits : j.prog[q] # Excluded <=> q \in GlobalsOf(c)
    BY <1>1, <1>4 DEF KnownQubits
  <2> QED
    BY <1>2, <2>1, <2>2 DEF KnownQubits
<1>12. \A q \in GlobalsOf(c) : m.prog[q] = g.prog[q]
  <2>1. \A q \in GlobalsOf(c) : q \in Qubits /\ j.prog[q] # Excluded
    BY <1>1, <1>2, <1>4 DEF KnownQubits
  <2> QED
    BY <1>4, <1>8, <2>1
<1>13. ToSet(m.order) = {RegisterOf(q) : q \in GlobalsOf(c) \cup ToSet(qs)}
  BY <1>1, <1>4, <1>6
<1>14. setNumPhysQubits(m, NumPlatformQubits) = m
  BY <1>7, NumPhysFacts
<1>15. StartOf(c, g, i, m)
  BY <1>7, <1>10, <1>11, <1>12, <1>13 DEF StartOf, UsedBy, qs
<1> QED
  BY <1>14, <1>15 DEF m, j, h, qs

(* What a placement method that places some more qubits leaves behind.     *)
LEMMA KernelPlaced ==
  ASSUME NEW c \in Inputs, NEW g, GlobalsSettled(c, g), NEW i \in 1 .. Len(c.kernels),
         NEW m, StartOf(c, g, i, m), NEW n, PlacesMore(m, n)
  PROVE  /\ PlacedFor(c, g, i, n) /\ isConsistent(n)
         /\ Cardinality(UsedBy(c, i)) <= NumPlatformQubits => FitsTrivially(n)
<1>1. WellFormed(m) /\ isConsistent(m) /\ KnownQubits(m) = UsedBy(c, i)
      /\ \A q \in GlobalsOf(c) : m.prog[q] = g.prog[q]
  BY DEF StartOf
<1>2. WellFormed(n) /\ isConsistent(n) /\ KnownQubits(n) = UsedBy(c, i)
      /\ \A q \in Qubits : m.prog[q] # Virtual => n.prog[q] = m.prog[q]
  <2>1. WellFormed(n) /\ isConsistent(n)
    BY <1>1 DEF PlacesMore
  <2> QED
    BY <1>1, <2>1, PlacesMoreFacts
<1>3. \A q \in GlobalsOf(c) : q \in Qubits /\ g.prog[q] # Virtual
  BY ProgramFacts DEF GlobalsSettled, Unset
<1>4. PlacedFor(c, g, i, n)
  BY <1>1, <1>2, <1>3 DEF PlacedFor
<1>5. Cardinality(UsedBy(c, i)) <= NumPlatformQubits => FitsTrivially(n)
  BY <1>2, PlacedAndMapped, TrivialPlaces
<1> QED
  BY <1>2, <1>4, <1>5

(* Local search places every qubit, if ids are what it assumes.            *)
LEMMA LocalPlaces ==
  ASSUME NEW m, WellFormed(m), isConsistent(m),
         NEW f \in Placements(IdsToPlace(m), UnusedPhys(m)), NEW W \in SUBSET Strays(m),
         NEW n \in PlacedAtZero(m, setCustomMap(m, f), W)
  PROVE  /\ WellFormed(n) /\ KnownQubits(n) = KnownQubits(m)
         /\ \A q \in Qubits : m.prog[q] # Virtual => n.prog[q] = m.prog[q]
         /\ IdsAreDense(n) => Complete(n)
<1> DEFINE p == setCustomMap(m, f)
           ids == Ids(m.order)
<1>1. UnusedPhys(m) = VacantSet(m) /\ IdsToPlace(m) \in SUBSET DOMAIN ids
  BY WellFormedFacts DEF UnusedPhys, getMappedPhysQubits, VacantSet, IdsToPlace
<1>2. PlacesMore(m, p) /\ \A id \in IdsToPlace(m) : ids[id] \notin Unset(p)
  BY <1>1, MapPlaces
<1> HIDE DEF p
<1>3. WellFormed(p) /\ p.order = m.order /\ isConsistent(p)
  BY <1>2 DEF PlacesMore
<1>4. KnownQubits(p) = KnownQubits(m) /\ Unset(p) \in SUBSET Unset(m)
      /\ \A q \in Qubits : m.prog[q] # Virtual => p.prog[q] = m.prog[q]
  BY <1>2, PlacesMoreFacts
<1>5. /\ p = [order |-> p.order, prog |-> p.prog, phys |-> p.phys]
      /\ p.prog \in [Qubits -> PlatformQubits \cup Unplaced]
      /\ p.phys \in [PlatformQubits -> Qubits \cup {Free}]
  BY <1>3, WellFormedFacts
<1>6. PICK last : /\ n = [p EXCEPT !.prog = [q \in Qubits |-> IF q \in W THEN 0 ELSE @[q]], !.phys[0] = last]
                  /\ last \in W \cup {p.phys[0]}
                  /\ W = {} => last = p.phys[0]
  BY Zenon DEF PlacedAtZero, p
<1>7. W \in SUBSET Unset(m) /\ W \in SUBSET Qubits
  BY DEF Strays, Unset
<1>8. last \in Qubits \cup {Free}
  BY <1>5, <1>6, <1>7, PlatformFacts
<1> DEFINE prog == [q \in Qubits |-> IF q \in W THEN 0 ELSE p.prog[q]]
           phys == [p.phys EXCEPT ![0] = last]
<1>9. n = [order |-> p.order, prog |-> prog, phys |-> phys]
  BY <1>5, <1>6
<1>10. n.order = p.order /\ n.prog = prog /\ n.phys = phys
  BY <1>9
<1>11. \A q \in Qubits : n.prog[q] = IF q \in W THEN 0 ELSE p.prog[q]
  BY <1>10
<1>12. prog \in [Qubits -> PlatformQubits \cup Unplaced] /\ phys \in [PlatformQubits -> Qubits \cup {Free}]
  BY <1>5, <1>8, PlatformFacts
<1> HIDE DEF prog, phys
<1>13. \A q \in Qubits : m.prog[q] # Virtual => n.prog[q] = m.prog[q]
  BY <1>4, <1>7, <1>11 DEF Unset
<1>14. KnownQubits(n) = KnownQubits(m)
  <2>1. 0 # Excluded
    BY ConventionalValues
  <2>2. \A q \in W : p.prog[q] # Excluded
    BY <1>4, <1>7, ConventionalValues DEF KnownQubits, Unset
  <2>3. \A q \in Qubits : n.prog[q] # Excluded <=> p.prog[q] # Excluded
    BY <1>11, <2>1, <2>2
  <2> QED
    BY <1>4, <2>3 DEF KnownQubits
<1>15. WellFormed(n)
  <2>1. n \in QubitMap(PlatformQubits)
    BY <1>3, <1>9, <1>12, WellFormedFacts DEF QubitMap
  <2>2. \A q \in Qubits : n.prog[q] # Excluded => p.prog[q] # Excluded
    BY <1>4, <1>14 DEF KnownQubits
  <2> QED
    BY <1>3, <1>10, <2>1, <2>2 DEF WellFormed
<1>16. ASSUME IdsAreDense(n)
       PROVE  Complete(n)
  <2>1. \A q \in Unset(m) : \E id \in IdsToPlace(m) : ids[id] = q
    <3> SUFFICES ASSUME NEW q \in Unset(m)
                 PROVE  \E id \in IdsToPlace(m) : ids[id] = q
      OBVIOUS
    <3>1. q \in Qubits /\ m.prog[q] = Virtual /\ q \in KnownQubits(m)
      BY ConventionalValues DEF Unset, KnownQubits
    <3>2. q \in ToSet(ids)
      <4>1. ids \in Enumeration(ArrayQubits(m.order)) /\ KnownQubits(m) \in SUBSET ArrayQubits(m.order)
            /\ ArrayQubits(m.order) \in SUBSET Qubits
        BY WellFormedFacts
      <4>2. ToSet(ids) = ArrayQubits(m.order)
        BY <4>1, QubitSetsAreFinite, EnumerationFacts
      <4> QED
        BY <3>1, <4>1, <4>2
    <3>3. PICK id \in DOMAIN ids : ids[id] = q
      BY <3>2 DEF ToSet
    <3>4. n.prog[q] # Excluded
      BY <1>14, <3>1 DEF KnownQubits
    <3>5. id <= getNumProgQubits(n)
      BY <1>3, <1>10, <1>16, <3>3, <3>4 DEF IdsAreDense
    <3>6. id <= getNumProgQubits(m)
      BY <1>14, <3>5 DEF getNumProgQubits
    <3> QED
      BY <3>1, <3>3, <3>6 DEF IdsToPlace, Unplaced
  <2>2. W = {}
    BY <2>1, <1>7 DEF Strays
  <2>3. prog = p.prog /\ phys = p.phys
    BY <1>5, <1>6, <2>2 DEF prog, phys
  <2>4. n = p
    BY <1>5, <1>9, <2>3
  <2>5. Unset(p) = {}
    BY <1>2, <1>4, <2>1
  <2> QED
    BY <1>3, <2>4, <2>5 DEF Complete
<1> QED
  BY <1>13, <1>14, <1>15, <1>16
-----------------------------------------------------------------------------
(* What the pass reads of a program stays as it is.                        *)
LEMMA ProgramStays ==
  ASSUME input' = input
  PROVE  /\ GlobalQubits' = GlobalQubits /\ GlobalIds' = GlobalIds
         /\ IndexTooLarge' <=> IndexTooLarge
         /\ DuplicateIndex' <=> DuplicateIndex
         /\ UserEntries' = UserEntries
<1>1. GlobalArrays' = GlobalArrays /\ initializer' = initializer
  BY DEF GlobalArrays, initializer
<1>2. GlobalQubits' = GlobalQubits /\ GlobalIds' = GlobalIds
  BY <1>1 DEF GlobalQubits, GlobalIds
<1>3. IndexTooLarge' <=> IndexTooLarge
  BY <1>1 DEF IndexTooLarge
<1>4. Customized' = Customized
  BY <1>1 DEF Customized
<1>5. CustomEntries' = CustomEntries
  BY <1>1, <1>4 DEF CustomEntries
<1>6. DuplicateIndex' <=> DuplicateIndex
  BY <1>1, <1>5 DEF DuplicateIndex
<1>7. UserEntries' = UserEntries
  BY <1>1 DEF UserEntries
<1> QED
  BY <1>2, <1>3, <1>6, <1>7

(* Global qubits that are all to be placed, with room for them.            *)
GlobalsReady(c, g) ==
  /\ GlobalMapOf(c, g)
  /\ Unset(g) = GlobalsOf(c) /\ VacantSet(g) = PlatformQubits
  /\ Cardinality(GlobalsOf(c)) <= NumPlatformQubits

LEMMA GlobalsPlaced ==
  ASSUME NEW c \in Inputs, NEW g, GlobalsReady(c, g), NEW n, PlacesMore(g, n)
  PROVE  /\ GlobalMapOf(c, n) /\ FitsTrivially(n)
         /\ PlacesMore(n, setTrivialProgToPhysMap(n))
         /\ GlobalsSettled(c, setTrivialProgToPhysMap(n))
<1>1. WellFormed(g) /\ isConsistent(g) /\ KnownQubits(g) = GlobalsOf(c)
      /\ ToSet(g.order) = {RegisterOf(q) : q \in GlobalsOf(c)} /\ Cardinality(GlobalsOf(c)) <= NumPlatformQubits
  BY DEF GlobalsReady, GlobalMapOf
<1>2. ASSUME NEW m, PlacesMore(g, m)
      PROVE  GlobalMapOf(c, m)
  <2>1. WellFormed(m) /\ isConsistent(m) /\ m.order = g.order
    BY <1>1, <1>2 DEF PlacesMore
  <2>2. KnownQubits(m) = GlobalsOf(c)
    BY <1>1, <1>2, PlacesMoreFacts
  <2> QED
    BY <1>1, <2>1, <2>2 DEF GlobalMapOf
<1>3. GlobalMapOf(c, n)
  BY <1>2
<1>4. WellFormed(n) /\ isConsistent(n) /\ KnownQubits(n) = GlobalsOf(c)
  BY <1>3 DEF GlobalMapOf
<1>5. FitsTrivially(n)
  BY <1>1, <1>4, PlacedAndMapped, TrivialPlaces
<1>6. PlacesMore(n, setTrivialProgToPhysMap(n)) /\ Unset(setTrivialProgToPhysMap(n)) = {}
  BY <1>4, <1>5, TrivialPlaces
<1>7. PlacesMore(g, setTrivialProgToPhysMap(n))
  BY <1>1, <1>6, PlacesMoreFacts
<1>8. GlobalMapOf(c, setTrivialProgToPhysMap(n))
  BY <1>2, <1>7
<1> QED
  BY <1>3, <1>5, <1>6, <1>8 DEF GlobalsSettled

(* The values that are used belong to different qubits, and are different  *)
(* physical qubits.                                                        *)
LEMMA CustomFits ==
  ASSUME input \in Inputs, NEW g, GlobalsReady(input, g), ~ IndexTooLarge, ~ DuplicateIndex
  PROVE  Fitting(g, LeadingValues(CustomValues))
<1> DEFINE used(a, r, i) == /\ r \in Customized /\ i \in 1 .. Len(initializer[r])
                            /\ initializer[r][i] \in PlatformQubits
                            /\ a = <<Array[r][i], initializer[r][i]>>
           entries == {e \in CustomEntries : initializer[e[1]][e[2]] >= 0}
<1>1. /\ input.globals \in Seq(Registers)
      /\ \A i \in 1 .. Len(input.globals) :
              /\ input.initializer[input.globals[i]] \in Seq(Int)
              /\ Len(input.initializer[input.globals[i]]) = Len(Array[input.globals[i]])
  BY PlacementInputs
<1>2. \A r \in ToSet(GlobalArrays) :
        /\ r \in Registers /\ initializer[r] \in Seq(Int) /\ Len(initializer[r]) = Len(Array[r])
        /\ \E j \in 1 .. Len(GlobalArrays) : GlobalArrays[j] = r
  BY <1>1 DEF ToSet, GlobalArrays, initializer
<1>3. Customized \subseteq ToSet(GlobalArrays)
  BY DEF Customized
<1>4. \A r \in Customized :
        /\ r \in Registers /\ initializer[r] \in Seq(Int) /\ Len(initializer[r]) = Len(Array[r])
        /\ \A i \in 1 .. Len(initializer[r]) : initializer[r][i] <= NumPlatformQubits - 1
  BY <1>2, <1>3, PlatformFacts DEF IndexTooLarge
<1>5. ASSUME NEW a \in LeadingValues(CustomValues)
      PROVE  \E r, i : used(a, r, i)
  <2>1. PICK r \in Customized : a \in {<<Array[r][i], CustomValues[r][i]>> :
            i \in {i \in DOMAIN CustomValues[r] : \A j \in 1 .. i : CustomValues[r][j] # Virtual}}
    BY <1>5 DEF LeadingValues, CustomValues
  <2>2. PICK i \in DOMAIN CustomValues[r] :
          a = <<Array[r][i], CustomValues[r][i]>> /\ \A j \in 1 .. i : CustomValues[r][j] # Virtual
    BY <2>1
  <2>3. initializer[r] \in Seq(Int) /\ Len(initializer[r]) \in Nat
    BY <1>4
  <2>4. CustomValues[r] = [j \in 1 .. Len(initializer[r]) |-> IF initializer[r][j] < 0 THEN Virtual ELSE initializer[r][j]]
    BY DEF CustomValues
  <2>5. i \in 1 .. Len(initializer[r]) /\ CustomValues[r][i] = IF initializer[r][i] < 0 THEN Virtual ELSE initializer[r][i]
    BY <2>2, <2>4
  <2>6. initializer[r][i] >= 0 /\ CustomValues[r][i] = initializer[r][i] /\ initializer[r][i] \in Int
    <3>1. CustomValues[r][i] # Virtual
      BY <2>2, <2>3, <2>5
    <3>2. initializer[r][i] \in Int
      BY <2>3, <2>5
    <3> QED
      BY <2>5, <3>1, <3>2
  <2>7. initializer[r][i] \in PlatformQubits
    BY <1>4, <2>5, <2>6, PlatformFacts DEF PlatformQubits
  <2> QED
    BY <2>2, <2>5, <2>6, <2>7
<1>6. ASSUME NEW a, NEW r, NEW i, used(a, r, i)
      PROVE  a[1] \in Unset(g) /\ a[2] \in VacantSet(g) /\ a[1] = Array[r][i] /\ a[2] = initializer[r][i]
  <2>1. r \in Registers /\ i \in 1 .. Len(Array[r]) /\ r \in ToSet(GlobalArrays)
    BY <1>3, <1>4, <1>6
  <2>2. Array[r][i] \in ToSet(Array[r])
    BY <2>1, ArrayFacts DEF ToSet
  <2>3. Array[r][i] \in GlobalsOf(input)
    BY <2>1, <2>2 DEF GlobalsOf, ArrayQubits, GlobalArrays
  <2> QED
    BY <1>6, <2>3 DEF GlobalsReady
<1>7. ASSUME NEW a, NEW b, NEW r, NEW i, NEW s, NEW j, used(a, r, i), used(b, s, j), a[1] = b[1] \/ a[2] = b[2]
      PROVE  a = b
  <2>1. CASE a[1] = b[1]
    <3>1. r \in Registers /\ s \in Registers /\ i \in 1 .. Len(Array[r]) /\ j \in 1 .. Len(Array[s])
      BY <1>4, <1>7
    <3>2. Array[r][i] = Array[s][j]
      BY <1>7, <2>1
    <3>3. r = s /\ i = j
      BY <3>1, <3>2, ArraysPartitionQubits
    <3> QED
      BY <1>7, <3>3
  <2>2. CASE a[2] = b[2]
    <3>1. <<r, i>> \in CustomEntries /\ <<s, j>> \in CustomEntries
      BY <1>7 DEF CustomEntries
    <3>2. initializer[r][i] = initializer[s][j] /\ initializer[r][i] >= 0
      BY <1>7, <2>2, PlatformFacts DEF PlatformQubits
    <3> DEFINE x == <<r, i>>
               y == <<s, j>>
    <3>3. x[1] = r /\ x[2] = i /\ y[1] = s /\ y[2] = j /\ (x = y => r = s /\ i = j)
      OBVIOUS
    <3> HIDE DEF x, y
    <3>4. x \in CustomEntries /\ y \in CustomEntries
      BY <3>1 DEF x, y
    <3>5. x = y
      BY <3>2, <3>3, <3>4 DEF DuplicateIndex
    <3> QED
      BY <1>7, <3>3, <3>5
  <2> QED
    BY <1>7, <2>1, <2>2
<1> HIDE DEF used
<1>8. \A a \in LeadingValues(CustomValues) : a[1] \in Unset(g) /\ a[2] \in VacantSet(g)
  BY <1>5, <1>6
<1>9. \A a, b \in LeadingValues(CustomValues) : a[1] = b[1] \/ a[2] = b[2] => a = b
  BY <1>5, <1>7
<1> QED
  BY <1>8, <1>9 DEF Fitting

(* A value the user wrote before a placeholder is used.                    *)
LEMMA CustomIsUsed ==
  ASSUME input \in Inputs, NEW e \in UserEntries, \A j \in 1 .. e[2] : initializer[e[1]][j] >= 0
  PROVE  <<Array[e[1]][e[2]], initializer[e[1]][e[2]]>> \in LeadingValues(CustomValues)
<1>0. PICK r \in ToSet(GlobalArrays) :
        ToSet(initializer[r]) # {0} /\ \E i \in 1 .. Len(initializer[r]) : e = <<r, i>>
  BY DEF UserEntries
<1>1. PICK i \in 1 .. Len(initializer[r]) : e = <<r, i>> /\ ToSet(initializer[r]) # {0}
  BY <1>0
<1>2. e[1] = r /\ e[2] = i
  BY <1>1
<1>3. initializer[r] \in Seq(Int) /\ Len(initializer[r]) \in Nat
  <2>1. /\ input.globals \in Seq(Registers)
        /\ \A j \in 1 .. Len(input.globals) : input.initializer[input.globals[j]] \in Seq(Int)
    BY PlacementInputs
  <2>2. PICK j \in 1 .. Len(input.globals) : input.globals[j] = r
    BY <2>1 DEF ToSet, GlobalArrays
  <2>3. initializer[r] \in Seq(Int)
    BY <2>1, <2>2 DEF initializer
  <2> QED
    BY <2>3
<1> DEFINE v == initializer[r]
<1>4. v \in Seq(Int) /\ Len(v) \in Nat /\ i \in 1 .. Len(v) /\ ToSet(v) # {0} /\ \A j \in 1 .. i : v[j] >= 0
  BY <1>1, <1>2, <1>3
<1> HIDE DEF v
<1>5. \E j \in 1 .. Len(v) : v[j] # 0
  BY <1>4 DEF ToSet
<1>6. r \in Customized
  BY <1>1, <1>5 DEF Customized, v
<1>7. CustomValues[r] = [j \in 1 .. Len(v) |-> IF v[j] < 0 THEN Virtual ELSE v[j]] /\ r \in DOMAIN CustomValues
  BY <1>6 DEF CustomValues, v
<1>8. \A j \in 1 .. i : j \in 1 .. Len(v) /\ v[j] \in Int /\ ~ v[j] < 0
  BY <1>4
<1>9. i \in DOMAIN CustomValues[r] /\ CustomValues[r][i] = v[i] /\ \A j \in 1 .. i : CustomValues[r][j] # Virtual
  BY <1>4, <1>7, <1>8, ConventionalValues
<1>10. <<Array[r][i], CustomValues[r][i]>> \in LeadingValues(CustomValues)
  <2> SUFFICES ASSUME NEW values, r \in DOMAIN values, i \in DOMAIN values[r],
                      \A j \in 1 .. i : values[r][j] # Virtual
               PROVE  <<Array[r][i], values[r][i]>> \in LeadingValues(values)
    BY <1>7, <1>9
  <2> DEFINE part(s) == {<<Array[s][n], values[s][n]>> :
                           n \in {n \in DOMAIN values[s] : \A j \in 1 .. n : values[s][j] # Virtual}}
  <2>1. <<Array[r][i], values[r][i]>> \in part(r)
    OBVIOUS
  <2>2. LeadingValues(values) = UNION {part(s) : s \in DOMAIN values}
    BY DEF LeadingValues
  <2> QED
    BY <2>1, <2>2

<1> QED
  BY <1>2, <1>9, <1>10 DEF v

(* The size of the largest kernel is that of one, or of the globals.       *)
LEMMA LargestIsThere ==
  ASSUME input \in Inputs
  PROVE  LargestKernel \in {Cardinality(GlobalQubits \cup ToSet(kernels[i])) : i \in DOMAIN kernels} \cup {Len(GlobalIds)}
<1> DEFINE sizes == {Cardinality(GlobalQubits \cup ToSet(kernels[i])) : i \in DOMAIN kernels} \cup {Len(GlobalIds)}
           all == Cardinality(Qubits)
           rooms == {all - n : n \in sizes}
<1>1. all \in Nat /\ IsFiniteSet(Qubits) /\ \A S \in SUBSET Qubits : Cardinality(S) \in Nat /\ Cardinality(S) <= all
  BY QubitsAreFinite, FS_CardinalityType, FS_Subset
<1>2. GlobalQubits \in SUBSET Qubits /\ Len(GlobalIds) = Cardinality(GlobalQubits)
      /\ DOMAIN kernels = 1 .. Len(kernels) /\ \A i \in 1 .. Len(kernels) : ToSet(kernels[i]) \subseteq Qubits
  BY ProgramFacts DEF GlobalQubits, GlobalIds, GlobalArrays, GlobalsOf, kernels
<1>3. \A i \in DOMAIN kernels : GlobalQubits \cup ToSet(kernels[i]) \in SUBSET Qubits
  BY <1>2
<1>4. \A n \in sizes : n \in Nat /\ n <= all
  BY <1>1, <1>2, <1>3
<1> HIDE DEF sizes, all
<1>5. rooms \in SUBSET Nat /\ rooms # {}
  <2>1. sizes # {}
    BY DEF sizes
  <2> QED
    BY <1>1, <1>4, <2>1
<1>6. PICK room \in rooms : \A o \in rooms : room <= o
  BY <1>5, LeastOf
<1>7. PICK n \in sizes : room = all - n
  BY <1>6
<1>8. \A o \in sizes : o <= n
  <2>1. \A o \in sizes : all - n <= all - o
    BY <1>6, <1>7
  <2> QED
    BY <1>1, <1>4, <2>1
<1>9. LargestKernel = CHOOSE m \in sizes : \A o \in sizes : o <= m
  BY DEF LargestKernel, sizes
<1>10. LargestKernel \in sizes
  BY <1>8, <1>9
<1> QED
  BY <1>10 DEF sizes
-----------------------------------------------------------------------------
(* Kernel i is placed by map m; f is the map it ends with.                 *)
KernelDone(c, g, method, i, m, f) ==
  /\ PlacedFor(c, g, i, m)
  /\ f = NoMap \/ WellFormed(f)
  /\ KnownQubits(m) # {} =>
       /\ f = m
       /\ (method = "local" => IdsAreDense(m)) => Complete(m)

ControlInv ==
  /\ input \in Inputs
  /\ phase \in {"register", "globals", "kernels", "done", "exit"}
  /\ placement_method_ \in {"trivial", "dense", "custom", "local"}
  /\ DOMAIN qubit_maps = DOMAIN kernels /\ DOMAIN final_qubit_maps = DOMAIN kernels
  /\ k \in 1 .. Len(kernels) + 1
  /\ phase \in {"register", "globals"} => k = 1

(* Global qubits are all placed before the first kernel is.                *)
GlobalsInv ==
  /\ global_qubit_map = NoMap \/ GlobalMapOf(input, global_qubit_map)
  /\ phase = "globals" => GlobalsReady(input, global_qubit_map)
  /\ phase \in {"kernels", "done"} \/ k > 1 => GlobalsSettled(input, global_qubit_map)

KernelsInv ==
  \A i \in DOMAIN kernels :
     IF i < k
     THEN KernelDone(input, global_qubit_map, placement_method_, i, qubit_maps[i], final_qubit_maps[i])
     ELSE qubit_maps[i] = NoMap /\ final_qubit_maps[i] = NoMap

PlacementInv ==
  ControlInv /\ GlobalsInv /\ KernelsInv /\ ExitsAreJustified /\ ValuesBeforePlaceholderFollowed

LEMMA PlacementStarts == PlacementInit => PlacementInv
<1> SUFFICES ASSUME PlacementInit
             PROVE  PlacementInv
  OBVIOUS
<1>1. input \in Inputs /\ phase = "register" /\ k = 1 /\ placement_method_ = input.method /\ global_qubit_map = NoMap
      /\ qubit_maps = [i \in DOMAIN kernels |-> NoMap] /\ final_qubit_maps = [i \in DOMAIN kernels |-> NoMap]
  BY DEF PlacementInit
<1>2. Len(kernels) \in Nat /\ input.method \in {"trivial", "dense", "custom", "local"}
  BY <1>1, ProgramFacts, PlacementInputs DEF kernels
<1>3. ControlInv
  BY <1>1, <1>2 DEF ControlInv
<1>4. GlobalsInv
  BY <1>1 DEF GlobalsInv
<1>5. KernelsInv
  <2>1. \A i \in DOMAIN kernels : ~ i < k
    BY <1>1, ProgramFacts DEF kernels
  <2> QED
    BY <1>1, <2>1 DEF KernelsInv
<1>6. ExitsAreJustified /\ ValuesBeforePlaceholderFollowed
  BY <1>1 DEF ExitsAreJustified, ValuesBeforePlaceholderFollowed, CustomFollowed
<1> QED
  BY <1>3, <1>4, <1>5, <1>6 DEF PlacementInv

(* Nothing that is followed is placed anew.                                *)
LEMMA FollowedStays ==
  ASSUME ValuesBeforePlaceholderFollowed, input' = input, global_qubit_map' = global_qubit_map,
         placement_method_' = placement_method_,
         phase' \in {"kernels", "done"} => phase \in {"kernels", "done"}
  PROVE  ValuesBeforePlaceholderFollowed'
<1>1. initializer' = initializer /\ UserEntries' = UserEntries
  BY ProgramStays DEF initializer
<1> QED
  BY <1>1 DEF ValuesBeforePlaceholderFollowed, CustomFollowed

LEMMA ReasonStays ==
  ASSUME input' = input, placement_method_' = placement_method_
  PROVE  ReasonToExit' <=> ReasonToExit
<1>1. kernels' = kernels
  BY DEF kernels
<1> QED
  BY <1>1, ProgramStays DEF ReasonToExit

LEMMA ExitKeeps ==
  ASSUME PlacementInv, phase \in {"register", "globals", "kernels"}, Exit, ReasonToExit
  PROVE  PlacementInv'
<1>1. /\ phase' = "exit" /\ placement_method_' = placement_method_ /\ input' = input /\ k' = k
      /\ global_qubit_map' = global_qubit_map /\ qubit_maps' = qubit_maps /\ final_qubit_maps' = final_qubit_maps
  BY DEF Exit, mapVars
<1>2. ReasonToExit'
  BY <1>1, ReasonStays
<1>3. ControlInv'
  BY <1>1 DEF PlacementInv, ControlInv, kernels
<1>4. GlobalsInv'
  BY <1>1 DEF PlacementInv, GlobalsInv
<1>5. KernelsInv'
  BY <1>1 DEF PlacementInv, KernelsInv, kernels
<1>6. ExitsAreJustified'
  BY <1>2 DEF ExitsAreJustified
<1>7. ValuesBeforePlaceholderFollowed'
  BY <1>1, FollowedStays DEF PlacementInv
<1> QED
  BY <1>3, <1>4, <1>5, <1>6, <1>7 DEF PlacementInv

LEMMA GlobalsKeep ==
  ASSUME PlacementInv, phase = "globals", NEW m, PlaceGlobals(m), GlobalsSettled(input, m),
         placement_method_ = "custom" =>
           \A e \in UserEntries : (\A j \in 1 .. e[2] : initializer[e[1]][j] >= 0) =>
              m.prog[Array[e[1]][e[2]]] = initializer[e[1]][e[2]]
  PROVE  PlacementInv'
<1>1. /\ phase' = "kernels" /\ placement_method_' = placement_method_ /\ input' = input /\ k' = k /\ k = 1
      /\ global_qubit_map' = m /\ qubit_maps' = qubit_maps /\ final_qubit_maps' = final_qubit_maps
  BY DEF PlaceGlobals, PlacementInv, ControlInv
<1>2. ControlInv'
  BY <1>1 DEF PlacementInv, ControlInv, kernels
<1>3. GlobalsInv'
  BY <1>1 DEF GlobalsInv, GlobalsSettled
<1>4. KernelsInv'
  <2>1. \A i \in DOMAIN kernels : ~ i < k
    BY <1>1, ProgramFacts DEF kernels, PlacementInv, ControlInv
  <2> QED
    BY <1>1, <2>1 DEF PlacementInv, KernelsInv, kernels
<1>5. ExitsAreJustified'
  BY <1>1 DEF ExitsAreJustified
<1>6. ValuesBeforePlaceholderFollowed'
  <2>1. initializer' = initializer /\ UserEntries' = UserEntries
    BY <1>1, ProgramStays DEF initializer
  <2> QED
    BY <1>1, <2>1 DEF ValuesBeforePlaceholderFollowed, CustomFollowed
<1> QED
  BY <1>2, <1>3, <1>4, <1>5, <1>6 DEF PlacementInv

LEMMA KernelKeeps ==
  ASSUME PlacementInv, phase = "kernels", k <= Len(kernels), NEW m, NEW f, NextKernel(m, f),
         KernelDone(input, global_qubit_map, placement_method_, k, m, f)
  PROVE  PlacementInv'
<1>1. /\ phase' = phase /\ placement_method_' = placement_method_ /\ input' = input /\ k' = k + 1
      /\ global_qubit_map' = global_qubit_map
      /\ qubit_maps' = [qubit_maps EXCEPT ![k] = m] /\ final_qubit_maps' = [final_qubit_maps EXCEPT ![k] = f]
  BY DEF NextKernel
<1>2. /\ input \in Inputs /\ k \in 1 .. Len(kernels) /\ Len(kernels) \in Nat /\ DOMAIN kernels = 1 .. Len(kernels)
      /\ DOMAIN qubit_maps = DOMAIN kernels /\ DOMAIN final_qubit_maps = DOMAIN kernels
  BY ProgramFacts DEF PlacementInv, ControlInv, kernels
<1>3. ControlInv'
  BY <1>1, <1>2 DEF PlacementInv, ControlInv, kernels
<1>4. GlobalsInv'
  BY <1>1 DEF PlacementInv, GlobalsInv
<1>5. KernelsInv'
  <2>1. kernels' = kernels
    BY <1>1 DEF kernels
  <2>2. qubit_maps'[k] = m /\ final_qubit_maps'[k] = f
        /\ \A i \in DOMAIN kernels : i # k => qubit_maps'[i] = qubit_maps[i] /\ final_qubit_maps'[i] = final_qubit_maps[i]
    BY <1>1, <1>2
  <2>3. ASSUME NEW i \in DOMAIN kernels
        PROVE  IF i < k + 1
               THEN KernelDone(input, global_qubit_map, placement_method_, i, qubit_maps'[i], final_qubit_maps'[i])
               ELSE qubit_maps'[i] = NoMap /\ final_qubit_maps'[i] = NoMap
    <3>1. CASE i < k
      BY <1>2, <2>2, <2>3, <3>1 DEF PlacementInv, KernelsInv
    <3>2. CASE i = k
      BY <1>2, <2>2, <3>2
    <3>3. CASE i > k
      BY <1>2, <2>2, <2>3, <3>3 DEF PlacementInv, KernelsInv
    <3> QED
      BY <1>2, <3>1, <3>2, <3>3
  <2> QED
    BY <1>1, <2>1, <2>3 DEF KernelsInv
<1>6. ExitsAreJustified'
  BY <1>1 DEF ExitsAreJustified
<1>7. ValuesBeforePlaceholderFollowed'
  BY <1>1, FollowedStays DEF PlacementInv
<1> QED
  BY <1>3, <1>4, <1>5, <1>6, <1>7 DEF PlacementInv
-----------------------------------------------------------------------------
(* Each step.                                                              *)
LEMMA RegisterStep ==
  ASSUME PlacementInv, initializeGlobalQubitMap
  PROVE  PlacementInv'
<1>1. phase = "register" /\ input \in Inputs /\ k = 1
  BY DEF initializeGlobalQubitMap, PlacementInv, ControlInv
<1>2. CASE Len(GlobalIds) > NumPlatformQubits
  <2>1. Exit /\ ReasonToExit
    BY <1>2 DEF initializeGlobalQubitMap, ReasonToExit
  <2> QED
    BY <1>1, <2>1, ExitKeeps
<1>3. CASE ~ Len(GlobalIds) > NumPlatformQubits
  <2>1. /\ phase' = "globals" /\ placement_method_' = placement_method_ /\ input' = input /\ k' = k
        /\ global_qubit_map' = RegisteredGlobals /\ qubit_maps' = qubit_maps /\ final_qubit_maps' = final_qubit_maps
    BY <1>3 DEF initializeGlobalQubitMap
  <2>2. GlobalsReady(input, RegisteredGlobals)
    <3>1. Len(GlobalIds) = Cardinality(GlobalsOf(input)) /\ Cardinality(GlobalsOf(input)) \in Nat
      BY <1>1, ProgramFacts DEF GlobalIds, GlobalArrays
    <3>2. Cardinality(GlobalsOf(input)) <= NumPlatformQubits
      BY <1>3, <3>1, PlatformFacts
    <3> QED
      BY <1>1, <3>2, GlobalsRegistered DEF GlobalsReady, RegisteredGlobals, GlobalIds, GlobalArrays
  <2>3. ControlInv'
    BY <1>1, <2>1 DEF PlacementInv, ControlInv, kernels
  <2>4. GlobalsInv'
    BY <1>1, <2>1, <2>2 DEF GlobalsInv, GlobalsReady
  <2>5. KernelsInv'
    <3>1. \A i \in DOMAIN kernels : ~ i < k
      BY <1>1, ProgramFacts DEF kernels
    <3> QED
      BY <2>1, <3>1 DEF PlacementInv, KernelsInv, kernels
  <2>6. ExitsAreJustified' /\ ValuesBeforePlaceholderFollowed'
    BY <2>1 DEF ExitsAreJustified, ValuesBeforePlaceholderFollowed, CustomFollowed
  <2> QED
    BY <2>3, <2>4, <2>5, <2>6 DEF PlacementInv
<1> QED
  BY <1>2, <1>3

LEMMA TrivialGlobalsStep ==
  ASSUME PlacementInv, TrivialGlobals
  PROVE  PlacementInv'
<1> DEFINE g == global_qubit_map
<1>1. phase = "globals" /\ placement_method_ = "trivial" /\ input \in Inputs /\ GlobalsReady(input, g)
  BY DEF TrivialGlobals, PlacementInv, ControlInv, GlobalsInv
<1>2. PlacesMore(g, g)
  BY <1>1 DEF GlobalsReady, GlobalMapOf, PlacesMore
<1>3. FitsTrivially(g) /\ GlobalsSettled(input, setTrivialProgToPhysMap(g))
  BY <1>1, <1>2, GlobalsPlaced
<1>4. PlaceGlobals(setTrivialProgToPhysMap(g))
  BY <1>3 DEF TrivialGlobals
<1> QED
  BY <1>1, <1>3, <1>4, GlobalsKeep

(* A dense set that is too small leaves the rest to the trivial placement. *)
LEMMA DenseGlobalsStep ==
  ASSUME PlacementInv, DenseGlobals
  PROVE  PlacementInv'
<1> DEFINE g == global_qubit_map
<1>1. phase = "globals" /\ placement_method_ = "dense" /\ input \in Inputs /\ GlobalsReady(input, g) /\ k = 1
  BY DEF DenseGlobals, PlacementInv, ControlInv, GlobalsInv
<1>2. PICK S \in DenseSets({}, Len(GlobalIds)) :
        IF Cardinality(S) < Len(GlobalIds)
        THEN /\ placement_method_' = "trivial"
             /\ phase' = "register"
             /\ UNCHANGED <<input, mapVars, k>>
        ELSE PlaceGlobals(setCustomSet(g, S))
  BY DEF DenseGlobals
<1>3. S \in SUBSET PlatformQubits /\ Cardinality(S) \in Nat
  <2>1. S \in SUBSET PlatformQubits
    BY DEF DenseSets
  <2> QED
    BY <2>1, PlatformFacts, FS_Subset, FS_CardinalityType
<1>4. Len(GlobalIds) = Cardinality(GlobalsOf(input)) /\ Cardinality(GlobalsOf(input)) \in Nat
  BY <1>1, ProgramFacts DEF GlobalIds, GlobalArrays
<1>5. CASE Cardinality(S) < Len(GlobalIds)
  <2>1. /\ phase' = "register" /\ placement_method_' = "trivial" /\ input' = input /\ k' = k
        /\ global_qubit_map' = global_qubit_map /\ qubit_maps' = qubit_maps /\ final_qubit_maps' = final_qubit_maps
    BY <1>2, <1>5 DEF mapVars
  <2>2. ControlInv'
    BY <1>1, <2>1 DEF PlacementInv, ControlInv, kernels
  <2>3. GlobalsInv'
    BY <1>1, <2>1 DEF PlacementInv, GlobalsInv
  <2>4. KernelsInv'
    <3>1. \A i \in DOMAIN kernels : ~ i < k
      BY <1>1, ProgramFacts DEF kernels
    <3> QED
      BY <2>1, <3>1 DEF PlacementInv, KernelsInv, kernels
  <2>5. ExitsAreJustified' /\ ValuesBeforePlaceholderFollowed'
    BY <2>1 DEF ExitsAreJustified, ValuesBeforePlaceholderFollowed, CustomFollowed
  <2> QED
    BY <2>2, <2>3, <2>4, <2>5 DEF PlacementInv
<1>6. CASE ~ Cardinality(S) < Len(GlobalIds)
  <2>1. PlaceGlobals(setCustomSet(g, S))
    BY <1>2, <1>6
  <2>2. Unset(g) = GlobalsOf(input) /\ VacantSet(g) = PlatformQubits
    BY <1>1 DEF GlobalsReady
  <2>3. WellFormed(g) /\ isConsistent(g)
    BY <1>1 DEF GlobalsReady, GlobalMapOf
  <2>4. Cardinality(Unset(g)) <= Cardinality(S \cap VacantSet(g))
    <3>1. S \cap VacantSet(g) = S
      BY <1>3, <2>2
    <3>2. Cardinality(S \cap VacantSet(g)) = Cardinality(S)
      BY <3>1
    <3>3. Cardinality(Unset(g)) = Len(GlobalIds)
      BY <1>4, <2>2
    <3>4. Len(GlobalIds) <= Cardinality(S)
      BY <1>3, <1>4, <1>6
    <3> QED
      BY <3>2, <3>3, <3>4

  <2>5. PlacesMore(g, setCustomSet(g, S)) /\ Unset(setCustomSet(g, S)) = {}
    BY <1>3, <2>3, <2>4, SetPlaces
  <2>6. GlobalsSettled(input, setCustomSet(g, S))
    BY <1>1, <2>5, GlobalsPlaced DEF GlobalsSettled
  <2> QED
    BY <1>1, <2>1, <2>6, GlobalsKeep
<1> QED
  BY <1>5, <1>6

LEMMA CustomGlobalsStep ==
  ASSUME PlacementInv, CustomGlobals
  PROVE  PlacementInv'
<1> DEFINE g == global_qubit_map
           pairs == LeadingValues(CustomValues)
           custom == setCustomRanges(g, CustomValues)
<1>1. phase = "globals" /\ placement_method_ = "custom" /\ input \in Inputs /\ GlobalsReady(input, g)
  BY DEF CustomGlobals, PlacementInv, ControlInv, GlobalsInv
<1>2. CASE IndexTooLarge \/ DuplicateIndex
  <2>1. Exit /\ ReasonToExit
    BY <1>1, <1>2 DEF CustomGlobals, ReasonToExit
  <2> QED
    BY <1>1, <2>1, ExitKeeps
<1>3. CASE ~ (IndexTooLarge \/ DuplicateIndex)
  <2>1. PICK S \in DenseSets(getMappedPhysQubits(custom), Len(GlobalIds)) :
          IF FitsTrivially(setCustomSet(custom, S))
          THEN PlaceGlobals(setTrivialProgToPhysMap(setCustomSet(custom, S))) ELSE Exit
    BY <1>3 DEF CustomGlobals
  <2>2. S \in SUBSET PlatformQubits
    BY DEF DenseSets
  <2>3. WellFormed(g) /\ isConsistent(g)
    BY <1>1 DEF GlobalsReady, GlobalMapOf
  <2>4. Fitting(g, pairs)
    BY <1>1, <1>3, CustomFits
  <2> HIDE DEF pairs
  <2>5. PlacesMore(g, custom) /\ \A a \in pairs : custom.prog[a[1]] = a[2]
    BY <2>3, <2>4, AssignPlaces DEF setCustomRanges, pairs
  <2> HIDE DEF custom
  <2>6. WellFormed(custom)
    BY <2>5 DEF PlacesMore
  <2> DEFINE dense == setCustomSet(custom, S)
             m == setTrivialProgToPhysMap(dense)
  <2>7. PlacesMore(custom, dense)
    BY <2>2, <2>6, SetPlaces
  <2>8. PlacesMore(g, dense)
    BY <2>3, <2>5, <2>7, PlacesMoreFacts
  <2> HIDE DEF dense
  <2>9. FitsTrivially(dense) /\ PlacesMore(dense, m) /\ GlobalsSettled(input, m)
    BY <1>1, <2>8, GlobalsPlaced
  <2>10. PlaceGlobals(m)
    BY <2>1, <2>9 DEF dense
  <2>11. PlacesMore(custom, m)
    BY <2>6, <2>7, <2>9, PlacesMoreFacts
  <2> HIDE DEF m
  <2>12. \A a \in pairs : m.prog[a[1]] = a[2]
    <3> SUFFICES ASSUME NEW a \in pairs
                 PROVE  m.prog[a[1]] = a[2]
      OBVIOUS
    <3>1. a[1] \in Qubits /\ a[2] \in PlatformQubits
      BY <2>4 DEF Fitting, Unset, VacantSet
    <3>2. custom.prog[a[1]] = a[2] /\ a[2] # Virtual
      BY <2>5, <3>1, PlatformFacts DEF Unplaced
    <3> QED
      BY <2>6, <2>11, <3>1, <3>2, PlacesMoreFacts
  <2>13. ASSUME NEW e \in UserEntries, \A j \in 1 .. e[2] : initializer[e[1]][j] >= 0
         PROVE  m.prog[Array[e[1]][e[2]]] = initializer[e[1]][e[2]]
    <3> DEFINE a == <<Array[e[1]][e[2]], initializer[e[1]][e[2]]>>
    <3>1. a \in pairs
      BY <1>1, <2>13, CustomIsUsed DEF pairs
    <3>2. m.prog[a[1]] = a[2]
      BY <2>12, <3>1
    <3> QED
      BY <3>2
  <2> QED
    BY <1>1, <2>9, <2>10, <2>13, GlobalsKeep
<1> QED
  BY <1>2, <1>3

(* All ids are placed: each of them is that of a global qubit.             *)
LEMMA LocalGlobalsStep ==
  ASSUME PlacementInv, LocalGlobals
  PROVE  PlacementInv'
<1> DEFINE g == global_qubit_map
<1>1. phase = "globals" /\ placement_method_ = "local" /\ input \in Inputs /\ GlobalsReady(input, g)
  BY DEF LocalGlobals, PlacementInv, ControlInv, GlobalsInv
<1>2. WellFormed(g) /\ isConsistent(g) /\ GlobalMapOf(input, g)
      /\ Unset(g) = GlobalsOf(input) /\ VacantSet(g) = PlatformQubits
      /\ ToSet(g.order) = {RegisterOf(q) : q \in GlobalsOf(input)} /\ KnownQubits(g) = GlobalsOf(input)
  BY <1>1 DEF GlobalsReady, GlobalMapOf
<1>3. /\ Len(GlobalIds) = Cardinality(GlobalsOf(input)) /\ Cardinality(GlobalsOf(input)) \in Nat
      /\ ToSet(GlobalIds) = GlobalsOf(input) /\ GlobalsOf(input) \in SUBSET Qubits
      /\ GlobalIds \in Seq(Qubits) /\ ToSet(input.globals) \subseteq Registers
  BY <1>1, ProgramFacts DEF GlobalIds, GlobalArrays
<1>4. CASE GlobalIds = <<>>
  <2>1. GlobalsOf(input) = {}
    BY <1>3, <1>4 DEF ToSet
  <2>2. GlobalsSettled(input, g) /\ PlaceGlobals(g)
    BY <1>2, <1>4, <2>1 DEF GlobalsSettled, LocalGlobals
  <2> QED
    BY <1>1, <2>2, GlobalsKeep
<1>5. CASE GlobalIds # <<>>
  <2> DEFINE ids == Ids(g.order)
  <2>1. ArrayQubits(g.order) = GlobalsOf(input)
    <3>1. \A q \in Qubits : q \in ArrayQubits(g.order) => RegisterOf(q) \in ToSet(input.globals)
      <4> SUFFICES ASSUME NEW q \in Qubits, q \in ArrayQubits(g.order)
                   PROVE  RegisterOf(q) \in ToSet(input.globals)
        OBVIOUS
      <4>1. PICK o \in GlobalsOf(input) : RegisterOf(q) = RegisterOf(o)
        BY <1>2, WellFormedFacts
      <4> QED
        BY <1>3, <4>1, ArrayQubitsFacts DEF GlobalsOf
    <3>2. \A q \in Qubits : q \in ArrayQubits(g.order) => q \in GlobalsOf(input)
      BY <1>3, <3>1, ArrayQubitsFacts DEF GlobalsOf
    <3> QED
      BY <1>2, <3>2, WellFormedFacts
  <2>2. ids \in Enumeration(GlobalsOf(input))
    BY <1>2, <2>1, WellFormedFacts
  <2>3. Len(ids) = Len(GlobalIds) /\ DOMAIN ids = 1 .. Len(GlobalIds) /\ ToSet(ids) = GlobalsOf(input)
    BY <1>3, <2>2, QubitSetsAreFinite, EnumerationFacts
  <2>4. CASE LargestKernel > NumPlatformQubits \/ ~ FitsById(g)
    <3>1. Exit
      BY <1>5, <2>4 DEF LocalGlobals
    <3>2. FitsById(g)
      BY <1>1, <1>2, <1>3, <2>3, WellFormedFacts, PlatformFacts DEF FitsById, GlobalsReady
    <3>3. LargestKernel > NumPlatformQubits
      BY <2>4, <3>2
    <3>4. ReasonToExit
      BY <1>1, <3>3, LargestIsThere DEF ReasonToExit
    <3> QED
      BY <1>1, <3>1, <3>4, ExitKeeps
  <2>5. CASE ~ (LargestKernel > NumPlatformQubits \/ ~ FitsById(g))
    <3>1. PICK f \in Placements(1 .. Len(GlobalIds), PlatformQubits) : PlaceGlobals(setCustomMap(g, f))
      BY <1>1, <1>5, <2>5 DEF LocalGlobals
    <3>2. PlacesMore(g, setCustomMap(g, f))
          /\ \A id \in 1 .. Len(GlobalIds) : ids[id] \notin Unset(setCustomMap(g, f))
      BY <1>2, <2>3, MapPlaces
    <3>3. Unset(setCustomMap(g, f)) \in SUBSET GlobalsOf(input)
      BY <1>2, <3>2, PlacesMoreFacts
    <3>4. Unset(setCustomMap(g, f)) = {}
      BY <2>3, <3>2, <3>3 DEF ToSet
    <3>5. GlobalsSettled(input, setCustomMap(g, f))
      BY <1>1, <3>2, <3>4, GlobalsPlaced DEF GlobalsSettled
    <3> QED
      BY <1>1, <3>1, <3>5, GlobalsKeep
  <2> QED
    BY <2>4, <2>5
<1> QED
  BY <1>4, <1>5
-----------------------------------------------------------------------------
LEMMA KernelFacts ==
  ASSUME PlacementInv, phase = "kernels", k <= Len(kernels)
  PROVE  /\ input \in Inputs /\ GlobalsSettled(input, global_qubit_map)
         /\ k \in 1 .. Len(input.kernels) /\ k \in DOMAIN kernels
         /\ StartOf(input, global_qubit_map, k, InitializedMap) /\ SizedMap = InitializedMap
         /\ final_qubit_maps[k] = NoMap
         /\ getNumProgQubits(InitializedMap) = Cardinality(UsedBy(input, k))
         /\ Cardinality(UsedBy(input, k)) \in Nat
         /\ KernelTooLarge => ReasonToExit
<1>1. input \in Inputs /\ GlobalsSettled(input, global_qubit_map)
  BY DEF PlacementInv, ControlInv, GlobalsInv
<1>2. k \in 1 .. Len(kernels) /\ DOMAIN kernels = 1 .. Len(kernels) /\ UsedBy(input, k) \in SUBSET Qubits
  BY <1>1, ProgramFacts DEF PlacementInv, ControlInv, kernels, UsedBy
<1>3. StartOf(input, global_qubit_map, k, InitializedMap) /\ setNumPhysQubits(InitializedMap, NumPlatformQubits) = InitializedMap
  BY <1>1, <1>2, KernelStart DEF InitializedMap, PredecessorMap, kernels
<1>4. getNumProgQubits(InitializedMap) = Cardinality(UsedBy(input, k)) /\ Cardinality(UsedBy(input, k)) \in Nat
  BY <1>2, <1>3, QubitSetsAreFinite DEF getNumProgQubits, StartOf
<1>5. final_qubit_maps[k] = NoMap
  BY <1>2 DEF PlacementInv, KernelsInv
<1>6. KernelTooLarge => ReasonToExit
  <2>1. UsedBy(input, k) = GlobalQubits \cup ToSet(kernels[k])
    BY DEF UsedBy, GlobalQubits, GlobalsOf, GlobalArrays, kernels
  <2>2. Cardinality(UsedBy(input, k)) > NumPlatformQubits => ReasonToExit
    BY <1>2, <2>1 DEF ReasonToExit
  <2> QED
    BY <1>4, <2>2 DEF KernelTooLarge
<1> QED
  BY <1>1, <1>2, <1>3, <1>4, <1>5, <1>6 DEF SizedMap, kernels

(* A kernel whose qubits all have a place, one to a physical qubit.        *)
LEMMA CompleteKernelKeeps ==
  ASSUME PlacementInv, phase = "kernels", k <= Len(kernels), NEW m, NextKernel(m, m),
         PlacesMore(InitializedMap, m), Unset(m) = {}
  PROVE  PlacementInv'
<1>1. PlacedFor(input, global_qubit_map, k, m) /\ isConsistent(m)
  BY KernelFacts, KernelPlaced
<1>2. KernelDone(input, global_qubit_map, placement_method_, k, m, m)
  BY <1>1 DEF KernelDone, PlacedFor, Complete
<1> QED
  BY <1>2, KernelKeeps

LEMMA SkipKernelStep ==
  ASSUME PlacementInv, SkipKernel
  PROVE  PlacementInv'
<1> DEFINE m == InitializedMap
<1>1. phase = "kernels" /\ k <= Len(kernels) /\ getNumProgQubits(m) = 0 /\ NextKernel(m, final_qubit_maps[k])
  BY DEF SkipKernel
<1>2. StartOf(input, global_qubit_map, k, m) /\ final_qubit_maps[k] = NoMap
  BY <1>1, KernelFacts
<1>3. PlacedFor(input, global_qubit_map, k, m)
  BY <1>2 DEF StartOf, PlacedFor
<1>4. KnownQubits(m) = {}
  <2>1. IsFiniteSet(KnownQubits(m))
    BY QubitSetsAreFinite DEF KnownQubits
  <2> QED
    BY <1>1, <2>1, FS_EmptySet DEF getNumProgQubits
<1>5. KernelDone(input, global_qubit_map, placement_method_, k, m, final_qubit_maps[k])
  BY <1>2, <1>3, <1>4 DEF KernelDone
<1> QED
  BY <1>1, <1>5, KernelKeeps

LEMMA TrivialKernelStep ==
  ASSUME PlacementInv, TrivialKernel
  PROVE  PlacementInv'
<1> DEFINE m == InitializedMap
           n == setTrivialProgToPhysMap(m)
<1>1. phase = "kernels" /\ k <= Len(kernels)
  BY DEF TrivialKernel, HasKernel
<1>2. StartOf(input, global_qubit_map, k, m) /\ SizedMap = m /\ (KernelTooLarge => ReasonToExit)
      /\ input \in Inputs /\ GlobalsSettled(input, global_qubit_map) /\ k \in 1 .. Len(input.kernels)
      /\ getNumProgQubits(m) = Cardinality(UsedBy(input, k)) /\ Cardinality(UsedBy(input, k)) \in Nat
  BY <1>1, KernelFacts
<1>3. WellFormed(m) /\ PlacesMore(m, m)
  BY <1>2 DEF StartOf, PlacesMore
<1>4. ~ KernelTooLarge => FitsTrivially(m)
  BY <1>2, <1>3, KernelPlaced, PlatformFacts DEF KernelTooLarge
<1>5. CASE KernelTooLarge
  <2>1. Exit /\ ReasonToExit
    BY <1>2, <1>5 DEF TrivialKernel
  <2> QED
    BY <1>1, <2>1, ExitKeeps
<1>6. CASE ~ KernelTooLarge
  <2>1. NextKernel(n, n)
    BY <1>2, <1>4, <1>6 DEF TrivialKernel
  <2>2. PlacesMore(m, n) /\ Unset(n) = {}
    BY <1>3, <1>4, <1>6, TrivialPlaces
  <2> QED
    BY <1>1, <2>1, <2>2, CompleteKernelKeeps
<1> QED
  BY <1>5, <1>6

LEMMA DenseKernelStep ==
  ASSUME PlacementInv, DenseKernel
  PROVE  PlacementInv'
<1> DEFINE m == InitializedMap
<1>1. phase = "kernels" /\ k <= Len(kernels)
  BY DEF DenseKernel, HasKernel
<1>2. StartOf(input, global_qubit_map, k, m) /\ SizedMap = m /\ (KernelTooLarge => ReasonToExit)
      /\ input \in Inputs /\ GlobalsSettled(input, global_qubit_map) /\ k \in 1 .. Len(input.kernels)
      /\ getNumProgQubits(m) = Cardinality(UsedBy(input, k)) /\ Cardinality(UsedBy(input, k)) \in Nat
  BY <1>1, KernelFacts
<1>3. CASE KernelTooLarge
  <2>1. Exit /\ ReasonToExit
    BY <1>2, <1>3 DEF DenseKernel
  <2> QED
    BY <1>1, <2>1, ExitKeeps
<1>4. CASE ~ KernelTooLarge
  <2>1. PICK S \in DenseSets(getMappedPhysQubits(m), getNumProgQubits(m)) :
          LET dense == setCustomSet(m, S)
              n     == setTrivialProgToPhysMap(dense)
          IN  IF ~ FitsTrivially(dense) \/ ~ isConsistent(n) THEN Exit ELSE NextKernel(n, n)
    BY <1>2, <1>4 DEF DenseKernel
  <2> DEFINE dense == setCustomSet(m, S)
             n == setTrivialProgToPhysMap(dense)
  <2>2. S \in SUBSET PlatformQubits
    BY DEF DenseSets
  <2>3. WellFormed(m)
    BY <1>2 DEF StartOf
  <2>4. PlacesMore(m, dense)
    BY <2>2, <2>3, SetPlaces
  <2>5. FitsTrivially(dense) /\ WellFormed(dense)
    <3>1. Cardinality(UsedBy(input, k)) <= NumPlatformQubits
      BY <1>2, <1>4, PlatformFacts DEF KernelTooLarge
    <3> QED
      BY <1>2, <2>4, <3>1, KernelPlaced DEF PlacesMore
  <2>6. PlacesMore(dense, n) /\ Unset(n) = {}
    BY <2>5, TrivialPlaces
  <2>7. PlacesMore(m, n)
    BY <2>3, <2>4, <2>6, PlacesMoreFacts
  <2>8. isConsistent(n)
    BY <1>2, <2>7, KernelPlaced
  <2>9. NextKernel(n, n)
    BY <2>1, <2>5, <2>8
  <2> QED
    BY <1>1, <2>6, <2>7, <2>9, CompleteKernelKeeps
<1> QED
  BY <1>3, <1>4

(* What fits by id: all elements of the arrays a map knows.                *)
LEMMA FitsByIdFacts ==
  ASSUME NEW m, WellFormed(m)
  PROVE  FitsById(m) <=> Cardinality(ArrayQubits(m.order)) <= NumPlatformQubits
<1> DEFINE A == ArrayQubits(m.order)
           ids == Ids(m.order)
<1>1. ids \in Enumeration(A) /\ A \in SUBSET Qubits /\ getNumPhysQubits(m) = NumPlatformQubits
  BY WellFormedFacts
<1> HIDE DEF A, ids
<1>2. Len(ids) = Cardinality(A)
  BY <1>1, QubitSetsAreFinite, EnumerationFacts
<1>3. FitsById(m) <=> Cardinality(A) <= NumPlatformQubits
  BY <1>1, <1>2 DEF FitsById, ids
<1> QED
  BY <1>3 DEF A

(* As many ids as there are free physical qubits are left to be placed, at *)
(* most, when all arrays fit.                                              *)
LEMMA IdsToPlaceFit ==
  ASSUME NEW m, WellFormed(m), isConsistent(m), FitsById(m)
  PROVE  ~ Cardinality(IdsToPlace(m)) > Cardinality(UnusedPhys(m))
<1> DEFINE A == ArrayQubits(m.order)
           ids == Ids(m.order)
           K == KnownQubits(m)
           U == Unset(m)
           placed == K \ U
           I == IdsToPlace(m)
           left == A \ placed
           f == [id \in I |-> ids[id]]
<1>1. UnusedPhys(m) = VacantSet(m)
  BY WellFormedFacts DEF UnusedPhys, getMappedPhysQubits, VacantSet
<1>2. ids \in Enumeration(A) /\ A \in SUBSET Qubits /\ K \in SUBSET A /\ getNumPhysQubits(m) = NumPlatformQubits
  BY WellFormedFacts
<1>3. U \in SUBSET K
  BY ConventionalValues DEF U, K, Unset, KnownQubits
<1>4. \A q \in placed : m.prog[q] \notin Unplaced
  BY DEF placed, K, U, KnownQubits, Unset, Unplaced
<1>5. \A id \in I : id \in DOMAIN ids /\ m.prog[ids[id]] \in Unplaced
  BY DEF IdsToPlace
<1> HIDE DEF A, ids, K, U, I, placed
<1>6. /\ DOMAIN ids = 1 .. Cardinality(A)
      /\ \A id \in DOMAIN ids : ids[id] \in A
      /\ \A i, j \in DOMAIN ids : ids[i] = ids[j] => i = j
  <2>1. IsFiniteSet(A)
    BY <1>2, QubitSetsAreFinite
  <2>2. DOMAIN ids = 1 .. Cardinality(A)
        /\ \A i, j \in DOMAIN ids : ids[i] = ids[j] => i = j
    BY <1>2, <2>1, EnumerationFacts
  <2> QED
    BY <1>2, <2>2 DEF Enumeration
<1>7. f \in [I -> left]
  BY <1>4, <1>5, <1>6
<1>8. f \in Injection(I, left)
  BY <1>5, <1>6, <1>7 DEF Injection, IsInjective
<1>9. IsFiniteSet(A) /\ Cardinality(A) \in Nat /\ IsFiniteSet(K) /\ Cardinality(K) \in Nat
      /\ IsFiniteSet(U) /\ Cardinality(U) \in Nat /\ IsFiniteSet(placed) /\ Cardinality(placed) \in Nat
      /\ IsFiniteSet(left) /\ Cardinality(left) \in Nat
  <2>1. K \in SUBSET Qubits /\ U \in SUBSET Qubits /\ placed \in SUBSET Qubits /\ left \in SUBSET Qubits
    BY <1>2, <1>3 DEF placed
  <2> QED
    BY <1>2, <2>1, QubitSetsAreFinite
<1> HIDE DEF f
<1>10. IsFiniteSet(I) /\ Cardinality(I) \in Nat
  <2>1. I \in SUBSET (1 .. Cardinality(A))
    BY <1>5, <1>6
  <2>2. IsFiniteSet(1 .. Cardinality(A))
    BY <1>9, FS_Interval
  <2> QED
    BY <2>1, <2>2, FS_Subset, FS_CardinalityType
<1>11. Cardinality(I) <= Cardinality(left)
  BY <1>8, <1>9, FS_Injection
<1>12. Cardinality(placed) = Cardinality(K) - Cardinality(U)
  <2>1. K \cap U = U
    BY <1>3
  <2> QED
    BY <1>9, <2>1, FS_Difference DEF placed
<1>13. Cardinality(left) = Cardinality(A) - Cardinality(placed)
  <2>1. A \cap placed = placed
    BY <1>2 DEF placed
  <2> QED
    BY <1>9, <2>1, FS_Difference
<1>14. Cardinality(K) + Cardinality(VacantSet(m)) = NumPlatformQubits + Cardinality(U)
       /\ Cardinality(VacantSet(m)) \in Nat
  BY PlacedAndMapped DEF K, U
<1>15. Cardinality(A) <= NumPlatformQubits
  BY FitsByIdFacts DEF A
<1>16. ~ Cardinality(I) > Cardinality(VacantSet(m))
  BY <1>9, <1>10, <1>11, <1>12, <1>13, <1>14, <1>15, PlatformFacts
<1> QED
  BY <1>1, <1>16 DEF I

LEMMA LocalKernelStep ==
  ASSUME PlacementInv, LocalKernel
  PROVE  PlacementInv'
<1> DEFINE m == InitializedMap
<1>1. phase = "kernels" /\ k <= Len(kernels) /\ placement_method_ = "local"
  BY DEF LocalKernel, HasKernel
<1>2. StartOf(input, global_qubit_map, k, m) /\ SizedMap = m /\ (KernelTooLarge => ReasonToExit)
      /\ input \in Inputs /\ GlobalsSettled(input, global_qubit_map) /\ k \in 1 .. Len(input.kernels)
      /\ k \in DOMAIN kernels
  BY <1>1, KernelFacts
<1>3. /\ WellFormed(m) /\ isConsistent(m) /\ KnownQubits(m) = UsedBy(input, k)
      /\ ToSet(m.order) = {RegisterOf(q) : q \in UsedBy(input, k)}
      /\ \A q \in GlobalsOf(input) : m.prog[q] = global_qubit_map.prog[q]
  BY <1>2 DEF StartOf
<1> HIDE DEF m
<1>4. ~ FitsById(m) => ReasonToExit
  <2> DEFINE registered == GlobalQubits \cup UNION {ToSet(Array[RegisterOf(q)]) : q \in ToSet(kernels[k])}
  <2>1. /\ GlobalsOf(input) = GlobalQubits /\ GlobalsOf(input) \in SUBSET Qubits /\ ToSet(kernels[k]) \subseteq Qubits
        /\ ToSet(input.globals) \subseteq Registers
    BY <1>2, ProgramFacts DEF GlobalsOf, GlobalQubits, GlobalArrays, kernels
  <2>2. ArrayQubits(m.order) \in SUBSET Qubits
        /\ \A q \in Qubits : q \in ArrayQubits(m.order) <=> RegisterOf(q) \in ToSet(m.order)
        /\ Ids(m.order) \in Enumeration(ArrayQubits(m.order)) /\ getNumPhysQubits(m) = NumPlatformQubits
    BY <1>3, WellFormedFacts
  <2>3. ASSUME NEW q \in ArrayQubits(m.order)
        PROVE  q \in registered
    <3>1. q \in Qubits /\ RegisterOf(q) \in ToSet(m.order)
      BY <2>2
    <3>2. PICK o \in UsedBy(input, k) : RegisterOf(q) = RegisterOf(o)
      BY <1>3, <3>1
    <3>3. CASE o \in GlobalsOf(input)
      <4>1. RegisterOf(o) \in ToSet(input.globals)
        BY <2>1, <3>3, ArrayQubitsFacts DEF GlobalsOf
      <4>2. q \in GlobalsOf(input)
        BY <2>1, <3>1, <3>2, <4>1, ArrayQubitsFacts DEF GlobalsOf
      <4> QED
        BY <2>1, <4>2
    <3>4. CASE o \in ToSet(kernels[k])
      <4>1. q \in ToSet(Array[RegisterOf(o)])
        BY <3>1, <3>2, ArrayFacts
      <4> QED
        BY <3>4, <4>1
    <3> QED
      BY <3>3, <3>4 DEF UsedBy, kernels
  <2>4. registered \in SUBSET Qubits
    <3>1. \A q \in ToSet(kernels[k]) : ToSet(Array[RegisterOf(q)]) \subseteq Qubits
      BY <2>1, ArrayFacts
    <3> QED
      BY <2>1, <3>1
  <2>5. Cardinality(registered) > NumPlatformQubits => ReasonToExit
    BY <1>1, <1>2, Zenon DEF ReasonToExit
  <2> HIDE DEF registered
  <2>6. Cardinality(ArrayQubits(m.order)) <= Cardinality(registered)
        /\ Cardinality(ArrayQubits(m.order)) \in Nat /\ Cardinality(registered) \in Nat
    BY <2>2, <2>3, <2>4, QubitSetsAreFinite, FS_Subset
  <2>7. FitsById(m) <=> Cardinality(ArrayQubits(m.order)) <= NumPlatformQubits
    BY <1>3, FitsByIdFacts
  <2>8. ~ FitsById(m) => Cardinality(registered) > NumPlatformQubits
    BY <2>6, <2>7, PlatformFacts
  <2> QED
    BY <2>5, <2>8
<1>5. CASE \/ KernelTooLarge
           \/ Cardinality(IdsToPlace(m)) > Cardinality(UnusedPhys(m))
           \/ ~ FitsById(m)
  <2>1. Exit
    BY <1>2, <1>5 DEF LocalKernel
  <2>2. Cardinality(IdsToPlace(m)) > Cardinality(UnusedPhys(m)) => ~ FitsById(m)
    BY <1>3, IdsToPlaceFit
  <2>3. ReasonToExit
    BY <1>2, <1>4, <1>5, <2>2
  <2> QED
    BY <1>1, <2>1, <2>3, ExitKeeps
<1>6. CASE ~ (\/ KernelTooLarge
              \/ Cardinality(IdsToPlace(m)) > Cardinality(UnusedPhys(m))
              \/ ~ FitsById(m))
  <2>1. PICK f \in Placements(IdsToPlace(m), UnusedPhys(m)), W \in LookedUp(m) :
          \E n \in PlacedAtZero(m, setCustomMap(m, f), W) : NextKernel(n, n)
    BY <1>2, <1>6 DEF LocalKernel
  <2>2. PICK n \in PlacedAtZero(m, setCustomMap(m, f), W) : NextKernel(n, n)
    BY <2>1
  <2>3. W \in SUBSET Strays(m)
    BY DEF LookedUp
  <2>4. /\ WellFormed(n) /\ KnownQubits(n) = KnownQubits(m)
        /\ \A q \in Qubits : m.prog[q] # Virtual => n.prog[q] = m.prog[q]
        /\ IdsAreDense(n) => Complete(n)
    BY <1>3, <2>3, LocalPlaces
  <2>5. \A q \in GlobalsOf(input) : q \in Qubits /\ global_qubit_map.prog[q] # Virtual
    BY <1>2, ProgramFacts DEF GlobalsSettled, Unset
  <2>6. PlacedFor(input, global_qubit_map, k, n)
    BY <1>3, <2>4, <2>5 DEF PlacedFor
  <2>7. KernelDone(input, global_qubit_map, placement_method_, k, n, n)
    BY <1>1, <2>4, <2>6 DEF KernelDone
  <2> QED
    BY <1>1, <2>2, <2>7, KernelKeeps
<1> QED
  BY <1>5, <1>6
LEMMA FinishStep ==
  ASSUME PlacementInv, Finish
  PROVE  PlacementInv'
<1>1. /\ phase = "kernels" /\ phase' = "done" /\ placement_method_' = placement_method_ /\ input' = input /\ k' = k
      /\ global_qubit_map' = global_qubit_map /\ qubit_maps' = qubit_maps /\ final_qubit_maps' = final_qubit_maps
  BY DEF Finish, mapVars
<1>2. ControlInv'
  BY <1>1 DEF PlacementInv, ControlInv, kernels
<1>3. GlobalsInv' /\ KernelsInv'
  BY <1>1 DEF PlacementInv, GlobalsInv, KernelsInv, kernels
<1>4. ExitsAreJustified'
  BY <1>1 DEF ExitsAreJustified
<1>5. ValuesBeforePlaceholderFollowed'
  BY <1>1, FollowedStays DEF PlacementInv
<1> QED
  BY <1>2, <1>3, <1>4, <1>5 DEF PlacementInv

LEMMA StutterStep ==
  ASSUME PlacementInv, UNCHANGED placementVars
  PROVE  PlacementInv'
<1>1. /\ phase' = phase /\ placement_method_' = placement_method_ /\ input' = input /\ k' = k
      /\ global_qubit_map' = global_qubit_map /\ qubit_maps' = qubit_maps /\ final_qubit_maps' = final_qubit_maps
  BY DEF placementVars
<1>2. ControlInv'
  BY <1>1 DEF PlacementInv, ControlInv, kernels
<1>3. GlobalsInv' /\ KernelsInv'
  BY <1>1 DEF PlacementInv, GlobalsInv, KernelsInv, kernels
<1>4. ExitsAreJustified'
  BY <1>1, ReasonStays DEF PlacementInv, ExitsAreJustified
<1>5. ValuesBeforePlaceholderFollowed'
  BY <1>1, FollowedStays DEF PlacementInv
<1> QED
  BY <1>2, <1>3, <1>4, <1>5 DEF PlacementInv

(* PlacementInv is inductive, whatever the searches for sets answer.       *)
THEOREM PlacementInductive == PlacementSpec => []PlacementInv
<1>1. PlacementInit => PlacementInv
  BY PlacementStarts
<1>2. PlacementInv /\ [PlacementNext]_placementVars => PlacementInv'
  <2> SUFFICES ASSUME PlacementInv, [PlacementNext]_placementVars
               PROVE  PlacementInv'
    OBVIOUS
  <2>1. CASE initializeGlobalQubitMap
    BY <2>1, RegisterStep
  <2>2. CASE TrivialGlobals
    BY <2>2, TrivialGlobalsStep
  <2>3. CASE DenseGlobals
    BY <2>3, DenseGlobalsStep
  <2>4. CASE CustomGlobals
    BY <2>4, CustomGlobalsStep
  <2>5. CASE LocalGlobals
    BY <2>5, LocalGlobalsStep
  <2>6. CASE SkipKernel
    BY <2>6, SkipKernelStep
  <2>7. CASE TrivialKernel
    BY <2>7, TrivialKernelStep
  <2>8. CASE DenseKernel
    BY <2>8, DenseKernelStep
  <2>9. CASE LocalKernel
    BY <2>9, LocalKernelStep
  <2>10. CASE Finish
    BY <2>10, FinishStep
  <2>11. CASE UNCHANGED placementVars
    BY <2>11, StutterStep
  <2> QED
    BY <2>1, <2>2, <2>3, <2>4, <2>5, <2>6, <2>7, <2>8, <2>9, <2>10, <2>11 DEF PlacementNext
<1> QED
  BY <1>1, <1>2, PTL DEF PlacementSpec

-----------------------------------------------------------------------------
(* What the invariant says of a kernel that is placed.                     *)
LEMMA PlacedKernel ==
  ASSUME PlacementInv, NEW i \in DOMAIN kernels, Placed(i)
  PROVE  /\ PlacedFor(input, global_qubit_map, i, qubit_maps[i]) /\ final_qubit_maps[i] = qubit_maps[i]
         /\ AsAssumed(i) => Complete(qubit_maps[i])
<1>1. i < k /\ KnownQubits(qubit_maps[i]) # {}
  BY DEF Placed
<1>2. KernelDone(input, global_qubit_map, placement_method_, i, qubit_maps[i], final_qubit_maps[i])
  BY <1>1 DEF PlacementInv, KernelsInv
<1> QED
  BY <1>1, <1>2 DEF KernelDone, AsAssumed

(* Maps stay consistent, whatever is placed, joined or added in which      *)
(* order, and every kernel starts with the global qubits where the program *)
(* has them (QuantumInitPlacement, MapProgToPhysQubits).                   *)
THEOREM MapsAgreeOnGlobals == PlacementSpec => []PlacementsAgree
<1>1. PlacementInv => PlacementsAgree
  <2> SUFFICES ASSUME PlacementInv
               PROVE  PlacementsAgree
    OBVIOUS
  <2>1. global_qubit_map = NoMap \/ (WellFormed(global_qubit_map) /\ isConsistent(global_qubit_map))
    BY DEF PlacementInv, GlobalsInv, GlobalMapOf
  <2>2. ASSUME NEW i \in DOMAIN kernels
        PROVE  /\ qubit_maps[i] = NoMap \/ WellFormed(qubit_maps[i])
               /\ final_qubit_maps[i] = NoMap \/ WellFormed(final_qubit_maps[i])
    BY DEF PlacementInv, KernelsInv, KernelDone, PlacedFor
  <2>3. PlacementTypeOK
    BY <2>1, <2>2 DEF PlacementInv, ControlInv, PlacementTypeOK, WellFormed
  <2>4. ASSUME NEW i \in DOMAIN kernels, AsAssumed(i)
        PROVE  isConsistent(qubit_maps[i]) /\ isConsistent(final_qubit_maps[i])
    BY <2>4, PlacedKernel DEF AsAssumed, Complete
  <2>5. MapsConsistent
    BY <2>1, <2>3, <2>4 DEF MapsConsistent
  <2>6. GlobalQubitsAgree
    <3>1. GlobalQubits = GlobalsOf(input)
      BY DEF GlobalQubits, GlobalArrays, GlobalsOf
    <3> QED
      BY <3>1, PlacedKernel DEF GlobalQubitsAgree, PlacedFor
  <2> QED
    BY <2>5, <2>6 DEF PlacementsAgree
<1> QED
  BY <1>1, PlacementInductive, PTL

(* The pass ends with every operand of a gate on a physical qubit, and     *)
(* gives up only on a program with too many qubits or values that cannot   *)
(* be followed.                                                            *)
THEOREM OperandsArePlaced == PlacementSpec => []EveryOperandPlaced
<1>1. PlacementInv => EveryOperandPlaced
  <2> SUFFICES ASSUME PlacementInv
               PROVE  EveryOperandPlaced
    OBVIOUS
  <2>1. ASSUME NEW i \in DOMAIN kernels, AsAssumed(i)
        PROVE  OperandsPlaced(i)
    <3> DEFINE m == qubit_maps[i]
    <3>1. PlacedFor(input, global_qubit_map, i, m) /\ Complete(m)
      BY <2>1, PlacedKernel DEF AsAssumed
    <3>2. WellFormed(m) /\ KnownQubits(m) = UsedBy(input, i) /\ Unset(m) = {}
      BY <3>1 DEF PlacedFor, Complete
    <3>3. UsedBy(input, i) = GlobalQubits \cup ToSet(kernels[i])
      BY DEF UsedBy, GlobalsOf, GlobalQubits, GlobalArrays, kernels
    <3>4. \A q \in KnownQubits(m) : m.prog[q] \in PlatformQubits
      BY <3>2, WellFormedFacts DEF KnownQubits, Unset, Unplaced
    <3> QED
      BY <3>2, <3>3, <3>4 DEF OperandsPlaced
  <2> QED
    BY <2>1 DEF EveryOperandPlaced, PlacementInv
<1> QED
  BY <1>1, PlacementInductive, PTL

(* A value the user wrote before the first placeholder of an array is the  *)
(* place of its qubit (getCustomQubitPlacement, setCustomProgToPhysMap).   *)
THEOREM ValuesAreFollowed == PlacementSpec => []ValuesBeforePlaceholderFollowed
<1>1. PlacementInv => ValuesBeforePlaceholderFollowed
  BY DEF PlacementInv
<1> QED
  BY <1>1, PlacementInductive, PTL
==============================================================================
