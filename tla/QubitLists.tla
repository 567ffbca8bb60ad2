------------------------------ MODULE QubitLists ------------------------------
(***************************************************************************)
(* Lists of qubits in quantum expressions: class QRefArray.  A list is     *)
(* kept as segments of registers.  Lists are built from the expressions    *)
(* that denote them, on request, and what has been built or could not be   *)
(* built is remembered for the rest of the compilation.                    *)
(***************************************************************************)
EXTENDS Integers, Sequences, FiniteSets, SequencesExt

CONSTANTS
  Lists,          \* sequences of expressions, an operand before its users
  RegisterSize,   \* register -> number of qubits, or Null when not known
  Null, Absent

(* An expression is an array from some element on, the empty list, the     *)
(* part of a list between two indices, or from one on, or two lists joined.*)
(* An index is a number, known now or only later, when loops have been     *)
(* unrolled, or the size of a list.                                        *)
ListsAreOrdered ==
  \A l \in Lists : \A v \in DOMAIN l :
    /\ l[v].op \in {"array", "empty", "slice", "from", "join"}
    /\ l[v].op \in {"slice", "from"} => l[v].arg < v
    /\ l[v].op = "from" => l[l[v].arg].op \in {"empty", "slice", "join"}
    /\ l[v].op = "join" => l[v].left < v /\ l[v].right < v

VARIABLES
  exprs,       \* the expressions
  resolved,    \* loops have been unrolled
  ARRAY_MAP_   \* what has been built: segments, Null, or Absent

listVars == <<exprs, resolved, ARRAY_MAP_>>

Values == DOMAIN exprs

-----------------------------------------------------------------------------
(* A segment is <<register, index, width>>.                                *)
EndOf(seg) == seg[2] + seg[3]

size(list) == FoldLeft(LAMBDA n, seg : n + seg[3], 0, list)

IsOverlap(seg, other) == seg[1] = other[1] /\ seg[2] >= other[2] /\ seg[2] < EndOf(other)

(* The code compares the end of the register where it means the end of the *)
(* new segment, so that only the start of that one matters.                *)
isAddableToArray(list, seg) ==
  /\ RegisterSize[seg[1]] # Null /\ EndOf(seg) <= RegisterSize[seg[1]]
  /\ \A i \in DOMAIN list : ~IsOverlap(seg, list[i])

(* What is added to a list one after the other; when one cannot be, the    *)
(* outcome is the empty list.                                              *)
Extended(list, segs) ==
  LET Push(l, seg) == IF l = Null \/ ~isAddableToArray(l, seg) THEN Null ELSE Append(l, seg)
      out == FoldLeft(Push, list, segs)
  IN  IF out = Null THEN <<>> ELSE out

(* A position is a segment and an offset.  The walk stops at the first     *)
(* segment that starts there, also if that one has no qubits.              *)
advance(list, n) ==
  LET Before(p) == size(SubSeq(list, 1, p - 1))
      p == Min({p \in 1 .. Len(list) + 1 :
                  (p > 1 /\ Before(p) = n) \/ (p <= Len(list) /\ n < Before(p + 1))})
  IN  [seg |-> p, idx |-> n - Before(p)]

(* The segment that starts at a position.                                  *)
From(list, at, width) == <<list[at.seg][1], list[at.seg][2] + at.idx, width>>

join(A, B) == Extended(A, B)

(* Up to the end of the segment where the slice starts, the segments in    *)
(* between, and the start of the one where it ends, if only by a width of  *)
(* zero.                                                                   *)
PartsBroad(A, at, end) ==                                         \* a variant
  <<From(A, at, A[at.seg][3])>> \o SubSeq(A, at.seg + 1, end.seg - 1)

Parts(A, at, end) ==
  <<From(A, at, A[at.seg][3] - at.idx)>> \o SubSeq(A, at.seg + 1, end.seg - 1)

slice(A, first, last) ==
  LET at  == advance(A, first)
      end == advance(A, last)
  IN  IF last <= first \/ size(A) < last THEN <<>>
      ELSE IF last - first <= A[at.seg][3] - at.idx
           THEN Extended(<<>>, <<From(A, at, last - first)>>)
      ELSE Extended(<<>>, Parts(A, at, end) \o
                          IF end.seg <= Len(A) THEN <<<<A[end.seg][1], A[end.seg][2], end.idx>>>> ELSE <<>>)

-----------------------------------------------------------------------------
(* The number an index is, given the lists; Null when it is not known yet. *)
Resolved(index, lists) ==
  CASE index.kind = "const" -> index.val
    [] index.kind = "later" -> IF resolved THEN index.val ELSE Null
    [] index.kind = "size"  -> IF lists[index.val] = Null THEN Null ELSE size(lists[index.val])

SliceOf(e, lists) ==
  LET lo == Resolved(e.lo, lists)
      hi == Resolved(e.hi, lists)
  IN  IF Null \in {lo, hi} \/ hi < lo THEN Null
      ELSE IF lo = hi THEN <<>>
      ELSE IF lists[e.arg] = Null \/ size(lists[e.arg]) < hi THEN Null
      ELSE slice(lists[e.arg], lo, hi)

ArrayFrom(e) ==
  IF RegisterSize[e.reg] = Null \/ e.idx > RegisterSize[e.reg] THEN Null
  ELSE <<<<e.reg, e.idx, RegisterSize[e.reg] - e.idx>>>>

JoinOf(e, lists) ==
  IF Null \in {lists[e.left], lists[e.right]} THEN Null ELSE join(lists[e.left], lists[e.right])

(* What get builds for an expression from the lists of its operands.  The  *)
(* list from its first element on is the list itself, which is built anew. *)
BuiltAnew(e, lists) ==
  CASE e.op = "array" -> ArrayFrom(e)
    [] e.op = "empty" -> <<>>
    [] e.op = "slice" -> SliceOf(e, lists)
    [] e.op = "join"  -> JoinOf(e, lists)

Built(e, lists) ==
  IF e.op # "from" THEN BuiltAnew(e, lists)
  ELSE LET first == Resolved(e.lo, lists)
       IN  IF first = Null THEN Null
           ELSE IF first = 0 THEN BuiltAnew(exprs[e.arg], lists)
           ELSE IF lists[e.arg] = Null THEN Null
           ELSE slice(lists[e.arg], first, size(lists[e.arg]))

IndexOperands(e) ==
  {i.val : i \in {j \in (IF e.op = "slice" THEN {e.lo, e.hi} ELSE {}) : j.kind = "size"}}

(* The lists that are asked for on the way: indices first, the list of a   *)
(* slice only when both are known and in order.                            *)
OperandsAnew(e, lists) ==
  CASE e.op \in {"array", "empty"} -> {}
    [] e.op = "join"  -> {e.left, e.right}
    [] e.op = "slice" ->
         LET lo == Resolved(e.lo, lists)
             hi == Resolved(e.hi, lists)
         IN  IndexOperands(e) \cup IF Null \notin {lo, hi} /\ lo < hi THEN {e.arg} ELSE {}

Operands(e, lists) ==
  IF e.op # "from" THEN OperandsAnew(e, lists)
  ELSE LET first == Resolved(e.lo, lists)
       IN  IF first = Null THEN {} ELSE IF first = 0 THEN OperandsAnew(exprs[e.arg], lists) ELSE {e.arg}

Answer[v \in Nat] ==
  IF ARRAY_MAP_[v] # Absent THEN ARRAY_MAP_[v]
  ELSE Built(exprs[v], [w \in 1 .. v - 1 |-> Answer[w]])

Asked[v \in Nat] ==
  IF ARRAY_MAP_[v] # Absent THEN {}
  ELSE {v} \cup UNION {Asked[w] : w \in Operands(exprs[v], [u \in 1 .. v - 1 |-> Answer[u]])}

-----------------------------------------------------------------------------
ListInit ==
  /\ exprs \in Lists
  /\ resolved = FALSE
  /\ ARRAY_MAP_ = [v \in Values |-> Absent]

get(v) ==
  /\ ARRAY_MAP_[v] = Absent
  /\ ARRAY_MAP_' = [w \in Values |-> IF w \in Asked[v] THEN Answer[w] ELSE ARRAY_MAP_[w]]
  /\ UNCHANGED <<exprs, resolved>>

(* Loops are unrolled between two requests.                                *)
ResolveIndices ==
  /\ ~resolved
  /\ resolved' = TRUE
  /\ UNCHANGED <<exprs, ARRAY_MAP_>>

ListNext == (\E v \in Values : get(v)) \/ ResolveIndices

ListSpec == ListInit /\ [][ListNext]_listVars

-----------------------------------------------------------------------------
(* The qubits an expression stands for, in their order; Null for a slice   *)
(* that is out of range and an array of unknown size.                      *)
Elements(reg, from, n) == [i \in 1 .. n |-> <<reg, from + i - 1>>]

Contents(list) == FlattenSeq([i \in DOMAIN list |-> Elements(list[i][1], list[i][2], list[i][3])])

Denoted[v \in Nat] ==
  LET e == exprs[v]
      Number(index) == IF index.kind # "size" THEN index.val
                       ELSE IF Denoted[index.val] = Null THEN Null ELSE Len(Denoted[index.val])
      Between(w, lo, hi) ==
        IF Null \in {Denoted[w], lo, hi} THEN Null
        ELSE IF hi < lo \/ hi > Len(Denoted[w]) THEN Null
        ELSE SubSeq(Denoted[w], lo + 1, hi)
  IN  CASE e.op = "array" -> IF RegisterSize[e.reg] = Null THEN Null
                             ELSE Elements(e.reg, e.idx, RegisterSize[e.reg] - e.idx)
        [] e.op = "empty" -> <<>>
        [] e.op = "slice" -> Between(e.arg, Number(e.lo), Number(e.hi))
        [] e.op = "join"  -> IF Null \in {Denoted[e.left], Denoted[e.right]} THEN Null
                             ELSE Denoted[e.left] \o Denoted[e.right]
        [] e.op = "from"  -> Between(e.arg, Number(e.lo), IF Denoted[e.arg] = Null THEN Null ELSE Len(Denoted[e.arg]))

IsList(v) == ARRAY_MAP_[v] \notin {Absent, Null}

WronglyEmpty(v) == ARRAY_MAP_[v] = <<>> /\ Denoted[v] # <<>>

Below[v \in Nat] ==
  LET e == exprs[v]
      direct == IndexOperands(e) \cup CASE e.op \in {"array", "empty"} -> {}
                                        [] e.op = "join" -> {e.left, e.right}
                                        [] OTHER -> {e.arg}
  IN  {v} \cup UNION {Below[w] : w \in direct}

(* Whenever a list is asked for, it has the qubits the expression stands   *)
(* for, in their order, unless a list it is made of could not be put       *)
(* together and has become empty; and what could not be built is out of    *)
(* range, was asked for too early, or is made of such.                     *)
ListsAsWritten ==
  \A v \in Values : IsList(v) =>
    Contents(ARRAY_MAP_[v]) = Denoted[v] \/ \E w \in Below[v] : WronglyEmpty(w)

(* "If the build fails, nullptr is returned" (QRefArray::get).             *)
FailedBuildsAreNull ==
  \A v \in Values : ~WronglyEmpty(v)

(* operator[], "the equivalent sequence of qubits".                        *)
ElementsAsWritten ==
  \A v \in Values : IsList(v) /\ Contents(ARRAY_MAP_[v]) = Denoted[v] =>
    \A i \in DOMAIN Denoted[v] :
      LET at == advance(ARRAY_MAP_[v], i - 1)
      IN  <<ARRAY_MAP_[v][at.seg][1], ARRAY_MAP_[v][at.seg][2] + at.idx>> = Denoted[v][i]

(* "Look for failure cases - Overlap with other elements of the list"      *)
(* (QRefArray::isAddableToArray): no qubit is in a list twice.             *)
NoQubitTwice ==
  \A v \in Values : IsList(v) =>
    \A i, j \in DOMAIN Contents(ARRAY_MAP_[v]) :
      Contents(ARRAY_MAP_[v])[i] = Contents(ARRAY_MAP_[v])[j] => i = j
===============================================================================
