----------------------------- MODULE MCQubitLists -----------------------------
(***************************************************************************)
(* Lists made of an array of three qubits and one of a single qubit.       *)
(***************************************************************************)
EXTENDS QubitLists

Sizes == [r \in {"a", "b"} |-> IF r = "a" THEN 3 ELSE 1]

Const(n)  == [kind |-> "const", val |-> n]
Later(n)  == [kind |-> "later", val |-> n]
SizeOf(v) == [kind |-> "size", val |-> v]

ArrayOf(r)      == [op |-> "array", reg |-> r, idx |-> 0]
EmptyList       == [op |-> "empty"]
Join(v, w)      == [op |-> "join", left |-> v, right |-> w]
Slice(v, l, h)  == [op |-> "slice", arg |-> v, lo |-> l, hi |-> h]
Part(v, l, h)   == Slice(v, Const(l), Const(h))
Behind(v, l)    == [op |-> "from", arg |-> v, lo |-> l]

NoListAtAll == {}

(* Everything made of the two arrays in two steps, and then a third.       *)
Made(n) ==
  {Join(v, w) : v, w \in 1 .. n - 1} \cup
  {Part(v, r[1], r[2]) : v \in 1 .. n - 1, r \in {<<0, 1>>, <<0, 2>>, <<1, 3>>, <<1, 1>>, <<2, 1>>}}

Made3 ==
  {Join(3, 4), Join(4, 3), Part(4, 1, 3), Slice(4, Const(1), SizeOf(3)), Slice(4, Const(0), Later(2)),
   Slice(4, Const(2), SizeOf(4)), Behind(4, Const(0)), Behind(4, Const(1)), Behind(4, Later(1))}

(* a[0], a[2], b[0]; its first two and its last; then these in the other   *)
(* order, or the first two and a[1].                                       *)
Parts3 == <<ArrayOf("a"), Part(1, 0, 1), Part(1, 2, 3), Join(2, 3), ArrayOf("b"), Join(4, 5),
            Part(6, 0, 2), Part(6, 2, 3), Part(1, 1, 2)>>

Rotated  == Append(Parts3, Join(8, 7))
Regroups == Append(Parts3, Join(7, 9))

(* A list that is taken apart in a loop, and the empty list.               *)
Shrinking == <<EmptyList, ArrayOf("a"), Join(1, 2), Behind(3, Later(2)), Slice(3, Later(0), SizeOf(4)), Join(4, 5)>>

SmallLists == {<<ArrayOf("a"), ArrayOf("b"), x, y, z>> : x \in Made(3), y \in Made(4), z \in Made3}
              \cup {Rotated, Regroups, Shrinking}

Distinct == {Rotated, Regroups}
===============================================================================
