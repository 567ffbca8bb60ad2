------------------------------ MODULE GateCursor -------------------------------
(***************************************************************************)
(* What a gate iterator promises: it is a cursor on the sequence of the    *)
(* gates of a basic block, whatever other instructions lie between them.   *)
(* A gate is inserted before the cursor, which is then on it; the cursor   *)
(* of a gate that is removed moves to the next one.  An iterator on a gate *)
(* that another one erases is lost until it is sent to one of the ends.    *)
(***************************************************************************)
EXTENDS Integers, Sequences, SequencesExt

CONSTANTS Iterators, End, Lost

VARIABLES
  gates,     \* the gates of the block, [id, type], in order
  cursor     \* iterator -> the id of a gate, End or Lost

vars == <<gates, cursor>>

Ids       == {gates[k].id : k \in DOMAIN gates}
IndexOf(g) == CHOOSE k \in DOMAIN gates : gates[k].id = g
GateAt(k) == IF k \in DOMAIN gates THEN gates[k].id ELSE End

(* The index of the cursor, one past the last gate at the end.             *)
Here(i) == IF cursor[i] = End THEN Len(gates) + 1 ELSE IndexOf(cursor[i])

Move(i, k) == cursor' = [cursor EXCEPT ![i] = GateAt(k)] /\ UNCHANGED gates

(* The cursors when gate g is erased: i goes to c, those on g are lost.    *)
Erased(g, i, c) ==
  [j \in Iterators |-> IF j = i THEN c ELSE IF cursor[j] = g THEN Lost ELSE cursor[j]]

Init ==
  /\ \A k, l \in DOMAIN gates : gates[k].id = gates[l].id => k = l
  /\ cursor \in [Iterators -> Ids \cup {End}]

Advance(i) == cursor[i] \in Ids /\ Move(i, Here(i) + 1)

Retreat(i) == cursor[i] # Lost /\ Here(i) > 1 /\ Move(i, Here(i) - 1)

ToEnd(i) == Move(i, Len(gates) + 1)

ToBegin(i) == Move(i, 1)

(* The next gate of a type, or the end; the one before, or the first.      *)
FindNext(i, type) ==
  /\ cursor[i] \in Ids
  /\ \E k \in Here(i) + 1 .. Len(gates) + 1 :
       /\ Move(i, k)
       /\ k \in DOMAIN gates => gates[k].type = type
       /\ \A l \in Here(i) + 1 .. k - 1 : gates[l].type # type

FindPrevious(i, type) ==
  /\ cursor[i] # Lost
  /\ \E k \in 1 .. Here(i) - 1 :
       /\ Move(i, k)
       /\ k > 1 => gates[k].type = type
       /\ \A l \in k + 1 .. Here(i) - 1 : gates[l].type # type

Insert(i, g) ==
  /\ cursor[i] # Lost
  /\ g.id \notin Ids
  /\ gates' = InsertAt(gates, Here(i), g)
  /\ cursor' = [cursor EXCEPT ![i] = g.id]

Erase(i) ==
  /\ cursor[i] \in Ids
  /\ gates' = RemoveAt(gates, Here(i))
  /\ cursor' = Erased(cursor[i], i, GateAt(Here(i) + 1))

Change(i, g) ==
  /\ cursor[i] \in Ids
  /\ g.id \notin Ids
  /\ gates' = [gates EXCEPT ![Here(i)] = g]
  /\ cursor' = Erased(cursor[i], i, g.id)

Next ==
  \E i \in Iterators :
    \/ Advance(i) \/ Retreat(i) \/ ToBegin(i) \/ ToEnd(i) \/ Erase(i)
    \/ \E type \in {g.type : g \in ToSet(gates)} : FindNext(i, type) \/ FindPrevious(i, type)
    \/ \E g \in ToSet(gates') : Insert(i, g) \/ Change(i, g)

Spec == Init /\ [][Next]_vars

==============================================================================
