--------------------------- MODULE ImmutableLists ---------------------------
(* What the List natives of packages/runtime promise: a List is an immutable *)
(* sequence of items.  Every operation answers with a List of its own and    *)
(* changes none that exist, and a walk visits the items its List held when   *)
(* the walk began, whatever its callbacks do.                                *)
EXTENDS Integers, SequencesExt

CONSTANTS
  Literals,    \* the contents a Program may build a List with
  Added,       \* the items it adds or puts in place
  Positions    \* the positions it names, negative ones counted from the end

VARIABLES
  lists,       \* the Lists made so far, each the sequence of its items
  walk         \* the items the walk underway has still to visit

vars == <<lists, walk>>

\* A position counted from either end, as the number of items before it.
FromEnd(list, at) == IF at < 0 THEN at + Len(list) ELSE at

Clamped(list, at) ==
  LET position == FromEnd(list, at)
  IN IF position < 0 THEN 0 ELSE IF position > Len(list) THEN Len(list) ELSE position

Names(list, at) == FromEnd(list, at) \in 0 .. Len(list) - 1

Sliced(list, from, to) == SubSeq(list, Clamped(list, from) + 1, Clamped(list, to))

Inserted(list, item, at) == InsertAt(list, Clamped(list, at) + 1, item)

Removed(list, at) == RemoveAt(list, FromEnd(list, at) + 1)

Replaced(list, item, at) == ReplaceAt(list, FromEnd(list, at) + 1, item)

\* The answers one List gives to its edits; an edit of a position that names
\* no item answers with the List itself.
Edits(list) ==
  {list, Reverse(list)}
    \cup {Cons(item, list) : item \in Added}
    \cup {Append(list, item) : item \in Added}
    \cup {Sliced(list, window[1], window[2]) : window \in Positions \X Positions}
    \cup {Inserted(list, edit[1], edit[2]) : edit \in Added \X Positions}
    \cup {Removed(list, at) : at \in {p \in Positions : Names(list, p)}}
    \cup {Replaced(list, edit[1], edit[2]) :
            edit \in Added \X {p \in Positions : Names(list, p)}}

\* The answers all of them give, one appended to another among them.
Answers ==
  Literals
    \cup UNION {Edits(lists[l]) \cup {lists[l] \o lists[m] : m \in DOMAIN lists} :
                 l \in DOMAIN lists}

\* answer has the items of list, each as often, in ascending order.
Sorts(list, answer) ==
  /\ \A i, j \in DOMAIN answer : i < j => answer[i] <= answer[j]
  /\ \E order \in Bijection(DOMAIN answer, DOMAIN list) :
       \A i \in DOMAIN answer : answer[i] = list[order[i]]

-----------------------------------------------------------------------------

Init == lists = <<>> /\ walk = <<>>

Answer ==
  /\ \E list \in Answers : lists' = Append(lists, list)
  /\ UNCHANGED walk

Sort(l) ==
  LET answer == Last(lists')
  IN /\ lists' = Append(lists, answer)
     /\ Sorts(lists[l], answer)
     /\ UNCHANGED walk

StartWalk(l) ==
  /\ walk = <<>>
  /\ walk' = lists[l]
  /\ UNCHANGED lists

Visit ==
  /\ walk # <<>>
  /\ walk' = Tail(walk)
  /\ UNCHANGED lists

Leave == walk' = <<>> /\ UNCHANGED lists

Next == Answer \/ Visit \/ Leave \/ \E l \in DOMAIN lists : Sort(l) \/ StartWalk(l)

Spec == Init /\ [][Next]_vars
=============================================================================
