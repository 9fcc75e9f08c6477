------------------------------ MODULE ListRuns ------------------------------
(* The List representation of packages/runtime/src/List.ts: a box is a view  *)
(* into two runs, a back run stored forward and a front run stored reversed. *)
(* The runs are Arrays that several boxes share; what tells the boxes apart  *)
(* is how much of each run each says is its own.  Adding at an end pushes    *)
(* onto an Array in place where the receiver views all of it (the tip), and  *)
(* copies elsewhere; windows share both runs; reading a box may replace its  *)
(* representation.  A callback of a walk runs operations between two of its  *)
(* visits, on the very List that is walked if it likes.                      *)
(*                                                                           *)
(* `heap` holds every Array made, in order: an Array is its index there.     *)
(* `boxes` holds every box made.  Positions count from 0 as in the code;     *)
(* position p of an Array is element p + 1 of its sequence.                  *)
EXTENDS Integers, SequencesExt

CONSTANTS
  Literals,    \* the contents a Program may build a List with
  Added,       \* the items it adds or puts in place
  Positions,   \* the positions it names, negative ones counted from the end
  MaxBoxes,    \* a bound on the boxes made
  MaxWalked,   \* the same bound once a walk has begun
  MaxSorted    \* a bound on the items of a List that is sorted

ASSUME LiteralsAssumption == Literals \subseteq Seq(Int)
ASSUME AddedAssumption == Added \subseteq Int
ASSUME PositionsAssumption == Positions \subseteq Int
ASSUME BoundsAssumption == {MaxBoxes, MaxWalked, MaxSorted} \subseteq Nat

VARIABLES
  heap,        \* the Arrays made so far
  boxes,       \* the boxes made so far
  walk         \* the walk underway: a fixed view, and the position it is at

vars == <<heap, boxes, walk>>

undefined == -1

Arrays == 1 .. Len(heap)

Box == [value: Nat, length: Nat \cup {undefined},
        front: Nat \cup {undefined}, frontLen: Nat \cup {undefined}]

View == [back: Nat, backCount: Nat, front: Nat \cup {undefined}, frontCount: Nat]

\* Mutant: a fresh box is given the Array before its own.
FlatBefore(array) ==
  [value |-> array - 1, length |-> undefined, front |-> undefined, frontLen |-> undefined]

\* A box that says nothing of its counts: flat, and the view is the whole Array.
Flat(array) ==
  [value |-> array, length |-> undefined, front |-> undefined, frontLen |-> undefined]

\* What a native sees of a box: the two runs and the counts it owns of them.
RunsOf(h, box) ==
  [back |-> box.value,
   backCount |-> IF box.length = undefined THEN Len(h[box.value]) ELSE box.length,
   front |-> box.front,
   frontCount |-> IF box.front = undefined THEN 0
                  ELSE IF box.frontLen = undefined THEN Len(h[box.front])
                  ELSE box.frontLen]

Total(view) == view.frontCount + view.backCount

\* The logical items of a view: the front run backwards, then the back run.
ItemsOf(h, view) ==
  (IF view.front = undefined THEN <<>>
   ELSE Reverse(SubSeq(h[view.front], 1, view.frontCount)))
    \o SubSeq(h[view.back], 1, view.backCount)

Items(b) == ItemsOf(heap, RunsOf(heap, boxes[b]))

ItemOfView(h, view, position) ==
  IF position < view.frontCount
  THEN h[view.front][view.frontCount - position]
  ELSE h[view.back][position - view.frontCount + 1]

\* Logical positions from .. to - 1 of the front run, and from .. to - 1 of the
\* back run: the loops of the natives that fill an Array of their own.
FrontItems(h, view, from, to) ==
  [k \in 1 .. to - from |-> h[view.front][view.frontCount - from - k + 1]]

BackItems(h, view, from, to) == SubSeq(h[view.back], from + 1, to)

-----------------------------------------------------------------------------
(* Representations replaced in place.                                        *)

TrimBack(h, box) ==
  LET view == RunsOf(h, box)
  IN IF view.backCount = Len(h[view.back])
     THEN [heap |-> h, box |-> box]
     ELSE [heap |-> Append(h, SubSeq(h[view.back], 1, view.backCount)),
           box |-> [box EXCEPT !.value = Len(h) + 1, !.length = view.backCount]]

TrimFront(h, box) ==
  LET view == RunsOf(h, box)
  IN IF view.front = undefined \/ view.frontCount = Len(h[view.front])
     THEN [heap |-> h, box |-> box]
     ELSE [heap |-> Append(h, SubSeq(h[view.front], 1, view.frontCount)),
           box |-> [box EXCEPT !.front = Len(h) + 1, !.frontLen = view.frontCount]]

\* viewOf: reading a box trims away what its runs hold beyond its view.
Trimmed(h, box) ==
  LET back == TrimBack(h, box) IN TrimFront(back.heap, back.box)

\* materialise: one Array whose whole length is the view; the front is forgotten.
Materialised(h, box) ==
  IF box.front = undefined
  THEN TrimBack(h, box)
  ELSE LET combined == ItemsOf(h, RunsOf(h, box))
       IN [heap |-> Append(h, combined),
           box |-> [Flat(Len(h) + 1) EXCEPT !.length = Len(combined)]]

\* Mutant: the count of the back run is left unsaid.
StampFrontOnly(box, view) ==
  [box EXCEPT !.frontLen = IF box.front = undefined THEN @ ELSE view.frontCount]

\* The receiver writes both counts down before a second box shares its runs.
StampClosed(box, view) ==
  [box EXCEPT !.length = view.backCount,
              !.frontLen = IF box.front = undefined THEN @ ELSE view.frontCount]

\* Mutant: a receiver that is not the tip stores in place, behind its own items.
PushedOver(h, run, count, items) ==
  [heap |-> [h EXCEPT ![run] = SubSeq(@, 1, count) \o items
                                 \o SubSeq(@, count + Len(items) + 1, Len(@))],
   run |-> run]

\* Tip-or-copy: items go onto the run itself when `count` is all of it.
Pushed(h, run, count, items) ==
  IF count = Len(h[run])
  THEN [heap |-> [h EXCEPT ![run] = @ \o items], run |-> run]
  ELSE [heap |-> Append(h, SubSeq(h[run], 1, count) \o items), run |-> Len(h) + 1]

-----------------------------------------------------------------------------
(* The natives.  Each answers with one new box.                              *)

NeverWalked == walk.back = 0

Room == Len(boxes) < IF NeverWalked THEN MaxBoxes ELSE MaxWalked

\* createList: the answer of every native that filled an Array of its own.
AnswerFresh(h, others, items) ==
  /\ Room
  /\ heap' = Append(h, items)
  /\ boxes' = Append(others, Flat(Len(h) + 1))
  /\ UNCHANGED walk

AnswerBox(h, others, box) ==
  /\ Room
  /\ heap' = h
  /\ boxes' = Append(others, box)
  /\ UNCHANGED walk

Init ==
  /\ heap = <<>>
  /\ boxes = <<>>
  /\ walk = [back |-> 0, backCount |-> 0, front |-> undefined, frontCount |-> 0,
             position |-> 0]

Create(items) == AnswerFresh(heap, boxes, items)

\* ownItemsOf: a copy for a walk that builds its List in place.
Own(b) ==
  LET view == RunsOf(heap, boxes[b])
  IN AnswerFresh(heap, boxes,
       IF view.frontCount = 0
       THEN BackItems(heap, view, 0, view.backCount)
       ELSE FrontItems(heap, view, 0, view.frontCount)
              \o BackItems(heap, view, 0, view.backCount))

Prepend(b, item) ==
  LET view == RunsOf(heap, boxes[b])
      stamped == [boxes EXCEPT ![b].length = view.backCount]
      push == IF view.front = undefined
              THEN [heap |-> Append(heap, <<item>>), run |-> Len(heap) + 1]
              ELSE Pushed(heap, view.front, view.frontCount, <<item>>)
  IN AnswerBox(push.heap, stamped,
       [value |-> view.back, length |-> view.backCount,
        front |-> push.run, frontLen |-> view.frontCount + 1])

\* The receiver is stamped where the push is in place; the front is shared.
AnswerAppended(h, others, b, items) ==
  LET view == RunsOf(heap, boxes[b])
      push == Pushed(h, view.back, view.backCount, items)
      receivers == IF push.run = view.back
                   THEN [others EXCEPT ![b].length = view.backCount]
                   ELSE others
  IN AnswerBox(push.heap, receivers,
       [others[b] EXCEPT !.value = push.run,
                         !.length = view.backCount + Len(items)])

AppendItem(b, item) == AnswerAppended(heap, boxes, b, <<item>>)

\* append(contentsOf:): tip or copy is decided, then the other List is read,
\* and trimmed, and its items as they were then are pushed.
AppendContents(b, other) ==
  LET read == Trimmed(heap, boxes[other])
  IN AnswerAppended(read.heap, [boxes EXCEPT ![other] = read.box], b,
       ItemsOf(read.heap, RunsOf(read.heap, read.box)))

\* The windows that contain the seam between the runs share both of them.
AnswerWindow(b, start, end) ==
  LET view == RunsOf(heap, boxes[b])
      frontLen == view.frontCount - start
      flat == frontLen = 0
  IN AnswerBox(heap, [boxes EXCEPT ![b] = StampClosed(@, view)],
       [value |-> view.back, length |-> end - view.frontCount,
        front |-> IF flat THEN undefined ELSE view.front,
        frontLen |-> IF flat THEN undefined ELSE frontLen])

PositionFromEnd(index, length) == IF index < 0 THEN index + length ELSE index

Clamp(position, length) ==
  IF position < 0 THEN 0 ELSE IF position > length THEN length ELSE position

Slice(b, from, to) ==
  LET view == RunsOf(heap, boxes[b])
      length == Total(view)
      first == Clamp(PositionFromEnd(from, length), length)
      last == Clamp(PositionFromEnd(to, length), length)
  IN \/ last <= first /\ Create(<<>>)
     \/ /\ first < last /\ first <= view.frontCount /\ view.frontCount <= last
        /\ AnswerWindow(b, first, last)
     \/ /\ first < last /\ last < view.frontCount
        /\ Create(FrontItems(heap, view, first, last))
     \/ /\ first < last /\ view.frontCount < first
        /\ Create(BackItems(heap, view, first - view.frontCount, last - view.frontCount))

\* A position that names no item answers with the receiver: no step at all.
RemoveItem(b, at) ==
  LET view == RunsOf(heap, boxes[b])
      total == Total(view)
      position == PositionFromEnd(at, total)
      inFront == position < view.frontCount
      split == position - view.frontCount
  IN /\ 0 <= position /\ position < total
     /\ IF position = 0 /\ view.frontCount > 0
        THEN AnswerWindow(b, 1, total)
        ELSE IF position = total - 1 /\ view.backCount > 0
        THEN AnswerWindow(b, 0, total - 1)
        ELSE Create(
          IF inFront
          THEN FrontItems(heap, view, 0, position)
                 \o FrontItems(heap, view, position + 1, view.frontCount)
                 \o BackItems(heap, view, 0, view.backCount)
          ELSE FrontItems(heap, view, 0, view.frontCount)
                 \o BackItems(heap, view, 0, split)
                 \o BackItems(heap, view, split + 1, view.backCount))

Insert(b, item, at) ==
  LET view == RunsOf(heap, boxes[b])
      total == Total(view)
      position == Clamp(PositionFromEnd(at, total), total)
      frontSplit == IF position < view.frontCount THEN position ELSE view.frontCount
      backSplit == IF position > view.frontCount THEN position - view.frontCount ELSE 0
  IN IF position = 0 THEN Prepend(b, item)
     ELSE IF position = total THEN AppendItem(b, item)
     ELSE Create(FrontItems(heap, view, 0, frontSplit)
                   \o BackItems(heap, view, 0, backSplit)
                   \o <<item>>
                   \o FrontItems(heap, view, frontSplit, view.frontCount)
                   \o BackItems(heap, view, backSplit, view.backCount))

\* Only the run that holds the position is copied; the other is shared, unless
\* there is no front run to share.
Replace(b, item, at) ==
  LET view == RunsOf(heap, boxes[b])
      total == Total(view)
      position == PositionFromEnd(at, total)
      front == SubSeq(heap[view.front], 1, view.frontCount)
      back == SubSeq(heap[view.back], 1, view.backCount)
      stamped == [boxes EXCEPT ![b] = StampClosed(@, view)]
      fresh == Len(heap) + 1
  IN /\ 0 <= position /\ position < total
     /\ IF position < view.frontCount
        THEN AnswerBox(
               Append(heap, [front EXCEPT ![view.frontCount - position] = item]),
               stamped,
               [value |-> view.back, length |-> view.backCount,
                front |-> fresh, frontLen |-> view.frontCount])
        ELSE LET rebuilt == [back EXCEPT ![position - view.frontCount + 1] = item]
             IN IF view.frontCount = 0
                THEN Create(rebuilt)
                ELSE AnswerBox(Append(heap, rebuilt), stamped,
                       [value |-> fresh, length |-> view.backCount,
                        front |-> view.front, frontLen |-> view.frontCount])

\* reverse and sort combine the receiver's runs and answer with a copy.
ReverseList(b) ==
  LET flat == Materialised(heap, boxes[b])
  IN AnswerFresh(flat.heap, [boxes EXCEPT ![b] = flat.box],
       Reverse(flat.heap[flat.box.value]))

Ascending(items) == \A i \in DOMAIN items : i > 1 => items[i - 1] <= items[i]

Sort(b) ==
  LET flat == Materialised(heap, boxes[b])
      items == flat.heap[flat.box.value]
  IN /\ Len(items) <= MaxSorted
     /\ \E order \in Injection(DOMAIN items, DOMAIN items) :
          LET sorted == [i \in 1 .. Len(items) |-> items[order[i]]]
          IN /\ Ascending(sorted)
             /\ AnswerFresh(flat.heap, [boxes EXCEPT ![b] = flat.box], sorted)

-----------------------------------------------------------------------------
(* Walks.  Between two visits the callback may run any native.               *)

\* Mutant: the walk asks its back run for its length at every turn.
LiveStillToVisit ==
  IF walk.back = 0 THEN 0
  ELSE walk.frontCount + Len(heap[walk.back]) - walk.position

\* The counts are fixed when the walk begins, and no run is asked its length again.
StillToVisit == Total(walk) - walk.position

WalkOver == StillToVisit = 0

WalkOf(read, b) ==
  /\ WalkOver
  /\ Len(boxes) <= MaxWalked
  /\ heap' = read.heap
  /\ boxes' = [boxes EXCEPT ![b] = read.box]
  /\ LET view == RunsOf(read.heap, read.box)
     IN walk' = [back |-> view.back, backCount |-> view.backCount,
                 front |-> view.front, frontCount |-> view.frontCount,
                 position |-> 0]

\* A native walk reads the runs through viewOf; map, both reduces, keepEvery,
\* is, compare, join, flatten and removeDuplicates do.
StartWalk(b) == WalkOf(Trimmed(heap, boxes[b]), b)

\* A walk the compiler writes out, pair, split and the terminal's rendering
\* read the one Array of materialise.
StartInlinedWalk(b) == WalkOf(Materialised(heap, boxes[b]), b)

Visit ==
  /\ ~WalkOver
  /\ walk' = [walk EXCEPT !.position = @ + 1]
  /\ UNCHANGED <<heap, boxes>>

\* reduce's #Done, and the first unequal pair of is and compare.
Leave ==
  /\ ~WalkOver
  /\ walk' = [walk EXCEPT !.position = Total(walk)]
  /\ UNCHANGED <<heap, boxes>>

Edit(b) ==
  \/ Own(b) \/ ReverseList(b) \/ Sort(b)
  \/ \E item \in Added : Prepend(b, item) \/ AppendItem(b, item)
  \/ \E other \in DOMAIN boxes : AppendContents(b, other)
  \/ \E from \in Positions, to \in Positions : Slice(b, from, to)
  \/ \E at \in Positions : RemoveItem(b, at)
  \/ \E item \in Added, at \in Positions : Insert(b, item, at) \/ Replace(b, item, at)

Next ==
  \/ \E items \in Literals : Create(items)
  \/ \E b \in DOMAIN boxes : Edit(b) \/ StartWalk(b) \/ StartInlinedWalk(b)
  \/ Visit
  \/ Leave

Spec == Init /\ [][Next]_vars

-----------------------------------------------------------------------------

\* Every box is made of Arrays that exist.
TypeOK ==
  /\ heap \in Seq(Seq(Int))
  /\ boxes \in Seq(Box)
  /\ \A b \in DOMAIN boxes : boxes[b].value \in Arrays /\ boxes[b].front \in Arrays \cup {undefined}
  /\ walk \in [back: Nat, backCount: Nat, front: Nat \cup {undefined},
               frontCount: Nat, position: Nat]

\* The stamping discipline (List.ts:278-283, 507-513, 538-541): a box counts no
\* more of a run than is there, carries no front without its count, and leaves
\* the count of its back run unsaid only while that Array is its alone.
SharedRunsAreCounted ==
  \A b \in DOMAIN boxes :
    LET box == boxes[b]
    IN /\ box.length # undefined => box.length <= Len(heap[box.value])
       /\ IF box.front = undefined
          THEN box.frontLen = undefined
          ELSE box.frontLen \in 0 .. Len(heap[box.front])
       /\ box.length = undefined =>
            \A c \in DOMAIN boxes :
              boxes[c].front # box.value /\ (c # b => boxes[c].value # box.value)

\* No step changes the items of a List that exists: not a push onto an Array it
\* shares, not a trim, not a demotion (List.ts:26-30).
ListsAreImmutable ==
  [][\A b \in DOMAIN boxes : b \in DOMAIN boxes' /\ Items(b)' = Items(b)]_vars

\* The items a walk has still to visit, each as the walk would read it now.
Remaining ==
  [k \in 1 .. StillToVisit |-> ItemOfView(heap, walk, walk.position + k - 1)]

Lists ==
  INSTANCE ImmutableLists WITH
    lists <- [b \in DOMAIN boxes |-> Items(b)],
    walk <- Remaining

\* The natives compute immutable sequences: every answer is the one its method
\* promises, nothing else changes, and a walk visits what its List held when it
\* began although callbacks push onto the Arrays it reads (List.ts:81-90).
ImplementsLists == Lists!Spec
=============================================================================
