-------------------------- MODULE ListRuns_proofs --------------------------
(* The stamping discipline is inductive, and it makes Lists immutable: no    *)
(* step of any native changes the items of a box that exists.  With what     *)
(* each native answers, and what a walk has still to visit, the natives      *)
(* implement ImmutableLists.                                                 *)
EXTENDS ListRuns, SequenceTheorems, FiniteSetTheorems, WellFoundedInduction, TLAPS

Heap == Seq(Seq(Int))

\* The items a box shows over a heap.
Shown(h, box) == ItemsOf(h, RunsOf(h, box))

\* A box makes sense over a heap.
Fits(h, box) ==
  /\ box \in Box
  /\ box.value \in 1 .. Len(h)
  /\ box.front \in (1 .. Len(h)) \cup {undefined}
  /\ box.length # undefined => box.length <= Len(h[box.value])
  /\ IF box.front = undefined
     THEN box.frontLen = undefined
     ELSE box.frontLen \in 0 .. Len(h[box.front])

\* A box that leaves its count unsaid shares its back run with nobody.
Unshared(bs) ==
  \A b, c \in 1 .. Len(bs) :
    bs[b].length = undefined =>
      bs[c].front # bs[b].value /\ (c # b => bs[c].value # bs[b].value)

Sound(h, bs) ==
  /\ h \in Heap
  /\ bs \in Seq(Box)
  /\ \A b \in 1 .. Len(bs) : Fits(h, bs[b])
  /\ Unshared(bs)

\* New Arrays only, and Arrays that only got longer.
Grown(h, g) == Len(h) <= Len(g) /\ \A a \in 1 .. Len(h) : g[a] = h[a]

Extended(h, g) ==
  /\ Len(h) <= Len(g)
  /\ \A a \in 1 .. Len(h) :
       Len(h[a]) <= Len(g[a]) /\ \A i \in 1 .. Len(h[a]) : g[a][i] = h[a][i]

\* `kept` stands for `box` over a grown heap.
Stands(h, box, g, kept) ==
  /\ Fits(g, kept)
  /\ Shown(g, kept) = Shown(h, box)
  /\ kept.length = undefined => box.length = undefined /\ kept.value = box.value
  /\ kept.value = box.value \/ kept.value > Len(h)
  /\ kept.front \in {box.front, undefined} \/ kept.front > Len(h)

\* The boxes of bs are there in cs, with the items they had.
Same(h, bs, g, cs) ==
  /\ Len(bs) <= Len(cs)
  /\ \A b \in 1 .. Len(bs) : Shown(g, cs[b]) = Shown(h, bs[b])

\* The receiver b of bs has its count written down in cs.
Stamped(h, bs, b, cs) ==
  /\ Sound(h, cs) /\ Same(h, bs, h, cs) /\ Len(cs) = Len(bs)
  /\ cs[b].length # undefined
  /\ cs[b].value = bs[b].value /\ cs[b].front = bs[b].front

\* r is what pushing some items onto a run left, beside boxes bs.
PushDone(h, bs, run, count, more, r) ==
  /\ r.heap \in Heap /\ Extended(h, r.heap)
  /\ Sound(r.heap, bs) /\ Same(h, bs, r.heap, bs)
  /\ r.run \in 1 .. Len(r.heap)
  /\ count + more <= Len(r.heap[r.run])
  /\ IF count = Len(h[run]) THEN r.run = run ELSE r.run = Len(h) + 1

-----------------------------------------------------------------------------
(* A view depends on the counted part of its runs alone.                     *)

LEMMA PrefixKept ==
  ASSUME NEW s \in Seq(Int), NEW t \in Seq(Int), NEW n \in 0 .. Len(s),
         Len(s) <= Len(t), \A i \in 1 .. Len(s) : t[i] = s[i]
  PROVE  SubSeq(t, 1, n) = SubSeq(s, 1, n)
<1>1. /\ SubSeq(s, 1, n) \in Seq(Int) /\ SubSeq(t, 1, n) \in Seq(Int)
      /\ Len(SubSeq(s, 1, n)) = n /\ Len(SubSeq(t, 1, n)) = n
      /\ \A i \in 1 .. n : SubSeq(s, 1, n)[i] = s[i] /\ SubSeq(t, 1, n)[i] = t[i]
  BY SMT
<1> QED BY <1>1, SeqEqual, SMT

LEMMA GrownExtends ==
  ASSUME NEW h \in Heap, NEW g \in Heap, Grown(h, g)
  PROVE  Extended(h, g)
BY SMT DEF Grown, Extended, Heap

LEMMA BoxKept ==
  ASSUME NEW h \in Heap, NEW g \in Heap, Extended(h, g),
         NEW box, Fits(h, box),
         box.length = undefined => g[box.value] = h[box.value]
  PROVE  Fits(g, box) /\ Shown(g, box) = Shown(h, box)
<1>a. \A run \in 1 .. Len(h) :
        run \in 1 .. Len(g) /\ h[run] \in Seq(Int) /\ g[run] \in Seq(Int) /\ Len(h[run]) <= Len(g[run])
  BY SMT DEF Extended, Heap
<1>b. /\ box.value \in 1 .. Len(h)
      /\ box.front \in (1 .. Len(h)) \cup {undefined}
      /\ box.length \in Nat \cup {undefined}
      /\ box.frontLen \in Nat \cup {undefined}
  BY SMT DEF Fits, Box
<1>c. box.front # undefined => box.frontLen \in 0 .. Len(h[box.front]) /\ box.frontLen # undefined
  BY <1>a, <1>b, SMT DEF Fits, undefined
<1>1. Fits(g, box)
  <2>1. box.length # undefined => box.length <= Len(g[box.value])
    BY <1>a, <1>b, SMT DEF Fits, undefined
  <2>2. box.front # undefined => box.frontLen \in 0 .. Len(g[box.front])
    BY <1>a, <1>b, <1>c, SMT DEF undefined
  <2>3. box.front = undefined => box.frontLen = undefined
    BY DEF Fits
  <2> QED BY <1>a, <1>b, <2>1, <2>2, <2>3 DEF Fits
<1>2. RunsOf(g, box) = RunsOf(h, box)
  BY <1>c, Zenon DEF RunsOf
<1> DEFINE view == RunsOf(h, box)
<1>3. /\ view.back \in 1 .. Len(h)
      /\ view.backCount \in 0 .. Len(h[view.back])
      /\ view.front # undefined => view.front \in 1 .. Len(h) /\ view.frontCount \in 0 .. Len(h[view.front])
  BY <1>a, <1>b, <1>c, SMT DEF Fits, RunsOf, undefined
<1>4. ASSUME NEW a \in 1 .. Len(h), NEW n \in 0 .. Len(h[a])
      PROVE  SubSeq(g[a], 1, n) = SubSeq(h[a], 1, n)
  BY PrefixKept, SMT DEF Extended, Heap
<1>5. SubSeq(g[view.back], 1, view.backCount) = SubSeq(h[view.back], 1, view.backCount)
  BY <1>3, <1>4
<1>6. view.front # undefined =>
        SubSeq(g[view.front], 1, view.frontCount) = SubSeq(h[view.front], 1, view.frontCount)
  BY <1>3, <1>4
<1>7. ItemsOf(g, view) = ItemsOf(h, view)
  BY <1>5, <1>6, Zenon DEF ItemsOf
<1> QED BY <1>1, <1>2, <1>7, Zenon DEF Shown

LEMMA BoxKeptGrown ==
  ASSUME NEW h \in Heap, NEW g \in Heap, Grown(h, g), NEW box, Fits(h, box)
  PROVE  Stands(h, box, g, box)
<1>1. Extended(h, g) BY GrownExtends
<1>2. g[box.value] = h[box.value] BY SMT DEF Fits, Grown
<1> QED BY <1>1, <1>2, BoxKept DEF Stands

-----------------------------------------------------------------------------
(* Three ways a native changes the boxes and the heap.                       *)

\* One box gets another representation of the same items.
LEMMA Represented ==
  ASSUME NEW h \in Heap, NEW bs, Sound(h, bs), NEW g \in Heap, Grown(h, g),
         NEW b \in 1 .. Len(bs), NEW kept, Stands(h, bs[b], g, kept),
         NEW cs, cs = [bs EXCEPT ![b] = kept]
  PROVE  Sound(g, cs) /\ Same(h, bs, g, cs) /\ Len(cs) = Len(bs)
<1>1. /\ bs \in Seq(Box) /\ kept \in Box
      /\ \A c \in 1 .. Len(bs) : Fits(h, bs[c])
  BY DEF Sound, Stands, Fits
<1>2. /\ cs \in Seq(Box) /\ Len(cs) = Len(bs) /\ cs[b] = kept
      /\ \A c \in 1 .. Len(bs) : c # b => cs[c] = bs[c]
  BY <1>1, SMT
<1>3. \A c \in 1 .. Len(bs) : Stands(h, bs[c], g, cs[c])
  BY <1>1, <1>2, BoxKeptGrown
<1>4. \A c \in 1 .. Len(bs) : Fits(g, cs[c]) /\ Shown(g, cs[c]) = Shown(h, bs[c])
  BY <1>3 DEF Stands
<1>5. Unshared(cs)
  <2> SUFFICES ASSUME NEW x \in 1 .. Len(bs), NEW y \in 1 .. Len(bs),
                      cs[x].length = undefined
               PROVE  cs[y].front # cs[x].value /\ (y # x => cs[y].value # cs[x].value)
    BY <1>2 DEF Unshared
  <2>1. bs[x].length = undefined /\ cs[x].value = bs[x].value
    BY <1>3 DEF Stands
  <2>2. bs[y].front # bs[x].value /\ (y # x => bs[y].value # bs[x].value)
    BY <2>1 DEF Sound, Unshared
  <2>3. bs[x].value \in 1 .. Len(h)
    BY <1>1 DEF Fits
  <2>4. /\ cs[y].value = bs[y].value \/ cs[y].value > Len(h)
        /\ cs[y].front \in {bs[y].front, undefined} \/ cs[y].front > Len(h)
    BY <1>3 DEF Stands
  <2>5. bs[x].value # undefined
    BY <2>3, SMT DEF undefined
  <2>6. ~(bs[x].value > Len(h))
    BY <2>3, SMT DEF Heap
  <2> QED BY <2>1, <2>2, <2>4, <2>5, <2>6, Zenon
<1> QED BY <1>2, <1>4, <1>5, SMT DEF Sound, Same

\* Items are pushed onto a run that no box views without saying how much of it.
LEMMA PushKeeps ==
  ASSUME NEW h \in Heap, NEW bs, Sound(h, bs), NEW g \in Heap, Extended(h, g),
         \A c \in 1 .. Len(bs) : bs[c].length = undefined => g[bs[c].value] = h[bs[c].value]
  PROVE  Sound(g, bs) /\ Same(h, bs, g, bs)
<1>1. \A c \in 1 .. Len(bs) : Fits(g, bs[c]) /\ Shown(g, bs[c]) = Shown(h, bs[c])
  BY BoxKept DEF Sound
<1>2. bs \in Seq(Box) /\ Len(bs) \in Nat BY DEF Sound
<1> QED BY <1>1, <1>2, SMT DEF Sound, Same

\* A new box stands beside the others.
LEMMA Answered ==
  ASSUME NEW h \in Heap, NEW bs, Sound(h, bs), NEW new, Fits(h, new),
         \A c \in 1 .. Len(bs) :
           /\ bs[c].length = undefined => new.value # bs[c].value /\ new.front # bs[c].value
           /\ new.length = undefined => bs[c].value # new.value /\ bs[c].front # new.value,
         new.length = undefined => new.front # new.value
  PROVE  Sound(h, Append(bs, new)) /\ Same(h, bs, h, Append(bs, new))
<1> DEFINE cs == Append(bs, new)
<1>1. bs \in Seq(Box) /\ new \in Box BY DEF Sound, Fits
<1>2. /\ cs \in Seq(Box) /\ Len(cs) = Len(bs) + 1 /\ Len(bs) \in Nat
      /\ \A c \in 1 .. Len(bs) : cs[c] = bs[c]
      /\ cs[Len(bs) + 1] = new
  BY <1>1, AppendProperties
<1> HIDE DEF cs
<1>3. \A c \in 1 .. Len(cs) : c \in 1 .. Len(bs) \/ c = Len(bs) + 1
  BY <1>2, SMT
<1>4. \A c \in 1 .. Len(cs) : Fits(h, cs[c])
  BY <1>2, <1>3, Zenon DEF Sound
<1>5. Unshared(cs)
  <2> SUFFICES ASSUME NEW x \in 1 .. Len(cs), NEW y \in 1 .. Len(cs),
                      cs[x].length = undefined
               PROVE  cs[y].front # cs[x].value /\ (y # x => cs[y].value # cs[x].value)
    BY DEF Unshared
  <2>1. CASE x \in 1 .. Len(bs) /\ y \in 1 .. Len(bs)
    BY <1>2, <2>1, ZenonT(30) DEF Sound, Unshared
  <2>2. CASE x \in 1 .. Len(bs) /\ y = Len(bs) + 1
    BY <1>2, <2>2, Zenon
  <2>3. CASE x = Len(bs) + 1 /\ y \in 1 .. Len(bs)
    BY <1>2, <2>3, Zenon
  <2>4. CASE x = Len(bs) + 1 /\ y = Len(bs) + 1
    BY <1>2, <2>4, Zenon
  <2> QED BY <1>3, <2>1, <2>2, <2>3, <2>4, Zenon
<1> QED BY <1>2, <1>4, <1>5, SMT DEF Sound, Same, cs

LEMMA SameThenSame ==
  ASSUME NEW h, NEW bs \in Seq(Box), NEW g, NEW cs \in Seq(Box), NEW k, NEW ds \in Seq(Box),
         Same(h, bs, g, cs), Same(g, cs, k, ds)
  PROVE  Same(h, bs, k, ds)
BY SMT DEF Same

-----------------------------------------------------------------------------
(* Reading, combining and stamping a box leave its items as they were.       *)

LEMMA Runs ==
  ASSUME NEW h \in Heap, NEW box, Fits(h, box)
  PROVE  LET view == RunsOf(h, box)
         IN /\ view.back = box.value /\ view.back \in 1 .. Len(h)
            /\ h[view.back] \in Seq(Int)
            /\ view.backCount \in 0 .. Len(h[view.back])
            /\ box.length # undefined => view.backCount = box.length
            /\ box.length = undefined => view.backCount = Len(h[view.back])
            /\ view.front = box.front
            /\ view.front = undefined => view.frontCount = 0
            /\ view.front # undefined =>
                 /\ view.front \in 1 .. Len(h)
                 /\ h[view.front] \in Seq(Int)
                 /\ view.frontCount = box.frontLen
                 /\ view.frontCount \in 0 .. Len(h[view.front])
            /\ view.frontCount \in Nat
<1>1. /\ box.value \in 1 .. Len(h)
      /\ box.front \in (1 .. Len(h)) \cup {undefined}
      /\ box.length \in Nat \cup {undefined}
      /\ box.frontLen \in Nat \cup {undefined}
  BY SMT DEF Fits, Box
<1>2. box.front # undefined => box.frontLen \in 0 .. Len(h[box.front]) /\ box.frontLen # undefined
  BY <1>1, SMT DEF Fits, Heap, undefined
<1>3. box.length # undefined => box.length \in 0 .. Len(h[box.value])
  BY <1>1, SMT DEF Fits, Heap, undefined
<1> QED BY <1>1, <1>2, <1>3, SMT DEF RunsOf, Heap

LEMMA HeapAppend ==
  ASSUME NEW h \in Heap, NEW items \in Seq(Int)
  PROVE  /\ Append(h, items) \in Heap
         /\ Len(Append(h, items)) = Len(h) + 1
         /\ Grown(h, Append(h, items))
         /\ Append(h, items)[Len(h) + 1] = items
         /\ Len(h) \in Nat
BY AppendProperties, SMT DEF Heap, Grown

LEMMA SubSeqWhole ==
  ASSUME NEW s \in Seq(Int), NEW n \in 0 .. Len(s)
  PROVE  /\ SubSeq(s, 1, n) \in Seq(Int)
         /\ Len(SubSeq(s, 1, n)) = n
         /\ SubSeq(SubSeq(s, 1, n), 1, n) = SubSeq(s, 1, n)
<1>1. SubSeq(s, 1, n) \in Seq(Int) /\ Len(SubSeq(s, 1, n)) = n
  BY SMT
<1> QED BY <1>1, SubSeqFull

LEMMA TrimBackStands ==
  ASSUME NEW h \in Heap, NEW box, Fits(h, box)
  PROVE  LET r == TrimBack(h, box)
         IN r.heap \in Heap /\ Grown(h, r.heap) /\ Stands(h, box, r.heap, r.box)
<1> DEFINE view == RunsOf(h, box)
           trim == SubSeq(h[view.back], 1, view.backCount)
           g == Append(h, trim)
           kept == [box EXCEPT !.value = Len(h) + 1, !.length = view.backCount]
<1>1. CASE view.backCount = Len(h[view.back])
  <2>1. TrimBack(h, box) = [heap |-> h, box |-> box] BY <1>1, Zenon DEF TrimBack
  <2>2. Grown(h, h) BY SMT DEF Grown, Heap
  <2> QED BY <2>1, <2>2, BoxKeptGrown, SMT
<1>2. CASE view.backCount # Len(h[view.back])
  <2>1. TrimBack(h, box) = [heap |-> g, box |-> kept] BY <1>2, Zenon DEF TrimBack
  <2>2. /\ view.back = box.value /\ h[view.back] \in Seq(Int)
        /\ view.backCount \in 0 .. Len(h[view.back])
        /\ box.length # undefined /\ view.front = box.front
    BY <1>2, Runs
  <2>3. trim \in Seq(Int) /\ Len(trim) = view.backCount /\ SubSeq(trim, 1, view.backCount) = trim
    BY <2>2, SubSeqWhole
  <2> HIDE DEF view, trim
  <2>4. g \in Heap /\ Len(g) = Len(h) + 1 /\ Grown(h, g) /\ g[Len(h) + 1] = trim /\ Len(h) \in Nat
    BY <2>3, HeapAppend
  <2> HIDE DEF g
  <2>5. Fits(g, box) /\ Shown(g, box) = Shown(h, box)
    BY <2>4, BoxKeptGrown DEF Stands
  <2>6. /\ kept \in Box /\ kept.value = Len(h) + 1 /\ kept.length = view.backCount
        /\ kept.front = box.front /\ kept.frontLen = box.frontLen
    <3>1. box \in Box BY DEF Fits
    <3>2. view.backCount \in Nat /\ Len(h) + 1 \in Nat BY <2>3, <2>4, SMT
    <3>3. kept \in Box BY <3>1, <3>2, Zenon DEF Box
    <3> QED BY <3>1, <3>2, <3>3, SMT DEF Box
  <2>7. Fits(g, kept)
    <3>1. kept.value \in 1 .. Len(g) /\ kept.length <= Len(g[kept.value])
      BY <2>2, <2>3, <2>4, <2>6, SMT
    <3> QED BY <3>1, <2>5, <2>6, Zenon DEF Fits
  <2>8. Shown(g, kept) = Shown(g, box)
    <3>1. RunsOf(g, kept) = [RunsOf(g, box) EXCEPT !.back = Len(h) + 1]
      <4>1. RunsOf(g, box).backCount = view.backCount
        BY <2>2, Zenon DEF RunsOf, view
      <4>2. kept.length # undefined BY <2>2, <2>6, SMT DEF undefined
      <4> QED BY <4>1, <4>2, <2>6, SMT DEF RunsOf
    <3>2. RunsOf(g, box).back = box.value /\ RunsOf(g, box).backCount = view.backCount
      BY <2>2, Zenon DEF RunsOf, view
    <3>3. SubSeq(g[box.value], 1, view.backCount) = trim
      <4>1. g[box.value] = h[box.value] BY <2>2, <2>4, SMT DEF Grown, Fits
      <4> QED BY <4>1, <2>2, Zenon DEF trim
    <3>4. SubSeq(g[Len(h) + 1], 1, view.backCount) = trim
      BY <2>3, <2>4
    <3>5. PICK r : r = RunsOf(g, box) OBVIOUS
    <3>6. /\ [r EXCEPT !.back = Len(h) + 1].back = Len(h) + 1
          /\ [r EXCEPT !.back = Len(h) + 1].backCount = r.backCount
          /\ [r EXCEPT !.back = Len(h) + 1].front = r.front
          /\ [r EXCEPT !.back = Len(h) + 1].frontCount = r.frontCount
      BY <3>5, SMT DEF RunsOf
    <3> QED BY <3>1, <3>2, <3>3, <3>4, <3>5, <3>6, Zenon DEF Shown, ItemsOf
  <2>9. Stands(h, box, g, kept)
    BY <2>2, <2>4, <2>5, <2>6, <2>7, <2>8, SMT DEF Stands, undefined
  <2> QED BY <2>1, <2>4, <2>9, SMT
<1> QED BY <1>1, <1>2

LEMMA TrimFrontStands ==
  ASSUME NEW h \in Heap, NEW box, Fits(h, box)
  PROVE  LET r == TrimFront(h, box)
         IN r.heap \in Heap /\ Grown(h, r.heap) /\ Stands(h, box, r.heap, r.box)
<1> DEFINE view == RunsOf(h, box)
           trim == SubSeq(h[view.front], 1, view.frontCount)
           g == Append(h, trim)
           kept == [box EXCEPT !.front = Len(h) + 1, !.frontLen = view.frontCount]
<1>1. CASE view.front = undefined \/ view.frontCount = Len(h[view.front])
  <2>1. TrimFront(h, box) = [heap |-> h, box |-> box] BY <1>1, Zenon DEF TrimFront
  <2>2. Grown(h, h) BY SMT DEF Grown, Heap
  <2> QED BY <2>1, <2>2, BoxKeptGrown, SMT
<1>2. CASE ~(view.front = undefined \/ view.frontCount = Len(h[view.front]))
  <2>1. TrimFront(h, box) = [heap |-> g, box |-> kept] BY <1>2, Zenon DEF TrimFront
  <2>2. /\ view.front = box.front /\ view.front # undefined /\ h[view.front] \in Seq(Int)
        /\ view.front \in 1 .. Len(h) /\ view.frontCount \in 0 .. Len(h[view.front])
        /\ view.frontCount = box.frontLen
    BY <1>2, Runs
  <2>3. trim \in Seq(Int) /\ Len(trim) = view.frontCount /\ SubSeq(trim, 1, view.frontCount) = trim
    BY <2>2, SubSeqWhole
  <2> HIDE DEF view, trim
  <2>4. g \in Heap /\ Len(g) = Len(h) + 1 /\ Grown(h, g) /\ g[Len(h) + 1] = trim /\ Len(h) \in Nat
    BY <2>3, HeapAppend
  <2> HIDE DEF g
  <2>5. Fits(g, box) /\ Shown(g, box) = Shown(h, box)
    BY <2>4, BoxKeptGrown DEF Stands
  <2>6. /\ kept \in Box /\ kept.value = box.value /\ kept.length = box.length
        /\ kept.front = Len(h) + 1 /\ kept.frontLen = view.frontCount
    <3>1. box \in Box BY DEF Fits
    <3>2. view.frontCount \in Nat /\ Len(h) + 1 \in Nat BY <2>3, <2>4, SMT
    <3>3. kept \in Box BY <3>1, <3>2, Zenon DEF Box
    <3> QED BY <3>1, <3>2, <3>3, SMT DEF Box
  <2>7. kept.front # undefined /\ kept.frontLen # undefined
    BY <2>3, <2>4, <2>6, SMT DEF undefined
  <2>8. Fits(g, kept)
    <3>1. kept.front \in 1 .. Len(g) /\ kept.frontLen \in 0 .. Len(g[kept.front])
      BY <2>3, <2>4, <2>6, SMT
    <3> QED BY <3>1, <2>5, <2>6, <2>7, Zenon DEF Fits
  <2>9. Shown(g, kept) = Shown(g, box)
    <3>1. RunsOf(g, kept) = [RunsOf(g, box) EXCEPT !.front = Len(h) + 1]
      <4>1. RunsOf(g, box).frontCount = view.frontCount
        <5>1. box.front # undefined BY <2>2
        <5>2. box.frontLen # undefined BY <2>2, <2>3, SMT DEF undefined
        <5> QED BY <5>1, <5>2, <2>2, Zenon DEF RunsOf
      <4> QED BY <4>1, <2>6, <2>7, SMT DEF RunsOf
    <3>2. RunsOf(g, box).front = box.front /\ RunsOf(g, box).frontCount = view.frontCount
      <4>1. box.front # undefined BY <2>2
      <4>2. box.frontLen # undefined BY <2>2, <2>3, SMT DEF undefined
      <4> QED BY <4>1, <4>2, <2>2, Zenon DEF RunsOf
    <3>3. SubSeq(g[box.front], 1, view.frontCount) = trim
      <4>1. g[box.front] = h[box.front] BY <2>2, <2>4, SMT DEF Grown
      <4> QED BY <4>1, <2>2, Zenon DEF trim
    <3>4. SubSeq(g[Len(h) + 1], 1, view.frontCount) = trim
      BY <2>3, <2>4
    <3>5. PICK r : r = RunsOf(g, box) OBVIOUS
    <3>6. /\ [r EXCEPT !.front = Len(h) + 1].front = Len(h) + 1
          /\ [r EXCEPT !.front = Len(h) + 1].backCount = r.backCount
          /\ [r EXCEPT !.front = Len(h) + 1].back = r.back
          /\ [r EXCEPT !.front = Len(h) + 1].frontCount = r.frontCount
      BY <3>5, SMT DEF RunsOf
    <3>7. box.front # undefined /\ Len(h) + 1 # undefined
      BY <2>2, <2>4, SMT DEF undefined
    <3> QED BY <3>1, <3>2, <3>3, <3>4, <3>5, <3>6, <3>7, Zenon DEF Shown, ItemsOf
  <2>10. Stands(h, box, g, kept)
    BY <2>2, <2>4, <2>5, <2>6, <2>8, <2>9, SMT DEF Stands, undefined
  <2> QED BY <2>1, <2>4, <2>10, SMT
<1> QED BY <1>1, <1>2

LEMMA StandsThenStands ==
  ASSUME NEW h \in Heap, NEW g \in Heap, NEW k \in Heap, Grown(h, g), Grown(g, k),
         NEW x, NEW y, NEW z, Fits(h, x), Stands(h, x, g, y), Stands(g, y, k, z)
  PROVE  Grown(h, k) /\ Stands(h, x, k, z)
<1>1. Len(h) \in Nat /\ Len(g) \in Nat /\ Len(k) \in Nat BY SMT DEF Heap
<1>2. Grown(h, k) BY <1>1, SMT DEF Grown
<1>3. z.value \in Nat /\ z.front \in Nat \cup {undefined} /\ Len(h) <= Len(g)
  BY SMT DEF Stands, Fits, Grown, Box
<1>4. Shown(k, z) = Shown(h, x) BY DEF Stands
<1> QED BY <1>1, <1>2, <1>3, <1>4, SMT DEF Stands, undefined

LEMMA TrimmedStands ==
  ASSUME NEW h \in Heap, NEW box, Fits(h, box)
  PROVE  LET r == Trimmed(h, box)
         IN r.heap \in Heap /\ Grown(h, r.heap) /\ Stands(h, box, r.heap, r.box)
<1>1. PICK back : back = TrimBack(h, box) OBVIOUS
<1>2. back.heap \in Heap /\ Grown(h, back.heap) /\ Stands(h, box, back.heap, back.box)
  BY <1>1, TrimBackStands
<1>3. PICK both : both = TrimFront(back.heap, back.box) OBVIOUS
<1>4. both.heap \in Heap /\ Grown(back.heap, both.heap) /\ Stands(back.heap, back.box, both.heap, both.box)
  <2>1. Fits(back.heap, back.box) BY <1>2 DEF Stands
  <2> QED BY <1>2, <1>3, <2>1, TrimFrontStands
<1>5. Trimmed(h, box) = both BY <1>1, <1>3 DEF Trimmed
<1> QED BY <1>2, <1>4, <1>5, StandsThenStands

LEMMA ShownIsSeq ==
  ASSUME NEW h \in Heap, NEW box, Fits(h, box)
  PROVE  Shown(h, box) \in Seq(Int)
<1> DEFINE view == RunsOf(h, box)
<1>1. SubSeq(h[view.back], 1, view.backCount) \in Seq(Int)
  BY Runs, SubSeqWhole
<1>2. view.front # undefined => SubSeq(h[view.front], 1, view.frontCount) \in Seq(Int)
  BY Runs, SubSeqWhole
<1>3. ASSUME NEW s \in Seq(Int) PROVE Reverse(s) \in Seq(Int)
  BY SMT DEF Reverse
<1>4. <<>> \in Seq(Int) OBVIOUS
<1>5. PICK front : front = IF view.front = undefined THEN <<>>
                           ELSE Reverse(SubSeq(h[view.front], 1, view.frontCount))
  OBVIOUS
<1>6. front \in Seq(Int) BY <1>2, <1>3, <1>4, <1>5, Zenon
<1>7. PICK back : back = SubSeq(h[view.back], 1, view.backCount) OBVIOUS
<1>8. Shown(h, box) = front \o back BY <1>5, <1>7, Zenon DEF Shown, ItemsOf
<1> QED BY <1>1, <1>6, <1>7, <1>8, ConcatProperties

LEMMA FlatFits ==
  ASSUME NEW h \in Heap, NEW items \in Seq(Int), NEW n \in {undefined, Len(items)}
  PROVE  LET g == Append(h, items)
             new == [Flat(Len(h) + 1) EXCEPT !.length = n]
         IN /\ Fits(g, new) /\ Shown(g, new) = items
            /\ new.value = Len(h) + 1 /\ new.length = n /\ new.front = undefined
<1> DEFINE g == Append(h, items)
           new == [Flat(Len(h) + 1) EXCEPT !.length = n]
<1>1. g \in Heap /\ Len(g) = Len(h) + 1 /\ g[Len(h) + 1] = items /\ Len(h) \in Nat
  BY HeapAppend
<1>2. Len(items) \in Nat OBVIOUS
<1>3. /\ new.value = Len(h) + 1 /\ new.length = n
      /\ new.front = undefined /\ new.frontLen = undefined
  BY SMT DEF Flat
<1>4. new \in Box
  <2>1. new = [value |-> Len(h) + 1, length |-> n, front |-> undefined, frontLen |-> undefined]
    BY SMT DEF Flat
  <2>2. Len(h) + 1 \in Nat /\ n \in Nat \cup {undefined} BY <1>1, <1>2, SMT
  <2> QED BY <2>1, <2>2, Zenon DEF Box
<1> HIDE DEF g, new
<1>5. Fits(g, new)
  <2>1. new.value \in 1 .. Len(g) BY <1>1, <1>3, SMT
  <2>2. new.length # undefined => new.length <= Len(g[new.value])
    BY <1>1, <1>2, <1>3, SMT
  <2> QED BY <2>1, <2>2, <1>3, <1>4, Zenon DEF Fits
<1>6. Shown(g, new) = items
  <2>1. RunsOf(g, new) = [back |-> Len(h) + 1, backCount |-> Len(items), front |-> undefined, frontCount |-> 0]
    BY <1>1, <1>3, SMT DEF RunsOf
  <2>2. Shown(g, new) = <<>> \o SubSeq(items, 1, Len(items))
    BY <2>1, <1>1, SMT DEF Shown, ItemsOf
  <2>3. SubSeq(items, 1, Len(items)) = items BY SubSeqFull
  <2> QED BY <2>2, <2>3, ConcatEmptySeq
<1> QED BY <1>3, <1>5, <1>6 DEF g, new

LEMMA MaterialisedStands ==
  ASSUME NEW h \in Heap, NEW box, Fits(h, box)
  PROVE  LET r == Materialised(h, box)
         IN r.heap \in Heap /\ Grown(h, r.heap) /\ Stands(h, box, r.heap, r.box)
<1>1. CASE box.front = undefined
  <2>1. Materialised(h, box) = TrimBack(h, box) BY <1>1, Zenon DEF Materialised
  <2> QED BY <2>1, TrimBackStands
<1>2. CASE box.front # undefined
  <2>1. PICK combined : combined = Shown(h, box) OBVIOUS
  <2>2. combined \in Seq(Int) BY <2>1, ShownIsSeq
  <2>3. PICK g : g = Append(h, combined) OBVIOUS
  <2>4. PICK new : new = [Flat(Len(h) + 1) EXCEPT !.length = Len(combined)] OBVIOUS
  <2>5. Materialised(h, box) = [heap |-> g, box |-> new]
    BY <1>2, <2>1, <2>3, <2>4, Zenon DEF Materialised, Shown
  <2>6. g \in Heap /\ Grown(h, g) /\ Len(h) \in Nat BY <2>2, <2>3, HeapAppend
  <2>7. /\ Fits(g, new) /\ Shown(g, new) = combined
        /\ new.value = Len(h) + 1 /\ new.length = Len(combined) /\ new.front = undefined
    BY <2>2, <2>3, <2>4, FlatFits
  <2>8. new.length # undefined BY <2>2, <2>7, SMT DEF undefined
  <2>9. Stands(h, box, g, new) BY <2>1, <2>6, <2>7, <2>8, SMT DEF Stands
  <2> QED BY <2>5, <2>6, <2>9, SMT
<1> QED BY <1>1, <1>2

\* Writing down a count that a box left unsaid.
LEMMA StampStands ==
  ASSUME NEW h \in Heap, NEW box, Fits(h, box)
  PROVE  LET stamped == [box EXCEPT !.length = RunsOf(h, box).backCount]
         IN /\ Stands(h, box, h, stamped) /\ stamped.length # undefined
            /\ stamped = StampClosed(box, RunsOf(h, box))
            /\ stamped.value = box.value /\ stamped.front = box.front
            /\ stamped.frontLen = box.frontLen
<1>1. PICK view : view = RunsOf(h, box) OBVIOUS
<1> DEFINE stamped == [box EXCEPT !.length = view.backCount]
<1>2. box \in Box BY DEF Fits
<1>3. /\ view.back = box.value /\ view.backCount \in 0 .. Len(h[view.back])
      /\ h[view.back] \in Seq(Int)
      /\ box.front # undefined => view.frontCount = box.frontLen
  BY <1>1, Runs
<1>4. view.backCount \in Nat /\ view.backCount # undefined BY <1>3, SMT DEF undefined
<1>5. stamped \in Box BY <1>2, <1>4, Zenon DEF Box
<1>6. /\ stamped.value = box.value /\ stamped.length = view.backCount
      /\ stamped.front = box.front /\ stamped.frontLen = box.frontLen
  BY <1>2, SMT DEF Box
<1>7. stamped = StampClosed(box, view)
  <2>2. PICK n : n = IF box.front = undefined THEN box.frontLen ELSE view.frontCount
    OBVIOUS
  <2>3. n = box.frontLen BY <1>3, <2>2
  <2>4. StampClosed(box, view) = [box EXCEPT !.length = view.backCount, !.frontLen = n]
    BY <2>2, Zenon DEF StampClosed
  <2>5. [box EXCEPT !.length = view.backCount, !.frontLen = box.frontLen] = stamped
    BY <1>2, <1>4, Zenon DEF Box
  <2> QED BY <2>3, <2>4, <2>5
<1> HIDE DEF stamped
<1>8. Fits(h, stamped)
  <2>1. view.backCount <= Len(h[box.value]) BY <1>3, SMT
  <2> QED BY <1>5, <1>6, <2>1, Zenon DEF Fits
<1>9. RunsOf(h, stamped) = view
  BY <1>1, <1>4, <1>6, Zenon DEF RunsOf
<1>10. Shown(h, stamped) = Shown(h, box) BY <1>1, <1>9 DEF Shown
<1>11. Stands(h, box, h, stamped)
  BY <1>4, <1>6, <1>8, <1>10, Zenon DEF Stands
<1> QED BY <1>1, <1>4, <1>6, <1>7, <1>11 DEF stamped

-----------------------------------------------------------------------------
(* Answers.                                                                  *)

LEMMA SameSelf ==
  ASSUME NEW h, NEW bs, bs \in Seq(Box)
  PROVE  Same(h, bs, h, bs)
BY SMT DEF Same

LEMMA Refs ==
  ASSUME NEW h \in Heap, NEW bs, Sound(h, bs), NEW c \in 1 .. Len(bs)
  PROVE  /\ Fits(h, bs[c]) /\ Len(h) \in Nat
         /\ bs[c].value \in Nat /\ bs[c].value <= Len(h)
         /\ bs[c].front # undefined => bs[c].front \in Nat /\ bs[c].front <= Len(h)
<1>1. Fits(h, bs[c]) BY DEF Sound
<1>2. Len(h) \in Nat BY SMT DEF Heap
<1> QED BY <1>1, <1>2, SMT DEF Fits

\* New Arrays leave every box as it was.
LEMMA GrownSound ==
  ASSUME NEW h \in Heap, NEW bs, Sound(h, bs), NEW g \in Heap, Grown(h, g)
  PROVE  Sound(g, bs) /\ Same(h, bs, g, bs)
<1>1. Extended(h, g) BY GrownExtends
<1>2. \A c \in 1 .. Len(bs) : g[bs[c].value] = h[bs[c].value]
  BY SMT DEF Sound, Fits, Grown
<1> QED BY <1>1, <1>2, PushKeeps

\* A box over a fresh Array of its own, whatever its count says.
LEMMA FreshSound ==
  ASSUME NEW h \in Heap, NEW bs, Sound(h, bs), NEW items \in Seq(Int)
  PROVE  LET g == Append(h, items)
             cs == Append(bs, Flat(Len(h) + 1))
         IN Sound(g, cs) /\ Same(h, bs, g, cs) /\ g \in Heap
<1>1. PICK g : g = Append(h, items) OBVIOUS
<1>2. PICK new : new = Flat(Len(h) + 1) OBVIOUS
<1>3. g \in Heap /\ Grown(h, g) /\ Len(h) \in Nat BY <1>1, HeapAppend
<1>4. Sound(g, bs) /\ Same(h, bs, g, bs) BY <1>3, GrownSound
<1>5. new = [new EXCEPT !.length = undefined] BY <1>2, SMT DEF Flat
<1>6. Fits(g, new) /\ new.value = Len(h) + 1 /\ new.length = undefined /\ new.front = undefined
  BY <1>1, <1>2, <1>5, FlatFits
<1>7. new.front # new.value /\ \A c \in 1 .. Len(bs) :
        /\ new.value # bs[c].value /\ bs[c].front # new.value
        /\ new.front # bs[c].value
  BY <1>3, <1>6, Refs, SMT DEF undefined
<1>8. Sound(g, Append(bs, new)) /\ Same(g, bs, g, Append(bs, new))
  BY <1>3, <1>4, <1>6, <1>7, Answered
<1>9. bs \in Seq(Box) /\ Append(bs, new) \in Seq(Box) BY <1>4, <1>8 DEF Sound
<1>10. Same(h, bs, g, Append(bs, new)) BY <1>4, <1>8, <1>9, SameThenSame
<1> QED BY <1>1, <1>2, <1>3, <1>8, <1>10, Zenon

\* A box that shares the runs of a box whose count is written down.
LEMMA SharingSound ==
  ASSUME NEW h \in Heap, NEW bs, Sound(h, bs), NEW b \in 1 .. Len(bs), bs[b].length # undefined,
         NEW L \in Nat, \A c \in 1 .. Len(bs) : bs[c].value <= L,
         NEW new, Fits(h, new), new.length # undefined,
         new.value = bs[b].value \/ new.value > L,
         new.front \in {bs[b].front, undefined} \/ new.front > L
  PROVE  Sound(h, Append(bs, new)) /\ Same(h, bs, h, Append(bs, new))
<1>1. ASSUME NEW c \in 1 .. Len(bs), bs[c].length = undefined
      PROVE  new.value # bs[c].value /\ new.front # bs[c].value
  <2>1. bs[b].value # bs[c].value /\ bs[b].front # bs[c].value
    BY <1>1 DEF Sound, Unshared
  <2>2. bs[c].value \in Nat /\ bs[c].value <= L /\ bs[c].value # undefined
    BY Refs, SMT DEF undefined
  <2>3. ~(bs[c].value > L) BY <2>2, SMT
  <2> QED BY <2>1, <2>2, <2>3, Zenon
<1> QED BY <1>1, Answered

LEMMA PushedSound ==
  ASSUME NEW h \in Heap, NEW bs, Sound(h, bs), NEW run \in 1 .. Len(h),
         NEW count \in 0 .. Len(h[run]), NEW items \in Seq(Int),
         \A c \in 1 .. Len(bs) :
           bs[c].length = undefined => bs[c].value # run \/ count # Len(h[run])
  PROVE  PushDone(h, bs, run, count, Len(items), Pushed(h, run, count, items))
<1>0. h[run] \in Seq(Int) /\ Len(h) \in Nat /\ Len(items) \in Nat BY SMT DEF Heap
<1>1. CASE count = Len(h[run])
  <2>1. PICK g : g = [h EXCEPT ![run] = @ \o items] OBVIOUS
  <2>2. Pushed(h, run, count, items) = [heap |-> g, run |-> run]
    BY <1>1, <2>1, Zenon DEF Pushed
  <2>3. PICK longer : longer = h[run] \o items OBVIOUS
  <2>4. /\ longer \in Seq(Int) /\ Len(longer) = Len(h[run]) + Len(items)
        /\ \A i \in 1 .. Len(h[run]) : longer[i] = h[run][i]
    BY <1>0, <2>3, ConcatProperties, SMT
  <2>5. /\ g \in Heap /\ Len(g) = Len(h) /\ g[run] = longer
        /\ \A a \in 1 .. Len(h) : a # run => g[a] = h[a]
    <3>1. g = [h EXCEPT ![run] = longer] BY <2>1, <2>3
    <3> QED BY <2>4, <3>1, ExceptSeq, SMT DEF Heap
  <2>6. Extended(h, g)
    <3>1. ASSUME NEW a \in 1 .. Len(h)
          PROVE  Len(h[a]) <= Len(g[a]) /\ \A i \in 1 .. Len(h[a]) : g[a][i] = h[a][i]
      <4>1. h[a] \in Seq(Int) BY SMT DEF Heap
      <4>2. CASE a = run
        <5>1. Len(h[run]) \in Nat /\ Len(longer) >= Len(h[run]) BY <1>0, <2>4, SMT
        <5> QED BY <2>4, <2>5, <4>2, <5>1, Zenon
      <4>3. CASE a # run
        <5>1. g[a] = h[a] BY <2>5, <4>3
        <5>2. Len(h[a]) <= Len(h[a]) BY <4>1, SMT
        <5> QED BY <5>1, <5>2
      <4> QED BY <4>2, <4>3
    <3> QED BY <1>0, <2>5, <3>1, SMT DEF Extended
  <2>7. \A c \in 1 .. Len(bs) : bs[c].length = undefined => g[bs[c].value] = h[bs[c].value]
    BY <1>1, <2>5, Zenon DEF Sound, Fits
  <2>8. Sound(g, bs) /\ Same(h, bs, g, bs) BY <2>5, <2>6, <2>7, PushKeeps
  <2> QED BY <1>1, <2>2, <2>4, <2>5, <2>6, <2>8, SMT DEF PushDone
<1>2. CASE count # Len(h[run])
  <2>1. PICK copy : copy = SubSeq(h[run], 1, count) OBVIOUS
  <2>2. copy \in Seq(Int) /\ Len(copy) = count BY <1>0, <2>1, SubSeqWhole
  <2>3. PICK array : array = copy \o items OBVIOUS
  <2>4. array \in Seq(Int) /\ Len(array) = count + Len(items) BY <2>2, <2>3, ConcatProperties
  <2>5. PICK g : g = Append(h, array) OBVIOUS
  <2>6. Pushed(h, run, count, items) = [heap |-> g, run |-> Len(h) + 1]
    BY <1>2, <2>1, <2>3, <2>5, Zenon DEF Pushed
  <2>7. g \in Heap /\ Len(g) = Len(h) + 1 /\ Grown(h, g) /\ g[Len(h) + 1] = array
    BY <2>4, <2>5, HeapAppend
  <2>8. Extended(h, g) /\ Sound(g, bs) /\ Same(h, bs, g, bs)
    BY <2>7, GrownExtends, GrownSound
  <2> QED BY <1>0, <1>2, <2>4, <2>6, <2>7, <2>8, SMT DEF PushDone
<1> QED BY <1>1, <1>2

LEMMA GrownSelf == ASSUME NEW h \in Heap PROVE Grown(h, h)
BY SMT DEF Grown, Heap

\* The receiver with its count written down.
LEMMA StampSound ==
  ASSUME NEW h \in Heap, NEW bs, Sound(h, bs), NEW b \in 1 .. Len(bs)
  PROVE  /\ Stamped(h, bs, b, [bs EXCEPT ![b].length = RunsOf(h, bs[b]).backCount])
         /\ Stamped(h, bs, b, [bs EXCEPT ![b] = StampClosed(@, RunsOf(h, bs[b]))])
<1>1. Fits(h, bs[b]) /\ bs \in Seq(Box) BY DEF Sound
<1>2. PICK kept : kept = [bs[b] EXCEPT !.length = RunsOf(h, bs[b]).backCount] OBVIOUS
<1>3. /\ Stands(h, bs[b], h, kept) /\ kept.length # undefined
      /\ kept = StampClosed(bs[b], RunsOf(h, bs[b]))
      /\ kept.value = bs[b].value /\ kept.front = bs[b].front
  BY <1>1, <1>2, StampStands
<1>4. PICK cs : cs = [bs EXCEPT ![b] = kept] OBVIOUS
<1>5. Sound(h, cs) /\ Same(h, bs, h, cs) /\ Len(cs) = Len(bs)
  <2>1. Grown(h, h) BY GrownSelf
  <2>2. Stands(h, bs[b], h, kept) BY <1>3
  <2>3. Sound(h, cs)
    BY <1>4, <2>1, <2>2, Represented, Zenon
  <2>4. Same(h, bs, h, cs)
    BY <1>4, <2>1, <2>2, Represented, Zenon
  <2> QED BY <1>1, <1>4, <2>3, <2>4, SMT
<1>6. cs[b] = kept BY <1>1, <1>4, SMT
<1>7. cs = [bs EXCEPT ![b].length = RunsOf(h, bs[b]).backCount] BY <1>2, <1>4
<1>8. cs = [bs EXCEPT ![b] = StampClosed(@, RunsOf(h, bs[b]))] BY <1>3, <1>4
<1>9. Stamped(h, bs, b, cs) BY <1>3, <1>5, <1>6 DEF Stamped
<1> QED BY <1>7, <1>8, <1>9

-----------------------------------------------------------------------------
(* The natives.                                                              *)

LEMMA FreshAnswer ==
  ASSUME NEW g \in Heap, NEW cs, Sound(g, cs), NEW items \in Seq(Int),
         AnswerFresh(g, cs, items)
  PROVE  Sound(heap', boxes') /\ Same(g, cs, heap', boxes')
BY FreshSound, Zenon DEF AnswerFresh

LEMMA RepresentedAnswer ==
  ASSUME Sound(heap, boxes), NEW b \in 1 .. Len(boxes), NEW g \in Heap, Grown(heap, g),
         NEW kept, Stands(heap, boxes[b], g, kept), NEW items \in Seq(Int),
         AnswerFresh(g, [boxes EXCEPT ![b] = kept], items)
  PROVE  Sound(heap', boxes') /\ Same(heap, boxes, heap', boxes')
<1>0. heap \in Heap BY DEF Sound
<1>1. PICK cs : cs = [boxes EXCEPT ![b] = kept] OBVIOUS
<1>2. Sound(g, cs) BY <1>0, <1>1, Represented, Zenon
<1>3. Same(heap, boxes, g, cs) BY <1>0, <1>1, Represented, Zenon
<1>4. AnswerFresh(g, cs, items) BY <1>1
<1>5. Sound(heap', boxes') /\ Same(g, cs, heap', boxes')
  BY <1>2, <1>4, FreshAnswer
<1>6. boxes \in Seq(Box) /\ cs \in Seq(Box) /\ boxes' \in Seq(Box)
  BY <1>2, <1>5 DEF Sound
<1> QED BY <1>3, <1>5, <1>6, SameThenSame

LEMMA ReverseKeeps ==
  ASSUME Sound(heap, boxes), NEW b \in 1 .. Len(boxes), ReverseList(b) \/ Sort(b)
  PROVE  Sound(heap', boxes') /\ Same(heap, boxes, heap', boxes')
<1>0. heap \in Heap /\ Fits(heap, boxes[b]) BY DEF Sound
<1>1. PICK flat : flat = Materialised(heap, boxes[b]) OBVIOUS
<1>2. flat.heap \in Heap /\ Grown(heap, flat.heap) /\ Stands(heap, boxes[b], flat.heap, flat.box)
  BY <1>0, <1>1, MaterialisedStands
<1>3. PICK items : items = flat.heap[flat.box.value] OBVIOUS
<1>4. items \in Seq(Int) BY <1>2, <1>3, SMT DEF Stands, Fits, Heap
<1>5. CASE ReverseList(b)
  <2>1. Reverse(items) \in Seq(Int) BY <1>4, SMT DEF Reverse
  <2>2. AnswerFresh(flat.heap, [boxes EXCEPT ![b] = flat.box], Reverse(items))
    BY <1>1, <1>3, <1>5 DEF ReverseList
  <2> QED BY <1>2, <2>1, <2>2, RepresentedAnswer
<1>6. CASE Sort(b)
  <2>1. PICK order \in Injection(DOMAIN items, DOMAIN items) :
          AnswerFresh(flat.heap, [boxes EXCEPT ![b] = flat.box],
                      [i \in 1 .. Len(items) |-> items[order[i]]])
    BY <1>1, <1>3, <1>6, Zenon DEF Sort
  <2>2. order \in [1 .. Len(items) -> 1 .. Len(items)] BY <1>4, <2>1, SMTT(30) DEF Injection
  <2>3. [i \in 1 .. Len(items) |-> items[order[i]]] \in Seq(Int)
    BY <1>4, <2>2, SMT
  <2> QED BY <1>2, <2>1, <2>3, RepresentedAnswer
<1> QED BY <1>5, <1>6

\* A box that shares runs with a receiver whose count is written down, over a
\* heap on which something was pushed.
LEMMA SharedAnswer ==
  ASSUME NEW h \in Heap, NEW bs, Sound(h, bs), NEW g \in Heap, Sound(g, bs), Same(h, bs, g, bs),
         NEW b \in 1 .. Len(bs), bs[b].length # undefined,
         NEW new, Fits(g, new), new.length # undefined,
         new.value = bs[b].value \/ new.value > Len(h),
         new.front \in {bs[b].front, undefined} \/ new.front > Len(h),
         AnswerBox(g, bs, new)
  PROVE  Sound(heap', boxes') /\ Same(h, bs, heap', boxes')
<1>1. heap' = g /\ boxes' = Append(bs, new) BY DEF AnswerBox
<1>2. Len(h) \in Nat /\ \A c \in 1 .. Len(bs) : bs[c].value <= Len(h)
  <2>1. Len(h) \in Nat BY SMT DEF Heap
  <2> QED BY <2>1, Refs
<1>3. PICK L \in Nat : L = Len(h) BY <1>2
<1>4. \A c \in 1 .. Len(bs) : bs[c].value <= L BY <1>2, <1>3
<1>5. /\ new.value = bs[b].value \/ new.value > L
      /\ new.front \in {bs[b].front, undefined} \/ new.front > L
  BY <1>3
<1>6. Sound(g, Append(bs, new)) BY <1>4, <1>5, SharingSound, Zenon
<1>7. Same(g, bs, g, Append(bs, new)) BY <1>4, <1>5, SharingSound, Zenon
<1>8. bs \in Seq(Box) /\ Append(bs, new) \in Seq(Box) BY <1>6 DEF Sound
<1>9. Same(h, bs, g, Append(bs, new)) BY <1>7, <1>8, SameThenSame
<1> QED BY <1>1, <1>6, <1>9

LEMMA BoxFields ==
  ASSUME NEW v \in Nat, NEW n \in Nat, NEW f \in Nat \cup {undefined}, NEW m \in Nat \cup {undefined}
  PROVE  LET new == [value |-> v, length |-> n, front |-> f, frontLen |-> m]
         IN /\ new \in Box /\ new.value = v /\ new.length = n
            /\ new.front = f /\ new.frontLen = m
            /\ new.length # undefined
<1>1. [value |-> v, length |-> n, front |-> f, frontLen |-> m] \in Box BY Zenon DEF Box
<1> QED BY <1>1, SMT DEF undefined

\* A count of a run goes on being one while the run grows.
LEMMA CountKept ==
  ASSUME NEW h \in Heap, NEW g \in Heap, Extended(h, g), NEW a \in 1 .. Len(h), NEW n \in 0 .. Len(h[a])
  PROVE  /\ a \in 1 .. Len(g) /\ a \in Nat /\ n \in Nat
         /\ n <= Len(g[a]) /\ n \in 0 .. Len(g[a])
<1>1. a \in 1 .. Len(g) BY SMT DEF Heap, Extended
<1>2. h[a] \in Seq(Int) /\ g[a] \in Seq(Int) BY <1>1, SMT DEF Heap
<1>3. Len(h[a]) <= Len(g[a]) BY DEF Extended
<1> QED BY <1>1, <1>2, <1>3, SMT

LEMMA PrependKeeps ==
  ASSUME Sound(heap, boxes), NEW b \in 1 .. Len(boxes), NEW item \in Int, Prepend(b, item)
  PROVE  Sound(heap', boxes') /\ Same(heap, boxes, heap', boxes')
<1>0. heap \in Heap /\ Fits(heap, boxes[b]) /\ Len(heap) \in Nat
  BY SMT DEF Sound, Heap
<1>1. PICK view : view = RunsOf(heap, boxes[b]) OBVIOUS
<1>2. /\ view.back = boxes[b].value /\ view.back \in 1 .. Len(heap)
      /\ view.backCount \in 0 .. Len(heap[view.back]) /\ heap[view.back] \in Seq(Int)
      /\ view.front = boxes[b].front
      /\ view.front = undefined => view.frontCount = 0
      /\ view.front # undefined =>
           view.front \in 1 .. Len(heap) /\ view.frontCount \in 0 .. Len(heap[view.front])
      /\ view.frontCount \in Nat
  BY <1>0, <1>1, Runs
<1>3. PICK stamped : stamped = [boxes EXCEPT ![b].length = view.backCount] OBVIOUS
<1>4. /\ Sound(heap, stamped) /\ Same(heap, boxes, heap, stamped) /\ Len(stamped) = Len(boxes)
      /\ stamped[b].length # undefined
      /\ stamped[b].value = boxes[b].value /\ stamped[b].front = boxes[b].front
  <2>1. Stamped(heap, boxes, b, [boxes EXCEPT ![b].length = RunsOf(heap, boxes[b]).backCount])
    BY <1>0, StampSound, Zenon
  <2> QED BY <1>1, <1>3, <2>1 DEF Stamped
<1>5. PICK one : one = <<item>> OBVIOUS
<1>6. one \in Seq(Int) /\ Len(one) = 1 BY <1>5, SMT
<1>7. PICK push : push = IF view.front = undefined
                         THEN [heap |-> Append(heap, one), run |-> Len(heap) + 1]
                         ELSE Pushed(heap, view.front, view.frontCount, one)
  OBVIOUS
<1>8. PICK new : new = [value |-> view.back, length |-> view.backCount,
                        front |-> push.run, frontLen |-> view.frontCount + 1]
  OBVIOUS
<1>9. AnswerBox(push.heap, stamped, new)
  BY <1>1, <1>3, <1>5, <1>7, <1>8, Zenon DEF Prepend
<1>10. /\ push.heap \in Heap /\ Extended(heap, push.heap)
       /\ Sound(push.heap, stamped) /\ Same(heap, stamped, push.heap, stamped)
       /\ push.run \in 1 .. Len(push.heap)
       /\ view.frontCount + 1 <= Len(push.heap[push.run])
       /\ push.run = view.front \/ push.run = Len(heap) + 1
  <2>1. CASE view.front = undefined
    <3>1. push.heap = Append(heap, one) /\ push.run = Len(heap) + 1 BY <1>7, <2>1, SMT
    <3>2. /\ push.heap \in Heap /\ Grown(heap, push.heap) /\ Len(push.heap) = Len(heap) + 1
          /\ push.heap[Len(heap) + 1] = one
      BY <1>0, <1>6, <3>1, HeapAppend
    <3>3. Extended(heap, push.heap) /\ Sound(push.heap, stamped) /\ Same(heap, stamped, push.heap, stamped)
      BY <1>0, <1>4, <3>2, GrownExtends, GrownSound
    <3>4. view.frontCount + 1 <= Len(push.heap[push.run])
      <4>1. Len(push.heap[push.run]) = 1 BY <1>6, <3>1, <3>2
      <4>2. view.frontCount = 0 BY <1>2, <2>1
      <4> QED BY <4>1, <4>2, SMT
    <3>5. push.run \in 1 .. Len(push.heap) BY <1>0, <3>1, <3>2, SMT
    <3> QED BY <3>1, <3>2, <3>3, <3>4, <3>5, Zenon
  <2>2. CASE view.front # undefined
    <3>1. push = Pushed(heap, view.front, view.frontCount, one) BY <1>7, <2>2
    <3>2. \A c \in 1 .. Len(stamped) :
            stamped[c].length = undefined => stamped[c].value # view.front
      BY <1>2, <1>4 DEF Sound, Unshared
    <3>3. view.front \in 1 .. Len(heap) /\ view.frontCount \in 0 .. Len(heap[view.front])
      BY <1>2, <2>2
    <3>4. /\ push.heap \in Heap /\ Extended(heap, push.heap)
          /\ Sound(push.heap, stamped) /\ Same(heap, stamped, push.heap, stamped)
          /\ push.run \in 1 .. Len(push.heap)
          /\ view.frontCount + Len(one) <= Len(push.heap[push.run])
          /\ push.run = view.front \/ push.run = Len(heap) + 1
      <4>1. PushDone(heap, stamped, view.front, view.frontCount, Len(one), push)
        BY <1>0, <1>4, <1>6, <3>1, <3>2, <3>3, PushedSound, Zenon
      <4> QED BY <4>1, Zenon DEF PushDone
    <3> QED BY <1>6, <3>4
  <2> QED BY <2>1, <2>2
<1>11. Fits(push.heap, new)
  <2>0. Len(push.heap) \in Nat /\ push.heap[push.run] \in Seq(Int)
    BY <1>10, SMT DEF Heap
  <2>1. /\ view.back \in 1 .. Len(push.heap)
        /\ view.backCount <= Len(push.heap[view.back])
    BY <1>0, <1>2, <1>10, CountKept
  <2>2. view.backCount \in Nat /\ view.frontCount + 1 \in Nat /\ push.run \in Nat /\ view.back \in Nat
    <3>1. push.run \in 1 .. Len(push.heap) BY <1>10
    <3>2. view.frontCount \in Nat /\ view.backCount \in 0 .. Len(heap[view.back]) /\ view.back \in 1 .. Len(heap)
      BY <1>2
    <3> QED BY <3>1, <3>2, SMT
  <2>3. /\ new \in Box /\ new.value = view.back /\ new.length = view.backCount
        /\ new.front = push.run /\ new.frontLen = view.frontCount + 1
    BY <1>8, <2>2, BoxFields
  <2>4. new.frontLen \in 0 .. Len(push.heap[new.front])
    BY <1>10, <2>0, <2>2, <2>3, SMT
  <2>5. new.front # undefined BY <1>10, <2>0, <2>3, SMT DEF undefined
  <2> QED BY <1>10, <2>1, <2>3, <2>4, <2>5, Zenon DEF Fits
<1>12. /\ new.value = stamped[b].value /\ new.length # undefined
       /\ new.front \in {stamped[b].front, undefined} \/ new.front > Len(heap)
  <2>1. new.value = view.back /\ new.length = view.backCount /\ new.front = push.run
    BY <1>8, SMT
  <2>2. view.backCount # undefined BY <1>2, SMT DEF undefined
  <2> QED BY <1>0, <1>2, <1>4, <1>10, <2>1, <2>2, SMT
<1>13. Sound(heap', boxes') /\ Same(heap, stamped, heap', boxes')
  <2>1. b \in 1 .. Len(stamped) BY <1>4
  <2> QED BY <1>0, <1>4, <1>9, <1>10, <1>11, <1>12, <2>1, SharedAnswer
<1>14. boxes \in Seq(Box) /\ stamped \in Seq(Box) /\ boxes' \in Seq(Box)
  BY <1>4, <1>13 DEF Sound
<1> QED BY <1>4, <1>13, <1>14, SameThenSame

LEMMA TrimmedTip ==
  ASSUME NEW h \in Heap, NEW box, Fits(h, box),
         RunsOf(h, box).backCount = Len(h[RunsOf(h, box).back])
  PROVE  Trimmed(h, box).box.value = box.value /\ Trimmed(h, box).box.length = box.length
<1>1. TrimBack(h, box) = [heap |-> h, box |-> box] BY Zenon DEF TrimBack
<1>2. PICK r : r = TrimFront(h, box) OBVIOUS
<1>3. r.box.value = box.value /\ r.box.length = box.length
  <2>1. box \in Box BY DEF Fits
  <2>2. PICK n : n = Len(h) + 1 OBVIOUS
  <2>3. PICK m : m = RunsOf(h, box).frontCount OBVIOUS
  <2>4. r.box = box \/ r.box = [box EXCEPT !.front = n, !.frontLen = m]
    BY <1>2, <2>2, <2>3, SMT DEF TrimFront
  <2>5. PICK e : e = [box EXCEPT !.front = n, !.frontLen = m] OBVIOUS
  <2>6. e.value = box.value /\ e.length = box.length BY <2>1, <2>5, SMT DEF Box
  <2> QED BY <2>4, <2>5, <2>6, Zenon
<1>4. Trimmed(h, box) = r BY <1>1, <1>2, SMT DEF Trimmed
<1> QED BY <1>3, <1>4

LEMMA AppendedKeeps ==
  ASSUME Sound(heap, boxes), NEW b \in 1 .. Len(boxes), NEW other \in 1 .. Len(boxes),
         NEW g \in Heap, Grown(heap, g), NEW kept, Stands(heap, boxes[other], g, kept),
         RunsOf(heap, boxes[other]).backCount = Len(heap[RunsOf(heap, boxes[other]).back]) =>
           kept.value = boxes[other].value /\ kept.length = boxes[other].length,
         NEW others, others = [boxes EXCEPT ![other] = kept],
         NEW items \in Seq(Int), AnswerAppended(g, others, b, items)
  PROVE  Sound(heap', boxes') /\ Same(heap, boxes, heap', boxes')
<1>0. heap \in Heap /\ Fits(heap, boxes[b]) /\ boxes \in Seq(Box) /\ Len(g) \in Nat
  BY SMT DEF Sound, Heap
<1>1. Sound(g, others) /\ Same(heap, boxes, g, others) /\ Len(others) = Len(boxes)
  <2>1. Sound(g, others) BY <1>0, Represented, Zenon
  <2>2. Same(heap, boxes, g, others) BY <1>0, Represented, Zenon
  <2>3. kept \in Box BY DEF Stands, Fits
  <2>4. Len(others) = Len(boxes) BY <1>0, <2>3, ExceptSeq
  <2> QED BY <2>1, <2>2, <2>4
<1>2. Fits(g, boxes[b]) /\ g[boxes[b].value] = heap[boxes[b].value]
  <2>1. Fits(g, boxes[b]) BY <1>0, BoxKeptGrown DEF Stands
  <2>2. g[boxes[b].value] = heap[boxes[b].value] BY <1>0, SMT DEF Fits, Grown
  <2> QED BY <2>1, <2>2
<1>3. PICK view : view = RunsOf(g, boxes[b]) OBVIOUS
<1>4. /\ view.back = boxes[b].value /\ view.back \in 1 .. Len(g)
      /\ g[view.back] \in Seq(Int) /\ view.backCount \in 0 .. Len(g[view.back])
      /\ boxes[b].length = undefined => view.backCount = Len(g[view.back])
  BY <1>2, <1>3, Runs
<1>5. view.backCount = RunsOf(heap, boxes[b]).backCount /\ view.back = RunsOf(heap, boxes[b]).back
  BY <1>2, <1>3, SMT DEF RunsOf
<1>6. /\ other = b => others[b] = kept
      /\ other # b => others[b] = boxes[b]
  BY <1>0, SMT
<1>7. PICK push : push = Pushed(g, view.back, view.backCount, items) OBVIOUS
<1>8. PICK n : n = view.backCount + Len(items) OBVIOUS
<1>9. PICK receivers : receivers = IF push.run = view.back
                                   THEN [others EXCEPT ![b].length = view.backCount]
                                   ELSE others
  OBVIOUS
<1>10. PICK new : new = [others[b] EXCEPT !.value = push.run, !.length = n] OBVIOUS
<1>11. AnswerBox(push.heap, receivers, new)
  <2> DEFINE v == RunsOf(heap, boxes[b])
             p == Pushed(g, v.back, v.backCount, items)
  <2>0. /\ heap' = p.heap
        /\ boxes' = Append(IF p.run = v.back
                           THEN [others EXCEPT ![b].length = v.backCount]
                           ELSE others,
                           [others[b] EXCEPT !.value = p.run,
                                             !.length = v.backCount + Len(items)])
        /\ Room /\ UNCHANGED walk
    BY DEF AnswerAppended, AnswerBox
  <2>1. v.back = view.back /\ v.backCount = view.backCount /\ p = push BY <1>5, <1>7
  <2> HIDE DEF v, p
  <2>2. heap' = push.heap BY <2>0, <2>1
  <2>3. boxes' = Append(receivers, new) BY <1>8, <1>9, <1>10, <2>0, <2>1
  <2> QED BY <2>0, <2>2, <2>3 DEF AnswerBox
<1>12. /\ Sound(g, receivers) /\ Same(heap, boxes, g, receivers) /\ Len(receivers) = Len(boxes)
       /\ receivers[b].length # undefined /\ receivers[b].front = others[b].front
       /\ receivers[b].frontLen = others[b].frontLen
       /\ PushDone(g, receivers, view.back, view.backCount, Len(items), push)
       /\ push.run = receivers[b].value \/ push.run > Len(g)
  <2>1. CASE view.backCount = Len(g[view.back])
    <3>1. others[b].value = boxes[b].value /\ others[b].length = boxes[b].length
      <4>1. RunsOf(heap, boxes[b]).backCount = Len(heap[RunsOf(heap, boxes[b]).back])
        BY <1>2, <1>4, <1>5, <2>1
      <4> QED BY <1>6, <4>1, Zenon
    <3>2. RunsOf(g, others[b]).backCount = view.backCount
      BY <1>3, <3>1, SMT DEF RunsOf
    <3>3. push.run = view.back BY <1>7, <2>1, SMT DEF Pushed
    <3>4. receivers = [others EXCEPT ![b].length = RunsOf(g, others[b]).backCount]
      BY <1>9, <3>2, <3>3
    <3>5. Stamped(g, others, b, receivers)
      <4>1. Stamped(g, others, b, [others EXCEPT ![b].length = RunsOf(g, others[b]).backCount])
        BY <1>1, StampSound, Zenon
      <4> QED BY <3>4, <4>1
    <3>6. /\ Sound(g, receivers) /\ Same(g, others, g, receivers) /\ Len(receivers) = Len(boxes)
          /\ receivers[b].length # undefined /\ receivers[b].front = others[b].front
          /\ receivers[b].value = view.back
      BY <1>1, <1>4, <3>1, <3>5, Zenon DEF Stamped
    <3>7. Same(heap, boxes, g, receivers)
      <4>1. others \in Seq(Box) /\ receivers \in Seq(Box) BY <1>1, <3>6 DEF Sound
      <4> QED BY <1>0, <1>1, <3>6, <4>1, SameThenSame
    <3>8. receivers[b].frontLen = others[b].frontLen
      <4>1. others \in Seq(Box) /\ b \in 1 .. Len(others) BY <1>1 DEF Sound
      <4>2. PICK e : e = [others[b] EXCEPT !.length = view.backCount] OBVIOUS
      <4>3. receivers[b] = e BY <1>9, <3>3, <4>1, <4>2, SMTT(30)
      <4>4. others[b] \in Box BY <4>1, SMT
      <4> QED BY <4>2, <4>3, <4>4, SMT DEF Box
    <3>9. \A c \in 1 .. Len(receivers) :
            receivers[c].length = undefined =>
              receivers[c].value # view.back \/ view.backCount # Len(g[view.back])
      BY <3>6, ZenonT(30) DEF Sound, Unshared
    <3>10. PushDone(g, receivers, view.back, view.backCount, Len(items), push)
      BY <1>4, <1>7, <3>6, <3>9, PushedSound, Zenon
    <3> QED BY <3>3, <3>6, <3>7, <3>8, <3>10
  <2>2. CASE view.backCount # Len(g[view.back])
    <3>1. push.run = Len(g) + 1 BY <1>7, <2>2, SMT DEF Pushed
    <3>2. push.run # view.back /\ push.run > Len(g) BY <1>0, <1>4, <3>1, SMT
    <3>3. receivers = others BY <1>9, <3>2
    <3>4. others[b].length # undefined
      <4>1. boxes[b].length # undefined BY <1>4, <2>2
      <4> QED BY <1>6, <4>1, Zenon DEF Stands
    <3>5. PushDone(g, others, view.back, view.backCount, Len(items), push)
      BY <1>1, <1>4, <1>7, <2>2, PushedSound, Zenon
    <3> QED BY <1>1, <3>2, <3>3, <3>4, <3>5
  <2> QED BY <2>1, <2>2
<1>13. /\ push.heap \in Heap /\ Extended(g, push.heap)
       /\ Sound(push.heap, receivers) /\ Same(g, receivers, push.heap, receivers)
       /\ push.run \in 1 .. Len(push.heap) /\ n <= Len(push.heap[push.run])
  BY <1>8, <1>12, Zenon DEF PushDone
<1>14. Fits(push.heap, receivers[b]) /\ others[b] \in Box
  <2>1. Fits(push.heap, receivers[b]) BY <1>12, <1>13 DEF Sound
  <2>2. others \in Seq(Box) /\ Len(others) = Len(boxes) BY <1>1 DEF Sound
  <2>3. others[b] \in Box BY <2>2, SMT
  <2> QED BY <2>1, <2>3
<1>15. push.run \in Nat /\ n \in Nat /\ n # undefined
  <2>1. view.backCount \in Nat /\ Len(items) \in Nat BY <1>4, SMT
  <2>2. push.run \in Nat BY <1>13, SMT
  <2> QED BY <1>8, <2>1, <2>2, SMT DEF undefined
<1>16. /\ new \in Box /\ new.value = push.run /\ new.length = n
       /\ new.front = others[b].front /\ new.frontLen = others[b].frontLen
  <2>1. new \in Box BY <1>10, <1>14, <1>15, Zenon DEF Box
  <2> QED BY <1>10, <1>14, <2>1, SMT DEF Box
<1>17. Fits(push.heap, new)
  BY <1>12, <1>13, <1>14, <1>15, <1>16, Zenon DEF Fits
<1>18. Sound(heap', boxes') /\ Same(g, receivers, heap', boxes')
  <2>1. b \in 1 .. Len(receivers) BY <1>12
  <2>2. new.length # undefined /\ (new.value = receivers[b].value \/ new.value > Len(g))
        /\ new.front \in {receivers[b].front, undefined}
    BY <1>12, <1>15, <1>16
  <2>3. Sound(g, receivers) BY <1>12
  <2>4. Sound(heap', boxes') BY <1>11, <1>13, <1>17, <2>1, <2>2, <2>3, <1>12, SharedAnswer, Zenon
  <2>5. Same(g, receivers, heap', boxes') BY <1>11, <1>13, <1>17, <2>1, <2>2, <2>3, <1>12, SharedAnswer, Zenon
  <2> QED BY <2>4, <2>5
<1>19. receivers \in Seq(Box) /\ boxes' \in Seq(Box) BY <1>12, <1>18 DEF Sound
<1> QED BY <1>0, <1>12, <1>18, <1>19, SameThenSame

LEMMA AppendKeeps ==
  ASSUME Sound(heap, boxes), NEW b \in 1 .. Len(boxes),
         \/ \E item \in Int : AppendItem(b, item)
         \/ \E other \in 1 .. Len(boxes) : AppendContents(b, other)
  PROVE  Sound(heap', boxes') /\ Same(heap, boxes, heap', boxes')
<1>0. heap \in Heap /\ boxes \in Seq(Box) /\ \A c \in 1 .. Len(boxes) : Fits(heap, boxes[c])
  BY DEF Sound
<1>1. ASSUME NEW item \in Int, AppendItem(b, item)
      PROVE  Sound(heap', boxes') /\ Same(heap, boxes, heap', boxes')
  <2>1. PICK items : items = <<item>> OBVIOUS
  <2>2. items \in Seq(Int) BY <2>1, SMT
  <2>3. AnswerAppended(heap, boxes, b, items) BY <1>1, <2>1 DEF AppendItem
  <2>4. boxes = [boxes EXCEPT ![b] = boxes[b]] BY <1>0, SMT
  <2>5. Grown(heap, heap) /\ Stands(heap, boxes[b], heap, boxes[b])
    BY <1>0, GrownSelf, BoxKeptGrown
  <2>6. Sound(heap', boxes')
    BY <1>0, <2>2, <2>3, <2>4, <2>5, AppendedKeeps, Zenon
  <2>7. Same(heap, boxes, heap', boxes')
    BY <1>0, <2>2, <2>3, <2>4, <2>5, AppendedKeeps, Zenon
  <2> QED BY <2>6, <2>7
<1>2. ASSUME NEW other \in 1 .. Len(boxes), AppendContents(b, other)
      PROVE  Sound(heap', boxes') /\ Same(heap, boxes, heap', boxes')
  <2>1. PICK read : read = Trimmed(heap, boxes[other]) OBVIOUS
  <2>2. read.heap \in Heap /\ Grown(heap, read.heap) /\ Stands(heap, boxes[other], read.heap, read.box)
    BY <1>0, <2>1, TrimmedStands
  <2>3. RunsOf(heap, boxes[other]).backCount = Len(heap[RunsOf(heap, boxes[other]).back]) =>
          read.box.value = boxes[other].value /\ read.box.length = boxes[other].length
    BY <1>0, <2>1, TrimmedTip
  <2>4. PICK items : items = Shown(read.heap, read.box) OBVIOUS
  <2>5. items \in Seq(Int)
    <3>1. Fits(read.heap, read.box) BY <2>2 DEF Stands
    <3> QED BY <2>2, <2>4, <3>1, ShownIsSeq
  <2>6. PICK others : others = [boxes EXCEPT ![other] = read.box] OBVIOUS
  <2>7. AnswerAppended(read.heap, others, b, items)
    BY <1>2, <2>1, <2>4, <2>6 DEF AppendContents, Shown
  <2>8. Sound(heap', boxes')
    BY <2>2, <2>3, <2>5, <2>6, <2>7, AppendedKeeps, Zenon
  <2>9. Same(heap, boxes, heap', boxes')
    BY <2>2, <2>3, <2>5, <2>6, <2>7, AppendedKeeps, Zenon
  <2> QED BY <2>8, <2>9
<1> QED BY <1>1, <1>2

LEMMA WindowKeeps ==
  ASSUME Sound(heap, boxes), NEW b \in 1 .. Len(boxes), NEW start \in Nat, NEW end \in Nat,
         start <= RunsOf(heap, boxes[b]).frontCount,
         RunsOf(heap, boxes[b]).frontCount <= end,
         end <= Total(RunsOf(heap, boxes[b])),
         AnswerWindow(b, start, end)
  PROVE  Sound(heap', boxes') /\ Same(heap, boxes, heap', boxes')
<1>0. heap \in Heap /\ boxes \in Seq(Box) /\ Fits(heap, boxes[b]) BY DEF Sound
<1>1. PICK view : view = RunsOf(heap, boxes[b]) OBVIOUS
<1>2. /\ view.back = boxes[b].value /\ view.back \in 1 .. Len(heap)
      /\ heap[view.back] \in Seq(Int) /\ view.backCount \in 0 .. Len(heap[view.back])
      /\ view.front = boxes[b].front
      /\ view.front = undefined => view.frontCount = 0
      /\ view.front # undefined =>
           /\ view.front \in 1 .. Len(heap) /\ heap[view.front] \in Seq(Int)
           /\ view.frontCount \in 0 .. Len(heap[view.front])
      /\ view.frontCount \in Nat
  BY <1>0, <1>1, Runs
<1>3. PICK length : length = end - view.frontCount OBVIOUS
<1>4. PICK frontLen : frontLen = view.frontCount - start OBVIOUS
<1>5. /\ length \in Nat /\ length <= Len(heap[view.back]) /\ frontLen \in Nat
      /\ frontLen <= view.frontCount /\ length # undefined /\ frontLen # undefined
  <2>1. view.backCount \in Nat /\ Len(heap[view.back]) \in Nat /\ view.backCount <= Len(heap[view.back])
    BY <1>2, SMT
  <2>2. start <= view.frontCount /\ view.frontCount <= end /\ end <= view.frontCount + view.backCount
    BY <1>1 DEF Total
  <2>3. view.frontCount \in Nat BY <1>2
  <2>4. PICK f \in Nat, k \in Nat, n \in Nat :
          f = view.frontCount /\ k = view.backCount /\ n = Len(heap[view.back])
    BY <2>1, <2>3
  <2>5. start <= f /\ f <= end /\ end <= f + k /\ k <= n
    BY <2>1, <2>2, <2>4
  <2>6. end - f \in Nat /\ end - f <= n /\ f - start \in Nat /\ f - start <= f
    BY <2>5, SMT
  <2>7. \A m \in Nat : m # undefined
    BY SMT DEF undefined
  <2> QED BY <1>3, <1>4, <2>4, <2>6, <2>7
<1>6. PICK front : front = IF frontLen = 0 THEN undefined ELSE view.front OBVIOUS
<1>7. PICK count : count = IF frontLen = 0 THEN undefined ELSE frontLen OBVIOUS
<1>8. PICK new : new = [value |-> view.back, length |-> length, front |-> front, frontLen |-> count]
  OBVIOUS
<1>9. PICK stamped : stamped = [boxes EXCEPT ![b] = StampClosed(@, view)] OBVIOUS
<1>10. AnswerBox(heap, stamped, new)
  BY <1>1, <1>3, <1>4, <1>6, <1>7, <1>8, <1>9, Zenon DEF AnswerWindow
<1>11. Stamped(heap, boxes, b, stamped)
  <2>1. Stamped(heap, boxes, b, [boxes EXCEPT ![b] = StampClosed(@, RunsOf(heap, boxes[b]))])
    BY <1>0, StampSound, Zenon
  <2> QED BY <1>1, <1>9, <2>1
<1>12. /\ Sound(heap, stamped) /\ Same(heap, boxes, heap, stamped) /\ Len(stamped) = Len(boxes)
       /\ stamped[b].length # undefined
       /\ stamped[b].value = boxes[b].value /\ stamped[b].front = boxes[b].front
  BY <1>11, Zenon DEF Stamped
<1>13. /\ frontLen # 0 => view.front # undefined
       /\ front \in {view.front, undefined}
       /\ front = undefined => count = undefined
       /\ front # undefined =>
            /\ front \in 1 .. Len(heap) /\ count \in 0 .. Len(heap[front])
  <2>1. frontLen # 0 => view.front # undefined BY <1>2, <1>5, SMT
  <2>2. CASE frontLen = 0 BY <1>6, <1>7, <2>1, <2>2
  <2>3. CASE frontLen # 0
    <3>1. view.front # undefined /\ front = view.front /\ count = frontLen
      BY <1>6, <1>7, <2>1, <2>3
    <3>2. view.front \in 1 .. Len(heap) /\ heap[view.front] \in Seq(Int)
          /\ view.frontCount \in 0 .. Len(heap[view.front])
      BY <1>2, <3>1
    <3>3. frontLen \in 0 .. Len(heap[view.front]) BY <1>5, <3>2, SMT
    <3> QED BY <2>1, <3>1, <3>2, <3>3
  <2> QED BY <2>2, <2>3
<1>14. Fits(heap, new)
  <2>1. view.back \in Nat /\ front \in Nat \cup {undefined} /\ count \in Nat \cup {undefined}
    <3>1. view.back \in Nat BY <1>2, SMT
    <3>2. CASE front = undefined BY <1>13, <3>1, <3>2
    <3>3. CASE front # undefined
      <4>1. front \in 1 .. Len(heap) /\ count \in 0 .. Len(heap[front]) BY <1>13, <3>3
      <4> QED BY <3>1, <4>1, SMT
    <3> QED BY <3>2, <3>3
  <2>2. /\ new \in Box /\ new.value = view.back /\ new.length = length
        /\ new.front = front /\ new.frontLen = count
    BY <1>5, <1>8, <2>1, BoxFields
  <2> QED BY <1>2, <1>5, <1>13, <2>2, Zenon DEF Fits
<1>15. /\ new.length # undefined /\ new.value = stamped[b].value
       /\ new.front \in {stamped[b].front, undefined}
  <2>1. new.value = view.back /\ new.length = length /\ new.front = front BY <1>8, SMT
  <2> QED BY <1>2, <1>5, <1>12, <1>13, <2>1
<1>16. b \in 1 .. Len(stamped) /\ Same(heap, stamped, heap, stamped)
  <2>1. stamped \in Seq(Box) BY <1>12 DEF Sound
  <2> QED BY <1>12, <2>1, SameSelf
<1>17. Sound(heap', boxes')
  BY <1>0, <1>10, <1>12, <1>14, <1>15, <1>16, SharedAnswer, Zenon
<1>18. Same(heap, stamped, heap', boxes')
  BY <1>0, <1>10, <1>12, <1>14, <1>15, <1>16, SharedAnswer, Zenon
<1>19. stamped \in Seq(Box) /\ boxes' \in Seq(Box) BY <1>12, <1>17 DEF Sound
<1> QED BY <1>0, <1>12, <1>17, <1>18, <1>19, SameThenSame

-----------------------------------------------------------------------------
(* Copies.                                                                   *)

LEMMA FrontItemsTyped ==
  ASSUME NEW h \in Heap, NEW box, Fits(h, box), NEW from \in Nat, NEW to \in Nat,
         to <= RunsOf(h, box).frontCount
  PROVE  FrontItems(h, RunsOf(h, box), from, to) \in Seq(Int)
<1>1. PICK view : view = RunsOf(h, box) OBVIOUS
<1>2. /\ view.front = undefined => view.frontCount = 0
      /\ view.front # undefined =>
           h[view.front] \in Seq(Int) /\ view.frontCount \in 0 .. Len(h[view.front])
      /\ view.frontCount \in Nat
  BY <1>1, Runs
<1>3. PICK n \in Nat : n = view.frontCount BY <1>2
<1>4. PICK run : run = h[view.front] OBVIOUS
<1>5. PICK items : items = [k \in 1 .. to - from |-> run[n - from - k + 1]] OBVIOUS
<1>6. FrontItems(h, view, from, to) = items BY <1>3, <1>4, <1>5 DEF FrontItems
<1>7. CASE to <= from
  <2>1. 1 .. to - from = {} BY <1>7, SMT
  <2>2. items = <<>> BY <1>5, <2>1, SMT
  <2> QED BY <1>1, <1>6, <2>2, EmptySeq
<1>8. CASE from < to
  <2>1. run \in Seq(Int) /\ n \in 0 .. Len(run)
    <3>1. to <= n BY <1>1, <1>3
    <3>2. n # 0 BY <1>8, <3>1, SMT
    <3> QED BY <1>2, <1>3, <1>4, <3>2
  <2>2. to <= n BY <1>1, <1>3
  <2>3. \A k \in 1 .. to - from : n - from - k + 1 \in 1 .. Len(run)
    BY <1>8, <2>1, <2>2, SMT
  <2>4. items \in Seq(Int)
    <3>1. \A k \in 1 .. to - from : run[n - from - k + 1] \in Int BY <2>1, <2>3, ElementOfSeq
    <3>2. to - from \in Nat BY <1>8, SMT
    <3> QED BY <1>5, <3>1, <3>2, SMT
  <2> QED BY <1>1, <1>6, <2>4
<1> QED BY <1>7, <1>8, SMT

LEMMA BackItemsTyped ==
  ASSUME NEW h \in Heap, NEW box, Fits(h, box), NEW from \in Nat, NEW to \in Nat,
         to <= RunsOf(h, box).backCount
  PROVE  BackItems(h, RunsOf(h, box), from, to) \in Seq(Int)
<1>1. PICK view : view = RunsOf(h, box) OBVIOUS
<1>2. h[view.back] \in Seq(Int) /\ view.backCount \in 0 .. Len(h[view.back])
  BY <1>1, Runs
<1>3. PICK run \in Seq(Int) : run = h[view.back] BY <1>2
<1>4. to <= Len(run) /\ Len(run) \in Nat
  <2>1. to <= view.backCount BY <1>1
  <2> QED BY <1>2, <1>3, <2>1, SMT
<1>5. \A i \in from + 1 .. to : run[i] \in Int
  BY <1>4, ElementOfSeq, SMT
<1>6. SubSeq(run, from + 1, to) \in Seq(Int) BY <1>5, SubSeqProperties
<1> QED BY <1>1, <1>3, <1>6 DEF BackItems

LEMMA CreateKeeps ==
  ASSUME Sound(heap, boxes), NEW items \in Seq(Int), Create(items)
  PROVE  Sound(heap', boxes') /\ Same(heap, boxes, heap', boxes')
<1>1. heap \in Heap BY DEF Sound
<1> QED BY <1>1, FreshAnswer DEF Create

LEMMA OwnKeeps ==
  ASSUME Sound(heap, boxes), NEW b \in 1 .. Len(boxes), Own(b)
  PROVE  Sound(heap', boxes') /\ Same(heap, boxes, heap', boxes')
<1>0. heap \in Heap /\ Fits(heap, boxes[b]) BY DEF Sound
<1>1. PICK view : view = RunsOf(heap, boxes[b]) OBVIOUS
<1>2. view.frontCount \in Nat /\ view.backCount \in Nat
  <2>1. /\ view.frontCount \in Nat /\ heap[view.back] \in Seq(Int)
        /\ view.backCount \in 0 .. Len(heap[view.back])
    BY <1>0, <1>1, Runs
  <2> QED BY <2>1, SMT
<1>3. PICK front : front = FrontItems(heap, view, 0, view.frontCount) OBVIOUS
<1>4. PICK back : back = BackItems(heap, view, 0, view.backCount) OBVIOUS
<1>5. front \in Seq(Int) /\ back \in Seq(Int) /\ front \o back \in Seq(Int)
  <2>1. front \in Seq(Int) BY <1>0, <1>1, <1>2, <1>3, FrontItemsTyped
  <2>2. back \in Seq(Int) BY <1>0, <1>1, <1>2, <1>4, BackItemsTyped
  <2> QED BY <2>1, <2>2, ConcatProperties
<1>6. AnswerFresh(heap, boxes, IF view.frontCount = 0 THEN back ELSE front \o back)
  BY <1>1, <1>3, <1>4 DEF Own
<1> QED BY <1>0, <1>5, <1>6, FreshAnswer

LEMMA CountsAreNat ==
  ASSUME NEW h \in Heap, NEW box, Fits(h, box)
  PROVE  /\ RunsOf(h, box).frontCount \in Nat /\ RunsOf(h, box).backCount \in Nat
         /\ Total(RunsOf(h, box)) = RunsOf(h, box).frontCount + RunsOf(h, box).backCount
         /\ Total(RunsOf(h, box)) \in Nat
<1>1. PICK view : view = RunsOf(h, box) OBVIOUS
<1>2. /\ view.frontCount \in Nat /\ h[view.back] \in Seq(Int)
      /\ view.backCount \in 0 .. Len(h[view.back])
  BY <1>1, Runs
<1>3. view.backCount \in Nat BY <1>2, SMT
<1> QED BY <1>1, <1>2, <1>3, SMT DEF Total

LEMMA ClampInRange ==
  ASSUME NEW n \in Nat, NEW p \in Int
  PROVE  Clamp(PositionFromEnd(p, n), n) \in 0 .. n
BY SMT DEF Clamp, PositionFromEnd

LEMMA SliceKeeps ==
  ASSUME Sound(heap, boxes), NEW b \in 1 .. Len(boxes), NEW from \in Int, NEW to \in Int,
         Slice(b, from, to)
  PROVE  Sound(heap', boxes') /\ Same(heap, boxes, heap', boxes')
<1>0. heap \in Heap /\ Fits(heap, boxes[b]) BY DEF Sound
<1>1. PICK view : view = RunsOf(heap, boxes[b]) OBVIOUS
<1>2. PICK f \in Nat, k \in Nat, n \in Nat :
        f = view.frontCount /\ k = view.backCount /\ n = Total(view) /\ n = f + k
  BY <1>0, <1>1, CountsAreNat
<1>3. PICK first \in 0 .. n : first = Clamp(PositionFromEnd(from, n), n)
  BY ClampInRange
<1>4. PICK last \in 0 .. n : last = Clamp(PositionFromEnd(to, n), n)
  BY ClampInRange
<1>5. \/ Create(<<>>)
      \/ first < last /\ first <= f /\ f <= last /\ AnswerWindow(b, first, last)
      \/ first < last /\ last < f /\ Create(FrontItems(heap, view, first, last))
      \/ first < last /\ f < first /\ Create(BackItems(heap, view, first - f, last - f))
  BY <1>1, <1>2, <1>3, <1>4, Zenon DEF Slice
<1>6. CASE Create(<<>>)
  <2>1. <<>> \in Seq(Int) OBVIOUS
  <2> QED BY <1>6, <2>1, CreateKeeps
<1>7. CASE first <= f /\ f <= last /\ AnswerWindow(b, first, last)
  <2>1. first \in Nat /\ last \in Nat /\ last <= n BY SMT
  <2>2. first <= view.frontCount /\ view.frontCount <= last /\ last <= Total(view)
    BY <1>2, <1>7, <2>1
  <2> QED BY <1>1, <1>7, <2>1, <2>2, WindowKeeps
<1>8. CASE last < f /\ Create(FrontItems(heap, view, first, last))
  <2>1. first \in Nat /\ last \in Nat /\ last <= f BY <1>8, SMT
  <2>2. FrontItems(heap, view, first, last) \in Seq(Int)
    BY <1>0, <1>1, <1>2, <2>1, FrontItemsTyped
  <2> QED BY <1>8, <2>2, CreateKeeps
<1>9. CASE first < last /\ f < first /\ Create(BackItems(heap, view, first - f, last - f))
  <2>0. n = f + k /\ f < first /\ first < last BY <1>2, <1>9
  <2>1. first - f \in Nat /\ last - f \in Nat /\ last - f <= k BY <2>0, SMT
  <2>2. BackItems(heap, view, first - f, last - f) \in Seq(Int)
    BY <1>0, <1>1, <1>2, <2>1, BackItemsTyped
  <2> QED BY <1>9, <2>2, CreateKeeps
<1> QED BY <1>5, <1>6, <1>7, <1>8, <1>9

LEMMA RemoveKeeps ==
  ASSUME Sound(heap, boxes), NEW b \in 1 .. Len(boxes), NEW at \in Int, RemoveItem(b, at)
  PROVE  Sound(heap', boxes') /\ Same(heap, boxes, heap', boxes')
<1>0. heap \in Heap /\ Fits(heap, boxes[b]) BY DEF Sound
<1>1. PICK view : view = RunsOf(heap, boxes[b]) OBVIOUS
<1>2. PICK f \in Nat, k \in Nat, n \in Nat :
        f = view.frontCount /\ k = view.backCount /\ n = Total(view) /\ n = f + k
  BY <1>0, <1>1, CountsAreNat
<1>3. PICK p \in Int : p = PositionFromEnd(at, n) BY SMT DEF PositionFromEnd
<1>4. PICK q \in Int : q = p - f OBVIOUS
<1> DEFINE Before == FrontItems(heap, view, 0, p)
           After == FrontItems(heap, view, p + 1, f)
           Foremost == FrontItems(heap, view, 0, f)
           Back == BackItems(heap, view, 0, k)
           BackBefore == BackItems(heap, view, 0, q)
           BackAfter == BackItems(heap, view, q + 1, k)
<1>5. /\ 0 <= p /\ p < n
      /\ \/ f > 0 /\ AnswerWindow(b, 1, n)
         \/ k > 0 /\ AnswerWindow(b, 0, n - 1)
         \/ p < f /\ Create(Before \o After \o Back)
         \/ ~(p < f) /\ Create(Foremost \o BackBefore \o BackAfter)
  BY <1>1, <1>2, <1>3, <1>4, Zenon DEF RemoveItem
<1>6. CASE f > 0 /\ AnswerWindow(b, 1, n)
  <2>1. 1 \in Nat /\ 1 <= f /\ f <= n /\ n <= n BY <1>2, <1>6, SMT
  <2> QED BY <1>1, <1>2, <1>6, <2>1, WindowKeeps
<1>7. CASE k > 0 /\ AnswerWindow(b, 0, n - 1)
  <2>1. n - 1 \in Nat /\ 0 \in Nat /\ 0 <= f /\ f <= n - 1 /\ n - 1 <= n BY <1>2, <1>7, SMTT(30)
  <2> QED BY <1>1, <1>2, <1>7, <2>1, WindowKeeps
<1>8. Back \in Seq(Int) /\ Foremost \in Seq(Int)
  <2>1. f <= f /\ k <= k /\ 0 \in Nat BY SMT
  <2>2. Back \in Seq(Int) BY <1>0, <1>1, <1>2, <2>1, BackItemsTyped
  <2>3. Foremost \in Seq(Int) BY <1>0, <1>1, <1>2, <2>1, FrontItemsTyped
  <2> QED BY <2>2, <2>3
<1>9. CASE p < f /\ Create(Before \o After \o Back)
  <2>1. p \in Nat /\ p + 1 \in Nat /\ p <= f /\ f <= f /\ 0 \in Nat BY <1>5, <1>9, SMT
  <2>2. Before \in Seq(Int) BY <1>0, <1>1, <1>2, <2>1, FrontItemsTyped
  <2>3. After \in Seq(Int) BY <1>0, <1>1, <1>2, <2>1, FrontItemsTyped
  <2> HIDE DEF Before, After, Back
  <2>4. Before \o After \o Back \in Seq(Int) BY <1>8, <2>2, <2>3, ConcatProperties
  <2> QED BY <1>9, <2>4, CreateKeeps
<1>10. CASE ~(p < f) /\ Create(Foremost \o BackBefore \o BackAfter)
  <2>0. n = f + k /\ q = p - f /\ p < n /\ ~(p < f) BY <1>2, <1>4, <1>5, <1>10
  <2>1. q \in Nat /\ q + 1 \in Nat /\ q <= k /\ k <= k /\ 0 \in Nat BY <2>0, SMT
  <2>2. BackBefore \in Seq(Int) BY <1>0, <1>1, <1>2, <2>1, BackItemsTyped
  <2>3. BackAfter \in Seq(Int) BY <1>0, <1>1, <1>2, <2>1, BackItemsTyped
  <2> HIDE DEF Foremost, BackBefore, BackAfter
  <2>4. Foremost \o BackBefore \o BackAfter \in Seq(Int) BY <1>8, <2>2, <2>3, ConcatProperties
  <2> QED BY <1>10, <2>4, CreateKeeps
<1> QED BY <1>5, <1>6, <1>7, <1>9, <1>10

LEMMA InsertKeeps ==
  ASSUME Sound(heap, boxes), NEW b \in 1 .. Len(boxes), NEW item \in Int, NEW at \in Int,
         Insert(b, item, at)
  PROVE  Sound(heap', boxes') /\ Same(heap, boxes, heap', boxes')
<1>0. heap \in Heap /\ Fits(heap, boxes[b]) BY DEF Sound
<1>1. PICK view : view = RunsOf(heap, boxes[b]) OBVIOUS
<1>2. PICK f \in Nat, k \in Nat, n \in Nat :
        f = view.frontCount /\ k = view.backCount /\ n = Total(view) /\ n = f + k
  BY <1>0, <1>1, CountsAreNat
<1>3. PICK p \in 0 .. n : p = Clamp(PositionFromEnd(at, n), n)
  BY ClampInRange
<1>4. PICK x : x = IF p < f THEN p ELSE f OBVIOUS
<1>5. PICK y : y = IF p > f THEN p - f ELSE 0 OBVIOUS
<1> DEFINE A == FrontItems(heap, view, 0, x)
           B == BackItems(heap, view, 0, y)
           C == FrontItems(heap, view, x, f)
           D == BackItems(heap, view, y, k)
<1>6. \/ Prepend(b, item)
      \/ AppendItem(b, item)
      \/ Create(A \o B \o <<item>> \o C \o D)
  BY <1>1, <1>2, <1>3, <1>4, <1>5, Zenon DEF Insert
<1>7. ASSUME Create(A \o B \o <<item>> \o C \o D)
      PROVE  Sound(heap', boxes') /\ Same(heap, boxes, heap', boxes')
  <2>1. /\ x \in Nat /\ x <= f /\ y \in Nat /\ y <= k
        /\ f <= f /\ k <= k /\ 0 \in Nat
    <3>1. n = f + k BY <1>2
    <3> QED BY <3>1, <1>4, <1>5, SMT
  <2>2. A \in Seq(Int) BY <1>0, <1>1, <1>2, <2>1, FrontItemsTyped
  <2>3. B \in Seq(Int) BY <1>0, <1>1, <1>2, <2>1, BackItemsTyped
  <2>4. C \in Seq(Int) BY <1>0, <1>1, <1>2, <2>1, FrontItemsTyped
  <2>5. D \in Seq(Int) BY <1>0, <1>1, <1>2, <2>1, BackItemsTyped
  <2>6. <<item>> \in Seq(Int) BY SMT
  <2> HIDE DEF A, B, C, D
  <2>7. A \o B \o <<item>> \o C \o D \in Seq(Int)
    BY <2>2, <2>3, <2>4, <2>5, <2>6, ConcatProperties
  <2> QED BY <1>7, <2>7, CreateKeeps
<1> QED BY <1>6, <1>7, PrependKeeps, AppendKeeps

LEMMA ReplaceKeeps ==
  ASSUME Sound(heap, boxes), NEW b \in 1 .. Len(boxes), NEW item \in Int, NEW at \in Int,
         Replace(b, item, at)
  PROVE  Sound(heap', boxes') /\ Same(heap, boxes, heap', boxes')
<1>0. heap \in Heap /\ boxes \in Seq(Box) /\ Fits(heap, boxes[b]) /\ Len(heap) \in Nat
  BY SMT DEF Sound, Heap
<1>1. PICK view : view = RunsOf(heap, boxes[b]) OBVIOUS
<1>2. /\ view.back = boxes[b].value /\ view.back \in 1 .. Len(heap)
      /\ heap[view.back] \in Seq(Int) /\ view.backCount \in 0 .. Len(heap[view.back])
      /\ view.front = boxes[b].front
      /\ view.front = undefined => view.frontCount = 0
      /\ view.front # undefined =>
           /\ view.front \in 1 .. Len(heap) /\ heap[view.front] \in Seq(Int)
           /\ view.frontCount \in 0 .. Len(heap[view.front])
      /\ view.frontCount \in Nat
  BY <1>0, <1>1, Runs
<1>3. PICK f \in Nat, k \in Nat, n \in Nat :
        f = view.frontCount /\ k = view.backCount /\ n = Total(view) /\ n = f + k
  BY <1>0, <1>1, CountsAreNat
<1>4. PICK p \in Int : p = PositionFromEnd(at, n) BY SMT DEF PositionFromEnd
<1>5. PICK front : front = SubSeq(heap[view.front], 1, f) OBVIOUS
<1>6. PICK back : back = SubSeq(heap[view.back], 1, k) OBVIOUS
<1>7. PICK newFront : newFront = [front EXCEPT ![f - p] = item] OBVIOUS
<1>8. PICK newBack : newBack = [back EXCEPT ![p - f + 1] = item] OBVIOUS
<1>9. PICK stamped : stamped = [boxes EXCEPT ![b] = StampClosed(@, view)] OBVIOUS
<1>10. PICK ofFront : ofFront = [value |-> view.back, length |-> k,
                                 front |-> Len(heap) + 1, frontLen |-> f]
  OBVIOUS
<1>11. PICK ofBack : ofBack = [value |-> Len(heap) + 1, length |-> k,
                               front |-> view.front, frontLen |-> f]
  OBVIOUS
<1>12. /\ 0 <= p /\ p < n
       /\ \/ p < f /\ AnswerBox(Append(heap, newFront), stamped, ofFront)
          \/ ~(p < f) /\ f = 0 /\ Create(newBack)
          \/ ~(p < f) /\ f # 0 /\ AnswerBox(Append(heap, newBack), stamped, ofBack)
  BY <1>1, <1>3, <1>4, <1>5, <1>6, <1>7, <1>8, <1>9, <1>10, <1>11, Zenon DEF Replace
<1>13. /\ Sound(heap, stamped) /\ Same(heap, boxes, heap, stamped) /\ Len(stamped) = Len(boxes)
       /\ stamped[b].length # undefined
       /\ stamped[b].value = boxes[b].value /\ stamped[b].front = boxes[b].front
  <2>1. Stamped(heap, boxes, b, [boxes EXCEPT ![b] = StampClosed(@, RunsOf(heap, boxes[b]))])
    BY <1>0, StampSound, Zenon
  <2> QED BY <1>1, <1>9, <2>1, Zenon DEF Stamped
<1>14. k <= Len(heap[view.back]) /\ view.back \in Nat /\ k # undefined /\ f # undefined
       /\ Len(heap) + 1 \in Nat /\ Len(heap) + 1 # undefined /\ Len(heap) + 1 > Len(heap)
  <2>1. k \in 0 .. Len(heap[view.back]) BY <1>2, <1>3
  <2>2. view.back \in 1 .. Len(heap) BY <1>2
  <2> QED BY <1>0, <2>1, <2>2, SMT DEF undefined
<1>15. ~(p < f) => newBack \in Seq(Int) /\ Len(newBack) = k
  <2>1. back \in Seq(Int) /\ Len(back) = k
    <3>1. k \in 0 .. Len(heap[view.back]) BY <1>2, <1>3
    <3> QED BY <1>2, <1>6, <3>1, SubSeqWhole
  <2>2. ~(p < f) => p - f + 1 \in 1 .. k
    <3>1. n = f + k /\ p < n BY <1>3, <1>12
    <3> QED BY <3>1, SMT
  <2> QED BY <1>8, <2>1, <2>2, ExceptSeq
\* An answer over one fresh Array that takes the place of one of the runs.
<1>16. ASSUME NEW items \in Seq(Int), NEW new, AnswerBox(Append(heap, items), stamped, new),
              Fits(Append(heap, items), new), new.length # undefined,
              new.value = boxes[b].value \/ new.value > Len(heap),
              new.front \in {boxes[b].front, undefined} \/ new.front > Len(heap)
       PROVE  Sound(heap', boxes') /\ Same(heap, boxes, heap', boxes')
  <2>1. PICK g : g = Append(heap, items) OBVIOUS
  <2>2. g \in Heap /\ Grown(heap, g) BY <1>0, <2>1, HeapAppend
  <2>3. Sound(g, stamped) /\ Same(heap, stamped, g, stamped)
    BY <1>0, <1>13, <2>2, GrownSound
  <2>4. b \in 1 .. Len(stamped) BY <1>13
  <2>5. /\ new.value = stamped[b].value \/ new.value > Len(heap)
        /\ new.front \in {stamped[b].front, undefined} \/ new.front > Len(heap)
    BY <1>13, <1>16
  <2>6. AnswerBox(g, stamped, new) /\ Fits(g, new) /\ new.length # undefined
    BY <1>16, <2>1
  <2>7. Sound(heap', boxes')
    BY <1>0, <1>13, <2>2, <2>3, <2>4, <2>5, <2>6, SharedAnswer, Zenon
  <2>8. Same(heap, stamped, heap', boxes')
    BY <1>0, <1>13, <2>2, <2>3, <2>4, <2>5, <2>6, SharedAnswer, Zenon
  <2>9. stamped \in Seq(Box) /\ boxes' \in Seq(Box) BY <1>13, <2>7 DEF Sound
  <2> QED BY <1>0, <1>13, <2>7, <2>8, <2>9, SameThenSame
<1>17. CASE p < f /\ AnswerBox(Append(heap, newFront), stamped, ofFront)
  <2>1. f # 0 /\ f - p \in 1 .. f
    BY <1>12, <1>17, SMT
  <2>2. /\ heap[view.front] \in Seq(Int) /\ f \in 0 .. Len(heap[view.front])
    BY <1>2, <1>3, <2>1
  <2>3. front \in Seq(Int) /\ Len(front) = f BY <1>5, <2>2, SubSeqWhole
  <2>4. newFront \in Seq(Int) /\ Len(newFront) = f BY <1>7, <2>1, <2>3, ExceptSeq
  <2>5. PICK g : g = Append(heap, newFront) OBVIOUS
  <2>6. /\ g \in Heap /\ Len(g) = Len(heap) + 1 /\ Grown(heap, g) /\ g[Len(heap) + 1] = newFront
    BY <1>0, <2>4, <2>5, HeapAppend
  <2>7. /\ ofFront \in Box /\ ofFront.value = view.back /\ ofFront.length = k
        /\ ofFront.front = Len(heap) + 1 /\ ofFront.frontLen = f
    BY <1>10, <1>14, BoxFields
  <2>8. Fits(g, ofFront)
    <3>1. view.back \in 1 .. Len(g) /\ Len(heap) + 1 \in 1 .. Len(g) BY <1>0, <1>2, <2>6, SMT
    <3>2. g[view.back] = heap[view.back] BY <1>2, <2>6 DEF Grown
    <3>3. f \in 0 .. Len(g[Len(heap) + 1]) BY <2>4, <2>6, SMT
    <3> QED BY <1>14, <2>7, <3>1, <3>2, <3>3, Zenon DEF Fits
  <2> QED BY <1>2, <1>14, <1>16, <1>17, <2>4, <2>5, <2>7, <2>8
<1>18. CASE ~(p < f) /\ Create(newBack)
  BY <1>15, <1>18, CreateKeeps
<1>19. CASE ~(p < f) /\ f # 0 /\ AnswerBox(Append(heap, newBack), stamped, ofBack)
  <2>1. PICK g : g = Append(heap, newBack) OBVIOUS
  <2>2. /\ g \in Heap /\ Len(g) = Len(heap) + 1 /\ Grown(heap, g) /\ g[Len(heap) + 1] = newBack
    BY <1>0, <1>15, <1>19, <2>1, HeapAppend
  <2>3. /\ view.front # undefined /\ view.front \in 1 .. Len(heap)
        /\ f \in 0 .. Len(heap[view.front])
    BY <1>2, <1>3, <1>19
  <2>4. view.front \in Nat BY <2>3, SMT
  <2>5. /\ ofBack \in Box /\ ofBack.value = Len(heap) + 1 /\ ofBack.length = k
        /\ ofBack.front = view.front /\ ofBack.frontLen = f
    BY <1>11, <1>14, <2>4, BoxFields
  <2>6. Fits(g, ofBack)
    <3>1. view.front \in 1 .. Len(g) /\ Len(heap) + 1 \in 1 .. Len(g) BY <1>0, <2>2, <2>3, SMT
    <3>2. g[view.front] = heap[view.front] BY <2>2, <2>3 DEF Grown
    <3>3. k <= Len(g[Len(heap) + 1]) BY <1>15, <1>19, <2>2, SMT
    <3> QED BY <2>3, <2>5, <3>1, <3>2, <3>3, Zenon DEF Fits
  <2> QED BY <1>2, <1>14, <1>15, <1>16, <1>19, <2>1, <2>5, <2>6
<1> QED BY <1>12, <1>17, <1>18, <1>19
-----------------------------------------------------------------------------
(* The invariant.                                                            *)

Walk == [back: Nat, backCount: Nat, front: Nat \cup {undefined},
         frontCount: Nat, position: Nat]

\* The stamping discipline, and a walk of the walk's shape.
IInv == Sound(heap, boxes) /\ walk \in Walk

\* A step keeps the discipline, and every List its items.
Kept == IInv' /\ Same(heap, boxes, heap', boxes')

LEMMA InitIsSound == Init => IInv
<1> SUFFICES ASSUME Init PROVE IInv OBVIOUS
<1>1. heap = <<>> /\ boxes = <<>> BY DEF Init
<1>2. heap \in Heap /\ boxes \in Seq(Box) /\ Len(boxes) = 0 BY <1>1, EmptySeq, Zenon DEF Heap
<1>3. 1 .. Len(boxes) = {} BY <1>2, SMT
<1>4. Sound(heap, boxes) BY <1>2, <1>3, Zenon DEF Sound, Unshared
<1>5. walk \in Walk
  <2>1. undefined \in Nat \cup {undefined} /\ 0 \in Nat BY SMT
  <2> QED BY <2>1, Zenon DEF Init, Walk
<1> QED BY <1>4, <1>5 DEF IInv

\* A walk starts: the box it reads is represented anew.
LEMMA WalkKeeps ==
  ASSUME IInv, NEW b \in 1 .. Len(boxes), StartWalk(b) \/ StartInlinedWalk(b)
  PROVE  Kept
<1>0. Sound(heap, boxes) /\ heap \in Heap /\ boxes \in Seq(Box) /\ Fits(heap, boxes[b])
  BY DEF IInv, Sound
<1>1. PICK read : /\ WalkOf(read, b)
                  /\ read.heap \in Heap /\ Grown(heap, read.heap)
                  /\ Stands(heap, boxes[b], read.heap, read.box)
  <2>1. CASE StartWalk(b)
    <3>1. PICK read : read = Trimmed(heap, boxes[b]) OBVIOUS
    <3>2. WalkOf(read, b) BY <2>1, <3>1 DEF StartWalk
    <3>3. read.heap \in Heap /\ Grown(heap, read.heap) /\ Stands(heap, boxes[b], read.heap, read.box)
      BY <1>0, <3>1, TrimmedStands
    <3> QED BY <3>2, <3>3
  <2>2. CASE StartInlinedWalk(b)
    <3>1. PICK read : read = Materialised(heap, boxes[b]) OBVIOUS
    <3>2. WalkOf(read, b) BY <2>2, <3>1 DEF StartInlinedWalk
    <3>3. read.heap \in Heap /\ Grown(heap, read.heap) /\ Stands(heap, boxes[b], read.heap, read.box)
      BY <1>0, <3>1, MaterialisedStands
    <3> QED BY <3>2, <3>3
  <2> QED BY <2>1, <2>2
<1>2. PICK g, cs : g = read.heap /\ cs = [boxes EXCEPT ![b] = read.box] OBVIOUS
<1>3. heap' = g /\ boxes' = cs BY <1>1, <1>2 DEF WalkOf
<1>4. Sound(g, cs) BY <1>0, <1>1, <1>2, Represented, Zenon
<1>5. Same(heap, boxes, g, cs) BY <1>0, <1>1, <1>2, Represented, Zenon
<1>6. Fits(read.heap, read.box) BY <1>1 DEF Stands
<1>7. PICK view : view = RunsOf(read.heap, read.box) OBVIOUS
<1>8. /\ view.back \in 1 .. Len(read.heap) /\ view.backCount \in Nat /\ view.frontCount \in Nat
      /\ view.front # undefined => view.front \in 1 .. Len(read.heap)
  BY <1>1, <1>6, <1>7, Runs, CountsAreNat
<1>9. view.back \in Nat /\ view.front \in Nat \cup {undefined} /\ 0 \in Nat
  BY <1>8, SMT
<1>10. walk' = [back |-> view.back, backCount |-> view.backCount,
                front |-> view.front, frontCount |-> view.frontCount, position |-> 0]
  BY <1>1, <1>7, Zenon DEF WalkOf
<1>11. walk' \in Walk BY <1>8, <1>9, <1>10, Zenon DEF Walk
<1> QED BY <1>3, <1>4, <1>5, <1>11 DEF Kept, IInv

\* A visit moves the walk, and touches neither heap nor boxes.
LEMMA VisitKeeps ==
  ASSUME IInv, Visit \/ Leave
  PROVE  Kept
<1>1. heap' = heap /\ boxes' = boxes /\ boxes \in Seq(Box) /\ Sound(heap, boxes)
  BY DEF Visit, Leave, IInv, Sound
<1>2. PICK w \in Walk : w = walk BY DEF IInv
<1>3. w.position + 1 \in Nat /\ w.frontCount + w.backCount \in Nat
  BY <1>2, SMT DEF Walk
<1>4. PICK p \in Nat : walk' = [w EXCEPT !.position = p]
  BY <1>2, <1>3, Zenon DEF Visit, Leave, Total
<1>5. walk' \in Walk BY <1>2, <1>4, Zenon DEF Walk
<1>6. Same(heap, boxes, heap', boxes') BY <1>1, SameSelf
<1> QED BY <1>1, <1>5, <1>6 DEF Kept, IInv

LEMMA EditKeeps ==
  ASSUME IInv, NEW b \in 1 .. Len(boxes), Edit(b)
  PROVE  Sound(heap', boxes') /\ Same(heap, boxes, heap', boxes')
<1>0. Sound(heap, boxes) /\ DOMAIN boxes = 1 .. Len(boxes)
  BY SMT DEF IInv, Sound
<1>1. CASE Own(b) BY <1>0, <1>1, OwnKeeps
<1>2. CASE ReverseList(b) \/ Sort(b) BY <1>0, <1>2, ReverseKeeps
<1>3. CASE \E item \in Added : Prepend(b, item)
  BY <1>0, <1>3, PrependKeeps, AddedAssumption
<1>4. CASE \/ \E item \in Added : AppendItem(b, item)
           \/ \E other \in DOMAIN boxes : AppendContents(b, other)
  BY <1>0, <1>4, AppendKeeps, AddedAssumption
<1>5. CASE \E from \in Positions, to \in Positions : Slice(b, from, to)
  BY <1>0, <1>5, SliceKeeps, PositionsAssumption
<1>6. CASE \E at \in Positions : RemoveItem(b, at)
  BY <1>0, <1>6, RemoveKeeps, PositionsAssumption
<1>7. CASE \E item \in Added, at \in Positions : Insert(b, item, at)
  BY <1>0, <1>7, InsertKeeps, AddedAssumption, PositionsAssumption
<1>8. CASE \E item \in Added, at \in Positions : Replace(b, item, at)
  BY <1>0, <1>8, ReplaceKeeps, AddedAssumption, PositionsAssumption
<1> QED BY <1>1, <1>2, <1>3, <1>4, <1>5, <1>6, <1>7, <1>8, Zenon DEF Edit

\* A native leaves the walk underway as it is.
LEMMA EditLeavesWalk ==
  ASSUME NEW b, Edit(b)
  PROVE  walk' = walk
<1>1. \A h, others, items : AnswerFresh(h, others, items) => walk' = walk
  BY DEF AnswerFresh
<1>2. \A h, others, box : AnswerBox(h, others, box) => walk' = walk
  BY DEF AnswerBox
<1>3. \A h, others, c, items : AnswerAppended(h, others, c, items) => walk' = walk
  BY <1>2, Zenon DEF AnswerAppended
<1>4. \A items : Create(items) => walk' = walk BY <1>1 DEF Create
<1>5. \A item : Prepend(b, item) => walk' = walk BY <1>2, Zenon DEF Prepend
<1>6. \A item : AppendItem(b, item) => walk' = walk BY <1>3 DEF AppendItem
<1>7. \A start, end : AnswerWindow(b, start, end) => walk' = walk
  BY <1>2, Zenon DEF AnswerWindow
<1>8. CASE Own(b) BY <1>1, <1>8, Zenon DEF Own
<1>9. CASE ReverseList(b) BY <1>1, <1>9, Zenon DEF ReverseList
<1>10. CASE Sort(b) BY <1>1, <1>10, Zenon DEF Sort
<1>11. CASE \E other \in DOMAIN boxes : AppendContents(b, other)
  BY <1>3, <1>11, Zenon DEF AppendContents
<1>12. CASE \E from \in Positions, to \in Positions : Slice(b, from, to)
  BY <1>4, <1>7, <1>12, Zenon DEF Slice
<1>13. CASE \E at \in Positions : RemoveItem(b, at)
  BY <1>4, <1>7, <1>13, Zenon DEF RemoveItem
<1>14. CASE \E item \in Added, at \in Positions : Insert(b, item, at)
  BY <1>4, <1>5, <1>6, <1>14, Zenon DEF Insert
<1>15. CASE \E item \in Added, at \in Positions : Replace(b, item, at)
  BY <1>2, <1>4, <1>15, Zenon DEF Replace
<1> QED BY <1>5, <1>6, <1>8, <1>9, <1>10, <1>11, <1>12, <1>13, <1>14, <1>15, Zenon DEF Edit

LEMMA StepKeeps ==
  ASSUME IInv, [Next]_vars
  PROVE  Kept
<1>0. Sound(heap, boxes) /\ boxes \in Seq(Box) /\ DOMAIN boxes = 1 .. Len(boxes)
  BY SMT DEF IInv, Sound
<1>1. ASSUME NEW items \in Literals, Create(items) PROVE Kept
  <2>1. items \in Seq(Int) BY LiteralsAssumption
  <2>2. Sound(heap', boxes') /\ Same(heap, boxes, heap', boxes')
    BY <1>0, <1>1, <2>1, CreateKeeps
  <2>3. walk' = walk BY <1>1 DEF Create, AnswerFresh
  <2> QED BY <2>2, <2>3 DEF Kept, IInv
<1>2. ASSUME NEW b \in DOMAIN boxes, Edit(b) PROVE Kept
  <2>1. b \in 1 .. Len(boxes) BY <1>0
  <2>2. Sound(heap', boxes') /\ Same(heap, boxes, heap', boxes')
    BY <1>2, <2>1, EditKeeps
  <2>3. walk' = walk BY <1>2, EditLeavesWalk
  <2> QED BY <2>2, <2>3 DEF Kept, IInv
<1>3. ASSUME NEW b \in DOMAIN boxes, StartWalk(b) \/ StartInlinedWalk(b) PROVE Kept
  BY <1>0, <1>3, WalkKeeps
<1>4. CASE Visit \/ Leave BY <1>4, VisitKeeps
<1>5. CASE UNCHANGED vars
  <2>1. heap' = heap /\ boxes' = boxes /\ walk' = walk BY <1>5 DEF vars
  <2>2. Same(heap, boxes, heap', boxes') BY <1>0, <2>1, SameSelf
  <2> QED BY <2>1, <2>2 DEF Kept, IInv
<1> QED BY <1>1, <1>2, <1>3, <1>4, <1>5, Zenon DEF Next

LEMMA SpecIsSound == Spec => []IInv
<1>1. Init => IInv BY InitIsSound
<1>2. IInv /\ [Next]_vars => IInv' BY StepKeeps DEF Kept
<1> QED BY <1>1, <1>2, PTL DEF Spec

\* Every box of a reachable state is made of Arrays that exist (the four fields
\* of packages/runtime/src/List.ts's TList).
THEOREM TypeCorrect == Spec => []TypeOK
<1>1. IInv => TypeOK
  <2> SUFFICES ASSUME IInv PROVE TypeOK OBVIOUS
  <2>1. /\ heap \in Seq(Seq(Int)) /\ boxes \in Seq(Box) /\ DOMAIN boxes = 1 .. Len(boxes)
        /\ \A b \in 1 .. Len(boxes) : Fits(heap, boxes[b])
    BY SMT DEF IInv, Sound, Heap
  <2> QED BY <2>1, Zenon DEF IInv, Walk, TypeOK, Fits, Arrays
<1> QED BY <1>1, SpecIsSound, PTL

\* The stamping discipline holds in every reachable state: a count left unsaid
\* is the count of an Array nobody else holds (List.ts:278-283, 507-513, 538-541).
THEOREM SharedRunsCounted == Spec => []SharedRunsAreCounted
<1>1. IInv => SharedRunsAreCounted
  <2> SUFFICES ASSUME IInv PROVE SharedRunsAreCounted OBVIOUS
  <2>1. /\ DOMAIN boxes = 1 .. Len(boxes) /\ Unshared(boxes)
        /\ \A b \in 1 .. Len(boxes) : Fits(heap, boxes[b])
    BY SMT DEF IInv, Sound
  <2> QED BY <2>1, Zenon DEF SharedRunsAreCounted, Unshared, Fits
<1> QED BY <1>1, SpecIsSound, PTL

\* Whatever the Literals, the items, the positions and the number of boxes, no
\* native and no walk changes the items of a List that exists (List.ts:26-30).
THEOREM Immutable == Spec => ListsAreImmutable
<1>1. IInv /\ [Next]_vars =>
        [\A b \in DOMAIN boxes : b \in DOMAIN boxes' /\ Items(b)' = Items(b)]_vars
  <2> SUFFICES ASSUME IInv, [Next]_vars, NEW b \in DOMAIN boxes
               PROVE  b \in DOMAIN boxes' /\ Items(b)' = Items(b)
    OBVIOUS
  <2>1. IInv' /\ Same(heap, boxes, heap', boxes') BY StepKeeps DEF Kept
  <2>2. boxes \in Seq(Box) /\ boxes' \in Seq(Box) BY <2>1 DEF IInv, Sound
  <2>3. b \in 1 .. Len(boxes) /\ b \in DOMAIN boxes'
    BY <2>1, <2>2, SMT DEF Same
  <2>4. Shown(heap', boxes'[b]) = Shown(heap, boxes[b]) BY <2>1, <2>3 DEF Same
  <2> QED BY <2>3, <2>4 DEF Items, Shown
<1> QED BY <1>1, SpecIsSound, PTL DEF Spec, ListsAreImmutable

-----------------------------------------------------------------------------
(* What a box shows, item by item.                                           *)

\* s is the first f items of Array `front` backwards, and the first k of `back`.
Holds(h, front, f, back, k, s) ==
  /\ f \in Nat /\ k \in Nat /\ s \in Seq(Int) /\ Len(s) = f + k
  /\ \A i \in 1 .. f : s[i] = h[front][f - i + 1]
  /\ \A i \in 1 .. k : s[f + i] = h[back][i]

\* The items a box shows are those of its runs.
LEMMA BoxShows ==
  ASSUME NEW h \in Heap, NEW box, Fits(h, box), NEW view, view = RunsOf(h, box)
  PROVE  Holds(h, view.front, view.frontCount, view.back, view.backCount, Shown(h, box))
<1>1. view = RunsOf(h, box) OBVIOUS
<1>2. PICK f \in Nat, k \in Nat : f = view.frontCount /\ k = view.backCount
  BY <1>1, CountsAreNat
<1>3. PICK back : back = SubSeq(h[view.back], 1, k) OBVIOUS
<1>4. /\ back \in Seq(Int) /\ Len(back) = k
      /\ \A i \in 1 .. k : back[i] = h[view.back][i]
  <2>1. h[view.back] \in Seq(Int) /\ k \in 0 .. Len(h[view.back]) BY <1>1, <1>2, Runs
  <2>2. back \in Seq(Int) /\ Len(back) = k BY <1>3, <2>1, SubSeqWhole
  <2> QED BY <1>3, <2>1, <2>2, SMT
<1>5. PICK front : front = IF view.front = undefined THEN <<>>
                           ELSE Reverse(SubSeq(h[view.front], 1, f))
  OBVIOUS
<1>6. /\ front \in Seq(Int) /\ Len(front) = f
      /\ \A i \in 1 .. f : front[i] = h[view.front][f - i + 1]
  <2>1. CASE view.front = undefined
    <3>1. f = 0 /\ front = <<>> BY <1>1, <1>2, <1>5, <2>1, Runs
    <3> QED BY <3>1, SMT
  <2>2. CASE view.front # undefined
    <3>1. h[view.front] \in Seq(Int) /\ f \in 0 .. Len(h[view.front]) BY <1>1, <1>2, <2>2, Runs
    <3>2. PICK run : run = SubSeq(h[view.front], 1, f) OBVIOUS
    <3>3. /\ run \in Seq(Int) /\ Len(run) = f
          /\ \A i \in 1 .. f : run[i] = h[view.front][i]
      BY <3>1, <3>2, SubSeqWhole, SMT
    <3>4. front = [i \in 1 .. f |-> run[f - i + 1]]
      BY <1>5, <2>2, <3>2, <3>3 DEF Reverse
    <3>5. \A i \in 1 .. f : f - i + 1 \in 1 .. f /\ run[f - i + 1] \in Int
      BY <3>3, SMT
    <3>6. front \in Seq(Int) /\ Len(front) = f BY <3>4, <3>5, SMT
    <3> QED BY <3>3, <3>4, <3>5, <3>6
  <2> QED BY <2>1, <2>2
<1>7. PICK s : s = Shown(h, box) OBVIOUS
<1>8. s = front \o back BY <1>1, <1>2, <1>3, <1>5, <1>7, Zenon DEF Shown, ItemsOf
<1>9. /\ s \in Seq(Int) /\ Len(s) = f + k
      /\ \A i \in 1 .. f + k : s[i] = IF i <= f THEN front[i] ELSE back[i - f]
  <2>1. front \in Seq(Int) /\ back \in Seq(Int) BY <1>4, <1>6
  <2>2. /\ s \in Seq(Int) /\ Len(s) = Len(front) + Len(back)
        /\ \A i \in 1 .. Len(front) + Len(back) :
             s[i] = IF i <= Len(front) THEN front[i] ELSE back[i - Len(front)]
    BY <1>8, <2>1, ConcatProperties, Zenon
  <2> QED BY <1>4, <1>6, <2>2
<1>10. \A i \in 1 .. f : s[i] = front[i]
  BY <1>9, SMT
<1>11. \A i \in 1 .. k : s[f + i] = back[i]
  <2> SUFFICES ASSUME NEW i \in 1 .. k PROVE s[f + i] = back[i] OBVIOUS
  <2>1. f + i \in 1 .. f + k /\ ~(f + i <= f) /\ f + i - f = i BY SMT
  <2> QED BY <1>9, <2>1
<1>12. Holds(h, view.front, f, view.back, k, s)
  BY <1>4, <1>6, <1>9, <1>10, <1>11 DEF Holds
<1> QED BY <1>2, <1>7, <1>12, Zenon

\* A box that says what it counts shows s if its runs hold s.
LEMMA ShowsIs ==
  ASSUME NEW h \in Heap, NEW box, Fits(h, box), NEW s, NEW f, NEW k,
         RunsOf(h, box).frontCount = f, RunsOf(h, box).backCount = k,
         Holds(h, box.front, f, box.value, k, s)
  PROVE  Shown(h, box) = s
<1>1. PICK t : t = Shown(h, box) OBVIOUS
<1>2. RunsOf(h, box).front = box.front /\ RunsOf(h, box).back = box.value BY Runs
<1>3. Holds(h, box.front, f, box.value, k, t)
  BY <1>1, <1>2, BoxShows, Zenon
<1>4. ASSUME NEW i \in 1 .. Len(t) PROVE t[i] = s[i]
  <2>0. f \in Nat /\ k \in Nat /\ Len(t) = f + k BY <1>3 DEF Holds
  <2>1. CASE i <= f
    <3>1. i \in 1 .. f BY <2>0, <2>1, SMT
    <3> QED BY <1>3, <3>1, Zenon DEF Holds
  <2>2. CASE ~(i <= f)
    <3>1. PICK j \in 1 .. k : i = f + j
      <4>1. i - f \in 1 .. k /\ i = f + (i - f) BY <2>0, <2>2, SMT
      <4> QED BY <4>1
    <3> QED BY <1>3, <3>1, Zenon DEF Holds
  <2> QED BY <2>1, <2>2
<1>5. t \in Seq(Int) /\ s \in Seq(Int) /\ Len(t) = Len(s) BY <1>3 DEF Holds
<1> QED BY <1>1, <1>4, <1>5, SeqEqual

\* A stretch of a sequence, item by item.
LEMMA SliceOf ==
  ASSUME NEW s \in Seq(Int), NEW from \in Nat, NEW to \in Nat, from <= to, to <= Len(s)
  PROVE  /\ SubSeq(s, from + 1, to) \in Seq(Int)
         /\ Len(SubSeq(s, from + 1, to)) = to - from
         /\ \A i \in 1 .. to - from : SubSeq(s, from + 1, to)[i] = s[from + i]
<1>1. PICK m \in Int : m = from + 1 BY SMT
<1>2. to \in Int /\ \A i \in m .. to : s[i] \in Int BY <1>1, SMT
<1>3. /\ SubSeq(s, m, to) \in Seq(Int)
      /\ Len(SubSeq(s, m, to)) = IF m <= to THEN to - m + 1 ELSE 0
      /\ \A i \in 1 .. to - m + 1 : SubSeq(s, m, to)[i] = s[m + i - 1]
  BY <1>2, SubSeqProperties
<1>4. /\ to - m + 1 = to - from /\ \A i \in Int : m + i - 1 = from + i
      /\ (IF m <= to THEN to - m + 1 ELSE 0) = to - from
  BY <1>1, SMT
<1>5. \A i \in 1 .. to - from : SubSeq(s, m, to)[i] = s[from + i] BY <1>3, <1>4
<1> QED BY <1>1, <1>3, <1>4, <1>5

\* What a native reads from one of the runs is a part of what the box shows.
LEMMA FrontItemsAre ==
  ASSUME NEW h \in Heap, NEW box, Fits(h, box), NEW from \in Nat, NEW to \in Nat,
         from <= to, to <= RunsOf(h, box).frontCount
  PROVE  FrontItems(h, RunsOf(h, box), from, to) = SubSeq(Shown(h, box), from + 1, to)
<1>1. PICK view : view = RunsOf(h, box) OBVIOUS
<1>2. PICK s : s = Shown(h, box) OBVIOUS
<1>3. PICK f \in Nat, k \in Nat : f = view.frontCount /\ k = view.backCount
  BY <1>1, CountsAreNat
<1>4. /\ s \in Seq(Int) /\ Len(s) = f + k
      /\ \A i \in 1 .. f : s[i] = h[view.front][f - i + 1]
  <2>1. Holds(h, view.front, f, view.back, k, s) BY <1>1, <1>2, <1>3, BoxShows, Zenon
  <2> QED BY <2>1 DEF Holds
<1>5. to <= f /\ to <= Len(s) BY <1>1, <1>3, <1>4, SMT
<1>6. PICK items : items = FrontItems(h, view, from, to) OBVIOUS
<1>7. items \in Seq(Int) BY <1>1, <1>6, FrontItemsTyped
<1>8. items = [i \in 1 .. to - from |-> h[view.front][f - from - i + 1]]
  BY <1>3, <1>6 DEF FrontItems
<1>9. PICK part : part = SubSeq(s, from + 1, to) OBVIOUS
<1>10. /\ part \in Seq(Int) /\ Len(part) = to - from
       /\ \A i \in 1 .. to - from : part[i] = s[from + i]
  BY <1>4, <1>5, <1>9, SliceOf
<1>11. Len(items) = to - from
  <2>1. to - from \in Nat BY SMT
  <2>2. DOMAIN items = 1 .. to - from BY <1>8
  <2> QED BY <1>7, <2>1, <2>2, SMT
<1>12. ASSUME NEW i \in 1 .. Len(items) PROVE items[i] = part[i]
  <2>1. i \in 1 .. to - from BY <1>11
  <2>2. from + i \in 1 .. f /\ f - (from + i) + 1 = f - from - i + 1 BY <1>5, <2>1, SMT
  <2> QED BY <1>4, <1>8, <1>10, <2>1, <2>2
<1>13. items = part BY <1>7, <1>10, <1>11, <1>12, SeqEqual
<1> QED BY <1>1, <1>2, <1>6, <1>9, <1>13

\* The loop over the back run reads a stretch of what the box shows.
LEMMA BackItemsAre ==
  ASSUME NEW h \in Heap, NEW box, Fits(h, box), NEW from \in Nat, NEW to \in Nat,
         from <= to, to <= RunsOf(h, box).backCount
  PROVE  LET f == RunsOf(h, box).frontCount
         IN BackItems(h, RunsOf(h, box), from, to) = SubSeq(Shown(h, box), f + from + 1, f + to)
<1>1. PICK view : view = RunsOf(h, box) OBVIOUS
<1>2. PICK s : s = Shown(h, box) OBVIOUS
<1>3. PICK f \in Nat, k \in Nat : f = view.frontCount /\ k = view.backCount
  BY <1>1, CountsAreNat
<1>4. /\ s \in Seq(Int) /\ Len(s) = f + k
      /\ \A i \in 1 .. k : s[f + i] = h[view.back][i]
  <2>1. Holds(h, view.front, f, view.back, k, s) BY <1>1, <1>2, <1>3, BoxShows, Zenon
  <2> QED BY <2>1 DEF Holds
<1>5. PICK run \in Seq(Int) : run = h[view.back] /\ k <= Len(run)
  <2>1. h[view.back] \in Seq(Int) /\ k \in 0 .. Len(h[view.back]) BY <1>1, <1>3, Runs
  <2> QED BY <2>1, SMT
<1>6. to <= k /\ to <= Len(run) /\ f + to <= Len(s) /\ f + from <= f + to
      /\ f + from \in Nat /\ f + to \in Nat /\ (f + to) - (f + from) = to - from
  <2>1. to <= k BY <1>1, <1>3, Zenon
  <2> QED BY <1>4, <1>5, <2>1, SMT
<1>7. PICK items : items = BackItems(h, view, from, to) OBVIOUS
<1>8. /\ items \in Seq(Int) /\ Len(items) = to - from
      /\ \A i \in 1 .. to - from : items[i] = run[from + i]
  BY <1>5, <1>6, <1>7, SliceOf DEF BackItems
<1>9. PICK part : part = SubSeq(s, f + from + 1, f + to) OBVIOUS
<1>10. /\ part \in Seq(Int) /\ Len(part) = to - from
       /\ \A i \in 1 .. to - from : part[i] = s[f + from + i]
  <2>1. PICK a \in Nat, z \in Nat : a = f + from /\ z = f + to BY <1>6
  <2>2. part = SubSeq(s, a + 1, z) /\ z - a = to - from /\ a <= z /\ z <= Len(s)
    BY <1>6, <1>9, <2>1
  <2> QED BY <1>4, <2>1, <2>2, SliceOf
<1>11. ASSUME NEW i \in 1 .. Len(items) PROVE items[i] = part[i]
  <2>1. i \in 1 .. to - from BY <1>8
  <2>2. from + i \in 1 .. k /\ f + from + i = f + (from + i) BY <1>6, <2>1, SMT
  <2> QED BY <1>4, <1>5, <1>8, <1>10, <2>1, <2>2
<1>12. items = part BY <1>8, <1>10, <1>11, SeqEqual
<1> QED BY <1>1, <1>2, <1>3, <1>7, <1>9, <1>12

-----------------------------------------------------------------------------
(* The answers of the natives that fill an Array of their own.               *)

\* One box more, which shows items; and no Array lost any.
Gives(items) ==
  /\ Len(boxes') = Len(boxes) + 1
  /\ Shown(heap', boxes'[Len(boxes) + 1]) = items
  /\ Extended(heap, heap')

\* The box an answer adds is the last one.
LEMMA NewBox ==
  ASSUME NEW cs \in Seq(Box), Len(cs) = Len(boxes), NEW new \in Box, boxes' = Append(cs, new)
  PROVE  Len(boxes') = Len(boxes) + 1 /\ boxes'[Len(boxes) + 1] = new
BY AppendProperties

\* An Array of the answer's own is what the answer shows.
LEMMA FreshGives ==
  ASSUME heap \in Heap, NEW g \in Heap, Grown(heap, g), NEW cs \in Seq(Box), Len(cs) = Len(boxes),
         NEW items \in Seq(Int), AnswerFresh(g, cs, items)
  PROVE  Gives(items)
<1>1. PICK new : new = [Flat(Len(g) + 1) EXCEPT !.length = undefined] OBVIOUS
<1>2. new = Flat(Len(g) + 1) BY <1>1, SMT DEF Flat
<1>3. Fits(Append(g, items), new) /\ Shown(Append(g, items), new) = items
  BY <1>1, FlatFits
<1>4. heap' = Append(g, items) /\ boxes' = Append(cs, new)
  BY <1>2 DEF AnswerFresh
<1>5. Len(boxes') = Len(boxes) + 1 /\ boxes'[Len(boxes) + 1] = new
  BY <1>3, <1>4, NewBox DEF Fits
<1>6. Grown(g, heap') /\ heap' \in Heap BY <1>4, HeapAppend
<1>7. Grown(heap, heap') BY <1>6, SMT DEF Grown, Heap
<1>8. Extended(heap, heap') BY <1>6, <1>7, GrownExtends
<1> QED BY <1>3, <1>4, <1>5, <1>8 DEF Gives

\* createList answers with the items it is given.
LEMMA CreateGives ==
  ASSUME Sound(heap, boxes), NEW items \in Seq(Int), Create(items)
  PROVE  Gives(items)
<1>1. heap \in Heap /\ boxes \in Seq(Box) /\ Grown(heap, heap) BY GrownSelf DEF Sound
<1> QED BY <1>1, FreshGives DEF Create

\* The two runs, one after the other, are what the box shows.
LEMMA BothRuns ==
  ASSUME NEW h \in Heap, NEW box, Fits(h, box)
  PROVE  LET view == RunsOf(h, box)
             s == Shown(h, box)
         IN /\ view.frontCount \in Nat /\ view.backCount \in Nat
            /\ s \in Seq(Int) /\ Len(s) = view.frontCount + view.backCount
            /\ FrontItems(h, view, 0, view.frontCount) = SubSeq(s, 1, view.frontCount)
            /\ BackItems(h, view, 0, view.backCount)
                 = SubSeq(s, view.frontCount + 1, Len(s))
<1>1. PICK view : view = RunsOf(h, box) OBVIOUS
<1>2. PICK f \in Nat, k \in Nat : f = view.frontCount /\ k = view.backCount
  BY <1>1, CountsAreNat
<1>3. Shown(h, box) \in Seq(Int) /\ Len(Shown(h, box)) = f + k
  <2>1. Holds(h, view.front, f, view.back, k, Shown(h, box)) BY <1>1, <1>2, BoxShows, Zenon
  <2> QED BY <2>1 DEF Holds
<1>4. 0 \in Nat /\ 0 <= f /\ f <= f /\ 0 <= k /\ k <= k /\ 0 + 1 = 1 /\ f + 0 + 1 = f + 1
  BY SMT
<1>5. FrontItems(h, view, 0, f) = SubSeq(Shown(h, box), 1, f)
  <2>1. f <= RunsOf(h, box).frontCount BY <1>1, <1>2, <1>4
  <2>2. FrontItems(h, RunsOf(h, box), 0, f) = SubSeq(Shown(h, box), 0 + 1, f)
    BY <1>4, <2>1, FrontItemsAre
  <2> QED BY <1>1, <1>4, <2>2
<1>6. BackItems(h, view, 0, k) = SubSeq(Shown(h, box), f + 1, f + k)
  <2>1. k <= RunsOf(h, box).backCount BY <1>1, <1>2, <1>4
  <2>2. PICK n : n = RunsOf(h, box).frontCount OBVIOUS
  <2>3. BackItems(h, RunsOf(h, box), 0, k) = SubSeq(Shown(h, box), n + 0 + 1, n + k)
    BY <1>4, <2>1, <2>2, BackItemsAre
  <2>4. n = f BY <1>1, <1>2, <2>2
  <2> QED BY <1>1, <1>4, <2>3, <2>4
<1> QED BY <1>1, <1>2, <1>3, <1>5, <1>6

\* ownItemsOf answers with the items of its List.
LEMMA OwnGives ==
  ASSUME Sound(heap, boxes), NEW b \in 1 .. Len(boxes), Own(b)
  PROVE  Gives(Items(b))
<1>0. heap \in Heap /\ boxes \in Seq(Box) /\ Fits(heap, boxes[b]) /\ Grown(heap, heap)
  BY GrownSelf DEF Sound
<1>1. PICK view : view = RunsOf(heap, boxes[b]) OBVIOUS
<1>2. PICK s : s = Shown(heap, boxes[b]) OBVIOUS
<1>3. PICK f \in Nat, k \in Nat : f = view.frontCount /\ k = view.backCount
  BY <1>0, <1>1, CountsAreNat
<1>4. /\ s \in Seq(Int) /\ Len(s) = f + k
      /\ FrontItems(heap, view, 0, f) = SubSeq(s, 1, f)
      /\ BackItems(heap, view, 0, k) = SubSeq(s, f + 1, Len(s))
  BY <1>0, <1>1, <1>2, <1>3, BothRuns
<1>5. AnswerFresh(heap, boxes,
        IF f = 0 THEN BackItems(heap, view, 0, k)
        ELSE FrontItems(heap, view, 0, f) \o BackItems(heap, view, 0, k))
  BY <1>1, <1>3, Zenon DEF Own
<1>6. SubSeq(s, 1, f) \o SubSeq(s, f + 1, Len(s)) = s
  <2>1. 1 \in 1 .. Len(s) + 1 /\ f \in 1 - 1 .. Len(s) /\ Len(s) \in f .. Len(s)
    BY <1>4, SMT
  <2>2. SubSeq(s, 1, f) \o SubSeq(s, f + 1, Len(s)) = SubSeq(s, 1, Len(s))
    BY <1>4, <2>1, ConcatAdjacentSubSeq
  <2> QED BY <1>4, <2>2, SubSeqFull
<1>7. f = 0 => SubSeq(s, f + 1, Len(s)) = s BY <1>4, SubSeqFull, SMT
<1>8. AnswerFresh(heap, boxes, s)
  <2>1. CASE f = 0 BY <1>4, <1>5, <1>7, <2>1
  <2>2. CASE f # 0 BY <1>4, <1>5, <1>6, <2>2
  <2> QED BY <2>1, <2>2
<1>9. Gives(s) BY <1>0, <1>4, <1>8, FreshGives
<1> QED BY <1>2, <1>9 DEF Items, Shown

\* The one Array of a box that was combined is what the box shows.
LEMMA MaterialisedIs ==
  ASSUME NEW h \in Heap, NEW box, Fits(h, box)
  PROVE  LET r == Materialised(h, box) IN r.heap[r.box.value] = Shown(h, box)
<1>1. CASE box.front # undefined
  <2>1. PICK s : s = Shown(h, box) OBVIOUS
  <2>2. s \in Seq(Int) BY <2>1, ShownIsSeq
  <2>3. PICK g, new : g = Append(h, s) /\ new = [Flat(Len(h) + 1) EXCEPT !.length = Len(s)]
    OBVIOUS
  <2>4. Materialised(h, box) = [heap |-> g, box |-> new]
    BY <1>1, <2>1, <2>3, Zenon DEF Materialised, Shown
  <2>5. new.value = Len(h) + 1 BY <2>3, SMT DEF Flat
  <2>6. g[Len(h) + 1] = s BY <2>2, <2>3, HeapAppend
  <2> QED BY <2>1, <2>4, <2>5, <2>6, SMT
<1>2. CASE box.front = undefined
  <2>1. PICK view : view = RunsOf(h, box) OBVIOUS
  <2>2. PICK run \in Seq(Int) : run = h[view.back] /\ view.backCount \in 0 .. Len(run)
    BY <2>1, Runs
  <2>3. view.front = undefined /\ view.back = box.value BY <1>2, <2>1, Runs
  <2>4. PICK whole : whole = SubSeq(run, 1, view.backCount) OBVIOUS
  <2>5. whole \in Seq(Int) /\ Len(whole) = view.backCount BY <2>2, <2>4, SubSeqWhole
  <2>6. Shown(h, box) = whole
    <3>1. Shown(h, box) = <<>> \o whole BY <2>1, <2>2, <2>3, <2>4, Zenon DEF Shown, ItemsOf
    <3> QED BY <2>5, <3>1, ConcatEmptySeq
  <2>7. Materialised(h, box) = TrimBack(h, box) BY <1>2, Zenon DEF Materialised
  <2>8. CASE view.backCount = Len(run)
    <3>1. TrimBack(h, box) = [heap |-> h, box |-> box] BY <2>1, <2>2, <2>8, Zenon DEF TrimBack
    <3>2. whole = run BY <2>2, <2>4, <2>8, SubSeqFull
    <3> QED BY <2>2, <2>3, <2>6, <2>7, <3>1, <3>2, SMT
  <2>9. CASE view.backCount # Len(run)
    <3>1. PICK g, new : g = Append(h, whole)
                        /\ new = [box EXCEPT !.value = Len(h) + 1, !.length = view.backCount]
      OBVIOUS
    <3>2. TrimBack(h, box) = [heap |-> g, box |-> new]
      BY <2>1, <2>2, <2>4, <2>9, <3>1, Zenon DEF TrimBack
    <3>3. g[Len(h) + 1] = whole BY <2>5, <3>1, HeapAppend
    <3>4. new.value = Len(h) + 1
      <4>1. box \in Box BY DEF Fits
      <4> QED BY <3>1, <4>1, SMT DEF Box
    <3> QED BY <2>6, <2>7, <3>2, <3>3, <3>4, SMT
  <2> QED BY <2>8, <2>9
<1> QED BY <1>1, <1>2

\* reverse answers with the items backwards.
LEMMA ReverseGives ==
  ASSUME Sound(heap, boxes), NEW b \in 1 .. Len(boxes), ReverseList(b)
  PROVE  Gives(Reverse(Items(b)))
<1>0. heap \in Heap /\ boxes \in Seq(Box) /\ Fits(heap, boxes[b]) BY DEF Sound
<1>1. PICK flat : flat = Materialised(heap, boxes[b]) OBVIOUS
<1>2. /\ flat.heap \in Heap /\ Grown(heap, flat.heap) /\ flat.box \in Box
      /\ flat.heap[flat.box.value] = Shown(heap, boxes[b])
  BY <1>0, <1>1, MaterialisedStands, MaterialisedIs DEF Stands, Fits
<1>3. PICK s \in Seq(Int) : s = Shown(heap, boxes[b]) BY <1>0, ShownIsSeq
<1>4. Reverse(s) \in Seq(Int) BY SMT DEF Reverse
<1>5. PICK cs : cs = [boxes EXCEPT ![b] = flat.box] OBVIOUS
<1>6. cs \in Seq(Box) /\ Len(cs) = Len(boxes) BY <1>0, <1>2, <1>5, ExceptSeq
<1>7. AnswerFresh(flat.heap, cs, Reverse(s)) BY <1>1, <1>2, <1>3, <1>5 DEF ReverseList
<1>8. Gives(Reverse(s)) BY <1>0, <1>2, <1>4, <1>6, <1>7, FreshGives
<1> QED BY <1>3, <1>8 DEF Items, Shown

\* sort answers with the items moved about until neighbours are in order.
LEMMA SortGives ==
  ASSUME Sound(heap, boxes), NEW b \in 1 .. Len(boxes), Sort(b)
  PROVE  \E order \in Injection(1 .. Len(Items(b)), 1 .. Len(Items(b))) :
           LET sorted == [i \in 1 .. Len(Items(b)) |-> Items(b)[order[i]]]
           IN Ascending(sorted) /\ sorted \in Seq(Int) /\ Gives(sorted)
<1>0. heap \in Heap /\ boxes \in Seq(Box) /\ Fits(heap, boxes[b]) BY DEF Sound
<1>1. PICK flat : flat = Materialised(heap, boxes[b]) OBVIOUS
<1>2. /\ flat.heap \in Heap /\ Grown(heap, flat.heap) /\ flat.box \in Box
      /\ flat.heap[flat.box.value] = Shown(heap, boxes[b])
  BY <1>0, <1>1, MaterialisedStands, MaterialisedIs DEF Stands, Fits
<1>3. PICK s \in Seq(Int) : s = Shown(heap, boxes[b]) BY <1>0, ShownIsSeq
<1>4. PICK cs : cs = [boxes EXCEPT ![b] = flat.box] OBVIOUS
<1>5. cs \in Seq(Box) /\ Len(cs) = Len(boxes) BY <1>0, <1>2, <1>4, ExceptSeq
<1>6. PICK order \in Injection(DOMAIN s, DOMAIN s) :
        /\ Ascending([i \in 1 .. Len(s) |-> s[order[i]]])
        /\ AnswerFresh(flat.heap, cs, [i \in 1 .. Len(s) |-> s[order[i]]])
  BY <1>1, <1>2, <1>3, <1>4, Zenon DEF Sort
<1>7. DOMAIN s = 1 .. Len(s) BY SMT
<1>8. order \in [1 .. Len(s) -> 1 .. Len(s)] BY <1>6, <1>7 DEF Injection
<1>9. [i \in 1 .. Len(s) |-> s[order[i]]] \in Seq(Int) BY <1>8, SMT
<1>10. Gives([i \in 1 .. Len(s) |-> s[order[i]]]) BY <1>0, <1>2, <1>5, <1>6, <1>9, FreshGives
<1>11. s = Items(b) BY <1>3 DEF Items, Shown
<1>12. order \in Injection(1 .. Len(s), 1 .. Len(s)) BY <1>6, <1>7
<1> QED BY <1>6, <1>9, <1>10, <1>11, <1>12

-----------------------------------------------------------------------------
(* The answers that share runs with their receiver.                          *)

\* A new box beside others over the heap as it is afterwards.
LEMMA SharedGives ==
  ASSUME Sound(heap', boxes'), NEW cs \in Seq(Box), Len(cs) = Len(boxes),
         NEW new \in Box, boxes' = Append(cs, new), Extended(heap, heap'),
         NEW s, NEW f, NEW k,
         RunsOf(heap', new).frontCount = f, RunsOf(heap', new).backCount = k,
         Holds(heap', new.front, f, new.value, k, s)
  PROVE  Gives(s)
<1>1. Len(boxes') = Len(boxes) + 1 /\ boxes'[Len(boxes) + 1] = new BY NewBox
<1>2. Len(boxes) + 1 \in 1 .. Len(boxes') BY <1>1, SMT
<1>3. heap' \in Heap /\ Fits(heap', new) BY <1>1, <1>2 DEF Sound
<1>4. Shown(heap', new) = s BY <1>3, ShowsIs
<1> QED BY <1>1, <1>4 DEF Gives

\* A window shows the stretch of its receiver it was opened on.
LEMMA WindowGives ==
  ASSUME Sound(heap, boxes), NEW b \in 1 .. Len(boxes), NEW start \in Nat, NEW end \in Nat,
         start <= RunsOf(heap, boxes[b]).frontCount,
         RunsOf(heap, boxes[b]).frontCount <= end,
         end <= Total(RunsOf(heap, boxes[b])),
         AnswerWindow(b, start, end)
  PROVE  Gives(SubSeq(Items(b), start + 1, end))
<1>0. /\ heap \in Heap /\ boxes \in Seq(Box) /\ Fits(heap, boxes[b]) /\ Extended(heap, heap)
      /\ Sound(heap', boxes')
  BY WindowKeeps, GrownSelf, GrownExtends DEF Sound
<1>1. PICK view : view = RunsOf(heap, boxes[b]) OBVIOUS
<1>2. PICK f \in Nat, k \in Nat : f = view.frontCount /\ k = view.backCount /\ Total(view) = f + k
  BY <1>0, <1>1, CountsAreNat
<1>3. PICK s : s = Shown(heap, boxes[b]) OBVIOUS
<1>4. Holds(heap, view.front, f, view.back, k, s) BY <1>0, <1>1, <1>2, <1>3, BoxShows, Zenon
<1>5. start <= f /\ f <= end /\ end <= f + k
  BY <1>1, <1>2, Zenon
<1>6. PICK m \in Nat, n \in Nat : m = f - start /\ n = end - f
  BY <1>5, SMT
<1>7. PICK part : part = SubSeq(s, start + 1, end) OBVIOUS
<1>8. /\ part \in Seq(Int) /\ Len(part) = m + n
      /\ \A i \in 1 .. m + n : part[i] = s[start + i]
  <2>1. s \in Seq(Int) /\ start <= end /\ end <= Len(s) BY <1>4, <1>5, SMT DEF Holds
  <2>2. end - start = m + n BY <1>5, <1>6, SMT
  <2> QED BY <1>7, <2>1, <2>2, SliceOf
<1>9. PICK front : front = IF m = 0 THEN undefined ELSE view.front OBVIOUS
<1>10. PICK count : count = IF m = 0 THEN undefined ELSE m OBVIOUS
<1>11. PICK new : new = [value |-> view.back, length |-> n, front |-> front, frontLen |-> count]
  OBVIOUS
<1>12. PICK stamped : stamped = [boxes EXCEPT ![b] = StampClosed(@, view)] OBVIOUS
<1>13. heap' = heap /\ boxes' = Append(stamped, new)
  BY <1>1, <1>2, <1>6, <1>9, <1>10, <1>11, <1>12, Zenon DEF AnswerWindow, AnswerBox
<1>14. stamped \in Seq(Box) /\ Len(stamped) = Len(boxes)
  <2>1. Stamped(heap, boxes, b, [boxes EXCEPT ![b] = StampClosed(@, RunsOf(heap, boxes[b]))])
    BY <1>0, StampSound, Zenon
  <2> QED BY <1>1, <1>12, <2>1 DEF Stamped, Sound
<1>15. /\ new.value = view.back /\ new.length = n /\ new.front = front /\ new.frontLen = count
  BY <1>11, SMT
<1>16. m # 0 => view.front # undefined
  <2>1. view.front = undefined => f = 0 BY <1>0, <1>1, <1>2, Runs
  <2> QED BY <1>6, <2>1, SMT
<1>17. new \in Box
  <2>1. view.back \in Nat /\ front \in Nat \cup {undefined} /\ count \in Nat \cup {undefined}
    <3>1. view.back \in 1 .. Len(heap) /\ (view.front # undefined => view.front \in 1 .. Len(heap))
      BY <1>0, <1>1, Runs
    <3>2. view.back \in Nat /\ (view.front # undefined => view.front \in Nat) BY <3>1, SMT
    <3> QED BY <1>9, <1>10, <1>16, <3>2
  <2> QED BY <1>11, <2>1, BoxFields
<1>18. RunsOf(heap, new).frontCount = m /\ RunsOf(heap, new).backCount = n
  <2>1. \A i \in Nat : i # undefined BY SMT DEF undefined
  <2>2. RunsOf(heap, new).backCount = n BY <1>15, <2>1, SMT DEF RunsOf
  <2>3. CASE m = 0
    <3>1. new.front = undefined BY <1>9, <1>15, <2>3
    <3>2. RunsOf(heap, new).frontCount = 0 BY <3>1, SMT DEF RunsOf
    <3> QED BY <2>2, <2>3, <3>2
  <2>4. CASE m # 0
    <3>1. new.front # undefined /\ new.frontLen = m /\ m # undefined
      BY <1>9, <1>10, <1>15, <1>16, <2>1, <2>4
    <3> QED BY <3>1, <2>2, Zenon DEF RunsOf
  <2> QED BY <2>2, <2>3, <2>4
<1>19. Holds(heap, new.front, m, new.value, n, part)
  <2>1. ASSUME NEW i \in 1 .. m PROVE part[i] = heap[new.front][m - i + 1]
    <3>1. new.front = view.front BY <1>9, <1>15, SMT
    <3>2. start + i \in 1 .. f /\ f - (start + i) + 1 = m - i + 1 /\ i \in 1 .. m + n
      BY <1>5, <1>6, SMT
    <3>3. s[start + i] = heap[view.front][f - (start + i) + 1] BY <1>4, <3>2 DEF Holds
    <3> QED BY <1>8, <3>1, <3>2, <3>3
  <2>2. ASSUME NEW i \in 1 .. n PROVE part[m + i] = heap[new.value][i]
    <3>1. m + i \in 1 .. m + n /\ start + (m + i) = f + i /\ i \in 1 .. k BY <1>5, <1>6, SMT
    <3>2. s[f + i] = heap[view.back][i] BY <1>4, <3>1 DEF Holds
    <3> QED BY <1>8, <1>15, <3>1, <3>2
  <2> QED BY <1>8, <2>1, <2>2 DEF Holds
<1>20. Gives(part) BY <1>0, <1>13, <1>14, <1>17, <1>18, <1>19, SharedGives, Zenon
<1> QED BY <1>3, <1>7, <1>20 DEF Items, Shown

\* Array `at` of g is the first count items of Array run of h, and then `items`.
Pushes(h, run, count, items, g, at) ==
  /\ g \in Heap /\ Extended(h, g) /\ at \in 1 .. Len(g)
  /\ \A i \in 1 .. count : g[at][i] = h[run][i]
  /\ \A i \in 1 .. Len(items) : g[at][count + i] = items[i]

\* A push leaves the items counted, and puts the new ones behind them.
LEMMA PushedItems ==
  ASSUME NEW h \in Heap, NEW run \in 1 .. Len(h), NEW count \in 0 .. Len(h[run]),
         NEW items \in Seq(Int), NEW r, r = Pushed(h, run, count, items)
  PROVE  Pushes(h, run, count, items, r.heap, r.run)
<1>0. h[run] \in Seq(Int) /\ Len(h) \in Nat /\ Len(items) \in Nat BY SMT DEF Heap
<1>1. PICK kept : kept = SubSeq(h[run], 1, count) OBVIOUS
<1>2. /\ kept \in Seq(Int) /\ Len(kept) = count
      /\ \A i \in 1 .. count : kept[i] = h[run][i]
  BY <1>0, <1>1, SubSeqWhole, SMT
<1>3. PICK longer : longer = kept \o items OBVIOUS
<1>4. /\ longer \in Seq(Int) /\ Len(longer) = count + Len(items)
      /\ \A i \in 1 .. count + Len(items) :
           longer[i] = IF i <= count THEN kept[i] ELSE items[i - count]
  <2>1. /\ longer \in Seq(Int) /\ Len(longer) = Len(kept) + Len(items)
        /\ \A i \in 1 .. Len(kept) + Len(items) :
             longer[i] = IF i <= Len(kept) THEN kept[i] ELSE items[i - Len(kept)]
    BY <1>2, <1>3, ConcatProperties, Zenon
  <2> QED BY <1>2, <2>1
<1>5. /\ \A i \in 1 .. count : longer[i] = h[run][i]
      /\ \A i \in 1 .. Len(items) : longer[count + i] = items[i]
  <2>1. ASSUME NEW i \in 1 .. count PROVE longer[i] = h[run][i]
    <3>1. i \in 1 .. count + Len(items) /\ i <= count BY <1>0, SMT
    <3> QED BY <1>2, <1>4, <3>1
  <2>2. ASSUME NEW i \in 1 .. Len(items) PROVE longer[count + i] = items[i]
    <3>1. /\ count + i \in 1 .. count + Len(items) /\ ~(count + i <= count)
          /\ count + i - count = i
      BY <1>0, SMT
    <3>2. PICK j : j = count + i OBVIOUS
    <3>3. j \in 1 .. count + Len(items) /\ ~(j <= count) /\ j - count = i BY <3>1, <3>2
    <3>4. longer[j] = items[j - count] BY <1>4, <3>3, Zenon
    <3> QED BY <3>2, <3>3, <3>4
  <2> QED BY <2>1, <2>2
<1>6. CASE count = Len(h[run])
  <2>1. PICK g : g = [h EXCEPT ![run] = longer] OBVIOUS
  <2>2. r = [heap |-> g, run |-> run]
    <3>1. kept = h[run] BY <1>0, <1>1, <1>6, SubSeqFull
    <3> QED BY <1>3, <1>6, <2>1, <3>1, Zenon DEF Pushed
  <2>3. /\ g \in Heap /\ Len(g) = Len(h) /\ g[run] = longer
        /\ \A a \in 1 .. Len(h) : a # run => g[a] = h[a]
    BY <1>4, <2>1, ExceptSeq, SMT DEF Heap
  <2>4. ASSUME NEW a \in 1 .. Len(h)
        PROVE  Len(h[a]) <= Len(g[a]) /\ \A i \in 1 .. Len(h[a]) : g[a][i] = h[a][i]
    <3>1. h[a] \in Seq(Int) BY SMT DEF Heap
    <3>2. CASE a = run
      <4>1. Len(h[run]) <= Len(longer) BY <1>0, <1>4, <1>6, SMT
      <4> QED BY <1>5, <1>6, <2>3, <3>2, <4>1, Zenon
    <3>3. CASE a # run
      <4>1. Len(h[a]) <= Len(h[a]) BY <3>1, SMT
      <4> QED BY <2>3, <3>3, <4>1
    <3> QED BY <3>2, <3>3
  <2>5. Extended(h, g) BY <1>0, <2>3, <2>4, SMT DEF Extended
  <2>6. Pushes(h, run, count, items, g, run) BY <1>5, <2>3, <2>5 DEF Pushes
  <2> QED BY <2>2, <2>6
<1>7. CASE count # Len(h[run])
  <2>1. PICK g : g = Append(h, longer) OBVIOUS
  <2>2. r = [heap |-> g, run |-> Len(h) + 1]
    BY <1>1, <1>3, <1>7, <2>1, Zenon DEF Pushed
  <2>3. g \in Heap /\ Grown(h, g) /\ g[Len(h) + 1] = longer BY <1>4, <2>1, HeapAppend
  <2>4. Extended(h, g) BY <2>3, GrownExtends
  <2>5. Len(g) = Len(h) + 1 /\ Len(h) + 1 \in 1 .. Len(g) BY <1>0, <1>4, <2>1, HeapAppend, SMT
  <2>6. Pushes(h, run, count, items, g, Len(h) + 1) BY <1>5, <2>3, <2>4, <2>5 DEF Pushes
  <2> QED BY <2>2, <2>6
<1> QED BY <1>6, <1>7

\* The view of a box whose counts are both written down, or that has no front.
LEMMA CountsOf ==
  ASSUME NEW h, NEW box, NEW n \in Nat, NEW m \in Nat, box.length = n,
         box.front = undefined => m = 0,
         box.front # undefined => box.frontLen = m
  PROVE  RunsOf(h, box).frontCount = m /\ RunsOf(h, box).backCount = n
<1>1. n # undefined /\ m # undefined BY SMT DEF undefined
<1>2. RunsOf(h, box).backCount = n BY <1>1, Zenon DEF RunsOf
<1>3. CASE box.front = undefined
  <2>1. RunsOf(h, box).frontCount = 0 BY <1>3, SMT DEF RunsOf
  <2> QED BY <1>2, <1>3, <2>1
<1>4. CASE box.front # undefined BY <1>1, <1>2, <1>4, Zenon DEF RunsOf
<1> QED BY <1>3, <1>4

\* prepend answers with the item before the others.
LEMMA PrependGives ==
  ASSUME Sound(heap, boxes), NEW b \in 1 .. Len(boxes), NEW item \in Int, Prepend(b, item)
  PROVE  Gives(<<item>> \o Items(b))
<1>0. /\ heap \in Heap /\ Len(heap) \in Nat /\ boxes \in Seq(Box) /\ Fits(heap, boxes[b])
      /\ Sound(heap', boxes')
  BY PrependKeeps, SMT DEF Sound, Heap
<1>1. PICK view : view = RunsOf(heap, boxes[b]) OBVIOUS
<1>2. PICK f \in Nat, k \in Nat : f = view.frontCount /\ k = view.backCount
  BY <1>0, <1>1, CountsAreNat
<1>3. PICK s : s = Shown(heap, boxes[b]) OBVIOUS
<1>4. Holds(heap, view.front, f, view.back, k, s) BY <1>0, <1>1, <1>2, <1>3, BoxShows, Zenon
<1>5. /\ view.back \in 1 .. Len(heap) /\ heap[view.back] \in Seq(Int)
      /\ k \in 0 .. Len(heap[view.back])
      /\ view.front = undefined => f = 0
      /\ view.front # undefined =>
           view.front \in 1 .. Len(heap) /\ f \in 0 .. Len(heap[view.front])
  BY <1>0, <1>1, <1>2, Runs
<1>6. PICK one : one = <<item>> OBVIOUS
<1>7. one \in Seq(Int) /\ Len(one) = 1 /\ one[1] = item BY <1>6, SMT
<1>8. PICK push : push = IF view.front = undefined
                         THEN [heap |-> Append(heap, one), run |-> Len(heap) + 1]
                         ELSE Pushed(heap, view.front, f, one)
  OBVIOUS
<1>9. PICK new : new = [value |-> view.back, length |-> k, front |-> push.run, frontLen |-> f + 1]
  OBVIOUS
<1>10. PICK stamped : stamped = [boxes EXCEPT ![b].length = k] OBVIOUS
<1>11. heap' = push.heap /\ boxes' = Append(stamped, new)
  BY <1>1, <1>2, <1>6, <1>8, <1>9, <1>10, Zenon DEF Prepend, AnswerBox
<1>12. stamped \in Seq(Box) /\ Len(stamped) = Len(boxes)
  <2>1. Stamped(heap, boxes, b, [boxes EXCEPT ![b].length = RunsOf(heap, boxes[b]).backCount])
    BY <1>0, StampSound, Zenon
  <2> QED BY <1>1, <1>2, <1>10, <2>1 DEF Stamped, Sound
<1>13. /\ heap' \in Heap /\ Extended(heap, heap') /\ push.run \in Nat
       /\ \A i \in 1 .. f : heap'[push.run][i] = heap[view.front][i]
       /\ heap'[push.run][f + 1] = item
  <2>1. CASE view.front = undefined
    <3>1. heap' = Append(heap, one) /\ push.run = Len(heap) + 1 /\ f = 0
      BY <1>5, <1>8, <1>11, <2>1, SMT
    <3>2. heap' \in Heap /\ Grown(heap, heap') /\ heap'[Len(heap) + 1] = one
      BY <1>0, <1>7, <3>1, HeapAppend
    <3>3. Extended(heap, heap') BY <1>0, <3>2, GrownExtends
    <3>4. f + 1 = 1 /\ 1 .. f = {} /\ Len(heap) + 1 \in Nat BY <1>0, <3>1, SMT
    <3> QED BY <1>7, <3>1, <3>2, <3>3, <3>4
  <2>2. CASE view.front # undefined
    <3>1. push = Pushed(heap, view.front, f, one) BY <1>8, <2>2
    <3>2. view.front \in 1 .. Len(heap) /\ f \in 0 .. Len(heap[view.front]) BY <1>5, <2>2
    <3>3. Pushes(heap, view.front, f, one, heap', push.run)
      BY <1>0, <1>7, <1>11, <3>1, <3>2, PushedItems, Zenon
    <3>4. 1 \in 1 .. Len(one) BY <1>7, SMT
    <3>5. heap'[push.run][f + 1] = one[1] BY <3>3, <3>4, Zenon DEF Pushes
    <3>6. push.run \in Nat
      <4>1. push.run \in 1 .. Len(heap') BY <3>3 DEF Pushes
      <4> QED BY <4>1, SMT
    <3> QED BY <1>7, <3>3, <3>5, <3>6 DEF Pushes
  <2> QED BY <2>1, <2>2
<1>14. /\ new \in Box /\ new.value = view.back /\ new.length = k
       /\ new.front = push.run /\ new.frontLen = f + 1
  <2>1. view.back \in Nat /\ f + 1 \in Nat BY <1>5, SMT
  <2> QED BY <1>9, <1>13, <2>1, BoxFields
<1>15. RunsOf(heap', new).frontCount = f + 1 /\ RunsOf(heap', new).backCount = k
  <2>1. f + 1 \in Nat /\ new.front # undefined BY <1>13, <1>14, SMT DEF undefined
  <2> QED BY <1>14, <2>1, CountsOf
<1>16. PICK list : list = one \o s OBVIOUS
<1>17. /\ list \in Seq(Int) /\ Len(list) = f + 1 + k /\ list[1] = item
       /\ \A i \in 1 .. f + k : list[i + 1] = s[i]
  <2>1. s \in Seq(Int) /\ Len(s) = f + k BY <1>4 DEF Holds
  <2>2. /\ list \in Seq(Int) /\ Len(list) = Len(one) + Len(s)
        /\ \A i \in 1 .. Len(one) + Len(s) :
             list[i] = IF i <= Len(one) THEN one[i] ELSE s[i - Len(one)]
    BY <1>7, <1>16, <2>1, ConcatProperties, Zenon
  <2>3. /\ Len(list) = 1 + (f + k)
        /\ \A i \in 1 .. 1 + (f + k) : list[i] = IF i <= 1 THEN one[i] ELSE s[i - 1]
    BY <1>7, <2>1, <2>2
  <2>4. list[1] = one[1]
    <3>1. 1 \in 1 .. 1 + (f + k) /\ 1 <= 1 BY SMT
    <3> QED BY <2>3, <3>1
  <2>5. ASSUME NEW i \in 1 .. f + k PROVE list[i + 1] = s[i]
    <3>1. PICK j : j = i + 1 OBVIOUS
    <3>2. j \in 1 .. 1 + (f + k) /\ ~(j <= 1) /\ j - 1 = i BY <3>1, SMT
    <3>3. list[j] = s[j - 1] BY <2>3, <3>2, Zenon
    <3> QED BY <3>1, <3>2, <3>3
  <2>6. Len(list) = f + 1 + k BY <2>3, SMT
  <2> QED BY <1>7, <2>2, <2>4, <2>5, <2>6
<1>18. Holds(heap', new.front, f + 1, new.value, k, list)
  <2>1. ASSUME NEW i \in 1 .. f + 1 PROVE list[i] = heap'[push.run][f + 1 - i + 1]
    <3>1. CASE i = 1
      <4>1. f + 1 - i + 1 = f + 1 BY <3>1, SMT
      <4> QED BY <1>13, <1>17, <3>1, <4>1
    <3>2. CASE i # 1
      <4>1. PICK j \in 1 .. f : i = j + 1
        <5>1. i - 1 \in 1 .. f /\ i = (i - 1) + 1 BY <3>2, SMT
        <5> QED BY <5>1
      <4>2. j \in 1 .. f + k /\ f - j + 1 \in 1 .. f /\ f + 1 - i + 1 = f - j + 1
        BY <4>1, SMT
      <4>3. s[j] = heap[view.front][f - j + 1] BY <1>4 DEF Holds
      <4> QED BY <1>13, <1>17, <4>1, <4>2, <4>3
    <3> QED BY <3>1, <3>2
  <2>2. ASSUME NEW i \in 1 .. k PROVE list[f + 1 + i] = heap'[view.back][i]
    <3>1. f + i \in 1 .. f + k /\ f + 1 + i = f + i + 1 /\ i \in 1 .. Len(heap[view.back])
      BY <1>5, SMT
    <3>2. s[f + i] = heap[view.back][i] BY <1>4 DEF Holds
    <3>3. heap'[view.back][i] = heap[view.back][i] BY <1>5, <1>13, <3>1 DEF Extended
    <3> QED BY <1>17, <3>1, <3>2, <3>3
  <2>3. f + 1 \in Nat /\ k \in Nat BY SMT
  <2>4. Holds(heap', push.run, f + 1, view.back, k, list)
    <3>1. PICK n : n = f + 1 OBVIOUS
    <3>2. /\ n \in Nat /\ list \in Seq(Int) /\ Len(list) = n + k
          /\ \A i \in 1 .. n : list[i] = heap'[push.run][n - i + 1]
          /\ \A i \in 1 .. k : list[n + i] = heap'[view.back][i]
      BY <1>17, <2>1, <2>2, <2>3, <3>1
    <3>3. Holds(heap', push.run, n, view.back, k, list) BY <2>3, <3>2 DEF Holds
    <3> QED BY <3>1, <3>3
  <2> QED BY <1>14, <2>4
<1>19. Gives(list) BY <1>0, <1>11, <1>12, <1>13, <1>14, <1>15, <1>18, SharedGives, Zenon
<1> QED BY <1>3, <1>6, <1>16, <1>19 DEF Items, Shown

\* The items of two Lists one after the other.
LEMMA Joined ==
  ASSUME NEW s \in Seq(Int), NEW t \in Seq(Int)
  PROVE  /\ s \o t \in Seq(Int) /\ Len(s \o t) = Len(s) + Len(t)
         /\ \A i \in 1 .. Len(s) : (s \o t)[i] = s[i]
         /\ \A i \in 1 .. Len(t) : (s \o t)[Len(s) + i] = t[i]
<1>1. PICK list : list = s \o t OBVIOUS
<1>2. /\ list \in Seq(Int) /\ Len(list) = Len(s) + Len(t)
      /\ \A i \in 1 .. Len(s) + Len(t) :
           list[i] = IF i <= Len(s) THEN s[i] ELSE t[i - Len(s)]
  BY <1>1, ConcatProperties, Zenon
<1>3. Len(s) \in Nat /\ Len(t) \in Nat OBVIOUS
<1>4. ASSUME NEW i \in 1 .. Len(s) PROVE list[i] = s[i]
  <2>1. i \in 1 .. Len(s) + Len(t) /\ i <= Len(s) BY <1>3, SMT
  <2> QED BY <1>2, <2>1
<1>5. ASSUME NEW i \in 1 .. Len(t) PROVE list[Len(s) + i] = t[i]
  <2>1. PICK j : j = Len(s) + i OBVIOUS
  <2>2. j \in 1 .. Len(s) + Len(t) /\ ~(j <= Len(s)) /\ j - Len(s) = i BY <1>3, <2>1, SMT
  <2>3. list[j] = t[j - Len(s)] BY <1>2, <2>2, Zenon
  <2> QED BY <2>1, <2>2, <2>3
<1> QED BY <1>1, <1>2, <1>4, <1>5

\* Appending answers with the new items behind the receiver's.
LEMMA AppendedGives ==
  ASSUME Sound(heap, boxes), NEW b \in 1 .. Len(boxes), NEW other \in 1 .. Len(boxes),
         NEW g \in Heap, Grown(heap, g), NEW kept, Stands(heap, boxes[other], g, kept),
         RunsOf(heap, boxes[other]).backCount = Len(heap[RunsOf(heap, boxes[other]).back]) =>
           kept.value = boxes[other].value /\ kept.length = boxes[other].length,
         RunsOf(g, kept).frontCount = RunsOf(heap, boxes[other]).frontCount,
         NEW others, others = [boxes EXCEPT ![other] = kept],
         NEW items \in Seq(Int), AnswerAppended(g, others, b, items)
  PROVE  Gives(Items(b) \o items)
<1>0. heap \in Heap /\ Fits(heap, boxes[b]) /\ boxes \in Seq(Box) /\ Len(g) \in Nat
      /\ kept \in Box /\ Fits(g, kept) /\ others \in Seq(Box) /\ Len(others) = Len(boxes)
  <2>1. kept \in Box /\ Fits(g, kept) BY DEF Stands, Fits
  <2>2. boxes \in Seq(Box) BY DEF Sound
  <2>3. others \in Seq(Box) /\ Len(others) = Len(boxes) BY <2>1, <2>2, ExceptSeq
  <2> QED BY <2>1, <2>2, <2>3, SMT DEF Sound, Heap
<1>1. Sound(heap', boxes') BY AppendedKeeps, Zenon
<1>2. PICK view : view = RunsOf(heap, boxes[b]) OBVIOUS
<1>3. PICK f \in Nat, k \in Nat : f = view.frontCount /\ k = view.backCount
  BY <1>0, <1>2, CountsAreNat
<1>4. PICK s : s = Shown(heap, boxes[b]) OBVIOUS
<1>5. Holds(heap, view.front, f, view.back, k, s) BY <1>0, <1>2, <1>3, <1>4, BoxShows, Zenon
<1>6. PICK mine : mine = others[b] OBVIOUS
<1>7. /\ mine \in Box /\ Fits(g, mine) /\ Shown(g, mine) = s /\ RunsOf(g, mine).frontCount = f
  <2>1. CASE other = b
    <3>1. mine = kept BY <1>0, <1>6, <2>1, SMT
    <3> QED BY <1>0, <1>2, <1>3, <1>4, <2>1, <3>1 DEF Stands
  <2>2. CASE other # b
    <3>1. mine = boxes[b] BY <1>0, <1>6, <2>2, SMT
    <3>2. Fits(g, boxes[b]) /\ Shown(g, boxes[b]) = s
      BY <1>0, <1>4, BoxKeptGrown DEF Stands
    <3>3. RunsOf(g, boxes[b]).frontCount = RunsOf(heap, boxes[b]).frontCount
      <4>1. boxes[b].front # undefined => boxes[b].frontLen # undefined
        BY <1>0, SMT DEF Fits, undefined
      <4> QED BY <4>1, Zenon DEF RunsOf
    <3>4. boxes[b] \in Box BY <1>0 DEF Fits
    <3> QED BY <1>2, <1>3, <3>1, <3>2, <3>3, <3>4
  <2> QED BY <2>1, <2>2
<1>8. PICK now : now = RunsOf(g, mine) OBVIOUS
<1>9. /\ now.front = mine.front /\ now.frontCount = f
      /\ mine.front = undefined => f = 0
      /\ mine.front # undefined =>
           mine.front \in 1 .. Len(g) /\ f \in 0 .. Len(g[mine.front]) /\ mine.frontLen = f
      /\ now.backCount \in Nat
  <2>1. now.frontCount = f BY <1>7, <1>8
  <2>2. /\ now.front = mine.front
        /\ now.front = undefined => now.frontCount = 0
        /\ now.front # undefined =>
             /\ now.front \in 1 .. Len(g)
             /\ now.frontCount = mine.frontLen
             /\ now.frontCount \in 0 .. Len(g[now.front])
    BY <1>7, <1>8, Runs
  <2>3. now.backCount \in Nat BY <1>7, <1>8, CountsAreNat
  <2> QED BY <2>1, <2>2, <2>3
<1>10. \A i \in 1 .. f : s[i] = g[mine.front][f - i + 1]
  <2>1. Holds(g, mine.front, f, now.back, now.backCount, s)
    BY <1>7, <1>8, <1>9, BoxShows, Zenon
  <2> QED BY <2>1 DEF Holds
<1>11. /\ view.back \in 1 .. Len(g) /\ g[view.back] = heap[view.back] /\ k \in 0 .. Len(g[view.back])
  <2>1. view.back \in 1 .. Len(heap) /\ k \in 0 .. Len(heap[view.back])
    BY <1>0, <1>2, <1>3, Runs
  <2>2. view.back \in 1 .. Len(g) /\ g[view.back] = heap[view.back]
    BY <1>0, <2>1, SMTT(30) DEF Grown, Heap
  <2> QED BY <2>1, <2>2
<1>12. PICK push : push = Pushed(g, view.back, k, items) OBVIOUS
<1>13. PICK n \in Nat : n = k + Len(items) BY SMT
<1>14. PICK receivers : receivers = IF push.run = view.back
                                    THEN [others EXCEPT ![b].length = k]
                                    ELSE others
  OBVIOUS
<1>15. PICK new : new = [mine EXCEPT !.value = push.run, !.length = n] OBVIOUS
<1>16. heap' = push.heap /\ boxes' = Append(receivers, new)
  <2> DEFINE p == Pushed(g, view.back, view.backCount, items)
  <2>0. /\ heap' = p.heap
        /\ boxes' = Append(IF p.run = view.back
                           THEN [others EXCEPT ![b].length = view.backCount]
                           ELSE others,
                           [others[b] EXCEPT !.value = p.run,
                                             !.length = view.backCount + Len(items)])
    <3>1. RunsOf(g, boxes[b]).back = view.back /\ RunsOf(g, boxes[b]).backCount = view.backCount
      <4>1. view.back = boxes[b].value BY <1>0, <1>2, Runs
      <4> QED BY <1>2, <1>11, <4>1, SMT DEF RunsOf
    <3> QED BY <1>2, <3>1 DEF AnswerAppended, AnswerBox
  <2>1. view.backCount = k /\ p = push BY <1>3, <1>12
  <2> HIDE DEF p
  <2> QED BY <1>6, <1>13, <1>14, <1>15, <2>0, <2>1
<1>17. Pushes(g, view.back, k, items, heap', push.run)
  BY <1>11, <1>12, <1>16, PushedItems, Zenon
<1>18. Extended(heap, heap')
  <2>1. Extended(heap, g) BY <1>0, GrownExtends
  <2>2. heap' \in Heap /\ Extended(g, heap') BY <1>17 DEF Pushes
  <2>3. Len(heap) <= Len(heap')
    BY <1>0, <2>1, <2>2, SMT DEF Extended, Heap
  <2>4. ASSUME NEW a \in 1 .. Len(heap)
        PROVE  Len(heap[a]) <= Len(heap'[a]) /\ \A i \in 1 .. Len(heap[a]) : heap'[a][i] = heap[a][i]
    <3>1. a \in 1 .. Len(g) /\ g[a] = heap[a] BY <1>0, SMT DEF Grown, Heap
    <3> QED BY <2>2, <3>1 DEF Extended
  <2> QED BY <2>3, <2>4 DEF Extended
<1>19. receivers \in Seq(Box) /\ Len(receivers) = Len(boxes)
  <2>1. [others EXCEPT ![b].length = k] = [others EXCEPT ![b] = [mine EXCEPT !.length = k]]
    BY <1>0, <1>6, SMT
  <2>2. [mine EXCEPT !.length = k] \in Box BY <1>7, Zenon DEF Box
  <2>3. b \in 1 .. Len(others) BY <1>0
  <2>4. [others EXCEPT ![b] = [mine EXCEPT !.length = k]] \in Seq(Box)
        /\ Len([others EXCEPT ![b] = [mine EXCEPT !.length = k]]) = Len(others)
    BY <1>0, <2>2, <2>3, ExceptSeq
  <2> QED BY <1>0, <1>14, <2>1, <2>4
<1>20. /\ new \in Box /\ new.value = push.run /\ new.length = n
       /\ new.front = mine.front /\ new.frontLen = mine.frontLen
  <2>1. push.run \in Nat
    <3>1. push.run \in 1 .. Len(heap') BY <1>17 DEF Pushes
    <3> QED BY <3>1, SMT
  <2>2. new \in Box BY <1>7, <1>15, <2>1, Zenon DEF Box
  <2> QED BY <1>7, <1>15, <2>2, SMT DEF Box
<1>21. RunsOf(heap', new).frontCount = f /\ RunsOf(heap', new).backCount = n
  BY <1>9, <1>20, CountsOf
<1>22. PICK list : list = s \o items OBVIOUS
<1>23. /\ list \in Seq(Int) /\ Len(list) = f + k + Len(items)
       /\ \A i \in 1 .. f + k : list[i] = s[i]
       /\ \A i \in 1 .. Len(items) : list[f + k + i] = items[i]
  <2>1. s \in Seq(Int) /\ Len(s) = f + k BY <1>5 DEF Holds
  <2>2. /\ list \in Seq(Int) /\ Len(list) = Len(s) + Len(items)
        /\ \A i \in 1 .. Len(s) : list[i] = s[i]
        /\ \A i \in 1 .. Len(items) : list[Len(s) + i] = items[i]
    BY <1>22, <2>1, Joined, Zenon
  <2> QED BY <2>1, <2>2
<1>24. Holds(heap', mine.front, f, push.run, n, list)
  <2>1. ASSUME NEW i \in 1 .. f PROVE list[i] = heap'[mine.front][f - i + 1]
    <3>1. mine.front \in 1 .. Len(g) /\ f \in 0 .. Len(g[mine.front])
      <4>1. f # 0 BY SMT
      <4> QED BY <1>9, <4>1
    <3>2. f - i + 1 \in 1 .. Len(g[mine.front]) /\ i \in 1 .. f + k BY <3>1, SMT
    <3>3. heap'[mine.front][f - i + 1] = g[mine.front][f - i + 1]
      BY <1>17, <3>1, <3>2 DEF Pushes, Extended
    <3> QED BY <1>10, <1>23, <3>2, <3>3
  <2>2. ASSUME NEW i \in 1 .. n PROVE list[f + i] = heap'[push.run][i]
    <3>1. CASE i <= k
      <4>1. i \in 1 .. k /\ f + i \in 1 .. f + k BY <3>1, SMT
      <4>2. heap'[push.run][i] = g[view.back][i] BY <1>17, <4>1 DEF Pushes
      <4>3. s[f + i] = heap[view.back][i] BY <1>5, <4>1 DEF Holds
      <4> QED BY <1>11, <1>23, <4>1, <4>2, <4>3
    <3>2. CASE ~(i <= k)
      <4>1. PICK j \in 1 .. Len(items) : i = k + j
        <5>1. i - k \in 1 .. Len(items) /\ i = k + (i - k) BY <1>13, <3>2, SMT
        <5> QED BY <5>1
      <4>2. heap'[push.run][k + j] = items[j] BY <1>17 DEF Pushes
      <4>3. list[f + k + j] = items[j] BY <1>23
      <4>4. f + i = f + k + j BY <4>1, SMT
      <4> QED BY <4>1, <4>2, <4>3, <4>4
    <3> QED BY <3>1, <3>2
  <2>3. Len(list) = f + n BY <1>13, <1>23, SMT
  <2> QED BY <1>23, <2>1, <2>2, <2>3, Zenon DEF Holds
<1>25. Gives(list)
  <2>1. Holds(heap', new.front, f, new.value, n, list) BY <1>20, <1>24
  <2> QED BY <1>1, <1>16, <1>18, <1>19, <1>20, <1>21, <2>1, SharedGives, Zenon
<1> QED BY <1>4, <1>22, <1>25 DEF Items, Shown

\* append answers with the item behind the others.
LEMMA AppendItemGives ==
  ASSUME Sound(heap, boxes), NEW b \in 1 .. Len(boxes), NEW item \in Int, AppendItem(b, item)
  PROVE  Gives(Items(b) \o <<item>>)
<1>0. heap \in Heap /\ boxes \in Seq(Box) /\ Fits(heap, boxes[b]) BY DEF Sound
<1>1. PICK items : items = <<item>> OBVIOUS
<1>2. items \in Seq(Int) BY <1>1, SMT
<1>3. AnswerAppended(heap, boxes, b, items) BY <1>1 DEF AppendItem
<1>4. boxes = [boxes EXCEPT ![b] = boxes[b]] BY <1>0, SMT
<1>5. Grown(heap, heap) /\ Stands(heap, boxes[b], heap, boxes[b])
  BY <1>0, GrownSelf, BoxKeptGrown
<1>6. Gives(Items(b) \o items) BY <1>0, <1>2, <1>3, <1>4, <1>5, AppendedGives, Zenon
<1> QED BY <1>1, <1>6

\* Trimming a run keeps the counts of the front.
LEMMA TrimmedCounts ==
  ASSUME NEW h \in Heap, NEW box, Fits(h, box), NEW r, r = Trimmed(h, box)
  PROVE  RunsOf(r.heap, r.box).frontCount = RunsOf(h, box).frontCount
<1>1. PICK back : back = TrimBack(h, box) OBVIOUS
<1>2. back.heap \in Heap /\ Fits(back.heap, back.box) BY <1>1, TrimBackStands DEF Stands
<1>3. box \in Box /\ back.box \in Box BY <1>2 DEF Fits
<1>4. \A c, g : Fits(g, c) /\ g \in Heap =>
        /\ c.front = undefined => RunsOf(g, c).frontCount = 0
        /\ c.front # undefined => RunsOf(g, c).frontCount = c.frontLen
  BY Runs
<1>5. back.box.front = box.front /\ back.box.frontLen = box.frontLen
  <2>1. PICK n, m : n = Len(h) + 1 /\ m = RunsOf(h, box).backCount OBVIOUS
  <2>2. back.box = box \/ back.box = [box EXCEPT !.value = n, !.length = m]
    BY <1>1, <2>1, SMT DEF TrimBack
  <2>3. PICK e : e = [box EXCEPT !.value = n, !.length = m] OBVIOUS
  <2>4. e.front = box.front /\ e.frontLen = box.frontLen BY <1>3, <2>3, SMT DEF Box
  <2> QED BY <2>2, <2>3, <2>4
<1>6. RunsOf(back.heap, back.box).frontCount = RunsOf(h, box).frontCount
  BY <1>2, <1>4, <1>5
<1>7. r = TrimFront(back.heap, back.box) BY <1>1, SMT DEF Trimmed
<1>8. r.heap \in Heap /\ Fits(r.heap, r.box) BY <1>2, <1>7, TrimFrontStands DEF Stands
<1>9. PICK view : view = RunsOf(back.heap, back.box) OBVIOUS
<1>10. view.front = back.box.front BY <1>9, SMT DEF RunsOf
<1>11. CASE view.front = undefined \/ view.frontCount = Len(back.heap[view.front])
  <2>1. r = [heap |-> back.heap, box |-> back.box] BY <1>7, <1>9, <1>11, Zenon DEF TrimFront
  <2> QED BY <1>6, <2>1
<1>12. CASE ~(view.front = undefined \/ view.frontCount = Len(back.heap[view.front]))
  <2>1. PICK g, new : g = Append(back.heap, SubSeq(back.heap[view.front], 1, view.frontCount))
                      /\ new = [back.box EXCEPT !.front = Len(back.heap) + 1,
                                                !.frontLen = view.frontCount]
    OBVIOUS
  <2>2. r = [heap |-> g, box |-> new] BY <1>7, <1>9, <1>12, <2>1, Zenon DEF TrimFront
  <2>3. new.front = Len(back.heap) + 1 /\ new.frontLen = view.frontCount
    BY <1>3, <2>1, SMT DEF Box
  <2>4. Len(back.heap) + 1 # undefined BY <1>2, SMT DEF Heap, undefined
  <2>5. Fits(g, new) /\ g \in Heap BY <1>8, <2>2
  <2>6. RunsOf(g, new).frontCount = view.frontCount BY <1>4, <2>3, <2>4, <2>5
  <2> QED BY <1>6, <1>9, <2>2, <2>6
<1> QED BY <1>11, <1>12

\* append(contentsOf:) answers with both Lists, the receiver itself as the other too.
LEMMA AppendContentsGives ==
  ASSUME Sound(heap, boxes), NEW b \in 1 .. Len(boxes), NEW other \in 1 .. Len(boxes),
         AppendContents(b, other)
  PROVE  Gives(Items(b) \o Items(other))
<1>0. heap \in Heap /\ boxes \in Seq(Box) /\ Fits(heap, boxes[other]) BY DEF Sound
<1>1. PICK read : read = Trimmed(heap, boxes[other]) OBVIOUS
<1>2. read.heap \in Heap /\ Grown(heap, read.heap) /\ Stands(heap, boxes[other], read.heap, read.box)
  BY <1>0, <1>1, TrimmedStands
<1>3. RunsOf(heap, boxes[other]).backCount = Len(heap[RunsOf(heap, boxes[other]).back]) =>
        read.box.value = boxes[other].value /\ read.box.length = boxes[other].length
  BY <1>0, <1>1, TrimmedTip
<1>4. RunsOf(read.heap, read.box).frontCount = RunsOf(heap, boxes[other]).frontCount
  BY <1>0, <1>1, TrimmedCounts
<1>5. PICK items : items = Shown(read.heap, read.box) OBVIOUS
<1>6. items \in Seq(Int)
  <2>1. Fits(read.heap, read.box) BY <1>2 DEF Stands
  <2> QED BY <1>2, <1>5, <2>1, ShownIsSeq
<1>7. PICK others : others = [boxes EXCEPT ![other] = read.box] OBVIOUS
<1>8. AnswerAppended(read.heap, others, b, items)
  BY <1>1, <1>5, <1>7 DEF AppendContents, Shown
<1>9. Gives(Items(b) \o items)
  BY <1>2, <1>3, <1>4, <1>6, <1>7, <1>8, AppendedGives, Zenon
<1>10. items = Items(other) BY <1>2, <1>5 DEF Stands, Shown, Items
<1> QED BY <1>9, <1>10

-----------------------------------------------------------------------------
(* The answers made of parts of their receiver.                              *)

\* The items of s from position from up to position to, as the natives count.
Part(s, from, to) == SubSeq(s, from + 1, to)

\* A part is a List.
LEMMA PartTyped ==
  ASSUME NEW s \in Seq(Int), NEW a \in Nat, NEW z \in Nat, a <= z, z <= Len(s)
  PROVE  Part(s, a, z) \in Seq(Int)
BY SliceOf DEF Part

\* The part up to m and the part from m are one part.
Meet(s, a, m, z) == Part(s, a, m) \o Part(s, m, z) = Part(s, a, z)

LEMMA PartsMeet ==
  ASSUME NEW s \in Seq(Int), NEW a \in Nat, NEW m \in Nat, NEW z \in Nat,
         a <= m, m <= z, z <= Len(s)
  PROVE  Meet(s, a, m, z)
<1>1. PICK from \in Int : from = a + 1 BY SMT
<1>2. from \in 1 .. Len(s) + 1 /\ m \in from - 1 .. Len(s) /\ z \in m .. Len(s)
  BY <1>1, SMT
<1>3. SubSeq(s, from, m) \o SubSeq(s, m + 1, z) = SubSeq(s, from, z)
  BY <1>2, ConcatAdjacentSubSeq
<1> QED BY <1>1, <1>3 DEF Part, Meet

\* Joining is associative.
LEMMA Associates ==
  ASSUME NEW s \in Seq(Int), NEW t \in Seq(Int), NEW u \in Seq(Int)
  PROVE  (s \o t) \o u = s \o (t \o u)
BY ConcatAssociative, SMTT(30)

LEMMA PartEnds ==
  ASSUME NEW s \in Seq(Int)
  PROVE  /\ Part(s, 0, Len(s)) = s
         /\ \A a \in Nat : Part(s, a, a) = <<>>
<1>1. Part(s, 0, Len(s)) = s
  <2>1. 0 + 1 = 1 BY SMT
  <2> QED BY <2>1, SubSeqFull DEF Part
<1>2. ASSUME NEW a \in Nat PROVE Part(s, a, a) = <<>>
  <2>1. PICK m \in Int : m = a + 1 BY SMT
  <2>2. a \in Int /\ a < m BY <2>1, SMT
  <2> QED BY <2>1, <2>2, SubSeqEmpty DEF Part
<1> QED BY <1>1, <1>2

\* Joining nothing changes nothing.
LEMMA Empty ==
  ASSUME NEW s \in Seq(Int)
  PROVE  s \o <<>> = s /\ <<>> \o s = s
BY ConcatEmptySeq

\* s is read through view, whose front run counts f items and whose back run k:
\* what is read of either run is a part of s.
Reads(h, view, f, k, s) ==
  /\ f \in Nat /\ k \in Nat /\ s \in Seq(Int) /\ Len(s) = f + k
  /\ \A from, to \in Nat : from <= to /\ to <= f =>
       FrontItems(h, view, from, to) = Part(s, from, to)
  /\ \A from, to \in Nat : from <= to /\ to <= k =>
       BackItems(h, view, from, to) = Part(s, f + from, f + to)

\* Both loops of the natives read parts of what the box shows.
LEMMA RunParts ==
  ASSUME NEW h \in Heap, NEW box, Fits(h, box), NEW s, s = Shown(h, box),
         NEW view, view = RunsOf(h, box), NEW f, NEW k, f = view.frontCount, k = view.backCount
  PROVE  Reads(h, view, f, k, s)
<1>1. f \in Nat /\ k \in Nat BY CountsAreNat
<1>2. s \in Seq(Int) /\ Len(s) = f + k
  <2>1. Holds(h, view.front, f, view.back, k, s) BY BoxShows, Zenon
  <2> QED BY <2>1 DEF Holds
<1>3. ASSUME NEW from \in Nat, NEW to \in Nat, from <= to, to <= f
      PROVE  FrontItems(h, view, from, to) = Part(s, from, to)
  <2>1. to <= RunsOf(h, box).frontCount BY <1>3
  <2>2. FrontItems(h, RunsOf(h, box), from, to) = SubSeq(Shown(h, box), from + 1, to)
    BY <1>3, <2>1, FrontItemsAre
  <2> QED BY <2>2 DEF Part
<1>4. ASSUME NEW from \in Nat, NEW to \in Nat, from <= to, to <= k
      PROVE  BackItems(h, view, from, to) = Part(s, f + from, f + to)
  <2>1. to <= RunsOf(h, box).backCount BY <1>4
  <2>2. PICK n : n = RunsOf(h, box).frontCount OBVIOUS
  <2>3. BackItems(h, RunsOf(h, box), from, to) = SubSeq(Shown(h, box), n + from + 1, n + to)
    BY <1>4, <2>1, <2>2, BackItemsAre
  <2> QED BY <2>2, <2>3 DEF Part
<1> QED BY <1>1, <1>2, <1>3, <1>4 DEF Reads

\* What is read of the front run, and of the back run between two items of s.
LEMMA ReadsFront ==
  ASSUME NEW h, NEW view, NEW f, NEW k, NEW s, Reads(h, view, f, k, s),
         NEW x \in Nat, NEW y \in Nat, x <= y, y <= f
  PROVE  FrontItems(h, view, x, y) = Part(s, x, y)
BY DEF Reads

LEMMA ReadsBack ==
  ASSUME NEW h, NEW view, NEW f, NEW k, NEW s, Reads(h, view, f, k, s),
         NEW x \in Nat, NEW y \in Nat, x <= y, y <= k, NEW a, NEW z, a = f + x, z = f + y
  PROVE  BackItems(h, view, x, y) = Part(s, a, z)
BY DEF Reads

\* A position of a List, within its ends.
At(s, position) == Clamp(PositionFromEnd(position, Len(s)), Len(s))

\* slice answers with the part between its two positions.
LEMMA SliceGives ==
  ASSUME Sound(heap, boxes), NEW b \in 1 .. Len(boxes), NEW from \in Int, NEW to \in Int,
         Slice(b, from, to)
  PROVE  Gives(Part(Items(b), At(Items(b), from), At(Items(b), to)))
<1>0. heap \in Heap /\ Fits(heap, boxes[b]) BY DEF Sound
<1>1. PICK view : view = RunsOf(heap, boxes[b]) OBVIOUS
<1>2. PICK f, k : f = view.frontCount /\ k = view.backCount OBVIOUS
<1>3. PICK s : s = Shown(heap, boxes[b]) OBVIOUS
<1>r. Reads(heap, view, f, k, s) BY <1>0, <1>1, <1>2, <1>3, RunParts, Zenon
<1>4. f \in Nat /\ k \in Nat /\ s \in Seq(Int) /\ Len(s) = f + k BY <1>r DEF Reads
<1>5. PICK n \in Nat : n = Len(s) /\ n = f + k /\ n = Total(view)
  BY <1>2, <1>4 DEF Total
<1>6. PICK first \in 0 .. n : first = Clamp(PositionFromEnd(from, n), n)
  BY ClampInRange
<1>7. PICK last \in 0 .. n : last = Clamp(PositionFromEnd(to, n), n)
  BY ClampInRange
<1>8. \/ last <= first /\ Create(<<>>)
      \/ first < last /\ first <= f /\ f <= last /\ AnswerWindow(b, first, last)
      \/ first < last /\ last < f /\ Create(FrontItems(heap, view, first, last))
      \/ first < last /\ f < first /\ Create(BackItems(heap, view, first - f, last - f))
  BY <1>1, <1>2, <1>5, <1>6, <1>7, Zenon DEF Slice
<1>9. first \in Nat /\ last \in Nat /\ last <= n BY SMT
<1>10. CASE last <= first /\ Create(<<>>)
  <2>1. Part(s, first, last) = <<>>
    <3>1. PICK m \in Int : m = first + 1 BY SMT
    <3>2. last \in Int /\ last < m BY <1>9, <1>10, <3>1, SMT
    <3> QED BY <3>1, <3>2, SubSeqEmpty DEF Part
  <2>2. <<>> \in Seq(Int) OBVIOUS
  <2> QED BY <1>10, <2>1, <2>2, CreateGives, <1>3, <1>5, <1>6, <1>7 DEF At, Items, Shown
<1>11. Items(b) = s BY <1>3 DEF Items, Shown
<1>12. CASE first < last /\ first <= f /\ f <= last /\ AnswerWindow(b, first, last)
  <2>1. first <= view.frontCount /\ view.frontCount <= last /\ last <= Total(view)
    BY <1>2, <1>5, <1>9, <1>12
  <2>2. Gives(SubSeq(Items(b), first + 1, last)) BY <1>1, <1>9, <1>12, <2>1, WindowGives
  <2> QED BY <1>5, <1>6, <1>7, <1>11, <2>2 DEF At, Part
<1>13. CASE first < last /\ last < f /\ Create(FrontItems(heap, view, first, last))
  <2>1. first <= last /\ last <= f /\ last <= Len(s) BY <1>4, <1>9, <1>13, SMT
  <2>2. FrontItems(heap, view, first, last) = Part(s, first, last) BY <1>r, <1>9, <2>1, ReadsFront
  <2>3. Part(s, first, last) \in Seq(Int) BY <1>4, <1>9, <2>1, PartTyped
  <2> QED BY <1>5, <1>6, <1>7, <1>11, <1>13, <2>2, <2>3, CreateGives DEF At
<1>14. CASE first < last /\ f < first /\ Create(BackItems(heap, view, first - f, last - f))
  <2>1. PICK x \in Nat, y \in Nat :
          x = first - f /\ y = last - f /\ x <= y /\ y <= k /\ f + x = first /\ f + y = last
    BY <1>4, <1>5, <1>9, <1>14, SMT
  <2>2. BackItems(heap, view, x, y) = Part(s, first, last) BY <1>r, <2>1, ReadsBack
  <2>3. first <= last /\ last <= Len(s) BY <1>5, <1>9, <1>14, SMT
  <2>4. Part(s, first, last) \in Seq(Int) BY <1>4, <1>9, <2>3, PartTyped
  <2> QED BY <1>5, <1>6, <1>7, <1>11, <1>14, <2>1, <2>2, <2>4, CreateGives DEF At
<1> QED BY <1>8, <1>10, <1>12, <1>13, <1>14

\* All but the item at position p, from 0.
Without(s, p) == Part(s, 0, p) \o Part(s, p + 1, Len(s))

\* answer is s, of n items, but for the item at p, in the parts a front of f makes.
LeavesOut(s, n, p, r, f, answer) ==
  /\ answer \in Seq(Int)
  /\ answer = Part(s, 0, p) \o Part(s, r, n)
  /\ p < f => Part(s, 0, p) \o Part(s, r, f) \o Part(s, f, n) = answer
  /\ ~(p < f) => Part(s, 0, f) \o Part(s, f, p) \o Part(s, r, n) = answer

\* The two ways removeItem joins parts leave out one position.
LEMMA WithoutParts ==
  ASSUME NEW s \in Seq(Int), NEW n \in Nat, n = Len(s), NEW p \in Nat, NEW r \in Nat,
         r = p + 1, r <= n, NEW f \in Nat, f <= n
  PROVE  LeavesOut(s, n, p, r, f, Without(s, p))
<1>1. PICK whole : whole = Part(s, 0, p) \o Part(s, r, n) OBVIOUS
<1>2. Without(s, p) = whole BY <1>1 DEF Without
<1>3. 0 \in Nat /\ 0 <= p /\ p <= n /\ n <= n BY SMT
<1>4. Part(s, 0, p) \in Seq(Int) /\ Part(s, r, n) \in Seq(Int) BY <1>3, PartTyped
<1>5. whole \in Seq(Int) BY <1>1, <1>4, ConcatProperties
<1>6. ASSUME p < f PROVE Part(s, 0, p) \o Part(s, r, f) \o Part(s, f, n) = whole
  <2>1. r <= f BY <1>6, SMT
  <2>2. PICK x, y, z : x = Part(s, 0, p) /\ y = Part(s, r, f) /\ z = Part(s, f, n) OBVIOUS
  <2>3. x \in Seq(Int) BY <1>4, <2>2
  <2>4. y \in Seq(Int) BY <2>1, <2>2, PartTyped
  <2>5. z \in Seq(Int) BY <1>3, <2>2, PartTyped
  <2>6. (x \o y) \o z = x \o (y \o z) BY <2>3, <2>4, <2>5, Associates, ZenonT(30)
  <2>7. y \o z = Part(s, r, n)
    <3>1. n <= Len(s) BY SMT
    <3>2. Meet(s, r, f, n) BY <2>1, <3>1, PartsMeet, Zenon
    <3> QED BY <2>2, <3>2 DEF Meet
  <2> QED BY <1>1, <2>2, <2>6, <2>7
<1>7. ASSUME ~(p < f) PROVE Part(s, 0, f) \o Part(s, f, p) \o Part(s, r, n) = whole
  <2>1. 0 <= f /\ f <= p BY <1>7, SMT
  <2>2. p <= Len(s) BY SMT
  <2>3. Meet(s, 0, f, p) BY <1>3, <2>1, <2>2, PartsMeet, Zenon
  <2> QED BY <1>1, <2>3 DEF Meet
<1> QED BY <1>1, <1>2, <1>5, <1>6, <1>7 DEF LeavesOut

\* removeItem leaves out the position named, whichever run holds it.
LEMMA RemoveGives ==
  ASSUME Sound(heap, boxes), NEW b \in 1 .. Len(boxes), NEW at \in Int, RemoveItem(b, at)
  PROVE  LET p == PositionFromEnd(at, Len(Items(b)))
         IN p \in 0 .. Len(Items(b)) - 1 /\ Gives(Without(Items(b), p))
<1>0. heap \in Heap /\ Fits(heap, boxes[b]) BY DEF Sound
<1>1. PICK view : view = RunsOf(heap, boxes[b]) OBVIOUS
<1>2. PICK f, k : f = view.frontCount /\ k = view.backCount OBVIOUS
<1>3. PICK s : s = Shown(heap, boxes[b]) OBVIOUS
<1>r. Reads(heap, view, f, k, s) BY <1>0, <1>1, <1>2, <1>3, RunParts, Zenon
<1>4. f \in Nat /\ k \in Nat /\ s \in Seq(Int) /\ Len(s) = f + k BY <1>r DEF Reads
<1>5. PICK n \in Nat : n = Len(s) /\ n = f + k /\ n = Total(view)
  BY <1>2, <1>4 DEF Total
<1>6. PICK p \in Int : p = PositionFromEnd(at, n) BY SMT DEF PositionFromEnd
<1>7. PICK q \in Int : q = p - f BY <1>4, SMT
<1>8. /\ 0 <= p /\ p < n
      /\ \/ p = 0 /\ f > 0 /\ AnswerWindow(b, 1, n)
         \/ p = n - 1 /\ k > 0 /\ AnswerWindow(b, 0, n - 1)
         \/ p < f /\ Create(FrontItems(heap, view, 0, p) \o FrontItems(heap, view, p + 1, f)
                               \o BackItems(heap, view, 0, k))
         \/ ~(p < f) /\ Create(FrontItems(heap, view, 0, f) \o BackItems(heap, view, 0, q)
                                  \o BackItems(heap, view, q + 1, k))
  BY <1>1, <1>2, <1>5, <1>6, <1>7, Zenon DEF RemoveItem
<1>9. PICK r \in Nat : r = p + 1 /\ p \in Nat /\ r <= n /\ n - 1 \in Nat
  BY <1>8, SMT
<1>10. Items(b) = s BY <1>3 DEF Items, Shown
<1>11. f <= n /\ 0 \in Nat /\ 0 <= f /\ 0 <= k /\ f <= f /\ k <= k /\ n <= n BY <1>4, <1>5, SMT
<1>12. PICK answer : answer = Without(s, p) OBVIOUS
<1>w. LeavesOut(s, n, p, r, f, answer)
  BY <1>4, <1>5, <1>9, <1>11, <1>12, WithoutParts, Zenon
<1>13. /\ answer \in Seq(Int)
       /\ answer = Part(s, 0, p) \o Part(s, r, n)
       /\ p < f => Part(s, 0, p) \o Part(s, r, f) \o Part(s, f, n) = answer
       /\ ~(p < f) => Part(s, 0, f) \o Part(s, f, p) \o Part(s, r, n) = answer
  BY <1>w DEF LeavesOut
<1>14. Part(s, 0, p) \in Seq(Int) /\ Part(s, r, n) \in Seq(Int)
  <2>1. 0 <= p /\ p <= Len(s) /\ n <= Len(s) BY <1>5, <1>9, SMT
  <2> QED BY <1>4, <1>9, <1>11, <2>1, PartTyped
<1> SUFFICES Gives(answer)
  <2>1. p \in 0 .. Len(s) - 1 BY <1>5, <1>8, SMT
  <2> QED BY <1>5, <1>6, <1>10, <1>12, <2>1
<1>15. CASE p = 0 /\ f > 0 /\ AnswerWindow(b, 1, n)
  <2>1. 1 \in Nat /\ 1 <= f /\ r = 1 BY <1>4, <1>9, <1>15, SMT
  <2>2. Gives(SubSeq(s, 1 + 1, n)) BY <1>1, <1>2, <1>5, <1>10, <1>11, <1>15, <2>1, WindowGives
  <2>3. Part(s, 0, p) = <<>> BY <1>4, <1>15, PartEnds
  <2>4. answer = Part(s, r, n) BY <1>13, <1>14, <2>3, Empty
  <2> QED BY <2>1, <2>2, <2>4 DEF Part
<1>16. CASE p = n - 1 /\ k > 0 /\ AnswerWindow(b, 0, n - 1)
  <2>0. n = f + k /\ k > 0 /\ p = n - 1 BY <1>5, <1>16
  <2>1. f <= p /\ p <= n /\ r = n BY <1>4, <1>9, <2>0, SMT
  <2>2. p <= Total(view) /\ f <= p BY <1>5, <2>1
  <2>3. Gives(SubSeq(s, 0 + 1, p))
    <3>1. AnswerWindow(b, 0, p) BY <1>16
    <3> QED BY <1>1, <1>2, <1>9, <1>10, <1>11, <2>1, <2>2, <3>1, WindowGives
  <2>4. Part(s, r, n) = <<>> BY <1>4, <2>1, PartEnds
  <2>5. answer = Part(s, 0, p) BY <1>13, <1>14, <2>4, Empty
  <2> QED BY <2>3, <2>5 DEF Part
<1>17. CASE p < f /\ Create(FrontItems(heap, view, 0, p) \o FrontItems(heap, view, p + 1, f)
                             \o BackItems(heap, view, 0, k))
  <2>1. 0 <= p /\ p <= f /\ r <= f /\ f + 0 = f BY <1>4, <1>9, <1>17, SMT
  <2>2. FrontItems(heap, view, 0, p) = Part(s, 0, p) BY <1>r, <1>9, <1>11, <2>1, ReadsFront
  <2>3. FrontItems(heap, view, r, f) = Part(s, r, f) BY <1>r, <1>4, <1>11, <2>1, ReadsFront
  <2>4. BackItems(heap, view, 0, k) = Part(s, f, n)
    <3>1. f = f + 0 /\ n = f + k /\ k \in Nat BY <1>4, <1>5, <2>1
    <3> QED BY <1>r, <1>11, <3>1, ReadsBack
  <2> QED BY <1>9, <1>13, <1>17, <2>2, <2>3, <2>4, CreateGives
<1>18. CASE ~(p < f) /\ Create(FrontItems(heap, view, 0, f) \o BackItems(heap, view, 0, q)
                                \o BackItems(heap, view, q + 1, k))
  <2>1. PICK t \in Nat : t = q + 1 /\ q \in Nat /\ 0 <= q /\ q <= k /\ t <= k
                         /\ p = f + q /\ r = f + t /\ f = f + 0
    BY <1>4, <1>5, <1>7, <1>8, <1>9, <1>18, SMT
  <2>2. FrontItems(heap, view, 0, f) = Part(s, 0, f) BY <1>r, <1>4, <1>11, <2>1, ReadsFront
  <2>3. BackItems(heap, view, 0, q) = Part(s, f, p) BY <1>r, <1>11, <2>1, ReadsBack
  <2>4. BackItems(heap, view, t, k) = Part(s, r, n)
    <3>1. r = f + t /\ n = f + k /\ k \in Nat /\ t <= k BY <1>4, <1>5, <2>1
    <3> QED BY <1>r, <1>11, <3>1, ReadsBack
  <2> QED BY <1>13, <1>18, <2>1, <2>2, <2>3, <2>4, CreateGives
<1> QED BY <1>8, <1>15, <1>16, <1>17, <1>18

\* item in front of the item at position p, from 0.
With(s, item, p) == Part(s, 0, p) \o <<item>> \o Part(s, p, Len(s))

\* answer is s, of n items, and item at p, in the parts a front of f makes.
PutsIn(s, n, p, item, f, x, z, answer) ==
  /\ answer \in Seq(Int)
  /\ p = 0 => answer = <<item>> \o s
  /\ p = n => answer = s \o <<item>>
  /\ Part(s, 0, x) \o Part(s, f, z) \o <<item>> \o Part(s, x, f) \o Part(s, z, n) = answer

\* The ways insert joins parts put the item at one position.
LEMMA WithParts ==
  ASSUME NEW s \in Seq(Int), NEW n \in Nat, n = Len(s), NEW p \in Nat, p <= n,
         NEW f \in Nat, f <= n, NEW item \in Int, NEW x, NEW z,
         x = IF p < f THEN p ELSE f, z = IF p < f THEN f ELSE p
  PROVE  PutsIn(s, n, p, item, f, x, z, With(s, item, p))
<1>1. PICK one : one = <<item>> OBVIOUS
<1>2. one \in Seq(Int) BY <1>1, SMT
<1>3. PICK left, right : left = Part(s, 0, p) /\ right = Part(s, p, n) OBVIOUS
<1>4. 0 \in Nat /\ 0 <= p /\ n <= n /\ p <= Len(s) /\ n <= Len(s) BY SMT
<1>5. left \in Seq(Int) /\ right \in Seq(Int) BY <1>3, <1>4, PartTyped
<1>6. PICK part : part = left \o one OBVIOUS
<1>7. part \in Seq(Int) BY <1>2, <1>5, <1>6, ConcatProperties
<1>8. part \o right \in Seq(Int) BY <1>5, <1>7, ConcatProperties
<1>9. With(s, item, p) = part \o right BY <1>1, <1>3, <1>6 DEF With
<1>10. ASSUME p = 0 PROVE part \o right = one \o s
  <2>1. left = <<>> /\ right = s BY <1>3, <1>4, <1>10, PartEnds
  <2> QED BY <1>2, <1>6, <2>1, Empty
<1>11. ASSUME p = n PROVE part \o right = s \o one
  <2>1. left = s /\ right = <<>> BY <1>3, <1>4, <1>11, PartEnds
  <2> QED BY <1>6, <1>7, <2>1, Empty
<1>12. PICK w, x1, x2, y : /\ w = Part(s, 0, x) /\ x1 = Part(s, f, z)
                           /\ x2 = Part(s, x, f) /\ y = Part(s, z, n)
  OBVIOUS
<1>13. w \o x1 \o one \o x2 \o y = part \o right
  <2>1. CASE p < f
    <3>1. x = p /\ z = f /\ p <= f BY <2>1, SMT
    <3>2. w = left /\ x1 = <<>> BY <1>3, <1>12, <3>1, PartEnds
    <3>3. w \o x1 = left BY <1>5, <3>2, Empty
    <3>4. x2 \in Seq(Int) /\ y \in Seq(Int)
      <4>1. f <= Len(s) BY SMT
      <4> QED BY <1>4, <1>12, <3>1, <4>1, PartTyped
    <3>5. x2 \o y = right
      <4>1. p <= f /\ f <= n /\ n <= Len(s) BY <1>4, <3>1
      <4>2. Meet(s, p, f, n) BY <4>1, PartsMeet, Zenon
      <4> QED BY <1>3, <1>12, <3>1, <4>2 DEF Meet
    <3>6. (part \o x2) \o y = part \o (x2 \o y) BY <1>7, <3>4, Associates
    <3> QED BY <1>6, <3>3, <3>5, <3>6
  <2>2. CASE ~(p < f)
    <3>1. x = f /\ z = p /\ 0 <= f /\ f <= p BY <2>2, SMT
    <3>2. w \o x1 = left
      <4>1. p <= Len(s) BY <1>4, SMT
      <4>2. Meet(s, 0, f, p) BY <1>4, <3>1, <4>1, PartsMeet, Zenon
      <4> QED BY <1>3, <1>12, <3>1, <4>2 DEF Meet
    <3>3. x2 = <<>> /\ y = right BY <1>3, <1>12, <3>1, PartEnds
    <3>4. part \o x2 = part BY <1>7, <3>3, Empty
    <3> QED BY <1>6, <3>2, <3>3, <3>4
  <2> QED BY <2>1, <2>2
<1> QED BY <1>1, <1>8, <1>9, <1>10, <1>11, <1>12, <1>13 DEF PutsIn

\* insert puts the item at the position named, clamped to the ends.
LEMMA InsertGives ==
  ASSUME Sound(heap, boxes), NEW b \in 1 .. Len(boxes), NEW item \in Int, NEW at \in Int,
         Insert(b, item, at)
  PROVE  Gives(With(Items(b), item, At(Items(b), at)))
<1>0. heap \in Heap /\ Fits(heap, boxes[b]) BY DEF Sound
<1>1. PICK view : view = RunsOf(heap, boxes[b]) OBVIOUS
<1>2. PICK f, k : f = view.frontCount /\ k = view.backCount OBVIOUS
<1>3. PICK s : s = Shown(heap, boxes[b]) OBVIOUS
<1>r. Reads(heap, view, f, k, s) BY <1>0, <1>1, <1>2, <1>3, RunParts, Zenon
<1>4. f \in Nat /\ k \in Nat /\ s \in Seq(Int) /\ Len(s) = f + k BY <1>r DEF Reads
<1>5. PICK n \in Nat : n = Len(s) /\ n = f + k /\ n = Total(view)
  BY <1>2, <1>4 DEF Total
<1>6. PICK p \in 0 .. n : p = Clamp(PositionFromEnd(at, n), n)
  BY ClampInRange
<1>7. PICK x : x = IF p < f THEN p ELSE f OBVIOUS
<1>8. PICK y : y = IF p > f THEN p - f ELSE 0 OBVIOUS
<1>9. \/ p = 0 /\ Prepend(b, item)
      \/ p = n /\ AppendItem(b, item)
      \/ Create(FrontItems(heap, view, 0, x) \o BackItems(heap, view, 0, y) \o <<item>>
                  \o FrontItems(heap, view, x, f) \o BackItems(heap, view, y, k))
  BY <1>1, <1>2, <1>5, <1>6, <1>7, <1>8, Zenon DEF Insert
<1>10. Items(b) = s BY <1>3 DEF Items, Shown
<1>11. /\ p \in Nat /\ p <= n /\ f <= n /\ 0 \in Nat /\ f <= f /\ k <= k
       /\ x \in Nat /\ 0 <= x /\ x <= f /\ y \in Nat /\ 0 <= y /\ y <= k
       /\ f = f + 0
  BY <1>4, <1>5, <1>7, <1>8, SMT
<1>12. PICK z : z = IF p < f THEN f ELSE p OBVIOUS
<1>13. z = f + y BY <1>4, <1>8, <1>11, <1>12, SMT
<1>14. PICK answer : answer = With(s, item, p) OBVIOUS
<1>w. PutsIn(s, n, p, item, f, x, z, answer)
  BY <1>4, <1>5, <1>7, <1>11, <1>12, <1>14, WithParts, Zenon
<1>15. /\ answer \in Seq(Int)
       /\ p = 0 => answer = <<item>> \o s
       /\ p = n => answer = s \o <<item>>
       /\ Part(s, 0, x) \o Part(s, f, z) \o <<item>> \o Part(s, x, f) \o Part(s, z, n) = answer
  BY <1>w DEF PutsIn
<1> SUFFICES Gives(answer)
  BY <1>5, <1>6, <1>10, <1>14 DEF At
<1>16. CASE p = 0 /\ Prepend(b, item) BY <1>10, <1>15, <1>16, PrependGives
<1>17. CASE p = n /\ AppendItem(b, item) BY <1>10, <1>15, <1>17, AppendItemGives
<1>18. CASE Create(FrontItems(heap, view, 0, x) \o BackItems(heap, view, 0, y) \o <<item>>
                    \o FrontItems(heap, view, x, f) \o BackItems(heap, view, y, k))
  <2>1. FrontItems(heap, view, 0, x) = Part(s, 0, x) BY <1>r, <1>11, ReadsFront
  <2>2. FrontItems(heap, view, x, f) = Part(s, x, f) BY <1>r, <1>4, <1>11, ReadsFront
  <2>3. BackItems(heap, view, 0, y) = Part(s, f, z) BY <1>r, <1>11, <1>13, ReadsBack
  <2>4. BackItems(heap, view, y, k) = Part(s, z, n)
    <3>1. z = f + y /\ n = f + k /\ k \in Nat /\ y \in Nat /\ y <= k /\ k <= k
      BY <1>4, <1>5, <1>11, <1>13
    <3> QED BY <1>r, <3>1, ReadsBack
  <2> QED BY <1>15, <1>18, <2>1, <2>2, <2>3, <2>4, CreateGives
<1> QED BY <1>9, <1>16, <1>17, <1>18

\* replace puts the item in place of the one at the position named.
LEMMA ReplaceGives ==
  ASSUME Sound(heap, boxes), NEW b \in 1 .. Len(boxes), NEW item \in Int, NEW at \in Int,
         Replace(b, item, at)
  PROVE  LET p == PositionFromEnd(at, Len(Items(b)))
         IN p \in 0 .. Len(Items(b)) - 1 /\ Gives(ReplaceAt(Items(b), p + 1, item))
<1>0. /\ heap \in Heap /\ boxes \in Seq(Box) /\ Fits(heap, boxes[b]) /\ Len(heap) \in Nat
      /\ Sound(heap', boxes')
  <2>1. Sound(heap', boxes') BY ReplaceKeeps, Zenon
  <2> QED BY <2>1, SMT DEF Sound, Heap
<1>1. PICK view : view = RunsOf(heap, boxes[b]) OBVIOUS
<1>2. PICK f \in Nat, k \in Nat, n \in Nat :
        f = view.frontCount /\ k = view.backCount /\ n = Total(view) /\ n = f + k
  BY <1>0, <1>1, CountsAreNat
<1>3. PICK s : s = Shown(heap, boxes[b]) OBVIOUS
<1>4. Holds(heap, view.front, f, view.back, k, s) BY <1>0, <1>1, <1>2, <1>3, BoxShows, Zenon
<1>5. s \in Seq(Int) /\ Len(s) = n BY <1>2, <1>4 DEF Holds
<1>6. PICK p \in Int : p = PositionFromEnd(at, n) BY SMT DEF PositionFromEnd
<1>7. PICK front : front = SubSeq(heap[view.front], 1, f) OBVIOUS
<1>8. PICK back : back = SubSeq(heap[view.back], 1, k) OBVIOUS
<1>9. PICK newFront : newFront = [front EXCEPT ![f - p] = item] OBVIOUS
<1>10. PICK newBack : newBack = [back EXCEPT ![p - f + 1] = item] OBVIOUS
<1>11. PICK stamped : stamped = [boxes EXCEPT ![b] = StampClosed(@, view)] OBVIOUS
<1>12. PICK ofFront : ofFront = [value |-> view.back, length |-> k,
                                 front |-> Len(heap) + 1, frontLen |-> f]
  OBVIOUS
<1>13. PICK ofBack : ofBack = [value |-> Len(heap) + 1, length |-> k,
                               front |-> view.front, frontLen |-> f]
  OBVIOUS
<1>14. /\ 0 <= p /\ p < n
       /\ \/ p < f /\ AnswerBox(Append(heap, newFront), stamped, ofFront)
          \/ ~(p < f) /\ f = 0 /\ Create(newBack)
          \/ ~(p < f) /\ f # 0 /\ AnswerBox(Append(heap, newBack), stamped, ofBack)
  BY <1>1, <1>2, <1>6, <1>7, <1>8, <1>9, <1>10, <1>11, <1>12, <1>13, Zenon DEF Replace
<1>15. /\ view.back \in 1 .. Len(heap) /\ heap[view.back] \in Seq(Int)
       /\ k \in 0 .. Len(heap[view.back])
       /\ view.front = undefined => f = 0
       /\ view.front # undefined =>
            /\ view.front \in 1 .. Len(heap) /\ heap[view.front] \in Seq(Int)
            /\ f \in 0 .. Len(heap[view.front])
  BY <1>0, <1>1, <1>2, Runs
<1>16. PICK q \in 1 .. n : q = p + 1 BY <1>14, SMT
<1>17. PICK list : list = [s EXCEPT ![q] = item] OBVIOUS
<1>18. /\ list \in Seq(Int) /\ Len(list) = n
       /\ \A i \in 1 .. n : list[i] = IF i = q THEN item ELSE s[i]
  BY <1>5, <1>17, ExceptSeq, SMT
<1>19. Items(b) = s BY <1>3 DEF Items, Shown
<1> SUFFICES Gives(list)
  <2>1. p \in 0 .. n - 1 BY <1>14, SMT
  <2> QED BY <1>5, <1>6, <1>16, <1>17, <1>19, <2>1 DEF ReplaceAt
<1>20. stamped \in Seq(Box) /\ Len(stamped) = Len(boxes)
  <2>1. Stamped(heap, boxes, b, [boxes EXCEPT ![b] = StampClosed(@, RunsOf(heap, boxes[b]))])
    BY <1>0, StampSound, Zenon
  <2> QED BY <1>1, <1>11, <2>1 DEF Stamped, Sound
<1>21. view.back \in Nat /\ Len(heap) + 1 \in Nat /\ Len(heap) + 1 # undefined
  BY <1>0, <1>15, SMT DEF undefined
<1>22. /\ back \in Seq(Int) /\ Len(back) = k
       /\ \A i \in 1 .. k : back[i] = heap[view.back][i]
  BY <1>8, <1>15, SubSeqWhole, SMT
<1>23. ~(p < f) =>
         /\ newBack \in Seq(Int) /\ Len(newBack) = k
         /\ \A i \in 1 .. k : newBack[i] = list[f + i]
  <2> SUFFICES ASSUME ~(p < f)
               PROVE  /\ newBack \in Seq(Int) /\ Len(newBack) = k
                      /\ \A i \in 1 .. k : newBack[i] = list[f + i]
    OBVIOUS
  <2>1. n = f + k /\ p < n BY <1>2, <1>14
  <2>2. PICK r \in 1 .. k : r = p - f + 1 BY <2>1, SMT
  <2>3. /\ newBack \in Seq(Int) /\ Len(newBack) = k
        /\ \A i \in 1 .. k : newBack[i] = IF i = r THEN item ELSE back[i]
    BY <1>10, <1>22, <2>2, ExceptSeq, SMT
  <2>4. ASSUME NEW i \in 1 .. k PROVE newBack[i] = list[f + i]
    <3>1. f + i \in 1 .. n /\ (f + i = q <=> i = r) BY <1>16, <2>1, <2>2, SMT
    <3>2. s[f + i] = heap[view.back][i] BY <1>4 DEF Holds
    <3>3. list[f + i] = IF f + i = q THEN item ELSE s[f + i] BY <1>18, <3>1
    <3> QED BY <1>22, <2>3, <3>1, <3>2, <3>3
  <2> QED BY <2>3, <2>4
<1>24. \A i \in 1 .. k : f + i # q => list[f + i] = heap[view.back][i]
  <2> SUFFICES ASSUME NEW i \in 1 .. k, f + i # q PROVE list[f + i] = heap[view.back][i]
    OBVIOUS
  <2>0. n = f + k BY <1>2
  <2>1. f + i \in 1 .. n BY <2>0, SMT
  <2>2. s[f + i] = heap[view.back][i] BY <1>4 DEF Holds
  <2> QED BY <1>18, <2>1, <2>2
<1>25. CASE p < f /\ AnswerBox(Append(heap, newFront), stamped, ofFront)
  <2>1. f # 0 BY <1>14, <1>25, SMT
  <2>2. PICK r \in 1 .. f : r = f - p BY <1>14, <1>25, SMT
  <2>3. heap[view.front] \in Seq(Int) /\ f \in 0 .. Len(heap[view.front]) BY <1>15, <2>1
  <2>4. /\ front \in Seq(Int) /\ Len(front) = f
        /\ \A i \in 1 .. f : front[i] = heap[view.front][i]
    BY <1>7, <2>3, SubSeqWhole, SMT
  <2>5. /\ newFront \in Seq(Int) /\ Len(newFront) = f
        /\ \A i \in 1 .. f : newFront[i] = IF i = r THEN item ELSE front[i]
    BY <1>9, <2>2, <2>4, ExceptSeq, SMT
  <2>6. heap' = Append(heap, newFront) /\ boxes' = Append(stamped, ofFront)
    BY <1>25 DEF AnswerBox
  <2>7. heap' \in Heap /\ Grown(heap, heap') /\ heap'[Len(heap) + 1] = newFront
    BY <1>0, <2>5, <2>6, HeapAppend
  <2>8. Extended(heap, heap') BY <1>0, <2>7, GrownExtends
  <2>9. /\ ofFront \in Box /\ ofFront.value = view.back /\ ofFront.length = k
        /\ ofFront.front = Len(heap) + 1 /\ ofFront.frontLen = f
    BY <1>12, <1>21, BoxFields
  <2>10. RunsOf(heap', ofFront).frontCount = f /\ RunsOf(heap', ofFront).backCount = k
    BY <1>21, <2>9, CountsOf
  <2>11. ASSUME NEW i \in 1 .. f PROVE list[i] = newFront[f - i + 1]
    <3>0. n = f + k BY <1>2
    <3>1. i \in 1 .. n /\ f - i + 1 \in 1 .. f /\ (i = q <=> f - i + 1 = r)
      BY <1>16, <2>2, <3>0, SMT
    <3>2. s[i] = heap[view.front][f - i + 1] BY <1>4 DEF Holds
    <3>3. list[i] = IF i = q THEN item ELSE s[i] BY <1>18, <3>1
    <3>4. newFront[f - i + 1] = IF f - i + 1 = r THEN item ELSE front[f - i + 1]
      BY <2>5, <3>1
    <3>5. front[f - i + 1] = heap[view.front][f - i + 1] BY <2>4, <3>1
    <3> QED BY <3>1, <3>2, <3>3, <3>4, <3>5
  <2>12. ASSUME NEW i \in 1 .. k PROVE list[f + i] = heap'[view.back][i]
    <3>1. f + i # q BY <1>16, <1>25, SMT
    <3>2. heap'[view.back] = heap[view.back] BY <1>15, <2>7 DEF Grown
    <3> QED BY <1>24, <3>1, <3>2
  <2>13. Holds(heap', Len(heap) + 1, f, view.back, k, list)
    <3>1. Len(list) = f + k BY <1>2, <1>18
    <3> QED BY <1>18, <2>7, <2>11, <2>12, <3>1 DEF Holds
  <2>14. Holds(heap', ofFront.front, f, ofFront.value, k, list) BY <2>9, <2>13
  <2> QED BY <1>0, <1>20, <2>6, <2>8, <2>9, <2>10, <2>14, SharedGives, Zenon
<1>26. CASE ~(p < f) /\ f = 0 /\ Create(newBack)
  <2>1. newBack \in Seq(Int) /\ Len(newBack) = k /\ \A i \in 1 .. k : newBack[i] = list[f + i]
    BY <1>23, <1>26
  <2>2. n = k /\ \A i \in 1 .. k : f + i = i
    <3>1. n = f + k /\ f = 0 BY <1>2, <1>26
    <3> QED BY <3>1, SMT
  <2>3. \A i \in 1 .. k : newBack[i] = list[i] BY <2>1, <2>2
  <2>4. newBack = list BY <1>18, <2>1, <2>2, <2>3, SeqEqual
  <2> QED BY <1>18, <1>26, <2>4, CreateGives
<1>27. CASE ~(p < f) /\ f # 0 /\ AnswerBox(Append(heap, newBack), stamped, ofBack)
  <2>1. newBack \in Seq(Int) /\ Len(newBack) = k /\ \A i \in 1 .. k : newBack[i] = list[f + i]
    BY <1>23, <1>27
  <2>2. view.front # undefined /\ view.front \in 1 .. Len(heap) BY <1>15, <1>27
  <2>3. view.front \in Nat BY <2>2, SMT
  <2>4. heap' = Append(heap, newBack) /\ boxes' = Append(stamped, ofBack)
    BY <1>27 DEF AnswerBox
  <2>5. heap' \in Heap /\ Grown(heap, heap') /\ heap'[Len(heap) + 1] = newBack
    BY <1>0, <2>1, <2>4, HeapAppend
  <2>6. Extended(heap, heap') BY <1>0, <2>5, GrownExtends
  <2>7. /\ ofBack \in Box /\ ofBack.value = Len(heap) + 1 /\ ofBack.length = k
        /\ ofBack.front = view.front /\ ofBack.frontLen = f
    BY <1>13, <1>21, <2>3, BoxFields
  <2>8. RunsOf(heap', ofBack).frontCount = f /\ RunsOf(heap', ofBack).backCount = k
    BY <2>2, <2>7, CountsOf
  <2>9. ASSUME NEW i \in 1 .. f PROVE list[i] = heap'[view.front][f - i + 1]
    <3>0. n = f + k BY <1>2
    <3>1. i \in 1 .. n /\ i # q BY <1>16, <1>27, <3>0, SMT
    <3>2. s[i] = heap[view.front][f - i + 1] BY <1>4 DEF Holds
    <3>3. heap'[view.front] = heap[view.front] BY <2>2, <2>5 DEF Grown
    <3> QED BY <1>18, <3>1, <3>2, <3>3
  <2>10. Holds(heap', view.front, f, Len(heap) + 1, k, list)
    <3>1. Len(list) = f + k BY <1>2, <1>18
    <3> QED BY <1>18, <2>1, <2>5, <2>9, <3>1 DEF Holds
  <2>11. Holds(heap', ofBack.front, f, ofBack.value, k, list) BY <2>7, <2>10
  <2> QED BY <1>0, <1>20, <2>4, <2>6, <2>7, <2>8, <2>11, SharedGives, Zenon
<1> QED BY <1>14, <1>25, <1>26, <1>27

-----------------------------------------------------------------------------
(* What sort answers with.                                                   *)

\* A set of natural numbers has a least one.
LEMMA LeastNatural ==
  ASSUME NEW S \in SUBSET Nat, S # {}
  PROVE  \E least \in S : \A m \in S : least <= m
<1> DEFINE R == OpToRel(<, Nat)
<1>1. \A m, n \in Nat : <<m, n>> \in R <=> m < n BY DEF OpToRel
<1>2. IsWellFoundedOn(R, Nat) BY NatLessThanWellFounded
<1> HIDE DEF R
<1>3. S \subseteq Nat OBVIOUS
<1>4. PICK least \in S : \A m \in S : ~(<<m, least>> \in R) BY <1>2, <1>3, WFMin
<1>5. ASSUME NEW m \in S PROVE least <= m
  <2>1. m \in Nat /\ least \in Nat BY <1>3
  <2>2. ~(m < least) BY <1>1, <1>4, <2>1, Zenon
  <2> QED BY <2>1, <2>2
<1> QED BY <1>5

\* Neighbours in order are all in order.
LEMMA NeighboursInOrder ==
  ASSUME NEW s \in Seq(Int), Ascending(s), NEW i \in 1 .. Len(s), NEW j \in 1 .. Len(s), i < j
  PROVE  s[i] <= s[j]
<1>0. DOMAIN s = 1 .. Len(s) OBVIOUS
<1>1. PICK out : out = {m \in i + 1 .. Len(s) : ~(s[i] <= s[m])} OBVIOUS
<1>2. out \in SUBSET Nat BY <1>1, SMT
<1>3. CASE out = {}
  <2>1. j \in i + 1 .. Len(s) BY SMT
  <2> QED BY <1>1, <1>3, <2>1
<1>4. CASE out # {}
  <2>1. PICK m \in out : \A l \in out : m <= l BY <1>2, <1>4, LeastNatural
  <2>2. m \in i + 1 .. Len(s) /\ ~(s[i] <= s[m]) BY <1>1, <2>1
  <2>3. PICK l \in 1 .. Len(s) : l = m - 1 /\ i <= l BY <2>2, SMT
  <2>4. m \in 1 .. Len(s) /\ m > 1 BY <2>2, SMT
  <2>5. s[l] <= s[m] BY <1>0, <2>3, <2>4 DEF Ascending
  <2>6. s[i] <= s[l]
    <3>1. CASE l = i
      <4>1. s[i] \in Int OBVIOUS
      <4> QED BY <3>1, <4>1, SMT
    <3>2. CASE l # i
      <4>1. l \in i + 1 .. Len(s) /\ ~(m <= l) BY <2>3, <2>4, <3>2, SMT
      <4>2. l \notin out BY <2>1, <4>1
      <4> QED BY <1>1, <4>1, <4>2
    <3> QED BY <3>1, <3>2
  <2>7. s[i] \in Int /\ s[l] \in Int /\ s[m] \in Int BY <2>3, <2>4
  <2> QED BY <2>2, <2>5, <2>6, <2>7, SMT
<1> QED BY <1>3, <1>4

\* A List's items in ascending order sort it.
LEMMA SortedSorts ==
  ASSUME NEW s \in Seq(Int), NEW order \in Injection(1 .. Len(s), 1 .. Len(s)),
         NEW answer, answer = [i \in 1 .. Len(s) |-> s[order[i]]],
         answer \in Seq(Int), Ascending(answer)
  PROVE  Lists!Sorts(s, answer)
<1>1. PICK n \in Nat : n = Len(s) OBVIOUS
<1>2. DOMAIN s = 1 .. n /\ DOMAIN answer = 1 .. n BY <1>1
<1>3. Len(answer) = n BY <1>1, <1>2, SMT
<1>4. \A i, j \in DOMAIN answer : i < j => answer[i] <= answer[j]
  BY <1>2, <1>3, NeighboursInOrder
<1>5. IsFiniteSet(1 .. n) BY FS_Interval
<1>6. order \in Injection(1 .. n, 1 .. n) BY <1>1
<1>7. order \in Surjection(1 .. n, 1 .. n) BY <1>5, <1>6, FS_Injection
<1>8. order \in Lists!Bijection(DOMAIN answer, DOMAIN s)
  BY <1>2, <1>6, <1>7
  DEF Injection, Surjection, IsInjective,
      Lists!Bijection, Lists!Injection, Lists!Surjection, Lists!IsInjective
<1>9. \A i \in DOMAIN answer : answer[i] = s[order[i]] BY <1>2
<1> QED BY <1>4, <1>8, <1>9 DEF Lists!Sorts

-----------------------------------------------------------------------------
(* The answers, as ImmutableLists names them.                                *)

\* The positions a List names, and what its edits answer, in this module's terms.
LEMMA Places ==
  ASSUME NEW s \in Seq(Int), NEW at \in Int
  PROVE  /\ Lists!Clamped(s, at) = At(s, at)
         /\ Lists!FromEnd(s, at) = PositionFromEnd(at, Len(s))
         /\ At(s, at) \in 0 .. Len(s) /\ PositionFromEnd(at, Len(s)) \in Int
<1>1. Lists!FromEnd(s, at) = PositionFromEnd(at, Len(s))
  BY Zenon DEF Lists!FromEnd, PositionFromEnd
<1>2. Lists!Clamped(s, at) = At(s, at)
  BY <1>1, Zenon DEF Lists!Clamped, At, Clamp
<1>3. Len(s) \in Nat OBVIOUS
<1>4. At(s, at) \in 0 .. Len(s) BY <1>3, ClampInRange DEF At
<1>5. PositionFromEnd(at, Len(s)) \in Int BY <1>3, SMT DEF PositionFromEnd
<1> QED BY <1>1, <1>2, <1>4, <1>5

\* The promised answers are the ones above.
LEMMA SlicedIs ==
  ASSUME NEW s \in Seq(Int), NEW from \in Int, NEW to \in Int
  PROVE  Lists!Sliced(s, from, to) = Part(s, At(s, from), At(s, to))
BY Places, Zenon DEF Lists!Sliced, Part

LEMMA InsertedIs ==
  ASSUME NEW s \in Seq(Int), NEW item \in Int, NEW at \in Int
  PROVE  Lists!Inserted(s, item, at) = With(s, item, At(s, at))
<1>1. PICK p : p = At(s, at) OBVIOUS
<1>2. p \in Nat /\ p <= Len(s) BY <1>1, Places, SMT
<1>3. (p + 1) - 1 = p /\ 0 + 1 = 1 BY <1>2, SMT
<1>4. Lists!Inserted(s, item, at) = Lists!InsertAt(s, p + 1, item)
  BY <1>1, Places, Zenon DEF Lists!Inserted
<1>5. Lists!InsertAt(s, p + 1, item)
        = SubSeq(s, 1, p) \o <<item>> \o SubSeq(s, p + 1, Len(s))
  BY <1>3, Zenon DEF Lists!InsertAt
<1> QED BY <1>1, <1>3, <1>4, <1>5, Zenon DEF With, Part

LEMMA RemovedIs ==
  ASSUME NEW s \in Seq(Int), NEW at \in Int, NEW p \in Nat, p = PositionFromEnd(at, Len(s))
  PROVE  Lists!Removed(s, at) = Without(s, p)
<1>1. (p + 1) - 1 = p /\ 0 + 1 = 1 BY SMT
<1>2. Lists!Removed(s, at) = Lists!RemoveAt(s, p + 1)
  BY Places, Zenon DEF Lists!Removed
<1>3. Lists!RemoveAt(s, p + 1) = SubSeq(s, 1, p) \o SubSeq(s, (p + 1) + 1, Len(s))
  BY <1>1, Zenon DEF Lists!RemoveAt
<1> QED BY <1>1, <1>2, <1>3, Zenon DEF Without, Part

LEMMA ReplacedIs ==
  ASSUME NEW s \in Seq(Int), NEW item \in Int, NEW at \in Int, NEW p \in Nat, p = PositionFromEnd(at, Len(s))
  PROVE  Lists!Replaced(s, item, at) = ReplaceAt(s, p + 1, item)
<1>1. Lists!Replaced(s, item, at) = Lists!ReplaceAt(s, p + 1, item)
  BY Places, Zenon DEF Lists!Replaced
<1> QED BY <1>1, Zenon DEF Lists!ReplaceAt, ReplaceAt

\* The answer an edit gives is one that Lists promise for it.
Promised(s, answer) ==
  \/ answer \in Lists!Edits(s)
  \/ \E c \in 1 .. Len(boxes) : answer = s \o Items(c)
  \/ Lists!Sorts(s, answer)

\* The forms of answer that a List promises.
LEMMA EditPromised ==
  ASSUME NEW s, s \in Seq(Int), NEW answer,
         \/ answer = s
         \/ answer = Reverse(s)
         \/ \E item \in Added : answer = <<item>> \o s
         \/ \E item \in Added : answer = s \o <<item>>
         \/ \E from, to \in Positions : answer = Lists!Sliced(s, from, to)
         \/ \E item \in Added, at \in Positions : answer = Lists!Inserted(s, item, at)
         \/ \E at \in Positions : Lists!Names(s, at) /\ answer = Lists!Removed(s, at)
         \/ \E item \in Added, at \in Positions :
              Lists!Names(s, at) /\ answer = Lists!Replaced(s, item, at)
  PROVE  answer \in Lists!Edits(s)
<1>a. PICK A : A = {Lists!Cons(item, s) : item \in Added} OBVIOUS
<1>b. PICK B : B = {Append(s, item) : item \in Added} OBVIOUS
<1>c. PICK C : C = {Lists!Sliced(s, window[1], window[2]) : window \in Positions \X Positions}
  OBVIOUS
<1>d. PICK D : D = {Lists!Inserted(s, edit[1], edit[2]) : edit \in Added \X Positions} OBVIOUS
<1>e. PICK E : E = {Lists!Removed(s, at) : at \in {p \in Positions : Lists!Names(s, p)}} OBVIOUS
<1>f. PICK F : F = {Lists!Replaced(s, edit[1], edit[2]) :
                     edit \in Added \X {p \in Positions : Lists!Names(s, p)}}
  OBVIOUS
<1>g. Lists!Edits(s) = {s, Lists!Reverse(s)} \cup A \cup B \cup C \cup D \cup E \cup F
  BY <1>a, <1>b, <1>c, <1>d, <1>e, <1>f, Zenon DEF Lists!Edits
<1>h. /\ s \in Lists!Edits(s) /\ Lists!Reverse(s) \in Lists!Edits(s)
      /\ A \cup B \cup C \cup D \cup E \cup F \subseteq Lists!Edits(s)
  BY <1>g
<1>1. CASE answer = s BY <1>1, <1>h
<1>2. CASE answer = Reverse(s)
  <2>1. Lists!Reverse(s) = Reverse(s) BY Zenon DEF Lists!Reverse, Reverse
  <2> QED BY <1>2, <2>1, <1>h
<1>3. CASE \E item \in Added : answer = <<item>> \o s
  <2>1. PICK item \in Added : answer = <<item>> \o s BY <1>3
  <2>2. answer = Lists!Cons(item, s) BY <2>1, Zenon DEF Lists!Cons
  <2> QED BY <2>2, <1>a, <1>h
<1>4. CASE \E item \in Added : answer = s \o <<item>>
  <2>1. PICK item \in Added : answer = s \o <<item>> BY <1>4
  <2>2. item \in Int BY AddedAssumption
  <2>3. answer = Append(s, item) BY <2>1, <2>2, AppendIsConcat
  <2> QED BY <2>3, <1>b, <1>h
<1>5. CASE \E from, to \in Positions : answer = Lists!Sliced(s, from, to)
  <2>1. PICK from, to \in Positions : answer = Lists!Sliced(s, from, to) BY <1>5
  <2>2. PICK window \in Positions \X Positions : window = <<from, to>> OBVIOUS
  <2>3. answer = Lists!Sliced(s, window[1], window[2]) BY <2>1, <2>2
  <2> QED BY <2>3, <1>c, <1>h
<1>6. CASE \E item \in Added, at \in Positions : answer = Lists!Inserted(s, item, at)
  <2>1. PICK item \in Added, at \in Positions : answer = Lists!Inserted(s, item, at)
    BY <1>6
  <2>2. PICK edit \in Added \X Positions : edit = <<item, at>> OBVIOUS
  <2>3. answer = Lists!Inserted(s, edit[1], edit[2]) BY <2>1, <2>2
  <2> QED BY <2>3, <1>d, <1>h
<1>7. CASE \E at \in Positions : Lists!Names(s, at) /\ answer = Lists!Removed(s, at)
  <2>1. PICK at \in {p \in Positions : Lists!Names(s, p)} : answer = Lists!Removed(s, at)
    BY <1>7
  <2> QED BY <2>1, <1>e, <1>h
<1>8. CASE \E item \in Added, at \in Positions :
             Lists!Names(s, at) /\ answer = Lists!Replaced(s, item, at)
  <2>1. PICK item \in Added, at \in {p \in Positions : Lists!Names(s, p)} :
          answer = Lists!Replaced(s, item, at)
    BY <1>8
  <2>2. PICK edit \in Added \X {p \in Positions : Lists!Names(s, p)} :
          edit[1] = item /\ edit[2] = at
    <3>1. <<item, at>> \in Added \X {p \in Positions : Lists!Names(s, p)} OBVIOUS
    <3>2. <<item, at>>[1] = item /\ <<item, at>>[2] = at OBVIOUS
    <3> QED BY <3>1, <3>2
  <2>3. answer = Lists!Replaced(s, edit[1], edit[2]) BY <2>1, <2>2
  <2> QED BY <2>3, <1>f, <1>h
<1> QED BY <1>1, <1>2, <1>3, <1>4, <1>5, <1>6, <1>7, <1>8, Zenon

\* Every native answers with what a List promises of it.
LEMMA EditGives ==
  ASSUME Sound(heap, boxes), NEW b \in 1 .. Len(boxes), Edit(b)
  PROVE  \E items : Gives(items) /\ Promised(Items(b), items)
<1>0. PICK s : s = Items(b) OBVIOUS
<1>1. s \in Seq(Int)
  <2>1. Fits(heap, boxes[b]) /\ heap \in Heap BY DEF Sound
  <2> QED BY <1>0, <2>1, ShownIsSeq DEF Shown, Items
<1>2. DOMAIN boxes = 1 .. Len(boxes) BY DEF Sound
<1> SUFFICES \E items : Gives(items) /\ Promised(s, items) BY <1>0
<1>3. CASE Own(b)
  <2>1. Gives(s) BY <1>0, <1>3, OwnGives
  <2> QED BY <1>1, <2>1, EditPromised, Zenon DEF Promised
<1>4. CASE ReverseList(b)
  <2>1. Gives(Reverse(s)) BY <1>0, <1>4, ReverseGives
  <2> QED BY <1>1, <2>1, EditPromised, Zenon DEF Promised
<1>5. CASE Sort(b)
  <2>a. PICK order \in Injection(1 .. Len(s), 1 .. Len(s)) :
          LET sorted == [i \in 1 .. Len(s) |-> s[order[i]]]
          IN Ascending(sorted) /\ sorted \in Seq(Int) /\ Gives(sorted)
    BY <1>0, <1>5, SortGives, Zenon
  <2>b. PICK sorted : sorted = [i \in 1 .. Len(s) |-> s[order[i]]] OBVIOUS
  <2>1. Ascending(sorted) /\ sorted \in Seq(Int) /\ Gives(sorted) BY <2>a, <2>b
  <2>2. Lists!Sorts(s, sorted) BY <1>1, <2>1, <2>b, SortedSorts
  <2> QED BY <2>1, <2>2 DEF Promised
<1>6. CASE \E item \in Added : Prepend(b, item)
  <2>1. PICK item \in Added : Prepend(b, item) BY <1>6
  <2>2. Gives(<<item>> \o s) BY <1>0, <2>1, AddedAssumption, PrependGives
  <2> QED BY <1>1, <2>2, EditPromised, Zenon DEF Promised
<1>7. CASE \E item \in Added : AppendItem(b, item)
  <2>1. PICK item \in Added : AppendItem(b, item) BY <1>7
  <2>2. Gives(s \o <<item>>) BY <1>0, <2>1, AddedAssumption, AppendItemGives
  <2> QED BY <1>1, <2>2, EditPromised, Zenon DEF Promised
<1>8. CASE \E other \in DOMAIN boxes : AppendContents(b, other)
  <2>1. PICK other \in 1 .. Len(boxes) : AppendContents(b, other) BY <1>2, <1>8
  <2>2. Gives(s \o Items(other)) BY <1>0, <2>1, AppendContentsGives
  <2> QED BY <2>2 DEF Promised
<1>9. CASE \E from \in Positions, to \in Positions : Slice(b, from, to)
  <2>1. PICK from \in Positions, to \in Positions : Slice(b, from, to) BY <1>9
  <2>2. from \in Int /\ to \in Int BY PositionsAssumption
  <2>3. Gives(Lists!Sliced(s, from, to)) BY <1>0, <1>1, <2>1, <2>2, SliceGives, SlicedIs
  <2> QED BY <1>1, <2>3, EditPromised, Zenon DEF Promised
<1>10. CASE \E at \in Positions : RemoveItem(b, at)
  <2>1. PICK at \in Positions : RemoveItem(b, at) BY <1>10
  <2>2. at \in Int /\ Len(s) \in Nat BY <1>1, PositionsAssumption
  <2>3. PICK p : p = PositionFromEnd(at, Len(s)) OBVIOUS
  <2>4. p \in 0 .. Len(s) - 1 /\ Gives(Without(s, p))
    BY <1>0, <2>1, <2>2, <2>3, RemoveGives, Zenon
  <2>5. p \in Nat BY <2>2, <2>4, SMT
  <2>6. Lists!Removed(s, at) = Without(s, p) BY <1>1, <2>2, <2>3, <2>5, RemovedIs
  <2>7. Lists!Names(s, at) BY <1>1, <2>2, <2>3, <2>4, Places, Zenon DEF Lists!Names
  <2>8. Lists!Removed(s, at) \in Lists!Edits(s)
    BY <1>1, <2>1, <2>7, EditPromised, Zenon
  <2> QED BY <2>4, <2>6, <2>8 DEF Promised
<1>11. CASE \E item \in Added, at \in Positions : Insert(b, item, at)
  <2>1. PICK item \in Added, at \in Positions : Insert(b, item, at) BY <1>11
  <2>2. item \in Int /\ at \in Int BY AddedAssumption, PositionsAssumption
  <2>3. Gives(Lists!Inserted(s, item, at)) BY <1>0, <1>1, <2>1, <2>2, InsertGives, InsertedIs
  <2> QED BY <1>1, <2>3, EditPromised, Zenon DEF Promised
<1>12. CASE \E item \in Added, at \in Positions : Replace(b, item, at)
  <2>1. PICK item \in Added, at \in Positions : Replace(b, item, at) BY <1>12
  <2>2. item \in Int /\ at \in Int /\ Len(s) \in Nat
    BY <1>1, AddedAssumption, PositionsAssumption
  <2>3. PICK p : p = PositionFromEnd(at, Len(s)) OBVIOUS
  <2>4. p \in 0 .. Len(s) - 1 /\ Gives(ReplaceAt(s, p + 1, item))
    BY <1>0, <2>1, <2>2, <2>3, ReplaceGives, Zenon
  <2>5. p \in Nat BY <2>2, <2>4, SMT
  <2>6. Lists!Replaced(s, item, at) = ReplaceAt(s, p + 1, item)
    BY <1>1, <2>2, <2>3, <2>5, ReplacedIs
  <2>7. Lists!Names(s, at) BY <1>1, <2>2, <2>3, <2>4, Places, Zenon DEF Lists!Names
  <2>8. Lists!Replaced(s, item, at) \in Lists!Edits(s)
    BY <1>1, <2>1, <2>7, EditPromised, Zenon
  <2> QED BY <2>4, <2>6, <2>8 DEF Promised
<1> QED
  BY <1>3, <1>4, <1>5, <1>6, <1>7, <1>8, <1>9, <1>10, <1>11, <1>12, Zenon DEF Edit

-----------------------------------------------------------------------------
(* A walk reads the same items until it ends, whatever the natives push.     *)

\* A walk that has begun counts no more of a run than is there.
WalkFits(h, w) ==
  /\ w \in Walk
  /\ w.position <= w.frontCount + w.backCount
  /\ w.backCount # 0 => w.back \in 1 .. Len(h) /\ w.backCount <= Len(h[w.back])
  /\ w.frontCount # 0 => w.front \in 1 .. Len(h) /\ w.frontCount <= Len(h[w.front])

\* What the walk w has still to visit, read from the heap h.
ToVisit(h, w) ==
  [k \in 1 .. Total(w) - w.position |-> ItemOfView(h, w, w.position + k - 1)]

\* The counts of a walk.
LEMMA WalkCounts ==
  ASSUME NEW w \in Walk
  PROVE  /\ w.frontCount \in Nat /\ w.backCount \in Nat /\ w.position \in Nat
         /\ Total(w) = w.frontCount + w.backCount /\ Total(w) \in Nat
BY SMT DEF Walk, Total

\* One item of a walk is an integer, and the same over every heap that extends.
LEMMA WalkItem ==
  ASSUME NEW h \in Heap, NEW w, WalkFits(h, w), NEW q \in Nat, q < w.frontCount + w.backCount
  PROVE  /\ ItemOfView(h, w, q) \in Int
         /\ \A g \in Heap : Extended(h, g) => ItemOfView(g, w, q) = ItemOfView(h, w, q)
<1>0. w \in Walk BY DEF WalkFits
<1>1. PICK f, n : f = w.frontCount /\ n = w.backCount OBVIOUS
<1>2. f \in Nat /\ n \in Nat BY <1>0, <1>1, WalkCounts
<1>3. CASE q < f
  <2>1. PICK i : i = f - q OBVIOUS
  <2>2. i \in 1 .. f BY <1>2, <1>3, <2>1, SMT
  <2>3. w.front \in 1 .. Len(h) /\ f <= Len(h[w.front])
    BY <1>1, <1>2, <1>3, SMT DEF WalkFits
  <2>4. h[w.front] \in Seq(Int) BY <2>3, SMT DEF Heap
  <2>5. i \in 1 .. Len(h[w.front]) BY <1>2, <2>2, <2>3, <2>4, SMT
  <2>6. h[w.front][i] \in Int BY <2>4, <2>5
  <2>7. \A g : ItemOfView(g, w, q) = g[w.front][i]
    BY <1>1, <1>3, <2>1, Zenon DEF ItemOfView
  <2>8. \A g \in Heap : Extended(h, g) => g[w.front][i] = h[w.front][i]
    BY <2>3, <2>5, Zenon DEF Extended
  <2> QED BY <2>6, <2>7, <2>8
<1>4. CASE ~(q < f)
  <2>1. PICK i : i = q - f + 1 OBVIOUS
  <2>2. i \in 1 .. n BY <1>1, <1>2, <1>4, <2>1, SMT
  <2>3. w.back \in 1 .. Len(h) /\ n <= Len(h[w.back])
    BY <1>1, <1>2, <2>2, SMT DEF WalkFits
  <2>4. h[w.back] \in Seq(Int) BY <2>3, SMT DEF Heap
  <2>5. i \in 1 .. Len(h[w.back]) BY <1>2, <2>2, <2>3, <2>4, SMT
  <2>6. h[w.back][i] \in Int BY <2>4, <2>5
  <2>7. \A g : ItemOfView(g, w, q) = g[w.back][i]
    BY <1>1, <1>4, <2>1, Zenon DEF ItemOfView
  <2>8. \A g \in Heap : Extended(h, g) => g[w.back][i] = h[w.back][i]
    BY <2>3, <2>5, Zenon DEF Extended
  <2> QED BY <2>6, <2>7, <2>8
<1> QED BY <1>3, <1>4

\* What is still to visit, item by item.
LEMMA VisitItems ==
  ASSUME NEW h \in Heap, NEW w, WalkFits(h, w), NEW n, n = Total(w) - w.position
  PROVE  /\ n \in Nat /\ ToVisit(h, w) \in Seq(Int) /\ Len(ToVisit(h, w)) = n
         /\ \A k \in 1 .. n : ToVisit(h, w)[k] = ItemOfView(h, w, w.position + k - 1)
<1>1. w \in Walk BY DEF WalkFits
<1>2. PICK f \in Nat, b \in Nat, p \in Nat :
        f = w.frontCount /\ b = w.backCount /\ p = w.position /\ Total(w) = f + b
  BY <1>1, WalkCounts
<1>3. p <= f + b BY <1>2 DEF WalkFits
<1>4. n \in Nat BY <1>2, <1>3, SMT
<1>5. ASSUME NEW k \in 1 .. n PROVE ItemOfView(h, w, w.position + k - 1) \in Int
  <2>1. PICK q : q = p + k - 1 OBVIOUS
  <2>2. q \in Nat /\ q < f + b BY <1>2, <1>3, <1>4, <2>1, SMT
  <2>3. ItemOfView(h, w, q) \in Int BY <1>2, <2>2, WalkItem
  <2> QED BY <1>2, <2>1, <2>3
<1>6. ToVisit(h, w) = [k \in 1 .. n |-> ItemOfView(h, w, w.position + k - 1)]
  BY Zenon DEF ToVisit
<1>7. ToVisit(h, w) \in [1 .. n -> Int] BY <1>5, <1>6
<1>8. ToVisit(h, w) \in Seq(Int) BY <1>4, <1>7
<1>9. Len(ToVisit(h, w)) = n BY <1>4, <1>7, <1>8, SMT
<1> QED BY <1>4, <1>6, <1>8, <1>9

\* What the natives push does not show in a walk.
LEMMA WalkExtended ==
  ASSUME NEW h \in Heap, NEW g \in Heap, Extended(h, g), NEW w, WalkFits(h, w)
  PROVE  WalkFits(g, w) /\ ToVisit(g, w) = ToVisit(h, w)
<1>1. WalkFits(g, w)
  <2>1. ASSUME NEW a \in 1 .. Len(h) PROVE a \in 1 .. Len(g) /\ Len(h[a]) <= Len(g[a])
    BY SMT DEF Extended, Heap
  <2>2. w \in Walk BY DEF WalkFits
  <2>3. w.frontCount \in Nat /\ w.backCount \in Nat BY <2>2, WalkCounts
  <2>4. w.backCount # 0 => w.back \in 1 .. Len(g) /\ w.backCount <= Len(g[w.back])
    BY <2>1, <2>3, SMTT(30) DEF WalkFits, Heap
  <2>5. w.frontCount # 0 => w.front \in 1 .. Len(g) /\ w.frontCount <= Len(g[w.front])
    BY <2>1, <2>3, SMTT(30) DEF WalkFits, Heap
  <2> QED BY <2>2, <2>4, <2>5 DEF WalkFits
<1>2. PICK n : n = Total(w) - w.position OBVIOUS
<1>3. ASSUME NEW k \in 1 .. n
      PROVE  ItemOfView(g, w, w.position + k - 1) = ItemOfView(h, w, w.position + k - 1)
  <2>1. w \in Walk /\ n \in Nat BY <1>2, VisitItems DEF WalkFits
  <2>2. PICK q : q = w.position + k - 1 OBVIOUS
  <2>3. q \in Nat /\ q < w.frontCount + w.backCount
    BY <1>2, <2>1, <2>2, WalkCounts, SMT
  <2> QED BY <2>2, <2>3, WalkItem
<1>4. ToVisit(h, w) = [k \in 1 .. n |-> ItemOfView(h, w, w.position + k - 1)]
  BY <1>2, Zenon DEF ToVisit
<1>5. ToVisit(g, w) = [k \in 1 .. n |-> ItemOfView(g, w, w.position + k - 1)]
  BY <1>2, Zenon DEF ToVisit
<1> QED BY <1>1, <1>3, <1>4, <1>5

\* A walk that begins has all its List's items to visit.
LEMMA WalkBegins ==
  ASSUME NEW h \in Heap, NEW box, Fits(h, box), NEW view, view = RunsOf(h, box),
         NEW w \in Walk, w.position = 0, w.back = view.back, w.backCount = view.backCount,
         w.front = view.front, w.frontCount = view.frontCount
  PROVE  WalkFits(h, w) /\ ToVisit(h, w) = Shown(h, box)
<1>1. PICK f, n, s : f = view.frontCount /\ n = view.backCount /\ s = Shown(h, box) OBVIOUS
<1>2. Holds(h, view.front, f, view.back, n, s) BY <1>1, BoxShows
<1>3. f \in Nat /\ n \in Nat /\ s \in Seq(Int) /\ Len(s) = f + n BY <1>2 DEF Holds
<1>4. WalkFits(h, w)
  <2>1. view.back \in 1 .. Len(h) /\ view.backCount \in 0 .. Len(h[view.back])
    BY Runs, Zenon
  <2>2. view.front = undefined => f = 0 BY <1>1, Runs, Zenon
  <2>3. view.front # undefined =>
          view.front \in 1 .. Len(h) /\ view.frontCount \in 0 .. Len(h[view.front])
    BY Runs, Zenon
  <2>4. 0 <= f + n BY <1>3, SMT
  <2> QED BY <1>1, <2>1, <2>2, <2>3, <2>4 DEF WalkFits
<1>5. PICK t : t = ToVisit(h, w) OBVIOUS
<1>6. Total(w) - w.position = f + n BY <1>1, <1>3, SMT DEF Total
<1>7. /\ t \in Seq(Int) /\ Len(t) = f + n
      /\ \A k \in 1 .. f + n : t[k] = ItemOfView(h, w, w.position + k - 1)
  BY <1>4, <1>5, <1>6, VisitItems
<1>8. ASSUME NEW k \in 1 .. f + n PROVE t[k] = s[k]
  <2>1. PICK q : q = k - 1 OBVIOUS
  <2>2. q \in Nat /\ w.position + k - 1 = q BY <1>3, <2>1, SMT
  <2>3. t[k] = ItemOfView(h, w, q) BY <1>7, <2>2
  <2>4. CASE q < f
    <3>1. k \in 1 .. f /\ f - q = f - k + 1 BY <1>3, <2>1, <2>4, SMT
    <3>2. ItemOfView(h, w, q) = h[view.front][f - q]
      BY <1>1, <2>4, Zenon DEF ItemOfView
    <3> QED BY <1>2, <2>3, <3>1, <3>2 DEF Holds
  <2>5. CASE ~(q < f)
    <3>1. PICK i : i = q - f + 1 OBVIOUS
    <3>2. i \in 1 .. n /\ f + i = k BY <1>3, <2>1, <2>5, <3>1, SMT
    <3>3. ItemOfView(h, w, q) = h[view.back][i]
      BY <1>1, <2>5, <3>1, Zenon DEF ItemOfView
    <3> QED BY <1>2, <2>3, <3>2, <3>3 DEF Holds
  <2> QED BY <2>4, <2>5
<1>9. t = s BY <1>3, <1>7, <1>8, SeqEqual
<1> QED BY <1>1, <1>4, <1>5, <1>9

\* A walk that is over has nothing to visit.
LEMMA WalkEnds ==
  ASSUME NEW h, NEW w, w \in Walk, w.position = Total(w)
  PROVE  ToVisit(h, w) = <<>>
<1>1. Total(w) - w.position = 0 BY WalkCounts, SMT
<1>2. ToVisit(h, w) = [k \in 1 .. 0 |-> ItemOfView(h, w, w.position + k - 1)]
  BY <1>1, Zenon DEF ToVisit
<1>3. 1 .. 0 = {} BY SMT
<1> QED BY <1>2, <1>3

\* A visit takes the first item.
LEMMA WalkVisits ==
  ASSUME NEW h \in Heap, NEW w, WalkFits(h, w), Total(w) - w.position # 0,
         NEW v \in Walk, v = [w EXCEPT !.position = @ + 1]
  PROVE  /\ WalkFits(h, v)
         /\ ToVisit(h, w) # <<>>
         /\ ToVisit(h, v) = Tail(ToVisit(h, w))
<1>1. w \in Walk BY DEF WalkFits
<1>2. PICK f \in Nat, b \in Nat, p \in Nat :
        f = w.frontCount /\ b = w.backCount /\ p = w.position /\ Total(w) = f + b
  BY <1>1, WalkCounts
<1>3. /\ v.frontCount = f /\ v.backCount = b /\ v.position = p + 1
      /\ v.front = w.front /\ v.back = w.back
  BY <1>1, <1>2, SMT DEF Walk
<1>4. p < f + b
  <2>1. p <= f + b BY <1>2 DEF WalkFits
  <2>2. (f + b) - p # 0 BY <1>2
  <2> QED BY <2>1, <2>2, SMT
<1>5. WalkFits(h, v)
  <2>1. v.position <= v.frontCount + v.backCount BY <1>2, <1>3, <1>4, SMT
  <2> QED BY <1>2, <1>3, <2>1 DEF WalkFits
<1>6. PICK n \in Nat : n = f + b - (p + 1) BY <1>4, SMT
<1>7. /\ Total(w) - w.position = n + 1 /\ Total(v) = f + b
      /\ Total(v) - v.position = n
  BY <1>2, <1>3, <1>6, SMT DEF Total
<1>8. PICK t, u : t = ToVisit(h, w) /\ u = ToVisit(h, v) OBVIOUS
<1>9. /\ t \in Seq(Int) /\ Len(t) = n + 1
      /\ \A k \in 1 .. n + 1 : t[k] = ItemOfView(h, w, w.position + k - 1)
  BY <1>7, <1>8, VisitItems
<1>10. /\ u \in Seq(Int) /\ Len(u) = n
       /\ \A k \in 1 .. n : u[k] = ItemOfView(h, v, v.position + k - 1)
  BY <1>5, <1>7, <1>8, VisitItems, ZenonT(30)
<1>11. t # <<>> BY <1>9, SMT
<1>12. Tail(t) \in Seq(Int) /\ Len(Tail(t)) = n /\ \A k \in 1 .. n : Tail(t)[k] = t[k + 1]
  BY <1>9, <1>11, SMT
<1>13. ASSUME NEW k \in 1 .. n PROVE u[k] = Tail(t)[k]
  <2>1. PICK q : q = p + k OBVIOUS
  <2>2. /\ v.position + k - 1 = q /\ w.position + (k + 1) - 1 = q
        /\ k + 1 \in 1 .. n + 1
    BY <1>2, <1>3, <2>1, SMT
  <2>3. v.frontCount = w.frontCount /\ v.front = w.front /\ v.back = w.back
    BY <1>2, <1>3
  <2>6. ItemOfView(h, v, q) = ItemOfView(h, w, q) BY <2>3, SMT DEF ItemOfView
  <2>4. u[k] = ItemOfView(h, v, q) BY <1>10, <2>2
  <2>5. t[k + 1] = ItemOfView(h, w, q) BY <1>9, <2>2
  <2> QED BY <1>12, <2>4, <2>5, <2>6
<1>14. u = Tail(t) BY <1>10, <1>12, <1>13, SeqEqual
<1> QED BY <1>5, <1>8, <1>11, <1>14

-----------------------------------------------------------------------------
(* The natives implement the immutable Lists.                                *)

\* The Lists that boxes show.
Shelf(h, bs) == [b \in 1 .. Len(bs) |-> Shown(h, bs[b])]

\* Boxes that show what they showed are the same Lists.
LEMMA ShelfKept ==
  ASSUME NEW h, NEW bs \in Seq(Box), NEW g, NEW cs \in Seq(Box),
         Same(h, bs, g, cs), Len(cs) = Len(bs)
  PROVE  Shelf(g, cs) = Shelf(h, bs)
<1>1. \A b \in 1 .. Len(bs) : Shown(g, cs[b]) = Shown(h, bs[b]) BY DEF Same
<1> QED BY <1>1, Zenon DEF Shelf

\* A sound heap shows one List for every box.
LEMMA ShelfIs ==
  ASSUME NEW h, NEW bs, Sound(h, bs)
  PROVE  /\ Shelf(h, bs) \in Seq(Seq(Int)) /\ Len(Shelf(h, bs)) = Len(bs)
         /\ DOMAIN Shelf(h, bs) = 1 .. Len(bs)
         /\ \A b \in 1 .. Len(bs) : Shelf(h, bs)[b] = Shown(h, bs[b])
<1>1. Len(bs) \in Nat /\ h \in Heap BY DEF Sound
<1>2. \A b \in 1 .. Len(bs) : Shown(h, bs[b]) \in Seq(Int)
  BY <1>1, ShownIsSeq DEF Sound
<1>3. PICK s : s = Shelf(h, bs) OBVIOUS
<1>4. s = [b \in 1 .. Len(bs) |-> Shown(h, bs[b])] BY <1>3, Zenon DEF Shelf
<1>5. s \in [1 .. Len(bs) -> Seq(Int)] BY <1>2, <1>4
<1>6. s \in Seq(Seq(Int)) BY <1>1, <1>5
<1>7. Len(s) = Len(bs) BY <1>1, <1>5, <1>6, SMT
<1> QED BY <1>3, <1>4, <1>5, <1>6, <1>7

\* One answer more.
LEMMA ShelfGrows ==
  ASSUME Sound(heap, boxes), Sound(heap', boxes'), Same(heap, boxes, heap', boxes'),
         NEW items, Gives(items)
  PROVE  /\ Shelf(heap', boxes') = Append(Shelf(heap, boxes), items)
         /\ items \in Seq(Int)
<1>1. PICK n \in Nat : n = Len(boxes) BY DEF Sound
<1>2. Len(boxes') = n + 1 /\ Shown(heap', boxes'[n + 1]) = items
  BY <1>1, Zenon DEF Gives
<1>3. PICK s, t : s = Shelf(heap, boxes) /\ t = Shelf(heap', boxes') OBVIOUS
<1>4. /\ s \in Seq(Seq(Int)) /\ Len(s) = n
      /\ \A b \in 1 .. n : s[b] = Shown(heap, boxes[b])
  BY <1>1, <1>3, ShelfIs
<1>5. /\ t \in Seq(Seq(Int)) /\ Len(t) = n + 1
      /\ \A b \in 1 .. n + 1 : t[b] = Shown(heap', boxes'[b])
  BY <1>2, <1>3, ShelfIs
<1>6. n + 1 \in 1 .. n + 1 BY SMT
<1>7. t[n + 1] = items BY <1>2, <1>5, <1>6
<1>8. items \in Seq(Int) BY <1>5, <1>6, <1>7, SMT
<1>9. \A b \in 1 .. n : t[b] = s[b]
  <2> SUFFICES ASSUME NEW b \in 1 .. n PROVE t[b] = s[b] OBVIOUS
  <2>1. b \in 1 .. n + 1 BY SMT
  <2> QED BY <1>1, <1>4, <1>5, <2>1 DEF Same
<1>10. PICK u : u = Append(s, items) OBVIOUS
<1>11. /\ u \in Seq(Seq(Int)) /\ Len(u) = n + 1 /\ u[n + 1] = items
       /\ \A b \in 1 .. n : u[b] = s[b]
  BY <1>4, <1>8, <1>10, SMT
<1>12. \A b \in 1 .. n + 1 : t[b] = u[b]
  <2> SUFFICES ASSUME NEW b \in 1 .. n + 1 PROVE t[b] = u[b] OBVIOUS
  <2>1. b = n + 1 \/ b \in 1 .. n BY SMT
  <2> QED BY <1>7, <1>9, <1>11, <2>1
<1>13. t = u BY <1>5, <1>11, <1>12, SeqEqual
<1> QED BY <1>3, <1>8, <1>10, <1>13

\* The refinement mapping, in these terms.
LEMMA Mapped ==
  ASSUME IInv
  PROVE  /\ [b \in DOMAIN boxes |-> Items(b)] = Shelf(heap, boxes)
         /\ Remaining = ToVisit(heap, walk)
<1>1. DOMAIN boxes = 1 .. Len(boxes) BY DEF IInv, Sound
<1>2. [b \in DOMAIN boxes |-> Items(b)] = Shelf(heap, boxes)
  BY <1>1, Zenon DEF Items, Shelf, Shown
<1>3. Remaining = ToVisit(heap, walk) BY Zenon DEF Remaining, ToVisit, StillToVisit
<1> QED BY <1>2, <1>3

\* The same of the next state.
LEMMA MappedNext ==
  ASSUME IInv'
  PROVE  /\ [b \in DOMAIN boxes |-> Items(b)]' = Shelf(heap', boxes')
         /\ Remaining' = ToVisit(heap', walk')
<1>1. DOMAIN boxes' = 1 .. Len(boxes') BY DEF IInv, Sound
<1>2. [b \in DOMAIN boxes |-> Items(b)]' = Shelf(heap', boxes')
  BY <1>1, Zenon DEF Items, Shelf, Shown
<1>3. Remaining' = ToVisit(heap', walk') BY Zenon DEF Remaining, ToVisit, StillToVisit
<1> QED BY <1>2, <1>3

\* The discipline, and a walk that counts what is there.
LInv == IInv /\ WalkFits(heap, walk)

\* A step the abstract Lists take, and the invariant after it.
Follows == LInv' /\ [Lists!Next]_(Lists!vars)

\* What one answer does to the Lists and to the walk.
LEMMA AnswersOnce ==
  ASSUME LInv, Kept, walk' = walk, NEW items, Gives(items)
  PROVE  /\ LInv'
         /\ [b \in DOMAIN boxes |-> Items(b)]'
              = Append([b \in DOMAIN boxes |-> Items(b)], items)
         /\ Remaining' = Remaining
         /\ items \in Seq(Int)
<1>1. Sound(heap, boxes) /\ heap \in Heap /\ IInv BY DEF LInv, IInv, Sound
<1>2. /\ IInv' /\ Sound(heap', boxes') /\ heap' \in Heap
      /\ Same(heap, boxes, heap', boxes')
  BY DEF Kept, IInv, Sound
<1>3. Extended(heap, heap') BY Zenon DEF Gives
<1>4. WalkFits(heap', walk) /\ ToVisit(heap', walk) = ToVisit(heap, walk)
  BY <1>1, <1>2, <1>3, WalkExtended DEF LInv
<1>5. LInv' BY <1>2, <1>4 DEF LInv
<1>6. Shelf(heap', boxes') = Append(Shelf(heap, boxes), items) /\ items \in Seq(Int)
  BY <1>1, <1>2, ShelfGrows
<1> QED BY <1>1, <1>2, <1>4, <1>5, <1>6, Mapped, MappedNext, Zenon

\* A Literal is an answer.
LEMMA CreateFollows ==
  ASSUME LInv, Kept, NEW items \in Literals, Create(items)
  PROVE  Follows
<1>1. items \in Seq(Int) BY LiteralsAssumption
<1>2. walk' = walk BY DEF Create, AnswerFresh
<1>3. Gives(items) BY <1>1, CreateGives DEF LInv, IInv
<1>4. /\ LInv'
      /\ [b \in DOMAIN boxes |-> Items(b)]'
           = Append([b \in DOMAIN boxes |-> Items(b)], items)
      /\ Remaining' = Remaining
  BY <1>2, <1>3, AnswersOnce
<1>5. items \in Lists!Answers BY DEF Lists!Answers
<1>6. Lists!Answer BY <1>4, <1>5, Zenon DEF Lists!Answer
<1> QED BY <1>4, <1>6 DEF Follows, Lists!Next

\* Every native answers as one List, two Lists or a sort promises.
LEMMA EditFollows ==
  ASSUME LInv, Kept, NEW b \in DOMAIN boxes, Edit(b)
  PROVE  Follows
<1>0. DOMAIN boxes = 1 .. Len(boxes) /\ Sound(heap, boxes) BY DEF LInv, IInv, Sound
<1>1. walk' = walk BY EditLeavesWalk
<1>2. PICK items : Gives(items) /\ Promised(Items(b), items) BY <1>0, EditGives
<1>3. PICK lists : lists = [c \in DOMAIN boxes |-> Items(c)] OBVIOUS
<1>4. /\ LInv'
      /\ [c \in DOMAIN boxes |-> Items(c)]' = Append(lists, items)
      /\ Remaining' = Remaining
      /\ items \in Seq(Int)
  BY <1>1, <1>2, <1>3, AnswersOnce
<1>5. DOMAIN lists = DOMAIN boxes /\ \A c \in DOMAIN boxes : lists[c] = Items(c) BY <1>3
<1>6. CASE items \in Lists!Edits(Items(b))
  <2>1. PICK l \in DOMAIN lists : items \in Lists!Edits(lists[l]) BY <1>5, <1>6
  <2>2. items \in Lists!Answers BY <1>3, <2>1 DEF Lists!Answers
  <2>3. Lists!Answer BY <1>3, <1>4, <2>2, Zenon DEF Lists!Answer
  <2> QED BY <1>4, <2>3 DEF Follows, Lists!Next
<1>7. CASE \E c \in 1 .. Len(boxes) : items = Items(b) \o Items(c)
  <2>1. PICK l \in DOMAIN lists, m \in DOMAIN lists : items = lists[l] \o lists[m]
    BY <1>0, <1>5, <1>7
  <2>2. items \in Lists!Answers BY <1>3, <2>1 DEF Lists!Answers
  <2>3. Lists!Answer BY <1>3, <1>4, <2>2, Zenon DEF Lists!Answer
  <2> QED BY <1>4, <2>3 DEF Follows, Lists!Next
<1>8. CASE Lists!Sorts(Items(b), items)
  <2>1. lists \in Seq(Seq(Int))
    BY <1>0, <1>3, ShelfIs, Mapped DEF LInv
  <2>2. Lists!Last(Append(lists, items)) = items
    BY <1>4, <2>1, SMT DEF Lists!Last
  <2>3. Lists!Sort(b)
    BY <1>3, <1>4, <1>5, <1>8, <2>2, Zenon DEF Lists!Sort
  <2>4. b \in DOMAIN lists BY <1>5
  <2> QED BY <1>3, <1>4, <2>3, <2>4 DEF Follows, Lists!Next
<1> QED BY <1>2, <1>6, <1>7, <1>8 DEF Promised

\* A walk begins with the items of its List, however the box was read.
LEMMA WalkFollows ==
  ASSUME LInv, Kept, NEW b \in DOMAIN boxes, StartWalk(b) \/ StartInlinedWalk(b)
  PROVE  Follows
<1>0. /\ DOMAIN boxes = 1 .. Len(boxes) /\ Sound(heap, boxes) /\ heap \in Heap
      /\ IInv /\ IInv' /\ boxes \in Seq(Box) /\ boxes' \in Seq(Box)
      /\ Fits(heap, boxes[b]) /\ walk \in Walk /\ walk' \in Walk
      /\ Same(heap, boxes, heap', boxes')
  BY DEF LInv, Kept, IInv, Sound
<1>1. PICK read : /\ WalkOf(read, b)
                  /\ read.heap \in Heap /\ Grown(heap, read.heap)
                  /\ Stands(heap, boxes[b], read.heap, read.box)
  <2>1. CASE StartWalk(b) BY <1>0, <2>1, TrimmedStands, Zenon DEF StartWalk
  <2>2. CASE StartInlinedWalk(b)
    BY <1>0, <2>2, MaterialisedStands, Zenon DEF StartInlinedWalk
  <2> QED BY <2>1, <2>2
<1>2. PICK view : view = RunsOf(read.heap, read.box) OBVIOUS
<1>3. /\ StillToVisit = 0 /\ heap' = read.heap
      /\ boxes' = [boxes EXCEPT ![b] = read.box]
      /\ walk' = [back |-> view.back, backCount |-> view.backCount,
                  front |-> view.front, frontCount |-> view.frontCount, position |-> 0]
  BY <1>1, <1>2, Zenon DEF WalkOf, WalkOver
<1>4. Fits(heap', read.box) /\ Shown(heap', read.box) = Shown(heap, boxes[b])
  BY <1>1, <1>3 DEF Stands
<1>5. PICK w \in Walk : w = walk' BY <1>0
<1>6. /\ w.position = 0 /\ w.back = view.back /\ w.backCount = view.backCount
      /\ w.front = view.front /\ w.frontCount = view.frontCount
  BY <1>3, <1>5
<1>7. heap' \in Heap /\ view = RunsOf(heap', read.box) BY <1>1, <1>2, <1>3
<1>8. WalkFits(heap', w) /\ ToVisit(heap', w) = Shown(heap', read.box)
  BY <1>4, <1>6, <1>7, WalkBegins
<1>9. LInv' BY <1>0, <1>5, <1>8 DEF LInv
<1>10. Remaining = <<>>
  <2>1. walk.position = Total(walk)
    <3>1. Total(walk) - walk.position = 0 BY <1>3 DEF StillToVisit
    <3> QED BY <1>0, <3>1, WalkCounts, SMT
  <2> QED BY <1>0, <2>1, WalkEnds, Mapped
<1>11. Remaining' = Items(b)
  BY <1>0, <1>4, <1>5, <1>8, MappedNext, Zenon DEF Items, Shown
<1>12. [c \in DOMAIN boxes |-> Items(c)]' = [c \in DOMAIN boxes |-> Items(c)]
  <2>1. Len(boxes') = Len(boxes) BY <1>0, <1>3
  <2>2. Shelf(heap', boxes') = Shelf(heap, boxes) BY <1>0, <2>1, ShelfKept
  <2> QED BY <1>0, <2>2, Mapped, MappedNext, Zenon
<1>13. PICK lists : lists = [c \in DOMAIN boxes |-> Items(c)] OBVIOUS
<1>14. b \in DOMAIN lists /\ lists[b] = Items(b) BY <1>13
<1>15. Lists!StartWalk(b) BY <1>10, <1>11, <1>12, <1>13, <1>14, Zenon DEF Lists!StartWalk
<1> QED BY <1>9, <1>13, <1>14, <1>15 DEF Follows, Lists!Next

\* A step that moves the walk alone leaves the Lists as they are.
LEMMA ListsStay ==
  ASSUME IInv, IInv', heap' = heap, boxes' = boxes
  PROVE  [c \in DOMAIN boxes |-> Items(c)]' = [c \in DOMAIN boxes |-> Items(c)]
BY Mapped, MappedNext, Zenon

\* A visit takes the first item that is left.
LEMMA VisitFollows ==
  ASSUME LInv, Kept, Visit
  PROVE  Follows
<1>0. IInv /\ IInv' /\ heap \in Heap /\ walk' \in Walk /\ WalkFits(heap, walk)
  BY DEF LInv, Kept, IInv, Sound
<1>1. /\ heap' = heap /\ boxes' = boxes
      /\ walk' = [walk EXCEPT !.position = @ + 1] /\ Total(walk) - walk.position # 0
  BY DEF Visit, WalkOver, StillToVisit
<1>2. /\ WalkFits(heap, walk') /\ ToVisit(heap, walk) # <<>>
      /\ ToVisit(heap, walk') = Tail(ToVisit(heap, walk))
  BY <1>0, <1>1, WalkVisits
<1>3. LInv' BY <1>0, <1>1, <1>2 DEF LInv
<1>4. Remaining # <<>> /\ Remaining' = Tail(Remaining)
  BY <1>0, <1>1, <1>2, Mapped, MappedNext, Zenon
<1>5. Lists!Visit BY <1>0, <1>1, <1>4, ListsStay, Zenon DEF Lists!Visit
<1> QED BY <1>3, <1>5 DEF Follows, Lists!Next

\* Leaving a walk leaves nothing to visit.
LEMMA LeaveFollows ==
  ASSUME LInv, Kept, Leave
  PROVE  Follows
<1>0. IInv /\ IInv' /\ heap \in Heap /\ walk \in Walk /\ walk' \in Walk /\ WalkFits(heap, walk)
  BY DEF LInv, Kept, IInv, Sound
<1>1. heap' = heap /\ boxes' = boxes /\ walk' = [walk EXCEPT !.position = Total(walk)]
  BY DEF Leave
<1>2. PICK v \in Walk : v = walk' BY <1>0
<1>3. /\ v.frontCount = walk.frontCount /\ v.backCount = walk.backCount
      /\ v.position = Total(walk) /\ v.front = walk.front /\ v.back = walk.back
  BY <1>0, <1>1, <1>2, SMT DEF Walk
<1>4. Total(v) = Total(walk) /\ Total(v) = v.frontCount + v.backCount
  BY <1>3, Zenon DEF Total
<1>5. v.position <= v.frontCount + v.backCount BY <1>2, <1>3, <1>4, WalkCounts, SMT
<1>6. WalkFits(heap', walk') BY <1>0, <1>1, <1>2, <1>3, <1>5 DEF WalkFits
<1>7. LInv' BY <1>0, <1>6 DEF LInv
<1>8. Remaining' = <<>> BY <1>0, <1>2, <1>3, <1>4, WalkEnds, MappedNext, Zenon
<1>9. Lists!Leave BY <1>0, <1>1, <1>8, ListsStay, Zenon DEF Lists!Leave
<1> QED BY <1>7, <1>9 DEF Follows, Lists!Next

\* Every step is a step of the immutable Lists or none.
LEMMA StepFollows ==
  ASSUME LInv, [Next]_vars
  PROVE  Follows
<1>1. Kept BY StepKeeps DEF LInv
<1>2. ASSUME NEW items \in Literals, Create(items) PROVE Follows BY <1>1, <1>2, CreateFollows
<1>3. ASSUME NEW b \in DOMAIN boxes, Edit(b) PROVE Follows BY <1>1, <1>3, EditFollows
<1>4. ASSUME NEW b \in DOMAIN boxes, StartWalk(b) \/ StartInlinedWalk(b) PROVE Follows
  BY <1>1, <1>4, WalkFollows
<1>5. CASE Visit BY <1>1, <1>5, VisitFollows
<1>6. CASE Leave BY <1>1, <1>6, LeaveFollows
<1>7. CASE UNCHANGED vars
  <2>1. heap' = heap /\ boxes' = boxes /\ walk' = walk BY <1>7 DEF vars
  <2>2. IInv /\ IInv' /\ WalkFits(heap, walk) BY <1>1 DEF Kept, LInv
  <2>3. LInv' BY <2>1, <2>2 DEF LInv
  <2>4. Remaining' = Remaining BY <2>1, <2>2, Mapped, MappedNext, Zenon
  <2>5. UNCHANGED Lists!vars BY <2>1, <2>2, <2>4, ListsStay, Zenon DEF Lists!vars
  <2> QED BY <2>3, <2>5 DEF Follows
<1> QED BY <1>2, <1>3, <1>4, <1>5, <1>6, <1>7, Zenon DEF Next

\* No List, and no walk.
LEMMA InitFollows ==
  ASSUME Init
  PROVE  LInv /\ Lists!Init
<1>1. IInv BY InitIsSound
<1>2. /\ heap = <<>> /\ boxes = <<>>
      /\ walk = [back |-> 0, backCount |-> 0, front |-> undefined, frontCount |-> 0,
                 position |-> 0]
  BY DEF Init
<1>3. walk.position = 0 /\ walk.frontCount = 0 /\ walk.backCount = 0 BY <1>2
<1>4. walk \in Walk BY <1>1 DEF IInv
<1>5. WalkFits(heap, walk) BY <1>3, <1>4, SMT DEF WalkFits
<1>6. walk.position = Total(walk) BY <1>3, <1>4, WalkCounts, SMT
<1>7. Remaining = <<>> BY <1>1, <1>4, <1>6, WalkEnds, Mapped, Zenon
<1>8. [b \in DOMAIN boxes |-> Items(b)] = <<>>
  <2>1. DOMAIN boxes = {} BY <1>2
  <2> QED BY <2>1
<1> QED BY <1>1, <1>5, <1>7, <1>8, Zenon DEF LInv, Lists!Init

\* Whatever the Literals, the items, the positions and the number of boxes: the
\* two runs of packages/runtime/src/List.ts compute immutable Lists.  Every
\* native answers with the List its method promises, and a walk visits what its
\* List held when it began although its callbacks push onto the Arrays it reads
\* (List.ts:81-90).
THEOREM ListsAreImplemented == Spec => ImplementsLists
<1>1. Init => LInv /\ Lists!Init BY InitFollows
<1>2. LInv /\ [Next]_vars => LInv' /\ [Lists!Next]_(Lists!vars) BY StepFollows DEF Follows
<1> QED BY <1>1, <1>2, PTL DEF Spec, ImplementsLists, Lists!Spec
=============================================================================
