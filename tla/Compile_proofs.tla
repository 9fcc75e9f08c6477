--------------------------- MODULE Compile_proofs ---------------------------
(***************************************************************************)
(* What holds of a compile, for any values of the constants: of the bundle *)
(* store that keeps what compiles have emitted, and of the session that    *)
(* compiles the entries of one run.                                        *)
(*                                                                         *)
(* The store: a reader sees a whole file because the only step that gives  *)
(* a file its final name is a rename of a temporary one that has been      *)
(* filled, and because nobody but its writer touches that one: a prune     *)
(* only removes what the directory lists under `.mjs`.                     *)
(*                                                                         *)
(* The session: its components hold their members' whole closure, no two   *)
(* of them share a file, and every entry is of one component at most,      *)
(* because the groups a graph is ordered into are the classes of mutual    *)
(* reach and a load unites every component that it meets.                  *)
(***************************************************************************)
EXTENDS BundleCache, CompileSession, FiniteSetTheorems, SequenceTheorems,
        NaturalsInduction, WellFoundedInduction, TLAPS

-----------------------------------------------------------------------------
(* The bundle store.                                                       *)

\* A compile underway has a key.
BusyHasKey == \A p \in Process : ~At(p, "idle") => key[p] \in Key

\* What a prune holds are names of bundles, not of maps or temporary files.
IsEntry(f) == f.writer = NoProcess /\ f.kind # "map"
PrunesEntries == \A p \in Process :
  /\ \A f \in listed[p] : IsEntry(f)
  /\ \A d \in doomed[p] : IsEntry(d.file)

\* What has been filled is there, and whole.
FilledIsWhole == \A p \in Process :
  At(p, "rename") => On(Temporary(p)) /\ disk[Temporary(p)].whole

\* What is there under a final name is whole.
FinalIsWhole == \A f \in File :
  f.writer = NoProcess /\ On(f) => disk[f].whole

IInv ==
  /\ TypeOK
  /\ BusyHasKey
  /\ PrunesEntries
  /\ FilledIsWhole
  /\ FinalIsWhole
  /\ \A p \in Process : seen[p] # "half"

\* What earlier sessions have left are whole files under final names.
LEMMA LeftIsWhole ==
  ASSUME NEW f \in File, LeftBy(f) # {}
  PROVE  f.writer = NoProcess /\ Left(f) \in Content /\ Left(f).whole
<1> USE CacheAssumption
<1>1. \A i \in LeftBy(f) : f \in Leaves(Before[i]) /\ i \in Nat
  BY DEF LeftBy
<1>2. f.writer = NoProcess
  BY <1>1 DEF Leaves, BundleFile, MapFile, Final
<1>3. (CHOOSE i \in LeftBy(f) : TRUE) \in Nat BY <1>1
<1> QED BY <1>2, <1>3 DEF Left, Content

LEMMA InitIInv == Init => IInv
<1> SUFFICES ASSUME Init PROVE IInv OBVIOUS
<1> USE CacheAssumption
<1>0. \A f \in File : LeftBy(f) # {} =>
        f.writer = NoProcess /\ Left(f) \in Content /\ Left(f).whole
  BY LeftIsWhole
<1>1. TypeOK
  <2>1. disk \in [File -> Content \cup {Absent}] BY <1>0 DEF Init
  <2>2. clock \in Nat BY DEF Init
  <2> QED BY <2>1, <2>2 DEF Init, TypeOK, Labels
<1>2. BusyHasKey /\ FilledIsWhole BY DEF Init, BusyHasKey, FilledIsWhole, At
<1>3. PrunesEntries /\ FinalIsWhole
  BY <1>0 DEF Init, PrunesEntries, FinalIsWhole, On
<1>4. \A p \in Process : seen[p] # "half" BY DEF Init
<1> QED BY <1>1, <1>2, <1>3, <1>4 DEF IInv

\* The names a process writes under are names of files; its temporary one is
\* its own.
LEMMA Names ==
  ASSUME IInv, NEW p \in Process, ~At(p, "idle")
  PROVE  /\ Target(p) \in File /\ Target(p).writer = NoProcess
         /\ Temporary(p) \in File /\ Temporary(p).writer = p
         /\ Temporary(p) # Target(p)
<1>1. key[p] \in Key /\ target[p] \in {"bundle", "map", "scratch"}
  BY DEF IInv, BusyHasKey, TypeOK
<1>2. Target(p) \in File /\ Target(p).writer = NoProcess
  BY <1>1 DEF Target, Final, File
<1>3. Temporary(p) \in File /\ Temporary(p).writer = p
  BY <1>2 DEF Temporary, TemporaryPath, File
<1> QED BY <1>2, <1>3, CacheAssumption

\* Steps that leave the directory and every prune alone: reading, and choosing
\* what to write.
LEMMA QuietSteps ==
  ASSUME IInv, NEW p \in Process,
         \/ \E k \in Key, spawns \in BOOLEAN : Begin(p, k, spawns)
         \/ ReadBundle(p) \/ ReadMap(p) \/ Emit(p) \/ Exists(p) \/ Lost(p)
         \/ Answer(p) \/ CutShort(p)
  PROVE  IInv'
<1> USE CacheAssumption DEF IInv, TypeOK, At, Goto, Labels
<1>1. CASE \E k \in Key, spawns \in BOOLEAN : Begin(p, k, spawns)
  <2> PICK k \in Key, spawns \in BOOLEAN : Begin(p, k, spawns) BY <1>1
  <2>1. TypeOK' BY DEF Begin, fileVars, pruneVars
  <2>2. BusyHasKey' BY DEF Begin, BusyHasKey
  <2>3. PrunesEntries' BY DEF Begin, PrunesEntries, pruneVars
  <2>4. \A q \in Process : At(q, "rename")' => At(q, "rename") /\ q # p
    BY DEF Begin
  <2>5. FilledIsWhole'
    BY <2>4 DEF Begin, FilledIsWhole, fileVars, Temporary, Target, On
  <2>6. FinalIsWhole' BY DEF Begin, FinalIsWhole, On, fileVars
  <2>7. \A q \in Process : seen'[q] # "half" BY DEF Begin
  <2> QED BY <2>1, <2>2, <2>3, <2>5, <2>6, <2>7
<1>2. CASE ReadBundle(p)
  <2> USE <1>2 DEF ReadBundle, fileVars, pruneVars, boundVars, ghosts
  <2>1. key[p] \in Key BY DEF BusyHasKey
  <2>2. On(BundleFile(key[p])) => Grade(BundleFile(key[p])) = "whole"
    BY <2>1 DEF FinalIsWhole, BundleFile, Final, File, Grade
  <2>3. TypeOK' BY <2>2
  <2>4. BusyHasKey' BY <2>1 DEF BusyHasKey
  <2>5. PrunesEntries' BY DEF PrunesEntries
  <2>6. FilledIsWhole' BY DEF FilledIsWhole, Temporary, Target, On
  <2>7. FinalIsWhole' BY DEF FinalIsWhole, On
  <2>8. \A q \in Process : seen'[q] # "half" BY <2>2
  <2> QED BY <2>3, <2>4, <2>5, <2>6, <2>7, <2>8
<1>3. CASE ReadMap(p)
  <2> USE <1>3 DEF ReadMap, WithoutMap, fileVars, pruneVars, boundVars, ghosts
  <2>1. key[p] \in Key BY DEF BusyHasKey
  <2>2. On(MapFile(key[p])) => Grade(MapFile(key[p])) # "half"
    BY <2>1 DEF FinalIsWhole, MapFile, Final, File, Grade
  <2>3. TypeOK' BY <2>2
  <2>4. BusyHasKey' BY <2>1 DEF BusyHasKey
  <2>5. PrunesEntries' BY DEF PrunesEntries
  <2>6. FilledIsWhole' BY DEF FilledIsWhole, Temporary, Target, On
  <2>7. FinalIsWhole' BY DEF FinalIsWhole, On
  <2>8. \A q \in Process : seen'[q] # "half" BY <2>2
  <2> QED BY <2>3, <2>4, <2>5, <2>6, <2>7, <2>8
<1>4. CASE Emit(p)
  <2> USE <1>4 DEF Emit, Written, WriteOrder, fileVars, pruneVars, boundVars, ghosts
  <2>1. key[p] \in Key BY DEF BusyHasKey
  <2>2. TypeOK' OBVIOUS
  <2>3. BusyHasKey' BY <2>1 DEF BusyHasKey
  <2>4. PrunesEntries' BY DEF PrunesEntries
  <2>5. \A q \in Process : At(q, "rename")' => At(q, "rename") /\ q # p
    OBVIOUS
  <2>6. FilledIsWhole' BY <2>5 DEF FilledIsWhole, Temporary, Target, On
  <2>7. FinalIsWhole' BY DEF FinalIsWhole, On
  <2> QED BY <2>2, <2>3, <2>4, <2>6, <2>7
<1>5. CASE Exists(p) \/ Lost(p)
  <2> USE <1>5 DEF Exists, Lost, AfterWrite, Written, WriteOrder, fileVars,
        pruneVars, boundVars, ghosts
  <2>1. key[p] \in Key BY DEF BusyHasKey
  <2>2. TypeOK' OBVIOUS
  <2>3. BusyHasKey' BY <2>1 DEF BusyHasKey
  <2>4. PrunesEntries' BY DEF PrunesEntries
  <2>5. \A q \in Process : At(q, "rename")' => At(q, "rename") /\ q # p
    OBVIOUS
  <2>6. \A q \in Process : q # p => target'[q] = target[q] OBVIOUS
  <2>7. FilledIsWhole' BY <2>5, <2>6 DEF FilledIsWhole, Temporary, Target, On
  <2>8. FinalIsWhole' BY DEF FinalIsWhole, On
  <2> QED BY <2>2, <2>3, <2>4, <2>7, <2>8
<1>6. CASE Answer(p)
  <2> USE <1>6 DEF Answer, fileVars, pruneVars, boundVars, ghosts
  <2>1. TypeOK' OBVIOUS
  <2>2. BusyHasKey' BY DEF BusyHasKey
  <2>3. PrunesEntries' BY DEF PrunesEntries
  <2>4. FilledIsWhole' BY DEF FilledIsWhole, Temporary, Target, On
  <2>5. FinalIsWhole' BY DEF FinalIsWhole, On
  <2> QED BY <2>1, <2>2, <2>3, <2>4, <2>5
<1>7. CASE CutShort(p)
  <2> USE <1>7 DEF CutShort, fileVars, ghosts
  <2>1. TypeOK' OBVIOUS
  <2>2. BusyHasKey' BY DEF BusyHasKey
  <2>3. PrunesEntries' BY DEF PrunesEntries
  <2>4. FilledIsWhole' BY DEF FilledIsWhole, Temporary, Target, On
  <2>5. FinalIsWhole' BY DEF FinalIsWhole, On
  <2> QED BY <2>1, <2>2, <2>3, <2>4, <2>5
<1> QED BY <1>1, <1>2, <1>3, <1>4, <1>5, <1>6, <1>7

\* Writing goes on under the temporary name, until a whole file is renamed.
LEMMA WritingSteps ==
  ASSUME IInv, NEW p \in Process,
         Create(p) \/ Fill(p) \/ Rename(p) \/ RenameFails(p)
  PROVE  IInv'
<1> USE CacheAssumption DEF At, Goto
<1>1. ~At(p, "idle") BY DEF Create, Fill, Rename, RenameFails, IInv, TypeOK
<1>2. /\ Target(p) \in File /\ Target(p).writer = NoProcess
      /\ Temporary(p) \in File /\ Temporary(p).writer = p
      /\ Temporary(p) # Target(p)
  BY <1>1, Names DEF At
<1>3. \A q \in Process : At(q, "rename") =>
        /\ Temporary(q) \in File /\ Temporary(q).writer = q
  BY Names
<1>4. BusyHasKey' /\ PrunesEntries' /\ UNCHANGED seen
  BY <1>1 DEF Create, Fill, Rename, RenameFails, AfterWrite, BusyHasKey,
       PrunesEntries, pruneVars, IInv, TypeOK
<1>5. CASE Create(p) \/ RenameFails(p)
  <2> USE <1>5 DEF Create, RenameFails, pruneVars, boundVars, ghosts
  <2>1. PICK c \in Content \cup {Absent} : disk' = [disk EXCEPT ![Temporary(p)] = c]
    <3>1. [whole |-> FALSE, modified |-> clock] \in Content
      BY DEF IInv, TypeOK, Content
    <3> QED BY <3>1
  <2>2. disk' \in [File -> Content \cup {Absent}] /\ clock' \in Nat
    BY <2>1, <1>2 DEF IInv, TypeOK
  <2>3. TypeOK' BY <2>2 DEF IInv, TypeOK, Labels
  <2>4. \A q \in Process : At(q, "rename")' => At(q, "rename") /\ q # p
    BY DEF IInv, TypeOK
  <2>5. \A f \in File : f # Temporary(p) => disk'[f] = disk[f]
    BY DEF IInv, TypeOK
  <2>6. \A q \in Process : At(q, "rename")' =>
          disk'[Temporary(q)] = disk[Temporary(q)]
    BY <1>2, <1>3, <2>4, <2>5
  <2>7. FilledIsWhole'
    BY <2>4, <2>6 DEF IInv, FilledIsWhole, Temporary, Target, On
  <2>8. FinalIsWhole' BY <1>2, <2>5 DEF IInv, FinalIsWhole, On
  <2> QED BY <1>4, <2>3, <2>7, <2>8 DEF IInv
<1>6. CASE Fill(p)
  <2> USE <1>6 DEF Fill, pruneVars, boundVars, ghosts
  <2>1. clock' \in Nat /\ [whole |-> TRUE, modified |-> clock + 1] \in Content
    BY DEF IInv, TypeOK, Content
  <2>2. TypeOK' BY <1>2, <2>1 DEF IInv, TypeOK, Labels
  <2>3. \A q \in Process : At(q, "rename")' => q = p \/ At(q, "rename")
    BY DEF IInv, TypeOK
  <2>4. \A f \in File : f # Temporary(p) => disk'[f] = disk[f]
    BY DEF IInv, TypeOK
  <2>5. disk'[Temporary(p)] # Absent /\ disk'[Temporary(p)].whole
    BY <1>2, <2>1 DEF IInv, TypeOK
  <2>6. \A q \in Process : q # p /\ At(q, "rename") =>
          disk'[Temporary(q)] = disk[Temporary(q)]
    BY <1>2, <1>3, <2>4
  <2>7. FilledIsWhole'
    BY <2>3, <2>5, <2>6 DEF IInv, FilledIsWhole, Temporary, Target, On
  <2>8. FinalIsWhole' BY <1>2, <2>4 DEF IInv, FinalIsWhole, On
  <2> QED BY <1>4, <2>2, <2>7, <2>8 DEF IInv
<1>7. CASE Rename(p)
  <2> USE <1>7 DEF Rename, pruneVars, boundVars, ghosts
  <2>1. disk[Temporary(p)].whole BY DEF IInv, FilledIsWhole
  <2>2. disk[Temporary(p)] \in Content \cup {Absent} BY <1>2 DEF IInv, TypeOK
  <2>3. /\ \A f \in File : f # Temporary(p) /\ f # Target(p) => disk'[f] = disk[f]
        /\ disk'[Temporary(p)] = Absent
        /\ disk'[Target(p)] = disk[Temporary(p)]
        /\ disk' \in [File -> Content \cup {Absent}]
    BY <1>2, <2>2 DEF IInv, TypeOK
  <2>4. TypeOK'
    <3>1. /\ target' \in [Process -> {"bundle", "map", "scratch"}]
          /\ pc' \in [Process -> Labels]
      BY DEF IInv, TypeOK, AfterWrite, Goto, Written, WriteOrder, Labels
    <3> QED BY <2>3, <3>1 DEF IInv, TypeOK
  <2>5. \A q \in Process : At(q, "rename")' =>
          /\ At(q, "rename") /\ q # p /\ Temporary(q)' = Temporary(q)
    BY DEF IInv, TypeOK, AfterWrite, Temporary, Target
  <2>6. \A q \in Process : At(q, "rename")' =>
          disk'[Temporary(q)] = disk[Temporary(q)]
    BY <1>2, <1>3, <2>3, <2>5
  <2>7. FilledIsWhole' BY <2>5, <2>6 DEF IInv, FilledIsWhole, On
  <2>8. FinalIsWhole' BY <1>2, <2>1, <2>3 DEF IInv, FinalIsWhole, On
  <2> QED BY <1>4, <2>4, <2>7, <2>8 DEF IInv
<1> QED BY <1>5, <1>6, <1>7

\* A prune removes entries, and never the file a rename is about to move.
LEMMA PruningSteps ==
  ASSUME IInv, NEW p \in Process,
         ReadDirectory(p) \/ Stat(p) \/ Evict(p) \/ EvictMap(p)
  PROVE  IInv'
<1> USE CacheAssumption DEF At, Goto
<1>1. /\ BusyHasKey' /\ UNCHANGED seen
      /\ \A q \in Process : At(q, "rename")' => At(q, "rename")
      /\ UNCHANGED <<clock, key, runs, target, begun, faults, alone>>
  BY DEF ReadDirectory, Stat, Evict, EvictMap, BusyHasKey, pruneVars,
       boundVars, ghosts, fileVars, IInv, TypeOK
<1>2. \A f \in File : disk'[f] # disk[f] => f.writer = NoProcess /\ disk'[f] = Absent
  <2>1. CASE ReadDirectory(p) \/ Stat(p)
    BY <2>1 DEF ReadDirectory, Stat, fileVars
  <2>2. CASE Evict(p)
    BY <2>2 DEF Evict, IInv, TypeOK, PrunesEntries, IsEntry, Dating
  <2>3. CASE EvictMap(p)
    BY <2>3 DEF EvictMap, IInv, TypeOK, MapFile, Final
  <2> QED BY <2>1, <2>2, <2>3
<1>3. FinalIsWhole' BY <1>2 DEF IInv, FinalIsWhole, On
<1>4. FilledIsWhole'
  <2>1. \A q \in Process : At(q, "rename") =>
          Temporary(q) \in File /\ Temporary(q).writer = q
    BY Names
  <2>2. \A q \in Process : At(q, "rename") =>
          disk'[Temporary(q)] = disk[Temporary(q)]
    BY <1>2, <2>1
  <2> QED BY <1>1, <2>2 DEF IInv, FilledIsWhole, Temporary, Target, On
<1>5. PrunesEntries'
  <2>1. CASE ReadDirectory(p)
    <3>1. \A f \in Listing : IsEntry(f) BY DEF Listing, IsEntry
    <3>2. \A q \in Process : listed'[q] \subseteq listed[q] \cup Listing
      BY <2>1 DEF ReadDirectory, IInv, TypeOK
    <3> QED BY <2>1, <3>1, <3>2 DEF ReadDirectory, IInv, PrunesEntries
  <2>2. CASE Stat(p)
    <3>1. \A d \in Slice(Dated(listed[p])) : d.file \in listed[p]
      BY DEF Slice, Dated
    <3>2. \A q \in Process : /\ listed'[q] \subseteq listed[q]
                             /\ doomed'[q] \subseteq doomed[q] \cup
                                  (IF q = p THEN Slice(Dated(listed[p])) ELSE {})
      BY <2>2 DEF Stat, IInv, TypeOK
    <3> QED BY <3>1, <3>2 DEF IInv, PrunesEntries
  <2>3. CASE Evict(p)
    <3>1. listed' = listed /\ \A q \in Process : doomed'[q] \subseteq doomed[q]
      BY <2>3 DEF Evict, IInv, TypeOK
    <3> QED BY <3>1 DEF IInv, PrunesEntries
  <2>4. CASE EvictMap(p)
    BY <2>4 DEF EvictMap, IInv, PrunesEntries
  <2> QED BY <2>1, <2>2, <2>3, <2>4
<1>6. TypeOK'
  <2>1. disk' \in [File -> Content \cup {Absent}]
    BY DEF ReadDirectory, Stat, Evict, EvictMap, fileVars, IInv, TypeOK
  <2>2. pc' \in [Process -> Labels]
    BY DEF ReadDirectory, Stat, Evict, EvictMap, IInv, TypeOK, Labels
  <2>3. listed' \in [Process -> SUBSET File]
    BY DEF ReadDirectory, Stat, Evict, EvictMap, pruneVars, IInv, TypeOK, Listing
  <2>4. doomed' \in [Process -> SUBSET Dating]
    <3>1. CASE ReadDirectory(p) \/ EvictMap(p)
      BY <3>1 DEF ReadDirectory, EvictMap, IInv, TypeOK
    <3>2. CASE Evict(p)
      BY <3>2 DEF Evict, IInv, TypeOK
    <3>3. CASE Stat(p)
      <4>1. ASSUME \A f \in listed[p] : On(f)
            PROVE  Slice(Dated(listed[p])) \subseteq Dating
        BY <4>1 DEF Slice, Dated, Dating, On, Content, IInv, TypeOK
      <4> QED BY <3>3, <4>1 DEF Stat, IInv, TypeOK
    <3> QED BY <3>1, <3>2, <3>3
  <2>5. evicted' \subseteq Key
    BY DEF ReadDirectory, Stat, Evict, EvictMap, ghosts, IInv, TypeOK, Dating,
         File
  <2>6. current' \in [Process -> File \cup {Absent}]
    BY DEF ReadDirectory, Stat, Evict, EvictMap, IInv, TypeOK, Dating
  <2> QED BY <1>1, <2>1, <2>2, <2>3, <2>4, <2>5, <2>6 DEF IInv, TypeOK
<1> QED BY <1>1, <1>3, <1>4, <1>5, <1>6 DEF IInv

LEMMA NextIInv == IInv /\ [Next]_vars => IInv'
<1> SUFFICES ASSUME IInv, [Next]_vars PROVE IInv' OBVIOUS
<1>1. CASE Next
  BY <1>1, QuietSteps, WritingSteps, PruningSteps DEF Next
<1>2. CASE UNCHANGED vars
  BY <1>2 DEF vars, IInv, TypeOK, BusyHasKey, PrunesEntries, FilledIsWhole,
       FinalIsWhole, At, On, Temporary, Target
<1> QED BY <1>1, <1>2

-----------------------------------------------------------------------------
Writing(p) == pc[p] \in {"exists", "create", "fill", "rename", "lost"}

\* Who is writing a bundle has seen to its map.
MapWritten == \A p \in Process :
  Writing(p) /\ target[p] = "bundle" /\ key[p] \in Mapped \ evicted =>
    On(MapFile(key[p]))

\* A map is removed once its bundle is.
CurrentIsEvicted == \A p \in Process :
  At(p, "evictMap") => current[p] \in File /\ current[p].key \in evicted

PInv == MapWritten /\ CurrentIsEvicted /\ BundlePromisesMap

\* A map that is there stays there, unless a prune has taken its bundle.
LEMMA MapsStay ==
  ASSUME IInv, CurrentIsEvicted, NEW p \in Process, NEW k \in Key,
         k \notin evicted', On(MapFile(k)),
         \/ Create(p) \/ Fill(p) \/ Rename(p) \/ RenameFails(p)
         \/ Evict(p) \/ EvictMap(p)
  PROVE  On(MapFile(k))'
<1> USE CacheAssumption DEF At, On
<1>1. MapFile(k) \in File /\ MapFile(k).writer = NoProcess
      /\ MapFile(k).kind = "map" /\ MapFile(k).key = k
  BY DEF MapFile, Final, File
<1>2. CASE Create(p) \/ Fill(p) \/ RenameFails(p)
  <2>1. Temporary(p) \in File /\ Temporary(p).writer = p
    BY <1>2, Names DEF Create, Fill, RenameFails
  <2>2. Temporary(p) # MapFile(k) BY <1>1, <2>1
  <2> QED BY <1>1, <1>2, <2>2 DEF Create, Fill, RenameFails, IInv, TypeOK
<1>3. CASE Rename(p)
  <2>1. /\ Temporary(p) \in File /\ Temporary(p).writer = p
        /\ disk[Temporary(p)] # Absent
    BY <1>3, Names DEF Rename, IInv, FilledIsWhole
  <2>2. Temporary(p) # MapFile(k) BY <1>1, <2>1
  <2> QED BY <1>1, <1>3, <2>1, <2>2 DEF Rename, IInv, TypeOK
<1>4. CASE Evict(p)
  BY <1>1, <1>4 DEF Evict, IInv, TypeOK, PrunesEntries, IsEntry
<1>5. CASE EvictMap(p)
  <2>1. current[p].key # k
    BY <1>5 DEF EvictMap, CurrentIsEvicted, ghosts
  <2>2. MapFile(current[p].key) # MapFile(k) BY <2>1 DEF MapFile, Final
  <2> QED BY <1>1, <1>5, <2>2 DEF EvictMap, IInv, TypeOK
<1> QED BY <1>2, <1>3, <1>4, <1>5

LEMMA InitPInv == Init => PInv
<1> SUFFICES ASSUME Init PROVE PInv OBVIOUS
<1>1. MapWritten /\ CurrentIsEvicted
  BY DEF Init, MapWritten, CurrentIsEvicted, Writing, At
<1>2. BundlePromisesMap
  <2> SUFFICES ASSUME NEW k \in Mapped, On(BundleFile(k)) PROVE On(MapFile(k))
    BY DEF BundlePromisesMap
  <2>1. BundleFile(k) \in File /\ MapFile(k) \in File
    BY CacheAssumption DEF BundleFile, MapFile, Final, File
  <2>2. PICK i \in LeftBy(BundleFile(k)) : TRUE BY <2>1 DEF Init, On
  <2>3. Before[i] = k
    BY <2>2 DEF LeftBy, Leaves, BundleFile, MapFile, Final
  <2>4. i \in LeftBy(MapFile(k)) BY <2>2, <2>3 DEF LeftBy, Leaves
  <2>5. Left(MapFile(k)) # Absent
    BY <2>1, <2>4, LeftIsWhole, CacheAssumption
  <2> QED BY <2>1, <2>4, <2>5 DEF Init, On
<1> QED BY <1>1, <1>2 DEF PInv

\* One step of one compile keeps the promise.
LEMMA StepPInv ==
  ASSUME IInv, PInv, NEW p \in Process,
         \/ \E k \in Key, spawns \in BOOLEAN : Begin(p, k, spawns)
         \/ ReadBundle(p) \/ ReadMap(p) \/ Emit(p)
         \/ Exists(p) \/ Create(p) \/ Fill(p)
         \/ Rename(p) \/ RenameFails(p) \/ Lost(p)
         \/ ReadDirectory(p) \/ Stat(p) \/ Evict(p) \/ EvictMap(p)
         \/ Answer(p) \/ CutShort(p)
  PROVE  PInv'
<1> USE CacheAssumption DEF At, Goto
<1>1. ASSUME NEW k \in Key, k \notin evicted', On(MapFile(k))
      PROVE  On(MapFile(k))'
  <2>1. CASE UNCHANGED disk BY <1>1, <2>1 DEF On
  <2>2. CASE \/ Create(p) \/ Fill(p) \/ Rename(p) \/ RenameFails(p)
             \/ Evict(p) \/ EvictMap(p)
    BY <1>1, <2>2, MapsStay DEF PInv
  <2> QED BY <2>1, <2>2 DEF Begin, ReadBundle, ReadMap, Emit, Exists, Lost,
       ReadDirectory, Stat, Answer, CutShort, fileVars
<1>2. evicted \subseteq evicted'
  BY DEF Begin, ReadBundle, ReadMap, Emit, Exists, Create, Fill, Rename,
       RenameFails, Lost, ReadDirectory, Stat, Evict, EvictMap, Answer, CutShort,
       ghosts
<1>3. CurrentIsEvicted'
  <2>1. CASE Evict(p)
    BY <2>1 DEF Evict, PInv, CurrentIsEvicted, IInv, TypeOK, Dating
  <2>2. CASE ~Evict(p)
    <3>1. \A q \in Process : pc'[q] = "evictMap" =>
            pc[q] = "evictMap" /\ current'[q] = current[q]
      BY <2>2 DEF Begin, ReadBundle, ReadMap, Emit, Exists, Create, Fill, Rename,
           RenameFails, Lost, AfterWrite, WithoutMap, ReadDirectory, Stat, EvictMap, Answer,
           CutShort, pruneVars, IInv, TypeOK
    <3> QED BY <1>2, <3>1 DEF PInv, CurrentIsEvicted
  <2> QED BY <2>1, <2>2
<1>4. MapWritten'
  <2> SUFFICES ASSUME NEW q \in Process, Writing(q)', target'[q] = "bundle",
                      key'[q] \in Mapped \ evicted'
               PROVE  On(MapFile(key[q]))' /\ key'[q] = key[q]
    BY DEF MapWritten, MapFile, On
  <2>1. key'[q] = key[q]
    BY DEF Begin, ReadBundle, ReadMap, Emit, Exists, Create, Fill, Rename,
         RenameFails, Lost, ReadDirectory, Stat, Evict, EvictMap, Answer, CutShort, Writing, IInv,
         TypeOK
  <2>2. key[q] \in Key /\ key[q] \in Mapped \ evicted BY <1>2, <2>1
  <2>3. CASE Writing(q) /\ target[q] = "bundle"
    <3>1. On(MapFile(key[q])) BY <2>2, <2>3 DEF PInv, MapWritten
    <3> QED BY <1>1, <2>1, <2>2, <3>1 DEF MapFile, On
  <2>4. CASE ~(Writing(q) /\ target[q] = "bundle")
    <3>1. q = p /\ (Emit(p) \/ Exists(p) \/ Rename(p) \/ Lost(p))
      BY <2>4 DEF Begin, ReadBundle, ReadMap, Create, Fill, RenameFails,
           WithoutMap, ReadDirectory, Stat, Evict, EvictMap, Answer, CutShort,
           Writing, IInv, TypeOK, Emit, Exists, Rename, Lost, AfterWrite
    <3>2. ~Emit(p)
      BY <2>1, <2>2, <3>1 DEF Emit, Written, WriteOrder, Writing,
           IInv, TypeOK
    <3>3. target[p] = "map"
      BY <2>1, <2>2, <2>4, <3>1, <3>2 DEF Exists, Rename, Lost, AfterWrite, Written,
           WriteOrder, Writing, IInv, TypeOK
    <3>4. CASE Exists(p) \/ Lost(p)
      <4>1. On(Target(p))
        BY <3>1, <3>3, <3>4 DEF Exists, Lost, Writing, IInv, TypeOK
      <4>2. On(MapFile(key[q])) BY <3>1, <3>3, <4>1 DEF Target, MapFile
      <4> QED BY <1>1, <2>1, <2>2, <4>2 DEF MapFile, On
    <3>5. CASE Rename(p)
      <4>1. Target(p) = MapFile(key[q]) BY <3>1, <3>3 DEF Target, MapFile
      <4>2. disk[Temporary(p)] # Absent /\ Target(p) \in File
        BY <3>5, Names DEF Rename, IInv, FilledIsWhole, On
      <4>3. disk'[Target(p)] # Absent
        BY <3>5, <4>2 DEF Rename, IInv, TypeOK
      <4> QED BY <2>1, <4>1, <4>3 DEF On, MapFile, Final
    <3> QED BY <3>1, <3>2, <3>4, <3>5
  <2> QED BY <2>1, <2>3, <2>4
<1>5. BundlePromisesMap'
  <2> SUFFICES ASSUME NEW k \in Mapped, k \notin evicted', On(BundleFile(k))'
               PROVE  On(MapFile(k))'
    BY DEF BundlePromisesMap
  <2>0. k \in Key /\ k \notin evicted BY <1>2
  <2>1. CASE On(BundleFile(k))
    BY <1>1, <2>0, <2>1 DEF PInv, BundlePromisesMap
  <2>2. CASE ~On(BundleFile(k))
    <3>1. BundleFile(k) \in File /\ BundleFile(k).writer = NoProcess
      BY <2>0 DEF BundleFile, Final, File
    <3>2. Rename(p)
      <4>1. CASE Create(p) \/ Fill(p) \/ RenameFails(p)
        <5>1. Temporary(p) \in File /\ Temporary(p).writer = p
          BY <4>1, Names DEF Create, Fill, RenameFails
        <5>2. Temporary(p) # BundleFile(k) BY <3>1, <5>1
        <5> QED BY <2>2, <3>1, <4>1, <5>2
             DEF Create, Fill, RenameFails, On, IInv, TypeOK
      <4>2. CASE Evict(p) \/ EvictMap(p)
        BY <2>2, <3>1, <4>2 DEF Evict, EvictMap, On, IInv, TypeOK
      <4>3. CASE UNCHANGED disk BY <2>2, <4>3 DEF On
      <4> QED BY <4>1, <4>2, <4>3 DEF Begin, ReadBundle, ReadMap, Emit, Exists,
           Lost, ReadDirectory, Stat, Answer, CutShort, fileVars
    <3>3. Target(p) \in File /\ Temporary(p) \in File
      BY <3>2, Names DEF Rename
    <3>4. Target(p) = BundleFile(k)
      BY <2>2, <3>1, <3>2, <3>3 DEF Rename, On, IInv, TypeOK
    <3>5. target[p] = "bundle" /\ key[p] = k
      BY <3>4 DEF Target, BundleFile, Final
    <3>6. On(MapFile(k))
      BY <2>0, <3>2, <3>5 DEF PInv, MapWritten, Writing, Rename
    <3> QED BY <1>1, <2>0, <3>6
  <2> QED BY <2>1, <2>2
<1> QED BY <1>3, <1>4, <1>5 DEF PInv

LEMMA NextPInv == IInv /\ PInv /\ [Next]_vars => PInv'
<1> SUFFICES ASSUME IInv, PInv, [Next]_vars PROVE PInv' OBVIOUS
<1>1. CASE Next BY <1>1, StepPInv DEF Next
<1>2. CASE UNCHANGED vars
  BY <1>2 DEF vars, PInv, MapWritten, CurrentIsEvicted, BundlePromisesMap,
       Writing, At, On
<1> QED BY <1>1, <1>2

LEMMA Inductive == Spec => [](IInv /\ PInv)
<1>1. Init => IInv /\ PInv BY InitIInv, InitPInv
<1>2. IInv /\ PInv /\ [Next]_vars => (IInv /\ PInv)' BY NextIInv, NextPInv
<1> QED BY <1>1, <1>2, PTL DEF Spec

\* The store and the compiles hold values of their kinds, for any constants.
THEOREM TypeCorrect == Spec => []TypeOK
<1>1. IInv => TypeOK BY DEF IInv
<1> QED BY <1>1, Inductive, PTL

\* However many compiles race, and wherever any of them stop, what readBundle
\* answers with and what a run spawns is never half a bundle (writeAtomic).
THEOREM WholeReads == Spec => []ReadsAreWhole
<1>1. IInv => ReadsAreWhole
  <2> SUFFICES ASSUME IInv, NEW p \in Process
               PROVE  /\ seen[p] # "half"
                      /\ At(p, "answer") /\ p \in runs /\ On(Spawned(p)) =>
                           disk[Spawned(p)].whole
    BY DEF ReadsAreWhole
  <2>1. At(p, "answer") => Spawned(p) \in File /\ Spawned(p).writer = NoProcess
    BY DEF IInv, BusyHasKey, At, Spawned, ScratchFile, BundleFile, Final, File
  <2> QED BY <2>1 DEF IInv, FinalIsWhole
<1> QED BY <1>1, Inductive, PTL

\* The map is written first, so a bundle that is there promises one, whoever
\* raced and stopped, unless a prune has been at it (writeBundle).
THEOREM MapBesideBundle == Spec => []BundlePromisesMap
<1>1. PInv => BundlePromisesMap BY DEF PInv
<1> QED BY <1>1, Inductive, PTL

-----------------------------------------------------------------------------
(* A compile that has the directory to itself.                             *)

AloneIsQuiet == \A p \in alone : \A q \in Process \ {p} : At(q, "idle")

Pruning(p) == pc[p] \in {"readdir", "stat", "evict", "evictMap"}

\* What such a compile of a mapped bundle knows of the pair: it has its map when
\* it goes for the bundle, both when it is done, and its prune spares them.
Mends(p) ==
  /\ At(p, "readMap") \/ Pruning(p) \/ At(p, "answer") => On(BundleFile(key[p]))
  /\ Pruning(p) \/ At(p, "answer") => On(MapFile(key[p]))
  /\ Writing(p) => /\ target[p] \in {"map", "bundle"}
                   /\ target[p] = "bundle" => On(MapFile(key[p]))
  /\ At(p, "stat") => BundleFile(key[p]) \notin listed[p]
  /\ Pruning(p) => \A d \in doomed[p] : At(p, "evict") \/ At(p, "evictMap") =>
                     d.file # BundleFile(key[p])
  /\ At(p, "evictMap") =>
       /\ current[p] \in File /\ current[p].writer = NoProcess
       /\ current[p] # BundleFile(key[p])

MendInv == \A p \in alone : key[p] \in Mapped \ Loud => Mends(p)

Step(p) ==
  \/ \E k \in Key, spawns \in BOOLEAN : Begin(p, k, spawns)
  \/ ReadBundle(p) \/ ReadMap(p) \/ Emit(p)
  \/ Exists(p) \/ Create(p) \/ Fill(p)
  \/ Rename(p) \/ RenameFails(p) \/ Lost(p)
  \/ ReadDirectory(p) \/ Stat(p) \/ Evict(p) \/ EvictMap(p)
  \/ Answer(p) \/ CutShort(p)

Begins(p) == \E k \in Key, spawns \in BOOLEAN : Begin(p, k, spawns)

\* Whoever is alone after a step took it, or has only now begun.
LEMMA AloneSteps ==
  ASSUME IInv, AloneIsQuiet, NEW p \in Process, Step(p)
  PROVE  /\ AloneIsQuiet'
         /\ Begins(p) => alone' \subseteq {p} /\ pc'[p] = "readBundle"
         /\ ~Begins(p) => alone' = alone /\ key' = key /\ alone \subseteq {p}
<1> USE DEF At, Goto
<1>1. CASE Begins(p)
  <2>1. /\ alone' = (IF \A q \in Process : At(q, "idle") THEN {p} ELSE {})
        /\ pc' = [pc EXCEPT ![p] = "readBundle"]
    BY <1>1 DEF Begins, Begin
  <2>2. AloneIsQuiet'
    BY <2>1 DEF AloneIsQuiet, IInv, TypeOK
  <2> QED BY <1>1, <2>1, <2>2 DEF IInv, TypeOK
<1>2. CASE ~Begins(p)
  <2>1. ~At(p, "idle") /\ alone' = alone /\ key' = key
    BY <1>2 DEF Step, Begins, ReadBundle, ReadMap, Emit, Exists, Create, Fill, Rename,
       RenameFails, Lost, ReadDirectory, Stat, Evict, EvictMap, Answer, CutShort, ghosts
  <2>2. \A q \in Process \ {p} : pc'[q] = pc[q]
    BY <1>2 DEF Step, Begins, ReadBundle, ReadMap, Emit, Exists, Create, Fill, Rename,
       RenameFails, Lost, AfterWrite, ReadDirectory, Stat, Evict, EvictMap, Answer, CutShort, IInv, TypeOK
  <2>3. alone \subseteq {p}
    BY <2>1 DEF AloneIsQuiet, IInv, TypeOK
  <2>4. AloneIsQuiet'
    BY <2>1, <2>2, <2>3 DEF AloneIsQuiet, IInv, TypeOK
  <2> QED BY <1>2, <2>1, <2>3, <2>4
<1> QED BY <1>1, <1>2

\* The files of a pair, and what else lies beside them.
LEMMA PairNames ==
  ASSUME NEW k \in Key
  PROVE  /\ BundleFile(k) \in File /\ MapFile(k) \in File
         /\ BundleFile(k) # MapFile(k)
         /\ BundleFile(k).writer = NoProcess /\ MapFile(k).writer = NoProcess
         /\ BundleFile(k).kind = "bundle" /\ MapFile(k).kind = "map"
         /\ \A f \in File : f.writer = NoProcess /\ f.kind = "bundle" /\ f.key = k =>
              f = BundleFile(k)
         /\ \A j : MapFile(j) = MapFile(k) => j = k
BY DEF BundleFile, MapFile, Final, File

LEMMA MendsStep ==
  ASSUME IInv, NEW p \in alone, key[p] \in Mapped \ Loud, Mends(p),
         Step(p), ~Begins(p)
  PROVE  Mends(p)'
<1> USE CacheAssumption DEF At, Goto
<1> DEFINE k == key[p]
<1>1. p \in Process /\ k \in Key /\ key' = key /\ ~At(p, "idle")
  BY DEF IInv, TypeOK, Step, Begins, ReadBundle, ReadMap, Emit, Exists, Create, Fill,
     Rename, RenameFails, Lost, ReadDirectory, Stat, Evict, EvictMap, Answer, CutShort
<1>2. /\ BundleFile(k) \in File /\ MapFile(k) \in File
      /\ BundleFile(k) # MapFile(k)
      /\ BundleFile(k).writer = NoProcess /\ MapFile(k).writer = NoProcess
  BY <1>1, PairNames
<1>3. Temporary(p) \in File /\ Temporary(p) # BundleFile(k) /\ Temporary(p) # MapFile(k)
  BY <1>1, <1>2, Names
<1>4. /\ target[p] = "bundle" => Target(p) = BundleFile(k)
      /\ target[p] = "map" => Target(p) = MapFile(k)
      /\ Target(p) \in File
  BY <1>1, Names DEF Target, BundleFile, MapFile
<1> USE DEF Mends, Writing, Pruning, On
<1>5. CASE ReadBundle(p)
  BY <1>1, <1>5 DEF ReadBundle, fileVars, IInv, TypeOK
<1>6. CASE ReadMap(p)
  BY <1>1, <1>6 DEF ReadMap, WithoutMap, fileVars, IInv, TypeOK
<1>7. CASE Emit(p)
  BY <1>1, <1>7 DEF Emit, Written, WriteOrder, fileVars, IInv, TypeOK
<1>8. CASE Exists(p) \/ Lost(p)
  BY <1>1, <1>4, <1>8 DEF Exists, Lost, AfterWrite, Written, WriteOrder, fileVars, IInv, TypeOK
<1>9. CASE Create(p) \/ Fill(p) \/ RenameFails(p)
  <2>1. disk'[BundleFile(k)] = disk[BundleFile(k)] /\ disk'[MapFile(k)] = disk[MapFile(k)]
    BY <1>2, <1>3, <1>9 DEF Create, Fill, RenameFails, IInv, TypeOK
  <2> QED BY <1>1, <1>9, <2>1 DEF Create, Fill, RenameFails, IInv, TypeOK
<1>10. CASE Rename(p)
  <2>1. disk[Temporary(p)] # Absent
    BY <1>1, <1>10 DEF Rename, IInv, FilledIsWhole
  <2>2. /\ On(BundleFile(k)) => On(BundleFile(k))'
        /\ On(MapFile(k)) => On(MapFile(k))'
        /\ disk'[Target(p)] # Absent
    BY <1>1, <1>2, <1>3, <1>4, <1>10, <2>1 DEF Rename, IInv, TypeOK
  <2>3. CASE target[p] = "map"
    BY <1>1, <1>4, <1>10, <2>2, <2>3
       DEF Rename, AfterWrite, Written, WriteOrder, IInv, TypeOK
  <2>4. CASE target[p] = "bundle"
    BY <1>1, <1>4, <1>10, <2>2, <2>4
       DEF Rename, AfterWrite, Written, WriteOrder, IInv, TypeOK
  <2> QED BY <1>10, <2>3, <2>4 DEF Rename
<1>11. CASE ReadDirectory(p)
  BY <1>1, <1>11 DEF ReadDirectory, fileVars, IInv, TypeOK
<1>12. CASE Stat(p)
  <2>1. \A d \in Slice(Dated(listed[p])) : d.file \in listed[p]
    BY DEF Slice, Dated
  <2> QED BY <1>1, <1>12, <2>1 DEF Stat, fileVars, IInv, TypeOK
<1>13. CASE Evict(p)
  <2>1. CASE doomed[p] = {} /\ UNCHANGED <<disk, doomed, current>> /\ pc' = [pc EXCEPT ![p] = "answer"]
    BY <1>1, <1>13, <2>1 DEF Evict, IInv, TypeOK
  <2>2. CASE \E d \in doomed[p] :
               /\ disk' = [disk EXCEPT ![d.file] = Absent]
               /\ doomed' = [doomed EXCEPT ![p] = @ \ {d}]
               /\ current' = [current EXCEPT ![p] = d.file]
               /\ pc' = [pc EXCEPT ![p] = "evictMap"]
    <3>1. PICK d \in doomed[p] :
               /\ disk' = [disk EXCEPT ![d.file] = Absent]
               /\ doomed' = [doomed EXCEPT ![p] = @ \ {d}]
               /\ current' = [current EXCEPT ![p] = d.file]
               /\ pc' = [pc EXCEPT ![p] = "evictMap"]
      BY <2>2
    <3>2. d.file \in File /\ d.file.writer = NoProcess /\ d.file.kind # "map"
      BY <1>1 DEF IInv, TypeOK, Dating, PrunesEntries, IsEntry
    <3>3. d.file # BundleFile(k) /\ d.file # MapFile(k)
      BY <1>1, <1>13, <3>2, PairNames DEF Evict
    <3>4. disk'[BundleFile(k)] = disk[BundleFile(k)] /\ disk'[MapFile(k)] = disk[MapFile(k)]
      BY <1>2, <3>1, <3>3 DEF IInv, TypeOK
    <3>5. current'[p] = d.file /\ doomed'[p] \subseteq doomed[p] /\ pc'[p] = "evictMap"
      BY <1>1, <3>1 DEF IInv, TypeOK
    <3> QED BY <1>1, <1>13, <3>2, <3>3, <3>4, <3>5 DEF Evict
  <2> QED BY <1>13, <2>1, <2>2 DEF Evict
<1>14. CASE EvictMap(p)
  <2>1. current[p].kind = "bundle" => current[p].key # k
    BY <1>1, <1>14, PairNames DEF EvictMap
  <2>2. current[p].kind = "bundle" =>
          /\ MapFile(current[p].key) # MapFile(k)
          /\ MapFile(current[p].key) # BundleFile(k)
    BY <1>1, <2>1, PairNames DEF MapFile, BundleFile, Final
  <2>3. disk'[BundleFile(k)] = disk[BundleFile(k)] /\ disk'[MapFile(k)] = disk[MapFile(k)]
    BY <1>2, <1>14, <2>2 DEF EvictMap, IInv, TypeOK
  <2> QED BY <1>1, <1>14, <2>3 DEF EvictMap, IInv, TypeOK
<1>15. CASE Answer(p) \/ CutShort(p)
  BY <1>1, <1>15 DEF Answer, CutShort, IInv, TypeOK
<1> QED
  BY <1>5, <1>6, <1>7, <1>8, <1>9, <1>10, <1>11, <1>12, <1>13, <1>14, <1>15 DEF Step, Begins

LEMMA NextMend == IInv /\ AloneIsQuiet /\ MendInv /\ [Next]_vars => AloneIsQuiet' /\ MendInv'
<1> SUFFICES ASSUME IInv, AloneIsQuiet, MendInv, [Next]_vars
             PROVE  AloneIsQuiet' /\ MendInv'
  OBVIOUS
<1>1. ASSUME NEW p \in Process, Step(p)
      PROVE  AloneIsQuiet' /\ MendInv'
  <2>1. AloneIsQuiet' BY <1>1, AloneSteps
  <2>2. CASE Begins(p)
    <3>1. alone' \subseteq {p} /\ pc'[p] = "readBundle" BY <1>1, <2>2, AloneSteps
    <3>2. Mends(p)' BY <3>1 DEF Mends, At, Pruning, Writing
    <3> QED BY <2>1, <3>1, <3>2 DEF MendInv
  <2>3. CASE ~Begins(p)
    <3>1. alone' = alone /\ key' = key /\ alone \subseteq {p} BY <1>1, <2>3, AloneSteps
    <3>2. p \in alone /\ key[p] \in Mapped \ Loud => Mends(p)'
      BY <1>1, <2>3, MendsStep DEF MendInv
    <3> QED BY <2>1, <3>1, <3>2 DEF MendInv
  <2> QED BY <2>2, <2>3
<1>2. CASE UNCHANGED vars
  BY <1>2 DEF vars, AloneIsQuiet, MendInv, Mends, At, Pruning, Writing, On
<1> QED BY <1>1, <1>2 DEF Next, Step

\* A half pair is mended by whoever meets it: a compile that had the directory to
\* itself and has answered leaves a bundle with its map.
THEOREM HalfPairsAreMended == Spec => []PairIsMended
<1>1. Init => AloneIsQuiet /\ MendInv
  BY DEF Init, AloneIsQuiet, MendInv
<1>2. AloneIsQuiet /\ MendInv => PairIsMended
  BY DEF MendInv, Mends, PairIsMended
<1>3. Spec => []IInv
  BY Inductive, PTL
<1> QED BY <1>1, <1>2, <1>3, NextMend, PTL DEF Spec

-----------------------------------------------------------------------------
(* The store is bounded, and age decides what goes: what a prune leaves,   *)
(* when nobody disturbs it, is the newest of what there was.  The argument *)
(* is about times: files written at one moment do not exist, so that the   *)
(* ones with fewer than n newer beside them are no more than n.            *)

LEMMA LeastNatural ==
  ASSUME NEW S \in SUBSET Nat, S # {}
  PROVE  \E least \in S : \A m \in S : least <= m
<1> DEFINE R == OpToRel(<, Nat)
<1>1. \A m, n \in Nat : <<m, n>> \in R <=> m < n
  BY DEF OpToRel
<1>2. IsWellFoundedOn(R, Nat)
  BY NatLessThanWellFounded
<1> HIDE DEF R
<1>3. S \subseteq Nat OBVIOUS
<1>4. PICK least \in S : \A m \in S : ~(<<m, least>> \in R)
  BY <1>2, <1>3, WFMin
<1>5. ASSUME NEW m \in S PROVE least <= m
  <2>1. m \in Nat /\ least \in Nat BY <1>3
  <2>2. ~(m < least) BY <1>1, <1>4, <2>1, Zenon
  <2> QED BY <2>1, <2>2
<1> QED BY <1>5

\* Of what is dated at moments of its own, no more than n have fewer than n newer.
LEMMA NewestAreFew ==
  ASSUME NEW dated, IsFiniteSet(dated), NEW n \in Nat,
         \A d \in dated : d.modified \in Nat,
         \A d, e \in dated : d.modified = e.modified => d = e
  PROVE  LET newest == {d \in dated : Cardinality(NewerIn(dated, d)) < n}
         IN  IsFiniteSet(newest) /\ Cardinality(newest) <= n
<1> DEFINE newest == {d \in dated : Cardinality(NewerIn(dated, d)) < n}
<1> SUFFICES IsFiniteSet(newest) /\ Cardinality(newest) <= n
  OBVIOUS
<1>1. IsFiniteSet(newest) /\ newest \subseteq dated
  BY FS_Subset
<1>2. CASE newest = {}
  BY <1>1, <1>2, FS_EmptySet
<1>3. CASE newest # {}
  <2> DEFINE times == {d.modified : d \in newest}
  <2>1. times \in SUBSET Nat /\ times # {} BY <1>1, <1>3
  <2>2. PICK least \in times : \A m \in times : least <= m
    BY <2>1, LeastNatural
  <2>3. PICK oldest \in newest : oldest.modified = least OBVIOUS
  <2>4. \A d \in newest : oldest.modified <= d.modified
    BY <2>2, <2>3
  <2>5. newest \ {oldest} \subseteq NewerIn(dated, oldest)
    <3> SUFFICES ASSUME NEW d \in newest, d # oldest
                 PROVE  d \in NewerIn(dated, oldest)
      OBVIOUS
    <3>1. d \in dated /\ oldest \in dated BY <1>1
    <3>2. d.modified # oldest.modified /\ oldest.modified <= d.modified
      BY <2>4, <3>1
    <3>3. d.modified > oldest.modified
      BY <3>1, <3>2
    <3> QED BY <3>1, <3>3 DEF NewerIn
  <2>6. IsFiniteSet(NewerIn(dated, oldest))
    BY FS_Subset DEF NewerIn
  <2>7. Cardinality(newest \ {oldest}) <= Cardinality(NewerIn(dated, oldest))
    BY <2>5, <2>6, FS_Subset
  <2>8. /\ Cardinality(newest \ {oldest}) = Cardinality(newest) - 1
        /\ Cardinality(newest) \in Nat
        /\ Cardinality(NewerIn(dated, oldest)) \in Nat
    BY <1>1, <2>3, <2>6, FS_RemoveElement, FS_CardinalityType
  <2>9. Cardinality(NewerIn(dated, oldest)) < n
    BY <2>3
  <2> HIDE DEF newest
  <2> QED BY <1>1, <2>7, <2>8, <2>9
<1> QED BY <1>2, <1>3

\* What a slice takes is older than what it leaves, and it leaves few.
LEMMA SliceLeaves ==
  ASSUME NEW fs \in SUBSET File, IsFiniteSet(fs),
         \A f \in fs : disk[f].modified \in Nat,
         \A f, g \in fs : disk[f].modified = disk[g].modified => f = g
  PROVE  LET left == fs \ {d.file : d \in Slice(Dated(fs))}
         IN  /\ IsFiniteSet(left) /\ Cardinality(left) <= Kept - 1
             /\ \A f \in left, d \in Slice(Dated(fs)) : disk[f].modified > d.modified
<1> USE CacheAssumption
<1> DEFINE date(f) == [file |-> f, modified |-> disk[f].modified]
           dates == [f \in fs |-> date(f)]
           dated == Dated(fs)
           newest == {d \in dated : Cardinality(NewerIn(dated, d)) < Kept - 1}
           left == fs \ {d.file : d \in Slice(dated)}
<1>1. dated = {date(f) : f \in fs} BY DEF Dated
<1>2. IsFiniteSet(dated)
  <2>1. dates \in Surjection(fs, dated) BY <1>1 DEF Surjection
  <2> HIDE DEF dates
  <2> QED BY <2>1, FS_Surjection
<1>3. /\ \A d \in dated : d.modified \in Nat /\ d.file \in fs /\ d = date(d.file)
      /\ \A d, e \in dated : d.modified = e.modified => d = e
  BY <1>1
<1>4. \A d \in dated : Cardinality(NewerIn(dated, d)) \in Nat /\ IsFiniteSet(NewerIn(dated, d))
  BY <1>2, FS_Subset, FS_CardinalityType DEF NewerIn
<1>5. Slice(dated) = dated \ newest
  BY <1>4 DEF Slice
<1>6. \A f \in left : date(f) \in newest
  <2> SUFFICES ASSUME NEW f \in left, date(f) \notin newest PROVE FALSE
    OBVIOUS
  <2>1. date(f) \in Slice(dated) BY <1>1, <1>5
  <2>2. date(f).file = f OBVIOUS
  <2> QED BY <2>1, <2>2
<1>7. IsFiniteSet(newest) /\ Cardinality(newest) <= Kept - 1
  <2> HIDE DEF dated
  <2>1. Kept - 1 \in Nat OBVIOUS
  <2> QED BY <1>2, <1>3, <2>1, NewestAreFew
<1>8. IsFiniteSet(left) /\ Cardinality(left) <= Cardinality(newest)
  <2> DEFINE into == [f \in left |-> date(f)]
  <2>1. into \in [left -> newest] BY <1>6
  <2>2. into \in Injection(left, newest) BY <2>1 DEF Injection, IsInjective
  <2> HIDE DEF into, left, newest
  <2> QED BY <1>7, <2>2, FS_Injection
<1>9. ASSUME NEW f \in left, NEW d \in Slice(dated)
      PROVE  disk[f].modified > d.modified
  <2>1. /\ Cardinality(NewerIn(dated, date(f))) < Kept - 1
        /\ Cardinality(NewerIn(dated, d)) >= Kept - 1
        /\ date(f) \in dated /\ d \in dated
    BY <1>6 DEF Slice
  <2>2. CASE disk[f].modified <= d.modified
    <3>1. NewerIn(dated, d) \subseteq NewerIn(dated, date(f))
      <4> SUFFICES ASSUME NEW e \in dated, e.modified > d.modified
                   PROVE  e.modified > date(f).modified
        BY DEF NewerIn
      <4>1. e.modified \in Nat /\ d.modified \in Nat /\ disk[f].modified \in Nat
        BY <1>3, <2>1
      <4> QED BY <2>2, <4>1
    <3>2. Cardinality(NewerIn(dated, d)) <= Cardinality(NewerIn(dated, date(f)))
      BY <1>4, <2>1, <3>1, FS_Subset
    <3> HIDE DEF dated, date
    <3> QED BY <1>4, <2>1, <3>2
  <2>3. disk[f].modified \in Nat /\ d.modified \in Nat BY <1>3, <2>1
  <2> QED BY <2>2, <2>3
<1>10. Cardinality(left) <= Kept - 1
  <2>1. Cardinality(left) \in Nat /\ Cardinality(newest) \in Nat
    BY <1>7, <1>8, FS_CardinalityType
  <2> HIDE DEF left, newest
  <2> QED BY <1>7, <1>8, <2>1
<1> QED BY <1>8, <1>9, <1>10

-----------------------------------------------------------------------------
(* Times, whoever writes and prunes.                                       *)

\* No file is newer than the latest write, and no two bundles, or what is to
\* become one, were finished at the same moment.
Moments ==
  /\ \A f \in File : On(f) => disk[f].modified <= clock
  /\ \A f, g \in File :
       /\ f.kind # "map" /\ On(f) /\ disk[f].whole
       /\ g.kind # "map" /\ On(g) /\ disk[g].whole
       /\ disk[f].modified = disk[g].modified
       => f = g

ListingIsFinite == IsFiniteSet(Listing)

\* A prune that is over has nothing left to remove.
DoomedInLoop == \A p \in Process : doomed[p] # {} => At(p, "evict") \/ At(p, "evictMap")

\* A map is written for a build that has one.
MapsOfMapped == \A p \in Process : Writing(p) /\ target[p] = "map" => key[p] \in Mapped

TimeInv == Moments /\ ListingIsFinite /\ DoomedInLoop /\ MapsOfMapped

LEMMA TimeInit == Init => TimeInv
<1> SUFFICES ASSUME Init PROVE TimeInv OBVIOUS
<1> USE CacheAssumption
<1>1. \A f \in File : On(f) => /\ LeftBy(f) # {} /\ disk[f] = Left(f)
                              /\ disk[f].modified = CHOOSE i \in LeftBy(f) : TRUE
  BY DEF Init, On, Left
<1>2. \A f \in File : LeftBy(f) \subseteq 1 .. Len(Before)
  BY DEF LeftBy
<1>3. \A f \in File : On(f) => disk[f].modified \in LeftBy(f)
  BY <1>1
<1>4. \A f \in File : f.kind # "map" => \A i \in LeftBy(f) : f = BundleFile(Before[i])
  BY DEF LeftBy, Leaves, MapFile, Final
<1>5. Moments
  <2>1. \A f \in File : On(f) => disk[f].modified <= clock
    BY <1>2, <1>3 DEF Init
  <2>2. \A f, g \in File : f.kind # "map" /\ On(f) /\ g.kind # "map" /\ On(g)
                           /\ disk[f].modified = disk[g].modified => f = g
    BY <1>3, <1>4
  <2> QED BY <2>1, <2>2 DEF Moments
<1>6. ListingIsFinite
  <2> DEFINE all == {BundleFile(Before[i]) : i \in 1 .. Len(Before)}
             ith == [i \in 1 .. Len(Before) |-> BundleFile(Before[i])]
  <2>1. ith \in Surjection(1 .. Len(Before), all) BY DEF Surjection
  <2>2. IsFiniteSet(1 .. Len(Before)) BY FS_Interval
  <2>3. IsFiniteSet(all)
    <3> HIDE DEF ith, all
    <3> QED BY <2>1, <2>2, FS_Surjection
  <2>4. Listing \subseteq all
    BY <1>2, <1>3, <1>4 DEF Listing
  <2> HIDE DEF all
  <2> QED BY <2>3, <2>4, FS_Subset DEF ListingIsFinite
<1>7. DoomedInLoop /\ MapsOfMapped
  BY DEF Init, DoomedInLoop, MapsOfMapped, Writing
<1> QED BY <1>5, <1>6, <1>7 DEF TimeInv

LEMMA MomentsStep ==
  ASSUME IInv, Moments, ListingIsFinite, NEW p \in Process, Step(p)
  PROVE  Moments' /\ ListingIsFinite'
<1> USE CacheAssumption
<1>0. clock \in Nat /\ \A f \in File : disk[f] \in Content \cup {Absent}
  BY DEF IInv, TypeOK
<1>1. CASE UNCHANGED fileVars
  BY <1>1 DEF fileVars, Moments, ListingIsFinite, Listing, On
<1>2. ASSUME Create(p) \/ Fill(p) \/ Rename(p) \/ RenameFails(p)
      PROVE  /\ Target(p) \in File /\ Target(p).writer = NoProcess
             /\ Temporary(p) \in File /\ Temporary(p).writer = p
             /\ Temporary(p) # Target(p) /\ Temporary(p).kind = Target(p).kind
  <2>1. ~At(p, "idle") BY <1>2 DEF Create, Fill, Rename, RenameFails, At
  <2>2. Target(p) \in File BY <2>1, Names
  <2>3. Temporary(p).kind = Target(p).kind
    BY <2>2 DEF Temporary, TemporaryPath, File
  <2> QED BY <2>1, <2>3, Names
<1>3. CASE Create(p) \/ Fill(p)
  <2>1. /\ \A f \in File : f # Temporary(p) => disk'[f] = disk[f]
        /\ disk'[Temporary(p)].whole => clock' = clock + 1 /\ disk'[Temporary(p)].modified = clock + 1
        /\ disk'[Temporary(p)].modified <= clock' /\ clock <= clock' /\ clock' \in Nat
    BY <1>0, <1>2, <1>3 DEF Create, Fill, IInv, TypeOK
  <2>2. \A f \in File : On(f)' => disk'[f].modified <= clock'
    <3>1. \A f \in File : On(f) => disk[f].modified <= clock /\ disk[f].modified \in Nat
      BY <1>0 DEF Moments, On, Content
    <3> QED BY <1>0, <2>1, <3>1 DEF On
  <2>3. ASSUME NEW f \in File, NEW g \in File,
               f.kind # "map", On(f)', disk'[f].whole,
               g.kind # "map", On(g)', disk'[g].whole,
               disk'[f].modified = disk'[g].modified
        PROVE  f = g
    BY <1>0, <2>1, <2>3 DEF Moments, On, Content
  <2>4. Listing' = Listing
    BY <1>2, <1>3, <2>1 DEF Listing, On
  <2> QED BY <2>2, <2>3, <2>4 DEF Moments, ListingIsFinite
<1>4. CASE Rename(p)
  <2>1. /\ \A f \in File : f # Temporary(p) /\ f # Target(p) => disk'[f] = disk[f]
        /\ disk'[Temporary(p)] = Absent /\ disk'[Target(p)] = disk[Temporary(p)]
        /\ clock' = clock
    BY <1>2, <1>4 DEF Rename, IInv, TypeOK
  <2>2. \A f \in File : On(f)' => disk'[f].modified <= clock'
    <3>1. \A f \in File : On(f) => disk[f].modified <= clock
      BY DEF Moments
    <3> SUFFICES ASSUME NEW f \in File, disk'[f] # Absent
                 PROVE  disk'[f].modified <= clock'
      BY DEF On
    <3>2. CASE f = Target(p)
      BY <1>2, <1>4, <2>1, <3>1, <3>2 DEF On
    <3>3. CASE f # Target(p)
      BY <1>2, <1>4, <2>1, <3>1, <3>3 DEF On
    <3> QED BY <3>2, <3>3
  <2>3. ASSUME NEW f \in File, NEW g \in File,
               f.kind # "map", On(f)', disk'[f].whole,
               g.kind # "map", On(g)', disk'[g].whole,
               disk'[f].modified = disk'[g].modified
        PROVE  f = g
    BY <1>2, <1>4, <2>1, <2>3 DEF Moments, On
  <2>4. Listing' \subseteq Listing \cup {Target(p)}
    BY <1>2, <1>4, <2>1 DEF Listing, On
  <2>5. IsFiniteSet(Listing \cup {Target(p)})
    BY FS_AddElement DEF ListingIsFinite
  <2>6. ListingIsFinite' BY <2>4, <2>5, FS_Subset DEF ListingIsFinite
  <2> QED BY <2>2, <2>3, <2>6 DEF Moments
<1>5. CASE Evict(p) \/ EvictMap(p) \/ RenameFails(p)
  <2>1. clock' = clock /\ \A f \in File : disk'[f] = disk[f] \/ disk'[f] = Absent
    BY <1>5 DEF Evict, EvictMap, RenameFails, IInv, TypeOK
  <2>2. Moments' BY <2>1 DEF Moments, On
  <2>3. Listing' \subseteq Listing BY <2>1 DEF Listing, On
  <2> QED BY <2>2, <2>3, FS_Subset DEF ListingIsFinite
<1> QED
  BY <1>1, <1>3, <1>4, <1>5 DEF Step, Begin, ReadBundle, ReadMap, Emit, Exists,
     Lost, ReadDirectory, Stat, Answer, CutShort

LEMMA LoopStep ==
  ASSUME IInv, DoomedInLoop, MapsOfMapped, NEW p \in Process, Step(p)
  PROVE  DoomedInLoop' /\ MapsOfMapped'
<1> USE DEF At, Goto
<1>1. DoomedInLoop'
  BY DEF DoomedInLoop, Step, Begin, ReadBundle, ReadMap, Emit, Exists, Create, Fill, Rename,
     RenameFails, Lost, AfterWrite, WithoutMap, ReadDirectory, Stat, Evict, EvictMap, Answer, CutShort, pruneVars,
     IInv, TypeOK
<1>2. MapsOfMapped'
  <2>1. CASE Emit(p) \/ Exists(p) \/ Rename(p) \/ Lost(p)
    BY <2>1 DEF MapsOfMapped, Writing, Emit, Exists, Rename, Lost, AfterWrite, Written,
       WriteOrder, IInv, TypeOK
  <2>2. CASE ~(Emit(p) \/ Exists(p) \/ Rename(p) \/ Lost(p))
    BY <2>2 DEF MapsOfMapped, Writing, Step, Begin, ReadBundle, ReadMap, Create, Fill,
       RenameFails, WithoutMap, ReadDirectory, Stat, Evict, EvictMap, Answer, CutShort, IInv, TypeOK
  <2> QED BY <2>1, <2>2
<1> QED BY <1>1, <1>2

-----------------------------------------------------------------------------
(* A prune nobody disturbs.                                                *)

\* What the prune of p is going to leave beside the bundle p has put there.
Spared(p) == Listing \ ({BundleFile(key[p])} \cup {d.file : d \in doomed[p]})

InLoop(p) == At(p, "evict") \/ At(p, "evictMap")

Bounds(p) ==
  /\ At(p, "rename") /\ target[p] # "map" => disk[Temporary(p)].modified = clock
  /\ Pruning(p) => /\ On(BundleFile(key[p]))
                   /\ disk[BundleFile(key[p])].modified = clock
  /\ At(p, "stat") => listed[p] = Listing \ {BundleFile(key[p])}
  /\ InLoop(p) =>
       /\ \A d \in doomed[p] : /\ d.file \in Listing \ {BundleFile(key[p])}
                               /\ d.modified = disk[d.file].modified
       /\ IsFiniteSet(Spared(p)) /\ Cardinality(Spared(p)) <= Kept - 1
       /\ \A f \in Spared(p), d \in doomed[p] : disk[f].modified > d.modified

LEMMA BoundsStep ==
  ASSUME IInv, TimeInv, NEW p \in alone, Bounds(p), Step(p), ~Begins(p)
  PROVE  Bounds(p)'
<1> USE CacheAssumption DEF At, Goto
<1> DEFINE k == key[p]
           b == BundleFile(key[p])
<1>1. p \in Process /\ k \in Key /\ key' = key /\ ~At(p, "idle")
  <2>1. p \in Process /\ key' = key /\ ~At(p, "idle")
    BY DEF IInv, TypeOK, Step, Begins, ReadBundle, ReadMap, Emit, Exists, Create, Fill,
       Rename, RenameFails, Lost, ReadDirectory, Stat, Evict, EvictMap, Answer, CutShort
  <2> QED BY <2>1 DEF IInv, BusyHasKey
<1>2. b \in File /\ b.writer = NoProcess /\ b.kind = "bundle"
  BY <1>1, PairNames
<1>3. /\ Temporary(p) \in File /\ Temporary(p).writer = p
      /\ Target(p) \in File /\ Target(p).writer = NoProcess
      /\ Temporary(p) # Target(p)
  BY <1>1, Names
<1>4. ASSUME ~(At(p, "rename") \/ Pruning(p))'
      PROVE  Bounds(p)'
  BY <1>4 DEF Bounds, Pruning, InLoop
<1>5. CASE \/ ReadBundle(p) \/ ReadMap(p) \/ Emit(p) \/ Exists(p) \/ Create(p)
           \/ RenameFails(p) \/ Lost(p) \/ Answer(p) \/ CutShort(p)
  <2>1. ~(At(p, "rename") \/ Pruning(p))'
    BY <1>1, <1>5 DEF ReadBundle, ReadMap, WithoutMap, Emit, Exists, AfterWrite, Create,
       RenameFails, Lost, Answer, CutShort, Pruning, IInv, TypeOK
  <2> QED BY <1>4, <2>1
<1>6. CASE Fill(p)
  <2>1. /\ pc'[p] = "rename" /\ Temporary(p)' = Temporary(p)
        /\ disk'[Temporary(p)].modified = clock'
    BY <1>1, <1>3, <1>6 DEF Fill, Temporary, Target, IInv, TypeOK
  <2> QED BY <2>1 DEF Bounds, Pruning, InLoop
<1>7. CASE Rename(p)
  <2>1. CASE pc'[p] = "readdir"
    <3>1. target[p] = "bundle"
      BY <1>1, <1>7, <2>1 DEF Rename, AfterWrite, Written, WriteOrder, TimeInv, MapsOfMapped,
         Writing, IInv, TypeOK
    <3>2. Target(p) = b
      BY <3>1 DEF Target, BundleFile
    <3>3. disk[Temporary(p)] # Absent /\ disk[Temporary(p)].modified = clock
      BY <1>1, <1>7, <3>1 DEF Rename, Bounds, IInv, FilledIsWhole, On
    <3>4. disk'[b] = disk[Temporary(p)] /\ clock' = clock
      BY <1>3, <1>7, <3>2 DEF Rename, IInv, TypeOK
    <3> QED BY <1>1, <2>1, <3>3, <3>4 DEF Bounds, Pruning, InLoop, On
  <2>2. CASE pc'[p] # "readdir"
    <3>1. ~(At(p, "rename") \/ Pruning(p))'
      BY <1>1, <1>7, <2>2 DEF Rename, AfterWrite, Pruning, IInv, TypeOK
    <3> QED BY <1>4, <3>1
  <2> QED BY <2>1, <2>2
<1>8. CASE ReadDirectory(p)
  <2>1. CASE pc'[p] = "stat"
    <3>1. UNCHANGED <<disk, clock>> /\ Listing' = Listing
      BY <1>8 DEF ReadDirectory, fileVars, Listing, On
    <3>2. listed'[p] = Listing \ {b}
      BY <1>1, <1>8, <2>1 DEF ReadDirectory, IInv, TypeOK
    <3>3. On(b) /\ disk[b].modified = clock
      BY <1>8 DEF ReadDirectory, Bounds, Pruning
    <3> QED BY <1>1, <2>1, <3>1, <3>2, <3>3 DEF Bounds, InLoop, On
  <2>2. CASE pc'[p] # "stat"
    <3>1. ~(At(p, "rename") \/ Pruning(p))'
      BY <1>1, <1>8, <2>2 DEF ReadDirectory, Pruning, IInv, TypeOK
    <3> QED BY <1>4, <3>1
  <2> QED BY <2>1, <2>2
<1>9. CASE Stat(p)
  <2>1. CASE pc'[p] = "evict"
    <3> DEFINE fs == Listing \ {b}
    <3>1. listed[p] = fs /\ On(b) /\ disk[b].modified = clock
      BY <1>9 DEF Stat, Bounds, Pruning
    <3>2. UNCHANGED <<disk, clock>> /\ Listing' = Listing
      BY <1>9 DEF Stat, fileVars, Listing, On
    <3>3. doomed'[p] = Slice(Dated(fs))
      BY <1>1, <1>9, <2>1, <3>1 DEF Stat, IInv, TypeOK
    <3>4. /\ fs \in SUBSET File /\ IsFiniteSet(fs)
          /\ \A f \in fs : f.writer = NoProcess /\ f.kind # "map" /\ On(f)
      BY FS_RemoveElement DEF Listing, TimeInv, ListingIsFinite
    <3>5. \A f \in fs : disk[f].whole /\ disk[f].modified \in Nat
      BY <3>4 DEF IInv, FinalIsWhole, TypeOK, Content, On
    <3>6. \A f, g \in fs : disk[f].modified = disk[g].modified => f = g
      BY <3>4, <3>5 DEF TimeInv, Moments
    <3>7. /\ IsFiniteSet(fs \ {d.file : d \in Slice(Dated(fs))})
          /\ Cardinality(fs \ {d.file : d \in Slice(Dated(fs))}) <= Kept - 1
          /\ \A f \in fs \ {d.file : d \in Slice(Dated(fs))}, d \in Slice(Dated(fs)) :
               disk[f].modified > d.modified
      BY <3>4, <3>5, <3>6, SliceLeaves
    <3>8. \A d \in Slice(Dated(fs)) : d.file \in fs /\ d.modified = disk[d.file].modified
      BY DEF Slice, Dated
    <3>9. Spared(p)' = fs \ {d.file : d \in Slice(Dated(fs))}
      BY <1>1, <3>2, <3>3 DEF Spared
    <3>10. (On(b) /\ disk[b].modified = clock)'
      BY <1>1, <3>1, <3>2 DEF On
    <3> HIDE DEF fs, b
    <3>11. fs' = fs /\ b' = b
      BY <1>1, <3>2 DEF fs, b
    <3>12. /\ \A d \in doomed'[p] : d.file \in fs /\ d.modified = disk'[d.file].modified
           /\ IsFiniteSet(Spared(p)') /\ Cardinality(Spared(p)') <= Kept - 1
           /\ \A f \in Spared(p)', d \in doomed'[p] : disk'[f].modified > d.modified
      BY <3>2, <3>3, <3>7, <3>8, <3>9
    <3> QED BY <2>1, <3>2, <3>10, <3>11, <3>12 DEF Bounds, InLoop, fs, b
  <2>2. CASE pc'[p] # "evict"
    <3>1. ~(At(p, "rename") \/ Pruning(p))'
      BY <1>1, <1>9, <2>2 DEF Stat, Pruning, IInv, TypeOK
    <3> QED BY <1>4, <3>1
  <2> QED BY <2>1, <2>2
<1>10. CASE Evict(p)
  <2>1. CASE pc'[p] = "evictMap"
    <3>1. PICK d \in doomed[p] :
            /\ disk' = [disk EXCEPT ![d.file] = Absent]
            /\ doomed' = [doomed EXCEPT ![p] = @ \ {d}]
      BY <1>1, <1>10, <2>1 DEF Evict, IInv, TypeOK
    <3>2. /\ \A e \in doomed[p] : e.file \in Listing \ {b} /\ e.modified = disk[e.file].modified
          /\ IsFiniteSet(Spared(p)) /\ Cardinality(Spared(p)) <= Kept - 1
          /\ \A f \in Spared(p), e \in doomed[p] : disk[f].modified > e.modified
          /\ On(b) /\ disk[b].modified = clock
      BY <1>10 DEF Evict, Bounds, InLoop, Pruning
    <3>3. d.file \in File /\ d.file # b
      BY <3>2 DEF Listing
    <3>4. doomed'[p] = doomed[p] \ {d} /\ \A f \in File : f # d.file => disk'[f] = disk[f]
      BY <1>1, <3>1 DEF IInv, TypeOK
    <3>5. disk'[d.file] = Absent
      BY <3>1, <3>3 DEF IInv, TypeOK
    <3>6. Listing' = Listing \ {d.file}
      BY <3>4, <3>5 DEF Listing, On
    <3>7. \A e \in doomed[p] : e.file = d.file => e = d
      <4>1. doomed[p] \subseteq Dating BY <1>1 DEF IInv, TypeOK
      <4> QED BY <3>2, <4>1 DEF Dating
    <3>8. Spared(p)' = Spared(p)
      BY <1>1, <3>4, <3>6, <3>7 DEF Spared
    <3>9. b' = b /\ On(b)' /\ disk'[b].modified = clock'
      BY <1>1, <1>2, <1>10, <3>2, <3>3, <3>4 DEF Evict, On
    <3>10. \A e \in doomed'[p] : e.file \in Listing' \ {b} /\ e.modified = disk'[e.file].modified
      BY <3>2, <3>4, <3>6, <3>7 DEF Listing
    <3>11. \A f \in Spared(p) : disk'[f] = disk[f]
      BY <3>1, <3>4 DEF Spared, Listing
    <3>12. \A f \in Spared(p)', e \in doomed'[p] : disk'[f].modified > e.modified
      BY <3>2, <3>4, <3>8, <3>11
    <3>13. IsFiniteSet(Spared(p)') /\ Cardinality(Spared(p)') <= Kept - 1
      BY <3>2, <3>8
    <3> HIDE DEF b
    <3> QED BY <2>1, <3>9, <3>10, <3>12, <3>13 DEF Bounds, InLoop, b
  <2>2. CASE pc'[p] # "evictMap"
    <3>1. ~(At(p, "rename") \/ Pruning(p))'
      BY <1>1, <1>10, <2>2 DEF Evict, Pruning, IInv, TypeOK
    <3> QED BY <1>4, <3>1
  <2> QED BY <2>1, <2>2
<1>11. CASE EvictMap(p)
  <2>1. \A f \in File : f.kind # "map" => disk'[f] = disk[f]
    BY <1>11 DEF EvictMap, MapFile, Final, IInv, TypeOK
  <2>2. Listing' = Listing
    BY <2>1 DEF Listing, On
  <2>3. doomed' = doomed /\ clock' = clock /\ pc'[p] = "evict" /\ disk'[b] = disk[b]
    BY <1>1, <1>2, <1>11, <2>1 DEF EvictMap, IInv, TypeOK
  <2>4. Spared(p)' = Spared(p)
    BY <1>1, <2>2, <2>3 DEF Spared
  <2>5. \A f \in Listing : disk'[f] = disk[f]
    BY <2>1 DEF Listing
  <2>6. /\ \A e \in doomed[p] : e.file \in Listing \ {b} /\ e.modified = disk[e.file].modified
        /\ IsFiniteSet(Spared(p)) /\ Cardinality(Spared(p)) <= Kept - 1
        /\ \A f \in Spared(p), e \in doomed[p] : disk[f].modified > e.modified
        /\ On(b) /\ disk[b].modified = clock
    BY <1>11 DEF EvictMap, Bounds, InLoop, Pruning
  <2>7. b' = b BY <1>1
  <2>8. (On(b) /\ disk[b].modified = clock)' BY <2>3, <2>6, <2>7 DEF On
  <2>9. \A e \in doomed'[p] : e.file \in Listing' \ {b} /\ e.modified = disk'[e.file].modified
    BY <2>2, <2>3, <2>5, <2>6
  <2>10. \A f \in Spared(p)', e \in doomed'[p] : disk'[f].modified > e.modified
    BY <2>3, <2>4, <2>5, <2>6 DEF Spared
  <2>11. IsFiniteSet(Spared(p)') /\ Cardinality(Spared(p)') <= Kept - 1
    BY <2>4, <2>6
  <2> HIDE DEF b
  <2> QED BY <2>3, <2>7, <2>8, <2>9, <2>10, <2>11 DEF Bounds, InLoop, b
<1> QED
  BY <1>5, <1>6, <1>7, <1>8, <1>9, <1>10, <1>11 DEF Step, Begins

BoundInv == AloneIsQuiet /\ TimeInv /\ \A p \in alone : Bounds(p)

LEMMA BoundNext == IInv /\ BoundInv /\ [Next]_vars => BoundInv'
<1> SUFFICES ASSUME IInv, BoundInv, [Next]_vars PROVE BoundInv'
  OBVIOUS
<1>1. ASSUME NEW p \in Process, Step(p)
      PROVE  BoundInv'
  <2>1. AloneIsQuiet' BY <1>1, AloneSteps DEF BoundInv
  <2>2. TimeInv' BY <1>1, MomentsStep, LoopStep DEF BoundInv, TimeInv
  <2>3. CASE Begins(p)
    <3>1. alone' \subseteq {p} /\ pc'[p] = "readBundle"
      BY <1>1, <2>3, AloneSteps DEF BoundInv
    <3>2. Bounds(p)' BY <3>1 DEF Bounds, At, Pruning, InLoop
    <3> QED BY <2>1, <2>2, <3>1, <3>2 DEF BoundInv
  <2>4. CASE ~Begins(p)
    <3>1. alone' = alone /\ alone \subseteq {p}
      BY <1>1, <2>4, AloneSteps DEF BoundInv
    <3>2. p \in alone => Bounds(p)'
      BY <1>1, <2>4, BoundsStep DEF BoundInv
    <3> QED BY <2>1, <2>2, <3>1, <3>2 DEF BoundInv
  <2> QED BY <2>3, <2>4
<1>2. CASE UNCHANGED vars
  <2>1. AloneIsQuiet' BY <1>2 DEF vars, BoundInv, AloneIsQuiet, At
  <2>2. Listing' = Listing BY <1>2 DEF vars, Listing, On
  <2>3. TimeInv'
    BY <1>2, <2>2 DEF vars, BoundInv, TimeInv, Moments, ListingIsFinite, DoomedInLoop,
       MapsOfMapped, Writing, At, On
  <2>4. ASSUME NEW p \in alone PROVE Bounds(p)'
    <3>1. Spared(p)' = Spared(p) BY <1>2, <2>2 DEF vars, Spared
    <3>2. Temporary(p)' = Temporary(p) BY <1>2 DEF vars, Temporary, Target
    <3>3. Bounds(p) BY DEF BoundInv
    <3> QED BY <1>2, <2>2, <3>1, <3>2, <3>3 DEF vars, Bounds, InLoop, At, Pruning, On
  <2> QED BY <1>2, <2>1, <2>3, <2>4 DEF vars, BoundInv
<1> QED BY <1>1, <1>2 DEF Next, Step

\* The store does not grow with the saves of a session, and age decides what goes:
\* a prune nobody disturbed leaves no more bundles than KEPT_BUNDLES, each of
\* them newer than all it removes.
THEOREM StoreIsBounded == Spec => []PruneKeepsTheNewest
<1>1. Init => BoundInv
  BY TimeInit DEF Init, BoundInv, AloneIsQuiet
<1>2. IInv /\ BoundInv => PruneBoundsStore
  <2> SUFFICES ASSUME IInv, BoundInv, NEW p \in alone, Pruned(p)
               PROVE  Cardinality(Listing) <= Kept
    BY DEF PruneBoundsStore
  <2>1. /\ IsFiniteSet(Spared(p)) /\ Cardinality(Spared(p)) <= Kept - 1 /\ doomed[p] = {}
    BY DEF BoundInv, Bounds, InLoop, Pruned
  <2>2. Listing \subseteq Spared(p) \cup {BundleFile(key[p])}
    BY <2>1 DEF Spared
  <2>3. /\ IsFiniteSet(Spared(p) \cup {BundleFile(key[p])})
        /\ Cardinality(Spared(p) \cup {BundleFile(key[p])}) <= Cardinality(Spared(p)) + 1
        /\ Cardinality(Spared(p)) \in Nat
        /\ Cardinality(Spared(p) \cup {BundleFile(key[p])}) \in Nat
    <3> DEFINE spared == Spared(p)
               bundle == BundleFile(key[p])
    <3>1. IsFiniteSet(spared) BY <2>1
    <3> HIDE DEF spared, bundle
    <3>2. /\ IsFiniteSet(spared \cup {bundle})
          /\ Cardinality(spared \cup {bundle}) =
               IF bundle \in spared THEN Cardinality(spared) ELSE Cardinality(spared) + 1
      BY <3>1, FS_AddElement
    <3>3. Cardinality(spared) \in Nat BY <3>1, FS_CardinalityType
    <3>4. /\ IsFiniteSet(spared \cup {bundle})
          /\ Cardinality(spared \cup {bundle}) <= Cardinality(spared) + 1
          /\ Cardinality(spared) \in Nat
          /\ Cardinality(spared \cup {bundle}) \in Nat
      BY <3>2, <3>3
    <3> QED BY <3>4 DEF spared, bundle
  <2>4. /\ Cardinality(Listing) <= Cardinality(Spared(p) \cup {BundleFile(key[p])})
        /\ Cardinality(Listing) \in Nat
    BY <2>2, <2>3, FS_Subset, FS_CardinalityType
  <2> QED BY <2>1, <2>3, <2>4, CacheAssumption
<1>3. IInv /\ BoundInv => OldestAreEvicted
  <2> SUFFICES ASSUME IInv, BoundInv, NEW p \in alone, NEW d \in doomed[p],
                      NEW f \in Listing \ {e.file : e \in doomed[p]}
               PROVE  disk[f].modified > d.modified
    BY DEF OldestAreEvicted
  <2>1. p \in Process BY DEF IInv, TypeOK
  <2>2. InLoop(p) BY <2>1 DEF BoundInv, TimeInv, DoomedInLoop, InLoop
  <2>3. CASE f # BundleFile(key[p])
    BY <2>2, <2>3 DEF BoundInv, Bounds, Spared
  <2>4. CASE f = BundleFile(key[p])
    <3>1. disk[f].modified = clock /\ clock \in Nat
      BY <2>2, <2>4 DEF BoundInv, Bounds, InLoop, Pruning, At, IInv, TypeOK
    <3>2. d.file \in Listing /\ d.file # f /\ d.modified = disk[d.file].modified
      BY <2>2, <2>4 DEF BoundInv, Bounds
    <3>3. \A g \in Listing : g \in File /\ g.kind # "map" /\ On(g) /\ disk[g].whole
                             /\ disk[g].modified \in Nat /\ disk[g].modified <= clock
      BY DEF Listing, IInv, FinalIsWhole, BoundInv, TimeInv, Moments, TypeOK, Content, On
    <3>4. disk[d.file].modified # disk[f].modified
      BY <3>2, <3>3 DEF BoundInv, TimeInv, Moments
    <3> QED BY <3>1, <3>2, <3>3, <3>4
  <2> QED BY <2>3, <2>4
<1>4. Spec => []IInv
  BY Inductive, PTL
<1>5. IInv /\ BoundInv => PruneKeepsTheNewest
  BY <1>2, <1>3 DEF PruneKeepsTheNewest
<1> QED BY <1>1, <1>4, <1>5, BoundNext, PTL DEF Spec

-----------------------------------------------------------------------------
(* Counting, and the loops of the model.                                   *)

\* Induction: what holds at 0 and is handed on holds up to N.
LEMMA Counting ==
  ASSUME NEW N \in Nat, NEW S, 0 \in S, \A n \in 1 .. N : n - 1 \in S => n \in S
  PROVE  \A n \in 0 .. N : n \in S
<1> DEFINE bad == {n \in 0 .. N : n \notin S}
<1>1. ASSUME bad # {} PROVE FALSE
  <2>1. bad \in SUBSET Nat OBVIOUS
  <2>2. PICK n \in bad : \A m \in bad : n <= m BY <1>1, <2>1, LeastNatural
  <2>3. n \in 1 .. N /\ n \notin S BY <2>2
  <2>4. n - 1 \in 0 .. N /\ ~(n <= n - 1) BY <2>3
  <2> QED BY <2>2, <2>3, <2>4
<1> QED BY <1>1

\* A loop has a state after each of its steps, each made from the one before.
LEMMA FoldedSteps ==
  ASSUME NEW step, NEW base, NEW seq, Len(seq) \in Nat
  PROVE  \E after :
           /\ after[0] = base
           /\ \A i \in 1 .. Len(seq) : after[i] = step[seq[i]][after[i - 1]]
           /\ Folded(step, base, seq) = after[Len(seq)]
<1> DEFINE N == Len(seq)
           Value(f, i) == IF i = 0 THEN base ELSE step[seq[i]][f[i - 1]]
           Fits(f, n) == f = [i \in 0 .. n |-> Value(f, i)]
           S == {n \in 0 .. N : \E f : Fits(f, n)}
<1>1. 0 \in S
  <2> DEFINE f == [i \in 0 .. 0 |-> base]
  <2>1. \A i \in 0 .. 0 : i = 0 OBVIOUS
  <2>2. [i \in 0 .. 0 |-> Value(f, i)] = f BY <2>1
  <2>3. Fits(f, 0) BY <2>2
  <2> HIDE DEF f
  <2>4. \E f1 : Fits(f1, 0) BY <2>3
  <2>5. 0 \in 0 .. N OBVIOUS
  <2> QED BY <2>4, <2>5
<1>2. ASSUME NEW n \in 1 .. N, n - 1 \in S PROVE n \in S
  <2>1. PICK f : Fits(f, n - 1) BY <1>2
  <2> DEFINE last == step[seq[n]][f[n - 1]]
             g == [i \in 0 .. n |-> IF i = n THEN last ELSE f[i]]
  <2> HIDE DEF last
  <2>2. ASSUME NEW i \in 0 .. n PROVE g[i] = Value(g, i)
    <3>1. CASE i = n
      <4>1. n - 1 \in 0 .. n /\ n - 1 # n OBVIOUS
      <4>2. g[n - 1] = f[n - 1] BY <4>1
      <4> QED BY <3>1, <4>2 DEF last
    <3>2. CASE i # n
      <4>1. i \in 0 .. n - 1 /\ g[i] = f[i] BY <3>2
      <4>2. f[i] = Value(f, i) BY <2>1, <4>1
      <4>3. i # 0 => g[i - 1] = f[i - 1] BY <4>1
      <4> QED BY <4>1, <4>2, <4>3
    <3> QED BY <3>1, <3>2
  <2>3. g = [i \in 0 .. n |-> g[i]] OBVIOUS
  <2> HIDE DEF g
  <2>4. Fits(g, n) BY <2>2, <2>3
  <2> QED BY <2>4
<1> HIDE DEF S
<1>3. N \in S
  <2>1. \A n \in 0 .. N : n \in S BY <1>1, <1>2, Counting
  <2> QED BY <2>1
<1>4. PICK f : Fits(f, N) BY <1>3 DEF S
<1> DEFINE h == CHOOSE f1 : Fits(f1, N)
<1>5. Fits(h, N) BY <1>4
<1>6. Folded(step, base, seq) = h[N] BY DEF Folded
<1> HIDE DEF h
<1>7. \A i \in 0 .. N : h[i] = Value(h, i)
  <2> DEFINE g == [i \in 0 .. N |-> Value(h, i)]
  <2>1. \A i \in 0 .. N : g[i] = Value(h, i) OBVIOUS
  <2>2. h = g BY <1>5
  <2> HIDE DEF g
  <2> QED BY <2>1, <2>2
<1>8. h[0] = base /\ \A i \in 1 .. N : h[i] = step[seq[i]][h[i - 1]] BY <1>7
<1> QED BY <1>6, <1>8

\* A loop ends where its invariant, the set inv[i] of states after i steps, says.
LEMMA FoldedInv ==
  ASSUME NEW step, NEW base, NEW seq, Len(seq) \in Nat, NEW inv, base \in inv[0],
         \A i \in 1 .. Len(seq) : \A s \in inv[i - 1] : step[seq[i]][s] \in inv[i]
  PROVE  Folded(step, base, seq) \in inv[Len(seq)]
<1>1. PICK after :
        /\ after[0] = base
        /\ \A i \in 1 .. Len(seq) : after[i] = step[seq[i]][after[i - 1]]
        /\ Folded(step, base, seq) = after[Len(seq)]
  BY FoldedSteps
<1> DEFINE S == {n \in 0 .. Len(seq) : after[n] \in inv[n]}
<1>2. 0 \in S BY <1>1
<1>3. ASSUME NEW n \in 1 .. Len(seq), n - 1 \in S PROVE n \in S
  <2>1. after[n - 1] \in inv[n - 1] BY <1>3
  <2>2. after[n] = step[seq[n]][after[n - 1]] BY <1>1
  <2>3. step[seq[n]][after[n - 1]] \in inv[n] BY <2>1
  <2> QED BY <2>2, <2>3
<1> HIDE DEF S
<1>4. Len(seq) \in S
  <2>1. \A n \in 0 .. Len(seq) : n \in S BY <1>2, <1>3, Counting
  <2> QED BY <2>1
<1> QED BY <1>1, <1>4 DEF S

\* out is what h picks of seq: in its order, all of it that is in S.
Picks(out, h, seq, k, S) ==
  /\ h \in [1 .. Len(out) -> 1 .. k]
  /\ \A i, j \in 1 .. Len(out) : i < j => h[i] < h[j]
  /\ \A i \in 1 .. Len(out) : out[i] = seq[h[i]]
  /\ \A j \in 1 .. k : seq[j] \in S => \E i \in 1 .. Len(out) : h[i] = j

LEMMA OnlyPicks ==
  ASSUME NEW T, NEW seq \in Seq(T), NEW S
  PROVE  /\ Only(seq, S) \in Seq(S)
         /\ \E h : Picks(Only(seq, S), h, seq, Len(seq), S)
<1> DEFINE step == [x \in ToSet(seq) |-> [kept \in Seq(S) |->
                      IF x \in S THEN Append(kept, x) ELSE kept]]
           inv == [k \in 0 .. Len(seq) |-> {kept \in Seq(S) : \E h : Picks(kept, h, seq, k, S)}]
<1>1. <<>> \in inv[0]
  <2> DEFINE h == [i \in 1 .. 0 |-> i]
  <2>1. Picks(<<>>, h, seq, 0, S) BY DEF Picks
  <2> QED BY <2>1
<1>2. ASSUME NEW k \in 1 .. Len(seq), NEW kept \in inv[k - 1]
      PROVE  step[seq[k]][kept] \in inv[k]
  <2>1. kept \in Seq(S) /\ \E h : Picks(kept, h, seq, k - 1, S) OBVIOUS
  <2>2. PICK h : Picks(kept, h, seq, k - 1, S) BY <2>1
  <2>3. seq[k] \in ToSet(seq) BY DEF ToSet
  <2>4. step[seq[k]][kept] = IF seq[k] \in S THEN Append(kept, seq[k]) ELSE kept
    BY <2>1, <2>3
  <2>5. Len(kept) \in Nat /\ \A i \in 1 .. Len(kept) : h[i] \in 1 .. k - 1 /\ h[i] \in 1 .. k
    <3>1. Len(kept) \in Nat BY <2>1
    <3>2. h \in [1 .. Len(kept) -> 1 .. k - 1] BY <2>2 DEF Picks
    <3>3. 1 .. k - 1 \subseteq 1 .. k OBVIOUS
    <3>4. ASSUME NEW i \in 1 .. Len(kept) PROVE h[i] \in 1 .. k - 1 BY <3>2
    <3> QED BY <3>1, <3>3, <3>4
  <2>6. CASE seq[k] \in S
    <3> DEFINE out == Append(kept, seq[k])
               n == Len(kept) + 1
               g == [i \in 1 .. n |-> IF i = n THEN k ELSE h[i]]
    <3>1. out \in Seq(S) /\ Len(out) = n /\ out[n] = seq[k]
          /\ \A i \in 1 .. Len(kept) : out[i] = kept[i]
      BY <2>1, <2>6
    <3>2. \A i \in 1 .. n : i = n \/ i \in 1 .. Len(kept)
      <4>1. Len(kept) \in Nat BY <2>5
      <4> QED BY <4>1
    <3>3. g[n] = k /\ \A i \in 1 .. Len(kept) : g[i] = h[i] BY <2>5
    <3>4. g \in [1 .. n -> 1 .. k] BY <2>5, <3>2
    <3> HIDE DEF g
    <3>5. ASSUME NEW i \in 1 .. n, NEW j \in 1 .. n, i < j PROVE g[i] < g[j]
      <4>1. i \in 1 .. Len(kept) /\ g[i] = h[i] BY <3>2, <3>3, <3>5
      <4>2. CASE j = n BY <2>5, <3>3, <4>1, <4>2
      <4>3. CASE j # n
        <5>1. j \in 1 .. Len(kept) /\ g[j] = h[j] BY <3>2, <3>3, <4>3
        <5> QED BY <2>2, <3>5, <4>1, <5>1 DEF Picks
      <4> QED BY <4>2, <4>3
    <3>6. ASSUME NEW i \in 1 .. n PROVE out[i] = seq[g[i]]
      BY <2>2, <3>1, <3>2, <3>3 DEF Picks
    <3>7. ASSUME NEW j \in 1 .. k, seq[j] \in S PROVE \E i \in 1 .. n : g[i] = j
      <4>1. CASE j = k BY <2>5, <3>3, <4>1
      <4>2. CASE j # k
        <5>1. j \in 1 .. k - 1 BY <4>2
        <5>2. PICK i \in 1 .. Len(kept) : h[i] = j BY <2>2, <3>7, <5>1 DEF Picks
        <5> QED BY <2>5, <3>3, <5>2
      <4> QED BY <4>1, <4>2
    <3> HIDE DEF out
    <3>8. Picks(out, g, seq, k, S) BY <3>1, <3>4, <3>5, <3>6, <3>7 DEF Picks
    <3>9. out \in inv[k] BY <3>1, <3>8
    <3> QED BY <2>4, <2>6, <3>9 DEF out
  <2>7. CASE seq[k] \notin S
    <3>1. \A j \in 1 .. k : seq[j] \in S => j \in 1 .. k - 1 BY <2>7
    <3>2. h \in [1 .. Len(kept) -> 1 .. k] BY <2>2, <2>5 DEF Picks
    <3>3. Picks(kept, h, seq, k, S) BY <2>2, <3>1, <3>2 DEF Picks
    <3>4. kept \in inv[k] BY <2>1, <3>3
    <3> QED BY <2>4, <2>7, <3>4
  <2> QED BY <2>6, <2>7, Zenon
<1> HIDE DEF step, inv
<1>3. Len(seq) \in Nat OBVIOUS
<1>4. Folded(step, <<>>, seq) \in inv[Len(seq)] BY <1>1, <1>2, <1>3, FoldedInv
<1>5. Only(seq, S) \in inv[Len(seq)] BY <1>4 DEF Only, step
<1> QED BY <1>3, <1>5 DEF inv

-----------------------------------------------------------------------------
(* What is reached.                                                        *)

\* What a host answers: nothing of a file, or the files it names.
Answered(texts) == \A f \in Files : texts[f] # Missing => texts[f] \in Seq(Files)

LEMMA DependenciesType ==
  ASSUME NEW texts, Answered(texts), NEW f \in Files
  PROVE  Dependencies(texts, f) \subseteq Files
BY DEF Answered, Dependencies, ToSet

LEMMA ReachableType == ASSUME NEW texts, NEW f PROVE Reachable(texts, f) \subseteq Files
BY DEF Reachable

LEMMA ReachableRoot == ASSUME NEW texts, NEW f \in Files PROVE f \in Reachable(texts, f)
BY DEF Reachable

LEMMA ReachableLeast ==
  ASSUME NEW texts, NEW f, NEW S \in SUBSET Files, f \in S, Closed(texts, S)
  PROVE  Reachable(texts, f) \subseteq S
BY DEF Reachable

LEMMA ReachableClosed ==
  ASSUME NEW texts, Answered(texts), NEW f
  PROVE  Closed(texts, Reachable(texts, f))
<1> SUFFICES ASSUME NEW g \in Reachable(texts, f), NEW d \in Dependencies(texts, g)
             PROVE  d \in Reachable(texts, f)
  BY DEF Closed
<1>1. g \in Files /\ d \in Files BY ReachableType, DependenciesType
<1>2. ASSUME NEW S \in SUBSET Files, f \in S, Closed(texts, S) PROVE d \in S
  <2>1. g \in S BY <1>2, ReachableLeast
  <2> QED BY <1>2, <2>1 DEF Closed
<1> QED BY <1>1, <1>2 DEF Reachable

LEMMA ReachableOn ==
  ASSUME NEW texts, Answered(texts), NEW f \in Files, NEW g \in Reachable(texts, f)
  PROVE  Reachable(texts, g) \subseteq Reachable(texts, f)
BY ReachableType, ReachableClosed, ReachableLeast

LEMMA ReachableEdge ==
  ASSUME NEW texts, Answered(texts), NEW f \in Files, NEW d \in Dependencies(texts, f)
  PROVE  Reachable(texts, d) \subseteq Reachable(texts, f)
BY ReachableRoot, ReachableClosed, ReachableOn, DependenciesType DEF Closed

LEMMA UnionClosed ==
  ASSUME NEW texts, NEW A, NEW B, Closed(texts, A), Closed(texts, B)
  PROVE  Closed(texts, A \cup B) /\ Closed(texts, A \cap B)
BY DEF Closed

\* Found is what some files reach without leaving from outside `within`.
LEMMA FoundIs ==
  ASSUME NEW texts, NEW within, \A f \in within : Dependencies(texts, f) \subseteq Files,
         NEW from \in SUBSET Files
  PROVE  /\ from \subseteq Found(texts, within, from)
         /\ Found(texts, within, from) \subseteq Files
         /\ \A f \in Found(texts, within, from) \cap within :
              Dependencies(texts, f) \subseteq Found(texts, within, from)
         /\ \A S \in SUBSET Files :
              from \subseteq S /\ (\A f \in S \cap within : Dependencies(texts, f) \subseteq S)
              => Found(texts, within, from) \subseteq S
<1> DEFINE N == Cardinality(Files)
           rounds == 1 .. N
           More(S) == S \cup UNION {Dependencies(texts, f) : f \in S \cap within}
           round == [before \in SUBSET Files |-> More(before)]
           step == [n \in rounds |-> round]
           seq == [n \in rounds |-> n]
           Shut(S) == \A f \in S \cap within : Dependencies(texts, f) \subseteq S
           Least(F) == \A S \in SUBSET Files : from \subseteq S /\ Shut(S) => F \subseteq S
           inv == [n \in 0 .. N |-> {S \in SUBSET Files :
                     /\ from \subseteq S
                     /\ Shut(S) \/ Cardinality(S) >= n
                     /\ Least(S)}]
<1>1. IsFiniteSet(Files) /\ N \in Nat BY FilesAssumption, FS_CardinalityType
<1>2. Len(seq) = N BY <1>1
<1>3. from \in inv[0]
  <2>1. IsFiniteSet(from) BY <1>1, FS_Subset
  <2>2. Cardinality(from) >= 0 BY <2>1, FS_CardinalityType
  <2> QED BY <1>1, <2>2
<1>4. ASSUME NEW n \in 1 .. N, NEW S \in inv[n - 1] PROVE step[seq[n]][S] \in inv[n]
  <2>1. /\ S \in SUBSET Files /\ from \subseteq S
        /\ Shut(S) \/ Cardinality(S) >= n - 1
        /\ Least(S)
    <3>1. n - 1 \in 0 .. N BY <1>1
    <3> QED BY <1>4, <3>1
  <2>2. step[seq[n]][S] = More(S) BY <2>1
  <2>3. More(S) \in SUBSET Files /\ S \subseteq More(S) BY <2>1
  <2>4. Least(More(S)) BY <2>1
  <2>5. Shut(More(S)) \/ Cardinality(More(S)) >= n
    <3>1. CASE Shut(S)
      <4>1. More(S) = S BY <2>1, <3>1
      <4> QED BY <3>1, <4>1
    <3>2. CASE ~Shut(S)
      <4>1. More(S) # S BY <3>2
      <4>2. IsFiniteSet(More(S)) /\ IsFiniteSet(S) BY <1>1, <2>1, <2>3, FS_Subset
      <4>3. Cardinality(S) \in Nat /\ Cardinality(More(S)) \in Nat BY <4>2, FS_CardinalityType
      <4>4. Cardinality(S) <= Cardinality(More(S)) /\ Cardinality(S) # Cardinality(More(S))
        BY <2>3, <4>1, <4>2, FS_Subset
      <4> QED BY <2>1, <3>2, <4>3, <4>4
    <3> QED BY <3>1, <3>2
  <2> HIDE DEF More, Shut, Least
  <2> QED BY <1>1, <2>1, <2>2, <2>3, <2>4, <2>5
<1> HIDE DEF step, inv, seq
<1>5. Folded(step, from, seq) \in inv[N] BY <1>1, <1>2, <1>3, <1>4, FoldedInv
<1>6. Found(texts, within, from) \in inv[N] BY <1>5 DEF Found, step, seq
<1> DEFINE F == Found(texts, within, from)
<1> HIDE DEF F
<1>7. /\ F \in SUBSET Files /\ from \subseteq F
      /\ Shut(F) \/ Cardinality(F) >= N
      /\ Least(F)
  BY <1>1, <1>6 DEF F, inv
<1>8. Shut(F)
  <2>1. CASE Cardinality(F) >= N
    <3>1. IsFiniteSet(F) /\ Cardinality(F) \in Nat /\ Cardinality(F) <= N
      BY <1>1, <1>7, FS_Subset, FS_CardinalityType
    <3>2. F = Files
      <4>1. Cardinality(F) = Cardinality(Files) BY <1>1, <2>1, <3>1
      <4> QED BY <1>1, <1>7, <4>1, FS_Subset
    <3> QED BY <3>2
  <2> QED BY <1>7, <2>1
<1> QED BY <1>7, <1>8 DEF F

-----------------------------------------------------------------------------
(* Tarjan's algorithm: what holds of a walk between two of its steps.      *)

LEMMA ToSetIs ==
  ASSUME NEW T, NEW seq \in Seq(T)
  PROVE  /\ ToSet(seq) \subseteq T
         /\ \A x : x \in ToSet(seq) <=> \E i \in 1 .. Len(seq) : seq[i] = x
BY DEF ToSet

LEMMA ToSetAppend ==
  ASSUME NEW T, NEW seq \in Seq(T), NEW x \in T
  PROVE  ToSet(Append(seq, x)) = ToSet(seq) \cup {x}
<1> DEFINE out == Append(seq, x)
<1>1. out \in Seq(T) /\ Len(out) = Len(seq) + 1 /\ Len(seq) \in Nat OBVIOUS
<1>2. out[Len(seq) + 1] = x /\ \A i \in 1 .. Len(seq) : out[i] = seq[i] OBVIOUS
<1> HIDE DEF out
<1>3. \A y : y \in ToSet(out) <=> \E i \in 1 .. Len(out) : out[i] = y BY <1>1, ToSetIs
<1>4. \A y : y \in ToSet(seq) <=> \E i \in 1 .. Len(seq) : seq[i] = y BY ToSetIs
<1>5. ASSUME NEW y PROVE y \in ToSet(out) <=> y \in ToSet(seq) \cup {x}
  <2>1. ASSUME y \in ToSet(out) PROVE y \in ToSet(seq) \cup {x}
    <3>1. PICK i \in 1 .. Len(out) : out[i] = y BY <1>3, <2>1
    <3>2. i = Len(seq) + 1 \/ i \in 1 .. Len(seq) BY <1>1
    <3> QED BY <1>2, <1>4, <3>1, <3>2
  <2>2. ASSUME y \in ToSet(seq) PROVE y \in ToSet(out)
    <3>1. PICK i \in 1 .. Len(seq) : seq[i] = y BY <1>4, <2>2
    <3>2. i \in 1 .. Len(out) BY <1>1
    <3> QED BY <1>2, <1>3, <3>1, <3>2
  <2>3. x \in ToSet(out)
    <3>1. Len(seq) + 1 \in 1 .. Len(out) BY <1>1
    <3> QED BY <1>2, <1>3, <3>1
  <2> QED BY <2>1, <2>2, <2>3
<1> QED BY <1>5 DEF out

\* The Modules of the first groups of a sequence of them.
Upto(gs, n) == UNION {ToSet(gs[i]) : i \in 1 .. n}

\* Strongly Connected Components, dependency-first: each a cycle of Modules that
\* could be read, and with those ahead of it all they depend on.
WellGrouped(texts, gs) ==
  /\ gs \in Seq(Seq(Files))
  /\ \A i \in DOMAIN gs : /\ gs[i] # <<>>
                          /\ ToSet(gs[i]) = CycleOf(texts, gs[i][1])
                          /\ \A j, k \in DOMAIN gs[i] : gs[i][j] = gs[i][k] => j = k
                          /\ Closed(texts, Upto(gs, i))
  /\ \A i, j \in DOMAIN gs : i # j => ToSet(gs[i]) \cap ToSet(gs[j]) = {}
  /\ \A x \in Members(gs) : texts[x] # Missing

Visited(s, x) == s.index[x] # 0

\* Of a walk that is underway in the Modules of `grey`, from the outside in.
WalkInv(texts, s, grey) ==
  /\ s \in Walks /\ s.next >= 1
  /\ \A x \in Files : s.index[x] < s.next
  /\ \A x \in Files : Visited(s, x) <=> x \in ToSet(s.stack) \cup Members(s.groups)
  /\ ToSet(s.stack) \cap Members(s.groups) = {}
  /\ \A i, j \in 1 .. Len(s.stack) : i < j => s.index[s.stack[i]] < s.index[s.stack[j]]
  /\ WellGrouped(texts, s.groups)
  /\ \A x \in Files : Visited(s, x) /\ x \notin grey
                      => \A d \in Dependencies(texts, x) : Visited(s, d)
  /\ grey \subseteq ToSet(s.stack)
  /\ \A x \in ToSet(s.stack) : \E g \in grey : g \in Reachable(texts, x)
  /\ \A x \in Files : Visited(s, x) => texts[x] # Missing

\* From s to u a walk has met what f reaches and touched nothing it had met.
Grown(texts, s, u, f) ==
  /\ \A x \in Files : Visited(s, x) => u.index[x] = s.index[x] /\ u.low[x] = s.low[x]
  /\ Len(s.stack) <= Len(u.stack)
  /\ \A i \in 1 .. Len(s.stack) : u.stack[i] = s.stack[i]
  /\ Members(s.groups) \subseteq Members(u.groups)
  /\ s.next <= u.next
  /\ \A x \in Files : ~Visited(s, x) /\ Visited(u, x)
                      => u.index[x] >= s.next /\ x \in Reachable(texts, f)

\* The low link of f is its own index, or that of a stacked Module it reaches.
LowIsSeen(texts, u, f) ==
  /\ u.low[f] <= u.index[f]
  /\ \/ u.low[f] = u.index[f]
     \/ \E y \in ToSet(u.stack) : u.index[y] = u.low[f] /\ y \in Reachable(texts, f)

\* An edge from x to what was stacked before has lowered f.
EdgeLowers(texts, s, u, f, x) ==
  \A y \in Dependencies(texts, x) : y \in ToSet(s.stack) => u.low[f] <= u.index[y]

\* What visiting f makes of s.
VisitedWell(texts, s, f, grey, u) ==
  /\ WalkInv(texts, u, grey)
  /\ Grown(texts, s, u, f)
  /\ Visited(u, f)
  /\ LowIsSeen(texts, u, f)
  /\ \A x \in ToSet(u.stack) : ~Visited(s, x) => EdgeLowers(texts, s, u, f, x)

\* ... and where some of the files f names have been followed,
Underway(texts, s, f, grey, t) ==
  /\ WalkInv(texts, t, grey \cup {f})
  /\ Grown(texts, s, t, f)
  /\ t.index[f] = s.next
  /\ Len(s.stack) < Len(t.stack) /\ t.stack[Len(s.stack) + 1] = f
  /\ LowIsSeen(texts, t, f)

\* ... the first k of them.
Followed(texts, s, f, k, t) ==
  /\ \A j \in 1 .. k : texts[f][j] \in Dependencies(texts, f) =>
       /\ Visited(t, texts[f][j])
       /\ texts[f][j] \in ToSet(s.stack) => t.low[f] <= t.index[texts[f][j]]
  /\ \A x \in ToSet(t.stack) : ~Visited(s, x) /\ x # f => EdgeLowers(texts, s, t, f, x)

Following(texts, s, f, grey, k, t) ==
  Underway(texts, s, f, grey, t) /\ Followed(texts, s, f, k, t)

MayVisit(texts, s, f, grey) ==
  /\ Answered(texts)
  /\ f \in Files /\ texts[f] # Missing /\ grey \subseteq Files
  /\ WalkInv(texts, s, grey) /\ ~Visited(s, f)

LEMMA EnterIs ==
  ASSUME NEW s \in Walks, NEW f \in Files
  PROVE  /\ Enter(s, f) \in Walks
         /\ Enter(s, f).index = [s.index EXCEPT ![f] = s.next]
         /\ Enter(s, f).low = [s.low EXCEPT ![f] = s.next]
         /\ Enter(s, f).stack = Append(s.stack, f)
         /\ Enter(s, f).groups = s.groups
         /\ Enter(s, f).next = s.next + 1
<1>1. /\ s.index \in [Files -> Nat] /\ s.low \in [Files -> Nat] /\ s.stack \in Seq(Files)
      /\ s.groups \in Seq(Seq(Files)) /\ s.next \in Nat
  BY DEF Walks
<1>2. Append(s.stack, f) \in Seq(Files) BY <1>1
<1>3. Enter(s, f) \in Walks BY <1>1, <1>2 DEF Enter, Walks
<1> QED BY <1>3 DEF Enter

LEMMA EnterFollows ==
  ASSUME NEW texts, NEW s, NEW f, NEW grey, MayVisit(texts, s, f, grey)
  PROVE  Following(texts, s, f, grey, 0, Enter(s, f))
<1> DEFINE t == Enter(s, f)
           n == Len(s.stack)
<1>1. s \in Walks /\ f \in Files /\ Answered(texts) /\ s.index[f] = 0
  BY DEF MayVisit, WalkInv, Visited
<1>2. /\ s.index \in [Files -> Nat] /\ s.low \in [Files -> Nat] /\ s.stack \in Seq(Files)
      /\ s.next \in Nat /\ s.next >= 1 /\ n \in Nat
  BY DEF MayVisit, WalkInv, Walks
<1>3. /\ t \in Walks
      /\ t.index = [s.index EXCEPT ![f] = s.next]
      /\ t.low = [s.low EXCEPT ![f] = s.next]
      /\ t.stack = Append(s.stack, f) /\ t.groups = s.groups /\ t.next = s.next + 1
  BY <1>1, EnterIs
<1> HIDE DEF t
<1>4. /\ t.index[f] = s.next /\ t.low[f] = s.next
      /\ \A x \in Files : x # f => t.index[x] = s.index[x] /\ t.low[x] = s.low[x]
  BY <1>1, <1>2, <1>3
<1>5. /\ Len(t.stack) = n + 1 /\ t.stack[n + 1] = f
      /\ \A i \in 1 .. n : t.stack[i] = s.stack[i]
  BY <1>1, <1>2, <1>3
<1>6. ToSet(t.stack) = ToSet(s.stack) \cup {f} BY <1>1, <1>2, <1>3, ToSetAppend
<1>7. \A x \in Files : Visited(t, x) <=> Visited(s, x) \/ x = f
  BY <1>1, <1>2, <1>4 DEF Visited
<1>8. f \notin ToSet(s.stack) /\ f \notin Members(s.groups)
  BY <1>1 DEF MayVisit, WalkInv, Visited
<1>9. f \in Reachable(texts, f) BY <1>1, ReachableRoot
<1>10. WalkInv(texts, t, grey \cup {f})
  <2>1. \A x \in Files : t.index[x] < t.next
    <3>1. \A x \in Files : s.index[x] < s.next BY DEF MayVisit, WalkInv
    <3> QED BY <1>2, <1>3, <1>4, <3>1
  <2>2. \A x \in Files : Visited(t, x) <=> x \in ToSet(t.stack) \cup Members(t.groups)
    <3>1. \A x \in Files : Visited(s, x) <=> x \in ToSet(s.stack) \cup Members(s.groups)
      BY DEF MayVisit, WalkInv
    <3> QED BY <1>3, <1>6, <1>7, <3>1
  <2>3. ToSet(t.stack) \cap Members(t.groups) = {}
    <3>1. ToSet(s.stack) \cap Members(s.groups) = {} BY DEF MayVisit, WalkInv
    <3> QED BY <1>3, <1>6, <1>8, <3>1
  <2>4. ASSUME NEW i \in 1 .. Len(t.stack), NEW j \in 1 .. Len(t.stack), i < j
        PROVE  t.index[t.stack[i]] < t.index[t.stack[j]]
    <3>1. i \in 1 .. n /\ t.stack[i] = s.stack[i] BY <1>2, <1>5, <2>4
    <3>2. s.stack[i] \in Files /\ s.stack[i] # f
      <4>1. s.stack[i] \in ToSet(s.stack) BY <1>2, <3>1, ToSetIs
      <4> QED BY <1>2, <1>8, <4>1, ToSetIs
    <3>3. CASE j = n + 1
      <4>1. s.index[s.stack[i]] < s.next BY <3>2 DEF MayVisit, WalkInv
      <4> QED BY <1>4, <1>5, <3>1, <3>2, <3>3, <4>1
    <3>4. CASE j # n + 1
      <4>1. j \in 1 .. n /\ t.stack[j] = s.stack[j] BY <1>2, <1>5, <3>4
      <4>2. s.stack[j] \in Files /\ s.stack[j] # f
        <5>1. s.stack[j] \in ToSet(s.stack) BY <1>2, <4>1, ToSetIs
        <5> QED BY <1>2, <1>8, <5>1, ToSetIs
      <4>3. s.index[s.stack[i]] < s.index[s.stack[j]] BY <2>4, <3>1, <4>1 DEF MayVisit, WalkInv
      <4> QED BY <1>4, <3>1, <3>2, <4>1, <4>2, <4>3
    <3> QED BY <3>3, <3>4
  <2>5. WellGrouped(texts, t.groups) BY <1>3 DEF MayVisit, WalkInv
  <2>6. \A x \in Files : Visited(t, x) /\ x \notin grey \cup {f}
                         => \A d \in Dependencies(texts, x) : Visited(t, d)
    <3>1. \A x \in Files : Visited(s, x) /\ x \notin grey
                           => \A d \in Dependencies(texts, x) : Visited(s, d)
      BY DEF MayVisit, WalkInv
    <3>2. \A x \in Files : \A d \in Dependencies(texts, x) : d \in Files
      BY <1>1, DependenciesType
    <3> QED BY <1>7, <3>1, <3>2
  <2>7. grey \cup {f} \subseteq ToSet(t.stack)
    <3>1. grey \subseteq ToSet(s.stack) BY DEF MayVisit, WalkInv
    <3> QED BY <1>6, <3>1
  <2>8. \A x \in ToSet(t.stack) : \E g \in grey \cup {f} : g \in Reachable(texts, x)
    <3>1. \A x \in ToSet(s.stack) : \E g \in grey : g \in Reachable(texts, x)
      BY DEF MayVisit, WalkInv
    <3> QED BY <1>6, <1>9, <3>1
  <2>9. \A x \in Files : Visited(t, x) => texts[x] # Missing
    <3>1. \A x \in Files : Visited(s, x) => texts[x] # Missing BY DEF MayVisit, WalkInv
    <3> QED BY <1>7, <3>1 DEF MayVisit
  <2>10. t \in Walks /\ t.next >= 1 BY <1>2, <1>3
  <2> QED BY <2>1, <2>2, <2>3, <2>4, <2>5, <2>6, <2>7, <2>8, <2>9, <2>10 DEF WalkInv
<1>11. Grown(texts, s, t, f)
  <2>1. \A x \in Files : Visited(s, x) => t.index[x] = s.index[x] /\ t.low[x] = s.low[x]
    BY <1>1, <1>4 DEF Visited
  <2>2. \A x \in Files : ~Visited(s, x) /\ Visited(t, x)
                         => t.index[x] >= s.next /\ x \in Reachable(texts, f)
    BY <1>2, <1>4, <1>7, <1>9
  <2>3. s.next <= t.next /\ n <= Len(t.stack) BY <1>2, <1>3, <1>5
  <2> QED BY <1>3, <1>5, <2>1, <2>2, <2>3 DEF Grown
<1>12. LowIsSeen(texts, t, f) BY <1>2, <1>4 DEF LowIsSeen
<1>13. \A x \in ToSet(t.stack) : ~Visited(s, x) /\ x # f => EdgeLowers(texts, s, t, f, x)
  <2>1. \A x \in ToSet(s.stack) : Visited(s, x)
    <3>1. ToSet(s.stack) \subseteq Files BY <1>2, ToSetIs
    <3> QED BY <3>1 DEF MayVisit, WalkInv
  <2> QED BY <1>6, <2>1
<1>14. Len(s.stack) < Len(t.stack) /\ t.stack[Len(s.stack) + 1] = f BY <1>2, <1>5
<1> QED BY <1>4, <1>10, <1>11, <1>12, <1>13, <1>14 DEF Following, Underway, Followed, t

LEMMA LowerIs ==
  ASSUME NEW s \in Walks, NEW f \in Files, NEW to \in Nat
  PROVE  /\ Lower(s, f, to) \in Walks
         /\ Lower(s, f, to).index = s.index
         /\ Lower(s, f, to).low = [s.low EXCEPT ![f] = IF to < s.low[f] THEN to ELSE s.low[f]]
         /\ Lower(s, f, to).stack = s.stack
         /\ Lower(s, f, to).groups = s.groups
         /\ Lower(s, f, to).next = s.next
BY DEF Lower, Walks

LEMMA MayVisitTypes ==
  ASSUME NEW texts, NEW s, NEW f, NEW grey, MayVisit(texts, s, f, grey)
  PROVE  /\ Answered(texts) /\ f \in Files /\ texts[f] \in Seq(Files) /\ grey \subseteq Files
         /\ s \in Walks /\ s.index \in [Files -> Nat] /\ s.low \in [Files -> Nat]
         /\ s.stack \in Seq(Files) /\ s.groups \in Seq(Seq(Files)) /\ s.next \in Nat
         /\ s.next >= 1 /\ s.index[f] = 0
BY DEF MayVisit, Answered, WalkInv, Walks, Visited

LEMMA UnderwayTypes ==
  ASSUME NEW texts, NEW s, NEW f, NEW grey, NEW t, Underway(texts, s, f, grey, t)
  PROVE  /\ t \in Walks /\ t.index \in [Files -> Nat] /\ t.low \in [Files -> Nat]
         /\ t.stack \in Seq(Files) /\ t.groups \in Seq(Seq(Files)) /\ t.next \in Nat
BY DEF Underway, WalkInv, Walks

\* Lowering f to the index of a stacked Module it reaches, or not at all.
LEMMA LowerUnderway ==
  ASSUME NEW texts, NEW s, NEW f, NEW grey, MayVisit(texts, s, f, grey),
         NEW u, Underway(texts, s, f, grey, u), NEW to \in Nat,
         \/ to >= u.index[f]
         \/ \E y \in ToSet(u.stack) : u.index[y] = to /\ y \in Reachable(texts, f)
  PROVE  /\ Underway(texts, s, f, grey, Lower(u, f, to))
         /\ Lower(u, f, to).low[f] <= u.low[f] /\ Lower(u, f, to).low[f] <= to
         /\ Lower(u, f, to).index = u.index /\ Lower(u, f, to).stack = u.stack
<1> DEFINE r == Lower(u, f, to)
<1>1. f \in Files /\ s.index[f] = 0 BY MayVisitTypes
<1>2. u \in Walks /\ u.low \in [Files -> Nat] /\ u.index \in [Files -> Nat] BY UnderwayTypes
<1>3. /\ r \in Walks /\ r.index = u.index /\ r.stack = u.stack /\ r.groups = u.groups
      /\ r.next = u.next
      /\ r.low = [u.low EXCEPT ![f] = IF to < u.low[f] THEN to ELSE u.low[f]]
  BY <1>1, <1>2, LowerIs
<1> HIDE DEF r
<1>4. /\ r.low[f] = IF to < u.low[f] THEN to ELSE u.low[f]
      /\ \A x \in Files : x # f => r.low[x] = u.low[x]
  BY <1>1, <1>2, <1>3
<1>5. r.low[f] <= u.low[f] /\ r.low[f] <= to BY <1>1, <1>2, <1>4
<1>6. \A x : Visited(r, x) <=> Visited(u, x) BY <1>3 DEF Visited
<1>7. WalkInv(texts, r, grey \cup {f})
  <2>1. WalkInv(texts, u, grey \cup {f}) BY DEF Underway
  <2> QED BY <1>3, <1>6, <2>1 DEF WalkInv
<1>8. Grown(texts, s, r, f)
  <2>1. Grown(texts, s, u, f) BY DEF Underway
  <2>2. \A x \in Files : Visited(s, x) => r.index[x] = s.index[x] /\ r.low[x] = s.low[x]
    BY <1>1, <1>3, <1>4, <2>1 DEF Grown, Visited
  <2> QED BY <1>3, <1>6, <2>1, <2>2 DEF Grown
<1>9. LowIsSeen(texts, r, f)
  <2>1. LowIsSeen(texts, u, f) BY DEF Underway
  <2>2. CASE to < u.low[f]
    <3>1. r.low[f] = to BY <1>4, <2>2
    <3>2. u.low[f] <= u.index[f] BY <2>1 DEF LowIsSeen
    <3>3. ~(to >= u.index[f]) BY <1>1, <1>2, <2>2, <3>2
    <3>4. PICK y \in ToSet(u.stack) : u.index[y] = to /\ y \in Reachable(texts, f) BY <3>3
    <3>5. r.low[f] <= r.index[f] BY <1>1, <1>2, <1>3, <2>2, <3>1, <3>2
    <3> QED BY <1>3, <3>1, <3>4, <3>5 DEF LowIsSeen
  <2>3. CASE ~(to < u.low[f])
    <3>1. r.low[f] = u.low[f] BY <1>4, <2>3
    <3> QED BY <1>3, <2>1, <3>1 DEF LowIsSeen
  <2> QED BY <2>2, <2>3
<1>10. r.index[f] = s.next /\ Len(s.stack) < Len(r.stack) /\ r.stack[Len(s.stack) + 1] = f
  BY <1>3 DEF Underway
<1>11. Underway(texts, s, f, grey, r) BY <1>7, <1>8, <1>9, <1>10 DEF Underway
<1> QED BY <1>3, <1>5, <1>11 DEF r

\* What was stacked stays stacked while f is visited.
LEMMA StackStays ==
  ASSUME NEW texts, NEW s, NEW f, NEW t, Grown(texts, s, t, f),
         s.stack \in Seq(Files), t.stack \in Seq(Files)
  PROVE  ToSet(s.stack) \subseteq ToSet(t.stack)
<1> SUFFICES ASSUME NEW y \in ToSet(s.stack) PROVE y \in ToSet(t.stack) OBVIOUS
<1>1. PICK i \in 1 .. Len(s.stack) : s.stack[i] = y BY ToSetIs
<1>2. i \in 1 .. Len(t.stack) /\ t.stack[i] = y BY <1>1 DEF Grown
<1> QED BY <1>2, ToSetIs

\* A file that is no Module f depends on, or one that says nothing.
LEMMA FollowNothing ==
  ASSUME NEW texts, NEW s, NEW f, NEW grey, MayVisit(texts, s, f, grey),
         NEW k \in 1 .. Len(texts[f]), NEW t, Following(texts, s, f, grey, k - 1, t),
         \/ texts[f][k] \notin Dependencies(texts, f)
         \/ Visited(t, texts[f][k]) /\ texts[f][k] \notin ToSet(t.stack)
  PROVE  Following(texts, s, f, grey, k, t)
<1>1. k \in Nat /\ \A j \in 1 .. k : j = k \/ j \in 1 .. k - 1 BY MayVisitTypes
<1>2. ToSet(s.stack) \subseteq ToSet(t.stack)
  <2>1. s.stack \in Seq(Files) BY MayVisitTypes
  <2>2. Underway(texts, s, f, grey, t) BY DEF Following
  <2>3. t.stack \in Seq(Files) BY <2>2, UnderwayTypes
  <2>4. Grown(texts, s, t, f) BY <2>2 DEF Underway
  <2> QED BY <2>1, <2>3, <2>4, StackStays
<1>3. texts[f][k] \in Dependencies(texts, f) =>
        Visited(t, texts[f][k]) /\ texts[f][k] \notin ToSet(s.stack)
  BY <1>2
<1>4. Followed(texts, s, f, k - 1, t) /\ Underway(texts, s, f, grey, t) BY DEF Following
<1>5. Followed(texts, s, f, k, t) BY <1>1, <1>3, <1>4 DEF Followed
<1> QED BY <1>4, <1>5 DEF Following

\* An edge to a Module that is stacked.
LEMMA FollowStacked ==
  ASSUME NEW texts, NEW s, NEW f, NEW grey, MayVisit(texts, s, f, grey),
         NEW k \in 1 .. Len(texts[f]), NEW t, Following(texts, s, f, grey, k - 1, t),
         NEW d \in Dependencies(texts, f), d = texts[f][k], d \in ToSet(t.stack), Visited(t, d)
  PROVE  Following(texts, s, f, grey, k, Lower(t, f, t.index[d]))
<1> DEFINE r == Lower(t, f, t.index[d])
<1>1. k \in Nat /\ \A j \in 1 .. k : j = k \/ j \in 1 .. k - 1 BY MayVisitTypes
<1>2. Followed(texts, s, f, k - 1, t) /\ Underway(texts, s, f, grey, t) BY DEF Following
<1>3. /\ t.index \in [Files -> Nat] /\ t.low \in [Files -> Nat] /\ t \in Walks
      /\ t.stack \in Seq(Files)
  BY <1>2, UnderwayTypes
<1>4. f \in Files /\ d \in Files /\ Answered(texts) BY MayVisitTypes, DependenciesType
<1>5. d \in Reachable(texts, f) BY <1>4, ReachableEdge, ReachableRoot
<1>6. t.index[d] \in Nat BY <1>3, <1>4
<1>7. /\ Underway(texts, s, f, grey, r) /\ r.low[f] <= t.low[f] /\ r.low[f] <= t.index[d]
      /\ r.index = t.index /\ r.stack = t.stack
  BY <1>2, <1>5, <1>6, LowerUnderway
<1>8. r.low \in [Files -> Nat] BY <1>7, UnderwayTypes
<1> HIDE DEF r
<1>9. ASSUME NEW n \in Nat, t.low[f] <= n PROVE r.low[f] <= n
  BY <1>3, <1>4, <1>7, <1>8, <1>9
<1>10. ASSUME NEW j \in 1 .. k, texts[f][j] \in Dependencies(texts, f)
       PROVE  /\ Visited(r, texts[f][j])
              /\ texts[f][j] \in ToSet(s.stack) => r.low[f] <= r.index[texts[f][j]]
  <2>1. CASE j = k BY <1>7, <2>1 DEF Visited
  <2>2. CASE j # k
    <3>1. j \in 1 .. k - 1 BY <1>1, <2>2
    <3>2. /\ Visited(t, texts[f][j])
          /\ texts[f][j] \in ToSet(s.stack) => t.low[f] <= t.index[texts[f][j]]
      BY <1>2, <1>10, <3>1 DEF Followed
    <3>3. texts[f][j] \in Files BY <1>4, <1>10, DependenciesType
    <3>4. t.index[texts[f][j]] \in Nat BY <1>3, <3>3
    <3> QED BY <1>7, <1>9, <3>2, <3>4 DEF Visited
  <2> QED BY <2>1, <2>2
<1>11. ASSUME NEW x \in ToSet(r.stack), ~Visited(s, x), x # f
       PROVE  EdgeLowers(texts, s, r, f, x)
  <2>1. EdgeLowers(texts, s, t, f, x) BY <1>2, <1>7, <1>11 DEF Followed
  <2>2. x \in Files BY <1>3, <1>7, ToSetIs
  <2>3. \A y \in Dependencies(texts, x) : t.index[y] \in Nat BY <1>3, <1>4, <2>2, DependenciesType
  <2> QED BY <1>7, <1>9, <2>1, <2>3 DEF EdgeLowers
<1>12. Followed(texts, s, f, k, r) BY <1>10, <1>11 DEF Followed
<1> QED BY <1>7, <1>12 DEF Following, r

LEMMA VisitedWellTypes ==
  ASSUME NEW texts, NEW s, NEW f, NEW grey, NEW u, VisitedWell(texts, s, f, grey, u)
  PROVE  /\ u \in Walks /\ u.index \in [Files -> Nat] /\ u.low \in [Files -> Nat]
         /\ u.stack \in Seq(Files) /\ u.groups \in Seq(Seq(Files)) /\ u.next \in Nat
BY DEF VisitedWell, WalkInv, Walks

\* What one visit meets after another, the first reaches if it leads to the other.
LEMMA GrownOn ==
  ASSUME NEW texts, Answered(texts), NEW f \in Files, NEW d \in Reachable(texts, f),
         NEW s \in Walks, NEW t \in Walks, NEW u \in Walks,
         Grown(texts, s, t, f), Grown(texts, t, u, d)
  PROVE  Grown(texts, s, u, f)
<1>1. /\ s.index \in [Files -> Nat] /\ t.index \in [Files -> Nat] /\ u.index \in [Files -> Nat]
      /\ s.next \in Nat /\ t.next \in Nat /\ u.next \in Nat
      /\ Len(s.stack) \in Nat /\ Len(t.stack) \in Nat /\ Len(u.stack) \in Nat
  <2>1. ASSUME NEW w \in Walks
        PROVE  w.index \in [Files -> Nat] /\ w.next \in Nat /\ Len(w.stack) \in Nat
    <3>1. w.index \in [Files -> Nat] /\ w.next \in Nat /\ w.stack \in Seq(Files)
      BY DEF Walks
    <3> QED BY <3>1
  <2> QED BY <2>1, Zenon
<1>2. \A x \in Files : Visited(s, x) => Visited(t, x) /\ u.index[x] = s.index[x] /\ u.low[x] = s.low[x]
  BY DEF Grown, Visited
<1>3. Len(s.stack) <= Len(u.stack) /\ \A i \in 1 .. Len(s.stack) : u.stack[i] = s.stack[i]
  <2>1. /\ Len(s.stack) <= Len(t.stack) /\ Len(t.stack) <= Len(u.stack)
        /\ \A i \in 1 .. Len(s.stack) : t.stack[i] = s.stack[i]
        /\ \A i \in 1 .. Len(t.stack) : u.stack[i] = t.stack[i]
    BY DEF Grown
  <2> QED BY <1>1, <2>1
<1>4. Members(s.groups) \subseteq Members(u.groups) BY DEF Grown
<1>5. s.next <= u.next BY <1>1 DEF Grown
<1>6. ASSUME NEW x \in Files, ~Visited(s, x), Visited(u, x)
      PROVE  u.index[x] >= s.next /\ x \in Reachable(texts, f)
  <2>1. CASE Visited(t, x)
    <3>1. t.index[x] >= s.next /\ x \in Reachable(texts, f) BY <1>6, <2>1 DEF Grown
    <3>2. u.index[x] = t.index[x] BY <2>1 DEF Grown
    <3> QED BY <3>1, <3>2
  <2>2. CASE ~Visited(t, x)
    <3>1. u.index[x] >= t.next /\ x \in Reachable(texts, d) /\ s.next <= t.next
      BY <1>6, <2>2 DEF Grown
    <3>2. x \in Reachable(texts, f) BY <3>1, ReachableOn
    <3> QED BY <1>1, <3>1, <3>2
  <2> QED BY <2>1, <2>2
<1> QED BY <1>2, <1>3, <1>4, <1>5, <1>6 DEF Grown

\* An edge to a Module that is visited from f.
LEMMA FollowUnvisited ==
  ASSUME NEW texts, NEW s, NEW f, NEW grey, MayVisit(texts, s, f, grey),
         NEW k \in 1 .. Len(texts[f]), NEW t, Following(texts, s, f, grey, k - 1, t),
         NEW d \in Dependencies(texts, f), d = texts[f][k], ~Visited(t, d),
         NEW u, VisitedWell(texts, t, d, grey \cup {f}, u)
  PROVE  Following(texts, s, f, grey, k, Lower(u, f, u.low[d]))
<1> DEFINE r == Lower(u, f, u.low[d])
<1>1. k \in Nat /\ \A j \in 1 .. k : j = k \/ j \in 1 .. k - 1 BY MayVisitTypes
<1>2. Followed(texts, s, f, k - 1, t) /\ Underway(texts, s, f, grey, t) BY DEF Following
<1>3. /\ t \in Walks /\ t.index \in [Files -> Nat] /\ t.low \in [Files -> Nat]
      /\ t.stack \in Seq(Files) /\ t.next \in Nat
  BY <1>2, UnderwayTypes
<1>4. /\ u \in Walks /\ u.index \in [Files -> Nat] /\ u.low \in [Files -> Nat]
      /\ u.stack \in Seq(Files) /\ u.next \in Nat
  BY VisitedWellTypes
<1>5. /\ f \in Files /\ Answered(texts) /\ s \in Walks /\ s.index[f] = 0
      /\ s.stack \in Seq(Files) /\ s.next \in Nat /\ s.next >= 1
  BY MayVisitTypes
<1>6. d \in Files /\ d \in Reachable(texts, f) BY <1>5, ReachableEdge, ReachableRoot, DependenciesType
<1>7. Grown(texts, s, t, f) BY <1>2 DEF Underway
<1>8. Grown(texts, t, u, d) BY DEF VisitedWell
<1>9. Grown(texts, s, u, f) BY <1>3, <1>4, <1>5, <1>6, <1>7, <1>8, GrownOn
<1>10. ToSet(s.stack) \subseteq ToSet(t.stack) /\ ToSet(t.stack) \subseteq ToSet(u.stack)
  BY <1>3, <1>4, <1>5, <1>7, <1>8, StackStays
<1>11. \A x \in Files : Visited(t, x) => u.index[x] = t.index[x] /\ u.low[x] = t.low[x]
  BY <1>8 DEF Grown
<1>12. t.index[f] = s.next /\ Visited(t, f) BY <1>2, <1>5 DEF Underway, Visited
<1>13. u.index[f] = s.next /\ u.low[f] = t.low[f] BY <1>5, <1>11, <1>12
<1>14. \A x \in Files : x \in ToSet(t.stack) => Visited(t, x)
  BY <1>2 DEF Underway, WalkInv
<1>15. Underway(texts, s, f, grey, u)
  <2>1. WalkInv(texts, u, grey \cup {f}) BY DEF VisitedWell
  <2>2. Len(s.stack) < Len(u.stack) /\ u.stack[Len(s.stack) + 1] = f
    <3>1. Len(s.stack) < Len(t.stack) /\ t.stack[Len(s.stack) + 1] = f BY <1>2 DEF Underway
    <3>2. Len(t.stack) <= Len(u.stack) /\ \A i \in 1 .. Len(t.stack) : u.stack[i] = t.stack[i]
      BY <1>8 DEF Grown
    <3>3. Len(s.stack) \in Nat /\ Len(t.stack) \in Nat /\ Len(u.stack) \in Nat
      <4>1. Len(s.stack) \in Nat BY <1>5
      <4>2. Len(t.stack) \in Nat BY <1>3
      <4>3. Len(u.stack) \in Nat BY <1>4
      <4> QED BY <4>1, <4>2, <4>3
    <3>4. Len(s.stack) + 1 \in 1 .. Len(t.stack) BY <3>1, <3>3
    <3>5. u.stack[Len(s.stack) + 1] = t.stack[Len(s.stack) + 1] BY <3>2, <3>4
    <3>6. Len(s.stack) < Len(u.stack) BY <3>1, <3>2, <3>3
    <3> QED BY <3>1, <3>5, <3>6
  <2>3. LowIsSeen(texts, u, f)
    <3>1. LowIsSeen(texts, t, f) BY <1>2 DEF Underway
    <3>2. CASE t.low[f] = t.index[f] BY <1>4, <1>5, <1>12, <1>13, <3>2 DEF LowIsSeen
    <3>3. CASE t.low[f] # t.index[f]
      <4>1. PICK y \in ToSet(t.stack) : t.index[y] = t.low[f] /\ y \in Reachable(texts, f)
        BY <3>1, <3>3 DEF LowIsSeen
      <4>2. y \in Files BY <1>3, ToSetIs
      <4>3. u.index[y] = u.low[f] /\ y \in ToSet(u.stack) BY <1>10, <1>11, <1>13, <1>14, <4>1, <4>2
      <4> QED BY <1>12, <1>13, <3>1, <4>1, <4>3 DEF LowIsSeen
    <3> QED BY <3>2, <3>3
  <2> QED BY <1>9, <1>13, <2>1, <2>2, <2>3 DEF Underway
<1>16. \/ u.low[d] >= u.index[f]
       \/ \E y \in ToSet(u.stack) : u.index[y] = u.low[d] /\ y \in Reachable(texts, f)
  <2>1. LowIsSeen(texts, u, d) /\ Visited(u, d) BY DEF VisitedWell
  <2>2. CASE u.low[d] = u.index[d]
    <3>1. u.index[d] >= t.next BY <1>6, <1>8, <2>1 DEF Grown
    <3>2. t.index[f] < t.next BY <1>2, <1>5 DEF Underway, WalkInv
    <3> QED BY <1>3, <1>4, <1>5, <1>6, <1>12, <1>13, <2>2, <3>1, <3>2
  <2>3. CASE u.low[d] # u.index[d]
    <3>1. PICK y \in ToSet(u.stack) : u.index[y] = u.low[d] /\ y \in Reachable(texts, d)
      BY <2>1, <2>3 DEF LowIsSeen
    <3>2. y \in Reachable(texts, f) BY <1>5, <1>6, <3>1, ReachableOn
    <3> QED BY <3>1, <3>2
  <2> QED BY <2>2, <2>3
<1>17. /\ Underway(texts, s, f, grey, r) /\ r.low[f] <= u.low[f] /\ r.low[f] <= u.low[d]
       /\ r.index = u.index /\ r.stack = u.stack
  <2>1. u.low[d] \in Nat BY <1>4, <1>6
  <2> QED BY <1>15, <1>16, <2>1, LowerUnderway
<1>18. r.low \in [Files -> Nat] BY <1>17, UnderwayTypes
<1> HIDE DEF r
<1>19. ASSUME NEW n \in Nat, u.low[f] <= n \/ u.low[d] <= n PROVE r.low[f] <= n
  <2>1. u.low[f] \in Nat /\ u.low[d] \in Nat BY <1>4, <1>5, <1>6
  <2>2. r.low[f] \in Nat BY <1>5, <1>18
  <2>3. r.low[f] <= u.low[f] /\ r.low[f] <= u.low[d] BY <1>17
  <2>4. \A a, b, c \in Nat : a <= b /\ a <= c /\ (b <= n \/ c <= n) => a <= n OBVIOUS
  <2> QED BY <1>19, <2>1, <2>2, <2>3, <2>4
<1>20. ASSUME NEW j \in 1 .. k, texts[f][j] \in Dependencies(texts, f)
       PROVE  /\ Visited(r, texts[f][j])
              /\ texts[f][j] \in ToSet(s.stack) => r.low[f] <= r.index[texts[f][j]]
  <2>1. CASE j = k
    <3>1. d \notin ToSet(s.stack) BY <1>6, <1>10, <1>14
    <3>2. Visited(r, d) BY <1>17 DEF Visited, VisitedWell
    <3> QED BY <2>1, <3>1, <3>2
  <2>2. CASE j # k
    <3>1. j \in 1 .. k - 1 BY <1>1, <2>2
    <3>2. /\ Visited(t, texts[f][j])
          /\ texts[f][j] \in ToSet(s.stack) => t.low[f] <= t.index[texts[f][j]]
      BY <1>2, <1>20, <3>1 DEF Followed
    <3>3. texts[f][j] \in Files BY <1>5, <1>20, DependenciesType
    <3>4. u.index[texts[f][j]] = t.index[texts[f][j]] /\ u.index[texts[f][j]] \in Nat
      BY <1>4, <1>11, <3>2, <3>3
    <3> QED BY <1>13, <1>17, <1>19, <3>2, <3>4 DEF Visited
  <2> QED BY <2>1, <2>2
<1>21. ASSUME NEW x \in ToSet(r.stack), ~Visited(s, x), x # f
       PROVE  EdgeLowers(texts, s, r, f, x)
  <2>1. x \in Files /\ x \in ToSet(u.stack) BY <1>4, <1>17, <1>21, ToSetIs
  <2> SUFFICES ASSUME NEW y \in Dependencies(texts, x), y \in ToSet(s.stack)
               PROVE  r.low[f] <= r.index[y]
    BY DEF EdgeLowers
  <2>2. y \in Files /\ u.index[y] \in Nat BY <1>4, <1>5, <2>1, DependenciesType
  <2>3. y \in ToSet(t.stack) /\ u.index[y] = t.index[y] BY <1>10, <1>11, <1>14, <2>2
  <2>4. CASE Visited(t, x)
    <3>1. x \in ToSet(t.stack)
      <4>1. x \in ToSet(t.stack) \cup Members(t.groups)
        BY <1>2, <2>1, <2>4 DEF Underway, WalkInv
      <4>2. Members(t.groups) \subseteq Members(u.groups) BY <1>8 DEF Grown
      <4>3. ToSet(u.stack) \cap Members(u.groups) = {} BY DEF VisitedWell, WalkInv
      <4> QED BY <2>1, <4>1, <4>2, <4>3
    <3>2. t.low[f] <= t.index[y] BY <1>2, <1>21, <3>1 DEF Followed, EdgeLowers
    <3> QED BY <1>13, <1>17, <1>19, <2>2, <2>3, <3>2
  <2>5. CASE ~Visited(t, x)
    <3>1. u.low[d] <= u.index[y] BY <2>1, <2>3, <2>5 DEF VisitedWell, EdgeLowers
    <3> QED BY <1>17, <1>19, <2>2, <3>1
  <2> QED BY <2>4, <2>5
<1>22. Followed(texts, s, f, k, r) BY <1>20, <1>21 DEF Followed
<1> QED BY <1>17, <1>22 DEF Following, r

\* What a sequence of groups holds with one more at its end.
LEMMA MembersAppend ==
  ASSUME NEW gs \in Seq(Seq(Files)), NEW g \in Seq(Files)
  PROVE  Members(Append(gs, g)) = Members(gs) \cup ToSet(g)
<1>1. ToSet(Append(gs, g)) = ToSet(gs) \cup {g} BY ToSetAppend
<1> QED BY <1>1 DEF Members

LEMMA MembersUpto ==
  ASSUME NEW gs \in Seq(Seq(Files))
  PROVE  /\ Members(gs) = Upto(gs, Len(gs))
         /\ \A x : x \in Members(gs) <=> \E i \in 1 .. Len(gs) : x \in ToSet(gs[i])
         /\ Members(gs) \subseteq Files
<1>1. \A g : g \in ToSet(gs) <=> \E i \in 1 .. Len(gs) : gs[i] = g BY ToSetIs
<1>2. \A i \in 1 .. Len(gs) : ToSet(gs[i]) \subseteq Files
  <2>1. \A i \in 1 .. Len(gs) : gs[i] \in Seq(Files) OBVIOUS
  <2> QED BY <2>1, ToSetIs
<1>3. \A x : x \in Members(gs) <=> \E i \in 1 .. Len(gs) : x \in ToSet(gs[i])
  BY <1>1 DEF Members
<1>4. Members(gs) = Upto(gs, Len(gs)) BY <1>3 DEF Upto
<1> QED BY <1>2, <1>3, <1>4

LEMMA WellGroupedClosed ==
  ASSUME NEW texts, NEW gs, WellGrouped(texts, gs)
  PROVE  Closed(texts, Members(gs)) /\ Members(gs) \subseteq Files
<1>1. gs \in Seq(Seq(Files)) BY DEF WellGrouped
<1>2. Members(gs) = Upto(gs, Len(gs)) /\ Members(gs) \subseteq Files BY <1>1, MembersUpto
<1>3. CASE Len(gs) = 0
  <2>1. \A x : x \notin Members(gs)
    <3>1. \A x : x \in Members(gs) <=> \E i \in 1 .. Len(gs) : x \in ToSet(gs[i])
      BY <1>1, MembersUpto
    <3> QED BY <1>3, <3>1
  <2> QED BY <1>2, <2>1 DEF Closed
<1>4. CASE Len(gs) # 0
  <2>1. Len(gs) \in DOMAIN gs BY <1>1, <1>4
  <2> QED BY <1>2, <2>1 DEF WellGrouped
<1> QED BY <1>3, <1>4

LEMMA WellGroupedAppend ==
  ASSUME NEW texts, NEW gs, WellGrouped(texts, gs), NEW g \in Seq(Files), g # <<>>,
         ToSet(g) = CycleOf(texts, g[1]),
         \A j, k \in DOMAIN g : g[j] = g[k] => j = k,
         ToSet(g) \cap Members(gs) = {},
         Closed(texts, Members(gs) \cup ToSet(g)),
         \A x \in ToSet(g) : texts[x] # Missing
  PROVE  WellGrouped(texts, Append(gs, g))
<1> DEFINE more == Append(gs, g)
           n == Len(gs)
<1>1. gs \in Seq(Seq(Files)) /\ n \in Nat BY DEF WellGrouped
<1>2. /\ more \in Seq(Seq(Files)) /\ Len(more) = n + 1 /\ DOMAIN more = 1 .. n + 1
      /\ DOMAIN gs = 1 .. n
      /\ more[n + 1] = g /\ \A i \in 1 .. n : more[i] = gs[i]
  BY <1>1
<1>3. Members(more) = Members(gs) \cup ToSet(g) BY <1>1, MembersAppend
<1> HIDE DEF more
<1>4. \A i \in DOMAIN more : i = n + 1 \/ i \in 1 .. n BY <1>1, <1>2
<1>5. \A i \in 1 .. n : Upto(more, i) = Upto(gs, i)
  <2>1. \A i \in 1 .. n : \A j \in 1 .. i : more[j] = gs[j] BY <1>1, <1>2
  <2> QED BY <2>1 DEF Upto
<1>6. Upto(more, n + 1) = Members(gs) \cup ToSet(g)
  BY <1>2, <1>3, MembersUpto
<1>7. \A i \in 1 .. n : ToSet(gs[i]) \subseteq Members(gs) BY <1>1, MembersUpto
<1>8. ASSUME NEW i \in DOMAIN more
      PROVE  /\ more[i] # <<>>
             /\ ToSet(more[i]) = CycleOf(texts, more[i][1])
             /\ \A j, k \in DOMAIN more[i] : more[i][j] = more[i][k] => j = k
             /\ Closed(texts, Upto(more, i))
  <2>1. CASE i = n + 1 BY <1>2, <1>6, <2>1
  <2>2. CASE i \in 1 .. n BY <1>2, <1>5, <2>2 DEF WellGrouped
  <2> QED BY <1>4, <2>1, <2>2
<1>9. ASSUME NEW i \in DOMAIN more, NEW j \in DOMAIN more, i # j
      PROVE  ToSet(more[i]) \cap ToSet(more[j]) = {}
  <2>1. CASE i = n + 1 /\ j \in 1 .. n BY <1>2, <1>7, <2>1
  <2>2. CASE i \in 1 .. n /\ j = n + 1 BY <1>2, <1>7, <2>2
  <2>3. CASE i \in 1 .. n /\ j \in 1 .. n BY <1>2, <1>9, <2>3 DEF WellGrouped
  <2> QED BY <1>4, <1>9, <2>1, <2>2, <2>3
<1>10. \A x \in Members(more) : texts[x] # Missing BY <1>3 DEF WellGrouped
<1> QED BY <1>2, <1>8, <1>9, <1>10 DEF WellGrouped, more

\* The stack is what it was with what was met since on top: f and what f led to.
LEMMA StackAbove ==
  ASSUME NEW texts, NEW s, NEW f, NEW grey, MayVisit(texts, s, f, grey),
         NEW t, Underway(texts, s, f, grey, t)
  PROVE  /\ \A i \in 1 .. Len(t.stack) :
              /\ t.stack[i] \in Files
              /\ i <= Len(s.stack) => t.stack[i] = s.stack[i] /\ Visited(s, t.stack[i])
              /\ i > Len(s.stack) => ~Visited(s, t.stack[i])
              /\ t.stack[i] = f => i = Len(s.stack) + 1
         /\ \A i, j \in 1 .. Len(t.stack) : t.stack[i] = t.stack[j] => i = j
         /\ Len(s.stack) \in Nat /\ Len(t.stack) \in Nat
<1>1. s.stack \in Seq(Files) /\ s.index[f] = 0 /\ f \in Files /\ s.index \in [Files -> Nat]
      /\ s.next \in Nat /\ s.next >= 1
  BY MayVisitTypes
<1>2. t.stack \in Seq(Files) /\ t.index \in [Files -> Nat] BY UnderwayTypes
<1>3. /\ t.index[f] = s.next /\ Len(s.stack) < Len(t.stack) /\ t.stack[Len(s.stack) + 1] = f
      /\ Grown(texts, s, t, f) /\ WalkInv(texts, t, grey \cup {f})
  BY DEF Underway
<1>4. \A i, j \in 1 .. Len(t.stack) : i < j => t.index[t.stack[i]] < t.index[t.stack[j]]
  BY <1>3 DEF WalkInv
<1>5. \A i \in 1 .. Len(t.stack) : t.stack[i] \in Files /\ t.index[t.stack[i]] \in Nat BY <1>2
<1>6. Len(s.stack) \in Nat /\ Len(t.stack) \in Nat BY <1>1, <1>2
<1>7. ASSUME NEW i \in 1 .. Len(t.stack), NEW j \in 1 .. Len(t.stack), t.stack[i] = t.stack[j]
      PROVE  i = j
  <2>1. ~(i < j) /\ ~(j < i) BY <1>4, <1>5, <1>7
  <2> QED BY <1>6, <2>1
<1>8. ASSUME NEW i \in 1 .. Len(t.stack), i <= Len(s.stack)
      PROVE  t.stack[i] = s.stack[i] /\ Visited(s, t.stack[i])
  <2>1. i \in 1 .. Len(s.stack) BY <1>6, <1>8
  <2>2. t.stack[i] = s.stack[i] BY <1>3, <2>1 DEF Grown
  <2>3. s.stack[i] \in ToSet(s.stack) BY <1>1, <2>1, ToSetIs
  <2> QED BY <1>5, <2>2, <2>3 DEF MayVisit, WalkInv
<1>9. ASSUME NEW i \in 1 .. Len(t.stack), i > Len(s.stack) PROVE ~Visited(s, t.stack[i])
  <2>1. Len(s.stack) + 1 \in 1 .. Len(t.stack) BY <1>3, <1>6
  <2>2. t.index[t.stack[i]] >= s.next
    <3>1. CASE i = Len(s.stack) + 1 BY <1>1, <1>3, <3>1
    <3>2. CASE i # Len(s.stack) + 1
      <4>1. Len(s.stack) + 1 < i BY <1>6, <1>9, <3>2
      <4>2. t.index[f] < t.index[t.stack[i]] BY <1>3, <1>4, <2>1, <4>1
      <4> QED BY <1>1, <1>3, <1>5, <4>2
    <3> QED BY <3>1, <3>2
  <2>3. ASSUME Visited(s, t.stack[i]) PROVE FALSE
    <3>1. t.index[t.stack[i]] = s.index[t.stack[i]] BY <1>3, <1>5, <2>3 DEF Grown
    <3>2. s.index[t.stack[i]] < s.next BY <1>5 DEF MayVisit, WalkInv
    <3>3. s.index[t.stack[i]] \in Nat BY <1>1, <1>5
    <3> QED BY <1>1, <2>2, <3>1, <3>2, <3>3
  <2> QED BY <2>3
<1>10. ASSUME NEW i \in 1 .. Len(t.stack), t.stack[i] = f PROVE i = Len(s.stack) + 1
  <2>1. Len(s.stack) + 1 \in 1 .. Len(t.stack) BY <1>3, <1>6
  <2> QED BY <1>3, <1>7, <1>10, <2>1
<1> QED BY <1>5, <1>6, <1>7, <1>8, <1>9, <1>10

\* All edges of f lead to Modules that were met.
LEMMA AllFollowed ==
  ASSUME NEW texts, NEW s, NEW f, NEW grey, MayVisit(texts, s, f, grey),
         NEW t, Following(texts, s, f, grey, Len(texts[f]), t)
  PROVE  /\ \A d \in Dependencies(texts, f) : Visited(t, d)
         /\ EdgeLowers(texts, s, t, f, f)
         /\ \A x \in Files : Visited(t, x) /\ x \notin grey
                             => \A d \in Dependencies(texts, x) : Visited(t, d)
<1>1. texts[f] \in Seq(Files) /\ f \in Files BY MayVisitTypes
<1>2. \A d \in Dependencies(texts, f) : \E j \in 1 .. Len(texts[f]) : texts[f][j] = d
  <2>1. Dependencies(texts, f) \subseteq ToSet(texts[f]) BY DEF Dependencies
  <2> QED BY <1>1, <2>1, ToSetIs
<1>3. \A d \in Dependencies(texts, f) :
        /\ Visited(t, d)
        /\ d \in ToSet(s.stack) => t.low[f] <= t.index[d]
  BY <1>2 DEF Following, Followed
<1>4. \A x \in Files : Visited(t, x) /\ x \notin grey \cup {f}
                       => \A d \in Dependencies(texts, x) : Visited(t, d)
  BY DEF Following, Underway, WalkInv
<1> QED BY <1>3, <1>4 DEF EdgeLowers

\* The Modules met since f was entered and still stacked are the cycle of f,
\* where nothing has lowered f.
LEMMA AboveIsCycle ==
  ASSUME NEW texts, NEW s, NEW f, NEW grey, MayVisit(texts, s, f, grey),
         NEW t, Following(texts, s, f, grey, Len(texts[f]), t), t.low[f] = t.index[f],
         NEW above, above = {x \in ToSet(t.stack) : ~Visited(s, x)}
  PROVE  /\ above = CycleOf(texts, f)
         /\ Closed(texts, Members(t.groups) \cup above)
<1>1. /\ s.stack \in Seq(Files) /\ s.index[f] = 0 /\ f \in Files /\ s.index \in [Files -> Nat]
      /\ s.next \in Nat /\ Answered(texts)
  BY MayVisitTypes
<1>2. Underway(texts, s, f, grey, t) /\ Followed(texts, s, f, Len(texts[f]), t) BY DEF Following
<1>3. t.stack \in Seq(Files) /\ t.index \in [Files -> Nat] /\ t.groups \in Seq(Seq(Files))
  BY <1>2, UnderwayTypes
<1>4. WalkInv(texts, t, grey \cup {f}) /\ Grown(texts, s, t, f) /\ t.index[f] = s.next
  BY <1>2 DEF Underway
<1>5. above \subseteq Files BY <1>3, ToSetIs
<1>6. /\ \A x \in Files : Visited(t, x) <=> x \in ToSet(t.stack) \cup Members(t.groups)
      /\ ToSet(t.stack) \cap Members(t.groups) = {}
  BY <1>4 DEF WalkInv
<1>7. WellGrouped(texts, t.groups) BY <1>4 DEF WalkInv
<1>8. Closed(texts, Members(t.groups)) /\ Members(t.groups) \subseteq Files
  BY <1>7, WellGroupedClosed
<1>9. \A x \in ToSet(t.stack) : Visited(s, x) => x \in ToSet(s.stack)
  <2>1. \A x \in Files : Visited(s, x) => x \in ToSet(s.stack) \cup Members(s.groups)
    BY DEF MayVisit, WalkInv
  <2>2. Members(s.groups) \subseteq Members(t.groups) BY <1>4 DEF Grown
  <2>3. ToSet(t.stack) \subseteq Files BY <1>3, ToSetIs
  <2> QED BY <1>6, <2>1, <2>2, <2>3
<1>10. \A x \in ToSet(s.stack) : x \in Files /\ Visited(s, x) /\ t.index[x] < s.next
  <2>1. ToSet(s.stack) \subseteq Files BY <1>1, ToSetIs
  <2>2. \A x \in ToSet(s.stack) : Visited(s, x) BY <2>1 DEF MayVisit, WalkInv
  <2>3. \A x \in ToSet(s.stack) : t.index[x] = s.index[x] BY <1>4, <2>1, <2>2 DEF Grown
  <2>4. \A x \in Files : s.index[x] < s.next BY DEF MayVisit, WalkInv
  <2> QED BY <2>1, <2>2, <2>3, <2>4
<1>11. grey \subseteq ToSet(s.stack) BY DEF MayVisit, WalkInv
<1>12. f \in above
  <2>1. Len(s.stack) \in Nat /\ Len(t.stack) \in Nat BY <1>1, <1>3
  <2>2. Len(s.stack) + 1 \in 1 .. Len(t.stack) /\ t.stack[Len(s.stack) + 1] = f
    BY <1>2, <2>1 DEF Underway
  <2>3. f \in ToSet(t.stack) BY <1>3, <2>2, ToSetIs
  <2> QED BY <1>1, <2>3 DEF Visited
<1>13. Closed(texts, Members(t.groups) \cup above)
  <2> SUFFICES ASSUME NEW x \in above, NEW d \in Dependencies(texts, x)
               PROVE  d \in Members(t.groups) \cup above
    BY <1>8 DEF Closed
  <2>1. x \in Files /\ d \in Files BY <1>1, <1>5, DependenciesType
  <2>2. x \notin grey BY <1>10, <1>11
  <2>3. Visited(t, x) BY <1>6, <2>1
  <2>4. Visited(t, d) BY <2>1, <2>2, <2>3, AllFollowed
  <2>5. EdgeLowers(texts, s, t, f, x)
    <3>1. CASE x = f BY <3>1, AllFollowed
    <3>2. CASE x # f BY <1>2, <3>2 DEF Followed
    <3> QED BY <3>1, <3>2
  <2>6. d \notin ToSet(s.stack)
    <3>1. ASSUME d \in ToSet(s.stack) PROVE FALSE
      <4>1. t.low[f] <= t.index[d] BY <2>5, <3>1 DEF EdgeLowers
      <4>2. t.index[d] < s.next BY <1>10, <3>1
      <4>3. t.index[d] \in Nat BY <1>3, <2>1
      <4> QED BY <1>1, <1>4, <4>1, <4>2, <4>3
    <3> QED BY <3>1
  <2> QED BY <1>6, <1>9, <2>1, <2>4, <2>6
<1>14. Reachable(texts, f) \subseteq Members(t.groups) \cup above
  BY <1>5, <1>8, <1>12, <1>13, ReachableLeast
<1>15. ASSUME NEW x \in above PROVE x \in CycleOf(texts, f)
  <2>1. x \in Files /\ ~Visited(s, x) /\ x \in ToSet(t.stack) BY <1>5
  <2>2. x \in Reachable(texts, f) BY <1>4, <1>6, <2>1 DEF Grown
  <2>3. PICK g \in grey \cup {f} : g \in Reachable(texts, x) BY <1>4, <2>1 DEF WalkInv
  <2>4. g \in Members(t.groups) \cup above
    <3>1. Reachable(texts, x) \subseteq Reachable(texts, f) BY <1>1, <2>2, ReachableOn
    <3> QED BY <1>14, <2>3, <3>1
  <2>5. g \notin grey
    <3>1. ASSUME g \in grey PROVE FALSE
      <4>1. g \in ToSet(s.stack) /\ Visited(s, g) BY <1>10, <1>11, <3>1
      <4>2. g \in ToSet(t.stack) BY <1>1, <1>3, <1>4, <4>1, StackStays
      <4> QED BY <1>6, <2>4, <4>1, <4>2
    <3> QED BY <3>1
  <2>6. f \in Reachable(texts, x) BY <2>3, <2>5
  <2> QED BY <2>1, <2>2, <2>6 DEF CycleOf, Cyclic
<1>16. ASSUME NEW x \in CycleOf(texts, f) PROVE x \in above
  <2>1. x \in Files /\ x \in Reachable(texts, f) /\ f \in Reachable(texts, x)
    BY DEF CycleOf, Cyclic
  <2>2. ASSUME x \in Members(t.groups) PROVE FALSE
    <3>1. f \in Members(t.groups) BY <1>8, <2>1, <2>2, ReachableLeast
    <3> QED BY <1>6, <1>12, <3>1
  <2> QED BY <1>14, <2>1, <2>2
<1> QED BY <1>13, <1>15, <1>16

\* The two parts of a sequence.
LEMMA PrefixIs ==
  ASSUME NEW T, NEW seq \in Seq(T), NEW n \in 0 .. Len(seq)
  PROVE  /\ SubSeq(seq, 1, n) \in Seq(T)
         /\ Len(SubSeq(seq, 1, n)) = n
         /\ \A i \in 1 .. n : SubSeq(seq, 1, n)[i] = seq[i]
<1>1. \A i \in 1 .. n : seq[i] \in T OBVIOUS
<1>2. n \in Int /\ 1 \in Int OBVIOUS
<1>3. /\ SubSeq(seq, 1, n) \in Seq(T)
      /\ Len(SubSeq(seq, 1, n)) = IF 1 <= n THEN n - 1 + 1 ELSE 0
      /\ \A i \in 1 .. n - 1 + 1 : SubSeq(seq, 1, n)[i] = seq[1 + i - 1]
  BY <1>1, <1>2, SubSeqProperties
<1>4. ASSUME NEW i \in 1 .. n PROVE SubSeq(seq, 1, n)[i] = seq[i]
  <2>1. i \in 1 .. n - 1 + 1 /\ 1 + i - 1 = i OBVIOUS
  <2> QED BY <1>3, <2>1
<1> QED BY <1>3, <1>4

LEMMA SuffixIs ==
  ASSUME NEW T, NEW seq \in Seq(T), NEW n \in 0 .. Len(seq)
  PROVE  /\ SubSeq(seq, n + 1, Len(seq)) \in Seq(T)
         /\ Len(SubSeq(seq, n + 1, Len(seq))) = Len(seq) - n
         /\ \A i \in 1 .. Len(seq) - n : SubSeq(seq, n + 1, Len(seq))[i] = seq[n + i]
<1> DEFINE p == n + 1
           q == Len(seq)
<1>1. p \in Int /\ q \in Int /\ \A i \in p .. q : seq[i] \in T OBVIOUS
<1>2. \A i \in 1 .. q - n : i \in 1 .. q - p + 1 /\ p + i - 1 = n + i OBVIOUS
<1>3. (IF p <= q THEN q - p + 1 ELSE 0) = q - n OBVIOUS
<1> HIDE DEF p, q
<1>4. /\ SubSeq(seq, p, q) \in Seq(T)
      /\ Len(SubSeq(seq, p, q)) = IF p <= q THEN q - p + 1 ELSE 0
      /\ \A i \in 1 .. q - p + 1 : SubSeq(seq, p, q)[i] = seq[p + i - 1]
  BY <1>1, SubSeqProperties
<1>5. ASSUME NEW i \in 1 .. q - n PROVE SubSeq(seq, p, q)[i] = seq[n + i]
  BY <1>2, <1>4
<1>6. Len(SubSeq(seq, p, q)) = q - n BY <1>3, <1>4
<1> QED BY <1>4, <1>5, <1>6 DEF p, q

LEMMA CloseIs ==
  ASSUME NEW t \in Walks, NEW f, NEW p \in 1 .. Len(t.stack), t.stack[p] = f,
         \A i \in 1 .. Len(t.stack) : t.stack[i] = f => i = p
  PROVE  /\ Close(t, f) \in Walks
         /\ Close(t, f).index = t.index /\ Close(t, f).low = t.low
         /\ Close(t, f).next = t.next
         /\ Close(t, f).groups = Append(t.groups, SubSeq(t.stack, p, Len(t.stack)))
         /\ Close(t, f).stack = SubSeq(t.stack, 1, p - 1)
<1> DEFINE at == CHOOSE i \in DOMAIN t.stack : t.stack[i] = f
           c == [t EXCEPT !.groups = Append(@, SubSeq(t.stack, at, Len(t.stack))),
                          !.stack = SubSeq(@, 1, at - 1)]
<1>1. t.stack \in Seq(Files) /\ t.groups \in Seq(Seq(Files)) /\ Len(t.stack) \in Nat BY DEF Walks
<1>2. DOMAIN t.stack = 1 .. Len(t.stack) BY <1>1
<1>3. at = p BY <1>2
<1>4. Close(t, f) = c BY DEF Close
<1> HIDE DEF at
<1>5. SubSeq(t.stack, p, Len(t.stack)) \in Seq(Files) /\ SubSeq(t.stack, 1, p - 1) \in Seq(Files)
  BY <1>1
<1>6. Append(t.groups, SubSeq(t.stack, p, Len(t.stack))) \in Seq(Seq(Files)) BY <1>1, <1>5
<1> DEFINE gs == Append(t.groups, SubSeq(t.stack, p, Len(t.stack)))
           st == SubSeq(t.stack, 1, p - 1)
<1>7. c = [t EXCEPT !.groups = gs, !.stack = st] BY <1>3
<1> HIDE DEF gs, st, c
<1>8. /\ c.index = t.index /\ c.low = t.low /\ c.next = t.next /\ c.groups = gs /\ c.stack = st
  BY <1>7 DEF Walks
<1>9. c \in Walks
  <2>1. gs \in Seq(Seq(Files)) /\ st \in Seq(Files) BY <1>5, <1>6 DEF gs, st
  <2> QED BY <1>7, <2>1 DEF Walks
<1> QED BY <1>4, <1>8, <1>9 DEF gs, st

\* Closing: the group is what is stacked from f on.
LEMMA CloseVisited ==
  ASSUME NEW texts, NEW s, NEW f, NEW grey, MayVisit(texts, s, f, grey),
         NEW t, Following(texts, s, f, grey, Len(texts[f]), t), t.low[f] = t.index[f]
  PROVE  VisitedWell(texts, s, f, grey, Close(t, f))
<1> DEFINE n == Len(s.stack)
           m == Len(t.stack)
           g == SubSeq(t.stack, n + 1, m)
           c == Close(t, f)
           above == {x \in ToSet(t.stack) : ~Visited(s, x)}
<1>1. /\ s.stack \in Seq(Files) /\ s.index[f] = 0 /\ f \in Files /\ s.index \in [Files -> Nat]
      /\ s.next \in Nat /\ Answered(texts)
  BY MayVisitTypes
<1>2. Underway(texts, s, f, grey, t) BY DEF Following
<1>3. /\ t \in Walks /\ t.stack \in Seq(Files) /\ t.index \in [Files -> Nat]
      /\ t.groups \in Seq(Seq(Files))
  BY <1>2, UnderwayTypes
<1>4. WalkInv(texts, t, grey \cup {f}) /\ Grown(texts, s, t, f) /\ t.index[f] = s.next
  BY <1>2 DEF Underway
<1>5. /\ n \in Nat /\ m \in Nat /\ n < m /\ n + 1 \in 1 .. m /\ t.stack[n + 1] = f
      /\ \A i \in 1 .. m : t.stack[i] = f => i = n + 1
      /\ \A i \in 1 .. m : i <= n => t.stack[i] = s.stack[i] /\ Visited(s, t.stack[i])
      /\ \A i \in 1 .. m : i > n => ~Visited(s, t.stack[i])
      /\ \A i, j \in 1 .. m : t.stack[i] = t.stack[j] => i = j
  <2>1. n \in Nat /\ m \in Nat /\ n < m /\ t.stack[n + 1] = f BY <1>1, <1>2, <1>3 DEF Underway
  <2> QED BY <1>2, <2>1, StackAbove
<1>6. /\ c \in Walks /\ c.index = t.index /\ c.low = t.low /\ c.next = t.next
      /\ c.groups = Append(t.groups, g) /\ c.stack = SubSeq(t.stack, 1, n)
  <2>1. n + 1 - 1 = n BY <1>5
  <2>2. /\ c \in Walks /\ c.index = t.index /\ c.low = t.low /\ c.next = t.next
        /\ c.groups = Append(t.groups, g) /\ c.stack = SubSeq(t.stack, 1, n + 1 - 1)
    <3>1. PICK p \in 1 .. Len(t.stack) : p = n + 1 BY <1>5
    <3>2. t.stack[p] = f /\ \A i \in 1 .. Len(t.stack) : t.stack[i] = f => i = p BY <1>5, <3>1
    <3>3. /\ c \in Walks /\ c.index = t.index /\ c.low = t.low /\ c.next = t.next
          /\ c.groups = Append(t.groups, SubSeq(t.stack, p, Len(t.stack)))
          /\ c.stack = SubSeq(t.stack, 1, p - 1)
      BY <1>3, <3>2, CloseIs
    <3> QED BY <3>1, <3>3
  <2> QED BY <2>1, <2>2
<1>7. /\ g \in Seq(Files) /\ Len(g) = m - n /\ \A i \in 1 .. m - n : g[i] = t.stack[n + i]
      /\ DOMAIN g = 1 .. m - n
  <2>1. n \in 0 .. Len(t.stack) BY <1>5
  <2>2. /\ g \in Seq(Files) /\ Len(g) = m - n /\ \A i \in 1 .. m - n : g[i] = t.stack[n + i]
    <3> HIDE DEF n
    <3> QED BY <1>3, <2>1, SuffixIs
  <2> HIDE DEF g, m, n
  <2>3. DOMAIN g = 1 .. Len(g) BY <2>2
  <2> QED BY <2>2, <2>3
<1> HIDE DEF g, c
<1>8. c.stack = s.stack
  <2>1. /\ c.stack \in Seq(Files) /\ Len(c.stack) = n
        /\ \A i \in 1 .. n : c.stack[i] = t.stack[i]
    <3>1. n \in 0 .. Len(t.stack) BY <1>5
    <3> HIDE DEF n
    <3> QED BY <1>3, <1>6, <3>1, PrefixIs
  <2>2. \A i \in 1 .. n : c.stack[i] = s.stack[i] BY <1>5, <2>1
  <2> QED BY <1>1, <2>1, <2>2, SeqEqual
<1>9. ToSet(g) = above
  <2>1. ASSUME NEW x \in ToSet(g) PROVE x \in above
    <3>1. PICK i \in 1 .. m - n : g[i] = x BY <1>7, ToSetIs
    <3>2. n + i \in 1 .. m /\ n + i > n /\ t.stack[n + i] = x BY <1>5, <1>7, <3>1
    <3> QED BY <1>3, <1>5, <3>2, ToSetIs
  <2>2. ASSUME NEW x \in above PROVE x \in ToSet(g)
    <3>1. PICK i \in 1 .. m : t.stack[i] = x BY <1>3, ToSetIs
    <3>2. i \in Nat /\ ~(i <= n)
      <4>1. i <= n => Visited(s, x) BY <1>5, <3>1
      <4> QED BY <4>1
    <3> DEFINE j == i - n
    <3>3. j \in 1 .. m - n /\ n + j = i BY <1>5, <3>2
    <3> HIDE DEF j
    <3>4. g[j] = x BY <1>7, <3>1, <3>3
    <3> QED BY <1>7, <3>3, <3>4, ToSetIs
  <2> QED BY <2>1, <2>2
<1>10. above = CycleOf(texts, f) /\ Closed(texts, Members(t.groups) \cup above)
  BY AboveIsCycle
<1>11. /\ \A x \in Files : Visited(t, x) <=> x \in ToSet(t.stack) \cup Members(t.groups)
       /\ ToSet(t.stack) \cap Members(t.groups) = {}
       /\ \A x \in Files : Visited(t, x) => texts[x] # Missing
  BY <1>4 DEF WalkInv
<1>12. ToSet(t.stack) \subseteq Files /\ ToSet(s.stack) \subseteq Files BY <1>1, <1>3, ToSetIs
<1>13. /\ \A x \in Files : Visited(s, x) <=> x \in ToSet(s.stack) \cup Members(s.groups)
       /\ ToSet(s.stack) \cap Members(s.groups) = {}
  BY DEF MayVisit, WalkInv
<1>14. ToSet(s.stack) \subseteq ToSet(t.stack) BY <1>1, <1>3, <1>4, StackStays
<1>15. Members(s.groups) \subseteq Members(t.groups) BY <1>4 DEF Grown
<1>16. \A x : x \in ToSet(t.stack) <=> x \in ToSet(s.stack) \/ x \in above
  BY <1>11, <1>12, <1>13, <1>14, <1>15
<1>17. WellGrouped(texts, c.groups)
  <2>1. WellGrouped(texts, t.groups) BY <1>4 DEF WalkInv
  <2>2. g # <<>> /\ g[1] = f
    <3>1. 1 \in 1 .. m - n /\ m - n # 0 BY <1>5
    <3>2. g[1] = t.stack[n + 1] BY <1>7, <3>1
    <3> QED BY <1>5, <1>7, <3>1, <3>2
  <2>3. \A j, k \in DOMAIN g : g[j] = g[k] => j = k
    <3>1. ASSUME NEW j \in 1 .. m - n, NEW k \in 1 .. m - n, g[j] = g[k] PROVE j = k
      <4>1. n + j \in 1 .. m /\ n + k \in 1 .. m BY <1>5
      <4>2. t.stack[n + j] = t.stack[n + k] BY <1>7, <3>1
      <4>3. n + j = n + k
        <5> DEFINE a == n + j
                   b == n + k
        <5>1. a \in 1 .. m /\ b \in 1 .. m /\ t.stack[a] = t.stack[b] BY <4>1, <4>2
        <5> HIDE DEF a, b
        <5>2. a = b BY <1>5, <5>1
        <5> QED BY <5>2 DEF a, b
      <4> QED BY <1>5, <4>3
    <3> QED BY <1>7, <3>1
  <2>4. ToSet(g) \cap Members(t.groups) = {} BY <1>9, <1>11
  <2>5. \A x \in ToSet(g) : texts[x] # Missing BY <1>9, <1>11, <1>12
  <2>6. ToSet(g) = CycleOf(texts, g[1]) BY <1>9, <1>10, <2>2
  <2>7. Closed(texts, Members(t.groups) \cup ToSet(g)) BY <1>9, <1>10
  <2> HIDE DEF above, m, n
  <2>8. WellGrouped(texts, Append(t.groups, g))
    BY <1>7, <2>1, <2>2, <2>3, <2>4, <2>5, <2>6, <2>7, WellGroupedAppend
  <2> QED BY <1>6, <2>8
<1>18. Members(c.groups) = Members(t.groups) \cup above BY <1>3, <1>6, <1>7, <1>9, MembersAppend
<1>19. \A x : Visited(c, x) <=> Visited(t, x) BY <1>6 DEF Visited
<1>20. WalkInv(texts, c, grey)
  <2>1. c.next >= 1 /\ \A x \in Files : c.index[x] < c.next BY <1>4, <1>6 DEF WalkInv
  <2>2. \A x \in Files : Visited(c, x) <=> x \in ToSet(c.stack) \cup Members(c.groups)
    BY <1>8, <1>11, <1>16, <1>18, <1>19
  <2>3. ToSet(c.stack) \cap Members(c.groups) = {}
    BY <1>8, <1>11, <1>12, <1>13, <1>14, <1>18
  <2>4. ASSUME NEW i \in 1 .. n, NEW j \in 1 .. n, i < j
        PROVE  c.index[s.stack[i]] < c.index[s.stack[j]]
    <3>1. i \in 1 .. m /\ j \in 1 .. m BY <1>5
    <3>2. t.stack[i] = s.stack[i] /\ t.stack[j] = s.stack[j] BY <1>5, <3>1
    <3>3. t.index[t.stack[i]] < t.index[t.stack[j]] BY <1>4, <2>4, <3>1 DEF WalkInv
    <3> QED BY <1>6, <3>2, <3>3
  <2>5. \A x \in Files : Visited(c, x) /\ x \notin grey
                         => \A d \in Dependencies(texts, x) : Visited(c, d)
    BY <1>19, AllFollowed
  <2>6. /\ grey \subseteq ToSet(s.stack)
        /\ \A x \in ToSet(s.stack) : \E y \in grey : y \in Reachable(texts, x)
    BY DEF MayVisit, WalkInv
  <2> QED BY <1>6, <1>8, <1>11, <1>17, <1>19, <2>1, <2>2, <2>3, <2>4, <2>5, <2>6 DEF WalkInv
<1>21. Grown(texts, s, c, f)
  <2>1. Members(s.groups) \subseteq Members(c.groups) BY <1>15, <1>18
  <2>2. n <= Len(c.stack) /\ \A i \in 1 .. n : c.stack[i] = s.stack[i] BY <1>5, <1>8
  <2> QED BY <1>4, <1>6, <1>19, <2>1, <2>2 DEF Grown
<1>22. Visited(c, f) /\ LowIsSeen(texts, c, f)
  <2>1. f \in ToSet(t.stack) BY <1>3, <1>5, ToSetIs
  <2>2. c.low[f] = c.index[f] /\ c.index[f] \in Nat BY <1>1, <1>3, <1>6
  <2> QED BY <1>1, <1>11, <1>19, <2>1, <2>2 DEF LowIsSeen
<1>23. \A x \in ToSet(c.stack) : Visited(s, x) BY <1>8, <1>12, <1>13
<1> QED BY <1>20, <1>21, <1>22, <1>23 DEF VisitedWell, c

\* Leaving f stacked: it reaches what it was lowered to, which was stacked before.
LEMMA KeepVisited ==
  ASSUME NEW texts, NEW s, NEW f, NEW grey, MayVisit(texts, s, f, grey),
         NEW t, Following(texts, s, f, grey, Len(texts[f]), t), t.low[f] # t.index[f]
  PROVE  VisitedWell(texts, s, f, grey, t)
<1>1. /\ s.stack \in Seq(Files) /\ s.index[f] = 0 /\ f \in Files /\ s.index \in [Files -> Nat]
      /\ s.next \in Nat /\ Answered(texts) /\ s.next >= 1
  BY MayVisitTypes
<1>2. Underway(texts, s, f, grey, t) /\ Followed(texts, s, f, Len(texts[f]), t) BY DEF Following
<1>3. /\ t \in Walks /\ t.stack \in Seq(Files) /\ t.index \in [Files -> Nat]
      /\ t.low \in [Files -> Nat]
  BY <1>2, UnderwayTypes
<1>4. /\ WalkInv(texts, t, grey \cup {f}) /\ Grown(texts, s, t, f) /\ t.index[f] = s.next
      /\ LowIsSeen(texts, t, f)
  BY <1>2 DEF Underway
<1>5. PICK y \in ToSet(t.stack) : t.index[y] = t.low[f] /\ y \in Reachable(texts, f)
  BY <1>4 DEF LowIsSeen
<1>6. y \in Files BY <1>3, ToSetIs
<1>7. ToSet(t.stack) \cap Members(t.groups) = {} BY <1>4 DEF WalkInv
<1>8. y \in ToSet(s.stack)
  <2>1. t.index[y] < s.next
    <3>1. t.low[f] <= t.index[f] BY <1>4 DEF LowIsSeen
    <3>2. t.low[f] \in Nat BY <1>1, <1>3
    <3> QED BY <1>1, <1>4, <1>5, <3>1, <3>2
  <2>2. Visited(t, y) BY <1>4, <1>6, <1>5 DEF WalkInv
  <2>3. Visited(s, y)
    <3>1. t.index[y] \in Nat BY <1>3, <1>6
    <3> QED BY <1>1, <1>4, <1>6, <2>1, <2>2, <3>1 DEF Grown
  <2>4. y \in ToSet(s.stack) \cup Members(s.groups) BY <1>6, <2>3 DEF MayVisit, WalkInv
  <2>5. Members(s.groups) \subseteq Members(t.groups) BY <1>4 DEF Grown
  <2> QED BY <1>5, <1>7, <2>4, <2>5
<1>9. PICK g \in grey : g \in Reachable(texts, y) BY <1>8 DEF MayVisit, WalkInv
<1>10. g \in Reachable(texts, f) BY <1>1, <1>5, <1>9, ReachableOn
<1>11. \A x \in ToSet(t.stack) : \E z \in grey : z \in Reachable(texts, x)
  <2> SUFFICES ASSUME NEW x \in ToSet(t.stack) PROVE \E z \in grey : z \in Reachable(texts, x)
    OBVIOUS
  <2>1. x \in Files BY <1>3, ToSetIs
  <2>2. PICK z \in grey \cup {f} : z \in Reachable(texts, x) BY <1>4 DEF WalkInv
  <2>3. CASE z = f
    <3>1. Reachable(texts, f) \subseteq Reachable(texts, x) BY <1>1, <2>1, <2>2, <2>3, ReachableOn
    <3> QED BY <1>9, <1>10, <3>1
  <2> QED BY <2>2, <2>3
<1>12. WalkInv(texts, t, grey)
  <2>1. \A x \in Files : Visited(t, x) /\ x \notin grey
                         => \A d \in Dependencies(texts, x) : Visited(t, d)
    BY AllFollowed
  <2>2. grey \subseteq ToSet(t.stack) BY <1>4 DEF WalkInv
  <2> QED BY <1>4, <1>11, <2>1, <2>2 DEF WalkInv
<1>13. Visited(t, f) BY <1>1, <1>4 DEF Visited
<1>14. \A x \in ToSet(t.stack) : ~Visited(s, x) => EdgeLowers(texts, s, t, f, x)
  <2>1. EdgeLowers(texts, s, t, f, f) BY AllFollowed
  <2> QED BY <1>2, <2>1 DEF Followed
<1> QED BY <1>4, <1>12, <1>13, <1>14 DEF VisitedWell

-----------------------------------------------------------------------------
(* Tarjan's algorithm: a visit, and the groups of several roots.           *)

\* How many Modules a walk has yet to meet: no visit from it goes deeper.
Unmet(s) == {x \in Files : ~Visited(s, x)}

\* visit[n] is right of the walks that may go no deeper than n.
RightUpTo(texts, visit, n) ==
  \A f \in Files, s \in Walks, grey \in SUBSET Files :
    MayVisit(texts, s, f, grey) /\ Cardinality(Unmet(s)) <= n
    => VisitedWell(texts, s, f, grey, visit[n][f][s])

\* visit, as a function of how deep it may go.
Deep(texts, visit, n) ==
  [f \in Files |-> [s \in Walks |->
     IF n = 0 THEN s
     ELSE CloseFirst(Folded(FollowOver(texts, f, visit[n - 1]), Enter(s, f), texts[f]), f)]]

LEMMA VisitSteps ==
  ASSUME NEW texts
  PROVE  \E visit : /\ \A n \in 0 .. Cardinality(Files) : visit[n] = Deep(texts, visit, n)
                    /\ Visit(texts) = visit[Cardinality(Files)]
<1> DEFINE N == Cardinality(Files)
           Fits(v, n) == v = [i \in 0 .. n |-> Deep(texts, v, i)]
           S == {n \in 0 .. N : \E v : Fits(v, n)}
<1>1. N \in Nat BY FilesAssumption, FS_CardinalityType
<1>2. \A v, w, n : n # 0 /\ v[n - 1] = w[n - 1] => Deep(texts, v, n) = Deep(texts, w, n)
  BY DEF Deep
<1>3. \A v, w : Deep(texts, v, 0) = Deep(texts, w, 0) BY DEF Deep
<1>4. 0 \in S
  <2> DEFINE v == [i \in 0 .. 0 |-> Deep(texts, <<>>, 0)]
  <2>1. \A i \in 0 .. 0 : i = 0 OBVIOUS
  <2>2. [i \in 0 .. 0 |-> Deep(texts, v, i)] = v BY <1>3, <2>1
  <2>3. Fits(v, 0) BY <2>2
  <2> HIDE DEF v
  <2>4. \E v1 : Fits(v1, 0) BY <2>3
  <2>5. 0 \in 0 .. N BY <1>1
  <2> QED BY <2>4, <2>5
<1>5. ASSUME NEW n \in 1 .. N, n - 1 \in S PROVE n \in S
  <2>1. PICK v : Fits(v, n - 1) BY <1>5
  <2>2. \A i \in 0 .. n - 1 : v[i] = Deep(texts, v, i)
    <3> DEFINE h == [i \in 0 .. n - 1 |-> Deep(texts, v, i)]
    <3>1. \A i \in 0 .. n - 1 : h[i] = Deep(texts, v, i) OBVIOUS
    <3>2. v = h BY <2>1
    <3> HIDE DEF h
    <3> QED BY <3>1, <3>2
  <2> DEFINE g == [i \in 0 .. n |-> Deep(texts, v, i)]
  <2>3. \A i \in 0 .. n - 1 : g[i] = v[i] BY <2>2
  <2>4. ASSUME NEW i \in 0 .. n PROVE Deep(texts, v, i) = Deep(texts, g, i)
    <3>1. CASE i = 0 BY <1>3, <3>1
    <3>2. CASE i # 0
      <4>1. i - 1 \in 0 .. n - 1 BY <3>2
      <4>2. g[i - 1] = v[i - 1] BY <2>3, <4>1
      <4> HIDE DEF g
      <4> QED BY <1>2, <3>2, <4>2
    <3> QED BY <3>1, <3>2
  <2>5. g = [i \in 0 .. n |-> Deep(texts, g, i)] BY <2>4
  <2> HIDE DEF g
  <2>6. \E v1 : Fits(v1, n) BY <2>5
  <2> QED BY <2>6
<1> HIDE DEF S
<1>6. N \in S
  <2>1. \A n \in 0 .. N : n \in S BY <1>1, <1>4, <1>5, Counting
  <2> QED BY <1>1, <2>1
<1>7. PICK v : Fits(v, N) BY <1>6 DEF S
<1> DEFINE h == CHOOSE w : Fits(w, N)
<1>8. Fits(h, N) BY <1>7
<1>9. Visit(texts) = h[N] BY DEF Visit, Deep
<1> HIDE DEF h
<1>10. \A i \in 0 .. N : h[i] = Deep(texts, h, i)
  <2> DEFINE g == [i \in 0 .. N |-> Deep(texts, h, i)]
  <2>1. \A i \in 0 .. N : g[i] = Deep(texts, h, i) OBVIOUS
  <2>2. h = g BY <1>8
  <2> HIDE DEF g
  <2> QED BY <2>1, <2>2
<1> QED BY <1>9, <1>10

\* What an edge of f makes of a walk.
LEMMA FollowOverIs ==
  ASSUME NEW texts, NEW f, NEW visit, NEW d \in Files, NEW s \in Walks
  PROVE  /\ d \notin Dependencies(texts, f) => FollowOver(texts, f, visit)[d][s] = s
         /\ d \in Dependencies(texts, f) /\ Visited(s, d) =>
              FollowOver(texts, f, visit)[d][s] = LowerToStacked(s, f, d)
         /\ d \in Dependencies(texts, f) /\ ~Visited(s, d) =>
              FollowOver(texts, f, visit)[d][s] = Lower(visit[d][s], f, visit[d][s].low[d])
<1> DEFINE r == IF d \notin Dependencies(texts, f) THEN s
                ELSE IF s.index[d] # 0 THEN LowerToStacked(s, f, d)
                ELSE Lower(visit[d][s], f, visit[d][s].low[d])
<1>1. FollowOver(texts, f, visit)[d][s] = r BY DEF FollowOver
<1>2. /\ d \notin Dependencies(texts, f) => r = s
      /\ d \in Dependencies(texts, f) /\ Visited(s, d) => r = LowerToStacked(s, f, d)
      /\ d \in Dependencies(texts, f) /\ ~Visited(s, d) =>
           r = Lower(visit[d][s], f, visit[d][s].low[d])
  BY DEF Visited
<1> HIDE DEF r
<1> QED BY <1>1, <1>2

\* A walk that is underway in f has fewer Modules to meet.
LEMMA UnmetShrinks ==
  ASSUME NEW texts, NEW s, NEW f, NEW grey, MayVisit(texts, s, f, grey),
         NEW t, Underway(texts, s, f, grey, t), NEW n \in Nat, Cardinality(Unmet(s)) <= n
  PROVE  n >= 1 /\ Cardinality(Unmet(t)) <= n - 1
<1>1. f \in Files /\ s.index \in [Files -> Nat] /\ s.next \in Nat /\ s.next >= 1 BY MayVisitTypes
<1>2. t.index \in [Files -> Nat] BY UnderwayTypes
<1>3. Grown(texts, s, t, f) /\ t.index[f] = s.next BY DEF Underway
<1>4. Unmet(s) \subseteq Files /\ IsFiniteSet(Unmet(s))
  <2>1. Unmet(s) \subseteq Files BY DEF Unmet
  <2> QED BY <2>1, FilesAssumption, FS_Subset
<1>5. f \in Unmet(s) BY <1>1 DEF Unmet, MayVisit
<1>6. Unmet(t) \subseteq Unmet(s) \ {f}
  <2> SUFFICES ASSUME NEW x \in Unmet(t) PROVE x \in Unmet(s) \ {f} OBVIOUS
  <2>1. x \in Files /\ ~Visited(t, x) BY DEF Unmet
  <2>2. ~Visited(s, x) BY <1>3, <2>1 DEF Grown, Visited
  <2>3. x # f BY <1>1, <1>3, <2>1 DEF Visited
  <2> QED BY <2>1, <2>2, <2>3 DEF Unmet
<1>7. /\ IsFiniteSet(Unmet(s) \ {f})
      /\ Cardinality(Unmet(s) \ {f}) = Cardinality(Unmet(s)) - 1
  BY <1>4, <1>5, FS_RemoveElement
<1>8. Cardinality(Unmet(t)) <= Cardinality(Unmet(s) \ {f}) /\ IsFiniteSet(Unmet(t))
  BY <1>6, <1>7, FS_Subset
<1>9. /\ Cardinality(Unmet(s)) \in Nat /\ Cardinality(Unmet(t)) \in Nat
      /\ Cardinality(Unmet(s) \ {f}) \in Nat
  BY <1>4, <1>7, <1>8, FS_CardinalityType
<1> QED BY <1>7, <1>8, <1>9

\* One turn of the loop over the files f names.
LEMMA FollowOne ==
  ASSUME NEW texts, NEW visit, NEW n \in Nat, RightUpTo(texts, visit, n - 1),
         NEW s, NEW f, NEW grey, MayVisit(texts, s, f, grey), Cardinality(Unmet(s)) <= n,
         NEW k \in 1 .. Len(texts[f]), NEW t, Following(texts, s, f, grey, k - 1, t)
  PROVE  Following(texts, s, f, grey, k, FollowOver(texts, f, visit[n - 1])[texts[f][k]][t])
<1> DEFINE d == texts[f][k]
           v == visit[n - 1]
<1>1. /\ texts[f] \in Seq(Files) /\ f \in Files /\ grey \subseteq Files /\ Answered(texts)
      /\ d \in Files
  BY MayVisitTypes
<1>2. Underway(texts, s, f, grey, t) BY DEF Following
<1>3. t \in Walks BY <1>2, UnderwayTypes
<1> HIDE DEF d
<1>4. CASE d \notin Dependencies(texts, f)
  <2>1. FollowOver(texts, f, v)[d][t] = t BY <1>1, <1>3, <1>4, FollowOverIs
  <2> QED BY <1>4, <2>1, FollowNothing DEF d
<1>5. CASE d \in Dependencies(texts, f) /\ Visited(t, d)
  <2>1. FollowOver(texts, f, v)[d][t] = LowerToStacked(t, f, d) BY <1>1, <1>3, <1>5, FollowOverIs
  <2>2. CASE d \in ToSet(t.stack)
    <3>1. Following(texts, s, f, grey, k, Lower(t, f, t.index[d]))
      BY <1>5, <2>2, FollowStacked DEF d
    <3> QED BY <2>1, <2>2, <3>1 DEF LowerToStacked, d
  <2>3. CASE d \notin ToSet(t.stack)
    <3>1. FollowOver(texts, f, v)[d][t] = t BY <2>1, <2>3 DEF LowerToStacked
    <3> QED BY <1>5, <2>3, <3>1, FollowNothing DEF d
  <2> QED BY <2>2, <2>3
<1>6. CASE d \in Dependencies(texts, f) /\ ~Visited(t, d)
  <2> DEFINE u == v[d][t]
  <2>1. FollowOver(texts, f, v)[d][t] = Lower(u, f, u.low[d]) BY <1>1, <1>3, <1>6, FollowOverIs
  <2>2. MayVisit(texts, t, d, grey \cup {f})
    <3>1. texts[d] # Missing BY <1>6 DEF Dependencies
    <3>2. WalkInv(texts, t, grey \cup {f}) BY <1>2 DEF Underway
    <3> QED BY <1>1, <1>6, <3>1, <3>2 DEF MayVisit
  <2>3. Cardinality(Unmet(t)) <= n - 1 BY <1>2, UnmetShrinks
  <2>4. VisitedWell(texts, t, d, grey \cup {f}, u)
    <3>1. grey \cup {f} \in SUBSET Files BY <1>1
    <3> QED BY <1>1, <1>3, <2>2, <2>3, <3>1 DEF RightUpTo
  <2> HIDE DEF u, v
  <2>5. Following(texts, s, f, grey, k, Lower(u, f, u.low[d]))
    BY <1>6, <2>4, FollowUnvisited DEF d
  <2> QED BY <2>1, <2>5 DEF d, v
<1> QED BY <1>4, <1>5, <1>6 DEF d

\* A visit that may go as deep as there are Modules to meet visits well.
LEMMA VisitDescends ==
  ASSUME NEW texts, NEW visit, NEW n \in Nat, RightUpTo(texts, visit, n - 1),
         NEW s, NEW f, NEW grey, MayVisit(texts, s, f, grey), Cardinality(Unmet(s)) <= n
  PROVE  VisitedWell(texts, s, f, grey,
           CloseFirst(Folded(FollowOver(texts, f, visit[n - 1]), Enter(s, f), texts[f]), f))
<1> DEFINE step == FollowOver(texts, f, visit[n - 1])
           inv == [k \in 0 .. Len(texts[f]) |-> {t \in Walks : Following(texts, s, f, grey, k, t)}]
           t == Folded(step, Enter(s, f), texts[f])
<1>1. texts[f] \in Seq(Files) /\ Len(texts[f]) \in Nat BY MayVisitTypes
<1>2. \A u : \A k \in 0 .. Len(texts[f]) :
        u \in inv[k] <=> u \in Walks /\ Following(texts, s, f, grey, k, u)
  OBVIOUS
<1>3. \A u, k : Following(texts, s, f, grey, k, u) => u \in Walks BY UnderwayTypes DEF Following
<1> HIDE DEF inv
<1>4. Enter(s, f) \in inv[0] BY <1>1, <1>2, <1>3, EnterFollows
<1>5. ASSUME NEW k \in 1 .. Len(texts[f]), NEW u \in inv[k - 1]
      PROVE  step[texts[f][k]][u] \in inv[k]
  <2>1. k - 1 \in 0 .. Len(texts[f]) /\ k \in 0 .. Len(texts[f]) BY <1>1
  <2>2. Following(texts, s, f, grey, k - 1, u) BY <1>2, <2>1
  <2>3. Following(texts, s, f, grey, k, step[texts[f][k]][u]) BY <2>2, FollowOne
  <2> QED BY <1>2, <1>3, <2>1, <2>3
<1> HIDE DEF step
<1>6. t \in inv[Len(texts[f])] BY <1>1, <1>4, <1>5, FoldedInv
<1>7. Following(texts, s, f, grey, Len(texts[f]), t) BY <1>1, <1>2, <1>6
<1> HIDE DEF t
<1>8. VisitedWell(texts, s, f, grey, CloseFirst(t, f))
  <2>1. CASE t.low[f] = t.index[f] BY <1>7, <2>1, CloseVisited DEF CloseFirst
  <2>2. CASE t.low[f] # t.index[f] BY <1>7, <2>2, KeepVisited DEF CloseFirst
  <2> QED BY <2>1, <2>2
<1> QED BY <1>8 DEF t, step

LEMMA VisitIsWell ==
  ASSUME NEW texts, NEW s, NEW f, NEW grey, MayVisit(texts, s, f, grey)
  PROVE  VisitedWell(texts, s, f, grey, Visit(texts)[f][s])
<1> DEFINE N == Cardinality(Files)
<1>1. N \in Nat BY FilesAssumption, FS_CardinalityType
<1>2. PICK visit : /\ \A n \in 0 .. N : visit[n] = Deep(texts, visit, n)
                   /\ Visit(texts) = visit[N]
  BY VisitSteps
<1> HIDE DEF N
<1> DEFINE S == {n \in 0 .. N : RightUpTo(texts, visit, n)}
<1>3. 0 \in S
  <2> SUFFICES ASSUME NEW f1 \in Files, NEW s1 \in Walks, NEW grey1 \in SUBSET Files,
                      MayVisit(texts, s1, f1, grey1), Cardinality(Unmet(s1)) <= 0
               PROVE  FALSE
    BY <1>1 DEF RightUpTo
  <2>1. f1 \in Unmet(s1) BY DEF MayVisit, Unmet
  <2>2. IsFiniteSet(Unmet(s1))
    <3>1. Unmet(s1) \subseteq Files BY DEF Unmet
    <3> QED BY <3>1, FilesAssumption, FS_Subset
  <2>3. Cardinality(Unmet(s1)) \in Nat BY <2>2, FS_CardinalityType
  <2>4. Cardinality(Unmet(s1)) = 0 BY <2>3
  <2> QED BY <2>1, <2>2, <2>4, FS_EmptySet
<1>4. ASSUME NEW n \in 1 .. N, n - 1 \in S PROVE n \in S
  <2>1. RightUpTo(texts, visit, n - 1) /\ n \in Nat /\ n # 0 /\ n \in 0 .. N BY <1>1, <1>4
  <2>2. ASSUME NEW f1 \in Files, NEW s1 \in Walks, NEW grey1 \in SUBSET Files,
               MayVisit(texts, s1, f1, grey1), Cardinality(Unmet(s1)) <= n
        PROVE  VisitedWell(texts, s1, f1, grey1, visit[n][f1][s1])
    <3>1. visit[n][f1][s1] = CloseFirst(Folded(FollowOver(texts, f1, visit[n - 1]),
                                               Enter(s1, f1), texts[f1]), f1)
      <4>1. visit[n] = Deep(texts, visit, n) BY <1>2, <2>1
      <4> QED BY <2>1, <4>1 DEF Deep
    <3> QED BY <2>1, <2>2, <3>1, VisitDescends
  <2>3. RightUpTo(texts, visit, n) BY <2>2 DEF RightUpTo
  <2> QED BY <2>1, <2>3
<1> HIDE DEF S
<1>5. RightUpTo(texts, visit, N)
  <2>1. \A n \in 0 .. N : n \in S BY <1>1, <1>3, <1>4, Counting
  <2>2. N \in S BY <1>1, <2>1
  <2> QED BY <2>2 DEF S
<1>6. f \in Files /\ s \in Walks /\ grey \in SUBSET Files BY MayVisitTypes
<1>7. Cardinality(Unmet(s)) <= N
  <2>1. Unmet(s) \subseteq Files BY DEF Unmet
  <2> QED BY <2>1, FilesAssumption, FS_Subset DEF N
<1>8. VisitedWell(texts, s, f, grey, visit[N][f][s]) BY <1>5, <1>6, <1>7 DEF RightUpTo
<1> QED BY <1>2, <1>8

\* Between visits: what was reached of the roots so far is grouped.
RootsDone(texts, roots, k, s) ==
  /\ WalkInv(texts, s, {})
  /\ Members(s.groups) = UNION {Reachable(texts, roots[j]) : j \in 1 .. k}

LEMMA NothingStacked ==
  ASSUME NEW texts, NEW s, WalkInv(texts, s, {})
  PROVE  /\ \A x \in Files : Visited(s, x) <=> x \in Members(s.groups)
         /\ s \in Walks /\ WellGrouped(texts, s.groups)
<1>1. ToSet(s.stack) = {} BY DEF WalkInv
<1> QED BY <1>1 DEF WalkInv

LEMMA RootsStart ==
  ASSUME NEW texts, NEW roots
  PROVE  RootsDone(texts, roots, 0, Unwalked)
<1>1. Unwalked \in Walks BY DEF Unwalked, Walks, Unvisited
<1>2. /\ Unwalked.index = Unvisited /\ Unwalked.stack = <<>> /\ Unwalked.groups = <<>>
      /\ Unwalked.next = 1
  BY DEF Unwalked
<1>3. \A x \in Files : Unwalked.index[x] = 0 BY <1>2 DEF Unvisited
<1>4. ToSet(Unwalked.stack) = {} BY <1>2 DEF ToSet
<1>5. Members(Unwalked.groups) = {}
  <2>1. ToSet(Unwalked.groups) = {} BY <1>2 DEF ToSet
  <2> QED BY <2>1 DEF Members
<1>6. WellGrouped(texts, Unwalked.groups)
  <2>1. DOMAIN <<>> = {} /\ <<>> \in Seq(Seq(Files)) OBVIOUS
  <2> QED BY <1>2, <1>5, <2>1 DEF WellGrouped
<1>7. WalkInv(texts, Unwalked, {})
  <2>1. 1 .. Len(Unwalked.stack) = {} BY <1>2
  <2>2. \A x \in Files : ~Visited(Unwalked, x) BY <1>3 DEF Visited
  <2>3. \A x \in Files : Unwalked.index[x] < Unwalked.next BY <1>2, <1>3
  <2> HIDE DEF Unwalked
  <2> QED BY <1>1, <1>2, <1>4, <1>5, <1>6, <2>1, <2>2, <2>3 DEF WalkInv
<1>8. UNION {Reachable(texts, roots[j]) : j \in 1 .. 0} = {} OBVIOUS
<1> QED BY <1>5, <1>7, <1>8 DEF RootsDone

LEMMA RootVisited ==
  ASSUME NEW texts, Answered(texts), NEW roots \in Seq(Files), NEW k \in 1 .. Len(roots),
         texts[roots[k]] # Missing, NEW s, RootsDone(texts, roots, k - 1, s)
  PROVE  RootsDone(texts, roots, k, VisitRoot(texts)[roots[k]][s])
<1> DEFINE f == roots[k]
           u == Visit(texts)[f][s]
<1>1. f \in Files OBVIOUS
<1>2. WalkInv(texts, s, {}) BY DEF RootsDone
<1>3. /\ \A x \in Files : Visited(s, x) <=> x \in Members(s.groups)
      /\ s \in Walks /\ WellGrouped(texts, s.groups)
  BY <1>2, NothingStacked
<1>4. Members(s.groups) \cup Reachable(texts, f)
        = UNION {Reachable(texts, roots[j]) : j \in 1 .. k}
  <2>1. 1 .. k = (1 .. k - 1) \cup {k} OBVIOUS
  <2>2. UNION {Reachable(texts, roots[j]) : j \in 1 .. k}
          = (UNION {Reachable(texts, roots[j]) : j \in 1 .. k - 1}) \cup Reachable(texts, f)
    BY <2>1
  <2> QED BY <2>2 DEF RootsDone
<1> HIDE DEF f
<1>5. VisitRoot(texts)[f][s] = IF Visited(s, f) THEN s ELSE u
  BY <1>1, <1>3 DEF VisitRoot, Visited
<1> HIDE DEF u
<1>6. CASE Visited(s, f)
  <2>1. Closed(texts, Members(s.groups)) /\ Members(s.groups) \subseteq Files
    BY <1>3, WellGroupedClosed
  <2>2. Reachable(texts, f) \subseteq Members(s.groups) BY <1>1, <1>3, <1>6, <2>1, ReachableLeast
  <2> QED BY <1>2, <1>4, <1>5, <1>6, <2>2 DEF RootsDone, f
<1>7. CASE ~Visited(s, f)
  <2>1. MayVisit(texts, s, f, {}) BY <1>1, <1>2, <1>7 DEF MayVisit, f
  <2>2. VisitedWell(texts, s, f, {}, u) BY <2>1, VisitIsWell DEF u
  <2>3. WalkInv(texts, u, {}) /\ Grown(texts, s, u, f) /\ Visited(u, f) BY <2>2 DEF VisitedWell
  <2>4. /\ \A x \in Files : Visited(u, x) <=> x \in Members(u.groups)
        /\ WellGrouped(texts, u.groups)
    BY <2>3, NothingStacked
  <2>5. Closed(texts, Members(u.groups)) /\ Members(u.groups) \subseteq Files
    BY <2>4, WellGroupedClosed
  <2>6. Reachable(texts, f) \subseteq Members(u.groups) BY <1>1, <2>3, <2>4, <2>5, ReachableLeast
  <2>7. Members(s.groups) \subseteq Members(u.groups) BY <2>3 DEF Grown
  <2>8. Members(u.groups) \subseteq Members(s.groups) \cup Reachable(texts, f)
    <3> SUFFICES ASSUME NEW x \in Members(u.groups), x \notin Members(s.groups)
                 PROVE  x \in Reachable(texts, f)
      OBVIOUS
    <3>1. x \in Files /\ Visited(u, x) /\ ~Visited(s, x) BY <1>3, <2>4, <2>5
    <3> QED BY <2>3, <3>1 DEF Grown
  <2> QED BY <1>4, <1>5, <1>7, <2>3, <2>6, <2>7, <2>8 DEF RootsDone, f
<1> QED BY <1>6, <1>7

\* The groups of what the roots reach (groupModules) are its Strongly Connected
\* Components, every one of them whole, and the order is dependency-first:
\* Tarjan's algorithm does what it is for, whatever the files name.
THEOREM GroupsOfRoots ==
  ASSUME NEW texts, Answered(texts), NEW roots \in Seq(Files),
         \A j \in 1 .. Len(roots) : texts[roots[j]] # Missing
  PROVE  /\ WellGrouped(texts, GroupModules(texts, roots))
         /\ Members(GroupModules(texts, roots))
              = UNION {Reachable(texts, roots[j]) : j \in 1 .. Len(roots)}
<1> DEFINE inv == [k \in 0 .. Len(roots) |-> {s \in Walks : RootsDone(texts, roots, k, s)}]
           step == VisitRoot(texts)
           t == Folded(step, Unwalked, roots)
<1>1. \A s : \A k \in 0 .. Len(roots) : s \in inv[k] <=> s \in Walks /\ RootsDone(texts, roots, k, s)
  OBVIOUS
<1>2. \A s, k : RootsDone(texts, roots, k, s) => s \in Walks BY DEF RootsDone, WalkInv
<1> HIDE DEF inv
<1>3. Unwalked \in inv[0] BY <1>1, <1>2, RootsStart
<1>4. ASSUME NEW k \in 1 .. Len(roots), NEW s \in inv[k - 1] PROVE step[roots[k]][s] \in inv[k]
  <2>1. k - 1 \in 0 .. Len(roots) /\ k \in 0 .. Len(roots) OBVIOUS
  <2>2. RootsDone(texts, roots, k - 1, s) BY <1>1, <2>1
  <2>3. RootsDone(texts, roots, k, step[roots[k]][s]) BY <2>2, RootVisited
  <2> QED BY <1>1, <1>2, <2>1, <2>3
<1> HIDE DEF step
<1>5. Len(roots) \in Nat OBVIOUS
<1>6. t \in inv[Len(roots)] BY <1>3, <1>4, <1>5, FoldedInv
<1>7. RootsDone(texts, roots, Len(roots), t) BY <1>1, <1>5, <1>6
<1>8. GroupModules(texts, roots) = t.groups BY DEF GroupModules, step
<1> HIDE DEF t
<1>9. WellGrouped(texts, t.groups) BY <1>7, NothingStacked DEF RootsDone
<1> QED BY <1>7, <1>8, <1>9 DEF RootsDone

-----------------------------------------------------------------------------
(* Loading: graphs merged, and pieces of the overlaps.                     *)

LEMMA NoGroups ==
  ASSUME NEW texts
  PROVE  WellGrouped(texts, <<>>) /\ Members(<<>>) = {}
<1>1. Members(<<>>) = {}
  <2>1. ToSet(<<>>) = {} BY DEF ToSet
  <2> QED BY <2>1 DEF Members
<1>2. DOMAIN <<>> = {} /\ <<>> \in Seq(Seq(Files)) OBVIOUS
<1> QED BY <1>1, <1>2 DEF WellGrouped

\* The graph of an entry is what it reaches.
LEMMA LoadGraphIs ==
  ASSUME NEW texts, Answered(texts), NEW entry \in Files
  PROVE  /\ WellGrouped(texts, LoadModuleGraph(texts, entry))
         /\ Members(LoadModuleGraph(texts, entry))
              = IF texts[entry] = Missing THEN {} ELSE Reachable(texts, entry)
<1>1. CASE texts[entry] = Missing BY <1>1, NoGroups DEF LoadModuleGraph
<1>2. CASE texts[entry] # Missing
  <2> DEFINE roots == <<entry>>
  <2>1. roots \in Seq(Files) /\ Len(roots) = 1 /\ \A j \in 1 .. Len(roots) : roots[j] = entry
    OBVIOUS
  <2> HIDE DEF roots
  <2>2. /\ WellGrouped(texts, GroupModules(texts, roots))
        /\ Members(GroupModules(texts, roots))
             = UNION {Reachable(texts, roots[j]) : j \in 1 .. Len(roots)}
    BY <1>2, <2>1, GroupsOfRoots
  <2>3. UNION {Reachable(texts, roots[j]) : j \in 1 .. Len(roots)} = Reachable(texts, entry)
    <3>1. 1 \in 1 .. Len(roots) BY <2>1
    <3> QED BY <2>1, <3>1
  <2> QED BY <1>2, <2>2, <2>3 DEF LoadModuleGraph, roots
<1> QED BY <1>1, <1>2

LEMMA ConcatAppend ==
  ASSUME NEW T, NEW a \in Seq(T), NEW b \in Seq(T), NEW x \in T
  PROVE  a \o Append(b, x) = Append(a \o b, x)
<1>1. a \o b \in Seq(T) /\ <<x>> \in Seq(T) BY ConcatProperties
<1>2. Append(b, x) = b \o <<x>> /\ Append(a \o b, x) = (a \o b) \o <<x>> BY <1>1, AppendIsConcat
<1> QED BY <1>1, <1>2, ConcatAssociative

\* A cycle has all its Modules in a closed set, or none.
LEMMA CycleInOrOut ==
  ASSUME NEW texts, Answered(texts), NEW S \in SUBSET Files, Closed(texts, S), NEW f \in Files
  PROVE  IF f \in S THEN CycleOf(texts, f) \subseteq S ELSE CycleOf(texts, f) \cap S = {}
<1>1. ASSUME NEW d \in CycleOf(texts, f) PROVE f \in S <=> d \in S
  <2>1. d \in Files /\ d \in Reachable(texts, f) /\ f \in Reachable(texts, d)
    BY DEF CycleOf, Cyclic
  <2> QED BY <2>1, ReachableLeast
<1> QED BY <1>1

\* Merging: the groups of a graph that are not held yet, whole, go last.
LEMMA MergeIsWell ==
  ASSUME NEW texts, Answered(texts), NEW held, WellGrouped(texts, held),
         NEW graph, WellGrouped(texts, graph),
         NEW fresh, fresh = Only(graph, {g \in ToSet(graph) : g[1] \notin Members(held)})
  PROVE  /\ WellGrouped(texts, held \o fresh)
         /\ Members(held \o fresh) = Members(held) \cup Members(graph)
<1> DEFINE S == {g \in ToSet(graph) : g[1] \notin Members(held)}
           step == [x \in ToSet(graph) |-> [kept \in Seq(S) |->
                      IF x \in S THEN Append(kept, x) ELSE kept]]
           Preserves(k, kept) == /\ WellGrouped(texts, held \o kept)
                            /\ Members(held \o kept) = Members(held) \cup Upto(graph, k)
           inv == [k \in 0 .. Len(graph) |-> {kept \in Seq(S) : Preserves(k, kept)}]
<1>1. held \in Seq(Seq(Files)) /\ graph \in Seq(Seq(Files)) /\ Len(graph) \in Nat
  BY DEF WellGrouped
<1>2. S \subseteq Seq(Files) BY <1>1, ToSetIs
<1>3. /\ Closed(texts, Members(held)) /\ Members(held) \subseteq Files
      /\ Members(graph) = Upto(graph, Len(graph))
  BY <1>1, WellGroupedClosed, MembersUpto
<1>4. \A x \in ToSet(graph), kept \in Seq(S) :
        step[x][kept] = IF x \in S THEN Append(kept, x) ELSE kept
  OBVIOUS
<1>5. \A kept : \A k \in 0 .. Len(graph) : kept \in inv[k] <=> kept \in Seq(S) /\ Preserves(k, kept)
  OBVIOUS
<1> HIDE DEF step, inv
<1>6. <<>> \in inv[0]
  <2>1. held \o <<>> = held BY <1>1, ConcatEmptySeq
  <2>2. Upto(graph, 0) = {} BY DEF Upto
  <2>3. Preserves(0, <<>>) BY <2>1, <2>2
  <2>4. 0 \in 0 .. Len(graph) /\ <<>> \in Seq(S) BY <1>1
  <2> HIDE DEF Preserves, S
  <2> QED BY <1>5, <2>3, <2>4
<1>7. ASSUME NEW k \in 1 .. Len(graph), NEW kept \in inv[k - 1]
      PROVE  step[graph[k]][kept] \in inv[k]
  <2> DEFINE g == graph[k]
  <2>1. k \in 0 .. Len(graph) /\ k - 1 \in 0 .. Len(graph) /\ k \in DOMAIN graph BY <1>1
  <2>2. kept \in Seq(S) /\ Preserves(k - 1, kept) BY <1>5, <2>1
  <2>3. g \in ToSet(graph) /\ g \in Seq(Files) BY <1>1, ToSetIs
  <2>4. /\ g # <<>> /\ ToSet(g) = CycleOf(texts, g[1])
        /\ \A j, l \in DOMAIN g : g[j] = g[l] => j = l
        /\ Closed(texts, Upto(graph, k))
    BY <2>1 DEF WellGrouped
  <2>5. g[1] \in Files /\ ToSet(g) \subseteq Files
    <3>1. 1 \in 1 .. Len(g) BY <2>3, <2>4
    <3> QED BY <2>3, <3>1, ToSetIs
  <2>6. Upto(graph, k) = Upto(graph, k - 1) \cup ToSet(g)
    <3>1. 1 .. k = (1 .. k - 1) \cup {k} BY <1>1
    <3> QED BY <3>1 DEF Upto
  <2>7. IF g[1] \in Members(held) THEN ToSet(g) \subseteq Members(held)
        ELSE ToSet(g) \cap Members(held) = {}
    BY <1>3, <2>4, <2>5, CycleInOrOut
  <2>8. step[g][kept] = IF g \in S THEN Append(kept, g) ELSE kept BY <1>4, <2>2, <2>3
  <2>9. kept \in Seq(Seq(Files)) /\ held \o kept \in Seq(Seq(Files))
    <3>1. kept \in Seq(Seq(Files)) BY <1>2, <2>2
    <3> QED BY <1>1, <3>1, ConcatProperties
  <2>10. CASE g \in S
    <3>1. held \o Append(kept, g) = Append(held \o kept, g)
      <4> DEFINE T == Seq(Files)
      <4>1. held \in Seq(T) /\ kept \in Seq(T) /\ g \in T BY <1>1, <2>3, <2>9
      <4> HIDE DEF g, T
      <4> QED BY <4>1, ConcatAppend
    <3>2. ToSet(g) \cap Upto(graph, k - 1) = {}
      <4>1. \A j \in 1 .. k - 1 : ToSet(graph[j]) \cap ToSet(g) = {}
        <5>1. \A j \in 1 .. k - 1 : j \in DOMAIN graph /\ j # k BY <1>1
        <5> QED BY <2>1, <5>1 DEF WellGrouped
      <4> QED BY <4>1 DEF Upto
    <3>3. g[1] \notin Members(held) BY <2>10
    <3>4. ToSet(g) \cap Members(held \o kept) = {} BY <2>2, <2>7, <3>2, <3>3
    <3>5. Members(held \o kept) \cup ToSet(g) = Members(held) \cup Upto(graph, k) BY <2>2, <2>6
    <3>6. Closed(texts, Members(held \o kept) \cup ToSet(g)) BY <1>3, <2>4, <3>5, UnionClosed
    <3>7. \A x \in ToSet(g) : texts[x] # Missing
      <4>1. ToSet(g) \subseteq Members(graph) BY <1>1, MembersUpto
      <4> QED BY <4>1 DEF WellGrouped
    <3>8. WellGrouped(texts, Append(held \o kept, g))
      <4> HIDE DEF g
      <4> QED BY <2>2, <2>3, <2>4, <3>4, <3>6, <3>7, WellGroupedAppend
    <3>9. Members(Append(held \o kept, g)) = Members(held) \cup Upto(graph, k)
      BY <2>3, <2>9, <3>5, MembersAppend
    <3>10. Append(kept, g) \in Seq(S) BY <2>2, <2>10
    <3> QED BY <1>5, <2>1, <2>8, <2>10, <3>1, <3>8, <3>9, <3>10
  <2>11. CASE g \notin S
    <3>1. ToSet(g) \subseteq Members(held) BY <2>3, <2>7, <2>11
    <3>2. Members(held) \cup Upto(graph, k) = Members(held) \cup Upto(graph, k - 1)
      BY <2>6, <3>1
    <3> QED BY <1>5, <2>1, <2>2, <2>8, <2>11, <3>2
  <2> QED BY <2>10, <2>11
<1>8. Folded(step, <<>>, graph) \in inv[Len(graph)] BY <1>1, <1>6, <1>7, FoldedInv
<1>9. fresh = Folded(step, <<>>, graph) BY DEF Only, step
<1> HIDE DEF S
<1>10. Preserves(Len(graph), fresh)
  <2>1. Len(graph) \in 0 .. Len(graph) BY <1>1
  <2>2. fresh \in inv[Len(graph)] BY <1>8, <1>9
  <2> HIDE DEF Preserves
  <2> QED BY <1>5, <2>1, <2>2
<1> QED BY <1>3, <1>10

\* Of what loading the first k entries of the plan has come to.
LoadedWell(texts, k, s) ==
  /\ WellGrouped(texts, s.groups)
  /\ \A i \in 1 .. Len(s.touched) : Closed(texts, s.touched[i])
  /\ UNION ToSet(s.touched) = Members(s.groups)
  /\ \A j \in 1 .. k : texts[plan[j]] # Missing => plan[j] \in Members(s.groups)
  /\ \A f \in Members(s.groups) : \E j \in 1 .. k :
       texts[plan[j]] # Missing /\ f \in Reachable(texts, plan[j])

LEMMA EntryLoaded ==
  ASSUME NEW texts, Answered(texts), plan \in Seq(Files), NEW k \in 1 .. Len(plan),
         NEW s \in Loads, LoadedWell(texts, k - 1, s)
  PROVE  /\ LoadEntry(texts)[plan[k]][s] \in Loads
         /\ LoadedWell(texts, k, LoadEntry(texts)[plan[k]][s])
<1> DEFINE e == plan[k]
           graph == LoadModuleGraph(texts, e)
           fresh == Only(graph, {g \in ToSet(graph) : g[1] \notin Members(s.groups)})
           more == s.groups \o fresh
           touched == Append(s.touched, Members(graph))
           r == [groups |-> more, touched |-> touched]
<1>1. e \in Files /\ k \in 1 .. k /\ \A j \in 1 .. k : j = k \/ j \in 1 .. k - 1 OBVIOUS
<1>2. s.groups \in Seq(Seq(Files)) /\ s.touched \in Seq(SUBSET Files) BY DEF Loads
<1>3. /\ WellGrouped(texts, s.groups)
      /\ \A i \in 1 .. Len(s.touched) : Closed(texts, s.touched[i])
      /\ UNION ToSet(s.touched) = Members(s.groups)
      /\ \A j \in 1 .. k - 1 : texts[plan[j]] # Missing => plan[j] \in Members(s.groups)
      /\ \A f \in Members(s.groups) : \E j \in 1 .. k - 1 :
           texts[plan[j]] # Missing /\ f \in Reachable(texts, plan[j])
  BY DEF LoadedWell
<1>4. LoadEntry(texts)[e][s] = IF e \in Members(s.groups) THEN s ELSE r
  BY <1>1 DEF LoadEntry, MergeGraph, FreshLast
<1>5. CASE e \in Members(s.groups)
  <2>1. LoadedWell(texts, k, s)
    <3>1. \A j \in 1 .. k : texts[plan[j]] # Missing => plan[j] \in Members(s.groups)
      BY <1>1, <1>3, <1>5
    <3>2. \A f \in Members(s.groups) : \E j \in 1 .. k :
            texts[plan[j]] # Missing /\ f \in Reachable(texts, plan[j])
      <4>1. \A j \in 1 .. k - 1 : j \in 1 .. k OBVIOUS
      <4> QED BY <1>3, <4>1
    <3> QED BY <1>3, <3>1, <3>2 DEF LoadedWell
  <2> QED BY <1>4, <1>5, <2>1
<1>6. CASE e \notin Members(s.groups)
  <2>1. /\ WellGrouped(texts, graph)
        /\ Members(graph) = IF texts[e] = Missing THEN {} ELSE Reachable(texts, e)
    BY <1>1, LoadGraphIs
  <2> HIDE DEF e, graph
  <2>2. WellGrouped(texts, more) /\ Members(more) = Members(s.groups) \cup Members(graph)
    BY <1>3, <2>1, MergeIsWell
  <2> HIDE DEF fresh, more
  <2>3. Closed(texts, Members(graph)) /\ Members(graph) \in SUBSET Files
    BY <2>1, WellGroupedClosed
  <2>4. /\ touched \in Seq(SUBSET Files) /\ Len(touched) = Len(s.touched) + 1
        /\ Len(s.touched) \in Nat
        /\ touched[Len(s.touched) + 1] = Members(graph)
        /\ \A i \in 1 .. Len(s.touched) : touched[i] = s.touched[i]
    BY <1>2, <2>3, AppendProperties
  <2>5. ToSet(touched) = ToSet(s.touched) \cup {Members(graph)} BY <1>2, <2>3, ToSetAppend
  <2> HIDE DEF touched
  <2>6. r \in Loads
    <3>1. more \in Seq(Seq(Files)) BY <2>2 DEF WellGrouped
    <3> QED BY <2>4, <3>1 DEF Loads
  <2>7. r.groups = more /\ r.touched = touched OBVIOUS
  <2> HIDE DEF r
  <2>8. \A i \in 1 .. Len(touched) : Closed(texts, touched[i])
    <3>1. \A i \in 1 .. Len(touched) : i = Len(s.touched) + 1 \/ i \in 1 .. Len(s.touched)
      BY <2>4
    <3> QED BY <1>3, <2>3, <2>4, <3>1
  <2>9. UNION ToSet(touched) = Members(more) BY <1>3, <2>2, <2>5
  <2>10. \A j \in 1 .. k : texts[plan[j]] # Missing => plan[j] \in Members(more)
    <3>1. texts[e] # Missing => e \in Members(graph) BY <1>1, <2>1, ReachableRoot
    <3> QED BY <1>1, <1>3, <2>2, <3>1 DEF e
  <2>11. \A f \in Members(more) : \E j \in 1 .. k :
           texts[plan[j]] # Missing /\ f \in Reachable(texts, plan[j])
    <3> SUFFICES ASSUME NEW f \in Members(more)
                 PROVE  \E j \in 1 .. k : texts[plan[j]] # Missing /\ f \in Reachable(texts, plan[j])
      OBVIOUS
    <3>1. CASE f \in Members(s.groups)
      <4>1. \A j \in 1 .. k - 1 : j \in 1 .. k OBVIOUS
      <4> QED BY <1>3, <3>1, <4>1
    <3>2. CASE f \in Members(graph)
      <4>1. texts[e] # Missing /\ f \in Reachable(texts, e) BY <2>1, <3>2
      <4> QED BY <1>1, <4>1 DEF e
    <3> QED BY <2>2, <3>1, <3>2
  <2>12. LoadedWell(texts, k, r) BY <2>2, <2>7, <2>8, <2>9, <2>10, <2>11 DEF LoadedWell
  <2> QED BY <1>4, <1>6, <2>6, <2>12 DEF e
<1> QED BY <1>5, <1>6

\* A partition of the files of some closed sets into closed sets.
Parted(texts, ps, all) ==
  /\ ps \in SUBSET SUBSET Files
  /\ UNION ps = all
  /\ \A p, q \in ps : p # q => p \cap q = {}
  /\ \A p \in ps : p # {} /\ Closed(texts, p)

LEMMA UniteIsWell ==
  ASSUME NEW texts, NEW ps, NEW all, Parted(texts, ps, all),
         NEW load \in SUBSET Files, Closed(texts, load)
  PROVE  Parted(texts, Unite[load][ps], all \cup load)
<1> DEFINE met == {p \in ps : p \cap load # {}}
           big == (UNION met) \cup load
           r == (ps \ met) \cup {big}
<1>1. /\ ps \in SUBSET SUBSET Files /\ UNION ps = all
      /\ \A p, q \in ps : p # q => p \cap q = {}
      /\ \A p \in ps : p # {} /\ Closed(texts, p)
  BY DEF Parted
<1>2. Unite[load][ps] = IF load = {} THEN ps ELSE r BY <1>1 DEF Unite
<1>3. CASE load = {} BY <1>2, <1>3
<1>4. CASE load # {}
  <2>1. big \in SUBSET Files /\ big # {} BY <1>1, <1>4
  <2>2. Closed(texts, big) BY <1>1 DEF Closed
  <2>3. \A p \in ps \ met : p \cap big = {}
    <3> SUFFICES ASSUME NEW p \in ps \ met, NEW x \in p, x \in big PROVE FALSE OBVIOUS
    <3>1. x \notin load OBVIOUS
    <3>2. PICK q \in met : x \in q BY <3>1
    <3>3. q \in ps /\ p # q BY <3>2
    <3> QED BY <1>1, <3>2, <3>3
  <2>4. UNION r = all \cup load
    <3>1. \A x : x \in UNION r <=> (\E p \in ps \ met : x \in p) \/ x \in big OBVIOUS
    <3>2. \A x : x \in all <=> \E p \in ps : x \in p BY <1>1
    <3>3. \A x : x \in big <=> x \in load \/ \E p \in met : x \in p OBVIOUS
    <3> QED BY <3>1, <3>2, <3>3
  <2> HIDE DEF big
  <2>5. \A p, q \in r : p # q => p \cap q = {} BY <1>1, <2>3
  <2>6. Parted(texts, r, all \cup load) BY <1>1, <2>1, <2>2, <2>4, <2>5 DEF Parted
  <2> QED BY <1>2, <1>4, <2>6
<1> QED BY <1>3, <1>4

LEMMA PiecesAreParted ==
  ASSUME NEW texts, Answered(texts), NEW k, NEW loads \in Loads, LoadedWell(texts, k, loads)
  PROVE  Parted(texts, AssignComponents(loads), Members(loads.groups))
<1> DEFINE seq == loads.touched
           All(n) == UNION {seq[i] : i \in 1 .. n}
           inv == [n \in 0 .. Len(seq) |-> {ps \in SUBSET SUBSET Files : Parted(texts, ps, All(n))}]
           ps == Folded(Unite, {}, seq)
<1>1. seq \in Seq(SUBSET Files) /\ Len(seq) \in Nat BY DEF Loads
<1>2. /\ \A i \in 1 .. Len(seq) : Closed(texts, seq[i])
      /\ UNION ToSet(seq) = Members(loads.groups)
  BY DEF LoadedWell
<1> HIDE DEF seq
<1>3. \A qs : \A n \in 0 .. Len(seq) : qs \in inv[n] <=> Parted(texts, qs, All(n))
  BY DEF Parted
<1> HIDE DEF inv
<1>4. {} \in inv[0]
  <2>1. All(0) = {} OBVIOUS
  <2>2. Parted(texts, {}, All(0)) BY <2>1 DEF Parted
  <2>3. 0 \in 0 .. Len(seq) BY <1>1
  <2> HIDE DEF All
  <2> QED BY <1>3, <2>2, <2>3
<1>5. ASSUME NEW n \in 1 .. Len(seq), NEW qs \in inv[n - 1] PROVE Unite[seq[n]][qs] \in inv[n]
  <2>1. n - 1 \in 0 .. Len(seq) /\ n \in 0 .. Len(seq) BY <1>1
  <2>2. All(n) = All(n - 1) \cup seq[n]
    <3>1. 1 .. n = (1 .. n - 1) \cup {n} BY <1>1
    <3> QED BY <3>1
  <2>3. seq[n] \in SUBSET Files BY <1>1
  <2> HIDE DEF All
  <2>4. Parted(texts, qs, All(n - 1)) BY <1>3, <2>1
  <2>5. Parted(texts, Unite[seq[n]][qs], All(n - 1) \cup seq[n])
    BY <1>2, <2>3, <2>4, UniteIsWell
  <2> QED BY <1>3, <2>1, <2>2, <2>5
<1>6. ps \in inv[Len(seq)] BY <1>1, <1>4, <1>5, FoldedInv
<1>7. All(Len(seq)) = Members(loads.groups)
  <2>1. \A g : g \in ToSet(seq) <=> \E i \in 1 .. Len(seq) : seq[i] = g BY <1>1, ToSetIs
  <2>2. All(Len(seq)) = UNION ToSet(seq) BY <2>1
  <2> QED BY <1>2, <2>2
<1>8. Parted(texts, ps, Members(loads.groups))
  <2>1. Len(seq) \in 0 .. Len(seq) BY <1>1
  <2> HIDE DEF All
  <2> QED BY <1>3, <1>6, <1>7, <2>1
<1>9. AssignComponents(loads) = {p \cap Members(loads.groups) : p \in ps}
  BY DEF AssignComponents, seq
<1> HIDE DEF ps
<1>10. \A p \in ps : p \cap Members(loads.groups) = p BY <1>8 DEF Parted
<1>11. AssignComponents(loads) = ps
  <2> DEFINE all == Members(loads.groups)
  <2> HIDE DEF all
  <2>1. \A p \in ps : p \cap all = p BY <1>10 DEF all
  <2>2. {p \cap all : p \in ps} \subseteq ps BY <2>1
  <2>3. ps \subseteq {p \cap all : p \in ps} BY <2>1
  <2> QED BY <1>9, <2>2, <2>3 DEF all
<1> QED BY <1>8, <1>11

\* What the Session holds once it has loaded: groups and pieces of what the
\* entries reach.
LEMMA LoadAllIsWell ==
  ASSUME NEW texts, Answered(texts), plan \in Seq(Files)
  PROVE  /\ LoadAll(texts) \in Loads
         /\ LoadedWell(texts, Len(plan), LoadAll(texts))
         /\ Parted(texts, AssignComponents(LoadAll(texts)), Members(LoadAll(texts).groups))
<1> DEFINE inv == [k \in 0 .. Len(plan) |-> {s \in Loads : LoadedWell(texts, k, s)}]
           step == LoadEntry(texts)
           none == [groups |-> <<>>, touched |-> <<>>]
<1>1. \A s : \A k \in 0 .. Len(plan) : s \in inv[k] <=> s \in Loads /\ LoadedWell(texts, k, s)
  OBVIOUS
<1>2. Len(plan) \in Nat OBVIOUS
<1> HIDE DEF inv
<1>3. none \in inv[0]
  <2>1. none \in Loads /\ none.groups = <<>> /\ none.touched = <<>> BY DEF Loads
  <2>2. WellGrouped(texts, none.groups) /\ Members(none.groups) = {} BY <2>1, NoGroups
  <2>3. UNION ToSet(none.touched) = {} /\ 1 .. Len(none.touched) = {} BY <2>1 DEF ToSet
  <2> HIDE DEF none
  <2>4. LoadedWell(texts, 0, none) BY <2>2, <2>3 DEF LoadedWell
  <2>5. 0 \in 0 .. Len(plan) BY <1>2
  <2> QED BY <1>1, <2>1, <2>4, <2>5
<1>4. ASSUME NEW k \in 1 .. Len(plan), NEW s \in inv[k - 1] PROVE step[plan[k]][s] \in inv[k]
  <2>1. k - 1 \in 0 .. Len(plan) /\ k \in 0 .. Len(plan) BY <1>2
  <2>2. s \in Loads /\ LoadedWell(texts, k - 1, s) BY <1>1, <2>1
  <2>3. step[plan[k]][s] \in Loads /\ LoadedWell(texts, k, step[plan[k]][s])
    BY <2>2, EntryLoaded
  <2> QED BY <1>1, <2>1, <2>3
<1> HIDE DEF step, none
<1>5. Folded(step, none, plan) \in inv[Len(plan)] BY <1>2, <1>3, <1>4, FoldedInv
<1>6. LoadAll(texts) \in inv[Len(plan)] BY <1>5 DEF LoadAll, step, none
<1>7. LoadAll(texts) \in Loads /\ LoadedWell(texts, Len(plan), LoadAll(texts))
  BY <1>1, <1>2, <1>6
<1> QED BY <1>7, PiecesAreParted

-----------------------------------------------------------------------------
(* The order of what is held.                                              *)

\* Flattening is concatenating, one after another.
LEMMA FlattenSteps ==
  ASSUME NEW ss, Len(ss) \in Nat, Len(ss) # 0
  PROVE  \E flat :
           /\ flat[1] = ss[1]
           /\ \A i \in 2 .. Len(ss) : flat[i] = flat[i - 1] \o ss[i]
           /\ FlattenSeq(ss) = flat[Len(ss)]
<1> DEFINE N == Len(ss)
           Value(f, i) == IF i = 1 THEN ss[i] ELSE f[i-1] \o ss[i]
           Fits(f, n) == f = [i \in 1 .. n |-> Value(f, i)]
           S == {n \in 0 .. N : \E f : Fits(f, n)}
<1>1. 0 \in S
  <2> DEFINE f == [i \in 1 .. 0 |-> 0]
  <2>1. [i \in 1 .. 0 |-> Value(f, i)] = f OBVIOUS
  <2>2. Fits(f, 0) BY <2>1
  <2> HIDE DEF f
  <2>3. \E f1 : Fits(f1, 0) BY <2>2
  <2>4. 0 \in 0 .. N OBVIOUS
  <2> QED BY <2>3, <2>4
<1>2. ASSUME NEW n \in 1 .. N, n - 1 \in S PROVE n \in S
  <2>1. PICK f : Fits(f, n - 1) BY <1>2
  <2> DEFINE last == IF n = 1 THEN ss[n] ELSE f[n-1] \o ss[n]
             g == [i \in 1 .. n |-> IF i = n THEN last ELSE f[i]]
  <2> HIDE DEF last
  <2>2. ASSUME NEW i \in 1 .. n PROVE g[i] = Value(g, i)
    <3>1. CASE i = n
      <4>1. n # 1 => n - 1 \in 1 .. n /\ n - 1 # n OBVIOUS
      <4>2. n # 1 => g[n-1] = f[n-1] BY <4>1
      <4> QED BY <3>1, <4>2 DEF last
    <3>2. CASE i # n
      <4>1. i \in 1 .. n - 1 /\ g[i] = f[i] BY <3>2
      <4>2. f[i] = Value(f, i) BY <2>1, <4>1
      <4>3. i # 1 => g[i-1] = f[i-1]
        <5>1. i # 1 => i - 1 \in 1 .. n /\ i - 1 # n BY <4>1
        <5> QED BY <5>1
      <4> QED BY <4>1, <4>2, <4>3
    <3> QED BY <3>1, <3>2
  <2>3. g = [i \in 1 .. n |-> g[i]] OBVIOUS
  <2> HIDE DEF g
  <2>4. Fits(g, n) BY <2>2, <2>3
  <2> HIDE DEF Fits
  <2>5. n \in 0 .. N OBVIOUS
  <2> QED BY <2>4, <2>5
<1> HIDE DEF S
<1>3. N \in S
  <2>1. \A n \in 0 .. N : n \in S BY <1>1, <1>2, Counting
  <2> QED BY <2>1
<1>4. PICK f : Fits(f, N) BY <1>3 DEF S
<1> DEFINE h == CHOOSE f1 : Fits(f1, N)
<1>5. Fits(h, N) BY <1>4
<1>6. FlattenSeq(ss) = h[N] BY DEF FlattenSeq
<1> HIDE DEF h
<1>7. \A i \in 1 .. N : h[i] = Value(h, i)
  <2> DEFINE g == [i \in 1 .. N |-> Value(h, i)]
  <2>1. \A i \in 1 .. N : g[i] = Value(h, i) OBVIOUS
  <2>2. h = g BY <1>5
  <2> HIDE DEF g
  <2> QED BY <2>1, <2>2
<1>8. h[1] = ss[1]
  <2>1. 1 \in 1 .. N OBVIOUS
  <2> QED BY <1>7, <2>1
<1>9. \A i \in 2 .. N : h[i] = h[i - 1] \o ss[i]
  <2>1. \A i \in 2 .. N : i \in 1 .. N /\ i # 1 OBVIOUS
  <2> QED BY <1>7, <2>1
<1> QED BY <1>6, <1>8, <1>9

\* out is the first k groups, one after another: at[i] is the group of out[i].
Laid(out, at, gs, k) ==
  /\ out \in Seq(Files)
  /\ at \in [1 .. Len(out) -> 1 .. k]
  /\ \A i, j \in 1 .. Len(out) : i < j => at[i] <= at[j]
  /\ \A i \in 1 .. Len(out) : out[i] \in ToSet(gs[at[i]])
  /\ \A i, j \in 1 .. Len(out) : out[i] = out[j] => i = j
  /\ ToSet(out) = Upto(gs, k)

LEMMA LaidConcat ==
  ASSUME NEW texts, NEW gs, WellGrouped(texts, gs), NEW k \in 1 .. Len(gs),
         NEW out, NEW at, Laid(out, at, gs, k - 1)
  PROVE  \E more : Laid(out \o gs[k], more, gs, k)
<1> DEFINE g == gs[k]
           n == Len(out)
           m == Len(g)
           both == out \o g
           more == [i \in 1 .. n + m |-> IF i <= n THEN at[i] ELSE k]
<1>1. /\ gs \in Seq(Seq(Files)) /\ out \in Seq(Files) /\ g \in Seq(Files) /\ Len(gs) \in Nat
      /\ n \in Nat /\ m \in Nat /\ k \in Nat
  BY DEF WellGrouped, Laid
<1>2. /\ \A i, j \in 1 .. m : g[i] = g[j] => i = j
      /\ \A j \in 1 .. k - 1 : ToSet(gs[j]) \cap ToSet(g) = {}
  <2>1. DOMAIN gs = 1 .. Len(gs) /\ DOMAIN g = 1 .. m BY <1>1
  <2>2. \A j \in 1 .. k - 1 : j \in 1 .. Len(gs) /\ j # k BY <1>1
  <2> QED BY <2>1, <2>2 DEF WellGrouped
<1>3. /\ \A i \in 1 .. n : at[i] \in 1 .. k - 1
      /\ \A i, j \in 1 .. n : i < j => at[i] <= at[j]
      /\ \A i \in 1 .. n : out[i] \in ToSet(gs[at[i]])
      /\ \A i, j \in 1 .. n : out[i] = out[j] => i = j
      /\ ToSet(out) = Upto(gs, k - 1)
  BY DEF Laid
<1> HIDE DEF g
<1>4. /\ both \in Seq(Files) /\ Len(both) = n + m
      /\ \A i \in 1 .. n : i \in 1 .. n + m /\ both[i] = out[i]
      /\ \A i \in 1 .. m : n + i \in 1 .. n + m /\ both[n + i] = g[i]
  <2>1. /\ both \in Seq(Files) /\ Len(both) = n + m
        /\ \A i \in 1 .. n + m : both[i] = IF i <= n THEN out[i] ELSE g[i - n]
    BY <1>1, ConcatProperties
  <2>2. \A i \in 1 .. m : n + i \in 1 .. n + m /\ ~(n + i <= n) /\ (n + i) - n = i BY <1>1
  <2> HIDE DEF both
  <2>3. ASSUME NEW i \in 1 .. m PROVE both[n + i] = g[i]
    <3>1. both[n + i] = g[(n + i) - n] BY <2>1, <2>2
    <3> QED BY <2>2, <3>1
  <2>4. \A i \in 1 .. n : i \in 1 .. n + m BY <1>1
  <2> QED BY <2>1, <2>2, <2>3, <2>4
<1>5. \A i \in 1 .. n + m : i \in 1 .. n \/ \E j \in 1 .. m : i = n + j
  <2> SUFFICES ASSUME NEW i \in 1 .. n + m, i \notin 1 .. n PROVE \E j \in 1 .. m : i = n + j
    OBVIOUS
  <2>1. i - n \in 1 .. m /\ i = n + (i - n) BY <1>1
  <2> QED BY <2>1
<1>6. /\ \A i \in 1 .. n : more[i] = at[i]
      /\ \A i \in 1 .. m : more[n + i] = k
  BY <1>1
<1>7. more \in [1 .. n + m -> 1 .. k]
  <2>1. \A i \in 1 .. n : at[i] \in 1 .. k BY <1>1, <1>3
  <2> QED BY <1>1, <2>1
<1> HIDE DEF both, more
<1>8. \A i \in 1 .. n : out[i] \in ToSet(out) BY <1>1, ToSetIs
<1>9. \A i \in 1 .. m : g[i] \in ToSet(g) BY <1>1, ToSetIs
<1>10. ToSet(out) \cap ToSet(g) = {} BY <1>2, <1>3 DEF Upto
<1>11. ASSUME NEW i \in 1 .. n + m, NEW j \in 1 .. n + m, i < j PROVE more[i] <= more[j]
  <2>1. CASE j \in 1 .. n
    <3>1. i \in 1 .. n BY <1>1, <1>11, <2>1
    <3> QED BY <1>3, <1>6, <1>11, <2>1, <3>1
  <2>2. CASE \E l \in 1 .. m : j = n + l
    <3>1. more[j] = k BY <1>6, <2>2
    <3>2. more[i] \in 1 .. k BY <1>7
    <3> QED BY <1>1, <3>1, <3>2
  <2> QED BY <1>5, <2>1, <2>2
<1>12. ASSUME NEW i \in 1 .. n + m PROVE both[i] \in ToSet(gs[more[i]])
  <2>1. CASE i \in 1 .. n BY <1>3, <1>4, <1>6, <2>1
  <2>2. CASE \E l \in 1 .. m : i = n + l
    <3>1. PICK l \in 1 .. m : i = n + l BY <2>2
    <3>2. both[i] = g[l] /\ more[i] = k BY <1>4, <1>6, <3>1
    <3> QED BY <1>9, <3>2 DEF g
  <2> QED BY <1>5, <2>1, <2>2
<1>13. ASSUME NEW i \in 1 .. n + m, NEW j \in 1 .. n + m, both[i] = both[j] PROVE i = j
  <2>1. CASE i \in 1 .. n /\ j \in 1 .. n BY <1>3, <1>4, <1>13, <2>1
  <2>2. ASSUME NEW l \in 1 .. m, i = n + l, NEW h \in 1 .. m, j = n + h PROVE i = j
    <3>1. g[l] = g[h] BY <1>4, <1>13, <2>2
    <3> QED BY <1>2, <2>2, <3>1
  <2>3. ASSUME i \in 1 .. n, NEW h \in 1 .. m, j = n + h PROVE FALSE
    BY <1>4, <1>8, <1>9, <1>10, <1>13, <2>3
  <2>4. ASSUME NEW l \in 1 .. m, i = n + l, j \in 1 .. n PROVE FALSE
    BY <1>4, <1>8, <1>9, <1>10, <1>13, <2>4
  <2> QED BY <1>5, <2>1, <2>2, <2>3, <2>4
<1>14. ToSet(both) = Upto(gs, k)
  <2>1. Upto(gs, k) = Upto(gs, k - 1) \cup ToSet(g)
    <3>1. 1 .. k = (1 .. k - 1) \cup {k} BY <1>1
    <3> QED BY <3>1 DEF Upto, g
  <2>2. ASSUME NEW x \in ToSet(both) PROVE x \in ToSet(out) \cup ToSet(g)
    <3>1. PICK i \in 1 .. n + m : both[i] = x BY <1>4, ToSetIs
    <3> QED BY <1>4, <1>5, <1>8, <1>9, <3>1
  <2>3. ASSUME NEW x \in ToSet(out) PROVE x \in ToSet(both)
    <3>1. PICK i \in 1 .. n : out[i] = x BY <1>1, ToSetIs
    <3> QED BY <1>4, <3>1, ToSetIs
  <2>4. ASSUME NEW x \in ToSet(g) PROVE x \in ToSet(both)
    <3>1. PICK i \in 1 .. m : g[i] = x BY <1>1, ToSetIs
    <3> QED BY <1>4, <3>1, ToSetIs
  <2> QED BY <1>3, <2>1, <2>2, <2>3, <2>4
<1>15. Laid(both, more, gs, k) BY <1>4, <1>7, <1>11, <1>12, <1>13, <1>14 DEF Laid
<1> QED BY <1>15 DEF both, g

LEMMA LaidNone ==
  ASSUME NEW gs PROVE Laid(<<>>, [i \in 1 .. 0 |-> i], gs, 0)
BY DEF Laid, Upto, ToSet

LEMMA FlattenLaid ==
  ASSUME NEW texts, NEW gs, WellGrouped(texts, gs)
  PROVE  \E at : Laid(FlattenSeq(gs), at, gs, Len(gs))
<1>1. gs \in Seq(Seq(Files)) /\ Len(gs) \in Nat BY DEF WellGrouped
<1>2. CASE Len(gs) = 0
  <2>1. FlattenSeq(gs) = <<>>
    <3>1. gs = <<>> BY <1>1, <1>2
    <3> QED BY <1>2, <3>1 DEF FlattenSeq
  <2> QED BY <1>2, <2>1, LaidNone
<1>3. CASE Len(gs) # 0
  <2>1. PICK flat :
          /\ flat[1] = gs[1]
          /\ \A i \in 2 .. Len(gs) : flat[i] = flat[i - 1] \o gs[i]
          /\ FlattenSeq(gs) = flat[Len(gs)]
    BY <1>1, <1>3, FlattenSteps
  <2> DEFINE S == {k \in 0 .. Len(gs) : k # 0 => \E at : Laid(flat[k], at, gs, k)}
  <2>2. 0 \in S BY <1>1
  <2>3. ASSUME NEW k \in 1 .. Len(gs), k - 1 \in S PROVE k \in S
    <3>1. k \in 0 .. Len(gs) /\ k # 0 BY <1>1
    <3>2. CASE k = 1
      <4>1. gs[1] \in Seq(Files) BY <1>1, <3>2
      <4>2. flat[k] = <<>> \o gs[k] BY <2>1, <3>2, <4>1, ConcatEmptySeq
      <4>3. \E at : Laid(<<>>, at, gs, k - 1)
        <5>1. k - 1 = 0 BY <3>2
        <5> QED BY <5>1, LaidNone
      <4>4. \E at : Laid(<<>> \o gs[k], at, gs, k) BY <4>3, LaidConcat
      <4> QED BY <3>1, <4>2, <4>4
    <3>3. CASE k # 1
      <4>1. k \in 2 .. Len(gs) /\ k - 1 # 0 BY <3>1, <3>3
      <4>2. flat[k] = flat[k - 1] \o gs[k] BY <2>1, <4>1
      <4>3. \E at : Laid(flat[k - 1], at, gs, k - 1) BY <2>3, <4>1
      <4>4. \E at : Laid(flat[k - 1] \o gs[k], at, gs, k) BY <4>3, LaidConcat
      <4> QED BY <3>1, <4>2, <4>4
    <3> QED BY <3>2, <3>3
  <2> HIDE DEF S
  <2>4. Len(gs) \in S
    <3>1. \A k \in 0 .. Len(gs) : k \in S BY <1>1, <2>2, <2>3, Counting
    <3> QED BY <1>1, <3>1
  <2>5. \E at : Laid(flat[Len(gs)], at, gs, Len(gs)) BY <1>3, <2>4 DEF S
  <2> QED BY <2>1, <2>5
<1> QED BY <1>2, <1>3

\* What is reached is in no later group, and in the same one of the same cycle.
LEMMA GroupsReach ==
  ASSUME NEW texts, Answered(texts), NEW gs, WellGrouped(texts, gs),
         NEW i \in 1 .. Len(gs), NEW j \in 1 .. Len(gs),
         NEW x \in ToSet(gs[i]), NEW y \in ToSet(gs[j])
  PROVE  /\ y \in Reachable(texts, x) => j <= i
         /\ i = j => Cyclic(texts, x, y)
<1>1. gs \in Seq(Seq(Files)) /\ Len(gs) \in Nat /\ DOMAIN gs = 1 .. Len(gs) BY DEF WellGrouped
<1>2. /\ \A k \in 1 .. Len(gs) : gs[k] # <<>> /\ ToSet(gs[k]) = CycleOf(texts, gs[k][1])
                                 /\ Closed(texts, Upto(gs, k))
      /\ \A k, l \in 1 .. Len(gs) : k # l => ToSet(gs[k]) \cap ToSet(gs[l]) = {}
  BY <1>1 DEF WellGrouped
<1>3. \A k \in 1 .. Len(gs) : gs[k] \in Seq(Files) /\ ToSet(gs[k]) \subseteq Files
  <2>1. \A k \in 1 .. Len(gs) : gs[k] \in Seq(Files) BY <1>1
  <2> QED BY <2>1, ToSetIs
<1>4. x \in Files /\ y \in Files BY <1>3
<1>5. ASSUME y \in Reachable(texts, x) PROVE j <= i
  <2>1. Upto(gs, i) \in SUBSET Files
    <3>1. \A k \in 1 .. i : k \in 1 .. Len(gs) BY <1>1
    <3> QED BY <1>3, <3>1 DEF Upto
  <2>2. x \in Upto(gs, i)
    <3>1. i \in 1 .. i OBVIOUS
    <3> QED BY <3>1 DEF Upto
  <2>3. y \in Upto(gs, i) BY <1>2, <1>5, <2>1, <2>2, ReachableLeast
  <2>4. PICK k \in 1 .. i : y \in ToSet(gs[k]) BY <2>3 DEF Upto
  <2>5. k = j BY <1>1, <1>2, <2>4
  <2> QED BY <2>5
<1>6. ASSUME i = j PROVE Cyclic(texts, x, y)
  <2> DEFINE c == gs[i][1]
  <2>1. c \in Files
    <3>1. 1 \in 1 .. Len(gs[i]) BY <1>2, <1>3
    <3> QED BY <1>3, <3>1
  <2>2. x \in CycleOf(texts, c) /\ y \in CycleOf(texts, c) BY <1>2, <1>6
  <2> HIDE DEF c
  <2>3. /\ x \in Reachable(texts, c) /\ c \in Reachable(texts, x)
        /\ y \in Reachable(texts, c) /\ c \in Reachable(texts, y)
    BY <2>2 DEF CycleOf, Cyclic
  <2>4. Reachable(texts, c) \subseteq Reachable(texts, x) BY <1>4, <2>3, ReachableOn
  <2>5. Reachable(texts, c) \subseteq Reachable(texts, y) BY <1>4, <2>3, ReachableOn
  <2> QED BY <2>3, <2>4, <2>5 DEF Cyclic
<1> QED BY <1>5, <1>6

\* Dependency-first but for cycles, so that what comes last is in a cycle with e.
Ordered(texts, e, ms) ==
  /\ \A i, j \in DOMAIN ms : i < j /\ ms[j] \in Dependencies(texts, ms[i])
                             => Cyclic(texts, ms[i], ms[j])
  /\ ms # <<>> /\ Last(ms) \in Files /\ Cyclic(texts, e, Last(ms))

\* What a Module reaches, as an outcome lists it.
LEMMA PickedInOrder ==
  ASSUME NEW texts, Answered(texts), NEW gs, WellGrouped(texts, gs), NEW e \in Members(gs),
         NEW ms, ms = Only(FlattenSeq(gs), Reachable(texts, e))
  PROVE  /\ ms \in Seq(Files) /\ ToSet(ms) = Reachable(texts, e) /\ IsInjective(ms)
         /\ Ordered(texts, e, ms)
<1> DEFINE R == Reachable(texts, e)
           out == FlattenSeq(gs)
<1>1. gs \in Seq(Seq(Files)) /\ Len(gs) \in Nat BY DEF WellGrouped
<1>2. /\ Closed(texts, Members(gs)) /\ Members(gs) \subseteq Files
      /\ Members(gs) = Upto(gs, Len(gs))
  BY <1>1, WellGroupedClosed, MembersUpto
<1>3. R \subseteq Members(gs) /\ e \in R /\ e \in Files BY <1>2, ReachableLeast, ReachableRoot
<1>4. PICK at : Laid(out, at, gs, Len(gs)) BY FlattenLaid
<1>5. /\ out \in Seq(Files) /\ Len(out) \in Nat
      /\ \A i \in 1 .. Len(out) : at[i] \in 1 .. Len(gs) /\ out[i] \in ToSet(gs[at[i]])
      /\ \A i, j \in 1 .. Len(out) : i < j => at[i] <= at[j]
      /\ \A i, j \in 1 .. Len(out) : out[i] = out[j] => i = j
      /\ ToSet(out) = Members(gs)
  BY <1>2, <1>4 DEF Laid
<1> HIDE DEF out
<1>6. ms \in Seq(R) /\ \E h : Picks(ms, h, out, Len(out), R) BY <1>5, OnlyPicks DEF out
<1>7. PICK h : Picks(ms, h, out, Len(out), R) BY <1>6
<1> DEFINE n == Len(ms)
<1>8. n \in Nat /\ DOMAIN ms = 1 .. n /\ \A i \in 1 .. n : ms[i] \in R BY <1>6
<1>9. /\ \A i \in 1 .. n : h[i] \in 1 .. Len(out) /\ ms[i] = out[h[i]]
      /\ \A i, j \in 1 .. n : i < j => h[i] < h[j]
      /\ \A j \in 1 .. Len(out) : out[j] \in R => \E i \in 1 .. n : h[i] = j
  BY <1>7 DEF Picks
<1> HIDE DEF R
<1>10. ms \in Seq(Files)
  <2>1. R \subseteq Files BY <1>2, <1>3
  <2> QED BY <1>6, <2>1
<1> HIDE DEF n
<1>11. ASSUME NEW x \in R PROVE \E i \in 1 .. n : ms[i] = x
  <2>1. x \in ToSet(out) BY <1>3, <1>5
  <2>2. PICK j \in 1 .. Len(out) : out[j] = x BY <1>5, <2>1, ToSetIs
  <2>3. PICK i \in 1 .. n : h[i] = j BY <1>9, <2>2
  <2> QED BY <1>9, <2>2, <2>3
<1>12. ToSet(ms) = R
  <2>1. \A x : x \in ToSet(ms) <=> \E i \in 1 .. n : ms[i] = x BY <1>10, ToSetIs DEF n
  <2> QED BY <1>8, <1>11, <2>1
<1>13. ASSUME NEW i \in 1 .. n, NEW j \in 1 .. n, ms[i] = ms[j] PROVE i = j
  <2>1. h[i] = h[j] BY <1>5, <1>9, <1>13
  <2>2. h[i] \in Nat /\ h[j] \in Nat BY <1>9
  <2>3. ~(i < j) /\ ~(j < i) BY <1>9, <2>1, <2>2
  <2> QED BY <1>8, <2>3
<1> DEFINE g == [i \in 1 .. n |-> at[h[i]]]
<1>14. \A i \in 1 .. n : g[i] \in 1 .. Len(gs) /\ ms[i] \in ToSet(gs[g[i]]) BY <1>5, <1>9
<1>15. ASSUME NEW i \in 1 .. n, NEW j \in 1 .. n, i < j PROVE g[i] <= g[j]
  <2>1. h[i] < h[j] /\ h[i] \in 1 .. Len(out) /\ h[j] \in 1 .. Len(out) BY <1>9, <1>15
  <2> QED BY <1>5, <2>1
<1> HIDE DEF g
<1>16. ASSUME NEW i \in 1 .. n, NEW j \in 1 .. n, i < j, ms[j] \in Reachable(texts, ms[i])
       PROVE  Cyclic(texts, ms[i], ms[j])
  <2>1. g[j] <= g[i] BY <1>14, <1>16, GroupsReach
  <2>2. g[i] <= g[j] /\ g[i] \in Nat /\ g[j] \in Nat BY <1>14, <1>15, <1>16
  <2>3. g[i] = g[j] BY <2>1, <2>2
  <2> QED BY <1>14, <2>3, GroupsReach
<1>17. ASSUME NEW i \in 1 .. n, NEW j \in 1 .. n, i < j, ms[j] \in Dependencies(texts, ms[i])
       PROVE  Cyclic(texts, ms[i], ms[j])
  <2>1. ms[i] \in Files /\ ms[j] \in Files BY <1>2, <1>3, <1>8
  <2>2. ms[j] \in Reachable(texts, ms[i])
    BY <1>17, <2>1, ReachableEdge, ReachableRoot
  <2> QED BY <1>16, <1>17, <2>2
<1>18. PICK k \in 1 .. n : ms[k] = e BY <1>3, <1>11
<1>19. n \in 1 .. n /\ ms # <<>>
  <2>1. n # 0 /\ n \in 1 .. n BY <1>8, <1>18
  <2> QED BY <2>1 DEF n
<1>20. ms[n] \in Files /\ ms[n] \in Reachable(texts, e)
  <2>1. ms[n] \in R BY <1>8, <1>19
  <2> QED BY <1>2, <1>3, <2>1 DEF R
<1>21. Cyclic(texts, e, ms[n])
  <2>1. CASE k = n
    <3>1. e \in ToSet(gs[g[k]]) BY <1>14, <1>18
    <3> QED BY <1>14, <1>18, <2>1, <3>1, GroupsReach
  <2>2. CASE k # n
    <3>1. k < n BY <1>8, <2>2
    <3> QED BY <1>16, <1>18, <1>19, <1>20, <3>1
  <2> QED BY <2>1, <2>2
<1>22. IsInjective(ms) BY <1>8, <1>13 DEF IsInjective
<1>23. Last(ms) = ms[n] BY DEF Last, n
<1>24. Ordered(texts, e, ms) BY <1>8, <1>17, <1>19, <1>20, <1>21, <1>23 DEF Ordered
<1> QED BY <1>10, <1>12, <1>22, <1>24 DEF R

-----------------------------------------------------------------------------
(* What is held, and what the host has answered.                           *)

\* Two answers of a host that say the same of some files.
SameOn(texts, known, S) ==
  \A f \in S : /\ Dependencies(known, f) = Dependencies(texts, f)
               /\ known[f] = Missing <=> texts[f] = Missing

LEMMA SameClosed ==
  ASSUME NEW texts, NEW known, NEW S, SameOn(texts, known, S), NEW T \in SUBSET S
  PROVE  Closed(known, T) <=> Closed(texts, T)
BY DEF Closed, SameOn

LEMMA SameCycles ==
  ASSUME NEW texts, NEW known, Answered(texts), Answered(known),
         NEW S \in SUBSET Files, SameOn(texts, known, S), Closed(texts, S), NEW f \in S
  PROVE  /\ Reachable(known, f) = Reachable(texts, f)
         /\ CycleOf(known, f) = CycleOf(texts, f)
<1>1. Closed(known, S) BY SameClosed
<1>2. \A d \in S : Reachable(texts, d) \subseteq S /\ Reachable(known, d) \subseteq S
  BY <1>1, ReachableLeast
<1>3. ASSUME NEW d \in S PROVE Reachable(known, d) = Reachable(texts, d)
  <2>1. d \in Files OBVIOUS
  <2>2. Closed(texts, Reachable(texts, d)) /\ Closed(known, Reachable(known, d))
    BY ReachableClosed
  <2>3. Closed(known, Reachable(texts, d)) /\ Closed(texts, Reachable(known, d))
    BY <1>2, <2>2, SameClosed
  <2>4. d \in Reachable(texts, d) /\ d \in Reachable(known, d) BY <2>1, ReachableRoot
  <2>5. Reachable(texts, d) \in SUBSET Files /\ Reachable(known, d) \in SUBSET Files
    BY ReachableType
  <2> QED BY <2>3, <2>4, <2>5, ReachableLeast
<1>4. \A d : d \in CycleOf(known, f) <=> d \in CycleOf(texts, f)
  BY <1>2, <1>3 DEF CycleOf, Cyclic
<1> QED BY <1>3, <1>4

LEMMA SameGroups ==
  ASSUME NEW texts, NEW known, Answered(texts), Answered(known), NEW gs,
         WellGrouped(texts, gs), SameOn(texts, known, Members(gs))
  PROVE  WellGrouped(known, gs)
<1> DEFINE S == Members(gs)
<1>1. gs \in Seq(Seq(Files)) /\ DOMAIN gs = 1 .. Len(gs) BY DEF WellGrouped
<1>2. Closed(texts, S) /\ S \in SUBSET Files /\ \A i \in 1 .. Len(gs) : ToSet(gs[i]) \subseteq S
  BY <1>1, WellGroupedClosed, MembersUpto
<1>3. ASSUME NEW i \in DOMAIN gs
      PROVE  /\ gs[i] # <<>>
             /\ ToSet(gs[i]) = CycleOf(known, gs[i][1])
             /\ \A j, k \in DOMAIN gs[i] : gs[i][j] = gs[i][k] => j = k
             /\ Closed(known, Upto(gs, i))
  <2>1. /\ gs[i] # <<>>
        /\ ToSet(gs[i]) = CycleOf(texts, gs[i][1])
        /\ \A j, k \in DOMAIN gs[i] : gs[i][j] = gs[i][k] => j = k
        /\ Closed(texts, Upto(gs, i))
    BY DEF WellGrouped
  <2>2. gs[i][1] \in S
    <3>1. gs[i] \in Seq(Files) BY <1>1
    <3>2. 1 \in 1 .. Len(gs[i]) BY <2>1, <3>1
    <3>3. gs[i][1] \in ToSet(gs[i]) BY <3>1, <3>2, ToSetIs
    <3> QED BY <1>1, <1>2, <3>3
  <2>3. Upto(gs, i) \subseteq S
    <3>1. \A k \in 1 .. i : k \in 1 .. Len(gs) BY <1>1
    <3> QED BY <1>2, <3>1 DEF Upto
  <2>4. CycleOf(known, gs[i][1]) = CycleOf(texts, gs[i][1]) BY <1>2, <2>2, SameCycles
  <2>5. Closed(known, Upto(gs, i)) BY <2>1, <2>3, SameClosed
  <2> QED BY <2>1, <2>4, <2>5
<1>4. \A i, j \in DOMAIN gs : i # j => ToSet(gs[i]) \cap ToSet(gs[j]) = {} BY DEF WellGrouped
<1>5. \A x \in Members(gs) : known[x] # Missing BY DEF WellGrouped, SameOn
<1> QED BY <1>1, <1>3, <1>4, <1>5 DEF WellGrouped

LEMMA SameParts ==
  ASSUME NEW texts, NEW known, NEW ps, NEW S, Parted(texts, ps, S), SameOn(texts, known, S)
  PROVE  Parted(known, ps, S)
<1>1. \A p \in ps : p \in SUBSET S /\ Closed(texts, p) BY DEF Parted
<1>2. \A p \in ps : Closed(known, p) BY <1>1, SameClosed
<1> QED BY <1>2 DEF Parted

-----------------------------------------------------------------------------
(* The Session: what it holds, over what its host has answered so far.     *)

\* What has been read was read once, of what the file may be.
ReadSoFar(m) == \A f \in Files : m[f] = Unread \/ m[f] \in Texts[f]

KnownIn(m) == [f \in Files |-> IF m[f] = Unread THEN Missing ELSE m[f]]

\* What the Session holds for the entries `es`, once it has loaded.
Held(es, m, gs, ps) ==
  /\ \A e \in es : m[e] # Unread /\ (m[e] # Missing => e \in Members(gs))
  /\ WellGrouped(KnownIn(m), gs)
  /\ \A f \in Members(gs) : \A d \in ToSet(m[f]) : m[d] # Unread
  /\ Parted(KnownIn(m), ps, Members(gs))

PieceIn(ps, e) == CHOOSE p \in ps : e \in p
ModulesIn(m, gs, ps, e) ==
  Only(FlattenSeq(gs), Found(m, PieceIn(ps, e), {e}) \cap PieceIn(ps, e))

LEMMA AnswersOfTexts ==
  ASSUME NEW texts, \A f \in Files : texts[f] \in Texts[f]
  PROVE  Answered(texts) /\ \A f \in Files : texts[f] # Unread
BY SessionAssumption DEF Answered

LEMMA AnswersKnown ==
  ASSUME NEW m, ReadSoFar(m)
  PROVE  /\ Answered(KnownIn(m))
         /\ \A f \in Files : KnownIn(m)[f] # Missing
              => KnownIn(m)[f] = m[f] /\ m[f] \in Seq(Files) /\ m[f] # Unread
         /\ \A f \in Files : m[f] # Unread => KnownIn(m)[f] = m[f]
<1>1. \A f \in Files : KnownIn(m)[f] = IF m[f] = Unread THEN Missing ELSE m[f] BY DEF KnownIn
<1>2. \A f \in Files : \A t \in Texts[f] : t = Missing \/ t \in Seq(Files) BY SessionAssumption
<1>3. \A f \in Files : KnownIn(m)[f] # Missing
        => KnownIn(m)[f] = m[f] /\ m[f] \in Seq(Files) /\ m[f] # Unread
  BY <1>1, <1>2 DEF ReadSoFar
<1> QED BY <1>1, <1>3 DEF Answered

\* The work list is what is reached.
LEMMA ResolveAllIs ==
  ASSUME NEW texts, Answered(texts), NEW e \in Files
  PROVE  ResolveAll(texts, e) = Reachable(texts, e)
<1> DEFINE F == Found(texts, Files, {e})
<1>1. \A f \in Files : Dependencies(texts, f) \subseteq Files BY DependenciesType
<1>2. /\ {e} \subseteq F /\ F \subseteq Files
      /\ \A f \in F \cap Files : Dependencies(texts, f) \subseteq F
      /\ \A S \in SUBSET Files :
           {e} \subseteq S /\ (\A f \in S \cap Files : Dependencies(texts, f) \subseteq S)
           => F \subseteq S
  <2>1. {e} \in SUBSET Files OBVIOUS
  <2> QED BY <1>1, <2>1, FoundIs
<1> HIDE DEF F
<1>3. Closed(texts, F) BY <1>2 DEF Closed
<1>4. Reachable(texts, e) \subseteq F BY <1>2, <1>3, ReachableLeast
<1>5. F \subseteq Reachable(texts, e)
  <2>1. Closed(texts, Reachable(texts, e)) BY ReachableClosed
  <2>2. Reachable(texts, e) \in SUBSET Files /\ e \in Reachable(texts, e)
    BY ReachableType, ReachableRoot
  <2> QED BY <1>2, <2>1, <2>2 DEF Closed
<1> QED BY <1>4, <1>5 DEF ResolveAll, F

\* Loading asks for all it reaches and for all that names.
LEMMA AskedIsEnough ==
  ASSUME NEW texts, Answered(texts), NEW e \in Files, texts[e] # Missing,
         NEW f \in Reachable(texts, e)
  PROVE  f \in Asked(texts, e) /\ ToSet(texts[f]) \subseteq Asked(texts, e)
<1>1. Asked(texts, e) = {e} \cup UNION {ToSet(texts[g]) : g \in Reachable(texts, e)}
  BY ResolveAllIs DEF Asked
<1> DEFINE S == Reachable(texts, e) \cap Asked(texts, e)
<1>2. S \in SUBSET Files /\ e \in S BY <1>1, ReachableType, ReachableRoot
<1>3. Closed(texts, S)
  <2>1. Closed(texts, Reachable(texts, e)) BY ReachableClosed
  <2>2. \A g \in Reachable(texts, e) : Dependencies(texts, g) \subseteq Asked(texts, e)
    BY <1>1 DEF Dependencies
  <2> QED BY <2>1, <2>2 DEF Closed
<1>4. Reachable(texts, e) \subseteq S BY <1>2, <1>3, ReachableLeast
<1> QED BY <1>1, <1>4

\* Loading: what is held afterwards is so over what has been read by then.
LEMMA LoadHolds ==
  ASSUME NEW es, NEW texts, \A f \in Files : texts[f] \in Texts[f],
         plan \in Seq(Files), es = ToSet(plan),
         NEW m, \A f \in UNION {Asked(texts, e) : e \in es} : f \in Files => m[f] = texts[f],
         ReadSoFar(m)
  PROVE  Held(es, m, LoadAll(texts).groups, AssignComponents(LoadAll(texts)))
<1> DEFINE loads == LoadAll(texts)
           gs == loads.groups
           S == Members(gs)
           known == KnownIn(m)
           asked == UNION {Asked(texts, e) : e \in es}
<1>1. Answered(texts) /\ Answered(known) /\ \A f \in Files : texts[f] # Unread
  BY AnswersOfTexts, AnswersKnown
<1>2. /\ LoadedWell(texts, Len(plan), loads)
      /\ Parted(texts, AssignComponents(loads), S)
  BY <1>1, LoadAllIsWell
<1> HIDE DEF loads
<1>3. /\ WellGrouped(texts, gs)
      /\ \A j \in 1 .. Len(plan) : texts[plan[j]] # Missing => plan[j] \in S
      /\ \A f \in S : \E j \in 1 .. Len(plan) :
           texts[plan[j]] # Missing /\ f \in Reachable(texts, plan[j])
  BY <1>2 DEF LoadedWell
<1>4. es \subseteq Files /\ \A e : e \in es <=> \E j \in 1 .. Len(plan) : plan[j] = e BY ToSetIs
<1>5. S \subseteq Files /\ \A f \in S : texts[f] # Missing
  BY <1>3, WellGroupedClosed DEF WellGrouped
<1>6. \A f \in asked : f \in Files => m[f] = texts[f] OBVIOUS
<1>7. \A e \in es : e \in asked BY DEF Asked
<1>8. ASSUME NEW f \in S PROVE f \in asked /\ ToSet(texts[f]) \subseteq asked
  <2>1. PICK j \in 1 .. Len(plan) : texts[plan[j]] # Missing /\ f \in Reachable(texts, plan[j])
    BY <1>3
  <2>2. plan[j] \in es /\ plan[j] \in Files BY <1>4
  <2>3. f \in Asked(texts, plan[j]) /\ ToSet(texts[f]) \subseteq Asked(texts, plan[j])
    BY <1>1, <2>1, <2>2, AskedIsEnough
  <2> QED BY <2>2, <2>3
<1> HIDE DEF asked, S
<1>9. \A f \in S : ToSet(texts[f]) \subseteq Files
  <2>1. \A f \in S : texts[f] \in Seq(Files) BY <1>1, <1>5 DEF Answered
  <2> QED BY <2>1, ToSetIs
<1>10. \A f \in Files : f \in asked => m[f] = texts[f] /\ m[f] # Unread /\ known[f] = texts[f]
  BY <1>1, <1>6, AnswersKnown
<1> HIDE DEF known
<1>11. \A f \in S : m[f] = texts[f] /\ known[f] = texts[f]
                    /\ \A d \in ToSet(texts[f]) : m[d] # Unread /\ known[d] = texts[d]
  BY <1>5, <1>8, <1>9, <1>10
<1>12. SameOn(texts, known, S)
  <2> SUFFICES ASSUME NEW f \in S PROVE Dependencies(known, f) = Dependencies(texts, f)
    BY <1>11 DEF SameOn
  <2>1. known[f] = texts[f] /\ texts[f] # Missing
        /\ \A d \in ToSet(texts[f]) : known[d] = texts[d]
    BY <1>5, <1>11
  <2> QED BY <2>1 DEF Dependencies
<1>13. WellGrouped(known, gs) BY <1>1, <1>3, <1>12, SameGroups DEF S
<1>14. Parted(known, AssignComponents(loads), S) BY <1>2, <1>12, SameParts DEF S
<1>15. \A e \in es : m[e] # Unread /\ (m[e] # Missing => e \in S)
  BY <1>3, <1>4, <1>7, <1>10
<1> QED BY <1>11, <1>13, <1>14, <1>15 DEF Held, S, known, loads

\* The piece of an entry that could be read, and its Modules.
LEMMA ModulesAre ==
  ASSUME NEW es \in SUBSET Files, NEW m, ReadSoFar(m), NEW gs, NEW ps, Held(es, m, gs, ps),
         NEW e \in es, m[e] # Missing
  PROVE  /\ PieceIn(ps, e) \in ps /\ e \in PieceIn(ps, e)
         /\ ModulesIn(m, gs, ps, e) \in Seq(Files)
         /\ ToSet(ModulesIn(m, gs, ps, e)) = Reachable(KnownIn(m), e)
         /\ IsInjective(ModulesIn(m, gs, ps, e))
         /\ ToSet(ModulesIn(m, gs, ps, e)) \subseteq Members(gs)
         /\ Ordered(KnownIn(m), e, ModulesIn(m, gs, ps, e))
<1> DEFINE ms == ModulesIn(m, gs, ps, e)
           known == KnownIn(m)
           p == PieceIn(ps, e)
           F == Found(m, p, {e})
<1>1. /\ Answered(known)
      /\ \A f \in Files : known[f] # Missing
           => known[f] = m[f] /\ m[f] \in Seq(Files) /\ m[f] # Unread
      /\ \A f \in Files : m[f] # Unread => known[f] = m[f]
  BY AnswersKnown
<1> HIDE DEF known
<1>2. /\ e \in Members(gs) /\ WellGrouped(known, gs)
      /\ \A f \in Members(gs) : \A d \in ToSet(m[f]) : m[d] # Unread
      /\ Parted(known, ps, Members(gs))
  BY DEF Held, known
<1>3. Members(gs) \subseteq Files /\ \A f \in Members(gs) : known[f] # Missing
  BY <1>2, WellGroupedClosed DEF WellGrouped
<1>4. p \in ps /\ e \in p
  <2>1. \E q \in ps : e \in q BY <1>2 DEF Parted
  <2> QED BY <2>1 DEF PieceIn
<1> HIDE DEF p
<1>5. p \subseteq Members(gs) /\ Closed(known, p) BY <1>2, <1>4 DEF Parted
<1>6. ASSUME NEW f \in p PROVE Dependencies(m, f) = Dependencies(known, f)
  <2>1. f \in Files /\ f \in Members(gs) /\ known[f] # Missing BY <1>3, <1>5
  <2>2. known[f] = m[f] /\ m[f] # Missing /\ m[f] \in Seq(Files) BY <1>1, <2>1
  <2>3. \A d \in ToSet(m[f]) : d \in Files BY <2>2, ToSetIs
  <2>4. \A d \in ToSet(m[f]) : known[d] = m[d] BY <1>1, <1>2, <2>1, <2>3
  <2> QED BY <2>2, <2>4 DEF Dependencies
<1>7. /\ {e} \subseteq F
      /\ \A f \in F \cap p : Dependencies(m, f) \subseteq F
      /\ \A S \in SUBSET Files :
           {e} \subseteq S /\ (\A f \in S \cap p : Dependencies(m, f) \subseteq S)
           => F \subseteq S
  <2>1. {e} \in SUBSET Files OBVIOUS
  <2>2. \A f \in p : Dependencies(m, f) \subseteq Files
    BY <1>1, <1>3, <1>5, <1>6, DependenciesType
  <2> QED BY <2>1, <2>2, FoundIs
<1> HIDE DEF F
<1>8. p \in SUBSET Files BY <1>3, <1>5
<1>9. F \subseteq p BY <1>4, <1>5, <1>6, <1>7, <1>8 DEF Closed
<1>10. F \cap p = Reachable(known, e)
  <2>1. Closed(known, F) BY <1>6, <1>7, <1>9 DEF Closed
  <2>2. F \in SUBSET Files /\ e \in F BY <1>7, <1>8, <1>9
  <2>3. Reachable(known, e) \subseteq F BY <2>1, <2>2, ReachableLeast
  <2>4. Closed(known, Reachable(known, e)) BY <1>1, ReachableClosed
  <2>5. Reachable(known, e) \subseteq p BY <1>9, <2>3
  <2>6. e \in Reachable(known, e) BY ReachableRoot
  <2>7. F \subseteq Reachable(known, e)
    BY <1>6, <1>7, <1>8, <2>4, <2>5, <2>6 DEF Closed
  <2> QED BY <1>9, <2>3, <2>7
<1>11. ms = Only(FlattenSeq(gs), Reachable(known, e)) BY <1>10 DEF ModulesIn, F, p
<1> HIDE DEF ms
<1>12. Reachable(known, e) \subseteq Members(gs)
  <2>1. Closed(known, Members(gs)) BY <1>2, WellGroupedClosed
  <2> QED BY <1>2, <1>3, <2>1, ReachableLeast
<1>13. /\ ms \in Seq(Files) /\ ToSet(ms) = Reachable(known, e) /\ IsInjective(ms)
       /\ Ordered(known, e, ms)
  BY <1>1, <1>2, <1>11, PickedInOrder
<1> QED BY <1>4, <1>12, <1>13 DEF p, known, ms

-----------------------------------------------------------------------------
(* The inductive invariant of a run.                                       *)

Contents == {Unread} \cup UNION {Texts[f] : f \in Files}

SessionTypes ==
  /\ plan \in Plans
  /\ sources \in [Files -> Contents] /\ \A f \in Files : sources[f] \in Texts[f]
  /\ memo \in [Files -> Contents] /\ ReadSoFar(memo)
  /\ loaded \in BOOLEAN
  /\ progress \in [Files -> {"none", "read", "parse", "enrich", "emit", "done"}]
  /\ outcome \in [Files -> [text : Contents, modules : Seq(Files), stage : Stages]]

\* Nothing is held until everything is.
SessionHolds ==
  IF loaded THEN Held(Entries, memo, groups, pieces) ELSE groups = <<>> /\ pieces = {}

Failed(e) == memo[e] = Missing /\ outcome[e].modules = <<>>
Parsed(e) ==
  /\ loaded /\ memo[e] # Missing /\ outcome[e].stage # "read"
  /\ outcome[e].modules = ReachableModules(e)

\* How far a compile is, and what it has to report by then.
CompileIs(e) ==
  /\ progress[e] = "read" => outcome[e] = NoOutcome
  /\ progress[e] # "read" => outcome[e].text = memo[e] /\ memo[e] # Unread
  /\ progress[e] = "parse"
       => memo[e] # Missing /\ outcome[e].modules = <<>> /\ outcome[e].stage = "none"
  /\ progress[e] \in {"enrich", "emit"} => Parsed(e)
  /\ progress[e] = "done" => Failed(e) \/ Parsed(e)
  /\ progress[e] # "none"

CompilesAre == \A e \in Entries : CompileIs(e)

\* A Program was typed where its piece was linked.
LinkedOnce ==
  /\ linked \subseteq pieces
  /\ programs \in [Files -> Nat] /\ mangled \in [Files -> Nat]
  /\ \A f \in Files : programs[f] = IF f \in UNION linked THEN 1 ELSE 0
  /\ \A f \in Files : mangled[f] <= 1

Attributed ==
  finished => /\ \A e \in Entries : progress[e] = "done"
              /\ FilesAreReported

SessionInv ==
  /\ SessionTypes /\ SessionHolds /\ CompilesAre /\ LinkedOnce /\ Attributed

LEMMA PlanTypes ==
  ASSUME plan \in Plans
  PROVE  plan \in Seq(Files) /\ Entries \subseteq Files /\ Entries = ToSet(plan)
<1>1. plan \in Seq(Files) BY SessionAssumption
<1> QED BY <1>1, ToSetIs DEF Entries

LEMMA KnownIs == Known = KnownIn(memo)
BY DEF Known, KnownIn

LEMMA ReachableModulesIs ==
  ASSUME NEW e
  PROVE  ReachableModules(e) = ModulesIn(memo, groups, pieces, e) /\ PieceOf(e) = PieceIn(pieces, e)
BY DEF ReachableModules, ModulesIn, PieceOf, PieceIn

\* Of a compile that got so far: what ModulesAre says.
LEMMA ParsedModules ==
  ASSUME SessionTypes, SessionHolds, NEW e \in Entries, Parsed(e)
  PROVE  /\ PieceOf(e) \in pieces
         /\ ToSet(Modules(e)) = Reachable(Known, e) /\ IsInjective(Modules(e))
         /\ ToSet(Modules(e)) \subseteq Members(groups)
         /\ \A i, j \in DOMAIN Modules(e) :
              i < j /\ Modules(e)[j] \in Dependencies(Known, Modules(e)[i])
              => Cyclic(Known, Modules(e)[i], Modules(e)[j])
         /\ Modules(e) \in Seq(Files) /\ Modules(e) # <<>>
         /\ EntryOf(e) \in Files /\ Cyclic(Known, e, EntryOf(e))
<1>1. Entries \in SUBSET Files BY PlanTypes DEF SessionTypes
<1>2. Held(Entries, memo, groups, pieces) /\ ReadSoFar(memo) /\ memo[e] # Missing
  BY DEF SessionHolds, SessionTypes, Parsed
<1> DEFINE ms == ModulesIn(memo, groups, pieces, e)
           known == KnownIn(memo)
<1>3. /\ PieceIn(pieces, e) \in pieces
      /\ ms \in Seq(Files) /\ ToSet(ms) = Reachable(known, e) /\ IsInjective(ms)
      /\ ToSet(ms) \subseteq Members(groups)
      /\ Ordered(known, e, ms)
  BY <1>1, <1>2, ModulesAre
<1>4. Modules(e) = ms BY ReachableModulesIs DEF Modules, Parsed
<1> HIDE DEF ms
<1> QED BY <1>3, <1>4, KnownIs, ReachableModulesIs DEF EntryOf, Ordered

-----------------------------------------------------------------------------
(* Attribution.                                                            *)

LEMMA FirstOfIs ==
  ASSUME plan \in Seq(Files), NEW es \in SUBSET Entries, es # {}
  PROVE  FirstOf(es) \in es
<1> DEFINE at == {i \in DOMAIN plan : plan[i] \in es}
           First(i) == i \in DOMAIN plan /\ plan[i] \in es /\ \A j \in 1 .. i - 1 : plan[j] \notin es
<1>1. at \in SUBSET Nat /\ DOMAIN plan = 1 .. Len(plan) OBVIOUS
<1>2. at # {}
  <2>1. PICK e : e \in es OBVIOUS
  <2>2. \E i \in 1 .. Len(plan) : plan[i] = e BY <2>1, ToSetIs DEF Entries
  <2> QED BY <1>1, <2>1, <2>2
<1>3. PICK i \in at : \A j \in at : i <= j BY <1>1, <1>2, LeastNatural
<1>4. First(i)
  <2>1. ASSUME NEW j \in 1 .. i - 1 PROVE plan[j] \notin es
    <3>1. j \in DOMAIN plan /\ ~(i <= j) BY <1>1
    <3> QED BY <1>3, <3>1
  <2> QED BY <2>1
<1> DEFINE first == CHOOSE k \in DOMAIN plan : plan[k] \in es /\ \A j \in 1 .. k - 1 : plan[j] \notin es
<1>5. plan[first] \in es BY <1>4
<1> QED BY <1>5 DEF FirstOf

\* When all compiles are done every file is claimed by an outcome that lists it,
\* and an entry in no cycle by its own.
LEMMA OwnersReport ==
  ASSUME SessionTypes, SessionHolds, CompilesAre, \A e \in Entries : progress[e] = "done"
  PROVE  /\ \A e \in Entries : \A f \in ToSet(Modules(e)) :
              f \in DOMAIN Owners /\ Owners[f] \in Entries /\ f \in ToSet(Modules(Owners[f]))
         /\ \A e \in Entries : CycleOf(Known, e) = {e} /\ Modules(e) # <<>> => Owners[e] = e
<1> DEFINE heads == {EntryOf(e) : e \in Reporting}
           Claim(f) == {e \in Reporting : EntryOf(e) = f}
           Share(f) == {e \in Entries : f \in ToSet(Modules(e))}
           all == heads \cup UNION {ToSet(Modules(e)) : e \in Entries}
<1>1. plan \in Seq(Files) /\ Entries \subseteq Files BY PlanTypes DEF SessionTypes
<1>2. Reporting \subseteq Entries BY DEF Reporting
<1>3. DOMAIN EntriesFirst = heads /\ \A f \in heads : EntriesFirst[f] = FirstOf(Claim(f))
  BY DEF EntriesFirst
<1>4. /\ DOMAIN Owners = all
      /\ \A f \in all : Owners[f] = IF f \in heads THEN FirstOf(Claim(f)) ELSE FirstOf(Share(f))
  BY <1>3 DEF Owners, ThenShared
<1>5. \A e \in Reporting : /\ Modules(e) \in Seq(Files) /\ Modules(e) # <<>>
                           /\ EntryOf(e) \in Files /\ Cyclic(Known, e, EntryOf(e))
  <2> SUFFICES ASSUME NEW e \in Reporting
               PROVE  /\ Modules(e) \in Seq(Files) /\ Modules(e) # <<>>
                      /\ EntryOf(e) \in Files /\ Cyclic(Known, e, EntryOf(e))
    OBVIOUS
  <2>1. e \in Entries /\ Modules(e) # <<>> BY DEF Reporting
  <2>2. Parsed(e) BY <2>1 DEF CompilesAre, CompileIs, Failed, Modules
  <2> QED BY <2>1, <2>2, ParsedModules
<1>6. \A e \in Reporting : EntryOf(e) \in ToSet(Modules(e))
  <2> SUFFICES ASSUME NEW e \in Reporting PROVE EntryOf(e) \in ToSet(Modules(e)) OBVIOUS
  <2>1. Modules(e) \in Seq(Files) /\ Modules(e) # <<>> BY <1>5
  <2>2. Len(Modules(e)) \in 1 .. Len(Modules(e)) BY <2>1
  <2> QED BY <2>1, <2>2, ToSetIs DEF EntryOf, Last
<1> HIDE DEF all, heads
<1>7. ASSUME NEW f \in heads PROVE FirstOf(Claim(f)) \in Claim(f)
  <2>1. Claim(f) # {} /\ Claim(f) \in SUBSET Entries BY <1>2 DEF heads
  <2> QED BY <1>1, <2>1, FirstOfIs
<1>8. ASSUME NEW e \in Entries, NEW f \in ToSet(Modules(e))
      PROVE  f \in DOMAIN Owners /\ Owners[f] \in Entries /\ f \in ToSet(Modules(Owners[f]))
  <2>1. f \in all BY DEF all
  <2>2. CASE f \in heads
    <3>1. Owners[f] \in Claim(f) BY <1>4, <1>7, <2>1, <2>2
    <3> QED BY <1>2, <1>4, <1>6, <2>1, <3>1
  <2>3. CASE f \notin heads
    <3>1. Share(f) # {} /\ Share(f) \in SUBSET Entries OBVIOUS
    <3>2. FirstOf(Share(f)) \in Share(f) BY <1>1, <3>1, FirstOfIs
    <3> QED BY <1>4, <2>1, <2>3, <3>2
  <2> QED BY <2>2, <2>3
<1>9. ASSUME NEW e \in Entries, CycleOf(Known, e) = {e}, Modules(e) # <<>> PROVE Owners[e] = e
  <2>1. e \in Reporting BY <1>9 DEF Reporting
  <2>2. EntryOf(e) = e BY <1>5, <1>9, <2>1 DEF CycleOf
  <2>3. e \in heads BY <2>1, <2>2 DEF heads
  <2>4. e \in all BY <2>3 DEF all
  <2>5. Owners[e] \in Claim(e) BY <1>4, <1>7, <2>3, <2>4
  <2>6. \A o \in Claim(e) : o = e
    <3> SUFFICES ASSUME NEW o \in Claim(e) PROVE o = e OBVIOUS
    <3>1. o \in Reporting /\ EntryOf(o) = e /\ o \in Files BY <1>1, <1>2
    <3>2. Cyclic(Known, o, e) BY <1>5, <3>1
    <3>3. o \in CycleOf(Known, e) BY <3>1, <3>2 DEF CycleOf, Cyclic
    <3> QED BY <1>9, <3>3
  <2> QED BY <2>5, <2>6
<1> QED BY <1>8, <1>9

-----------------------------------------------------------------------------
(* The steps of a run.                                                     *)

LEMMA SessionStarts ==
  ASSUME SessionInit PROVE SessionInv
<1>1. plan \in Plans /\ sources \in [Files -> UNION {Texts[f] : f \in Files}]
      /\ (\A f \in Files : sources[f] \in Texts[f]) /\ loaded = FALSE /\ finished = FALSE
      /\ memo = [f \in Files |-> Unread] /\ groups = <<>> /\ pieces = {} /\ linked = {}
      /\ programs = [f \in Files |-> 0] /\ mangled = [f \in Files |-> 0]
      /\ progress = [e \in Files |-> IF e \in Entries THEN "read" ELSE "none"]
      /\ outcome = [e \in Files |-> NoOutcome]
  BY DEF SessionInit
<1>2. NoOutcome \in [text : Contents, modules : Seq(Files), stage : Stages]
  BY DEF NoOutcome, Contents, Stages
<1>3. Entries \subseteq Files BY <1>1, PlanTypes
<1>4. SessionTypes
  <2>1. sources \in [Files -> Contents] BY <1>1 DEF Contents
  <2>2. memo \in [Files -> Contents] BY <1>1 DEF Contents
  <2>3. progress \in [Files -> {"none", "read", "parse", "enrich", "emit", "done"}] BY <1>1
  <2>4. outcome \in [Files -> [text : Contents, modules : Seq(Files), stage : Stages]]
    BY <1>1, <1>2
  <2> QED BY <1>1, <2>1, <2>2, <2>3, <2>4 DEF SessionTypes, ReadSoFar
<1>5. CompilesAre BY <1>1, <1>3 DEF CompilesAre, CompileIs
<1>6. LinkedOnce BY <1>1 DEF LinkedOnce
<1> QED BY <1>1, <1>4, <1>5, <1>6 DEF SessionInv, SessionHolds, Attributed

\* What is known of a file stays so, and nothing is held anew.
Onwards ==
  /\ plan' = plan
  /\ \A f \in Files : memo[f] # Unread => memo'[f] = memo[f]
  /\ loaded => loaded' = loaded /\ memo' = memo /\ groups' = groups /\ pieces' = pieces

LEMMA CompileStays ==
  ASSUME SessionTypes, Onwards, NEW e \in Entries, CompileIs(e),
         progress'[e] = progress[e], outcome'[e] = outcome[e]
  PROVE  CompileIs(e)'
<1>1. e \in Files BY PlanTypes DEF SessionTypes
<1>2. memo[e] # Unread => memo'[e] = memo[e] BY <1>1 DEF Onwards
<1>3. Parsed(e) => Parsed(e)'
  <2> SUFFICES ASSUME Parsed(e) PROVE Parsed(e)' OBVIOUS
  <2>1. loaded BY DEF Parsed
  <2>2. loaded' /\ memo' = memo /\ groups' = groups /\ pieces' = pieces BY <2>1 DEF Onwards
  <2>3. ReachableModules(e) = ModulesIn(memo, groups, pieces, e) BY ReachableModulesIs
  <2>4. ReachableModules(e)' = ModulesIn(memo', groups', pieces', e)
    BY DEF ReachableModules, ModulesIn, PieceOf, PieceIn
  <2>5. ReachableModules(e)' = ReachableModules(e) BY <2>2, <2>3, <2>4
  <2> QED BY <2>2, <2>5 DEF Parsed
<1>4. NoOutcome' = NoOutcome BY DEF NoOutcome
<1>5. Failed(e) /\ memo[e] # Unread => Failed(e)' BY <1>2 DEF Failed
<1> QED BY <1>2, <1>3, <1>4, <1>5 DEF CompileIs

LEMMA EditKeeps ==
  ASSUME SessionInv, NEW f \in Files, Edit(f) PROVE SessionInv'
<1>1. PICK t \in Texts[f] : sources' = [sources EXCEPT ![f] = t] BY DEF Edit
<1>2. /\ plan' = plan /\ memo' = memo /\ loaded' = loaded /\ groups' = groups /\ pieces' = pieces
      /\ linked' = linked /\ programs' = programs /\ mangled' = mangled
      /\ progress' = progress /\ outcome' = outcome /\ finished' = finished /\ ~finished
  BY DEF Edit, sessionVars, onceVars, attribution
<1>3. SessionTypes'
  <2>1. sources' \in [Files -> Contents] /\ \A g \in Files : sources'[g] \in Texts[g]
    <3>1. t \in Contents BY DEF Contents
    <3> QED BY <1>1, <3>1 DEF SessionInv, SessionTypes
  <2> QED BY <1>2, <2>1 DEF SessionInv, SessionTypes, ReadSoFar
<1>4. Entries' = Entries BY <1>2 DEF Entries
<1>5. SessionHolds'
  <2>1. SessionHolds BY DEF SessionInv
  <2> QED BY <1>2, <1>4, <2>1 DEF SessionHolds
<1>6. CompilesAre'
  <2>1. Onwards BY <1>2 DEF Onwards
  <2>2. \A e \in Entries : CompileIs(e)' BY <1>2, <2>1, CompileStays DEF SessionInv, CompilesAre
  <2> QED BY <1>4, <2>2 DEF CompilesAre
<1>7. LinkedOnce' BY <1>2 DEF SessionInv, LinkedOnce
<1> QED BY <1>2, <1>3, <1>5, <1>6, <1>7 DEF SessionInv, Attributed

\* Asking the host again answers what it answered before.
LEMMA RememberIs ==
  ASSUME SessionTypes, NEW asked, NEW m, m = Remember(memo, asked)
  PROVE  /\ m \in [Files -> Contents] /\ ReadSoFar(m)
         /\ \A f \in Files : memo[f] # Unread => m[f] = memo[f]
         /\ \A f \in Files : f \in asked => m[f] = ReadFile(memo)[f] /\ m[f] # Unread
         /\ \A f \in Files : ReadFile(memo)[f] \in Texts[f]
<1>1. \A f \in Files : ReadFile(memo)[f] = IF memo[f] = Unread THEN sources[f] ELSE memo[f]
  BY DEF ReadFile
<1>2. /\ m = [f \in Files |-> IF f \in asked THEN ReadFile(memo)[f] ELSE memo[f]]
      /\ \A f \in Files : m[f] = IF f \in asked THEN ReadFile(memo)[f] ELSE memo[f]
  BY DEF Remember
<1>3. \A f \in Files : sources[f] \in Texts[f] /\ (memo[f] = Unread \/ memo[f] \in Texts[f])
                       /\ sources[f] \in Contents /\ memo[f] \in Contents
  BY DEF SessionTypes, ReadSoFar
<1>4. \A f \in Files : ReadFile(memo)[f] \in Texts[f] /\ ReadFile(memo)[f] \in Contents
  BY <1>1, <1>3
<1>5. \A f \in Files : Unread \notin Texts[f] BY SessionAssumption
<1>6. m \in [Files -> Contents] BY <1>2, <1>3, <1>4
<1> QED BY <1>1, <1>2, <1>3, <1>4, <1>5, <1>6 DEF ReadSoFar

\* A step of one compile leaves the others where they were.
LEMMA OthersStay ==
  ASSUME SessionInv, Onwards, NEW e \in Entries, CompileIs(e)',
         \A o \in Files : o # e => progress'[o] = progress[o] /\ outcome'[o] = outcome[o]
  PROVE  CompilesAre'
<1>1. Entries' = Entries BY DEF Onwards, Entries
<1>2. Entries \subseteq Files BY PlanTypes DEF SessionInv, SessionTypes
<1>3. SessionTypes /\ \A o \in Entries : CompileIs(o) BY DEF SessionInv, CompilesAre
<1>4. ASSUME NEW o \in Entries PROVE CompileIs(o)'
  <2>1. CASE o = e BY <2>1
  <2>2. CASE o # e
    <3>1. progress'[o] = progress[o] /\ outcome'[o] = outcome[o] BY <1>2, <2>2
    <3> QED BY <1>3, <3>1, CompileStays
  <2> QED BY <2>1, <2>2
<1> QED BY <1>1, <1>4 DEF CompilesAre

LEMMA ReadKeeps ==
  ASSUME SessionInv, NEW e \in Entries, Read(e) PROVE SessionInv'
<1> DEFINE text == ReadFile(memo)[e]
<1>1. /\ progress[e] = "read" /\ memo' = Remember(memo, {e})
      /\ outcome' = [outcome EXCEPT ![e].text = text,
                       ![e].stage = IF text = Missing THEN "read" ELSE "none"]
      /\ progress' = [progress EXCEPT ![e] = IF text = Missing THEN "done" ELSE "parse"]
      /\ plan' = plan /\ sources' = sources /\ loaded' = loaded /\ groups' = groups
      /\ pieces' = pieces /\ linked' = linked /\ programs' = programs /\ mangled' = mangled
      /\ finished' = finished
  BY DEF Read, sourceVars, onceVars, attribution
<1>2. SessionTypes /\ SessionHolds /\ CompileIs(e) /\ LinkedOnce BY DEF SessionInv, CompilesAre
<1>3. e \in Files /\ Entries' = Entries
  BY <1>1, <1>2, PlanTypes DEF SessionTypes, Entries
<1>4. /\ memo' \in [Files -> Contents] /\ ReadSoFar(memo')
      /\ \A f \in Files : memo[f] # Unread => memo'[f] = memo[f]
      /\ memo'[e] = text /\ memo'[e] # Unread /\ text \in Texts[e]
  <2>1. /\ memo' \in [Files -> Contents] /\ ReadSoFar(memo')
        /\ \A f \in Files : memo[f] # Unread => memo'[f] = memo[f]
        /\ \A f \in Files : f \in {e} => memo'[f] = ReadFile(memo)[f] /\ memo'[f] # Unread
        /\ \A f \in Files : ReadFile(memo)[f] \in Texts[f]
    BY <1>1, <1>2, RememberIs
  <2> QED BY <1>3, <2>1
<1> HIDE DEF text
<1>5. outcome[e] = NoOutcome BY <1>1, <1>2 DEF CompileIs
<1>6. /\ outcome'[e].text = text
      /\ outcome'[e].stage = IF text = Missing THEN "read" ELSE "none"
      /\ outcome'[e].modules = outcome[e].modules
      /\ \A o \in Files : o # e => outcome'[o] = outcome[o]
      /\ outcome' \in [Files -> [text : Contents, modules : Seq(Files), stage : Stages]]
  <2>1. text \in Contents BY <1>3, <1>4 DEF Contents
  <2>2. (IF text = Missing THEN "read" ELSE "none") \in Stages BY DEF Stages
  <2> DEFINE stage == IF text = Missing THEN "read" ELSE "none"
  <2>3. outcome' = [outcome EXCEPT ![e].text = text, ![e].stage = stage] BY <1>1
  <2>4. stage \in Stages BY <2>2
  <2> HIDE DEF stage
  <2>5. outcome \in [Files -> [text : Contents, modules : Seq(Files), stage : Stages]]
    BY <1>2 DEF SessionTypes
  <2>6. /\ outcome'[e].text = text /\ outcome'[e].stage = stage
        /\ outcome'[e].modules = outcome[e].modules
        /\ \A o \in Files : o # e => outcome'[o] = outcome[o]
        /\ outcome' \in [Files -> [text : Contents, modules : Seq(Files), stage : Stages]]
    BY <1>3, <2>1, <2>3, <2>4, <2>5
  <2> QED BY <2>6 DEF stage
<1>7. /\ progress'[e] = (IF text = Missing THEN "done" ELSE "parse")
      /\ \A o \in Files : o # e => progress'[o] = progress[o]
      /\ progress' \in [Files -> {"none", "read", "parse", "enrich", "emit", "done"}]
  BY <1>1, <1>2, <1>3 DEF SessionTypes
<1>8. SessionTypes' BY <1>1, <1>2, <1>4, <1>6, <1>7 DEF SessionTypes, ReadSoFar
<1>9. loaded => memo' = memo
  <2> SUFFICES ASSUME loaded PROVE memo' = memo OBVIOUS
  <2>1. memo[e] # Unread BY <1>2 DEF SessionHolds, Held
  <2>2. \A f \in Files : memo'[f] = memo[f]
    <3>1. memo' = [f \in Files |-> IF f \in {e} THEN ReadFile(memo)[f] ELSE memo[f]]
      BY <1>1 DEF Remember
    <3>2. ReadFile(memo)[e] = memo[e] BY <1>3, <2>1 DEF ReadFile
    <3> QED BY <3>1, <3>2
  <2>3. memo \in [Files -> Contents] BY <1>2 DEF SessionTypes
  <2> QED BY <1>4, <2>2, <2>3
<1>10. Onwards BY <1>1, <1>4, <1>9 DEF Onwards
<1>11. SessionHolds' BY <1>1, <1>2, <1>3, <1>9 DEF SessionHolds
<1>12. CompileIs(e)'
  <2>1. outcome[e].modules = <<>> BY <1>5 DEF NoOutcome
  <2> QED BY <1>4, <1>6, <1>7, <2>1 DEF CompileIs, Failed
<1>13. CompilesAre' BY <1>6, <1>7, <1>10, <1>12, OthersStay
<1>14. LinkedOnce' BY <1>1, <1>2 DEF LinkedOnce
<1>15. ~finished BY <1>1 DEF SessionInv, Attributed
<1> QED BY <1>1, <1>8, <1>11, <1>13, <1>14, <1>15 DEF SessionInv, Attributed

LEMMA LoadKeeps ==
  ASSUME SessionInv, Load, plan' = plan
  PROVE  /\ loaded' /\ Held(Entries, memo', groups', pieces')
         /\ memo' \in [Files -> Contents] /\ ReadSoFar(memo')
         /\ Onwards /\ linked \subseteq pieces'
<1>1. SessionTypes /\ SessionHolds /\ linked \subseteq pieces BY DEF SessionInv, LinkedOnce
<1>2. CASE loaded
  <2>1. loaded' = loaded /\ memo' = memo /\ groups' = groups /\ pieces' = pieces
    BY <1>2 DEF Load, sessionVars
  <2>2. Held(Entries, memo, groups, pieces) /\ memo \in [Files -> Contents] /\ ReadSoFar(memo)
    BY <1>1, <1>2 DEF SessionHolds, SessionTypes
  <2>3. Onwards BY <2>1 DEF Onwards
  <2> QED BY <1>1, <1>2, <2>1, <2>2, <2>3
<1>3. CASE ~loaded
  <2> DEFINE texts == ReadFile(memo)
             asked == UNION {Asked(texts, e) : e \in Entries}
  <2>1. /\ loaded' = TRUE /\ memo' = Remember(memo, asked)
        /\ groups' = LoadAll(texts).groups /\ pieces' = AssignComponents(LoadAll(texts))
    BY <1>3 DEF Load
  <2> HIDE DEF asked
  <2>2. /\ memo' \in [Files -> Contents] /\ ReadSoFar(memo')
        /\ \A f \in Files : memo[f] # Unread => memo'[f] = memo[f]
        /\ \A f \in Files : f \in asked => memo'[f] = texts[f]
        /\ \A f \in Files : texts[f] \in Texts[f]
    BY <1>1, <2>1, RememberIs
  <2>3. plan \in Seq(Files) /\ Entries = ToSet(plan) BY <1>1, PlanTypes DEF SessionTypes
  <2>4. \A f \in UNION {Asked(texts, e) : e \in Entries} : f \in Files => memo'[f] = texts[f]
    BY <2>2 DEF asked
  <2> HIDE DEF texts
  <2>5. Held(Entries, memo', LoadAll(texts).groups, AssignComponents(LoadAll(texts)))
    BY <2>2, <2>3, <2>4, LoadHolds
  <2>6. Onwards BY <1>3, <2>2 DEF Onwards
  <2>7. pieces = {} BY <1>1, <1>3 DEF SessionHolds
  <2> QED BY <1>1, <2>1, <2>2, <2>5, <2>6, <2>7
<1> QED BY <1>2, <1>3

\* Nothing is reported before everything is done.
LEMMA StillUnderway ==
  ASSUME SessionInv, NEW e \in Entries, progress[e] # "done", finished' = finished
  PROVE  ~finished /\ ~finished'
BY DEF SessionInv, Attributed

LEMMA ParseKeeps ==
  ASSUME SessionInv, NEW e \in Entries, Parse(e) PROVE SessionInv'
<1> DEFINE modules == ReachableModules(e)'
           broken == \E i \in DOMAIN modules : HasErrors(memo', modules[i])
           stage == IF broken THEN "parse" ELSE "none"
           next == IF broken THEN "done" ELSE "enrich"
<1>1. /\ progress[e] = "parse" /\ Load
      /\ outcome' = [outcome EXCEPT ![e].modules = modules, ![e].stage = stage]
      /\ progress' = [progress EXCEPT ![e] = next]
      /\ plan' = plan /\ sources' = sources /\ linked' = linked /\ programs' = programs
      /\ mangled' = mangled /\ finished' = finished
  BY DEF Parse, sourceVars, onceVars, attribution
<1>2. stage \in {"parse", "none"} /\ next \in {"done", "enrich"} OBVIOUS
<1>3. modules = ModulesIn(memo', groups', pieces', e)
  BY DEF ReachableModules, ModulesIn, PieceOf, PieceIn
<1> HIDE DEF modules, stage, next
<1>4. SessionTypes /\ CompileIs(e) /\ LinkedOnce BY DEF SessionInv, CompilesAre
<1>5. /\ loaded' /\ Held(Entries, memo', groups', pieces')
      /\ memo' \in [Files -> Contents] /\ ReadSoFar(memo')
      /\ Onwards /\ linked \subseteq pieces'
  BY <1>1, LoadKeeps
<1>6. Entries \in SUBSET Files /\ e \in Files /\ Entries' = Entries
  BY <1>1, <1>4, PlanTypes DEF SessionTypes, Entries
<1>7. memo[e] # Missing /\ memo[e] # Unread /\ outcome[e].text = memo[e]
  BY <1>1, <1>4 DEF CompileIs
<1>8. memo'[e] = memo[e] BY <1>5, <1>6, <1>7 DEF Onwards
<1>9. modules \in Seq(Files)
  <2>1. memo'[e] # Missing BY <1>7, <1>8
  <2> QED BY <1>3, <1>5, <1>6, <2>1, ModulesAre
<1>10. /\ outcome'[e].text = outcome[e].text /\ outcome'[e].stage = stage
       /\ outcome'[e].modules = modules
       /\ \A o \in Files : o # e => outcome'[o] = outcome[o]
       /\ outcome' \in [Files -> [text : Contents, modules : Seq(Files), stage : Stages]]
  <2>1. stage \in Stages BY <1>2 DEF Stages
  <2>2. outcome \in [Files -> [text : Contents, modules : Seq(Files), stage : Stages]]
    BY <1>4 DEF SessionTypes
  <2> QED BY <1>1, <1>6, <1>9, <2>1, <2>2
<1>11. /\ progress'[e] = next
       /\ \A o \in Files : o # e => progress'[o] = progress[o]
       /\ progress' \in [Files -> {"none", "read", "parse", "enrich", "emit", "done"}]
  BY <1>1, <1>2, <1>4, <1>6 DEF SessionTypes
<1>12. SessionTypes' BY <1>1, <1>4, <1>5, <1>10, <1>11 DEF SessionTypes, ReadSoFar
<1>13. SessionHolds' BY <1>5, <1>6 DEF SessionHolds
<1>14. Parsed(e)'
  <2>1. memo'[e] # Missing BY <1>7, <1>8
  <2>2. stage # "read" BY <1>2
  <2> QED BY <1>5, <1>10, <2>1, <2>2 DEF Parsed, modules
<1>15. CompileIs(e)' BY <1>2, <1>7, <1>8, <1>10, <1>11, <1>14 DEF CompileIs
<1>16. CompilesAre' BY <1>5, <1>10, <1>11, <1>15, OthersStay
<1>17. LinkedOnce' BY <1>1, <1>4, <1>5 DEF LinkedOnce
<1>18. ~finished' BY <1>1, StillUnderway
<1> QED BY <1>12, <1>13, <1>16, <1>17, <1>18 DEF SessionInv, Attributed

\* A step that moves a parsed compile on, and writes nothing it has read.
LEMMA MovesOn ==
  ASSUME SessionInv, NEW e \in Entries, progress[e] \in {"enrich", "emit"},
         NEW next \in {"emit", "done"}, progress' = [progress EXCEPT ![e] = next],
         sources' = sources, plan' = plan, memo' = memo, loaded' = loaded, groups' = groups,
         pieces' = pieces, outcome' = outcome, finished' = finished
  PROVE  SessionTypes' /\ SessionHolds' /\ CompilesAre' /\ Attributed'
<1>1. SessionTypes /\ SessionHolds /\ CompileIs(e) BY DEF SessionInv, CompilesAre
<1>2. e \in Files /\ Entries' = Entries BY <1>1, PlanTypes DEF SessionTypes, Entries
<1>3. /\ progress'[e] = next
      /\ \A o \in Files : o # e => progress'[o] = progress[o]
      /\ progress' \in [Files -> {"none", "read", "parse", "enrich", "emit", "done"}]
  BY <1>1, <1>2 DEF SessionTypes
<1>4. SessionTypes' BY <1>1, <1>3 DEF SessionTypes, ReadSoFar
<1>5. SessionHolds' BY <1>1, <1>2 DEF SessionHolds
<1>6. Onwards BY DEF Onwards
<1>7. Parsed(e) /\ outcome[e].text = memo[e] /\ memo[e] # Unread BY <1>1 DEF CompileIs
<1>8. ReachableModules(e)' = ReachableModules(e)
  <2>1. ReachableModules(e) = ModulesIn(memo, groups, pieces, e) BY ReachableModulesIs
  <2>2. ReachableModules(e)' = ModulesIn(memo', groups', pieces', e)
    BY DEF ReachableModules, ModulesIn, PieceOf, PieceIn
  <2> QED BY <2>1, <2>2
<1>9. Parsed(e)' BY <1>7, <1>8 DEF Parsed
<1>10. CompileIs(e)' BY <1>3, <1>7, <1>9 DEF CompileIs
<1>11. CompilesAre' BY <1>3, <1>6, <1>10, OthersStay
<1>12. ~finished' BY StillUnderway
<1> QED BY <1>4, <1>5, <1>11, <1>12 DEF Attributed

LEMMA EnrichKeeps ==
  ASSUME SessionInv, NEW e \in Entries, Enrich(e) PROVE SessionInv'
<1> DEFINE piece == PieceOf(e)
<1>1. /\ progress[e] = "enrich" /\ progress' = [progress EXCEPT ![e] = "emit"]
      /\ sources' = sources /\ plan' = plan /\ memo' = memo /\ loaded' = loaded
      /\ groups' = groups /\ pieces' = pieces /\ outcome' = outcome /\ mangled' = mangled
      /\ finished' = finished
      /\ IF piece \in linked THEN linked' = linked /\ programs' = programs
         ELSE /\ linked' = linked \cup {piece}
              /\ programs' = [f \in Files |-> programs[f] + IF f \in piece THEN 1 ELSE 0]
  BY DEF Enrich, IsLinked, sourceVars, sessionVars, attribution
<1>2. SessionTypes' /\ SessionHolds' /\ CompilesAre' /\ Attributed' BY <1>1, MovesOn
<1>3. SessionTypes /\ SessionHolds /\ CompileIs(e) /\ LinkedOnce BY DEF SessionInv, CompilesAre
<1>4. Parsed(e) BY <1>1, <1>3 DEF CompileIs
<1>5. piece \in pieces BY <1>3, <1>4, ParsedModules
<1>6. \A p, q \in pieces : p # q => p \cap q = {}
  <2>1. Held(Entries, memo, groups, pieces) BY <1>3, <1>4 DEF SessionHolds, Parsed
  <2> QED BY <2>1 DEF Held, Parted
<1> HIDE DEF piece
<1>7. /\ linked \subseteq pieces
      /\ programs \in [Files -> Nat] /\ mangled \in [Files -> Nat]
      /\ \A f \in Files : programs[f] = IF f \in UNION linked THEN 1 ELSE 0
      /\ \A f \in Files : mangled[f] <= 1
  BY <1>3 DEF LinkedOnce
<1>8. LinkedOnce'
  <2>1. CASE piece \in linked BY <1>1, <1>7, <2>1 DEF LinkedOnce
  <2>2. CASE piece \notin linked
    <3>1. linked' = linked \cup {piece} /\ linked' \subseteq pieces' BY <1>1, <1>5, <1>7, <2>2
    <3>2. \A f \in Files : programs'[f] = programs[f] + IF f \in piece THEN 1 ELSE 0
      BY <1>1, <2>2
    <3>3. programs' \in [Files -> Nat]
      <4>1. \A f \in Files : programs[f] + (IF f \in piece THEN 1 ELSE 0) \in Nat BY <1>7
      <4> QED BY <1>1, <2>2, <4>1
    <3>4. piece \cap UNION linked = {} BY <1>5, <1>6, <1>7, <2>2
    <3>5. ASSUME NEW f \in Files PROVE programs'[f] = IF f \in UNION linked' THEN 1 ELSE 0
      <4>1. f \in UNION linked' <=> f \in UNION linked \/ f \in piece BY <3>1
      <4>2. programs[f] = IF f \in UNION linked THEN 1 ELSE 0 BY <1>7
      <4>3. ~(f \in piece /\ f \in UNION linked) BY <3>4
      <4> HIDE DEF piece
      <4> QED BY <3>2, <4>1, <4>2, <4>3
    <3> QED BY <1>1, <1>7, <3>1, <3>3, <3>5 DEF LinkedOnce
  <2> QED BY <2>1, <2>2
<1> QED BY <1>2, <1>8 DEF SessionInv

LEMMA SkipKeeps ==
  ASSUME SessionInv, NEW e \in Entries, Skip(e) PROVE SessionInv'
<1>1. /\ progress[e] = "emit" /\ progress' = [progress EXCEPT ![e] = "done"]
      /\ sources' = sources /\ plan' = plan /\ memo' = memo /\ loaded' = loaded
      /\ groups' = groups /\ pieces' = pieces /\ outcome' = outcome /\ mangled' = mangled
      /\ finished' = finished /\ linked' = linked /\ programs' = programs
  BY DEF Skip, sourceVars, sessionVars, onceVars, attribution
<1>2. SessionTypes' /\ SessionHolds' /\ CompilesAre' /\ Attributed' BY <1>1, MovesOn
<1>3. LinkedOnce' BY <1>1 DEF SessionInv, LinkedOnce
<1> QED BY <1>2, <1>3 DEF SessionInv

LEMMA BundleKeeps ==
  ASSUME SessionInv, NEW e \in Entries, Bundle(e) PROVE SessionInv'
<1>1. /\ progress[e] = "emit" /\ progress' = [progress EXCEPT ![e] = "done"]
      /\ sources' = sources /\ plan' = plan /\ memo' = memo /\ loaded' = loaded
      /\ groups' = groups /\ pieces' = pieces /\ outcome' = outcome
      /\ finished' = finished /\ linked' = linked /\ programs' = programs
      /\ mangled' = [f \in Files |-> mangled[f] + IF f \in NotSimplified(e) THEN 1 ELSE 0]
  BY DEF Bundle, sourceVars, sessionVars, attribution
<1>2. SessionTypes' /\ SessionHolds' /\ CompilesAre' /\ Attributed' BY <1>1, MovesOn
<1>3. /\ linked \subseteq pieces
      /\ programs \in [Files -> Nat] /\ mangled \in [Files -> Nat]
      /\ \A f \in Files : programs[f] = IF f \in UNION linked THEN 1 ELSE 0
      /\ \A f \in Files : mangled[f] <= 1
  BY DEF SessionInv, LinkedOnce
<1>4. \A f \in Files : f \in NotSimplified(e) => mangled[f] = 0 BY DEF NotSimplified
<1>5. \A f \in Files : mangled'[f] \in Nat /\ mangled'[f] <= 1 BY <1>1, <1>3, <1>4
<1>6. mangled' \in [Files -> Nat] BY <1>1, <1>5
<1>7. LinkedOnce' BY <1>1, <1>3, <1>5, <1>6 DEF LinkedOnce
<1> QED BY <1>2, <1>7 DEF SessionInv

LEMMA AttributeKeeps ==
  ASSUME SessionInv, Attribute PROVE SessionInv'
<1>1. /\ \A e \in Entries : progress[e] = "done"
      /\ finished' = TRUE /\ owners' = Owners
      /\ sources' = sources /\ plan' = plan /\ memo' = memo /\ loaded' = loaded
      /\ groups' = groups /\ pieces' = pieces /\ outcome' = outcome /\ progress' = progress
      /\ linked' = linked /\ programs' = programs /\ mangled' = mangled
  BY DEF Attribute, sourceVars, sessionVars, onceVars
<1>2. SessionTypes /\ SessionHolds /\ CompilesAre /\ LinkedOnce BY DEF SessionInv
<1>3. Entries' = Entries BY <1>1 DEF Entries
<1>4. SessionTypes' BY <1>1, <1>2 DEF SessionTypes, ReadSoFar
<1>5. SessionHolds' BY <1>1, <1>2, <1>3 DEF SessionHolds
<1>6. CompilesAre'
  <2>1. Onwards BY <1>1 DEF Onwards
  <2>2. \A e \in Entries : CompileIs(e)' BY <1>1, <1>2, <2>1, CompileStays DEF CompilesAre
  <2> QED BY <1>3, <2>2 DEF CompilesAre
<1>7. LinkedOnce' BY <1>1, <1>2 DEF LinkedOnce
<1>8. /\ \A e \in Entries : \A f \in ToSet(Modules(e)) :
           f \in DOMAIN owners' /\ owners'[f] \in Entries /\ f \in ToSet(Modules(owners'[f]))
      /\ \A e \in Entries : CycleOf(Known, e) = {e} /\ Modules(e) # <<>> => owners'[e] = e
  BY <1>1, <1>2, OwnersReport
<1>9. EveryFileReported'
  <2>1. \A e \in Entries : \A f \in ToSet(outcome[e].modules) :
          f \in DOMAIN owners' /\ f \in ToSet(outcome[owners'[f]].modules)
    BY <1>8 DEF Modules
  <2> QED BY <1>1, <1>3, <2>1 DEF EveryFileReported, Modules
<1>10. EntryReportsItself'
  <2>1. Known' = Known BY <1>1 DEF Known
  <2>2. \A e \in Entries : CycleOf(Known, e) = {e} /\ outcome[e].modules # <<>> => owners'[e] = e
    BY <1>8 DEF Modules
  <2> QED BY <1>1, <1>3, <2>1, <2>2 DEF EntryReportsItself, ReportsItself, Modules
<1>11. Attributed' BY <1>1, <1>3, <1>9, <1>10 DEF Attributed, FilesAreReported
<1> QED BY <1>4, <1>5, <1>6, <1>7, <1>11 DEF SessionInv

LEMMA SessionStutters ==
  ASSUME SessionInv, UNCHANGED runVars PROVE SessionInv'
<1>1. /\ sources' = sources /\ plan' = plan /\ memo' = memo /\ loaded' = loaded
      /\ groups' = groups /\ pieces' = pieces /\ outcome' = outcome /\ progress' = progress
      /\ linked' = linked /\ programs' = programs /\ mangled' = mangled
      /\ finished' = finished /\ owners' = owners
  BY DEF runVars, sourceVars, sessionVars, onceVars
<1>2. SessionTypes /\ SessionHolds /\ CompilesAre /\ LinkedOnce /\ Attributed BY DEF SessionInv
<1>3. Entries' = Entries BY <1>1 DEF Entries
<1>4. SessionTypes' BY <1>1, <1>2 DEF SessionTypes, ReadSoFar
<1>5. SessionHolds' BY <1>1, <1>2, <1>3 DEF SessionHolds
<1>6. CompilesAre'
  <2>1. Onwards BY <1>1 DEF Onwards
  <2>2. \A e \in Entries : CompileIs(e)' BY <1>1, <1>2, <2>1, CompileStays DEF CompilesAre
  <2> QED BY <1>3, <2>2 DEF CompilesAre
<1>7. LinkedOnce' BY <1>1, <1>2 DEF LinkedOnce
<1>8. Attributed'
  <2>1. Known' = Known BY <1>1 DEF Known
  <2> QED BY <1>1, <1>2, <1>3, <2>1
          DEF Attributed, FilesAreReported, EveryFileReported, EntryReportsItself, ReportsItself,
              Modules
<1> QED BY <1>4, <1>5, <1>6, <1>7, <1>8 DEF SessionInv

\* Every step of a run keeps the invariant.
THEOREM SessionInvariant == SessionSpec => []SessionInv
<1>1. ASSUME SessionInv, [SessionNext]_runVars PROVE SessionInv'
  <2>1. CASE UNCHANGED runVars BY <1>1, <2>1, SessionStutters
  <2>2. ASSUME NEW f \in Files, Edit(f) PROVE SessionInv' BY <1>1, <2>2, EditKeeps
  <2>3. ASSUME NEW e \in Entries, Read(e) PROVE SessionInv' BY <1>1, <2>3, ReadKeeps
  <2>4. ASSUME NEW e \in Entries, Parse(e) PROVE SessionInv' BY <1>1, <2>4, ParseKeeps
  <2>5. ASSUME NEW e \in Entries, Enrich(e) PROVE SessionInv' BY <1>1, <2>5, EnrichKeeps
  <2>6. ASSUME NEW e \in Entries, Skip(e) PROVE SessionInv' BY <1>1, <2>6, SkipKeeps
  <2>7. ASSUME NEW e \in Entries, Bundle(e) PROVE SessionInv' BY <1>1, <2>7, BundleKeeps
  <2>8. CASE Attribute BY <1>1, <2>8, AttributeKeeps
  <2> QED BY <1>1, <2>1, <2>2, <2>3, <2>4, <2>5, <2>6, <2>7, <2>8 DEF SessionNext
<1> QED BY <1>1, SessionStarts, PTL DEF SessionSpec

\* What an outcome lists, so far: nothing, or what its compile parsed.
LEMMA ListedIsParsed ==
  ASSUME SessionInv, NEW e \in Entries
  PROVE  Modules(e) = <<>> \/ Parsed(e)
<1>1. CompileIs(e) /\ SessionTypes BY DEF SessionInv, CompilesAre
<1>2. e \in Files BY <1>1, PlanTypes DEF SessionTypes
<1>3. progress[e] \in {"none", "read", "parse", "enrich", "emit", "done"}
  BY <1>1, <1>2 DEF SessionTypes
<1>4. NoOutcome.modules = <<>> BY DEF NoOutcome
<1> QED BY <1>1, <1>3, <1>4 DEF CompileIs, Failed, Modules

LEMMA HeldKnown ==
  ASSUME SessionInv
  PROVE  /\ WellGrouped(Known, groups) /\ Parted(Known, pieces, Members(groups))
         /\ Members(groups) \subseteq Files
         /\ \A f \in Members(groups) : memo[f] # Missing
<1>1. WellGrouped(Known, groups) /\ Parted(Known, pieces, Members(groups))
  <2>1. SessionHolds BY DEF SessionInv
  <2>2. CASE loaded BY <2>1, <2>2, KnownIs DEF SessionHolds, Held
  <2>3. CASE ~loaded
    <3>1. groups = <<>> /\ pieces = {} BY <2>1, <2>3 DEF SessionHolds
    <3>2. WellGrouped(Known, <<>>) /\ Members(<<>>) = {} BY NoGroups
    <3>3. Parted(Known, {}, {}) BY DEF Parted
    <3> QED BY <3>1, <3>2, <3>3
  <2> QED BY <2>2, <2>3
<1>2. Members(groups) \subseteq Files BY <1>1, WellGroupedClosed
<1>3. \A f \in Members(groups) : Known[f] # Missing BY <1>1 DEF WellGrouped
<1>4. \A f \in Files : Known[f] = IF memo[f] = Unread THEN Missing ELSE memo[f] BY DEF Known
<1> QED BY <1>1, <1>2, <1>3, <1>4

LEMMA InvMakesWorkOnce ==
  ASSUME SessionInv PROVE WorkIsDoneOnce
<1>1. SessionTypes /\ SessionHolds /\ LinkedOnce /\ \A e \in Entries : CompileIs(e)
  BY DEF SessionInv, CompilesAre
<1>2. Entries \subseteq Files BY <1>1, PlanTypes DEF SessionTypes
<1>3. ASSUME NEW e \in Entries, outcome[e].text # Unread PROVE outcome[e].text = memo[e]
  <2>1. NoOutcome.text = Unread BY DEF NoOutcome
  <2> QED BY <1>1, <1>3, <2>1 DEF CompileIs
<1>4. ASSUME NEW e \in Entries, outcome[e].stage = "read", NEW o \in Entries
      PROVE  e \notin ToSet(Modules(o))
  <2>1. memo[e] = Missing
    <3>1. NoOutcome.stage # "read" BY DEF NoOutcome
    <3>2. progress[e] \in {"none", "read", "parse", "enrich", "emit", "done"}
      BY <1>1, <1>2 DEF SessionTypes
    <3> QED BY <1>1, <1>4, <3>1, <3>2 DEF CompileIs, Parsed, Failed
  <2>2. CASE Modules(o) = <<>>
    <3>1. ToSet(<<>>) = {} BY DEF ToSet
    <3> QED BY <2>2, <3>1
  <2>3. CASE Parsed(o)
    <3>1. ToSet(Modules(o)) \subseteq Members(groups) BY <1>1, <2>3, ParsedModules
    <3> QED BY <2>1, <3>1, HeldKnown
  <2> QED BY <2>2, <2>3, ListedIsParsed
<1>5. OneAnswerPerFile BY <1>3, <1>4 DEF OneAnswerPerFile
<1>6. EachProgramOnce
  <2>1. \A f \in Files : programs[f] <= 1 BY <1>1 DEF LinkedOnce
  <2> QED BY <1>1, <2>1 DEF LinkedOnce, EachProgramOnce
<1> QED BY <1>5, <1>6 DEF WorkIsDoneOnce

LEMMA InvMakesOrder ==
  ASSUME SessionInv PROVE GroupsInOrder
<1>1. WellGrouped(Known, groups) /\ Parted(Known, pieces, Members(groups)) BY HeldKnown
<1>2. GroupsAreCycles BY <1>1 DEF GroupsAreCycles, WellGrouped
<1>3. PiecesAreClosed BY <1>1 DEF PiecesAreClosed, Parted
<1>4. ASSUME NEW e \in Entries, NEW i \in DOMAIN Modules(e), NEW j \in DOMAIN Modules(e),
             i < j, Modules(e)[j] \in Dependencies(Known, Modules(e)[i])
      PROVE  Cyclic(Known, Modules(e)[i], Modules(e)[j])
  <2>1. Modules(e) # <<>> BY <1>4
  <2>2. Parsed(e) BY <2>1, ListedIsParsed
  <2>3. SessionTypes /\ SessionHolds BY DEF SessionInv
  <2> QED BY <1>4, <2>2, <2>3, ParsedModules
<1>5. DependencyFirst BY <1>4 DEF DependencyFirst
<1> QED BY <1>2, <1>3, <1>5 DEF GroupsInOrder

LEMMA InvMakesWhole ==
  ASSUME SessionInv PROVE OutcomesAreWhole
<1>1. SessionTypes /\ SessionHolds /\ Attributed /\ \A e \in Entries : CompileIs(e)
  BY DEF SessionInv, CompilesAre
<1>2. ASSUME finished, NEW e \in Entries, memo[e] # Missing
      PROVE  ToSet(Modules(e)) = Reachable(Known, e) /\ IsInjective(Modules(e))
  <2>1. progress[e] = "done" BY <1>1, <1>2 DEF Attributed
  <2>2. Parsed(e) BY <1>1, <1>2, <2>1 DEF CompileIs, Failed
  <2> QED BY <1>1, <2>2, ParsedModules
<1>3. OutcomeIsWhatItReaches BY <1>2 DEF OutcomeIsWhatItReaches
<1>4. FilesAreReported
  BY <1>1 DEF Attributed, FilesAreReported, EveryFileReported, EntryReportsItself
<1> QED BY <1>3, <1>4 DEF OutcomesAreWhole

\* One read, one link and one simplification of a file for a whole run, whatever
\* its entries share and whenever files are saved (session.ts).
THEOREM EverythingOnce == SessionSpec => []WorkIsDoneOnce
<1>1. SessionInv => WorkIsDoneOnce BY InvMakesWorkOnce
<1> QED BY <1>1, SessionInvariant, PTL

\* What the Session holds is partitioned and ordered as its graphs ask for,
\* however they overlap (mergeGraph, assignComponents).
THEOREM HeldInOrder == SessionSpec => []GroupsInOrder
<1>1. SessionInv => GroupsInOrder BY InvMakesOrder
<1> QED BY <1>1, SessionInvariant, PTL

\* Every outcome is what its entry reaches, and every file of the run is reported
\* by one that has it (reachableModules, attributeDiagnostics).
THEOREM ReportsAreWhole == SessionSpec => []OutcomesAreWhole
<1>1. SessionInv => OutcomesAreWhole BY InvMakesWhole
<1> QED BY <1>1, SessionInvariant, PTL
=============================================================================
