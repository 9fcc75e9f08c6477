----------------------------- MODULE BundleCache -----------------------------
(***************************************************************************)
(* The content-addressed store of emitted bundles                          *)
(* (packages/cli/src/cache.ts over writeAtomic of                          *)
(* packages/compiler/src/cache/index.ts), as compileFile uses it.          *)
(*                                                                         *)
(* Several compiles share one directory: of one `esc`, of its workers, of  *)
(* an `esc` beside it.  Every call into the file system is one action, and *)
(* a compile may stop for good between any two of them.  The bytes of a    *)
(* bundle are a function of its key; a file here is whole or half written. *)
(***************************************************************************)
EXTENDS Integers, FiniteSets, Sequences

CONSTANTS
  Process,      \* compiles that may be underway at once
  Key,          \* the graphs compiled, as bundleKey hashes them
  Mapped,       \* those built with a linked source map
  Loud,         \* those whose emit has Diagnostics of its own
  NoProcess, NoKey, Absent,
  Kept,         \* KEPT_BUNDLES
  Before,       \* the keys earlier sessions have left bundles of, oldest first
  MaxCompiles,  \* bound: how many compiles begin
  MaxFaults     \* bound: how many of them are cut short

\* `modified` is the time of the last write: no two are the same.
Content == [whole : BOOLEAN, modified : Nat]

ASSUME CacheAssumption ==
  /\ Mapped \subseteq Key /\ Loud \subseteq Key
  /\ NoProcess \notin Process /\ NoKey \notin Key /\ Absent \notin Content
  /\ Before \in Seq(Key \ Loud)
  /\ Kept \in Nat \ {0} /\ MaxCompiles \in Nat /\ MaxFaults \in Nat

\* A name in the directory. A temporary one carries the process that writes it.
File == [key : Key, kind : {"bundle", "map", "scratch"},
         writer : Process \cup {NoProcess}]
Final(k, kind) == [key |-> k, kind |-> kind, writer |-> NoProcess]
BundleFile(k) == Final(k, "bundle")
MapFile(k) == Final(k, "map")
ScratchFile(k) == Final(k, "scratch")
\* Mutant: bundles are written under the name they are read under.
TemporaryIsFinal(f, p) == f
TemporaryPath(f, p) == [f EXCEPT !.writer = p]

VARIABLES
  disk,      \* per file: its Content, or Absent
  clock,     \* the time of the latest write
  pc,        \* per process: what its compile does next
  key,       \* per process: the key it compiles
  runs,      \* the processes that spawn what they compile (outputFileName null)
  target,    \* per process: the kind of file it is writing
  seen,      \* per process: what readBundle has got hold of
  listed,    \* per process: what prune found in the directory
  doomed,    \* per process: what prune has yet to remove, dated
  current,   \* per process: the file its prune is removing
  begun,     \* how many compiles have begun
  faults,    \* how many were cut short
  alone,     \* the process whose compile has had the directory to itself
  evicted    \* the keys whose bundle a prune has removed

fileVars == <<disk, clock>>
pruneVars == <<listed, doomed, current>>
boundVars == <<begun, faults>>
ghosts == <<alone, evicted>>
vars == <<disk, clock, pc, key, runs, target, seen, listed, doomed,
          current, begun, faults, alone, evicted>>

On(f) == disk[f] # Absent
\* What readdir answers with under `.mjs`: neither maps nor temporary names.
Listing == {f \in File : /\ On(f)
                         /\ f.kind \in {"bundle", "scratch"}
                         /\ f.writer = NoProcess}

Goto(p, l) == pc' = [pc EXCEPT ![p] = l]
At(p, l) == pc[p] = l

\* What the write of a key leaves in the directory.
Leaves(k) == {BundleFile(k)} \cup (IF k \in Mapped THEN {MapFile(k)} ELSE {})
LeftBy(f) == {i \in DOMAIN Before : f \in Leaves(Before[i])}
Left(f) == [whole |-> TRUE, modified |-> CHOOSE i \in LeftBy(f) : TRUE]

Init ==
  /\ disk = [f \in File |-> IF LeftBy(f) = {} THEN Absent ELSE Left(f)]
  /\ clock = Len(Before)
  /\ pc = [p \in Process |-> "idle"]
  /\ key = [p \in Process |-> NoKey]
  /\ runs = {}
  /\ target = [p \in Process |-> "bundle"]
  /\ seen = [p \in Process |-> "nothing"]
  /\ listed = [p \in Process |-> {}]
  /\ doomed = [p \in Process |-> {}]
  /\ current = [p \in Process |-> Absent]
  /\ begun = 0 /\ faults = 0
  /\ alone = {} /\ evicted = {}

-----------------------------------------------------------------------------
(* readBundle: a miss, a half pair and a directory out of reach are the same *)

\* A compile is past validation, with its key. What is spawned has no output
\* name, and so no map beside it.
Begin(p, k, spawns) ==
  /\ At(p, "idle")
  /\ begun < MaxCompiles
  /\ spawns => k \notin Mapped
  /\ begun' = begun + 1
  /\ key' = [key EXCEPT ![p] = k]
  /\ runs' = IF spawns THEN runs \cup {p} ELSE runs \ {p}
  /\ seen' = [seen EXCEPT ![p] = "nothing"]
  /\ Goto(p, "readBundle")
  /\ alone' = IF \A q \in Process : At(q, "idle") THEN {p} ELSE {}
  /\ UNCHANGED <<fileVars, target, pruneVars, faults, evicted>>

Grade(f) == IF disk[f].whole THEN "whole" ELSE "half"

ReadBundle(p) ==
  /\ At(p, "readBundle")
  /\ IF On(BundleFile(key[p]))
     THEN /\ seen' = [seen EXCEPT ![p] = Grade(BundleFile(key[p]))]
          /\ Goto(p, IF key[p] \in Mapped THEN "readMap" ELSE "answer")
     ELSE /\ Goto(p, "emit")
          /\ UNCHANGED seen
  /\ UNCHANGED <<fileVars, key, runs, target, pruneVars, boundVars, ghosts>>

\* Mutant: a bundle with no map beside it is a build with no map.
MissingMapIsNoMap(p) == "answer"
WithoutMap(p) == "emit"

ReadMap(p) ==
  /\ At(p, "readMap")
  /\ IF On(MapFile(key[p]))
     THEN /\ Goto(p, "answer")
          /\ seen' = IF Grade(MapFile(key[p])) = "half"
                     THEN [seen EXCEPT ![p] = "half"] ELSE seen
     ELSE /\ Goto(p, WithoutMap(p))
          /\ seen' = [seen EXCEPT ![p] = "nothing"]
  /\ UNCHANGED <<fileVars, key, runs, target, pruneVars, boundVars, ghosts>>

-----------------------------------------------------------------------------
(* writeBundle and writeScratchBundle: writeAtomic, once or twice            *)

\* Mutant: the bundle is written ahead of its map.
BundleFirst(k) == <<"bundle", "map">>
WriteOrder(k) == <<"map", "bundle">>
\* The kinds of file a compile of k writes, in their order.
Written(k) == IF k \in Mapped THEN WriteOrder(k) ELSE <<"bundle">>

\* A bundle is remembered only where the emit had nothing to say; what spawns
\* one that did writes the scratch file, over an older run's.
Emit(p) ==
  /\ At(p, "emit")
  /\ IF key[p] \notin Loud
     THEN Goto(p, "exists") /\ target' = [target EXCEPT ![p] = Written(key[p])[1]]
     ELSE IF p \in runs
          THEN Goto(p, "create") /\ target' = [target EXCEPT ![p] = "scratch"]
          ELSE Goto(p, "answer") /\ UNCHANGED target
  /\ UNCHANGED <<fileVars, key, runs, seen, pruneVars, boundVars, ghosts>>

Target(p) == Final(key[p], target[p])
Temporary(p) == TemporaryPath(Target(p), p)

\* writeAtomic returns: the next file, or the prune when this call put the
\* bundle there, or the answer.
AfterWrite(p, renamed) ==
  IF key[p] \in Mapped /\ target[p] = Written(key[p])[1]
  THEN /\ target' = [target EXCEPT ![p] = Written(key[p])[2]]
       /\ Goto(p, "exists")
  ELSE /\ Goto(p, IF renamed /\ target[p] # "scratch" THEN "readdir"
                  ELSE "answer")
       /\ UNCHANGED target

\* A file already sitting there holds these exact bytes.
Exists(p) ==
  /\ At(p, "exists")
  /\ IF On(Target(p)) THEN AfterWrite(p, FALSE)
     ELSE Goto(p, "create") /\ UNCHANGED target
  /\ UNCHANGED <<fileVars, key, runs, seen, pruneVars, boundVars, ghosts>>

\* writeFile opens the temporary file, and has written all of it.
Create(p) ==
  /\ At(p, "create")
  /\ disk' = [disk EXCEPT ![Temporary(p)] =
                [whole |-> FALSE, modified |-> clock]]
  /\ Goto(p, "fill")
  /\ UNCHANGED <<clock, key, runs, target, seen, pruneVars, boundVars, ghosts>>

Fill(p) ==
  /\ At(p, "fill")
  /\ clock' = clock + 1
  /\ disk' = [disk EXCEPT ![Temporary(p)] =
                [whole |-> TRUE, modified |-> clock + 1]]
  /\ Goto(p, "rename")
  /\ UNCHANGED <<key, runs, target, seen, pruneVars, boundVars, ghosts>>

\* rename replaces what another process has put there since `exists` looked.
Rename(p) ==
  /\ At(p, "rename")
  /\ disk' = [disk EXCEPT ![Temporary(p)] = Absent,
                          ![Target(p)] = disk[Temporary(p)]]
  /\ AfterWrite(p, TRUE)
  /\ UNCHANGED <<clock, key, runs, seen, pruneVars, boundVars, ghosts>>

\* Or it is refused: onto the file of a race's winner, or for a reason of the
\* file system's own. The temporary file goes.
RenameFails(p) ==
  /\ At(p, "rename")
  /\ disk' = [disk EXCEPT ![Temporary(p)] = Absent]
  /\ Goto(p, "lost")
  /\ UNCHANGED <<clock, key, runs, target, seen, pruneVars, boundVars, ghosts>>

\* The winner's file is the same bytes, so losing is success; what replaces has
\* nobody to lose to. Anything else is thrown, and ends the compile.
Lost(p) ==
  /\ At(p, "lost")
  /\ IF target[p] # "scratch" /\ On(Target(p)) THEN AfterWrite(p, FALSE)
     ELSE Goto(p, "idle") /\ UNCHANGED target
  /\ UNCHANGED <<fileVars, key, runs, seen, pruneVars, boundVars, ghosts>>

-----------------------------------------------------------------------------
(* prune: the oldest go, ahead of the one just written                       *)

\* A short directory is left alone.
ReadDirectory(p) ==
  /\ At(p, "readdir")
  /\ LET others == Listing \ {BundleFile(key[p])}
     IN  IF Cardinality(others) < Kept
         THEN Goto(p, "answer") /\ UNCHANGED listed
         ELSE Goto(p, "stat") /\ listed' = [listed EXCEPT ![p] = others]
  /\ UNCHANGED <<fileVars, key, runs, target, seen, doomed, current, boundVars,
                 ghosts>>

\* Mutant: dated by their age.
DatedByAge(fs) == {[file |-> f, modified |-> disk[f].modified - clock] : f \in fs}
Dated(fs) == {[file |-> f, modified |-> disk[f].modified] : f \in fs}
NewerIn(dated, d) == {e \in dated : e.modified > d.modified}
OlderIn(dated, d) == {e \in dated : e.modified < d.modified}
\* Mutant: sorted the other way round.
SliceNewest(dated) == {d \in dated : Cardinality(OlderIn(dated, d)) >= Kept - 1}
\* Sorted newest first, everything from KEPT_BUNDLES - 1 on.
Slice(dated) == {d \in dated : Cardinality(NewerIn(dated, d)) >= Kept - 1}

\* The stats of one prune are asked for together. A file another prune has
\* taken meanwhile fails its stat, and that ends this prune.
Stat(p) ==
  /\ At(p, "stat")
  /\ IF \A f \in listed[p] : On(f)
     THEN Goto(p, "evict") /\ doomed' = [doomed EXCEPT ![p] = Slice(Dated(listed[p]))]
     ELSE Goto(p, "answer") /\ UNCHANGED doomed
  /\ listed' = [listed EXCEPT ![p] = {}]
  /\ UNCHANGED <<fileVars, key, runs, target, seen, current, boundVars, ghosts>>

\* The loop goes from the newest to the oldest.
Evict(p) ==
  /\ At(p, "evict")
  /\ \/ /\ doomed[p] = {}
        /\ Goto(p, "answer")
        /\ UNCHANGED <<disk, doomed, current, evicted>>
     \/ \E d \in doomed[p] :
        /\ NewerIn(doomed[p], d) = {}
        /\ disk' = [disk EXCEPT ![d.file] = Absent]
        /\ doomed' = [doomed EXCEPT ![p] = @ \ {d}]
        /\ current' = [current EXCEPT ![p] = d.file]
        /\ evicted' = evicted \cup {d.file.key}
        /\ Goto(p, "evictMap")
  /\ UNCHANGED <<clock, key, runs, target, seen, listed, boundVars, alone>>

\* A scratch bundle carries its map inside, and there is no `.run.mjs.map`.
EvictMap(p) ==
  /\ At(p, "evictMap")
  /\ disk' = IF current[p].kind = "bundle"
             THEN [disk EXCEPT ![MapFile(current[p].key)] = Absent] ELSE disk
  /\ current' = [current EXCEPT ![p] = Absent]
  /\ Goto(p, "evict")
  /\ UNCHANGED <<clock, key, runs, target, seen, listed, doomed, boundVars,
                 ghosts>>

-----------------------------------------------------------------------------
\* What a `run` hands to the executor.
Spawned(p) ==
  IF key[p] \in Loud THEN ScratchFile(key[p]) ELSE BundleFile(key[p])

\* compileFile has answered, and the program of a `run` has been spawned.
Answer(p) ==
  /\ At(p, "answer")
  /\ Goto(p, "idle")
  /\ UNCHANGED <<fileVars, key, runs, target, seen, pruneVars, boundVars, ghosts>>

\* The process dies, or mkdir, writeFile or rm is refused and writeBundle throws.
\* A temporary file stays where it is: its random name is nobody else's.
CutShort(p) ==
  /\ ~At(p, "idle")
  /\ faults < MaxFaults
  /\ faults' = faults + 1
  /\ Goto(p, "idle")
  /\ listed' = [listed EXCEPT ![p] = {}]
  /\ doomed' = [doomed EXCEPT ![p] = {}]
  /\ current' = [current EXCEPT ![p] = Absent]
  /\ UNCHANGED <<fileVars, key, runs, target, seen, begun, ghosts>>

Next == \E p \in Process :
  \/ \E k \in Key, spawns \in BOOLEAN : Begin(p, k, spawns)
  \/ ReadBundle(p) \/ ReadMap(p) \/ Emit(p)
  \/ Exists(p) \/ Create(p) \/ Fill(p)
  \/ Rename(p) \/ RenameFails(p) \/ Lost(p)
  \/ ReadDirectory(p) \/ Stat(p) \/ Evict(p) \/ EvictMap(p)
  \/ Answer(p) \/ CutShort(p)

Spec == Init /\ [][Next]_vars

-----------------------------------------------------------------------------
Labels == {"idle", "readBundle", "readMap", "emit", "exists", "create", "fill",
           "rename", "lost", "readdir", "stat", "evict", "evictMap", "answer"}
Dating == [file : File, modified : Nat]

\* The directory and the compiles hold values of their kinds.
TypeOK ==
  /\ disk \in [File -> Content \cup {Absent}]
  /\ clock \in Nat
  /\ pc \in [Process -> Labels]
  /\ key \in [Process -> Key \cup {NoKey}]
  /\ runs \subseteq Process
  /\ target \in [Process -> {"bundle", "map", "scratch"}]
  /\ seen \in [Process -> {"nothing", "half", "whole"}]
  /\ listed \in [Process -> SUBSET File]
  /\ doomed \in [Process -> SUBSET Dating]
  /\ current \in [Process -> File \cup {Absent}]
  /\ begun \in Nat /\ faults \in Nat
  /\ alone \subseteq Process /\ evicted \subseteq Key

\* However writers race and wherever they stop, a reader sees no file or the
\* whole of one (writeAtomic): what readBundle answers with, and what a run
\* spawns, is never half a bundle.
ReadsAreWhole == \A p \in Process :
  /\ seen[p] # "half"
  /\ At(p, "answer") /\ p \in runs /\ On(Spawned(p)) => disk[Spawned(p)].whole

\* The map is written first, so a bundle that is there promises one
\* (writeBundle), whoever raced and stopped, unless a prune has been at it.
BundlePromisesMap == \A k \in Mapped \ evicted :
  On(BundleFile(k)) => On(MapFile(k))

\* A half pair is a miss (readBundle), and a miss mends it: whatever earlier
\* compiles left behind, one that had the directory to itself and has answered
\* leaves a bundle with its map.
PairIsMended == \A p \in alone :
  At(p, "answer") /\ key[p] \in Mapped \ Loud =>
    On(BundleFile(key[p])) /\ On(MapFile(key[p]))

Pruned(p) == At(p, "evict") /\ doomed[p] = {}

\* The directory does not grow with the saves of a session (KEPT_BUNDLES):
\* whatever others left behind, a prune nobody disturbed leaves that many.
PruneBoundsStore == \A p \in alone : Pruned(p) => Cardinality(Listing) <= Kept

\* Eviction is by age: what an undisturbed prune is removing is older than every
\* bundle it leaves.
OldestAreEvicted == \A p \in alone : \A d \in doomed[p] :
  \A f \in Listing \ {e.file : e \in doomed[p]} : disk[f].modified > d.modified

\* Both: the bound holds, and age decides what goes.
PruneKeepsTheNewest == PruneBoundsStore /\ OldestAreEvicted
=============================================================================
