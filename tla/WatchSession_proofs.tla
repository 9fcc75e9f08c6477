------------------------ MODULE WatchSession_proofs ------------------------
(***************************************************************************)
(* Theorems about WatchSession: its types, and that builds never overlap.  *)
(***************************************************************************)
EXTENDS WatchSession, FiniteSetTheorems, TLAPS

-----------------------------------------------------------------------------
(* Types.                                                                  *)

LEMMA NewRunType ==
  ASSUME NEW targets \in SUBSET Entries
  PROVE  NewRun(targets) \in Run
BY DEF NewRun, Run, NothingRead, Contents

LEMMA RebuildType ==
  ASSUME NEW targets \in SUBSET Entries, NEW others \in SUBSET Entries,
         NEW left \in SUBSET Run, NEW busy \in BOOLEAN,
         Rebuild(targets, others, left, busy)
  PROVE  pending' \subseteq Entries /\ building' \in BOOLEAN /\ runs' \subseteq Run
<1>1. NewRun(targets) \in Run
  BY NewRunType
<1>2. CASE busy
  BY <1>2 DEF Rebuild
<1>3. CASE ~busy
  BY <1>1, <1>3 DEF Rebuild
<1>. QED BY <1>2, <1>3

LEMMA InitType == Init => TypeOK
<1>. SUFFICES ASSUME Init PROVE TypeOK
  OBVIOUS
<1>1. NothingRead \in Contents
  BY DEF NothingRead, Contents
<1>2. Idle \in Check
  BY <1>1 DEF Idle, Check
<1>3. runs \subseteq Run
  BY NewRunType DEF Init
<1>4. \A f \in Files : 1 \in OnDisk /\ 1 \in Versions
  BY WatchAssumption DEF OnDisk, Versions
<1>5. 0 \in 0 .. MaxDeletes /\ 0 \in 0 .. MaxKeys
  BY WatchAssumption
<1>6. /\ disk \in [Files -> OnDisk] /\ latest \in [Files -> Versions]
      /\ deletes \in 0 .. MaxDeletes /\ keys \in 0 .. MaxKeys
      /\ audience \in [Files -> [heard : BOOLEAN, entries : SUBSET Entries]]
  BY <1>4, <1>5 DEF Init
<1>7. /\ notified \subseteq Dirs /\ signatures \in Contents
      /\ dependents \in [Files -> SUBSET Entries]
      /\ watchers \in [Dirs -> {"none", "open", "closed"}]
      /\ output \in [Entries -> Contents]
      /\ checks \in [1 .. MaxChecks -> Check]
  BY <1>1, <1>2 DEF Init
<1>. QED
  BY <1>3, <1>6, <1>7 DEF Init, TypeOK

\* What editors do to the disk.
LEMMA DiskType ==
  ASSUME TypeOK, NEW f \in Files, Save(f) \/ Delete(f)
  PROVE  TypeOK'
<1>1. CASE Save(f)
  <2>1. latest[f] + 1 \in Versions /\ latest[f] + 1 \in OnDisk
    BY <1>1, WatchAssumption DEF Save, TypeOK, OnDisk, Versions
  <2>2. notified' \subseteq Dirs
    BY <1>1 DEF Save, Notify, TypeOK, Dirs
  <2>3. disk' \in [Files -> OnDisk] /\ latest' \in [Files -> Versions]
    BY <1>1, <2>1 DEF Save, TypeOK
  <2>4. audience' \in [Files -> [heard : BOOLEAN, entries : SUBSET Entries]]
    BY <1>1 DEF Save, TypeOK, Hears
  <2>. QED BY <1>1, <2>2, <2>3, <2>4 DEF Save, TypeOK, bookVars, buildVars
<1>2. CASE Delete(f)
  BY <1>2, WatchAssumption
     DEF Delete, Notify, TypeOK, OnDisk, Dirs, bookVars, buildVars
<1>. QED BY <1>1, <1>2

\* What a build does while it reads and captures.
LEMMA RunType ==
  ASSUME TypeOK, NEW r \in runs, NEW f \in Files,
         ReadFile(r, f) \/ CaptureStats(r, f) \/ CaptureResumes(r, f)
  PROVE  TypeOK'
<1>1. r \in Run /\ disk[f] \in OnDisk
  BY DEF TypeOK
<1>2. CASE ReadFile(r, f)
  <2>1. [r EXCEPT !.read[f] = disk[f]] \in Run
    BY <1>1 DEF Run, Contents
  <2>. QED BY <1>2, <2>1 DEF ReadFile, Replace, TypeOK, diskVars, bookVars
<1>3. CASE CaptureStats(r, f)
  <2>1. [r EXCEPT !.asked = @ \ {f}, !.answers[f] = disk[f]] \in Run
    BY <1>1 DEF Run, Contents
  <2>. QED BY <1>3, <2>1 DEF CaptureStats, Replace, TypeOK, diskVars, bookVars
<1>4. CASE CaptureResumes(r, f)
  <2>1. [r EXCEPT !.answers[f] = Unknown] \in Run /\ r.answers[f] \in OnDisk \cup {Unknown}
    BY <1>1 DEF Run, Contents
  <2>2. signatures' \in Contents
    BY <1>4, <2>1 DEF CaptureResumes, TypeOK, Contents
  <2>. QED BY <1>4, <2>1, <2>2 DEF CaptureResumes, Replace, TypeOK, diskVars
<1>. QED BY <1>2, <1>3, <1>4

LEMMA CompiledType ==
  ASSUME TypeOK, NEW r \in runs, NEW ok \in BOOLEAN, Compiled(r, ok)
  PROVE  TypeOK'
<1>1. r \in Run
  BY DEF TypeOK
<1>2. dependents' \in [Files -> SUBSET Entries]
  BY <1>1 DEF Compiled, RecordGraphs, TypeOK, Run
<1>3. output' \in [Entries -> Contents]
  BY <1>1 DEF Compiled, TypeOK, Run
<1>4. ToCapture(dependents') \subseteq Files
  BY WatchAssumption DEF ToCapture, WatchedFiles
<1>5. [r EXCEPT !.stage = "capturing", !.ok = ok,
                !.asked = ToCapture(dependents')] \in Run
  BY <1>1, <1>4 DEF Run
<1>6. program' \in {"none", "alive", "exited"}
  BY DEF Compiled, MaybeExecute, TypeOK
<1>. QED BY <1>2, <1>3, <1>5, <1>6 DEF Compiled, Replace, TypeOK, diskVars

LEMMA FinishType ==
  ASSUME TypeOK, NEW r \in runs, Finish(r)
  PROVE  TypeOK'
<1>1. watchers' \in [Dirs -> {"none", "open", "closed"}]
  BY DEF Finish, TypeOK
<1>2. program' \in {"none", "alive", "exited"}
  BY DEF Finish, MaybeExecute, TypeOK
<1>3. pending' \subseteq Entries /\ building' \in BOOLEAN /\ runs' \subseteq Run
  BY RebuildType DEF Finish, TypeOK
<1>4. phase' \in {"first", "watching", "stopping", "ended"}
  BY DEF Finish, TypeOK
<1>. QED BY <1>1, <1>2, <1>3, <1>4 DEF Finish, TypeOK, diskVars

LEMMA CheckType ==
  ASSUME TypeOK, NEW c \in 1 .. MaxChecks, NEW f \in Files,
         CheckStats(c, f) \/ CheckResumes(c, f)
  PROVE  TypeOK'
<1>1. checks[c] \in Check /\ disk[f] \in OnDisk
  BY DEF TypeOK
<1>2. CASE CheckStats(c, f)
  <2>1. checks' = [checks EXCEPT ![c] = [checks[c] EXCEPT !.asked = @ \ {f},
                                                         !.answers[f] = disk[f]]]
    BY <1>2 DEF CheckStats
  <2>2. [checks[c] EXCEPT !.asked = @ \ {f}, !.answers[f] = disk[f]] \in Check
    BY <1>1 DEF Check, Contents
  <2>3. checks' \in [1 .. MaxChecks -> Check]
    BY <2>1, <2>2 DEF TypeOK
  <2>. QED BY <1>2, <2>3 DEF CheckStats, TypeOK, diskVars, bookVars, buildVars
<1>3. CASE CheckResumes(c, f)
  <2> DEFINE current == checks[c].answers[f]
             differs == current # Missing /\ signatures[f] # current
             changed == checks[c].changed \cup (IF differs THEN {f} ELSE {})
             next == [checks[c] EXCEPT !.answers[f] = Unknown, !.changed = changed]
  <2>1. next \in Check /\ current \in OnDisk \cup {Unknown}
    BY <1>1 DEF Check, Contents
  <2>2. signatures' \in Contents
    BY <1>3, <2>1 DEF CheckResumes, TypeOK, Contents
  <2>3. Idle \in Check
    BY DEF Idle, Check, NothingRead, Contents
  <2>4. checks' \in [1 .. MaxChecks -> Check]
    BY <1>3, <2>1, <2>3 DEF CheckResumes, TypeOK
  <2>5. changed \subseteq Files /\ EntriesFor(changed) \subseteq Entries
    BY <1>1 DEF Check, EntriesFor, TypeOK
  <2>6. pending' \subseteq Entries /\ timer' \in BOOLEAN
    BY <1>3, <2>5 DEF CheckResumes, Schedule, TypeOK
  <2>. QED BY <1>3, <2>2, <2>4, <2>6 DEF CheckResumes, TypeOK, diskVars
<1>. QED BY <1>2, <1>3

LEMMA EventType ==
  ASSUME TypeOK, NEW d \in Dirs, Event(d)
  PROVE  TypeOK'
<1>1. PICK c \in 1 .. MaxChecks :
        checks' = [checks EXCEPT ![c].asked = WatchedFiles(dependents)]
  BY DEF Event
<1>2. WatchedFiles(dependents) \subseteq Files
  BY WatchAssumption DEF WatchedFiles
<1>3. [checks[c] EXCEPT !.asked = WatchedFiles(dependents)] \in Check
  BY <1>2 DEF TypeOK, Check
<1>4. checks' \in [1 .. MaxChecks -> Check]
  BY <1>1, <1>3 DEF TypeOK
<1>. QED BY <1>4 DEF Event, TypeOK, diskVars, bookVars, buildVars

LEMMA UserType ==
  ASSUME TypeOK, TimerFires \/ PressR \/ Quit \/ Resolve \/ ProgramExits
  PROVE  TypeOK'
<1>1. CASE TimerFires
  <2>1. Rebuild(pending, {}, runs, building)
    BY <1>1 DEF TimerFires
  <2>2. pending \in SUBSET Entries /\ runs \in SUBSET Run /\ building \in BOOLEAN
    BY DEF TypeOK
  <2>3. pending' \subseteq Entries /\ building' \in BOOLEAN /\ runs' \subseteq Run
    BY <2>1, <2>2, RebuildType
  <2>. QED BY <1>1, <2>3 DEF TimerFires, TypeOK, diskVars, bookVars
<1>2. CASE PressR
  <2>1. keys' \in 0 .. MaxKeys
    BY <1>2, WatchAssumption DEF PressR, TypeOK
  <2>2. pending' \subseteq Entries /\ building' \in BOOLEAN /\ runs' \subseteq Run
    <3>1. Rebuild(Entries, pending, runs, building)
      BY <1>2 DEF PressR
    <3>2. pending \in SUBSET Entries /\ runs \in SUBSET Run /\ building \in BOOLEAN
      BY DEF TypeOK
    <3>. QED BY <3>1, <3>2, RebuildType
  <2>. QED BY <1>2, <2>1, <2>2 DEF PressR, TypeOK, diskVars, bookVars
<1>3. CASE Quit
  BY <1>3 DEF Quit, TypeOK, diskVars, buildVars
<1>4. CASE Resolve
  BY <1>4 DEF Resolve, TypeOK, diskVars, bookVars, buildVars
<1>5. CASE ProgramExits
  BY <1>5 DEF ProgramExits, TypeOK, diskVars, bookVars, buildVars
<1>. QED BY <1>1, <1>2, <1>3, <1>4, <1>5

\* Every variable of the session keeps its type.
THEOREM TypeCorrect == Spec => []TypeOK
<1>1. TypeOK /\ [Next]_vars => TypeOK'
  <2>. SUFFICES ASSUME TypeOK, [Next]_vars PROVE TypeOK'
    OBVIOUS
  <2>1. CASE UNCHANGED vars
    BY <2>1 DEF vars, diskVars, bookVars, buildVars, TypeOK
  <2>2. CASE Next
    BY <2>2, DiskType, RunType, CompiledType, FinishType, CheckType, EventType,
       UserType DEF Next, Callbacks
  <2>. QED BY <2>1, <2>2
<1>. QED BY <1>1, InitType, PTL DEF Spec

-----------------------------------------------------------------------------
(* Builds do not overlap.                                                  *)

\* During the first build nothing can ask for another: no watcher is open, so
\* no event is due, no check is underway and no timer was ever set.
FirstIsAlone ==
  phase = "first" =>
    /\ ~building /\ ~timer
    /\ notified = {}
    /\ \A d \in Dirs : watchers[d] = "none"
    /\ \A c \in 1 .. MaxChecks : checks[c] = Idle

\* Afterwards a build is underway exactly while the flag says so.
FlagIsRight ==
  /\ phase # "first" /\ ~building => runs = {}
  /\ \A r, s \in runs : r = s

BuildInv == TypeOK /\ FirstIsAlone /\ FlagIsRight

LEMMA BuildInvInit == Init => BuildInv
BY InitType DEF Init, BuildInv, FirstIsAlone, FlagIsRight

LEMMA RebuildKeepsOne ==
  ASSUME NEW targets, NEW others, NEW left, NEW busy \in BOOLEAN,
         Rebuild(targets, others, left, busy),
         \A r, s \in left : r = s, ~busy => left = {}
  PROVE  building' /\ \A r, s \in runs' : r = s
BY DEF Rebuild

LEMMA BuildInvStep == BuildInv /\ [Next]_vars => BuildInv'
<1>. SUFFICES ASSUME BuildInv, [Next]_vars PROVE BuildInv'
  OBVIOUS
<1>. USE DEF BuildInv, FirstIsAlone, FlagIsRight
<1>1. TypeOK'
  <2>1. CASE UNCHANGED vars
    BY <2>1 DEF vars, diskVars, bookVars, buildVars, TypeOK
  <2>2. CASE Next
    BY <2>2, DiskType, RunType, CompiledType, FinishType, CheckType, EventType,
       UserType DEF Next, Callbacks
  <2>. QED BY <2>1, <2>2
<1>2. ASSUME NEW f \in Files, Save(f) \/ Delete(f)
      PROVE  FirstIsAlone' /\ FlagIsRight'
  <2>1. Dir[f] \in Dirs
    BY DEF Dirs
  <2>. QED BY <1>2, <2>1 DEF Save, Delete, Notify, bookVars, buildVars
<1>3. ASSUME NEW r \in runs, NEW f \in Files,
             ReadFile(r, f) \/ CaptureStats(r, f) \/ CaptureResumes(r, f)
      PROVE  FirstIsAlone' /\ FlagIsRight'
  BY <1>3 DEF ReadFile, CaptureStats, CaptureResumes, Replace, bookVars
<1>4. ASSUME NEW r \in runs, NEW ok \in BOOLEAN, Compiled(r, ok)
      PROVE  FirstIsAlone' /\ FlagIsRight'
  BY <1>4 DEF Compiled, Replace
<1>5. ASSUME NEW r \in runs, Finish(r)
      PROVE  FirstIsAlone' /\ FlagIsRight'
  <2>1. runs \ {r} = {}
    OBVIOUS
  <2>2. CASE phase = "first"
    BY <1>5, <2>1, <2>2 DEF Finish
  <2>3. CASE phase # "first" /\ pending # {}
    BY <1>5, <2>1, <2>3, RebuildKeepsOne DEF Finish
  <2>4. CASE phase # "first" /\ pending = {}
    BY <1>5, <2>1, <2>4 DEF Finish
  <2>. QED BY <2>2, <2>3, <2>4
<1>6. ASSUME NEW d \in Dirs, Event(d)
      PROVE  FirstIsAlone' /\ FlagIsRight'
  BY <1>6 DEF Event, buildVars, bookVars
<1>7. ASSUME NEW c \in 1 .. MaxChecks, NEW f \in Files,
             CheckStats(c, f) \/ CheckResumes(c, f)
      PROVE  FirstIsAlone' /\ FlagIsRight'
  <2>1. checks[c] # Idle
    BY <1>7 DEF CheckStats, CheckResumes, Idle, NothingRead
  <2>2. phase # "first"
    BY <2>1
  <2>. QED BY <1>7, <2>2 DEF CheckStats, CheckResumes, buildVars
<1>8. CASE TimerFires
  BY <1>1, <1>8, RebuildKeepsOne DEF TimerFires, TypeOK
<1>9. CASE PressR
  BY <1>1, <1>9, RebuildKeepsOne DEF PressR, TypeOK
<1>10. CASE Quit \/ Resolve \/ ProgramExits
  BY <1>1, <1>10 DEF Quit, Resolve, ProgramExits, bookVars, buildVars
<1>11. CASE UNCHANGED vars
  BY <1>1, <1>11 DEF vars, bookVars, buildVars
<1>. QED
  BY <1>1, <1>2, <1>3, <1>4, <1>5, <1>6, <1>7, <1>8, <1>9, <1>10, <1>11
     DEF Next, Callbacks

\* However the timer, the r key and a finishing build fall, no two builds are
\* ever underway: what a dispatcher is asked for is one run after another.
THEOREM BuildsNeverOverlap == Spec => []OneBuildAtATime
<1>1. FlagIsRight => OneBuildAtATime
  <2>. SUFFICES ASSUME FlagIsRight PROVE Cardinality(runs) <= 1
    BY DEF OneBuildAtATime
  <2>1. CASE runs = {}
    BY <2>1, FS_EmptySet
  <2>2. CASE runs # {}
    <3>1. PICK r \in runs : TRUE
      BY <2>2
    <3>2. runs = {r}
      BY <3>1 DEF FlagIsRight
    <3>3. Cardinality({r}) = 1
      BY FS_Singleton
    <3>. QED BY <3>2, <3>3
  <2>. QED BY <2>1, <2>2
<1>2. BuildInv => OneBuildAtATime
  BY <1>1 DEF BuildInv
<1>. QED BY <1>2, BuildInvInit, BuildInvStep, PTL DEF Spec

-----------------------------------------------------------------------------
(* Known saves are rebuilt.                                                *)

UpTo(n) == {Unknown} \cup 1 .. n

\* While no file vanishes, whatever was read or looked at is a version there was.
OnlyVersions ==
  deletes = 0 =>
    /\ disk = latest
    /\ \A f \in Files :
         /\ signatures[f] \in UpTo(latest[f])
         /\ \A r \in runs : r.read[f] \in UpTo(latest[f]) /\ r.answers[f] \in UpTo(latest[f])
         /\ \A c \in 1 .. MaxChecks : checks[c].answers[f] \in UpTo(latest[f])

\* A stat is asked for, or answered and not resumed with, or neither.
StatsOnce ==
  /\ \A r \in runs : r.stage = "compiling" => r.asked = {} /\ r.answers = NothingRead
  /\ \A r \in runs : \A f \in r.asked : r.answers[f] = Unknown
  /\ \A c \in 1 .. MaxChecks : \A f \in checks[c].asked : checks[c].answers[f] = Unknown

\* A signature held of a file a build has still to capture was taken by a check,
\* which saw the file change: whoever depends on it is waiting to be rebuilt,
\* or will be when that check ends.  The capture may then overwrite it.
CaptureIsCovered ==
  \A r \in runs, f \in Files :
    (f \in r.asked \/ r.answers[f] # Unknown) /\ signatures[f] # Unknown =>
      \A e \in dependents[f] : e \in pending \/ \E c \in 1 .. MaxChecks : f \in checks[c].changed

\* How far the last save of f has come on its way to entry e: some check will
\* see it, or has seen it, or a build that reads it is due, or e is made from it.
Noticing(e, f) ==
  /\ e \in dependents[f]
  /\ signatures[f] # Unknown /\ signatures[f] # disk[f]
  /\ \/ Dir[f] \in notified
     \/ \E c \in 1 .. MaxChecks : f \in checks[c].asked \/ checks[c].answers[f] = disk[f]
Noticed(e, f) ==
  e \in dependents[f] /\ \E c \in 1 .. MaxChecks : f \in checks[c].changed
Due(e, f) ==
  \/ e \in pending
  \/ \E r \in runs : /\ e \in r.targets /\ r.stage = "compiling"
                    /\ r.read[f] \in {Unknown, disk[f]}
Settled(e, f) ==
  /\ f \in Reach(output[e], e) => output[e][f] = disk[f]
  /\ \A r \in runs : e \in r.targets /\ r.stage = "compiling" =>
                       r.read[f] \in {Unknown, disk[f]}

OnItsWay(e, f) == Noticing(e, f) \/ Noticed(e, f) \/ Due(e, f) \/ Settled(e, f)

SavesArrive ==
  deletes = 0 /\ phase \in {"first", "watching"} =>
    \A e \in Entries, f \in Files :
      audience[f].heard /\ e \in audience[f].entries => OnItsWay(e, f)

BookInv == OnlyVersions /\ StatsOnce /\ CaptureIsCovered
SaveInv == BuildInv /\ BookInv /\ SavesArrive

LEMMA BookInit == Init => BookInv
<1>. SUFFICES ASSUME Init PROVE BookInv
  OBVIOUS
<1>1. \A f \in Files : Unknown \in UpTo(latest[f]) /\ NothingRead[f] = Unknown
  BY DEF UpTo, NothingRead
<1>2. OnlyVersions
  BY <1>1 DEF Init, OnlyVersions, NewRun, Idle
<1>3. StatsOnce
  BY DEF Init, StatsOnce, NewRun, Idle
<1>4. CaptureIsCovered
  BY <1>1 DEF Init, CaptureIsCovered, NewRun
<1>. QED BY <1>2, <1>3, <1>4 DEF BookInv

\* What is on disk, where nothing has vanished, is a version.
LEMMA DiskHolds ==
  ASSUME TypeOK, OnlyVersions, deletes = 0, NEW f \in Files
  PROVE  /\ disk[f] = latest[f] /\ disk[f] \in Versions
         /\ disk[f] \in UpTo(latest[f]) /\ disk[f] # Unknown /\ disk[f] # Missing
         /\ UpTo(latest[f]) \subseteq {Unknown} \cup Versions
         /\ Missing \notin UpTo(latest[f])
<1>1. disk[f] = latest[f] /\ latest[f] \in Versions
  BY DEF OnlyVersions, TypeOK
<1>. QED BY <1>1, WatchAssumption DEF UpTo, Versions, Unknown, Missing

\* Nothing read and nothing looked at is Unknown everywhere.
LEMMA Unknowns ==
  /\ NothingRead \in Contents
  /\ \A f \in Files : NothingRead[f] = Unknown
  /\ \A n : Unknown \in UpTo(n)
BY DEF NothingRead, Contents, UpTo

\* What the actions of a build make of it, field by field.
LEMMA RunReads ==
  ASSUME TypeOK, NEW r \in runs, NEW f \in Files, ReadFile(r, f)
  PROVE  \E s \in Run :
           /\ s.targets = r.targets /\ s.stage = r.stage
           /\ s.read = [r.read EXCEPT ![f] = disk[f]]
           /\ s.asked = r.asked /\ s.answers = r.answers
           /\ runs' = (runs \ {r}) \cup {s}
<1> DEFINE s == [r EXCEPT !.read[f] = disk[f]]
<1>1. r \in Run /\ disk[f] \in OnDisk
  BY DEF TypeOK
<1>2. s \in Run
  BY <1>1 DEF Run, Contents
<1>3. /\ s.targets = r.targets /\ s.stage = r.stage
      /\ s.read = [r.read EXCEPT ![f] = disk[f]]
      /\ s.asked = r.asked /\ s.answers = r.answers
  BY <1>1 DEF Run
<1>4. runs' = (runs \ {r}) \cup {s}
  BY DEF ReadFile, Replace
<1>. HIDE DEF s
<1>. QED BY <1>2, <1>3, <1>4

LEMMA RunStats ==
  ASSUME TypeOK, NEW r \in runs, NEW f \in Files, CaptureStats(r, f)
  PROVE  \E s \in Run :
           /\ s.targets = r.targets /\ s.stage = r.stage /\ s.read = r.read
           /\ s.asked = r.asked \ {f}
           /\ s.answers = [r.answers EXCEPT ![f] = disk[f]]
           /\ runs' = (runs \ {r}) \cup {s}
<1> DEFINE s == [r EXCEPT !.asked = @ \ {f}, !.answers[f] = disk[f]]
<1>1. r \in Run /\ disk[f] \in OnDisk
  BY DEF TypeOK
<1>2. s \in Run
  BY <1>1 DEF Run, Contents
<1>3. /\ s.targets = r.targets /\ s.stage = r.stage /\ s.read = r.read
      /\ s.asked = r.asked \ {f}
      /\ s.answers = [r.answers EXCEPT ![f] = disk[f]]
  BY <1>1 DEF Run
<1>4. runs' = (runs \ {r}) \cup {s}
  BY DEF CaptureStats, Replace
<1>. HIDE DEF s
<1>. QED BY <1>2, <1>3, <1>4

LEMMA RunResumes ==
  ASSUME TypeOK, NEW r \in runs, NEW f \in Files, CaptureResumes(r, f)
  PROVE  \E s \in Run :
           /\ s.targets = r.targets /\ s.stage = r.stage /\ s.read = r.read
           /\ s.asked = r.asked
           /\ s.answers = [r.answers EXCEPT ![f] = Unknown]
           /\ runs' = (runs \ {r}) \cup {s}
<1> DEFINE s == [r EXCEPT !.answers[f] = Unknown]
<1>1. r \in Run /\ disk[f] \in OnDisk
  BY DEF TypeOK
<1>2. s \in Run
  BY <1>1 DEF Run, Contents
<1>3. /\ s.targets = r.targets /\ s.stage = r.stage /\ s.read = r.read
      /\ s.asked = r.asked
      /\ s.answers = [r.answers EXCEPT ![f] = Unknown]
  BY <1>1 DEF Run
<1>4. runs' = (runs \ {r}) \cup {s}
  BY DEF CaptureResumes, Replace
<1>. HIDE DEF s
<1>. QED BY <1>2, <1>3, <1>4

LEMMA RunCompiled ==
  ASSUME TypeOK, NEW r \in runs, NEW ok \in BOOLEAN, Compiled(r, ok)
  PROVE  \E s \in Run :
           /\ s.targets = r.targets /\ s.stage = "capturing" /\ s.read = r.read
           /\ s.asked = ToCapture(dependents') /\ s.answers = r.answers
           /\ runs' = (runs \ {r}) \cup {s}
<1> DEFINE s == [r EXCEPT !.stage = "capturing", !.ok = ok,
                          !.asked = ToCapture(dependents')]
<1>1. r \in Run
  BY DEF TypeOK
<1>2. s \in Run
  BY <1>1, WatchAssumption DEF ToCapture, WatchedFiles, Run
<1>3. /\ s.targets = r.targets /\ s.stage = "capturing" /\ s.read = r.read
      /\ s.asked = ToCapture(dependents') /\ s.answers = r.answers
  BY <1>1 DEF Run
<1>4. runs' = (runs \ {r}) \cup {s}
  BY DEF Compiled, Replace
<1>. HIDE DEF s
<1>. QED BY <1>2, <1>3, <1>4

\* What a stat's continuation makes of its check, of the signature and, as the
\* last one, of the entries waiting.
LEMMA CheckResumed ==
  ASSUME TypeOK, NEW c \in 1 .. MaxChecks, NEW f \in Files, CheckResumes(c, f)
  PROVE  \E next \in Check, differs \in BOOLEAN :
           /\ differs <=> checks[c].answers[f] # Missing /\ signatures[f] # checks[c].answers[f]
           /\ next.asked = checks[c].asked
           /\ next.answers = [checks[c].answers EXCEPT ![f] = Unknown]
           /\ next.changed = checks[c].changed \cup (IF differs THEN {f} ELSE {})
           /\ signatures' = IF differs THEN [signatures EXCEPT ![f] = checks[c].answers[f]]
                            ELSE signatures
           /\ IF next.asked = {} /\ next.answers = NothingRead
              THEN /\ checks' = [checks EXCEPT ![c] = Idle]
                   /\ pending' = pending \cup EntriesFor(next.changed)
              ELSE checks' = [checks EXCEPT ![c] = next] /\ pending' = pending
<1> DEFINE current == checks[c].answers[f]
           differs == current # Missing /\ signatures[f] # current
           changed == checks[c].changed \cup (IF differs THEN {f} ELSE {})
           next == [checks[c] EXCEPT !.answers[f] = Unknown, !.changed = changed]
<1>1. checks[c] \in Check
  BY DEF TypeOK
<1>2. next \in Check
  BY <1>1 DEF Check, Contents
<1>3. /\ next.asked = checks[c].asked
      /\ next.answers = [checks[c].answers EXCEPT ![f] = Unknown]
      /\ next.changed = checks[c].changed \cup (IF differs THEN {f} ELSE {})
  BY <1>1 DEF Check
<1>4. /\ signatures' = IF differs THEN [signatures EXCEPT ![f] = checks[c].answers[f]]
                       ELSE signatures
      /\ IF next.asked = {} /\ next.answers = NothingRead
         THEN /\ checks' = [checks EXCEPT ![c] = Idle]
              /\ pending' = pending \cup EntriesFor(next.changed)
         ELSE checks' = [checks EXCEPT ![c] = next] /\ pending' = pending
  <2>1. next.changed = changed
    BY <1>3
  <2>. HIDE DEF changed
  <2>. QED BY <2>1 DEF CheckResumes, Schedule, changed
<1>5. differs \in BOOLEAN /\ (differs <=> checks[c].answers[f] # Missing /\ signatures[f] # checks[c].answers[f])
  OBVIOUS
<1>. HIDE DEF next, differs
<1>. QED BY <1>2, <1>3, <1>4, <1>5

LEMMA NoneVanished ==
  ASSUME TypeOK, [Next]_vars, deletes' = 0
  PROVE  deletes = 0
<1>1. CASE \E f \in Files : Delete(f)
  BY <1>1 DEF Delete, TypeOK
<1>2. CASE ~ \E f \in Files : Delete(f)
  BY <1>2 DEF Next, Callbacks, Save, ReadFile, CaptureStats, CaptureResumes,
     Compiled, Finish, Event, CheckStats, CheckResumes, TimerFires, PressR, Quit,
     Resolve, ProgramExits, vars, diskVars
<1>. QED BY <1>1, <1>2

LEMMA OnlyVersionsStep ==
  ASSUME TypeOK, OnlyVersions, [Next]_vars
  PROVE  OnlyVersions'
<1>. SUFFICES ASSUME deletes' = 0 PROVE OnlyVersions'
  BY DEF OnlyVersions
<1>0. deletes = 0
  BY NoneVanished
<1>1. /\ disk = latest
      /\ \A g \in Files :
           /\ disk[g] \in UpTo(latest[g])
           /\ signatures[g] \in UpTo(latest[g])
           /\ \A r \in runs : r.read[g] \in UpTo(latest[g]) /\ r.answers[g] \in UpTo(latest[g])
           /\ \A c \in 1 .. MaxChecks : checks[c].answers[g] \in UpTo(latest[g])
  BY <1>0, DiskHolds DEF OnlyVersions
<1>2. \A t, o : \A g \in Files : NewRun(t).read[g] = Unknown /\ NewRun(t).answers[g] = Unknown
  BY Unknowns DEF NewRun
<1>3. ASSUME NEW f \in Files, Save(f)
      PROVE  OnlyVersions'
  <2>1. \A g \in Files : UpTo(latest[g]) \subseteq UpTo(latest'[g])
    BY <1>3 DEF Save, UpTo, TypeOK, Versions
  <2>2. disk' = latest'
    BY <1>1, <1>3 DEF Save, TypeOK
  <2>. QED
    BY <1>1, <1>3, <2>1, <2>2 DEF OnlyVersions, Save, bookVars, buildVars
<1>4. ASSUME NEW f \in Files, Delete(f)
      PROVE  OnlyVersions'
  BY <1>4 DEF Delete, TypeOK
<1>5. ASSUME NEW r \in runs, NEW f \in Files,
             ReadFile(r, f) \/ CaptureStats(r, f) \/ CaptureResumes(r, f)
      PROVE  OnlyVersions'
  <2>1. r \in Run
    BY DEF TypeOK
  <2>2. CASE ReadFile(r, f)
    <3>1. PICK s \in Run : /\ s.read = [r.read EXCEPT ![f] = disk[f]]
                           /\ s.answers = r.answers
                           /\ runs' = (runs \ {r}) \cup {s}
      BY <2>2, RunReads
    <3>. QED BY <1>1, <2>1, <2>2, <3>1 DEF OnlyVersions, ReadFile, diskVars, bookVars, Run, Contents
  <2>3. CASE CaptureStats(r, f)
    <3>1. PICK s \in Run : /\ s.answers = [r.answers EXCEPT ![f] = disk[f]]
                           /\ s.read = r.read
                           /\ runs' = (runs \ {r}) \cup {s}
      BY <2>3, RunStats
    <3>. QED BY <1>1, <2>1, <2>3, <3>1 DEF OnlyVersions, CaptureStats, diskVars, bookVars, Run, Contents
  <2>4. CASE CaptureResumes(r, f)
    BY <1>1, <2>1, <2>4, Unknowns
       DEF OnlyVersions, CaptureResumes, Replace, diskVars, Run, Contents, TypeOK
  <2>. QED BY <1>5, <2>2, <2>3, <2>4
<1>6. ASSUME NEW r \in runs, NEW ok \in BOOLEAN, Compiled(r, ok)
      PROVE  OnlyVersions'
  <2>1. r \in Run
    BY DEF TypeOK
  <2>2. PICK s \in Run : /\ s.read = r.read /\ s.answers = r.answers
                         /\ runs' = (runs \ {r}) \cup {s}
    BY <1>6, RunCompiled
  <2>. QED BY <1>1, <1>6, <2>2 DEF OnlyVersions, Compiled, diskVars
<1>7. ASSUME NEW targets, NEW others, NEW left \in SUBSET runs, NEW busy,
             Rebuild(targets, others, left, busy),
             UNCHANGED <<diskVars, signatures, checks>>
      PROVE  OnlyVersions'
  BY <1>1, <1>2, <1>7, Unknowns DEF OnlyVersions, Rebuild, diskVars
<1>8. ASSUME NEW r \in runs, Finish(r)
      PROVE  OnlyVersions'
  <2>1. CASE runs' = runs \ {r}
    BY <1>1, <1>8, <2>1 DEF OnlyVersions, Finish, diskVars
  <2>2. CASE Rebuild(pending, {}, runs \ {r}, FALSE)
    BY <1>7, <1>8, <2>2 DEF Finish
  <2>. QED BY <1>8, <2>1, <2>2 DEF Finish
<1>9. ASSUME NEW d \in Dirs, Event(d)
      PROVE  OnlyVersions'
  BY <1>1, <1>9 DEF OnlyVersions, Event, diskVars, bookVars, buildVars, TypeOK, Check
<1>10. ASSUME NEW c \in 1 .. MaxChecks, NEW f \in Files, CheckStats(c, f)
       PROVE  OnlyVersions'
  BY <1>1, <1>10 DEF OnlyVersions, CheckStats, diskVars, bookVars, buildVars, TypeOK, Check, Contents
<1>11. ASSUME NEW c \in 1 .. MaxChecks, NEW f \in Files, CheckResumes(c, f)
       PROVE  OnlyVersions'
  <2>1. \A g \in Files : Idle.answers[g] = Unknown
    BY Unknowns DEF Idle
  <2>2. \A g \in Files : signatures'[g] \in UpTo(latest[g])
    BY <1>1, <1>11 DEF CheckResumes, TypeOK, Contents
  <2>3. \A b \in 1 .. MaxChecks, g \in Files :
          checks'[b].answers[g] = checks[b].answers[g] \/ checks'[b].answers[g] = Unknown
    <3>1. PICK next \in Check :
            /\ next.answers = [checks[c].answers EXCEPT ![f] = Unknown]
            /\ \/ checks' = [checks EXCEPT ![c] = next]
               \/ checks' = [checks EXCEPT ![c] = Idle]
      BY <1>11, CheckResumed
    <3>2. checks \in [1 .. MaxChecks -> Check]
      BY DEF TypeOK
    <3>. checks[c] \in Check
      BY <3>2
    <3>6. checks[c].answers \in Contents
      BY DEF Check
    <3>3. \A g \in Files : next.answers[g] = checks[c].answers[g] \/ next.answers[g] = Unknown
      BY <3>1, <3>6 DEF Contents
    <3>4. CASE checks' = [checks EXCEPT ![c] = next]
      BY <3>2, <3>3, <3>4
    <3>5. CASE checks' = [checks EXCEPT ![c] = Idle]
      BY <2>1, <3>2, <3>5
    <3>. QED BY <3>1, <3>4, <3>5
  <2>. QED BY <1>1, <1>11, <2>2, <2>3, Unknowns DEF OnlyVersions, CheckResumes, diskVars
<1>12. CASE TimerFires
  BY <1>7, <1>12 DEF TimerFires, bookVars
<1>13. CASE PressR
  BY <1>7, <1>13 DEF PressR, bookVars
<1>14. CASE Quit \/ Resolve \/ ProgramExits \/ UNCHANGED vars
  BY <1>1, <1>14 DEF OnlyVersions, Quit, Resolve, ProgramExits, vars, diskVars, bookVars, buildVars
<1>. QED
  BY <1>3, <1>4, <1>5, <1>6, <1>8, <1>9, <1>10, <1>11, <1>12, <1>13, <1>14
     DEF Next, Callbacks

LEMMA StatsOnceStep ==
  ASSUME TypeOK, StatsOnce, [Next]_vars
  PROVE  StatsOnce'
<1>0. ASSUME NEW c \in 1 .. MaxChecks, UNCHANGED runs,
             \A b \in (1 .. MaxChecks) \ {c} : checks'[b] = checks[b],
             \A g \in checks'[c].asked : checks'[c].answers[g] = Unknown
      PROVE  StatsOnce'
  BY <1>0 DEF StatsOnce
<1>1. ASSUME NEW r \in runs, NEW f \in Files,
             ReadFile(r, f) \/ CaptureStats(r, f) \/ CaptureResumes(r, f)
      PROVE  StatsOnce'
  <2>1. r \in Run
    BY DEF TypeOK
  <2>2. CASE ReadFile(r, f)
    <3>1. PICK s \in Run : /\ s.stage = r.stage /\ s.asked = r.asked /\ s.answers = r.answers
                           /\ runs' = (runs \ {r}) \cup {s}
      BY <2>2, RunReads
    <3>. QED BY <2>2, <3>1 DEF StatsOnce, ReadFile
  <2>3. CASE CaptureStats(r, f)
    <3>1. PICK s \in Run : /\ s.stage = r.stage /\ s.asked = r.asked \ {f}
                           /\ s.answers = [r.answers EXCEPT ![f] = disk[f]]
                           /\ runs' = (runs \ {r}) \cup {s}
      BY <2>3, RunStats
    <3>2. r.stage # "compiling"
      BY <2>3 DEF StatsOnce, CaptureStats
    <3>. QED BY <2>1, <2>3, <3>1, <3>2 DEF StatsOnce, CaptureStats, Run, Contents
  <2>4. CASE CaptureResumes(r, f)
    <3>1. PICK s \in Run : /\ s.stage = r.stage /\ s.asked = r.asked
                           /\ s.answers = [r.answers EXCEPT ![f] = Unknown]
                           /\ runs' = (runs \ {r}) \cup {s}
      BY <2>4, RunResumes
    <3>2. r.stage # "compiling"
      BY <2>4, Unknowns DEF StatsOnce, CaptureResumes
    <3>. QED BY <2>1, <2>4, <3>1, <3>2 DEF StatsOnce, CaptureResumes, Run, Contents
  <2>. QED BY <1>1, <2>2, <2>3, <2>4
<1>2. ASSUME NEW r \in runs, NEW ok \in BOOLEAN, Compiled(r, ok)
      PROVE  StatsOnce'
  <2>1. PICK s \in Run : /\ s.stage = "capturing" /\ s.answers = r.answers
                         /\ s.asked = ToCapture(dependents')
                         /\ runs' = (runs \ {r}) \cup {s}
    BY <1>2, RunCompiled
  <2>2. r.answers = NothingRead
    BY <1>2 DEF StatsOnce, Compiled
  <2>3. s.asked \subseteq Files
    BY DEF Run
  <2>. QED BY <1>2, <2>1, <2>2, <2>3, Unknowns DEF StatsOnce, Compiled
<1>3. ASSUME NEW targets, NEW others, NEW left \in SUBSET runs, NEW busy,
             Rebuild(targets, others, left, busy), UNCHANGED checks
      PROVE  StatsOnce'
  BY <1>3 DEF StatsOnce, Rebuild, NewRun
<1>4. ASSUME NEW r \in runs, Finish(r)
      PROVE  StatsOnce'
  <2>1. CASE runs' = runs \ {r}
    BY <1>4, <2>1 DEF StatsOnce, Finish
  <2>2. CASE Rebuild(pending, {}, runs \ {r}, FALSE)
    BY <1>3, <1>4, <2>2 DEF Finish
  <2>. QED BY <1>4, <2>1, <2>2 DEF Finish
<1>5. ASSUME NEW d \in Dirs, Event(d)
      PROVE  StatsOnce'
  <2>1. PICK c \in 1 .. MaxChecks :
          checks[c] = Idle /\ checks' = [checks EXCEPT ![c].asked = WatchedFiles(dependents)]
    BY <1>5 DEF Event
  <2>2. checks'[c].answers = NothingRead /\ checks'[c].asked \subseteq Files
    BY <2>1, WatchAssumption DEF Idle, TypeOK, WatchedFiles
  <2>3. \A b \in (1 .. MaxChecks) \ {c} : checks'[b] = checks[b]
    BY <2>1 DEF TypeOK
  <2>4. \A g \in checks'[c].asked : checks'[c].answers[g] = Unknown
    BY <2>2, Unknowns
  <2>. QED BY <1>0, <1>5, <2>3, <2>4 DEF Event, buildVars
<1>6. ASSUME NEW c \in 1 .. MaxChecks, NEW f \in Files, CheckStats(c, f)
      PROVE  StatsOnce'
  <2>1. checks[c] \in Check
    BY DEF TypeOK
  <2>2. /\ checks'[c].asked = checks[c].asked \ {f}
        /\ checks'[c].answers = [checks[c].answers EXCEPT ![f] = disk[f]]
        /\ \A b \in (1 .. MaxChecks) \ {c} : checks'[b] = checks[b]
    BY <1>6, <2>1 DEF CheckStats, TypeOK, Check
  <2>3. \A g \in checks'[c].asked : checks'[c].answers[g] = Unknown
    BY <2>1, <2>2 DEF StatsOnce, Check, Contents
  <2>. QED BY <1>0, <1>6, <2>2, <2>3 DEF CheckStats, buildVars
<1>7. ASSUME NEW c \in 1 .. MaxChecks, NEW f \in Files, CheckResumes(c, f)
      PROVE  StatsOnce'
  <2>1. PICK next \in Check :
          /\ next.asked = checks[c].asked
          /\ next.answers = [checks[c].answers EXCEPT ![f] = Unknown]
          /\ checks' = [checks EXCEPT ![c] = next] \/ checks' = [checks EXCEPT ![c] = Idle]
    BY <1>7, CheckResumed
  <2>2. checks[c] \in Check
    BY DEF TypeOK
  <2>3. \A g \in next.asked : next.answers[g] = Unknown
    BY <2>1, <2>2 DEF StatsOnce, Check, Contents
  <2>4. \A g \in checks'[c].asked : checks'[c].answers[g] = Unknown
    <3>1. checks'[c] = next \/ checks'[c] = Idle
      BY <2>1 DEF TypeOK
    <3>2. Idle.asked = {}
      BY DEF Idle
    <3>. QED BY <2>3, <3>1, <3>2
  <2>5. \A b \in (1 .. MaxChecks) \ {c} : checks'[b] = checks[b]
    BY <2>1 DEF TypeOK
  <2>. QED BY <1>0, <1>7, <2>4, <2>5 DEF CheckResumes
<1>8. CASE TimerFires
  BY <1>3, <1>8 DEF TimerFires
<1>9. CASE PressR
  BY <1>3, <1>9 DEF PressR
<1>10. CASE (\E f \in Files : Save(f) \/ Delete(f)) \/ Quit \/ Resolve \/ ProgramExits
            \/ UNCHANGED vars
  BY <1>10 DEF StatsOnce, Save, Delete, Quit, Resolve, ProgramExits, vars, buildVars
<1>. QED
  BY <1>1, <1>2, <1>4, <1>5, <1>6, <1>7, <1>8, <1>9, <1>10 DEF Next, Callbacks

LEMMA CaptureIsCoveredStep ==
  ASSUME BuildInv, StatsOnce, CaptureIsCovered, [Next]_vars
  PROVE  CaptureIsCovered'
<1>. USE DEF BuildInv
<1> DEFINE Covered(f) ==
      \A e \in dependents[f] : e \in pending \/ \E c \in 1 .. MaxChecks : f \in checks[c].changed
<1>0. \A r \in runs, f \in Files :
        (f \in r.asked \/ r.answers[f] # Unknown) /\ signatures[f] # Unknown => Covered(f)
  BY DEF CaptureIsCovered
<1>1. ASSUME NEW r \in runs, NEW f \in Files, ReadFile(r, f)
      PROVE  CaptureIsCovered'
  <2>1. PICK s \in Run : /\ s.asked = r.asked /\ s.answers = r.answers
                         /\ runs' = (runs \ {r}) \cup {s}
    BY <1>1, RunReads
  <2>. QED BY <1>1, <2>1 DEF CaptureIsCovered, ReadFile, bookVars
<1>2. ASSUME NEW r \in runs, NEW f \in Files, CaptureStats(r, f)
      PROVE  CaptureIsCovered'
  <2>1. PICK s \in Run : /\ s.asked = r.asked \ {f}
                         /\ s.answers = [r.answers EXCEPT ![f] = disk[f]]
                         /\ runs' = (runs \ {r}) \cup {s}
    BY <1>2, RunStats
  <2>2. r \in Run /\ f \in r.asked
    BY <1>2 DEF TypeOK, CaptureStats
  <2>3. \A g \in Files : g \in s.asked \/ s.answers[g] # Unknown => g \in r.asked \/ r.answers[g] # Unknown
    BY <2>1, <2>2 DEF Run, Contents
  <2>. QED BY <1>2, <2>1, <2>3 DEF CaptureIsCovered, CaptureStats, bookVars
<1>3. ASSUME NEW r \in runs, NEW f \in Files, CaptureResumes(r, f)
      PROVE  CaptureIsCovered'
  <2>1. PICK s \in Run : /\ s.asked = r.asked
                         /\ s.answers = [r.answers EXCEPT ![f] = Unknown]
                         /\ runs' = (runs \ {r}) \cup {s}
    BY <1>3, RunResumes
  <2>2. r \in Run /\ f \notin r.asked
    BY <1>3 DEF TypeOK, CaptureResumes, StatsOnce
  <2>3. runs' = {s}
    BY <2>1 DEF FlagIsRight
  <2>4. \A g \in Files : g \in s.asked \/ s.answers[g] # Unknown =>
          g # f /\ (g \in r.asked \/ r.answers[g] # Unknown)
    BY <2>1, <2>2 DEF Run, Contents
  <2>5. \A g \in Files : g # f => signatures'[g] = signatures[g]
    BY <1>3 DEF CaptureResumes, TypeOK, Contents
  <2>. QED BY <1>3, <2>3, <2>4, <2>5 DEF CaptureIsCovered, CaptureResumes
<1>4. ASSUME NEW r \in runs, NEW ok \in BOOLEAN, Compiled(r, ok)
      PROVE  CaptureIsCovered'
  <2>1. PICK s \in Run : /\ s.asked = ToCapture(dependents') /\ s.answers = r.answers
                         /\ runs' = (runs \ {r}) \cup {s}
    BY <1>4, RunCompiled
  <2>2. r.answers = NothingRead
    BY <1>4 DEF StatsOnce, Compiled
  <2>3. runs' = {s}
    BY <2>1 DEF FlagIsRight
  <2>4. \A f \in s.asked : signatures'[f] = Unknown
    BY <1>4, <2>1 DEF ToCapture, Compiled
  <2>. QED BY <2>1, <2>2, <2>3, <2>4, Unknowns DEF CaptureIsCovered
<1>5. ASSUME UNCHANGED <<signatures, dependents, checks>>,
             \A s \in runs' : \/ s \in runs /\ pending \subseteq pending'
                              \/ s.asked = {} /\ s.answers = NothingRead
      PROVE  CaptureIsCovered'
  BY <1>5, Unknowns DEF CaptureIsCovered
<1>6. ASSUME NEW targets, NEW others, NEW left, NEW busy,
             Rebuild(targets, others, left, busy), left \subseteq runs,
             busy => pending \subseteq others \cup targets, ~busy => left = {},
             UNCHANGED <<signatures, dependents, checks>>
      PROVE  CaptureIsCovered'
  <2>1. CASE busy
    BY <1>5, <1>6, <2>1 DEF Rebuild
  <2>2. CASE ~busy
    BY <1>5, <1>6, <2>2 DEF Rebuild, NewRun
  <2>. QED BY <2>1, <2>2
<1>7. ASSUME NEW r \in runs, Finish(r)
      PROVE  CaptureIsCovered'
  <2>1. runs \ {r} = {}
    BY DEF FlagIsRight
  <2>2. CASE runs' = {}
    BY <2>2 DEF CaptureIsCovered
  <2>3. CASE Rebuild(pending, {}, runs \ {r}, FALSE)
    BY <1>6, <1>7, <2>1, <2>3 DEF Finish
  <2>. QED BY <1>7, <2>1, <2>2, <2>3 DEF Finish
<1>8. ASSUME NEW b \in 1 .. MaxChecks,
             UNCHANGED <<signatures, dependents, runs, pending>>,
             \A c \in 1 .. MaxChecks : checks[c].changed \subseteq checks'[c].changed
      PROVE  CaptureIsCovered'
  BY <1>8 DEF CaptureIsCovered
<1>9. ASSUME NEW d \in Dirs, Event(d)
      PROVE  CaptureIsCovered'
  <2>1. PICK c \in 1 .. MaxChecks :
          checks[c] = Idle /\ checks' = [checks EXCEPT ![c].asked = WatchedFiles(dependents)]
    BY <1>9 DEF Event
  <2>2. \A b \in 1 .. MaxChecks : checks'[b].changed = checks[b].changed
    BY <2>1 DEF TypeOK, Check
  <2>. QED BY <1>8, <1>9, <2>2 DEF Event, bookVars, buildVars
<1>10. ASSUME NEW c \in 1 .. MaxChecks, NEW f \in Files, CheckStats(c, f)
       PROVE  CaptureIsCovered'
  <2>1. \A b \in 1 .. MaxChecks : checks'[b].changed = checks[b].changed
    BY <1>10 DEF CheckStats, TypeOK, Check
  <2>. QED BY <1>8, <1>10, <2>1 DEF CheckStats, bookVars, buildVars
<1>11. ASSUME NEW c \in 1 .. MaxChecks, NEW f \in Files, CheckResumes(c, f)
       PROVE  CaptureIsCovered'
  <2>1. PICK next \in Check, differs \in BOOLEAN :
          /\ differs <=> checks[c].answers[f] # Missing /\ signatures[f] # checks[c].answers[f]
          /\ next.asked = checks[c].asked
          /\ next.answers = [checks[c].answers EXCEPT ![f] = Unknown]
          /\ next.changed = checks[c].changed \cup (IF differs THEN {f} ELSE {})
          /\ signatures' = IF differs THEN [signatures EXCEPT ![f] = checks[c].answers[f]]
                           ELSE signatures
          /\ IF next.asked = {} /\ next.answers = NothingRead
             THEN /\ checks' = [checks EXCEPT ![c] = Idle]
                  /\ pending' = pending \cup EntriesFor(next.changed)
             ELSE checks' = [checks EXCEPT ![c] = next] /\ pending' = pending
    BY <1>11, CheckResumed
  <2>2. ASSUME NEW g \in Files,
               Covered(g) \/ g \in next.changed
        PROVE  Covered(g)'
    <3>1. dependents' = dependents /\ pending \subseteq pending'
      BY <1>11, <2>1 DEF CheckResumes
    <3>2. \A b \in (1 .. MaxChecks) \ {c} : checks'[b] = checks[b]
      BY <2>1 DEF TypeOK
    <3>3. CASE g \in next.changed
      <4>1. CASE checks' = [checks EXCEPT ![c] = next]
        BY <3>3, <4>1 DEF TypeOK
      <4>2. CASE pending' = pending \cup EntriesFor(next.changed)
        BY <3>1, <3>3, <4>2 DEF EntriesFor
      <4>. QED BY <2>1, <4>1, <4>2
    <3>4. CASE Covered(g) /\ g \notin next.changed
      BY <2>1, <3>1, <3>2, <3>4
    <3>. QED BY <2>2, <3>3, <3>4
  <2>3. \A g \in Files : signatures'[g] # signatures[g] => g \in next.changed
    BY <2>1 DEF TypeOK, Contents
  <2>4. runs' = runs
    BY <1>11 DEF CheckResumes
  <2>5. \A r \in runs', g \in Files :
          (g \in r.asked \/ r.answers[g] # Unknown) /\ signatures'[g] # Unknown => Covered(g)'
    BY <1>0, <2>2, <2>3, <2>4
  <2>. QED BY <2>5 DEF CaptureIsCovered
<1>12. CASE TimerFires
  <2>1. ~building => runs = {}
    BY <1>12 DEF TimerFires, FlagIsRight, FirstIsAlone
  <2>. QED BY <1>6, <1>12, <2>1 DEF TimerFires, bookVars
<1>13. CASE PressR
  <2>1. ~building => runs = {}
    BY <1>13 DEF PressR, FlagIsRight
  <2>. QED BY <1>6, <1>13, <2>1 DEF PressR, bookVars
<1>14. CASE (\E f \in Files : Save(f) \/ Delete(f)) \/ Quit \/ Resolve \/ ProgramExits
            \/ UNCHANGED vars
  BY <1>14 DEF CaptureIsCovered, Save, Delete, Quit, Resolve, ProgramExits, vars,
     bookVars, buildVars
<1>. QED
  BY <1>1, <1>2, <1>3, <1>4, <1>7, <1>9, <1>10, <1>11, <1>12, <1>13, <1>14
     DEF Next, Callbacks

\* What a build compiled of an entry is all of what it reaches, and the entry
\* enters the graph of every file of it.
LEMMA CompiledRecords ==
  ASSUME BuildInv, OnlyVersions, deletes = 0, NEW r \in runs, NEW ok \in BOOLEAN,
         Compiled(r, ok), NEW e \in r.targets, NEW f \in Reach(r.read, e)
  PROVE  f \in Files /\ r.read[f] \in Versions /\ e \in dependents'[f]
<1>1. r \in Run /\ e \in Entries /\ e \in Files /\ f \in Files
  BY WatchAssumption DEF BuildInv, TypeOK, Run, Reach
<1>2. \A g \in Files : g \in Reach(r.read, e) => r.read[g] \in Versions
  <2>. SUFFICES ASSUME NEW g \in Files, g \in Reach(r.read, e)
                PROVE  r.read[g] \in Versions
    OBVIOUS
  <2>1. r.read[g] # Unknown
    BY DEF Compiled
  <2>2. r.read[g] \in UpTo(latest[g])
    BY DEF OnlyVersions
  <2>. QED BY <2>1, <2>2, DiskHolds DEF BuildInv
<1>3. e \in Reach(r.read, e)
  BY <1>1 DEF Reach
<1>4. e \in Present(r.read) /\ f \in Present(r.read)
  BY <1>1, <1>2, <1>3 DEF Present
<1>5. e \in dependents'[f]
  BY <1>1, <1>4 DEF Compiled, RecordGraphs, Modules
<1>. QED BY <1>1, <1>2, <1>5

LEMMA SavesArriveStep ==
  ASSUME BuildInv, BookInv, SavesArrive, [Next]_vars
  PROVE  SavesArrive'
<1>. SUFFICES ASSUME deletes' = 0, phase' \in {"first", "watching"},
                     NEW e \in Entries, NEW f \in Files,
                     audience'[f].heard, e \in audience'[f].entries
              PROVE  OnItsWay(e, f)'
  BY DEF SavesArrive
<1>0. TypeOK /\ FlagIsRight /\ FirstIsAlone /\ OnlyVersions /\ StatsOnce /\ CaptureIsCovered
  BY DEF BuildInv, BookInv
<1>1. deletes = 0
  BY <1>0, NoneVanished
<1>2. phase \in {"first", "watching"}
  BY DEF Next, Callbacks, Save, Delete, ReadFile, CaptureStats, CaptureResumes,
     Compiled, Finish, Event, CheckStats, CheckResumes, TimerFires, PressR, Quit,
     Resolve, ProgramExits, vars
<1>3. disk[f] \in Versions /\ disk[f] # Unknown /\ disk[f] # Missing
  BY <1>0, <1>1, DiskHolds
<1>4. ASSUME UNCHANGED audience
      PROVE  OnItsWay(e, f)
  BY <1>1, <1>2, <1>4 DEF SavesArrive
<1>5. ASSUME UNCHANGED <<dependents, signatures, pending, runs, output>>, disk'[f] = disk[f],
             notified \subseteq notified', OnItsWay(e, f),
             \A c \in 1 .. MaxChecks :
               /\ checks[c].changed \subseteq checks'[c].changed
               /\ f \in checks[c].asked \/ checks[c].answers[f] = disk[f] =>
                    f \in checks'[c].asked \/ checks'[c].answers[f] = disk[f]
      PROVE  OnItsWay(e, f)'
  <2>1. Noticing(e, f) => Noticing(e, f)'
    BY <1>5 DEF Noticing
  <2>2. Noticed(e, f) => Noticed(e, f)'
    BY <1>5 DEF Noticed
  <2>3. Due(e, f) => Due(e, f)'
    BY <1>5 DEF Due
  <2>4. Settled(e, f) => Settled(e, f)'
    BY <1>5 DEF Settled
  <2>. QED BY <1>5, <2>1, <2>2, <2>3, <2>4 DEF OnItsWay
<1>6. ASSUME NEW g \in Files, Save(g)
      PROVE  OnItsWay(e, f)'
  <2>1. CASE g = f
    <3>1. /\ signatures[f] # Unknown /\ watchers[Dir[f]] = "open"
          /\ e \in dependents[f] /\ Dir[f] \in notified'
      BY <1>0, <1>6, <2>1 DEF Save, Notify, Hears, TypeOK
    <3>2. disk'[f] = latest[f] + 1
      BY <1>0, <1>6, <2>1 DEF Save, TypeOK
    <3>3. latest[f] \in Nat /\ signatures[f] \in UpTo(latest[f])
      BY <1>0, <1>1 DEF OnlyVersions, TypeOK, Versions
    <3>4. signatures[f] # disk'[f]
      BY <3>2, <3>3 DEF UpTo, Unknown
    <3>. QED BY <1>6, <3>1, <3>4 DEF OnItsWay, Noticing, Save, bookVars
  <2>2. CASE g # f
    <3>1. audience'[f] = audience[f] /\ disk'[f] = disk[f] /\ notified \subseteq notified'
      BY <1>0, <1>6, <2>2 DEF Save, Notify, TypeOK
    <3>2. OnItsWay(e, f)
      BY <1>1, <1>2, <3>1 DEF SavesArrive
    <3>. QED BY <1>5, <1>6, <3>1, <3>2 DEF Save, bookVars, buildVars
  <2>. QED BY <2>1, <2>2
<1>7. ASSUME NEW r \in runs, NEW s, UNCHANGED <<audience, disk, pending, output>>,
             s.targets = r.targets, s.stage = r.stage,
             s.read[f] \in {r.read[f], disk[f]} \/ s.stage # "compiling",
             runs' = (runs \ {r}) \cup {s}
      PROVE  (Due(e, f) => Due(e, f)') /\ (Settled(e, f) => Settled(e, f)')
  <2>1. Due(e, f) => Due(e, f)'
    BY <1>7 DEF Due
  <2>2. Settled(e, f) => Settled(e, f)'
    BY <1>7 DEF Settled
  <2>. QED BY <2>1, <2>2
<1>8. ASSUME NEW r \in runs, NEW g \in Files,
             ReadFile(r, g) \/ CaptureStats(r, g) \/ CaptureResumes(r, g)
      PROVE  OnItsWay(e, f)'
  <2>1. r \in Run
    BY <1>0 DEF TypeOK
  <2>2. OnItsWay(e, f)
    BY <1>4, <1>8 DEF ReadFile, CaptureStats, CaptureResumes, diskVars
  <2>3. CASE ReadFile(r, g)
    <3>1. PICK s \in Run : /\ s.targets = r.targets /\ s.stage = r.stage
                           /\ s.read = [r.read EXCEPT ![g] = disk[g]]
                           /\ s.asked = r.asked /\ s.answers = r.answers
                           /\ runs' = (runs \ {r}) \cup {s}
      BY <1>0, <2>3, RunReads
    <3>2. s.read[f] \in {r.read[f], disk[f]}
      BY <2>1, <3>1 DEF Run, Contents
    <3>3. (Due(e, f) => Due(e, f)') /\ (Settled(e, f) => Settled(e, f)')
      BY <1>7, <2>3, <3>1, <3>2 DEF ReadFile, diskVars
    <3>4. (Noticing(e, f) => Noticing(e, f)') /\ (Noticed(e, f) => Noticed(e, f)')
      BY <2>3 DEF ReadFile, diskVars, bookVars, Noticing, Noticed
    <3>. QED BY <2>2, <3>3, <3>4 DEF OnItsWay
  <2>4. CASE CaptureStats(r, g)
    <3>1. PICK s \in Run : /\ s.targets = r.targets /\ s.stage = r.stage /\ s.read = r.read
                           /\ s.asked = r.asked \ {g}
                           /\ s.answers = [r.answers EXCEPT ![g] = disk[g]]
                           /\ runs' = (runs \ {r}) \cup {s}
      BY <1>0, <2>4, RunStats
    <3>2. (Due(e, f) => Due(e, f)') /\ (Settled(e, f) => Settled(e, f)')
      BY <1>7, <2>4, <3>1 DEF CaptureStats, diskVars
    <3>3. (Noticing(e, f) => Noticing(e, f)') /\ (Noticed(e, f) => Noticed(e, f)')
      BY <2>4 DEF CaptureStats, diskVars, bookVars, Noticing, Noticed
    <3>. QED BY <2>2, <3>2, <3>3 DEF OnItsWay
  <2>5. CASE CaptureResumes(r, g)
    <3>1. PICK s \in Run : /\ s.targets = r.targets /\ s.stage = r.stage /\ s.read = r.read
                           /\ s.asked = r.asked
                           /\ s.answers = [r.answers EXCEPT ![g] = Unknown]
                           /\ runs' = (runs \ {r}) \cup {s}
      BY <1>0, <2>5, RunResumes
    <3>2. (Due(e, f) => Due(e, f)') /\ (Settled(e, f) => Settled(e, f)')
      BY <1>7, <2>5, <3>1 DEF CaptureResumes, diskVars
    <3>3. Noticed(e, f) => Noticed(e, f)'
      BY <2>5 DEF CaptureResumes, Noticed
    <3>4. ASSUME Noticing(e, f)
          PROVE  OnItsWay(e, f)'
      <4>1. CASE g = f /\ r.answers[f] = disk[f]
        <5>1. e \in pending \/ \E c \in 1 .. MaxChecks : f \in checks[c].changed
          BY <1>0, <1>3, <3>4, <4>1 DEF CaptureIsCovered, Noticing
        <5>. QED BY <2>5, <3>4, <5>1 DEF CaptureResumes, OnItsWay, Due, Noticed, Noticing
      <4>2. CASE ~(g = f /\ r.answers[f] = disk[f])
        <5>1. signatures'[f] # Unknown /\ signatures'[f] # disk[f]
          BY <1>0, <2>5, <3>4, <4>2 DEF CaptureResumes, Noticing, TypeOK, Contents
        <5>. QED BY <2>5, <3>4, <5>1 DEF CaptureResumes, diskVars, OnItsWay, Noticing
      <4>. QED BY <4>1, <4>2
    <3>. QED BY <2>2, <3>2, <3>3, <3>4 DEF OnItsWay
  <2>. QED BY <1>8, <2>3, <2>4, <2>5
<1>9. ASSUME NEW r \in runs, NEW ok \in BOOLEAN, Compiled(r, ok)
      PROVE  OnItsWay(e, f)'
  <2>1. PICK s \in Run : /\ s.targets = r.targets /\ s.stage = "capturing"
                         /\ runs' = (runs \ {r}) \cup {s}
    BY <1>0, <1>9, RunCompiled
  <2>2. runs' = {s} /\ runs = {r} /\ r \in Run
    BY <1>0, <2>1 DEF FlagIsRight, TypeOK
  <2>3. OnItsWay(e, f)
    BY <1>4, <1>9 DEF Compiled, diskVars
  <2>4. CASE e \notin r.targets
    <3>1. output'[e] = output[e] /\ (e \in dependents[f] => e \in dependents'[f])
      BY <1>9, <2>4 DEF Compiled, RecordGraphs
    <3>2. Noticing(e, f) => Noticing(e, f)'
      BY <1>9, <3>1 DEF Compiled, diskVars, Noticing
    <3>3. Noticed(e, f) => Noticed(e, f)'
      BY <1>9, <3>1 DEF Compiled, Noticed
    <3>4. Due(e, f) => Due(e, f)'
      BY <1>9, <2>2, <2>4 DEF Compiled, Due
    <3>5. Settled(e, f) => Settled(e, f)'
      BY <1>9, <2>1, <2>2, <3>1 DEF Compiled, diskVars, Settled
    <3>. QED BY <2>3, <3>2, <3>3, <3>4, <3>5 DEF OnItsWay
  <2>5. CASE e \in r.targets /\ f \notin Reach(r.read, e)
    <3>1. output'[e] = r.read
      BY <1>9, <2>5 DEF Compiled
    <3>. QED BY <2>1, <2>2, <2>5, <3>1 DEF OnItsWay, Settled
  <2>6. CASE e \in r.targets /\ f \in Reach(r.read, e)
    <3>1. output'[e] = r.read
      BY <1>9, <2>6 DEF Compiled
    <3>2. r.read[f] \in Versions /\ e \in dependents'[f]
      BY <1>0, <1>1, <1>9, <2>6, CompiledRecords
    <3>3. r.read[f] # Unknown
      BY <3>2, WatchAssumption DEF Versions, Unknown
    <3>4. r.stage = "compiling"
      BY <1>9 DEF Compiled
    <3>5. Noticing(e, f) => Noticing(e, f)'
      BY <1>9, <3>2 DEF Compiled, diskVars, Noticing
    <3>6. Noticed(e, f) => Noticed(e, f)'
      BY <1>9, <3>2 DEF Compiled, Noticed
    <3>7. r.read[f] = disk[f] => Settled(e, f)'
      BY <1>9, <2>1, <2>2, <3>1 DEF Compiled, diskVars, Settled
    <3>8. Due(e, f) => Due(e, f)' \/ Settled(e, f)'
      BY <1>9, <2>2, <3>3, <3>7 DEF Compiled, Due
    <3>9. Settled(e, f) => Settled(e, f)'
      BY <2>2, <2>6, <3>3, <3>4, <3>7 DEF Settled
    <3>. QED BY <2>3, <3>5, <3>6, <3>8, <3>9 DEF OnItsWay
  <2>. QED BY <2>4, <2>5, <2>6
<1>10. ASSUME NEW targets, NEW others, NEW left, NEW busy,
              Rebuild(targets, others, left, busy), left \subseteq runs,
              pending \subseteq others \cup targets, ~busy => left = {},
              \A r \in runs : r \in left \/ r.stage # "compiling",
              UNCHANGED <<signatures, dependents, checks, disk, audience, notified, output>>
       PROVE  OnItsWay(e, f)'
  <2>1. OnItsWay(e, f)
    BY <1>4, <1>10
  <2>2. /\ Noticing(e, f) => Noticing(e, f)'
        /\ Noticed(e, f) => Noticed(e, f)'
    BY <1>10 DEF Noticing, Noticed
  <2>3. CASE busy
    <3>1. Due(e, f) => Due(e, f)'
      BY <1>10, <2>3 DEF Rebuild, Due
    <3>2. Settled(e, f) => Settled(e, f)'
      BY <1>10, <2>3 DEF Rebuild, Settled
    <3>. QED BY <2>1, <2>2, <3>1, <3>2 DEF OnItsWay
  <2>4. CASE ~busy
    <3>1. /\ NewRun(targets).read[f] = Unknown
          /\ NewRun(targets).targets = targets
          /\ NewRun(targets).stage = "compiling"
      BY Unknowns DEF NewRun
    <3>2. pending' = others /\ runs' = {NewRun(targets)}
      BY <1>10, <2>4 DEF Rebuild
    <3>3. Due(e, f) => Due(e, f)'
      BY <1>10, <2>4, <3>1, <3>2 DEF Due
    <3>4. Settled(e, f) => Settled(e, f)'
      BY <1>10, <3>1, <3>2 DEF Settled
    <3>. QED BY <2>1, <2>2, <3>3, <3>4 DEF OnItsWay
  <2>. QED BY <2>3, <2>4
<1>11. ASSUME NEW r \in runs, Finish(r)
       PROVE  OnItsWay(e, f)'
  <2>1. runs = {r} /\ r.stage # "compiling"
    BY <1>0, <1>11 DEF FlagIsRight, Finish
  <2>2. CASE runs' = runs \ {r} /\ UNCHANGED pending
    <3>1. OnItsWay(e, f)
      BY <1>4, <1>11 DEF Finish, diskVars
    <3>2. (Due(e, f) => Due(e, f)') /\ (Settled(e, f) => Settled(e, f)')
      BY <1>11, <2>1, <2>2 DEF Finish, diskVars, Due, Settled
    <3>3. (Noticing(e, f) => Noticing(e, f)') /\ (Noticed(e, f) => Noticed(e, f)')
      BY <1>11 DEF Finish, diskVars, Noticing, Noticed
    <3>. QED BY <3>1, <3>2, <3>3 DEF OnItsWay
  <2>3. CASE Rebuild(pending, {}, runs \ {r}, FALSE)
    <3>1. /\ runs \ {r} = {} /\ pending \subseteq {} \cup pending
          /\ \A s \in runs : s \in runs \ {r} \/ s.stage # "compiling"
      BY <2>1
    <3>2. UNCHANGED <<signatures, dependents, checks, disk, audience, notified, output>>
      BY <1>11 DEF Finish, diskVars
    <3>. QED BY <1>10, <2>3, <3>1, <3>2
  <2>4. \/ runs' = runs \ {r} /\ UNCHANGED pending
        \/ Rebuild(pending, {}, runs \ {r}, FALSE)
    BY <1>11 DEF Finish
  <2>. QED BY <2>2, <2>3, <2>4
<1>12. ASSUME NEW d \in Dirs, Event(d)
       PROVE  OnItsWay(e, f)'
  <2>1. PICK c \in 1 .. MaxChecks :
          checks[c] = Idle /\ checks' = [checks EXCEPT ![c].asked = WatchedFiles(dependents)]
    BY <1>12 DEF Event
  <2>2. checks[c] \in Check
    BY <1>0 DEF TypeOK
  <2>3. /\ checks'[c].asked = WatchedFiles(dependents)
        /\ checks[c].asked = {} /\ checks[c].answers[f] = Unknown
        /\ \A b \in 1 .. MaxChecks : checks'[b].changed = checks[b].changed
        /\ \A b \in (1 .. MaxChecks) \ {c} : checks'[b] = checks[b]
    <3>1. checks'[c] = [checks[c] EXCEPT !.asked = WatchedFiles(dependents)]
      BY <1>0, <2>1 DEF TypeOK
    <3>2. \A b \in (1 .. MaxChecks) \ {c} : checks'[b] = checks[b]
      BY <1>0, <2>1 DEF TypeOK
    <3>3. /\ checks'[c].asked = WatchedFiles(dependents)
          /\ checks'[c].changed = checks[c].changed
      BY <2>2, <3>1 DEF Check
    <3>4. checks[c].asked = {} /\ checks[c].answers[f] = Unknown
      BY <2>1, Unknowns DEF Idle
    <3>. QED BY <3>2, <3>3, <3>4
  <2>4. OnItsWay(e, f)
    BY <1>4, <1>12 DEF Event, diskVars
  <2>5. Noticing(e, f) => Noticing(e, f)'
    <3>. SUFFICES ASSUME Noticing(e, f) PROVE Noticing(e, f)'
      OBVIOUS
    <3>1. UNCHANGED <<dependents, signatures, disk>>
      BY <1>12 DEF Event, diskVars, bookVars
    <3>2. CASE Dir[f] \in notified
      <4>1. CASE Dir[f] # d
        BY <1>12, <3>1, <3>2, <4>1 DEF Event, Noticing
      <4>2. CASE Dir[f] = d
        <5>1. f \in WatchedFiles(dependents)
          BY DEF Noticing, WatchedFiles
        <5>. QED BY <2>3, <3>1, <5>1 DEF Noticing
      <4>. QED BY <4>1, <4>2
    <3>3. CASE \E b \in 1 .. MaxChecks : f \in checks[b].asked \/ checks[b].answers[f] = disk[f]
      <4>1. PICK b \in 1 .. MaxChecks : f \in checks[b].asked \/ checks[b].answers[f] = disk[f]
        BY <3>3
      <4>2. b # c
        BY <1>3, <2>3, <4>1
      <4>. QED BY <2>3, <3>1, <4>1, <4>2 DEF Noticing
    <3>. QED BY <3>2, <3>3 DEF Noticing
  <2>6. /\ Noticed(e, f) => Noticed(e, f)'
        /\ Due(e, f) => Due(e, f)'
        /\ Settled(e, f) => Settled(e, f)'
    BY <1>12, <2>3 DEF Event, diskVars, bookVars, buildVars, Noticed, Due, Settled
  <2>. QED BY <2>4, <2>5, <2>6 DEF OnItsWay
<1>13. ASSUME NEW c \in 1 .. MaxChecks, NEW g \in Files, CheckStats(c, g)
       PROVE  OnItsWay(e, f)'
  <2>1. checks[c] \in Check
    BY <1>0 DEF TypeOK
  <2>2. /\ checks'[c].asked = checks[c].asked \ {g}
        /\ checks'[c].answers = [checks[c].answers EXCEPT ![g] = disk[g]]
        /\ checks'[c].changed = checks[c].changed
        /\ \A b \in (1 .. MaxChecks) \ {c} : checks'[b] = checks[b]
    BY <1>0, <1>13, <2>1 DEF CheckStats, TypeOK, Check
  <2>3. \A b \in 1 .. MaxChecks :
          /\ checks[b].changed \subseteq checks'[b].changed
          /\ f \in checks[b].asked \/ checks[b].answers[f] = disk[f] =>
               f \in checks'[b].asked \/ checks'[b].answers[f] = disk[f]
    BY <2>1, <2>2 DEF Check, Contents
  <2>4. OnItsWay(e, f)
    BY <1>4, <1>13 DEF CheckStats, diskVars
  <2>. QED BY <1>5, <1>13, <2>3, <2>4 DEF CheckStats, diskVars, bookVars, buildVars
<1>14. ASSUME NEW c \in 1 .. MaxChecks, NEW g \in Files, CheckResumes(c, g)
       PROVE  OnItsWay(e, f)'
  <2>1. PICK next \in Check, differs \in BOOLEAN :
          /\ differs <=> checks[c].answers[g] # Missing /\ signatures[g] # checks[c].answers[g]
          /\ next.asked = checks[c].asked
          /\ next.answers = [checks[c].answers EXCEPT ![g] = Unknown]
          /\ next.changed = checks[c].changed \cup (IF differs THEN {g} ELSE {})
          /\ signatures' = IF differs THEN [signatures EXCEPT ![g] = checks[c].answers[g]]
                           ELSE signatures
          /\ IF next.asked = {} /\ next.answers = NothingRead
             THEN /\ checks' = [checks EXCEPT ![c] = Idle]
                  /\ pending' = pending \cup EntriesFor(next.changed)
             ELSE checks' = [checks EXCEPT ![c] = next] /\ pending' = pending
    BY <1>0, <1>14, CheckResumed
  <2>2. checks[c] \in Check
    BY <1>0 DEF TypeOK
  <2>3. OnItsWay(e, f)
    BY <1>4, <1>14 DEF CheckResumes, diskVars
  <2>4. UNCHANGED <<dependents, disk, runs, output, notified>> /\ pending \subseteq pending'
    BY <1>14, <2>1 DEF CheckResumes, diskVars
  <2>5. \A b \in (1 .. MaxChecks) \ {c} : checks'[b] = checks[b]
    BY <1>0, <2>1 DEF TypeOK
  <2>6. (Due(e, f) => Due(e, f)') /\ (Settled(e, f) => Settled(e, f)')
    BY <2>4 DEF Due, Settled
  <2>7. ASSUME e \in dependents[f], f \in next.changed
        PROVE  OnItsWay(e, f)'
    <3>1. CASE checks' = [checks EXCEPT ![c] = next]
      BY <1>0, <2>4, <2>7, <3>1 DEF TypeOK, OnItsWay, Noticed
    <3>2. CASE pending' = pending \cup EntriesFor(next.changed)
      BY <2>7, <3>2 DEF EntriesFor, OnItsWay, Due
    <3>. QED BY <2>1, <3>1, <3>2
  <2>8. Noticed(e, f) => OnItsWay(e, f)'
    <3>. SUFFICES ASSUME Noticed(e, f) PROVE OnItsWay(e, f)'
      OBVIOUS
    <3>1. PICK b \in 1 .. MaxChecks : f \in checks[b].changed
      BY DEF Noticed
    <3>2. CASE b = c
      BY <2>1, <2>7, <3>1, <3>2 DEF Noticed
    <3>3. CASE b # c
      BY <2>4, <2>5, <3>1, <3>3 DEF Noticed, OnItsWay
    <3>. QED BY <3>2, <3>3
  <2>9. Noticing(e, f) => OnItsWay(e, f)'
    <3>. SUFFICES ASSUME Noticing(e, f) PROVE OnItsWay(e, f)'
      OBVIOUS
    <3>1. CASE g = f /\ differs
      BY <2>1, <2>7, <3>1 DEF Noticing
    <3>2. CASE ~(g = f /\ differs)
      <4>1. signatures'[f] = signatures[f]
        BY <1>0, <2>1, <3>2 DEF TypeOK, Contents
      <4>2. CASE Dir[f] \in notified
        BY <2>4, <4>1, <4>2 DEF Noticing, OnItsWay
      <4>3. CASE \E b \in 1 .. MaxChecks : f \in checks[b].asked \/ checks[b].answers[f] = disk[f]
        <5>1. PICK b \in 1 .. MaxChecks : f \in checks[b].asked \/ checks[b].answers[f] = disk[f]
          BY <4>3
        <5>2. CASE b # c
          BY <2>4, <2>5, <4>1, <5>1, <5>2 DEF Noticing, OnItsWay
        <5>3. CASE b = c
          <6>1. CASE g = f
            <7>1. checks[c].answers[f] # Unknown /\ checks[c].answers[f] # disk[f]
              BY <1>3, <1>14, <2>1, <3>2, <6>1 DEF CheckResumes, Noticing
            <7>. QED BY <1>0, <5>1, <5>3, <7>1 DEF StatsOnce
          <6>2. CASE g # f
            <7>1. f \in next.asked \/ next.answers[f] = disk[f]
              BY <2>1, <2>2, <5>1, <5>3, <6>2 DEF Check, Contents
            <7>2. ~(next.asked = {} /\ next.answers = NothingRead)
              BY <1>3, <7>1, Unknowns
            <7>3. checks'[c] = next
              BY <1>0, <2>1, <7>2 DEF TypeOK
            <7>. QED BY <2>4, <4>1, <7>1, <7>3 DEF Noticing, OnItsWay
          <6>. QED BY <6>1, <6>2
        <5>. QED BY <5>2, <5>3
      <4>. QED BY <4>2, <4>3 DEF Noticing
    <3>. QED BY <3>1, <3>2
  <2>. QED BY <2>3, <2>6, <2>8, <2>9 DEF OnItsWay
<1>15. CASE TimerFires
  <2>1. ~building => runs = {}
    BY <1>0, <1>15 DEF TimerFires, FlagIsRight, FirstIsAlone
  <2>. QED BY <1>10, <1>15, <2>1 DEF TimerFires, diskVars, bookVars
<1>16. CASE PressR
  <2>1. ~building => runs = {}
    BY <1>0, <1>16 DEF PressR, FlagIsRight
  <2>. QED BY <1>10, <1>16, <2>1 DEF PressR, diskVars, bookVars
<1>17. CASE Quit \/ Resolve
  BY <1>0, <1>17 DEF Quit, Resolve
<1>18. CASE ProgramExits \/ UNCHANGED vars
  <2>1. UNCHANGED <<diskVars, notified, bookVars, buildVars, checks, output>>
    BY <1>18 DEF ProgramExits, vars
  <2>. QED BY <1>4, <1>5, <2>1 DEF diskVars, bookVars, buildVars
<1>19. ASSUME NEW g \in Files, Delete(g)
       PROVE  OnItsWay(e, f)'
  BY <1>0, <1>1, <1>19 DEF Delete, TypeOK
<1>. QED
  BY <1>6, <1>8, <1>9, <1>11, <1>12, <1>13, <1>14, <1>15, <1>16, <1>17, <1>18, <1>19
     DEF Next, Callbacks

\* A save the session was told of is rebuilt: whatever falls between the reads of
\* a build, the stats of overlapping checks, the timer and the recording of
\* graphs, the session does not rest on an older version of a file it knew.
THEOREM SavesAreRebuilt == Spec => []KnownSavesAreRebuilt
<1>1. Init => SaveInv
  <2>. SUFFICES ASSUME Init PROVE SaveInv
    OBVIOUS
  <2>1. \A e \in Entries, f \in Files : Due(e, f)
    BY Unknowns DEF Init, Due, NewRun
  <2>2. SavesArrive
    BY <2>1 DEF SavesArrive, OnItsWay
  <2>. QED BY <2>2, BuildInvInit, BookInit DEF SaveInv
<1>2. SaveInv /\ [Next]_vars => SaveInv'
  <2>. SUFFICES ASSUME SaveInv, [Next]_vars PROVE SaveInv'
    OBVIOUS
  <2>1. BuildInv /\ BookInv /\ SavesArrive
    BY DEF SaveInv
  <2>2. BuildInv'
    BY <2>1, BuildInvStep
  <2>3. TypeOK /\ OnlyVersions /\ StatsOnce /\ CaptureIsCovered
    BY <2>1 DEF BuildInv, BookInv
  <2>4. OnlyVersions'
    BY <2>3, OnlyVersionsStep
  <2>5. StatsOnce'
    BY <2>3, StatsOnceStep
  <2>6. CaptureIsCovered'
    BY <2>1, <2>3, CaptureIsCoveredStep
  <2>7. SavesArrive'
    BY <2>1, SavesArriveStep
  <2>. QED BY <2>2, <2>4, <2>5, <2>6, <2>7 DEF SaveInv, BookInv
<1>3. SaveInv => KnownSavesAreRebuilt
  <2>. SUFFICES ASSUME SaveInv, deletes = 0, AtRest, NEW e \in Entries, NEW f \in Files,
                       audience[f].heard, e \in audience[f].entries
                PROVE  ~Stale(e, f)
    BY DEF KnownSavesAreRebuilt
  <2>1. OnItsWay(e, f)
    BY DEF SaveInv, SavesArrive, AtRest
  <2>2. disk[f] # Unknown
    BY DiskHolds DEF SaveInv, BuildInv, BookInv
  <2>3. \A c \in 1 .. MaxChecks :
          checks[c].asked = {} /\ checks[c].answers[f] = Unknown /\ checks[c].changed = {}
    BY Unknowns DEF AtRest, Idle
  <2>4. ~Noticing(e, f) /\ ~Noticed(e, f) /\ ~Due(e, f)
    BY <2>2, <2>3 DEF AtRest, Noticing, Noticed, Due
  <2>. QED BY <2>1, <2>4 DEF OnItsWay, Settled, Stale
<1>. QED BY <1>1, <1>2, <1>3, PTL DEF Spec
=============================================================================
