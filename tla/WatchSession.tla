---------------------------- MODULE WatchSession ----------------------------
(***************************************************************************)
(* A watch session of the command line (packages/cli/src/watch.ts).        *)
(*                                                                         *)
(* Editors change files on disk at any moment.  The session is one event   *)
(* loop: every callback and every continuation of an await is one action.  *)
(* A build reads its files one by one; a stat is evaluated at one moment   *)
(* and resumed at a later one; several checkForChanges may be underway.    *)
(*                                                                         *)
(* The contents of a file are its version, counted per file, which its     *)
(* signature (mtime and size) tells apart from every other version.  What  *)
(* the user sees - reports, footer, screen clearing - is left out.         *)
(***************************************************************************)
EXTENDS Integers, FiniteSets

CONSTANTS
  Files,        \* the sources that exist at some time
  Entries,      \* plan.inputFileNames
  Dir,          \* the directory of every file
  Imports,      \* Imports[f][v]: the files version v of f names
  Execute,      \* --execute
  MaxVersions,  \* bound: how many versions a file goes through
  MaxDeletes,   \* bound: how many times a file vanishes
  MaxKeys,      \* bound: how often r is pressed
  MaxChecks     \* bound: how many checkForChanges are underway at once

Versions == 1 .. MaxVersions
Missing == 0
Unknown == -1
OnDisk == Versions \cup {Missing}
Dirs == {Dir[f] : f \in Files}

ASSUME WatchAssumption ==
  /\ IsFiniteSet(Files)
  /\ Entries \subseteq Files
  /\ Entries # {}
  /\ MaxVersions \in Nat \ {0}
  /\ Imports \in [Files -> [Versions -> SUBSET Files]]
  /\ Execute \in BOOLEAN
  /\ MaxDeletes \in Nat
  /\ MaxKeys \in Nat
  /\ MaxChecks \in Nat \ {0}

VARIABLES
  disk,        \* per file: the version on disk, or Missing
  latest,      \* per file: its newest version so far
  deletes,     \* how many times a file has vanished
  keys,        \* how often r was pressed
  notified,    \* directories whose watcher has an event to deliver
  signatures,  \* per file: the signature held, Unknown for none
  dependents,  \* per file: the entries whose graph it sits in
  watchers,    \* per directory: "none", "open" or "closed"
  pending,     \* the entries waiting to be rebuilt
  timer,       \* whether the debounce timer is set
  building,    \* the flag of that name
  runs,        \* the builds underway
  checks,      \* per slot: a checkForChanges underway, or Idle
  phase,       \* "first" build, "watching", "stopping" and "ended"
  program,     \* `running`: "none", "alive" or "exited"
  output,      \* per entry: what its last build was made from
  audience     \* per file: whom the session could tell of its last save

diskVars == <<disk, latest, deletes, audience>>
bookVars == <<signatures, dependents, watchers>>
buildVars == <<pending, timer, building, runs>>
vars == <<diskVars, keys, notified, bookVars, buildVars, checks, phase,
          program, output>>

Contents == [Files -> OnDisk \cup {Unknown}]
NothingRead == [f \in Files |-> Unknown]

\* A `rebuild` underway: compiling until every file is read, then capturing the
\* signatures of files not seen before - those it has still to stat (`asked`),
\* and the answers it has not been resumed with (`answers`, Unknown for none).
Run == [targets : SUBSET Entries, stage : {"compiling", "capturing"},
        read : Contents, asked : SUBSET Files, answers : Contents, ok : BOOLEAN]
NewRun(targets) ==
  [targets |-> targets, stage |-> "compiling", read |-> NothingRead,
   asked |-> {}, answers |-> NothingRead, ok |-> FALSE]

Check == [asked : SUBSET Files, answers : Contents, changed : SUBSET Files]
Idle == [asked |-> {}, answers |-> NothingRead, changed |-> {}]

TypeOK ==
  /\ disk \in [Files -> OnDisk]
  /\ latest \in [Files -> Versions]
  /\ deletes \in 0 .. MaxDeletes
  /\ keys \in 0 .. MaxKeys
  /\ notified \subseteq Dirs
  /\ signatures \in Contents
  /\ dependents \in [Files -> SUBSET Entries]
  /\ watchers \in [Dirs -> {"none", "open", "closed"}]
  /\ pending \subseteq Entries
  /\ timer \in BOOLEAN
  /\ building \in BOOLEAN
  /\ runs \subseteq Run
  /\ checks \in [1 .. MaxChecks -> Check]
  /\ phase \in {"first", "watching", "stopping", "ended"}
  /\ program \in {"none", "alive", "exited"}
  /\ output \in [Entries -> Contents]
  /\ audience \in [Files -> [heard : BOOLEAN, entries : SUBSET Entries]]

\* The session begins with the first build of every entry.
Init ==
  /\ disk = [f \in Files |-> 1]
  /\ latest = [f \in Files |-> 1]
  /\ deletes = 0
  /\ keys = 0
  /\ notified = {}
  /\ signatures = NothingRead
  /\ dependents = [f \in Files |-> {}]
  /\ watchers = [d \in Dirs |-> "none"]
  /\ pending = {}
  /\ timer = FALSE
  /\ building = FALSE
  /\ runs = {NewRun(Entries)}
  /\ checks = [c \in 1 .. MaxChecks |-> Idle]
  /\ phase = "first"
  /\ program = "none"
  /\ output = [e \in Entries |-> NothingRead]
  /\ audience = [f \in Files |-> [heard |-> TRUE, entries |-> Entries]]

-----------------------------------------------------------------------------
(* Graphs.                                                                 *)

Present(read) == {f \in Files : read[f] \in Versions}

\* Everything entry e reaches through what was read, files not found included.
Reach(read, e) ==
  {f \in Files :
     \A closed \in SUBSET Files :
       /\ e \in closed
       /\ \A g \in closed \cap Present(read) : Imports[g][read[g]] \subseteq closed
       => f \in closed}

\* The Modules an outcome lists: a file that could not be read is no Module.
Modules(read, e) ==
  IF e \in Present(read) THEN Reach(read, e) \cap Present(read) ELSE {}

\* watchedFiles().
WatchedFiles(books) == Entries \cup {f \in Files : books[f] # {}}

\* recordGraphs: an entry leaves every file of its old graph and enters every
\* file of its new one, itself included however it was read.
RecordGraphs(targets, read) ==
  [f \in Files |-> (dependents[f] \ targets) \cup
     {e \in targets : f = e \/ f \in Modules(read, e)}]

\* Mutants: what changed is rebuilt itself; only entries that changed are.
ChangedThemselves(changed) == changed
ChangedEntries(changed) == changed \cap Entries

\* entriesFor(changed).
EntriesFor(changed) == UNION {dependents[f] : f \in changed}

-----------------------------------------------------------------------------
(* Editors, and the file system that reports what they do.                 *)

Notify(f) ==
  notified' = IF watchers[Dir[f]] = "open" THEN notified \cup {Dir[f]} ELSE notified

\* The session hears of a save once it holds a signature of the file to compare
\* with and an open watcher to be told by.
Hears(f) == signatures[f] # Unknown /\ watchers[Dir[f]] = "open"

Save(f) ==
  /\ latest[f] < MaxVersions
  /\ latest' = [latest EXCEPT ![f] = @ + 1]
  /\ disk' = [disk EXCEPT ![f] = latest[f] + 1]
  /\ audience' = [audience EXCEPT ![f] =
                    [heard |-> Hears(f), entries |-> dependents[f]]]
  /\ Notify(f)
  /\ UNCHANGED <<deletes, keys, bookVars, buildVars, checks, phase, program, output>>

\* A file deleted, or renamed away by an editor about to put it back.
Delete(f) ==
  /\ disk[f] # Missing
  /\ deletes < MaxDeletes
  /\ deletes' = deletes + 1
  /\ disk' = [disk EXCEPT ![f] = Missing]
  /\ Notify(f)
  /\ UNCHANGED <<latest, audience, keys, bookVars, buildVars, checks, phase,
                 program, output>>

-----------------------------------------------------------------------------
(* Builds.                                                                 *)

\* Mutant: a rebuild starts whether or not one is underway.
RebuildAnyway(targets, others, left, busy) ==
  /\ building' = TRUE
  /\ runs' = left \cup {NewRun(targets)}
  /\ pending' = others

\* `rebuild(targets)` up to its first await, called with `others` pending and
\* with the builds `left` underway and `building` as `busy`: while one build is
\* underway its targets wait for the next.
Rebuild(targets, others, left, busy) ==
  IF busy
  THEN /\ pending' = others \cup targets
       /\ building' = TRUE
       /\ runs' = left
  ELSE /\ pending' = others
       /\ building' = TRUE
       /\ runs' = left \cup {NewRun(targets)}

Replace(r, s) == runs' = (runs \ {r}) \cup {s}

\* A file an entry of the run reaches is read, once.
ReadFile(r, f) ==
  /\ r.stage = "compiling"
  /\ r.read[f] = Unknown
  /\ \E e \in r.targets : f \in Reach(r.read, e)
  /\ Replace(r, [r EXCEPT !.read[f] = disk[f]])
  /\ UNCHANGED <<diskVars, keys, notified, bookVars, pending, timer, building,
                 checks, phase, program, output>>

\* maybeExecute, called only for the outcome of a run that compiled one file.
MaybeExecute(r, ok) ==
  program' = IF Execute /\ ok /\ Cardinality(r.targets) = 1 THEN "alive"
             ELSE program

\* Mutant: every signature is taken anew.
CaptureAll(books) == WatchedFiles(books)

\* captureSignatures looks at the files no signature is held of.
ToCapture(books) == {f \in WatchedFiles(books) : signatures[f] = Unknown}

\* runCompilation resolves: the graphs are recorded and captureSignatures asks
\* for its stats.  The first build runs its program here; a rebuild later.
Compiled(r, ok) ==
  /\ r.stage = "compiling"
  /\ \A e \in r.targets : \A f \in Reach(r.read, e) : r.read[f] # Unknown
  /\ ok => \A e \in r.targets : \A f \in Reach(r.read, e) : r.read[f] # Missing
  /\ dependents' = RecordGraphs(r.targets, r.read)
  /\ output' = [e \in Entries |-> IF e \in r.targets THEN r.read ELSE output[e]]
  /\ Replace(r, [r EXCEPT !.stage = "capturing", !.ok = ok,
                          !.asked = ToCapture(dependents')])
  /\ IF phase = "first" THEN MaybeExecute(r, ok) ELSE UNCHANGED program
  /\ UNCHANGED <<diskVars, keys, notified, signatures, watchers, pending, timer,
                 building, checks, phase>>

\* One of the stats of captureSignatures is evaluated ...
CaptureStats(r, f) ==
  /\ f \in r.asked
  /\ Replace(r, [r EXCEPT !.asked = @ \ {f}, !.answers[f] = disk[f]])
  /\ UNCHANGED <<diskVars, keys, notified, bookVars, pending, timer, building,
                 checks, phase, program, output>>

\* ... and its continuation stores the signature.
CaptureResumes(r, f) ==
  /\ r.answers[f] # Unknown
  /\ signatures' = [signatures EXCEPT ![f] = r.answers[f]]
  /\ Replace(r, [r EXCEPT !.answers[f] = Unknown])
  /\ UNCHANGED <<diskVars, keys, notified, dependents, watchers, pending, timer,
                 building, checks, phase, program, output>>

\* The rest of watchGraph and of the build: a watcher for every directory that
\* has none, the program, and the entries that came up meanwhile.
Finish(r) ==
  /\ r.stage = "capturing"
  /\ r.asked = {}
  /\ r.answers = NothingRead
  /\ watchers' = [d \in Dirs |->
                    IF watchers[d] = "none" /\ d \in {Dir[f] : f \in WatchedFiles(dependents)}
                    THEN "open" ELSE watchers[d]]
  /\ IF phase = "first"
     THEN /\ phase' = "watching"
          /\ runs' = runs \ {r}
          /\ UNCHANGED <<program, pending, building>>
     ELSE /\ MaybeExecute(r, r.ok)
          /\ UNCHANGED phase
          /\ IF pending # {}
             THEN Rebuild(pending, {}, runs \ {r}, FALSE)
             ELSE /\ building' = FALSE
                  /\ runs' = runs \ {r}
                  /\ UNCHANGED pending
  /\ UNCHANGED <<diskVars, keys, notified, signatures, dependents, timer, checks,
                 output>>

-----------------------------------------------------------------------------
(* Noticing changes.                                                       *)

\* A watcher's callback: checkForChanges up to its await, over every file
\* watched, whatever the event was about.
Event(d) ==
  /\ d \in notified
  /\ notified' = notified \ {d}
  /\ \E c \in 1 .. MaxChecks :
       /\ checks[c] = Idle
       /\ checks' = [checks EXCEPT ![c].asked = WatchedFiles(dependents)]
  /\ UNCHANGED <<diskVars, keys, bookVars, buildVars, phase, program, output>>

\* One of its stats is evaluated ...
CheckStats(c, f) ==
  /\ f \in checks[c].asked
  /\ checks' = [checks EXCEPT ![c].asked = @ \ {f}, ![c].answers[f] = disk[f]]
  /\ UNCHANGED <<diskVars, keys, notified, bookVars, buildVars, phase, program,
                 output>>

\* Mutant: a pass that finds nothing changed disarms the timer another armed.
ScheduleAnew(targets) ==
  /\ pending' = pending \cup targets
  /\ timer' = (targets # {})

\* `schedule`, where there is anything to rebuild: the timer starts over.
Schedule(targets) ==
  /\ pending' = pending \cup targets
  /\ timer' = (timer \/ targets # {})

\* ... and its continuation compares; the last one schedules the entries of
\* what changed.
CheckResumes(c, f) ==
  LET current == checks[c].answers[f]
      differs == current # Missing /\ signatures[f] # current
      changed == checks[c].changed \cup (IF differs THEN {f} ELSE {})
      next == [checks[c] EXCEPT !.answers[f] = Unknown, !.changed = changed]
  IN  /\ current # Unknown
      /\ signatures' = IF differs THEN [signatures EXCEPT ![f] = current]
                       ELSE signatures
      /\ IF next.asked = {} /\ next.answers = NothingRead
         THEN /\ checks' = [checks EXCEPT ![c] = Idle]
              /\ Schedule(EntriesFor(changed))
         ELSE /\ checks' = [checks EXCEPT ![c] = next]
              /\ UNCHANGED <<pending, timer>>
      /\ UNCHANGED <<diskVars, keys, notified, dependents, watchers, building,
                     runs, phase, program, output>>

\* The debounce timer fires: what is pending by now, which may be nothing.
TimerFires ==
  /\ timer
  /\ timer' = FALSE
  /\ Rebuild(pending, {}, runs, building)
  /\ UNCHANGED <<diskVars, keys, notified, bookVars, checks, phase, program, output>>

-----------------------------------------------------------------------------
(* The user, and the program being watched.                                *)

PressR ==
  /\ phase = "watching"
  /\ keys < MaxKeys
  /\ keys' = keys + 1
  /\ Rebuild(Entries, pending, runs, building)
  /\ UNCHANGED <<diskVars, notified, bookVars, timer, checks, phase, program, output>>

\* `shutdown` up to its await: q, Ctrl+C or SIGINT.
Quit ==
  /\ phase = "watching"
  /\ phase' = "stopping"
  /\ watchers' = [d \in Dirs |-> IF watchers[d] = "open" THEN "closed" ELSE watchers[d]]
  /\ notified' = {}
  /\ program' = "none"
  /\ UNCHANGED <<diskVars, keys, signatures, dependents, buildVars, checks, output>>

\* ... and after it, when the dispatcher is disposed of: runWatch resolves.
Resolve ==
  /\ phase = "stopping"
  /\ phase' = "ended"
  /\ UNCHANGED <<diskVars, keys, notified, bookVars, buildVars, checks, program, output>>

ProgramExits ==
  /\ program = "alive"
  /\ program' = "exited"
  /\ UNCHANGED <<diskVars, keys, notified, bookVars, buildVars, checks, phase, output>>

-----------------------------------------------------------------------------
Callbacks ==
  \/ \E r \in runs :
       \/ \E f \in Files : ReadFile(r, f) \/ CaptureStats(r, f) \/ CaptureResumes(r, f)
       \/ \E ok \in BOOLEAN : Compiled(r, ok)
       \/ Finish(r)
  \/ \E d \in Dirs : Event(d)
  \/ \E c \in 1 .. MaxChecks, f \in Files : CheckStats(c, f) \/ CheckResumes(c, f)
  \/ TimerFires
  \/ Resolve

Next ==
  \/ \E f \in Files : Save(f) \/ Delete(f)
  \/ PressR
  \/ Quit
  \/ ProgramExits
  \/ Callbacks

Spec == Init /\ [][Next]_vars

\* The event loop runs whatever is due; nobody has to save, press or quit.
FairSpec == Spec /\ WF_vars(Callbacks)

-----------------------------------------------------------------------------
(* Properties.                                                             *)

\* Nothing is underway or due: the session waits for somebody to do something.
AtRest ==
  /\ phase = "watching"
  /\ runs = {} /\ pending = {} /\ ~timer
  /\ notified = {}
  /\ \A c \in 1 .. MaxChecks : checks[c] = Idle

\* The last build of entry e is not what a build of it now would be, because of
\* file f.
Stale(e, f) ==
  /\ f \in Reach(output[e], e)
  /\ disk[f] # Missing
  /\ output[e][f] # disk[f]

\* A save the session was told of is never lost on an entry whose graph it knew
\* the file to sit in: however it falls between the reads of a build, the stats
\* of overlapping checks, the debounce timer and the recording of new graphs,
\* the session does not come to rest on an older version.  (A build that missed
\* a file forgets who imports it, so this is claimed while none has vanished.)
KnownSavesAreRebuilt ==
  deletes = 0 /\ AtRest => \A e \in Entries, f \in Files :
    audience[f].heard /\ e \in audience[f].entries => ~Stale(e, f)

\* runCompilation hands a whole run to the dispatcher and awaits it before the
\* next: `building` and `pending` keep builds from overlapping, whichever of
\* the timer, the r key and a finished build asks for one.
OneBuildAtATime == Cardinality(runs) <= 1

\* A session left alone comes to rest: no check, build or timer keeps another
\* going for ever, and none is stranded with entries still pending.
Settles == []<>(AtRest \/ phase = "ended")
=============================================================================
