----------------------------- MODULE WorkerPool -----------------------------
(***************************************************************************)
(* The worker pool of the command line (packages/cli/src/pool.ts) with the *)
(* worker threads it drives (worker.ts) and the one client it has,         *)
(* runCompilation (compile.ts).                                            *)
(*                                                                         *)
(* The main thread runs one callback at a time, so each of its callbacks   *)
(* is one action: a run's `begin` with its `compile` calls, the two port   *)
(* handlers, and the two halves of `dispose` around its await.  A worker   *)
(* thread runs concurrently and talks over a pair of FIFO ports; an        *)
(* uncaught exception ends it and is the last thing its port delivers.     *)
(*                                                                         *)
(* A job is a file of a run.  The code numbers jobs on dispatch only to    *)
(* compare the numbers for equality, so the job itself stands for its id.  *)
(* Progress messages change no state of the pool and are left out.         *)
(***************************************************************************)
EXTENDS Naturals, Sequences, FiniteSets

CONSTANTS
  Files,       \* the entry files of an invocation
  Size,        \* how many slots the pool was created with
  MaxRuns,     \* bound: how many runs a watch session makes
  MaxCrashes,  \* bound: how many worker threads die of an exception
  MaxSpawns    \* bound: how many threads one slot boots

ASSUME PoolAssumption ==
  /\ IsFiniteSet(Files)
  /\ Size \in Nat \ {0}
  /\ MaxRuns \in Nat \ {0}
  /\ MaxCrashes \in Nat
  /\ MaxSpawns \in Nat

Slots == 1 .. Size
Runs == 1 .. MaxRuns
Job == Runs \X Files
NoJob == <<0, 0>>

\* The n-th thread booted for a slot; `spawn` closes over its slot.
Worker == Slots \X (1 .. MaxSpawns)
NoWorker == <<0, 0>>
Home(w) == w[1]

\* What a worker compiles with: the run and entries its last "begin" named.
Session == [run : 0 .. MaxRuns, entries : SUBSET Files]
NoSession == [run |-> 0, entries |-> {}]

BeginMessage(session) == [type |-> "begin", session |-> session]
CompileMessage(j) == [type |-> "compile", job |-> j]
ResultMessage(j) == [type |-> "result", job |-> j]
ErrorMessage == [type |-> "error"]

WorkerRequest ==
  [type : {"begin"}, session : Session] \cup [type : {"compile"}, job : Job]
WorkerResponse ==
  [type : {"result"}, job : Job] \cup [type : {"error"}]

VARIABLES
  run,         \* the current run, 0 before the first
  assignment,  \* the slot each file of the run is pinned to, 0 for none
  rank,        \* where a file stands in the run's list of inputs
  queue,       \* the jobs not dispatched yet; `rank` is their order
  inFlight,    \* the jobs dispatched and not answered
  worker,      \* per slot: its worker, or NoWorker for null
  busy,        \* per slot
  jobId,       \* per slot: the job it is busy with
  entries,     \* per slot: the files it was given this run
  spawned,     \* per slot: how many threads it has booted
  disposal,    \* "no", "terminating" while dispose awaits, "done"
  condemned,   \* the workers dispose told to terminate
  outcome,     \* per job: how its promise was resolved, "none" before
  thread,      \* per worker: "unborn", "running", "stopped"
  referenced,  \* per worker: whether its handle keeps the process alive
  inbox,       \* per worker: posted by the pool, not yet received
  outbox,      \* per worker: posted by the thread, not yet received
  session,     \* per worker: its CompileSession
  compiling,   \* per worker: the compileFile calls underway
  crashes      \* how many threads died so far

slotVars == <<worker, busy, jobId, spawned>>
runVars == <<run, assignment, rank, entries>>
threadVars == <<session, compiling, crashes>>
vars == <<runVars, queue, inFlight, slotVars, disposal, condemned, outcome,
          thread, referenced, inbox, outbox, threadVars>>

Compiling == [job : Job, session : Session]

TypeOK ==
  /\ run \in 0 .. MaxRuns
  /\ assignment \in [Files -> 0 .. Size]
  /\ rank \in [Files -> Nat]
  /\ queue \in SUBSET Job
  /\ inFlight \in SUBSET Job
  /\ worker \in [Slots -> Worker \cup {NoWorker}]
  /\ busy \in [Slots -> BOOLEAN]
  /\ jobId \in [Slots -> Job \cup {NoJob}]
  /\ entries \in [Slots -> SUBSET Files]
  /\ spawned \in [Slots -> 0 .. MaxSpawns]
  /\ disposal \in {"no", "terminating", "done"}
  /\ condemned \in SUBSET Worker
  /\ outcome \in [Job -> {"none", "compiled", "failed"}]
  /\ thread \in [Worker -> {"unborn", "running", "stopped"}]
  /\ referenced \in [Worker -> BOOLEAN]
  /\ inbox \in [Worker -> Seq(WorkerRequest)]
  /\ outbox \in [Worker -> Seq(WorkerResponse)]
  /\ session \in [Worker -> Session]
  /\ compiling \in [Worker -> SUBSET Compiling]
  /\ crashes \in 0 .. MaxCrashes

Init ==
  /\ run = 0
  /\ assignment = [f \in Files |-> 0]
  /\ rank = [f \in Files |-> 0]
  /\ queue = {}
  /\ inFlight = {}
  /\ worker = [s \in Slots |-> NoWorker]
  /\ busy = [s \in Slots |-> FALSE]
  /\ jobId = [s \in Slots |-> NoJob]
  /\ entries = [s \in Slots |-> {}]
  /\ spawned = [s \in Slots |-> 0]
  /\ disposal = "no"
  /\ condemned = {}
  /\ outcome = [j \in Job |-> "none"]
  /\ thread = [w \in Worker |-> "unborn"]
  /\ referenced = [w \in Worker |-> FALSE]
  /\ inbox = [w \in Worker |-> <<>>]
  /\ outbox = [w \in Worker |-> <<>>]
  /\ session = [w \in Worker |-> NoSession]
  /\ compiling = [w \in Worker |-> {}]
  /\ crashes = 0

-----------------------------------------------------------------------------
(* Planning a run: which slot every file is pinned to.                     *)

\* groupEntries reads the sources to guess which entries share modules; any
\* partition of the files is an answer it can give.
Groupings(files) ==
  {groups \in SUBSET ((SUBSET files) \ {{}}) :
     /\ UNION groups = files
     /\ \A g, h \in groups : g # h => g \cap h = {}}

\* The stable sort by size, largest first; groups of one size keep whichever
\* order groupEntries gave them.
LargestFirst(groups) ==
  {order \in [1 .. Cardinality(groups) -> groups] :
     /\ groups \subseteq {order[i] : i \in DOMAIN order}
     /\ \A i, k \in DOMAIN order :
          i < k => Cardinality(order[i]) >= Cardinality(order[k])}

\* Mutant: counts is never updated.
NoLoad(order, place, i, s) == 0

\* counts[s] when the i-th group is placed.
LoadBefore(order, place, i, s) ==
  Cardinality(UNION {order[k] : k \in {n \in 1 .. i - 1 : place[n] = s}})

\* counts.indexOf(Math.min(...counts)): the first of the least loaded slots.
LeastLoaded(order, place, active) ==
  \A i \in DOMAIN order, s \in 1 .. active :
    LET mine == LoadBefore(order, place, i, place[i])
    IN  /\ mine <= LoadBefore(order, place, i, s)
        /\ s < place[i] => mine < LoadBefore(order, place, i, s)

Active(groups) ==
  IF groups = {} THEN 1
  ELSE IF Cardinality(groups) < Size THEN Cardinality(groups) ELSE Size

\* The assignments assignSlots can return for these groups.
Assignments(groups) ==
  {[f \in Files |-> IF f \in UNION groups
                      THEN plan.place[CHOOSE i \in DOMAIN plan.order :
                                        f \in plan.order[i]]
                      ELSE 0] :
     plan \in {p \in [order : LargestFirst(groups),
                      place : [1 .. Cardinality(groups) -> 1 .. Active(groups)]] :
                 LeastLoaded(p.order, p.place, Active(groups))}}

-----------------------------------------------------------------------------
(* Dispatching.                                                            *)

\* Mutant: pump takes only the head.
StartableAtHead(q, bsy) ==
  {j \in q : /\ ~bsy[assignment'[j[2]]]
             /\ \A k \in q : rank'[j[2]] <= rank'[k[2]]}

\* The jobs `pump` takes: for every slot that is free, the first job of the
\* queue that is pinned to it.
Startable(q, bsy) ==
  {j \in q :
     /\ ~bsy[assignment'[j[2]]]
     /\ \A k \in q : assignment'[k[2]] = assignment'[j[2]] =>
                       rank'[j[2]] <= rank'[k[2]]}

\* Mutant: nothing is ever unref'd.
NeverUnref(w, bsy) == referenced[w]

\* The closing loop of `pump` unrefs the worker of every slot that is not busy.
StaysReferenced(w, bsy) == bsy[Home(w)] /\ referenced[w]

\* `pump`, at the end of a handler that left the queue, the busy flags, the
\* slots' jobs and workers, the jobs in flight and the ports as given: dispatch
\* to every slot that is free and has work, booting its worker if it has none,
\* then unref the idle ones.
Pump(q, bsy, ids, wrk, flight, ports) ==
  LET start == Startable(q, bsy)
      started(s) == \E j \in start : assignment'[j[2]] = s
      jobOf(s) == CHOOSE j \in start : assignment'[j[2]] = s
      boots(s) == started(s) /\ wrk[s] = NoWorker
      held(s) == IF boots(s) THEN <<s, spawned[s] + 1>> ELSE wrk[s]
      isBooted(w) == boots(Home(w)) /\ w = held(Home(w))
      received(w) ==
        IF isBooted(w)
        THEN <<BeginMessage([run |-> run', entries |-> entries'[Home(w)]])>>
        ELSE ports[w]
  IN  /\ \A s \in Slots : boots(s) => spawned[s] < MaxSpawns
      /\ queue' = q \ start
      /\ inFlight' = flight \cup start
      /\ worker' = [s \in Slots |-> held(s)]
      /\ busy' = [s \in Slots |-> started(s) \/ bsy[s]]
      /\ jobId' = [s \in Slots |-> IF started(s) THEN jobOf(s) ELSE ids[s]]
      /\ spawned' = [s \in Slots |-> spawned[s] + IF boots(s) THEN 1 ELSE 0]
      /\ thread' = [w \in Worker |-> IF isBooted(w) THEN "running" ELSE thread[w]]
      /\ inbox' = [w \in Worker |->
                     IF held(Home(w)) = w /\ started(Home(w))
                     THEN Append(received(w), CompileMessage(jobOf(Home(w))))
                     ELSE ports[w]]
      /\ referenced' = [w \in Worker |->
                          IF held(Home(w)) # w THEN referenced[w]
                          ELSE started(Home(w)) \/ StaysReferenced(w, bsy)]

-----------------------------------------------------------------------------
(* The main thread.                                                        *)

\* A run: `begin` over its files, then `compile` for each of them, with nothing
\* awaited in between.  runCompilation awaits every answer before its caller
\* starts another run, which for a rebuild is over some of the files.  That no
\* run begins on a disposed pool is up to the caller: every command disposes
\* last, but a watch session may not (see WatchSession, Quit).
BeginRun(files, groups) ==
  /\ disposal = "no"
  /\ queue \cup inFlight = {}
  /\ run < MaxRuns
  /\ run' = run + 1
  /\ assignment' \in Assignments(groups)
  /\ rank' \in {p \in [Files -> 0 .. Cardinality(files)] :
                  /\ \A f \in Files : p[f] = 0 <=> f \notin files
                  /\ \A f, g \in files : p[f] = p[g] => f = g}
  /\ entries' = [s \in Slots |-> {f \in files : assignment'[f] = s}]
  /\ Pump({run'} \X files, busy, jobId, worker, inFlight,
          [w \in Worker |->
             IF worker[Home(w)] = w
             THEN Append(inbox[w],
                         BeginMessage([run |-> run', entries |-> entries'[Home(w)]]))
             ELSE inbox[w]])
  /\ UNCHANGED <<disposal, condemned, outcome, outbox, threadVars>>

\* The "message" handler: a result frees the slot its worker was booted for,
\* resolves the job and pumps.
OnResult(w) ==
  /\ outbox[w] # <<>>
  /\ Head(outbox[w]).type = "result"
  /\ UNCHANGED <<runVars, disposal, condemned, threadVars>>
  /\ LET j == Head(outbox[w]).job
         s == Home(w)
     IN  /\ outcome' = [k \in Job |-> IF k = j /\ j \in inFlight THEN "compiled"
                                      ELSE outcome[k]]
         /\ Pump(queue, [busy EXCEPT ![s] = FALSE], [jobId EXCEPT ![s] = NoJob],
                 worker, inFlight \ {j}, inbox)
  /\ outbox' = [outbox EXCEPT ![w] = Tail(outbox[w])]

\* Mutants: a death fails everything in flight; a death answers nothing.
FailedByAll(s) == inFlight
FailedByNone(s) == {}

\* The job a dead worker takes with it: the one its slot was running, if any.
FailedBy(s) == inFlight \cap {jobId[s]}

\* Mutant: the error handler forgets to pump.
NeverPumps == FALSE

PumpsAfterError == disposal = "no"

\* The "error" handler: the slot's job is answered with a failure, the slot
\* loses its worker, and the pool pumps unless it was disposed of.
OnError(w) ==
  /\ outbox[w] # <<>>
  /\ Head(outbox[w]).type = "error"
  /\ UNCHANGED <<runVars, disposal, condemned, threadVars>>
  /\ LET s == Home(w)
         nowBusy == [busy EXCEPT ![s] = FALSE]
         nowIds == [jobId EXCEPT ![s] = NoJob]
         nowWorker == [worker EXCEPT ![s] = NoWorker]
         nowInFlight == inFlight \ {jobId[s]}
     IN  /\ outcome' = [k \in Job |-> IF k \in FailedBy(s) THEN "failed"
                                      ELSE outcome[k]]
         /\ \/ /\ PumpsAfterError
               /\ Pump(queue, nowBusy, nowIds, nowWorker, nowInFlight, inbox)
            \/ /\ ~PumpsAfterError
               /\ busy' = nowBusy
               /\ jobId' = nowIds
               /\ worker' = nowWorker
               /\ inFlight' = nowInFlight
               /\ UNCHANGED <<queue, spawned, thread, inbox, referenced>>
  /\ outbox' = [outbox EXCEPT ![w] = Tail(outbox[w])]

\* Mutant: dispose terminates the workers of slots that have none.
HeldOrNull == {worker[s] : s \in Slots}

\* The workers there are to terminate.
Held == {worker[s] : s \in Slots} \ {NoWorker}

\* `dispose` up to its await: every worker a slot holds is told to stop.
Dispose ==
  /\ disposal = "no"
  /\ disposal' = "terminating"
  /\ condemned' = Held
  /\ UNCHANGED <<runVars, queue, inFlight, slotVars, outcome, thread,
                 referenced, inbox, outbox, threadVars>>

\* ... and after it: those have all exited, their ports drained.  The slots let
\* go of whatever worker they hold by now.
DisposeDone ==
  /\ disposal = "terminating"
  /\ \A w \in condemned : thread[w] = "stopped" /\ outbox[w] = <<>>
  /\ disposal' = "done"
  /\ worker' = [s \in Slots |-> NoWorker]
  /\ UNCHANGED <<runVars, queue, inFlight, busy, jobId, spawned, condemned,
                 outcome, thread, referenced, inbox, outbox, threadVars>>

-----------------------------------------------------------------------------
(* The worker thread.                                                      *)

mainVars == <<runVars, queue, inFlight, slotVars, disposal, condemned, outcome,
              referenced>>

\* Mutant: a worker keeps the session it has.
WorkerKeepsSession(w) ==
  /\ thread[w] = "running"
  /\ inbox[w] # <<>>
  /\ Head(inbox[w]).type = "begin"
  /\ session' = IF session[w] # NoSession THEN session
                ELSE [session EXCEPT ![w] = Head(inbox[w]).session]
  /\ inbox' = [inbox EXCEPT ![w] = Tail(inbox[w])]
  /\ UNCHANGED <<mainVars, thread, outbox, compiling, crashes>>

\* A "begin" message replaces the session, whatever it held.
WorkerBegins(w) ==
  /\ thread[w] = "running"
  /\ inbox[w] # <<>>
  /\ Head(inbox[w]).type = "begin"
  /\ session' = [session EXCEPT ![w] = Head(inbox[w]).session]
  /\ inbox' = [inbox EXCEPT ![w] = Tail(inbox[w])]
  /\ UNCHANGED <<mainVars, thread, outbox, compiling, crashes>>

\* A "compile" message starts compileFile in the session of that moment; the
\* handler returns at its first await, so the port stays open meanwhile.
WorkerCompiles(w) ==
  /\ thread[w] = "running"
  /\ inbox[w] # <<>>
  /\ Head(inbox[w]).type = "compile"
  /\ compiling' = [compiling EXCEPT ![w] =
                     @ \cup {[job |-> Head(inbox[w]).job, session |-> session[w]]}]
  /\ inbox' = [inbox EXCEPT ![w] = Tail(inbox[w])]
  /\ UNCHANGED <<mainVars, thread, outbox, session, crashes>>

\* compileFile never rejects: its outcome is posted.
WorkerFinishes(w) ==
  /\ thread[w] = "running"
  /\ \E c \in compiling[w] :
       /\ compiling' = [compiling EXCEPT ![w] = @ \ {c}]
       /\ outbox' = [outbox EXCEPT ![w] = Append(@, ResultMessage(c.job))]
  /\ UNCHANGED <<mainVars, thread, inbox, session, crashes>>

\* The jobs a thread was given and has posted no result for.  What a stopped
\* thread still holds, or is still posted, is lost with it.
Holding(w) ==
  {c.job : c \in compiling[w]} \cup
  {inbox[w][i].job : i \in {n \in DOMAIN inbox[w] : inbox[w][n].type = "compile"}}

\* An uncaught exception, at boot, while idle or while compiling.
ThreadDies(w) ==
  /\ thread[w] = "running"
  /\ crashes < MaxCrashes
  /\ crashes' = crashes + 1
  /\ thread' = [thread EXCEPT ![w] = "stopped"]
  /\ outbox' = [outbox EXCEPT ![w] = Append(@, ErrorMessage)]
  /\ UNCHANGED <<mainVars, inbox, session, compiling>>

\* `terminate` takes effect, between any two steps of the thread.
ThreadTerminates(w) ==
  /\ w \in condemned
  /\ thread[w] = "running"
  /\ thread' = [thread EXCEPT ![w] = "stopped"]
  /\ UNCHANGED <<mainVars, inbox, outbox, session, compiling, crashes>>

-----------------------------------------------------------------------------
MainHandles(w) == OnResult(w) \/ OnError(w)

ThreadRuns(w) ==
  \/ WorkerBegins(w)
  \/ WorkerCompiles(w)
  \/ WorkerFinishes(w)
  \/ ThreadTerminates(w)

Next ==
  \/ \E files \in SUBSET Files :
       \E groups \in Groupings(files) : BeginRun(files, groups)
  \/ \E w \in Worker : OnResult(w)
  \/ \E w \in Worker : OnError(w)
  \/ Dispose
  \/ DisposeDone
  \/ \E w \in Worker : WorkerBegins(w)
  \/ \E w \in Worker : WorkerCompiles(w)
  \/ \E w \in Worker : WorkerFinishes(w)
  \/ \E w \in Worker : ThreadDies(w)
  \/ \E w \in Worker : ThreadTerminates(w)

Spec == Init /\ [][Next]_vars

\* The event loop delivers what a port holds, threads make progress, and a
\* compilation ends.  Nobody has to start another run, to dispose or to crash.
Fairness ==
  /\ \A w \in Worker : WF_vars(MainHandles(w)) /\ WF_vars(ThreadRuns(w))
  /\ WF_vars(DisposeDone)

FairSpec == Spec /\ Fairness

-----------------------------------------------------------------------------
(* Properties.                                                             *)

\* A compilation reads the graph of its own run: a worker that already ran
\* "carries the Session of the previous run", whose files may have changed
\* since, and a worker booted mid-run has not heard of the run at all.  So
\* whichever worker ends up with a job - warm, or the replacement of one that
\* died - has begun that run, with that file, before it compiles it.
FreshSession ==
  \A w \in Worker : \A c \in compiling[w] :
    c.session.run = c.job[1] /\ c.job[2] \in c.session.entries

\* "A worker that dies takes its own job with it - and only its own": a job is
\* answered with a failure only if the thread it was posted to stopped with it,
\* never because another job's worker died, and never once its result has been
\* posted, even if the thread died before the pool had read that result.  This
\* is for as long as somebody waits for answers: once disposed of, the pool
\* forgets a worker it boots meanwhile, and may take its death for the next one's.
CrashTakesOnlyItsOwn ==
  disposal = "no" =>
    \A j \in Job : outcome[j] = "failed" =>
      \E w \in Worker : thread[w] = "stopped" /\ j \in Holding(w)

\* A slot runs one job at a time, through every crash, respawn and rebuild:
\* all its current worker holds or has just posted is the slot's own job, and
\* a worker it has let go of has nothing left to say.
OneJobPerSlot ==
  disposal = "no" =>
    \A w \in Worker :
      LET s == Home(w)
          delivered == {outbox[w][i].job : i \in
                          {n \in DOMAIN outbox[w] : outbox[w][n].type = "result"}}
      IN  IF worker[s] = w
          THEN Holding(w) \cup delivered = IF busy[s] THEN {jobId[s]} ELSE {}
          ELSE thread[w] # "running" /\ outbox[w] = <<>>

\* The queue is scanned rather than shifted, so that one busy slot never holds
\* up another slot's work: between two callbacks a job waits only for the very
\* slot it is pinned to, and a slot never sits idle on work of its own.
WorkConserving ==
  disposal = "no" => \A j \in queue : busy[assignment[j[2]]]

\* A worker's handle keeps the process alive exactly while its slot is busy:
\* no run can exit under a compilation, and a finished one is not kept alive.
ReferencedWhileBusy ==
  disposal = "no" =>
    \A s \in Slots : worker[s] # NoWorker => referenced[worker[s]] = busy[s]

\* The placement any first run may get keeps its two promises: every slot the
\* run counts as active was given something ("a worker with no entry assigned to it is a thread
\* booted to sit idle"), and no slot is given more than another by more than
\* one of the pieces it took.
BalancedPlacement ==
  run = 0 =>
    \A files \in SUBSET Files : \A groups \in Groupings(files) :
    \A placed \in Assignments(groups) :
      LET load(s) == Cardinality({f \in files : placed[f] = s})
          active == 1 .. Active(groups)
      IN  /\ files # {} => \A s \in active : load(s) > 0
          /\ \A g \in groups : \A f, h \in g : placed[f] = placed[h]
          /\ \A s, t \in active : \E g \in groups \cup {{}} :
               load(s) <= load(t) + Cardinality(g)

\* All at once: no slot is given too much to do and none too little, and the
\* process lives as long as one of them has something to do.
SlotsDoTheirWork ==
  OneJobPerSlot /\ WorkConserving /\ ReferencedWhileBusy /\ BalancedPlacement

\* Every job of a run is eventually answered, whatever crashes, unless the
\* pool is disposed of first.
EveryJobAnswered ==
  \A j \in Job :
    j \in queue \cup inFlight ~> outcome[j] # "none" \/ disposal # "no"

\* Through all of this the pool does what any dispatcher promises.  A job that
\* is neither queued, nor in flight, nor answered would be a forgotten one.
Service == INSTANCE CompileService WITH
  requested <- queue \cup inFlight \cup {j \in Job : outcome[j] # "none"},
  answer <- outcome,
  open <- disposal = "no"

ImplementsService == Service!Spec
=============================================================================
