-------------------------- MODULE WorkerPool_proofs --------------------------
(***************************************************************************)
(* Theorems about the worker pool, for any files, slots, runs and crashes: *)
(* it is type-correct and implements CompileService; no job is compiled in *)
(* the session of an earlier run; a slot runs one job at a time and waits  *)
(* for nobody else's; a death costs no job but the dead worker's own.      *)
(***************************************************************************)
EXTENDS WorkerPool, FiniteSetTheorems, SequenceTheorems, WellFoundedInduction, TLAPS

\* What a handler hands to pump.
PumpInput(q, bsy, ids, wrk, flight, ports) ==
  /\ q \in SUBSET Job
  /\ bsy \in [Slots -> BOOLEAN]
  /\ ids \in [Slots -> Job \cup {NoJob}]
  /\ wrk \in [Slots -> Worker \cup {NoWorker}]
  /\ flight \in SUBSET Job
  /\ ports \in [Worker -> Seq(WorkerRequest)]

LEMMA StartableIsQueued ==
  ASSUME NEW q, NEW bsy
  PROVE  Startable(q, bsy) \subseteq q
BY DEF Startable

\* What pump leaves is typed if what it is given is.
LEMMA PumpType ==
  ASSUME NEW q, NEW bsy, NEW ids, NEW wrk, NEW flight, NEW ports,
         PumpInput(q, bsy, ids, wrk, flight, ports), TypeOK,
         run' \in 0 .. MaxRuns, entries' \in [Slots -> SUBSET Files],
         Pump(q, bsy, ids, wrk, flight, ports)
  PROVE  /\ queue' \in SUBSET Job
         /\ inFlight' \in SUBSET Job
         /\ worker' \in [Slots -> Worker \cup {NoWorker}]
         /\ busy' \in [Slots -> BOOLEAN]
         /\ jobId' \in [Slots -> Job \cup {NoJob}]
         /\ spawned' \in [Slots -> 0 .. MaxSpawns]
         /\ thread' \in [Worker -> {"unborn", "running", "stopped"}]
         /\ inbox' \in [Worker -> Seq(WorkerRequest)]
         /\ referenced' \in [Worker -> BOOLEAN]
<1> DEFINE start == Startable(q, bsy)
           started(s) == \E j \in start : assignment'[j[2]] = s
           jobOf(s) == CHOOSE j \in start : assignment'[j[2]] = s
           boots(s) == started(s) /\ wrk[s] = NoWorker
           held(s) == IF boots(s) THEN <<s, spawned[s] + 1>> ELSE wrk[s]
           isBooted(w) == boots(Home(w)) /\ w = held(Home(w))
           begun(w) ==
             <<BeginMessage([run |-> run', entries |-> entries'[Home(w)]])>>
           received(w) == IF isBooted(w) THEN begun(w) ELSE ports[w]
<1>1. start \subseteq Job
  BY StartableIsQueued DEF PumpInput
<1>2. \A s \in Slots : started(s) => jobOf(s) \in Job
  BY <1>1
<1>3. \A w \in Worker : Home(w) \in Slots
  BY DEF Worker, Home
<1>4. \A s \in Slots : held(s) \in Worker \cup {NoWorker}
  <2> SUFFICES ASSUME NEW s \in Slots PROVE held(s) \in Worker \cup {NoWorker}
    OBVIOUS
  <2>1. CASE boots(s)
    <3>1. spawned[s] < MaxSpawns
      BY <2>1 DEF Pump
    <3>2. spawned[s] \in 0 .. MaxSpawns
      BY DEF TypeOK
    <3>3. spawned[s] + 1 \in 1 .. MaxSpawns
      BY <3>1, <3>2, PoolAssumption
    <3>. QED BY <2>1, <3>3 DEF Worker
  <2>2. CASE ~boots(s)
    BY <2>2 DEF PumpInput
  <2>. QED BY <2>1, <2>2
<1>5. \A w \in Worker : received(w) \in Seq(WorkerRequest)
  <2> SUFFICES ASSUME NEW w \in Worker PROVE received(w) \in Seq(WorkerRequest)
    OBVIOUS
  <2>1. begun(w) \in Seq(WorkerRequest)
    BY <1>3 DEF WorkerRequest, BeginMessage, Session
  <2>. QED BY <2>1 DEF PumpInput
<1>6. inbox' \in [Worker -> Seq(WorkerRequest)]
  <2>1. inbox' = [w \in Worker |->
                    IF held(Home(w)) = w /\ started(Home(w))
                    THEN Append(received(w), CompileMessage(jobOf(Home(w))))
                    ELSE ports[w]]
    BY DEF Pump
  <2> SUFFICES ASSUME NEW w \in Worker, started(Home(w))
               PROVE  Append(received(w), CompileMessage(jobOf(Home(w))))
                        \in Seq(WorkerRequest)
    BY <2>1 DEF PumpInput
  <2>2. CompileMessage(jobOf(Home(w))) \in WorkerRequest
    BY <1>2, <1>3 DEF CompileMessage, WorkerRequest
  <2>. QED BY <1>5, <2>2
<1>7. /\ queue' \in SUBSET Job
      /\ inFlight' \in SUBSET Job
  BY <1>1 DEF Pump, PumpInput
<1>8. worker' \in [Slots -> Worker \cup {NoWorker}]
  <2>1. worker' = [s \in Slots |-> held(s)]
    BY DEF Pump
  <2>. QED BY <1>4, <2>1
<1>9. busy' \in [Slots -> BOOLEAN]
  BY DEF Pump, PumpInput
<1>10. jobId' \in [Slots -> Job \cup {NoJob}]
  <2>1. jobId' = [s \in Slots |-> IF started(s) THEN jobOf(s) ELSE ids[s]]
    BY DEF Pump
  <2>. QED BY <1>2, <2>1 DEF PumpInput
<1>11. spawned' \in [Slots -> 0 .. MaxSpawns]
  <2>1. spawned' = [s \in Slots |-> spawned[s] + IF boots(s) THEN 1 ELSE 0]
    BY DEF Pump
  <2>2. \A s \in Slots : boots(s) => spawned[s] < MaxSpawns
    BY DEF Pump
  <2>3. \A s \in Slots : spawned[s] \in 0 .. MaxSpawns
    BY DEF TypeOK
  <2> SUFFICES ASSUME NEW s \in Slots
               PROVE  spawned[s] + (IF boots(s) THEN 1 ELSE 0) \in 0 .. MaxSpawns
    BY <2>1
  <2>4. CASE boots(s)
    BY <2>2, <2>3, <2>4, PoolAssumption
  <2>5. CASE ~boots(s)
    BY <2>3, <2>5, PoolAssumption
  <2>. QED BY <2>4, <2>5
<1>12. thread' \in [Worker -> {"unborn", "running", "stopped"}]
  BY DEF Pump, TypeOK
<1>13. referenced' \in [Worker -> BOOLEAN]
  <2>1. referenced' = [w \in Worker |->
                         IF held(Home(w)) # w THEN referenced[w]
                         ELSE started(Home(w)) \/ StaysReferenced(w, bsy)]
    BY DEF Pump
  <2>. QED BY <2>1 DEF TypeOK
<1>. QED BY <1>6, <1>7, <1>8, <1>9, <1>10, <1>11, <1>12, <1>13

\* Every file of a run is pinned to a slot, and no other file is.
LEMMA AssignmentsPin ==
  ASSUME NEW files \in SUBSET Files, NEW groups \in Groupings(files),
         NEW a \in Assignments(groups)
  PROVE  /\ a \in [Files -> 0 .. Size]
         /\ \A f \in files : a[f] \in Slots
         /\ \A f \in Files \ files : a[f] = 0
<1> DEFINE n == Cardinality(groups)
<1>1. PICK plan \in [order : LargestFirst(groups),
                     place : [1 .. n -> 1 .. Active(groups)]] :
        a = [f \in Files |-> IF f \in UNION groups
                             THEN plan.place[CHOOSE i \in DOMAIN plan.order :
                                               f \in plan.order[i]]
                             ELSE 0]
  BY DEF Assignments
<1>2. UNION groups = files
  BY DEF Groupings
<1>3. /\ plan.order \in [1 .. n -> groups]
      /\ groups \subseteq {plan.order[i] : i \in DOMAIN plan.order}
      /\ plan.place \in [1 .. n -> 1 .. Active(groups)]
  BY <1>1 DEF LargestFirst
<1>4. n \in Nat
  <2>1. IsFiniteSet(SUBSET Files)
    BY PoolAssumption, FS_SUBSET
  <2>2. groups \subseteq SUBSET Files
    BY DEF Groupings
  <2>3. IsFiniteSet(groups)
    BY <2>1, <2>2, FS_Subset
  <2>. QED BY <2>3, FS_CardinalityType
<1>5. 1 .. Active(groups) \subseteq Slots
  BY <1>4, PoolAssumption DEF Active, Slots
<1>6. ASSUME NEW f \in files
      PROVE  a[f] \in Slots
  <2> DEFINE i == CHOOSE k \in DOMAIN plan.order : f \in plan.order[k]
  <2>1. \E k \in DOMAIN plan.order : f \in plan.order[k]
    BY <1>2, <1>3
  <2>2. i \in 1 .. n
    BY <2>1, <1>3
  <2>3. a[f] = plan.place[i]
    BY <1>1, <1>2
  <2>. QED BY <2>2, <2>3, <1>3, <1>5
<1>7. \A f \in Files \ files : a[f] = 0
  BY <1>1, <1>2
<1>8. a \in [Files -> 0 .. Size]
  <2>1. \A f \in Files : a[f] \in 0 .. Size
    BY <1>6, <1>7, PoolAssumption DEF Slots
  <2>2. a = [f \in Files |-> a[f]]
    BY <1>1
  <2>. QED BY <2>1, <2>2
<1>. QED BY <1>6, <1>7, <1>8

-----------------------------------------------------------------------------
(* Type correctness.                                                       *)

LEMMA InitType == Init => TypeOK
BY PoolAssumption DEF Init, TypeOK, NoSession, Session, NoWorker, NoJob

LEMMA BeginRunType ==
  ASSUME TypeOK, NEW files \in SUBSET Files, NEW groups \in Groupings(files),
         BeginRun(files, groups)
  PROVE  TypeOK'
<1> DEFINE told == [w \in Worker |->
                      IF worker[Home(w)] = w
                      THEN Append(inbox[w], BeginMessage([run |-> run',
                                               entries |-> entries'[Home(w)]]))
                      ELSE inbox[w]]
<1>1. run' \in 1 .. MaxRuns
  BY PoolAssumption DEF BeginRun, TypeOK
<1>2. assignment' \in [Files -> 0 .. Size]
  BY AssignmentsPin DEF BeginRun
<1>3. rank' \in [Files -> Nat]
  <2>1. rank' \in [Files -> 0 .. Cardinality(files)]
    BY DEF BeginRun
  <2>. QED BY <2>1
<1>4. entries' \in [Slots -> SUBSET Files]
  BY DEF BeginRun
<1>5. told \in [Worker -> Seq(WorkerRequest)]
  <2> SUFFICES ASSUME NEW w \in Worker
               PROVE  Append(inbox[w], BeginMessage([run |-> run',
                               entries |-> entries'[Home(w)]])) \in Seq(WorkerRequest)
    BY DEF TypeOK
  <2>1. Home(w) \in Slots
    BY DEF Worker, Home
  <2>2. [run |-> run', entries |-> entries'[Home(w)]] \in Session
    BY <1>1, <1>4, <2>1, PoolAssumption DEF Session
  <2>3. BeginMessage([run |-> run', entries |-> entries'[Home(w)]]) \in WorkerRequest
    BY <2>2 DEF BeginMessage, WorkerRequest
  <2>. QED BY <2>3 DEF TypeOK
<1>6. PumpInput({run'} \X files, busy, jobId, worker, inFlight, told)
  BY <1>1, <1>5 DEF PumpInput, TypeOK, Job, Runs
<1>7. Pump({run'} \X files, busy, jobId, worker, inFlight, told)
  BY DEF BeginRun
<1>8. run' \in 0 .. MaxRuns
  BY <1>1, PoolAssumption
<1>9. UNCHANGED <<disposal, condemned, outcome, outbox, threadVars>>
  BY DEF BeginRun
<1>. HIDE DEF told
<1>. QED BY <1>2, <1>3, <1>4, <1>6, <1>7, <1>8, <1>9, PumpType DEF TypeOK, threadVars

LEMMA OnResultType ==
  ASSUME TypeOK, NEW w \in Worker, OnResult(w)
  PROVE  TypeOK'
<1> DEFINE s == Home(w)
           j == Head(outbox[w]).job
<1>1. s \in Slots
  BY DEF Worker, Home
<1>2. PumpInput(queue, [busy EXCEPT ![s] = FALSE], [jobId EXCEPT ![s] = NoJob],
                worker, inFlight \ {j}, inbox)
  BY <1>1 DEF PumpInput, TypeOK
<1>3. Pump(queue, [busy EXCEPT ![s] = FALSE], [jobId EXCEPT ![s] = NoJob],
           worker, inFlight \ {j}, inbox)
  BY DEF OnResult
<1>4. UNCHANGED <<runVars, disposal, condemned, threadVars>>
  BY DEF OnResult
<1>5. outcome' \in [Job -> {"none", "compiled", "failed"}]
  BY DEF OnResult, TypeOK
<1>6. outbox' \in [Worker -> Seq(WorkerResponse)]
  BY DEF OnResult, TypeOK
<1>. QED BY <1>2, <1>3, <1>4, <1>5, <1>6, PumpType DEF TypeOK, threadVars, runVars

LEMMA OnErrorType ==
  ASSUME TypeOK, NEW w \in Worker, OnError(w)
  PROVE  TypeOK'
<1> DEFINE s == Home(w)
           nowBusy == [busy EXCEPT ![s] = FALSE]
           nowIds == [jobId EXCEPT ![s] = NoJob]
           nowWorker == [worker EXCEPT ![s] = NoWorker]
           nowInFlight == inFlight \ {jobId[s]}
<1>1. s \in Slots
  BY DEF Worker, Home
<1>2. PumpInput(queue, nowBusy, nowIds, nowWorker, nowInFlight, inbox)
  BY <1>1 DEF PumpInput, TypeOK
<1>3. UNCHANGED <<runVars, disposal, condemned, threadVars>>
  BY DEF OnError
<1>4. outcome' \in [Job -> {"none", "compiled", "failed"}]
  BY DEF OnError, TypeOK
<1>5. outbox' \in [Worker -> Seq(WorkerResponse)]
  BY DEF OnError, TypeOK
<1>6. CASE PumpsAfterError
  <2>1. Pump(queue, nowBusy, nowIds, nowWorker, nowInFlight, inbox)
    BY <1>6 DEF OnError
  <2>. QED
    BY <1>2, <1>3, <1>4, <1>5, <2>1, PumpType DEF TypeOK, threadVars, runVars
<1>7. CASE ~PumpsAfterError
  <2>1. /\ busy' = nowBusy
        /\ jobId' = nowIds
        /\ worker' = nowWorker
        /\ inFlight' = nowInFlight
        /\ UNCHANGED <<queue, spawned, thread, inbox, referenced>>
    BY <1>7 DEF OnError
  <2>. QED
    BY <1>2, <1>3, <1>4, <1>5, <2>1 DEF TypeOK, threadVars, runVars, PumpInput
<1>. QED BY <1>6, <1>7

LEMMA DisposeType ==
  ASSUME TypeOK, Dispose \/ DisposeDone
  PROVE  TypeOK'
<1>1. CASE Dispose
  <2>1. condemned' \in SUBSET Worker
    BY <1>1 DEF Dispose, Held, TypeOK
  <2>. QED BY <1>1, <2>1 DEF Dispose, TypeOK, runVars, slotVars, threadVars
<1>2. CASE DisposeDone
  BY <1>2 DEF DisposeDone, TypeOK, runVars, threadVars
<1>. QED BY <1>1, <1>2

\* The steps of a worker thread.
ThreadSteps(w) ==
  \/ WorkerBegins(w)
  \/ WorkerCompiles(w)
  \/ WorkerFinishes(w)
  \/ ThreadDies(w)
  \/ ThreadTerminates(w)

LEMMA ThreadType ==
  ASSUME TypeOK, NEW w \in Worker, ThreadSteps(w)
  PROVE  TypeOK'
<1> USE DEF mainVars, runVars, slotVars
<1>1. CASE WorkerBegins(w)
  <2>1. Head(inbox[w]) \in WorkerRequest
    BY <1>1 DEF WorkerBegins, TypeOK
  <2>2. Head(inbox[w]).session \in Session
    BY <1>1, <2>1 DEF WorkerBegins, WorkerRequest
  <2>. QED BY <1>1, <2>2 DEF WorkerBegins, TypeOK
<1>2. CASE WorkerCompiles(w)
  <2>1. Head(inbox[w]) \in WorkerRequest
    BY <1>2 DEF WorkerCompiles, TypeOK
  <2>2. [job |-> Head(inbox[w]).job, session |-> session[w]] \in Compiling
    BY <1>2, <2>1 DEF WorkerCompiles, WorkerRequest, Compiling, TypeOK
  <2>. QED BY <1>2, <2>2 DEF WorkerCompiles, TypeOK
<1>3. CASE WorkerFinishes(w)
  <2>1. PICK c \in compiling[w] :
          /\ compiling' = [compiling EXCEPT ![w] = @ \ {c}]
          /\ outbox' = [outbox EXCEPT ![w] = Append(@, ResultMessage(c.job))]
    BY <1>3 DEF WorkerFinishes
  <2>2. ResultMessage(c.job) \in WorkerResponse
    BY DEF TypeOK, Compiling, ResultMessage, WorkerResponse
  <2>. QED BY <1>3, <2>1, <2>2 DEF WorkerFinishes, TypeOK
<1>4. CASE ThreadDies(w)
  <2>1. ErrorMessage \in WorkerResponse
    BY DEF ErrorMessage, WorkerResponse
  <2>. QED BY <1>4, <2>1, PoolAssumption DEF ThreadDies, TypeOK
<1>5. CASE ThreadTerminates(w)
  BY <1>5 DEF ThreadTerminates, TypeOK
<1>. QED BY <1>1, <1>2, <1>3, <1>4, <1>5 DEF ThreadSteps

LEMMA NextType == TypeOK /\ [Next]_vars => TypeOK'
<1> SUFFICES ASSUME TypeOK, [Next]_vars PROVE TypeOK'
  OBVIOUS
<1>1. CASE UNCHANGED vars
  BY <1>1 DEF vars, runVars, slotVars, threadVars, TypeOK
<1>2. CASE Next
  BY <1>2, BeginRunType, OnResultType, OnErrorType, DisposeType, ThreadType
     DEF Next, ThreadSteps
<1>. QED BY <1>1, <1>2

\* Every variable of the pool keeps its type, in every step of the pool, its
\* threads and its caller.
THEOREM TypeCorrect == Spec => []TypeOK
BY InitType, NextType, PTL DEF Spec

-----------------------------------------------------------------------------
(* The pool implements CompileService.                                     *)

\* What the refinement rests on: a job is queued or in flight, never both, and
\* only until it is answered; and no job of a run to come has been asked for.
Disjoint == queue \cap inFlight = {}
Unanswered == \A j \in queue \cup inFlight : outcome[j] = "none"
NothingAhead ==
  \A j \in Job : j \in queue \cup inFlight \/ outcome[j] # "none" => j[1] <= run

ServiceInv == Disjoint /\ Unanswered /\ NothingAhead

Requested == queue \cup inFlight \cup {j \in Job : outcome[j] # "none"}

\* Pump moves jobs from the queue into flight and changes no other set of jobs.
LEMMA PumpMoves ==
  ASSUME NEW q, NEW bsy, NEW ids, NEW wrk, NEW flight, NEW ports,
         Pump(q, bsy, ids, wrk, flight, ports)
  PROVE  /\ queue' \cup inFlight' = q \cup flight
         /\ q \cap flight = {} => queue' \cap inFlight' = {}
BY StartableIsQueued DEF Pump

\* A run requests the jobs of its files.
LEMMA BeginRunRequests ==
  ASSUME TypeOK, ServiceInv, NEW files \in SUBSET Files,
         NEW groups \in Groupings(files), BeginRun(files, groups)
  PROVE  ServiceInv' /\ Service!Next
<1> DEFINE batch == {run'} \X files
<1>1. run' = run + 1 /\ run' \in Runs
  BY PoolAssumption DEF BeginRun, TypeOK, Runs
<1>2. batch \subseteq Job
  BY <1>1 DEF Job
<1>4. queue = {} /\ inFlight = {}
  BY DEF BeginRun
<1>3. queue' \cup inFlight' = batch \cup inFlight /\ queue' \cap inFlight' = {}
  BY <1>4, PumpMoves DEF BeginRun
<1>5. UNCHANGED <<disposal, outcome>>
  BY DEF BeginRun
<1>6. \A j \in batch : outcome[j] = "none" /\ j[1] = run'
  BY <1>1, <1>2, PoolAssumption DEF ServiceInv, NothingAhead, TypeOK
<1>7. ServiceInv'
  <2>1. Unanswered'
    BY <1>3, <1>4, <1>5, <1>6 DEF Unanswered
  <2>2. NothingAhead'
    <3> SUFFICES ASSUME NEW j \in Job,
                        j \in queue' \cup inFlight' \/ outcome'[j] # "none"
                 PROVE  j[1] <= run'
      BY DEF NothingAhead
    <3>1. CASE j \in batch
      BY <3>1, <1>1, <1>6 DEF Runs
    <3>2. CASE j \notin batch
      <4>1. j[1] <= run
        BY <3>2, <1>3, <1>4, <1>5 DEF ServiceInv, NothingAhead
      <4>. QED BY <4>1, <1>1 DEF Job, Runs, TypeOK
    <3>. QED BY <3>1, <3>2
  <2>. QED BY <1>3, <2>1, <2>2 DEF ServiceInv, Disjoint
<1>8. Service!Outstanding = {}
  BY <1>4 DEF Service!Outstanding
<1>9. batch \cap Requested = {}
  BY <1>4, <1>6 DEF Requested
<1>10. Requested' = Requested \cup batch
  BY <1>3, <1>4, <1>5 DEF Requested
<1>11. PICK b \in SUBSET Job : b = batch
  BY <1>2
<1>12. Service!Request(b)
  BY <1>5, <1>8, <1>9, <1>10, <1>11 DEF Service!Request, BeginRun, Requested
<1>. QED BY <1>7, <1>12 DEF Service!Next

\* What a port handler does to the jobs: at most one leaves flight, answered.
Answers(j, a) ==
  /\ outcome' = [k \in Job |-> IF k = j /\ j \in inFlight THEN a ELSE outcome[k]]
  /\ queue' \cup inFlight' = queue \cup (inFlight \ {j})
  /\ queue' \cap inFlight' = {}
  /\ UNCHANGED <<run, disposal>>

LEMMA AnswersResponds ==
  ASSUME TypeOK, ServiceInv, NEW j, NEW a \in {"compiled", "failed"},
         Answers(j, a)
  PROVE  ServiceInv' /\ [Service!Next]_(Service!vars)
<1>1. CASE j \in inFlight
  <2>1. j \in Job /\ outcome[j] = "none" /\ j \notin queue
    BY <1>1 DEF TypeOK, ServiceInv, Unanswered, Disjoint
  <2>2. outcome' = [outcome EXCEPT ![j] = a]
    BY <1>1, <2>1 DEF Answers, TypeOK
  <2>3. Requested' = Requested
    BY <1>1, <2>1, <2>2 DEF Requested, Answers, TypeOK
  <2>4. j \in Service!Outstanding
    BY <1>1, <2>1 DEF Service!Outstanding
  <2>5. Service!Respond(j, a)
    BY <2>2, <2>3, <2>4 DEF Service!Respond, Requested, Answers
  <2>6. ServiceInv'
    BY <1>1, <2>1, <2>2 DEF ServiceInv, Disjoint, Unanswered, NothingAhead, Answers, TypeOK
  <2>. QED BY <2>1, <2>5, <2>6 DEF Service!Next, Service!Answer
<1>2. CASE j \notin inFlight
  <2>1. outcome' = outcome
    BY <1>2 DEF Answers, TypeOK
  <2>2. queue' \cup inFlight' = queue \cup inFlight
    BY <1>2 DEF Answers
  <2>3. ServiceInv'
    BY <2>1, <2>2 DEF ServiceInv, Disjoint, Unanswered, NothingAhead, Answers
  <2>4. UNCHANGED Service!vars
    BY <2>1, <2>2 DEF Service!vars, Answers
  <2>. QED BY <2>3, <2>4
<1>. QED BY <1>1, <1>2

LEMMA OnResultAnswers ==
  ASSUME TypeOK, ServiceInv, NEW w \in Worker, OnResult(w)
  PROVE  Answers(Head(outbox[w]).job, "compiled")
BY PumpMoves DEF OnResult, Answers, ServiceInv, Disjoint, runVars

LEMMA OnErrorAnswers ==
  ASSUME TypeOK, ServiceInv, NEW w \in Worker, OnError(w)
  PROVE  Answers(jobId[Home(w)], "failed")
<1> DEFINE j == jobId[Home(w)]
<1>1. outcome' = [k \in Job |-> IF k = j /\ j \in inFlight THEN "failed"
                                ELSE outcome[k]]
  BY DEF OnError, FailedBy
<1>2. UNCHANGED <<run, disposal>>
  BY DEF OnError, runVars
<1>3. /\ queue' \cup inFlight' = queue \cup (inFlight \ {j})
      /\ queue' \cap inFlight' = {}
  <2>1. CASE PumpsAfterError
    BY <2>1, PumpMoves DEF OnError, ServiceInv, Disjoint
  <2>2. CASE ~PumpsAfterError
    BY <2>2 DEF OnError, ServiceInv, Disjoint
  <2>. QED BY <2>1, <2>2
<1>. QED BY <1>1, <1>2, <1>3 DEF Answers

\* Disposal closes the service, and nothing else is visible through it.
LEMMA QuietSteps ==
  ASSUME TypeOK, ServiceInv,
         \/ Dispose
         \/ DisposeDone
         \/ \E w \in Worker : ThreadSteps(w)
         \/ UNCHANGED vars
  PROVE  ServiceInv' /\ [Service!Next]_(Service!vars)
<1>1. UNCHANGED <<run, queue, inFlight, outcome>>
  BY DEF Dispose, DisposeDone, ThreadSteps, WorkerBegins, WorkerCompiles,
         WorkerFinishes, ThreadDies, ThreadTerminates, mainVars, runVars, vars
<1>2. ServiceInv'
  BY <1>1 DEF ServiceInv, Disjoint, Unanswered, NothingAhead
<1>3. Requested' = Requested
  BY <1>1 DEF Requested
<1>4. CASE Dispose
  <2>1. Service!Close
    BY <1>1, <1>3, <1>4 DEF Service!Close, Requested, Dispose
  <2>. QED BY <1>2, <2>1 DEF Service!Next
<1>5. CASE ~Dispose
  <2>1. (disposal = "no")' = (disposal = "no")
    BY <1>5 DEF DisposeDone, ThreadSteps, WorkerBegins, WorkerCompiles,
         WorkerFinishes, ThreadDies, ThreadTerminates, mainVars, vars
  <2>2. UNCHANGED Service!vars
    BY <1>1, <1>3, <2>1 DEF Service!vars, Requested
  <2>. QED BY <1>2, <2>2
<1>. QED BY <1>4, <1>5

LEMMA StepImplements ==
  ASSUME TypeOK, ServiceInv, [Next]_vars
  PROVE  ServiceInv' /\ [Service!Next]_(Service!vars)
<1>1. ASSUME NEW files \in SUBSET Files, NEW groups \in Groupings(files),
             BeginRun(files, groups)
      PROVE  ServiceInv' /\ [Service!Next]_(Service!vars)
  BY <1>1, BeginRunRequests
<1>2. ASSUME NEW w \in Worker, OnResult(w)
      PROVE  ServiceInv' /\ [Service!Next]_(Service!vars)
  BY <1>2, OnResultAnswers, AnswersResponds
<1>3. ASSUME NEW w \in Worker, OnError(w)
      PROVE  ServiceInv' /\ [Service!Next]_(Service!vars)
  BY <1>3, OnErrorAnswers, AnswersResponds
<1>4. ASSUME \/ Dispose
             \/ DisposeDone
             \/ \E w \in Worker : ThreadSteps(w)
             \/ UNCHANGED vars
      PROVE  ServiceInv' /\ [Service!Next]_(Service!vars)
  BY <1>4, QuietSteps
<1>5. \/ \E files \in SUBSET Files :
           \E groups \in Groupings(files) : BeginRun(files, groups)
      \/ \E w \in Worker : OnResult(w)
      \/ \E w \in Worker : OnError(w)
      \/ Dispose
      \/ DisposeDone
      \/ \E w \in Worker : ThreadSteps(w)
      \/ UNCHANGED vars
  BY DEF Next, ThreadSteps
<1>6. CASE \E files \in SUBSET Files :
             \E groups \in Groupings(files) : BeginRun(files, groups)
  BY <1>1, <1>6
<1>7. CASE \E w \in Worker : OnResult(w)
  BY <1>2, <1>7
<1>8. CASE \E w \in Worker : OnError(w)
  BY <1>3, <1>8
<1>. QED BY <1>4, <1>5, <1>6, <1>7, <1>8

\* The pool implements CompileService: every job asked for stays asked for,
\* each is answered at most once and by its own compilation or its own worker's
\* death, no answer changes, and no run starts before the last is answered.
THEOREM PoolImplementsService == Spec => ImplementsService
<1>1. Init => ServiceInv /\ Service!Init
  BY DEF Init, ServiceInv, Disjoint, Unanswered, NothingAhead, Service!Init
<1>2. TypeOK /\ ServiceInv /\ [Next]_vars =>
        ServiceInv' /\ [Service!Next]_(Service!vars)
  BY StepImplements
<1>. QED BY <1>1, <1>2, TypeCorrect, PTL DEF Spec, ImplementsService, Service!Spec

-----------------------------------------------------------------------------
(* Sessions.                                                               *)

\* The session in force at the n-th message of an inbox: the last one begun
\* before it, or else the one its thread holds.
InForce(box, held, n, S) ==
  \/ \E k \in 1 .. n :
       /\ box[k].type = "begin" /\ box[k].session = S
       /\ \A m \in k + 1 .. n : box[m].type # "begin"
  \/ held = S /\ \A m \in 1 .. n : box[m].type # "begin"

Covers(S, j) == S.run = j[1] /\ j[2] \in S.entries

\* Every job still posted will be compiled in a session that covers it.
Fresh(box, held) ==
  \A i \in DOMAIN box : box[i].type = "compile" =>
    \E S \in Session : InForce(box, held, i, S) /\ Covers(S, box[i].job)

Current(s) == [run |-> run, entries |-> entries[s]]

\* A queue holds the current run's jobs, each among the entries of its slot.
QueueIsCurrent(q, r, pins, ents) ==
  \A j \in q : /\ j[1] = r
               /\ pins[j[2]] \in Slots
               /\ j[2] \in ents[pins[j[2]]]

\* Whoever a slot holds will have begun the current run before what comes next.
HeldIsTold(wrk, ports, held, r, ents) ==
  \A w \in Worker : wrk[Home(w)] = w =>
    InForce(ports[w], held[w], Len(ports[w]),
            [run |-> r, entries |-> ents[Home(w)]])

SessionInv ==
  /\ QueueIsCurrent(queue, run, assignment, entries)
  /\ \A w \in Worker : Fresh(inbox[w], session[w])
  /\ HeldIsTold(worker, inbox, session, run, entries)
  /\ FreshSession

\* Appending a message changes nothing about the messages before it.
LEMMA InForceBefore ==
  ASSUME NEW box \in Seq(WorkerRequest), NEW message \in WorkerRequest,
         NEW held, NEW S, NEW n \in 0 .. Len(box)
  PROVE  InForce(Append(box, message), held, n, S) <=> InForce(box, held, n, S)
<1>1. \A i \in 1 .. n : Append(box, message)[i] = box[i]
  OBVIOUS
<1>. QED BY <1>1 DEF InForce

LEMMA InForceBegun ==
  ASSUME NEW box \in Seq(WorkerRequest), NEW S \in Session, NEW held
  PROVE  LET told == Append(box, BeginMessage(S))
         IN  InForce(told, held, Len(told), S)
<1> DEFINE told == Append(box, BeginMessage(S))
<1>1. Len(told) = Len(box) + 1 /\ told[Len(box) + 1] = BeginMessage(S)
  OBVIOUS
<1>. HIDE DEF told
<1>2. Len(told) \in 1 .. Len(told) /\ told[Len(told)] = BeginMessage(S)
  BY <1>1
<1>. QED BY <1>2 DEF InForce, BeginMessage

LEMMA InForceKept ==
  ASSUME NEW box \in Seq(WorkerRequest), NEW j \in Job, NEW held, NEW S,
         InForce(box, held, Len(box), S)
  PROVE  LET sent == Append(box, CompileMessage(j))
         IN  InForce(sent, held, Len(sent), S)
<1> DEFINE sent == Append(box, CompileMessage(j))
<1>1. Len(sent) = Len(box) + 1 /\ sent[Len(box) + 1] = CompileMessage(j)
  OBVIOUS
<1>2. \A i \in 1 .. Len(box) : sent[i] = box[i]
  OBVIOUS
<1>3. sent[Len(box) + 1].type # "begin"
  BY <1>1 DEF CompileMessage
<1>. HIDE DEF sent
<1>. QED BY <1>1, <1>2, <1>3 DEF InForce

\* Receiving the first message: a "begin" is then held.
LEMMA InForceReceived ==
  ASSUME NEW box \in Seq(WorkerRequest), box # <<>>, NEW held, NEW S,
         NEW n \in 1 .. Len(box), InForce(box, held, n, S)
  PROVE  InForce(Tail(box),
                 IF Head(box).type = "begin" THEN Head(box).session ELSE held,
                 n - 1, S)
<1> DEFINE rest == Tail(box)
           now == IF Head(box).type = "begin" THEN Head(box).session ELSE held
<1>1. Len(rest) = Len(box) - 1 /\ Head(box) = box[1]
  OBVIOUS
<1>2. \A i \in 1 .. Len(box) - 1 : rest[i] = box[i + 1]
  OBVIOUS
<1> SUFFICES InForce(rest, now, n - 1, S)
  OBVIOUS
<1>. HIDE DEF rest
<1>3. CASE \E k \in 1 .. n :
             /\ box[k].type = "begin" /\ box[k].session = S
             /\ \A m \in k + 1 .. n : box[m].type # "begin"
  <2>1. PICK k \in 1 .. n :
             /\ box[k].type = "begin" /\ box[k].session = S
             /\ \A m \in k + 1 .. n : box[m].type # "begin"
    BY <1>3
  <2>2. \A m \in k .. n - 1 : rest[m] = box[m + 1] /\ m + 1 \in k + 1 .. n
    BY <1>2
  <2>3. CASE k = 1
    <3>1. now = S
      BY <2>1, <2>3, <1>1
    <3>2. \A m \in 1 .. n - 1 : rest[m].type # "begin"
      BY <2>1, <2>2, <2>3
    <3>. HIDE DEF now
    <3>. QED BY <3>1, <3>2 DEF InForce
  <2>4. CASE k # 1
    <3>1. k - 1 \in 1 .. n - 1 /\ rest[k - 1] = box[k]
      BY <2>4, <1>2
    <3>2. \A m \in (k - 1) + 1 .. n - 1 : rest[m].type # "begin"
      BY <2>1, <2>2
    <3>. QED BY <2>1, <3>1, <3>2 DEF InForce
  <2>. QED BY <2>3, <2>4
<1>4. CASE held = S /\ \A m \in 1 .. n : box[m].type # "begin"
  <2>1. now = S
    BY <1>4, <1>1
  <2>2. \A m \in 1 .. n - 1 : rest[m] = box[m + 1] /\ m + 1 \in 1 .. n
    BY <1>2
  <2>. HIDE DEF now
  <2>. QED BY <1>4, <2>1, <2>2 DEF InForce
<1>. QED BY <1>3, <1>4 DEF InForce

LEMMA FreshBegun ==
  ASSUME NEW box \in Seq(WorkerRequest), NEW S \in Session, NEW held,
         Fresh(box, held)
  PROVE  Fresh(Append(box, BeginMessage(S)), held)
<1> DEFINE told == Append(box, BeginMessage(S))
<1>1. BeginMessage(S) \in WorkerRequest
  BY DEF BeginMessage, WorkerRequest
<1> SUFFICES ASSUME NEW i \in DOMAIN told, told[i].type = "compile"
             PROVE  \E T \in Session : InForce(told, held, i, T) /\ Covers(T, told[i].job)
  BY DEF Fresh
<1>2. i \in 1 .. Len(box) /\ told[i] = box[i]
  BY DEF BeginMessage
<1>. QED BY <1>1, <1>2, InForceBefore DEF Fresh

LEMMA FreshSent ==
  ASSUME NEW box \in Seq(WorkerRequest), NEW S \in Session, NEW held,
         NEW j \in Job, Fresh(box, held),
         InForce(box, held, Len(box), S), Covers(S, j)
  PROVE  Fresh(Append(box, CompileMessage(j)), held)
<1> DEFINE sent == Append(box, CompileMessage(j))
<1>1. CompileMessage(j) \in WorkerRequest
  BY DEF CompileMessage, WorkerRequest
<1> SUFFICES ASSUME NEW i \in DOMAIN sent, sent[i].type = "compile"
             PROVE  \E T \in Session : InForce(sent, held, i, T) /\ Covers(T, sent[i].job)
  BY DEF Fresh
<1>2. CASE i \in 1 .. Len(box)
  <2>1. sent[i] = box[i]
    BY <1>2
  <2>. QED BY <1>1, <1>2, <2>1, InForceBefore DEF Fresh
<1>3. CASE i = Len(box) + 1
  <2>1. sent[i].job = j /\ Len(sent) = i
    BY <1>3 DEF CompileMessage
  <2>2. InForce(sent, held, i, S)
    BY <2>1, InForceKept
  <2>. HIDE DEF sent
  <2>. QED BY <2>1, <2>2
<1>. QED BY <1>2, <1>3

\* What pump dispatches will be compiled in the session of this run, whether the
\* slot's worker was told of it or is booted for it.
LEMMA PumpIsFresh ==
  ASSUME NEW q, NEW bsy, NEW ids, NEW wrk, NEW flight, NEW ports,
         PumpInput(q, bsy, ids, wrk, flight, ports), TypeOK,
         run' \in 0 .. MaxRuns, entries' \in [Slots -> SUBSET Files],
         QueueIsCurrent(q, run', assignment', entries'),
         \A w \in Worker : Fresh(ports[w], session[w]),
         HeldIsTold(wrk, ports, session, run', entries'),
         session' = session, compiling' = compiling, FreshSession,
         Pump(q, bsy, ids, wrk, flight, ports)
  PROVE  SessionInv'
<1> DEFINE start == Startable(q, bsy)
           started(s) == \E j \in start : assignment'[j[2]] = s
           jobOf(s) == CHOOSE j \in start : assignment'[j[2]] = s
           boots(s) == started(s) /\ wrk[s] = NoWorker
           held(s) == IF boots(s) THEN <<s, spawned[s] + 1>> ELSE wrk[s]
           isBooted(w) == boots(Home(w)) /\ w = held(Home(w))
           now(s) == [run |-> run', entries |-> entries'[s]]
           received(w) == IF isBooted(w) THEN <<BeginMessage(now(Home(w)))>>
                          ELSE ports[w]
<1>1. start \subseteq q /\ queue' \subseteq q
  BY StartableIsQueued DEF Pump
<1>2. QueueIsCurrent(queue, run, assignment, entries)'
  BY <1>1 DEF QueueIsCurrent
<1>3. \A s \in Slots : started(s) => jobOf(s) \in Job /\ Covers(now(s), jobOf(s))
  <2> SUFFICES ASSUME NEW s \in Slots, started(s)
               PROVE  jobOf(s) \in Job /\ Covers(now(s), jobOf(s))
    OBVIOUS
  <2>1. jobOf(s) \in start /\ assignment'[jobOf(s)[2]] = s
    OBVIOUS
  <2>2. jobOf(s) \in q
    BY <2>1, <1>1
  <2>. QED BY <2>1, <2>2 DEF PumpInput, QueueIsCurrent, Covers
<1>4. inbox' = [w \in Worker |->
                  IF held(Home(w)) = w /\ started(Home(w))
                  THEN Append(received(w), CompileMessage(jobOf(Home(w))))
                  ELSE ports[w]]
  BY DEF Pump
<1>5. worker' = [s \in Slots |-> held(s)]
  BY DEF Pump
<1>6. \A w \in Worker : Home(w) \in Slots /\ now(Home(w)) \in Session
  BY DEF Worker, Home, Session
<1>7. ASSUME NEW w \in Worker, held(Home(w)) = w, started(Home(w))
      PROVE  /\ received(w) \in Seq(WorkerRequest)
             /\ Fresh(received(w), session[w])
             /\ InForce(received(w), session[w], Len(received(w)), now(Home(w)))
  <2>1. CASE isBooted(w)
    <3>1. <<>> \in Seq(WorkerRequest) /\ Fresh(<<>>, session[w])
      BY DEF Fresh
    <3>2. received(w) = Append(<<>>, BeginMessage(now(Home(w))))
      BY <2>1
    <3>. HIDE DEF received, now, isBooted, held, started
    <3>3. BeginMessage(now(Home(w))) \in WorkerRequest
      BY <1>6 DEF BeginMessage, WorkerRequest
    <3>4. received(w) \in Seq(WorkerRequest)
      BY <3>2, <3>3
    <3>. QED BY <3>4, <3>1, <3>2, <3>3, <1>6, FreshBegun, InForceBegun
  <2>2. CASE ~isBooted(w)
    <3>1. received(w) = ports[w] /\ wrk[Home(w)] = w
      BY <2>2, <1>7
    <3>. QED BY <3>1 DEF PumpInput, HeldIsTold
  <2>. QED BY <2>1, <2>2
<1>8. ASSUME NEW w \in Worker, held(Home(w)) = w, started(Home(w))
      PROVE  /\ Fresh(inbox'[w], session[w])
             /\ InForce(inbox'[w], session[w], Len(inbox'[w]), now(Home(w)))
  <2>1. inbox'[w] = Append(received(w), CompileMessage(jobOf(Home(w))))
    BY <1>4, <1>8
  <2>2. /\ jobOf(Home(w)) \in Job
        /\ Covers(now(Home(w)), jobOf(Home(w)))
        /\ now(Home(w)) \in Session
    BY <1>3, <1>6, <1>8
  <2>. HIDE DEF received, now, jobOf, held, started
  <2>. QED BY <2>1, <2>2, <1>7, <1>8, FreshSent, InForceKept
<1>9. ASSUME NEW w \in Worker, ~(held(Home(w)) = w /\ started(Home(w)))
      PROVE  inbox'[w] = ports[w]
  BY <1>4, <1>9
<1>10. \A w \in Worker : Fresh(inbox'[w], session'[w])
  BY <1>8, <1>9
<1>11. HeldIsTold(worker, inbox, session, run, entries)'
  <2> SUFFICES ASSUME NEW w \in Worker, worker'[Home(w)] = w
               PROVE  InForce(inbox'[w], session[w], Len(inbox'[w]), now(Home(w)))
    BY DEF HeldIsTold
  <2>1. held(Home(w)) = w
    BY <1>5, <1>6
  <2>2. CASE started(Home(w))
    BY <1>8, <2>1, <2>2
  <2>3. CASE ~started(Home(w))
    <3>1. wrk[Home(w)] = w
      BY <2>1, <2>3
    <3>. QED BY <1>9, <2>3, <3>1 DEF HeldIsTold
  <2>. QED BY <2>2, <2>3
<1>12. FreshSession'
  BY DEF FreshSession
<1>. QED BY <1>2, <1>10, <1>11, <1>12 DEF SessionInv

-----------------------------------------------------------------------------
(* FreshSession, step by step.                                             *)

LEMMA InitSession == Init => SessionInv
<1> SUFFICES ASSUME Init PROVE SessionInv
  OBVIOUS
<1>1. \A w \in Worker : worker[Home(w)] # w
  BY DEF Init, Worker, Home, NoWorker, Slots
<1>. QED BY <1>1 DEF Init, SessionInv, QueueIsCurrent, Fresh, HeldIsTold, FreshSession

LEMMA BeginRunSession ==
  ASSUME TypeOK, SessionInv, NEW files \in SUBSET Files,
         NEW groups \in Groupings(files), BeginRun(files, groups)
  PROVE  SessionInv'
<1> DEFINE now(s) == [run |-> run', entries |-> entries'[s]]
           told == [w \in Worker |->
                      IF worker[Home(w)] = w
                      THEN Append(inbox[w], BeginMessage(now(Home(w))))
                      ELSE inbox[w]]
           batch == {run'} \X files
<1>1. run' \in 1 .. MaxRuns
  BY PoolAssumption DEF BeginRun, TypeOK
<1>2. entries' = [s \in Slots |-> {f \in files : assignment'[f] = s}]
  BY DEF BeginRun
<1>3. /\ run' \in 0 .. MaxRuns
      /\ entries' \in [Slots -> SUBSET Files]
  BY <1>1, <1>2, PoolAssumption
<1>4. \A w \in Worker : Home(w) \in Slots /\ now(Home(w)) \in Session
  BY <1>3 DEF Worker, Home, Session
<1>5. \A f \in files : assignment'[f] \in Slots
  BY AssignmentsPin DEF BeginRun
<1>6. QueueIsCurrent(batch, run', assignment', entries')
  BY <1>2, <1>5 DEF QueueIsCurrent
<1>7. \A w \in Worker : inbox[w] \in Seq(WorkerRequest)
  BY DEF TypeOK
<1>8. Pump(batch, busy, jobId, worker, inFlight, told)
  BY DEF BeginRun
<1>9. session' = session /\ compiling' = compiling
  BY DEF BeginRun, threadVars
<1>. HIDE DEF now
<1>10. \A w \in Worker : BeginMessage(now(Home(w))) \in WorkerRequest
  BY <1>4 DEF BeginMessage, WorkerRequest
<1>11. told \in [Worker -> Seq(WorkerRequest)]
  BY <1>7, <1>10
<1>12. \A w \in Worker : Fresh(told[w], session[w])
  BY <1>4, <1>7, FreshBegun DEF SessionInv
<1>13. HeldIsTold(worker, told, session, run', entries')
  <2> SUFFICES ASSUME NEW w \in Worker, worker[Home(w)] = w
               PROVE  InForce(told[w], session[w], Len(told[w]), now(Home(w)))
    BY DEF HeldIsTold, now
  <2>1. told[w] = Append(inbox[w], BeginMessage(now(Home(w))))
    OBVIOUS
  <2>. QED BY <2>1, <1>4, <1>7, InForceBegun
<1>14. PumpInput(batch, busy, jobId, worker, inFlight, told)
  BY <1>1, <1>11 DEF PumpInput, TypeOK, Job, Runs
<1>. HIDE DEF told, batch
<1>. QED BY <1>3, <1>6, <1>8, <1>9, <1>12, <1>13, <1>14, PumpIsFresh DEF SessionInv

\* A handler that forgets workers, or nothing, and pumps.
LEMMA PumpAfterSession ==
  ASSUME TypeOK, SessionInv, NEW bsy, NEW ids, NEW wrk, NEW flight,
         PumpInput(queue, bsy, ids, wrk, flight, inbox),
         \A s \in Slots : wrk[s] # NoWorker => wrk[s] = worker[s],
         UNCHANGED <<runVars, session, compiling>>,
         Pump(queue, bsy, ids, wrk, flight, inbox)
  PROVE  SessionInv'
<1>1. UNCHANGED <<run, assignment, rank, entries, session, compiling>>
  BY DEF runVars
<1>2. HeldIsTold(wrk, inbox, session, run', entries')
  <2> SUFFICES ASSUME NEW w \in Worker, wrk[Home(w)] = w
               PROVE  InForce(inbox[w], session[w], Len(inbox[w]),
                              [run |-> run, entries |-> entries[Home(w)]])
    BY <1>1 DEF HeldIsTold
  <2>1. Home(w) \in Slots /\ w # NoWorker
    BY DEF Worker, Home, NoWorker, Slots
  <2>. QED BY <2>1 DEF SessionInv, HeldIsTold
<1>3. /\ run' \in 0 .. MaxRuns
      /\ entries' \in [Slots -> SUBSET Files]
  BY <1>1 DEF TypeOK
<1>4. QueueIsCurrent(queue, run', assignment', entries')
  BY <1>1 DEF SessionInv
<1>. QED BY <1>1, <1>2, <1>3, <1>4, PumpIsFresh DEF SessionInv

LEMMA OnResultSession ==
  ASSUME TypeOK, SessionInv, NEW w \in Worker, OnResult(w)
  PROVE  SessionInv'
<1> DEFINE s == Home(w)
           j == Head(outbox[w]).job
<1>1. s \in Slots
  BY DEF Worker, Home
<1>2. PumpInput(queue, [busy EXCEPT ![s] = FALSE], [jobId EXCEPT ![s] = NoJob],
                worker, inFlight \ {j}, inbox)
  BY <1>1 DEF PumpInput, TypeOK
<1>3. Pump(queue, [busy EXCEPT ![s] = FALSE], [jobId EXCEPT ![s] = NoJob],
           worker, inFlight \ {j}, inbox)
  BY DEF OnResult
<1>4. UNCHANGED <<runVars, session, compiling>>
  BY DEF OnResult, threadVars
<1>. QED BY <1>2, <1>3, <1>4, PumpAfterSession

LEMMA OnErrorSession ==
  ASSUME TypeOK, SessionInv, NEW w \in Worker, OnError(w)
  PROVE  SessionInv'
<1> DEFINE s == Home(w)
           nowBusy == [busy EXCEPT ![s] = FALSE]
           nowIds == [jobId EXCEPT ![s] = NoJob]
           nowWorker == [worker EXCEPT ![s] = NoWorker]
           nowInFlight == inFlight \ {jobId[s]}
<1>1. s \in Slots
  BY DEF Worker, Home
<1>2. PumpInput(queue, nowBusy, nowIds, nowWorker, nowInFlight, inbox)
  BY <1>1 DEF PumpInput, TypeOK
<1>3. UNCHANGED <<runVars, session, compiling>>
  BY DEF OnError, threadVars
<1>4. \A t \in Slots : nowWorker[t] # NoWorker => nowWorker[t] = worker[t]
  BY DEF TypeOK
<1>5. CASE PumpsAfterError
  <2>1. Pump(queue, nowBusy, nowIds, nowWorker, nowInFlight, inbox)
    BY <1>5 DEF OnError
  <2>. QED BY <1>2, <1>3, <1>4, <2>1, PumpAfterSession
<1>6. CASE ~PumpsAfterError
  <2>1. worker' = nowWorker /\ UNCHANGED <<queue, inbox>>
    BY <1>6 DEF OnError
  <2>2. \A v \in Worker : worker'[Home(v)] = v => worker[Home(v)] = v
    BY <1>4, <2>1 DEF Worker, Home, NoWorker, Slots
  <2>. QED BY <1>3, <2>1, <2>2
           DEF SessionInv, QueueIsCurrent, HeldIsTold, FreshSession, runVars
<1>. QED BY <1>5, <1>6

LEMMA DisposeSession ==
  ASSUME SessionInv, Dispose \/ DisposeDone
  PROVE  SessionInv'
<1>1. UNCHANGED <<queue, run, assignment, entries, inbox, session, compiling>>
  BY DEF Dispose, DisposeDone, runVars, threadVars
<1>2. \A w \in Worker : worker'[Home(w)] = w => worker[Home(w)] = w
  <2>1. \A w \in Worker : Home(w) \in Slots /\ w # NoWorker
    BY DEF Worker, Home, NoWorker, Slots
  <2>2. CASE Dispose
    BY <2>2 DEF Dispose, slotVars
  <2>3. CASE DisposeDone
    BY <2>1, <2>3 DEF DisposeDone
  <2>. QED BY <2>2, <2>3
<1>. QED BY <1>1, <1>2 DEF SessionInv, QueueIsCurrent, HeldIsTold, FreshSession

\* Receiving: the rest of the inbox is as fresh, under what is held by then.
LEMMA ReceivesSession ==
  ASSUME TypeOK, SessionInv, NEW w \in Worker, inbox[w] # <<>>,
         session' = [session EXCEPT ![w] =
                       IF Head(inbox[w]).type = "begin"
                       THEN Head(inbox[w]).session ELSE session[w]],
         inbox' = [inbox EXCEPT ![w] = Tail(inbox[w])],
         UNCHANGED mainVars
  PROVE  /\ QueueIsCurrent(queue, run, assignment, entries)'
         /\ \A v \in Worker : Fresh(inbox'[v], session'[v])
         /\ HeldIsTold(worker, inbox, session, run, entries)'
<1> DEFINE box == inbox[w]
           rest == Tail(box)
           held == IF Head(box).type = "begin" THEN Head(box).session ELSE session[w]
<1>1. UNCHANGED <<queue, run, assignment, entries, worker>>
  BY DEF mainVars, runVars, slotVars
<1>2. box \in Seq(WorkerRequest) /\ box # <<>>
  BY DEF TypeOK
<1>3. inbox'[w] = rest /\ session'[w] = held
  BY DEF TypeOK
<1>4. \A v \in Worker \ {w} : inbox'[v] = inbox[v] /\ session'[v] = session[v]
  BY DEF TypeOK
<1>5. \A n \in 1 .. Len(box) : \A S : InForce(box, session[w], n, S) => InForce(rest, held, n - 1, S)
  BY <1>2, InForceReceived
<1>6. /\ Len(rest) = Len(box) - 1
      /\ \A i \in DOMAIN rest : i + 1 \in 1 .. Len(box) /\ rest[i] = box[i + 1]
      /\ Len(box) \in 1 .. Len(box)
      /\ DOMAIN box = 1 .. Len(box)
  BY <1>2
<1>. HIDE DEF rest, held, box
<1>7. Fresh(rest, held)
  <2> SUFFICES ASSUME NEW i \in DOMAIN rest, rest[i].type = "compile"
               PROVE  \E S \in Session : InForce(rest, held, i, S) /\ Covers(S, rest[i].job)
    BY DEF Fresh
  <2>1. PICK S \in Session : InForce(box, session[w], i + 1, S) /\ Covers(S, box[i + 1].job)
    BY <1>6 DEF SessionInv, Fresh, box
  <2>2. InForce(rest, held, (i + 1) - 1, S)
    BY <2>1, <1>5, <1>6
  <2>3. (i + 1) - 1 = i
    BY <1>6
  <2>. QED BY <2>1, <2>2, <2>3, <1>6
<1>8. worker[Home(w)] = w =>
        InForce(rest, held, Len(rest), [run |-> run, entries |-> entries[Home(w)]])
  BY <1>5, <1>6 DEF SessionInv, HeldIsTold, box
<1>9. HeldIsTold(worker, inbox, session, run, entries)'
  <2> SUFFICES ASSUME NEW v \in Worker, worker[Home(v)] = v
               PROVE  InForce(inbox'[v], session'[v], Len(inbox'[v]),
                              [run |-> run, entries |-> entries[Home(v)]])
    BY <1>1 DEF HeldIsTold
  <2>1. CASE v = w
    BY <2>1, <1>3, <1>8
  <2>2. CASE v # w
    BY <2>2, <1>4 DEF SessionInv, HeldIsTold
  <2>. QED BY <2>1, <2>2
<1>10. \A v \in Worker : Fresh(inbox'[v], session'[v])
  BY <1>3, <1>4, <1>7 DEF SessionInv
<1>11. QueueIsCurrent(queue, run, assignment, entries)'
  BY <1>1 DEF SessionInv, QueueIsCurrent
<1>. QED BY <1>9, <1>10, <1>11

LEMMA ThreadSession ==
  ASSUME TypeOK, SessionInv, NEW w \in Worker, ThreadSteps(w)
  PROVE  SessionInv'
<1>1. CASE WorkerBegins(w)
  <2>1. session' = [session EXCEPT ![w] =
                      IF Head(inbox[w]).type = "begin"
                      THEN Head(inbox[w]).session ELSE session[w]]
    BY <1>1 DEF WorkerBegins
  <2>2. FreshSession'
    BY <1>1 DEF WorkerBegins, SessionInv, FreshSession
  <2>. QED BY <1>1, <2>1, <2>2, ReceivesSession DEF WorkerBegins, SessionInv
<1>2. CASE WorkerCompiles(w)
  <2>1. session' = [session EXCEPT ![w] =
                      IF Head(inbox[w]).type = "begin"
                      THEN Head(inbox[w]).session ELSE session[w]]
    BY <1>2 DEF WorkerCompiles, TypeOK
  <2>2. PICK S \in Session : InForce(inbox[w], session[w], 1, S)
                             /\ Covers(S, inbox[w][1].job)
    <3>1. 1 \in DOMAIN inbox[w] /\ inbox[w][1].type = "compile"
      BY <1>2 DEF WorkerCompiles, TypeOK
    <3>. QED BY <3>1 DEF SessionInv, Fresh
  <2>3. S = session[w]
    <3>1. inbox[w][1].type = "compile"
      BY <1>2 DEF WorkerCompiles, TypeOK
    <3>. QED BY <2>2, <3>1 DEF InForce
  <2>4. Head(inbox[w]) = inbox[w][1]
    BY <1>2 DEF WorkerCompiles, TypeOK
  <2>5. compiling' = [compiling EXCEPT ![w] =
                        @ \cup {[job |-> inbox[w][1].job, session |-> session[w]]}]
    BY <1>2, <2>4 DEF WorkerCompiles
  <2>6. FreshSession'
    BY <2>2, <2>3, <2>5 DEF SessionInv, FreshSession, Covers, TypeOK
  <2>. QED BY <1>2, <2>1, <2>6, ReceivesSession DEF WorkerCompiles, SessionInv
<1>3. CASE WorkerFinishes(w)
  <2>1. UNCHANGED <<queue, run, assignment, entries, worker, inbox, session>>
    BY <1>3 DEF WorkerFinishes, mainVars, runVars, slotVars
  <2>2. \A v \in Worker : compiling'[v] \subseteq compiling[v]
    BY <1>3 DEF WorkerFinishes, TypeOK
  <2>. QED BY <2>1, <2>2 DEF SessionInv, QueueIsCurrent, HeldIsTold, FreshSession
<1>4. CASE ThreadDies(w) \/ ThreadTerminates(w)
  <2>1. UNCHANGED <<queue, run, assignment, entries, worker, inbox, session, compiling>>
    BY <1>4 DEF ThreadDies, ThreadTerminates, mainVars, runVars, slotVars
  <2>. QED BY <2>1 DEF SessionInv, QueueIsCurrent, HeldIsTold, FreshSession
<1>. QED BY <1>1, <1>2, <1>3, <1>4 DEF ThreadSteps

LEMMA NextSession == TypeOK /\ SessionInv /\ [Next]_vars => SessionInv'
<1> SUFFICES ASSUME TypeOK, SessionInv, [Next]_vars PROVE SessionInv'
  OBVIOUS
<1>1. CASE UNCHANGED vars
  BY <1>1 DEF vars, runVars, slotVars, threadVars, SessionInv, QueueIsCurrent,
              HeldIsTold, FreshSession
<1>2. CASE Next
  BY <1>2, BeginRunSession, OnResultSession, OnErrorSession, DisposeSession,
     ThreadSession DEF Next, ThreadSteps
<1>. QED BY <1>1, <1>2

\* No job is compiled in the session of an earlier run, nor in one that was not
\* told of its file, whichever worker it ends up with: a warm one, or the
\* replacement of one that died.
THEOREM SessionsAreFresh == Spec => []FreshSession
<1>1. SessionInv => FreshSession
  BY DEF SessionInv
<1>. QED BY <1>1, InitSession, NextSession, TypeCorrect, PTL DEF Spec

-----------------------------------------------------------------------------
(* What a slot is busy with.                                               *)

\* What a thread posts last: nothing while it runs, its error once it died.
LastWords(t) == IF t = "running" THEN <<>> ELSE <<ErrorMessage>>

\* Nothing is posted to the worker but sessions.
OnlySessions(box) == \A i \in DOMAIN box : box[i].type = "begin"

\* The job is the last thing posted to it, and the only one.
PostedLast(box, j) ==
  /\ box # <<>> /\ box[Len(box)] = CompileMessage(j)
  /\ \A i \in 1 .. Len(box) - 1 : box[i].type = "begin"

\* The three places the job of a busy slot can be in, one at a time ...
Waiting(box, comp, out, t, j) ==
  PostedLast(box, j) /\ comp = {} /\ out = LastWords(t)
Underway(box, comp, out, t, j) ==
  /\ OnlySessions(box) /\ out = LastWords(t)
  /\ \E S \in Session : comp = {[job |-> j, session |-> S]}
Delivered(box, comp, out, t, j) ==
  /\ OnlySessions(box) /\ comp = {}
  /\ out = IF t = "running" THEN <<ResultMessage(j)>>
           ELSE <<ResultMessage(j), ErrorMessage>>

WorksOn(box, comp, out, t, j) ==
  \/ Waiting(box, comp, out, t, j)
  \/ Underway(box, comp, out, t, j)
  \/ Delivered(box, comp, out, t, j)

\* ... and what an idle slot's worker has: nothing.
Rests(box, comp, out, t) ==
  OnlySessions(box) /\ comp = {} /\ out = LastWords(t)

\* A slot and its workers, given what a handler has made of them so far.
SlotIsRight(s, bsy, ids, wrk, flight, pins) ==
  /\ wrk[s] # NoWorker => Home(wrk[s]) = s /\ wrk[s][2] <= spawned[s]
  /\ bsy[s] => wrk[s] # NoWorker /\ ids[s] \in flight /\ pins[ids[s][2]] = s
  /\ ~bsy[s] => ids[s] = NoJob

WorkerIsRight(w, bsy, ids, wrk, ports, out) ==
  IF wrk[Home(w)] = w
  THEN /\ thread[w] # "unborn"
       /\ IF bsy[Home(w)]
          THEN WorksOn(ports[w], compiling[w], out[w], thread[w], ids[Home(w)])
          ELSE Rests(ports[w], compiling[w], out[w], thread[w])
  ELSE thread[w] # "running" /\ out[w] = <<>>

\* A thread not booted yet has been sent nothing and has done nothing.
Unborn(w, ports, out) ==
  /\ w[2] > spawned[Home(w)] => thread[w] = "unborn"
  /\ thread[w] = "unborn" => ports[w] = <<>> /\ compiling[w] = {} /\ out[w] = <<>>

\* A handle is referenced while its slot is busy.
HandleIsRight(s, bsy, wrk) ==
  wrk[s] # NoWorker => (bsy[s] => referenced[wrk[s]])

SlotInv ==
  disposal = "no" =>
    /\ condemned = {}
    /\ \A s \in Slots : SlotIsRight(s, busy, jobId, worker, inFlight, assignment)
    /\ \A w \in Worker : WorkerIsRight(w, busy, jobId, worker, inbox, outbox)
    /\ \A w \in Worker : Unborn(w, inbox, outbox)
    /\ ReferencedWhileBusy
    /\ WorkConserving
    /\ CrashTakesOnlyItsOwn

LEMMA LeastNatural ==
  ASSUME NEW S \in SUBSET Nat, S # {}
  PROVE  \E least \in S : \A m \in S : least <= m
<1> DEFINE R == OpToRel(<, Nat)
<1>1. \A m, n \in Nat : <<m, n>> \in R <=> m < n
  BY DEF OpToRel
<1>2. IsWellFoundedOn(R, Nat)
  BY NatLessThanWellFounded
<1>. HIDE DEF R
<1>3. S \subseteq Nat
  OBVIOUS
<1>4. PICK least \in S : \A m \in S : ~(<<m, least>> \in R)
  BY <1>2, <1>3, WFMin
<1>5. ASSUME NEW m \in S
      PROVE  least <= m
  <2>1. m \in Nat /\ least \in Nat
    BY <1>3
  <2>2. ~(m < least)
    BY <1>1, <1>4, <2>1, Zenon
  <2>. QED BY <2>1, <2>2
<1>. QED BY <1>5

\* Dispatching to an idle worker: the job waits in its inbox.
LEMMA SentIsWaiting ==
  ASSUME NEW box \in Seq(WorkerRequest), NEW j \in Job, NEW out, NEW t,
         Rests(box, {}, out, t)
  PROVE  Waiting(Append(box, CompileMessage(j)), {}, out, t, j)
<1> DEFINE sent == Append(box, CompileMessage(j))
<1>1. /\ sent # <<>> /\ Len(sent) = Len(box) + 1
      /\ sent[Len(box) + 1] = CompileMessage(j)
      /\ \A i \in 1 .. Len(box) : sent[i] = box[i]
  OBVIOUS
<1>2. \A i \in 1 .. Len(box) : box[i].type = "begin"
  BY DEF Rests, OnlySessions
<1> SUFFICES Waiting(sent, {}, out, t, j)
  OBVIOUS
<1>. HIDE DEF sent
<1>3. PostedLast(sent, j)
  BY <1>1, <1>2 DEF PostedLast
<1>. QED BY <1>3 DEF Waiting, Rests

\* What pump leaves is right if what it is given is: every slot it starts had a
\* worker at rest or gets a new one, and no slot keeps waiting for another.
LEMMA PumpSlots ==
  ASSUME NEW q, NEW bsy, NEW ids, NEW wrk, NEW flight, NEW ports,
         PumpInput(q, bsy, ids, wrk, flight, ports), TypeOK,
         run' \in 0 .. MaxRuns, entries' \in [Slots -> SUBSET Files],
         \A j \in q : assignment'[j[2]] \in Slots,
         rank' \in [Files -> Nat],
         \A s \in Slots : SlotIsRight(s, bsy, ids, wrk, flight, assignment'),
         \A w \in Worker : WorkerIsRight(w, bsy, ids, wrk, ports, outbox'),
         \A w \in Worker : Unborn(w, ports, outbox'),
         \A s \in Slots : HandleIsRight(s, bsy, wrk),
         compiling' = compiling,
         Pump(q, bsy, ids, wrk, flight, ports)
  PROVE  /\ \A s \in Slots :
              SlotIsRight(s, busy, jobId, worker, inFlight, assignment)'
         /\ \A w \in Worker : WorkerIsRight(w, busy, jobId, worker, inbox, outbox)'
         /\ \A w \in Worker : Unborn(w, inbox, outbox)'
         /\ ReferencedWhileBusy'
         /\ WorkConserving'
<1> DEFINE start == Startable(q, bsy)
           started(s) == \E j \in start : assignment'[j[2]] = s
           jobOf(s) == CHOOSE j \in start : assignment'[j[2]] = s
           boots(s) == started(s) /\ wrk[s] = NoWorker
           held(s) == IF boots(s) THEN <<s, spawned[s] + 1>> ELSE wrk[s]
           isBooted(w) == boots(Home(w)) /\ w = held(Home(w))
           begun(w) == <<BeginMessage([run |-> run', entries |-> entries'[Home(w)]])>>
           received(w) == IF isBooted(w) THEN begun(w) ELSE ports[w]
<1>1. /\ \A s \in Slots : boots(s) => spawned[s] < MaxSpawns
      /\ queue' = q \ start
      /\ inFlight' = flight \cup start
      /\ worker' = [s \in Slots |-> held(s)]
      /\ busy' = [s \in Slots |-> started(s) \/ bsy[s]]
      /\ jobId' = [s \in Slots |-> IF started(s) THEN jobOf(s) ELSE ids[s]]
      /\ spawned' = [s \in Slots |-> spawned[s] + IF boots(s) THEN 1 ELSE 0]
      /\ thread' = [w \in Worker |-> IF isBooted(w) THEN "running" ELSE thread[w]]
      /\ inbox' = [w \in Worker |->
                     IF held(Home(w)) = w /\ started(Home(w))
                     THEN Append(received(w), CompileMessage(jobOf(Home(w))))
                     ELSE ports[w]]
      /\ referenced' = [w \in Worker |->
                          IF held(Home(w)) # w THEN referenced[w]
                          ELSE started(Home(w)) \/ StaysReferenced(w, bsy)]
  BY DEF Pump
<1>2. start \subseteq q /\ \A j \in start : ~bsy[assignment'[j[2]]]
  BY DEF Startable
<1>3. \A s \in Slots : started(s) =>
        /\ jobOf(s) \in start /\ assignment'[jobOf(s)[2]] = s
        /\ jobOf(s) \in Job /\ ~bsy[s]
  <2> SUFFICES ASSUME NEW s \in Slots, started(s)
               PROVE  /\ jobOf(s) \in start /\ assignment'[jobOf(s)[2]] = s
                      /\ jobOf(s) \in Job /\ ~bsy[s]
    OBVIOUS
  <2>1. jobOf(s) \in start /\ assignment'[jobOf(s)[2]] = s
    OBVIOUS
  <2>2. jobOf(s) \in q /\ ~bsy[assignment'[jobOf(s)[2]]]
    BY <2>1, <1>2
  <2>. QED BY <2>1, <2>2 DEF PumpInput
<1>4. \A w \in Worker : Home(w) \in Slots /\ w # NoWorker /\ w[2] \in 1 .. MaxSpawns
                       /\ w = <<Home(w), w[2]>>
  BY DEF Worker, Home, NoWorker, Slots
<1>5. \A s \in Slots : spawned[s] \in 0 .. MaxSpawns
  BY DEF TypeOK
<1>6. \A s \in Slots : boots(s) => held(s) = <<s, spawned[s] + 1>> /\ held(s) # NoWorker
  BY DEF NoWorker, Slots
<1>. HIDE DEF start, jobOf, started, begun
<1>7. \A s \in Slots : SlotIsRight(s, busy, jobId, worker, inFlight, assignment)'
  <2> SUFFICES ASSUME NEW s \in Slots
               PROVE  SlotIsRight(s, busy, jobId, worker, inFlight, assignment)'
    OBVIOUS
  <2>1. SlotIsRight(s, bsy, ids, wrk, flight, assignment')
    OBVIOUS
  <2>2. /\ worker'[s] = held(s)
        /\ busy'[s] = (started(s) \/ bsy[s])
        /\ jobId'[s] = IF started(s) THEN jobOf(s) ELSE ids[s]
        /\ spawned'[s] = spawned[s] + IF boots(s) THEN 1 ELSE 0
    BY <1>1
  <2>3. worker'[s] # NoWorker => Home(worker'[s]) = s /\ worker'[s][2] <= spawned'[s]
    <3>1. CASE boots(s)
      BY <3>1, <2>2, <1>5, <1>6 DEF Home
    <3>2. CASE ~boots(s)
      <4>1. wrk[s] # NoWorker => wrk[s] \in Worker /\ wrk[s][2] \in 1 .. MaxSpawns
        BY <1>4 DEF PumpInput
      <4>. QED BY <3>2, <4>1, <2>1, <2>2, <1>5 DEF SlotIsRight
    <3>. QED BY <3>1, <3>2
  <2>4. CASE started(s)
    <3>1. worker'[s] # NoWorker
      BY <2>2, <2>4, <1>6
    <3>2. jobId'[s] \in inFlight' /\ assignment'[jobId'[s][2]] = s /\ busy'[s]
      BY <2>2, <2>4, <1>1, <1>3
    <3>. QED BY <2>3, <3>1, <3>2 DEF SlotIsRight
  <2>5. CASE ~started(s)
    BY <2>1, <2>2, <2>3, <2>5, <1>1 DEF SlotIsRight
  <2>. QED BY <2>4, <2>5
<1>8. \A w \in Worker : WorkerIsRight(w, busy, jobId, worker, inbox, outbox)'
  <2> SUFFICES ASSUME NEW w \in Worker
               PROVE  WorkerIsRight(w, busy, jobId, worker, inbox, outbox)'
    OBVIOUS
  <2> DEFINE s == Home(w)
  <2>1. s \in Slots /\ WorkerIsRight(w, bsy, ids, wrk, ports, outbox')
    BY <1>4
  <2>2. /\ worker'[s] = held(s)
        /\ busy'[s] = (started(s) \/ bsy[s])
        /\ jobId'[s] = IF started(s) THEN jobOf(s) ELSE ids[s]
        /\ thread'[w] = IF isBooted(w) THEN "running" ELSE thread[w]
        /\ inbox'[w] = IF held(s) = w /\ started(s)
                       THEN Append(received(w), CompileMessage(jobOf(s)))
                       ELSE ports[w]
    BY <1>1, <2>1
  <2>3. compiling'[w] = compiling[w]
    OBVIOUS
  <2>4. CASE isBooted(w)
    <3>1. w[2] = spawned[s] + 1 /\ started(s)
      BY <2>1, <2>4, <1>6
    <3>2. w[2] > spawned[s]
      BY <3>1, <2>1, <1>5
    <3>3. compiling[w] = {} /\ outbox'[w] = <<>>
      BY <3>2 DEF Unborn
    <3>4. inbox'[w] = Append(begun(w), CompileMessage(jobOf(s)))
      BY <2>2, <2>4, <3>1
    <3>5. begun(w) \in Seq(WorkerRequest) /\ OnlySessions(begun(w))
      <4>1. BeginMessage([run |-> run', entries |-> entries'[s]]) \in WorkerRequest
        BY <2>1 DEF BeginMessage, WorkerRequest, Session
      <4>. QED BY <4>1 DEF begun, OnlySessions, BeginMessage
    <3>6. Rests(begun(w), {}, <<>>, "running")
      BY <3>5 DEF Rests, LastWords
    <3>7. Waiting(inbox'[w], {}, <<>>, "running", jobOf(s))
      BY <3>4, <3>5, <3>6, <3>1, <2>1, <1>3, SentIsWaiting
    <3>. QED BY <3>1, <3>3, <3>7, <2>1, <2>2, <2>3, <2>4 DEF WorkerIsRight, WorksOn
  <2>5. CASE ~isBooted(w) /\ held(s) = w /\ started(s)
    <3>1. wrk[s] = w /\ ~bsy[s]
      BY <2>1, <2>5, <1>3
    <3>2. thread[w] # "unborn" /\ Rests(ports[w], compiling[w], outbox'[w], thread[w])
      BY <2>1, <3>1 DEF WorkerIsRight
    <3>3. compiling[w] = {} /\ ports[w] \in Seq(WorkerRequest)
      BY <3>2 DEF Rests, PumpInput
    <3>4. Waiting(Append(ports[w], CompileMessage(jobOf(s))), {}, outbox'[w],
                  thread[w], jobOf(s))
      BY <3>2, <3>3, <2>1, <2>5, <1>3, SentIsWaiting
    <3>. QED BY <3>2, <3>3, <3>4, <2>1, <2>2, <2>3, <2>5 DEF WorkerIsRight, WorksOn
  <2>6. CASE ~isBooted(w) /\ held(s) = w /\ ~started(s)
    BY <2>1, <2>2, <2>3, <2>6 DEF WorkerIsRight
  <2>7. CASE held(s) # w
    <3>1. wrk[s] # w
      BY <2>7, <1>4
    <3>. QED BY <3>1, <2>1, <2>2, <2>3, <2>7 DEF WorkerIsRight
  <2>. QED BY <2>4, <2>5, <2>6, <2>7
<1>9. \A w \in Worker : Unborn(w, inbox, outbox)'
  <2> SUFFICES ASSUME NEW w \in Worker
               PROVE  Unborn(w, inbox, outbox)'
    OBVIOUS
  <2> DEFINE s == Home(w)
  <2>1. s \in Slots /\ Unborn(w, ports, outbox')
    BY <1>4
  <2>2. /\ thread'[w] = IF isBooted(w) THEN "running" ELSE thread[w]
        /\ spawned'[s] = spawned[s] + IF boots(s) THEN 1 ELSE 0
        /\ inbox'[w] = IF held(s) = w /\ started(s)
                       THEN Append(received(w), CompileMessage(jobOf(s)))
                       ELSE ports[w]
    BY <1>1, <2>1
  <2>3. CASE isBooted(w)
    <3>1. w[2] = spawned[s] + 1 /\ spawned'[s] = spawned[s] + 1
      BY <2>1, <2>2, <2>3, <1>6
    <3>. QED BY <3>1, <2>1, <2>2, <2>3, <1>5 DEF Unborn
  <2>4. CASE ~isBooted(w)
    <3>1. w[2] > spawned'[s] => w[2] > spawned[s]
      BY <2>1, <2>2, <1>4, <1>5
    <3>2. thread[w] = "unborn" => ~(held(s) = w /\ started(s))
      <4>1. wrk[s] = w => thread[w] # "unborn"
        BY DEF WorkerIsRight
      <4>. QED BY <4>1, <2>4
    <3>. QED BY <3>1, <3>2, <2>1, <2>2, <2>4 DEF Unborn
  <2>. QED BY <2>3, <2>4
<1>10. ReferencedWhileBusy'
  <2> SUFFICES ASSUME NEW s \in Slots, worker'[s] # NoWorker
               PROVE  referenced'[worker'[s]] = busy'[s]
    BY DEF ReferencedWhileBusy
  <2> DEFINE w == worker'[s]
  <2>1. w = held(s) /\ busy'[s] = (started(s) \/ bsy[s])
    BY <1>1
  <2>2. w \in Worker /\ Home(w) = s
    <3>1. CASE boots(s)
      BY <3>1, <2>1, <1>1, <1>5, <1>6, PoolAssumption DEF Worker, Home
    <3>2. CASE ~boots(s)
      BY <3>2, <2>1 DEF PumpInput, SlotIsRight
    <3>. QED BY <3>1, <3>2
  <2>3. referenced'[w] = (started(s) \/ StaysReferenced(w, bsy))
    BY <2>1, <2>2, <1>1
  <2>4. CASE started(s)
    BY <2>1, <2>3, <2>4
  <2>5. CASE ~started(s)
    <3>1. wrk[s] = w
      BY <2>1, <2>5
    <3>2. bsy[s] => referenced[w]
      BY <3>1 DEF HandleIsRight
    <3>. QED BY <2>1, <2>2, <2>3, <2>5, <3>2 DEF StaysReferenced
  <2>. QED BY <2>4, <2>5
<1>11. WorkConserving'
  <2> SUFFICES ASSUME NEW j \in queue', ~busy'[assignment'[j[2]]] PROVE FALSE
    BY DEF WorkConserving
  <2> DEFINE s == assignment'[j[2]]
             mine == {k \in q : assignment'[k[2]] = s}
             ranks == {rank'[k[2]] : k \in mine}
  <2>1. j \in mine /\ s \in Slots
    BY <1>1
  <2>2. ~bsy[s] /\ ~started(s)
    BY <2>1, <1>1
  <2>3. \A k \in q : rank'[k[2]] \in Nat
    BY DEF PumpInput, Job
  <2>4. ranks \in SUBSET Nat /\ ranks # {}
    BY <2>1, <2>3
  <2>5. PICK least \in ranks : \A m \in ranks : least <= m
    BY <2>4, LeastNatural
  <2>6. PICK k \in mine : rank'[k[2]] = least
    BY <2>5
  <2>7. k \in Startable(q, bsy)
    BY <2>2, <2>5, <2>6 DEF Startable
  <2>. QED BY <2>2, <2>6, <2>7 DEF started, start
<1>. QED BY <1>7, <1>8, <1>9, <1>10, <1>11

\* What a dead thread held when it died it holds for good.
LEMMA PumpKeepsHolding ==
  ASSUME NEW q, NEW bsy, NEW ids, NEW wrk, NEW flight, NEW ports,
         PumpInput(q, bsy, ids, wrk, flight, ports), TypeOK, compiling' = compiling,
         \A v \in Worker : Unborn(v, ports, outbox'),
         NEW w \in Worker, thread[w] = "stopped", NEW j \in Holding(w),
         \A i \in DOMAIN inbox[w] : i \in DOMAIN ports[w] /\ ports[w][i] = inbox[w][i],
         Pump(q, bsy, ids, wrk, flight, ports)
  PROVE  thread'[w] = "stopped" /\ j \in Holding(w)'
<1> DEFINE start == Startable(q, bsy)
           started(s) == \E k \in start : assignment'[k[2]] = s
           jobOf(s) == CHOOSE k \in start : assignment'[k[2]] = s
           boots(s) == started(s) /\ wrk[s] = NoWorker
           held(s) == IF boots(s) THEN <<s, spawned[s] + 1>> ELSE wrk[s]
           isBooted(v) == boots(Home(v)) /\ v = held(Home(v))
           begun(v) == <<BeginMessage([run |-> run', entries |-> entries'[Home(v)]])>>
           received(v) == IF isBooted(v) THEN begun(v) ELSE ports[v]
<1>1. /\ thread' = [v \in Worker |-> IF isBooted(v) THEN "running" ELSE thread[v]]
      /\ inbox' = [v \in Worker |->
                     IF held(Home(v)) = v /\ started(Home(v))
                     THEN Append(received(v), CompileMessage(jobOf(Home(v))))
                     ELSE ports[v]]
  BY DEF Pump
<1>2. Home(w) \in Slots /\ spawned[Home(w)] \in 0 .. MaxSpawns
  BY DEF Worker, Home, TypeOK
<1>. HIDE DEF start, jobOf, started, begun
<1>3. ~isBooted(w)
  <2> SUFFICES ASSUME isBooted(w) PROVE FALSE
    OBVIOUS
  <2>1. w[2] > spawned[Home(w)]
    BY <1>2
  <2>. QED BY <2>1 DEF Unborn
<1>4. thread'[w] = "stopped"
  BY <1>1, <1>3
<1>5. \A i \in DOMAIN inbox[w] : i \in DOMAIN inbox'[w] /\ inbox'[w][i] = inbox[w][i]
  <2>1. ports[w] \in Seq(WorkerRequest)
    BY DEF PumpInput
  <2>2. CASE held(Home(w)) = w /\ started(Home(w))
    <3> DEFINE m == CompileMessage(jobOf(Home(w)))
    <3>1. inbox'[w] = Append(ports[w], m)
      BY <1>1, <1>3, <2>2
    <3>. HIDE DEF m
    <3>. QED BY <2>1, <3>1
  <2>3. CASE ~(held(Home(w)) = w /\ started(Home(w)))
    <3>1. inbox'[w] = ports[w]
      BY <1>1, <2>3
    <3>. QED BY <3>1
  <2>. QED BY <2>2, <2>3
<1>6. j \in Holding(w)'
  BY <1>5 DEF Holding
<1>. QED BY <1>4, <1>6

LEMMA InitSlots == Init => SlotInv
<1> SUFFICES ASSUME Init PROVE SlotInv
  OBVIOUS
<1>1. \A w \in Worker : w # NoWorker /\ Home(w) \in Slots
  BY DEF Worker, Home, NoWorker, Slots
<1>. QED BY <1>1 DEF Init, SlotInv, SlotIsRight, WorkerIsRight, Unborn,
                     ReferencedWhileBusy, WorkConserving, CrashTakesOnlyItsOwn

LEMMA BeginRunSlots ==
  ASSUME TypeOK, SlotInv, NEW files \in SUBSET Files,
         NEW groups \in Groupings(files), BeginRun(files, groups)
  PROVE  SlotInv'
<1> DEFINE now(s) == [run |-> run', entries |-> entries'[s]]
           told == [w \in Worker |->
                      IF worker[Home(w)] = w
                      THEN Append(inbox[w], BeginMessage(now(Home(w))))
                      ELSE inbox[w]]
           batch == {run'} \X files
<1>1. disposal = "no" /\ disposal' = "no" /\ queue = {} /\ inFlight = {}
  BY DEF BeginRun
<1>2. \A s \in Slots : ~busy[s]
  BY <1>1 DEF SlotInv, SlotIsRight
<1>3. run' \in 1 .. MaxRuns
  BY PoolAssumption DEF BeginRun, TypeOK
<1>4. /\ run' \in 0 .. MaxRuns
      /\ entries' \in [Slots -> SUBSET Files]
      /\ rank' \in [Files -> Nat]
  <2>1. entries' \in [Slots -> SUBSET Files] /\ rank' \in [Files -> 0 .. Cardinality(files)]
    BY DEF BeginRun
  <2>. QED BY <1>3, <2>1, PoolAssumption
<1>5. \A j \in batch : assignment'[j[2]] \in Slots
  BY AssignmentsPin DEF BeginRun
<1>6. UNCHANGED <<condemned, outcome, outbox, compiling>>
  BY DEF BeginRun, threadVars
<1>7. Pump(batch, busy, jobId, worker, inFlight, told)
  BY DEF BeginRun
<1>8. \A w \in Worker : Home(w) \in Slots /\ now(Home(w)) \in Session
  BY <1>4 DEF Worker, Home, Session
<1>9. \A w \in Worker : inbox[w] \in Seq(WorkerRequest)
  BY DEF TypeOK
<1>. HIDE DEF now
<1>10. \A w \in Worker : /\ BeginMessage(now(Home(w))) \in WorkerRequest
                         /\ BeginMessage(now(Home(w))).type = "begin"
  BY <1>8 DEF BeginMessage, WorkerRequest
<1>11. told \in [Worker -> Seq(WorkerRequest)]
  BY <1>9, <1>10
<1>12. PumpInput(batch, busy, jobId, worker, inFlight, told)
  BY <1>3, <1>11 DEF PumpInput, TypeOK, Job, Runs
<1>13. \A w \in Worker : told[w] = IF worker[Home(w)] = w
                                THEN Append(inbox[w], BeginMessage(now(Home(w))))
                                ELSE inbox[w]
  OBVIOUS
<1>14. \A s \in Slots : SlotIsRight(s, busy, jobId, worker, inFlight, assignment')
  BY <1>1, <1>2 DEF SlotInv, SlotIsRight
<1>. HIDE DEF told
<1>15. \A w \in Worker : WorkerIsRight(w, busy, jobId, worker, told, outbox')
  <2> SUFFICES ASSUME NEW w \in Worker, worker[Home(w)] = w
               PROVE  OnlySessions(told[w])
    BY <1>1, <1>2, <1>6, <1>8 DEF SlotInv, WorkerIsRight, Rests
  <2>1. OnlySessions(inbox[w])
    BY <1>1, <1>2, <1>8 DEF SlotInv, WorkerIsRight, Rests
  <2> DEFINE m == BeginMessage(now(Home(w)))
  <2>2. told[w] = Append(inbox[w], m) /\ m.type = "begin"
    BY <1>10, <1>13
  <2>. HIDE DEF m
  <2>. QED BY <2>1, <2>2, <1>9 DEF OnlySessions
<1>16. \A w \in Worker : Unborn(w, told, outbox')
  BY <1>1, <1>6, <1>13 DEF SlotInv, Unborn, WorkerIsRight
<1>17. \A s \in Slots : HandleIsRight(s, busy, worker)
  BY <1>2 DEF HandleIsRight
<1>18. CrashTakesOnlyItsOwn'
  <2> SUFFICES ASSUME NEW j \in Job, outcome[j] = "failed"
               PROVE  \E w \in Worker : thread'[w] = "stopped" /\ j \in Holding(w)'
    BY <1>6 DEF CrashTakesOnlyItsOwn
  <2>1. PICK w \in Worker : thread[w] = "stopped" /\ j \in Holding(w)
    BY <1>1 DEF SlotInv, CrashTakesOnlyItsOwn
  <2> DEFINE m == BeginMessage(now(Home(w)))
  <2>2. inbox[w] \in Seq(WorkerRequest)
        /\ (told[w] = Append(inbox[w], m) \/ told[w] = inbox[w])
    BY <1>9, <1>13
  <2>. HIDE DEF m
  <2>3. \A i \in DOMAIN inbox[w] : i \in DOMAIN told[w] /\ told[w][i] = inbox[w][i]
    BY <2>2
  <2>. QED BY <2>1, <2>3, <1>6, <1>7, <1>12, <1>16, PumpKeepsHolding
<1>. HIDE DEF batch
<1>19. /\ \A s \in Slots :
            SlotIsRight(s, busy, jobId, worker, inFlight, assignment)'
       /\ \A w \in Worker : WorkerIsRight(w, busy, jobId, worker, inbox, outbox)'
       /\ \A w \in Worker : Unborn(w, inbox, outbox)'
       /\ ReferencedWhileBusy'
       /\ WorkConserving'
  BY <1>4, <1>5, <1>6, <1>7, <1>12, <1>14, <1>15, <1>16, <1>17, PumpSlots
<1>. QED BY <1>1, <1>6, <1>18, <1>19 DEF SlotInv

\* Any port handler of a pool in use speaks of a worker its slot holds.
LEMMA SpeakerIsHeld ==
  ASSUME SlotInv, disposal = "no", NEW w \in Worker, outbox[w] # <<>>
  PROVE  worker[Home(w)] = w /\ Home(w) \in Slots
BY DEF SlotInv, WorkerIsRight, Worker, Home

\* A result is the slot's own, and leaves its worker at rest.
LEMMA ResultIsOwn ==
  ASSUME TypeOK, SlotInv, disposal = "no", NEW w \in Worker,
         outbox[w] # <<>>, Head(outbox[w]).type = "result"
  PROVE  /\ busy[Home(w)] /\ Head(outbox[w]).job = jobId[Home(w)]
         /\ thread[w] # "unborn"
         /\ Rests(inbox[w], compiling[w], Tail(outbox[w]), thread[w])
<1> DEFINE j == jobId[Home(w)]
<1>1. worker[Home(w)] = w
  BY SpeakerIsHeld
<1>2. Head(LastWords(thread[w])).type # "result" \/ LastWords(thread[w]) = <<>>
  BY DEF LastWords, ErrorMessage
<1>3. thread[w] # "unborn" /\ busy[Home(w)] /\
      Delivered(inbox[w], compiling[w], outbox[w], thread[w], j)
  BY <1>1, <1>2 DEF SlotInv, WorkerIsRight, WorksOn, Waiting, Underway, Rests
<1>4. Head(outbox[w]) = ResultMessage(j) /\ Tail(outbox[w]) = LastWords(thread[w])
  BY <1>3 DEF Delivered, LastWords
<1>. QED BY <1>3, <1>4 DEF Delivered, Rests, ResultMessage

\* Other slots are busy with other jobs.
LEMMA OthersJobs ==
  ASSUME TypeOK, SlotInv, disposal = "no", NEW s \in Slots, NEW t \in Slots, s # t,
         busy[t]
  PROVE  jobId[t] # jobId[s] /\ jobId[t] \in inFlight \ {jobId[s]}
<1>1. jobId[t] \in inFlight /\ jobId[t] \in Job /\ assignment[jobId[t][2]] = t
  BY DEF SlotInv, SlotIsRight, TypeOK
<1>2. busy[s] => assignment[jobId[s][2]] = s
  BY DEF SlotInv, SlotIsRight
<1>3. ~busy[s] => jobId[s] = NoJob
  BY DEF SlotInv, SlotIsRight
<1>4. NoJob \notin Job
  BY DEF NoJob, Job, Runs
<1>. QED BY <1>1, <1>2, <1>3, <1>4

\* A handler that leaves one slot idle, with its worker at rest or gone, and pumps.
LEMMA PumpAfterSlots ==
  ASSUME TypeOK, SessionInv, SlotInv, disposal = "no", NEW w \in Worker,
         worker[Home(w)] = w, Home(w) \in Slots,
         NEW wrk, wrk = worker \/ wrk = [worker EXCEPT ![Home(w)] = NoWorker],
         outbox' = [outbox EXCEPT ![w] = Tail(outbox[w])], outbox[w] # <<>>,
         IF wrk = worker
         THEN /\ thread[w] # "unborn"
              /\ Rests(inbox[w], compiling[w], outbox'[w], thread[w])
         ELSE thread[w] # "running" /\ outbox'[w] = <<>>,
         UNCHANGED <<runVars, disposal, condemned, compiling>>,
         \A j \in Job : outcome'[j] = "failed" /\ outcome[j] # "failed" =>
                         thread[w] = "stopped" /\ j \in Holding(w),
         Pump(queue, [busy EXCEPT ![Home(w)] = FALSE],
              [jobId EXCEPT ![Home(w)] = NoJob], wrk,
              inFlight \ {jobId[Home(w)]}, inbox)
  PROVE  SlotInv'
<1> DEFINE s == Home(w)
           bsy == [busy EXCEPT ![s] = FALSE]
           ids == [jobId EXCEPT ![s] = NoJob]
           flight == inFlight \ {jobId[s]}
<1>1. /\ run' \in 0 .. MaxRuns
      /\ entries' \in [Slots -> SUBSET Files]
      /\ rank' \in [Files -> Nat]
      /\ assignment' = assignment
  BY DEF runVars, TypeOK
<1>2. PumpInput(queue, bsy, ids, wrk, flight, inbox)
  BY DEF PumpInput, TypeOK
<1>3. \A j \in queue : assignment'[j[2]] \in Slots
  BY <1>1 DEF SessionInv, QueueIsCurrent
<1>4. /\ bsy[s] = FALSE /\ ids[s] = NoJob
      /\ \A t \in Slots \ {s} : bsy[t] = busy[t] /\ ids[t] = jobId[t] /\ wrk[t] = worker[t]
      /\ wrk[s] \in {w, NoWorker}
      /\ wrk = worker => wrk[s] = w
      /\ wrk # worker => wrk[s] = NoWorker
  BY DEF TypeOK
<1>5. \A t \in Slots \ {s} : busy[t] => jobId[t] \in flight
  BY OthersJobs
<1>6. w # NoWorker /\ \A v \in Worker : Home(v) \in Slots /\ v # NoWorker
  BY DEF Worker, Home, NoWorker, Slots
<1>7. outbox'[w] = Tail(outbox[w]) /\ \A v \in Worker \ {w} : outbox'[v] = outbox[v]
  BY DEF TypeOK
<1>8. Pump(queue, bsy, ids, wrk, flight, inbox)
  OBVIOUS
<1>. HIDE DEF bsy, ids, flight
<1>9. \A t \in Slots : SlotIsRight(t, bsy, ids, wrk, flight, assignment')
  <2> SUFFICES ASSUME NEW t \in Slots
               PROVE  SlotIsRight(t, bsy, ids, wrk, flight, assignment')
    OBVIOUS
  <2>1. SlotIsRight(t, busy, jobId, worker, inFlight, assignment)
    BY DEF SlotInv
  <2>2. CASE t = s
    BY <2>1, <2>2, <1>4 DEF SlotIsRight
  <2>3. CASE t # s
    BY <2>1, <2>3, <1>1, <1>4, <1>5 DEF SlotIsRight
  <2>. QED BY <2>2, <2>3
<1>10. \A v \in Worker : WorkerIsRight(v, bsy, ids, wrk, inbox, outbox')
  <2> SUFFICES ASSUME NEW v \in Worker
               PROVE  WorkerIsRight(v, bsy, ids, wrk, inbox, outbox')
    OBVIOUS
  <2>1. WorkerIsRight(v, busy, jobId, worker, inbox, outbox)
    BY DEF SlotInv
  <2>2. CASE v = w
    BY <2>2, <1>4, <1>6 DEF WorkerIsRight
  <2>3. CASE v # w /\ Home(v) = s
    BY <2>1, <2>3, <1>4, <1>6, <1>7 DEF WorkerIsRight
  <2>4. CASE v # w /\ Home(v) # s
    BY <2>1, <2>4, <1>4, <1>6, <1>7 DEF WorkerIsRight
  <2>. QED BY <2>2, <2>3, <2>4
<1>11. \A v \in Worker : Unborn(v, inbox, outbox')
  <2>1. thread[w] # "unborn"
    BY DEF SlotInv, Unborn
  <2>. QED BY <1>7, <2>1 DEF SlotInv, Unborn
<1>12. \A t \in Slots : HandleIsRight(t, bsy, wrk)
  BY <1>4 DEF SlotInv, ReferencedWhileBusy, HandleIsRight
<1>13. CrashTakesOnlyItsOwn'
  <2> SUFFICES ASSUME NEW j \in Job, outcome'[j] = "failed"
               PROVE  \E v \in Worker : thread'[v] = "stopped" /\ j \in Holding(v)'
    BY DEF CrashTakesOnlyItsOwn
  <2>1. PICK v \in Worker : thread[v] = "stopped" /\ j \in Holding(v)
    BY DEF SlotInv, CrashTakesOnlyItsOwn
  <2>. QED BY <2>1, <1>2, <1>8, <1>11, PumpKeepsHolding
<1>14. /\ \A t \in Slots :
            SlotIsRight(t, busy, jobId, worker, inFlight, assignment)'
       /\ \A v \in Worker : WorkerIsRight(v, busy, jobId, worker, inbox, outbox)'
       /\ \A v \in Worker : Unborn(v, inbox, outbox)'
       /\ ReferencedWhileBusy'
       /\ WorkConserving'
  BY <1>1, <1>2, <1>3, <1>8, <1>9, <1>10, <1>11, <1>12, PumpSlots
<1>. QED BY <1>13, <1>14 DEF SlotInv

LEMMA OnResultSlots ==
  ASSUME TypeOK, SessionInv, SlotInv, NEW w \in Worker, OnResult(w)
  PROVE  SlotInv'
<1> SUFFICES ASSUME disposal = "no" PROVE SlotInv'
  BY DEF OnResult, SlotInv
<1>1. /\ outbox[w] # <<>> /\ Head(outbox[w]).type = "result"
      /\ UNCHANGED <<runVars, disposal, condemned, compiling>>
      /\ outbox' = [outbox EXCEPT ![w] = Tail(outbox[w])]
      /\ outcome' = [k \in Job |-> IF k = Head(outbox[w]).job
                                       /\ Head(outbox[w]).job \in inFlight
                                    THEN "compiled" ELSE outcome[k]]
  BY DEF OnResult, threadVars
<1>2. worker[Home(w)] = w /\ Home(w) \in Slots
  BY <1>1, SpeakerIsHeld
<1>3. /\ busy[Home(w)] /\ Head(outbox[w]).job = jobId[Home(w)]
      /\ thread[w] # "unborn"
      /\ Rests(inbox[w], compiling[w], Tail(outbox[w]), thread[w])
  BY <1>1, ResultIsOwn
<1>4. Pump(queue, [busy EXCEPT ![Home(w)] = FALSE],
           [jobId EXCEPT ![Home(w)] = NoJob], worker,
           inFlight \ {jobId[Home(w)]}, inbox)
  BY <1>3 DEF OnResult
<1>5. outbox'[w] = Tail(outbox[w])
  BY <1>1 DEF TypeOK
<1>6. \A j \in Job : ~(outcome'[j] = "failed" /\ outcome[j] # "failed")
  BY <1>1
<1>. QED BY <1>1, <1>2, <1>3, <1>4, <1>5, <1>6, PumpAfterSlots

\* A death is heard from a stopped thread, as its last words; and the job its
\* slot was running, if any, it still holds.
LEMMA DeathIsOwn ==
  ASSUME TypeOK, SlotInv, disposal = "no", NEW w \in Worker,
         outbox[w] # <<>>, Head(outbox[w]).type = "error"
  PROVE  /\ thread[w] = "stopped" /\ Tail(outbox[w]) = <<>>
         /\ \A j \in FailedBy(Home(w)) : j \in Holding(w)
<1> DEFINE j == jobId[Home(w)]
<1>1. worker[Home(w)] = w /\ Home(w) \in Slots
  BY SpeakerIsHeld
<1>2. ~Delivered(inbox[w], compiling[w], outbox[w], thread[w], j)
  BY DEF Delivered, ResultMessage
<1>3. /\ thread[w] # "unborn"
      /\ busy[Home(w)] => \/ Waiting(inbox[w], compiling[w], outbox[w], thread[w], j)
                          \/ Underway(inbox[w], compiling[w], outbox[w], thread[w], j)
      /\ ~busy[Home(w)] => Rests(inbox[w], compiling[w], outbox[w], thread[w])
  BY <1>1, <1>2 DEF SlotInv, WorkerIsRight, WorksOn
<1>4. outbox[w] = LastWords(thread[w])
  BY <1>3 DEF Waiting, Underway, Rests
<1>5. thread[w] = "stopped" /\ Tail(outbox[w]) = <<>>
  BY <1>3, <1>4 DEF LastWords, TypeOK
<1>6. ASSUME NEW k \in FailedBy(Home(w))
      PROVE  k \in Holding(w)
  <2>1. k = j /\ k \in Job
    BY DEF FailedBy, TypeOK
  <2>2. busy[Home(w)]
    BY <1>1, <2>1 DEF SlotInv, SlotIsRight, NoJob, Job, Runs
  <2>3. CASE Waiting(inbox[w], compiling[w], outbox[w], thread[w], j)
    <3>1. inbox[w] \in Seq(WorkerRequest) /\ inbox[w] # <<>>
      BY <2>3 DEF TypeOK, Waiting, PostedLast
    <3>2. Len(inbox[w]) \in DOMAIN inbox[w] /\ inbox[w][Len(inbox[w])] = CompileMessage(j)
      BY <2>3, <3>1 DEF Waiting, PostedLast
    <3>. QED BY <2>1, <3>2 DEF Holding, CompileMessage
  <2>4. CASE Underway(inbox[w], compiling[w], outbox[w], thread[w], j)
    BY <2>1, <2>4 DEF Underway, Holding
  <2>. QED BY <1>3, <2>2, <2>3, <2>4
<1>. QED BY <1>5, <1>6

LEMMA OnErrorSlots ==
  ASSUME TypeOK, SessionInv, SlotInv, NEW w \in Worker, OnError(w)
  PROVE  SlotInv'
<1> SUFFICES ASSUME disposal = "no" PROVE SlotInv'
  BY DEF OnError, SlotInv
<1> DEFINE nowWorker == [worker EXCEPT ![Home(w)] = NoWorker]
<1>1. /\ outbox[w] # <<>> /\ Head(outbox[w]).type = "error"
      /\ UNCHANGED <<runVars, disposal, condemned, compiling>>
      /\ outbox' = [outbox EXCEPT ![w] = Tail(outbox[w])]
      /\ outcome' = [k \in Job |-> IF k \in FailedBy(Home(w)) THEN "failed"
                                    ELSE outcome[k]]
  BY DEF OnError, threadVars
<1>2. worker[Home(w)] = w /\ Home(w) \in Slots
  BY <1>1, SpeakerIsHeld
<1>3. /\ thread[w] = "stopped" /\ Tail(outbox[w]) = <<>>
      /\ \A j \in FailedBy(Home(w)) : j \in Holding(w)
  BY <1>1, DeathIsOwn
<1>4. Pump(queue, [busy EXCEPT ![Home(w)] = FALSE],
           [jobId EXCEPT ![Home(w)] = NoJob], nowWorker,
           inFlight \ {jobId[Home(w)]}, inbox)
  BY DEF OnError, PumpsAfterError
<1>5. outbox'[w] = <<>> /\ nowWorker # worker
  <2>1. nowWorker[Home(w)] = NoWorker /\ w # NoWorker
    BY <1>2 DEF TypeOK, Worker, NoWorker, Slots
  <2>. QED BY <1>1, <1>2, <1>3, <2>1 DEF TypeOK
<1>6. \A j \in Job : outcome'[j] = "failed" /\ outcome[j] # "failed" => j \in Holding(w)
  BY <1>1, <1>3
<1>. HIDE DEF nowWorker
<1>7. nowWorker = [worker EXCEPT ![Home(w)] = NoWorker]
  BY DEF nowWorker
<1>. QED BY <1>1, <1>2, <1>3, <1>4, <1>5, <1>6, <1>7, PumpAfterSlots

\* What a thread's step has to leave right is its own business.
LEMMA ThreadFrame ==
  ASSUME TypeOK, SlotInv, disposal = "no", NEW w \in Worker,
         thread[w] = "running", UNCHANGED mainVars,
         \A v \in Worker \ {w} :
           /\ inbox'[v] = inbox[v] /\ outbox'[v] = outbox[v]
           /\ compiling'[v] = compiling[v] /\ thread'[v] = thread[v],
         thread'[w] \in {"running", "stopped"},
         busy[Home(w)] =>
           WorksOn(inbox'[w], compiling'[w], outbox'[w], thread'[w], jobId[Home(w)]),
         ~busy[Home(w)] => Rests(inbox'[w], compiling'[w], outbox'[w], thread'[w])
  PROVE  SlotInv'
<1>1. UNCHANGED <<assignment, queue, inFlight, worker, busy, jobId, spawned, disposal,
                  condemned, outcome, referenced>>
  BY DEF mainVars, runVars, slotVars
<1>2. worker[Home(w)] = w
  BY DEF SlotInv, WorkerIsRight
<1>3. \A s \in Slots : SlotIsRight(s, busy, jobId, worker, inFlight, assignment)'
  BY <1>1 DEF SlotInv, SlotIsRight
<1>4. \A v \in Worker : WorkerIsRight(v, busy, jobId, worker, inbox, outbox)'
  <2> SUFFICES ASSUME NEW v \in Worker
               PROVE  WorkerIsRight(v, busy, jobId, worker, inbox, outbox)'
    OBVIOUS
  <2>1. CASE v = w
    BY <2>1, <1>1, <1>2 DEF WorkerIsRight
  <2>2. CASE v # w
    <3>1. WorkerIsRight(v, busy, jobId, worker, inbox, outbox)
      BY DEF SlotInv
    <3>. QED BY <2>2, <3>1, <1>1 DEF WorkerIsRight
  <2>. QED BY <2>1, <2>2
<1>5. \A v \in Worker : Unborn(v, inbox, outbox)'
  <2> SUFFICES ASSUME NEW v \in Worker PROVE Unborn(v, inbox, outbox)'
    OBVIOUS
  <2>1. Unborn(v, inbox, outbox)
    BY DEF SlotInv
  <2>2. CASE v = w
    BY <2>1, <2>2, <1>1 DEF Unborn
  <2>3. CASE v # w
    BY <2>1, <2>3, <1>1 DEF Unborn
  <2>. QED BY <2>2, <2>3
<1>6. CrashTakesOnlyItsOwn'
  <2> SUFFICES ASSUME NEW j \in Job, outcome[j] = "failed"
               PROVE  \E v \in Worker : thread'[v] = "stopped" /\ j \in Holding(v)'
    BY <1>1 DEF CrashTakesOnlyItsOwn
  <2>1. PICK v \in Worker : thread[v] = "stopped" /\ j \in Holding(v)
    BY DEF SlotInv, CrashTakesOnlyItsOwn
  <2>. QED BY <2>1 DEF Holding
<1>7. ReferencedWhileBusy' /\ WorkConserving'
  BY <1>1 DEF SlotInv, ReferencedWhileBusy, WorkConserving
<1>. QED BY <1>1, <1>3, <1>4, <1>5, <1>6, <1>7 DEF SlotInv

LEMMA ThreadSlots ==
  ASSUME TypeOK, SlotInv, NEW w \in Worker, ThreadSteps(w)
  PROVE  SlotInv'
<1>0. UNCHANGED mainVars
  BY DEF ThreadSteps, WorkerBegins, WorkerCompiles, WorkerFinishes, ThreadDies,
         ThreadTerminates
<1> SUFFICES ASSUME disposal = "no" PROVE SlotInv'
  BY <1>0 DEF mainVars, SlotInv
<1> DEFINE s == Home(w)
           j == jobId[s]
<1>1. thread[w] = "running"
  BY DEF ThreadSteps, WorkerBegins, WorkerCompiles, WorkerFinishes, ThreadDies,
         ThreadTerminates
<1>2. /\ busy[s] => WorksOn(inbox[w], compiling[w], outbox[w], "running", j)
      /\ ~busy[s] => Rests(inbox[w], compiling[w], outbox[w], "running")
  BY <1>1 DEF SlotInv, WorkerIsRight
<1>3. inbox[w] \in Seq(WorkerRequest) /\ outbox[w] \in Seq(WorkerResponse)
  BY DEF TypeOK
<1>4. CASE WorkerBegins(w)
  <2>1. /\ inbox[w] # <<>> /\ inbox[w][1].type = "begin" /\ inbox'[w] = Tail(inbox[w])
        /\ outbox'[w] = outbox[w] /\ compiling'[w] = compiling[w] /\ thread'[w] = "running"
        /\ \A v \in Worker \ {w} :
             /\ inbox'[v] = inbox[v] /\ outbox'[v] = outbox[v]
             /\ compiling'[v] = compiling[v] /\ thread'[v] = thread[v]
    BY <1>1, <1>3, <1>4 DEF WorkerBegins, TypeOK
  <2>2. OnlySessions(inbox[w]) => OnlySessions(inbox'[w])
    BY <1>3, <2>1 DEF OnlySessions
  <2>3. PostedLast(inbox[w], j) => PostedLast(inbox'[w], j)
    <3>1. PICK box \in Seq(WorkerRequest) : box = inbox[w]
      BY <1>3
    <3>2. PICK n \in Nat : n = Len(box)
      BY <3>1
    <3>3. PICK rest : rest = Tail(box)
      OBVIOUS
    <3> SUFFICES ASSUME PostedLast(box, j) PROVE PostedLast(rest, j)
      BY <2>1, <3>1, <3>3
    <3>4. n # 0 /\ n # 1
      BY <2>1, <3>1, <3>2 DEF PostedLast, CompileMessage
    <3>5. Len(rest) = n - 1 /\ rest # <<>>
      <4>1. box # <<>>
        BY <3>2, <3>4
      <4>2. Len(rest) = Len(box) - 1 /\ rest \in Seq(WorkerRequest)
        BY <4>1, <3>1, <3>3
      <4>. QED BY <4>2, <3>2, <3>4
    <3>6. \A i \in 1 .. n - 1 : rest[i] = box[i + 1]
      BY <3>1, <3>2, <3>3, <3>4
    <3>7. rest[n - 1] = CompileMessage(j)
      BY <3>2, <3>4, <3>6 DEF PostedLast
    <3>8. \A i \in 1 .. (n - 1) - 1 : rest[i].type = "begin"
      BY <3>2, <3>4, <3>6 DEF PostedLast
    <3>. QED BY <3>5, <3>7, <3>8 DEF PostedLast
  <2>. QED BY <1>0, <1>1, <1>2, <2>1, <2>2, <2>3, ThreadFrame
           DEF WorksOn, Waiting, Underway, Delivered, Rests
<1>5. CASE WorkerCompiles(w)
  <2>1. /\ inbox[w] # <<>> /\ inbox[w][1].type = "compile" /\ inbox'[w] = Tail(inbox[w])
        /\ outbox'[w] = outbox[w] /\ thread'[w] = "running"
        /\ compiling'[w] = compiling[w] \cup
                             {[job |-> inbox[w][1].job, session |-> session[w]]}
        /\ \A v \in Worker \ {w} :
             /\ inbox'[v] = inbox[v] /\ outbox'[v] = outbox[v]
             /\ compiling'[v] = compiling[v] /\ thread'[v] = thread[v]
    BY <1>1, <1>3, <1>5 DEF WorkerCompiles, TypeOK
  <2>2. ~OnlySessions(inbox[w])
    BY <1>3, <2>1 DEF OnlySessions
  <2>3. busy[s] /\ Waiting(inbox[w], compiling[w], outbox[w], "running", j)
    BY <1>2, <2>2 DEF WorksOn, Underway, Delivered, Rests
  <2>4. Len(inbox[w]) = 1 /\ inbox[w][1] = CompileMessage(j)
    <3>1. PICK n \in Nat : n = Len(inbox[w]) /\ n # 0
      BY <1>3, <2>1
    <3>2. \A i \in 1 .. n - 1 : inbox[w][i].type = "begin"
      BY <2>3, <3>1 DEF Waiting, PostedLast
    <3>3. inbox[w][1].type # "begin"
      BY <2>1
    <3>4. n = 1
      <4>1. \A k \in Nat : k # 0 /\ k # 1 => 1 \in 1 .. k - 1
        OBVIOUS
      <4>. QED BY <3>1, <3>2, <3>3, <4>1
    <3>. QED BY <2>3, <3>1, <3>4 DEF Waiting, PostedLast
  <2>5. OnlySessions(inbox'[w])
    BY <1>3, <2>1, <2>4 DEF OnlySessions
  <2>6. compiling'[w] = {[job |-> j, session |-> session[w]]} /\ session[w] \in Session
    BY <2>1, <2>3, <2>4 DEF Waiting, CompileMessage, TypeOK
  <2>7. Underway(inbox'[w], compiling'[w], outbox'[w], "running", j)
    BY <2>1, <2>3, <2>5, <2>6 DEF Underway, Waiting
  <2>. QED BY <1>0, <1>1, <2>1, <2>3, <2>7, ThreadFrame DEF WorksOn
<1>6. CASE WorkerFinishes(w)
  <2>1. PICK c \in compiling[w] :
          /\ compiling'[w] = compiling[w] \ {c}
          /\ outbox'[w] = Append(outbox[w], ResultMessage(c.job))
    BY <1>6 DEF WorkerFinishes, TypeOK
  <2>2. /\ inbox'[w] = inbox[w] /\ thread'[w] = "running"
        /\ \A v \in Worker \ {w} :
             /\ inbox'[v] = inbox[v] /\ outbox'[v] = outbox[v]
             /\ compiling'[v] = compiling[v] /\ thread'[v] = thread[v]
    BY <1>1, <1>6 DEF WorkerFinishes, TypeOK
  <2>3. busy[s] /\ Underway(inbox[w], compiling[w], outbox[w], "running", j)
    BY <1>2, <2>1 DEF WorksOn, Waiting, Delivered, Rests
  <2>4. compiling'[w] = {} /\ c.job = j
    BY <2>1, <2>3 DEF Underway
  <2>5. outbox'[w] = <<ResultMessage(j)>>
    BY <2>1, <2>3, <2>4 DEF Underway, LastWords
  <2>6. Delivered(inbox'[w], compiling'[w], outbox'[w], "running", j)
    BY <2>2, <2>3, <2>4, <2>5 DEF Underway, Delivered
  <2>. QED BY <1>0, <1>1, <2>2, <2>3, <2>6, ThreadFrame DEF WorksOn
<1>7. CASE ThreadDies(w)
  <2>1. /\ inbox'[w] = inbox[w] /\ compiling'[w] = compiling[w] /\ thread'[w] = "stopped"
        /\ outbox'[w] = Append(outbox[w], ErrorMessage)
        /\ \A v \in Worker \ {w} :
             /\ inbox'[v] = inbox[v] /\ outbox'[v] = outbox[v]
             /\ compiling'[v] = compiling[v] /\ thread'[v] = thread[v]
    BY <1>7 DEF ThreadDies, TypeOK
  <2>2. outbox[w] = <<>> => outbox'[w] = <<ErrorMessage>>
    BY <2>1
  <2>3. outbox[w] = <<ResultMessage(j)>> =>
          outbox'[w] = <<ResultMessage(j), ErrorMessage>>
    <3>1. ASSUME NEW r, NEW e
          PROVE  Append(<<r>>, e) = <<r, e>>
      <4>1. <<r>> \in Seq({r, e}) /\ <<r, e>> \in Seq({r, e}) /\ e \in {r, e}
        OBVIOUS
      <4>2. /\ Append(<<r>>, e) \in Seq({r, e}) /\ Len(Append(<<r>>, e)) = 2
            /\ Append(<<r>>, e)[1] = r /\ Append(<<r>>, e)[2] = e
        BY <4>1
      <4>3. \A i \in 1 .. 2 : Append(<<r>>, e)[i] = <<r, e>>[i]
        BY <4>2
      <4>. QED BY <4>1, <4>2, <4>3, SeqEqual
    <3>. QED BY <2>1, <3>1
  <2>. QED BY <1>0, <1>1, <1>2, <2>1, <2>2, <2>3, ThreadFrame
           DEF WorksOn, Waiting, Underway, Delivered, Rests, LastWords
<1>8. CASE ThreadTerminates(w)
  BY <1>8 DEF ThreadTerminates, SlotInv
<1>. QED BY <1>4, <1>5, <1>6, <1>7, <1>8 DEF ThreadSteps

LEMMA NextSlots == TypeOK /\ SessionInv /\ SlotInv /\ [Next]_vars => SlotInv'
<1> SUFFICES ASSUME TypeOK, SessionInv, SlotInv, [Next]_vars PROVE SlotInv'
  OBVIOUS
<1>1. CASE UNCHANGED vars
  BY <1>1 DEF vars, runVars, slotVars, threadVars, SlotInv, SlotIsRight, WorkerIsRight,
     Unborn, ReferencedWhileBusy, WorkConserving, CrashTakesOnlyItsOwn, Holding
<1>2. CASE Dispose \/ DisposeDone
  BY <1>2 DEF Dispose, DisposeDone, SlotInv
<1>3. CASE Next
  BY <1>2, <1>3, BeginRunSlots, OnResultSlots, OnErrorSlots, ThreadSlots
     DEF Next, ThreadSteps
<1>. QED BY <1>1, <1>3

\* No job is answered with a failure unless the thread it was posted to stopped
\* with it, whoever else died, and whatever that thread had posted by then.
THEOREM CrashesTakeOnlyTheirOwn == Spec => []CrashTakesOnlyItsOwn
<1>1. SlotInv => CrashTakesOnlyItsOwn
  BY DEF SlotInv, CrashTakesOnlyItsOwn
<1>. QED BY <1>1, InitSlots, NextSlots, InitSession, NextSession, TypeCorrect, PTL DEF Spec

-----------------------------------------------------------------------------
(* The placement.                                                          *)

LEMMA LastOfInterval ==
  ASSUME NEW n \in Nat, NEW K \in SUBSET (1 .. n), K # {}
  PROVE  \E last \in K : \A k \in K : k <= last
<1> DEFINE D == {n - k : k \in K}
<1>1. D \in SUBSET Nat /\ D # {}
  <2>1. \A k \in K : n - k \in Nat
    OBVIOUS
  <2>. QED BY <2>1
<1>2. PICK d \in D : \A m \in D : d <= m
  BY <1>1, LeastNatural
<1>3. PICK last \in K : d = n - last
  BY <1>2
<1>4. \A k \in K : n - last <= n - k
  BY <1>2, <1>3
<1>. QED BY <1>4

\* The union is at most as large as its parts together.
LEMMA UnionAtMost ==
  ASSUME NEW S, NEW T, IsFiniteSet(S), IsFiniteSet(T)
  PROVE  Cardinality(S \cup T) <= Cardinality(S) + Cardinality(T)
<1>1. IsFiniteSet(S \cap T)
  BY FS_Intersection
<1>2. Cardinality(S) \in Nat /\ Cardinality(T) \in Nat /\ Cardinality(S \cap T) \in Nat
  BY <1>1, FS_CardinalityType
<1>3. Cardinality(S \cup T) = Cardinality(S) + Cardinality(T) - Cardinality(S \cap T)
  BY FS_Union
<1>. QED BY <1>2, <1>3

\* No slot a run counts as active is left without a file, no group is torn
\* apart, and no slot is given more than another by more than one of the groups
\* it took.
LEMMA PlacementIsBalanced ==
  ASSUME NEW files \in SUBSET Files, NEW groups \in Groupings(files),
         NEW placed \in Assignments(groups)
  PROVE  LET load(s) == Cardinality({f \in files : placed[f] = s})
             active == 1 .. Active(groups)
         IN  /\ files # {} => \A s \in active : load(s) > 0
             /\ \A g \in groups : \A f, h \in g : placed[f] = placed[h]
             /\ \A s, t \in active : \E g \in groups \cup {{}} :
                  load(s) <= load(t) + Cardinality(g)
<1> DEFINE n == Cardinality(groups)
           slots == 1 .. Active(groups)
           given(s) == {f \in files : placed[f] = s}
<1>0. PICK plan \in [order : LargestFirst(groups), place : [1 .. n -> slots]] :
        /\ LeastLoaded(plan.order, plan.place, Active(groups))
        /\ placed = [f \in Files |-> IF f \in UNION groups
                                     THEN plan.place[CHOOSE i \in DOMAIN plan.order :
                                                       f \in plan.order[i]]
                                     ELSE 0]
  BY DEF Assignments
<1>1. PICK order \in LargestFirst(groups), place \in [1 .. n -> slots] :
        /\ LeastLoaded(order, place, Active(groups))
        /\ placed = [f \in Files |-> IF f \in UNION groups
                                     THEN place[CHOOSE i \in DOMAIN order : f \in order[i]]
                                     ELSE 0]
  BY <1>0
<1> DEFINE before(i, s) == UNION {order[k] : k \in {m \in 1 .. i - 1 : place[m] = s}}
<1>2. /\ UNION groups = files
      /\ \A g \in groups : g \subseteq files /\ g # {}
      /\ \A g, h \in groups : g # h => g \cap h = {}
  <2>1. /\ groups \in SUBSET ((SUBSET files) \ {{}}) /\ UNION groups = files
        /\ \A g, h \in groups : g # h => g \cap h = {}
    BY DEF Groupings
  <2>2. \A g \in groups : g \in SUBSET files /\ g # {}
    BY <2>1
  <2>. QED BY <2>1, <2>2
<1>3. /\ order \in [1 .. n -> groups] /\ place \in [1 .. n -> slots]
      /\ groups \subseteq {order[i] : i \in 1 .. n}
      /\ \A i \in 1 .. n : order[i] \in groups /\ order[i] \subseteq files /\ order[i] # {}
  <2>1. order \in [1 .. n -> groups] /\ groups \subseteq {order[i] : i \in DOMAIN order}
    BY DEF LargestFirst
  <2>2. DOMAIN order = 1 .. n /\ \A i \in 1 .. n : order[i] \in groups
    BY <2>1
  <2>. QED BY <1>2, <2>1, <2>2
<1>4. IsFiniteSet(files) /\ IsFiniteSet(groups) /\ n \in Nat
  <2>1. IsFiniteSet(files) /\ IsFiniteSet(SUBSET files)
    BY PoolAssumption, FS_Subset, FS_SUBSET
  <2>2. groups \in SUBSET (SUBSET files)
    BY <1>2
  <2>3. IsFiniteSet(groups)
    BY <2>1, <2>2, FS_Subset
  <2>. QED BY <2>1, <2>3, FS_CardinalityType
<1>5. \A i, k \in 1 .. n : order[i] = order[k] => i = k
  <2>1. order \in Surjection(1 .. n, groups)
    BY <1>3 DEF Surjection
  <2>2. IsFiniteSet(1 .. n) /\ Cardinality(1 .. n) = n
    BY <1>4, FS_Interval
  <2>3. order \in Injection(1 .. n, groups)
    BY <2>1, <2>2, FS_SurjSameCardinalityImpliesInj
  <2>. QED BY <2>3 DEF Injection, IsInjective
<1>6. \A i \in 1 .. n : \A f \in order[i] : placed[f] = place[i]
  <2> SUFFICES ASSUME NEW i \in 1 .. n, NEW f \in order[i] PROVE placed[f] = place[i]
    OBVIOUS
  <2> DEFINE c == CHOOSE k \in DOMAIN order : f \in order[k]
  <2>1. c \in 1 .. n /\ f \in order[c]
    BY <1>3
  <2>2. order[c] = order[i]
    BY <1>2, <1>3, <2>1
  <2>3. c = i
    BY <1>5, <2>1, <2>2
  <2>4. f \in files
    BY <1>2, <1>3
  <2>. QED BY <1>1, <1>2, <2>3, <2>4
<1>7. \A f \in files : \E i \in 1 .. n : f \in order[i]
  BY <1>2, <1>3
<1>8. LeastLoaded(order, place, Active(groups))
  BY <1>1
<1>9. \A i, s : LoadBefore(order, place, i, s) = Cardinality(before(i, s))
  BY DEF LoadBefore
<1>10. \A i \in 1 .. n : \A s : before(i, s) \subseteq given(s)
  <2> SUFFICES ASSUME NEW i \in 1 .. n, NEW s, NEW f \in before(i, s)
               PROVE  f \in given(s)
    OBVIOUS
  <2>1. PICK k \in 1 .. i - 1 : place[k] = s /\ f \in order[k]
    OBVIOUS
  <2>2. k \in 1 .. n
    BY <1>4
  <2>. QED BY <1>3, <1>6, <2>1, <2>2
<1>11. \A s : IsFiniteSet(given(s)) /\ Cardinality(given(s)) \in Nat
  <2> SUFFICES ASSUME NEW s
               PROVE  IsFiniteSet(given(s)) /\ Cardinality(given(s)) \in Nat
    OBVIOUS
  <2>1. given(s) \in SUBSET files
    OBVIOUS
  <2>. HIDE DEF given
  <2>2. IsFiniteSet(given(s))
    BY <1>4, <2>1, FS_Subset
  <2>. QED BY <2>2, FS_CardinalityType
<1>12. \A i \in 1 .. n : \A s :
         /\ IsFiniteSet(before(i, s))
         /\ Cardinality(before(i, s)) \in Nat
         /\ Cardinality(before(i, s)) <= Cardinality(given(s))
  <2> SUFFICES ASSUME NEW i \in 1 .. n, NEW s
               PROVE  /\ IsFiniteSet(before(i, s))
                      /\ Cardinality(before(i, s)) \in Nat
                      /\ Cardinality(before(i, s)) <= Cardinality(given(s))
    OBVIOUS
  <2>1. before(i, s) \in SUBSET given(s)
    BY <1>10
  <2>. HIDE DEF before, given
  <2>2. /\ IsFiniteSet(before(i, s))
        /\ Cardinality(before(i, s)) <= Cardinality(given(s))
    BY <1>11, <2>1, FS_Subset
  <2>. QED BY <2>2, FS_CardinalityType
<1>13. \A i \in 1 .. n : \A s \in slots :
         Cardinality(before(i, place[i])) <= Cardinality(before(i, s))
  <2>1. DOMAIN order = 1 .. n
    BY <1>3
  <2>2. \A i \in 1 .. n : \A s \in slots :
          LoadBefore(order, place, i, place[i]) <= LoadBefore(order, place, i, s)
    BY <1>8, <2>1 DEF LeastLoaded
  <2>. QED BY <1>9, <2>2
<1>14. \A g \in groups : \A f, h \in g : placed[f] = placed[h]
  BY <1>3, <1>6
<1>15. \A s, t \in slots : \E g \in groups \cup {{}} :
         Cardinality(given(s)) <= Cardinality(given(t)) + Cardinality(g)
  <2> SUFFICES ASSUME NEW s \in slots, NEW t \in slots
               PROVE  \E g \in groups \cup {{}} :
                        Cardinality(given(s)) <= Cardinality(given(t)) + Cardinality(g)
    OBVIOUS
  <2> DEFINE K == {m \in 1 .. n : place[m] = s}
  <2>1. CASE K = {}
    <3>1. given(s) = {}
      BY <1>6, <1>7, <2>1
    <3>. HIDE DEF given
    <3>2. Cardinality(given(s)) = 0 /\ Cardinality({}) = 0
      BY <3>1, FS_EmptySet
    <3>. QED BY <3>2, <1>11
  <2>2. CASE K # {}
    <3>1. PICK i \in K : \A k \in K : k <= i
      <4>1. K \in SUBSET (1 .. n)
        OBVIOUS
      <4>. HIDE DEF K
      <4>. QED BY <1>4, <2>2, <4>1, LastOfInterval
    <3>2. i \in 1 .. n /\ place[i] = s
      OBVIOUS
    <3>3. given(s) \subseteq before(i, s) \cup order[i]
      <4> SUFFICES ASSUME NEW f \in given(s), f \notin order[i]
                   PROVE  f \in before(i, s)
        OBVIOUS
      <4>1. PICK k \in 1 .. n : f \in order[k]
        BY <1>7
      <4>2. place[k] = s /\ k # i
        BY <1>6, <4>1
      <4>3. k <= i
        BY <3>1, <4>2
      <4>4. k \in 1 .. i - 1
        BY <3>2, <4>2, <4>3, <1>4
      <4>. QED BY <4>1, <4>2, <4>4
    <3>4. IsFiniteSet(order[i]) /\ Cardinality(order[i]) \in Nat /\ order[i] \in groups
      <4>1. order[i] \in groups /\ order[i] \in SUBSET files
        BY <1>2, <1>3, <3>2
      <4>2. IsFiniteSet(order[i])
        BY <1>4, <4>1, FS_Subset
      <4>. QED BY <4>1, <4>2, FS_CardinalityType
    <3>5. IsFiniteSet(before(i, s)) /\ Cardinality(before(i, s)) \in Nat
      BY <1>12, <3>2
    <3>6. Cardinality(before(i, s)) <= Cardinality(given(t))
      <4>1. Cardinality(before(i, s)) <= Cardinality(before(i, t))
        BY <1>13, <3>2
      <4>2. /\ Cardinality(before(i, t)) <= Cardinality(given(t))
            /\ Cardinality(before(i, t)) \in Nat
        BY <1>12, <3>2
      <4>. HIDE DEF before, given
      <4>. QED BY <4>1, <4>2, <3>5, <1>11
    <3>. HIDE DEF before, given
    <3>7. Cardinality(before(i, s) \cup order[i])
            <= Cardinality(before(i, s)) + Cardinality(order[i])
      BY <3>4, <3>5, UnionAtMost
    <3>8. /\ Cardinality(given(s)) <= Cardinality(before(i, s) \cup order[i])
          /\ Cardinality(before(i, s) \cup order[i]) \in Nat
      <4>1. IsFiniteSet(before(i, s) \cup order[i])
        BY <3>4, <3>5, FS_Union
      <4>. QED BY <3>3, <4>1, FS_Subset, FS_CardinalityType
    <3>9. Cardinality(given(s)) <= Cardinality(given(t)) + Cardinality(order[i])
      BY <3>4, <3>5, <3>6, <3>7, <3>8, <1>11
    <3>. QED BY <3>4, <3>9
  <2>. QED BY <2>1, <2>2
<1>16. ASSUME files # {}, NEW s \in slots, ~(Cardinality(given(s)) > 0)
       PROVE  FALSE
  <2>1. Cardinality(given(s)) = 0
    <3>1. Cardinality(given(s)) \in Nat /\ ~(Cardinality(given(s)) > 0)
      BY <1>11, <1>16
    <3>. HIDE DEF given
    <3>. QED BY <3>1
  <2>2. given(s) = {}
    BY <2>1, <1>11, FS_EmptySet
  <2>3. \A i \in 1 .. n : place[i] # s
    <3> SUFFICES ASSUME NEW i \in 1 .. n, place[i] = s PROVE FALSE
      OBVIOUS
    <3>1. order[i] # {} /\ order[i] \subseteq files
      BY <1>2, <1>3
    <3>2. PICK f \in order[i] : f \in files
      BY <3>1
    <3>. QED BY <2>2, <3>2, <1>6
  <2>4. \A i, k \in 1 .. n : i < k => place[i] # place[k]
    <3> SUFFICES ASSUME NEW i \in 1 .. n, NEW k \in 1 .. n, i < k, place[i] = place[k]
                 PROVE  FALSE
      OBVIOUS
    <3>1. Cardinality(before(k, place[k])) = 0 /\ IsFiniteSet(before(k, place[k]))
      <4>1. Cardinality(before(k, place[k])) <= Cardinality(before(k, s))
        BY <1>13
      <4>2. Cardinality(before(k, s)) <= Cardinality(given(s)) /\ Cardinality(before(k, s)) \in Nat
        BY <1>12
      <4>3. Cardinality(before(k, place[k])) \in Nat /\ IsFiniteSet(before(k, place[k]))
        BY <1>12
      <4>. HIDE DEF before, given
      <4>. QED BY <4>1, <4>2, <4>3, <2>1
    <3>2. before(k, place[k]) = {}
      BY <3>1, FS_EmptySet
    <3>3. order[i] # {}
      BY <1>2, <1>3
    <3>4. i \in 1 .. k - 1
      BY <1>4
    <3>. QED BY <3>2, <3>3, <3>4
  <2> DEFINE others == slots \ {s}
  <2>5. groups # {} /\ n # 0
    BY <1>2, <1>4, <1>16, FS_EmptySet
  <2>6. Active(groups) \in 1 .. n
    BY <2>5, <1>4, PoolAssumption DEF Active
  <2>7. IsFiniteSet(others) /\ Cardinality(others) = Active(groups) - 1
    <3>1. IsFiniteSet(slots) /\ Cardinality(slots) = Active(groups)
      BY <2>6, FS_Interval
    <3>2. s \in slots
      BY <1>16
    <3>. HIDE DEF slots
    <3>. QED BY <3>1, <3>2, FS_RemoveElement
  <2>8. IsFiniteSet(1 .. n) /\ Cardinality(1 .. n) = n
    BY <1>4, FS_Interval
  <2>9. Cardinality(others) < Cardinality(1 .. n)
    BY <2>6, <2>7, <2>8, <1>4
  <2>10. place \in [1 .. n -> others]
    BY <1>3, <2>3
  <2>. HIDE DEF others
  <2>11. PICK i, k \in 1 .. n : i # k /\ place[i] = place[k]
    BY <2>7, <2>8, <2>9, <2>10, FS_PigeonHole
  <2>12. i < k \/ k < i
    BY <2>11, <1>4
  <2>. QED BY <2>4, <2>11, <2>12
<1>. QED BY <1>14, <1>15, <1>16

\* All a slot's worker holds or has posted is the slot's own job.
LEMMA SlotsHoldOneJob ==
  ASSUME TypeOK, SlotInv
  PROVE  OneJobPerSlot
<1> SUFFICES ASSUME disposal = "no", NEW w \in Worker
             PROVE  LET s == Home(w)
                        delivered == {outbox[w][i].job : i \in
                          {n \in DOMAIN outbox[w] : outbox[w][n].type = "result"}}
                    IN  IF worker[s] = w
                        THEN Holding(w) \cup delivered = IF busy[s] THEN {jobId[s]} ELSE {}
                        ELSE thread[w] # "running" /\ outbox[w] = <<>>
  BY DEF OneJobPerSlot
<1> DEFINE s == Home(w)
           j == jobId[s]
           posted == {inbox[w][i].job : i \in
                        {n \in DOMAIN inbox[w] : inbox[w][n].type = "compile"}}
           underway == {c.job : c \in compiling[w]}
           delivered == {outbox[w][i].job : i \in
                           {n \in DOMAIN outbox[w] : outbox[w][n].type = "result"}}
<1>1. WorkerIsRight(w, busy, jobId, worker, inbox, outbox)
  BY DEF SlotInv
<1>2. Holding(w) = underway \cup posted
  BY DEF Holding
<1>3. inbox[w] \in Seq(WorkerRequest)
  BY DEF TypeOK
<1>4. OnlySessions(inbox[w]) => posted = {}
  BY DEF OnlySessions
<1>5. compiling[w] = {} => underway = {}
  OBVIOUS
<1>6. outbox[w] = LastWords(thread[w]) => delivered = {}
  BY DEF LastWords, ErrorMessage
<1>7. PostedLast(inbox[w], j) => posted = {j}
  <2> SUFFICES ASSUME PostedLast(inbox[w], j) PROVE posted = {j}
    OBVIOUS
  <2>1. PICK n \in Nat : n = Len(inbox[w]) /\ n # 0
    BY <1>3 DEF PostedLast
  <2>2. inbox[w][n] = CompileMessage(j) /\ \A i \in 1 .. n - 1 : inbox[w][i].type = "begin"
    BY <2>1 DEF PostedLast
  <2>3. DOMAIN inbox[w] = 1 .. n
    BY <1>3, <2>1
  <2>4. \A i \in DOMAIN inbox[w] : inbox[w][i].type = "compile" <=> i = n
    BY <2>1, <2>2, <2>3 DEF CompileMessage
  <2>5. {i \in DOMAIN inbox[w] : inbox[w][i].type = "compile"} = {n}
    BY <2>1, <2>3, <2>4
  <2>. QED BY <2>2, <2>5 DEF CompileMessage
<1>8. Delivered(inbox[w], compiling[w], outbox[w], thread[w], j) => delivered = {j}
  <2> SUFFICES ASSUME Delivered(inbox[w], compiling[w], outbox[w], thread[w], j)
               PROVE  delivered = {j}
    OBVIOUS
  <2>1. CASE outbox[w] = <<ResultMessage(j)>>
    BY <2>1 DEF ResultMessage
  <2>2. CASE outbox[w] = <<ResultMessage(j), ErrorMessage>>
    <3>1. {n \in DOMAIN outbox[w] : outbox[w][n].type = "result"} = {1}
      BY <2>2 DEF ResultMessage, ErrorMessage
    <3>. QED BY <2>2, <3>1 DEF ResultMessage
  <2>. QED BY <2>1, <2>2 DEF Delivered
<1>9. Underway(inbox[w], compiling[w], outbox[w], thread[w], j) => underway = {j}
  BY DEF Underway
<1>. HIDE DEF posted, underway, delivered
<1>10. worker[s] = w => Holding(w) \cup delivered = IF busy[s] THEN {j} ELSE {}
  BY <1>1, <1>2, <1>4, <1>5, <1>6, <1>7, <1>8, <1>9
     DEF WorkerIsRight, WorksOn, Waiting, Underway, Delivered, Rests
<1>. QED BY <1>1, <1>10 DEF WorkerIsRight, delivered

\* A slot runs one job at a time, through every crash and rebuild; it is never
\* idle on work of its own, nor waits for another's; a process lives as long as
\* one of them is busy; and the work is spread over them as evenly as its groups
\* allow.
THEOREM SlotsAtWork == Spec => []SlotsDoTheirWork
<1>1. BalancedPlacement
  BY PlacementIsBalanced DEF BalancedPlacement
<1>2. TypeOK /\ SlotInv => SlotsDoTheirWork
  BY <1>1, SlotsHoldOneJob
     DEF SlotsDoTheirWork, SlotInv, ReferencedWhileBusy, WorkConserving
<1>. QED BY <1>2, InitSlots, NextSlots, InitSession, NextSession, TypeCorrect, PTL DEF Spec
=============================================================================
