----------------------------- MODULE DebugAdapter -----------------------------
(***************************************************************************)
(* One debug session (debug-adapter/src/session.ts with cdp.ts and         *)
(* launcher.ts): a client that sends requests, the adapter whose handlers  *)
(* interleave at their awaits, and the program under its inspector, which  *)
(* pauses, ends and dies when it pleases.                                  *)
(*                                                                         *)
(* Adapter and inspector talk over a WebSocket: sent and wire are its two  *)
(* directions, in order. The handlers underway are tasks, each waiting for *)
(* the answer to one command; an answer and what its handler does until    *)
(* its next await are one step. The client keeps to its side of DAP: it    *)
(* configures once, and asks to run on when it was told of a stop.         *)
(***************************************************************************)
EXTENDS Naturals, Sequences, FiniteSets

CONSTANTS
  Sources,   \* files that breakpoints are set in
  Lines,     \* the lines of a file: where breakpoints go and programs stop
  Requests,  \* bound: handlers underway at once
  Wanted,    \* the lines a setBreakpoints may ask for
  Budget,    \* the landings a smart step may make, 50 in the code
  Unmapped,  \* where a frame is that no source maps to
  None       \* null

\* Where the top frame of a paused program is.
Places == Lines \cup {Unmapped}
Locations == Sources \X Lines

\* The handlers that wait for the engine: for setBreakpoints, what is still to
\* be removed and planted, and what was planted.
Tasks == [kind : {"breakpoints", "runOn", "configuration", "pause", "evaluate"},
          src : Sources \cup {None}, old : Seq(Locations), wanted : Seq(Lines),
          got : Seq(Locations)]

ASSUME SetsAssumption ==
  Wanted \subseteq Seq(Lines) /\ IsFiniteSet(Requests) /\ "launch" \notin Requests
ASSUME BudgetAssumption == Budget \in Nat
ASSUME NoneAssumption ==
  /\ Unmapped \notin Lines
  /\ None \notin Lines \cup {Unmapped} \cup Sources \cup Requests \cup {"launch"}
  /\ None \notin Tasks

VARIABLES
  program,      \* the child process and the engine in it
  planted,      \* the breakpoints the engine has
  interrupted,  \* Debugger.pause was asked of a running program
  killed,       \* the adapter has sent a signal to the child
  link,         \* the WebSocket
  sent,         \* commands on their way to the engine
  wire,         \* answers and events on their way to the adapter
  launch,       \* how far launchRequest is
  debuggee,     \* this.debuggee # null
  tasks,        \* the handlers underway
  ledger,       \* breakpointLedger
  entrySeen,    \* entryPauseSeen
  lastPause,    \* lastPause: where, or None
  pendingStep,
  exit,         \* "due": the child's exit event waits to be handled
  scratch,      \* the scratch directory is there
  up,           \* the adapter has not died of an unhandled rejection
  shown,        \* what the client was told of the program
  configured,   \* the client has sent configurationDone
  disconnected  \* the client has been answered disconnect or terminate

engine == <<program, planted, interrupted>>
channel == <<link, sent, wire>>
stepping == <<entrySeen, lastPause, pendingStep>>
client == <<shown, configured, disconnected>>
vars == <<engine, killed, channel, launch, debuggee, tasks, ledger, stepping,
          exit, scratch, up, client>>

Alive == program \notin {"none", "exited"}

\* What launchRequest awaits once it is connected, and what it awaits next.
Setup == [enableRuntime |-> "enableDebugger", enableDebugger |-> "pauseOnExceptions",
          pauseOnExceptions |-> "run", run |-> "entryPause"]

Init ==
  /\ program = "none" /\ planted = {} /\ interrupted = FALSE /\ killed = FALSE
  /\ link = "none" /\ sent = <<>> /\ wire = <<>>
  /\ launch = "none" /\ debuggee = FALSE
  /\ tasks = [r \in Requests |-> None]
  /\ ledger = [s \in Sources |-> <<>>]
  /\ entrySeen = FALSE /\ lastPause = None /\ pendingStep = None
  /\ exit = "none" /\ scratch = FALSE /\ up = TRUE
  /\ shown = "nothing" /\ configured = FALSE /\ disconnected = FALSE

-----------------------------------------------------------------------------
(* The connection.                                                         *)

Command(for, what, at) == [for |-> for, what |-> what, at |-> at]
Answer(for, ok) == [kind |-> "answer", for |-> for, ok |-> ok]
Paused(reason, place) == [kind |-> "paused", reason |-> reason, place |-> place]
Event(kind) == [kind |-> kind]

\* CdpConnection.send: rejects at once unless the socket is open.
Send(commands) == sent' = IF link = "open" THEN sent \o commands ELSE sent

-----------------------------------------------------------------------------
(* The program and its inspector.                                          *)

\* Somebody debugs the program: the engine has not seen the connection close.
Attached == link = "open" \/ (link = "closing" /\ wire = <<>>)

\* What the adapter still hears of the engine.
Tell(message) == wire' = IF link = "open" THEN Append(wire, message) ELSE wire

Moves == {"stepOver", "stepInto", "stepOut", "resume"}

\* It moves on from a pause, and evaluates on the frames of one.
Done(c) == CASE c.what \in Moves \cup {"evaluate"} -> program = "paused"
             [] c.what = "setBreakpoint" -> c.at \notin planted
             [] OTHER -> TRUE

\* The engine does a command, or refuses it, and answers.
EngineTakes ==
  /\ sent # <<>> /\ Attached /\ Alive
  /\ LET c == Head(sent)
     IN /\ program' = IF ~Done(c) THEN program
                      ELSE CASE c.what = "resume" -> "running"
                             [] c.what \in Moves \ {"resume"} -> "stepping"
                             [] c.what = "run" -> "entering"
                             [] OTHER -> program
        /\ planted' = CASE c.what = "setBreakpoint" -> planted \cup {c.at}
                        [] c.what = "removeBreakpoint" -> planted \ {c.at}
                        [] OTHER -> planted
        /\ interrupted' = \/ interrupted
                          \/ c.what = "pause" /\ program \in {"running", "stepping"}
        /\ Tell(Answer(c.for, Done(c)))
  /\ sent' = Tail(sent)
  /\ UNCHANGED <<killed, link, launch, debuggee, tasks, ledger, stepping, exit, scratch, up, client>>

Stops(reason, place) ==
  /\ Attached
  /\ program' = "paused" /\ interrupted' = FALSE
  /\ Tell(Paused(reason, place))
  /\ UNCHANGED <<planted, killed, link, sent, launch, debuggee, tasks, ledger, stepping,
                 exit, scratch, up, client>>

\* The pause before the first statement, and the landing of a step or a pause.
Lands(place) ==
  /\ program \in {"entering", "stepping"} \/ (program = "running" /\ interrupted)
  /\ Stops("step", place)

\* A breakpoint is reached, or an exception is thrown.
Hits(place) ==
  /\ program \in {"running", "stepping"}
  /\ \/ (\E at \in planted : at[2] = place) /\ Stops("breakpoint", place)
     \/ Stops("exception", place)

\* The program is over: its context is destroyed, and the process waits for
\* the inspector to disconnect.
Ends ==
  /\ program \in {"entering", "running", "stepping"}
  /\ IF Attached
     THEN program' = "ended" /\ Tell(Event("destroyed")) /\ exit' = exit
     ELSE program' = "exited" /\ wire' = wire /\ exit' = "due"
  /\ interrupted' = FALSE
  /\ UNCHANGED <<planted, killed, link, sent, launch, debuggee, tasks, ledger,
                 stepping, scratch, up, client>>

\* The process is killed or crashes, whatever it was doing.
Dies ==
  /\ Alive
  /\ program' = "exited" /\ exit' = "due"
  /\ planted' = {} /\ interrupted' = FALSE
  /\ wire' = IF Attached THEN Append(wire, Event("closed")) ELSE wire
  /\ UNCHANGED <<killed, link, sent, launch, debuggee, tasks, ledger,
                 stepping, scratch, up, client>>

\* The engine sees the adapter's close: a program that nobody debugs runs on,
\* and one that was over exits.
Detaches ==
  /\ link = "closing" /\ Attached /\ Alive /\ sent = <<>>
  /\ wire' = <<Event("closed")>>
  /\ program' = CASE program = "ended" -> "exited"
                  [] program = "waiting" -> "waiting"
                  [] OTHER -> "running"
  /\ exit' = IF program = "ended" THEN "due" ELSE exit
  /\ planted' = {} /\ interrupted' = FALSE
  /\ UNCHANGED <<killed, link, sent, launch, debuggee, tasks, ledger, stepping, scratch, up, client>>

-----------------------------------------------------------------------------
(* launchRequest.                                                          *)

\* prepareBundle has made the scratch directory and awaits the compiler.
LaunchRequest ==
  /\ up /\ ~disconnected /\ launch = "none"
  /\ launch' = "preparing" /\ scratch' = TRUE
  /\ UNCHANGED <<engine, killed, channel, debuggee, tasks, ledger, stepping, exit, up, client>>

\* What compiled is spawned; what did not ends the launch.
Compiled(ok) ==
  /\ up /\ launch = "preparing"
  /\ IF ok
     THEN launch' = "starting" /\ program' = "booting" /\ scratch' = scratch
     ELSE launch' = "failed" /\ program' = program /\ scratch' = FALSE
  /\ UNCHANGED <<planted, interrupted, killed, channel, debuggee, tasks, ledger, stepping, exit,
                 up, client>>

\* launchProgram: the endpoint is announced, or the child exits, or ten
\* seconds are over and it is killed.
Announces ==
  /\ up /\ launch = "starting" /\ program = "booting"
  /\ launch' = "connecting" /\ program' = "waiting"
  /\ UNCHANGED <<planted, interrupted, killed, channel, debuggee, tasks, ledger, stepping, exit,
                 scratch, up, client>>

\* Untidy: the scratch directory stays.
LaunchFailsOnly ==
  /\ up
  /\ \/ launch = "starting" /\ program = "booting" /\ killed' = TRUE /\ exit' = exit
     \/ launch \in {"starting", "connecting"} /\ exit = "due" /\ exit' = "told" /\ killed' = killed
  /\ launch' = "failed"
  /\ UNCHANGED <<engine, channel, debuggee, tasks, ledger, stepping, up, client, scratch>>

\* It fails before there is a connection; a socket is only refused when the
\* child is gone.
LaunchFails ==
  /\ up
  /\ \/ launch = "starting" /\ program = "booting" /\ killed' = TRUE /\ exit' = exit
     \/ launch \in {"starting", "connecting"} /\ exit = "due" /\ exit' = "told" /\ killed' = killed
  /\ launch' = "failed" /\ scratch' = FALSE
  /\ UNCHANGED <<engine, channel, debuggee, tasks, ledger, stepping, up, client>>

\* CdpConnection.connect. The exit handler and the listeners are wired here.
Connects ==
  /\ up /\ launch = "connecting" /\ program = "waiting"
  /\ launch' = "enableRuntime" /\ debuggee' = TRUE
  /\ link' = "open" /\ sent' = <<Command("launch", "enableRuntime", None)>>
  /\ UNCHANGED <<engine, killed, wire, tasks, ledger, stepping, exit, scratch, up, client>>

-----------------------------------------------------------------------------
(* Requests. Each handler sends its command and awaits the answer.         *)

Asked == up /\ launch # "none" /\ ~disconnected

\* The client is told, unless it was told that all is over.
Shows(what) == shown' = IF shown = "ended" THEN shown ELSE what

\* The response to a request to run on says that the program runs.
Responds(kind) == IF kind = "runOn" THEN Shows("running") ELSE UNCHANGED shown

Plain(kind) == [kind |-> kind, src |-> None, old |-> <<>>, wanted |-> <<>>, got |-> <<>>]

\* Send what, and respond whatever comes of it: a rejection is caught.
Awaits(r, kind, what) ==
  /\ tasks[r] = None
  /\ IF debuggee /\ link = "open"
     THEN /\ tasks' = [tasks EXCEPT ![r] = Plain(kind)]
          /\ Send(<<Command(r, what, None)>>) /\ UNCHANGED shown
     ELSE UNCHANGED <<tasks, sent>> /\ Responds(kind)

How == [next |-> "stepOver", stepIn |-> "stepInto", stepOut |-> "stepOut"]

BeginStep(kind) ==
  /\ pendingStep' = [kind |-> kind, budget |-> Budget,
                     origin |-> IF lastPause = Unmapped THEN None ELSE lastPause]
  /\ lastPause' = None

\* nextRequest, stepInRequest, stepOutRequest
StepRequest(r, kind) ==
  /\ Asked /\ shown = "stopped"
  /\ BeginStep(kind) /\ Awaits(r, "runOn", How[kind])
  /\ UNCHANGED <<engine, killed, link, wire, launch, debuggee, ledger, entrySeen, exit, scratch,
                 up, configured, disconnected>>

ContinueRequest(r) ==
  /\ Asked /\ shown = "stopped"
  /\ lastPause' = None /\ Awaits(r, "runOn", "resume")
  /\ UNCHANGED <<engine, killed, link, wire, launch, debuggee, ledger, entrySeen, pendingStep,
                 exit, scratch, up, configured, disconnected>>

PauseRequest(r) ==
  /\ Asked /\ shown = "running"
  /\ Awaits(r, "pause", "pause")
  /\ UNCHANGED <<engine, killed, link, wire, launch, debuggee, ledger, stepping,
                 exit, scratch, up, configured, disconnected>>

\* The entry pause is over: a smart step to the author's first statement, with
\* stopOnEntry, or on.
ConfigurationDone(r) ==
  /\ Asked /\ launch = "done" /\ ~configured /\ configured' = TRUE
  /\ \/ ~debuggee /\ UNCHANGED <<tasks, sent, shown, lastPause, pendingStep>>
     \/ debuggee /\ BeginStep("stepIn") /\ Awaits(r, "configuration", "stepInto")
     \/ debuggee /\ lastPause' = None /\ pendingStep' = pendingStep
        /\ Awaits(r, "configuration", "resume")
  /\ UNCHANGED <<engine, killed, link, wire, launch, debuggee, ledger, entrySeen,
                 exit, scratch, up, disconnected>>

\* What the ledger held is left to the engine.
PlantOnly(r, t) ==
  IF t.wanted # <<>> THEN <<Command(r, "setBreakpoint", <<t.src, Head(t.wanted)>>)>> ELSE <<>>

\* The next command of a setBreakpoints: what the ledger held is removed one by
\* one, then what is wanted is planted one by one.
NextOf(r, t) ==
  IF t.old # <<>> THEN <<Command(r, "removeBreakpoint", Head(t.old))>>
  ELSE IF t.wanted # <<>> THEN <<Command(r, "setBreakpoint", <<t.src, Head(t.wanted)>>)>>
  ELSE <<>>

\* It awaits that command, or is over: on a closed connection every command
\* is rejected at once, and caught.
BreakpointsGoOn(r, t) ==
  LET more == NextOf(r, t) # <<>> /\ link = "open"
  IN /\ tasks' = [tasks EXCEPT ![r] = IF more THEN t ELSE None]
     /\ ledger' = CASE ~more -> [ledger EXCEPT ![t.src] = t.got]
                    [] more /\ t.old = <<>> -> [ledger EXCEPT ![t.src] = <<>>]
                    [] OTHER -> ledger
     /\ Send(NextOf(r, t))

SetBreakpoints(r, s, lines) ==
  /\ Asked /\ tasks[r] = None
  /\ IF debuggee
     THEN BreakpointsGoOn(r, [kind |-> "breakpoints", src |-> s, old |-> ledger[s],
                              wanted |-> lines, got |-> <<>>])
     ELSE UNCHANGED <<tasks, ledger, sent>>
  /\ UNCHANGED <<engine, killed, link, wire, launch, debuggee, stepping, exit, scratch, up, client>>

\* evaluateRequest catches nothing: a rejection ends the adapter.
Evaluate(r) ==
  /\ Asked /\ tasks[r] = None /\ debuggee /\ lastPause # None
  /\ IF link = "open"
     THEN /\ tasks' = [tasks EXCEPT ![r] = Plain("evaluate")]
          /\ Send(<<Command(r, "evaluate", None)>>) /\ up' = up
     ELSE UNCHANGED <<tasks, sent>> /\ up' = FALSE
  /\ UNCHANGED <<engine, killed, link, wire, launch, debuggee, ledger, stepping, exit, scratch, client>>

\* CdpConnection.close: of what comes in after it, only the end is heard.
Close ==
  /\ link' = IF link = "open" THEN "closing" ELSE link
  /\ wire' = IF \E i \in DOMAIN wire : wire[i].kind = "closed" THEN <<Event("closed")>> ELSE <<>>

\* disconnectRequest and terminateRequest: teardown, if there is a debuggee.
Disconnect ==
  /\ Asked
  /\ disconnected' = TRUE /\ debuggee' = FALSE
  /\ IF debuggee
     THEN Close /\ scratch' = FALSE /\ killed' = (killed \/ exit # "told")
     ELSE UNCHANGED <<link, wire, scratch, killed>>
  /\ UNCHANGED <<engine, sent, launch, tasks, ledger, stepping, exit, up, shown, configured>>

-----------------------------------------------------------------------------
(* What comes in over the connection.                                      *)

Heard == up /\ wire # <<>>

\* launchRequest sends its next command, and after the last one awaits the
\* entry pause, which may have come already.
AnswersLaunch(m) ==
  /\ m.for = "launch"
  /\ LET next == Setup[launch]
     IN IF next \in DOMAIN Setup
        THEN launch' = next /\ Send(<<Command("launch", next, None)>>) /\ UNCHANGED shown
        ELSE /\ launch' = IF entrySeen THEN "done" ELSE next
             /\ IF entrySeen THEN Shows("running") ELSE UNCHANGED shown
             /\ sent' = sent
  /\ UNCHANGED <<tasks, ledger>>

\* The engine would not evaluate: lastPause also names a landing that the smart
\* step has gone on from.
Rejects(m) == m.for \in Requests /\ tasks[m.for].kind = "evaluate" /\ ~m.ok

\* The handler that awaits this answer responds, or sends its next command.
AnswersTask(m) ==
  /\ m.for \in Requests /\ ~Rejects(m)
  /\ LET t == tasks[m.for]
     IN IF t.kind = "breakpoints"
        THEN /\ BreakpointsGoOn(m.for,
                  IF t.old # <<>> THEN [t EXCEPT !.old = Tail(@)]
                  ELSE [t EXCEPT !.wanted = Tail(@),
                                 !.got = IF m.ok THEN Append(@, <<t.src, Head(t.wanted)>>) ELSE @])
             /\ UNCHANGED shown
        ELSE tasks' = [tasks EXCEPT ![m.for] = None] /\ Responds(t.kind) /\ UNCHANGED <<ledger, sent>>
  /\ UNCHANGED launch

AnswersNobody(m) == m.for = None /\ UNCHANGED <<launch, tasks, ledger, sent, shown>>

OnAnswer ==
  /\ Heard /\ Head(wire).kind = "answer" /\ wire' = Tail(wire)
  /\ LET m == Head(wire) IN AnswersLaunch(m) \/ AnswersTask(m) \/ AnswersNobody(m)
  /\ UNCHANGED <<engine, killed, link, debuggee, stepping, exit, scratch, up,
                 configured, disconnected>>

\* evaluateRequest does not catch: the adapter ends, and its socket with it.
OnRejection ==
  /\ Heard /\ Head(wire).kind = "answer" /\ Rejects(Head(wire))
  /\ up' = FALSE /\ tasks' = [tasks EXCEPT ![Head(wire).for] = None]
  /\ Close
  /\ UNCHANGED <<engine, killed, sent, launch, debuggee, ledger, stepping, exit, scratch, client>>

\* The entry pause is told by there being no pause yet.
UnlessPaused == lastPause = None

IsEntry == ~entrySeen

\* The first pause is the adapter's own; launchRequest may await it.
OnEntryPause ==
  /\ Heard /\ Head(wire).kind = "paused" /\ wire' = Tail(wire)
  /\ IsEntry /\ entrySeen' = TRUE
  /\ lastPause' = Head(wire).place
  /\ IF launch = "entryPause" THEN launch' = "done" /\ Shows("running")
     ELSE UNCHANGED <<launch, shown>>
  /\ UNCHANGED <<engine, killed, link, sent, debuggee, tasks, ledger, pendingStep, exit, scratch,
                 up, configured, disconnected>>

\* Where a landing is not where a step should end: in code no source maps to,
\* or, for next, on the line it started from.
Onwards(step, place) ==
  IF step.budget = 0 THEN <<>>
  ELSE IF place = Unmapped
    THEN <<Command(None, IF step.kind = "stepIn" THEN "stepInto" ELSE "stepOut", None)>>
  ELSE IF step.kind = "next" /\ step.origin = place
    THEN <<Command(None, "stepOver", None)>>
  ELSE <<>>

\* A smart step with no budget.
SpendNothing(step) == step

Spend(step) == [step EXCEPT !.budget = @ - 1]

\* onPaused: a stop for the client, or a landing that the smart step goes on from.
OnPaused ==
  /\ Heard /\ Head(wire).kind = "paused" /\ wire' = Tail(wire)
  /\ ~IsEntry
  /\ lastPause' = Head(wire).place
  /\ LET m == Head(wire)
         on == IF m.reason # "step" \/ pendingStep = None THEN <<>> ELSE Onwards(pendingStep, m.place)
     IN /\ Send(on)
        /\ IF on = <<>> THEN pendingStep' = None /\ Shows("stopped")
           ELSE pendingStep' = Spend(pendingStep) /\ UNCHANGED shown
  /\ UNCHANGED <<engine, killed, link, launch, debuggee, tasks, ledger, entrySeen, exit, scratch,
                 up, configured, disconnected>>

\* The program is over: close, so that it may exit.
OnDestroyed ==
  /\ Heard /\ Head(wire).kind = "destroyed"
  /\ Close
  /\ UNCHANGED <<engine, killed, sent, launch, debuggee, tasks, ledger, stepping, exit, scratch,
                 up, client>>

\* Who waits for an answer waits on.
RejectNobody(busy) == tasks

RejectAll(busy) == [r \in Requests |-> IF r \in busy THEN None ELSE tasks[r]]

\* The socket is closed: every command in flight is rejected. Handlers that
\* catch it run to their end; launchRequest and evaluateRequest do not catch.
OnClosed ==
  LET busy == {r \in Requests : tasks[r] # None}
      planting == {r \in busy : tasks[r].kind = "breakpoints"}
      running == {r \in busy : tasks[r].kind = "runOn"}
      thrown == launch \in DOMAIN Setup \/ \E r \in busy : tasks[r].kind = "evaluate"
  IN /\ Heard /\ Head(wire).kind = "closed"
     /\ link' = "closed" /\ wire' = <<>> /\ sent' = <<>>
     /\ tasks' = RejectAll(busy)
     /\ ledger' = [s \in Sources |->
          IF \E r \in planting : tasks[r].src = s
          THEN tasks[CHOOSE r \in planting : tasks[r].src = s].got ELSE ledger[s]]
     /\ IF running # {} THEN Shows("running") ELSE UNCHANGED shown
     /\ up' = ~thrown
     /\ UNCHANGED <<engine, killed, launch, debuggee, stepping, exit, scratch, configured, disconnected>>

\* The child's exit, once its handler is wired.
OnExit ==
  /\ up /\ exit = "due" /\ launch \in DOMAIN Setup \cup {"entryPause", "done"}
  /\ exit' = "told"
  /\ scratch' = (scratch /\ ~debuggee)
  /\ Shows("ended")
  /\ UNCHANGED <<engine, killed, channel, launch, debuggee, tasks, ledger, stepping, up,
                 configured, disconnected>>

-----------------------------------------------------------------------------
Next ==
  \/ EngineTakes \/ Ends \/ Dies \/ Detaches
  \/ \E place \in Places : Lands(place) \/ Hits(place)
  \/ LaunchRequest \/ Announces \/ LaunchFails \/ Connects
  \/ \E ok \in BOOLEAN : Compiled(ok)
  \/ \E r \in Requests :
       \/ \E kind \in DOMAIN How : StepRequest(r, kind)
       \/ ContinueRequest(r) \/ PauseRequest(r) \/ ConfigurationDone(r) \/ Evaluate(r)
       \/ \E s \in Sources, lines \in Wanted : SetBreakpoints(r, s, lines)
  \/ Disconnect
  \/ OnAnswer \/ OnRejection \/ OnEntryPause \/ OnPaused \/ OnDestroyed \/ OnClosed \/ OnExit

Spec == Init /\ [][Next]_vars

\* The event loop, the engine and the operating system go on; a step lands,
\* and a signal ends the program. Nobody has to ask for anything, no program
\* has to end, and a compiler has only to answer.
Fairness ==
  /\ WF_vars(EngineTakes) /\ WF_vars(Detaches)
  /\ WF_vars(program \in {"entering", "stepping"} /\ \E place \in Places : Lands(place))
  /\ WF_vars(killed /\ Dies)
  /\ WF_vars(OnAnswer \/ OnRejection \/ OnEntryPause \/ OnPaused \/ OnDestroyed \/ OnClosed
             \/ OnExit)
  /\ WF_vars(Announces \/ LaunchFails \/ Connects \/ \E ok \in BOOLEAN : Compiled(ok))

FairSpec == Spec /\ Fairness

-----------------------------------------------------------------------------
Planting(s) == {r \in Requests : tasks[r] # None /\ tasks[r].src = s}
RunningOn == {r \in Requests : tasks[r] # None /\ tasks[r].kind = "runOn"}

\* What a client keeps to: it waits for one setBreakpoints of a file before it
\* sends the next, and for the answer to a step before it asks to run on again;
OneByOne ==
  /\ \A s \in Sources : Cardinality(Planting(s)) <= 1
  /\ Cardinality(RunningOn) <= 1

\* and it disconnects once its launch is answered.
Patient == disconnected' # disconnected => launch \in {"done", "failed"}

\* No breakpoint is left behind: whenever no setBreakpoints is underway for a
\* source, the engine holds for it what the ledger says, and nothing else.
LedgerIsEngine ==
  link = "open" /\ Alive =>
    \A s \in Sources : Planting(s) = {} =>
      {at \in planted : at[1] = s} = {ledger[s][i] : i \in DOMAIN ledger[s]}

Quiet ==
  /\ sent = <<>> /\ wire = <<>> /\ exit # "due" /\ link # "closing"
  /\ \A r \in Requests : tasks[r] = None

\* Once everything sent has arrived, the client sees the program as it is: no
\* pause after the entry is silent, and none is announced of a program that
\* runs, however steps, landings, breakpoints and requests cross.
ClientSeesTheProgram ==
  Quiet /\ up /\ configured /\ ~disconnected =>
    shown = CASE program = "paused" -> "stopped" [] program = "exited" -> "ended"
              [] OTHER -> "running"

\* A session that is over leaves nothing: when the client is answered, or the
\* launch has failed, the program is gone or a signal is on its way, and so is
\* the scratch directory.
NothingIsLeft ==
  (launch = "failed" \/ (disconnected /\ launch \notin {"preparing", "starting", "connecting"}))
    => (~Alive \/ killed) /\ ~scratch

\* A handler that awaits the engine comes to its end, also when the program
\* ends or the connection closes under it (unless an evaluation that was
\* rejected took the adapter with it).
HandlersSettle == \A r \in Requests : tasks[r] # None ~> (tasks[r] = None \/ ~up)

\* A smart step ends: its landings in code without a source and on its own
\* line are counted, and the last one is shown.
StepsEnd ==
  (pendingStep # None /\ program = "stepping" /\ link = "open")
    ~> (shown \in {"stopped", "ended"} \/ program \notin {"stepping", "paused"} \/ ~up)

\* Both: no request and no step goes on for ever.
NobodyHangs == HandlersSettle /\ StepsEnd
=============================================================================
