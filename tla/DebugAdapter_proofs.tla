------------------------- MODULE DebugAdapter_proofs -------------------------
(***************************************************************************)
(* What holds of every debug session, whatever its files, its handlers and *)
(* its client.                                                             *)
(***************************************************************************)
EXTENDS DebugAdapter, FiniteSetTheorems, TLAPS

-----------------------------------------------------------------------------
(* Types.                                                                  *)

SetupStages == {"enableRuntime", "enableDebugger", "pauseOnExceptions", "run"}
Unconnected == {"none", "preparing", "starting", "connecting", "failed"}
Planters == {"setBreakpoint", "removeBreakpoint"}

Commands ==
  [for : {"launch"}, what : SetupStages, at : {None}]
  \cup [for : Requests, what : Planters, at : Locations]
  \cup [for : Requests \cup {None}, what : Moves \cup {"pause", "evaluate"}, at : {None}]
Messages ==
  [kind : {"answer"}, for : Requests \cup {"launch", None}, ok : BOOLEAN]
  \cup [kind : {"paused"}, reason : {"step", "breakpoint", "exception"}, place : Places]
  \cup [kind : {"destroyed", "closed"}]
Steps == [kind : DOMAIN How, budget : Nat, origin : Lines \cup {None}]

Programs == {"none", "booting", "waiting", "entering", "running", "stepping", "paused",
             "ended", "exited"}
Links == {"none", "open", "closing", "closed"}
Launches == Unconnected \cup SetupStages \cup {"entryPause", "done"}
Exits == {"none", "due", "told"}
Views == {"nothing", "running", "stopped", "ended"}

Typed ==
  /\ program \in Programs /\ planted \in SUBSET Locations
  /\ interrupted \in BOOLEAN /\ killed \in BOOLEAN
  /\ link \in Links /\ sent \in Seq(Commands) /\ wire \in Seq(Messages)
  /\ launch \in Launches /\ debuggee \in BOOLEAN
  /\ tasks \in [Requests -> Tasks \cup {None}]
  /\ ledger \in [Sources -> Seq(Locations)]
  /\ entrySeen \in BOOLEAN
  /\ lastPause \in Places \cup {None} /\ pendingStep \in Steps \cup {None}
  /\ exit \in Exits /\ scratch \in BOOLEAN /\ up \in BOOLEAN
  /\ shown \in Views /\ configured \in BOOLEAN /\ disconnected \in BOOLEAN

-----------------------------------------------------------------------------
(* Commands and their answers.                                             *)

AnswerFor(m, f) == m.kind = "answer" /\ m.for = f

\* Nothing of an owner is underway, or one command of it, or its answer.
NoneOf(s, w, f) ==
  /\ \A i \in DOMAIN s : s[i].for # f
  /\ \A i \in DOMAIN w : ~AnswerFor(w[i], f)
OneOf(s, w, f) ==
  /\ \A i, j \in DOMAIN s : s[i].for = f /\ s[j].for = f => i = j
  /\ \A i, j \in DOMAIN w : AnswerFor(w[i], f) /\ AnswerFor(w[j], f) => i = j
  /\ \A i \in DOMAIN s, j \in DOMAIN w : s[i].for = f => ~AnswerFor(w[j], f)

\* A command is the one its owner awaits.
Fits(c, t) ==
  /\ t # None
  /\ IF t.kind = "breakpoints" THEN <<c>> = NextOf(c.for, t)
     ELSE /\ c.what \notin Planters
          /\ c.what \in Moves <=> t.kind \in {"runOn", "configuration"}

\* ... and there is work left for it to await.
Works(r, t) ==
  IF t.kind = "breakpoints" THEN t.src \in Sources /\ NextOf(r, t) # <<>> ELSE t.src = None

InStep(s, w, ts, l) ==
  /\ \A f \in Requests \cup {"launch"} : OneOf(s, w, f)
  /\ \A i \in DOMAIN s :
       /\ s[i].for = "launch" => s[i].what = l
       /\ s[i].for \in Requests => Fits(s[i], ts[s[i].for])
       /\ s[i].for = None => s[i].what \in Moves
  /\ \A i \in DOMAIN w :
       /\ AnswerFor(w[i], "launch") => l \in SetupStages
       /\ \A r \in Requests : AnswerFor(w[i], r) => ts[r] # None
  /\ \A r \in Requests : ts[r] # None => Works(r, ts[r])
Connected == InStep(sent, wire, tasks, launch)

Channels ==
  /\ link = "open" => Connected
  /\ link # "open" => \A i \in DOMAIN wire : wire[i].kind = "closed"
  /\ launch \in Unconnected <=> link = "none"
  /\ link = "none" =>
       /\ sent = <<>> /\ wire = <<>> /\ planted = {} /\ ~debuggee
       /\ tasks = [r \in Requests |-> None]
       /\ ledger = [s \in Sources |-> <<>>]

-----------------------------------------------------------------------------

LEMMA Names ==
  /\ \A p \in {"none", "booting", "waiting", "entering", "running", "stepping", "paused",
               "ended", "exited"} : p \in Programs
  /\ \A l \in {"none", "open", "closing", "closed"} : l \in Links
  /\ \A l \in Unconnected \cup SetupStages \cup {"entryPause", "done"} : l \in Launches
  /\ \A l \in {"preparing", "starting", "connecting", "failed", "enableRuntime",
               "enableDebugger", "pauseOnExceptions", "run", "entryPause", "done"} :
       l \in Launches
  /\ \A e \in {"none", "due", "told"} : e \in Exits
BY DEF Programs, Links, Launches, Exits, Unconnected, SetupStages

\* What goes out and what comes in are commands and messages.
LEMMA SendTyped ==
  ASSUME sent \in Seq(Commands), NEW cs \in Seq(Commands), Send(cs)
  PROVE  sent' \in Seq(Commands)
BY DEF Send

LEMMA TellTyped ==
  ASSUME wire \in Seq(Messages), NEW m \in Messages, Tell(m)
  PROVE  wire' \in Seq(Messages)
BY DEF Tell

LEMMA CommandTyped ==
  /\ \A w \in SetupStages : <<Command("launch", w, None)>> \in Seq(Commands)
  /\ \A r \in Requests, w \in Planters, at \in Locations : <<Command(r, w, at)>> \in Seq(Commands)
  /\ \A r \in Requests \cup {None}, w \in Moves \cup {"pause", "evaluate"} :
       <<Command(r, w, None)>> \in Seq(Commands)
BY DEF Commands, Command

LEMMA MessageTyped ==
  /\ \A f \in Requests \cup {"launch", None}, ok \in BOOLEAN : Answer(f, ok) \in Messages
  /\ \A reason \in {"step", "breakpoint", "exception"}, place \in Places :
       Paused(reason, place) \in Messages
  /\ \A kind \in {"destroyed", "closed"} : Event(kind) \in Messages
BY DEF Messages, Answer, Paused, Event

LEMMA CloseTyped ==
  ASSUME link \in Links, wire \in Seq(Messages), Close
  PROVE  link' \in Links /\ wire' \in Seq(Messages)
<1>1. <<Event("closed")>> \in Seq(Messages) /\ <<>> \in Seq(Messages)
  BY MessageTyped
<1> QED BY <1>1, Names DEF Close

\* A handler that is begun is a handler.
LEMMA PlainTyped ==
  \A kind \in {"runOn", "configuration", "pause", "evaluate"} :
    /\ Plain(kind) \in Tasks /\ Plain(kind) # None
    /\ Plain(kind).kind = kind /\ Plain(kind).src = None
<1> TAKE kind \in {"runOn", "configuration", "pause", "evaluate"}
<1>1. Plain(kind) \in Tasks
  BY DEF Plain, Tasks
<1> QED BY <1>1, NoneAssumption DEF Plain

LEMMA AwaitsTyped ==
  ASSUME Typed, NEW r \in Requests,
         NEW kind \in {"runOn", "configuration", "pause", "evaluate"},
         NEW what \in Moves \cup {"pause", "evaluate"}, Awaits(r, kind, what)
  PROVE  /\ sent' \in Seq(Commands)
         /\ tasks' \in [Requests -> Tasks \cup {None}]
         /\ shown' \in Views
<1>1. CASE debuggee /\ link = "open"
  <2>1. sent' \in Seq(Commands)
    BY <1>1, CommandTyped, SendTyped DEF Awaits, Typed
  <2> QED BY <1>1, <2>1, PlainTyped DEF Awaits, Typed
<1>2. CASE ~(debuggee /\ link = "open")
  BY <1>2 DEF Awaits, Typed, Responds, Shows, Views
<1> QED BY <1>1, <1>2

LEMMA NextTyped ==
  ASSUME NEW r \in Requests, NEW t \in Tasks, t.src \in Sources
  PROVE  NextOf(r, t) \in Seq(Commands)
<1>0. t.old \in Seq(Locations) /\ t.wanted \in Seq(Lines)
  BY DEF Tasks
<1>1. CASE t.old # <<>>
  <2>1. Head(t.old) \in Locations
    BY <1>0, <1>1
  <2> QED BY <1>1, <2>1, CommandTyped DEF NextOf, Planters
<1>2. CASE t.old = <<>> /\ t.wanted # <<>>
  <2>1. <<t.src, Head(t.wanted)>> \in Locations
    BY <1>0, <1>2 DEF Locations
  <2> QED BY <1>2, <2>1, CommandTyped DEF NextOf, Planters
<1> QED BY <1>1, <1>2 DEF NextOf

LEMMA GoOnTyped ==
  ASSUME Typed, NEW r \in Requests, NEW t \in Tasks, t.src \in Sources, BreakpointsGoOn(r, t)
  PROVE  /\ sent' \in Seq(Commands)
         /\ tasks' \in [Requests -> Tasks \cup {None}]
         /\ ledger' \in [Sources -> Seq(Locations)]
<1>1. sent' \in Seq(Commands)
  BY NextTyped, SendTyped DEF BreakpointsGoOn, Typed
<1>2. tasks' \in [Requests -> Tasks \cup {None}]
  BY DEF BreakpointsGoOn, Typed
<1>3. ledger' \in [Sources -> Seq(Locations)]
  BY DEF BreakpointsGoOn, Typed, Tasks
<1> QED BY <1>1, <1>2, <1>3

-----------------------------------------------------------------------------
\* Every step keeps the types.
LEMMA TypedEngine ==
  ASSUME Typed, EngineTakes
  PROVE  Typed'
<1> DEFINE c == Head(sent)
<1>1. c \in Commands /\ sent' \in Seq(Commands)
  BY DEF Typed, EngineTakes
<1>2. wire' \in Seq(Messages)
  <2>1. Answer(c.for, Done(c)) \in Messages
    BY <1>1, MessageTyped DEF Commands, Done
  <2> QED BY <2>1, TellTyped DEF Typed, EngineTakes
<1>3. planted' \in SUBSET Locations
  BY <1>1 DEF Typed, EngineTakes, Commands, Moves, SetupStages, Planters
<1>4. program' \in Programs
  BY DEF Typed, EngineTakes, Programs
<1>5. interrupted' \in BOOLEAN
  BY DEF Typed, EngineTakes
<1> QED
  BY <1>1, <1>2, <1>3, <1>4, <1>5 DEF Typed, EngineTakes, stepping, client

LEMMA TypedProgram ==
  ASSUME Typed,
         \/ \E place \in Places : Lands(place) \/ Hits(place)
         \/ Ends \/ Dies \/ Detaches
  PROVE  Typed'
<1>1. ASSUME NEW place \in Places, NEW reason \in {"step", "breakpoint", "exception"},
             Stops(reason, place)
      PROVE  Typed'
  <2>1. wire' \in Seq(Messages)
    BY <1>1, MessageTyped, TellTyped DEF Typed, Stops
  <2> QED BY <1>1, <2>1, Names DEF Typed, Stops, stepping, client
<1>2. CASE \E place \in Places : Lands(place) \/ Hits(place)
  BY <1>1, <1>2 DEF Lands, Hits
<1>3. CASE Ends
  <2>1. wire' \in Seq(Messages)
    BY <1>3, MessageTyped, TellTyped DEF Typed, Ends
  <2> QED BY <1>3, <2>1, Names DEF Typed, Ends, stepping, client
<1>4. CASE Dies
  <2>1. wire' \in Seq(Messages)
    BY <1>4, MessageTyped DEF Typed, Dies
  <2> QED BY <1>4, <2>1, Names DEF Typed, Dies, stepping, client
<1>5. CASE Detaches
  <2>1. wire' \in Seq(Messages)
    BY <1>5, MessageTyped DEF Typed, Detaches
  <2>2. program' \in Programs /\ exit' \in Exits
    BY <1>5 DEF Typed, Detaches, Programs, Exits
  <2> QED BY <1>5, <2>1, <2>2 DEF Typed, Detaches, stepping, client
<1> QED BY <1>2, <1>3, <1>4, <1>5

LEMMA TypedLaunch ==
  ASSUME Typed,
         \/ LaunchRequest \/ Announces \/ LaunchFails \/ Connects
         \/ \E ok \in BOOLEAN : Compiled(ok)
  PROVE  Typed'
<1>1. CASE LaunchRequest
  BY <1>1, Names DEF Typed, LaunchRequest, engine, channel, stepping, client
<1>2. CASE Announces
  BY <1>2, Names DEF Typed, Announces, channel, stepping, client
<1>3. CASE LaunchFails
  BY <1>3, Names DEF Typed, LaunchFails, engine, channel, stepping, client
<1>4. CASE Connects
  <2>1. sent' \in Seq(Commands)
    BY <1>4, CommandTyped DEF Connects, SetupStages
  <2> QED BY <1>4, <2>1, Names DEF Typed, Connects, engine, stepping, client
<1>5. ASSUME NEW ok \in BOOLEAN, Compiled(ok)
      PROVE  Typed'
  BY <1>5, Names DEF Typed, Compiled, channel, stepping, client
<1> QED BY <1>1, <1>2, <1>3, <1>4, <1>5

LEMMA BeginTyped ==
  ASSUME Typed, NEW kind \in DOMAIN How, BeginStep(kind)
  PROVE  lastPause' \in Places \cup {None} /\ pendingStep' \in Steps \cup {None}
BY BudgetAssumption DEF Typed, BeginStep, Steps, Places

LEMMA TypedRequests ==
  ASSUME Typed, NEW r \in Requests,
         \/ \E kind \in DOMAIN How : StepRequest(r, kind)
         \/ ContinueRequest(r) \/ PauseRequest(r) \/ ConfigurationDone(r) \/ Evaluate(r)
         \/ \E s \in Sources, lines \in Wanted : SetBreakpoints(r, s, lines)
  PROVE  Typed'
<1>1. ASSUME NEW kind \in DOMAIN How, StepRequest(r, kind)
      PROVE  Typed'
  <2>1. How[kind] \in Moves
    BY DEF How, Moves
  <2> QED BY <1>1, <2>1, AwaitsTyped, BeginTyped DEF Typed, StepRequest, engine
<1>2. CASE ContinueRequest(r)
  <2>1. "resume" \in Moves
    BY DEF Moves
  <2> QED BY <1>2, <2>1, AwaitsTyped DEF Typed, ContinueRequest, engine
<1>3. CASE PauseRequest(r)
  BY <1>3, AwaitsTyped DEF Typed, PauseRequest, engine, stepping
<1>4. CASE ConfigurationDone(r)
  <2>1. "resume" \in Moves /\ "stepInto" \in Moves /\ "stepIn" \in DOMAIN How
    BY DEF Moves, How
  <2>2. CASE ~debuggee
    BY <1>4, <2>2 DEF Typed, ConfigurationDone, engine
  <2>3. CASE BeginStep("stepIn") /\ Awaits(r, "configuration", "stepInto")
    BY <1>4, <2>1, <2>3, AwaitsTyped, BeginTyped DEF Typed, ConfigurationDone, engine
  <2>4. CASE /\ lastPause' = None /\ pendingStep' = pendingStep
             /\ Awaits(r, "configuration", "resume")
    BY <1>4, <2>1, <2>4, AwaitsTyped DEF Typed, ConfigurationDone, engine
  <2> QED BY <1>4, <2>2, <2>3, <2>4 DEF ConfigurationDone
<1>5. CASE Evaluate(r)
  <2>1. CASE link = "open"
    <3>1. sent' \in Seq(Commands)
      BY <1>5, <2>1, CommandTyped, SendTyped DEF Evaluate, Typed
    <3> QED BY <1>5, <2>1, <3>1, PlainTyped DEF Typed, Evaluate, engine, stepping, client
  <2>2. CASE link # "open"
    BY <1>5, <2>2 DEF Typed, Evaluate, engine, stepping, client
  <2> QED BY <2>1, <2>2
<1>6. ASSUME NEW s \in Sources, NEW lines \in Wanted, SetBreakpoints(r, s, lines)
      PROVE  Typed'
  <2> DEFINE t == [kind |-> "breakpoints", src |-> s, old |-> ledger[s],
                   wanted |-> lines, got |-> <<>>]
  <2>1. t \in Tasks /\ t.src \in Sources
    BY SetsAssumption DEF Typed, Tasks
  <2>2. CASE debuggee
    BY <1>6, <2>1, <2>2, GoOnTyped DEF Typed, SetBreakpoints, engine, stepping, client
  <2>3. CASE ~debuggee
    BY <1>6, <2>3 DEF Typed, SetBreakpoints, engine, stepping, client
  <2> QED BY <2>2, <2>3
<1> QED BY <1>1, <1>2, <1>3, <1>4, <1>5, <1>6

LEMMA TypedDisconnect ==
  ASSUME Typed, Disconnect
  PROVE  Typed'
<1>1. wire' \in Seq(Messages)
  BY CloseTyped DEF Typed, Disconnect
<1> QED BY <1>1, Names DEF Typed, Disconnect, Close, engine, stepping

\* The handler that an answer is for is at work, on something that is left.
LEMMA Listening ==
  ASSUME Typed, Channels, NEW i \in DOMAIN wire, wire[i].kind # "closed"
  PROVE  /\ link = "open"
         /\ AnswerFor(wire[i], "launch") => launch \in SetupStages
         /\ \A r \in Requests : AnswerFor(wire[i], r) => tasks[r] \in Tasks
BY DEF Typed, Channels, Connected, InStep

\* What is left once the command that was awaited is answered.
Answered(t, ok) ==
  IF t.old # <<>> THEN [t EXCEPT !.old = Tail(@)]
  ELSE [t EXCEPT !.wanted = Tail(@),
                 !.got = IF ok THEN Append(@, <<t.src, Head(t.wanted)>>) ELSE @]

LEMMA AnsweredTyped ==
  ASSUME NEW r \in Requests, NEW t \in Tasks, NEW ok \in BOOLEAN, t.src \in Sources, NextOf(r, t) # <<>>
  PROVE  /\ Answered(t, ok) \in Tasks
         /\ Answered(t, ok).src = t.src /\ Answered(t, ok).kind = t.kind
<1>1. CASE t.old # <<>>
  <2> DEFINE q == Tail(t.old)
             u == [t EXCEPT !.old = q]
  <2>1. q \in Seq(Locations)
    BY <1>1 DEF Tasks
  <2>2. Answered(t, ok) = u
    BY <1>1 DEF Answered
  <2> HIDE DEF q
  <2>3. u \in Tasks /\ u.src = t.src /\ u.kind = t.kind
    BY <2>1 DEF Tasks
  <2> HIDE DEF u
  <2> QED BY <2>2, <2>3
<1>2. CASE t.old = <<>>
  <2> DEFINE q == Tail(t.wanted)
             got == IF ok THEN Append(t.got, <<t.src, Head(t.wanted)>>) ELSE t.got
             u == [t EXCEPT !.wanted = q, !.got = got]
  <2>1. t.wanted # <<>>
    BY <1>2 DEF NextOf
  <2>2. <<t.src, Head(t.wanted)>> \in Locations
    BY <2>1 DEF Tasks, Locations
  <2>3. q \in Seq(Lines) /\ got \in Seq(Locations)
    BY <2>1, <2>2 DEF Tasks
  <2>4. Answered(t, ok) = u
    BY <1>2 DEF Answered
  <2> HIDE DEF q, got
  <2>5. u \in Tasks /\ u.src = t.src /\ u.kind = t.kind
    BY <2>3 DEF Tasks
  <2> HIDE DEF u
  <2> QED BY <2>4, <2>5
<1> QED BY <1>1, <1>2

LEMMA TypedHears ==
  ASSUME Typed, Channels,
         OnAnswer \/ OnRejection \/ OnEntryPause \/ OnPaused \/ OnDestroyed \/ OnClosed \/ OnExit
  PROVE  Typed'
<1> DEFINE m == Head(wire)
<1>1. CASE OnAnswer
  <2>0. /\ wire # <<>> /\ m = wire[1] /\ 1 \in DOMAIN wire /\ m \in Messages
        /\ m.kind = "answer" /\ wire' \in Seq(Messages)
    BY <1>1 DEF Typed, OnAnswer, Heard
  <2>1. CASE AnswersLaunch(m)
    <3>1. launch \in SetupStages
      BY <2>0, <2>1, Listening DEF AnswersLaunch, AnswerFor
    <3>2. /\ DOMAIN Setup = SetupStages
          /\ Setup[launch] \in SetupStages \cup {"entryPause"}
      BY <3>1 DEF Setup, SetupStages
    <3>3. CASE Setup[launch] \in SetupStages
      <4>1. sent' \in Seq(Commands)
        BY <2>1, <3>2, <3>3, CommandTyped, SendTyped DEF AnswersLaunch, Typed
      <4> QED BY <1>1, <2>0, <2>1, <3>2, <3>3, <4>1, Names DEF Typed, OnAnswer, AnswersLaunch, engine, stepping
    <3>4. CASE Setup[launch] \notin SetupStages
      <4>1. launch' \in Launches /\ shown' \in Views /\ sent' = sent
        BY <2>1, <3>2, <3>4, Names DEF AnswersLaunch, Typed, Shows, Views
      <4> QED BY <1>1, <2>0, <2>1, <4>1 DEF Typed, OnAnswer, AnswersLaunch, engine, stepping
    <3> QED BY <3>3, <3>4
  <2>2. CASE AnswersTask(m)
    <3> DEFINE r == m.for
               t == tasks[r]
    <3>1. r \in Requests /\ t \in Tasks /\ m.ok \in BOOLEAN
      <4>1. m.ok \in BOOLEAN
        BY <2>0 DEF Messages
      <4> QED BY <2>0, <2>2, <4>1, Listening DEF AnswersTask, AnswerFor
    <3>2. CASE t.kind = "breakpoints"
      <4>1. t.src \in Sources /\ NextOf(r, t) # <<>>
        <5>1. link = "open"
          BY <2>0, Listening
        <5> QED BY <3>1, <3>2, <5>1, NoneAssumption DEF Channels, Connected, InStep, Works
      <4>2. BreakpointsGoOn(r, Answered(t, m.ok))
        BY <2>2, <3>2 DEF AnswersTask, Answered
      <4>3. /\ sent' \in Seq(Commands)
            /\ tasks' \in [Requests -> Tasks \cup {None}]
            /\ ledger' \in [Sources -> Seq(Locations)]
        BY <3>1, <4>1, <4>2, AnsweredTyped, GoOnTyped
      <4> QED BY <1>1, <2>0, <2>2, <3>2, <4>3 DEF Typed, OnAnswer, AnswersTask, engine, stepping
    <3>3. CASE t.kind # "breakpoints"
      <4>1. tasks' \in [Requests -> Tasks \cup {None}]
        BY <2>2, <3>3 DEF Typed, AnswersTask
      <4>2. shown' \in Views /\ sent' = sent /\ ledger' = ledger
        BY <2>2, <3>3 DEF Typed, AnswersTask, Responds, Shows, Views
      <4> QED BY <1>1, <2>0, <2>2, <4>1, <4>2 DEF Typed, OnAnswer, AnswersTask, engine, stepping
    <3> QED BY <3>2, <3>3
  <2>3. CASE AnswersNobody(m)
    BY <1>1, <2>0, <2>3 DEF Typed, OnAnswer, AnswersNobody, engine, stepping
  <2> QED BY <1>1, <2>1, <2>2, <2>3 DEF OnAnswer
<1>2. ASSUME Heard, m.kind = "paused"
      PROVE  wire' = Tail(wire) => wire' \in Seq(Messages) /\ m.place \in Places
  <2>1. m \in Messages
    BY <1>2 DEF Typed, Heard
  <2> QED BY <1>2, <2>1 DEF Typed, Heard, Messages
<1>3. CASE OnEntryPause
  <2>1. wire' \in Seq(Messages) /\ lastPause' \in Places
    BY <1>2, <1>3 DEF OnEntryPause
  <2>2. launch' \in Launches /\ shown' \in Views
    BY <1>3, Names DEF Typed, OnEntryPause, Shows, Views
  <2> QED BY <1>3, <2>1, <2>2 DEF Typed, OnEntryPause, engine, client
<1>4. CASE OnPaused
  <2>1. wire' \in Seq(Messages) /\ lastPause' \in Places
    BY <1>2, <1>4 DEF OnPaused
  <2> DEFINE on == IF m.reason # "step" \/ pendingStep = None THEN <<>>
                   ELSE Onwards(pendingStep, m.place)
  <2>2. sent' \in Seq(Commands)
    <3>1. on \in Seq(Commands)
      BY CommandTyped DEF Onwards, Moves
    <3> QED BY <1>4, <3>1, SendTyped DEF Typed, OnPaused
  <2>3. pendingStep' \in Steps \cup {None} /\ shown' \in Views
    <3>1. CASE on = <<>>
      BY <1>4, <3>1 DEF Typed, OnPaused, Shows, Views
    <3>2. CASE on # <<>>
      <4>1. pendingStep \in Steps /\ pendingStep.budget # 0
        BY <3>2 DEF Typed, Onwards
      <4>2. Spend(pendingStep) \in Steps
        BY <4>1 DEF Spend, Steps
      <4> QED BY <1>4, <3>2, <4>2 DEF Typed, OnPaused
    <3> QED BY <3>1, <3>2
  <2> QED BY <1>4, <2>1, <2>2, <2>3 DEF Typed, OnPaused, engine
<1>5. CASE OnDestroyed
  <2>1. link' \in Links /\ wire' \in Seq(Messages)
    BY <1>5, CloseTyped DEF Typed, OnDestroyed
  <2> QED BY <1>5, <2>1 DEF Typed, OnDestroyed, engine, stepping, client
<1>6. CASE OnClosed
  <2> DEFINE busy == {r \in Requests : tasks[r] # None}
             planting == {r \in busy : tasks[r].kind = "breakpoints"}
             Of(s) == CHOOSE r \in planting : tasks[r].src = s
  <2>1. tasks' \in [Requests -> Tasks \cup {None}]
    BY <1>6 DEF Typed, OnClosed, RejectAll
  <2>2. ledger' \in [Sources -> Seq(Locations)]
    <3>1. ASSUME NEW s \in Sources, \E r \in planting : tasks[r].src = s
          PROVE  tasks[Of(s)].got \in Seq(Locations)
      <4>1. Of(s) \in planting
        BY <3>1
      <4>2. tasks[Of(s)] \in Tasks
        BY <4>1 DEF Typed
      <4> QED BY <4>2 DEF Tasks
    <3>2. ledger' = [s \in Sources |-> IF \E r \in planting : tasks[r].src = s
                                       THEN tasks[Of(s)].got ELSE ledger[s]]
      BY <1>6 DEF OnClosed
    <3> QED BY <3>1, <3>2 DEF Typed
  <2>3. shown' \in Views /\ up' \in BOOLEAN
    BY <1>6 DEF Typed, OnClosed, Shows, Views
  <2>4. link' \in Links /\ sent' \in Seq(Commands) /\ wire' \in Seq(Messages)
    BY <1>6, Names DEF OnClosed
  <2> QED BY <1>6, <2>1, <2>2, <2>3, <2>4 DEF Typed, OnClosed, engine, stepping
<1>7. CASE OnExit
  <2>1. shown' \in Views /\ exit' \in Exits
    BY <1>7, Names DEF Typed, OnExit, Shows, Views
  <2> QED BY <1>7, <2>1 DEF Typed, OnExit, engine, channel, stepping
<1>8. CASE OnRejection
  <2>1. link' \in Links /\ wire' \in Seq(Messages)
    BY <1>8, CloseTyped DEF Typed, OnRejection
  <2> QED BY <1>8, <2>1 DEF Typed, OnRejection, engine, stepping, client
<1> QED BY <1>1, <1>3, <1>4, <1>5, <1>6, <1>7, <1>8

-----------------------------------------------------------------------------
(* What is underway of one owner: sending, answering, telling, hearing.    *)

LEMMA SendsOne ==
  ASSUME NEW S, NEW s \in Seq(S), NEW M, NEW w \in Seq(M), NEW c \in S, NEW f,
         OneOf(s, w, f), c.for = f => NoneOf(s, w, f)
  PROVE  OneOf(s \o <<c>>, w, f)
BY DEF OneOf, NoneOf

LEMMA AnswersOne ==
  ASSUME NEW S, NEW s \in Seq(S), NEW M, NEW w \in Seq(M), NEW f, NEW ok, s # <<>>,
         OneOf(s, w, f)
  PROVE  OneOf(Tail(s), Append(w, Answer(Head(s).for, ok)), f)
<1> DEFINE m == Answer(Head(s).for, ok)
           v == Append(w, m)
<1>1. \A i \in DOMAIN Tail(s) : i + 1 \in DOMAIN s /\ Tail(s)[i] = s[i + 1] /\ i \in Nat \ {0}
  OBVIOUS
<1>2. /\ \A j \in DOMAIN w : j \in Nat /\ j < Len(w) + 1 /\ v[j] = w[j]
      /\ DOMAIN v = DOMAIN w \cup {Len(w) + 1} /\ v[Len(w) + 1] = m
  OBVIOUS
<1>3. 1 \in DOMAIN s /\ (AnswerFor(m, f) <=> s[1].for = f)
  BY DEF Answer, AnswerFor
<1> HIDE DEF m, v
<1>4. \A i, j \in DOMAIN Tail(s) : Tail(s)[i].for = f /\ Tail(s)[j].for = f => i = j
  BY <1>1 DEF OneOf
<1>5. \A i, j \in DOMAIN v : AnswerFor(v[i], f) /\ AnswerFor(v[j], f) => i = j
  BY <1>2, <1>3 DEF OneOf
<1>6. \A i \in DOMAIN Tail(s), j \in DOMAIN v : Tail(s)[i].for = f => ~AnswerFor(v[j], f)
  BY <1>1, <1>2, <1>3 DEF OneOf
<1> QED BY <1>4, <1>5, <1>6 DEF OneOf, m, v

LEMMA TellsOne ==
  ASSUME NEW S, NEW s \in Seq(S), NEW M, NEW w \in Seq(M), NEW m, NEW f,
         OneOf(s, w, f), m.kind # "answer"
  PROVE  OneOf(s, Append(w, m), f)
BY DEF OneOf, AnswerFor

LEMMA HearsOne ==
  ASSUME NEW S, NEW s \in Seq(S), NEW M, NEW w \in Seq(M), NEW f, w # <<>>, OneOf(s, w, f)
  PROVE  /\ OneOf(s, Tail(w), f)
         /\ AnswerFor(Head(w), f) => NoneOf(s, Tail(w), f)
BY DEF OneOf, NoneOf, AnswerFor

-----------------------------------------------------------------------------
(* What the steps do to it, one at a time.                                 *)

LEMMA Free ==
  ASSUME NEW s \in Seq(Commands), NEW w \in Seq(Messages), NEW ts, NEW l, InStep(s, w, ts, l),
         NEW r \in Requests, ts[r] = None
  PROVE  NoneOf(s, w, r)
BY DEF InStep, NoneOf, Fits

LEMMA Taken ==
  ASSUME NEW s \in Seq(Commands), NEW w \in Seq(Messages), NEW ts, NEW l, InStep(s, w, ts, l),
         s # <<>>, NEW ok
  PROVE  InStep(Tail(s), Append(w, Answer(Head(s).for, ok)), ts, l)
<1> DEFINE m == Answer(Head(s).for, ok)
           v == Append(w, m)
<1>1. \A f \in Requests \cup {"launch"} : OneOf(Tail(s), v, f)
  BY AnswersOne DEF InStep
<1>2. \A i \in DOMAIN Tail(s) : i + 1 \in DOMAIN s /\ Tail(s)[i] = s[i + 1]
  OBVIOUS
<1>3. \A i \in DOMAIN v : (i \in DOMAIN w /\ v[i] = w[i]) \/ v[i] = m
  OBVIOUS
<1>4. 1 \in DOMAIN s /\ s[1] \in Commands /\ Head(s) = s[1]
  OBVIOUS
<1>5. AnswerFor(m, "launch") => l \in SetupStages
  BY <1>4, SetsAssumption, NoneAssumption DEF InStep, Answer, AnswerFor, Commands
<1>6. \A r \in Requests : AnswerFor(m, r) => ts[r] # None
  BY <1>4 DEF InStep, Answer, AnswerFor, Fits
<1> HIDE DEF m, v
<1>7. \A i \in DOMAIN v :
        /\ AnswerFor(v[i], "launch") => l \in SetupStages
        /\ \A r \in Requests : AnswerFor(v[i], r) => ts[r] # None
  BY <1>3, <1>5, <1>6 DEF InStep
<1> QED BY <1>1, <1>2, <1>7 DEF InStep, m, v

LEMMA Told ==
  ASSUME NEW s \in Seq(Commands), NEW w \in Seq(Messages), NEW ts, NEW l, InStep(s, w, ts, l),
         NEW m, m.kind # "answer"
  PROVE  InStep(s, Append(w, m), ts, l)
<1> DEFINE v == Append(w, m)
<1>1. \A f \in Requests \cup {"launch"} : OneOf(s, v, f)
  BY TellsOne DEF InStep
<1>2. \A i \in DOMAIN v : (i \in DOMAIN w /\ v[i] = w[i]) \/ v[i] = m
  OBVIOUS
<1> HIDE DEF v
<1> QED BY <1>1, <1>2 DEF InStep, AnswerFor, v

LEMMA HeardOne ==
  ASSUME NEW s \in Seq(Commands), NEW w \in Seq(Messages), NEW ts, NEW l, InStep(s, w, ts, l),
         w # <<>>
  PROVE  /\ InStep(s, Tail(w), ts, l)
         /\ \A f \in Requests \cup {"launch"} : AnswerFor(Head(w), f) => NoneOf(s, Tail(w), f)
<1>1. \A f \in Requests \cup {"launch"} :
        OneOf(s, Tail(w), f) /\ (AnswerFor(Head(w), f) => NoneOf(s, Tail(w), f))
  BY HearsOne DEF InStep
<1>2. \A i \in DOMAIN Tail(w) : i + 1 \in DOMAIN w /\ Tail(w)[i] = w[i + 1]
  OBVIOUS
<1> QED BY <1>1, <1>2 DEF InStep

LEMMA AskedOne ==
  ASSUME NEW s \in Seq(Commands), NEW w \in Seq(Messages),
         NEW ts \in [Requests -> Tasks \cup {None}], NEW l, InStep(s, w, ts, l),
         NEW r \in Requests, NoneOf(s, w, r), NEW t \in Tasks, Works(r, t),
         NEW c \in Commands, c.for = r, Fits(c, t)
  PROVE  InStep(s \o <<c>>, w, [ts EXCEPT ![r] = t], l)
<1> DEFINE v == s \o <<c>>
           us == [ts EXCEPT ![r] = t]
<1>1. \A f \in Requests \cup {"launch"} : OneOf(v, w, f)
  BY SendsOne DEF InStep
<1>2. \A i \in DOMAIN v : (i \in DOMAIN s /\ v[i] = s[i]) \/ v[i] = c
  OBVIOUS
<1>3. us[r] = t /\ \A q \in Requests \ {r} : us[q] = ts[q]
  OBVIOUS
<1> HIDE DEF v, us
<1>4. \A i \in DOMAIN v :
        /\ v[i].for = "launch" => v[i].what = l
        /\ v[i].for \in Requests => Fits(v[i], us[v[i].for])
        /\ v[i].for = None => v[i].what \in Moves
  <2> TAKE i \in DOMAIN v
  <2>1. CASE v[i] = c
    BY <2>1, <1>3, SetsAssumption, NoneAssumption
  <2>2. CASE i \in DOMAIN s /\ v[i] = s[i]
    <3>1. s[i].for # r
      BY <2>2 DEF NoneOf
    <3> QED BY <2>2, <3>1, <1>3 DEF InStep
  <2> QED BY <1>2, <2>1, <2>2
<1>5. \A i \in DOMAIN w :
        /\ AnswerFor(w[i], "launch") => l \in SetupStages
        /\ \A q \in Requests : AnswerFor(w[i], q) => us[q] # None
  BY <1>3 DEF InStep, NoneOf
<1>6. \A q \in Requests : us[q] # None => Works(q, us[q])
  BY <1>3 DEF InStep
<1> QED BY <1>1, <1>4, <1>5, <1>6 DEF InStep, v, us

LEMMA EndedOne ==
  ASSUME NEW s \in Seq(Commands), NEW w \in Seq(Messages),
         NEW ts \in [Requests -> Tasks \cup {None}], NEW l, InStep(s, w, ts, l),
         NEW r \in Requests, NoneOf(s, w, r)
  PROVE  InStep(s, w, [ts EXCEPT ![r] = None], l)
<1> DEFINE us == [ts EXCEPT ![r] = None]
<1>1. us[r] = None /\ \A q \in Requests \ {r} : us[q] = ts[q]
  OBVIOUS
<1> HIDE DEF us
<1> QED BY <1>1 DEF InStep, NoneOf, us

LEMMA MovedOne ==
  ASSUME NEW s \in Seq(Commands), NEW w \in Seq(Messages), NEW ts, NEW l, InStep(s, w, ts, l),
         NEW c \in Commands, c.for = None, c.what \in Moves
  PROVE  InStep(s \o <<c>>, w, ts, l)
<1> DEFINE v == s \o <<c>>
<1>1. \A f \in Requests \cup {"launch"} : OneOf(v, w, f)
  BY SendsOne, NoneAssumption DEF InStep
<1>2. \A i \in DOMAIN v : (i \in DOMAIN s /\ v[i] = s[i]) \/ v[i] = c
  OBVIOUS
<1> HIDE DEF v
<1> QED BY <1>1, <1>2, NoneAssumption DEF InStep, v

LEMMA LaunchedOn ==
  ASSUME NEW s \in Seq(Commands), NEW w \in Seq(Messages), NEW ts, NEW l, InStep(s, w, ts, l),
         NoneOf(s, w, "launch"), NEW next
  PROVE  /\ InStep(s, w, ts, next)
         /\ next \in SetupStages => InStep(s \o <<Command("launch", next, None)>>, w, ts, next)
<1>1. InStep(s, w, ts, next)
  BY DEF InStep, NoneOf
<1>2. ASSUME next \in SetupStages
      PROVE  InStep(s \o <<Command("launch", next, None)>>, w, ts, next)
  <2> DEFINE c == Command("launch", next, None)
             v == s \o <<c>>
  <2>1. c \in Commands /\ c.for = "launch" /\ c.what = next
    BY <1>2 DEF Command, Commands
  <2> HIDE DEF c
  <2>2. \A f \in Requests \cup {"launch"} : OneOf(v, w, f)
    BY <2>1, SendsOne DEF InStep
  <2>3. \A i \in DOMAIN v : (i \in DOMAIN s /\ v[i] = s[i]) \/ v[i] = c
    OBVIOUS
  <2> HIDE DEF v
  <2>4. InStep(v, w, ts, next)
    BY <1>1, <1>2, <2>1, <2>2, <2>3, SetsAssumption, NoneAssumption DEF InStep
  <2> QED BY <2>4 DEF v, c
<1> QED BY <1>1, <1>2

-----------------------------------------------------------------------------
\* Every step keeps commands, answers and handlers in step.
LEMMA ChannelsEngine ==
  ASSUME Typed, Channels, EngineTakes
  PROVE  Channels'
<1>1. link' = link /\ launch' = launch /\ link # "none" /\ tasks' = tasks
  BY DEF EngineTakes, Channels
<1>2. CASE link = "open"
  <2>1. Connected'
    BY <1>1, <1>2, Taken DEF Typed, Channels, Connected, EngineTakes, Tell
  <2> QED BY <1>1, <1>2, <2>1 DEF Channels
<1>3. CASE link # "open"
  BY <1>1, <1>3 DEF Channels, EngineTakes, Tell
<1> QED BY <1>2, <1>3

LEMMA ChannelsProgram ==
  ASSUME Typed, Channels,
         \/ \E place \in Places : Lands(place) \/ Hits(place)
         \/ Ends \/ Dies \/ Detaches
  PROVE  Channels'
<1>1. ASSUME NEW m, m.kind # "answer", Tell(m), UNCHANGED <<link, sent, launch, tasks>>, link # "none"
      PROVE  Channels'
  <2>1. CASE link = "open"
    <3>1. Connected'
      BY <1>1, <2>1, Told DEF Typed, Channels, Connected, Tell
    <3> QED BY <1>1, <2>1, <3>1 DEF Channels
  <2>2. CASE link # "open"
    BY <1>1, <2>2 DEF Channels, Tell
  <2> QED BY <2>1, <2>2
<1>2. CASE \E place \in Places : Lands(place) \/ Hits(place)
  <2>1. PICK place \in Places, reason \in {"step", "breakpoint", "exception"} : Stops(reason, place)
    BY <1>2 DEF Lands, Hits
  <2>2. Paused(reason, place).kind # "answer"
    BY DEF Paused
  <2> QED BY <1>1, <2>1, <2>2 DEF Stops, Attached
<1>3. CASE Ends
  <2>1. Event("destroyed").kind # "answer"
    BY DEF Event
  <2>2. CASE Attached
    BY <1>1, <1>3, <2>1, <2>2 DEF Ends, Attached
  <2>3. CASE ~Attached
    BY <1>3, <2>3 DEF Ends, Attached, Channels
  <2> QED BY <2>2, <2>3
<1>4. CASE Dies
  <2>1. Event("closed").kind = "closed"
    BY DEF Event
  <2>2. CASE link = "open"
    BY <1>1, <1>4, <2>1, <2>2 DEF Dies, Attached, Tell
  <2>3. CASE link # "open"
    <3>1. link' = link /\ launch' = launch /\ sent' = sent /\ tasks' = tasks /\ planted' = {}
          /\ debuggee' = debuggee /\ ledger' = ledger
      BY <1>4 DEF Dies
    <3>2. CASE Attached
      <4>1. wire = <<>> /\ wire' = Append(wire, Event("closed")) /\ link # "none"
        BY <1>4, <2>3, <3>2 DEF Dies, Attached
      <4>2. \A i \in DOMAIN wire' : wire'[i] = Event("closed")
        BY <4>1
      <4> QED BY <2>1, <2>3, <3>1, <4>1, <4>2 DEF Channels
    <3>3. CASE ~Attached
      BY <1>4, <2>3, <3>1, <3>3 DEF Dies, Channels
    <3> QED BY <3>2, <3>3
  <2> QED BY <2>2, <2>3
<1>5. CASE Detaches
  BY <1>5 DEF Detaches, Channels, Event
<1> QED BY <1>2, <1>3, <1>4, <1>5

LEMMA ChannelsLaunch ==
  ASSUME Typed, Channels,
         \/ LaunchRequest \/ Announces \/ LaunchFails \/ Connects
         \/ \E ok \in BOOLEAN : Compiled(ok)
  PROVE  Channels'
<1>1. CASE \/ LaunchRequest \/ Announces \/ LaunchFails
           \/ \E ok \in BOOLEAN : Compiled(ok)
  <2>1. /\ launch \in Unconnected /\ launch' \in Unconnected
        /\ UNCHANGED <<link, sent, wire, planted, debuggee, tasks, ledger>>
    BY <1>1 DEF LaunchRequest, Announces, LaunchFails, Compiled, Unconnected, engine, channel
  <2> QED BY <2>1 DEF Channels
<1>2. CASE Connects
  <2>1. /\ link = "none" /\ wire = <<>> /\ wire' = wire /\ tasks' = [r \in Requests |-> None]
        /\ launch' = "enableRuntime" /\ link' = "open"
        /\ sent' = <<Command("launch", "enableRuntime", None)>>
    BY <1>2 DEF Connects, Channels, Unconnected
  <2>2. /\ 1 \in DOMAIN sent' /\ \A i \in DOMAIN sent' : i = 1
        /\ sent'[1].for = "launch" /\ sent'[1].what = "enableRuntime"
    BY <2>1 DEF Command
  <2>3. Connected'
    BY <2>1, <2>2, SetsAssumption, NoneAssumption DEF Connected, InStep, OneOf, SetupStages
  <2> QED BY <2>1, <2>3 DEF Channels, Unconnected
<1> QED BY <1>1, <1>2

LEMMA AwaitsChannels ==
  ASSUME Typed, Channels, NEW r \in Requests,
         NEW kind \in {"runOn", "configuration", "pause"}, NEW what \in Moves \cup {"pause"},
         what \in Moves <=> kind # "pause",
         Awaits(r, kind, what), UNCHANGED <<link, wire, planted, launch, debuggee, ledger>>
  PROVE  Channels'
<1>1. CASE debuggee /\ link = "open"
  <2> DEFINE c == Command(r, what, None)
  <2>1. c \in Commands /\ c.for = r /\ c.what = what
    BY DEF Command, Commands
  <2>2. /\ Plain(kind) \in Tasks /\ Works(r, Plain(kind)) /\ Fits(c, Plain(kind))
    BY <2>1, PlainTyped DEF Works, Fits, Planters, Moves
  <2>3. tasks[r] = None /\ tasks' = [tasks EXCEPT ![r] = Plain(kind)] /\ sent' = sent \o <<c>>
    BY <1>1 DEF Awaits, Send
  <2> HIDE DEF c
  <2>4. NoneOf(sent, wire, r) /\ InStep(sent, wire, tasks, launch)
    BY <1>1, <2>3, Free DEF Typed, Channels, Connected
  <2>5. Connected'
    BY <2>1, <2>2, <2>3, <2>4, AskedOne DEF Typed, Connected
  <2> QED BY <1>1, <2>5 DEF Channels
<1>2. CASE ~(debuggee /\ link = "open")
  <2>1. UNCHANGED <<sent, tasks>>
    BY <1>2 DEF Awaits
  <2> QED BY <1>2, <2>1 DEF Channels, Connected
<1> QED BY <1>1, <1>2

LEMMA GoOnChannels ==
  ASSUME Typed, Channels, link # "none", UNCHANGED <<link, launch>>,
         NEW r \in Requests, NEW t \in Tasks, t.kind = "breakpoints", t.src \in Sources,
         wire' \in Seq(Messages), link # "open" => wire' = wire,
         link = "open" => InStep(sent, wire', tasks, launch) /\ NoneOf(sent, wire', r),
         BreakpointsGoOn(r, t)
  PROVE  Channels'
<1>1. CASE link = "open" /\ NextOf(r, t) # <<>>
  <2>1. NextOf(r, t) = <<Head(NextOf(r, t))>> /\ Head(NextOf(r, t)).for = r
    BY <1>1 DEF NextOf, Command
  <2> DEFINE c == Head(NextOf(r, t))
  <2>2. tasks' = [tasks EXCEPT ![r] = t] /\ sent' = sent \o <<c>>
    BY <1>1, <2>1 DEF BreakpointsGoOn, Send
  <2>3. Works(r, t) /\ Fits(c, t)
    BY <1>1, <2>1, NoneAssumption DEF Works, Fits
  <2>4. c \in Commands
    <3>1. NextOf(r, t) \in Seq(Commands)
      BY NextTyped
    <3> QED BY <1>1, <3>1
  <2> HIDE DEF c
  <2>5. Connected'
    BY <1>1, <2>1, <2>2, <2>3, <2>4, AskedOne DEF Typed, Connected, c
  <2> QED BY <1>1, <2>5 DEF Channels
<1>2. CASE link = "open" /\ NextOf(r, t) = <<>>
  <2>1. tasks' = [tasks EXCEPT ![r] = None] /\ sent' = sent
    BY <1>2 DEF BreakpointsGoOn, Send, Typed
  <2>2. Connected'
    BY <1>2, <2>1, EndedOne DEF Typed, Connected
  <2> QED BY <1>2, <2>2 DEF Channels
<1>3. CASE link # "open"
  BY <1>3 DEF Channels
<1> QED BY <1>1, <1>2, <1>3

LEMMA CloseChannels ==
  ASSUME Typed, Channels, link # "none", Close, UNCHANGED launch
  PROVE  Channels'
<1>1. link' \in {"closing", "closed"} /\ \A i \in DOMAIN wire' : wire'[i].kind = "closed"
  BY DEF Close, Typed, Links, Event
<1> QED BY <1>1 DEF Channels

LEMMA ChannelsRequests ==
  ASSUME Typed, Channels, NEW r \in Requests,
         \/ \E kind \in DOMAIN How : StepRequest(r, kind)
         \/ ContinueRequest(r) \/ PauseRequest(r) \/ ConfigurationDone(r) \/ Evaluate(r)
         \/ \E s \in Sources, lines \in Wanted : SetBreakpoints(r, s, lines)
  PROVE  Channels'
<1>0. {"stepOver", "stepInto", "stepOut", "resume"} = Moves /\ "pause" \notin Moves
      /\ "evaluate" \notin Moves
  BY DEF Moves
<1>1. ASSUME NEW kind \in DOMAIN How, StepRequest(r, kind)
      PROVE  Channels'
  <2>1. How[kind] \in Moves
    BY DEF How, Moves
  <2> QED BY <1>0, <1>1, <2>1, AwaitsChannels DEF StepRequest, engine
<1>2. CASE ContinueRequest(r)
  BY <1>0, <1>2, AwaitsChannels DEF ContinueRequest, engine
<1>3. CASE PauseRequest(r)
  BY <1>0, <1>3, AwaitsChannels DEF PauseRequest, engine
<1>4. CASE ConfigurationDone(r)
  <2>1. UNCHANGED <<link, wire, planted, launch, debuggee, ledger>>
    BY <1>4 DEF ConfigurationDone, engine
  <2>2. CASE ~debuggee
    <3>1. UNCHANGED <<sent, tasks>>
      BY <1>4, <2>2 DEF ConfigurationDone
    <3> QED BY <2>1, <3>1 DEF Channels, Connected
  <2>3. CASE Awaits(r, "configuration", "stepInto") \/ Awaits(r, "configuration", "resume")
    BY <1>0, <2>1, <2>3, AwaitsChannels
  <2> QED BY <1>4, <2>2, <2>3 DEF ConfigurationDone
<1>5. CASE Evaluate(r)
  <2>1. UNCHANGED <<link, wire, planted, launch, debuggee, ledger>> /\ debuggee /\ tasks[r] = None
    BY <1>5 DEF Evaluate, engine
  <2>2. CASE link = "open"
    <3> DEFINE c == Command(r, "evaluate", None)
    <3>1. c \in Commands /\ c.for = r /\ c.what = "evaluate"
      BY DEF Command, Commands
    <3>2. Plain("evaluate") \in Tasks /\ Works(r, Plain("evaluate")) /\ Fits(c, Plain("evaluate"))
      BY <1>0, <3>1, PlainTyped DEF Works, Fits, Planters
    <3>3. tasks' = [tasks EXCEPT ![r] = Plain("evaluate")] /\ sent' = sent \o <<c>>
      BY <1>5, <2>2 DEF Evaluate, Send
    <3> HIDE DEF c
    <3>4. NoneOf(sent, wire, r) /\ InStep(sent, wire, tasks, launch)
      BY <2>1, <2>2, Free DEF Typed, Channels, Connected
    <3>5. Connected'
      BY <2>1, <3>1, <3>2, <3>3, <3>4, AskedOne DEF Typed, Connected
    <3> QED BY <2>1, <2>2, <3>5 DEF Channels
  <2>3. CASE link # "open"
    <3>1. UNCHANGED <<sent, tasks>>
      BY <1>5, <2>3 DEF Evaluate
    <3> QED BY <2>1, <3>1 DEF Channels, Connected
  <2> QED BY <2>2, <2>3
<1>6. ASSUME NEW s \in Sources, NEW lines \in Wanted, SetBreakpoints(r, s, lines)
      PROVE  Channels'
  <2> DEFINE t == [kind |-> "breakpoints", src |-> s, old |-> ledger[s],
                   wanted |-> lines, got |-> <<>>]
  <2>0. UNCHANGED <<link, wire, planted, launch, debuggee>> /\ tasks[r] = None
    BY <1>6 DEF SetBreakpoints, engine
  <2>1. t \in Tasks /\ t.src \in Sources /\ t.kind = "breakpoints"
    BY SetsAssumption DEF Typed, Tasks
  <2>2. CASE debuggee
    <3>1. link # "none" /\ BreakpointsGoOn(r, t)
      BY <1>6, <2>2 DEF SetBreakpoints, Channels
    <3>2. link = "open" => InStep(sent, wire', tasks, launch) /\ NoneOf(sent, wire', r)
      BY <2>0, Free DEF Typed, Channels, Connected
    <3>3. wire' \in Seq(Messages)
      BY <2>0 DEF Typed
    <3> HIDE DEF t
    <3> QED BY <2>0, <2>1, <3>1, <3>2, <3>3, GoOnChannels
  <2>3. CASE ~debuggee
    BY <1>6, <2>0, <2>3 DEF SetBreakpoints, Channels, Connected
  <2> QED BY <2>2, <2>3
<1> QED BY <1>1, <1>2, <1>3, <1>4, <1>5, <1>6

LEMMA ChannelsDisconnect ==
  ASSUME Typed, Channels, Disconnect
  PROVE  Channels'
<1>1. UNCHANGED <<launch, planted, sent, tasks, ledger>> /\ debuggee' = FALSE
  BY DEF Disconnect, engine
<1>2. CASE debuggee
  <2>1. Close /\ link # "none"
    BY <1>2 DEF Disconnect, Channels
  <2> QED BY <1>1, <2>1, CloseChannels
<1>3. CASE ~debuggee
  <2>1. UNCHANGED <<link, wire>>
    BY <1>3 DEF Disconnect
  <2> QED BY <1>1, <2>1 DEF Channels, Connected
<1> QED BY <1>2, <1>3

LEMMA ChannelsHears ==
  ASSUME Typed, Channels,
         OnAnswer \/ OnRejection \/ OnEntryPause \/ OnPaused \/ OnDestroyed \/ OnClosed \/ OnExit
  PROVE  Channels'
<1> DEFINE m == Head(wire)
<1>0. ASSUME Heard
      PROVE  /\ 1 \in DOMAIN wire /\ m = wire[1] /\ m \in Messages
             /\ wire # <<>> /\ Tail(wire) \in Seq(Messages)
             /\ link # "none" /\ launch \notin Unconnected
             /\ m.kind # "closed" => link = "open"
  BY <1>0 DEF Typed, Channels, Heard
<1>1. CASE OnAnswer
  <2>0. /\ 1 \in DOMAIN wire /\ m = wire[1] /\ m \in Messages /\ wire # <<>>
        /\ m.kind = "answer" /\ wire' = Tail(wire) /\ wire' \in Seq(Messages)
        /\ link = "open" /\ launch \notin Unconnected
        /\ UNCHANGED <<link, planted, debuggee>>
    BY <1>0, <1>1 DEF OnAnswer, engine
  <2>1. /\ InStep(sent, wire', tasks, launch)
        /\ \A f \in Requests \cup {"launch"} : AnswerFor(m, f) => NoneOf(sent, wire', f)
    BY <2>0, HeardOne DEF Typed, Channels, Connected
  <2>2. CASE AnswersLaunch(m)
    <3>1. launch \in SetupStages /\ NoneOf(sent, wire', "launch")
      BY <2>0, <2>1, <2>2, Listening DEF AnswersLaunch, AnswerFor
    <3>2. /\ DOMAIN Setup = SetupStages
          /\ Setup[launch] \in SetupStages \cup {"entryPause"}
      BY <3>1 DEF Setup, SetupStages
    <3>3. tasks' = tasks /\ launch' \in SetupStages \cup {"entryPause", "done"}
      BY <2>2, <3>2 DEF AnswersLaunch
    <3>4. IF Setup[launch] \in SetupStages
          THEN launch' = Setup[launch]
               /\ sent' = sent \o <<Command("launch", Setup[launch], None)>>
          ELSE sent' = sent
      BY <2>0, <2>2, <3>2 DEF AnswersLaunch, Send
    <3>5. InStep(sent', wire', tasks', launch')
      <4>1. sent \in Seq(Commands) BY DEF Typed
      <4>2. CASE Setup[launch] \in SetupStages
        BY <2>0, <2>1, <3>1, <3>3, <3>4, <4>1, <4>2, LaunchedOn
      <4>3. CASE Setup[launch] \notin SetupStages
        BY <2>0, <2>1, <3>1, <3>3, <3>4, <4>1, <4>3, LaunchedOn
      <4> QED BY <4>2, <4>3
    <3>6. launch' \notin Unconnected
      BY <3>3 DEF SetupStages, Unconnected
    <3> QED BY <2>0, <3>5, <3>6 DEF Channels, Connected
  <2>3. CASE AnswersTask(m)
    <3> DEFINE r == m.for
               t == tasks[r]
    <3>1. r \in Requests /\ t \in Tasks /\ m.ok \in BOOLEAN /\ NoneOf(sent, wire', r)
          /\ launch' = launch
      <4>1. m.ok \in BOOLEAN
        BY <2>0 DEF Messages
      <4>2. r \in Requests /\ launch' = launch
        BY <2>3 DEF AnswersTask
      <4>3. AnswerFor(m, r)
        BY <2>0, <4>2 DEF AnswerFor
      <4>4. t \in Tasks
        BY <2>0, <4>2, <4>3, Listening
      <4> QED BY <2>1, <4>1, <4>2, <4>3, <4>4
    <3>2. CASE t.kind = "breakpoints"
      <4>1. t.src \in Sources /\ NextOf(r, t) # <<>>
        BY <2>0, <3>1, <3>2, NoneAssumption DEF Channels, Connected, InStep, Works
      <4>2. BreakpointsGoOn(r, Answered(t, m.ok))
        BY <2>3, <3>2 DEF AnswersTask, Answered
      <4>3. /\ Answered(t, m.ok) \in Tasks /\ Answered(t, m.ok).kind = "breakpoints"
            /\ Answered(t, m.ok).src \in Sources
        BY <3>1, <3>2, <4>1, AnsweredTyped
      <4> HIDE DEF m
      <4> QED BY <2>0, <2>1, <3>1, <4>2, <4>3, GoOnChannels
    <3>3. CASE t.kind # "breakpoints"
      <4>1. tasks' = [tasks EXCEPT ![r] = None] /\ sent' = sent
        BY <2>3, <3>3 DEF AnswersTask
      <4>2. Connected'
        BY <2>0, <2>1, <3>1, <4>1, EndedOne DEF Typed, Connected
      <4> QED BY <2>0, <3>1, <4>2 DEF Channels
    <3> QED BY <3>2, <3>3
  <2>4. CASE AnswersNobody(m)
    BY <2>0, <2>1, <2>4 DEF AnswersNobody, Channels, Connected
  <2> QED BY <1>1, <2>2, <2>3, <2>4 DEF OnAnswer
<1>2. CASE OnEntryPause
  <2>1. /\ wire # <<>> /\ link = "open" /\ wire' = Tail(wire) /\ launch \notin Unconnected
        /\ UNCHANGED <<link, sent, tasks>> /\ wire' \in Seq(Messages)
    BY <1>0, <1>2 DEF OnEntryPause
  <2>2. launch' = launch \/ (launch = "entryPause" /\ launch' = "done")
    BY <1>2 DEF OnEntryPause
  <2>3. InStep(sent, wire', tasks, launch)
    BY <2>1, HeardOne DEF Typed, Channels, Connected
  <2>4. InStep(sent, wire', tasks, launch')
    <3>1. CASE launch' = launch
      BY <2>3, <3>1
    <3>2. CASE launch = "entryPause"
      <4>1. \A i \in DOMAIN sent : sent[i].for # "launch"
        <5>1. \A i \in DOMAIN sent : sent[i] \in Commands
          BY DEF Typed
        <5> QED BY <2>3, <3>2, <5>1, SetsAssumption, NoneAssumption DEF InStep, Commands, SetupStages
      <4>2. NoneOf(sent, wire', "launch")
        BY <2>3, <3>2, <4>1 DEF InStep, NoneOf, SetupStages
      <4> QED BY <2>1, <2>3, <4>2, LaunchedOn DEF Typed
    <3> QED BY <2>2, <3>1, <3>2
  <2> QED BY <2>1, <2>2, <2>4 DEF Channels, Connected, Unconnected
<1>3. CASE OnPaused
  <2>1. /\ wire # <<>> /\ link = "open" /\ wire' = Tail(wire)
        /\ UNCHANGED <<link, launch, tasks>>
    BY <1>0, <1>3 DEF OnPaused
  <2>2. InStep(sent, wire', tasks, launch) /\ wire' \in Seq(Messages)
    BY <2>1, HeardOne DEF Typed, Channels, Connected
  <2> DEFINE on == IF m.reason # "step" \/ pendingStep = None THEN <<>>
                   ELSE Onwards(pendingStep, m.place)
  <2>3. Send(on) /\ sent' = sent \o on
    BY <1>3, <2>1 DEF OnPaused, Send
  <2>4. on = <<>> \/ \E what \in Moves : on = <<Command(None, what, None)>>
    BY DEF Onwards, Moves
  <2>5. InStep(sent', wire', tasks, launch)
    <3>1. CASE on = <<>>
      <4>1. sent \o <<>> = sent
        BY DEF Typed
      <4> HIDE DEF on
      <4> QED BY <2>2, <2>3, <3>1, <4>1
    <3>2. ASSUME NEW what \in Moves, on = <<Command(None, what, None)>>
          PROVE  InStep(sent', wire', tasks, launch)
      <4>1. /\ Command(None, what, None) \in Commands
            /\ Command(None, what, None).for = None /\ Command(None, what, None).what = what
        BY DEF Commands, Command
      <4> HIDE DEF on
      <4> QED BY <2>2, <2>3, <3>2, <4>1, MovedOne DEF Typed
    <3> QED BY <2>4, <3>1, <3>2
  <2> QED BY <2>1, <2>5 DEF Channels, Connected
<1>4. CASE OnDestroyed
  BY <1>0, <1>4, CloseChannels DEF OnDestroyed
<1>5. CASE OnClosed
  <2>1. link' = "closed" /\ wire' = <<>> /\ launch' = launch /\ link # "none"
    BY <1>0, <1>5 DEF OnClosed
  <2> QED BY <2>1 DEF Channels
<1>6. CASE OnExit
  BY <1>6 DEF OnExit, Channels, Connected, engine, channel
<1>7. CASE OnRejection
  BY <1>0, <1>7, CloseChannels DEF OnRejection
<1> QED BY <1>1, <1>2, <1>3, <1>4, <1>5, <1>6, <1>7

Inv == Typed /\ Channels

LEMMA InvInit == Init => Inv
<1> SUFFICES ASSUME Init
             PROVE  Inv
  OBVIOUS
<1>1. Typed
  <2>1. "none" \in Launches /\ shown \in Views
    BY DEF Init, Launches, Unconnected, Views
  <2>2. tasks \in [Requests -> Tasks \cup {None}] /\ ledger \in [Sources -> Seq(Locations)]
    BY DEF Init
  <2>3. sent \in Seq(Commands) /\ wire \in Seq(Messages)
    BY DEF Init
  <2> QED BY <2>1, <2>2, <2>3, Names DEF Init, Typed
<1>2. Channels
  BY DEF Init, Channels, Unconnected
<1> QED BY <1>1, <1>2 DEF Inv

LEMMA InvNext == Inv /\ [Next]_vars => Inv'
<1> SUFFICES ASSUME Inv, [Next]_vars
             PROVE  Inv'
  OBVIOUS
<1>1. CASE EngineTakes
  BY <1>1, TypedEngine, ChannelsEngine DEF Inv
<1>2. CASE Ends \/ Dies \/ Detaches \/ \E place \in Places : Lands(place) \/ Hits(place)
  BY <1>2, TypedProgram, ChannelsProgram DEF Inv
<1>3. CASE \/ LaunchRequest \/ Announces \/ LaunchFails \/ Connects
           \/ \E ok \in BOOLEAN : Compiled(ok)
  BY <1>3, TypedLaunch, ChannelsLaunch DEF Inv
<1>4. ASSUME NEW r \in Requests,
             \/ \E kind \in DOMAIN How : StepRequest(r, kind)
             \/ ContinueRequest(r) \/ PauseRequest(r) \/ ConfigurationDone(r) \/ Evaluate(r)
             \/ \E s \in Sources, lines \in Wanted : SetBreakpoints(r, s, lines)
      PROVE  Inv'
  BY <1>4, TypedRequests, ChannelsRequests DEF Inv
<1>5. CASE Disconnect
  BY <1>5, TypedDisconnect, ChannelsDisconnect DEF Inv
<1>6. CASE OnAnswer \/ OnRejection \/ OnEntryPause \/ OnPaused \/ OnDestroyed \/ OnClosed \/ OnExit
  BY <1>6, TypedHears, ChannelsHears DEF Inv
<1>7. CASE UNCHANGED vars
  BY <1>7 DEF Inv, Typed, Channels, Connected, vars, engine, channel, stepping, client
<1> QED BY <1>1, <1>2, <1>3, <1>4, <1>5, <1>6, <1>7 DEF Next

\* Whatever crosses, every command has the handler that awaits it, every answer
\* finds it at the very command it answers, and no handler has two underway.
THEOREM AnswersFindTheirHandlers == Spec => [](Typed /\ Channels)
<1>1. Inv /\ [Next]_vars => Inv'
  BY InvNext
<1>2. Inv <=> Typed /\ Channels
  BY DEF Inv
<1> QED BY <1>1, <1>2, InvInit, PTL DEF Spec

-----------------------------------------------------------------------------
(* The ledger and the engine.                                              *)

Elements(q) == {q[i] : i \in DOMAIN q}
Once(q) == \A i, j \in DOMAIN q : q[i] = q[j] => i = j
Held(s, set) == {at \in set : at[1] = s}
Busy(s, ts) == {r \in Requests : ts[r] # None /\ ts[r].src = s}
Answers(w, r) == {w[i] : i \in {j \in DOMAIN w : AnswerFor(w[j], r)}}

\* What the engine holds of the source that a handler is at work on: what the
\* handler knows of, but for the command that it has not heard of yet.
Midway(t, held, answers, listed) ==
  LET at == <<t.src, Head(t.wanted)>>
  IN /\ Once(t.old) /\ Once(t.got)
     /\ Elements(t.old) \subseteq {t.src} \X Lines /\ Elements(t.got) \subseteq {t.src} \X Lines
     /\ IF t.old # <<>>
        THEN t.got = <<>> /\ held = Elements(IF answers = {} THEN t.old ELSE Tail(t.old))
        ELSE /\ listed = <<>>
             /\ IF \E m \in answers : m.ok
                THEN at \notin Elements(t.got) /\ held = Elements(t.got) \cup {at}
                ELSE held = Elements(t.got)

Account(s, held, w, ts, listed) ==
  /\ Once(listed) /\ Elements(listed) \subseteq {s} \X Lines
  /\ Busy(s, ts) = {} => held = Elements(listed)
  /\ \A r \in Busy(s, ts) : Midway(ts[r], held, Answers(w, r), listed)

Books ==
  link = "open" /\ Alive =>
    \A s \in Sources : Account(s, Held(s, planted), wire, tasks, ledger[s])

LEMMA AnswersAppend ==
  ASSUME NEW S, NEW w \in Seq(S), NEW m, NEW r
  PROVE  Answers(Append(w, m), r) = Answers(w, r) \cup (IF AnswerFor(m, r) THEN {m} ELSE {})
<1> DEFINE v == Append(w, m)
<1>1. /\ DOMAIN v = DOMAIN w \cup {Len(w) + 1} /\ v[Len(w) + 1] = m
      /\ \A i \in DOMAIN w : v[i] = w[i]
  OBVIOUS
<1> HIDE DEF v
<1>2. Answers(v, r) = Answers(w, r) \cup (IF AnswerFor(m, r) THEN {m} ELSE {})
  BY <1>1 DEF Answers
<1> QED BY <1>2 DEF v

LEMMA AnswersTail ==
  ASSUME NEW S, NEW w \in Seq(S), NEW r, w # <<>>, ~AnswerFor(Head(w), r)
  PROVE  Answers(Tail(w), r) = Answers(w, r)
<1> DEFINE v == Tail(w)
<1>1. /\ \A i \in DOMAIN v : i + 1 \in DOMAIN w /\ v[i] = w[i + 1]
      /\ \A i \in DOMAIN w : i = 1 \/ (i - 1 \in DOMAIN v /\ v[i - 1] = w[i])
      /\ w[1] = Head(w)
  OBVIOUS
<1> HIDE DEF v
<1>2. \A x : x \in Answers(v, r) <=> \E i \in DOMAIN v : v[i] = x /\ AnswerFor(x, r)
  BY DEF Answers
<1>3. \A x : x \in Answers(w, r) <=> \E i \in DOMAIN w : w[i] = x /\ AnswerFor(x, r)
  BY DEF Answers
<1>4. ASSUME NEW x \in Answers(v, r) PROVE x \in Answers(w, r)
  <2>1. PICK i \in DOMAIN v : v[i] = x /\ AnswerFor(x, r) BY <1>2
  <2>2. i + 1 \in DOMAIN w /\ w[i + 1] = x BY <1>1, <2>1
  <2> QED BY <1>3, <2>1, <2>2
<1>5. ASSUME NEW x \in Answers(w, r) PROVE x \in Answers(v, r)
  <2>1. PICK i \in DOMAIN w : w[i] = x /\ AnswerFor(x, r) BY <1>3
  <2>2. i # 1 BY <1>1, <2>1
  <2>3. i - 1 \in DOMAIN v /\ v[i - 1] = x BY <1>1, <2>1, <2>2
  <2> QED BY <1>2, <2>1, <2>3
<1> QED BY <1>4, <1>5 DEF v

LEMMA AnswersNone ==
  ASSUME NEW s, NEW w, NEW r, NoneOf(s, w, r)
  PROVE  Answers(w, r) = {}
BY DEF NoneOf, Answers

LEMMA AnswersHead ==
  ASSUME NEW S, NEW s, NEW w \in Seq(S), NEW r, w # <<>>, OneOf(s, w, r), AnswerFor(Head(w), r)
  PROVE  Answers(w, r) = {Head(w)}
<1>1. 1 \in DOMAIN w /\ Head(w) = w[1]
  OBVIOUS
<1> QED BY <1>1 DEF OneOf, Answers

LEMMA SameAccount ==
  ASSUME NEW s, NEW held, NEW w, NEW v, NEW ts, NEW us, NEW listed,
         Account(s, held, w, ts, listed),
         Busy(s, us) = Busy(s, ts),
         \A r \in Busy(s, ts) : us[r] = ts[r] /\ Answers(v, r) = Answers(w, r)
  PROVE  Account(s, held, v, us, listed)
BY DEF Account

LEMMA AtMostOne ==
  ASSUME NEW P, IsFiniteSet(P), Cardinality(P) <= 1, NEW a \in P, NEW b \in P
  PROVE  a = b
<1> SUFFICES ASSUME a # b
             PROVE  FALSE
  OBVIOUS
<1>1. IsFiniteSet({b}) /\ Cardinality({b}) = 1
  BY FS_Singleton
<1>2. Cardinality({b} \cup {a}) = 2
  BY <1>1, FS_AddElement
<1>3. Cardinality({b} \cup {a}) <= Cardinality(P)
  BY FS_Subset
<1>4. Cardinality(P) \in Nat
  BY FS_CardinalityType
<1> QED BY <1>2, <1>3, <1>4

LEMMA OnePlanter ==
  ASSUME OneByOne, NEW s \in Sources, NEW r \in Busy(s, tasks)
  PROVE  Busy(s, tasks) = {r}
<1>1. Busy(s, tasks) = Planting(s)
  BY DEF Busy, Planting
<1>2. IsFiniteSet(Planting(s))
  BY SetsAssumption, FS_Subset DEF Planting
<1>3. Cardinality(Planting(s)) <= 1
  BY DEF OneByOne
<1> QED BY <1>1, <1>2, <1>3, AtMostOne

LEMMA ElementsAppend ==
  ASSUME NEW S, NEW q \in Seq(S), NEW x
  PROVE  /\ Elements(Append(q, x)) = Elements(q) \cup {x}
         /\ Once(q) /\ x \notin Elements(q) => Once(Append(q, x))
<1> DEFINE v == Append(q, x)
<1>1. /\ DOMAIN v = DOMAIN q \cup {Len(q) + 1} /\ v[Len(q) + 1] = x
      /\ \A i \in DOMAIN q : v[i] = q[i]
  OBVIOUS
<1> HIDE DEF v
<1>2. Elements(v) = Elements(q) \cup {x}
  BY <1>1 DEF Elements
<1>3. Once(q) /\ x \notin Elements(q) => Once(v)
  BY <1>1 DEF Elements, Once
<1> QED BY <1>2, <1>3 DEF v

LEMMA ElementsTail ==
  ASSUME NEW S, NEW q \in Seq(S), q # <<>>, Once(q)
  PROVE  /\ Elements(Tail(q)) = Elements(q) \ {Head(q)} /\ Once(Tail(q))
         /\ Head(q) \in Elements(q)
<1> DEFINE v == Tail(q)
<1>1. /\ \A i \in DOMAIN v : i \in Nat \ {0} /\ i + 1 \in DOMAIN q /\ v[i] = q[i + 1]
      /\ \A i \in DOMAIN q : i = 1 \/ (i - 1 \in DOMAIN v /\ v[i - 1] = q[i])
      /\ 1 \in DOMAIN q /\ q[1] = Head(q)
  OBVIOUS
<1> HIDE DEF v
<1>2. \A x : x \in Elements(v) <=> x \in Elements(q) /\ x # Head(q)
  BY <1>1 DEF Elements, Once
<1>3. Once(v)
  <2>1. ASSUME NEW i \in DOMAIN v, NEW j \in DOMAIN v, v[i] = v[j]
        PROVE  i = j
    <3>1. q[i + 1] = q[j + 1]
      BY <1>1, <2>1
    <3>2. i + 1 = j + 1
      BY <1>1, <3>1 DEF Once
    <3> QED BY <1>1, <3>2
  <2> QED BY <2>1 DEF Once
<1> QED BY <1>1, <1>2, <1>3 DEF Elements, v

LEMMA ElementsEmpty == Elements(<<>>) = {} /\ Once(<<>>)
BY DEF Elements, Once
\* A step that plants nothing, and lists nothing, keeps the books.
LEMMA BooksKept ==
  ASSUME Books, link' = link, Alive' => Alive, UNCHANGED <<planted, ledger>>,
         link = "open" => \A s \in Sources :
           /\ Busy(s, tasks') = Busy(s, tasks)
           /\ \A r \in Busy(s, tasks) :
                tasks'[r] = tasks[r] /\ Answers(wire', r) = Answers(wire, r)
  PROVE  Books'
<1> SUFFICES ASSUME link' = "open" /\ Alive', NEW s \in Sources
             PROVE  Account(s, Held(s, planted), wire', tasks', ledger[s])
  BY DEF Books
<1>1. Account(s, Held(s, planted), wire, tasks, ledger[s])
  BY DEF Books
<1> QED BY <1>1, SameAccount

\* Only handlers of setBreakpoints are busy with a source.
LEMMA BusyPlants ==
  ASSUME Typed, Connected, NEW s \in Sources, NEW r \in Busy(s, tasks)
  PROVE  r \in Requests /\ tasks[r] \in Tasks /\ tasks[r].kind = "breakpoints" /\ tasks[r].src = s
<1>1. r \in Requests /\ tasks[r] # None /\ tasks[r].src = s
  BY DEF Busy
<1> QED BY <1>1, NoneAssumption DEF Connected, InStep, Works, Typed

LEMMA BooksEngine ==
  ASSUME Inv, Books, OneByOne, EngineTakes
  PROVE  Books'
<1> DEFINE c == Head(sent)
           m == Answer(c.for, Done(c))
<1>0. UNCHANGED <<link, tasks, ledger>> /\ Alive /\ sent # <<>>
  BY DEF EngineTakes
<1> SUFFICES ASSUME link = "open"
             PROVE  Books'
  BY <1>0 DEF Books
<1>1. /\ wire \in Seq(Messages) /\ wire' = Append(wire, m)
      /\ 1 \in DOMAIN sent /\ c = sent[1] /\ c \in Commands /\ Connected
  BY <1>0 DEF EngineTakes, Tell, Inv, Typed, Channels
<1>2. \A r \in Requests : c.for # r => Answers(wire', r) = Answers(wire, r)
  <2> SUFFICES ASSUME NEW r \in Requests, c.for # r
               PROVE  Answers(wire', r) = Answers(wire, r)
    OBVIOUS
  <2>1. ~AnswerFor(m, r)
    BY DEF AnswerFor, Answer
  <2> HIDE DEF m
  <2>2. Answers(Append(wire, m), r) = Answers(wire, r) \cup (IF AnswerFor(m, r) THEN {m} ELSE {})
    BY <1>1, AnswersAppend
  <2>3. Answers(Append(wire, m), r) = Answers(wire, r)
    BY <2>1, <2>2
  <2> QED BY <1>1, <2>3
<1>3. CASE c.what \notin Planters
  <2>1. planted' = planted
    BY <1>3 DEF EngineTakes, Planters
  <2>2. \A s \in Sources : \A r \in Busy(s, tasks) : c.for # r
    <3> SUFFICES ASSUME NEW s \in Sources, NEW r \in Busy(s, tasks), c.for = r
                 PROVE  FALSE
      OBVIOUS
    <3>1. r \in Requests /\ tasks[r].kind = "breakpoints"
      BY <1>1, BusyPlants DEF Inv
    <3>2. <<c>> = NextOf(r, tasks[r])
      BY <1>1, <3>1 DEF Connected, InStep, Fits
    <3>3. c.what \in Planters
      BY <3>2 DEF NextOf, Command, Planters
    <3> QED BY <1>3, <3>3
  <2>3. \A s \in Sources : Busy(s, tasks) \subseteq Requests
    BY DEF Busy
  <2> QED BY <1>0, <1>2, <2>1, <2>2, <2>3, BooksKept
<1>4. CASE c.what \in Planters
  <2> DEFINE r == c.for
             t == tasks[r]
             s == t.src
  <2>1. r \in Requests /\ t.kind = "breakpoints" /\ <<c>> = NextOf(r, t) /\ s \in Sources
        /\ t \in Tasks /\ r \in Busy(s, tasks)
    <3>1. r \in Requests
      BY <1>1, <1>4 DEF Commands, SetupStages, Planters, Moves
    <3>2. t \in Tasks /\ t.kind = "breakpoints" /\ <<c>> = NextOf(r, t) /\ s \in Sources
      BY <1>1, <1>4, <3>1 DEF Connected, InStep, Fits, Works, Inv, Typed
    <3> QED BY <3>1, <3>2, NoneAssumption DEF Busy
  <2>2. Busy(s, tasks) = {r} /\ Answers(wire, r) = {} /\ Answers(wire', r) = {m}
    <3>1. Answers(wire, r) = {}
      BY <1>1, <2>1 DEF Connected, InStep, OneOf, Answers
    <3>2. AnswerFor(m, r)
      BY DEF AnswerFor, Answer
    <3> HIDE DEF m
    <3>3. Answers(wire', r) = {m}
      BY <1>1, <3>1, <3>2, AnswersAppend
    <3> QED BY <2>1, <3>1, <3>3, OnePlanter
  <2>3. Account(s, Held(s, planted), wire, tasks, ledger[s])
    BY <1>0, <2>1 DEF Books
  <2>4. Midway(t, Held(s, planted), {}, ledger[s])
    BY <2>1, <2>2, <2>3 DEF Account
  <2>5. /\ c.at \in {s} \X Lines /\ m.ok = Done(c)
        /\ Midway(t, Held(s, planted'), {m}, ledger[s])
    <3> DEFINE at == <<s, Head(t.wanted)>>
    <3>1. CASE t.old # <<>>
      <4>1. c.at = Head(t.old) /\ c.what = "removeBreakpoint"
        BY <2>1, <3>1 DEF NextOf, Command
      <4>2. planted' = planted \ {c.at}
        BY <4>1 DEF EngineTakes
      <4>3. t.old \in Seq(Locations)
        BY <2>1 DEF Tasks
      <4>4. /\ Elements(Tail(t.old)) = Elements(t.old) \ {c.at} /\ c.at \in Elements(t.old)
        BY <2>4, <3>1, <4>1, <4>3, ElementsTail DEF Midway
      <4>5. Held(s, planted') = Elements(Tail(t.old))
        BY <2>4, <3>1, <4>2, <4>4 DEF Midway, Held
      <4>6. c.at \in {s} \X Lines
        BY <2>4, <4>4 DEF Midway
      <4>7. m.ok = Done(c)
        BY DEF Answer
      <4> HIDE DEF c, m
      <4> QED BY <2>4, <3>1, <4>5, <4>6, <4>7 DEF Midway
    <3>2. CASE t.old = <<>>
      <4>1. c.at = at /\ c.what = "setBreakpoint" /\ t.wanted # <<>>
        BY <2>1, <3>2 DEF NextOf, Command
      <4>2. planted' = planted \cup {at} /\ (Done(c) <=> at \notin planted)
        BY <4>1 DEF EngineTakes, Done, Moves
      <4>3. at \in {s} \X Lines /\ at[1] = s
        BY <2>1, <4>1 DEF Tasks
      <4>4. Held(s, planted) = Elements(t.got) /\ ledger[s] = <<>>
        BY <2>4, <3>2 DEF Midway
      <4>5. at \in planted <=> at \in Elements(t.got)
        BY <4>3, <4>4 DEF Held
      <4>6. Held(s, planted') = Elements(t.got) \cup {at}
        BY <4>2, <4>3, <4>4 DEF Held
      <4>7. m.ok = Done(c)
        BY DEF Answer
      <4> HIDE DEF c, m
      <4> QED BY <2>4, <3>2, <4>1, <4>2, <4>3, <4>4, <4>5, <4>6, <4>7 DEF Midway
    <3> QED BY <3>1, <3>2
  <2>6. ASSUME NEW q \in Sources
        PROVE  Account(q, Held(q, planted'), wire', tasks, ledger[q])
    <3>1. CASE q = s
      <4> HIDE DEF m
      <4> QED BY <2>2, <2>3, <2>5, <3>1 DEF Account
    <3>2. CASE q # s
      <4>1. Held(q, planted') = Held(q, planted)
        <5>1. c.at[1] = s
          BY <2>5
        <5> QED BY <1>4, <3>2, <5>1 DEF EngineTakes, Held
      <4>2. \A p \in Busy(q, tasks) : p \in Requests /\ p # r
        BY <3>2 DEF Busy
      <4>3. \A p \in Busy(q, tasks) : Answers(wire', p) = Answers(wire, p)
        BY <1>2, <4>2
      <4>4. Account(q, Held(q, planted), wire, tasks, ledger[q])
        BY <1>0 DEF Books
      <4> QED BY <4>1, <4>3, <4>4, SameAccount
    <3> QED BY <3>1, <3>2
  <2> QED BY <1>0, <2>6 DEF Books
<1> QED BY <1>3, <1>4

LEMMA BooksProgram ==
  ASSUME Inv, Books,
         \/ \E place \in Places : Lands(place) \/ Hits(place)
         \/ Ends \/ Dies \/ Detaches
  PROVE  Books'
<1>1. ASSUME NEW m, m.kind # "answer", Tell(m), UNCHANGED <<link, planted, ledger, tasks>>, Alive
      PROVE  Books'
  <2>1. ASSUME link = "open", NEW r
        PROVE  Answers(wire', r) = Answers(wire, r)
    <3>1. wire' = Append(wire, m) /\ wire \in Seq(Messages) /\ ~AnswerFor(m, r)
      BY <1>1, <2>1 DEF Tell, Inv, Typed, AnswerFor
    <3>2. Answers(Append(wire, m), r) = Answers(wire, r) \cup (IF AnswerFor(m, r) THEN {m} ELSE {})
      BY <3>1, AnswersAppend
    <3>3. Answers(Append(wire, m), r) = Answers(wire, r)
      BY <3>1, <3>2
    <3> QED BY <3>1, <3>3
  <2> QED BY <1>1, <2>1, BooksKept
<1>2. CASE \E place \in Places : Lands(place) \/ Hits(place)
  <2>1. PICK place \in Places, reason \in {"step", "breakpoint", "exception"} : Stops(reason, place)
    BY <1>2 DEF Lands, Hits
  <2>2. Paused(reason, place).kind # "answer" /\ Alive
    BY <1>2 DEF Paused, Lands, Hits, Alive
  <2> QED BY <1>1, <2>1, <2>2 DEF Stops
<1>3. CASE Ends
  <2>1. Event("destroyed").kind # "answer"
    BY DEF Event
  <2>2. CASE Attached
    BY <1>1, <1>3, <2>1, <2>2 DEF Ends, Alive
  <2>3. CASE ~Attached
    BY <1>3, <2>3 DEF Ends, Alive, Books
  <2> QED BY <2>2, <2>3
<1>4. CASE Dies
  BY <1>4 DEF Dies, Alive, Books
<1>5. CASE Detaches
  BY <1>5 DEF Detaches, Books
<1> QED BY <1>2, <1>3, <1>4, <1>5

LEMMA BooksLaunch ==
  ASSUME Inv, Inv', Books,
         \/ LaunchRequest \/ Announces \/ LaunchFails \/ Connects
         \/ \E ok \in BOOLEAN : Compiled(ok)
  PROVE  Books'
<1>1. CASE \/ LaunchRequest \/ Announces \/ LaunchFails
           \/ \E ok \in BOOLEAN : Compiled(ok)
  <2>1. launch' \in Unconnected
    BY <1>1 DEF LaunchRequest, Announces, LaunchFails, Compiled, Unconnected
  <2>2. link' = "none"
    BY <2>1 DEF Inv, Channels
  <2> QED BY <2>2 DEF Books
<1>2. CASE Connects
  <2>1. /\ planted' = {} /\ ledger' = [s \in Sources |-> <<>>]
        /\ tasks' = [r \in Requests |-> None]
    BY <1>2 DEF Connects, Inv, Channels, Unconnected, engine
  <2>2. ASSUME NEW s \in Sources
        PROVE  Account(s, Held(s, planted'), wire', tasks', ledger'[s])
    <3>1. Busy(s, tasks') = {} /\ Held(s, planted') = {} /\ ledger'[s] = <<>>
      BY <2>1 DEF Busy, Held
    <3> QED BY <3>1, ElementsEmpty DEF Account
  <2> QED BY <2>2 DEF Books
<1> QED BY <1>1, <1>2

\* A handler of anything else is busy with no file.
LEMMA BooksAwaits ==
  ASSUME Inv, Books, NEW r \in Requests,
         NEW kind \in {"runOn", "configuration", "pause", "evaluate"},
         tasks[r] = None, tasks' = [tasks EXCEPT ![r] = Plain(kind)] \/ tasks' = tasks,
         UNCHANGED <<program, planted, link, wire, ledger>>
  PROVE  Books'
<1>1. /\ tasks'[r] = None \/ tasks'[r].src = None
      /\ \A q \in Requests \ {r} : tasks'[q] = tasks[q]
  BY PlainTyped DEF Inv, Typed
<1>2. \A s \in Sources : Busy(s, tasks') = Busy(s, tasks) /\ r \notin Busy(s, tasks)
  BY <1>1, NoneAssumption DEF Busy
<1>3. \A s \in Sources : \A q \in Busy(s, tasks) : tasks'[q] = tasks[q]
  BY <1>1, <1>2 DEF Busy
<1> QED BY <1>2, <1>3, BooksKept DEF Alive

\* What a setBreakpoints handler does next is in the books: for its own file,
LEMMA GoOnOwn ==
  ASSUME NEW r \in Requests, NEW t \in Tasks, NEW held, BreakpointsGoOn(r, t),
         link = "open", t.src \in Sources, t.kind = "breakpoints",
         tasks \in [Requests -> Tasks \cup {None}], ledger \in [Sources -> Seq(Locations)],
         Once(t.old), Once(t.got),
         Elements(t.old) \subseteq {t.src} \X Lines, Elements(t.got) \subseteq {t.src} \X Lines,
         IF t.old # <<>> THEN t.got = <<>> /\ held = Elements(t.old) ELSE held = Elements(t.got),
         t.old # <<>> => Once(ledger[t.src]) /\ Elements(ledger[t.src]) \subseteq {t.src} \X Lines,
         Busy(t.src, tasks) \subseteq {r}, Answers(wire', r) = {}
  PROVE  Account(t.src, held, wire', tasks', ledger'[t.src])
<1>1. CASE NextOf(r, t) # <<>>
  <2>1. tasks' = [tasks EXCEPT ![r] = t]
    BY <1>1 DEF BreakpointsGoOn
  <2>2. Busy(t.src, tasks') = {r} /\ tasks'[r] = t
    BY <2>1, NoneAssumption DEF Busy
  <2>3. CASE t.old # <<>>
    <3>1. ledger' = ledger
      BY <1>1, <2>3 DEF BreakpointsGoOn
    <3> QED BY <2>2, <2>3, <3>1 DEF Account, Midway
  <2>4. CASE t.old = <<>>
    <3>1. ledger'[t.src] = <<>>
      BY <1>1, <2>4 DEF BreakpointsGoOn
    <3> QED BY <2>2, <2>4, <3>1, ElementsEmpty DEF Account, Midway
  <2> QED BY <2>3, <2>4
<1>2. CASE NextOf(r, t) = <<>>
  <2>1. tasks' = [tasks EXCEPT ![r] = None] /\ ledger'[t.src] = t.got
    BY <1>2 DEF BreakpointsGoOn
  <2>2. Busy(t.src, tasks') = {}
    BY <2>1 DEF Busy
  <2>3. t.old = <<>>
    BY <1>2 DEF NextOf
  <2> QED BY <2>1, <2>2, <2>3 DEF Account
<1> QED BY <1>1, <1>2

\* ... and for the others.
LEMMA GoOnOthers ==
  ASSUME NEW r \in Requests, NEW t \in Tasks, NEW held, BreakpointsGoOn(r, t), t.src \in Sources,
         tasks \in [Requests -> Tasks \cup {None}], ledger \in [Sources -> Seq(Locations)],
         tasks[r] = None \/ tasks[r].src = t.src,
         NEW s \in Sources, s # t.src,
         \A q \in Requests \ {r} : Answers(wire', q) = Answers(wire, q),
         Account(s, held, wire, tasks, ledger[s])
  PROVE  Account(s, held, wire', tasks', ledger'[s])
<1>1. tasks'[r] \in {t, None} /\ \A q \in Requests \ {r} : tasks'[q] = tasks[q]
  BY DEF BreakpointsGoOn
<1>2. ledger'[s] = ledger[s]
  BY DEF BreakpointsGoOn
<1>3. Busy(s, tasks') = Busy(s, tasks) /\ r \notin Busy(s, tasks)
  BY <1>1 DEF Busy
<1>4. \A q \in Busy(s, tasks) : tasks'[q] = tasks[q] /\ Answers(wire', q) = Answers(wire, q)
  BY <1>1, <1>3 DEF Busy
<1> QED BY <1>2, <1>3, <1>4, SameAccount

LEMMA BooksRequests ==
  ASSUME Inv, Books, OneByOne', NEW r \in Requests,
         \/ \E kind \in DOMAIN How : StepRequest(r, kind)
         \/ ContinueRequest(r) \/ PauseRequest(r) \/ ConfigurationDone(r) \/ Evaluate(r)
         \/ \E s \in Sources, lines \in Wanted : SetBreakpoints(r, s, lines)
  PROVE  Books'
<1>1. ASSUME NEW kind \in {"runOn", "configuration", "pause"}, NEW what, Awaits(r, kind, what),
             UNCHANGED <<program, planted, link, wire, ledger>>
      PROVE  Books'
  <2>1. tasks[r] = None /\ (tasks' = [tasks EXCEPT ![r] = Plain(kind)] \/ tasks' = tasks)
    BY <1>1 DEF Awaits
  <2> QED BY <1>1, <2>1, BooksAwaits
<1>2. CASE \E kind \in DOMAIN How : StepRequest(r, kind)
  BY <1>1, <1>2 DEF StepRequest, engine
<1>3. CASE ContinueRequest(r)
  BY <1>1, <1>3 DEF ContinueRequest, engine
<1>4. CASE PauseRequest(r)
  BY <1>1, <1>4 DEF PauseRequest, engine
<1>5. CASE ConfigurationDone(r)
  <2>1. UNCHANGED <<program, planted, link, wire, ledger>>
    BY <1>5 DEF ConfigurationDone, engine
  <2>2. CASE ~debuggee
    <3>1. tasks' = tasks
      BY <1>5, <2>2 DEF ConfigurationDone
    <3> QED BY <2>1, <3>1, BooksKept DEF Alive
  <2>3. CASE Awaits(r, "configuration", "stepInto") \/ Awaits(r, "configuration", "resume")
    BY <1>1, <2>1, <2>3
  <2> QED BY <1>5, <2>2, <2>3 DEF ConfigurationDone
<1>6. CASE Evaluate(r)
  <2>1. /\ UNCHANGED <<program, planted, link, wire, ledger>> /\ tasks[r] = None
        /\ tasks' = [tasks EXCEPT ![r] = Plain("evaluate")] \/ tasks' = tasks
    BY <1>6 DEF Evaluate, engine
  <2> QED BY <2>1, BooksAwaits
<1>7. ASSUME NEW s \in Sources, NEW lines \in Wanted, SetBreakpoints(r, s, lines)
      PROVE  Books'
  <2> DEFINE t == [kind |-> "breakpoints", src |-> s, old |-> ledger[s],
                   wanted |-> lines, got |-> <<>>]
  <2>0. UNCHANGED <<program, planted, link, wire>> /\ tasks[r] = None
    BY <1>7 DEF SetBreakpoints, engine
  <2>1. t \in Tasks /\ t.src = s /\ t.kind = "breakpoints" /\ t.old = ledger[s] /\ t.got = <<>>
    BY SetsAssumption DEF Inv, Typed, Tasks
  <2> SUFFICES ASSUME debuggee, link = "open", Alive
               PROVE  Books'
    <3>1. CASE ~debuggee
      <4>1. UNCHANGED <<tasks, ledger>>
        BY <1>7, <3>1 DEF SetBreakpoints
      <4> QED BY <2>0, <4>1, BooksKept DEF Alive
    <3>2. CASE link # "open" \/ ~Alive
      BY <2>0, <3>2 DEF Alive, Books
    <3> QED BY <3>1, <3>2
  <2>2. BreakpointsGoOn(r, t)
    BY <1>7 DEF SetBreakpoints
  <2> HIDE DEF t
  <2>3. Account(s, Held(s, planted), wire, tasks, ledger[s])
    BY DEF Books
  <2>4. CASE NextOf(r, t) = <<>>
    <3>1. ledger[s] = <<>>
      BY <2>1, <2>4 DEF NextOf
    <3>2. tasks' = [tasks EXCEPT ![r] = None] /\ ledger' = [ledger EXCEPT ![s] = <<>>]
      BY <2>1, <2>2, <2>4 DEF BreakpointsGoOn
    <3>3. UNCHANGED <<tasks, ledger>>
      BY <2>0, <3>1, <3>2 DEF Inv, Typed
    <3> QED BY <2>0, <3>3, BooksKept DEF Alive
  <2>5. CASE NextOf(r, t) # <<>>
    <3>1. tasks' = [tasks EXCEPT ![r] = t]
      BY <2>2, <2>5 DEF BreakpointsGoOn
    <3>2. Busy(s, tasks) = {}
      <4> SUFFICES ASSUME NEW q \in Busy(s, tasks)
                   PROVE  FALSE
        OBVIOUS
      <4>1. q # r /\ q \in Requests
        BY <2>0 DEF Busy
      <4>2. q \in Planting(s)' /\ r \in Planting(s)'
        BY <2>1, <3>1, <4>1, NoneAssumption DEF Busy, Planting, Inv, Typed
      <4>3. IsFiniteSet(Planting(s)') /\ Cardinality(Planting(s)') <= 1
        BY SetsAssumption, FS_Subset DEF Planting, OneByOne
      <4> QED BY <4>1, <4>2, <4>3, AtMostOne
    <3>3. Held(s, planted) = Elements(ledger[s]) /\ Once(ledger[s])
          /\ Elements(ledger[s]) \subseteq {s} \X Lines
      BY <2>3, <3>2 DEF Account
    <3>4. Answers(wire', r) = {}
      <4>1. NoneOf(sent, wire, r)
        BY <2>0, Free DEF Inv, Typed, Channels, Connected
      <4> QED BY <2>0, <4>1, AnswersNone
    <3>5. Account(s, Held(s, planted), wire', tasks', ledger'[s])
      <4>1. Once(t.old) /\ Once(t.got) /\ Elements(t.old) \subseteq {s} \X Lines
            /\ Elements(t.got) \subseteq {s} \X Lines
        BY <2>1, <3>3, ElementsEmpty
      <4>2. IF t.old # <<>> THEN t.got = <<>> /\ Held(s, planted) = Elements(t.old)
            ELSE Held(s, planted) = Elements(t.got)
        BY <2>1, <3>3
      <4> QED BY <2>1, <2>2, <3>2, <3>3, <3>4, <4>1, <4>2, GoOnOwn DEF Inv, Typed
    <3>6. ASSUME NEW q \in Sources, q # s
          PROVE  Account(q, Held(q, planted), wire', tasks', ledger'[q])
      <4>1. Account(q, Held(q, planted), wire, tasks, ledger[q])
        BY DEF Books
      <4> QED BY <2>0, <2>1, <2>2, <3>6, <4>1, GoOnOthers DEF Inv, Typed
    <3> QED BY <2>0, <3>5, <3>6 DEF Books
  <2> QED BY <2>4, <2>5
<1> QED BY <1>2, <1>3, <1>4, <1>5, <1>6, <1>7

LEMMA BooksHears ==
  ASSUME Inv, Books, OneByOne,
         OnAnswer \/ OnRejection \/ OnEntryPause \/ OnPaused \/ OnDestroyed \/ OnClosed \/ OnExit
  PROVE  Books'
<1> DEFINE m == Head(wire)
<1>0. ASSUME Heard, m.kind # "closed", wire' = Tail(wire)
      PROVE  /\ 1 \in DOMAIN wire /\ m = wire[1] /\ m \in Messages
             /\ wire # <<>> /\ wire \in Seq(Messages) /\ link = "open" /\ Connected
             /\ \A q : ~AnswerFor(m, q) => Answers(wire', q) = Answers(wire, q)
  <2>1. /\ 1 \in DOMAIN wire /\ m = wire[1] /\ m \in Messages
        /\ wire # <<>> /\ wire \in Seq(Messages) /\ link = "open" /\ Connected
    BY <1>0 DEF Inv, Typed, Channels, Heard
  <2> QED BY <1>0, <2>1, AnswersTail
<1>1. CASE OnAnswer
  <2>0. Heard /\ m.kind = "answer" /\ wire' = Tail(wire) /\ UNCHANGED <<program, planted, link>>
    BY <1>1 DEF OnAnswer, engine
  <2>1. ASSUME ledger' = ledger, tasks' = tasks, m.for \notin Requests
        PROVE  Books'
    <3>1. \A s \in Sources : \A q \in Busy(s, tasks) : ~AnswerFor(m, q)
      BY <2>1 DEF Busy, AnswerFor
    <3> QED BY <1>0, <2>0, <2>1, <3>1, BooksKept DEF Alive
  <2>2. CASE AnswersLaunch(m)
    BY <2>1, <2>2, SetsAssumption DEF AnswersLaunch
  <2>3. CASE AnswersNobody(m)
    BY <2>1, <2>3, NoneAssumption DEF AnswersNobody
  <2>4. CASE AnswersTask(m)
    <3> DEFINE r == m.for
               t == tasks[r]
    <3>1. r \in Requests /\ t \in Tasks /\ m.ok \in BOOLEAN /\ AnswerFor(m, r) /\ Works(r, t)
          /\ OneOf(sent, wire, r) /\ NoneOf(sent, wire', r)
      <4>1. m.ok \in BOOLEAN
        BY <1>0, <2>0 DEF Messages
      <4>2. r \in Requests /\ AnswerFor(m, r)
        BY <2>0, <2>4 DEF AnswersTask, AnswerFor
      <4>3. t \in Tasks
        BY <1>0, <2>0, <4>2, Listening DEF Inv
      <4>4. NoneOf(sent, wire', r)
        BY <1>0, <2>0, <4>2, HeardOne DEF Inv, Typed, Connected
      <4> QED BY <1>0, <2>0, <4>1, <4>2, <4>3, <4>4, NoneAssumption DEF Connected, InStep
    <3>2. \A q \in Requests \ {r} : Answers(wire', q) = Answers(wire, q)
      <4>1. \A q \in Requests \ {r} : ~AnswerFor(m, q)
        BY DEF AnswerFor
      <4> QED BY <1>0, <2>0, <4>1
    <3>3. CASE t.kind # "breakpoints"
      <4>1. tasks' = [tasks EXCEPT ![r] = None] /\ ledger' = ledger /\ t.src = None
        BY <2>4, <3>1, <3>3 DEF AnswersTask, Works
      <4>2. \A s \in Sources : Busy(s, tasks') = Busy(s, tasks) /\ r \notin Busy(s, tasks)
        BY <3>1, <4>1, NoneAssumption DEF Busy, Inv, Typed
      <4>3. \A s \in Sources : \A q \in Busy(s, tasks) :
              tasks'[q] = tasks[q] /\ Answers(wire', q) = Answers(wire, q)
        BY <3>2, <4>1, <4>2 DEF Busy, Inv, Typed
      <4> QED BY <2>0, <4>1, <4>2, <4>3, BooksKept DEF Alive
    <3>4. CASE t.kind = "breakpoints" /\ Alive
      <4> DEFINE u == Answered(t, m.ok)
                 s == t.src
                 held == Held(s, planted)
      <4>1. s \in Sources /\ NextOf(r, t) # <<>> /\ r \in Busy(s, tasks)
        <5>1. Works(r, t) /\ t.kind = "breakpoints" BY <3>1, <3>4
        <5> HIDE DEF t
        <5>2. t.src \in Sources /\ NextOf(r, t) # <<>> BY <5>1 DEF Works
        <5>3. t # None BY <3>1, NoneAssumption
        <5> QED BY <3>1, <5>2, <5>3 DEF Busy, t
      <4>2. u \in Tasks /\ u.src = s /\ u.kind = "breakpoints" /\ BreakpointsGoOn(r, u)
        <5>1. BreakpointsGoOn(r, u) BY <2>4, <3>4 DEF AnswersTask, Answered
        <5>2. t \in Tasks /\ t.kind = "breakpoints" BY <3>1, <3>4
        <5> HIDE DEF t
        <5>3. /\ Answered(t, m.ok) \in Tasks
              /\ Answered(t, m.ok).src = t.src /\ Answered(t, m.ok).kind = t.kind
          BY <3>1, <4>1, <5>2, AnsweredTyped DEF t
        <5> QED BY <5>1, <5>2, <5>3
      <4>3. Busy(s, tasks) = {r}
        BY <4>1, OnePlanter
      <4>4. Account(s, held, wire, tasks, ledger[s])
        BY <1>0, <2>0, <3>4, <4>1 DEF Books
      <4>5. Answers(wire, r) = {m} /\ Answers(wire', r) = {}
        BY <1>0, <2>0, <3>1, AnswersHead, AnswersNone
      <4>6. Midway(t, held, {m}, ledger[s])
        BY <4>3, <4>4, <4>5 DEF Account
      <4>7. /\ Once(u.old) /\ Once(u.got)
            /\ Elements(u.old) \subseteq {s} \X Lines /\ Elements(u.got) \subseteq {s} \X Lines
            /\ IF u.old # <<>> THEN u.got = <<>> /\ held = Elements(u.old) ELSE held = Elements(u.got)
        <5>1. CASE t.old # <<>>
          <6>1. u.old = Tail(t.old) /\ u.got = t.got /\ t.old \in Seq(Locations)
            BY <3>1, <5>1 DEF Answered, Tasks
          <6>2. t.got = <<>> /\ held = Elements(Tail(t.old))
            BY <4>6, <5>1 DEF Midway
          <6>3. Once(u.old) /\ Elements(u.old) \subseteq {s} \X Lines
            BY <4>6, <5>1, <6>1, ElementsTail DEF Midway
          <6> HIDE DEF u, held
          <6> QED BY <6>1, <6>2, <6>3, ElementsEmpty
        <5>2. CASE t.old = <<>>
          <6> DEFINE at == <<s, Head(t.wanted)>>
          <6>1. u.old = <<>> /\ u.got = (IF m.ok THEN Append(t.got, at) ELSE t.got)
                /\ t.got \in Seq(Locations)
            BY <3>1, <5>2 DEF Answered, Tasks
          <6>2. at \in {s} \X Lines
            <7>1. t.wanted # <<>> /\ t.wanted \in Seq(Lines)
              BY <3>1, <4>1, <5>2 DEF NextOf, Tasks
            <7> QED BY <7>1
          <6>3. /\ Once(t.got) /\ Elements(t.got) \subseteq {s} \X Lines
                /\ IF m.ok THEN at \notin Elements(t.got) /\ held = Elements(t.got) \cup {at}
                   ELSE held = Elements(t.got)
            BY <4>6, <5>2 DEF Midway
          <6>4. /\ Elements(Append(t.got, at)) = Elements(t.got) \cup {at}
                /\ at \notin Elements(t.got) => Once(Append(t.got, at))
            BY <6>1, <6>3, ElementsAppend
          <6> HIDE DEF u, held, at
          <6> QED BY <6>1, <6>2, <6>3, <6>4, ElementsEmpty
        <5> QED BY <5>1, <5>2
      <4>8. Account(s, held, wire', tasks', ledger'[s])
        <5>1. Once(ledger[s]) /\ Elements(ledger[s]) \subseteq {s} \X Lines
          BY <4>4 DEF Account
        <5> HIDE DEF u, held
        <5> QED BY <1>0, <2>0, <3>1, <4>1, <4>2, <4>3, <4>5, <4>7, <5>1, GoOnOwn DEF Inv, Typed
      <4>9. ASSUME NEW q \in Sources, q # s
            PROVE  Account(q, Held(q, planted), wire', tasks', ledger'[q])
        <5>1. Account(q, Held(q, planted), wire, tasks, ledger[q])
          BY <1>0, <2>0, <3>4 DEF Books
        <5> HIDE DEF u
        <5> QED BY <3>1, <3>2, <4>1, <4>2, <4>9, <5>1, GoOnOthers DEF Inv, Typed
      <4> QED BY <2>0, <4>8, <4>9 DEF Books
    <3>5. CASE ~Alive
      BY <2>0, <3>5 DEF Alive, Books
    <3> QED BY <3>3, <3>4, <3>5
  <2> QED BY <1>1, <2>2, <2>3, <2>4 DEF OnAnswer
<1>2. CASE OnEntryPause \/ OnPaused
  <2>1. /\ Heard /\ m.kind = "paused" /\ wire' = Tail(wire)
        /\ UNCHANGED <<program, planted, link, tasks, ledger>>
    BY <1>2 DEF OnEntryPause, OnPaused, engine
  <2>2. \A q : ~AnswerFor(m, q)
    BY <2>1 DEF AnswerFor
  <2> QED BY <1>0, <2>1, <2>2, BooksKept DEF Alive
<1>3. CASE OnRejection \/ OnDestroyed \/ OnClosed
  <2>1. link' # "open"
    BY <1>3 DEF OnRejection, OnDestroyed, OnClosed, Close
  <2> QED BY <2>1 DEF Books
<1>4. CASE OnExit
  <2>1. UNCHANGED <<program, planted, link, wire, tasks, ledger>>
    BY <1>4 DEF OnExit, engine, channel
  <2> QED BY <2>1, BooksKept DEF Alive
<1> QED BY <1>1, <1>2, <1>3, <1>4

LEMMA BooksNext == Inv /\ Inv' /\ Books /\ OneByOne /\ OneByOne' /\ [Next]_vars => Books'
<1> SUFFICES ASSUME Inv, Inv', Books, OneByOne, OneByOne', [Next]_vars
             PROVE  Books'
  OBVIOUS
<1>1. CASE EngineTakes
  BY <1>1, BooksEngine
<1>2. CASE Ends \/ Dies \/ Detaches \/ \E place \in Places : Lands(place) \/ Hits(place)
  BY <1>2, BooksProgram
<1>3. CASE \/ LaunchRequest \/ Announces \/ LaunchFails \/ Connects
           \/ \E ok \in BOOLEAN : Compiled(ok)
  BY <1>3, BooksLaunch
<1>4. ASSUME NEW r \in Requests,
             \/ \E kind \in DOMAIN How : StepRequest(r, kind)
             \/ ContinueRequest(r) \/ PauseRequest(r) \/ ConfigurationDone(r) \/ Evaluate(r)
             \/ \E s \in Sources, lines \in Wanted : SetBreakpoints(r, s, lines)
      PROVE  Books'
  BY <1>4, BooksRequests
<1>5. CASE Disconnect
  <2>1. /\ UNCHANGED <<program, planted, tasks, ledger>>
        /\ link' = "open" => link = "open" /\ wire' = wire
    BY <1>5 DEF Disconnect, Close, engine
  <2> QED BY <2>1 DEF Books, Alive
<1>6. CASE OnAnswer \/ OnRejection \/ OnEntryPause \/ OnPaused \/ OnDestroyed \/ OnClosed \/ OnExit
  BY <1>6, BooksHears
<1>7. CASE UNCHANGED vars
  BY <1>7 DEF Books, Alive, vars, engine, channel
<1> QED BY <1>1, <1>2, <1>3, <1>4, <1>5, <1>6, <1>7 DEF Next

\* Under a client that waits for one setBreakpoints of a file before it sends the
\* next, the ledger of every file is what the engine holds of it.
THEOREM LedgerIsTheEngine == Spec /\ []OneByOne => []LedgerIsEngine
<1>1. Init => Books
  BY DEF Init, Books, Alive
<1>2. Inv /\ [Next]_vars => Inv'
  BY InvNext
<1>3. Inv /\ Inv' /\ Books /\ OneByOne /\ OneByOne' /\ [Next]_vars => Books'
  BY BooksNext
<1>4. Books => LedgerIsEngine
  BY DEF Books, Account, LedgerIsEngine, Planting, Busy, Held, Elements
<1> QED BY <1>1, <1>2, <1>3, <1>4, InvInit, PTL DEF Spec
-----------------------------------------------------------------------------
(* What a session leaves.                                                  *)

\* How far the launch is, and how far its program.
Stages ==
  /\ launch \in {"none", "preparing"} => program = "none"
  /\ launch = "starting" => program \in {"booting", "exited"}
  /\ launch = "connecting" => program \in {"waiting", "exited"}
  /\ launch = "failed" => program \in {"none", "booting", "exited"}
  /\ program = "exited" <=> exit # "none"
  /\ ~disconnected /\ link # "none" => debuggee

Tidy ==
  /\ disconnected => launch \in {"done", "failed"}
  /\ launch = "none" => ~scratch
  /\ launch = "failed" => (~Alive \/ killed) /\ ~scratch
  /\ disconnected /\ launch = "done" => (~Alive \/ killed) /\ ~scratch

\* The program of a connection moves, and no launch with it.
LEMMA StagesProgram ==
  ASSUME Inv, Stages,
         \/ EngineTakes \/ Ends \/ Dies \/ Detaches
         \/ \E place \in Places : Lands(place) \/ Hits(place)
  PROVE  Stages' /\ (Tidy => Tidy')
<1>1. UNCHANGED <<launch, link, disconnected, debuggee, scratch, killed>> /\ Alive
  BY DEF EngineTakes, Ends, Dies, Detaches, Lands, Hits, Stops, Alive, client
<1>2. CASE Dies
  <2>1. program' = "exited" /\ exit' = "due"
    BY <1>2 DEF Dies
  <2> QED BY <1>1, <2>1 DEF Stages, Tidy, Alive
<1>3. CASE EngineTakes \/ Ends \/ Detaches \/ \E place \in Places : Lands(place) \/ Hits(place)
  <2>1. launch \notin Unconnected
    <3>1. CASE EngineTakes \/ Detaches \/ \E place \in Places : Lands(place) \/ Hits(place)
      <4>1. link # "none"
        BY <3>1 DEF EngineTakes, Detaches, Lands, Hits, Stops, Attached
      <4> QED BY <4>1 DEF Inv, Channels
    <3>2. CASE Ends
      BY <3>2 DEF Ends, Stages, Unconnected
    <3> QED BY <1>3, <3>1, <3>2
  <2>2. program' = "exited" <=> exit' # "none"
    <3>1. CASE EngineTakes
      BY <1>1, <3>1 DEF EngineTakes, Stages, Alive
    <3>2. CASE \E place \in Places : Lands(place) \/ Hits(place)
      BY <3>2 DEF Lands, Hits, Stops, Stages
    <3>3. CASE Ends
      BY <3>3 DEF Ends, Stages
    <3>4. CASE Detaches
      BY <1>1, <3>4 DEF Detaches, Stages, Alive
    <3> QED BY <1>3, <3>1, <3>2, <3>3, <3>4
  <2>3. Stages'
    BY <1>1, <2>1, <2>2 DEF Stages, Unconnected
  <2>4. Tidy => Tidy'
    BY <1>1, <2>1 DEF Tidy, Unconnected
  <2> QED BY <2>3, <2>4
<1> QED BY <1>2, <1>3

LEMMA StagesLaunch ==
  ASSUME Inv, Stages,
         \/ LaunchRequest \/ Announces \/ LaunchFails \/ Connects
         \/ \E ok \in BOOLEAN : Compiled(ok)
  PROVE  Stages' /\ (Tidy => Tidy')
<1>1. CASE LaunchRequest
  <2>1. launch' = "preparing" /\ UNCHANGED <<program, exit, link, debuggee, disconnected>>
        /\ ~disconnected /\ launch = "none"
    BY <1>1 DEF LaunchRequest, engine, channel, client
  <2> QED BY <2>1 DEF Stages, Tidy
<1>2. CASE Announces
  <2>1. /\ launch' = "connecting" /\ program' = "waiting" /\ launch = "starting" /\ program = "booting"
        /\ UNCHANGED <<exit, link, debuggee, disconnected>>
    BY <1>2 DEF Announces, channel, client
  <2> QED BY <2>1 DEF Stages, Tidy
<1>3. CASE LaunchFails
  <2>1. launch' = "failed" /\ ~scratch' /\ UNCHANGED <<program, link, debuggee, disconnected>>
    BY <1>3 DEF LaunchFails, engine, channel, client
  <2>2. \/ launch = "starting" /\ program = "booting" /\ killed' /\ exit' = exit
        \/ exit = "due" /\ exit' = "told" /\ program = "exited"
    BY <1>3 DEF LaunchFails, Stages
  <2> QED BY <2>1, <2>2 DEF Stages, Tidy, Alive
<1>4. CASE Connects
  <2>1. /\ launch' = "enableRuntime" /\ debuggee' /\ launch = "connecting"
        /\ UNCHANGED <<program, exit, disconnected>>
    BY <1>4 DEF Connects, engine, client
  <2> QED BY <2>1 DEF Stages, Tidy
<1>5. ASSUME NEW ok \in BOOLEAN, Compiled(ok)
      PROVE  Stages' /\ (Tidy => Tidy')
  <2>1. launch = "preparing" /\ UNCHANGED <<exit, link, debuggee, disconnected>>
        /\ IF ok THEN launch' = "starting" /\ program' = "booting"
           ELSE launch' = "failed" /\ program' = program /\ ~scratch'
    BY <1>5 DEF Compiled, channel, client
  <2> QED BY <2>1 DEF Stages, Tidy, Alive
<1> QED BY <1>1, <1>2, <1>3, <1>4, <1>5

\* Requests change no stage, and disconnecting tidies.
LEMMA StagesRequests ==
  ASSUME Stages, UNCHANGED <<program, killed, link, launch, debuggee, exit, scratch, disconnected>>
  PROVE  Stages' /\ (Tidy => Tidy')
BY DEF Stages, Tidy, Alive

LEMMA StagesDisconnect ==
  ASSUME Inv, Stages, Disconnect
  PROVE  Stages' /\ (Tidy /\ launch \in {"done", "failed"} => Tidy')
<1>1. /\ ~disconnected /\ disconnected' /\ UNCHANGED <<program, exit, launch>>
      /\ IF debuggee THEN ~scratch' /\ killed' = (killed \/ exit # "told")
         ELSE UNCHANGED <<scratch, killed>>
  BY DEF Disconnect, Asked, engine
<1>2. launch = "done" => debuggee
  BY <1>1 DEF Inv, Channels, Stages, Unconnected
<1>3. exit = "told" => ~Alive
  BY DEF Stages, Alive
<1> QED BY <1>1, <1>2, <1>3 DEF Stages, Tidy, Alive

LEMMA StagesHears ==
  ASSUME Inv, Stages,
         OnAnswer \/ OnRejection \/ OnEntryPause \/ OnPaused \/ OnDestroyed \/ OnClosed \/ OnExit
  PROVE  Stages' /\ (Tidy => Tidy')
<1>1. UNCHANGED <<program, killed, debuggee, disconnected>>
  BY DEF OnAnswer, OnRejection, OnEntryPause, OnPaused, OnDestroyed, OnClosed, OnExit, engine,
         client
<1>2. ASSUME UNCHANGED <<exit, scratch>>, link # "none",
             launch' = launch \/ (launch' \notin Unconnected /\ launch # "done")
      PROVE  Stages' /\ (Tidy => Tidy')
  <2>1. launch \notin Unconnected
    BY <1>2 DEF Inv, Channels
  <2> QED BY <1>1, <1>2, <2>1 DEF Stages, Tidy, Unconnected, Alive
<1>3. Heard => link # "none"
  BY DEF Heard, Inv, Channels
<1>4. CASE OnAnswer
  <2> DEFINE m == Head(wire)
  <2>1. launch' = launch \/ (launch' \notin Unconnected /\ launch # "done")
    <3>1. CASE AnswersLaunch(m)
      <4>1. launch \in SetupStages
        <5>1. 1 \in DOMAIN wire /\ m = wire[1] /\ m.kind = "answer"
          BY <1>4 DEF OnAnswer, Heard, Inv, Typed
        <5> QED BY <3>1, <5>1, Listening DEF AnswersLaunch, AnswerFor, Inv
      <4>2. launch' \in SetupStages \cup {"entryPause", "done"}
        BY <3>1, <4>1 DEF AnswersLaunch, Setup, SetupStages
      <4> QED BY <4>1, <4>2 DEF SetupStages, Unconnected
    <3>2. CASE AnswersTask(m) \/ AnswersNobody(m)
      BY <3>2 DEF AnswersTask, AnswersNobody
    <3> QED BY <1>4, <3>1, <3>2 DEF OnAnswer
  <2>2. UNCHANGED <<exit, scratch>> /\ Heard
    BY <1>4 DEF OnAnswer
  <2> QED BY <1>2, <1>3, <2>1, <2>2
<1>5. CASE OnEntryPause
  <2>1. UNCHANGED <<exit, scratch>> /\ Heard
        /\ (launch' = launch \/ (launch = "entryPause" /\ launch' = "done"))
    BY <1>5 DEF OnEntryPause
  <2> QED BY <1>2, <1>3, <2>1 DEF Unconnected
<1>6. CASE OnRejection \/ OnPaused \/ OnDestroyed \/ OnClosed
  <2>1. UNCHANGED <<exit, scratch, launch>> /\ Heard
    BY <1>6 DEF OnRejection, OnPaused, OnDestroyed, OnClosed
  <2> QED BY <1>2, <1>3, <2>1
<1>7. CASE OnExit
  <2>1. /\ exit = "due" /\ exit' = "told" /\ (scratch' => scratch)
        /\ UNCHANGED <<launch, link>> /\ launch # "none"
    BY <1>7 DEF OnExit, channel, Setup
  <2> QED BY <1>1, <2>1 DEF Stages, Tidy, Alive
<1> QED BY <1>4, <1>5, <1>6, <1>7

LEMMA StagesNext ==
  Inv /\ Stages /\ [Next]_vars => Stages' /\ (Tidy /\ [Patient]_vars => Tidy')
<1> SUFFICES ASSUME Inv, Stages, [Next]_vars
             PROVE  Stages' /\ (Tidy /\ [Patient]_vars => Tidy')
  OBVIOUS
<1>1. CASE EngineTakes \/ Ends \/ Dies \/ Detaches \/ \E place \in Places : Lands(place) \/ Hits(place)
  BY <1>1, StagesProgram
<1>2. CASE \/ LaunchRequest \/ Announces \/ LaunchFails \/ Connects
           \/ \E ok \in BOOLEAN : Compiled(ok)
  BY <1>2, StagesLaunch
<1>3. ASSUME NEW r \in Requests,
             \/ \E kind \in DOMAIN How : StepRequest(r, kind)
             \/ ContinueRequest(r) \/ PauseRequest(r) \/ ConfigurationDone(r) \/ Evaluate(r)
             \/ \E s \in Sources, lines \in Wanted : SetBreakpoints(r, s, lines)
      PROVE  Stages' /\ (Tidy /\ [Patient]_vars => Tidy')
  <2>1. UNCHANGED <<program, killed, link, launch, debuggee, exit, scratch, disconnected>>
    BY <1>3 DEF StepRequest, ContinueRequest, PauseRequest, ConfigurationDone, Evaluate,
                SetBreakpoints, engine, client
  <2> QED BY <2>1, StagesRequests
<1>4. CASE Disconnect
  <2>1. disconnected' # disconnected
    BY <1>4 DEF Disconnect, Asked
  <2>2. [Patient]_vars => launch \in {"done", "failed"}
    BY <2>1 DEF Patient, vars, client
  <2> QED BY <1>4, <2>2, StagesDisconnect
<1>5. CASE OnAnswer \/ OnRejection \/ OnEntryPause \/ OnPaused \/ OnDestroyed \/ OnClosed \/ OnExit
  BY <1>5, StagesHears
<1>6. CASE UNCHANGED vars
  BY <1>6, StagesRequests DEF vars, engine, channel, client
<1> QED BY <1>1, <1>2, <1>3, <1>4, <1>5, <1>6 DEF Next

\* Under a client that disconnects once its launch is answered, a session that
\* is over leaves no program that is not killed, and no scratch directory.
THEOREM NothingStaysBehind == Spec /\ [][Patient]_vars => []NothingIsLeft
<1>1. Init => Stages /\ Tidy
  BY DEF Init, Stages, Tidy
<1>2. Inv /\ [Next]_vars => Inv'
  BY InvNext
<1>3. Inv /\ Stages /\ [Next]_vars => Stages' /\ (Tidy /\ [Patient]_vars => Tidy')
  BY StagesNext
<1>4. Inv /\ Stages /\ Tidy => NothingIsLeft
  BY DEF Tidy, NothingIsLeft
<1> QED BY <1>1, <1>2, <1>3, <1>4, InvInit, PTL DEF Spec
-----------------------------------------------------------------------------
(* What the client sees.                                                   *)

WhatIn(s, whats) == {i \in DOMAIN s : s[i].what \in whats}
KindIn(w, kind) == {i \in DOMAIN w : w[i].kind = kind}
Single(set) == \A i, j \in set : i = j

\* The answer to a request to run on is told before the pause that comes of it.
First(w, r) == \A i, j \in DOMAIN w : w[i].kind = "paused" /\ AnswerFor(w[j], r) => j < i

\* The program goes nowhere, and nothing is on its way that says otherwise.
Still(s, w) ==
  program \in {"paused", "exited"} /\ WhatIn(s, Moves) = {} /\ KindIn(w, "paused") = {}

\* One thing at a time decides where the program goes: itself, a command to
\* move, or the pause that the adapter has not heard of.
Course(s, w) ==
  /\ Single(WhatIn(s, Moves)) /\ Single(KindIn(w, "paused"))
  /\ WhatIn(s, Moves) # {} => program \in {"paused", "exited"} /\ KindIn(w, "paused") = {}
  /\ KindIn(w, "paused") # {} => program \in {"paused", "exited"}
  /\ ~entrySeen => /\ WhatIn(s, Moves) = {}
                   /\ \/ program \in {"waiting", "entering", "ended", "exited"}
                      \/ program = "paused" /\ KindIn(w, "paused") # {}
  /\ entrySeen => program \notin {"none", "booting", "waiting", "entering"}
  /\ entrySeen /\ ~configured => Still(s, w)
  /\ KindIn(w, "destroyed") # {} => program \in {"ended", "exited"}
  /\ KindIn(w, "closed") # {} => program = "exited"
  /\ WhatIn(s, {"run"}) # {} => program \in {"waiting", "exited"}
  /\ launch \in SetupStages \ {"run"} => program \in {"waiting", "exited"}

\* What the client was told of it.
Telling(s, w) ==
  /\ \A r \in RunningOn : ~NoneOf(s, w, r) /\ First(w, r)
  /\ shown = "stopped" /\ RunningOn = {} => Still(s, w)
  /\ configured /\ program = "paused" /\ WhatIn(s, Moves) = {} /\ KindIn(w, "paused") = {}
       => shown = "stopped" /\ RunningOn = {}

\* A connection closes once its program is over, unless the client closed it.
Closed ==
  /\ link = "closing" =>
       \/ program = "exited"
       \/ program = "ended" /\ wire = <<>> /\ WhatIn(sent, {"run"}) = {}
  /\ link = "closed" => program = "exited"

Seen ==
  /\ link = "none" => ~entrySeen /\ shown = "nothing"
  /\ configured => launch = "done"
  /\ launch = "done" => entrySeen /\ shown # "nothing"
  /\ ~configured => shown # "stopped" /\ RunningOn = {}
  /\ shown = "ended" => exit = "told"
  /\ exit = "told" /\ launch # "failed" => shown = "ended"

Progress ==
  /\ Seen
  /\ link = "open" => Course(sent, wire) /\ Telling(sent, wire)
  /\ ~disconnected => Closed

-----------------------------------------------------------------------------

LEMMA WhatAppend ==
  ASSUME NEW S, NEW s \in Seq(S), NEW c, NEW whats
  PROVE  /\ c.what \notin whats => WhatIn(s \o <<c>>, whats) = WhatIn(s, whats)
         /\ c.what \in whats => WhatIn(s \o <<c>>, whats) # {}
         /\ c.what \in whats /\ WhatIn(s, whats) = {} => Single(WhatIn(s \o <<c>>, whats))
<1> DEFINE v == s \o <<c>>
<1>1. /\ DOMAIN v = DOMAIN s \cup {Len(s) + 1} /\ v[Len(s) + 1] = c
      /\ \A i \in DOMAIN s : v[i] = s[i]
  OBVIOUS
<1> HIDE DEF v
<1>2. WhatIn(v, whats) = WhatIn(s, whats) \cup {i \in {Len(s) + 1} : c.what \in whats}
  BY <1>1 DEF WhatIn
<1> QED BY <1>2 DEF Single, v

LEMMA WhatTail ==
  ASSUME NEW S, NEW s \in Seq(S), s # <<>>, NEW whats
  PROVE  /\ Single(WhatIn(s, whats)) => Single(WhatIn(Tail(s), whats))
         /\ Head(s).what \in whats => WhatIn(s, whats) # {}
         /\ Head(s).what \in whats /\ Single(WhatIn(s, whats)) => WhatIn(Tail(s), whats) = {}
         /\ Head(s).what \notin whats => (WhatIn(Tail(s), whats) = {} <=> WhatIn(s, whats) = {})
         /\ WhatIn(s, whats) = {} => WhatIn(Tail(s), whats) = {}
<1> DEFINE v == Tail(s)
<1>1. /\ \A i \in DOMAIN v : i \in Nat \ {0} /\ i + 1 \in DOMAIN s /\ v[i] = s[i + 1]
      /\ \A i \in DOMAIN s : i = 1 \/ (i - 1 \in DOMAIN v /\ v[i - 1] = s[i])
      /\ 1 \in DOMAIN s /\ s[1] = Head(s)
  OBVIOUS
<1> HIDE DEF v
<1>2. Single(WhatIn(s, whats)) => Single(WhatIn(v, whats))
  <2> SUFFICES ASSUME Single(WhatIn(s, whats)), NEW i \in WhatIn(v, whats), NEW j \in WhatIn(v, whats)
               PROVE  i = j
    BY DEF Single
  <2>1. i + 1 \in WhatIn(s, whats) /\ j + 1 \in WhatIn(s, whats) /\ i \in Nat /\ j \in Nat
    BY <1>1 DEF WhatIn
  <2>2. i + 1 = j + 1
    BY <2>1 DEF Single
  <2> QED BY <2>1, <2>2
<1>3. \A i \in WhatIn(v, whats) : i + 1 \in WhatIn(s, whats) /\ i + 1 # 1
  BY <1>1 DEF WhatIn
<1>4. Head(s).what \in whats <=> 1 \in WhatIn(s, whats)
  BY <1>1 DEF WhatIn
<1>5. \A i \in WhatIn(s, whats) : i = 1 \/ i - 1 \in WhatIn(v, whats)
  BY <1>1 DEF WhatIn
<1> QED BY <1>2, <1>3, <1>4, <1>5 DEF Single, v

LEMMA KindAppend ==
  ASSUME NEW S, NEW w \in Seq(S), NEW m, NEW kind
  PROVE  /\ m.kind # kind => KindIn(Append(w, m), kind) = KindIn(w, kind)
         /\ m.kind = kind => KindIn(Append(w, m), kind) # {}
         /\ m.kind = kind /\ KindIn(w, kind) = {} => Single(KindIn(Append(w, m), kind))
<1> DEFINE v == Append(w, m)
<1>1. /\ DOMAIN v = DOMAIN w \cup {Len(w) + 1} /\ v[Len(w) + 1] = m
      /\ \A i \in DOMAIN w : v[i] = w[i]
  OBVIOUS
<1> HIDE DEF v
<1>2. KindIn(v, kind) = KindIn(w, kind) \cup {i \in {Len(w) + 1} : m.kind = kind}
  BY <1>1 DEF KindIn
<1> QED BY <1>2 DEF Single, v

LEMMA KindTail ==
  ASSUME NEW S, NEW w \in Seq(S), w # <<>>, NEW kind
  PROVE  /\ Single(KindIn(w, kind)) => Single(KindIn(Tail(w), kind))
         /\ Head(w).kind = kind => KindIn(w, kind) # {}
         /\ Head(w).kind = kind /\ Single(KindIn(w, kind)) => KindIn(Tail(w), kind) = {}
         /\ Head(w).kind # kind => (KindIn(Tail(w), kind) = {} <=> KindIn(w, kind) = {})
         /\ KindIn(w, kind) = {} => KindIn(Tail(w), kind) = {}
<1> DEFINE v == Tail(w)
<1>1. /\ \A i \in DOMAIN v : i \in Nat \ {0} /\ i + 1 \in DOMAIN w /\ v[i] = w[i + 1]
      /\ \A i \in DOMAIN w : i = 1 \/ (i - 1 \in DOMAIN v /\ v[i - 1] = w[i])
      /\ 1 \in DOMAIN w /\ w[1] = Head(w)
  OBVIOUS
<1> HIDE DEF v
<1>2. Single(KindIn(w, kind)) => Single(KindIn(v, kind))
  <2> SUFFICES ASSUME Single(KindIn(w, kind)), NEW i \in KindIn(v, kind), NEW j \in KindIn(v, kind)
               PROVE  i = j
    BY DEF Single
  <2>1. i + 1 \in KindIn(w, kind) /\ j + 1 \in KindIn(w, kind) /\ i \in Nat /\ j \in Nat
    BY <1>1 DEF KindIn
  <2>2. i + 1 = j + 1
    BY <2>1 DEF Single
  <2> QED BY <2>1, <2>2
<1>3. \A i \in KindIn(v, kind) : i + 1 \in KindIn(w, kind) /\ i + 1 # 1
  BY <1>1 DEF KindIn
<1>4. Head(w).kind = kind <=> 1 \in KindIn(w, kind)
  BY <1>1 DEF KindIn
<1>5. \A i \in KindIn(w, kind) : i = 1 \/ i - 1 \in KindIn(v, kind)
  BY <1>1 DEF KindIn
<1> QED BY <1>2, <1>3, <1>4, <1>5 DEF Single, v

\* What is underway of a handler stays so, and in order, until it is heard.
LEMMA OwnedAppend ==
  ASSUME NEW S, NEW s \in Seq(S), NEW w, NEW c, NEW r
  PROVE  /\ ~NoneOf(s, w, r) => ~NoneOf(s \o <<c>>, w, r)
         /\ c.for = r => ~NoneOf(s \o <<c>>, w, r)
<1> DEFINE v == s \o <<c>>
<1>1. /\ DOMAIN v = DOMAIN s \cup {Len(s) + 1} /\ v[Len(s) + 1] = c
      /\ \A i \in DOMAIN s : v[i] = s[i]
  OBVIOUS
<1> HIDE DEF v
<1>2. /\ ~NoneOf(s, w, r) => ~NoneOf(v, w, r)
      /\ c.for = r => ~NoneOf(v, w, r)
  BY <1>1 DEF NoneOf
<1> QED BY <1>2 DEF v

LEMMA OwnedTell ==
  ASSUME NEW s, NEW M, NEW w \in Seq(M), NEW m, NEW r
  PROVE  /\ ~NoneOf(s, w, r) => ~NoneOf(s, Append(w, m), r)
         /\ First(w, r) /\ ~AnswerFor(m, r) => First(Append(w, m), r)
         /\ KindIn(w, "paused") = {} /\ m.kind # "paused" => First(Append(w, m), r)
<1> DEFINE v == Append(w, m)
<1>1. /\ DOMAIN v = DOMAIN w \cup {Len(w) + 1} /\ v[Len(w) + 1] = m
      /\ \A i \in DOMAIN w : v[i] = w[i] /\ i \in Nat /\ i < Len(w) + 1
  OBVIOUS
<1> HIDE DEF v
<1>2. ~NoneOf(s, w, r) => ~NoneOf(s, v, r)
  BY <1>1 DEF NoneOf
<1>3. First(w, r) /\ ~AnswerFor(m, r) => First(v, r)
  BY <1>1 DEF First
<1>4. KindIn(w, "paused") = {} /\ m.kind # "paused" => First(v, r)
  BY <1>1 DEF First, KindIn
<1> QED BY <1>2, <1>3, <1>4 DEF v

LEMMA OwnedTaken ==
  ASSUME NEW S, NEW s \in Seq(S), NEW M, NEW w \in Seq(M), s # <<>>, NEW ok, NEW r, ~NoneOf(s, w, r)
  PROVE  ~NoneOf(Tail(s), Append(w, Answer(Head(s).for, ok)), r)
<1> DEFINE v == Append(w, Answer(Head(s).for, ok))
           u == Tail(s)
<1>1. /\ \A i \in DOMAIN s : i = 1 \/ (i - 1 \in DOMAIN u /\ u[i - 1] = s[i])
      /\ 1 \in DOMAIN s => s[1] = Head(s)
  OBVIOUS
<1>2. /\ DOMAIN v = DOMAIN w \cup {Len(w) + 1} /\ v[Len(w) + 1] = Answer(Head(s).for, ok)
      /\ \A i \in DOMAIN w : v[i] = w[i]
  OBVIOUS
<1>3. Head(s).for = r => AnswerFor(Answer(Head(s).for, ok), r)
  BY DEF Answer, AnswerFor
<1> HIDE DEF u, v
<1>4. ~NoneOf(u, v, r)
  BY <1>1, <1>2, <1>3 DEF NoneOf
<1> QED BY <1>4 DEF u, v

LEMMA OwnedHeard ==
  ASSUME NEW s, NEW M, NEW w \in Seq(M), w # <<>>, NEW r
  PROVE  /\ ~NoneOf(s, w, r) /\ ~AnswerFor(Head(w), r) => ~NoneOf(s, Tail(w), r)
         /\ First(w, r) => First(Tail(w), r)
<1> DEFINE v == Tail(w)
<1>1. /\ \A i \in DOMAIN v : i \in Nat \ {0} /\ i + 1 \in DOMAIN w /\ v[i] = w[i + 1]
      /\ \A i \in DOMAIN w : i = 1 \/ (i - 1 \in DOMAIN v /\ v[i - 1] = w[i])
      /\ 1 \in DOMAIN w /\ w[1] = Head(w)
  OBVIOUS
<1> HIDE DEF v
<1>2. ~NoneOf(s, w, r) /\ ~AnswerFor(Head(w), r) => ~NoneOf(s, v, r)
  BY <1>1 DEF NoneOf
<1>3. First(w, r) => First(v, r)
  <2> SUFFICES ASSUME First(w, r), NEW i \in DOMAIN v, NEW j \in DOMAIN v,
                      v[i].kind = "paused", AnswerFor(v[j], r)
               PROVE  j < i
    BY DEF First
  <2>1. j + 1 < i + 1
    BY <1>1 DEF First
  <2> QED BY <1>1, <2>1
<1> QED BY <1>2, <1>3 DEF v

LEMMA ProgressEngine ==
  ASSUME Inv, Stages, Progress, EngineTakes
  PROVE  Progress'
<1> DEFINE c == Head(sent)
           m == Answer(c.for, Done(c))
<1>0. /\ UNCHANGED <<link, launch, tasks, entrySeen, exit, shown, configured, disconnected, RunningOn>>
      /\ Alive /\ sent # <<>> /\ sent' = Tail(sent) /\ sent \in Seq(Commands) /\ wire \in Seq(Messages)
      /\ 1 \in DOMAIN sent /\ c = sent[1] /\ c \in Commands
  BY DEF EngineTakes, RunningOn, Inv, Typed, stepping, client
<1>1. Seen'
  BY <1>0 DEF Progress, Seen
<1>2. /\ program' = IF ~Done(c) THEN program
                    ELSE CASE c.what = "resume" -> "running"
                           [] c.what \in Moves \ {"resume"} -> "stepping"
                           [] c.what = "run" -> "entering"
                           [] OTHER -> program
      /\ c.what \in Moves => (Done(c) <=> program = "paused")
      /\ c.what = "run" => Done(c) /\ c.what \notin Moves
      /\ c.what \in Moves => c.what \notin {"run"}
  BY DEF EngineTakes, Done, Moves
<1>3. CASE link = "open"
  <2>1. wire' = Append(wire, m) /\ m.kind = "answer" /\ m.for = c.for
    BY <1>3 DEF EngineTakes, Tell, Answer
  <2> HIDE DEF m
  <2>2. \A kind \in {"paused", "destroyed", "closed"} : KindIn(wire', kind) = KindIn(wire, kind)
    <3> TAKE kind \in {"paused", "destroyed", "closed"}
    <3> QED BY <1>0, <2>1, KindAppend
  <2>3. \A whats :
          /\ Single(WhatIn(sent, whats)) => Single(WhatIn(sent', whats))
          /\ c.what \in whats => WhatIn(sent, whats) # {}
          /\ c.what \in whats /\ Single(WhatIn(sent, whats)) => WhatIn(sent', whats) = {}
          /\ c.what \notin whats => (WhatIn(sent', whats) = {} <=> WhatIn(sent, whats) = {})
          /\ WhatIn(sent, whats) = {} => WhatIn(sent', whats) = {}
    BY <1>0, WhatTail
  <2>4. \A r \in RunningOn : ~NoneOf(sent', wire', r) /\ First(wire', r)
    <3> SUFFICES ASSUME NEW r \in RunningOn
                 PROVE  ~NoneOf(sent', wire', r) /\ First(wire', r)
      OBVIOUS
    <3>1. ~NoneOf(sent, wire, r) /\ First(wire, r)
      BY <1>3 DEF Progress, Telling
    <3>2. ~NoneOf(sent', wire', r)
      BY <1>0, <2>1, <3>1, OwnedTaken DEF m
    <3>3. CASE c.for # r
      <4>1. ~AnswerFor(m, r)
        BY <2>1, <3>3 DEF AnswerFor
      <4> QED BY <1>0, <2>1, <3>1, <3>2, <4>1, OwnedTell
    <3>4. CASE c.for = r
      <4>1. c.what \in Moves
        <5>1. tasks[r].kind = "runOn" /\ r \in Requests
          BY DEF RunningOn
        <5> QED BY <1>0, <1>3, <3>4, <5>1 DEF Inv, Channels, Connected, InStep, Fits
      <4>2. KindIn(wire, "paused") = {}
        BY <1>3, <2>3, <4>1 DEF Progress, Course
      <4> QED BY <1>0, <2>1, <3>2, <4>2, OwnedTell
    <3> QED BY <3>3, <3>4
  <2>5. CASE c.what \in Moves
    <3>1. /\ program = "paused" /\ program' \in {"running", "stepping"}
          /\ entrySeen /\ configured /\ WhatIn(sent, Moves) # {}
      BY <1>0, <1>2, <1>3, <2>3, <2>5 DEF Progress, Course, Still, Alive, Moves
    <3>2. Course(sent, wire)'
      BY <1>0, <1>3, <2>2, <2>3, <2>5, <3>1 DEF Progress, Course, Still, Single
    <3>3. Telling(sent, wire)'
      BY <1>0, <1>3, <2>4, <3>1 DEF Progress, Telling, Still
    <3> QED BY <1>0, <1>1, <1>3, <3>2, <3>3 DEF Progress, Closed
  <2>6. CASE c.what = "run"
    <3>1. program = "waiting" /\ program' = "entering" /\ ~entrySeen
      BY <1>0, <1>2, <1>3, <2>3, <2>6 DEF Progress, Course, Alive
    <3>2. WhatIn(sent, Moves) = {} /\ KindIn(wire, "paused") = {}
      BY <1>3, <3>1 DEF Progress, Course
    <3>3. WhatIn(sent', {"run"}) = {} /\ launch = "run"
      <4>1. c.for = "launch"
        BY <1>0, <2>6 DEF Commands, Planters, Moves
      <4>2. launch = "run"
        BY <1>0, <1>3, <2>6, <4>1 DEF Inv, Channels, Connected, InStep
      <4>3. OneOf(sent, wire, "launch")
        BY <1>3 DEF Inv, Channels, Connected, InStep
      <4>4. \A i \in DOMAIN sent : sent[i].what = "run" => sent[i].for = "launch"
        BY <1>0 DEF Commands, Planters, Moves
      <4>5. Single(WhatIn(sent, {"run"}))
        BY <4>3, <4>4 DEF OneOf, Single, WhatIn
      <4> QED BY <2>3, <2>6, <4>2, <4>5
    <3>4. Course(sent, wire)'
      BY <1>0, <1>3, <2>2, <2>3, <3>1, <3>2, <3>3 DEF Progress, Course, Still, Single
    <3>5. shown # "stopped"
      BY <3>3 DEF Progress, Seen
    <3>6. Telling(sent, wire)'
      BY <1>0, <1>3, <2>4, <3>1, <3>5 DEF Progress, Telling
    <3> QED BY <1>0, <1>1, <1>3, <3>4, <3>6 DEF Progress, Closed
  <2>7. CASE c.what \notin Moves /\ c.what # "run"
    <3>1. program' = program
      BY <1>2, <2>7, Zenon DEF Moves
    <3>2. Course(sent, wire)'
      BY <1>0, <1>3, <2>2, <2>3, <2>7, <3>1 DEF Progress, Course, Still
    <3>3. Telling(sent, wire)'
      BY <1>0, <1>3, <2>2, <2>3, <2>4, <2>7, <3>1 DEF Progress, Telling, Still
    <3> QED BY <1>0, <1>1, <1>3, <3>2, <3>3 DEF Progress, Closed
  <2> QED BY <2>5, <2>6, <2>7
<1>4. CASE link # "open"
  <2>1. link = "closing" /\ wire' = wire
    BY <1>4 DEF EngineTakes, Attached, Tell
  <2>2. ASSUME ~disconnected
        PROVE  Closed'
    <3>1. program = "ended" /\ wire = <<>> /\ WhatIn(sent, {"run"}) = {}
      BY <1>0, <2>1, <2>2 DEF Progress, Closed, Alive
    <3>2. c.what # "run" /\ WhatIn(sent', {"run"}) = {}
      BY <1>0, <3>1, WhatTail
    <3>3. program' = "ended"
      BY <1>2, <3>1, <3>2, Zenon DEF Moves
    <3> QED BY <1>0, <2>1, <3>1, <3>2, <3>3 DEF Closed
  <2> QED BY <1>0, <1>1, <1>4, <2>2 DEF Progress
<1> QED BY <1>3, <1>4

LEMMA ProgressProgram ==
  ASSUME Inv, Stages, Progress,
         \/ \E place \in Places : Lands(place) \/ Hits(place)
         \/ Ends \/ Dies \/ Detaches
  PROVE  Progress'
<1>0. /\ UNCHANGED <<link, sent, launch, tasks, entrySeen, shown, configured, disconnected, RunningOn>>
      /\ wire \in Seq(Messages) /\ Alive
  BY DEF Lands, Hits, Stops, Ends, Dies, Detaches, RunningOn, Inv, Typed, Alive, stepping, client
<1>1. exit' = "told" <=> exit = "told"
  BY <1>0 DEF Lands, Hits, Stops, Ends, Dies, Detaches, Stages, Alive
<1>2. Seen'
  BY <1>0, <1>1 DEF Progress, Seen
<1>3. ASSUME NEW m, wire' = Append(wire, m), m.kind \in {"paused", "destroyed", "closed"}, link = "open"
      PROVE  /\ \A kind \in {"paused", "destroyed", "closed"} : m.kind # kind => KindIn(wire', kind) = KindIn(wire, kind)
             /\ \A r \in RunningOn : ~NoneOf(sent, wire', r) /\ First(wire', r)
             /\ KindIn(wire', m.kind) # {}
             /\ KindIn(wire, m.kind) = {} => Single(KindIn(wire', m.kind))
  <2>1. \A kind \in {"paused", "destroyed", "closed"} : m.kind # kind => KindIn(wire', kind) = KindIn(wire, kind)
    BY <1>0, <1>3, KindAppend
  <2>2. \A r \in RunningOn : ~NoneOf(sent, wire', r) /\ First(wire', r)
    <3> TAKE r \in RunningOn
    <3>1. ~NoneOf(sent, wire, r) /\ First(wire, r) /\ ~AnswerFor(m, r)
      BY <1>3 DEF Progress, Telling, AnswerFor
    <3> QED BY <1>0, <1>3, <3>1, OwnedTell
  <2>3. KindIn(wire', m.kind) # {} /\ (KindIn(wire, m.kind) = {} => Single(KindIn(wire', m.kind)))
    BY <1>0, <1>3, KindAppend
  <2> QED BY <2>1, <2>2, <2>3
<1>4. CASE \E place \in Places : Lands(place) \/ Hits(place)
  <2>1. PICK place \in Places, reason \in {"step", "breakpoint", "exception"} : Stops(reason, place)
    BY <1>4 DEF Lands, Hits
  <2>2. program \in {"entering", "running", "stepping"} /\ program' = "paused"
    BY <1>4 DEF Lands, Hits, Stops
  <2> DEFINE m == Paused(reason, place)
  <2>3. m.kind = "paused" /\ Tell(m) /\ link \in {"open", "closing"}
    BY <2>1 DEF Stops, Paused, Attached
  <2> HIDE DEF m
  <2>4. CASE link = "open"
    <3>1. wire' = Append(wire, m)
      BY <2>3, <2>4 DEF Tell
    <3>2. /\ KindIn(wire', "paused") # {}
          /\ KindIn(wire, "paused") = {} => Single(KindIn(wire', "paused"))
          /\ \A kind \in {"destroyed", "closed"} : KindIn(wire', kind) = KindIn(wire, kind)
          /\ \A r \in RunningOn : ~NoneOf(sent, wire', r) /\ First(wire', r)
      BY <1>3, <2>3, <2>4, <3>1
    <3>3. WhatIn(sent, Moves) = {} /\ KindIn(wire, "paused") = {} /\ ~Still(sent, wire)
      BY <2>2, <2>4 DEF Progress, Course, Still
    <3>4. Course(sent, wire)'
      BY <1>0, <2>2, <2>4, <3>2, <3>3 DEF Progress, Course, Still, Single
    <3>5. Telling(sent, wire)'
      BY <1>0, <2>4, <3>2, <3>3 DEF Progress, Telling
    <3> QED BY <1>0, <1>2, <2>4, <3>4, <3>5 DEF Progress, Closed
  <2>5. CASE link = "closing"
    BY <1>0, <1>2, <2>2, <2>5 DEF Progress, Closed
  <2> QED BY <2>3, <2>4, <2>5
<1>5. CASE Ends
  <2>1. program \in {"entering", "running", "stepping"}
    BY <1>5 DEF Ends
  <2>2. CASE link = "open"
    <3> DEFINE m == Event("destroyed")
    <3>1. program' = "ended" /\ wire' = Append(wire, m) /\ m.kind = "destroyed"
      BY <1>5, <2>2 DEF Ends, Attached, Tell, Event
    <3> HIDE DEF m
    <3>2. /\ KindIn(wire', "destroyed") # {}
          /\ \A kind \in {"paused", "closed"} : KindIn(wire', kind) = KindIn(wire, kind)
          /\ \A r \in RunningOn : ~NoneOf(sent, wire', r) /\ First(wire', r)
      BY <1>3, <2>2, <3>1
    <3>3. WhatIn(sent, Moves) = {} /\ KindIn(wire, "paused") = {} /\ ~Still(sent, wire)
      BY <2>1, <2>2 DEF Progress, Course, Still
    <3>4. Course(sent, wire)'
      BY <1>0, <2>1, <2>2, <3>1, <3>2, <3>3 DEF Progress, Course, Still, Single
    <3>5. Telling(sent, wire)'
      BY <1>0, <2>2, <3>1, <3>2, <3>3 DEF Progress, Telling
    <3> QED BY <1>0, <1>2, <2>2, <3>4, <3>5 DEF Progress, Closed
  <2>3. CASE link # "open"
    <3>1. ~disconnected => ~(link = "closing") /\ ~(link = "closed")
      BY <2>1, <2>3 DEF Progress, Closed
    <3> QED BY <1>0, <1>2, <2>3, <3>1 DEF Progress, Closed
  <2> QED BY <2>2, <2>3
<1>6. CASE Dies
  <2>1. program' = "exited"
    BY <1>6 DEF Dies
  <2>2. CASE link = "open"
    <3> DEFINE m == Event("closed")
    <3>1. wire' = Append(wire, m) /\ m.kind = "closed"
      BY <1>6, <2>2 DEF Dies, Attached, Event
    <3> HIDE DEF m
    <3>2. /\ \A kind \in {"paused", "destroyed"} : KindIn(wire', kind) = KindIn(wire, kind)
          /\ \A r \in RunningOn : ~NoneOf(sent, wire', r) /\ First(wire', r)
      BY <1>3, <2>2, <3>1
    <3>3. Course(sent, wire)'
      BY <1>0, <2>1, <2>2, <3>2 DEF Progress, Course, Still
    <3>4. Telling(sent, wire)'
      BY <1>0, <2>1, <2>2, <3>2 DEF Progress, Telling, Still
    <3> QED BY <1>0, <1>2, <2>2, <3>3, <3>4 DEF Progress, Closed
  <2>3. CASE link # "open"
    BY <1>0, <1>2, <2>1, <2>3 DEF Progress, Closed
  <2> QED BY <2>2, <2>3
<1>7. CASE Detaches
  <2>1. link = "closing" /\ program' = CASE program = "ended" -> "exited"
                                         [] program = "waiting" -> "waiting"
                                         [] OTHER -> "running"
    BY <1>7 DEF Detaches
  <2>2. ~disconnected => program = "ended"
    BY <1>0, <2>1 DEF Progress, Closed, Alive
  <2> QED BY <1>0, <1>2, <2>1, <2>2 DEF Progress, Closed
<1> QED BY <1>4, <1>5, <1>6, <1>7

LEMMA ProgressLaunch ==
  ASSUME Inv, Stages, Progress,
         \/ LaunchRequest \/ Announces \/ LaunchFails \/ Connects
         \/ \E ok \in BOOLEAN : Compiled(ok)
  PROVE  Progress'
<1>0. /\ launch \in Unconnected \ {"failed"} /\ link = "none" /\ exit # "told" /\ ~configured
      /\ UNCHANGED <<wire, tasks, entrySeen, shown, configured, disconnected, RunningOn>>
      /\ RunningOn = {}
  <2>1. launch \in Unconnected \ {"failed"} /\ UNCHANGED <<wire, tasks, entrySeen, shown, configured, disconnected>>
    BY DEF LaunchRequest, Announces, LaunchFails, Connects, Compiled, Unconnected, channel, stepping, client
  <2>2. link = "none"
    BY <2>1 DEF Inv, Channels
  <2>3. ~configured /\ exit # "told"
    BY <2>1, <2>2 DEF Progress, Seen, Unconnected
  <2>4. RunningOn = {} /\ RunningOn' = RunningOn
    BY <2>1, <2>3 DEF Progress, Seen, RunningOn
  <2> QED BY <2>1, <2>2, <2>3, <2>4
<1>1. CASE LaunchRequest \/ Announces \/ LaunchFails \/ \E ok \in BOOLEAN : Compiled(ok)
  <2>1. /\ link' = "none" /\ launch' \in Unconnected
        /\ exit' = exit \/ launch' = "failed"
    BY <1>0, <1>1 DEF LaunchRequest, Announces, LaunchFails, Compiled, Unconnected, channel
  <2> QED BY <1>0, <2>1 DEF Progress, Seen, Closed, Unconnected
<1>2. CASE Connects
  <2> DEFINE c == Command("launch", "enableRuntime", None)
  <2>1. /\ program = "waiting" /\ program' = "waiting" /\ launch' = "enableRuntime" /\ link' = "open"
        /\ sent' = <<c>> /\ wire' = <<>> /\ exit' = exit /\ c.what = "enableRuntime"
    BY <1>0, <1>2 DEF Connects, Inv, Channels, Command, engine
  <2> HIDE DEF c
  <2>2. WhatIn(sent', Moves) = {} /\ WhatIn(sent', {"run"}) = {}
    <3>1. DOMAIN sent' = {1} /\ sent'[1] = c
      BY <2>1
    <3> QED BY <2>1, <3>1 DEF WhatIn, Moves
  <2>3. \A kind : KindIn(wire', kind) = {}
    BY <2>1 DEF KindIn
  <2>4. ~entrySeen /\ shown = "nothing"
    BY <1>0 DEF Progress, Seen
  <2>5. Course(sent, wire)'
    BY <1>0, <2>1, <2>2, <2>3, <2>4 DEF Course, Single
  <2>6. Telling(sent, wire)'
    BY <1>0, <2>1, <2>4 DEF Telling
  <2>7. Seen'
    BY <1>0, <2>1, <2>4 DEF Seen
  <2> QED BY <2>1, <2>5, <2>6, <2>7 DEF Progress, Closed
<1> QED BY <1>1, <1>2

\* To ask to run on takes a program that is still.
LEMMA ProgressMoves ==
  ASSUME Inv, Stages, Progress, OneByOne', NEW r \in Requests,
         NEW kind \in {"runOn", "configuration"}, NEW what \in Moves,
         Asked, Awaits(r, kind, what),
         UNCHANGED <<program, link, wire, launch, entrySeen, exit, disconnected>>,
         IF kind = "runOn" THEN shown = "stopped" /\ configured' = configured
         ELSE ~configured /\ configured' = TRUE /\ launch = "done"
  PROVE  Progress'
<1>1. launch = "done" /\ link # "none" /\ entrySeen /\ ~disconnected /\ debuggee /\ configured'
  <2>1. launch = "done"
    BY DEF Progress, Seen
  <2> QED BY <2>1 DEF Inv, Channels, Unconnected, Stages, Asked, Progress, Seen, Typed
<1>2. CASE link = "open"
  <2> DEFINE c == Command(r, what, None)
  <2>1. /\ sent' = sent \o <<c>> /\ tasks' = [tasks EXCEPT ![r] = Plain(kind)] /\ shown' = shown
        /\ c.what = what /\ c.for = r /\ sent \in Seq(Commands) /\ tasks[r] = None
        /\ what \notin {"run"}
    BY <1>1, <1>2 DEF Awaits, Send, Command, Inv, Typed, Moves
  <2> HIDE DEF c
  <2>2. RunningOn' = RunningOn \cup (IF kind = "runOn" THEN {r} ELSE {}) /\ r \notin RunningOn
    BY <2>1, PlainTyped DEF RunningOn, Inv, Typed
  <2>3. RunningOn = {}
    <3>1. CASE kind = "runOn"
      <4> SUFFICES ASSUME NEW q \in RunningOn
                   PROVE  FALSE
        OBVIOUS
      <4>1. q # r /\ q \in RunningOn' /\ r \in RunningOn'
        BY <2>2, <3>1
      <4>2. IsFiniteSet(RunningOn') /\ Cardinality(RunningOn') <= 1
        BY SetsAssumption, FS_Subset DEF RunningOn, OneByOne
      <4> QED BY <4>1, <4>2, AtMostOne
    <3>2. CASE kind = "configuration"
      BY <3>2 DEF Progress, Seen
    <3> QED BY <3>1, <3>2
  <2>4. Still(sent, wire)
    BY <1>1, <1>2, <2>3 DEF Progress, Course, Telling
  <2>5. /\ WhatIn(sent', {"run"}) = WhatIn(sent, {"run"})
        /\ WhatIn(sent', Moves) # {} /\ Single(WhatIn(sent', Moves))
    BY <2>1, <2>4, WhatAppend DEF Still
  <2>6. ~NoneOf(sent', wire', r) /\ First(wire', r)
    BY <2>1, <2>4, OwnedAppend DEF Still, First, KindIn
  <2>7. Seen'
    BY <1>1, <2>1, <2>2, <2>3 DEF Progress, Seen
  <2>8. Course(sent, wire)'
    BY <1>1, <1>2, <2>4, <2>5 DEF Progress, Course, Still
  <2>9. Telling(sent, wire)'
    <3>1. \A q \in RunningOn' : q = r
      BY <2>2, <2>3
    <3>2. kind = "runOn" => RunningOn' # {}
      BY <2>2
    <3>3. kind # "runOn" => shown # "stopped"
      BY DEF Progress, Seen
    <3> QED BY <2>1, <2>5, <2>6, <3>1, <3>2, <3>3 DEF Telling
  <2> QED BY <1>2, <2>7, <2>8, <2>9 DEF Progress, Closed
<1>3. CASE link # "open"
  <2>1. UNCHANGED <<tasks, sent, RunningOn>> /\ Responds(kind)
    BY <1>3 DEF Awaits, RunningOn
  <2>2. Seen'
    BY <1>1, <2>1 DEF Progress, Seen, Responds, Shows
  <2> QED BY <1>3, <2>1, <2>2 DEF Progress, Closed
<1> QED BY <1>2, <1>3

\* Anything else that is sent moves nothing.
LEMMA ProgressSends ==
  ASSUME Inv, Progress,
         UNCHANGED <<program, link, wire, launch, entrySeen, exit, configured, disconnected, shown,
                     RunningOn>>,
         sent' = sent \/ \E c : c.what \notin Moves \cup {"run"} /\ sent' = sent \o <<c>>
  PROVE  Progress'
<1>1. /\ \A whats \in {Moves, {"run"}} : WhatIn(sent', whats) = WhatIn(sent, whats)
      /\ \A r : ~NoneOf(sent, wire, r) => ~NoneOf(sent', wire, r)
  <2>1. CASE sent' = sent
    BY <2>1
  <2>2. ASSUME NEW c, c.what \notin Moves \cup {"run"}, sent' = sent \o <<c>>
        PROVE  /\ \A whats \in {Moves, {"run"}} : WhatIn(sent', whats) = WhatIn(sent, whats)
               /\ \A r : ~NoneOf(sent, wire, r) => ~NoneOf(sent', wire, r)
    <3>1. sent \in Seq(Commands)
      BY DEF Inv, Typed
    <3> QED BY <2>2, <3>1, WhatAppend, OwnedAppend
  <2> QED BY <2>1, <2>2
<1>2. Seen'
  BY DEF Progress, Seen
<1>3. link = "open" => Course(sent, wire)'
  BY <1>1 DEF Progress, Course, Still
<1>4. link = "open" => Telling(sent, wire)'
  BY <1>1 DEF Progress, Telling, Still
<1> QED BY <1>1, <1>2, <1>3, <1>4 DEF Progress, Closed

LEMMA GoOnSends ==
  ASSUME Inv, NEW r \in Requests, NEW t \in Tasks, t.kind = "breakpoints", BreakpointsGoOn(r, t),
         tasks[r] = None \/ tasks[r].kind = "breakpoints"
  PROVE  /\ RunningOn' = RunningOn
         /\ sent' = sent \/ \E c : c.what \notin Moves \cup {"run"} /\ sent' = sent \o <<c>>
<1>1. tasks' = [tasks EXCEPT ![r] = t] \/ tasks' = [tasks EXCEPT ![r] = None]
  BY DEF BreakpointsGoOn
<1>2. RunningOn' = RunningOn
  BY <1>1 DEF RunningOn, Inv, Typed
<1>3. NextOf(r, t) = <<>> \/ \E c : c.what \notin Moves \cup {"run"} /\ NextOf(r, t) = <<c>>
  BY DEF NextOf, Command, Moves
<1>4. sent \o <<>> = sent
  BY DEF Inv, Typed
<1> QED BY <1>2, <1>3, <1>4 DEF BreakpointsGoOn, Send

LEMMA ProgressRequests ==
  ASSUME Inv, Stages, Progress, OneByOne', NEW r \in Requests,
         \/ \E kind \in DOMAIN How : StepRequest(r, kind)
         \/ ContinueRequest(r) \/ PauseRequest(r) \/ ConfigurationDone(r) \/ Evaluate(r)
         \/ \E s \in Sources, lines \in Wanted : SetBreakpoints(r, s, lines)
  PROVE  Progress'
<1>0. "stepInto" \in Moves /\ "resume" \in Moves /\ "pause" \notin Moves \cup {"run"}
      /\ "evaluate" \notin Moves \cup {"run"} /\ \A kind \in DOMAIN How : How[kind] \in Moves
  BY DEF Moves, How
<1>1. ASSUME NEW kind \in DOMAIN How, StepRequest(r, kind)
      PROVE  Progress'
  <2>1. /\ Asked /\ shown = "stopped" /\ Awaits(r, "runOn", How[kind])
        /\ UNCHANGED <<program, link, wire, launch, entrySeen, exit, configured, disconnected>>
    BY <1>1 DEF StepRequest, engine
  <2> QED BY <1>0, <2>1, ProgressMoves
<1>2. CASE ContinueRequest(r)
  <2>1. /\ Asked /\ shown = "stopped" /\ Awaits(r, "runOn", "resume")
        /\ UNCHANGED <<program, link, wire, launch, entrySeen, exit, configured, disconnected>>
    BY <1>2 DEF ContinueRequest, engine
  <2> QED BY <1>0, <2>1, ProgressMoves
<1>3. CASE PauseRequest(r)
  <2>1. UNCHANGED <<program, link, wire, launch, entrySeen, exit, configured, disconnected>>
    BY <1>3 DEF PauseRequest, engine, stepping
  <2>2. /\ shown' = shown /\ tasks[r] = None
        /\ \/ UNCHANGED <<tasks, sent>>
           \/ /\ tasks' = [tasks EXCEPT ![r] = Plain("pause")]
              /\ sent' = sent \o <<Command(r, "pause", None)>>
    BY <1>3 DEF PauseRequest, Awaits, Responds, Send
  <2>3. RunningOn' = RunningOn
    BY <2>2, PlainTyped DEF RunningOn, Inv, Typed
  <2>4. Command(r, "pause", None).what = "pause"
    BY DEF Command
  <2> QED BY <1>0, <2>1, <2>2, <2>3, <2>4, ProgressSends
<1>4. CASE ConfigurationDone(r)
  <2>1. /\ UNCHANGED <<program, link, wire, launch, entrySeen, exit, disconnected>>
        /\ Asked /\ launch = "done" /\ ~configured /\ configured' = TRUE
    BY <1>4 DEF ConfigurationDone, BeginStep, engine
  <2>2. debuggee
    <3>1. link # "none" /\ ~disconnected
      BY <2>1 DEF Inv, Channels, Unconnected, Asked
    <3> QED BY <3>1 DEF Stages
  <2>3. CASE Awaits(r, "configuration", "stepInto")
    BY <1>0, <2>1, <2>3, ProgressMoves
  <2>4. CASE Awaits(r, "configuration", "resume")
    BY <1>0, <2>1, <2>4, ProgressMoves
  <2> QED BY <1>4, <2>2, <2>3, <2>4 DEF ConfigurationDone
<1>5. CASE Evaluate(r)
  <2>1. UNCHANGED <<program, link, wire, launch, entrySeen, exit, shown, configured, disconnected>>
    BY <1>5 DEF Evaluate, engine, stepping, client
  <2>2. /\ tasks[r] = None
        /\ \/ UNCHANGED <<tasks, sent>>
           \/ /\ tasks' = [tasks EXCEPT ![r] = Plain("evaluate")]
              /\ sent' = sent \o <<Command(r, "evaluate", None)>>
    BY <1>5 DEF Evaluate, Send
  <2>3. RunningOn' = RunningOn
    BY <2>2, PlainTyped DEF RunningOn, Inv, Typed
  <2>4. Command(r, "evaluate", None).what = "evaluate"
    BY DEF Command
  <2> QED BY <1>0, <2>1, <2>2, <2>3, <2>4, ProgressSends
<1>6. ASSUME NEW s \in Sources, NEW lines \in Wanted, SetBreakpoints(r, s, lines)
      PROVE  Progress'
  <2> DEFINE t == [kind |-> "breakpoints", src |-> s, old |-> ledger[s],
                   wanted |-> lines, got |-> <<>>]
  <2>1. UNCHANGED <<program, link, wire, launch, entrySeen, exit, shown, configured, disconnected>>
        /\ tasks[r] = None
    BY <1>6 DEF SetBreakpoints, engine, stepping, client
  <2>2. t \in Tasks /\ t.kind = "breakpoints"
    BY SetsAssumption DEF Inv, Typed, Tasks
  <2>3. BreakpointsGoOn(r, t) \/ UNCHANGED <<tasks, sent>>
    BY <1>6 DEF SetBreakpoints
  <2> HIDE DEF t
  <2>4. /\ RunningOn' = RunningOn
        /\ sent' = sent \/ \E c : c.what \notin Moves \cup {"run"} /\ sent' = sent \o <<c>>
    <3>1. CASE BreakpointsGoOn(r, t)
      BY <2>1, <2>2, <3>1, GoOnSends
    <3>2. CASE UNCHANGED <<tasks, sent>>
      BY <3>2 DEF RunningOn
    <3> QED BY <2>3, <3>1, <3>2
  <2> QED BY <2>1, <2>4, ProgressSends
<1> QED BY <1>1, <1>2, <1>3, <1>4, <1>5, <1>6

LEMMA ProgressDisconnect ==
  ASSUME Inv, Stages, Progress, Disconnect
  PROVE  Progress'
<1>1. /\ UNCHANGED <<program, launch, sent, tasks, exit, entrySeen, shown, configured, RunningOn>>
      /\ ~disconnected /\ disconnected'
  BY DEF Disconnect, Asked, RunningOn, engine, stepping
<1>2. link' # "open" /\ (link' = "none" => link = "none")
  <2>1. CASE debuggee
    BY <2>1 DEF Disconnect, Close, Inv, Channels
  <2>2. CASE ~debuggee
    <3>1. link = "none" /\ link' = link
      BY <1>1, <2>2 DEF Disconnect, Stages
    <3> QED BY <3>1
  <2> QED BY <2>1, <2>2
<1>3. Seen'
  BY <1>1, <1>2 DEF Progress, Seen
<1> QED BY <1>1, <1>2, <1>3 DEF Progress

\* An answer is no news of where the program is: its handler may ask for more,
\* or respond that the program runs.
LEMMA ProgressAnswer ==
  ASSUME Inv, Progress, Seen', link = "open", wire # <<>>, Head(wire).kind = "answer",
         wire' = Tail(wire), UNCHANGED <<program, link, entrySeen, configured, disconnected>>,
         \/ sent' = sent
         \/ \E c : /\ c.what \notin Moves /\ sent' = sent \o <<c>>
                   /\ c.what = "run" => program \in {"waiting", "exited"},
         RunningOn' \subseteq RunningOn, \A r \in RunningOn' : ~AnswerFor(Head(wire), r),
         launch' \in SetupStages \ {"run"} => launch \in SetupStages \ {"run"},
         \/ shown' = shown /\ RunningOn' = RunningOn
         \/ shown' # "stopped" /\ (RunningOn # {} \/ ~configured)
  PROVE  Progress'
<1>0. sent \in Seq(Commands) /\ wire \in Seq(Messages)
  BY DEF Inv, Typed
<1>1. \A kind \in {"paused", "destroyed", "closed"} :
        /\ KindIn(wire', kind) = {} <=> KindIn(wire, kind) = {}
        /\ Single(KindIn(wire, kind)) => Single(KindIn(wire', kind))
  <2> TAKE kind \in {"paused", "destroyed", "closed"}
  <2> QED BY <1>0, KindTail
<1>2. /\ WhatIn(sent', Moves) = WhatIn(sent, Moves)
      /\ WhatIn(sent', {"run"}) = WhatIn(sent, {"run"}) \/ program \in {"waiting", "exited"}
      /\ \A r : ~NoneOf(sent, wire', r) => ~NoneOf(sent', wire', r)
  <2>1. CASE sent' = sent
    BY <2>1
  <2>2. ASSUME NEW c, c.what \notin Moves, sent' = sent \o <<c>>,
               c.what = "run" => program \in {"waiting", "exited"}
        PROVE  /\ WhatIn(sent', Moves) = WhatIn(sent, Moves)
               /\ WhatIn(sent', {"run"}) = WhatIn(sent, {"run"}) \/ program \in {"waiting", "exited"}
               /\ \A r : ~NoneOf(sent, wire', r) => ~NoneOf(sent', wire', r)
    <3>1. WhatIn(sent', Moves) = WhatIn(sent, Moves)
      BY <1>0, <2>2, WhatAppend
    <3>2. c.what # "run" => WhatIn(sent', {"run"}) = WhatIn(sent, {"run"})
      BY <1>0, <2>2, WhatAppend
    <3>3. \A r : ~NoneOf(sent, wire', r) => ~NoneOf(sent', wire', r)
      BY <1>0, <2>2, OwnedAppend
    <3> QED BY <2>2, <3>1, <3>2, <3>3
  <2> QED BY <2>1, <2>2
<1>3. \A r \in RunningOn' : ~NoneOf(sent', wire', r) /\ First(wire', r)
  <2> TAKE r \in RunningOn'
  <2>1. ~NoneOf(sent, wire, r) /\ First(wire, r) /\ ~AnswerFor(Head(wire), r)
    BY DEF Progress, Telling
  <2>2. ~NoneOf(sent, wire', r) /\ First(wire', r)
    BY <1>0, <2>1, OwnedHeard
  <2> QED BY <1>2, <2>2
<1>4. Course(sent, wire)'
  BY <1>1, <1>2 DEF Progress, Course, Still
<1>5. Telling(sent, wire)'
  BY <1>1, <1>2, <1>3 DEF Progress, Telling, Still
<1> QED BY <1>4, <1>5 DEF Progress, Closed

LEMMA ProgressAnswers ==
  ASSUME Inv, Stages, Progress, OnAnswer
  PROVE  Progress'
<1> DEFINE m == Head(wire)
<1>0. /\ wire # <<>> /\ m.kind = "answer" /\ wire' = Tail(wire) /\ link = "open"
      /\ 1 \in DOMAIN wire /\ m = wire[1] /\ m \in Messages
      /\ UNCHANGED <<program, link, entrySeen, exit, configured, disconnected>>
      /\ launch \notin Unconnected
  BY DEF OnAnswer, Heard, Inv, Typed, Channels, engine, stepping
<1>1. CASE AnswersLaunch(m)
  <2>1. launch \in SetupStages /\ tasks' = tasks /\ RunningOn' = RunningOn
    BY <1>0, <1>1, Listening DEF AnswersLaunch, AnswerFor, RunningOn, Inv
  <2>2. \A r \in RunningOn : ~AnswerFor(m, r)
    BY <1>1, SetsAssumption DEF AnswersLaunch, AnswerFor, RunningOn
  <2>3. ~configured
    BY <2>1 DEF Progress, Seen, SetupStages
  <2>4. /\ DOMAIN Setup = SetupStages
        /\ Setup[launch] \in SetupStages => Setup[launch] \notin Moves
        /\ Setup[launch] = "run" => launch \in SetupStages \ {"run"}
        /\ launch \notin SetupStages \ {"run"} => Setup[launch] = "entryPause"
    BY <2>1 DEF Setup, SetupStages, Moves
  <2>5. CASE Setup[launch] \in SetupStages
    <3> DEFINE c == Command("launch", Setup[launch], None)
    <3>1. c.what = Setup[launch] /\ sent' = sent \o <<c>> /\ launch' = Setup[launch] /\ shown' = shown
      BY <1>0, <1>1, <2>4, <2>5 DEF AnswersLaunch, Send, Command
    <3> HIDE DEF c
    <3>2. c.what = "run" => program \in {"waiting", "exited"}
      BY <1>0, <2>4, <3>1 DEF Progress, Course
    <3>3. Seen'
      BY <1>0, <2>1, <2>3, <2>5, <3>1 DEF Progress, Seen, SetupStages, Unconnected
    <3>4. launch' \in SetupStages \ {"run"} => launch \in SetupStages \ {"run"}
      BY <2>4, <3>1 DEF SetupStages
    <3> QED BY <1>0, <2>1, <2>2, <2>4, <2>5, <3>1, <3>2, <3>3, <3>4, ProgressAnswer
  <2>6. CASE Setup[launch] \notin SetupStages
    <3>1. /\ sent' = sent /\ launch' \in {"entryPause", "done"} /\ (launch' = "done" => entrySeen)
          /\ IF entrySeen THEN Shows("running") ELSE shown' = shown
          /\ ~entrySeen => launch' # "done"
      BY <1>1, <2>4, <2>6, <2>1 DEF AnswersLaunch, Setup, SetupStages
    <3>2. Seen'
      BY <1>0, <2>1, <2>3, <3>1 DEF Progress, Seen, Shows, Unconnected
    <3>3. shown' # "stopped"
      BY <2>3, <3>1 DEF Progress, Seen, Shows
    <3>4. launch' \notin SetupStages
      BY <3>1 DEF SetupStages
    <3> QED BY <1>0, <2>1, <2>2, <2>3, <3>1, <3>2, <3>3, <3>4, ProgressAnswer
  <2> QED BY <2>5, <2>6
<1>2. CASE AnswersTask(m)
  <2> DEFINE r == m.for
             t == tasks[r]
  <2>1. r \in Requests /\ t \in Tasks /\ launch' = launch /\ t # None /\ m.ok \in BOOLEAN
    <3>1. m.ok \in BOOLEAN
      BY <1>0 DEF Messages
    <3> QED BY <1>0, <1>2, <3>1, Listening, NoneAssumption DEF AnswersTask, AnswerFor, Inv
  <2>2. \A q \in RunningOn \ {r} : ~AnswerFor(m, q)
    BY DEF AnswerFor
  <2>3. CASE t.kind = "breakpoints"
    <3>1. t.src \in Sources /\ NextOf(r, t) # <<>>
      BY <1>0, <2>1, <2>3, NoneAssumption DEF Inv, Channels, Connected, InStep, Works
    <3>2. /\ Answered(t, m.ok) \in Tasks /\ Answered(t, m.ok).kind = "breakpoints"
      BY <2>1, <2>3, <3>1, AnsweredTyped
    <3>3. BreakpointsGoOn(r, Answered(t, m.ok)) /\ shown' = shown
      BY <1>2, <2>3 DEF AnswersTask, Answered
    <3>4. /\ RunningOn' = RunningOn
          /\ sent' = sent \/ \E c : c.what \notin Moves \cup {"run"} /\ sent' = sent \o <<c>>
      BY <2>1, <2>3, <3>2, <3>3, GoOnSends
    <3>5. r \notin RunningOn
      BY <2>3 DEF RunningOn
    <3>6. Seen'
      BY <1>0, <2>1, <3>3, <3>4 DEF Progress, Seen
    <3>7. \/ sent' = sent
          \/ \E c : /\ c.what \notin Moves /\ sent' = sent \o <<c>>
                    /\ c.what = "run" => program \in {"waiting", "exited"}
      BY <3>4
    <3> QED BY <1>0, <2>1, <2>2, <3>3, <3>4, <3>5, <3>6, <3>7, ProgressAnswer
  <2>4. CASE t.kind # "breakpoints"
    <3>1. tasks' = [tasks EXCEPT ![r] = None] /\ sent' = sent /\ Responds(t.kind)
      BY <1>2, <2>4 DEF AnswersTask
    <3>2. RunningOn' = RunningOn \ {r} /\ (r \in RunningOn <=> t.kind = "runOn")
      BY <2>1, <3>1 DEF RunningOn, Inv, Typed
    <3>3. \/ shown' = shown /\ RunningOn' = RunningOn
          \/ shown' # "stopped" /\ RunningOn # {}
      BY <3>1, <3>2 DEF Responds, Shows
    <3>4. Seen'
      BY <1>0, <2>1, <3>1, <3>2, <3>3 DEF Progress, Seen, Responds, Shows
    <3> QED BY <1>0, <2>1, <2>2, <3>1, <3>2, <3>3, <3>4, ProgressAnswer
  <2> QED BY <2>3, <2>4
<1>3. CASE AnswersNobody(m)
  <2>1. UNCHANGED <<launch, sent, shown, RunningOn>> /\ \A r \in RunningOn : ~AnswerFor(m, r)
    BY <1>3, NoneAssumption DEF AnswersNobody, RunningOn, AnswerFor
  <2>2. Seen'
    BY <1>0, <2>1 DEF Progress, Seen
  <2> QED BY <1>0, <2>1, <2>2, ProgressAnswer
<1> QED BY <1>1, <1>2, <1>3 DEF OnAnswer

LEMMA ProgressPauses ==
  ASSUME Inv, Stages, Progress, OnEntryPause \/ OnPaused
  PROVE  Progress'
<1> DEFINE m == Head(wire)
<1>0. /\ wire # <<>> /\ wire \in Seq(Messages) /\ sent \in Seq(Commands) /\ m.kind = "paused"
      /\ wire' = Tail(wire) /\ link = "open" /\ 1 \in DOMAIN wire /\ m = wire[1]
      /\ UNCHANGED <<program, link, tasks, exit, configured, disconnected, RunningOn>>
      /\ launch \notin Unconnected
  BY DEF OnEntryPause, OnPaused, Heard, Inv, Typed, Channels, engine, RunningOn
<1>1. /\ KindIn(wire', "paused") = {} /\ KindIn(wire, "paused") # {}
      /\ \A kind \in {"destroyed", "closed"} : KindIn(wire', kind) = {} <=> KindIn(wire, kind) = {}
  <2>1. Single(KindIn(wire, "paused"))
    BY <1>0 DEF Progress, Course
  <2>2. KindIn(wire', "paused") = {} /\ KindIn(wire, "paused") # {}
    BY <1>0, <2>1, KindTail
  <2>3. \A kind \in {"destroyed", "closed"} : KindIn(wire', kind) = {} <=> KindIn(wire, kind) = {}
    <3> TAKE kind \in {"destroyed", "closed"}
    <3> QED BY <1>0, KindTail
  <2> QED BY <2>2, <2>3
<1>2. program \in {"paused", "exited"} /\ WhatIn(sent, Moves) = {} /\ Still(sent, wire')
  BY <1>0, <1>1 DEF Progress, Course, Still
<1>3. RunningOn = {}
  <2> SUFFICES ASSUME NEW r \in RunningOn
               PROVE  FALSE
    OBVIOUS
  <2>1. ~NoneOf(sent, wire, r) /\ First(wire, r) /\ r \in Requests /\ tasks[r].kind = "runOn"
    BY <1>0 DEF Progress, Telling, RunningOn
  <2>2. \A i \in DOMAIN wire : ~AnswerFor(wire[i], r)
    <3>1. \A i \in DOMAIN wire : ~(i < 1)
      BY <1>0
    <3> QED BY <1>0, <2>1, <3>1 DEF First
  <2>3. PICK i \in DOMAIN sent : sent[i].for = r
    BY <2>1, <2>2 DEF NoneOf
  <2>4. sent[i].what \in Moves
    BY <1>0, <2>1, <2>3 DEF Inv, Channels, Connected, InStep, Fits
  <2> QED BY <1>2, <2>3, <2>4 DEF WhatIn
<1>4. CASE OnEntryPause
  <2>1. /\ ~entrySeen /\ entrySeen' = TRUE /\ sent' = sent
        /\ \/ launch' = "done" /\ Shows("running")
           \/ UNCHANGED <<launch, shown>>
    BY <1>4 DEF OnEntryPause, IsEntry
  <2>2. ~configured /\ shown # "stopped" /\ launch # "done"
    BY <2>1 DEF Progress, Seen
  <2>3. shown' # "stopped"
    BY <2>1, <2>2 DEF Shows
  <2>4. Seen'
    BY <1>0, <2>1, <2>2, <2>3 DEF Progress, Seen, Shows, Unconnected
  <2>5. launch' \in SetupStages \ {"run"} => launch \in SetupStages \ {"run"}
    BY <2>1 DEF SetupStages
  <2>6. Course(sent, wire)'
    BY <1>0, <1>1, <1>2, <2>1, <2>2, <2>5 DEF Progress, Course, Still, Single
  <2>7. Telling(sent, wire)'
    BY <1>0, <1>3, <2>2, <2>3 DEF Telling
  <2> QED BY <1>0, <2>4, <2>6, <2>7 DEF Progress, Closed
<1>5. CASE OnPaused
  <2> DEFINE on == IF m.reason # "step" \/ pendingStep = None THEN <<>>
                   ELSE Onwards(pendingStep, m.place)
  <2>1. /\ entrySeen /\ UNCHANGED <<launch, entrySeen>> /\ sent' = sent \o on
        /\ IF on = <<>> THEN Shows("stopped") ELSE shown' = shown
    BY <1>0, <1>5 DEF OnPaused, IsEntry, Send
  <2>2. configured /\ launch = "done"
    BY <1>0, <1>1, <2>1 DEF Progress, Course, Still, Seen
  <2>3. Seen'
    BY <1>0, <2>1, <2>2 DEF Progress, Seen, Shows
  <2>4. on = <<>> \/ \E what \in Moves : on = <<Command(None, what, None)>>
    BY DEF Onwards, Moves
  <2>5. CASE on = <<>>
    <3>1. sent' = sent
      <4>1. sent \o <<>> = sent
        BY <1>0
      <4> HIDE DEF on
      <4> QED BY <2>1, <2>5, <4>1
    <3>2. Shows("stopped")
      BY <2>1, <2>5
    <3> HIDE DEF on
    <3>3. Course(sent, wire)'
      BY <1>0, <1>1, <1>2, <2>1, <2>2, <3>1 DEF Progress, Course, Still, Single
    <3>4. program = "paused" => shown' = "stopped"
      <4>1. shown = "ended" => program = "exited"
        BY DEF Progress, Seen, Stages
      <4> QED BY <3>2, <4>1 DEF Shows
    <3>5. Telling(sent, wire)'
      BY <1>0, <1>2, <1>3, <3>1, <3>4 DEF Telling, Still
    <3> QED BY <1>0, <2>3, <3>3, <3>5 DEF Progress, Closed
  <2>6. ASSUME NEW what \in Moves, on = <<Command(None, what, None)>>
        PROVE  Progress'
    <3> DEFINE c == Command(None, what, None)
    <3>1. c.what = what /\ what \notin {"run"} /\ on = <<c>>
      BY <2>6 DEF Command, Moves
    <3>2. on # <<>>
      BY <3>1
    <3>3. sent' = sent \o <<c>> /\ shown' = shown
      BY <2>1, <3>1, <3>2
    <3> HIDE DEF c, on
    <3>4. /\ WhatIn(sent', {"run"}) = WhatIn(sent, {"run"})
          /\ WhatIn(sent', Moves) # {} /\ Single(WhatIn(sent', Moves))
      BY <1>0, <1>2, <3>1, <3>3, WhatAppend
    <3>5. shown # "stopped"
      BY <1>0, <1>1, <1>3 DEF Progress, Telling, Still
    <3>6. Course(sent, wire)'
      BY <1>0, <1>1, <1>2, <2>1, <2>2, <3>4 DEF Progress, Course, Still, Single
    <3>7. Telling(sent, wire)'
      BY <1>0, <1>3, <3>3, <3>4, <3>5 DEF Telling
    <3> QED BY <1>0, <2>3, <3>6, <3>7 DEF Progress, Closed
  <2> QED BY <2>4, <2>5, <2>6
<1> QED BY <1>4, <1>5

LEMMA ProgressEnds ==
  ASSUME Inv, Stages, Progress, OnDestroyed \/ OnClosed \/ OnExit
  PROVE  Progress'
<1>1. UNCHANGED <<program, launch, entrySeen, configured, disconnected>>
  BY DEF OnDestroyed, OnClosed, OnExit, engine, stepping, client
<1>2. CASE OnDestroyed
  <2>1. /\ wire # <<>> /\ Head(wire).kind = "destroyed" /\ wire \in Seq(Messages) /\ link = "open"
        /\ UNCHANGED <<sent, tasks, exit, shown, RunningOn>>
    BY <1>2 DEF OnDestroyed, Heard, Inv, Typed, Channels, RunningOn, client
  <2>2. /\ link' = "closing"
        /\ wire' = <<>> \/ \E i \in DOMAIN wire : wire[i].kind = "closed"
    BY <1>2, <2>1 DEF OnDestroyed, Close
  <2>3. KindIn(wire, "destroyed") # {}
    BY <2>1, KindTail
  <2>4. program \in {"ended", "exited"} /\ (program = "ended" => WhatIn(sent, {"run"}) = {})
        /\ (program = "ended" => wire' = <<>>)
    BY <2>1, <2>2, <2>3 DEF Progress, Course, KindIn
  <2>5. Seen'
    BY <1>1, <2>1, <2>2 DEF Progress, Seen
  <2> QED BY <1>1, <2>1, <2>2, <2>4, <2>5 DEF Progress, Closed
<1>3. CASE OnClosed
  <2>1. /\ wire # <<>> /\ Head(wire).kind = "closed" /\ wire \in Seq(Messages) /\ link' = "closed"
        /\ exit' = exit /\ link # "none"
        /\ shown' = shown \/ Shows("running")
    BY <1>3 DEF OnClosed, Heard, Inv, Typed, Channels
  <2>2. RunningOn' = {}
    <3>1. tasks' = [r \in Requests |-> IF tasks[r] # None THEN None ELSE tasks[r]]
      BY <1>3 DEF OnClosed, RejectAll
    <3> QED BY <3>1 DEF RunningOn
  <2>3. ~disconnected => program = "exited"
    <3>1. KindIn(wire, "closed") # {}
      BY <2>1, KindTail
    <3> QED BY <2>1, <3>1 DEF Progress, Course, Closed, Inv, Typed, Links
  <2>4. Seen'
    BY <1>1, <2>1, <2>2 DEF Progress, Seen, Shows
  <2> QED BY <1>1, <2>1, <2>3, <2>4 DEF Progress, Closed
<1>4. CASE OnExit
  <2>1. /\ UNCHANGED <<link, sent, wire, tasks, RunningOn>> /\ exit = "due" /\ exit' = "told"
        /\ shown' = "ended" /\ launch \notin Unconnected
    BY <1>4 DEF OnExit, channel, RunningOn, Shows, Setup, Unconnected
  <2>2. program = "exited" /\ link # "none"
    BY <2>1 DEF Stages, Inv, Channels
  <2>3. Seen'
    BY <1>1, <2>1, <2>2 DEF Progress, Seen
  <2>4. link = "open" => Course(sent, wire)'
    BY <1>1, <2>1 DEF Progress, Course, Still
  <2>5. link = "open" => Telling(sent, wire)'
    BY <1>1, <2>1, <2>2 DEF Progress, Telling
  <2> QED BY <1>1, <2>1, <2>3, <2>4, <2>5 DEF Progress, Closed
<1> QED BY <1>2, <1>3, <1>4

\* An adapter that has died does nothing more.
LEMMA NoneComesBack == [Next]_vars /\ up' => up
BY DEF Next, EngineTakes, Ends, Dies, Detaches, Lands, Hits, Stops, LaunchRequest, Announces,
       LaunchFails, Connects, Compiled, StepRequest, ContinueRequest, PauseRequest,
       ConfigurationDone, Evaluate, SetBreakpoints, Asked, Disconnect, OnAnswer, OnRejection,
       OnEntryPause, OnPaused, OnDestroyed, OnClosed, OnExit, Heard, vars

\* What the client was told is kept true by an adapter that is there.
ProgressWhileUp == up => Progress

LEMMA ProgressNext ==
  Inv /\ Stages /\ ProgressWhileUp /\ OneByOne' /\ [Next]_vars => ProgressWhileUp'
<1> SUFFICES ASSUME Inv, Stages, Progress, OneByOne', [Next]_vars, up'
             PROVE  Progress'
  BY NoneComesBack DEF ProgressWhileUp
<1>1. CASE EngineTakes
  BY <1>1, ProgressEngine
<1>2. CASE Ends \/ Dies \/ Detaches \/ \E place \in Places : Lands(place) \/ Hits(place)
  BY <1>2, ProgressProgram
<1>3. CASE \/ LaunchRequest \/ Announces \/ LaunchFails \/ Connects
           \/ \E ok \in BOOLEAN : Compiled(ok)
  BY <1>3, ProgressLaunch
<1>4. ASSUME NEW r \in Requests,
             \/ \E kind \in DOMAIN How : StepRequest(r, kind)
             \/ ContinueRequest(r) \/ PauseRequest(r) \/ ConfigurationDone(r) \/ Evaluate(r)
             \/ \E s \in Sources, lines \in Wanted : SetBreakpoints(r, s, lines)
      PROVE  Progress'
  BY <1>4, ProgressRequests
<1>5. CASE Disconnect
  BY <1>5, ProgressDisconnect
<1>6. CASE OnAnswer \/ OnRejection \/ OnEntryPause \/ OnPaused \/ OnDestroyed \/ OnClosed \/ OnExit
  BY <1>6, ProgressAnswers, ProgressPauses, ProgressEnds DEF OnRejection
<1>7. CASE UNCHANGED vars
  <2>1. UNCHANGED <<program, link, wire, launch, entrySeen, exit, configured, disconnected, shown,
                    RunningOn, sent>>
    BY <1>7 DEF vars, engine, channel, stepping, client, RunningOn
  <2> QED BY <2>1, ProgressSends
<1> QED BY <1>1, <1>2, <1>3, <1>4, <1>5, <1>6, <1>7 DEF Next

\* Under a client that waits for the answer to a step before it asks to run on
\* again, what it was told is where the program is once all has arrived.
THEOREM TheClientSees == Spec /\ []OneByOne => []ClientSeesTheProgram
<1>1. Init => Stages /\ ProgressWhileUp
  <2> SUFFICES ASSUME Init
               PROVE  Stages /\ Progress
    BY DEF ProgressWhileUp
  <2>1. RunningOn = {}
    BY DEF Init, RunningOn
  <2> QED BY <2>1 DEF Init, Stages, Progress, Seen, Closed
<1>2. Inv /\ [Next]_vars => Inv'
  BY InvNext
<1>3. Inv /\ Stages /\ [Next]_vars => Stages'
  BY StagesNext
<1>4. Inv /\ Stages /\ ProgressWhileUp /\ OneByOne' /\ [Next]_vars => ProgressWhileUp'
  BY ProgressNext
<1>5. Inv /\ Stages /\ ProgressWhileUp => ClientSeesTheProgram
  <2> SUFFICES ASSUME Inv, Stages, Progress, Quiet, configured, ~disconnected
               PROVE  shown = CASE program = "paused" -> "stopped" [] program = "exited" -> "ended"
                                [] OTHER -> "running"
    BY DEF ClientSeesTheProgram, ProgressWhileUp
  <2>1. /\ RunningOn = {} /\ launch = "done" /\ link \in {"open", "closed"}
        /\ WhatIn(sent, Moves) = {} /\ KindIn(wire, "paused") = {}
    <3>1. link # "none"
      BY DEF Progress, Seen, Inv, Channels, Unconnected
    <3> QED BY <3>1 DEF Quiet, Progress, Seen, RunningOn, WhatIn, KindIn, Inv, Typed, Links
  <2>2. CASE program = "exited"
    BY <2>1, <2>2 DEF Progress, Seen, Stages, Quiet, Inv, Typed, Exits
  <2>3. CASE program = "paused"
    BY <2>1, <2>3 DEF Progress, Closed, Telling
  <2>4. CASE program \notin {"paused", "exited"}
    BY <2>1, <2>4 DEF Progress, Closed, Telling, Still, Seen, Stages, Inv, Typed, Views
  <2> QED BY <2>2, <2>3, <2>4
<1> QED BY <1>1, <1>2, <1>3, <1>4, <1>5, InvInit, PTL DEF Spec

=============================================================================
