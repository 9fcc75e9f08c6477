--------------------------- MODULE CompileService ---------------------------
(***************************************************************************)
(* What a CompileDispatcher promises its caller, whoever does the work.    *)
(*                                                                         *)
(* A run asks for a batch of jobs; each job is answered once, either with  *)
(* the outcome a compilation produced or with the failure that stands in   *)
(* for one; no answer is ever withdrawn or replaced, no job is forgotten,  *)
(* and the next run starts only once every job of the last is answered.    *)
(* After the dispatcher is disposed of, nothing new is asked of it.        *)
(***************************************************************************)
CONSTANT Job

Answer == {"compiled", "failed"}

VARIABLES
  requested,   \* the jobs asked for so far
  answer,      \* what each job was answered with, "none" before that
  open         \* FALSE once the dispatcher was disposed of

vars == <<requested, answer, open>>

Init ==
  /\ requested = {}
  /\ answer = [j \in Job |-> "none"]
  /\ open = TRUE

Outstanding == {j \in requested : answer[j] = "none"}

\* `begin` and the `compile` calls of one run.
Request(batch) ==
  /\ open
  /\ Outstanding = {}
  /\ batch \cap requested = {}
  /\ requested' = requested \cup batch
  /\ UNCHANGED <<answer, open>>

\* The promise of one job resolves.
Respond(j, a) ==
  /\ j \in Outstanding
  /\ answer' = [answer EXCEPT ![j] = a]
  /\ UNCHANGED <<requested, open>>

\* `dispose`, at any moment: outstanding jobs may stay unanswered.
Close ==
  /\ open
  /\ open' = FALSE
  /\ UNCHANGED <<requested, answer>>

Next ==
  \/ \E batch \in SUBSET Job : Request(batch)
  \/ \E j \in Job, a \in Answer : Respond(j, a)
  \/ Close

Spec == Init /\ [][Next]_vars
=============================================================================
