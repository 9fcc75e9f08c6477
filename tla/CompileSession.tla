---------------------------- MODULE CompileSession ----------------------------
(***************************************************************************)
(* One run of compiles over one Session (packages/cli/src/session.ts, and  *)
(* linkGraph, compileFile and attributeDiagnostics of pipeline.ts).        *)
(*                                                                         *)
(* The compiles of a run are underway together, each a chain of awaits;    *)
(* the Session they share reads a file once, loads the graphs of all the   *)
(* entries at the first question asked of it, and links a connected piece  *)
(* as a whole.  Meanwhile an editor saves files.  An edit while the graphs *)
(* are loading is one before or after: each file is read at one moment.    *)
(***************************************************************************)
EXTENDS ModuleGraph

CONSTANTS
  Plans,      \* the entries of a run, in order: what may be asked for
  Texts,      \* Texts[f]: the contents f may have
  Unread,
  MaxEdits    \* bound: how many times a file is saved while the run is on

ASSUME SessionAssumption ==
  /\ \A entries \in Plans : entries \in Seq(Files) /\ entries # <<>> /\ IsInjective(entries)
  /\ \A f \in Files : \A t \in Texts[f] :
       t = Missing \/ (t \in Seq(Files) /\ IsInjective(t))
  /\ Unread # Missing /\ \A f \in Files : Unread \notin Texts[f]

VARIABLES
  sources,    \* per file: its contents, or Missing
  edits,      \* how many times a file was saved
  plan,       \* inputFileNames
  memo,       \* `texts` and `errors`: what the host has answered, or Unread
  loaded,     \* the flag of that name
  groups,     \* the groups of every graph loaded, in order
  pieces,     \* the components: sets of files
  linked,     \* the components that have been linked
  programs,   \* per file: how many typed Programs were made of it
  mangled,    \* per file: how often its Program went through the Simplifier
  progress,   \* per entry: how far its compile is
  outcome,    \* per entry: what it has to report
  finished,   \* whether the outcomes have been attributed
  owners      \* per file then: the entry that reports its Diagnostics

sourceVars == <<sources, edits>>
sessionVars == <<memo, loaded, groups, pieces>>
onceVars == <<linked, programs, mangled>>
attribution == <<finished, owners>>
runVars == <<sourceVars, plan, sessionVars, onceVars, progress, outcome, finished,
          owners>>

Entries == ToSet(plan)
NoOutcome == [text |-> Unread, modules |-> <<>>, stage |-> "none"]

SessionInit ==
  /\ sources \in [Files -> UNION {Texts[f] : f \in Files}]
  /\ \A f \in Files : sources[f] \in Texts[f]
  /\ edits = 0
  /\ plan \in Plans
  /\ memo = [f \in Files |-> Unread]
  /\ loaded = FALSE
  /\ groups = <<>>
  /\ pieces = {}
  /\ linked = {}
  /\ programs = [f \in Files |-> 0]
  /\ mangled = [f \in Files |-> 0]
  /\ progress = [e \in Files |-> IF e \in Entries THEN "read" ELSE "none"]
  /\ outcome = [e \in Files |-> NoOutcome]
  /\ finished = FALSE
  /\ owners = <<>>

\* An editor saves, makes or deletes a file.
Edit(f) ==
  /\ edits < MaxEdits
  /\ ~finished
  /\ \E t \in Texts[f] \ {sources[f]} : sources' = [sources EXCEPT ![f] = t]
  /\ edits' = edits + 1
  /\ UNCHANGED <<plan, sessionVars, onceVars, progress, outcome, attribution>>

-----------------------------------------------------------------------------
(* The Session                                                               *)

\* Mutant: a file is read whenever it is asked for.
ReadAnew(m) == sources
\* What the host answers with: one read per file for the whole run, the failure
\* of one remembered like its text.
ReadFile(m) == [f \in Files |-> IF m[f] = Unread THEN sources[f] ELSE m[f]]

Remember(m, asked) == [f \in Files |-> IF f \in asked THEN ReadFile(m)[f] ELSE m[f]]

Members(gs) == UNION {ToSet(g) : g \in ToSet(gs)}

\* What a load has come to: the groups held, and what each graph touched, held
\* before or not.
Loads == [groups : Seq(Seq(Files)), touched : Seq(SUBSET Files)]

\* Mutant: what is new goes ahead of what is held.
FreshFirst(held, fresh) == fresh \o held
FreshLast(held, fresh) == held \o fresh

\* mergeGraph: groups already held are already parsed.
MergeGraph(texts, s, entry) ==
  LET graph == LoadModuleGraph(texts, entry)
      fresh == Only(graph, {g \in ToSet(graph) : g[1] \notin Members(s.groups)})
  IN  [groups |-> FreshLast(s.groups, fresh),
       touched |-> Append(s.touched, Members(graph))]

\* The entries' graphs in the order of the plan, one an earlier graph holds
\* left out.
LoadEntry(texts) ==
  [e \in Files |-> [s \in Loads |->
     IF e \in Members(s.groups) THEN s ELSE MergeGraph(texts, s, e)]]
LoadAll(texts) == Folded(LoadEntry(texts), [groups |-> <<>>, touched |-> <<>>], plan)

\* A load is one union, and the pieces fall out of the overlaps between loads.
Unite ==
  [load \in SUBSET Files |-> [ps \in SUBSET SUBSET Files |->
     LET met == {p \in ps : p \cap load # {}}
     IN  IF load = {} THEN ps ELSE (ps \ met) \cup {(UNION met) \cup load}]]
AssignComponents(loads) ==
  {p \cap Members(loads.groups) : p \in Folded(Unite, {}, loads.touched)}

\* load(): once, at the first question.
Load ==
  IF loaded THEN UNCHANGED sessionVars
  ELSE LET loads == LoadAll(ReadFile(memo))
       IN  /\ loaded' = TRUE
           /\ memo' = Remember(memo, UNION {Asked(ReadFile(memo), e) : e \in Entries})
           /\ groups' = loads.groups
           /\ pieces' = AssignComponents(loads)

PieceOf(e) == CHOOSE p \in pieces : e \in p

\* Mutant: everything of the piece, reached or not.
PieceModules(e) == Only(FlattenSeq(groups), PieceOf(e))
\* What an entry reaches over the edges the graph resolved, in the order of the
\* piece it sits in.
ReachableModules(e) ==
  Only(FlattenSeq(groups), Found(memo, PieceOf(e), {e}) \cap PieceOf(e))

-----------------------------------------------------------------------------
(* compileFile, over linkGraph                                               *)

\* session.read: the entry's own text, or the end of the compile.
Read(e) ==
  /\ progress[e] = "read"
  /\ memo' = Remember(memo, {e})
  /\ outcome' = [outcome EXCEPT ![e].text = ReadFile(memo)[e],
                   ![e].stage = IF ReadFile(memo)[e] = Missing THEN "read"
                                ELSE "none"]
  /\ progress' = [progress EXCEPT ![e] = IF ReadFile(memo)[e] = Missing THEN "done"
                             ELSE "parse"]
  /\ UNCHANGED <<sourceVars, plan, loaded, groups, pieces, onceVars, attribution>>

\* session.modules: the Modules of the graph, and the end of the compile when
\* one of them has an error.
Parse(e) ==
  /\ progress[e] = "parse"
  /\ Load
  /\ LET modules == ReachableModules(e)'
         broken == \E i \in DOMAIN modules : HasErrors(memo', modules[i])
     IN  /\ outcome' = [outcome EXCEPT ![e].modules = modules,
                          ![e].stage = IF broken THEN "parse" ELSE "none"]
         /\ progress' = [progress EXCEPT ![e] = IF broken THEN "done" ELSE "enrich"]
  /\ UNCHANGED <<sourceVars, plan, onceVars, attribution>>

IsLinked(p) == p \in linked

\* session.linked: the piece linked as a whole, once.
Enrich(e) ==
  /\ progress[e] = "enrich"
  /\ LET piece == PieceOf(e)
     IN  IF IsLinked(piece) THEN UNCHANGED <<linked, programs>>
         ELSE /\ linked' = linked \cup {piece}
              /\ programs' = [f \in Files |->
                                programs[f] + IF f \in piece THEN 1 ELSE 0]
  /\ progress' = [progress EXCEPT ![e] = "emit"]
  /\ UNCHANGED <<sourceVars, plan, sessionVars, mangled, outcome, attribution>>

\* What session.simplify has not been asked for before.
NotSimplified(e) == {f \in ToSet(outcome[e].modules) : mangled[f] = 0}

\* An error of a later stage, a check, and a bundle the store remembers.
Skip(e) ==
  /\ progress[e] = "emit"
  /\ progress' = [progress EXCEPT ![e] = "done"]
  /\ UNCHANGED <<sourceVars, plan, sessionVars, onceVars, outcome, attribution>>

Bundle(e) ==
  /\ progress[e] = "emit"
  /\ mangled' = [f \in Files |->
                   mangled[f] + IF f \in NotSimplified(e) THEN 1 ELSE 0]
  /\ progress' = [progress EXCEPT ![e] = "done"]
  /\ UNCHANGED <<sourceVars, plan, sessionVars, linked, programs, outcome, attribution>>

-----------------------------------------------------------------------------
(* attributeDiagnostics: every file reported by one outcome                  *)

Modules(e) == outcome[e].modules
Reporting == {e \in Entries : Modules(e) # <<>>}
\* The entry of an outcome is the last of its Modules.
EntryOf(e) == Last(Modules(e))

\* A file is claimed by the first outcome of the run that may.
FirstOf(es) == plan[CHOOSE i \in DOMAIN plan :
                      plan[i] \in es /\ \A j \in 1 .. i - 1 : plan[j] \notin es]

\* Mutant: what is left is nobody's.
NothingShared(own) == own
\* Every entry owns its own file, and what is left goes to the first outcome
\* that lists it.
EntriesFirst ==
  [f \in {EntryOf(e) : e \in Reporting} |-> FirstOf({e \in Reporting : EntryOf(e) = f})]
ThenShared(own) ==
  [f \in DOMAIN own \cup UNION {ToSet(Modules(e)) : e \in Entries} |->
     IF f \in DOMAIN own THEN own[f]
     ELSE FirstOf({e \in Entries : f \in ToSet(Modules(e))})]

Owners == ThenShared(EntriesFirst)

Attribute ==
  /\ \A e \in Entries : progress[e] = "done"
  /\ ~finished
  /\ finished' = TRUE
  /\ owners' = Owners
  /\ UNCHANGED <<sourceVars, plan, sessionVars, onceVars, progress, outcome>>

SessionNext ==
  \/ \E f \in Files : Edit(f)
  \/ \E e \in Entries : Read(e) \/ Parse(e) \/ Enrich(e) \/ Skip(e) \/ Bundle(e)
  \/ Attribute

SessionSpec == SessionInit /\ [][SessionNext]_runVars

-----------------------------------------------------------------------------
Stages == {"none", "read", "parse"}

\* The texts the Session has read: a file nobody asked for is not among them.
Known == [f \in Files |-> IF memo[f] = Unread THEN Missing ELSE memo[f]]

\* One read per file for the whole run (session.ts): whenever files are saved,
\* what an outcome renders is the text its Modules were parsed from, and a file
\* that could not be read as an entry is nobody's Module either.
OneAnswerPerFile == \A e \in Entries :
  /\ outcome[e].text # Unread => outcome[e].text = memo[e]
  /\ outcome[e].stage = "read" =>
       \A o \in Entries : e \notin ToSet(Modules(o))

\* From here on a property is asked once everything is reported: groups, pieces
\* and outcomes are written once, and never changed.

\* A compile answers for everything its entry reaches and nothing more, each
\* file once, however the graphs of the other entries overlap with it
\* (reachableModules over mergeGraph and assignComponents).
OutcomeIsWhatItReaches == finished =>
  \A e \in Entries : memo[e] # Missing =>
    ToSet(Modules(e)) = Reachable(Known, e) /\ IsInjective(Modules(e))

\* A group is a Strongly Connected Component, the same set of Modules in every
\* graph that reaches any of it (mergeGraph, groupModules).
GroupsAreCycles == finished => \A i \in DOMAIN groups :
  ToSet(groups[i]) = CycleOf(Known, groups[i][1])

\* Pieces share nothing: what a Module of a piece depends on is in it, so that
\* linking a piece binds every import (assignComponents).
PiecesAreClosed == finished =>
  \A p \in pieces :
    /\ \A q \in pieces \ {p} : p \cap q = {}
    /\ Closed(Known, p)

\* Dependency-first, whichever entry's graph a file came in with: a Module is
\* after every one it names, except across a cycle (ModuleGraph, graph.ts).
DependencyFirst == finished => \A e \in Entries :
  \A i, j \in DOMAIN Modules(e) :
    i < j /\ Modules(e)[j] \in Dependencies(Known, Modules(e)[i]) =>
      Cyclic(Known, Modules(e)[i], Modules(e)[j])

\* What the Session holds is partitioned and ordered as its graphs ask for.
GroupsInOrder == GroupsAreCycles /\ PiecesAreClosed /\ DependencyFirst

\* Simplifying is not something a Program survives twice: a file several
\* entries reach is linked once and simplified once (linkComponent, simplify).
EachProgramOnce == \A f \in Files : programs[f] <= 1 /\ mangled[f] <= 1

\* The work of a run is done once: one read, one link, one simplification.
WorkIsDoneOnce == OneAnswerPerFile /\ EachProgramOnce

\* Every file of a batch is reported by one outcome that has it
\* (attributeDiagnostics).
EveryFileReported == finished =>
  \A e \in Entries : \A f \in ToSet(Modules(e)) :
    f \in DOMAIN owners /\ f \in ToSet(Modules(owners[f]))

ReportsItself(e) == Modules(e) # <<>> => owners[e] = e

\* A dependency that is also an entry belongs to its own outcome, where it is
\* in no cycle (attributeDiagnostics).
EntryReportsItself == finished =>
  \A e \in Entries : CycleOf(Known, e) = {e} => ReportsItself(e)

\* Both: every file is reported, by itself where it is an entry.
FilesAreReported == EveryFileReported /\ EntryReportsItself

\* ... of an outcome that is what its entry reaches.
OutcomesAreWhole == OutcomeIsWhatItReaches /\ FilesAreReported
=============================================================================
