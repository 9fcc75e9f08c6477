---------------------------- MODULE LanguageServer ----------------------------
(***************************************************************************)
(* The documents of the language server and what it publishes about them   *)
(* (language-server/src/server.ts), over its Workspace: open documents     *)
(* wait in pendingAnalyses, each with its own deadline, for the one timer; *)
(* an analysis publishes for its document and for every file it reaches    *)
(* that nobody has open, and owns what it published until it lets go.      *)
(*                                                                         *)
(* Handlers run to completion. The timer's callback is several steps here, *)
(* one per document it analyses (todo), and nothing else happens between.  *)
(* A document is known by its path: one URI per file.                      *)
(***************************************************************************)
EXTENDS Workspace, Sequences

CONSTANTS
  Debounce,     \* analysisDebounceInMilliseconds, in ticks
  FolderSets,   \* what the workspace folders may hold
  MaxEdits,     \* bound: documents opened, typed in and closed
  MaxSaves,     \* bound: changes on disk
  MaxRequests,  \* bound: requests answered
  MaxMoves      \* bound: changes of the workspace folders

ASSUME DebounceAssumption == Debounce \in Nat \ {0} /\ None \notin Nat
ASSUME FoldersAssumption == FolderSets \subseteq SUBSET Files /\ FolderSets # {}

VARIABLES
  pending,   \* pending[f]: the ticks until the analysis of f is due, or None
  timer,     \* the ticks until the timer fires, or None
  todo,      \* documents that the callback underway has yet to analyse
  claims,    \* publishedByEntry
  shown,     \* what the client shows for a file: a judgement, or None for nothing
  counts     \* how much of each bound is used up

svars == <<pending, timer, todo, claims, shown, counts>>
vars == <<wvars, svars>>

Open == host.open
Pending == {f \in Files : pending[f] # None}

\* The ticks until the first of these deadlines, for armAnalysis.
Earliest(p) ==
  LET due == {p[f] : f \in {g \in Files : p[g] # None}}
  IN IF due = {} THEN None ELSE CHOOSE d \in due : \A e \in due : d <= e

\* One debounce for all: whoever is typed in starts it again.
ScheduleTogether(p, S) ==
  /\ pending' = [f \in Files |-> IF f \in S THEN Debounce ELSE p[f]]
  /\ timer' = IF S = {} THEN timer ELSE Debounce

\* scheduleAnalysis, for each of these documents; armAnalysis runs if any is.
Schedule(p, S) ==
  LET later == [f \in Files |-> IF f \in S THEN Debounce ELSE p[f]]
  IN /\ pending' = later
     /\ timer' = IF S = {} THEN timer ELSE Earliest(later)

Used(what, bound) == counts[what] < bound /\ counts' = [counts EXCEPT ![what] = @ + 1]

-----------------------------------------------------------------------------
\* A file's squiggles go with the first importer that lets go.
ClaimedByNobody(entry, f) == FALSE

ClaimedElsewhere(entry, f) == \E g \in Files \ {entry} : f \in claims[g]

\* publishAnalysis: show these results, and clear what entry claimed and no
\* longer reports, unless another open document claims it too.
Publish(entry, results) ==
  LET dropped == {f \in claims[entry] \ DOMAIN results : ~ClaimedElsewhere(entry, f)}
  IN [f \in Files |-> IF f \in DOMAIN results THEN results[f]
                      ELSE IF f \in dropped THEN None ELSE shown[f]]

\* What an analysis of f reports: on itself, and on what it reaches and
\* nobody has open.
Results(f, judgement) ==
  [g \in {f} \cup {x \in DOMAIN judgement : judgement[x] # Missing /\ x \notin Open}
     |-> Part(judgement, g)]

\* What analysisOrder counts for f: the files below it, by what the entries
\* write.
Lexical(c) == Written(FilesOf(c, host, Files), Files)
Below(lexical, f) == UNION {Reach(lexical, e[2]) : e \in {d \in lexical : d[1] = f}}

\* analysisOrder: who has more below it comes first.
InOrder(S, lexical) ==
  {order \in [1 .. Cardinality(S) -> S] :
     \A i, j \in DOMAIN order :
       i < j => /\ order[i] # order[j]
                /\ Cardinality(Below(lexical, order[i])) >= Cardinality(Below(lexical, order[j]))}

Found == {f \in folders : disk[f] # Missing}

Idle == todo = <<>>

-----------------------------------------------------------------------------
Init ==
  /\ disk \in [Files -> Texts] /\ unseen = {}
  /\ buffer = [f \in Files |-> None]
  /\ folders \in FolderSets
  /\ cache = Empty
  /\ pending = [f \in Files |-> None] /\ timer = None /\ todo = <<>>
  /\ claims = [f \in Files |-> {}] /\ shown = [f \in Files |-> None]
  /\ counts = [edits |-> 0, saves |-> 0, requests |-> 0, moves |-> 0]

\* Another program writes, makes or removes a file.
Store(f, t) ==
  /\ Idle /\ Used("saves", MaxSaves)
  /\ t # disk[f]
  /\ disk' = [disk EXCEPT ![f] = t]
  /\ unseen' = unseen \cup {f}
  /\ UNCHANGED <<buffer, folders, cache, pending, timer, todo, claims, shown>>

\* onDidChangeWatchedFiles: every open document is scheduled.
WatchedFile(f) ==
  /\ Idle /\ f \in unseen
  /\ unseen' = unseen \ {f}
  /\ cache' = IF disk[f] = Missing THEN Removed(cache, f) ELSE Changed(cache, f, folders)
  /\ Schedule(pending, Open)
  /\ UNCHANGED <<disk, buffer, folders, todo, claims, shown, counts>>

\* onDidChangeContent, which also says that a document was opened.
ChangeContent(f, t) ==
  /\ Idle /\ Used("edits", MaxEdits)
  /\ t # buffer[f]
  /\ buffer' = [buffer EXCEPT ![f] = t]
  /\ cache' = Changed(cache, f, folders)
  /\ Schedule(pending, {f})
  /\ UNCHANGED <<disk, unseen, folders, todo, claims, shown>>

\* onDidClose: the file is a dependency again, whose Diagnostics are an
\* importer's to publish.
Close(f) ==
  /\ Idle /\ Used("edits", MaxEdits)
  /\ f \in Open
  /\ LET docs == [buffer EXCEPT ![f] = None]
         closed == Host(docs, disk)
         walked == Dependents(Changed(cache, f, folders), closed, Found, {f})
     IN /\ buffer' = docs
        /\ cache' = walked
        /\ shown' = [Publish(f, <<>>) EXCEPT ![f] = None]
        /\ Schedule([pending EXCEPT ![f] = None],
                    Importers(walked, closed, f) \cap closed.open)
  /\ claims' = [claims EXCEPT ![f] = {}]
  /\ UNCHANGED <<disk, unseen, folders, todo>>

\* The timer's callback begins: whoever is pending, and every open document
\* that imports one of them, in the order of analysisOrder.
TimerFires ==
  /\ Idle /\ timer = 0
  /\ LET walked == Dependents(cache, host, Found, Pending)
         batch == Pending \cup (Open \cap UNION {Importers(walked, host, f) : f \in Pending})
         lexical == Lexical(walked)
     IN /\ cache' = FilesOf(walked, host, batch \cup UNION {Below(lexical, f) : f \in batch})
        /\ todo' \in InOrder(batch, lexical)
  /\ pending' = [f \in Files |-> None]
  /\ timer' = None
  /\ UNCHANGED <<disk, unseen, buffer, folders, claims, shown, counts>>

\* analyseAndPublish
AnalyseNext ==
  /\ ~Idle
  /\ LET f == Head(todo)
         analysed == AnalysisOf(cache, host, f)
         results == Results(f, analysed.judged[f])
     IN /\ cache' = analysed
        /\ shown' = Publish(f, results)
        /\ claims' = [claims EXCEPT ![f] = DOMAIN results]
  /\ todo' = Tail(todo)
  /\ UNCHANGED <<disk, unseen, buffer, folders, pending, timer, counts>>

\* A request that reads one file's entry: a hover, a completion, one file of a
\* rename.
RequestAnalysis(f) ==
  /\ Idle /\ Used("requests", MaxRequests)
  /\ cache' = AnalysisOf(cache, host, f)
  /\ UNCHANGED <<disk, unseen, buffer, folders, pending, timer, todo, claims, shown>>

\* A rename or a search for references asks for the exact component first.
RequestComponent(f) ==
  /\ Idle /\ Used("requests", MaxRequests)
  /\ LET exact == Refreshed(cache, host, Found, {f})
     IN cache' = FilesOf(exact, host, Component(exact, f) \ {f})
  /\ UNCHANGED <<disk, unseen, buffer, folders, pending, timer, todo, claims, shown>>

\* onDidChangeWorkspaceFolders
SetFolders(inside) ==
  /\ Idle /\ Used("moves", MaxMoves)
  /\ folders' = inside
  /\ cache' = Empty
  /\ UNCHANGED <<disk, unseen, buffer, pending, timer, todo, claims, shown>>

\* Time passes. A timer that is due may fire late.
Tick ==
  /\ Idle
  /\ \E f \in Pending : pending[f] > 0
  /\ LET less(d) == IF d = None \/ d = 0 THEN d ELSE d - 1
     IN /\ pending' = [f \in Files |-> less(pending[f])]
        /\ timer' = less(timer)
  /\ UNCHANGED <<wvars, todo, claims, shown, counts>>

Next ==
  \/ \E f \in Files, t \in Texts : Store(f, t)
  \/ \E f \in Files : WatchedFile(f)
  \/ \E f \in Files, t \in Versions : ChangeContent(f, t)
  \/ \E f \in Files : Close(f)
  \/ TimerFires
  \/ AnalyseNext
  \/ \E f \in Files : RequestAnalysis(f) \/ RequestComponent(f)
  \/ \E inside \in FolderSets : SetFolders(inside)
  \/ Tick

Spec == Init /\ [][Next]_vars

-----------------------------------------------------------------------------
TypeOK ==
  /\ WorkspaceTypeOK
  /\ pending \in [Files -> (0 .. Debounce) \cup {None}]
  /\ timer \in (0 .. Debounce) \cup {None}
  /\ todo \in Seq(Files)
  /\ claims \in [Files -> SUBSET Files]
  /\ shown \in [Files -> Judgements \cup {None}]
  /\ counts \in [{"edits", "saves", "requests", "moves"} -> Nat]

\* No document waits longer than its own debounce for another one's sake: the
\* one timer is armed whenever somebody waits, and never for later than the
\* first deadline, however often other documents are typed in, scheduled anew
\* or closed (armAnalysis).
NobodyIsHeldBack ==
  \A f \in Pending : timer # None /\ timer <= pending[f]

\* Once the watcher has spoken and nothing is pending, what the client shows
\* is true: every open document shows its own analysis, a file nobody has open
\* shows its own if an open document reaches it, and no other shows anything.
\* So no squiggle is wiped while an importer still reports it, none outlives
\* its last importer, and no importer misses an edit below it.
ShownIsTrue ==
  (Idle /\ Pending = {} /\ unseen = {}) =>
    \A f \in Files :
      shown[f] = IF f \in Open
                    \/ /\ host.text[f] # Missing
                       /\ \E g \in Open : f \in DOMAIN Judgement(g, host.text)
                 THEN Judgement(f, host.text) ELSE None
-----------------------------------------------------------------------------
(* What ShownIsTrue asks of the editor.                                    *)

\* setFolders forgets every edge, and only the files it finds on disk in the
\* new folders are read again before somebody analyses an importer: whatever
\* the open documents reach is to be among these.
KeepsDocuments ==
  counts'.moves # counts.moves =>
    \A g \in Open : \A f \in DOMAIN Judgement(g, host.text) :
      host.text[f] # Missing => f \in folders' /\ disk[f] # Missing

=============================================================================
