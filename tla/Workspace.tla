------------------------------ MODULE Workspace ------------------------------
(***************************************************************************)
(* The language server's workspace (language-server/src/workspace.ts): one *)
(* entry per file with its parse and its Diagnostics, and the import edges *)
(* recorded between files, along which an edit invalidates.                *)
(*                                                                         *)
(* What analysing a file comes to is abstracted to what it was judged by:  *)
(* its judgement is the text of every file it reaches, itself included and *)
(* missing ones too. Two analyses agree exactly when their judgements do.  *)
(*                                                                         *)
(* The workspace never awaits: each operation is a function from a cache   *)
(* to a cache, given the texts its host reads. LanguageServer has the      *)
(* events that call them.                                                  *)
(***************************************************************************)
EXTENDS Naturals, FiniteSets

CONSTANTS
  Files,      \* canonical paths
  Versions,   \* the texts a file can have
  Missing,    \* what reading a file that is not there answers
  None,       \* undefined, null
  Imports     \* Imports[f][v]: the files the entries of f name, when its text is v

Texts == Versions \cup {Missing}

ASSUME FilesAssumption == IsFiniteSet(Files)
ASSUME TextsAssumption == Missing \notin Versions /\ None \notin Texts
ASSUME ImportsAssumption == Imports \in [Files -> [Versions -> SUBSET Files]]

VARIABLES
  disk,       \* disk[f]: the text on disk, or Missing
  unseen,     \* the files whose text on disk changed and the watcher has yet to say so
  buffer,     \* buffer[f]: the text of the open document, or None
  folders,    \* the files that lie in the workspace folders
  cache       \* see Caches

wvars == <<disk, unseen, buffer, folders, cache>>

-----------------------------------------------------------------------------
Uses(f, t) == IF t = Missing THEN {} ELSE Imports[f][t]

\* f and all that edges lead to from it: the least set with f that they stay in.
Reach(edges, f) ==
  {g \in Files : \A S \in SUBSET Files :
                    (f \in S /\ \A e \in edges : e[1] \in S => e[2] \in S) => g \in S}

UsesOf(texts, S) == UNION {{f} \X Uses(f, texts[f]) : f \in S}

\* What an analysis of f finds when it reads these texts.
Judgement(f, texts) == [g \in Reach(UsesOf(texts, Files), f) |-> texts[g]]

Judgements == UNION {[S -> Texts] : S \in SUBSET Files}

\* What a judgement that covers g says of g alone, for reachedDiagnostics.
Part(judgement, g) ==
  [x \in Reach(UsesOf(judgement, DOMAIN judgement), g) |-> judgement[x]]

Caches ==
  [parsed: [Files -> Versions \cup {None}],      \* the text an entry was parsed from
   judged: [Files -> Judgements \cup {None}],    \* its Diagnostics
   edges: SUBSET (Files \X Files),               \* outEdges; inEdges is its inverse
   recorded: SUBSET Files,                       \* the keys of outEdges
   stale: SUBSET Files,                          \* staleEdges
   discovered: (SUBSET Files) \cup {None}]

Empty == [parsed |-> [f \in Files |-> None], judged |-> [f \in Files |-> None],
          edges |-> {}, recorded |-> {}, stale |-> {},
          discovered |-> None]

\* What the host reads: a document's text wherever it is open.
Host(docs, stored) ==
  [open |-> {f \in Files : docs[f] # None},
   text |-> [f \in Files |-> IF docs[f] # None THEN docs[f] ELSE stored[f]]]

host == Host(buffer, disk)

-----------------------------------------------------------------------------
(* Reading: fileOf and dependenciesOf.                                     *)

\* An open document's entry must be of its text; that of a file on disk is
\* good until the watcher speaks. (Every change of version drops the entry.)
Held(c, h, f) ==
  c.parsed[f] # None /\ (f \in h.open => c.parsed[f] = h.text[f])

Readable(c, h, f) == Held(c, h, f) \/ h.text[f] # Missing

\* fileOf, for each of these files.
FilesOf(c, h, S) ==
  LET renewed == {f \in S : ~Held(c, h, f)}
  IN [c EXCEPT
        !.parsed = [f \in Files |->
           IF f \notin renewed THEN @[f]
           ELSE IF h.text[f] = Missing THEN None ELSE h.text[f]],
        !.judged = [f \in Files |-> IF f \in renewed THEN None ELSE @[f]]]

\* dependenciesOf, by entries that are as fileOf leaves them: lexical, so that
\* files that are not there are named too.
Written(c, S) ==
  UNION {{f} \X Imports[f][c.parsed[f]] : f \in {g \in S : c.parsed[g] # None}}

-----------------------------------------------------------------------------
(* The dependency edges.                                                   *)

\* recordEdges, for each of these files.
RecordEdges(c, S, edges) ==
  [c EXCEPT !.edges = {e \in @ : e[1] \notin S} \cup edges,
            !.recorded = @ \cup S,
            !.stale = @ \ S]

RefreshEdges(c, h, S) ==
  LET read == FilesOf(c, h, S) IN RecordEdges(read, S, Written(read, S))

ForgetEdges(c, f) ==
  [c EXCEPT !.edges = {e \in @ : e[1] # f}, !.recorded = @ \ {f}, !.stale = @ \ {f}]

MarkEdgesStale(c) ==
  [c EXCEPT !.stale = @ \cup c.recorded
                        \cup (IF c.discovered = None THEN {} ELSE c.discovered)]

\* knownFiles: the folders are walked on disk, once.
KnownFiles(c, found) ==
  IF c.discovered # None THEN c
  ELSE [c EXCEPT !.discovered = found, !.stale = @ \cup found]

RefreshAllEdges(c, h, found) ==
  LET known == KnownFiles(c, found) IN RefreshEdges(known, h, known.stale)

BothWays(edges) == edges \cup {<<e[2], e[1]>> : e \in edges}

\* A walk of outEdges alone: importers keep what they were told.
ComponentDown(c, f) == Reach(c.edges, f)

\* connectedComponent over what is recorded, as an invalidation walks it.
Component(c, f) == Reach(BothWays(c.edges), f)

\* What dependentsOf finds: the readable files that lead to f.
Importers(c, h, f) ==
  Reach({<<e[2], e[1]>> : e \in {d \in c.edges : Readable(c, h, d[1])}}, f)

\* Edges that are exact, for every known file and for these.
Refreshed(c, h, found, S) ==
  LET all == RefreshAllEdges(c, h, found)
  IN RefreshEdges(all, h, S \ all.recorded)

\* What dependentsOf leaves behind, asked for each of these files: the walk
\* reads whoever it meets.
Dependents(c, h, found, S) ==
  LET exact == Refreshed(c, h, found, S)
      walked == UNION {Importers(exact, h, f) : f \in S}
      met == {e[1] : e \in {d \in exact.edges : d[2] \in walked}}
  IN FilesOf(exact, h, met)

-----------------------------------------------------------------------------
(* Invalidation.                                                           *)

Invalidate(c, f) == [c EXCEPT !.parsed[f] = None, !.judged[f] = None]

InvalidateEnrichment(c, f) ==
  LET affected == Component(c, f)
  IN [c EXCEPT !.judged = [g \in Files |-> IF g \in affected THEN None ELSE @[g]]]

\* A file known of for the first time makes every file's edges suspect.
Discover(c, f, inside) ==
  IF f \in inside /\ c.discovered # None /\ f \notin c.discovered
  THEN MarkEdgesStale([c EXCEPT !.discovered = @ \cup {f}])
  ELSE c

Changed(c, f, inside) ==
  LET dropped == InvalidateEnrichment(Invalidate(c, f), f)
  IN Discover([dropped EXCEPT !.stale = @ \cup {f}], f, inside)

Removed(c, f) ==
  LET dropped == Invalidate(InvalidateEnrichment(c, f), f)
  IN MarkEdgesStale(ForgetEdges(
       [dropped EXCEPT !.discovered = IF @ = None THEN None ELSE @ \ {f}], f))

-----------------------------------------------------------------------------
(* The analysis.                                                           *)

\* The graph reads the entry's own text for its root and the host for the rest.
GraphTexts(c, h, root) == [h.text EXCEPT ![root] = c.parsed[root]]

\* analyseGraphFrom: every Module of the graph is judged at once. Edges to
\* files that could not be read are recorded too. Who has Diagnostics keeps them.
AnalyseGraph(c, h, root) ==
  LET texts == GraphTexts(c, h, root)
      linked == {f \in DOMAIN Judgement(root, texts) : texts[f] # Missing}
      read == FilesOf(c, h, linked)
      resolved == {e \in UsesOf(texts, linked) : texts[e[2]] # Missing}
      noted == RecordEdges(read, linked, resolved \cup Written(read, linked))
      judgedNow(f) == /\ f \in linked
                      /\ noted.parsed[f] = texts[f]
                      /\ noted.judged[f] = None
  IN [noted EXCEPT !.judged =
        [f \in Files |-> IF judgedNow(f) THEN Judgement(f, texts) ELSE @[f]]]

\* analysisOf
AnalysisOf(c, h, f) ==
  LET read == FilesOf(c, h, {f})
  IN IF read.parsed[f] = None \/ read.judged[f] # None
     THEN read
     ELSE AnalyseGraph(read, h, f)

-----------------------------------------------------------------------------
WorkspaceTypeOK ==
  /\ disk \in [Files -> Texts]
  /\ unseen \subseteq Files
  /\ buffer \in [Files -> Versions \cup {None}]
  /\ folders \subseteq Files
  /\ cache \in Caches

\* An analysis that is held is what a fresh one would be, unless a file it
\* covers has changed on disk and the watcher has not said so yet: no edit,
\* however the import edges were recorded, leaves an importer's entry behind.
CachedIsFresh ==
  \A f \in Files :
    LET held == cache.judged[f]
    IN (held # None /\ DOMAIN held \cap unseen = {}) => held = Judgement(f, host.text)
=============================================================================
