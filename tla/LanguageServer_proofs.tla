------------------------- MODULE LanguageServer_proofs -------------------------
(***************************************************************************)
(* Proofs that the language server never holds an analysis an edit has     *)
(* made wrong, never holds a document back and shows the client what is    *)
(* true, for any number of files, any imports and any number of events.    *)
(***************************************************************************)
EXTENDS LanguageServer, FiniteSetTheorems, WellFoundedInduction, TLAPS

-----------------------------------------------------------------------------
(* The inductive invariant. A judgement may be old only behind a file that *)
(* changed on disk unnoticed; up to there (Clear) it is the texts as they  *)
(* are, and the edges it came by are recorded, so that the invalidation of *)
(* any file it rests on walks back to it.                                  *)

Inner(J) == UsesOf(J, DOMAIN J)

\* What judgement J of f rests on before it meets an unnoticed change.
Clear(J, f, u) == Reach({e \in Inner(J) : e[1] \notin u}, f)

Fits(J, f, edges, text, u) ==
  /\ J \in Judgements
  /\ DOMAIN J = Reach(Inner(J), f)
  /\ \A x \in Clear(J, f, u) : x \notin u => J[x] = text[x]
  /\ \A e \in Inner(J) : (e[1] \in Clear(J, f, u) /\ e[1] \notin u) => e \in edges

Sound(c, text, u) ==
  /\ c \in Caches
  /\ \A f \in Files : (c.parsed[f] # None /\ f \notin u) => c.parsed[f] = text[f]
  /\ \A f \in Files : c.judged[f] # None => Fits(c.judged[f], f, c.edges, text, u)

WorkspaceInv == WorkspaceTypeOK /\ Sound(cache, host.text, unseen)

-----------------------------------------------------------------------------
(* Reach.                                                                  *)

\* Reach starts at its root, is closed under the edges, and is the least such set.
LEMMA ReachRoot == ASSUME NEW E, NEW f \in Files PROVE f \in Reach(E, f)
BY DEF Reach

LEMMA ReachClosed ==
  ASSUME NEW E, NEW f, NEW e \in E, e[1] \in Reach(E, f), e[2] \in Files
  PROVE  e[2] \in Reach(E, f)
BY DEF Reach

LEMMA ReachLeast ==
  ASSUME NEW E, NEW f, NEW S \in SUBSET Files, f \in S,
         \A e \in E : e[1] \in S => e[2] \in S
  PROVE  Reach(E, f) \subseteq S
BY DEF Reach

LEMMA ReachType == ASSUME NEW E, NEW f PROVE Reach(E, f) \subseteq Files
BY DEF Reach

LEMMA UsesType ==
  ASSUME NEW f \in Files, NEW t \in Texts
  PROVE  Uses(f, t) \subseteq Files
BY ImportsAssumption DEF Uses, Texts

\* The edges of a set of files are pairs of one of them and a file it uses.
LEMMA UsesOfPairs ==
  ASSUME NEW S \in SUBSET Files, NEW texts, \A x \in S : texts[x] \in Texts,
         NEW e \in UsesOf(texts, S)
  PROVE  /\ e = <<e[1], e[2]>> /\ e[1] \in S /\ e[2] \in Files
         /\ e[2] \in Uses(e[1], texts[e[1]]) /\ texts[e[1]] # Missing
<1>1. PICK f \in S : e \in {f} \X Uses(f, texts[f])
  BY DEF UsesOf
<1>2. Uses(f, texts[f]) \subseteq Files
  BY UsesType
<1> QED BY <1>1, <1>2 DEF Uses

LEMMA UsesOfHas ==
  ASSUME NEW S, NEW texts, NEW x \in S, NEW y \in Uses(x, texts[x])
  PROVE  <<x, y>> \in UsesOf(texts, S)
BY DEF UsesOf

LEMMA JudgementsType ==
  ASSUME NEW J \in Judgements
  PROVE  /\ DOMAIN J \in SUBSET Files
         /\ \A x \in DOMAIN J : J[x] \in Texts
         /\ J = [x \in DOMAIN J |-> J[x]]
BY DEF Judgements

LEMMA JudgementType ==
  ASSUME NEW f \in Files, NEW texts \in [Files -> Texts]
  PROVE  Judgement(f, texts) \in Judgements
<1>1. Reach(UsesOf(texts, Files), f) \in SUBSET Files
  BY ReachType
<1>2. Judgement(f, texts) \in [Reach(UsesOf(texts, Files), f) -> Texts]
  BY <1>1 DEF Judgement
<1> QED BY <1>1, <1>2 DEF Judgements

\* A fresh judgement covers what its own edges lead to.
LEMMA JudgementWhole ==
  ASSUME NEW f \in Files, NEW texts \in [Files -> Texts]
  PROVE  LET J == Judgement(f, texts) IN DOMAIN J = Reach(Inner(J), f)
<1> DEFINE J == Judgement(f, texts)
           D == DOMAIN J
           E == UsesOf(texts, Files)
<1>1. D = Reach(E, f) /\ D \in SUBSET Files /\ \A x \in D : J[x] = texts[x]
  BY ReachType DEF Judgement
<1>2. ASSUME NEW e \in Inner(J) PROVE e \in E /\ e[1] \in D /\ e[2] \in D
  <2>1. /\ e = <<e[1], e[2]>> /\ e[1] \in D /\ e[2] \in Files
        /\ e[2] \in Uses(e[1], J[e[1]])
    BY <1>1, UsesOfPairs DEF Inner
  <2>2. e \in E
    BY <1>1, <2>1, UsesOfHas
  <2> QED BY <1>1, <2>1, <2>2, ReachClosed
<1>3. Reach(Inner(J), f) \subseteq D
  BY <1>1, <1>2, ReachRoot, ReachLeast
<1>4. ASSUME NEW e \in E, e[1] \in Reach(Inner(J), f) PROVE e[2] \in Reach(Inner(J), f)
  <2>1. /\ e = <<e[1], e[2]>> /\ e[2] \in Files /\ e[2] \in Uses(e[1], texts[e[1]])
    BY UsesOfPairs
  <2>2. e[1] \in D
    BY <1>3, <1>4
  <2>3. e \in Inner(J)
    BY <1>1, <2>1, <2>2, UsesOfHas DEF Inner
  <2> QED BY <1>4, <2>1, <2>3, ReachClosed
<1>5. D \subseteq Reach(Inner(J), f)
  <2> DEFINE R == Reach(Inner(J), f)
  <2>1. R \in SUBSET Files /\ f \in R
    BY ReachType, ReachRoot
  <2>2. \A e \in E : e[1] \in R => e[2] \in R
    BY <1>4
  <2> HIDE DEF R
  <2>3. Reach(E, f) \subseteq R
    BY <2>1, <2>2, ReachLeast
  <2> QED BY <1>1, <2>3 DEF R
<1> QED BY <1>3, <1>5

\* What a judgement rests on is part of what it covers.
LEMMA ClearInside ==
  ASSUME NEW J \in Judgements, NEW f \in Files, NEW u, DOMAIN J = Reach(Inner(J), f)
  PROVE  /\ Clear(J, f, u) \subseteq DOMAIN J
         /\ f \in Clear(J, f, u)
<1>1. \A e \in {d \in Inner(J) : d[1] \notin u} : e[1] \in DOMAIN J => e[2] \in DOMAIN J
  <2> SUFFICES ASSUME NEW e \in Inner(J) PROVE e[1] \in DOMAIN J => e[2] \in DOMAIN J
    OBVIOUS
  <2>1. e[2] \in Files
    BY JudgementsType, UsesOfPairs DEF Inner
  <2> QED BY <2>1, ReachClosed
<1>2. f \in DOMAIN J /\ DOMAIN J \in SUBSET Files
  BY ReachRoot, JudgementsType
<1> QED BY <1>1, <1>2, ReachLeast, ReachRoot DEF Clear

\* Without unnoticed changes among what it covers, a judgement that fits is the
\* one an analysis would come to now.
LEMMA FitsIsFresh ==
  ASSUME NEW J, NEW f \in Files, NEW edges, NEW text \in [Files -> Texts], NEW u,
         Fits(J, f, edges, text, u), DOMAIN J \cap u = {}
  PROVE  J = Judgement(f, text)
<1> DEFINE D == DOMAIN J
           E == UsesOf(text, Files)
<1>1. /\ J \in Judgements /\ D \in SUBSET Files /\ \A x \in D : J[x] \in Texts
      /\ D = Reach(Inner(J), f)
  BY JudgementsType DEF Fits
<1>2. {e \in Inner(J) : e[1] \notin u} = Inner(J)
  <2>1. \A e \in Inner(J) : e[1] \in D
    BY <1>1, UsesOfPairs DEF Inner
  <2> QED BY <2>1
<1>3. \A x \in D : J[x] = text[x]
  BY <1>1, <1>2 DEF Fits, Clear
<1>4. Reach(E, f) \subseteq D
  <2>1. ASSUME NEW e \in E, e[1] \in D PROVE e[2] \in D
    <3>1. /\ e = <<e[1], e[2]>> /\ e[2] \in Files /\ e[2] \in Uses(e[1], text[e[1]])
      BY UsesOfPairs
    <3>2. e \in Inner(J)
      BY <1>3, <2>1, <3>1, UsesOfHas DEF Inner
    <3> QED BY <1>1, <2>1, <3>1, <3>2, ReachClosed
  <2>2. f \in D
    BY <1>1, ReachRoot
  <2> HIDE DEF D
  <2> QED BY <1>1, <2>1, <2>2, ReachLeast
<1>5. D \subseteq Reach(E, f)
  <2> DEFINE R == Reach(E, f)
  <2>1. ASSUME NEW e \in Inner(J), e[1] \in R PROVE e[2] \in R
    <3>1. /\ e = <<e[1], e[2]>> /\ e[1] \in D /\ e[2] \in Files /\ e[2] \in Uses(e[1], J[e[1]])
      BY <1>1, UsesOfPairs DEF Inner
    <3>2. e \in E
      BY <1>1, <1>3, <3>1, UsesOfHas
    <3> QED BY <2>1, <3>1, <3>2, ReachClosed
  <2>2. R \in SUBSET Files /\ f \in R
    BY ReachType, ReachRoot
  <2> HIDE DEF R
  <2>3. Reach(Inner(J), f) \subseteq R
    BY <2>1, <2>2, ReachLeast
  <2> QED BY <1>1, <2>3 DEF R
<1>6. J = [x \in D |-> text[x]]
  BY <1>1, <1>3, JudgementsType
<1> QED BY <1>4, <1>5, <1>6 DEF Judgement

-----------------------------------------------------------------------------
(* Each operation of the workspace keeps a cache sound.                    *)

Hosts == [open: SUBSET Files, text: [Files -> Texts]]

LEMMA HostType ==
  ASSUME NEW docs \in [Files -> Versions \cup {None}], NEW stored \in [Files -> Texts]
  PROVE  Host(docs, stored) \in Hosts
BY DEF Host, Hosts, Texts

\* Judgements that fit still do when they are some of those there were, over
\* edges that keep what they rest on.
LEMMA StillFits ==
  ASSUME NEW J, NEW f \in Files, NEW edges, NEW more, NEW text, NEW u,
         Fits(J, f, edges, text, u),
         \A e \in Inner(J) :
           (e[1] \in Clear(J, f, u) /\ e[1] \notin u /\ e \in edges) => e \in more
  PROVE  Fits(J, f, more, text, u)
BY DEF Fits

LEMMA FilesOfShape ==
  ASSUME NEW c \in Caches, NEW h \in Hosts, NEW S
  PROVE  LET r == FilesOf(c, h, S)
         IN /\ r \in Caches
            /\ r.edges = c.edges /\ r.recorded = c.recorded /\ r.stale = c.stale
            /\ r.discovered = c.discovered
            /\ \A f \in Files :
                 /\ r.judged[f] = c.judged[f] \/ r.judged[f] = None
                 /\ r.parsed[f] = c.parsed[f] \/ r.parsed[f] = h.text[f] \/ r.parsed[f] = None
                 /\ f \in S => (r.parsed[f] = None => h.text[f] = Missing)
<1> DEFINE renewed == {f \in S : ~Held(c, h, f)}
           parsed == [f \in Files |-> IF f \notin renewed THEN c.parsed[f]
                                      ELSE IF h.text[f] = Missing THEN None ELSE h.text[f]]
           judged == [f \in Files |-> IF f \in renewed THEN None ELSE c.judged[f]]
           r == FilesOf(c, h, S)
<1>1. r = [c EXCEPT !.parsed = parsed, !.judged = judged]
  BY DEF FilesOf
<1>2. parsed \in [Files -> Versions \cup {None}]
  BY DEF Caches, Hosts, Texts
<1>3. judged \in [Files -> Judgements \cup {None}]
  BY DEF Caches
<1>4. \A f \in Files : f \in S => (parsed[f] = None => h.text[f] = Missing)
  BY TextsAssumption DEF Held, Hosts, Texts
<1>5. /\ r \in Caches /\ r.parsed = parsed /\ r.judged = judged
      /\ r.edges = c.edges /\ r.recorded = c.recorded /\ r.stale = c.stale
      /\ r.discovered = c.discovered
  <2> HIDE DEF parsed, judged, r
  <2> QED BY <1>1, <1>2, <1>3 DEF Caches
<1>6. \A f \in Files : /\ judged[f] = c.judged[f] \/ judged[f] = None
                       /\ parsed[f] = c.parsed[f] \/ parsed[f] = h.text[f] \/ parsed[f] = None
  OBVIOUS
<1> HIDE DEF r, parsed, judged
<1>7. /\ r \in Caches
      /\ r.edges = c.edges /\ r.recorded = c.recorded /\ r.stale = c.stale
      /\ r.discovered = c.discovered
      /\ \A f \in Files :
           /\ r.judged[f] = c.judged[f] \/ r.judged[f] = None
           /\ r.parsed[f] = c.parsed[f] \/ r.parsed[f] = h.text[f] \/ r.parsed[f] = None
           /\ f \in S => (r.parsed[f] = None => h.text[f] = Missing)
  BY <1>4, <1>5, <1>6
<1> QED BY <1>7 DEF r

LEMMA FilesOfSound ==
  ASSUME NEW c, NEW h \in Hosts, NEW u, NEW S, Sound(c, h.text, u)
  PROVE  Sound(FilesOf(c, h, S), h.text, u)
<1> DEFINE r == FilesOf(c, h, S)
<1>1. c \in Caches
  BY DEF Sound
<1>2. /\ r \in Caches /\ r.edges = c.edges
      /\ \A f \in Files :
           /\ r.judged[f] = c.judged[f] \/ r.judged[f] = None
           /\ r.parsed[f] = c.parsed[f] \/ r.parsed[f] = h.text[f] \/ r.parsed[f] = None
  BY <1>1, FilesOfShape
<1> HIDE DEF r
<1>3. Sound(r, h.text, u)
  BY <1>2 DEF Sound
<1> QED BY <1>3 DEF r

LEMMA WrittenPairs ==
  ASSUME NEW c \in Caches, NEW S \in SUBSET Files
  PROVE  /\ Written(c, S) \subseteq S \X Files
         /\ \A x \in S : \A y : (c.parsed[x] # None /\ y \in Imports[x][c.parsed[x]])
                              => <<x, y>> \in Written(c, S)
<1>1. \A f \in S : c.parsed[f] # None => Imports[f][c.parsed[f]] \subseteq Files
  BY ImportsAssumption DEF Caches
<1>2. ASSUME NEW e \in Written(c, S) PROVE e \in S \X Files
  <2>1. PICK f \in S : c.parsed[f] # None /\ e \in {f} \X Imports[f][c.parsed[f]]
    BY DEF Written
  <2> QED BY <1>1, <2>1
<1> QED BY <1>2 DEF Written

\* What is read of a file agrees with its text, unless that changed unnoticed.
LEMMA ReadIsText ==
  ASSUME NEW c, NEW h \in Hosts, NEW u, NEW S, Sound(c, h.text, u),
         NEW x \in S, x \in Files, x \notin u, h.text[x] # Missing
  PROVE  LET r == FilesOf(c, h, S)
         IN r.parsed[x] = h.text[x] /\ r.parsed[x] # None
<1> DEFINE r == FilesOf(c, h, S)
<1>1. c \in Caches /\ Sound(r, h.text, u)
  BY FilesOfSound DEF Sound
<1>2. r.parsed[x] # None
  BY <1>1, FilesOfShape
<1> QED BY <1>1, <1>2 DEF Sound

LEMMA RefreshEdgesSound ==
  ASSUME NEW c, NEW h \in Hosts, NEW u, NEW S \in SUBSET Files, Sound(c, h.text, u)
  PROVE  Sound(RefreshEdges(c, h, S), h.text, u)
<1> DEFINE r == FilesOf(c, h, S)
           edges == {e \in r.edges : e[1] \notin S} \cup Written(r, S)
           n == [r EXCEPT !.edges = edges, !.recorded = @ \cup S, !.stale = @ \ S]
<1>1. RefreshEdges(c, h, S) = n
  BY DEF RefreshEdges, RecordEdges
<1>2. Sound(r, h.text, u) /\ r \in Caches
  BY FilesOfSound DEF Sound
<1>3. edges \in SUBSET (Files \X Files)
  BY <1>2, WrittenPairs DEF Caches
<1>4. /\ n \in Caches /\ n.parsed = r.parsed /\ n.judged = r.judged /\ n.edges = edges
  BY <1>2, <1>3 DEF Caches
<1>5. ASSUME NEW f \in Files, r.judged[f] # None
      PROVE  Fits(r.judged[f], f, edges, h.text, u)
  <2> DEFINE J == r.judged[f]
  <2>1. Fits(J, f, r.edges, h.text, u)
    BY <1>2, <1>5 DEF Sound
  <2>2. /\ DOMAIN J \in SUBSET Files /\ \A x \in DOMAIN J : J[x] \in Texts
    BY <2>1, JudgementsType DEF Fits
  <2>3. ASSUME NEW e \in Inner(J), e[1] \in Clear(J, f, u), e[1] \notin u, e \in r.edges
        PROVE  e \in edges
    <3>1. /\ e = <<e[1], e[2]>> /\ e[1] \in DOMAIN J
          /\ e[2] \in Uses(e[1], J[e[1]]) /\ J[e[1]] # Missing
      BY <2>2, UsesOfPairs DEF Inner
    <3>2. J[e[1]] = h.text[e[1]]
      BY <2>1, <2>3 DEF Fits
    <3>3. CASE e[1] \notin S
      BY <2>3, <3>3
    <3>4. CASE e[1] \in S
      <4>1. r.parsed[e[1]] = h.text[e[1]] /\ r.parsed[e[1]] # None
        BY <2>2, <2>3, <3>1, <3>2, <3>4, ReadIsText
      <4>2. e[2] \in Imports[e[1]][r.parsed[e[1]]]
        BY <3>1, <3>2, <4>1 DEF Uses
      <4>3. <<e[1], e[2]>> \in Written(r, S)
        BY <1>2, <3>4, <4>1, <4>2, WrittenPairs
      <4> QED BY <3>1, <4>3
    <3> QED BY <3>3, <3>4
  <2> HIDE DEF J, edges
  <2>4. Fits(J, f, edges, h.text, u)
    BY <2>1, <2>3, StillFits
  <2> QED BY <2>4 DEF J
<1> HIDE DEF n, edges, r
<1>6. Sound(n, h.text, u)
  BY <1>2, <1>4, <1>5 DEF Sound
<1> QED BY <1>1, <1>6

LEMMA RefreshedSound ==
  ASSUME NEW c, NEW h \in Hosts, NEW u, NEW found \in SUBSET Files,
         NEW S \in SUBSET Files, Sound(c, h.text, u)
  PROVE  Sound(Refreshed(c, h, found, S), h.text, u)
<1> DEFINE known == KnownFiles(c, found)
           all == RefreshEdges(known, h, known.stale)
<1>1. c \in Caches
  BY DEF Sound
<1>2. /\ known \in Caches /\ known.parsed = c.parsed /\ known.judged = c.judged
      /\ known.edges = c.edges
  BY <1>1 DEF KnownFiles, Caches
<1>3. Sound(known, h.text, u) /\ known.stale \in SUBSET Files
  <2> HIDE DEF known
  <2> QED BY <1>2 DEF Sound, Caches
<1>4. Sound(all, h.text, u)
  <2> HIDE DEF known
  <2> QED BY <1>3, RefreshEdgesSound
<1>5. S \ all.recorded \in SUBSET Files
  OBVIOUS
<1>6. Refreshed(c, h, found, S) = RefreshEdges(all, h, S \ all.recorded)
  BY DEF Refreshed, RefreshAllEdges
<1> HIDE DEF all
<1> QED BY <1>4, <1>5, <1>6, RefreshEdgesSound

LEMMA DependentsSound ==
  ASSUME NEW c, NEW h \in Hosts, NEW u, NEW found \in SUBSET Files,
         NEW S \in SUBSET Files, Sound(c, h.text, u)
  PROVE  Sound(Dependents(c, h, found, S), h.text, u)
BY RefreshedSound, FilesOfSound DEF Dependents

LEMMA AnalyseGraphSound ==
  ASSUME NEW c, NEW h \in Hosts, NEW u, NEW root \in Files,
         Sound(c, h.text, u), c.parsed[root] # None
  PROVE  Sound(AnalyseGraph(c, h, root), h.text, u)
<1> DEFINE texts == GraphTexts(c, h, root)
           E == UsesOf(texts, Files)
           linked == {f \in DOMAIN Judgement(root, texts) : texts[f] # Missing}
           read == FilesOf(c, h, linked)
           written == Written(read, linked)
           resolved == {e \in UsesOf(texts, linked) : texts[e[2]] # Missing}
           edges == {e \in read.edges : e[1] \notin linked} \cup (resolved \cup written)
           noted == RecordEdges(read, linked, resolved \cup written)
           judgedNow(f) == f \in linked /\ noted.parsed[f] = texts[f] /\ noted.judged[f] = None
           judged == [f \in Files |-> IF judgedNow(f) THEN Judgement(f, texts) ELSE noted.judged[f]]
           n == AnalyseGraph(c, h, root)
<1>1. c \in Caches /\ texts \in [Files -> Texts]
  BY DEF Sound, GraphTexts, Caches, Hosts, Texts
<1>2. \A x \in Files : x \notin u => texts[x] = h.text[x]
  BY <1>1 DEF Sound, GraphTexts, Hosts
<1>3. DOMAIN Judgement(root, texts) = Reach(E, root) /\ Reach(E, root) \in SUBSET Files
  BY ReachType DEF Judgement
<1>4. linked \in SUBSET Files /\ Sound(read, h.text, u) /\ read \in Caches
  BY <1>3, FilesOfSound DEF Sound
<1>5. edges \in SUBSET (Files \X Files)
  <2>1. written \subseteq linked \X Files
    BY <1>4, WrittenPairs
  <2>2. UsesOf(texts, linked) \subseteq Files \X Files
    BY <1>1, <1>4, UsesOfPairs
  <2> QED BY <1>4, <2>1, <2>2 DEF Caches
<1>6. /\ noted \in Caches /\ noted.parsed = read.parsed /\ noted.judged = read.judged
      /\ noted.edges = edges
  <2>1. noted = [read EXCEPT !.edges = edges, !.recorded = @ \cup linked, !.stale = @ \ linked]
    BY DEF RecordEdges
  <2> HIDE DEF noted, edges, read, linked
  <2> QED BY <1>4, <1>5, <2>1 DEF Caches
\* Of a file that changed behind nobody's back, all it writes is recorded.
<1>7. ASSUME NEW x \in linked, x \notin u, NEW y \in Imports[x][h.text[x]]
      PROVE  <<x, y>> \in edges
  <2>1. texts[x] = h.text[x] /\ h.text[x] # Missing
    BY <1>2, <1>4, <1>7
  <2>2. read.parsed[x] = h.text[x] /\ read.parsed[x] # None
    BY <1>4, <1>7, <2>1, ReadIsText
  <2>3. <<x, y>> \in written
    BY <1>4, <1>7, <2>2, WrittenPairs
  <2> QED BY <2>3
<1>8. judged \in [Files -> Judgements \cup {None}]
  BY <1>1, <1>6, JudgementType DEF Caches
<1>9. /\ n \in Caches /\ n.parsed = read.parsed /\ n.judged = judged /\ n.edges = edges
  <2>1. n = [noted EXCEPT !.judged = judged]
    BY DEF AnalyseGraph
  <2> HIDE DEF noted, judged, n, edges, read
  <2> QED BY <1>6, <1>8, <2>1 DEF Caches
<1>10. ASSUME NEW f \in Files, read.judged[f] # None
       PROVE  Fits(read.judged[f], f, edges, h.text, u)
  <2> DEFINE J == read.judged[f]
  <2>1. Fits(J, f, read.edges, h.text, u)
    BY <1>4, <1>10 DEF Sound
  <2>2. /\ DOMAIN J \in SUBSET Files /\ \A x \in DOMAIN J : J[x] \in Texts
    BY <2>1, JudgementsType DEF Fits
  <2>3. ASSUME NEW e \in Inner(J), e[1] \in Clear(J, f, u), e[1] \notin u, e \in read.edges
        PROVE  e \in edges
    <3>1. /\ e = <<e[1], e[2]>> /\ e[1] \in DOMAIN J
          /\ e[2] \in Uses(e[1], J[e[1]]) /\ J[e[1]] # Missing
      BY <2>2, UsesOfPairs DEF Inner
    <3>2. J[e[1]] = h.text[e[1]]
      BY <2>1, <2>3 DEF Fits
    <3>3. CASE e[1] \notin linked
      BY <2>3, <3>3
    <3>4. CASE e[1] \in linked
      <4>1. e[2] \in Imports[e[1]][h.text[e[1]]]
        BY <3>1, <3>2 DEF Uses
      <4> HIDE DEF edges, linked, J
      <4>2. <<e[1], e[2]>> \in edges
        BY <1>7, <2>3, <3>4, <4>1
      <4> QED BY <3>1, <4>2
    <3> QED BY <3>3, <3>4
  <2> HIDE DEF J, edges
  <2>4. Fits(J, f, edges, h.text, u)
    BY <2>1, <2>3, StillFits
  <2> QED BY <2>4 DEF J
<1>11. ASSUME NEW f \in linked
       PROVE  Fits(Judgement(f, texts), f, edges, h.text, u)
  <2> DEFINE J == Judgement(f, texts)
  <2>1. f \in Files /\ J \in Judgements /\ DOMAIN J = Reach(Inner(J), f)
    BY <1>1, <1>4, JudgementType, JudgementWhole
  <2>2. DOMAIN J = Reach(E, f) /\ \A x \in DOMAIN J : J[x] = texts[x]
    BY DEF Judgement
  <2>3. DOMAIN J \subseteq Reach(E, root)
    <3>1. f \in Reach(E, root)
      BY <1>3
    <3>2. ASSUME NEW e \in E, e[1] \in Reach(E, root) PROVE e[2] \in Reach(E, root)
      <4>1. e[2] \in Files
        BY <1>1, UsesOfPairs
      <4> QED BY <3>2, <4>1, ReachClosed
    <3> HIDE DEF E
    <3>3. Reach(E, f) \subseteq Reach(E, root)
      BY <1>3, <3>1, <3>2, ReachLeast
    <3> QED BY <2>2, <3>3 DEF E
  <2>4. Clear(J, f, u) \subseteq DOMAIN J
    BY <2>1, ClearInside
  <2>5. \A x \in Clear(J, f, u) : x \notin u => J[x] = h.text[x]
    BY <1>2, <1>3, <2>2, <2>3, <2>4
  <2>6. ASSUME NEW e \in Inner(J), e[1] \in Clear(J, f, u), e[1] \notin u
        PROVE  e \in edges
    <3>1. /\ e = <<e[1], e[2]>> /\ e[1] \in DOMAIN J /\ DOMAIN J \in SUBSET Files
          /\ e[2] \in Uses(e[1], J[e[1]]) /\ J[e[1]] # Missing
      BY <2>1, JudgementsType, UsesOfPairs DEF Inner
    <3>2. e[1] \in linked
      BY <1>3, <2>2, <2>3, <3>1
    <3>3. e[2] \in Imports[e[1]][h.text[e[1]]]
      BY <2>5, <2>6, <3>1 DEF Uses
    <3> HIDE DEF edges, linked, J
    <3>4. <<e[1], e[2]>> \in edges
      BY <1>7, <2>6, <3>2, <3>3
    <3> QED BY <3>1, <3>4
  <2> HIDE DEF J, edges
  <2>7. Fits(J, f, edges, h.text, u)
    BY <2>1, <2>5, <2>6 DEF Fits
  <2> QED BY <2>7 DEF J
<1>12. \A f \in Files : judged[f] # None => Fits(judged[f], f, edges, h.text, u)
  <2> SUFFICES ASSUME NEW f \in Files, judged[f] # None
               PROVE  Fits(judged[f], f, edges, h.text, u)
    OBVIOUS
  <2>1. CASE judgedNow(f)
    <3>1. judged[f] = Judgement(f, texts) /\ f \in linked
      BY <2>1
    <3> HIDE DEF judged, edges, linked
    <3> QED BY <1>11, <3>1
  <2>2. CASE ~judgedNow(f)
    <3>1. judged[f] = read.judged[f]
      BY <1>6, <2>2
    <3> HIDE DEF judged, edges, read
    <3> QED BY <1>10, <3>1
  <2> QED BY <2>1, <2>2
<1>13. \A f \in Files : (read.parsed[f] # None /\ f \notin u) => read.parsed[f] = h.text[f]
  BY <1>4 DEF Sound
<1> HIDE DEF n, judged, edges, read
<1>14. Sound(n, h.text, u)
  BY <1>9, <1>12, <1>13 DEF Sound
<1> QED BY <1>14 DEF n

LEMMA AnalysisOfSound ==
  ASSUME NEW c, NEW h \in Hosts, NEW u, NEW f \in Files, Sound(c, h.text, u)
  PROVE  Sound(AnalysisOf(c, h, f), h.text, u)
BY FilesOfSound, AnalyseGraphSound DEF AnalysisOf

\* What a judgement of f rests on is connected to f by recorded edges, either
\* way: who is not in the component of y does not rest on y.
LEMMA RestsInComponent ==
  ASSUME NEW J, NEW f \in Files, NEW y \in Files, NEW edges \in SUBSET (Files \X Files),
         NEW text, NEW u, Fits(J, f, edges, text, u), f \notin Reach(BothWays(edges), y)
  PROVE  y \notin Clear(J, f, u)
<1> DEFINE near == Reach(BothWays(edges), y)
           cut == {e \in Inner(J) : e[1] \notin u}
           C == Clear(J, f, u)
           S == C \ near
<1>1. C \in SUBSET Files /\ f \in C /\ y \in near
  BY ReachType, ReachRoot DEF Clear
<1>2. ASSUME NEW e \in cut, e[1] \in S PROVE e[2] \in S
  <2>1. /\ e = <<e[1], e[2]>> /\ e[2] \in Files /\ e[1] \in Files
    BY JudgementsType, UsesOfPairs DEF Inner, Fits
  <2>2. e[2] \in C
    BY <1>2, <2>1, ReachClosed DEF Clear
  <2>3. e \in edges
    BY <1>2 DEF Fits
  <2>4. <<e[2], e[1]>> \in BothWays(edges)
    BY <2>3 DEF BothWays
  <2>5. e[2] \notin near
    <3>1. SUFFICES ASSUME e[2] \in near PROVE FALSE
      OBVIOUS
    <3> DEFINE back == <<e[2], e[1]>>
    <3>2. back[1] = e[2] /\ back[2] = e[1] /\ back \in BothWays(edges)
      BY <2>4
    <3> HIDE DEF back
    <3>3. back[2] \in near
      BY <2>1, <3>1, <3>2, ReachClosed
    <3> QED BY <1>2, <3>2, <3>3
  <2> QED BY <2>2, <2>5
<1>3. f \in S /\ S \in SUBSET Files
  BY <1>1
<1> HIDE DEF S
<1>4. Reach(cut, f) \subseteq S
  BY <1>2, <1>3, ReachLeast
<1> QED BY <1>1, <1>4 DEF S, Clear

\* A judgement that does not rest on y, or whose change nobody has noticed yet,
\* still fits when the text of y moves and its edges go.
LEMMA Moved ==
  ASSUME NEW J, NEW f \in Files, NEW y, NEW edges, NEW more, NEW text, NEW after,
         NEW u, NEW v, Fits(J, f, edges, text, u),
         \A x \in Files \ {y} : after[x] = text[x] /\ (x \in v <=> x \in u),
         y \notin Clear(J, f, u) \/ y \in v,
         \A e \in edges : e[1] # y => e \in more
  PROVE  Fits(J, f, more, after, v)
<1> DEFINE C == Clear(J, f, u)
           cut == {e \in Inner(J) : e[1] \notin v}
<1>1. C \in SUBSET Files /\ f \in C
  BY ReachType, ReachRoot DEF Clear
<1>2. ASSUME NEW e \in cut, e[1] \in C PROVE e[2] \in C
  <2>1. e[2] \in Files
    BY JudgementsType, UsesOfPairs DEF Inner, Fits
  <2>2. e[1] \notin u
    BY <1>1, <1>2
  <2> QED BY <1>2, <2>1, <2>2, ReachClosed DEF Clear
<1> HIDE DEF C
<1>3. Reach(cut, f) \subseteq C
  BY <1>1, <1>2, ReachLeast
<1>4. \A x \in Clear(J, f, v) : x \notin v => (x # y /\ x \in C /\ x \notin u /\ x \in Files)
  BY <1>1, <1>3 DEF Clear, C
<1>5. \A x \in Clear(J, f, v) : x \notin v => J[x] = after[x]
  BY <1>4 DEF Fits, C
<1>6. \A e \in Inner(J) : (e[1] \in Clear(J, f, v) /\ e[1] \notin v) => e \in more
  BY <1>4 DEF Fits, C
<1> QED BY <1>5, <1>6 DEF Fits

\* changed and removed: the text of y is what it is now, and the watcher has
\* nothing more to say about it, or nothing less than before.
LEMMA InvalidatedSound ==
  ASSUME NEW c, NEW text, NEW after, NEW u, NEW v, NEW y \in Files,
         Sound(c, text, u),
         \A x \in Files \ {y} : after[x] = text[x] /\ (x \in v <=> x \in u),
         NEW d \in Caches, \A e \in c.edges : e[1] # y => e \in d.edges,
         d.parsed = [c.parsed EXCEPT ![y] = None],
         \A f \in Files : \/ d.judged[f] = None
                          \/ d.judged[f] = c.judged[f] /\ f \notin Reach(BothWays(c.edges), y)
  PROVE  Sound(d, after, v)
<1>1. c \in Caches
  BY DEF Sound
<1>2. ASSUME NEW f \in Files, d.judged[f] # None
      PROVE  Fits(d.judged[f], f, d.edges, after, v)
  <2>1. d.judged[f] = c.judged[f] /\ f \notin Reach(BothWays(c.edges), y)
    BY <1>2
  <2>2. Fits(c.judged[f], f, c.edges, text, u)
    BY <1>2, <2>1 DEF Sound
  <2>3. y \notin Clear(c.judged[f], f, u)
    BY <1>1, <2>1, <2>2, RestsInComponent DEF Caches
  <2> QED BY <2>1, <2>2, <2>3, Moved
<1>3. \A f \in Files : (d.parsed[f] # None /\ f \notin v) => d.parsed[f] = after[f]
  BY <1>1 DEF Sound, Caches
<1> QED BY <1>2, <1>3 DEF Sound

LEMMA ChangedSound ==
  ASSUME NEW c, NEW text, NEW after, NEW u, NEW v, NEW y \in Files, NEW inside,
         Sound(c, text, u),
         \A x \in Files \ {y} : after[x] = text[x] /\ (x \in v <=> x \in u)
  PROVE  Sound(Changed(c, y, inside), after, v)
<1> DEFINE dropped == InvalidateEnrichment(Invalidate(c, y), y)
           d == Changed(c, y, inside)
<1>1. c \in Caches
  BY DEF Sound
<1>2. /\ dropped.parsed = [c.parsed EXCEPT ![y] = None] /\ dropped.edges = c.edges
      /\ dropped \in Caches
      /\ \A f \in Files : \/ dropped.judged[f] = None
                          \/ /\ dropped.judged[f] = c.judged[f]
                             /\ f \notin Reach(BothWays(c.edges), y)
  BY <1>1 DEF InvalidateEnrichment, Invalidate, Caches, Component
<1> HIDE DEF dropped
<1>3. /\ d \in Caches
      /\ d.parsed = dropped.parsed /\ d.judged = dropped.judged /\ d.edges = dropped.edges
  BY <1>2 DEF Changed, Discover, MarkEdgesStale, Caches, dropped
<1> HIDE DEF d
<1>4. Sound(d, after, v)
  BY <1>2, <1>3, InvalidatedSound
<1> QED BY <1>4 DEF d

LEMMA RemovedSound ==
  ASSUME NEW c, NEW text, NEW after, NEW u, NEW v, NEW y \in Files,
         Sound(c, text, u),
         \A x \in Files \ {y} : after[x] = text[x] /\ (x \in v <=> x \in u)
  PROVE  Sound(Removed(c, y), after, v)
<1> DEFINE dropped == Invalidate(InvalidateEnrichment(c, y), y)
           undiscovered == [dropped EXCEPT !.discovered = IF @ = None THEN None ELSE @ \ {y}]
           forgotten == ForgetEdges(undiscovered, y)
           d == MarkEdgesStale(forgotten)
<1>1. c \in Caches
  BY DEF Sound
<1>2. /\ dropped.parsed = [c.parsed EXCEPT ![y] = None] /\ dropped.edges = c.edges
      /\ dropped \in Caches
      /\ \A f \in Files : \/ dropped.judged[f] = None
                          \/ /\ dropped.judged[f] = c.judged[f]
                             /\ f \notin Reach(BothWays(c.edges), y)
  BY <1>1 DEF InvalidateEnrichment, Invalidate, Caches, Component
<1>0. Removed(c, y) = d
  BY DEF Removed
<1> HIDE DEF dropped
<1>3. /\ undiscovered \in Caches
      /\ undiscovered.parsed = dropped.parsed /\ undiscovered.judged = dropped.judged
      /\ undiscovered.edges = dropped.edges
  BY <1>2 DEF Caches
<1> HIDE DEF undiscovered
<1>4. /\ forgotten \in Caches
      /\ forgotten.parsed = dropped.parsed /\ forgotten.judged = dropped.judged
      /\ forgotten.edges = {e \in dropped.edges : e[1] # y}
  BY <1>3 DEF ForgetEdges, Caches
<1> HIDE DEF forgotten
<1>5. /\ d \in Caches
      /\ d.parsed = dropped.parsed /\ d.judged = dropped.judged
      /\ d.edges = {e \in dropped.edges : e[1] # y}
  BY <1>4 DEF MarkEdgesStale, Caches
<1> HIDE DEF d
<1>6. Sound(d, after, v)
  BY <1>2, <1>5, InvalidatedSound
<1> QED BY <1>0, <1>6

-----------------------------------------------------------------------------
(* The clock: the one timer is the first of the deadlines, or earlier.     *)

Waiting(p, t) ==
  /\ p \in [Files -> (0 .. Debounce) \cup {None}]
  /\ t \in (0 .. Debounce) \cup {None}
  /\ \A f \in Files : p[f] # None => (t # None /\ t <= p[f])

Clock == Waiting(pending, timer) /\ todo \in Seq(Files)

\* armAnalysis finds the first deadline, if anybody has one.
LEMMA EarliestIsFirst ==
  ASSUME NEW p \in [Files -> (0 .. Debounce) \cup {None}]
  PROVE  Waiting(p, Earliest(p))
<1> DEFINE due == {p[f] : f \in {g \in Files : p[g] # None}}
<1>1. due \subseteq Nat /\ due \subseteq 0 .. Debounce
  BY DebounceAssumption
<1>2. CASE due = {}
  BY <1>2 DEF Earliest, Waiting
<1>3. CASE due # {}
  <2> DEFINE least == CHOOSE d \in due : \A e \in due : d <= e
  <2>1. PICK d \in due : \A e \in due : ~(<<e, d>> \in OpToRel(<, Nat))
    BY <1>1, <1>3, NatLessThanWellFounded, WFMin
  <2>2. \A e \in due : ~(e < d)
    BY <1>1, <2>1 DEF OpToRel
  <2>3. \A e \in due : d <= e
    BY <1>1, <2>2
  <2>4. least \in due /\ \A e \in due : least <= e
    BY <2>3
  <2>5. Earliest(p) = least
    BY <1>3 DEF Earliest
  <2> HIDE DEF least
  <2>6. least \in 0 .. Debounce /\ least # None
    BY <1>1, <2>4, DebounceAssumption
  <2>7. \A f \in Files : p[f] # None => p[f] \in due
    OBVIOUS
  <2> QED BY <2>4, <2>5, <2>6, <2>7 DEF Waiting
<1> QED BY <1>2, <1>3

\* Whatever is scheduled, nobody is held back by it.
LEMMA ScheduleWaits ==
  ASSUME NEW p, NEW S, Waiting(p, timer), Schedule(p, S), S \subseteq Files
  PROVE  Waiting(pending', timer')
<1> DEFINE later == [f \in Files |-> IF f \in S THEN Debounce ELSE p[f]]
<1>1. later \in [Files -> (0 .. Debounce) \cup {None}]
  BY DebounceAssumption DEF Waiting
<1>2. Waiting(later, Earliest(later))
  BY <1>1, EarliestIsFirst
<1>3. CASE S = {}
  <2>1. pending' = p /\ timer' = timer
    BY <1>3 DEF Schedule, Waiting
  <2> QED BY <2>1
<1>4. CASE S # {}
  BY <1>2, <1>4 DEF Schedule
<1> QED BY <1>3, <1>4

LEMMA ForgetWaits ==
  ASSUME NEW f, Waiting(pending, timer)
  PROVE  Waiting([pending EXCEPT ![f] = None], timer)
BY DEF Waiting

LEMMA OrderIsOfFiles ==
  ASSUME NEW S \in SUBSET Files, NEW lexical, NEW order \in InOrder(S, lexical)
  PROVE  order \in Seq(Files)
<1>1. IsFiniteSet(S)
  BY FilesAssumption, FS_Subset
<1>2. Cardinality(S) \in Nat
  BY <1>1, FS_CardinalityType
<1>3. order \in [1 .. Cardinality(S) -> S]
  BY DEF InOrder
<1> QED BY <1>2, <1>3

LEMMA ClockInit == Init => Clock
BY DebounceAssumption DEF Init, Clock, Waiting

LEMMA ClockStep == Clock /\ [Next]_vars => Clock'
<1> SUFFICES ASSUME Clock, [Next]_vars PROVE Clock'
  OBVIOUS
<1>1. ASSUME Waiting(pending', timer'), todo' \in Seq(Files) PROVE Clock'
  BY <1>1 DEF Clock
<1>2. ASSUME NEW f \in Files, WatchedFile(f) PROVE Clock'
  <2>1. Open \subseteq Files
    BY DEF Open, host, Host
  <2> QED BY <1>1, <1>2, <2>1, ScheduleWaits DEF WatchedFile, Clock
<1>3. ASSUME NEW f \in Files, NEW t \in Versions, ChangeContent(f, t) PROVE Clock'
  BY <1>1, <1>3, ScheduleWaits DEF ChangeContent, Clock
<1>4. ASSUME NEW f \in Files, Close(f) PROVE Clock'
  <2>1. /\ todo' = todo
        /\ \E c, h : Schedule([pending EXCEPT ![f] = None], Importers(c, h, f) \cap h.open)
    BY <1>4 DEF Close
  <2>2. PICK c, h : Schedule([pending EXCEPT ![f] = None], Importers(c, h, f) \cap h.open)
    BY <2>1
  <2>3. Importers(c, h, f) \cap h.open \subseteq Files
    BY ReachType DEF Importers
  <2>4. Waiting([pending EXCEPT ![f] = None], timer)
    BY ForgetWaits DEF Clock
  <2> QED BY <1>1, <2>1, <2>2, <2>3, <2>4, ScheduleWaits DEF Clock
<1>5. CASE TimerFires
  <2>1. /\ pending' = [f \in Files |-> None] /\ timer' = None
        /\ \E c, lexical :
             todo' \in InOrder(Pending \cup (Open \cap UNION {Importers(c, host, f) : f \in Pending}),
                               lexical)
    BY <1>5 DEF TimerFires
  <2>2. PICK c, lexical :
          todo' \in InOrder(Pending \cup (Open \cap UNION {Importers(c, host, f) : f \in Pending}),
                            lexical)
    BY <2>1
  <2>3. Pending \cup (Open \cap UNION {Importers(c, host, f) : f \in Pending}) \in SUBSET Files
    BY DEF Pending, Open, host, Host
  <2>4. todo' \in Seq(Files)
    BY <2>2, <2>3, OrderIsOfFiles
  <2>5. Waiting(pending', timer')
    BY <2>1 DEF Waiting
  <2> QED BY <1>1, <2>4, <2>5
<1>6. CASE AnalyseNext
  <2>1. todo \in Seq(Files) /\ todo # <<>> /\ todo' = Tail(todo)
    BY <1>6 DEF AnalyseNext, Idle, Clock
  <2>2. todo' \in Seq(Files)
    BY <2>1
  <2>3. UNCHANGED <<pending, timer>>
    BY <1>6 DEF AnalyseNext
  <2> QED BY <1>1, <2>2, <2>3 DEF Clock
<1>7. CASE Tick
  <2> DEFINE less(d) == IF d = None \/ d = 0 THEN d ELSE d - 1
  <2>1. pending' = [f \in Files |-> less(pending[f])] /\ timer' = less(timer) /\ todo' = todo
    BY <1>7 DEF Tick
  <2>2. \A d \in (0 .. Debounce) \cup {None} :
          /\ less(d) \in (0 .. Debounce) \cup {None} /\ (less(d) # None <=> d # None)
          /\ \A e \in (0 .. Debounce) \cup {None} :
               (d # None /\ e # None /\ d <= e) => less(d) <= less(e)
    BY DebounceAssumption
  <2>3. /\ pending \in [Files -> (0 .. Debounce) \cup {None}]
        /\ timer \in (0 .. Debounce) \cup {None}
        /\ \A f \in Files : pending[f] # None => (timer # None /\ timer <= pending[f])
    BY DEF Clock, Waiting
  <2> HIDE DEF less
  <2>4. Waiting(pending', timer')
    BY <2>1, <2>2, <2>3 DEF Waiting
  <2> QED BY <1>1, <2>1, <2>4 DEF Clock
<1>8. ASSUME UNCHANGED <<pending, timer, todo>> PROVE Clock'
  BY <1>1, <1>8 DEF Clock
<1>9. CASE UNCHANGED vars
  BY <1>8, <1>9 DEF vars, svars
<1> QED BY <1>2, <1>3, <1>4, <1>5, <1>6, <1>7, <1>8, <1>9
        DEF Next, Store, RequestAnalysis, RequestComponent, SetFolders

-----------------------------------------------------------------------------
(* The steps.                                                              *)

LEMMA HostTexts ==
  ASSUME WorkspaceTypeOK
  PROVE  /\ host \in Hosts
         /\ host = Host(buffer, disk)
         /\ Found \in SUBSET Files
BY HostType DEF host, WorkspaceTypeOK, Found

\* What is read of the files that a step leaves alone is what it was.
LEMMA HostMoves ==
  ASSUME NEW docs, NEW stored, NEW docs2, NEW stored2, NEW x \in Files,
         docs2[x] = docs[x], stored2[x] = stored[x]
  PROVE  Host(docs2, stored2).text[x] = Host(docs, stored).text[x]
BY DEF Host

\* The workspace is sound at first and after every step.
LEMMA WorkspaceInit == Init => WorkspaceInv
<1> SUFFICES ASSUME Init PROVE WorkspaceInv
  OBVIOUS
<1>1. Empty \in Caches
  BY DEF Empty, Caches
<1>2. WorkspaceTypeOK
  BY <1>1, FoldersAssumption DEF Init, WorkspaceTypeOK
<1> QED BY <1>1, <1>2 DEF Init, WorkspaceInv, Sound, Empty

LEMMA WorkspaceStep == WorkspaceInv /\ Clock /\ [Next]_vars => WorkspaceInv'
<1> SUFFICES ASSUME WorkspaceInv, Clock, [Next]_vars PROVE WorkspaceInv'
  OBVIOUS
<1> USE DEF WorkspaceInv
<1>h. host \in Hosts /\ Found \in SUBSET Files /\ host.open = Open
  BY HostTexts DEF Open
<1>s. Sound(cache, host.text, unseen)
  OBVIOUS
<1>t. /\ disk \in [Files -> Texts] /\ unseen \subseteq Files
      /\ buffer \in [Files -> Versions \cup {None}] /\ folders \subseteq Files
  BY DEF WorkspaceTypeOK
<1>c. ASSUME Sound(cache', host'.text, unseen'),
             disk' \in [Files -> Texts], unseen' \subseteq Files,
             buffer' \in [Files -> Versions \cup {None}], folders' \subseteq Files
      PROVE  WorkspaceInv'
  BY <1>c DEF WorkspaceTypeOK, Sound
<1>u. UNCHANGED <<buffer, disk>> => host' = host
  BY DEF host
<1>1. ASSUME NEW f \in Files, NEW t \in Texts, Store(f, t) PROVE WorkspaceInv'
  <2>1. /\ cache' = cache /\ buffer' = buffer /\ folders' = folders
        /\ disk' = [disk EXCEPT ![f] = t] /\ unseen' = unseen \cup {f}
    BY <1>1 DEF Store
  <2>a. \A x \in Files \ {f} : buffer'[x] = buffer[x] /\ disk'[x] = disk[x]
    BY <1>t, <2>1
  <2>b. host' = Host(buffer', disk') /\ host = Host(buffer, disk)
    BY DEF host
  <2>2. \A x \in Files \ {f} : host'.text[x] = host.text[x] /\ (x \in unseen' <=> x \in unseen)
    <3> SUFFICES ASSUME NEW x \in Files \ {f}
                 PROVE  host'.text[x] = host.text[x] /\ (x \in unseen' <=> x \in unseen)
      OBVIOUS
    <3>1. Host(buffer', disk').text[x] = Host(buffer, disk).text[x]
      BY <2>a, HostMoves
    <3> QED BY <2>1, <2>b, <3>1
  <2>3. \A g \in Files : cache.judged[g] # None
          => Fits(cache.judged[g], g, cache.edges, host'.text, unseen')
    <3> SUFFICES ASSUME NEW g \in Files, cache.judged[g] # None
                 PROVE  Fits(cache.judged[g], g, cache.edges, host'.text, unseen')
      OBVIOUS
    <3> DEFINE after == host'.text
               v == unseen'
    <3>1. Fits(cache.judged[g], g, cache.edges, host.text, unseen)
      BY <1>s DEF Sound
    <3>2. f \in v
      BY <2>1
    <3>3. \A x \in Files \ {f} : after[x] = host.text[x] /\ (x \in v <=> x \in unseen)
      BY <2>2
    <3> HIDE DEF after, v
    <3>4. Fits(cache.judged[g], g, cache.edges, after, v)
      BY <3>1, <3>2, <3>3, Moved
    <3> QED BY <3>4 DEF after, v
  <2>4. Sound(cache', host'.text, unseen')
    BY <1>s, <2>1, <2>2, <2>3 DEF Sound
  <2> QED BY <1>c, <1>t, <2>1, <2>4
<1>2. ASSUME NEW f \in Files, WatchedFile(f) PROVE WorkspaceInv'
  <2>1. /\ UNCHANGED <<disk, buffer, folders>> /\ unseen' = unseen \ {f}
        /\ cache' = Removed(cache, f) \/ cache' = Changed(cache, f, folders)
    BY <1>2 DEF WatchedFile
  <2>2. \A x \in Files \ {f} : host.text[x] = host.text[x] /\ (x \in unseen' <=> x \in unseen)
    BY <2>1
  <2>3. Sound(Removed(cache, f), host.text, unseen') /\ Sound(Changed(cache, f, folders), host.text, unseen')
    BY <1>s, <2>2, RemovedSound, ChangedSound
  <2> QED BY <1>c, <1>t, <1>u, <2>1, <2>3
<1>3. ASSUME NEW f \in Files, NEW t \in Versions, ChangeContent(f, t) PROVE WorkspaceInv'
  <2>1. /\ UNCHANGED <<disk, unseen, folders>> /\ buffer' = [buffer EXCEPT ![f] = t]
        /\ cache' = Changed(cache, f, folders)
    BY <1>3 DEF ChangeContent
  <2>a. \A x \in Files \ {f} : buffer'[x] = buffer[x] /\ disk'[x] = disk[x]
    BY <1>t, <2>1
  <2>b. host' = Host(buffer', disk') /\ host = Host(buffer, disk)
    BY DEF host
  <2>2. \A x \in Files \ {f} : host'.text[x] = host.text[x] /\ (x \in unseen' <=> x \in unseen)
    <3> SUFFICES ASSUME NEW x \in Files \ {f}
                 PROVE  host'.text[x] = host.text[x] /\ (x \in unseen' <=> x \in unseen)
      OBVIOUS
    <3>1. Host(buffer', disk').text[x] = Host(buffer, disk).text[x]
      BY <2>a, HostMoves
    <3> QED BY <2>1, <2>b, <3>1
  <2>3. Sound(cache', host'.text, unseen')
    BY <1>s, <2>1, <2>2, ChangedSound
  <2> QED BY <1>c, <1>t, <2>1, <2>3
<1>4. ASSUME NEW f \in Files, Close(f) PROVE WorkspaceInv'
  <2> DEFINE docs == [buffer EXCEPT ![f] = None]
             closed == Host(docs, disk)
             dropped == Changed(cache, f, folders)
  <2>1. /\ UNCHANGED <<disk, unseen, folders>> /\ buffer' = docs
        /\ cache' = Dependents(dropped, closed, Found, {f})
    BY <1>4 DEF Close
  <2>2. host' = closed /\ docs \in [Files -> Versions \cup {None}]
    BY <1>t, <2>1 DEF host
  <2>a. \A x \in Files \ {f} : docs[x] = buffer[x]
    BY <1>t
  <2>3. \A x \in Files \ {f} : closed.text[x] = host.text[x] /\ (x \in unseen <=> x \in unseen)
    <3> HIDE DEF docs
    <3> SUFFICES ASSUME NEW x \in Files \ {f} PROVE closed.text[x] = host.text[x]
      OBVIOUS
    <3>1. docs[x] = buffer[x]
      BY <2>a
    <3> QED BY <3>1, HostMoves DEF host
  <2> HIDE DEF docs, closed
  <2>4. closed \in Hosts
    BY <1>t, <2>2, HostType DEF closed
  <2>5. Sound(dropped, closed.text, unseen)
    BY <1>s, <2>3, ChangedSound
  <2> HIDE DEF dropped
  <2>6. Sound(cache', closed.text, unseen)
    BY <1>h, <2>1, <2>4, <2>5, DependentsSound
  <2> QED BY <1>c, <1>t, <2>1, <2>2, <2>6
<1>5. CASE TimerFires
  <2>1. /\ UNCHANGED <<disk, unseen, buffer, folders>>
        /\ \E S : cache' = FilesOf(Dependents(cache, host, Found, Pending), host, S)
    BY <1>5 DEF TimerFires
  <2>2. Pending \in SUBSET Files
    BY DEF Pending
  <2>3. Sound(Dependents(cache, host, Found, Pending), host.text, unseen)
    BY <1>h, <1>s, <2>2, DependentsSound
  <2>4. Sound(cache', host.text, unseen)
    BY <1>h, <2>1, <2>3, FilesOfSound
  <2> QED BY <1>c, <1>t, <1>u, <2>1, <2>4
<1>6. CASE AnalyseNext
  <2>a. Head(todo) \in Files
    BY <1>6 DEF AnalyseNext, Idle, Clock
  <2>1. /\ UNCHANGED <<disk, unseen, buffer, folders>>
        /\ cache' = AnalysisOf(cache, host, Head(todo))
    BY <1>6 DEF AnalyseNext
  <2> QED BY <2>a, <1>c, <1>h, <1>s, <1>t, <1>u, <2>1, AnalysisOfSound
<1>7. ASSUME NEW f \in Files, RequestAnalysis(f) PROVE WorkspaceInv'
  <2>1. /\ UNCHANGED <<disk, unseen, buffer, folders>> /\ cache' = AnalysisOf(cache, host, f)
    BY <1>7 DEF RequestAnalysis
  <2> QED BY <1>c, <1>h, <1>s, <1>t, <1>u, <2>1, AnalysisOfSound
<1>8. ASSUME NEW f \in Files, RequestComponent(f) PROVE WorkspaceInv'
  <2>1. /\ UNCHANGED <<disk, unseen, buffer, folders>>
        /\ \E S : cache' = FilesOf(Refreshed(cache, host, Found, {f}), host, S)
    BY <1>8 DEF RequestComponent
  <2>2. Sound(Refreshed(cache, host, Found, {f}), host.text, unseen)
    BY <1>h, <1>s, RefreshedSound
  <2>3. Sound(cache', host.text, unseen)
    BY <1>h, <2>1, <2>2, FilesOfSound
  <2> QED BY <1>c, <1>t, <1>u, <2>1, <2>3
<1>9. ASSUME NEW inside \in FolderSets, SetFolders(inside) PROVE WorkspaceInv'
  <2>1. UNCHANGED <<disk, unseen, buffer>> /\ folders' = inside /\ cache' = Empty
    BY <1>9 DEF SetFolders
  <2>2. Empty \in Caches /\ folders' \subseteq Files
    BY <2>1, FoldersAssumption DEF Empty, Caches
  <2>3. Sound(cache', host'.text, unseen')
    BY <2>1, <2>2 DEF Sound, Empty
  <2> QED BY <1>c, <1>t, <2>1, <2>2, <2>3
<1>10. CASE Tick \/ UNCHANGED vars
  <2>1. UNCHANGED wvars
    BY <1>10 DEF Tick, vars
  <2>2. Sound(cache', host'.text, unseen')
    BY <1>s, <1>u, <2>1 DEF wvars
  <2> QED BY <1>c, <1>t, <2>1, <2>2 DEF wvars
<1> QED BY <1>1, <1>2, <1>3, <1>4, <1>5, <1>6, <1>7, <1>8, <1>9, <1>10 DEF Next

-----------------------------------------------------------------------------
(* The theorems.                                                           *)

LEMMA InvHolds == Spec => [](WorkspaceInv /\ Clock)
<1>1. Init => WorkspaceInv /\ Clock
  BY WorkspaceInit, ClockInit
<1>2. (WorkspaceInv /\ Clock) /\ [Next]_vars => (WorkspaceInv /\ Clock)'
  BY WorkspaceStep, ClockStep
<1> QED BY <1>1, <1>2, PTL DEF Spec

\* An analysis that is held is what a fresh one would be, unless it covers a
\* file whose change on disk the watcher has not reported: whatever was edited,
\* saved, opened, closed and asked for, in any order, invalidate and
\* invalidateEnrichment dropped every entry that was wrong.
THEOREM HeldAnalysesAreFresh == Spec => []CachedIsFresh
<1>1. WorkspaceInv => CachedIsFresh
  <2> SUFFICES ASSUME WorkspaceInv, NEW f \in Files, cache.judged[f] # None,
                      DOMAIN cache.judged[f] \cap unseen = {}
               PROVE  cache.judged[f] = Judgement(f, host.text)
    BY DEF CachedIsFresh
  <2>1. host \in Hosts
    BY HostTexts DEF WorkspaceInv
  <2>2. Fits(cache.judged[f], f, cache.edges, host.text, unseen)
    BY DEF WorkspaceInv, Sound
  <2> QED BY <2>1, <2>2, FitsIsFresh DEF Hosts
<1> QED BY <1>1, InvHolds, PTL

\* However often documents are typed in, scheduled anew and closed, the one
\* timer of armAnalysis is never due after the deadline of anybody who waits.
THEOREM NobodyWaitsForAnother == Spec => []NobodyIsHeldBack
<1>1. Clock => NobodyIsHeldBack
  BY DEF Clock, Waiting, NobodyIsHeldBack, Pending
<1> QED BY <1>1, InvHolds, PTL

-----------------------------------------------------------------------------
(* What the client is shown. An open document that waits for nothing, and  *)
(* that reaches nothing that waits (Settled), has told the truth about all *)
(* it reports (Told). Who waits is found in time because the edges of all  *)
(* that an open document sees are recorded, or known to need recording     *)
(* (Tracks).                                                               *)

Tracked(c, text, found, x) ==
  \/ x \in c.stale
  \/ c.discovered = None /\ x \in found
  \/ {x} \X Uses(x, text[x]) \subseteq c.edges

AllUses(text) == UsesOf(text, Files)

\* What g reaches before it meets a document that waits.
Sees(text, waiting, g) == Reach(UsesOf(text, Files \ waiting), g)

Due == Pending \cup {todo[i] : i \in DOMAIN todo}

\* Only open documents wait, and claim; what is shown is claimed.
Owned ==
  /\ Due \subseteq Open
  /\ \A g \in Files : claims[g] # {} => g \in Open
  /\ \A f \in Files : shown[f] # None => \E g \in Files : f \in claims[g]

Tracks ==
  unseen = {} =>
    \A g \in Open \ Due : \A x \in Sees(host.text, Pending, g) :
      Tracked(cache, host.text, Found, x)

ReportsOf(h, g) ==
  {g} \cup {x \in Reach(AllUses(h.text), g) : h.text[x] # Missing /\ x \notin h.open}

Truthful(h, g, claimed, show) ==
  /\ claimed = ReportsOf(h, g)
  /\ \A f \in claimed : show[f] = Judgement(f, h.text)

Settled(g) == g \in Open \ Due /\ Reach(AllUses(host.text), g) \cap Pending = {}

Told ==
  unseen = {} => \A g \in Files : Settled(g) => Truthful(host, g, claims[g], shown)

Counted == counts \in [{"edits", "saves", "requests", "moves"} -> Nat]
Claimed == claims = [f \in Files |-> claims[f]]

ShownInv == Claimed /\ Owned /\ Tracks /\ Told

-----------------------------------------------------------------------------
(* More about Reach.                                                       *)

\* Two sets of edges that are the same within a set they do not leave.
LEMMA ReachWithin ==
  ASSUME NEW E, NEW F, NEW S \in SUBSET Files, NEW g \in S,
         \A e \in E : e[1] \in S => e[2] \in S /\ e \in F,
         \A e \in F : e[1] \in S => e \in E
  PROVE  Reach(E, g) = Reach(F, g) /\ Reach(E, g) \subseteq S
<1>1. Reach(E, g) \subseteq S /\ Reach(F, g) \subseteq S
  BY ReachLeast
<1>2. g \in Reach(E, g) /\ g \in Reach(F, g)
  BY ReachRoot
<1>3. Reach(E, g) \in SUBSET Files /\ Reach(F, g) \in SUBSET Files
  BY ReachType
<1>4. \A e \in F : e[1] \in Reach(E, g) => e[2] \in Reach(E, g)
  BY <1>1, ReachClosed
<1>5. \A e \in E : e[1] \in Reach(F, g) => e[2] \in Reach(F, g)
  BY <1>1, ReachClosed
<1>6. Reach(F, g) \subseteq Reach(E, g)
  BY <1>2, <1>3, <1>4, ReachLeast
<1>7. Reach(E, g) \subseteq Reach(F, g)
  BY <1>2, <1>3, <1>5, ReachLeast
<1> QED BY <1>1, <1>6, <1>7

\* The edges of some of the files are those edges of all that begin there.
LEMMA UsesOfPart ==
  ASSUME NEW text \in [Files -> Texts], NEW S \in SUBSET Files
  PROVE  \A e : e \in UsesOf(text, S) <=> e \in AllUses(text) /\ e[1] \in S
<1> SUFFICES ASSUME NEW e
             PROVE  e \in UsesOf(text, S) <=> e \in AllUses(text) /\ e[1] \in S
  OBVIOUS
<1>1. ASSUME e \in UsesOf(text, S) PROVE e \in AllUses(text) /\ e[1] \in S
  <2>1. e = <<e[1], e[2]>> /\ e[1] \in S /\ e[2] \in Uses(e[1], text[e[1]])
    BY <1>1, UsesOfPairs
  <2> QED BY <2>1, UsesOfHas DEF AllUses
<1>2. ASSUME e \in AllUses(text), e[1] \in S PROVE e \in UsesOf(text, S)
  <2>1. e = <<e[1], e[2]>> /\ e[2] \in Uses(e[1], text[e[1]])
    BY <1>2, UsesOfPairs DEF AllUses
  <2> QED BY <1>2, <2>1, UsesOfHas
<1> QED BY <1>1, <1>2

LEMMA AllUsesPairs ==
  ASSUME NEW text \in [Files -> Texts], NEW e \in AllUses(text)
  PROVE  e = <<e[1], e[2]>> /\ e[1] \in Files /\ e[2] \in Files /\ e[2] \in Uses(e[1], text[e[1]])
BY UsesOfPairs DEF AllUses

LEMMA AllUsesHas ==
  ASSUME NEW text, NEW x \in Files, NEW y \in Uses(x, text[x])
  PROVE  <<x, y>> \in AllUses(text)
BY UsesOfHas DEF AllUses

\* What a file reaches is decided by the texts of what it reaches.
LEMMA ReachIsLocal ==
  ASSUME NEW text \in [Files -> Texts], NEW after \in [Files -> Texts], NEW g \in Files,
         \A x \in Reach(AllUses(text), g) : after[x] = text[x]
  PROVE  /\ Reach(AllUses(after), g) = Reach(AllUses(text), g)
         /\ Judgement(g, after) = Judgement(g, text)
<1> DEFINE S == Reach(AllUses(text), g)
<1>1. S \in SUBSET Files /\ g \in S
  BY ReachType, ReachRoot
<1>2. \A e \in AllUses(text) : e[1] \in S => e[2] \in S /\ e \in AllUses(after)
  <2> SUFFICES ASSUME NEW e \in AllUses(text), e[1] \in S
               PROVE  e[2] \in S /\ e \in AllUses(after)
    OBVIOUS
  <2>1. e = <<e[1], e[2]>> /\ e[1] \in Files /\ e[2] \in Files /\ e[2] \in Uses(e[1], text[e[1]])
    BY AllUsesPairs
  <2>2. e[2] \in S
    BY <2>1, ReachClosed
  <2>3. e[2] \in Uses(e[1], after[e[1]])
    BY <2>1
  <2>4. <<e[1], e[2]>> \in AllUses(after)
    BY <2>1, <2>3, AllUsesHas
  <2> QED BY <2>1, <2>2, <2>4
<1>3. \A e \in AllUses(after) : e[1] \in S => e \in AllUses(text)
  <2> SUFFICES ASSUME NEW e \in AllUses(after), e[1] \in S PROVE e \in AllUses(text)
    OBVIOUS
  <2>1. e = <<e[1], e[2]>> /\ e[1] \in Files /\ e[2] \in Uses(e[1], after[e[1]])
    BY AllUsesPairs
  <2>2. e[2] \in Uses(e[1], text[e[1]])
    BY <2>1
  <2>3. <<e[1], e[2]>> \in AllUses(text)
    BY <2>1, <2>2, AllUsesHas
  <2> QED BY <2>1, <2>3
<1>4. Reach(AllUses(after), g) = Reach(AllUses(text), g)
  <2> HIDE DEF S
  <2>1. Reach(AllUses(text), g) = Reach(AllUses(after), g)
    BY <1>1, <1>2, <1>3, ReachWithin
  <2> QED BY <2>1
<1> QED BY <1>4 DEF Judgement, AllUses

\* Who is reached reaches no more.
LEMMA ReachFurther ==
  ASSUME NEW text \in [Files -> Texts], NEW g \in Files, NEW f \in Reach(AllUses(text), g)
  PROVE  Reach(AllUses(text), f) \subseteq Reach(AllUses(text), g)
<1> DEFINE S == Reach(AllUses(text), g)
<1>1. S \in SUBSET Files /\ f \in S
  BY ReachType
<1>2. \A e \in AllUses(text) : e[1] \in S => e[2] \in S
  BY AllUsesPairs, ReachClosed
<1> HIDE DEF S
<1>3. Reach(AllUses(text), f) \subseteq S
  BY <1>1, <1>2, ReachLeast
<1> QED BY <1>3 DEF S

\* reachedDiagnostics: what an analysis says of a file it reaches is what an
\* analysis of that file would say.
LEMMA PartIsJudgement ==
  ASSUME NEW text \in [Files -> Texts], NEW f \in Files, NEW g \in Reach(AllUses(text), f)
  PROVE  Part(Judgement(f, text), g) = Judgement(g, text)
<1> DEFINE J == Judgement(f, text)
           D == Reach(AllUses(text), f)
           E == UsesOf(J, D)
<1>1. D \in SUBSET Files /\ g \in D /\ DOMAIN J = D /\ \A x \in D : J[x] = text[x]
  BY ReachType DEF Judgement, AllUses
<1>2. \A e \in AllUses(text) : e[1] \in D => e[2] \in D /\ e \in E
  <2> SUFFICES ASSUME NEW e \in AllUses(text), e[1] \in D PROVE e[2] \in D /\ e \in E
    OBVIOUS
  <2>1. e = <<e[1], e[2]>> /\ e[2] \in Files /\ e[2] \in Uses(e[1], text[e[1]])
    BY AllUsesPairs
  <2>2. e[2] \in D
    BY <2>1, ReachClosed
  <2>3. <<e[1], e[2]>> \in E
    BY <1>1, <2>1, UsesOfHas
  <2> QED BY <2>1, <2>2, <2>3
<1>3. \A e \in E : e[1] \in D => e \in AllUses(text)
  <2> SUFFICES ASSUME NEW e \in E PROVE e \in AllUses(text)
    OBVIOUS
  <2>1. e = <<e[1], e[2]>> /\ e[1] \in D /\ e[2] \in Uses(e[1], J[e[1]])
    BY <1>1, UsesOfPairs
  <2>2. <<e[1], e[2]>> \in AllUses(text)
    BY <1>1, <2>1, AllUsesHas
  <2> QED BY <2>1, <2>2
<1>4. Reach(AllUses(text), g) = Reach(E, g) /\ Reach(AllUses(text), g) \subseteq D
  <2>1. /\ \A e \in AllUses(text) : e[1] \in D => e[2] \in D /\ e \in E
        /\ \A e \in E : e[1] \in D => e \in AllUses(text)
        /\ D \in SUBSET Files /\ g \in D
    BY <1>1, <1>2, <1>3
  <2> HIDE DEF D, E
  <2> QED BY <2>1, ReachWithin
<1>5. Part(J, g) = [x \in Reach(E, g) |-> J[x]]
  BY <1>1 DEF Part
<1>6. Judgement(g, text) = [x \in Reach(E, g) |-> text[x]]
  BY <1>4 DEF Judgement, AllUses
<1> QED BY <1>1, <1>4, <1>5, <1>6

-----------------------------------------------------------------------------
(* Where the watcher has nothing to say, whatever an operation reads it    *)
(* reads as it is: recorded edges are exact, and no other edge is lost.    *)

OwnEdges(x, text) == {x} \X Uses(x, text[x])

LEMMA RecordEdgesShape ==
  ASSUME NEW c \in Caches, NEW S, NEW edges
  PROVE  LET n == RecordEdges(c, S, edges)
         IN /\ n.edges = {e \in c.edges : e[1] \notin S} \cup edges
            /\ n.stale = c.stale \ S /\ n.recorded = c.recorded \cup S
            /\ n.discovered = c.discovered
            /\ n.parsed = c.parsed /\ n.judged = c.judged
BY DEF RecordEdges, Caches

LEMMA RefreshEdgesExact ==
  ASSUME NEW c, NEW h \in Hosts, NEW S \in SUBSET Files, Sound(c, h.text, {}), NEW x \in Files
  PROVE  LET n == RefreshEdges(c, h, S)
         IN /\ x \in S => OwnEdges(x, h.text) \subseteq n.edges
            /\ OwnEdges(x, h.text) \subseteq c.edges => OwnEdges(x, h.text) \subseteq n.edges
            /\ n.stale = c.stale \ S /\ n.recorded = c.recorded \cup S
            /\ n.discovered = c.discovered
<1> DEFINE r == FilesOf(c, h, S)
           n == RefreshEdges(c, h, S)
<1>0. c \in Caches /\ h.text \in [Files -> Texts]
  BY DEF Sound, Hosts
<1>1. /\ r \in Caches /\ r.edges = c.edges /\ r.recorded = c.recorded /\ r.stale = c.stale
      /\ r.discovered = c.discovered
  BY <1>0, FilesOfShape
<1>2. x \in S /\ h.text[x] # Missing => r.parsed[x] = h.text[x] /\ r.parsed[x] # None
  BY ReadIsText
<1> HIDE DEF r
<1>3. n = RecordEdges(r, S, Written(r, S))
  BY DEF RefreshEdges, r
<1> HIDE DEF n
<1>4. /\ n.edges = {e \in c.edges : e[1] \notin S} \cup Written(r, S)
      /\ n.stale = c.stale \ S /\ n.recorded = c.recorded \cup S
      /\ n.discovered = c.discovered
  BY <1>1, <1>3, RecordEdgesShape
<1>5. x \in S => OwnEdges(x, h.text) \subseteq Written(r, S)
  <2> SUFFICES ASSUME x \in S, h.text[x] # Missing, NEW y \in Imports[x][h.text[x]]
               PROVE  <<x, y>> \in Written(r, S)
    BY DEF OwnEdges, Uses
  <2> QED BY <1>1, <1>2, WrittenPairs
<1>6. x \notin S /\ OwnEdges(x, h.text) \subseteq c.edges => OwnEdges(x, h.text) \subseteq n.edges
  <2> SUFFICES ASSUME x \notin S, OwnEdges(x, h.text) \subseteq c.edges,
                      NEW e \in OwnEdges(x, h.text)
               PROVE  e \in n.edges
    OBVIOUS
  <2>1. e[1] = x
    BY DEF OwnEdges
  <2> QED BY <1>4, <2>1
<1>7. /\ x \in S => OwnEdges(x, h.text) \subseteq n.edges
      /\ OwnEdges(x, h.text) \subseteq c.edges => OwnEdges(x, h.text) \subseteq n.edges
  BY <1>4, <1>5, <1>6
<1> QED BY <1>4, <1>7 DEF n

LEMMA TrackedIs ==
  ASSUME NEW c, NEW text, NEW found, NEW x
  PROVE  Tracked(c, text, found, x) <=>
           x \in c.stale \/ (c.discovered = None /\ x \in found) \/ OwnEdges(x, text) \subseteq c.edges
BY DEF Tracked, OwnEdges

\* What is tracked is recorded as it is once everything known is refreshed.
LEMMA RefreshedExact ==
  ASSUME NEW c, NEW h \in Hosts, NEW found \in SUBSET Files, NEW S \in SUBSET Files,
         Sound(c, h.text, {}), NEW x \in Files, Tracked(c, h.text, found, x)
  PROVE  OwnEdges(x, h.text) \subseteq Refreshed(c, h, found, S).edges
<1> DEFINE known == KnownFiles(c, found)
           all == RefreshEdges(known, h, known.stale)
<1>1. c \in Caches
  BY DEF Sound
<1>2. /\ known \in Caches /\ Sound(known, h.text, {}) /\ known.edges = c.edges
      /\ c.stale \subseteq known.stale /\ known.stale \in SUBSET Files
      /\ c.discovered = None => found \subseteq known.stale
  BY <1>1 DEF KnownFiles, Caches, Sound
<1>3. x \in known.stale \/ OwnEdges(x, h.text) \subseteq known.edges
  BY <1>2, TrackedIs
<1> HIDE DEF known
<1>4. Sound(all, h.text, {}) /\ OwnEdges(x, h.text) \subseteq all.edges
  BY <1>2, <1>3, RefreshEdgesSound, RefreshEdgesExact
<1>5. Refreshed(c, h, found, S) = RefreshEdges(all, h, S \ all.recorded)
  BY DEF Refreshed, RefreshAllEdges, known
<1> HIDE DEF all
<1>6. OwnEdges(x, h.text) \subseteq RefreshEdges(all, h, S \ all.recorded).edges
  BY <1>4, RefreshEdgesExact
<1> QED BY <1>5, <1>6

LEMMA RefreshedTracks ==
  ASSUME NEW c, NEW h \in Hosts, NEW found \in SUBSET Files, NEW S \in SUBSET Files,
         Sound(c, h.text, {}), NEW x \in Files, Tracked(c, h.text, found, x), NEW more
  PROVE  Tracked(FilesOf(Refreshed(c, h, found, S), h, more), h.text, found, x)
<1>1. Refreshed(c, h, found, S) \in Caches
  BY RefreshedSound DEF Sound
<1> QED BY <1>1, FilesOfShape, RefreshedExact, TrackedIs

LEMMA DependentsExact ==
  ASSUME NEW c, NEW h \in Hosts, NEW found \in SUBSET Files, NEW S \in SUBSET Files,
         Sound(c, h.text, {}), NEW x \in Files, Tracked(c, h.text, found, x)
  PROVE  OwnEdges(x, h.text) \subseteq Dependents(c, h, found, S).edges
<1> DEFINE exact == Refreshed(c, h, found, S)
<1>1. exact \in Caches /\ OwnEdges(x, h.text) \subseteq exact.edges
  BY RefreshedSound, RefreshedExact DEF Sound
<1> HIDE DEF exact
<1>2. \A met : FilesOf(exact, h, met).edges = exact.edges
  BY <1>1, FilesOfShape
<1>3. PICK met : Dependents(c, h, found, S) = FilesOf(exact, h, met)
  BY DEF Dependents, exact
<1> QED BY <1>1, <1>2, <1>3

\* An analysis loses no edges, and records those of all that it reaches.
LEMMA AnalyseGraphExact ==
  ASSUME NEW c, NEW h \in Hosts, NEW root \in Files, Sound(c, h.text, {}),
         c.parsed[root] # None
  PROVE  LET n == AnalyseGraph(c, h, root)
         IN /\ \A x \in Reach(AllUses(h.text), root) : OwnEdges(x, h.text) \subseteq n.edges
            /\ \A x \in Files : \A found : Tracked(c, h.text, found, x)
                                             => Tracked(n, h.text, found, x)
            /\ c.judged[root] = None => n.judged[root] = Judgement(root, h.text)
<1> DEFINE texts == GraphTexts(c, h, root)
           linked == {f \in DOMAIN Judgement(root, texts) : texts[f] # Missing}
           read == FilesOf(c, h, linked)
           resolved == {e \in UsesOf(texts, linked) : texts[e[2]] # Missing}
           noted == RecordEdges(read, linked, resolved \cup Written(read, linked))
           judgedNow(f) == /\ f \in linked
                           /\ noted.parsed[f] = texts[f]
                           /\ noted.judged[f] = None
           judged == [f \in Files |-> IF judgedNow(f) THEN Judgement(f, texts) ELSE noted.judged[f]]
           n == AnalyseGraph(c, h, root)
<1>0. c \in Caches /\ h.text \in [Files -> Texts] /\ c.parsed[root] = h.text[root]
      /\ h.text[root] # Missing
  BY TextsAssumption DEF Sound, Hosts, Caches, Texts
<1>1. texts = h.text
  BY <1>0 DEF GraphTexts
<1> HIDE DEF texts
<1>2. linked = {x \in Reach(AllUses(h.text), root) : h.text[x] # Missing}
  BY <1>1 DEF Judgement, AllUses
<1>3. linked \in SUBSET Files /\ root \in linked
  BY <1>0, <1>2, ReachType, ReachRoot
<1> HIDE DEF linked
<1>4. /\ read \in Caches /\ read.edges = c.edges /\ read.stale = c.stale
      /\ read.discovered = c.discovered
      /\ \A f \in Files : read.judged[f] = c.judged[f] \/ read.judged[f] = None
  BY <1>0, FilesOfShape
<1>5. \A x \in linked : read.parsed[x] = h.text[x] /\ read.parsed[x] # None
  <2> SUFFICES ASSUME NEW x \in linked
               PROVE  read.parsed[x] = h.text[x] /\ read.parsed[x] # None
    OBVIOUS
  <2> QED BY <1>2, <1>3, ReadIsText
<1> HIDE DEF read
<1>6. /\ noted.edges = {e \in c.edges : e[1] \notin linked} \cup (resolved \cup Written(read, linked))
      /\ noted.stale = c.stale \ linked /\ noted.discovered = c.discovered
      /\ noted.parsed = read.parsed /\ noted.judged = read.judged
  BY <1>4, RecordEdgesShape
<1>7. \A x \in linked : OwnEdges(x, h.text) \subseteq Written(read, linked)
  <2> SUFFICES ASSUME NEW x \in linked, NEW y \in Imports[x][h.text[x]]
               PROVE  <<x, y>> \in Written(read, linked)
    BY <1>2 DEF OwnEdges, Uses
  <2> QED BY <1>3, <1>4, <1>5, WrittenPairs
<1>8. n = [noted EXCEPT !.judged = [f \in Files |-> IF judgedNow(f) THEN Judgement(f, texts) ELSE @[f]]]
  BY DEF AnalyseGraph, noted, resolved, read, linked, texts
<1>9. noted = [read EXCEPT !.edges = {e \in @ : e[1] \notin linked}
                                       \cup (resolved \cup Written(read, linked)),
                           !.recorded = @ \cup linked, !.stale = @ \ linked]
  BY DEF RecordEdges
<1> HIDE DEF noted
<1>10. /\ n.edges = noted.edges /\ n.stale = noted.stale /\ n.discovered = noted.discovered
       /\ n.judged = [f \in Files |-> IF judgedNow(f) THEN Judgement(f, texts) ELSE noted.judged[f]]
  BY <1>4, <1>8, <1>9 DEF Caches
<1> HIDE DEF n, resolved
<1>11. \A x \in Reach(AllUses(h.text), root) : OwnEdges(x, h.text) \subseteq n.edges
  <2> SUFFICES ASSUME NEW x \in Reach(AllUses(h.text), root), h.text[x] # Missing
               PROVE  OwnEdges(x, h.text) \subseteq n.edges
    BY DEF OwnEdges, Uses
  <2> QED BY <1>2, <1>6, <1>7, <1>10
<1>12. \A x \in Files : \A found : Tracked(c, h.text, found, x) => Tracked(n, h.text, found, x)
  <2> SUFFICES ASSUME NEW x \in Files, NEW found, Tracked(c, h.text, found, x)
               PROVE  Tracked(n, h.text, found, x)
    OBVIOUS
  <2>1. CASE x \in linked
    BY <1>6, <1>7, <1>10, <2>1, TrackedIs
  <2>2. CASE x \notin linked
    <3>1. OwnEdges(x, h.text) \subseteq c.edges => OwnEdges(x, h.text) \subseteq n.edges
      <4> SUFFICES ASSUME OwnEdges(x, h.text) \subseteq c.edges, NEW e \in OwnEdges(x, h.text)
                   PROVE  e \in n.edges
        OBVIOUS
      <4>1. e[1] = x
        BY DEF OwnEdges
      <4> QED BY <1>6, <1>10, <2>2, <4>1
    <3> QED BY <1>6, <1>10, <2>2, <3>1, TrackedIs
  <2> QED BY <2>1, <2>2
<1>13. c.judged[root] = None => n.judged[root] = Judgement(root, h.text)
  BY <1>1, <1>3, <1>4, <1>5, <1>6, <1>10
<1> QED BY <1>11, <1>12, <1>13 DEF n

LEMMA AnalysisOfExact ==
  ASSUME NEW c, NEW h \in Hosts, NEW f \in Files, Sound(c, h.text, {})
  PROVE  LET n == AnalysisOf(c, h, f)
         IN /\ \A x \in Files : \A found : Tracked(c, h.text, found, x)
                                             => Tracked(n, h.text, found, x)
            /\ h.text[f] # Missing =>
                 /\ n.judged[f] = Judgement(f, h.text)
                 /\ \A x \in Reach(AllUses(h.text), f) : OwnEdges(x, h.text) \subseteq n.edges
<1> DEFINE read == FilesOf(c, h, {f})
           n == AnalysisOf(c, h, f)
<1>0. c \in Caches /\ h.text \in [Files -> Texts]
  BY DEF Sound, Hosts
<1>1. Sound(read, h.text, {})
  BY FilesOfSound
<1>2. read.edges = c.edges /\ read.stale = c.stale /\ read.discovered = c.discovered
  BY <1>0, FilesOfShape
<1>3. h.text[f] # Missing => read.parsed[f] # None
  BY ReadIsText
<1>4. n = IF read.parsed[f] = None \/ read.judged[f] # None THEN read ELSE AnalyseGraph(read, h, f)
  BY DEF AnalysisOf
<1> HIDE DEF read, n
<1>5. \A x \in Files : \A found : Tracked(c, h.text, found, x) => Tracked(read, h.text, found, x)
  BY <1>2, TrackedIs
<1>6. CASE read.parsed[f] = None
  BY <1>3, <1>4, <1>5, <1>6 DEF n
<1>7. CASE read.parsed[f] # None /\ read.judged[f] # None
  <2>1. Fits(read.judged[f], f, read.edges, h.text, {})
    BY <1>1, <1>7 DEF Sound
  <2>2. read.judged[f] = Judgement(f, h.text)
    <3>1. DOMAIN read.judged[f] \cap {} = {}
      OBVIOUS
    <3> QED BY <1>0, <2>1, <3>1, FitsIsFresh
  <2>3. ASSUME NEW x \in Reach(AllUses(h.text), f) PROVE OwnEdges(x, h.text) \subseteq read.edges
    <3> DEFINE J == Judgement(f, h.text)
    <3>0. DOMAIN J = Reach(AllUses(h.text), f) /\ \A y \in DOMAIN J : J[y] = h.text[y]
      BY DEF Judgement, AllUses
    <3> HIDE DEF J
    <3>1. Fits(J, f, read.edges, h.text, {})
      BY <2>1, <2>2 DEF J
    <3>2. {e \in Inner(J) : e[1] \notin {}} = Inner(J)
      OBVIOUS
    <3>3. x \in Clear(J, f, {})
      BY <3>0, <3>1, <3>2, <2>3 DEF Clear, Fits
    <3> SUFFICES ASSUME NEW y \in Uses(x, h.text[x]) PROVE <<x, y>> \in read.edges
      BY DEF OwnEdges
    <3>4. <<x, y>> \in Inner(J)
      BY <3>0, <2>3, UsesOfHas DEF Inner
    <3> QED BY <3>1, <3>3, <3>4 DEF Fits
  <2> QED BY <1>4, <1>5, <1>7, <2>2, <2>3 DEF n
<1>8. CASE read.parsed[f] # None /\ read.judged[f] = None
  BY <1>1, <1>4, <1>5, <1>8, AnalyseGraphExact DEF n
<1> QED BY <1>6, <1>7, <1>8

-----------------------------------------------------------------------------
(* Who sees whom.                                                          *)

LEMMA SeesRoot ==
  ASSUME NEW text, NEW W, NEW g \in Files
  PROVE  g \in Sees(text, W, g) /\ Sees(text, W, g) \in SUBSET Files
BY ReachRoot, ReachType DEF Sees

\* What g sees grows with neither more texts that changed nor more who wait,
\* beyond those it saw anyway.
LEMMA SeesNarrows ==
  ASSUME NEW text \in [Files -> Texts], NEW after \in [Files -> Texts],
         NEW W \in SUBSET Files, NEW V \in SUBSET Files, NEW g \in Files,
         \A x \in Sees(text, W, g) : x \notin V => x \notin W /\ after[x] = text[x]
  PROVE  Sees(after, V, g) \subseteq Sees(text, W, g)
<1> DEFINE S == Sees(text, W, g)
           E == UsesOf(text, Files \ W)
           F == UsesOf(after, Files \ V)
<1>1. S \in SUBSET Files /\ g \in S
  BY SeesRoot
<1>2. ASSUME NEW e \in F, e[1] \in S PROVE e[2] \in S
  <2>1. /\ e = <<e[1], e[2]>> /\ e[1] \in Files \ V /\ e[2] \in Files
        /\ e[2] \in Uses(e[1], after[e[1]])
    BY <1>2, UsesOfPairs
  <2>2. e[1] \in Files \ W /\ e[2] \in Uses(e[1], text[e[1]])
    BY <1>2, <2>1
  <2>3. <<e[1], e[2]>> \in E
    BY <2>2, UsesOfHas
  <2> QED BY <1>2, <2>1, <2>3, ReachClosed DEF Sees
<1> HIDE DEF S
<1>3. Reach(F, g) \subseteq S
  BY <1>1, <1>2, ReachLeast
<1> QED BY <1>3 DEF S, Sees

LEMMA SeesReach ==
  ASSUME NEW text \in [Files -> Texts], NEW g \in Files
  PROVE  Sees(text, {}, g) = Reach(AllUses(text), g)
<1>1. Files \ {} = Files
  OBVIOUS
<1> QED BY <1>1 DEF Sees, AllUses

LEMMA SeesWithin ==
  ASSUME NEW text \in [Files -> Texts], NEW W \in SUBSET Files, NEW g \in Files
  PROVE  Sees(text, W, g) \subseteq Reach(AllUses(text), g)
<1>1. Sees(text, W, g) \subseteq Sees(text, {}, g)
  BY SeesNarrows
<1> QED BY <1>1, SeesReach

\* Who sees nobody that waits sees all that it reaches.
LEMMA SeesAll ==
  ASSUME NEW text \in [Files -> Texts], NEW W \in SUBSET Files, NEW g \in Files,
         Sees(text, W, g) \cap W = {}
  PROVE  Sees(text, W, g) = Reach(AllUses(text), g)
<1>1. \A x \in Sees(text, W, g) : x \notin W
  OBVIOUS
<1>2. Sees(text, {}, g) \subseteq Sees(text, W, g)
  BY <1>1, SeesNarrows
<1>3. Sees(text, {}, g) = Reach(AllUses(text), g)
  BY SeesReach
<1>4. Sees(text, W, g) \subseteq Reach(AllUses(text), g)
  BY SeesWithin
<1> QED BY <1>2, <1>3, <1>4

\* dependentsOf finds whoever sees a file by edges that are recorded.
LEMMA ImportersSee ==
  ASSUME NEW c, NEW h \in Hosts, NEW W \in SUBSET Files, NEW g \in Files, NEW y \in Files,
         \A x \in Sees(h.text, W, g) : OwnEdges(x, h.text) \subseteq c.edges,
         g \notin Importers(c, h, y)
  PROVE  y \notin Sees(h.text, W, g)
<1> DEFINE S == Sees(h.text, W, g)
           back == {<<e[2], e[1]>> : e \in {d \in c.edges : Readable(c, h, d[1])}}
           R == Importers(c, h, y)
           Z == S \ R
<1>0. h.text \in [Files -> Texts]
  BY DEF Hosts
<1>1. R = Reach(back, y) /\ y \in R
  BY ReachRoot DEF Importers
<1>2. S \in SUBSET Files /\ g \in S
  BY SeesRoot
<1>3. ASSUME NEW e \in UsesOf(h.text, Files \ W), e[1] \in Z PROVE e[2] \in Z
  <2>1. /\ e = <<e[1], e[2]>> /\ e[1] \in Files /\ e[2] \in Files
        /\ e[2] \in Uses(e[1], h.text[e[1]]) /\ h.text[e[1]] # Missing
    BY <1>0, UsesOfPairs
  <2>2. e[2] \in S
    BY <1>3, <2>1, ReachClosed DEF Sees
  <2>3. <<e[1], e[2]>> \in c.edges
    BY <1>3, <2>1 DEF OwnEdges
  <2>4. Readable(c, h, e[1])
    BY <2>1 DEF Readable
  <2>5. <<e[2], e[1]>> \in back
    BY <2>3, <2>4
  <2>6. ASSUME e[2] \in R PROVE FALSE
    <3> DEFINE b == <<e[2], e[1]>>
    <3>1. b \in back /\ b[1] \in Reach(back, y) /\ b[2] \in Files
      BY <1>1, <2>1, <2>5, <2>6
    <3> HIDE DEF back
    <3>2. b[2] \in Reach(back, y)
      BY <3>1, ReachClosed
    <3> QED BY <1>1, <1>3, <3>2
  <2> QED BY <2>2, <2>6
<1>4. Z \in SUBSET Files /\ g \in Z
  BY <1>2
<1> HIDE DEF Z, R
<1>5. Reach(UsesOf(h.text, Files \ W), g) \subseteq Z
  BY <1>3, <1>4, ReachLeast
<1> QED BY <1>1, <1>5 DEF Sees, Z

\* An analysis stays true while nothing it reports on or reaches changes.
LEMMA TruthStays ==
  ASSUME NEW h \in Hosts, NEW after \in Hosts, NEW g \in Files, NEW claimed, NEW show, NEW later,
         \A x \in Reach(AllUses(h.text), g) :
           after.text[x] = h.text[x] /\ (x \in after.open <=> x \in h.open),
         Truthful(h, g, claimed, show), \A f \in claimed : later[f] = show[f]
  PROVE  Truthful(after, g, claimed, later)
<1>0. h.text \in [Files -> Texts] /\ after.text \in [Files -> Texts]
  BY DEF Hosts
<1>1. Reach(AllUses(after.text), g) = Reach(AllUses(h.text), g)
  BY <1>0, ReachIsLocal
<1>2. claimed = ReportsOf(after, g)
  BY <1>1 DEF Truthful, ReportsOf
<1>3. ASSUME NEW f \in claimed PROVE later[f] = Judgement(f, after.text)
  <2>1. f \in Reach(AllUses(h.text), g) /\ f \in Files
    BY ReachRoot, ReachType DEF Truthful, ReportsOf
  <2>2. Reach(AllUses(h.text), f) \subseteq Reach(AllUses(h.text), g)
    BY <1>0, <2>1, ReachFurther
  <2>3. Judgement(f, after.text) = Judgement(f, h.text)
    BY <1>0, <2>1, <2>2, ReachIsLocal
  <2> QED BY <2>3 DEF Truthful
<1> QED BY <1>2, <1>3 DEF Truthful

-----------------------------------------------------------------------------
(* The steps.                                                              *)

Ready == WorkspaceInv /\ Clock /\ Counted

\* Schedule adds to who waits.
LEMMA ScheduleAdds ==
  ASSUME NEW p \in [Files -> (0 .. Debounce) \cup {None}], NEW S \in SUBSET Files,
         Schedule(p, S)
  PROVE  Pending' = S \cup {f \in Files : p[f] # None}
<1>1. Debounce # None
  BY DebounceAssumption
<1>2. pending' = [f \in Files |-> IF f \in S THEN Debounce ELSE p[f]]
  BY DEF Schedule
<1> QED BY <1>1, <1>2 DEF Pending

\* A batch is put in order whole.
LEMMA OrderHasAll ==
  ASSUME NEW S \in SUBSET Files, NEW lexical, NEW order \in InOrder(S, lexical)
  PROVE  {order[i] : i \in DOMAIN order} = S
<1> DEFINE n == Cardinality(S)
<1>1. IsFiniteSet(S) /\ n \in Nat
  BY FilesAssumption, FS_Subset, FS_CardinalityType
<1>2. order \in [1 .. n -> S] /\ \A i, j \in 1 .. n : i < j => order[i] # order[j]
  BY DEF InOrder
<1> HIDE DEF n
<1>3. order \in Injection(1 .. n, S)
  <2>1. \A i, j \in 1 .. n : order[i] = order[j] => i = j
    BY <1>1, <1>2
  <2> QED BY <1>2, <2>1 DEF Injection, IsInjective
<1>4. Cardinality(1 .. n) = n
  BY <1>1, FS_Interval
<1>5. order \in Surjection(1 .. n, S)
  BY <1>1, <1>3, <1>4, FS_Injection DEF n
<1> QED BY <1>2, <1>5 DEF Surjection

LEMMA DueIsOfFiles ==
  ASSUME Clock
  PROVE  Pending \in SUBSET Files /\ Due \in SUBSET Files /\ (Idle => Due = Pending)
BY DEF Clock, Due, Pending, Idle

LEMMA HostNow ==
  ASSUME Ready
  PROVE  /\ host \in Hosts /\ host.text \in [Files -> Texts] /\ host.open = Open
         /\ Open \in SUBSET Files /\ Found \in SUBSET Files
         /\ \A f \in Files : f \in Open <=> buffer[f] # None
         /\ \A f \in Open : host.text[f] # Missing
         /\ unseen = {} => Sound(cache, host.text, {})
<1>1. host \in Hosts /\ Found \in SUBSET Files /\ buffer \in [Files -> Versions \cup {None}]
  BY HostTexts DEF Ready, WorkspaceInv, WorkspaceTypeOK
<1>2. /\ host.open = {f \in Files : buffer[f] # None}
      /\ host.text = [f \in Files |-> IF buffer[f] # None THEN buffer[f] ELSE disk[f]]
  BY DEF host, Host
<1> QED BY <1>1, <1>2, TextsAssumption DEF Open, Hosts, Ready, WorkspaceInv, Texts

LEMMA ShownStore ==
  ASSUME Ready, ShownInv, NEW f \in Files, NEW t \in Texts, Store(f, t)
  PROVE  ShownInv'
<1>1. unseen' # {} /\ UNCHANGED <<buffer, pending, todo, claims, shown>>
  BY DEF Store
<1>2. Open' = Open /\ Due' = Due
  BY <1>1 DEF Open, host, Host, Due, Pending
<1> QED BY <1>1, <1>2 DEF ShownInv, Owned, Tracks, Told, Claimed

LEMMA ShownWatched ==
  ASSUME Ready, ShownInv, NEW f \in Files, WatchedFile(f)
  PROVE  ShownInv'
<1>1. UNCHANGED <<buffer, disk, todo, claims, shown>> /\ Schedule(pending, Open)
  BY DEF WatchedFile
<1>2. host' = host /\ Open' = Open
  BY <1>1 DEF Open, host
<1>3. Pending' = Open \cup Pending
  BY <1>1, HostNow, ScheduleAdds DEF Ready, Clock, Waiting, Pending
<1>4. Due' = Open \cup Due
  BY <1>1, <1>3 DEF Due
<1>5. Owned'
  BY <1>1, <1>2, <1>4 DEF ShownInv, Owned
<1>6. Open' \ Due' = {}
  BY <1>2, <1>4
<1>7. Tracks' /\ Told'
  BY <1>6 DEF Tracks, Told, Settled
<1> QED BY <1>1, <1>5, <1>7 DEF ShownInv, Claimed

\* Where texts, documents and claims stay as they are, and who waits does too,
\* it is enough that edges are not lost.
LEMMA ShownReads ==
  ASSUME Ready, ShownInv,
         UNCHANGED <<disk, unseen, buffer, folders, todo, claims, shown>>, Pending' = Pending,
         unseen = {} => \A x \in Files : Tracked(cache, host.text, Found, x)
                                           => Tracked(cache', host.text, Found, x)
  PROVE  ShownInv'
<1>1. host' = host /\ Open' = Open /\ Found' = Found /\ Due' = Due
  BY DEF Open, host, Found, Due
<1>2. Owned'
  BY <1>1 DEF ShownInv, Owned
<1>3. Tracks'
  <2> SUFFICES ASSUME unseen = {}, NEW g \in Open \ Due, NEW x \in Sees(host.text, Pending, g)
               PROVE  Tracked(cache', host.text, Found, x)
    BY <1>1 DEF Tracks
  <2>1. Tracked(cache, host.text, Found, x)
    BY DEF ShownInv, Tracks
  <2>2. x \in Files
    BY HostNow, SeesRoot
  <2> QED BY <2>1, <2>2
<1>4. Told'
  BY <1>1 DEF ShownInv, Told, Settled
<1> QED BY <1>2, <1>3, <1>4 DEF ShownInv, Claimed

LEMMA ShownRequests ==
  ASSUME Ready, ShownInv, NEW f \in Files, RequestAnalysis(f) \/ RequestComponent(f)
  PROVE  ShownInv'
<1>1. UNCHANGED <<disk, unseen, buffer, folders, pending, todo, claims, shown>>
  BY DEF RequestAnalysis, RequestComponent
<1>2. Pending' = Pending
  BY <1>1 DEF Pending
<1>3. ASSUME unseen = {}, NEW x \in Files, Tracked(cache, host.text, Found, x)
      PROVE  Tracked(cache', host.text, Found, x)
  <2>1. Sound(cache, host.text, {}) /\ host \in Hosts /\ Found \in SUBSET Files
    BY <1>3, HostNow
  <2>2. CASE RequestAnalysis(f)
    BY <1>3, <2>1, <2>2, AnalysisOfExact DEF RequestAnalysis
  <2>3. CASE RequestComponent(f)
    <3>1. \E more : cache' = FilesOf(Refreshed(cache, host, Found, {f}), host, more)
      BY <2>3 DEF RequestComponent
    <3> QED BY <1>3, <2>1, <3>1, RefreshedTracks
  <2> QED BY <2>2, <2>3
<1> QED BY <1>1, <1>2, <1>3, ShownReads

LEMMA ShownTick ==
  ASSUME Ready, ShownInv, Tick \/ UNCHANGED vars
  PROVE  ShownInv'
<1>1. UNCHANGED <<disk, unseen, buffer, folders, cache, todo, claims, shown>>
  BY DEF Tick, vars, wvars, svars
<1>2. Pending' = Pending
  <2>1. CASE Tick
    <3>1. pending' = [f \in Files |-> IF pending[f] = None \/ pending[f] = 0 THEN pending[f]
                                      ELSE pending[f] - 1]
      BY <2>1 DEF Tick
    <3>2. \A f \in Files : pending[f] \in Nat \cup {None}
      BY DebounceAssumption DEF Ready, Clock, Waiting
    <3>3. \A f \in Files : pending'[f] = None <=> pending[f] = None
      BY <3>1, <3>2, DebounceAssumption
    <3> QED BY <3>3 DEF Pending
  <2>2. CASE UNCHANGED vars
    BY <2>2 DEF vars, svars, Pending
  <2> QED BY <2>1, <2>2
<1> QED BY <1>1, <1>2, ShownReads

\* Of a change of folders: all that is seen is found in them.
LEMMA ShownFolders ==
  ASSUME Ready, ShownInv, NEW inside \in FolderSets, SetFolders(inside), KeepsDocuments
  PROVE  ShownInv'
<1>1. /\ UNCHANGED <<disk, unseen, buffer, pending, todo, claims, shown>>
      /\ cache' = Empty
  BY DEF SetFolders
<1>2. host' = host /\ Open' = Open /\ Due' = Due /\ Pending' = Pending
  BY <1>1 DEF Open, host, Due, Pending
<1>3. Owned' /\ Told'
  BY <1>1, <1>2 DEF ShownInv, Owned, Told, Settled
<1>4. Tracks'
  <2> SUFFICES ASSUME unseen = {}, NEW g \in Open \ Due, NEW x \in Sees(host.text, Pending, g)
               PROVE  Tracked(cache', host.text, Found', x)
    BY <1>1, <1>2 DEF Tracks
  <2>0. host.text \in [Files -> Texts] /\ g \in Files /\ Pending \in SUBSET Files
    BY HostNow, DueIsOfFiles DEF Ready
  <2>1. x \in Reach(AllUses(host.text), g)
    BY <2>0, SeesWithin
  <2>2. x \in DOMAIN Judgement(g, host.text)
    BY <2>1 DEF Judgement, AllUses
  <2>3. counts'.moves # counts.moves
    <3>1. counts.moves \in Nat /\ counts' = [counts EXCEPT !["moves"] = @ + 1]
      BY DEF SetFolders, Used, Ready, Counted
    <3>2. counts'.moves = counts.moves + 1
      BY <3>1 DEF Ready, Counted
    <3> QED BY <3>1, <3>2
  <2>4. host.text[x] # Missing => x \in folders' /\ disk[x] # Missing
    BY <2>2, <2>3 DEF KeepsDocuments
  <2>5. CASE host.text[x] = Missing
    BY <2>5, TrackedIs DEF OwnEdges, Uses
  <2>6. CASE host.text[x] # Missing
    BY <1>1, <2>4, <2>6, TrackedIs DEF Found, Empty
  <2> QED BY <2>5, <2>6
<1> QED BY <1>1, <1>3, <1>4 DEF ShownInv, Claimed

\* What Changed leaves of the edges.
LEMMA ChangedTracks ==
  ASSUME NEW c \in Caches, NEW y \in Files, NEW inside
  PROVE  LET d == Changed(c, y, inside)
         IN /\ d.edges = c.edges /\ c.stale \cup {y} \subseteq d.stale
            /\ c.discovered = None => d.discovered = None
<1> DEFINE dropped == InvalidateEnrichment(Invalidate(c, y), y)
           marked == [dropped EXCEPT !.stale = @ \cup {y}]
           d == Changed(c, y, inside)
<1>1. /\ dropped \in Caches /\ dropped.edges = c.edges /\ dropped.stale = c.stale
      /\ dropped.discovered = c.discovered
  BY DEF InvalidateEnrichment, Invalidate, Caches, Component
<1> HIDE DEF dropped
<1>2. /\ marked \in Caches /\ marked.edges = c.edges /\ marked.stale = c.stale \cup {y}
      /\ marked.discovered = c.discovered
  BY <1>1 DEF Caches
<1>3. d = Discover(marked, y, inside)
  BY DEF Changed, dropped
<1> HIDE DEF marked, d
<1>4. CASE y \in inside /\ marked.discovered # None /\ y \notin marked.discovered
  <2> DEFINE found == [marked EXCEPT !.discovered = @ \cup {y}]
  <2>1. /\ found.edges = c.edges /\ found.stale = c.stale \cup {y}
        /\ found \in Caches
    BY <1>2, <1>4 DEF Caches
  <2>2. d = MarkEdgesStale(found)
    BY <1>3, <1>4 DEF Discover
  <2> HIDE DEF found
  <2> QED BY <1>2, <1>4, <2>1, <2>2 DEF MarkEdgesStale, Caches, d
<1>5. CASE ~(y \in inside /\ marked.discovered # None /\ y \notin marked.discovered)
  BY <1>2, <1>3, <1>5 DEF Discover, d
<1> QED BY <1>4, <1>5

\* A document is opened or typed in.
LEMMA ShownContent ==
  ASSUME Ready, ShownInv, NEW f \in Files, NEW t \in Versions, ChangeContent(f, t)
  PROVE  ShownInv'
<1>1. /\ UNCHANGED <<disk, unseen, folders, todo, claims, shown>>
      /\ buffer' = [buffer EXCEPT ![f] = t] /\ cache' = Changed(cache, f, folders)
      /\ Schedule(pending, {f}) /\ Idle
  BY DEF ChangeContent
<1>2. /\ buffer \in [Files -> Versions \cup {None}] /\ disk \in [Files -> Texts]
      /\ cache \in Caches
  BY DEF Ready, WorkspaceInv, WorkspaceTypeOK
<1> DEFINE after == host'
<1>3. /\ after \in Hosts /\ after.text \in [Files -> Texts]
      /\ \A x \in Files \ {f} : /\ after.text[x] = host.text[x]
                                /\ x \in after.open <=> x \in host.open
      /\ f \in after.open /\ after.open = Open'
  <2>1. buffer' \in [Files -> Versions \cup {None}] /\ buffer'[f] = t /\ t # None
    BY <1>1, <1>2, TextsAssumption DEF Texts
  <2>2. /\ host' = Host(buffer', disk) /\ host = Host(buffer, disk)
        /\ \A x \in Files \ {f} : buffer'[x] = buffer[x]
    BY <1>1, <1>2 DEF host
  <2>3. host' \in Hosts
    BY <1>2, <2>1, <2>2, HostType
  <2>4. \A x \in Files \ {f} : host'.text[x] = host.text[x] /\ (x \in host'.open <=> x \in host.open)
    BY <2>2 DEF Host
  <2>5. f \in host'.open
    BY <2>1, <2>2 DEF Host
  <2> QED BY <2>3, <2>4, <2>5 DEF Hosts, Open
<1> HIDE DEF after
<1>4. /\ host \in Hosts /\ host.text \in [Files -> Texts] /\ host.open = Open
      /\ Open \in SUBSET Files /\ Pending \in SUBSET Files
  BY HostNow, DueIsOfFiles DEF Ready
<1>5. Pending' = {f} \cup Pending
  <2>1. {f} \in SUBSET Files /\ pending \in [Files -> (0 .. Debounce) \cup {None}]
    BY DEF Ready, Clock, Waiting
  <2>2. Pending' = {f} \cup {g \in Files : pending[g] # None}
    BY <1>1, <2>1, ScheduleAdds
  <2> QED BY <2>2 DEF Pending
<1>6. Due' = {f} \cup Due
  BY <1>1, <1>5 DEF Due
<1>7. Open' = {f} \cup Open
  BY <1>3, <1>4 DEF Hosts
<1>8. Owned' /\ Claimed'
  BY <1>1, <1>6, <1>7 DEF ShownInv, Owned, Claimed
<1>9. ASSUME NEW g \in Open' \ Due' PROVE g \in Open \ Due /\ g \in Files /\ g # f
  BY <1>4, <1>6, <1>7, <1>9
<1>10. ASSUME NEW g \in Open' \ Due'
       PROVE  Sees(after.text, Pending', g) \subseteq Sees(host.text, Pending, g)
  <2>1. Pending' \in SUBSET Files
    BY <1>4, <1>5
  <2>2. \A x \in Sees(host.text, Pending, g) :
          x \notin Pending' => x \notin Pending /\ after.text[x] = host.text[x]
    <3>1. Sees(host.text, Pending, g) \subseteq Files
      BY <1>9, SeesRoot
    <3> QED BY <1>3, <1>5, <3>1
  <2> QED BY <1>3, <1>4, <1>9, <2>1, <2>2, SeesNarrows
<1>11. Tracks'
  <2> SUFFICES ASSUME unseen = {}, NEW g \in Open' \ Due', NEW x \in Sees(after.text, Pending', g)
               PROVE  Tracked(cache', after.text, Found', x)
    BY <1>1 DEF Tracks, after
  <2>1. x \in Files /\ Tracked(cache, host.text, Found, x)
    BY <1>9, <1>10, SeesRoot DEF ShownInv, Tracks
  <2>2. /\ cache'.edges = cache.edges /\ cache.stale \cup {f} \subseteq cache'.stale
        /\ cache.discovered = None => cache'.discovered = None
    <3> DEFINE d == Changed(cache, f, folders)
    <3>1. /\ d.edges = cache.edges /\ cache.stale \cup {f} \subseteq d.stale
          /\ cache.discovered = None => d.discovered = None
      BY <1>2, ChangedTracks
    <3> HIDE DEF d
    <3>2. cache' = d
      BY <1>1 DEF d
    <3> QED BY <3>1, <3>2
  <2>3. CASE x = f
    BY <2>2, <2>3, TrackedIs
  <2>4. CASE x # f
    <3>1. OwnEdges(x, after.text) = OwnEdges(x, host.text)
      BY <1>3, <2>1, <2>4 DEF OwnEdges
    <3>2. Found' = Found
      BY <1>1 DEF Found
    <3> QED BY <2>1, <2>2, <3>1, <3>2, TrackedIs
  <2> QED BY <2>3, <2>4
<1>12. Told'
  <2> SUFFICES ASSUME unseen = {}, NEW g \in Files, Settled(g)'
               PROVE  Truthful(after, g, claims[g], shown)
    BY <1>1 DEF Told, after
  <2>1. g \in Open' \ Due' /\ Reach(AllUses(after.text), g) \cap Pending' = {}
    BY DEF Settled, after
  <2>2. /\ Reach(AllUses(after.text), g) \subseteq Files
        /\ f \notin Reach(AllUses(after.text), g)
    BY <1>5, <2>1, ReachType
  <2>3. \A x \in Reach(AllUses(after.text), g) : host.text[x] = after.text[x]
    BY <1>3, <2>2
  <2>4. Reach(AllUses(host.text), g) = Reach(AllUses(after.text), g)
    BY <1>3, <1>4, <2>3, ReachIsLocal
  <2>5. Settled(g)
    BY <1>5, <1>9, <2>1, <2>4 DEF Settled
  <2>6. Truthful(host, g, claims[g], shown)
    BY <2>5 DEF ShownInv, Told
  <2>7. \A x \in Reach(AllUses(host.text), g) :
          after.text[x] = host.text[x] /\ (x \in after.open <=> x \in host.open)
    BY <1>3, <2>2, <2>4
  <2> QED BY <1>3, <1>4, <2>6, <2>7, TruthStays
<1> QED BY <1>8, <1>11, <1>12 DEF ShownInv

\* A document is closed: whoever sees it is scheduled.
LEMMA ShownClose ==
  ASSUME Ready, ShownInv, NEW f \in Files, Close(f)
  PROVE  ShownInv'
<1> DEFINE docs == [buffer EXCEPT ![f] = None]
           after == Host(docs, disk)
           changed == Changed(cache, f, folders)
           walked == Dependents(changed, after, Found, {f})
           told == Importers(walked, after, f) \cap after.open
           left == [pending EXCEPT ![f] = None]
<1>1. /\ UNCHANGED <<disk, unseen, folders, todo>> /\ Idle /\ f \in Open
      /\ buffer' = docs /\ cache' = walked
      /\ shown' = [Publish(f, <<>>) EXCEPT ![f] = None]
      /\ Schedule(left, told) /\ claims' = [claims EXCEPT ![f] = {}]
  BY DEF Close
<1>2. /\ buffer \in [Files -> Versions \cup {None}] /\ disk \in [Files -> Texts]
      /\ cache \in Caches
  BY DEF Ready, WorkspaceInv, WorkspaceTypeOK
<1>3. /\ after \in Hosts /\ after = host' /\ Found' = Found
      /\ \A x \in Files \ {f} : after.text[x] = host.text[x]
      /\ \A x \in Files \ {f} : x \in after.open <=> x \in host.open
      /\ f \notin after.open
  <2>1. docs \in [Files -> Versions \cup {None}] /\ docs[f] = None
    BY <1>2
  <2>2. \A x \in Files \ {f} : docs[x] = buffer[x]
    BY <1>2
  <2>3. host' = Host(buffer', disk') /\ host = Host(buffer, disk)
    BY DEF host
  <2>4. after = host' /\ Found' = Found
    BY <1>1, <2>3 DEF Found
  <2> HIDE DEF docs
  <2>5. after \in Hosts
    BY <1>2, <2>1, HostType
  <2>6. /\ \A x \in Files \ {f} : after.text[x] = host.text[x]
        /\ \A x \in Files \ {f} : x \in after.open <=> x \in host.open
        /\ f \notin after.open
    BY <2>1, <2>2, <2>3 DEF Host
  <2> QED BY <2>4, <2>5, <2>6
<1> HIDE DEF after, docs
<1>4. /\ host \in Hosts /\ host.text \in [Files -> Texts] /\ host.open = Open
      /\ Open \in SUBSET Files /\ Pending \in SUBSET Files /\ Due = Pending
      /\ Found \in SUBSET Files /\ after.text \in [Files -> Texts]
      /\ after.open \in SUBSET Files
  BY <1>1, <1>3, HostNow, DueIsOfFiles DEF Ready, Hosts
<1>5. Open' = Open \ {f} /\ after.open = Open'
  <2>1. Open' = after.open
    BY <1>3 DEF Open
  <2> QED BY <1>3, <1>4, <2>1
<1>6. Pending' = told \cup (Pending \ {f}) /\ Due' = Pending'
  <2>1. left \in [Files -> (0 .. Debounce) \cup {None}] /\ told \in SUBSET Files
    BY <1>4 DEF Ready, Clock, Waiting
  <2>2. {g \in Files : left[g] # None} = Pending \ {f}
    BY DEF Pending, Ready, Clock, Waiting
  <2> HIDE DEF left, told
  <2>3. Pending' = told \cup (Pending \ {f})
    BY <1>1, <2>1, <2>2, ScheduleAdds
  <2>4. Due' = Pending'
    BY <1>1 DEF Due, Idle
  <2> QED BY <2>3, <2>4
<1>7. told \subseteq Open' /\ \A g \in Open' : g \notin told => g \notin Importers(walked, after, f)
  BY <1>5
<1> HIDE DEF told, left
<1>8. \A x \in Files : shown'[x] = IF x = f THEN None
        ELSE IF x \in claims[f] /\ ~ClaimedElsewhere(f, x) THEN None ELSE shown[x]
  <2>1. DOMAIN <<>> = {}
    OBVIOUS
  <2>2. Publish(f, <<>>) = [x \in Files |->
          IF x \in claims[f] /\ ~ClaimedElsewhere(f, x) THEN None ELSE shown[x]]
    BY <2>1, Zenon DEF Publish
  <2> QED BY <1>1, <2>2
<1>9. Owned' /\ Claimed'
  <2>1. Claimed' /\ \A g \in Files : claims'[g] = IF g = f THEN {} ELSE claims[g]
    BY <1>1 DEF ShownInv, Claimed
  <2>2. Due' \subseteq Open'
    BY <1>4, <1>5, <1>6, <1>7 DEF ShownInv, Owned
  <2>3. \A g \in Files : claims'[g] # {} => g \in Open'
    BY <1>5, <2>1 DEF ShownInv, Owned
  <2>4. ASSUME NEW x \in Files, shown'[x] # None PROVE \E g \in Files : x \in claims'[g]
    <3>1. /\ x # f /\ shown[x] # None
          /\ x \in claims[f] => ClaimedElsewhere(f, x)
      BY <1>8, <2>4
    <3>2. PICK g \in Files : x \in claims[g]
      BY <3>1 DEF ShownInv, Owned
    <3>3. CASE g = f
      BY <2>1, <3>1, <3>2, <3>3 DEF ClaimedElsewhere
    <3>4. CASE g # f
      BY <2>1, <3>2, <3>4
    <3> QED BY <3>3, <3>4
  <2> QED BY <2>1, <2>2, <2>3, <2>4 DEF Owned
<1>10. ASSUME unseen = {}, NEW g \in Open' \ Due'
       PROVE  /\ g \in Files /\ g # f /\ g \in Open \ Due
              /\ \A x \in Sees(after.text, Pending \cup {f}, g) :
                   OwnEdges(x, after.text) \subseteq walked.edges
              /\ f \notin Sees(after.text, Pending \cup {f}, g)
              /\ Sees(after.text, Pending', g) \subseteq Sees(after.text, Pending \cup {f}, g)
  <2> DEFINE W == Pending \cup {f}
  <2>1. g \in Files /\ g # f /\ g \in Open \ Due /\ g \notin Importers(walked, after, f)
    BY <1>4, <1>5, <1>6, <1>7, <1>10
  <2>2. W \in SUBSET Files /\ Pending' \in SUBSET Files /\ Pending \subseteq W /\ f \in W
        /\ \A x \in Files : x \notin W => x \notin Pending /\ x # f
    BY <1>4, <1>5, <1>6, <1>7
  <2> HIDE DEF W
  <2>3. Sees(after.text, W, g) \subseteq Sees(host.text, W, g)
    <3>1. \A x \in Sees(host.text, W, g) : x \notin W => x \notin W /\ after.text[x] = host.text[x]
      BY <1>3, <2>1, <2>2, SeesRoot
    <3> QED BY <1>4, <2>1, <2>2, <3>1, SeesNarrows
  <2>4. Sees(host.text, W, g) \subseteq Sees(host.text, Pending, g)
    <3>1. \A x \in Sees(host.text, Pending, g) :
            x \notin W => x \notin Pending /\ host.text[x] = host.text[x]
      BY <2>2
    <3> QED BY <1>4, <2>1, <2>2, <3>1, SeesNarrows
  <2>5. Sound(changed, after.text, {})
    <3>1. Sound(cache, host.text, {})
      BY <1>10, HostNow
    <3>2. \A x \in Files \ {f} : after.text[x] = host.text[x] /\ (x \in {} <=> x \in {})
      BY <1>3
    <3> QED BY <3>1, <3>2, ChangedSound
  <2>6. /\ changed.edges = cache.edges /\ cache.stale \cup {f} \subseteq changed.stale
        /\ cache.discovered = None => changed.discovered = None
    BY <1>2, ChangedTracks
  <2> HIDE DEF changed
  <2>7. ASSUME NEW x \in Sees(after.text, W, g)
        PROVE  OwnEdges(x, after.text) \subseteq walked.edges
    <3>1. x \in Files /\ Tracked(cache, host.text, Found, x)
      BY <1>10, <2>1, <2>3, <2>4, SeesRoot DEF ShownInv, Tracks
    <3>2. Tracked(changed, after.text, Found, x)
      <4>1. CASE x = f
        BY <2>6, <4>1, TrackedIs
      <4>2. CASE x # f
        <5>1. OwnEdges(x, after.text) = OwnEdges(x, host.text)
          BY <1>3, <3>1, <4>2 DEF OwnEdges
        <5> QED BY <2>6, <3>1, <5>1, TrackedIs
      <4> QED BY <4>1, <4>2
    <3> QED BY <1>3, <1>4, <2>5, <3>1, <3>2, DependentsExact
  <2>8. f \notin Sees(after.text, W, g)
    <3> HIDE DEF walked
    <3> QED BY <1>3, <2>1, <2>2, <2>7, ImportersSee
  <2>9. Sees(after.text, Pending', g) \subseteq Sees(after.text, W, g)
    <3>1. \A x \in Sees(after.text, W, g) :
            x \notin Pending' => x \notin W /\ after.text[x] = after.text[x]
      <4> SUFFICES ASSUME NEW x \in Sees(after.text, W, g), x \notin Pending' PROVE x \notin W
        OBVIOUS
      <4> QED BY <1>6, <2>8 DEF W
    <3> QED BY <1>4, <2>1, <2>2, <3>1, SeesNarrows
  <2> QED BY <2>1, <2>7, <2>8, <2>9 DEF W
<1> HIDE DEF walked
<1>11. Tracks'
  <2> SUFFICES ASSUME unseen = {}, NEW g \in Open' \ Due', NEW x \in Sees(after.text, Pending', g)
               PROVE  Tracked(walked, after.text, Found, x)
    BY <1>1, <1>3 DEF Tracks
  <2>1. OwnEdges(x, after.text) \subseteq walked.edges
    BY <1>10
  <2> QED BY <2>1, TrackedIs
<1>12. Told'
  <2> SUFFICES ASSUME unseen = {}, NEW g \in Files, g \in Open' \ Due',
                      Reach(AllUses(after.text), g) \cap Pending' = {}
               PROVE  Truthful(after, g, claims'[g], shown')
    BY <1>1, <1>3 DEF Told, Settled
  <2> DEFINE S == Reach(AllUses(host.text), g)
  <2>1. g # f /\ g \in Open \ Due
    BY <1>10
  <2>2. Pending' \in SUBSET Files /\ Sees(after.text, Pending', g) \cap Pending' = {}
    BY <1>4, <1>5, <1>6, <1>7, SeesWithin
  <2>3. Reach(AllUses(after.text), g) = Sees(after.text, Pending', g)
    BY <1>4, <2>2, SeesAll
  <2>4. f \notin Reach(AllUses(after.text), g)
    BY <1>10, <2>3
  <2>5. Reach(AllUses(after.text), g) \subseteq Files
    BY ReachType
  <2>6. S = Reach(AllUses(after.text), g)
    <3>1. \A x \in Reach(AllUses(after.text), g) : host.text[x] = after.text[x]
      BY <1>3, <2>4, <2>5
    <3> QED BY <1>4, <3>1, ReachIsLocal
  <2>7. S \cap Pending = {}
    BY <1>6, <2>4, <2>6
  <2>8. Truthful(host, g, claims[g], shown)
    BY <2>1, <2>7 DEF ShownInv, Told, Settled
  <2>9. \A x \in S : after.text[x] = host.text[x] /\ (x \in after.open <=> x \in host.open)
    BY <1>3, <2>4, <2>5, <2>6
  <2>10. claims[g] \subseteq S
    BY <2>8, ReachRoot DEF Truthful, ReportsOf
  <2>11. \A x \in claims[g] : shown'[x] = shown[x]
    <3> SUFFICES ASSUME NEW x \in claims[g] PROVE shown'[x] = shown[x]
      OBVIOUS
    <3>1. x \in Files /\ x # f
      BY <2>4, <2>5, <2>6, <2>10
    <3>2. ClaimedElsewhere(f, x)
      BY <2>1 DEF ClaimedElsewhere
    <3> QED BY <1>8, <3>1, <3>2
  <2>12. claims'[g] = claims[g]
    BY <1>1, <2>1 DEF ShownInv, Claimed
  <2> QED BY <1>3, <1>4, <2>8, <2>9, <2>11, <2>12, TruthStays
<1> QED BY <1>9, <1>11, <1>12 DEF ShownInv

\* The callback begins: whoever sees somebody that waits is in its batch.
LEMMA ShownTimer ==
  ASSUME Ready, ShownInv, TimerFires
  PROVE  ShownInv'
<1> DEFINE walked == Dependents(cache, host, Found, Pending)
           seeing == Open \cap UNION {Importers(walked, host, f) : f \in Pending}
           batch == Pending \cup seeing
           lexical == Lexical(walked)
<1>1. /\ UNCHANGED <<disk, unseen, buffer, folders, claims, shown>> /\ Idle
      /\ todo' \in InOrder(batch, lexical)
      /\ \E more : cache' = FilesOf(walked, host, more)
      /\ pending' = [f \in Files |-> None]
  BY DEF TimerFires
<1>2. /\ host \in Hosts /\ host.text \in [Files -> Texts] /\ Open \in SUBSET Files
      /\ Pending \in SUBSET Files /\ Due = Pending /\ Found \in SUBSET Files
  BY <1>1, HostNow, DueIsOfFiles DEF Ready
<1>3. host' = host /\ Open' = Open /\ Found' = Found
  BY <1>1 DEF host, Open, Found
<1>4. Pending' = {} /\ Due' = batch
  <2>1. batch \in SUBSET Files
    BY <1>2
  <2> HIDE DEF batch, lexical
  <2>2. {todo'[i] : i \in DOMAIN todo'} = batch
    BY <1>1, <2>1, OrderHasAll
  <2> QED BY <1>1, <2>2 DEF Pending, Due
<1> HIDE DEF walked
<1>5. Owned' /\ Claimed'
  BY <1>1, <1>2, <1>3, <1>4 DEF ShownInv, Owned, Claimed
<1>6. ASSUME unseen = {}, NEW g \in Open \ batch
      PROVE  /\ g \in Open \ Due /\ g \in Files
             /\ Sees(host.text, Pending, g) = Reach(AllUses(host.text), g)
             /\ Reach(AllUses(host.text), g) \cap Pending = {}
             /\ \A x \in Reach(AllUses(host.text), g) :
                  OwnEdges(x, host.text) \subseteq walked.edges
  <2>1. g \in Open \ Due /\ g \in Files /\ \A y \in Pending : g \notin Importers(walked, host, y)
    BY <1>2
  <2>2. ASSUME NEW x \in Sees(host.text, Pending, g)
        PROVE  OwnEdges(x, host.text) \subseteq walked.edges
    <3>1. x \in Files /\ Tracked(cache, host.text, Found, x)
      BY <1>6, <2>1, SeesRoot DEF ShownInv, Tracks
    <3>2. Sound(cache, host.text, {})
      BY <1>6, HostNow
    <3> QED BY <1>2, <3>1, <3>2, DependentsExact DEF walked
  <2>3. ASSUME NEW y \in Pending PROVE y \notin Sees(host.text, Pending, g)
    <3>1. y \in Files
      BY <1>2
    <3> QED BY <1>2, <2>1, <2>2, <3>1, ImportersSee
  <2>4. Sees(host.text, Pending, g) \cap Pending = {}
    BY <2>3
  <2>5. Sees(host.text, Pending, g) = Reach(AllUses(host.text), g)
    BY <1>2, <2>1, <2>4, SeesAll
  <2> QED BY <2>1, <2>2, <2>4, <2>5
<1>7. Tracks'
  <2> SUFFICES ASSUME unseen = {}, NEW g \in Open \ batch, NEW x \in Sees(host.text, {}, g)
               PROVE  Tracked(cache', host.text, Found, x)
    BY <1>1, <1>3, <1>4 DEF Tracks
  <2>1. x \in Reach(AllUses(host.text), g)
    BY <1>2, <1>6, SeesReach
  <2>2. OwnEdges(x, host.text) \subseteq walked.edges
    BY <1>6, <2>1
  <2>3. walked \in Caches
    <3>1. Sound(walked, host.text, {})
      BY <1>2, HostNow, DependentsSound DEF walked
    <3> QED BY <3>1 DEF Sound
  <2>4. cache'.edges = walked.edges
    BY <1>1, <1>2, <2>3, FilesOfShape
  <2> QED BY <2>2, <2>4, TrackedIs
<1>8. Told'
  <2> SUFFICES ASSUME unseen = {}, NEW g \in Open \ batch
               PROVE  Truthful(host, g, claims[g], shown)
    BY <1>1, <1>3, <1>4 DEF Told, Settled
  <2> QED BY <1>6 DEF ShownInv, Told, Settled
<1> QED BY <1>5, <1>7, <1>8 DEF ShownInv

\* An analysis shows the truth of all that it reports, and takes nothing from
\* those that have.
LEMMA ShownAnalysis ==
  ASSUME Ready, ShownInv, AnalyseNext
  PROVE  ShownInv'
<1> DEFINE f == Head(todo)
           analysed == AnalysisOf(cache, host, f)
           results == Results(f, analysed.judged[f])
<1>1. /\ UNCHANGED <<disk, unseen, buffer, folders, pending>> /\ ~Idle
      /\ cache' = analysed /\ todo' = Tail(todo)
      /\ shown' = Publish(f, results)
      /\ claims' = [claims EXCEPT ![f] = DOMAIN results]
  BY DEF AnalyseNext
<1>2. /\ host \in Hosts /\ host.text \in [Files -> Texts] /\ host.open = Open
      /\ Open \in SUBSET Files /\ Pending \in SUBSET Files /\ Found \in SUBSET Files
      /\ \A g \in Open : host.text[g] # Missing
  BY HostNow, DueIsOfFiles DEF Ready
<1>3. host' = host /\ Open' = Open /\ Found' = Found /\ Pending' = Pending
  BY <1>1 DEF host, Open, Found, Pending
<1>4. Due = Due' \cup {f}
  <2>1. todo \in Seq(Files) /\ todo # <<>>
    BY <1>1 DEF Idle, Ready, Clock
  <2>2. {todo[i] : i \in DOMAIN todo} = {f} \cup {Tail(todo)[i] : i \in DOMAIN Tail(todo)}
    <3>1. \A i \in DOMAIN todo : i = 1 \/ (i - 1 \in DOMAIN Tail(todo) /\ Tail(todo)[i - 1] = todo[i])
      BY <2>1
    <3>2. \A i \in DOMAIN Tail(todo) : i + 1 \in DOMAIN todo /\ Tail(todo)[i] = todo[i + 1]
      BY <2>1
    <3>3. 1 \in DOMAIN todo /\ todo[1] = f
      BY <2>1
    <3> HIDE DEF f
    <3> QED BY <3>1, <3>2, <3>3
  <2> QED BY <1>1, <1>3, <2>2 DEF Due
<1>5. f \in Open /\ f \in Files
  BY <1>2, <1>4 DEF ShownInv, Owned
<1> HIDE DEF f
<1>7. \A x \in Files : shown'[x] =
        IF x \in DOMAIN results THEN results[x]
        ELSE IF x \in claims[f] /\ ~ClaimedElsewhere(f, x) THEN None ELSE shown[x]
  <2> HIDE DEF results
  <2> QED BY <1>1 DEF Publish
<1>8. /\ Claimed'
      /\ \A g \in Files : claims'[g] = IF g = f THEN DOMAIN results ELSE claims[g]
  <2> HIDE DEF results
  <2> QED BY <1>1, <1>5 DEF ShownInv, Claimed
<1>9. unseen = {} => /\ analysed.judged[f] = Judgement(f, host.text)
                     /\ \A x \in Reach(AllUses(host.text), f) :
                          OwnEdges(x, host.text) \subseteq analysed.edges
                     /\ \A x \in Files : Tracked(cache, host.text, Found, x)
                                            => Tracked(analysed, host.text, Found, x)
  BY <1>2, <1>5, HostNow, AnalysisOfExact
<1> HIDE DEF analysed
<1>10. unseen = {} => Truthful(host, f, DOMAIN results, results)
  <2> SUFFICES ASSUME unseen = {} PROVE Truthful(host, f, DOMAIN results, results)
    OBVIOUS
  <2> DEFINE J == Judgement(f, host.text)
             S == Reach(AllUses(host.text), f)
  <2>1. DOMAIN J = S /\ \A x \in S : J[x] = host.text[x]
    BY DEF Judgement, AllUses
  <2>2. f \in S
    BY <1>5, ReachRoot
  <2>3. results = Results(f, J)
    BY <1>9
  <2> HIDE DEF J, results
  <2>4. results = [x \in {f} \cup {y \in S : host.text[y] # Missing /\ y \notin host.open} |-> Part(J, x)]
    BY <1>2, <2>1, <2>3 DEF Results
  <2>5. DOMAIN results = ReportsOf(host, f) /\ DOMAIN results \subseteq S
    BY <2>2, <2>4 DEF ReportsOf
  <2>6. ASSUME NEW x \in DOMAIN results PROVE results[x] = Judgement(x, host.text)
    BY <1>2, <1>5, <2>4, <2>5, <2>6, PartIsJudgement DEF J
  <2> QED BY <2>5, <2>6 DEF Truthful
<1> HIDE DEF results
<1>11. Owned' /\ Claimed'
  <2>1. Due' \subseteq Open'
    BY <1>3, <1>4 DEF ShownInv, Owned
  <2>2. \A g \in Files : claims'[g] # {} => g \in Open'
    BY <1>3, <1>5, <1>8 DEF ShownInv, Owned
  <2>3. ASSUME NEW x \in Files, shown'[x] # None PROVE \E g \in Files : x \in claims'[g]
    <3>1. CASE x \in DOMAIN results
      BY <1>5, <1>8, <3>1
    <3>2. CASE x \notin DOMAIN results
      <4>1. shown[x] # None /\ (x \in claims[f] => ClaimedElsewhere(f, x))
        BY <1>7, <2>3, <3>2
      <4>2. PICK g \in Files : x \in claims[g]
        BY <4>1 DEF ShownInv, Owned
      <4>3. CASE g = f
        BY <1>8, <4>1, <4>2, <4>3 DEF ClaimedElsewhere
      <4>4. CASE g # f
        BY <1>8, <4>2, <4>4
      <4> QED BY <4>3, <4>4
    <3> QED BY <3>1, <3>2
  <2> QED BY <1>8, <2>1, <2>2, <2>3 DEF Owned, Claimed
<1>12. Tracks'
  <2> SUFFICES ASSUME unseen = {}, NEW g \in Open \ Due', NEW x \in Sees(host.text, Pending, g)
               PROVE  Tracked(analysed, host.text, Found, x)
    BY <1>1, <1>3 DEF Tracks
  <2>0. x \in Files
    BY <1>2, SeesRoot
  <2>1. CASE g = f
    <3>1. x \in Reach(AllUses(host.text), f)
      BY <1>2, <1>5, <2>1, SeesWithin
    <3> QED BY <1>9, <3>1, TrackedIs
  <2>2. CASE g # f
    <3>1. Tracked(cache, host.text, Found, x)
      BY <1>4, <2>2 DEF ShownInv, Tracks
    <3> QED BY <1>9, <2>0, <3>1
  <2> QED BY <2>1, <2>2
<1>13. Told'
  <2> SUFFICES ASSUME unseen = {}, NEW g \in Open \ Due',
                      Reach(AllUses(host.text), g) \cap Pending = {}
               PROVE  Truthful(host, g, claims'[g], shown')
    BY <1>1, <1>3 DEF Told, Settled
  <2>0. g \in Files
    BY <1>2
  <2>1. CASE g = f
    <3>0. DOMAIN results \subseteq Files
      <4>1. DOMAIN results = ReportsOf(host, f)
        BY <1>10 DEF Truthful
      <4>2. Reach(AllUses(host.text), f) \subseteq Files
        BY ReachType
      <4> QED BY <1>5, <4>1, <4>2 DEF ReportsOf
    <3>1. \A x \in DOMAIN results : shown'[x] = results[x]
      BY <1>7, <3>0
    <3>2. Truthful(host, f, DOMAIN results, shown')
      BY <1>10, <3>1 DEF Truthful
    <3> QED BY <1>8, <2>0, <2>1, <3>2
  <2>2. CASE g # f
    <3>1. Truthful(host, g, claims[g], shown)
      BY <1>4, <2>0, <2>2 DEF ShownInv, Told, Settled
    <3>2. \A x \in claims[g] : shown'[x] = Judgement(x, host.text)
      <4> SUFFICES ASSUME NEW x \in claims[g] PROVE shown'[x] = Judgement(x, host.text)
        OBVIOUS
      <4>1. x \in Files /\ ClaimedElsewhere(f, x)
        BY <2>0, <2>2, <3>1, ReachType DEF Truthful, ReportsOf, ClaimedElsewhere
      <4>2. CASE x \in DOMAIN results
        BY <1>7, <1>10, <4>1, <4>2 DEF Truthful
      <4>3. CASE x \notin DOMAIN results
        BY <1>7, <3>1, <4>1, <4>3 DEF Truthful
      <4> QED BY <4>2, <4>3
    <3> QED BY <1>8, <2>0, <2>2, <3>1, <3>2 DEF Truthful
  <2> QED BY <2>1, <2>2
<1> QED BY <1>11, <1>12, <1>13 DEF ShownInv

LEMMA CountedHolds == Spec => []Counted
<1>1. Init => Counted
  BY DEF Init, Counted
<1>2. Counted /\ [Next]_vars => Counted'
  <2> SUFFICES ASSUME Counted, [Next]_vars PROVE Counted'
    OBVIOUS
  <2>1. ASSUME NEW what \in {"edits", "saves", "requests", "moves"}, NEW bound, Used(what, bound)
        PROVE  Counted'
    BY <2>1 DEF Used, Counted
  <2>2. CASE \E f \in Files, t \in Texts : Store(f, t)
    BY <2>1, <2>2 DEF Store
  <2>3. CASE \E f \in Files : Close(f) \/ \E t \in Versions : ChangeContent(f, t)
    BY <2>1, <2>3 DEF Close, ChangeContent
  <2>4. CASE \E f \in Files : RequestAnalysis(f) \/ RequestComponent(f)
    BY <2>1, <2>4 DEF RequestAnalysis, RequestComponent
  <2>5. CASE \E inside \in FolderSets : SetFolders(inside)
    BY <2>1, <2>5 DEF SetFolders
  <2>6. CASE \/ TimerFires \/ AnalyseNext \/ Tick \/ UNCHANGED vars
             \/ \E f \in Files : WatchedFile(f)
    BY <2>6 DEF Counted, TimerFires, AnalyseNext, Tick, WatchedFile, vars, svars
  <2> QED BY <2>2, <2>3, <2>4, <2>5, <2>6 DEF Next
<1> QED BY <1>1, <1>2, PTL DEF Spec

LEMMA ShownInit == Init => ShownInv
<1> SUFFICES ASSUME Init PROVE ShownInv
  OBVIOUS
<1>1. Open = {} /\ Pending = {} /\ todo = <<>>
  BY DEF Init, Open, host, Host, Pending
<1>2. Due = {}
  BY <1>1 DEF Due
<1> QED BY <1>1, <1>2 DEF Init, ShownInv, Owned, Tracks, Told, Settled, Claimed

LEMMA ShownStep == Ready /\ ShownInv /\ [Next]_vars /\ [KeepsDocuments]_vars => ShownInv'
<1> SUFFICES ASSUME Ready, ShownInv, [Next]_vars, [KeepsDocuments]_vars PROVE ShownInv'
  OBVIOUS
<1>1. ASSUME NEW f \in Files, NEW t \in Texts, Store(f, t) PROVE ShownInv'
  BY <1>1, ShownStore
<1>2. ASSUME NEW f \in Files, WatchedFile(f) PROVE ShownInv'
  BY <1>2, ShownWatched
<1>3. ASSUME NEW f \in Files, NEW t \in Versions, ChangeContent(f, t) PROVE ShownInv'
  BY <1>3, ShownContent
<1>4. ASSUME NEW f \in Files, Close(f) PROVE ShownInv'
  BY <1>4, ShownClose
<1>5. ASSUME NEW f \in Files, RequestAnalysis(f) \/ RequestComponent(f) PROVE ShownInv'
  BY <1>5, ShownRequests
<1>6. ASSUME NEW inside \in FolderSets, SetFolders(inside) PROVE ShownInv'
  <2>1. counts'.moves # counts.moves
    <3>1. counts.moves \in Nat /\ counts' = [counts EXCEPT !["moves"] = @ + 1]
      BY <1>6 DEF SetFolders, Used, Ready, Counted
    <3>2. counts'.moves = counts.moves + 1
      BY <3>1 DEF Ready, Counted
    <3> QED BY <3>1, <3>2
  <2>2. KeepsDocuments
    BY <2>1 DEF vars, svars
  <2> QED BY <1>6, <2>2, ShownFolders
<1>7. CASE Tick \/ UNCHANGED vars
  BY <1>7, ShownTick
<1> QED BY <1>1, <1>2, <1>3, <1>4, <1>5, <1>6, <1>7, ShownTimer, ShownAnalysis DEF Next

\* Wherever edits, saves, closings, requests and changes of folders that keep
\* what is open reached lead, once the watcher has spoken and nothing is
\* pending the client shows what is true: publishAnalysis wiped nothing that an
\* importer still reports and left nothing that nobody does, and no importer was
\* left out of a batch for want of an edge.
THEOREM WhatIsShownIsTrue == Spec /\ [][KeepsDocuments]_vars => []ShownIsTrue
<1>1. Ready /\ ShownInv => ShownIsTrue
  <2> SUFFICES ASSUME Ready, ShownInv, Idle, Pending = {}, unseen = {}, NEW f \in Files
               PROVE  shown[f] = IF f \in Open
                                    \/ /\ host.text[f] # Missing
                                       /\ \E g \in Open : f \in DOMAIN Judgement(g, host.text)
                                 THEN Judgement(f, host.text) ELSE None
    BY DEF ShownIsTrue
  <2>1. host.open = Open /\ Open \in SUBSET Files
    BY HostNow
  <2>2. ASSUME NEW g \in Open PROVE g \in Files /\ Truthful(host, g, claims[g], shown)
    <3>1. g \in Files /\ Due = {}
      BY <2>1, DueIsOfFiles DEF Ready
    <3> QED BY <3>1 DEF ShownInv, Told, Settled
  <2>3. \A g \in Files : DOMAIN Judgement(g, host.text) = Reach(AllUses(host.text), g)
    BY DEF Judgement, AllUses
  <2>4. CASE f \in Open
    <3>1. f \in claims[f]
      BY <2>2, <2>4 DEF Truthful, ReportsOf
    <3> QED BY <2>2, <2>4, <3>1 DEF Truthful
  <2>5. CASE f \notin Open /\ \E g \in Open : f \in claims[g]
    <3>1. PICK g \in Open : f \in claims[g]
      BY <2>5
    <3>2. /\ shown[f] = Judgement(f, host.text)
          /\ f \in Reach(AllUses(host.text), g) /\ host.text[f] # Missing
      BY <2>2, <2>5, <3>1 DEF Truthful, ReportsOf
    <3> QED BY <2>1, <2>3, <3>2
  <2>6. CASE f \notin Open /\ \A g \in Open : f \notin claims[g]
    <3>1. shown[f] = None
      BY <2>6 DEF ShownInv, Owned
    <3>2. \A g \in Open : f \in DOMAIN Judgement(g, host.text) => host.text[f] = Missing
      BY <2>1, <2>2, <2>3, <2>6 DEF Truthful, ReportsOf
    <3> QED BY <2>6, <3>1, <3>2
  <2> QED BY <2>4, <2>5, <2>6
<1>2. Spec => []Ready
  BY InvHolds, CountedHolds, PTL DEF Ready
<1>3. Ready /\ ShownInv /\ [Next]_vars /\ [KeepsDocuments]_vars => ShownInv'
  BY ShownStep
<1>4. Spec /\ []Ready /\ [][KeepsDocuments]_vars => []ShownInv
  BY ShownInit, <1>3, PTL DEF Spec
<1> QED BY <1>1, <1>2, <1>4, PTL

=============================================================================
