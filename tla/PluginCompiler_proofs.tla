------------------------ MODULE PluginCompiler_proofs ------------------------
(***************************************************************************)
(* What holds of the plugin's compiler for any files, imports, hosts and    *)
(* number of loads.  Everything in memory is recent: a text it was made     *)
(* from is the one on disk, or its save is still to be reported, because    *)
(* the report clears the memory.  A load carries what was recent when it    *)
(* got it, and the host is marked where a report has passed it by; what is  *)
(* held for a door stays recent because the report of a file it was made    *)
(* from drops it, and that file is among those it was told to watch.        *)
(***************************************************************************)
EXTENDS PluginCompiler, TLAPS

-----------------------------------------------------------------------------
\* Graphs.

LEMMA GraphType ==
  ASSUME NEW f \in Files, NEW texts \in Texts
  PROVE  Graph(f, texts) \subseteq Files /\ f \in Graph(f, texts)
BY DEF Graph

\* A graph is closed under imports, and lies in every closed set with its entry.
LEMMA GraphClosed ==
  ASSUME NEW f \in Files, NEW texts \in Texts
  PROVE  ClosedUnder(Graph(f, texts), texts)
<1> USE ImportsAssumption DEF Texts
<1> SUFFICES ASSUME NEW g \in Graph(f, texts), NEW h \in Imports[g][texts[g]]
             PROVE  h \in Graph(f, texts)
  BY DEF ClosedUnder
<1>1. g \in Files BY GraphType
<1>2. h \in Files BY <1>1
<1>3. ASSUME NEW S \in SUBSET Files, f \in S, ClosedUnder(S, texts) PROVE h \in S
  <2>1. g \in S BY <1>3 DEF Graph
  <2> QED BY <2>1, <1>3 DEF ClosedUnder
<1> QED BY <1>2, <1>3 DEF Graph

LEMMA GraphLeast ==
  ASSUME NEW f \in Files, NEW texts \in Texts, NEW S \in SUBSET Files,
         f \in S, ClosedUnder(S, texts)
  PROVE  Graph(f, texts) \subseteq S
BY DEF Graph

LEMMA GraphWithin ==
  ASSUME NEW f \in Files, NEW texts \in Texts, NEW g \in Graph(f, texts)
  PROVE  g \in Files /\ Graph(g, texts) \subseteq Graph(f, texts)
<1>1. g \in Files /\ Graph(f, texts) \subseteq Files BY GraphType
<1>2. ClosedUnder(Graph(f, texts), texts) BY GraphClosed
<1> QED BY <1>1, <1>2, GraphLeast

LEMMA MadeFromType ==
  ASSUME NEW f \in Files, NEW texts \in Texts
  PROVE  /\ MadeFrom(f, texts) \in Sources
         /\ DOMAIN MadeFrom(f, texts) = Graph(f, texts)
         /\ \A g \in Graph(f, texts) : MadeFrom(f, texts)[g] = texts[g]
<1>1. Graph(f, texts) \in SUBSET Files BY GraphType
<1>2. MadeFrom(f, texts) \in [Graph(f, texts) -> Versions]
  BY <1>1 DEF MadeFrom, Texts
<1> QED BY <1>1, <1>2 DEF Sources, MadeFrom

\* Texts that make different things of a file differ in a file both reach.
LEMMA SameWhereBothReach ==
  ASSUME NEW f \in Files, NEW s \in Texts, NEW t \in Texts,
         \A g \in Graph(f, s) \cap Graph(f, t) : s[g] = t[g]
  PROVE  MadeFrom(f, s) = MadeFrom(f, t)
<1> DEFINE Both == Graph(f, s) \cap Graph(f, t)
<1>1. Both \in SUBSET Files /\ f \in Both BY GraphType
<1>2. ClosedUnder(Both, s) /\ ClosedUnder(Both, t)
  BY GraphClosed DEF ClosedUnder
<1> HIDE DEF Both
<1>3. Graph(f, s) \subseteq Both /\ Graph(f, t) \subseteq Both
  BY <1>1, <1>2, GraphLeast
<1>4. Graph(f, s) = Graph(f, t) BY <1>3 DEF Both
<1> QED BY <1>4 DEF MadeFrom

-----------------------------------------------------------------------------
\* The invariant.

\* Nothing a watcher has reported is older than what was made of it.
Recent(sources) ==
  \A g \in DOMAIN sources : sources[g] = text[g] \/ g \in unnoticed

Made(module, f) ==
  /\ \E t \in Texts : module.from = MadeFrom(f, t)
  /\ DOMAIN module.from \subseteq module.files
  /\ Recent(module.from)

\* A description of what the Module was made from, or of texts that differ from
\* those in a file the Module names and whose save is still to be reported.
Described(described, module) ==
  described = module.from \/ module.files \cap unnoticed # {}

MemoryInv ==
  \A f \in Files :
    /\ pending[f] # None => Recent(pending[f].texts)
    /\ served[f] # None => prelude /\ Made(served[f], f)
    /\ Settled(f) /\ ~Failed(f) => served[f] # None
    /\ compiled[f] <= 1
    /\ pending[f] = None => compiled[f] = 0

Carried(load) ==
  /\ IF load.at = "waiting" THEN load.described = None ELSE load.module # None
  /\ load.module # None => prelude
  /\ load.module # None /\ ~load.late /\ ~load.unheard =>
       /\ Made(load.module, File(load.door))
       /\ load.described # None => Described(load.described, load.module)

LoadsInv == \A l \in Underway : Carried(loads[l])

HeldInv ==
  \A d \in Doors : held[d] # None =>
    /\ prelude
    /\ ~held[d].unheard =>
         /\ DOMAIN held[d].module.from \subseteq watches[d]
         /\ Recent(held[d].module.from)
         /\ \/ held[d].described \in {None, held[d].module.from}
            \/ watches[d] \cap unnoticed # {}

\* A door that is not crossed has one load at a time and none while it is held,
\* so its declarations are those of what is held.
DoorsInv ==
  \A d \in Doors \ crossed :
    /\ \A l, m \in Underway : loads[l].door = d /\ loads[m].door = d => l = m
    /\ held[d] # None =>
         /\ \A l \in Underway : loads[l].door # d
         /\ host.declares /\ held[d].described # None
              => declared[d] = held[d].described

IInv == TypeOK /\ MemoryInv /\ LoadsInv /\ HeldInv /\ DoorsInv /\ ~refused

USE FilesAssumption, ImportsAssumption, DoorsAssumption, HostsAssumption,
    MaxEditsAssumption, NoneAssumption, InitialAssumption

LEMMA InitIInv == Init => IInv
<1> SUFFICES ASSUME Init PROVE IInv OBVIOUS
<1> USE DEF Init
<1>1. \A d \in Doors : OwnFile(d) \in SUBSET Files
  BY DEF Doors, OwnFile, File
<1>2. TypeOK
  <2>1. text \in Texts /\ edits \in 0 .. MaxEdits BY DEF Texts
  <2>2. watches \in [Doors -> SUBSET Files] BY <1>1
  <2>3. compiled \in [Files -> Nat] OBVIOUS
  <2> QED BY <2>1, <2>2, <2>3 DEF TypeOK
<1>3. Underway = {} BY DEF Underway
<1>4. MemoryInv BY DEF MemoryInv, Settled, Remembered
<1> QED BY <1>2, <1>3, <1>4 DEF IInv, LoadsInv, HeldInv, DoorsInv

-----------------------------------------------------------------------------
\* What one compile makes.

LEMMA CompileMakes ==
  ASSUME TypeOK, MemoryInv, NEW f \in Files, pending[f] # None,
         NEW g \in Graph(f, pending[f].texts),
         NEW m, m = [from |-> MadeFrom(g, pending[f].texts),
                     files |-> Graph(f, pending[f].texts)]
  PROVE  m \in Module /\ m # None /\ Made(m, g)
<1> DEFINE t == pending[f].texts
<1>1. t \in Texts /\ Recent(t) BY DEF TypeOK, Compile, MemoryInv
<1>2. g \in Files /\ Graph(g, t) \subseteq Graph(f, t) /\ Graph(f, t) \subseteq Files
  BY <1>1, GraphWithin, GraphType
<1>3. /\ MadeFrom(g, t) \in Sources /\ DOMAIN MadeFrom(g, t) = Graph(g, t)
      /\ \A h \in Graph(g, t) : MadeFrom(g, t)[h] = t[h]
  BY <1>1, <1>2, MadeFromType
<1>4. m \in Module BY <1>2, <1>3 DEF Module
<1>5. Recent(MadeFrom(g, t))
  <2> SUFFICES ASSUME NEW h \in Graph(g, t)
               PROVE  t[h] = text[h] \/ h \in unnoticed
    BY <1>3 DEF Recent
  <2>1. h \in DOMAIN t BY <1>1, <1>2 DEF Texts
  <2> QED BY <1>1, <2>1 DEF Recent
<1> QED BY <1>1, <1>2, <1>3, <1>4, <1>5 DEF Made

\* A description that is not of the Module itself is of later texts or of
\* earlier ones: a file both reach was saved, and nobody has said so yet.
LEMMA CompileDescribes ==
  ASSUME TypeOK, MemoryInv, NEW f \in Files, pending[f] # None,
         NEW m \in Module, Made(m, f)
  PROVE  Described(MadeFrom(f, pending[f].texts), m)
<1> DEFINE t == pending[f].texts
<1>1. t \in Texts /\ Recent(t) BY DEF TypeOK, Compile, MemoryInv
<1>2. PICK s \in Texts : m.from = MadeFrom(f, s) BY DEF Made
<1> HIDE DEF t
<1>3. CASE \A g \in Graph(f, s) \cap Graph(f, t) : s[g] = t[g]
  BY <1>1, <1>2, <1>3, SameWhereBothReach DEF Described, t
<1>4. ASSUME NEW g \in Graph(f, s) \cap Graph(f, t), s[g] # t[g]
      PROVE  Described(MadeFrom(f, t), m)
  <2>1. g \in Files BY <1>1, GraphType
  <2>2. g \in DOMAIN m.from /\ m.from[g] = s[g] BY <1>2, MadeFromType
  <2>3. m.from[g] = text[g] \/ g \in unnoticed BY <2>2 DEF Made, Recent
  <2>4. t[g] = text[g] \/ g \in unnoticed BY <1>1, <2>1 DEF Recent, Texts
  <2>5. g \in unnoticed BY <1>4, <2>2, <2>3, <2>4
  <2> QED BY <2>2, <2>5 DEF Described, Made
<1> QED BY <1>3, <1>4 DEF t

LEMMA StartKeepsMemory ==
  ASSUME TypeOK, MemoryInv, NEW f \in Files, StartOrJoin(f),
         UNCHANGED <<text, unnoticed, served, prelude>>
  PROVE  /\ MemoryInv'
         /\ pending' \in [Files -> Compile \cup {None}] /\ compiled' \in [Files -> Nat]
<1>1. CASE pending[f] # None
  <2>1. UNCHANGED <<pending, compiled>> BY <1>1 DEF StartOrJoin
  <2> QED BY <2>1 DEF TypeOK, MemoryInv, Settled, Remembered, Failed, Made, Recent
<1>2. CASE pending[f] = None
  <2> DEFINE c == [texts |-> text, settled |-> FALSE]
  <2>1. /\ pending' = [pending EXCEPT ![f] = c]
        /\ compiled' = [compiled EXCEPT ![f] = @ + 1]
    BY <1>2 DEF StartOrJoin
  <2>2. c \in Compile /\ c # None
    <3>1. text \in Texts BY DEF TypeOK
    <3>2. c \in Compile BY <3>1 DEF Compile
    <3> QED BY <3>2
  <2>3. compiled[f] = 0 BY <1>2 DEF MemoryInv
  <2>4. pending' \in [Files -> Compile \cup {None}] /\ compiled' \in [Files -> Nat]
    BY <2>1, <2>2, <2>3 DEF TypeOK
  <2> SUFFICES ASSUME NEW g \in Files
      PROVE  /\ pending'[g] # None => Recent(pending[g].texts)'
             /\ served'[g] # None => prelude' /\ Made(served[g], g)'
             /\ Settled(g)' /\ ~Failed(g)' => served'[g] # None
             /\ compiled'[g] <= 1
             /\ pending'[g] = None => compiled'[g] = 0
    BY <2>4 DEF MemoryInv
  <2>5. served'[g] # None => prelude' /\ Made(served[g], g)'
    BY DEF MemoryInv, Made, Recent
  <2>6. CASE g = f
    BY <2>1, <2>2, <2>3, <2>5, <2>6 DEF TypeOK, Recent, Settled, Remembered
  <2>7. CASE g # f
    <3>1. pending'[g] = pending[g] /\ compiled'[g] = compiled[g]
      BY <2>1, <2>7 DEF TypeOK
    <3> QED BY <2>5, <3>1 DEF MemoryInv, Recent, Settled, Remembered, Failed
  <2> QED BY <2>6, <2>7
<1> QED BY <1>1, <1>2

-----------------------------------------------------------------------------
\* What a load does with what it has.

LEMMA LoadType ==
  ASSUME TypeOK, NEW l \in Underway
  PROVE  /\ l \in Loads /\ loads[l] \in Load /\ loads[l].door \in Doors
         /\ File(loads[l].door) \in Files
         /\ OwnFile(loads[l].door) \in SUBSET Files
<1>1. l \in Loads /\ loads[l] \in Load BY DEF TypeOK, Underway
<1>2. loads[l].door \in Doors BY <1>1 DEF Load
<1> QED BY <1>1, <1>2 DEF Doors, File, OwnFile

\* Taking a load away disturbs nothing.
LEMMA RejectKeeps ==
  ASSUME IInv, NEW l \in Underway, Reject(l),
         UNCHANGED <<host, text, prelude, unnoticed, declared, crossed>>
  PROVE  /\ loads' \in [Loads -> Load \cup {None}]
         /\ LoadsInv' /\ HeldInv' /\ DoorsInv'
<1>1. /\ loads' = [loads EXCEPT ![l] = None] /\ UNCHANGED <<held, watches>>
  BY DEF Reject
<1>2. l \in Loads /\ loads \in [Loads -> Load \cup {None}]
  BY DEF IInv, TypeOK, Underway
<1>3. /\ loads' \in [Loads -> Load \cup {None}]
      /\ Underway' \subseteq Underway /\ \A m \in Underway' : loads'[m] = loads[m]
  BY <1>1, <1>2 DEF Underway
<1>4. LoadsInv'
  <2> SUFFICES ASSUME NEW m \in Underway' PROVE Carried(loads[m])' BY DEF LoadsInv
  <2> QED BY <1>3 DEF IInv, LoadsInv, Carried, Made, Described, Recent
<1>5. HeldInv' BY <1>1 DEF IInv, HeldInv, Recent
<1>6. DoorsInv' BY <1>1, <1>3 DEF IInv, DoorsInv
<1> QED BY <1>3, <1>4, <1>5, <1>6

\* A load goes on with what is recent.
LEMMA AdvanceKeeps ==
  ASSUME IInv, NEW l \in Underway, NEW new \in Load,
         loads' = [loads EXCEPT ![l] = new],
         new.door = loads[l].door, new.late = loads[l].late,
         new.unheard = loads[l].unheard, new.at # "waiting", new.module # None,
         prelude,
         ~new.late /\ ~new.unheard =>
           /\ Made(new.module, File(new.door))
           /\ new.described # None => Described(new.described, new.module),
         UNCHANGED <<host, text, prelude, unnoticed, held, watches, declared, crossed>>
  PROVE  /\ loads' \in [Loads -> Load \cup {None}]
         /\ LoadsInv' /\ HeldInv' /\ DoorsInv'
<1>1. l \in Loads /\ loads \in [Loads -> Load \cup {None}]
  BY DEF IInv, TypeOK, Underway
<1>2. /\ loads' \in [Loads -> Load \cup {None}]
      /\ Underway' \subseteq Underway /\ loads'[l] = new
      /\ \A m \in Underway' : m # l => loads'[m] = loads[m]
      /\ \A m \in Underway' : loads'[m].door = loads[m].door
  BY <1>1 DEF Underway
<1>3. LoadsInv'
  <2> SUFFICES ASSUME NEW m \in Underway' PROVE Carried(loads[m])' BY DEF LoadsInv
  <2>1. CASE m = l BY <1>2, <2>1 DEF Carried, Made, Described, Recent
  <2>2. CASE m # l BY <1>2, <2>2 DEF IInv, LoadsInv, Carried, Made, Described, Recent
  <2> QED BY <2>1, <2>2
<1>4. HeldInv' BY DEF IInv, HeldInv, Recent
<1>5. DoorsInv' BY <1>2 DEF IInv, DoorsInv
<1> QED BY <1>2, <1>3, <1>4, <1>5

\* A load is answered with what is recent: it is the last of its door, unless
\* that is crossed.
LEMMA AnswerKeeps ==
  ASSUME IInv, NEW l \in Underway, NEW m \in Module, NEW d \in Sources \cup {None},
         Answer(l, m, d), prelude,
         ~loads[l].late /\ ~loads[l].unheard =>
           /\ Made(m, File(loads[l].door))
           /\ d # None => Described(d, m),
         declared' \in {declared, [declared EXCEPT ![loads[l].door] = d]},
         host.declares /\ d # None => declared'[loads[l].door] = d,
         UNCHANGED <<host, text, prelude, unnoticed, crossed>>
  PROVE  /\ loads' \in [Loads -> Load \cup {None}]
         /\ held' \in [Doors -> Holding \cup {None}]
         /\ watches' \in [Doors -> SUBSET Files]
         /\ declared' \in [Doors -> Sources \cup {None}]
         /\ LoadsInv' /\ HeldInv' /\ DoorsInv'
<1> DEFINE door == loads[l].door
           kept == [module |-> m, described |-> d, unheard |-> loads[l].unheard]
<1>1. /\ l \in Loads /\ loads \in [Loads -> Load \cup {None}]
      /\ held \in [Doors -> Holding \cup {None}]
      /\ watches \in [Doors -> SUBSET Files]
      /\ declared \in [Doors -> Sources \cup {None}]
  BY DEF IInv, TypeOK, Underway
<1>2. /\ loads[l] \in Load /\ door \in Doors /\ File(door) \in Files
      /\ OwnFile(door) \in SUBSET Files
  BY LoadType DEF IInv
<1>3. /\ loads' = [loads EXCEPT ![l] = None]
      /\ loads' \in [Loads -> Load \cup {None}]
      /\ Underway' = Underway \ {l} /\ \A k \in Underway' : loads'[k] = loads[k]
  BY <1>1 DEF Answer, Underway
<1>4. kept \in Holding
  BY <1>2 DEF Holding, Load
<1>5. m.files \in SUBSET Files /\ m.from \in Sources BY DEF Module
<1>6. \/ loads[l].late /\ held' = held /\ watches' = watches
      \/ /\ ~loads[l].late
         /\ held' = [held EXCEPT ![door] = kept]
         /\ watches' = [watches EXCEPT ![door] = OwnFile(door) \cup m.files]
  BY DEF Answer
<1> HIDE DEF door, kept
<1>7. /\ held' \in [Doors -> Holding \cup {None}]
      /\ watches' \in [Doors -> SUBSET Files]
  <2>1. CASE loads[l].late BY <1>1, <1>6, <2>1
  <2>2. CASE ~loads[l].late
    <3>1. held' \in [Doors -> Holding \cup {None}] BY <1>1, <1>2, <1>4, <1>6, <2>2
    <3>2. OwnFile(door) \cup m.files \in SUBSET Files BY <1>2, <1>5 DEF door
    <3>3. watches' \in [Doors -> SUBSET Files] BY <1>1, <1>2, <1>6, <2>2, <3>2
    <3> QED BY <3>1, <3>3
  <2> QED BY <2>1, <2>2
<1>8. /\ declared' \in [Doors -> Sources \cup {None}]
      /\ \A e \in Doors : e # door => declared'[e] = declared[e]
      /\ \A e \in Doors : e # door => held'[e] = held[e] /\ watches'[e] = watches[e]
  BY <1>1, <1>2, <1>6 DEF door
<1>9. LoadsInv'
  <2> SUFFICES ASSUME NEW k \in Underway' PROVE Carried(loads[k])' BY DEF LoadsInv
  <2> QED BY <1>3 DEF IInv, LoadsInv, Carried, Made, Described, Recent
<1>10. HeldInv'
  <2> SUFFICES ASSUME NEW e \in Doors, held'[e] # None PROVE
        /\ prelude'
        /\ ~held'[e].unheard =>
             /\ DOMAIN held'[e].module.from \subseteq watches'[e]
             /\ Recent(held[e].module.from)'
             /\ \/ held'[e].described \in {None, held'[e].module.from}
                \/ watches'[e] \cap unnoticed' # {}
    BY DEF HeldInv
  <2>1. CASE e # door \/ loads[l].late
    <3>1. held'[e] = held[e] /\ watches'[e] = watches[e] BY <1>6, <1>8, <2>1
    <3> QED BY <3>1 DEF IInv, HeldInv, Recent
  <2>2. CASE e = door /\ ~loads[l].late
    <3>1. held'[e] = kept /\ watches'[e] = OwnFile(door) \cup m.files
      BY <1>1, <1>2, <1>6, <2>2
    <3>2. /\ held'[e].module = m /\ held'[e].described = d
          /\ held'[e].unheard = loads[l].unheard
      BY <3>1 DEF kept
    <3>3. SUFFICES ASSUME ~loads[l].unheard PROVE
            /\ DOMAIN m.from \subseteq watches'[e] /\ Recent(m.from)'
            /\ d \in {None, m.from} \/ watches'[e] \cap unnoticed' # {}
      BY <3>2 DEF Recent
    <3>4. Made(m, File(door)) /\ (d # None => Described(d, m))
      BY <2>2, <3>3 DEF door
    <3> QED BY <3>1, <3>4 DEF Made, Described, Recent
  <2> QED BY <2>1, <2>2
<1>11. DoorsInv'
  <2> SUFFICES ASSUME NEW e \in Doors \ crossed PROVE
        /\ \A j, k \in Underway' : loads'[j].door = e /\ loads'[k].door = e => j = k
        /\ held'[e] # None =>
             /\ \A k \in Underway' : loads'[k].door # e
             /\ host.declares /\ held'[e].described # None
                  => declared'[e] = held'[e].described
    BY DEF DoorsInv
  <2>1. \A j, k \in Underway' : loads'[j].door = e /\ loads'[k].door = e => j = k
    BY <1>3 DEF IInv, DoorsInv
  <2>2. CASE e # door
    BY <1>3, <1>8, <2>1, <2>2 DEF IInv, DoorsInv
  <2>3. CASE e = door
    <3>1. \A k \in Underway' : loads'[k].door # e
      BY <1>3, <2>3 DEF IInv, DoorsInv, door
    <3>2. held[e] = None BY <2>3 DEF IInv, DoorsInv, door
    <3>3. CASE loads[l].late
      BY <1>6, <2>1, <3>1, <3>2, <3>3
    <3>4. CASE ~loads[l].late
      <4>1. held'[e] = kept BY <1>1, <1>2, <1>6, <2>3, <3>4
      <4>2. held'[e].described = d BY <4>1 DEF kept
      <4> QED BY <2>1, <2>3, <3>1, <4>2 DEF door
    <3> QED BY <3>3, <3>4
  <2> QED BY <2>2, <2>3
<1> QED BY <1>3, <1>7, <1>8, <1>9, <1>10, <1>11

-----------------------------------------------------------------------------
\* Steps.

LEMMA MemoryStays ==
  ASSUME MemoryInv, UNCHANGED <<text, unnoticed, pending, served, prelude, compiled>>
  PROVE  MemoryInv'
BY DEF MemoryInv, Settled, Remembered, Failed, Made, Recent

LEMMA EmitStep == ASSUME IInv, NEW f \in Files, Emit(f) PROVE IInv'
<1> USE DEF Emit
<1> DEFINE t == pending[f].texts
<1>1. /\ TypeOK /\ MemoryInv /\ f \in Remembered /\ ~pending[f].settled
      /\ pending[f] # None
  BY DEF IInv, Remembered
<1>2. /\ pending[f] \in Compile /\ t \in Texts
      /\ pending' \in [Files -> Compile \cup {None}]
      /\ pending'[f] \in Compile /\ pending'[f].settled /\ pending'[f].texts = t
      /\ \A g \in Files : g # f => pending'[g] = pending[g]
  <2>1. pending \in [Files -> Compile \cup {None}] /\ pending[f] \in Compile
    BY <1>1 DEF TypeOK
  <2>2. t \in Texts /\ pending[f].settled \in BOOLEAN BY <2>1 DEF Compile
  <2>3. [pending[f] EXCEPT !.settled = TRUE] \in Compile BY <2>1 DEF Compile
  <2>4. pending'[f] = [pending[f] EXCEPT !.settled = TRUE] BY <2>1
  <2>5. pending'[f].settled /\ pending'[f].texts = t BY <2>1, <2>4 DEF Compile
  <2> QED BY <2>1, <2>2, <2>3, <2>4, <2>5
<1>3. f \in Graph(f, t) BY <1>2, GraphType
<1>4. \A g \in Files : pending'[g] # None => pending[g] # None /\ pending'[g].texts = pending[g].texts
  BY <1>1, <1>2
<1>5. CASE Failed(f)
  <2>1. served' = served /\ prelude' = prelude BY <1>5
  <2>2. MemoryInv'
    <3> SUFFICES ASSUME NEW g \in Files
        PROVE  /\ pending'[g] # None => Recent(pending[g].texts)'
               /\ served'[g] # None => prelude' /\ Made(served[g], g)'
               /\ Settled(g)' /\ ~Failed(g)' => served'[g] # None
               /\ compiled'[g] <= 1
               /\ pending'[g] = None => compiled'[g] = 0
      BY DEF MemoryInv
    <3>1. CASE g = f
      <4>1. Failed(g)' BY <1>2, <1>5, <3>1 DEF Failed
      <4>2. pending'[g] # None /\ Recent(pending[g].texts)'
        <5>1. pending'[g] # None BY <1>2, <3>1
        <5>2. Recent(t) BY <1>1 DEF MemoryInv
        <5> QED BY <1>2, <3>1, <5>1, <5>2 DEF Recent
      <4> QED BY <1>1, <2>1, <4>1, <4>2 DEF MemoryInv, Made, Recent
    <3>2. CASE g # f
      BY <1>1, <1>2, <2>1, <3>2 DEF MemoryInv, Settled, Remembered, Failed, Made, Recent
    <3> QED BY <3>1, <3>2
  <2>3. TypeOK' BY <1>1, <1>2, <2>1 DEF TypeOK
  <2>4. LoadsInv' BY <2>1 DEF IInv, LoadsInv, Carried, Underway, Made, Described, Recent
  <2>5. HeldInv' BY <2>1 DEF IInv, HeldInv, Recent
  <2>6. DoorsInv' BY DEF IInv, DoorsInv, Underway
  <2> QED BY <2>2, <2>3, <2>4, <2>5, <2>6 DEF IInv
<1>6. CASE ~Failed(f)
  <2>1. served' = Emitted(f, t) /\ prelude' = TRUE BY <1>6
  <2>2. \A g \in Files : \/ served'[g] = served[g] /\ g # f
                         \/ /\ served'[g] \in Module /\ served'[g] # None
                            /\ Made(served[g], g)'
    <3> SUFFICES ASSUME NEW g \in Files
        PROVE \/ served'[g] = served[g] /\ g # f
              \/ served'[g] \in Module /\ served'[g] # None /\ Made(served[g], g)'
      OBVIOUS
    <3>1. CASE g \in Graph(f, t)
      <4>1. served'[g] = [from |-> MadeFrom(g, t), files |-> Graph(f, t)]
        BY <2>1, <3>1 DEF Emitted
      <4>2. served'[g] \in Module /\ served'[g] # None /\ Made(served'[g], g)
        BY <1>1, <3>1, <4>1, CompileMakes
      <4> QED BY <4>2 DEF Made, Recent
    <3>2. CASE g \notin Graph(f, t) BY <1>3, <2>1, <3>2 DEF Emitted
    <3> QED BY <3>1, <3>2
  <2>3. served' \in [Files -> Module \cup {None}]
    <3>1. served' = [g \in Files |-> served'[g]] BY <2>1 DEF Emitted
    <3>2. \A g \in Files : served'[g] \in Module \cup {None} BY <1>1, <2>2 DEF TypeOK
    <3> QED BY <3>1, <3>2
  <2>4. MemoryInv'
    <3> SUFFICES ASSUME NEW g \in Files
        PROVE  /\ pending'[g] # None => Recent(pending[g].texts)'
               /\ served'[g] # None => prelude' /\ Made(served[g], g)'
               /\ Settled(g)' /\ ~Failed(g)' => served'[g] # None
               /\ compiled'[g] <= 1
               /\ pending'[g] = None => compiled'[g] = 0
      BY DEF MemoryInv
    <3>1. pending'[g] # None => Recent(pending[g].texts)'
      BY <1>1, <1>4 DEF MemoryInv, Recent
    <3>2. served'[g] # None => prelude' /\ Made(served[g], g)'
      BY <1>1, <2>1, <2>2 DEF MemoryInv, Made, Recent
    <3>3. CASE g = f
      BY <1>1, <1>2, <2>2, <3>1, <3>2, <3>3 DEF MemoryInv
    <3>4. CASE g # f
      BY <1>1, <1>2, <2>2, <3>1, <3>2, <3>4 DEF MemoryInv, Settled, Remembered, Failed
    <3> QED BY <3>3, <3>4
  <2>5. TypeOK' BY <1>1, <1>2, <2>1, <2>3 DEF TypeOK
  <2>6. LoadsInv' BY <2>1 DEF IInv, LoadsInv, Carried, Underway, Made, Described, Recent
  <2>7. HeldInv' BY <2>1 DEF IInv, HeldInv, Recent
  <2>8. DoorsInv' BY DEF IInv, DoorsInv, Underway
  <2> QED BY <2>4, <2>5, <2>6, <2>7, <2>8 DEF IInv
<1> QED BY <1>5, <1>6

LEMMA AskStep ==
  ASSUME IInv, NEW l \in Loads, NEW door \in Doors, Ask(l, door)
  PROVE  IInv'
<1> DEFINE f == File(door)
           kept == door[1] = "raw" /\ served[f] # None
           m == IF kept THEN served[f] ELSE None
           new == NewLoad(door, "waiting", m)
<1>1. TypeOK /\ MemoryInv /\ f \in Files BY DEF IInv, Doors, File
<1>2. /\ loads[l] = None /\ held[door] = None
      /\ loads' = [loads EXCEPT ![l] = new]
      /\ IF kept THEN UNCHANGED <<pending, compiled>> ELSE StartOrJoin(f)
      /\ crossed' = IF \E k \in Underway : loads[k].door = door
                      THEN crossed \cup {door} ELSE crossed \ {door}
      /\ UNCHANGED <<host, text, edits, served, prelude, unnoticed, declared, refused,
                     held, watches>>
  BY DEF Ask
<1>3. /\ MemoryInv'
      /\ pending' \in [Files -> Compile \cup {None}] /\ compiled' \in [Files -> Nat]
  <2>1. CASE kept BY <1>1, <1>2, <2>1, MemoryStays DEF TypeOK
  <2>2. CASE ~kept BY <1>1, <1>2, <2>2, StartKeepsMemory
  <2> QED BY <2>1, <2>2
<1>4. m \in Module \cup {None} /\ (m # None => prelude /\ Made(m, f))
  BY <1>1 DEF TypeOK, MemoryInv
<1> HIDE DEF m, kept
<1>5. /\ new \in Load /\ new.at = "waiting" /\ new.module = m /\ new.door = door
      /\ new.described = None
  BY <1>4 DEF NewLoad, Load
<1> HIDE DEF new
<1>6. /\ loads' \in [Loads -> Load \cup {None}]
      /\ Underway' \subseteq Underway \cup {l} /\ loads'[l] = new
      /\ \A k \in Underway : loads'[k] = loads[k]
  BY <1>1, <1>2, <1>5 DEF TypeOK, Underway
<1>7. TypeOK' BY <1>1, <1>2, <1>3, <1>6 DEF TypeOK
<1>8. LoadsInv'
  <2> SUFFICES ASSUME NEW k \in Underway' PROVE Carried(loads[k])' BY DEF LoadsInv
  <2>1. CASE k = l
    BY <1>2, <1>4, <1>5, <1>6, <2>1 DEF Carried, Made, Described, Recent
  <2>2. CASE k # l
    BY <1>2, <1>6, <2>2 DEF IInv, LoadsInv, Carried, Made, Described, Recent
  <2> QED BY <2>1, <2>2
<1>9. HeldInv' BY <1>2 DEF IInv, HeldInv, Recent
<1>10. DoorsInv'
  <2> SUFFICES ASSUME NEW e \in Doors \ crossed' PROVE
        /\ \A j, k \in Underway' : loads'[j].door = e /\ loads'[k].door = e => j = k
        /\ held'[e] # None =>
             /\ \A k \in Underway' : loads'[k].door # e
             /\ host'.declares /\ held'[e].described # None
                  => declared'[e] = held'[e].described
    BY DEF DoorsInv
  <2>1. CASE e = door
    <3>1. \A k \in Underway : loads[k].door # door BY <1>2, <2>1
    <3> QED BY <1>2, <1>6, <2>1, <3>1
  <2>2. CASE e # door
    <3>1. e \in Doors \ crossed BY <1>2, <2>2
    <3> QED BY <1>2, <1>5, <1>6, <2>2, <3>1 DEF IInv, DoorsInv
  <2> QED BY <2>1, <2>2
<1> QED BY <1>2, <1>3, <1>7, <1>8, <1>9, <1>10 DEF IInv

\* The wrapper's and the raw door's loads go on, or are answered.
LEMMA DeclareKeeps ==
  ASSUME IInv, NEW l \in Underway, NEW m \in Module, NEW d \in Sources,
         Declare(l, m, d), prelude,
         ~loads[l].late /\ ~loads[l].unheard =>
           Made(m, File(loads[l].door)) /\ Described(d, m),
         UNCHANGED <<host, text, edits, pending, served, prelude, unnoticed, declared,
                     compiled, refused, crossed>>
  PROVE  IInv'
<1>1. MemoryInv' BY MemoryStays DEF IInv
<1>2. CASE host.declares
  <2> DEFINE new == [loads[l] EXCEPT !.at = "reading", !.module = m, !.described = d]
  <2>1. /\ loads[l] \in Load /\ l \in Loads
        /\ loads \in [Loads -> Load \cup {None}]
    BY LoadType DEF IInv, TypeOK
  <2>2. loads' = [loads EXCEPT ![l] = new] /\ UNCHANGED <<held, watches>>
    BY <1>2, <2>1 DEF Declare
  <2>3. /\ new \in Load /\ new.door = loads[l].door /\ new.late = loads[l].late
        /\ new.unheard = loads[l].unheard /\ new.module = m /\ new.described = d
        /\ new.at = "reading"
    BY <2>1 DEF Load
  <2> HIDE DEF new
  <2>4. /\ loads' \in [Loads -> Load \cup {None}]
        /\ LoadsInv' /\ HeldInv' /\ DoorsInv'
    BY <2>2, <2>3, AdvanceKeeps
  <2>5. TypeOK' BY <2>2, <2>4 DEF IInv, TypeOK
  <2> QED BY <1>1, <2>4, <2>5 DEF IInv
<1>3. CASE ~host.declares
  <2>1. Answer(l, m, d) BY <1>3 DEF Declare
  <2>2. /\ loads' \in [Loads -> Load \cup {None}]
        /\ held' \in [Doors -> Holding \cup {None}]
        /\ watches' \in [Doors -> SUBSET Files]
        /\ LoadsInv' /\ HeldInv' /\ DoorsInv'
    BY <1>3, <2>1, AnswerKeeps
  <2>3. TypeOK' BY <2>2 DEF IInv, TypeOK
  <2> QED BY <1>1, <2>2, <2>3 DEF IInv
<1> QED BY <1>2, <1>3

LEMMA RejectStep ==
  ASSUME IInv, NEW l \in Underway, Reject(l),
         UNCHANGED <<host, text, edits, pending, served, prelude, unnoticed, declared,
                     compiled, refused, crossed>>
  PROVE  IInv'
<1>1. MemoryInv' BY MemoryStays DEF IInv
<1>2. /\ loads' \in [Loads -> Load \cup {None}]
      /\ LoadsInv' /\ HeldInv' /\ DoorsInv'
  BY RejectKeeps
<1>3. UNCHANGED <<held, watches>> BY DEF Reject
<1>4. TypeOK' BY <1>2, <1>3 DEF IInv, TypeOK
<1> QED BY <1>1, <1>2, <1>4 DEF IInv

LEMMA WrapperCompiledStep ==
  ASSUME IInv, NEW l \in Loads, WrapperCompiled(l) PROVE IInv'
<1> DEFINE f == File(loads[l].door)
           t == pending[f].texts
           m == [from |-> MadeFrom(f, t), files |-> Graph(f, t)]
<1>1. /\ l \in Underway /\ Settled(f)
      /\ IF Failed(f) THEN Reject(l) ELSE Declare(l, m, MadeFrom(f, t))
      /\ UNCHANGED <<host, text, edits, pending, served, prelude, unnoticed, declared,
                     compiled, refused, crossed>>
  BY DEF WrapperCompiled, Underway
<1>2. TypeOK /\ MemoryInv /\ f \in Files BY <1>1, LoadType DEF IInv
<1>3. CASE Failed(f) BY <1>1, <1>3, RejectStep
<1>4. CASE ~Failed(f)
  <2>1. pending[f] # None /\ prelude
    BY <1>1, <1>2, <1>4 DEF MemoryInv, Settled, Remembered
  <2>2. t \in Texts BY <1>2, <2>1 DEF TypeOK, Compile
  <2>3. f \in Graph(f, t) BY <1>2, <2>2, GraphType
  <2>4. m \in Module /\ Made(m, f) BY <1>2, <2>1, <2>3, CompileMakes
  <2>5. MadeFrom(f, t) \in Sources BY <1>2, <2>2, MadeFromType
  <2>6. Described(MadeFrom(f, t), m) BY DEF Described
  <2> QED BY <1>1, <1>4, <2>1, <2>4, <2>5, <2>6, DeclareKeeps
<1> QED BY <1>3, <1>4

\* A raw door's load with its Module is described, or answered.
LEMMA ProceedKeeps ==
  ASSUME IInv, NEW l \in Underway, NEW m \in Module, m # None, Proceed(l, m), prelude,
         ~loads[l].late /\ ~loads[l].unheard =>
           Made(m, File(loads[l].door)),
         loads[l].described = None,
         UNCHANGED <<host, text, edits, served, prelude, unnoticed, declared,
                     refused, crossed>>
  PROVE  IInv'
<1> DEFINE f == File(loads[l].door)
<1>1. TypeOK /\ MemoryInv /\ f \in Files BY LoadType DEF IInv
<1>2. CASE IsDescribed(loads[l].door)
  <2> DEFINE new == [loads[l] EXCEPT !.at = "describing", !.module = m]
  <2>1. /\ loads[l] \in Load /\ l \in Loads
        /\ loads \in [Loads -> Load \cup {None}]
    BY LoadType DEF IInv, TypeOK
  <2>2. /\ loads' = [loads EXCEPT ![l] = new] /\ UNCHANGED <<held, watches>>
        /\ StartOrJoin(f)
    BY <1>2, <2>1 DEF Proceed
  <2>3. /\ new \in Load /\ new.door = loads[l].door /\ new.late = loads[l].late
        /\ new.unheard = loads[l].unheard /\ new.module = m
        /\ new.at = "describing" /\ new.described = loads[l].described
    BY <2>1 DEF Load
  <2> HIDE DEF new
  <2>4. /\ loads' \in [Loads -> Load \cup {None}]
        /\ LoadsInv' /\ HeldInv' /\ DoorsInv'
    BY <2>2, <2>3, AdvanceKeeps
  <2>5. /\ MemoryInv'
        /\ pending' \in [Files -> Compile \cup {None}] /\ compiled' \in [Files -> Nat]
    BY <1>1, <2>2, StartKeepsMemory
  <2>6. TypeOK' BY <1>1, <2>2, <2>4, <2>5 DEF TypeOK
  <2> QED BY <2>4, <2>5, <2>6 DEF IInv
<1>3. CASE ~IsDescribed(loads[l].door)
  <2>1. Answer(l, m, None) /\ UNCHANGED <<pending, compiled>> BY <1>3 DEF Proceed
  <2>2. /\ loads' \in [Loads -> Load \cup {None}]
        /\ held' \in [Doors -> Holding \cup {None}]
        /\ watches' \in [Doors -> SUBSET Files]
        /\ LoadsInv' /\ HeldInv' /\ DoorsInv'
    BY <2>1, AnswerKeeps
  <2>3. MemoryInv' BY <2>1, MemoryStays DEF IInv
  <2>4. TypeOK' BY <1>1, <2>1, <2>2 DEF TypeOK
  <2> QED BY <2>2, <2>3, <2>4 DEF IInv
<1> QED BY <1>2, <1>3

LEMMA ModuleServedStep ==
  ASSUME IInv, NEW l \in Loads, ModuleServed(l) PROVE IInv'
<1> DEFINE f == File(loads[l].door)
           kept == loads[l].module
<1>1. /\ l \in Underway
      /\ loads[l].at = "waiting"
      /\ UNCHANGED <<host, text, edits, served, prelude, unnoticed, declared, crossed>>
  BY DEF ModuleServed, Underway
<1>2. TypeOK /\ MemoryInv /\ f \in Files /\ loads[l] \in Load /\ Carried(loads[l])
  BY <1>1, LoadType DEF IInv, LoadsInv
<1>3. CASE kept # None /\ Proceed(l, kept) /\ UNCHANGED refused
  <2>1. kept \in Module /\ prelude BY <1>2, <1>3 DEF Load, Carried
  <2> QED BY <1>1, <1>2, <1>3, <2>1, ProceedKeeps DEF Carried
<1>4. CASE /\ Settled(f) /\ Failed(f) /\ Reject(l)
           /\ UNCHANGED <<pending, compiled, refused>>
  BY <1>1, <1>4, RejectStep
<1>5. CASE /\ Settled(f) /\ ~Failed(f) /\ served[f] # None
           /\ Proceed(l, served[f]) /\ UNCHANGED refused
  <2>1. served[f] \in Module /\ prelude /\ Made(served[f], f)
    BY <1>2, <1>5 DEF TypeOK, MemoryInv
  <2> QED BY <1>1, <1>2, <1>5, <2>1, ProceedKeeps DEF Carried
<1>6. ~(Settled(f) /\ ~Failed(f) /\ served[f] = None) BY <1>2 DEF MemoryInv
<1> QED BY <1>3, <1>4, <1>5, <1>6 DEF ModuleServed


LEMMA ModuleDescribedStep ==
  ASSUME IInv, NEW l \in Loads, ModuleDescribed(l) PROVE IInv'
<1> DEFINE f == File(loads[l].door)
           t == pending[f].texts
           m == loads[l].module
<1>1. /\ l \in Underway /\ Settled(f) /\ loads[l].at = "describing"
      /\ IF Failed(f) THEN Reject(l) ELSE Declare(l, m, MadeFrom(f, t))
      /\ UNCHANGED <<host, text, edits, pending, served, prelude, unnoticed, declared,
                     compiled, refused, crossed>>
  BY DEF ModuleDescribed, Underway
<1>2. TypeOK /\ MemoryInv /\ f \in Files /\ loads[l] \in Load /\ Carried(loads[l])
  BY <1>1, LoadType DEF IInv, LoadsInv
<1>3. m \in Module /\ prelude BY <1>1, <1>2 DEF Carried, Load
<1>4. CASE Failed(f) BY <1>1, <1>4, RejectStep
<1>5. CASE ~Failed(f)
  <2>1. pending[f] # None BY <1>1 DEF Settled, Remembered
  <2>2. t \in Texts BY <1>2, <2>1 DEF TypeOK, Compile
  <2>3. MadeFrom(f, t) \in Sources BY <1>2, <2>2, MadeFromType
  <2>4. Made(m, f) => Described(MadeFrom(f, t), m)
    BY <1>2, <1>3, <2>1, CompileDescribes
  <2>5. ~loads[l].late /\ ~loads[l].unheard => Made(m, f)
    BY <1>2, <1>3 DEF Carried
  <2> QED BY <1>1, <1>3, <1>5, <2>3, <2>4, <2>5, DeclareKeeps
<1> QED BY <1>4, <1>5

LEMMA ReadDeclarationsStep ==
  ASSUME IInv, NEW l \in Loads, ReadDeclarations(l) PROVE IInv'
<1> DEFINE m == loads[l].module
           d == loads[l].described
<1>1. /\ l \in Underway /\ loads[l].at = "reading"
      /\ UNCHANGED <<host, text, edits, pending, served, prelude, unnoticed, declared,
                     compiled, refused, crossed>>
  BY DEF ReadDeclarations, Underway
<1>2. TypeOK /\ MemoryInv /\ loads[l] \in Load /\ Carried(loads[l]) /\ l \in Loads
  BY <1>1, LoadType DEF IInv, LoadsInv
<1>3. m \in Module /\ m # None /\ d \in Sources \cup {None} /\ prelude
  BY <1>1, <1>2 DEF Carried, Load
<1>4. MemoryInv' BY <1>1, <1>2, MemoryStays
<1>5. CASE SaysTheSame(l) /\ Answer(l, m, d)
  <2>1. declared'[loads[l].door] = d BY <1>1, <1>5 DEF SaysTheSame
  <2>2. /\ loads' \in [Loads -> Load \cup {None}]
        /\ held' \in [Doors -> Holding \cup {None}]
        /\ watches' \in [Doors -> SUBSET Files]
        /\ LoadsInv' /\ HeldInv' /\ DoorsInv'
    BY <1>1, <1>2, <1>3, <1>5, <2>1, AnswerKeeps DEF Carried
  <2>3. TypeOK' BY <1>1, <1>2, <2>2 DEF TypeOK
  <2> QED BY <1>1, <1>4, <2>2, <2>3 DEF IInv
<1>6. CASE /\ loads' = [loads EXCEPT ![l].at = "writing"]
           /\ UNCHANGED <<held, watches>>
  <2> DEFINE new == [loads[l] EXCEPT !.at = "writing"]
  <2>1. loads' = [loads EXCEPT ![l] = new] BY <1>2, <1>6 DEF TypeOK
  <2>2. /\ new \in Load /\ new.door = loads[l].door /\ new.late = loads[l].late
        /\ new.unheard = loads[l].unheard /\ new.module = m /\ new.described = d
        /\ new.at = "writing"
    BY <1>2 DEF Load
  <2> HIDE DEF new
  <2>3. ~new.late /\ ~new.unheard =>
          /\ Made(new.module, File(new.door))
          /\ new.described # None => Described(new.described, new.module)
    BY <1>2, <1>3, <2>2 DEF Carried
  <2>4. /\ loads' \in [Loads -> Load \cup {None}]
        /\ LoadsInv' /\ HeldInv' /\ DoorsInv'
    <3>1. new.at # "waiting" /\ new.module # None BY <1>3, <2>2
    <3> QED BY <1>1, <1>3, <1>6, <2>1, <2>2, <2>3, <3>1, AdvanceKeeps
  <2>5. TypeOK' BY <1>1, <1>2, <1>6, <2>4 DEF TypeOK
  <2> QED BY <1>1, <1>4, <2>4, <2>5 DEF IInv
<1> QED BY <1>5, <1>6 DEF ReadDeclarations

LEMMA WriteDeclarationsStep ==
  ASSUME IInv, NEW l \in Loads, WriteDeclarations(l) PROVE IInv'
<1> DEFINE m == loads[l].module
           d == loads[l].described
<1>1. /\ l \in Underway /\ loads[l].at = "writing" /\ Answer(l, m, d)
      /\ declared' = [declared EXCEPT ![loads[l].door] = d]
      /\ UNCHANGED <<host, text, edits, pending, served, prelude, unnoticed,
                     compiled, refused, crossed>>
  BY DEF WriteDeclarations, Underway
<1>2. TypeOK /\ MemoryInv /\ loads[l] \in Load /\ Carried(loads[l])
      /\ loads[l].door \in Doors
  BY <1>1, LoadType DEF IInv, LoadsInv
<1>3. m \in Module /\ d \in Sources \cup {None} /\ prelude
  BY <1>1, <1>2 DEF Carried, Load
<1>4. MemoryInv' BY <1>1, <1>2, MemoryStays
<1>5. declared'[loads[l].door] = d BY <1>1, <1>2 DEF TypeOK
<1>6. /\ loads' \in [Loads -> Load \cup {None}]
      /\ held' \in [Doors -> Holding \cup {None}]
      /\ watches' \in [Doors -> SUBSET Files]
      /\ declared' \in [Doors -> Sources \cup {None}]
      /\ LoadsInv' /\ HeldInv' /\ DoorsInv'
  BY <1>1, <1>2, <1>3, <1>5, AnswerKeeps DEF Carried
<1>7. TypeOK' BY <1>1, <1>2, <1>6 DEF TypeOK
<1> QED BY <1>1, <1>4, <1>6, <1>7 DEF IInv

\* What was recent before a save is recent after it: its report is to come.
LEMMA SaveKeepsRecent ==
  ASSUME TypeOK, NEW f \in Files, NEW v \in Versions, Edit(f, v), NEW sources,
         DOMAIN sources \subseteq Files, Recent(sources)
  PROVE  Recent(sources)'
<1>1. /\ text' = [text EXCEPT ![f] = v] /\ unnoticed' = unnoticed \cup {f}
      /\ text \in [Files -> Versions]
  BY DEF Edit, TypeOK, Texts
<1>2. \A g \in Files : text'[g] = text[g] \/ g \in unnoticed' BY <1>1
<1> QED BY <1>1, <1>2 DEF Recent

LEMMA SourcesWithin ==
  ASSUME NEW sources \in Sources PROVE DOMAIN sources \subseteq Files
BY DEF Sources

LEMMA EditStep ==
  ASSUME IInv, NEW f \in Files, NEW v \in Versions, Edit(f, v) PROVE IInv'
<1>1. /\ edits < MaxEdits /\ text' = [text EXCEPT ![f] = v] /\ edits' = edits + 1
      /\ unnoticed' = unnoticed \cup {f}
      /\ UNCHANGED <<host, pending, served, prelude, loads, held, watches, declared,
                     compiled, refused, crossed>>
  BY DEF Edit
<1>2. TypeOK BY DEF IInv
<1>3. TypeOK'
  <2>1. text' \in Texts BY <1>1, <1>2 DEF TypeOK, Texts
  <2>2. edits' \in 0 .. MaxEdits BY <1>1, <1>2 DEF TypeOK
  <2>3. unnoticed' \in SUBSET Files BY <1>1, <1>2 DEF TypeOK
  <2> QED BY <1>1, <1>2, <2>1, <2>2, <2>3 DEF TypeOK
<1>4. ASSUME NEW m \in Module, NEW g, Made(m, g) PROVE Made(m, g)'
  <2>1. DOMAIN m.from \subseteq Files BY SourcesWithin DEF Module
  <2> QED BY <1>2, <1>4, <2>1, SaveKeepsRecent DEF Made
<1>5. MemoryInv'
  <2> SUFFICES ASSUME NEW g \in Files
      PROVE  /\ pending'[g] # None => Recent(pending[g].texts)'
             /\ served'[g] # None => prelude' /\ Made(served[g], g)'
             /\ Settled(g)' /\ ~Failed(g)' => served'[g] # None
             /\ compiled'[g] <= 1
             /\ pending'[g] = None => compiled'[g] = 0
    BY DEF MemoryInv
  <2>1. pending'[g] # None => Recent(pending[g].texts)'
    <3> SUFFICES ASSUME pending[g] # None PROVE Recent(pending[g].texts)'
      BY <1>1
    <3>1. pending[g].texts \in Texts BY <1>2 DEF TypeOK, Compile
    <3>2. Recent(pending[g].texts) BY DEF IInv, MemoryInv
    <3>3. Recent(pending[g].texts) => pending'[g].texts = pending[g].texts BY <1>1
    <3> QED BY <1>1, <1>2, <3>1, <3>2, SaveKeepsRecent DEF Texts, Recent
  <2>2. served'[g] # None => prelude' /\ Made(served[g], g)'
    <3> SUFFICES ASSUME served[g] # None PROVE prelude' /\ Made(served[g], g)'
      BY <1>1
    <3>1. served[g] \in Module /\ prelude /\ Made(served[g], g)
      BY <1>2 DEF TypeOK, IInv, MemoryInv
    <3> QED BY <1>1, <1>4, <3>1 DEF Made, Recent
  <2> QED BY <1>1, <2>1, <2>2 DEF IInv, MemoryInv, Settled, Remembered, Failed
<1>6. LoadsInv'
  <2> SUFFICES ASSUME NEW l \in Underway PROVE Carried(loads[l])'
    BY <1>1 DEF LoadsInv, Underway
  <2>1. loads[l] \in Load /\ Carried(loads[l]) /\ loads' = loads /\ prelude' = prelude
    BY <1>1, <1>2, LoadType DEF IInv, LoadsInv
  <2>2. loads[l].module \in Module \cup {None} BY <2>1 DEF Load
  <2>3. ASSUME loads[l].module # None, ~loads[l].late, ~loads[l].unheard
        PROVE  /\ Made(loads[l].module, File(loads[l].door))'
               /\ loads[l].described # None
                    => Described(loads[l].described, loads[l].module)'
    <3>1. Made(loads[l].module, File(loads[l].door)) BY <2>1, <2>3 DEF Carried
    <3>2. Made(loads[l].module, File(loads[l].door))'
      BY <1>1, <1>4, <2>2, <2>3, <3>1 DEF Made, Recent
    <3> QED BY <1>1, <2>1, <2>3, <3>2 DEF Carried, Described
  <2> QED BY <2>1, <2>3 DEF Carried
<1>7. HeldInv'
  <2> SUFFICES ASSUME NEW d \in Doors, held[d] # None PROVE
        /\ prelude'
        /\ ~held'[d].unheard =>
             /\ DOMAIN held'[d].module.from \subseteq watches'[d]
             /\ Recent(held[d].module.from)'
             /\ \/ held'[d].described \in {None, held'[d].module.from}
                \/ watches'[d] \cap unnoticed' # {}
    BY <1>1 DEF HeldInv
  <2>1. held[d].module.from \in Sources BY <1>2 DEF TypeOK, Holding, Module
  <2>2. DOMAIN held[d].module.from \subseteq Files BY <2>1, SourcesWithin
  <2>3. Recent(held[d].module.from) => Recent(held[d].module.from)'
    <3>1. ASSUME NEW s, s = held[d].module.from, Recent(s) PROVE Recent(s)'
      BY <1>2, <2>2, <3>1, SaveKeepsRecent
    <3> QED BY <1>1, <3>1 DEF Recent
  <2> QED BY <1>1, <2>3 DEF IInv, HeldInv
<1>8. DoorsInv' BY <1>1 DEF IInv, DoorsInv, Underway
<1> QED BY <1>1, <1>3, <1>5, <1>6, <1>7, <1>8 DEF IInv

LEMMA ForgetEmpties ==
  ASSUME TypeOK, Forget
  PROVE  /\ MemoryInv'
         /\ pending' \in [Files -> Compile \cup {None}]
         /\ served' \in [Files -> Module \cup {None}]
         /\ compiled' \in [Files -> Nat]
BY DEF Forget, MemoryInv, Settled, Remembered

\* A report drops what it is about and marks what it passes by.
LEMMA WatchChangeStep ==
  ASSUME IInv, NEW f \in Files, WatchChange(f) PROVE IInv'
<1>1. /\ Forget /\ unnoticed' = unnoticed \ {f}
      /\ held' = [d \in Doors |-> IF f \in watches[d] THEN None ELSE held[d]]
      /\ loads' = [l \in Loads |->
                     IF loads[l] = None THEN None ELSE Overtaken(loads[l], f)]
      /\ UNCHANGED <<host, text, edits, prelude, watches, declared, refused, crossed>>
  BY DEF WatchChange
<1>2. TypeOK BY DEF IInv
<1>3. MemoryInv' BY <1>1, <1>2, ForgetEmpties
<1>4. ASSUME NEW l \in Underway
      PROVE  /\ loads'[l] \in Load
             /\ loads'[l].door = loads[l].door /\ loads'[l].at = loads[l].at
             /\ loads'[l].module = loads[l].module
             /\ loads'[l].described = loads[l].described
             /\ loads'[l].late \/ loads'[l].unheard
  <2>1. l \in Loads /\ loads[l] \in Load /\ loads[l] # None
    BY <1>2, LoadType DEF Underway
  <2>2. loads'[l] = Overtaken(loads[l], f) BY <1>1, <2>1
  <2>3. \/ loads'[l] = [loads[l] EXCEPT !.late = TRUE]
        \/ loads'[l] = [loads[l] EXCEPT !.unheard = TRUE]
    BY <2>2 DEF Overtaken
  <2>4. CASE loads'[l] = [loads[l] EXCEPT !.late = TRUE] BY <2>1, <2>4 DEF Load
  <2>5. CASE loads'[l] = [loads[l] EXCEPT !.unheard = TRUE] BY <2>1, <2>5 DEF Load
  <2> QED BY <2>3, <2>4, <2>5
<1>5. loads' \in [Loads -> Load \cup {None}] /\ Underway' \subseteq Underway
  <2>1. \A l \in Loads : loads'[l] \in Load \cup {None}
    BY <1>1, <1>4 DEF Underway
  <2>2. loads' = [l \in Loads |-> loads'[l]] BY <1>1
  <2> QED BY <1>1, <1>4, <2>1, <2>2 DEF Underway
<1>6. TypeOK'
  <2>1. held' \in [Doors -> Holding \cup {None}] BY <1>1, <1>2 DEF TypeOK
  <2>2. unnoticed' \in SUBSET Files BY <1>1, <1>2 DEF TypeOK
  <2> QED BY <1>1, <1>2, <1>5, <2>1, <2>2, ForgetEmpties DEF TypeOK
<1>7. LoadsInv'
  <2> SUFFICES ASSUME NEW l \in Underway PROVE Carried(loads[l])'
    BY <1>5 DEF LoadsInv
  <2>1. Carried(loads[l]) BY DEF IInv, LoadsInv
  <2>2. loads'[l].late \/ loads'[l].unheard BY <1>4
  <2> QED BY <1>1, <1>4, <2>1, <2>2 DEF Carried
<1>8. HeldInv'
  <2> SUFFICES ASSUME NEW d \in Doors, held'[d] # None PROVE
        /\ prelude'
        /\ ~held'[d].unheard =>
             /\ DOMAIN held'[d].module.from \subseteq watches'[d]
             /\ Recent(held[d].module.from)'
             /\ \/ held'[d].described \in {None, held'[d].module.from}
                \/ watches'[d] \cap unnoticed' # {}
    BY DEF HeldInv
  <2>1. held'[d] = held[d] /\ f \notin watches[d] BY <1>1
  <2>2. \A g \in watches[d] : g \in unnoticed => g \in unnoticed' BY <1>1, <2>1
  <2> QED BY <1>1, <2>1, <2>2 DEF IInv, HeldInv, Recent
<1>9. DoorsInv'
  <2>1. \A d \in Doors : held'[d] # None => held'[d] = held[d] BY <1>1
  <2>2. \A l \in Underway' : l \in Underway /\ loads'[l].door = loads[l].door
    BY <1>4, <1>5
  <2> SUFFICES ASSUME NEW d \in Doors \ crossed PROVE
        /\ \A l, m \in Underway' : loads'[l].door = d /\ loads'[m].door = d => l = m
        /\ held'[d] # None =>
             /\ \A l \in Underway' : loads'[l].door # d
             /\ host.declares /\ held'[d].described # None
                  => declared[d] = held'[d].described
    BY <1>1 DEF DoorsInv
  <2>3. \A l, m \in Underway : loads[l].door = d /\ loads[m].door = d => l = m
    BY DEF IInv, DoorsInv
  <2>4. held[d] # None => \A l \in Underway : loads[l].door # d
    BY DEF IInv, DoorsInv
  <2>5. held[d] # None /\ host.declares /\ held[d].described # None
          => declared[d] = held[d].described
    BY DEF IInv, DoorsInv
  <2> QED BY <2>1, <2>2, <2>3, <2>4, <2>5
<1> QED BY <1>1, <1>3, <1>6, <1>7, <1>8, <1>9 DEF IInv

LEMMA WatchOtherStep == ASSUME IInv, WatchOther PROVE IInv'
<1>1. /\ Forget
      /\ UNCHANGED <<host, text, edits, prelude, loads, watches, unnoticed, declared,
                     refused, crossed>>
  BY DEF WatchOther
<1>2. PICK reloaded \in {{}, Doors} :
        held' = [d \in Doors |-> IF d \in reloaded THEN None ELSE held[d]]
  BY DEF WatchOther
<1>3. TypeOK BY DEF IInv
<1>4. /\ held' \in [Doors -> Holding \cup {None}]
      /\ \A d \in Doors : held'[d] # None => held'[d] = held[d]
  BY <1>2, <1>3 DEF TypeOK
<1>5. MemoryInv' BY <1>1, <1>3, ForgetEmpties
<1>6. TypeOK' BY <1>1, <1>3, <1>4, ForgetEmpties DEF TypeOK
<1>7. LoadsInv' BY <1>1 DEF IInv, LoadsInv, Underway, Carried, Made, Described, Recent
<1>8. HeldInv' BY <1>1, <1>4 DEF IInv, HeldInv, Recent
<1>9. DoorsInv' BY <1>1, <1>4 DEF IInv, DoorsInv, Underway
<1> QED BY <1>1, <1>5, <1>6, <1>7, <1>8, <1>9 DEF IInv

LEMMA BuildStartStep == ASSUME IInv, BuildStart PROVE IInv'
<1>1. /\ Underway = {} /\ Forget /\ unnoticed' = {}
      /\ held' = [d \in Doors |-> None]
      /\ watches' = [d \in Doors |-> OwnFile(d)]
      /\ UNCHANGED <<host, text, edits, prelude, loads, declared, refused, crossed>>
  BY DEF BuildStart
<1>2. TypeOK /\ Underway' = {} BY <1>1 DEF IInv, Underway
<1>3. MemoryInv' BY <1>1, <1>2, ForgetEmpties
<1>4. TypeOK'
  <2>1. \A d \in Doors : OwnFile(d) \in SUBSET Files BY DEF Doors, OwnFile, File
  <2>2. /\ watches' \in [Doors -> SUBSET Files]
        /\ held' \in [Doors -> Holding \cup {None}]
    BY <1>1, <2>1
  <2> QED BY <1>1, <1>2, <2>2, ForgetEmpties DEF TypeOK
<1> QED BY <1>1, <1>2, <1>3, <1>4 DEF IInv, LoadsInv, HeldInv, DoorsInv

LEMMA StutterStep == ASSUME IInv, UNCHANGED vars PROVE IInv'
BY DEF vars, IInv, TypeOK, MemoryInv, LoadsInv, HeldInv, DoorsInv, Settled, Remembered,
       Failed, Underway, Carried, Made, Described, Recent

LEMMA NextIInv == IInv /\ [Next]_vars => IInv'
<1> SUFFICES ASSUME IInv, [Next]_vars PROVE IInv' OBVIOUS
<1>1. ASSUME NEW f \in Files, Emit(f) PROVE IInv' BY <1>1, EmitStep
<1>2. ASSUME NEW l \in Loads, LoadStep(l) PROVE IInv'
  BY <1>2, AskStep, WrapperCompiledStep, ModuleServedStep, ModuleDescribedStep,
     ReadDeclarationsStep, WriteDeclarationsStep DEF LoadStep
<1>3. ASSUME NEW f \in Files, NEW v \in Versions, Edit(f, v) PROVE IInv'
  BY <1>3, EditStep
<1>4. ASSUME NEW f \in Files, WatchChange(f) PROVE IInv' BY <1>4, WatchChangeStep
<1>5. CASE WatchOther BY <1>5, WatchOtherStep
<1>6. CASE BuildStart BY <1>6, BuildStartStep
<1>7. CASE UNCHANGED vars BY <1>7, StutterStep
<1> QED BY <1>1, <1>2, <1>3, <1>4, <1>5, <1>6, <1>7 DEF Next

LEMMA Inductive == Spec => []IInv
BY InitIInv, NextIInv, PTL DEF Spec

-----------------------------------------------------------------------------
\* Theorems.

\* Every variable of the plugin's compiler and of its host keeps its type.
THEOREM TypeCorrect == Spec => []TypeOK
<1>1. IInv => TypeOK BY DEF IInv
<1> QED BY <1>1, Inductive, PTL

\* No door of the plugin is refused for a Module its compile did not leave
\* behind, no Module is held before the prelude it imports was emitted, and no
\* entry is compiled twice between two invalidations.
THEOREM DoorsOpen == Spec => []EveryDoorOpens
<1>1. IInv => EveryDoorOpens
  <2> SUFFICES ASSUME IInv PROVE EveryDoorOpens OBVIOUS
  <2>1. \A f \in Files : Raw(f) \in Doors BY DEF Raw, Doors
  <2> QED BY <2>1 DEF IInv, EveryDoorOpens, HeldInv, MemoryInv
<1> QED BY <1>1, Inductive, PTL

\* What a host holds of the plugin's answers, and the declarations beside it, are
\* what the files on disk say, or a watcher has still to speak of one of those
\* files and will drop them.
THEOREM HeldIsCurrent == Spec => []WhatIsHeldIsCurrent
<1>1. IInv => WhatIsHeldIsCurrent
  <2> SUFFICES ASSUME IInv PROVE WhatIsHeldIsCurrent OBVIOUS
  <2>1. ASSUME NEW d \in Doors, held[d] # None, ~held[d].unheard
        PROVE  Current(held[d].module.from) \/ watches[d] \cap unnoticed # {}
    <3>1. /\ DOMAIN held[d].module.from \subseteq watches[d]
          /\ Recent(held[d].module.from)
      BY <2>1 DEF IInv, HeldInv
    <3> QED BY <3>1 DEF Recent, Current
  <2>2. NothingStaleIsHeld BY <2>1 DEF NothingStaleIsHeld
  <2>3. DeclarationsTell
    <3> SUFFICES ASSUME NEW d \in Doors \ crossed, host.declares, held[d] # None,
                        ~held[d].unheard, held[d].described # None
                 PROVE  /\ declared[d] = held[d].described
                        /\ Current(declared[d]) \/ watches[d] \cap unnoticed # {}
      BY DEF DeclarationsTell
    <3>1. declared[d] = held[d].described BY DEF IInv, DoorsInv
    <3>2. \/ held[d].described = held[d].module.from
          \/ watches[d] \cap unnoticed # {}
      BY DEF IInv, HeldInv
    <3> QED BY <2>1, <3>1, <3>2
  <2> QED BY <2>2, <2>3 DEF WhatIsHeldIsCurrent
<1> QED BY <1>1, Inductive, PTL
=============================================================================
