--------------------------- MODULE PluginCompiler ---------------------------
(* The compiler inside a host's build: client/src/plugin-core.ts and the   *)
(* two plugins in front of it.  A host asks for an Essence file through     *)
(* two doors, its wrapper and its emitted Module; a compile of one file     *)
(* emits the Modules of its whole graph, is remembered as its promise, and  *)
(* is forgotten when a watcher speaks.  Declarations are written beside     *)
(* the sources, and what a Module was built from is handed to the watcher   *)
(* once they are.  A compile reads its graph where it starts and awaits     *)
(* nothing but promises: the host's own callbacks wait until it has ended,  *)
(* other loads of the same turn do not.                                     *)
(*                                                                          *)
(* A text is its version, and what is emitted for a file or said of it is   *)
(* the versions it was made from.                                           *)
EXTENDS Integers, FiniteSets

CONSTANTS
  Files,        \* the .es files below the root
  Versions,     \* of a file's text
  Imports,      \* what each version of each file imports
  Broken,       \* the <<file, version>> pairs that report an error
  Entries,      \* the files a host imports as they are
  RawDoors,     \* ... and those it imports with ?raw
  Initial,      \* the texts a build may begin with
  Hosts,        \* how the host runs
  Loads,        \* the names of loads underway at once
  MaxEdits,     \* how often a file is saved
  None

ASSUME FilesAssumption == IsFiniteSet(Files)
ASSUME ImportsAssumption == Imports \in [Files -> [Versions -> SUBSET Files]]
ASSUME BrokenAssumption == Broken \subseteq Files \X Versions
ASSUME InitialAssumption == Initial \subseteq [Files -> Versions]
ASSUME DoorsAssumption == Entries \subseteq Files /\ RawDoors \subseteq Files
ASSUME HostsAssumption ==
  Hosts \subseteq
    [plugin : {"vite", "esbuild"}, serving : BOOLEAN, declares : BOOLEAN]
ASSUME MaxEditsAssumption == MaxEdits \in Nat

VARIABLES
  host,        \* the plugin, and whether its host serves or builds
  text,        \* the version of each file on disk
  edits,       \* how many saves there have been
  pending,     \* the compile remembered for each entry
  served,      \* the Module emitted for each file
  prelude,     \* whether any compile has emitted the prelude
  loads,       \* the loads underway
  held,        \* what the host holds, by door
  watches,     \* the files it was told to watch, by door
  unnoticed,   \* the saves its watcher has still to report
  declared,    \* the declarations on disk, by door
  compiled,    \* history: compiles of each entry since the memory was cleared
  refused,     \* history: whether a Module was missing that a compile owed
  crossed      \* history: the doors loaded again while a load of theirs went on

vars == <<host, text, edits, pending, served, prelude, loads, held, watches,
          unnoticed, declared, compiled, refused, crossed>>

-----------------------------------------------------------------------------
\* What texts say.

Texts == [Files -> Versions]
Sources == UNION {[S -> Versions] : S \in SUBSET Files}

\* A file and everything it imports, directly or not.
ClosedUnder(S, texts) == \A f \in S : Imports[f][texts[f]] \subseteq S
Graph(f, texts) ==
  {g \in Files :
     \A S \in SUBSET Files : f \in S /\ ClosedUnder(S, texts) => g \in S}

\* What a file is emitted from, and described from.
MadeFrom(f, texts) == [g \in Graph(f, texts) |-> texts[g]]
Compiles(f, texts) == \A g \in Graph(f, texts) : <<g, texts[g]>> \notin Broken

Current(sources) == \A f \in DOMAIN sources : sources[f] = text[f]

-----------------------------------------------------------------------------
\* State.

Doors == {"wrapper", "raw"} \X Files
Wrapper(f) == <<"wrapper", f>>
Raw(f) == <<"raw", f>>
File(door) == door[2]

\* What watches a door's file before the plugin has named any other: the host
\* knows a wrapper by its path, and an emitted Module by no file at all.
OwnFile(door) == IF door[1] = "wrapper" THEN {File(door)} ELSE {}

Compile == [texts : Texts, settled : BOOLEAN]
Module == [from : Sources, files : SUBSET Files]
ASSUME NoneAssumption == None \notin Compile /\ None \notin Module
Load ==
  [door : Doors, at : {"waiting", "describing", "reading", "writing"},
   module : Module \cup {None}, described : Sources \cup {None},
   late : BOOLEAN, unheard : BOOLEAN]
Holding == [module : Module, described : Sources \cup {None}, unheard : BOOLEAN]

Underway == {l \in Loads : loads[l] # None}
Remembered == {f \in Files : pending[f] # None}
Settled(f) == f \in Remembered /\ pending[f].settled
Failed(f) == ~Compiles(f, pending[f].texts)

\* Promises go on before any callback of the host or of the file system.
TurnIsOver ==
  /\ \A f \in Remembered : pending[f].settled
  /\ \A l \in Underway : loads[l].at \notin {"waiting", "describing"}

TypeOK ==
  /\ host \in Hosts
  /\ text \in Texts
  /\ edits \in 0 .. MaxEdits
  /\ pending \in [Files -> Compile \cup {None}]
  /\ served \in [Files -> Module \cup {None}]
  /\ prelude \in BOOLEAN
  /\ loads \in [Loads -> Load \cup {None}]
  /\ held \in [Doors -> Holding \cup {None}]
  /\ watches \in [Doors -> SUBSET Files]
  /\ unnoticed \in SUBSET Files
  /\ declared \in [Doors -> Sources \cup {None}]
  /\ compiled \in [Files -> Nat]
  /\ refused \in BOOLEAN
  /\ crossed \in SUBSET Doors

Init ==
  /\ host \in Hosts
  /\ text \in Initial
  /\ edits = 0
  /\ pending = [f \in Files |-> None]
  /\ served = [f \in Files |-> None]
  /\ prelude = FALSE
  /\ loads = [l \in Loads |-> None]
  /\ held = [d \in Doors |-> None]
  /\ watches = [d \in Doors |-> OwnFile(d)]
  /\ unnoticed = {}
  /\ declared = [d \in Doors |-> None]
  /\ compiled = [f \in Files |-> 0]
  /\ refused = FALSE
  /\ crossed = {}

-----------------------------------------------------------------------------
\* Compiles.

\* compile(f): what was started is waited for, anything else starts here, and
\* reads its graph here.
StartOrJoin(f) ==
  IF pending[f] # None
    THEN UNCHANGED <<pending, compiled>>
    ELSE /\ pending' = [pending EXCEPT ![f] = [texts |-> text, settled |-> FALSE]]
         /\ compiled' = [compiled EXCEPT ![f] = @ + 1]

\* The Modules a compile of f emits: one for each file of its graph.
Emitted(f, texts) ==
  [g \in Files |->
     IF g \in Graph(f, texts)
       THEN [from |-> MadeFrom(g, texts), files |-> Graph(f, texts)]
       ELSE served[g]]

\* A compile ends: it throws, or its Modules are kept for whoever asks.
Emit(f) ==
  /\ f \in Remembered /\ ~pending[f].settled
  /\ pending' = [pending EXCEPT ![f].settled = TRUE]
  /\ IF Failed(f)
       THEN UNCHANGED <<served, prelude>>
       ELSE /\ served' = Emitted(f, pending[f].texts)
            /\ prelude' = TRUE
  /\ UNCHANGED <<host, text, edits, loads, held, watches, unnoticed, declared,
                 compiled, refused, crossed>>

\* invalidate() when it forgot one of its two memories.
ForgetCompiles ==
  /\ pending' = [f \in Files |-> None]
  /\ compiled' = [f \in Files |-> 0]
  /\ UNCHANGED served
ForgetModules ==
  /\ served' = [f \in Files |-> None]
  /\ compiled' = [f \in Files |-> 0]
  /\ UNCHANGED pending

\* invalidate(): compiles and Modules go, the prelude is the same whoever emits
\* it.
Forget ==
  /\ pending' = [f \in Files |-> None]
  /\ served' = [f \in Files |-> None]
  /\ compiled' = [f \in Files |-> 0]

-----------------------------------------------------------------------------
\* Loads.

\* An entry is imported by the host's own code, an emitted Module by its
\* wrapper, by another, or with ?raw.
Wanted(door) ==
  IF door[1] = "wrapper" THEN File(door) \in Entries
  ELSE \/ File(door) \in RawDoors
       \/ held[Wrapper(File(door))] # None
       \/ \E g \in Files :
            /\ held[Raw(g)] # None
            /\ File(door) \in Imports[g][held[Raw(g)].module.from[g]]

NewLoad(door, at, module) ==
  [door |-> door, at |-> at, module |-> module, described |-> None,
   late |-> FALSE, unheard |-> FALSE]

\* A door a host imports with ?raw is described as well, which compiles it as an
\* entry: Vite's plugin does whether or not it then writes what it was told.
IsDescribed(door) ==
  File(door) \in RawDoors /\ (host.plugin = "vite" \/ host.declares)

\* A load is done: what it was made from is watched and its answer is kept,
\* unless the host has dropped the load meanwhile.
Answer(l, module, described) ==
  LET load == loads[l] IN
    /\ loads' = [loads EXCEPT ![l] = None]
    /\ IF load.late
         THEN UNCHANGED <<held, watches>>
         ELSE /\ held' = [held EXCEPT ![load.door] =
                   [module |-> module, described |-> described,
                    unheard |-> load.unheard]]
              /\ watches' = [watches EXCEPT ![load.door] =
                   OwnFile(load.door) \cup module.files]

\* What a load does with its description: write it where it is to be declared.
Declare(l, module, described) ==
  IF host.declares
    THEN /\ loads' = [loads EXCEPT ![l].at = "reading", ![l].module = module,
                                   ![l].described = described]
         /\ UNCHANGED <<held, watches>>
    ELSE Answer(l, module, described)

\* What a load of a raw door does with its Module.
Proceed(l, module) ==
  IF IsDescribed(loads[l].door)
    THEN /\ StartOrJoin(File(loads[l].door))
         /\ loads' = [loads EXCEPT ![l].at = "describing", ![l].module = module]
         /\ UNCHANGED <<held, watches>>
    ELSE /\ Answer(l, module, None)
         /\ UNCHANGED <<pending, compiled>>

\* load(id): a host shares a load underway unless it has dropped it.  A Module
\* that is kept is answered with at once, everything else waits for a compile.
Ask(l, door) ==
  /\ loads[l] = None /\ Wanted(door) /\ held[door] = None
  /\ \A m \in Underway : loads[m].door = door => loads[m].late
  /\ LET kept == door[1] = "raw" /\ served[File(door)] # None IN
       /\ loads' = [loads EXCEPT ![l] =
            NewLoad(door, "waiting", IF kept THEN served[File(door)] ELSE None)]
       /\ IF kept THEN UNCHANGED <<pending, compiled>>
          ELSE StartOrJoin(File(door))
  /\ crossed' = IF \E m \in Underway : loads[m].door = door
                  THEN crossed \cup {door} ELSE crossed \ {door}
  /\ UNCHANGED <<host, text, edits, served, prelude, unnoticed, declared, refused,
                 held, watches>>

Reject(l) ==
  /\ loads' = [loads EXCEPT ![l] = None]
  /\ UNCHANGED <<held, watches>>

\* A wrapper's compile has settled.
WrapperCompiled(l) ==
  /\ loads[l] # None /\ loads[l].at = "waiting" /\ loads[l].door[1] = "wrapper"
  /\ Settled(File(loads[l].door))
  /\ LET f == File(loads[l].door)  texts == pending[f].texts IN
       IF Failed(f) THEN Reject(l)
       ELSE Declare(l, [from |-> MadeFrom(f, texts), files |-> Graph(f, texts)],
                    MadeFrom(f, texts))
  /\ UNCHANGED <<host, text, edits, pending, served, prelude, unnoticed, declared,
                 compiled, refused, crossed>>

\* A raw door has its Module, at once or out of the compile it waited for.
ModuleServed(l) ==
  /\ loads[l] # None /\ loads[l].at = "waiting" /\ loads[l].door[1] = "raw"
  /\ LET f == File(loads[l].door)  kept == loads[l].module IN
       \/ /\ kept # None
          /\ Proceed(l, kept)
          /\ UNCHANGED refused
       \/ /\ kept = None /\ Settled(f)
          /\ \/ /\ Failed(f)
                /\ Reject(l)
                /\ UNCHANGED <<pending, compiled, refused>>
             \/ /\ ~Failed(f) /\ served[f] # None
                /\ Proceed(l, served[f])
                /\ UNCHANGED refused
             \/ /\ ~Failed(f) /\ served[f] = None
                /\ Reject(l)
                /\ refused' = TRUE
                /\ UNCHANGED <<pending, compiled>>
  /\ UNCHANGED <<host, text, edits, served, prelude, unnoticed, declared, crossed>>

\* ... and its description.
ModuleDescribed(l) ==
  /\ loads[l] # None /\ loads[l].at = "describing" /\ Settled(File(loads[l].door))
  /\ LET f == File(loads[l].door) IN
       IF Failed(f) THEN Reject(l)
       ELSE Declare(l, loads[l].module, MadeFrom(f, pending[f].texts))
  /\ UNCHANGED <<host, text, edits, pending, served, prelude, unnoticed, declared,
                 compiled, refused, crossed>>

\* writeDeclarations when it asked only whether there is a file, or not at all.
IsThere(l) == declared[loads[l].door] # None
NeverTheSame(l) == FALSE

\* writeDeclarations: written only where what is there says something else.
SaysTheSame(l) == declared[loads[l].door] = loads[l].described

ReadDeclarations(l) ==
  /\ TurnIsOver
  /\ loads[l] # None /\ loads[l].at = "reading"
  /\ IF SaysTheSame(l)
       THEN Answer(l, loads[l].module, loads[l].described)
       ELSE /\ loads' = [loads EXCEPT ![l].at = "writing"]
            /\ UNCHANGED <<held, watches>>
  /\ UNCHANGED <<host, text, edits, pending, served, prelude, unnoticed, declared,
                 compiled, refused, crossed>>

WriteDeclarations(l) ==
  /\ TurnIsOver
  /\ loads[l] # None /\ loads[l].at = "writing"
  /\ declared' = [declared EXCEPT ![loads[l].door] = loads[l].described]
  /\ Answer(l, loads[l].module, loads[l].described)
  /\ UNCHANGED <<host, text, edits, pending, served, prelude, unnoticed, compiled,
                 refused, crossed>>

-----------------------------------------------------------------------------
\* The host and its watcher.

Edit(f, v) ==
  /\ edits < MaxEdits
  /\ text[f] # v
  /\ text' = [text EXCEPT ![f] = v]
  /\ edits' = edits + 1
  /\ unnoticed' = unnoticed \cup {f}
  /\ UNCHANGED <<host, pending, served, prelude, loads, held, watches, declared,
                 compiled, refused, crossed>>

\* A load underway when a change is reported: dropped by a host that knows what
\* it is made from, and nobody's business where the plugin has not said so yet.
Overtaken(load, f) ==
  IF f \in watches[load.door] THEN [load EXCEPT !.late = TRUE]
  ELSE [load EXCEPT !.unheard = TRUE]

\* A server's watcher reports a change below its root.
WatchChange(f) ==
  /\ TurnIsOver
  /\ host.serving /\ f \in unnoticed
  /\ unnoticed' = unnoticed \ {f}
  /\ Forget
  /\ held' = [d \in Doors |-> IF f \in watches[d] THEN None ELSE held[d]]
  /\ loads' = [l \in Loads |->
                 IF loads[l] = None THEN None ELSE Overtaken(loads[l], f)]
  /\ UNCHANGED <<host, text, edits, prelude, watches, declared, refused, crossed>>

\* It reports every other file below the root as well, the declarations written
\* there among them, and a page may be loaded anew for it.
WatchOther ==
  /\ TurnIsOver
  /\ host.serving
  /\ Forget
  /\ \E reloaded \in {{}, Doors} :
       held' = [d \in Doors |-> IF d \in reloaded THEN None ELSE held[d]]
  /\ UNCHANGED <<host, text, edits, prelude, loads, watches, unnoticed, declared,
                 refused, crossed>>

\* A build starts over and loads everything again, once the last one has ended.
BuildStart ==
  /\ TurnIsOver
  /\ ~host.serving /\ Underway = {}
  /\ \E d \in Doors : held[d] # None /\ watches[d] \cap unnoticed # {}
  /\ Forget
  /\ unnoticed' = {}
  /\ held' = [d \in Doors |-> None]
  /\ watches' = [d \in Doors |-> OwnFile(d)]
  /\ UNCHANGED <<host, text, edits, prelude, loads, declared, refused, crossed>>

LoadStep(l) ==
  \/ \E d \in Doors : Ask(l, d)
  \/ WrapperCompiled(l) \/ ModuleServed(l) \/ ModuleDescribed(l)
  \/ ReadDeclarations(l) \/ WriteDeclarations(l)

Next ==
  \/ \E f \in Files : Emit(f)
  \/ \E l \in Loads : LoadStep(l)
  \/ \E f \in Files, v \in Versions : Edit(f, v)
  \/ \E f \in Files : WatchChange(f)
  \/ WatchOther
  \/ BuildStart

Spec == Init /\ [][Next]_vars

-----------------------------------------------------------------------------
\* Properties.

\* What the host holds for a door was made from what is on disk, or a change to
\* one of the files it was told to watch for that door is still to be reported
\* and will drop it: nothing a watcher has spoken about is served again out of
\* memory.  Not claimed of an answer whose files were named to the host only
\* after the change to one of them had been reported, while its declarations
\* were being written.
NothingStaleIsHeld ==
  \A d \in Doors :
    held[d] # None /\ ~held[d].unheard =>
      Current(held[d].module.from) \/ watches[d] \cap unnoticed # {}

\* Nor is what the declarations beside it say, unless a dropped load of the same
\* door was still on its way to write them.
DeclarationsTell ==
  \A d \in Doors \ crossed :
    /\ host.declares /\ held[d] # None /\ ~held[d].unheard
    /\ held[d].described # None
    =>
      /\ declared[d] = held[d].described
      /\ Current(declared[d]) \/ watches[d] \cap unnoticed # {}

WhatIsHeldIsCurrent == NothingStaleIsHeld /\ DeclarationsTell

\* Every compile that ended well left a Module for its entry, so no door is ever
\* answered "compiled without emitting"; a prelude is there for every Module that
\* imports it; and between two words of the watcher no entry is compiled twice,
\* however its two doors are asked for.
EveryDoorOpens ==
  /\ ~refused
  /\ \A f \in Files : held[Raw(f)] # None => prelude
  /\ \A f \in Files : compiled[f] <= 1

\* Declarations are not written for ever, although writing one is a change that
\* makes the server forget its compiles: once files are no longer saved, loads go
\* on and writes do not.
DeclarationsSettle == <>[][\A l \in Loads : ~WriteDeclarations(l)]_vars
=============================================================================
