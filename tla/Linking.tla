------------------------------- MODULE Linking -------------------------------
(***************************************************************************)
(* Linking one group of Modules (compiler/src/modules/link.ts) and the     *)
(* hoisting it is woven into (compiler/src/enricher/index.ts): imports are *)
(* offered between rounds in which the declarations of every Module of the *)
(* group are resolved, in order, until a round brings nothing new; what a  *)
(* `where` clause asks is read when somebody can answer it.                *)
(*                                                                         *)
(* A declaration is what resolving it needs: the names it `uses`, the      *)
(* Protocols of its `clauses`, the Namespace its predicate `asks`, the     *)
(* refined Types its Methods `take` and those its Properties' values are   *)
(* `weighed` against. A Type in scope is the place it was declared at, so  *)
(* what is written into it reaches everybody who holds it. Modules linked  *)
(* before the group have all their declarations in scope and publish only  *)
(* those. Builtins and Type Parameters are left out.                       *)
(*                                                                         *)
(* It is all synchronous. The agenda is what the code's loops have yet to  *)
(* do, and one entry of it is a step; programs differ, their runs do not.  *)
(***************************************************************************)
EXTENDS Naturals, FiniteSets, SequencesExt

CONSTANTS
  Modules,   \* canonical paths
  Names,     \* the identifiers of a program
  Programs,  \* what may be linked: a group in its order, the text of every Module
  None,      \* null, undefined
  Error      \* the Type that is reported about nowhere

Tables == {"members", "types", "protocols"}
DeclaredKind ==
  {"constant", "variable", "function", "namespace", "type", "choice", "protocol"}
Statements ==
  [name : Names, kind : DeclaredKind, uses : SUBSET (Tables \X Names), clauses : SUBSET Names,
   asks : Names \cup {None}, takes : SUBSET Names, weighed : SUBSET Names]
ImportEntries == [name : Names, from : Modules \cup {None}, as : Names]
ExportEntries == [name : Names, from : Modules \cup {None}]

\* A program is a finite set of files; only Namespaces have clauses, only
\* Aliases a predicate.
ASSUME ProgramsAssumption ==
  /\ IsFiniteSet(Modules)
  /\ \A linked \in Programs : linked.group \in Seq(Modules)
  /\ \A linked \in Programs : \A m \in Modules :
       /\ linked.text[m].declares \in Seq(Statements)
       /\ linked.text[m].imports \in Seq(ImportEntries)
       /\ DOMAIN linked.text[m].exports \subseteq Names
       /\ \A name \in DOMAIN linked.text[m].exports :
            linked.text[m].exports[name] \in ExportEntries
       /\ \A i \in DOMAIN linked.text[m].declares :
            LET declared == linked.text[m].declares[i]
            IN /\ declared.clauses # {} => declared.kind = "namespace"
               /\ declared.asks # None => declared.kind = "type"

ASSUME NothingIsNoPlace ==
  /\ None \notin Modules /\ None # Error
  /\ None \notin Modules \X Nat /\ Error \notin Modules \X Nat

VARIABLES
  program,     \* the group, in order, and the texts
  scope,       \* scope[<<m, table, name>>]: where what it holds was declared
  imports,     \* imports[m][k]: ImportBinding.state
  hoisted,     \* hoistedTypes
  conjuncts,   \* what has become of the predicate of a declaration
  woven,       \* the clauses whose bounds a Namespace's Methods carry
  predicates,  \* pendingPredicates
  waiting,     \* pendingNodes
  remaining,   \* remainingNodes
  seeded,      \* an import was bound since the round began
  agenda,      \* what the loop underway has yet to do
  stage,       \* which loop that is
  told         \* the Modules that have an error reported

vars == <<program, scope, imports, hoisted, conjuncts, woven, predicates, waiting,
          remaining, seeded, agenda, stage, told>>

-----------------------------------------------------------------------------
(* Texts.                                                                  *)

Group == ToSet(program.group)
Declares(m) == program.text[m].declares
Imports(m) == program.text[m].imports
Exports(m) == program.text[m].exports

Places == UNION {{m} \X DOMAIN Declares(m) : m \in Modules}
Declared(p) == Declares(p[1])[p[2]]

TableOf(kind) ==
  CASE kind \in {"type", "choice"} -> "types" [] kind = "protocol" -> "protocols"
    [] OTHER -> "members"
SlotOf(p) == <<p[1], TableOf(Declared(p).kind), Declared(p).name>>
Slots == Modules \X Tables \X Names

Hoists(p) == Declared(p).kind \notin {"constant", "variable"}
Refined(p) == Declared(p).asks # None

\* The places a Module declares a name at, and the first: the kind it has.
Named(m, name) == {i \in DOMAIN Declares(m) : Declares(m)[i].name = name}
KindOf(m, name) ==
  Declares(m)[CHOOSE i \in Named(m, name) : \A j \in Named(m, name) : i <= j].kind

IsType(p) == TableOf(Declared(p).kind) = "types"
\* What a Type's text mentions of Types. A generic Choice that names itself in a
\* payload does not use itself: it is an Error of its own, and hoists.
Mentions(p) == {n \in Names : <<"types", n>> \in Declared(p).uses}

\* Of the Types that spell one name only the first can reach the Scope. (No import
\* holds it: one that is offered a name declared here is refused.)
FirstTypes(m) ==
  {p \in {m} \X DOMAIN Declares(m) :
     IsType(p) /\ \A i \in Named(m, Declared(p).name) : IsType(<<m, i>>) => p[2] <= i}

\* Those of one Module that name each other in a circle.
IsRecursive(p) ==
  LET first == FirstTypes(p[1])
      mentioned == [n \in Names |->
                      UNION {Mentions(q) : q \in {r \in first : Declared(r).name = n}}]
      Closed(S) == Mentions(p) \cup UNION {mentioned[n] : n \in S} \subseteq S
  IN p \in first /\ \A S \in SUBSET Names : Closed(S) => Declared(p).name \in S
Circular == {p \in Places : p[1] \in Group /\ IsRecursive(p)}

\* A circle is told by the Modules passed on the way, whatever the name.
HomeOf[way \in (SUBSET Modules) \X Modules \X Names] ==
  LET passed == way[1]
      m == way[2]
      entry == Exports(m)[way[3]]
  IN IF m \in passed \/ way[3] \notin DOMAIN Exports(m) \/ entry.from = None THEN None
     ELSE IF entry.from = m
     THEN IF Named(m, entry.name) # {} THEN <<m, entry.name>> ELSE None
     ELSE HomeOf[<<passed \cup {m}, entry.from, entry.name>>]

\* The Module and the name that a published name leads to.
Home(m, name) == HomeOf[<<{}, m, name>>]

-----------------------------------------------------------------------------
(* The agenda.                                                             *)

Tasks(does, places) == [i \in DOMAIN places |-> <<does, places[i][1], places[i][2]>>]
EachOf(m, entries) == [i \in DOMAIN entries |-> <<m, i>>]
OfGroup(TasksOf(_)) == FlattenSeq([i \in DOMAIN program.group |-> TasksOf(program.group[i])])

Offers == OfGroup(LAMBDA m : Tasks("offer", EachOf(m, Imports(m))))

\* What hoisted in the last round is offered to nobody.
OnlyRefusals == OfGroup(LAMBDA m : Tasks("refuse", EachOf(m, Imports(m))))

LastOffers ==
  OfGroup(LAMBDA m : Tasks("offer", EachOf(m, Imports(m))) \o Tasks("refuse", EachOf(m, Imports(m))))
Declarations == OfGroup(LAMBDA m : EachOf(m, Declares(m)))
Only(places, S) ==
  FlattenSeq([i \in DOMAIN places |-> IF places[i] \in S THEN <<places[i]>> ELSE <<>>])
Readings == Reverse(Tasks("read", predicates))

Does(does, m, k) ==
  /\ agenda # <<>> /\ Head(agenda) = <<does, m, k>>
  /\ agenda' = Tail(agenda)

Begins(loop, tasks) == stage' = loop /\ agenda' = tasks

Init ==
  /\ program \in Programs
  /\ scope = [s \in Slots |->
       IF \E p \in Places : p[1] \notin Group /\ SlotOf(p) = s
       THEN CHOOSE p \in Places : p[1] \notin Group /\ SlotOf(p) = s ELSE None]
  /\ imports = [m \in Modules |-> [k \in DOMAIN Imports(m) |-> "pending"]]
  /\ hoisted = {} /\ woven = {}
  /\ conjuncts = [p \in Places |->
       IF ~Refined(p) THEN "none" ELSE IF p[1] \in Group THEN "unread" ELSE "read"]
  /\ predicates = <<>> /\ waiting = <<>> /\ remaining = <<>>
  /\ seeded = FALSE /\ stage = "before" /\ agenda = Offers
  /\ told = {m \in Group :
       \/ \E k \in DOMAIN Imports(m) : Imports(m)[k].from = None
       \/ \E name \in DOMAIN Exports(m) : Exports(m)[name].from = None}

-----------------------------------------------------------------------------
(* Imports.                                                                *)

IsTaken(m, name) == \E table \in Tables : scope[<<m, table, name>>] # None

Holds(h, table) == h # None /\ scope[<<h[1], table, h[2]>>] # None

Answer(m, k) ==
  LET entry == Imports(m)[k]
      home == Home(entry.from, entry.name)
  IN IF imports[m][k] # "pending" THEN "settled"
     ELSE IF entry.from = None THEN "unresolved"
     ELSE IF Named(m, entry.as) # {} \/ IsTaken(m, entry.as) THEN "duplicate"
     ELSE IF home = None THEN "missing"
     ELSE IF KindOf(home[1], home[2]) = "constant" /\ entry.from \in Group THEN "cyclic"
     ELSE IF \A table \in Tables : ~Holds(home, table) THEN "wait"
     ELSE "bind"

BoundInto(m, name, home) ==
  [s \in Slots |-> IF s[1] = m /\ s[3] = name /\ Holds(home, s[2])
                   THEN scope[<<home[1], s[2], home[2]>>] ELSE scope[s]]

BoundAsError(m, name) ==
  [s \in Slots |-> IF s \in {<<m, "members", name>>, <<m, "types", name>>}
                   THEN Error ELSE scope[s]]

\* seedImports, for one import.
Offer(m, k) ==
  LET entry == Imports(m)[k]
      answer == Answer(m, k)
  IN /\ Does("offer", m, k)
     /\ imports' = [imports EXCEPT ![m][k] =
          CASE answer \in {"settled", "wait"} -> @ [] answer = "bind" -> "bound"
            [] OTHER -> "refused"]
     /\ scope' =
          CASE answer = "bind" -> BoundInto(m, entry.as, Home(entry.from, entry.name))
            [] answer \in {"missing", "cyclic"} -> BoundAsError(m, entry.as)
            [] OTHER -> scope
     /\ told' = told \cup {n \in {m} : answer \in {"duplicate", "missing", "cyclic"}}
     /\ seeded' = (seeded \/ answer = "bind")
     /\ UNCHANGED <<program, hoisted, conjuncts, woven, predicates, waiting, remaining, stage>>

\* refuseUnboundImports, for one import.
Refuse(m, k) ==
  /\ Does("refuse", m, k)
  /\ imports' = [imports EXCEPT ![m][k] = IF @ = "pending" THEN "refused" ELSE @]
  /\ scope' = IF imports[m][k] = "pending" /\ ~IsTaken(m, Imports(m)[k].as)
              THEN BoundAsError(m, Imports(m)[k].as) ELSE scope
  /\ UNCHANGED <<program, hoisted, conjuncts, woven, predicates, waiting, remaining, seeded,
                 stage, told>>

-----------------------------------------------------------------------------
(* Predicates.                                                             *)

IsUnread(m, name) ==
  LET at == scope[<<m, "types", name>>]
  IN at \notin {None, Error} /\ conjuncts[at] = "unread"

\* Reading a predicate settles a Method of the Namespace it asks, and holds the
\* literals it passes against the refined Types that Method takes: their
\* conjuncts have to be there.
Reading(p) ==
  LET asked == scope[<<p[1], "members", Declared(p).asks>>]
  IN IF asked \in {None, Error} THEN "unanswered"
     ELSE IF \E name \in Declared(asked).takes : IsUnread(asked[1], name) THEN "throws"
     ELSE "answered"

\* The last reading leaves what it cannot read for another.
NeverFinal == FALSE

\* Which of the two readings it is.
IsFinal == stage = "finishing"

\* fillPendingPredicates, for one of them: the last reading decides. What it
\* decides against becomes its base, for everybody who holds it, and is left to
\* the enrichment in order.
Read(m, i) ==
  LET p == <<m, i>>
      lost == Reading(p) = "unanswered" /\ IsFinal
  IN /\ stage # "thrown" /\ Does("read", m, i)
     /\ conjuncts' = [conjuncts EXCEPT ![p] =
          IF Reading(p) = "answered" THEN "read" ELSE IF lost THEN "lost" ELSE @]
     /\ predicates' = IF Reading(p) = "answered" \/ lost THEN RemoveFirst(predicates, p)
                      ELSE predicates
     /\ hoisted' = IF lost THEN hoisted \ {p} ELSE hoisted
     /\ scope' = IF lost THEN [scope EXCEPT ![SlotOf(p)] = None] ELSE scope
     /\ stage' = IF Reading(p) = "throws" THEN "thrown" ELSE stage
     /\ UNCHANGED <<program, imports, woven, waiting, remaining, seeded, told>>

-----------------------------------------------------------------------------
(* Rounds.                                                                 *)

\* The Protocols of this Scope that the round underway may still hoist.
PendingProtocols(m) ==
  {Declared(p).name : p \in {q \in ToSet(waiting) : q[1] = m /\ Declared(q).kind = "protocol"}}

Used(p) == {scope[<<p[1], use[1], use[2]>>] : use \in Declared(p).uses}
Uses(p) == None \notin Used(p)
NamesErrors(p) == Error \in Used(p)

\* The clauses are not waited for.
ResolvesAnyway(p) ==
  /\ Uses(p)
  /\ \A name \in Declared(p).weighed : ~IsUnread(p[1], name)

\* A reading of a declaration that reports no error and throws nothing.
Resolves(p) ==
  /\ Uses(p)
  /\ \A name \in Declared(p).weighed : ~IsUnread(p[1], name)
  /\ \A name \in Declared(p).clauses :
       scope[<<p[1], "protocols", name>>] # None \/ name \notin PendingProtocols(p[1])

\* The clauses that silentCheckedConformances finds, and checkProtocolConformance.
Weaves(p) ==
  {<<p, name>> : name \in {n \in Declared(p).clauses : scope[<<p[1], "protocols", n>>] # None}}

\* One declaration of a round. A refinement of something broken is what it
\* refines, without a word.
Resolve(m, i) ==
  LET p == <<m, i>>
      kept == Resolves(p) /\ scope[SlotOf(p)] = None
      unread == kept /\ Refined(p) /\ ~NamesErrors(p)
  IN /\ Does("resolve", m, i)
     /\ scope' = IF kept THEN [scope EXCEPT ![SlotOf(p)] = p] ELSE scope
     /\ hoisted' = IF kept THEN hoisted \cup {p} ELSE hoisted
     /\ woven' = IF kept THEN woven \cup Weaves(p) ELSE woven
     /\ conjuncts' = IF kept /\ Refined(p) /\ ~unread THEN [conjuncts EXCEPT ![p] = "lost"]
                     ELSE conjuncts
     /\ predicates' = IF unread THEN Append(predicates, p) ELSE predicates
     /\ remaining' = IF kept THEN remaining ELSE Append(remaining, p)
     /\ UNCHANGED <<program, imports, waiting, seeded, stage, told>>

\* Recursive Type declarations are told of and are Errors until the rounds end.
BeginHoist ==
  LET circular == Circular
      poisoned == {SlotOf(p) : p \in circular}
      rest == Only(Declarations, {p \in Places : Hoists(p)} \ circular)
  IN /\ agenda = <<>> /\ stage = "before"
     /\ scope' = [s \in Slots |-> IF s \in poisoned THEN Error ELSE scope[s]]
     /\ told' = told \cup {p[1] : p \in circular}
     /\ waiting' = rest /\ seeded' = FALSE
     /\ IF rest = <<>> THEN Begins("closing", LastOffers) ELSE Begins("seeding", Offers)
     /\ UNCHANGED <<program, imports, hoisted, conjuncts, woven, predicates, remaining>>

BeginFill ==
  /\ agenda = <<>> /\ stage = "seeding"
  /\ Begins("filling", Readings)
  /\ UNCHANGED <<program, scope, imports, hoisted, conjuncts, woven, predicates, waiting,
                 remaining, seeded, told>>

BeginResolving ==
  /\ agenda = <<>> /\ stage = "filling"
  /\ Begins("resolving", Tasks("resolve", waiting))
  /\ remaining' = <<>>
  /\ UNCHANGED <<program, scope, imports, hoisted, conjuncts, woven, predicates, waiting,
                 seeded, told>>

\* Nothing was resolved in this round, and nothing bound before it.
NothingNew == Len(remaining) = Len(waiting) /\ ~seeded

EndRound ==
  /\ agenda = <<>> /\ stage = "resolving"
  /\ IF NothingNew \/ remaining = <<>> THEN Begins("closing", LastOffers)
     ELSE Begins("seeding", Offers)
  /\ waiting' = remaining /\ seeded' = FALSE
  /\ UNCHANGED <<program, scope, imports, hoisted, conjuncts, woven, predicates, remaining, told>>

BeginLastFill ==
  /\ agenda = <<>> /\ stage = "closing"
  /\ Begins("finishing", Readings)
  /\ UNCHANGED <<program, scope, imports, hoisted, conjuncts, woven, predicates, waiting,
                 remaining, seeded, told>>

-----------------------------------------------------------------------------
(* Enrichment in order, and the export block.                              *)

\* What was recursive is resolved once, and contains an Error somewhere: its
\* predicate is refused without a word.
BeginEnrichment ==
  LET circular == Circular
  IN /\ agenda = <<>> /\ stage = "finishing"
     /\ scope' = [s \in Slots |->
          IF \E p \in circular : SlotOf(p) = s
          THEN CHOOSE p \in circular : SlotOf(p) = s ELSE scope[s]]
     /\ hoisted' = hoisted \cup circular
     /\ conjuncts' = [p \in Places |->
          IF p \in circular /\ Refined(p) THEN "lost" ELSE conjuncts[p]]
     /\ Begins("enriching", Tasks("enrich", Declarations))
     /\ UNCHANGED <<program, imports, woven, predicates, waiting, remaining, seeded, told>>

\* What hoisted is not resolved again; a Namespace is woven once more. What did
\* not is resolved here, and declared whatever comes of it. A Type that lost its
\* predicate stays so for those who held it; the one made here is another.
Enrich(m, i) ==
  LET p == <<m, i>>
      late == p \notin hoisted
      answered == Uses(p) /\ ~NamesErrors(p) /\ Reading(p) = "answered"
      wrong == \/ late /\ ~Uses(p)
               \/ late /\ scope[SlotOf(p)] # None
               \/ late /\ Refined(p) /\ ~NamesErrors(p) /\ ~answered
               \/ \E name \in Declared(p).clauses : scope[<<m, "protocols", name>>] = None
  IN /\ Does("enrich", m, i)
     /\ scope' = IF scope[SlotOf(p)] = None THEN [scope EXCEPT ![SlotOf(p)] = p] ELSE scope
     /\ conjuncts' = [conjuncts EXCEPT ![p] =
          IF late /\ @ = "unread" THEN IF answered THEN "read" ELSE "lost" ELSE @]
     /\ woven' = woven \cup Weaves(p)
     /\ told' = IF wrong THEN told \cup {m} ELSE told
     /\ UNCHANGED <<program, imports, hoisted, predicates, waiting, remaining, seeded, stage>>

ExportIsWrong(m, name) ==
  LET entry == Exports(m)[name]
  IN IF entry.from = m
     THEN Named(m, entry.name) = {} \/ KindOf(m, entry.name) = "variable"
     ELSE entry.from # None /\ Home(entry.from, entry.name) = None

ReportExports ==
  /\ agenda = <<>> /\ stage = "enriching"
  /\ Begins("done", <<>>)
  /\ told' = told \cup {m \in Group : \E name \in DOMAIN Exports(m) : ExportIsWrong(m, name)}
  /\ UNCHANGED <<program, scope, imports, hoisted, conjuncts, woven, predicates, waiting,
                 remaining, seeded>>

Next ==
  \/ \E m \in Group : \E k \in DOMAIN Imports(m) : Offer(m, k)
  \/ \E m \in Group : \E k \in DOMAIN Imports(m) : Refuse(m, k)
  \/ \E m \in Group : \E i \in DOMAIN Declares(m) : Read(m, i)
  \/ \E m \in Group : \E i \in DOMAIN Declares(m) : Resolve(m, i)
  \/ \E m \in Group : \E i \in DOMAIN Declares(m) : Enrich(m, i)
  \/ BeginHoist \/ BeginFill \/ BeginResolving \/ EndRound \/ BeginLastFill
  \/ BeginEnrichment \/ ReportExports

Spec == Init /\ [][Next]_vars

\* It is one call that nothing interrupts.
FairSpec == Spec /\ WF_vars(Next)

-----------------------------------------------------------------------------
(* What could hoist, whatever the order: the least fixpoint of what        *)
(* resolving needs.                                                        *)

\* The declarations a name may stand for in a Module.
Behind(m, table, name) ==
  {p \in Places : SlotOf(p) = <<m, table, name>>}
  \cup {p \in Places : \E k \in DOMAIN Imports(m) :
          LET home == Home(Imports(m)[k].from, Imports(m)[k].name)
          IN Imports(m)[k].as = name /\ home # None /\ SlotOf(p) = <<home[1], table, home[2]>>}

\* Imports that nothing of this Module stands in the way of, and those of them
\* that are refused with a word.
Entries(m) == {Imports(m)[k] : k \in {j \in DOMAIN Imports(m) :
  Imports(m)[j].from # None /\ Named(m, Imports(m)[j].as) = {}}}
Refusable(m) == {e \in Entries(m) :
  LET home == Home(e.from, e.name)
  IN home = None \/ (KindOf(home[1], home[2]) = "constant" /\ e.from \in Group)}

\* <<where it comes from, where it goes>>, a slot each.
Ways ==
  UNION {UNION {LET home == Home(e.from, e.name)
                IN {<<<<home[1], table, home[2]>>, <<m, table, e.as>>>> : table \in Tables} :
                e \in Entries(m) \ Refusable(m)} : m \in Group}
Along(S) == {way[2] : way \in {w \in Ways : w[1] \in S}}

\* What is an Error from the start, and stays so for those who import it.
Broken ==
  LET circles == {SlotOf(p) : p \in Circular}
  IN circles \cup Along(circles)
     \cup UNION {{m} \X {"members", "types"} \X {e.as : e \in Refusable(m)} : m \in Group}

Resolvable(known, p) ==
  /\ \A use \in Declared(p).uses : <<p[1], use[1], use[2]>> \in known.slots
  /\ \A name \in Declared(p).weighed : \A q \in Behind(p[1], "types", name) :
       Refined(q) => q \in known.read
  /\ \A name \in Declared(p).clauses :
       (\E q \in Places : SlotOf(q) = <<p[1], "protocols", name>>)
         => <<p[1], "protocols", name>> \in known.slots

Readable(known, broken, p) ==
  /\ SlotOf(p) \in known.slots
  /\ {<<p[1], use[1], use[2]>> : use \in Declared(p).uses} \cap broken = {}
  /\ <<p[1], "members", Declared(p).asks>> \in known.slots \ broken
  /\ \A q \in Behind(p[1], "members", Declared(p).asks) : \A name \in Declared(q).takes :
       \A r \in Behind(q[1], "types", name) : Refined(r) => r \in known.read

Attainable ==
  LET here == {p \in Places : p[1] \in Group /\ Hoists(p)} \ Circular
      broken == Broken
      ways == Ways
      linked == {p \in Places : p[1] \notin Group}
      after[k \in 0 .. 2 * Len(Declarations) + Len(Offers)] ==
        IF k = 0
        THEN [slots |-> broken \cup {SlotOf(p) : p \in linked},
              read |-> {p \in linked : Refined(p)}]
        ELSE LET known == after[k - 1]
             IN [slots |-> known.slots
                     \cup {SlotOf(p) : p \in {q \in here : Resolvable(known, q)}}
                     \cup {way[2] : way \in {w \in ways : w[1] \in known.slots}},
                 read |-> known.read
                     \cup {p \in here : Refined(p) /\ Readable(known, broken, p)}]
  IN after[2 * Len(Declarations) + Len(Offers)]

\* A name that crosses the group as a Type and as a Namespace may arrive without
\* the half that hoists a round later; of two that share a slot, or a local
\* name, the one that is ready first is the one.
HasTwins ==
  \/ \E m \in Group : \E e \in Entries(m) :
       LET home == Home(e.from, e.name)
       IN /\ home # None /\ e.from \in Group
          /\ \E i, j \in Named(home[1], home[2]) :
               TableOf(Declares(home[1])[i].kind) # TableOf(Declares(home[1])[j].kind)
  \/ \E p, q \in Places : p # q /\ SlotOf(p) = SlotOf(q)
  \/ \E m \in Group : \E j, k \in DOMAIN Imports(m) : j # k /\ Imports(m)[j].as = Imports(m)[k].as

-----------------------------------------------------------------------------
(* Properties.                                                             *)

\* The rounds end, and what is in scope then, of the whole group, is what could
\* be: no order of declarations, imports or Modules leaves out a declaration
\* whose needs are met, and none is in that has none. A refinement keeps its
\* predicate exactly if somebody who hoists can answer it. But for readings that
\* throw (fillPendingPredicates catches nothing).
AllIsReached ==
  LET given == {p \in Places : conjuncts[p] = "lost" /\ p \notin hoisted}
      attained == Attainable
  IN /\ {s \in Slots : scope[s] \notin {None, Error}} \cup {SlotOf(p) : p \in given}
          = attained.slots \ Broken
     /\ {p \in hoisted : conjuncts[p] = "read"} = {p \in attained.read : p[1] \in Group}
HoistingReachesAll ==
  <>(\/ stage = "thrown"
     \/ stage = "finishing" /\ agenda = <<>> /\ (HasTwins \/ AllIsReached))

\* Nothing past hoisting meets a predicate that was not read: not through the
\* Alias, an import of it, or the last reading's way out.
NothingStaysUnread ==
  stage \in {"enriching", "done"} =>
    \A s \in Slots : scope[s] \notin {None, Error} => conjuncts[scope[s]] # "unread"

\* A Namespace that hoisted carries the bounds of every clause whose Protocol
\* its own Module declares, so a use above its Statement sees what one below
\* does.
BoundsAreWoven ==
  stage = "enriching" =>
    \A p \in hoisted : \A name \in Declared(p).clauses :
      (\E q \in hoisted : SlotOf(q) = <<p[1], "protocols", name>>) => <<p, name>> \in woven

\* Where no Module of the group is told anything, nothing was given up: what an
\* import could not have, its Module or another was told of (refuseUnboundImports:
\* "the Module declaring it reported why"; reportRecursiveTypeDeclarations).
SilenceIsEarned ==
  stage = "done" /\ told = {} => \A s \in Slots : scope[s] # Error
=============================================================================
