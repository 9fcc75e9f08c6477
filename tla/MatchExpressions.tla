--------------------------- MODULE MatchExpressions ---------------------------
(***************************************************************************)
(* A Match Expression on its way from source to a run: the Enricher gives  *)
(* each Handler its Type and its requirements (enricher/enrichers.ts), the *)
(* Validator decides whether they cover the matched Union and which of     *)
(* them can run at all (validator/index.ts), and passes of the Optimiser   *)
(* rewrite the tests (optimiser/passes).  What a value then meets is the   *)
(* chain of tests the Rewriter emits (rewriter/index.ts).                  *)
(*                                                                         *)
(* A Handler is written as a wildcard, a Type, a literal, a Case with or   *)
(* without a payload Pattern, or a Pattern; it may have a Guard, of which  *)
(* nothing is known.  Bodies are left out, and so is what a Guard proves.  *)
(***************************************************************************)
EXTENDS Inference, TypeTests

CONSTANTS
  Matches,    \* Match Expressions as they are written
  Instances,  \* Types that Type Parameters may stand for when a Program runs
  Arrivals    \* values that may come to be matched

VARIABLES
  stage,        \* what is being done to it
  match,        \* the Match Expression
  typed,        \* its Handlers so far, as the Enricher leaves them
  claimedBy,    \* the Handler that answers for each member of the Union
  turn,         \* the Handler the Validator has come to
  said,         \* Diagnostics: what, and of which Handler
  passes,       \* passes of the Optimiser still to come
  arms,         \* the Handlers of the emitted chain
  endsInElse    \* the last of them is not tested
matchVars == <<stage, match, typed, claimedBy, turn, said, passes, arms, endsInElse>>

NoMatch == [value |-> Error, handlers |-> <<>>]
Says(code, handler) == [code |-> code, handler |-> handler]
IsError(code) == code \notin {"unreachable-case", "empty-list-overlap"}

-----------------------------------------------------------------------------
(* The Enricher. *)

\* What a Type has for a member, whichever of its arms carry it.
MemberTypeOf(t, name) ==
  LET carrying == SelectSeq(Arms(t), LAMBDA arm :
                    HasMembers(arm) /\ name \in NamesOf(arm.members))
  IN  IF carrying = <<>> THEN Undecided
      ELSE BuildUnion([i \in DOMAIN carrying |-> MemberOf(carrying[i].members, name)])
TypeAtPath(t, path) == FoldLeft(MemberTypeOf, t, path)

Requiring(t, required) ==
  LET Required(name) == name \in NamesOf(required)
  IN  [t EXCEPT !.members =
         [i \in DOMAIN @ |-> IF Required(@[i].name)
                             THEN [@[i] EXCEPT !.type = MemberOf(required, t.members[i].name)]
                             ELSE @[i]]
         \o SelectSeq(required, LAMBDA m : m.name \notin NamesOf(t.members))]

\* What a value of a Type proves by passing a Pattern.
ProvenPatternType(t, required) ==
  LET able == SelectSeq(Arms(t), HasMembers)
  IN  IF able = <<>> THEN required
      ELSE BuildUnion([i \in DOMAIN able |-> Requiring(able[i], required.members)])

\* A predicate is nothing a test could ask about.
RefusedAsMatcher(t, handler) ==
  IF AsksForEvidence(t) THEN {Says("refinement-as-matcher", handler)} ELSE {}
AsMatcher(t) == IF AsksForEvidence(t) THEN Error ELSE t

TypeOfLiteral(literal) == [is |-> literal.value.is]
NoPattern == [type |-> AnyRecord, literals |-> <<>>, said |-> {}]

\* A member of a Pattern, read: its Type, and what comes with it.
Adding(p, name, t, literals, reports) ==
  [type |-> [p.type EXCEPT !.members = Append(@, [name |-> name, type |-> t])],
   literals |-> p.literals \o literals, said |-> p.said \cup reports]
AddingNested(p, name, t, inner, refused) ==
  Adding(p, name, ProvenPatternType(t, inner.type), inner.literals, inner.said \cup refused)

RECURSIVE ResolvePattern(_, _, _, _, _)
\* A Pattern's Type, and the members it compares with written values. In a
\* payload, a member that nothing carries is a mistake.
ResolvePattern(members, t, path, inPayload, handler) ==
  LET Typing(p, m, type, refused) ==
        IF m.literal # <<>>
        THEN Adding(p, m.name, TypeOfLiteral(m.literal[1]),
               <<[path |-> Append(path, m.name), literal |-> m.literal[1]]>>, {})
        ELSE IF m.nested # <<>>
        THEN AddingNested(p, m.name, type,
               ResolvePattern(m.nested, type, Append(path, m.name), inPayload, handler), refused)
        ELSE IF inPayload /\ m.annotation = <<>> /\ type = Undecided
        THEN Adding(p, m.name, Error, <<>>, {Says("unknown-member", handler)})
        ELSE Adding(p, m.name, type, <<>>, refused)
      Add(p, m) ==
        Typing(p, m,
          IF m.annotation = <<>> THEN MemberTypeOf(t, m.name) ELSE AsMatcher(m.annotation[1]),
          IF m.annotation = <<>> THEN {} ELSE RefusedAsMatcher(m.annotation[1], handler))
  IN  FoldLeft(Add, NoPattern, members)

\* Instantiations of one Case carry one tag: each member is what any of them has.
JoinCases(cases) ==
  IF Len(cases) = 1 THEN cases[1]
  ELSE [cases[1] EXCEPT !.members =
          [i \in DOMAIN @ |->
             [@[i] EXCEPT !.type = BuildUnion(
                [j \in DOMAIN cases |-> MemberOf(cases[j].members, cases[1].members[i].name)])]]]

\* The Case a Matcher names, by its Choice or by the matched Union alone.
ResolveCaseMatcher(m, t) ==
  LET candidates == SelectSeq(Arms(t), LAMBDA arm :
        arm.is = "Case" /\ arm.name = m.name /\ m.choice \in {"", arm.choice})
  IN  IF Cardinality({c.choice : c \in ToSet(candidates)}) = 1
      THEN JoinCases(candidates) ELSE Error

\* Where a payload Pattern reads: the payload, or the one member it stands for.
PayloadPath(pattern, case) ==
  IF Len(case.members) # 1 \/ NamesOf(pattern) \subseteq NamesOf(case.members)
  THEN <<>> ELSE <<case.members[1].name>>

\* What the payload Pattern asks for that the Case does not promise.
PayloadRequirements(required, case, path) ==
  LET Asked(spine, t) == [path |-> spine, type |-> t, test |-> <<>>]
      wanted == IF path # <<>> THEN <<Asked(path, required)>>
                ELSE [i \in DOMAIN required.members |->
                        Asked(<<required.members[i].name>>, required.members[i].type)]
  IN  SelectSeq(wanted, LAMBDA r : ~Accepts(r.type, TypeAtPath(case, r.path)))

\* Mutant: a Guard takes nothing from a Handler.
IgnoresGuards(h) == h.literal = <<>> /\ h.literals = <<>> /\ h.requires = <<>>
\* Nothing but its Matcher decides whether such a Handler runs.
IsUnconditional(h) ==
  /\ h.literal = <<>> /\ h.literals = <<>> /\ h.requires = <<>> /\ ~h.guarded
\* The same but for requirements, which are part of the test.
ClaimsWhatItsTestAccepts(h) == h.literal = <<>> /\ h.literals = <<>> /\ ~h.guarded

Earlier == ToSet(typed)
IsHandled(t) == \E h \in Earlier : IsUnconditional(h) /\ Accepts(h.matcher, t)

\* A wildcard stands for what is left; a named Union nothing was taken from
\* stays whole.
WildcardType(t) ==
  LET Left(u) == SelectSeq(Arms(u), LAMBDA arm : ~IsHandled(arm))
      Rest(u, left) == IF left = Arms(u) THEN <<u>> ELSE left
      Whole(left) == IF left = <<>> THEN Undecided
                     ELSE IF Len(left) = 1 THEN left[1] ELSE BuildUnion(left)
      OfAll(written) ==
        Whole(FlattenSeq([i \in DOMAIN written |-> Rest(written[i], Left(written[i]))]))
  IN  OfAll(IF IsUnion(t) THEN t.types ELSE <<t>>)

\* What `@` is known to be: the value this Handler names, if it names one, and
\* not any of those that Handlers above it named and could not decline.  The
\* Scope is taken to declare a refinement for whatever is proven.
SelfType(matcher, literal) ==
  LET declined == {h.literal[1] : h \in {g \in Earlier : g.literal # <<>> /\ ~g.guarded}}
      refuted == UNION {l.refutes : l \in {n \in declined : TypeOfLiteral(n) = matcher}}
      proven == refuted \cup (UNION {l.proves : l \in ToSet(literal)})
  IN  IF proven = {} THEN matcher
      ELSE [is |-> "Refinement", base |-> matcher, conjuncts |-> proven]

\* A Handler that asks for nothing but its Matcher; the rest is filled in below.
HandlerOf(matcher, reports) ==
  [handler |-> [matcher |-> matcher, requires |-> <<>>, literal |-> <<>>,
                literals |-> <<>>, guarded |-> FALSE, self |-> matcher,
                path |-> <<>>, bound |-> matcher],
   said |-> reports]

WithPayload(case, path, pattern) ==
  [HandlerOf(case, pattern.said) EXCEPT
     !.handler.requires = PayloadRequirements(pattern.type, case, path),
     !.handler.literals = pattern.literals,
     !.handler.path = path,
     !.handler.bound = ProvenPatternType(TypeAtPath(case, path), pattern.type)]
TypedPayload(written, case, path, handler) ==
  WithPayload(case, path,
    ResolvePattern(written, TypeAtPath(case, path), path, TRUE, handler))
TypedCase(m, case, handler) ==
  IF case = Error THEN HandlerOf(Error, {Says("unknown-case", handler)})
  ELSE IF m.pattern = <<>> THEN HandlerOf(case, {})
  ELSE TypedPayload(m.pattern, case, PayloadPath(m.pattern, case), handler)
TypedPattern(pattern) ==
  [HandlerOf(pattern.type, pattern.said) EXCEPT !.handler.literals = pattern.literals]

TypedMatcher(m, handler) ==
  CASE m.form = "wildcard" -> HandlerOf(WildcardType(match.value), {})
    [] m.form = "type" -> HandlerOf(AsMatcher(m.type), RefusedAsMatcher(m.type, handler))
    [] m.form = "literal" ->
         [HandlerOf(TypeOfLiteral(m.literal), {}) EXCEPT !.handler.literal = <<m.literal>>]
    [] m.form = "pattern" ->
         TypedPattern(ResolvePattern(m.members, match.value, <<>>, FALSE, handler))
    [] OTHER -> TypedCase(m, ResolveCaseMatcher(m, match.value), handler)

\* One Handler, typed behind those above it.
Guarding(so, guarded) ==
  [so EXCEPT !.handler.guarded = guarded,
             !.handler.self = SelfType(so.handler.matcher, so.handler.literal)]
Typed(written, handler) ==
  Guarding(TypedMatcher(written.matcher, handler), written.guarded)

-----------------------------------------------------------------------------
(* The Validator. *)

Members == Arms(match.value)
Handlers == DOMAIN match.handlers

Missing == {i \in DOMAIN Members : ~IsHandled(Members[i])}

IsLiteralMatch ==
  /\ Erased(match.value).is \in {"Integer", "String"}
  /\ \E h \in Earlier : h.literal # <<>>

\* Every Handler names a value, and the last one answers for all the others.
LiteralShapeHolds ==
  LET last == typed[Len(typed)]
  IN  /\ \A i \in 1 .. Len(typed) - 1 :
           /\ typed[i].literal # <<>> /\ ~typed[i].guarded
           /\ Accepts(Erased(match.value), TypeOfLiteral(typed[i].literal[1]))
      /\ IsUnconditional(last) /\ AcceptsAllAtRuntime(last.matcher, match.value)

CoverageReports ==
  IF IsUnion(match.value)
  THEN IF Missing = {} THEN {} ELSE {Says("missing-case", 0)}
  ELSE IF ~IsLiteralMatch THEN {Says("match-on-non-union", 0)}
  ELSE IF LiteralShapeHolds THEN {} ELSE {Says("literal-match-shape", 0)}

RECURSIVE Graft(_, _, _)
Graft(t, path, required) ==
  IF path = <<>> THEN required
  ELSE IF ~HasMembers(t) THEN t
  ELSE LET name == Head(path)
           member == IF name \in NamesOf(t.members) THEN MemberOf(t.members, name)
                     ELSE Undecided
       IN  Requiring(t, <<[name |-> name, type |-> Graft(member, Tail(path), required)]>>)

\* A Handler's whole test as one Type.
RuntimeMatcher(h) ==
  FoldLeft(LAMBDA t, r : Graft(t, r.path, r.type), h.matcher, h.requires)

\* A Handler above takes the empty Lists that this one is written for.
MissesEmptyLists(h, matched) ==
  \E earlier \in 1 .. h - 1, i \in matched :
    LET matcher == RuntimeMatcher(typed[earlier])
    IN  /\ ClaimsWhatItsTestAccepts(typed[earlier])
        /\ ~AcceptsAllAtRuntime(matcher, Members[i])
        /\ OverlapsAtRuntime(matcher, Members[i])
        /\ OverlapsThroughEmptyList(matcher, Members[i])

\* What is said of a Handler whose every member is claimed: it is dead, or it
\* only looked as if it asked something else.
ShadowReport(h, claimants) ==
  LET claimant == typed[Min(claimants)]
  IN  IF \/ claimant.matcher.is = "GenericUse"
         \/ ~Accepts(RuntimeMatcher(claimant), RuntimeMatcher(typed[h]))
      THEN Says("erased-case-conflict", h) ELSE Says("unreachable-case", h)

-----------------------------------------------------------------------------
(* The Optimiser. *)

Value == Erased(match.value)
Arm(i) ==
  LET h == typed[i]
  IN  [handler |-> i, matcher |-> Erased(h.matcher), literal |-> h.literal,
       literals |-> h.literals, guarded |-> h.guarded, test |-> <<>>,
       requires |-> [j \in DOMAIN h.requires |-> [h.requires[j] EXCEPT !.type = Erased(@)]]]
\* The chain as it was written.
AsWritten == [i \in DOMAIN typed |-> Arm(i)]

\* The one Type a member is declared with, or none that is known.
MemberTypeAt(t, name) ==
  LET carrying == SelectSeq(Arms(t), LAMBDA arm :
                    HasMembers(arm) /\ name \in NamesOf(arm.members))
  IN  IF Len(carrying) = 1 THEN MemberOf(carrying[1].members, name) ELSE Undecided
DeclaredAt(t, path) == FoldLeft(MemberTypeAt, t, path)

\* compile-type-tests.
ResidualTest(path, matcher, t) ==
  IF MatcherResidual(matcher, Arms(t)) = "tag" THEN <<AsksTag(path, matcher, FALSE)>>
  ELSE <<AsksWalk(path, matcher)>>
CompileTypeTests(arm) ==
  [arm EXCEPT
     !.test = IF arm.literal = <<>> THEN ResidualTest(<<>>, arm.matcher, Value)
              ELSE IF /\ Value.is \in {"Integer", "String"}
                      /\ TypeOfLiteral(arm.literal[1]) = Value
              THEN <<AsksIs(<<>>, arm.literal[1])>> ELSE <<>>,
     !.requires = [j \in DOMAIN @ |->
        [@[j] EXCEPT !.test = ResidualTest(arm.requires[j].path, arm.requires[j].type,
                                DeclaredAt(arm.matcher, arm.requires[j].path))]]]

\* prune-dead-match-arms.
PruneDeadMatchArms(chain) ==
  LET alive == SelectSeq(chain, LAMBDA arm : ~MatcherIsRefuted(arm.matcher, Value))
  IN  IF alive = <<>> THEN chain ELSE alive

\* elide-final-match-test.
ElidesFinalTest(arm) ==
  /\ IsUnconditional(arm)
  /\ MatcherResidual(arm.matcher, Arms(Value)) # "descriptor"

\* compile-record-members, without its limit on how many tests a walk may become.
Expand(q, t) ==
  LET tests == IF q.ask = "walk" THEN RecordMatcherTests(q.type, t) ELSE <<>>
  IN  IF tests = <<>> THEN <<q>>
      ELSE [i \in DOMAIN tests |-> [tests[i] EXCEPT !.path = q.path \o @]]
CompileRecordMembers(arm) ==
  LET Expanded(test, t) == FlattenSeq([i \in DOMAIN test |-> Expand(test[i], t)])
  IN  [arm EXCEPT
         !.test = Expanded(@, Value),
         !.requires = [j \in DOMAIN @ |->
            [@[j] EXCEPT !.test = Expanded(@, DeclaredAt(arm.matcher, arm.requires[j].path))]]]

-----------------------------------------------------------------------------
(* The run. *)

\* One member after another: nothing is read off what is not there.
Read(v, path) ==
  LET Step(r, name) ==
        IF r.at # "there" THEN [r EXCEPT !.at = "thrown"]
        ELSE IF ~HasMembers(r.value) \/ name \notin NamesOf(r.value.members)
        THEN [r EXCEPT !.at = "absent"]
        ELSE [r EXCEPT !.value =
                (CHOOSE w \in ToSet(r.value.members) : w.name = name).value]
  IN  FoldLeft(Step, [at |-> "there", value |-> v], path)

Answer(q, v) ==
  LET r == Read(v, q.path)
      Told(yes) == IF yes THEN "yes" ELSE "no"
  IN IF r.at # "there"
     THEN IF r.at = "absent" /\ q.ask = "tag" /\ q.optional THEN "no" ELSE "throws"
     ELSE CASE q.ask = "tag" -> Told(TagOf(r.value) = Tag(q.type))
            [] q.ask = "walk" -> Told(IsValueOfType(r.value, q.type))
            [] q.ask = "is" -> Told(r.value = q.literal.value)

\* A Handler's whole test, ANDed in this order.
HandlerTest(arm) ==
  (IF arm.test # <<>> THEN arm.test
   ELSE IF arm.literal # <<>> THEN <<AsksIs(<<>>, arm.literal[1])>>
   ELSE <<AsksWalk(<<>>, arm.matcher)>>)
  \o FlattenSeq([j \in DOMAIN arm.requires |->
       IF arm.requires[j].test # <<>> THEN arm.requires[j].test
       ELSE <<AsksWalk(arm.requires[j].path, arm.requires[j].type)>>])
  \o [j \in DOMAIN arm.literals |-> AsksIs(arm.literals[j].path, arm.literals[j].literal)]

Outcome(arm, v) ==
  FoldLeft(LAMBDA so, q : IF so = "yes" THEN Answer(q, v) ELSE so, "yes", HandlerTest(arm))

\* The Handlers a value comes to until one must run: those above it may decline
\* it by their Guards. 0 stands for a test that throws, and for the end of the
\* chain (noCaseMatched).
Reached(chain, isElse, v) ==
  LET Try(r, i) ==
        LET so == IF isElse /\ i = Len(chain) THEN "yes" ELSE Outcome(chain[i], v)
        IN  IF r.settled \/ so = "no" THEN r
            ELSE IF so = "throws" THEN [handlers |-> Append(r.handlers, 0), settled |-> TRUE]
            ELSE [handlers |-> Append(r.handlers, chain[i].handler),
                  settled |-> ~chain[i].guarded]
      tried == FoldLeft(Try, [handlers |-> <<>>, settled |-> FALSE],
                        [i \in DOMAIN chain |-> i])
  IN  IF tried.settled THEN tried.handlers ELSE Append(tried.handlers, 0)

-----------------------------------------------------------------------------
MatchInit ==
  /\ stage = "none" /\ match = NoMatch
  /\ typed = <<>> /\ claimedBy = <<>> /\ turn = 0 /\ said = {}
  /\ passes = <<>> /\ arms = <<>> /\ endsInElse = FALSE

BeginMatch(m) ==
  /\ stage = "none"
  /\ stage' = "enriching" /\ match' = m
  /\ UNCHANGED <<typed, claimedBy, turn, said, passes, arms, endsInElse>>

\* enrichMatch: one Handler.
Keep(next) == typed' = Append(typed, next.handler) /\ said' = said \cup next.said
EnrichHandler ==
  /\ stage = "enriching" /\ Len(typed) < Len(match.handlers)
  /\ Keep(Typed(match.handlers[Len(typed) + 1], Len(typed) + 1))
  /\ UNCHANGED <<stage, match, claimedBy, turn, passes, arms, endsInElse>>

\* validateMatch begins: whether every value has a Handler.
CheckCoverage ==
  /\ stage = "enriching" /\ Len(typed) = Len(match.handlers)
  /\ stage' = "validating"
  /\ said' = said \cup CoverageReports
  /\ claimedBy' = [i \in DOMAIN Members |-> 0]
  /\ turn' = IF IsUnion(match.value) THEN 1 ELSE Len(typed) + 1
  /\ UNCHANGED <<match, typed, passes, arms, endsInElse>>

\* ... and whether every Handler has a value.
CheckHandler ==
  /\ stage = "validating" /\ turn \in Handlers
  /\ LET matcher == RuntimeMatcher(typed[turn])
         matched == {i \in DOMAIN Members : OverlapsAtRuntime(matcher, Members[i])}
         claimants == {claimedBy[i] : i \in matched} \ {0}
     IN  IF matched = {}
         THEN said' = said \cup {Says("unreachable-case", turn)} /\ UNCHANGED claimedBy
         ELSE IF \A i \in matched : claimedBy[i] # 0
         THEN said' = said \cup {ShadowReport(turn, claimants)} /\ UNCHANGED claimedBy
         ELSE /\ said' = said \cup (IF MissesEmptyLists(turn, matched)
                                    THEN {Says("empty-list-overlap", turn)} ELSE {})
              /\ claimedBy' = [i \in DOMAIN claimedBy |->
                   IF /\ i \in matched /\ claimedBy[i] = 0
                      /\ ClaimsWhatItsTestAccepts(typed[turn])
                      /\ AcceptsAllAtRuntime(matcher, Members[i])
                   THEN turn ELSE claimedBy[i]]
  /\ turn' = turn + 1
  /\ UNCHANGED <<stage, match, typed, passes, arms, endsInElse>>

\* A Program without an Error goes on to the Optimiser.
Accept ==
  /\ stage = "validating" /\ turn \notin Handlers
  /\ \A report \in said : ~IsError(report.code)
  /\ stage' = "compiling"
  /\ arms' = AsWritten
  /\ passes' = <<"compile-type-tests", "prune-dead-match-arms",
                 "elide-final-match-test", "compile-record-members">>
  /\ UNCHANGED <<match, typed, claimedBy, turn, said, endsInElse>>

\* The next pass, or none of it: each can be turned off.
RunPass ==
  /\ stage = "compiling" /\ passes # <<>>
  /\ arms' = CASE Head(passes) = "compile-type-tests" ->
                    [i \in DOMAIN arms |-> CompileTypeTests(arms[i])]
               [] Head(passes) = "prune-dead-match-arms" -> PruneDeadMatchArms(arms)
               [] Head(passes) = "elide-final-match-test" -> arms
               [] Head(passes) = "compile-record-members" ->
                    [i \in DOMAIN arms |-> CompileRecordMembers(arms[i])]
  /\ endsInElse' = IF Head(passes) = "elide-final-match-test"
                   THEN ElidesFinalTest(arms[Len(arms)]) ELSE endsInElse
  /\ passes' = Tail(passes)
  /\ UNCHANGED <<stage, match, typed, claimedBy, turn, said>>
SkipPass ==
  /\ stage = "compiling" /\ passes # <<>>
  /\ passes' = Tail(passes)
  /\ UNCHANGED <<stage, match, typed, claimedBy, turn, said, arms, endsInElse>>

\* On to the next Expression.
LeaveMatch ==
  /\ \/ stage = "compiling" /\ passes = <<>>
     \/ /\ stage = "validating" /\ turn \notin Handlers
        /\ \E report \in said : IsError(report.code)
  /\ stage' = "none" /\ match' = NoMatch
  /\ typed' = <<>> /\ claimedBy' = <<>> /\ turn' = 0 /\ said' = {}
  /\ passes' = <<>> /\ arms' = <<>> /\ endsInElse' = FALSE

MatchStep ==
  \/ stage = "none" /\ \E m \in Matches : BeginMatch(m)
  \/ EnrichHandler \/ CheckCoverage \/ CheckHandler \/ Accept
  \/ RunPass \/ SkipPass \/ LeaveMatch

\* The compiler takes one Expression at a time.
ExpressionInit == Init /\ MatchInit
ExpressionNext ==
  \/ stage = "none" /\ Next /\ UNCHANGED matchVars
  \/ Idle /\ MatchStep /\ UNCHANGED vars
ExpressionSpec == ExpressionInit /\ [][ExpressionNext]_<<vars, matchVars>>

-----------------------------------------------------------------------------
Compiled == stage = "compiling" /\ passes = <<>>

\* What Type Parameters may come to be, themselves included.
Worlds ==
  LET open == {u \in Within(match.value) : IsGeneric(u)}
  IN  {NothingBound} \cup [open -> Instances]
Arriving(world) == {v \in Arrivals : Holds(Apply(match.value, world), v)}

\* A Match that compiles answers for every value it can be given: no test reads
\* what is not there, and the chain never ends without a Handler
\* (noCaseMatched: "This is a bug in the Compiler").
EveryValueIsTaken ==
  \A world \in Worlds : \A v \in Arriving(world) :
    0 \notin ToSet(Reached(arms, endsInElse, v))

\* A value whose Records carry what its Type names and nothing more.
RECURSIVE Exact(_, _)
Exact(t, v) ==
  \E arm \in ToSet(Arms(t)) :
    /\ Holds(arm, v)
    /\ HasMembers(arm) =>
         /\ NamesOf(v.members) = NamesOf(arm.members)
         /\ \A w \in ToSet(v.members) : Exact(MemberOf(arm.members, w.name), w.value)

\* A Handler that is called dead is not run for a value the matched Type names.
\* (One that carries more than its Type names may come to it: the analysis is
\* of what is declared.)
DeadHandlersNeverRun ==
  \A report \in said : report.code = "unreachable-case" =>
    \A v \in {w \in Arrivals : Exact(match.value, w)} :
      report.handler \notin ToSet(Reached(arms, endsInElse, v))

\* No pass decides anything: every value comes to the Handlers it would come to
\* in the chain as written, with or without any of them.
PassesDecideNothing ==
  \A world \in Worlds : \A v \in Arriving(world) :
    Reached(arms, endsInElse, v) = Reached(AsWritten, FALSE, v)

\* What a Handler is given: `@` is what its Matcher names, without what the
\* Handlers above it ruled out, and its payload Pattern reads what it proved.
\* A member that no Type carries is named without a Type: that says nothing.
IsOf(t, world, v) == Undecided \in Within(t) \/ Holds(Apply(t, world), v)
GetsWhatItNames(h, world, v) ==
  IsOf(h.self, world, v) /\ IsOf(h.bound, world, Read(v, h.path).value)

\* No test tells apart what leaves nothing behind.
Erasable(t) == \E u \in Within(t) : u.is \in {"Function", "GenericUse"}
HandlersGetWhatTheyName ==
  \A world \in Worlds : \A v \in Arriving(world) :
    \A i \in ToSet(Reached(arms, endsInElse, v)) \ {0} :
      Erasable(typed[i].matcher) \/ GetsWhatItNames(typed[i], world, v)

\* What the Enricher takes for granted about a Match that compiles, what the
\* Validator promises of it and what the Optimiser keeps of it are one thing.
MatchesRunAsRead ==
  Compiled => /\ EveryValueIsTaken /\ DeadHandlersNeverRun
              /\ PassesDecideNothing /\ HandlersGetWhatTheyName

\* "Inside an arm, `@` is the scrutinee narrowed to what the Matcher established"
\* (packages/website/diagnostics.md:731): whichever values come to a Handler are
\* of the Type it is read with, those that erasure sends there among them.
ArmsAreSound ==
  Compiled =>
    \A world \in Worlds : \A v \in Arriving(world) :
      \A i \in ToSet(Reached(arms, endsInElse, v)) \ {0} :
        GetsWhatItNames(typed[i], world, v)
=============================================================================
