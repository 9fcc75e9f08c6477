------------------------------ MODULE Inference ------------------------------
(***************************************************************************)
(* The questions the Enricher asks of Types (packages/compiler/src/        *)
(* enricher/enrichers.ts and helpers/index.ts): whether one accepts        *)
(* another, what Union a list of them makes, and which Overload an         *)
(* Invocation settles on, which binds the Type Parameters of one candidate *)
(* after another, one Argument at a time.                                  *)
(*                                                                         *)
(* An Argument has the Type it was enriched to, or is a Function literal   *)
(* that wrote no annotations and is typed by the Parameter it stands at.   *)
(* Protocol bounds, which may turn a candidate down afterwards, and        *)
(* prefixed Case constructions are left out.                               *)
(***************************************************************************)
EXTENDS Types

CONSTANTS
  Expected, Actual,   \* Types asked about: what is expected, what there is
  Unions,             \* lists of Types a Union is made of
  Calls,              \* Invocations: candidates and Arguments
  Samples             \* values to tell Types apart by

\* No default is followed by a Parameter of the same label, which the Resolver
\* refuses to declare; and a candidate that takes nothing has nothing to match.
Distinguishable(parameters) ==
  \A i, j \in DOMAIN parameters :
    i < j /\ parameters[i].hasDefault => parameters[i].name # parameters[j].name
ASSUME CandidatesAreDeclarable ==
  \A call \in Calls : \A i \in DOMAIN call.candidates :
    LET parameters == call.candidates[i].parameters
    IN  parameters # <<>> /\ Distinguishable(parameters)

VARIABLES
  asked,     \* the question being answered
  untried,   \* candidates still to be probed, the one being matched first
  pairing,   \* the Argument each of its Parameters was given
  todo,      \* Parameters still to be matched
  bound,     \* what its Type Parameters stand for so far
  answer
vars == <<asked, untried, pairing, todo, bound, answer>>

Nothing == [ask |-> "nothing"]
NoAnswer == [ok |-> FALSE, candidate |-> 0, type |-> Error]

\* The signature with its Type Parameters under fresh names.
Freshened(signature) ==
  LET rename == [g \in {Named(n) : n \in signature.generics} |-> Own(g.name)]
  IN  [signature EXCEPT !.parameters =
         [i \in DOMAIN @ |-> [@[i] EXCEPT !.type = Apply(@, rename)]]]
Unfreshened(t, signature) ==
  Apply(t, [g \in {Own(n) : n \in signature.generics} |-> Named(g.name)])

\* What the call answers with; a Type Parameter nothing bound is poison.
ResultOf(signature, bindings) ==
  Apply(signature.result,
        [g \in {Named(n) : n \in signature.generics} |->
           IF Own(g.name) \in DOMAIN bindings
           THEN Unfreshened(bindings[Own(g.name)], signature) ELSE Error])

\* A Function literal of one Parameter, by the Type it is expected to have. Its
\* result is read off its body where the expected one is not decided yet.
LiteralType(literal, expected) ==
  IF expected.is # "Function" \/ expected.parameters = <<>>
  THEN [is |-> "Function", result |-> Error,
        parameters |-> <<[name |-> "", type |-> Error, hasDefault |-> FALSE]>>]
  ELSE LET parameter == [expected.parameters[1] EXCEPT !.hasDefault = FALSE]
       IN  [is |-> "Function", parameters |-> <<parameter>>,
            result |-> IF OwnGenerics(expected.result) = {} THEN expected.result
                       ELSE IF literal.body.is = "Echo" THEN parameter.type
                       ELSE literal.body]

ArgumentType(argument, expected) ==
  IF argument.type.is = "Literal" THEN LiteralType(argument.type, expected)
  ELSE argument.type

\* One Parameter against the Argument it was given, if it was given one.
MatchOne(parameter, argument, bindings) ==
  IF parameter.name # argument.name THEN No(bindings)
  ELSE Match(parameter.type,
             ArgumentType(argument, Apply(parameter.type, bindings)), bindings)

\* Mutant: in the order they were written in.
WrittenOrder(candidates) == [i \in DOMAIN candidates |-> i]
\* Candidates that ask for a refinement anywhere are probed first.
ProbeOrder(candidates) ==
  LET Asks(i) == \E p \in ToSet(candidates[i].parameters) : AsksForEvidence(p.type)
      written == [i \in DOMAIN candidates |-> i]
  IN  SelectSeq(written, Asks) \o SelectSeq(written, LAMBDA i : ~Asks(i))

-----------------------------------------------------------------------------
Init ==
  /\ asked = Nothing
  /\ untried = <<>> /\ pairing = <<>> /\ todo = <<>>
  /\ bound = NothingBound
  /\ answer = NoAnswer

Idle == asked.ask = "nothing"
Answered == answer # NoAnswer
Matching == pairing # <<>>
Candidate == Freshened(asked.call.candidates[Head(untried)])

\* matchesType.
AskMatch(expected, actual) ==
  /\ Idle
  /\ asked' = [ask |-> "match", expected |-> expected, actual |-> actual]
  /\ answer' = [ok |-> Accepts(expected, actual), candidate |-> 1, type |-> actual]
  /\ UNCHANGED <<untried, pairing, todo, bound>>

\* buildUnion.
AskUnion(members) ==
  /\ Idle
  /\ asked' = [ask |-> "union", members |-> members]
  /\ answer' = [ok |-> TRUE, candidate |-> 1, type |-> BuildUnion(members)]
  /\ UNCHANGED <<untried, pairing, todo, bound>>

\* selectOverload begins.
AskCall(call) ==
  /\ Idle
  /\ asked' = [ask |-> "call", call |-> call]
  /\ untried' = ProbeOrder(call.candidates)
  /\ UNCHANGED <<pairing, todo, bound, answer>>

\* inferInvocation begins: a fresh context for each candidate.
Probe ==
  /\ asked.ask = "call" /\ ~Answered /\ ~Matching
  /\ untried # <<>>
  /\ bound' = NothingBound
  /\ LET pairings == Pairings(Candidate.parameters, asked.call.arguments)
     IN  IF pairings = {}
         THEN untried' = Tail(untried) /\ UNCHANGED <<pairing, todo>>
         ELSE /\ pairing' \in pairings
              /\ todo' = MatchingOrder(Candidate.parameters, NothingBound)
              /\ UNCHANGED untried
  /\ UNCHANGED <<asked, answer>>

\* One turn of matchArguments' loop; the first mismatch ends the candidate.
MatchNext ==
  /\ Matching /\ ~Answered
  /\ todo # <<>>
  /\ LET i == Head(todo)
         match == IF pairing[i] = 0 THEN Yes(bound)
                  ELSE MatchOne(Candidate.parameters[i],
                                asked.call.arguments[pairing[i]], bound)
     IN  /\ bound' = match.bound
         /\ IF match.ok
            THEN todo' = Tail(todo) /\ UNCHANGED <<untried, pairing>>
            ELSE todo' = <<>> /\ untried' = Tail(untried) /\ pairing' = <<>>
  /\ UNCHANGED <<asked, answer>>

\* The candidate the call settles on.
Select ==
  /\ Matching /\ ~Answered
  /\ todo = <<>>
  /\ answer' = [ok |-> TRUE, candidate |-> Head(untried),
                type |-> ResultOf(asked.call.candidates[Head(untried)], bound)]
  /\ UNCHANGED <<asked, untried, pairing, todo, bound>>

\* No Overload accepts these Arguments.
Refuse ==
  /\ asked.ask = "call" /\ ~Answered /\ ~Matching
  /\ untried = <<>>
  /\ answer' = [NoAnswer EXCEPT !.candidate = 1]
  /\ UNCHANGED <<asked, untried, pairing, todo, bound>>

\* On to the next question, which this one left nothing behind for.
GoOn ==
  /\ Answered
  /\ asked' = Nothing /\ answer' = NoAnswer
  /\ untried' = <<>> /\ pairing' = <<>> /\ todo' = <<>>
  /\ bound' = NothingBound

Ask ==
  \/ \E expected \in Expected, actual \in Actual : AskMatch(expected, actual)
  \/ \E members \in Unions : AskUnion(members)
  \/ \E call \in Calls : AskCall(call)

Next ==
  \/ Idle /\ Ask
  \/ Probe \/ MatchNext \/ Select \/ Refuse \/ GoOn

Spec == Init /\ [][Next]_vars

-----------------------------------------------------------------------------
(* What a Type says: which values have it.  A value is a record like a     *)
(* Type: a scalar carries the conjuncts that hold of it, a Function the    *)
(* Parameters it takes any value of and the result it answers any value of. *)
RECURSIVE Holds(_, _)
Holds(t, v) ==
  LET HoldMembers(members) ==
        \A m \in ToSet(members) :
          \E w \in ToSet(v.members) : w.name = m.name /\ Holds(m.type, w.value)
  IN CASE t.is \in Primitives -> v.is = t.is
       [] t.is = "Refinement" -> Holds(t.base, v) /\ t.conjuncts \subseteq v.facts
       [] t.is = "GenericUse" -> v.is = "Opaque" /\ v.name = t.name
       [] t.is = "GenericList" -> v.is = "List"
       [] t.is = "List" -> v.is = "List" /\ \A w \in ToSet(v.items) : Holds(t.item, w)
       [] t.is = "UnionType" -> \E u \in ToSet(t.types) : Holds(u, v)
       [] t.is = "Record" -> v.is = "Record" /\ HoldMembers(t.members)
       [] t.is = "Case" -> /\ v.is = "Case" /\ v.choice = t.choice /\ v.name = t.name
                           /\ HoldMembers(t.members)
       [] t.is = "Function" ->
            /\ v.is = "Function"
            /\ SameCallSyntax(t.parameters, v.parameters)
            /\ \A w \in Samples : \A i \in DOMAIN t.parameters :
                 Holds(t.parameters[i].type, w) => Holds(v.parameters[i].type, w)
            /\ \A w \in Samples : Holds(v.result, w) => Holds(t.result, w)
       [] OTHER -> FALSE      \* an Unknown is the item of no item

\* Whatever is of the actual Type is of the expected one: an assignment that
\* was let through never holds a value its Type does not name.
AssignableMeansContained ==
  asked.ask = "match" /\ answer.ok =>
    \A v \in Samples : Holds(asked.actual, v) => Holds(asked.expected, v)

\* A Union is of exactly the values of what it is made of, and is accepted by
\* nothing that one of them is not: what a member says is never lost to the
\* placeholder of an empty List, wherever in the list that stood. A Union that
\* accepts each of them accepts it, and no member repeats another.
UnionsSayWhatTheirMembersDo ==
  asked.ask = "union" /\ Answered =>
    LET union == answer.type
        members == ToSet(asked.members)
    IN /\ \A v \in Samples : Holds(union, v) <=> \E m \in members : Holds(m, v)
       /\ \A t \in Expected :
            /\ Accepts(t, union) => \A m \in members : Accepts(t, m)
            /\ IsUnion(t) /\ (\A m \in members : Accepts(t, m)) => Accepts(t, union)
       /\ IsAnonymousUnion(union) =>
            \A i, j \in DOMAIN union.types :
              i # j => ~Subsumes(union.types[i], union.types[j])

-----------------------------------------------------------------------------
Called == asked.ask = "call" /\ Answered
Settled == Called /\ answer.ok
Written == asked.call.arguments
Parameters == Candidate.parameters

\* Which Parameters could be left out for the Arguments to read as written.
Readings(parameters, arguments) ==
  {kept \in SUBSET DOMAIN parameters :
     /\ \A i \in DOMAIN parameters \ kept : parameters[i].hasDefault
     /\ LET taken == SetToSortSeq(kept, <)
        IN  /\ Len(taken) = Len(arguments)
            /\ \A k \in DOMAIN taken : parameters[taken[k]].name = arguments[k].name}

\* Every Argument arrives at the one Parameter its label can mean, and the list
\* that is emitted hands each Parameter its own Argument or a hole; a call that
\* can be read in some way is never refused for its shape.
ArgumentsArrive ==
  Called =>
    /\ answer.ok =>
         /\ Readings(Parameters, Written) =
              {{i \in DOMAIN pairing : pairing[i] # 0}}
         /\ \A i \in DOMAIN Parameters :
              LET list == Emitted(pairing, 0)
              IN  (IF i \in DOMAIN list THEN list[i] ELSE 0) = pairing[i]
    /\ \A k \in DOMAIN asked.call.candidates :
         LET parameters == asked.call.candidates[k].parameters
         IN  Readings(parameters, Written) # {} => Pairings(parameters, Written) # {}

\* The verdict on one candidate as a whole.
Infers(signature, arguments) ==
  LET parameters == Freshened(signature).parameters
  IN  \E paired \in Pairings(parameters, arguments) :
        FoldLeft(LAMBDA m, i :
                   IF ~m.ok \/ paired[i] = 0 THEN m
                   ELSE MatchOne(parameters[i], arguments[paired[i]], m.bound),
                 Yes(NothingBound), MatchingOrder(parameters, NothingBound)).ok

\* What every Type Parameter came to stand for fits every Argument at once, not
\* just the one that bound it.
ArgumentsFit ==
  Settled =>
    \A i \in DOMAIN Parameters :
      pairing[i] # 0 =>
        LET type == Apply(Parameters[i].type, bound)
        IN  Accepts(type, Apply(ArgumentType(Written[pairing[i]], type), bound))

\* A call is read as its labels and its Parameters' Types say (pairArguments,
\* matchArguments, openArgumentHoles).
CallsReadAsWritten == ArgumentsArrive /\ ArgumentsFit

-----------------------------------------------------------------------------
\* Orders that should decide nothing.

\* A Union's: a Parameter takes an Argument whichever way its Union is written.
Reversed(parameter) ==
  IF IsUnion(parameter.type)
  THEN [parameter EXCEPT !.type.types = Reverse(@)] ELSE parameter
UnionOrderDoesNot ==
  Called /\ Len(Written) = 1 /\ ~IsUnion(Written[1].type) =>
    \A k \in DOMAIN asked.call.candidates :
      LET signature == asked.call.candidates[k]
          reversed == [signature EXCEPT !.parameters =
                         [i \in DOMAIN @ |-> Reversed(@[i])]]
      IN  Infers(signature, Written) <=> Infers(reversed, Written)

\* The candidates': one that asks for evidence is not lost to one over the very
\* bases, which takes every Argument it would have taken.
TypesOf(parameters) == [i \in DOMAIN parameters |-> parameters[i].type]
Bases(types) ==
  [i \in DOMAIN types |->
     IF types[i].is = "Refinement" THEN types[i].base ELSE types[i]]
CandidateOrderDoesNot ==
  Settled =>
    LET mine == TypesOf(asked.call.candidates[answer.candidate].parameters)
    IN  ~\E k \in DOMAIN asked.call.candidates :
          LET other == asked.call.candidates[k]
              types == TypesOf(other.parameters)
          IN  mine # types /\ mine = Bases(types) /\ Infers(other, Written)

\* The Parameters': a callback is not typed while a Type Parameter is open that
\* another Argument names, which would pin it to a use of itself. What comes
\* before the callback and mentions it counts as naming it, which an omitted
\* Parameter and an empty List do not.
NamesNothing(i) ==
  \/ pairing[i] = 0
  \/ [is |-> "Unknown"] \in Within(Written[pairing[i]].type)
CallbackOrderDoesNot ==
  \A g \in DOMAIN bound : bound[g] = g =>
    \A i \in DOMAIN pairing :
      g \in OwnGenerics(Parameters[i].type) =>
        \/ Parameters[i].type.is = "Function"
        \/ \E j \in 1 .. i : g \in OwnGenerics(Parameters[j].type) /\ NamesNothing(j)

\* "the same call compiled or not depending on the order the Union was written
\* in" (helpers/index.ts:2427), "an Invocation resolved or failed depending on
\* the order the Overloads were declared in" (enrichers.ts:5597) and "inference
\* must not depend on the order the Parameters happen to be written in"
\* (helpers/index.ts:2735) are what these rules are there against.
OrderDoesNotDecide ==
  UnionOrderDoesNot /\ CandidateOrderDoesNot /\ CallbackOrderDoesNot

=============================================================================
