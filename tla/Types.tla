-------------------------------- MODULE Types --------------------------------
(***************************************************************************)
(* Types and the rules they are matched by (packages/compiler/src/helpers/ *)
(* index.ts).  A Type is a record whose field `is` names its kind: members *)
(* and parameters are sequences, in the order they were written in, and a  *)
(* refinement's conjuncts are a set.  A GenericUse is `own` when it names a *)
(* Type Parameter the call being matched may bind, under the fresh name    *)
(* that no source can spell; any other is an opaque symbol of the caller.  *)
(*                                                                         *)
(* Types are finite trees here, so the guard against re-entering a pair of *)
(* Cases and the shortcut of one object against itself decide nothing.     *)
(*                                                                         *)
(* Recursive operators are translated as such: TLC runs this module.       *)
(***************************************************************************)
EXTENDS Naturals, SequencesExt

Primitives == {"Integer", "String", "Boolean"}

Own(name) == [is |-> "GenericUse", name |-> name, own |-> TRUE]
Named(name) == [is |-> "GenericUse", name |-> name, own |-> FALSE]
Error == [is |-> "Error"]

IsGeneric(t) == t.is = "GenericUse"
IsUnion(t) == t.is = "UnionType"
IsAnonymousUnion(t) == IsUnion(t) /\ t.name = ""

\* What Type Parameters stand for: a function on some GenericUses.
NothingBound == [g \in {} |-> Error]
Bind(bound, generic, type) == bound @@ (generic :> type)

\* A Type Parameter of this call, unless it was pinned to a use of itself.
IsOpen(t, bound) ==
  /\ IsGeneric(t)
  /\ t.own
  /\ t \in DOMAIN bound => bound[t] # t

-----------------------------------------------------------------------------
\* The Types one Type is made of, and the walk of all of them.
Parts(t) ==
  CASE t.is = "List" -> {t.item}
    [] t.is = "Refinement" -> {t.base}
    [] t.is = "UnionType" -> ToSet(t.types)
    [] t.is \in {"Record", "Case"} -> {m.type : m \in ToSet(t.members)}
    [] t.is = "Function" -> {p.type : p \in ToSet(t.parameters)} \cup {t.result}
    [] OTHER -> {}

RECURSIVE Within(_)
Within(t) == {t} \cup UNION {Within(part) : part \in Parts(t)}

\* The Type Parameters of this call that a Type mentions.
OwnGenerics(t) == {u \in Within(t) : IsGeneric(u) /\ u.own}
AsksForEvidence(t) == \E u \in Within(t) : u.is = "Refinement"

\* Bound Type Parameters replaced; a substituted Union loses its name.
RECURSIVE Apply(_, _)
Apply(t, bound) ==
  LET InMembers(members) ==
        [i \in DOMAIN members |-> [members[i] EXCEPT !.type = Apply(@, bound)]]
  IN CASE IsGeneric(t) ->
            IF t \in DOMAIN bound THEN bound[t] ELSE t
       [] t.is = "List" -> [t EXCEPT !.item = Apply(@, bound)]
       [] t.is = "Refinement" -> [t EXCEPT !.base = Apply(@, bound)]
       [] t.is = "UnionType" ->
            LET types == [i \in DOMAIN t.types |-> Apply(t.types[i], bound)]
            IN  IF types = t.types THEN t
                ELSE [t EXCEPT !.types = types, !.name = ""]
       [] t.is \in {"Record", "Case"} -> [t EXCEPT !.members = InMembers(@)]
       [] t.is = "Function" ->
            [t EXCEPT !.parameters = InMembers(@), !.result = Apply(@, bound)]
       [] OTHER -> t

-----------------------------------------------------------------------------
\* What a match answers: its verdict and everything bound by then.
Yes(bound) == [ok |-> TRUE, bound |-> bound]
No(bound) == [ok |-> FALSE, bound |-> bound]
Verdict(ok, bound) == [ok |-> ok, bound |-> bound]

\* Members that would bind a Type Parameter come last.
ConcreteFirst(types, bound) ==
  LET Binds(t) == IsGeneric(t) /\ t.own /\ t \notin DOMAIN bound
  IN  SelectSeq(types, LAMBDA t : ~Binds(t)) \o SelectSeq(types, Binds)

\* Mutant: it keeps what it bound on its way down.
KeepBindings(before, attempt) == attempt
\* What a failed attempt leaves: the bindings from before it.
Rollback(before, attempt) == No(before)

NamesOf(members) == {m.name : m \in ToSet(members)}
MemberOf(members, name) ==
  (CHOOSE m \in ToSet(members) : m.name = name).type
MemberPairs(expected, actual) ==
  [i \in DOMAIN expected |->
     <<expected[i].type, MemberOf(actual, expected[i].name)>>]

\* Whether a call written against one Parameter list reads as one of the other.
SameCallSyntax(expected, actual) ==
  /\ Len(expected) = Len(actual)
  /\ \A i \in DOMAIN expected :
       /\ expected[i].name = actual[i].name
       /\ expected[i].hasDefault => actual[i].hasDefault

\* Mutant: Parameters in the direction of the result.
CovariantPairs(expected, actual) ==
  Append([i \in DOMAIN expected.parameters |->
            <<expected.parameters[i].type, actual.parameters[i].type>>],
         <<expected.result, actual.result>>)
\* Parameters the other way round, and the result.
SignaturePairs(expected, actual) ==
  Append([i \in DOMAIN expected.parameters |->
            <<actual.parameters[i].type, expected.parameters[i].type>>],
         <<expected.result, actual.result>>)

\* Having proved more is proof enough.
Proves(expected, actual) == expected.conjuncts \subseteq actual.conjuncts

RECURSIVE Match(_, _, _)

\* One pair after another, each from what the ones before it bound.
InTurn(pairs, bound) ==
  FoldLeft(LAMBDA m, pair : IF m.ok THEN Match(pair[1], pair[2], m.bound)
                            ELSE m,
           Yes(bound), pairs)

\* The first of the Types to accept rhs, each tried from the same bindings.
FirstToAccept(types, rhs, bound) ==
  FoldLeft(LAMBDA m, t : IF m.ok THEN m
                         ELSE LET attempt == Match(t, rhs, m.bound)
                              IN  IF attempt.ok THEN attempt
                                  ELSE Rollback(m.bound, attempt),
           No(bound), types)

\* An actual Union fits when each of its members does: whole, or, if it is a
\* Union that no single member takes, taken apart.
MatchUnion(lhs, rhs, bound) ==
  LET members == ConcreteFirst(lhs.types, bound)
      Accept(m, t) ==
        IF ~m.ok THEN m
        ELSE LET whole == FirstToAccept(members, t, m.bound)
             IN  IF ~whole.ok /\ IsUnion(t) THEN Match(lhs, t, whole.bound)
                 ELSE whole
  IN  IF IsUnion(rhs) THEN FoldLeft(Accept, Yes(bound), rhs.types)
      ELSE FirstToAccept(members, rhs, bound)

\* Mutant: and is not checked again.
BindOnce(generic, other, bound, expected) ==
  Yes(IF generic \in DOMAIN bound THEN bound ELSE Bind(bound, generic, other))
\* A Type Parameter binds what it meets first and is its binding from then on.
MatchGenericUse(generic, other, bound, expected) ==
  IF generic \notin DOMAIN bound
  THEN Yes(Bind(bound, generic, other))
  ELSE LET binding == bound[generic]
       IN  IF IsGeneric(binding) /\ binding = other THEN Yes(bound)
           ELSE IF expected THEN Match(binding, other, bound)
           ELSE Match(other, binding, bound)

\* Two Types of which neither is a Type Parameter to bind.
MatchShapes(lhs, rhs, bound) ==
  CASE lhs.is = "Unknown" -> Yes(bound)
    [] lhs.is \in Primitives -> Verdict(rhs.is = lhs.is, bound)
    [] lhs.is = "GenericList" ->
         Verdict(rhs.is \in {"GenericList", "List"}, bound)
    [] lhs.is = "UnionType" -> MatchUnion(lhs, rhs, bound)
    [] lhs.is = "List" /\ rhs.is = "List" ->
         IF rhs.item.is = "Unknown" THEN Yes(bound)
         ELSE Match(lhs.item, rhs.item, bound)
    [] /\ lhs.is = "Case" /\ rhs.is = "Case"
       /\ lhs.choice = rhs.choice /\ lhs.name = rhs.name
       /\ NamesOf(lhs.members) = NamesOf(rhs.members) ->
         InTurn(MemberPairs(lhs.members, rhs.members), bound)
    [] /\ lhs.is = "Record" /\ rhs.is = "Record"
       /\ NamesOf(lhs.members) \subseteq NamesOf(rhs.members) ->
         InTurn(MemberPairs(lhs.members, rhs.members), bound)
    [] /\ lhs.is = "Function" /\ rhs.is = "Function"
       /\ SameCallSyntax(lhs.parameters, rhs.parameters) ->
         InTurn(SignaturePairs(lhs, rhs), bound)
    [] OTHER -> No(bound)

\* Whether a value of rhs may stand where lhs is expected.
Match(lhs, rhs, bound) ==
  IF "Error" \in {lhs.is, rhs.is} THEN Yes(bound)
  ELSE IF rhs.is = "Refinement" /\ lhs.is \notin {"Refinement", "UnionType"}
  THEN Match(lhs, rhs.base, bound)
  ELSE IF lhs.is = "Refinement"
  THEN IF rhs.is # "Refinement" THEN No(bound)
       ELSE LET base == Match(lhs.base, rhs.base, bound)
            IN  [base EXCEPT !.ok = @ /\ Proves(lhs, rhs)]
  ELSE IF IsOpen(lhs, bound)
  THEN MatchGenericUse(lhs, rhs, bound, TRUE)
  ELSE IF IsOpen(rhs, bound)
  THEN MatchGenericUse(rhs, lhs, bound, FALSE)
  ELSE IF IsGeneric(lhs) THEN Verdict(lhs = rhs, bound)
  ELSE MatchShapes(lhs, rhs, bound)

\* Outside of a call there is nothing to bind.
Accepts(lhs, rhs) == Match(lhs, rhs, NothingBound).ok

-----------------------------------------------------------------------------
\* An Unknown where the other names a Type: the placeholder of an empty List.
RECURSIVE LessSpecific(_, _)
LessSpecific(left, right) ==
  \/ left.is = "Unknown" /\ right.is # "Unknown"
  \/ left.is = "List" /\ right.is = "List" /\ LessSpecific(left.item, right.item)

\* Mutant: assignability is taken for that order.
SubsumesIfAccepts(existing, member) == Accepts(existing, member)
\* Whether a member says nothing that `existing` does not cover.
Subsumes(existing, member) ==
  /\ Accepts(existing, member)
  /\ ~(LessSpecific(existing, member) /\ Accepts(member, existing))

\* One member collected beside the distinct ones found so far.
RECURSIVE Collect(_, _)
Collect(distinct, member) ==
  IF IsAnonymousUnion(member) THEN FoldLeft(Collect, distinct, member.types)
  ELSE IF \E t \in ToSet(distinct) : Subsumes(t, member) THEN distinct
  ELSE Append(SelectSeq(distinct, LAMBDA t : ~Subsumes(member, t)), member)

UnionOf(distinct) ==
  IF Len(distinct) = 1 THEN distinct[1]
  ELSE [is |-> "UnionType", types |-> distinct, name |-> ""]
BuildUnion(members) == UnionOf(FoldLeft(Collect, <<>>, members))

-----------------------------------------------------------------------------
\* Mutant: the Argument in turn, whatever its label.
GreedyByPlace(parameters, arguments) ==
  [to |-> [i \in DOMAIN parameters |-> IF i <= Len(arguments) THEN i ELSE 0],
   next |-> 1 + (IF Len(arguments) < Len(parameters) THEN Len(arguments)
                 ELSE Len(parameters)),
   ok |-> \A i \in DOMAIN parameters : i > Len(arguments) => parameters[i].hasDefault]
\* Which Argument each Parameter is given, by labels and defaults alone: 0 is
\* none. Greedy: the Argument in turn when the labels agree, the default when
\* there is one, and otherwise the Argument all the same.
Greedy(parameters, arguments) ==
  FoldLeft(LAMBDA p, parameter :
             LET written == p.next <= Len(arguments)
                 takes == /\ written
                          /\ \/ arguments[p.next].name = parameter.name
                             \/ ~parameter.hasDefault
             IN  [to |-> Append(p.to, IF takes THEN p.next ELSE 0),
                  next |-> IF takes THEN p.next + 1 ELSE p.next,
                  ok |-> p.ok /\ (takes \/ parameter.hasDefault)],
           [to |-> <<>>, next |-> 1, ok |-> TRUE], parameters)


\* The empty set is an arity mismatch. Left-over Arguments of a call with as
\* many as there are Parameters were written one for one.
Pairings(parameters, arguments) ==
  LET greedy == Greedy(parameters, arguments)
  IN  IF ~greedy.ok THEN {}
      ELSE IF greedy.next = Len(arguments) + 1 THEN {greedy.to}
      ELSE IF Len(parameters) = Len(arguments)
      THEN {[i \in DOMAIN parameters |-> i]} ELSE {}

\* Mutant: nothing is held back.
NeverWaits(parameter, named) == FALSE
\* The order Parameters are matched in: callbacks whose own Parameters wait for
\* a Type Parameter that nothing before them names are held back to the end.
Waits(parameter, named) ==
  /\ parameter.type.is = "Function"
  /\ \E p \in ToSet(parameter.type.parameters) : ~(OwnGenerics(p.type) \subseteq named)

MatchingOrder(parameters, bound) ==
  LET order == FoldLeft(LAMBDA o, i :
                 IF Waits(parameters[i], o.named)
                 THEN [o EXCEPT !.deferred = Append(@, i)]
                 ELSE [o EXCEPT !.immediate = Append(@, i),
                                !.named = @ \cup OwnGenerics(parameters[i].type)],
               [immediate |-> <<>>, deferred |-> <<>>, named |-> DOMAIN bound],
               [i \in DOMAIN parameters |-> i])
  IN  order.immediate \o order.deferred

\* The Argument list a call is emitted with: Hole where a default is taken,
\* holes at the end left out.
Emitted(pairing, Hole) ==
  LET last == CHOOSE i \in 0 .. Len(pairing) :
                /\ \A j \in i + 1 .. Len(pairing) : pairing[j] = 0
                /\ i = 0 \/ pairing[i] # 0
  IN  [i \in 1 .. last |-> IF pairing[i] = 0 THEN Hole ELSE pairing[i]]
=============================================================================
