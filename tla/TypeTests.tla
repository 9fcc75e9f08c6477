------------------------------ MODULE TypeTests ------------------------------
(***************************************************************************)
(* What is left of Types when a Program runs: the check of a value against *)
(* a Type (runtime/src/type.ts), the two questions the Validator asks of   *)
(* that check without having a value (compiler/src/validator/index.ts),    *)
(* and what the Optimiser makes of it (compiler/src/optimiser/residual.ts).*)
(*                                                                         *)
(* Refinements, Signatures and Type Parameters leave nothing behind.  A    *)
(* value is a record of the kind that the Inference module describes.      *)
(***************************************************************************)
EXTENDS Types

HasMembers(t) == t.is \in {"Record", "Case"}
IsListType(t) == t.is \in {"List", "GenericList"}
Undecided == [is |-> "Unknown"]

RECURSIVE Arms(_)
\* A Union's members, however they are nested; anything else is one of its own.
Arms(t) ==
  IF IsUnion(t) THEN FlattenSeq([i \in DOMAIN t.types |-> Arms(t.types[i])])
  ELSE <<t>>

RECURSIVE Erased(_)
\* A Type as the emitted Program has it.
Erased(t) ==
  LET InMembers(members) ==
        [i \in DOMAIN members |-> [members[i] EXCEPT !.type = Erased(@)]]
  IN CASE t.is = "Refinement" -> Erased(t.base)
       [] t.is = "List" -> [t EXCEPT !.item = Erased(@)]
       [] t.is = "UnionType" ->
            [t EXCEPT !.types = [i \in DOMAIN @ |-> Erased(@[i])]]
       [] HasMembers(t) -> [t EXCEPT !.members = InMembers(@)]
       [] t.is = "Function" ->
            [t EXCEPT !.parameters = InMembers(@), !.result = Erased(@)]
       [] OTHER -> t

\* Each member the Matcher names beside the one that is declared for it.
Declares(matcher, t) == NamesOf(matcher.members) \subseteq NamesOf(t.members)
DeclaredPairs(matcher, t) == ToSet(MemberPairs(matcher.members, t.members))

\* Two Types of one structure, which their members decide.
Comparable(matcher, t) ==
  \/ matcher.is = "Record" /\ t.is = "Record"
  \/ /\ matcher.is = "Case" /\ t.is = "Case"
     /\ matcher.choice = t.choice /\ matcher.name = t.name

-----------------------------------------------------------------------------
\* The hidden key of a value, and of the values of a Type where it is known.
\* Nothing holds that of a Function.
NoTag == <<>>
Tag(t) ==
  CASE t.is \in Primitives \cup {"Record", "Function"} -> <<t.is>>
    [] IsListType(t) -> <<"List">>
    [] t.is = "Case" -> <<t.choice, t.name>>
    [] OTHER -> NoTag
TagOf(v) == IF v.is = "Case" THEN <<v.choice, v.name>>
            ELSE IF v.is = "Function" THEN NoTag ELSE <<v.is>>

RECURSIVE IsValueOfType(_, _)
IsValueOfType(v, t) ==
  LET Carried == \A m \in ToSet(t.members) :
        \E w \in ToSet(v.members) : w.name = m.name /\ IsValueOfType(w.value, m.type)
  IN CASE t.is \in Primitives -> TagOf(v) = Tag(t)
       [] HasMembers(t) -> TagOf(v) = Tag(t) /\ Carried
       [] t.is = "List" ->
            /\ v.is = "List"
            /\ \/ t.item = Undecided
               \/ \A w \in ToSet(v.items) : IsValueOfType(w, t.item)
       [] t.is = "GenericList" -> v.is = "List"
       [] t.is = "UnionType" -> \E u \in ToSet(t.types) : IsValueOfType(v, u)
       [] t.is = "Function" -> v.is = "Function"
       [] OTHER -> TRUE

-----------------------------------------------------------------------------
\* The Validator's questions.

ItemOf(t) == IF t.is = "List" THEN t.item ELSE Undecided

RECURSIVE AcceptsAllAtRuntime(_, _)
\* Whether the check of `matcher` is passed by every value of a Type.
AcceptsAllAtRuntime(matcher, t) ==
  IF "Refinement" \in {matcher.is, t.is}
  THEN AcceptsAllAtRuntime(Erased(matcher), Erased(t))
  ELSE \/ matcher.is \in {"GenericUse", "Unknown"}
       \/ Accepts(matcher, t)
       \/ IF IsUnion(t)
          THEN \A arm \in ToSet(Arms(t)) : AcceptsAllAtRuntime(matcher, arm)
          ELSE CASE IsUnion(matcher) ->
                 \E arm \in ToSet(Arms(matcher)) : AcceptsAllAtRuntime(arm, t)
            [] matcher.is = "Function" -> t.is = "Function"
            [] Comparable(matcher, t) ->
                 /\ Declares(matcher, t)
                 /\ \A pair \in DeclaredPairs(matcher, t) :
                      AcceptsAllAtRuntime(pair[1], pair[2])
            [] IsListType(matcher) /\ IsListType(t) ->
                 \/ ItemOf(matcher) = Undecided
                 \/ /\ ItemOf(t) # Undecided
                    /\ AcceptsAllAtRuntime(ItemOf(matcher), ItemOf(t))
            [] OTHER -> FALSE

RECURSIVE OverlapsAtRuntime(_, _)
\* Whether it is passed by any: an empty List passes for every List.
OverlapsAtRuntime(matcher, t) ==
  IF "Refinement" \in {matcher.is, t.is}
  THEN OverlapsAtRuntime(Erased(matcher), Erased(t))
  ELSE \/ AcceptsAllAtRuntime(matcher, t)
       \/ IF IsUnion(t)
          THEN \E arm \in ToSet(Arms(t)) : OverlapsAtRuntime(matcher, arm)
          ELSE CASE IsUnion(matcher) ->
                 \E arm \in ToSet(Arms(matcher)) : OverlapsAtRuntime(arm, t)
            [] matcher.is = "Function" -> t.is = "Function"
            [] Comparable(matcher, t) ->
                 /\ Declares(matcher, t)
                 /\ \A pair \in DeclaredPairs(matcher, t) :
                      OverlapsAtRuntime(pair[1], pair[2])
            [] OTHER -> IsListType(matcher) /\ IsListType(t)

RECURSIVE OverlapsThroughEmptyList(_, _)
\* Whether what they share are the empty Lists, here or in a member.
OverlapsThroughEmptyList(matcher, t) ==
  IF "Refinement" \in {matcher.is, t.is}
  THEN OverlapsThroughEmptyList(Erased(matcher), Erased(t))
  ELSE IF IsUnion(t)
  THEN \E arm \in ToSet(Arms(t)) : OverlapsThroughEmptyList(matcher, arm)
  ELSE CASE IsListType(matcher) /\ IsListType(t) -> ~AcceptsAllAtRuntime(matcher, t)
         [] IsUnion(matcher) ->
              \E arm \in ToSet(Arms(matcher)) : OverlapsThroughEmptyList(arm, t)
         [] HasMembers(matcher) /\ matcher.is = t.is ->
              \E m \in ToSet(matcher.members) :
                /\ m.name \in NamesOf(t.members)
                /\ OverlapsThroughEmptyList(m.type, MemberOf(t.members, m.name))
         [] OTHER -> FALSE

-----------------------------------------------------------------------------
\* The Optimiser's: what the check comes to for values of these Types.

RECURSIVE CheckIsImplied(_, _)
CheckIsImplied(matcher, t) ==
  IF matcher.is \in {"Unknown", "GenericUse"} THEN TRUE
  ELSE IF IsUnion(t) THEN \A u \in ToSet(t.types) : CheckIsImplied(matcher, u)
  ELSE IF IsUnion(matcher) THEN \E u \in ToSet(matcher.types) : CheckIsImplied(u, t)
  ELSE CASE matcher.is \in Primitives \cup {"Function"} -> t.is = matcher.is
    [] IsListType(matcher) ->
         IF ItemOf(matcher) = Undecided THEN IsListType(t)
         ELSE t.is = "List" /\ CheckIsImplied(matcher.item, t.item)
    [] OTHER ->
         /\ Comparable(matcher, t) /\ Declares(matcher, t)
         /\ \A pair \in DeclaredPairs(matcher, t) : CheckIsImplied(pair[1], pair[2])

RECURSIVE CheckIsRefuted(_, _)
CheckIsRefuted(matcher, t) ==
  IF matcher.is \in {"Unknown", "GenericUse"} THEN FALSE
  ELSE IF IsUnion(t) THEN \A u \in ToSet(t.types) : CheckIsRefuted(matcher, u)
  ELSE IF IsUnion(matcher) THEN \A u \in ToSet(matcher.types) : CheckIsRefuted(u, t)
  ELSE NoTag \notin {Tag(matcher), Tag(t)} /\ Tag(matcher) # Tag(t)

MatcherIsRefuted(matcher, t) ==
  \A arm \in ToSet(Arms(t)) : CheckIsRefuted(matcher, arm)

CheckIsTagAlone(matcher) ==
  \/ matcher.is \in Primitives
  \/ IsListType(matcher) /\ ItemOf(matcher) = Undecided
  \/ HasMembers(matcher) /\ matcher.members = <<>>

\* Mutant: the first to carry the tag, whoever else does.
FirstClaimant(tag, members) ==
  {i \in DOMAIN members : Tag(members[i]) = tag /\
     \A j \in DOMAIN members : j < i => Tag(members[j]) # tag}
\* The one member that can carry a tag, when there is one.
SoleClaimant(tag, members) ==
  LET claimants == {i \in DOMAIN members : Tag(members[i]) = tag}
  IN  IF \/ Cardinality(claimants) # 1
         \/ \E i \in DOMAIN members : Tag(members[i]) = NoTag
      THEN {} ELSE claimants

\* Its kind: a comparison of tags, nothing, or the walk as it was written.
MatcherResidual(matcher, members) ==
  LET tag == IF matcher.is = "Function" THEN NoTag ELSE Tag(matcher)
  IN  IF /\ tag # NoTag
         /\ \/ CheckIsTagAlone(matcher)
            \/ \E i \in SoleClaimant(tag, members) : CheckIsImplied(matcher, members[i])
      THEN "tag"
      ELSE IF \A i \in DOMAIN members : CheckIsImplied(matcher, members[i])
      THEN "always" ELSE "descriptor"

-----------------------------------------------------------------------------
\* One question of a test: of what is found down a spine of members.
AsksTag(path, t, optional) ==
  [ask |-> "tag", path |-> path, type |-> t, optional |-> optional]
AsksWalk(path, t) == [ask |-> "walk", path |-> path, type |-> t]
AsksIs(path, literal) == [ask |-> "is", path |-> path, literal |-> literal]

\* By cost, then by depth, then as they are: what is read off a member comes
\* behind what says the member is there.
OrderedTests(tests) ==
  LET Kept(isWalk, depth) ==
        SelectSeq(tests, LAMBDA q : (q.ask = "walk") = isWalk /\ Len(q.path) = depth)
      Deepest == Max({0} \cup {Len(q.path) : q \in ToSet(tests)})
      OfKind(isWalk) ==
        FlattenSeq([n \in 1 .. Deepest + 1 |-> Kept(isWalk, n - 1)])
  IN  OfKind(FALSE) \o OfKind(TRUE)

Refused == [ok |-> FALSE, tests |-> <<>>]
AnyRecord == [is |-> "Record", members |-> <<>>]

RECURSIVE PlanRecordTests(_, _, _)
\* The members of a Record Matcher that are still to be asked about when a
\* value of one of these Types arrives: none of what all of them declare fitting
\* it. What some do not declare may be missing, and may be anything.
PlanRecordTests(matcher, arriving, path) ==
  LET records == SelectSeq(arriving, LAMBDA t : t.is = "Record")
      first == IF Len(records) < Len(arriving)
               THEN <<AsksTag(path, AnyRecord, FALSE)>> ELSE <<>>
      Plan(plan, member) ==
        LET spine == Append(path, member.name)
            declared == FlattenSeq([i \in DOMAIN records |->
                          Arms(MemberOf(records[i].members, member.name))])
            nested == PlanRecordTests(member.type, declared, spine)
            More(tests) == [plan EXCEPT !.tests = @ \o tests]
        IN  IF ~plan.ok THEN plan
            ELSE IF \E i \in DOMAIN records : member.name \notin NamesOf(records[i].members)
            THEN IF MatcherResidual(member.type, <<Undecided>>) = "tag"
                 THEN More(<<AsksTag(spine, member.type, TRUE)>>) ELSE Refused
            ELSE IF \A i \in DOMAIN declared : CheckIsImplied(member.type, declared[i])
            THEN plan
            ELSE IF MatcherResidual(member.type, declared) = "tag"
            THEN More(<<AsksTag(spine, member.type, FALSE)>>)
            ELSE IF member.type.is = "Record" /\ nested.ok THEN More(nested.tests)
            ELSE More(<<AsksWalk(spine, member.type)>>)
  IN  IF \E i \in DOMAIN arriving : Tag(arriving[i]) = NoTag THEN Refused
      ELSE FoldLeft(Plan, [ok |-> TRUE, tests |-> first], matcher.members)

\* The tests in place of a walk, or the walk when there are none.
RecordMatcherTests(matcher, t) ==
  LET plan == PlanRecordTests(matcher, Arms(t), <<>>)
  IN  IF matcher.is # "Record" \/ ~plan.ok THEN <<>> ELSE OrderedTests(plan.tests)
=============================================================================
