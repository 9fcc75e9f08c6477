----------------------------- MODULE MCInference -----------------------------
(* Types, lists of them, Invocations and Match Expressions, each small and *)
(* every one spelled the way a Program or the Enricher could have it.      *)
EXTENDS MatchExpressions

\* Types.
Integer == [is |-> "Integer"]
String == [is |-> "String"]
Unknown == [is |-> "Unknown"]
GenericList == [is |-> "GenericList"]
Refined(base, conjuncts) == [is |-> "Refinement", base |-> base, conjuncts |-> conjuncts]
NonZero == Refined(Integer, {"nonZero"})
Positive == Refined(Integer, {"nonZero", "aboveZero"})
Listing(item) == [is |-> "List", item |-> item]
Union(types) == [is |-> "UnionType", types |-> types, name |-> ""]
Choice(name, types) == [is |-> "UnionType", types |-> types, name |-> name]
Member(name, type) == [name |-> name, type |-> type]
Record(members) == [is |-> "Record", members |-> members]
Case(name, members) ==
  [is |-> "Case", choice |-> "Box", name |-> name, members |-> members]
Parameter(name, type) == [name |-> name, type |-> type, hasDefault |-> FALSE]
Optional(name, type) == [Parameter(name, type) EXCEPT !.hasDefault = TRUE]
Function(parameters, result) ==
  [is |-> "Function", parameters |-> parameters, result |-> result]
Takes(type, result) == Function(<<Parameter("", type)>>, result)
TakesOrNot(type, result) == Function(<<Optional("", type)>>, result)

Empty == Case("Empty", <<>>)
Full(type) == Case("Full", <<Member("item", type)>>)
Scalars == {Integer, String, NonZero, Positive, Named("T")}
Mixed == Union(<<Integer, String>>)
Text == Choice("Text", <<String, Integer>>)
Evidence == Union(<<NonZero, String>>)
Nested == Union(<<Text, Empty>>)

Shallow ==
  Scalars \cup {Mixed, Text, Evidence, Nested, GenericList, Union(<<Named("T"), String>>)}
  \cup {Listing(t) : t \in Scalars \cup {Mixed, Evidence, Listing(Integer)}}
  \cup {Union(<<Listing(Integer), Listing(String)>>)}
  \cup {Record(<<Member("a", t)>>) : t \in {Integer, NonZero, Mixed}}
  \cup {Record(<<Member("b", String), Member("a", Integer)>>), Record(<<>>)}
  \cup {Empty, Full(Integer), Full(Mixed), Union(<<Empty, Full(NonZero)>>)}
  \cup {Takes(p, r) : p \in {Integer, NonZero, Mixed}, r \in {Integer, Positive, Mixed}}
  \cup {TakesOrNot(Integer, Integer), Function(<<Parameter("by", Integer)>>, Integer),
        Function(<<>>, Integer), Takes(Takes(Mixed, Integer), Integer),
        Takes(Takes(Integer, Integer), Integer), Union(<<Takes(Integer, Mixed), Empty>>)}
\* ... and everything above as an item, a member and a result.
Expectable ==
  Shallow \cup {Listing(t) : t \in Shallow} \cup {Takes(Integer, t) : t \in Shallow}
  \cup {Record(<<Member("a", t)>>) : t \in Shallow}
Present == Expectable \cup {Listing(Unknown), Listing(Listing(Unknown))}

\* Values.
Scalar(is, facts) == [is |-> is, facts |-> facts]
Held(name, value) == [name |-> name, value |-> value]
Zero == Scalar("Integer", {"isZero"})
Minus == Scalar("Integer", {"nonZero"})
One == Scalar("Integer", {"nonZero", "aboveZero", "isOne"})
Word == Scalar("String", {"isWord"})
Atoms == {Zero, Minus, One, Word, [is |-> "Opaque", name |-> "T"]}
Row(items) == [is |-> "List", items |-> items]
Simple ==
  Atoms \cup {Row(<<>>), Row(<<Zero, Word>>), Row(<<Row(<<>>)>>), Row(<<Row(<<One>>)>>)}
  \cup {Row(<<v>>) : v \in Atoms}
  \cup {[is |-> "Record", members |-> <<>>]}
  \cup {[is |-> "Record", members |-> <<Held("a", v)>>] : v \in Atoms}
  \cup {[is |-> "Record", members |-> <<Held("a", v), Held("b", Word)>>] : v \in {Zero, One}}
  \cup {[is |-> "Case", choice |-> "Box", name |-> "Empty", members |-> <<>>]}
  \cup {[is |-> "Case", choice |-> "Box", name |-> "Full", members |-> <<Held("item", v)>>]
        : v \in {Zero, One, Word}}
  \cup {f \in Shallow : f.is = "Function"}
Witnesses ==
  Simple \cup {Row(<<v>>) : v \in Simple}
  \cup {[is |-> "Record", members |-> <<Held("a", v)>>] : v \in Simple}

\* What Unions are made of, three at a time at most.
Makings == {Integer, NonZero, String, Mixed, Text, Listing(Unknown), Listing(Integer),
            Listing(Listing(Unknown)), Listing(Listing(String)), Listing(Mixed),
            Record(<<Member("a", Integer)>>), Takes(Integer, Integer), Empty}
ThreeAtMost == UNION {[1 .. n -> Makings] : n \in 2 .. 3}

\* Invocations.
Signature(generics, parameters, result) ==
  [generics |-> generics, parameters |-> parameters, result |-> result]
Call(candidates, arguments) == [candidates |-> candidates, arguments |-> arguments]
Argument(name, type) == [name |-> name, type |-> type]
Literal(body) == [is |-> "Literal", body |-> body]
Echo == [is |-> "Echo"]
T == Named("T")
U == Named("U")
Plain == {Integer, NonZero, String, Mixed, Listing(Unknown), Listing(Integer), T}
Callbacks == {Literal(Echo), Literal(String), Takes(Integer, Integer),
              Takes(Mixed, NonZero), TakesOrNot(Mixed, Integer)}

\* Labels and defaults, which no Type has a say in.
ShapedParameters ==
  {[name |-> l, type |-> Integer, hasDefault |-> d] : l \in {"", "to"}, d \in BOOLEAN}
ShapedLists == UNION {[1 .. n -> ShapedParameters] : n \in 1 .. 3}
ShapedArguments ==
  UNION {[1 .. n -> {Argument(l, Integer) : l \in {"", "to"}}] : n \in 0 .. 3}
ShapedCalls ==
  {Call(<<Signature({}, parameters, Integer)>>, arguments) :
     parameters \in {p \in ShapedLists : Distinguishable(p)},
     arguments \in ShapedArguments}

\* One Type Parameter met twice.
Pair == Signature({"T"}, <<Parameter("", T), Parameter("to", T)>>, T)
PairCalls ==
  {Call(<<Pair>>, <<Argument("", t), Argument("to", u)>>) : t \in Plain, u \in Plain}

\* A callback before what names its Types, behind another, or the last of all.
Early == Signature({"T"}, <<Parameter("by", Takes(T, T)), Parameter("to", T)>>, T)
Behind == Signature({"T", "U"},
  <<Parameter("by", Takes(T, U)), Parameter("and", Takes(Integer, T)),
    Parameter("to", U)>>, Listing(T))
Trailing == Signature({"T", "U"},
  <<Parameter("", Listing(T)), Parameter("by", Takes(T, U))>>, Listing(U))
CallbackCalls ==
  {Call(<<Early>>, <<Argument("by", c), Argument("to", t)>>) :
     c \in Callbacks, t \in Plain}
  \cup {Call(<<Behind>>, <<Argument("by", c), Argument("and", d), Argument("to", t)>>) :
     c \in Callbacks, d \in Callbacks, t \in Plain}
  \cup {Call(<<Trailing>>, <<Argument("", t), Argument("by", c)>>) :
     c \in Callbacks, t \in Plain \cup {Listing(Mixed), Listing(T), GenericList}}

\* A Parameter that mentions a Type Parameter and may be left out.
Seeded == Signature({"T"},
  <<Optional("from", Listing(T)), Parameter("by", Takes(T, T)), Parameter("to", T)>>, T)
SeededCalls ==
  {Call(<<Seeded>>, <<Argument("by", c), Argument("to", t)>>) :
     c \in Callbacks, t \in Plain}
  \cup {Call(<<Seeded>>, <<Argument("from", s), Argument("by", c), Argument("to", t)>>) :
     s \in {Listing(Unknown), Listing(Integer)}, c \in Callbacks, t \in Plain}

\* Unions that mention one.
Sides(left, right) == Record(<<Member("left", left), Member("right", right)>>)
Either(type) == Signature({"T"}, <<Parameter("", type)>>, T)
UnionCalls ==
  {Call(<<Either(Union(<<Sides(T, String), Sides(String, T)>>))>>,
        <<Argument("", Sides(l, r))>>) : l \in Scalars, r \in Scalars}
  \cup {Call(<<Either(Union(types))>>, <<Argument("", t)>>) :
     types \in {<<T, Empty>>, <<Full(T), Listing(T), T>>},
     t \in Plain \cup {Empty, Full(Integer), Nested}}

\* Overloads, in either order.
OverInteger == Signature({}, <<Parameter("", Integer)>>, Integer)
OverNonZero == Signature({}, <<Parameter("", NonZero)>>, NonZero)
OverList == Signature({"T"}, <<Parameter("", Listing(T))>>, T)
OverAny == Signature({"T"}, <<Parameter("", T)>>, Listing(T))
OverloadCalls ==
  {Call(candidates, <<Argument("", t)>>) :
     candidates \in {<<OverInteger, OverNonZero>>, <<OverNonZero, OverInteger>>,
                     <<OverList, OverInteger, OverAny>>, <<OverInteger, OverList>>},
     t \in Plain \cup {Positive}}

SmallCalls == ShapedCalls \cup PairCalls \cup CallbackCalls \cup SeededCalls
                \cup UnionCalls \cup OverloadCalls

-----------------------------------------------------------------------------
\* Handlers as they are written.
Wildcard == [form |-> "wildcard"]
OfType(type) == [form |-> "type", type |-> type]
OfLiteral(literal) == [form |-> "literal", literal |-> literal]
OfCase(name, pattern) ==
  [form |-> "case", choice |-> "", name |-> name, pattern |-> pattern]
OfPattern(members) == [form |-> "pattern", members |-> members]
Bare(name) == [name |-> name, annotation |-> <<>>, literal |-> <<>>, nested |-> <<>>]
Annotated(name, type) == [Bare(name) EXCEPT !.annotation = <<type>>]
Valued(name, literal) == [Bare(name) EXCEPT !.literal = <<literal>>]
Inside(name, members) == [Bare(name) EXCEPT !.nested = members]
\* A literal, what being it proves and what not being it proves.
IsZero == [value |-> Zero, proves |-> {"isZero"}, refutes |-> {"nonZero"}]
IsOne == [value |-> One, proves |-> {"isOne"}, refutes |-> {}]
IsWord == [value |-> Word, proves |-> {"isWord"}, refutes |-> {}]

\* One or two Handlers, with Guards or without, and one for the rest or none.
MatchOf(value, matchers) ==
  LET one == [matcher : matchers, guarded : BOOLEAN]
      few == UNION {[1 .. n -> one] : n \in 1 .. 2}
      rest == [matcher |-> Wildcard, guarded |-> FALSE]
  IN  [value : {value}, handlers : few \cup {Append(h, rest) : h \in few}]

A(type) == Record(<<Member("a", type)>>)
B == Record(<<Member("b", String)>>)
OnInteger == Takes(Integer, Integer)
OnString == Takes(String, Integer)
Boxes(type) == Choice("Box", <<Empty, Full(type)>>)

\* What is told apart by kind, by values, by Cases and their payloads.
KindMatches ==
  MatchOf(Mixed, {OfType(Integer), OfType(String), OfType(NonZero), OfLiteral(IsZero),
                  OfLiteral(IsWord)})
  \cup MatchOf(Nested, {OfType(Text), OfType(Integer), OfType(String), OfCase("Empty", <<>>)})
  \cup MatchOf(Evidence, {OfType(Integer), OfLiteral(IsOne), OfType(String)})
  \cup MatchOf(Integer, {OfLiteral(IsZero), OfLiteral(IsOne), OfLiteral(IsWord), OfType(Integer)})
  \cup MatchOf(NonZero, {OfLiteral(IsZero), OfLiteral(IsOne), OfType(Integer)})
CaseMatches ==
  MatchOf(Boxes(Mixed),
    {OfCase("Empty", <<>>), OfCase("Full", <<>>), OfCase("Full", <<Bare("item")>>),
     OfCase("Full", <<Annotated("item", Integer)>>), OfCase("Full", <<Bare("other")>>),
     OfCase("Full", <<Valued("item", IsZero)>>), OfCase("Other", <<>>)})
  \cup MatchOf(Union(<<Full(Integer), Full(String)>>),
    {OfCase("Full", <<>>), OfCase("Full", <<Annotated("item", Integer)>>),
     OfCase("Full", <<Valued("item", IsWord)>>)})
  \cup MatchOf(Boxes(Union(<<A(Integer), A(String), String>>)),
    {OfCase("Full", <<Bare("a")>>), OfCase("Full", <<Annotated("a", Integer)>>),
     OfCase("Full", <<Valued("a", IsZero)>>), OfCase("Empty", <<>>),
     OfCase("Full", <<Inside("item", <<Annotated("a", String)>>)>>)})
\* What is told apart by members, by members of members and by items.
MemberMatches ==
  MatchOf(Union(<<A(Integer), A(String), B>>),
    {OfPattern(<<Annotated("a", Integer)>>), OfPattern(<<Bare("a")>>),
     OfPattern(<<Bare("b")>>), OfPattern(<<Valued("a", IsZero)>>),
     OfPattern(<<Bare("c")>>), OfType(A(String))})
  \cup MatchOf(Union(<<A(Mixed), B, String>>),
    {OfPattern(<<Annotated("a", Integer)>>), OfPattern(<<Annotated("a", Integer), Bare("b")>>),
     OfPattern(<<Annotated("a", A(Integer))>>), OfType(String)})
  \cup MatchOf(Union(<<A(A(Integer)), A(A(String)), A(String)>>),
    {OfPattern(<<Inside("a", <<Bare("a")>>)>>),
     OfPattern(<<Inside("a", <<Annotated("a", Integer)>>)>>),
     OfPattern(<<Inside("a", <<Valued("a", IsZero)>>)>>),
     OfPattern(<<Annotated("a", String)>>)})
  \cup MatchOf(Union(<<Listing(Integer), Listing(String), Empty>>),
    {OfType(Listing(Integer)), OfType(Listing(String)), OfType(Listing(Mixed)),
     OfType(GenericList), OfCase("Empty", <<>>)})
\* What is not told apart by anything that is left.
ErasedMatches ==
  MatchOf(Union(<<A(OnInteger), A(OnString), String>>),
    {OfType(A(OnInteger)), OfType(A(OnString)), OfPattern(<<Bare("a")>>), OfType(String)})
  \cup MatchOf(Union(<<OnInteger, Empty>>), {OfType(OnInteger), OfCase("Empty", <<>>)})
  \cup MatchOf(Union(<<T, Empty, String>>), {OfType(T), OfCase("Empty", <<>>), OfType(String)})
  \cup MatchOf(Boxes(T), {OfCase("Full", <<>>), OfCase("Full", <<Annotated("item", Integer)>>),
                          OfCase("Empty", <<>>)})
None == {}
SmallMatches == KindMatches \cup CaseMatches \cup MemberMatches \cup ErasedMatches

\* What T may come to be, and values that may arrive.
Concrete == {Integer, Boxes(Integer), Listing(String)}
RecordOf(members) == [is |-> "Record", members |-> members]
CaseOf(name, members) ==
  [is |-> "Case", choice |-> "Box", name |-> name, members |-> members]
Leaves == {Zero, Minus, One, Word, [is |-> "Opaque", name |-> "T"], Row(<<>>)}
Carried == Leaves \cup {RecordOf(<<Held("a", v)>>) : v \in {Zero, One, Word}}
MatchedValues ==
  Leaves \cup {Row(<<Zero>>), Row(<<Word>>), Row(<<Zero, Word>>), OnInteger, OnString}
  \cup {RecordOf(<<Held("a", v)>>) : v \in Carried \cup {OnInteger, OnString}}
  \cup {RecordOf(<<Held("b", Word)>>), RecordOf(<<Held("b", Word), Held("c", One)>>)}
  \cup {RecordOf(<<Held("a", v), Held("b", Word)>>) : v \in Carried}
  \cup {CaseOf("Empty", <<>>)} \cup {CaseOf("Full", <<Held("item", v)>>) : v \in Carried}
=============================================================================
