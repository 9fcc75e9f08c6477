------------------------------ MODULE MCLinking ------------------------------
\* Programs small enough to link every one of, and every order of theirs: two
\* Modules that import each other, three in a ring, one alone; beside them a
\* Module that is linked already.
EXTENDS Linking

CONSTANTS a, b, c, lib
CONSTANTS T, U, N, P, K

Declaration(name, kind, uses) ==
  [name |-> name, kind |-> kind, uses |-> uses, clauses |-> {}, asks |-> None,
   takes |-> {}, weighed |-> {}]
OfTypes(names) == {"types"} \X names
OfMembers(names) == {"members"} \X names

Alias(name, names) == Declaration(name, "type", OfTypes(names))
Function(name, names) == Declaration(name, "function", OfTypes(names))
Protocol(name, names) == Declaration(name, "protocol", OfTypes(names))
Constant(name, names) == Declaration(name, "constant", OfMembers(names))
Namespace(name, uses) == Declaration(name, "namespace", uses)
Refinement(name, names, asked) == [Alias(name, names) EXCEPT !.asks = asked]
Conforming(name, protocols) == [Namespace(name, {}) EXCEPT !.clauses = protocols]
Answering(name, taken) == [Namespace(name, OfTypes(taken)) EXCEPT !.takes = taken]
Weighing(name, types) == [Namespace(name, OfTypes(types)) EXCEPT !.weighed = types]

Import(name, from, as) == [name |-> name, from |-> from, as |-> as]
Imported(names, from) == {Import(n, from, n) : n \in names}
Own(m, names) == [n \in names |-> [name |-> n, from |-> m]]

Text(declares, imported, exports) ==
  [declares |-> declares, imports |-> imported, exports |-> exports]
Empty == Text(<<>>, <<>>, <<>>)
Library ==
  Text(<<Alias(U, {}), Answering(N, {}), Constant(K, {}), Protocol(P, {})>>, <<>>,
       Own(lib, {U, N, K, P}))

Program(group, text) ==
  [group |-> group, text |-> text @@ (lib :> Library) @@ [m \in Modules |-> Empty]]

\* Every order of two Modules and of what each declares.
Pairs(inA, importedA, inB, importedB) ==
  LET publishes(m, declared) == Own(m, {d.name : d \in declared})
  IN {Program(group, (a :> Text(first, SetToSeq(importedA), publishes(a, inA)))
                  @@ (b :> Text(second, SetToSeq(importedB), publishes(b, inB)))) :
        group \in {<<a, b>>, <<b, a>>},
        first \in SetToSeqs(inA), second \in SetToSeqs(inB)}

\* Types, a Function and a Namespace that need each other across two Modules.
Mutual ==
  UNION {Pairs({Alias(T, ofT), Function(P, {T, U}), Namespace(N, ofN)},
               Imported({U, K}, b),
               {Alias(U, ofU), Function(K, {T})}, Imported({T, N}, a)) :
    ofT \in SUBSET {U}, ofU \in SUBSET {T},
    ofN \in {OfTypes({U}), OfMembers({P, K})}}

\* Conformance clauses, beside the Protocol and across from it.
Clauses ==
  UNION {Pairs({Protocol(P, ofP), Conforming(N, asked)}, Imported({U, T}, b),
               {Alias(U, ofU), Conforming(T, {P})}, Imported({P, N}, a)) :
    ofP \in SUBSET {U}, ofU \in SUBSET {K}, asked \in SUBSET {P}}

\* Refinements asking a Namespace that may take the refined Type itself, and a
\* Namespace whose Property weighs it.
Predicates ==
  UNION {Pairs({Refinement(T, ofT, N), Weighing(P, weighed)}, Imported({N, U}, b),
               {Answering(N, taken), Alias(U, ofU)}, Imported({T, P}, a)) :
    ofT \in SUBSET {U}, ofU \in SUBSET {K}, weighed \in SUBSET {T}, taken \in SUBSET {T, U}}
  \cup UNION {Pairs({Refinement(T, {}, asked), Refinement(U, {}, K), Answering(K, {})},
                    Imported({N}, b),
                    {[Answering(N, taken) EXCEPT !.uses = @ \cup OfMembers(read)],
                     Constant(P, {})},
                    Imported({T, U, K}, a)) :
         asked \in {N, K}, taken \in SUBSET {U}, read \in {{P}}}

\* What an import is refused for.
Refusals ==
  UNION {Pairs({Function(T, {}), Alias(U, {K})}, {entry} \cup Imported({U}, lib),
               {Constant(N, {}), Constant(P, {N}), [Constant(T, {}) EXCEPT !.kind = "variable"]},
               Imported({U}, a)) :
    entry \in {Import(N, b, K), Import(K, b, N), Import(N, None, P), Import(T, b, T),
               Import(T, b, P), Import(P, lib, K), Import(K, lib, K), Import(U, lib, K)}}
  \cup Pairs({Alias(T, {}), Namespace(T, OfMembers({K}))}, Imported({K}, b),
             {Function(K, {T})}, Imported({T}, a))

\* A name passed round a ring of three.
Ring ==
  {Program(group,
     (a :> Text(<<Alias(T, {}), Function(P, {U})>>, <<Import(T, b, U)>>,
                (T :> [name |-> named, from |-> a]) @@ (U :> [name |-> U, from |-> ofA])))
     @@ (b :> Text(<<Alias(N, {T})>>, <<Import(T, c, T)>>,
                   T :> [name |-> T, from |-> ofB]))
     @@ (c :> Text(<<Alias(U, {})>>, <<Import(U, a, N)>>,
                   T :> [name |-> U, from |-> ofC]))) :
     group \in {<<a, b, c>>, <<c, b, a>>, <<b, a, c>>}, named \in {T, K},
     ofA \in {b, lib, None}, ofB \in {c, lib}, ofC \in {a, c, lib}}

\* Types that name each other within a Module.
Circles ==
  UNION {Pairs({ofT, Alias(U, ofU), Refinement(P, {T}, N)}, Imported({K}, b),
               {Function(K, {T}), Answering(N, {U})}, Imported({T, U}, a)) :
    ofT \in {Alias(T, {U}), Alias(T, {T}), Refinement(T, {U}, N)}, ofU \in {{T}, {K}}}

\* Two Types of one name, in every order: only the first is in a circle or not.
Twins ==
  UNION {Pairs({Alias(T, {}), Alias(T, ofT), Alias(U, {T})}, Imported({K}, b),
               {Function(K, {T})}, Imported({T, U}, a)) : ofT \in {{T}, {U}}}

\* One Module, what it imports linked already; or nothing at all.
Alone ==
  {Program(<<a>>, a :> Text(declared, SetToSeq(imported), <<>>)) :
     declared \in SetToSeqs({Refinement(T, {U}, N), Conforming(N, {P}), Constant(K, {})}),
     imported \in SUBSET (Imported({U, P}, lib) \cup Imported({K}, b))}
  \cup {Program(<<a>>, <<>>)}

AllPrograms ==
  Mutual \cup Clauses \cup Predicates \cup Refusals \cup Ring \cup Circles \cup Twins \cup Alone
=============================================================================
