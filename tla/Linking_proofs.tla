--------------------------- MODULE Linking_proofs ---------------------------
(***************************************************************************)
(* Theorems about linking, for every program that may be linked, of any    *)
(* number of Modules: nothing past hoisting meets a predicate that was not *)
(* read, and a Namespace carries the bounds its own Module answers for.    *)
(***************************************************************************)
EXTENDS Linking, FiniteSetTheorems, WellFoundedInduction, TLAPS

-----------------------------------------------------------------------------
(* What is defined by recursion.                                           *)

\* A set of natural numbers has a least one.
LEMMA LeastNatural ==
  ASSUME NEW S \in SUBSET Nat, S # {}
  PROVE  \E least \in S : \A m \in S : least <= m
<1> DEFINE R == OpToRel(<, Nat)
<1>1. \A m, n \in Nat : <<m, n>> \in R <=> m < n BY DEF OpToRel
<1>2. IsWellFoundedOn(R, Nat) BY NatLessThanWellFounded
<1> HIDE DEF R
<1>3. S \subseteq Nat OBVIOUS
<1>4. PICK least \in S : \A m \in S : ~(<<m, least>> \in R) BY <1>2, <1>3, WFMin
<1>5. ASSUME NEW m \in S PROVE least <= m
  <2>1. m \in Nat /\ least \in Nat BY <1>3
  <2>2. ~(m < least) BY <1>1, <1>4, <2>1, Zenon
  <2> QED BY <2>1, <2>2
<1> QED BY <1>5

\* One after the other, sequences are a sequence of what they are of.
LEMMA FlattenType ==
  ASSUME NEW S, NEW ss \in Seq(Seq(S))
  PROVE  FlattenSeq(ss) \in Seq(S)
<1> DEFINE Joined(f, i) == IF i = 1 THEN ss[i] ELSE f[i-1] \o ss[i]
           Fits(f, n) == f \in [1 .. n -> Seq(S)] /\ \A i \in 1 .. n : f[i] = Joined(f, i)
           bad == {n \in 1 .. Len(ss) : ~ \E f : Fits(f, n)}
<1>1. Len(ss) \in Nat /\ \A i \in 1 .. Len(ss) : ss[i] \in Seq(S) OBVIOUS
<1>2. CASE Len(ss) = 0
  <2>1. ss = <<>> BY <1>2
  <2> QED BY <1>2, <2>1 DEF FlattenSeq
<1>3. CASE Len(ss) # 0
  <2>1. ASSUME bad # {} PROVE FALSE
    <3>1. bad \in SUBSET Nat OBVIOUS
    <3>2. PICK n \in bad : \A m \in bad : n <= m BY <2>1, <3>1, LeastNatural
    <3>3. n \in 1 .. Len(ss) /\ ~ \E f : Fits(f, n) BY <3>2
    <3>4. CASE n = 1
      <4> DEFINE f == [i \in 1 .. 1 |-> ss[1]]
      <4>1. Fits(f, 1) BY <1>1, <1>3
      <4> QED BY <3>3, <3>4, <4>1
    <3>5. CASE n # 1
      <4>1. n - 1 \in 1 .. Len(ss) /\ ~(n <= n - 1) BY <3>3, <3>5
      <4>2. PICK f : Fits(f, n - 1) BY <3>2, <4>1
      <4> DEFINE g == [i \in 1 .. n |-> IF i = n THEN f[n-1] \o ss[n] ELSE f[i]]
      <4>3. \A i \in 1 .. n - 1 : f[i] \in Seq(S) BY <4>2
      <4>4. f[n-1] \o ss[n] \in Seq(S)
        <5>1. n - 1 \in 1 .. n - 1 BY <4>1
        <5> QED BY <1>1, <3>3, <4>3, <5>1
      <4>5. \A i \in 1 .. n : i # n => i \in 1 .. n - 1 BY <3>3
      <4>6. g \in [1 .. n -> Seq(S)]
        <5>1. ASSUME NEW i \in 1 .. n PROVE g[i] \in Seq(S) BY <4>3, <4>4, <4>5
        <5> QED BY <5>1
      <4>7. ASSUME NEW i \in 1 .. n PROVE g[i] = Joined(g, i)
        <5>1. CASE i = n
          <6>1. g[n-1] = f[n-1] BY <3>3, <4>1
          <6> QED BY <3>5, <5>1, <6>1
        <5>2. CASE i # n
          <6>1. i \in 1 .. n - 1 /\ g[i] = f[i] BY <4>5, <5>2
          <6>2. f[i] = Joined(f, i) BY <4>2, <6>1
          <6>3. CASE i = 1 BY <6>1, <6>2, <6>3
          <6>4. CASE i # 1
            <7>1. i - 1 \in 1 .. n /\ i - 1 # n BY <6>1, <6>4, <3>3
            <7> QED BY <6>1, <6>2, <6>4, <7>1
          <6> QED BY <6>3, <6>4
        <5> QED BY <5>1, <5>2
      <4> HIDE DEF g
      <4>8. Fits(g, n) BY <4>6, <4>7
      <4> QED BY <3>3, <4>8
    <3> QED BY <3>4, <3>5
  <2>2. PICK f : Fits(f, Len(ss))
    <3>1. Len(ss) \in 1 .. Len(ss) BY <1>1, <1>3
    <3> QED BY <2>1, <3>1
  <2> DEFINE IsFlatten(h) ==
        h = [i \in 1 .. Len(ss) |-> IF i = 1 THEN ss[i] ELSE h[i-1] \o ss[i]]
  <2>3. IsFlatten(f)
    <3>1. f = [i \in 1 .. Len(ss) |-> f[i]] BY <2>2
    <3>2. \A i \in 1 .. Len(ss) : f[i] = IF i = 1 THEN ss[i] ELSE f[i-1] \o ss[i] BY <2>2
    <3> QED BY <3>1, <3>2
  <2>4. PICK h : h = CHOOSE x : IsFlatten(x) OBVIOUS
  <2>5. IsFlatten(h) BY <2>3, <2>4
  <2>6. FlattenSeq(ss) = h[Len(ss)] BY <1>3, <2>4 DEF FlattenSeq
  <2>7. \A i \in 1 .. Len(ss) : h[i] = Joined(h, i) BY <2>5
  <2> HIDE DEF IsFlatten
  <2> DEFINE wrong == {i \in 1 .. Len(ss) : h[i] \notin Seq(S)}
  <2>8. ASSUME wrong # {} PROVE FALSE
    <3>1. wrong \in SUBSET Nat OBVIOUS
    <3>2. PICK i \in wrong : \A m \in wrong : i <= m BY <2>8, <3>1, LeastNatural
    <3>3. i \in 1 .. Len(ss) /\ h[i] \notin Seq(S) BY <3>2
    <3>4. CASE i = 1 BY <1>1, <2>7, <3>3, <3>4
    <3>5. CASE i # 1
      <4>1. i - 1 \in 1 .. Len(ss) /\ ~(i <= i - 1) BY <3>3, <3>5
      <4>2. h[i-1] \in Seq(S) BY <3>2, <4>1
      <4>3. h[i] = h[i-1] \o ss[i] BY <2>7, <3>3, <3>5
      <4>4. ss[i] \in Seq(S) BY <1>1, <3>3
      <4> QED BY <3>3, <4>2, <4>3, <4>4
    <3> QED BY <3>4, <3>5
  <2>9. Len(ss) \in 1 .. Len(ss) BY <1>1, <1>3
  <2> QED BY <2>6, <2>8, <2>9
<1> QED BY <1>2, <1>3

-----------------------------------------------------------------------------
(* Texts.                                                                  *)

\* What the assumption says of the program at hand.
LEMMA TextType ==
  ASSUME program \in Programs, NEW m \in Modules
  PROVE  /\ Declares(m) \in Seq(Statements)
         /\ Imports(m) \in Seq(ImportEntries)
         /\ DOMAIN Exports(m) \subseteq Names
         /\ \A name \in DOMAIN Exports(m) : Exports(m)[name] \in ExportEntries
         /\ \A i \in DOMAIN Declares(m) :
              /\ Declares(m)[i].clauses # {} => Declares(m)[i].kind = "namespace"
              /\ Declares(m)[i].asks # None => Declares(m)[i].kind = "type"
BY ProgramsAssumption DEF Declares, Imports, Exports

LEMMA GroupType ==
  ASSUME program \in Programs
  PROVE  program.group \in Seq(Modules) /\ Group \subseteq Modules
<1>1. program.group \in Seq(Modules) BY ProgramsAssumption
<1> QED BY <1>1 DEF Group, ToSet

Paths == (SUBSET Modules) \X Modules \X Names
Homes == (Modules \X Names) \cup {None}

\* The body of HomeOf, for any function in its place.
HomeBy(f, way) ==
  LET passed == way[1]
      m == way[2]
      entry == Exports(m)[way[3]]
  IN IF m \in passed \/ way[3] \notin DOMAIN Exports(m) \/ entry.from = None THEN None
     ELSE IF entry.from = m
     THEN IF Named(m, entry.name) # {} THEN <<m, entry.name>> ELSE None
     ELSE f[<<passed \cup {m}, entry.from, entry.name>>]

\* The Modules that a way has not passed.
Ahead(way) == Cardinality(Modules \ way[1])

LEMMA AheadType ==
  ASSUME NEW way \in Paths
  PROVE  /\ Ahead(way) \in Nat /\ Ahead(way) <= Cardinality(Modules)
         /\ Cardinality(Modules) \in Nat
<1>1. IsFiniteSet(Modules) BY ProgramsAssumption
<1>2. Modules \ way[1] \in SUBSET Modules OBVIOUS
<1>3. IsFiniteSet(Modules \ way[1]) /\ Cardinality(Modules \ way[1]) <= Cardinality(Modules)
  BY <1>1, <1>2, FS_Subset
<1> QED BY <1>1, <1>3, FS_CardinalityType DEF Ahead

\* Where HomeOf goes on, or the answer it has.
LEMMA HomeGoesOn ==
  ASSUME program \in Programs, NEW way \in Paths
  PROVE  \/ \A f : HomeBy(f, way) \in Homes /\ \A g : HomeBy(f, way) = HomeBy(g, way)
         \/ \E on \in Paths : Ahead(on) < Ahead(way) /\ \A f : HomeBy(f, way) = f[on]
<1>1. PICK passed \in SUBSET Modules, m \in Modules, name \in Names : way = <<passed, m, name>>
  BY DEF Paths
<1>2. PICK entry : entry = Exports(m)[name] OBVIOUS
<1>3. \A f : HomeBy(f, way) =
        IF m \in passed \/ name \notin DOMAIN Exports(m) \/ entry.from = None THEN None
        ELSE IF entry.from = m
        THEN IF Named(m, entry.name) # {} THEN <<m, entry.name>> ELSE None
        ELSE f[<<passed \cup {m}, entry.from, entry.name>>]
  BY <1>1, <1>2 DEF HomeBy
<1>4. CASE m \in passed \/ name \notin DOMAIN Exports(m) \/ entry.from = None
  BY <1>3, <1>4 DEF Homes
<1>5. CASE ~(m \in passed \/ name \notin DOMAIN Exports(m) \/ entry.from = None)
  <2>1. entry \in ExportEntries BY <1>2, <1>5, TextType
  <2>2. entry.name \in Names /\ entry.from \in Modules BY <1>5, <2>1 DEF ExportEntries
  <2>3. CASE entry.from = m BY <1>3, <1>5, <2>2, <2>3 DEF Homes
  <2>4. CASE entry.from # m
    <3> DEFINE on == <<passed \cup {m}, entry.from, entry.name>>
    <3>1. on \in Paths BY <2>2 DEF Paths
    <3>2. \A f : HomeBy(f, way) = f[on] BY <1>3, <1>5, <2>4
    <3>3. IsFiniteSet(Modules \ passed)
      <4>1. IsFiniteSet(Modules) BY ProgramsAssumption
      <4>2. Modules \ passed \in SUBSET Modules OBVIOUS
      <4> QED BY <4>1, <4>2, FS_Subset
    <3>4. m \in Modules \ passed BY <1>5
    <3>5. (Modules \ passed) \ {m} = Modules \ (passed \cup {m}) OBVIOUS
    <3>6. Cardinality(Modules \ (passed \cup {m})) = Cardinality(Modules \ passed) - 1
      <4>1. Cardinality((Modules \ passed) \ {m}) = Cardinality(Modules \ passed) - 1
        BY <3>3, <3>4, FS_RemoveElement, Zenon
      <4> QED BY <3>5, <4>1, Zenon
    <3>7. Cardinality(Modules \ passed) \in Nat BY <3>3, FS_CardinalityType
    <3>8. Ahead(way) = Cardinality(Modules \ passed) BY <1>1 DEF Ahead
    <3>9. Ahead(on) = Cardinality(Modules \ (passed \cup {m})) BY DEF Ahead
    <3>10. Ahead(on) < Ahead(way) BY <3>6, <3>7, <3>8, <3>9
    <3> HIDE DEF on
    <3> QED BY <3>1, <3>2, <3>10
  <2> QED BY <2>3, <2>4
<1> QED BY <1>4, <1>5

\* Every way that is followed ends: there is a HomeOf, and it answers with
\* where a name is declared, or with nothing.
LEMMA HomeOfType ==
  ASSUME program \in Programs
  PROVE  HomeOf \in [Paths -> Homes]
<1> DEFINE Short(n) == {way \in Paths : Ahead(way) < n}
           Fits(f, n) == f \in [Short(n) -> Homes] /\ \A way \in Short(n) : f[way] = HomeBy(f, way)
           bad == {n \in Nat : ~ \E f : Fits(f, n)}
<1>1. ASSUME bad # {} PROVE FALSE
  <2>1. bad \in SUBSET Nat OBVIOUS
  <2>2. PICK n \in bad : \A m \in bad : n <= m BY <1>1, <2>1, LeastNatural
  <2>3. n \in Nat /\ ~ \E f : Fits(f, n) BY <2>2
  <2>4. CASE n = 0
    <3>1. Short(0) = {} BY AheadType
    <3> DEFINE f == [way \in Short(0) |-> None]
    <3>2. Fits(f, 0) BY <3>1
    <3> QED BY <2>3, <2>4, <3>2
  <2>5. CASE n # 0
    <3>1. n - 1 \in Nat /\ ~(n <= n - 1) BY <2>3, <2>5
    <3>2. PICK f : Fits(f, n - 1) BY <2>2, <3>1
    <3> DEFINE g == [way \in Short(n) |-> HomeBy(f, way)]
    <3>3. \A on \in Short(n - 1) : f[on] \in Homes /\ f[on] = HomeBy(f, on) BY <3>2
    <3>4. ASSUME NEW on \in Short(n - 1) PROVE on \in Short(n) /\ g[on] = f[on]
      <4>1. on \in Short(n) BY <2>3, AheadType
      <4> QED BY <3>3, <4>1
    <3>5. ASSUME NEW way \in Short(n) PROVE g[way] \in Homes /\ g[way] = HomeBy(g, way)
      <4>1. way \in Paths /\ g[way] = HomeBy(f, way) OBVIOUS
      <4>2. CASE \A x : HomeBy(x, way) \in Homes /\ \A y : HomeBy(x, way) = HomeBy(y, way)
        <5> HIDE DEF g
        <5>1. HomeBy(f, way) \in Homes /\ HomeBy(f, way) = HomeBy(g, way) BY <4>2
        <5> QED BY <4>1, <5>1
      <4>3. CASE \E on \in Paths : Ahead(on) < Ahead(way) /\ \A x : HomeBy(x, way) = x[on]
        <5>1. PICK on \in Paths : Ahead(on) < Ahead(way) /\ \A x : HomeBy(x, way) = x[on]
          BY <4>3
        <5>2. on \in Short(n - 1) BY <2>3, <5>1, AheadType
        <5>3. g[on] = f[on] /\ f[on] \in Homes BY <3>3, <3>4, <5>2
        <5> HIDE DEF g
        <5>4. HomeBy(f, way) = f[on] /\ HomeBy(g, way) = g[on] BY <5>1
        <5> QED BY <4>1, <5>3, <5>4
      <4> HIDE DEF g
      <4> QED BY <4>1, <4>2, <4>3, HomeGoesOn
    <3>6. g \in [Short(n) -> Homes] BY <3>5
    <3> HIDE DEF g
    <3>7. Fits(g, n) BY <3>5, <3>6
    <3> QED BY <2>3, <3>7
  <2> QED BY <2>4, <2>5
<1>2. \A n \in Nat : \E f : Fits(f, n) BY <1>1
<1>3. PICK n \in Nat : n = Cardinality(Modules) + 1
  <2>1. Cardinality(Modules) \in Nat
    <3>1. IsFiniteSet(Modules) BY ProgramsAssumption
    <3> QED BY <3>1, FS_CardinalityType
  <2> QED BY <2>1
<1>4. Short(n) = Paths
  <2>1. ASSUME NEW way \in Paths PROVE way \in Short(n) BY <1>3, AheadType
  <2> QED BY <2>1
<1>5. PICK f \in [Paths -> Homes] : \A way \in Paths : f[way] = HomeBy(f, way)
  <2> HIDE DEF Short
  <2> QED BY <1>2, <1>4
<1> DEFINE IsHome(h) == h = [way \in Paths |-> HomeBy(h, way)]
<1>6. IsHome(f)
  <2>1. f = [way \in Paths |-> f[way]] BY <1>5
  <2> QED BY <1>5, <2>1
<1>7. HomeOf = CHOOSE h : IsHome(h) BY Zenon DEF HomeOf, HomeBy, Paths
<1>8. IsHome(HomeOf) BY <1>6, <1>7
<1>9. PICK h : h = HomeOf OBVIOUS
<1>10. h = [way \in Paths |-> HomeBy(h, way)] BY <1>8, <1>9
<1> HIDE DEF IsHome
<1> DEFINE wrong == {m \in Nat : \E way \in Paths : Ahead(way) = m /\ h[way] \notin Homes}
<1>11. ASSUME wrong # {} PROVE FALSE
  <2>1. wrong \in SUBSET Nat OBVIOUS
  <2>2. PICK least \in wrong : \A m \in wrong : least <= m BY <1>11, <2>1, LeastNatural
  <2>3. PICK way \in Paths : Ahead(way) = least /\ h[way] \notin Homes BY <2>2
  <2>4. h[way] = HomeBy(h, way) BY <1>10
  <2>5. PICK on \in Paths : Ahead(on) < Ahead(way) /\ HomeBy(h, way) = h[on]
    BY <2>3, <2>4, HomeGoesOn
  <2>6. Ahead(on) \in Nat /\ Ahead(way) \in Nat BY AheadType
  <2>7. Ahead(on) \notin wrong BY <2>2, <2>3, <2>5, <2>6
  <2>8. h[on] \in Homes BY <2>6, <2>7
  <2> QED BY <2>3, <2>4, <2>5, <2>8
<1>12. \A way \in Paths : h[way] \in Homes BY <1>11, AheadType
<1> QED BY <1>9, <1>10, <1>12

LEMMA HomeType ==
  ASSUME program \in Programs, NEW m \in Modules, NEW name \in Names
  PROVE  Home(m, name) \in Homes
<1>1. <<{}, m, name>> \in Paths BY DEF Paths
<1> QED BY <1>1, HomeOfType DEF Home

-----------------------------------------------------------------------------
(* What the loops go through.                                              *)

Numbered == Modules \X Nat
TasksTo(does) == does \X Modules \X Nat

LEMMA EachOfType ==
  ASSUME NEW m \in Modules, NEW S, NEW entries \in Seq(S)
  PROVE  EachOf(m, entries) \in Seq(Numbered)
<1>1. DOMAIN entries = 1 .. Len(entries) /\ Len(entries) \in Nat OBVIOUS
<1>2. EachOf(m, entries) \in [1 .. Len(entries) -> Numbered] BY <1>1 DEF EachOf, Numbered
<1> QED BY <1>1, <1>2

LEMMA TasksType ==
  ASSUME NEW does, NEW places \in Seq(Numbered)
  PROVE  /\ Tasks(does, places) \in Seq(TasksTo({does}))
         /\ Len(Tasks(does, places)) = Len(places)
<1>1. DOMAIN places = 1 .. Len(places) /\ Len(places) \in Nat OBVIOUS
<1>2. Tasks(does, places) \in [1 .. Len(places) -> TasksTo({does})]
  <2>1. ASSUME NEW i \in 1 .. Len(places)
        PROVE  <<does, places[i][1], places[i][2]>> \in TasksTo({does})
    <3>1. places[i] \in Numbered OBVIOUS
    <3> QED BY <3>1 DEF Numbered, TasksTo
  <2> QED BY <1>1, <2>1 DEF Tasks
<1>3. PICK T, tasks : T = TasksTo({does}) /\ tasks = Tasks(does, places) OBVIOUS
<1>4. tasks \in [1 .. Len(places) -> T] BY <1>2, <1>3
<1>5. tasks \in Seq(T) /\ Len(tasks) = Len(places) BY <1>1, <1>4
<1> QED BY <1>3, <1>5

\* What every Module of the group adds a part to.
LEMMA OfGroupType ==
  ASSUME program \in Programs, NEW S, NEW parts,
         DOMAIN parts = Modules, \A m \in Modules : parts[m] \in Seq(S)
  PROVE  FlattenSeq([i \in DOMAIN program.group |-> parts[program.group[i]]]) \in Seq(S)
<1>1. program.group \in Seq(Modules) BY GroupType
<1>2. DOMAIN program.group = 1 .. Len(program.group) /\ Len(program.group) \in Nat BY <1>1
<1>3. [i \in DOMAIN program.group |-> parts[program.group[i]]] \in
        [1 .. Len(program.group) -> Seq(S)]
  <2>1. ASSUME NEW i \in 1 .. Len(program.group) PROVE program.group[i] \in Modules
    BY <1>1, <1>2, <2>1
  <2> QED BY <1>2, <2>1
<1>4. [i \in DOMAIN program.group |-> parts[program.group[i]]] \in Seq(Seq(S)) BY <1>2, <1>3
<1> QED BY <1>4, FlattenType

LEMMA OffersType ==
  ASSUME program \in Programs
  PROVE  /\ Offers \in Seq(TasksTo({"offer"}))
         /\ LastOffers \in Seq(TasksTo({"offer", "refuse"}))
         /\ Declarations \in Seq(Numbered)
<1> DEFINE offers == [m \in Modules |-> Tasks("offer", EachOf(m, Imports(m)))]
           last == [m \in Modules |-> Tasks("offer", EachOf(m, Imports(m)))
                                      \o Tasks("refuse", EachOf(m, Imports(m)))]
           declares == [m \in Modules |-> EachOf(m, Declares(m))]
           Of(parts) == FlattenSeq([i \in DOMAIN program.group |-> parts[program.group[i]]])
<1>1. ASSUME NEW m \in Modules
      PROVE  /\ EachOf(m, Imports(m)) \in Seq(Numbered)
             /\ EachOf(m, Declares(m)) \in Seq(Numbered)
  BY TextType, EachOfType
<1>2. ASSUME NEW m \in Modules
      PROVE  /\ offers[m] \in Seq(TasksTo({"offer"}))
             /\ last[m] \in Seq(TasksTo({"offer", "refuse"}))
             /\ declares[m] \in Seq(Numbered)
  <2>1. Tasks("offer", EachOf(m, Imports(m))) \in Seq(TasksTo({"offer"})) BY <1>1, TasksType
  <2>2. Tasks("refuse", EachOf(m, Imports(m))) \in Seq(TasksTo({"refuse"})) BY <1>1, TasksType
  <2>3. /\ TasksTo({"offer"}) \subseteq TasksTo({"offer", "refuse"})
        /\ TasksTo({"refuse"}) \subseteq TasksTo({"offer", "refuse"}) BY DEF TasksTo
  <2>4. /\ Tasks("offer", EachOf(m, Imports(m))) \in Seq(TasksTo({"offer", "refuse"}))
        /\ Tasks("refuse", EachOf(m, Imports(m))) \in Seq(TasksTo({"offer", "refuse"}))
    BY <2>1, <2>2, <2>3
  <2> QED BY <1>1, <2>1, <2>4
<1>3. \A i \in DOMAIN program.group : program.group[i] \in Modules BY GroupType
<1>4. Offers = Of(offers)
  <2>1. [i \in DOMAIN program.group |-> offers[program.group[i]]]
          = [i \in DOMAIN program.group |->
               Tasks("offer", EachOf(program.group[i], Imports(program.group[i])))] BY <1>3
  <2> QED BY <2>1, Zenon DEF Offers, OfGroup
<1>5. LastOffers = Of(last)
  <2>1. [i \in DOMAIN program.group |-> last[program.group[i]]]
          = [i \in DOMAIN program.group |->
               Tasks("offer", EachOf(program.group[i], Imports(program.group[i])))
                 \o Tasks("refuse", EachOf(program.group[i], Imports(program.group[i])))] BY <1>3
  <2> QED BY <2>1, Zenon DEF LastOffers, OfGroup
<1>6. Declarations = Of(declares)
  <2>1. [i \in DOMAIN program.group |-> declares[program.group[i]]]
          = [i \in DOMAIN program.group |->
               EachOf(program.group[i], Declares(program.group[i]))] BY <1>3
  <2> QED BY <2>1, Zenon DEF Declarations, OfGroup
<1>7. DOMAIN offers = Modules /\ DOMAIN last = Modules /\ DOMAIN declares = Modules OBVIOUS
<1> HIDE DEF offers, last, declares
<1>8. Of(offers) \in Seq(TasksTo({"offer"})) BY <1>2, <1>7, OfGroupType
<1>9. Of(last) \in Seq(TasksTo({"offer", "refuse"})) BY <1>2, <1>7, OfGroupType
<1>10. Of(declares) \in Seq(Numbered) BY <1>2, <1>7, OfGroupType
<1> QED BY <1>4, <1>5, <1>6, <1>8, <1>9, <1>10

LEMMA OnlyType ==
  ASSUME NEW S, NEW T, NEW places \in Seq(S)
  PROVE  Only(places, T) \in Seq(S)
<1> DEFINE parts == [i \in DOMAIN places |-> IF places[i] \in T THEN <<places[i]>> ELSE <<>>]
<1>1. DOMAIN places = 1 .. Len(places) /\ Len(places) \in Nat OBVIOUS
<1>2. ASSUME NEW i \in 1 .. Len(places) PROVE parts[i] \in Seq(S)
  <2>1. places[i] \in S /\ parts[i] = IF places[i] \in T THEN <<places[i]>> ELSE <<>> BY <1>1
  <2> QED BY <2>1
<1>3. parts \in [1 .. Len(places) -> Seq(S)] BY <1>1, <1>2
<1>4. parts \in Seq(Seq(S)) BY <1>1, <1>3
<1>5. FlattenSeq(parts) \in Seq(S) BY <1>4, FlattenType
<1> QED BY <1>5 DEF Only

\* Without the first of something, what else there is stays.
LEMMA RemoveFirstKeeps ==
  ASSUME NEW S, NEW s \in Seq(S), NEW e
  PROVE  /\ RemoveFirst(s, e) \in Seq(S)
         /\ \A x \in ToSet(s) : x # e => x \in ToSet(RemoveFirst(s, e))
         /\ ToSet(RemoveFirst(s, e)) \subseteq ToSet(s)
<1>1. DOMAIN s = 1 .. Len(s) /\ Len(s) \in Nat OBVIOUS
<1>2. CASE ~ \E i \in 1 .. Len(s) : s[i] = e BY <1>2, Zenon DEF RemoveFirst
<1>3. CASE \E i \in 1 .. Len(s) : s[i] = e
  <2>1. PICK at : at = SelectInSeq(s, LAMBDA v : v = e) OBVIOUS
  <2>2. at \in 1 .. Len(s) /\ s[at] = e
    <3> DEFINE I == {i \in 1 .. Len(s) : s[i] = e}
    <3>1. at = Min(I) BY <1>3, <2>1 DEF SelectInSeq
    <3>2. I \in SUBSET Nat /\ I # {} BY <1>3
    <3>3. \E x \in I : \A y \in I : x <= y BY <3>2, LeastNatural
    <3>4. at \in I BY <3>1, <3>3 DEF Min
    <3> QED BY <3>4
  <2>3. RemoveFirst(s, e) = SubSeq(s, 1, at - 1) \o SubSeq(s, at + 1, Len(s))
    BY <1>3, <2>1, Zenon DEF RemoveFirst, RemoveAt
  <2>4. PICK front : front = SubSeq(s, 1, at - 1) OBVIOUS
  <2>5. PICK back : back = SubSeq(s, at + 1, Len(s)) OBVIOUS
  <2>6. front \in Seq(S) /\ Len(front) = at - 1 /\ \A i \in 1 .. at - 1 : front[i] = s[i]
    BY <2>2, <2>4
  <2>7. back \in Seq(S) /\ Len(back) = Len(s) - at
        /\ \A i \in 1 .. Len(s) - at : back[i] = s[at + i]
    BY <2>2, <2>5
  <2>8. PICK r \in Seq(S) : r = RemoveFirst(s, e) /\ r = front \o back
    <3>1. RemoveFirst(s, e) = front \o back BY <2>3, <2>4, <2>5, Zenon
    <3>2. front \o back \in Seq(S) BY <2>6, <2>7
    <3> QED BY <3>1, <3>2
  <2>9. ASSUME NEW x \in ToSet(s), x # e PROVE x \in ToSet(r)
    <3>1. PICK i \in 1 .. Len(s) : s[i] = x BY <1>1 DEF ToSet
    <3>2. i # at BY <2>2, <2>9, <3>1
    <3>3. CASE i < at
      <4>1. i \in DOMAIN r /\ r[i] = x BY <2>2, <2>6, <2>7, <2>8, <3>1, <3>3
      <4> QED BY <4>1 DEF ToSet
    <3>4. CASE i > at
      <4>1. i - at \in 1 .. Len(s) - at BY <2>2, <3>1, <3>4
      <4>2. back[i - at] = x
        <5>1. back[i - at] = s[at + (i - at)] BY <2>7, <4>1
        <5>2. at + (i - at) = i BY <2>2, <3>1
        <5> QED BY <3>1, <5>1, <5>2
      <4>3. i - 1 \in DOMAIN r /\ r[i - 1] = back[i - at]
        BY <2>2, <2>6, <2>7, <2>8, <3>1, <3>4, <4>1
      <4> QED BY <4>2, <4>3 DEF ToSet
    <3> QED BY <2>2, <3>2, <3>3, <3>4
  <2>10. ASSUME NEW i \in DOMAIN r PROVE r[i] \in ToSet(s)
    <3>1. i \in 1 .. (at - 1) + (Len(s) - at) BY <2>6, <2>7, <2>8, <2>10
    <3>2. CASE i <= at - 1
      <4>1. i \in DOMAIN s /\ r[i] = s[i] BY <1>1, <2>2, <2>6, <2>7, <2>8, <3>1, <3>2
      <4> QED BY <4>1 DEF ToSet
    <3>3. CASE ~(i <= at - 1)
      <4>1. r[i] = back[i - (at - 1)] /\ i - (at - 1) \in 1 .. Len(s) - at
        BY <2>2, <2>6, <2>7, <2>8, <3>1, <3>3
      <4>2. back[i - (at - 1)] = s[at + (i - (at - 1))] BY <2>7, <4>1
      <4>3. at + (i - (at - 1)) \in DOMAIN s BY <1>1, <2>2, <4>1
      <4> QED BY <4>1, <4>2, <4>3 DEF ToSet
    <3> QED BY <3>2, <3>3
  <2>11. ToSet(r) \subseteq ToSet(s) BY <2>10 DEF ToSet
  <2> QED BY <2>8, <2>9, <2>11
<1> QED BY <1>2, <1>3

-----------------------------------------------------------------------------
(* Types.                                                                  *)

\* What the loop underway has to do.
DoneIn(loop) ==
  CASE loop \in {"before", "seeding"} -> {"offer"}
    [] loop \in {"filling", "finishing", "thrown"} -> {"read"}
    [] loop = "resolving" -> {"resolve"}
    [] loop = "closing" -> {"offer", "refuse"}
    [] loop = "enriching" -> {"enrich"}
    [] loop = "done" -> {}

Rounds == {"seeding", "filling", "resolving", "closing"}
Stages == Rounds \cup {"before", "finishing", "enriching", "done", "thrown"}

LinkType ==
  /\ program \in Programs
  /\ scope \in [Slots -> Places \cup {None, Error}]
  /\ conjuncts \in [Places -> {"none", "unread", "read", "lost"}]
  /\ hoisted \in SUBSET Places
  /\ predicates \in Seq(Places)
  /\ waiting \in Seq(Numbered) /\ remaining \in Seq(Numbered)
  /\ stage \in Stages
  /\ agenda \in Seq(TasksTo(DoneIn(stage)))

LEMMA DoneInValues ==
  /\ DoneIn("before") = {"offer"} /\ DoneIn("seeding") = {"offer"}
  /\ DoneIn("filling") = {"read"} /\ DoneIn("finishing") = {"read"}
  /\ DoneIn("thrown") = {"read"} /\ DoneIn("resolving") = {"resolve"}
  /\ DoneIn("closing") = {"offer", "refuse"}
  /\ DoneIn("enriching") = {"enrich"} /\ DoneIn("done") = {}
BY DEF DoneIn

LEMMA PlaceType ==
  ASSUME program \in Programs, NEW p \in Places
  PROVE  /\ p \in Numbered /\ p # None /\ p # Error
         /\ p[1] \in Modules /\ p[2] \in DOMAIN Declares(p[1]) /\ p = <<p[1], p[2]>>
         /\ Declared(p) \in Statements
         /\ SlotOf(p) \in Slots
<1>1. PICK m \in Modules : p \in {m} \X DOMAIN Declares(m) BY DEF Places
<1>2. p = <<p[1], p[2]>> /\ p[1] = m /\ p[2] \in DOMAIN Declares(m) BY <1>1
<1>3. Declares(m) \in Seq(Statements) BY TextType
<1>4. p[2] \in Nat /\ Declares(m)[p[2]] \in Statements BY <1>2, <1>3
<1>5. p \in Numbered BY <1>2, <1>4 DEF Numbered
<1>6. p # None /\ p # Error BY <1>5, NothingIsNoPlace DEF Numbered
<1>7. Declared(p) \in Statements BY <1>2, <1>4 DEF Declared
<1>8. Declared(p).name \in Names BY <1>7 DEF Statements
<1>9. TableOf(Declared(p).kind) \in Tables BY DEF TableOf, Tables
<1>10. SlotOf(p) \in Slots BY <1>2, <1>8, <1>9 DEF SlotOf, Slots
<1> QED BY <1>2, <1>5, <1>6, <1>7, <1>10

\* A declaration that an action is about.
LEMMA DeclaredPlace ==
  ASSUME program \in Programs, NEW m \in Group, NEW i \in DOMAIN Declares(m)
  PROVE  <<m, i>> \in Places /\ <<m, i>>[1] = m /\ <<m, i>>[2] = i
<1>1. m \in Modules BY GroupType
<1> QED BY <1>1 DEF Places

\* No step rewrites a program.
LEMMA TextStays ==
  ASSUME program' = program
  PROVE  /\ Places' = Places
         /\ \A p : Declared(p)' = Declared(p) /\ SlotOf(p)' = SlotOf(p)
<1>1. \A m : Declares(m)' = Declares(m) BY DEF Declares
<1>2. Places' = Places BY <1>1, Zenon DEF Places
<1>3. \A p : Declared(p)' = Declared(p) BY <1>1, Zenon DEF Declared
<1>4. \A p : SlotOf(p)' = SlotOf(p) BY <1>3, Zenon DEF SlotOf
<1> QED BY <1>2, <1>3, <1>4

\* What is done was the first there was to do.
LEMMA DoesStep ==
  ASSUME LinkType, NEW does, NEW m, NEW k, Does(does, m, k)
  PROVE  /\ does \in DoneIn(stage)
         /\ agenda' \in Seq(TasksTo(DoneIn(stage)))
         /\ ToSet(agenda') \subseteq ToSet(agenda)
         /\ ToSet(agenda) \subseteq ToSet(agenda') \cup {<<does, m, k>>}
         /\ <<does, m, k>> \in ToSet(agenda)
<1>1. PICK S : S = TasksTo(DoneIn(stage)) OBVIOUS
<1>2. agenda \in Seq(S) BY <1>1 DEF LinkType
<1>3. agenda # <<>> /\ Head(agenda) = <<does, m, k>> /\ agenda' = Tail(agenda) BY DEF Does
<1>4. Len(agenda) \in Nat /\ Len(agenda) > 0 /\ DOMAIN agenda = 1 .. Len(agenda) BY <1>2, <1>3
<1>5. agenda[1] = <<does, m, k>> /\ 1 \in DOMAIN agenda
  <2>1. Head(agenda) = agenda[1] BY <1>2, <1>4
  <2>2. 1 \in DOMAIN agenda BY <1>4
  <2> QED BY <1>3, <2>1, <2>2, Zenon
<1>6. PICK rest \in Seq(S) : rest = agenda' /\ rest = Tail(agenda)
  <2>1. Tail(agenda) \in Seq(S) BY <1>2, <1>4
  <2> QED BY <1>3, <2>1, Zenon
<1>7. /\ Len(rest) = Len(agenda) - 1 /\ DOMAIN rest = 1 .. Len(agenda) - 1
      /\ \A i \in 1 .. Len(agenda) - 1 : rest[i] = agenda[i + 1]
  BY <1>2, <1>4, <1>6
<1>8. <<does, m, k>> \in S
  <2>1. agenda[1] \in S BY <1>2, <1>4
  <2> QED BY <1>5, <2>1, Zenon
<1>9. does \in DoneIn(stage) BY <1>1, <1>8 DEF TasksTo
<1>10. ASSUME NEW i \in DOMAIN rest PROVE rest[i] \in ToSet(agenda)
  <2>1. i + 1 \in DOMAIN agenda /\ rest[i] = agenda[i + 1] BY <1>4, <1>7
  <2> QED BY <2>1 DEF ToSet
<1>11. ASSUME NEW i \in DOMAIN agenda PROVE agenda[i] \in ToSet(rest) \cup {<<does, m, k>>}
  <2>1. CASE i = 1 BY <1>5, <2>1
  <2>2. CASE i # 1
    <3>1. i - 1 \in DOMAIN rest /\ rest[i - 1] = agenda[(i - 1) + 1] BY <1>4, <1>7, <2>2
    <3>2. (i - 1) + 1 = i BY <1>4
    <3>3. agenda[i] \in ToSet(rest) BY <3>1, <3>2 DEF ToSet
    <3> QED BY <3>3
  <2> QED BY <2>1, <2>2
<1>12. ToSet(rest) \subseteq ToSet(agenda) BY <1>10 DEF ToSet
<1>13. ToSet(agenda) \subseteq ToSet(rest) \cup {<<does, m, k>>} BY <1>11 DEF ToSet
<1>14. <<does, m, k>> \in ToSet(agenda) BY <1>5 DEF ToSet
<1> QED BY <1>1, <1>6, <1>9, <1>12, <1>13, <1>14

-----------------------------------------------------------------------------
(* Every step keeps the types.                                             *)

LEMMA ScopeStays ==
  ASSUME LinkType, program' = program, NEW new, NEW s \in Slots,
         new \in Places \cup {None, Error},
         scope' = [scope EXCEPT ![s] = new]
  PROVE  scope' \in [Slots -> Places' \cup {None, Error}]
<1>1. Places' = Places BY TextStays
<1> QED BY <1>1 DEF LinkType

\* A name is looked up where there is one.
LEMMA ImportType ==
  ASSUME program \in Programs, NEW m \in Group, NEW k \in DOMAIN Imports(m)
  PROVE  Imports(m)[k] \in ImportEntries /\ m \in Modules
<1>1. m \in Modules BY GroupType
<1>2. Imports(m) \in Seq(ImportEntries) BY <1>1, TextType
<1> QED BY <1>1, <1>2

\* Whatever an import puts in scope was in scope, or is an Error.
LEMMA ImportsCopy ==
  ASSUME LinkType, NEW m \in Group, NEW k \in DOMAIN Imports(m),
         Offer(m, k) \/ Refuse(m, k)
  PROVE  /\ scope' \in [Slots -> Places \cup {None, Error}]
         /\ \A s \in Slots : scope'[s] = Error \/ \E t \in Slots : scope'[s] = scope[t]
         /\ \A s \in Slots : scope[s] # None => scope'[s] # None
<1>1. Imports(m)[k] \in ImportEntries /\ m \in Modules BY ImportType DEF LinkType
<1>2. PICK entry : entry = Imports(m)[k] OBVIOUS
<1>3. entry.name \in Names /\ entry.as \in Names /\ entry.from \in Modules \cup {None}
  BY <1>1, <1>2 DEF ImportEntries
<1>4. None # Error BY NothingIsNoPlace
<1>5. ASSUME NEW new, new \in {BoundAsError(m, entry.as), scope}
      PROVE  /\ new \in [Slots -> Places \cup {None, Error}]
             /\ \A s \in Slots : new[s] = Error \/ \E t \in Slots : new[s] = scope[t]
             /\ \A s \in Slots : scope[s] # None => new[s] # None
  <2>1. CASE new = scope BY <2>1 DEF LinkType
  <2>2. CASE new = BoundAsError(m, entry.as)
    <3>1. \A s \in Slots : new[s] \in {Error, scope[s]} BY <2>2 DEF BoundAsError
    <3>2. DOMAIN new = Slots /\ new = [s \in Slots |-> new[s]] BY <2>2 DEF BoundAsError
    <3> QED BY <1>4, <3>1, <3>2 DEF LinkType
  <2> QED BY <1>5, <2>1, <2>2
<1>6. CASE Refuse(m, k)
  <2>1. scope' \in {BoundAsError(m, entry.as), scope} BY <1>2, <1>6 DEF Refuse
  <2> QED BY <1>5, <2>1
<1>7. CASE Offer(m, k)
  <2>1. CASE Answer(m, k) # "bind"
    <3>1. scope' \in {BoundAsError(m, entry.as), scope}
      <4>1. CASE Answer(m, k) \in {"missing", "cyclic"}
        BY <1>2, <1>7, <4>1 DEF Offer
      <4>2. CASE Answer(m, k) \notin {"missing", "cyclic"}
        BY <1>2, <1>7, <2>1, <4>2 DEF Offer
      <4> QED BY <4>1, <4>2
    <3> QED BY <1>5, <3>1
  <2>2. CASE Answer(m, k) = "bind"
    <3>1. PICK home : home = Home(entry.from, entry.name) OBVIOUS
    <3>2. /\ entry.from # None /\ home # None
          /\ ~IsTaken(m, entry.as)
      BY <1>2, <2>2, <3>1 DEF Answer
    <3>3. home \in Modules \X Names
      <4>1. home \in Homes BY <1>3, <3>1, <3>2, HomeType DEF LinkType
      <4> QED BY <3>2, <4>1 DEF Homes
    <3>4. scope' = BoundInto(m, entry.as, home) BY <1>2, <1>7, <2>2, <3>1 DEF Offer
    <3>5. ASSUME NEW s \in Slots
          PROVE  /\ \E t \in Slots : scope'[s] = scope[t]
                 /\ scope[s] # None => scope'[s] # None
      <4>1. CASE s[1] = m /\ s[3] = entry.as /\ Holds(home, s[2])
        <5>1. scope'[s] = scope[<<home[1], s[2], home[2]>>] BY <3>4, <4>1 DEF BoundInto
        <5>2. <<home[1], s[2], home[2]>> \in Slots BY <3>3 DEF Slots
        <5>3. scope[<<home[1], s[2], home[2]>>] # None BY <4>1 DEF Holds
        <5> QED BY <5>1, <5>2, <5>3
      <4>2. CASE ~(s[1] = m /\ s[3] = entry.as /\ Holds(home, s[2]))
        <5>1. scope'[s] = scope[s] BY <3>4, <4>2 DEF BoundInto
        <5> QED BY <5>1
      <4> QED BY <4>1, <4>2
    <3>6. scope' = [s \in Slots |-> scope'[s]] BY <3>4 DEF BoundInto
    <3>7. \A s \in Slots : scope'[s] \in Places \cup {None, Error} BY <3>5 DEF LinkType
    <3> QED BY <3>5, <3>6, <3>7
  <2> QED BY <2>1, <2>2
<1> QED BY <1>6, <1>7

\* The loops that have something of a kind to do.
LEMMA LoopOf ==
  ASSUME LinkType, NEW does, does \in DoneIn(stage)
  PROVE  /\ does = "offer" => stage \in {"before", "seeding", "closing"}
         /\ does = "refuse" => stage = "closing"
         /\ does = "read" => stage \in {"filling", "finishing", "thrown"}
         /\ does = "resolve" => stage = "resolving"
         /\ does = "enrich" => stage = "enriching"
<1>1. stage \in Stages BY DEF LinkType
<1> QED BY <1>1, DoneInValues DEF Stages, Rounds

\* A loop begins with what it has to do.
LEMMA BeginsType ==
  ASSUME NEW loop \in Stages, NEW does, does \subseteq DoneIn(loop),
         NEW tasks \in Seq(TasksTo(does)), Begins(loop, tasks)
  PROVE  stage' \in Stages /\ agenda' \in Seq(TasksTo(DoneIn(stage')))
<1>1. TasksTo(does) \subseteq TasksTo(DoneIn(loop)) BY DEF TasksTo
<1>2. PICK S, T : S = TasksTo(does) /\ T = TasksTo(DoneIn(loop)) OBVIOUS
<1>3. tasks \in Seq(T) BY <1>1, <1>2
<1> QED BY <1>2, <1>3 DEF Begins

LEMMA ReadingsType ==
  ASSUME LinkType
  PROVE  /\ Readings \in Seq(TasksTo({"read"}))
         /\ \A p \in ToSet(predicates) : <<"read", p[1], p[2]>> \in ToSet(Readings)
<1>1. Places \subseteq Numbered BY PlaceType DEF LinkType
<1>2. predicates \in Seq(Numbered) BY <1>1 DEF LinkType
<1>3. PICK T, tasks : T = TasksTo({"read"}) /\ tasks = Tasks("read", predicates) OBVIOUS
<1>4. tasks \in Seq(T) /\ Len(tasks) = Len(predicates) BY <1>2, <1>3, TasksType
<1>5. Readings = [i \in 1 .. Len(tasks) |-> tasks[(Len(tasks) - i) + 1]]
  BY <1>3 DEF Readings, Reverse
<1>6. Readings \in Seq(T) /\ Len(Readings) = Len(tasks)
  <2>1. Len(tasks) \in Nat BY <1>4
  <2>2. ASSUME NEW i \in 1 .. Len(tasks) PROVE tasks[(Len(tasks) - i) + 1] \in T
    <3>1. (Len(tasks) - i) + 1 \in 1 .. Len(tasks) BY <2>1
    <3> QED BY <1>4, <3>1
  <2>3. Readings \in [1 .. Len(tasks) -> T] BY <1>5, <2>2
  <2> QED BY <2>1, <2>3
<1>7. ASSUME NEW p \in ToSet(predicates) PROVE <<"read", p[1], p[2]>> \in ToSet(Readings)
  <2>1. PICK i \in 1 .. Len(predicates) : predicates[i] = p BY <1>2 DEF ToSet
  <2>2. tasks[i] = <<"read", p[1], p[2]>>
    <3>1. i \in DOMAIN predicates BY <1>2, <2>1
    <3> QED BY <1>3, <2>1, <3>1 DEF Tasks
  <2>3. Len(tasks) \in Nat /\ i \in 1 .. Len(tasks) BY <1>4, <2>1
  <2>4. PICK j \in 1 .. Len(tasks) : j = (Len(tasks) - i) + 1 /\ (Len(tasks) - j) + 1 = i
    <3>1. PICK n \in Nat : n = Len(tasks) BY <2>3
    <3>2. (n - i) + 1 \in 1 .. n /\ (n - ((n - i) + 1)) + 1 = i BY <2>3, <3>1
    <3> QED BY <3>1, <3>2, Zenon
  <2>5. Readings[j] = tasks[i] BY <1>5, <2>4
  <2>6. j \in DOMAIN Readings BY <1>5, <2>4
  <2>7. Readings[j] \in ToSet(Readings) BY <2>6 DEF ToSet
  <2> QED BY <2>2, <2>5, <2>7
<1> QED BY <1>3, <1>6, <1>7

\* A declaration's fate is one of four.
LEMMA ConjunctsStay ==
  ASSUME LinkType, program' = program, NEW p, NEW new,
         new \in {"none", "unread", "read", "lost"} \/ new = conjuncts[p],
         conjuncts' \in {conjuncts, [conjuncts EXCEPT ![p] = new]}
  PROVE  conjuncts' \in [Places' -> {"none", "unread", "read", "lost"}]
<1>1. Places' = Places BY TextStays
<1> QED BY <1>1 DEF LinkType

LEMMA TypeOffer ==
  ASSUME LinkType, NEW m \in Group, NEW k \in DOMAIN Imports(m), Offer(m, k) \/ Refuse(m, k)
  PROVE  LinkType'
<1>1. scope' \in [Slots -> Places \cup {None, Error}] BY ImportsCopy
<1>2. /\ UNCHANGED <<program, hoisted, conjuncts, predicates, waiting, remaining, stage>>
      /\ Does("offer", m, k) \/ Does("refuse", m, k)
  BY DEF Offer, Refuse
<1>3. Places' = Places BY <1>2, TextStays
<1>4. agenda' \in Seq(TasksTo(DoneIn(stage))) BY <1>2, DoesStep
<1>5. agenda' \in Seq(TasksTo(DoneIn(stage'))) BY <1>2, <1>4
<1> QED BY <1>1, <1>2, <1>3, <1>5 DEF LinkType

LEMMA TypeRead ==
  ASSUME LinkType, NEW m \in Group, NEW i \in DOMAIN Declares(m), Read(m, i)
  PROVE  LinkType'
<1> DEFINE p == <<m, i>>
           lost == Reading(p) = "unanswered" /\ IsFinal
<1>1. /\ Does("read", m, i) /\ program' = program /\ waiting' = waiting
      /\ remaining' = remaining
      /\ conjuncts' = [conjuncts EXCEPT ![p] =
           IF Reading(p) = "answered" THEN "read" ELSE IF lost THEN "lost" ELSE @]
      /\ predicates' = IF Reading(p) = "answered" \/ lost THEN RemoveFirst(predicates, p)
                       ELSE predicates
      /\ hoisted' = IF lost THEN hoisted \ {p} ELSE hoisted
      /\ scope' = IF lost THEN [scope EXCEPT ![SlotOf(p)] = None] ELSE scope
      /\ stage' = IF Reading(p) = "throws" THEN "thrown" ELSE stage
  BY DEF Read
<1> HIDE DEF lost
<1>2. p \in Places BY DeclaredPlace DEF LinkType
<1>3. SlotOf(p) \in Slots BY <1>2, PlaceType DEF LinkType
<1>4. Places' = Places BY <1>1, TextStays
<1>5. scope' \in [Slots -> Places' \cup {None, Error}]
  <2>1. CASE lost BY <1>1, <1>3, <2>1, ScopeStays
  <2>2. CASE ~lost BY <1>1, <1>4, <2>2 DEF LinkType
  <2> QED BY <2>1, <2>2
<1>6. conjuncts' \in [Places' -> {"none", "unread", "read", "lost"}]
  BY <1>1, <1>4 DEF LinkType
<1>7. predicates' \in Seq(Places')
  <2>1. RemoveFirst(predicates, p) \in Seq(Places) BY RemoveFirstKeeps DEF LinkType
  <2> QED BY <1>1, <1>4, <2>1 DEF LinkType
<1>8. stage \in {"filling", "finishing", "thrown"} BY <1>1, DoesStep, LoopOf
<1>9. DoneIn(stage') = DoneIn(stage) BY <1>1, <1>8, DoneInValues
<1>10. agenda' \in Seq(TasksTo(DoneIn(stage'))) BY <1>1, <1>9, DoesStep
<1>11. stage' \in Stages BY <1>1 DEF LinkType, Stages
<1>12. hoisted' \in SUBSET Places' BY <1>1, <1>4 DEF LinkType
<1> QED BY <1>1, <1>5, <1>6, <1>7, <1>10, <1>11, <1>12 DEF LinkType

LEMMA TypeResolve ==
  ASSUME LinkType, NEW m \in Group, NEW i \in DOMAIN Declares(m), Resolve(m, i)
  PROVE  LinkType'
<1> DEFINE p == <<m, i>>
           kept == Resolves(p) /\ scope[SlotOf(p)] = None
           unread == kept /\ Refined(p) /\ ~NamesErrors(p)
<1>1. /\ Does("resolve", m, i) /\ program' = program /\ waiting' = waiting /\ stage' = stage
      /\ scope' = IF kept THEN [scope EXCEPT ![SlotOf(p)] = p] ELSE scope
      /\ hoisted' = IF kept THEN hoisted \cup {p} ELSE hoisted
      /\ conjuncts' = IF kept /\ Refined(p) /\ ~unread THEN [conjuncts EXCEPT ![p] = "lost"]
                      ELSE conjuncts
      /\ predicates' = IF unread THEN Append(predicates, p) ELSE predicates
      /\ remaining' = IF kept THEN remaining ELSE Append(remaining, p)
  BY DEF Resolve
<1> HIDE DEF kept, unread
<1>2. p \in Places BY DeclaredPlace DEF LinkType
<1>3. SlotOf(p) \in Slots /\ p \in Numbered BY <1>2, PlaceType DEF LinkType
<1>4. Places' = Places BY <1>1, TextStays
<1>5. scope' \in [Slots -> Places' \cup {None, Error}]
  <2>1. CASE kept BY <1>1, <1>2, <1>3, <2>1, ScopeStays
  <2>2. CASE ~kept BY <1>1, <1>4, <2>2 DEF LinkType
  <2> QED BY <2>1, <2>2
<1>6. conjuncts' \in [Places' -> {"none", "unread", "read", "lost"}]
  BY <1>1, <1>4 DEF LinkType
<1>7. predicates' \in Seq(Places') BY <1>1, <1>2, <1>4 DEF LinkType
<1>8. remaining' \in Seq(Numbered) BY <1>1, <1>3 DEF LinkType
<1>9. agenda' \in Seq(TasksTo(DoneIn(stage'))) BY <1>1, DoesStep
<1>10. hoisted' \in SUBSET Places' BY <1>1, <1>2, <1>4 DEF LinkType
<1> QED BY <1>1, <1>5, <1>6, <1>7, <1>8, <1>9, <1>10 DEF LinkType

LEMMA TypeEnrich ==
  ASSUME LinkType, NEW m \in Group, NEW i \in DOMAIN Declares(m), Enrich(m, i)
  PROVE  LinkType'
<1> DEFINE p == <<m, i>>
           late == p \notin hoisted
           answered == Uses(p) /\ ~NamesErrors(p) /\ Reading(p) = "answered"
<1>1. /\ Does("enrich", m, i)
      /\ UNCHANGED <<program, hoisted, predicates, waiting, remaining, stage>>
      /\ scope' = IF scope[SlotOf(p)] = None THEN [scope EXCEPT ![SlotOf(p)] = p] ELSE scope
      /\ conjuncts' = [conjuncts EXCEPT ![p] =
           IF late /\ @ = "unread" THEN IF answered THEN "read" ELSE "lost" ELSE @]
  BY DEF Enrich
<1> HIDE DEF late, answered
<1>2. p \in Places BY DeclaredPlace DEF LinkType
<1>3. SlotOf(p) \in Slots BY <1>2, PlaceType DEF LinkType
<1>4. Places' = Places BY <1>1, TextStays
<1>5. scope' \in [Slots -> Places' \cup {None, Error}]
  <2>1. CASE scope[SlotOf(p)] = None BY <1>1, <1>2, <1>3, <2>1, ScopeStays
  <2>2. CASE scope[SlotOf(p)] # None BY <1>1, <1>4, <2>2 DEF LinkType
  <2> QED BY <2>1, <2>2
<1>6. conjuncts' \in [Places' -> {"none", "unread", "read", "lost"}]
  BY <1>1, <1>4 DEF LinkType
<1>7. agenda' \in Seq(TasksTo(DoneIn(stage'))) BY <1>1, DoesStep
<1> QED BY <1>1, <1>4, <1>5, <1>6, <1>7 DEF LinkType

LEMMA CircularPlaces ==
  ASSUME program \in Programs
  PROVE  Circular \subseteq Places /\ \A p \in Circular : IsType(p)
<1> SUFFICES ASSUME NEW p \in Circular PROVE p \in Places /\ IsType(p)
  OBVIOUS
<1>1. p \in Places /\ IsRecursive(p) BY DEF Circular
<1>2. p \in FirstTypes(p[1]) BY <1>1 DEF IsRecursive
<1> QED BY <1>1, <1>2 DEF FirstTypes

LEMMA TypeHoist ==
  ASSUME LinkType, BeginHoist
  PROVE  LinkType'
<1> DEFINE circular == Circular
           poisoned == {SlotOf(p) : p \in circular}
           rest == Only(Declarations, {p \in Places : Hoists(p)} \ circular)
<1>1. /\ UNCHANGED <<program, hoisted, conjuncts, predicates, remaining>>
      /\ scope' = [s \in Slots |-> IF s \in poisoned THEN Error ELSE scope[s]]
      /\ waiting' = rest
      /\ IF rest = <<>> THEN Begins("closing", LastOffers) ELSE Begins("seeding", Offers)
  BY DEF BeginHoist
<1>2. rest \in Seq(Numbered) BY OffersType, OnlyType DEF LinkType
<1> HIDE DEF rest, poisoned
<1>3. Places' = Places BY <1>1, TextStays
<1>4. scope' \in [Slots -> Places' \cup {None, Error}] BY <1>1, <1>3 DEF LinkType
<1>5. {"offer"} \subseteq DoneIn("seeding") /\ {"offer", "refuse"} \subseteq DoneIn("closing")
      /\ "seeding" \in Stages /\ "closing" \in Stages
  BY DoneInValues DEF Stages, Rounds
<1>6. /\ Offers \in Seq(TasksTo({"offer"})) /\ LastOffers \in Seq(TasksTo({"offer", "refuse"}))
  BY OffersType DEF LinkType
<1>7. stage' \in Stages /\ agenda' \in Seq(TasksTo(DoneIn(stage')))
  <2>1. CASE rest = <<>> BY <1>1, <1>5, <1>6, <2>1, BeginsType
  <2>2. CASE rest # <<>> BY <1>1, <1>5, <1>6, <2>2, BeginsType
  <2> QED BY <2>1, <2>2
<1> QED BY <1>1, <1>2, <1>3, <1>4, <1>7 DEF LinkType

LEMMA TypeRounds ==
  ASSUME LinkType, BeginFill \/ BeginResolving \/ EndRound \/ BeginLastFill \/ ReportExports
  PROVE  LinkType'
<1>1. /\ UNCHANGED <<program, scope, hoisted, conjuncts, predicates>>
      /\ waiting' \in {waiting, remaining} /\ remaining' \in {remaining, <<>>}
  BY DEF BeginFill, BeginResolving, EndRound, BeginLastFill, ReportExports
<1>2. Places' = Places BY <1>1, TextStays
<1>3. /\ "filling" \in Stages /\ "resolving" \in Stages /\ "closing" \in Stages
      /\ "seeding" \in Stages /\ "finishing" \in Stages /\ "done" \in Stages
  BY DEF Stages, Rounds
<1>4. stage' \in Stages /\ agenda' \in Seq(TasksTo(DoneIn(stage')))
  <2>1. CASE BeginFill
    <3>1. Begins("filling", Readings) /\ {"read"} \subseteq DoneIn("filling")
      BY <2>1, DoneInValues DEF BeginFill
    <3> QED BY <1>3, <3>1, ReadingsType, BeginsType
  <2>2. CASE BeginResolving
    <3>1. Begins("resolving", Tasks("resolve", waiting)) /\ {"resolve"} \subseteq DoneIn("resolving")
      BY <2>2, DoneInValues DEF BeginResolving
    <3>2. Tasks("resolve", waiting) \in Seq(TasksTo({"resolve"})) BY TasksType DEF LinkType
    <3> QED BY <1>3, <3>1, <3>2, BeginsType
  <2>3. CASE EndRound
    <3>1. /\ Begins("closing", LastOffers) \/ Begins("seeding", Offers)
          /\ {"offer"} \subseteq DoneIn("seeding") /\ {"offer", "refuse"} \subseteq DoneIn("closing")
      BY <2>3, DoneInValues DEF EndRound
    <3>2. /\ Offers \in Seq(TasksTo({"offer"}))
          /\ LastOffers \in Seq(TasksTo({"offer", "refuse"}))
      BY OffersType DEF LinkType
    <3>3. CASE Begins("closing", LastOffers) BY <1>3, <3>1, <3>2, <3>3, BeginsType
    <3>4. CASE Begins("seeding", Offers) BY <1>3, <3>1, <3>2, <3>4, BeginsType
    <3> QED BY <3>1, <3>3, <3>4
  <2>4. CASE BeginLastFill
    <3>1. Begins("finishing", Readings) /\ {"read"} \subseteq DoneIn("finishing")
      BY <2>4, DoneInValues DEF BeginLastFill
    <3> QED BY <1>3, <3>1, ReadingsType, BeginsType
  <2>5. CASE ReportExports
    <3>1. stage' = "done" /\ agenda' = <<>> BY <2>5 DEF ReportExports, Begins
    <3> QED BY <1>3, <3>1
  <2> QED BY <2>1, <2>2, <2>3, <2>4, <2>5
<1>5. waiting' \in Seq(Numbered) /\ remaining' \in Seq(Numbered)
  <2>1. <<>> \in Seq(Numbered) OBVIOUS
  <2> QED BY <1>1, <2>1 DEF LinkType
<1> QED BY <1>1, <1>2, <1>4, <1>5 DEF LinkType

LEMMA TypeEnrichment ==
  ASSUME LinkType, BeginEnrichment
  PROVE  LinkType'
<1> DEFINE circular == Circular
<1>1. /\ UNCHANGED <<program, predicates, waiting, remaining>>
      /\ scope' = [s \in Slots |->
           IF \E p \in circular : SlotOf(p) = s
           THEN CHOOSE p \in circular : SlotOf(p) = s ELSE scope[s]]
      /\ hoisted' = hoisted \cup circular
      /\ conjuncts' = [p \in Places |->
           IF p \in circular /\ Refined(p) THEN "lost" ELSE conjuncts[p]]
      /\ Begins("enriching", Tasks("enrich", Declarations))
  BY DEF BeginEnrichment
<1>2. circular \subseteq Places BY CircularPlaces DEF LinkType
<1> HIDE DEF circular
<1>3. Places' = Places BY <1>1, TextStays
<1>4. scope' \in [Slots -> Places' \cup {None, Error}]
  <2>1. ASSUME NEW s \in Slots PROVE scope'[s] \in Places \cup {None, Error}
    <3>1. CASE \E p \in circular : SlotOf(p) = s
      <4>1. (CHOOSE p \in circular : SlotOf(p) = s) \in circular BY <3>1
      <4> QED BY <1>1, <1>2, <3>1, <4>1
    <3>2. CASE ~ \E p \in circular : SlotOf(p) = s BY <1>1, <3>2 DEF LinkType
    <3> QED BY <3>1, <3>2
  <2>2. scope' = [s \in Slots |-> scope'[s]] BY <1>1
  <2> QED BY <1>3, <2>1, <2>2
<1>5. conjuncts' \in [Places' -> {"none", "unread", "read", "lost"}] BY <1>1, <1>3 DEF LinkType
<1>6. {"enrich"} \subseteq DoneIn("enriching") /\ "enriching" \in Stages
  BY DoneInValues DEF Stages
<1>7. Tasks("enrich", Declarations) \in Seq(TasksTo({"enrich"}))
  BY OffersType, TasksType DEF LinkType
<1>8. stage' \in Stages /\ agenda' \in Seq(TasksTo(DoneIn(stage'))) BY <1>1, <1>6, <1>7, BeginsType
<1> QED BY <1>1, <1>2, <1>3, <1>4, <1>5, <1>8 DEF LinkType

LEMMA TypeInit ==
  ASSUME Init
  PROVE  LinkType
<1>1. program \in Programs BY DEF Init
<1>2. ASSUME NEW s \in Slots PROVE scope[s] \in Places \cup {None, Error}
  <2>1. CASE \E p \in Places : p[1] \notin Group /\ SlotOf(p) = s BY <2>1 DEF Init
  <2>2. CASE ~ \E p \in Places : p[1] \notin Group /\ SlotOf(p) = s BY <2>2 DEF Init
  <2> QED BY <2>1, <2>2
<1>3. scope \in [Slots -> Places \cup {None, Error}]
  <2>1. scope = [s \in Slots |-> scope[s]] BY DEF Init
  <2> QED BY <1>2, <2>1
<1>4. conjuncts \in [Places -> {"none", "unread", "read", "lost"}] BY DEF Init
<1>5. /\ hoisted = {} /\ predicates = <<>> /\ waiting = <<>> /\ remaining = <<>>
      /\ stage = "before" /\ agenda = Offers BY DEF Init
<1>6. agenda \in Seq(TasksTo(DoneIn(stage))) BY <1>1, <1>5, OffersType, DoneInValues
<1> QED BY <1>1, <1>3, <1>4, <1>5, <1>6 DEF LinkType, Stages

LEMMA TypeStutter ==
  ASSUME LinkType, UNCHANGED vars
  PROVE  LinkType'
<1>1. /\ UNCHANGED <<program, scope, conjuncts, hoisted, predicates, waiting, remaining, stage,
                     agenda>>
  BY DEF vars
<1>2. Places' = Places BY <1>1, TextStays
<1> QED BY <1>1, <1>2 DEF LinkType

LEMMA TypeStep ==
  ASSUME LinkType, [Next]_vars
  PROVE  LinkType'
<1>1. CASE UNCHANGED vars BY <1>1, TypeStutter
<1>2. CASE \E m \in Group : \E k \in DOMAIN Imports(m) : Offer(m, k) \/ Refuse(m, k)
  BY <1>2, TypeOffer
<1>3. CASE \E m \in Group : \E i \in DOMAIN Declares(m) : Read(m, i) BY <1>3, TypeRead
<1>4. CASE \E m \in Group : \E i \in DOMAIN Declares(m) : Resolve(m, i) BY <1>4, TypeResolve
<1>5. CASE \E m \in Group : \E i \in DOMAIN Declares(m) : Enrich(m, i) BY <1>5, TypeEnrich
<1>6. CASE BeginHoist BY <1>6, TypeHoist
<1>7. CASE BeginFill \/ BeginResolving \/ EndRound \/ BeginLastFill \/ ReportExports
  BY <1>7, TypeRounds
<1>8. CASE BeginEnrichment BY <1>8, TypeEnrichment
<1> QED BY <1>1, <1>2, <1>3, <1>4, <1>5, <1>6, <1>7, <1>8 DEF Next

-----------------------------------------------------------------------------
(* What a predicate may go unread for.                                     *)

Hoisting == Rounds \cup {"before", "finishing"}

\* Everything that somebody may come across: what hoisted, and what is in scope.
Held == hoisted \cup {scope[s] : s \in Slots}

UnreadAreRefined == \A p \in Places : conjuncts[p] = "unread" => Refined(p)

\* While hoisting lasts, whatever is held unread is pending.
UnreadIsPending ==
  stage \in Hoisting =>
    \A p \in Places \cap Held : conjuncts[p] = "unread" => p \in ToSet(predicates)

\* The last reading comes to everything that is pending.
PendingIsToRead ==
  stage = "finishing" =>
    \A p \in ToSet(predicates) :
      conjuncts[p] = "unread" => <<"read", p[1], p[2]>> \in ToSet(agenda)

NoneUnread ==
  stage \in {"enriching", "done"} => \A p \in Places \cap Held : conjuncts[p] # "unread"

ReadInv == LinkType /\ UnreadAreRefined /\ UnreadIsPending /\ PendingIsToRead /\ NoneUnread

LEMMA ReadInit ==
  ASSUME Init
  PROVE  ReadInv
<1>1. LinkType BY TypeInit
<1>2. stage = "before" /\ hoisted = {} /\ predicates = <<>> BY DEF Init
<1>3. ASSUME NEW p \in Places PROVE conjuncts[p] = "unread" => Refined(p) BY DEF Init
<1>4. ASSUME NEW p \in Places \cap Held PROVE conjuncts[p] # "unread"
  <2>1. PICK s \in Slots : scope[s] = p BY <1>2 DEF Held
  <2>2. p # None BY <1>1, PlaceType DEF LinkType
  <2>3. \E q \in Places : q[1] \notin Group /\ SlotOf(q) = s BY <2>1, <2>2 DEF Init
  <2>4. p[1] \notin Group BY <2>1, <2>3 DEF Init
  <2> QED BY <2>4 DEF Init
<1> QED BY <1>1, <1>2, <1>3, <1>4
        DEF ReadInv, UnreadAreRefined, UnreadIsPending, PendingIsToRead, NoneUnread

\* Nothing becomes unread again.
LEMMA RefinedStep ==
  ASSUME ReadInv, program' = program,
         \A p \in Places : conjuncts'[p] = "unread" => conjuncts[p] = "unread"
  PROVE  UnreadAreRefined'
<1>1. Places' = Places /\ \A p : Declared(p)' = Declared(p) BY TextStays
<1>2. \A p : Refined(p)' = Refined(p) BY <1>1, Zenon DEF Refined
<1> QED BY <1>1, <1>2 DEF ReadInv, UnreadAreRefined

\* A step that brings no declaration to anybody, outside of the last loops.
LEMMA NothingComes ==
  ASSUME ReadInv, LinkType', program' = program, conjuncts' = conjuncts, predicates' = predicates,
         stage \in Hoisting, stage' \in Rounds \cup {"before"},
         Places \cap Held' \subseteq Held
  PROVE  ReadInv'
<1>1. Places' = Places BY TextStays
<1>2. UnreadAreRefined' BY RefinedStep
<1>3. UnreadIsPending' BY <1>1 DEF ReadInv, UnreadIsPending
<1>4. PendingIsToRead' /\ NoneUnread' BY DEF PendingIsToRead, NoneUnread, Rounds
<1> QED BY <1>2, <1>3, <1>4 DEF ReadInv

LEMMA ReadOffer ==
  ASSUME ReadInv, NEW m \in Group, NEW k \in DOMAIN Imports(m), Offer(m, k) \/ Refuse(m, k)
  PROVE  ReadInv'
<1>1. LinkType BY DEF ReadInv
<1>2. /\ UNCHANGED <<program, hoisted, conjuncts, predicates, stage>>
      /\ Does("offer", m, k) \/ Does("refuse", m, k)
  BY DEF Offer, Refuse
<1>3. stage \in {"before", "seeding", "closing"} BY <1>1, <1>2, DoesStep, LoopOf
<1>4. Places \cap Held' \subseteq Held
  <2>1. ASSUME NEW p \in Places, NEW s \in Slots, p = scope'[s] PROVE p \in Held
    <3>1. p # Error BY <1>1, PlaceType DEF LinkType
    <3>2. \E t \in Slots : p = scope[t] BY <1>1, <2>1, <3>1, ImportsCopy
    <3> QED BY <3>2 DEF Held
  <2> QED BY <1>2, <2>1 DEF Held
<1>5. LinkType' BY <1>1, TypeOffer
<1>6. stage \in Hoisting /\ stage' \in Rounds \cup {"before"} BY <1>2, <1>3 DEF Hoisting, Rounds
<1> QED BY <1>2, <1>4, <1>5, <1>6, NothingComes

LEMMA ReadHoist ==
  ASSUME ReadInv, BeginHoist
  PROVE  ReadInv'
<1>1. /\ LinkType /\ stage = "before"
      /\ UNCHANGED <<program, hoisted, conjuncts, predicates>>
      /\ stage' \in {"closing", "seeding"}
      /\ \A s \in Slots : scope'[s] \in {Error, scope[s]}
  BY DEF ReadInv, BeginHoist, Begins
<1>2. Places \cap Held' \subseteq Held
  <2>1. ASSUME NEW p \in Places, NEW s \in Slots, p = scope'[s] PROVE p \in Held
    <3>1. p # Error BY <1>1, PlaceType DEF LinkType
    <3>2. p = scope[s] BY <1>1, <2>1, <3>1
    <3> QED BY <3>2 DEF Held
  <2> QED BY <1>1, <2>1 DEF Held
<1>3. LinkType' BY <1>1, TypeHoist
<1>4. stage \in Hoisting /\ stage' \in Rounds \cup {"before"} BY <1>1 DEF Hoisting, Rounds
<1> QED BY <1>1, <1>2, <1>3, <1>4, NothingComes

LEMMA ReadRounds ==
  ASSUME ReadInv, BeginFill \/ BeginResolving \/ EndRound
  PROVE  ReadInv'
<1>1. /\ UNCHANGED <<program, scope, hoisted, conjuncts, predicates>>
      /\ stage \in {"seeding", "filling", "resolving"}
      /\ stage' \in {"filling", "resolving", "closing", "seeding"}
  BY DEF BeginFill, BeginResolving, EndRound, Begins
<1>2. Held' = Held BY <1>1 DEF Held
<1>3. LinkType' BY TypeRounds DEF ReadInv
<1>4. stage \in Hoisting /\ stage' \in Rounds \cup {"before"} BY <1>1 DEF Hoisting, Rounds
<1> QED BY <1>1, <1>2, <1>3, <1>4, NothingComes

LEMMA ReadLastFill ==
  ASSUME ReadInv, BeginLastFill
  PROVE  ReadInv'
<1>1. /\ UNCHANGED <<program, scope, hoisted, conjuncts, predicates>>
      /\ stage = "closing" /\ stage' = "finishing" /\ agenda' = Readings
  BY DEF BeginLastFill, Begins
<1>2. Held' = Held BY <1>1 DEF Held
<1>3. LinkType' BY TypeRounds DEF ReadInv
<1>4. Places' = Places BY <1>1, TextStays
<1>5. UnreadAreRefined' BY <1>1, RefinedStep
<1>6. UnreadIsPending'
  <2>1. stage \in Hoisting BY <1>1 DEF Hoisting, Rounds
  <2> QED BY <1>1, <1>2, <1>4, <2>1 DEF ReadInv, UnreadIsPending
<1>7. PendingIsToRead' BY <1>1, ReadingsType DEF ReadInv, PendingIsToRead
<1>8. NoneUnread' BY <1>1 DEF NoneUnread
<1> QED BY <1>3, <1>5, <1>6, <1>7, <1>8 DEF ReadInv

LEMMA ReadRead ==
  ASSUME ReadInv, NEW m \in Group, NEW i \in DOMAIN Declares(m), Read(m, i)
  PROVE  ReadInv'
<1> DEFINE p == <<m, i>>
           lost == Reading(p) = "unanswered" /\ IsFinal
<1>1. /\ Does("read", m, i) /\ program' = program /\ stage # "thrown"
      /\ conjuncts' = [conjuncts EXCEPT ![p] =
           IF Reading(p) = "answered" THEN "read" ELSE IF lost THEN "lost" ELSE @]
      /\ predicates' = IF Reading(p) = "answered" \/ lost THEN RemoveFirst(predicates, p)
                       ELSE predicates
      /\ hoisted' = IF lost THEN hoisted \ {p} ELSE hoisted
      /\ scope' = IF lost THEN [scope EXCEPT ![SlotOf(p)] = None] ELSE scope
      /\ stage' = IF Reading(p) = "throws" THEN "thrown" ELSE stage
  BY DEF Read
<1>2. Reading(p) \in {"answered", "unanswered", "throws"} BY Zenon DEF Reading
<1>3. stage = "finishing" => IsFinal BY DEF IsFinal
<1>4. LinkType /\ LinkType' BY TypeRead DEF ReadInv
<1>5. p \in Places BY <1>4, DeclaredPlace DEF LinkType
<1>6. stage \in {"filling", "finishing"} BY <1>1, <1>4, DoesStep, LoopOf
<1>7. Places' = Places BY <1>1, TextStays
<1>8. /\ \A q \in ToSet(predicates) : q # p => q \in ToSet(predicates')
      /\ ToSet(predicates') \subseteq ToSet(predicates)
      /\ ToSet(predicates) \subseteq Places
  <2>1. predicates \in Seq(Places) BY <1>4 DEF LinkType
  <2>2. ToSet(predicates) \subseteq Places BY <2>1 DEF ToSet
  <2> HIDE DEF lost
  <2>3. CASE predicates' = predicates BY <2>2, <2>3
  <2>4. CASE predicates' = RemoveFirst(predicates, p)
    BY <2>1, <2>2, <2>4, RemoveFirstKeeps
  <2> QED BY <1>1, <2>3, <2>4
<1>9. /\ \A q \in Places : q # p => conjuncts'[q] = conjuncts[q]
      /\ conjuncts'[p] = IF Reading(p) = "answered" THEN "read"
                         ELSE IF lost THEN "lost" ELSE conjuncts[p]
  <2> HIDE DEF lost
  <2> QED BY <1>1, <1>4, <1>5 DEF LinkType
<1>10. Places \cap Held' \subseteq Held
  <2>1. ASSUME NEW q \in Places, NEW s \in Slots, q = scope'[s] PROVE q \in Held
    <3>1. q # None BY <1>4, PlaceType DEF LinkType
    <3>2. scope'[s] \in {None, scope[s]}
      <4> HIDE DEF lost
      <4> QED BY <1>1, <1>4 DEF LinkType
    <3> QED BY <2>1, <3>1, <3>2 DEF Held
  <2>2. hoisted' \subseteq hoisted BY <1>1
  <2> QED BY <2>1, <2>2 DEF Held
<1>11. \A q \in Places : conjuncts'[q] = "unread" => conjuncts[q] = "unread" BY <1>5, <1>9
<1>12. UnreadAreRefined' BY <1>1, <1>11, RefinedStep
<1>13. UnreadIsPending'
  <2> SUFFICES ASSUME NEW q \in Places, q \in Held', conjuncts'[q] = "unread"
               PROVE  q \in ToSet(predicates')
    BY <1>7 DEF UnreadIsPending
  <2>1. q \in ToSet(predicates) BY <1>6, <1>10, <1>11 DEF ReadInv, UnreadIsPending, Hoisting, Rounds
  <2>2. CASE q # p BY <1>8, <2>1, <2>2
  <2>3. CASE q = p
    <3>1. ~(Reading(p) = "answered" \/ lost)
      <4> HIDE DEF lost
      <4> QED BY <1>9, <2>3
    <3> QED BY <1>1, <2>1, <3>1
  <2> QED BY <2>2, <2>3
<1>14. PendingIsToRead'
  <2> SUFFICES ASSUME stage' = "finishing", NEW q \in ToSet(predicates'),
                      conjuncts'[q] = "unread"
               PROVE  <<"read", q[1], q[2]>> \in ToSet(agenda')
    BY DEF PendingIsToRead
  <2>1. stage = "finishing" /\ Reading(p) # "throws" BY <1>1, <1>6
  <2>2. q \in Places /\ q \in ToSet(predicates) BY <1>8
  <2>3. q # p BY <1>2, <1>3, <1>9, <2>1
  <2>4. <<"read", q[1], q[2]>> \in ToSet(agenda)
    BY <1>11, <2>1, <2>2 DEF ReadInv, PendingIsToRead
  <2>5. <<"read", q[1], q[2]>> # <<"read", m, i>>
    <3>1. q = <<q[1], q[2]>> BY <1>4, <2>2, PlaceType DEF LinkType
    <3> QED BY <2>3, <3>1
  <2>6. ToSet(agenda) \subseteq ToSet(agenda') \cup {<<"read", m, i>>} BY <1>1, <1>4, DoesStep
  <2> QED BY <2>4, <2>5, <2>6
<1>15. NoneUnread' BY <1>1, <1>6 DEF NoneUnread
<1> QED BY <1>4, <1>12, <1>13, <1>14, <1>15 DEF ReadInv

LEMMA ReadResolve ==
  ASSUME ReadInv, NEW m \in Group, NEW i \in DOMAIN Declares(m), Resolve(m, i)
  PROVE  ReadInv'
<1> DEFINE p == <<m, i>>
           kept == Resolves(p) /\ scope[SlotOf(p)] = None
           unread == kept /\ Refined(p) /\ ~NamesErrors(p)
<1>1. /\ Does("resolve", m, i) /\ program' = program /\ stage' = stage
      /\ scope' = IF kept THEN [scope EXCEPT ![SlotOf(p)] = p] ELSE scope
      /\ hoisted' = IF kept THEN hoisted \cup {p} ELSE hoisted
      /\ conjuncts' = IF kept /\ Refined(p) /\ ~unread THEN [conjuncts EXCEPT ![p] = "lost"]
                      ELSE conjuncts
      /\ predicates' = IF unread THEN Append(predicates, p) ELSE predicates
  BY DEF Resolve
<1>2. unread <=> kept /\ Refined(p) /\ ~NamesErrors(p) OBVIOUS
<1> HIDE DEF kept, unread
<1>3. LinkType /\ LinkType' BY TypeResolve DEF ReadInv
<1>4. p \in Places BY <1>3, DeclaredPlace DEF LinkType
<1>5. stage = "resolving" BY <1>1, <1>3, DoesStep, LoopOf
<1>6. Places' = Places BY <1>1, TextStays
<1>7. \A q \in Places : conjuncts'[q] = "unread" => conjuncts[q] = "unread"
  BY <1>1, <1>3 DEF LinkType
<1>8. UnreadAreRefined' BY <1>1, <1>7, RefinedStep
<1>9. /\ ToSet(predicates) \subseteq ToSet(predicates')
      /\ unread => p \in ToSet(predicates')
  <2>1. predicates \in Seq(Places) BY <1>3 DEF LinkType
  <2>2. CASE unread
    <3>1. predicates' = Append(predicates, p) BY <1>1, <2>2
    <3>2. /\ \A j \in DOMAIN predicates : j \in DOMAIN predicates' /\ predicates'[j] = predicates[j]
          /\ Len(predicates) + 1 \in DOMAIN predicates' /\ predicates'[Len(predicates) + 1] = p
      BY <1>4, <2>1, <3>1
    <3> QED BY <3>2 DEF ToSet
  <2>3. CASE ~unread BY <1>1, <2>3
  <2> QED BY <2>2, <2>3
<1>10. \A q \in Places : q \in Held' => q \in Held \/ (q = p /\ kept)
  <2>1. ASSUME NEW q \in Places, NEW s \in Slots, q = scope'[s]
        PROVE  q \in Held \/ (q = p /\ kept)
    <3>1. scope'[s] = scope[s] \/ (kept /\ scope'[s] = p) BY <1>1, <1>3 DEF LinkType
    <3> QED BY <2>1, <3>1 DEF Held
  <2> QED BY <1>1, <2>1 DEF Held
<1>11. UnreadIsPending'
  <2> SUFFICES ASSUME NEW q \in Places, q \in Held', conjuncts'[q] = "unread"
               PROVE  q \in ToSet(predicates')
    BY <1>6 DEF UnreadIsPending
  <2>1. CASE q \in Held
    BY <1>5, <1>7, <1>9, <2>1 DEF ReadInv, UnreadIsPending, Hoisting, Rounds
  <2>2. CASE q = p /\ kept
    <3>1. Refined(p) BY <1>7, <2>2 DEF ReadInv, UnreadAreRefined
    <3>2. unread
      <4>1. CASE ~unread
        <5>1. conjuncts'[p] = "lost" BY <1>1, <1>3, <1>4, <2>2, <3>1, <4>1 DEF LinkType
        <5> QED BY <2>2, <5>1
      <4> QED BY <4>1
    <3> QED BY <1>9, <2>2, <3>2
  <2> QED BY <1>10, <2>1, <2>2
<1>12. PendingIsToRead' /\ NoneUnread' BY <1>1, <1>5 DEF PendingIsToRead, NoneUnread
<1> QED BY <1>3, <1>8, <1>11, <1>12 DEF ReadInv

\* The last reading has left nothing: what is pending is read, or its base.
LEMMA ReadEnrichment ==
  ASSUME ReadInv, BeginEnrichment
  PROVE  ReadInv'
<1> DEFINE circular == Circular
<1>1. /\ agenda = <<>> /\ stage = "finishing" /\ stage' = "enriching"
      /\ program' = program
      /\ scope' = [s \in Slots |->
           IF \E p \in circular : SlotOf(p) = s
           THEN CHOOSE p \in circular : SlotOf(p) = s ELSE scope[s]]
      /\ hoisted' = hoisted \cup circular
      /\ conjuncts' = [p \in Places |->
           IF p \in circular /\ Refined(p) THEN "lost" ELSE conjuncts[p]]
  BY DEF BeginEnrichment, Begins
<1> HIDE DEF circular
<1>2. LinkType /\ LinkType' BY TypeEnrichment DEF ReadInv
<1>3. Places' = Places BY <1>1, TextStays
<1>4. \A q \in Places : conjuncts'[q] = "unread" => conjuncts[q] = "unread" BY <1>1
<1>5. UnreadAreRefined' BY <1>1, <1>4, RefinedStep
<1>6. \A q \in Places : q \in Held' => q \in Held \cup circular
  <2>1. ASSUME NEW s \in Slots PROVE scope'[s] \in circular \cup {scope[s]}
    <3>1. CASE \E p \in circular : SlotOf(p) = s
      <4>1. (CHOOSE p \in circular : SlotOf(p) = s) \in circular BY <3>1
      <4> QED BY <1>1, <3>1, <4>1
    <3>2. CASE ~ \E p \in circular : SlotOf(p) = s BY <1>1, <3>2
    <3> QED BY <3>1, <3>2
  <2> QED BY <1>1, <2>1 DEF Held
<1>7. ToSet(agenda) = {} BY <1>1 DEF ToSet
<1>8. \A q \in Places \cap Held : conjuncts[q] # "unread"
  BY <1>1, <1>7 DEF ReadInv, UnreadIsPending, PendingIsToRead, Hoisting
<1>9. ASSUME NEW q \in Places, q \in Held' PROVE conjuncts'[q] # "unread"
  <2>1. CASE q \in circular
    <3>1. CASE Refined(q) BY <1>1, <2>1, <3>1
    <3>2. CASE ~Refined(q) BY <1>4, <3>2 DEF ReadInv, UnreadAreRefined
    <3> QED BY <3>1, <3>2
  <2>2. CASE q \in Held BY <1>4, <1>8, <2>2
  <2> QED BY <1>6, <1>9, <2>1, <2>2
<1>10. NoneUnread' BY <1>3, <1>9 DEF NoneUnread
<1>11. UnreadIsPending' /\ PendingIsToRead'
  BY <1>1 DEF UnreadIsPending, PendingIsToRead, Hoisting, Rounds
<1> QED BY <1>2, <1>5, <1>10, <1>11 DEF ReadInv

LEMMA ReadEnrich ==
  ASSUME ReadInv, NEW m \in Group, NEW i \in DOMAIN Declares(m), Enrich(m, i)
  PROVE  ReadInv'
<1> DEFINE p == <<m, i>>
           late == p \notin hoisted
           answered == Uses(p) /\ ~NamesErrors(p) /\ Reading(p) = "answered"
<1>1. /\ Does("enrich", m, i) /\ UNCHANGED <<program, hoisted, stage>>
      /\ scope' = IF scope[SlotOf(p)] = None THEN [scope EXCEPT ![SlotOf(p)] = p] ELSE scope
      /\ conjuncts' = [conjuncts EXCEPT ![p] =
           IF late /\ @ = "unread" THEN IF answered THEN "read" ELSE "lost" ELSE @]
  BY DEF Enrich
<1> HIDE DEF answered
<1>2. LinkType /\ LinkType' BY TypeEnrich DEF ReadInv
<1>3. p \in Places BY <1>2, DeclaredPlace DEF LinkType
<1>4. stage = "enriching" BY <1>1, <1>2, DoesStep, LoopOf
<1>5. Places' = Places BY <1>1, TextStays
<1>6. \A q \in Places : q # p => conjuncts'[q] = conjuncts[q] BY <1>1, <1>2 DEF LinkType
<1>7. conjuncts'[p] # "unread"
  <2>1. CASE late BY <1>1, <1>2, <1>3, <2>1 DEF LinkType
  <2>2. CASE ~late
    <3>1. conjuncts[p] # "unread" BY <1>3, <1>4, <2>2 DEF ReadInv, NoneUnread, Held
    <3> QED BY <1>1, <1>2, <1>3, <2>2, <3>1 DEF LinkType
  <2> QED BY <2>1, <2>2
<1>8. UnreadAreRefined'
  <2>1. \A q \in Places : conjuncts'[q] = "unread" => conjuncts[q] = "unread" BY <1>6, <1>7
  <2> QED BY <1>1, <2>1, RefinedStep
<1>9. \A q \in Places : q \in Held' => q \in Held \/ q = p
  <2>1. ASSUME NEW s \in Slots PROVE scope'[s] \in {p, scope[s]} BY <1>1, <1>2 DEF LinkType
  <2> QED BY <1>1, <2>1 DEF Held
<1>10. NoneUnread'
  BY <1>4, <1>5, <1>6, <1>7, <1>9 DEF ReadInv, NoneUnread
<1>11. UnreadIsPending' /\ PendingIsToRead'
  BY <1>1, <1>4 DEF UnreadIsPending, PendingIsToRead, Hoisting, Rounds
<1> QED BY <1>2, <1>8, <1>10, <1>11 DEF ReadInv

\* Steps that change nothing of what this is about.
LEMMA ReadQuiet ==
  ASSUME ReadInv, ReportExports \/ UNCHANGED vars
  PROVE  ReadInv'
<1>1. /\ UNCHANGED <<program, scope, hoisted, conjuncts, predicates>>
      /\ \/ stage = "enriching" /\ stage' = "done"
         \/ stage' = stage /\ agenda' = agenda
  BY DEF ReportExports, Begins, vars
<1>2. LinkType' BY TypeRounds, TypeStutter DEF ReadInv
<1>3. Places' = Places BY <1>1, TextStays
<1>4. Held' = Held BY <1>1 DEF Held
<1>5. UnreadAreRefined' BY <1>1, RefinedStep
<1>6. UnreadIsPending' BY <1>1, <1>3, <1>4 DEF ReadInv, UnreadIsPending, Hoisting, Rounds
<1>7. PendingIsToRead' BY <1>1 DEF ReadInv, PendingIsToRead
<1>8. NoneUnread' BY <1>1, <1>3, <1>4 DEF ReadInv, NoneUnread
<1> QED BY <1>2, <1>5, <1>6, <1>7, <1>8 DEF ReadInv

LEMMA ReadStep ==
  ASSUME ReadInv, [Next]_vars
  PROVE  ReadInv'
<1>1. CASE UNCHANGED vars \/ ReportExports BY <1>1, ReadQuiet
<1>2. CASE \E m \in Group : \E k \in DOMAIN Imports(m) : Offer(m, k) \/ Refuse(m, k)
  BY <1>2, ReadOffer
<1>3. CASE \E m \in Group : \E i \in DOMAIN Declares(m) : Read(m, i) BY <1>3, ReadRead
<1>4. CASE \E m \in Group : \E i \in DOMAIN Declares(m) : Resolve(m, i) BY <1>4, ReadResolve
<1>5. CASE \E m \in Group : \E i \in DOMAIN Declares(m) : Enrich(m, i) BY <1>5, ReadEnrich
<1>6. CASE BeginHoist BY <1>6, ReadHoist
<1>7. CASE BeginFill \/ BeginResolving \/ EndRound BY <1>7, ReadRounds
<1>8. CASE BeginLastFill BY <1>8, ReadLastFill
<1>9. CASE BeginEnrichment BY <1>9, ReadEnrichment
<1> QED BY <1>1, <1>2, <1>3, <1>4, <1>5, <1>6, <1>7, <1>8, <1>9 DEF Next

\* Nothing past hoisting meets a predicate that was not read, whatever the
\* program: what hoists unread is pending until it is read, and the last of
\* fillPendingPredicates' readings decides about all that still is.
THEOREM PredicatesAreRead == Spec => []NothingStaysUnread
<1>1. Init => ReadInv BY ReadInit
<1>2. ReadInv /\ [Next]_vars => ReadInv' BY ReadStep
<1>3. ReadInv => NothingStaysUnread
  <2> SUFFICES ASSUME ReadInv, stage \in {"enriching", "done"},
                      NEW s \in Slots, scope[s] \notin {None, Error}
               PROVE  conjuncts[scope[s]] # "unread"
    BY DEF NothingStaysUnread
  <2>1. scope[s] \in Places BY DEF ReadInv, LinkType
  <2>2. scope[s] \in Held BY DEF Held
  <2> QED BY <2>1, <2>2 DEF ReadInv, NoneUnread
<1> QED BY <1>1, <1>2, <1>3, PTL DEF Spec

-----------------------------------------------------------------------------
(* What bounds are woven from.                                             *)

\* No Protocol of a name will hoist beside a declaration, and none has.
NoneToCome(p, name) ==
  \A q \in Places \cap (hoisted \cup ToSet(waiting)) :
    SlotOf(q) # <<p[1], "protocols", name>>

StartsEmpty == stage = "before" => hoisted = {}

HoistedIsInScope == stage \in Rounds => \A p \in hoisted : scope[SlotOf(p)] # None

WovenOrNever ==
  stage \in Rounds => \A p \in hoisted : \A name \in Declared(p).clauses :
    <<p, name>> \in woven \/ NoneToCome(p, name)

\* A round goes through what waits, and leaves some of it.
RoundIsWaiting ==
  stage = "resolving" =>
    /\ \A task \in ToSet(agenda) : <<task[2], task[3]>> \in ToSet(waiting)
    /\ ToSet(remaining) \subseteq ToSet(waiting)

AllWoven ==
  stage \in {"finishing", "enriching"} =>
    \A p \in hoisted : \A name \in Declared(p).clauses :
      (\E q \in hoisted : SlotOf(q) = <<p[1], "protocols", name>>) => <<p, name>> \in woven

BoundInv ==
  LinkType /\ StartsEmpty /\ HoistedIsInScope /\ WovenOrNever /\ RoundIsWaiting /\ AllWoven

LEMMA BoundInit ==
  ASSUME Init
  PROVE  BoundInv
<1>1. LinkType BY TypeInit
<1>2. stage = "before" /\ hoisted = {} BY DEF Init
<1> QED BY <1>1, <1>2 DEF BoundInv, StartsEmpty, HoistedIsInScope, WovenOrNever, RoundIsWaiting,
        AllWoven, Rounds

\* A step of the rounds in which nothing hoists.
LEMMA NothingHoists ==
  ASSUME BoundInv, LinkType', program' = program, stage \in Rounds, stage' \in Rounds,
         hoisted' = hoisted, woven' = woven, ToSet(waiting') \subseteq ToSet(waiting),
         \A s \in Slots : scope[s] # None => scope'[s] # None,
         RoundIsWaiting'
  PROVE  BoundInv'
<1>1. Places' = Places /\ \A p : Declared(p)' = Declared(p) /\ SlotOf(p)' = SlotOf(p)
  BY TextStays
<1>2. LinkType BY DEF BoundInv
<1>3. StartsEmpty' /\ AllWoven' BY DEF StartsEmpty, AllWoven, Rounds
<1>4. HoistedIsInScope'
  <2>1. \A p \in hoisted : SlotOf(p) \in Slots BY <1>2, PlaceType DEF LinkType
  <2> QED BY <1>1, <2>1 DEF BoundInv, HoistedIsInScope
<1>5. \A p, name : NoneToCome(p, name) => NoneToCome(p, name)'
  BY <1>1, Zenon DEF NoneToCome
<1>6. WovenOrNever'
  <2> SUFFICES ASSUME NEW p \in hoisted, NEW name \in Declared(p).clauses
               PROVE  <<p, name>> \in woven \/ NoneToCome(p, name)'
    BY <1>1, Zenon DEF WovenOrNever
  <2>1. <<p, name>> \in woven \/ NoneToCome(p, name) BY DEF BoundInv, WovenOrNever
  <2> QED BY <1>5, <2>1
<1> QED BY <1>3, <1>4, <1>6 DEF BoundInv

LEMMA BoundOffer ==
  ASSUME BoundInv, NEW m \in Group, NEW k \in DOMAIN Imports(m), Offer(m, k) \/ Refuse(m, k)
  PROVE  BoundInv'
<1>1. LinkType /\ LinkType' BY TypeOffer DEF BoundInv
<1>2. /\ UNCHANGED <<program, hoisted, woven, waiting, stage>>
      /\ Does("offer", m, k) \/ Does("refuse", m, k)
  BY DEF Offer, Refuse
<1>3. stage \in {"before", "seeding", "closing"} BY <1>1, <1>2, DoesStep, LoopOf
<1>4. \A s \in Slots : scope[s] # None => scope'[s] # None BY <1>1, ImportsCopy
<1>5. RoundIsWaiting' BY <1>2, <1>3 DEF RoundIsWaiting
<1>6. CASE stage = "before"
  BY <1>1, <1>2, <1>6 DEF BoundInv, StartsEmpty, HoistedIsInScope, WovenOrNever, RoundIsWaiting,
     AllWoven, Rounds
<1>7. CASE stage # "before"
  <2>1. stage \in Rounds /\ stage' \in Rounds BY <1>2, <1>3, <1>7 DEF Rounds
  <2> QED BY <1>1, <1>2, <1>4, <1>5, <2>1, NothingHoists
<1> QED BY <1>6, <1>7

LEMMA BoundHoist ==
  ASSUME BoundInv, BeginHoist
  PROVE  BoundInv'
<1>1. LinkType' BY TypeHoist DEF BoundInv
<1>2. hoisted' = {} /\ stage' \in {"closing", "seeding"}
  BY DEF BeginHoist, Begins, BoundInv, StartsEmpty
<1> QED BY <1>1, <1>2 DEF BoundInv, StartsEmpty, HoistedIsInScope, WovenOrNever, RoundIsWaiting,
        AllWoven

LEMMA BoundRounds ==
  ASSUME BoundInv, BeginFill \/ BeginResolving \/ EndRound
  PROVE  BoundInv'
<1>1. LinkType /\ LinkType' BY TypeRounds DEF BoundInv
<1>2. /\ UNCHANGED <<program, scope, hoisted, woven>>
      /\ stage \in {"seeding", "filling", "resolving"}
      /\ stage' \in {"filling", "resolving", "closing", "seeding"}
  BY DEF BeginFill, BeginResolving, EndRound, Begins
<1>3. ToSet(waiting') \subseteq ToSet(waiting)
  <2>1. CASE BeginFill \/ BeginResolving
    <3>1. waiting' = waiting BY <2>1 DEF BeginFill, BeginResolving
    <3> QED BY <3>1
  <2>2. CASE EndRound
    <3>1. waiting' = remaining /\ stage = "resolving" BY <2>2 DEF EndRound
    <3> QED BY <3>1 DEF BoundInv, RoundIsWaiting
  <2> QED BY <2>1, <2>2
<1>4. RoundIsWaiting'
  <2>1. CASE BeginResolving
    <3>1. waiting' = waiting /\ remaining' = <<>> /\ agenda' = Tasks("resolve", waiting)
      BY <2>1 DEF BeginResolving, Begins
    <3>2. ToSet(remaining') = {} BY <3>1 DEF ToSet
    <3>3. waiting \in Seq(Numbered) BY <1>1 DEF LinkType
    <3>4. ASSUME NEW i \in DOMAIN waiting
          PROVE  <<Tasks("resolve", waiting)[i][2], Tasks("resolve", waiting)[i][3]>>
                   \in ToSet(waiting)
      <4>1. Tasks("resolve", waiting)[i] = <<"resolve", waiting[i][1], waiting[i][2]>>
        BY DEF Tasks
      <4>2. waiting[i] \in Numbered BY <3>3
      <4>3. waiting[i] = <<waiting[i][1], waiting[i][2]>> BY <4>2 DEF Numbered
      <4>4. waiting[i] \in ToSet(waiting) BY DEF ToSet
      <4> QED BY <4>1, <4>3, <4>4
    <3>5. DOMAIN Tasks("resolve", waiting) = DOMAIN waiting BY DEF Tasks
    <3>6. \A task \in ToSet(Tasks("resolve", waiting)) : <<task[2], task[3]>> \in ToSet(waiting)
      BY <3>4, <3>5 DEF ToSet
    <3> QED BY <3>1, <3>2, <3>6 DEF RoundIsWaiting
  <2>2. CASE BeginFill \/ EndRound
    <3>1. stage' # "resolving" BY <2>2 DEF BeginFill, EndRound, Begins
    <3> QED BY <3>1 DEF RoundIsWaiting
  <2> QED BY <2>1, <2>2
<1>5. stage \in Rounds /\ stage' \in Rounds BY <1>2 DEF Rounds
<1> QED BY <1>1, <1>2, <1>3, <1>4, <1>5, NothingHoists

\* What was not woven then has no Protocol to be woven from.
LEMMA BoundLastFill ==
  ASSUME BoundInv, BeginLastFill
  PROVE  BoundInv'
<1>1. LinkType /\ LinkType' BY TypeRounds DEF BoundInv
<1>2. /\ UNCHANGED <<program, hoisted, woven>> /\ stage = "closing" /\ stage' = "finishing"
  BY DEF BeginLastFill, Begins
<1>3. \A p : Declared(p)' = Declared(p) /\ SlotOf(p)' = SlotOf(p) BY <1>2, TextStays
<1>4. AllWoven'
  <2> SUFFICES ASSUME NEW p \in hoisted, NEW name \in Declared(p).clauses,
                      NEW q \in hoisted, SlotOf(q) = <<p[1], "protocols", name>>
               PROVE  <<p, name>> \in woven
    BY <1>2, <1>3 DEF AllWoven
  <2>1. ~NoneToCome(p, name) BY <1>1 DEF NoneToCome, LinkType
  <2> QED BY <1>2, <2>1 DEF BoundInv, WovenOrNever, Rounds
<1> QED BY <1>1, <1>2, <1>4 DEF BoundInv, StartsEmpty, HoistedIsInScope, WovenOrNever,
        RoundIsWaiting, Rounds

LEMMA BoundRead ==
  ASSUME BoundInv, NEW m \in Group, NEW i \in DOMAIN Declares(m), Read(m, i)
  PROVE  BoundInv'
<1> DEFINE p == <<m, i>>
           lost == Reading(p) = "unanswered" /\ IsFinal
<1>1. /\ Does("read", m, i) /\ stage # "thrown" /\ UNCHANGED <<program, woven, waiting>>
      /\ hoisted' = IF lost THEN hoisted \ {p} ELSE hoisted
      /\ scope' = IF lost THEN [scope EXCEPT ![SlotOf(p)] = None] ELSE scope
      /\ stage' \in {"thrown", stage}
  BY DEF Read
<1>2. LinkType /\ LinkType' BY TypeRead DEF BoundInv
<1>3. stage \in {"filling", "finishing"} BY <1>1, <1>2, DoesStep, LoopOf
<1>4. lost => stage = "finishing" BY DEF IsFinal
<1> HIDE DEF lost
<1>5. CASE stage' = "thrown"
  BY <1>2, <1>5 DEF BoundInv, StartsEmpty, HoistedIsInScope, WovenOrNever, RoundIsWaiting,
     AllWoven, Rounds
<1>6. CASE stage = "filling" /\ stage' = stage
  <2>1. hoisted' = hoisted /\ scope' = scope BY <1>1, <1>4, <1>6
  <2>2. RoundIsWaiting' BY <1>6 DEF RoundIsWaiting
  <2>3. stage \in Rounds /\ stage' \in Rounds BY <1>6 DEF Rounds
  <2> QED BY <1>1, <1>2, <2>1, <2>2, <2>3, NothingHoists
<1>7. CASE stage = "finishing" /\ stage' = stage
  <2>1. \A x : Declared(x)' = Declared(x) /\ SlotOf(x)' = SlotOf(x) BY <1>1, TextStays
  <2>2. hoisted' \subseteq hoisted BY <1>1
  <2>3. AllWoven' BY <1>1, <1>7, <2>1, <2>2 DEF BoundInv, AllWoven
  <2> QED BY <1>2, <1>7, <2>3 DEF BoundInv, StartsEmpty, HoistedIsInScope, WovenOrNever,
          RoundIsWaiting, Rounds
<1> QED BY <1>1, <1>3, <1>5, <1>6, <1>7

LEMMA ProtocolSlot ==
  ASSUME NEW q, NEW m, NEW name, SlotOf(q) = <<m, "protocols", name>>
  PROVE  q[1] = m /\ Declared(q).kind = "protocol" /\ Declared(q).name = name
<1>1. q[1] = m /\ TableOf(Declared(q).kind) = "protocols" /\ Declared(q).name = name
  BY DEF SlotOf
<1>2. Declared(q).kind = "protocol" BY <1>1 DEF TableOf
<1> QED BY <1>1, <1>2

\* A Namespace that resolves has the Protocols of its clauses in scope, or no
\* hope of them.
LEMMA ResolvedIsReady ==
  ASSUME LinkType, HoistedIsInScope, stage = "resolving", NEW p \in Places, Resolves(p),
         NEW name \in Declared(p).clauses
  PROVE  <<p, name>> \in Weaves(p) \/ NoneToCome(p, name)
<1>1. CASE scope[<<p[1], "protocols", name>>] # None BY <1>1 DEF Weaves
<1>2. CASE scope[<<p[1], "protocols", name>>] = None
  <2>1. name \notin PendingProtocols(p[1]) BY <1>2 DEF Resolves
  <2> SUFFICES ASSUME NEW q \in Places, q \in hoisted \cup ToSet(waiting),
                      SlotOf(q) = <<p[1], "protocols", name>>
               PROVE  FALSE
    BY DEF NoneToCome
  <2>2. CASE q \in hoisted BY <1>2, <2>2 DEF HoistedIsInScope, Rounds
  <2>3. CASE q \in ToSet(waiting)
    <3>1. q[1] = p[1] /\ Declared(q).kind = "protocol" /\ Declared(q).name = name
      BY ProtocolSlot
    <3>2. name \in PendingProtocols(p[1]) BY <2>3, <3>1 DEF PendingProtocols
    <3> QED BY <2>1, <3>2
  <2> QED BY <2>2, <2>3
<1> QED BY <1>1, <1>2

LEMMA BoundResolve ==
  ASSUME BoundInv, NEW m \in Group, NEW i \in DOMAIN Declares(m), Resolve(m, i)
  PROVE  BoundInv'
<1> DEFINE p == <<m, i>>
           kept == Resolves(p) /\ scope[SlotOf(p)] = None
<1>1. /\ Does("resolve", m, i) /\ UNCHANGED <<program, waiting, stage>>
      /\ scope' = IF kept THEN [scope EXCEPT ![SlotOf(p)] = p] ELSE scope
      /\ hoisted' = IF kept THEN hoisted \cup {p} ELSE hoisted
      /\ woven' = IF kept THEN woven \cup Weaves(p) ELSE woven
      /\ remaining' = IF kept THEN remaining ELSE Append(remaining, p)
  BY DEF Resolve
<1>2. kept => Resolves(p) OBVIOUS
<1> HIDE DEF kept
<1>3. LinkType /\ LinkType' BY TypeResolve DEF BoundInv
<1>4. p \in Places BY <1>3, DeclaredPlace DEF LinkType
<1>5. SlotOf(p) \in Slots /\ p # None /\ p \in Numbered BY <1>3, <1>4, PlaceType DEF LinkType
<1>6. stage = "resolving" /\ stage' = "resolving" BY <1>1, <1>3, DoesStep, LoopOf
<1>7. /\ ToSet(agenda') \subseteq ToSet(agenda) /\ <<"resolve", m, i>> \in ToSet(agenda)
  BY <1>1, <1>3, DoesStep
<1>8. p \in ToSet(waiting)
  <2>1. <<<<"resolve", m, i>>[2], <<"resolve", m, i>>[3]>> \in ToSet(waiting)
    BY <1>6, <1>7 DEF BoundInv, RoundIsWaiting
  <2> QED BY <2>1
<1>9. RoundIsWaiting'
  <2>1. remaining \in Seq(Numbered) /\ ToSet(remaining) \subseteq ToSet(waiting)
    BY <1>3, <1>6 DEF BoundInv, RoundIsWaiting, LinkType
  <2>2. ToSet(remaining') \subseteq ToSet(waiting)
    <3>1. CASE remaining' = remaining BY <2>1, <3>1
    <3>2. CASE remaining' = Append(remaining, p)
      <4>1. ASSUME NEW j \in DOMAIN Append(remaining, p)
            PROVE  Append(remaining, p)[j] \in ToSet(waiting)
        <5>1. CASE j \in DOMAIN remaining
          <6>1. Append(remaining, p)[j] = remaining[j] BY <1>5, <2>1, <5>1
          <6> QED BY <2>1, <5>1, <6>1 DEF ToSet
        <5>2. CASE j \notin DOMAIN remaining
          <6>1. Append(remaining, p)[j] = p BY <1>5, <2>1, <5>2
          <6> QED BY <1>8, <6>1
        <5> QED BY <5>1, <5>2
      <4> QED BY <3>2, <4>1 DEF ToSet
    <3> QED BY <1>1, <3>1, <3>2
  <2>3. \A task \in ToSet(agenda') : <<task[2], task[3]>> \in ToSet(waiting)
    BY <1>6, <1>7 DEF BoundInv, RoundIsWaiting
  <2> QED BY <1>1, <2>2, <2>3 DEF RoundIsWaiting
<1>10. CASE ~kept
  <2>1. stage \in Rounds /\ stage' \in Rounds BY <1>6 DEF Rounds
  <2> QED BY <1>1, <1>3, <1>9, <1>10, <2>1, NothingHoists
<1>11. CASE kept
  <2>1. \A x : Declared(x)' = Declared(x) /\ SlotOf(x)' = SlotOf(x) BY <1>1, TextStays
  <2>2. Places' = Places BY <1>1, TextStays
  <2>3. hoisted' = hoisted \cup {p} /\ woven' = woven \cup Weaves(p)
        /\ scope' = [scope EXCEPT ![SlotOf(p)] = p]
    BY <1>1, <1>11
  <2>4. HoistedIsInScope'
    <3>1. ASSUME NEW x \in hoisted' PROVE scope'[SlotOf(x)] # None
      <4>1. SlotOf(x) \in Slots BY <1>3, <1>4, <2>3, PlaceType DEF LinkType
      <4>2. CASE SlotOf(x) = SlotOf(p) BY <1>3, <1>5, <2>3, <4>1, <4>2 DEF LinkType
      <4>3. CASE SlotOf(x) # SlotOf(p)
        <5>1. scope'[SlotOf(x)] = scope[SlotOf(x)] BY <1>3, <2>3, <4>1, <4>3 DEF LinkType
        <5>2. x \in hoisted BY <2>3, <4>3
        <5> QED BY <1>6, <5>1, <5>2 DEF BoundInv, HoistedIsInScope, Rounds
      <4> QED BY <4>2, <4>3
    <3> QED BY <2>1, <3>1 DEF HoistedIsInScope
  <2>5. \A x, name : NoneToCome(x, name) => NoneToCome(x, name)'
    <3>1. (hoisted \cup ToSet(waiting))' = hoisted \cup ToSet(waiting) BY <1>1, <1>8, <2>3
    <3> QED BY <2>1, <2>2, <3>1, Zenon DEF NoneToCome
  <2>6. WovenOrNever'
    <3> SUFFICES ASSUME NEW x \in hoisted', NEW name \in Declared(x).clauses
                 PROVE  <<x, name>> \in woven' \/ NoneToCome(x, name)'
      BY <2>1, Zenon DEF WovenOrNever
    <3>1. CASE x \in hoisted
      <4>1. <<x, name>> \in woven \/ NoneToCome(x, name)
        BY <1>6, <3>1 DEF BoundInv, WovenOrNever, Rounds
      <4> QED BY <2>3, <2>5, <4>1
    <3>2. CASE x = p
      <4>1. <<x, name>> \in Weaves(p) \/ NoneToCome(x, name)
        BY <1>2, <1>3, <1>4, <1>6, <1>11, <3>2, ResolvedIsReady DEF BoundInv
      <4> QED BY <2>3, <2>5, <4>1
    <3> QED BY <2>3, <3>1, <3>2
  <2>7. StartsEmpty' /\ AllWoven' BY <1>6 DEF StartsEmpty, AllWoven
  <2> QED BY <1>3, <1>9, <2>4, <2>6, <2>7 DEF BoundInv
<1> QED BY <1>10, <1>11

\* Recursive Types bring neither clauses nor Protocols.
LEMMA BoundEnrichment ==
  ASSUME BoundInv, BeginEnrichment
  PROVE  BoundInv'
<1>1. LinkType /\ LinkType' BY TypeEnrichment DEF BoundInv
<1>2. /\ program' = program /\ woven' = woven /\ hoisted' = hoisted \cup Circular
      /\ stage = "finishing" /\ stage' = "enriching"
  BY DEF BeginEnrichment, Begins
<1>3. \A p : Declared(p)' = Declared(p) /\ SlotOf(p)' = SlotOf(p) BY <1>2, TextStays
<1>4. ASSUME NEW p \in Circular
      PROVE  Declared(p).clauses = {} /\ Declared(p).kind # "protocol"
  <2>1. p \in Places /\ IsType(p) BY <1>1, CircularPlaces DEF LinkType
  <2>2. Declared(p).kind \notin {"namespace", "protocol"} BY <2>1 DEF IsType, TableOf
  <2>3. p[1] \in Modules /\ p[2] \in DOMAIN Declares(p[1]) BY <1>1, <2>1, PlaceType DEF LinkType
  <2>4. Declared(p).clauses # {} => Declared(p).kind = "namespace"
    BY <1>1, <2>3, TextType DEF Declared, LinkType
  <2> QED BY <2>2, <2>4
<1>5. AllWoven'
  <2> SUFFICES ASSUME NEW p \in hoisted \cup Circular, NEW name \in Declared(p).clauses,
                      NEW q \in hoisted \cup Circular, SlotOf(q) = <<p[1], "protocols", name>>
               PROVE  <<p, name>> \in woven
    BY <1>2, <1>3 DEF AllWoven
  <2>1. Declared(q).kind = "protocol" BY ProtocolSlot
  <2>2. p \in hoisted /\ q \in hoisted BY <1>4, <2>1
  <2> QED BY <1>2, <2>2 DEF BoundInv, AllWoven
<1> QED BY <1>1, <1>2, <1>5 DEF BoundInv, StartsEmpty, HoistedIsInScope, WovenOrNever,
        RoundIsWaiting, Rounds

LEMMA BoundEnrich ==
  ASSUME BoundInv, NEW m \in Group, NEW i \in DOMAIN Declares(m), Enrich(m, i)
  PROVE  BoundInv'
<1>1. LinkType /\ LinkType' BY TypeEnrich DEF BoundInv
<1>2. /\ Does("enrich", m, i) /\ UNCHANGED <<program, hoisted, stage>>
      /\ woven \subseteq woven'
  BY DEF Enrich
<1>3. stage = "enriching" BY <1>1, <1>2, DoesStep, LoopOf
<1>4. \A p : Declared(p)' = Declared(p) /\ SlotOf(p)' = SlotOf(p) BY <1>2, TextStays
<1>5. AllWoven' BY <1>2, <1>3, <1>4 DEF BoundInv, AllWoven
<1> QED BY <1>1, <1>2, <1>3, <1>5 DEF BoundInv, StartsEmpty, HoistedIsInScope, WovenOrNever,
        RoundIsWaiting, Rounds

LEMMA BoundQuiet ==
  ASSUME BoundInv, ReportExports \/ UNCHANGED vars
  PROVE  BoundInv'
<1>1. LinkType' BY TypeRounds, TypeStutter DEF BoundInv
<1>2. CASE ReportExports
  <2>1. stage' = "done" BY <1>2 DEF ReportExports, Begins
  <2> QED BY <1>1, <2>1 DEF BoundInv, StartsEmpty, HoistedIsInScope, WovenOrNever,
          RoundIsWaiting, AllWoven, Rounds
<1>3. CASE UNCHANGED vars
  <2>1. UNCHANGED <<program, scope, hoisted, woven, waiting, remaining, agenda, stage>>
    BY <1>3 DEF vars
  <2>2. \A p : Declared(p)' = Declared(p) /\ SlotOf(p)' = SlotOf(p) BY <2>1, TextStays
  <2>3. Places' = Places BY <2>1, TextStays
  <2>4. \A p, name : NoneToCome(p, name) => NoneToCome(p, name)'
    BY <2>1, <2>2, <2>3, Zenon DEF NoneToCome
  <2>5. StartsEmpty' /\ RoundIsWaiting' BY <2>1 DEF BoundInv, StartsEmpty, RoundIsWaiting
  <2>6. HoistedIsInScope' /\ AllWoven'
    BY <2>1, <2>2 DEF BoundInv, HoistedIsInScope, AllWoven
  <2>7. WovenOrNever'
    <3> SUFFICES ASSUME stage \in Rounds, NEW p \in hoisted, NEW name \in Declared(p).clauses
                 PROVE  <<p, name>> \in woven \/ NoneToCome(p, name)'
      BY <2>1, <2>2, Zenon DEF WovenOrNever
    <3> QED BY <2>4 DEF BoundInv, WovenOrNever
  <2> QED BY <1>1, <2>5, <2>6, <2>7 DEF BoundInv
<1> QED BY <1>2, <1>3

LEMMA BoundStep ==
  ASSUME BoundInv, [Next]_vars
  PROVE  BoundInv'
<1>1. CASE UNCHANGED vars \/ ReportExports BY <1>1, BoundQuiet
<1>2. CASE \E m \in Group : \E k \in DOMAIN Imports(m) : Offer(m, k) \/ Refuse(m, k)
  BY <1>2, BoundOffer
<1>3. CASE \E m \in Group : \E i \in DOMAIN Declares(m) : Read(m, i) BY <1>3, BoundRead
<1>4. CASE \E m \in Group : \E i \in DOMAIN Declares(m) : Resolve(m, i) BY <1>4, BoundResolve
<1>5. CASE \E m \in Group : \E i \in DOMAIN Declares(m) : Enrich(m, i) BY <1>5, BoundEnrich
<1>6. CASE BeginHoist BY <1>6, BoundHoist
<1>7. CASE BeginFill \/ BeginResolving \/ EndRound BY <1>7, BoundRounds
<1>8. CASE BeginLastFill BY <1>8, BoundLastFill
<1>9. CASE BeginEnrichment BY <1>9, BoundEnrichment
<1> QED BY <1>1, <1>2, <1>3, <1>4, <1>5, <1>6, <1>7, <1>8, <1>9 DEF Next

\* A Namespace carries the bounds of every clause its own Module answers for,
\* whatever the program and the order it is written in: it waits for a Protocol
\* that may still hoist, so that one it did not weave never does.
THEOREM NamespacesAreBound == Spec => []BoundsAreWoven
<1>1. Init => BoundInv BY BoundInit
<1>2. BoundInv /\ [Next]_vars => BoundInv' BY BoundStep
<1>3. BoundInv => BoundsAreWoven BY DEF BoundInv, AllWoven, BoundsAreWoven
<1> QED BY <1>1, <1>2, <1>3, PTL DEF Spec
=============================================================================
