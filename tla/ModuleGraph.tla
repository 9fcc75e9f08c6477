----------------------------- MODULE ModuleGraph -----------------------------
(***************************************************************************)
(* The module graph an entry names (packages/compiler/src/modules/graph.ts) *)
(* as functions of what the host answers for each file.  The text of a     *)
(* file is the sequence of files its specifiers resolve to, in the order   *)
(* its entries first name them; Missing is a file nothing can be read of.  *)
(*                                                                         *)
(* Loops and descents are recursive functions, which can be reasoned       *)
(* about: over the places of a sequence, and over the depth of a walk,     *)
(* which no more than every file can be.                                   *)
(***************************************************************************)
EXTENDS Integers, FiniteSets, SequencesExt

CONSTANTS Files, Missing

ASSUME FilesAssumption == IsFiniteSet(Files)

\* A loop over a sequence: step[x] is what the turn of x makes of a state.
Folded(step, base, seq) ==
  LET after[i \in 0 .. Len(seq)] ==
        IF i = 0 THEN base ELSE step[seq[i]][after[i - 1]]
  IN  after[Len(seq)]

\* The elements of a sequence that are in S, in their order.
Only(seq, S) ==
  Folded([x \in ToSet(seq) |-> [kept \in Seq(S) |->
            IF x \in S THEN Append(kept, x) ELSE kept]], <<>>, seq)

\* The files a Module names and that could be read, itself left out: importing
\* oneself is rejected. `texts` is what the host answers.
Dependencies(texts, f) ==
  IF texts[f] = Missing THEN {}
  ELSE {d \in ToSet(texts[f]) \ {f} : texts[d] # Missing}

\* Whether a Module has an entry to underline.
HasErrors(texts, f) ==
  \E d \in ToSet(texts[f]) : d = f \/ texts[d] = Missing

-----------------------------------------------------------------------------
\* What is found from some files over the edges of those that are in `within`:
\* a round finds a file or is the last.
Found(texts, within, from) ==
  LET rounds == 1 .. Cardinality(Files)
      round == [before \in SUBSET Files |->
                  before \cup UNION {Dependencies(texts, f) : f \in before \cap within}]
  IN  Folded([n \in rounds |-> round], from, [n \in rounds |-> n])

\* The work list: every Module reached, resolved once.
ResolveAll(texts, entry) == Found(texts, Files, {entry})

\* What loading an entry asks the host for.
Asked(texts, entry) ==
  {entry} \cup
  (IF texts[entry] = Missing THEN {}
   ELSE UNION {ToSet(texts[f]) : f \in ResolveAll(texts, entry)})

-----------------------------------------------------------------------------
\* Tarjan's algorithm. An index of 0 is a Module not visited yet.
Walks == [index : [Files -> Nat], low : [Files -> Nat], stack : Seq(Files),
          groups : Seq(Seq(Files)), next : Nat]
Unvisited == [f \in Files |-> 0]
Unwalked == [index |-> Unvisited, low |-> Unvisited, stack |-> <<>>,
             groups |-> <<>>, next |-> 1]

Enter(s, f) == [index |-> [s.index EXCEPT ![f] = s.next], low |-> [s.low EXCEPT ![f] = s.next],
                stack |-> Append(s.stack, f), groups |-> s.groups, next |-> s.next + 1]

Lower(s, f, to) == [s EXCEPT !.low[f] = IF to < @ THEN to ELSE @]

\* Mutant: an edge to a group already closed lowers this one.
LowerAlways(s, f, d) == Lower(s, f, s.index[d])
\* An edge to a Module seen before says something only while that is stacked.
LowerToStacked(s, f, d) ==
  IF d \in ToSet(s.stack) THEN Lower(s, f, s.index[d]) ELSE s

\* The group f was reached first of, in the order it was walked in.
Close(s, f) ==
  LET at == CHOOSE i \in DOMAIN s.stack : s.stack[i] = f
  IN  [s EXCEPT !.groups = Append(@, SubSeq(s.stack, at, Len(s.stack))),
                !.stack = SubSeq(@, 1, at - 1)]
CloseFirst(s, f) == IF s.low[f] = s.index[f] THEN Close(s, f) ELSE s

\* An edge of f: what is not visited yet is visited, by `visit`.
FollowOver(texts, f, visit) ==
  [d \in Files |-> [s \in Walks |->
     IF d \notin Dependencies(texts, f) THEN s
     ELSE IF s.index[d] # 0 THEN LowerToStacked(s, f, d)
     ELSE LET u == visit[d][s] IN Lower(u, f, u.low[d])]]

\* visit, where it goes no deeper than n.
Visit(texts) ==
  LET visit[n \in 0 .. Cardinality(Files)] ==
        [f \in Files |-> [s \in Walks |->
           IF n = 0 THEN s
           ELSE CloseFirst(Folded(FollowOver(texts, f, visit[n - 1]),
                                  Enter(s, f), texts[f]), f)]]
  IN  visit[Cardinality(Files)]

\* The Strongly Connected Components of what the roots reach, dependency-first.
VisitRoot(texts) ==
  [f \in Files |-> [s \in Walks |->
     IF s.index[f] # 0 THEN s ELSE Visit(texts)[f][s]]]
GroupModules(texts, roots) ==
  Folded(VisitRoot(texts), Unwalked, roots).groups

\* The groups of a graph: none when the entry could not be read.
LoadModuleGraph(texts, entry) ==
  IF texts[entry] = Missing THEN <<>> ELSE GroupModules(texts, <<entry>>)

-----------------------------------------------------------------------------
(* What the above is for, without an algorithm. *)

Closed(texts, S) == \A f \in S : Dependencies(texts, f) \subseteq S

\* Everything f depends on, and f.
Reachable(texts, f) ==
  {d \in Files : \A S \in SUBSET Files : f \in S /\ Closed(texts, S) => d \in S}

Cyclic(texts, f, d) == d \in Reachable(texts, f) /\ f \in Reachable(texts, d)
CycleOf(texts, f) == {d \in Files : Cyclic(texts, f, d)}
=============================================================================
