--------------------------- MODULE MCCompileSession ---------------------------
(* Runs of compiles on small instances. *)
EXTENDS CompileSession

CONSTANTS a, b, c

\* A file names any of the others, in any order, or is not there.
Others(f) == SetToAllKPermutations(Files \ {f})
AnyTexts == [f \in Files |-> Others(f) \cup {Missing}]

\* Two entries that may share the third file, and all three.
PairAndAll == {<<a, b>>, <<a, b, c>>}

\* Files are saved under the runs of two entries; those of three are undisturbed.
EditsUnderTwo == edits' # edits => Len(plan) = 2
=============================================================================
