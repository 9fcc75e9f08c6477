----------------------------- MODULE MCListRuns -----------------------------
(* List representations on small instances. *)
EXTENDS ListRuns

\* A List of two items and the empty one; the item added sorts between them.
PairAndEmpty == {<<3, 1>>, <<>>}
Two == {2}
AllPositions == -2 .. 3
=============================================================================
