--------------------------- MODULE MCWatchSession ---------------------------
(* Watch sessions on a small instance. *)
EXTENDS WatchSession, FiniteSetsExt, Functions

CONSTANTS app, tool, lib

\* One directory each for the entries and for the library.
ApartDir == [f \in Files |-> IF f = lib THEN "lib" ELSE "src"]

\* app has imported lib from the start; tool comes to import it.
SharedImports ==
  [f \in Files |-> [v \in Versions |->
     IF f = app \/ (f = tool /\ v > 1) THEN {lib} ELSE {}]]

\* What has been done to a session from outside, and the checks underway.
Spent == deletes + keys + FoldFunction(+, 0, latest) - Cardinality(Files)
Underway == Cardinality({c \in DOMAIN checks : checks[c] # Idle})
\* Two things happen under two checks at once, a third while none is underway.
LongOrBusy == 2 * Spent + Underway <= 6
=============================================================================
