--------------------------- MODULE MCLanguageServer ---------------------------
(* Language servers on small workspaces. *)
EXTENDS LanguageServer

CONSTANTS app, mid, lib

\* app imports mid or lib; mid imports lib or nothing; lib may import app back.
ChainImports ==
  [f \in Files |-> [v \in Versions |->
     CASE f = app -> IF v = 1 THEN {mid} ELSE {lib}
       [] f = mid -> IF v = 1 THEN {lib} ELSE {}
       [] f = lib -> IF v = 1 THEN {} ELSE {app}]]

Everywhere == {Files}

\* Every file is there with its first text when the editor starts.
StartsWhole ==
  counts.edits + counts.saves + counts.requests + counts.moves = 0
    => \A f \in Files : disk[f] = 1

\* A request or a change of folders, not both; folders change where nothing is saved.
OneAside == counts.requests + counts.moves <= 1 /\ (counts.moves = 1 => counts.saves = 0)
Small == StartsWhole /\ OneAside
=============================================================================
