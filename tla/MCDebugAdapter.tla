----------------------------- MODULE MCDebugAdapter -----------------------------
(* Debug sessions with a few handlers at once. *)
EXTENDS DebugAdapter

CONSTANTS l1, l2

\* One breakpoint, or two that come to lie on another line.
OneOrTwice == {<<l1>>, <<l2, l2>>}

\* A program dies of itself before the first breakpoint is planted.
Mortal == (program' = "exited" /\ program \notin {"exited", "ended"} /\ ~killed) => planted = {}

Usual == Patient /\ Mortal
=============================================================================
