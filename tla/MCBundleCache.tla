---------------------------- MODULE MCBundleCache ----------------------------
(* The bundle store on small instances. *)
EXTENDS BundleCache, TLC

CONSTANTS built, other

\* Processes differ in nothing but their names.
Alike == Permutations(Process)

\* A full store.
Full == <<built, other>>
=============================================================================
