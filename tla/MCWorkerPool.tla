---------------------------- MODULE MCWorkerPool ----------------------------
(* The worker pool on small instances. *)
EXTENDS WorkerPool

CONSTANTS a, b, c

\* Files are alike, so the first run may as well ask for them in this order:
\* what symmetry would be for, were there no liveness to check.
Order == <<a, b, c>>

\* A later run is a rebuild after a save: it asks for one file or two.
OneOrTwo(batch) == Cardinality(batch) \in 1 .. 2

Usual ==
  run' # run =>
    IF run = 0
    THEN \A i, j \in 1 .. Len(Order) :
           i < j /\ rank'[Order[j]] > 0 =>
             rank'[Order[i]] > 0 /\ rank'[Order[i]] < rank'[Order[j]]
    ELSE OneOrTwo({f \in Files : rank'[f] > 0})
=============================================================================
