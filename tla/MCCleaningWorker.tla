-------------------------- MODULE MCCleaningWorker --------------------------
(* Small instances of the worker: which messages there are and what is in    *)
(* their records.                                                            *)
EXTENDS WorkerRefinement, TLC

CONSTANTS m1, m2, m3, p1, p2

\* a and b are one purchase filed under two ids, c files another purchase under
\* a's id, n has a negative amount and r is refused by the validation service.
MCEvents == {"a", "b", "c", "n", "r"}
MCIdOf == [a |-> 1, b |-> 2, c |-> 1, n |-> 2, r |-> 2]
MCFpOf == [a |-> "f", b |-> "f", c |-> "g", n |-> "h", r |-> "k"]

\* Redis: two batches of one file and the batch of another file.
MCProcessOf == m1 :> p1 @@ m2 :> p1 @@ m3 :> p2
MCRecords == m1 :> <<"a", "b">> @@ m2 :> <<"b", "r">> @@ m3 :> <<"c", "n">>

\* Pub/Sub: the batches of two files, either of which may be handed out twice.
MCProcessOf2 == m1 :> p1 @@ m2 :> p2
MCRecords2 == m1 :> <<"a", Malformed>> @@ m2 :> <<"b">>

Symmetry == Permutations(Deliveries)
=============================================================================
