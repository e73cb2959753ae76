--------------------------- MODULE MCProcessAdmin ---------------------------
(* Small instances of the BFF's deletions beside the worker.                 *)
EXTENDS ProcessAdmin, TLC

CONSTANTS m1, m2, p1, p2

MCEvents == {"a", "n"}
MCIdOf == [a |-> 1, n |-> 2]
MCFpOf == [a |-> "f", n |-> "h"]
MCProcessOf == m1 :> p1 @@ m2 :> p2

\* A file with a purchase and a negative amount, and the purchase uploaded again.
MCRecords == m1 :> <<"a", "n">> @@ m2 :> <<"a">>
=============================================================================
