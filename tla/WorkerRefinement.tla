-------------------------- MODULE WorkerRefinement ---------------------------
(***************************************************************************)
(* The worker implements JobLedger.  What a job promises can be read off    *)
(* its run and the control point of its handler; the dedup keys, the        *)
(* stages, mergeMeta and the broker are not part of the promise.            *)
(***************************************************************************)
EXTENDS CleaningWorker

\* The control points of a handler whose record has passed the duplicate check.
Past(d) ==
    \/ pc[d] \in Window \union {"persisted", "finish", "catch"}
    \/ pc[d] \in Skipping /\ cause[d] = "negative_amount"

PhaseOf(j) ==
    IF runs[j].status = "absent" THEN "none"
    ELSE IF runs[j].status # "running" THEN runs[j].status
    ELSE IF pc[j[1]] \in Ended THEN "lost"
    ELSE IF Past(j[1]) THEN "cleared" ELSE "open"

AboutOf(j) ==
    IF runs[j].status = "absent" THEN None
    ELSE LET e == Records[msg[j[1]]][j[2]] IN [id |-> IdOf[e], fp |-> FpOf[e]]

Abstract == INSTANCE JobLedger WITH
    phase <- [j \in Jobs |-> PhaseOf(j)],
    about <- [j \in Jobs |-> AboutOf(j)],
    ledger <- expenses

\* The worker keeps the promise of JobLedger: whatever the interleaving of its
\* handlers, the failures, the redeliveries and the expiring keys, a job is cleared
\* against the whole ledger, writes nothing but the row it is about and only while
\* it is cleared and open, succeeds only with a row there, and ends for good.
Implements == Abstract!LedgerSpec
=============================================================================
