----------------------------- MODULE MCIngestor -----------------------------
(* Small instances of the ingestor.                                          *)
EXTENDS Ingestor, TLC

CONSTANTS f1, f2, f3

\* f1 is five records, two full batches and a short one; f2 is one full batch and
\* a bad third record; f3 meets a misconfigured instance.
MCSizeOf == f1 :> 5 @@ f2 :> 4 @@ f3 :> 1
MCBadAt == f1 :> 0 @@ f2 :> 3 @@ f3 :> 0
=============================================================================
