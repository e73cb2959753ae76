------------------------------ MODULE JobLedger ------------------------------
(***************************************************************************)
(* What the worker promises, without saying how: a job is opened for one   *)
(* record, is cleared when the ledger shows no row of its fingerprint,     *)
(* writes at most the row of its own expense while it is cleared, and ends  *)
(* once.  No dedup keys, stages, messages, awaits or meta.                 *)
(***************************************************************************)
EXTENDS FiniteSets

CONSTANTS Jobs, ExpenseIds, Fingerprints, Verdicts, None

VARIABLES
    phase,    \* of a job
    about,    \* the expense id and the fingerprint a job is about
    ledger    \* expenses, by id: the job that wrote the row and its verdict

ledgerVars == <<phase, about, ledger>>

\* Opened, past the duplicate check, ended in one of three ways, or abandoned.
Phases == {"none", "open", "cleared", "success", "skipped", "failed", "lost"}
Live == {"open", "cleared"}
Subjects == [id : ExpenseIds, fp : Fingerprints]
Rows == [job : Jobs, fp : Fingerprints, status : Verdicts]

Stored(fp) == \E x \in ExpenseIds : ledger[x] # None /\ ledger[x].fp = fp

LedgerInit ==
    /\ phase = [j \in Jobs |-> "none"]
    /\ about = [j \in Jobs |-> None]
    /\ ledger = [x \in ExpenseIds |-> None]

Enter(j, from, to) == phase[j] \in from /\ phase' = [phase EXCEPT ![j] = to]

\* The worker may fail before it learns that the job is there.
Open(j) ==
    /\ Enter(j, {"none"}, "open") \/ Enter(j, {"none"}, "lost")
    /\ \E s \in Subjects : about' = [about EXCEPT ![j] = s]
    /\ UNCHANGED ledger

Clear(j) ==
    /\ Enter(j, {"open"}, "cleared")
    /\ ~Stored(about[j].fp)
    /\ UNCHANGED <<about, ledger>>

\* A row of another purchase under the same id is overwritten.
Write(j) ==
    /\ phase[j] = "cleared"
    /\ \E v \in Verdicts :
          ledger' = [ledger EXCEPT ![about[j].id] =
                        [job |-> j, fp |-> about[j].fp, status |-> v]]
    /\ UNCHANGED <<phase, about>>

Succeed(j) ==
    /\ Enter(j, {"cleared"}, "success")
    /\ ledger[about[j].id] # None
    /\ UNCHANGED <<about, ledger>>

\* What is skipped owns no row.
Skip(j) ==
    /\ Enter(j, Live, "skipped")
    /\ \A x \in ExpenseIds : ledger[x] # None => ledger[x].job # j
    /\ UNCHANGED <<about, ledger>>

\* Also a job whose end was written and not confirmed.
Fail(j) ==
    /\ Enter(j, {"cleared", "success", "skipped"}, "failed")
    /\ UNCHANGED <<about, ledger>>

\* Nobody works on these any more and nobody will.
Abandon(js) ==
    /\ js # {}
    /\ \A j \in js : phase[j] \in Live
    /\ phase' = [j \in Jobs |-> IF j \in js THEN "lost" ELSE phase[j]]
    /\ UNCHANGED <<about, ledger>>

LedgerNext ==
    \/ \E j \in Jobs : Open(j) \/ Clear(j) \/ Write(j) \/ Succeed(j) \/ Skip(j) \/ Fail(j)
    \/ \E js \in SUBSET Jobs : Abandon(js)

LedgerSpec == LedgerInit /\ [][LedgerNext]_ledgerVars

-----------------------------------------------------------------------------
LedgerTypeOK ==
    /\ phase \in [Jobs -> Phases]
    /\ about \in [Jobs -> Subjects \union {None}]
    /\ ledger \in [ExpenseIds -> Rows \union {None}]

\* Whatever is in the ledger was written by a job that was cleared and has not
\* been skipped, for the purchase that job was about; whatever succeeded is there.
LedgerTrue ==
    /\ \A x \in ExpenseIds : ledger[x] # None =>
          LET j == ledger[x].job IN
          /\ phase[j] \in {"cleared", "success", "failed", "lost"}
          /\ about[j] = [id |-> x, fp |-> ledger[x].fp]
    /\ \A j \in Jobs : phase[j] = "success" => ledger[about[j].id] # None
=============================================================================
