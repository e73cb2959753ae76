---------------------------- MODULE ProcessAdmin ----------------------------
(***************************************************************************)
(* The validation-bff deleting processes and jobs while the worker runs:   *)
(* DELETE /processes/:id (soft and hard) and DELETE /jobs work on the      *)
(* tables and keys of CleaningWorker.                                      *)
(*                                                                         *)
(* The transaction of deleteProcess reads which jobs there are and deletes *)
(* them later: reading and committing are two steps here, with any step of *)
(* the worker between them.  The deletes themselves take effect together,  *)
(* at the commit.                                                          *)
(***************************************************************************)
EXTENDS CleaningWorker

CONSTANTS
    NoProcess,   \* the process of an expense.created message
    PurgeLimit,  \* REDIS_PURGE_MAX_KEYS
    MaxDeletions \* bound: DELETE requests in one behaviour

ASSUME AdminAssumption ==
    /\ PurgeLimit \in Nat
    /\ MaxDeletions \in Nat
    /\ None \notin Jobs  \* job_id null is no job

VARIABLES
    files,     \* processes with a row in file_processes
    deleting,  \* deleting[p]: how far deleteProcess has come for p
    hard,      \* hard[p]: its query parameter
    seenJobs,  \* seenJobs[p]: the job ids its transaction has read
    seenIds,   \* seenIds[p]: the expense ids of the batches it has read
    erased,    \* history: jobs whose rows have been deleted
    cut,       \* history: those of them a handler was still working on
    requests   \* DELETE requests so far

adminVars == <<files, deleting, hard, seenJobs, seenIds, erased, cut, requests>>

Request == requests < MaxDeletions /\ requests' = requests + 1

-----------------------------------------------------------------------------
JobProcess(j) == ProcessOf[msg[j[1]]]

\* WHERE meta ->> 'processId' = p
JobsOf(p) == {j \in Jobs : runs[j].status # "absent" /\ JobProcess(j) = p}

\* expense_ids of the batches registered for p: those published, at least.
BatchIds(p) ==
    UNION {{IdOf[Records[m][i]] : i \in {k \in DOMAIN Records[m] : Records[m][k] # Malformed}}
             : m \in {x \in Messages \ unsent : ProcessOf[x] = p}}

\* The jobs in js that have a handler at work.
InFlight(js) == {j \in js : pc[j[1]] \in Busy /\ rec[j[1]] = j[2]}

AdminInit ==
    /\ Init
    /\ files = Processes \ {NoProcess}
    /\ deleting = [p \in Processes |-> "no"]
    /\ hard = [p \in Processes |-> FALSE]
    /\ seenJobs = [p \in Processes |-> {}]
    /\ seenIds = [p \in Processes |-> {}]
    /\ erased = {}
    /\ cut = {}
    /\ requests = 0

\* deleteProcess: find the process, then inside the transaction its batches and jobs.
FindJobs(p, isHard) ==
    /\ Request
    /\ p \in files
    /\ deleting[p] = "no"
    /\ deleting' = [deleting EXCEPT ![p] = "found"]
    /\ hard' = [hard EXCEPT ![p] = isHard]
    /\ seenJobs' = [seenJobs EXCEPT ![p] = JobsOf(p)]
    /\ seenIds' = [seenIds EXCEPT ![p] = BatchIds(p)]
    /\ UNCHANGED <<vars, files, erased, cut>>

\* UPDATE expenses SET job_id = NULL WHERE job_id IN (js)
Detach(js) ==
    [x \in ExpenseIds |->
        IF expenses[x] # None /\ expenses[x].job \in js
        THEN [expenses[x] EXCEPT !.job = None] ELSE expenses[x]]

\* DELETE FROM expenses WHERE job_id IN (js) OR id IN (ids)
Remove(js, ids) ==
    [x \in ExpenseIds |->
        IF expenses[x] # None /\ (expenses[x].job \in js \/ x \in ids)
        THEN None ELSE expenses[x]]

\* (mutant) The stages are forgotten.
EraseRunsOnly(js) ==
    /\ runs' = [j \in Jobs |-> IF j \in js THEN AbsentRun ELSE runs[j]]
    /\ erased' = erased \union js
    /\ cut' = cut \union InFlight(js)
    /\ UNCHANGED stages

\* (mutant) The runs are forgotten.
EraseStagesOnly(js) ==
    /\ stages' = [j \in Jobs |-> IF j \in js THEN [s \in Stages |-> "absent"] ELSE stages[j]]
    /\ erased' = erased \union js
    /\ cut' = cut \union InFlight(js)
    /\ UNCHANGED runs

\* DELETE FROM job_run_stages, job_runs WHERE job_id IN (js)
EraseJobs(js) ==
    /\ stages' = [j \in Jobs |-> IF j \in js THEN [s \in Stages |-> "absent"] ELSE stages[j]]
    /\ runs' = [j \in Jobs |-> IF j \in js THEN AbsentRun ELSE runs[j]]
    /\ erased' = erased \union js
    /\ cut' = cut \union InFlight(js)

Commit(p) ==
    /\ deleting[p] = "found"
    /\ EraseJobs(seenJobs[p])
    /\ expenses' = IF hard[p] THEN Remove(seenJobs[p], seenIds[p]) ELSE Detach(seenJobs[p])
    /\ files' = files \ {p}
    /\ deleting' = [deleting EXCEPT ![p] = "committed"]
    /\ UNCHANGED <<broker, keys, pc, locals, faults, raced, hard, seenJobs, seenIds, requests>>

\* The transaction is rolled back.
Rollback(p) ==
    /\ deleting[p] = "found"
    /\ deleting' = [deleting EXCEPT ![p] = "no"]
    /\ seenJobs' = [seenJobs EXCEPT ![p] = {}]
    /\ seenIds' = [seenIds EXCEPT ![p] = {}]
    /\ UNCHANGED <<vars, files, hard, erased, cut, requests>>

\* purgeProcessDedupKeysFromRedis: page by page, given up as soon as more keys
\* have turned up than the limit allows, and best effort when Redis is down.
Purge(p) ==
    LET mine == {k \in keys : k[1] = p} IN
    /\ deleting[p] = "committed"
    /\ \/ /\ Cardinality(mine) <= PurgeLimit
          /\ keys' = keys \ mine
       \/ /\ Cardinality(mine) > PurgeLimit
          /\ \E gone \in SUBSET mine :
                Cardinality(gone) <= PurgeLimit /\ keys' = keys \ gone
       \/ UNCHANGED keys
    /\ deleting' = [deleting EXCEPT ![p] = "purged"]
    /\ UNCHANGED <<broker, tables, pc, locals, faults, raced, files, hard, seenJobs,
                   seenIds, erased, cut, requests>>

\* (mutant) Expenses keep pointing at a job that is gone.
DeleteWithoutDetach(j) ==
    /\ Request
    /\ runs[j].status # "absent"
    /\ EraseJobs({j})
    /\ UNCHANGED <<broker, keys, expenses, pc, locals, faults, raced,
                   files, deleting, hard, seenJobs, seenIds>>

\* DELETE /jobs, for a job that is listed.
DeleteJob(j) ==
    /\ Request
    /\ runs[j].status # "absent"
    /\ EraseJobs({j})
    /\ expenses' = Detach({j})
    /\ UNCHANGED <<broker, keys, pc, locals, faults, raced,
                   files, deleting, hard, seenJobs, seenIds>>

Admin ==
    \/ \E p \in Processes : \/ \E isHard \in BOOLEAN : FindJobs(p, isHard)
                            \/ Commit(p) \/ Rollback(p) \/ Purge(p)
    \/ \E j \in Jobs : DeleteJob(j)

AdminNext ==
    \/ Next /\ UNCHANGED adminVars
    \/ Admin

AdminSpec == AdminInit /\ [][AdminNext]_<<vars, adminVars>>

-----------------------------------------------------------------------------
AdminTypeOK ==
    /\ HandlerTypes
    /\ files \subseteq Processes \ {NoProcess}
    /\ deleting \in [Processes -> {"no", "found", "committed", "purged"}]
    /\ hard \in [Processes -> BOOLEAN]
    /\ seenJobs \in [Processes -> SUBSET Jobs]
    /\ seenIds \in [Processes -> SUBSET ExpenseIds]
    /\ erased \subseteq Jobs
    /\ cut \subseteq erased
    /\ requests \in 0 .. MaxDeletions
    /\ expenses \in [ExpenseIds -> {None} \union
          [job : Jobs \union {None}, fp : Fingerprints, status : Verdicts]]

\* Deleting a job no handler is working on is complete and for good: no run, no
\* stage and no expense shows it again, neither through a late mergeMeta, which
\* saves the whole row it has read, nor through what was read before the commit.
ErasedAtRestStaysErased ==
    \A j \in erased \ cut :
        /\ runs[j] = AbsentRun
        /\ \A s \in Stages : stages[j][s] = "absent"
        /\ \A x \in ExpenseIds : expenses[x] # None => expenses[x].job # j

\* A job the BFF shows as successful is whole, whoever deletes what meanwhile: it
\* has all its stages unless it was cut off at work and saved itself back.
ShownSuccessIsWhole ==
    \A j \in Jobs \ cut : runs[j].status = "success" =>
        \A s \in Stages : stages[j][s] = "success"

\* getProcess takes a job's verdict from its expense or else from its meta: a
\* successful job has it there also when its row was saved back after a deletion,
\* and a skipped one has its reason.
ShownOutcomeIsExplained ==
    \A j \in Jobs :
        /\ runs[j].status = "success" => runs[j].validation # None
        /\ runs[j].status = "skipped" => runs[j].causes # {}

\* An expense whose job is gone was cut off: what a deletion at rest leaves of
\* the ledger is detached (job_id null), never dangling.
NoDanglingJob ==
    \A x \in ExpenseIds :
        (expenses[x] # None /\ expenses[x].job # None
            /\ runs[expenses[x].job].status = "absent")
        => expenses[x].job \in cut

\* "Also purge Redis dedup keys so re-running the same CSV/process won't be skipped"
\* (uploads.controller.ts): once a process has been deleted and its keys purged, a
\* record is skipped over the ledger only because of an expense some job stands for.
RerunIsNotSkipped ==
    [][\A d \in Deliveries :
         (/\ pc[d] = "query" /\ pc'[d] = "skipStage"
          /\ \E p \in Processes : deleting[p] = "purged" /\ cut = {})
         => \E x \in ExpenseIds : /\ expenses[x] # None
                                  /\ expenses[x].fp = Fp(d)
                                  /\ expenses[x].job # None]_<<vars, adminVars>>
=============================================================================
