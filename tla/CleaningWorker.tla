--------------------------- MODULE CleaningWorker ---------------------------
(***************************************************************************)
(* The worker-service: batch handlers running processExpense over shared   *)
(* tables (job_runs, job_run_stages, expenses) and the Redis dedup keys.   *)
(*                                                                         *)
(* A delivery is one invocation of a message handler.  Node runs handlers  *)
(* on one thread, so two deliveries interleave exactly at the awaits: one  *)
(* action here runs from one await to the next.  An await that touches no  *)
(* state of this module (the currency and validation calls) is part of the *)
(* action that stores its answer.                                          *)
(***************************************************************************)
EXTENDS Integers, Sequences, FiniteSets

CONSTANTS
    Messages,      \* batch messages (expense.batch) and one-record messages (expense.created)
    Events,        \* parsed expense events
    ExpenseIds,    \* values of expenses.id
    Fingerprints,  \* values of the SHA-256 over fecha, monto_original, moneda_original
    Processes,     \* process ids, NoProcess among them for expense.created
    Verdicts,      \* what the validation service may answer
    Deliveries,    \* handler invocations
    None, Malformed,
    Records,       \* Records[m]: the records of message m, in order
    ProcessOf,     \* ProcessOf[m]: the processId in the payload of m
    IdOf, FpOf,    \* the id and the fingerprint of an event
    Negative,      \* fingerprints whose monto_original is below zero
    Refused,       \* events the validation service answers with HTTP 400
    MaxRecords,    \* bound: records in one message
    AtLeastOnce,   \* TRUE: Pub/Sub keeps a message until it is acked; FALSE: Redis pub/sub
    MaxFaults      \* bound: failing calls and crashes in one behaviour

ASSUME ConstantsAssumption ==
    /\ Records \in [Messages -> Seq(Events \union {Malformed})]
    /\ ProcessOf \in [Messages -> Processes]
    /\ IdOf \in [Events -> ExpenseIds]
    /\ FpOf \in [Events -> Fingerprints]
    /\ Negative \subseteq Fingerprints
    /\ Refused \subseteq Events
    /\ Malformed \notin Events
    /\ None \notin Messages
    /\ None \notin Verdicts
    /\ MaxRecords \in Nat
    /\ MaxFaults \in Nat
    /\ AtLeastOnce \in BOOLEAN
    /\ \A m \in Messages : Len(Records[m]) <= MaxRecords

VARIABLES
    unsent,    \* messages nobody has published yet
    inbox,     \* messages the broker may hand to a handler
    keys,      \* Redis dedup keys, <<processId, fingerprint>>
    runs,      \* job_runs, by job id
    stages,    \* job_run_stages, by job id and stage name
    expenses,  \* expenses, by id
    pc, msg, rec,      \* a delivery's control point, message and record number
    cause,     \* why a delivery's current record is being skipped
    row,       \* the job_runs row mergeMeta has read and not yet saved
    verdict,   \* the validation answer held by a delivery
    faults,    \* failing calls and crashes so far
    raced      \* history: <<j, k>> when j passed the duplicate check while k was
               \* between its own check and its write

broker == <<unsent, inbox>>
tables == <<runs, stages, expenses>>
locals == <<msg, rec, cause, row, verdict>>
vars == <<unsent, inbox, keys, runs, stages, expenses,
          pc, msg, rec, cause, row, verdict, faults, raced>>

-----------------------------------------------------------------------------
(* Types *)

\* A job id is a fresh randomUUID per record: the delivery and the record number.
Jobs == Deliveries \X (1 .. MaxRecords)
Keys == Processes \X Fingerprints
Stages == {"dedup", "normalize", "currency", "validation", "persist"}
StageStatus == {"absent", "running", "success", "skipped"}
RunStatus == {"absent", "running", "success", "skipped", "failed"}
Duplicate == {"duplicate_fingerprint", "duplicate_fingerprint_db"}
Causes == {"duplicate_fingerprint", "duplicate_fingerprint_db", "negative_amount"}

\* meta holds the key dedup (with its reason), negative_amount and validation.
RunRows == [status : RunStatus, causes : SUBSET Causes,
            validation : Verdicts \union {None}]
AbsentRun == [status |-> "absent", causes |-> {}, validation |-> None]

ExpenseRows == [job : Jobs, fp : Fingerprints, status : Verdicts]

\* None stands for null: no row and no reason is null.
ASSUME NoneAssumption == None \notin ExpenseRows /\ None \notin Causes

\* Control points, in the order processExpense passes them.
BeforeTry == {"record", "dedup", "exists", "query", "remember", "deduped", "skipStage"}
Skipping == {"skipRead", "skipSave", "skipEnd"}
InTry == {"normalize", "normalized", "currency", "convert", "validation", "validate",
          "metaRead", "metaSave", "persist", "upsert", "persisted", "finish"}
Ended == {"done", "failed", "dead"}
Busy == BeforeTry \union Skipping \union InTry \union {"catch"}
Controls == Busy \union Ended \union {"idle"}

\* Between a job's passed duplicate check and its write to expenses.
Window == {"remember", "deduped", "normalize", "normalized", "currency", "convert",
           "validation", "validate", "metaRead", "metaSave", "persist", "upsert"}

-----------------------------------------------------------------------------
(* The current record of a delivery *)

Job(d) == <<d, rec[d]>>
Record(d) == Records[msg[d]][rec[d]]
Fp(d) == FpOf[Record(d)]
\* (mutant) The parts of the key in the wrong order.
DedupKeySwapped(d) == <<FpOf[Records[msg[d]][rec[d]]], ProcessOf[msg[d]]>>
DedupKey(d) == <<ProcessOf[msg[d]], Fp(d)>>

\* Where an exception goes: before the try it leaves the handler, inside it the
\* catch block marks the run failed first.  Skipping a negative amount is inside.
OnError(d) ==
    IF \/ pc[d] \in InTry
       \/ pc[d] \in Skipping /\ cause[d] = "negative_amount"
    THEN "catch" ELSE "failed"

Throw(d) == pc' = [pc EXCEPT ![d] = OnError(d)]

\* A call goes well, or it takes effect and its answer is lost.
GoTo(d, next) ==
    \/ pc' = [pc EXCEPT ![d] = next] /\ UNCHANGED faults
    \/ faults < MaxFaults /\ faults' = faults + 1 /\ Throw(d)

-----------------------------------------------------------------------------
(* The repositories.  A row may have been deleted by somebody else, so the  *)
(* updates by primary key touch no row that is absent, and inserts always   *)
(* do.                                                                      *)

createRun(j) == [runs EXCEPT ![j] =
                   [status |-> "running", causes |-> {}, validation |-> None]]

finishRun(j, status) ==
    IF runs[j].status = "absent" THEN runs ELSE [runs EXCEPT ![j].status = status]

startStage(j, s) == [stages EXCEPT ![j][s] = "running"]

finishStage(j, s, status) ==
    IF stages[j][s] = "absent" THEN stages ELSE [stages EXCEPT ![j][s] = status]

\* (mutant) The ledger is not consulted.
ExistsNever(fp) == FALSE
existsByFingerprint(fp) ==
    \E x \in ExpenseIds : expenses[x] # None /\ expenses[x].fp = fp

\* repo.save by primary key: inserts the row or overwrites the whole of it.
upsertFromEvent(x, j, fp, status) ==
    [expenses EXCEPT ![x] = [job |-> j, fp |-> fp, status |-> status]]

-----------------------------------------------------------------------------
Init ==
    /\ unsent = Messages
    /\ inbox = {}
    /\ keys = {}
    /\ runs = [j \in Jobs |-> AbsentRun]
    /\ stages = [j \in Jobs |-> [s \in Stages |-> "absent"]]
    /\ expenses = [x \in ExpenseIds |-> None]
    /\ pc = [d \in Deliveries |-> "idle"]
    /\ msg = [d \in Deliveries |-> None]
    /\ rec = [d \in Deliveries |-> 0]
    /\ cause = [d \in Deliveries |-> None]
    /\ row = [d \in Deliveries |-> AbsentRun]
    /\ verdict = [d \in Deliveries |-> None]
    /\ faults = 0
    /\ raced = {}

(* The broker *)

Publish(m) ==
    /\ m \in unsent
    /\ unsent' = unsent \ {m}
    /\ inbox' = inbox \union {m}
    /\ UNCHANGED <<keys, tables, pc, locals, faults, raced>>

\* Redis pub/sub hands a message over once; Pub/Sub may hand out again whatever
\* is not acked, also while another handler still works on it.
Receive(d, m) ==
    /\ pc[d] = "idle"
    /\ m \in inbox
    /\ inbox' = IF AtLeastOnce THEN inbox ELSE inbox \ {m}
    /\ pc' = [pc EXCEPT ![d] = "record"]
    /\ msg' = [msg EXCEPT ![d] = m]
    /\ rec' = [rec EXCEPT ![d] = 1]
    /\ UNCHANGED <<unsent, keys, tables, cause, row, verdict, faults, raced>>

\* Redis pub/sub drops what is published while no worker is subscribed.
Lose(m) ==
    /\ ~AtLeastOnce
    /\ m \in inbox
    /\ inbox' = inbox \ {m}
    /\ UNCHANGED <<unsent, keys, tables, pc, locals, faults, raced>>

(* onExpenseBatch: the loop over the records *)

\* The handler returns and the Pub/Sub server acks; Redis has nothing to ack.
EndBatch(d) ==
    /\ pc[d] = "record"
    /\ rec[d] > Len(Records[msg[d]])
    /\ pc' = [pc EXCEPT ![d] = "done"]
    /\ inbox' = inbox \ (IF AtLeastOnce THEN {msg[d]} ELSE {})
    /\ UNCHANGED <<unsent, keys, tables, locals, faults, raced>>

\* toExpenseCreatedEvent throws before a job exists; the handler rethrows.
RejectRecord(d) ==
    /\ pc[d] = "record"
    /\ rec[d] <= Len(Records[msg[d]])
    /\ Record(d) = Malformed
    /\ pc' = [pc EXCEPT ![d] = "failed"]
    /\ UNCHANGED <<broker, keys, tables, locals, faults, raced>>

CreateRun(d) ==
    /\ pc[d] = "record"
    /\ rec[d] <= Len(Records[msg[d]])
    /\ Record(d) # Malformed
    /\ runs' = createRun(Job(d))
    /\ GoTo(d, "dedup")
    /\ UNCHANGED <<broker, keys, stages, expenses, locals, raced>>

(* processExpense: stage rows *)

StartStage(d, here, s, next) ==
    /\ pc[d] = here
    /\ stages' = startStage(Job(d), s)
    /\ GoTo(d, next)
    /\ UNCHANGED <<broker, keys, runs, expenses, locals, raced>>

FinishStage(d, here, s, status, next) ==
    /\ pc[d] = here
    /\ stages' = finishStage(Job(d), s, status)
    /\ GoTo(d, next)
    /\ UNCHANGED <<broker, keys, runs, expenses, msg, rec, row, raced>>

\* (mutant) The key is set before it is asked for.
DedupClaimsFirst(d) ==
    /\ pc[d] = "dedup"
    /\ stages' = startStage(Job(d), "dedup")
    /\ keys' = keys \union {DedupKey(d)}
    /\ pc' = [pc EXCEPT ![d] = "exists"]
    /\ UNCHANGED <<broker, runs, expenses, locals, faults, raced>>
StartDedup(d)      == StartStage(d, "dedup", "dedup", "exists")
StartNormalize(d)  == StartStage(d, "normalize", "normalize", "normalized")
StartCurrency(d)   == StartStage(d, "currency", "currency", "convert")
StartValidation(d) == StartStage(d, "validation", "validation", "validate")
\* (mutant) The expense is not saved.
PersistWithoutUpsert(d) == StartStage(d, "persist", "persist", "persisted")
StartPersist(d)    == StartStage(d, "persist", "persist", "upsert")

FinishDedup(d) ==
    FinishStage(d, "deduped", "dedup", "success", "normalize")
        /\ UNCHANGED <<cause, verdict>>
SkipDedup(d) ==
    FinishStage(d, "skipStage", "dedup", "skipped", "skipRead")
        /\ UNCHANGED <<cause, verdict>>
FinishPersist(d) ==
    FinishStage(d, "persisted", "persist", "success", "finish")
        /\ UNCHANGED <<cause, verdict>>

\* (mutant) A negative amount is skipped without mergeMeta.
NormalizeWithoutMeta(d) ==
    /\ pc[d] = "normalized"
    /\ \/ /\ Fp(d) \in Negative
          /\ cause' = [cause EXCEPT ![d] = "negative_amount"]
          /\ FinishStage(d, "normalized", "normalize", "skipped", "skipEnd")
       \/ /\ Fp(d) \notin Negative
          /\ UNCHANGED cause
          /\ FinishStage(d, "normalized", "normalize", "success", "currency")
    /\ UNCHANGED verdict

FinishNormalize(d) ==
    /\ pc[d] = "normalized"
    /\ \/ /\ Fp(d) \in Negative
          /\ cause' = [cause EXCEPT ![d] = "negative_amount"]
          /\ FinishStage(d, "normalized", "normalize", "skipped", "skipRead")
       \/ /\ Fp(d) \notin Negative
          /\ UNCHANGED cause
          /\ FinishStage(d, "normalized", "normalize", "success", "currency")
    /\ UNCHANGED verdict

\* currencyClient.convert, then the stage is closed with the base amount.
Convert(d) ==
    FinishStage(d, "convert", "currency", "success", "validation")
        /\ UNCHANGED <<cause, verdict>>

\* (mutant) The answer is not merged into meta.
ValidateWithoutMeta(d) ==
    /\ pc[d] = "validate"
    /\ Record(d) \notin Refused
    /\ \E v \in Verdicts : verdict' = [verdict EXCEPT ![d] = v]
    /\ FinishStage(d, "validate", "validation", "success", "persist")
    /\ UNCHANGED cause

\* validationClient.validate, then the stage is closed with the answer.
Validate(d) ==
    /\ pc[d] = "validate"
    /\ Record(d) \notin Refused
    /\ \E v \in Verdicts : verdict' = [verdict EXCEPT ![d] = v]
    /\ FinishStage(d, "validate", "validation", "success", "metaRead")
    /\ UNCHANGED cause

\* A request the validation DTO refuses (an amount that is not positive): the
\* client throws on the 400.
ValidateRefused(d) ==
    /\ pc[d] = "validate"
    /\ Record(d) \in Refused
    /\ Throw(d)
    /\ UNCHANGED <<broker, keys, tables, locals, faults, raced>>

(* processExpense: the duplicate check *)

CheckRedis(d) ==
    /\ pc[d] = "exists"
    /\ \/ /\ DedupKey(d) \in keys
          /\ cause' = [cause EXCEPT ![d] = "duplicate_fingerprint"]
          /\ pc' = [pc EXCEPT ![d] = "skipStage"]
       \/ /\ DedupKey(d) \notin keys
          /\ pc' = [pc EXCEPT ![d] = "query"]
          /\ UNCHANGED cause
    /\ UNCHANGED <<broker, keys, tables, msg, rec, row, verdict, faults, raced>>

CheckLedger(d) ==
    /\ pc[d] = "query"
    /\ \/ /\ existsByFingerprint(Fp(d))
          /\ cause' = [cause EXCEPT ![d] = "duplicate_fingerprint_db"]
          /\ pc' = [pc EXCEPT ![d] = "skipStage"]
          /\ UNCHANGED raced
       \/ /\ ~existsByFingerprint(Fp(d))
          /\ pc' = [pc EXCEPT ![d] = "remember"]
          /\ raced' = raced \union
                {<<Job(d), Job(e)>> : e \in {x \in Deliveries : pc[x] \in Window}}
          /\ UNCHANGED cause
    /\ UNCHANGED <<broker, keys, tables, msg, rec, row, verdict, faults>>

Remember(d) ==
    /\ pc[d] = "remember"
    /\ keys' = keys \union {DedupKey(d)}
    /\ GoTo(d, "deduped")
    /\ UNCHANGED <<broker, tables, locals, raced>>

(* processExpense: mergeMeta, the write and the end of the run *)

ReadRun(d) ==
    /\ \/ /\ pc[d] = "skipRead"
          /\ pc' = [pc EXCEPT ![d] = IF runs[Job(d)].status = "absent"
                                     THEN "skipEnd" ELSE "skipSave"]
       \/ /\ pc[d] = "metaRead"
          /\ pc' = [pc EXCEPT ![d] = IF runs[Job(d)].status = "absent"
                                     THEN "persist" ELSE "metaSave"]
    /\ row' = [row EXCEPT ![d] = runs[Job(d)]]
    /\ UNCHANGED <<broker, keys, tables, msg, rec, cause, verdict, faults, raced>>

\* runs.save(run) writes back the whole row it read, inserting it again if it
\* has been deleted meanwhile.
SaveRun(d) ==
    /\ \/ /\ pc[d] = "skipSave"
          /\ runs' = [runs EXCEPT ![Job(d)] =
                        [row[d] EXCEPT !.causes = @ \union {cause[d]}]]
          /\ GoTo(d, "skipEnd")
       \/ /\ pc[d] = "metaSave"
          /\ runs' = [runs EXCEPT ![Job(d)] =
                        [row[d] EXCEPT !.validation = verdict[d]]]
          /\ GoTo(d, "persist")
    /\ row' = [row EXCEPT ![d] = AbsentRun]
    /\ UNCHANGED <<broker, keys, stages, expenses, msg, rec, cause, verdict, raced>>

Upsert(d) ==
    /\ pc[d] = "upsert"
    /\ expenses' = upsertFromEvent(IdOf[Record(d)], Job(d), Fp(d), verdict[d])
    /\ GoTo(d, "persisted")
    /\ UNCHANGED <<broker, keys, runs, stages, locals, raced>>

\* The run is closed and the loop takes the next record, or the answer of the
\* update is lost and the exception goes where it would at that point.
FinishRun(d, here, status) ==
    /\ pc[d] = here
    /\ runs' = finishRun(Job(d), status)
    /\ \/ /\ pc' = [pc EXCEPT ![d] = "record"]
          /\ rec' = [rec EXCEPT ![d] = @ + 1]
          /\ cause' = [cause EXCEPT ![d] = None]
          /\ verdict' = [verdict EXCEPT ![d] = None]
          /\ UNCHANGED faults
       \/ /\ faults < MaxFaults
          /\ faults' = faults + 1
          /\ Throw(d)
          /\ UNCHANGED <<rec, cause, verdict>>
    /\ UNCHANGED <<broker, keys, stages, expenses, msg, row, raced>>

FinishSuccess(d) == FinishRun(d, "finish", "success")
\* (mutant) The return after skipRun is missing.
SkippedFallsThrough(d) ==
    /\ pc[d] = "skipEnd"
    /\ runs' = finishRun(Job(d), "skipped")
    /\ pc' = [pc EXCEPT ![d] = "normalize"]
    /\ UNCHANGED <<broker, keys, stages, expenses, locals, faults, raced>>
FinishSkipped(d) == FinishRun(d, "skipEnd", "skipped")

\* (mutants) The catch block swallows the exception; reports a skip; forgets the run.
CatchSwallows(d) ==
    /\ pc[d] = "catch"
    /\ runs' = finishRun(Job(d), "failed")
    /\ pc' = [pc EXCEPT ![d] = "record"]
    /\ rec' = [rec EXCEPT ![d] = @ + 1]
    /\ UNCHANGED <<broker, keys, stages, expenses, msg, cause, row, verdict, faults, raced>>
CatchSkips(d) ==
    /\ pc[d] = "catch"
    /\ runs' = finishRun(Job(d), "skipped")
    /\ pc' = [pc EXCEPT ![d] = "failed"]
    /\ UNCHANGED <<broker, keys, stages, expenses, locals, faults, raced>>
CatchForgets(d) ==
    /\ pc[d] = "catch"
    /\ pc' = [pc EXCEPT ![d] = "failed"]
    /\ UNCHANGED <<broker, keys, tables, locals, faults, raced>>

\* The catch block; the exception then leaves the handler, which drops the rest
\* of the batch: Redis has no more of it, Pub/Sub is nacked and keeps it.
FinishFailed(d) ==
    /\ pc[d] = "catch"
    /\ runs' = finishRun(Job(d), "failed")
    /\ pc' = [pc EXCEPT ![d] = "failed"]
    /\ UNCHANGED <<broker, keys, stages, expenses, locals, faults, raced>>

(* What goes wrong around a handler *)

\* A call to Postgres, Redis, the currency or the validation service rejects.
CallFails(d) ==
    /\ pc[d] \in Busy
    /\ pc[d] = "record" =>
          rec[d] <= Len(Records[msg[d]]) /\ Record(d) # Malformed
    /\ faults < MaxFaults
    /\ faults' = faults + 1
    /\ Throw(d)
    /\ UNCHANGED <<broker, keys, tables, locals, raced>>

\* The process dies with every handler in it; nothing is persisted about them.
Crash ==
    /\ \E d \in Deliveries : pc[d] \in Busy
    /\ faults < MaxFaults
    /\ faults' = faults + 1
    /\ pc' = [d \in Deliveries |-> IF pc[d] \in Busy THEN "dead" ELSE pc[d]]
    /\ UNCHANGED <<broker, keys, tables, locals, raced>>

\* DEDUP_TTL_SECONDS passes, or Redis restarts empty-handed for this key.
Expire(k) ==
    /\ k \in keys
    /\ keys' = keys \ {k}
    /\ UNCHANGED <<broker, tables, pc, locals, faults, raced>>

-----------------------------------------------------------------------------
\* What a handler does when it is its turn.
Step(d) ==
    \/ EndBatch(d) \/ RejectRecord(d) \/ CreateRun(d)
    \/ StartDedup(d) \/ CheckRedis(d) \/ CheckLedger(d) \/ Remember(d)
    \/ FinishDedup(d) \/ SkipDedup(d)
    \/ StartNormalize(d) \/ FinishNormalize(d)
    \/ StartCurrency(d) \/ Convert(d)
    \/ StartValidation(d) \/ Validate(d) \/ ValidateRefused(d)
    \/ ReadRun(d) \/ SaveRun(d)
    \/ StartPersist(d) \/ Upsert(d) \/ FinishPersist(d)
    \/ FinishSuccess(d) \/ FinishSkipped(d) \/ FinishFailed(d)

Environment ==
    \/ \E m \in Messages : Publish(m) \/ Lose(m)
    \/ \E k \in keys : Expire(k)
    \/ \E d \in Deliveries : CallFails(d)
    \/ Crash

Next ==
    \/ \E d \in Deliveries, m \in Messages : Receive(d, m)
    \/ \E d \in Deliveries : Step(d)
    \/ Environment

Spec == Init /\ [][Next]_vars

\* Node runs the continuation of every settled await, and every await settles
\* (the HTTP clients by their timeout, the drivers by an answer or an error).
FairSpec == Spec /\ \A d \in Deliveries : WF_vars(Step(d))

-----------------------------------------------------------------------------
\* What the handlers alone write.
HandlerTypes ==
    /\ unsent \subseteq Messages
    /\ inbox \subseteq Messages
    /\ keys \subseteq Keys
    /\ runs \in [Jobs -> RunRows]
    /\ stages \in [Jobs -> [Stages -> StageStatus]]
    /\ pc \in [Deliveries -> Controls]
    /\ msg \in [Deliveries -> Messages \union {None}]
    /\ rec \in [Deliveries -> 0 .. MaxRecords + 1]
    /\ cause \in [Deliveries -> Causes \union {None}]
    /\ row \in [Deliveries -> RunRows]
    /\ verdict \in [Deliveries -> Verdicts \union {None}]
    /\ faults \in 0 .. MaxFaults
    /\ raced \subseteq Jobs \X Jobs

RowTypes == expenses \in [ExpenseIds -> ExpenseRows \union {None}]

TypeOK == HandlerTypes /\ RowTypes

\* A batch is worked off in order and nothing after a failure is touched: every
\* record before the current one has a run that ended success or skipped, and no
\* record after it has a run or a stage.  With pc = "done" this says that a batch
\* is acknowledged only when each of its records has been dealt with.
SequentialBatch ==
    \A d \in Deliveries, i \in 1 .. MaxRecords :
        /\ i < rec[d] => runs[<<d, i>>].status \in {"success", "skipped"}
        /\ i > rec[d] => /\ runs[<<d, i>>] = AbsentRun
                         /\ \A s \in Stages : stages[<<d, i>>][s] = "absent"
        /\ pc[d] = "done" => rec[d] = Len(Records[msg[d]]) + 1

\* What is in the ledger has been through the pipeline: the row's job passed the
\* duplicate check, was not negative, was converted, and its meta shows the very
\* verdict the row carries.  Nothing that was skipped owns a row.
LedgerBacked ==
    \A x \in ExpenseIds : expenses[x] # None =>
        LET j == expenses[x].job IN
        /\ \A s \in Stages \ {"persist"} : stages[j][s] = "success"
        /\ runs[j].validation = expenses[x].status
        /\ runs[j].causes = {}
        /\ runs[j].status # "skipped"
        /\ expenses[x].fp \notin Negative

\* A skipped run says why, with exactly one reason, and went no further than the
\* stage that found the reason.
SkipHasOneCause ==
    \A j \in Jobs : runs[j].status = "skipped" =>
        /\ \E c \in Causes : runs[j].causes = {c}
        /\ \A s \in {"currency", "validation", "persist"} : stages[j][s] = "absent"
        /\ stages[j]["dedup"] = "skipped" <=> "negative_amount" \notin runs[j].causes

\* A run that ended in success has all five stages done, and the expense it was
\* about is in the ledger, through it or through a later job for the same id.
SuccessIsPersisted ==
    \A j \in Jobs : runs[j].status = "success" =>
        /\ \A s \in Stages : stages[j][s] = "success"
        /\ expenses[IdOf[Records[msg[j[1]]][j[2]]]] # None

\* Nothing is skipped as a duplicate of itself: some other job with the same
\* fingerprint (for the Redis key, in the same process) took the record on.
SkipHasAPrior ==
    \A d \in Deliveries, i \in 1 .. MaxRecords :
        "duplicate_fingerprint" \in runs[<<d, i>>].causes =>
            \E e \in Deliveries, k \in 1 .. MaxRecords :
                /\ <<e, k>> # <<d, i>>
                /\ runs[<<e, k>>].status # "absent"
                /\ "duplicate_fingerprint" \notin runs[<<e, k>>].causes
                /\ ProcessOf[msg[e]] = ProcessOf[msg[d]]
                /\ FpOf[Records[msg[e]][k]] = FpOf[Records[msg[d]][i]]

\* The job has stored its expense (another purchase may have taken the row of its id
\* over since), or has not come to an end, or has failed, and is no duplicate itself.
KeepsPurchase(e, n) ==
    \/ /\ runs[<<e, n>>].status = "success"
       /\ expenses[IdOf[Records[msg[e]][n]]] # None
    \/ /\ runs[<<e, n>>].status \in {"running", "failed"}
       /\ runs[<<e, n>>].causes = {}
       /\ n = rec[e] => cause[e] \notin Duplicate

\* No purchase is dropped as a duplicate of nothing: behind every record skipped as one
\* there is another job of its fingerprint that keeps the purchase, unless the amount is
\* negative.  The key is set before the record is processed, so a record that failed is
\* lost when it is delivered again; this says that nothing but a failure loses one.
SkippedHasAKeeper ==
    \A d \in Deliveries, i \in 1 .. MaxRecords :
        (/\ runs[<<d, i>>].causes \cap Duplicate # {}
         /\ FpOf[Records[msg[d]][i]] \notin Negative)
        => \E e \in Deliveries, n \in 1 .. MaxRecords :
              /\ <<e, n>> # <<d, i>>
              /\ KeepsPurchase(e, n)
              /\ FpOf[Records[msg[e]][n]] = FpOf[Records[msg[d]][i]]

\* The ledger holds a fingerprint twice only when the two jobs raced: one passed
\* the duplicate check while the other was between its check and its write.  So
\* jobs that do not overlap are deduplicated whatever happens to the Redis keys.
DuplicatesRaced ==
    \A x, y \in ExpenseIds :
        (x # y /\ expenses[x] # None /\ expenses[y] # None
            /\ expenses[x].fp = expenses[y].fp)
        => \/ <<expenses[x].job, expenses[y].job>> \in raced
           \/ <<expenses[y].job, expenses[x].job>> \in raced

\* A handler never adds a second row for a fingerprint it has written itself:
\* inside one delivery the duplicate check is exact.
OneRowPerDelivery ==
    \A x, y \in ExpenseIds :
        (x # y /\ expenses[x] # None /\ expenses[y] # None
            /\ expenses[x].fp = expenses[y].fp)
        => expenses[x].job[1] # expenses[y].job[1]

\* expenses.fingerprint is unique, as the data model of ANALISIS.md has it.  The
\* migrations dropped the index, and the code does not replace it.
FingerprintUnique ==
    \A x, y \in ExpenseIds :
        (x # y /\ expenses[x] # None /\ expenses[y] # None)
        => expenses[x].fp # expenses[y].fp

\* A run that has ended never runs again and never changes its outcome, except
\* that a lost answer to the closing update turns it into failed.
FinishedStaysFinished ==
    [][\A j \in Jobs :
          runs[j].status \in {"success", "skipped", "failed"} =>
              runs'[j].status \in {runs[j].status, "failed"}]_vars

\* A run that was created is eventually closed, unless a call fails before the
\* try block, the worker dies, or the catch block, entered because a call failed or
\* the validation service refused the record, fails in its turn.
RunsClose ==
    \A d \in Deliveries, i \in 1 .. MaxRecords :
        runs[<<d, i>>].status = "running" ~>
            \/ runs[<<d, i>>].status # "running"
            \/ faults > 0 /\ pc[d] = "dead"
            \/ /\ faults > 0 /\ pc[d] = "failed" /\ rec[d] = i
               /\ \/ stages[<<d, i>>]["normalize"] = "absent"
                  \/ faults > 1 \/ Record(d) \in Refused

=============================================================================
