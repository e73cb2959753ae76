------------------------- MODULE ProcessAdminProofs -------------------------
(***************************************************************************)
(* Theorems about deleting processes and jobs while the worker runs, for    *)
(* any number of handlers, messages, records, requests and faults.          *)
(***************************************************************************)
EXTENDS ProcessAdmin, CleaningWorkerProofs

\* A job whose run has been created, and one no handler will touch again.
Started(j) ==
    \/ j[2] < rec[j[1]]
    \/ j[2] = rec[j[1]] /\ pc[j[1]] \in InRecord \union Ended

Behind(j) ==
    \/ j[2] < rec[j[1]]
    \/ j[2] = rec[j[1]] /\ pc[j[1]] \in Ended

AfterPersist == {"persist", "upsert", "persisted", "finish"}

\* Where the row of a stage has been inserted, and where it has been closed.
Opened(s) ==
    IF s = "dedup" THEN {"exists", "query", "remember", "deduped"}
    ELSE IF s = "normalize" THEN {"normalized"}
    ELSE IF s = "currency" THEN {"convert"}
    ELSE IF s = "validation" THEN {"validate"}
    ELSE {"upsert", "persisted"}

Passed(s) ==
    IF s = "dedup" THEN InTry
    ELSE IF s = "normalize" THEN InTry \ {"normalize", "normalized"}
    ELSE IF s = "currency"
         THEN {"validation", "validate", "metaRead", "metaSave"} \union AfterPersist
    ELSE IF s = "validation" THEN {"metaRead", "metaSave"} \union AfterPersist
    ELSE {"finish"}

\* Only jobs that were created are shown or deleted, and a job that was deleted and
\* not cut off is one its handler has left behind.
Begun ==
    /\ \A j \in Jobs : runs[j].status # "absent" => Started(j)
    /\ \A p \in Processes : \A j \in seenJobs[p] : Started(j)
    /\ \A j \in erased \ cut : Behind(j)

\* The run of the current record: open or gone, gone only if it was cut off, and
\* again open in the copy mergeMeta holds, which is what it may come back as.
RunFits(d) ==
    /\ pc[d] \in InRecord \ {"catch"} => runs[Job(d)].status \in {"absent", "running"}
    /\ pc[d] \in {"skipSave", "metaSave"} => row[d].status = "running"
    /\ pc[d] \in InRecord /\ runs[Job(d)].status = "absent" => Job(d) \in cut
    /\ pc[d] \in AfterPersist /\ runs[Job(d)].status # "absent" =>
          runs[Job(d)].validation # None
    /\ pc[d] = "skipEnd" /\ runs[Job(d)].status # "absent" => runs[Job(d)].causes # {}

\* Its stages, unless it was cut off.
StagesDone(d) ==
    pc[d] \in InRecord /\ Job(d) \notin cut =>
        \A s \in Stages :
            /\ pc[d] \in Opened(s) => stages[Job(d)][s] # "absent"
            /\ pc[d] \in Passed(s) => stages[Job(d)][s] = "success"

AllFit == \A d \in Deliveries : RunFits(d) /\ StagesDone(d)

Shown ==
    /\ ErasedAtRestStaysErased
    /\ ShownSuccessIsWhole
    /\ ShownOutcomeIsExplained
    /\ NoDanglingJob

AdminInv == ControlOK /\ AdminTypeOK /\ Begun /\ AllFit /\ Shown

LEMMA AdminHandler == AdminInv => HandlerInv
  BY DEF AdminInv, AdminTypeOK, HandlerInv

-----------------------------------------------------------------------------
(* How a handler moves on *)

\* A step goes on with the record or leaves the handler; only closing the run takes
\* the next record.
LEMMA OwnControl ==
    ASSUME HandlerInv, NEW d \in Deliveries, Step(d) \/ CallFails(d)
    PROVE  /\ pc[d] \in Busy
           /\ \/ rec'[d] = rec[d] /\ pc'[d] \in InRecord \union Ended
              \/ rec'[d] = rec[d] + 1 /\ pc'[d] = "record" /\ pc[d] \in InRecord
  <1>1. /\ pc \in [Deliveries -> Controls] /\ rec \in [Deliveries -> 0 .. MaxRecords + 1]
        /\ InRecord \subseteq Controls /\ "catch" \in InRecord /\ "failed" \in Ended
    BY DEF HandlerInv, HandlerTypes, Controls, InRecord, Busy, Ended
  <1>2. ASSUME NEW here \in InRecord, NEW next \in InRecord, pc[d] = here, GoTo(d, next),
               rec' = rec
        PROVE  /\ pc[d] \in Busy
               /\ rec'[d] = rec[d] /\ pc'[d] \in InRecord \union Ended
    <2>1. pc'[d] \in {next, "catch", "failed"}
      BY <1>1, <1>2, GoToTarget DEF HandlerInv
    <2> QED
      BY <1>1, <1>2, <2>1 DEF InRecord
  <1>3. Throw(d) => pc'[d] \in InRecord \union Ended
    BY <1>1, ThrowTarget DEF HandlerInv
  <1>4. CASE \/ StartDedup(d) \/ StartNormalize(d) \/ StartCurrency(d)
             \/ StartValidation(d) \/ StartPersist(d)
    BY <1>2, <1>4
       DEF StartDedup, StartNormalize, StartCurrency, StartValidation, StartPersist,
           StartStage, locals, InRecord, Busy, BeforeTry, InTry
  <1>5. CASE FinishDedup(d) \/ SkipDedup(d) \/ Convert(d) \/ FinishPersist(d)
    BY <1>2, <1>5
       DEF FinishDedup, SkipDedup, Convert, FinishPersist, FinishStage, InRecord, Busy,
           BeforeTry, Skipping, InTry
  <1>6. CASE FinishNormalize(d) \/ Validate(d)
    BY <1>2, <1>6
       DEF FinishNormalize, Validate, FinishStage, InRecord, Busy, Skipping, InTry
  <1>7. CASE Remember(d) \/ Upsert(d)
    BY <1>2, <1>7 DEF Remember, Upsert, locals, InRecord, Busy, BeforeTry, InTry
  <1>8. CASE SaveRun(d)
    BY <1>2, <1>8 DEF SaveRun, InRecord, Busy, Skipping, InTry
  <1>9. CASE CheckRedis(d) \/ CheckLedger(d)
    BY <1>1, <1>9 DEF CheckRedis, CheckLedger, InRecord, Busy, BeforeTry
  <1>10. CASE ReadRun(d)
    BY <1>1, <1>10 DEF ReadRun, InRecord, Busy, Skipping, InTry
  <1>11. CASE FinishSuccess(d) \/ FinishSkipped(d)
    <2>1. PICK here \in {"finish", "skipEnd"}, status \in RunStatus :
             FinishRun(d, here, status)
      BY <1>11 DEF FinishSuccess, FinishSkipped, RunStatus
    <2>2. pc[d] \in InRecord /\ pc[d] \in Busy
      BY <2>1 DEF FinishRun, InRecord, Busy, Skipping, InTry
    <2> QED
      BY <1>1, <1>3, <2>1, <2>2 DEF FinishRun
  <1>12. CASE FinishFailed(d)
    BY <1>1, <1>12 DEF FinishFailed, locals, Busy
  <1>13. CASE EndBatch(d) \/ RejectRecord(d)
    BY <1>1, <1>13 DEF EndBatch, RejectRecord, locals, Busy, BeforeTry, Ended
  <1>14. CASE CreateRun(d)
    <2>1. pc[d] = "record" /\ "dedup" \in InRecord /\ rec' = rec /\ GoTo(d, "dedup")
      BY <1>14 DEF CreateRun, locals, InRecord, Busy, BeforeTry
    <2>2. pc'[d] \in {"dedup", "catch", "failed"}
      BY <1>1, <2>1, GoToTarget DEF HandlerInv
    <2> QED
      BY <1>1, <2>1, <2>2 DEF Busy, BeforeTry
  <1>15. CASE ValidateRefused(d) \/ CallFails(d)
    BY <1>3, <1>15 DEF ValidateRefused, CallFails, locals, Busy, InTry
  <1> QED
    BY <1>4, <1>5, <1>6, <1>7, <1>8, <1>9, <1>10, <1>11, <1>12, <1>13, <1>14, <1>15 DEF Step

\* A created job stays created, and one left behind is not touched again.
LEMMA WorkProgress ==
    ASSUME HandlerInv, [Next]_vars, NEW j \in Jobs
    PROVE  /\ Started(j) => Started(j)'
           /\ Behind(j) => Behind(j)' /\ runs'[j] = runs[j] /\ stages'[j] = stages[j]
  <1>1. /\ j[1] \in Deliveries /\ j[2] \in 1 .. MaxRecords /\ j = <<j[1], j[2]>>
        /\ rec \in [Deliveries -> 0 .. MaxRecords + 1] /\ pc \in [Deliveries -> Controls]
    BY DEF Jobs, HandlerInv, HandlerTypes
  <1>2. j[2] \in Int /\ \A d \in Deliveries : rec[d] \in Int
    BY <1>1, ConstantsAssumption
  <1>3. ASSUME NEW d \in Deliveries, Step(d) \/ CallFails(d)
        PROVE  /\ Started(j) => Started(j)'
               /\ Behind(j) => Behind(j)' /\ runs'[j] = runs[j] /\ stages'[j] = stages[j]
    <2>1. CASE j[1] # d
      <3>1. pc'[j[1]] = pc[j[1]] /\ rec'[j[1]] = rec[j[1]]
        BY <1>1, <1>3, <2>1, OwnStep
      <3>2. j # Job(d)
        BY <2>1 DEF Job
      <3>3. runs'[j] = runs[j] /\ stages'[j] = stages[j]
        BY <1>3, <3>2, OwnStep
      <3> QED
        BY <3>1, <3>3 DEF Started, Behind
    <2>2. CASE j[1] = d
      <3>1. /\ pc[d] \notin Ended
            /\ \/ rec'[d] = rec[d] /\ pc'[d] \in InRecord \union Ended
               \/ rec'[d] = rec[d] + 1
        BY <1>3, OwnControl DEF Ended, Busy, BeforeTry, Skipping, InTry
      <3>2. Started(j) => Started(j)'
        BY <1>2, <2>2, <3>1 DEF Started
      <3>3. ASSUME Behind(j)
            PROVE  Behind(j)' /\ runs'[j] = runs[j] /\ stages'[j] = stages[j]
        <4>1. j[2] < rec[d]
          BY <2>2, <3>1, <3>3 DEF Behind
        <4>2. Behind(j)'
          BY <1>2, <2>2, <3>1, <4>1 DEF Behind
        <4>3. j # Job(d)
          BY <1>2, <4>1 DEF Job
        <4> QED
          BY <1>3, <4>2, <4>3, OwnStep
      <3> QED
        BY <3>2, <3>3
    <2> QED
      BY <2>1, <2>2
  <1>4. ASSUME NEW d \in Deliveries, NEW m \in Messages, Receive(d, m)
        PROVE  /\ Started(j) => Started(j)'
               /\ Behind(j) => Behind(j)' /\ runs'[j] = runs[j] /\ stages'[j] = stages[j]
    <2>1. /\ pc[d] = "idle" /\ rec[d] = 0 /\ UNCHANGED tables
          /\ \A e \in Deliveries : e # d => pc'[e] = pc[e] /\ rec'[e] = rec[e]
      BY <1>1, <1>4 DEF Receive, HandlerInv, ControlOK
    <2>2. CASE j[1] = d
      <3>1. ~Started(j) /\ ~Behind(j)
        BY <1>1, <1>2, <2>1, <2>2 DEF Started, Behind
      <3> QED
        BY <3>1
    <2>3. CASE j[1] # d
      BY <1>1, <2>1, <2>3 DEF Started, Behind, tables
    <2> QED
      BY <2>2, <2>3
  <1>5. CASE Crash
    <2>1. UNCHANGED tables /\ rec' = rec
          /\ pc' = [e \in Deliveries |-> IF pc[e] \in Busy THEN "dead" ELSE pc[e]]
      BY <1>5 DEF Crash, locals
    <2>2. pc'[j[1]] = pc[j[1]] \/ pc'[j[1]] \in Ended
      BY <1>1, <2>1 DEF Ended
    <2>3. pc[j[1]] \in Ended => pc'[j[1]] \in Ended
      BY <2>2
    <2> QED
      BY <2>1, <2>2, <2>3 DEF Started, Behind, tables
  <1>6. ASSUME UNCHANGED <<tables, pc, locals>>
        PROVE  /\ Started(j) => Started(j)'
               /\ Behind(j) => Behind(j)' /\ runs'[j] = runs[j] /\ stages'[j] = stages[j]
    BY <1>6 DEF Started, Behind, tables, locals
  <1>7. ASSUME NEW m \in Messages, Publish(m) \/ Lose(m) PROVE UNCHANGED <<tables, pc, locals>>
    BY <1>7 DEF Publish, Lose
  <1>8. ASSUME NEW k \in keys, Expire(k) PROVE UNCHANGED <<tables, pc, locals>>
    BY <1>8 DEF Expire
  <1>9. CASE UNCHANGED vars
    BY <1>6, <1>9 DEF vars, tables, locals
  <1> QED
    BY <1>3, <1>4, <1>5, <1>6, <1>7, <1>8, <1>9 DEF Next, Environment

\* What the invariant says of one job that is shown.
Whole(j) ==
    j \notin cut /\ runs[j].status = "success" => \A s \in Stages : stages[j][s] = "success"

Explained(j) ==
    /\ runs[j].status = "success" => runs[j].validation # None
    /\ runs[j].status = "skipped" => runs[j].causes # {}

\* A step of a handler keeps the invariant once it does for its own job.
LEMMA WorkFrame ==
    ASSUME AdminInv, [Next]_vars, UNCHANGED adminVars,
           NEW d \in Deliveries, Step(d) \/ CallFails(d),
           RunFits(d)', StagesDone(d)',
           \A j \in Jobs : j = Job(d) =>
               /\ Whole(j)' /\ Explained(j)'
               /\ runs'[j].status = "absent" => runs[j].status = "absent"
    PROVE  Begun' /\ AllFit' /\ Shown'
  <1>1. /\ msg' = msg
        /\ \A e \in Deliveries : e # d =>
              pc'[e] = pc[e] /\ rec'[e] = rec[e] /\ row'[e] = row[e]
        /\ \A j \in Jobs : j # Job(d) => runs'[j] = runs[j] /\ stages'[j] = stages[j]
        /\ ~Upsert(d) => expenses' = expenses
    BY AdminHandler, OwnStep
  <1>2. /\ erased' = erased /\ cut' = cut /\ seenJobs' = seenJobs
    BY DEF adminVars
  <1>3. ASSUME NEW j \in Jobs
        PROVE  /\ Started(j) => Started(j)'
               /\ Behind(j) => Behind(j)' /\ runs'[j] = runs[j] /\ stages'[j] = stages[j]
    BY AdminHandler, WorkProgress
  <1>4. \A p \in Processes : seenJobs[p] \subseteq Jobs
    BY DEF AdminInv, AdminTypeOK
  <1>5. erased \subseteq Jobs
    BY DEF AdminInv, AdminTypeOK
  <1>6. ASSUME NEW x \in ExpenseIds, expenses'[x] # expenses[x]
        PROVE  /\ pc[d] = "upsert" /\ Job(d) \in Jobs /\ runs' = runs
               /\ expenses'[x].job = Job(d)
    <2>1. Upsert(d)
      BY <1>1, <1>6
    <2>2. pc[d] = "upsert" /\ pc[d] \in InRecord
      BY <2>1 DEF Upsert, InRecord, Busy, InTry
    <2>3. Job(d) \in Jobs /\ IdOf[Record(d)] \in ExpenseIds
      BY <2>2, AdminHandler, RecordTypes
    <2>4. expenses' = [expenses EXCEPT ![IdOf[Record(d)]] =
                          [job |-> Job(d), fp |-> Fp(d), status |-> verdict[d]]]
          /\ runs' = runs
      BY <2>1 DEF Upsert, upsertFromEvent
    <2>5. expenses \in [ExpenseIds -> {None} \union
              [job : Jobs \union {None}, fp : Fingerprints, status : Verdicts]]
      BY DEF AdminInv, AdminTypeOK
    <2>6. expenses'[x] = [job |-> Job(d), fp |-> Fp(d), status |-> verdict[d]]
      BY <1>6, <2>4, <2>5
    <2> QED
      BY <2>2, <2>3, <2>4, <2>6
  <1>7. Begun'
    <2>1. ASSUME NEW j \in Jobs, runs'[j].status # "absent"
          PROVE  Started(j)'
      <3>1. CASE j = Job(d)
        <4>1. /\ j[1] = d /\ j[2] = rec[d] /\ rec[d] \in Int
          BY <3>1, ConstantsAssumption, AdminHandler DEF Job, HandlerInv, HandlerTypes
        <4> QED
          BY <4>1, AdminHandler, OwnControl DEF Started
      <3>2. CASE j # Job(d)
        BY <1>1, <1>3, <2>1, <3>2 DEF AdminInv, Begun
      <3> QED
        BY <3>1, <3>2
    <2>2. \A p \in Processes : \A j \in seenJobs'[p] : Started(j)'
      BY <1>2, <1>3, <1>4 DEF AdminInv, Begun
    <2>3. \A j \in erased' \ cut' : Behind(j)'
      BY <1>2, <1>3, <1>5 DEF AdminInv, Begun
    <2> QED
      BY <2>1, <2>2, <2>3 DEF Begun
  <1>8. AllFit'
    <2>1. SUFFICES ASSUME NEW e \in Deliveries, e # d
                   PROVE  RunFits(e)' /\ StagesDone(e)'
      BY DEF AllFit
    <2>2. Job(e)' = Job(e) /\ Job(e) # Job(d)
      BY <1>1, <2>1 DEF Job
    <2>3. pc[e] \in InRecord => Job(e) \in Jobs
      BY AdminHandler, RecordTypes
    <2>4. /\ pc'[e] = pc[e] /\ row'[e] = row[e] /\ cut' = cut
          /\ pc[e] \in InRecord =>
                runs'[Job(e)] = runs[Job(e)] /\ stages'[Job(e)] = stages[Job(e)]
      BY <1>1, <1>2, <2>1, <2>2, <2>3
    <2>5. RunFits(e) /\ StagesDone(e)
      BY DEF AdminInv, AllFit
    <2>6. CASE pc[e] \in InRecord
      BY <2>2, <2>4, <2>5, <2>6 DEF RunFits, StagesDone
    <2>7. CASE pc[e] \notin InRecord
      BY <2>4, <2>7 DEF RunFits, StagesDone, AfterPersist, InRecord, Busy, Skipping, InTry
    <2> QED
      BY <2>6, <2>7
  <1>9. ErasedAtRestStaysErased'
    <2>1. SUFFICES ASSUME NEW j \in erased \ cut
                   PROVE  /\ runs'[j] = AbsentRun
                          /\ \A s \in Stages : stages'[j][s] = "absent"
                          /\ \A x \in ExpenseIds : expenses'[x] # None => expenses'[x].job # j
      BY <1>2 DEF ErasedAtRestStaysErased
    <2>2. /\ runs[j] = AbsentRun
          /\ \A s \in Stages : stages[j][s] = "absent"
          /\ \A x \in ExpenseIds : expenses[x] # None => expenses[x].job # j
      BY DEF AdminInv, Shown, ErasedAtRestStaysErased
    <2>3. j \in Jobs /\ Behind(j)
      BY <1>5 DEF AdminInv, Begun
    <2>4. runs'[j] = runs[j] /\ stages'[j] = stages[j]
      BY <1>3, <2>3
    <2>5. pc[d] = "upsert" => j # Job(d)
      <3>1. rec[d] \in Int
        BY ConstantsAssumption, AdminHandler DEF HandlerInv, HandlerTypes
      <3> QED
        BY <2>3, <3>1 DEF Behind, Job, Ended
    <2> QED
      BY <1>6, <2>2, <2>4, <2>5
  <1>10. ShownSuccessIsWhole'
    BY <1>1, <1>2 DEF AdminInv, Shown, ShownSuccessIsWhole, Whole
  <1>11. ShownOutcomeIsExplained'
    BY <1>1 DEF AdminInv, Shown, ShownOutcomeIsExplained, Explained
  <1>12. NoDanglingJob'
    <2>1. SUFFICES ASSUME NEW x \in ExpenseIds, expenses'[x] # None,
                          expenses'[x].job # None,
                          runs'[expenses'[x].job].status = "absent"
                   PROVE  expenses'[x].job \in cut
      BY <1>2 DEF NoDanglingJob
    <2>2. CASE expenses'[x] # expenses[x]
      <3>1. pc[d] = "upsert" /\ runs[Job(d)].status = "absent" /\ expenses'[x].job = Job(d)
        BY <1>6, <2>1, <2>2
      <3>2. pc[d] \in InRecord
        BY <3>1 DEF InRecord, Busy, InTry
      <3> QED
        BY <3>1, <3>2 DEF AdminInv, AllFit, RunFits
    <2>3. CASE expenses'[x] = expenses[x]
      <3>1. expenses[x] # None /\ expenses[x].job # None /\ expenses[x].job \in Jobs
        BY <2>1, <2>3 DEF AdminInv, AdminTypeOK
      <3>2. runs[expenses[x].job].status = "absent"
        BY <1>1, <2>1, <2>3, <3>1
      <3> QED
        BY <2>3, <3>1, <3>2 DEF AdminInv, Shown, NoDanglingJob
    <2> QED
      BY <2>2, <2>3
  <1> QED
    BY <1>7, <1>8, <1>9, <1>10, <1>11, <1>12 DEF Shown

\* The current run is open, or it was cut off.
LEMMA OpenRun ==
    ASSUME AdminInv, NEW d \in Deliveries, pc[d] \in InRecord
    PROVE  /\ Job(d) \in Jobs
           /\ RunFits(d) /\ StagesDone(d)
           /\ runs[Job(d)].status = "absent" => Job(d) \in cut
           /\ pc[d] # "catch" => runs[Job(d)].status \in {"absent", "running"}
  BY AdminHandler, RecordTypes DEF AdminInv, AllFit, RunFits

\* A step inside the try or before it that leaves the runs alone goes on with what
\* its next control point needs, or to where nothing is needed.
LEMMA WorkStages ==
    ASSUME AdminInv, [Next]_vars, UNCHANGED adminVars,
           NEW d \in Deliveries, Step(d) \/ CallFails(d),
           pc[d] \in InRecord \ {"catch"}, NEW next \in InRecord,
           runs' = runs, rec' = rec, pc'[d] \in {next, "catch", "failed"},
           next \in {"skipSave", "metaSave"} => row'[d].status = "running",
           next \in AfterPersist => pc[d] \in AfterPersist \/ runs[Job(d)].status = "absent",
           next = "skipEnd" => runs[Job(d)].status = "absent",
           \A s \in Stages : Job(d) \notin cut =>
               /\ next \in Opened(s) => stages'[Job(d)][s] # "absent"
               /\ next \in Passed(s) => stages'[Job(d)][s] = "success"
    PROVE  Begun' /\ AllFit' /\ Shown'
  <1>1. /\ Job(d) \in Jobs /\ Job(d)' = Job(d) /\ cut' = cut
        /\ runs[Job(d)].status \in {"absent", "running"}
        /\ runs[Job(d)].status = "absent" => Job(d) \in cut
        /\ RunFits(d)
    BY OpenRun DEF Job, adminVars
  <1>2. /\ {"catch", "failed"} \cap (AfterPersist \union {"skipSave", "metaSave", "skipEnd"}) = {}
        /\ "failed" \notin InRecord
    BY DEF AfterPersist, InRecord, Busy, BeforeTry, Skipping, InTry
  <1>3. RunFits(d)'
    BY <1>1, <1>2 DEF RunFits
  <1>4. \A s \in Stages : {"catch", "failed"} \cap (Opened(s) \union Passed(s)) = {}
    BY DEF Opened, Passed, AfterPersist, InTry
  <1>5. StagesDone(d)'
    BY <1>1, <1>2, <1>4 DEF StagesDone
  <1>6. ASSUME NEW j \in Jobs, j = Job(d)
        PROVE  /\ Whole(j)' /\ Explained(j)'
               /\ runs'[j].status = "absent" => runs[j].status = "absent"
    BY <1>1, <1>6 DEF Whole, Explained
  <1> QED
    BY <1>3, <1>5, <1>6, WorkFrame

\* What is opened or passed at the next control point and not by this very step.
Keeps(here, s, next) ==
    \A t \in Stages :
        /\ next \in Opened(t) => t = s \/ here \in Opened(t)
        /\ next \in Passed(t) => t # s /\ here \in Passed(t)

LEMMA WorkStarts ==
    ASSUME AdminInv, [Next]_vars, UNCHANGED adminVars, NEW d \in Deliveries, Step(d),
           NEW here \in InRecord \ {"catch"}, NEW s \in Stages,
           NEW next \in InRecord \ {"catch", "skipSave", "metaSave", "skipEnd"},
           StartStage(d, here, s, next), Keeps(here, s, next),
           next \in AfterPersist => here \in AfterPersist
    PROVE  Begun' /\ AllFit' /\ Shown'
  <1>1. /\ pc[d] = here /\ runs' = runs /\ rec' = rec /\ GoTo(d, next)
        /\ stages' = [stages EXCEPT ![Job(d)][s] = "running"]
    BY DEF StartStage, startStage, locals
  <1>2. /\ stages \in [Jobs -> [Stages -> StageStatus]] /\ next \in Controls
    BY AdminHandler DEF HandlerInv, HandlerTypes, Controls, InRecord
  <1>3. pc'[d] \in {next, "catch", "failed"}
    BY <1>1, <1>2, AdminHandler, GoToTarget DEF HandlerInv
  <1>4. Job(d) \in Jobs /\ StagesDone(d)
    BY <1>1, OpenRun
  <1>5. /\ stages'[Job(d)][s] = "running"
        /\ \A t \in Stages : t # s => stages'[Job(d)][t] = stages[Job(d)][t]
    BY <1>1, <1>2, <1>4
  <1>6. ASSUME NEW t \in Stages, Job(d) \notin cut
        PROVE  /\ next \in Opened(t) => stages'[Job(d)][t] # "absent"
               /\ next \in Passed(t) => stages'[Job(d)][t] = "success"
    <2>1. /\ here \in Opened(t) => stages[Job(d)][t] # "absent"
          /\ here \in Passed(t) => stages[Job(d)][t] = "success"
      BY <1>1, <1>4, <1>6 DEF StagesDone
    <2> QED
      BY <1>5, <2>1 DEF Keeps
  <1> QED
    BY <1>1, <1>3, <1>6, WorkStages

\* Closing a stage as status: nothing is open then, and what is passed was passed
\* before or is this stage.
LEMMA WorkFinishes ==
    ASSUME AdminInv, [Next]_vars, UNCHANGED adminVars, NEW d \in Deliveries, Step(d),
           NEW here \in InRecord \ {"catch"}, NEW s \in Stages, NEW status \in StageStatus,
           NEW next \in InRecord \ {"catch", "skipSave", "metaSave", "skipEnd"},
           FinishStage(d, here, s, status, next),
           \A t \in Stages :
               /\ next \notin Opened(t)
               /\ next \in Passed(t) =>
                     IF t = s THEN here \in Opened(s) /\ status = "success"
                     ELSE here \in Passed(t),
           next \in AfterPersist => here \in AfterPersist
    PROVE  Begun' /\ AllFit' /\ Shown'
  <1>1. /\ pc[d] = here /\ runs' = runs /\ rec' = rec /\ GoTo(d, next)
        /\ stages' = finishStage(Job(d), s, status)
    BY DEF FinishStage
  <1>2. /\ stages \in [Jobs -> [Stages -> StageStatus]] /\ next \in Controls
    BY AdminHandler DEF HandlerInv, HandlerTypes, Controls, InRecord
  <1>3. pc'[d] \in {next, "catch", "failed"}
    BY <1>1, <1>2, AdminHandler, GoToTarget DEF HandlerInv
  <1>4. Job(d) \in Jobs /\ StagesDone(d)
    BY <1>1, OpenRun
  <1>5. /\ stages[Job(d)][s] # "absent" => stages'[Job(d)][s] = status
        /\ \A t \in Stages : t # s => stages'[Job(d)][t] = stages[Job(d)][t]
    BY <1>1, <1>2, <1>4 DEF finishStage
  <1>6. ASSUME NEW t \in Stages, Job(d) \notin cut
        PROVE  /\ next \in Opened(t) => stages'[Job(d)][t] # "absent"
               /\ next \in Passed(t) => stages'[Job(d)][t] = "success"
    <2>1. /\ here \in Opened(t) => stages[Job(d)][t] # "absent"
          /\ here \in Passed(t) => stages[Job(d)][t] = "success"
      BY <1>1, <1>4, <1>6 DEF StagesDone
    <2> QED
      BY <1>5, <2>1
  <1> QED
    BY <1>1, <1>3, <1>6, WorkStages

\* The stages of processExpense one after the other.
LEMMA WorkPipeline ==
    ASSUME AdminInv, [Next]_vars, UNCHANGED adminVars, NEW d \in Deliveries,
           \/ StartDedup(d) \/ StartNormalize(d) \/ StartCurrency(d)
           \/ StartValidation(d) \/ StartPersist(d)
           \/ FinishDedup(d) \/ SkipDedup(d) \/ FinishNormalize(d) \/ Convert(d)
           \/ Validate(d) \/ FinishPersist(d)
    PROVE  Begun' /\ AllFit' /\ Shown'
  <1>1. Step(d)
    BY DEF Step
  <1>2. /\ Stages = {"dedup", "normalize", "currency", "validation", "persist"}
        /\ {"success", "skipped"} \subseteq StageStatus
    BY DEF Stages, StageStatus
  <1>3. /\ {"dedup", "exists", "deduped", "skipStage", "skipRead"} \subseteq InRecord
        /\ InTry \subseteq InRecord
    BY DEF InRecord, Busy, BeforeTry, Skipping, InTry
  <1>4. CASE StartDedup(d)
    <2>1. Keeps("dedup", "dedup", "exists")
      BY <1>2 DEF Keeps, Opened, Passed, AfterPersist, InTry
    <2> QED
      BY <1>1, <1>2, <1>3, <1>4, <2>1, WorkStarts DEF StartDedup, AfterPersist
  <1>5. CASE StartNormalize(d)
    <2>1. Keeps("normalize", "normalize", "normalized")
      BY <1>2 DEF Keeps, Opened, Passed, AfterPersist, InTry
    <2> QED
      BY <1>1, <1>2, <1>3, <1>5, <2>1, WorkStarts DEF StartNormalize, AfterPersist, InTry
  <1>6. CASE StartCurrency(d)
    <2>1. Keeps("currency", "currency", "convert")
      BY <1>2 DEF Keeps, Opened, Passed, AfterPersist, InTry
    <2> QED
      BY <1>1, <1>2, <1>3, <1>6, <2>1, WorkStarts DEF StartCurrency, AfterPersist, InTry
  <1>7. CASE StartValidation(d)
    <2>1. Keeps("validation", "validation", "validate")
      BY <1>2 DEF Keeps, Opened, Passed, AfterPersist, InTry
    <2> QED
      BY <1>1, <1>2, <1>3, <1>7, <2>1, WorkStarts DEF StartValidation, AfterPersist, InTry
  <1>8. CASE StartPersist(d)
    <2>1. Keeps("persist", "persist", "upsert")
      BY <1>2 DEF Keeps, Opened, Passed, AfterPersist, InTry
    <2> QED
      BY <1>1, <1>2, <1>3, <1>8, <2>1, WorkStarts DEF StartPersist, AfterPersist, InTry
  <1>9. CASE FinishDedup(d)
    <2>1. \A t \in Stages :
             /\ "normalize" \notin Opened(t)
             /\ "normalize" \in Passed(t) => t = "dedup" /\ "deduped" \in Opened("dedup")
      BY <1>2 DEF Opened, Passed, AfterPersist, InTry
    <2> QED
      BY <1>1, <1>2, <1>3, <1>9, <2>1, WorkFinishes DEF FinishDedup, AfterPersist, InTry
  <1>10. ASSUME NEW here \in InRecord \ {"catch"}, NEW s \in Stages,
                FinishStage(d, here, s, "skipped", "skipRead")
         PROVE  Begun' /\ AllFit' /\ Shown'
    <2>1. \A t \in Stages : "skipRead" \notin Opened(t) /\ "skipRead" \notin Passed(t)
      BY <1>2 DEF Opened, Passed, AfterPersist, InTry
    <2> QED
      BY <1>1, <1>2, <1>3, <1>10, <2>1, WorkFinishes DEF AfterPersist
  <1>11. CASE SkipDedup(d)
    BY <1>2, <1>3, <1>10, <1>11 DEF SkipDedup
  <1>12. CASE FinishNormalize(d)
    <2>1. \A t \in Stages :
             /\ "currency" \notin Opened(t)
             /\ "currency" \in Passed(t) =>
                   IF t = "normalize" THEN "normalized" \in Opened("normalize")
                   ELSE "normalized" \in Passed(t)
      BY <1>2 DEF Opened, Passed, AfterPersist, InTry
    <2>2. CASE FinishStage(d, "normalized", "normalize", "success", "currency")
      BY <1>1, <1>2, <1>3, <2>1, <2>2, WorkFinishes DEF AfterPersist, InTry
    <2>3. CASE FinishStage(d, "normalized", "normalize", "skipped", "skipRead")
      BY <1>2, <1>3, <1>10, <2>3 DEF InTry
    <2> QED
      BY <1>12, <2>2, <2>3 DEF FinishNormalize
  <1>13. CASE Convert(d)
    <2>1. \A t \in Stages :
             /\ "validation" \notin Opened(t)
             /\ "validation" \in Passed(t) =>
                   IF t = "currency" THEN "convert" \in Opened("currency")
                   ELSE "convert" \in Passed(t)
      BY <1>2 DEF Opened, Passed, AfterPersist, InTry
    <2> QED
      BY <1>1, <1>2, <1>3, <1>13, <2>1, WorkFinishes DEF Convert, AfterPersist, InTry
  <1>14. CASE Validate(d)
    <2>1. \A t \in Stages :
             /\ "metaRead" \notin Opened(t)
             /\ "metaRead" \in Passed(t) =>
                   IF t = "validation" THEN "validate" \in Opened("validation")
                   ELSE "validate" \in Passed(t)
      BY <1>2 DEF Opened, Passed, AfterPersist, InTry
    <2> QED
      BY <1>1, <1>2, <1>3, <1>14, <2>1, WorkFinishes DEF Validate, AfterPersist, InTry
  <1>15. CASE FinishPersist(d)
    <2>1. \A t \in Stages :
             /\ "finish" \notin Opened(t)
             /\ "finish" \in Passed(t) =>
                   IF t = "persist" THEN "persisted" \in Opened("persist")
                   ELSE "persisted" \in Passed(t)
      BY <1>2 DEF Opened, Passed, AfterPersist, InTry
    <2> QED
      BY <1>1, <1>2, <1>3, <1>15, <2>1, WorkFinishes DEF FinishPersist, AfterPersist, InTry
  <1> QED
    BY <1>4, <1>5, <1>6, <1>7, <1>8, <1>9, <1>11, <1>12, <1>13, <1>14, <1>15

\* The duplicate check, the write and the reading half of mergeMeta.
LEMMA WorkChecks ==
    ASSUME AdminInv, [Next]_vars, UNCHANGED adminVars, NEW d \in Deliveries,
           CheckRedis(d) \/ CheckLedger(d) \/ Remember(d) \/ Upsert(d) \/ ReadRun(d)
    PROVE  Begun' /\ AllFit' /\ Shown'
  <1>1. Step(d)
    BY DEF Step
  <1>2. /\ pc \in [Deliveries -> Controls] /\ row \in [Deliveries -> RunRows]
        /\ InRecord \subseteq Controls
    BY AdminHandler DEF HandlerInv, HandlerTypes, Controls, InRecord
  <1>3. ASSUME NEW here \in InRecord \ {"catch"}, NEW next \in InRecord, pc[d] = here,
               runs' = runs, stages' = stages, rec' = rec,
               pc'[d] \in {next, "catch", "failed"},
               next \in {"skipSave", "metaSave"} => row'[d].status = "running",
               next \in AfterPersist => here \in AfterPersist \/ runs[Job(d)].status = "absent",
               next = "skipEnd" => runs[Job(d)].status = "absent",
               \A t \in Stages : /\ next \in Opened(t) => here \in Opened(t)
                                 /\ next \in Passed(t) => here \in Passed(t)
        PROVE  Begun' /\ AllFit' /\ Shown'
    <2>1. StagesDone(d)
      BY <1>3, OpenRun
    <2>2. \A t \in Stages : Job(d) \notin cut =>
             /\ next \in Opened(t) => stages'[Job(d)][t] # "absent"
             /\ next \in Passed(t) => stages'[Job(d)][t] = "success"
      BY <1>3, <2>1 DEF StagesDone
    <2> QED
      BY <1>1, <1>3, <2>2, WorkStages
  <1>4. CASE CheckRedis(d) \/ CheckLedger(d)
    <2>1. PICK here \in {"exists", "query"}, next \in {"skipStage", "query", "remember"} :
             /\ pc[d] = here /\ pc'[d] = next
             /\ next = "remember" => here = "query"
             /\ runs' = runs /\ stages' = stages /\ rec' = rec
      BY <1>2, <1>4 DEF CheckRedis, CheckLedger, tables
    <2>2. /\ here \in InRecord \ {"catch"} /\ next \in InRecord
          /\ next \notin AfterPersist \union {"skipSave", "metaSave", "skipEnd"}
      BY <2>1 DEF InRecord, Busy, BeforeTry, AfterPersist
    <2>3. \A t \in Stages : /\ next \in Opened(t) => here \in Opened(t)
                            /\ next \in Passed(t) => here \in Passed(t)
      BY <2>1 DEF Stages, Opened, Passed, AfterPersist, InTry
    <2> QED
      BY <1>3, <2>1, <2>2, <2>3
  <1>5. CASE Remember(d)
    <2>1. /\ pc[d] = "remember" /\ GoTo(d, "deduped")
          /\ runs' = runs /\ stages' = stages /\ rec' = rec
      BY <1>5 DEF Remember, tables, locals
    <2>2. "remember" \in InRecord \ {"catch"} /\ "deduped" \in InRecord
          /\ "deduped" \notin AfterPersist
      BY DEF InRecord, Busy, BeforeTry, AfterPersist
    <2>3. pc'[d] \in {"deduped", "catch", "failed"}
      BY <1>2, <2>1, <2>2, AdminHandler, GoToTarget DEF HandlerInv
    <2>4. \A t \in Stages : /\ "deduped" \in Opened(t) => "remember" \in Opened(t)
                            /\ "deduped" \in Passed(t) => "remember" \in Passed(t)
      BY DEF Stages, Opened, Passed, AfterPersist, InTry
    <2> QED
      BY <1>3, <2>1, <2>2, <2>3, <2>4
  <1>6. CASE Upsert(d)
    <2>1. /\ pc[d] = "upsert" /\ GoTo(d, "persisted")
          /\ runs' = runs /\ stages' = stages /\ rec' = rec
      BY <1>6 DEF Upsert, locals
    <2>2. "upsert" \in InRecord \ {"catch"} /\ "persisted" \in InRecord
          /\ "upsert" \in AfterPersist
      BY DEF InRecord, Busy, InTry, AfterPersist
    <2>3. pc'[d] \in {"persisted", "catch", "failed"}
      BY <1>2, <2>1, <2>2, AdminHandler, GoToTarget DEF HandlerInv
    <2>4. \A t \in Stages : /\ "persisted" \in Opened(t) => "upsert" \in Opened(t)
                            /\ "persisted" \in Passed(t) => "upsert" \in Passed(t)
      BY DEF Stages, Opened, Passed, AfterPersist, InTry
    <2> QED
      BY <1>3, <2>1, <2>2, <2>3, <2>4
  <1>7. CASE ReadRun(d)
    <2>1. pc[d] \in {"skipRead", "metaRead"} /\ pc[d] \in InRecord \ {"catch"}
      BY <1>7 DEF ReadRun, InRecord, Busy, Skipping, InTry
    <2>2. runs[Job(d)].status \in {"absent", "running"}
      BY <2>1, OpenRun
    <2>3. /\ runs' = runs /\ stages' = stages /\ rec' = rec /\ row'[d] = runs[Job(d)]
          /\ pc'[d] = IF pc[d] = "skipRead"
                      THEN IF runs[Job(d)].status = "absent" THEN "skipEnd" ELSE "skipSave"
                      ELSE IF runs[Job(d)].status = "absent" THEN "persist" ELSE "metaSave"
      BY <1>2, <1>7 DEF ReadRun, tables
    <2>4. {"skipEnd", "skipSave", "persist", "metaSave"} \subseteq InRecord
          /\ {"skipEnd", "skipSave", "metaSave"} \cap AfterPersist = {}
      BY DEF InRecord, Busy, Skipping, InTry, AfterPersist
    <2>5. \A t \in Stages :
             /\ "skipEnd" \notin Opened(t) \union Passed(t)
             /\ "skipSave" \notin Opened(t) \union Passed(t)
             /\ "persist" \notin Opened(t) /\ "metaSave" \notin Opened(t)
             /\ "persist" \in Passed(t) => "metaRead" \in Passed(t)
             /\ "metaSave" \in Passed(t) => "metaRead" \in Passed(t)
      BY DEF Stages, Opened, Passed, AfterPersist, InTry
    <2>6. CASE pc[d] = "skipRead"
      <3>1. PICK next \in {"skipEnd", "skipSave"} :
               /\ pc'[d] = next
               /\ next = "skipSave" => row'[d].status = "running"
               /\ next = "skipEnd" => runs[Job(d)].status = "absent"
        BY <2>2, <2>3, <2>6
      <3> QED
        BY <1>3, <2>1, <2>3, <2>4, <2>5, <3>1
    <2>7. CASE pc[d] = "metaRead"
      <3>1. PICK next \in {"persist", "metaSave"} :
               /\ pc'[d] = next
               /\ next = "metaSave" => row'[d].status = "running"
               /\ next = "persist" => runs[Job(d)].status = "absent"
        BY <2>2, <2>3, <2>7
      <3> QED
        BY <1>3, <2>1, <2>3, <2>4, <2>5, <2>7, <3>1
    <2> QED
      BY <2>1, <2>6, <2>7
  <1> QED
    BY <1>4, <1>5, <1>6, <1>7

\* The saving half of mergeMeta puts an open row back, with what it has to tell.
LEMMA WorkSaves ==
    ASSUME AdminInv, [Next]_vars, UNCHANGED adminVars, NEW d \in Deliveries, SaveRun(d)
    PROVE  Begun' /\ AllFit' /\ Shown'
  <1>1. Step(d)
    BY DEF Step
  <1>2. pc[d] \in {"skipSave", "metaSave"} /\ pc[d] \in InRecord \ {"catch"}
    BY DEF SaveRun, InRecord, Busy, Skipping, InTry
  <1>3. /\ Job(d) \in Jobs /\ Job(d)' = Job(d) /\ cut' = cut
        /\ RunFits(d) /\ StagesDone(d)
    BY <1>2, OpenRun DEF SaveRun, Job, adminVars
  <1>4. /\ row[d] \in RunRows /\ row[d].status = "running"
        /\ runs \in [Jobs -> RunRows]
        /\ pc[d] = "skipSave" => cause[d] \in Causes
        /\ pc[d] = "metaSave" => verdict[d] \in Verdicts
    BY <1>2, <1>3, AdminHandler DEF HandlerInv, HandlerTypes, ControlOK, RunFits, Skipping
  <1>5. /\ runs'[Job(d)].status = "running"
        /\ pc[d] = "skipSave" => runs'[Job(d)].causes # {}
        /\ pc[d] = "metaSave" => runs'[Job(d)].validation # None
    <2>1. CASE pc[d] = "skipSave"
      <3>1. runs'[Job(d)] = [row[d] EXCEPT !.causes = @ \union {cause[d]}]
        BY <1>3, <1>4, <2>1 DEF SaveRun
      <3> QED
        BY <1>4, <2>1, <3>1 DEF RunRows
    <2>2. CASE pc[d] = "metaSave"
      <3>1. runs'[Job(d)] = [row[d] EXCEPT !.validation = verdict[d]]
        BY <1>3, <1>4, <2>2 DEF SaveRun
      <3> QED
        BY <1>4, <2>2, <3>1, ConstantsAssumption DEF RunRows
    <2> QED
      BY <1>2, <2>1, <2>2
  <1>6. "skipEnd" \in Controls /\ "persist" \in Controls
    BY DEF Controls, Busy, Skipping, InTry
  <1>7. /\ pc[d] = "skipSave" => pc'[d] \in {"skipEnd", "catch", "failed"}
        /\ pc[d] = "metaSave" => pc'[d] \in {"persist", "catch", "failed"}
    BY <1>6, AdminHandler, GoToTarget DEF SaveRun, HandlerInv
  <1>8. RunFits(d)'
    BY <1>2, <1>3, <1>5, <1>7 DEF RunFits, AfterPersist
  <1>9. StagesDone(d)'
    <2>1. stages' = stages
      BY DEF SaveRun
    <2>2. \A s \in Stages :
             /\ pc'[d] \notin Opened(s)
             /\ pc'[d] \in Passed(s) => pc[d] \in Passed(s)
      BY <1>2, <1>7 DEF Stages, Opened, Passed, AfterPersist, InTry
    <2> QED
      BY <1>2, <1>3, <2>1, <2>2 DEF StagesDone
  <1>10. ASSUME NEW j \in Jobs, j = Job(d)
         PROVE  /\ Whole(j)' /\ Explained(j)'
                /\ runs'[j].status = "absent" => runs[j].status = "absent"
    BY <1>5, <1>10 DEF Whole, Explained
  <1> QED
    BY <1>1, <1>8, <1>9, <1>10, WorkFrame

\* Closing the run: what is shown as a success has all its stages and its verdict,
\* and what is shown as skipped its reason.
LEMMA WorkCloses ==
    ASSUME AdminInv, [Next]_vars, UNCHANGED adminVars, NEW d \in Deliveries,
           FinishSuccess(d) \/ FinishSkipped(d)
    PROVE  Begun' /\ AllFit' /\ Shown'
  <1>1. Step(d)
    BY DEF Step
  <1>2. PICK here \in {"finish", "skipEnd"}, status \in {"success", "skipped"} :
           /\ FinishRun(d, here, status)
           /\ here = "finish" <=> status = "success"
    BY DEF FinishSuccess, FinishSkipped
  <1>3. pc[d] = here /\ pc[d] \in InRecord \ {"catch"}
    BY <1>2 DEF FinishRun, InRecord, Busy, Skipping, InTry
  <1>4. /\ Job(d) \in Jobs /\ cut' = cut /\ stages' = stages
        /\ RunFits(d) /\ StagesDone(d)
        /\ runs[Job(d)].status = "absent" => Job(d) \in cut
    BY <1>2, <1>3, OpenRun DEF FinishRun, adminVars
  <1>5. /\ runs[Job(d)].status = "absent" => runs' = runs
        /\ runs[Job(d)].status # "absent" => runs'[Job(d)].status = status
        /\ runs'[Job(d)].causes = runs[Job(d)].causes
        /\ runs'[Job(d)].validation = runs[Job(d)].validation
    <2>1. runs' = finishRun(Job(d), status) /\ status \in RunStatus
      BY <1>2 DEF FinishRun, RunStatus
    <2>2. runs[Job(d)].status = "absent" => runs' = runs
      BY <2>1 DEF finishRun
    <2> QED
      BY <1>4, <2>1, <2>2, AdminHandler, ClosedRun DEF HandlerInv
  <1>6. ASSUME NEW j \in Jobs, j = Job(d)
        PROVE  /\ Whole(j)' /\ Explained(j)'
               /\ runs'[j].status = "absent" => runs[j].status = "absent"
    <2>1. runs'[j].status = "absent" => runs[j].status = "absent"
      BY <1>2, <1>5, <1>6
    <2>2. Explained(j)'
      <3>1. here = "finish" /\ runs[j].status # "absent" => runs[j].validation # None
        BY <1>3, <1>4, <1>6 DEF RunFits, AfterPersist
      <3>2. here = "skipEnd" /\ runs[j].status # "absent" => runs[j].causes # {}
        BY <1>3, <1>4, <1>6 DEF RunFits
      <3> QED
        BY <1>2, <1>5, <1>6, <3>1, <3>2 DEF Explained
    <2>3. Whole(j)'
      <3>1. SUFFICES ASSUME j \notin cut, runs'[j].status = "success", NEW s \in Stages
                     PROVE  stages[j][s] = "success"
        BY <1>4 DEF Whole
      <3>2. here = "finish"
        BY <1>2, <1>4, <1>5, <1>6, <3>1
      <3>3. "finish" \in Passed(s)
        BY DEF Stages, Passed, AfterPersist, InTry
      <3> QED
        BY <1>3, <1>4, <1>6, <3>1, <3>2, <3>3 DEF StagesDone
    <2> QED
      BY <2>1, <2>2, <2>3
  <1>7. CASE pc'[d] = "record"
    <2>1. RunFits(d)' /\ StagesDone(d)'
      BY <1>7 DEF RunFits, StagesDone, InRecord, AfterPersist
    <2> QED
      BY <1>1, <1>6, <2>1, WorkFrame
  <1>8. CASE Throw(d) /\ rec' = rec
    <2>1. pc'[d] \in {"catch", "failed"} /\ Job(d)' = Job(d)
      BY <1>8, AdminHandler, ThrowTarget DEF HandlerInv, Job
    <2>2. "failed" \notin InRecord
      BY DEF InRecord, Busy, BeforeTry, Skipping, InTry
    <2>3. RunFits(d)'
      BY <1>4, <1>6, <2>1, <2>2 DEF RunFits, AfterPersist
    <2>4. StagesDone(d)'
      BY <2>1, <2>2 DEF StagesDone, Stages, Opened, Passed, AfterPersist, InTry
    <2> QED
      BY <1>1, <1>6, <2>3, <2>4, WorkFrame
  <1>9. pc'[d] = "record" \/ (Throw(d) /\ rec' = rec)
    <2>1. pc \in [Deliveries -> Controls]
      BY AdminHandler DEF HandlerInv, HandlerTypes
    <2> QED
      BY <1>2, <2>1 DEF FinishRun
  <1> QED
    BY <1>7, <1>8, <1>9

\* The catch block, an exception on the way, and leaving the handler.
LEMMA WorkFails ==
    ASSUME AdminInv, [Next]_vars, UNCHANGED adminVars, NEW d \in Deliveries,
           FinishFailed(d) \/ ValidateRefused(d) \/ (CallFails(d) /\ pc[d] # "record")
    PROVE  Begun' /\ AllFit' /\ Shown'
  <1>1. /\ Step(d) \/ CallFails(d)
        /\ pc[d] \in InRecord
        /\ "failed" \notin InRecord
    BY DEF Step, FinishFailed, ValidateRefused, CallFails, InRecord, Busy, BeforeTry,
           Skipping, InTry
  <1>2. /\ Job(d) \in Jobs /\ cut' = cut
        /\ runs[Job(d)].status = "absent" => Job(d) \in cut
    BY <1>1, OpenRun DEF adminVars
  <1>3. pc'[d] \in {"catch", "failed"} /\ rec' = rec /\ stages' = stages
    <2>1. CASE FinishFailed(d)
      BY <2>1, AdminHandler DEF FinishFailed, locals, HandlerInv, HandlerTypes
    <2>2. CASE ValidateRefused(d) \/ CallFails(d)
      BY <2>2, AdminHandler, ThrowTarget DEF ValidateRefused, CallFails, locals, tables, HandlerInv
    <2> QED
      BY <2>1, <2>2
  <1>4. \/ runs' = runs
        \/ /\ runs'[Job(d)].status \in {"absent", "failed"}
           /\ runs'[Job(d)].status = "absent" => runs[Job(d)].status = "absent"
    <2>1. CASE FinishFailed(d)
      <3>1. runs' = finishRun(Job(d), "failed") /\ "failed" \in RunStatus
        BY <2>1 DEF FinishFailed, RunStatus
      <3>2. runs[Job(d)].status = "absent" => runs' = runs
        BY <3>1 DEF finishRun
      <3>3. runs[Job(d)].status # "absent" => runs'[Job(d)].status = "failed"
        BY <1>2, <3>1, AdminHandler, ClosedRun DEF HandlerInv
      <3> QED
        BY <3>2, <3>3
    <2>2. CASE ValidateRefused(d) \/ CallFails(d)
      BY <2>2 DEF ValidateRefused, CallFails, tables
    <2> QED
      BY <2>1, <2>2
  <1>5. ASSUME NEW j \in Jobs, j = Job(d)
        PROVE  /\ Whole(j)' /\ Explained(j)'
               /\ runs'[j].status = "absent" => runs[j].status = "absent"
    <2>1. Whole(j) /\ Explained(j)
      BY DEF AdminInv, Shown, ShownSuccessIsWhole, ShownOutcomeIsExplained, Whole, Explained
    <2> QED
      BY <1>2, <1>3, <1>4, <1>5, <2>1 DEF Whole, Explained
  <1>6. Job(d)' = Job(d)
    BY <1>3 DEF Job
  <1>7. RunFits(d)'
    BY <1>1, <1>2, <1>3, <1>5, <1>6 DEF RunFits, AfterPersist
  <1>8. StagesDone(d)'
    BY <1>1, <1>3 DEF StagesDone, Stages, Opened, Passed, AfterPersist, InTry
  <1> QED
    BY <1>1, <1>5, <1>7, <1>8, WorkFrame

\* A new run is open, and none of its stages is asked for yet.
LEMMA WorkCreates ==
    ASSUME AdminInv, [Next]_vars, UNCHANGED adminVars, NEW d \in Deliveries, CreateRun(d)
    PROVE  Begun' /\ AllFit' /\ Shown'
  <1>1. Step(d)
    BY DEF Step
  <1>2. /\ pc[d] = "record" /\ rec' = rec /\ runs' = createRun(Job(d))
        /\ GoTo(d, "dedup") /\ OnError(d) = "failed"
    BY DEF CreateRun, locals, OnError, InTry, Skipping
  <1>3. pc'[d] \in {"dedup", "failed"}
    <2>1. pc \in [Deliveries -> Controls]
      BY AdminHandler DEF HandlerInv, HandlerTypes
    <2> QED
      BY <1>2, <2>1 DEF GoTo, Throw
  <1>4. Job(d) \in Jobs => runs'[Job(d)].status = "running"
    BY <1>2, AdminHandler DEF createRun, HandlerInv, HandlerTypes
  <1>5. Job(d) \in Jobs
    <2>1. msg[d] \in Messages /\ rec[d] \in 1 .. Len(Records[msg[d]]) + 1
      BY <1>2, AdminHandler DEF HandlerInv, ControlOK
    <2>2. rec[d] <= Len(Records[msg[d]]) /\ Len(Records[msg[d]]) <= MaxRecords
      BY <2>1, ConstantsAssumption DEF CreateRun
    <2> QED
      BY <2>1, <2>2, ConstantsAssumption DEF Job, Jobs
  <1>6. Job(d)' = Job(d)
    BY <1>2 DEF Job
  <1>7. RunFits(d)'
    BY <1>3, <1>4, <1>5, <1>6 DEF RunFits, AfterPersist, InRecord, Busy, BeforeTry, Skipping, InTry
  <1>8. StagesDone(d)'
    BY <1>3 DEF StagesDone, Stages, Opened, Passed, AfterPersist, InTry
  <1>9. ASSUME NEW j \in Jobs, j = Job(d)
        PROVE  /\ Whole(j)' /\ Explained(j)'
               /\ runs'[j].status = "absent" => runs[j].status = "absent"
    BY <1>4, <1>9 DEF Whole, Explained
  <1> QED
    BY <1>1, <1>7, <1>8, <1>9, WorkFrame

\* What touches no table and moves handlers only to where no record is in work.
LEMMA WorkIdle ==
    ASSUME AdminInv, [Next]_vars, UNCHANGED adminVars, UNCHANGED tables,
           \A e \in Deliveries :
               \/ pc'[e] = pc[e] /\ rec'[e] = rec[e] /\ row'[e] = row[e]
               \/ pc'[e] \notin InRecord
    PROVE  Begun' /\ AllFit' /\ Shown'
  <1>1. /\ erased' = erased /\ cut' = cut /\ seenJobs' = seenJobs
        /\ runs' = runs /\ stages' = stages /\ expenses' = expenses
    BY DEF adminVars, tables
  <1>2. \A j \in Jobs : /\ Started(j) => Started(j)'
                        /\ Behind(j) => Behind(j)'
    BY AdminHandler, WorkProgress
  <1>3. erased \subseteq Jobs /\ \A p \in Processes : seenJobs[p] \subseteq Jobs
    BY DEF AdminInv, AdminTypeOK
  <1>4. Begun'
    BY <1>1, <1>2, <1>3 DEF AdminInv, Begun
  <1>5. ASSUME NEW e \in Deliveries
        PROVE  RunFits(e)' /\ StagesDone(e)'
    <2>1. CASE pc'[e] \notin InRecord
      BY <2>1 DEF RunFits, StagesDone, AfterPersist, InRecord, Busy, Skipping, InTry
    <2>2. CASE pc'[e] = pc[e] /\ rec'[e] = rec[e] /\ row'[e] = row[e]
      <3>1. RunFits(e) /\ StagesDone(e) /\ Job(e)' = Job(e)
        BY <2>2 DEF AdminInv, AllFit, Job
      <3> QED
        BY <1>1, <2>2, <3>1 DEF RunFits, StagesDone
    <2> QED
      BY <2>1, <2>2
  <1>6. Shown'
    BY <1>1 DEF AdminInv, Shown, ErasedAtRestStaysErased, ShownSuccessIsWhole,
                ShownOutcomeIsExplained, NoDanglingJob
  <1> QED
    BY <1>4, <1>5, <1>6 DEF AllFit

\* Whatever the worker does.
LEMMA WorkKeeps ==
    ASSUME AdminInv, [Next]_vars, UNCHANGED adminVars
    PROVE  Begun' /\ AllFit' /\ Shown'
  <1>1. /\ pc \in [Deliveries -> Controls]
        /\ "failed" \notin InRecord /\ "dead" \notin InRecord /\ "done" \notin InRecord
        /\ "record" \notin InRecord
    BY AdminHandler
       DEF HandlerInv, HandlerTypes, InRecord, Busy, BeforeTry, Skipping, InTry
  <1>2. ASSUME NEW d \in Deliveries, EndBatch(d) \/ RejectRecord(d)
        PROVE  Begun' /\ AllFit' /\ Shown'
    <2>1. UNCHANGED tables /\ rec' = rec /\ row' = row /\ pc'[d] \in {"done", "failed"}
          /\ \A e \in Deliveries : e # d => pc'[e] = pc[e]
      BY <1>1, <1>2 DEF EndBatch, RejectRecord, locals
    <2> QED
      BY <1>1, <2>1, WorkIdle
  <1>3. ASSUME NEW d \in Deliveries, CallFails(d)
        PROVE  Begun' /\ AllFit' /\ Shown'
    <2>1. CASE pc[d] = "record"
      <3>1. UNCHANGED tables /\ rec' = rec /\ row' = row /\ pc'[d] = "failed"
            /\ \A e \in Deliveries : e # d => pc'[e] = pc[e]
        BY <1>1, <1>3, <2>1 DEF CallFails, Throw, OnError, InTry, Skipping, locals
      <3> QED
        BY <1>1, <3>1, WorkIdle
    <2>2. CASE pc[d] # "record"
      BY <1>3, <2>2, WorkFails
    <2> QED
      BY <2>1, <2>2
  <1>4. ASSUME NEW d \in Deliveries, Step(d)
        PROVE  Begun' /\ AllFit' /\ Shown'
    BY <1>2, <1>4, WorkCreates, WorkPipeline, WorkChecks, WorkSaves, WorkCloses, WorkFails
       DEF Step
  <1>5. ASSUME NEW d \in Deliveries, NEW m \in Messages, Receive(d, m)
        PROVE  Begun' /\ AllFit' /\ Shown'
    <2>1. UNCHANGED tables /\ row' = row /\ pc'[d] = "record"
          /\ \A e \in Deliveries : e # d => pc'[e] = pc[e] /\ rec'[e] = rec[e]
      BY <1>1, <1>5, AdminHandler DEF Receive, HandlerInv, HandlerTypes
    <2> QED
      BY <1>1, <2>1, WorkIdle
  <1>6. CASE Crash
    <2>1. UNCHANGED tables /\ rec' = rec /\ row' = row
          /\ \A e \in Deliveries : pc'[e] = pc[e] \/ pc'[e] = "dead"
      BY <1>6 DEF Crash, locals
    <2> QED
      BY <1>1, <2>1, WorkIdle
  <1>7. ASSUME UNCHANGED <<tables, pc, locals>> PROVE Begun' /\ AllFit' /\ Shown'
    BY <1>7, WorkIdle DEF locals
  <1>8. ASSUME NEW m \in Messages, Publish(m) \/ Lose(m) PROVE UNCHANGED <<tables, pc, locals>>
    BY <1>8 DEF Publish, Lose
  <1>9. ASSUME NEW k \in keys, Expire(k) PROVE UNCHANGED <<tables, pc, locals>>
    BY <1>9 DEF Expire
  <1>10. CASE UNCHANGED vars
    BY <1>7, <1>10 DEF vars, tables, locals
  <1> QED
    BY <1>3, <1>4, <1>5, <1>6, <1>7, <1>8, <1>9, <1>10 DEF Next, Environment

\* Only the rows have another type here: their job may have been taken away.
LEMMA WorkTypes ==
    ASSUME AdminInv, [Next]_vars, UNCHANGED adminVars
    PROVE  ControlOK' /\ AdminTypeOK'
  <1>1. HandlerInv'
    BY AdminHandler, NextTypes
  <1> DEFINE Rows == {None} \union
                        [job : Jobs \union {None}, fp : Fingerprints, status : Verdicts]
  <1>2. expenses \in [ExpenseIds -> Rows]
    BY DEF AdminInv, AdminTypeOK
  <1>3. expenses' \in [ExpenseIds -> Rows]
    <2>1. ASSUME NEW d \in Deliveries, Upsert(d) PROVE expenses' \in [ExpenseIds -> Rows]
      <3>1. pc[d] = "upsert" /\ pc[d] \in InRecord
        BY <2>1 DEF Upsert, InRecord, Busy, InTry
      <3>2. Job(d) \in Jobs /\ Fp(d) \in Fingerprints /\ verdict[d] \in Verdicts
        BY <3>1, AdminHandler, RecordTypes DEF HandlerInv, ControlOK
      <3> QED
        BY <1>2, <2>1, <3>2 DEF Upsert, upsertFromEvent
    <2>2. (\A d \in Deliveries : ~Upsert(d)) => expenses' = expenses
      <3>1. ASSUME NEW d \in Deliveries, Step(d) \/ CallFails(d), ~Upsert(d)
            PROVE  expenses' = expenses
        BY <3>1, AdminHandler, OwnStep
      <3> QED
        BY <3>1 DEF Next, Environment, Receive, Publish, Lose, Expire, Crash, tables, vars
    <2> QED
      BY <1>2, <2>1, <2>2
  <1> QED
    BY <1>1, <1>3 DEF AdminInv, AdminTypeOK, HandlerInv, adminVars

-----------------------------------------------------------------------------
(* The deletions *)

LEMMA BatchIdTypes == \A p \in Processes : BatchIds(p) \subseteq ExpenseIds
  <1> SUFFICES ASSUME NEW p \in Processes, NEW m \in Messages, NEW i \in DOMAIN Records[m],
                      Records[m][i] # Malformed
               PROVE  IdOf[Records[m][i]] \in ExpenseIds
    BY DEF BatchIds
  <1>1. Records[m][i] \in Events \union {Malformed}
    BY ConstantsAssumption
  <1> QED
    BY <1>1, ConstantsAssumption

\* A job that is deleted has been created; when no handler is at work on it, the
\* handler it had will not come back to it.
LEMMA AtRestIsBehind ==
    ASSUME NEW j, Started(j), j \notin InFlight({j})
    PROVE  Behind(j)
  BY DEF Started, Behind, InFlight, InRecord

\* The commit: whatever it takes away was created, and no row is left that names it.
LEMMA EraseKeeps ==
    ASSUME AdminInv, NEW js \in SUBSET Jobs, \A j \in js : Started(j),
           EraseJobs(js), UNCHANGED <<pc, locals, seenJobs>>,
           \A x \in ExpenseIds :
               \/ expenses'[x] = None
               \/ expenses'[x].job = None
               \/ expenses'[x] = expenses[x] /\ expenses[x].job \notin js
    PROVE  Begun' /\ AllFit' /\ Shown'
  <1>1. /\ \A j \in js : runs'[j] = AbsentRun /\ \A s \in Stages : stages'[j][s] = "absent"
        /\ \A j \in Jobs \ js : runs'[j] = runs[j] /\ stages'[j] = stages[j]
        /\ erased' = erased \union js
        /\ cut' = cut \union InFlight(js)
        /\ erased \subseteq Jobs /\ cut \subseteq erased
        /\ AbsentRun.status = "absent"
    BY DEF EraseJobs, AdminInv, AdminTypeOK, AbsentRun
  <1>2. pc' = pc /\ rec' = rec /\ row' = row /\ msg' = msg
    BY DEF locals
  <1>3. \A j : (Started(j)' <=> Started(j)) /\ (Behind(j)' <=> Behind(j))
    BY <1>2 DEF Started, Behind
  <1>4. \A j \in js : j \notin cut' => Behind(j)
    BY <1>1, AtRestIsBehind DEF InFlight
  <1>5. Begun'
    <2>1. \A j \in Jobs : runs'[j].status # "absent" => Started(j)
      BY <1>1 DEF AdminInv, Begun
    <2>2. \A p \in Processes : \A j \in seenJobs'[p] : Started(j)
      BY DEF AdminInv, Begun
    <2>3. \A j \in erased' \ cut' : Behind(j)
      BY <1>1, <1>4 DEF AdminInv, Begun
    <2> QED
      BY <1>3, <2>1, <2>2, <2>3 DEF Begun
  <1>6. ASSUME NEW d \in Deliveries
        PROVE  RunFits(d)' /\ StagesDone(d)'
    <2>1. RunFits(d) /\ StagesDone(d) /\ Job(d)' = Job(d)
      BY <1>2 DEF AdminInv, AllFit, Job
    <2>2. CASE pc[d] \notin InRecord
      BY <1>2, <2>2
         DEF RunFits, StagesDone, AfterPersist, InRecord, Busy, Skipping, InTry
    <2>3. CASE pc[d] \in InRecord /\ Job(d) \in js
      <3>1. Job(d) \in cut'
        BY <1>1, <2>3 DEF InFlight, InRecord, Job
      <3>2. runs'[Job(d)].status = "absent"
        BY <1>1, <2>3
      <3> QED
        BY <1>2, <2>1, <3>1, <3>2 DEF RunFits, StagesDone
    <2>4. CASE pc[d] \in InRecord /\ Job(d) \notin js
      <3>1. Job(d) \in Jobs
        BY <2>4, AdminHandler, RecordTypes
      <3>2. runs'[Job(d)] = runs[Job(d)] /\ stages'[Job(d)] = stages[Job(d)]
        BY <1>1, <2>4, <3>1
      <3> QED
        BY <1>1, <1>2, <2>1, <2>4, <3>2 DEF RunFits, StagesDone
    <2> QED
      BY <2>2, <2>3, <2>4
  <1>7. ErasedAtRestStaysErased'
    <2>1. SUFFICES ASSUME NEW j \in erased' \ cut'
                   PROVE  /\ runs'[j] = AbsentRun
                          /\ \A s \in Stages : stages'[j][s] = "absent"
                          /\ \A x \in ExpenseIds : expenses'[x] # None => expenses'[x].job # j
      BY DEF ErasedAtRestStaysErased
    <2>2. j \in Jobs /\ j # None
      BY <1>1, AdminAssumption
    <2>3. CASE j \in js
      BY <1>1, <2>2, <2>3
    <2>4. CASE j \notin js
      BY <1>1, <2>2, <2>4 DEF AdminInv, Shown, ErasedAtRestStaysErased
    <2> QED
      BY <2>3, <2>4
  <1>8. ShownSuccessIsWhole'
    BY <1>1 DEF AdminInv, Shown, ShownSuccessIsWhole
  <1>9. ShownOutcomeIsExplained'
    BY <1>1 DEF AdminInv, Shown, ShownOutcomeIsExplained
  <1>10. NoDanglingJob'
    <2>1. SUFFICES ASSUME NEW x \in ExpenseIds, expenses'[x] # None,
                          expenses'[x].job # None,
                          runs'[expenses'[x].job].status = "absent"
                   PROVE  expenses'[x].job \in cut'
      BY DEF NoDanglingJob
    <2>2. expenses'[x] = expenses[x] /\ expenses[x].job \in Jobs \ js
      BY <2>1 DEF AdminInv, AdminTypeOK
    <2> QED
      BY <1>1, <2>1, <2>2 DEF AdminInv, Shown, NoDanglingJob
  <1> QED
    BY <1>5, <1>6, <1>7, <1>8, <1>9, <1>10 DEF AllFit, Shown

\* What is left of the rows after a commit.
LEMMA RowsLeft ==
    ASSUME AdminInv, NEW js \in SUBSET Jobs, NEW ids, NEW x \in ExpenseIds
    PROVE  /\ \/ Detach(js)[x] = None
              \/ Detach(js)[x].job = None
              \/ Detach(js)[x] = expenses[x] /\ expenses[x].job \notin js
           /\ \/ Remove(js, ids)[x] = None
              \/ Remove(js, ids)[x] = expenses[x] /\ expenses[x].job \notin js
           /\ Detach(js)[x] \in {None} \union
                 [job : Jobs \union {None}, fp : Fingerprints, status : Verdicts]
           /\ Remove(js, ids)[x] \in {None, expenses[x]}
  BY DEF Detach, Remove, AdminInv, AdminTypeOK

LEMMA RowTypesLeft ==
    ASSUME AdminInv, NEW js \in SUBSET Jobs, NEW ids,
           expenses' = Detach(js) \/ expenses' = Remove(js, ids)
    PROVE  expenses' \in [ExpenseIds -> {None} \union
              [job : Jobs \union {None}, fp : Fingerprints, status : Verdicts]]
  <1>1. expenses \in [ExpenseIds -> {None} \union
            [job : Jobs \union {None}, fp : Fingerprints, status : Verdicts]]
    BY DEF AdminInv, AdminTypeOK
  <1>2. CASE expenses' = Detach(js)
    BY <1>2, RowsLeft DEF Detach
  <1>3. CASE expenses' = Remove(js, ids)
    BY <1>1, <1>3, RowsLeft DEF Remove
  <1> QED
    BY <1>2, <1>3

\* Handlers do not notice a deletion.
LEMMA ControlUnmoved ==
    ASSUME ControlOK, UNCHANGED <<pc, locals>>
    PROVE  ControlOK'
  BY DEF ControlOK, Record, locals

\* A deletion that only looks, gives up or purges keys.
LEMMA LookKeeps ==
    ASSUME AdminInv, NEW p \in Processes,
           (\E isHard \in BOOLEAN : FindJobs(p, isHard)) \/ Rollback(p) \/ Purge(p)
    PROVE  AdminInv'
  <1>1. /\ UNCHANGED <<tables, pc, locals, faults, raced, broker, erased, cut, files>>
        /\ keys' \subseteq keys
    BY DEF FindJobs, Rollback, Purge, vars, tables, locals, broker
  <1>2. seenJobs' \in [Processes -> SUBSET Jobs] /\ seenIds' \in [Processes -> SUBSET ExpenseIds]
        /\ \A q \in Processes : seenJobs'[q] \subseteq seenJobs[q] \union JobsOf(q)
    <2>1. /\ seenJobs \in [Processes -> SUBSET Jobs] /\ seenIds \in [Processes -> SUBSET ExpenseIds]
          /\ JobsOf(p) \subseteq Jobs /\ BatchIds(p) \subseteq ExpenseIds
      BY BatchIdTypes DEF AdminInv, AdminTypeOK, JobsOf
    <2> QED
      BY <2>1 DEF FindJobs, Rollback, Purge
  <1>3. Begun'
    <2>1. \A q \in Processes : \A j \in JobsOf(q) : Started(j)
      BY DEF JobsOf, AdminInv, Begun
    <2>2. \A q \in Processes : \A j \in seenJobs[q] : Started(j)
      BY DEF AdminInv, Begun
    <2>3. \A j : (Started(j)' <=> Started(j)) /\ (Behind(j)' <=> Behind(j))
      BY <1>1 DEF Started, Behind, locals
    <2>4. \A q \in Processes : \A j \in seenJobs'[q] : Started(j)
      BY <1>2, <2>1, <2>2
    <2> QED
      BY <1>1, <2>3, <2>4 DEF AdminInv, Begun, tables
  <1>4. AllFit' /\ Shown'
    BY <1>1 DEF AdminInv, AllFit, RunFits, StagesDone, Job, tables, locals, Shown,
                ErasedAtRestStaysErased, ShownSuccessIsWhole, ShownOutcomeIsExplained,
                NoDanglingJob
  <1>5. ControlOK'
    BY <1>1, ControlUnmoved DEF AdminInv
  <1>6. HandlerTypes'
    BY <1>1 DEF AdminInv, AdminTypeOK, HandlerTypes, tables, locals, broker
  <1>7. /\ deleting' \in [Processes -> {"no", "found", "committed", "purged"}]
        /\ hard' \in [Processes -> BOOLEAN]
        /\ requests' \in 0 .. MaxDeletions
    BY AdminAssumption DEF AdminInv, AdminTypeOK, FindJobs, Rollback, Purge, Request
  <1> QED
    BY <1>1, <1>2, <1>3, <1>4, <1>5, <1>6, <1>7 DEF AdminInv, AdminTypeOK, tables

\* A commit takes away the jobs that were read, or the one that is asked for.
LEMMA CommitKeeps ==
    ASSUME AdminInv,
           (\E p \in Processes : Commit(p)) \/ (\E j \in Jobs : DeleteJob(j))
    PROVE  AdminInv'
  <1>1. PICK js \in SUBSET Jobs, ids \in SUBSET ExpenseIds :
           /\ \A j \in js : Started(j)
           /\ EraseJobs(js)
           /\ expenses' = Detach(js) \/ expenses' = Remove(js, ids)
    <2>1. ASSUME NEW p \in Processes, Commit(p)
          PROVE  /\ seenJobs[p] \subseteq Jobs /\ seenIds[p] \subseteq ExpenseIds
                 /\ \A j \in seenJobs[p] : Started(j)
                 /\ EraseJobs(seenJobs[p])
                 /\ \/ expenses' = Detach(seenJobs[p])
                    \/ expenses' = Remove(seenJobs[p], seenIds[p])
      BY <2>1 DEF Commit, AdminInv, AdminTypeOK, Begun
    <2>2. ASSUME NEW j \in Jobs, DeleteJob(j)
          PROVE  {j} \subseteq Jobs /\ Started(j) /\ EraseJobs({j}) /\ expenses' = Detach({j})
      BY <2>2 DEF DeleteJob, AdminInv, Begun
    <2> QED
      BY <2>1, <2>2
  <1>2. UNCHANGED <<pc, locals, faults, raced, broker, keys, hard, seenJobs, seenIds>>
    BY DEF Commit, DeleteJob
  <1>3. \A x \in ExpenseIds :
           \/ expenses'[x] = None
           \/ expenses'[x].job = None
           \/ expenses'[x] = expenses[x] /\ expenses[x].job \notin js
    BY <1>1, RowsLeft
  <1>4. Begun' /\ AllFit' /\ Shown'
    BY <1>1, <1>2, <1>3, EraseKeeps
  <1>5. ControlOK'
    BY <1>2, ControlUnmoved DEF AdminInv
  <1>6. runs' \in [Jobs -> RunRows] /\ stages' \in [Jobs -> [Stages -> StageStatus]]
    <2>1. /\ AbsentRun \in RunRows /\ "absent" \in StageStatus
          /\ runs \in [Jobs -> RunRows] /\ stages \in [Jobs -> [Stages -> StageStatus]]
      BY DEF AbsentRun, RunRows, RunStatus, StageStatus, AdminInv, AdminTypeOK, HandlerTypes
    <2> QED
      BY <1>1, <2>1 DEF EraseJobs
  <1>7. HandlerTypes'
    BY <1>2, <1>6 DEF AdminInv, AdminTypeOK, HandlerTypes, locals, broker
  <1>8. expenses' \in [ExpenseIds -> {None} \union
           [job : Jobs \union {None}, fp : Fingerprints, status : Verdicts]]
    BY <1>1, RowTypesLeft
  <1>9. erased' \subseteq Jobs /\ cut' \subseteq erased'
    BY <1>1 DEF EraseJobs, InFlight, AdminInv, AdminTypeOK
  <1>10. /\ files' \subseteq Processes \ {NoProcess}
         /\ deleting' \in [Processes -> {"no", "found", "committed", "purged"}]
         /\ requests' \in 0 .. MaxDeletions
    <2>1. /\ files \subseteq Processes \ {NoProcess}
          /\ deleting \in [Processes -> {"no", "found", "committed", "purged"}]
          /\ requests \in 0 .. MaxDeletions /\ MaxDeletions \in Nat
      BY AdminAssumption DEF AdminInv, AdminTypeOK
    <2>2. ASSUME NEW p \in Processes, Commit(p)
          PROVE  /\ files' = files \ {p} /\ requests' = requests
                 /\ deleting' = [deleting EXCEPT ![p] = "committed"]
      BY <2>2 DEF Commit
    <2>3. ASSUME NEW j \in Jobs, DeleteJob(j)
          PROVE  /\ files' = files /\ deleting' = deleting
                 /\ requests < MaxDeletions /\ requests' = requests + 1
      BY <2>3 DEF DeleteJob, Request
    <2> QED
      BY <2>1, <2>2, <2>3
  <1> QED
    BY <1>2, <1>4, <1>5, <1>7, <1>8, <1>9, <1>10 DEF AdminInv, AdminTypeOK

-----------------------------------------------------------------------------
LEMMA AdminInitially == AdminInit => AdminInv
  <1> SUFFICES ASSUME AdminInit PROVE AdminInv
    OBVIOUS
  <1>1. ControlOK /\ HandlerTypes
    BY InitTypes DEF AdminInit, HandlerInv
  <1>2. AdminTypeOK
    BY <1>1, AdminAssumption DEF AdminInit, Init, AdminTypeOK
  <1>3. Begun
    BY DEF AdminInit, Init, Begun, AbsentRun
  <1>4. AllFit
    BY DEF AdminInit, Init, AllFit, RunFits, StagesDone, AfterPersist, InRecord, Busy,
           BeforeTry, Skipping, InTry
  <1>5. Shown
    BY DEF AdminInit, Init, Shown, ErasedAtRestStaysErased, ShownSuccessIsWhole,
           ShownOutcomeIsExplained, NoDanglingJob, AbsentRun
  <1> QED
    BY <1>1, <1>2, <1>3, <1>4, <1>5 DEF AdminInv

LEMMA AdminStep == AdminInv /\ [AdminNext]_<<vars, adminVars>> => AdminInv'
  <1> SUFFICES ASSUME AdminInv, [AdminNext]_<<vars, adminVars>> PROVE AdminInv'
    OBVIOUS
  <1>1. ASSUME [Next]_vars, UNCHANGED adminVars PROVE AdminInv'
    BY <1>1, WorkKeeps, WorkTypes DEF AdminInv
  <1>2. CASE Admin
    BY <1>2, LookKeeps, CommitKeeps DEF Admin
  <1> QED
    BY <1>1, <1>2 DEF AdminNext

THEOREM DeletionsHold == AdminSpec => []AdminInv
  <1> QED
    BY AdminInitially, AdminStep, PTL DEF AdminSpec

\* Every variable keeps its type beside the deletions, for any requests, however many
\* handlers are at work.
THEOREM AdminTypesHold == AdminSpec => []AdminTypeOK
  <1>1. AdminInv => AdminTypeOK
    BY DEF AdminInv
  <1> QED
    BY <1>1, DeletionsHold, PTL

\* A job deleted while no handler was working on it is gone for good: neither what the
\* transaction of deleteProcess read before its commit nor the whole-row save of
\* mergeMeta brings a run, a stage or a reference of it back.
THEOREM DeletedIsDeleted == AdminSpec => []ErasedAtRestStaysErased
  <1>1. AdminInv => ErasedAtRestStaysErased
    BY DEF AdminInv, Shown
  <1> QED
    BY <1>1, DeletionsHold, PTL

\* Whoever deletes what meanwhile, a job that is shown as successful and was not cut
\* off has all its stages.
THEOREM SuccessIsShownWhole == AdminSpec => []ShownSuccessIsWhole
  <1>1. AdminInv => ShownSuccessIsWhole
    BY DEF AdminInv, Shown
  <1> QED
    BY <1>1, DeletionsHold, PTL

\* A job shown as successful has its verdict in its meta and one shown as skipped its
\* reason, also when mergeMeta has put a deleted row back.
THEOREM OutcomeIsShownExplained == AdminSpec => []ShownOutcomeIsExplained
  <1>1. AdminInv => ShownOutcomeIsExplained
    BY DEF AdminInv, Shown
  <1> QED
    BY <1>1, DeletionsHold, PTL

\* An expense points at a job that is gone only if that job was cut off at work.
THEOREM DanglingWasCut == AdminSpec => []NoDanglingJob
  <1>1. AdminInv => NoDanglingJob
    BY DEF AdminInv, Shown
  <1> QED
    BY <1>1, DeletionsHold, PTL

=============================================================================
