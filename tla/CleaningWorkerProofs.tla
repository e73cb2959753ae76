------------------------ MODULE CleaningWorkerProofs ------------------------
(***************************************************************************)
(* Theorems about the worker for any number of deliveries, messages,       *)
(* records, faults and expiries, on either transport: its types, its       *)
(* duplicates, its batches, what each stage of processExpense leaves       *)
(* behind, and that it keeps the promise of JobLedger.                     *)
(***************************************************************************)
EXTENDS WorkerRefinement, TLAPS

InRecord == Busy \ {"record"}

\* Where a delivery stands: it has a message and a record number inside it, and
\* while it works on a record that record is a parsed event.
ControlOK ==
    \A d \in Deliveries :
        /\ pc[d] = "idle" => rec[d] = 0
        /\ pc[d] # "idle" => /\ msg[d] \in Messages
                             /\ rec[d] \in 1 .. Len(Records[msg[d]]) + 1
        /\ pc[d] = "done" => rec[d] = Len(Records[msg[d]]) + 1
        /\ pc[d] \in InRecord => /\ rec[d] <= Len(Records[msg[d]])
                                 /\ Record(d) \in Events
        /\ pc[d] \in {"metaRead", "metaSave", "persist", "upsert"} =>
              verdict[d] \in Verdicts
        /\ pc[d] \in {"skipStage"} \union Skipping => cause[d] \in Causes

HandlerInv == HandlerTypes /\ ControlOK
TypeInv == TypeOK /\ ControlOK

\* Two jobs between their check and their write raced.
WindowsRaced ==
    \A d, e \in Deliveries :
        d # e /\ pc[d] \in Window /\ pc[e] \in Window =>
            <<Job(d), Job(e)>> \in raced \/ <<Job(e), Job(d)>> \in raced

\* A row that appeared after a job's duplicate check belongs to another delivery,
\* and to a job that raced with it.
LateRowsRaced ==
    \A d \in Deliveries, x \in ExpenseIds :
        (pc[d] \in Window /\ expenses[x] # None /\ expenses[x].fp = Fp(d)) =>
            /\ expenses[x].job[1] # d
            /\ \/ <<Job(d), expenses[x].job>> \in raced
               \/ <<expenses[x].job, Job(d)>> \in raced

DedupInv == WindowsRaced /\ LateRowsRaced /\ DuplicatesRaced /\ OneRowPerDelivery

\* The run of the current record is not there before it is created and open
\* afterwards, and so is the copy mergeMeta holds.
RunOpen ==
    \A d \in Deliveries :
        /\ pc[d] = "record" /\ rec[d] <= MaxRecords => runs[Job(d)].status = "absent"
        /\ pc[d] \in InRecord \ {"catch"} => runs[Job(d)].status = "running"
        /\ pc[d] \in {"metaSave", "skipSave"} => row[d].status = "running"

BatchInv == RunOpen /\ SequentialBatch

-----------------------------------------------------------------------------
(* Control *)

\* An exception leads to the catch block or out of the handler.
LEMMA ThrowTarget ==
    ASSUME HandlerTypes, NEW d \in Deliveries, Throw(d)
    PROVE  /\ pc' \in [Deliveries -> Controls]
           /\ pc'[d] \in {"catch", "failed"}
           /\ \A e \in Deliveries : e # d => pc'[e] = pc[e]
  BY DEF HandlerTypes, Throw, OnError, Controls, Busy, Ended

\* A call moves its own delivery only, to the next control point or to where an
\* exception goes.
LEMMA GoToTarget ==
    ASSUME HandlerTypes, NEW d \in Deliveries, NEW next \in Controls, GoTo(d, next)
    PROVE  /\ pc' \in [Deliveries -> Controls]
           /\ faults' \in 0 .. MaxFaults
           /\ pc'[d] \in {next, "catch", "failed"}
           /\ \A e \in Deliveries : e # d => pc'[e] = pc[e]
  <1>1. CASE pc' = [pc EXCEPT ![d] = next] /\ UNCHANGED faults
    BY <1>1 DEF HandlerTypes
  <1>2. CASE faults < MaxFaults /\ faults' = faults + 1 /\ Throw(d)
    BY <1>2, ThrowTarget, ConstantsAssumption DEF HandlerTypes
  <1>3. QED
    BY <1>1, <1>2 DEF GoTo

\* While a delivery works on a record, its job, fingerprint and key are of the
\* right kind.
LEMMA RecordTypes ==
    ASSUME HandlerInv, NEW d \in Deliveries, pc[d] \in InRecord
    PROVE  /\ Job(d) \in Jobs
           /\ Record(d) \in Events
           /\ Fp(d) \in Fingerprints
           /\ IdOf[Record(d)] \in ExpenseIds
           /\ DedupKey(d) \in Keys
  <1>1. /\ msg[d] \in Messages
        /\ rec[d] \in 1 .. Len(Records[msg[d]])
        /\ Record(d) \in Events
    BY ConstantsAssumption DEF HandlerInv, ControlOK, InRecord, Busy, BeforeTry, Skipping, InTry
  <1>2. rec[d] \in 1 .. MaxRecords
    BY <1>1, ConstantsAssumption
  <1>3. QED
    BY <1>1, <1>2, ConstantsAssumption DEF Job, Jobs, Fp, DedupKey, Keys

\* A delivery that goes on with its record, or leaves the handler, stays in order
\* when it holds a verdict, or a cause, wherever one is needed.
LEMMA SameRecord ==
    ASSUME HandlerInv, NEW d \in Deliveries, pc[d] \in InRecord,
           msg' = msg, rec' = rec,
           pc' \in [Deliveries -> Controls],
           pc'[d] \in InRecord \union {"failed"},
           \A e \in Deliveries : e # d =>
               pc'[e] = pc[e] /\ verdict'[e] = verdict[e] /\ cause'[e] = cause[e],
           pc'[d] \in {"metaRead", "metaSave", "persist", "upsert"} => verdict'[d] \in Verdicts,
           pc'[d] \in {"skipStage"} \union Skipping => cause'[d] \in Causes
    PROVE  ControlOK'
  <1>1. SUFFICES ASSUME NEW e \in Deliveries
                 PROVE  /\ pc'[e] = "idle" => rec'[e] = 0
                        /\ pc'[e] # "idle" => /\ msg'[e] \in Messages
                                              /\ rec'[e] \in 1 .. Len(Records[msg'[e]]) + 1
                        /\ pc'[e] = "done" => rec'[e] = Len(Records[msg'[e]]) + 1
                        /\ pc'[e] \in InRecord => /\ rec'[e] <= Len(Records[msg'[e]])
                                                  /\ Records[msg'[e]][rec'[e]] \in Events
                        /\ pc'[e] \in {"metaRead", "metaSave", "persist", "upsert"} =>
                              verdict'[e] \in Verdicts
                        /\ pc'[e] \in {"skipStage"} \union Skipping => cause'[e] \in Causes
    BY DEF ControlOK, Record
  <1>2. CASE e # d
    BY <1>2 DEF HandlerInv, ControlOK, Record
  <1>3. CASE e = d
    <2>1. pc[d] # "idle" /\ pc'[d] # "idle" /\ pc'[d] # "done"
      BY DEF InRecord, Busy, BeforeTry, Skipping, InTry
    <2>2. QED
      BY <1>3, <2>1 DEF HandlerInv, ControlOK, Record
  <1>4. QED
    BY <1>2, <1>3

LEMMA StageStartTypes ==
    ASSUME HandlerInv, NEW d \in Deliveries, NEW here \in InRecord, NEW s \in Stages,
           NEW next \in InRecord, StartStage(d, here, s, next),
           next \notin {"metaRead", "metaSave", "persist", "skipStage"} \union Skipping,
           next = "upsert" => here = "persist"
    PROVE  HandlerInv'
  <1>1. pc[d] = here /\ Job(d) \in Jobs
    BY RecordTypes DEF StartStage
  <1>2. next \in Controls
    BY DEF InRecord, Controls
  <1>3. /\ pc' \in [Deliveries -> Controls]
        /\ faults' \in 0 .. MaxFaults
        /\ pc'[d] \in {next, "catch", "failed"}
        /\ \A e \in Deliveries : e # d => pc'[e] = pc[e]
    BY <1>2, GoToTarget DEF StartStage, HandlerInv
  <1>4. stages' \in [Jobs -> [Stages -> StageStatus]]
    BY <1>1 DEF StartStage, startStage, HandlerInv, HandlerTypes, StageStatus
  <1>5. HandlerTypes'
    BY <1>3, <1>4 DEF StartStage, HandlerInv, HandlerTypes, broker, locals
  <1>6. ControlOK'
    <2>1. pc'[d] \in InRecord \union {"failed"}
      BY <1>3 DEF InRecord, Busy
    <2>2. pc'[d] \in {"metaRead", "metaSave", "persist", "upsert"} => verdict[d] \in Verdicts
      BY <1>1, <1>3 DEF HandlerInv, ControlOK
    <2>3. pc'[d] \notin {"skipStage"} \union Skipping
      BY <1>3 DEF Skipping
    <2>4. QED
      BY <1>1, <1>3, <2>1, <2>2, <2>3, SameRecord DEF StartStage, locals
  <1>7. QED
    BY <1>5, <1>6 DEF HandlerInv

LEMMA StageFinishTypes ==
    ASSUME HandlerInv, NEW d \in Deliveries, NEW here \in InRecord, NEW s \in Stages,
           NEW status \in StageStatus, NEW next \in InRecord,
           FinishStage(d, here, s, status, next),
           verdict' \in [Deliveries -> Verdicts \union {None}],
           cause' \in [Deliveries -> Causes \union {None}],
           \A e \in Deliveries : e # d => verdict'[e] = verdict[e] /\ cause'[e] = cause[e],
           next \notin {"metaSave", "persist", "upsert", "skipStage"},
           next = "metaRead" => verdict'[d] \in Verdicts,
           next \in Skipping => cause'[d] \in Causes
    PROVE  HandlerInv'
  <1>1. pc[d] = here /\ Job(d) \in Jobs
    BY RecordTypes DEF FinishStage
  <1>2. next \in Controls
    BY DEF InRecord, Controls
  <1>3. /\ pc' \in [Deliveries -> Controls]
        /\ faults' \in 0 .. MaxFaults
        /\ pc'[d] \in {next, "catch", "failed"}
        /\ \A e \in Deliveries : e # d => pc'[e] = pc[e]
    BY <1>2, GoToTarget DEF FinishStage, HandlerInv
  <1>4. stages' \in [Jobs -> [Stages -> StageStatus]]
    BY <1>1 DEF FinishStage, finishStage, HandlerInv, HandlerTypes
  <1>5. HandlerTypes'
    BY <1>3, <1>4 DEF FinishStage, HandlerInv, HandlerTypes, broker
  <1>6. ControlOK'
    <2>1. pc'[d] \in InRecord \union {"failed"}
      BY <1>3 DEF InRecord, Busy
    <2>2. pc'[d] \in {"metaRead", "metaSave", "persist", "upsert"} => verdict'[d] \in Verdicts
      BY <1>3
    <2>3. pc'[d] \in {"skipStage"} \union Skipping => cause'[d] \in Causes
      BY <1>3 DEF Skipping
    <2>4. QED
      BY <1>1, <1>3, <2>1, <2>2, <2>3, SameRecord DEF FinishStage
  <1>7. QED
    BY <1>5, <1>6 DEF HandlerInv

\* finishRun touches the status of one run, and only if the row is there.
LEMMA ClosedRun ==
    ASSUME HandlerTypes, NEW j \in Jobs, NEW status \in RunStatus
    PROVE  /\ finishRun(j, status) \in [Jobs -> RunRows]
           /\ \A k \in Jobs : k # j => finishRun(j, status)[k] = runs[k]
           /\ runs[j].status # "absent" => finishRun(j, status)[j].status = status
           /\ finishRun(j, status)[j].causes = runs[j].causes
           /\ finishRun(j, status)[j].validation = runs[j].validation
  <1>1. runs \in [Jobs -> RunRows] /\ runs[j] \in RunRows
    BY DEF HandlerTypes
  <1>2. [runs[j] EXCEPT !.status = status] \in RunRows
    BY <1>1 DEF RunRows
  <1>3. CASE runs[j].status = "absent"
    BY <1>1, <1>3 DEF finishRun
  <1>4. CASE runs[j].status # "absent"
    <2>1. finishRun(j, status) = [runs EXCEPT ![j] = [runs[j] EXCEPT !.status = status]]
      BY <1>4 DEF finishRun
    <2>2. QED
      BY <1>1, <1>2, <1>4, <2>1 DEF RunRows
  <1>5. QED
    BY <1>3, <1>4

\* A step on a delivery's record that writes no stage.
LEMMA RecordStepTypes ==
    ASSUME HandlerInv, NEW d \in Deliveries,
           \/ ValidateRefused(d) \/ CheckRedis(d) \/ CheckLedger(d) \/ Remember(d)
           \/ ReadRun(d) \/ SaveRun(d) \/ Upsert(d)
           \/ FinishFailed(d)
           \/ CallFails(d) /\ pc[d] # "record"
    PROVE  HandlerInv'
  <1> USE DEF HandlerInv
  <1>1. CASE ValidateRefused(d)
    <2>1. pc[d] = "validate" /\ pc[d] \in InRecord
      BY <1>1 DEF ValidateRefused, InRecord, Busy, InTry
    <2>2. HandlerTypes'
      BY <1>1, ThrowTarget DEF ValidateRefused, HandlerTypes, broker, tables, locals
    <2>3. ControlOK'
      BY <1>1, <2>1, ThrowTarget, SameRecord
         DEF ValidateRefused, locals, InRecord, Busy, Skipping
    <2>4. QED
      BY <2>2, <2>3
  <1>2. CASE CheckRedis(d)
    <2>1. pc[d] = "exists" /\ pc[d] \in InRecord
      BY <1>2 DEF CheckRedis, InRecord, Busy, BeforeTry
    <2>2. HandlerTypes'
      BY <1>2 DEF CheckRedis, HandlerTypes, broker, tables, Causes, Controls, Busy, BeforeTry
    <2>3. ControlOK'
      BY <1>2, <2>1, <2>2, SameRecord
         DEF CheckRedis, HandlerTypes, InRecord, Busy, BeforeTry, Skipping, Causes
    <2>4. QED
      BY <2>2, <2>3
  <1>3. CASE CheckLedger(d)
    <2>1. pc[d] = "query" /\ pc[d] \in InRecord
      BY <1>3 DEF CheckLedger, InRecord, Busy, BeforeTry
    <2>2. \A e \in Deliveries : pc[e] \in Window => Job(e) \in Jobs
      BY RecordTypes DEF Window, InRecord, Busy, BeforeTry, InTry
    <2>3. HandlerTypes'
      <3>1. raced' \subseteq Jobs \X Jobs
        BY <1>3, <2>1, <2>2, RecordTypes DEF CheckLedger, HandlerTypes
      <3>2. QED
        BY <1>3, <3>1 DEF CheckLedger, HandlerTypes, broker, tables, Causes, Controls, Busy, BeforeTry
    <2>4. ControlOK'
      BY <1>3, <2>1, <2>3, SameRecord
         DEF CheckLedger, HandlerTypes, InRecord, Busy, BeforeTry, Skipping, Causes
    <2>5. QED
      BY <2>3, <2>4
  <1>4. CASE Remember(d)
    <2>1. pc[d] = "remember" /\ pc[d] \in InRecord /\ "deduped" \in Controls
      BY <1>4 DEF Remember, InRecord, Busy, BeforeTry, Controls
    <2>2. HandlerTypes'
      BY <1>4, <2>1, RecordTypes, GoToTarget DEF Remember, HandlerTypes, broker, tables, locals
    <2>3. ControlOK'
      BY <1>4, <2>1, GoToTarget, SameRecord
         DEF Remember, locals, InRecord, Busy, BeforeTry, Skipping
    <2>4. QED
      BY <2>2, <2>3
  <1>5. CASE ReadRun(d)
    <2>1. pc[d] \in {"skipRead", "metaRead"} /\ pc[d] \in InRecord
      BY <1>5 DEF ReadRun, InRecord, Busy, Skipping, InTry
    <2>2. HandlerTypes'
      BY <1>5, <2>1, RecordTypes
         DEF ReadRun, HandlerTypes, broker, tables, Controls, Busy, Skipping, InTry
    <2>3. ControlOK'
      <3>1. pc[d] = "skipRead" => cause[d] \in Causes
        BY DEF ControlOK, Skipping
      <3>2. pc[d] = "metaRead" => verdict[d] \in Verdicts
        BY DEF ControlOK
      <3>3. QED
        BY <1>5, <2>1, <2>2, <3>1, <3>2, SameRecord
           DEF ReadRun, HandlerTypes, InRecord, Busy, Skipping, InTry
    <2>4. QED
      BY <2>2, <2>3
  <1>6. CASE SaveRun(d)
    <2>1. pc[d] \in {"skipSave", "metaSave"} /\ pc[d] \in InRecord
      BY <1>6 DEF SaveRun, InRecord, Busy, Skipping, InTry
    <2>2. /\ pc[d] = "skipSave" => cause[d] \in Causes
          /\ pc[d] = "metaSave" => verdict[d] \in Verdicts
      BY DEF ControlOK, Skipping
    <2>3. runs' \in [Jobs -> RunRows]
      <3>1. [row[d] EXCEPT !.causes = @ \union {cause[d]}] \in RunRows
            \/ pc[d] = "metaSave"
        BY <2>1, <2>2 DEF HandlerTypes, RunRows
      <3>2. [row[d] EXCEPT !.validation = verdict[d]] \in RunRows
            \/ pc[d] = "skipSave"
        BY <2>1, <2>2 DEF HandlerTypes, RunRows
      <3>3. QED
        BY <1>6, <3>1, <3>2 DEF SaveRun, HandlerTypes
    <2>4. "skipEnd" \in Controls /\ "persist" \in Controls
      BY DEF Controls, Busy, Skipping, InTry
    <2>5. HandlerTypes'
      BY <1>6, <2>3, <2>4, GoToTarget
         DEF SaveRun, HandlerTypes, broker, AbsentRun, RunRows, RunStatus
    <2>6. ControlOK'
      BY <1>6, <2>1, <2>2, <2>4, GoToTarget, SameRecord
         DEF SaveRun, InRecord, Busy, Skipping, InTry
    <2>7. QED
      BY <2>5, <2>6
  <1>7. CASE Upsert(d)
    <2>1. pc[d] = "upsert" /\ pc[d] \in InRecord /\ "persisted" \in Controls
      BY <1>7 DEF Upsert, InRecord, Busy, InTry, Controls
    <2>3. HandlerTypes'
      BY <1>7, <2>1, GoToTarget DEF Upsert, HandlerTypes, broker, locals
    <2>4. ControlOK'
      BY <1>7, <2>1, GoToTarget, SameRecord
         DEF Upsert, locals, InRecord, Busy, InTry, Skipping
    <2>5. QED
      BY <2>3, <2>4
  <1>8. CASE FinishFailed(d)
    <2>1. pc[d] = "catch" /\ pc[d] \in InRecord
      BY <1>8 DEF FinishFailed, InRecord, Busy
    <2>2. HandlerTypes'
      BY <1>8, <2>1, RecordTypes, ClosedRun
         DEF FinishFailed, HandlerTypes, broker, locals, RunStatus, Controls, Ended
    <2>3. ControlOK'
      BY <1>8, <2>1, <2>2, SameRecord
         DEF FinishFailed, locals, HandlerTypes, InRecord, Busy, Skipping
    <2>4. QED
      BY <2>2, <2>3
  <1>9. CASE CallFails(d) /\ pc[d] # "record"
    <2>1. pc[d] \in InRecord
      BY <1>9 DEF CallFails, InRecord
    <2>2. HandlerTypes'
      BY <1>9, ThrowTarget, ConstantsAssumption DEF CallFails, HandlerTypes, broker, tables, locals
    <2>3. ControlOK'
      BY <1>9, <2>1, ThrowTarget, SameRecord
         DEF CallFails, locals, InRecord, Busy, Skipping
    <2>4. QED
      BY <2>2, <2>3
  <1>10. QED
    BY <1>1, <1>2, <1>3, <1>4, <1>5, <1>6, <1>7, <1>8, <1>9

LEMMA InitTypes == Init => HandlerInv /\ RowTypes
  <1> SUFFICES ASSUME Init PROVE HandlerInv /\ RowTypes
    OBVIOUS
  <1>1. AbsentRun \in RunRows
    BY DEF AbsentRun, RunRows, RunStatus
  <1>2. HandlerTypes
    BY <1>1, ConstantsAssumption
       DEF Init, HandlerTypes, StageStatus, Controls, Causes
  <1>3. ControlOK
    BY DEF Init, ControlOK, InRecord, Busy, BeforeTry, Skipping, InTry
  <1>4. RowTypes
    BY DEF Init, RowTypes
  <1>5. QED
    BY <1>2, <1>3, <1>4 DEF HandlerInv

\* The steps between records: taking a message, closing a run, leaving the loop.
LEMMA LoopStepTypes ==
    ASSUME HandlerInv, NEW d \in Deliveries,
           \/ \E m \in Messages : Receive(d, m)
           \/ EndBatch(d) \/ RejectRecord(d) \/ CreateRun(d)
           \/ FinishSuccess(d) \/ FinishSkipped(d)
           \/ CallFails(d) /\ pc[d] = "record"
    PROVE  HandlerInv'
  <1> USE DEF HandlerInv
  <1>1. CASE \E m \in Messages : Receive(d, m)
    <2>1. PICK m \in Messages : Receive(d, m)
      BY <1>1
    <2>2. Len(Records[m]) \in Nat /\ Len(Records[m]) <= MaxRecords
      BY ConstantsAssumption
    <2>3. HandlerTypes'
      BY <2>1, <2>2, ConstantsAssumption
         DEF Receive, HandlerTypes, tables, Controls, Busy, BeforeTry
    <2>4. ControlOK'
      BY <2>1, <2>2
         DEF Receive, HandlerTypes, ControlOK, Record, InRecord, Busy, BeforeTry, Skipping, InTry
    <2>5. QED
      BY <2>3, <2>4
  <1>2. CASE EndBatch(d)
    <2>1. msg[d] \in Messages /\ rec[d] = Len(Records[msg[d]]) + 1
      BY <1>2, ConstantsAssumption DEF EndBatch, ControlOK
    <2>2. HandlerTypes'
      BY <1>2 DEF EndBatch, HandlerTypes, tables, locals, Controls, Ended
    <2>3. ControlOK'
      BY <1>2, <2>1
         DEF EndBatch, HandlerTypes, ControlOK, locals, Record, InRecord, Busy, BeforeTry, Skipping, InTry
    <2>4. QED
      BY <2>2, <2>3
  <1>3. CASE RejectRecord(d)
    <2>1. HandlerTypes'
      BY <1>3 DEF RejectRecord, HandlerTypes, broker, tables, locals, Controls, Ended
    <2>2. ControlOK'
      BY <1>3
         DEF RejectRecord, HandlerTypes, ControlOK, locals, Record, InRecord, Busy, BeforeTry, Skipping, InTry
    <2>3. QED
      BY <2>1, <2>2
  <1>4. CASE CreateRun(d)
    <2>1. /\ msg[d] \in Messages
          /\ rec[d] \in 1 .. Len(Records[msg[d]])
      BY <1>4, ConstantsAssumption DEF CreateRun, ControlOK
    <2>2. Record(d) \in Events
      BY <1>4, <2>1, ConstantsAssumption DEF CreateRun, Record
    <2>3. /\ pc' \in [Deliveries -> Controls]
          /\ faults' \in 0 .. MaxFaults
          /\ pc'[d] \in {"dedup", "catch", "failed"}
          /\ \A e \in Deliveries : e # d => pc'[e] = pc[e]
      BY <1>4, GoToTarget DEF CreateRun, Controls, Busy, BeforeTry
    <2>4. runs' \in [Jobs -> RunRows]
      BY <1>4 DEF CreateRun, createRun, HandlerTypes, RunRows, RunStatus
    <2>5. HandlerTypes'
      BY <1>4, <2>3, <2>4 DEF CreateRun, HandlerTypes, broker, locals
    <2>6. ControlOK'
      BY <1>4, <2>1, <2>2, <2>3
         DEF CreateRun, HandlerTypes, ControlOK, locals, Record, InRecord, Busy, Skipping
    <2>7. QED
      BY <2>5, <2>6
  <1>5. ASSUME NEW here \in {"finish", "skipEnd"}, NEW status \in RunStatus,
               FinishRun(d, here, status)
        PROVE  HandlerInv'
    <2>1. /\ pc[d] = here /\ pc[d] \in InRecord
          /\ msg[d] \in Messages
          /\ rec[d] \in 1 .. Len(Records[msg[d]])
      BY <1>5, ConstantsAssumption DEF FinishRun, ControlOK, InRecord, Busy, Skipping, InTry
    <2>2. runs' \in [Jobs -> RunRows]
      BY <1>5, <2>1, RecordTypes, ClosedRun DEF FinishRun
    <2>3. Len(Records[msg[d]]) \in Nat /\ Len(Records[msg[d]]) <= MaxRecords
      BY <2>1, ConstantsAssumption
    <2>4. CASE /\ pc' = [pc EXCEPT ![d] = "record"]
               /\ rec' = [rec EXCEPT ![d] = @ + 1]
               /\ cause' = [cause EXCEPT ![d] = None]
               /\ verdict' = [verdict EXCEPT ![d] = None]
               /\ UNCHANGED faults
      <3>1. HandlerTypes'
        BY <1>5, <2>1, <2>2, <2>3, <2>4, ConstantsAssumption
           DEF FinishRun, HandlerTypes, broker, Controls, Busy, BeforeTry
      <3>2. ControlOK'
        BY <1>5, <2>1, <2>3, <2>4
           DEF FinishRun, HandlerTypes, ControlOK, Record, InRecord, Busy, BeforeTry, Skipping, InTry
      <3>3. QED
        BY <3>1, <3>2
    <2>5. CASE /\ faults < MaxFaults
               /\ faults' = faults + 1
               /\ Throw(d)
               /\ UNCHANGED <<rec, cause, verdict>>
      <3>1. HandlerTypes'
        BY <1>5, <2>2, <2>5, ThrowTarget, ConstantsAssumption DEF FinishRun, HandlerTypes, broker
      <3>2. ControlOK'
        BY <1>5, <2>1, <2>5, ThrowTarget, SameRecord
           DEF FinishRun, InRecord, Busy, Skipping
      <3>3. QED
        BY <3>1, <3>2
    <2>6. QED
      BY <1>5, <2>4, <2>5 DEF FinishRun
  <1>6. CASE FinishSuccess(d) \/ FinishSkipped(d)
    BY <1>5, <1>6 DEF FinishSuccess, FinishSkipped, RunStatus
  <1>7. CASE CallFails(d) /\ pc[d] = "record"
    <2>1. pc' = [pc EXCEPT ![d] = "failed"]
      BY <1>7 DEF CallFails, Throw, OnError, InTry, Skipping
    <2>2. HandlerTypes'
      BY <1>7, <2>1, ConstantsAssumption
         DEF CallFails, HandlerTypes, broker, tables, locals, Controls, Ended
    <2>3. ControlOK'
      BY <1>7, <2>1
         DEF CallFails, HandlerTypes, ControlOK, locals, Record, InRecord, Busy, BeforeTry, Skipping, InTry
    <2>4. QED
      BY <2>2, <2>3
  <1>8. QED
    BY <1>1, <1>2, <1>3, <1>4, <1>6, <1>7

\* The steps that open or close a stage.
LEMMA StageStepTypes ==
    ASSUME HandlerInv, NEW d \in Deliveries,
           \/ StartDedup(d) \/ StartNormalize(d) \/ StartCurrency(d)
           \/ StartValidation(d) \/ StartPersist(d)
           \/ FinishDedup(d) \/ SkipDedup(d) \/ FinishNormalize(d) \/ Convert(d)
           \/ Validate(d) \/ FinishPersist(d)
    PROVE  HandlerInv'
  <1>1. /\ {"dedup", "exists", "deduped", "skipStage", "skipRead"} \subseteq InRecord
        /\ InTry \subseteq InRecord
    BY DEF InRecord, Busy, BeforeTry, Skipping, InTry
  <1>2. /\ verdict \in [Deliveries -> Verdicts \union {None}]
        /\ cause \in [Deliveries -> Causes \union {None}]
    BY DEF HandlerInv, HandlerTypes
  <1>3. CASE StartDedup(d)
    BY <1>1, <1>3, StageStartTypes DEF StartDedup, Stages, Skipping
  <1>4. CASE StartNormalize(d) \/ StartCurrency(d)
    BY <1>1, <1>4, StageStartTypes DEF StartNormalize, StartCurrency, Stages, Skipping, InTry
  <1>5. CASE StartValidation(d) \/ StartPersist(d)
    BY <1>1, <1>5, StageStartTypes DEF StartValidation, StartPersist, Stages, Skipping, InTry
  <1>6. CASE FinishDedup(d)
    BY <1>1, <1>2, <1>6, StageFinishTypes
       DEF FinishDedup, Stages, StageStatus, Skipping, InTry
  <1>7. CASE SkipDedup(d)
    <2>1. pc[d] = "skipStage" /\ cause[d] \in Causes
      BY <1>7 DEF SkipDedup, FinishStage, HandlerInv, ControlOK
    <2>2. QED
      BY <1>1, <1>2, <1>7, <2>1, StageFinishTypes DEF SkipDedup, Stages, StageStatus
  <1>8. CASE FinishNormalize(d)
    <2>1. CASE Fp(d) \in Negative
      <3>1. /\ cause' = [cause EXCEPT ![d] = "negative_amount"]
            /\ FinishStage(d, "normalized", "normalize", "skipped", "skipRead")
            /\ UNCHANGED verdict
        BY <1>8, <2>1 DEF FinishNormalize
      <3>2. /\ cause' \in [Deliveries -> Causes \union {None}]
            /\ cause'[d] \in Causes
            /\ \A e \in Deliveries : e # d => cause'[e] = cause[e]
        BY <1>2, <3>1 DEF Causes
      <3>3. QED
        BY <1>1, <1>2, <3>1, <3>2, StageFinishTypes DEF Stages, StageStatus, InTry
    <2>2. CASE Fp(d) \notin Negative
      BY <1>1, <1>2, <1>8, <2>2, StageFinishTypes
         DEF FinishNormalize, Stages, StageStatus, Skipping, InTry
    <2>3. QED
      BY <2>1, <2>2
  <1>9. CASE Convert(d) \/ FinishPersist(d)
    BY <1>1, <1>2, <1>9, StageFinishTypes
       DEF Convert, FinishPersist, Stages, StageStatus, Skipping, InTry
  <1>10. CASE Validate(d)
    <2>1. PICK v \in Verdicts : verdict' = [verdict EXCEPT ![d] = v]
      BY <1>10 DEF Validate
    <2>2. /\ verdict' \in [Deliveries -> Verdicts \union {None}]
          /\ verdict'[d] \in Verdicts
          /\ \A e \in Deliveries : e # d => verdict'[e] = verdict[e]
      BY <1>2, <2>1
    <2>3. QED
      BY <1>1, <1>2, <1>10, <2>2, StageFinishTypes
         DEF Validate, Stages, StageStatus, Skipping, InTry
  <1>11. QED
    BY <1>3, <1>4, <1>5, <1>6, <1>7, <1>8, <1>9, <1>10

\* What happens outside any handler.
LEMMA OutsideStepTypes ==
    ASSUME HandlerInv,
           \/ \E m \in Messages : Publish(m) \/ Lose(m)
           \/ \E k \in keys : Expire(k)
           \/ Crash
           \/ UNCHANGED vars
    PROVE  HandlerInv'
  <1> USE DEF HandlerInv
  <1>1. CASE \E m \in Messages : Publish(m) \/ Lose(m)
    <2>1. HandlerTypes'
      BY <1>1 DEF Publish, Lose, HandlerTypes, tables, locals
    <2>2. ControlOK'
      BY <1>1 DEF Publish, Lose, ControlOK, locals, Record
    <2>3. QED
      BY <2>1, <2>2
  <1>2. CASE \E k \in keys : Expire(k)
    <2>1. HandlerTypes'
      BY <1>2 DEF Expire, HandlerTypes, broker, tables, locals
    <2>2. ControlOK'
      BY <1>2 DEF Expire, ControlOK, locals, Record
    <2>3. QED
      BY <2>1, <2>2
  <1>3. CASE Crash
    <2>1. HandlerTypes'
      BY <1>3, ConstantsAssumption
         DEF Crash, HandlerTypes, broker, tables, locals, Controls, Ended
    <2>2. ControlOK'
      BY <1>3
         DEF Crash, HandlerTypes, ControlOK, locals, Record, InRecord, Busy, BeforeTry, Skipping, InTry
    <2>3. QED
      BY <2>1, <2>2
  <1>4. CASE UNCHANGED vars
    BY <1>4 DEF vars, HandlerTypes, ControlOK, Record
  <1>5. QED
    BY <1>1, <1>2, <1>3, <1>4

LEMMA NextTypes == HandlerInv /\ [Next]_vars => HandlerInv'
  <1> SUFFICES ASSUME HandlerInv, [Next]_vars PROVE HandlerInv'
    OBVIOUS
  <1>1. ASSUME NEW d \in Deliveries, NEW m \in Messages, Receive(d, m) PROVE HandlerInv'
    BY <1>1, LoopStepTypes
  <1>2. ASSUME NEW d \in Deliveries, Step(d) PROVE HandlerInv'
    BY <1>2, LoopStepTypes, StageStepTypes, RecordStepTypes DEF Step
  <1>3. ASSUME NEW d \in Deliveries, CallFails(d) PROVE HandlerInv'
    BY <1>3, LoopStepTypes, RecordStepTypes
  <1>4. QED
    BY <1>1, <1>2, <1>3, OutsideStepTypes DEF Next, Environment

\* Rows are written by upsertFromEvent alone, with the job, the fingerprint and the
\* verdict of its handler.
LEMMA NextRows == HandlerInv /\ RowTypes /\ [Next]_vars => RowTypes'
  <1> SUFFICES ASSUME HandlerInv, RowTypes, [Next]_vars PROVE RowTypes'
    OBVIOUS
  <1>1. ASSUME NEW d \in Deliveries, Upsert(d) PROVE RowTypes'
    <2>1. pc[d] = "upsert" /\ pc[d] \in InRecord
      BY <1>1 DEF Upsert, InRecord, Busy, InTry
    <2>2. verdict[d] \in Verdicts
      BY <2>1 DEF HandlerInv, ControlOK
    <2>3. QED
      BY <1>1, <2>1, <2>2, RecordTypes DEF Upsert, upsertFromEvent, RowTypes, ExpenseRows
  <1>2. CASE expenses' = expenses
    BY <1>2 DEF RowTypes
  <1>3. (\A d \in Deliveries : ~Upsert(d)) => expenses' = expenses
    BY DEF Next, Environment, Step, Receive, EndBatch, RejectRecord, CreateRun, StartDedup,
           CheckRedis, CheckLedger, Remember, FinishDedup, SkipDedup, StartNormalize,
           FinishNormalize, StartCurrency, Convert, StartValidation, Validate,
           ValidateRefused, ReadRun, SaveRun, StartPersist, FinishPersist, FinishSuccess,
           FinishSkipped, FinishFailed, FinishRun, StartStage, FinishStage, Publish, Lose,
           Expire, CallFails, Crash, tables, vars
  <1>4. QED
    BY <1>1, <1>2, <1>3

LEMMA TypesApart == TypeInv <=> HandlerInv /\ RowTypes
  BY DEF TypeInv, HandlerInv, TypeOK

\* Every variable keeps its type, and every handler knows its record, verdict and
\* cause wherever processExpense uses them.
THEOREM TypeCorrect == Spec => []TypeInv
  <1>1. QED
    BY InitTypes, NextTypes, NextRows, TypesApart, PTL DEF Spec

\* The type invariant of the runs holds of every instance.
THEOREM TypesHold == Spec => []TypeOK
  <1>1. TypeInv => TypeOK
    BY DEF TypeInv
  <1>2. QED
    BY TypeCorrect, <1>1, PTL

-----------------------------------------------------------------------------
(* Duplicates *)

\* A step that writes no expense and lets nobody into the window keeps the
\* duplicate invariant.
LEMMA DedupFrame ==
    ASSUME DedupInv, expenses' = expenses, raced \subseteq raced',
           \A d \in Deliveries : pc'[d] \in Window =>
               pc[d] \in Window /\ msg'[d] = msg[d] /\ rec'[d] = rec[d]
    PROVE  DedupInv'
  <1>1. \A d \in Deliveries : pc'[d] \in Window =>
            pc[d] \in Window /\ Job(d)' = Job(d) /\ Fp(d)' = Fp(d)
    BY DEF Job, Fp, Record
  <1>2. WindowsRaced'
    BY <1>1 DEF DedupInv, WindowsRaced
  <1>3. LateRowsRaced'
    BY <1>1 DEF DedupInv, LateRowsRaced
  <1>4. DuplicatesRaced' /\ OneRowPerDelivery'
    BY DEF DedupInv, DuplicatesRaced, OneRowPerDelivery
  <1>5. QED
    BY <1>2, <1>3, <1>4 DEF DedupInv

\* Entering the window: no row has the fingerprint, and everybody who is in it
\* is noted as a rival.
LEMMA DedupCheck ==
    ASSUME HandlerInv, DedupInv, NEW d \in Deliveries, CheckLedger(d)
    PROVE  DedupInv'
  <1>1. /\ expenses' = expenses /\ msg' = msg /\ rec' = rec
        /\ raced \subseteq raced'
        /\ pc[d] = "query"
    BY DEF CheckLedger, tables
  <1>2. CASE existsByFingerprint(Fp(d))
    <2>1. pc' = [pc EXCEPT ![d] = "skipStage"]
      BY <1>2 DEF CheckLedger
    <2>2. \A e \in Deliveries : pc'[e] \in Window => pc[e] \in Window
      BY <2>1 DEF HandlerInv, HandlerTypes, Window
    <2>3. QED
      BY <1>1, <2>2, DedupFrame
  <1>3. CASE ~existsByFingerprint(Fp(d))
    <2>1. /\ pc' = [pc EXCEPT ![d] = "remember"]
          /\ raced' = raced \union
                {<<Job(d), Job(e)>> : e \in {x \in Deliveries : pc[x] \in Window}}
      BY <1>3 DEF CheckLedger
    <2>2. \A e \in Deliveries : e # d => pc'[e] = pc[e]
      BY <2>1 DEF HandlerInv, HandlerTypes
    <2>3. \A e \in Deliveries : Job(e)' = Job(e) /\ Fp(e)' = Fp(e)
      BY <1>1 DEF Job, Fp, Record
    <2>4. \A e \in Deliveries : pc[e] \in Window => <<Job(d), Job(e)>> \in raced'
      BY <2>1
    <2>5. WindowsRaced'
      BY <1>1, <2>2, <2>3, <2>4 DEF DedupInv, WindowsRaced
    <2>6. LateRowsRaced'
      BY <1>1, <1>3, <2>2, <2>3 DEF DedupInv, LateRowsRaced, existsByFingerprint
    <2>7. DuplicatesRaced' /\ OneRowPerDelivery'
      BY <1>1 DEF DedupInv, DuplicatesRaced, OneRowPerDelivery
    <2>8. QED
      BY <2>5, <2>6, <2>7 DEF DedupInv
  <1>4. QED
    BY <1>2, <1>3

\* The write: every row with the same fingerprint that is already there, and
\* every delivery still in the window, is a rival of the writer.
LEMMA DedupWrite ==
    ASSUME HandlerInv, RowTypes, DedupInv, NEW d \in Deliveries, Upsert(d)
    PROVE  DedupInv'
  <1> DEFINE x0 == IdOf[Record(d)]
  <1>1. /\ pc[d] = "upsert" /\ pc[d] \in Window /\ pc[d] \in InRecord
        /\ msg' = msg /\ rec' = rec /\ raced' = raced
    BY DEF Upsert, locals, Window, InRecord, Busy, InTry
  <1>2. x0 \in ExpenseIds /\ Job(d) \in Jobs /\ Fp(d) \in Fingerprints
    BY <1>1, RecordTypes
  <1>3. /\ expenses'[x0] = [job |-> Job(d), fp |-> Fp(d), status |-> verdict[d]]
        /\ \A y \in ExpenseIds : y # x0 => expenses'[y] = expenses[y]
    BY <1>2 DEF Upsert, upsertFromEvent, RowTypes
  <1>4. /\ expenses'[x0].job = Job(d) /\ expenses'[x0].fp = Fp(d)
        /\ Job(d)[1] = d
    BY <1>3 DEF Job
  <1>5. /\ pc'[d] \notin Window
        /\ \A e \in Deliveries : e # d => pc'[e] = pc[e]
    BY GoToTarget DEF Upsert, HandlerInv, Controls, Busy, InTry, Window
  <1>6. \A e \in Deliveries : Job(e)' = Job(e) /\ Fp(e)' = Fp(e)
    BY <1>1 DEF Job, Fp, Record
  <1>7. WindowsRaced'
    BY <1>1, <1>5, <1>6 DEF DedupInv, WindowsRaced
  <1>8. LateRowsRaced'
    <2>1. SUFFICES ASSUME NEW e \in Deliveries, NEW x \in ExpenseIds,
                          pc'[e] \in Window, expenses'[x] # None, expenses'[x].fp = Fp(e)
                   PROVE  /\ expenses'[x].job[1] # e
                          /\ \/ <<Job(e), expenses'[x].job>> \in raced
                             \/ <<expenses'[x].job, Job(e)>> \in raced
      BY <1>1, <1>6 DEF LateRowsRaced
    <2>2. e # d /\ pc[e] \in Window
      BY <1>5, <2>1
    <2>3. CASE x = x0
      BY <1>1, <1>4, <2>2, <2>3 DEF DedupInv, WindowsRaced
    <2>4. CASE x # x0
      BY <1>3, <2>1, <2>2, <2>4 DEF DedupInv, LateRowsRaced
    <2>5. QED
      BY <2>3, <2>4
  <1>9. \A y \in ExpenseIds :
            (y # x0 /\ expenses[y] # None /\ expenses[y].fp = Fp(d)) =>
                /\ expenses[y].job[1] # d
                /\ \/ <<Job(d), expenses[y].job>> \in raced
                   \/ <<expenses[y].job, Job(d)>> \in raced
    BY <1>1 DEF DedupInv, LateRowsRaced
  <1>10. DuplicatesRaced'
    BY <1>1, <1>3, <1>4, <1>9 DEF DedupInv, DuplicatesRaced
  <1>11. OneRowPerDelivery'
    <2>1. SUFFICES ASSUME NEW x \in ExpenseIds, NEW y \in ExpenseIds,
                          x # y, expenses'[x] # None, expenses'[y] # None,
                          expenses'[x].fp = expenses'[y].fp
                   PROVE  expenses'[x].job[1] # expenses'[y].job[1]
      BY DEF OneRowPerDelivery
    <2>2. CASE x = x0
      BY <1>3, <1>4, <1>9, <2>1, <2>2
    <2>3. CASE y = x0
      BY <1>3, <1>4, <1>9, <2>1, <2>3
    <2>4. CASE x # x0 /\ y # x0
      BY <1>3, <2>1, <2>4 DEF DedupInv, OneRowPerDelivery
    <2>5. QED
      BY <2>2, <2>3, <2>4
  <1>12. QED
    BY <1>7, <1>8, <1>10, <1>11 DEF DedupInv

\* Every other step of a handler stays inside the window or out of it.
LEMMA DedupOtherSteps ==
    ASSUME HandlerInv, RowTypes, DedupInv, NEW d \in Deliveries, Step(d) \/ CallFails(d)
    PROVE  DedupInv'
  <1>1. CASE CheckLedger(d) \/ Upsert(d)
    BY <1>1, DedupCheck, DedupWrite
  <1>2. ASSUME pc' \in [Deliveries -> Controls],
               \A e \in Deliveries : e # d => pc'[e] = pc[e],
               pc'[d] \in Window => pc[d] \in Window /\ rec'[d] = rec[d],
               \A e \in Deliveries : e # d => rec'[e] = rec[e],
               expenses' = expenses, raced' = raced, msg' = msg
        PROVE  DedupInv'
    BY <1>2, DedupFrame
  <1> USE DEF HandlerInv
  <1>3. CASE EndBatch(d) \/ RejectRecord(d) \/ FinishFailed(d)
    BY <1>2, <1>3 DEF EndBatch, RejectRecord, FinishFailed, tables, locals, HandlerTypes,
                      Window, Controls, Ended
  <1>4. CASE CreateRun(d) \/ Remember(d)
    BY <1>2, <1>4, GoToTarget
       DEF CreateRun, Remember, tables, locals, Window, Controls, Busy, BeforeTry
  <1>5. CASE StartDedup(d) \/ StartNormalize(d) \/ StartCurrency(d)
             \/ StartValidation(d) \/ StartPersist(d)
    BY <1>2, <1>5, GoToTarget
       DEF StartDedup, StartNormalize, StartCurrency, StartValidation, StartPersist,
           StartStage, locals, Window, Controls, Busy, BeforeTry, InTry
  <1>6. CASE FinishDedup(d) \/ SkipDedup(d) \/ Convert(d) \/ Validate(d) \/ FinishPersist(d)
    BY <1>2, <1>6, GoToTarget
       DEF FinishDedup, SkipDedup, Convert, Validate, FinishPersist, FinishStage,
           Window, Controls, Busy, BeforeTry, Skipping, InTry
  <1>7. CASE FinishNormalize(d)
    BY <1>2, <1>7, GoToTarget
       DEF FinishNormalize, FinishStage, Window, Controls, Busy, Skipping, InTry
  <1>8. CASE ValidateRefused(d) \/ CallFails(d)
    BY <1>2, <1>8, ThrowTarget DEF ValidateRefused, CallFails, tables, locals, Window
  <1>9. CASE CheckRedis(d)
    BY <1>2, <1>9 DEF CheckRedis, tables, HandlerTypes, Window, Controls, Busy, BeforeTry
  <1>10. CASE ReadRun(d)
    BY <1>2, <1>10 DEF ReadRun, tables, HandlerTypes, Window, Controls, Busy, Skipping, InTry
  <1>11. CASE SaveRun(d)
    BY <1>2, <1>11, GoToTarget DEF SaveRun, Window, Controls, Busy, Skipping, InTry
  <1>12. CASE FinishSuccess(d) \/ FinishSkipped(d)
    BY <1>2, <1>12, ThrowTarget
       DEF FinishSuccess, FinishSkipped, FinishRun, HandlerTypes, Window, Controls, Busy, BeforeTry
  <1>13. QED
    BY <1>1, <1>3, <1>4, <1>5, <1>6, <1>7, <1>8, <1>9, <1>10, <1>11, <1>12 DEF Step

LEMMA NextDedup == HandlerInv /\ RowTypes /\ DedupInv /\ [Next]_vars => DedupInv'
  <1> SUFFICES ASSUME HandlerInv, RowTypes, DedupInv, [Next]_vars PROVE DedupInv'
    OBVIOUS
  <1>1. ASSUME NEW d \in Deliveries, NEW m \in Messages, Receive(d, m) PROVE DedupInv'
    BY <1>1, DedupFrame DEF Receive, tables, HandlerInv, HandlerTypes, Window
  <1>2. ASSUME NEW m \in Messages, Publish(m) \/ Lose(m) PROVE DedupInv'
    BY <1>2, DedupFrame DEF Publish, Lose, tables, locals
  <1>3. ASSUME NEW k \in keys, Expire(k) PROVE DedupInv'
    BY <1>3, DedupFrame DEF Expire, tables, locals
  <1>4. CASE Crash
    BY <1>4, DedupFrame DEF Crash, tables, locals, HandlerInv, HandlerTypes, Window
  <1>5. CASE UNCHANGED vars
    BY <1>5, DedupFrame DEF vars
  <1>6. QED
    BY <1>1, <1>2, <1>3, <1>4, <1>5, DedupOtherSteps DEF Next, Environment

LEMMA InitDedup == Init => DedupInv
  BY DEF Init, DedupInv, WindowsRaced, LateRowsRaced, DuplicatesRaced, OneRowPerDelivery,
         Window

\* Two rows of the ledger share a fingerprint only if their jobs raced between
\* duplicate check and write: the check-then-set of cleaning.service.ts is the
\* only way around the deduplication, whatever expires, fails or is redelivered.
THEOREM DuplicatesNeedARace == Spec => []DuplicatesRaced
  <1>1. DedupInv => DuplicatesRaced
    BY DEF DedupInv
  <1>2. QED
    BY TypeCorrect, TypesApart, InitDedup, NextDedup, <1>1, PTL DEF Spec

\* One delivery never writes two rows with one fingerprint.
THEOREM DeliveryIsDuplicateFree == Spec => []OneRowPerDelivery
  <1>1. DedupInv => OneRowPerDelivery
    BY DEF DedupInv
  <1>2. QED
    BY TypeCorrect, TypesApart, InitDedup, NextDedup, <1>1, PTL DEF Spec

-----------------------------------------------------------------------------
(* Batches *)

\* A handler's step on its current record disturbs no other record.
LEMMA BatchFrame ==
    ASSUME HandlerInv, BatchInv, NEW d \in Deliveries,
           pc[d] \in Busy, pc[d] = "record" => rec[d] <= Len(Records[msg[d]]),
           rec' = rec, msg' = msg,
           \A k \in Jobs : k # Job(d) => runs'[k] = runs[k] /\ stages'[k] = stages[k],
           \A e \in Deliveries : e # d => pc'[e] = pc[e] /\ row'[e] = row[e],
           pc'[d] \notin {"done", "record"},
           pc'[d] \in InRecord \ {"catch"} => runs'[Job(d)].status = "running",
           pc'[d] \in {"metaSave", "skipSave"} => row'[d].status = "running"
    PROVE  BatchInv'
  <1>1. \A e \in Deliveries : Job(e)' = Job(e)
    BY DEF Job
  <1>2. rec[d] \in 1 .. MaxRecords
    BY ConstantsAssumption
       DEF HandlerInv, ControlOK, HandlerTypes, InRecord, Busy, BeforeTry, Skipping, InTry
  <1>3. RunOpen'
    <2>1. SUFFICES ASSUME NEW e \in Deliveries
                   PROVE  /\ pc'[e] = "record" /\ rec[e] <= MaxRecords =>
                                runs'[Job(e)].status = "absent"
                          /\ pc'[e] \in InRecord \ {"catch"} => runs'[Job(e)].status = "running"
                          /\ pc'[e] \in {"metaSave", "skipSave"} => row'[e].status = "running"
      BY <1>1 DEF RunOpen
    <2>2. CASE e = d
      BY <2>2
    <2>3. CASE e # d
      <3>1. pc'[e] = pc[e] /\ row'[e] = row[e]
        BY <2>3
      <3>2. Job(e) \in Jobs /\ Job(e) # Job(d) => runs'[Job(e)] = runs[Job(e)]
        OBVIOUS
      <3>3. Job(e) # Job(d)
        BY <2>3 DEF Job
      <3>4. pc[e] = "record" /\ rec[e] <= MaxRecords => Job(e) \in Jobs
        BY ConstantsAssumption DEF HandlerInv, ControlOK, HandlerTypes, Job, Jobs
      <3>5. pc[e] \in InRecord => Job(e) \in Jobs
        BY RecordTypes
      <3>6. QED
        BY <3>1, <3>2, <3>3, <3>4, <3>5 DEF BatchInv, RunOpen
    <2>4. QED
      BY <2>2, <2>3
  <1>4. SequentialBatch'
    <2>1. SUFFICES ASSUME NEW e \in Deliveries, NEW i \in 1 .. MaxRecords
                   PROVE  /\ i < rec[e] => runs'[<<e, i>>].status \in {"success", "skipped"}
                          /\ i > rec[e] => /\ runs'[<<e, i>>] = AbsentRun
                                           /\ \A s \in Stages : stages'[<<e, i>>][s] = "absent"
                          /\ pc'[e] = "done" => rec[e] = Len(Records[msg[e]]) + 1
      BY DEF SequentialBatch
    <2>2. <<e, i>> \in Jobs
      BY DEF Jobs
    <2>3. CASE <<e, i>> = Job(d)
      BY <2>3, <1>2 DEF Job
    <2>4. CASE <<e, i>> # Job(d)
      BY <2>2, <2>4 DEF BatchInv, SequentialBatch
    <2>5. QED
      BY <2>3, <2>4
  <1>5. QED
    BY <1>3, <1>4 DEF BatchInv

\* A step that touches no run and no stage and moves nobody except out of a
\* handler.
LEMMA BatchIdle ==
    ASSUME HandlerInv, BatchInv, runs' = runs, stages' = stages, row' = row,
           msg' = msg, rec' = rec,
           \A e \in Deliveries : pc'[e] \in {pc[e], "failed", "dead"}
    PROVE  BatchInv'
  <1>1. \A e \in Deliveries : Job(e)' = Job(e)
    BY DEF Job
  <1>2. RunOpen'
    BY <1>1 DEF BatchInv, RunOpen, InRecord, Busy, BeforeTry, Skipping, InTry
  <1>3. \A e \in Deliveries : pc'[e] = "done" => pc[e] = "done"
    OBVIOUS
  <1>4. SequentialBatch'
    <2>1. SUFFICES ASSUME NEW e \in Deliveries, NEW i \in 1 .. MaxRecords
                   PROVE  /\ i < rec'[e] => runs'[<<e, i>>].status \in {"success", "skipped"}
                          /\ i > rec'[e] => /\ runs'[<<e, i>>] = AbsentRun
                                            /\ \A s \in Stages : stages'[<<e, i>>][s] = "absent"
                          /\ pc'[e] = "done" => rec'[e] = Len(Records[msg'[e]]) + 1
      BY Zenon DEF SequentialBatch
    <2>2. /\ i < rec[e] => runs[<<e, i>>].status \in {"success", "skipped"}
          /\ i > rec[e] => /\ runs[<<e, i>>] = AbsentRun
                           /\ \A s \in Stages : stages[<<e, i>>][s] = "absent"
          /\ pc[e] = "done" => rec[e] = Len(Records[msg[e]]) + 1
      <3>1. SequentialBatch
        BY DEF BatchInv
      <3>2. QED
        BY <3>1, Zenon DEF SequentialBatch
    <2>3. QED
      BY <1>3, <2>2
  <1>5. QED
    BY <1>2, <1>4 DEF BatchInv

\* The steps of a handler inside a record.
LEMMA BatchRecordSteps ==
    ASSUME HandlerInv, BatchInv, NEW d \in Deliveries, pc[d] \in InRecord,
           Step(d) \/ CallFails(d), ~FinishSuccess(d), ~FinishSkipped(d)
    PROVE  BatchInv'
  <1>1. /\ Job(d) \in Jobs
        /\ pc[d] # "catch" => runs[Job(d)].status = "running"
        /\ pc[d] \in {"metaSave", "skipSave"} => row[d].status = "running"
        /\ pc[d] \in Busy /\ pc[d] # "record"
        /\ "failed" \notin InRecord
    BY RecordTypes DEF BatchInv, RunOpen, InRecord, Busy, BeforeTry, Skipping, InTry
  <1>2. /\ runs \in [Jobs -> RunRows] /\ stages \in [Jobs -> [Stages -> StageStatus]]
        /\ pc \in [Deliveries -> Controls] /\ row \in [Deliveries -> RunRows]
    BY DEF HandlerInv, HandlerTypes
  <1> USE DEF HandlerInv
  <1>3. CASE \/ StartDedup(d) \/ StartNormalize(d) \/ StartCurrency(d)
             \/ StartValidation(d) \/ StartPersist(d)
    <2>1. PICK here \in InRecord, s \in Stages, next \in InRecord :
             StartStage(d, here, s, next) /\ here # "catch"
                /\ next \notin {"metaSave", "skipSave"}
      BY <1>3
         DEF StartDedup, StartNormalize, StartCurrency, StartValidation, StartPersist,
             InRecord, Busy, BeforeTry, InTry, Stages
    <2>2. next \in Controls /\ next \notin {"done", "record"}
      BY DEF InRecord, Controls, Busy, BeforeTry, Skipping, InTry
    <2>3. /\ pc'[d] \in {next, "catch", "failed"}
          /\ \A e \in Deliveries : e # d => pc'[e] = pc[e]
      BY <2>1, <2>2, GoToTarget DEF StartStage
    <2>4. \A k \in Jobs : k # Job(d) => stages'[k] = stages[k]
      BY <2>1, <1>2 DEF StartStage, startStage
    <2>5. QED
      BY <1>1, <2>1, <2>2, <2>3, <2>4, BatchFrame DEF StartStage, locals
  <1>4. CASE FinishDedup(d) \/ SkipDedup(d) \/ FinishNormalize(d) \/ Convert(d)
             \/ Validate(d) \/ FinishPersist(d)
    <2>1. PICK here \in InRecord, s \in Stages, status \in StageStatus, next \in InRecord :
             FinishStage(d, here, s, status, next) /\ here # "catch"
                /\ next \notin {"metaSave", "skipSave"}
      BY <1>4
         DEF FinishDedup, SkipDedup, FinishNormalize, Convert, Validate, FinishPersist,
             InRecord, Busy, BeforeTry, Skipping, InTry, Stages, StageStatus
    <2>2. next \in Controls /\ next \notin {"done", "record"}
      BY DEF InRecord, Controls, Busy, BeforeTry, Skipping, InTry
    <2>3. /\ pc'[d] \in {next, "catch", "failed"}
          /\ \A e \in Deliveries : e # d => pc'[e] = pc[e]
      BY <2>1, <2>2, GoToTarget DEF FinishStage
    <2>4. \A k \in Jobs : k # Job(d) => stages'[k] = stages[k]
      BY <2>1, <1>2 DEF FinishStage, finishStage
    <2>5. QED
      BY <1>1, <2>1, <2>2, <2>3, <2>4, BatchFrame DEF FinishStage
  <1>5. CASE ValidateRefused(d) \/ CallFails(d)
    <2>1. /\ pc'[d] \in {"catch", "failed"}
          /\ \A e \in Deliveries : e # d => pc'[e] = pc[e]
      BY <1>5, ThrowTarget DEF ValidateRefused, CallFails
    <2>2. QED
      BY <1>1, <1>5, <2>1, BatchFrame DEF ValidateRefused, CallFails, tables, locals
  <1>6. CASE CheckRedis(d) \/ CheckLedger(d)
    <2>1. /\ pc'[d] \in {"skipStage", "query", "remember"} /\ pc[d] # "catch"
          /\ \A e \in Deliveries : e # d => pc'[e] = pc[e]
      BY <1>2, <1>6 DEF CheckRedis, CheckLedger
    <2>2. QED
      BY <1>1, <1>6, <2>1, BatchFrame DEF CheckRedis, CheckLedger, tables
  <1>7. CASE Remember(d) \/ Upsert(d)
    <2>1. /\ pc'[d] \in {"deduped", "persisted", "catch", "failed"} /\ pc[d] # "catch"
          /\ \A e \in Deliveries : e # d => pc'[e] = pc[e]
      BY <1>7, GoToTarget DEF Remember, Upsert, Controls, Busy, BeforeTry, InTry
    <2>2. QED
      BY <1>1, <1>7, <2>1, BatchFrame DEF Remember, Upsert, tables, locals
  <1>8. CASE ReadRun(d)
    <2>1. /\ pc'[d] \in {"skipEnd", "skipSave", "persist", "metaSave"} /\ pc[d] # "catch"
          /\ \A e \in Deliveries : e # d => pc'[e] = pc[e] /\ row'[e] = row[e]
          /\ row'[d] = runs[Job(d)]
      BY <1>2, <1>8 DEF ReadRun
    <2>2. QED
      BY <1>1, <1>8, <2>1, BatchFrame DEF ReadRun, tables
  <1>9. CASE SaveRun(d)
    <2>1. /\ pc'[d] \in {"skipEnd", "persist", "catch", "failed"}
          /\ \A e \in Deliveries : e # d => pc'[e] = pc[e]
      BY <1>9, GoToTarget DEF SaveRun, Controls, Busy, Skipping, InTry
    <2>2. /\ \A e \in Deliveries : e # d => row'[e] = row[e]
          /\ \A k \in Jobs : k # Job(d) => runs'[k] = runs[k]
          /\ row[d].status = "running"
      BY <1>1, <1>2, <1>9 DEF SaveRun
    <2>3. runs'[Job(d)].status = "running"
      BY <1>1, <1>2, <1>9, <2>2 DEF SaveRun, RunRows
    <2>4. QED
      BY <1>1, <1>9, <2>1, <2>2, <2>3, BatchFrame DEF SaveRun
  <1>10. CASE FinishFailed(d)
    <2>1. /\ pc'[d] = "failed"
          /\ \A e \in Deliveries : e # d => pc'[e] = pc[e]
      BY <1>2, <1>10 DEF FinishFailed
    <2>2. \A k \in Jobs : k # Job(d) => runs'[k] = runs[k]
      BY <1>1, <1>10, ClosedRun DEF FinishFailed, RunStatus
    <2>3. QED
      BY <1>1, <1>10, <2>1, <2>2, BatchFrame DEF FinishFailed, locals
  <1>11. ~EndBatch(d) /\ ~RejectRecord(d) /\ ~CreateRun(d)
    BY <1>1 DEF EndBatch, RejectRecord, CreateRun
  <1>12. QED
    BY <1>3, <1>4, <1>5, <1>6, <1>7, <1>8, <1>9, <1>10, <1>11 DEF Step

\* Taking a message, creating a run, closing it and leaving the loop.
LEMMA BatchLoopSteps ==
    ASSUME HandlerInv, BatchInv, NEW d \in Deliveries,
           \/ \E m \in Messages : Receive(d, m)
           \/ EndBatch(d) \/ RejectRecord(d) \/ CreateRun(d)
           \/ FinishSuccess(d) \/ FinishSkipped(d)
           \/ CallFails(d) /\ pc[d] = "record"
    PROVE  BatchInv'
  <1>1. /\ runs \in [Jobs -> RunRows]
        /\ pc \in [Deliveries -> Controls] /\ rec \in [Deliveries -> 0 .. MaxRecords + 1]
    BY DEF HandlerInv, HandlerTypes
  <1>2. CASE \E m \in Messages : Receive(d, m)
    <2>1. /\ pc[d] = "idle" /\ rec[d] = 0
          /\ runs' = runs /\ stages' = stages /\ row' = row
          /\ pc'[d] = "record" /\ rec'[d] = 1
          /\ \A e \in Deliveries : e # d =>
                pc'[e] = pc[e] /\ rec'[e] = rec[e] /\ msg'[e] = msg[e]
      BY <1>1, <1>2 DEF Receive, tables, HandlerInv, HandlerTypes, ControlOK
    <2>2. \A i \in 1 .. MaxRecords :
             runs[<<d, i>>].status = "absent"
             /\ runs[<<d, i>>] = AbsentRun /\ \A s \in Stages : stages[<<d, i>>][s] = "absent"
      <3>1. SUFFICES ASSUME NEW i \in 1 .. MaxRecords
                     PROVE  /\ runs[<<d, i>>] = AbsentRun
                            /\ \A s \in Stages : stages[<<d, i>>][s] = "absent"
        BY DEF AbsentRun
      <3>2. i > rec[d]
        BY <2>1, ConstantsAssumption
      <3>3. QED
        BY <3>2 DEF BatchInv, SequentialBatch
    <2>3. RunOpen'
      <3>1. \A e \in Deliveries : e # d => Job(e)' = Job(e)
        BY <2>1 DEF Job
      <3>2. SUFFICES ASSUME NEW e \in Deliveries
                     PROVE  /\ pc'[e] = "record" /\ rec'[e] <= MaxRecords =>
                                  runs'[Job(e)'].status = "absent"
                            /\ pc'[e] \in InRecord \ {"catch"} =>
                                  runs'[Job(e)'].status = "running"
                            /\ pc'[e] \in {"metaSave", "skipSave"} => row'[e].status = "running"
        BY DEF RunOpen
      <3>3. CASE e = d
        BY <2>1, <2>2, <3>3, ConstantsAssumption DEF Job, InRecord
      <3>4. CASE e # d
        BY <2>1, <3>1, <3>4 DEF BatchInv, RunOpen
      <3>5. QED
        BY <3>3, <3>4
    <2>4. SequentialBatch'
      <3>1. SUFFICES ASSUME NEW e \in Deliveries, NEW i \in 1 .. MaxRecords
                     PROVE  /\ i < rec'[e] => runs'[<<e, i>>].status \in {"success", "skipped"}
                            /\ i > rec'[e] => /\ runs'[<<e, i>>] = AbsentRun
                                              /\ \A s \in Stages : stages'[<<e, i>>][s] = "absent"
                            /\ pc'[e] = "done" => rec'[e] = Len(Records[msg'[e]]) + 1
        BY DEF SequentialBatch
      <3>2. CASE e = d
        BY <2>1, <2>2, <3>2, ConstantsAssumption
      <3>3. CASE e # d
        BY <2>1, <3>3 DEF BatchInv, SequentialBatch
      <3>4. QED
        BY <3>2, <3>3
    <2>5. QED
      BY <2>3, <2>4 DEF BatchInv
  <1>3. CASE EndBatch(d)
    <2>1. /\ rec[d] = Len(Records[msg[d]]) + 1
          /\ runs' = runs /\ stages' = stages /\ row' = row /\ msg' = msg /\ rec' = rec
          /\ pc'[d] = "done" /\ \A e \in Deliveries : e # d => pc'[e] = pc[e]
      <3>1. msg[d] \in Messages /\ rec[d] \in 1 .. Len(Records[msg[d]]) + 1
        BY <1>3 DEF EndBatch, HandlerInv, ControlOK
      <3>2. Len(Records[msg[d]]) \in Nat
        BY <3>1, ConstantsAssumption
      <3>3. QED
        BY <1>1, <1>3, <3>1, <3>2 DEF EndBatch, tables, locals
    <2>2. \A e \in Deliveries : Job(e)' = Job(e)
      BY <2>1 DEF Job
    <2>3. RunOpen'
      BY <2>1, <2>2 DEF BatchInv, RunOpen, InRecord, Busy, BeforeTry, Skipping, InTry
    <2>4. SequentialBatch'
      <3>1. SUFFICES ASSUME NEW e \in Deliveries, NEW i \in 1 .. MaxRecords
                     PROVE  /\ i < rec[e] => runs[<<e, i>>].status \in {"success", "skipped"}
                            /\ i > rec[e] => /\ runs[<<e, i>>] = AbsentRun
                                             /\ \A s \in Stages : stages[<<e, i>>][s] = "absent"
                            /\ pc'[e] = "done" => rec[e] = Len(Records[msg[e]]) + 1
        BY <2>1 DEF SequentialBatch
      <3>2. /\ i < rec[e] => runs[<<e, i>>].status \in {"success", "skipped"}
            /\ i > rec[e] => /\ runs[<<e, i>>] = AbsentRun
                             /\ \A s \in Stages : stages[<<e, i>>][s] = "absent"
            /\ pc[e] = "done" => rec[e] = Len(Records[msg[e]]) + 1
        BY DEF BatchInv, SequentialBatch
      <3>3. QED
        BY <2>1, <3>2
    <2>5. QED
      BY <2>3, <2>4 DEF BatchInv
  <1>4. CASE RejectRecord(d) \/ (CallFails(d) /\ pc[d] = "record")
    <2>1. \A e \in Deliveries : pc'[e] \in {pc[e], "failed", "dead"}
      BY <1>1, <1>4 DEF RejectRecord, CallFails, Throw, OnError, InTry, Skipping
    <2>2. QED
      BY <1>4, <2>1, BatchIdle DEF RejectRecord, CallFails, tables, locals
  <1>5. CASE CreateRun(d)
    <2>1. /\ pc[d] = "record" /\ rec[d] <= Len(Records[msg[d]])
          /\ rec[d] \in 1 .. MaxRecords
      BY <1>5, ConstantsAssumption DEF CreateRun, HandlerInv, ControlOK
    <2>2. /\ pc'[d] \in {"dedup", "catch", "failed"}
          /\ \A e \in Deliveries : e # d => pc'[e] = pc[e]
      BY <1>5, GoToTarget DEF CreateRun, HandlerInv, Controls, Busy, BeforeTry
    <2>3. /\ runs'[Job(d)].status = "running"
          /\ \A k \in Jobs : k # Job(d) => runs'[k] = runs[k]
      BY <1>1, <1>5, <2>1 DEF CreateRun, createRun, Job, Jobs
    <2>4. pc[d] \in Busy
      BY <2>1 DEF Busy, BeforeTry
    <2>5. QED
      BY <1>5, <2>1, <2>2, <2>3, <2>4, BatchFrame DEF CreateRun, locals
  <1>6. ASSUME NEW here \in {"finish", "skipEnd"}, NEW status \in {"success", "skipped"},
               FinishRun(d, here, status)
        PROVE  BatchInv'
    <2>1. /\ pc[d] = here /\ pc[d] \in InRecord /\ pc[d] \in Busy /\ pc[d] # "record"
          /\ "failed" \notin InRecord
      BY <1>6 DEF FinishRun, InRecord, Busy, BeforeTry, Skipping, InTry
    <2>2. /\ Job(d) \in Jobs /\ rec[d] \in 1 .. MaxRecords
          /\ runs[Job(d)].status = "running"
      BY <2>1, RecordTypes DEF BatchInv, RunOpen, Job, Jobs
    <2>3. /\ runs'[Job(d)].status = status
          /\ \A k \in Jobs : k # Job(d) => runs'[k] = runs[k]
          /\ stages' = stages /\ row' = row /\ msg' = msg
      BY <1>6, <2>2, ClosedRun DEF FinishRun, HandlerInv, RunStatus
    <2>4. CASE Throw(d) /\ rec' = rec
      <3>1. /\ pc'[d] \in {"catch", "failed"}
            /\ \A e \in Deliveries : e # d => pc'[e] = pc[e]
        BY <2>4, ThrowTarget DEF HandlerInv
      <3>2. QED
        BY <2>1, <2>3, <2>4, <3>1, BatchFrame
    <2>5. CASE /\ pc' = [pc EXCEPT ![d] = "record"]
               /\ rec' = [rec EXCEPT ![d] = @ + 1]
      <3>1. /\ pc'[d] = "record" /\ rec'[d] = rec[d] + 1
            /\ \A e \in Deliveries : e # d => pc'[e] = pc[e] /\ rec'[e] = rec[e]
        BY <1>1, <2>5
      <3>2. \A e \in Deliveries, i \in 1 .. MaxRecords :
               <<e, i>> # Job(d) => runs'[<<e, i>>] = runs[<<e, i>>]
        BY <2>3 DEF Jobs
      <3>3. \A i \in 1 .. MaxRecords : i > rec[d] =>
               /\ runs'[<<d, i>>] = AbsentRun
               /\ \A s \in Stages : stages[<<d, i>>][s] = "absent"
        BY <2>2, <3>2 DEF BatchInv, SequentialBatch, Job
      <3>4. RunOpen'
        <4>1. SUFFICES ASSUME NEW e \in Deliveries
                       PROVE  /\ pc'[e] = "record" /\ rec'[e] <= MaxRecords =>
                                    runs'[Job(e)'].status = "absent"
                              /\ pc'[e] \in InRecord \ {"catch"} =>
                                    runs'[Job(e)'].status = "running"
                              /\ pc'[e] \in {"metaSave", "skipSave"} => row'[e].status = "running"
          BY DEF RunOpen
        <4>2. CASE e = d
          BY <2>2, <3>1, <3>3, <4>2, ConstantsAssumption DEF Job, InRecord, AbsentRun
        <4>3. CASE e # d
          <5>1. Job(e)' = Job(e) /\ Job(e) # Job(d)
            BY <3>1, <4>3 DEF Job
          <5>2. pc[e] = "record" /\ rec[e] <= MaxRecords => Job(e) \in Jobs
            BY <1>1, ConstantsAssumption DEF HandlerInv, ControlOK, Job, Jobs
          <5>3. pc[e] \in InRecord => Job(e) \in Jobs
            BY RecordTypes
          <5>4. QED
            BY <2>3, <3>1, <4>3, <5>1, <5>2, <5>3 DEF BatchInv, RunOpen
        <4>4. QED
          BY <4>2, <4>3
      <3>5. SequentialBatch'
        <4>1. SUFFICES ASSUME NEW e \in Deliveries, NEW i \in 1 .. MaxRecords
                       PROVE  /\ i < rec'[e] => runs'[<<e, i>>].status \in {"success", "skipped"}
                              /\ i > rec'[e] => /\ runs'[<<e, i>>] = AbsentRun
                                                /\ \A s \in Stages : stages'[<<e, i>>][s] = "absent"
                              /\ pc'[e] = "done" => rec'[e] = Len(Records[msg'[e]]) + 1
          BY DEF SequentialBatch
        <4>2. CASE e # d
          BY <2>3, <3>1, <3>2, <4>2 DEF BatchInv, SequentialBatch, Job
        <4>3. CASE e = d /\ i = rec[d]
          BY <2>2, <2>3, <3>1, <4>3 DEF Job
        <4>4. CASE e = d /\ i # rec[d]
          BY <2>2, <2>3, <3>1, <3>2, <3>3, <4>4 DEF BatchInv, SequentialBatch, Job
        <4>5. QED
          BY <4>2, <4>3, <4>4
      <3>6. QED
        BY <3>4, <3>5 DEF BatchInv
    <2>6. QED
      BY <1>6, <2>4, <2>5 DEF FinishRun
  <1>7. CASE FinishSuccess(d) \/ FinishSkipped(d)
    BY <1>6, <1>7 DEF FinishSuccess, FinishSkipped
  <1>8. QED
    BY <1>2, <1>3, <1>4, <1>5, <1>7

LEMMA InitBatch == Init => BatchInv
  <1> SUFFICES ASSUME Init PROVE BatchInv
    OBVIOUS
  <1>1. RunOpen
    BY DEF Init, RunOpen, InRecord, Busy, BeforeTry, Skipping, InTry
  <1>2. SequentialBatch
    BY DEF Init, SequentialBatch, Jobs
  <1>3. QED
    BY <1>1, <1>2 DEF BatchInv

LEMMA NextBatch == HandlerInv /\ BatchInv /\ [Next]_vars => BatchInv'
  <1> SUFFICES ASSUME HandlerInv, BatchInv, [Next]_vars PROVE BatchInv'
    OBVIOUS
  <1>1. ASSUME NEW d \in Deliveries, NEW m \in Messages, Receive(d, m) PROVE BatchInv'
    BY <1>1, BatchLoopSteps
  <1>2. ASSUME NEW d \in Deliveries, Step(d) \/ CallFails(d) PROVE BatchInv'
    <2>1. CASE pc[d] \in InRecord
      BY <1>2, <2>1, BatchRecordSteps, BatchLoopSteps
    <2>2. CASE pc[d] \notin InRecord
      <3>1. \/ EndBatch(d) \/ RejectRecord(d) \/ CreateRun(d)
            \/ CallFails(d) /\ pc[d] = "record"
        BY <1>2, <2>2
           DEF Step, CallFails, StartDedup, CheckRedis, CheckLedger, Remember, FinishDedup,
               SkipDedup, StartNormalize, FinishNormalize, StartCurrency, Convert,
               StartValidation, Validate, ValidateRefused, ReadRun, SaveRun, StartPersist,
               Upsert, FinishPersist, FinishSuccess, FinishSkipped, FinishFailed, FinishRun,
               StartStage, FinishStage, InRecord, Busy, BeforeTry, Skipping, InTry
      <3>2. QED
        BY <3>1, BatchLoopSteps
    <2>3. QED
      BY <2>1, <2>2
  <1>3. ASSUME NEW m \in Messages, Publish(m) \/ Lose(m) PROVE BatchInv'
    BY <1>3, BatchIdle DEF Publish, Lose, tables, locals
  <1>4. ASSUME NEW k \in keys, Expire(k) PROVE BatchInv'
    BY <1>4, BatchIdle DEF Expire, tables, locals
  <1>5. CASE Crash
    BY <1>5, BatchIdle DEF Crash, tables, locals
  <1>6. CASE UNCHANGED vars
    BY <1>6, BatchIdle DEF vars
  <1>7. QED
    BY <1>1, <1>2, <1>3, <1>4, <1>5, <1>6 DEF Next, Environment

\* A handler deals with its records in order, leaves nothing half done before the
\* current one, touches nothing after a failure, and is acked only when each
\* record's run has ended in success or skipped.
THEOREM BatchesAreSequential == Spec => []SequentialBatch
  <1>1. BatchInv => SequentialBatch
    BY DEF BatchInv
  <1>2. QED
    BY TypeCorrect, TypesApart, InitBatch, NextBatch, <1>1, PTL DEF Spec

\* One step changes the outcome of an ended run only to failed: the repositories
\* are called for the current record alone, whose run is open until the last call.
LEMMA OutcomeStep ==
    HandlerInv /\ BatchInv /\ [Next]_vars =>
        \A j \in Jobs : runs[j].status \in {"success", "skipped", "failed"} =>
            runs'[j].status \in {runs[j].status, "failed"}
  <1> SUFFICES ASSUME HandlerInv, BatchInv, [Next]_vars, NEW j \in Jobs,
                      runs[j].status \in {"success", "skipped", "failed"}
               PROVE  runs'[j].status \in {runs[j].status, "failed"}
    OBVIOUS
  <1>1. runs \in [Jobs -> RunRows]
    BY DEF HandlerInv, HandlerTypes
  <1>2. CASE runs' = runs
    BY <1>2
  <1>3. ASSUME NEW d \in Deliveries, CreateRun(d)
        PROVE  runs'[j].status = runs[j].status
    <2>1. rec[d] <= MaxRecords /\ pc[d] = "record"
      BY <1>3, ConstantsAssumption DEF CreateRun, HandlerInv, ControlOK
    <2>2. runs[Job(d)].status = "absent"
      BY <2>1 DEF BatchInv, RunOpen
    <2>3. QED
      BY <1>1, <1>3, <2>2 DEF CreateRun, createRun
  <1>4. ASSUME NEW d \in Deliveries, SaveRun(d)
        PROVE  runs'[j].status = runs[j].status
    <2>1. pc[d] \in InRecord \ {"catch"}
      BY <1>4 DEF SaveRun, InRecord, Busy, Skipping, InTry
    <2>2. runs[Job(d)].status = "running"
      BY <2>1 DEF BatchInv, RunOpen
    <2>3. QED
      BY <1>1, <1>4, <2>2 DEF SaveRun
  <1>5. ASSUME NEW d \in Deliveries, FinishSuccess(d) \/ FinishSkipped(d)
        PROVE  runs'[j].status = runs[j].status
    <2>1. PICK here \in {"finish", "skipEnd"}, status \in {"success", "skipped"} :
             FinishRun(d, here, status)
      BY <1>5 DEF FinishSuccess, FinishSkipped
    <2>2. pc[d] \in InRecord \ {"catch"}
      BY <2>1 DEF FinishRun, InRecord, Busy, Skipping, InTry
    <2>3. runs[Job(d)].status = "running" /\ Job(d) \in Jobs
      BY <2>2, RecordTypes DEF BatchInv, RunOpen
    <2>4. j # Job(d) /\ status \in RunStatus
      BY <2>1, <2>3 DEF RunStatus
    <2>5. runs' = finishRun(Job(d), status)
      BY <2>1 DEF FinishRun
    <2>6. finishRun(Job(d), status)[j] = runs[j]
      BY <2>3, <2>4, ClosedRun DEF HandlerInv
    <2>7. QED
      BY <2>5, <2>6
  <1>6. ASSUME NEW d \in Deliveries, FinishFailed(d)
        PROVE  runs'[j].status \in {runs[j].status, "failed"}
    <2>1. Job(d) \in Jobs
      BY <1>6, RecordTypes DEF FinishFailed, InRecord, Busy
    <2>2. CASE j = Job(d)
      BY <1>6, <2>1, <2>2, ClosedRun DEF FinishFailed, HandlerInv, RunStatus
    <2>3. CASE j # Job(d)
      BY <1>6, <2>1, <2>3, ClosedRun DEF FinishFailed, HandlerInv, RunStatus
    <2>4. QED
      BY <2>2, <2>3
  <1>7. ASSUME NEW d \in Deliveries, Step(d),
               ~CreateRun(d), ~SaveRun(d), ~FinishSuccess(d), ~FinishSkipped(d), ~FinishFailed(d)
        PROVE  runs' = runs
    BY <1>7
       DEF Step, EndBatch, RejectRecord, StartDedup, CheckRedis, CheckLedger, Remember,
           FinishDedup, SkipDedup, StartNormalize, FinishNormalize, StartCurrency, Convert,
           StartValidation, Validate, ValidateRefused, ReadRun, StartPersist, Upsert,
           FinishPersist, StartStage, FinishStage, tables
  <1>8. ASSUME NEW d \in Deliveries, Step(d)
        PROVE  runs'[j].status \in {runs[j].status, "failed"}
    BY <1>3, <1>4, <1>5, <1>6, <1>7, <1>8
  <1>9. CASE ~(\E d \in Deliveries : Step(d))
    <2>1. runs' = runs
      BY <1>9 DEF Next, Environment, Receive, Publish, Lose, Expire, CallFails, Crash,
                  tables, vars
    <2>2. QED
      BY <2>1
  <1>10. QED
    BY <1>8, <1>9

\* A run that has ended keeps its outcome, or becomes failed when the answer to
\* its closing update is lost; it never runs again.
THEOREM OutcomesAreFinal == Spec => FinishedStaysFinished
  <1>1. HandlerInv /\ BatchInv /\ [Next]_vars =>
           [\A j \in Jobs :
              runs[j].status \in {"success", "skipped", "failed"} =>
                  runs'[j].status \in {runs[j].status, "failed"}]_vars
    BY OutcomeStep
  <1>2. QED
    BY TypeCorrect, TypesApart, InitBatch, NextBatch, <1>1, PTL DEF Spec, FinishedStaysFinished

-----------------------------------------------------------------------------
(* What each stage of processExpense leaves behind *)

\* The stages of job j, in the order of processExpense.
StagesAre(j, dedup, normalize, currency, validation, persist) ==
    /\ stages[j]["dedup"] = dedup
    /\ stages[j]["normalize"] = normalize
    /\ stages[j]["currency"] = currency
    /\ stages[j]["validation"] = validation
    /\ stages[j]["persist"] = persist

\* How far the current job has come at each control point.
StagesFit(d) ==
    /\ pc[d] \in {"record", "dedup"} /\ rec[d] <= MaxRecords =>
          StagesAre(Job(d), "absent", "absent", "absent", "absent", "absent")
    /\ pc[d] \in {"exists", "query", "remember", "deduped", "skipStage"} =>
          StagesAre(Job(d), "running", "absent", "absent", "absent", "absent")
    /\ pc[d] \in Skipping /\ cause[d] \in Duplicate =>
          StagesAre(Job(d), "skipped", "absent", "absent", "absent", "absent")
    /\ pc[d] \in Skipping /\ cause[d] = "negative_amount" =>
          StagesAre(Job(d), "success", "skipped", "absent", "absent", "absent")
    /\ pc[d] = "normalize" =>
          StagesAre(Job(d), "success", "absent", "absent", "absent", "absent")
    /\ pc[d] = "normalized" =>
          StagesAre(Job(d), "success", "running", "absent", "absent", "absent")
    /\ pc[d] = "currency" =>
          StagesAre(Job(d), "success", "success", "absent", "absent", "absent")
    /\ pc[d] = "convert" =>
          StagesAre(Job(d), "success", "success", "running", "absent", "absent")
    /\ pc[d] = "validation" =>
          StagesAre(Job(d), "success", "success", "success", "absent", "absent")
    /\ pc[d] = "validate" =>
          StagesAre(Job(d), "success", "success", "success", "running", "absent")
    /\ pc[d] \in {"metaRead", "metaSave", "persist"} =>
          StagesAre(Job(d), "success", "success", "success", "success", "absent")
    /\ pc[d] \in {"upsert", "persisted"} =>
          StagesAre(Job(d), "success", "success", "success", "success", "running")
    /\ pc[d] = "finish" =>
          StagesAre(Job(d), "success", "success", "success", "success", "success")

Unexplained == {"record", "dedup", "exists", "query", "persisted", "finish"} \union Window
Accepted == {"currency", "convert", "validation", "validate", "metaRead", "metaSave",
             "persist", "upsert"}

\* What the meta of the current run and the locals of its handler hold meanwhile:
\* nobody else writes the row that mergeMeta has read.
MetaFits(d) ==
    /\ pc[d] \in Unexplained \union {"idle"} => cause[d] = None
    /\ pc[d] = "skipStage" => cause[d] \in Duplicate
    /\ pc[d] \in InRecord \ {"skipEnd", "catch"} => runs[Job(d)].causes = {}
    /\ pc[d] = "skipEnd" => runs[Job(d)].causes = {cause[d]}
    /\ pc[d] \in {"skipSave", "metaSave"} => row[d] = runs[Job(d)]
    /\ pc[d] \in {"persist", "upsert"} => runs[Job(d)].validation = verdict[d]
    /\ pc[d] \in Accepted => Fp(d) \notin Negative
    /\ pc[d] \in {"persisted", "finish"} => expenses[IdOf[Record(d)]] # None

\* A row belongs to a job that exists and has come as far as the write.
OwnersWrote ==
    \A x \in ExpenseIds : expenses[x] # None =>
        /\ runs[expenses[x].job].status # "absent"
        /\ \A d \in Deliveries :
              pc[d] \in InRecord \ {"persisted", "finish", "catch"} =>
                  expenses[x].job # Job(d)

\* A run is about an event of the message its delivery took.
RunsOfEvents ==
    \A j \in Jobs : runs[j].status # "absent" =>
        pc[j[1]] # "idle" /\ Records[msg[j[1]]][j[2]] \in Events

PipeInv ==
    /\ \A d \in Deliveries : StagesFit(d) /\ MetaFits(d)
    /\ RunsOfEvents
    /\ OwnersWrote
    /\ SkipHasOneCause
    /\ SuccessIsPersisted
    /\ LedgerBacked

\* The job that wrote a row is of the row's fingerprint and is not being skipped.
OwnersStand ==
    \A x \in ExpenseIds : expenses[x] # None =>
        LET j == expenses[x].job IN
        /\ FpOf[Records[msg[j[1]]][j[2]]] = expenses[x].fp
        /\ j[2] = rec[j[1]] => cause[j[1]] = None

\* Why a record that is no duplicate may be skipped.
Objections(fp) == IF fp \in Negative THEN {"negative_amount"} ELSE {}

\* Job <<e, n>> has passed the duplicate check under key k and is not, nor will be,
\* skipped as a duplicate.
Holds(e, n, k) ==
    /\ runs[<<e, n>>].status # "absent"
    /\ runs[<<e, n>>].causes \subseteq Objections(k[2])
    /\ k = <<ProcessOf[msg[e]], FpOf[Records[msg[e]][n]]>>
    /\ n = rec[e] =>
          /\ cause[e] \in Objections(k[2]) \union {None}
          /\ pc[e] \notin {"dedup", "exists", "query", "skipStage"}

Held(k) == \E e \in Deliveries, n \in 1 .. MaxRecords : Holds(e, n, k)

\* What was found in Redis is held under that very key, what was found in the ledger
\* under the key of some process.
Kept(c, k) ==
    \E p \in Processes : Held(<<p, k[2]>>) /\ (c = "duplicate_fingerprint" => p = k[1])

\* Every key in Redis, every job being skipped as a duplicate and every job skipped as
\* one has such a holder.
PriorInv ==
    /\ OwnersStand
    /\ \A k \in keys : Held(k)
    /\ \A c \in Duplicate, d \in Deliveries : cause[d] = c => Kept(c, DedupKey(d))
    /\ \A c \in Duplicate, d \in Deliveries, i \in 1 .. MaxRecords :
          c \in runs[<<d, i>>].causes =>
              Kept(c, <<ProcessOf[msg[d]], FpOf[Records[msg[d]][i]]>>)

-----------------------------------------------------------------------------
(* Who touches what *)

\* What the three invariants on runs say of one job, and the one on rows of one row.
SkipOK(j) ==
    runs[j].status = "skipped" =>
        /\ \E c \in Causes : runs[j].causes = {c}
        /\ \A s \in {"currency", "validation", "persist"} : stages[j][s] = "absent"
        /\ stages[j]["dedup"] = "skipped" <=> "negative_amount" \notin runs[j].causes

SuccessOK(j) ==
    runs[j].status = "success" =>
        /\ \A s \in Stages : stages[j][s] = "success"
        /\ expenses[IdOf[Records[msg[j[1]]][j[2]]]] # None

Backed(x) ==
    LET j == expenses[x].job IN
    /\ \A s \in Stages \ {"persist"} : stages[j][s] = "success"
    /\ runs[j].validation = expenses[x].status
    /\ runs[j].causes = {}
    /\ runs[j].status # "skipped"
    /\ expenses[x].fp \notin Negative

\* The current job of a busy delivery is a job, and it is nobody else's.
LEMMA JobTypes ==
    ASSUME HandlerInv, NEW d \in Deliveries, pc[d] # "idle",
           pc[d] \in InRecord \/ rec[d] <= MaxRecords
    PROVE  /\ Job(d) \in Jobs
           /\ msg[d] \in Messages
           /\ rec[d] \in 1 .. MaxRecords
  BY ConstantsAssumption, RecordTypes
     DEF HandlerInv, HandlerTypes, ControlOK, Job, Jobs, InRecord, Busy, BeforeTry, Skipping, InTry

\* A step of a handler touches its own locals, run and stages only.
LEMMA OwnStep ==
    ASSUME HandlerInv, NEW d \in Deliveries, Step(d) \/ CallFails(d)
    PROVE  /\ msg' = msg
           /\ \A e \in Deliveries : e # d =>
                 /\ pc'[e] = pc[e] /\ rec'[e] = rec[e] /\ row'[e] = row[e]
                 /\ cause'[e] = cause[e] /\ verdict'[e] = verdict[e]
           /\ \A k \in Jobs : k # Job(d) => runs'[k] = runs[k] /\ stages'[k] = stages[k]
           /\ ~Upsert(d) => expenses' = expenses
  <1>1. /\ runs \in [Jobs -> RunRows] /\ stages \in [Jobs -> [Stages -> StageStatus]]
        /\ pc \in [Deliveries -> Controls] /\ row \in [Deliveries -> RunRows]
        /\ rec \in [Deliveries -> 0 .. MaxRecords + 1]
        /\ cause \in [Deliveries -> Causes \union {None}]
        /\ verdict \in [Deliveries -> Verdicts \union {None}]
    BY DEF HandlerInv, HandlerTypes
  <1>2. ASSUME NEW next \in Controls, GoTo(d, next)
        PROVE  \A e \in Deliveries : e # d => pc'[e] = pc[e]
    BY <1>2, GoToTarget DEF HandlerInv
  <1>3. Throw(d) => \A e \in Deliveries : e # d => pc'[e] = pc[e]
    BY ThrowTarget DEF HandlerInv
  <1>4. ASSUME NEW here \in Controls, NEW s \in Stages, NEW next \in Controls,
               StartStage(d, here, s, next)
        PROVE  /\ msg' = msg /\ rec' = rec /\ row' = row /\ cause' = cause
               /\ verdict' = verdict /\ runs' = runs /\ expenses' = expenses
               /\ \A e \in Deliveries : e # d => pc'[e] = pc[e]
               /\ \A k \in Jobs : k # Job(d) => stages'[k] = stages[k]
    BY <1>1, <1>2, <1>4 DEF StartStage, startStage, locals
  <1>5. ASSUME NEW here \in Controls, NEW s \in Stages, NEW status \in StageStatus,
               NEW next \in Controls, FinishStage(d, here, s, status, next)
        PROVE  /\ msg' = msg /\ rec' = rec /\ row' = row
               /\ runs' = runs /\ expenses' = expenses
               /\ \A e \in Deliveries : e # d => pc'[e] = pc[e]
               /\ \A k \in Jobs : k # Job(d) => stages'[k] = stages[k]
    BY <1>1, <1>2, <1>5 DEF FinishStage, finishStage
  <1>6. CASE \/ StartDedup(d) \/ StartNormalize(d) \/ StartCurrency(d)
             \/ StartValidation(d) \/ StartPersist(d)
    BY <1>4, <1>6
       DEF StartDedup, StartNormalize, StartCurrency, StartValidation, StartPersist,
           Stages, Controls, Busy, BeforeTry, InTry
  <1>7. CASE FinishDedup(d) \/ SkipDedup(d) \/ Convert(d) \/ FinishPersist(d)
    BY <1>5, <1>7
       DEF FinishDedup, SkipDedup, Convert, FinishPersist, Stages, StageStatus,
           Controls, Busy, BeforeTry, Skipping, InTry
  <1>8. CASE FinishNormalize(d) \/ Validate(d)
    <2>1. \E here \in Controls, s \in Stages, status \in StageStatus, next \in Controls :
             FinishStage(d, here, s, status, next)
      BY <1>8 DEF FinishNormalize, Validate, Stages, StageStatus, Controls, Busy, Skipping, InTry
    <2>2. \A e \in Deliveries : e # d => cause'[e] = cause[e] /\ verdict'[e] = verdict[e]
      BY <1>1, <1>8 DEF FinishNormalize, Validate
    <2> QED
      BY <1>5, <2>1, <2>2
  <1>9. CASE CheckRedis(d) \/ CheckLedger(d)
    BY <1>1, <1>9 DEF CheckRedis, CheckLedger, tables
  <1>10. CASE Remember(d) \/ Upsert(d)
    BY <1>2, <1>10 DEF Remember, Upsert, tables, locals, Controls, Busy, BeforeTry, InTry
  <1>11. CASE ReadRun(d)
    BY <1>1, <1>11 DEF ReadRun, tables
  <1>12. CASE SaveRun(d)
    BY <1>1, <1>2, <1>12 DEF SaveRun, Controls, Busy, Skipping, InTry
  <1>13. CASE CreateRun(d)
    BY <1>1, <1>2, <1>13 DEF CreateRun, createRun, locals, Controls, Busy, BeforeTry
  <1>14. CASE FinishSuccess(d) \/ FinishSkipped(d)
    <2>1. PICK here \in {"finish", "skipEnd"}, status \in RunStatus :
             FinishRun(d, here, status)
      BY <1>14 DEF FinishSuccess, FinishSkipped, RunStatus
    <2>2. Job(d) \in Jobs
      BY <2>1, RecordTypes DEF FinishRun, InRecord, Busy, Skipping, InTry
    <2>3. \A k \in Jobs : k # Job(d) => runs'[k] = runs[k]
      BY <2>1, <2>2, ClosedRun DEF FinishRun, HandlerInv
    <2> QED
      BY <1>1, <1>3, <2>1, <2>3 DEF FinishRun
  <1>15. CASE FinishFailed(d)
    <2>1. Job(d) \in Jobs
      BY <1>15, RecordTypes DEF FinishFailed, InRecord, Busy
    <2> QED
      BY <1>1, <1>15, <2>1, ClosedRun DEF FinishFailed, HandlerInv, RunStatus, locals
  <1>16. CASE EndBatch(d) \/ RejectRecord(d)
    BY <1>1, <1>16 DEF EndBatch, RejectRecord, tables, locals
  <1>17. CASE ValidateRefused(d) \/ CallFails(d)
    BY <1>3, <1>17 DEF ValidateRefused, CallFails, tables, locals
  <1> QED
    BY <1>6, <1>7, <1>8, <1>9, <1>10, <1>11, <1>12, <1>13, <1>14, <1>15, <1>16, <1>17 DEF Step

-----------------------------------------------------------------------------
(* The pipeline of a record *)

\* A step of a handler leaves every other delivery, job and row as the invariant
\* has it; what it says of its own is to be shown.
LEMMA PipeFrame ==
    ASSUME HandlerInv, RowTypes, BatchInv, PipeInv, NEW d \in Deliveries,
           Job(d) \in Jobs, Record(d) \in Events,
           pc[d] # "idle", pc'[d] # "idle", msg' = msg,
           \A e \in Deliveries : e # d =>
                 /\ pc'[e] = pc[e] /\ rec'[e] = rec[e] /\ row'[e] = row[e]
                 /\ cause'[e] = cause[e] /\ verdict'[e] = verdict[e],
           \A k \in Jobs : k # Job(d) => runs'[k] = runs[k] /\ stages'[k] = stages[k],
           \A x \in ExpenseIds :
               /\ expenses[x] # None => expenses'[x] # None
               /\ expenses'[x] # None =>
                     \/ /\ expenses'[x] = expenses[x]
                        /\ expenses[x].job # Job(d)
                     \/ /\ expenses'[x].job = Job(d)
                        /\ pc'[d] \notin InRecord \ {"persisted", "finish", "catch"}
                        /\ Backed(x)',
           pc'[d] \in InRecord => rec'[d] = rec[d],
           StagesFit(d)', MetaFits(d)',
           runs'[Job(d)].status # "absent",
           runs'[Job(d)].status = "skipped" =>
               /\ \E c \in Causes : runs'[Job(d)].causes = {c}
               /\ \A s \in {"currency", "validation", "persist"} : stages'[Job(d)][s] = "absent"
               /\ stages'[Job(d)]["dedup"] = "skipped"
                     <=> "negative_amount" \notin runs'[Job(d)].causes,
           runs'[Job(d)].status = "success" =>
               /\ \A s \in Stages : stages'[Job(d)][s] = "success"
               /\ expenses'[IdOf[Record(d)]] # None
    PROVE  PipeInv'
  <1>1. ASSUME NEW e \in Deliveries, e # d
        PROVE  /\ Job(e)' = Job(e) /\ Job(e) # Job(d) /\ Record(e)' = Record(e)
               /\ Fp(e)' = Fp(e)
               /\ pc[e] \in InRecord \/ (pc[e] = "record" /\ rec[e] <= MaxRecords) =>
                     Job(e) \in Jobs /\ runs'[Job(e)] = runs[Job(e)]
                                     /\ stages'[Job(e)] = stages[Job(e)]
               /\ pc[e] \in InRecord => IdOf[Record(e)] \in ExpenseIds
    <2>1. Job(e)' = Job(e) /\ Job(e) # Job(d)
      BY <1>1 DEF Job
    <2>2. Record(e)' = Record(e) /\ Fp(e)' = Fp(e)
      BY <1>1 DEF Record, Fp
    <2>3. pc[e] \in InRecord \/ (pc[e] = "record" /\ rec[e] <= MaxRecords) => Job(e) \in Jobs
      BY JobTypes DEF InRecord, Busy, BeforeTry, Skipping, InTry
    <2> QED
      BY <2>1, <2>2, <2>3, RecordTypes
  <1>2. ASSUME NEW e \in Deliveries, e # d
        PROVE  StagesFit(e)'
    <2>1. pc[e] \in InRecord \/ (pc[e] = "record" /\ rec[e] <= MaxRecords) \/ pc[e] \notin Busy
          \/ (pc[e] = "record" /\ ~(rec[e] <= MaxRecords))
      BY DEF InRecord
    <2>2. StagesFit(e) /\ pc'[e] = pc[e] /\ cause'[e] = cause[e] /\ rec'[e] = rec[e]
      BY <1>2 DEF PipeInv
    <2>3. CASE pc[e] \in InRecord \/ (pc[e] = "record" /\ rec[e] <= MaxRecords)
      BY <1>1, <1>2, <2>2, <2>3 DEF StagesFit, StagesAre
    <2>4. CASE pc[e] \notin Busy
      BY <2>2, <2>4 DEF StagesFit, Busy, BeforeTry, Skipping, InTry
    <2>5. CASE pc[e] = "record" /\ ~(rec[e] <= MaxRecords)
      BY <2>2, <2>5 DEF StagesFit, Skipping
    <2> QED
      BY <2>1, <2>3, <2>4, <2>5
  <1>3. ASSUME NEW e \in Deliveries, e # d
        PROVE  MetaFits(e)'
    <2>1. /\ MetaFits(e) /\ pc'[e] = pc[e] /\ cause'[e] = cause[e]
          /\ row'[e] = row[e] /\ verdict'[e] = verdict[e]
      BY <1>3 DEF PipeInv
    <2>2. CASE pc[e] \in InRecord
      BY <1>1, <1>3, <2>1, <2>2 DEF MetaFits
    <2>3. CASE pc[e] \notin InRecord
      BY <2>1, <2>3 DEF MetaFits, InRecord, Busy, BeforeTry, Skipping, InTry, Accepted
    <2> QED
      BY <2>2, <2>3
  <1>4. OwnersWrote'
    <2>1. SUFFICES ASSUME NEW x \in ExpenseIds, expenses'[x] # None
                   PROVE  /\ runs'[expenses'[x].job].status # "absent"
                          /\ \A e \in Deliveries :
                                pc'[e] \in InRecord \ {"persisted", "finish", "catch"} =>
                                    expenses'[x].job # Job(e)'
      BY DEF OwnersWrote
    <2>2. CASE expenses'[x].job = Job(d)
      BY <1>1, <2>1, <2>2
    <2>3. CASE expenses'[x] = expenses[x] /\ expenses[x].job # Job(d)
      <3>1. /\ expenses[x].job \in Jobs
            /\ runs[expenses[x].job].status # "absent"
        BY <2>1, <2>3 DEF PipeInv, OwnersWrote, HandlerInv, HandlerTypes, RowTypes, ExpenseRows
      <3>2. ASSUME NEW e \in Deliveries, e # d,
                   pc'[e] \in InRecord \ {"persisted", "finish", "catch"}
            PROVE  expenses'[x].job # Job(e)'
        BY <1>1, <2>1, <2>3, <3>2 DEF PipeInv, OwnersWrote
      <3>3. ASSUME pc'[d] \in InRecord \ {"persisted", "finish", "catch"}
            PROVE  expenses'[x].job # Job(d)'
        BY <2>3, <3>3 DEF Job
      <3> QED
        BY <2>3, <3>1, <3>2, <3>3
    <2> QED
      BY <2>1, <2>2, <2>3
  <1>5. RunsOfEvents'
    <2>1. SUFFICES ASSUME NEW j \in Jobs, runs'[j].status # "absent"
                   PROVE  pc'[j[1]] # "idle" /\ Records[msg[j[1]]][j[2]] \in Events
      BY DEF RunsOfEvents
    <2>2. CASE j = Job(d)
      BY <2>2 DEF Job, Record
    <2>3. CASE j # Job(d)
      <3>1. pc[j[1]] # "idle" /\ Records[msg[j[1]]][j[2]] \in Events
        BY <2>1, <2>3 DEF PipeInv, RunsOfEvents
      <3>2. j[1] \in Deliveries
        BY DEF Jobs
      <3> QED
        BY <3>1, <3>2
    <2> QED
      BY <2>2, <2>3
  <1>6. ASSUME NEW j \in Jobs PROVE SkipOK(j)' /\ SuccessOK(j)'
    <2>1. CASE j = Job(d)
      BY <2>1 DEF SkipOK, SuccessOK, Job, Record
    <2>2. CASE j # Job(d)
      <3>1. SkipOK(j) /\ SuccessOK(j)
        BY DEF PipeInv, SkipHasOneCause, SuccessIsPersisted, SkipOK, SuccessOK
      <3>2. runs'[j] = runs[j] /\ stages'[j] = stages[j]
        BY <2>2
      <3>3. runs[j].status = "success" => IdOf[Records[msg[j[1]]][j[2]]] \in ExpenseIds
        BY ConstantsAssumption DEF PipeInv, RunsOfEvents
      <3> QED
        BY <3>1, <3>2, <3>3 DEF SkipOK, SuccessOK
    <2> QED
      BY <2>1, <2>2
  <1>7. SkipHasOneCause' /\ SuccessIsPersisted'
    BY <1>6 DEF SkipOK, SuccessOK, SkipHasOneCause, SuccessIsPersisted
  <1>8. LedgerBacked'
    <2>1. SUFFICES ASSUME NEW x \in ExpenseIds, expenses'[x] # None PROVE Backed(x)'
      BY DEF LedgerBacked, Backed
    <2>2. CASE expenses'[x] = expenses[x] /\ expenses[x].job # Job(d)
      <3>1. expenses[x].job \in Jobs /\ Backed(x)
        BY <2>1, <2>2 DEF PipeInv, LedgerBacked, Backed, HandlerInv, HandlerTypes, RowTypes, ExpenseRows
      <3>2. /\ runs'[expenses[x].job] = runs[expenses[x].job]
            /\ stages'[expenses[x].job] = stages[expenses[x].job]
        BY <2>2, <3>1
      <3> QED
        BY <2>2, <3>1, <3>2 DEF Backed
    <2> QED
      BY <2>1, <2>2
  <1>9. \A e \in Deliveries : StagesFit(e)' /\ MetaFits(e)'
    BY <1>2, <1>3
  <1> QED
    BY <1>4, <1>5, <1>7, <1>8, <1>9 DEF PipeInv

\* A step that touches no table and no local and moves nobody but out of a record.
LEMMA PipeIdle ==
    ASSUME PipeInv, UNCHANGED tables, UNCHANGED locals,
           \A e \in Deliveries : pc'[e] \in {pc[e], "catch"} \union Ended
    PROVE  PipeInv'
  <1>1. /\ runs' = runs /\ stages' = stages /\ expenses' = expenses
        /\ msg' = msg /\ rec' = rec /\ cause' = cause /\ row' = row /\ verdict' = verdict
    BY DEF tables, locals
  <1>2. \A e \in Deliveries : Job(e)' = Job(e) /\ Record(e)' = Record(e) /\ Fp(e)' = Fp(e)
    BY <1>1 DEF Job, Record, Fp
  <1>3. ASSUME NEW e \in Deliveries PROVE StagesFit(e)' /\ MetaFits(e)'
    <2>1. StagesFit(e) /\ MetaFits(e)
      BY DEF PipeInv
    <2>2. CASE pc'[e] = pc[e]
      BY <1>1, <1>2, <2>1, <2>2 DEF StagesFit, StagesAre, MetaFits
    <2>3. CASE pc'[e] \in {"catch"} \union Ended
      <3>1. pc'[e] \notin InRecord \ {"catch"}
            /\ pc'[e] \notin Unexplained \union Skipping \union Accepted \union {"idle"}
        BY <2>3 DEF Ended, InRecord, Busy, BeforeTry, Skipping, InTry, Unexplained, Window,
                    Accepted
      <3>2. StagesFit(e)'
        BY <2>3 DEF StagesFit, Ended, Skipping
      <3>3. MetaFits(e)'
        BY <2>3, <3>1 DEF MetaFits, Ended
      <3> QED
        BY <3>2, <3>3
    <2> QED
      BY <2>2, <2>3
  <1>4. OwnersWrote'
    BY <1>1, <1>2 DEF PipeInv, OwnersWrote, Ended, InRecord, Busy, BeforeTry, Skipping, InTry
  <1>5. RunsOfEvents'
    BY <1>1 DEF PipeInv, RunsOfEvents, Jobs, Ended
  <1>6. SkipHasOneCause' /\ SuccessIsPersisted' /\ LedgerBacked'
    BY <1>1 DEF PipeInv, SkipHasOneCause, SuccessIsPersisted, LedgerBacked
  <1> QED
    BY <1>3, <1>4, <1>5, <1>6 DEF PipeInv

\* A job that is still running, and whose handler has not come past the write, owns
\* no row: a step that keeps the run running and writes no row has its own stages
\* and meta to answer for, and nothing else.
LEMMA PipeRunning ==
    ASSUME HandlerInv, RowTypes, BatchInv, PipeInv, NEW d \in Deliveries,
           Step(d), ~Upsert(d), pc[d] \in InRecord \ {"persisted", "finish", "catch"},
           rec' = rec, runs'[Job(d)].status = "running", pc'[d] # "idle",
           StagesFit(d)', MetaFits(d)'
    PROVE  PipeInv'
  <1>1. /\ Job(d) \in Jobs /\ Record(d) \in Events /\ pc[d] # "idle"
    BY RecordTypes DEF InRecord, Busy, BeforeTry, Skipping, InTry
  <1>2. \A x \in ExpenseIds : expenses[x] # None => expenses[x].job # Job(d)
    BY DEF PipeInv, OwnersWrote
  <1>3. expenses' = expenses
    BY OwnStep
  <1> QED
    BY <1>1, <1>2, <1>3, OwnStep, PipeFrame

\* A handler that has left its record has nothing to answer for.
LEMMA FitsGone ==
    ASSUME NEW d \in Deliveries, pc'[d] \in {"catch"} \union Ended
    PROVE  StagesFit(d)' /\ MetaFits(d)'
  <1>1. pc'[d] \notin InRecord \ {"catch"}
        /\ pc'[d] \notin Unexplained \union Skipping \union Accepted \union {"idle"}
    BY DEF Ended, InRecord, Busy, BeforeTry, Skipping, InTry, Unexplained, Window, Accepted
  <1>2. StagesFit(d)'
    BY DEF StagesFit, Ended, Skipping
  <1>3. MetaFits(d)'
    BY <1>1 DEF MetaFits, Ended
  <1> QED
    BY <1>2, <1>3

\* Opening a stage.
LEMMA StageStarted ==
    ASSUME HandlerInv, NEW d \in Deliveries, NEW here \in InRecord, NEW s \in Stages,
           NEW next \in InRecord, StartStage(d, here, s, next)
    PROVE  /\ pc[d] = here /\ pc'[d] \in {next, "catch", "failed"}
           /\ UNCHANGED <<runs, expenses, msg, rec, cause, row, verdict>>
           /\ stages'[Job(d)][s] = "running"
           /\ \A t \in Stages : t # s => stages'[Job(d)][t] = stages[Job(d)][t]
           /\ Job(d)' = Job(d) /\ Record(d)' = Record(d) /\ Fp(d)' = Fp(d)
  <1>1. pc[d] = here /\ Job(d) \in Jobs
    BY RecordTypes DEF StartStage
  <1>2. pc'[d] \in {next, "catch", "failed"}
    BY GoToTarget DEF StartStage, HandlerInv, InRecord, Controls
  <1> QED
    BY <1>1, <1>2 DEF StartStage, startStage, locals, HandlerInv, HandlerTypes, Job, Record, Fp

\* Closing a stage that is open.
LEMMA StageFinished ==
    ASSUME HandlerInv, NEW d \in Deliveries, NEW here \in InRecord, NEW s \in Stages,
           NEW status \in StageStatus, NEW next \in InRecord,
           FinishStage(d, here, s, status, next), stages[Job(d)][s] # "absent"
    PROVE  /\ pc[d] = here /\ pc'[d] \in {next, "catch", "failed"}
           /\ UNCHANGED <<runs, expenses, msg, rec, row>>
           /\ stages'[Job(d)][s] = status
           /\ \A t \in Stages : t # s => stages'[Job(d)][t] = stages[Job(d)][t]
           /\ Job(d)' = Job(d) /\ Record(d)' = Record(d) /\ Fp(d)' = Fp(d)
  <1>1. pc[d] = here /\ Job(d) \in Jobs
    BY RecordTypes DEF FinishStage
  <1>2. pc'[d] \in {next, "catch", "failed"}
    BY GoToTarget DEF FinishStage, HandlerInv, InRecord, Controls
  <1> QED
    BY <1>1, <1>2 DEF FinishStage, finishStage, HandlerInv, HandlerTypes, Job, Record, Fp

\* The control points of a record.
LEMMA RecordPoints ==
    /\ BeforeTry \ {"record"} \subseteq InRecord
    /\ Skipping \subseteq InRecord /\ InTry \subseteq InRecord
    /\ InRecord = (BeforeTry \ {"record"}) \union Skipping \union InTry \union {"catch"}
  BY DEF InRecord, Busy, BeforeTry, Skipping, InTry

\* The five stages are opened where processExpense has come that far.
LEMMA PipeStarts ==
    ASSUME HandlerInv, RowTypes, BatchInv, PipeInv, NEW d \in Deliveries,
           \/ StartDedup(d) \/ StartNormalize(d) \/ StartCurrency(d)
           \/ StartValidation(d) \/ StartPersist(d)
    PROVE  PipeInv'
  <1>1. StagesFit(d) /\ MetaFits(d) /\ Step(d)
    BY DEF PipeInv, Step
  <1>2. ASSUME NEW here \in InRecord \ {"persisted", "finish", "catch"}, NEW s \in Stages,
               NEW next \in InRecord, StartStage(d, here, s, next), ~Upsert(d),
               pc'[d] = next => StagesFit(d)' /\ MetaFits(d)'
        PROVE  PipeInv'
    <2>1. /\ pc[d] = here /\ pc'[d] \in {next, "catch", "failed"}
          /\ UNCHANGED <<runs, rec>> /\ Job(d)' = Job(d)
      BY <1>2, StageStarted
    <2>2. runs'[Job(d)].status = "running"
      BY <2>1 DEF BatchInv, RunOpen
    <2>3. StagesFit(d)' /\ MetaFits(d)'
      BY <1>2, <2>1, FitsGone DEF Ended
    <2>4. pc'[d] # "idle"
      BY <2>1 DEF InRecord, Busy, BeforeTry, Skipping, InTry
    <2> QED
      BY <1>1, <1>2, <2>1, <2>2, <2>3, <2>4, PipeRunning
  <1>3. CASE StartDedup(d)
    <2>1. "dedup" \in InRecord /\ "exists" \in InRecord /\ "dedup" \in Stages
      BY RecordPoints DEF BeforeTry, Stages
    <2>2. StartStage(d, "dedup", "dedup", "exists")
      BY <1>3 DEF StartDedup
    <2>3. ASSUME pc'[d] = "exists" PROVE StagesFit(d)' /\ MetaFits(d)'
      <3>0. rec[d] <= MaxRecords
        BY <2>1, <2>2, JobTypes DEF StartStage
      <3>1. StagesAre(Job(d), "running", "absent", "absent", "absent", "absent")'
        BY <1>1, <2>1, <2>2, <3>0, StageStarted DEF StagesFit, StagesAre, Stages
      <3>2. StagesFit(d)'
        BY <2>3, <3>1 DEF StagesFit, Skipping
      <3>3. MetaFits(d)'
        BY <1>1, <2>1, <2>2, <2>3, StageStarted
           DEF MetaFits, Unexplained, Window, Accepted, Skipping
      <3> QED
        BY <3>2, <3>3
    <2> QED
      BY <1>2, <2>1, <2>2, <2>3 DEF Upsert, StartStage
  <1>4. CASE StartNormalize(d)
    <2>1. "normalize" \in InRecord /\ "normalized" \in InRecord /\ "normalize" \in Stages
      BY RecordPoints DEF InTry, Stages
    <2>2. StartStage(d, "normalize", "normalize", "normalized")
      BY <1>4 DEF StartNormalize
    <2>3. ASSUME pc'[d] = "normalized" PROVE StagesFit(d)' /\ MetaFits(d)'
      <3>1. StagesAre(Job(d), "success", "running", "absent", "absent", "absent")'
        BY <1>1, <2>1, <2>2, StageStarted DEF StagesFit, StagesAre, Stages
      <3>2. StagesFit(d)'
        BY <2>3, <3>1 DEF StagesFit, Skipping
      <3>3. MetaFits(d)'
        BY <1>1, <2>1, <2>2, <2>3, StageStarted
           DEF MetaFits, Unexplained, Window, Accepted, Skipping
      <3> QED
        BY <3>2, <3>3
    <2> QED
      BY <1>2, <2>1, <2>2, <2>3 DEF Upsert, StartStage
  <1>5. CASE StartCurrency(d)
    <2>1. "currency" \in InRecord /\ "convert" \in InRecord /\ "currency" \in Stages
      BY RecordPoints DEF InTry, Stages
    <2>2. StartStage(d, "currency", "currency", "convert")
      BY <1>5 DEF StartCurrency
    <2>3. ASSUME pc'[d] = "convert" PROVE StagesFit(d)' /\ MetaFits(d)'
      <3>1. StagesAre(Job(d), "success", "success", "running", "absent", "absent")'
        BY <1>1, <2>1, <2>2, StageStarted DEF StagesFit, StagesAre, Stages
      <3>2. StagesFit(d)'
        BY <2>3, <3>1 DEF StagesFit, Skipping
      <3>3. MetaFits(d)'
        BY <1>1, <2>1, <2>2, <2>3, StageStarted
           DEF MetaFits, Unexplained, Window, Accepted, Skipping
      <3> QED
        BY <3>2, <3>3
    <2> QED
      BY <1>2, <2>1, <2>2, <2>3 DEF Upsert, StartStage
  <1>6. CASE StartValidation(d)
    <2>1. "validation" \in InRecord /\ "validate" \in InRecord /\ "validation" \in Stages
      BY RecordPoints DEF InTry, Stages
    <2>2. StartStage(d, "validation", "validation", "validate")
      BY <1>6 DEF StartValidation
    <2>3. ASSUME pc'[d] = "validate" PROVE StagesFit(d)' /\ MetaFits(d)'
      <3>1. StagesAre(Job(d), "success", "success", "success", "running", "absent")'
        BY <1>1, <2>1, <2>2, StageStarted DEF StagesFit, StagesAre, Stages
      <3>2. StagesFit(d)'
        BY <2>3, <3>1 DEF StagesFit, Skipping
      <3>3. MetaFits(d)'
        BY <1>1, <2>1, <2>2, <2>3, StageStarted
           DEF MetaFits, Unexplained, Window, Accepted, Skipping
      <3> QED
        BY <3>2, <3>3
    <2> QED
      BY <1>2, <2>1, <2>2, <2>3 DEF Upsert, StartStage
  <1>7. CASE StartPersist(d)
    <2>1. "persist" \in InRecord /\ "upsert" \in InRecord /\ "persist" \in Stages
      BY RecordPoints DEF InTry, Stages
    <2>2. StartStage(d, "persist", "persist", "upsert")
      BY <1>7 DEF StartPersist
    <2>3. ASSUME pc'[d] = "upsert" PROVE StagesFit(d)' /\ MetaFits(d)'
      <3>1. StagesAre(Job(d), "success", "success", "success", "success", "running")'
        BY <1>1, <2>1, <2>2, StageStarted DEF StagesFit, StagesAre, Stages
      <3>2. StagesFit(d)'
        BY <2>3, <3>1 DEF StagesFit, Skipping
      <3>3. MetaFits(d)'
        BY <1>1, <2>1, <2>2, <2>3, StageStarted
           DEF MetaFits, Unexplained, Window, Accepted, Skipping
      <3> QED
        BY <3>2, <3>3
    <2> QED
      BY <1>2, <2>1, <2>2, <2>3 DEF Upsert, StartStage
  <1> QED
    BY <1>3, <1>4, <1>5, <1>6, <1>7

\* They are closed with the outcome that goes with the way on.
LEMMA PipeFinishes ==
    ASSUME HandlerInv, RowTypes, BatchInv, PipeInv, NEW d \in Deliveries,
           FinishDedup(d) \/ SkipDedup(d) \/ FinishNormalize(d) \/ Convert(d) \/ Validate(d)
    PROVE  PipeInv'
  <1>1. StagesFit(d) /\ MetaFits(d) /\ Step(d)
    BY DEF PipeInv, Step
  <1>2. ASSUME NEW here \in InRecord \ {"persisted", "finish", "catch"}, NEW s \in Stages,
               NEW status \in StageStatus, NEW next \in InRecord,
               FinishStage(d, here, s, status, next), stages[Job(d)][s] # "absent", ~Upsert(d),
               pc'[d] = next => StagesFit(d)' /\ MetaFits(d)'
        PROVE  PipeInv'
    <2>1. /\ pc[d] = here /\ pc'[d] \in {next, "catch", "failed"}
          /\ UNCHANGED <<runs, rec>> /\ Job(d)' = Job(d)
      BY <1>2, StageFinished
    <2>2. runs'[Job(d)].status = "running"
      BY <2>1 DEF BatchInv, RunOpen
    <2>3. StagesFit(d)' /\ MetaFits(d)'
      BY <1>2, <2>1, FitsGone DEF Ended
    <2>4. pc'[d] # "idle"
      BY <2>1 DEF InRecord, Busy, BeforeTry, Skipping, InTry
    <2> QED
      BY <1>1, <1>2, <2>1, <2>2, <2>3, <2>4, PipeRunning
  <1>3. "success" \in StageStatus /\ "skipped" \in StageStatus
    BY DEF StageStatus
  <1>4. CASE FinishDedup(d)
    <2>1. "deduped" \in InRecord /\ "normalize" \in InRecord /\ "dedup" \in Stages
      BY RecordPoints DEF BeforeTry, Skipping, InTry, Stages
    <2>2. FinishStage(d, "deduped", "dedup", "success", "normalize") /\ cause' = cause /\ verdict' = verdict
      BY <1>4 DEF FinishDedup
    <2>3. pc[d] = "deduped" /\ stages[Job(d)]["dedup"] = "running"
      BY <1>1, <2>2 DEF FinishStage, StagesFit, StagesAre
    <2>4. ASSUME pc'[d] = "normalize" PROVE StagesFit(d)' /\ MetaFits(d)'
      <3>1. StagesAre(Job(d), "success", "absent", "absent", "absent", "absent")'
        BY <1>1, <1>3, <2>1, <2>2, <2>3, StageFinished DEF StagesFit, StagesAre, Stages
      <3>2. StagesFit(d)'
        BY <2>2, <2>3, <2>4, <3>1 DEF StagesFit, Skipping, Duplicate
      <3>3. MetaFits(d)'
        BY <1>1, <1>3, <2>1, <2>2, <2>3, <2>4, StageFinished
           DEF MetaFits, Unexplained, Window, Accepted, Skipping
      <3> QED
        BY <3>2, <3>3
    <2> QED
      BY <1>2, <1>3, <2>1, <2>2, <2>3, <2>4 DEF Upsert
  <1>5. CASE SkipDedup(d)
    <2>1. "skipStage" \in InRecord /\ "skipRead" \in InRecord /\ "dedup" \in Stages
      BY RecordPoints DEF BeforeTry, Skipping, InTry, Stages
    <2>2. FinishStage(d, "skipStage", "dedup", "skipped", "skipRead") /\ cause' = cause /\ verdict' = verdict
      BY <1>5 DEF SkipDedup
    <2>3. pc[d] = "skipStage" /\ stages[Job(d)]["dedup"] = "running"
      BY <1>1, <2>2 DEF FinishStage, StagesFit, StagesAre
    <2>4. ASSUME pc'[d] = "skipRead" PROVE StagesFit(d)' /\ MetaFits(d)'
      <3>1. StagesAre(Job(d), "skipped", "absent", "absent", "absent", "absent")'
        BY <1>1, <1>3, <2>1, <2>2, <2>3, StageFinished DEF StagesFit, StagesAre, Stages
      <3>2. StagesFit(d)'
        BY <1>1, <2>2, <2>3, <2>4, <3>1 DEF StagesFit, Skipping, Duplicate, MetaFits
      <3>3. MetaFits(d)'
        BY <1>1, <1>3, <2>1, <2>2, <2>3, <2>4, StageFinished
           DEF MetaFits, Unexplained, Window, Accepted, Skipping, MetaFits
      <3> QED
        BY <3>2, <3>3
    <2> QED
      BY <1>2, <1>3, <2>1, <2>2, <2>3, <2>4 DEF Upsert
  <1>6. CASE Convert(d)
    <2>1. "convert" \in InRecord /\ "validation" \in InRecord /\ "currency" \in Stages
      BY RecordPoints DEF BeforeTry, Skipping, InTry, Stages
    <2>2. FinishStage(d, "convert", "currency", "success", "validation") /\ cause' = cause /\ verdict' = verdict
      BY <1>6 DEF Convert
    <2>3. pc[d] = "convert" /\ stages[Job(d)]["currency"] = "running"
      BY <1>1, <2>2 DEF FinishStage, StagesFit, StagesAre
    <2>4. ASSUME pc'[d] = "validation" PROVE StagesFit(d)' /\ MetaFits(d)'
      <3>1. StagesAre(Job(d), "success", "success", "success", "absent", "absent")'
        BY <1>1, <1>3, <2>1, <2>2, <2>3, StageFinished DEF StagesFit, StagesAre, Stages
      <3>2. StagesFit(d)'
        BY <2>2, <2>3, <2>4, <3>1 DEF StagesFit, Skipping, Duplicate
      <3>3. MetaFits(d)'
        BY <1>1, <1>3, <2>1, <2>2, <2>3, <2>4, StageFinished
           DEF MetaFits, Unexplained, Window, Accepted, Skipping
      <3> QED
        BY <3>2, <3>3
    <2> QED
      BY <1>2, <1>3, <2>1, <2>2, <2>3, <2>4 DEF Upsert
  <1>7. CASE Validate(d)
    <2>1. "validate" \in InRecord /\ "metaRead" \in InRecord /\ "validation" \in Stages
      BY RecordPoints DEF BeforeTry, Skipping, InTry, Stages
    <2>2. FinishStage(d, "validate", "validation", "success", "metaRead") /\ cause' = cause
      BY <1>7 DEF Validate
    <2>3. pc[d] = "validate" /\ stages[Job(d)]["validation"] = "running"
      BY <1>1, <2>2 DEF FinishStage, StagesFit, StagesAre
    <2>4. ASSUME pc'[d] = "metaRead" PROVE StagesFit(d)' /\ MetaFits(d)'
      <3>1. StagesAre(Job(d), "success", "success", "success", "success", "absent")'
        BY <1>1, <1>3, <2>1, <2>2, <2>3, StageFinished DEF StagesFit, StagesAre, Stages
      <3>2. StagesFit(d)'
        BY <2>2, <2>3, <2>4, <3>1 DEF StagesFit, Skipping, Duplicate
      <3>3. MetaFits(d)'
        BY <1>1, <1>3, <2>1, <2>2, <2>3, <2>4, StageFinished
           DEF MetaFits, Unexplained, Window, Accepted, Skipping
      <3> QED
        BY <3>2, <3>3
    <2> QED
      BY <1>2, <1>3, <2>1, <2>2, <2>3, <2>4 DEF Upsert
  <1>8. CASE FinishNormalize(d)
    <2>1. CASE Fp(d) \in Negative
      <3>1. "normalized" \in InRecord /\ "skipRead" \in InRecord /\ "normalize" \in Stages
        BY RecordPoints DEF BeforeTry, Skipping, InTry, Stages
      <3>2. FinishStage(d, "normalized", "normalize", "skipped", "skipRead") /\ cause'[d] = "negative_amount"
        BY <1>8, <2>1 DEF FinishNormalize, HandlerInv, HandlerTypes
      <3>3. pc[d] = "normalized" /\ stages[Job(d)]["normalize"] = "running"
        BY <1>1, <3>2 DEF FinishStage, StagesFit, StagesAre
      <3>4. ASSUME pc'[d] = "skipRead" PROVE StagesFit(d)' /\ MetaFits(d)'
        <4>1. StagesAre(Job(d), "success", "skipped", "absent", "absent", "absent")'
          BY <1>1, <1>3, <3>1, <3>2, <3>3, StageFinished DEF StagesFit, StagesAre, Stages
        <4>2. StagesFit(d)'
          BY <3>2, <3>3, <3>4, <4>1 DEF StagesFit, Skipping, Duplicate
        <4>3. MetaFits(d)'
          BY <1>1, <1>3, <3>1, <3>2, <3>3, <3>4, StageFinished
             DEF MetaFits, Unexplained, Window, Accepted, Skipping
        <4> QED
          BY <4>2, <4>3
      <3> QED
        BY <1>2, <1>3, <3>1, <3>2, <3>3, <3>4 DEF Upsert
    <2>2. CASE Fp(d) \notin Negative
      <3>1. "normalized" \in InRecord /\ "currency" \in InRecord /\ "normalize" \in Stages
        BY RecordPoints DEF BeforeTry, Skipping, InTry, Stages
      <3>2. FinishStage(d, "normalized", "normalize", "success", "currency") /\ cause' = cause
        BY <1>8, <2>2 DEF FinishNormalize
      <3>3. pc[d] = "normalized" /\ stages[Job(d)]["normalize"] = "running"
        BY <1>1, <3>2 DEF FinishStage, StagesFit, StagesAre
      <3>4. ASSUME pc'[d] = "currency" PROVE StagesFit(d)' /\ MetaFits(d)'
        <4>1. StagesAre(Job(d), "success", "success", "absent", "absent", "absent")'
          BY <1>1, <1>3, <3>1, <3>2, <3>3, StageFinished DEF StagesFit, StagesAre, Stages
        <4>2. StagesFit(d)'
          BY <3>2, <3>3, <3>4, <4>1 DEF StagesFit, Skipping, Duplicate
        <4>3. MetaFits(d)'
          BY <1>1, <1>3, <2>2, <3>1, <3>2, <3>3, <3>4, StageFinished
             DEF MetaFits, Unexplained, Window, Accepted, Skipping
        <4> QED
          BY <4>2, <4>3
      <3> QED
        BY <1>2, <1>3, <3>1, <3>2, <3>3, <3>4 DEF Upsert
    <2> QED
      BY <2>1, <2>2
  <1> QED
    BY <1>4, <1>5, <1>6, <1>7, <1>8

\* The two duplicate checks and the key, and mergeMeta between its read and its save.
LEMMA PipeMeta ==
    ASSUME HandlerInv, RowTypes, BatchInv, PipeInv, NEW d \in Deliveries,
           CheckRedis(d) \/ CheckLedger(d) \/ Remember(d) \/ ReadRun(d) \/ SaveRun(d)
    PROVE  PipeInv'
  <1>1. StagesFit(d) /\ MetaFits(d) /\ Step(d)
    BY DEF PipeInv, Step
  <1>2. /\ pc[d] \in {"exists", "query", "remember", "skipRead", "metaRead",
                       "skipSave", "metaSave"}
        /\ pc[d] \in InRecord \ {"persisted", "finish", "catch"}
        /\ ~Upsert(d) /\ Job(d) \in Jobs
    <2>1. pc[d] \in {"exists", "query", "remember", "skipRead", "metaRead",
                     "skipSave", "metaSave"}
      BY DEF CheckRedis, CheckLedger, Remember, ReadRun, SaveRun
    <2> QED
      BY <2>1, RecordPoints, RecordTypes DEF Upsert, BeforeTry, Skipping, InTry
  <1>3. /\ rec' = rec /\ msg' = msg /\ stages' = stages
        /\ Job(d)' = Job(d) /\ Record(d)' = Record(d) /\ Fp(d)' = Fp(d)
    BY DEF CheckRedis, CheckLedger, Remember, ReadRun, SaveRun, tables, locals, Job, Record, Fp
  <1>4. runs[Job(d)].status = "running"
    BY <1>2 DEF BatchInv, RunOpen
  <1>5. /\ runs \in [Jobs -> RunRows] /\ row \in [Deliveries -> RunRows]
        /\ pc \in [Deliveries -> Controls] /\ cause \in [Deliveries -> Causes \union {None}]
    BY DEF HandlerInv, HandlerTypes
  <1>6. CASE CheckRedis(d) \/ CheckLedger(d)
    <2>1. /\ pc[d] \in {"exists", "query"} /\ runs' = runs
          /\ \/ pc'[d] = "skipStage" /\ cause'[d] \in Duplicate
             \/ pc'[d] \in {"query", "remember"} /\ cause'[d] = cause[d]
      BY <1>5, <1>6 DEF CheckRedis, CheckLedger, tables, Duplicate
    <2>2. StagesFit(d)'
      BY <1>1, <1>3, <2>1 DEF StagesFit, StagesAre, Skipping
    <2>3. MetaFits(d)'
      BY <1>1, <1>2, <1>3, <2>1 DEF MetaFits, Unexplained, Window, Accepted
    <2> QED
      BY <1>1, <1>2, <1>3, <1>4, <2>1, <2>2, <2>3, PipeRunning
  <1>7. CASE Remember(d)
    <2>1. /\ pc[d] = "remember" /\ pc'[d] \in {"deduped", "catch", "failed"} /\ runs' = runs
          /\ cause' = cause
      BY <1>7, GoToTarget DEF Remember, HandlerInv, tables, locals, Controls, Busy, BeforeTry
    <2>2. ASSUME pc'[d] = "deduped" PROVE StagesFit(d)' /\ MetaFits(d)'
      <3>1. StagesFit(d)'
        BY <1>1, <1>3, <2>1, <2>2 DEF StagesFit, StagesAre, Skipping
      <3>2. MetaFits(d)'
        BY <1>1, <1>2, <1>3, <2>1, <2>2 DEF MetaFits, Unexplained, Window, Accepted
      <3> QED
        BY <3>1, <3>2
    <2>3. StagesFit(d)' /\ MetaFits(d)'
      BY <2>1, <2>2, FitsGone DEF Ended
    <2> QED
      BY <1>1, <1>2, <1>3, <1>4, <2>1, <2>3, PipeRunning
  <1>8. CASE ReadRun(d)
    <2>1. /\ runs' = runs /\ cause' = cause /\ row'[d] = runs[Job(d)]
          /\ \/ pc[d] = "skipRead" /\ pc'[d] = "skipSave"
             \/ pc[d] = "metaRead" /\ pc'[d] = "metaSave"
      BY <1>4, <1>5, <1>8 DEF ReadRun, tables
    <2>2. StagesFit(d)'
      BY <1>1, <1>3, <2>1 DEF StagesFit, StagesAre, Skipping
    <2>3. MetaFits(d)'
      BY <1>1, <1>2, <1>3, <2>1 DEF MetaFits, Unexplained, Window, Accepted
    <2> QED
      BY <1>1, <1>2, <1>3, <1>4, <2>1, <2>2, <2>3, PipeRunning
  <1>9. CASE SaveRun(d)
    <2>1. /\ cause' = cause /\ verdict' = verdict /\ row[d] = runs[Job(d)]
          /\ runs[Job(d)].causes = {}
      BY <1>1, <1>2, <1>9 DEF SaveRun, MetaFits
    <2>2. \/ /\ pc[d] = "skipSave" /\ pc'[d] \in {"skipEnd", "catch", "failed"}
             /\ runs'[Job(d)] = [runs[Job(d)] EXCEPT !.causes = @ \union {cause[d]}]
          \/ /\ pc[d] = "metaSave" /\ pc'[d] \in {"persist", "catch", "failed"}
             /\ runs'[Job(d)] = [runs[Job(d)] EXCEPT !.validation = verdict[d]]
      <3>1. "skipEnd" \in Controls /\ "persist" \in Controls
        BY DEF Controls, Busy, Skipping, InTry
      <3>2. CASE pc[d] = "skipSave"
        <4>1. /\ GoTo(d, "skipEnd")
              /\ runs' = [runs EXCEPT ![Job(d)] = [row[d] EXCEPT !.causes = @ \union {cause[d]}]]
          BY <1>9, <3>2 DEF SaveRun
        <4> QED
          BY <1>2, <1>5, <2>1, <3>1, <3>2, <4>1, GoToTarget DEF HandlerInv
      <3>3. CASE pc[d] = "metaSave"
        <4>1. /\ GoTo(d, "persist")
              /\ runs' = [runs EXCEPT ![Job(d)] = [row[d] EXCEPT !.validation = verdict[d]]]
          BY <1>9, <3>3 DEF SaveRun
        <4> QED
          BY <1>2, <1>5, <2>1, <3>1, <3>3, <4>1, GoToTarget DEF HandlerInv
      <3> QED
        BY <1>9, <3>2, <3>3 DEF SaveRun
    <2>3. runs[Job(d)] \in RunRows
      BY <1>2, <1>5
    <2>4. /\ runs'[Job(d)].status = "running"
          /\ pc[d] = "skipSave" => runs'[Job(d)].causes = {cause[d]}
          /\ pc[d] = "metaSave" => /\ runs'[Job(d)].causes = {}
                                   /\ runs'[Job(d)].validation = verdict[d]
      BY <1>4, <2>1, <2>2, <2>3 DEF RunRows
    <2>5. CASE pc'[d] \in {"skipEnd", "persist"}
      <3>1. StagesFit(d)'
        BY <1>1, <1>3, <2>1, <2>2, <2>5 DEF StagesFit, StagesAre, Skipping
      <3>2. MetaFits(d)'
        BY <1>1, <1>3, <2>1, <2>2, <2>4, <2>5
           DEF MetaFits, Unexplained, Window, Accepted
      <3> QED
        BY <1>1, <1>2, <1>3, <2>4, <2>5, <3>1, <3>2, PipeRunning
    <2>6. CASE pc'[d] \in {"catch", "failed"}
      BY <1>1, <1>2, <1>3, <2>4, <2>6, FitsGone, PipeRunning DEF Ended
    <2> QED
      BY <2>2, <2>5, <2>6
  <1> QED
    BY <1>6, <1>7, <1>8, <1>9

\* The write: the row carries the fingerprint, the verdict and the history the job
\* has at that point.
LEMMA PipeWrite ==
    ASSUME HandlerInv, RowTypes, BatchInv, PipeInv, NEW d \in Deliveries, Upsert(d)
    PROVE  PipeInv'
  <1>1. /\ StagesFit(d) /\ MetaFits(d) /\ Step(d)
        /\ pc[d] = "upsert" /\ pc[d] \in InRecord \ {"persisted", "finish", "catch"}
    BY RecordPoints DEF PipeInv, Step, Upsert, InTry
  <1>0. PICK x0 \in ExpenseIds : x0 = IdOf[Record(d)]
    BY <1>1, RecordTypes
  <1>2. /\ Job(d) \in Jobs /\ Record(d) \in Events /\ Fp(d) \in Fingerprints
        /\ verdict[d] \in Verdicts
    BY <1>1, RecordTypes DEF HandlerInv, ControlOK
  <1>3. /\ UNCHANGED <<runs, stages, msg, rec, cause, verdict>>
        /\ Job(d)' = Job(d) /\ Record(d)' = Record(d)
    BY DEF Upsert, locals, Job, Record
  <1>4. pc'[d] \in {"persisted", "catch", "failed"}
    BY GoToTarget DEF Upsert, HandlerInv, Controls, Busy, InTry
  <1>5. /\ expenses'[x0] = [job |-> Job(d), fp |-> Fp(d), status |-> verdict[d]]
        /\ expenses'[x0] \in ExpenseRows
        /\ \A y \in ExpenseIds : y # x0 => expenses'[y] = expenses[y]
    BY <1>0, <1>2 DEF Upsert, upsertFromEvent, HandlerInv, HandlerTypes, RowTypes, ExpenseRows
  <1>6. expenses'[x0] # None
    BY <1>5, NoneAssumption
  <1>7. runs[Job(d)].status = "running"
    BY <1>1 DEF BatchInv, RunOpen
  <1>8. Backed(x0)'
    <2>1. /\ \A s \in Stages \ {"persist"} : stages[Job(d)][s] = "success"
          /\ runs[Job(d)].validation = verdict[d]
          /\ runs[Job(d)].causes = {} /\ Fp(d) \notin Negative
      BY <1>1 DEF StagesFit, StagesAre, Stages, MetaFits, Accepted
    <2> QED
      BY <1>3, <1>5, <1>7, <2>1 DEF Backed
  <1>9. \A x \in ExpenseIds :
           /\ expenses[x] # None => expenses'[x] # None
           /\ expenses'[x] # None =>
                 \/ expenses'[x] = expenses[x] /\ expenses[x].job # Job(d)
                 \/ expenses'[x].job = Job(d) /\ Backed(x)'
    <2>1. TAKE x \in ExpenseIds
    <2>2. CASE x = x0
      BY <1>5, <1>6, <1>8, <2>2
    <2>3. CASE x # x0
      BY <1>1, <1>5, <2>3 DEF PipeInv, OwnersWrote
    <2> QED
      BY <2>2, <2>3
  <1>10. ASSUME pc'[d] = "persisted" PROVE StagesFit(d)' /\ MetaFits(d)'
    <2>1. StagesFit(d)'
      BY <1>1, <1>3, <1>10 DEF StagesFit, StagesAre, Skipping
    <2>2. MetaFits(d)'
      <3>1. /\ cause[d] = None /\ runs[Job(d)].causes = {}
        BY <1>1 DEF MetaFits, Unexplained, Window
      <3>2. expenses'[IdOf[Record(d)']] # None
        BY <1>0, <1>3, <1>6
      <3> QED
        BY <1>3, <1>10, <3>1, <3>2 DEF MetaFits, Accepted
    <2> QED
      BY <2>1, <2>2
  <1>11. StagesFit(d)' /\ MetaFits(d)'
    BY <1>4, <1>10, FitsGone DEF Ended
  <1>12. pc[d] # "idle" /\ pc'[d] # "idle" /\ pc'[d] \notin InRecord \ {"persisted", "finish", "catch"}
    BY <1>1, <1>4 DEF InRecord, Busy, BeforeTry, Skipping, InTry
  <1> QED
    BY <1>1, <1>2, <1>3, <1>7, <1>9, <1>11, <1>12, OwnStep, PipeFrame

\* Closing the persist stage leaves what the row stands for as it is.
LEMMA PipePersisted ==
    ASSUME HandlerInv, RowTypes, BatchInv, PipeInv, NEW d \in Deliveries, FinishPersist(d)
    PROVE  PipeInv'
  <1>1. /\ StagesFit(d) /\ MetaFits(d) /\ Step(d) /\ ~Upsert(d)
        /\ pc[d] = "persisted" /\ "persisted" \in InRecord /\ "finish" \in InRecord
    BY RecordPoints DEF PipeInv, Step, FinishPersist, FinishStage, Upsert, InTry
  <1>2. FinishStage(d, "persisted", "persist", "success", "finish")
        /\ cause' = cause /\ verdict' = verdict
    BY DEF FinishPersist
  <1>3. /\ stages[Job(d)]["persist"] = "running"
        /\ "persist" \in Stages /\ "success" \in StageStatus
    BY <1>1 DEF StagesFit, StagesAre, Stages, StageStatus
  <1>4. /\ pc'[d] \in {"finish", "catch", "failed"}
        /\ UNCHANGED <<runs, expenses, msg, rec, row>>
        /\ stages'[Job(d)]["persist"] = "success"
        /\ \A t \in Stages : t # "persist" => stages'[Job(d)][t] = stages[Job(d)][t]
        /\ Job(d)' = Job(d) /\ Record(d)' = Record(d) /\ Fp(d)' = Fp(d)
    BY <1>1, <1>2, <1>3, StageFinished
  <1>5. Job(d) \in Jobs /\ Record(d) \in Events
    BY <1>1, RecordTypes
  <1>6. runs[Job(d)].status = "running"
    BY <1>1 DEF BatchInv, RunOpen
  <1>7. \A x \in ExpenseIds : expenses[x] # None /\ expenses[x].job = Job(d) => Backed(x)'
    BY <1>4 DEF PipeInv, LedgerBacked, Backed
  <1>8. ASSUME pc'[d] = "finish" PROVE StagesFit(d)' /\ MetaFits(d)'
    <2>1. StagesFit(d)'
      BY <1>1, <1>4, <1>8 DEF StagesFit, StagesAre, Skipping, Stages
    <2>2. MetaFits(d)'
      BY <1>1, <1>2, <1>4, <1>8 DEF MetaFits, Unexplained, Window, Accepted
    <2> QED
      BY <2>1, <2>2
  <1>9. StagesFit(d)' /\ MetaFits(d)'
    BY <1>4, <1>8, FitsGone DEF Ended
  <1>10. pc[d] # "idle" /\ pc'[d] # "idle" /\ pc'[d] \notin InRecord \ {"persisted", "finish", "catch"}
    BY <1>1, <1>4 DEF InRecord, Busy, BeforeTry, Skipping, InTry
  <1> QED
    BY <1>1, <1>4, <1>5, <1>6, <1>7, <1>9, <1>10, OwnStep, PipeFrame

\* Closing the run: it says what the pipeline did, and the next record starts clean.
LEMMA PipeEnds ==
    ASSUME HandlerInv, RowTypes, BatchInv, PipeInv, NEW d \in Deliveries,
           FinishSuccess(d) \/ FinishSkipped(d)
    PROVE  PipeInv'
  <1>1. PICK here \in {"finish", "skipEnd"}, status \in {"success", "skipped"} :
            /\ FinishRun(d, here, status)
            /\ here = "finish" <=> status = "success"
    BY DEF FinishSuccess, FinishSkipped
  <1>2. /\ StagesFit(d) /\ MetaFits(d) /\ Step(d) /\ ~Upsert(d)
        /\ pc[d] = here /\ pc[d] \in InRecord /\ pc[d] # "catch" /\ pc[d] # "idle"
    BY <1>1, RecordPoints DEF PipeInv, Step, FinishRun, Upsert, Skipping, InTry
  <1>3. Job(d) \in Jobs /\ Record(d) \in Events /\ rec[d] \in 1 .. MaxRecords
    BY <1>2, JobTypes, RecordTypes
  <1>4. /\ runs'[Job(d)].status = status
        /\ runs'[Job(d)].causes = runs[Job(d)].causes
        /\ runs'[Job(d)].validation = runs[Job(d)].validation
        /\ stages' = stages /\ expenses' = expenses /\ msg' = msg
    <2>1. runs[Job(d)].status # "absent" /\ status \in RunStatus
      BY <1>2 DEF BatchInv, RunOpen, RunStatus
    <2> QED
      BY <1>1, <1>3, <2>1, ClosedRun DEF FinishRun, HandlerInv
  <1>5. ASSUME status = "skipped"
        PROVE  /\ \E c \in Causes : runs[Job(d)].causes = {c}
               /\ \A s \in {"currency", "validation", "persist"} : stages[Job(d)][s] = "absent"
               /\ stages[Job(d)]["dedup"] = "skipped"
                     <=> "negative_amount" \notin runs[Job(d)].causes
    <2>1. pc[d] = "skipEnd" /\ cause[d] \in Causes /\ runs[Job(d)].causes = {cause[d]}
      BY <1>1, <1>2, <1>5 DEF MetaFits, HandlerInv, ControlOK, Skipping
    <2>2. CASE cause[d] = "negative_amount"
      BY <1>2, <2>1, <2>2 DEF StagesFit, StagesAre, Skipping
    <2>3. CASE cause[d] \in Duplicate
      BY <1>2, <2>1, <2>3 DEF StagesFit, StagesAre, Skipping, Duplicate
    <2> QED
      BY <2>1, <2>2, <2>3 DEF Causes, Duplicate
  <1>6. ASSUME status = "success"
        PROVE  /\ \A s \in Stages : stages[Job(d)][s] = "success"
               /\ expenses[IdOf[Record(d)]] # None
    BY <1>1, <1>2, <1>6 DEF StagesFit, StagesAre, Stages, MetaFits
  <1>7. \A x \in ExpenseIds : expenses[x] # None /\ expenses[x].job = Job(d) => Backed(x)'
    <2>1. CASE status = "skipped"
      BY <1>1, <1>2, <2>1 DEF PipeInv, OwnersWrote
    <2>2. CASE status = "success"
      BY <1>4, <2>2 DEF PipeInv, LedgerBacked, Backed
    <2> QED
      BY <2>1, <2>2
  <1>8. \/ /\ pc'[d] = "record" /\ rec'[d] = rec[d] + 1 /\ cause'[d] = None
        \/ pc'[d] \in {"catch", "failed"} /\ rec' = rec
    BY <1>1, ThrowTarget DEF FinishRun, HandlerInv, HandlerTypes
  <1>9. StagesFit(d)' /\ MetaFits(d)'
    <2>1. CASE pc'[d] = "record" /\ rec'[d] = rec[d] + 1 /\ cause'[d] = None
      <3>1. rec'[d] <= MaxRecords => \A s \in Stages : stages[<<d, rec'[d]>>][s] = "absent"
        BY <1>3, <2>1, ConstantsAssumption DEF BatchInv, SequentialBatch
      <3>2. StagesFit(d)'
        BY <1>4, <2>1, <3>1 DEF StagesFit, StagesAre, Stages, Skipping, Job
      <3>3. MetaFits(d)'
        BY <2>1 DEF MetaFits, Accepted, InRecord
      <3> QED
        BY <3>2, <3>3
    <2> QED
      BY <1>8, <2>1, FitsGone DEF Ended
  <1>10. /\ pc'[d] # "idle" /\ pc'[d] \notin InRecord \ {"persisted", "finish", "catch"}
         /\ pc'[d] \in InRecord => rec'[d] = rec[d]
    BY <1>8 DEF InRecord, Busy, BeforeTry, Skipping, InTry
  <1> QED
    BY <1>2, <1>3, <1>4, <1>5, <1>6, <1>7, <1>9, <1>10, OwnStep, PipeFrame

\* The catch block closes a run as failed, wherever the record had come to.
LEMMA PipeFails ==
    ASSUME HandlerInv, RowTypes, BatchInv, PipeInv, NEW d \in Deliveries, FinishFailed(d)
    PROVE  PipeInv'
  <1>1. /\ Step(d) /\ ~Upsert(d) /\ pc[d] = "catch" /\ pc[d] \in InRecord
        /\ pc' = [pc EXCEPT ![d] = "failed"] /\ rec' = rec /\ msg' = msg
        /\ stages' = stages /\ expenses' = expenses /\ runs' = finishRun(Job(d), "failed")
    BY RecordPoints DEF Step, FinishFailed, Upsert, locals
  <1>2. Job(d) \in Jobs /\ Record(d) \in Events /\ pc'[d] = "failed" /\ "failed" \in RunStatus
    BY <1>1, RecordTypes DEF HandlerInv, HandlerTypes, RunStatus
  <1>3. StagesFit(d)' /\ MetaFits(d)'
    BY <1>2, FitsGone DEF Ended
  <1>4. CASE runs[Job(d)].status = "absent"
    <2>1. UNCHANGED tables /\ UNCHANGED locals
      BY <1>1, <1>4 DEF finishRun, tables, FinishFailed
    <2> QED
      BY <1>1, <2>1, PipeIdle DEF HandlerInv, HandlerTypes, Ended
  <1>5. CASE runs[Job(d)].status # "absent"
    <2>1. /\ runs'[Job(d)].status = "failed"
          /\ runs'[Job(d)].causes = runs[Job(d)].causes
          /\ runs'[Job(d)].validation = runs[Job(d)].validation
      BY <1>1, <1>2, <1>5, ClosedRun DEF HandlerInv
    <2>2. \A x \in ExpenseIds : expenses[x] # None /\ expenses[x].job = Job(d) => Backed(x)'
      BY <1>1, <2>1 DEF PipeInv, LedgerBacked, Backed
    <2>3. pc'[d] \notin InRecord /\ pc'[d] # "idle" /\ pc[d] # "idle"
      BY <1>1, <1>2 DEF InRecord, Busy, BeforeTry, Skipping, InTry
    <2> QED
      BY <1>1, <1>2, <1>3, <2>1, <2>2, <2>3, OwnStep, PipeFrame
  <1> QED
    BY <1>4, <1>5

\* A run is created for the next event, empty.
LEMMA PipeCreates ==
    ASSUME HandlerInv, RowTypes, BatchInv, PipeInv, NEW d \in Deliveries, CreateRun(d)
    PROVE  PipeInv'
  <1>1. /\ StagesFit(d) /\ MetaFits(d) /\ Step(d) /\ ~Upsert(d)
        /\ pc[d] = "record" /\ rec' = rec /\ msg' = msg
        /\ stages' = stages /\ expenses' = expenses /\ runs' = createRun(Job(d))
        /\ cause' = cause
    BY DEF PipeInv, Step, CreateRun, Upsert, locals
  <1>2. msg[d] \in Messages /\ rec[d] \in 1 .. Len(Records[msg[d]]) /\ rec[d] <= MaxRecords
    BY <1>1, ConstantsAssumption DEF CreateRun, HandlerInv, ControlOK
  <1>3. Job(d) \in Jobs /\ Record(d) \in Events
    <2>1. Record(d) \in Events \union {Malformed}
      BY <1>2, ConstantsAssumption DEF Record
    <2> QED
      BY <1>1, <1>2, <2>1, JobTypes DEF CreateRun
  <1>4. runs'[Job(d)].status = "running" /\ runs'[Job(d)].causes = {}
    BY <1>1, <1>3 DEF createRun, HandlerInv, HandlerTypes
  <1>5. pc'[d] \in {"dedup", "catch", "failed"} /\ Job(d)' = Job(d)
    BY <1>1, GoToTarget DEF CreateRun, HandlerInv, Controls, Busy, BeforeTry, Job
  <1>6. ASSUME pc'[d] = "dedup" PROVE StagesFit(d)' /\ MetaFits(d)'
    <2>1. StagesFit(d)'
      BY <1>1, <1>2, <1>5, <1>6 DEF StagesFit, StagesAre, Skipping
    <2>2. MetaFits(d)'
      BY <1>1, <1>4, <1>5, <1>6 DEF MetaFits, Unexplained, Accepted
    <2> QED
      BY <2>1, <2>2
  <1>7. StagesFit(d)' /\ MetaFits(d)'
    BY <1>5, <1>6, FitsGone DEF Ended
  <1>8. \A x \in ExpenseIds : expenses[x] # None => expenses[x].job # Job(d)
    BY <1>1, <1>2 DEF PipeInv, OwnersWrote, BatchInv, RunOpen
  <1> QED
    BY <1>1, <1>3, <1>4, <1>5, <1>7, <1>8, OwnStep, PipeFrame

\* A handler that takes a message has no job yet.
LEMMA PipeReceives ==
    ASSUME HandlerInv, RowTypes, BatchInv, PipeInv, NEW d \in Deliveries, NEW m \in Messages,
           Receive(d, m)
    PROVE  PipeInv'
  <1>1. /\ UNCHANGED <<runs, stages, expenses, cause, row, verdict>>
        /\ pc[d] = "idle" /\ pc'[d] = "record" /\ rec[d] = 0 /\ rec'[d] = 1
        /\ \A e \in Deliveries : e # d =>
              pc'[e] = pc[e] /\ rec'[e] = rec[e] /\ msg'[e] = msg[e]
    BY DEF Receive, tables, HandlerInv, HandlerTypes, ControlOK
  <1>2. \A i \in 1 .. MaxRecords :
            runs[<<d, i>>] = AbsentRun /\ \A s \in Stages : stages[<<d, i>>][s] = "absent"
    BY <1>1, ConstantsAssumption DEF BatchInv, SequentialBatch
  <1>3. \A j \in Jobs : runs[j].status # "absent" => j[1] \in Deliveries /\ j[1] # d
    BY <1>2 DEF Jobs, AbsentRun
  <1>4. ASSUME NEW e \in Deliveries PROVE StagesFit(e)' /\ MetaFits(e)'
    <2>1. StagesFit(e) /\ MetaFits(e)
      BY DEF PipeInv
    <2>2. CASE e = d
      <3>1. StagesFit(e)'
        BY <1>1, <1>2, <2>2, ConstantsAssumption
           DEF StagesFit, StagesAre, Stages, Skipping, Job
      <3>2. MetaFits(e)'
        BY <1>1, <2>1, <2>2 DEF MetaFits, Accepted, InRecord
      <3> QED
        BY <3>1, <3>2
    <2>3. CASE e # d
      <3>1. Job(e)' = Job(e) /\ Record(e)' = Record(e) /\ Fp(e)' = Fp(e)
        BY <1>1, <2>3 DEF Job, Record, Fp
      <3> QED
        BY <1>1, <2>1, <2>3, <3>1 DEF StagesFit, StagesAre, MetaFits
    <2> QED
      BY <2>2, <2>3
  <1>5. OwnersWrote'
    BY <1>1 DEF PipeInv, OwnersWrote, InRecord, Job
  <1>6. RunsOfEvents'
    BY <1>1, <1>3 DEF PipeInv, RunsOfEvents
  <1>7. SuccessIsPersisted'
    BY <1>1, <1>3 DEF PipeInv, SuccessIsPersisted
  <1>8. SkipHasOneCause' /\ LedgerBacked'
    BY <1>1 DEF PipeInv, SkipHasOneCause, LedgerBacked
  <1> QED
    BY <1>4, <1>5, <1>6, <1>7, <1>8 DEF PipeInv

LEMMA InitPipe == Init => PipeInv
  <1> SUFFICES ASSUME Init PROVE PipeInv
    OBVIOUS
  <1>1. ASSUME NEW d \in Deliveries PROVE StagesFit(d) /\ MetaFits(d)
    BY DEF Init, StagesFit, MetaFits, Skipping, InRecord, Busy, BeforeTry, InTry, Accepted
  <1>2. OwnersWrote /\ LedgerBacked
    BY DEF Init, OwnersWrote, LedgerBacked
  <1>3. RunsOfEvents /\ SkipHasOneCause /\ SuccessIsPersisted
    BY DEF Init, AbsentRun, RunsOfEvents, SkipHasOneCause, SuccessIsPersisted
  <1> QED
    BY <1>1, <1>2, <1>3 DEF PipeInv

LEMMA NextPipe == HandlerInv /\ RowTypes /\ BatchInv /\ PipeInv /\ [Next]_vars => PipeInv'
  <1> SUFFICES ASSUME HandlerInv, RowTypes, BatchInv, PipeInv, [Next]_vars PROVE PipeInv'
    OBVIOUS
  <1>1. \A d \in Deliveries : pc' = [pc EXCEPT ![d] = "done"] \/ pc' = [pc EXCEPT ![d] = "failed"]
            => \A e \in Deliveries : pc'[e] \in {pc[e], "catch"} \union Ended
    BY DEF HandlerInv, HandlerTypes, Ended
  <1>2. ASSUME NEW d \in Deliveries, EndBatch(d) \/ RejectRecord(d) PROVE PipeInv'
    BY <1>1, <1>2, PipeIdle DEF EndBatch, RejectRecord
  <1>3. ASSUME NEW d \in Deliveries, ValidateRefused(d) \/ CallFails(d) PROVE PipeInv'
    <2>1. \A e \in Deliveries : pc'[e] \in {pc[e], "catch"} \union Ended
      BY <1>3, ThrowTarget DEF ValidateRefused, CallFails, HandlerInv, Ended
    <2> QED
      BY <1>3, <2>1, PipeIdle DEF ValidateRefused, CallFails
  <1>4. ASSUME NEW d \in Deliveries, Step(d) PROVE PipeInv'
    BY <1>2, <1>3, <1>4, PipeCreates, PipeStarts, PipeFinishes, PipeMeta, PipeWrite,
       PipePersisted, PipeEnds, PipeFails DEF Step
  <1>5. ASSUME NEW m \in Messages, Publish(m) \/ Lose(m) PROVE PipeInv'
    BY <1>5, PipeIdle DEF Publish, Lose
  <1>6. ASSUME NEW k \in keys, Expire(k) PROVE PipeInv'
    BY <1>6, PipeIdle DEF Expire
  <1>7. CASE Crash
    BY <1>7, PipeIdle DEF Crash, Ended
  <1>8. CASE UNCHANGED vars
    BY <1>8, PipeIdle DEF vars, tables, locals
  <1> QED
    BY <1>3, <1>4, <1>5, <1>6, <1>7, <1>8, PipeReceives DEF Next, Environment

\* At every control point of every handler the stages, the meta and the locals are
\* what processExpense has left there.
THEOREM PipelineHolds == Spec => [](TypeInv /\ BatchInv /\ PipeInv)
  <1>1. Init => BatchInv /\ PipeInv
    BY InitBatch, InitPipe
  <1>2. HandlerInv /\ RowTypes /\ BatchInv /\ PipeInv /\ [Next]_vars => BatchInv' /\ PipeInv'
    BY NextBatch, NextPipe
  <1> QED
    BY TypeCorrect, TypesApart, <1>1, <1>2, PTL DEF Spec

\* A skipped run has exactly one reason and no stage beyond the one that found it.
THEOREM SkipsAreExplained == Spec => []SkipHasOneCause
  <1>1. PipeInv => SkipHasOneCause
    BY DEF PipeInv
  <1> QED
    BY PipelineHolds, <1>1, PTL

\* A run closed with success has all five stages done and its expense in the ledger.
THEOREM SuccessesArePersisted == Spec => []SuccessIsPersisted
  <1>1. PipeInv => SuccessIsPersisted
    BY DEF PipeInv
  <1> QED
    BY PipelineHolds, <1>1, PTL

\* Every row of the ledger went through the whole pipeline with the verdict it shows,
\* and no job that was skipped owns one.
THEOREM RowsAreBacked == Spec => []LedgerBacked
  <1>1. PipeInv => LedgerBacked
    BY DEF PipeInv
  <1> QED
    BY PipelineHolds, <1>1, PTL

-----------------------------------------------------------------------------
(* Who came first *)

\* The job a handler is working on, once past the duplicate check, keeps its key.
LEMMA HolderWorks ==
    ASSUME HandlerInv, RowTypes, BatchInv, PipeInv, NEW d \in Deliveries, Step(d) \/ CallFails(d),
           pc[d] \notin {"record", "dedup", "exists", "query", "skipStage"},
           NEW S, Fp(d) \in Negative => "negative_amount" \in S,
           cause[d] \in S \union {None}, runs[Job(d)].status # "absent",
           runs[Job(d)].causes \subseteq S
    PROVE  /\ runs'[Job(d)].status # "absent"
           /\ runs'[Job(d)].causes \subseteq S
           /\ rec'[d] \in {rec[d], rec[d] + 1}
           /\ cause'[d] \in S \union {None}
           /\ pc'[d] \notin {"dedup", "exists", "query", "skipStage"}
  <1>1. /\ runs \in [Jobs -> RunRows] /\ pc \in [Deliveries -> Controls]
        /\ cause \in [Deliveries -> Causes \union {None}] /\ rec \in [Deliveries -> 0 .. MaxRecords + 1]
    BY DEF HandlerInv, HandlerTypes
  <1>2. CASE \/ StartNormalize(d) \/ StartCurrency(d) \/ StartValidation(d) \/ StartPersist(d)
    <2>1. \E next \in {"normalized", "convert", "validate", "upsert"} :
             GoTo(d, next) /\ UNCHANGED <<runs, rec, cause>>
      BY <1>2 DEF StartNormalize, StartCurrency, StartValidation, StartPersist, StartStage, locals
    <2> QED
      BY <2>1, GoToTarget DEF HandlerInv, Controls, Busy, InTry
  <1>3. CASE \/ FinishDedup(d) \/ FinishNormalize(d) \/ Convert(d) \/ Validate(d)
             \/ FinishPersist(d)
    <2>1. \E next \in {"normalize", "skipRead", "currency", "validation", "metaRead", "finish"} :
             GoTo(d, next) /\ UNCHANGED <<runs, rec>>
      BY <1>3
         DEF FinishDedup, FinishNormalize, Convert, Validate, FinishPersist, FinishStage
    <2>2. cause'[d] = cause[d] \/ (cause'[d] = "negative_amount" /\ Fp(d) \in Negative)
      BY <1>1, <1>3 DEF FinishDedup, FinishNormalize, Convert, Validate, FinishPersist
    <2> QED
      BY <2>1, <2>2, GoToTarget DEF HandlerInv, Controls, Busy, InTry, Skipping
  <1>4. CASE Remember(d) \/ Upsert(d)
    BY <1>4, GoToTarget
       DEF Remember, Upsert, HandlerInv, tables, locals, Controls, Busy, BeforeTry, InTry
  <1>5. CASE ValidateRefused(d) \/ CallFails(d)
    BY <1>5, ThrowTarget DEF ValidateRefused, CallFails, HandlerInv, tables, locals
  <1>6. CASE ReadRun(d)
    BY <1>1, <1>6 DEF ReadRun, tables
  <1>7. CASE SaveRun(d)
    <2>1. /\ pc[d] \in {"skipSave", "metaSave"} /\ pc[d] \in InRecord \ {"catch"}
          /\ UNCHANGED <<rec, cause>>
      BY <1>7, RecordPoints DEF SaveRun, Skipping, InTry
    <2>2. /\ Job(d) \in Jobs /\ runs[Job(d)].status = "running" /\ row[d] = runs[Job(d)]
          /\ runs[Job(d)] \in RunRows
      BY <1>1, <2>1, RecordTypes DEF BatchInv, RunOpen, PipeInv, MetaFits
    <2>3. pc'[d] \in {"skipEnd", "persist", "catch", "failed"}
      BY <1>7, GoToTarget DEF SaveRun, HandlerInv, Controls, Busy, Skipping, InTry
    <2>4. \/ /\ runs'[Job(d)] = [runs[Job(d)] EXCEPT !.causes = @ \union {cause[d]}]
             /\ cause[d] \in Causes
          \/ runs'[Job(d)] = [runs[Job(d)] EXCEPT !.validation = verdict[d]]
      BY <1>1, <1>7, <2>2 DEF SaveRun, HandlerInv, ControlOK, Skipping
    <2>5. /\ runs'[Job(d)].status = runs[Job(d)].status
          /\ runs'[Job(d)].causes \subseteq S
      BY <2>2, <2>4, NoneAssumption DEF RunRows
    <2> QED
      BY <2>1, <2>2, <2>3, <2>5
  <1>8. CASE FinishSuccess(d) \/ FinishSkipped(d)
    <2>1. PICK here \in {"finish", "skipEnd"}, status \in {"success", "skipped"} :
             FinishRun(d, here, status)
      BY <1>8 DEF FinishSuccess, FinishSkipped
    <2>2. /\ Job(d) \in Jobs /\ status \in RunStatus /\ runs' = finishRun(Job(d), status)
      BY <2>1, RecordPoints, RecordTypes DEF FinishRun, Skipping, InTry, RunStatus
    <2>3. /\ runs'[Job(d)].status = status
          /\ runs'[Job(d)].causes = runs[Job(d)].causes
      BY <2>2, ClosedRun DEF HandlerInv
    <2>4. \/ pc'[d] = "record" /\ rec'[d] = rec[d] + 1 /\ cause'[d] = None
          \/ pc'[d] \in {"catch", "failed"} /\ rec' = rec /\ cause' = cause
      BY <1>1, <2>1, ThrowTarget DEF FinishRun, HandlerInv
    <2> QED
      BY <2>1, <2>3, <2>4, NoneAssumption DEF Causes
  <1>9. CASE FinishFailed(d)
    <2>1. Job(d) \in Jobs /\ "failed" \in RunStatus
      BY <1>9, RecordPoints, RecordTypes DEF FinishFailed, RunStatus
    <2> QED
      BY <1>1, <1>9, <2>1, ClosedRun DEF FinishFailed, HandlerInv, locals
  <1>10. ~EndBatch(d) /\ ~RejectRecord(d) /\ ~CreateRun(d) /\ ~StartDedup(d)
         /\ ~CheckRedis(d) /\ ~CheckLedger(d) /\ ~SkipDedup(d)
    BY DEF EndBatch, RejectRecord, CreateRun, StartDedup, CheckRedis, CheckLedger, SkipDedup,
           StartStage, FinishStage
  <1> QED
    BY <1>2, <1>3, <1>4, <1>5, <1>6, <1>7, <1>8, <1>9, <1>10 DEF Step

\* The record number grows by one at most.
LEMMA RecordsInOrder ==
    ASSUME HandlerInv, NEW d \in Deliveries, Step(d) \/ CallFails(d)
    PROVE  rec'[d] \in {rec[d], rec[d] + 1}
  BY DEF HandlerInv, HandlerTypes, Step, EndBatch, RejectRecord, CreateRun, StartDedup, CheckRedis,
         CheckLedger, Remember, FinishDedup, SkipDedup, StartNormalize, FinishNormalize,
         StartCurrency, Convert, StartValidation, Validate, ValidateRefused, ReadRun, SaveRun,
         StartPersist, Upsert, FinishPersist, FinishSuccess, FinishSkipped, FinishFailed,
         FinishRun, StartStage, FinishStage, CallFails, locals

\* A job that holds a key holds it for good: the key may expire, the job stays what
\* the records after it were duplicates of.
LEMMA HolderStays ==
    ASSUME HandlerInv, RowTypes, BatchInv, PipeInv, [Next]_vars,
           NEW e \in Deliveries, NEW n \in 1 .. MaxRecords, NEW k, Holds(e, n, k)
    PROVE  Holds(e, n, k)'
  <1>1. <<e, n>> \in Jobs /\ runs[<<e, n>>].status # "absent"
    BY DEF Jobs, Holds
  <1>2. ASSUME runs' = runs, msg' = msg, rec' = rec, cause' = cause,
               pc'[e] \in {pc[e], "dead"}
        PROVE  Holds(e, n, k)'
    BY <1>2 DEF Holds
  <1>3. ASSUME NEW d \in Deliveries, Step(d) \/ CallFails(d)
        PROVE  Holds(e, n, k)'
    <2>1. CASE d # e
      <3>1. <<e, n>> # Job(d)
        BY <2>1 DEF Job
      <3> QED
        BY <1>1, <1>3, <2>1, <3>1, OwnStep DEF Holds
    <2>2. CASE d = e /\ n # rec[d]
      <3>1. runs'[<<e, n>>] = runs[<<e, n>>] /\ msg' = msg
        BY <1>1, <1>3, <2>2, OwnStep DEF Job
      <3>2. n < rec[d]
        BY <1>1, <2>2 DEF BatchInv, SequentialBatch, AbsentRun, HandlerInv, HandlerTypes
      <3>3. n # rec'[d]
        BY <1>3, <3>2, RecordsInOrder DEF HandlerInv, HandlerTypes
      <3> QED
        BY <2>2, <3>1, <3>3 DEF Holds
    <2>3. CASE d = e /\ n = rec[d]
      <3>1. pc[d] # "record" /\ <<e, n>> = Job(d)
        BY <1>1, <2>3 DEF BatchInv, RunOpen, Job
      <3>2. msg' = msg
        BY <1>3, OwnStep
      <3>3. /\ Fp(d) = k[2]
            /\ Fp(d) \in Negative => "negative_amount" \in Objections(k[2])
        BY <2>3 DEF Holds, Fp, Record, Objections
      <3>4. /\ runs'[Job(d)].status # "absent"
            /\ runs'[Job(d)].causes \subseteq Objections(k[2])
            /\ cause'[d] \in Objections(k[2]) \union {None}
            /\ pc'[d] \notin {"dedup", "exists", "query", "skipStage"}
        BY <1>3, <2>3, <3>1, <3>3, HolderWorks DEF Holds
      <3> QED
        BY <2>3, <3>1, <3>2, <3>4 DEF Holds
    <2> QED
      BY <2>1, <2>2, <2>3
  <1>4. ASSUME NEW d \in Deliveries, NEW m \in Messages, Receive(d, m)
        PROVE  Holds(e, n, k)'
    <2>1. pc[e] # "idle"
      BY <1>1 DEF BatchInv, SequentialBatch, AbsentRun, HandlerInv, HandlerTypes, ControlOK
    <2>2. /\ d # e /\ runs' = runs /\ msg'[e] = msg[e] /\ rec'[e] = rec[e] /\ cause' = cause
          /\ pc'[e] = pc[e]
      BY <1>4, <2>1 DEF Receive, tables, HandlerInv, HandlerTypes
    <2> QED
      BY <2>2 DEF Holds
  <1>5. ASSUME NEW m \in Messages, Publish(m) \/ Lose(m) PROVE Holds(e, n, k)'
    BY <1>2, <1>5 DEF Publish, Lose, tables, locals
  <1>6. ASSUME NEW x \in keys, Expire(x) PROVE Holds(e, n, k)'
    BY <1>2, <1>6 DEF Expire, tables, locals
  <1>7. CASE Crash
    BY <1>2, <1>7 DEF Crash, tables, locals
  <1>8. CASE UNCHANGED vars
    BY <1>2, <1>8 DEF vars
  <1> QED
    BY <1>3, <1>4, <1>5, <1>6, <1>7, <1>8 DEF Next, Environment

LEMMA HeldStays ==
    ASSUME HandlerInv, RowTypes, BatchInv, PipeInv, [Next]_vars, NEW k, Held(k)
    PROVE  Held(k)'
  BY HolderStays DEF Held

\* A key is added only by the job that will hold it.
LEMMA KeysHeld ==
    ASSUME HandlerInv, RowTypes, BatchInv, PipeInv, PriorInv, [Next]_vars, NEW k \in keys'
    PROVE  Held(k)
  <1>1. CASE k \in keys
    BY <1>1 DEF PriorInv
  <1>2. ASSUME NEW d \in Deliveries, Remember(d), k = DedupKey(d)
        PROVE  Held(k)
    <2>1. pc[d] = "remember" /\ pc[d] \in InRecord \ {"catch", "skipEnd"}
      BY <1>2, RecordPoints DEF Remember, BeforeTry
    <2>2. /\ runs[Job(d)].status = "running" /\ runs[Job(d)].causes = {}
          /\ cause[d] = None /\ rec[d] \in 1 .. MaxRecords
      BY <2>1, JobTypes DEF BatchInv, RunOpen, PipeInv, MetaFits, Unexplained, Window
    <2>3. Holds(d, rec[d], k)
      BY <1>2, <2>1, <2>2 DEF Holds, Job, DedupKey, Fp, Record
    <2> QED
      BY <2>2, <2>3 DEF Held
  <1>3. ASSUME NEW d \in Deliveries, Step(d), ~Remember(d)
        PROVE  keys' = keys
    BY <1>3
       DEF Step, EndBatch, RejectRecord, CreateRun, StartDedup, CheckRedis, CheckLedger,
           FinishDedup, SkipDedup, StartNormalize, FinishNormalize, StartCurrency, Convert,
           StartValidation, Validate, ValidateRefused, ReadRun, SaveRun, StartPersist, Upsert,
           FinishPersist, FinishSuccess, FinishSkipped, FinishFailed, FinishRun, StartStage,
           FinishStage
  <1>4. ASSUME ~(\E d \in Deliveries : Step(d))
        PROVE  keys' \subseteq keys
    BY <1>4 DEF Next, Environment, Receive, Publish, Lose, Expire, CallFails, Crash, vars
  <1>5. ASSUME NEW d \in Deliveries, Remember(d)
        PROVE  keys' = keys \union {DedupKey(d)}
    BY <1>5 DEF Remember
  <1> QED
    BY <1>1, <1>2, <1>3, <1>4, <1>5

\* What was found in the ledger is held by the job that wrote the row.
LEMMA RowsHeld ==
    ASSUME HandlerInv, RowTypes, PipeInv, OwnersStand, NEW x \in ExpenseIds, expenses[x] # None
    PROVE  \E p \in Processes : Held(<<p, expenses[x].fp>>)
  <1>1. PICK e \in Deliveries, n \in 1 .. MaxRecords : expenses[x].job = <<e, n>>
    BY DEF RowTypes, ExpenseRows, Jobs
  <1>2. /\ runs[<<e, n>>].status # "absent" /\ runs[<<e, n>>].causes = {}
        /\ FpOf[Records[msg[e]][n]] = expenses[x].fp
        /\ n = rec[e] => cause[e] = None
    <2>1. runs[<<e, n>>].status # "absent"
      BY <1>1 DEF PipeInv, OwnersWrote
    <2>2. runs[<<e, n>>].causes = {}
      BY <1>1 DEF PipeInv, LedgerBacked
    <2>3. <<e, n>>[1] = e /\ <<e, n>>[2] = n
      OBVIOUS
    <2>4. /\ FpOf[Records[msg[e]][n]] = expenses[x].fp
          /\ n = rec[e] => cause[e] = None
      BY <1>1, <2>3 DEF OwnersStand
    <2> QED
      BY <2>1, <2>2, <2>4
  <1>3. n = rec[e] => pc[e] \notin {"dedup", "exists", "query", "skipStage"}
    BY <1>1 DEF PipeInv, OwnersWrote, Job, InRecord, Busy, BeforeTry
  <1>4. msg[e] \in Messages
    BY <1>1, <1>2 DEF PipeInv, RunsOfEvents, HandlerInv, ControlOK, Jobs
  <1>5. Holds(e, n, <<ProcessOf[msg[e]], expenses[x].fp>>)
    BY <1>2, <1>3 DEF Holds
  <1>6. ProcessOf[msg[e]] \in Processes
    BY <1>4, ConstantsAssumption
  <1> QED
    BY <1>5, <1>6 DEF Held

\* A handler means to skip a record as a duplicate only when it has found the key or
\* the row.
LEMMA CausesHeld ==
    ASSUME HandlerInv, RowTypes, BatchInv, PipeInv, PriorInv, [Next]_vars, NEW e \in Deliveries,
           NEW c \in Duplicate, cause'[e] = c
    PROVE  Kept(c, DedupKey(e)')
  <1>1. /\ cause \in [Deliveries -> Causes \union {None}] /\ rec \in [Deliveries -> 0 .. MaxRecords + 1]
        /\ None # c
    BY NoneAssumption DEF HandlerInv, HandlerTypes, Causes, Duplicate
  <1>2. CASE cause[e] = cause'[e] /\ msg'[e] = msg[e] /\ rec'[e] = rec[e]
    <2>1. DedupKey(e)' = DedupKey(e)
      BY <1>2 DEF DedupKey, Fp, Record
    <2> QED
      BY <1>2, <2>1 DEF PriorInv
  <1>3. ASSUME NEW d \in Deliveries, Step(d) \/ CallFails(d)
        PROVE  Kept(c, DedupKey(e)')
    <2>1. CASE d # e
      BY <1>2, <1>3, <2>1, OwnStep
    <2>2. CASE d = e /\ CheckRedis(d)
      <3>1. DedupKey(e)' = DedupKey(e)
        BY <2>2 DEF CheckRedis, DedupKey, Fp, Record
      <3>2. CASE DedupKey(d) \in keys
        <4>1. pc[d] \in InRecord /\ pc[d] # "idle"
          BY <2>2, RecordPoints DEF CheckRedis, BeforeTry
        <4>2. ProcessOf[msg[d]] \in Processes
          BY <4>1, JobTypes, ConstantsAssumption
        <4>3. Held(<<ProcessOf[msg[d]], Fp(d)>>)
          BY <3>2 DEF PriorInv, DedupKey
        <4> QED
          BY <2>2, <3>1, <4>2, <4>3 DEF Kept, DedupKey
      <3>3. CASE DedupKey(d) \notin keys
        BY <1>2, <2>2, <3>3 DEF CheckRedis
      <3> QED
        BY <3>2, <3>3
    <2>3. CASE d = e /\ CheckLedger(d)
      <3>1. DedupKey(e)' = DedupKey(e)
        BY <2>3 DEF CheckLedger, DedupKey, Fp, Record
      <3>2. CASE existsByFingerprint(Fp(d))
        <4>1. c = "duplicate_fingerprint_db"
          BY <1>1, <2>3, <3>2 DEF CheckLedger
        <4>2. PICK x \in ExpenseIds : expenses[x] # None /\ expenses[x].fp = Fp(d)
          BY <3>2 DEF existsByFingerprint
        <4>3. \E p \in Processes : Held(<<p, Fp(d)>>)
          BY <4>2, RowsHeld DEF PriorInv
        <4> QED
          BY <2>3, <3>1, <4>1, <4>3 DEF Kept, DedupKey
      <3>3. CASE ~existsByFingerprint(Fp(d))
        BY <1>2, <2>3, <3>3 DEF CheckLedger
      <3> QED
        BY <3>2, <3>3
    <2>4. CASE d = e /\ ~CheckRedis(d) /\ ~CheckLedger(d)
      <3>1. cause'[d] \in {cause[d], None, "negative_amount"}
            /\ (rec'[d] = rec[d] \/ cause'[d] = None)
        BY <1>1, <1>3, <2>4
           DEF Step, EndBatch, RejectRecord, CreateRun, StartDedup, Remember,
               FinishDedup, SkipDedup, StartNormalize, FinishNormalize, StartCurrency, Convert,
               StartValidation, Validate, ValidateRefused, ReadRun, SaveRun, StartPersist,
               Upsert, FinishPersist, FinishSuccess, FinishSkipped, FinishFailed, FinishRun,
               StartStage, FinishStage, CallFails, locals
      <3>2. msg' = msg
        BY <1>3, OwnStep
      <3> QED
        BY <1>1, <1>2, <2>4, <3>1, <3>2 DEF Duplicate
    <2> QED
      BY <2>1, <2>2, <2>3, <2>4
  <1>4. ASSUME NEW d \in Deliveries, NEW m \in Messages, Receive(d, m)
        PROVE  Kept(c, DedupKey(e)')
    <2>1. CASE d = e
      <3>1. cause[e] = None /\ cause' = cause
        BY <1>4, <2>1 DEF Receive, PipeInv, MetaFits
      <3> QED
        BY <1>1, <3>1
    <2>2. CASE d # e
      BY <1>2, <1>4, <2>2 DEF Receive, HandlerInv, HandlerTypes
    <2> QED
      BY <2>1, <2>2
  <1>5. CASE UNCHANGED <<cause, msg, rec>>
    BY <1>2, <1>5
  <1>6. \/ \E d \in Deliveries, m \in Messages : Receive(d, m)
        \/ \E d \in Deliveries : Step(d) \/ CallFails(d)
        \/ UNCHANGED <<cause, msg, rec>>
    BY DEF Next, Environment, Publish, Lose, Expire, Crash, vars, locals
  <1> QED
    BY <1>3, <1>4, <1>5, <1>6

\* mergeMeta records the reason its handler has found for its own record.
LEMMA ReasonsHeld ==
    ASSUME HandlerInv, RowTypes, BatchInv, PipeInv, PriorInv, [Next]_vars,
           NEW e \in Deliveries, NEW i \in 1 .. MaxRecords, NEW c \in Duplicate,
           c \in runs'[<<e, i>>].causes
    PROVE  Kept(c, <<ProcessOf[msg'[e]], FpOf[Records[msg'[e]][i]]>>)
  <1>1. <<e, i>> \in Jobs
    BY DEF Jobs
  <1>2. CASE c \in runs[<<e, i>>].causes
    <2>1. pc[e] # "idle"
      <3>1. runs[<<e, i>>] # AbsentRun
        BY <1>2 DEF AbsentRun
      <3>2. ~(i > rec[e])
        BY <3>1 DEF BatchInv, SequentialBatch
      <3>3. pc[e] = "idle" => rec[e] = 0
        BY DEF HandlerInv, ControlOK
      <3> QED
        BY <3>2, <3>3
    <2>2. msg'[e] = msg[e]
      <3>1. ASSUME NEW d \in Deliveries, NEW m \in Messages, Receive(d, m)
            PROVE  msg'[e] = msg[e]
        BY <2>1, <3>1 DEF Receive, HandlerInv, HandlerTypes
      <3>2. ASSUME NEW d \in Deliveries, Step(d) \/ CallFails(d)
            PROVE  msg'[e] = msg[e]
        BY <3>2, OwnStep
      <3> QED
        BY <3>1, <3>2 DEF Next, Environment, Publish, Lose, Expire, Crash, vars, locals
    <2> QED
      BY <1>2, <2>2 DEF PriorInv
  <1>3. CASE c \notin runs[<<e, i>>].causes
    <2>1. ASSUME NEW d \in Deliveries, Step(d) \/ CallFails(d)
          PROVE  /\ d = e /\ i = rec[d] /\ msg'[e] = msg[e]
                 /\ SaveRun(d) /\ pc[d] = "skipSave" /\ cause[d] = c
      <3>1. Job(d) = <<e, i>>
        BY <1>1, <1>3, <2>1, OwnStep
      <3>2. ~CallFails(d) /\ SaveRun(d)
        <4>1. ASSUME CreateRun(d) PROVE FALSE
          BY <1>1, <1>3, <3>1, <4>1 DEF CreateRun, createRun, HandlerInv, HandlerTypes
        <4>2. ASSUME NEW status \in RunStatus, runs' = finishRun(Job(d), status) PROVE FALSE
          BY <1>1, <1>3, <3>1, <4>2, ClosedRun DEF HandlerInv
        <4>3. runs' # runs
          BY <1>3
        <4> QED
          BY <2>1, <4>1, <4>2, <4>3
             DEF Step, EndBatch, RejectRecord, StartDedup, CheckRedis, CheckLedger, Remember,
                 FinishDedup, SkipDedup, StartNormalize, FinishNormalize, StartCurrency,
                 Convert, StartValidation, Validate, ValidateRefused, ReadRun, StartPersist,
                 Upsert, FinishPersist, FinishSuccess, FinishSkipped, FinishFailed, FinishRun,
                 StartStage, FinishStage, CallFails, tables, RunStatus
      <3>3. pc[d] \in {"skipSave", "metaSave"} /\ row[d] = runs[Job(d)]
        BY <3>2 DEF SaveRun, PipeInv, MetaFits
      <3>4. runs[Job(d)] \in RunRows
        BY <1>1, <3>1 DEF HandlerInv, HandlerTypes
      <3>5. CASE pc[d] = "metaSave"
        <4>1. runs'[Job(d)] = [runs[Job(d)] EXCEPT !.validation = verdict[d]]
          BY <1>1, <3>1, <3>2, <3>3, <3>5 DEF SaveRun, HandlerInv, HandlerTypes
        <4> QED
          BY <1>3, <3>1, <3>4, <4>1 DEF RunRows
      <3>6. CASE pc[d] = "skipSave"
        <4>1. runs'[Job(d)] = [runs[Job(d)] EXCEPT !.causes = @ \union {cause[d]}]
          BY <1>1, <3>1, <3>2, <3>3, <3>6 DEF SaveRun, HandlerInv, HandlerTypes
        <4>2. cause[d] = c
          BY <1>3, <3>1, <3>4, <4>1 DEF RunRows
        <4> QED
          BY <2>1, <3>1, <3>2, <3>6, <4>2, OwnStep DEF Job
      <3> QED
        BY <3>3, <3>5, <3>6
    <2>2. \E d \in Deliveries : Step(d) \/ CallFails(d)
      <3>1. runs' # runs
        BY <1>3
      <3> QED
        BY <3>1 DEF Next, Environment, Receive, Publish, Lose, Expire, Crash, vars, tables
    <2>3. cause[e] = c /\ i = rec[e] /\ msg'[e] = msg[e]
      BY <2>1, <2>2
    <2> QED
      BY <2>3 DEF PriorInv, DedupKey, Fp, Record
  <1> QED
    BY <1>2, <1>3

\* A row keeps its owner's record, and an owner is past being skipped.
LEMMA NextOwners ==
    ASSUME HandlerInv, RowTypes, BatchInv, PipeInv, OwnersStand, [Next]_vars
    PROVE  OwnersStand'
  <1> SUFFICES ASSUME NEW x \in ExpenseIds, expenses'[x] # None,
                      NEW e \in Deliveries, NEW n \in 1 .. MaxRecords,
                      expenses'[x].job = <<e, n>>
               PROVE  /\ FpOf[Records[msg'[e]][n]] = expenses'[x].fp
                      /\ n = rec'[e] => cause'[e] = None
    <2>1. expenses' \in [ExpenseIds -> ExpenseRows \union {None}]
      BY NextRows DEF RowTypes
    <2>2. SUFFICES ASSUME NEW y \in ExpenseIds, expenses'[y] # None
                   PROVE  LET j == expenses'[y].job IN
                          /\ FpOf[Records[msg'[j[1]]][j[2]]] = expenses'[y].fp
                          /\ j[2] = rec'[j[1]] => cause'[j[1]] = None
      BY DEF OwnersStand
    <2>3. PICK e \in Deliveries, n \in 1 .. MaxRecords : expenses'[y].job = <<e, n>>
      BY <2>1, <2>2 DEF ExpenseRows, Jobs
    <2>4. <<e, n>>[1] = e /\ <<e, n>>[2] = n
      OBVIOUS
    <2>5. /\ FpOf[Records[msg'[e]][n]] = expenses'[y].fp
          /\ n = rec'[e] => cause'[e] = None
      BY <2>2, <2>3
    <2> QED
      BY <2>3, <2>4, <2>5
  <1>1. ASSUME expenses'[x] = expenses[x]
        PROVE  /\ runs[<<e, n>>].status # "absent" /\ pc[e] # "idle"
               /\ n <= rec[e] /\ n \in Nat /\ rec[e] \in Nat
               /\ FpOf[Records[msg[e]][n]] = expenses'[x].fp
               /\ n = rec[e] => /\ cause[e] = None
                                /\ pc[e] \notin InRecord \ {"persisted", "finish", "catch"}
    <2>1. runs[<<e, n>>].status # "absent" /\ <<e, n>> \in Jobs
      BY <1>1 DEF PipeInv, OwnersWrote, Jobs
    <2>2. pc[e] # "idle"
      BY <2>1 DEF PipeInv, RunsOfEvents
    <2>3. n <= rec[e] /\ n \in Nat /\ rec[e] \in Nat
      <3>1. n > rec[e] => runs[<<e, n>>] = AbsentRun
        BY DEF BatchInv, SequentialBatch
      <3>2. n \in Nat /\ rec[e] \in Nat
        BY ConstantsAssumption DEF HandlerInv, HandlerTypes
      <3> QED
        BY <2>1, <3>1, <3>2 DEF AbsentRun
    <2>4. FpOf[Records[msg[e]][n]] = expenses'[x].fp /\ (n = rec[e] => cause[e] = None)
      <3>1. <<e, n>>[1] = e /\ <<e, n>>[2] = n
        OBVIOUS
      <3> QED
        BY <1>1, <3>1 DEF OwnersStand
    <2>5. n = rec[e] => pc[e] \notin InRecord \ {"persisted", "finish", "catch"}
      BY <1>1 DEF PipeInv, OwnersWrote, Job
    <2> QED
      BY <2>1, <2>2, <2>3, <2>4, <2>5
  <1>2. ASSUME expenses' = expenses, msg'[e] = msg[e], rec'[e] = rec[e], cause'[e] = cause[e]
        PROVE  /\ FpOf[Records[msg'[e]][n]] = expenses'[x].fp
               /\ n = rec'[e] => cause'[e] = None
    BY <1>1, <1>2
  <1>3. ASSUME NEW d \in Deliveries, Upsert(d)
        PROVE  /\ FpOf[Records[msg'[e]][n]] = expenses'[x].fp
               /\ n = rec'[e] => cause'[e] = None
    <2>1. /\ pc[d] = "upsert" /\ UNCHANGED <<msg, rec, cause>>
          /\ expenses' = upsertFromEvent(IdOf[Record(d)], Job(d), Fp(d), verdict[d])
      BY <1>3 DEF Upsert, locals
    <2>2. CASE x = IdOf[Record(d)]
      <3>1. expenses'[x] = [job |-> Job(d), fp |-> Fp(d), status |-> verdict[d]]
        BY <2>1, <2>2 DEF upsertFromEvent, RowTypes
      <3>2. e = d /\ n = rec[d] /\ expenses'[x].fp = Fp(d)
        BY <3>1 DEF Job
      <3>3. cause[d] = None
        BY <2>1 DEF PipeInv, MetaFits, Unexplained, Window
      <3> QED
        BY <2>1, <3>2, <3>3 DEF Fp, Record
    <2>3. CASE x # IdOf[Record(d)]
      <3>1. expenses'[x] = expenses[x]
        BY <2>1, <2>3 DEF upsertFromEvent, RowTypes
      <3> QED
        BY <1>1, <2>1, <3>1
    <2> QED
      BY <2>2, <2>3
  <1>4. ASSUME NEW d \in Deliveries, Step(d) \/ CallFails(d), ~Upsert(d)
        PROVE  /\ FpOf[Records[msg'[e]][n]] = expenses'[x].fp
               /\ n = rec'[e] => cause'[e] = None
    <2>1. expenses' = expenses /\ msg' = msg
      BY <1>4, OwnStep
    <2>2. CASE d # e
      BY <1>2, <1>4, <2>1, <2>2, OwnStep
    <2>3. CASE d = e /\ n < rec[e]
      <3>1. n # rec'[e]
        BY <1>1, <1>4, <2>1, <2>3, RecordsInOrder
      <3> QED
        BY <1>1, <2>1, <3>1
    <2>4. CASE d = e /\ n = rec[e]
      <3>1. cause[e] = None /\ pc[e] \notin InRecord \ {"persisted", "finish", "catch"}
        BY <1>1, <2>1, <2>4
      <3>2. /\ ~CheckRedis(d) /\ ~CheckLedger(d) /\ ~FinishNormalize(d)
        BY <2>4, <3>1
           DEF CheckRedis, CheckLedger, FinishNormalize, InRecord, Busy, BeforeTry, InTry
      <3>3. cause'[e] = None
        BY <1>4, <2>4, <3>1, <3>2
           DEF Step, EndBatch, RejectRecord, CreateRun, StartDedup, Remember,
               FinishDedup, SkipDedup, StartNormalize, StartCurrency, Convert,
               StartValidation, Validate, ValidateRefused, ReadRun, SaveRun, StartPersist,
               Upsert, FinishPersist, FinishSuccess, FinishSkipped, FinishFailed, FinishRun,
               StartStage, FinishStage, CallFails, locals, HandlerInv, HandlerTypes
      <3> QED
        BY <1>1, <2>1, <3>3
    <2> QED
      BY <1>1, <2>1, <2>2, <2>3, <2>4
  <1>5. ASSUME NEW d \in Deliveries, NEW m \in Messages, Receive(d, m)
        PROVE  /\ FpOf[Records[msg'[e]][n]] = expenses'[x].fp
               /\ n = rec'[e] => cause'[e] = None
    <2>1. expenses' = expenses /\ cause' = cause
      BY <1>5 DEF Receive, tables
    <2>2. d # e
      BY <1>1, <1>5, <2>1 DEF Receive
    <2> QED
      BY <1>2, <1>5, <2>1, <2>2 DEF Receive, HandlerInv, HandlerTypes
  <1>6. \/ \E d \in Deliveries, m \in Messages : Receive(d, m)
        \/ \E d \in Deliveries : Upsert(d)
        \/ \E d \in Deliveries : (Step(d) \/ CallFails(d)) /\ ~Upsert(d)
        \/ UNCHANGED <<expenses, cause, msg, rec>>
    BY DEF Next, Environment, Publish, Lose, Expire, Crash, vars, locals, tables
  <1> QED
    BY <1>2, <1>3, <1>4, <1>5, <1>6

LEMMA KeptStays ==
    ASSUME HandlerInv, RowTypes, BatchInv, PipeInv, [Next]_vars, NEW c, NEW k, Kept(c, k)
    PROVE  Kept(c, k)'
  BY HeldStays DEF Kept

LEMMA NextPrior == HandlerInv /\ RowTypes /\ BatchInv /\ PipeInv /\ PriorInv /\ [Next]_vars => PriorInv'
  <1> SUFFICES ASSUME HandlerInv, RowTypes, BatchInv, PipeInv, PriorInv, [Next]_vars PROVE PriorInv'
    OBVIOUS
  <1>1. \A k \in keys' : Held(k)'
    BY KeysHeld, HeldStays
  <1>2. ASSUME NEW c \in Duplicate, NEW d \in Deliveries, cause'[d] = c
        PROVE  Kept(c, DedupKey(d))'
    <2>1. PICK k : k = DedupKey(d)'
      OBVIOUS
    <2>2. Kept(c, k)
      BY <1>2, <2>1, CausesHeld
    <2>3. Kept(c, k)'
      BY <2>2, KeptStays
    <2> QED
      BY <2>1, <2>3 DEF Kept
  <1>3. ASSUME NEW c \in Duplicate, NEW d \in Deliveries, NEW i \in 1 .. MaxRecords,
               c \in runs'[<<d, i>>].causes
        PROVE  Kept(c, <<ProcessOf[msg[d]], FpOf[Records[msg[d]][i]]>>)'
    <2>1. PICK k : k = <<ProcessOf[msg'[d]], FpOf[Records[msg'[d]][i]]>>
      OBVIOUS
    <2>2. Kept(c, k)
      BY <1>3, <2>1, ReasonsHeld
    <2>3. Kept(c, k)'
      BY <2>2, KeptStays
    <2> QED
      BY <2>1, <2>3 DEF Kept
  <1>4. OwnersStand'
    BY NextOwners DEF PriorInv
  <1> QED
    BY <1>1, <1>2, <1>3, <1>4 DEF PriorInv

\* Jobs, keys and rows all have their holders.
THEOREM PriorsHold == Spec => [](TypeInv /\ BatchInv /\ PipeInv /\ PriorInv)
  <1>1. Init => PriorInv
    BY NoneAssumption DEF Init, PriorInv, OwnersStand, AbsentRun, Causes, Duplicate, Jobs
  <1> QED
    BY PipelineHolds, TypesApart, NextPrior, <1>1, PTL DEF Spec

\* A job that holds a key is not one that was skipped as a duplicate.
LEMMA HolderIsAnother ==
    ASSUME NEW c \in Duplicate, NEW d, NEW i, NEW e, NEW n, NEW k,
           c \in runs[<<d, i>>].causes, Holds(e, n, k)
    PROVE  <<e, n>> # <<d, i>> /\ runs[<<e, n>>].causes \cap Duplicate = {}
  BY DEF Holds, Objections, Duplicate

\* A record is skipped for its key only when another job of the process with the same
\* fingerprint passed the duplicate check before it and was not skipped for the key:
\* no redelivery, expiry or failure makes a record its own duplicate.
THEOREM SkipsHaveAPrior == Spec => []SkipHasAPrior
  <1>1. PriorInv => SkipHasAPrior
    <2>1. SUFFICES ASSUME PriorInv, NEW d \in Deliveries, NEW i \in 1 .. MaxRecords,
                          "duplicate_fingerprint" \in runs[<<d, i>>].causes
                   PROVE  \E e \in Deliveries, k \in 1 .. MaxRecords :
                             /\ <<e, k>> # <<d, i>>
                             /\ runs[<<e, k>>].status # "absent"
                             /\ "duplicate_fingerprint" \notin runs[<<e, k>>].causes
                             /\ ProcessOf[msg[e]] = ProcessOf[msg[d]]
                             /\ FpOf[Records[msg[e]][k]] = FpOf[Records[msg[d]][i]]
      BY DEF SkipHasAPrior
    <2>2. "duplicate_fingerprint" \in Duplicate
      BY DEF Duplicate
    <2>3. PICK e \in Deliveries, n \in 1 .. MaxRecords :
             Holds(e, n, <<ProcessOf[msg[d]], FpOf[Records[msg[d]][i]]>>)
      BY <2>1, <2>2 DEF PriorInv, Kept, Held
    <2>4. <<e, n>> # <<d, i>> /\ runs[<<e, n>>].causes \cap Duplicate = {}
      BY <2>1, <2>2, <2>3, HolderIsAnother
    <2> QED
      BY <2>2, <2>3, <2>4 DEF Holds
  <1> QED
    BY PriorsHold, <1>1, PTL

\* Behind every skipped duplicate another job stored the purchase, is still at it, or
\* failed: a purchase is lost to the duplicate check by a failure only.
THEOREM SkippedHaveAKeeper == Spec => []SkippedHasAKeeper
  <1>1. TypeInv /\ PipeInv /\ PriorInv => SkippedHasAKeeper
    <2>1. SUFFICES ASSUME TypeInv, PipeInv, PriorInv,
                          NEW d \in Deliveries, NEW i \in 1 .. MaxRecords,
                          runs[<<d, i>>].causes \cap Duplicate # {},
                          FpOf[Records[msg[d]][i]] \notin Negative
                   PROVE  \E e \in Deliveries, n \in 1 .. MaxRecords :
                             /\ <<e, n>> # <<d, i>>
                             /\ KeepsPurchase(e, n)
                             /\ FpOf[Records[msg[e]][n]] = FpOf[Records[msg[d]][i]]
      BY DEF SkippedHasAKeeper
    <2>2. PICK c \in Duplicate : c \in runs[<<d, i>>].causes
      BY <2>1
    <2>3. PICK p \in Processes, e \in Deliveries, n \in 1 .. MaxRecords :
             Holds(e, n, <<p, FpOf[Records[msg[d]][i]]>>)
      BY <2>1, <2>2 DEF PriorInv, Kept, Held
    <2>4. /\ <<e, n>> # <<d, i>> /\ <<e, n>> \in Jobs
          /\ runs[<<e, n>>].status # "absent" /\ runs[<<e, n>>].causes = {}
          /\ FpOf[Records[msg[e]][n]] = FpOf[Records[msg[d]][i]]
          /\ n = rec[e] => cause[e] = None
      BY <2>1, <2>2, <2>3, HolderIsAnother DEF Holds, Objections, Jobs
    <2>5. runs[<<e, n>>].status \in {"running", "success", "failed"}
      <3>1. runs[<<e, n>>].status \in RunStatus
        BY <2>1, <2>4 DEF TypeInv, TypeOK, HandlerTypes, RunRows
      <3>2. runs[<<e, n>>].status # "skipped"
        BY <2>1, <2>4 DEF PipeInv, SkipHasOneCause
      <3> QED
        BY <2>4, <3>1, <3>2 DEF RunStatus
    <2>6. runs[<<e, n>>].status = "success" => expenses[IdOf[Records[msg[e]][n]]] # None
      BY <2>1, <2>4 DEF PipeInv, SuccessIsPersisted
    <2>7. None \notin Duplicate
      BY NoneAssumption DEF Causes, Duplicate
    <2> QED
      BY <2>4, <2>5, <2>6, <2>7 DEF KeepsPurchase
  <1> QED
    BY PriorsHold, <1>1, PTL

-----------------------------------------------------------------------------
(* The promise of JobLedger *)

PhaseMap == [j \in Jobs |-> PhaseOf(j)]
AboutMap == [j \in Jobs |-> AboutOf(j)]

\* The catch block is reached from past the duplicate check only.
LEMMA ThrowPast ==
    ASSUME HandlerInv, NEW d \in Deliveries, Throw(d)
    PROVE  pc'[d] = "failed" \/ (pc'[d] = "catch" /\ Past(d))
  <1>1. OnError(d) = "failed" \/ (OnError(d) = "catch" /\ Past(d))
    BY DEF OnError, Past, InTry, Window
  <1> QED
    BY <1>1 DEF Throw, HandlerInv, HandlerTypes

LEMMA GoToPast ==
    ASSUME HandlerInv, NEW d \in Deliveries, NEW next \in Controls, GoTo(d, next)
    PROVE  pc'[d] \in {next, "failed"} \/ (pc'[d] = "catch" /\ Past(d))
  BY ThrowPast DEF GoTo, HandlerInv, HandlerTypes

\* A step of a handler changes the phase and the subject of its own job only.
LEMMA OtherPhases ==
    ASSUME HandlerInv, BatchInv, NEW d \in Deliveries, Step(d) \/ CallFails(d),
           NEW j \in Jobs, j # Job(d)
    PROVE  PhaseOf(j)' = PhaseOf(j) /\ AboutOf(j)' = AboutOf(j)
  <1>1. runs'[j] = runs[j] /\ msg' = msg
    BY OwnStep
  <1>2. j[1] \in Deliveries /\ j[2] \in 1 .. MaxRecords
    BY DEF Jobs
  <1>3. AboutOf(j)' = AboutOf(j)
    BY <1>1 DEF AboutOf
  <1>4. CASE j[1] # d
    <2>1. pc'[j[1]] = pc[j[1]] /\ cause'[j[1]] = cause[j[1]]
      BY <1>2, <1>4, OwnStep
    <2>2. Past(j[1])' <=> Past(j[1])
      BY <2>1 DEF Past
    <2> QED
      BY <1>1, <1>3, <2>1, <2>2 DEF PhaseOf
  <1>5. CASE j[1] = d
    <2>1. j = <<d, j[2]>> /\ j[2] # rec[d]
      BY <1>5 DEF Job, Jobs
    <2>2. runs[j].status \in {"success", "skipped", "absent"}
      BY <1>2, <2>1 DEF BatchInv, SequentialBatch, AbsentRun, HandlerInv, HandlerTypes
    <2>3. runs[j].status # "running"
      BY <2>2
    <2> QED
      BY <1>1, <1>3, <2>3 DEF PhaseOf
  <1> QED
    BY <1>4, <1>5

\* So the maps change at one job.
LEMMA OnePhase ==
    ASSUME NEW j0 \in Jobs, \A j \in Jobs : j # j0 => PhaseOf(j)' = PhaseOf(j)
    PROVE  PhaseMap' = [PhaseMap EXCEPT ![j0] = PhaseOf(j0)']
  BY DEF PhaseMap

LEMMA OneAbout ==
    ASSUME NEW j0 \in Jobs, \A j \in Jobs : j # j0 => AboutOf(j)' = AboutOf(j)
    PROVE  AboutMap' = [AboutMap EXCEPT ![j0] = AboutOf(j0)']
  BY DEF AboutMap

\* The phase of a job at work.
LEMMA PhaseNow ==
    ASSUME BatchInv, NEW d \in Deliveries, pc[d] \in InRecord \ {"catch"}
    PROVE  PhaseOf(Job(d)) = IF Past(d) THEN "cleared" ELSE "open"
  <1>1. runs[Job(d)].status = "running" /\ Job(d)[1] = d /\ pc[d] \notin Ended
    BY DEF BatchInv, RunOpen, Job, InRecord, Busy, BeforeTry, Skipping, InTry, Ended
  <1> QED
    BY <1>1 DEF PhaseOf

LEMMA PhaseNext ==
    ASSUME NEW d \in Deliveries, NEW j0 \in Jobs, j0[1] = d, runs'[j0].status = "running"
    PROVE  PhaseOf(j0)' = IF pc'[d] \in Ended THEN "lost"
                          ELSE IF Past(d)' THEN "cleared" ELSE "open"
  BY DEF PhaseOf

\* A step that leaves a job running: the handler gets no further in the eyes of
\* JobLedger, or it leaves and the job is lost.
LEMMA QuietStep ==
    ASSUME HandlerInv, BatchInv, NEW d \in Deliveries, Step(d) \/ CallFails(d),
           expenses' = expenses, pc[d] \in InRecord \ {"catch"}, runs'[Job(d)].status = "running",
           \/ pc'[d] = "failed"
           \/ pc'[d] \notin Ended /\ (Past(d)' <=> Past(d))
    PROVE  [Abstract!LedgerNext]_(Abstract!ledgerVars)
  <1>1. PICK j0 \in Jobs : j0 = Job(d) /\ j0[1] = d
    BY RecordTypes DEF Job
  <1>2. /\ \A j \in Jobs : j # j0 => PhaseOf(j)' = PhaseOf(j) /\ AboutOf(j)' = AboutOf(j)
    BY <1>1, OtherPhases
  <1>3. AboutOf(j0)' = AboutOf(j0)
    <2>1. runs[j0].status = "running" /\ runs'[j0].status = "running" /\ msg' = msg
      BY <1>1, OwnStep DEF BatchInv, RunOpen
    <2> QED
      BY <2>1 DEF AboutOf
  <1>4. AboutMap' = AboutMap
    BY <1>2, <1>3 DEF AboutMap
  <1>5. PhaseOf(j0) \in {"open", "cleared"}
    BY <1>1, PhaseNow
  <1>6. CASE pc'[d] = "failed"
    <2>1. PhaseOf(j0)' = "lost"
      BY <1>1, <1>6, PhaseNext DEF Ended
    <2>2. Abstract!Abandon({j0})
      <3>1. \A j \in {j0} : PhaseMap[j] \in {"open", "cleared"}
        BY <1>5 DEF PhaseMap
      <3>2. PhaseMap' = [j \in Jobs |-> IF j \in {j0} THEN "lost" ELSE PhaseMap[j]]
        BY <1>2, <2>1 DEF PhaseMap
      <3> QED
        BY <1>2, <1>4, <3>1, <3>2 DEF Abstract!Abandon, Abstract!Live, PhaseMap, AboutMap
    <2> QED
      BY <2>2 DEF Abstract!LedgerNext
  <1>7. CASE pc'[d] \notin Ended /\ (Past(d)' <=> Past(d))
    <2>1. PhaseOf(j0)' = PhaseOf(j0)
      BY <1>1, <1>7, PhaseNow, PhaseNext
    <2>2. PhaseMap' = PhaseMap
      BY <1>2, <2>1 DEF PhaseMap
    <2> QED
      BY <1>2, <1>4, <2>2 DEF Abstract!ledgerVars, PhaseMap, AboutMap
  <1> QED
    BY <1>6, <1>7

\* The stages, the keys, mergeMeta, a check that finds a duplicate, and what fails
\* are no progress in the eyes of JobLedger.
LEMMA RefineQuiet ==
    ASSUME HandlerInv, RowTypes, BatchInv, PipeInv, NEW d \in Deliveries, pc[d] \in InRecord \ {"catch"},
           \/ StartDedup(d) \/ StartNormalize(d) \/ StartCurrency(d)
           \/ StartValidation(d) \/ StartPersist(d)
           \/ FinishDedup(d) \/ SkipDedup(d) \/ FinishNormalize(d) \/ Convert(d)
           \/ Validate(d) \/ FinishPersist(d)
           \/ ValidateRefused(d) \/ CallFails(d) \/ CheckRedis(d) \/ Remember(d)
           \/ ReadRun(d) \/ SaveRun(d)
           \/ CheckLedger(d) /\ existsByFingerprint(Fp(d))
    PROVE  [Abstract!LedgerNext]_(Abstract!ledgerVars)
  <1>1. MetaFits(d)
    BY DEF PipeInv
  <1>2. Job(d) \in Jobs /\ runs[Job(d)].status = "running"
    BY RecordTypes DEF BatchInv, RunOpen
  <1>3. runs'[Job(d)].status = "running"
    <2>1. CASE SaveRun(d)
      <3>1. row[d] = runs[Job(d)] /\ runs[Job(d)] \in RunRows
        BY <1>1, <1>2, <2>1 DEF SaveRun, MetaFits, HandlerInv, HandlerTypes
      <3>2. \/ runs'[Job(d)] = [runs[Job(d)] EXCEPT !.causes = @ \union {cause[d]}]
            \/ runs'[Job(d)] = [runs[Job(d)] EXCEPT !.validation = verdict[d]]
        BY <1>2, <2>1, <3>1 DEF SaveRun, HandlerInv, HandlerTypes
      <3> QED
        BY <1>2, <3>1, <3>2 DEF RunRows
    <2>2. CASE ~SaveRun(d)
      <3>1. runs' = runs
        BY <2>2
           DEF StartDedup, StartNormalize, StartCurrency, StartValidation, StartPersist,
               FinishDedup, SkipDedup, FinishNormalize, Convert, Validate, FinishPersist,
               StartStage, FinishStage, ValidateRefused, CallFails, CheckRedis, Remember,
               ReadRun, CheckLedger, tables
      <3> QED
        BY <1>2, <3>1
    <2> QED
      BY <2>1, <2>2
  <1>4. \/ pc'[d] = "failed"
        \/ pc'[d] \notin Ended /\ (Past(d)' <=> Past(d))
    <2>1. ASSUME Throw(d) PROVE <1>4!1 \/ <1>4!2
      BY <2>1, ThrowPast DEF Past, Ended
    <2>2. ASSUME NEW next \in Controls, GoTo(d, next), next \notin Ended \union {"catch"},
                 pc'[d] = next => (Past(d)' <=> Past(d))
          PROVE  <1>4!1 \/ <1>4!2
      <3>1. CASE pc'[d] \in {next, "failed"}
        BY <2>2, <3>1
      <3>2. CASE pc'[d] = "catch" /\ Past(d)
        BY <3>2 DEF Past, Ended
      <3> QED
        BY <2>2, <3>1, <3>2, GoToPast
    <2>3. cause \in [Deliveries -> Causes \union {None}] /\ pc \in [Deliveries -> Controls]
      BY DEF HandlerInv, HandlerTypes
    <2>4. CASE StartDedup(d)
      <3>1. GoTo(d, "exists") /\ pc[d] = "dedup" /\ "exists" \in Controls
        BY <2>4 DEF StartDedup, StartStage, Controls, Busy, BeforeTry
      <3> QED
        BY <2>2, <3>1 DEF Past, Window, Skipping, Ended
    <2>5. CASE StartNormalize(d) \/ StartCurrency(d) \/ StartValidation(d) \/ StartPersist(d)
      <3>1. /\ pc[d] \in {"normalize", "currency", "validation", "persist"}
            /\ \E next \in {"normalized", "convert", "validate", "upsert"} : GoTo(d, next)
        BY <2>5 DEF StartNormalize, StartCurrency, StartValidation, StartPersist, StartStage
      <3> QED
        BY <2>2, <3>1 DEF Past, Window, Ended, Controls, Busy, InTry
    <2>6. CASE SkipDedup(d)
      <3>1. GoTo(d, "skipRead") /\ pc[d] = "skipStage" /\ cause' = cause
            /\ cause[d] # "negative_amount"
        BY <1>1, <2>6 DEF SkipDedup, FinishStage, MetaFits, Duplicate
      <3> QED
        BY <2>2, <3>1 DEF Past, Window, Skipping, Ended, Controls, Busy
    <2>7. CASE FinishNormalize(d)
      <3>1. /\ pc[d] = "normalized"
            /\ \/ GoTo(d, "skipRead") /\ cause'[d] = "negative_amount"
               \/ GoTo(d, "currency")
        BY <2>3, <2>7 DEF FinishNormalize, FinishStage
      <3> QED
        BY <2>2, <3>1 DEF Past, Window, Skipping, Ended, Controls, Busy, InTry
    <2>8. CASE FinishDedup(d) \/ Convert(d) \/ Validate(d) \/ FinishPersist(d) \/ Remember(d)
      <3>1. /\ pc[d] \in {"deduped", "convert", "validate", "persisted", "remember"}
            /\ \E next \in {"normalize", "validation", "metaRead", "finish", "deduped"} :
                  GoTo(d, next)
        BY <2>8 DEF FinishDedup, Convert, Validate, FinishPersist, FinishStage, Remember
      <3> QED
        BY <2>2, <3>1 DEF Past, Window, Ended, Controls, Busy, BeforeTry, InTry
    <2>9. CASE ValidateRefused(d) \/ CallFails(d)
      BY <2>1, <2>9 DEF ValidateRefused, CallFails
    <2>10. CASE CheckRedis(d) \/ (CheckLedger(d) /\ existsByFingerprint(Fp(d)))
      <3>1. pc[d] \in {"exists", "query"} /\ pc'[d] \in {"skipStage", "query"}
        BY <2>3, <2>10 DEF CheckRedis, CheckLedger
      <3> QED
        BY <3>1 DEF Past, Window, Skipping, Ended
    <2>11. CASE ReadRun(d)
      <3>1. /\ cause' = cause
            /\ \/ pc[d] = "skipRead" /\ pc'[d] = "skipSave"
               \/ pc[d] = "metaRead" /\ pc'[d] = "metaSave"
        BY <1>2, <2>3, <2>11 DEF ReadRun
      <3> QED
        BY <3>1 DEF Past, Window, Skipping, Ended
    <2>12. CASE SaveRun(d)
      <3>1. /\ cause' = cause
            /\ \/ pc[d] = "skipSave" /\ GoTo(d, "skipEnd")
               \/ pc[d] = "metaSave" /\ GoTo(d, "persist")
        BY <2>12 DEF SaveRun
      <3> QED
        BY <2>2, <3>1 DEF Past, Window, Skipping, Ended, Controls, Busy, InTry
    <2> QED
      BY <2>4, <2>5, <2>6, <2>7, <2>8, <2>9, <2>10, <2>11, <2>12
  <1>5. Step(d) \/ CallFails(d)
    BY DEF Step
  <1>6. expenses' = expenses
    BY DEF StartDedup, StartNormalize, StartCurrency, StartValidation, StartPersist,
           FinishDedup, SkipDedup, FinishNormalize, Convert, Validate, FinishPersist,
           StartStage, FinishStage, ValidateRefused, CallFails, CheckRedis, Remember,
           ReadRun, SaveRun, CheckLedger, tables
  <1> QED
    BY <1>3, <1>4, <1>5, <1>6, QuietStep

\* A handler's own job and what JobLedger sees of it before and after a step.
LEMMA OwnMaps ==
    ASSUME HandlerInv, BatchInv, NEW d \in Deliveries, Step(d) \/ CallFails(d),
           NEW j0 \in Jobs, j0 = Job(d),
           runs[j0].status # "absent", runs'[j0].status # "absent"
    PROVE  /\ AboutMap' = AboutMap
           /\ PhaseMap' = [PhaseMap EXCEPT ![j0] = PhaseOf(j0)']
  <1>1. \A j \in Jobs : j # j0 => PhaseOf(j)' = PhaseOf(j) /\ AboutOf(j)' = AboutOf(j)
    BY OtherPhases
  <1>2. AboutOf(j0)' = AboutOf(j0)
    BY OwnStep DEF AboutOf
  <1> QED
    BY <1>1, <1>2, OnePhase DEF AboutMap

\* The subject of the current job is its event.
LEMMA AboutNow ==
    ASSUME HandlerInv, NEW d \in Deliveries, pc[d] \in InRecord, runs[Job(d)].status # "absent"
    PROVE  AboutMap[Job(d)] = [id |-> IdOf[Record(d)], fp |-> Fp(d)]
  <1>1. Job(d) \in Jobs /\ Job(d)[1] = d /\ Job(d)[2] = rec[d]
    BY RecordTypes DEF Job
  <1> QED
    BY <1>1 DEF AboutMap, AboutOf, Record, Fp

\* A check that finds nothing clears the job against the whole ledger.
LEMMA RefineClear ==
    ASSUME HandlerInv, BatchInv, NEW d \in Deliveries,
           CheckLedger(d), ~existsByFingerprint(Fp(d))
    PROVE  \E j \in Jobs : Abstract!Clear(j)
  <1>1. /\ pc[d] = "query" /\ pc[d] \in InRecord \ {"catch"} /\ runs' = runs
        /\ expenses' = expenses /\ pc' = [pc EXCEPT ![d] = "remember"]
    BY RecordPoints DEF CheckLedger, tables, BeforeTry
  <1>2. PICK j0 \in Jobs : j0 = Job(d) /\ j0[1] = d
    BY <1>1, RecordTypes DEF Job
  <1>3. runs[j0].status = "running" /\ runs'[j0].status = "running" /\ pc'[d] = "remember"
    BY <1>1, <1>2 DEF BatchInv, RunOpen, HandlerInv, HandlerTypes
  <1>4. PhaseOf(j0) = "open"
    BY <1>1, <1>2, PhaseNow DEF Past, Window, Skipping
  <1>5. PhaseOf(j0)' = "cleared"
    BY <1>2, <1>3, PhaseNext DEF Past, Window, Ended
  <1>6. AboutMap' = AboutMap /\ PhaseMap' = [PhaseMap EXCEPT ![j0] = "cleared"]
    BY <1>2, <1>3, <1>5, OwnMaps DEF Step
  <1>7. AboutMap[j0].fp = Fp(d)
    <2>1. AboutMap[j0] = [id |-> IdOf[Record(d)], fp |-> Fp(d)]
      BY <1>1, <1>2, <1>3, AboutNow
    <2> QED
      BY <2>1
  <1>8. ~Abstract!Stored(Fp(d))
    BY DEF Abstract!Stored, existsByFingerprint
  <1>9. PhaseMap[j0] \in {"open"}
    BY <1>4 DEF PhaseMap
  <1>10. Abstract!Clear(j0)
    BY <1>1, <1>6, <1>7, <1>8, <1>9 DEF Abstract!Clear, Abstract!Enter, PhaseMap, AboutMap
  <1> QED
    BY <1>10

\* The upsert is the write of the row the job is about.
LEMMA RefineWrite ==
    ASSUME HandlerInv, BatchInv, NEW d \in Deliveries, Upsert(d)
    PROVE  \E j \in Jobs : Abstract!Write(j)
  <1>1. /\ pc[d] = "upsert" /\ pc[d] \in InRecord \ {"catch"} /\ runs' = runs
        /\ pc'[d] \in {"persisted", "catch", "failed"} /\ verdict[d] \in Verdicts
    BY RecordPoints, GoToTarget
       DEF Upsert, InTry, Controls, Busy, HandlerInv, ControlOK
  <1>2. PICK j0 \in Jobs : j0 = Job(d) /\ j0[1] = d
    BY <1>1, RecordTypes DEF Job
  <1>3. runs[j0].status = "running" /\ runs'[j0].status = "running"
    BY <1>1, <1>2 DEF BatchInv, RunOpen
  <1>4. PhaseOf(j0) = "cleared"
    BY <1>1, <1>2, PhaseNow DEF Past, Window
  <1>5. pc'[d] # "failed"
    BY DEF Upsert, GoTo, Throw, OnError, InTry, HandlerInv, HandlerTypes
  <1>6. PhaseOf(j0)' = "cleared"
    BY <1>1, <1>2, <1>3, <1>5, PhaseNext DEF Past, Ended
  <1>7. AboutMap' = AboutMap /\ PhaseMap' = PhaseMap
    BY <1>2, <1>3, <1>4, <1>6, OwnMaps DEF Step, PhaseMap
  <1>8. AboutMap[j0] = [id |-> IdOf[Record(d)], fp |-> Fp(d)]
    BY <1>1, <1>2, <1>3, AboutNow
  <1>9. expenses' = [expenses EXCEPT ![AboutMap[j0].id] =
                        [job |-> j0, fp |-> AboutMap[j0].fp, status |-> verdict[d]]]
    BY <1>2, <1>8 DEF Upsert, upsertFromEvent
  <1>10. PhaseMap[j0] = "cleared"
    BY <1>4 DEF PhaseMap
  <1>11. Abstract!Write(j0)
    BY <1>1, <1>7, <1>9, <1>10 DEF Abstract!Write, PhaseMap, AboutMap
  <1> QED
    BY <1>11

\* Closing the run ends the job as JobLedger has it.
LEMMA RefineEnd ==
    ASSUME HandlerInv, RowTypes, BatchInv, PipeInv, NEW d \in Deliveries,
           FinishSuccess(d) \/ FinishSkipped(d)
    PROVE  \E j \in Jobs : Abstract!Succeed(j) \/ Abstract!Skip(j)
  <1>1. PICK here \in {"finish", "skipEnd"}, status \in {"success", "skipped"} :
            /\ FinishRun(d, here, status)
            /\ here = "finish" <=> status = "success"
    BY DEF FinishSuccess, FinishSkipped
  <1>2. /\ pc[d] = here /\ pc[d] \in InRecord \ {"catch"} /\ expenses' = expenses
        /\ MetaFits(d)
    BY <1>1, RecordPoints DEF FinishRun, Skipping, InTry, PipeInv
  <1>3. PICK j0 \in Jobs : j0 = Job(d) /\ j0[1] = d
    BY <1>2, RecordTypes DEF Job
  <1>4. runs[j0].status = "running" /\ runs'[j0].status = status
    <2>1. runs[j0].status = "running"
      BY <1>2, <1>3 DEF BatchInv, RunOpen
    <2> QED
      BY <1>1, <1>3, <2>1, ClosedRun DEF FinishRun, HandlerInv, RunStatus
  <1>5. PhaseOf(j0)' = status
    BY <1>4 DEF PhaseOf
  <1>6. AboutMap' = AboutMap /\ PhaseMap' = [PhaseMap EXCEPT ![j0] = status]
    BY <1>3, <1>4, <1>5, OwnMaps DEF Step
  <1>7. PhaseOf(j0) = IF Past(d) THEN "cleared" ELSE "open"
    BY <1>2, <1>3, PhaseNow
  <1>8. CASE status = "success"
    <2>1. PhaseMap[j0] \in {"cleared"}
      BY <1>1, <1>2, <1>7, <1>8 DEF Past, PhaseMap
    <2>2. expenses[AboutMap[j0].id] # None
      <3>1. AboutMap[j0] = [id |-> IdOf[Record(d)], fp |-> Fp(d)]
        BY <1>2, <1>3, <1>4, AboutNow
      <3> QED
        BY <1>1, <1>2, <1>8, <3>1 DEF MetaFits
    <2>3. Abstract!Succeed(j0)
      BY <1>2, <1>6, <1>8, <2>1, <2>2 DEF Abstract!Succeed, Abstract!Enter, PhaseMap, AboutMap
    <2> QED
      BY <2>3
  <1>9. CASE status = "skipped"
    <2>1. PhaseMap[j0] \in {"open", "cleared"}
      BY <1>7 DEF PhaseMap
    <2>2. \A x \in ExpenseIds : expenses[x] # None => expenses[x].job # j0
      BY <1>1, <1>2, <1>3, <1>9 DEF PipeInv, OwnersWrote
    <2>3. Abstract!Skip(j0)
      BY <1>2, <1>6, <1>9, <2>1, <2>2
         DEF Abstract!Skip, Abstract!Enter, Abstract!Live, PhaseMap, AboutMap
    <2> QED
      BY <2>3
  <1> QED
    BY <1>8, <1>9

\* The catch block marks the run failed, an ended one too; when its update fails,
\* a run that is still open stays so for good.
LEMMA RefineCatch ==
    ASSUME HandlerInv, BatchInv, NEW d \in Deliveries, pc[d] = "catch",
           FinishFailed(d) \/ CallFails(d)
    PROVE  [Abstract!LedgerNext]_(Abstract!ledgerVars)
  <1>1. pc[d] \in InRecord /\ pc'[d] = "failed" /\ expenses' = expenses /\ msg' = msg
        /\ (Step(d) \/ CallFails(d))
    BY RecordPoints, OwnStep
       DEF FinishFailed, CallFails, Throw, OnError, InTry, Skipping, Step, HandlerInv, HandlerTypes, Upsert
  <1>2. PICK j0 \in Jobs : j0 = Job(d) /\ j0[1] = d
    BY <1>1, RecordTypes DEF Job
  <1>3. \A j \in Jobs : j # j0 => PhaseOf(j)' = PhaseOf(j) /\ AboutOf(j)' = AboutOf(j)
    BY <1>1, <1>2, OtherPhases
  <1>4. runs[j0].status \in RunStatus /\ "failed" \in RunStatus
    BY DEF HandlerInv, HandlerTypes, RunRows, RunStatus
  <1>5. \/ CallFails(d) /\ runs'[j0].status = runs[j0].status
        \/ runs[j0].status = "absent" /\ runs'[j0].status = "absent"
        \/ runs[j0].status # "absent" /\ runs'[j0].status = "failed"
    <2>1. CASE CallFails(d)
      BY <2>1 DEF CallFails, tables
    <2>2. CASE FinishFailed(d)
      BY <1>2, <1>4, <2>2, ClosedRun DEF FinishFailed, finishRun, HandlerInv
    <2> QED
      BY <2>1, <2>2
  <1>6. AboutMap' = AboutMap
    <2>1. AboutOf(j0)' = AboutOf(j0)
      BY <1>1, <1>5 DEF AboutOf
    <2> QED
      BY <1>3, <2>1 DEF AboutMap
  <1>7. PhaseMap' = [PhaseMap EXCEPT ![j0] = PhaseOf(j0)']
    BY <1>3, OnePhase
  <1>8. PhaseOf(j0) = IF runs[j0].status = "absent" THEN "none"
                      ELSE IF runs[j0].status = "running" THEN "cleared"
                      ELSE runs[j0].status
    BY <1>2 DEF PhaseOf, Past, Ended
  <1>9. PhaseOf(j0)' = IF runs'[j0].status = "absent" THEN "none"
                       ELSE IF runs'[j0].status = "running" THEN "lost"
                       ELSE runs'[j0].status
    BY <1>1, <1>2 DEF PhaseOf, Ended
  <1>10. PhaseMap[j0] = PhaseOf(j0)
    BY DEF PhaseMap
  <1>11. CASE PhaseOf(j0)' = PhaseOf(j0)
    <2>1. PhaseMap' = PhaseMap
      BY <1>7, <1>11 DEF PhaseMap
    <2> QED
      BY <1>1, <1>6, <2>1 DEF Abstract!ledgerVars, PhaseMap, AboutMap
  <1>12. CASE PhaseOf(j0)' # PhaseOf(j0)
    <2>1. CASE PhaseOf(j0)' = "failed"
      <3>1. PhaseOf(j0) \in {"cleared", "success", "skipped"}
        BY <1>4, <1>5, <1>8, <1>9, <1>12, <2>1 DEF RunStatus
      <3>2. Abstract!Fail(j0)
        BY <1>1, <1>6, <1>7, <1>10, <2>1, <3>1
           DEF Abstract!Fail, Abstract!Enter, PhaseMap, AboutMap
      <3> QED
        BY <3>2 DEF Abstract!LedgerNext
    <2>2. CASE PhaseOf(j0)' # "failed"
      <3>1. PhaseOf(j0) = "cleared" /\ PhaseOf(j0)' = "lost"
        BY <1>5, <1>8, <1>9, <1>12, <2>2
      <3>2. PhaseMap' = [j \in Jobs |-> IF j \in {j0} THEN "lost" ELSE PhaseMap[j]]
        BY <1>7, <3>1 DEF PhaseMap
      <3>3. Abstract!Abandon({j0})
        BY <1>1, <1>6, <1>10, <3>1, <3>2
           DEF Abstract!Abandon, Abstract!Live, PhaseMap, AboutMap
      <3> QED
        BY <3>3 DEF Abstract!LedgerNext
    <2> QED
      BY <2>1, <2>2
  <1> QED
    BY <1>11, <1>12

\* A run is created for its event; the handler may not learn of it.
LEMMA RefineOpen ==
    ASSUME HandlerInv, BatchInv, NEW d \in Deliveries, CreateRun(d)
    PROVE  \E j \in Jobs : Abstract!Open(j)
  <1>1. /\ Step(d) /\ pc[d] = "record" /\ rec' = rec /\ msg' = msg
        /\ expenses' = expenses /\ runs' = createRun(Job(d))
    BY DEF Step, CreateRun, locals
  <1>2. msg[d] \in Messages /\ rec[d] \in 1 .. Len(Records[msg[d]]) /\ rec[d] <= MaxRecords
    BY <1>1, ConstantsAssumption DEF CreateRun, HandlerInv, ControlOK
  <1>3. Job(d) \in Jobs
    BY <1>1, <1>2, JobTypes
  <1>4. Record(d) \in Events
    <2>1. Record(d) \in Events \union {Malformed}
      BY <1>2, ConstantsAssumption DEF Record
    <2> QED
      BY <2>1 DEF CreateRun
  <1>5. PICK j0 \in Jobs : j0 = Job(d) /\ j0[1] = d /\ j0[2] = rec[d]
    BY <1>3 DEF Job
  <1>6. runs[j0].status = "absent" /\ runs'[j0].status = "running"
    BY <1>1, <1>2, <1>5 DEF BatchInv, RunOpen, createRun, HandlerInv, HandlerTypes
  <1>7. \A j \in Jobs : j # j0 => PhaseOf(j)' = PhaseOf(j) /\ AboutOf(j)' = AboutOf(j)
    BY <1>1, <1>5, OtherPhases
  <1>8. PhaseMap[j0] = "none"
    BY <1>6 DEF PhaseMap, PhaseOf
  <1>9. PhaseOf(j0)' \in {"open", "lost"}
    <2>1. pc'[d] \in {"dedup", "failed"}
      <3>1. GoTo(d, "dedup") /\ "dedup" \in Controls /\ OnError(d) = "failed"
        BY <1>1 DEF CreateRun, Controls, Busy, BeforeTry, OnError, InTry, Skipping
      <3> QED
        BY <3>1 DEF GoTo, Throw, HandlerInv, HandlerTypes
    <2>2. pc'[d] = "dedup" => ~Past(d)'
      BY DEF Past, Window, Skipping
    <2> QED
      BY <1>5, <1>6, <2>1, <2>2, PhaseNext DEF Ended
  <1>10. AboutOf(j0)' = [id |-> IdOf[Record(d)], fp |-> FpOf[Record(d)]]
    <2>1. runs'[j0].status # "absent"
      BY <1>6
    <2>2. Records'[msg'[j0[1]]][j0[2]] = Record(d)
      BY <1>1, <1>5 DEF Record
    <2> QED
      BY <2>1, <2>2 DEF AboutOf
  <1>11. AboutOf(j0)' \in Abstract!Subjects
    BY <1>4, <1>10, ConstantsAssumption DEF Abstract!Subjects
  <1>12. PhaseMap' = [PhaseMap EXCEPT ![j0] = PhaseOf(j0)']
         /\ AboutMap' = [AboutMap EXCEPT ![j0] = AboutOf(j0)']
    BY <1>7, OnePhase, OneAbout
  <1>13. Abstract!Enter(j0, {"none"}, "open") \/ Abstract!Enter(j0, {"none"}, "lost")
    BY <1>8, <1>9, <1>12 DEF Abstract!Enter, PhaseMap
  <1>14. Abstract!Open(j0)
    BY <1>1, <1>11, <1>12, <1>13 DEF Abstract!Open, PhaseMap, AboutMap
  <1> QED
    BY <1>14

\* What leaves the runs, the rows and the handlers of open runs alone is a stutter.
LEMMA RefineStill ==
    ASSUME runs' = runs, expenses' = expenses,
           \A j \in Jobs : runs[j].status # "absent" => msg'[j[1]] = msg[j[1]],
           \A j \in Jobs : runs[j].status = "running" =>
               pc'[j[1]] = pc[j[1]] /\ cause'[j[1]] = cause[j[1]]
    PROVE  UNCHANGED Abstract!ledgerVars
  <1>1. ASSUME NEW j \in Jobs PROVE PhaseOf(j)' = PhaseOf(j) /\ AboutOf(j)' = AboutOf(j)
    <2>1. AboutOf(j)' = AboutOf(j)
      BY DEF AboutOf
    <2>2. CASE runs[j].status = "running"
      <3>1. Past(j[1])' <=> Past(j[1])
        BY <2>2 DEF Past
      <3> QED
        BY <2>1, <2>2, <3>1 DEF PhaseOf
    <2>3. CASE runs[j].status # "running"
      BY <2>1, <2>3 DEF PhaseOf
    <2> QED
      BY <2>2, <2>3
  <1>2. PhaseMap' = PhaseMap /\ AboutMap' = AboutMap
    BY <1>1 DEF PhaseMap, AboutMap
  <1> QED
    BY <1>2 DEF Abstract!ledgerVars, PhaseMap, AboutMap

\* Between two records, or before the first, a handler has no open run.
LEMMA NoOpenRun ==
    ASSUME HandlerInv, BatchInv, NEW d \in Deliveries, pc[d] = "record",
           NEW j \in Jobs, j[1] = d
    PROVE  runs[j].status # "running"
  <1>1. j = <<d, j[2]>> /\ j[2] \in 1 .. MaxRecords /\ rec[d] \in 0 .. MaxRecords + 1
    BY DEF Jobs, HandlerInv, HandlerTypes
  <1>2. CASE j[2] = rec[d]
    BY <1>1, <1>2 DEF BatchInv, RunOpen, Job
  <1>3. CASE j[2] # rec[d]
    <2>1. j[2] < rec[d] \/ j[2] > rec[d]
      BY <1>1, <1>3, ConstantsAssumption
    <2>2. runs[j].status \in {"success", "skipped"} \/ runs[j] = AbsentRun
      BY <1>1, <2>1 DEF BatchInv, SequentialBatch
    <2> QED
      BY <2>2 DEF AbsentRun
  <1> QED
    BY <1>2, <1>3

\* The loop over the records, taking a message, the broker and the keys.
LEMMA RefineLoop ==
    ASSUME HandlerInv, RowTypes, BatchInv, PipeInv,
           \/ \E d \in Deliveries : EndBatch(d) \/ RejectRecord(d)
           \/ \E d \in Deliveries : CallFails(d) /\ pc[d] = "record"
           \/ \E d \in Deliveries, m \in Messages : Receive(d, m)
           \/ \E m \in Messages : Publish(m) \/ Lose(m)
           \/ \E k \in keys : Expire(k)
           \/ UNCHANGED vars
    PROVE  UNCHANGED Abstract!ledgerVars
  <1>1. ASSUME NEW d \in Deliveries,
               EndBatch(d) \/ RejectRecord(d) \/ (CallFails(d) /\ pc[d] = "record")
        PROVE  UNCHANGED Abstract!ledgerVars
    <2>1. /\ pc[d] = "record" /\ UNCHANGED <<tables, locals>>
          /\ \A e \in Deliveries : e # d => pc'[e] = pc[e]
      BY <1>1, ThrowTarget DEF EndBatch, RejectRecord, CallFails, HandlerInv, HandlerTypes
    <2>2. \A j \in Jobs : runs[j].status = "running" => j[1] \in Deliveries /\ j[1] # d
      BY <2>1, NoOpenRun DEF Jobs
    <2> QED
      BY <2>1, <2>2, RefineStill DEF tables, locals
  <1>2. ASSUME NEW d \in Deliveries, NEW m \in Messages, Receive(d, m)
        PROVE  UNCHANGED Abstract!ledgerVars
    <2>1. /\ pc[d] = "idle" /\ UNCHANGED <<tables, cause>>
          /\ \A e \in Deliveries : e # d => pc'[e] = pc[e] /\ msg'[e] = msg[e]
      BY <1>2 DEF Receive, HandlerInv, HandlerTypes
    <2>2. \A j \in Jobs : runs[j].status # "absent" => j[1] \in Deliveries /\ j[1] # d
      BY <2>1 DEF PipeInv, RunsOfEvents, Jobs
    <2> QED
      BY <2>1, <2>2, RefineStill DEF tables
  <1>3. ASSUME UNCHANGED <<tables, pc, locals>> PROVE UNCHANGED Abstract!ledgerVars
    BY <1>3, RefineStill DEF tables, locals
  <1> QED
    BY <1>1, <1>2, <1>3 DEF Publish, Lose, Expire, vars, tables, locals

\* A dying worker abandons every job it had open.
LEMMA RefineCrash ==
    ASSUME HandlerInv, RowTypes, BatchInv, PipeInv, Crash
    PROVE  [Abstract!LedgerNext]_(Abstract!ledgerVars)
  <1> DEFINE js == {j \in Jobs : PhaseMap[j] \in {"open", "cleared"}}
  <1>1. /\ UNCHANGED <<tables, locals>>
        /\ pc' = [d \in Deliveries |-> IF pc[d] \in Busy THEN "dead" ELSE pc[d]]
        /\ pc \in [Deliveries -> Controls]
    BY DEF Crash, HandlerInv, HandlerTypes
  <1>2. AboutMap' = AboutMap
    BY <1>1 DEF AboutMap, AboutOf, tables, locals
  <1>3. ASSUME NEW j \in Jobs
        PROVE  PhaseOf(j)' = IF j \in js THEN "lost" ELSE PhaseMap[j]
    <2>1. PhaseMap[j] = PhaseOf(j) /\ j[1] \in Deliveries
      BY DEF PhaseMap, Jobs
    <2>2. runs' = runs /\ runs[j].status \in RunStatus
      BY <1>1 DEF tables, HandlerInv, HandlerTypes, RunRows
    <2>3. CASE runs[j].status # "running"
      <3>1. PhaseOf(j) \notin {"open", "cleared"} /\ PhaseOf(j)' = PhaseOf(j)
        BY <2>2, <2>3 DEF PhaseOf, RunStatus
      <3> QED
        BY <2>1, <3>1
    <2>4. CASE runs[j].status = "running" /\ pc[j[1]] \in Ended
      <3>1. pc[j[1]] \notin Busy /\ pc'[j[1]] = pc[j[1]]
        BY <1>1, <2>1, <2>4 DEF Ended, Busy, BeforeTry, Skipping, InTry
      <3>2. PhaseOf(j) = "lost" /\ PhaseOf(j)' = "lost"
        BY <2>2, <2>4, <3>1 DEF PhaseOf
      <3> QED
        BY <2>1, <3>2
    <2>5. CASE runs[j].status = "running" /\ pc[j[1]] \notin Ended
      <3>1. pc[j[1]] \in Busy
        BY <1>1, <2>1, <2>5 DEF PipeInv, RunsOfEvents, Controls
      <3>2. pc'[j[1]] \in Ended
        BY <1>1, <2>1, <3>1 DEF Ended
      <3>3. PhaseOf(j) \in {"open", "cleared"} /\ PhaseOf(j)' = "lost"
        BY <2>2, <2>5, <3>2 DEF PhaseOf
      <3> QED
        BY <2>1, <3>3
    <2> QED
      BY <2>3, <2>4, <2>5
  <1>4. PhaseMap' = [j \in Jobs |-> IF j \in js THEN "lost" ELSE PhaseMap[j]]
    BY <1>3 DEF PhaseMap
  <1>5. PICK s \in SUBSET Jobs : s = js
    OBVIOUS
  <1>6. PhaseMap' = [j \in Jobs |-> IF j \in s THEN "lost" ELSE PhaseMap[j]]
        /\ \A j \in s : PhaseMap[j] \in {"open", "cleared"}
    BY <1>4, <1>5
  <1>7. CASE s = {}
    <2>1. PhaseMap' = PhaseMap
      BY <1>6, <1>7 DEF PhaseMap
    <2> QED
      BY <1>1, <1>2, <2>1 DEF Abstract!ledgerVars, PhaseMap, AboutMap, tables
  <1>8. CASE s # {}
    <2>1. Abstract!Abandon(s)
      BY <1>1, <1>2, <1>6, <1>8 DEF Abstract!Abandon, Abstract!Live, PhaseMap, AboutMap, tables
    <2> QED
      BY <2>1 DEF Abstract!LedgerNext
  <1> QED
    BY <1>7, <1>8

\* Every step of the worker is a step of JobLedger or none.
LEMMA RefineNext ==
    HandlerInv /\ RowTypes /\ BatchInv /\ PipeInv /\ [Next]_vars
        => [Abstract!LedgerNext]_(Abstract!ledgerVars)
  <1> SUFFICES ASSUME HandlerInv, RowTypes, BatchInv, PipeInv, [Next]_vars
               PROVE  [Abstract!LedgerNext]_(Abstract!ledgerVars)
    OBVIOUS
  <1>1. ASSUME NEW d \in Deliveries, CallFails(d)
        PROVE  [Abstract!LedgerNext]_(Abstract!ledgerVars)
    <2>1. pc[d] = "record" \/ pc[d] = "catch" \/ pc[d] \in InRecord \ {"catch"}
      BY <1>1 DEF CallFails, InRecord
    <2> QED
      BY <1>1, <2>1, RefineLoop, RefineCatch, RefineQuiet
  <1>2. ASSUME NEW d \in Deliveries, Step(d)
        PROVE  [Abstract!LedgerNext]_(Abstract!ledgerVars)
    <2>1. CASE EndBatch(d) \/ RejectRecord(d)
      BY <2>1, RefineLoop
    <2>2. CASE CreateRun(d)
      BY <2>2, RefineOpen DEF Abstract!LedgerNext
    <2>3. CASE FinishFailed(d)
      BY <2>3, RefineCatch DEF FinishFailed
    <2>4. CASE CheckLedger(d) /\ ~existsByFingerprint(Fp(d))
      BY <2>4, RefineClear DEF Abstract!LedgerNext
    <2>5. CASE Upsert(d)
      BY <2>5, RefineWrite DEF Abstract!LedgerNext
    <2>6. CASE FinishSuccess(d) \/ FinishSkipped(d)
      BY <2>6, RefineEnd DEF Abstract!LedgerNext
    <2>7. CASE StartDedup(d) \/ StartNormalize(d) \/ StartCurrency(d)
               \/ StartValidation(d) \/ StartPersist(d)
      <3>1. pc[d] \in InRecord \ {"catch"}
        BY <2>7 DEF StartDedup, StartNormalize, StartCurrency, StartValidation,
                    StartPersist, StartStage, InRecord, Busy, BeforeTry, InTry
      <3> QED
        BY <2>7, <3>1, RefineQuiet
    <2>8. CASE FinishDedup(d) \/ SkipDedup(d) \/ FinishNormalize(d) \/ Convert(d)
               \/ Validate(d) \/ FinishPersist(d) \/ ValidateRefused(d)
      <3>1. pc[d] \in InRecord \ {"catch"}
        BY <2>8 DEF FinishDedup, SkipDedup, FinishNormalize, Convert, Validate,
                    FinishPersist, ValidateRefused, FinishStage, InRecord, Busy,
                    BeforeTry, InTry
      <3> QED
        BY <2>8, <3>1, RefineQuiet
    <2>9. CASE CheckRedis(d) \/ Remember(d) \/ ReadRun(d) \/ SaveRun(d)
               \/ (CheckLedger(d) /\ existsByFingerprint(Fp(d)))
      <3>1. pc[d] \in InRecord \ {"catch"}
        BY <2>9 DEF CheckRedis, Remember, ReadRun, SaveRun, CheckLedger, InRecord, Busy,
                    BeforeTry, Skipping, InTry
      <3> QED
        BY <2>9, <3>1, RefineQuiet
    <2> QED
      BY <1>2, <2>1, <2>2, <2>3, <2>4, <2>5, <2>6, <2>7, <2>8, <2>9 DEF Step
  <1>3. ASSUME NEW m \in Messages, Publish(m) \/ Lose(m)
        PROVE  UNCHANGED Abstract!ledgerVars
    BY <1>3, RefineLoop
  <1>4. ASSUME NEW k \in keys, Expire(k) PROVE UNCHANGED Abstract!ledgerVars
    BY <1>4, RefineLoop
  <1>5. ASSUME NEW d \in Deliveries, NEW m \in Messages, Receive(d, m)
        PROVE  UNCHANGED Abstract!ledgerVars
    BY <1>5, RefineLoop
  <1>6. CASE UNCHANGED vars
    BY <1>6, RefineLoop
  <1> QED
    BY <1>1, <1>2, <1>3, <1>4, <1>5, <1>6, RefineCrash DEF Next, Environment

LEMMA InitRefines == Init => Abstract!LedgerInit
  <1> SUFFICES ASSUME Init PROVE Abstract!LedgerInit
    OBVIOUS
  <1>1. \A j \in Jobs : PhaseOf(j) = "none" /\ AboutOf(j) = None
    BY DEF Init, PhaseOf, AboutOf, AbsentRun
  <1>2. PhaseMap = [j \in Jobs |-> "none"] /\ AboutMap = [j \in Jobs |-> None]
    BY <1>1 DEF PhaseMap, AboutMap
  <1> QED
    BY <1>2 DEF Init, Abstract!LedgerInit, PhaseMap, AboutMap

\* The worker implements JobLedger: a job writes only the row it is about and only
\* after a check against the whole ledger, succeeds only with a row there, and what
\* is skipped owns none, whatever its handlers, the broker and the keys do.
THEOREM WorkerKeepsItsPromise == Spec => Implements
  <1> QED
    BY InitRefines, RefineNext, PipelineHolds, TypesApart, PTL DEF Spec, Implements, Abstract!LedgerSpec

\* What follows from the promise of JobLedger holds of the worker's tables.
Promise == INSTANCE JobLedgerProofs WITH
    phase <- [j \in Jobs |-> PhaseOf(j)],
    about <- [j \in Jobs |-> AboutOf(j)],
    ledger <- expenses

\* Every row of expenses was written by a job that passed the duplicate check and was
\* not skipped, for the very purchase its message says, and the expense of a job that
\* succeeded is there.
THEOREM WorkerLedgerIsTrue == Spec => []Abstract!LedgerTrue
  <1>1. None \notin Promise!Rows
    BY NoneAssumption DEF Promise!Rows, ExpenseRows
  <1>2. Promise!LedgerSpec => []Promise!LedgerTrue
    BY <1>1, Promise!LedgerIsAlwaysTrue
  <1>3. Abstract!LedgerInit => Promise!LedgerInit
    BY DEF Abstract!LedgerInit, Promise!LedgerInit
  <1>4. [Abstract!LedgerNext]_(Abstract!ledgerVars) => [Promise!LedgerNext]_(Promise!ledgerVars)
    BY DEF Abstract!LedgerNext, Promise!LedgerNext, Abstract!ledgerVars, Promise!ledgerVars,
           Abstract!Open, Promise!Open, Abstract!Clear, Promise!Clear, Abstract!Write,
           Promise!Write, Abstract!Succeed, Promise!Succeed, Abstract!Skip, Promise!Skip,
           Abstract!Fail, Promise!Fail, Abstract!Abandon, Promise!Abandon,
           Abstract!Enter, Promise!Enter, Abstract!Stored, Promise!Stored,
           Abstract!Live, Promise!Live, Abstract!Subjects, Promise!Subjects
  <1>5. Promise!LedgerTrue => Abstract!LedgerTrue
    BY DEF Abstract!LedgerTrue, Promise!LedgerTrue
  <1> QED
    BY <1>2, <1>3, <1>4, <1>5, WorkerKeepsItsPromise, PTL
       DEF Implements, Abstract!LedgerSpec, Promise!LedgerSpec

=============================================================================
