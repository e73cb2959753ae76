------------------------------ MODULE Ingestor ------------------------------
(***************************************************************************)
(* The ingestor-service: POST /ingestions and POST /upload cut a CSV file  *)
(* into batches, register each in file_process_batches, publish it, and    *)
(* keep the row of the file in file_processes.  The BFF may delete the     *)
(* process meanwhile.                                                      *)
(*                                                                         *)
(* One request per file; requests interleave at their awaits, and one      *)
(* action runs from one await to the next.                                 *)
(***************************************************************************)
EXTENDS Integers, FiniteSets

CONSTANTS
    Files,        \* uploads; the process id of an upload is its own
    SizeOf,       \* SizeOf[f]: records in the file
    BadAt,        \* BadAt[f]: the record csv-parse refuses, 0 if there is none
    BatchSize,    \* BATCH_SIZE
    Misconfigured, \* uploads an instance serves whose BATCH_SIZE is unset or not positive
    MaxFaults     \* bound: calls that fail or lose their answer, and crashes

ASSUME IngestorAssumption ==
    /\ SizeOf \in [Files -> Nat]
    /\ BadAt \in [Files -> Nat]
    /\ \A f \in Files : BadAt[f] <= SizeOf[f]
    /\ BatchSize \in Nat \ {0}
    /\ Misconfigured \subseteq Files
    /\ MaxFaults \in Nat

VARIABLES
    processes,   \* file_processes, by upload
    batches,     \* file_process_batches: <<f, batch_index, record_count>>
    published,   \* batches handed to the broker, as in batches
    pc,          \* control point of the request
    read,        \* totalRecords of streamBatches
    batchIndex,  \* totalBatches of streamBatches, batchIndex of the controller
    batch,       \* length of the batch in hand
    current,     \* the row incrementProgress has read
    deleted,     \* uploads the BFF has deleted
    faults

vars == <<processes, batches, published, pc, read, batchIndex, batch, current,
          deleted, faults>>
stream == <<read, batchIndex, batch>>

-----------------------------------------------------------------------------
MinOf(a, b) == IF a < b THEN a ELSE b

Statuses == {"absent", "PROCESANDO", "COMPLETADO", "ERROR"}
ProcessRows == [status : Statuses, records : Nat, batches : Nat]
AbsentProcess == [status |-> "absent", records |-> 0, batches |-> 0]

InTry == {"stream", "createBatch", "publish", "readProgress", "saveProgress", "complete"}
Running == {"create", "config"} \union InTry \union {"catch"}
Ended == {"answered", "failed", "refused", "dead"}
Controls == {"idle"} \union Running \union Ended

\* repo.update({process_id}, ...): touches nothing when the row is gone.
update(f, row) ==
    IF processes[f].status = "absent" THEN processes ELSE [processes EXCEPT ![f] = row]

markCompleted(f, records, n) ==
    update(f, [status |-> "COMPLETADO", records |-> records, batches |-> n])

markError(f) == update(f, [processes[f] EXCEPT !.status = "ERROR"])

\* (mutant) Progress is saved with the status it was read with.
saveWholeRow(f, row, n) ==
    [processes EXCEPT ![f] = [row EXCEPT !.records = @ + n, !.batches = @ + 1]]

\* (mutant) What is left is counted down.
saveCountdown(f, row, n) ==
    update(f, [processes[f] EXCEPT !.records = row.records - n,
                                   !.batches = row.batches + 1])

\* What incrementProgress writes back, from the row it has read.  The update names
\* the two counters and leaves the status as it is by now.
saveProgress(f, row, n) ==
    update(f, [processes[f] EXCEPT !.records = row.records + n,
                                   !.batches = row.batches + 1])

-----------------------------------------------------------------------------
Init ==
    /\ processes = [f \in Files |-> AbsentProcess]
    /\ batches = {}
    /\ published = {}
    /\ pc = [f \in Files |-> "idle"]
    /\ read = [f \in Files |-> 0]
    /\ batchIndex = [f \in Files |-> 0]
    /\ batch = [f \in Files |-> 0]
    /\ current = [f \in Files |-> AbsentProcess]
    /\ deleted = {}
    /\ faults = 0

\* A rejected await: the catch block inside the try, out of the handler elsewhere.
Throw(f) == pc' = [pc EXCEPT ![f] = IF pc[f] \in InTry THEN "catch" ELSE "failed"]

\* A call goes well, or it takes effect and its answer is lost.
GoTo(f, next) ==
    \/ pc' = [pc EXCEPT ![f] = next] /\ UNCHANGED faults
    \/ faults < MaxFaults /\ faults' = faults + 1 /\ Throw(f)

\* The BFF, or a client of POST /upload, hands a .csv file over.
Request(f) ==
    /\ pc[f] = "idle"
    /\ pc' = [pc EXCEPT ![f] = "create"]
    /\ UNCHANGED <<processes, batches, published, stream, current, deleted, faults>>

CreateProcess(f) ==
    /\ pc[f] = "create"
    /\ processes' = [processes EXCEPT ![f] =
                       [status |-> "PROCESANDO", records |-> 0, batches |-> 0]]
    /\ GoTo(f, "config")
    /\ UNCHANGED <<batches, published, stream, current, deleted>>

\* BATCH_SIZE is looked at after the row has been created, outside the try.
CheckConfig(f) ==
    /\ pc[f] = "config"
    /\ pc' = [pc EXCEPT ![f] = IF f \in Misconfigured THEN "refused" ELSE "stream"]
    /\ UNCHANGED <<processes, batches, published, stream, current, deleted, faults>>

\* (mutant) The last, shorter batch is not sent.
StreamFullOnly(f) ==
    /\ pc[f] = "stream"
    /\ IF SizeOf[f] - read[f] < BatchSize
       THEN /\ pc' = [pc EXCEPT ![f] = "complete"]
            /\ read' = [read EXCEPT ![f] = SizeOf[f]]
            /\ UNCHANGED <<batch, batchIndex>>
       ELSE /\ read' = [read EXCEPT ![f] = @ + BatchSize]
            /\ batch' = [batch EXCEPT ![f] = BatchSize]
            /\ batchIndex' = [batchIndex EXCEPT ![f] = @ + 1]
            /\ pc' = [pc EXCEPT ![f] = "createBatch"]
    /\ UNCHANGED <<processes, batches, published, current, deleted, faults>>

\* (mutant) The last batch goes by the number of the one before it.
StreamLastUncounted(f) ==
    LET n == MinOf(BatchSize, SizeOf[f] - read[f]) IN
    /\ pc[f] = "stream"
    /\ IF n = 0
       THEN pc' = [pc EXCEPT ![f] = "complete"] /\ UNCHANGED stream
       ELSE /\ read' = [read EXCEPT ![f] = @ + n]
            /\ batch' = [batch EXCEPT ![f] = n]
            /\ batchIndex' = [batchIndex EXCEPT ![f] = IF n = BatchSize THEN @ + 1 ELSE @]
            /\ pc' = [pc EXCEPT ![f] = "createBatch"]
    /\ UNCHANGED <<processes, batches, published, current, deleted, faults>>

\* streamBatches: collect the next batch, or find the end of the file.  csv-parse
\* runs ahead of the loop, so a bad record may cut off good ones before it.
Stream(f) ==
    LET n == MinOf(BatchSize, SizeOf[f] - read[f]) IN
    /\ pc[f] = "stream"
    /\ \/ /\ n > 0
          /\ BadAt[f] = 0 \/ read[f] + n < BadAt[f]
          /\ read' = [read EXCEPT ![f] = @ + n]
          /\ batch' = [batch EXCEPT ![f] = n]
          /\ batchIndex' = [batchIndex EXCEPT ![f] = @ + 1]
          /\ pc' = [pc EXCEPT ![f] = "createBatch"]
       \/ /\ n = 0
          /\ pc' = [pc EXCEPT ![f] = "complete"]
          /\ UNCHANGED stream
       \/ /\ BadAt[f] > read[f]
          /\ Throw(f)
          /\ UNCHANGED stream
    /\ UNCHANGED <<processes, batches, published, current, deleted, faults>>

\* (mutant) The batch is published before it is registered.
RegisterUnpublished(f) ==
    /\ pc[f] = "createBatch"
    /\ published' = published \union {<<f, batchIndex[f], batch[f]>>}
    /\ GoTo(f, "publish")
    /\ UNCHANGED <<processes, batches, stream, current, deleted>>

\* onBatch: createBatch, then publishBatch.
CreateBatch(f) ==
    /\ pc[f] = "createBatch"
    /\ batches' = batches \union {<<f, batchIndex[f], batch[f]>>}
    /\ GoTo(f, "publish")
    /\ UNCHANGED <<processes, published, stream, current, deleted>>

\* (mutant) Nothing is counted after a batch.
PublishOnly(f) ==
    /\ pc[f] = "publish"
    /\ published' = published \union {<<f, batchIndex[f], batch[f]>>}
    /\ GoTo(f, "stream")
    /\ UNCHANGED <<processes, batches, stream, current, deleted>>

PublishBatch(f) ==
    /\ pc[f] = "publish"
    /\ published' = published \union {<<f, batchIndex[f], batch[f]>>}
    /\ GoTo(f, "readProgress")
    /\ UNCHANGED <<processes, batches, stream, current, deleted>>

\* onProgress -> incrementProgress: findOne, then update.
ReadProgress(f) ==
    /\ pc[f] = "readProgress"
    /\ current' = [current EXCEPT ![f] = processes[f]]
    /\ pc' = [pc EXCEPT ![f] =
                IF processes[f].status = "absent" THEN "stream" ELSE "saveProgress"]
    /\ UNCHANGED <<processes, batches, published, stream, deleted, faults>>

SaveProgress(f) ==
    /\ pc[f] = "saveProgress"
    /\ processes' = saveProgress(f, current[f], batch[f])
    /\ GoTo(f, "stream")
    /\ UNCHANGED <<batches, published, stream, current, deleted>>

\* (mutant) The counters of the controller start anew.
CompleteEmpty(f) ==
    /\ pc[f] = "complete"
    /\ processes' = markCompleted(f, read[f], batchIndex[f] - 1)
    /\ GoTo(f, "answered")
    /\ UNCHANGED <<batches, published, stream, current, deleted>>

Complete(f) ==
    /\ pc[f] = "complete"
    /\ processes' = markCompleted(f, read[f], batchIndex[f])
    /\ GoTo(f, "answered")
    /\ UNCHANGED <<batches, published, stream, current, deleted>>

\* (mutant) The catch block is missing.
CatchNothing(f) ==
    /\ pc[f] = "catch"
    /\ pc' = [pc EXCEPT ![f] = "failed"]
    /\ UNCHANGED <<processes, batches, published, stream, current, deleted, faults>>

Catch(f) ==
    /\ pc[f] = "catch"
    /\ processes' = markError(f)
    /\ pc' = [pc EXCEPT ![f] = "failed"]
    /\ UNCHANGED <<batches, published, stream, current, deleted, faults>>

\* A call to Postgres or to the broker rejects without having done anything.
CallFails(f) ==
    /\ pc[f] \in Running \ {"config", "stream"}
    /\ faults < MaxFaults
    /\ faults' = faults + 1
    /\ Throw(f)
    /\ UNCHANGED <<processes, batches, published, stream, current, deleted>>

\* The process dies, and every request in it (an input stream that cannot be read
\* is enough: nobody listens to its error event).
Crash ==
    /\ \E f \in Files : pc[f] \in Running
    /\ faults < MaxFaults
    /\ faults' = faults + 1
    /\ pc' = [f \in Files |-> IF pc[f] \in Running THEN "dead" ELSE pc[f]]
    /\ UNCHANGED <<processes, batches, published, stream, current, deleted>>

\* deleteProcess of the BFF: it finds the row, then its transaction removes the
\* row and the batches registered so far.
DeleteProcess(f) ==
    /\ processes[f].status # "absent"
    /\ processes' = [processes EXCEPT ![f] = AbsentProcess]
    /\ batches' = {b \in batches : b[1] # f}
    /\ deleted' = deleted \union {f}
    /\ UNCHANGED <<published, pc, stream, current, faults>>

Step(f) ==
    \/ CreateProcess(f) \/ CheckConfig(f) \/ Stream(f)
    \/ CreateBatch(f) \/ PublishBatch(f) \/ ReadProgress(f) \/ SaveProgress(f)
    \/ Complete(f) \/ Catch(f)

Next ==
    \/ \E f \in Files : Request(f) \/ Step(f) \/ CallFails(f) \/ DeleteProcess(f)
    \/ Crash

Spec == Init /\ [][Next]_vars

\* Node runs the continuation of every settled await, and every await settles.
FairSpec == Spec /\ \A f \in Files : WF_vars(Step(f))

-----------------------------------------------------------------------------
Of(f, S) == {b \in S : b[1] = f}
Indices(f, S) == {b[2] : b \in Of(f, S)}

TypeOK ==
    /\ processes \in [Files -> ProcessRows]
    /\ batches \subseteq Files \X Nat \X Nat
    /\ published \subseteq Files \X Nat \X Nat
    /\ pc \in [Files -> Controls]
    /\ read \in [Files -> Nat]
    /\ batchIndex \in [Files -> Nat]
    /\ batch \in [Files -> Nat]
    /\ current \in [Files -> ProcessRows]
    /\ deleted \subseteq Files
    /\ faults \in 0 .. MaxFaults

\* A batch is cut out of the file once: published batches carry the numbers 1 to
\* some k without a gap, and each but the file's last one is full.
BatchesTileTheFile ==
    \A f \in Files :
        /\ Indices(f, published) = 1 .. Cardinality(Of(f, published))
        /\ \A b \in Of(f, published) :
              b[3] = MinOf(BatchSize, SizeOf[f] - BatchSize * (b[2] - 1))

\* A worker never gets a batch nobody can trace: unless the process has been
\* deleted, what is published is registered, and at most one registered batch is
\* not published.
PublishedIsRegistered ==
    \A f \in Files \ deleted :
        /\ published \intersect Of(f, batches) = Of(f, published)
        /\ Cardinality(Of(f, batches)) - Cardinality(Of(f, published)) \in {0, 1}

\* COMPLETADO means the whole file: every batch published, every record counted.
CompletedIsWhole ==
    \A f \in Files : processes[f].status = "COMPLETADO" =>
        /\ BadAt[f] = 0
        /\ processes[f].records = SizeOf[f]
        /\ processes[f].batches = Cardinality(Of(f, published))
        /\ (processes[f].batches - 1) * BatchSize < SizeOf[f]
        /\ processes[f].batches * BatchSize >= SizeOf[f]

\* What the row counts in the meantime, or after an error, is behind what has
\* been published by at most the one batch in hand, and never ahead of it.
ProgressLagsByOne ==
    \A f \in Files : processes[f].status # "absent" =>
        /\ Cardinality(Of(f, published)) - processes[f].batches \in {0, 1}
        /\ processes[f].records = MinOf(SizeOf[f], BatchSize * processes[f].batches)

\* A finished process does not go on; only the lost answer to markCompleted turns
\* COMPLETADO into ERROR; and a deleted process does not come back.
FinishedStaysFinished ==
    [][\A f \in Files :
         /\ processes[f].status = "ERROR" => processes'[f].status \in {"ERROR", "absent"}
         /\ processes[f].status = "COMPLETADO" =>
               processes'[f].status \in {"COMPLETADO", "ERROR", "absent"}
         /\ f \in deleted => processes'[f] = AbsentProcess]_vars

\* A process that is PROCESANDO ends, unless its BATCH_SIZE was refused after the
\* row had been created, or the fault hit where no handler is left to say so.
ProcessesEnd ==
    \A f \in Files :
        processes[f].status = "PROCESANDO" ~>
            \/ processes[f].status # "PROCESANDO"
            \/ pc[f] = "refused"
            \/ faults > 0 /\ pc[f] \in {"failed", "dead"}
=============================================================================
