# Verification of the expense validation platform

TLA+ models, TLC runs and TLAPS proofs about the platform in this repository: a
CSV file of expenses is cut into batches, the batches travel over a broker, a
worker deduplicates, converts, validates and stores each expense, and a
dashboard shows and deletes what came of it. Paths below are relative to the
repository, `apps/` being where the services live.

## 1. The system

```
dashboard-ui --> validation-bff --POST /ingestions--> ingestor-service
                   |   |                                |        |
          GET/DELETE   DELETE dedup keys      file_processes   expense.batch
                   |   |                      file_process_    (Redis pub/sub
                   v   v                        batches         or GCP Pub/Sub)
               Postgres Redis <---------------------------- worker-service
                                                              |        |
                                                 currency-service   validation-service
                                                    |  (Redis: fx, fx_table)
                                                 rate provider
```

| Component | State it keeps | Operations | Talks to |
|---|---|---|---|
| worker-service, pipeline (`cleaning.service.ts`, `expense-events.handler.ts`, the repositories) | `job_runs`, `job_run_stages`, `expenses`, Redis dedup keys | a handler per message; per record: dedup, normalize, currency, validation, persist | broker, Postgres, Redis, the two services (HTTP, 3 s timeout) |
| worker-service, transports (`gcp-pubsub.server.ts`) | unacknowledged messages (in the broker) | listen, ack, nack | handler |
| worker-service, clients (`currency.client.ts`, `validation.client.ts`) | rate keys in Redis, two in-memory policy caches (TTL 5 s) | convert, validate | currency-service, validation-service, Postgres |
| ingestor-service (`upload.controller.ts`, `csv-splitter.service.ts`) | `file_processes`, `file_process_batches` | two endpoints that stream a file into batches | broker, Postgres |
| validation-bff | none of its own | upload, read/list/audit processes and jobs, delete them, policies, cache proxy | all tables, Redis, ingestor, currency-service |
| currency-service | Redis `fx:<FROM>:<TO>:<date>`, `fx_table:<date>` | convert (with a background refresh), list and delete the cache | provider (HTTP) |
| validation-service | none | judge one expense by three rules | - |
| validation-bff, policies (`policies.controller.ts`) | one row of `validation_policies` | read, overwrite; the PDF report prints it | Postgres |
| dashboard-ui, process monitor | signals in the browser, one timer | select, filter, poll, audit, upload, delete | validation-bff |
| db-migrations | the schema | - | Postgres |

What is hard here, and what makes each part correct:

* **The worker** does some twenty awaits per record over four stores without a
  transaction, while other handlers run between any two of them. It is correct
  when the ledger (`expenses`) holds only what went through the pipeline, once
  per purchase; when a run tells the truth (success, skipped for one reason,
  failed); when an acknowledged batch is a batch that was dealt with; and when
  no run stays open.
* **The ingestor** keeps a row, a table of batches and a stream of messages in
  step across failures, lost answers, crashes and deletions. `COMPLETADO` means
  that the whole file was *published* (README.md says so; whether it was
  processed is the worker's matter).
* **The BFF** deletes rows under the hands of the worker and the ingestor, and
  `mergeMeta` and `incrementProgress`, which write back what they have read,
  could bring them back.
* **currency-service and the worker** share Redis keys: `fx:A:B` is written by
  the one for `A -> B`, by the other for `B -> A`. Concurrent misses and the
  background refresh compete for the external call.
* **validation-service** is pure, with boundaries (days, amounts, time zones)
  and policies nothing validates beyond their shape.
* **The dashboard** starts requests whose answers come back in any order.

`PROJECT.json` lists these hazards line by line with the properties that cover
them.

## 2. Modules

| Module | Stands for | Used by |
|---|---|---|
| `CleaningWorker` | worker pipeline, transports, crashes | `WorkerRefinement`, `ProcessAdmin` |
| `CleaningWorkerProofs` | theorems about the worker, and that it keeps its promise | `ProcessAdminProofs` |
| `JobLedger` | the worker's promise in the abstract: jobs and the ledger | `WorkerRefinement`, `JobLedgerProofs` |
| `JobLedgerProofs` | theorems about that promise | `CleaningWorkerProofs` (instantiated) |
| `WorkerRefinement` | how the worker keeps that promise (the mapping) | `MCCleaningWorker`, `CleaningWorkerProofs` |
| `Ingestor` | ingestor-service, with the BFF's deletion | `MCIngestor`, `IngestorProofs` |
| `IngestorProofs` | theorems about the ingestor | |
| `ProcessAdmin` | the BFF's deletions, composed with the whole worker | `MCProcessAdmin`, `ProcessAdminProofs` |
| `ProcessAdminProofs` | theorems about the deletions | |
| `FxCache` | worker's rate client, currency-service, Redis rate keys | `MCFxCache`, `FxCacheProofs` |
| `FxCacheProofs` | theorems about the rate keys | |
| `PolicyCache` | the policies endpoint, the worker's two policy caches, the report | `MCPolicyCache`, `PolicyCacheProofs` |
| `PolicyCacheProofs` | theorems about the policies | |
| `ProcessMonitor` | the dashboard's process monitor, with the BFF's answers | `MCProcessMonitor`, `ProcessMonitorProofs` |
| `ProcessMonitorProofs` | theorems about the page | |
| `ValidationRules` | validation-service | `MCValidationRules`, `ValidationRulesProofs` |
| `ValidationRulesProofs` | theorems about the rules | |
| `MC*` | the small instances the `.cfg` files name | |

Conventions. One action runs from one `await` to the next, since Node runs
handlers on one thread: that is exactly where they interleave. A call has up to
three outcomes: it works; it rejects without effect (`CallFails`); it takes
effect and its answer is lost (the second disjunct of the step). The last two
count against `MaxFaults`, as does a crash. Definitions marked `(mutant)` are
plausible bugs, kept beside the definition they stand in for: replacing the
latter by the former breaks the property `PROJECT.json` names, which shows that
the property says something about the code.

### CleaningWorker

A *delivery* is one invocation of the handler; a job is `<<delivery, record
number>>`, since the code draws a fresh `randomUUID` per record. `runs`,
`stages` and `expenses` are the tables, `keys` the Redis dedup keys, `pc` the
await a handler is at. `expense.created` (one record, no process) and
`expense.batch` are both messages with a sequence of records. A record is an
event or `Malformed` (the parser throws). The meta of a run is reduced to its
reasons for skipping and its validation verdict. The two branches of the
pipeline, for records with and without `monto_base`, perform the same steps and
are one here.

* With `AtLeastOnce = TRUE` (GCP Pub/Sub) a message stays in `inbox` until its
  handler returns and may be handed out again at any time, also while a handler
  works on it; with `FALSE` (Redis) it is gone once handed out, and may be lost.
* `Window` is the stretch between a job's passed duplicate check and its row;
  `raced` is a history variable that notes which jobs were in each other's.
* `Upsert` is TypeORM's `save` by primary key as one atomic upsert. In the code it
  is a SELECT and an INSERT or UPDATE; two concurrent saves of one new id may end
  in a key violation, which is here one of the failures of `CallFails`.

### JobLedger and WorkerRefinement

`JobLedger` has no handlers, keys, stages or messages: a job is opened about one
expense id and fingerprint, is *cleared* while the ledger has no row of that
fingerprint, writes its own row only while cleared, succeeds only when its id is
in the ledger, is skipped only while it owns no row, may still fail after either
(the update took effect and its answer was lost), or is *lost* when a crash or a
failing error path leaves nobody to end it. `WorkerRefinement` reads a job's
phase off its run and its handler's control point (`PhaseOf`): past the
duplicate check means cleared, a run that is open while its handler has ended
means lost. Every step of the worker is then a step of `JobLedger` or a stutter.

### Ingestor

One request per file; `SizeOf` and `BadAt` say how many records a file has and
which of them csv-parse refuses. `POST /upload` and `POST /ingestions` are the
same handler up to how the file got there. csv-parse runs ahead of the loop, so
a bad record may cut off good ones before it: `Stream` allows the error at any
point before the bad record. `Crash` also stands for an input stream that
cannot be read, whose error event nobody listens to.

### ProcessAdmin

Extends `CleaningWorker`: every step of the worker is a step of the composition,
and `deleteProcess`, `deleteJobs` and the purge of the dedup keys interleave with
them. The transaction is two steps, the reads and the commit: under Postgres'
READ COMMITTED what it has read (jobs, batches) may be stale by the time it
writes, while its writes show to others only at the commit. The deletes of a
transaction address the jobs by id, so a worker's write to such a job's row
between the delete statement and the commit waits for the commit and then finds
the row gone, as if it had come after it. `erased` and `cut` are history: jobs
deleted, and those of them deleted while a handler was working on them. The
dashboard always deletes hard; soft deletion is what the API does by default.

### FxCache

A conversion is one `CurrencyClient.convert` whose currencies differ. A rate is
the pair and date it is for and the number of the provider's answer it stems
from, so a property can say whose rate it is, not how much it is. An entry of
`fx:*` has a format: the worker writes a bare number, the service JSON, and
neither reads the other's. `service` holds two tasks per conversion, the request
and the refresh that its `finally` starts. Expiry, `DELETE /cache/fx` (first the
`fx` keys, then the table) and failures happen at any time. Every write of either
side may take effect and lose its answer (`ClientFails`, `ServiceAnswerLost`).
`ClearRates` removes the `fx` keys of a date in one step, where the code scans and
deletes them in pages of 500; the properties it could disturb are stated without
evictions anyway. That a table lacks a pair or has a base rate of zero
(`exchange-rate-api.provider.ts:56-62`) is one of the counted failures.

### PolicyCache

A policy is a version, in the order of the saves; version 0 stands for what holds
without a row (`DEFAULT_POLICIES`, unset, broken or valid). The clock ticks
between any two steps. `getMonedaBase` and `getDefaultPolicies` take the time,
miss, query and fill in steps of their own, and stamp the entry with the time
*before* the query, as the code does. Each client has its own cache; look-ups of
many records overlap. The report reads the policy in one step and the rows in
another.

### ProcessMonitor

A *call* is one async handler of the page, identified by the request it waits
for: `selectProcess`, `onFileSelected`, a poll, the filters, `selectJob`,
`openAudit`, `runDeleteProcess`, `ngOnInit`. Answers come in any order, and an
answer may be as old as its request (`since`). The BFF's reading endpoints are
the operators `getProcess`, `listJobs`, `getJob`, `getProcessAudit` and `There`.
Every process is an upload of one file with one record, the case in which two
cards look alike. `crossed` and `swapped` are history: they note when a selection
changed under pending requests of another process, and when an upload ended
under the open delete dialog.

### ValidationRules

A request is abstracted to what the rules look at: the calendar distance of the
date, the hour of the day, the amounts, the policies' thresholds, whether the
category has limits, and whether it is forbidden to the cost center. The DTO
checks the thresholds of age, and the ones in `DEFAULT_POLICIES` are taken to be
numbers too; nobody checks the limits of a category, so that one of them may be
`None` (missing or no number), within which no amount lies. `Refuse` stands for
every request answered with an exception before a verdict: a date that is none, no
policies anywhere, `DEFAULT_POLICIES` broken, a part missing. `shift` is
the distance of `APP_TIMEZONE` from the zone of the system Node runs in;
daylight-saving changes between the two dates are left out. Rules run one per
step in the order in which the module registers them.

## 3. Runs

| Run | Instance | What it shows |
|---|---|---|
| `worker_redis` | 2 handlers, 3 messages of 2 records, 2 processes, Redis, no fault | types; batches are sequential; skips have one reason; inside a delivery the dedup is exact |
| `worker_pubsub` | 2 handlers, 2 messages, redelivery, a malformed record, 1 fault, fair | **the worker implements `JobLedger`**; the ledger is backed by a full pipeline; a skip as duplicate has a prior, and one that keeps the purchase or failed; a doubled fingerprint needs a race; runs close |
| `worker_unique` (violation) | 2 handlers, no fault | one fingerprint stored twice |
| `ingestor` | 3 files: two full batches and a short one; a bad record; a misconfigured instance; 1 fault; deletions; fair | batches tile the file; what is published is registered; `COMPLETADO` is the whole file; counters lag by one at most; a deleted process stays deleted; a process ends |
| `admin` | 1 handler, 2 messages, 2 deletions, 1 fault, purge limit 1 | what a deletion at rest removes stays removed; what the monitor shows as success is whole and explained |
| `admin_rerun` (violation) | 2 handlers, 1 deletion, no fault | a file uploaded again after a soft delete is skipped |
| `fx` | 2 opposite conversions of one day, 1 fault, 1 eviction, fair | no rate of another pair; every rate was quoted; a second call has a cause; a refresh costs no call of its own; conversions end |
| `fx_one_call` (violation) | 3 conversions (two alike, one inverse), no fault, no eviction | two calls for one date |
| `policies` | 3 look-ups of the validation client and 1 of the currency client, 1 save, TTL of 2 ticks, reports | a policy handed over is younger than a TTL; an older one comes back only by overlap; when a report may print another policy than its rows were judged by |
| `monitor` | 2 processes, one still to be uploaded; 3 clicks, 2 of them and 1 poll in flight, 1 fault, fair | what is shown and polled is the selected process's, or which race mixed it up; what the delete dialog deletes; what stops the polling; a polled page catches up |
| `rules` | ages -1..3, three hours' worth of zones, amounts 0..3, thresholds in and out of order, a limit that is no number | the status is what the policies mean, except on an age threshold's own day; never milder for an older or dearer expense; the age is a day off at most |
| `rules_zone` (violation) | zone four hours behind the system's | the age is a day short after midnight |

Why the bounds are enough. Two handlers are what a race over one fingerprint or
one expense id takes; the records are chosen so that every way of ending a
record occurs (stored, duplicate by key, duplicate by ledger, negative, refused,
malformed) and that one id carries two purchases and one purchase two ids. One
fault at any await reaches every error path; what needs two (a failing catch
block after a failing call) is where the liveness properties stop and say so.
Two batches and a short one is the smallest file on which numbering, tiling and
counting can go wrong separately. Two opposite conversions race for the table of
their day, for the keys the worker and the service write in each other's name,
and with each other's refresh. Three look-ups let one straddle another and a
third find what the slower one left; one save and as many ticks as the TTL has
put every step on either side of both. Three clicks reach a selection under a
pending selection under a filter, an upload under an open dialog, and leaving
the page with all of it in flight. The rules' inputs lie on, below and above each
threshold, and on either side of midnight after each shift. The bounds that
are not the code's are `MaxFaults`, `MaxRecords`, `MaxDeletions`,
`MaxEvictions`, `MaxTime`, `MaxSaves`, `MaxClicks` (clicks in all; answers to a
dialog are not counted), `MaxCalls` and `MaxPolls` (in flight); `PurgeLimit` is the code's `REDIS_PURGE_MAX_KEYS`, small.
`CHECK_DEADLOCK FALSE` stands in every configuration because every instance
really ends: all messages handled, all files cut, all conversions done.

Fairness. `WF_vars(Step(d))` per handler, file or conversion: Node runs the
continuation of every settled promise, and every promise settles, the HTTP calls
by their timeout, the drivers by an answer or an error. On the page, `WF` of the
interval (the browser fires it while it is set) and of the answers to polls; a
click's request may stay unanswered for ever. Nothing fair is assumed
of the environment: no message need be published or redelivered, nobody need
upload, delete or expire anything.

### Where the code departs from what is written about it

* **A fingerprint can be stored twice** (`worker_unique`). ANALISIS.md:55 calls
  `expenses.fingerprint` unique; migration 1700000000300 dropped the index, and
  the check (Redis, then Postgres) and the write are awaits apart.
  `DuplicatesRaced` bounds the damage: it takes two jobs in each other's window.
* **A soft-deleted file cannot be run again** (`admin_rerun`). The purge of the
  dedup keys is there so that re-running "won't be skipped"
  (uploads.controller.ts:486), but the expenses keep their fingerprints.
* **One date may cost several calls** (`fx_one_call`), as many as conversions
  miss together; README.md:100 and 109 promise one. Within one batch, which a
  handler converts record by record, `SecondCallHasACause` gives the promise back.
* **The age is computed in the wrong zone** (`rules_zone`). `getZonedNow` has
  moved `now` to the wall clock of `APP_TIMEZONE` and
  `calculateDaysSinceExpense` moves it again. With `America/Santiago` on a
  container in UTC, as docker-compose.yaml deploys it, an expense is a day
  younger than the calendar says for the first hours of each day. The unit tests
  pass a `now` that was not moved. `AgeIsAtMostADayOff` bounds the error and
  shows that it vanishes when the system runs in `APP_TIMEZONE`.

* **The day of an age threshold** counts as past it. `expense-age.rule.ts:15` and
  `:20` ask `days < pendiente_dias` and `days < rechazado_dias`, so an expense of
  exactly 30 days is pending and one of exactly 60 is rejected. The titles of the
  tests say the opposite (`validation.service.spec.ts:141` "<= 30 días" approved,
  `:155` "30 < días <= 60" pending, `:172` "> 60 días" rejected), and so do the
  alerts of those very days ("Gasto excede los 30 días"); no test has an expense of
  that age, and the service's README.md:102 ("<30 días" approved) sides with the
  code. `StatusIsDecided` takes the reading of the titles for every other day and
  leaves `ThresholdDays` open: only there do code and titles part.

A record that fails after its dedup key was set is lost when it is delivered again:
it is then skipped as a duplicate. README.md:418 lists controlled retries as future
work, so no document promises otherwise. `SkippedHasAKeeper` shows that this is the
only way to lose a purchase to the duplicate check.

What the code does on the page, and no document speaks of: a slow earlier
selection that ends last leaves the timer polling the process that is not
selected, for good; a pending selection starts the timer after `ngOnDestroy`;
the delete dialog deletes what is selected when it is confirmed, which an upload
that ends under it has changed; a failed delete or upload leaves the page
without polling; and the card of one upload stays when another that looks alike
is selected, so that the report of the first is downloaded. `ShownIsSelected` and
`DeletesTheOneAsked` say exactly when the first three can happen and that nothing
else does; a poll that fails stops whatever timer runs by then, which
`PollingStopsForAReason` lets hit the wrong one only after a selection changed
under requests in flight. Likewise the report heads its rows with the policy of the moment as
"Policy aplicada"; `ReportShowsApplied` says when that is right.

## 4. Proofs

TLAPS checks, for all values of the constants, every safety property the runs of
section 3 check to hold: every invariant, every action property and the
refinement. The cores of the arguments, module by module:

### The worker (`CleaningWorkerProofs`)

* `TypesHold`. The types are stated in two parts, `HandlerTypes` (everything a
  handler, the broker and the keys hold) and `RowTypes` (the ledger), because
  beside the deletions a row may name no job any more: `ProcessAdminProofs` uses
  every lemma that needs the first part only. `ControlOK` adds where a handler
  stands: past the first await it has a message, a record number within it, and a
  parsed record in hand.
* `DuplicatesNeedARace`, `DeliveryIsDuplicateFree`. `DuplicatesRaced` and
  `OneRowPerDelivery` are not inductive; the strengthening says that two jobs
  inside their windows have raced (`WindowsRaced`), and that a row which appears
  while a job is in its window belongs to another delivery that raced with it
  (`LateRowsRaced`). The ledger query puts a job into its window with no row of
  its fingerprint there; every other step either leaves the rows alone or adds
  one whose writer is in its own window.
* `BatchesAreSequential`, `OutcomesAreFinal`. `RunOpen`: the run of the record in
  hand is open from `createRun` to its closing update, and so is the copy
  `mergeMeta` holds, so that saving it back cannot reopen anything.
* `PipelineHolds`, and from it `SkipsAreExplained`, `SuccessesArePersisted` and
  `RowsAreBacked`. None of the three is inductive: each speaks of an ended job,
  and what it says was done many awaits before. `PipeInv` says it all along: at
  each control point which stages are opened and closed and with what outcome
  (`StagesFit`), what the run's meta and the copy in `mergeMeta` tell by then
  (`MetaFits`), that a row's job has come as far as the write (`OwnersWrote`), and
  that a run is about an event of the message its delivery took (`RunsOfEvents`,
  without which a redelivery could end a job about another purchase). `PipeFrame`
  reduces a step to the handler's own job; one lemma per group of actions does that
  job. `PipeWrite` is where the four parts meet.
* `SkipsHaveAPrior`. A prior job must still be there when somebody finds its key,
  long after it has ended, and be a prior rather than a duplicate itself.
  `PriorInv` carries a witness (`Held`): for every key in Redis, every handler
  about to skip and every run skipped as a duplicate, a job of that fingerprint that
  passed the check and is not, nor will be, skipped as one itself. `HolderStays` shows that a holder
  stays one through every step, crashes and redeliveries included; expiry only
  drops keys.
* `SkippedHaveAKeeper`, from the same witness: a holder has no reason but a negative
  amount to be skipped (`Objections`), hence it has succeeded and stored its expense
  (`SuccessIsPersisted`), is open, or failed. A duplicate found in the ledger gets
  its holder from the row (`RowsHeld`): the job that wrote it is of the row's
  fingerprint and is not being skipped (`OwnersStand`, kept by `NextOwners`).
* `WorkerKeepsItsPromise`: `Spec => Implements`, i.e. the worker implements
  `JobLedger`. The phase and the subject of a job are functions of its run and
  its handler's control point; `OnePhase` and `OneAbout` show that a step changes
  them at one job. Then by case: creating a run opens a job (`RefineOpen`), the
  ledger query that finds nothing clears it (`RefineClear`), the upsert writes
  (`RefineWrite`), the closing updates end it (`RefineEnd`), the catch block fails
  it or loses it (`RefineCatch`), a crash loses all the open ones at once
  (`RefineCrash`), and everything else is a stutter or loses one (`RefineQuiet`,
  `RefineLoop`). `PipelineHolds` supplies what a step of the handler cannot see by
  itself: that the subject is still its event, that a run is open.
* `WorkerLedgerIsTrue`: `JobLedgerProofs` instantiated with the mapping
  (`Promise`), so that its theorem is one about the worker's tables.

### The promise (`JobLedgerProofs`)

Of whatever keeps the promise, `LedgerIsAlwaysTrue` (a row was written by a job
that was cleared and not skipped, about that very purchase; what succeeded is in
the ledger) and `JobsEndOnce`. Inductive as it stands, once opened jobs are about
something. That the worker keeps the promise is `WorkerKeepsItsPromise`.

### The deletions (`ProcessAdminProofs`)

`AdminTypesHold`, `DeletedIsDeleted`, `SuccessIsShownWhole`,
`OutcomeIsShownExplained` and `DanglingWasCut`, from one invariant
(`DeletionsHold`). The worker's own invariant is lost once rows go away under its
hands, so the composition has its own: a handler's current run is open, or was
cut off and is absent or back as an open row (`RunFits`); unless it was cut off
its stages are as far as the handler is (`StagesDone`); what is shown or deleted
was created (`Begun`). The argument for `DeletedIsDeleted`: a job deleted while no
handler was at work on it is `Behind` its handler, and `WorkProgress` shows that
such a job is never written to again, by no action of the worker; that includes
the whole-row save of `mergeMeta`, whose copy is always of the current job
(`RunFits`). `EraseKeeps` does the commit, whatever stale list of jobs the
transaction has read; `WorkFrame` reduces every step of the worker to its own job.

### The rates (`FxCacheProofs`)

`TypesAreRight` and all four safety properties. `ConversionsGetTheirPair`: the
format of an entry tells who wrote it, hence whose pair it is (`KeysFit`).
`RatesStemFromCalls`: what a task holds between awaits was quoted for its date too
(`QuoteInv`). `SecondCallsHaveACause`: while nothing fails, goes away or asks at
the same time, at most one task is between missing the table and storing it, and
after the first answer the table is there or that task is about to store it
(`OneAtATime`). `RefreshesAreFree`: the refresh starts only after its request
(`OrderInv`) and then finds the table the request has left (`RefreshFinds`).

### The policies (`PolicyCacheProofs`)

For any number of look-ups and saves and any positive TTL (with a TTL of 0 no
policy is less than a TTL old) `PolicyIsAlwaysRecent` and
`ReportAlwaysShowsApplied`, from `StampsHold`: the policy that replaced the one in
an entry was saved at the entry's stamp or later, because the stamp is taken
before the query; and the same of what a look-up has read and not kept yet. A hit
is then younger than its entry's TTL and a miss than its own query.
`OlderAlwaysNeedsOverlap` holds for every TTL. Its strengthening (`Overlapped`):
until two look-ups of a client have overlapped, its entry and the answer on the
way to it are as new as anything handed over, and while a look-up is open the
entry is stale, so that none is answered from it meanwhile.

### The page (`ProcessMonitorProofs`)

`TypesHold`, `PageShowsSelected`, `DeletionHitsTheOneAsked` and
`PollingIsNotStoppedByStrangers`, for any number of processes, handlers and polls
in flight. `ShownIsSelected` speaks of the page only; what endangers it are the
handlers in flight. `CallsHold` says of each that it is
waiting for something its kind waits for (`Fits`) and that what it will do to a
page that shows another process by then is on record already (`Explained`). Each
action then has two duties: what it changes under the others must be recorded
(`SelectionExplained`, `LeaveKeeps`), and what comes of the one that settles
is what was explained of it (`JobsComeKeeps`, `ThrowsKeeps`). `DialogHolds` keeps
the dialog's process the selected one until an upload ends under it, because a
second deletion cannot be under way. That a request has an identity at all needs a
free slot to be chosen, the least one, which exists by well-foundedness
(`LeastSlot`). `PollsHold` says of a poll in flight that it is the timer's, or that
a selection's change under requests in flight is on record; every step keeps that
(`NextPolls`), and `TimerStep` lists all that takes the timer away.

### The ingestor (`IngestorProofs`)

`TypesHold` and all five safety properties (`BatchesAlwaysTile`,
`PublishedAlwaysRegistered`, `CompletedIsAlwaysWhole`, `ProgressAlwaysLagsByOne`,
`FinishedAlwaysStaysFinished`). None is inductive: each compares a row, a table or
the broker with the file, and what relates them is where the request stands.
`IInv` says, per upload, that the `k` batches cut so far hold `Cut(f, k)` records
and none is empty (`CutsOK`), that the published ones are the first `j` tiles and
the registered ones the first `r` with `j <= r <= k <= j + 1`, exactly which by
control point (`SentOK`), what the row counts (`RowOK`), and that no request
writes to a row that is gone (`LifeOK`). One lemma per action shows that it keeps
`FileInv` of its upload and leaves every other alone (`Same`); the arithmetic of a
batch of unknown size is in `CutNext` and `CutAdds`, the counting in `TilesCount`.

### The rules (`ValidationRulesProofs`)

`TypesHold`, the safety properties of the rules run and `AlertsAlwaysExplain`
(an answer is not approved exactly when an alert says why), for any policies in
any order, broken limits included. `IInv` ties the context to the rules that have run
(`ContextFollowsRules`); a lemma per rule says when it rejects and when it asks
for a review, `WorstIsMeant` puts them together, and `JudgementIsWorst` finds the
same status in the CHOOSE of `Judgement`. The code's reading of an age is the meaning
for the next day, which is the same off the `ThresholdDays`. `WholeDays` is all that is needed of the
division by a day.

### Assumptions

The named `ASSUME`s of the modules, each of which TLC evaluates in a run. None
restricts the size of anything, save that two time zones are at most 26 hours
apart. `NoneAssumption`, `NoCallAssumption` and the clauses on `None` and
`Malformed` say that `null`, `undefined` and a record that cannot be parsed are
none of the values they stand beside; the rest gives the constants their types.

`OutcomesAreFinal` is proved and not a property of a run: that a job ends once is
part of `JobLedger`, which `worker_pubsub` checks; so is what
`SuccessesArePersisted` says of the ledger. `AlertsAlwaysExplain` is local to one answer. `AdminTypeOK` is proved and
shown by no run either, which leaves the run to the properties.

### What is only model-checked

* Liveness: `RunsClose`, `ProcessesEnd`, `ConversionsEnd`, `ShownCatchesUp`.
  Fairness and ENABLED are outside the prover's reach; `Implements` itself is pure
  safety.
* Nothing is claimed of `worker_unique`, `admin_rerun`, `fx_one_call` and
  `rules_zone` beyond the counterexamples TLC finds.

## 5. Not modelled, and why

* Parsing of CSV fields into an event (`expense-events.handler.ts:24-110`) and
  the arithmetic of rounding: data the properties do not tell apart.
* Of the BFF's reading endpoints: paging, the layout of the PDF, and that the
  counts of one answer are several queries without a common snapshot. The listing
  of the rate cache changes nothing. Storage of uploaded files: I/O.
* Of the dashboard: the settings pages (the policies page disables its controls
  while a request is under way; the race of the cache page is listed under
  hazards), the jobs page, which is on no route, and on the monitor the download
  of the report, scrolling and the loading indicators. Batches are fetched into a
  signal nothing renders. Templates and styling are layout.
* The age of a rate, which three TTLs add up to: no document bounds it.
* NestJS, TypeORM, ioredis, Pub/Sub and Postgres are external and modelled by
  what the code relies on: promises settle, an update names its columns, a save
  writes the whole row, a transaction shows at its commit. A nack is modelled as
  `gcp-pubsub.server.ts` is written: the handler's exception reaches its catch
  block. One worker instance handles a given Redis message. Losing a fulfilled
  answer is possible on every write.
* The alternative rate providers (`EXCHANGE_RATE_PROVIDER=env`, the pair API)
  keep no table; they are `Call` without `Store`.

## 6. Plan

Done, in this order: the worker, the ingestor, the deletions, the rate caches, the
rules, the policies, the process monitor, the worker's promise with the
refinement, and the proofs of every safety property of them. Open:

1. `ProcessAdmin`: a promise of its own, what a deletion does to `JobLedger` (an
   ended job may vanish, a row may lose its job), and that the composition keeps it.
2. `Ingestor`: an abstract specification of an upload (a file, its prefix that is
   published, an outcome) and the refinement.
3. `FxCache`: a bound on the calls of a date by the faults, evictions and tasks
   that asked at once, which `SecondCallHasACause` states for the first one only.
4. Hazards without a property that a model could reach: the cache page's reload, the
   counts of one answer without a snapshot. `PROJECT.json` says of the others why
   nothing calls them wrong.
