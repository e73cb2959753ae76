--------------------------- MODULE ProcessMonitor ---------------------------
(***************************************************************************)
(* The dashboard's process monitor: one page whose handlers each run up to *)
(* their next request and go on when it settles, in whatever order the     *)
(* answers come, over the BFF's endpoints and a worker that goes on.        *)
(*                                                                         *)
(* A call is one async handler in flight.  All processes are uploads of    *)
(* one file with one record, the case in which two of them look alike.     *)
(***************************************************************************)
EXTENDS Integers, FiniteSets

CONSTANTS
    Pids,       \* process ids
    Unborn,     \* those of them that an upload may yet create
    None,
    Filters,    \* [status, validation]: what the two drop-downs can be set to
    Audits,     \* the kinds of audit: "duplicate", "negative"
    MaxClicks,  \* bound: what the user does in all, answers to dialogs apart
    MaxCalls,   \* bound: handlers of clicks in flight
    MaxPolls,   \* bound: polls in flight
    MaxFaults   \* bound: requests that fail, or whose answer is lost

ASSUME MonitorAssumption ==
    /\ Unborn \subseteq Pids
    /\ None \notin Pids
    /\ Filters \subseteq [status : {"all", "success", "running"},
                          validation : {"all", "APROBADO"}]
    /\ Audits \subseteq {"duplicate", "negative"}
    /\ MaxClicks \in Nat /\ MaxCalls \in Nat \ {0} /\ MaxPolls \in Nat /\ MaxFaults \in Nat

VARIABLES
    life,       \* of a process on the server: "unborn", "there", "gone"
    done,       \* of its record: 0 running, 1 judged and ended in success
    listed,     \* processes, the list on the left
    selected,   \* selectedProcessId
    process,    \* the card: whose it is and what it counts
    jobs,       \* the list of jobs, None when empty: whose and how far
    detail,     \* selectedJob: the process it belongs to
    audit,      \* the audit dialog: what was asked for and whose rows are in it
    filter,     \* jobStatusFilter, validationStatusFilter
    dialog,     \* the delete dialog: None, or the process it was opened for
    timer,      \* pollTimer: the process its callback polls
    alive,      \* until ngOnDestroy
    call,       \* by slot: a handler in flight
    clicks,
    faults,
    crossed,    \* history: what answers that crossed may have mixed up
    swapped     \* history: an upload ended under the open delete dialog

server == <<life, done>>
page == <<listed, selected, process, jobs, detail, audit, filter, dialog, timer, alive>>
vars == <<server, page, call, clicks, faults, crossed, swapped>>

-----------------------------------------------------------------------------
Clicks == 1 .. MaxCalls
Ticks == MaxCalls + 1 .. MaxCalls + MaxPolls
Slots == Clicks \union Ticks

Selecting == {"select", "upload"}
Kinds == Selecting \union {"poll", "filter", "job", "delete", "open"} \union Audits
Steps == {"process", "batches", "jobs", "job", "audit", "delete", "upload", "list"}

\* since: how far the record was when the request was sent, None if the process
\* was gone by then; filter: the status that was asked for.
Calls == [kind : Kinds, step : Steps, pid : Pids \union {None}, since : {0, 1, None},
          filter : {f.status : f \in Filters} \union {"all"}]

ASSUME NoCallAssumption == None \notin Calls

\* (mutant) The validation filter is sent as the status.
RequestByValidation(kind, step, p) ==
    [kind |-> kind, step |-> step, pid |-> p,
     since |-> IF p # None /\ life[p] = "gone" THEN None
               ELSE IF step \in {"process", "jobs"} THEN done[p] ELSE 0,
     filter |-> IF step = "jobs" THEN filter.validation ELSE "all"]

\* What a handler asks for next.
Request(kind, step, p) ==
    [kind |-> kind, step |-> step, pid |-> p,
     since |-> IF p # None /\ life[p] = "gone" THEN None
               ELSE IF step \in {"process", "jobs"} THEN done[p] ELSE 0,
     filter |-> IF step = "jobs" THEN filter.status ELSE "all"]

There == {p \in Pids : life[p] = "there"}

\* Two cards differ in counts and statuses, and in nothing else.
StatusOf(n) == IF n = 1 THEN "success" ELSE "running"

Init ==
    /\ life \in [Pids -> {"unborn", "there"}]
    /\ {p \in Pids : life[p] = "unborn"} = Unborn
    /\ done = [p \in Pids |-> 0]
    /\ listed = {} /\ selected = None /\ process = None /\ jobs = None
    /\ detail = None /\ dialog = None /\ timer = None /\ alive = TRUE
    /\ audit = [asked |-> None, rows |-> None]
    /\ filter = [status |-> "all", validation |-> "all"]
    /\ clicks = 0
    /\ call = [s \in Slots |-> IF s = 1 THEN
          [kind |-> "open", step |-> "list", pid |-> None, since |-> 0, filter |-> "all"]
          ELSE None]
    /\ faults = 0 /\ crossed = {} /\ swapped = FALSE

-----------------------------------------------------------------------------
(* What the user does.  An open dialog covers the page.                     *)

isDeleting == \E s \in Slots : call[s] # None /\ call[s].kind = "delete"
isUploading == \E s \in Slots : call[s] # None /\ call[s].kind = "upload"

FreeSlot(slots) ==
    LET free == {s \in slots : call[s] = None} IN
    IF free = {} THEN None ELSE CHOOSE s \in free : \A t \in free : s <= t

Begin(slots, c) ==
    /\ FreeSlot(slots) # None
    /\ call' = [call EXCEPT ![FreeSlot(slots)] = c]

AtPage == alive /\ dialog = None /\ audit.asked = None

If(condition, what) == IF condition THEN {what} ELSE {}

InFlight(kinds, ps) ==
    \E s \in Slots : call[s] # None /\ call[s].kind \in kinds /\ call[s].pid \in ps

\* What a change of the selection to p leaves in flight for another process.
Crossing(p) ==
    LET others == Pids \ {p} IN
    If(InFlight(Selecting \union {"poll", "filter"}, others), "list")
        \union If(InFlight({"job"}, others), "detail")
        \union If(InFlight(Selecting, others), "timer")

\* (mutant) The list of the process before stays until the answer is there.
SelectWithoutReset(p) == selected' = p /\ detail' = None /\ UNCHANGED jobs
SelectReset(p) == selected' = p /\ detail' = None /\ jobs' = None

Select(p) ==
    /\ AtPage
    /\ p \in listed
    /\ p # selected
    /\ SelectReset(p)
    /\ crossed' = crossed \union Crossing(p)
    /\ Begin(Clicks, Request("select", "process", p))
    /\ UNCHANGED <<server, listed, process, audit, filter, dialog, timer, alive,
                   faults, swapped>>

SetFilter(f) ==
    /\ AtPage /\ process # None
    /\ f # filter
    /\ filter' = f
    /\ \/ /\ selected = None
          /\ UNCHANGED <<jobs, detail, call>>
       \/ /\ selected # None
          /\ jobs' = None /\ detail' = None
          /\ Begin(Clicks, [Request("filter", "jobs", selected) EXCEPT !.filter = f.status])
    /\ UNCHANGED <<server, listed, selected, process, audit, dialog, timer, alive,
                   faults, crossed, swapped>>

SelectJob ==
    /\ AtPage /\ process # None
    /\ jobs # None
    /\ Begin(Clicks, Request("job", "job", jobs.pid))
    /\ crossed' = crossed \union If(jobs.pid # selected, "detail")
    /\ UNCHANGED <<server, page, faults, swapped>>

OpenAudit(kind) ==
    /\ AtPage /\ process # None
    /\ selected # None
    /\ audit' = [asked |-> <<selected, kind>>, rows |-> None]
    /\ Begin(Clicks, Request(kind, "audit", selected))
    /\ crossed' = crossed \union If(InFlight(Audits, Pids), "audit")
    /\ UNCHANGED <<server, listed, selected, process, jobs, detail, filter, dialog,
                   timer, alive, faults, swapped>>

CloseAudit ==
    /\ alive /\ audit.asked # None
    /\ audit' = [asked |-> None, rows |-> None]
    /\ UNCHANGED <<server, listed, selected, process, jobs, detail, filter, dialog,
                   timer, alive, call, faults, crossed, swapped>>

AskDelete ==
    /\ AtPage
    /\ selected # None
    /\ ~isDeleting
    /\ dialog' = selected
    /\ UNCHANGED <<server, listed, selected, process, jobs, detail, audit, filter,
                   timer, alive, call, faults, crossed, swapped>>

CancelDelete ==
    /\ alive /\ dialog # None
    /\ dialog' = None
    /\ swapped' = FALSE
    /\ UNCHANGED <<server, listed, selected, process, jobs, detail, audit, filter,
                   timer, alive, call, faults, crossed>>

\* (mutant) The process on the card is deleted.
DoomedOnCard == IF process = None THEN selected ELSE process.pid
Doomed == selected

ConfirmDelete ==
    /\ alive /\ dialog # None
    /\ dialog' = None
    /\ swapped' = FALSE
    /\ timer' = None
    /\ Begin(Clicks, Request("delete", "delete", Doomed))
    /\ UNCHANGED <<server, listed, selected, process, jobs, detail, audit, filter,
                   alive, faults, crossed>>

\* onFileSelected: the dropzone is disabled while an upload is under way.
Upload ==
    /\ AtPage
    /\ ~isUploading
    /\ timer' = None
    /\ Begin(Clicks, Request("upload", "upload", None))
    /\ UNCHANGED <<server, listed, selected, process, jobs, detail, audit, filter,
                   dialog, alive, faults, crossed, swapped>>

\* ngOnDestroy; what is in flight goes on.
Leave ==
    /\ alive
    /\ alive' = FALSE
    /\ timer' = None
    /\ dialog' = None
    /\ crossed' = crossed \union If(InFlight(Selecting, Pids \union {None}), "timer")
    /\ UNCHANGED <<server, listed, selected, process, jobs, detail, audit, filter,
                   call, faults, swapped>>

\* The interval fires whether or not the poll before has come back.
Tick ==
    /\ timer # None
    /\ Begin(Ticks, Request("poll", "process", timer))
    /\ crossed' = crossed \union If(timer # selected, "list")
    /\ UNCHANGED <<server, page, faults, swapped>>

-----------------------------------------------------------------------------
(* What the BFF may answer: what it read at some moment since the request    *)
(* was sent, and nothing if the process was gone by then.                    *)

getProcess(c) == IF c.since = None THEN {} ELSE c.since .. done[c.pid]

\* How far the one job is, None for an empty page.
listJobs(c) ==
    {IF c.filter \in {"all", StatusOf(n)} THEN n ELSE None : n \in getProcess(c)}
        \union If(c.pid \notin There, None)

getJob(c) == If(c.since # None, c.pid)
getProcessAudit(c) == If(c.since # None, <<c.pid, c.kind>>)

-----------------------------------------------------------------------------
(* What a handler does when its request settles.                             *)

Ends(s) == call' = [call EXCEPT ![s] = None]
Goes(s, step) == call' = [call EXCEPT ![s] = Request(@.kind, step, @.pid)]

\* (mutant) Whatever fails stops the timer.
ThrowsAndStops(s) ==
    /\ Ends(s)
    /\ timer' = None
    /\ crossed' = crossed \union If(call[s].kind \in Selecting, "timer")

\* A poll that fails stops the timer, whoever set it; a click that fails does not.
Throws(s) ==
    /\ Ends(s)
    /\ timer' = IF call[s].kind = "poll" THEN None ELSE timer
    /\ crossed' = crossed \union If(call[s].kind \in Selecting, "timer")

\* refreshSelectedProcess: the card changes only if it will look different.
ProcessComes(s) ==
    /\ \E n \in getProcess(call[s]) :
          process' = IF process # None /\ process.look = n
                     THEN process ELSE [pid |-> call[s].pid, look |-> n]
    /\ Goes(s, "batches")
    /\ UNCHANGED <<server, listed, selected, jobs, detail, audit, filter, dialog,
                   timer, alive, faults, crossed, swapped>>

\* The batches are kept and not shown; a failure is caught.
BatchesCome(s) ==
    /\ Goes(s, "jobs")
    /\ UNCHANGED <<server, page, faults, crossed, swapped>>

\* The validation filter is applied here, to the meta of the jobs.
Shown(n) == n # None /\ (filter.validation = "all" \/ n > 0)

\* (mutant) A job that is listed already is never replaced.
MergedOnce(p, n) ==
    IF jobs # None /\ jobs.pid = p THEN jobs ELSE [pid |-> p, upTo |-> n]
\* A job stays the object it was for as long as its status does not change.
Merged(p, n) ==
    IF jobs # None /\ jobs.pid = p /\ StatusOf(jobs.upTo) = StatusOf(n)
    THEN jobs ELSE [pid |-> p, upTo |-> n]

\* refreshJobs; selectProcess and the upload then start polling.
JobsCome(s) ==
    LET c == call[s] IN
    /\ \E n \in listJobs(c) : jobs' = IF Shown(n) THEN Merged(c.pid, n) ELSE None
    /\ Ends(s)
    /\ timer' = IF c.kind \in Selecting THEN c.pid ELSE timer
    /\ UNCHANGED <<server, listed, selected, process, detail, audit, filter, dialog,
                   alive, faults, crossed, swapped>>

JobComes(s) ==
    /\ detail' \in getJob(call[s])
    /\ Ends(s)
    /\ UNCHANGED <<server, listed, selected, process, jobs, audit, filter, dialog,
                   timer, alive, faults, crossed, swapped>>

AuditComes(s) ==
    /\ \E rows \in getProcessAudit(call[s]) : audit' = [audit EXCEPT !.rows = rows]
    /\ Ends(s)
    /\ UNCHANGED <<server, listed, selected, process, jobs, detail, filter, dialog,
                   timer, alive, faults, crossed, swapped>>

\* runDeleteProcess: the list is fetched before the selection is cleared.
Deleted(s) ==
    /\ call[s].pid \in There
    /\ life' = [life EXCEPT ![call[s].pid] = "gone"]
    /\ \/ Goes(s, "list") /\ UNCHANGED faults
       \/ faults < MaxFaults /\ faults' = faults + 1 /\ Ends(s)
    /\ UNCHANGED <<done, page, crossed, swapped>>

Uploaded(s, p) ==
    /\ life[p] = "unborn"
    /\ life' = [life EXCEPT ![p] = "there"]
    /\ \/ call' = [call EXCEPT ![s] = Request("upload", "list", p)] /\ UNCHANGED faults
       \/ faults < MaxFaults /\ faults' = faults + 1 /\ Ends(s)
    /\ UNCHANGED <<done, page, crossed, swapped>>

\* refreshProcesses, and what its caller does next.
ListComes(s) ==
    LET c == call[s] IN
    /\ listed' = There
    /\ \/ /\ c.kind = "open"
          /\ Ends(s)
          /\ UNCHANGED <<selected, process, jobs, detail, crossed, swapped>>
       \/ /\ c.kind = "delete"
          /\ Ends(s)
          /\ selected' = None /\ process' = None /\ jobs' = None /\ detail' = None
          /\ crossed' = crossed \union Crossing(None) \union If(timer # None, "timer")
          /\ UNCHANGED swapped
       \/ /\ c.kind = "upload"
          /\ c.pid # selected
          /\ SelectReset(c.pid)
          /\ Goes(s, "process")
          /\ crossed' = crossed \union Crossing(c.pid)
          /\ swapped' = (dialog # None \/ swapped)
          /\ UNCHANGED process
       \/ /\ c.kind = "upload"
          /\ c.pid = selected
          /\ Ends(s)
          /\ UNCHANGED <<selected, process, jobs, detail, crossed, swapped>>
    /\ UNCHANGED <<server, audit, filter, dialog, timer, alive, faults>>

\* The BFF answers 400 for what is gone.
NotFound(s) ==
    /\ call[s].step \in {"process", "job", "audit", "delete"}
    /\ call[s].pid \notin There
    /\ Throws(s)
    /\ UNCHANGED <<server, listed, selected, process, jobs, detail, audit, filter,
                   dialog, alive, faults, swapped>>

RequestFails(s) ==
    /\ call[s] # None
    /\ call[s].step # "batches"
    /\ faults < MaxFaults
    /\ faults' = faults + 1
    /\ Throws(s)
    /\ UNCHANGED <<server, listed, selected, process, jobs, detail, audit, filter,
                   dialog, alive, swapped>>

Settle(s) ==
    /\ call[s] # None
    /\ \/ call[s].step = "process" /\ ProcessComes(s)
       \/ call[s].step = "batches" /\ BatchesCome(s)
       \/ call[s].step = "jobs" /\ JobsCome(s)
       \/ call[s].step = "job" /\ JobComes(s)
       \/ call[s].step = "audit" /\ AuditComes(s)
       \/ call[s].step = "delete" /\ Deleted(s)
       \/ call[s].step = "upload" /\ \E p \in Pids : Uploaded(s, p)
       \/ call[s].step = "list" /\ ListComes(s)
       \/ NotFound(s)

\* The worker.
Advance(p) ==
    /\ p \in There
    /\ done[p] = 0
    /\ done' = [done EXCEPT ![p] = 1]
    /\ UNCHANGED <<life, page, call, faults, crossed, swapped>>

User ==
    /\ clicks < MaxClicks
    /\ clicks' = clicks + 1
    /\ \/ \E p \in Pids : Select(p)
       \/ \E f \in Filters : SetFilter(f)
       \/ \E k \in Audits : OpenAudit(k)
       \/ SelectJob \/ AskDelete \/ Upload \/ Leave

\* An open dialog is answered; that is not counted.
Answers == CloseAudit \/ CancelDelete \/ ConfirmDelete

Next ==
    \/ User
    \/ /\ \/ Answers
          \/ Tick
          \/ \E s \in Slots : Settle(s) \/ RequestFails(s)
          \/ \E p \in Pids : Advance(p)
       /\ UNCHANGED clicks

Spec == Init /\ [][Next]_vars

\* The interval fires, and a poll's request is answered or fails; a click's may
\* stay unanswered.
FairSpec == Spec /\ WF_vars(Tick /\ UNCHANGED clicks)
    /\ \A s \in Ticks : WF_vars(Settle(s) /\ UNCHANGED clicks)

-----------------------------------------------------------------------------
TypeOK ==
    /\ life \in [Pids -> {"unborn", "there", "gone"}]
    /\ done \in [Pids -> 0 .. 1]
    /\ listed \subseteq Pids
    /\ {selected, detail, dialog, timer} \subseteq Pids \union {None}
    /\ process \in [pid : Pids, look : 0 .. 1] \union {None}
    /\ jobs \in [pid : Pids, upTo : 0 .. 1] \union {None}
    /\ audit \in [asked : (Pids \X Audits) \union {None},
                  rows : (Pids \X Audits) \union {None}]
    /\ filter \in [status : {"all", "success", "running"}, validation : {"all", "APROBADO"}]
    /\ alive \in BOOLEAN
    /\ call \in [Slots -> Calls \union {None}]
    /\ clicks \in 0 .. MaxClicks /\ faults \in 0 .. MaxFaults
    /\ crossed \subseteq {"list", "detail", "timer", "audit"}
    /\ swapped \in BOOLEAN

\* What the page shows and polls is the selected process's, unless the selection
\* changed while requests for another process were in flight; and only a pending
\* selection may leave a timer behind that polls another process, or a page that
\* is gone.  The audit dialog shows what was asked for, unless two audits crossed.
ShownIsSelected ==
    /\ (jobs # None /\ jobs.pid # selected) => "list" \in crossed
    /\ (detail # None /\ detail # selected) => "detail" \in crossed
    /\ (timer # None /\ ~(alive /\ timer = selected))
          => InFlight(Selecting, {selected} \ {None}) \/ "timer" \in crossed
    /\ (audit.asked # None /\ audit.rows # None /\ audit.asked # audit.rows)
          => "audit" \in crossed

\* The process that is deleted is the one that was selected when the user asked,
\* unless an upload ended under the dialog and selected its own.
DeletesTheOneAsked ==
    [][\A s \in Slots :
          (call'[s] # None /\ call'[s].kind = "delete" /\ call[s] = None)
              => call'[s].pid = dialog \/ swapped]_vars

\* Polling stops because the user leaves, deletes or uploads, or because a poll of
\* the process that is polled has failed; that a late poll of another process stops
\* it takes a selection that changed while requests were in flight.
PollingStopsForAReason ==
    [][(timer # None /\ timer' = None) =>
          \/ ~alive'
          \/ ~isDeleting /\ isDeleting'
          \/ ~isUploading /\ isUploading'
          \/ \E s \in Slots :
                /\ call[s] # None /\ call[s].kind = "poll" /\ call'[s] = None
                /\ call[s].pid = timer \/ "list" \in crossed]_vars

\* While the page polls the selected process, what it shows catches up with the
\* server: the list gets the outcome of a job that ended, the card its counts.
ShownCatchesUp ==
    \A p \in Pids :
        (timer = p /\ selected = p /\ p \in There /\ done[p] = 1)
            ~> \/ /\ jobs = [pid |-> p, upTo |-> 1]
                  /\ process # None /\ process.look = 1
               \/ timer # p \/ selected # p \/ p \notin There
=============================================================================
