------------------------ MODULE ProcessMonitorProofs -------------------------
(***************************************************************************)
(* Theorems about the process monitor, for any number of processes, of     *)
(* handlers and polls in flight, of clicks and of requests that fail.      *)
(***************************************************************************)
EXTENDS ProcessMonitor, WellFoundedInduction, TLAPS

AllJobs == [status |-> "all", validation |-> "all"]

\* The requests at which a handler has a process to show, and what each kind of
\* handler may be waiting for.
Answering == {"process", "batches", "jobs"}

Fits(c) ==
    /\ c \in Calls
    /\ \/ c.kind \in Selecting \union {"poll"} /\ c.step \in Answering
       \/ c.kind = "upload" /\ c.step \in {"upload", "list"}
       \/ c.kind = "filter" /\ c.step = "jobs"
       \/ c.kind = "job" /\ c.step = "job"
       \/ c.kind = "delete" /\ c.step \in {"delete", "list"}
       \/ c.kind = "open" /\ c.step = "list"
       \/ c.kind \in Audits /\ c.step = "audit"
    /\ (c.kind # "open" /\ c.step # "upload") => c.pid \in Pids

\* What a handler in flight will do to a page that shows another process, is gone,
\* or has another audit open, is on record as an answer that crosses: now is the
\* selected process, here whether the page is there, asked the audit asked for.
Explained(c, now, here, asked, record) ==
    /\ (c.kind \in Selecting \union {"poll", "filter"} /\ c.step \in Answering /\ c.pid # now)
          => "list" \in record
    /\ (c.kind = "job" /\ c.pid # now) => "detail" \in record
    /\ (c.kind \in Selecting /\ c.step \in Answering /\ c.pid # now) => "timer" \in record
    /\ (c.kind \in Selecting /\ ~here) => "timer" \in record
    /\ (c.kind \in Audits /\ asked # None /\ asked # <<c.pid, c.kind>>) => "audit" \in record

CallsHold ==
    \A s \in Slots : call[s] # None =>
        Fits(call[s]) /\ Explained(call[s], selected, alive, audit.asked, crossed)

\* The list, the job and the audit that are on the page.
Shows ==
    /\ (jobs # None /\ jobs.pid # selected) => "list" \in crossed
    /\ (detail # None /\ detail # selected) => "detail" \in crossed
    /\ (audit.asked # None /\ audit.rows # None /\ audit.asked # audit.rows)
          => "audit" \in crossed

\* A selection whose handler has yet to set the timer.
Pending(s) ==
    /\ call[s] # None
    /\ call[s].kind \in Selecting
    /\ call[s].step \in Answering
    /\ call[s].pid = selected

TimerHolds ==
    (timer # None /\ ~(alive /\ timer = selected))
        => "timer" \in crossed \/ \E s \in Slots : Pending(s)

DialogHolds ==
    dialog # None =>
        /\ selected # None
        /\ dialog = selected \/ swapped
        /\ \A s \in Slots : call[s] # None => call[s].kind # "delete"

TypeInv == TypeOK /\ filter \in Filters \union {AllJobs}

IInv == TypeInv /\ CallsHold /\ Shows /\ TimerHolds /\ DialogHolds

-----------------------------------------------------------------------------
(* Slots and requests.                                                      *)

\* A set of slots that is not empty has a least one.
LEMMA LeastSlot ==
    ASSUME NEW S \in SUBSET Slots, S # {}
    PROVE  \E s \in S : \A t \in S : s <= t
  <1>1. S \subseteq Nat
    BY MonitorAssumption DEF Slots, Clicks, Ticks
  <1>2. PICK s \in S : \A t \in S : ~(<<t, s>> \in OpToRel(<, Nat))
    BY <1>1, NatLessThanWellFounded, WFMin
  <1>3. \A t \in S : ~(t < s)
    BY <1>1, <1>2 DEF OpToRel
  <1> QED
    BY <1>1, <1>3

LEMMA BeginsInFree ==
    ASSUME NEW S \in SUBSET Slots, NEW d, Begin(S, d)
    PROVE  \E t \in S : call[t] = None /\ call' = [call EXCEPT ![t] = d]
  <1> DEFINE free == {s \in S : call[s] = None}
  <1>1. free # {}
    BY DEF Begin, FreeSlot
  <1>2. \E s \in free : \A t \in free : s <= t
    BY <1>1, LeastSlot
  <1>3. FreeSlot(S) \in free
    BY <1>1, <1>2 DEF FreeSlot
  <1> QED
    BY <1>3 DEF Begin

LEMMA RequestFits ==
    ASSUME TypeInv, NEW kind \in Kinds, NEW step \in Steps, NEW p \in Pids \union {None},
           step \in {"process", "jobs"} => p \in Pids
    PROVE  /\ Request(kind, step, p) \in Calls
           /\ Request(kind, step, p).kind = kind
           /\ Request(kind, step, p).step = step
           /\ Request(kind, step, p).pid = p
  <1> DEFINE since == IF p # None /\ life[p] = "gone" THEN None
                      ELSE IF step \in {"process", "jobs"} THEN done[p] ELSE 0
             status == IF step = "jobs" THEN filter.status ELSE "all"
  <1>1. since \in {0, 1, None}
    <2>1. p \in Pids => done[p] \in {0, 1}
      BY DEF TypeInv, TypeOK
    <2> QED
      BY <2>1
  <1>2. status \in {f.status : f \in Filters} \union {"all"}
    BY DEF TypeInv, AllJobs
  <1>3. Request(kind, step, p) =
           [kind |-> kind, step |-> step, pid |-> p, since |-> since, filter |-> status]
    BY DEF Request
  <1> HIDE DEF since, status
  <1> QED
    BY <1>1, <1>2, <1>3 DEF Calls

\* The state of the page that the handlers in flight are measured against is the
\* same, or has been kept up with: so are they.
LEMMA StillExplained ==
    ASSUME NEW c, NEW now, NEW here, NEW asked, NEW record, NEW larger,
           record \subseteq larger, Explained(c, now, here, asked, record)
    PROVE  Explained(c, now, here, asked, larger)
  BY DEF Explained

\* A change of the selection records all that is in flight for another process.
LEMMA SelectionExplained ==
    ASSUME CallsHold, NEW s \in Slots, call[s] # None, NEW p \in Pids \union {None},
           NEW larger, crossed \union Crossing(p) \subseteq larger
    PROVE  Explained(call[s], p, alive, audit.asked, larger)
  <1>1. Fits(call[s]) /\ Explained(call[s], selected, alive, audit.asked, crossed)
    BY DEF CallsHold
  <1>2. (/\ call[s].kind \in Selecting \union {"poll", "filter"}
         /\ call[s].step \in Answering /\ call[s].pid # p) => "list" \in Crossing(p)
    <2> SUFFICES ASSUME call[s].kind \in Selecting \union {"poll", "filter"},
                        call[s].step \in Answering, call[s].pid # p
                 PROVE  "list" \in Crossing(p)
      OBVIOUS
    <2>1. call[s].pid \in Pids \ {p}
      BY <1>1 DEF Fits, Answering, Selecting
    <2>2. InFlight(Selecting \union {"poll", "filter"}, Pids \ {p})
      BY <2>1 DEF InFlight
    <2> QED
      BY <2>2 DEF Crossing, If
  <1>3. (call[s].kind = "job" /\ call[s].pid # p) => "detail" \in Crossing(p)
    <2> SUFFICES ASSUME call[s].kind = "job", call[s].pid # p
                 PROVE  "detail" \in Crossing(p)
      OBVIOUS
    <2>1. call[s].pid \in Pids \ {p}
      BY <1>1, MonitorAssumption DEF Fits, Selecting
    <2>2. InFlight({"job"}, Pids \ {p})
      BY <2>1 DEF InFlight
    <2> QED
      BY <2>2 DEF Crossing, If
  <1>4. (/\ call[s].kind \in Selecting /\ call[s].step \in Answering
         /\ call[s].pid # p) => "timer" \in Crossing(p)
    <2> SUFFICES ASSUME call[s].kind \in Selecting, call[s].step \in Answering,
                        call[s].pid # p
                 PROVE  "timer" \in Crossing(p)
      OBVIOUS
    <2>1. call[s].pid \in Pids \ {p}
      BY <1>1 DEF Fits, Answering, Selecting
    <2>2. InFlight(Selecting, Pids \ {p})
      BY <2>1 DEF InFlight
    <2> QED
      BY <2>2 DEF Crossing, If
  <1> HIDE DEF Crossing
  <1>5. "list" \in Crossing(p) \/ "list" \in crossed => "list" \in larger
    OBVIOUS
  <1> QED
    BY <1>1, <1>2, <1>3, <1>4 DEF Explained

\* One slot changes, the others are explained as before.
LEMMA CallsStep ==
    ASSUME TypeInv, CallsHold, NEW t \in Slots, NEW d,
           call' = [call EXCEPT ![t] = d],
           \/ d = None
           \/ Fits(d) /\ Explained(d, selected', alive', audit'.asked, crossed'),
           \A s \in Slots : call[s] # None =>
               Explained(call[s], selected', alive', audit'.asked, crossed')
    PROVE  call' \in [Slots -> Calls \union {None}] /\ CallsHold'
  <1>1. d \in Calls \union {None}
    BY DEF Fits
  <1>2. call \in [Slots -> Calls \union {None}]
    BY DEF TypeInv, TypeOK
  <1>3. call' \in [Slots -> Calls \union {None}]
    BY <1>1, <1>2
  <1>4. \A s \in Slots : call'[s] = IF s = t THEN d ELSE call[s]
    BY <1>2
  <1>5. ASSUME NEW s \in Slots, call'[s] # None
        PROVE  Fits(call'[s]) /\ Explained(call'[s], selected', alive', audit'.asked, crossed')
    BY <1>4, <1>5 DEF CallsHold
  <1> QED
    BY <1>3, <1>5 DEF CallsHold

\* The page is the same to the handlers in flight; what is on record only grows.
LEMMA SameForCalls ==
    ASSUME CallsHold, UNCHANGED <<selected, alive>>, audit'.asked = audit.asked,
           crossed \subseteq crossed'
    PROVE  \A s \in Slots : call[s] # None =>
               Explained(call[s], selected', alive', audit'.asked, crossed')
  BY StillExplained DEF CallsHold

LEMMA TimerStays ==
    ASSUME TypeInv, TimerHolds, UNCHANGED <<timer, alive, selected>>, crossed \subseteq crossed',
           NEW t \in Slots, NEW d, call' = [call EXCEPT ![t] = d],
           \/ ~Pending(t)
           \/ d # None /\ d.kind \in Selecting /\ d.step \in Answering /\ d.pid = selected
    PROVE  TimerHolds'
  <1> SUFFICES ASSUME timer # None, ~(alive /\ timer = selected), "timer" \notin crossed
               PROVE  \E s \in Slots : Pending(s)'
    BY DEF TimerHolds
  <1>1. PICK s \in Slots : Pending(s)
    BY DEF TimerHolds
  <1>2. call'[s] = IF s = t THEN d ELSE call[s]
    BY DEF TypeInv, TypeOK
  <1>3. Pending(s)'
    BY <1>1, <1>2 DEF Pending
  <1> QED
    BY <1>3

LEMMA DialogStays ==
    ASSUME TypeInv, DialogHolds, UNCHANGED <<selected, dialog>>, swapped => swapped',
           NEW t \in Slots, NEW d, call' = [call EXCEPT ![t] = d],
           d # None /\ d.kind = "delete" => call[t] # None /\ call[t].kind = "delete"
    PROVE  DialogHolds'
  <1>1. \A s \in Slots : call'[s] = IF s = t THEN d ELSE call[s]
    BY DEF TypeInv, TypeOK
  <1> QED
    BY <1>1 DEF DialogHolds

LEMMA ShowsStay ==
    ASSUME Shows, UNCHANGED <<jobs, detail, audit, selected>>, crossed \subseteq crossed'
    PROVE  Shows'
  BY DEF Shows

\* What is recorded is one of four words.
LEMMA CrossingTypes ==
    ASSUME NEW p PROVE Crossing(p) \subseteq {"list", "detail", "timer", "audit"}
  BY DEF Crossing, If

LEMMA InitInv == Init => IInv
  <1> SUFFICES ASSUME Init PROVE IInv
    OBVIOUS
  <1> DEFINE first == [kind |-> "open", step |-> "list", pid |-> None, since |-> 0,
                       filter |-> "all"]
  <1>1. first \in Calls
    BY DEF Calls, Kinds, Steps
  <1>2. call = [s \in Slots |-> IF s = 1 THEN first ELSE None]
    BY DEF Init
  <1>3. Fits(first) /\ first.kind = "open"
    BY <1>1 DEF Fits
  <1> HIDE DEF first
  <1>4. call \in [Slots -> Calls \union {None}]
    BY <1>1, <1>2
  <1>5. \A s \in Slots : call[s] # None => call[s] = first
    BY <1>2
  <1>6. TypeInv
    <2>1. life \in [Pids -> {"unborn", "there", "gone"}] /\ done \in [Pids -> 0 .. 1]
      BY DEF Init
    <2>2. /\ filter \in [status : {"all", "success", "running"}, validation : {"all", "APROBADO"}]
          /\ filter = AllJobs
      BY DEF Init, AllJobs
    <2>3. audit \in [asked : (Pids \X Audits) \union {None}, rows : (Pids \X Audits) \union {None}]
      BY DEF Init
    <2>4. clicks \in 0 .. MaxClicks /\ faults \in 0 .. MaxFaults
      BY MonitorAssumption DEF Init
    <2> QED
      BY <1>4, <2>1, <2>2, <2>3, <2>4 DEF Init, TypeInv, TypeOK
  <1>7. \A now, here, asked, record : Explained(first, now, here, asked, record)
    BY <1>3, MonitorAssumption DEF Explained, Selecting
  <1>8. CallsHold
    BY <1>3, <1>5, <1>7 DEF CallsHold
  <1>9. Shows /\ TimerHolds /\ DialogHolds
    BY DEF Init, Shows, TimerHolds, DialogHolds
  <1> QED
    BY <1>6, <1>8, <1>9 DEF IInv

-----------------------------------------------------------------------------
(* What the user does.                                                      *)

LEMMA SelectKeeps ==
    ASSUME IInv, clicks' \in 0 .. MaxClicks, NEW p \in Pids, Select(p)
    PROVE  IInv'
  <1> DEFINE d == Request("select", "process", p)
  <1>0. /\ UNCHANGED <<life, done, listed, process, audit, filter, dialog, timer, alive,
                       faults, swapped>>
        /\ selected' = p /\ detail' = None /\ jobs' = None /\ dialog = None
        /\ crossed' = crossed \union Crossing(p)
    BY DEF Select, SelectReset, server, AtPage
  <1>1. d \in Calls /\ d.kind = "select" /\ d.step = "process" /\ d.pid = p
    BY RequestFits DEF IInv, Kinds, Steps, Selecting
  <1> HIDE DEF d
  <1>2. PICK t \in Slots : call[t] = None /\ call' = [call EXCEPT ![t] = d]
    BY BeginsInFree DEF Select, Slots, d
  <1>3. alive
    BY DEF Select, AtPage
  <1>4. Fits(d) /\ Explained(d, selected', alive', audit'.asked, crossed')
    BY <1>0, <1>1, <1>3, MonitorAssumption DEF Fits, Explained, Selecting, Answering
  <1>5. \A s \in Slots : call[s] # None =>
            Explained(call[s], selected', alive', audit'.asked, crossed')
    BY <1>0, SelectionExplained DEF IInv
  <1>6. call' \in [Slots -> Calls \union {None}] /\ CallsHold'
    BY <1>2, <1>4, <1>5, CallsStep DEF IInv
  <1>7. TypeInv'
    BY <1>0, <1>6, CrossingTypes DEF IInv, TypeInv, TypeOK
  <1>8. Shows'
    BY <1>0 DEF IInv, Shows
  <1>9. TimerHolds'
    <2>1. call'[t] = d
      BY <1>2 DEF IInv, TypeInv, TypeOK
    <2>2. Pending(t)'
      BY <1>0, <1>1, <2>1, NoCallAssumption DEF Pending, Selecting, Answering
    <2> QED
      BY <2>2 DEF TimerHolds
  <1>10. DialogHolds'
    BY <1>0 DEF DialogHolds
  <1> QED
    BY <1>6, <1>7, <1>8, <1>9, <1>10 DEF IInv

LEMMA SetFilterKeeps ==
    ASSUME IInv, clicks' \in 0 .. MaxClicks, NEW f \in Filters, SetFilter(f)
    PROVE  IInv'
  <1>0. /\ UNCHANGED <<life, done, listed, selected, process, audit, dialog, timer, alive,
                       faults, crossed, swapped>>
        /\ filter' = f
    BY DEF SetFilter, server
  <1>1. CASE selected = None
    <2>1. UNCHANGED <<jobs, detail, call>>
      BY <1>1 DEF SetFilter
    <2>2. TypeInv'
      BY <1>0, <2>1, MonitorAssumption DEF IInv, TypeInv, TypeOK
    <2>3. CallsHold' /\ Shows' /\ TimerHolds' /\ DialogHolds'
      BY <1>0, <2>1 DEF IInv, CallsHold, Shows, TimerHolds, DialogHolds, Pending
    <2> QED
      BY <2>2, <2>3 DEF IInv
  <1>2. CASE selected # None
    <2> DEFINE r == Request("filter", "jobs", selected)
               d == [r EXCEPT !.filter = f.status]
    <2>1. /\ r \in Calls /\ r.kind = "filter" /\ r.step = "jobs" /\ r.pid = selected
          /\ selected \in Pids
      BY <1>2, RequestFits DEF IInv, TypeInv, TypeOK, Kinds, Steps
    <2>2. jobs' = None /\ detail' = None /\ Begin(Clicks, d)
      BY <1>2 DEF SetFilter
    <2> HIDE DEF r
    <2>3. /\ d \in Calls /\ d # None
          /\ d.kind = "filter" /\ d.step = "jobs" /\ d.pid = selected
      BY <2>1, NoCallAssumption DEF Calls
    <2> HIDE DEF d
    <2>4. PICK t \in Slots : call[t] = None /\ call' = [call EXCEPT ![t] = d]
      BY <2>2, BeginsInFree DEF Slots
    <2>5. Fits(d) /\ Explained(d, selected', alive', audit'.asked, crossed')
      BY <1>0, <2>1, <2>3, MonitorAssumption DEF Fits, Explained, Selecting, Answering
    <2>6. call' \in [Slots -> Calls \union {None}] /\ CallsHold'
      BY <1>0, <2>4, <2>5, CallsStep, SameForCalls DEF IInv
    <2>7. TypeInv'
      BY <1>0, <2>2, <2>6, MonitorAssumption DEF IInv, TypeInv, TypeOK
    <2>8. Shows'
      BY <1>0, <2>2 DEF IInv, Shows
    <2>9. TimerHolds'
      BY <1>0, <2>4, TimerStays DEF IInv, Pending
    <2>10. DialogHolds'
      BY <1>0, <2>3, <2>4, DialogStays DEF IInv
    <2> QED
      BY <2>6, <2>7, <2>8, <2>9, <2>10 DEF IInv
  <1> QED
    BY <1>1, <1>2

LEMMA SelectJobKeeps ==
    ASSUME IInv, clicks' \in 0 .. MaxClicks, SelectJob
    PROVE  IInv'
  <1> DEFINE d == Request("job", "job", jobs.pid)
  <1>0. /\ UNCHANGED <<life, done, listed, selected, process, jobs, detail, audit, filter,
                       dialog, timer, alive, faults, swapped>>
        /\ crossed' = crossed \union If(jobs.pid # selected, "detail")
        /\ jobs.pid \in Pids
    BY DEF SelectJob, server, page, IInv, TypeInv, TypeOK
  <1>1. d \in Calls /\ d.kind = "job" /\ d.step = "job" /\ d.pid = jobs.pid
    <2>1. "job" \in Kinds /\ "job" \in Steps
      BY DEF Kinds, Steps
    <2> QED
      BY <1>0, <2>1, RequestFits DEF IInv
  <1> HIDE DEF d
  <1>2. PICK t \in Slots : call[t] = None /\ call' = [call EXCEPT ![t] = d]
    BY BeginsInFree DEF SelectJob, Slots, d
  <1>3. Fits(d) /\ Explained(d, selected', alive', audit'.asked, crossed')
    BY <1>0, <1>1, MonitorAssumption DEF Fits, Explained, Selecting, If
  <1>4. crossed \subseteq crossed' /\ crossed' \subseteq {"list", "detail", "timer", "audit"}
    BY <1>0 DEF If, IInv, TypeInv, TypeOK
  <1>5. call' \in [Slots -> Calls \union {None}] /\ CallsHold'
    BY <1>0, <1>2, <1>3, <1>4, CallsStep, SameForCalls DEF IInv
  <1>6. TypeInv'
    BY <1>0, <1>4, <1>5 DEF IInv, TypeInv, TypeOK
  <1>7. TimerHolds'
    BY <1>0, <1>2, <1>4, TimerStays DEF IInv, Pending
  <1>8. Shows' /\ DialogHolds'
    BY <1>0, <1>1, <1>2, <1>4, DialogStays, ShowsStay DEF IInv
  <1> QED
    BY <1>5, <1>6, <1>7, <1>8 DEF IInv

LEMMA OpenAuditKeeps ==
    ASSUME IInv, clicks' \in 0 .. MaxClicks, NEW kind \in Audits, OpenAudit(kind)
    PROVE  IInv'
  <1> DEFINE d == Request(kind, "audit", selected)
  <1>0. /\ UNCHANGED <<life, done, listed, selected, process, jobs, detail, filter,
                       dialog, timer, alive, faults, swapped>>
        /\ crossed' = crossed \union If(InFlight(Audits, Pids), "audit")
        /\ audit' = [asked |-> <<selected, kind>>, rows |-> None]
        /\ selected \in Pids
    BY DEF OpenAudit, server, IInv, TypeInv, TypeOK
  <1>1. d \in Calls /\ d.kind = kind /\ d.step = "audit" /\ d.pid = selected
    BY <1>0, RequestFits DEF IInv, Kinds, Steps
  <1> HIDE DEF d
  <1>2. PICK t \in Slots : call[t] = None /\ call' = [call EXCEPT ![t] = d]
    BY BeginsInFree DEF OpenAudit, Slots, d
  <1>3. audit'.asked = <<selected, kind>> /\ audit'.rows = None
    BY <1>0
  <1>4. Fits(d) /\ Explained(d, selected', alive', audit'.asked, crossed')
    BY <1>0, <1>1, <1>3, MonitorAssumption DEF Fits, Explained, Selecting
  <1>5. crossed \subseteq crossed' /\ crossed' \subseteq {"list", "detail", "timer", "audit"}
    BY <1>0 DEF If, IInv, TypeInv, TypeOK
  <1>6. ASSUME NEW s \in Slots, call[s] # None
        PROVE  Explained(call[s], selected', alive', audit'.asked, crossed')
    <2>1. Fits(call[s]) /\ Explained(call[s], selected, alive, audit.asked, crossed)
      BY <1>6 DEF IInv, CallsHold
    <2>2. call[s].kind \in Audits => "audit" \in crossed'
      <3> SUFFICES ASSUME call[s].kind \in Audits PROVE "audit" \in crossed'
        OBVIOUS
      <3>1. call[s].pid \in Pids
        BY <2>1, MonitorAssumption DEF Fits, Selecting
      <3>2. InFlight(Audits, Pids)
        BY <1>6, <3>1 DEF InFlight
      <3> QED
        BY <1>0, <3>2 DEF If
    <2> QED
      BY <1>0, <1>5, <2>1, <2>2 DEF Explained
  <1>7. call' \in [Slots -> Calls \union {None}] /\ CallsHold'
    BY <1>2, <1>4, <1>6, CallsStep DEF IInv
  <1>8. TypeInv'
    <2>1. audit' \in [asked : (Pids \X Audits) \union {None}, rows : (Pids \X Audits) \union {None}]
      BY <1>0
    <2> QED
      BY <1>0, <1>5, <1>7, <2>1 DEF IInv, TypeInv, TypeOK
  <1>9. Shows'
    BY <1>0, <1>3, <1>5 DEF IInv, Shows
  <1>10. TimerHolds'
    BY <1>0, <1>2, <1>5, TimerStays DEF IInv, Pending
  <1>11. DialogHolds'
    BY <1>0, <1>1, <1>2, MonitorAssumption, DialogStays DEF IInv
  <1> QED
    BY <1>7, <1>8, <1>9, <1>10, <1>11 DEF IInv

LEMMA CloseAuditKeeps ==
    ASSUME IInv, clicks' \in 0 .. MaxClicks, CloseAudit
    PROVE  IInv'
  <1>0. /\ UNCHANGED <<life, done, listed, selected, process, jobs, detail, filter, dialog,
                       timer, alive, call, faults, crossed, swapped>>
        /\ audit' = [asked |-> None, rows |-> None]
    BY DEF CloseAudit, server
  <1>1. audit'.asked = None
    BY <1>0
  <1>2. TypeInv'
    BY <1>0 DEF IInv, TypeInv, TypeOK
  <1>3. CallsHold'
    BY <1>0, <1>1 DEF IInv, CallsHold, Explained
  <1>4. Shows' /\ TimerHolds' /\ DialogHolds'
    BY <1>0, <1>1 DEF IInv, Shows, TimerHolds, DialogHolds, Pending
  <1> QED
    BY <1>2, <1>3, <1>4 DEF IInv

LEMMA AskDeleteKeeps ==
    ASSUME IInv, clicks' \in 0 .. MaxClicks, AskDelete
    PROVE  IInv'
  <1>0. /\ UNCHANGED <<life, done, listed, selected, process, jobs, detail, audit, filter,
                       timer, alive, call, faults, crossed, swapped>>
        /\ dialog' = selected /\ selected # None /\ ~isDeleting
    BY DEF AskDelete, server
  <1>1. TypeInv'
    BY <1>0 DEF IInv, TypeInv, TypeOK
  <1>2. CallsHold' /\ Shows' /\ TimerHolds'
    BY <1>0 DEF IInv, CallsHold, Shows, TimerHolds, Pending
  <1>3. DialogHolds'
    BY <1>0 DEF DialogHolds, isDeleting
  <1> QED
    BY <1>1, <1>2, <1>3 DEF IInv

LEMMA CancelDeleteKeeps ==
    ASSUME IInv, clicks' \in 0 .. MaxClicks, CancelDelete
    PROVE  IInv'
  <1>0. /\ UNCHANGED <<life, done, listed, selected, process, jobs, detail, audit, filter,
                       timer, alive, call, faults, crossed>>
        /\ dialog' = None /\ swapped' = FALSE
    BY DEF CancelDelete, server
  <1>1. TypeInv'
    <2>1. swapped' \in BOOLEAN
      BY <1>0
    <2>2. {selected', detail', dialog', timer'} \subseteq Pids \union {None}
      BY <1>0 DEF IInv, TypeInv, TypeOK
    <2> QED
      BY <1>0, <2>1, <2>2 DEF IInv, TypeInv, TypeOK
  <1>2. CallsHold' /\ Shows' /\ TimerHolds' /\ DialogHolds'
    BY <1>0 DEF IInv, CallsHold, Shows, TimerHolds, Pending, DialogHolds
  <1> QED
    BY <1>1, <1>2 DEF IInv

LEMMA ConfirmDeleteKeeps ==
    ASSUME IInv, clicks' \in 0 .. MaxClicks, ConfirmDelete
    PROVE  IInv'
  <1> DEFINE d == Request("delete", "delete", selected)
  <1>0. /\ UNCHANGED <<life, done, listed, selected, process, jobs, detail, audit, filter,
                       alive, faults, crossed>>
        /\ dialog' = None /\ swapped' = FALSE /\ timer' = None
        /\ selected \in Pids
    BY DEF ConfirmDelete, server, IInv, DialogHolds, TypeInv, TypeOK
  <1>1. d \in Calls /\ d.kind = "delete" /\ d.step = "delete" /\ d.pid = selected
    <2>1. "delete" \in Kinds /\ "delete" \in Steps
      BY DEF Kinds, Steps
    <2> QED
      BY <1>0, <2>1, RequestFits DEF IInv
  <1> HIDE DEF d
  <1>2. PICK t \in Slots : call[t] = None /\ call' = [call EXCEPT ![t] = d]
    BY BeginsInFree DEF ConfirmDelete, Doomed, Slots, d
  <1>3. Fits(d) /\ Explained(d, selected', alive', audit'.asked, crossed')
    BY <1>0, <1>1, MonitorAssumption DEF Fits, Explained, Selecting
  <1>4. call' \in [Slots -> Calls \union {None}] /\ CallsHold'
    BY <1>0, <1>2, <1>3, CallsStep, SameForCalls DEF IInv
  <1>5. TypeInv'
    <2>1. swapped' \in BOOLEAN
      BY <1>0
    <2>2. {selected', detail', dialog', timer'} \subseteq Pids \union {None}
      BY <1>0 DEF IInv, TypeInv, TypeOK
    <2> QED
      BY <1>0, <1>4, <2>1, <2>2 DEF IInv, TypeInv, TypeOK
  <1>6. Shows' /\ TimerHolds' /\ DialogHolds'
    BY <1>0, ShowsStay DEF IInv, TimerHolds, DialogHolds
  <1> QED
    BY <1>4, <1>5, <1>6 DEF IInv

LEMMA UploadKeeps ==
    ASSUME IInv, clicks' \in 0 .. MaxClicks, Upload
    PROVE  IInv'
  <1> DEFINE d == Request("upload", "upload", None)
  <1>0. /\ UNCHANGED <<life, done, listed, selected, process, jobs, detail, audit, filter,
                       dialog, alive, faults, crossed, swapped>>
        /\ timer' = None /\ alive
    BY DEF Upload, AtPage, server
  <1>1. d \in Calls /\ d.kind = "upload" /\ d.step = "upload"
    BY <1>0, RequestFits DEF IInv, Kinds, Steps, Selecting
  <1> HIDE DEF d
  <1>2. PICK t \in Slots : call[t] = None /\ call' = [call EXCEPT ![t] = d]
    BY BeginsInFree DEF Upload, Slots, d
  <1>3. Fits(d) /\ Explained(d, selected', alive', audit'.asked, crossed')
    BY <1>0, <1>1, MonitorAssumption DEF Fits, Explained, Answering
  <1>4. call' \in [Slots -> Calls \union {None}] /\ CallsHold'
    BY <1>0, <1>2, <1>3, CallsStep, SameForCalls DEF IInv
  <1>5. TypeInv'
    BY <1>0, <1>4 DEF IInv, TypeInv, TypeOK
  <1>6. Shows' /\ TimerHolds'
    BY <1>0, ShowsStay DEF IInv, TimerHolds
  <1>7. DialogHolds'
    BY <1>0, <1>1, <1>2, DialogStays DEF IInv
  <1> QED
    BY <1>4, <1>5, <1>6, <1>7 DEF IInv

\* What is in flight goes on without the page, and is on record.
LEMMA LeaveKeeps ==
    ASSUME IInv, clicks' \in 0 .. MaxClicks, Leave
    PROVE  IInv'
  <1>0. /\ UNCHANGED <<life, done, listed, selected, process, jobs, detail, audit, filter,
                       call, faults, swapped>>
        /\ alive' = FALSE /\ timer' = None /\ dialog' = None
        /\ crossed' = crossed \union If(InFlight(Selecting, Pids \union {None}), "timer")
    BY DEF Leave, server
  <1>1. crossed \subseteq crossed' /\ crossed' \subseteq {"list", "detail", "timer", "audit"}
    BY <1>0 DEF If, IInv, TypeInv, TypeOK
  <1>2. TypeInv'
    <2>1. alive' \in BOOLEAN
      BY <1>0
    <2>2. {selected', detail', dialog', timer'} \subseteq Pids \union {None}
      BY <1>0 DEF IInv, TypeInv, TypeOK
    <2> QED
      BY <1>0, <1>1, <2>1, <2>2 DEF IInv, TypeInv, TypeOK
  <1>3. ASSUME NEW s \in Slots, call[s] # None
        PROVE  Fits(call[s]) /\ Explained(call[s], selected, FALSE, audit.asked, crossed')
    <2>1. Fits(call[s]) /\ Explained(call[s], selected, alive, audit.asked, crossed)
      BY <1>3 DEF IInv, CallsHold
    <2>2. call[s].kind \in Selecting => "timer" \in crossed'
      <3> SUFFICES ASSUME call[s].kind \in Selecting PROVE "timer" \in crossed'
        OBVIOUS
      <3>1. call[s].pid \in Pids \union {None}
        BY <2>1 DEF Fits, Calls
      <3>2. InFlight(Selecting, Pids \union {None})
        BY <1>3, <3>1 DEF InFlight
      <3> QED
        BY <1>0, <3>2 DEF If
    <2> QED
      BY <1>1, <2>1, <2>2 DEF Explained
  <1>4. CallsHold'
    BY <1>0, <1>3 DEF CallsHold
  <1>5. Shows' /\ TimerHolds' /\ DialogHolds'
    BY <1>0, <1>1, ShowsStay DEF IInv, TimerHolds, DialogHolds
  <1> QED
    BY <1>2, <1>4, <1>5 DEF IInv

LEMMA TickKeeps ==
    ASSUME IInv, clicks' \in 0 .. MaxClicks, Tick
    PROVE  IInv'
  <1> DEFINE d == Request("poll", "process", timer)
  <1>0. /\ UNCHANGED <<life, done, listed, selected, process, jobs, detail, audit, filter,
                       dialog, timer, alive, faults, swapped>>
        /\ crossed' = crossed \union If(timer # selected, "list")
        /\ timer \in Pids
    BY DEF Tick, server, page, IInv, TypeInv, TypeOK
  <1>1. d \in Calls /\ d.kind = "poll" /\ d.step = "process" /\ d.pid = timer
    <2>1. "poll" \in Kinds /\ "process" \in Steps
      BY DEF Kinds, Steps
    <2> QED
      BY <1>0, <2>1, RequestFits DEF IInv
  <1> HIDE DEF d
  <1>2. PICK t \in Slots : call[t] = None /\ call' = [call EXCEPT ![t] = d]
    BY BeginsInFree DEF Tick, Slots, d
  <1>3. Fits(d) /\ Explained(d, selected', alive', audit'.asked, crossed')
    BY <1>0, <1>1, MonitorAssumption DEF Fits, Explained, Selecting, Answering, If
  <1>4. crossed \subseteq crossed' /\ crossed' \subseteq {"list", "detail", "timer", "audit"}
    BY <1>0 DEF If, IInv, TypeInv, TypeOK
  <1>5. call' \in [Slots -> Calls \union {None}] /\ CallsHold'
    BY <1>0, <1>2, <1>3, <1>4, CallsStep, SameForCalls DEF IInv
  <1>6. TypeInv'
    BY <1>0, <1>4, <1>5 DEF IInv, TypeInv, TypeOK
  <1>7. TimerHolds'
    BY <1>0, <1>2, <1>4, TimerStays DEF IInv, Pending
  <1>8. Shows' /\ DialogHolds'
    BY <1>0, <1>1, <1>2, <1>4, DialogStays, ShowsStay DEF IInv
  <1> QED
    BY <1>5, <1>6, <1>7, <1>8 DEF IInv

LEMMA AdvanceKeeps ==
    ASSUME IInv, clicks' \in 0 .. MaxClicks, NEW p \in Pids, Advance(p)
    PROVE  IInv'
  <1>0. /\ UNCHANGED <<life, listed, selected, process, jobs, detail, audit, filter,
                       dialog, timer, alive, call, faults, crossed, swapped>>
        /\ done' = [done EXCEPT ![p] = 1]
    BY DEF Advance, page
  <1>1. TypeInv'
    BY <1>0 DEF IInv, TypeInv, TypeOK
  <1>2. CallsHold' /\ Shows' /\ TimerHolds' /\ DialogHolds'
    BY <1>0 DEF IInv, CallsHold, Shows, TimerHolds, Pending, DialogHolds
  <1> QED
    BY <1>1, <1>2 DEF IInv

-----------------------------------------------------------------------------
(* What a handler does when its request settles.                            *)

\* Whose request it is shows what may come of it.
LEMMA StepShowsKind ==
    ASSUME CallsHold, NEW s \in Slots, call[s] # None
    PROVE  /\ call[s] \in Calls
           /\ call[s].step \in {"process", "batches"} => call[s].kind \in Selecting \union {"poll"}
           /\ call[s].step = "jobs" => call[s].kind \in Selecting \union {"poll", "filter"}
           /\ call[s].step = "job" => call[s].kind = "job"
           /\ call[s].step = "audit" => call[s].kind \in Audits
           /\ call[s].step = "delete" => call[s].kind = "delete"
           /\ call[s].step = "upload" => call[s].kind = "upload"
           /\ call[s].step = "list" => call[s].kind \in {"open", "delete", "upload"}
           /\ (call[s].kind # "open" /\ call[s].step # "upload") => call[s].pid \in Pids
           /\ Explained(call[s], selected, alive, audit.asked, crossed)
  <1>1. Fits(call[s]) /\ Explained(call[s], selected, alive, audit.asked, crossed)
    BY DEF CallsHold
  <1> QED
    BY <1>1, MonitorAssumption DEF Fits, Selecting, Answering

LEMMA GoesOn ==
    ASSUME IInv, NEW s \in Slots, call[s] # None, NEW next \in {"batches", "jobs"},
           call[s].kind \in Selecting \union {"poll"}, call[s].step \in Answering,
           Goes(s, next), UNCHANGED <<selected, dialog, timer, alive, crossed, swapped, audit>>
    PROVE  call' \in [Slots -> Calls \union {None}] /\ CallsHold' /\ TimerHolds' /\ DialogHolds'
  <1> DEFINE d == Request(call[s].kind, next, call[s].pid)
  <1>1. /\ Fits(call[s]) /\ Explained(call[s], selected, alive, audit.asked, crossed)
        /\ call[s].pid \in Pids /\ call[s].kind \in Kinds
    BY DEF IInv, CallsHold, Fits, Selecting, Answering, Kinds
  <1>2. d \in Calls /\ d.kind = call[s].kind /\ d.step = next /\ d.pid = call[s].pid
    <2>1. next \in Steps
      BY DEF Steps
    <2> QED
      BY <1>1, <2>1, RequestFits DEF IInv
  <1>3. call' = [call EXCEPT ![s] = d]
    BY DEF Goes, IInv, TypeInv, TypeOK
  <1> HIDE DEF d
  <1>4. next \in Answering /\ d # None
    BY <1>2, NoCallAssumption DEF Answering
  <1>5. Fits(d)
    BY <1>1, <1>2, <1>4 DEF Fits
  <1>6. Explained(d, selected', alive', audit'.asked, crossed')
    BY <1>1, <1>2, <1>4 DEF Explained
  <1>7. call' \in [Slots -> Calls \union {None}] /\ CallsHold'
    BY <1>3, <1>5, <1>6, CallsStep, SameForCalls DEF IInv
  <1>8. TimerHolds'
    <2>1. Pending(s) => d.kind \in Selecting /\ d.pid = selected
      BY <1>2 DEF Pending
    <2> QED
      BY <1>2, <1>3, <1>4, <2>1, TimerStays DEF IInv
  <1>9. DialogHolds'
    BY <1>2, <1>3, DialogStays DEF IInv
  <1> QED
    BY <1>7, <1>8, <1>9

LEMMA EndsCalls ==
    ASSUME IInv, NEW s \in Slots, Ends(s), UNCHANGED <<selected, alive, audit>>,
           crossed \subseteq crossed'
    PROVE  call' = [call EXCEPT ![s] = None] /\ call' \in [Slots -> Calls \union {None}] /\ CallsHold'
  <1>1. call' = [call EXCEPT ![s] = None]
    BY DEF Ends
  <1> QED
    BY <1>1, CallsStep, SameForCalls DEF IInv

\* A selection that throws leaves the timer to whoever set it, and that is on record.
LEMMA ThrowsKeeps ==
    ASSUME IInv, clicks' \in 0 .. MaxClicks, NEW s \in Slots, call[s] # None, Throws(s),
           UNCHANGED <<life, done, listed, selected, process, jobs, detail, audit, filter,
                       dialog, alive, swapped>>,
           faults' \in 0 .. MaxFaults
    PROVE  IInv'
  <1>1. /\ timer' \in {timer, None}
        /\ timer' # None => call[s].kind # "poll" /\ timer' = timer
        /\ crossed' = crossed \union If(call[s].kind \in Selecting, "timer")
        /\ Ends(s)
    BY DEF Throws
  <1>2. /\ crossed \subseteq crossed' /\ crossed' \subseteq {"list", "detail", "timer", "audit"}
        /\ call[s].kind \in Selecting => "timer" \in crossed'
    BY <1>1 DEF If, IInv, TypeInv, TypeOK
  <1>3. /\ call' = [call EXCEPT ![s] = None]
        /\ call' \in [Slots -> Calls \union {None}] /\ CallsHold'
    BY <1>1, <1>2, EndsCalls
  <1>4. TypeInv'
    BY <1>1, <1>2, <1>3 DEF IInv, TypeInv, TypeOK
  <1>5. Shows' /\ DialogHolds'
    BY <1>2, <1>3, ShowsStay, DialogStays DEF IInv
  <1>6. TimerHolds'
    <2>1. CASE call[s].kind \in Selecting
      BY <1>2, <2>1 DEF TimerHolds
    <2>2. CASE timer' = None
      BY <2>2 DEF TimerHolds
    <2>3. CASE call[s].kind \notin Selecting /\ timer' = timer
      BY <1>2, <1>3, <2>3, TimerStays DEF IInv, Pending
    <2> QED
      BY <1>1, <2>1, <2>2, <2>3
  <1> QED
    BY <1>3, <1>4, <1>5, <1>6 DEF IInv

LEMMA ProcessComesKeeps ==
    ASSUME IInv, clicks' \in 0 .. MaxClicks, NEW s \in Slots, call[s] # None,
           call[s].step = "process", ProcessComes(s)
    PROVE  IInv'
  <1>0. UNCHANGED <<life, done, listed, selected, jobs, detail, audit, filter, dialog,
                    timer, alive, faults, crossed, swapped>>
    BY DEF ProcessComes, server
  <1>1. call[s].kind \in Selecting \union {"poll"} /\ call[s].pid \in Pids /\ call[s] \in Calls
    BY StepShowsKind DEF IInv, Selecting
  <1>2. call' \in [Slots -> Calls \union {None}] /\ CallsHold' /\ TimerHolds' /\ DialogHolds'
    BY <1>0, <1>1, GoesOn DEF ProcessComes, Answering
  <1>3. process' \in [pid : Pids, look : 0 .. 1] \union {None}
    <2>1. PICK n \in getProcess(call[s]) :
             process' = IF process # None /\ process.look = n
                        THEN process ELSE [pid |-> call[s].pid, look |-> n]
      BY DEF ProcessComes
    <2>2. n \in 0 .. 1
      <3>1. call[s].since # None /\ n \in call[s].since .. done[call[s].pid]
        BY DEF getProcess
      <3>2. call[s].since \in {0, 1} /\ done[call[s].pid] \in 0 .. 1
        BY <1>1, <3>1 DEF Calls, IInv, TypeInv, TypeOK
      <3> QED
        BY <3>1, <3>2
    <2> QED
      BY <1>1, <2>1, <2>2 DEF IInv, TypeInv, TypeOK
  <1>4. TypeInv'
    BY <1>0, <1>2, <1>3 DEF IInv, TypeInv, TypeOK
  <1> QED
    BY <1>0, <1>2, <1>4, ShowsStay DEF IInv

LEMMA BatchesComeKeeps ==
    ASSUME IInv, clicks' \in 0 .. MaxClicks, NEW s \in Slots, call[s] # None,
           call[s].step = "batches", BatchesCome(s)
    PROVE  IInv'
  <1>0. UNCHANGED <<life, done, listed, selected, process, jobs, detail, audit, filter, dialog,
                    timer, alive, faults, crossed, swapped>>
    BY DEF BatchesCome, server, page
  <1>1. call[s].kind \in Selecting \union {"poll"}
    BY StepShowsKind DEF IInv
  <1>2. call' \in [Slots -> Calls \union {None}] /\ CallsHold' /\ TimerHolds' /\ DialogHolds'
    BY <1>0, <1>1, GoesOn DEF BatchesCome, Answering
  <1>3. TypeInv'
    BY <1>0, <1>2 DEF IInv, TypeInv, TypeOK
  <1> QED
    BY <1>0, <1>2, <1>3, ShowsStay DEF IInv

\* refreshJobs shows the process it was called for, and a selection polls it from
\* then on: the selected one, or what crossed is on record.
LEMMA JobsComeKeeps ==
    ASSUME IInv, clicks' \in 0 .. MaxClicks, NEW s \in Slots, call[s] # None,
           call[s].step = "jobs", JobsCome(s)
    PROVE  IInv'
  <1>0. /\ UNCHANGED <<life, done, listed, selected, process, detail, audit, filter, dialog,
                       alive, faults, crossed, swapped>>
        /\ Ends(s)
        /\ timer' = IF call[s].kind \in Selecting THEN call[s].pid ELSE timer
    BY DEF JobsCome, server
  <1>1. /\ call[s].kind \in Selecting \union {"poll", "filter"}
        /\ call[s].pid \in Pids /\ call[s] \in Calls
        /\ Explained(call[s], selected, alive, audit.asked, crossed)
    BY StepShowsKind DEF IInv, Selecting
  <1>2. /\ call' = [call EXCEPT ![s] = None]
        /\ call' \in [Slots -> Calls \union {None}] /\ CallsHold'
    BY <1>0, EndsCalls
  <1>3. /\ jobs' \in [pid : Pids, upTo : 0 .. 1] \union {None}
        /\ jobs' # None => jobs'.pid = call[s].pid
    <2>1. PICK n \in listJobs(call[s]) :
             jobs' = IF Shown(n) THEN Merged(call[s].pid, n) ELSE None
      BY DEF JobsCome
    <2>2. Shown(n) => n \in 0 .. 1
      <3> SUFFICES ASSUME n # None PROVE n \in 0 .. 1
        BY DEF Shown
      <3>1. n \in getProcess(call[s])
        BY DEF listJobs, If
      <3>2. call[s].since # None /\ n \in call[s].since .. done[call[s].pid]
        BY <3>1 DEF getProcess
      <3>3. call[s].since \in {0, 1} /\ done[call[s].pid] \in 0 .. 1
        BY <1>1, <3>2 DEF Calls, IInv, TypeInv, TypeOK
      <3> QED
        BY <3>2, <3>3
    <2>3. ASSUME n \in 0 .. 1
          PROVE  /\ Merged(call[s].pid, n) \in [pid : Pids, upTo : 0 .. 1] \union {None}
                 /\ Merged(call[s].pid, n).pid = call[s].pid
      BY <1>1, <2>3 DEF Merged, IInv, TypeInv, TypeOK
    <2> QED
      BY <2>1, <2>2, <2>3
  <1>4. TypeInv'
    BY <1>0, <1>1, <1>2, <1>3 DEF IInv, TypeInv, TypeOK
  <1>5. Shows'
    BY <1>0, <1>1, <1>3 DEF IInv, Shows, Explained, Answering
  <1>6. TimerHolds'
    <2>1. CASE call[s].kind \in Selecting
      BY <1>0, <1>1, <2>1 DEF TimerHolds, Explained, Answering
    <2>2. CASE call[s].kind \notin Selecting
      BY <1>0, <1>2, <2>2, TimerStays DEF IInv, Pending
    <2> QED
      BY <2>1, <2>2
  <1>7. DialogHolds'
    BY <1>0, <1>2, DialogStays DEF IInv
  <1> QED
    BY <1>2, <1>4, <1>5, <1>6, <1>7 DEF IInv

LEMMA JobComesKeeps ==
    ASSUME IInv, clicks' \in 0 .. MaxClicks, NEW s \in Slots, call[s] # None,
           call[s].step = "job", JobComes(s)
    PROVE  IInv'
  <1>0. /\ UNCHANGED <<life, done, listed, selected, process, jobs, audit, filter, dialog,
                       timer, alive, faults, crossed, swapped>>
        /\ Ends(s) /\ detail' = call[s].pid
    BY DEF JobComes, server, getJob, If
  <1>1. /\ call[s].kind = "job" /\ call[s].pid \in Pids
        /\ Explained(call[s], selected, alive, audit.asked, crossed)
    BY StepShowsKind DEF IInv
  <1>2. /\ call' = [call EXCEPT ![s] = None]
        /\ call' \in [Slots -> Calls \union {None}] /\ CallsHold'
    BY <1>0, EndsCalls
  <1>3. TypeInv'
    BY <1>0, <1>1, <1>2 DEF IInv, TypeInv, TypeOK
  <1>4. Shows'
    BY <1>0, <1>1 DEF IInv, Shows, Explained
  <1>5. TimerHolds' /\ DialogHolds'
    BY <1>0, <1>1, <1>2, TimerStays, DialogStays DEF IInv, Pending, Selecting
  <1> QED
    BY <1>2, <1>3, <1>4, <1>5 DEF IInv

LEMMA AuditComesKeeps ==
    ASSUME IInv, clicks' \in 0 .. MaxClicks, NEW s \in Slots, call[s] # None,
           call[s].step = "audit", AuditComes(s)
    PROVE  IInv'
  <1> DEFINE rows == <<call[s].pid, call[s].kind>>
  <1>0. /\ UNCHANGED <<life, done, listed, selected, process, jobs, detail, filter, dialog,
                       timer, alive, faults, crossed, swapped>>
        /\ Ends(s) /\ audit' = [audit EXCEPT !.rows = rows]
    BY DEF AuditComes, server, getProcessAudit, If
  <1>1. /\ call[s].kind \in Audits /\ call[s].pid \in Pids
        /\ Explained(call[s], selected, alive, audit.asked, crossed)
    BY StepShowsKind, MonitorAssumption DEF IInv
  <1>2. audit'.asked = audit.asked /\ audit'.rows = rows
        /\ audit' \in [asked : (Pids \X Audits) \union {None}, rows : (Pids \X Audits) \union {None}]
    BY <1>0, <1>1 DEF IInv, TypeInv, TypeOK
  <1>3. call' = [call EXCEPT ![s] = None]
    BY <1>0 DEF Ends
  <1>4. call' \in [Slots -> Calls \union {None}] /\ CallsHold'
    BY <1>0, <1>2, <1>3, CallsStep, SameForCalls DEF IInv
  <1>5. TypeInv'
    BY <1>0, <1>2, <1>4 DEF IInv, TypeInv, TypeOK
  <1>6. Shows'
    BY <1>0, <1>1, <1>2 DEF IInv, Shows, Explained
  <1>7. TimerHolds' /\ DialogHolds'
    BY <1>0, <1>1, <1>3, MonitorAssumption, TimerStays, DialogStays DEF IInv, Pending, Selecting
  <1> QED
    BY <1>4, <1>5, <1>6, <1>7 DEF IInv

LEMMA DeletedKeeps ==
    ASSUME IInv, clicks' \in 0 .. MaxClicks, NEW s \in Slots, call[s] # None,
           call[s].step = "delete", Deleted(s)
    PROVE  IInv'
  <1> DEFINE d == Request(call[s].kind, "list", call[s].pid)
  <1>0. /\ UNCHANGED <<done, listed, selected, process, jobs, detail, audit, filter, dialog,
                       timer, alive, crossed, swapped>>
        /\ call[s].pid \in Pids /\ life' = [life EXCEPT ![call[s].pid] = "gone"]
        /\ Goes(s, "list") \/ Ends(s)
        /\ faults' \in 0 .. MaxFaults
    BY MonitorAssumption DEF Deleted, page, There, IInv, TypeInv, TypeOK
  <1>1. call[s].kind = "delete"
    BY StepShowsKind DEF IInv
  <1>2. d \in Calls /\ d.kind = "delete" /\ d.step = "list" /\ d.pid = call[s].pid
    <2>1. "list" \in Steps /\ "delete" \in Kinds
      BY DEF Steps, Kinds
    <2> QED
      BY <1>0, <1>1, <2>1, RequestFits DEF IInv
  <1>3. call' = [call EXCEPT ![s] = d] \/ call' = [call EXCEPT ![s] = None]
    BY <1>0 DEF Goes, Ends, IInv, TypeInv, TypeOK
  <1> HIDE DEF d
  <1>4. Fits(d) /\ Explained(d, selected', alive', audit'.asked, crossed')
    BY <1>0, <1>2, MonitorAssumption DEF Fits, Explained, Selecting
  <1>5. call' \in [Slots -> Calls \union {None}] /\ CallsHold'
    BY <1>0, <1>3, <1>4, CallsStep, SameForCalls DEF IInv
  <1>6. TypeInv'
    BY <1>0, <1>5 DEF IInv, TypeInv, TypeOK
  <1>7. ~Pending(s)
    BY <1>1 DEF Pending, Selecting
  <1>8. TimerHolds'
    BY <1>0, <1>3, <1>7, TimerStays DEF IInv
  <1>9. DialogHolds'
    BY <1>0, <1>1, <1>3, DialogStays DEF IInv
  <1> QED
    BY <1>0, <1>5, <1>6, <1>8, <1>9, ShowsStay DEF IInv

LEMMA UploadedKeeps ==
    ASSUME IInv, clicks' \in 0 .. MaxClicks, NEW s \in Slots, call[s] # None,
           call[s].step = "upload", NEW p \in Pids, Uploaded(s, p)
    PROVE  IInv'
  <1> DEFINE d == Request("upload", "list", p)
  <1>0. /\ UNCHANGED <<done, listed, selected, process, jobs, detail, audit, filter, dialog,
                       timer, alive, crossed, swapped>>
        /\ life' = [life EXCEPT ![p] = "there"]
        /\ call' = [call EXCEPT ![s] = d] \/ Ends(s)
        /\ faults' \in 0 .. MaxFaults
    BY MonitorAssumption DEF Uploaded, page, IInv, TypeInv, TypeOK
  <1>1. call[s].kind = "upload" /\ Explained(call[s], selected, alive, audit.asked, crossed)
    BY StepShowsKind DEF IInv
  <1>2. d \in Calls /\ d.kind = "upload" /\ d.step = "list" /\ d.pid = p
    <2>1. "list" \in Steps /\ "upload" \in Kinds
      BY DEF Steps, Kinds, Selecting
    <2> QED
      BY <2>1, RequestFits DEF IInv
  <1> HIDE DEF d
  <1>3. call' = [call EXCEPT ![s] = d] \/ call' = [call EXCEPT ![s] = None]
    BY <1>0 DEF Ends
  <1>4. Fits(d) /\ Explained(d, selected', alive', audit'.asked, crossed')
    BY <1>0, <1>1, <1>2, MonitorAssumption DEF Fits, Explained, Selecting, Answering
  <1>5. call' \in [Slots -> Calls \union {None}] /\ CallsHold'
    BY <1>0, <1>3, <1>4, CallsStep, SameForCalls DEF IInv
  <1>6. TypeInv'
    BY <1>0, <1>5 DEF IInv, TypeInv, TypeOK
  <1>7. ~Pending(s)
    BY DEF Pending, Answering
  <1>8. TimerHolds'
    BY <1>0, <1>3, <1>7, TimerStays DEF IInv
  <1>9. DialogHolds'
    BY <1>0, <1>2, <1>3, DialogStays DEF IInv
  <1> QED
    BY <1>0, <1>5, <1>6, <1>8, <1>9, ShowsStay DEF IInv

\* refreshProcesses, and then the dashboard opens, the deleted process is cleared, or
\* the uploaded one is selected.
LEMMA ListComesKeeps ==
    ASSUME IInv, clicks' \in 0 .. MaxClicks, NEW s \in Slots, call[s] # None,
           call[s].step = "list", ListComes(s)
    PROVE  IInv'
  <1>0. /\ UNCHANGED <<life, done, audit, filter, dialog, timer, alive, faults>>
        /\ listed' \subseteq Pids
    BY DEF ListComes, server, There
  <1>1. /\ call[s] \in Calls /\ call[s].kind \in {"open", "delete", "upload"}
        /\ call[s].kind # "open" => call[s].pid \in Pids
        /\ Explained(call[s], selected, alive, audit.asked, crossed)
    BY StepShowsKind DEF IInv
  <1>2. ~Pending(s)
    BY DEF Pending, Answering
  <1>3. ASSUME Ends(s), UNCHANGED <<selected, process, jobs, detail, crossed, swapped>>
        PROVE  IInv'
    <2>1. /\ call' = [call EXCEPT ![s] = None]
          /\ call' \in [Slots -> Calls \union {None}] /\ CallsHold'
      BY <1>0, <1>3, EndsCalls
    <2>2. TypeInv'
      BY <1>0, <1>3, <2>1 DEF IInv, TypeInv, TypeOK
    <2>3. Shows' /\ TimerHolds' /\ DialogHolds'
      BY <1>0, <1>2, <1>3, <2>1, ShowsStay, TimerStays, DialogStays DEF IInv
    <2> QED
      BY <2>1, <2>2, <2>3 DEF IInv
  <1>4. ASSUME call[s].kind = "delete", Ends(s), UNCHANGED swapped,
               selected' = None, process' = None, jobs' = None, detail' = None,
               crossed' = crossed \union Crossing(None) \union If(timer # None, "timer")
        PROVE  IInv'
    <2>1. call' = [call EXCEPT ![s] = None]
      BY <1>4 DEF Ends
    <2>2. crossed \union Crossing(None) \subseteq crossed'
      BY <1>4
    <2>3. \A t \in Slots : call[t] # None =>
              Explained(call[t], selected', alive', audit'.asked, crossed')
      BY <1>0, <1>4, <2>2, SelectionExplained DEF IInv
    <2>4. call' \in [Slots -> Calls \union {None}] /\ CallsHold'
      BY <2>1, <2>3, CallsStep DEF IInv
    <2>5. crossed' \subseteq {"list", "detail", "timer", "audit"}
      BY <1>4, CrossingTypes DEF If, IInv, TypeInv, TypeOK
    <2>6. TypeInv'
      BY <1>0, <1>4, <2>4, <2>5 DEF IInv, TypeInv, TypeOK
    <2>7. Shows'
      BY <1>0, <1>4, <2>2 DEF IInv, Shows
    <2>8. TimerHolds'
      <3>1. timer # None => "timer" \in crossed'
        BY <1>4 DEF If
      <3> QED
        BY <1>0, <3>1 DEF TimerHolds
    <2>9. DialogHolds'
      BY <1>0, <1>4 DEF IInv, DialogHolds
    <2> QED
      BY <2>4, <2>6, <2>7, <2>8, <2>9 DEF IInv
  <1>5. ASSUME call[s].kind = "upload", Goes(s, "process"), UNCHANGED process,
               selected' = call[s].pid, detail' = None, jobs' = None,
               crossed' = crossed \union Crossing(call[s].pid),
               swapped' = (dialog # None \/ swapped)
        PROVE  IInv'
    <2> DEFINE d == Request(call[s].kind, "process", call[s].pid)
    <2>1. d \in Calls /\ d.kind = "upload" /\ d.step = "process" /\ d.pid = call[s].pid
      <3>1. "process" \in Steps /\ "upload" \in Kinds
        BY DEF Steps, Kinds, Selecting
      <3> QED
        BY <1>1, <1>5, <3>1, RequestFits DEF IInv
    <2>2. call' = [call EXCEPT ![s] = d]
      BY <1>5 DEF Goes, IInv, TypeInv, TypeOK
    <2> HIDE DEF d
    <2>3. call[s].pid \in Pids /\ selected' = call[s].pid
      BY <1>1, <1>5
    <2>4. crossed \union Crossing(call[s].pid) \subseteq crossed'
      BY <1>5
    <2>5. Fits(d) /\ Explained(d, selected', alive', audit'.asked, crossed')
      BY <1>0, <1>1, <1>5, <2>1, <2>3, <2>4, MonitorAssumption
         DEF Fits, Explained, Selecting, Answering
    <2>6. \A t \in Slots : call[t] # None =>
              Explained(call[t], selected', alive', audit'.asked, crossed')
      BY <1>0, <2>3, <2>4, SelectionExplained DEF IInv
    <2>7. call' \in [Slots -> Calls \union {None}] /\ CallsHold'
      BY <2>2, <2>5, <2>6, CallsStep DEF IInv
    <2>8. crossed' \subseteq {"list", "detail", "timer", "audit"}
      BY <1>5, CrossingTypes DEF IInv, TypeInv, TypeOK
    <2>9. TypeInv'
      <3>1. swapped' \in BOOLEAN
        BY <1>5
      <3>2. {selected', detail', dialog', timer'} \subseteq Pids \union {None}
        BY <1>0, <1>5, <2>3 DEF IInv, TypeInv, TypeOK
      <3> QED
        BY <1>0, <1>5, <2>7, <2>8, <3>1, <3>2 DEF IInv, TypeInv, TypeOK
    <2>10. Shows'
      BY <1>0, <1>5, <2>4 DEF IInv, Shows
    <2>11. TimerHolds'
      <3>1. call'[s] = d /\ d # None
        BY <2>1, <2>2, NoCallAssumption DEF IInv, TypeInv, TypeOK
      <3>2. Pending(s)'
        BY <2>1, <2>3, <3>1 DEF Pending, Selecting, Answering
      <3> QED
        BY <3>2 DEF TimerHolds
    <2>12. DialogHolds'
      <3>1. \A t \in Slots : call'[t] = IF t = s THEN d ELSE call[t]
        BY <2>2 DEF IInv, TypeInv, TypeOK
      <3>2. selected' # None
        BY <2>3, MonitorAssumption
      <3> QED
        BY <1>0, <1>5, <2>1, <3>1, <3>2 DEF IInv, DialogHolds
    <2> QED
      BY <2>7, <2>9, <2>10, <2>11, <2>12 DEF IInv
  <1> QED
    BY <1>3, <1>4, <1>5 DEF ListComes, SelectReset

LEMMA NotFoundKeeps ==
    ASSUME IInv, clicks' \in 0 .. MaxClicks, NEW s \in Slots, call[s] # None, NotFound(s)
    PROVE  IInv'
  BY ThrowsKeeps DEF NotFound, server, IInv, TypeInv, TypeOK

LEMMA RequestFailsKeeps ==
    ASSUME IInv, clicks' \in 0 .. MaxClicks, NEW s \in Slots, RequestFails(s)
    PROVE  IInv'
  <1>1. faults' \in 0 .. MaxFaults
    BY MonitorAssumption DEF RequestFails, IInv, TypeInv, TypeOK
  <1> QED
    BY <1>1, ThrowsKeeps DEF RequestFails, server

LEMMA SettleKeeps ==
    ASSUME IInv, clicks' \in 0 .. MaxClicks, NEW s \in Slots, Settle(s)
    PROVE  IInv'
  BY ProcessComesKeeps, BatchesComeKeeps, JobsComeKeeps, JobComesKeeps, AuditComesKeeps,
     DeletedKeeps, UploadedKeeps, ListComesKeeps, NotFoundKeeps DEF Settle

LEMMA NextInv == IInv /\ [Next]_vars => IInv'
  <1> SUFFICES ASSUME IInv, [Next]_vars PROVE IInv'
    OBVIOUS
  <1>1. CASE UNCHANGED vars
    <2>1. UNCHANGED <<life, done, listed, selected, process, jobs, detail, audit, filter,
                      dialog, timer, alive, call, clicks, faults, crossed, swapped>>
      BY <1>1 DEF vars, server, page
    <2> QED
      BY <2>1 DEF IInv, TypeInv, TypeOK, CallsHold, Shows, TimerHolds, Pending, DialogHolds
  <1>2. CASE User
    <2>1. clicks' \in 0 .. MaxClicks
      BY <1>2, MonitorAssumption DEF User, IInv, TypeInv, TypeOK
    <2> QED
      BY <1>2, <2>1, SelectKeeps, SetFilterKeeps, OpenAuditKeeps, SelectJobKeeps,
         AskDeleteKeeps, UploadKeeps, LeaveKeeps DEF User
  <1>3. ASSUME UNCHANGED clicks,
               \/ Answers \/ Tick
               \/ \E s \in Slots : Settle(s) \/ RequestFails(s)
               \/ \E p \in Pids : Advance(p)
        PROVE  IInv'
    <2>1. clicks' \in 0 .. MaxClicks
      BY <1>3 DEF IInv, TypeInv, TypeOK
    <2> QED
      BY <1>3, <2>1, CloseAuditKeeps, CancelDeleteKeeps, ConfirmDeleteKeeps, TickKeeps,
         SettleKeeps, RequestFailsKeeps, AdvanceKeeps DEF Answers
  <1> QED
    BY <1>1, <1>2, <1>3 DEF Next

LEMMA Invariant == Spec => []IInv
  BY InitInv, NextInv, PTL DEF Spec

-----------------------------------------------------------------------------
(* The theorems.                                                            *)

\* Whatever the user clicks and in whatever order the answers come, every signal
\* of the page and every request in flight stays in its type.
THEOREM TypesHold == Spec => []TypeOK
  <1>1. IInv => TypeOK
    BY DEF IInv, TypeInv
  <1> QED
    BY <1>1, Invariant, PTL

\* The page shows and polls the process that is selected, for any number of
\* processes, handlers and polls in flight: every request that could put another
\* process's jobs, job or audit on it, or leave a timer behind, was in flight when
\* the selection changed, the page was left or a second audit was opened.
THEOREM PageShowsSelected == Spec => []ShownIsSelected
  <1>1. ASSUME IInv PROVE ShownIsSelected
    <2>1. ASSUME NEW s \in Slots, Pending(s)
          PROVE  InFlight(Selecting, {selected} \ {None})
      <3>1. call[s].pid \in Pids
        <4>1. call[s] # None /\ call[s].kind # "open" /\ call[s].step # "upload"
          BY <2>1 DEF Pending, Selecting, Answering
        <4> QED
          BY <1>1, <4>1, StepShowsKind DEF IInv
      <3>2. call[s].pid \in {selected} \ {None}
        BY <2>1, <3>1, MonitorAssumption DEF Pending
      <3> QED
        BY <2>1, <3>2 DEF InFlight, Pending
    <2> QED
      BY <1>1, <2>1 DEF IInv, Shows, TimerHolds, ShownIsSelected
  <1> QED
    BY <1>1, Invariant, PTL

LEMMA BegunIs ==
    ASSUME TypeInv, NEW S \in SUBSET Slots, NEW d, Begin(S, d),
           NEW s \in Slots, call[s] = None, call'[s] # None
    PROVE  call'[s] = d
  <1>1. PICK t \in S : call' = [call EXCEPT ![t] = d]
    BY BeginsInFree
  <1> QED
    BY <1>1 DEF TypeInv, TypeOK

\* A handler that settles ends or goes on as the handler it was.
LEMMA SettleCalls ==
    ASSUME IInv, NEW t \in Slots, Settle(t) \/ RequestFails(t)
    PROVE  /\ call[t] # None
           /\ \E d : /\ call' = [call EXCEPT ![t] = d]
                     /\ d # None => /\ d.kind = call[t].kind
                                    /\ d.kind = "poll" => d.pid = call[t].pid
  <1> DEFINE Good == \E d : /\ call' = [call EXCEPT ![t] = d]
                            /\ d # None => /\ d.kind = call[t].kind
                                           /\ d.kind = "poll" => d.pid = call[t].pid
  <1>1. call[t] # None
    BY DEF Settle, RequestFails
  <1>2. ASSUME NEW next, Goes(t, next) PROVE Good
    <2> DEFINE d == Request(call[t].kind, next, call[t].pid)
    <2>1. call' = [call EXCEPT ![t] = d]
      BY <1>2 DEF Goes, IInv, TypeInv, TypeOK
    <2>2. d.kind = call[t].kind /\ d.pid = call[t].pid
      BY DEF Request
    <2> HIDE DEF d
    <2> QED
      BY <2>1, <2>2
  <1>3. Ends(t) => Good
    BY DEF Ends
  <1>4. Throws(t) => Ends(t)
    BY DEF Throws
  <1>5. ASSUME NEW p \in Pids, Uploaded(t, p), call[t].step = "upload" PROVE Good
    <2>1. call[t].kind = "upload"
      BY <1>1, <1>5 DEF IInv, CallsHold, Fits, Answering
    <2>2. \/ call' = [call EXCEPT ![t] = Request("upload", "list", p)]
          \/ Ends(t)
      BY <1>5 DEF Uploaded
    <2>3. Request("upload", "list", p).kind = "upload"
      BY DEF Request
    <2> QED
      BY <1>3, <2>1, <2>2, <2>3
  <1>6. RequestFails(t) \/ NotFound(t) => Throws(t)
    BY DEF RequestFails, NotFound
  <1>7. ProcessComes(t) => Goes(t, "batches")
    BY DEF ProcessComes
  <1>8. BatchesCome(t) => Goes(t, "jobs")
    BY DEF BatchesCome
  <1>9. JobsCome(t) \/ JobComes(t) \/ AuditComes(t) => Ends(t)
    BY DEF JobsCome, JobComes, AuditComes
  <1>10. Deleted(t) => Goes(t, "list") \/ Ends(t)
    BY DEF Deleted
  <1>11. ListComes(t) => Goes(t, "process") \/ Ends(t)
    BY DEF ListComes
  <1> HIDE DEF Goes, Ends, Throws, Good
  <1>12. Good
    BY <1>2, <1>3, <1>4, <1>5, <1>6, <1>7, <1>8, <1>9, <1>10, <1>11 DEF Settle
  <1> QED
    BY <1>1, <1>12 DEF Good

\* Who fills a slot that was free: the delete dialog with a deletion, the timer
\* with a poll, and the other clicks with what is neither.
LEMMA BegunBy ==
    ASSUME IInv, Next, NEW s \in Slots, call[s] = None, call'[s] # None
    PROVE  \/ User /\ call'[s].kind \notin {"delete", "poll"}
           \/ ConfirmDelete /\ call'[s].kind = "delete" /\ call'[s].pid = selected
           \/ Tick /\ call'[s].kind = "poll" /\ call'[s].pid = timer
  <1>0. /\ Clicks \in SUBSET Slots /\ Ticks \in SUBSET Slots
        /\ TypeInv /\ call'[s] # call[s]
    BY DEF Slots, IInv
  <1>1. \A kind, step, p : /\ Request(kind, step, p).kind = kind
                           /\ Request(kind, step, p).pid = p
    BY DEF Request
  <1>2. ASSUME NEW S \in SUBSET Slots, NEW d, Begin(S, d) PROVE call'[s] = d
    BY <1>0, <1>2, BegunIs
  <1>3. CASE User
    <2>1. ASSUME NEW p \in Pids, Select(p) PROVE call'[s].kind = "select"
      <3>1. Begin(Clicks, Request("select", "process", p))
        BY <2>1 DEF Select
      <3> QED
        BY <1>0, <1>1, <1>2, <3>1
    <2>2. ASSUME NEW f \in Filters, SetFilter(f) PROVE call'[s].kind = "filter"
      <3> DEFINE r == Request("filter", "jobs", selected)
      <3>1. Begin(Clicks, [r EXCEPT !.filter = f.status])
        BY <1>0, <2>2 DEF SetFilter
      <3>2. r.kind = "filter" /\ [r EXCEPT !.filter = f.status].kind = r.kind
        BY DEF Request
      <3> HIDE DEF r
      <3> QED
        BY <1>0, <1>2, <3>1, <3>2
    <2>3. ASSUME NEW k \in Audits, OpenAudit(k) PROVE call'[s].kind \notin {"delete", "poll"}
      <3>1. Begin(Clicks, Request(k, "audit", selected)) /\ k \notin {"delete", "poll"}
        BY <2>3, MonitorAssumption DEF OpenAudit
      <3> QED
        BY <1>0, <1>1, <1>2, <3>1
    <2>4. SelectJob => call'[s].kind = "job"
      <3> SUFFICES ASSUME SelectJob PROVE call'[s].kind = "job"
        OBVIOUS
      <3>1. Begin(Clicks, Request("job", "job", jobs.pid))
        BY DEF SelectJob
      <3> QED
        BY <1>0, <1>1, <1>2, <3>1
    <2>5. Upload => call'[s].kind = "upload"
      <3> SUFFICES ASSUME Upload PROVE call'[s].kind = "upload"
        OBVIOUS
      <3>1. Begin(Clicks, Request("upload", "upload", None))
        BY DEF Upload
      <3> QED
        BY <1>0, <1>1, <1>2, <3>1
    <2>6. ~(AskDelete \/ Leave)
      BY <1>0 DEF AskDelete, Leave
    <2> QED
      BY <1>3, <2>1, <2>2, <2>3, <2>4, <2>5, <2>6 DEF User
  <1>4. CASE Tick
    <2>1. Begin(Ticks, Request("poll", "process", timer))
      BY <1>4 DEF Tick
    <2> QED
      BY <1>0, <1>1, <1>2, <1>4, <2>1
  <1>5. ASSUME NEW t \in Slots PROVE ~(Settle(t) \/ RequestFails(t))
    <2> SUFFICES ASSUME Settle(t) \/ RequestFails(t) PROVE FALSE
      OBVIOUS
    <2>1. call[t] # None /\ \E d : call' = [call EXCEPT ![t] = d]
      BY SettleCalls
    <2> QED
      BY <1>0, <2>1 DEF TypeInv, TypeOK
  <1>6. CASE ConfirmDelete
    <2>1. Begin(Clicks, Request("delete", "delete", selected))
      BY <1>6 DEF ConfirmDelete, Doomed
    <2> QED
      BY <1>0, <1>1, <1>2, <1>6, <2>1
  <1> QED
    BY <1>0, <1>3, <1>4, <1>5, <1>6 DEF Next, Answers, CloseAudit, CancelDelete, Advance

LEMMA DeleteStep ==
    ASSUME IInv, Next, NEW s \in Slots,
           call'[s] # None, call'[s].kind = "delete", call[s] = None
    PROVE  call'[s].pid = dialog \/ swapped
  <1>1. ConfirmDelete /\ call'[s].pid = selected
    BY BegunBy
  <1> QED
    BY <1>1 DEF ConfirmDelete, IInv, DialogHolds

\* Confirming the delete dialog deletes the process the user was asked about, with
\* any number of answers on the way: while it is open the selection changes under
\* it only when an upload ends, since a second deletion cannot be under way.
THEOREM DeletionHitsTheOneAsked == Spec => DeletesTheOneAsked
  <1>1. IInv /\ [Next]_vars =>
          [\A s \in Slots :
              (call'[s] # None /\ call'[s].kind = "delete" /\ call[s] = None)
                  => call'[s].pid = dialog \/ swapped]_vars
    BY DeleteStep
  <1> QED
    BY <1>1, Invariant, PTL DEF Spec, DeletesTheOneAsked

-----------------------------------------------------------------------------
(* Polling.                                                                 *)

\* A poll in flight is of the process that is polled, or answers that cross have
\* been put on record.
PollsHold ==
    \A s \in Slots :
        (call[s] # None /\ call[s].kind = "poll" /\ timer # None /\ call[s].pid # timer)
            => "list" \in crossed

\* What is on record stays there; the timer is set by a selection's handler only,
\* and stopped by the user or by a poll that fails.
LEMMA TimerStep ==
    ASSUME IInv, Next
    PROVE  /\ crossed \subseteq crossed'
           /\ \/ timer' = timer
              \/ timer' = None /\ (Leave \/ ConfirmDelete \/ Upload)
              \/ /\ timer' = None
                 /\ \E t \in Slots : call[t] # None /\ call[t].kind = "poll" /\ Ends(t)
              \/ \E t \in Slots : /\ call[t] # None /\ call[t].kind \in Selecting
                                  /\ call[t].step = "jobs" /\ timer' = call[t].pid
                                  /\ Ends(t)
  <1> DEFINE Sets(t) == /\ call[t] # None /\ call[t].kind \in Selecting
                        /\ call[t].step = "jobs" /\ timer' = call[t].pid /\ Ends(t)
             Fails(t) == /\ timer' = None
                         /\ call[t] # None /\ call[t].kind = "poll" /\ Ends(t)
             Same == crossed \subseteq crossed' /\ timer' = timer
             Stops == crossed \subseteq crossed' /\ timer' = None
  <1>1. ASSUME User
        PROVE  crossed \subseteq crossed' /\ (timer' = timer \/ (timer' = None /\ (Leave \/ Upload)))
    <2>1. ASSUME NEW p \in Pids, Select(p) PROVE Same
      BY <2>1 DEF Select
    <2>2. ASSUME NEW f \in Filters, SetFilter(f) PROVE Same
      BY <2>2 DEF SetFilter
    <2>3. ASSUME NEW k \in Audits, OpenAudit(k) PROVE Same
      BY <2>3 DEF OpenAudit
    <2>4. SelectJob \/ AskDelete => Same
      BY DEF SelectJob, AskDelete, page
    <2>5. Upload \/ Leave => Stops
      BY DEF Upload, Leave
    <2> HIDE DEF Same, Stops
    <2>6. Same \/ (Stops /\ (Leave \/ Upload))
      BY <1>1, <2>1, <2>2, <2>3, <2>4, <2>5 DEF User
    <2> QED
      BY <2>6 DEF Same, Stops
  <1>2. ASSUME Answers \/ Tick \/ \E p \in Pids : Advance(p)
        PROVE  /\ crossed \subseteq crossed'
               /\ timer' = timer \/ (timer' = None /\ ConfirmDelete)
    <2>1. CloseAudit \/ CancelDelete => Same
      BY DEF CloseAudit, CancelDelete
    <2>2. ConfirmDelete => Stops
      BY DEF ConfirmDelete
    <2>3. Tick => Same
      BY DEF Tick, page
    <2>4. ASSUME NEW p \in Pids, Advance(p) PROVE Same
      BY <2>4 DEF Advance, page
    <2> HIDE DEF Same, Stops
    <2>5. Same \/ (Stops /\ ConfirmDelete)
      BY <1>2, <2>1, <2>2, <2>3, <2>4 DEF Answers
    <2> QED
      BY <2>5 DEF Same, Stops
  <1>3. ASSUME NEW t \in Slots, Settle(t) \/ RequestFails(t)
        PROVE  /\ crossed \subseteq crossed'
               /\ timer' = timer \/ Sets(t) \/ Fails(t)
    <2>1. call[t] # None
      BY <1>3 DEF Settle, RequestFails
    <2>2. Throws(t) => crossed \subseteq crossed' /\ (timer' = timer \/ Fails(t))
      BY <2>1 DEF Throws
    <2>3. NotFound(t) \/ RequestFails(t) => Throws(t)
      BY DEF NotFound, RequestFails
    <2>4. ProcessComes(t) => crossed \subseteq crossed' /\ timer' = timer
      BY DEF ProcessComes
    <2>5. call[t].step = "jobs" /\ JobsCome(t) =>
              crossed \subseteq crossed' /\ (timer' = timer \/ Sets(t))
      BY <2>1 DEF JobsCome
    <2>6. BatchesCome(t) \/ Deleted(t) => crossed \subseteq crossed' /\ timer' = timer
      BY DEF BatchesCome, Deleted, page
    <2>7. JobComes(t) \/ AuditComes(t) => crossed \subseteq crossed' /\ timer' = timer
      BY DEF JobComes, AuditComes
    <2>8. ASSUME NEW p \in Pids, Uploaded(t, p)
          PROVE  crossed \subseteq crossed' /\ timer' = timer
      BY <2>8 DEF Uploaded, page
    <2>9. ListComes(t) => crossed \subseteq crossed' /\ timer' = timer
      BY DEF ListComes
    <2> HIDE DEF Sets, Fails
    <2> QED
      BY <1>3, <2>2, <2>3, <2>4, <2>5, <2>6, <2>7, <2>8, <2>9 DEF Settle
  <1> QED
    BY <1>1, <1>2, <1>3 DEF Next

\* A poll in flight has been there before, or has just been sent.
LEMMA PollStep ==
    ASSUME IInv, Next, NEW s \in Slots, call'[s] # None, call'[s].kind = "poll"
    PROVE  \/ call[s] # None /\ call[s].kind = "poll" /\ call[s].pid = call'[s].pid
           \/ Tick /\ call'[s].pid = timer
  <1>1. CASE call[s] = None
    BY <1>1, BegunBy
  <1>2. CASE call[s] # None
    <2>1. call \in [Slots -> Calls \union {None}]
      BY DEF IInv, TypeInv, TypeOK
    <2>2. ASSUME NEW S \in SUBSET Slots, NEW d, Begin(S, d) PROVE call'[s] = call[s]
      BY <1>2, <2>1, <2>2, BeginsInFree
    <2>3. ASSUME NEW t \in Slots, Settle(t) \/ RequestFails(t)
          PROVE  call'[s] = call[s]
                   \/ (call'[s].kind = call[s].kind /\ call'[s].pid = call[s].pid)
      <3>1. PICK d : /\ call' = [call EXCEPT ![t] = d]
                     /\ d # None => /\ d.kind = call[t].kind
                                    /\ d.kind = "poll" => d.pid = call[t].pid
        BY <2>3, SettleCalls
      <3> QED
        BY <2>1, <3>1
    <2>4. User => call'[s] = call[s]
      <3>1. Clicks \in SUBSET Slots
        BY DEF Slots
      <3>2. User => call' = call \/ \E d : Begin(Clicks, d)
        BY DEF User, Select, SetFilter, OpenAudit, SelectJob, AskDelete, Upload, Leave
      <3> QED
        BY <2>2, <3>1, <3>2
    <2>5. Tick \/ ConfirmDelete => call'[s] = call[s]
      <3>1. Clicks \in SUBSET Slots /\ Ticks \in SUBSET Slots
        BY DEF Slots
      <3>2. Tick \/ ConfirmDelete => \E d : Begin(Clicks, d) \/ Begin(Ticks, d)
        BY DEF Tick, ConfirmDelete
      <3> QED
        BY <2>2, <3>1, <3>2
    <2> QED
      BY <1>2, <2>3, <2>4, <2>5 DEF Next, Answers, CloseAudit, CancelDelete, Advance
  <1> QED
    BY <1>1, <1>2

LEMMA NextPolls == IInv /\ PollsHold /\ [Next]_vars => PollsHold'
  <1> SUFFICES ASSUME IInv, PollsHold, [Next]_vars, NEW s \in Slots,
                      call'[s] # None, call'[s].kind = "poll",
                      timer' # None, call'[s].pid # timer'
               PROVE  "list" \in crossed'
    BY DEF PollsHold
  <1>1. CASE UNCHANGED vars
    BY <1>1 DEF vars, page, PollsHold
  <1>2. CASE Next
    <2>1. crossed \subseteq crossed'
      BY <1>2, TimerStep
    <2>2. CASE timer' = timer
      BY <1>2, <2>1, <2>2, PollStep DEF PollsHold
    <2>3. ASSUME NEW t \in Slots, call[t] # None, call[t].kind \in Selecting,
                 call[t].step = "jobs", timer' = call[t].pid, Ends(t)
          PROVE  "list" \in crossed'
      <3>1. t # s /\ call'[s] = call[s]
        BY <2>3 DEF Ends, IInv, TypeInv, TypeOK
      <3>2. \A u \in {t, s} : /\ call[u] # None /\ Fits(call[u])
                              /\ Explained(call[u], selected, alive, audit.asked, crossed)
        BY <2>3, <3>1 DEF IInv, CallsHold
      <3>3. call[t].pid # selected => "list" \in crossed
        BY <2>3, <3>2 DEF Explained, Answering
      <3>4. call[s].step \in Answering
        BY <3>1, <3>2, MonitorAssumption DEF Fits, Selecting
      <3>5. call[s].pid # selected => "list" \in crossed
        BY <3>1, <3>2, <3>4 DEF Explained
      <3> QED
        BY <2>1, <2>3, <3>1, <3>3, <3>5
    <2> QED
      BY <1>2, <2>2, <2>3, TimerStep
  <1> QED
    BY <1>1, <1>2

\* Whatever fails, and in whatever order the answers come, polling stops only by the
\* user's leaving, deleting or uploading or by a failed poll of the process that is
\* polled, as long as no selection has changed under requests in flight.
THEOREM PollingIsNotStoppedByStrangers == Spec => PollingStopsForAReason
  <1>1. Init => PollsHold
    BY DEF Init, PollsHold
  <1>2. ASSUME IInv, PollsHold, Next, timer # None, timer' = None
        PROVE  \/ ~alive'
               \/ ~isDeleting /\ isDeleting'
               \/ ~isUploading /\ isUploading'
               \/ \E s \in Slots :
                     /\ call[s] # None /\ call[s].kind = "poll" /\ call'[s] = None
                     /\ call[s].pid = timer \/ "list" \in crossed
    <2>1. call \in [Slots -> Calls \union {None}] /\ timer \in Pids /\ Clicks \in SUBSET Slots
      BY <1>2 DEF IInv, TypeInv, TypeOK, Slots
    <2>2. CASE Leave
      BY <2>2 DEF Leave
    <2>3. ASSUME NEW d, Begin(Clicks, d), d # None
          PROVE  \E s \in Slots : call'[s] = d
      BY <2>1, <2>3, BeginsInFree
    <2>4. CASE ConfirmDelete
      <3> DEFINE d == Request("delete", "delete", selected)
      <3>1. Begin(Clicks, d) /\ dialog # None
        BY <2>4 DEF ConfirmDelete, Doomed
      <3>2. d # None /\ d.kind = "delete"
        <4>1. selected \in Pids \union {None} /\ "delete" \in Kinds /\ "delete" \in Steps
          BY <1>2 DEF IInv, TypeInv, TypeOK, Kinds, Steps
        <4>2. d \in Calls /\ d.kind = "delete"
          BY <1>2, <4>1, RequestFits DEF IInv
        <4> QED
          BY <4>2, NoCallAssumption
      <3>3. ~isDeleting
        BY <1>2, <3>1 DEF IInv, DialogHolds, isDeleting
      <3> HIDE DEF d
      <3> QED
        BY <2>3, <3>1, <3>2, <3>3 DEF isDeleting
    <2>5. CASE Upload
      <3> DEFINE d == Request("upload", "upload", None)
      <3>1. Begin(Clicks, d) /\ ~isUploading
        BY <2>5 DEF Upload
      <3>2. d # None /\ d.kind = "upload"
        <4>1. d \in Calls /\ d.kind = "upload"
          BY <1>2, RequestFits DEF IInv, Kinds, Selecting, Steps
        <4> QED
          BY <4>1, NoCallAssumption
      <3> HIDE DEF d
      <3> QED
        BY <2>3, <3>1, <3>2 DEF isUploading
    <2>6. ASSUME NEW t \in Slots, call[t] # None, call[t].kind = "poll", Ends(t)
          PROVE  \E s \in Slots :
                     /\ call[s] # None /\ call[s].kind = "poll" /\ call'[s] = None
                     /\ call[s].pid = timer \/ "list" \in crossed
      <3>1. call'[t] = None
        BY <2>1, <2>6 DEF Ends
      <3>2. call[t].pid = timer \/ "list" \in crossed
        BY <1>2, <2>6 DEF PollsHold
      <3> QED
        BY <2>6, <3>1, <3>2
    <2>7. ASSUME NEW t \in Slots, call[t] # None, call[t].kind \in Selecting,
                 call[t].step = "jobs", timer' = call[t].pid
          PROVE  FALSE
      <3>1. call[t].pid \in Pids
        BY <1>2, <2>7 DEF IInv, CallsHold, Fits, Selecting
      <3> QED
        BY <1>2, <2>7, <3>1, MonitorAssumption
    <2> QED
      BY <1>2, <2>2, <2>4, <2>5, <2>6, <2>7, TimerStep, MonitorAssumption
  <1>3. IInv /\ PollsHold /\ [Next]_vars =>
          [(timer # None /\ timer' = None) =>
              \/ ~alive'
              \/ ~isDeleting /\ isDeleting'
              \/ ~isUploading /\ isUploading'
              \/ \E s \in Slots :
                    /\ call[s] # None /\ call[s].kind = "poll" /\ call'[s] = None
                    /\ call[s].pid = timer \/ "list" \in crossed]_vars
    BY <1>2
  <1> QED
    BY <1>1, <1>3, Invariant, NextPolls, PTL DEF Spec, PollingStopsForAReason

=============================================================================
