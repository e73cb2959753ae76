-------------------------- MODULE JobLedgerProofs ---------------------------
(***************************************************************************)
(* What follows from the promise the worker keeps, for any number of jobs, *)
(* purchases and verdicts.                                                 *)
(***************************************************************************)
EXTENDS JobLedger, TLAPS

\* A job that was opened is about something.
Told == \A j \in Jobs : phase[j] # "none" => about[j] \in Subjects

LInv == LedgerTypeOK /\ Told /\ LedgerTrue

LEMMA InitInv == LedgerInit => LInv
  BY DEF LedgerInit, LInv, LedgerTypeOK, Told, LedgerTrue, Phases

\* A job that only moves on, and not into success, keeps the invariant unless it
\* owned a row where it was and may own none where it gets to.
LEMMA MovesOn ==
    ASSUME LInv, NEW j \in Jobs, NEW to \in Phases,
           phase[j] # "none", to \notin {"none", "success"},
           to \in {"cleared", "failed", "lost"}
               \/ \A x \in ExpenseIds : ledger[x] # None => ledger[x].job # j,
           phase' = [phase EXCEPT ![j] = to],
           UNCHANGED <<about, ledger>>
    PROVE  LInv'
  <1>1. LedgerTypeOK' /\ Told'
    BY DEF LInv, LedgerTypeOK, Told
  <1>2. ASSUME NEW x \in ExpenseIds, ledger[x] # None
        PROVE  /\ phase'[ledger[x].job] \in {"cleared", "success", "failed", "lost"}
               /\ about'[ledger[x].job] = [id |-> x, fp |-> ledger[x].fp]
    <2>1. ledger[x].job \in Jobs
      BY <1>2 DEF LInv, LedgerTypeOK, Rows
    <2>2. CASE ledger[x].job = j
      BY <1>2, <2>2 DEF LInv, LedgerTypeOK, LedgerTrue
    <2>3. CASE ledger[x].job # j
      BY <1>2, <2>1, <2>3 DEF LInv, LedgerTypeOK, LedgerTrue
    <2> QED
      BY <2>2, <2>3
  <1>3. ASSUME NEW i \in Jobs, phase'[i] = "success" PROVE ledger[about[i].id] # None
    BY <1>3 DEF LInv, LedgerTypeOK, LedgerTrue
  <1>4. LedgerTrue'
    BY <1>2, <1>3 DEF LedgerTrue
  <1> QED
    BY <1>1, <1>4 DEF LInv

LEMMA OpenKeeps == ASSUME LInv, NEW j \in Jobs, Open(j) PROVE LInv'
  <1>1. PICK to \in {"open", "lost"} :
            phase[j] = "none" /\ phase' = [phase EXCEPT ![j] = to]
    BY DEF Open, Enter
  <1>2. PICK s \in Subjects : about' = [about EXCEPT ![j] = s]
    BY DEF Open
  <1>3. UNCHANGED ledger
    BY DEF Open
  <1>4. LedgerTypeOK' /\ Told'
    BY <1>1, <1>2, <1>3 DEF LInv, LedgerTypeOK, Told, Phases
  <1>5. ASSUME NEW x \in ExpenseIds, ledger[x] # None
        PROVE  /\ phase'[ledger[x].job] \in {"cleared", "success", "failed", "lost"}
               /\ about'[ledger[x].job] = [id |-> x, fp |-> ledger[x].fp]
    <2>1. ledger[x].job \in Jobs /\ ledger[x].job # j
      BY <1>1, <1>5 DEF LInv, LedgerTypeOK, LedgerTrue, Rows
    <2> QED
      BY <1>1, <1>2, <1>5, <2>1 DEF LInv, LedgerTypeOK, LedgerTrue
  <1>6. ASSUME NEW i \in Jobs, phase'[i] = "success" PROVE ledger[about'[i].id] # None
    BY <1>1, <1>2, <1>6 DEF LInv, LedgerTypeOK, LedgerTrue
  <1>7. LedgerTrue'
    BY <1>3, <1>5, <1>6 DEF LedgerTrue
  <1> QED
    BY <1>4, <1>7 DEF LInv

LEMMA WriteKeeps ==
    ASSUME None \notin Rows, LInv, NEW j \in Jobs, Write(j)
    PROVE  LInv'
  <1>1. /\ phase[j] = "cleared" /\ about[j] \in Subjects
        /\ about[j].id \in ExpenseIds /\ about[j].fp \in Fingerprints
        /\ UNCHANGED <<phase, about>>
    BY DEF Write, LInv, Told, Subjects
  <1>2. PICK r \in Rows : /\ r.job = j /\ r.fp = about[j].fp
                          /\ ledger' = [ledger EXCEPT ![about[j].id] = r]
    BY <1>1 DEF Write, Rows
  <1>3. LedgerTypeOK' /\ Told'
    BY <1>1, <1>2 DEF LInv, LedgerTypeOK, Told
  <1>4. ASSUME NEW x \in ExpenseIds, ledger'[x] # None
        PROVE  /\ phase[ledger'[x].job] \in {"cleared", "success", "failed", "lost"}
               /\ about[ledger'[x].job] = [id |-> x, fp |-> ledger'[x].fp]
    <2>1. CASE x = about[j].id
      <3>1. ledger'[x] = r
        BY <1>2, <2>1 DEF LInv, LedgerTypeOK
      <3>2. about[j] = [id |-> about[j].id, fp |-> about[j].fp]
        BY <1>1 DEF Subjects
      <3> QED
        BY <1>1, <1>2, <2>1, <3>1, <3>2
    <2>2. CASE x # about[j].id
      BY <1>2, <1>4, <2>2 DEF LInv, LedgerTypeOK, LedgerTrue
    <2> QED
      BY <2>1, <2>2
  <1>5. ASSUME NEW i \in Jobs, phase[i] = "success" PROVE ledger'[about[i].id] # None
    <2>1. about[i].id \in ExpenseIds /\ ledger[about[i].id] # None
      BY <1>5 DEF LInv, LedgerTrue, Told, Subjects
    <2> QED
      BY <1>2, <2>1 DEF LInv, LedgerTypeOK
  <1>6. LedgerTrue'
    BY <1>1, <1>4, <1>5 DEF LedgerTrue
  <1> QED
    BY <1>3, <1>6 DEF LInv

LEMMA SucceedKeeps == ASSUME LInv, NEW j \in Jobs, Succeed(j) PROVE LInv'
  <1>1. /\ phase[j] = "cleared" /\ phase' = [phase EXCEPT ![j] = "success"]
        /\ ledger[about[j].id] # None /\ UNCHANGED <<about, ledger>>
    BY DEF Succeed, Enter
  <1>2. LedgerTypeOK' /\ Told'
    BY <1>1 DEF LInv, LedgerTypeOK, Told, Phases
  <1>3. LedgerTrue'
    BY <1>1 DEF LInv, LedgerTypeOK, LedgerTrue, Rows
  <1> QED
    BY <1>2, <1>3 DEF LInv

LEMMA AbandonKeeps == ASSUME LInv, NEW js \in SUBSET Jobs, Abandon(js) PROVE LInv'
  <1>1. /\ \A j \in js : phase[j] \in Live
        /\ phase' = [j \in Jobs |-> IF j \in js THEN "lost" ELSE phase[j]]
        /\ UNCHANGED <<about, ledger>>
    BY DEF Abandon
  <1>2. LedgerTypeOK' /\ Told'
    BY <1>1 DEF LInv, LedgerTypeOK, Told, Phases, Live
  <1>3. LedgerTrue'
    BY <1>1 DEF LInv, LedgerTypeOK, LedgerTrue, Rows
  <1> QED
    BY <1>2, <1>3 DEF LInv

LEMMA NextInv ==
    ASSUME None \notin Rows, LInv, [LedgerNext]_ledgerVars
    PROVE  LInv'
  <1>1. CASE UNCHANGED ledgerVars
    BY <1>1 DEF ledgerVars, LInv, LedgerTypeOK, Told, LedgerTrue
  <1>2. ASSUME NEW j \in Jobs, Clear(j) PROVE LInv'
    BY <1>2, MovesOn DEF Clear, Enter, Phases
  <1>3. ASSUME NEW j \in Jobs, Skip(j) PROVE LInv'
    BY <1>3, MovesOn DEF Skip, Enter, Phases, Live
  <1>4. ASSUME NEW j \in Jobs, Fail(j) PROVE LInv'
    BY <1>4, MovesOn DEF Fail, Enter, Phases
  <1> QED
    BY <1>1, <1>2, <1>3, <1>4, OpenKeeps, WriteKeeps, SucceedKeeps, AbandonKeeps
    DEF LedgerNext

\* Of whatever keeps the promise of JobLedger, as processExpense does: every row of
\* expenses was written by a job that passed the duplicate check and was not
\* skipped, for the purchase that job was about, and a job that succeeded has its
\* expense in the ledger.
THEOREM LedgerIsAlwaysTrue ==
    ASSUME None \notin Rows
    PROVE  LedgerSpec => []LedgerTrue
  <1>1. LInv /\ [LedgerNext]_ledgerVars => LInv'
    BY NextInv
  <1>2. LInv => LedgerTrue
    BY DEF LInv
  <1> QED
    BY InitInv, <1>1, <1>2, PTL DEF LedgerSpec

\* A job ends once: nothing changes a job that failed or was abandoned, and only a
\* success or a skip whose confirmation was lost turns into failed, as the catch
\* block of processExpense does.
EndsOnce ==
    [][\A j \in Jobs :
          /\ phase[j] \in {"failed", "lost"} => phase'[j] = phase[j]
          /\ phase[j] \in {"success", "skipped"}
                => phase'[j] \in {phase[j], "failed"}]_ledgerVars

\* Of whatever keeps the promise of JobLedger: a job that has ended stays ended.
THEOREM JobsEndOnce == LedgerSpec => EndsOnce
  <1>1. ASSUME phase \in [Jobs -> Phases], NEW j \in Jobs, LedgerNext
        PROVE  /\ phase[j] \in {"failed", "lost"} => phase'[j] = phase[j]
               /\ phase[j] \in {"success", "skipped"}
                     => phase'[j] \in {phase[j], "failed"}
    <2>1. ASSUME NEW i \in Jobs,
                 Open(i) \/ Clear(i) \/ Write(i) \/ Succeed(i) \/ Skip(i)
          PROVE  phase[j] \notin Live \union {"none"} => phase'[j] = phase[j]
      BY <1>1, <2>1 DEF Open, Clear, Write, Succeed, Skip, Enter, Live
    <2>2. ASSUME NEW i \in Jobs, Fail(i)
          PROVE  /\ phase[j] \in {"failed", "lost"} => phase'[j] = phase[j]
                 /\ phase'[j] \in {phase[j], "failed"}
      BY <1>1, <2>2 DEF Fail, Enter
    <2>3. ASSUME NEW js \in SUBSET Jobs, Abandon(js)
          PROVE  phase[j] \notin Live => phase'[j] = phase[j]
      BY <1>1, <2>3 DEF Abandon, Live
    <2> QED
      BY <1>1, <2>1, <2>2, <2>3 DEF LedgerNext, Live
  <1>2. LedgerInit => phase \in [Jobs -> Phases]
    BY DEF LedgerInit, Phases
  <1>3. ASSUME phase \in [Jobs -> Phases], [LedgerNext]_ledgerVars
        PROVE  (phase \in [Jobs -> Phases])'
    <2>1. ASSUME NEW i \in Jobs, Open(i) PROVE (phase \in [Jobs -> Phases])'
      BY <1>3, <2>1 DEF Open, Enter, Phases
    <2>2. ASSUME NEW i \in Jobs, Clear(i) \/ Write(i) \/ Succeed(i)
          PROVE  (phase \in [Jobs -> Phases])'
      BY <1>3, <2>2 DEF Clear, Write, Succeed, Enter, Phases
    <2>3. ASSUME NEW i \in Jobs, Skip(i) \/ Fail(i)
          PROVE  (phase \in [Jobs -> Phases])'
      BY <1>3, <2>3 DEF Skip, Fail, Enter, Phases
    <2>4. ASSUME NEW js \in SUBSET Jobs, Abandon(js)
          PROVE  (phase \in [Jobs -> Phases])'
      BY <1>3, <2>4 DEF Abandon, Phases
    <2> QED
      BY <1>3, <2>1, <2>2, <2>3, <2>4 DEF LedgerNext, ledgerVars
  <1>4. phase \in [Jobs -> Phases] /\ [LedgerNext]_ledgerVars =>
          [\A j \in Jobs :
              /\ phase[j] \in {"failed", "lost"} => phase'[j] = phase[j]
              /\ phase[j] \in {"success", "skipped"}
                    => phase'[j] \in {phase[j], "failed"}]_ledgerVars
    BY <1>1
  <1> QED
    BY <1>2, <1>3, <1>4, PTL DEF LedgerSpec, EndsOnce
=============================================================================
