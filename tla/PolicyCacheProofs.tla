------------------------- MODULE PolicyCacheProofs --------------------------
(***************************************************************************)
(* Theorems about the policy caches, for any number of look-ups, saved     *)
(* policies and ticks, and any TTL the deployment sets.                    *)
(***************************************************************************)
EXTENDS PolicyCache, TLAPS

TypeInv ==
    /\ TypeOK
    /\ \A c \in Clients : /\ cache[c].version # None => cache[c].version <= Current
                         /\ cache[c].stamp <= clock
    /\ \A l \in Lookups : got[l] <= Current /\ asked[l] <= clock
    /\ \A v \in 1 .. Current : savedAt[v] <= clock
    /\ printed # None => printed.version = printed.saves /\ printed.saves <= Current

\* What replaced the version of an entry was saved when the entry's look-up had
\* begun, and so was what replaced the version a look-up has got and not kept yet.
StampsHold ==
    /\ \A c \in Clients :
          (cache[c].version # None /\ cache[c].version < Current)
              => savedAt[cache[c].version + 1] >= cache[c].stamp
    /\ \A l \in Lookups :
          (at[l] = "fill" /\ got[l] < Current) => savedAt[got[l] + 1] >= asked[l]

IInv == TypeInv /\ StampsHold /\ (TTL > 0 => PolicyIsRecent)

-----------------------------------------------------------------------------
LEMMA InitTypes == Init => TypeInv
  <1> SUFFICES ASSUME Init PROVE TypeInv
    OBVIOUS
  <1>1. Current = 0
    BY DEF Init, Current
  <1>2. Clients = DOMAIN cache /\ \A c \in Clients : cache[c] = [version |-> None, stamp |-> 0]
    BY DEF Init
  <1> QED
    BY <1>1, <1>2, PolicyAssumption DEF Init, TypeInv, TypeOK, Times, Versions, Envs, Open, Given

LEMMA InitInv == Init => IInv
  <1> SUFFICES ASSUME Init PROVE IInv
    OBVIOUS
  <1>1. TypeInv
    BY InitTypes
  <1>2. Current = 0 /\ \A c \in Clients : cache[c].version = None
    BY DEF Init, Current
  <1>3. \A l \in Lookups : at[l] = "ask"
    BY DEF Init
  <1> QED
    BY <1>1, <1>2, <1>3 DEF IInv, StampsHold, PolicyIsRecent, Given

-----------------------------------------------------------------------------
(* Each action keeps the invariant.                                         *)

LEMMA TickKeeps == IInv /\ Tick => IInv'
  <1> SUFFICES ASSUME IInv, Tick PROVE IInv'
    OBVIOUS
  <1> USE DEF IInv, Tick, history, Current
  <1>1. TypeInv'
    BY PolicyAssumption DEF TypeInv, TypeOK, Times
  <1>2. StampsHold'
    BY DEF StampsHold
  <1>3. (TTL > 0 => PolicyIsRecent)'
    BY DEF PolicyIsRecent
  <1> QED
    BY <1>1, <1>2, <1>3

\* A policy saved now is no older than any look-up or stamp.
LEMMA SaveKeeps == IInv /\ Save => IInv'
  <1> SUFFICES ASSUME IInv, Save PROVE IInv'
    OBVIOUS
  <1> USE DEF IInv
  <1>0. UNCHANGED <<clock, env, cache, at, asked, got, printed, newest, seen, late>>
    BY DEF Save, history
  <1>1. /\ savedAt \in Seq(Times) /\ clock \in Times /\ Current \in Nat
        /\ Current' = Current + 1 /\ Current + 1 <= MaxSaves
        /\ savedAt' \in Seq(Times)
        /\ savedAt'[Current + 1] = clock
        /\ \A v \in 1 .. Current : savedAt'[v] = savedAt[v] /\ savedAt[v] \in Nat
    BY PolicyAssumption DEF Save, TypeInv, TypeOK, Current, Times
  <1>2. TypeInv'
    <2>1. TypeOK'
      BY <1>0, <1>1 DEF TypeInv, TypeOK, Current
    <2>2. ASSUME NEW v \in 1 .. Current' PROVE savedAt'[v] <= clock'
      <3>1. v \in 1 .. Current \/ v = Current + 1
        BY <1>1
      <3>2. clock' = clock /\ clock \in Nat
        BY <1>0, <1>1 DEF Times
      <3>3. CASE v \in 1 .. Current
        BY <1>1, <3>2, <3>3 DEF TypeInv
      <3>4. CASE v = Current + 1
        BY <1>1, <3>2, <3>4
      <3> QED
        BY <3>1, <3>3, <3>4
    <2>3. ASSUME NEW c \in Clients
          PROVE  /\ cache'[c].version # None => cache'[c].version <= Current'
                 /\ cache'[c].stamp <= clock'
      <3>1. cache[c].version # None => cache[c].version \in Nat /\ cache[c].version <= Current
        BY DEF TypeInv, TypeOK, Versions
      <3> QED
        BY <1>0, <1>1, <3>1 DEF TypeInv
    <2>4. ASSUME NEW l \in Lookups PROVE got'[l] <= Current' /\ asked'[l] <= clock'
      <3>1. got[l] \in Nat /\ got[l] <= Current /\ asked[l] <= clock
        BY DEF TypeInv, TypeOK, Versions
      <3> QED
        BY <1>0, <1>1, <3>1
    <2>5. ASSUME printed # None
          PROVE  printed.version = printed.saves /\ printed.saves <= Current'
      <3>1. printed.saves \in Nat /\ printed.saves <= Current
        BY <2>5 DEF TypeInv, TypeOK, Versions
      <3> QED
        BY <1>1, <2>5, <3>1 DEF TypeInv
    <2>6. printed' = printed /\ clock' = clock
      BY <1>0
    <2> QED
      BY <2>1, <2>2, <2>3, <2>4, <2>5, <2>6 DEF TypeInv
  <1>3. StampsHold'
    <2>1. ASSUME NEW c \in Clients, cache[c].version # None, cache[c].version < Current + 1
          PROVE  savedAt'[cache[c].version + 1] >= cache[c].stamp
      <3>1. cache[c].version \in Nat /\ cache[c].stamp \in Nat /\ cache[c].stamp <= clock
        BY <2>1 DEF TypeInv, TypeOK, Versions, Times
      <3>2. cache[c].version = Current \/ cache[c].version + 1 \in 1 .. Current
        BY <1>1, <2>1, <3>1
      <3>3. CASE cache[c].version = Current
        BY <1>1, <3>1, <3>3
      <3>4. CASE cache[c].version + 1 \in 1 .. Current
        <4>1. savedAt[cache[c].version + 1] >= cache[c].stamp
          BY <1>1, <2>1, <3>1, <3>4 DEF StampsHold
        <4> QED
          BY <1>1, <3>4, <4>1
      <3> QED
        BY <3>2, <3>3, <3>4
    <2>2. ASSUME NEW l \in Lookups, at[l] = "fill", got[l] < Current + 1
          PROVE  savedAt'[got[l] + 1] >= asked[l]
      <3>1. got[l] \in Nat /\ asked[l] \in Nat /\ asked[l] <= clock
        BY DEF TypeInv, TypeOK, Versions, Times
      <3>2. got[l] = Current \/ got[l] + 1 \in 1 .. Current
        BY <1>1, <2>2, <3>1
      <3>3. CASE got[l] = Current
        BY <1>1, <3>1, <3>3
      <3>4. CASE got[l] + 1 \in 1 .. Current
        <4>1. savedAt[got[l] + 1] >= asked[l]
          BY <1>1, <2>2, <3>1, <3>4 DEF StampsHold
        <4> QED
          BY <1>1, <3>4, <4>1
      <3> QED
        BY <3>2, <3>3, <3>4
    <2> QED
      BY <1>0, <1>1, <2>1, <2>2 DEF StampsHold
  <1>4. (TTL > 0 => PolicyIsRecent)'
    <2> SUFFICES ASSUME TTL > 0, NEW l \in Lookups, at[l] \in Given, got[l] < Current + 1
                 PROVE  savedAt'[got[l] + 1] > asked[l] - TTL
      BY <1>0, <1>1 DEF PolicyIsRecent
    <2>1. got[l] \in Nat /\ asked[l] \in Nat /\ asked[l] <= clock /\ clock \in Nat
      BY DEF TypeInv, TypeOK, Versions, Times
    <2>2. got[l] = Current \/ got[l] + 1 \in 1 .. Current
      BY <1>1, <2>1
    <2>3. CASE got[l] = Current
      BY <1>1, <2>1, <2>3, PolicyAssumption
    <2>4. CASE got[l] + 1 \in 1 .. Current
      <3>1. savedAt[got[l] + 1] > asked[l] - TTL
        BY <1>1, <2>1, <2>4 DEF PolicyIsRecent
      <3> QED
        BY <1>1, <2>4, <3>1
    <2> QED
      BY <2>2, <2>3, <2>4
  <1> QED
    BY <1>2, <1>3, <1>4

LEMMA SavedTimes ==
    ASSUME TypeOK
    PROVE  Current \in Nat /\ \A v \in 1 .. Current : savedAt[v] \in Nat
  <1>1. savedAt \in Seq(Times)
    BY DEF TypeOK
  <1>2. Len(savedAt) \in Nat /\ \A v \in 1 .. Len(savedAt) : savedAt[v] \in Times
    BY <1>1
  <1>3. Times \subseteq Nat
    BY DEF Times
  <1> QED
    BY <1>2, <1>3 DEF Current

LEMMA HitKeeps == ASSUME IInv, NEW l \in Lookups, Hit(l) PROVE IInv'
  <1> USE DEF IInv
  <1>0. UNCHANGED <<clock, env, savedAt, cache, printed, late>>
    BY DEF Hit
  <1>1. /\ Client[l] \in Clients
        /\ cache[Client[l]].version \in Versions /\ cache[Client[l]].version # None
        /\ cache[Client[l]].version <= Current
        /\ clock - cache[Client[l]].stamp < TTL
        /\ cache[Client[l]].stamp \in Nat /\ clock \in Nat /\ Current \in Nat
    <2>1. Client[l] \in Clients
      BY PolicyAssumption
    <2>2. cache[Client[l]] \in [version : Versions \union {None}, stamp : Times]
      BY <2>1 DEF TypeInv, TypeOK
    <2>3. cache[Client[l]].version # None /\ clock - cache[Client[l]].stamp < TTL
      BY DEF Hit, Fresh
    <2>4. cache[Client[l]].version <= Current
      BY <2>1, <2>3 DEF TypeInv
    <2>5. Current \in Nat /\ clock \in Times
      BY DEF TypeInv, TypeOK, Current
    <2> QED
      BY <2>1, <2>2, <2>3, <2>4, <2>5 DEF Times
  <1>2. /\ at' = [at EXCEPT ![l] = "given"]
        /\ asked' = [asked EXCEPT ![l] = clock]
        /\ got' = [got EXCEPT ![l] = cache[Client[l]].version]
        /\ newest' \in [Clients -> Versions]
        /\ seen' \in [Lookups -> Versions]
    <2>1. newest \in [Clients -> Versions] /\ seen \in [Lookups -> Versions] /\ 0 \in Versions
      BY PolicyAssumption DEF TypeInv, TypeOK, Versions
    <2> QED
      BY <1>1, <2>1 DEF Hit, HandOver
  <1>3. TypeInv'
    <2>1. /\ at' \in [Lookups -> {"ask", "failed"} \union Open \union Given]
          /\ asked' \in [Lookups -> Times]
          /\ got' \in [Lookups -> Versions]
      BY <1>1, <1>2 DEF TypeInv, TypeOK, Given, Times
    <2>2. TypeOK'
      BY <1>0, <1>2, <2>1 DEF TypeInv, TypeOK
    <2>3. ASSUME NEW h \in Lookups PROVE got'[h] <= Current /\ asked'[h] <= clock
      BY <1>1, <1>2, <2>3 DEF TypeInv, TypeOK
    <2> QED
      BY <1>0, <2>2, <2>3 DEF TypeInv, Current
  <1>4. StampsHold'
    BY <1>0, <1>2 DEF StampsHold, Current, TypeInv, TypeOK
  <1>5. (TTL > 0 => PolicyIsRecent)'
    <2> SUFFICES ASSUME TTL > 0, NEW h \in Lookups, at'[h] \in Given, got'[h] < Current
                 PROVE  savedAt[got'[h] + 1] > asked'[h] - TTL
      BY <1>0 DEF PolicyIsRecent, Current
    <2>1. CASE h = l
      <3>1. got'[h] = cache[Client[l]].version /\ asked'[h] = clock
        BY <1>2, <2>1 DEF TypeInv, TypeOK
      <3>2. savedAt[got'[h] + 1] >= cache[Client[l]].stamp
        BY <1>1, <3>1 DEF StampsHold
      <3>3. got'[h] + 1 \in 1 .. Current
        BY <1>1, <3>1 DEF Versions
      <3>4. savedAt[got'[h] + 1] \in Nat
        BY <3>3, SavedTimes DEF TypeInv
      <3> QED
        BY <1>1, <3>1, <3>2, <3>4, PolicyAssumption
    <2>2. CASE h # l
      BY <1>2, <2>2 DEF PolicyIsRecent, TypeInv, TypeOK
    <2> QED
      BY <2>1, <2>2
  <1> QED
    BY <1>3, <1>4, <1>5

LEMMA MissKeeps == ASSUME IInv, NEW l \in Lookups, Miss(l) PROVE IInv'
  <1> USE DEF IInv
  <1>0. UNCHANGED <<clock, env, savedAt, cache, got, printed, newest, late>>
    BY DEF Miss
  <1>1. /\ at' = [at EXCEPT ![l] = "query"]
        /\ asked' = [asked EXCEPT ![l] = clock]
        /\ seen' \in [Lookups -> Versions]
    BY PolicyAssumption DEF Miss, TypeInv, TypeOK
  <1>2. TypeInv'
    BY <1>0, <1>1 DEF TypeInv, TypeOK, Current, Open, Times
  <1>3. StampsHold'
    BY <1>0, <1>1 DEF StampsHold, Current, TypeInv, TypeOK
  <1>4. (TTL > 0 => PolicyIsRecent)'
    BY <1>0, <1>1 DEF PolicyIsRecent, Current, TypeInv, TypeOK, Given
  <1> QED
    BY <1>2, <1>3, <1>4

\* What the database answers with is in force after the look-up began.
LEMMA QueryKeeps == ASSUME IInv, NEW l \in Lookups, getCurrent(l) PROVE IInv'
  <1> USE DEF IInv
  <1>0. UNCHANGED <<clock, env, savedAt, cache, asked, printed, newest, seen, late>>
    BY DEF getCurrent, history
  <1>1. /\ at' = [at EXCEPT ![l] = "fill"]
        /\ got' = [got EXCEPT ![l] = Current]
        /\ Current \in Versions
    BY PolicyAssumption DEF getCurrent, TypeInv, TypeOK, Versions, Current
  <1>2. TypeInv'
    BY <1>0, <1>1 DEF TypeInv, TypeOK, Current, Open, Versions
  <1>3. StampsHold'
    BY <1>0, <1>1 DEF StampsHold, Current, TypeInv, TypeOK, Versions
  <1>4. (TTL > 0 => PolicyIsRecent)'
    BY <1>0, <1>1 DEF PolicyIsRecent, Current, TypeInv, TypeOK, Given
  <1> QED
    BY <1>2, <1>3, <1>4

LEMMA FillKeeps == ASSUME IInv, NEW l \in Lookups, Fill(l) PROVE IInv'
  <1> USE DEF IInv
  <1> DEFINE c == Client[l]
  <1>0. UNCHANGED <<clock, env, savedAt, asked, got, printed>>
    BY DEF Fill
  <1>1. /\ c \in Clients /\ at[l] = "fill"
        /\ got[l] \in Versions /\ got[l] <= Current
        /\ asked[l] \in Times /\ asked[l] <= clock
    BY PolicyAssumption DEF Fill, TypeInv, TypeOK
  <1>2. PICK v \in {None, got[l]} : cache' = [cache EXCEPT ![c] = [version |-> v, stamp |-> asked[l]]]
    BY DEF Fill, Entry, Kept
  <1>3. /\ at' = [at EXCEPT ![l] = "given"]
        /\ newest' \in [Clients -> Versions]
        /\ seen' \in [Lookups -> Versions]
        /\ late' \subseteq Clients
    <2>1. /\ newest \in [Clients -> Versions] /\ seen \in [Lookups -> Versions]
          /\ 0 \in Versions /\ late \subseteq Clients
      BY PolicyAssumption DEF TypeInv, TypeOK, Versions
    <2> QED
      BY <1>1, <2>1, PolicyAssumption DEF Fill, HandOver
  <1>4. TypeInv'
    <2>1. cache' \in [Clients -> [version : Versions \union {None}, stamp : Times]]
      BY <1>1, <1>2 DEF TypeInv, TypeOK
    <2>2. ASSUME NEW b \in Clients
          PROVE  /\ cache'[b].version # None => cache'[b].version <= Current
                 /\ cache'[b].stamp <= clock
      BY <1>1, <1>2, <2>2 DEF TypeInv, TypeOK
    <2> QED
      BY <1>0, <1>3, <2>1, <2>2 DEF TypeInv, TypeOK, Current, Given
  <1>5. StampsHold'
    <2>1. ASSUME NEW b \in Clients, cache'[b].version # None, cache'[b].version < Current
          PROVE  savedAt[cache'[b].version + 1] >= cache'[b].stamp
      <3>1. CASE b = c
        BY <1>1, <1>2, <2>1, <3>1 DEF StampsHold, TypeInv, TypeOK
      <3>2. CASE b # c
        BY <1>1, <1>2, <2>1, <3>2 DEF StampsHold, TypeInv, TypeOK
      <3> QED
        BY <3>1, <3>2
    <2>2. ASSUME NEW h \in Lookups, at'[h] = "fill", got[h] < Current
          PROVE  savedAt[got[h] + 1] >= asked[h]
      BY <1>3, <2>2 DEF StampsHold, TypeInv, TypeOK
    <2> QED
      BY <1>0, <2>1, <2>2 DEF StampsHold, Current
  <1>6. (TTL > 0 => PolicyIsRecent)'
    <2> SUFFICES ASSUME TTL > 0, NEW h \in Lookups, at'[h] \in Given, got[h] < Current
                 PROVE  savedAt[got[h] + 1] > asked[h] - TTL
      BY <1>0 DEF PolicyIsRecent, Current
    <2>1. CASE h = l
      <3>1. savedAt[got[l] + 1] >= asked[l]
        BY <1>1, <2>1 DEF StampsHold
      <3>2. got[l] + 1 \in 1 .. Current
        BY <1>1, <2>1, SavedTimes DEF Versions, TypeInv
      <3> QED
        BY <1>1, <2>1, <3>1, <3>2, SavedTimes, PolicyAssumption DEF TypeInv, Times
    <2>2. CASE h # l
      BY <1>3, <2>2 DEF PolicyIsRecent, TypeInv, TypeOK
    <2> QED
      BY <2>1, <2>2
  <1> QED
    BY <1>4, <1>5, <1>6

LEMMA FailKeeps == ASSUME IInv, NEW l \in Lookups, Fail(l) PROVE IInv'
  <1> USE DEF IInv
  <1>0. UNCHANGED <<clock, env, savedAt, cache, printed, newest, late>>
    BY DEF Fail
  <1>1. 0 \in Versions /\ 0 \in Times /\ Current \in Nat /\ clock \in Nat
    BY PolicyAssumption DEF TypeInv, TypeOK, Versions, Times, Current
  <1>2. /\ at' = [at EXCEPT ![l] = "failed"]
        /\ asked' = [asked EXCEPT ![l] = 0]
        /\ got' = [got EXCEPT ![l] = 0]
        /\ seen' = [seen EXCEPT ![l] = 0]
    BY DEF Fail
  <1>3. TypeInv'
    BY <1>0, <1>1, <1>2 DEF TypeInv, TypeOK, Current
  <1>4. StampsHold'
    BY <1>0, <1>2 DEF StampsHold, Current, TypeInv, TypeOK
  <1>5. (TTL > 0 => PolicyIsRecent)'
    BY <1>0, <1>2 DEF PolicyIsRecent, Current, TypeInv, TypeOK, Given
  <1> QED
    BY <1>3, <1>4, <1>5

LEMMA StoreKeeps == ASSUME IInv, NEW l \in Lookups, Store(l) PROVE IInv'
  <1> USE DEF IInv
  <1>0. UNCHANGED <<clock, env, savedAt, cache, asked, got, printed, newest, seen, late>>
    BY DEF Store, history
  <1>1. at' = [at EXCEPT ![l] = "stored"] /\ at[l] \in Given
    BY DEF Store, Given
  <1>2. TypeInv'
    BY <1>0, <1>1 DEF TypeInv, TypeOK, Current, Given
  <1>3. StampsHold'
    BY <1>0, <1>1 DEF StampsHold, Current, TypeInv, TypeOK
  <1>4. (TTL > 0 => PolicyIsRecent)'
    BY <1>0, <1>1 DEF PolicyIsRecent, Current, TypeInv, TypeOK
  <1> QED
    BY <1>2, <1>3, <1>4

LEMMA PrintKeeps == ASSUME IInv, PrintPolicy \/ PrintRows PROVE IInv'
  <1> USE DEF IInv
  <1>0. UNCHANGED <<clock, env, savedAt, cache, at, asked, got, newest, seen, late>>
    BY DEF PrintPolicy, PrintRows, history
  <1>1. printed' \in {None, [version |-> Current, saves |-> Current]}
    BY DEF PrintPolicy, PrintRows, resolveCurrentPolicy
  <1>2. Current \in Versions
    BY PolicyAssumption DEF TypeInv, TypeOK, Current, Versions
  <1>3. TypeOK'
    BY <1>0, <1>1, <1>2 DEF TypeInv, TypeOK
  <1>4. (printed # None => printed.version = printed.saves /\ printed.saves <= Current)'
    BY <1>0, <1>1, <1>2 DEF Current, Versions
  <1>5. TypeInv'
    BY <1>0, <1>3, <1>4 DEF TypeInv, Current
  <1>6. StampsHold'
    BY <1>0 DEF StampsHold, Current
  <1>7. (TTL > 0 => PolicyIsRecent)'
    BY <1>0 DEF PolicyIsRecent, Current
  <1> QED
    BY <1>5, <1>6, <1>7

LEMMA NextInv == IInv /\ [Next]_vars => IInv'
  <1> SUFFICES ASSUME IInv, [Next]_vars PROVE IInv'
    OBVIOUS
  <1>1. CASE UNCHANGED vars
    BY <1>1 DEF vars, history, IInv, TypeInv, TypeOK, StampsHold, PolicyIsRecent, Current
  <1>2. ASSUME NEW l \in Lookups,
               Hit(l) \/ Miss(l) \/ getCurrent(l) \/ Fill(l) \/ Fail(l) \/ Store(l)
        PROVE  IInv'
    BY <1>2, HitKeeps, MissKeeps, QueryKeeps, FillKeeps, FailKeeps, StoreKeeps
  <1> QED
    BY <1>1, <1>2, TickKeeps, SaveKeeps, PrintKeeps DEF Next

LEMMA Invariant == Spec => []IInv
  BY InitInv, NextInv, PTL DEF Spec

-----------------------------------------------------------------------------
(* The theorems.                                                            *)

\* Whatever the interleaving of look-ups, saves and reports, every variable
\* stays in its type: the caches of the two policy clients hold saved versions.
THEOREM TypesHold == Spec => []TypeOK
  <1>1. IInv => TypeOK
    BY DEF IInv, TypeInv
  <1> QED
    BY <1>1, Invariant, PTL

\* getMonedaBase and getDefaultPolicies hand over a policy that was in force less
\* than a TTL before they were called, for any number of concurrent records,
\* because an entry is stamped with the time before its query.  With a TTL of
\* zero nothing is "less than a TTL" ago, hence the assumption.
THEOREM PolicyIsAlwaysRecent ==
    ASSUME TTL > 0
    PROVE  Spec => []PolicyIsRecent
  <1>1. IInv => PolicyIsRecent
    BY DEF IInv
  <1> QED
    BY <1>1, Invariant, PTL

LEMMA ReportStep ==
    ASSUME TTL > 0, IInv, Next, printed # None, printed' = None,
           NEW l \in Lookups, at[l] = "stored", got[l] # printed.version
    PROVE  \E v \in 1 .. Current :
               savedAt[v] > asked[l] - TTL \/ v > printed.saves
  <1>1. /\ got[l] \in Nat /\ got[l] <= Current /\ Current \in Nat
        /\ printed.saves \in Nat /\ printed.version = printed.saves
        /\ printed.saves <= Current
    BY DEF IInv, TypeInv, TypeOK, Versions, Current
  <1>2. CASE got[l] < Current
    <2>1. savedAt[got[l] + 1] > asked[l] - TTL
      BY <1>2 DEF IInv, PolicyIsRecent, Given
    <2>2. got[l] + 1 \in 1 .. Current
      BY <1>1, <1>2
    <2> QED
      BY <2>1, <2>2
  <1>3. CASE got[l] = Current
    <2>1. Current \in 1 .. Current /\ Current > printed.saves
      BY <1>1, <1>3
    <2> QED
      BY <2>1
  <1> QED
    BY <1>1, <1>2, <1>3

\* GET /processes/:processId/report.pdf prints as "Policy aplicada" the policy its
\* rows were judged by, unless another was saved later than a TTL before the look-up
\* of a row, or between the two reads of the report.
THEOREM ReportAlwaysShowsApplied ==
    ASSUME TTL > 0
    PROVE  Spec => ReportShowsApplied
  <1>1. ASSUME IInv, [Next]_vars, printed # None, printed' = None,
               NEW l \in Lookups, at[l] = "stored", got[l] # printed.version
        PROVE  \E v \in 1 .. Current :
                   savedAt[v] > asked[l] - TTL \/ v > printed.saves
    <2>1. Next
      BY <1>1 DEF vars
    <2> QED
      BY <1>1, <2>1, ReportStep
  <1>2. IInv /\ [Next]_vars =>
          [(printed # None /\ printed' = None) =>
              \A l \in Lookups : (at[l] = "stored" /\ got[l] # printed.version) =>
                  \E v \in 1 .. Current :
                      savedAt[v] > asked[l] - TTL \/ v > printed.saves]_vars
    BY <1>1
  <1> QED
    BY <1>2, Invariant, PTL DEF Spec, ReportShowsApplied

-----------------------------------------------------------------------------
(* When a look-up is handed an older version than one before it.            *)

\* Until two look-ups of a client have overlapped, its entry and every answer on
\* the way to it are as new as all it has handed over, and while a look-up is open
\* its entry is stale: none is answered from the entry beside it.
Overlapped ==
    /\ \A c \in Clients : newest[c] <= Current
    /\ \A l \in Lookups : at[l] \in Open => seen[l] <= newest[Client[l]]
    /\ \A c \in Clients \ late :
          /\ cache[c].version # None => newest[c] <= cache[c].version
          /\ \A l \in Lookups : (Client[l] = c /\ at[l] \in Open) =>
                /\ ~Fresh(c)
                /\ at[l] = "fill" => newest[c] <= got[l]

LEMMA InitOverlapped == Init => Overlapped
  <1> SUFFICES ASSUME Init PROVE Overlapped
    OBVIOUS
  <1>1. Current = 0 /\ \A l \in Lookups : at[l] = "ask"
    BY DEF Init, Current
  <1>2. \A c \in Clients : newest[c] = 0 /\ cache[c].version = None
    BY DEF Init
  <1> QED
    BY <1>1, <1>2 DEF Overlapped, Open

\* What the proofs below use of the types.
LEMMA LookupTypes ==
    ASSUME TypeInv
    PROVE  /\ Current \in Nat /\ clock \in Nat
           /\ \A c \in Clients :
                 /\ newest[c] \in Nat /\ cache[c].stamp \in Nat
                 /\ cache[c].version # None =>
                       cache[c].version \in Nat /\ cache[c].version <= Current
           /\ \A l \in Lookups :
                 /\ Client[l] \in Clients
                 /\ got[l] \in Nat /\ seen[l] \in Nat /\ got[l] <= Current
  <1>1. Versions \subseteq Nat /\ Times \subseteq Nat
    BY DEF Versions, Times
  <1>2. Current \in Nat /\ clock \in Nat
    BY <1>1 DEF TypeInv, TypeOK, Current
  <1>3. ASSUME NEW c \in Clients
        PROVE  /\ newest[c] \in Nat /\ cache[c].stamp \in Nat
               /\ cache[c].version # None =>
                     cache[c].version \in Nat /\ cache[c].version <= Current
    BY <1>1 DEF TypeInv, TypeOK
  <1>4. ASSUME NEW l \in Lookups
        PROVE  /\ Client[l] \in Clients
               /\ got[l] \in Nat /\ seen[l] \in Nat /\ got[l] <= Current
    BY <1>1, PolicyAssumption DEF TypeInv, TypeOK
  <1> QED
    BY <1>2, <1>3, <1>4

LEMMA HitOverlapped ==
    ASSUME TypeInv, Overlapped, NEW l \in Lookups, Hit(l) PROVE Overlapped'
  <1> DEFINE c == Client[l]
  <1>0. UNCHANGED <<clock, savedAt, cache, late>> /\ c \in Clients /\ Fresh(c)
    BY LookupTypes DEF Hit
  <1>1. PICK n \in Nat :
           /\ n = IF cache[c].version > newest[c] THEN cache[c].version ELSE newest[c]
           /\ newest' = [newest EXCEPT ![c] = n]
    BY <1>0, LookupTypes DEF Hit, HandOver, Fresh
  <1>2. /\ at' = [at EXCEPT ![l] = "given"]
        /\ seen' = [seen EXCEPT ![l] = 0]
        /\ got' = [got EXCEPT ![l] = cache[c].version]
    BY DEF Hit, HandOver
  <1>3. newest[c] <= n /\ n <= Current /\ cache[c].version <= n
    BY <1>0, <1>1, LookupTypes DEF Fresh, Overlapped
  <1>4. \A b \in Clients : newest'[b] = IF b = c THEN n ELSE newest[b]
    BY <1>1 DEF TypeInv, TypeOK
  <1>5. \A h \in Lookups : at'[h] \in Open => h # l /\ at[h] = at'[h] /\ seen'[h] = seen[h] /\ got'[h] = got[h]
    BY <1>2 DEF TypeInv, TypeOK, Open
  <1>6. Current' = Current /\ \A b \in Clients : Fresh(b)' = Fresh(b)
    BY <1>0 DEF Current, Fresh
  <1>7. \A b \in Clients : newest'[b] <= Current'
    BY <1>3, <1>4, <1>6 DEF Overlapped
  <1>8. ASSUME NEW h \in Lookups, at'[h] \in Open PROVE seen'[h] <= newest'[Client[h]]
    <2>1. seen[h] <= newest[Client[h]] /\ seen'[h] = seen[h]
      BY <1>5, <1>8 DEF Overlapped
    <2> QED
      BY <1>1, <1>3, <1>4, <2>1, LookupTypes
  <1>9. ASSUME NEW b \in Clients \ late'
        PROVE  /\ cache'[b].version # None => newest'[b] <= cache'[b].version
               /\ \A h \in Lookups : (Client[h] = b /\ at'[h] \in Open) =>
                     /\ ~Fresh(b)'
                     /\ at'[h] = "fill" => newest'[b] <= got'[h]
    <2>1. b = c => n = cache[c].version
      BY <1>0, <1>1, <1>9, LookupTypes DEF Overlapped, Fresh
    <2>2. ASSUME NEW h \in Lookups, Client[h] = b, at'[h] \in Open
          PROVE  b # c /\ ~Fresh(b)' /\ (at'[h] = "fill" => newest'[b] <= got'[h])
      <3>1. at[h] \in Open /\ at'[h] = at[h] /\ got'[h] = got[h]
        BY <1>5, <2>2
      <3>2. ~Fresh(b) /\ (at[h] = "fill" => newest[b] <= got[h])
        BY <1>0, <1>9, <2>2, <3>1 DEF Overlapped
      <3> QED
        BY <1>0, <1>4, <1>6, <3>1, <3>2
    <2>3. cache'[b].version # None => newest'[b] <= cache'[b].version
      BY <1>0, <1>3, <1>4, <1>9, <2>1, LookupTypes DEF Overlapped
    <2> QED
      BY <2>2, <2>3
  <1> QED
    BY <1>7, <1>8, <1>9 DEF Overlapped

\* Only an entry that is stale is looked past.
LEMMA MissOverlapped ==
    ASSUME TypeInv, Overlapped, NEW l \in Lookups, Miss(l) PROVE Overlapped'
  <1>0. /\ UNCHANGED <<clock, savedAt, cache, late, newest, got>>
        /\ ~Fresh(Client[l]) /\ Client[l] \in Clients
    BY LookupTypes DEF Miss
  <1>1. /\ at' = [at EXCEPT ![l] = "query"]
        /\ seen' = [seen EXCEPT ![l] = newest[Client[l]]]
    BY DEF Miss
  <1>2. Current' = Current /\ \A b \in Clients : Fresh(b)' = Fresh(b)
    BY <1>0 DEF Current, Fresh
  <1>3. ASSUME NEW h \in Lookups, at'[h] \in Open
        PROVE  \/ h = l /\ at'[h] = "query" /\ seen'[h] = newest[Client[l]]
               \/ h # l /\ at'[h] = at[h] /\ seen'[h] = seen[h]
    BY <1>1 DEF TypeInv, TypeOK
  <1>4. ASSUME NEW h \in Lookups, at'[h] \in Open PROVE seen'[h] <= newest'[Client[h]]
    BY <1>0, <1>3, <1>4, LookupTypes DEF Overlapped
  <1>5. ASSUME NEW b \in Clients \ late, NEW h \in Lookups, Client[h] = b, at'[h] \in Open
        PROVE  ~Fresh(b)' /\ (at'[h] = "fill" => newest'[b] <= got'[h])
    BY <1>0, <1>2, <1>3, <1>5 DEF Overlapped
  <1> QED
    BY <1>0, <1>2, <1>4, <1>5 DEF Overlapped

LEMMA QueryOverlapped ==
    ASSUME TypeInv, Overlapped, NEW l \in Lookups, getCurrent(l) PROVE Overlapped'
  <1>0. UNCHANGED <<clock, savedAt, cache, late, newest, seen>> /\ at[l] \in Open
    BY DEF getCurrent, history, Open
  <1>1. at' = [at EXCEPT ![l] = "fill"] /\ got' = [got EXCEPT ![l] = Current]
    BY DEF getCurrent
  <1>2. Current' = Current /\ \A b \in Clients : Fresh(b)' = Fresh(b)
    BY <1>0 DEF Current, Fresh
  <1>3. ASSUME NEW h \in Lookups, at'[h] \in Open
        PROVE  /\ at[h] \in Open
               /\ \/ h = l /\ got'[h] = Current
                  \/ h # l /\ at'[h] = at[h] /\ got'[h] = got[h]
    BY <1>0, <1>1, <1>3 DEF TypeInv, TypeOK
  <1>4. ASSUME NEW h \in Lookups, at'[h] \in Open PROVE seen'[h] <= newest'[Client[h]]
    BY <1>0, <1>3, <1>4 DEF Overlapped
  <1>5. ASSUME NEW b \in Clients \ late, NEW h \in Lookups, Client[h] = b, at'[h] \in Open
        PROVE  ~Fresh(b)' /\ (at'[h] = "fill" => newest'[b] <= got'[h])
    BY <1>0, <1>2, <1>3, <1>5 DEF Overlapped
  <1> QED
    BY <1>0, <1>2, <1>4, <1>5 DEF Overlapped

\* Of the client whose entry is filled no other look-up is open, or it is late.
LEMMA FillOverlapped ==
    ASSUME TypeInv, Overlapped, NEW l \in Lookups, Fill(l) PROVE Overlapped'
  <1> DEFINE c == Client[l]
  <1>0. UNCHANGED <<clock, savedAt, got>> /\ c \in Clients /\ at[l] = "fill"
    BY LookupTypes DEF Fill
  <1>1. PICK v \in {None, got[l]} : cache' = [cache EXCEPT ![c] = [version |-> v, stamp |-> asked[l]]]
    BY DEF Fill, Entry, Kept
  <1>2. PICK n \in Nat : /\ n = IF got[l] > newest[c] THEN got[l] ELSE newest[c]
                         /\ newest' = [newest EXCEPT ![c] = n]
    BY <1>0, LookupTypes DEF Fill, HandOver
  <1>3. at' = [at EXCEPT ![l] = "given"] /\ seen' = [seen EXCEPT ![l] = 0]
    BY DEF Fill, HandOver
  <1>4. late \subseteq late' /\ late' \subseteq Clients
        /\ \A h \in Lookups \ {l} : (Client[h] = c /\ at[h] \in Open) => c \in late'
    BY <1>0, LookupTypes DEF Fill, TypeInv, TypeOK
  <1>5. newest[c] <= n /\ n <= Current /\ got[l] <= n
    BY <1>0, <1>2, LookupTypes DEF Overlapped
  <1>6. \A b \in Clients : /\ newest'[b] = IF b = c THEN n ELSE newest[b]
                           /\ cache'[b] = IF b = c THEN [version |-> v, stamp |-> asked[l]]
                                                   ELSE cache[b]
    BY <1>1, <1>2 DEF TypeInv, TypeOK
  <1>7. \A h \in Lookups : at'[h] \in Open => h # l /\ at[h] = at'[h] /\ seen'[h] = seen[h]
    BY <1>3 DEF TypeInv, TypeOK, Open
  <1>8. Current' = Current
    BY <1>0 DEF Current
  <1>9. \A b \in Clients : newest'[b] <= Current'
    BY <1>5, <1>6, <1>8 DEF Overlapped
  <1>10. ASSUME NEW h \in Lookups, at'[h] \in Open PROVE seen'[h] <= newest'[Client[h]]
    <2>1. seen[h] <= newest[Client[h]] /\ seen'[h] = seen[h]
      BY <1>7, <1>10 DEF Overlapped
    <2> QED
      BY <1>2, <1>5, <1>6, <2>1, LookupTypes
  <1>11. ASSUME NEW b \in Clients \ late'
         PROVE  /\ cache'[b].version # None => newest'[b] <= cache'[b].version
                /\ \A h \in Lookups : (Client[h] = b /\ at'[h] \in Open) =>
                      /\ ~Fresh(b)'
                      /\ at'[h] = "fill" => newest'[b] <= got'[h]
    <2>0. b \in Clients \ late
      BY <1>4, <1>11
    <2>1. CASE b = c
      <3>1. newest[c] <= got[l] /\ got[l] \in Nat
        BY <1>0, <2>0, <2>1, LookupTypes DEF Overlapped, Open
      <3>2. n = got[l]
        BY <1>0, <1>2, <3>1, LookupTypes
      <3>3. cache'[b].version # None => newest'[b] <= cache'[b].version
        BY <1>6, <2>1, <3>1, <3>2
      <3>4. \A h \in Lookups : Client[h] = b => at'[h] \notin Open
        BY <1>4, <1>7, <1>11, <2>1
      <3> QED
        BY <3>3, <3>4
    <2>2. CASE b # c
      <3>1. cache'[b] = cache[b] /\ newest'[b] = newest[b] /\ clock' = clock
        BY <1>0, <1>6, <2>0, <2>2
      <3>2. Fresh(b)' <=> Fresh(b)
        BY <3>1 DEF Fresh
      <3>3. cache'[b].version # None => newest'[b] <= cache'[b].version
        BY <2>0, <3>1 DEF Overlapped
      <3>4. ASSUME NEW h \in Lookups, Client[h] = b, at'[h] \in Open
            PROVE  ~Fresh(b)' /\ (at'[h] = "fill" => newest'[b] <= got'[h])
        BY <1>0, <1>7, <2>0, <3>1, <3>2, <3>4 DEF Overlapped
      <3> QED
        BY <3>3, <3>4
    <2> QED
      BY <2>1, <2>2
  <1> QED
    BY <1>9, <1>10, <1>11 DEF Overlapped

LEMMA FailOverlapped ==
    ASSUME TypeInv, Overlapped, NEW l \in Lookups, Fail(l) PROVE Overlapped'
  <1>0. UNCHANGED <<clock, savedAt, cache, late, newest>>
    BY DEF Fail
  <1>1. /\ at' = [at EXCEPT ![l] = "failed"]
        /\ seen' = [seen EXCEPT ![l] = 0]
        /\ got' = [got EXCEPT ![l] = 0]
    BY DEF Fail
  <1>2. Current' = Current /\ \A b \in Clients : Fresh(b)' = Fresh(b)
    BY <1>0 DEF Current, Fresh
  <1>3. \A h \in Lookups : at'[h] \in Open => at[h] = at'[h] /\ seen'[h] = seen[h] /\ got'[h] = got[h]
    BY <1>1 DEF TypeInv, TypeOK, Open
  <1> QED
    BY <1>0, <1>2, <1>3 DEF Overlapped

\* Time and saves only make an entry staler and the row's version newer.
LEMMA OthersOverlapped ==
    ASSUME TypeInv, Overlapped,
           \/ Tick \/ Save \/ PrintPolicy \/ PrintRows \/ UNCHANGED vars
           \/ \E l \in Lookups : Store(l)
    PROVE  Overlapped'
  <1>1. UNCHANGED <<cache, got, newest, seen, late>>
    BY DEF Tick, Save, PrintPolicy, PrintRows, Store, vars, history
  <1>2. \A h \in Lookups : at'[h] \in Open => at[h] = at'[h]
    BY DEF Tick, Save, PrintPolicy, PrintRows, Store, vars, history, TypeInv, TypeOK, Open
  <1>3. clock' \in Nat /\ clock <= clock'
    BY LookupTypes DEF Tick, Save, PrintPolicy, PrintRows, Store, vars, history
  <1>4. Current' \in Nat /\ Current <= Current'
    <2>1. savedAt' = savedAt \/ Save
      BY DEF Tick, Save, PrintPolicy, PrintRows, Store, vars, history
    <2>2. Save => Current' = Current + 1
      BY DEF Save, Current, TypeInv, TypeOK
    <2> QED
      BY <2>1, <2>2, LookupTypes DEF Current
  <1>5. \A b \in Clients : Fresh(b)' => Fresh(b)
    BY <1>1, <1>3, LookupTypes, PolicyAssumption DEF Fresh
  <1>6. \A b \in Clients : newest'[b] <= Current'
    BY <1>1, <1>4, LookupTypes DEF Overlapped
  <1>7. \A h \in Lookups : at'[h] \in Open => seen'[h] <= newest'[Client[h]]
    BY <1>1, <1>2 DEF Overlapped
  <1>8. ASSUME NEW b \in Clients \ late'
        PROVE  /\ cache'[b].version # None => newest'[b] <= cache'[b].version
               /\ \A h \in Lookups : (Client[h] = b /\ at'[h] \in Open) =>
                     /\ ~Fresh(b)'
                     /\ at'[h] = "fill" => newest'[b] <= got'[h]
    BY <1>1, <1>2, <1>5, <1>8 DEF Overlapped
  <1> QED
    BY <1>6, <1>7, <1>8 DEF Overlapped

LEMMA NextOverlapped == TypeInv /\ Overlapped /\ [Next]_vars => Overlapped'
  BY HitOverlapped, MissOverlapped, QueryOverlapped, FillOverlapped, FailOverlapped,
     OthersOverlapped DEF Next

\* A step that hands a version over is a hit or a fill.
LEMMA OlderStep ==
    ASSUME TypeInv, Overlapped, Next, NEW l \in Lookups,
           at[l] \notin Given, at'[l] = "given",
           got'[l] < IF at[l] = "ask" THEN newest[Client[l]] ELSE seen[l]
    PROVE  Client[l] \in late
  <1>1. Client[l] \in Clients /\ at \in [Lookups -> {"ask", "failed"} \union Open \union Given]
    BY LookupTypes DEF TypeInv, TypeOK
  <1>2. PICK h \in Lookups : Hit(h) \/ Fill(h)
    <2>1. at'[l] # at[l]
      BY DEF Given
    <2>2. PICK h \in Lookups : Hit(h) \/ Miss(h) \/ getCurrent(h) \/ Fill(h) \/ Fail(h) \/ Store(h)
      BY <2>1 DEF Next, Tick, Save, PrintPolicy, PrintRows
    <2>3. ~(Miss(h) \/ getCurrent(h) \/ Fail(h) \/ Store(h))
      BY <1>1, <2>1 DEF Miss, getCurrent, Fail, Store, Given
    <2> QED
      BY <2>2, <2>3
  <1>3. h = l
    BY <1>1, <1>2 DEF Hit, Fill, HandOver, Given
  <1>4. CASE Hit(l)
    <2>1. at[l] = "ask" /\ got'[l] = cache[Client[l]].version /\ cache[Client[l]].version # None
      BY <1>4 DEF Hit, Fresh, TypeInv, TypeOK
    <2> QED
      BY <1>1, <2>1, LookupTypes DEF Overlapped
  <1>5. CASE Fill(l)
    <2>1. at[l] = "fill" /\ got'[l] = got[l]
      BY <1>5 DEF Fill
    <2>2. seen[l] <= newest[Client[l]]
      BY <2>1 DEF Overlapped, Open
    <2>3. Client[l] \notin late => newest[Client[l]] <= got[l]
      BY <1>1, <2>1 DEF Overlapped, Open
    <2> QED
      BY <1>1, <2>1, <2>2, <2>3, LookupTypes
  <1> QED
    BY <1>2, <1>3, <1>4, <1>5

\* getMonedaBase and getDefaultPolicies never hand over an older policy than they
\* had handed over when they were called, for any number of records and any TTL,
\* unless two look-ups of that client overlapped: the time an entry is stamped
\* with does not keep a slower answer from overwriting a newer one.
THEOREM OlderAlwaysNeedsOverlap == Spec => OlderNeedsOverlap
  <1>1. Spec => [](TypeInv /\ Overlapped)
    <2>1. IInv => TypeInv
      BY DEF IInv
    <2> QED
      BY <2>1, Invariant, InitOverlapped, NextOverlapped, PTL DEF Spec
  <1>2. TypeInv /\ Overlapped /\ [Next]_vars =>
          [\A l \in Lookups :
              LET before == IF at[l] = "ask" THEN newest[Client[l]] ELSE seen[l] IN
              (at[l] \notin Given /\ at'[l] = "given" /\ got'[l] < before)
                  => Client[l] \in late]_vars
    BY OlderStep
  <1> QED
    BY <1>1, <1>2, PTL DEF Spec, OlderNeedsOverlap

=============================================================================
