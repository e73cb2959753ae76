---------------------------- MODULE FxCacheProofs -----------------------------
(***************************************************************************)
(* Theorems about the exchange-rate caches, for any number of conversions, *)
(* currencies and dates, any failures, timeouts, expiries and clearings.   *)
(***************************************************************************)
EXTENDS FxCache, TLAPS

\* A conversion that has an answer to keep or to return has a rate.
AnswersHeld == \A c \in Conversions : client[c] \in {"set", "done"} => answer[c] \in Rates

TypeInv == TypeOK /\ AnswersHeld

\* The crossing of the keys: what the service writes under a key is a rate of that
\* pair, what the worker writes under it is a rate of the opposite pair.
KeysFit ==
    \A k \in FxKeys : fx[k] # None =>
        /\ fx[k].rate[2] = k[2]
        /\ fx[k].format = "json" => fx[k].rate[1] = k[1]
        /\ fx[k].format = "number" => fx[k].rate[1] = Flip(k[1])

AnswersFit ==
    \A c \in Conversions : client[c] \in {"set", "done"} =>
        answer[c][1] = Pair(c) /\ answer[c][2] = DateOf[c]

PairInv == KeysFit /\ AnswersFit

\* What a task goes on with was quoted for its date.
HeldQuoted ==
    \A t \in Tasks : service[t] \in {"store", "save"} =>
        held[t] \in 1 .. calls[DateOf[t[1]]]

AnswersQuoted ==
    \A c \in Conversions : client[c] \in {"set", "done"} =>
        answer[c][3] \in 1 .. calls[DateOf[c]]

QuoteInv == RatesAreQuoted /\ HeldQuoted /\ AnswersQuoted

\* A table is cleared on request only.
ClearedOnRequest == clearing # {} => evictions > 0

Asking(t, d) == DateOf[t[1]] = d /\ service[t] \in {"http", "store"}

\* One task at a time asks for the date d, and only while nobody has been answered.
OneAtATime(d) ==
    /\ \A t, u \in Tasks : Asking(t, d) /\ Asking(u, d) => t = u
    /\ \A t \in Tasks : DateOf[t[1]] = d /\ service[t] = "http" =>
          calls[d] = 0 /\ table[d] = 0
    /\ calls[d] > 0 => table[d] # 0 \/ \E t \in Tasks : DateOf[t[1]] = d /\ service[t] = "store"
    /\ calls[d] <= 1

CallInv ==
    \A d \in Dates : (faults = 0 /\ evictions = 0 /\ d \notin together) => OneAtATime(d)

\* The request of a conversion starts with it, and its refresh after the request.
OrderInv ==
    /\ ClearedOnRequest
    /\ \A c \in Conversions :
          /\ client[c] = "get" => service[<<c, "main">>] = "idle"
          /\ service[<<c, "main">>] \notin {"ended", "error"} =>
                service[<<c, "back">>] = "idle"

\* The refresh finds the table its request has left.
RefreshFinds(c) ==
    LET main == service[<<c, "main">>]  back == service[<<c, "back">>] IN
    /\ main \in {"idle", "rate", "table", "http"} => asked[c] = 0
    /\ main = "save" \/ back # "idle" => table[DateOf[c]] # 0
    /\ back \notin {"http", "store"}
    /\ asked[c] <= 1

FreeInv ==
    (faults = 0 /\ evictions = 0) => \A c \in Conversions : RefreshFinds(c)

-----------------------------------------------------------------------------
(* The keys, the tasks and the answers *)

\* The worker's key of a pair is the service's key of the opposite pair.
LEMMA KeyTypes ==
    ASSUME NEW c \in Conversions
    PROVE  /\ Pair(c) \in Pairs /\ DateOf[c] \in Dates
           /\ buildKey(c) \in FxKeys /\ fxCacheKey(c) \in FxKeys
           /\ buildKey(c)[1] = Pair(c) /\ buildKey(c)[2] = DateOf[c]
           /\ fxCacheKey(c)[1] = Flip(Pair(c)) /\ fxCacheKey(c)[2] = DateOf[c]
           /\ Flip(Flip(Pair(c))) = Pair(c)
  BY FxAssumption DEF Pair, Pairs, Flip, buildKey, fxCacheKey, FxKeys

LEMMA TaskTypes ==
    ASSUME NEW t \in Tasks
    PROVE  /\ t[1] \in Conversions
           /\ t = <<t[1], "main">> \/ t = <<t[1], "back">>
           /\ t[2] \in {"main", "back"}
           /\ DateOf[t[1]] \in Dates
  BY FxAssumption DEF Tasks

LEMMA BothTasks ==
    ASSUME NEW c \in Conversions
    PROVE  <<c, "main">> \in Tasks /\ <<c, "back">> \in Tasks
  BY DEF Tasks

\* An answer goes to the conversion that waits for it.
LEMMA ReplyTypes ==
    ASSUME TypeInv, NEW c \in Conversions, NEW rate \in Rates, Reply(c, rate)
    PROVE  /\ client' \in [Conversions -> ClientControls]
           /\ answer' \in [Conversions -> Rates \union {None}]
           /\ AnswersHeld'
  BY DEF TypeInv, TypeOK, AnswersHeld, Reply, ClientControls

\* A failing task ends, and that of a request starts the refresh.
LEMMA TaskFailsTypes ==
    ASSUME TypeInv, NEW t \in Tasks, TaskFails(t), answer' = answer
    PROVE  /\ service' \in [Tasks -> Controls]
           /\ client' \in [Conversions -> ClientControls]
           /\ AnswersHeld'
  <1>1. service' \in [Tasks -> Controls]
    BY DEF TypeInv, TypeOK, TaskFails, Controls, AtService, AtProvider
  <1>2. \/ client' = client
        \/ client' = [client EXCEPT ![t[1]] = "failed"]
    BY DEF TaskFails, ReplyError, TypeInv, TypeOK
  <1> QED
    BY <1>1, <1>2 DEF TypeInv, TypeOK, AnswersHeld, ClientControls

LEMMA InitTypes == Init => TypeInv
  BY FxAssumption
     DEF Init, TypeInv, TypeOK, AnswersHeld, ClientControls, Controls

-----------------------------------------------------------------------------
(* Types *)

LEMMA ClientTypes ==
    ASSUME TypeInv, NEW c \in Conversions, ClientGet(c) \/ ClientSet(c) \/ ClientFails(c)
    PROVE  TypeInv'
  <1>1. /\ fx[fxCacheKey(c)] \in Entries \union {None} /\ fxCacheKey(c) \in FxKeys
        /\ <<c, "main">> \in Tasks
    BY KeyTypes, BothTasks DEF TypeInv, TypeOK
  <1>2. CASE ClientGet(c)
    <2>1. CASE ReadsAsNumber(fx[fxCacheKey(c)])
      <3>1. fx[fxCacheKey(c)].rate \in Rates
        BY <1>1, <2>1 DEF ReadsAsNumber, Entries
      <3>2. UNCHANGED <<fx, table, service, held, calls, asked, clearing, together, limits>>
            /\ client' = [client EXCEPT ![c] = "done"]
            /\ answer' = [answer EXCEPT ![c] = fx[fxCacheKey(c)].rate]
        BY <1>2, <2>1 DEF ClientGet
      <3> QED
        BY <3>1, <3>2 DEF TypeInv, TypeOK, AnswersHeld, ClientControls, limits
    <2>2. CASE ~ReadsAsNumber(fx[fxCacheKey(c)])
      <3>1. UNCHANGED <<fx, table, answer, held, calls, asked, clearing, together, limits>>
            /\ client' = [client EXCEPT ![c] = "wait"]
            /\ service' = [service EXCEPT ![<<c, "main">>] = "rate"]
        BY <1>2, <2>2 DEF ClientGet
      <3> QED
        BY <1>1, <3>1
           DEF TypeInv, TypeOK, AnswersHeld, ClientControls, Controls, AtService, limits
    <2> QED
      BY <2>1, <2>2
  <1>3. CASE ClientSet(c)
    <2>1. [format |-> "number", rate |-> answer[c]] \in Entries
      BY <1>3 DEF ClientSet, TypeInv, AnswersHeld, Entries, Formats
    <2> QED
      BY <1>1, <1>3, <2>1
         DEF ClientSet, TypeInv, TypeOK, AnswersHeld, ClientControls, limits
  <1>4. CASE ClientFails(c)
    <2>1. client[c] = "set" => [format |-> "number", rate |-> answer[c]] \in Entries
      BY DEF TypeInv, AnswersHeld, Entries, Formats
    <2>2. fx' \in [FxKeys -> Entries \union {None}]
      BY <1>1, <1>4, <2>1 DEF ClientFails, TypeInv, TypeOK
    <2> QED
      BY <1>4, <2>2, FxAssumption
         DEF ClientFails, Fault, TypeInv, TypeOK, AnswersHeld, ClientControls
  <1> QED
    BY <1>2, <1>3, <1>4

LEMMA CachedTypes ==
    ASSUME TypeInv, NEW c \in Conversions, CachedRate(c)
    PROVE  TypeInv'
  <1>1. fx[buildKey(c)] \in Entries \union {None} /\ <<c, "main">> \in Tasks
    BY KeyTypes, BothTasks DEF TypeInv, TypeOK
  <1>2. UNCHANGED <<fx, table, held, calls, asked, clearing, together, limits>>
        /\ service' \in [Tasks -> Controls]
    BY <1>1 DEF CachedRate, TypeInv, TypeOK, Controls, AtService, AtProvider
  <1>3. /\ client' \in [Conversions -> ClientControls]
        /\ answer' \in [Conversions -> Rates \union {None}]
        /\ AnswersHeld'
    <2>1. CASE ReadsAsJson(fx[buildKey(c)])
      <3>1. fx[buildKey(c)].rate \in Rates
        BY <1>1, <2>1 DEF ReadsAsJson, Entries
      <3>2. Reply(c, fx[buildKey(c)].rate)
        BY <2>1 DEF CachedRate
      <3> QED
        BY <3>1, <3>2, ReplyTypes
    <2>2. CASE ~ReadsAsJson(fx[buildKey(c)])
      BY <2>2 DEF CachedRate, TypeInv, TypeOK, AnswersHeld
    <2> QED
      BY <2>1, <2>2
  <1> QED
    BY <1>2, <1>3 DEF TypeInv, TypeOK, limits

LEMMA TaskStepTypes ==
    ASSUME TypeInv, NEW t \in Tasks,
           \/ CachedTable(t) \/ Call(t) \/ Store(t) \/ Save(t)
           \/ ServiceFails(t) \/ ServiceAnswerLost(t)
    PROVE  TypeInv'
  <1>0. t[1] \in Conversions /\ DateOf[t[1]] \in Dates /\ <<t[1], "back">> \in Tasks
        /\ {"table", "http", "store", "save", "ended", "error"} \subseteq Controls
    BY TaskTypes, BothTasks DEF Controls, AtService, AtProvider
  <1>1. CASE CachedTable(t)
    BY <1>0, <1>1 DEF CachedTable, TypeInv, TypeOK, AnswersHeld, limits
  <1>2. CASE Call(t)
    <2>1. /\ calls' \in [Dates -> Nat] /\ asked' \in [Conversions -> Nat]
          /\ UNCHANGED <<fx, table, answer, clearing, together>>
          /\ held' \in [Tasks -> Nat]
      BY <1>0, <1>2 DEF Call, TypeInv, TypeOK
    <2>2. /\ service' \in [Tasks -> Controls]
          /\ client' \in [Conversions -> ClientControls] /\ AnswersHeld'
          /\ faults' \in 0 .. MaxFaults /\ evictions' \in 0 .. MaxEvictions
      <3>1. CASE Fault /\ TaskFails(t)
        BY <2>1, <3>1, TaskFailsTypes, FxAssumption DEF Fault, TypeInv, TypeOK
      <3>2. CASE /\ service' = [service EXCEPT ![t] = "store"]
                 /\ UNCHANGED <<client, limits>>
        BY <1>0, <2>1, <3>2 DEF TypeInv, TypeOK, AnswersHeld, limits
      <3> QED
        BY <1>2, <3>1, <3>2 DEF Call
    <2> QED
      BY <2>1, <2>2 DEF TypeInv, TypeOK
  <1>3. CASE Store(t)
    BY <1>0, <1>3 DEF Store, TypeInv, TypeOK, AnswersHeld, limits
  <1>4. CASE Save(t)
    <2>1. rateFromTable(t[1], held[t]) \in Rates /\ buildKey(t[1]) \in FxKeys
      BY <1>0, KeyTypes DEF rateFromTable, Rates, TypeInv, TypeOK
    <2>2. [format |-> "json", rate |-> rateFromTable(t[1], held[t])] \in Entries
      BY <2>1 DEF Entries, Formats
    <2>3. /\ fx' \in [FxKeys -> Entries \union {None}]
          /\ service' \in [Tasks -> Controls]
          /\ UNCHANGED <<table, held, calls, asked, clearing, together, limits>>
      BY <1>0, <1>4, <2>1, <2>2 DEF Save, TypeInv, TypeOK
    <2>4. /\ client' \in [Conversions -> ClientControls]
          /\ answer' \in [Conversions -> Rates \union {None}]
          /\ AnswersHeld'
      <3>1. CASE Reply(t[1], rateFromTable(t[1], held[t]))
        BY <1>0, <2>1, <3>1, ReplyTypes
      <3>2. CASE UNCHANGED <<client, answer>>
        BY <3>2 DEF TypeInv, TypeOK, AnswersHeld
      <3> QED
        BY <1>4, <3>1, <3>2 DEF Save
    <2> QED
      BY <2>3, <2>4 DEF TypeInv, TypeOK, limits
  <1>5. CASE ServiceFails(t)
    <2>1. /\ UNCHANGED <<fx, table, answer, held, calls, asked, clearing, together>>
          /\ faults' \in 0 .. MaxFaults /\ evictions' \in 0 .. MaxEvictions
      BY <1>5, FxAssumption DEF ServiceFails, Fault, TypeInv, TypeOK
    <2>2. /\ service' \in [Tasks -> Controls]
          /\ client' \in [Conversions -> ClientControls] /\ AnswersHeld'
      <3>1. CASE TaskFails(t)
        BY <2>1, <3>1, TaskFailsTypes
      <3>2. CASE service' = [service EXCEPT ![t] = "error"] /\ ReplyError(t[1])
        BY <1>0, <2>1, <3>2
           DEF ReplyError, TypeInv, TypeOK, AnswersHeld, ClientControls
      <3> QED
        BY <1>5, <3>1, <3>2 DEF ServiceFails
    <2> QED
      BY <2>1, <2>2 DEF TypeInv, TypeOK
  <1>6. CASE ServiceAnswerLost(t)
    <2>1. /\ UNCHANGED <<answer, held, calls, asked, clearing, together>>
          /\ faults' \in 0 .. MaxFaults /\ evictions' \in 0 .. MaxEvictions
      BY <1>6, FxAssumption DEF ServiceAnswerLost, Fault, TypeInv, TypeOK
    <2>2. /\ service' \in [Tasks -> Controls]
          /\ client' \in [Conversions -> ClientControls] /\ AnswersHeld'
      BY <1>6, TaskFailsTypes DEF ServiceAnswerLost
    <2>3. rateFromTable(t[1], held[t]) \in Rates /\ buildKey(t[1]) \in FxKeys
      BY <1>0, KeyTypes DEF rateFromTable, Rates, TypeInv, TypeOK
    <2>4. [format |-> "json", rate |-> rateFromTable(t[1], held[t])] \in Entries
      BY <2>3 DEF Entries, Formats
    <2>5. /\ fx' \in [FxKeys -> Entries \union {None}]
          /\ table' \in [Dates -> Nat]
      BY <1>0, <1>6, <2>3, <2>4 DEF ServiceAnswerLost, TypeInv, TypeOK
    <2> QED
      BY <2>1, <2>2, <2>5 DEF TypeInv, TypeOK
  <1> QED
    BY <1>1, <1>2, <1>3, <1>4, <1>5, <1>6

LEMMA EvictionTypes ==
    ASSUME TypeInv,
           \/ \E k \in FxKeys : ExpireRate(k)
           \/ \E d \in Dates : ExpireTable(d) \/ ClearRates(d) \/ ClearTable(d)
    PROVE  TypeInv'
  <1>1. ASSUME NEW k \in FxKeys, ExpireRate(k) PROVE TypeInv'
    BY <1>1, FxAssumption DEF ExpireRate, Evict, TypeInv, TypeOK, AnswersHeld
  <1>2. ASSUME NEW d \in Dates, ExpireTable(d) \/ ClearRates(d) PROVE TypeInv'
    BY <1>2, FxAssumption DEF ExpireTable, ClearRates, Evict, TypeInv, TypeOK, AnswersHeld
  <1>3. ASSUME NEW d \in Dates, ClearTable(d) PROVE TypeInv'
    BY <1>3 DEF ClearTable, TypeInv, TypeOK, AnswersHeld, limits
  <1> QED
    BY <1>1, <1>2, <1>3

LEMMA NextTypes == TypeInv /\ [Next]_vars => TypeInv'
  <1> SUFFICES ASSUME TypeInv, [Next]_vars PROVE TypeInv'
    OBVIOUS
  <1>1. ASSUME NEW c \in Conversions, Step(c) PROVE TypeInv'
    BY <1>1, BothTasks, ClientTypes, CachedTypes, TaskStepTypes DEF Step
  <1>2. CASE UNCHANGED vars
    BY <1>2 DEF vars, limits, TypeInv, TypeOK, AnswersHeld
  <1> QED
    BY <1>1, <1>2, ClientTypes, TaskStepTypes, EvictionTypes DEF Next

\* Every key holds a rate or nothing, and every conversion that ended well has one.
THEOREM TypesHold == Spec => []TypeInv
  <1> QED
    BY InitTypes, NextTypes, PTL DEF Spec

\* The type invariant of the runs, for every instance.
THEOREM TypesAreRight == Spec => []TypeOK
  <1>1. TypeInv => TypeOK
    BY DEF TypeInv
  <1> QED
    BY TypesHold, <1>1, PTL

-----------------------------------------------------------------------------
(* Where keys and answers come from *)

\* A key changes by going away, by the worker's answer or by the service's rate.
LEMMA KeySources ==
    ASSUME TypeInv, [Next]_vars, NEW k \in FxKeys, fx'[k] # fx[k], fx'[k] # None
    PROVE  \/ \E c \in Conversions :
                 /\ k = fxCacheKey(c) /\ client[c] = "set"
                 /\ fx'[k] = [format |-> "number", rate |-> answer[c]]
           \/ \E t \in Tasks :
                 /\ k = buildKey(t[1]) /\ service[t] = "save"
                 /\ fx'[k] = [format |-> "json", rate |-> rateFromTable(t[1], held[t])]
  <1> DEFINE Goal == \/ \E c \in Conversions :
                           /\ k = fxCacheKey(c) /\ client[c] = "set"
                           /\ fx'[k] = [format |-> "number", rate |-> answer[c]]
                     \/ \E t \in Tasks :
                           /\ k = buildKey(t[1]) /\ service[t] = "save"
                           /\ fx'[k] = [format |-> "json", rate |-> rateFromTable(t[1], held[t])]
  <1>1. fx \in [FxKeys -> Entries \union {None}]
    BY DEF TypeInv, TypeOK
  <1>2. ASSUME NEW c \in Conversions, ClientSet(c) \/ ClientFails(c) PROVE Goal
    BY <1>1, <1>2 DEF ClientSet, ClientFails
  <1>3. ASSUME NEW t \in Tasks, Save(t) \/ ServiceAnswerLost(t) PROVE Goal
    BY <1>1, <1>3 DEF Save, ServiceAnswerLost
  <1>4. ASSUME NEW t \in Tasks, CachedTable(t) \/ Call(t) \/ Store(t) \/ ServiceFails(t)
        PROVE  FALSE
    BY <1>4 DEF CachedTable, Call, Store, ServiceFails
  <1>5. ASSUME NEW c \in Conversions, Step(c) PROVE Goal
    BY <1>2, <1>3, <1>4, <1>5, BothTasks DEF Step, ClientGet, CachedRate
  <1>6. ASSUME NEW e \in FxKeys, ExpireRate(e) PROVE FALSE
    BY <1>1, <1>6 DEF ExpireRate
  <1>7. ASSUME NEW d \in Dates, ExpireTable(d) \/ ClearRates(d) \/ ClearTable(d) PROVE FALSE
    BY <1>1, <1>7 DEF ExpireTable, ClearRates, ClearTable
  <1> QED
    BY <1>2, <1>3, <1>4, <1>5, <1>6, <1>7 DEF Next, vars

\* An answer is the worker's key, the service's key or the rate it has computed.
LEMMA AnswerSources ==
    ASSUME TypeInv, [Next]_vars, NEW c \in Conversions
    PROVE  \/ /\ answer'[c] = answer[c]
              /\ client'[c] \in {"set", "done"} => client[c] \in {"set", "done"}
           \/ /\ ReadsAsNumber(fx[fxCacheKey(c)])
              /\ answer'[c] = fx[fxCacheKey(c)].rate
           \/ /\ ReadsAsJson(fx[buildKey(c)])
              /\ answer'[c] = fx[buildKey(c)].rate
           \/ \E t \in Tasks : /\ t[1] = c /\ service[t] = "save"
                               /\ answer'[c] = rateFromTable(c, held[t])
  <1> DEFINE Same == /\ answer'[c] = answer[c]
                     /\ client'[c] \in {"set", "done"} => client[c] \in {"set", "done"}
             Number == /\ ReadsAsNumber(fx[fxCacheKey(c)])
                       /\ answer'[c] = fx[fxCacheKey(c)].rate
             Json == /\ ReadsAsJson(fx[buildKey(c)])
                     /\ answer'[c] = fx[buildKey(c)].rate
             Rated == \E t \in Tasks : /\ t[1] = c /\ service[t] = "save"
                                       /\ answer'[c] = rateFromTable(c, held[t])
  <1>1. /\ client \in [Conversions -> ClientControls]
        /\ answer \in [Conversions -> Rates \union {None}]
    BY DEF TypeInv, TypeOK
  <1>2. ASSUME NEW b \in Conversions, ClientGet(b) PROVE Same \/ Number
    BY <1>1, <1>2 DEF ClientGet
  <1>3. ASSUME NEW b \in Conversions, ClientSet(b) \/ ClientFails(b) PROVE Same
    BY <1>1, <1>3 DEF ClientSet, ClientFails
  <1>4. ASSUME NEW b \in Conversions, CachedRate(b) PROVE Same \/ Json
    BY <1>1, <1>4 DEF CachedRate, Reply
  <1>5. ASSUME NEW t \in Tasks, Save(t) PROVE Same \/ Rated
    <2>1. t[1] \in Conversions
      BY TaskTypes
    <2> QED
      BY <1>1, <1>5, <2>1 DEF Save, Reply
  <1>6. ASSUME NEW t \in Tasks, TaskFails(t) \/ ReplyError(t[1]), answer' = answer
        PROVE  Same
    <2>1. t[1] \in Conversions
      BY TaskTypes
    <2> QED
      BY <1>1, <1>6, <2>1 DEF TaskFails, ReplyError
  <1>7. ASSUME NEW t \in Tasks, \/ CachedTable(t) \/ Call(t) \/ Store(t)
                                \/ ServiceFails(t) \/ ServiceAnswerLost(t)
        PROVE  Same
    BY <1>6, <1>7 DEF CachedTable, Call, Store, ServiceFails, ServiceAnswerLost
  <1>8. ASSUME NEW b \in Conversions, Step(b) PROVE Same \/ Number \/ Json \/ Rated
    BY <1>2, <1>3, <1>4, <1>5, <1>7, <1>8, BothTasks DEF Step
  <1>9. ASSUME \/ \E k \in FxKeys : ExpireRate(k)
               \/ \E d \in Dates : ExpireTable(d) \/ ClearRates(d) \/ ClearTable(d)
               \/ UNCHANGED vars
        PROVE  Same
    BY <1>9 DEF ExpireRate, ExpireTable, ClearRates, ClearTable, vars
  <1> QED
    BY <1>3, <1>7, <1>8, <1>9 DEF Next

-----------------------------------------------------------------------------
(* Pairs *)

LEMMA NextPairs == TypeInv /\ PairInv /\ [Next]_vars => PairInv'
  <1> SUFFICES ASSUME TypeInv, PairInv, [Next]_vars PROVE PairInv'
    OBVIOUS
  <1>1. KeysFit'
    <2> SUFFICES ASSUME NEW k \in FxKeys, fx'[k] # None
                 PROVE  /\ fx'[k].rate[2] = k[2]
                        /\ fx'[k].format = "json" => fx'[k].rate[1] = k[1]
                        /\ fx'[k].format = "number" => fx'[k].rate[1] = Flip(k[1])
      BY DEF KeysFit
    <2>1. CASE fx'[k] = fx[k]
      BY <2>1 DEF PairInv, KeysFit
    <2>2. ASSUME NEW c \in Conversions, k = fxCacheKey(c), client[c] = "set",
                 fx'[k] = [format |-> "number", rate |-> answer[c]]
          PROVE  fx'[k].format = "number" /\ fx'[k].rate[1] = Flip(k[1]) /\ fx'[k].rate[2] = k[2]
      BY <2>2, KeyTypes DEF PairInv, AnswersFit
    <2>3. ASSUME NEW t \in Tasks, k = buildKey(t[1]),
                 fx'[k] = [format |-> "json", rate |-> rateFromTable(t[1], held[t])]
          PROVE  fx'[k].format = "json" /\ fx'[k].rate[1] = k[1] /\ fx'[k].rate[2] = k[2]
      BY <2>3, KeyTypes, TaskTypes DEF rateFromTable
    <2> QED
      BY <2>1, <2>2, <2>3, KeySources
  <1>2. AnswersFit'
    <2> SUFFICES ASSUME NEW c \in Conversions, client'[c] \in {"set", "done"}
                 PROVE  answer'[c][1] = Pair(c) /\ answer'[c][2] = DateOf[c]
      BY DEF AnswersFit
    <2>1. CASE answer'[c] = answer[c] /\ client[c] \in {"set", "done"}
      BY <2>1 DEF PairInv, AnswersFit
    <2>2. CASE ReadsAsNumber(fx[fxCacheKey(c)]) /\ answer'[c] = fx[fxCacheKey(c)].rate
      BY <2>2, KeyTypes DEF PairInv, KeysFit, ReadsAsNumber
    <2>3. CASE ReadsAsJson(fx[buildKey(c)]) /\ answer'[c] = fx[buildKey(c)].rate
      BY <2>3, KeyTypes DEF PairInv, KeysFit, ReadsAsJson
    <2>4. ASSUME NEW t \in Tasks, answer'[c] = rateFromTable(c, held[t])
          PROVE  answer'[c][1] = Pair(c) /\ answer'[c][2] = DateOf[c]
      BY <2>4 DEF rateFromTable
    <2> QED
      BY <2>1, <2>2, <2>3, <2>4, AnswerSources
  <1> QED
    BY <1>1, <1>2 DEF PairInv

\* convert ends with a rate of the pair and the date it was asked for: although the
\* worker and the service keep opposite pairs under one key, neither takes the
\* other's entry for its own.
THEOREM ConversionsGetTheirPair == Spec => []AnswersOwnPair
  <1>1. Init => PairInv
    BY DEF Init, PairInv, KeysFit, AnswersFit
  <1>2. PairInv => AnswersOwnPair
    BY DEF PairInv, AnswersFit, AnswersOwnPair
  <1> QED
    BY TypesHold, NextPairs, <1>1, <1>2, PTL DEF Spec

-----------------------------------------------------------------------------
(* Quotes *)

\* Calls are counted and never taken back.
LEMMA CallsGrow ==
    ASSUME TypeInv, [Next]_vars
    PROVE  \A d \in Dates : calls[d] \in Nat /\ calls'[d] \in Nat /\ calls'[d] >= calls[d]
  <1>1. calls \in [Dates -> Nat]
    BY DEF TypeInv, TypeOK
  <1>2. ASSUME NEW t \in Tasks, Call(t)
        PROVE  \A d \in Dates : calls'[d] \in Nat /\ calls'[d] >= calls[d]
    BY <1>1, <1>2 DEF Call
  <1>3. calls' = calls \/ \E t \in Tasks : Call(t)
    BY BothTasks
       DEF Next, vars, Step, ClientGet, ClientSet, ClientFails, CachedRate, CachedTable,
           Store, Save, ServiceFails, ServiceAnswerLost,
           ExpireRate, ExpireTable, ClearRates, ClearTable
  <1> QED
    BY <1>1, <1>2, <1>3

\* A table is what a task has been told.
LEMMA TableSources ==
    ASSUME TypeInv, [Next]_vars, NEW d \in Dates
    PROVE  \/ table'[d] \in {table[d], 0}
           \/ \E t \in Tasks : DateOf[t[1]] = d /\ service[t] = "store" /\ table'[d] = held[t]
  <1>1. table \in [Dates -> Nat]
    BY DEF TypeInv, TypeOK
  <1>2. ASSUME NEW t \in Tasks, Store(t) \/ ServiceAnswerLost(t)
        PROVE  table'[d] = table[d]
                 \/ (DateOf[t[1]] = d /\ service[t] = "store" /\ table'[d] = held[t])
    BY <1>1, <1>2 DEF Store, ServiceAnswerLost
  <1>3. \/ table' = table
        \/ \E t \in Tasks : Store(t) \/ ServiceAnswerLost(t)
        \/ \E e \in Dates : ExpireTable(e) \/ ClearTable(e)
    BY BothTasks
       DEF Next, vars, Step, ClientGet, ClientSet, ClientFails, CachedRate, CachedTable,
           Call, Save, ServiceFails, ExpireRate, ClearRates
  <1>4. ASSUME NEW e \in Dates, ExpireTable(e) \/ ClearTable(e)
        PROVE  table'[d] \in {table[d], 0}
    BY <1>1, <1>4 DEF ExpireTable, ClearTable
  <1> QED
    BY <1>2, <1>3, <1>4

\* What a task keeps or computes with comes from the table or from its own call.
LEMMA HeldSources ==
    ASSUME TypeInv, [Next]_vars, NEW t \in Tasks, service'[t] \in {"store", "save"}
    PROVE  \/ service[t] \in {"store", "save"} /\ held'[t] = held[t]
           \/ /\ service[t] = "table" /\ table[DateOf[t[1]]] # 0
              /\ held'[t] = table[DateOf[t[1]]]
           \/ /\ service[t] = "http" /\ held'[t] = calls[DateOf[t[1]]] + 1
              /\ calls'[DateOf[t[1]]] = calls[DateOf[t[1]]] + 1
  <1> DEFINE Kept == service[t] \in {"store", "save"} /\ held'[t] = held[t]
             Found == /\ service[t] = "table" /\ table[DateOf[t[1]]] # 0
                      /\ held'[t] = table[DateOf[t[1]]]
             Told == /\ service[t] = "http" /\ held'[t] = calls[DateOf[t[1]]] + 1
                     /\ calls'[DateOf[t[1]]] = calls[DateOf[t[1]]] + 1
  <1>1. /\ service \in [Tasks -> Controls] /\ held \in [Tasks -> Nat]
        /\ calls \in [Dates -> Nat]
    BY DEF TypeInv, TypeOK
  <1>2. ASSUME NEW u \in Tasks, TaskFails(u), held' = held PROVE Kept
    BY <1>1, <1>2 DEF TaskFails
  <1>3. ASSUME NEW u \in Tasks, CachedTable(u) PROVE Kept \/ Found
    BY <1>1, <1>3 DEF CachedTable
  <1>4. ASSUME NEW u \in Tasks, Call(u) PROVE Kept \/ Told
    <2>1. DateOf[u[1]] \in Dates
      BY TaskTypes
    <2> QED
      BY <1>1, <1>2, <1>4, <2>1 DEF Call
  <1>5. ASSUME NEW u \in Tasks, Store(u) \/ ServiceFails(u) \/ ServiceAnswerLost(u) PROVE Kept
    BY <1>1, <1>2, <1>5 DEF Store, ServiceFails, ServiceAnswerLost
  <1>6. ASSUME NEW u \in Tasks, Save(u) PROVE Kept
    BY <1>1, <1>6 DEF Save
  <1>7. ASSUME NEW c \in Conversions, ClientGet(c) \/ ClientSet(c) \/ ClientFails(c)
                                        \/ CachedRate(c)
        PROVE  Kept
    BY <1>1, <1>7 DEF ClientGet, ClientSet, ClientFails, CachedRate
  <1>8. ASSUME NEW c \in Conversions, Step(c) PROVE Kept \/ Found \/ Told
    BY <1>3, <1>4, <1>5, <1>6, <1>7, <1>8, BothTasks DEF Step
  <1>9. ASSUME \/ \E k \in FxKeys : ExpireRate(k)
               \/ \E d \in Dates : ExpireTable(d) \/ ClearRates(d) \/ ClearTable(d)
               \/ UNCHANGED vars
        PROVE  Kept
    BY <1>9 DEF ExpireRate, ExpireTable, ClearRates, ClearTable, vars
  <1> QED
    BY <1>5, <1>7, <1>8, <1>9 DEF Next

LEMMA NextQuotes == TypeInv /\ PairInv /\ QuoteInv /\ [Next]_vars => QuoteInv'
  <1> SUFFICES ASSUME TypeInv, PairInv, QuoteInv, [Next]_vars PROVE QuoteInv'
    OBVIOUS
  <1>1. \A d \in Dates : calls[d] \in Nat /\ calls'[d] \in Nat /\ calls'[d] >= calls[d]
    BY CallsGrow
  <1>2. \A d \in Dates : table[d] \in Nat /\ table[d] <= calls[d]
    BY DEF TypeInv, TypeOK, QuoteInv, RatesAreQuoted
  <1>3. ASSUME NEW t \in Tasks, service[t] \in {"store", "save"}
        PROVE  DateOf[t[1]] \in Dates /\ held[t] \in 1 .. calls[DateOf[t[1]]]
    BY <1>3, TaskTypes DEF QuoteInv, HeldQuoted
  <1>4. ASSUME NEW k \in FxKeys, fx'[k] # None
        PROVE  fx'[k].rate[2] = k[2] /\ fx'[k].rate[3] \in 1 .. calls'[k[2]]
    <2>1. k[2] \in Dates
      BY DEF FxKeys
    <2>2. CASE fx'[k] = fx[k]
      <3>1. fx[k].rate[2] = k[2] /\ fx[k].rate[3] \in 1 .. calls[k[2]]
        BY <1>4, <2>2 DEF QuoteInv, RatesAreQuoted
      <3> QED
        BY <1>1, <2>1, <2>2, <3>1
    <2>3. ASSUME NEW c \in Conversions, k = fxCacheKey(c), client[c] = "set",
                 fx'[k] = [format |-> "number", rate |-> answer[c]]
          PROVE  fx'[k].rate[2] = k[2] /\ fx'[k].rate[3] \in 1 .. calls'[k[2]]
      <3>1. k[2] = DateOf[c] /\ answer[c][2] = DateOf[c]
        BY <2>3, KeyTypes DEF PairInv, AnswersFit
      <3>2. answer[c][3] \in 1 .. calls[DateOf[c]]
        BY <2>3 DEF QuoteInv, AnswersQuoted
      <3> QED
        BY <1>1, <2>1, <2>3, <3>1, <3>2
    <2>4. ASSUME NEW t \in Tasks, k = buildKey(t[1]), service[t] = "save",
                 fx'[k] = [format |-> "json", rate |-> rateFromTable(t[1], held[t])]
          PROVE  fx'[k].rate[2] = k[2] /\ fx'[k].rate[3] \in 1 .. calls'[k[2]]
      <3>1. k[2] = DateOf[t[1]] /\ fx'[k].rate[2] = DateOf[t[1]] /\ fx'[k].rate[3] = held[t]
        BY <2>4, KeyTypes, TaskTypes DEF rateFromTable
      <3> QED
        BY <1>1, <1>3, <2>1, <2>4, <3>1
    <2> QED
      BY <1>4, <2>2, <2>3, <2>4, KeySources
  <1>5. ASSUME NEW d \in Dates PROVE table'[d] <= calls'[d]
    <2>1. CASE table'[d] \in {table[d], 0}
      BY <1>1, <1>2, <2>1
    <2>2. ASSUME NEW t \in Tasks, DateOf[t[1]] = d, service[t] = "store", table'[d] = held[t]
          PROVE  table'[d] <= calls'[d]
      BY <1>1, <1>3, <2>2
    <2> QED
      BY <2>1, <2>2, TableSources
  <1>6. ASSUME NEW c \in Conversions
        PROVE  /\ answer'[c] # None => answer'[c][3] \in 1 .. calls'[DateOf[c]]
               /\ client'[c] \in {"set", "done"} => answer'[c][3] \in 1 .. calls'[DateOf[c]]
    <2>1. DateOf[c] \in Dates /\ fxCacheKey(c) \in FxKeys /\ buildKey(c) \in FxKeys
      BY KeyTypes
    <2>2. CASE /\ answer'[c] = answer[c]
               /\ client'[c] \in {"set", "done"} => client[c] \in {"set", "done"}
      <3>1. answer[c] # None \/ client[c] \in {"set", "done"} =>
                answer[c][3] \in 1 .. calls[DateOf[c]]
        BY DEF QuoteInv, AnswersQuoted, RatesAreQuoted
      <3> QED
        BY <1>1, <2>1, <2>2, <3>1
    <2>3. ASSUME NEW k \in {fxCacheKey(c), buildKey(c)}, fx[k] # None, answer'[c] = fx[k].rate
          PROVE  answer'[c][3] \in 1 .. calls'[DateOf[c]]
      <3>1. k \in FxKeys /\ k[2] = DateOf[c]
        BY <2>1, KeyTypes
      <3>2. fx[k].rate[3] \in 1 .. calls[DateOf[c]]
        BY <2>3, <3>1 DEF QuoteInv, RatesAreQuoted
      <3> QED
        BY <1>1, <2>1, <2>3, <3>2
    <2>4. ASSUME NEW t \in Tasks, t[1] = c, service[t] = "save",
                 answer'[c] = rateFromTable(c, held[t])
          PROVE  answer'[c][3] \in 1 .. calls'[DateOf[c]]
      <3>1. answer'[c][3] = held[t]
        BY <2>4 DEF rateFromTable
      <3> QED
        BY <1>1, <1>3, <2>1, <2>4, <3>1
    <2> QED
      BY <2>2, <2>3, <2>4, AnswerSources DEF ReadsAsNumber, ReadsAsJson
  <1>7. ASSUME NEW t \in Tasks, service'[t] \in {"store", "save"}
        PROVE  held'[t] \in 1 .. calls'[DateOf[t[1]]]
    <2>1. DateOf[t[1]] \in Dates
      BY TaskTypes
    <2> QED
      BY <1>1, <1>2, <1>3, <1>7, <2>1, HeldSources
  <1>8. RatesAreQuoted'
    BY <1>4, <1>5, <1>6 DEF RatesAreQuoted
  <1>9. HeldQuoted'
    BY <1>7 DEF HeldQuoted
  <1>10. AnswersQuoted'
    BY <1>6 DEF AnswersQuoted
  <1> QED
    BY <1>8, <1>9, <1>10 DEF QuoteInv

\* No rate is made up: whatever a key, a table or a finished conversion holds was in
\* the answer to an external call for its date.
THEOREM RatesStemFromCalls == Spec => []RatesAreQuoted
  <1>1. Init => PairInv /\ QuoteInv
    BY DEF Init, PairInv, KeysFit, AnswersFit, QuoteInv, RatesAreQuoted, HeldQuoted, AnswersQuoted
  <1>2. QuoteInv => RatesAreQuoted
    BY DEF QuoteInv
  <1> QED
    BY TypesHold, NextPairs, NextQuotes, <1>1, <1>2, PTL DEF Spec

-----------------------------------------------------------------------------
(* Calls *)

\* The steps of a request and its refresh, in order.
LEMMA NextOrder == TypeInv /\ OrderInv /\ [Next]_vars => OrderInv'
  <1> SUFFICES ASSUME TypeInv, OrderInv, [Next]_vars PROVE OrderInv'
    OBVIOUS
  <1>1. /\ client \in [Conversions -> ClientControls] /\ service \in [Tasks -> Controls]
        /\ evictions \in Nat
    BY FxAssumption DEF TypeInv, TypeOK
  <1>2. ClearedOnRequest'
    <2>1. clearing' # clearing => \E d \in Dates : ClearRates(d) \/ ClearTable(d)
      BY BothTasks
         DEF Next, vars, Step, ClientGet, ClientSet, ClientFails, CachedRate, CachedTable,
             Call, Store, Save, ServiceFails, ServiceAnswerLost, ExpireRate, ExpireTable
    <2>2. evictions' >= evictions
      <3>1. ASSUME NEW t \in Tasks,
                   \/ CachedTable(t) \/ Call(t) \/ Store(t) \/ Save(t)
                   \/ ServiceFails(t) \/ ServiceAnswerLost(t)
            PROVE  evictions' = evictions
        BY <3>1 DEF CachedTable, Call, Store, Save, ServiceFails, ServiceAnswerLost,
                    Fault, limits
      <3>2. ASSUME NEW c \in Conversions,
                   ClientGet(c) \/ ClientSet(c) \/ CachedRate(c) \/ ClientFails(c)
            PROVE  evictions' = evictions
        BY <3>2 DEF ClientGet, ClientSet, CachedRate, ClientFails, Fault, limits
      <3>3. ASSUME \/ \E k \in FxKeys : ExpireRate(k)
                   \/ \E d \in Dates : ExpireTable(d) \/ ClearRates(d) \/ ClearTable(d)
                   \/ UNCHANGED vars
            PROVE  evictions' >= evictions
        BY <1>1, <3>3
           DEF ExpireRate, ExpireTable, ClearRates, ClearTable, Evict, limits, vars
      <3>4. ASSUME NEW c \in Conversions, Step(c) PROVE evictions' = evictions
        BY <3>1, <3>2, <3>4, BothTasks DEF Step
      <3>5. evictions' = evictions \/ evictions' >= evictions
        BY <3>1, <3>2, <3>3, <3>4 DEF Next
      <3> QED
        BY <1>1, <3>5
    <2>3. ASSUME NEW d \in Dates, ClearRates(d) PROVE evictions' > 0
      BY <1>1, <2>3 DEF ClearRates, Evict
    <2>4. ASSUME NEW d \in Dates, ClearTable(d) PROVE evictions > 0
      BY <2>4 DEF ClearTable, OrderInv, ClearedOnRequest
    <2>5. evictions' \in Nat
      BY NextTypes, FxAssumption DEF TypeInv, TypeOK
    <2> QED
      BY <1>1, <2>1, <2>2, <2>3, <2>4, <2>5 DEF OrderInv, ClearedOnRequest
  <1> SUFFICES ASSUME NEW c \in Conversions
               PROVE  /\ client'[c] = "get" => service'[<<c, "main">>] = "idle"
                      /\ service'[<<c, "main">>] \notin {"ended", "error"} =>
                            service'[<<c, "back">>] = "idle"
    BY <1>2 DEF OrderInv
  <1>3. /\ client[c] = "get" => service[<<c, "main">>] = "idle"
        /\ service[<<c, "main">>] \notin {"ended", "error"} => service[<<c, "back">>] = "idle"
        /\ <<c, "main">> \in Tasks /\ <<c, "back">> \in Tasks
    BY BothTasks DEF OrderInv
  <1>4. ASSUME NEW b \in Conversions, ClientGet(b)
        PROVE  /\ client'[c] = "get" => service'[<<c, "main">>] = "idle"
               /\ service'[<<c, "main">>] \notin {"ended", "error"} =>
                     service'[<<c, "back">>] = "idle"
    BY <1>1, <1>3, <1>4, BothTasks DEF ClientGet
  <1>5. ASSUME client'[c] = "get" => client[c] = "get", service' = service
        PROVE  /\ client'[c] = "get" => service'[<<c, "main">>] = "idle"
               /\ service'[<<c, "main">>] \notin {"ended", "error"} =>
                     service'[<<c, "back">>] = "idle"
    BY <1>3, <1>5
  <1>6. ASSUME NEW b \in Conversions, CachedRate(b)
        PROVE  /\ client'[c] = "get" => service'[<<c, "main">>] = "idle"
               /\ service'[<<c, "main">>] \notin {"ended", "error"} =>
                     service'[<<c, "back">>] = "idle"
    <2>1. client'[c] = "get" => client[c] = "get"
      BY <1>1, <1>6 DEF CachedRate, Reply
    <2> QED
      BY <1>1, <1>3, <1>6, <2>1, BothTasks DEF CachedRate
  <1>7. ASSUME NEW t \in Tasks, \/ CachedTable(t) \/ Call(t) \/ Store(t) \/ Save(t)
                                \/ ServiceFails(t) \/ ServiceAnswerLost(t)
        PROVE  /\ client'[c] = "get" => service'[<<c, "main">>] = "idle"
               /\ service'[<<c, "main">>] \notin {"ended", "error"} =>
                     service'[<<c, "back">>] = "idle"
    <2>1. client'[c] = "get" => client[c] = "get"
      BY <1>1, <1>7, TaskTypes
         DEF CachedTable, Call, Store, Save, ServiceFails, ServiceAnswerLost, Reply,
             TaskFails, ReplyError
    <2>2. service[t] # "idle"
      BY <1>7 DEF CachedTable, Call, Store, Save, ServiceFails, ServiceAnswerLost
    <2>3. CASE t[1] # c
      <3>1. service'[<<c, "main">>] = service[<<c, "main">>]
            /\ service'[<<c, "back">>] = service[<<c, "back">>]
        BY <1>1, <1>3, <1>7, <2>3, TaskTypes
           DEF CachedTable, Call, Store, Save, ServiceFails, ServiceAnswerLost, TaskFails
      <3> QED
        BY <1>3, <2>1, <3>1
    <2>4. CASE t = <<c, "main">>
      <3>1. TaskFails(t) => service'[t] \in {"ended", "error"}
        BY <1>1 DEF TaskFails
      <3>2. CASE service'[t] \in {"ended", "error"}
        BY <2>1, <2>2, <2>4, <3>2, <1>3
      <3>3. CASE service'[t] \notin {"ended", "error"}
        <4>1. \E p \in {"save", "http", "store"} : service' = [service EXCEPT ![t] = p]
          <5>1. ~Save(t) /\ ~ServiceFails(t) /\ ~ServiceAnswerLost(t)
            BY <1>1, <2>4, <3>1, <3>3 DEF Save, ServiceFails, ServiceAnswerLost
          <5> QED
            BY <1>7, <3>1, <3>3, <5>1 DEF CachedTable, Call, Store
        <4>2. service[t] \notin {"ended", "error"}
          BY <1>7, <3>3, <1>1 DEF CachedTable, Call, Store, Save, ServiceFails,
                                  ServiceAnswerLost
        <4> QED
          BY <1>1, <1>3, <2>1, <2>2, <2>4, <4>1, <4>2
      <3> QED
        BY <3>2, <3>3
    <2>5. CASE t = <<c, "back">>
      <3>1. service'[<<c, "main">>] = service[<<c, "main">>]
        <4>1. t[2] = "back" /\ <<c, "main">> # t
          BY <2>5
        <4>2. TaskFails(t) => service'[<<c, "main">>] = service[<<c, "main">>]
          BY <1>1, <1>3, <4>1 DEF TaskFails
        <4>3. Save(t) => service'[<<c, "main">>] = service[<<c, "main">>]
          BY <1>1, <1>3, <4>1 DEF Save
        <4> QED
          BY <1>1, <1>3, <1>7, <4>1, <4>2, <4>3 DEF CachedTable, Call, Store,
                                                    ServiceFails, ServiceAnswerLost
      <3> QED
        BY <1>3, <2>1, <2>2, <2>5, <3>1
    <2> QED
      BY <2>3, <2>4, <2>5, TaskTypes
  <1>8. ASSUME NEW b \in Conversions, Step(b)
        PROVE  /\ client'[c] = "get" => service'[<<c, "main">>] = "idle"
               /\ service'[<<c, "main">>] \notin {"ended", "error"} =>
                     service'[<<c, "back">>] = "idle"
    <2>1. ClientSet(b) => service' = service /\ (client'[c] = "get" => client[c] = "get")
      BY <1>1 DEF ClientSet
    <2> QED
      BY <1>4, <1>5, <1>6, <1>7, <1>8, <2>1, BothTasks DEF Step
  <1>9. ASSUME NEW b \in Conversions, ClientFails(b)
        PROVE  service' = service /\ (client'[c] = "get" => client[c] = "get")
    BY <1>1, <1>9 DEF ClientFails
  <1>10. ASSUME \/ \E k \in FxKeys : ExpireRate(k)
                \/ \E d \in Dates : ExpireTable(d) \/ ClearRates(d) \/ ClearTable(d)
                \/ UNCHANGED vars
         PROVE  service' = service /\ client' = client
    BY <1>10 DEF ExpireRate, ExpireTable, ClearRates, ClearTable, vars
  <1> QED
    BY <1>5, <1>7, <1>8, <1>9, <1>10 DEF Next

\* A call that is answered.
Answered(t) ==
    LET c == t[1]  d == DateOf[c] IN
    /\ service[t] = "http"
    /\ calls' = [calls EXCEPT ![d] = @ + 1]
    /\ asked' = [asked EXCEPT ![c] = @ + 1]
    /\ service' = [service EXCEPT ![t] = "store"]
    /\ UNCHANGED <<table, together>>

\* What a step does while nothing has failed or been evicted.
LEMMA SmoothStep ==
    ASSUME TypeInv, OrderInv, [Next]_vars, faults' = 0, evictions' = 0
    PROVE  /\ faults = 0 /\ evictions = 0
           /\ \/ UNCHANGED <<service, table, calls, asked, together>>
              \/ \E c \in Conversions : ClientGet(c) \/ CachedRate(c)
              \/ \E t \in Tasks : CachedTable(t) \/ Answered(t) \/ Store(t) \/ Save(t)
  <1>1. faults \in Nat /\ evictions \in Nat /\ (evictions = 0 => clearing = {})
    BY FxAssumption DEF TypeInv, TypeOK, OrderInv, ClearedOnRequest
  <1>2. ~Fault /\ ~Evict
    BY <1>1 DEF Fault, Evict
  <1>3. ASSUME NEW t \in Tasks, CachedTable(t) \/ Call(t) \/ Store(t) \/ Save(t)
        PROVE  /\ UNCHANGED limits
               /\ CachedTable(t) \/ Answered(t) \/ Store(t) \/ Save(t)
    BY <1>2, <1>3 DEF CachedTable, Call, Store, Save, Answered
  <1>4. ASSUME NEW c \in Conversions, ClientGet(c) \/ ClientSet(c) \/ CachedRate(c)
        PROVE  /\ UNCHANGED limits
               /\ \/ UNCHANGED <<service, table, calls, asked, together>>
                  \/ ClientGet(c) \/ CachedRate(c)
    BY <1>4 DEF ClientGet, ClientSet, CachedRate
  <1>5. /\ ~(\E t \in Tasks : ServiceFails(t) \/ ServiceAnswerLost(t))
        /\ ~(\E c \in Conversions : ClientFails(c))
    BY <1>2 DEF ServiceFails, ServiceAnswerLost, ClientFails
  <1>6. ~(\E k \in FxKeys : ExpireRate(k)) /\ ~(\E d \in Dates : ExpireTable(d) \/ ClearRates(d))
    BY <1>2 DEF ExpireRate, ExpireTable, ClearRates
  <1>7. ASSUME NEW d \in Dates, ClearTable(d) PROVE FALSE
    BY <1>1, <1>7 DEF ClearTable, limits
  <1>8. CASE UNCHANGED vars
    BY <1>8 DEF vars, limits
  <1>9. ASSUME NEW c \in Conversions, Step(c)
        PROVE  /\ UNCHANGED limits
               /\ \/ UNCHANGED <<service, table, calls, asked, together>>
                  \/ \E b \in Conversions : ClientGet(b) \/ CachedRate(b)
                  \/ \E t \in Tasks : CachedTable(t) \/ Answered(t) \/ Store(t) \/ Save(t)
    BY <1>3, <1>4, <1>9, BothTasks DEF Step
  <1> QED
    BY <1>5, <1>6, <1>7, <1>8, <1>9 DEF Next, limits

LEMMA NextCalls == TypeInv /\ OrderInv /\ QuoteInv /\ CallInv /\ [Next]_vars => CallInv'
  <1> SUFFICES ASSUME TypeInv, OrderInv, QuoteInv, CallInv, [Next]_vars,
                      NEW d \in Dates, faults' = 0, evictions' = 0, d \notin together'
               PROVE  OneAtATime(d)'
    BY DEF CallInv
  <1>1. /\ service \in [Tasks -> Controls] /\ table \in [Dates -> Nat] /\ calls \in [Dates -> Nat]
    BY DEF TypeInv, TypeOK
  <1>2. together \subseteq together'
    <2>1. ASSUME NEW t \in Tasks, CachedTable(t) PROVE together \subseteq together'
      BY <2>1 DEF CachedTable
    <2> QED
      BY <2>1, SmoothStep DEF ClientGet, CachedRate, Answered, Store, Save
  <1>3. OneAtATime(d)
    BY <1>2, SmoothStep DEF CallInv
  <1>4. CASE UNCHANGED <<service, table, calls, asked, together>>
    BY <1>3, <1>4 DEF OneAtATime, Asking
  <1>5. ASSUME NEW c \in Conversions, ClientGet(c) \/ CachedRate(c) PROVE OneAtATime(d)'
    <2>1. service[<<c, "main">>] \in {"idle", "rate"} /\ UNCHANGED <<table, calls>>
      BY <1>5 DEF ClientGet, CachedRate, OrderInv
    <2>2. \/ service' = service
          \/ \E p \in {"rate", "table", "ended"} : service' = [service EXCEPT ![<<c, "main">>] = p]
      BY <1>5 DEF ClientGet, CachedRate
    <2>3. <<c, "main">> \in Tasks
      BY BothTasks
    <2>4. \A t \in Tasks : service'[t] = service[t]
              \/ /\ service'[t] \in {"rate", "table", "ended"}
                 /\ service[t] \in {"idle", "rate"}
      BY <1>1, <2>1, <2>2, <2>3
    <2> QED
      BY <1>3, <2>1, <2>4 DEF OneAtATime, Asking
  <1>6. ASSUME NEW t \in Tasks, CachedTable(t) PROVE OneAtATime(d)'
    <2>1. UNCHANGED <<table, calls>> /\ service[t] = "table"
      BY <1>6 DEF CachedTable
    <2>2. CASE service' = [service EXCEPT ![t] = "save"]
      BY <1>1, <1>3, <2>1, <2>2 DEF OneAtATime, Asking
    <2>3. CASE /\ service' = [service EXCEPT ![t] = "http"] /\ table[DateOf[t[1]]] = 0
      <3>1. CASE DateOf[t[1]] # d
        BY <1>1, <1>3, <2>1, <2>3, <3>1 DEF OneAtATime, Asking
      <3>2. CASE DateOf[t[1]] = d
        <4>1. \A u \in Tasks : ~Asking(u, d)
          BY <1>6, <2>3, <3>2, <1>1 DEF CachedTable, Asking
        <4>2. calls[d] = 0
          BY <1>1, <1>3, <2>3, <3>2, <4>1 DEF OneAtATime, Asking
        <4> QED
          BY <1>1, <1>3, <2>1, <2>3, <3>2, <4>1, <4>2 DEF OneAtATime, Asking
      <3> QED
        BY <3>1, <3>2
    <2> QED
      BY <1>6, <2>2, <2>3 DEF CachedTable
  <1>7. ASSUME NEW t \in Tasks, Answered(t) PROVE OneAtATime(d)'
    <2>1. /\ service[t] = "http" /\ service' = [service EXCEPT ![t] = "store"] /\ table' = table
          /\ calls' = [calls EXCEPT ![DateOf[t[1]]] = @ + 1] /\ DateOf[t[1]] \in Dates
      BY <1>7, TaskTypes DEF Answered
    <2>2. CASE DateOf[t[1]] # d
      BY <1>1, <1>3, <2>1, <2>2 DEF OneAtATime, Asking
    <2>3. CASE DateOf[t[1]] = d
      <3>1. calls[d] = 0 /\ calls'[d] = 1
        BY <1>1, <1>3, <2>1, <2>3 DEF OneAtATime
      <3>2. \A u \in Tasks : Asking(u, d)' => u = t
        BY <1>1, <1>3, <2>1, <2>3 DEF OneAtATime, Asking
      <3>3. service'[t] = "store"
        BY <1>1, <2>1
      <3> QED
        BY <2>3, <3>1, <3>2, <3>3 DEF OneAtATime, Asking
    <2> QED
      BY <2>2, <2>3
  <1>8. ASSUME NEW t \in Tasks, Store(t) PROVE OneAtATime(d)'
    <2>1. /\ service[t] = "store" /\ service' = [service EXCEPT ![t] = "save"] /\ calls' = calls
          /\ table' = [table EXCEPT ![DateOf[t[1]]] = held[t]] /\ DateOf[t[1]] \in Dates
          /\ held[t] > 0
      BY <1>8, TaskTypes DEF Store, QuoteInv, HeldQuoted
    <2>2. CASE DateOf[t[1]] # d
      BY <1>1, <1>3, <2>1, <2>2 DEF OneAtATime, Asking
    <2>3. CASE DateOf[t[1]] = d
      <3>1. \A u \in Tasks : ~Asking(u, d)'
        BY <1>1, <1>3, <2>1, <2>3 DEF OneAtATime, Asking
      <3>2. table'[d] # 0
        BY <1>1, <2>1, <2>3
      <3> QED
        BY <1>3, <2>1, <3>1, <3>2 DEF OneAtATime, Asking
    <2> QED
      BY <2>2, <2>3
  <1>9. ASSUME NEW t \in Tasks, Save(t) PROVE OneAtATime(d)'
    <2>1. /\ service[t] = "save" /\ UNCHANGED <<table, calls>>
          /\ \A u \in Tasks : \/ service'[u] = service[u]
                              \/ /\ service'[u] \in {"table", "ended"}
                                 /\ service[u] \in {"save", "idle"}
      <3>1. t[2] = "main" => service[<<t[1], "back">>] = "idle" /\ t = <<t[1], "main">>
        BY <1>9, TaskTypes DEF Save, OrderInv
      <3> QED
        BY <1>1, <1>9, <3>1, TaskTypes, BothTasks DEF Save
    <2> QED
      BY <1>1, <1>3, <2>1 DEF OneAtATime, Asking
  <1> QED
    BY <1>4, <1>5, <1>6, <1>7, <1>8, <1>9, SmoothStep

\* A date costs a second external call only when something failed, a key went away
\* or two tasks asked the provider at once: no number of conversions one after the
\* other, in whatever pairs, brings it about.
THEOREM SecondCallsHaveACause == Spec => []SecondCallHasACause
  <1>1. Init => PairInv /\ QuoteInv /\ OrderInv /\ CallInv
    <2> SUFFICES ASSUME Init PROVE PairInv /\ QuoteInv /\ OrderInv /\ CallInv
      OBVIOUS
    <2>1. PairInv /\ QuoteInv
      BY DEF Init, PairInv, KeysFit, AnswersFit, QuoteInv, RatesAreQuoted, HeldQuoted, AnswersQuoted
    <2>2. OrderInv
      BY BothTasks DEF Init, OrderInv, ClearedOnRequest
    <2>3. CallInv
      BY DEF Init, CallInv, OneAtATime, Asking
    <2> QED
      BY <2>1, <2>2, <2>3
  <1>2. TypeInv /\ CallInv => SecondCallHasACause
    <2> SUFFICES ASSUME TypeInv, CallInv, NEW d \in Dates, calls[d] > 1
                 PROVE  faults > 0 \/ evictions > 0 \/ d \in together
      BY DEF SecondCallHasACause
    <2>1. calls[d] \in Nat /\ faults \in Nat /\ evictions \in Nat
      BY FxAssumption DEF TypeInv, TypeOK
    <2>2. ~OneAtATime(d)
      BY <2>1 DEF OneAtATime
    <2> QED
      BY <2>1, <2>2 DEF CallInv
  <1> QED
    BY TypesHold, NextPairs, NextQuotes, NextOrder, NextCalls, <1>1, <1>2, PTL DEF Spec

LEMMA NextFree == TypeInv /\ OrderInv /\ QuoteInv /\ FreeInv /\ [Next]_vars => FreeInv'
  <1> SUFFICES ASSUME TypeInv, OrderInv, QuoteInv, FreeInv, [Next]_vars,
                      faults' = 0, evictions' = 0, NEW c \in Conversions
               PROVE  RefreshFinds(c)'
    BY DEF FreeInv
  <1> DEFINE main == <<c, "main">>  back == <<c, "back">>
  <1>1. /\ service \in [Tasks -> Controls] /\ table \in [Dates -> Nat]
        /\ asked \in [Conversions -> Nat] /\ DateOf[c] \in Dates
        /\ main \in Tasks /\ back \in Tasks /\ main # back
    BY BothTasks, KeyTypes DEF TypeInv, TypeOK
  <1>2. RefreshFinds(c) /\ (service[main] \notin {"ended", "error"} => service[back] = "idle")
    BY SmoothStep DEF FreeInv, OrderInv
  <1>3. CASE UNCHANGED <<service, table, calls, asked, together>>
    BY <1>2, <1>3 DEF RefreshFinds
  <1>4. ASSUME NEW b \in Conversions, ClientGet(b) \/ CachedRate(b) PROVE RefreshFinds(c)'
    <2>1. /\ UNCHANGED <<table, asked>> /\ <<b, "main">> \in Tasks
          /\ \/ service' = service
             \/ /\ service[<<b, "main">>] = "idle"
                /\ service' = [service EXCEPT ![<<b, "main">>] = "rate"]
             \/ /\ service[<<b, "main">>] = "rate"
                /\ \E p \in {"ended", "table"} : service' = [service EXCEPT ![<<b, "main">>] = p]
      BY <1>4, BothTasks DEF ClientGet, CachedRate, OrderInv
    <2>2. service'[back] = service[back]
      BY <1>1, <2>1
    <2>3. \/ service'[main] = service[main]
          \/ /\ service[main] \in {"idle", "rate"}
             /\ service'[main] \in {"rate", "ended", "table"}
      BY <1>1, <2>1
    <2> QED
      BY <1>2, <2>1, <2>2, <2>3 DEF RefreshFinds
  <1>5. ASSUME NEW t \in Tasks, CachedTable(t) \/ Answered(t) \/ Store(t) \/ Save(t), t[1] # c
        PROVE  RefreshFinds(c)'
    <2>1. service'[main] = service[main] /\ service'[back] = service[back]
      BY <1>1, <1>5, TaskTypes DEF CachedTable, Answered, Store, Save
    <2>2. asked'[c] = asked[c]
      BY <1>1, <1>5, TaskTypes DEF CachedTable, Answered, Store, Save
    <2>3. table[DateOf[c]] # 0 => table'[DateOf[c]] # 0
      <3>1. Store(t) => held[t] > 0
        BY DEF Store, QuoteInv, HeldQuoted
      <3> QED
        BY <1>1, <1>5, <3>1, TaskTypes DEF CachedTable, Answered, Store, Save
    <2> QED
      BY <1>2, <2>1, <2>2, <2>3 DEF RefreshFinds
  <1>6. ASSUME CachedTable(main) \/ Answered(main) \/ Store(main) \/ Save(main)
        PROVE  RefreshFinds(c)'
    <2>1. service[back] = "idle"
      BY <1>2, <1>6 DEF CachedTable, Answered, Store, Save
    <2>2. CASE CachedTable(main)
      BY <1>1, <1>2, <2>1, <2>2 DEF CachedTable, RefreshFinds
    <2>3. CASE Answered(main)
      BY <1>1, <1>2, <2>1, <2>3 DEF Answered, RefreshFinds
    <2>4. CASE Store(main)
      <3>1. held[main] # 0
        BY <1>1, <2>4 DEF Store, QuoteInv, HeldQuoted
      <3> QED
        BY <1>1, <1>2, <2>1, <2>4, <3>1 DEF Store, RefreshFinds
    <2>5. CASE Save(main)
      <3>1. /\ service' = [service EXCEPT ![main] = "ended", ![back] = "table"]
            /\ service[main] = "save" /\ UNCHANGED <<table, asked>>
        BY <2>5 DEF Save
      <3> QED
        BY <1>1, <1>2, <3>1 DEF RefreshFinds
    <2> QED
      BY <1>6, <2>2, <2>3, <2>4, <2>5
  <1>7. ASSUME CachedTable(back) \/ Answered(back) \/ Store(back) \/ Save(back)
        PROVE  RefreshFinds(c)'
    <2>1. /\ service[back] \notin {"http", "store", "idle"} /\ table[DateOf[c]] # 0
          /\ service[main] \in {"ended", "error"}
      BY <1>2, <1>7 DEF RefreshFinds, CachedTable, Answered, Store, Save
    <2>2. CASE CachedTable(back)
      BY <1>1, <1>2, <2>1, <2>2 DEF CachedTable, RefreshFinds
    <2>3. CASE Save(back)
      BY <1>1, <1>2, <2>1, <2>3 DEF Save, RefreshFinds
    <2> QED
      BY <1>7, <2>1, <2>2, <2>3 DEF Answered, Store
  <1> QED
    BY <1>3, <1>4, <1>5, <1>6, <1>7, SmoothStep, TaskTypes

\* One conversion never costs two external calls while nothing fails and no key goes
\* away: the refresh it starts in the background finds the table of its request.
THEOREM RefreshesAreFree == Spec => []RefreshIsFree
  <1>1. Init => PairInv /\ QuoteInv /\ OrderInv /\ FreeInv
    <2> SUFFICES ASSUME Init PROVE PairInv /\ QuoteInv /\ OrderInv /\ FreeInv
      OBVIOUS
    <2>1. PairInv /\ QuoteInv
      BY DEF Init, PairInv, KeysFit, AnswersFit, QuoteInv, RatesAreQuoted, HeldQuoted, AnswersQuoted
    <2>2. OrderInv
      BY BothTasks DEF Init, OrderInv, ClearedOnRequest
    <2>3. ASSUME NEW c \in Conversions PROVE RefreshFinds(c)
      <3>1. service[<<c, "main">>] = "idle" /\ service[<<c, "back">>] = "idle" /\ asked[c] = 0
        BY BothTasks DEF Init
      <3> QED
        BY <3>1 DEF RefreshFinds
    <2>4. FreeInv
      BY <2>3 DEF FreeInv
    <2> QED
      BY <2>1, <2>2, <2>4
  <1>2. TypeInv /\ FreeInv => RefreshIsFree
    <2> SUFFICES ASSUME TypeInv, FreeInv, NEW c \in Conversions, asked[c] > 1
                 PROVE  faults > 0 \/ evictions > 0
      BY DEF RefreshIsFree
    <2>1. asked[c] \in Nat /\ faults \in Nat /\ evictions \in Nat
      BY FxAssumption DEF TypeInv, TypeOK
    <2>2. ~RefreshFinds(c)
      BY <2>1 DEF RefreshFinds
    <2> QED
      BY <2>1, <2>2 DEF FreeInv
  <1> QED
    BY TypesHold, NextPairs, NextQuotes, NextOrder, NextFree, <1>1, <1>2, PTL DEF Spec

=============================================================================
