------------------------------- MODULE FxCache -------------------------------
(***************************************************************************)
(* Exchange rates: the worker's CurrencyClient.convert, the conversion of   *)
(* currency-service behind it, and the Redis keys both keep rates under.    *)
(*                                                                         *)
(* The worker keeps a rate as a bare number under fx:<BASE>:<ORIGINAL>, the *)
(* service as JSON under fx:<FROM>:<TO>, where FROM is the original: the    *)
(* two of them use each other's key for opposite directions of a pair.  A   *)
(* miss in the service asks the provider in the request and again in the    *)
(* background, through a table of rates per date.  Each step below is one   *)
(* await.  A rate is the pair and date it is of, and the quote (the number  *)
(* of the provider's answer) it was computed from.                          *)
(***************************************************************************)
EXTENDS Integers, FiniteSets

CONSTANTS
    Conversions,   \* calls of CurrencyClient.convert
    Currencies, Dates,
    OriginalOf, BaseOf, DateOf,   \* of a conversion; equal currencies never get here
    None,
    MaxFaults,     \* bound: failing calls and timeouts
    MaxEvictions   \* bound: expired keys and DELETE /cache/fx requests

ASSUME FxAssumption ==
    /\ OriginalOf \in [Conversions -> Currencies]
    /\ BaseOf \in [Conversions -> Currencies]
    /\ DateOf \in [Conversions -> Dates]
    /\ \A c \in Conversions : OriginalOf[c] # BaseOf[c]
    /\ MaxFaults \in Nat
    /\ MaxEvictions \in Nat

VARIABLES
    fx,        \* the keys fx:<A>:<B>:<date>
    table,     \* the keys fx_table:<date>: the quote they hold, 0 if absent
    client,    \* control point of a conversion in the worker
    answer,    \* the rate a conversion ended with
    service,   \* control point of the request, and of the refresh it starts
    held,      \* the quote a service task computes with
    calls,     \* external calls per date
    asked,     \* external calls per conversion
    clearing,  \* DELETE /cache/fx: dates whose fx keys are gone and table is not
    together,  \* history: dates for which two tasks called the provider at once
    faults, evictions

vars == <<fx, table, client, answer, service, held, calls, asked, clearing,
          together, faults, evictions>>
limits == <<faults, evictions>>

-----------------------------------------------------------------------------
Pairs == {p \in Currencies \X Currencies : p[1] # p[2]}
Rates == Pairs \X Dates \X Nat
FxKeys == Pairs \X Dates
Formats == {"json", "number"}
Entries == [format : Formats, rate : Rates]

\* The request (main) and the refresh (back) of a conversion.
Tasks == Conversions \X {"main", "back"}
AtProvider == {"table", "http", "store"}
AtService == {"rate"} \union AtProvider \union {"save"}
Controls == {"idle", "ended", "error"} \union AtService
ClientControls == {"get", "wait", "set", "done", "failed"}

Flip(p) == <<p[2], p[1]>>

\* What is converted: the pair from the original to the base currency.
Pair(c) == <<OriginalOf[c], BaseOf[c]>>

\* RedisCacheService.buildKey and CurrencyClient.fxCacheKey.
buildKey(c) == <<Pair(c), DateOf[c]>>
fxCacheKey(c) == <<Flip(Pair(c)), DateOf[c]>>

\* (mutant) The base currency's rate is divided by itself.
RateToItself(c, q) == <<<<BaseOf[c], BaseOf[c]>>, DateOf[c], q>>

\* rateFromTable over the table of quote q.
rateFromTable(c, q) == <<Pair(c), DateOf[c], q>>

\* (mutant) Any entry is taken for a number.
ReadsAsNumberAny(entry) == entry # None

\* Number(cached) is NaN for JSON; JSON.parse of a number has no rate in it.
ReadsAsNumber(entry) == entry # None /\ entry.format = "number"
ReadsAsJson(entry) == entry # None /\ entry.format = "json"

-----------------------------------------------------------------------------
Init ==
    /\ fx = [k \in FxKeys |-> None]
    /\ table = [d \in Dates |-> 0]
    /\ client = [c \in Conversions |-> "get"]
    /\ answer = [c \in Conversions |-> None]
    /\ service = [t \in Tasks |-> "idle"]
    /\ held = [t \in Tasks |-> 0]
    /\ calls = [d \in Dates |-> 0]
    /\ asked = [c \in Conversions |-> 0]
    /\ clearing = {}
    /\ together = {}
    /\ faults = 0
    /\ evictions = 0

Fault == faults < MaxFaults /\ faults' = faults + 1 /\ UNCHANGED evictions
Evict == evictions < MaxEvictions /\ evictions' = evictions + 1 /\ UNCHANGED faults

(* CurrencyClient.convert, in the worker *)

ClientGet(c) ==
    LET entry == fx[fxCacheKey(c)] IN
    /\ client[c] = "get"
    /\ \/ /\ ReadsAsNumber(entry)
          /\ client' = [client EXCEPT ![c] = "done"]
          /\ answer' = [answer EXCEPT ![c] = entry.rate]
          /\ UNCHANGED service
       \/ /\ ~ReadsAsNumber(entry)
          /\ client' = [client EXCEPT ![c] = "wait"]
          /\ service' = [service EXCEPT ![<<c, "main">>] = "rate"]
          /\ UNCHANGED answer
    /\ UNCHANGED <<fx, table, held, calls, asked, clearing, together, limits>>

\* (mutant) The client and the service use one key for a pair and its inverse.
ClientSetJson(c) ==
    /\ client[c] = "set"
    /\ fx' = [fx EXCEPT ![fxCacheKey(c)] = [format |-> "json", rate |-> answer[c]]]
    /\ client' = [client EXCEPT ![c] = "done"]
    /\ UNCHANGED <<table, answer, service, held, calls, asked, clearing, together, limits>>

ClientSet(c) ==
    /\ client[c] = "set"
    /\ fx' = [fx EXCEPT ![fxCacheKey(c)] = [format |-> "number", rate |-> answer[c]]]
    /\ client' = [client EXCEPT ![c] = "done"]
    /\ UNCHANGED <<table, answer, service, held, calls, asked, clearing, together, limits>>

\* The HTTP call times out or fails while the service goes on, or Redis rejects, or
\* it stores the rate and its answer is lost.
ClientFails(c) ==
    /\ client[c] \in {"get", "wait", "set"}
    /\ Fault
    /\ client' = [client EXCEPT ![c] = "failed"]
    /\ \/ UNCHANGED fx
       \/ /\ client[c] = "set"
          /\ fx' = [fx EXCEPT ![fxCacheKey(c)] = [format |-> "number", rate |-> answer[c]]]
    /\ UNCHANGED <<table, answer, service, held, calls, asked, clearing, together>>

(* ConversionService, in currency-service *)

\* The answer reaches the worker, unless it has given up waiting.
Reply(c, rate) ==
    \/ /\ client[c] = "wait"
       /\ client' = [client EXCEPT ![c] = "set"]
       /\ answer' = [answer EXCEPT ![c] = rate]
    \/ client[c] # "wait" /\ UNCHANGED <<client, answer>>

\* (mutant) The worker learns nothing of the failure.
ReplyNothing(c) == UNCHANGED client

ReplyError(c) ==
    client' = [client EXCEPT ![c] = IF @ = "wait" THEN "failed" ELSE @]

\* getRateWithCache: cache.getRate.
CachedRate(c) ==
    LET entry == fx[buildKey(c)] IN
    /\ service[<<c, "main">>] = "rate"
    /\ \/ /\ ReadsAsJson(entry)
          /\ service' = [service EXCEPT ![<<c, "main">>] = "ended"]
          /\ Reply(c, entry.rate)
       \/ /\ ~ReadsAsJson(entry)
          /\ service' = [service EXCEPT ![<<c, "main">>] = "table"]
          /\ UNCHANGED <<client, answer>>
    /\ UNCHANGED <<fx, table, held, calls, asked, clearing, together, limits>>

\* (mutant) A refresh does not look at the table.
RefreshAsksAnew(t) ==
    LET d == DateOf[t[1]] IN
    /\ service[t] = "table"
    /\ service' = [service EXCEPT ![t] = IF t[2] = "main" /\ table[d] # 0 THEN "save" ELSE "http"]
    /\ held' = [held EXCEPT ![t] = IF t[2] = "main" THEN table[d] ELSE @]
    /\ UNCHANGED <<fx, table, client, answer, calls, asked, clearing, together, limits>>

\* The provider: cache.getRatesTable.
CachedTable(t) ==
    LET d == DateOf[t[1]] IN
    /\ service[t] = "table"
    /\ \/ /\ table[d] # 0
          /\ held' = [held EXCEPT ![t] = table[d]]
          /\ service' = [service EXCEPT ![t] = "save"]
          /\ UNCHANGED together
       \/ /\ table[d] = 0
          /\ service' = [service EXCEPT ![t] = "http"]
          /\ together' = IF \E u \in Tasks : /\ DateOf[u[1]] = d
                                             /\ service[u] \in {"http", "store"}
                         THEN together \union {d} ELSE together
          /\ UNCHANGED held
    /\ UNCHANGED <<fx, table, client, answer, calls, asked, clearing, limits>>

\* A failure of the request's task starts the refresh all the same (finally); a
\* failing refresh is swallowed.
TaskFails(t) ==
    /\ service' = [u \in Tasks |->
          IF u = t THEN "error"
          ELSE IF t[2] = "main" /\ u = <<t[1], "back">> THEN "table"
          ELSE service[u]]
    /\ IF t[2] = "main" THEN ReplyError(t[1]) ELSE UNCHANGED client

\* (mutant) A failing call is answered from built-in rates.
CallDefaults(t) ==
    LET c == t[1]  d == DateOf[c] IN
    /\ service[t] = "http"
    /\ calls' = [calls EXCEPT ![d] = @ + 1]
    /\ asked' = [asked EXCEPT ![c] = @ + 1]
    /\ \/ /\ held' = [held EXCEPT ![t] = calls[d] + 1]
          /\ service' = [service EXCEPT ![t] = "store"]
          /\ UNCHANGED limits
       \/ Fault /\ service' = [service EXCEPT ![t] = "save"] /\ UNCHANGED held
    /\ UNCHANGED <<fx, table, client, answer, clearing, together>>

\* The external call, counted whether it is answered or not.
Call(t) ==
    LET c == t[1]  d == DateOf[c] IN
    /\ service[t] = "http"
    /\ calls' = [calls EXCEPT ![d] = @ + 1]
    /\ asked' = [asked EXCEPT ![c] = @ + 1]
    /\ \/ /\ held' = [held EXCEPT ![t] = calls[d] + 1]
          /\ service' = [service EXCEPT ![t] = "store"]
          /\ UNCHANGED <<client, limits>>
       \/ Fault /\ TaskFails(t) /\ UNCHANGED held
    /\ UNCHANGED <<fx, table, answer, clearing, together>>

\* (mutant) The table is not kept.
StoreNothing(t) ==
    /\ service[t] = "store"
    /\ service' = [service EXCEPT ![t] = "save"]
    /\ UNCHANGED <<fx, table, client, answer, held, calls, asked, clearing, together, limits>>

\* cache.setRatesTable.
Store(t) ==
    /\ service[t] = "store"
    /\ table' = [table EXCEPT ![DateOf[t[1]]] = held[t]]
    /\ service' = [service EXCEPT ![t] = "save"]
    /\ UNCHANGED <<fx, client, answer, held, calls, asked, clearing, together, limits>>

\* cache.setRate; the request then answers and starts the refresh.
Save(t) ==
    LET c == t[1]  rate == rateFromTable(c, held[t]) IN
    /\ service[t] = "save"
    /\ fx' = [fx EXCEPT ![buildKey(c)] = [format |-> "json", rate |-> rate]]
    /\ \/ /\ t[2] = "main"
          /\ service' = [service EXCEPT ![t] = "ended", ![<<c, "back">>] = "table"]
          /\ Reply(c, rate)
       \/ /\ t[2] = "back"
          /\ service' = [service EXCEPT ![t] = "ended"]
          /\ UNCHANGED <<client, answer>>
    /\ UNCHANGED <<table, held, calls, asked, clearing, together, limits>>

\* Redis rejects a command of the service: before the try block only the request
\* fails, inside it the refresh starts.
ServiceFails(t) ==
    /\ service[t] \in {"rate", "table", "store", "save"}
    /\ Fault
    /\ \/ /\ service[t] = "rate"
          /\ service' = [service EXCEPT ![t] = "error"]
          /\ ReplyError(t[1])
       \/ service[t] # "rate" /\ TaskFails(t)
    /\ UNCHANGED <<fx, table, answer, held, calls, asked, clearing, together>>

\* Redis stores a table or a rate of the service, and its answer is lost.
ServiceAnswerLost(t) ==
    /\ Fault
    /\ TaskFails(t)
    /\ \/ /\ service[t] = "store"
          /\ table' = [table EXCEPT ![DateOf[t[1]]] = held[t]]
          /\ UNCHANGED fx
       \/ /\ service[t] = "save"
          /\ fx' = [fx EXCEPT ![buildKey(t[1])] =
                        [format |-> "json", rate |-> rateFromTable(t[1], held[t])]]
          /\ UNCHANGED table
    /\ UNCHANGED <<answer, held, calls, asked, clearing, together>>

(* Keys going away *)

ExpireRate(k) ==
    /\ fx[k] # None
    /\ Evict
    /\ fx' = [fx EXCEPT ![k] = None]
    /\ UNCHANGED <<table, client, answer, service, held, calls, asked, clearing, together>>

ExpireTable(d) ==
    /\ table[d] # 0
    /\ Evict
    /\ table' = [table EXCEPT ![d] = 0]
    /\ UNCHANGED <<fx, client, answer, service, held, calls, asked, clearing, together>>

\* DELETE /cache/fx?date=d&prefix=all: the fx keys first, then the table.
ClearRates(d) ==
    /\ d \notin clearing
    /\ Evict
    /\ fx' = [k \in FxKeys |-> IF k[2] = d THEN None ELSE fx[k]]
    /\ clearing' = clearing \union {d}
    /\ UNCHANGED <<table, client, answer, service, held, calls, asked, together>>

ClearTable(d) ==
    /\ d \in clearing
    /\ table' = [table EXCEPT ![d] = 0]
    /\ clearing' = clearing \ {d}
    /\ UNCHANGED <<fx, client, answer, service, held, calls, asked, together, limits>>

-----------------------------------------------------------------------------
Step(c) ==
    \/ ClientGet(c) \/ ClientSet(c) \/ CachedRate(c)
    \/ \E t \in {<<c, "main">>, <<c, "back">>} :
          CachedTable(t) \/ Call(t) \/ Store(t) \/ Save(t)

Next ==
    \/ \E c \in Conversions : Step(c) \/ ClientFails(c)
    \/ \E t \in Tasks : ServiceFails(t) \/ ServiceAnswerLost(t)
    \/ \E k \in FxKeys : ExpireRate(k)
    \/ \E d \in Dates : ExpireTable(d) \/ ClearRates(d) \/ ClearTable(d)

Spec == Init /\ [][Next]_vars

\* Every await of the worker and of the service settles.
FairSpec == Spec /\ \A c \in Conversions : WF_vars(Step(c))

-----------------------------------------------------------------------------
TypeOK ==
    /\ fx \in [FxKeys -> Entries \union {None}]
    /\ table \in [Dates -> Nat]
    /\ client \in [Conversions -> ClientControls]
    /\ answer \in [Conversions -> Rates \union {None}]
    /\ service \in [Tasks -> Controls]
    /\ held \in [Tasks -> Nat]
    /\ calls \in [Dates -> Nat]
    /\ asked \in [Conversions -> Nat]
    /\ clearing \subseteq Dates
    /\ together \subseteq Dates
    /\ faults \in 0 .. MaxFaults
    /\ evictions \in 0 .. MaxEvictions

\* A conversion ends with the rate of its own pair and date, although the keys of
\* the worker and of the service cross: the one's entry is unreadable to the other.
AnswersOwnPair ==
    \A c \in Conversions : client[c] = "done" =>
        /\ answer[c][1] = Pair(c)
        /\ answer[c][2] = DateOf[c]

\* Every rate in use was quoted: it stems from an answered external call for its
\* date, in the keys, in the table and in what conversions end with.
RatesAreQuoted ==
    /\ \A k \in FxKeys : fx[k] # None =>
          fx[k].rate[2] = k[2] /\ fx[k].rate[3] \in 1 .. calls[k[2]]
    /\ \A d \in Dates : table[d] <= calls[d]
    /\ \A c \in Conversions : answer[c] # None => answer[c][3] \in 1 .. calls[DateOf[c]]

\* A second external call for a date has a cause: a failure, an evicted key, or
\* two tasks that asked the provider at once.  In particular a batch, which one
\* handler converts record by record, costs one call per date.
SecondCallHasACause ==
    \A d \in Dates : calls[d] > 1 => faults > 0 \/ evictions > 0 \/ d \in together

\* One conversion never costs two calls by itself: its refresh finds the table,
\* unless something failed or was evicted in between.
RefreshIsFree ==
    \A c \in Conversions : asked[c] > 1 => faults > 0 \/ evictions > 0

\* README.md, "cache por fecha (1 llamada externa por fecha)": within the TTL, and
\* while nothing fails, a date costs one external call.
OneCallPerDate == \A d \in Dates : calls[d] <= 1

\* Every conversion ends, with or without a rate.
ConversionsEnd == \A c \in Conversions : <>(client[c] \in {"done", "failed"})
=============================================================================
