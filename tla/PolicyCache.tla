----------------------------- MODULE PolicyCache -----------------------------
(***************************************************************************)
(* The policies: one row of validation_policies that the BFF overwrites    *)
(* (PUT /policies/current), the two caches in which the worker's currency  *)
(* and validation clients keep it for POLICIES_CACHE_TTL_MS, each for      *)
(* itself, and the report that prints the policy of the moment beside the  *)
(* results of a process.                                                   *)
(*                                                                         *)
(* A record looks the policies up twice, in getMonedaBase before it is     *)
(* converted and in getDefaultPolicies before it is judged.  Records of    *)
(* many handlers do so at once, hence lookups come in any order here.  A   *)
(* lookup begins in one step, is answered by the database in another and   *)
(* fills the cache in a third; time may pass between them.                 *)
(***************************************************************************)
EXTENDS Integers, Sequences, FiniteSets

CONSTANTS
    Lookups,   \* calls of getMonedaBase and of getDefaultPolicies
    Client,    \* Client[l]: "currency" or "validation"
    None,
    TTL,       \* POLICIES_CACHE_TTL_MS, in steps of the clock
    MaxTime,   \* bound: how far the clock runs
    MaxSaves   \* bound: saved policies

Clients == {"currency", "validation"}

ASSUME PolicyAssumption ==
    /\ Client \in [Lookups -> Clients]
    /\ TTL \in Nat
    /\ MaxTime \in Nat
    /\ MaxSaves \in Nat
    /\ None \notin Nat

VARIABLES
    clock,
    env,      \* DEFAULT_POLICIES of the deployment
    savedAt,  \* savedAt[v]: when version v was saved; the row holds the last one
    cache,    \* of each client: the version and the time it is stamped with
    at,       \* where a lookup stands, and the record that made it
    asked,    \* Date.now() when the lookup began
    got,      \* the version the database answered with, then the one handed over
    printed,  \* the version a report in the making has printed, out of how many
    newest,   \* history: by client, the newest version handed over
    seen,     \* history: newest, when the lookup began
    late      \* history: clients whose cache another filled while a lookup was open

history == <<newest, seen, late>>
vars == <<clock, env, savedAt, cache, at, asked, got, printed, history>>

-----------------------------------------------------------------------------
\* Version 0 is what holds while there is no row: DEFAULT_POLICIES, if anything.
Versions == 0 .. MaxSaves
Times == 0 .. MaxTime
Envs == {"unset", "broken", "valid"}
Open == {"query", "fill"}
Given == {"given", "stored"}

Current == Len(savedAt)

Init ==
    /\ clock = 0
    /\ env \in Envs
    /\ savedAt = <<>>
    /\ cache = [c \in Clients |-> [version |-> None, stamp |-> 0]]
    /\ at = [l \in Lookups |-> "ask"]
    /\ asked = [l \in Lookups |-> 0]
    /\ got = [l \in Lookups |-> 0]
    /\ printed = None
    /\ newest = [c \in Clients |-> 0]
    /\ seen = [l \in Lookups |-> 0]
    /\ late = {}

Tick ==
    /\ clock < MaxTime
    /\ clock' = clock + 1
    /\ UNCHANGED <<env, savedAt, cache, at, asked, got, printed, history>>

\* PUT /policies/current, past the check of its shape: one row, overwritten.
Save ==
    /\ Current < MaxSaves
    /\ savedAt' = Append(savedAt, clock)
    /\ UNCHANGED <<clock, env, cache, at, asked, got, printed, history>>

-----------------------------------------------------------------------------
(* getMonedaBase and getDefaultPolicies *)

Fresh(c) == cache[c].version # None /\ clock - cache[c].stamp < TTL

HandOver(l, v) ==
    /\ at' = [at EXCEPT ![l] = "given"]
    /\ newest' = [newest EXCEPT ![Client[l]] = IF v > @ THEN v ELSE @]
    /\ seen' = [seen EXCEPT ![l] = 0]

Hit(l) ==
    /\ at[l] = "ask"
    /\ Fresh(Client[l])
    /\ asked' = [asked EXCEPT ![l] = clock]
    /\ got' = [got EXCEPT ![l] = cache[Client[l]].version]
    /\ HandOver(l, cache[Client[l]].version)
    /\ UNCHANGED <<clock, env, savedAt, cache, printed, late>>

\* The entry will be stamped with the time before the query.
Miss(l) ==
    /\ at[l] = "ask"
    /\ ~Fresh(Client[l])
    /\ at' = [at EXCEPT ![l] = "query"]
    /\ asked' = [asked EXCEPT ![l] = clock]
    /\ seen' = [seen EXCEPT ![l] = newest[Client[l]]]
    /\ UNCHANGED <<clock, env, savedAt, cache, got, printed, newest, late>>

getCurrent(l) ==
    /\ at[l] = "query"
    /\ at' = [at EXCEPT ![l] = "fill"]
    /\ got' = [got EXCEPT ![l] = Current]
    /\ UNCHANGED <<clock, env, savedAt, cache, asked, printed, history>>

\* Without a row the currency client keeps no base currency it does not have; the
\* validation client keeps that there is no policy, but throws on a broken one.
Kept(c, v) == IF c = "currency" /\ v = 0 /\ env # "valid" THEN None ELSE v
Throws(c, v) == c = "validation" /\ v = 0 /\ env = "broken"

\* (mutants) The entry is stamped after the query; the cached value is never replaced.
EntryStampedNow(l) == [version |-> Kept(Client[l], got[l]), stamp |-> clock]
EntryOnce(l) ==
    [version |-> IF cache[Client[l]].version = None
                 THEN Kept(Client[l], got[l]) ELSE cache[Client[l]].version,
     stamp |-> asked[l]]
Entry(l) == [version |-> Kept(Client[l], got[l]), stamp |-> asked[l]]

Fill(l) ==
    /\ at[l] = "fill"
    /\ ~Throws(Client[l], got[l])
    /\ cache' = [cache EXCEPT ![Client[l]] = Entry(l)]
    /\ HandOver(l, got[l])
    /\ late' = late \union {Client[h] : h \in {i \in Lookups \ {l} :
                                  Client[i] = Client[l] /\ at[i] \in Open}}
    /\ UNCHANGED <<clock, env, savedAt, asked, got, printed>>

\* The query is rejected, or JSON.parse throws; the record fails.
Fail(l) ==
    /\ \/ at[l] = "query"
       \/ at[l] = "fill" /\ Throws(Client[l], got[l])
    /\ at' = [at EXCEPT ![l] = "failed"]
    /\ asked' = [asked EXCEPT ![l] = 0]
    /\ got' = [got EXCEPT ![l] = 0]
    /\ seen' = [seen EXCEPT ![l] = 0]
    /\ UNCHANGED <<clock, env, savedAt, cache, printed, newest, late>>

\* The validation service has judged by the policies of the request, and the
\* record's run and expense carry the verdict.
Store(l) ==
    /\ Client[l] = "validation"
    /\ at[l] = "given"
    /\ at' = [at EXCEPT ![l] = "stored"]
    /\ UNCHANGED <<clock, env, savedAt, cache, asked, got, printed, history>>

-----------------------------------------------------------------------------
(* GET /processes/:processId/report.pdf *)

\* (mutants) The environment goes before the database; there is no fallback to it.
EnvFirst == IF env = "valid" THEN 0 ELSE Current
RowOrNothing == IF Current = 0 THEN None ELSE Current
resolveCurrentPolicy == Current

\* With no row and broken DEFAULT_POLICIES the request fails instead.
PrintPolicy ==
    /\ printed = None
    /\ ~(Current = 0 /\ env = "broken")
    /\ printed' = [version |-> resolveCurrentPolicy, saves |-> Current]
    /\ UNCHANGED <<clock, env, savedAt, cache, at, asked, got, history>>

\* The rows are those whose verdict is stored now.
PrintRows ==
    /\ printed # None
    /\ printed' = None
    /\ UNCHANGED <<clock, env, savedAt, cache, at, asked, got, history>>

-----------------------------------------------------------------------------
Next ==
    \/ Tick \/ Save
    \/ \E l \in Lookups :
          Hit(l) \/ Miss(l) \/ getCurrent(l) \/ Fill(l) \/ Fail(l) \/ Store(l)
    \/ PrintPolicy \/ PrintRows

Spec == Init /\ [][Next]_vars

-----------------------------------------------------------------------------
TypeOK ==
    /\ clock \in Times
    /\ env \in Envs
    /\ savedAt \in Seq(Times) /\ Len(savedAt) <= MaxSaves
    /\ cache \in [Clients -> [version : Versions \union {None}, stamp : Times]]
    /\ at \in [Lookups -> {"ask", "failed"} \union Open \union Given]
    /\ asked \in [Lookups -> Times]
    /\ got \in [Lookups -> Versions]
    /\ printed \in [version : Versions, saves : Versions] \union {None}
    /\ newest \in [Clients -> Versions]
    /\ seen \in [Lookups -> Versions]
    /\ late \subseteq Clients

\* What a lookup hands over, the policies or the base currency in them, was in
\* force less than a TTL before the lookup began, however long it takes and
\* whoever else fills the cache.  So an amount is converted under one policy and
\* judged under another only if one was saved later than a TTL before the
\* record's first lookup.
PolicyIsRecent ==
    \A l \in Lookups :
        (at[l] \in Given /\ got[l] < Current)
            => savedAt[got[l] + 1] > asked[l] - TTL

\* A lookup hands over an older version than one handed over before it began
\* only if two lookups of that client overlapped, the slower one filling last.
OlderNeedsOverlap ==
    [][\A l \in Lookups :
          LET before == IF at[l] = "ask" THEN newest[Client[l]] ELSE seen[l] IN
          (at[l] \notin Given /\ at'[l] = "given" /\ got'[l] < before)
              => Client[l] \in late]_vars

\* The policy a report prints as the one applied is the one its rows were judged
\* by, unless another was saved later than a TTL before the row's lookup began,
\* or between the two reads of the report.
ReportShowsApplied ==
    [][(printed # None /\ printed' = None) =>
          \A l \in Lookups : (at[l] = "stored" /\ got[l] # printed.version) =>
              \E v \in 1 .. Current :
                  savedAt[v] > asked[l] - TTL \/ v > printed.saves]_vars
=============================================================================
