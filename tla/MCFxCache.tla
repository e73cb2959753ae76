------------------------------ MODULE MCFxCache ------------------------------
(* Small instances of the exchange-rate caches.                              *)
EXTENDS FxCache, TLC

CONSTANTS c1, c2, c3, clp, usd, day

\* Two purchases in pesos, and one in dollars under a policy whose base currency
\* is the peso, all of one day.
MCOriginalOf == c1 :> clp @@ c2 :> clp @@ c3 :> usd
MCBaseOf == c1 :> usd @@ c2 :> usd @@ c3 :> clp
MCDateOf == c1 :> day @@ c2 :> day @@ c3 :> day

\* One purchase in each currency.
MCOriginalOf2 == c1 :> clp @@ c3 :> usd
MCBaseOf2 == c1 :> usd @@ c3 :> clp
MCDateOf2 == c1 :> day @@ c3 :> day

=============================================================================
