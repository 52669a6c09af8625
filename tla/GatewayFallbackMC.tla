--------------------------- MODULE GatewayFallbackMC ---------------------------
(***************************************************************************)
(* Instances of GatewayFallback and GatewayFallbackPromise for TLC.  pool  *)
(* has accounts; solo has none.  With one request, both are Codex          *)
(* providers behind the quota gate, and solo has a pool of API keys; with  *)
(* two, neither is: then every class of failure can be charged to solo,    *)
(* and usable alone says which accounts are open.                          *)
(***************************************************************************)
EXTENDS GatewayFallbackPromise, TLC

CONSTANTS pool, solo, a1, a2

MCProviders == {pool, solo}
MCAccountsOf == [p \in MCProviders |->
                   IF p = pool THEN SelectSeq(<<a1, a2>>, LAMBDA a : a \in Accounts) ELSE <<>>]
MCCodex == MCProviders
MCKeyed == {solo}

\* A single request meets a one-provider list and a list that repeats a provider;
\* two concurrent requests share a two-provider list.
MCRoutesAll == {<<pool>>, <<solo, pool, solo>>}
MCRoutesPair == {<<solo, pool>>}

MCBaseCooldown == [c \in Penalised |->
                    CASE c = "authentication" -> 3
                      [] c = "rate_limited"   -> 2
                      [] OTHER                -> 1]
MCSymmetry == Permutations(Requests)
MCLadder == <<1, 1, 2, 2>>

================================================================================
