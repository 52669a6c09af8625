------------------------- MODULE GatewayFallbackPromise -------------------------
(***************************************************************************)
(* How the engine of GatewayFallback keeps the promise of GatewayPromise:  *)
(* what a client has been told is read off its request, and the calls of a *)
(* request are bounded by the size of the longest list of candidates that  *)
(* a route expands to.                                                     *)
(***************************************************************************)
EXTENDS GatewayFallback

CONSTANT MaxCandidates      \* most candidates that a route expands to

\* The candidates a provider can contribute: one for each of its accounts, or its
\* own credentials.
Width(p) == IF Len(AccountsOf[p]) > 1 THEN Len(AccountsOf[p]) ELSE 1

\* The positions of the candidates of a list of providers.
Slots(route) == UNION {{i} \X (1..Width(route[i])) : i \in DOMAIN route}

ASSUME CandidatesBounded ==
    /\ MaxCandidates \in Nat
    /\ \A route \in Routes : Cardinality(Slots(route)) <= MaxCandidates

\* How far a request has come, and what its client was told.
PhaseOf(q) == CASE q.pc = "idle" -> "new"
                [] q.pc = "done" -> "ended"
                [] OTHER         -> "serving"

VerdictOf(q) == CASE q.answer = "none" -> "none"
                  [] q.answer = "ok"   -> "served"
                  [] q.answer = "all_candidates_unavailable" -> "unavailable"
                  [] OTHER             -> "failed"

Promise == INSTANCE GatewayPromise WITH
    MaxCalls <- 2 * MaxCandidates,
    phase    <- [r \in Requests |-> PhaseOf(req[r])],
    strict   <- [r \in Requests |-> req[r].strict],
    gone     <- [r \in Requests |-> req[r].gone],
    calls    <- [r \in Requests |-> req[r].calls],
    verdict  <- [r \in Requests |-> VerdictOf(req[r])]

\* The engine keeps the promise of GatewayPromise: at most two calls per candidate,
\* one for a strict request; an answer that fits; and an end to every request, even
\* when no upstream ever answers.
KeepsPromise == Promise!PromiseSpec
================================================================================
