---------------------------- MODULE GatewayPromise ----------------------------
(***************************************************************************)
(* What the fallback engine promises to the client of a request, with no   *)
(* word of cooldowns, accounts, budgets or failure classes: a bounded      *)
(* number of upstream calls (one, if the request is a strict single        *)
(* attempt), an answer that fits what happened, and an end to every        *)
(* request that was accepted.                                              *)
(***************************************************************************)
EXTENDS Naturals

CONSTANTS
    Requests,
    MaxCalls        \* most upstream calls a request may cause; at least 1

VARIABLES
    phase,          \* request -> "new", "serving", "ended"
    strict,         \* request -> it must cause one upstream call at most
    gone,           \* request -> its client has disconnected
    calls,          \* request -> upstream calls so far
    verdict         \* request -> what its client was told

promiseVars == <<phase, strict, gone, calls, verdict>>

Verdict == {"none", "served", "unavailable", "failed"}

PromiseInit ==
    /\ phase = [r \in Requests |-> "new"]
    /\ strict = [r \in Requests |-> FALSE]
    /\ gone = [r \in Requests |-> FALSE]
    /\ calls = [r \in Requests |-> 0]
    /\ verdict = [r \in Requests |-> "none"]

Accept(r) ==
    /\ phase[r] = "new"
    /\ phase' = [phase EXCEPT ![r] = "serving"]
    /\ \E s \in BOOLEAN : strict' = [strict EXCEPT ![r] = s]
    /\ UNCHANGED <<gone, calls, verdict>>

\* An upstream is called for a client that is still there and not yet answered.
Call(r) ==
    /\ phase[r] = "serving" /\ verdict[r] = "none" /\ ~gone[r]
    /\ calls[r] < (IF strict[r] THEN 1 ELSE MaxCalls)
    /\ calls' = [calls EXCEPT ![r] = @ + 1]
    /\ UNCHANGED <<phase, strict, gone, verdict>>

\* The answer of an upstream starts to be copied to the client.
Serve(r) ==
    /\ phase[r] = "serving" /\ verdict[r] = "none" /\ calls[r] > 0
    /\ verdict' = [verdict EXCEPT ![r] = "served"]
    /\ UNCHANGED <<phase, strict, gone, calls>>

\* The request ends.  Nobody is told that no candidate could be used after one
\* was, and only a client that is gone is told nothing.
End(r) ==
    /\ phase[r] = "serving"
    /\ phase' = [phase EXCEPT ![r] = "ended"]
    /\ \/ verdict[r] = "served" /\ verdict' = verdict
       \/ /\ verdict[r] = "none"
          /\ \E v \in Verdict \ {"served"} :
                /\ v = "none" => gone[r]
                /\ v = "unavailable" => calls[r] = 0
                /\ verdict' = [verdict EXCEPT ![r] = v]
    /\ UNCHANGED <<strict, gone, calls>>

Disconnect(r) ==
    /\ phase[r] = "serving" /\ ~gone[r]
    /\ gone' = [gone EXCEPT ![r] = TRUE]
    /\ UNCHANGED <<phase, strict, calls, verdict>>

PromiseNext ==
    \E r \in Requests : Accept(r) \/ Call(r) \/ Serve(r) \/ End(r) \/ Disconnect(r)

\* What may happen, and that an accepted request ends.
PromiseSafety == PromiseInit /\ [][PromiseNext]_promiseVars

PromiseSpec ==
    /\ PromiseSafety
    /\ \A r \in Requests : WF_promiseVars(End(r))
===============================================================================
