---------------------------- MODULE GatewayFallback ----------------------------
(***************************************************************************)
(* The fallback engine of the gateway: runWithFallback drives one request  *)
(* through an ordered list of candidates under one deadline, while all     *)
(* requests share the in-memory provider cooldowns                         *)
(* (observe.CooldownTracker) and the persisted account outcomes            *)
(* (ProviderAccount.FailureStreak and CooldownUntil).                      *)
(*                                                                         *)
(* Each step of a request touches shared state at most once, so every      *)
(* interleaving of concurrent requests that the mutexes allow is a         *)
(* behaviour.  Time is a bounded clock.  An expired cooldown and an absent *)
(* one are the same value to every reader, so pruning is not modelled.  A  *)
(* call is one attempt handed to an executor, which may repeat it with     *)
(* another key or a new token inside the same attempt timer.               *)
(***************************************************************************)
EXTENDS Integers, Sequences, FiniteSets

CONSTANTS
    Providers,      \* configured providers
    Accounts,       \* provider accounts
    NoAccount,      \* AccountID = "": the provider's own credentials
    Requests,       \* request identities; each is served once
    AccountsOf,     \* provider -> its accounts, in the store's order; none if its
                    \* type (mimo-free, opencode) is not expanded into accounts
    Routes,         \* candidate lists that routing can produce
    StrictModes,    \* which of strict (TRUE) and ordinary requests arrive
    Leavers,        \* requests whose client may disconnect
    Codex,          \* Codex providers: behind the quota gate, may yield nil
    Keyed,          \* providers with a pool of API keys of their own
    StoreFaults,    \* TRUE: a read of the store may fail
    Timeout,        \* request deadline (GATEWAY_REQUEST_TIMEOUT)
    Reserve,        \* minFallbackBudget
    AttemptLimit,   \* perProviderAttemptTimeout
    BaseCooldown,   \* failure class -> provider cooldown without Retry-After
    MaxCooldown,    \* cap on a provider cooldown
    RetryAfters,    \* Retry-After values an upstream may send; 0: none
    AccountCap,     \* cap on an account cooldown taken from Retry-After
    Ladder,         \* account cooldown by failure streak 1..4 (4: and above)
    MaxTime         \* bound on the clock

Class == {"invalid_request", "context_overflow", "authentication", "rate_limited",
          "timeout", "upstream_server", "protocol", "transient", "empty_response"}

\* Classes whose decision has Fallback set.
Fallback == Class \ {"invalid_request", "protocol"}

\* Classes whose decision carries a provider cooldown.
Penalised == Fallback \ {"context_overflow"}

\* accountFailureEligible; quota_exhausted is never produced by this engine.
AccountEligible == {"authentication", "rate_limited", "transient",
                    "upstream_server", "timeout"}

Candidate == [provider : Providers, account : Accounts \cup {NoAccount}]

ASSUME FallbackConstants ==
    /\ NoAccount \notin Accounts
    /\ AccountsOf \in [Providers -> Seq(Accounts)]
    /\ Routes \subseteq Seq(Providers) \ {<<>>}
    /\ StrictModes \subseteq BOOLEAN /\ Leavers \subseteq Requests
    /\ Codex \subseteq Providers /\ Keyed \subseteq Providers
    /\ StoreFaults \in BOOLEAN
    /\ Timeout \in Nat \ {0} /\ Reserve \in Nat /\ AttemptLimit \in Nat \ {0}
    /\ MaxCooldown \in Nat \ {0} /\ AccountCap \in Nat \ {0} /\ MaxTime \in Nat
    /\ RetryAfters \subseteq Nat
    /\ BaseCooldown \in [Penalised -> Nat \ {0}]
    /\ Ladder \in [1..4 -> Nat \ {0}]

VARIABLES
    now,        \* the clock
    cooldown,   \* CooldownTracker.until: provider -> end of its cooldown
    usable,     \* accounts that are enabled and whose proxy resolves
    account,    \* account -> stored failure streak and end of cooldown
    req         \* request -> what its handler goroutine holds

vars == <<now, cooldown, usable, account, req>>

PC == {"idle", "expand", "select", "calling", "errored", "penalize", "streak",
       "record", "decide", "streaming", "succeed", "done"}

\* Error codes of the answers a client can get; "none": nothing was written.
Answer == {"none", "ok", "all_candidates_unavailable", "no_provider_available",
           "gateway_timeout", "invalid_upstream_request", "context_length_exceeded",
           "upstream_authentication_failed", "upstream_rate_limited", "upstream_error"}

Fresh == [pc |-> "idle", strict |-> FALSE, gone |-> FALSE, deadline |-> 0,
          todo |-> <<>>, cands |-> <<>>, idx |-> 1, tried |-> {}, calls |-> 0,
          since |-> 0, retried |-> FALSE, class |-> "protocol", retryAfter |-> 0, streak |-> 0, at |-> 0,
          logged |-> 0, answer |-> "none"]

Least(m, n) == IF m <= n THEN m ELSE n

(***************************************************************************)
(* Helpers of the engine.                                                  *)
(***************************************************************************)
\* CooldownTracker.Available.
Available(p) == cooldown[p] <= now

\* requestCtx.Err() # nil.
CtxDone(r) == req[r].gone \/ now >= req[r].deadline

\* hasRemainingBudget.
HasBudget(r) == ~CtxDone(r) /\ req[r].deadline - now > Reserve

Cand(r) == req[r].cands[req[r].idx]

\* Fault: the scan starts one candidate too late.
HasAvailableAfterOffByOne(r) ==
    \E j \in DOMAIN req[r].cands : j > req[r].idx + 1 /\ Available(req[r].cands[j].provider)

\* hasAvailableAfter.
HasAvailableAfter(r) ==
    \E j \in DOMAIN req[r].cands : j > req[r].idx /\ Available(req[r].cands[j].provider)

\* Only an attempt that can outlive the short attempt timer gets one.
TimerArmed(r) == req[r].deadline - req[r].since > AttemptLimit

\* The cooldown of a decision: cooldownForStatus and the fixed ones.
ProviderCooldown(class, retryAfter) ==
    IF class = "rate_limited" /\ retryAfter > 0
    THEN Least(retryAfter, MaxCooldown)
    ELSE Least(BaseCooldown[class], MaxCooldown)

\* accountCooldown.
AccountCooldown(streak, retryAfter) ==
    IF retryAfter > 0 THEN Least(retryAfter, AccountCap) ELSE Ladder[Least(streak, 4)]

\* failurePublicError.
PublicError(class) ==
    CASE class = "invalid_request"  -> "invalid_upstream_request"
      [] class = "context_overflow" -> "context_length_exceeded"
      [] class = "authentication"   -> "upstream_authentication_failed"
      [] class = "rate_limited"     -> "upstream_rate_limited"
      [] class = "timeout"          -> "gateway_timeout"
      [] OTHER                      -> "upstream_error"

\* Fault: the latest report wins.
PenalizeOverwrites(p, duration) == cooldown' = [cooldown EXCEPT ![p] = now + duration]

\* Penalize: a longer existing cooldown is never shortened.
Penalize(p, duration) ==
    cooldown' = [cooldown EXCEPT ![p] = IF @ > now + duration THEN @ ELSE now + duration]

\* Response classes that leave a provider's own key pool: executeWithKeyRetry
\* turns the others into another key or into an error.
ResponseClasses(r) ==
    LET seen == {"invalid_request", "context_overflow", "timeout", "protocol"}
    IN  IF Cand(r).account = NoAccount /\ Cand(r).provider \in Keyed /\ ~req[r].strict
        THEN seen
        ELSE seen \cup {"authentication", "rate_limited", "upstream_server"}

--------------------------------------------------------------------------------
Init ==
    /\ now = 0
    /\ cooldown = [p \in Providers |-> 0]
    /\ usable \in SUBSET Accounts
    /\ account = [a \in Accounts |-> [streak |-> 0, until |-> 0]]
    /\ req = [r \in Requests |-> Fresh]

Goto(r, pc) == req' = [req EXCEPT ![r].pc = pc]

\* The variables of one loop iteration go out of scope.
EndIteration(q) == [q EXCEPT !.since = 0, !.retried = FALSE, !.class = "protocol",
                             !.retryAfter = 0, !.streak = 0, !.at = 0]

\* The handler returns; those of the function go too.
Return(q, answer) == [EndIteration(q) EXCEPT !.pc = "done", !.answer = answer,
                                             !.cands = <<>>, !.idx = 1]

Finish(r, answer) == req' = [req EXCEPT ![r] = Return(@, answer)]

\* logRequest: the attempt is logged and its usage counted.
Logged(q) == [q EXCEPT !.logged = @ + 1]

\* The attempt is logged and the loop goes on.
Continue(q) == [Logged(EndIteration(q)) EXCEPT !.pc = "select", !.idx = @ + 1]

\* runWithFallback begins: the deadline starts before the candidates are expanded.
Arrive(r) ==
    /\ req[r].pc = "idle"
    /\ now + Timeout <= MaxTime              \* MaxTime bounds the clock
    /\ \E route \in Routes, strict \in StrictModes :
         req' = [req EXCEPT ![r] = [Fresh EXCEPT
                    !.pc = "expand", !.strict = strict,
                    !.deadline = now + Timeout, !.todo = route]]
    /\ UNCHANGED <<now, cooldown, usable, account>>

\* The positions in I, in ascending order.
Ascending(I) == {f \in [1..Cardinality(I) -> I] : \A i, j \in DOMAIN f : i < j => f[i] < f[j]}

\* The candidates of p for those of its accounts that are open, in the store's order.
AccountCandidates(p, open) ==
    {[i \in DOMAIN f |-> [provider |-> p, account |-> AccountsOf[p][f[i]]]] :
        f \in Ascending({i \in DOMAIN AccountsOf[p] : AccountsOf[p][i] \in open})}

\* expandAccountCandidates, one provider: account cooldowns are compared with the
\* instant at which the request began, however long the quota gate takes.
\* refused: the accounts the Codex quota gate turns away.
ExpandProvider(r) ==
    /\ req[r].pc = "expand" /\ req[r].todo # <<>>
    /\ LET p        == Head(req[r].todo)
           begun    == req[r].deadline - Timeout
           open     == {a \in usable : account[a].until <= begun}
           add(cs)  == req' = [req EXCEPT ![r].todo = Tail(@), ![r].cands = @ \o cs]
       IN  \/ /\ AccountsOf[p] = <<>> \/ StoreFaults
              /\ add(<<[provider |-> p, account |-> NoAccount]>>)
           \/ /\ AccountsOf[p] # <<>>
              /\ \E refused \in SUBSET (IF p \in Codex THEN Accounts ELSE {}) :
                 \E cs \in AccountCandidates(p, open \ refused) : add(cs)
    /\ UNCHANGED <<now, cooldown, usable, account>>

\* Fault: a strict request keeps its fallback candidates.
ExpandDoneWithoutStrict(r) ==
    /\ req[r].pc = "expand" /\ req[r].todo = <<>>
    /\ Goto(r, "select")
    /\ UNCHANGED <<now, cooldown, usable, account>>

\* A strict single attempt keeps the first candidate only.
ExpandDone(r) ==
    /\ req[r].pc = "expand" /\ req[r].todo = <<>>
    /\ req' = [req EXCEPT ![r].pc = "select",
                          ![r].cands = IF req[r].strict /\ Len(@) > 1 THEN <<@[1]>> ELSE @]
    /\ UNCHANGED <<now, cooldown, usable, account>>

\* The loop passes over a candidate whose provider is in cooldown.
SkipCandidate(r) ==
    /\ req[r].pc = "select" /\ req[r].idx <= Len(req[r].cands)
    /\ ~Available(Cand(r).provider)
    /\ req' = [req EXCEPT ![r].idx = @ + 1]
    /\ UNCHANGED <<now, cooldown, usable, account>>

\* The next candidate is called, provided the budget is not used up.
CallCandidate(r) ==
    /\ req[r].pc = "select" /\ req[r].idx <= Len(req[r].cands)
    /\ Available(Cand(r).provider)
    /\ HasBudget(r)
    /\ req' = [req EXCEPT ![r].pc = "calling", ![r].tried = @ \cup {req[r].idx},
                          ![r].calls = @ + 1, ![r].since = now]
    /\ UNCHANGED <<now, cooldown, usable, account>>

\* Fault: the retry does not look at the budget.
AttemptFailsRetryUnbudgeted(r, class) ==
    /\ req[r].pc = "calling"
    /\ IF class = "transient" /\ ~req[r].strict /\ ~req[r].retried
       THEN req' = [req EXCEPT ![r].retried = TRUE, ![r].calls = @ + 1, ![r].since = now]
       ELSE req' = [req EXCEPT ![r].pc = "errored", ![r].class = class,
                               ![r].retryAfter = 0]
    /\ UNCHANGED <<now, cooldown, usable, account>>

\* The attempt fails with an error.  A connection error is retried once on the
\* same candidate while budget remains; a timeout is not.
AttemptFails(r, class) ==
    /\ req[r].pc = "calling"
    /\ IF class = "transient" /\ ~req[r].strict /\ HasBudget(r) /\ ~req[r].retried
       THEN req' = [req EXCEPT ![r].retried = TRUE, ![r].calls = @ + 1, ![r].since = now]
       ELSE req' = [req EXCEPT ![r].pc = "errored", ![r].class = class,
                               ![r].retryAfter = 0]
    /\ UNCHANGED <<now, cooldown, usable, account>>

AttemptErrors(r) == AttemptFails(r, "transient")

\* The attempt timer, or the transport's header timeout of the same length, fires.
AttemptTimesOut(r) ==
    /\ TimerArmed(r) /\ now >= req[r].since + AttemptLimit
    /\ AttemptFails(r, "timeout")

\* The request context ends while the upstream has not answered: the deadline
\* passed, or the client is gone.
AttemptCut(r) ==
    /\ CtxDone(r)
    /\ AttemptFails(r, "timeout")

\* The upstream answers, and the status is not 2xx.
AttemptRejected(r) ==
    /\ req[r].pc = "calling"
    /\ \E class \in ResponseClasses(r) :
       \E retryAfter \in IF class = "rate_limited" THEN RetryAfters ELSE {0} :
         req' = [req EXCEPT
                   ![r].class = class, ![r].retryAfter = retryAfter,
                   ![r].pc = IF Cand(r).account # NoAccount
                             THEN IF class \in AccountEligible THEN "streak" ELSE "decide"
                             ELSE IF class \in Penalised THEN "penalize" ELSE "decide"]
    /\ UNCHANGED <<now, cooldown, usable, account>>

\* A Codex provider whose own keys are used up yields neither result nor error.
AttemptEmpty(r) ==
    /\ req[r].pc = "calling" /\ ~req[r].strict
    /\ Cand(r).account = NoAccount /\ Cand(r).provider \in Codex \cap Keyed
    /\ req' = [req EXCEPT ![r].class = "empty_response", ![r].retryAfter = 0,
                          ![r].pc = "penalize"]
    /\ UNCHANGED <<now, cooldown, usable, account>>

AttemptAccepted(r) ==
    /\ req[r].pc = "calling"
    /\ req' = [req EXCEPT ![r].pc = "streaming", ![r].answer = "ok"]
    /\ UNCHANGED <<now, cooldown, usable, account>>

\* Fault: the failure of an account is charged to the provider.
CheckContextIgnoringAccount(r) ==
    /\ req[r].pc = "errored"
    /\ IF CtxDone(r)
       THEN Finish(r, IF req[r].gone THEN "none" ELSE "gateway_timeout")
       ELSE Goto(r, "penalize")
    /\ UNCHANGED <<now, cooldown, usable, account>>

\* After an error the request context is looked at first: once it has ended the
\* failure is neither penalised nor logged.
CheckContext(r) ==
    /\ req[r].pc = "errored"
    /\ IF CtxDone(r)
       THEN Finish(r, IF req[r].gone THEN "none" ELSE "gateway_timeout")
       ELSE Goto(r, IF Cand(r).account = NoAccount THEN "penalize" ELSE "streak")
    /\ UNCHANGED <<now, cooldown, usable, account>>

PenalizeProvider(r) ==
    /\ req[r].pc = "penalize"
    /\ Penalize(Cand(r).provider, ProviderCooldown(req[r].class, req[r].retryAfter))
    /\ Goto(r, "decide")
    /\ UNCHANGED <<now, usable, account>>

\* recordAccountOutcome takes the time and reads the streak, then writes the
\* outcome: the streak is incremented in the store, the end of the cooldown is
\* computed from what was read.  A failed read skips the outcome.
ReadStreak(r) ==
    /\ req[r].pc = "streak"
    /\ \/ req' = [req EXCEPT ![r].pc = "record",
                             ![r].streak = account[Cand(r).account].streak,
                             ![r].at = now]
       \/ StoreFaults /\ Goto(r, "decide")
    /\ UNCHANGED <<now, cooldown, usable, account>>

RecordFailure(r) ==
    /\ req[r].pc = "record"
    /\ account' = [account EXCEPT ![Cand(r).account] =
                     [streak |-> @.streak + 1,
                      until  |-> req[r].at + AccountCooldown(req[r].streak + 1, req[r].retryAfter)]]
    /\ req' = [req EXCEPT ![r].pc = "decide", ![r].streak = 0, ![r].at = 0]
    /\ UNCHANGED <<now, cooldown, usable>>

\* The failed attempt is logged; the next candidate is tried if the decision
\* permits it, some later provider is not cooling, and budget remains.
LogAndDecide(r) ==
    /\ req[r].pc = "decide"
    /\ IF req[r].class \in Fallback /\ HasAvailableAfter(r) /\ HasBudget(r)
       THEN req' = [req EXCEPT ![r] = Continue(@)]
       ELSE req' = [req EXCEPT ![r] = Logged(Return(@, PublicError(req[r].class)))]
    /\ UNCHANGED <<now, cooldown, usable, account>>

\* The body of a 2xx response is copied until the upstream ends it ...
StreamEnds(r) ==
    /\ req[r].pc = "streaming"
    /\ Goto(r, "succeed")
    /\ UNCHANGED <<now, cooldown, usable, account>>

\* ... or the request context cancels the copy.
StreamCut(r) == CtxDone(r) /\ StreamEnds(r)

\* Fault: a success clears the streak and leaves the cooldown.
RecordSuccessKeepsCooldown(r) ==
    /\ req[r].pc = "succeed"
    /\ account' = IF Cand(r).account = NoAccount THEN account
                  ELSE [account EXCEPT ![Cand(r).account].streak = 0]
    /\ req' = [req EXCEPT ![r] = Logged(Return(@, "ok"))]
    /\ UNCHANGED <<now, cooldown, usable>>

\* Fault: a client that left during the copy is not accounted.
RecordSuccessUnlogged(r) ==
    /\ req[r].pc = "succeed"
    /\ account' = IF Cand(r).account = NoAccount THEN account
                  ELSE [account EXCEPT ![Cand(r).account] = [streak |-> 0, until |-> 0]]
    /\ req' = [req EXCEPT ![r] = LET q == Return(@, "ok")
                                     IN  IF CtxDone(r) THEN q ELSE Logged(q)]
    /\ UNCHANGED <<now, cooldown, usable>>

\* Either way the account is credited with a success and the attempt is logged.
RecordSuccess(r) ==
    /\ req[r].pc = "succeed"
    /\ account' = IF Cand(r).account = NoAccount THEN account
                  ELSE [account EXCEPT ![Cand(r).account] = [streak |-> 0, until |-> 0]]
    /\ req' = [req EXCEPT ![r] = Logged(Return(@, "ok"))]
    /\ UNCHANGED <<now, cooldown, usable>>

\* The loop is left: no candidate remains, or the budget is used up.
LeaveLoop(r) ==
    /\ req[r].pc = "select"
    /\ \/ req[r].idx > Len(req[r].cands)
       \/ /\ req[r].idx <= Len(req[r].cands)
          /\ Available(Cand(r).provider) /\ ~HasBudget(r)
    /\ Finish(r, IF CtxDone(r)
                 THEN IF req[r].gone THEN "none" ELSE "gateway_timeout"
                 ELSE IF req[r].tried = {} THEN "all_candidates_unavailable"
                                              ELSE "no_provider_available")
    /\ UNCHANGED <<now, cooldown, usable, account>>

\* Environment: the client goes away, and time passes.
ClientDisconnects(r) ==
    /\ r \in Leavers
    /\ req[r].pc \notin {"idle", "done"} /\ ~req[r].gone
    /\ req' = [req EXCEPT ![r].gone = TRUE]
    /\ UNCHANGED <<now, cooldown, usable, account>>

Tick ==
    /\ now < MaxTime
    /\ now' = now + 1
    /\ UNCHANGED <<cooldown, usable, account, req>>

\* The steps of the handler goroutine itself; the upstream and the client decide
\* the others.
HandlerStep(r) ==
    \/ ExpandProvider(r) \/ ExpandDone(r)
    \/ SkipCandidate(r) \/ CallCandidate(r) \/ LeaveLoop(r)
    \/ AttemptTimesOut(r) \/ AttemptCut(r) \/ CheckContext(r)
    \/ PenalizeProvider(r) \/ ReadStreak(r) \/ RecordFailure(r) \/ LogAndDecide(r)
    \/ StreamCut(r) \/ RecordSuccess(r)

UpstreamStep(r) ==
    \/ AttemptErrors(r) \/ AttemptRejected(r) \/ AttemptEmpty(r) \/ AttemptAccepted(r)
    \/ StreamEnds(r)

Next ==
    \/ Tick
    \/ \E r \in Requests :
         Arrive(r) \/ HandlerStep(r) \/ UpstreamStep(r) \/ ClientDisconnects(r)

\* Goroutines run and time passes; nothing is assumed of upstreams and clients.
Fairness == WF_vars(Tick) /\ \A r \in Requests : WF_vars(HandlerStep(r))

Spec == Init /\ [][Next]_vars /\ Fairness

--------------------------------------------------------------------------------
(***************************************************************************)
(* Properties.                                                             *)
(***************************************************************************)
Request == [pc : PC, strict : BOOLEAN, gone : BOOLEAN, deadline : Nat,
            todo : Seq(Providers), cands : Seq(Candidate), idx : Nat \ {0},
            tried : SUBSET Nat, calls : Nat, since : Nat, retried : BOOLEAN,
            class : Class, retryAfter : Nat, streak : Nat, at : Nat,
            logged : Nat, answer : Answer]

\* Every variable has its type; a step that uses the current candidate has one,
\* and an account carries a cooldown exactly while it has a failure streak.
TypeOK ==
    /\ now \in Nat
    /\ cooldown \in [Providers -> Nat]
    /\ usable \subseteq Accounts
    /\ account \in [Accounts -> [streak : Nat, until : Nat]]
    /\ \A a \in Accounts : account[a].streak = 0 <=> account[a].until = 0
    /\ req \in [Requests -> Request]
    /\ \A r \in Requests :
         req[r].pc \notin {"idle", "expand", "select", "done"}
            => req[r].idx \in DOMAIN req[r].cands

\* "A longer existing cooldown is never shortened" (cooldown.go): whatever the
\* order in which concurrent failures are reported, the end of a provider's
\* cooldown only moves forward.
CooldownNeverShortened == [][\A p \in Providers : cooldown'[p] >= cooldown[p]]_vars

\* A provider that has accounts is never put in cooldown as a whole: the failure
\* of one account leaves its siblings reachable.  A failing read of the account
\* list is what could break this, since it silently falls back to the provider's
\* own credentials.
SiblingIsolation ==
    ~StoreFaults => \A p \in Providers : AccountsOf[p] # <<>> => cooldown[p] = 0

\* "It never starts a retry/fallback which would consume the reserved budget"
\* (fallback.go): an attempt starts only with more than the reserve left and with
\* the client still there, first attempts and retries alike.  (What an executor
\* repeats inside an attempt, with another key or a new token, is not counted.)
BudgetReserved ==
    [][\A r \in Requests : req'[r].calls > req[r].calls => HasBudget(r)]_vars

\* Usage accounting: every candidate called is logged exactly once, whichever way
\* the request ends; the only attempt that may go unlogged is the last one of a
\* request cut by its deadline or by its client.
EveryAttemptAccounted ==
    \A r \in Requests : req[r].pc = "done" =>
        LET called == Cardinality(req[r].tried)
        IN  \/ req[r].logged = called
            \/ /\ req[r].logged = called - 1
               /\ req[r].gone \/ req[r].answer = "gateway_timeout"

\* A request is not failed while a healthy provider was left untried: when it
\* ends unserved with budget left, after failures that permit fallback, every
\* candidate whose provider was in no cooldown at any time since the request
\* began has been called.
HealthyProviderIsTried ==
    [][\A r \in Requests :
         /\ req[r].pc # "done" /\ req'[r].pc = "done" /\ req'[r].answer # "ok"
         /\ HasBudget(r)
         /\ req[r].pc = "decide" => req[r].class \in Fallback
         => \A j \in DOMAIN req[r].cands :
              \/ cooldown[req[r].cands[j].provider] > req[r].deadline - Timeout
              \/ j \in req[r].tried]_vars

\* What the error code and ARCHITECTURE.md say of the answer "all candidate
\* providers are in cooldown": it is not given while nothing at all is cooling.
AllCooldownMeansCooldown ==
    [][\A r \in Requests :
         /\ req[r].answer # "all_candidates_unavailable"
         /\ req'[r].answer = "all_candidates_unavailable"
         => \/ \E p \in Providers : cooldown[p] > now
            \/ \E a \in Accounts : account[a].until > now]_vars
================================================================================
