----------------------------- MODULE CodexQuotaGate -----------------------------
(***************************************************************************)
(* codexQuotaGate: before a Codex account becomes a candidate, its quota   *)
(* usage is compared with the limit set for the account.  Usage is fetched *)
(* from the upstream and kept for codexQuotaCacheTTL; concurrent calls for *)
(* one account share a fetch.  allows reads the snapshot under the mutex,  *)
(* leaves it, and takes it again in refresh; between the two another call  *)
(* may have fetched.  now is the instant at which the calling request      *)
(* began: however late the gate is reached, it is what a fetch is stamped  *)
(* with.                                                                   *)
(***************************************************************************)
EXTENDS Integers

CONSTANTS
    Accounts,       \* Codex accounts
    Calls,          \* calls of allows; each is made once
    NoCall,         \* no fetch is under way
    Limits,         \* values of QuotaLimitPercent; 0: the gate is off
    Readings,       \* percentages an upstream may report for a quota window
    NoReading,      \* a percentage that is missing or is not a number
    TTL,            \* codexQuotaCacheTTL
    MaxTime         \* bound on the clock

Full == 100

ASSUME GateConstants ==
    /\ NoCall \notin Calls /\ NoReading \notin Readings
    /\ Limits \subseteq Nat /\ Readings \subseteq Int
    /\ TTL \in Nat \ {0} /\ MaxTime \in Nat

VARIABLES
    now,            \* the clock
    cache,          \* account -> last valid snapshot
    flight,         \* account -> the call that fetches for it
    call            \* call of allows -> its local state

vars == <<now, cache, flight, call>>

Snapshot == [valid : BOOLEAN, used : 0..Full, fetchedAt : Int]

\* The zero time lies before every other.
NoSnapshot == [valid |-> FALSE, used |-> 0, fetchedAt |-> -1]

Call == [pc : {"new", "arrived", "checked", "waiting", "fetching", "decided"},
         account : Accounts, limit : Nat, begun : Nat, snapshot : Snapshot,
         leader : Calls \cup {NoCall}, done : BOOLEAN, gone : BOOLEAN,
         verdict : {"none", "allow", "refuse"}]

Init ==
    /\ now = 0
    /\ cache = [a \in Accounts |-> NoSnapshot]
    /\ flight = [a \in Accounts |-> NoCall]
    /\ \E a \in Accounts :
         call = [c \in Calls |-> [pc |-> "new", account |-> a, limit |-> 0, begun |-> 0,
                                  snapshot |-> NoSnapshot, leader |-> NoCall,
                                  done |-> FALSE, gone |-> FALSE, verdict |-> "none"]]

--------------------------------------------------------------------------------
\* A limit above 100 percent counts as 100.
Threshold(c) == IF call[c].limit > Full THEN Full ELSE call[c].limit

\* The call returns used < threshold; an unknown usage lets the account through.
\* Its locals go out of scope.
Return(q, verdict) ==
    [q EXCEPT !.pc = "decided", !.verdict = verdict, !.limit = 0, !.begun = 0,
              !.snapshot = NoSnapshot, !.leader = NoCall, !.gone = FALSE]

Decided(q, snapshot, threshold) ==
    Return(q, IF snapshot.valid /\ snapshot.used >= threshold THEN "refuse" ELSE "allow")

\* Fault: a reading is taken as it comes.
ClampNot(v) == v

Clamp(v) == IF v < 0 THEN 0 ELSE IF v > Full THEN Full ELSE v

\* A window of an answer, whatever names its percentages go under.
Windows == [used : Readings \cup {NoReading}, remaining : Readings \cup {NoReading}]

\* quotaWindows: an answer has some of the windows of the normal limit and of
\* the limit of code reviews.
Answers == UNION {[names -> Windows] : names \in SUBSET {"session", "weekly", "review"}}

\* The percentage used, or what the remaining one leaves of 100; a window
\* that tells neither counts as unused.
FormatCodexQuota(w) ==
    Clamp(IF w.used # NoReading THEN w.used
          ELSE IF w.remaining # NoReading THEN Full - w.remaining ELSE 0)

ParseCodexQuotaPayload(answer) == [name \in DOMAIN answer |-> FormatCodexQuota(answer[name])]

\* codexRoutingQuotaUsage: the higher of the windows there are, reviews left
\* out; without either window the usage is unknown.
Known(report) == DOMAIN report \cap {"session", "weekly"} # {}

RoutingUsage(report) ==
    LET Used(name) == IF name \in DOMAIN report THEN Clamp(report[name]) ELSE 0
    IN  IF Used("session") > Used("weekly") THEN Used("session") ELSE Used("weekly")

\* What a fetch may find to be the usage.
Usages == {RoutingUsage(r) : r \in {p \in {ParseCodexQuotaPayload(a) : a \in Answers} : Known(p)}}

\* A request begins, and comes to the gate with an account sooner or later.
Arrive(c) ==
    /\ call[c].pc = "new"
    /\ \E a \in Accounts, l \in Limits :
         call' = [call EXCEPT ![c].pc = "arrived", ![c].account = a, ![c].limit = l,
                              ![c].begun = now]
    /\ UNCHANGED <<now, cache, flight>>

\* The gate is off, or a snapshot less than TTL older than the request decides.
Look(c) ==
    /\ call[c].pc = "arrived"
    /\ LET s     == cache[call[c].account]
           fresh == s.valid /\ call[c].begun - s.fetchedAt < TTL
       IN  call' = [call EXCEPT ![c] =
                      IF call[c].limit = 0 THEN Return(@, "allow")
                      ELSE IF fresh THEN Decided(@, s, Threshold(c))
                      ELSE [@ EXCEPT !.pc = "checked"]]
    /\ UNCHANGED <<now, cache, flight>>

\* refresh: somebody is fetching already.
JoinFlight(c) ==
    /\ call[c].pc = "checked"
    /\ flight[call[c].account] # NoCall
    /\ call' = [call EXCEPT ![c].pc = "waiting", ![c].snapshot = cache[call[c].account],
                            ![c].leader = flight[call[c].account]]
    /\ UNCHANGED <<now, cache, flight>>

\* Fault: a flight that is under way is replaced.
LeadFlightAnyway(c) ==
    /\ call[c].pc = "checked"
    /\ flight' = [flight EXCEPT ![call[c].account] = c]
    /\ call' = [call EXCEPT ![c].pc = "fetching", ![c].snapshot = cache[call[c].account]]
    /\ UNCHANGED <<now, cache>>

\* refresh: nobody is; the cache is not looked at again.
LeadFlight(c) ==
    /\ call[c].pc = "checked"
    /\ flight[call[c].account] = NoCall
    /\ flight' = [flight EXCEPT ![call[c].account] = c]
    /\ call' = [call EXCEPT ![c].pc = "fetching", ![c].snapshot = cache[call[c].account]]
    /\ UNCHANGED <<now, cache>>

\* The answer has a window that counts.
FetchSucceeds(c) ==
    /\ call[c].pc = "fetching"
    /\ \E used \in Usages :
         LET s == [valid |-> TRUE, used |-> used, fetchedAt |-> call[c].begun]
         IN  /\ cache' = [cache EXCEPT ![call[c].account] = s]
             /\ call' = [call EXCEPT ![c] = [Decided(@, s, Threshold(c)) EXCEPT !.done = TRUE]]
    /\ flight' = [flight EXCEPT ![call[c].account] = NoCall]
    /\ UNCHANGED now

\* Fault: an error returns before the flight is taken down.
FetchFailsEarlyReturn(c) ==
    /\ call[c].pc = "fetching"
    /\ call' = [call EXCEPT ![c] = Decided(@, call[c].snapshot, Threshold(c))]
    /\ UNCHANGED <<now, cache, flight>>

\* It has none, or is not a 2xx (a report without quotas), or does not come, not
\* within codexQuotaFetchTimeout, or the caller's context ends: the snapshot from
\* before the fetch decides.
FetchFails(c) ==
    /\ call[c].pc = "fetching"
    /\ call' = [call EXCEPT ![c] = [Decided(@, call[c].snapshot, Threshold(c))
                                       EXCEPT !.done = TRUE]]
    /\ flight' = [flight EXCEPT ![call[c].account] = NoCall]
    /\ UNCHANGED <<now, cache>>

\* Fault: a follower decides on the snapshot it had.
FollowerWakesStale(c) ==
    /\ call[c].pc = "waiting" /\ call[call[c].leader].done
    /\ call' = [call EXCEPT ![c] = Decided(@, call[c].snapshot, Threshold(c))]
    /\ UNCHANGED <<now, cache, flight>>

\* The fetch that was waited for is over: whatever it came to, the cached snapshot
\* decides.
FollowerWakes(c) ==
    /\ call[c].pc = "waiting" /\ call[call[c].leader].done
    /\ call' = [call EXCEPT ![c] = Decided(@, cache[call[c].account], Threshold(c))]
    /\ UNCHANGED <<now, cache, flight>>

\* A waiting call whose context ended decides on the snapshot it had.
FollowerLeaves(c) ==
    /\ call[c].pc = "waiting" /\ call[c].gone
    /\ call' = [call EXCEPT ![c] = Decided(@, call[c].snapshot, Threshold(c))]
    /\ UNCHANGED <<now, cache, flight>>

\* The context of the request ends.
ContextEnds(c) ==
    /\ call[c].pc \notin {"new", "decided"} /\ ~call[c].gone
    /\ call' = [call EXCEPT ![c].gone = TRUE]
    /\ UNCHANGED <<now, cache, flight>>

Tick ==
    /\ now < MaxTime
    /\ now' = now + 1
    /\ UNCHANGED <<cache, flight, call>>

FetchEnds(c) == FetchSucceeds(c) \/ FetchFails(c)

CallStep(c) ==
    \/ Look(c) \/ JoinFlight(c) \/ LeadFlight(c) \/ FetchEnds(c)
    \/ FollowerWakes(c) \/ FollowerLeaves(c)

Next ==
    \/ Tick
    \/ \E c \in Calls : Arrive(c) \/ CallStep(c) \/ ContextEnds(c)

\* Goroutines run, and a fetch ends: it is cut after codexQuotaFetchTimeout.
Fairness == \A c \in Calls : WF_vars(CallStep(c))

Spec == Init /\ [][Next]_vars /\ Fairness

--------------------------------------------------------------------------------
(***************************************************************************)
(* Properties.                                                             *)
(***************************************************************************)
\* Types: whatever the upstream reports, the cache holds percentages.
TypeOK ==
    /\ now \in 0..MaxTime
    /\ cache \in [Accounts -> Snapshot]
    /\ flight \in [Accounts -> Calls \cup {NoCall}]
    /\ call \in [Calls -> Call]
    /\ \A c \in Calls : call[c].pc = "waiting" => call[c].leader \in Calls

\* An account is fetched for by one call at a time, which is the one the flight table
\* names: the table never forgets a fetch that is under way, and holds no flight that
\* has landed.
SingleFlight ==
    \A a \in Accounts :
        {c \in Calls : call[c].pc = "fetching" /\ call[c].account = a}
            = IF flight[a] = NoCall THEN {} ELSE {flight[a]}

\* No decision on stale data: a call whose context is alive refuses the account if and
\* only if the cache, at the moment of the decision, shows it at its limit; a leader
\* whose fetch failed decides on a snapshot it read before the fetch, and even so.
DecisionMatchesCache ==
    [][\A c \in Calls :
         /\ call[c].verdict = "none" /\ call'[c].verdict # "none"
         /\ call[c].limit > 0 /\ ~call[c].gone
         => LET s == cache'[call[c].account]
            IN  call'[c].verdict = "refuse" <=> s.valid /\ s.used >= Threshold(c)]_vars

\* "Quota observation must not make the gateway unavailable" (codex_quota_gate.go):
\* a call that reached the gate is decided, even if every fetch fails.
EveryCallDecides ==
    \A c \in Calls : call[c].pc = "arrived" ~> call[c].pc = "decided"
================================================================================
