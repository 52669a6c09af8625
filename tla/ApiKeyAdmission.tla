---------------------------- MODULE ApiKeyAdmission ----------------------------
(***************************************************************************)
(* Admission of gateway requests by API key.  A handler copies the key's   *)
(* policy out of the settings (auth.ResolveAPIKey), checks the quota on    *)
(* that copy (auth.KeyWithinQuota), takes a slot of the in-memory limiter  *)
(* (apiKeyLimiter.acquire), serves the request, records one unit of usage  *)
(* per logged attempt (Handler.logRequest, Store.RecordAPIKeyUsage) and    *)
(* gives the slot back.  Meanwhile dashboard sessions load the settings    *)
(* and save them as a whole (Store.SaveSettings).                          *)
(*                                                                         *)
(* The clock ticks in fractions of the limiter's window; reading the clock *)
(* and taking the limiter's mutex fall in one tick.  Handlers are reused   *)
(* for any number of requests.                                             *)
(***************************************************************************)
EXTENDS Integers, FiniteSets, FiniteSetsExt

CONSTANTS
    Keys,           \* ids of API keys
    Handlers,       \* goroutines that serve requests
    Admins,         \* dashboard sessions
    Rpms,           \* values of MaxRPM in use; 0: no limit
    Concs,          \* values of MaxConcurrent in use; 0: no limit
    Quota,          \* MaxRequests of every key
    MaxAttempts,    \* most attempts one request logs
    Window,         \* apiKeyRateWindow
    MaxBurst,       \* bound on the requests counted in one window
    MaxSaves,       \* bound on the saves of one dashboard session
    MaxTime         \* bound on the clock

ASSUME AdmissionConstants ==
    /\ IsFiniteSet(Handlers)
    /\ Rpms \subseteq Nat /\ \E top \in Rpms : \A n \in Rpms : n <= top
    /\ Concs \subseteq Nat /\ Concs # {}
    /\ Quota \in Nat \ {0} /\ MaxAttempts \in Nat \ {0}
    /\ Window \in Nat \ {0} /\ MaxTime \in Nat
    /\ MaxBurst \in Nat /\ MaxSaves \in Nat

VARIABLES
    now,            \* the clock
    policy,         \* Settings.APIKeys: key -> stored policy
    limiter,        \* apiKeyLimiter.entries
    handler,        \* handler -> its request
    admin,          \* dashboard session -> the settings it loaded
    admitted,       \* key -> tick -> rate-limited requests admitted (history)
    recreated       \* keys that were deleted and stored again (history)

history == <<admitted, recreated>>
vars == <<now, policy, limiter, handler, admin, history>>

Policy == [present : BOOLEAN, enabled : BOOLEAN, rpm : Rpms, conc : Concs, used : Nat]

Absent == [present |-> FALSE, enabled |-> FALSE, rpm |-> CHOOSE n \in Rpms : TRUE,
           conc |-> CHOOSE n \in Concs : TRUE, used |-> 0]

\* A line of the API-key form, or no line for the key.
FormPolicy == [present : {TRUE}, enabled : BOOLEAN, rpm : Rpms, conc : Concs,
               used : {0}] \cup {Absent}

\* A policy without limits is not tracked by the limiter.
Limited(p) == p.rpm > 0 \/ p.conc > 0

\* The readings of the clock.
Time == 0..MaxTime

\* The handlers that hold a slot of key k.
Holders(k) == {h \in Handlers : handler[h].slot /\ handler[h].key = k}

Init ==
    /\ now = 0
    /\ policy \in [Keys -> {p \in FormPolicy : p.enabled}]
    /\ limiter = [k \in Keys |-> [started |-> -Window, requests |-> 0, inFlight |-> 0]]
    /\ \E k \in Keys :
         handler = [h \in Handlers |-> [pc |-> "idle", key |-> k, policy |-> Absent,
                                        slot |-> FALSE, attempts |-> 0]]
    /\ admin = [s \in Admins |-> [pc |-> "idle", loaded |-> [k \in Keys |-> Absent],
                               saves |-> 0]]
    /\ admitted = [k \in Keys |-> [t \in Time |-> 0]]
    /\ recreated = {}

--------------------------------------------------------------------------------
(***************************************************************************)
(* A request.                                                              *)
(***************************************************************************)
\* Fault: the slot is not given back when the request is over.
FreeKeepsSlot(q) == [q EXCEPT !.pc = "idle", !.policy = Absent, !.attempts = 0]

\* The answer is written and the handler is free for the next request.
Free(q) == [q EXCEPT !.pc = "idle", !.policy = Absent, !.slot = FALSE, !.attempts = 0]

\* loadGatewayState: GetSettings and ResolveAPIKey; the policy is a copy.  A
\* missing or disabled key is answered 401.
LoadPolicy(h) ==
    /\ handler[h].pc = "idle"
    /\ \E k \in Keys :
         /\ policy[k].present /\ policy[k].enabled
         /\ handler' = [handler EXCEPT ![h].pc = "loaded", ![h].key = k,
                                       ![h].policy = policy[k]]
    /\ UNCHANGED <<now, policy, limiter, admin, history>>

\* Fault: a quota that is just used up still admits.
WithinQuotaOffByOne(p) == p.used <= Quota

\* KeyWithinQuota.
WithinQuota(p) == p.used < Quota

\* KeyAllowsModel and KeyWithinQuota judge the copy; a refused request is answered
\* 403 or 429.
CheckQuota(h) ==
    /\ handler[h].pc = "loaded"
    /\ \/ handler' = [handler EXCEPT ![h] = Free(@)]          \* model not allowed
       \/ handler' = [handler EXCEPT ![h] =
                        IF WithinQuota(@.policy) THEN [@ EXCEPT !.pc = "checked"]
                        ELSE Free(@)]
    /\ UNCHANGED <<now, policy, limiter, admin, history>>

\* Fault: a new window also forgets the requests in flight.
EntryNowForgets(k) ==
    IF now - limiter[k].started >= Window
    THEN [started |-> now, requests |-> 0, inFlight |-> 0]
    ELSE limiter[k]

\* The entry of a key as acquire sees it: a window that is over starts anew.
EntryNow(k) ==
    IF now - limiter[k].started >= Window
    THEN [limiter[k] EXCEPT !.started = now, !.requests = 0]
    ELSE limiter[k]

\* Fault: the rate limit is off by one.
AdmitsOffByOne(p, entry) ==
    /\ p.rpm > 0 => entry.requests <= p.rpm
    /\ p.conc > 0 => entry.inFlight < p.conc

\* Fault: the concurrency limit is off by one.
AdmitsOneTooMany(p, entry) ==
    /\ p.rpm > 0 => entry.requests < p.rpm
    /\ p.conc > 0 => entry.inFlight <= p.conc

\* The two limits of a policy.
Admits(p, entry) ==
    /\ p.rpm > 0 => entry.requests < p.rpm
    /\ p.conc > 0 => entry.inFlight < p.conc

\* acquire, under the limiter's mutex; a refused request is answered 429 and leaves
\* the limiter as it was.
Acquire(h) ==
    /\ handler[h].pc = "checked"
    /\ EntryNow(handler[h].key).requests < MaxBurst
    /\ LET k == handler[h].key
           p == handler[h].policy
       IN  \/ /\ ~Limited(p)
              /\ handler' = [handler EXCEPT ![h].pc = "serving"]
              /\ UNCHANGED <<limiter, admitted>>
           \/ /\ Limited(p) /\ ~Admits(p, EntryNow(k))
              /\ handler' = [handler EXCEPT ![h] = Free(@)]
              /\ UNCHANGED <<limiter, admitted>>
           \/ /\ Limited(p) /\ Admits(p, EntryNow(k))
              /\ limiter' = [limiter EXCEPT ![k] =
                     [EntryNow(k) EXCEPT !.requests = @ + 1, !.inFlight = @ + 1]]
              /\ admitted' = IF p.rpm > 0 THEN [admitted EXCEPT ![k][now] = @ + 1]
                                          ELSE admitted
              /\ handler' = [handler EXCEPT ![h].pc = "serving", ![h].slot = TRUE]
    /\ UNCHANGED <<now, policy, admin, recreated>>

\* An attempt is logged: RecordAPIKeyUsage adds one request to the stored policy,
\* unless the key has been deleted meanwhile.
RecordUsage(h) ==
    /\ handler[h].pc = "serving" /\ handler[h].attempts < MaxAttempts
    /\ LET k == handler[h].key
       IN  policy' = IF policy[k].present THEN [policy EXCEPT ![k].used = @ + 1] ELSE policy
    /\ handler' = [handler EXCEPT ![h].attempts = @ + 1]
    /\ UNCHANGED <<now, limiter, admin, history>>

\* The deferred release: it runs however the request ended.
Release(h) ==
    /\ handler[h].pc = "serving"
    /\ LET k == handler[h].key
       IN  limiter' = IF handler[h].slot
                      THEN [limiter EXCEPT ![k].inFlight = IF @ > 0 THEN @ - 1 ELSE @]
                      ELSE limiter
    /\ handler' = [handler EXCEPT ![h] = Free(@)]
    /\ UNCHANGED <<now, policy, admin, history>>

--------------------------------------------------------------------------------
(***************************************************************************)
(* The dashboard.                                                          *)
(***************************************************************************)
AdminLoad(s) ==
    /\ admin[s].pc = "idle" /\ admin[s].saves < MaxSaves
    /\ admin' = [admin EXCEPT ![s].pc = "editing", ![s].loaded = policy]
    /\ UNCHANGED <<now, policy, limiter, handler, history>>

\* Fault: the saved counters are those of the form.
PreserveAPIKeyUsageNot(items) == items

\* The counters of keys that are still stored win over those of the saved form.
PreserveAPIKeyUsage(items) ==
    [k \in Keys |-> IF items[k].present /\ policy[k].present
                    THEN [items[k] EXCEPT !.used = policy[k].used] ELSE items[k]]

\* SaveSettings: the API-key form brings its own list of keys, with no usage (a key
\* may be new, deleted, disabled, or have other limits); every other form writes the
\* keys back as it loaded them.
AdminSave(s) ==
    /\ admin[s].pc = "editing"
    /\ \E items \in [Keys -> FormPolicy] \cup {admin[s].loaded} :
         /\ policy' = PreserveAPIKeyUsage(items)
         /\ recreated' = recreated \cup {k \in Keys : items[k].present /\ ~policy[k].present}
    /\ admin' = [admin EXCEPT ![s] = [pc |-> "idle", loaded |-> [k \in Keys |-> Absent],
                                     saves |-> @.saves + 1]]
    /\ UNCHANGED <<now, limiter, handler, admitted>>

Tick ==
    /\ now < MaxTime
    /\ now' = now + 1
    /\ UNCHANGED <<policy, limiter, handler, admin, history>>

HandlerStep(h) ==
    \/ LoadPolicy(h) \/ CheckQuota(h) \/ Acquire(h) \/ RecordUsage(h) \/ Release(h)

AdminStep(s) == AdminLoad(s) \/ AdminSave(s)

Next ==
    \/ Tick
    \/ \E h \in Handlers : HandlerStep(h)
    \/ \E s \in Admins : AdminStep(s)

Spec == Init /\ [][Next]_vars

--------------------------------------------------------------------------------
(***************************************************************************)
(* Properties.                                                             *)
(***************************************************************************)
Entry == [started : Int, requests : Nat, inFlight : Nat]

Handling == [pc : {"idle", "loaded", "checked", "serving"}, key : Keys, policy : Policy,
             slot : BOOLEAN, attempts : 0..MaxAttempts]

Editing == [pc : {"idle", "editing"}, loaded : [Keys -> Policy], saves : Nat]

\* Types; and a handler between requests holds nothing of the last one.
TypeOK ==
    /\ now \in Time
    /\ policy \in [Keys -> Policy]
    /\ limiter \in [Keys -> Entry]
    /\ handler \in [Handlers -> Handling]
    /\ \A h \in Handlers : handler[h].slot => handler[h].pc = "serving"
    /\ admin \in [Admins -> Editing]
    /\ admitted \in [Keys -> [Time -> Nat]]
    /\ recreated \subseteq Keys

\* The limiter's count is the number of requests in flight that it admitted,
\* across window changes and across changes of the key's limits.  A count that is too
\* high locks the key out for good; one that is too low lets requests through.
InFlightExact == \A k \in Keys : limiter[k].inFlight = Cardinality(Holders(k))

\* MaxConcurrent holds at every moment, not only when a request is admitted: while
\* every request in flight was admitted under a limit, there are no more of them
\* than the highest of those limits, whatever the limits were changed to meanwhile
\* and in whatever order the requests ended.
ConcurrencyBound ==
    \A k \in Keys :
        LET limits == {handler[h].policy.conc : h \in Holders(k)}
        IN  limits # {} /\ 0 \notin limits
              => \E n \in limits : Cardinality(Holders(k)) <= n

\* The rate-limited requests of key k admitted at the given times.
Admissions(k, times) == UNION {{u} \X (1..admitted[k][u]) : u \in times}

\* The limiter's window is fixed, not sliding: in any interval of one window at most
\* twice MaxRPM requests are admitted (and no more than that).
SlidingRateBound ==
    \A k \in Keys, t \in Time :
        LET interval == {u \in Time : t <= u /\ u < t + Window}
        IN  Cardinality(Admissions(k, interval)) <= 2 * Max(Rpms)

\* Usage that was recorded is not lost: as long as the key stays stored, no step takes
\* back what RecordAPIKeyUsage counted, neither the save of a form that was opened
\* before, nor one that brings new limits.
UsageNeverLost ==
    [][\A k \in Keys : policy[k].present /\ policy'[k].present
                         => policy'[k].used >= policy[k].used]_vars

\* The quota is checked on a copy made when the request arrived, so it can be passed,
\* but only by the requests already under way: at most MaxAttempts for each handler.
\* (A key that was deleted and stored again starts from another count.)
QuotaOvershootBounded ==
    \A k \in Keys \ recreated :
        policy[k].used <= Quota - 1 + MaxAttempts * Cardinality(Handlers)
================================================================================
