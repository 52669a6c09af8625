------------------------------ MODULE OAuthSession ------------------------------
(***************************************************************************)
(* Browser sign-in for Codex and Antigravity                               *)
(* (internal/codexoauth/codex.go, internal/antigravityoauth/antigravity.go): *)
(* one session at a time, a callback server and a five minute timer, and   *)
(* any number of callbacks that copy the session under the mutex, work     *)
(* without it, and finish it under the mutex again.  The tokens go into    *)
(* the rows of CredentialRows, next to executors and dashboard edits.      *)
(*                                                                         *)
(* The flavour of a behaviour selects the manager: the two differ only in  *)
(* accounts and PKCE (codex), the error path of a pasted callback URL and  *)
(* who stops the server after it.                                          *)
(***************************************************************************)
EXTENDS CredentialRows

CONSTANTS
    Callbacks,      \* requests that carry a callback: browser or pasted URL
    MaxSessions     \* bound: sign-ins started

ASSUME MaxSessionsAssumption == MaxSessions \in Nat

Sessions == 1..MaxSessions

VARIABLES
    session,        \* Manager.session: [state, status, provider, account]
    started,        \* sessions started so far; a session's state is its number
    target,         \* session -> the row it signs in for
    verifier,       \* session whose PKCE verifier the manager holds, 0 none
    server,         \* session whose callback server is running, 0 none
    timer,          \* session whose timer is armed, 0 none
    firing,         \* timers that went off -> step of markTimeout they are at
    callback,       \* callback handlers
    used,           \* authorization codes (one per session) the upstream took
    saved,          \* sessions whose tokens were stored
    orphaned        \* another session's stop, or a failed Start, hit this one

managerVars == <<session, started, target, verifier, server, timer, firing, callback, used, saved, orphaned>>
vars == <<rowVars, managerVars>>

NoSession == [state |-> 0, status |-> "", provider |-> None, account |-> None]
NoCallback == [pc |-> "idle", paste |-> FALSE, state |-> 0, provider |-> None, account |-> None,
               verifier |-> 0, row |-> Blank]

OAuthInit ==
    /\ RowsInit
    /\ session = NoSession /\ started = 0 /\ target = <<>>
    /\ verifier = 0 /\ server = 0 /\ timer = 0 /\ orphaned = FALSE
    /\ firing = [s \in Sessions |-> "no"]
    /\ callback = [c \in Callbacks |-> NoCallback]
    /\ used = {} /\ saved = {}

Pending(s) == session.state = s /\ session.status = "pending"

(***************************************************************************)
(* The pieces the handlers share.                                          *)
(***************************************************************************)
\* Mutant: the state of the session is not compared.
FinishAny(state, status) == session' = [session EXCEPT !.status = status] /\ timer' = 0

\* Mutant: the timer is stopped before the comparison.
FinishAfterTimer(state, status) ==
    /\ timer' = 0
    /\ session' = IF session.state = state THEN [session EXCEPT !.status = status] ELSE session

\* finishSuccess and finishError: only the session they are for.
Finish(state, status) ==
    IF session.state = state
    THEN session' = [session EXCEPT !.status = status] /\ timer' = 0
    ELSE UNCHANGED <<session, timer>>

\* Closes whatever server and timer there are, on behalf of one session.
StopServerOnly(state) ==
    /\ server' = 0 /\ timer' = 0
    /\ orphaned' = (orphaned \/ (session.status = "pending" /\ session.state # state))

(***************************************************************************)
(* Start: names the target, stops the session of before, listens.  Without *)
(* a provider name it takes a free one, which is one of the names here.    *)
(***************************************************************************)
ProviderTargets == {<<Providers[i], None>> : i \in DOMAIN Providers}
AccountTargets == {<<accounts[a].provider, a>> : a \in DOMAIN accounts}

\* Only Codex signs in for an account.
Targets == ProviderTargets \cup (IF flavour = "codex" THEN AccountTargets ELSE {})

Start ==
    \E t \in Targets :
        /\ started < MaxSessions /\ Counted
        /\ started' = started + 1
        /\ target' = Append(target, IF t[2] = None THEN t[1] ELSE t[2])
        /\ session' = [state |-> started', status |-> "pending", provider |-> t[1], account |-> t[2]]
        /\ verifier' = IF flavour = "codex" THEN started' ELSE 0
        /\ server' = started' /\ timer' = started'
        /\ orphaned' = FALSE
        /\ UNCHANGED <<flavour, stored, exec, edit, firing, callback, used, saved>>

\* The port is taken: the session of before is stopped, and stays.
StartFails ==
    /\ Counted
    /\ verifier' = 0 /\ server' = 0 /\ timer' = 0
    /\ orphaned' = (orphaned \/ session.status = "pending")
    /\ UNCHANGED <<flavour, stored, exec, edit, session, started, target, firing, callback, used, saved>>

\* The callback server dies by itself.
ServeFails ==
    /\ server # 0
    /\ server' = 0
    /\ Finish(server, "error")
    /\ UNCHANGED <<rowVars, started, target, verifier, firing, callback, used, saved, orphaned>>

(***************************************************************************)
(* A callback for some session, over the callback server or pasted into    *)
(* the dashboard.  It goes on only for the current session, of whatever    *)
(* status.                                                                 *)
(***************************************************************************)
\* From here on only the session matters, and, for Antigravity, whether the
\* callback was pasted.
Leave(c, pc) ==
    callback' = [callback EXCEPT ![c] = [NoCallback EXCEPT !.pc = pc, !.state = callback[c].state,
                                                           !.paste = pc = "finish" /\ callback[c].paste]]

Arrive(c) ==
    \E paste, denied \in BOOLEAN :
        /\ callback[c].pc = "idle"
        /\ paste \/ server # 0
        /\ session.status # ""
        /\ ~(denied /\ paste /\ flavour = "codex")
        /\ callback' = [callback EXCEPT ![c] =
             [NoCallback EXCEPT !.pc = IF denied THEN "fail" ELSE "exchange",
                                !.paste = ~denied /\ paste /\ flavour = "antigravity",
                                !.state = session.state, !.provider = session.provider,
                                !.account = session.account, !.verifier = verifier]]
        /\ UNCHANGED <<rowVars, session, started, target, verifier, server, timer, firing, used, saved, orphaned>>

\* A code is taken once, and by Codex only with the verifier of the same sign-in.
CodexTakes(b) == b.state \notin used /\ b.verifier = b.state
AntigravityTakes(b) == b.state \notin used

Exchange(c) ==
    LET b == callback[c] IN
    /\ b.pc = "exchange"
    /\ \/ Leave(c, "fail") /\ UNCHANGED used
       \/ /\ IF flavour = "codex" THEN CodexTakes(b) ELSE AntigravityTakes(b)
          /\ used' = used \cup {b.state}
          /\ callback' = [callback EXCEPT ![c] = [b EXCEPT !.pc = "load", !.verifier = 0]]
    /\ UNCHANGED <<rowVars, session, started, target, verifier, server, timer, firing, saved, orphaned>>

\* saveTokens reads the row it is going to rewrite; the account must be there.
AccountRow(b) ==
    IF b.account \in AccountsOf(b.provider) THEN {accounts[b.account]} ELSE {}

ProviderRow(b) ==
    IF b.provider \in DOMAIN providers THEN {providers[b.provider]} ELSE {Blank}

SaveLoad(c) ==
    LET b == callback[c]
    IN  /\ b.pc = "load"
        /\ \/ \E row \in IF b.account = None THEN ProviderRow(b) ELSE AccountRow(b) :
                 callback' = [callback EXCEPT ![c] = [b EXCEPT !.pc = "save", !.row = row]]
           \/ Leave(c, "fail")
        /\ UNCHANGED <<rowVars, session, started, target, verifier, server, timer, firing, used, saved, orphaned>>

\* The token is the one minted for the sign-in the code belongs to.
SaveWrite(c) ==
    LET b == callback[c]
        for == target[b.state]
    IN  /\ b.pc = "save"
        /\ \E rotated \in BOOLEAN :
             LET row == [b.row EXCEPT !.token = for, !.refresh = Kept(b.row.refresh, for, rotated)] IN
             \/ b.account = None /\ providers' = Put(providers, b.provider, row) /\ UNCHANGED accounts
             \/ b.account # None /\ accounts' = Put(accounts, b.account, row) /\ UNCHANGED providers
        /\ saved' = saved \cup {b.state}
        /\ Leave(c, "finish")
        /\ UNCHANGED <<calls, flavour, exec, edit, session, started, target, verifier, server, timer,
                       firing, used, orphaned>>

SaveFails(c) ==
    /\ callback[c].pc = "save"
    /\ Leave(c, "fail")
    /\ UNCHANGED <<rowVars, session, started, target, verifier, server, timer, firing, used, saved, orphaned>>

\* A pasted Antigravity callback leaves the server to the timer.
Succeed(c) ==
    LET b == callback[c] IN
    /\ b.pc = "finish"
    /\ Finish(b.state, "done")
    /\ IF b.paste
       THEN callback' = [callback EXCEPT ![c] = NoCallback] ELSE Leave(c, "stop")
    /\ UNCHANGED <<rowVars, started, target, verifier, server, firing, used, saved, orphaned>>

\* 250 ms later in a goroutine of its own, and not for any particular session.
StopAfter(c) ==
    /\ callback[c].pc = "stop"
    /\ StopServerOnly(callback[c].state)
    /\ callback' = [callback EXCEPT ![c] = NoCallback]
    /\ UNCHANGED <<rowVars, session, started, target, verifier, firing, used, saved>>

Fail(c) ==
    /\ callback[c].pc = "fail"
    /\ Finish(callback[c].state, "error")
    /\ callback' = [callback EXCEPT ![c] = NoCallback]
    /\ UNCHANGED <<rowVars, started, target, verifier, server, firing, used, saved, orphaned>>

(***************************************************************************)
(* Five minutes: markTimeout takes the mutex twice.                        *)
(***************************************************************************)
TimerFires ==
    /\ timer # 0
    /\ timer' = 0
    /\ firing' = [firing EXCEPT ![timer] = "finish"]
    /\ UNCHANGED <<rowVars, session, started, target, verifier, server, callback, used, saved, orphaned>>

\* Mutant: the timeout closes the server only.
TimeoutFinishQuiet(s) ==
    /\ firing[s] = "finish"
    /\ firing' = [firing EXCEPT ![s] = "stop"]
    /\ UNCHANGED <<rowVars, session, started, target, verifier, server, timer, callback, used, saved, orphaned>>

TimeoutFinish(s) ==
    /\ firing[s] = "finish"
    /\ Finish(s, "error")
    /\ firing' = [firing EXCEPT ![s] = "stop"]
    /\ UNCHANGED <<rowVars, started, target, verifier, server, callback, used, saved, orphaned>>

TimeoutStop(s) ==
    /\ firing[s] = "stop"
    /\ StopServerOnly(s)
    /\ firing' = [firing EXCEPT ![s] = "no"]
    /\ UNCHANGED <<rowVars, session, started, target, verifier, callback, used, saved>>

CallbackStep(c) ==
    \/ Arrive(c) \/ Exchange(c) \/ SaveLoad(c) \/ SaveWrite(c) \/ SaveFails(c)
    \/ Succeed(c) \/ StopAfter(c) \/ Fail(c)

TimeoutStep(s) == TimeoutFinish(s) \/ TimeoutStop(s)

OAuthNext ==
    \/ RowsNext /\ UNCHANGED managerVars
    \/ Start \/ StartFails \/ ServeFails \/ TimerFires
    \/ \E c \in Callbacks : CallbackStep(c)
    \/ \E s \in Sessions : TimeoutStep(s)

\* Timers and goroutines run; browsers, editors and requests need not.
OAuthSpec ==
    /\ OAuthInit /\ [][OAuthNext]_vars
    /\ WF_vars(TimerFires \/ \E s \in Sessions : TimeoutStep(s))

(***************************************************************************)
(* Properties.                                                             *)
(***************************************************************************)
OAuthTypeOK ==
    /\ started \in 0..MaxSessions /\ Len(target) = started
    /\ session.state \in 0..started
    /\ session.status \in {"", "pending", "done", "error"}
    /\ {verifier, server, timer} \subseteq 0..started
    /\ firing \in [Sessions -> {"no", "finish", "stop"}]
    /\ \A c \in Callbacks : callback[c].state \in 0..started
    /\ used \subseteq Sessions /\ saved \subseteq used

\* The dashboard shows "done" only for a sign-in whose tokens were written to a
\* row, although callbacks of older sign-ins finish late (codex.go:198-245).
DoneMeansSaved == session.status = "done" => session.state \in saved

\* A pending sign-in has its own timer running or firing, except after a failed
\* Start or another sign-in's late stop (codex.go:117-119, 237-241, 406-409).
PendingSessionIsTimed ==
    session.status = "pending" /\ ~orphaned =>
        timer = session.state \/ firing[session.state] = "finish"

\* A pending sign-in ends, by a callback, its timer or the next sign-in, unless
\* it was orphaned (codex.go:129-131).
SessionsEnd ==
    \A s \in Sessions : (Pending(s) /\ ~orphaned) ~> (~Pending(s) \/ orphaned)
================================================================================
