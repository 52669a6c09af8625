----------------------------- MODULE CredentialRows -----------------------------
(***************************************************************************)
(* Provider and account rows as far as they carry upstream credentials,    *)
(* and who rewrites them: executors that refresh a token in the middle of  *)
(* a request (provider/codex.go, provider/antigravity.go), the quota and   *)
(* reset-credit actions of the dashboard, and its edits, imports and       *)
(* deletions.  A row is read with one store call and written whole with    *)
(* another.  A token is abstracted to the row whose sign-in it stems from, *)
(* and whether a row is switched on is left out: nothing has to choose it. *)
(***************************************************************************)
EXTENDS Integers, FiniteSets, Sequences

CONSTANTS
    Providers,      \* provider ids in the order a free one is looked for
    Accounts,       \* account ids
    Home,           \* account -> the provider it may be stored under
    Flavours,       \* subset of {"codex", "antigravity"}
    Requests,       \* calls of an executor
    Editors,        \* dashboard sessions
    Repetitions,    \* status -> attempts below which Antigravity repeats it (5 and 2 in the code)
    MaxCalls        \* bound: calls, edits, imports, deletions, sign-ins

None == ""

ASSUME FlavourAssumption == Flavours \subseteq {"codex", "antigravity"}
ASSUME BoundAssumption == MaxCalls \in Nat
ASSUME RepetitionsAssumption ==
    /\ Repetitions \in [{429, 503} -> Nat]
    /\ Repetitions[503] <= Repetitions[429]
ASSUME NamesAssumption ==
    /\ Home \in [Accounts -> {Providers[i] : i \in DOMAIN Providers}]
    /\ None \notin Accounts /\ 1 \in DOMAIN Providers

VARIABLES
    calls,          \* operations begun so far
    flavour,        \* type of all providers of a behaviour
    providers,      \* stored providers: [token, refresh]
    accounts,       \* stored accounts: [provider, token, refresh]
    exec,           \* executor calls
    edit            \* dashboard sessions

rowVars == <<calls, flavour, providers, accounts, exec, edit>>
stored == <<providers, accounts>>

Put(table, id, row) == [x \in DOMAIN table \cup {id} |-> IF x = id THEN row ELSE table[x]]
Drop(table, ids) == [id \in DOMAIN table \ ids |-> table[id]]

Counted == calls < MaxCalls /\ calls' = calls + 1

NoCall == [pc |-> "idle", via |-> None, provider |-> None, target |-> None,
           token |-> None, refresh |-> None, attempt |-> 0, refreshed |-> 0]
Blank == [token |-> None, refresh |-> None]
NoEdit == [pc |-> "idle", id |-> None, row |-> Blank]
Signed(id) == [token |-> id, refresh |-> id]
SignedAccount(a) == [provider |-> Home[a], token |-> a, refresh |-> a]

\* A token answer may leave out the refresh token: the old one is then kept.
Kept(old, new, rotated) == IF rotated THEN new ELSE old

RowsInit ==
    /\ calls = 0
    /\ flavour \in Flavours
    /\ providers = [p \in {Providers[1]} |-> Signed(p)]
    /\ accounts = [a \in Accounts |-> SignedAccount(a)]
    /\ exec = [r \in Requests |-> NoCall]
    /\ edit = [e \in Editors |-> NoEdit]

AccountsOf(p) == {a \in DOMAIN accounts : accounts[a].provider = p}

\* Mutant: nobody tells the refresh which account it is for.
ToldNot(via, a) == None

(***************************************************************************)
(* Executors.  A candidate is a copy of the provider that carries the      *)
(* credentials of one of its accounts, or its own when it has none; the    *)
(* refresh is told the account except by Antigravity's ExecuteChat.        *)
(***************************************************************************)
Told(via, a) == IF flavour = "antigravity" /\ via = "gateway" THEN None ELSE a

Candidate(p, a) == IF a = None THEN providers[p] ELSE accounts[a]

\* The reset-credit action of the dashboard refreshes before it calls.
Begun(p, a, via) ==
    LET from == Candidate(p, a)
        preflight == via = "dashboard" /\ flavour = "codex" /\ from.refresh # None
    IN  [NoCall EXCEPT !.pc = IF preflight THEN "refresh" ELSE "call", !.via = via,
                       !.provider = p, !.target = Told(via, a),
                       !.token = from.token, !.refresh = from.refresh]

Begin(r) ==
    \E p \in DOMAIN providers, a \in Accounts \cup {None}, via \in {"gateway", "dashboard"} :
        /\ exec[r].pc = "idle"
        /\ a \in AccountsOf(p) \cup {None}
        /\ via = "gateway" /\ a = None => AccountsOf(p) = {}
        /\ Candidate(p, a).token # None
        /\ exec' = [exec EXCEPT ![r] = Begun(p, a, via)]
        /\ Counted
        /\ UNCHANGED <<flavour, stored, edit>>

Done(r) == exec' = [exec EXCEPT ![r] = NoCall]
To(r, pc) == exec' = [exec EXCEPT ![r].pc = pc]

\* Refreshes of one call: the reset-credit action adds its preflight to the
\* single one that every caller makes after an authentication failure.
MayRefresh(c) == IF flavour = "codex" /\ c.via = "dashboard" THEN 2 ELSE 1

\* Mutant: the attempt limits are not looked at.
RepeatsAlways(c, status) == status \in DOMAIN Repetitions /\ c.attempt < 9

\* Antigravity's ExecuteChat waits and repeats a rate limited call, and, for
\* fewer attempts, an unavailable one.
Repeats(c, status) ==
    /\ flavour = "antigravity" /\ c.via = "gateway"
    /\ status \in DOMAIN Repetitions /\ c.attempt < Repetitions[status]

Dispatch(r) ==
    /\ exec[r].pc = "call"
    /\ \E status \in {200, 401, 429, 503} :
         LET refreshes == status = 401 /\ exec[r].refresh # None /\ exec[r].refreshed < MayRefresh(exec[r])
         IN  \/ refreshes /\ To(r, "refresh")
             \/ Repeats(exec[r], status) /\ exec' = [exec EXCEPT ![r].attempt = exec[r].attempt + 1]
             \/ ~refreshes /\ ~Repeats(exec[r], status) /\ Done(r)
    /\ UNCHANGED <<calls, flavour, stored, edit>>

\* The token endpoint answers for whoever owns the refresh token, or fails.
Refresh(r) ==
    /\ exec[r].pc = "refresh"
    /\ \/ Done(r)
       \/ exec' = [exec EXCEPT ![r] = [exec[r] EXCEPT !.pc = "load", !.token = exec[r].refresh,
                                                      !.refreshed = exec[r].refreshed + 1]]
    /\ UNCHANGED <<calls, flavour, stored, edit>>

\* The account is read again, and must still be there.
RefreshLoad(r) ==
    /\ exec[r].pc = "load"
    /\ IF exec[r].target \in AccountsOf(exec[r].provider) \cup {None} THEN To(r, "write") ELSE Done(r)
    /\ UNCHANGED <<calls, flavour, stored, edit>>

\* The whole row is written: the account as it was read, or the provider as
\* the request holds it, whether or not it is still stored.
RefreshWrite(r) ==
    LET c == exec[r]
    IN  /\ c.pc = "write"
        /\ \/ /\ c.target # None
              /\ accounts' = Put(accounts, c.target,
                                  [provider |-> c.provider, token |-> c.token, refresh |-> c.refresh])
              /\ UNCHANGED providers
           \/ /\ c.target = None
              /\ providers' = Put(providers, c.provider, [token |-> c.token, refresh |-> c.refresh])
              /\ UNCHANGED accounts
        /\ exec' = [exec EXCEPT ![r] = [c EXCEPT !.pc = "call",
                       !.attempt = IF flavour = "antigravity" THEN c.attempt + 1 ELSE c.attempt]]
        /\ UNCHANGED <<calls, flavour, edit>>

(***************************************************************************)
(* Dashboard: an edit reads the row, keeps the secrets the form left blank *)
(* and writes the whole row with a second call.                            *)
(***************************************************************************)
EditAccountLoad(e) ==
    \E a \in Accounts :
        LET blank == [provider |-> Home[a], token |-> None, refresh |-> None] IN
        /\ edit[e].pc = "idle" /\ Home[a] \in DOMAIN providers
        /\ edit' = [edit EXCEPT ![e] = [pc |-> "account", id |-> a,
                      row |-> IF a \in DOMAIN accounts THEN accounts[a] ELSE blank]]
        /\ Counted
        /\ UNCHANGED <<flavour, stored, exec>>

\* With or without a credential typed into the form.
EditAccountSave(e) ==
    LET id == edit[e].id row == edit[e].row IN
    /\ edit[e].pc = "account"
    /\ \E typed \in {row.token, id} : accounts' = Put(accounts, id, [row EXCEPT !.token = typed])
    /\ edit' = [edit EXCEPT ![e] = NoEdit]
    /\ UNCHANGED <<calls, flavour, providers, exec>>

EditProviderLoad(e) ==
    \E i \in DOMAIN Providers :
        LET p == Providers[i] IN
        /\ edit[e].pc = "idle"
        /\ edit' = [edit EXCEPT ![e] = [pc |-> "provider", id |-> p,
                      row |-> IF p \in DOMAIN providers THEN providers[p] ELSE Blank]]
        /\ Counted
        /\ UNCHANGED <<flavour, stored, exec>>

\* A blank credential of a provider form is stored as blank.
EditProviderSave(e) ==
    LET id == edit[e].id row == edit[e].row IN
    /\ edit[e].pc = "provider"
    /\ \E token \in {row.token, id, None}, refresh \in {row.refresh, None} :
         providers' = Put(providers, id, [token |-> token, refresh |-> refresh])
    /\ edit' = [edit EXCEPT ![e] = NoEdit]
    /\ UNCHANGED <<calls, flavour, accounts, exec>>

\* An account from a backup.
ImportAccount ==
    \E a \in Accounts :
        /\ Home[a] \in DOMAIN providers
        /\ accounts' = Put(accounts, a, SignedAccount(a))
        /\ Counted
        /\ UNCHANGED <<flavour, providers, exec, edit>>

DeleteAccount ==
    \E a \in DOMAIN accounts :
        /\ accounts' = Drop(accounts, {a})
        /\ Counted
        /\ UNCHANGED <<flavour, providers, exec, edit>>

DeleteProvider ==
    \E p \in DOMAIN providers :
        /\ providers' = Drop(providers, {p})
        /\ accounts' = Drop(accounts, AccountsOf(p))
        /\ Counted
        /\ UNCHANGED <<flavour, exec, edit>>

ExecutorStep(r) == Begin(r) \/ Dispatch(r) \/ Refresh(r) \/ RefreshLoad(r) \/ RefreshWrite(r)
EditorStep(e) ==
    \/ EditAccountLoad(e) \/ EditAccountSave(e)
    \/ EditProviderLoad(e) \/ EditProviderSave(e)

RowsNext ==
    \/ \E r \in Requests : ExecutorStep(r)
    \/ \E e \in Editors : EditorStep(e)
    \/ ImportAccount \/ DeleteAccount \/ DeleteProvider

(***************************************************************************)
(* Properties.                                                             *)
(***************************************************************************)
Own(id, row) == {row.token, row.refresh} \subseteq {id, None}

RowsHoldOwn ==
    /\ \A a \in DOMAIN accounts : Own(a, accounts[a])
    /\ \A p \in DOMAIN providers : Own(p, providers[p])

\* Whatever refreshes, sign-ins, edits, imports and deletions overlap, a Codex
\* account never holds the credentials of its provider or of another account,
\* nor a provider those of an account (codex.go:97-99).
OwnCredentials == flavour = "codex" => RowsHoldOwn

\* "... without allowing a managed account to overwrite the provider-level
\* credential" (antigravity.go:162-163): the same for Antigravity.
AntigravityKeepsOwn == flavour = "antigravity" => RowsHoldOwn

\* One call of an executor refreshes once (the reset-credit action twice), and
\* is repeated once more at most than a rate limited call may be, in whatever
\* order the statuses and the refresh come (antigravity.go:42-66).
ExecutorBounded ==
    \A r \in Requests :
        /\ exec[r].refreshed <= (IF flavour = "codex" /\ exec[r].via = "dashboard" THEN 2 ELSE 1)
        /\ exec[r].attempt <= Repetitions[429] + 1
================================================================================
