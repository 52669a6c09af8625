--------------------------- MODULE CredentialsProofs ---------------------------
(***************************************************************************)
(* Theorems about CredentialRows and OAuthSession, for any providers,      *)
(* accounts, requests, editors, callbacks and number of sign-ins.          *)
(***************************************************************************)
EXTENDS OAuthSession, TLAPS

(***************************************************************************)
(* Types.  What a row may hold is part of them: a Codex row only what was  *)
(* minted for the row itself, an Antigravity row anything.                 *)
(***************************************************************************)
ProviderIds == {Providers[i] : i \in DOMAIN Providers}
Ids == Accounts \cup ProviderIds \cup {None}
Holds(f, id) == IF f = "codex" THEN {id, None} ELSE Ids

ProviderHeld(f, p) == [token : Holds(f, p), refresh : Holds(f, p)]
AccountHeld(f, a) == [provider : ProviderIds, token : Holds(f, a), refresh : Holds(f, a)]
Rows == [token : Ids, refresh : Ids] \cup [provider : Ids, token : Ids, refresh : Ids]

Calls == [pc : {"idle", "call", "refresh", "load", "write"}, via : {None, "gateway", "dashboard"},
          provider : Ids, target : Ids, token : Ids, refresh : Ids, attempt : Nat, refreshed : Nat]
Edits == [pc : {"idle", "account", "provider"}, id : Ids, row : Rows]
SignIns == [state : Nat, status : {"", "pending", "done", "error"}, provider : Ids, account : Ids]
CallbackCalls ==
    [pc : {"idle", "exchange", "load", "save", "finish", "stop", "fail"}, paste : BOOLEAN,
     state : Nat, provider : Ids, account : Ids, verifier : Nat, row : Rows]

\* Whom a call of an executor, a sign-in or its callback works for.
CallOwner(c) == IF c.target = None THEN c.provider ELSE c.target
SignOwner(b) == IF b.account = None THEN b.provider ELSE b.account

(***************************************************************************)
(* The invariant, part by part.  "f" is the flavour of the behaviour.      *)
(***************************************************************************)
TablesOK(f, ps, as) ==
    /\ \A p \in DOMAIN ps : p \in ProviderIds /\ ps[p] \in ProviderHeld(f, p)
    /\ \A a \in DOMAIN as : a \in Accounts /\ as[a] \in AccountHeld(f, a)

\* A call holds what its owner may hold, and writes under a known name.
CallOK(f, c) ==
    c.pc # "idle" =>
        /\ c.provider \in ProviderIds /\ c.target \in Accounts \cup {None}
        /\ c.token \in Holds(f, CallOwner(c)) /\ c.refresh \in Holds(f, CallOwner(c))

EditOK(f, d) ==
    /\ d.pc = "account" => d.id \in Accounts /\ d.row \in AccountHeld(f, d.id)
    /\ d.pc = "provider" => d.id \in ProviderIds /\ d.row \in ProviderHeld(f, d.id)

\* A sign-in that is under way is for the row its state was handed out for.
SignInOK(n, t, b) ==
    /\ b.state \in 1..n /\ b.provider \in ProviderIds /\ b.account \in Accounts \cup {None}
    /\ t[b.state] = SignOwner(b)

CallbackOK(f, n, t, b) ==
    /\ b.pc # "idle" => b.state # 0
    /\ b.pc \in {"exchange", "load", "save"} => SignInOK(n, t, b)
    /\ b.pc = "save" =>
         b.row \in (IF b.account = None THEN ProviderHeld(f, b.provider) ELSE AccountHeld(f, b.account))

RowsInv ==
    /\ TablesOK(flavour, providers, accounts)
    /\ exec \in [Requests -> Calls] /\ \A r \in Requests : CallOK(flavour, exec[r])
    /\ edit \in [Editors -> Edits] /\ \A e \in Editors : EditOK(flavour, edit[e])

TargetInv == started \in 0..MaxSessions /\ target \in Seq(Ids) /\ Len(target) = started /\ verifier \in Nat

SessionInv ==
    /\ session \in SignIns /\ session.state = started
    /\ session.status # "" => session.state # 0
    /\ session.state # 0 => SignInOK(started, target, session)

CallbackInv ==
    /\ callback \in [Callbacks -> CallbackCalls]
    /\ \A c \in Callbacks : CallbackOK(flavour, started, target, callback[c])

ManagerInv == TargetInv /\ SessionInv /\ CallbackInv

(***************************************************************************)
(* Facts about the constants and about storing and dropping rows.          *)
(***************************************************************************)
LEMMA ConstantsOK ==
    /\ None \in Ids /\ Accounts \subseteq Ids /\ ProviderIds \subseteq Ids
    /\ \A a \in Accounts : Home[a] \in ProviderIds
    /\ Providers[1] \in ProviderIds
    /\ None \notin Accounts
  BY NamesAssumption DEF Ids, ProviderIds

\* A row may hold what was minted for it, or nothing, and only known tokens.
LEMMA HoldsOK ==
    ASSUME NEW f, NEW id \in Ids
    PROVE  id \in Holds(f, id) /\ None \in Holds(f, id) /\ Holds(f, id) \subseteq Ids
  BY ConstantsOK DEF Holds

\* Rows that satisfy their part are rows.
LEMMA HeldRows ==
    ASSUME NEW f, NEW id \in Ids
    PROVE  ProviderHeld(f, id) \subseteq Rows /\ AccountHeld(f, id) \subseteq Rows
  BY HoldsOK, ConstantsOK DEF ProviderHeld, AccountHeld, Rows

LEMMA PutProvider ==
    ASSUME NEW f, NEW ps, NEW as, TablesOK(f, ps, as), NEW p \in ProviderIds, NEW row \in ProviderHeld(f, p)
    PROVE  TablesOK(f, Put(ps, p, row), as)
  BY DEF TablesOK, Put

LEMMA PutAccount ==
    ASSUME NEW f, NEW ps, NEW as, TablesOK(f, ps, as), NEW a \in Accounts, NEW row \in AccountHeld(f, a)
    PROVE  TablesOK(f, ps, Put(as, a, row))
  BY DEF TablesOK, Put

LEMMA DropSome ==
    ASSUME NEW f, NEW ps, NEW as, TablesOK(f, ps, as), NEW qs, NEW bs
    PROVE  TablesOK(f, Drop(ps, qs), as) /\ TablesOK(f, ps, Drop(as, bs))
           /\ TablesOK(f, Drop(ps, qs), Drop(as, bs))
  BY DEF TablesOK, Drop

(***************************************************************************)
(* Steps of executors.                                                     *)
(***************************************************************************)
LEMMA RowsInitOK == RowsInit => RowsInv
  <1> SUFFICES ASSUME RowsInit PROVE RowsInv
    OBVIOUS
  <1>1. NoCall \in Calls /\ NoCall.pc = "idle"
    BY ConstantsOK DEF NoCall, Calls
  <1>2. NoEdit \in Edits /\ NoEdit.pc = "idle"
    BY ConstantsOK DEF NoEdit, Blank, Edits, Rows
  <1>3. TablesOK(flavour, providers, accounts)
    BY ConstantsOK, HoldsOK DEF RowsInit, TablesOK, ProviderHeld, AccountHeld, Signed, SignedAccount
  <1>4. exec \in [Requests -> Calls] /\ \A r \in Requests : exec[r].pc = "idle"
    BY <1>1 DEF RowsInit
  <1>5. edit \in [Editors -> Edits] /\ \A e \in Editors : edit[e].pc = "idle"
    BY <1>2 DEF RowsInit
  <1> QED
    BY <1>3, <1>4, <1>5 DEF RowsInv, CallOK, EditOK

\* One call changes, and to a call that is in order.
LEMMA CallChange ==
    ASSUME RowsInv, NEW r \in Requests, NEW c \in Calls, CallOK(flavour, c), exec' = [exec EXCEPT ![r] = c],
           UNCHANGED <<flavour, edit>>, TablesOK(flavour, providers', accounts')
    PROVE  RowsInv'
  <1>1. exec' \in [Requests -> Calls]
    BY DEF RowsInv
  <1>2. \A q \in Requests : CallOK(flavour, exec'[q])
    BY DEF RowsInv
  <1> QED
    BY <1>1, <1>2 DEF RowsInv

LEMMA EditChange ==
    ASSUME RowsInv, NEW e \in Editors, NEW d \in Edits, EditOK(flavour, d), edit' = [edit EXCEPT ![e] = d],
           UNCHANGED <<flavour, exec>>, TablesOK(flavour, providers', accounts')
    PROVE  RowsInv'
  <1>1. edit' \in [Editors -> Edits]
    BY DEF RowsInv
  <1>2. \A q \in Editors : EditOK(flavour, edit'[q])
    BY DEF RowsInv
  <1> QED
    BY <1>1, <1>2 DEF RowsInv

\* A call begins with what its candidate has, and with nothing tried.
LEMMA BegunIs ==
    ASSUME RowsInv, NEW p \in DOMAIN providers, NEW a \in Accounts \cup {None},
           NEW via \in {"gateway", "dashboard"}, a \in AccountsOf(p) \cup {None}
    PROVE  /\ Begun(p, a, via) \in Calls /\ CallOK(flavour, Begun(p, a, via))
           /\ Begun(p, a, via).pc = "refresh" => via = "dashboard" /\ flavour = "codex"
           /\ Begun(p, a, via).via = via
           /\ Begun(p, a, via).attempt = 0 /\ Begun(p, a, via).refreshed = 0
           /\ Begun(p, a, via).pc \in {"refresh", "call"}
  <1> DEFINE from == Candidate(p, a)
             owner == IF a = None THEN p ELSE a
             pc == IF via = "dashboard" /\ flavour = "codex" /\ from.refresh # None THEN "refresh" ELSE "call"
             c == Begun(p, a, via)
  <1>1. p \in ProviderIds /\ owner \in Ids /\ Told(via, a) \in Accounts \cup {None}
    BY ConstantsOK DEF RowsInv, TablesOK, Told
  <1>2. from.token \in Holds(flavour, owner) /\ from.refresh \in Holds(flavour, owner)
    BY ConstantsOK DEF RowsInv, TablesOK, ProviderHeld, AccountHeld, AccountsOf, Candidate
  <1>3. Holds(flavour, owner) = Holds(flavour, IF Told(via, a) = None THEN p ELSE Told(via, a))
    BY DEF Holds, Told
  <1>4. pc \in {"refresh", "call"} /\ (pc = "refresh" => via = "dashboard" /\ flavour = "codex")
    OBVIOUS
  <1>5. Holds(flavour, owner) \subseteq Ids /\ p \in Ids /\ Told(via, a) \in Ids
    BY <1>1, HoldsOK, ConstantsOK
  <1>6. c = [NoCall EXCEPT !.pc = pc, !.via = via, !.provider = p, !.target = Told(via, a),
                           !.token = from.token, !.refresh = from.refresh]
    BY DEF Begun
  <1>7. NoCall \in Calls /\ NoCall.attempt = 0 /\ NoCall.refreshed = 0
    BY ConstantsOK DEF Calls, NoCall
  <1>8. from.token \in Ids /\ from.refresh \in Ids
    BY <1>2, <1>5
  <1> HIDE DEF from, pc, owner, c, NoCall
  <1>9. c \in Calls /\ c.pc = pc /\ c.via = via /\ c.provider = p /\ c.target = Told(via, a)
        /\ c.token = from.token /\ c.refresh = from.refresh /\ c.attempt = 0 /\ c.refreshed = 0
    BY <1>4, <1>5, <1>6, <1>7, <1>8 DEF Calls
  <1>10. CallOK(flavour, c)
    BY <1>1, <1>2, <1>3, <1>9 DEF CallOK, CallOwner
  <1> QED
    BY <1>4, <1>9, <1>10 DEF c

LEMMA BeginOK == ASSUME RowsInv, NEW r \in Requests, Begin(r) PROVE RowsInv'
  <1>1. PICK p \in DOMAIN providers, a \in Accounts \cup {None}, via \in {"gateway", "dashboard"} :
            a \in AccountsOf(p) \cup {None} /\ exec' = [exec EXCEPT ![r] = Begun(p, a, via)]
    BY DEF Begin
  <1>2. UNCHANGED <<flavour, edit>> /\ TablesOK(flavour, providers', accounts')
    BY DEF Begin, RowsInv, stored
  <1> QED
    BY <1>1, <1>2, BegunIs, CallChange

LEMMA DispatchOK == ASSUME RowsInv, NEW r \in Requests, Dispatch(r) PROVE RowsInv'
  <1> DEFINE c == exec[r]
  <1>1. c \in Calls /\ CallOK(flavour, c) /\ c.pc = "call"
    BY DEF RowsInv, Dispatch
  <1>2. TablesOK(flavour, providers', accounts') /\ UNCHANGED <<flavour, edit>>
    BY DEF RowsInv, Dispatch, stored
  <1>3. CASE exec' = [exec EXCEPT ![r] = [c EXCEPT !.pc = "refresh"]]
    <2>1. [c EXCEPT !.pc = "refresh"] \in Calls /\ CallOK(flavour, [c EXCEPT !.pc = "refresh"])
      BY <1>1 DEF Calls, CallOK, CallOwner
    <2> QED
      BY <1>2, <1>3, <2>1, CallChange
  <1>4. CASE exec' = [exec EXCEPT ![r] = [c EXCEPT !.attempt = c.attempt + 1]]
    <2>1. c.attempt + 1 \in Nat
      BY <1>1 DEF Calls
    <2>2. [c EXCEPT !.attempt = c.attempt + 1] \in Calls /\ CallOK(flavour, [c EXCEPT !.attempt = c.attempt + 1])
      BY <1>1, <2>1 DEF Calls, CallOK, CallOwner
    <2> QED
      BY <1>2, <1>4, <2>2, CallChange
  <1>5. CASE exec' = [exec EXCEPT ![r] = NoCall]
    <2>1. NoCall \in Calls /\ CallOK(flavour, NoCall)
      BY ConstantsOK DEF NoCall, Calls, CallOK
    <2> QED
      BY <1>2, <1>5, <2>1, CallChange
  <1> QED
    BY <1>3, <1>4, <1>5 DEF Dispatch, To, Done, RowsInv

LEMMA RefreshOK == ASSUME RowsInv, NEW r \in Requests, Refresh(r) \/ RefreshLoad(r) PROVE RowsInv'
  <1> DEFINE c == exec[r]
             loaded == [c EXCEPT !.pc = "load", !.token = c.refresh, !.refreshed = c.refreshed + 1]
             ready == [c EXCEPT !.pc = "write"]
  <1>1. c \in Calls /\ CallOK(flavour, c) /\ c.pc # "idle"
    BY DEF RowsInv, Refresh, RefreshLoad
  <1>2. TablesOK(flavour, providers', accounts') /\ UNCHANGED <<flavour, edit>>
    BY DEF RowsInv, Refresh, RefreshLoad, stored
  <1>3. c.refreshed + 1 \in Nat /\ c.refresh \in Ids
    BY <1>1 DEF Calls
  <1>4. loaded \in Calls /\ CallOK(flavour, loaded)
    BY <1>1, <1>3 DEF Calls, CallOK, CallOwner
  <1>5. ready \in Calls /\ CallOK(flavour, ready)
    BY <1>1 DEF Calls, CallOK, CallOwner
  <1>6. NoCall \in Calls /\ CallOK(flavour, NoCall)
    BY ConstantsOK DEF NoCall, Calls, CallOK
  <1>7. exec' = [exec EXCEPT ![r] = loaded] \/ exec' = [exec EXCEPT ![r] = ready] \/ exec' = [exec EXCEPT ![r] = NoCall]
    BY DEF Refresh, RefreshLoad, To, Done
  <1> HIDE DEF loaded, ready
  <1> QED
    BY <1>2, <1>4, <1>5, <1>6, <1>7, CallChange

LEMMA RefreshWriteOK == ASSUME RowsInv, NEW r \in Requests, RefreshWrite(r) PROVE RowsInv'
  <1> DEFINE c == exec[r]
             accountRow == [provider |-> c.provider, token |-> c.token, refresh |-> c.refresh]
             providerRow == [token |-> c.token, refresh |-> c.refresh]
             attempt == IF flavour = "antigravity" THEN c.attempt + 1 ELSE c.attempt
             again == [c EXCEPT !.pc = "call", !.attempt = attempt]
  <1>1. c \in Calls /\ CallOK(flavour, c) /\ c.pc = "write"
    BY DEF RowsInv, RefreshWrite
  <1>2. c.provider \in ProviderIds /\ c.target \in Accounts \cup {None} /\ c.provider \in Ids
        /\ c.token \in Holds(flavour, CallOwner(c)) /\ c.refresh \in Holds(flavour, CallOwner(c))
    BY <1>1 DEF CallOK, Calls
  <1>3. c.target # None => accountRow \in AccountHeld(flavour, c.target)
    BY <1>2 DEF AccountHeld, CallOwner
  <1>4. c.target = None => providerRow \in ProviderHeld(flavour, c.provider)
    BY <1>2 DEF ProviderHeld, CallOwner
  <1>5. TablesOK(flavour, providers, accounts)
    BY DEF RowsInv
  <1>6. attempt \in Nat
    BY <1>1 DEF Calls
  <1> HIDE DEF attempt
  <1>7. again \in Calls /\ CallOK(flavour, again)
    BY <1>1, <1>6 DEF Calls, CallOK, CallOwner
  <1>8. exec' = [exec EXCEPT ![r] = again] /\ UNCHANGED <<flavour, edit>>
    BY DEF RefreshWrite, attempt
  <1>9. \/ c.target # None /\ accounts' = Put(accounts, c.target, accountRow) /\ UNCHANGED providers
        \/ c.target = None /\ providers' = Put(providers, c.provider, providerRow) /\ UNCHANGED accounts
    BY DEF RefreshWrite
  <1> HIDE DEF c, accountRow, providerRow, again
  <1>10. TablesOK(flavour, providers', accounts')
    BY <1>2, <1>3, <1>4, <1>5, <1>9, PutProvider, PutAccount
  <1> QED
    BY <1>7, <1>8, <1>10, CallChange

(***************************************************************************)
(* Steps of the dashboard.                                                 *)
(***************************************************************************)
LEMMA EditLoadOK ==
    ASSUME RowsInv, NEW e \in Editors, EditAccountLoad(e) \/ EditProviderLoad(e) PROVE RowsInv'
  <1>1. TablesOK(flavour, providers', accounts') /\ UNCHANGED <<flavour, exec>>
    BY DEF RowsInv, EditAccountLoad, EditProviderLoad, stored
  <1>2. CASE EditAccountLoad(e)
    <2> DEFINE row(a) == IF a \in DOMAIN accounts THEN accounts[a]
                         ELSE [provider |-> Home[a], token |-> None, refresh |-> None]
    <2>1. PICK a \in Accounts : edit' = [edit EXCEPT ![e] = [pc |-> "account", id |-> a, row |-> row(a)]]
      BY <1>2 DEF EditAccountLoad
    <2>2. a \in Ids /\ row(a) \in AccountHeld(flavour, a)
      BY ConstantsOK, HoldsOK DEF RowsInv, TablesOK, AccountHeld
    <2>3. row(a) \in Rows
      BY <2>2, HeldRows
    <2> DEFINE d == [pc |-> "account", id |-> a, row |-> row(a)]
    <2> HIDE DEF row
    <2>4. d \in Edits /\ EditOK(flavour, d)
      BY <2>2, <2>3 DEF Edits, EditOK
    <2>5. edit' = [edit EXCEPT ![e] = d]
      BY <2>1
    <2> HIDE DEF d
    <2> QED
      BY <1>1, <2>4, <2>5, EditChange
  <1>3. CASE EditProviderLoad(e)
    <2> DEFINE row(q) == IF q \in DOMAIN providers THEN providers[q] ELSE Blank
    <2>1. PICK i \in DOMAIN Providers :
             edit' = [edit EXCEPT ![e] = [pc |-> "provider", id |-> Providers[i], row |-> row(Providers[i])]]
      BY <1>3 DEF EditProviderLoad
    <2> DEFINE q == Providers[i]
    <2>2. q \in ProviderIds /\ q \in Ids
      BY DEF ProviderIds, Ids
    <2> HIDE DEF q
    <2>3. row(q) \in ProviderHeld(flavour, q)
      BY <2>2, HoldsOK DEF RowsInv, TablesOK, ProviderHeld, Blank
    <2>4. row(q) \in Rows
      BY <2>2, <2>3, HeldRows
    <2> DEFINE d == [pc |-> "provider", id |-> q, row |-> row(q)]
    <2> HIDE DEF row
    <2>5. d \in Edits /\ EditOK(flavour, d)
      BY <2>2, <2>3, <2>4 DEF Edits, EditOK
    <2>6. edit' = [edit EXCEPT ![e] = d]
      BY <2>1 DEF q
    <2> HIDE DEF d
    <2> QED
      BY <1>1, <2>5, <2>6, EditChange
  <1> QED
    BY <1>2, <1>3

LEMMA EditSaveOK ==
    ASSUME RowsInv, NEW e \in Editors, EditAccountSave(e) \/ EditProviderSave(e) PROVE RowsInv'
  <1> DEFINE d == edit[e]
  <1>1. d \in Edits /\ EditOK(flavour, d) /\ d.row \in Rows /\ TablesOK(flavour, providers, accounts)
    BY DEF RowsInv, Edits
  <1>2. NoEdit \in Edits /\ EditOK(flavour, NoEdit)
    BY ConstantsOK DEF NoEdit, Blank, Edits, Rows, EditOK
  <1>3. edit' = [edit EXCEPT ![e] = NoEdit] /\ UNCHANGED <<flavour, exec>>
    BY DEF EditAccountSave, EditProviderSave
  <1>4. CASE EditAccountSave(e)
    <2>1. d.pc = "account" /\ UNCHANGED providers
      BY <1>4 DEF EditAccountSave
    <2>2. d.id \in Accounts /\ d.id \in Ids /\ d.row \in AccountHeld(flavour, d.id)
      BY <1>1, <2>1, ConstantsOK DEF EditOK
    <2>3. PICK typed \in {d.row.token, d.id} : accounts' = Put(accounts, d.id, [d.row EXCEPT !.token = typed])
      BY <1>4 DEF EditAccountSave
    <2>4. typed \in Holds(flavour, d.id)
      BY <2>2, HoldsOK DEF AccountHeld
    <2>5. [d.row EXCEPT !.token = typed] \in AccountHeld(flavour, d.id)
      BY <2>2, <2>4 DEF AccountHeld
    <2>6. TablesOK(flavour, providers', accounts')
      BY <1>1, <2>1, <2>2, <2>3, <2>5, PutAccount
    <2> QED
      BY <1>2, <1>3, <2>6, EditChange
  <1>5. CASE EditProviderSave(e)
    <2>1. d.pc = "provider" /\ UNCHANGED accounts
      BY <1>5 DEF EditProviderSave
    <2>2. d.id \in ProviderIds /\ d.id \in Ids /\ d.row \in ProviderHeld(flavour, d.id)
      BY <1>1, <2>1, ConstantsOK DEF EditOK
    <2>3. PICK token \in {d.row.token, d.id, None}, refresh \in {d.row.refresh, None} :
             providers' = Put(providers, d.id, [token |-> token, refresh |-> refresh])
      BY <1>5 DEF EditProviderSave
    <2>4. token \in Holds(flavour, d.id) /\ refresh \in Holds(flavour, d.id)
      BY <2>2, HoldsOK DEF ProviderHeld
    <2>5. [token |-> token, refresh |-> refresh] \in ProviderHeld(flavour, d.id)
      BY <2>4 DEF ProviderHeld
    <2>6. TablesOK(flavour, providers', accounts')
      BY <1>1, <2>1, <2>2, <2>3, <2>5, PutProvider
    <2> QED
      BY <1>2, <1>3, <2>6, EditChange
  <1> QED
    BY <1>4, <1>5

LEMMA ImportDeleteOK ==
    ASSUME RowsInv, ImportAccount \/ DeleteAccount \/ DeleteProvider PROVE RowsInv'
  <1>1. UNCHANGED <<flavour, exec, edit>> /\ TablesOK(flavour, providers, accounts)
    BY DEF RowsInv, ImportAccount, DeleteAccount, DeleteProvider
  <1>2. TablesOK(flavour, providers', accounts')
    <2>1. CASE ImportAccount
      <3>1. PICK a \in Accounts : accounts' = Put(accounts, a, SignedAccount(a)) /\ UNCHANGED providers
        BY <2>1 DEF ImportAccount
      <3>2. a \in Ids /\ Home[a] \in ProviderIds
        BY ConstantsOK
      <3>3. SignedAccount(a) \in AccountHeld(flavour, a)
        BY <3>2, HoldsOK DEF SignedAccount, AccountHeld
      <3> QED
        BY <1>1, <3>1, <3>3, PutAccount
    <2>2. CASE DeleteAccount \/ DeleteProvider
      BY <1>1, <2>2, DropSome DEF DeleteAccount, DeleteProvider
    <2> QED
      BY <2>1, <2>2 DEF ImportAccount, DeleteAccount, DeleteProvider
  <1> QED
    BY <1>1, <1>2 DEF RowsInv

LEMMA RowsNextOK == ASSUME RowsInv, RowsNext PROVE RowsInv'
  BY BeginOK, DispatchOK, RefreshOK, RefreshWriteOK, EditLoadOK, EditSaveOK, ImportDeleteOK
     DEF RowsNext, ExecutorStep, EditorStep

(***************************************************************************)
(* Steps of the sign-in manager: its own part of the invariant.            *)
(***************************************************************************)
\* A handler leaves with the state it came with.
LEMMA Left ==
    ASSUME callback \in [Callbacks -> CallbackCalls], NEW c \in Callbacks,
           NEW pc \in {"finish", "stop", "fail"}, Leave(c, pc)
    PROVE  /\ callback' \in [Callbacks -> CallbackCalls]
           /\ callback'[c].pc = pc /\ callback'[c].state = callback[c].state
           /\ \A d \in Callbacks \ {c} : callback'[d] = callback[d]
  <1> DEFINE paste == pc = "finish" /\ callback[c].paste
             left == [NoCallback EXCEPT !.pc = pc, !.state = callback[c].state, !.paste = paste]
  <1>1. NoCallback \in CallbackCalls
    BY ConstantsOK DEF NoCallback, Blank, CallbackCalls, Rows
  <1>2. callback[c].state \in Nat /\ paste \in BOOLEAN
    BY DEF CallbackCalls
  <1> HIDE DEF NoCallback, paste
  <1>3. left \in CallbackCalls /\ left.pc = pc /\ left.state = callback[c].state
    BY <1>1, <1>2 DEF CallbackCalls
  <1>4. callback' = [callback EXCEPT ![c] = left]
    BY DEF Leave, paste
  <1> HIDE DEF left
  <1> QED
    BY <1>3, <1>4

\* finishSuccess and finishError change the status, and only of their session.
LEMMA Finished ==
    ASSUME session \in SignIns, NEW state, NEW status \in {"done", "error"}, Finish(state, status)
    PROVE  /\ session' \in SignIns /\ session'.state = session.state
           /\ SignOwner(session') = SignOwner(session)
           /\ session'.provider = session.provider /\ session'.account = session.account
           /\ session'.status = IF session.state = state THEN status ELSE session.status
           /\ timer' = IF session.state = state THEN 0 ELSE timer
  BY DEF Finish, SignIns, SignOwner

LEMMA ManagerInitOK == OAuthInit => ManagerInv
  <1> SUFFICES ASSUME OAuthInit PROVE ManagerInv
    OBVIOUS
  <1>1. NoCallback \in CallbackCalls /\ NoCallback.pc = "idle"
    BY ConstantsOK DEF NoCallback, Blank, CallbackCalls, Rows
  <1>2. session \in SignIns /\ session.status = "" /\ session.state = 0 /\ started = 0
    BY ConstantsOK DEF OAuthInit, NoSession, SignIns
  <1>3. callback \in [Callbacks -> CallbackCalls] /\ \A c \in Callbacks : callback[c].pc = "idle"
    BY <1>1 DEF OAuthInit
  <1>4. TargetInv
    BY MaxSessionsAssumption DEF OAuthInit, TargetInv
  <1> QED
    BY <1>2, <1>3, <1>4 DEF ManagerInv, SessionInv, CallbackInv, CallbackOK

\* finishSuccess and finishError keep the session, for a state of a sign-in.
LEMMA FinishedOK ==
    ASSUME SessionInv, NEW state, state # 0, NEW status \in {"done", "error"}, Finish(state, status),
           UNCHANGED <<started, target>>
    PROVE  SessionInv'
  BY Finished DEF SessionInv, SignInOK

LEMMA NoCallbackIdle == NoCallback.pc = "idle" /\ NoCallback.state = 0
  BY DEF NoCallback

\* One handler changes, and to one that is in order.
LEMMA CallbackChange ==
    ASSUME CallbackInv, NEW c \in Callbacks, callback' \in [Callbacks -> CallbackCalls],
           \A d \in Callbacks \ {c} : callback'[d] = callback[d],
           CallbackOK(flavour, started, target, callback'[c]), UNCHANGED <<flavour, started, target>>
    PROVE  CallbackInv'
  <1>1. \A d \in Callbacks : CallbackOK(flavour, started, target, callback'[d])
    BY DEF CallbackInv
  <1> QED
    BY <1>1 DEF CallbackInv

LEMMA StartOK == ASSUME RowsInv, ManagerInv, Start PROVE ManagerInv'
  <1>1. PICK t \in Targets :
           /\ started < MaxSessions /\ started' = started + 1
           /\ target' = Append(target, IF t[2] = None THEN t[1] ELSE t[2])
           /\ session' = [state |-> started', status |-> "pending", provider |-> t[1], account |-> t[2]]
           /\ verifier' = IF flavour = "codex" THEN started' ELSE 0
           /\ UNCHANGED <<flavour, callback>>
    BY DEF Start
  <1> DEFINE provider == t[1]
             account == t[2]
             owner == IF account = None THEN provider ELSE account
  <1>2. provider \in ProviderIds /\ account \in Accounts \cup {None}
    <2>1. ASSUME NEW i \in DOMAIN Providers, t = <<Providers[i], None>> PROVE provider \in ProviderIds /\ account = None
      BY <2>1 DEF ProviderIds
    <2>2. ASSUME NEW a \in DOMAIN accounts, t = <<accounts[a].provider, a>>
          PROVE  provider \in ProviderIds /\ account \in Accounts
      BY <2>2 DEF RowsInv, TablesOK, AccountHeld
    <2>3. t \in ProviderTargets \/ t \in AccountTargets
      BY DEF Targets
    <2> QED
      BY <2>1, <2>2, <2>3 DEF ProviderTargets, AccountTargets
  <1>3. provider \in Ids /\ account \in Ids /\ owner \in Ids
    BY <1>2, ConstantsOK
  <1>4. started \in 0..MaxSessions /\ MaxSessions \in Nat
    BY MaxSessionsAssumption DEF ManagerInv, TargetInv
  <1>5. started + 1 \in 1..MaxSessions /\ started + 1 \in Nat /\ started + 1 # 0
    BY <1>1, <1>4
  <1>6. session' = [state |-> started + 1, status |-> "pending", provider |-> provider, account |-> account]
        /\ target' = Append(target, owner)
    BY <1>1
  <1> HIDE DEF provider, account
  <1>7. session' \in SignIns /\ session'.state = started + 1 /\ session'.provider = provider
        /\ session'.account = account /\ SignOwner(session') = owner
    BY <1>3, <1>5, <1>6 DEF SignIns, SignOwner
  <1> HIDE DEF owner
  <1>8. target' \in Seq(Ids) /\ Len(target') = started + 1 /\ target'[started + 1] = owner
        /\ \A i \in 1..started : target'[i] = target[i]
    BY <1>3, <1>6 DEF ManagerInv, TargetInv
  <1>9. TargetInv'
    BY <1>1, <1>4, <1>5, <1>8 DEF TargetInv
  <1>10. SessionInv'
    BY <1>1, <1>2, <1>5, <1>7, <1>8 DEF SessionInv, SignInOK
  <1>11. ASSUME NEW c \in Callbacks PROVE CallbackOK(flavour, started + 1, target', callback[c])
    <2>1. CallbackOK(flavour, started, target, callback[c])
      BY DEF ManagerInv, CallbackInv
    <2>2. ASSUME SignInOK(started, target, callback[c]) PROVE SignInOK(started + 1, target', callback[c])
      BY <1>4, <1>8, <2>2 DEF SignInOK
    <2> QED
      BY <2>1, <2>2 DEF CallbackOK
  <1>12. CallbackInv'
    BY <1>1, <1>11 DEF ManagerInv, CallbackInv
  <1> QED
    BY <1>9, <1>10, <1>12 DEF ManagerInv

LEMMA EndingOK ==
    ASSUME ManagerInv, StartFails \/ ServeFails \/ TimerFires \/ \E s \in Sessions : TimeoutStep(s)
    PROVE  ManagerInv'
  <1>1. UNCHANGED <<flavour, started, target, callback>> /\ verifier' \in {0, verifier}
    BY DEF StartFails, ServeFails, TimerFires, TimeoutStep, TimeoutFinish, TimeoutStop, rowVars
  <1>2. TargetInv' /\ CallbackInv'
    BY <1>1 DEF ManagerInv, TargetInv, CallbackInv
  <1>3. UNCHANGED session \/ (\E state : state # 0 /\ Finish(state, "error"))
    BY DEF StartFails, ServeFails, TimerFires, TimeoutStep, TimeoutFinish, TimeoutStop, Sessions
  <1>4. SessionInv'
    BY <1>1, <1>3, FinishedOK DEF ManagerInv, SessionInv
  <1> QED
    BY <1>2, <1>4 DEF ManagerInv

\* A callback copies the session it found, with its target.
LEMMA Arrived ==
    ASSUME ManagerInv, NEW c \in Callbacks, Arrive(c)
    PROVE  /\ callback' \in [Callbacks -> CallbackCalls]
           /\ callback'[c].pc \in {"exchange", "fail"} /\ callback'[c].state = session.state
           /\ CallbackOK(flavour, started, target, callback'[c])
           /\ \A d \in Callbacks \ {c} : callback'[d] = callback[d]
  <1> DEFINE new(paste, denied) ==
               [NoCallback EXCEPT !.pc = IF denied THEN "fail" ELSE "exchange",
                                  !.paste = ~denied /\ paste /\ flavour = "antigravity",
                                  !.state = session.state, !.provider = session.provider,
                                  !.account = session.account, !.verifier = verifier]
  <1>1. PICK paste \in BOOLEAN, denied \in BOOLEAN :
           session.status # "" /\ callback' = [callback EXCEPT ![c] = new(paste, denied)]
    BY Zenon DEF Arrive
  <1> DEFINE pc == IF denied THEN "fail" ELSE "exchange"
             pasted == ~denied /\ paste /\ flavour = "antigravity"
             b == [NoCallback EXCEPT !.pc = pc, !.paste = pasted, !.state = session.state,
                     !.provider = session.provider, !.account = session.account, !.verifier = verifier]
  <1>2. NoCallback \in CallbackCalls
    BY ConstantsOK DEF NoCallback, Blank, CallbackCalls, Rows
  <1>3. pc \in {"fail", "exchange"} /\ pasted \in BOOLEAN
    OBVIOUS
  <1>4. session \in SignIns /\ SignInOK(started, target, session) /\ session.state # 0 /\ verifier \in Nat
        /\ session.state \in Nat /\ session.provider \in Ids /\ session.account \in Ids
    BY <1>1 DEF ManagerInv, SessionInv, TargetInv, SignIns
  <1>5. callback' = [callback EXCEPT ![c] = b]
    BY <1>1
  <1> HIDE DEF pc, pasted, NoCallback
  <1>6. b \in CallbackCalls /\ b.pc = pc /\ b.state = session.state /\ b.provider = session.provider
        /\ b.account = session.account
    BY <1>2, <1>3, <1>4 DEF CallbackCalls
  <1> HIDE DEF b
  <1>7. CallbackOK(flavour, started, target, b)
    BY <1>3, <1>4, <1>6 DEF CallbackOK, SignInOK, SignOwner
  <1> QED
    BY <1>3, <1>5, <1>6, <1>7 DEF ManagerInv, CallbackInv

LEMMA ArriveOK == ASSUME ManagerInv, NEW c \in Callbacks, Arrive(c) PROVE ManagerInv'
  <1>1. CallbackInv'
    BY Arrived, CallbackChange DEF ManagerInv, Arrive, rowVars
  <1> QED
    BY <1>1 DEF ManagerInv, Arrive, TargetInv, SessionInv, rowVars

\* A handler that goes on keeps the sign-in it works for.
LEMMA ExchangeOK == ASSUME ManagerInv, NEW c \in Callbacks, Exchange(c) PROVE ManagerInv'
  <1> DEFINE b == callback[c]
             taken == [b EXCEPT !.pc = "load", !.verifier = 0]
  <1>1. b \in CallbackCalls /\ CallbackOK(flavour, started, target, b) /\ b.pc = "exchange"
        /\ UNCHANGED <<flavour, started, target, session, verifier>>
    BY DEF ManagerInv, CallbackInv, Exchange, rowVars
  <1>2. CASE Leave(c, "fail")
    <2>1. CallbackOK(flavour, started, target, callback'[c])
      BY <1>1, <1>2, Left DEF CallbackOK, ManagerInv, CallbackInv
    <2>2. CallbackInv'
      BY <1>1, <1>2, <2>1, Left, CallbackChange DEF ManagerInv, CallbackInv
    <2> QED
      BY <1>1, <2>2 DEF ManagerInv, TargetInv, SessionInv
  <1>3. CASE callback' = [callback EXCEPT ![c] = taken]
    <2>1. taken \in CallbackCalls /\ taken.pc = "load" /\ taken.state = b.state
          /\ taken.provider = b.provider /\ taken.account = b.account
      BY <1>1 DEF CallbackCalls
    <2> HIDE DEF taken
    <2>2. CallbackOK(flavour, started, target, taken)
      BY <1>1, <2>1 DEF CallbackOK, SignInOK, SignOwner
    <2>3. CallbackInv'
      BY <1>1, <1>3, <2>1, <2>2, CallbackChange DEF ManagerInv, CallbackInv
    <2> QED
      BY <1>1, <2>3 DEF ManagerInv, TargetInv, SessionInv
  <1> QED
    BY <1>2, <1>3 DEF Exchange

\* What a handler is going to rewrite is a row of its sign-in.
LEMMA SaveLoadOK == ASSUME RowsInv, ManagerInv, NEW c \in Callbacks, SaveLoad(c) PROVE ManagerInv'
  <1> DEFINE b == callback[c]
             loaded(row) == [b EXCEPT !.pc = "save", !.row = row]
  <1>1. b \in CallbackCalls /\ CallbackOK(flavour, started, target, b) /\ b.pc = "load"
        /\ UNCHANGED <<flavour, started, target, session, verifier>>
    BY DEF ManagerInv, CallbackInv, SaveLoad, rowVars
  <1>2. CASE Leave(c, "fail")
    <2>1. CallbackOK(flavour, started, target, callback'[c])
      BY <1>1, <1>2, Left DEF CallbackOK, ManagerInv, CallbackInv
    <2>2. CallbackInv'
      BY <1>1, <1>2, <2>1, Left, CallbackChange DEF ManagerInv, CallbackInv
    <2> QED
      BY <1>1, <2>2 DEF ManagerInv, TargetInv, SessionInv
  <1>3. CASE \E row \in IF b.account = None THEN ProviderRow(b) ELSE AccountRow(b) :
                callback' = [callback EXCEPT ![c] = loaded(row)]
    <2>1. PICK row \in IF b.account = None THEN ProviderRow(b) ELSE AccountRow(b) :
                callback' = [callback EXCEPT ![c] = loaded(row)]
      BY <1>3
    <2>2. b.provider \in ProviderIds /\ b.account \in Accounts \cup {None} /\ SignInOK(started, target, b)
          /\ b.provider \in Ids /\ b.account \in Ids
      BY <1>1, ConstantsOK DEF CallbackOK, SignInOK
    <2>3. row \in Rows /\ row \in (IF b.account = None THEN ProviderHeld(flavour, b.provider)
                                   ELSE AccountHeld(flavour, b.account))
      <3>1. CASE b.account = None
        <4>1. row = Blank \/ (b.provider \in DOMAIN providers /\ row = providers[b.provider])
          BY <2>1, <3>1 DEF ProviderRow
        <4>2. Blank \in ProviderHeld(flavour, b.provider)
          BY <2>2, HoldsOK DEF ProviderHeld, Blank
        <4>3. row \in ProviderHeld(flavour, b.provider)
          BY <4>1, <4>2 DEF RowsInv, TablesOK
        <4> QED
          BY <2>2, <3>1, <4>3, HeldRows
      <3>2. CASE b.account # None
        <4>1. row = accounts[b.account] /\ b.account \in DOMAIN accounts
          BY <2>1, <3>2 DEF AccountRow, AccountsOf
        <4>2. row \in AccountHeld(flavour, b.account)
          BY <4>1 DEF RowsInv, TablesOK
        <4> QED
          BY <2>2, <3>2, <4>2, HeldRows
      <3> QED
        BY <3>1, <3>2
    <2> DEFINE new == loaded(row)
    <2>4. callback' = [callback EXCEPT ![c] = new]
      BY <2>1
    <2>5. new \in CallbackCalls /\ new.pc = "save" /\ new.state = b.state
          /\ new.provider = b.provider /\ new.account = b.account /\ new.row = row
      BY <1>1, <2>3 DEF CallbackCalls
    <2> HIDE DEF new
    <2>6. CallbackOK(flavour, started, target, new)
      BY <1>1, <2>2, <2>3, <2>5 DEF CallbackOK, SignInOK, SignOwner
    <2>7. CallbackInv'
      BY <1>1, <2>4, <2>5, <2>6, CallbackChange DEF ManagerInv, CallbackInv
    <2> QED
      BY <1>1, <2>7 DEF ManagerInv, TargetInv, SessionInv
  <1> QED
    BY <1>2, <1>3 DEF SaveLoad

\* Up to the store, a handler keeps the state it came with.
LEMMA GoesOn ==
    ASSUME ManagerInv, NEW c \in Callbacks, Exchange(c) \/ SaveLoad(c)
    PROVE  /\ callback'[c].pc \in {"load", "save", "fail"} /\ callback'[c].state = callback[c].state
           /\ \A d \in Callbacks \ {c} : callback'[d] = callback[d]
  <1>1. callback \in [Callbacks -> CallbackCalls] /\ callback[c] \in CallbackCalls
    BY DEF ManagerInv, CallbackInv
  <1>2. CASE Leave(c, "fail")
    BY <1>1, <1>2, Left
  <1>3. CASE callback' = [callback EXCEPT ![c] = [callback[c] EXCEPT !.pc = "load", !.verifier = 0]]
    BY <1>1, <1>3 DEF CallbackCalls
  <1>4. ASSUME NEW row, callback' = [callback EXCEPT ![c] = [callback[c] EXCEPT !.pc = "save", !.row = row]]
        PROVE  callback'[c].pc = "save" /\ callback'[c].state = callback[c].state
               /\ \A d \in Callbacks \ {c} : callback'[d] = callback[d]
    BY <1>1, <1>4 DEF CallbackCalls
  <1> QED
    BY <1>2, <1>3, <1>4 DEF Exchange, SaveLoad

\* A handler that leaves, for good or on its way out.
LEMMA LeavingOK ==
    ASSUME ManagerInv, NEW c \in Callbacks, SaveWrite(c) \/ SaveFails(c) PROVE ManagerInv'
  <1>1. Leave(c, "finish") \/ Leave(c, "fail")
    BY DEF SaveWrite, SaveFails
  <1>2. CallbackOK(flavour, started, target, callback[c]) /\ callback[c].pc = "save"
        /\ UNCHANGED <<flavour, started, target, session, verifier>>
    BY DEF ManagerInv, CallbackInv, SaveWrite, SaveFails, rowVars
  <1>3. /\ callback' \in [Callbacks -> CallbackCalls]
        /\ callback'[c].pc \in {"finish", "fail"} /\ callback'[c].state = callback[c].state
        /\ \A d \in Callbacks \ {c} : callback'[d] = callback[d]
    BY <1>1, Left DEF ManagerInv, CallbackInv
  <1>4. CallbackOK(flavour, started, target, callback'[c])
    BY <1>2, <1>3 DEF CallbackOK
  <1>5. CallbackInv'
    BY <1>2, <1>3, <1>4, CallbackChange DEF ManagerInv
  <1> QED
    BY <1>2, <1>5 DEF ManagerInv, TargetInv, SessionInv

LEMMA LastStepsOK ==
    ASSUME ManagerInv, NEW c \in Callbacks, Succeed(c) \/ StopAfter(c) \/ Fail(c) PROVE ManagerInv'
  <1>1. CallbackOK(flavour, started, target, callback[c]) /\ callback[c].state # 0
        /\ UNCHANGED <<flavour, started, target, verifier>>
    BY DEF ManagerInv, CallbackInv, CallbackOK, Succeed, StopAfter, Fail, rowVars
  <1>2. NoCallback \in CallbackCalls /\ NoCallback.pc = "idle"
    BY ConstantsOK DEF NoCallback, Blank, CallbackCalls, Rows
  <1>3. Leave(c, "stop") \/ callback' = [callback EXCEPT ![c] = NoCallback]
    BY DEF Succeed, StopAfter, Fail
  <1> HIDE DEF NoCallback
  <1>4. /\ callback' \in [Callbacks -> CallbackCalls]
        /\ \/ callback'[c].pc = "stop" /\ callback'[c].state = callback[c].state
           \/ callback'[c].pc = "idle"
        /\ \A d \in Callbacks \ {c} : callback'[d] = callback[d]
    BY <1>2, <1>3, Left DEF ManagerInv, CallbackInv
  <1>5. CallbackOK(flavour, started, target, callback'[c])
    BY <1>1, <1>4 DEF CallbackOK
  <1>6. CallbackInv'
    BY <1>1, <1>4, <1>5, CallbackChange DEF ManagerInv
  <1>7. UNCHANGED session \/ Finish(callback[c].state, "done") \/ Finish(callback[c].state, "error")
    BY DEF Succeed, StopAfter, Fail
  <1>8. SessionInv'
    BY <1>1, <1>7, FinishedOK DEF ManagerInv, SessionInv
  <1> QED
    BY <1>1, <1>6, <1>8 DEF ManagerInv, TargetInv

\* A sign-in stores the row it read, with what was minted for that row.
LEMMA SaveWriteOK == ASSUME RowsInv, ManagerInv, NEW c \in Callbacks, SaveWrite(c) PROVE RowsInv'
  <1> DEFINE b == callback[c]
             minted == target[b.state]
             row(rotated) == [b.row EXCEPT !.token = minted, !.refresh = Kept(b.row.refresh, minted, rotated)]
  <1>1. CallbackOK(flavour, started, target, b) /\ b.pc = "save" /\ UNCHANGED <<flavour, exec, edit>>
    BY DEF ManagerInv, CallbackInv, SaveWrite
  <1>2. minted = SignOwner(b) /\ b.provider \in ProviderIds /\ b.account \in Accounts \cup {None}
    BY <1>1 DEF CallbackOK, SignInOK
  <1>3. TablesOK(flavour, providers, accounts)
    BY DEF RowsInv
  <1>4. PICK rotated \in BOOLEAN :
           \/ b.account = None /\ providers' = Put(providers, b.provider, row(rotated)) /\ UNCHANGED accounts
           \/ b.account # None /\ accounts' = Put(accounts, b.account, row(rotated)) /\ UNCHANGED providers
    BY Zenon DEF SaveWrite
  <1> DEFINE refresh == Kept(b.row.refresh, minted, rotated)
             new == row(rotated)
  <1>5. TablesOK(flavour, providers', accounts')
    <2>1. CASE b.account = None
      <3>1. minted = b.provider /\ b.provider \in Ids /\ b.row \in ProviderHeld(flavour, b.provider)
        BY <1>1, <1>2, <2>1, ConstantsOK DEF SignOwner, CallbackOK
      <3>2. minted \in Holds(flavour, b.provider) /\ refresh \in Holds(flavour, b.provider)
        BY <3>1, HoldsOK DEF Kept, ProviderHeld
      <3> HIDE DEF refresh, minted
      <3>3. new \in ProviderHeld(flavour, b.provider)
        BY <3>1, <3>2 DEF ProviderHeld, refresh
      <3>4. providers' = Put(providers, b.provider, new) /\ UNCHANGED accounts
        BY <1>4, <2>1
      <3> HIDE DEF new
      <3> QED
        BY <1>2, <1>3, <3>3, <3>4, PutProvider
    <2>2. CASE b.account # None
      <3>1. minted = b.account /\ b.account \in Accounts /\ b.account \in Ids
            /\ b.row \in AccountHeld(flavour, b.account)
        BY <1>1, <1>2, <2>2, ConstantsOK DEF SignOwner, CallbackOK
      <3>2. minted \in Holds(flavour, b.account) /\ refresh \in Holds(flavour, b.account)
        BY <3>1, HoldsOK DEF Kept, AccountHeld
      <3> HIDE DEF refresh, minted
      <3>3. new \in AccountHeld(flavour, b.account)
        BY <3>1, <3>2 DEF AccountHeld, refresh
      <3>4. accounts' = Put(accounts, b.account, new) /\ UNCHANGED providers
        BY <1>4, <2>2
      <3> HIDE DEF new
      <3> QED
        BY <1>3, <3>1, <3>3, <3>4, PutAccount
    <2> QED
      BY <2>1, <2>2
  <1> QED
    BY <1>1, <1>5 DEF RowsInv

(***************************************************************************)
(* Rows hold their own credentials.                                        *)
(***************************************************************************)
Inv == RowsInv /\ ManagerInv

LEMMA InitOK == OAuthInit => Inv
  BY RowsInitOK, ManagerInitOK DEF OAuthInit, Inv

LEMMA RowsStep == ASSUME RowsInv, UNCHANGED rowVars PROVE RowsInv'
  BY DEF RowsInv, rowVars

LEMMA FlavourStays == RowsNext => UNCHANGED flavour
  BY DEF RowsNext, ExecutorStep, EditorStep, Begin, Dispatch, Refresh, RefreshLoad, RefreshWrite,
         EditAccountLoad, EditAccountSave, EditProviderLoad, EditProviderSave,
         ImportAccount, DeleteAccount, DeleteProvider

LEMMA ManagerStep == ASSUME ManagerInv, UNCHANGED managerVars, UNCHANGED flavour PROVE ManagerInv'
  BY DEF ManagerInv, TargetInv, SessionInv, CallbackInv, managerVars

LEMMA Step == Inv /\ [OAuthNext]_vars => Inv'
  <1> SUFFICES ASSUME Inv, [OAuthNext]_vars PROVE Inv'
    OBVIOUS
  <1>1. RowsInv /\ ManagerInv
    BY DEF Inv
  <1>2. CASE UNCHANGED vars
    BY <1>1, <1>2, RowsStep, ManagerStep DEF vars, rowVars, Inv
  <1>3. CASE RowsNext /\ UNCHANGED managerVars
    BY <1>1, <1>3, RowsNextOK, ManagerStep, FlavourStays DEF Inv
  <1>4. CASE Start
    <2>1. RowsInv'
      BY <1>1, <1>4 DEF Start, RowsInv, stored
    <2> QED
      BY <1>1, <1>4, <2>1, StartOK DEF Inv
  <1>5. CASE StartFails \/ ServeFails \/ TimerFires \/ \E s \in Sessions : TimeoutStep(s)
    <2>1. RowsInv'
      BY <1>1, <1>5 DEF StartFails, ServeFails, TimerFires, TimeoutStep, TimeoutFinish, TimeoutStop,
                        RowsInv, stored, rowVars
    <2> QED
      BY <1>1, <1>5, <2>1, EndingOK DEF Inv
  <1>6. ASSUME NEW c \in Callbacks, CallbackStep(c) PROVE Inv'
    <2>1. CASE SaveWrite(c)
      BY <1>1, <2>1, SaveWriteOK, LeavingOK DEF Inv
    <2>2. CASE Arrive(c) \/ Exchange(c) \/ SaveLoad(c) \/ SaveFails(c) \/ Succeed(c) \/ StopAfter(c) \/ Fail(c)
      <3>1. UNCHANGED rowVars
        BY <2>2 DEF Arrive, Exchange, SaveLoad, SaveFails, Succeed, StopAfter, Fail
      <3>2. ManagerInv'
        BY <1>1, <2>2, ArriveOK, ExchangeOK, SaveLoadOK, LeavingOK, LastStepsOK
      <3> QED
        BY <1>1, <3>1, <3>2, RowsStep DEF Inv
    <2> QED
      BY <1>6, <2>1, <2>2 DEF CallbackStep
  <1> QED
    BY <1>2, <1>3, <1>4, <1>5, <1>6 DEF OAuthNext

\* The invariant holds in every behaviour.
THEOREM InvAlways == OAuthSpec => []Inv
  BY InitOK, Step, PTL DEF OAuthSpec

\* Whatever refreshes, sign-ins, edits, imports and deletions overlap, a Codex
\* row holds nobody else's credentials (codex.go:97-99).
THEOREM CredentialsAreOwn == OAuthSpec => []OwnCredentials
  <1>1. Inv => OwnCredentials
    BY DEF Inv, RowsInv, TablesOK, OwnCredentials, RowsHoldOwn, Own, Holds, ProviderHeld, AccountHeld
  <1> QED
    BY <1>1, InvAlways, PTL

(***************************************************************************)
(* Done means saved.                                                       *)
(***************************************************************************)
\* A callback that is going to report success has stored its tokens.
SavedInv == DoneMeansSaved /\ \A c \in Callbacks : callback[c].pc = "finish" => callback[c].state \in saved

LEMMA SavedStep == Inv /\ SavedInv /\ [OAuthNext]_vars => SavedInv'
  <1> SUFFICES ASSUME Inv, SavedInv, [OAuthNext]_vars PROVE SavedInv'
    OBVIOUS
  <1>1. ManagerInv /\ session \in SignIns /\ callback \in [Callbacks -> CallbackCalls]
    BY DEF Inv, ManagerInv, SessionInv, CallbackInv
  <1>2. CASE UNCHANGED managerVars
    BY <1>2 DEF SavedInv, DoneMeansSaved, managerVars
  <1>3. CASE Start
    <2>1. session'.status = "pending" /\ UNCHANGED <<callback, saved>>
      BY <1>3 DEF Start
    <2> QED
      BY <2>1 DEF SavedInv, DoneMeansSaved
  <1>4. CASE StartFails \/ TimerFires
    BY <1>4 DEF SavedInv, DoneMeansSaved, StartFails, TimerFires
  <1>5. CASE ServeFails \/ \E s \in Sessions : TimeoutStep(s)
    <2>1. UNCHANGED <<callback, saved>> /\ (UNCHANGED session \/ (\E state : Finish(state, "error")))
      BY <1>5 DEF ServeFails, TimeoutStep, TimeoutFinish, TimeoutStop
    <2> QED
      BY <1>1, <2>1, Finished DEF SavedInv, DoneMeansSaved
  <1>6. ASSUME NEW c \in Callbacks, CallbackStep(c) PROVE SavedInv'
    <2>1. CASE Arrive(c)
      <3>1. UNCHANGED <<session, saved>>
        BY <2>1 DEF Arrive
      <3> QED
        BY <1>1, <2>1, <3>1, Arrived DEF SavedInv, DoneMeansSaved
    <2>2. CASE Exchange(c) \/ SaveLoad(c)
      <3>1. UNCHANGED <<session, saved>>
        BY <2>2 DEF Exchange, SaveLoad
      <3> QED
        BY <1>1, <2>2, <3>1, GoesOn DEF SavedInv, DoneMeansSaved
    <2>3. CASE SaveFails(c)
      <3>1. UNCHANGED <<session, saved>> /\ Leave(c, "fail")
        BY <2>3 DEF SaveFails
      <3> QED
        BY <1>1, <3>1, Left DEF SavedInv, DoneMeansSaved
    <2>4. CASE SaveWrite(c)
      <3>1. UNCHANGED session /\ saved' = saved \cup {callback[c].state} /\ Leave(c, "finish")
        BY <2>4 DEF SaveWrite
      <3> QED
        BY <1>1, <3>1, Left DEF SavedInv, DoneMeansSaved
    <2>5. CASE Succeed(c)
      <3>1. UNCHANGED saved /\ Finish(callback[c].state, "done") /\ callback[c].state \in saved
        BY <2>5 DEF Succeed, SavedInv
      <3>2. \A d \in Callbacks : callback'[d].pc = "finish" => callback'[d] = callback[d]
        <4>1. Leave(c, "stop") \/ callback' = [callback EXCEPT ![c] = NoCallback]
          BY <2>5 DEF Succeed
        <4> HIDE DEF NoCallback
        <4>2. CASE Leave(c, "stop")
          BY <1>1, <4>2, Left
        <4>3. CASE callback' = [callback EXCEPT ![c] = NoCallback]
          <5>1. \A d \in Callbacks : callback'[d] = IF d = c THEN NoCallback ELSE callback[d]
            BY <1>1, <4>3
          <5> QED
            BY <5>1, NoCallbackIdle
        <4> QED
          BY <4>1, <4>2, <4>3
      <3> QED
        BY <1>1, <3>1, <3>2, Finished DEF SavedInv, DoneMeansSaved
    <2>6. CASE StopAfter(c) \/ Fail(c)
      <3>1. UNCHANGED saved /\ (UNCHANGED session \/ Finish(callback[c].state, "error"))
        BY <2>6 DEF StopAfter, Fail
      <3>2. \A d \in Callbacks : callback'[d].pc = "finish" => callback'[d] = callback[d]
        <4>1. callback' = [callback EXCEPT ![c] = NoCallback]
          BY <2>6 DEF StopAfter, Fail
        <4>2. \A d \in Callbacks : callback'[d] = IF d = c THEN NoCallback ELSE callback[d]
          BY <1>1, <4>1
        <4> QED
          BY <4>2, NoCallbackIdle
      <3> QED
        BY <1>1, <3>1, <3>2, Finished DEF SavedInv, DoneMeansSaved
    <2> QED
      BY <1>6, <2>1, <2>2, <2>3, <2>4, <2>5, <2>6 DEF CallbackStep
  <1> QED
    BY <1>2, <1>3, <1>4, <1>5, <1>6 DEF OAuthNext, vars

\* Only a sign-in whose tokens are stored is shown as done, however late the
\* callbacks of older ones finish (codex.go:198-245).
THEOREM DoneIsSaved == OAuthSpec => []DoneMeansSaved
  <1>1. ASSUME OAuthInit PROVE SavedInv
    <2>1. session.status = ""
      BY <1>1 DEF OAuthInit, NoSession
    <2>2. \A c \in Callbacks : callback[c].pc = "idle"
      BY <1>1, NoCallbackIdle DEF OAuthInit
    <2> QED
      BY <2>1, <2>2 DEF SavedInv, DoneMeansSaved
  <1>2. SavedInv => DoneMeansSaved
    BY DEF SavedInv
  <1> QED
    BY <1>1, <1>2, SavedStep, InvAlways, PTL DEF OAuthSpec

(***************************************************************************)
(* A pending sign-in is timed.                                             *)
(***************************************************************************)
\* Whoever is about to close server and timer in the name of the current
\* sign-in has ended it.
StoppersAreLate ==
    /\ \A c \in Callbacks : callback[c].pc = "stop" /\ callback[c].state = started => session.status # "pending"
    /\ firing[started] = "stop" => session.status # "pending"

\* A timer is only ever armed for the current sign-in.
TimersOK ==
    /\ firing \in [Sessions -> {"no", "finish", "stop"}]
    /\ timer \in {0, started}
    /\ \A s \in Sessions : firing[s] # "no" => s <= started
    /\ \A c \in Callbacks : callback[c].state <= started

TimedInv == TimersOK /\ StoppersAreLate /\ PendingSessionIsTimed

\* What the steps below rely on.
LEMMA Known ==
    ASSUME Inv
    PROVE  /\ ManagerInv /\ session \in SignIns /\ callback \in [Callbacks -> CallbackCalls]
           /\ session.state = started /\ started \in 0..MaxSessions /\ started \in Nat /\ MaxSessions \in Nat
           /\ session.status = "pending" => started \in Sessions
           /\ \A c \in Callbacks : callback[c].pc # "idle" => callback[c].state # 0
  <1>1. started \in 0..MaxSessions /\ MaxSessions \in Nat
    BY MaxSessionsAssumption DEF Inv, ManagerInv, TargetInv
  <1>2. session.status # "" => session.state # 0
    BY DEF Inv, ManagerInv, SessionInv
  <1>3. session.state = started
    BY DEF Inv, ManagerInv, SessionInv
  <1>4. session.status = "pending" => started \in Sessions
    BY <1>1, <1>2, <1>3 DEF Sessions
  <1>5. started \in Nat
    BY <1>1
  <1>6. callback \in [Callbacks -> CallbackCalls] /\ \A c \in Callbacks : callback[c].pc # "idle" => callback[c].state # 0
    BY DEF Inv, ManagerInv, CallbackInv, CallbackOK
  <1> QED
    BY <1>1, <1>3, <1>4, <1>5, <1>6 DEF Inv, ManagerInv, SessionInv

LEMMA TimedStart == ASSUME Inv, TimedInv, Start PROVE TimedInv'
  <1>1. /\ started < MaxSessions /\ started' = started + 1 /\ timer' = started + 1
        /\ session'.state = started + 1 /\ UNCHANGED <<firing, callback>>
    BY DEF Start
  <1>2. started \in 0..MaxSessions /\ MaxSessions \in Nat /\ callback \in [Callbacks -> CallbackCalls]
    BY Known
  <1>3. \A c \in Callbacks : callback[c].state <= started /\ callback[c].state \in Nat
    BY <1>2 DEF TimedInv, TimersOK, CallbackCalls
  <1>4. \A s \in Sessions : s \in Nat /\ (firing[s] # "no" => s <= started)
    BY <1>2 DEF TimedInv, TimersOK, Sessions
  <1>5. started + 1 \in Sessions
    BY <1>1, <1>2 DEF Sessions
  <1>6. firing[started + 1] = "no"
    BY <1>2, <1>4, <1>5
  <1>7. TimersOK'
    BY <1>1, <1>2, <1>3, <1>4 DEF TimedInv, TimersOK
  <1>8. StoppersAreLate'
    BY <1>1, <1>2, <1>3, <1>6 DEF StoppersAreLate
  <1>9. PendingSessionIsTimed'
    BY <1>1 DEF PendingSessionIsTimed
  <1> QED
    BY <1>7, <1>8, <1>9 DEF TimedInv

\* Steps that end the session or close its timer, and no handler's.
LEMMA TimedEnd ==
    ASSUME Inv, TimedInv, StartFails \/ ServeFails \/ TimerFires \/ \E s \in Sessions : TimeoutStep(s)
    PROVE  TimedInv'
  <1>1. UNCHANGED <<callback, started>>
    BY DEF StartFails, ServeFails, TimerFires, TimeoutStep, TimeoutFinish, TimeoutStop
  <1>2. CASE StartFails
    BY <1>1, <1>2 DEF StartFails, TimedInv, TimersOK, StoppersAreLate, PendingSessionIsTimed
  <1>3. CASE ServeFails
    <2>1. Finish(server, "error") /\ UNCHANGED <<firing, orphaned>>
      BY <1>3 DEF ServeFails
    <2> QED
      BY <1>1, <2>1, Known, Finished DEF TimedInv, TimersOK, StoppersAreLate, PendingSessionIsTimed
  <1>4. CASE TimerFires
    <2>1. timer = started /\ timer' = 0 /\ firing' = [firing EXCEPT ![started] = "finish"] /\ started # 0
          /\ UNCHANGED <<session, orphaned>>
      BY <1>4 DEF TimerFires, TimedInv, TimersOK
    <2>2. started \in Sessions /\ started <= started
      BY <2>1, Known DEF Sessions
    <2> QED
      BY <1>1, <2>1, <2>2, Known DEF TimedInv, TimersOK, StoppersAreLate, PendingSessionIsTimed
  <1>5. ASSUME NEW s \in Sessions, TimeoutFinish(s) PROVE TimedInv'
    <2>1. Finish(s, "error") /\ firing[s] = "finish" /\ firing' = [firing EXCEPT ![s] = "stop"] /\ UNCHANGED orphaned
      BY <1>5 DEF TimeoutFinish
    <2> QED
      BY <1>1, <2>1, Known, Finished DEF TimedInv, TimersOK, StoppersAreLate, PendingSessionIsTimed
  <1>6. ASSUME NEW s \in Sessions, TimeoutStop(s) PROVE TimedInv'
    <2>1. /\ firing[s] = "stop" /\ firing' = [firing EXCEPT ![s] = "no"] /\ timer' = 0 /\ UNCHANGED session
          /\ orphaned' = (orphaned \/ (session.status = "pending" /\ session.state # s))
      BY <1>6 DEF TimeoutStop, StopServerOnly
    <2> QED
      BY <1>1, <2>1, Known DEF TimedInv, TimersOK, StoppersAreLate, PendingSessionIsTimed
  <1> QED
    BY <1>2, <1>3, <1>4, <1>5, <1>6 DEF TimeoutStep

\* Handlers: only the last steps touch the timer.
LEMMA TimedHandler == ASSUME Inv, TimedInv, NEW c \in Callbacks, CallbackStep(c) PROVE TimedInv'
  <1>1. UNCHANGED <<firing, started>>
    BY DEF CallbackStep, Arrive, Exchange, SaveLoad, SaveWrite, SaveFails, Succeed, StopAfter, Fail
  <1>2. CASE Arrive(c)
    <2>1. UNCHANGED <<session, timer, orphaned>>
      BY <1>2 DEF Arrive
    <2> QED
      BY <1>1, <1>2, <2>1, Known, Arrived DEF TimedInv, TimersOK, StoppersAreLate, PendingSessionIsTimed
  <1>3. CASE Exchange(c) \/ SaveLoad(c)
    <2>1. UNCHANGED <<session, timer, orphaned>>
      BY <1>3 DEF Exchange, SaveLoad
    <2> QED
      BY <1>1, <1>3, <2>1, Known, GoesOn DEF TimedInv, TimersOK, StoppersAreLate, PendingSessionIsTimed
  <1>4. CASE SaveWrite(c) \/ SaveFails(c)
    <2>1. UNCHANGED <<session, timer, orphaned>> /\ (Leave(c, "finish") \/ Leave(c, "fail"))
      BY <1>4 DEF SaveWrite, SaveFails
    <2> QED
      BY <1>1, <2>1, Known, Left DEF TimedInv, TimersOK, StoppersAreLate, PendingSessionIsTimed
  <1>5. CASE Succeed(c)
    <2>1. Finish(callback[c].state, "done") /\ UNCHANGED orphaned
          /\ (Leave(c, "stop") \/ callback' = [callback EXCEPT ![c] = NoCallback])
      BY <1>5 DEF Succeed
    <2>2. \A d \in Callbacks : \/ callback'[d] = callback[d]
                               \/ d = c /\ callback'[d].pc = "stop" /\ callback'[d].state = callback[c].state
                               \/ d = c /\ callback'[d] = NoCallback
      BY <2>1, Known, Left
    <2> QED
      BY <1>1, <2>1, <2>2, Known, Finished, NoCallbackIdle
      DEF TimedInv, TimersOK, StoppersAreLate, PendingSessionIsTimed
  <1>6. CASE Fail(c)
    <2>1. Finish(callback[c].state, "error") /\ UNCHANGED orphaned /\ callback' = [callback EXCEPT ![c] = NoCallback]
      BY <1>6 DEF Fail
    <2>2. \A d \in Callbacks : callback'[d] = callback[d] \/ callback'[d] = NoCallback
      BY <2>1, Known
    <2> QED
      BY <1>1, <2>1, <2>2, Known, Finished, NoCallbackIdle
      DEF TimedInv, TimersOK, StoppersAreLate, PendingSessionIsTimed
  <1>7. CASE StopAfter(c)
    <2>1. /\ callback[c].pc = "stop" /\ timer' = 0 /\ UNCHANGED session
          /\ orphaned' = (orphaned \/ (session.status = "pending" /\ session.state # callback[c].state))
          /\ callback' = [callback EXCEPT ![c] = NoCallback]
      BY <1>7 DEF StopAfter, StopServerOnly
    <2>2. \A d \in Callbacks : callback'[d] = callback[d] \/ callback'[d] = NoCallback
      BY <2>1, Known
    <2>3. session.status = "pending" => callback[c].state # session.state
      BY <2>1, Known DEF TimedInv, StoppersAreLate
    <2>4. PendingSessionIsTimed'
      BY <2>1, <2>3 DEF PendingSessionIsTimed
    <2>5. TimersOK'
      BY <1>1, <2>1, <2>2, Known, NoCallbackIdle DEF TimedInv, TimersOK
    <2> QED
      BY <1>1, <2>1, <2>2, <2>4, <2>5, NoCallbackIdle DEF TimedInv, StoppersAreLate
  <1> QED
    BY <1>2, <1>3, <1>4, <1>5, <1>6, <1>7 DEF CallbackStep

\* A pending sign-in has its timer, unless a failed Start or the late stop of
\* another sign-in took it away (codex.go:117-119, 237-241, 406-409).
THEOREM PendingIsTimed == OAuthSpec => []PendingSessionIsTimed
  <1>1. ASSUME OAuthInit PROVE TimedInv
    <2>1. session.status = "" /\ timer = 0 /\ started = 0
      BY <1>1 DEF OAuthInit, NoSession
    <2>2. \A c \in Callbacks : callback[c].pc = "idle" /\ callback[c].state = 0
      BY <1>1, NoCallbackIdle DEF OAuthInit
    <2>3. firing = [s \in Sessions |-> "no"]
      BY <1>1 DEF OAuthInit
    <2>4. TimersOK
      <3>1. firing \in [Sessions -> {"no", "finish", "stop"}] /\ \A s \in Sessions : firing[s] = "no"
        BY <2>3
      <3>2. timer \in {0, started}
        BY <2>1
      <3>4. \A c \in Callbacks : callback[c].state <= started
        <4>1. started = 0
          BY <2>1
        <4>2. 0 \in Nat /\ 0 <= 0
          OBVIOUS
        <4> QED
          BY <4>1, <4>2, <2>2, Zenon
      <3>3. \A s \in Sessions : firing[s] # "no" => s <= started
        BY <3>1
      <3> QED
        BY <3>1, <3>2, <3>3, <3>4 DEF TimersOK
    <2>5. session.status # "pending"
      BY <2>1
    <2> QED
      BY <2>4, <2>5 DEF TimedInv, StoppersAreLate, PendingSessionIsTimed
  <1>2. ASSUME Inv, TimedInv, [OAuthNext]_vars PROVE TimedInv'
    <2>1. CASE UNCHANGED managerVars
      BY <1>2, <2>1 DEF managerVars, TimedInv, TimersOK, StoppersAreLate, PendingSessionIsTimed
    <2> QED
      BY <1>2, <2>1, TimedStart, TimedEnd, TimedHandler DEF OAuthNext, vars
  <1>3. TimedInv => PendingSessionIsTimed
    BY DEF TimedInv
  <1> QED
    BY <1>1, <1>2, <1>3, InvAlways, PTL DEF OAuthSpec

(***************************************************************************)
(* Attempts of an executor.                                                *)
(***************************************************************************)
Allowed(f, c) == IF f = "codex" /\ c.via = "dashboard" THEN 2 ELSE 1

\* Repetitions stop at the larger limit, and each refresh adds the one attempt
\* that no limit is looked at for.
BoundOK(f, c) ==
    /\ c.refreshed <= Allowed(f, c) /\ (c.pc = "refresh" => c.refreshed < Allowed(f, c))
    /\ c.attempt <= Repetitions[429] + c.refreshed
    /\ c.pc \in {"load", "write"} => c.attempt < Repetitions[429] + c.refreshed
    /\ f = "codex" => c.attempt = 0

BoundInv == \A r \in Requests : BoundOK(flavour, exec[r])

LEMMA BoundChange ==
    ASSUME RowsInv, BoundInv, NEW r \in Requests, NEW c, BoundOK(flavour, c),
           exec' = [exec EXCEPT ![r] = c], UNCHANGED flavour
    PROVE  BoundInv'
  BY DEF RowsInv, BoundInv

LEMMA NoCallBound == NoCall \in Calls /\ \A f : BoundOK(f, NoCall)
  <1>1. NoCall \in Calls /\ NoCall.pc = "idle" /\ NoCall.attempt = 0 /\ NoCall.refreshed = 0
    BY ConstantsOK DEF NoCall, Calls
  <1>2. Repetitions[429] \in Nat
    BY RepetitionsAssumption
  <1>3. \A f : 0 <= Allowed(f, NoCall)
    BY DEF Allowed
  <1> QED
    BY <1>1, <1>2, <1>3 DEF BoundOK

\* What the executor's steps make of a call.
LEMMA BoundCall ==
    ASSUME RowsInv, BoundInv, NEW r \in Requests, Dispatch(r) \/ Refresh(r) \/ RefreshLoad(r) \/ RefreshWrite(r)
    PROVE  BoundInv'
  <1> DEFINE c == exec[r]
             limit == Repetitions[429]
  <1>1. c \in Calls /\ BoundOK(flavour, c) /\ UNCHANGED flavour
    BY DEF RowsInv, BoundInv, Dispatch, Refresh, RefreshLoad, RefreshWrite
  <1>2. limit \in Nat /\ Repetitions[503] \in Nat /\ Repetitions[503] <= limit
    BY RepetitionsAssumption
  <1>3. c.attempt \in Nat /\ c.refreshed \in Nat /\ c.attempt + 1 \in Nat /\ c.refreshed + 1 \in Nat
    BY <1>1 DEF Calls
  <1>4. CASE exec' = [exec EXCEPT ![r] = NoCall]
    BY <1>1, <1>4, NoCallBound, BoundChange
  <1>5. CASE Dispatch(r) /\ ~(exec' = [exec EXCEPT ![r] = NoCall])
    <2>1. CASE c.refreshed < MayRefresh(c) /\ exec' = [exec EXCEPT ![r] = [c EXCEPT !.pc = "refresh"]]
      <3> DEFINE new == [c EXCEPT !.pc = "refresh"]
      <3>1. new.pc = "refresh" /\ new.via = c.via /\ new.attempt = c.attempt /\ new.refreshed = c.refreshed
        BY <1>1 DEF Calls
      <3>2. c.refreshed < Allowed(flavour, c)
        BY <2>1 DEF MayRefresh, Allowed
      <3>3. exec' = [exec EXCEPT ![r] = new]
        BY <2>1
      <3> HIDE DEF new, c
      <3>4. BoundOK(flavour, new)
        BY <1>1, <3>1, <3>2 DEF BoundOK, Allowed
      <3> QED
        BY <1>1, <3>3, <3>4, BoundChange
    <2>2. ASSUME NEW status \in {200, 401, 429, 503}, Repeats(c, status),
                 exec' = [exec EXCEPT ![r] = [c EXCEPT !.attempt = c.attempt + 1]]
          PROVE  BoundInv'
      <3> DEFINE new == [c EXCEPT !.attempt = c.attempt + 1]
      <3>1. new.pc = c.pc /\ c.pc = "call" /\ new.via = c.via /\ new.attempt = c.attempt + 1 /\ new.refreshed = c.refreshed
        BY <1>1, <1>3, <1>5 DEF Calls, Dispatch
      <3>2. flavour = "antigravity" /\ c.attempt < Repetitions[status] /\ status \in {429, 503}
        BY <2>2, RepetitionsAssumption DEF Repeats
      <3>3. exec' = [exec EXCEPT ![r] = new]
        BY <2>2
      <3> HIDE DEF new, c
      <3>4. c.attempt + 1 <= limit
        BY <1>2, <1>3, <3>2
      <3> HIDE DEF limit
      <3>5. new.attempt <= limit + new.refreshed
        BY <1>2, <1>3, <3>1, <3>4
      <3>6. BoundOK(flavour, new)
        BY <1>1, <3>1, <3>2, <3>5 DEF BoundOK, Allowed, limit
      <3> QED
        BY <1>1, <3>3, <3>6, BoundChange
    <2> QED
      BY <1>5, <2>1, <2>2 DEF Dispatch, To, Done
  <1>6. CASE Refresh(r) /\ ~(exec' = [exec EXCEPT ![r] = NoCall])
    <2> DEFINE new == [c EXCEPT !.pc = "load", !.token = c.refresh, !.refreshed = c.refreshed + 1]
    <2>1. c.pc = "refresh" /\ exec' = [exec EXCEPT ![r] = new]
      BY <1>6 DEF Refresh, Done
    <2>2. new.pc = "load" /\ new.via = c.via /\ new.attempt = c.attempt /\ new.refreshed = c.refreshed + 1
      BY <1>1, <1>3 DEF Calls
    <2> HIDE DEF new, c, limit
    <2>3. c.refreshed < Allowed(flavour, c) /\ c.attempt <= limit + c.refreshed /\ (flavour = "codex" => c.attempt = 0)
      BY <1>1, <2>1 DEF BoundOK, limit
    <2>4. Allowed(flavour, c) \in Nat /\ Allowed(flavour, new) = Allowed(flavour, c)
      BY <2>2 DEF Allowed
    <2>5. new.refreshed <= Allowed(flavour, new) /\ new.attempt < limit + new.refreshed
      BY <1>2, <1>3, <2>2, <2>3, <2>4
    <2>6. new.attempt <= limit + new.refreshed
      BY <1>2, <1>3, <2>2, <2>5
    <2>7. BoundOK(flavour, new)
      BY <2>2, <2>3, <2>5, <2>6 DEF BoundOK, limit
    <2> QED
      BY <1>1, <2>1, <2>7, BoundChange
  <1>7. CASE RefreshLoad(r) /\ ~(exec' = [exec EXCEPT ![r] = NoCall])
    <2> DEFINE new == [c EXCEPT !.pc = "write"]
    <2>1. c.pc = "load" /\ exec' = [exec EXCEPT ![r] = new]
      BY <1>7 DEF RefreshLoad, To, Done
    <2>2. new.pc = "write" /\ new.via = c.via /\ new.attempt = c.attempt /\ new.refreshed = c.refreshed
      BY <1>1 DEF Calls
    <2> HIDE DEF new, c
    <2>3. BoundOK(flavour, new)
      BY <1>1, <2>1, <2>2 DEF BoundOK, Allowed
    <2> QED
      BY <1>1, <2>1, <2>3, BoundChange
  <1>8. CASE RefreshWrite(r)
    <2> DEFINE attempt == IF flavour = "antigravity" THEN c.attempt + 1 ELSE c.attempt
               new == [c EXCEPT !.pc = "call", !.attempt = attempt]
    <2>1. c.pc = "write" /\ exec' = [exec EXCEPT ![r] = new]
      BY <1>8 DEF RefreshWrite
    <2>2. attempt \in Nat /\ attempt <= c.attempt + 1 /\ (flavour = "codex" => attempt = c.attempt)
      BY <1>3
    <2> HIDE DEF attempt
    <2>3. new.pc = "call" /\ new.via = c.via /\ new.attempt = attempt /\ new.refreshed = c.refreshed
      BY <1>1, <2>2 DEF Calls
    <2> HIDE DEF new, c, limit
    <2>4. c.refreshed <= Allowed(flavour, c) /\ c.attempt < limit + c.refreshed /\ (flavour = "codex" => c.attempt = 0)
      BY <1>1, <2>1 DEF BoundOK, limit
    <2>5. attempt <= limit + c.refreshed
      BY <1>2, <1>3, <2>2, <2>4
    <2>6. BoundOK(flavour, new)
      BY <2>2, <2>3, <2>4, <2>5 DEF BoundOK, Allowed, limit
    <2> QED
      BY <1>1, <2>1, <2>6, BoundChange
  <1> QED
    BY <1>4, <1>5, <1>6, <1>7, <1>8

LEMMA BoundBegin == ASSUME RowsInv, BoundInv, NEW r \in Requests, Begin(r) PROVE BoundInv'
  <1>1. PICK p \in DOMAIN providers, a \in Accounts \cup {None}, via \in {"gateway", "dashboard"} :
            a \in AccountsOf(p) \cup {None} /\ exec' = [exec EXCEPT ![r] = Begun(p, a, via)]
    BY DEF Begin
  <1> DEFINE c == Begun(p, a, via)
  <1>2. /\ c.pc = "refresh" => c.via = "dashboard" /\ flavour = "codex"
        /\ c.attempt = 0 /\ c.refreshed = 0 /\ c.pc \in {"refresh", "call"}
    BY <1>1, BegunIs
  <1>3. exec' = [exec EXCEPT ![r] = c] /\ UNCHANGED flavour
    BY <1>1 DEF Begin
  <1> HIDE DEF c
  <1>4. 0 <= Allowed(flavour, c) /\ (c.pc = "refresh" => 0 < Allowed(flavour, c))
    BY <1>2 DEF Allowed
  <1>5. Repetitions[429] \in Nat
    BY RepetitionsAssumption
  <1>6. BoundOK(flavour, c)
    BY <1>2, <1>4, <1>5 DEF BoundOK
  <1> QED
    BY <1>3, <1>6, BoundChange

\* An executor refreshes once, or twice for a reset credit, and repeats a rate
\* limited call once more at most than its limit (antigravity.go:42-66).
THEOREM ExecutorsAreBounded == OAuthSpec => []ExecutorBounded
  <1>1. OAuthInit => BoundInv
    BY NoCallBound DEF OAuthInit, RowsInit, BoundInv
  <1>2. ASSUME Inv, BoundInv, [OAuthNext]_vars PROVE BoundInv'
    <2>1. RowsInv
      BY <1>2 DEF Inv
    <2>2. CASE UNCHANGED <<exec, flavour>>
      BY <1>2, <2>2 DEF BoundInv
    <2>3. ASSUME NEW r \in Requests, ExecutorStep(r) PROVE BoundInv'
      BY <1>2, <2>1, <2>3, BoundBegin, BoundCall DEF ExecutorStep
    <2>4. UNCHANGED <<exec, flavour>> \/ \E r \in Requests : ExecutorStep(r)
      BY <1>2 DEF OAuthNext, RowsNext, vars, rowVars, stored, EditorStep, EditAccountLoad, EditAccountSave,
                  EditProviderLoad, EditProviderSave, ImportAccount, DeleteAccount, DeleteProvider, Start,
                  StartFails, ServeFails, TimerFires, TimeoutStep, TimeoutFinish, TimeoutStop, CallbackStep,
                  Arrive, Exchange, SaveLoad, SaveWrite, SaveFails, Succeed, StopAfter, Fail
    <2> QED
      BY <2>2, <2>3, <2>4
  <1>3. ASSUME Inv, BoundInv PROVE ExecutorBounded
    <2> SUFFICES ASSUME NEW r \in Requests
                 PROVE  exec[r].refreshed <= Allowed(flavour, exec[r]) /\ exec[r].attempt <= Repetitions[429] + 1
      BY DEF ExecutorBounded, Allowed
    <2>2. BoundOK(flavour, exec[r]) /\ exec[r].attempt \in Nat /\ exec[r].refreshed \in Nat
      BY <1>3 DEF BoundInv, Inv, RowsInv, Calls
    <2>3. Repetitions[429] \in Nat
      BY RepetitionsAssumption
    <2>4. CASE flavour = "codex"
      BY <2>2, <2>3, <2>4 DEF BoundOK
    <2>5. CASE flavour # "codex"
      BY <2>2, <2>3, <2>5 DEF BoundOK, Allowed
    <2> QED
      BY <2>4, <2>5
  <1> QED
    BY <1>1, <1>2, <1>3, InvAlways, PTL DEF OAuthSpec
================================================================================
