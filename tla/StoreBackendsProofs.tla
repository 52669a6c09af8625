--------------------------- MODULE StoreBackendsProofs ---------------------------
(***************************************************************************)
(* Neither store takes the provider from under a stored account, whatever  *)
(* rows are written, however many calls are made and whichever of their    *)
(* statements fail (NoNewOrphans); neither forgets a log it has to keep    *)
(* (OnlyOldLogsAreTrimmed), nor, unless a write fails, the payload of one  *)
(* (PayloadsFollowLogs).  Both give their callers the same answers         *)
(* (Interchangeable), and the same after a restart (RestartKeepsState):    *)
(* the normalisers leave what they normalised alone, so that it does not   *)
(* matter how often a row went through them.  All for every value of the   *)
(* constants.                                                              *)
(***************************************************************************)
EXTENDS StoreBackends, FiniteSetTheorems, SequenceTheorems, TLAPS

Tables == {"settings", "providers", "accounts", "proxies", "invoices"}

\* The five tables are there, and every account names a provider.
Shaped(t) ==
    /\ Tables \subseteq DOMAIN t
    /\ \A a \in DOMAIN t.accounts : "provider" \in DOMAIN t.accounts[a]

\* What the file store needs to start again: a main file that no failed write
\* left behind is what memory holds.
StoresInv ==
    /\ Shaped(db) /\ Shaped(mainFile) /\ Shaped(tables)
    /\ "main" \notin unsaved => mainFile = db
    /\ calls \in [Kinds -> Nat]

Keeps(t, u) == Shaped(u) /\ ProvidersStay(t.providers, t.accounts, u.providers, u.accounts)

(***************************************************************************)
(* What a change of one table does.                                        *)
(***************************************************************************)
LEMMA NormalizedAccount ==
    ASSUME NEW a, "provider" \in DOMAIN a
    PROVE  /\ "provider" \in DOMAIN NormalizeProviderAccount(a)
           /\ NormalizeProviderAccount(a).provider = a.provider
BY DEF NormalizeProviderAccount

LEMMA KeepsItself == ASSUME NEW t, Shaped(t) PROVE Keeps(t, t)
BY DEF Keeps, ProvidersStay

LEMMA KeepsOther ==
    ASSUME NEW t, Shaped(t), NEW u, Tables \subseteq DOMAIN u,
           u.accounts = t.accounts, u.providers = t.providers
    PROVE  Keeps(t, u)
BY DEF Keeps, ProvidersStay, Shaped

LEMMA KeepsPutAccount ==
    ASSUME NEW t, Shaped(t), NEW id, NEW row, "provider" \in DOMAIN row
    PROVE  Keeps(t, [t EXCEPT !.accounts = Put(@, id, row)])
BY DEF Keeps, ProvidersStay, Shaped, Tables, Put

LEMMA KeepsPutProvider ==
    ASSUME NEW t, Shaped(t), NEW id, NEW row
    PROVE  Keeps(t, [t EXCEPT !.providers = Put(@, id, row)])
BY DEF Keeps, ProvidersStay, Shaped, Tables, Put

LEMMA KeepsDropAccounts ==
    ASSUME NEW t, Shaped(t), NEW ids
    PROVE  Keeps(t, [t EXCEPT !.accounts = Drop(@, ids)])
BY DEF Keeps, ProvidersStay, Shaped, Tables, Drop

LEMMA KeepsDropProvider ==
    ASSUME NEW t, Shaped(t), NEW id
    PROVE  Keeps(t, [t EXCEPT !.providers = Drop(@, {id}),
                              !.accounts = Drop(@, AccountsOf(@, id))])
BY DEF Keeps, ProvidersStay, Shaped, Tables, Drop, AccountsOf

LEMMA KeepsOutcome ==
    ASSUME NEW t, Shaped(t), NEW id, NEW row, id \in DOMAIN t.accounts,
           "provider" \in DOMAIN row, row.provider = t.accounts[id].provider
    PROVE  Keeps(t, [t EXCEPT !.accounts[id] = row])
BY DEF Keeps, ProvidersStay, Shaped, Tables

(***************************************************************************)
(* The file store: every operation leaves the providers of its accounts,   *)
(* and a main file that agrees with memory unless the write failed.        *)
(***************************************************************************)
FileGood ==
    /\ Keeps(db, db') /\ Shaped(mainFile')
    /\ "main" \notin unsaved' => mainFile' = db'

LEMMA SaveIsGood ==
    ASSUME StoresInv, NEW new, Keeps(db, new), NEW wrote, Save(new, wrote)
    PROVE  FileGood
BY DEF StoresInv, FileGood, Save, Keeps

LEMMA FileUnchanged ==
    ASSUME StoresInv, UNCHANGED <<db, mainFile, unsaved>> PROVE FileGood
<1>1. Keeps(db, db) BY KeepsItself DEF StoresInv
<1> QED BY <1>1 DEF FileGood, StoresInv

LEMMA LogsAreElsewhere ==
    ASSUME StoresInv, NEW new, NEW wrote, SaveLogs(new, wrote) PROVE FileGood
<1>1. Keeps(db, db) BY KeepsItself DEF StoresInv
<1> QED BY <1>1 DEF FileGood, StoresInv, SaveLogs

\* Settings, proxies and invoices are tables of their own.
LEMMA KeepsSettings ==
    ASSUME NEW t, Shaped(t), NEW s PROVE Keeps(t, [t EXCEPT !.settings = s])
BY KeepsOther DEF Shaped, Tables

LEMMA KeepsProxies ==
    ASSUME NEW t, Shaped(t), NEW s PROVE Keeps(t, [t EXCEPT !.proxies = s])
BY KeepsOther DEF Shaped, Tables

LEMMA KeepsInvoices ==
    ASSUME NEW t, Shaped(t), NEW s PROVE Keeps(t, [t EXCEPT !.invoices = s])
BY KeepsOther DEF Shaped, Tables

LEMMA FileSettingsGood ==
    ASSUME StoresInv, NEW s, NEW wrote, FileSaveSettings(s, wrote) PROVE FileGood
<1> DEFINE new == [db EXCEPT !.settings =
                     [NormalizeSettings(s) EXCEPT !.keys = PreserveAPIKeyUsage(@, db.settings.keys)]]
<1>1. Keeps(db, new) BY KeepsSettings DEF StoresInv
<1> HIDE DEF new
<1>2. Save(new, wrote) BY DEF FileSaveSettings, new
<1> QED BY <1>1, <1>2, SaveIsGood

LEMMA FileUsageGood ==
    ASSUME StoresInv, NEW id, NEW n, NEW wrote, FileRecordAPIKeyUsage(id, n, wrote) PROVE FileGood
<1> DEFINE new == [db EXCEPT !.settings.keys = AddUsage(@, id, n)]
<1>1. Keeps(db, new) BY KeepsSettings DEF StoresInv
<1> HIDE DEF new
<1>2. Save(new, wrote) \/ UNCHANGED fileVars BY DEF FileRecordAPIKeyUsage, new
<1>3. CASE Save(new, wrote) BY <1>1, <1>3, SaveIsGood
<1>4. CASE UNCHANGED fileVars BY <1>4, FileUnchanged DEF fileVars
<1> QED BY <1>2, <1>3, <1>4

LEMMA FileProviderGood ==
    ASSUME StoresInv, NEW id, NEW p, NEW wrote,
           FileUpsertProvider(id, p, wrote) \/ FileDeleteProvider(id, wrote)
    PROVE  FileGood
<1> DEFINE row == NormalizeProvider(p)
           put == [db EXCEPT !.providers = Put(@, id, row)]
           drop == [db EXCEPT !.providers = Drop(@, {id}), !.accounts = Drop(@, AccountsOf(@, id))]
<1>1. Keeps(db, drop) BY KeepsDropProvider DEF StoresInv
<1>2. Keeps(db, put)
  <2> HIDE DEF row
  <2> QED BY KeepsPutProvider DEF StoresInv
<1> HIDE DEF put, drop
<1>3. Save(put, wrote) \/ Save(drop, wrote) \/ UNCHANGED fileVars
      BY DEF FileUpsertProvider, FileDeleteProvider, put, drop
<1>4. CASE Save(put, wrote) BY <1>2, <1>4, SaveIsGood
<1>5. CASE Save(drop, wrote) BY <1>1, <1>5, SaveIsGood
<1>6. CASE UNCHANGED fileVars BY <1>6, FileUnchanged DEF fileVars
<1> QED BY <1>3, <1>4, <1>5, <1>6

LEMMA FileAccountGood ==
    ASSUME StoresInv, NEW id, NEW a, "provider" \in DOMAIN a, NEW wrote,
           FileUpsertProviderAccount(id, a, wrote) \/ FileDeleteProviderAccount(id, wrote)
    PROVE  FileGood
<1> DEFINE row == NormalizeProviderAccount(a)
           put == [db EXCEPT !.accounts = Put(@, id, row)]
           drop == [db EXCEPT !.accounts = Drop(@, {id})]
<1>1. Keeps(db, drop) BY KeepsDropAccounts DEF StoresInv
<1>2. Keeps(db, put)
  <2>1. "provider" \in DOMAIN row BY NormalizedAccount
  <2> HIDE DEF row
  <2> QED BY <2>1, KeepsPutAccount DEF StoresInv
<1> HIDE DEF put, drop
<1>3. Save(put, wrote) \/ Save(drop, wrote) \/ UNCHANGED fileVars
      BY DEF FileUpsertProviderAccount, FileDeleteProviderAccount, put, drop
<1>4. CASE Save(put, wrote) BY <1>2, <1>4, SaveIsGood
<1>5. CASE Save(drop, wrote) BY <1>1, <1>5, SaveIsGood
<1>6. CASE UNCHANGED fileVars BY <1>6, FileUnchanged DEF fileVars
<1> QED BY <1>3, <1>4, <1>5, <1>6

LEMMA OutcomeKeepsProvider ==
    ASSUME NEW a, "provider" \in DOMAIN a, NEW success, NEW until
    PROVE  /\ "provider" \in DOMAIN AfterOutcome(a, success, until)
           /\ AfterOutcome(a, success, until).provider = a.provider
BY DEF AfterOutcome

LEMMA FileOutcomeGood ==
    ASSUME StoresInv, NEW id, NEW success, NEW until, NEW wrote,
           FileRecordOutcome(id, success, until, wrote)
    PROVE  FileGood
<1> DEFINE row == AfterOutcome(db.accounts[id], success, until)
           new == [db EXCEPT !.accounts[id] = row]
<1>1. CASE id \in DOMAIN db.accounts
  <2>1. "provider" \in DOMAIN row /\ row.provider = db.accounts[id].provider
        BY <1>1, OutcomeKeepsProvider DEF StoresInv, Shaped
  <2> HIDE DEF row
  <2>2. Keeps(db, new) BY <1>1, <2>1, KeepsOutcome DEF StoresInv
  <2>3. Save(new, wrote) BY <1>1 DEF FileRecordOutcome, row
  <2> QED BY <2>2, <2>3, SaveIsGood
<1>2. CASE id \notin DOMAIN db.accounts
      BY <1>2, FileUnchanged DEF FileRecordOutcome, fileVars
<1> QED BY <1>1, <1>2

LEMMA FileProxyGood ==
    ASSUME StoresInv, NEW id, NEW x, NEW wrote,
           FileUpsertProxy(id, x, wrote) \/ FileDeleteProxy(id, wrote)
    PROVE  FileGood
<1> DEFINE put == [db EXCEPT !.proxies = Put(@, id, x)]
           drop == [db EXCEPT !.proxies = Drop(@, {id})]
<1>1. Keeps(db, put) /\ Keeps(db, drop) BY KeepsProxies DEF StoresInv
<1> HIDE DEF put, drop
<1>2. Save(put, wrote) \/ Save(drop, wrote) \/ UNCHANGED fileVars
      BY DEF FileUpsertProxy, FileDeleteProxy, put, drop
<1>3. CASE Save(put, wrote) BY <1>1, <1>3, SaveIsGood
<1>4. CASE Save(drop, wrote) BY <1>1, <1>4, SaveIsGood
<1>5. CASE UNCHANGED fileVars BY <1>5, FileUnchanged DEF fileVars
<1> QED BY <1>2, <1>3, <1>4, <1>5

LEMMA FileInvoiceGood ==
    ASSUME StoresInv, NEW id, NEW v, NEW wrote,
           FileUpsertInvoice(id, v, wrote) \/ FileDeleteInvoice(id, wrote)
    PROVE  FileGood
<1> DEFINE row == NormalizeInvoice(v)
           put == [db EXCEPT !.invoices = Put(@, id, row)]
           drop == [db EXCEPT !.invoices = Drop(@, {id})]
<1>1. Keeps(db, drop) BY KeepsInvoices DEF StoresInv
<1>2. Keeps(db, put)
  <2> HIDE DEF row
  <2> QED BY KeepsInvoices DEF StoresInv
<1> HIDE DEF put, drop
<1>3. Save(put, wrote) \/ Save(drop, wrote) \/ UNCHANGED fileVars
      BY DEF FileUpsertInvoice, FileDeleteInvoice, put, drop
<1>4. CASE Save(put, wrote) BY <1>2, <1>4, SaveIsGood
<1>5. CASE Save(drop, wrote) BY <1>1, <1>5, SaveIsGood
<1>6. CASE UNCHANGED fileVars BY <1>6, FileUnchanged DEF fileVars
<1> QED BY <1>3, <1>4, <1>5, <1>6

LEMMA FileLogsGood ==
    ASSUME StoresInv, NEW log, NEW removed, NEW debugWrote, NEW wrote,
           FileAddRequestLog(log, debugWrote, wrote) \/ FileDeleteDebugPayloads(removed, wrote)
    PROVE  FileGood
<1>1. (\E new : SaveLogs(new, wrote)) \/ UNCHANGED <<db, mainFile, unsaved>>
      BY DEF FileAddRequestLog, FileDeleteDebugPayloads, fileVars
<1> QED BY <1>1, LogsAreElsewhere, FileUnchanged

\* No account outlives a reset, and none has a provider before it has a row.
LEMMA FileResetGood ==
    ASSUME StoresInv, NEW failed, FileReset(failed) PROVE FileGood
<1>1. CASE failed = "debug" BY <1>1, FileUnchanged DEF FileReset, fileVars
<1>2. CASE failed # "debug"
  <2>1. /\ Tables \subseteq DOMAIN db' /\ DOMAIN db'.accounts = {}
        /\ mainFile' = IF failed = "main" THEN mainFile ELSE db'
        /\ failed = "main" => "main" \in unsaved'
        BY <1>2 DEF FileReset, Tables, Empty
  <2> QED BY <2>1 DEF FileGood, Keeps, Shaped, ProvidersStay, StoresInv
<1> QED BY <1>1, <1>2

\* A start reads back what the main file holds: rows are normalised, accounts
\* without a provider dropped, and seeds come only to an empty store.
LEMMA FileLoadShaped ==
    ASSUME StoresInv, FileLoad
    PROVE  /\ Shaped(db') /\ mainFile' = db'
           /\ unsaved = {} => Keeps(db, db')
<1>1. /\ Tables \subseteq DOMAIN db'
      /\ db'.accounts = [a \in {b \in DOMAIN mainFile.accounts : mainFile.accounts[b].provider # ""} |->
                           NormalizeProviderAccount(mainFile.accounts[a])]
      /\ DOMAIN mainFile.providers \subseteq DOMAIN db'.providers
  <2> DEFINE settings == NormalizeSettings(mainFile.settings)
             rows == IF DOMAIN mainFile.providers = {} THEN SeedProviders ELSE mainFile.providers
             providers == [p \in DOMAIN rows |-> NormalizeProvider(rows[p])]
             accounts == [a \in {b \in DOMAIN mainFile.accounts : mainFile.accounts[b].provider # ""} |->
                           NormalizeProviderAccount(mainFile.accounts[a])]
             invoices == [v \in DOMAIN mainFile.invoices |-> NormalizeInvoice(mainFile.invoices[v])]
  <2>1. db' = [mainFile EXCEPT !.settings = settings, !.providers = providers,
                               !.accounts = accounts, !.invoices = invoices]
        BY DEF FileLoad
  <2>2. DOMAIN mainFile.providers \subseteq DOMAIN providers OBVIOUS
  <2> HIDE DEF settings, rows, providers, accounts, invoices
  <2>3. db'.accounts = accounts /\ db'.providers = providers /\ Tables \subseteq DOMAIN db'
        BY <2>1 DEF StoresInv, Shaped, Tables
  <2> QED BY <2>2, <2>3 DEF accounts
<1>2. \A a \in DOMAIN db'.accounts :
          /\ a \in DOMAIN mainFile.accounts
          /\ "provider" \in DOMAIN db'.accounts[a]
          /\ db'.accounts[a].provider = mainFile.accounts[a].provider
  <2> TAKE a \in DOMAIN db'.accounts
  <2>1. a \in DOMAIN mainFile.accounts /\ db'.accounts[a] = NormalizeProviderAccount(mainFile.accounts[a])
        BY <1>1
  <2>2. "provider" \in DOMAIN mainFile.accounts[a] BY <2>1 DEF StoresInv, Shaped
  <2> QED BY <2>1, <2>2, NormalizedAccount
<1>3. Shaped(db') BY <1>1, <1>2 DEF Shaped
<1>4. mainFile' = db' BY DEF FileLoad
<1>5. ASSUME unsaved = {} PROVE Keeps(db, db')
  <2>1. mainFile = db BY <1>5 DEF StoresInv
  <2> QED BY <1>1, <1>2, <1>3, <2>1 DEF Keeps, ProvidersStay
<1> QED BY <1>3, <1>4, <1>5

(***************************************************************************)
(* SQLite: a statement changes one table or, failing, none; a provider     *)
(* goes after its accounts.                                                *)
(***************************************************************************)
SqlGood == Keeps(tables, tables')

LEMMA SqlUnchanged == ASSUME StoresInv, UNCHANGED tables PROVE SqlGood
BY KeepsItself DEF StoresInv, SqlGood

LEMMA ExecIsGood ==
    ASSUME StoresInv, NEW new, Keeps(tables, new), NEW failed, Exec(new, failed)
    PROVE  SqlGood
<1>1. Keeps(tables, tables) BY KeepsItself DEF StoresInv
<1> QED BY <1>1 DEF SqlGood, Exec

LEMMA SqlSettingsGood ==
    ASSUME StoresInv, NEW s, NEW id, NEW n, NEW failed,
           SqlSaveSettings(s, failed) \/ SqlRecordAPIKeyUsage(id, n, failed)
    PROVE  SqlGood
<1>1. CASE SqlSaveSettings(s, failed)
  <2>1. (\E settings : tables' = [tables EXCEPT !.settings = settings]) \/ UNCHANGED tables
        BY <1>1 DEF SqlSaveSettings, sqlVars
  <2>2. CASE UNCHANGED tables BY <2>2, SqlUnchanged
  <2>3. ASSUME NEW settings, tables' = [tables EXCEPT !.settings = settings] PROVE SqlGood
        BY <2>3, KeepsSettings DEF StoresInv, SqlGood
  <2> QED BY <2>1, <2>2, <2>3
<1>2. CASE SqlRecordAPIKeyUsage(id, n, failed)
  <2>1. (\E settings : Exec([tables EXCEPT !.settings = settings], failed)) \/ UNCHANGED tables
        BY <1>2 DEF SqlRecordAPIKeyUsage, sqlVars
  <2>2. CASE UNCHANGED tables BY <2>2, SqlUnchanged
  <2>3. ASSUME NEW settings, Exec([tables EXCEPT !.settings = settings], failed) PROVE SqlGood
        BY <2>3, KeepsSettings, ExecIsGood DEF StoresInv
  <2> QED BY <2>1, <2>2, <2>3
<1> QED BY <1>1, <1>2

LEMMA SqlUpsertProviderGood ==
    ASSUME StoresInv, NEW id, NEW p, NEW failed, SqlUpsertProvider(id, p, failed) PROVE SqlGood
<1>1. \E row : Exec([tables EXCEPT !.providers = Put(@, id, row)], failed)
      BY DEF SqlUpsertProvider
<1> QED BY <1>1, KeepsPutProvider, ExecIsGood DEF StoresInv

\* Accounts first: a failure of the second statement leaves a provider
\* without accounts, never accounts without a provider.
LEMMA SqlDeleteProviderGood ==
    ASSUME StoresInv, NEW id, NEW failed, SqlDeleteProvider(id, failed) PROVE SqlGood
<1> DEFINE gone == AccountsOf(tables.accounts, id)
           half == [tables EXCEPT !.accounts = Drop(@, gone)]
           full == [tables EXCEPT !.accounts = Drop(@, gone), !.providers = Drop(@, {id})]
<1>1. tables' \in {tables, half, full}
      BY DEF SqlDeleteProvider, AccountsOf
<1>2. Keeps(tables, half) BY KeepsDropAccounts DEF StoresInv
<1>3. full = [tables EXCEPT !.providers = Drop(@, {id}), !.accounts = Drop(@, AccountsOf(@, id))]
      BY DEF StoresInv, Shaped, Tables
<1>4. Keeps(tables, full) BY <1>3, KeepsDropProvider DEF StoresInv
<1>5. Keeps(tables, tables) BY KeepsItself DEF StoresInv
<1> HIDE DEF half, full
<1> QED BY <1>1, <1>2, <1>4, <1>5 DEF SqlGood

LEMMA SqlAccountGood ==
    ASSUME StoresInv, NEW id, NEW a, "provider" \in DOMAIN a, NEW failed,
           \/ SqlUpsertProviderAccount(id, a, failed)
           \/ SqlDeleteProviderAccount(id, failed)
    PROVE  SqlGood
<1>2. CASE SqlUpsertProviderAccount(id, a, failed)
  <2> DEFINE row == NormalizeProviderAccount(a)
  <2>1. "provider" \in DOMAIN row BY NormalizedAccount
  <2>2. Exec([tables EXCEPT !.accounts = Put(@, id, row)], failed)
        BY <1>2 DEF SqlUpsertProviderAccount
  <2> HIDE DEF row
  <2> QED BY <2>1, <2>2, KeepsPutAccount, ExecIsGood DEF StoresInv
<1>3. CASE SqlDeleteProviderAccount(id, failed)
  <2>1. Exec([tables EXCEPT !.accounts = Drop(@, {id})], failed)
        BY <1>3 DEF SqlDeleteProviderAccount
  <2> QED BY <2>1, KeepsDropAccounts, ExecIsGood DEF StoresInv
<1> QED BY <1>2, <1>3

LEMMA SqlOutcomeGood ==
    ASSUME StoresInv, NEW id, NEW success, NEW until, NEW failed,
           SqlRecordOutcome(id, success, until, failed)
    PROVE  SqlGood
<1>1. CASE id \notin DOMAIN tables.accounts
      BY <1>1, SqlUnchanged DEF SqlRecordOutcome, sqlVars
<1>2. CASE id \in DOMAIN tables.accounts
  <2> DEFINE a == tables.accounts[id]
             row == [a EXCEPT !.streak = IF success THEN 0 ELSE a.streak + 1,
                              !.cooldown = IF success THEN 0 ELSE until]
  <2>1. "provider" \in DOMAIN row /\ row.provider = a.provider
        BY <1>2 DEF StoresInv, Shaped
  <2>2. Exec([tables EXCEPT !.accounts[id] = row], failed)
        BY <1>2 DEF SqlRecordOutcome
  <2> HIDE DEF row
  <2>3. Keeps(tables, [tables EXCEPT !.accounts[id] = row])
        BY <1>2, <2>1, KeepsOutcome DEF StoresInv
  <2> QED BY <2>2, <2>3, ExecIsGood
<1> QED BY <1>1, <1>2

LEMMA SqlOthersGood ==
    ASSUME StoresInv, NEW id, NEW x, NEW failed,
           \/ SqlUpsertProxy(id, x, failed) \/ SqlDeleteProxy(id, failed)
           \/ SqlUpsertInvoice(id, x) \/ SqlDeleteInvoice(id, failed)
    PROVE  SqlGood
<1>1. \/ \E rows : Exec([tables EXCEPT !.proxies = rows], failed)
      \/ \E rows : Exec([tables EXCEPT !.invoices = rows], failed)
      \/ UNCHANGED tables
      BY DEF SqlUpsertProxy, SqlDeleteProxy, SqlUpsertInvoice, SqlDeleteInvoice, sqlVars
<1> QED BY <1>1, KeepsProxies, KeepsInvoices, ExecIsGood, SqlUnchanged DEF StoresInv

LEMMA SqlLogsGood ==
    ASSUME StoresInv, NEW log, NEW failed,
           \/ SqlAddRequestLog(log, failed) \/ SqlRecentLogs(failed)
           \/ SqlDeleteDebugPayloads(failed)
    PROVE  SqlGood
<1>1. UNCHANGED tables
      BY DEF SqlAddRequestLog, SqlRecentLogs, SqlDeleteDebugPayloads
<1> QED BY <1>1, SqlUnchanged

\* A start adds the seeds only where there are no providers at all.
LEMMA SqlOpenGood == ASSUME StoresInv, SqlOpen PROVE SqlGood
<1>1. \E settings, providers :
          /\ tables' = [tables EXCEPT !.settings = settings, !.providers = providers]
          /\ DOMAIN tables.providers \subseteq DOMAIN providers
      BY DEF SqlOpen
<1>2. PICK settings, providers :
          /\ tables' = [tables EXCEPT !.settings = settings, !.providers = providers]
          /\ DOMAIN tables.providers \subseteq DOMAIN providers
      BY <1>1
<1> QED BY <1>2 DEF SqlGood, Keeps, ProvidersStay, Shaped, Tables, StoresInv

\* The reset of SQLite does leave orphans, but the tables stay.
LEMMA SqlResetShaped ==
    ASSUME StoresInv, NEW failed, NEW seeded, SqlReset(failed, seeded) PROVE Shaped(tables')
<1> DEFINE settings == IF failed = "settings" THEN Empty ELSE DefaultRow
           providers == CASE failed = "settings" -> Empty
                          [] failed = "seed"     -> Seeds(FirstSeeds(seeded))
                          [] OTHER               -> Seeds(DOMAIN SeedProviders)
           empty == Empty
<1>1. \/ UNCHANGED tables
      \/ tables' = [tables EXCEPT !.settings = settings, !.providers = providers,
                                  !.proxies = empty, !.invoices = empty]
      BY DEF SqlReset, sqlVars
<1> HIDE DEF settings, providers, empty
<1> QED BY <1>1 DEF Shaped, Tables, StoresInv

(***************************************************************************)
(* The two of them, call by call.                                          *)
(***************************************************************************)
FileStays == unsaved = {} \/ calls'["restart"] = calls["restart"] => Keeps(db, db')
SqlStays == calls'["reset"] = calls["reset"] => Keeps(tables, tables')

StepGood ==
    /\ Shaped(db') /\ Shaped(mainFile') /\ Shaped(tables')
    /\ "main" \notin unsaved' => mainFile' = db'
    /\ calls' \in [Kinds -> Nat]
    /\ FileStays /\ SqlStays

LEMMA CallCounts ==
    ASSUME StoresInv, NEW kind \in Kinds, NEW failed, NEW differs, Call(kind, failed, differs)
    PROVE  calls' \in [Kinds -> Nat] /\ calls'[kind] # calls[kind]
<1>1. calls' = [calls EXCEPT ![kind] = @ + 1] BY DEF Call
<1> QED BY <1>1 DEF StoresInv

LEMMA BothGood ==
    ASSUME StoresInv, FileGood, SqlGood, calls' \in [Kinds -> Nat] PROVE StepGood
BY DEF FileGood, SqlGood, Keeps, StepGood, FileStays, SqlStays

LEMMA CallIsGood ==
    ASSUME StoresInv, FileGood, SqlGood, NEW kind \in Kinds, NEW failed, NEW differs,
           Call(kind, failed, differs)
    PROVE  StepGood
BY CallCounts, BothGood

LEMMA NextIsGood == ASSUME StoresInv, [Next]_vars PROVE StepGood
<1>1. CASE SaveSettings
  <2> PICK s \in SettingsInputs, failed \in Write \cup {"read"} :
        /\ Call("settings", failed, Unnamed(s))
        /\ FileSaveSettings(s, Wrote(failed)) /\ SqlSaveSettings(s, failed)
        BY <1>1 DEF SaveSettings
  <2> QED BY FileSettingsGood, SqlSettingsGood, CallIsGood DEF Kinds
<1>2. CASE RecordAPIKeyUsage
  <2> PICK id \in UsageKeys, failed \in Write :
        /\ Call("settings", failed, FALSE)
        /\ FileRecordAPIKeyUsage(id, 1, Wrote(failed))
        /\ SqlRecordAPIKeyUsage(id, 1, IF failed = "write" THEN failed ELSE "none")
        BY <1>2 DEF RecordAPIKeyUsage
  <2> QED BY FileUsageGood, SqlSettingsGood, CallIsGood DEF Kinds
<1>3. CASE UpsertProvider
  <2> PICK in \in ProviderInputs, failed \in Write :
        /\ Call("row", failed, ~KeysNamed(in[2]))
        /\ FileUpsertProvider(in[1], in[2], Wrote(failed))
        /\ SqlUpsertProvider(in[1], in[2], Stmt(failed))
        BY <1>3 DEF UpsertProvider
  <2> QED BY FileProviderGood, SqlUpsertProviderGood, CallIsGood DEF Kinds
<1>4. CASE DeleteProvider
  <2> PICK id \in DOMAIN db.providers, failed \in {"none", "file", "accounts", "providers"} :
        /\ Call("row", failed, FALSE)
        /\ FileDeleteProvider(id, Wrote(failed)) /\ SqlDeleteProvider(id, Stmt(failed))
        BY <1>4 DEF DeleteProvider
  <2> QED BY FileProviderGood, SqlDeleteProviderGood, CallIsGood DEF Kinds
<1>5. CASE UpsertProviderAccount
  <2> PICK in \in AccountInputs, failed \in Write :
        /\ Call("row", failed, FALSE)
        /\ FileUpsertProviderAccount(in[1], in[2], Wrote(failed))
        /\ SqlUpsertProviderAccount(in[1], in[2], Stmt(failed))
        BY <1>5 DEF UpsertProviderAccount
  <2>1. "provider" \in DOMAIN in[2] BY InputsAssumption DEF ProviderAccounts
  <2> QED BY <2>1, FileAccountGood, SqlAccountGood, CallIsGood DEF Kinds
<1>6. CASE DeleteProviderAccount
  <2> PICK id \in DOMAIN db.accounts, failed \in Write :
        /\ Call("row", failed, FALSE)
        /\ FileDeleteProviderAccount(id, Wrote(failed))
        /\ SqlDeleteProviderAccount(id, Stmt(failed))
        BY <1>6 DEF DeleteProviderAccount
  <2>1. "provider" \in DOMAIN db.accounts[id] BY DEF StoresInv, Shaped
  <2> QED BY <2>1, FileAccountGood, SqlAccountGood, CallIsGood DEF Kinds
<1>7. CASE RecordProviderAccountOutcome
  <2> PICK id \in DOMAIN db.accounts, success \in BOOLEAN, until \in Cooldowns, failed \in Write :
        /\ Call("row", failed, FALSE)
        /\ FileRecordOutcome(id, success, until, Wrote(failed))
        /\ SqlRecordOutcome(id, success, until, Stmt(failed))
        BY <1>7 DEF RecordProviderAccountOutcome
  <2> QED BY FileOutcomeGood, SqlOutcomeGood, CallIsGood DEF Kinds
<1>8. CASE UpsertProxy
  <2> PICK in \in ProxyInputs, failed \in Write :
        /\ Call("row", failed, FALSE)
        /\ FileUpsertProxy(in[1], in[2], Wrote(failed))
        /\ SqlUpsertProxy(in[1], in[2], Stmt(failed))
        BY <1>8 DEF UpsertProxy
  <2> QED BY FileProxyGood, SqlOthersGood, CallIsGood DEF Kinds
<1>9. CASE DeleteProxy
  <2> PICK id \in DOMAIN db.proxies, failed \in Write :
        /\ Call("row", failed, FALSE)
        /\ FileDeleteProxy(id, Wrote(failed)) /\ SqlDeleteProxy(id, Stmt(failed))
        BY <1>9 DEF DeleteProxy
  <2> QED BY FileProxyGood, SqlOthersGood, CallIsGood DEF Kinds
<1>10. CASE UpsertInvoice
  <2> PICK in \in InvoiceInputs, failed \in {"none", "file"} :
        /\ Call("invoice", failed, FALSE)
        /\ FileUpsertInvoice(in[1], in[2], Wrote(failed)) /\ SqlUpsertInvoice(in[1], in[2])
        BY <1>10 DEF UpsertInvoice
  <2> QED BY FileInvoiceGood, SqlOthersGood, CallIsGood DEF Kinds
<1>11. CASE DeleteInvoice
  <2> PICK id \in DOMAIN db.invoices, failed \in Write :
        /\ Call("invoice", failed, FALSE)
        /\ FileDeleteInvoice(id, Wrote(failed)) /\ SqlDeleteInvoice(id, Stmt(failed))
        BY <1>11 DEF DeleteInvoice
  <2> QED BY FileInvoiceGood, SqlOthersGood, CallIsGood DEF Kinds
<1>12. CASE AddRequestLog
  <2> PICK raw \in BOOLEAN, failed \in {"none", "file", "debug", "payload", "log", "trim", "sweep"} :
        LET log == [time |-> clock + 1, raw |-> raw] IN
        /\ Call("log", failed, FALSE)
        /\ FileAddRequestLog(log, failed # "debug", Wrote(failed))
        /\ SqlAddRequestLog(log, IF failed = "debug" THEN "none" ELSE Stmt(failed))
        BY <1>12 DEF AddRequestLog
  <2>1. FileGood BY FileLogsGood
  <2>2. SqlGood BY SqlLogsGood
  <2> QED BY <2>1, <2>2, CallIsGood DEF Kinds
<1>13. CASE RecentRequestLogs
  <2> PICK failed \in {"none", "trim", "sweep"} :
        /\ Call("debug", failed, FALSE)
        /\ SqlRecentLogs(failed)
        /\ UNCHANGED <<fileVars, clock>>
        BY <1>13 DEF RecentRequestLogs
  <2>1. FileGood BY FileUnchanged DEF fileVars
  <2> QED BY <2>1, SqlLogsGood, CallIsGood DEF Kinds
<1>14. CASE DeleteRequestDebugPayloads
  <2> PICK failed \in {"none", "file", "payload", "log"}, removed \in SUBSET debugFiles :
        /\ Call("debug", failed, FALSE)
        /\ FileDeleteDebugPayloads(removed, Wrote(failed))
        /\ SqlDeleteDebugPayloads(Stmt(failed))
        BY <1>14 DEF DeleteRequestDebugPayloads
  <2> QED BY FileLogsGood, SqlLogsGood, CallIsGood DEF Kinds
<1>15. CASE ResetAllData
  <2> PICK failed, seeded :
        /\ Call("reset", failed, DOMAIN tables.accounts # {})
        /\ FileReset(failed)
        /\ SqlReset(IF failed \in {"debug", "main", "logs"} THEN "none" ELSE failed, seeded)
        BY <1>15 DEF ResetAllData
  <2>1. FileGood BY FileResetGood
  <2>2. Shaped(tables') BY SqlResetShaped
  <2>3. calls' \in [Kinds -> Nat] /\ calls'["reset"] # calls["reset"] BY CallCounts DEF Kinds
  <2> QED BY <2>1, <2>2, <2>3 DEF FileGood, Keeps, StepGood, FileStays, SqlStays
<1>16. CASE Restart
  <2> USE <1>16 DEF Restart
  <2>1. Shaped(db') /\ mainFile' = db' /\ (unsaved = {} => Keeps(db, db')) BY FileLoadShaped
  <2>2. SqlGood BY SqlOpenGood
  <2>3. calls' \in [Kinds -> Nat] /\ calls'["restart"] # calls["restart"] BY CallCounts DEF Kinds
  <2> QED BY <2>1, <2>2, <2>3 DEF SqlGood, Keeps, StepGood, FileStays, SqlStays
<1>17. CASE UNCHANGED vars
  <2>1. FileGood BY <1>17, FileUnchanged DEF vars, fileVars
  <2>2. SqlGood BY <1>17, SqlUnchanged DEF vars, sqlVars
  <2>3. calls' \in [Kinds -> Nat] BY <1>17 DEF vars, StoresInv
  <2> QED BY <2>1, <2>2, <2>3, BothGood
<1> QED BY <1>1, <1>2, <1>3, <1>4, <1>5, <1>6, <1>7, <1>8, <1>9, <1>10, <1>11, <1>12, <1>13,
           <1>14, <1>15, <1>16, <1>17 DEF Next

LEMMA InitHasShape == Init => StoresInv
<1> SUFFICES ASSUME Init PROVE StoresInv OBVIOUS
<1>1. Tables \subseteq DOMAIN db /\ DOMAIN db.accounts = {} /\ mainFile = db
      BY DEF Init, FileInit, Tables, Empty
<1>2. Tables \subseteq DOMAIN tables /\ DOMAIN tables.accounts = {}
      BY DEF Init, SqlInit, Empty, Tables
<1>3. calls \in [Kinds -> Nat] BY DEF Init
<1> QED BY <1>1, <1>2, <1>3 DEF StoresInv, Shaped

\* A stored account keeps its provider through every call of either store,
\* whatever is written and whichever statement fails; excepted are the reset of
\* SQLite and a file store that restarts without what it failed to write.
THEOREM AccountsKeepTheirProvider == Spec => NoNewOrphans
<1>1. StoresInv /\ [Next]_vars => StoresInv'
      BY NextIsGood DEF StepGood, StoresInv, Shaped
<1>2. StoresInv /\ [Next]_vars =>
        [/\ unsaved = {} \/ calls'["restart"] = calls["restart"] =>
              ProvidersStay(db.providers, db.accounts, db'.providers, db'.accounts)
         /\ calls'["reset"] = calls["reset"] =>
              ProvidersStay(tables.providers, tables.accounts, tables'.providers, tables'.accounts)]_vars
      BY NextIsGood DEF StepGood, FileStays, SqlStays, Keeps
<1> QED BY <1>1, <1>2, InitHasShape, PTL DEF Spec, NoNewOrphans

(***************************************************************************)
(* Logs.  What the retention needs: both stores know how many to keep, the *)
(* logs in memory come newest first, and no two have the same time.        *)
(***************************************************************************)
Log == [time : Nat, raw : BOOLEAN]
HasKeep(s) == "keep" \in DOMAIN s /\ s.keep \in Int

Ordered(s, last) ==
    /\ s \in Seq(Log)
    /\ \A i \in 1..Len(s) : s[i].time <= last
    /\ \A i, j \in 1..Len(s) : i < j => s[i].time > s[j].time

Distinct(records, last) ==
    /\ records \in SUBSET Log /\ IsFiniteSet(records)
    /\ \A l \in records : l.time <= last
    /\ \A l, k \in records : l.time = k.time => l = k

FileKeeps == HasKeep(db.settings) /\ HasKeep(mainFile.settings)
SqlKeeps == keepLogs \in Int /\ (1 \in DOMAIN tables.settings => HasKeep(tables.settings[1]))

FileLogsInv ==
    /\ FileKeeps
    /\ Ordered(logs, clock) /\ Ordered(logFile, clock)
    /\ "logs" \notin unsaved => logFile = logs

SqlLogsInv == SqlKeeps /\ sinceGC \in Nat /\ Distinct(sqlLogs, clock)

\* With no failed write, files hold what memory holds.
FilePayloads ==
    /\ unsaved = {}
    /\ \A i \in 1..Len(logs) : logs[i].raw => logs[i].time \in debugFiles

SqlPayloads ==
    /\ \A l \in sqlLogs : l.raw => l.time \in payloads
    /\ payloads \subseteq Times(sqlLogs)

LogsInv ==
    /\ clock \in Nat /\ faults \in Nat
    /\ FileLogsInv /\ SqlLogsInv
    /\ faults = 0 => FilePayloads /\ SqlPayloads

(***************************************************************************)
(* Retention: what is beyond the newest n has n newer ones that stay.      *)
(***************************************************************************)
LEMMA Smallest ==
    ASSUME NEW T \in SUBSET Nat, T # {} PROVE \E n \in T : \A m \in T : n <= m
<1>1. \E R : IsWellFoundedOn(R, Nat) /\ \A m, n \in Nat : m < n => <<m, n>> \in R
  <2> DEFINE R == OpToRel(<, Nat)
  <2>1. IsWellFoundedOn(R, Nat) BY NatLessThanWellFounded
  <2>2. \A m, n \in Nat : m < n => <<m, n>> \in R BY DEF OpToRel
  <2> HIDE DEF R
  <2> QED BY <2>1, <2>2
<1>2. PICK R : IsWellFoundedOn(R, Nat) /\ \A m, n \in Nat : m < n => <<m, n>> \in R
      BY <1>1
<1> HIDE DEF IsWellFoundedOn
<1>3. T \subseteq Nat /\ T # {} /\ IsWellFoundedOn(R, Nat) BY <1>2
<1>4. \E n \in T : \A m \in T : ~(<<m, n>> \in R) BY <1>3, WFMin, Zenon
<1>5. PICK n \in T : \A m \in T : ~(<<m, n>> \in R) BY <1>4
<1>6. ASSUME NEW m \in T PROVE n <= m
  <2>1. ~(m < n) BY <1>2, <1>5
  <2> QED BY <2>1
<1> QED BY <1>6

\* As many times as records, as no two of them share one.
LEMMA TimesCount ==
    ASSUME NEW S \in SUBSET Log, IsFiniteSet(S), \A l, k \in S : l.time = k.time => l = k
    PROVE  IsFiniteSet(Times(S)) /\ Cardinality(Times(S)) = Cardinality(S)
<1> DEFINE f == [l \in S |-> l.time]
<1>1. f \in Bijection(S, Times(S))
      BY DEF Bijection, Injection, IsInjective, Surjection, Times
<1>2. ExistsBijection(S, Times(S)) BY <1>1 DEF ExistsBijection
<1> QED BY <1>2, FS_Bijection

LEMMA NewestKeeps ==
    ASSUME NEW last, NEW S, Distinct(S, last), NEW n \in Nat,
           NEW t \in Times(S) \ Times(Newest(n, S))
    PROVE  Cardinality({u \in Times(Newest(n, S)) : u > t}) >= n
<1> DEFINE Count(l) == Cardinality(Newer(l, S))
           T == {c \in Nat : c >= n /\ \E l \in S : c = Count(l)}
<1>1. PICK old \in S : old.time = t BY DEF Times
<1>2. \A l \in S : IsFiniteSet(Newer(l, S)) /\ Count(l) \in Nat
      BY FS_Subset, FS_CardinalityType DEF Newer, Distinct
<1>3. old \notin Newest(n, S) BY <1>1 DEF Times
<1>4. Count(old) >= n BY <1>2, <1>3 DEF Newest
<1>5. T \in SUBSET Nat /\ T # {} BY <1>2, <1>4
<1>6. PICK c \in T : \A d \in T : c <= d BY <1>5, Smallest
<1>7. PICK first \in S : c = Count(first) /\ c >= n BY <1>6
<1>8. \A k \in S : k.time > first.time => Count(k) < Count(first)
  <2> SUFFICES ASSUME NEW k \in S, k.time > first.time PROVE Count(k) < Count(first)
      OBVIOUS
  <2>1. Newer(k, S) \cup {k} \subseteq Newer(first, S)
        BY DEF Newer, Distinct, Log
  <2>2. k \notin Newer(k, S) BY DEF Newer, Distinct, Log
  <2>3. Cardinality(Newer(k, S) \cup {k}) = Count(k) + 1 BY <1>2, <2>2, FS_AddElement
  <2>4. Cardinality(Newer(k, S) \cup {k}) <= Count(first) BY <1>2, <2>1, FS_Subset
  <2> QED BY <1>2, <2>3, <2>4
<1>9. \A k \in S : k.time > first.time => k \in Newest(n, S)
  <2> SUFFICES ASSUME NEW k \in S, k.time > first.time PROVE Count(k) < n
      BY DEF Newest
  <2>1. Count(k) < c BY <1>7, <1>8
  <2>2. Count(k) \notin T BY <1>2, <1>6, <1>7, <2>1
  <2> QED BY <1>2, <2>2
<1>10. first.time >= t
  <2> SUFFICES ASSUME old.time > first.time PROVE FALSE BY <1>1 DEF Distinct, Log
  <2> QED BY <1>3, <1>9
<1> DEFINE U == {u \in Times(Newest(n, S)) : u > t}
<1>11. Times(Newer(first, S)) \subseteq U
  <2> SUFFICES ASSUME NEW k \in Newer(first, S) PROVE k.time \in U BY DEF Times
  <2>1. k \in S /\ k.time > first.time BY DEF Newer
  <2>2. k.time > t BY <1>1, <1>10, <2>1 DEF Distinct, Log
  <2> QED BY <1>9, <2>1, <2>2 DEF Times
<1>12. IsFiniteSet(U)
  <2>1. Newest(n, S) \in SUBSET Log /\ IsFiniteSet(Newest(n, S))
        BY FS_Subset DEF Newest, Distinct
  <2>2. \A l, k \in Newest(n, S) : l.time = k.time => l = k BY DEF Newest, Distinct
  <2>3. IsFiniteSet(Times(Newest(n, S))) BY <2>1, <2>2, TimesCount
  <2> QED BY <2>3, FS_Subset
<1>13. Cardinality(Times(Newer(first, S))) = Count(first)
  <2>1. Newer(first, S) \in SUBSET Log BY DEF Newer, Distinct
  <2>2. \A l, k \in Newer(first, S) : l.time = k.time => l = k BY DEF Newer, Distinct
  <2> QED BY <1>2, <2>1, <2>2, TimesCount
<1>14. Cardinality(Times(Newer(first, S))) <= Cardinality(U) BY <1>11, <1>12, FS_Subset
<1>15. Cardinality(U) \in Nat BY <1>12, FS_CardinalityType
<1> QED BY <1>2, <1>7, <1>13, <1>14, <1>15

LEMMA PrefixKeeps ==
    ASSUME NEW last, NEW s, Ordered(s, last), NEW n \in Nat, n >= 1, n < Len(s),
           NEW i \in (n + 1)..Len(s)
    PROVE  Cardinality({u \in FileTimes(SubSeq(s, 1, n)) : u > s[i].time}) >= n
<1> DEFINE p == SubSeq(s, 1, n)
           U == {u \in FileTimes(p) : u > s[i].time}
           f == [j \in 1..n |-> s[j].time]
<1>1. Len(s) \in Nat /\ \A j \in 1..Len(s) : s[j] \in Log
      BY ElementOfSeq, LenProperties DEF Ordered
<1>2. Len(p) = n /\ \A j \in 1..n : p[j] = s[j]
  <2>1. \A j \in 1..n : s[j] \in Log BY <1>1
  <2> QED BY <2>1, SubSeqProperties
<1> HIDE DEF p
<1>3. f \in Bijection(1..n, FileTimes(p))
  <2>1. ASSUME NEW j \in 1..n, NEW k \in 1..n, s[j].time = s[k].time PROVE j = k
    <3>1. j \in 1..Len(s) /\ k \in 1..Len(s) BY <1>1
    <3>2. s[j].time \in Nat /\ s[k].time \in Nat BY <1>1, <3>1 DEF Log
    <3>3. (j < k => s[j].time > s[k].time) /\ (k < j => s[k].time > s[j].time)
          BY <3>1 DEF Ordered
    <3> QED BY <2>1, <3>2, <3>3
  <2>2. f \in [1..n -> FileTimes(p)] BY <1>2 DEF FileTimes
  <2>3. \A t \in FileTimes(p) : \E j \in 1..n : f[j] = t BY <1>2 DEF FileTimes
  <2> QED BY <2>1, <2>2, <2>3 DEF Bijection, Injection, IsInjective, Surjection
<1>4. U = FileTimes(p)
  <2> SUFFICES ASSUME NEW j \in 1..n PROVE s[j].time > s[i].time BY <1>2 DEF FileTimes
  <2> QED BY <1>1 DEF Ordered
<1>5. IsFiniteSet(1..n) /\ Cardinality(1..n) = n BY FS_Interval
<1>6. ExistsBijection(1..n, FileTimes(p)) BY <1>3 DEF ExistsBijection
<1>7. Cardinality(FileTimes(p)) = n BY <1>5, <1>6, FS_Bijection
<1>8. Cardinality(U) >= n
  <2> HIDE DEF U
  <2> QED BY <1>4, <1>7
<1> QED BY <1>8 DEF p

(***************************************************************************)
(* Logs, call by call: what a call leaves of each store, and of the logs   *)
(* it may trim.                                                            *)
(***************************************************************************)
\* The file's log part after a call, in which every write succeeded if "clean".
FileTrims ==
    \A t \in FileTimes(logs) \ FileTimes(logs') :
       Cardinality({u \in FileTimes(logs') : u > t}) >= KeepLogs(db'.settings.keep)

FileStep(clean) ==
    /\ HasKeep(db'.settings) /\ HasKeep(mainFile'.settings)
    /\ Ordered(logs', clock') /\ Ordered(logFile', clock')
    /\ "logs" \notin unsaved' => logFile' = logs'
    /\ clean /\ FilePayloads => FilePayloads'

SqlTrims ==
    \A t \in Times(sqlLogs) \ Times(sqlLogs') :
       Cardinality({u \in Times(sqlLogs') : u > t}) >= KeepLogs(keepLogs')

SqlStep(clean) ==
    /\ keepLogs' \in Int
    /\ 1 \in DOMAIN tables'.settings => HasKeep(tables'.settings[1])
    /\ sinceGC' \in Nat /\ Distinct(sqlLogs', clock')
    /\ clean /\ SqlPayloads => SqlPayloads'

LEMMA OrderedLater ==
    ASSUME NEW c \in Nat, NEW d \in Nat, c <= d, NEW s, Ordered(s, c) PROVE Ordered(s, d)
<1>1. \A i \in 1..Len(s) : s[i] \in Log BY ElementOfSeq DEF Ordered
<1> QED BY <1>1 DEF Ordered, Log

LEMMA DistinctLater ==
    ASSUME NEW c \in Nat, NEW d \in Nat, c <= d, NEW S, Distinct(S, c) PROVE Distinct(S, d)
BY DEF Distinct, Log

(***************************************************************************)
(* Rows and settings: the logs of both stores stay.                        *)
(***************************************************************************)
LEMMA SaveLeavesLogs ==
    ASSUME LogsInv, UNCHANGED clock, NEW new, HasKeep(new.settings),
           NEW wrote \in BOOLEAN, Save(new, wrote)
    PROVE  FileStep(wrote) /\ FileTrims
<1> USE DEF LogsInv, FileLogsInv, FileKeeps, Save
<1>1. Ordered(logs', clock') /\ Ordered(logFile', clock') OBVIOUS
<1>2. "logs" \notin unsaved' => logFile' = logs' OBVIOUS
<1>3. wrote /\ FilePayloads => FilePayloads' BY DEF FilePayloads
<1>4. HasKeep(db'.settings) /\ HasKeep(mainFile'.settings) OBVIOUS
<1>5. FileTrims BY DEF FileTrims, FileTimes
<1> QED BY <1>1, <1>2, <1>3, <1>4, <1>5 DEF FileStep

LEMMA SameLogs ==
    ASSUME LogsInv, UNCHANGED clock, UNCHANGED fileVars, NEW clean \in BOOLEAN
    PROVE  FileStep(clean) /\ FileTrims
<1>1. UNCHANGED <<db, mainFile, logs, logFile, debugFiles, unsaved>> BY DEF fileVars
<1>2. FileTrims BY <1>1 DEF FileTrims, FileTimes
<1>3. FilePayloads => FilePayloads' BY <1>1 DEF FilePayloads
<1> QED BY <1>1, <1>2, <1>3 DEF FileStep, LogsInv, FileLogsInv, FileKeeps

LEMMA NormalSettingsKeep == ASSUME NEW s, HasKeep(s) PROVE HasKeep(NormalizeSettings(s))
<1> DEFINE k == KeepLogs(s.keep)
           a == NormalizeModelPriceRules(s.prices)
           b == NormalizeCombos(s.combos)
           c == NormalizePromptRouters(s.routers)
           d == NormalizeFusions(s.fusions)
           e == NormalizeGuardrails(s.guardrails)
           f == NormalizeBudgetSettings(s.budget)
           g == NormalizeDebugSettings(s.debug)
           h == NormalizeTokenOptimizationSettings(s.tokens)
           lists == NormalizeLists(s)
<1>1. lists = [s EXCEPT !.keep = k, !.prices = a, !.combos = b, !.routers = c, !.fusions = d,
                        !.guardrails = e, !.budget = f, !.debug = g, !.tokens = h]
      BY DEF NormalizeLists
<1>2. k \in Int BY DEF HasKeep, KeepLogs, OrElse
<1> HIDE DEF k, a, b, c, d, e, f, g, h, lists
<1>3. HasKeep(lists) BY <1>1, <1>2 DEF HasKeep
<1>4. \A keys : HasKeep([lists EXCEPT !.keys = keys]) BY <1>3 DEF HasKeep
<1>5. \E keys : NormalizeSettings(s) = [lists EXCEPT !.keys = keys]
      BY DEF NormalizeSettings, lists
<1> QED BY <1>4, <1>5

LEMMA DefaultsKeep == HasKeep(DefaultSettings) /\ DefaultSettings.keep = 1000
BY DEF HasKeep, DefaultSettings

LEMMA FileSettingsStep ==
    ASSUME StoresInv, LogsInv, UNCHANGED clock, NEW s, HasKeep(s), NEW id, NEW wrote \in BOOLEAN,
           FileSaveSettings(s, wrote) \/ FileRecordAPIKeyUsage(id, 1, wrote)
    PROVE  FileStep(wrote) /\ FileTrims
<1> DEFINE normal == NormalizeSettings(s)
           keys == PreserveAPIKeyUsage(normal.keys, db.settings.keys)
           used == AddUsage(db.settings.keys, id, 1)
           new == [db EXCEPT !.settings = [normal EXCEPT !.keys = keys]]
           new2 == [db EXCEPT !.settings.keys = used]
<1>1. HasKeep(normal) BY NormalSettingsKeep
<1>2. \/ Save(new, wrote) \/ Save(new2, wrote) \/ UNCHANGED fileVars
      BY DEF FileSaveSettings, FileRecordAPIKeyUsage
<1> HIDE DEF normal, keys, used
<1>3. "settings" \in DOMAIN db /\ HasKeep(db.settings)
      BY DEF StoresInv, Shaped, Tables, LogsInv, FileLogsInv, FileKeeps
<1>4. HasKeep(new.settings) BY <1>1, <1>3 DEF HasKeep
<1>5. HasKeep(new2.settings) BY <1>3 DEF HasKeep
<1> HIDE DEF new, new2
<1> QED BY <1>2, <1>4, <1>5, SaveLeavesLogs, SameLogs

LEMMA FileRowStep ==
    ASSUME StoresInv, LogsInv, UNCHANGED clock, NEW wrote \in BOOLEAN, NEW id, NEW row,
           NEW success, NEW until,
           \/ FileUpsertProvider(id, row, wrote) \/ FileDeleteProvider(id, wrote)
           \/ FileUpsertProviderAccount(id, row, wrote) \/ FileDeleteProviderAccount(id, wrote)
           \/ FileRecordOutcome(id, success, until, wrote)
           \/ FileUpsertProxy(id, row, wrote) \/ FileDeleteProxy(id, wrote)
           \/ FileUpsertInvoice(id, row, wrote) \/ FileDeleteInvoice(id, wrote)
    PROVE  FileStep(wrote) /\ FileTrims
<1>1. \/ UNCHANGED fileVars
      \/ \E new : new.settings = db.settings /\ Save(new, wrote)
  <2>1. "settings" \in DOMAIN db BY DEF StoresInv, Shaped, Tables
  <2>2. \/ UNCHANGED fileVars
        \/ \E ps : Save([db EXCEPT !.providers = ps], wrote)
        \/ \E ps, as : Save([db EXCEPT !.providers = ps, !.accounts = as], wrote)
        \/ \E as : Save([db EXCEPT !.accounts = as], wrote)
        \/ \E a : Save([db EXCEPT !.accounts[id] = a], wrote)
        \/ \E xs : Save([db EXCEPT !.proxies = xs], wrote)
        \/ \E vs : Save([db EXCEPT !.invoices = vs], wrote)
    <3>1. CASE FileUpsertProvider(id, row, wrote)
      <4> DEFINE ps == Put(db.providers, id, NormalizeProvider(row))
      <4>1. Save([db EXCEPT !.providers = ps], wrote) BY <3>1 DEF FileUpsertProvider
      <4> HIDE DEF ps
      <4> QED BY <4>1
    <3>2. CASE FileDeleteProvider(id, wrote)
      <4> DEFINE ps == Drop(db.providers, {id})
                 as == Drop(db.accounts, AccountsOf(db.accounts, id))
      <4>1. \/ Save([db EXCEPT !.providers = ps, !.accounts = as], wrote)
            \/ UNCHANGED fileVars
            BY <3>2 DEF FileDeleteProvider
      <4> HIDE DEF ps, as
      <4> QED BY <4>1
    <3>3. CASE FileUpsertProviderAccount(id, row, wrote)
      <4> DEFINE as == Put(db.accounts, id, NormalizeProviderAccount(row))
      <4>1. Save([db EXCEPT !.accounts = as], wrote) BY <3>3 DEF FileUpsertProviderAccount
      <4> HIDE DEF as
      <4> QED BY <4>1
    <3>4. CASE FileDeleteProviderAccount(id, wrote)
      <4> DEFINE as == Drop(db.accounts, {id})
      <4>1. Save([db EXCEPT !.accounts = as], wrote) \/ UNCHANGED fileVars
            BY <3>4 DEF FileDeleteProviderAccount
      <4> HIDE DEF as
      <4> QED BY <4>1
    <3>5. CASE FileRecordOutcome(id, success, until, wrote)
      <4> DEFINE a == AfterOutcome(db.accounts[id], success, until)
      <4>1. Save([db EXCEPT !.accounts[id] = a], wrote) \/ UNCHANGED fileVars
            BY <3>5 DEF FileRecordOutcome
      <4> HIDE DEF a
      <4> QED BY <4>1
    <3>6. CASE FileUpsertProxy(id, row, wrote) \/ FileDeleteProxy(id, wrote)
      <4> DEFINE put == Put(db.proxies, id, row)
                 drop == Drop(db.proxies, {id})
      <4>1. \/ Save([db EXCEPT !.proxies = put], wrote) \/ Save([db EXCEPT !.proxies = drop], wrote)
            \/ UNCHANGED fileVars
            BY <3>6 DEF FileUpsertProxy, FileDeleteProxy
      <4> HIDE DEF put, drop
      <4> QED BY <4>1
    <3>7. CASE FileUpsertInvoice(id, row, wrote) \/ FileDeleteInvoice(id, wrote)
      <4> DEFINE put == Put(db.invoices, id, NormalizeInvoice(row))
                 drop == Drop(db.invoices, {id})
      <4>1. \/ Save([db EXCEPT !.invoices = put], wrote) \/ Save([db EXCEPT !.invoices = drop], wrote)
            \/ UNCHANGED fileVars
            BY <3>7 DEF FileUpsertInvoice, FileDeleteInvoice
      <4> HIDE DEF put, drop
      <4> QED BY <4>1
    <3> QED BY <3>1, <3>2, <3>3, <3>4, <3>5, <3>6, <3>7
  <2>3. \A ps, as, a :
          /\ [db EXCEPT !.providers = ps].settings = db.settings
          /\ [db EXCEPT !.providers = ps, !.accounts = as].settings = db.settings
          /\ [db EXCEPT !.accounts = as].settings = db.settings
          /\ [db EXCEPT !.accounts[id] = a].settings = db.settings
          /\ [db EXCEPT !.proxies = as].settings = db.settings
          /\ [db EXCEPT !.invoices = as].settings = db.settings
        BY <2>1
  <2> QED BY <2>2, <2>3, Zenon
<1>2. ASSUME NEW new, new.settings = db.settings, Save(new, wrote) PROVE FileStep(wrote) /\ FileTrims
  <2>1. HasKeep(new.settings) BY <1>2 DEF LogsInv, FileLogsInv, FileKeeps
  <2> QED BY <1>2, <2>1, SaveLeavesLogs
<1> QED BY <1>1, <1>2, SameLogs

\* SQLite's tables other than the settings.
LEMMA SqlUnchangedStep ==
    ASSUME LogsInv, UNCHANGED clock, UNCHANGED sqlVars, NEW clean PROVE SqlStep(clean) /\ SqlTrims
<1>1. UNCHANGED <<tables, sqlLogs, payloads, keepLogs, sinceGC>> BY DEF sqlVars
<1>2. SqlTrims BY <1>1 DEF SqlTrims, Times
<1>3. SqlPayloads => SqlPayloads' BY <1>1 DEF SqlPayloads, Times
<1> QED BY <1>1, <1>2, <1>3 DEF SqlStep, LogsInv, SqlLogsInv, SqlKeeps

LEMMA SqlLeavesLogs ==
    ASSUME LogsInv, UNCHANGED <<clock, sqlLogs, payloads, sinceGC>>, NEW clean,
           keepLogs' \in Int, 1 \in DOMAIN tables'.settings => HasKeep(tables'.settings[1])
    PROVE  SqlStep(clean) /\ SqlTrims
<1>1. SqlTrims BY DEF SqlTrims, Times
<1>2. SqlPayloads => SqlPayloads' BY DEF SqlPayloads, Times
<1> QED BY <1>1, <1>2 DEF SqlStep, LogsInv, SqlLogsInv, SqlKeeps

LEMMA SqlSettingsStep ==
    ASSUME StoresInv, LogsInv, UNCHANGED clock, NEW s, HasKeep(s), NEW id, NEW failed, NEW clean,
           SqlSaveSettings(s, failed) \/ SqlRecordAPIKeyUsage(id, 1, failed)
    PROVE  SqlStep(clean) /\ SqlTrims
<1>0. "settings" \in DOMAIN tables BY DEF StoresInv, Shaped, Tables
<1>1. CASE SqlSaveSettings(s, failed)
  <2> DEFINE kept == IF failed = "read" THEN s.keys
                     ELSE PreserveAPIKeyUsage(s.keys, SqlGetSettings.keys)
             row == NormalizeSettings([s EXCEPT !.keys = kept])
  <2>1. \/ UNCHANGED sqlVars
        \/ /\ tables' = [tables EXCEPT !.settings = Put(@, 1, row)] /\ keepLogs' = row.keep
           /\ UNCHANGED <<sqlLogs, payloads, sinceGC>>
        BY <1>1 DEF SqlSaveSettings, sqlVars
  <2>2. HasKeep(row)
    <3> HIDE DEF kept
    <3>1. HasKeep([s EXCEPT !.keys = kept]) BY DEF HasKeep
    <3> QED BY <3>1, NormalSettingsKeep
  <2> HIDE DEF kept, row
  <2>3. CASE /\ tables' = [tables EXCEPT !.settings = Put(@, 1, row)] /\ keepLogs' = row.keep
             /\ UNCHANGED <<sqlLogs, payloads, sinceGC>>
    <3>1. tables'.settings[1] = row BY <1>0, <2>3 DEF Put
    <3>2. keepLogs' \in Int BY <2>2, <2>3 DEF HasKeep
    <3> QED BY <2>2, <2>3, <3>1, <3>2, SqlLeavesLogs
  <2> QED BY <2>1, <2>3, SqlUnchangedStep
<1>2. CASE SqlRecordAPIKeyUsage(id, 1, failed)
  <2>1. \/ UNCHANGED sqlVars
        \/ \E first, used :
             /\ 1 \in DOMAIN tables.settings
             /\ Exec([tables EXCEPT !.settings[1].keys[first].used = used], failed)
    <3> DEFINE same == IF 1 \in DOMAIN tables.settings
                       THEN {i \in 1..Len(tables.settings[1].keys) : tables.settings[1].keys[i].id = id}
                       ELSE {}
               first == CHOOSE i \in same : \A j \in same : i <= j
               used == tables.settings[1].keys[first].used + 1
    <3>1. \/ UNCHANGED sqlVars
          \/ same # {} /\ Exec([tables EXCEPT !.settings[1].keys[first].used = used], failed)
          BY <1>2 DEF SqlRecordAPIKeyUsage, sqlVars
    <3>2. same # {} => 1 \in DOMAIN tables.settings OBVIOUS
    <3> HIDE DEF same, first, used
    <3> QED BY <3>1, <3>2
  <2>2. ASSUME NEW first, NEW used, 1 \in DOMAIN tables.settings,
               Exec([tables EXCEPT !.settings[1].keys[first].used = used], failed)
        PROVE  SqlStep(clean) /\ SqlTrims
    <3>1. HasKeep(tables.settings[1]) BY <2>2 DEF LogsInv, SqlLogsInv, SqlKeeps
    <3> DEFINE old == tables.settings[1]
               keys == [old.keys EXCEPT ![first].used = used]
               table == [tables.settings EXCEPT ![1] = [old EXCEPT !.keys = keys]]
    <3>2. UNCHANGED <<sqlLogs, payloads, keepLogs, sinceGC>> BY <2>2 DEF Exec
    <3>3. tables' = [tables EXCEPT !.settings = table] \/ tables' = tables BY <2>2 DEF Exec
    <3> HIDE DEF keys
    <3>4. HasKeep(table[1]) BY <2>2, <3>1 DEF HasKeep
    <3> HIDE DEF table
    <3>5. HasKeep(tables'.settings[1]) BY <1>0, <3>1, <3>3, <3>4
    <3>6. keepLogs' \in Int BY <3>2 DEF LogsInv, SqlLogsInv, SqlKeeps
    <3> QED BY <3>2, <3>5, <3>6, SqlLeavesLogs
  <2> QED BY <2>1, <2>2, SqlUnchangedStep
<1> QED BY <1>1, <1>2

LEMMA SqlRowStep ==
    ASSUME StoresInv, LogsInv, UNCHANGED clock, NEW id, NEW row, NEW failed, NEW clean,
           NEW success, NEW until,
           \/ SqlUpsertProvider(id, row, failed) \/ SqlDeleteProvider(id, failed)
           \/ SqlUpsertProviderAccount(id, row, failed) \/ SqlDeleteProviderAccount(id, failed)
           \/ SqlRecordOutcome(id, success, until, failed)
           \/ SqlUpsertProxy(id, row, failed) \/ SqlDeleteProxy(id, failed)
           \/ SqlUpsertInvoice(id, row) \/ SqlDeleteInvoice(id, failed)
    PROVE  SqlStep(clean) /\ SqlTrims
<1>0. "settings" \in DOMAIN tables BY DEF StoresInv, Shaped, Tables
<1>1. UNCHANGED <<sqlLogs, payloads, keepLogs, sinceGC>>
      BY DEF Exec, SqlUpsertProvider, SqlDeleteProvider, SqlUpsertProviderAccount,
             SqlDeleteProviderAccount, SqlRecordOutcome, SqlUpsertProxy,
             SqlDeleteProxy, SqlUpsertInvoice, SqlDeleteInvoice, sqlVars
<1>2. tables'.settings = tables.settings
  <2>1. CASE SqlUpsertProvider(id, row, failed)
    <3> DEFINE p == NormalizeProvider(row)
    <3>1. tables' = [tables EXCEPT !.providers = Put(@, id, p)] \/ tables' = tables
          BY <2>1 DEF SqlUpsertProvider, Exec
    <3> HIDE DEF p
    <3> QED BY <1>0, <3>1
  <2>2. CASE SqlDeleteProvider(id, failed)
    <3> DEFINE gone == {a \in DOMAIN tables.accounts : tables.accounts[a].provider = id}
    <3>1. \/ tables' = tables \/ tables' = [tables EXCEPT !.accounts = Drop(@, gone)]
          \/ tables' = [tables EXCEPT !.accounts = Drop(@, gone), !.providers = Drop(@, {id})]
          BY <2>2 DEF SqlDeleteProvider
    <3> HIDE DEF gone
    <3> QED BY <1>0, <3>1
  <2>3. CASE SqlUpsertProviderAccount(id, row, failed)
    <3> DEFINE a == NormalizeProviderAccount(row)
    <3>1. tables' = [tables EXCEPT !.accounts = Put(@, id, a)] \/ tables' = tables
          BY <2>3 DEF SqlUpsertProviderAccount, Exec
    <3> HIDE DEF a
    <3> QED BY <1>0, <3>1
  <2>4. CASE SqlRecordOutcome(id, success, until, failed)
    <3> DEFINE a == tables.accounts[id]
               b == [a EXCEPT !.streak = IF success THEN 0 ELSE a.streak + 1,
                              !.cooldown = IF success THEN 0 ELSE until]
    <3>1. tables' = [tables EXCEPT !.accounts[id] = b] \/ tables' = tables
          BY <2>4 DEF SqlRecordOutcome, Exec, sqlVars
    <3> HIDE DEF b
    <3> QED BY <1>0, <3>1
  <2>5. CASE \/ SqlDeleteProviderAccount(id, failed)
             \/ SqlUpsertProxy(id, row, failed) \/ SqlDeleteProxy(id, failed)
             \/ SqlUpsertInvoice(id, row) \/ SqlDeleteInvoice(id, failed)
    <3>1. \/ tables' = tables
          \/ tables' = [tables EXCEPT !.accounts = Drop(@, {id})]
          \/ tables' = [tables EXCEPT !.proxies = Put(@, id, row)]
          \/ tables' = [tables EXCEPT !.proxies = Drop(@, {id})]
          \/ tables' = [tables EXCEPT !.invoices = Drop(@, {id})]
          BY <2>5 DEF SqlDeleteProviderAccount, SqlUpsertProxy, SqlDeleteProxy,
                                  SqlUpsertInvoice, SqlDeleteInvoice, Exec, sqlVars
    <3> QED BY <1>0, <3>1
  <2> QED BY <2>1, <2>2, <2>3, <2>4, <2>5
<1>3. keepLogs' \in Int /\ (1 \in DOMAIN tables'.settings => HasKeep(tables'.settings[1]))
      BY <1>1, <1>2 DEF LogsInv, SqlLogsInv, SqlKeeps
<1> QED BY <1>1, <1>3, SqlLeavesLogs

(***************************************************************************)
(* Logs of the file store.                                                 *)
(***************************************************************************)
LEMMA KeepBound == \A k \in Int : KeepLogs(k) \in Nat /\ KeepLogs(k) >= 1
BY DEF KeepLogs, OrElse

LEMMA OrderedCons ==
    ASSUME NEW c \in Nat, NEW s, Ordered(s, c), NEW log \in Log, log.time = c + 1
    PROVE  /\ Ordered(<<log>> \o s, c + 1) /\ Len(<<log>> \o s) = Len(s) + 1
           /\ (<<log>> \o s)[1] = log /\ \A i \in 1..Len(s) : (<<log>> \o s)[i + 1] = s[i]
<1> DEFINE all == <<log>> \o s
<1>1. s \in Seq(Log) /\ <<log>> \in Seq(Log) BY DEF Ordered
<1>2. Len(s) \in Nat /\ \A i \in 1..Len(s) : s[i] \in Log BY <1>1, LenProperties, ElementOfSeq
<1>3. /\ all \in Seq(Log) /\ Len(all) = Len(s) + 1
      /\ \A i \in 1..(Len(s) + 1) : all[i] = IF i = 1 THEN log ELSE s[i - 1]
      BY <1>1, <1>2, ConcatProperties
<1> HIDE DEF all
<1>4. \A i \in 1..Len(s) : all[i + 1] = s[i] BY <1>2, <1>3
<1>5. Ordered(all, c + 1)
  <2>1. \A i \in 1..Len(s) : s[i].time \in Nat /\ s[i].time <= c BY <1>2 DEF Ordered, Log
  <2>2. \A i \in 1..Len(all) : all[i].time <= c + 1 BY <1>2, <1>3, <2>1
  <2>3. ASSUME NEW i \in 1..Len(all), NEW j \in 1..Len(all), i < j PROVE all[i].time > all[j].time
    <3>1. j # 1 /\ j - 1 \in 1..Len(s) /\ all[j] = s[j - 1] BY <1>2, <1>3, <2>3
    <3>2. CASE i = 1 BY <1>2, <1>3, <2>1, <3>1, <3>2
    <3>3. CASE i # 1
      <4>1. i - 1 \in 1..Len(s) /\ all[i] = s[i - 1] /\ i - 1 < j - 1 BY <1>2, <1>3, <2>3, <3>3
      <4> QED BY <3>1, <4>1 DEF Ordered
    <3> QED BY <3>2, <3>3
  <2> QED BY <1>3, <2>2, <2>3 DEF Ordered
<1> QED BY <1>2, <1>3, <1>4, <1>5 DEF all

LEMMA OrderedPrefix ==
    ASSUME NEW last, NEW s, Ordered(s, last), NEW n \in Nat, n < Len(s)
    PROVE  /\ Ordered(SubSeq(s, 1, n), last) /\ Len(SubSeq(s, 1, n)) = n
           /\ \A i \in 1..n : SubSeq(s, 1, n)[i] = s[i]
<1> DEFINE p == SubSeq(s, 1, n)
<1>1. Len(s) \in Nat /\ \A i \in 1..Len(s) : s[i] \in Log
      BY LenProperties, ElementOfSeq DEF Ordered
<1>2. p \in Seq(Log) /\ Len(p) = n /\ \A i \in 1..n : p[i] = s[i]
  <2>1. \A i \in 1..n : s[i] \in Log BY <1>1
  <2> QED BY <2>1, SubSeqProperties
<1> HIDE DEF p
<1>3. Ordered(p, last)
  <2>1. \A i \in 1..n : i \in 1..Len(s) BY <1>1
  <2>2. \A i \in 1..n : p[i].time <= last BY <1>2, <2>1 DEF Ordered
  <2>3. \A i, j \in 1..n : i < j => p[i].time > p[j].time BY <1>2, <2>1 DEF Ordered
  <2> QED BY <1>2, <2>2, <2>3 DEF Ordered
<1> QED BY <1>2, <1>3 DEF p

LEMMA FileAddLogStep ==
    ASSUME LogsInv, NEW raw \in BOOLEAN, clock' = clock + 1,
           NEW debugWrote \in BOOLEAN, NEW wrote \in BOOLEAN,
           FileAddRequestLog([time |-> clock + 1, raw |-> raw], debugWrote, wrote)
    PROVE  FileStep(wrote) /\ FileTrims
<1> DEFINE log == [time |-> clock + 1, raw |-> raw]
           all == <<log>> \o logs
           keep == KeepLogs(db.settings.keep)
           new == IF Len(all) > keep THEN SubSeq(all, 1, keep) ELSE all
<1>1. clock \in Nat /\ clock' \in Nat /\ log \in Log /\ log.time = clock + 1 /\ log.raw = raw
      BY DEF LogsInv, Log
<1>2. Ordered(logs, clock) /\ Ordered(logFile, clock) BY DEF LogsInv, FileLogsInv
<1>3. Len(logs) \in Nat BY <1>2, LenProperties DEF Ordered
<1>4. Ordered(logs, clock') /\ Ordered(logFile, clock') BY <1>1, <1>2, OrderedLater
<1>5. HasKeep(db.settings) /\ HasKeep(mainFile.settings) BY DEF LogsInv, FileLogsInv, FileKeeps
<1>6. keep \in Nat /\ keep >= 1 BY <1>5, KeepBound DEF HasKeep
<1>7. /\ Ordered(all, clock') /\ Len(all) = Len(logs) + 1 /\ all[1] = log
      /\ \A i \in 1..Len(logs) : all[i + 1] = logs[i]
  <2> HIDE DEF log
  <2> QED BY <1>1, <1>2, OrderedCons
<1>8. \/ UNCHANGED fileVars
      \/ /\ debugFiles' = IF raw THEN debugFiles \cup {clock + 1} ELSE debugFiles
         /\ SaveLogs(new, wrote)
      BY DEF FileAddRequestLog
<1>9. CASE UNCHANGED fileVars
  <2>1. UNCHANGED <<db, mainFile, logs, logFile, debugFiles, unsaved>> BY <1>9 DEF fileVars
  <2>2. FileTrims BY <2>1 DEF FileTrims, FileTimes
  <2>3. FilePayloads => FilePayloads' BY <2>1 DEF FilePayloads
  <2> QED BY <1>4, <1>5, <2>1, <2>2, <2>3 DEF FileStep, LogsInv, FileLogsInv
<1>10. CASE /\ debugFiles' = IF raw THEN debugFiles \cup {clock + 1} ELSE debugFiles
            /\ SaveLogs(new, wrote)
  <2> HIDE DEF all, keep
  <2>1. /\ Ordered(new, clock') /\ Len(new) \in Nat /\ Len(new) <= Len(all)
        /\ \A i \in 1..Len(new) : new[i] = all[i]
    <3>1. CASE Len(all) > keep
      <4>1. Ordered(SubSeq(all, 1, keep), clock') /\ Len(SubSeq(all, 1, keep)) = keep
            /\ \A i \in 1..keep : SubSeq(all, 1, keep)[i] = all[i]
            BY <1>6, <1>7, <3>1, OrderedPrefix
      <4> QED BY <1>3, <1>6, <1>7, <3>1, <4>1
    <3>2. CASE ~(Len(all) > keep) BY <1>3, <1>6, <1>7, <3>2
    <3> QED BY <3>1, <3>2
  <2>2. FileTrims
    <3> SUFFICES ASSUME NEW t \in FileTimes(logs) \ FileTimes(logs')
                 PROVE  Cardinality({u \in FileTimes(logs') : u > t}) >= keep
        BY <1>10 DEF FileTrims, SaveLogs, keep
    <3>1. logs' = new BY <1>10 DEF SaveLogs
    <3>2. PICK i \in 1..Len(logs) : t = logs[i].time BY DEF FileTimes
    <3>3. t = all[i + 1].time /\ i + 1 \in 1..Len(all) BY <1>3, <1>7, <3>2
    <3>4. ~(i + 1 \in 1..Len(new)) BY <2>1, <3>1, <3>3 DEF FileTimes
    <3>5. Len(all) > keep BY <3>3, <3>4
    <3>6. new = SubSeq(all, 1, keep) BY <3>5
    <3>7. Len(SubSeq(all, 1, keep)) = keep BY <1>6, <1>7, <3>5, OrderedPrefix
    <3>8. i + 1 \in (keep + 1)..Len(all) BY <1>3, <1>6, <1>7, <3>3, <3>4, <3>6, <3>7
    <3> HIDE DEF new
    <3>9. Cardinality({u \in FileTimes(SubSeq(all, 1, keep)) : u > all[i + 1].time}) >= keep
          BY <1>6, <1>7, <3>5, <3>8, PrefixKeeps
    <3> QED BY <3>1, <3>3, <3>6, <3>9
  <2> HIDE DEF new
  <2>3. ASSUME wrote, FilePayloads PROVE FilePayloads'
    <3>1. unsaved' = {} BY <1>10, <2>3 DEF SaveLogs, FilePayloads
    <3>2. ASSUME NEW i \in 1..Len(new), new[i].raw PROVE new[i].time \in debugFiles'
      <4>1. new[i] = all[i] /\ i \in 1..Len(all) BY <1>3, <1>7, <2>1
      <4>2. CASE i = 1 BY <1>1, <1>7, <1>10, <3>2, <4>1, <4>2
      <4>3. CASE i # 1
        <5>1. i - 1 \in 1..Len(logs) /\ all[i] = logs[i - 1] BY <1>3, <1>7, <4>1, <4>3
        <5>2. logs[i - 1].time \in debugFiles BY <2>3, <3>2, <4>1, <5>1 DEF FilePayloads
        <5> QED BY <1>10, <4>1, <5>1, <5>2
      <4> QED BY <4>2, <4>3
    <3> QED BY <1>10, <3>1, <3>2 DEF SaveLogs, FilePayloads
  <2>4. Ordered(logs', clock') /\ Ordered(logFile', clock') BY <1>4, <1>10, <2>1 DEF SaveLogs
  <2>5. "logs" \notin unsaved' => logFile' = logs' BY <1>10 DEF SaveLogs
  <2> QED BY <1>5, <1>10, <2>2, <2>3, <2>4, <2>5 DEF SaveLogs, FileStep
<1> QED BY <1>8, <1>9, <1>10

LEMMA FileDeletePayloadsStep ==
    ASSUME LogsInv, UNCHANGED clock, NEW removed \in SUBSET debugFiles, NEW wrote \in BOOLEAN,
           FileDeleteDebugPayloads(removed, wrote)
    PROVE  FileStep(wrote /\ removed = debugFiles) /\ FileTrims
<1> DEFINE new == [i \in 1..Len(logs) |-> [logs[i] EXCEPT !.raw = FALSE]]
<1>1. Ordered(logs, clock) /\ Ordered(logFile, clock) BY DEF LogsInv, FileLogsInv
<1>2. Len(logs) \in Nat /\ \A i \in 1..Len(logs) : logs[i] \in Log
      BY <1>1, LenProperties, ElementOfSeq DEF Ordered
<1>3. \A i \in 1..Len(logs) : new[i] \in Log /\ new[i].time = logs[i].time /\ new[i].raw = FALSE
      BY <1>2 DEF Log
<1>4. new \in Seq(Log) /\ Len(new) = Len(logs)
  <2>1. new \in [1..Len(logs) -> Log] BY <1>3
  <2>2. Len(new) = Len(logs) BY <1>2
  <2> HIDE DEF new
  <2> QED BY <1>2, <2>1, <2>2
<1>5. HasKeep(db.settings) /\ HasKeep(mainFile.settings) BY DEF LogsInv, FileLogsInv, FileKeeps
<1> HIDE DEF new
<1>6. Ordered(new, clock) BY <1>1, <1>3, <1>4 DEF Ordered
<1>7. FileTimes(new) = FileTimes(logs) BY <1>3, <1>4 DEF FileTimes
<1>8. CASE removed = debugFiles /\ (\E i \in 1..Len(logs) : logs[i].raw)
  <2>1. SaveLogs(new, wrote) /\ debugFiles' = {} BY <1>8 DEF FileDeleteDebugPayloads, new
  <2>2. FileTrims BY <1>7, <2>1 DEF SaveLogs, FileTrims
  <2>3. wrote /\ FilePayloads => FilePayloads' BY <1>3, <1>4, <2>1 DEF SaveLogs, FilePayloads
  <2> QED BY <1>1, <1>5, <1>6, <2>1, <2>2, <2>3 DEF SaveLogs, FileStep
<1>9. CASE ~(removed = debugFiles /\ \E i \in 1..Len(logs) : logs[i].raw)
  <2>1. UNCHANGED <<db, mainFile, logs, logFile, unsaved>> /\ debugFiles' = debugFiles \ removed
        BY <1>9 DEF FileDeleteDebugPayloads
  <2>2. FileTrims BY <2>1 DEF FileTrims
  <2>3. removed = debugFiles /\ FilePayloads => FilePayloads' BY <1>9, <2>1 DEF FilePayloads
  <2>4. "logs" \notin unsaved' => logFile' = logs' BY <2>1 DEF LogsInv, FileLogsInv
  <2> QED BY <1>1, <1>5, <2>1, <2>2, <2>3, <2>4 DEF FileStep
<1> QED BY <1>8, <1>9

LEMMA OrderedNone == \A last : Ordered(<<>>, last) BY DEF Ordered

LEMMA FileResetStep ==
    ASSUME LogsInv, UNCHANGED clock, NEW failed, FileReset(failed) PROVE FileStep(failed = "none")
<1>1. CASE failed = "debug"
  <2>1. UNCHANGED fileVars BY <1>1 DEF FileReset
  <2> QED BY <2>1, SameLogs
<1>2. CASE failed # "debug"
  <2>1. /\ db'.settings = DefaultSettings
        /\ mainFile' = mainFile \/ mainFile' = db'
        /\ logs' = <<>> /\ (logFile' = logFile \/ logFile' = <<>>)
        /\ "logs" \notin unsaved' => logFile' = <<>>
        /\ failed = "none" => unsaved' = {}
        BY <1>2 DEF FileReset
  <2>2. HasKeep(db'.settings) /\ HasKeep(mainFile'.settings)
        BY <2>1, DefaultsKeep DEF LogsInv, FileLogsInv, FileKeeps
  <2>3. Ordered(logs', clock') /\ Ordered(logFile', clock')
        BY <2>1, OrderedNone DEF LogsInv, FileLogsInv
  <2>4. failed = "none" => FilePayloads' BY <2>1 DEF FilePayloads
  <2> QED BY <2>1, <2>2, <2>3, <2>4 DEF FileStep
<1> QED BY <1>1, <1>2

\* A start reads the logs that were written.
LEMMA FileLoadStep ==
    ASSUME StoresInv, LogsInv, UNCHANGED clock, FileLoad
    PROVE  FileStep(TRUE) /\ (unsaved = {} => FileTrims)
<1>1. db'.settings = NormalizeSettings(mainFile.settings)
  <2> DEFINE settings == NormalizeSettings(mainFile.settings)
             rows == IF DOMAIN mainFile.providers = {} THEN SeedProviders ELSE mainFile.providers
             providers == [p \in DOMAIN rows |-> NormalizeProvider(rows[p])]
             accounts == [a \in {b \in DOMAIN mainFile.accounts : mainFile.accounts[b].provider # ""} |->
                           NormalizeProviderAccount(mainFile.accounts[a])]
             invoices == [v \in DOMAIN mainFile.invoices |-> NormalizeInvoice(mainFile.invoices[v])]
  <2>1. db' = [mainFile EXCEPT !.settings = settings, !.providers = providers,
                               !.accounts = accounts, !.invoices = invoices]
        BY DEF FileLoad
  <2> HIDE DEF settings, rows, providers, accounts, invoices
  <2>2. db'.settings = settings BY <2>1 DEF StoresInv, Shaped, Tables
  <2> QED BY <2>2 DEF settings
<1>2. HasKeep(db'.settings) /\ HasKeep(mainFile'.settings)
      BY <1>1, NormalSettingsKeep DEF FileLoad, LogsInv, FileLogsInv, FileKeeps
<1>3. logs' = logFile /\ logFile' = logFile /\ unsaved' = {} /\ debugFiles' = debugFiles
      BY DEF FileLoad
<1>4. Ordered(logs', clock') /\ Ordered(logFile', clock') BY <1>3 DEF LogsInv, FileLogsInv
<1>5. unsaved = {} => logFile = logs BY DEF LogsInv, FileLogsInv
<1>6. FilePayloads => FilePayloads' BY <1>3, <1>5 DEF FilePayloads
<1>7. unsaved = {} => FileTrims BY <1>3, <1>5 DEF FileTrims
<1> QED BY <1>2, <1>3, <1>4, <1>6, <1>7 DEF FileStep

(***************************************************************************)
(* Logs of SQLite.                                                         *)
(***************************************************************************)
LEMMA NewestStays ==
    ASSUME NEW last, NEW S, Distinct(S, last), NEW n PROVE Distinct(Newest(n, S), last)
<1>1. Newest(n, S) \subseteq S BY DEF Newest
<1>2. IsFiniteSet(Newest(n, S)) BY <1>1, FS_Subset DEF Distinct
<1> QED BY <1>1, <1>2 DEF Distinct

LEMMA RetainStep ==
    ASSUME NEW last, NEW S, Distinct(S, last), NEW blobs, NEW n \in Nat, NEW failed,
           Retain(S, blobs, n, failed)
    PROVE  /\ Distinct(sqlLogs', last)
           /\ \A t \in Times(S) \ Times(sqlLogs') :
                 Cardinality({u \in Times(sqlLogs') : u > t}) >= n
           /\ failed = "none" /\ (\A l \in S : l.raw => l.time \in blobs) => SqlPayloads'
<1>1. sqlLogs' = S \/ sqlLogs' = Newest(n, S) BY DEF Retain
<1>2. Distinct(sqlLogs', last) BY <1>1, NewestStays
<1>3. \A t \in Times(S) \ Times(sqlLogs') :
         Cardinality({u \in Times(sqlLogs') : u > t}) >= n
  <2>1. CASE sqlLogs' = S BY <2>1
  <2>2. CASE sqlLogs' = Newest(n, S) BY <2>2, NewestKeeps
  <2> QED BY <1>1, <2>1, <2>2
<1>4. ASSUME failed = "none", \A l \in S : l.raw => l.time \in blobs PROVE SqlPayloads'
  <2>1. sqlLogs' = Newest(n, S) /\ payloads' = blobs \cap Times(sqlLogs')
        BY <1>4 DEF Retain
  <2>2. sqlLogs' \subseteq S BY <2>1 DEF Newest
  <2>3. \A l \in sqlLogs' : l.time \in Times(sqlLogs') BY DEF Times
  <2>4. \A l \in sqlLogs' : l.raw => l.time \in payloads' BY <1>4, <2>1, <2>2, <2>3
  <2> QED BY <2>1, <2>4 DEF SqlPayloads
<1> QED BY <1>2, <1>3, <1>4

\* The retention bound of either store.
LEMMA SqlBound ==
    ASSUME LogsInv PROVE Bound = KeepLogs(keepLogs) /\ Bound \in Nat
BY KeepBound DEF Bound, LogsInv, SqlLogsInv, SqlKeeps

LEMMA SqlKeepsStay ==
    ASSUME LogsInv, UNCHANGED <<tables, keepLogs>>
    PROVE  /\ keepLogs' \in Int /\ KeepLogs(keepLogs') = KeepLogs(keepLogs)
           /\ 1 \in DOMAIN tables'.settings => HasKeep(tables'.settings[1])
BY DEF LogsInv, SqlLogsInv, SqlKeeps

LEMMA SqlAddLogStep ==
    ASSUME LogsInv, NEW raw \in BOOLEAN, clock' = clock + 1, NEW failed,
           SqlAddRequestLog([time |-> clock + 1, raw |-> raw], failed)
    PROVE  SqlStep(failed = "none") /\ SqlTrims
<1> DEFINE log == [time |-> clock + 1, raw |-> raw]
           blobs == IF raw THEN payloads \cup {clock + 1} ELSE payloads
           S == sqlLogs \cup {log}
<1>1. clock \in Nat /\ clock' \in Nat /\ log \in Log /\ log.time = clock + 1 /\ log.raw = raw
      BY DEF LogsInv, Log
<1>2. Distinct(sqlLogs, clock) /\ sinceGC \in Nat BY DEF LogsInv, SqlLogsInv
<1>3. Distinct(sqlLogs, clock') BY <1>1, <1>2, DistinctLater
<1>4. UNCHANGED <<tables, keepLogs>> BY DEF SqlAddRequestLog
<1>5. /\ keepLogs' \in Int /\ KeepLogs(keepLogs') = KeepLogs(keepLogs)
      /\ 1 \in DOMAIN tables'.settings => HasKeep(tables'.settings[1])
      BY <1>4, SqlKeepsStay
<1>6. \/ failed # "none" /\ UNCHANGED <<sqlLogs, sinceGC>>
      \/ Retain(S, blobs, Bound, failed) /\ sinceGC' = 0
      \/ sqlLogs' = S /\ payloads' = blobs /\ sinceGC' = sinceGC + 1
      BY DEF SqlAddRequestLog
<1> HIDE DEF log
<1>7. Distinct(S, clock')
  <2>1. IsFiniteSet(S) BY <1>2, FS_AddElement DEF Distinct
  <2>2. \A l \in sqlLogs : l.time \in Nat /\ l.time <= clock BY <1>2 DEF Distinct, Log
  <2>3. S \in SUBSET Log BY <1>1, <1>2 DEF Distinct
  <2>4. \A l \in S : l.time <= clock' BY <1>1, <2>2
  <2>5. \A l, k \in S : l.time = k.time => l = k BY <1>1, <1>2, <2>2 DEF Distinct
  <2> QED BY <2>1, <2>3, <2>4, <2>5 DEF Distinct
<1>8. Times(sqlLogs) \subseteq Times(S) BY DEF Times
<1>9. SqlPayloads => \A l \in S : l.raw => l.time \in blobs BY <1>1 DEF SqlPayloads
<1>10. SqlPayloads => blobs \subseteq Times(S) BY <1>1 DEF SqlPayloads, Times
<1> HIDE DEF S, blobs
<1>11. CASE failed # "none" /\ UNCHANGED <<sqlLogs, sinceGC>>
  <2>1. SqlTrims BY <1>11 DEF SqlTrims
  <2> QED BY <1>2, <1>3, <1>5, <1>11, <2>1 DEF SqlStep
<1>12. CASE Retain(S, blobs, Bound, failed) /\ sinceGC' = 0
  <2>1. Bound = KeepLogs(keepLogs') /\ Bound \in Nat BY <1>5, SqlBound
  <2>2. /\ Distinct(sqlLogs', clock')
        /\ \A t \in Times(S) \ Times(sqlLogs') :
              Cardinality({u \in Times(sqlLogs') : u > t}) >= Bound
        /\ failed = "none" /\ (\A l \in S : l.raw => l.time \in blobs) => SqlPayloads'
        BY <1>7, <1>12, <2>1, RetainStep
  <2>3. SqlTrims BY <1>8, <2>1, <2>2 DEF SqlTrims
  <2> QED BY <1>5, <1>9, <1>12, <2>2, <2>3 DEF SqlStep
<1>13. CASE sqlLogs' = S /\ payloads' = blobs /\ sinceGC' = sinceGC + 1
  <2>1. SqlTrims BY <1>8, <1>13 DEF SqlTrims
  <2>2. SqlPayloads => SqlPayloads' BY <1>9, <1>10, <1>13 DEF SqlPayloads
  <2>3. sinceGC' \in Nat BY <1>2, <1>13
  <2> QED BY <1>5, <1>7, <1>13, <2>1, <2>2, <2>3 DEF SqlStep
<1> QED BY <1>6, <1>11, <1>12, <1>13

LEMMA SqlRecentLogsStep ==
    ASSUME LogsInv, UNCHANGED clock, NEW failed, SqlRecentLogs(failed)
    PROVE  SqlStep(failed = "none") /\ SqlTrims
<1>1. Distinct(sqlLogs, clock') /\ sinceGC \in Nat BY DEF LogsInv, SqlLogsInv
<1>2. UNCHANGED <<tables, keepLogs>> /\ Retain(sqlLogs, payloads, Bound, failed)
      /\ sinceGC' = IF failed = "none" THEN 0 ELSE sinceGC
      BY DEF SqlRecentLogs
<1>3. /\ keepLogs' \in Int /\ KeepLogs(keepLogs') = KeepLogs(keepLogs)
      /\ 1 \in DOMAIN tables'.settings => HasKeep(tables'.settings[1])
      BY <1>2, SqlKeepsStay
<1>4. Bound = KeepLogs(keepLogs') /\ Bound \in Nat BY <1>3, SqlBound
<1>5. /\ Distinct(sqlLogs', clock')
      /\ \A t \in Times(sqlLogs) \ Times(sqlLogs') :
            Cardinality({u \in Times(sqlLogs') : u > t}) >= Bound
      /\ failed = "none" /\ (\A l \in sqlLogs : l.raw => l.time \in payloads) => SqlPayloads'
      BY <1>1, <1>2, <1>4, RetainStep
<1>6. SqlTrims BY <1>4, <1>5 DEF SqlTrims
<1>7. failed = "none" /\ SqlPayloads => SqlPayloads' BY <1>5 DEF SqlPayloads
<1>8. sinceGC' \in Nat BY <1>1, <1>2
<1> QED BY <1>3, <1>5, <1>6, <1>7, <1>8 DEF SqlStep

LEMMA SqlDeletePayloadsStep ==
    ASSUME LogsInv, UNCHANGED clock, NEW failed, SqlDeleteDebugPayloads(failed)
    PROVE  SqlStep(failed = "none") /\ SqlTrims
<1> DEFINE bare(l) == [l EXCEPT !.raw = FALSE]
           S == {bare(l) : l \in sqlLogs}
<1>1. Distinct(sqlLogs, clock) /\ sinceGC \in Nat BY DEF LogsInv, SqlLogsInv
<1>2. \A l \in sqlLogs : bare(l) \in Log /\ bare(l).time = l.time /\ bare(l).raw = FALSE
      BY <1>1 DEF Distinct, Log
<1>3. UNCHANGED <<tables, keepLogs, sinceGC>> /\ (sqlLogs' = sqlLogs \/ sqlLogs' = S)
      BY DEF SqlDeleteDebugPayloads
<1>4. failed = "none" => payloads' = {} /\ sqlLogs' = S BY DEF SqlDeleteDebugPayloads
<1>5. IsFiniteSet(S)
  <2> DEFINE f == [l \in sqlLogs |-> bare(l)]
  <2> HIDE DEF bare
  <2>1. f \in Surjection(sqlLogs, S) BY DEF Surjection
  <2> QED BY <1>1, <2>1, FS_Surjection DEF Distinct
<1> HIDE DEF bare
<1>6. Distinct(S, clock)
  <2>1. \A l \in S : \E k \in sqlLogs : l = bare(k) OBVIOUS
  <2>2. S \in SUBSET Log /\ \A l \in S : l.time <= clock BY <1>1, <1>2, <2>1 DEF Distinct
  <2>3. \A l, k \in S : l.time = k.time => l = k BY <1>1, <1>2, <2>1 DEF Distinct
  <2> QED BY <1>5, <2>2, <2>3 DEF Distinct
<1>7. Times(S) = Times(sqlLogs) BY <1>2 DEF Times
<1>8. \A l \in S : l.raw = FALSE BY <1>2
<1> HIDE DEF S
<1>9. SqlTrims BY <1>3, <1>7 DEF SqlTrims
<1>10. failed = "none" => SqlPayloads' BY <1>4, <1>8 DEF SqlPayloads
<1>11. /\ keepLogs' \in Int
       /\ 1 \in DOMAIN tables'.settings => HasKeep(tables'.settings[1])
       BY <1>3, SqlKeepsStay
<1>12. sinceGC' \in Nat BY <1>1, <1>3
<1>13. Distinct(sqlLogs', clock') BY <1>1, <1>3, <1>6
<1> QED BY <1>9, <1>10, <1>11, <1>12, <1>13 DEF SqlStep

LEMMA SqlResetStep ==
    ASSUME StoresInv, LogsInv, UNCHANGED clock, NEW failed, NEW seeded, SqlReset(failed, seeded),
           NEW clean
    PROVE  SqlStep(clean)
<1>1. CASE failed = "tx"
  <2>1. UNCHANGED sqlVars BY <1>1 DEF SqlReset, sqlVars
  <2> QED BY <2>1, SqlUnchangedStep
<1>2. CASE failed # "tx"
  <2> DEFINE settings == IF failed = "settings" THEN Empty ELSE DefaultRow
             providers == CASE failed = "settings" -> Empty
                            [] failed = "seed"     -> Seeds(FirstSeeds(seeded))
                            [] OTHER               -> Seeds(DOMAIN SeedProviders)
             none == Empty
  <2>1. tables' = [tables EXCEPT !.settings = settings, !.providers = providers,
                                 !.proxies = none, !.invoices = none]
        BY <1>2 DEF SqlReset
  <2>2. 1 \in DOMAIN settings => HasKeep(settings[1])
        BY DefaultsKeep, NormalSettingsKeep DEF Empty, DefaultRow
  <2> HIDE DEF settings, providers, none
  <2>3. tables'.settings = settings BY <2>1 DEF StoresInv, Shaped, Tables
  <2>4. /\ sqlLogs' = {} /\ payloads' = {} /\ sinceGC' = sinceGC
        /\ keepLogs' = keepLogs \/ keepLogs' = DefaultSettings.keep
        BY <1>2 DEF SqlReset
  <2>5. keepLogs' \in Int BY <2>4, DefaultsKeep DEF LogsInv, SqlLogsInv, SqlKeeps
  <2>6. Distinct({}, clock') BY FS_EmptySet DEF Distinct
  <2>7. SqlPayloads' BY <2>4 DEF SqlPayloads
  <2>8. sinceGC' \in Nat BY <2>4 DEF LogsInv, SqlLogsInv
  <2> QED BY <2>2, <2>3, <2>4, <2>5, <2>6, <2>7, <2>8 DEF SqlStep
<1> QED BY <1>1, <1>2

LEMMA SqlOpenStep ==
    ASSUME StoresInv, LogsInv, UNCHANGED clock, SqlOpen, NEW clean PROVE SqlStep(clean) /\ SqlTrims
<1> DEFINE settings == IF 1 \in DOMAIN tables.settings THEN tables.settings ELSE DefaultRow
           providers == IF DOMAIN tables.providers = {} THEN Seeds(DOMAIN SeedProviders)
                        ELSE tables.providers
<1>1. tables' = [tables EXCEPT !.settings = settings, !.providers = providers] BY DEF SqlOpen
<1>2. HasKeep(settings[1])
      BY DefaultsKeep, NormalSettingsKeep DEF DefaultRow, LogsInv, SqlLogsInv, SqlKeeps
<1>3. keepLogs' \in Int
      BY DefaultsKeep, NormalSettingsKeep
      DEF SqlOpen, SqlGetSettings, LogsInv, SqlLogsInv, SqlKeeps, HasKeep
<1> HIDE DEF settings, providers
<1>4. tables'.settings = settings BY <1>1 DEF StoresInv, Shaped, Tables
<1>5. sinceGC' = 0 /\ sqlLogs' = sqlLogs /\ payloads' = payloads BY DEF SqlOpen
<1>6. SqlTrims BY <1>5 DEF SqlTrims
<1>7. SqlPayloads => SqlPayloads' BY <1>5 DEF SqlPayloads
<1> QED BY <1>2, <1>3, <1>4, <1>5, <1>6, <1>7 DEF SqlStep, LogsInv, SqlLogsInv

(***************************************************************************)
(* The two of them.                                                        *)
(***************************************************************************)
Trims ==
    calls'["reset"] = calls["reset"] =>
      (unsaved = {} \/ calls'["restart"] = calls["restart"] => FileTrims) /\ SqlTrims

LEMMA StepsCombine ==
    ASSUME LogsInv, clock' \in Nat, NEW fileClean \in BOOLEAN, NEW sqlClean \in BOOLEAN,
           faults' \in Nat, faults' = 0 => faults = 0 /\ fileClean /\ sqlClean,
           FileStep(fileClean), SqlStep(sqlClean)
    PROVE  LogsInv'
<1>1. FileLogsInv' BY DEF FileStep, FileLogsInv, FileKeeps
<1>2. SqlLogsInv' BY DEF SqlStep, SqlLogsInv, SqlKeeps
<1>3. faults' = 0 => FilePayloads' /\ SqlPayloads' BY DEF LogsInv, FileStep, SqlStep
<1> QED BY <1>1, <1>2, <1>3 DEF LogsInv

LEMMA BothSteps ==
    ASSUME LogsInv, clock' \in Nat, NEW kind, NEW failed, NEW differs, Call(kind, failed, differs),
           NEW fileClean \in BOOLEAN, NEW sqlClean \in BOOLEAN,
           failed = "none" => fileClean /\ sqlClean,
           FileStep(fileClean), SqlStep(sqlClean)
    PROVE  LogsInv'
<1>1. faults' \in Nat /\ (faults' = 0 => failed = "none" /\ faults = 0) BY DEF LogsInv, Call
<1> QED BY <1>1, StepsCombine

LEMMA NextLogs ==
    ASSUME StoresInv, LogsInv, [Next]_vars PROVE LogsInv' /\ Trims
<1>0. clock \in Nat BY DEF LogsInv
<1>1. CASE SaveSettings
  <2> PICK s \in SettingsInputs, failed \in Write \cup {"read"} :
        /\ Call("settings", failed, Unnamed(s))
        /\ FileSaveSettings(s, Wrote(failed)) /\ SqlSaveSettings(s, failed)
        /\ UNCHANGED clock
        BY <1>1 DEF SaveSettings
  <2>1. HasKeep(s) BY InputsAssumption DEF HasKeep, Settings
  <2>2. Wrote(failed) \in BOOLEAN /\ (failed = "none" => Wrote(failed)) BY DEF Wrote
  <2>3. FileStep(Wrote(failed)) /\ FileTrims BY <2>1, <2>2, FileSettingsStep
  <2>4. SqlStep(TRUE) /\ SqlTrims BY <2>1, SqlSettingsStep
  <2> QED BY <1>0, <2>2, <2>3, <2>4, BothSteps DEF Trims
<1>2. CASE RecordAPIKeyUsage
  <2> PICK id \in UsageKeys, failed \in Write :
        /\ Call("settings", failed, FALSE)
        /\ FileRecordAPIKeyUsage(id, 1, Wrote(failed))
        /\ SqlRecordAPIKeyUsage(id, 1, IF failed = "write" THEN failed ELSE "none")
        /\ UNCHANGED clock
        BY <1>2 DEF RecordAPIKeyUsage
  <2>1. HasKeep(DefaultSettings) BY DefaultsKeep
  <2>2. Wrote(failed) \in BOOLEAN /\ (failed = "none" => Wrote(failed)) BY DEF Wrote
  <2>3. FileStep(Wrote(failed)) /\ FileTrims BY <2>1, <2>2, FileSettingsStep
  <2>4. SqlStep(TRUE) /\ SqlTrims BY <2>1, SqlSettingsStep
  <2> QED BY <1>0, <2>2, <2>3, <2>4, BothSteps DEF Trims
<1>3. CASE \/ UpsertProvider \/ DeleteProvider \/ UpsertProviderAccount \/ DeleteProviderAccount
           \/ RecordProviderAccountOutcome \/ UpsertProxy \/ DeleteProxy
           \/ UpsertInvoice \/ DeleteInvoice
  <2>1. UNCHANGED clock /\ \E kind, failed, differs :
          /\ Call(kind, failed, differs)
          /\ \E id, row, success, until :
               \/ FileUpsertProvider(id, row, Wrote(failed)) \/ FileDeleteProvider(id, Wrote(failed))
               \/ FileUpsertProviderAccount(id, row, Wrote(failed))
               \/ FileDeleteProviderAccount(id, Wrote(failed))
               \/ FileRecordOutcome(id, success, until, Wrote(failed))
               \/ FileUpsertProxy(id, row, Wrote(failed)) \/ FileDeleteProxy(id, Wrote(failed))
               \/ FileUpsertInvoice(id, row, Wrote(failed)) \/ FileDeleteInvoice(id, Wrote(failed))
          /\ \E id, row, success, until, stmt :
               \/ SqlUpsertProvider(id, row, stmt) \/ SqlDeleteProvider(id, stmt)
               \/ SqlUpsertProviderAccount(id, row, stmt) \/ SqlDeleteProviderAccount(id, stmt)
               \/ SqlRecordOutcome(id, success, until, stmt)
               \/ SqlUpsertProxy(id, row, stmt) \/ SqlDeleteProxy(id, stmt)
               \/ SqlUpsertInvoice(id, row) \/ SqlDeleteInvoice(id, stmt)
    <3>1. CASE UpsertProvider BY <3>1, Zenon DEF UpsertProvider
    <3>2. CASE DeleteProvider BY <3>2, Zenon DEF DeleteProvider
    <3>3. CASE UpsertProviderAccount BY <3>3, Zenon DEF UpsertProviderAccount
    <3>4. CASE DeleteProviderAccount BY <3>4, Zenon DEF DeleteProviderAccount
    <3>5. CASE RecordProviderAccountOutcome BY <3>5, Zenon DEF RecordProviderAccountOutcome
    <3>6. CASE UpsertProxy BY <3>6, Zenon DEF UpsertProxy
    <3>7. CASE DeleteProxy BY <3>7, Zenon DEF DeleteProxy
    <3>8. CASE UpsertInvoice BY <3>8, Zenon DEF UpsertInvoice
    <3>9. CASE DeleteInvoice BY <3>9, Zenon DEF DeleteInvoice
    <3> QED BY <1>3, <3>1, <3>2, <3>3, <3>4, <3>5, <3>6, <3>7, <3>8, <3>9
  <2>2. PICK kind, failed, differs :
          /\ Call(kind, failed, differs)
          /\ \E id, row, success, until :
               \/ FileUpsertProvider(id, row, Wrote(failed)) \/ FileDeleteProvider(id, Wrote(failed))
               \/ FileUpsertProviderAccount(id, row, Wrote(failed))
               \/ FileDeleteProviderAccount(id, Wrote(failed))
               \/ FileRecordOutcome(id, success, until, Wrote(failed))
               \/ FileUpsertProxy(id, row, Wrote(failed)) \/ FileDeleteProxy(id, Wrote(failed))
               \/ FileUpsertInvoice(id, row, Wrote(failed)) \/ FileDeleteInvoice(id, Wrote(failed))
          /\ \E id, row, success, until, stmt :
               \/ SqlUpsertProvider(id, row, stmt) \/ SqlDeleteProvider(id, stmt)
               \/ SqlUpsertProviderAccount(id, row, stmt) \/ SqlDeleteProviderAccount(id, stmt)
               \/ SqlRecordOutcome(id, success, until, stmt)
               \/ SqlUpsertProxy(id, row, stmt) \/ SqlDeleteProxy(id, stmt)
               \/ SqlUpsertInvoice(id, row) \/ SqlDeleteInvoice(id, stmt)
        BY <2>1
  <2>3. Wrote(failed) \in BOOLEAN /\ (failed = "none" => Wrote(failed)) BY DEF Wrote
  <2>4. FileStep(Wrote(failed)) /\ FileTrims BY <2>1, <2>2, <2>3, FileRowStep
  <2>5. SqlStep(TRUE) /\ SqlTrims BY <2>1, <2>2, SqlRowStep
  <2>6. Call(kind, failed, differs) /\ clock' \in Nat BY <1>0, <2>1, <2>2
  <2>7. LogsInv'
    <3>1. faults' \in Nat /\ (faults' = 0 => failed = "none" /\ faults = 0)
          BY <2>6 DEF LogsInv, Call
    <3> QED BY <2>3, <2>4, <2>5, <2>6, <3>1, StepsCombine
  <2> QED BY <2>4, <2>5, <2>7 DEF Trims
<1>4. CASE AddRequestLog
  <2> PICK raw \in BOOLEAN, failed \in {"none", "file", "debug", "payload", "log", "trim", "sweep"} :
        LET log == [time |-> clock + 1, raw |-> raw] IN
        /\ Call("log", failed, FALSE)
        /\ FileAddRequestLog(log, failed # "debug", Wrote(failed))
        /\ SqlAddRequestLog(log, IF failed = "debug" THEN "none" ELSE Stmt(failed))
        /\ clock' = clock + 1
        BY <1>4 DEF AddRequestLog
  <2> DEFINE stmt == IF failed = "debug" THEN "none" ELSE Stmt(failed)
  <2>1. Wrote(failed) \in BOOLEAN /\ (failed = "none" => Wrote(failed) /\ stmt = "none")
        BY DEF Wrote, Stmt
  <2>2. SqlAddRequestLog([time |-> clock + 1, raw |-> raw], stmt) OBVIOUS
  <2> HIDE DEF stmt
  <2>3. FileStep(Wrote(failed)) /\ FileTrims BY <2>1, FileAddLogStep
  <2>4. SqlStep(stmt = "none") /\ SqlTrims BY <2>2, SqlAddLogStep
  <2>5. clock' \in Nat BY <1>0
  <2> QED BY <2>1, <2>3, <2>4, <2>5, BothSteps DEF Trims
<1>5. CASE RecentRequestLogs
  <2> PICK failed \in {"none", "trim", "sweep"} :
        /\ Call("debug", failed, FALSE)
        /\ SqlRecentLogs(failed)
        /\ UNCHANGED <<fileVars, clock>>
        BY <1>5 DEF RecentRequestLogs
  <2>1. FileStep(TRUE) /\ FileTrims BY SameLogs
  <2>2. SqlStep(failed = "none") /\ SqlTrims BY SqlRecentLogsStep
  <2> QED BY <1>0, <2>1, <2>2, BothSteps DEF Trims
<1>6. CASE DeleteRequestDebugPayloads
  <2> PICK failed \in {"none", "file", "payload", "log"}, removed \in SUBSET debugFiles :
        /\ removed # debugFiles => failed = "file"
        /\ Call("debug", failed, FALSE)
        /\ FileDeleteDebugPayloads(removed, Wrote(failed))
        /\ SqlDeleteDebugPayloads(Stmt(failed))
        /\ UNCHANGED clock
        BY <1>6 DEF DeleteRequestDebugPayloads
  <2>1. /\ Wrote(failed) \in BOOLEAN
        /\ failed = "none" => Wrote(failed) /\ removed = debugFiles /\ Stmt(failed) = "none"
        BY DEF Wrote, Stmt
  <2>2. FileStep(Wrote(failed) /\ removed = debugFiles) /\ FileTrims BY <2>1, FileDeletePayloadsStep
  <2>3. SqlStep(Stmt(failed) = "none") /\ SqlTrims BY SqlDeletePayloadsStep
  <2> QED BY <1>0, <2>1, <2>2, <2>3, BothSteps DEF Trims
<1>7. CASE ResetAllData
  <2> PICK failed, seeded :
        /\ Call("reset", failed, DOMAIN tables.accounts # {})
        /\ FileReset(failed)
        /\ SqlReset(IF failed \in {"debug", "main", "logs"} THEN "none" ELSE failed, seeded)
        /\ UNCHANGED clock
        BY <1>7 DEF ResetAllData
  <2>1. calls'["reset"] # calls["reset"] BY CallCounts DEF Kinds
  <2>2. FileStep(failed = "none") BY FileResetStep
  <2>3. SqlStep(TRUE) BY SqlResetStep
  <2> QED BY <1>0, <2>1, <2>2, <2>3, BothSteps DEF Trims
<1>8. CASE Restart
  <2> USE <1>8 DEF Restart
  <2>1. FileStep(TRUE) /\ (unsaved = {} => FileTrims) BY FileLoadStep
  <2>2. SqlStep(TRUE) /\ SqlTrims BY SqlOpenStep
  <2>3. calls'["restart"] # calls["restart"] BY CallCounts DEF Kinds
  <2>4. LogsInv' BY <1>0, <2>1, <2>2, BothSteps
  <2> QED BY <2>1, <2>2, <2>3, <2>4 DEF Trims
<1>9. CASE UNCHANGED vars
  <2>1. UNCHANGED <<fileVars, sqlVars, clock, faults>> BY <1>9 DEF vars
  <2>2. FileStep(TRUE) /\ FileTrims BY <2>1, SameLogs
  <2>3. SqlStep(TRUE) /\ SqlTrims BY <2>1, SqlUnchangedStep
  <2>4. FileLogsInv' BY <2>2 DEF FileStep, FileLogsInv, FileKeeps
  <2>5. SqlLogsInv' BY <2>3 DEF SqlStep, SqlLogsInv, SqlKeeps
  <2>6. faults' = 0 => FilePayloads' /\ SqlPayloads'
        BY <2>1, <2>2, <2>3 DEF LogsInv, FileStep, SqlStep
  <2> QED BY <2>1, <2>2, <2>3, <2>4, <2>5, <2>6 DEF LogsInv, Trims
<1> QED BY <1>1, <1>2, <1>3, <1>4, <1>5, <1>6, <1>7, <1>8, <1>9 DEF Next

LEMMA InitLogs == Init => LogsInv
<1> SUFFICES ASSUME Init PROVE LogsInv OBVIOUS
<1>1. /\ clock = 0 /\ faults = 0 /\ db.settings = DefaultSettings /\ mainFile = db
      /\ logs = <<>> /\ logFile = <<>> /\ unsaved = {}
      BY DEF Init, FileInit
<1>2. /\ tables.settings = DefaultRow /\ sqlLogs = {} /\ payloads = {} /\ sinceGC = 0
      /\ keepLogs = DefaultSettings.keep
      BY DEF Init, SqlInit
<1>3. FileLogsInv BY <1>1, DefaultsKeep, OrderedNone DEF FileLogsInv, FileKeeps
<1>4. HasKeep(tables.settings[1]) BY <1>2, DefaultsKeep, NormalSettingsKeep DEF DefaultRow
<1>5. Distinct({}, clock) BY FS_EmptySet DEF Distinct
<1>6. SqlLogsInv BY <1>2, <1>4, <1>5, DefaultsKeep DEF SqlLogsInv, SqlKeeps
<1>7. FilePayloads /\ SqlPayloads BY <1>1, <1>2 DEF FilePayloads, SqlPayloads
<1> QED BY <1>1, <1>3, <1>6, <1>7 DEF LogsInv

LEMMA LogsAreKept == Spec => [](StoresInv /\ LogsInv)
<1>1. StoresInv /\ LogsInv /\ [Next]_vars => (StoresInv /\ LogsInv)'
  <2>1. StoresInv /\ [Next]_vars => StoresInv' BY NextIsGood DEF StepGood, StoresInv, Shaped
  <2> QED BY <2>1, NextLogs
<1> QED BY <1>1, InitHasShape, InitLogs, PTL DEF Spec

\* As long as no write fails, a log said to have a captured payload has it, in
\* either store and across restarts, retentions and resets; SQLite has no other.
THEOREM PayloadsAreWhereLogsSay == Spec => []PayloadsFollowLogs
<1>1. StoresInv /\ LogsInv => PayloadsFollowLogs
      BY DEF LogsInv, PayloadsFollowLogs, FilePayloads, SqlPayloads
<1> QED BY <1>1, LogsAreKept, PTL

\* A log leaves a store only when as many newer ones as the store has to keep
\* stay; excepted are resets, and a file store that restarts without what it
\* failed to write.
THEOREM NewestLogsAreKept == Spec => OnlyOldLogsAreTrimmed
<1>1. StoresInv /\ LogsInv /\ [Next]_vars =>
        [calls'["reset"] = calls["reset"] =>
         /\ unsaved = {} \/ calls'["restart"] = calls["restart"] =>
              \A t \in FileTimes(logs) \ FileTimes(logs') :
                 Cardinality({u \in FileTimes(logs') : u > t}) >= KeepLogs(db'.settings.keep)
         /\ \A t \in Times(sqlLogs) \ Times(sqlLogs') :
                 Cardinality({u \in Times(sqlLogs') : u > t}) >= KeepLogs(keepLogs')]_vars
      BY NextLogs DEF Trims, FileTrims, SqlTrims
<1> QED BY <1>1, LogsAreKept, PTL DEF Spec, OnlyOldLogsAreTrimmed

(***************************************************************************)
(* Lists in the order of a relation.                                       *)
(***************************************************************************)
\* A strict total order on a finite set.
Orders(R, S) ==
    /\ IsFiniteSet(S)
    /\ \A x \in S : <<x, x>> \notin R
    /\ \A x, y, z \in S : <<x, y>> \in R /\ <<y, z>> \in R => <<x, z>> \in R
    /\ \A x, y \in S : x = y \/ <<x, y>> \in R \/ <<y, x>> \in R

\* The members before x.
Below(x, S, R) == {y \in S : <<y, x>> \in R}

\* Every member has as many members before it as its rank says, and Sorted puts
\* it there.
LEMMA Ranks ==
    ASSUME NEW S, NEW R, Orders(R, S)
    PROVE  /\ Cardinality(S) \in Nat
           /\ \A x \in S : Cardinality(Below(x, S, R)) \in 0..(Cardinality(S) - 1)
           /\ \A x, y \in S : <<x, y>> \in R =>
                 Cardinality(Below(x, S, R)) < Cardinality(Below(y, S, R))
<1>1. IsFiniteSet(S) /\ Cardinality(S) \in Nat BY FS_CardinalityType DEF Orders
<1>2. ASSUME NEW x \in S
      PROVE  IsFiniteSet(Below(x, S, R)) /\ Cardinality(Below(x, S, R)) \in 0..(Cardinality(S) - 1)
  <2>1. IsFiniteSet(S \ {x}) /\ Cardinality(S \ {x}) = Cardinality(S) - 1
        BY <1>1, FS_RemoveElement
  <2>2. Below(x, S, R) \in SUBSET (S \ {x}) BY DEF Orders, Below
  <2>3. IsFiniteSet(Below(x, S, R)) /\ Cardinality(Below(x, S, R)) <= Cardinality(S) - 1
        BY <2>1, <2>2, FS_Subset
  <2>4. Cardinality(Below(x, S, R)) \in Nat BY <2>3, FS_CardinalityType
  <2> QED BY <1>1, <2>3, <2>4
<1>3. ASSUME NEW x \in S, NEW y \in S, <<x, y>> \in R
      PROVE  Cardinality(Below(x, S, R)) < Cardinality(Below(y, S, R))
  <2>1. Below(x, S, R) \cup {x} \in SUBSET Below(y, S, R) /\ x \notin Below(x, S, R)
        BY <1>3 DEF Orders, Below
  <2>2. Cardinality(Below(x, S, R) \cup {x}) = Cardinality(Below(x, S, R)) + 1
        BY <1>2, <2>1, FS_AddElement
  <2>3. Cardinality(Below(x, S, R) \cup {x}) <= Cardinality(Below(y, S, R))
        BY <1>2, <2>1, FS_Subset
  <2>4. Cardinality(Below(x, S, R)) \in Nat /\ Cardinality(Below(y, S, R)) \in Nat
        BY <1>1, <1>2
  <2> QED BY <2>2, <2>3, <2>4
<1> QED BY <1>1, <1>2, <1>3

LEMMA SortedIs ==
    ASSUME NEW S, NEW R, Orders(R, S)
    PROVE  /\ Cardinality(S) \in Nat /\ Len(Sorted(S, R)) = Cardinality(S)
           /\ Sorted(S, R) \in [1..Cardinality(S) -> S]
           /\ \A i, j \in 1..Cardinality(S) : i < j => <<Sorted(S, R)[i], Sorted(S, R)[j]>> \in R
           /\ \A x \in S : \E i \in 1..Cardinality(S) : Sorted(S, R)[i] = x
           /\ \A i \in 1..Cardinality(S) : Cardinality(Below(Sorted(S, R)[i], S, R)) = i - 1
<1> DEFINE n == Cardinality(S)
           s == Sorted(S, R)
           r == [x \in S |-> Cardinality(Below(x, S, R))]
           T == 0..(n - 1)
<1>1. /\ n \in Nat
      /\ \A x \in S : r[x] \in T
      /\ \A x, y \in S : <<x, y>> \in R => r[x] < r[y]
      BY Ranks
<1>2. \A x, y \in S : x = y \/ <<x, y>> \in R \/ <<y, x>> \in R BY DEF Orders
<1>3. s = [i \in 1..n |-> CHOOSE x \in S : Cardinality(Below(x, S, R)) = i - 1]
      BY DEF Sorted, Below
<1>4. \A x, y \in S : r[x] = r[y] => x = y
  <2> SUFFICES ASSUME NEW x \in S, NEW y \in S, x # y PROVE r[x] # r[y] OBVIOUS
  <2>1. r[x] \in Int /\ r[y] \in Int BY <1>1
  <2>2. r[x] < r[y] \/ r[y] < r[x] BY <1>1, <1>2
  <2> HIDE DEF r
  <2> QED BY <2>1, <2>2
<1>5. r \in Injection(S, T)
  <2> HIDE DEF T
  <2>1. r \in [S -> T] BY <1>1
  <2> HIDE DEF r
  <2> QED BY <2>1, <1>4 DEF Injection, IsInjective
<1>6. IsFiniteSet(T) /\ Cardinality(T) = n BY <1>1, FS_Interval
<1>7. IsFiniteSet(S) BY DEF Orders
<1>8. r \in Surjection(S, T)
  <2> HIDE DEF T, r
  <2> QED BY <1>5, <1>6, <1>7, FS_Injection
<1>9. \A i \in 1..n : \E x \in S : r[x] = i - 1
  <2>1. \A i \in 1..n : i - 1 \in T BY <1>1
  <2> HIDE DEF T, r
  <2> QED BY <1>8, <2>1 DEF Surjection
<1>10. \A x \in S : r[x] = Cardinality(Below(x, S, R)) OBVIOUS
<1> HIDE DEF r, s
<1>11. ASSUME NEW i \in 1..n PROVE s[i] \in S /\ r[s[i]] = i - 1
  <2>1. \E x \in S : Cardinality(Below(x, S, R)) = i - 1 BY <1>9, <1>10
  <2>2. s[i] = CHOOSE x \in S : Cardinality(Below(x, S, R)) = i - 1 BY <1>3
  <2>3. s[i] \in S /\ Cardinality(Below(s[i], S, R)) = i - 1 BY <2>1, <2>2
  <2> QED BY <1>10, <2>3
<1>12. s \in [1..n -> S] /\ Len(s) = n
  <2> HIDE DEF n
  <2>1. s = [i \in 1..n |-> s[i]] BY <1>3
  <2> QED BY <1>1, <1>11, <2>1
<1>13. ASSUME NEW i \in 1..n, NEW j \in 1..n, i < j PROVE <<s[i], s[j]>> \in R
  <2>1. s[i] \in S /\ s[j] \in S /\ r[s[i]] = i - 1 /\ r[s[j]] = j - 1 BY <1>11
  <2>2. s[i] # s[j] /\ ~(r[s[j]] < r[s[i]]) BY <1>1, <1>13, <2>1
  <2> QED BY <1>1, <1>2, <2>1, <2>2
<1>14. ASSUME NEW x \in S PROVE \E i \in 1..n : s[i] = x
  <2> DEFINE i == r[x] + 1
  <2>1. i \in 1..n /\ r[x] = i - 1 BY <1>1
  <2> HIDE DEF i
  <2>2. s[i] = x BY <1>4, <1>11, <2>1
  <2> QED BY <2>1, <2>2
<1>15. \A i \in 1..n : Cardinality(Below(s[i], S, R)) = i - 1 BY <1>10, <1>11
<1> QED BY <1>1, <1>12, <1>13, <1>14, <1>15 DEF s

(***************************************************************************)
(* Items at some of the indices of a list: they keep their order.          *)
(***************************************************************************)
LEMMA IndicesOrder ==
    ASSUME NEW n \in Nat, NEW at \in SUBSET (1..n)
    PROVE  Orders({p \in at \X at : p[1] < p[2]}, at)
<1>1. IsFiniteSet(at)
  <2>1. IsFiniteSet(1..n) BY FS_Interval
  <2> QED BY <2>1, FS_Subset
<1>2. at \subseteq Int OBVIOUS
<1> DEFINE R == {p \in at \X at : p[1] < p[2]}
<1>3. \A x, y \in at : <<x, y>> \in R <=> x < y OBVIOUS
<1> HIDE DEF R
<1>4. Orders(R, at) BY <1>1, <1>2, <1>3 DEF Orders
<1> QED BY <1>4 DEF R

LEMMA ItemsAtIs ==
    ASSUME NEW T, NEW items \in Seq(T), NEW at \in SUBSET (1..Len(items))
    PROVE  LET r == ItemsAt(items, at)
           IN  /\ r \in Seq(T)
               /\ \E f \in [1..Len(r) -> at] :
                     /\ \A k \in 1..Len(r) : r[k] = items[f[k]]
                     /\ \A j, k \in 1..Len(r) : j < k => f[j] < f[k]
<1> DEFINE R == {p \in at \X at : p[1] < p[2]}
           n == Cardinality(at)
           f == Sorted(at, R)
           r == ItemsAt(items, at)
<1>1. Len(items) \in Nat OBVIOUS
<1>2. Orders(R, at) BY <1>1, IndicesOrder
<1>3. r = [k \in 1..Len(f) |-> items[f[k]]] BY DEF ItemsAt
<1> HIDE DEF f, r
<1>4. /\ n \in Nat /\ Len(f) = n /\ f \in [1..n -> at]
      /\ \A i, j \in 1..n : i < j => <<f[i], f[j]>> \in R
      BY <1>2, SortedIs DEF f
<1>5. \A k \in 1..n : items[f[k]] \in T BY <1>4, ElementOfSeq
<1>6. r \in Seq(T) /\ Len(r) = n
  <2>1. r \in [1..n -> T] BY <1>3, <1>4, <1>5
  <2> QED BY <1>4, <2>1, SeqDef
<1>7. \A i, j \in 1..n : i < j => f[i] < f[j] BY <1>4
<1> HIDE DEF n, R
<1> QED BY <1>3, <1>4, <1>6, <1>7 DEF r

\* All of them are the list.
LEMMA ItemsAtAll ==
    ASSUME NEW T, NEW items \in Seq(T)
    PROVE  ItemsAt(items, 1..Len(items)) = items
<1> DEFINE m == Len(items)
           at == 1..m
           R == {p \in at \X at : p[1] < p[2]}
           f == Sorted(at, R)
<1>1. m \in Nat /\ Cardinality(at) = m
  <2>1. m \in Nat OBVIOUS
  <2> HIDE DEF m
  <2>2. Cardinality(1..m) = IF 1 > m THEN 0 ELSE m - 1 + 1 BY <2>1, FS_Interval
  <2> QED BY <2>1, <2>2
<1>2. Orders(R, at) BY <1>1, IndicesOrder
<1>3. /\ Len(f) = m /\ f \in [1..m -> at]
      /\ \A i \in 1..m : Cardinality(Below(f[i], at, R)) = i - 1
  <2> HIDE DEF f, m, at, R
  <2>1. /\ Len(f) = Cardinality(at) /\ f \in [1..Cardinality(at) -> at]
        /\ \A i \in 1..Cardinality(at) : Cardinality(Below(f[i], at, R)) = i - 1
        BY <1>2, SortedIs DEF f
  <2> QED BY <1>1, <2>1
<1>4. ASSUME NEW i \in 1..m PROVE f[i] = i
  <2> DEFINE k == f[i]
  <2>1. k \in 1..m BY <1>3
  <2> HIDE DEF f
  <2>2. Below(k, at, R) = 1..(k - 1)
    <3>1. \A y \in at : <<y, k>> \in R <=> y < k BY <2>1
    <3> HIDE DEF R
    <3> QED BY <1>1, <2>1, <3>1 DEF Below
  <2>3. Cardinality(1..(k - 1)) = k - 1 BY <2>1, FS_Interval
  <2>4. k - 1 = i - 1 BY <1>3, <2>2, <2>3
  <2> QED BY <1>1, <2>1, <2>4
<1>5. ItemsAt(items, at) = [k \in 1..Len(f) |-> items[f[k]]] BY DEF ItemsAt
<1> HIDE DEF f, R
<1>6. ItemsAt(items, at) = [k \in 1..m |-> items[k]] BY <1>3, <1>4, <1>5
<1> QED BY <1>6

(***************************************************************************)
(* Normalising a list again changes nothing: what the first pass leaves is *)
(* normal, valid and has names of its own, and of such a list all is kept. *)
(***************************************************************************)
LEMMA SeqWider == ASSUME NEW T, NEW V \in SUBSET T, NEW r \in Seq(V) PROVE r \in Seq(T)
<1>1. r \in [1..Len(r) -> V] /\ Len(r) \in Nat BY LenProperties
<1>2. r \in [1..Len(r) -> T] BY <1>1
<1> QED BY <1>1, <1>2, SeqDef

LEMMA MapIs ==
    ASSUME NEW S, NEW items \in Seq(S), NEW T, NEW g \in [1..Len(items) -> T]
    PROVE  g \in Seq(T) /\ Len(g) = Len(items)
<1>1. Len(items) \in Nat OBVIOUS
<1>2. g \in Seq(T) BY <1>1, SeqDef
<1> QED BY <1>1, <1>2, LenProperties

Valids(items, V) == {i \in 1..Len(items) : items[i] \in V}

LEMMA ValidsOnly ==
    ASSUME NEW T, NEW items \in Seq(T), NEW V
    PROVE  ItemsAt(items, Valids(items, V)) \in Seq(T \cap V)
<1> DEFINE at == Valids(items, V)
           r == ItemsAt(items, at)
<1>1. at \in SUBSET (1..Len(items)) BY DEF Valids
<1> HIDE DEF at, r
<1>2. r \in Seq(T) /\ \E f \in [1..Len(r) -> at] : \A k \in 1..Len(r) : r[k] = items[f[k]]
      BY <1>1, ItemsAtIs DEF r
<1>3. \A k \in 1..Len(r) : r[k] \in V BY <1>2 DEF at, Valids
<1>4. \A k \in 1..Len(r) : r[k] \in T BY <1>2, ElementOfSeq
<1>5. r \in [1..Len(r) -> T \cap V] /\ Len(r) \in Nat BY <1>2, <1>3, <1>4, LenProperties
<1> QED BY <1>5, SeqDef DEF r, at

LEMMA ValidsAll ==
    ASSUME NEW V, NEW items \in Seq(V) PROVE ItemsAt(items, Valids(items, V)) = items
<1>1. Valids(items, V) = 1..Len(items) BY ElementOfSeq DEF Valids
<1> QED BY <1>1, ItemsAtAll

\* The first valid items of each name.
Firsts(items, V, N) ==
    {i \in 1..Len(items) :
        items[i] \in V /\ \A j \in 1..(i - 1) : items[j] \in V => N[items[j]] # N[items[i]]}

Apart(items, N) == \A j, k \in 1..Len(items) : N[items[j]] = N[items[k]] => j = k

LEMMA FirstsApart ==
    ASSUME NEW T, NEW items \in Seq(T), NEW V, NEW N
    PROVE  /\ ItemsAt(items, Firsts(items, V, N)) \in Seq(T \cap V)
           /\ Apart(ItemsAt(items, Firsts(items, V, N)), N)
<1> DEFINE at == Firsts(items, V, N)
           r == ItemsAt(items, at)
<1>1. at \in SUBSET (1..Len(items)) BY DEF Firsts
<1> HIDE DEF at, r
<1>2. r \in Seq(T) /\ \E f \in [1..Len(r) -> at] :
          /\ \A k \in 1..Len(r) : r[k] = items[f[k]]
          /\ \A j, k \in 1..Len(r) : j < k => f[j] < f[k]
      BY <1>1, ItemsAtIs DEF r
<1>3. PICK f \in [1..Len(r) -> at] :
          /\ \A k \in 1..Len(r) : r[k] = items[f[k]]
          /\ \A j, k \in 1..Len(r) : j < k => f[j] < f[k]
      BY <1>2
<1>4. \A k \in 1..Len(r) : r[k] \in V BY <1>3 DEF at, Firsts
<1>5. \A k \in 1..Len(r) : r[k] \in T BY <1>2, ElementOfSeq
<1>6. r \in [1..Len(r) -> T \cap V] /\ Len(r) \in Nat BY <1>2, <1>4, <1>5, LenProperties
<1>7. r \in Seq(T \cap V) BY <1>6, SeqDef
<1>8. \A j, k \in 1..Len(r) : j < k => N[r[j]] # N[r[k]]
  <2> SUFFICES ASSUME NEW j \in 1..Len(r), NEW k \in 1..Len(r), j < k PROVE N[r[j]] # N[r[k]]
      OBVIOUS
  <2>1. f[j] \in at /\ f[k] \in at /\ f[j] < f[k] BY <1>3
  <2>2. f[j] \in 1..(f[k] - 1)
    <3>1. \A i \in at : i \in Int /\ i >= 1 BY <1>1
    <3> QED BY <2>1, <3>1
  <2>3. items[f[j]] \in V /\ (\A i \in 1..(f[k] - 1) : items[i] \in V => N[items[i]] # N[items[f[k]]])
        BY <2>1 DEF at, Firsts
  <2> QED BY <1>3, <2>2, <2>3
<1>9. Apart(r, N) BY <1>6, <1>8 DEF Apart
<1> QED BY <1>7, <1>9 DEF r, at

LEMMA FirstsAll ==
    ASSUME NEW V, NEW items \in Seq(V), NEW N, Apart(items, N)
    PROVE  ItemsAt(items, Firsts(items, V, N)) = items
<1>1. \A i \in 1..Len(items) : items[i] \in V BY ElementOfSeq
<1>2. Len(items) \in Nat OBVIOUS
<1>3. Firsts(items, V, N) = 1..Len(items) BY <1>1, <1>2 DEF Firsts, Apart
<1> QED BY <1>3, ItemsAtAll

\* Model ids.
LEMMA ModelsFirsts ==
    ASSUME NEW items \in Seq(STRING)
    PROVE  NormalizeModels(items) =
             ItemsAt(items, Firsts(items, STRING \ {""}, [x \in STRING |-> x]))
<1>1. \A i \in 1..Len(items) : items[i] \in STRING BY ElementOfSeq
<1>2. {i \in 1..Len(items) : items[i] # "" /\ \A j \in 1..(i - 1) : items[j] # "" => items[j] # items[i]}
      = Firsts(items, STRING \ {""}, [x \in STRING |-> x])
      BY <1>1 DEF Firsts
<1> QED BY <1>2 DEF NormalizeModels, FirstOfEach

\* Lists of valid entries with names of their own.
Lists(V, N) == {items \in Seq(V) : Apart(items, N)}

LEMMA FirstsLists ==
    ASSUME NEW T, NEW items \in Seq(T), NEW V \in SUBSET T, NEW N
    PROVE  ItemsAt(items, Firsts(items, V, N)) \in Lists(V, N)
<1>1. T \cap V = V OBVIOUS
<1> QED BY <1>1, FirstsApart DEF Lists

LEMMA ListsFirsts ==
    ASSUME NEW V, NEW N, NEW items \in Lists(V, N)
    PROVE  ItemsAt(items, Firsts(items, V, N)) = items
BY FirstsAll DEF Lists

NormalModels == Lists(STRING \ {""}, [x \in STRING |-> x])

LEMMA ModelsNormal ==
    /\ \A items \in Seq(STRING) : NormalizeModels(items) \in NormalModels
    /\ \A items \in NormalModels : NormalizeModels(items) = items
<1> DEFINE V == STRING \ {""}
           N == [x \in STRING |-> x]
<1>1. ASSUME NEW items \in Seq(STRING) PROVE NormalizeModels(items) \in NormalModels
  <2> DEFINE r == NormalizeModels(items)
  <2>1. r = ItemsAt(items, Firsts(items, V, N)) BY ModelsFirsts
  <2>2. V \in SUBSET STRING OBVIOUS
  <2> HIDE DEF r, N, V
  <2>3. r \in Lists(V, N) BY <2>1, <2>2, FirstsLists
  <2> QED BY <2>3 DEF r, V, N, NormalModels
<1>2. ASSUME NEW items \in NormalModels PROVE NormalizeModels(items) = items
  <2>1. items \in Seq(V) /\ Apart(items, N) BY DEF NormalModels, Lists
  <2>2. items \in Seq(STRING) BY <2>1, SeqWider
  <2>3. NormalizeModels(items) = ItemsAt(items, Firsts(items, V, N)) BY <2>2, ModelsFirsts
  <2> QED BY <2>3, ListsFirsts DEF NormalModels
<1> QED BY <1>1, <1>2

\* Combos.
NormalCombo == [name : STRING, models : NormalModels, strategy : {"round-robin", "fallback"},
                sticky : Nat \ {0}, context : Nat]

LEMMA ComboNormal ==
    /\ \A c \in Combos : NormalizeCombo(c) \in NormalCombo
    /\ \A c \in NormalCombo : NormalizeCombo(c) = c
<1> DEFINE models(c) == NormalizeModels(c.models)
           strategy(c) == Among({"round-robin"}, "fallback", c.strategy)
           sticky(c) == OrElse(1, c.sticky)
           context(c) == AtLeast(0, c.context)
<1>1. \A c : NormalizeCombo(c) = [c EXCEPT !.models = models(c), !.strategy = strategy(c),
                                           !.sticky = sticky(c), !.context = context(c)]
      BY DEF NormalizeCombo
<1>2. ASSUME NEW c \in Combos PROVE NormalizeCombo(c) \in NormalCombo
  <2>1. models(c) \in NormalModels BY ModelsNormal DEF Combos
  <2>2. strategy(c) \in {"round-robin", "fallback"} BY DEF Among
  <2>3. sticky(c) \in Nat \ {0} BY DEF OrElse, Combos
  <2>4. context(c) \in Nat BY DEF AtLeast, Combos
  <2> HIDE DEF models, strategy, sticky, context
  <2> QED BY <1>1, <2>1, <2>2, <2>3, <2>4 DEF Combos, NormalCombo
<1>3. ASSUME NEW c \in NormalCombo PROVE NormalizeCombo(c) = c
  <2>1. models(c) = c.models BY ModelsNormal DEF NormalCombo
  <2>2. strategy(c) = c.strategy BY DEF Among, NormalCombo
  <2>3. sticky(c) = c.sticky BY DEF OrElse, NormalCombo
  <2>4. context(c) = c.context BY DEF AtLeast, NormalCombo
  <2> HIDE DEF models, strategy, sticky, context
  <2> QED BY <1>1, <2>1, <2>2, <2>3, <2>4 DEF NormalCombo
<1> QED BY <1>2, <1>3

ComboName == [c \in NormalCombo |-> c.name]
KeptCombo == {c \in NormalCombo : c.name # "" /\ c.models # <<>>}
NormalCombos == Lists(KeptCombo, ComboName)

LEMMA CombosFirsts ==
    ASSUME NEW items, NEW g \in Seq(NormalCombo), g = Each(NormalizeCombo, items)
    PROVE  NormalizeCombos(items) = ItemsAt(g, Firsts(g, KeptCombo, ComboName))
<1>1. \A i \in 1..Len(g) : g[i] \in NormalCombo BY ElementOfSeq
<1>2. \A i \in 1..Len(g) : g[i] \in KeptCombo <=> g[i].name # "" /\ g[i].models # <<>>
      BY <1>1 DEF KeptCombo
<1>3. \A i \in 1..Len(g) : ComboName[g[i]] = g[i].name BY <1>1 DEF ComboName
<1>4. \A i \in 1..Len(g) : \A j \in 1..(i - 1) : j \in 1..Len(g) OBVIOUS
<1>5. ASSUME NEW i \in 1..Len(g)
      PROVE  (/\ g[i].name # "" /\ g[i].models # <<>>
              /\ \A j \in 1..(i - 1) : g[j].name # "" /\ g[j].models # <<>> => g[j].name # g[i].name)
             <=> i \in Firsts(g, KeptCombo, ComboName)
  <2> DEFINE kept(j) == g[j].name # "" /\ g[j].models # <<>>
  <2>1. \A j \in 1..Len(g) : kept(j) <=> g[j] \in KeptCombo BY <1>2
  <2> HIDE DEF kept
  <2>2. (kept(i) /\ \A j \in 1..(i - 1) : kept(j) => g[j].name # g[i].name)
        <=> i \in Firsts(g, KeptCombo, ComboName)
        BY <1>3, <1>4, <2>1 DEF Firsts
  <2> QED BY <2>2 DEF kept
<1>6. {i \in 1..Len(g) : /\ g[i].name # "" /\ g[i].models # <<>>
                         /\ \A j \in 1..(i - 1) : g[j].name # "" /\ g[j].models # <<>> =>
                               g[j].name # g[i].name} = Firsts(g, KeptCombo, ComboName)
  <2>1. Firsts(g, KeptCombo, ComboName) \subseteq 1..Len(g) BY DEF Firsts
  <2> QED BY <1>5, <2>1
<1> QED BY <1>6 DEF NormalizeCombos, FirstOfEach

LEMMA CombosNormal ==
    /\ \A items \in Seq(Combos) : NormalizeCombos(items) \in NormalCombos
    /\ \A items \in NormalCombos : NormalizeCombos(items) = items
<1>1. ASSUME NEW items \in Seq(Combos) PROVE NormalizeCombos(items) \in NormalCombos
  <2> DEFINE g == Each(NormalizeCombo, items)
  <2>1. \A i \in 1..Len(items) : NormalizeCombo(items[i]) \in NormalCombo
        BY ElementOfSeq, ComboNormal
  <2>2. g \in Seq(NormalCombo) BY <2>1, MapIs DEF Each
  <2>3. NormalizeCombos(items) = ItemsAt(g, Firsts(g, KeptCombo, ComboName))
        BY <2>2, CombosFirsts
  <2> HIDE DEF g
  <2> QED BY <2>2, <2>3, FirstsLists DEF NormalCombos, KeptCombo
<1>2. ASSUME NEW items \in NormalCombos PROVE NormalizeCombos(items) = items
  <2>1. items \in Seq(KeptCombo) /\ items \in Seq(NormalCombo)
        BY SeqWider DEF NormalCombos, Lists, KeptCombo
  <2>2. \A i \in 1..Len(items) : NormalizeCombo(items[i]) = items[i]
        BY <2>1, ElementOfSeq, ComboNormal
  <2>3. items = Each(NormalizeCombo, items) BY <2>1, <2>2 DEF Each
  <2>4. NormalizeCombos(items) = ItemsAt(items, Firsts(items, KeptCombo, ComboName))
        BY <2>1, <2>3, CombosFirsts
  <2> QED BY <2>4, ListsFirsts DEF NormalCombos
<1> QED BY <1>1, <1>2

\* Routes of a prompt router.
Levels == {"low", "medium", "high", ""}
NormalRoute == [role : STRING, complexity : Levels, risk : Levels, target : STRING]

LEMMA RouteNormal ==
    /\ \A r \in PromptRoutes : NormalizeRoute(r) \in NormalRoute
    /\ \A r \in NormalRoute : NormalizeRoute(r) = r
<1> DEFINE complexity(r) == Level(r.complexity)
           risk(r) == Level(r.risk)
<1>1. \A r : NormalizeRoute(r) = [r EXCEPT !.complexity = complexity(r), !.risk = risk(r)]
      BY DEF NormalizeRoute
<1>2. \A v : Level(v) \in Levels BY DEF Level, Among, Levels
<1>3. \A v \in Levels : Level(v) = v BY DEF Level, Among, Levels
<1>4. ASSUME NEW r \in PromptRoutes PROVE NormalizeRoute(r) \in NormalRoute
  <2>1. complexity(r) \in Levels /\ risk(r) \in Levels BY <1>2
  <2> HIDE DEF complexity, risk
  <2> QED BY <1>1, <2>1 DEF PromptRoutes, NormalRoute
<1>5. ASSUME NEW r \in NormalRoute PROVE NormalizeRoute(r) = r
  <2>1. complexity(r) = r.complexity /\ risk(r) = r.risk BY <1>3 DEF NormalRoute
  <2> HIDE DEF complexity, risk
  <2> QED BY <1>1, <2>1 DEF NormalRoute
<1> QED BY <1>4, <1>5

RouteName == [r \in NormalRoute |-> <<r.role, r.complexity, r.risk>>]
KeptRoute == {r \in NormalRoute : r.role # "" /\ r.target # ""}
NormalRoutes == Lists(KeptRoute, RouteName)

LEMMA RoutesFirsts ==
    ASSUME NEW items, NEW g \in Seq(NormalRoute), g = Each(NormalizeRoute, items)
    PROVE  NormalizeRoutes(items) = ItemsAt(g, Firsts(g, KeptRoute, RouteName))
<1>1. \A i \in 1..Len(g) : g[i] \in NormalRoute BY ElementOfSeq
<1>2. \A i \in 1..Len(g) : g[i] \in KeptRoute <=> g[i].role # "" /\ g[i].target # ""
      BY <1>1 DEF KeptRoute
<1>3. \A i \in 1..Len(g) : RouteName[g[i]] = <<g[i].role, g[i].complexity, g[i].risk>>
      BY <1>1 DEF RouteName
<1>4. \A i \in 1..Len(g) : \A j \in 1..(i - 1) : j \in 1..Len(g) OBVIOUS
<1>5. ASSUME NEW i \in 1..Len(g)
      PROVE  (/\ g[i].role # "" /\ g[i].target # ""
              /\ \A j \in 1..(i - 1) : g[j].role # "" /\ g[j].target # "" =>
                    <<g[j].role, g[j].complexity, g[j].risk>> # <<g[i].role, g[i].complexity, g[i].risk>>)
             <=> i \in Firsts(g, KeptRoute, RouteName)
  <2> DEFINE kept(j) == g[j].role # "" /\ g[j].target # ""
             name(j) == <<g[j].role, g[j].complexity, g[j].risk>>
  <2>1. \A j \in 1..Len(g) : kept(j) <=> g[j] \in KeptRoute BY <1>2
  <2>2. \A j \in 1..Len(g) : name(j) = RouteName[g[j]] BY <1>3
  <2> HIDE DEF kept, name
  <2>3. (kept(i) /\ \A j \in 1..(i - 1) : kept(j) => name(j) # name(i))
        <=> i \in Firsts(g, KeptRoute, RouteName)
        BY <1>4, <2>1, <2>2 DEF Firsts
  <2> QED BY <2>3 DEF kept, name
<1>6. {i \in 1..Len(g) :
          /\ g[i].role # "" /\ g[i].target # ""
          /\ \A j \in 1..(i - 1) : g[j].role # "" /\ g[j].target # "" =>
                <<g[j].role, g[j].complexity, g[j].risk>> # <<g[i].role, g[i].complexity, g[i].risk>>}
      = Firsts(g, KeptRoute, RouteName)
  <2>1. Firsts(g, KeptRoute, RouteName) \subseteq 1..Len(g) BY DEF Firsts
  <2> QED BY <1>5, <2>1
<1> QED BY <1>6 DEF NormalizeRoutes, FirstOfEach

LEMMA RoutesNormal ==
    /\ \A items \in Seq(PromptRoutes) : NormalizeRoutes(items) \in NormalRoutes
    /\ \A items \in NormalRoutes : NormalizeRoutes(items) = items
<1>1. ASSUME NEW items \in Seq(PromptRoutes) PROVE NormalizeRoutes(items) \in NormalRoutes
  <2> DEFINE g == Each(NormalizeRoute, items)
  <2>1. \A i \in 1..Len(items) : NormalizeRoute(items[i]) \in NormalRoute
        BY ElementOfSeq, RouteNormal
  <2>2. g \in Seq(NormalRoute) BY <2>1, MapIs DEF Each
  <2>3. NormalizeRoutes(items) = ItemsAt(g, Firsts(g, KeptRoute, RouteName))
        BY <2>2, RoutesFirsts
  <2> HIDE DEF g
  <2> QED BY <2>2, <2>3, FirstsLists DEF NormalRoutes, KeptRoute
<1>2. ASSUME NEW items \in NormalRoutes PROVE NormalizeRoutes(items) = items
  <2>1. items \in Seq(KeptRoute) /\ items \in Seq(NormalRoute)
        BY SeqWider DEF NormalRoutes, Lists, KeptRoute
  <2>2. \A i \in 1..Len(items) : NormalizeRoute(items[i]) = items[i]
        BY <2>1, ElementOfSeq, RouteNormal
  <2>3. items = Each(NormalizeRoute, items) BY <2>1, <2>2 DEF Each
  <2>4. NormalizeRoutes(items) = ItemsAt(items, Firsts(items, KeptRoute, RouteName))
        BY <2>1, <2>3, RoutesFirsts
  <2> QED BY <2>4, ListsFirsts DEF NormalRoutes
<1> QED BY <1>1, <1>2

\* Prompt routers.
NormalRouter ==
    {r \in [name : STRING, classifier : STRING, routes : NormalRoutes, fallback : STRING,
            fallbackRole : STRING] :
        r.routes # <<>> => r.fallback # "" /\ r.fallbackRole # ""}

LEMMA RouterNormal ==
    /\ \A r \in PromptRouters : NormalizePromptRouter(r) \in NormalRouter
    /\ \A r \in NormalRouter : NormalizePromptRouter(r) = r
<1> DEFINE routes(r) == NormalizeRoutes(r.routes)
           fallback(r) == IF r.fallback = "" /\ routes(r) # <<>> THEN routes(r)[1].target ELSE r.fallback
           role(r) == IF r.fallbackRole = "" /\ routes(r) # <<>> THEN routes(r)[1].role ELSE r.fallbackRole
<1>1. \A r : NormalizePromptRouter(r) =
               [r EXCEPT !.routes = routes(r), !.fallback = fallback(r), !.fallbackRole = role(r)]
      BY DEF NormalizePromptRouter
<1>2. ASSUME NEW r \in PromptRouters PROVE NormalizePromptRouter(r) \in NormalRouter
  <2>1. routes(r) \in NormalRoutes BY RoutesNormal DEF PromptRouters
  <2>2. routes(r) # <<>> => routes(r)[1] \in KeptRoute
    <3> HIDE DEF routes
    <3>1. routes(r) \in Seq(KeptRoute) BY <2>1 DEF NormalRoutes, Lists
    <3> QED BY <3>1, ElementOfSeq
  <2>3. /\ fallback(r) \in STRING /\ role(r) \in STRING
        /\ routes(r) # <<>> => fallback(r) # "" /\ role(r) # ""
    <3> HIDE DEF routes
    <3> QED BY <2>2 DEF PromptRouters, KeptRoute, NormalRoute
  <2> HIDE DEF routes, fallback, role
  <2>4. NormalizePromptRouter(r) =
          [name |-> r.name, classifier |-> r.classifier, routes |-> routes(r),
           fallback |-> fallback(r), fallbackRole |-> role(r)]
        BY <1>1 DEF PromptRouters
  <2>5. r.name \in STRING /\ r.classifier \in STRING BY DEF PromptRouters
  <2> DEFINE n == NormalizePromptRouter(r)
  <2> HIDE DEF n
  <2>6. n = [name |-> r.name, classifier |-> r.classifier, routes |-> routes(r),
             fallback |-> fallback(r), fallbackRole |-> role(r)]
        BY <2>4 DEF n
  <2>7. n \in NormalRouter BY <2>1, <2>3, <2>5, <2>6 DEF NormalRouter
  <2> QED BY <2>7 DEF n
<1>3. ASSUME NEW r \in NormalRouter PROVE NormalizePromptRouter(r) = r
  <2>1. routes(r) = r.routes BY RoutesNormal DEF NormalRouter
  <2>2. fallback(r) = r.fallback /\ role(r) = r.fallbackRole
    <3> HIDE DEF routes
    <3> QED BY <2>1 DEF NormalRouter
  <2> HIDE DEF routes, fallback, role
  <2> QED BY <1>1, <2>1, <2>2 DEF NormalRouter
<1> QED BY <1>2, <1>3

RouterName == [r \in NormalRouter |-> r.name]
KeptRouter == {r \in NormalRouter : r.name # "" /\ r.classifier # "" /\ r.routes # <<>>}
NormalRouters == Lists(KeptRouter, RouterName)

LEMMA RoutersFirsts ==
    ASSUME NEW items, NEW g \in Seq(NormalRouter), g = Each(NormalizePromptRouter, items)
    PROVE  NormalizePromptRouters(items) = ItemsAt(g, Firsts(g, KeptRouter, RouterName))
<1>1. \A i \in 1..Len(g) : g[i] \in NormalRouter BY ElementOfSeq
<1>2. \A i \in 1..Len(g) :
        g[i] \in KeptRouter <=> g[i].name # "" /\ g[i].classifier # "" /\ g[i].routes # <<>>
      BY <1>1 DEF KeptRouter
<1>3. \A i \in 1..Len(g) : RouterName[g[i]] = g[i].name BY <1>1 DEF RouterName
<1>4. \A i \in 1..Len(g) : \A j \in 1..(i - 1) : j \in 1..Len(g) OBVIOUS
<1>5. ASSUME NEW i \in 1..Len(g)
      PROVE  (/\ g[i].name # "" /\ g[i].classifier # "" /\ g[i].routes # <<>>
              /\ \A j \in 1..(i - 1) : g[j].name # "" /\ g[j].classifier # "" /\ g[j].routes # <<>> =>
                    g[j].name # g[i].name)
             <=> i \in Firsts(g, KeptRouter, RouterName)
  <2> DEFINE kept(j) == g[j].name # "" /\ g[j].classifier # "" /\ g[j].routes # <<>>
  <2>1. \A j \in 1..Len(g) : kept(j) <=> g[j] \in KeptRouter BY <1>2
  <2> HIDE DEF kept
  <2>2. (kept(i) /\ \A j \in 1..(i - 1) : kept(j) => g[j].name # g[i].name)
        <=> i \in Firsts(g, KeptRouter, RouterName)
        BY <1>3, <1>4, <2>1 DEF Firsts
  <2> QED BY <2>2 DEF kept
<1>6. {i \in 1..Len(g) :
          /\ g[i].name # "" /\ g[i].classifier # "" /\ g[i].routes # <<>>
          /\ \A j \in 1..(i - 1) : g[j].name # "" /\ g[j].classifier # "" /\ g[j].routes # <<>> =>
                g[j].name # g[i].name}
      = Firsts(g, KeptRouter, RouterName)
  <2>1. Firsts(g, KeptRouter, RouterName) \subseteq 1..Len(g) BY DEF Firsts
  <2> QED BY <1>5, <2>1
<1> QED BY <1>6 DEF NormalizePromptRouters, FirstOfEach

LEMMA RoutersNormal ==
    /\ \A items \in Seq(PromptRouters) : NormalizePromptRouters(items) \in NormalRouters
    /\ \A items \in NormalRouters : NormalizePromptRouters(items) = items
<1>1. ASSUME NEW items \in Seq(PromptRouters) PROVE NormalizePromptRouters(items) \in NormalRouters
  <2> DEFINE g == Each(NormalizePromptRouter, items)
  <2>1. \A i \in 1..Len(items) : NormalizePromptRouter(items[i]) \in NormalRouter
        BY ElementOfSeq, RouterNormal
  <2>2. g \in Seq(NormalRouter) BY <2>1, MapIs DEF Each
  <2>3. NormalizePromptRouters(items) = ItemsAt(g, Firsts(g, KeptRouter, RouterName))
        BY <2>2, RoutersFirsts
  <2> HIDE DEF g
  <2> QED BY <2>2, <2>3, FirstsLists DEF NormalRouters, KeptRouter
<1>2. ASSUME NEW items \in NormalRouters PROVE NormalizePromptRouters(items) = items
  <2>1. items \in Seq(KeptRouter) /\ items \in Seq(NormalRouter)
        BY SeqWider DEF NormalRouters, Lists, KeptRouter
  <2>2. \A i \in 1..Len(items) : NormalizePromptRouter(items[i]) = items[i]
        BY <2>1, ElementOfSeq, RouterNormal
  <2>3. items = Each(NormalizePromptRouter, items) BY <2>1, <2>2 DEF Each
  <2>4. NormalizePromptRouters(items) = ItemsAt(items, Firsts(items, KeptRouter, RouterName))
        BY <2>1, <2>3, RoutersFirsts
  <2> QED BY <2>4, ListsFirsts DEF NormalRouters
<1> QED BY <1>1, <1>2

\* Fusions: an expert has a target, which is not the fusion, and a name.
NormalExpert == [target : STRING \ {""}, name : STRING \ {""}, weight : Nat]

LEMMA ExpertNormal ==
    /\ \A e \in FusionExperts : e.target # "" =>
          NormalizeExpert(e) \in NormalExpert /\ NormalizeExpert(e).target = e.target
    /\ \A e \in NormalExpert : NormalizeExpert(e) = e
<1> DEFINE name(e) == IF e.name = "" THEN e.target ELSE e.name
           weight(e) == AtLeast(0, e.weight)
<1>1. \A e : NormalizeExpert(e) = [e EXCEPT !.name = name(e), !.weight = weight(e)]
      BY DEF NormalizeExpert
<1>2. ASSUME NEW e \in FusionExperts, e.target # ""
      PROVE  NormalizeExpert(e) \in NormalExpert /\ NormalizeExpert(e).target = e.target
  <2>1. name(e) \in STRING \ {""} BY <1>2 DEF FusionExperts
  <2>2. weight(e) \in Nat BY DEF FusionExperts, AtLeast
  <2> HIDE DEF name, weight
  <2> QED BY <1>1, <1>2, <2>1, <2>2 DEF FusionExperts, NormalExpert
<1>3. ASSUME NEW e \in NormalExpert PROVE NormalizeExpert(e) = e
  <2>1. name(e) = e.name BY DEF NormalExpert
  <2>0. e.weight \in Nat BY DEF NormalExpert
  <2>2. weight(e) = e.weight BY <2>0 DEF AtLeast
  <2> HIDE DEF name, weight
  <2> QED BY <1>1, <2>1, <2>2 DEF NormalExpert
<1> QED BY <1>2, <1>3

NormalFusion ==
    {f \in [name : STRING, mode : {"sequential", "parallel"}, timeout : Nat \ {0}, maxOutput : Nat,
            experts : Seq(NormalExpert), minimum : Nat] :
        /\ f.minimum <= Len(f.experts)
        /\ \A i \in 1..Len(f.experts) : f.experts[i].target # f.name}

\* The experts NormalizeFusion keeps of a list, under a name.
ExpertsOf(items, name) == Each(NormalizeExpert, Only(items, LAMBDA e : e.target \notin {"", name}))

LEMMA ExpertsNormal ==
    ASSUME NEW name
    PROVE  /\ \A items \in Seq(FusionExperts) :
                /\ ExpertsOf(items, name) \in Seq(NormalExpert)
                /\ \A i \in 1..Len(ExpertsOf(items, name)) : ExpertsOf(items, name)[i].target # name
           /\ \A items \in Seq(NormalExpert) :
                (\A i \in 1..Len(items) : items[i].target # name) => ExpertsOf(items, name) = items
<1>1. ASSUME NEW items \in Seq(FusionExperts)
      PROVE  /\ ExpertsOf(items, name) \in Seq(NormalExpert)
             /\ \A i \in 1..Len(ExpertsOf(items, name)) : ExpertsOf(items, name)[i].target # name
  <2> DEFINE V == {e \in FusionExperts : e.target \notin {"", name}}
             r == ItemsAt(items, Valids(items, V))
             g == [i \in 1..Len(r) |-> NormalizeExpert(r[i])]
  <2>1. \A i \in 1..Len(items) : items[i] \in V <=> items[i].target \notin {"", name}
        BY ElementOfSeq
  <2>2. {i \in 1..Len(items) : items[i].target \notin {"", name}} = Valids(items, V)
        BY <2>1 DEF Valids
  <2>3. ExpertsOf(items, name) = g BY <2>2 DEF ExpertsOf, Only, Each
  <2>4. r \in Seq(V)
    <3>1. FusionExperts \cap V = V OBVIOUS
    <3> HIDE DEF V
    <3> QED BY <3>1, ValidsOnly
  <2> HIDE DEF r
  <2>5. \A i \in 1..Len(r) : r[i] \in FusionExperts /\ r[i].target \notin {"", name}
    <3>1. \A e \in V : e \in FusionExperts /\ e.target \notin {"", name} OBVIOUS
    <3> HIDE DEF V
    <3> QED BY <2>4, <3>1, ElementOfSeq
  <2>6. \A i \in 1..Len(r) : NormalizeExpert(r[i]) \in NormalExpert /\ NormalizeExpert(r[i]).target # name
        BY <2>5, ExpertNormal
  <2>7. g \in Seq(NormalExpert) /\ Len(g) = Len(r)
    <3> HIDE DEF V
    <3> QED BY <2>4, <2>6, MapIs
  <2>8. \A i \in 1..Len(g) : g[i].target # name BY <2>6, <2>7
  <2> QED BY <2>3, <2>7, <2>8
<1>2. ASSUME NEW items \in Seq(NormalExpert), \A i \in 1..Len(items) : items[i].target # name
      PROVE  ExpertsOf(items, name) = items
  <2>1. \A i \in 1..Len(items) : items[i] \in NormalExpert BY ElementOfSeq
  <2>2. \A i \in 1..Len(items) : items[i].target \notin {"", name} BY <1>2, <2>1 DEF NormalExpert
  <2>3. {i \in 1..Len(items) : items[i].target \notin {"", name}} = 1..Len(items) BY <2>2
  <2>4. Only(items, LAMBDA e : e.target \notin {"", name}) = items BY <2>3, ItemsAtAll DEF Only
  <2>5. \A i \in 1..Len(items) : NormalizeExpert(items[i]) = items[i] BY <2>1, ExpertNormal
  <2>6. [i \in 1..Len(items) |-> NormalizeExpert(items[i])] = items BY <2>5
  <2> QED BY <2>4, <2>6 DEF ExpertsOf, Each
<1> QED BY <1>1, <1>2

LEMMA FusionNormal ==
    /\ \A f \in Fusions : NormalizeFusion(f) \in NormalFusion
    /\ \A f \in NormalFusion : NormalizeFusion(f) = f
<1> DEFINE mode(f) == Among({"sequential"}, "parallel", f.mode)
           timeout(f) == OrElse(120000, f.timeout)
           output(f) == AtLeast(0, f.maxOutput)
           experts(f) == ExpertsOf(f.experts, f.name)
           minimum(f) == AtMost(Len(experts(f)), AtLeast(0, f.minimum))
<1>1. \A f : NormalizeFusion(f) =
               [f EXCEPT !.mode = mode(f), !.timeout = timeout(f), !.maxOutput = output(f),
                         !.experts = experts(f), !.minimum = minimum(f)]
      BY DEF NormalizeFusion, ExpertsOf
<1>2. ASSUME NEW f \in Fusions PROVE NormalizeFusion(f) \in NormalFusion
  <2>1. f.experts \in Seq(FusionExperts) BY DEF Fusions
  <2>2. /\ experts(f) \in Seq(NormalExpert)
        /\ \A i \in 1..Len(experts(f)) : experts(f)[i].target # f.name
        BY <2>1, ExpertsNormal
  <2> HIDE DEF experts
  <2>3. Len(experts(f)) \in Nat BY <2>2
  <2>4. minimum(f) \in Nat /\ minimum(f) <= Len(experts(f)) BY <2>3 DEF Fusions, AtMost, AtLeast
  <2>5. mode(f) \in {"sequential", "parallel"} BY DEF Among
  <2>6. timeout(f) \in Nat \ {0} /\ output(f) \in Nat BY DEF Fusions, OrElse, AtLeast
  <2>7. f.name \in STRING BY DEF Fusions
  <2> HIDE DEF mode, timeout, output, minimum
  <2> DEFINE n == NormalizeFusion(f)
  <2> HIDE DEF n
  <2>8. n = [name |-> f.name, mode |-> mode(f), timeout |-> timeout(f), maxOutput |-> output(f),
             experts |-> experts(f), minimum |-> minimum(f)]
        BY <1>1 DEF Fusions, n
  <2>9. n \in NormalFusion BY <2>2, <2>4, <2>5, <2>6, <2>7, <2>8 DEF NormalFusion
  <2> QED BY <2>9 DEF n
<1>3. ASSUME NEW f \in NormalFusion PROVE NormalizeFusion(f) = f
  <2>1. experts(f) = f.experts BY ExpertsNormal DEF NormalFusion
  <2> HIDE DEF experts
  <2>2. Len(f.experts) \in Nat BY DEF NormalFusion
  <2>3. minimum(f) = f.minimum BY <2>1, <2>2 DEF NormalFusion, AtMost, AtLeast
  <2>4. mode(f) = f.mode BY DEF NormalFusion, Among
  <2>5. timeout(f) = f.timeout /\ output(f) = f.maxOutput BY DEF NormalFusion, OrElse, AtLeast
  <2> HIDE DEF mode, timeout, output, minimum
  <2> QED BY <1>1, <2>1, <2>3, <2>4, <2>5 DEF NormalFusion
<1> QED BY <1>2, <1>3

FusionName == [f \in NormalFusion |-> f.name]
KeptFusion == {f \in NormalFusion : f.name # ""}
NormalFusions == Lists(KeptFusion, FusionName)

LEMMA FusionsFirsts ==
    ASSUME NEW items, NEW g \in Seq(NormalFusion), g = Each(NormalizeFusion, items)
    PROVE  NormalizeFusions(items) = ItemsAt(g, Firsts(g, KeptFusion, FusionName))
<1>1. \A i \in 1..Len(g) : g[i] \in NormalFusion BY ElementOfSeq
<1>2. \A i \in 1..Len(g) : g[i] \in KeptFusion <=> g[i].name # "" BY <1>1 DEF KeptFusion
<1>3. \A i \in 1..Len(g) : FusionName[g[i]] = g[i].name BY <1>1 DEF FusionName
<1>4. \A i \in 1..Len(g) : \A j \in 1..(i - 1) : j \in 1..Len(g) OBVIOUS
<1>5. ASSUME NEW i \in 1..Len(g)
      PROVE  (g[i].name # "" /\ \A j \in 1..(i - 1) : g[j].name # "" => g[j].name # g[i].name)
             <=> i \in Firsts(g, KeptFusion, FusionName)
      BY <1>2, <1>3, <1>4 DEF Firsts
<1>6. {i \in 1..Len(g) : g[i].name # "" /\ \A j \in 1..(i - 1) : g[j].name # "" => g[j].name # g[i].name}
      = Firsts(g, KeptFusion, FusionName)
  <2>1. Firsts(g, KeptFusion, FusionName) \subseteq 1..Len(g) BY DEF Firsts
  <2> QED BY <1>5, <2>1
<1> QED BY <1>6 DEF NormalizeFusions, FirstOfEach

LEMMA FusionsNormal ==
    /\ \A items \in Seq(Fusions) : NormalizeFusions(items) \in NormalFusions
    /\ \A items \in NormalFusions : NormalizeFusions(items) = items
<1>1. ASSUME NEW items \in Seq(Fusions) PROVE NormalizeFusions(items) \in NormalFusions
  <2> DEFINE g == Each(NormalizeFusion, items)
  <2>1. \A i \in 1..Len(items) : NormalizeFusion(items[i]) \in NormalFusion
        BY ElementOfSeq, FusionNormal
  <2>2. g \in Seq(NormalFusion) BY <2>1, MapIs DEF Each
  <2>3. NormalizeFusions(items) = ItemsAt(g, Firsts(g, KeptFusion, FusionName))
        BY <2>2, FusionsFirsts
  <2> HIDE DEF g
  <2> QED BY <2>2, <2>3, FirstsLists DEF NormalFusions, KeptFusion
<1>2. ASSUME NEW items \in NormalFusions PROVE NormalizeFusions(items) = items
  <2>1. items \in Seq(KeptFusion) /\ items \in Seq(NormalFusion)
        BY SeqWider DEF NormalFusions, Lists, KeptFusion
  <2>2. \A i \in 1..Len(items) : NormalizeFusion(items[i]) = items[i]
        BY <2>1, ElementOfSeq, FusionNormal
  <2>3. items = Each(NormalizeFusion, items) BY <2>1, <2>2 DEF Each
  <2>4. NormalizeFusions(items) = ItemsAt(items, Firsts(items, KeptFusion, FusionName))
        BY <2>1, <2>3, FusionsFirsts
  <2> QED BY <2>4, ListsFirsts DEF NormalFusions
<1> QED BY <1>1, <1>2

\* Guardrails: the policies of a rule are known, and there is one.
PolicyName == [p \in STRING \cup Policies |-> p]
NormalPolicies == Lists(Policies, PolicyName) \ {<<>>}

LEMMA PoliciesNormal ==
    /\ \A items \in Seq(STRING) : NormalizePolicies(items) \in NormalPolicies
    /\ \A items \in NormalPolicies : NormalizePolicies(items) = items
<1> DEFINE S == STRING \cup Policies
           Known(items) == FirstOfEach(items, LAMBDA p : p, LAMBDA p : p \in Policies)
<1>1. ASSUME NEW items \in Seq(S)
      PROVE  Known(items) = ItemsAt(items, Firsts(items, Policies, PolicyName))
  <2>1. \A i \in 1..Len(items) : items[i] \in S BY ElementOfSeq
  <2>2. \A i \in 1..Len(items) : PolicyName[items[i]] = items[i] BY <2>1 DEF PolicyName
  <2>3. \A i \in 1..Len(items) : \A j \in 1..(i - 1) : j \in 1..Len(items) OBVIOUS
  <2>4. {i \in 1..Len(items) : /\ items[i] \in Policies
                               /\ \A j \in 1..(i - 1) : items[j] \in Policies => items[j] # items[i]}
        = Firsts(items, Policies, PolicyName)
        BY <2>2, <2>3 DEF Firsts
  <2> QED BY <2>4 DEF FirstOfEach
<1>2. Policies \in SUBSET S OBVIOUS
<1>3. \A items \in Seq(S) : Known(items) \in Lists(Policies, PolicyName)
  <2> HIDE DEF S, Known
  <2> QED BY <1>1, <1>2, FirstsLists
<1>4. \A items \in Lists(Policies, PolicyName) : Known(items) = items
  <2> HIDE DEF S, Known
  <2>1. \A items \in Lists(Policies, PolicyName) : items \in Seq(S) BY <1>2, SeqWider DEF Lists
  <2> QED BY <1>1, <2>1, ListsFirsts
<1>5. \A items : NormalizePolicies(items) =
        IF Known(items) = <<>> THEN <<"safety", "quality", "format", "privacy">> ELSE Known(items)
      BY DEF NormalizePolicies
<1>6. <<"safety", "quality", "format", "privacy">> \in NormalPolicies
  <2> DEFINE all == <<"safety", "quality", "format", "privacy">>
  <2>1. all \in Seq(Policies) /\ all # <<>> BY DEF Policies
  <2>2. Apart(all, PolicyName)
    <3>1. Len(all) = 4 OBVIOUS
    <3>2. \A p \in Policies : PolicyName[p] = p BY DEF PolicyName
    <3>3. \A j \in 1..4 : all[j] \in Policies BY DEF Policies
    <3>4. \A j, k \in 1..4 : all[j] = all[k] => j = k OBVIOUS
    <3> QED BY <3>1, <3>2, <3>3, <3>4 DEF Apart
  <2> QED BY <2>1, <2>2 DEF NormalPolicies, Lists
<1>7. \A items \in Seq(STRING) : items \in Seq(S)
  <2>1. STRING \in SUBSET S OBVIOUS
  <2> HIDE DEF S
  <2> QED BY <2>1, SeqWider
<1> HIDE DEF Known, S
<1> QED BY <1>3, <1>4, <1>5, <1>6, <1>7 DEF NormalPolicies

(***************************************************************************)
(* Guardrails: the stages, the limits and the rest.                        *)
(***************************************************************************)
NormalStages ==
    {t \in GuardrailStages :
        /\ t.optimizerOn => t.optimizer # ""
        /\ t.optimizerOpen \/ t.validatorOpen}

\* What of the stages a valid rule is asked.
StageValid(t, name) ==
    /\ t.validatorOn => t.validator \notin {"", name}
    /\ t.optimizerOn => t.optimizer # name

LEMMA StagesNormal ==
    /\ \A t \in GuardrailStages :
          /\ NormalizeStages(t) \in NormalStages
          /\ \A name : StageValid(t, name) => StageValid(NormalizeStages(t), name)
    /\ \A t \in NormalStages : NormalizeStages(t) = t
<1> DEFINE on(t) == t.optimizerOn /\ t.optimizer # ""
           open(t) == t.optimizerOpen \/ ~t.validatorOpen
           second(t) == t.validatorOpen \/ ~t.optimizerOpen
<1>1. \A t : NormalizeStages(t) =
               [t EXCEPT !.optimizerOn = on(t), !.optimizerOpen = open(t), !.validatorOpen = second(t)]
      BY DEF NormalizeStages
<1>2. ASSUME NEW t \in GuardrailStages
      PROVE  /\ NormalizeStages(t) \in NormalStages
             /\ \A name : StageValid(t, name) => StageValid(NormalizeStages(t), name)
  <2>1. on(t) \in BOOLEAN /\ (on(t) => t.optimizerOn /\ t.optimizer # "") OBVIOUS
  <2>2. open(t) \in BOOLEAN /\ second(t) \in BOOLEAN /\ (open(t) \/ second(t)) OBVIOUS
  <2> HIDE DEF on, open, second
  <2> DEFINE n == [t EXCEPT !.optimizerOn = on(t), !.optimizerOpen = open(t), !.validatorOpen = second(t)]
  <2>3. n \in GuardrailStages BY <2>1, <2>2 DEF GuardrailStages
  <2>4. /\ n.optimizerOn = on(t) /\ n.optimizer = t.optimizer
        /\ n.validatorOn = t.validatorOn /\ n.validator = t.validator
        /\ n.optimizerOpen = open(t) /\ n.validatorOpen = second(t)
        BY DEF GuardrailStages
  <2> HIDE DEF n
  <2>5. n \in NormalStages BY <2>1, <2>2, <2>3, <2>4 DEF NormalStages
  <2>6. \A name : StageValid(t, name) => StageValid(n, name) BY <2>1, <2>4 DEF StageValid
  <2> QED BY <1>1, <2>5, <2>6 DEF n
<1>3. ASSUME NEW t \in NormalStages PROVE NormalizeStages(t) = t
  <2>1. t \in GuardrailStages BY DEF NormalStages
  <2>2. /\ t.optimizerOn \in BOOLEAN /\ t.optimizerOpen \in BOOLEAN /\ t.validatorOpen \in BOOLEAN
        BY <2>1 DEF GuardrailStages
  <2>3. (t.optimizerOn => t.optimizer # "") /\ (t.optimizerOpen \/ t.validatorOpen) BY DEF NormalStages
  <2>4. on(t) = t.optimizerOn /\ open(t) = t.optimizerOpen /\ second(t) = t.validatorOpen
        BY <2>2, <2>3
  <2> HIDE DEF on, open, second
  <2>5. [t EXCEPT !.optimizerOn = on(t), !.optimizerOpen = open(t), !.validatorOpen = second(t)] = t
        BY <2>1, <2>4 DEF GuardrailStages
  <2> QED BY <1>1, <2>5
<1> QED BY <1>2, <1>3

Timeouts == {n \in Int : 1 <= n /\ n <= 180000}
PatchSizes == {n \in Int : 1 <= n /\ n <= 1024}
NormalLimits == [optimizerMs : Timeouts, mainMs : Timeouts, validatorMs : Timeouts, patches : PatchSizes]

LEMMA TimeoutNormal ==
    /\ \A n \in Int : NormalizeTimeout(30000, n) \in Timeouts /\ NormalizeTimeout(120000, n) \in Timeouts
    /\ \A n \in Timeouts : NormalizeTimeout(30000, n) = n /\ NormalizeTimeout(120000, n) = n
<1>1. \A n \in Int : NormalizeTimeout(30000, n) \in Timeouts
      BY DEF NormalizeTimeout, AtMost, OrElse, Timeouts
<1>2. \A n \in Int : NormalizeTimeout(120000, n) \in Timeouts
      BY DEF NormalizeTimeout, AtMost, OrElse, Timeouts
<1>3. \A n \in Timeouts : NormalizeTimeout(30000, n) = n
      BY DEF NormalizeTimeout, AtMost, OrElse, Timeouts
<1>4. \A n \in Timeouts : NormalizeTimeout(120000, n) = n
      BY DEF NormalizeTimeout, AtMost, OrElse, Timeouts
<1> QED BY <1>1, <1>2, <1>3, <1>4

LEMMA LimitsNormal ==
    /\ \A l \in GuardrailLimits : NormalizeLimits(l) \in NormalLimits
    /\ \A l \in NormalLimits : NormalizeLimits(l) = l
<1> DEFINE optimizerMs(l) == NormalizeTimeout(30000, l.optimizerMs)
           mainMs(l) == NormalizeTimeout(120000, l.mainMs)
           validatorMs(l) == NormalizeTimeout(30000, l.validatorMs)
           patches(l) == AtMost(1024, OrElse(128, l.patches))
<1>1. \A l : NormalizeLimits(l) =
        [l EXCEPT !.optimizerMs = optimizerMs(l), !.mainMs = mainMs(l),
                  !.validatorMs = validatorMs(l), !.patches = patches(l)]
      BY DEF NormalizeLimits
<1>2. ASSUME NEW l \in GuardrailLimits PROVE NormalizeLimits(l) \in NormalLimits
  <2>1. l.optimizerMs \in Int /\ l.mainMs \in Int /\ l.validatorMs \in Int /\ l.patches \in Int
        BY DEF GuardrailLimits
  <2>2. optimizerMs(l) \in Timeouts /\ mainMs(l) \in Timeouts /\ validatorMs(l) \in Timeouts
        BY <2>1, TimeoutNormal
  <2>3. patches(l) \in PatchSizes BY <2>1 DEF AtMost, OrElse, PatchSizes
  <2> HIDE DEF optimizerMs, mainMs, validatorMs, patches
  <2>4. [l EXCEPT !.optimizerMs = optimizerMs(l), !.mainMs = mainMs(l),
                  !.validatorMs = validatorMs(l), !.patches = patches(l)] \in NormalLimits
        BY <2>2, <2>3 DEF GuardrailLimits, NormalLimits
  <2> QED BY <1>1, <2>4
<1>3. ASSUME NEW l \in NormalLimits PROVE NormalizeLimits(l) = l
  <2>1. /\ l.optimizerMs \in Timeouts /\ l.mainMs \in Timeouts /\ l.validatorMs \in Timeouts
        /\ l.patches \in PatchSizes
        BY DEF NormalLimits
  <2>2. optimizerMs(l) = l.optimizerMs /\ mainMs(l) = l.mainMs /\ validatorMs(l) = l.validatorMs
        BY <2>1, TimeoutNormal
  <2>3. patches(l) = l.patches BY <2>1 DEF PatchSizes, AtMost, OrElse
  <2> HIDE DEF optimizerMs, mainMs, validatorMs, patches
  <2>4. [l EXCEPT !.optimizerMs = optimizerMs(l), !.mainMs = mainMs(l),
                  !.validatorMs = validatorMs(l), !.patches = patches(l)] = l
        BY <2>2, <2>3 DEF NormalLimits
  <2> QED BY <1>1, <2>4
<1> QED BY <1>2, <1>3

KeptRule == {g \in Guardrails : GuardrailValid(g)}
RuleModes == {"buffered", "stream"}
Schemas == {1}
RuleRow == [name : STRING, main : STRING, schema : Schemas, mode : RuleModes, policies : NormalPolicies,
            stages : NormalStages, limits : NormalLimits]
NormalRule == {g \in RuleRow : GuardrailValid(g)}

LEMMA RuleNormal ==
    /\ \A g \in KeptRule :
          NormalizeGuardrail(g) \in NormalRule /\ NormalizeGuardrail(g).name = g.name
    /\ \A g \in NormalRule : NormalizeGuardrail(g) = g
<1> DEFINE mode(g) == Among({"buffered"}, "stream", g.mode)
           policies(g) == NormalizePolicies(g.policies)
           stages(g) == NormalizeStages(g.stages)
           limits(g) == NormalizeLimits(g.limits)
<1>1. \A g : NormalizeGuardrail(g) =
               [g EXCEPT !.schema = 1, !.mode = mode(g), !.policies = policies(g),
                         !.stages = stages(g), !.limits = limits(g)]
      BY DEF NormalizeGuardrail
<1>2. ASSUME NEW g \in KeptRule
      PROVE  NormalizeGuardrail(g) \in NormalRule /\ NormalizeGuardrail(g).name = g.name
  <2>1. g \in Guardrails /\ GuardrailValid(g) BY DEF KeptRule
  <2>2. g.policies \in Seq(STRING) /\ g.stages \in GuardrailStages /\ g.limits \in GuardrailLimits
        BY <2>1 DEF Guardrails
  <2>3. mode(g) \in RuleModes BY DEF Among, RuleModes
  <2>4. policies(g) \in NormalPolicies BY <2>2, PoliciesNormal
  <2>5. stages(g) \in NormalStages /\ limits(g) \in NormalLimits
        BY <2>2, StagesNormal, LimitsNormal
  <2>6. StageValid(g.stages, g.name) BY <2>1 DEF GuardrailValid, StageValid
  <2>7. StageValid(stages(g), g.name) BY <2>2, <2>6, StagesNormal
  <2>8. 1 \in Schemas BY DEF Schemas
  <2> HIDE DEF mode, policies, stages, limits
  <2> DEFINE n == [g EXCEPT !.schema = 1, !.mode = mode(g), !.policies = policies(g),
                            !.stages = stages(g), !.limits = limits(g)]
  <2>9. n \in RuleRow BY <2>1, <2>3, <2>4, <2>5, <2>8 DEF Guardrails, RuleRow
  <2>10. n.name = g.name /\ n.main = g.main /\ n.stages = stages(g) BY <2>1 DEF Guardrails
  <2> HIDE DEF n
  <2>11. GuardrailValid(n) BY <2>1, <2>7, <2>10 DEF GuardrailValid, StageValid
  <2>12. n \in NormalRule /\ n.name = g.name BY <2>9, <2>10, <2>11 DEF NormalRule
  <2> QED BY <1>1, <2>12 DEF n
<1>3. ASSUME NEW g \in NormalRule PROVE NormalizeGuardrail(g) = g
  <2>1. g \in RuleRow BY DEF NormalRule
  <2>2. /\ g.mode \in RuleModes /\ g.policies \in NormalPolicies /\ g.schema \in Schemas
        /\ g.stages \in NormalStages /\ g.limits \in NormalLimits
        BY <2>1 DEF RuleRow
  <2>3. mode(g) = g.mode BY <2>2 DEF Among, RuleModes
  <2>4. policies(g) = g.policies BY <2>2, PoliciesNormal
  <2>5. stages(g) = g.stages /\ limits(g) = g.limits BY <2>2, StagesNormal, LimitsNormal
  <2>6. g.schema = 1 BY <2>2 DEF Schemas
  <2> HIDE DEF mode, policies, stages, limits
  <2>7. [g EXCEPT !.schema = 1, !.mode = mode(g), !.policies = policies(g),
                  !.stages = stages(g), !.limits = limits(g)] = g
        BY <2>1, <2>3, <2>4, <2>5, <2>6 DEF RuleRow
  <2> QED BY <1>1, <2>7
<1> QED BY <1>2, <1>3

RuleName == [g \in Guardrails \cup NormalRule |-> g.name]
NormalGuardrails == Lists(NormalRule, RuleName)

LEMMA RulesFirsts ==
    ASSUME NEW T \in SUBSET (Guardrails \cup NormalRule), NEW g \in Seq(T),
           NEW V, \A x \in T : x \in V <=> GuardrailValid(x)
    PROVE  FirstOfEach(g, LAMBDA x : x.name, GuardrailValid) = ItemsAt(g, Firsts(g, V, RuleName))
<1>1. \A i \in 1..Len(g) : g[i] \in T BY ElementOfSeq
<1>2. \A i \in 1..Len(g) : g[i] \in V <=> GuardrailValid(g[i]) BY <1>1
<1>3. \A i \in 1..Len(g) : RuleName[g[i]] = g[i].name BY <1>1 DEF RuleName
<1>4. \A i \in 1..Len(g) : \A j \in 1..(i - 1) : j \in 1..Len(g) OBVIOUS
<1>5. ASSUME NEW i \in 1..Len(g)
      PROVE  (GuardrailValid(g[i]) /\ \A j \in 1..(i - 1) : GuardrailValid(g[j]) => g[j].name # g[i].name)
             <=> i \in Firsts(g, V, RuleName)
      BY <1>2, <1>3, <1>4 DEF Firsts
<1>6. {i \in 1..Len(g) :
          GuardrailValid(g[i]) /\ \A j \in 1..(i - 1) : GuardrailValid(g[j]) => g[j].name # g[i].name}
      = Firsts(g, V, RuleName)
  <2>1. Firsts(g, V, RuleName) \subseteq 1..Len(g) BY DEF Firsts
  <2> QED BY <1>5, <2>1
<1> QED BY <1>6 DEF FirstOfEach

LEMMA ValidatorSame ==
    /\ \A g \in Guardrails : WithValidator(g) \in Guardrails
    /\ \A g \in NormalRule : WithValidator(g) = g
<1> DEFINE on(g) == g.stages.validatorOn \/ g.schema <= 0
           stages(g) == [g.stages EXCEPT !.validatorOn = on(g)]
<1>1. \A g : WithValidator(g) = [g EXCEPT !.stages = stages(g)] BY DEF WithValidator
<1>2. ASSUME NEW g \in Guardrails PROVE WithValidator(g) \in Guardrails
  <2>1. g.stages \in GuardrailStages BY DEF Guardrails
  <2>2. on(g) \in BOOLEAN BY <2>1 DEF GuardrailStages
  <2> HIDE DEF on
  <2>3. stages(g) \in GuardrailStages BY <2>1, <2>2 DEF GuardrailStages
  <2> HIDE DEF stages
  <2> QED BY <1>1, <2>3 DEF Guardrails
<1>3. ASSUME NEW g \in NormalRule PROVE WithValidator(g) = g
  <2>1. g \in RuleRow BY DEF NormalRule
  <2>2. g.stages \in NormalStages /\ g.schema \in Schemas BY <2>1 DEF RuleRow
  <2>3. g.stages \in GuardrailStages /\ g.schema = 1 BY <2>2 DEF NormalStages, Schemas
  <2>4. g.stages.validatorOn \in BOOLEAN BY <2>3 DEF GuardrailStages
  <2>5. on(g) = g.stages.validatorOn BY <2>3, <2>4
  <2> HIDE DEF on
  <2>6. stages(g) = g.stages BY <2>3, <2>5 DEF GuardrailStages
  <2> HIDE DEF stages
  <2>7. [g EXCEPT !.stages = stages(g)] = g BY <2>1, <2>6 DEF RuleRow
  <2> QED BY <1>1, <2>7
<1> QED BY <1>2, <1>3

LEMMA GuardrailsNormal ==
    /\ \A items \in Seq(Guardrails) : NormalizeGuardrails(items) \in NormalGuardrails
    /\ \A items \in NormalGuardrails : NormalizeGuardrails(items) = items
<1> DEFINE Kept(g) == FirstOfEach(g, LAMBDA x : x.name, GuardrailValid)
<1>1. \A items : NormalizeGuardrails(items) = Each(NormalizeGuardrail, Kept(Each(WithValidator, items)))
      BY DEF NormalizeGuardrails
<1>2. \A g \in Seq(Guardrails) : Kept(g) = ItemsAt(g, Firsts(g, KeptRule, RuleName))
      BY RulesFirsts DEF KeptRule
<1>3. \A g \in Seq(NormalRule) : Kept(g) = ItemsAt(g, Firsts(g, NormalRule, RuleName))
      BY RulesFirsts DEF NormalRule
<1> HIDE DEF Kept
<1>4. ASSUME NEW items \in Seq(Guardrails) PROVE NormalizeGuardrails(items) \in NormalGuardrails
  <2> DEFINE g == Each(WithValidator, items)
             f == Kept(g)
             h == Each(NormalizeGuardrail, f)
  <2>1. \A i \in 1..Len(items) : WithValidator(items[i]) \in Guardrails
        BY ElementOfSeq, ValidatorSame
  <2>2. g \in Seq(Guardrails) BY <2>1, MapIs DEF Each
  <2> HIDE DEF g
  <2>3. f = ItemsAt(g, Firsts(g, KeptRule, RuleName)) BY <1>2, <2>2
  <2> HIDE DEF f
  <2>4. f \in Seq(KeptRule) /\ Apart(f, RuleName)
        BY <2>2, <2>3, FirstsLists DEF Lists, KeptRule
  <2>5. \A i \in 1..Len(f) : f[i] \in KeptRule BY <2>4, ElementOfSeq
  <2>6. \A i \in 1..Len(f) : NormalizeGuardrail(f[i]) \in NormalRule /\ NormalizeGuardrail(f[i]).name = f[i].name
        BY <2>5, RuleNormal
  <2>7. h = [i \in 1..Len(f) |-> NormalizeGuardrail(f[i])] BY DEF Each
  <2>8. h \in Seq(NormalRule) /\ Len(h) = Len(f) BY <2>4, <2>6, <2>7, MapIs
  <2>9. \A i \in 1..Len(f) : RuleName[h[i]] = RuleName[f[i]]
        BY <2>5, <2>6, <2>7 DEF RuleName, KeptRule
  <2>10. Apart(h, RuleName) BY <2>4, <2>8, <2>9 DEF Apart
  <2> QED BY <1>1, <2>8, <2>10 DEF NormalGuardrails, Lists, f, g
<1>5. ASSUME NEW items \in NormalGuardrails PROVE NormalizeGuardrails(items) = items
  <2>1. items \in Seq(NormalRule) BY DEF NormalGuardrails, Lists
  <2>2. \A i \in 1..Len(items) : WithValidator(items[i]) = items[i] /\ NormalizeGuardrail(items[i]) = items[i]
        BY <2>1, ElementOfSeq, ValidatorSame, RuleNormal
  <2>3. items = Each(WithValidator, items) BY <2>1, <2>2 DEF Each
  <2>4. items = Each(NormalizeGuardrail, items) BY <2>1, <2>2 DEF Each
  <2>5. Kept(items) = ItemsAt(items, Firsts(items, NormalRule, RuleName)) BY <1>3, <2>1
  <2>6. Kept(items) = items BY <2>5, ListsFirsts DEF NormalGuardrails
  <2> QED BY <1>1, <2>3, <2>4, <2>6
<1> QED BY <1>4, <1>5

(***************************************************************************)
(* API keys: their ids and limits are normal, their usage is kept.         *)
(***************************************************************************)
LEMMA AtLeastZero == \A n \in Int : AtLeast(0, n) \in Int /\ AtLeast(0, n) >= 0 /\ (n >= 0 => AtLeast(0, n) = n)
BY DEF AtLeast

NormalKey == {k \in APIKeyPolicies : k.id # "" /\ k.maxRequests >= 0}
NormalKeys == Seq(NormalKey)
SomeKey == {k \in APIKeyPolicies : k.id # "" \/ k.key # ""}

LEMMA KeyNormal ==
    /\ \A k \in SomeKey : NormalizeAPIKeyPolicy(k) \in NormalKey
    /\ \A k \in NormalKey : NormalizeAPIKeyPolicy(k) = k
    /\ \A k \in APIKeyPolicies : k.id # "" => NormalizeAPIKeyPolicy(k).id = k.id
<1> DEFINE id(k) == IF k.id = "" THEN k.key ELSE k.id
           limit(k) == AtLeast(0, k.maxRequests)
<1>1. \A k : NormalizeAPIKeyPolicy(k) = [k EXCEPT !.id = id(k), !.maxRequests = limit(k)]
      BY DEF NormalizeAPIKeyPolicy
<1>2. ASSUME NEW k \in SomeKey PROVE NormalizeAPIKeyPolicy(k) \in NormalKey
  <2>1. k \in APIKeyPolicies /\ (k.id # "" \/ k.key # "") BY DEF SomeKey
  <2>2. id(k) \in STRING /\ id(k) # "" BY <2>1 DEF APIKeyPolicies
  <2>3. k.maxRequests \in Int BY <2>1 DEF APIKeyPolicies
  <2>4. limit(k) \in Int /\ limit(k) >= 0 BY <2>3 DEF AtLeast
  <2> HIDE DEF id, limit
  <2>5. [k EXCEPT !.id = id(k), !.maxRequests = limit(k)] \in NormalKey
        BY <2>1, <2>2, <2>4 DEF APIKeyPolicies, NormalKey
  <2> QED BY <1>1, <2>5
<1>3. ASSUME NEW k \in NormalKey PROVE NormalizeAPIKeyPolicy(k) = k
  <2>1. k \in APIKeyPolicies /\ k.id # "" /\ k.maxRequests >= 0 BY DEF NormalKey
  <2>2. id(k) = k.id BY <2>1
  <2>3. limit(k) = k.maxRequests
    <3>1. k.maxRequests \in Int BY <2>1 DEF APIKeyPolicies
    <3> QED BY <2>1, <3>1, AtLeastZero
  <2> HIDE DEF id, limit
  <2>4. [k EXCEPT !.id = id(k), !.maxRequests = limit(k)] = k
        BY <2>1, <2>2, <2>3 DEF APIKeyPolicies
  <2> QED BY <1>1, <2>4
<1>4. ASSUME NEW k \in APIKeyPolicies, k.id # "" PROVE NormalizeAPIKeyPolicy(k).id = k.id
  <2>1. id(k) = k.id BY <1>4
  <2> HIDE DEF id, limit
  <2>2. [k EXCEPT !.id = id(k), !.maxRequests = limit(k)].id = id(k) BY DEF APIKeyPolicies
  <2> QED BY <1>1, <2>1, <2>2
<1> QED BY <1>2, <1>3, <1>4

LEMMA KeysNormal ==
    /\ \A items \in Seq(APIKeyPolicies) : NormalizeAPIKeyPolicies(items) \in NormalKeys
    /\ \A items \in NormalKeys : NormalizeAPIKeyPolicies(items) = items
    /\ \A items \in Seq(APIKeyPolicies) :
          (\A i \in 1..Len(items) : items[i].id # "")
          => NormalizeAPIKeyPolicies(items) = Each(NormalizeAPIKeyPolicy, items)
<1> DEFINE Kept(items) == Only(items, LAMBDA k : k.id # "" \/ k.key # "")
<1>1. \A items : NormalizeAPIKeyPolicies(items) = Each(NormalizeAPIKeyPolicy, Kept(items))
      BY DEF NormalizeAPIKeyPolicies
<1>2. ASSUME NEW items \in Seq(APIKeyPolicies) PROVE Kept(items) = ItemsAt(items, Valids(items, SomeKey))
  <2>1. \A i \in 1..Len(items) : items[i] \in APIKeyPolicies BY ElementOfSeq
  <2>2. {i \in 1..Len(items) : items[i].id # "" \/ items[i].key # ""} = Valids(items, SomeKey)
        BY <2>1 DEF Valids, SomeKey
  <2> QED BY <2>2 DEF Only
<1>3. ASSUME NEW items \in Seq(APIKeyPolicies), \A i \in 1..Len(items) : items[i].id # ""
      PROVE  Kept(items) = items
  <2>1. \A i \in 1..Len(items) : items[i] \in SomeKey BY <1>3, ElementOfSeq DEF SomeKey
  <2>2. items = [i \in 1..Len(items) |-> items[i]] OBVIOUS
  <2>3. items \in [1..Len(items) -> SomeKey] BY <2>1, <2>2
  <2>4. items \in Seq(SomeKey) BY <2>3, MapIs
  <2> QED BY <1>2, <2>4, ValidsAll
<1> HIDE DEF Kept
<1>4. ASSUME NEW items \in Seq(APIKeyPolicies) PROVE NormalizeAPIKeyPolicies(items) \in NormalKeys
  <2> DEFINE f == Kept(items)
  <2>1. f = ItemsAt(items, Valids(items, SomeKey)) BY <1>2
  <2> HIDE DEF f
  <2>2. APIKeyPolicies \cap SomeKey = SomeKey BY DEF SomeKey
  <2>3. f \in Seq(SomeKey) BY <2>1, <2>2, ValidsOnly
  <2>4. \A i \in 1..Len(f) : NormalizeAPIKeyPolicy(f[i]) \in NormalKey BY <2>3, ElementOfSeq, KeyNormal
  <2>5. Each(NormalizeAPIKeyPolicy, f) \in Seq(NormalKey) BY <2>3, <2>4, MapIs DEF Each
  <2> QED BY <1>1, <2>5 DEF f, NormalKeys
<1>5. ASSUME NEW items \in NormalKeys PROVE NormalizeAPIKeyPolicies(items) = items
  <2>1. items \in Seq(NormalKey) BY DEF NormalKeys
  <2>2. \A i \in 1..Len(items) : items[i] \in NormalKey BY <2>1, ElementOfSeq
  <2>3. items \in Seq(APIKeyPolicies) BY <2>1, SeqWider DEF NormalKey
  <2>4. \A i \in 1..Len(items) : items[i].id # "" BY <2>2 DEF NormalKey
  <2>5. Kept(items) = items BY <1>3, <2>3, <2>4
  <2>6. items = Each(NormalizeAPIKeyPolicy, items)
    <3>1. \A i \in 1..Len(items) : NormalizeAPIKeyPolicy(items[i]) = items[i] BY <2>2, KeyNormal
    <3> QED BY <2>1, <3>1 DEF Each
  <2> QED BY <1>1, <2>5, <2>6
<1>6. ASSUME NEW items \in Seq(APIKeyPolicies), \A i \in 1..Len(items) : items[i].id # ""
      PROVE  NormalizeAPIKeyPolicies(items) = Each(NormalizeAPIKeyPolicy, items)
  <2>1. Kept(items) = items BY <1>3, <1>6
  <2> QED BY <1>1, <2>1
<1> QED BY <1>4, <1>5, <1>6

\* A finite set of indices has a largest one.
LEMMA Largest ==
    ASSUME NEW n \in Nat, NEW T \in SUBSET (1..n), T # {} PROVE \E i \in T : \A j \in T : j <= i
<1> DEFINE U == {n - i : i \in T}
<1>1. U \in SUBSET Nat /\ U # {}
  <2>1. \A i \in T : i \in Int /\ i <= n OBVIOUS
  <2>2. \A i \in T : n - i \in Nat BY <2>1
  <2> QED BY <2>2
<1> HIDE DEF U
<1>2. PICK m \in U : \A k \in U : m <= k BY <1>1, Smallest
<1>3. PICK i \in T : m = n - i BY DEF U
<1>4. \A j \in T : n - j \in U BY DEF U
<1>5. \A j \in T : j <= i BY <1>2, <1>3, <1>4
<1> QED BY <1>5

\* The usage a key gets is a number, and nothing else of it changes.
LEMMA UsageIs ==
    ASSUME NEW current \in Seq(APIKeyPolicies), NEW k \in APIKeyPolicies
    PROVE  \E n \in Int : /\ WithUsage(k, current) = [k EXCEPT !.used = n]
                          /\ \A l \in APIKeyPolicies : l.id = k.id /\ l.used = k.used
                                => WithUsage(l, current) = [l EXCEPT !.used = n]
<1> DEFINE same(i) == {j \in 1..Len(current) : current[j].id = i}
           last(i) == CHOOSE j \in same(i) : \A m \in same(i) : m <= j
<1>1. \A l : WithUsage(l, current) =
               IF same(l.id) = {} THEN l ELSE [l EXCEPT !.used = current[last(l.id)].used]
      BY DEF WithUsage
<1>2. CASE same(k.id) = {}
  <2> HIDE DEF same, last
  <2>1. k.used \in Int BY DEF APIKeyPolicies
  <2>2. \A l \in APIKeyPolicies : [l EXCEPT !.used = l.used] = l BY DEF APIKeyPolicies
  <2>3. \A l \in APIKeyPolicies : l.id = k.id /\ l.used = k.used
            => WithUsage(l, current) = [l EXCEPT !.used = k.used]
        BY <1>1, <1>2, <2>2
  <2> QED BY <2>1, <2>3
<1>3. CASE same(k.id) # {}
  <2>1. Len(current) \in Nat /\ same(k.id) \in SUBSET (1..Len(current)) OBVIOUS
  <2> HIDE DEF same
  <2>2. \E j \in same(k.id) : \A m \in same(k.id) : m <= j BY <1>3, <2>1, Largest
  <2>3. last(k.id) \in same(k.id) BY <2>2
  <2> HIDE DEF last
  <2>4. current[last(k.id)] \in APIKeyPolicies BY <2>1, <2>3, ElementOfSeq
  <2>5. current[last(k.id)].used \in Int BY <2>4 DEF APIKeyPolicies
  <2>6. \A l \in APIKeyPolicies : l.id = k.id /\ l.used = k.used
            => WithUsage(l, current) = [l EXCEPT !.used = current[last(k.id)].used]
        BY <1>1, <1>3
  <2> QED BY <2>5, <2>6
<1> QED BY <1>2, <1>3

LEMMA UsageNormal ==
    ASSUME NEW current \in Seq(APIKeyPolicies)
    PROVE  /\ \A items \in NormalKeys : PreserveAPIKeyUsage(items, current) \in NormalKeys
           /\ \A items \in Seq(APIKeyPolicies) : PreserveAPIKeyUsage(items, current) \in Seq(APIKeyPolicies)
<1>1. \A k \in APIKeyPolicies : WithUsage(k, current) \in APIKeyPolicies
  <2> TAKE k \in APIKeyPolicies
  <2>1. PICK n \in Int : WithUsage(k, current) = [k EXCEPT !.used = n] BY UsageIs
  <2> QED BY <2>1 DEF APIKeyPolicies
<1>2. \A k \in NormalKey : WithUsage(k, current) \in NormalKey
  <2> TAKE k \in NormalKey
  <2>1. k \in APIKeyPolicies /\ k.id # "" /\ k.maxRequests >= 0 BY DEF NormalKey
  <2>2. PICK n \in Int : WithUsage(k, current) = [k EXCEPT !.used = n] BY <2>1, UsageIs
  <2>3. [k EXCEPT !.used = n].id = k.id /\ [k EXCEPT !.used = n].maxRequests = k.maxRequests
        BY <2>1 DEF APIKeyPolicies
  <2> QED BY <1>1, <2>1, <2>2, <2>3 DEF NormalKey
<1>3. ASSUME NEW items \in NormalKeys PROVE PreserveAPIKeyUsage(items, current) \in NormalKeys
  <2> DEFINE g == [i \in 1..Len(items) |-> WithUsage(items[i], current)]
  <2>1. items \in Seq(NormalKey) BY DEF NormalKeys
  <2>2. g \in [1..Len(items) -> NormalKey] BY <1>2, <2>1, ElementOfSeq
  <2>3. PreserveAPIKeyUsage(items, current) = g BY DEF PreserveAPIKeyUsage, Each
  <2> HIDE DEF g
  <2> QED BY <2>1, <2>2, <2>3, MapIs DEF NormalKeys
<1>4. ASSUME NEW items \in Seq(APIKeyPolicies)
      PROVE  PreserveAPIKeyUsage(items, current) \in Seq(APIKeyPolicies)
  <2> DEFINE g == [i \in 1..Len(items) |-> WithUsage(items[i], current)]
  <2>2. g \in [1..Len(items) -> APIKeyPolicies] BY <1>1, ElementOfSeq
  <2>3. PreserveAPIKeyUsage(items, current) = g BY DEF PreserveAPIKeyUsage, Each
  <2> HIDE DEF g
  <2> QED BY <2>2, <2>3, MapIs
<1> QED BY <1>3, <1>4

LEMMA UsageCommutes ==
    ASSUME NEW current \in Seq(APIKeyPolicies), NEW k \in APIKeyPolicies, k.id # ""
    PROVE  /\ WithUsage(k, current).id = k.id
           /\ NormalizeAPIKeyPolicy(WithUsage(k, current)) = WithUsage(NormalizeAPIKeyPolicy(k), current)
<1> DEFINE limit == AtLeast(0, k.maxRequests)
           named == [k EXCEPT !.id = k.id, !.maxRequests = limit]
<1>1. NormalizeAPIKeyPolicy(k) = named BY DEF NormalizeAPIKeyPolicy
<1>2. limit \in Int
  <2>1. k.maxRequests \in Int BY DEF APIKeyPolicies
  <2>2. AtLeast(0, k.maxRequests) \in Int BY <2>1, AtLeastZero
  <2> QED BY <2>2
<1>3. PICK n \in Int : /\ WithUsage(k, current) = [k EXCEPT !.used = n]
                       /\ \A l \in APIKeyPolicies : l.id = k.id /\ l.used = k.used
                             => WithUsage(l, current) = [l EXCEPT !.used = n]
      BY UsageIs
<1> DEFINE u == [k EXCEPT !.used = n]
<1>4. u.id = k.id /\ u.maxRequests = k.maxRequests /\ u \in APIKeyPolicies BY DEF APIKeyPolicies
<1>5. NormalizeAPIKeyPolicy(u) = [u EXCEPT !.id = k.id, !.maxRequests = limit]
      BY <1>4 DEF NormalizeAPIKeyPolicy
<1> HIDE DEF limit
<1>6. named \in APIKeyPolicies /\ named.id = k.id /\ named.used = k.used
      BY <1>2 DEF APIKeyPolicies
<1>7. WithUsage(named, current) = [named EXCEPT !.used = n] BY <1>3, <1>6
<1>8. [named EXCEPT !.used = n] = [u EXCEPT !.id = k.id, !.maxRequests = limit]
      BY <1>2 DEF APIKeyPolicies
<1> QED BY <1>1, <1>3, <1>4, <1>5, <1>7, <1>8

LEMMA EachLen ==
    ASSUME NEW S, NEW items \in Seq(S), NEW g, g = [i \in 1..Len(items) |-> g[i]]
    PROVE  Len(g) = Len(items)
<1> DEFINE T == {g[i] : i \in 1..Len(items)}
<1>1. g \in [1..Len(items) -> T] OBVIOUS
<1> HIDE DEF T
<1> QED BY <1>1, MapIs

\* Keys that have their ids may be normalised before or after their usage is
\* looked up: the file store does the one, SQLite the other.
LEMMA UsageBeforeOrAfter ==
    ASSUME NEW current \in Seq(APIKeyPolicies), NEW items \in Seq(APIKeyPolicies),
           \A i \in 1..Len(items) : items[i].id # ""
    PROVE  NormalizeAPIKeyPolicies(PreserveAPIKeyUsage(items, current))
             = PreserveAPIKeyUsage(NormalizeAPIKeyPolicies(items), current)
<1> DEFINE kept == PreserveAPIKeyUsage(items, current)
           norm == NormalizeAPIKeyPolicies(items)
<1>1. \A i \in 1..Len(items) : items[i] \in APIKeyPolicies BY ElementOfSeq
<1>2. kept = [i \in 1..Len(items) |-> WithUsage(items[i], current)] BY DEF PreserveAPIKeyUsage, Each
<1>3. norm = [i \in 1..Len(items) |-> NormalizeAPIKeyPolicy(items[i])] BY KeysNormal DEF Each
<1>4. kept \in Seq(APIKeyPolicies) BY UsageNormal
<1> HIDE DEF kept, norm
<1>5. Len(kept) = Len(items) /\ Len(norm) = Len(items)
  <2>1. kept = [i \in 1..Len(items) |-> kept[i]] BY <1>2
  <2>2. norm = [i \in 1..Len(items) |-> norm[i]] BY <1>3
  <2> QED BY <2>1, <2>2, EachLen
<1>6. \A k \in APIKeyPolicies : k.id # "" =>
         /\ WithUsage(k, current).id = k.id
         /\ NormalizeAPIKeyPolicy(WithUsage(k, current)) = WithUsage(NormalizeAPIKeyPolicy(k), current)
      BY UsageCommutes
<1>7. \A i \in 1..Len(items) : kept[i].id # "" BY <1>1, <1>2, <1>6
<1>8. NormalizeAPIKeyPolicies(kept) = [i \in 1..Len(items) |-> NormalizeAPIKeyPolicy(kept[i])]
      BY <1>4, <1>5, <1>7, KeysNormal DEF Each
<1>9. PreserveAPIKeyUsage(norm, current) = [i \in 1..Len(items) |-> WithUsage(norm[i], current)]
      BY <1>5 DEF PreserveAPIKeyUsage, Each
<1>10. \A i \in 1..Len(items) : NormalizeAPIKeyPolicy(kept[i]) = WithUsage(norm[i], current)
       BY <1>1, <1>2, <1>3, <1>6
<1> QED BY <1>8, <1>9, <1>10 DEF kept, norm

\* Counting a request keeps the keys normal.
LEMMA AddUsageNormal ==
    ASSUME NEW keys \in NormalKeys, NEW id, NEW n \in Int
    PROVE  AddUsage(keys, id, n) \in NormalKeys
<1> DEFINE same == {i \in 1..Len(keys) : keys[i].id = id}
           first == CHOOSE i \in same : \A j \in same : i <= j
<1>0. keys \in Seq(NormalKey) /\ Len(keys) \in Nat BY DEF NormalKeys
<1>1. CASE same = {} BY <1>1 DEF AddUsage
<1>2. CASE same # {}
  <2>1. same \in SUBSET Nat /\ same \in SUBSET (1..Len(keys)) BY <1>0
  <2>2. AddUsage(keys, id, n) = [keys EXCEPT ![first].used = keys[first].used + n] BY <1>2 DEF AddUsage
  <2> HIDE DEF same
  <2>3. \E i \in same : \A j \in same : i <= j BY <1>2, <2>1, Smallest
  <2>4. first \in 1..Len(keys) BY <2>1, <2>3
  <2> HIDE DEF first
  <2>5. keys[first] \in NormalKey BY <1>0, <2>4, ElementOfSeq
  <2>6. keys[first] \in APIKeyPolicies /\ keys[first].id # "" /\ keys[first].maxRequests >= 0
        BY <2>5 DEF NormalKey
  <2> DEFINE k == keys[first]
             m == k.used + n
             new == [k EXCEPT !.used = m]
  <2>7. m \in Int
    <3>1. k.used \in Int BY <2>6 DEF APIKeyPolicies
    <3> QED BY <3>1
  <2>8. AddUsage(keys, id, n) = [keys EXCEPT ![first] = new] BY <2>2
  <2> HIDE DEF m, k
  <2>9. k \in APIKeyPolicies /\ k.id # "" /\ k.maxRequests >= 0 BY <2>6 DEF k
  <2>10. new \in NormalKey BY <2>7, <2>9 DEF NormalKey, APIKeyPolicies
  <2> HIDE DEF new
  <2>11. [keys EXCEPT ![first] = new] \in Seq(NormalKey) BY <1>0, <2>4, <2>10
  <2> QED BY <2>8, <2>11 DEF NormalKeys
<1> QED BY <1>1, <1>2

(***************************************************************************)
(* Prices, budget, debug capture, token optimiser; the settings as one.    *)
(***************************************************************************)
NormalPrice == {p \in ModelPriceRules : (p.provider # "" \/ p.model # "") /\ p.context >= 0}
NormalPrices == Seq(NormalPrice)
SomePrice == {p \in ModelPriceRules : p.provider # "" \/ p.model # ""}

LEMMA PriceNormal ==
    /\ \A p \in SomePrice : NormalizePriceRule(p) \in NormalPrice
    /\ \A p \in NormalPrice : NormalizePriceRule(p) = p
<1> DEFINE context(p) == AtLeast(0, p.context)
<1>1. \A p : NormalizePriceRule(p) = [p EXCEPT !.context = context(p)] BY DEF NormalizePriceRule
<1>2. ASSUME NEW p \in SomePrice PROVE NormalizePriceRule(p) \in NormalPrice
  <2>1. p \in ModelPriceRules /\ (p.provider # "" \/ p.model # "") BY DEF SomePrice
  <2>2. p.context \in Int BY <2>1 DEF ModelPriceRules
  <2>3. context(p) \in Int /\ context(p) >= 0 BY <2>2, AtLeastZero
  <2> HIDE DEF context
  <2>4. [p EXCEPT !.context = context(p)] \in NormalPrice
        BY <2>1, <2>3 DEF ModelPriceRules, NormalPrice
  <2> QED BY <1>1, <2>4
<1>3. ASSUME NEW p \in NormalPrice PROVE NormalizePriceRule(p) = p
  <2>1. p \in ModelPriceRules /\ p.context >= 0 BY DEF NormalPrice
  <2>2. p.context \in Int BY <2>1 DEF ModelPriceRules
  <2>3. context(p) = p.context BY <2>1, <2>2, AtLeastZero
  <2> HIDE DEF context
  <2>4. [p EXCEPT !.context = context(p)] = p BY <2>1, <2>3 DEF ModelPriceRules
  <2> QED BY <1>1, <2>4
<1> QED BY <1>2, <1>3

LEMMA PricesNormal ==
    /\ \A items \in Seq(ModelPriceRules) : NormalizeModelPriceRules(items) \in NormalPrices
    /\ \A items \in NormalPrices : NormalizeModelPriceRules(items) = items
<1> DEFINE Kept(items) == Only(items, LAMBDA p : p.provider # "" \/ p.model # "")
<1>1. \A items : NormalizeModelPriceRules(items) = Each(NormalizePriceRule, Kept(items))
      BY DEF NormalizeModelPriceRules
<1>2. ASSUME NEW items \in Seq(ModelPriceRules)
      PROVE  Kept(items) = ItemsAt(items, Valids(items, SomePrice))
  <2>1. \A i \in 1..Len(items) : items[i] \in ModelPriceRules BY ElementOfSeq
  <2>2. {i \in 1..Len(items) : items[i].provider # "" \/ items[i].model # ""} = Valids(items, SomePrice)
        BY <2>1 DEF Valids, SomePrice
  <2> QED BY <2>2 DEF Only
<1> HIDE DEF Kept
<1>3. ASSUME NEW items \in Seq(ModelPriceRules) PROVE NormalizeModelPriceRules(items) \in NormalPrices
  <2> DEFINE f == Kept(items)
  <2>1. f = ItemsAt(items, Valids(items, SomePrice)) BY <1>2
  <2> HIDE DEF f
  <2>2. ModelPriceRules \cap SomePrice = SomePrice BY DEF SomePrice
  <2>3. f \in Seq(SomePrice) BY <2>1, <2>2, ValidsOnly
  <2>4. \A i \in 1..Len(f) : NormalizePriceRule(f[i]) \in NormalPrice BY <2>3, ElementOfSeq, PriceNormal
  <2>5. Each(NormalizePriceRule, f) \in Seq(NormalPrice) BY <2>3, <2>4, MapIs DEF Each
  <2> QED BY <1>1, <2>5 DEF f, NormalPrices
<1>4. ASSUME NEW items \in NormalPrices PROVE NormalizeModelPriceRules(items) = items
  <2>1. items \in Seq(NormalPrice) BY DEF NormalPrices
  <2>2. NormalPrice \in SUBSET SomePrice /\ SomePrice \in SUBSET ModelPriceRules
        BY DEF NormalPrice, SomePrice
  <2>3. items \in Seq(SomePrice) BY <2>1, <2>2, SeqWider
  <2>4. items \in Seq(ModelPriceRules) BY <2>2, <2>3, SeqWider
  <2>5. Kept(items) = items BY <1>2, <2>3, <2>4, ValidsAll
  <2>6. \A i \in 1..Len(items) : items[i] \in NormalPrice BY <2>1, ElementOfSeq
  <2>7. \A i \in 1..Len(items) : NormalizePriceRule(items[i]) = items[i] BY <2>6, PriceNormal
  <2>8. items = Each(NormalizePriceRule, items) BY <2>1, <2>7 DEF Each
  <2> QED BY <1>1, <2>5, <2>8
<1> QED BY <1>3, <1>4

Percents == {n \in Int : 1 <= n /\ n <= 100}
Limits == {n \in Int : n >= 0}
NormalBudget == [alert : Percents, daily : Limits]

LEMMA BudgetNormal ==
    /\ \A b \in Budgets : NormalizeBudgetSettings(b) \in NormalBudget
    /\ \A b \in NormalBudget : NormalizeBudgetSettings(b) = b
<1> DEFINE alert(b) == AtMost(100, OrElse(80, b.alert))
           daily(b) == AtLeast(0, b.daily)
<1>1. \A b : NormalizeBudgetSettings(b) = [b EXCEPT !.alert = alert(b), !.daily = daily(b)]
      BY DEF NormalizeBudgetSettings
<1>2. ASSUME NEW b \in Budgets PROVE NormalizeBudgetSettings(b) \in NormalBudget
  <2>1. b.alert \in Int /\ b.daily \in Int BY DEF Budgets
  <2>2. alert(b) \in Percents BY <2>1 DEF AtMost, OrElse, Percents
  <2>3. daily(b) \in Limits BY <2>1 DEF AtLeast, Limits
  <2> HIDE DEF alert, daily
  <2>4. [b EXCEPT !.alert = alert(b), !.daily = daily(b)] \in NormalBudget
        BY <2>2, <2>3 DEF Budgets, NormalBudget
  <2> QED BY <1>1, <2>4
<1>3. ASSUME NEW b \in NormalBudget PROVE NormalizeBudgetSettings(b) = b
  <2>1. b.alert \in Percents /\ b.daily \in Limits BY DEF NormalBudget
  <2>2. alert(b) = b.alert BY <2>1 DEF AtMost, OrElse, Percents
  <2>3. daily(b) = b.daily BY <2>1 DEF AtLeast, Limits
  <2> HIDE DEF alert, daily
  <2>4. [b EXCEPT !.alert = alert(b), !.daily = daily(b)] = b BY <2>2, <2>3 DEF NormalBudget
  <2> QED BY <1>1, <2>4
<1> QED BY <1>2, <1>3

CaptureSizes == {n \in Int : 1 <= n /\ n <= 524288}
NormalDebug == [maxBytes : CaptureSizes, mask : BOOLEAN]

LEMMA DebugNormal ==
    /\ \A d \in DebugSettings : NormalizeDebugSettings(d) \in NormalDebug
    /\ \A d \in NormalDebug : NormalizeDebugSettings(d) = d
<1> DEFINE maxBytes(d) == AtMost(524288, OrElse(131072, d.maxBytes))
           mask(d) == d.mask \/ d.maxBytes <= 0
<1>1. \A d : NormalizeDebugSettings(d) = [d EXCEPT !.maxBytes = maxBytes(d), !.mask = mask(d)]
      BY DEF NormalizeDebugSettings
<1>2. ASSUME NEW d \in DebugSettings PROVE NormalizeDebugSettings(d) \in NormalDebug
  <2>1. d.maxBytes \in Int /\ d.mask \in BOOLEAN BY DEF DebugSettings
  <2>2. maxBytes(d) \in CaptureSizes BY <2>1 DEF AtMost, OrElse, CaptureSizes
  <2>3. mask(d) \in BOOLEAN BY <2>1
  <2> HIDE DEF maxBytes, mask
  <2>4. [d EXCEPT !.maxBytes = maxBytes(d), !.mask = mask(d)] \in NormalDebug
        BY <2>2, <2>3 DEF DebugSettings, NormalDebug
  <2> QED BY <1>1, <2>4
<1>3. ASSUME NEW d \in NormalDebug PROVE NormalizeDebugSettings(d) = d
  <2>1. d.maxBytes \in CaptureSizes /\ d.mask \in BOOLEAN BY DEF NormalDebug
  <2>2. maxBytes(d) = d.maxBytes BY <2>1 DEF AtMost, OrElse, CaptureSizes
  <2>3. mask(d) = d.mask
    <3>1. ~(d.maxBytes <= 0) BY <2>1 DEF CaptureSizes
    <3> QED BY <2>1, <3>1
  <2> HIDE DEF maxBytes, mask
  <2>4. [d EXCEPT !.maxBytes = maxBytes(d), !.mask = mask(d)] = d BY <2>2, <2>3 DEF NormalDebug
  <2> QED BY <1>1, <2>4
<1> QED BY <1>2, <1>3

TokenMinima == {n \in Int : n >= 1000}
TokenMaxima == {n \in Int : 2000 <= n /\ n <= 131072}
TokenModes == {"full", "per-type", "preview"}
NormalTokens == [minChars : TokenMinima, maxChars : TokenMaxima, mode : TokenModes, compress : BOOLEAN]

LEMMA TokensNormal ==
    /\ \A t \in TokenSettings : NormalizeTokenOptimizationSettings(t) \in NormalTokens
    /\ \A t \in NormalTokens : NormalizeTokenOptimizationSettings(t) = t
<1> DEFINE low(t) == AtLeast(1000, OrElse(12000, t.minChars))
           high(t) == AtMost(131072, AtLeast(2000, OrElse(12000, t.maxChars)))
           mode(t) == Among({"full", "per-type"}, "preview", t.mode)
           compress(t) == t.compress \/ t.mode = ""
<1>1. \A t : NormalizeTokenOptimizationSettings(t) =
        [t EXCEPT !.minChars = low(t), !.maxChars = high(t), !.mode = mode(t), !.compress = compress(t)]
      BY DEF NormalizeTokenOptimizationSettings
<1>2. ASSUME NEW t \in TokenSettings PROVE NormalizeTokenOptimizationSettings(t) \in NormalTokens
  <2>1. t.minChars \in Int /\ t.maxChars \in Int /\ t.compress \in BOOLEAN BY DEF TokenSettings
  <2>2. low(t) \in TokenMinima BY <2>1 DEF AtLeast, OrElse, TokenMinima
  <2>3. high(t) \in TokenMaxima BY <2>1 DEF AtLeast, AtMost, OrElse, TokenMaxima
  <2>4. mode(t) \in TokenModes BY DEF Among, TokenModes
  <2>5. compress(t) \in BOOLEAN BY <2>1
  <2> HIDE DEF low, high, mode, compress
  <2>6. [t EXCEPT !.minChars = low(t), !.maxChars = high(t), !.mode = mode(t), !.compress = compress(t)]
          \in NormalTokens
        BY <2>2, <2>3, <2>4, <2>5 DEF TokenSettings, NormalTokens
  <2> QED BY <1>1, <2>6
<1>3. ASSUME NEW t \in NormalTokens PROVE NormalizeTokenOptimizationSettings(t) = t
  <2>1. /\ t.minChars \in TokenMinima /\ t.maxChars \in TokenMaxima
        /\ t.mode \in TokenModes /\ t.compress \in BOOLEAN
        BY DEF NormalTokens
  <2>2. low(t) = t.minChars BY <2>1 DEF AtLeast, OrElse, TokenMinima
  <2>3. high(t) = t.maxChars BY <2>1 DEF AtLeast, AtMost, OrElse, TokenMaxima
  <2>4. mode(t) = t.mode BY <2>1 DEF Among, TokenModes
  <2>5. compress(t) = t.compress
    <3>1. t.mode # "" BY <2>1 DEF TokenModes
    <3> QED BY <2>1, <3>1
  <2> HIDE DEF low, high, mode, compress
  <2>6. [t EXCEPT !.minChars = low(t), !.maxChars = high(t), !.mode = mode(t), !.compress = compress(t)] = t
        BY <2>2, <2>3, <2>4, <2>5 DEF NormalTokens
  <2> QED BY <1>1, <2>6
<1> QED BY <1>2, <1>3

Positive == {n \in Int : n >= 1}
NormalSettings ==
    [keep : Positive, keys : NormalKeys, prices : NormalPrices, combos : NormalCombos,
     routers : NormalRouters, fusions : NormalFusions, guardrails : NormalGuardrails,
     budget : NormalBudget, debug : NormalDebug, tokens : NormalTokens]

\* Settings are normal after one pass, which is why a store may normalise them
\* when they come in and again when they are read.
LEMMA SettingsNormal ==
    /\ \A s \in Settings : NormalizeSettings(s) \in NormalSettings
    /\ \A s \in NormalSettings : NormalizeSettings(s) = s
<1> DEFINE keep(s) == KeepLogs(s.keep)
           prices(s) == NormalizeModelPriceRules(s.prices)
           combos(s) == NormalizeCombos(s.combos)
           routers(s) == NormalizePromptRouters(s.routers)
           fusions(s) == NormalizeFusions(s.fusions)
           guardrails(s) == NormalizeGuardrails(s.guardrails)
           budget(s) == NormalizeBudgetSettings(s.budget)
           debug(s) == NormalizeDebugSettings(s.debug)
           tokens(s) == NormalizeTokenOptimizationSettings(s.tokens)
           lists(s) == [s EXCEPT !.keep = keep(s), !.prices = prices(s), !.combos = combos(s),
                          !.routers = routers(s), !.fusions = fusions(s), !.guardrails = guardrails(s),
                          !.budget = budget(s), !.debug = debug(s), !.tokens = tokens(s)]
<1>1. \A s : NormalizeLists(s) = lists(s) BY DEF NormalizeLists
<1>2. ASSUME NEW s \in Settings PROVE NormalizeSettings(s) \in NormalSettings
  <2>1. /\ s.keep \in Int /\ s.keys \in Seq(APIKeyPolicies) /\ s.prices \in Seq(ModelPriceRules)
        /\ s.combos \in Seq(Combos) /\ s.routers \in Seq(PromptRouters) /\ s.fusions \in Seq(Fusions)
        /\ s.guardrails \in Seq(Guardrails) /\ s.budget \in Budgets /\ s.debug \in DebugSettings
        /\ s.tokens \in TokenSettings
        BY DEF Settings
  <2>2. keep(s) \in Positive BY <2>1 DEF KeepLogs, OrElse, Positive
  <2>3. prices(s) \in NormalPrices /\ combos(s) \in NormalCombos /\ routers(s) \in NormalRouters
        BY <2>1, PricesNormal, CombosNormal, RoutersNormal
  <2>4. fusions(s) \in NormalFusions /\ guardrails(s) \in NormalGuardrails
        BY <2>1, FusionsNormal, GuardrailsNormal
  <2>5. budget(s) \in NormalBudget /\ debug(s) \in NormalDebug /\ tokens(s) \in NormalTokens
        BY <2>1, BudgetNormal, DebugNormal, TokensNormal
  <2> HIDE DEF keep, prices, combos, routers, fusions, guardrails, budget, debug, tokens
  <2>6. lists(s).keys = s.keys BY DEF Settings
  <2> DEFINE keys == NormalizeAPIKeyPolicies(s.keys)
  <2>7. NormalizeSettings(s) = [lists(s) EXCEPT !.keys = keys] BY <1>1, <2>6 DEF NormalizeSettings
  <2>8. keys \in NormalKeys BY <2>1, KeysNormal
  <2> HIDE DEF keys
  <2>9. [lists(s) EXCEPT !.keys = keys] \in NormalSettings
        BY <2>2, <2>3, <2>4, <2>5, <2>8 DEF Settings, NormalSettings
  <2> QED BY <2>7, <2>9
<1>3. ASSUME NEW s \in NormalSettings PROVE NormalizeSettings(s) = s
  <2>1. /\ s.keep \in Positive /\ s.keys \in NormalKeys /\ s.prices \in NormalPrices
        /\ s.combos \in NormalCombos /\ s.routers \in NormalRouters /\ s.fusions \in NormalFusions
        /\ s.guardrails \in NormalGuardrails /\ s.budget \in NormalBudget /\ s.debug \in NormalDebug
        /\ s.tokens \in NormalTokens
        BY DEF NormalSettings
  <2>2. keep(s) = s.keep BY <2>1 DEF KeepLogs, OrElse, Positive
  <2>3. prices(s) = s.prices /\ combos(s) = s.combos /\ routers(s) = s.routers
        BY <2>1, PricesNormal, CombosNormal, RoutersNormal
  <2>4. fusions(s) = s.fusions /\ guardrails(s) = s.guardrails
        BY <2>1, FusionsNormal, GuardrailsNormal
  <2>5. budget(s) = s.budget /\ debug(s) = s.debug /\ tokens(s) = s.tokens
        BY <2>1, BudgetNormal, DebugNormal, TokensNormal
  <2> HIDE DEF keep, prices, combos, routers, fusions, guardrails, budget, debug, tokens
  <2>6. lists(s) = s BY <2>2, <2>3, <2>4, <2>5 DEF NormalSettings
  <2>7. NormalizeAPIKeyPolicies(s.keys) = s.keys BY <2>1, KeysNormal
  <2> HIDE DEF lists
  <2>8. [s EXCEPT !.keys = s.keys] = s BY DEF NormalSettings
  <2>9. NormalizeSettings(s) = [s EXCEPT !.keys = NormalizeAPIKeyPolicies(s.keys)]
        BY <1>1, <2>6 DEF NormalizeSettings
  <2> QED BY <2>7, <2>8, <2>9
<1> QED BY <1>2, <1>3

LEMMA NoItems == \A V, N : <<>> \in Seq(V) /\ <<>> \in Lists(V, N)
BY DEF Lists, Apart

LEMMA DefaultNormal == DefaultSettings \in NormalSettings
<1>1. 1000 \in Positive BY DEF Positive
<1>2. <<>> \in NormalKeys /\ <<>> \in NormalPrices BY NoItems DEF NormalKeys, NormalPrices
<1>3. <<>> \in NormalCombos /\ <<>> \in NormalRouters /\ <<>> \in NormalFusions /\ <<>> \in NormalGuardrails
      BY NoItems DEF NormalCombos, NormalRouters, NormalFusions, NormalGuardrails
<1>4. [alert |-> 80, daily |-> 0] \in NormalBudget BY DEF NormalBudget, Percents, Limits
<1>5. [maxBytes |-> 131072, mask |-> TRUE] \in NormalDebug BY DEF NormalDebug, CaptureSizes
<1>6. [minChars |-> 12000, maxChars |-> 12000, mode |-> "preview", compress |-> TRUE] \in NormalTokens
      BY DEF NormalTokens, TokenMinima, TokenMaxima, TokenModes
<1> QED BY <1>1, <1>2, <1>3, <1>4, <1>5, <1>6 DEF DefaultSettings, NormalSettings

LEMMA Induction ==
    ASSUME NEW S \in SUBSET Nat, 0 \in S, \A n \in S : n + 1 \in S
    PROVE  S = Nat
<1> SUFFICES ASSUME S # Nat PROVE FALSE OBVIOUS
<1>1. Nat \ S # {} /\ Nat \ S \in SUBSET Nat OBVIOUS
<1>2. PICK n \in Nat \ S : \A m \in Nat \ S : n <= m BY <1>1, Smallest
<1>3. n # 0 /\ n - 1 \in Nat BY <1>2
<1>4. n - 1 \in S BY <1>2, <1>3
<1> QED BY <1>2, <1>3, <1>4

(***************************************************************************)
(* The keys of a provider: a list that was normalised once keeps its ids   *)
(* when no two are alike.                                                  *)
(***************************************************************************)
KeyRow(id, key, enabled, priority) ==
    [id |-> id, key |-> key, enabled |-> enabled, priority |-> priority]
KeyOk(k) == k = KeyRow(k.id, k.key, k.enabled, k.priority) /\ k.priority \in Int
KeyList(ks) == ks \in Seq({ks[i] : i \in 1..Len(ks)}) /\ \A i \in 1..Len(ks) : KeyOk(ks[i])
KeptKeys(ks) == KeyList(ks) /\ \A i \in 1..Len(ks) : ks[i].key # "" /\ ks[i].priority >= 1

LEMMA KeyListFrom ==
    ASSUME NEW S, NEW ks \in Seq(S), \A i \in 1..Len(ks) : KeyOk(ks[i])
    PROVE  KeyList(ks)
<1> DEFINE T == {ks[i] : i \in 1..Len(ks)}
<1>1. ks \in [1..Len(ks) -> T] BY LenProperties
<1>2. Len(ks) \in Nat BY LenProperties
<1> HIDE DEF T
<1>3. ks \in Seq(T) BY <1>1, <1>2, SeqDef
<1> QED BY <1>3 DEF KeyList, T

\* What becomes of a key that is kept.
Renamed(kept, k) ==
    LET id == IF k.id = "" THEN "key" ELSE k.id
    IN  IF \E i \in 1..Len(kept) : kept[i].id = id THEN id \o "-now" ELSE id

LEMMA KeyRowFields ==
    ASSUME NEW w, NEW x, NEW y, NEW z
    PROVE  LET k == KeyRow(w, x, y, z) IN k.id = w /\ k.key = x /\ k.enabled = y /\ k.priority = z
BY DEF KeyRow

Rekeyed(k, id, priority) == [k EXCEPT !.id = id, !.priority = priority]

LEMMA KeyRowExcept ==
    ASSUME NEW w, NEW x, NEW y, NEW z, NEW w2, NEW z2
    PROVE  Rekeyed(KeyRow(w, x, y, z), w2, z2) = KeyRow(w2, x, y, z2)
<1> DEFINE k == KeyRow(w, x, y, z)
           new == Rekeyed(k, w2, z2)
<1>1. k \in [id : {w}, key : {x}, enabled : {y}, priority : {z}] BY DEF KeyRow
<1> HIDE DEF k
<1>2. new \in [id : {w2}, key : {x}, enabled : {y}, priority : {z2}] BY <1>1 DEF Rekeyed
<1> HIDE DEF new
<1>3. new = KeyRow(w2, x, y, z2) BY <1>2 DEF KeyRow
<1> QED BY <1>3 DEF new, k

Kept(k, id, n) == Rekeyed(k, id, OrElse(n, k.priority))

LEMMA RenamedKey ==
    ASSUME NEW k, KeyOk(k), NEW id, NEW n \in Int, n >= 1
    PROVE  KeyOk(Kept(k, id, n)) /\ Kept(k, id, n).key = k.key /\ Kept(k, id, n).priority >= 1
<1> DEFINE a == k.id  b == k.key  c == k.enabled  d == k.priority
           e == OrElse(n, k.priority)
           new == Kept(k, id, n)
<1>1. k = KeyRow(a, b, c, d) BY DEF KeyOk
<1>2. e \in Int /\ e >= 1
  <2>1. k.priority \in Int BY DEF KeyOk
  <2> QED BY <2>1 DEF OrElse
<1>3. b = k.key OBVIOUS
<1>4. new = KeyRow(id, b, c, e)
  <2>1. new = Rekeyed(k, id, e) BY DEF Kept
  <2> HIDE DEF a, b, c, d, e, new
  <2>2. Rekeyed(k, id, e) = KeyRow(id, b, c, e) BY <1>1, KeyRowExcept
  <2> QED BY <2>1, <2>2
<1> HIDE DEF a, b, c, d, e, new
<1>5. new.key = b /\ new.priority = e /\ new.id = id /\ new.enabled = c BY <1>4, KeyRowFields
<1>6. KeyOk(new) /\ new.key = k.key /\ new.priority >= 1 BY <1>2, <1>3, <1>4, <1>5 DEF KeyOk
<1> QED BY <1>6 DEF new

LEMMA NameKeyIs ==
    ASSUME NEW kept, KeptKeys(kept), NEW k, KeyOk(k), NEW n \in Int, n >= 1
    PROVE  KeptKeys(NameKey(kept, k, n))
<1> DEFINE fresh == Renamed(kept, k)
           new == Kept(k, fresh, n)
           S == {kept[i] : i \in 1..Len(kept)}
           T == S \cup {new}
<1>1. NameKey(kept, k, n) = IF k.key = "" THEN kept ELSE Append(kept, new)
      BY DEF NameKey, Renamed, Kept, Rekeyed
<1>2. KeyOk(new) /\ new.key = k.key /\ new.priority >= 1 BY RenamedKey
<1>3. kept \in Seq(S) /\ \A i \in 1..Len(kept) : KeyOk(kept[i]) /\ kept[i].key # "" /\ kept[i].priority >= 1
      BY DEF KeptKeys, KeyList
<1> HIDE DEF new, S
<1>4. S \in SUBSET T /\ new \in T OBVIOUS
<1> HIDE DEF T
<1>5. kept \in Seq(T) BY <1>3, <1>4, SeqWider
<1>6. ASSUME k.key # "" PROVE KeptKeys(Append(kept, new))
  <2> DEFINE l == Append(kept, new)
  <2>1. /\ l \in Seq(T) /\ Len(l) = Len(kept) + 1 /\ Len(kept) \in Nat
        /\ \A i \in 1..Len(kept) : l[i] = kept[i]
        /\ l[Len(kept) + 1] = new
        BY <1>4, <1>5, AppendProperties, LenProperties
  <2> HIDE DEF l
  <2>2. \A i \in 1..Len(l) : i \in 1..Len(kept) \/ i = Len(kept) + 1 BY <2>1
  <2>3. \A i \in 1..Len(l) : KeyOk(l[i]) /\ l[i].key # "" /\ l[i].priority >= 1
    <3> TAKE i \in 1..Len(l)
    <3>1. CASE i \in 1..Len(kept) BY <1>3, <2>1, <3>1
    <3>2. CASE i = Len(kept) + 1 BY <1>2, <1>6, <2>1, <3>2
    <3> QED BY <2>2, <3>1, <3>2
  <2>4. KeyList(l) BY <2>1, <2>3, KeyListFrom
  <2> QED BY <2>3, <2>4 DEF KeptKeys, l
<1> QED BY <1>1, <1>6

Naming(n, keys, f) == f = [i \in 0..n |-> IF i = 0 THEN <<>> ELSE NameKey(f[i - 1], keys[i], i)]

LEMMA NamingExists == ASSUME NEW keys, NEW m \in Nat PROVE \E f : Naming(m, keys, f)
<1> DEFINE S == {n \in Nat : \E f : Naming(n, keys, f)}
<1>1. 0 \in S
  <2> DEFINE f == [i \in 0..0 |-> <<>>]
  <2>1. Naming(0, keys, f) BY DEF Naming
  <2> QED BY <2>1
<1>2. ASSUME NEW n \in S PROVE n + 1 \in S
  <2>1. PICK f : Naming(n, keys, f) OBVIOUS
  <2>2. n \in Nat OBVIOUS
  <2> DEFINE last == NameKey(f[n], keys[n + 1], n + 1)
             g == [i \in 0..(n + 1) |-> IF i = n + 1 THEN last ELSE f[i]]
  <2>3. \A i \in 0..n : g[i] = f[i] BY <2>2
  <2>4. g[n + 1] = last BY <2>2
  <2>5. \A i \in 0..n : f[i] = IF i = 0 THEN <<>> ELSE NameKey(f[i - 1], keys[i], i)
        BY <2>1 DEF Naming
  <2> DEFINE h == [i \in 0..(n + 1) |-> IF i = 0 THEN <<>> ELSE NameKey(g[i - 1], keys[i], i)]
  <2>6. ASSUME NEW i \in 0..(n + 1) PROVE g[i] = h[i]
    <3>1. CASE i = n + 1
      <4>1. g[n] = f[n] BY <2>2, <2>3
      <4> QED BY <2>2, <2>4, <3>1, <4>1
    <3>2. CASE i # n + 1
      <4>1. i \in 0..n /\ (i # 0 => i - 1 \in 0..n) BY <2>2, <3>2
      <4> QED BY <2>3, <2>5, <4>1
    <3> QED BY <3>1, <3>2
  <2>7. DOMAIN g = 0..(n + 1) /\ DOMAIN h = 0..(n + 1) OBVIOUS
  <2>8. g = h BY <2>6, <2>7
  <2>9. Naming(n + 1, keys, g)
    <3>1. g = h BY <2>8
    <3> QED BY <3>1 DEF Naming
  <2> HIDE DEF g
  <2> QED BY <2>2, <2>9
<1> HIDE DEF S
<1>3. S = Nat BY <1>1, <1>2, Induction DEF S
<1> QED BY <1>3 DEF S

LEMMA NamingIs ==
    ASSUME NEW keys, Len(keys) \in Nat
    PROVE  \E f : /\ NormalizeProviderKeys(keys) = f[Len(keys)]
                  /\ f[0] = <<>>
                  /\ \A i \in 1..Len(keys) : f[i] = NameKey(f[i - 1], keys[i], i)
<1> DEFINE named[n \in 0..Len(keys)] == IF n = 0 THEN <<>> ELSE NameKey(named[n - 1], keys[n], n)
           Is(f) == f = [n \in 0..Len(keys) |-> IF n = 0 THEN <<>> ELSE NameKey(f[n - 1], keys[n], n)]
<1>1. NormalizeProviderKeys(keys) = named[Len(keys)] BY DEF NormalizeProviderKeys
<1>2. \E f : Is(f) BY NamingExists DEF Naming
<1>3. Is(CHOOSE f : Is(f))
  <2> HIDE DEF Is
  <2> QED BY <1>2
<1>4. named = CHOOSE f : Is(f) OBVIOUS
<1> HIDE DEF named
<1>5. Is(named)
  <2> HIDE DEF Is
  <2> QED BY <1>3, <1>4
<1>6. named[0] = <<>> BY <1>5
<1>7. \A i \in 1..Len(keys) : named[i] = NameKey(named[i - 1], keys[i], i) BY <1>5
<1> HIDE DEF Is
<1> QED BY <1>1, <1>6, <1>7

LEMMA NoKeys == KeptKeys(<<>>)
BY DEF KeptKeys, KeyList

\* The normalised keys of any list all have a key and a priority.
LEMMA KeysKept ==
    ASSUME NEW keys, KeyList(keys) PROVE KeptKeys(NormalizeProviderKeys(keys))
<1> DEFINE m == Len(keys)
<1>1. m \in Nat BY LenProperties DEF KeyList
<1>2. PICK f : /\ NormalizeProviderKeys(keys) = f[m]
               /\ f[0] = <<>>
               /\ \A i \in 1..m : f[i] = NameKey(f[i - 1], keys[i], i)
      BY <1>1, NamingIs
<1> DEFINE S == {n \in Nat : n <= m => KeptKeys(f[n])}
<1>3. 0 \in S BY <1>2, NoKeys
<1>4. ASSUME NEW n \in S PROVE n + 1 \in S
  <2> SUFFICES ASSUME n + 1 <= m PROVE KeptKeys(f[n + 1]) OBVIOUS
  <2>1. n \in Nat /\ KeptKeys(f[n]) BY <1>1
  <2>2. n + 1 \in 1..m /\ n + 1 - 1 = n BY <1>1, <2>1
  <2>3. f[n + 1] = NameKey(f[n], keys[n + 1], n + 1) BY <1>2, <2>2
  <2>4. KeyOk(keys[n + 1]) BY <2>2 DEF KeyList
  <2>5. n + 1 \in Int /\ n + 1 >= 1 BY <2>1
  <2> HIDE DEF m
  <2> QED BY <2>1, <2>3, <2>4, <2>5, NameKeyIs
<1> HIDE DEF S, m
<1>5. S = Nat BY <1>3, <1>4, Induction DEF S
<1>6. m \in S /\ m <= m BY <1>1, <1>5
<1> QED BY <1>2, <1>6 DEF S

\* Ids that are there and are not repeated.
OwnIds(keys) ==
    \A i \in 1..Len(keys) : keys[i].id # "" /\ \A j \in 1..Len(keys) : keys[j].id = keys[i].id => i = j

LEMMA KeysStay ==
    ASSUME NEW keys, KeptKeys(keys), OwnIds(keys) PROVE NormalizeProviderKeys(keys) = keys
<1> DEFINE m == Len(keys)
           T == {keys[i] : i \in 1..Len(keys)}
<1>1. m \in Nat /\ keys \in Seq(T) BY LenProperties DEF KeptKeys, KeyList
<1>2. PICK f : /\ NormalizeProviderKeys(keys) = f[m]
               /\ f[0] = <<>>
               /\ \A i \in 1..m : f[i] = NameKey(f[i - 1], keys[i], i)
      BY <1>1, NamingIs
<1> DEFINE S == {n \in Nat : n <= m => f[n] = [i \in 1..n |-> keys[i]]}
<1>3. 0 \in S
  <2>1. [i \in 1..0 |-> keys[i]] = <<>> OBVIOUS
  <2> QED BY <1>2, <2>1
<1>4. ASSUME NEW n \in S PROVE n + 1 \in S
  <2> SUFFICES ASSUME n + 1 <= m PROVE f[n + 1] = [i \in 1..(n + 1) |-> keys[i]] OBVIOUS
  <2> DEFINE p == [i \in 1..n |-> keys[i]]
             k == keys[n + 1]
  <2>1. n \in Nat /\ f[n] = p BY <1>1
  <2>2. n + 1 \in 1..m /\ n + 1 - 1 = n BY <1>1, <2>1
  <2>3. f[n + 1] = NameKey(p, k, n + 1) BY <1>2, <2>1, <2>2
  <2>4. KeyOk(k) /\ k.key # "" /\ k.priority >= 1 BY <2>2 DEF KeptKeys, KeyList
  <2>5. k.id # "" /\ \A j \in 1..m : keys[j].id = k.id => n + 1 = j BY <2>2 DEF OwnIds
  <2>6. p \in [1..n -> T]
    <3>1. \A i \in 1..n : i \in 1..m BY <1>1, <2>1
    <3> QED BY <3>1
  <2>7. p \in Seq(T) /\ Len(p) = n
    <3> HIDE DEF p, T
    <3>1. p \in Seq(T) BY <2>1, <2>6, SeqDef
    <3> QED BY <2>1, <2>6, <3>1, LenProperties
  <2>8. \A i \in 1..n : p[i] = keys[i] /\ i \in 1..m /\ i # n + 1 BY <1>1, <2>1
  <2>9. ~\E i \in 1..Len(p) : p[i].id = k.id
    <3> HIDE DEF p, k
    <3> QED BY <2>5, <2>7, <2>8
  <2>10. Append(p, k) = [i \in 1..(n + 1) |-> keys[i]]
    <3> DEFINE a == Append(p, k)
               b == [i \in 1..(n + 1) |-> keys[i]]
    <3>1. /\ \A i \in 1..n : a[i] = p[i]
          /\ a[n + 1] = k /\ DOMAIN a = 1..(n + 1)
      <4>1. k \in T BY <2>2
      <4> HIDE DEF p, k, T
      <4>2. a \in Seq(T) /\ Len(a) = n + 1 BY <2>7, <4>1, AppendProperties
      <4> QED BY <2>7, <4>1, <4>2, AppendProperties, LenProperties
    <3>2. DOMAIN b = 1..(n + 1) /\ \A i \in 1..(n + 1) : b[i] = keys[i] OBVIOUS
    <3>3. \A i \in 1..(n + 1) : i \in 1..n \/ i = n + 1 BY <2>1
    <3>4. a = [i \in 1..(n + 1) |-> a[i]]
      <4>1. k \in T BY <2>2
      <4> HIDE DEF p, k, T
      <4>2. a \in Seq(T) BY <2>7, <4>1, AppendProperties
      <4> HIDE DEF a
      <4>3. a = [i \in 1..Len(a) |-> a[i]] /\ DOMAIN a = 1..Len(a) BY <4>2, LenProperties
      <4> QED BY <3>1, <4>3
    <3> HIDE DEF a, p
    <3>5. \A i \in 1..(n + 1) : a[i] = keys[i] BY <2>8, <3>1, <3>3
    <3> QED BY <3>4, <3>5 DEF a
  <2>11. NameKey(p, k, n + 1) = Append(p, k)
    <3> DEFINE a == k.id  b == k.key  c == k.enabled  d == k.priority
    <3>1. k = KeyRow(a, b, c, d) /\ d \in Int /\ d >= 1 BY <2>4 DEF KeyOk
    <3>2. OrElse(n + 1, k.priority) = d BY <3>1 DEF OrElse
    <3> HIDE DEF p, k, m, S, T
    <3>3. NameKey(p, k, n + 1) = Append(p, Rekeyed(k, a, d))
          BY <2>4, <2>5, <2>9, <3>2 DEF NameKey, Rekeyed
    <3> HIDE DEF a, b, c, d
    <3>4. Rekeyed(k, a, d) = k BY <3>1, KeyRowExcept
    <3> QED BY <3>3, <3>4
  <2> QED BY <2>3, <2>10, <2>11
<1> HIDE DEF S, m, T
<1>5. S = Nat BY <1>3, <1>4, Induction DEF S
<1>6. m \in S /\ m <= m BY <1>1, <1>5
<1>7. f[m] = [i \in 1..m |-> keys[i]] BY <1>6 DEF S
<1>8. keys = [i \in 1..m |-> keys[i]] BY <1>1 DEF m
<1> QED BY <1>2, <1>7, <1>8

(***************************************************************************)
(* Providers: the record in full, so that a change of fields is again one. *)
(***************************************************************************)
ProviderRow(a, b, c, d, e, f, g, h) ==
    [proxyId |-> a, proxyUrl |-> b, models |-> c, hidden |-> d,
     apiKey |-> e, keys |-> f, strategy |-> g, sticky |-> h]
ProviderRows(a, b, c, d, e, f, g, h) ==
    [proxyId : {a}, proxyUrl : {b}, models : {c}, hidden : {d},
     apiKey : {e}, keys : {f}, strategy : {g}, sticky : {h}]

LEMMA RowFields ==
    ASSUME NEW a, NEW b, NEW c, NEW d, NEW e, NEW f, NEW g, NEW h
    PROVE  LET r == ProviderRow(a, b, c, d, e, f, g, h)
           IN  /\ r.proxyId = a /\ r.proxyUrl = b /\ r.models = c /\ r.hidden = d
               /\ r.apiKey = e /\ r.keys = f /\ r.strategy = g /\ r.sticky = h
BY DEF ProviderRow

Reworked(r, b, c, d, f, g, h) ==
    [r EXCEPT !.proxyUrl = b, !.models = c, !.hidden = d, !.keys = f, !.strategy = g, !.sticky = h]
WithUrl(r, u) == [r EXCEPT !.proxyUrl = u]
Unhidden(r) == [r EXCEPT !.hidden = <<>>]
Masked(r, u) == [r EXCEPT !.hidden = <<>>, !.proxyUrl = u]

LEMMA RowExcept ==
    ASSUME NEW a, NEW b, NEW c, NEW d, NEW e, NEW f, NEW g, NEW h,
           NEW b2, NEW c2, NEW d2, NEW f2, NEW g2, NEW h2
    PROVE  LET r == ProviderRow(a, b, c, d, e, f, g, h)
           IN  /\ Reworked(r, b2, c2, d2, f2, g2, h2) = ProviderRow(a, b2, c2, d2, e, f2, g2, h2)
               /\ WithUrl(r, b2) = ProviderRow(a, b2, c, d, e, f, g, h)
               /\ Unhidden(r) = ProviderRow(a, b, c, <<>>, e, f, g, h)
               /\ Masked(r, b2) = ProviderRow(a, b2, c, <<>>, e, f, g, h)
<1> DEFINE r == ProviderRow(a, b, c, d, e, f, g, h)
           x == Reworked(r, b2, c2, d2, f2, g2, h2)
           y == Masked(r, b2)
           n == <<>>
<1>1. r \in ProviderRows(a, b, c, d, e, f, g, h) BY DEF ProviderRow, ProviderRows
<1>2. WithUrl(r, b2) = ProviderRow(a, b2, c, d, e, f, g, h) BY DEF ProviderRow, WithUrl
<1>3. Unhidden(r) = ProviderRow(a, b, c, n, e, f, g, h)
  <2> HIDE DEF n
  <2>1. [r EXCEPT !.hidden = n] = ProviderRow(a, b, c, n, e, f, g, h) BY DEF ProviderRow
  <2> QED BY <2>1 DEF Unhidden, n
<1>4. x = ProviderRow(a, b2, c2, d2, e, f2, g2, h2)
  <2> HIDE DEF r
  <2>1. x \in ProviderRows(a, b2, c2, d2, e, f2, g2, h2) BY <1>1 DEF ProviderRows, Reworked
  <2> HIDE DEF x
  <2> QED BY <2>1 DEF ProviderRow, ProviderRows
<1>5. y = ProviderRow(a, b2, c, n, e, f, g, h)
  <2> HIDE DEF r, n
  <2> DEFINE z == [r EXCEPT !.hidden = n, !.proxyUrl = b2]
  <2>1. z \in ProviderRows(a, b2, c, n, e, f, g, h) BY <1>1 DEF ProviderRows
  <2> HIDE DEF z
  <2>2. z = ProviderRow(a, b2, c, n, e, f, g, h) BY <2>1 DEF ProviderRow, ProviderRows
  <2> QED BY <2>2 DEF z, n, Masked
<1> QED BY <1>2, <1>3, <1>4, <1>5

\* A row with its eight fields.
RowIs(r) ==
    r = ProviderRow(r.proxyId, r.proxyUrl, r.models, r.hidden, r.apiKey, r.keys, r.strategy, r.sticky)
RowOk(r) ==
    /\ RowIs(r)
    /\ r.models \in Seq(STRING) /\ r.hidden \in Seq(STRING)
    /\ r.sticky \in Int /\ KeyList(r.keys)

LEMMA ProvidersOk ==
    ASSUME NEW r \in Providers(STRING) PROVE RowOk(r)
<1>1. RowIs(r) BY DEF RowIs, ProviderRow, Providers
<1>2. /\ r.models \in Seq(STRING) /\ r.hidden \in Seq(STRING) /\ r.sticky \in Int
      /\ r.keys \in Seq(ProviderKeys(STRING))
      BY DEF Providers
<1>3. ASSUME NEW k \in ProviderKeys(STRING) PROVE KeyOk(k)
      BY DEF ProviderKeys, KeyOk, KeyRow
<1>4. \A i \in 1..Len(r.keys) : r.keys[i] \in ProviderKeys(STRING)
  <2> DEFINE ks == r.keys
  <2>1. ks \in Seq(ProviderKeys(STRING)) BY <1>2
  <2> HIDE DEF ks
  <2>2. \A i \in 1..Len(ks) : ks[i] \in ProviderKeys(STRING) BY <2>1, ElementOfSeq
  <2> QED BY <2>2 DEF ks
<1>5. \A i \in 1..Len(r.keys) : KeyOk(r.keys[i]) BY <1>3, <1>4
<1>6. KeyList(r.keys)
  <2> DEFINE ks == r.keys
  <2>1. ks \in Seq(ProviderKeys(STRING)) /\ \A i \in 1..Len(ks) : KeyOk(ks[i]) BY <1>2, <1>5
  <2> HIDE DEF ks
  <2>2. KeyList(ks) BY <2>1, KeyListFrom
  <2> QED BY <2>2 DEF ks
<1> QED BY <1>1, <1>2, <1>6 DEF RowOk

\* The keys that NormalizeProvider leaves a row with.
KeysOf(r) ==
    LET keys == NormalizeProviderKeys(r.keys)
    IN  IF keys = <<>> /\ r.apiKey # "" THEN <<KeyRow("default", r.apiKey, TRUE, 1)>> ELSE keys
Strategy(r) == Among({"round-robin"}, "fill-first", r.strategy)
Sticky(r) == OrElse(1, r.sticky)
OwnUrl(r) == IF r.proxyId # "" THEN "" ELSE r.proxyUrl

NormalProvider(r) ==
    /\ RowIs(r)
    /\ r.models \in NormalModels /\ r.hidden \in NormalModels
    /\ r.strategy \in {"round-robin", "fill-first"}
    /\ r.sticky \in Int /\ r.sticky >= 1
    /\ KeptKeys(r.keys) /\ (r.keys = <<>> => r.apiKey = "")
    /\ r.proxyId # "" => r.proxyUrl = ""

LEMMA KeyRowOk ==
    ASSUME NEW w, NEW x, NEW y, NEW z \in Int PROVE KeyOk(KeyRow(w, x, y, z))
<1> DEFINE k == KeyRow(w, x, y, z)
<1>1. k.id = w /\ k.key = x /\ k.enabled = y /\ k.priority = z BY DEF KeyRow
<1>2. k = KeyRow(w, x, y, z) OBVIOUS
<1> HIDE DEF k
<1>3. KeyOk(k) BY <1>1, <1>2 DEF KeyOk
<1> QED BY <1>3 DEF k

LEMMA KeysOfKept == ASSUME NEW r, RowOk(r) PROVE KeptKeys(KeysOf(r)) /\ (KeysOf(r) = <<>> => r.apiKey = "")
<1> DEFINE keys == NormalizeProviderKeys(r.keys)
           k == KeyRow("default", r.apiKey, TRUE, 1)
<1>1. KeptKeys(keys) BY KeysKept DEF RowOk
<1>2. ASSUME r.apiKey # "" PROVE KeptKeys(<<k>>) /\ <<k>> # <<>>
  <2>1. k.key = r.apiKey /\ k.priority = 1 BY DEF KeyRow
  <2>2. 1 \in Int /\ 1 >= 1 OBVIOUS
  <2>3. KeyOk(k) BY <2>2, KeyRowOk
  <2> HIDE DEF k
  <2> DEFINE l == <<k>>
  <2>4. l \in Seq({k}) /\ Len(l) = 1 /\ l[1] = k OBVIOUS
  <2> HIDE DEF l
  <2>5. \A i \in 1..Len(l) : l[i] = k BY <2>4
  <2>6. KeyList(l) BY <2>3, <2>4, <2>5, KeyListFrom
  <2>7. l # <<>> BY <2>4
  <2>8. KeptKeys(l) BY <1>2, <2>1, <2>2, <2>5, <2>6 DEF KeptKeys
  <2> QED BY <2>7, <2>8 DEF l
<1> HIDE DEF keys, k
<1> QED BY <1>1, <1>2 DEF KeysOf, keys, k

LEMMA NormalizedIs ==
    ASSUME NEW r, RowIs(r)
    PROVE  NormalizeProvider(r) =
             ProviderRow(r.proxyId, OwnUrl(r), NormalizeModels(r.models), NormalizeModels(r.hidden),
                         r.apiKey, KeysOf(r), Strategy(r), Sticky(r))
<1> DEFINE a == r.proxyId  b == r.proxyUrl  c == r.models  d == r.hidden
           e == r.apiKey  f == r.keys  g == r.strategy  h == r.sticky
           b2 == OwnUrl(r)  c2 == NormalizeModels(r.models)  d2 == NormalizeModels(r.hidden)
           f2 == KeysOf(r)  g2 == Strategy(r)  h2 == Sticky(r)
<1>1. NormalizeProvider(r) = Reworked(r, b2, c2, d2, f2, g2, h2)
      BY DEF NormalizeProvider, Reworked, OwnUrl, KeysOf, Strategy, Sticky, KeyRow
<1>2. r = ProviderRow(a, b, c, d, e, f, g, h) BY DEF RowIs
<1> HIDE DEF a, b, c, d, e, f, g, h, b2, c2, d2, f2, g2, h2
<1>3. Reworked(r, b2, c2, d2, f2, g2, h2) = ProviderRow(a, b2, c2, d2, e, f2, g2, h2)
      BY <1>2, RowExcept
<1>4. NormalizeProvider(r) = ProviderRow(a, b2, c2, d2, e, f2, g2, h2) BY <1>1, <1>3
<1> QED BY <1>4 DEF a, e, b2, c2, d2, f2, g2, h2

LEMMA ProviderNormal ==
    ASSUME NEW r, RowOk(r)
    PROVE  LET t == NormalizeProvider(r)
           IN  /\ NormalProvider(t)
               /\ t.proxyId = r.proxyId /\ t.proxyUrl = OwnUrl(r) /\ t.apiKey = r.apiKey
               /\ t.models = NormalizeModels(r.models) /\ t.hidden = NormalizeModels(r.hidden)
               /\ t.keys = KeysOf(r) /\ t.strategy = Strategy(r) /\ t.sticky = Sticky(r)
<1> DEFINE t == NormalizeProvider(r)
<1>1. t = ProviderRow(r.proxyId, OwnUrl(r), NormalizeModels(r.models), NormalizeModels(r.hidden),
                      r.apiKey, KeysOf(r), Strategy(r), Sticky(r))
      BY NormalizedIs DEF RowOk
<1> HIDE DEF t
<1>2. /\ t.proxyId = r.proxyId /\ t.proxyUrl = OwnUrl(r) /\ t.apiKey = r.apiKey
      /\ t.models = NormalizeModels(r.models) /\ t.hidden = NormalizeModels(r.hidden)
      /\ t.keys = KeysOf(r) /\ t.strategy = Strategy(r) /\ t.sticky = Sticky(r)
      BY <1>1, RowFields
<1>3. RowIs(t) BY <1>1, <1>2 DEF RowIs
<1>4. t.models \in NormalModels /\ t.hidden \in NormalModels BY <1>2, ModelsNormal DEF RowOk
<1>5. t.strategy \in {"round-robin", "fill-first"} BY <1>2 DEF Strategy, Among
<1>6. t.sticky \in Int /\ t.sticky >= 1
  <2>1. r.sticky \in Int BY DEF RowOk
  <2> QED BY <1>2, <2>1 DEF Sticky, OrElse
<1>7. KeptKeys(t.keys) /\ (t.keys = <<>> => t.apiKey = "") BY <1>2, KeysOfKept
<1>8. t.proxyId # "" => t.proxyUrl = "" BY <1>2 DEF OwnUrl
<1> QED BY <1>2, <1>3, <1>4, <1>5, <1>6, <1>7, <1>8 DEF NormalProvider, t

LEMMA NormalRowOk == ASSUME NEW r, NormalProvider(r) PROVE RowOk(r)
<1>1. r.models \in Seq(STRING) /\ r.hidden \in Seq(STRING)
  <2>1. r.models \in NormalModels /\ r.hidden \in NormalModels BY DEF NormalProvider
  <2>2. NormalModels \subseteq Seq(STRING \ {""}) BY DEF NormalModels, Lists
  <2>3. \A m \in Seq(STRING \ {""}) : m \in Seq(STRING)
    <3> TAKE m \in Seq(STRING \ {""})
    <3>1. STRING \ {""} \in SUBSET STRING OBVIOUS
    <3> QED BY <3>1, SeqWider
  <2> QED BY <2>1, <2>2, <2>3
<1> QED BY <1>1 DEF RowOk, NormalProvider, KeptKeys

\* A row as both stores show it: without the hidden models, with the URL the
\* reader resolved.
Shown(r, url) ==
    ProviderRow(r.proxyId, url, NormalizeModels(r.models), <<>>, r.apiKey, KeysOf(r), Strategy(r), Sticky(r))

LEMMA KeysOfStay ==
    ASSUME NEW r, NormalProvider(r), OwnIds(r.keys) PROVE KeysOf(r) = r.keys
<1>1. NormalizeProviderKeys(r.keys) = r.keys BY KeysStay DEF NormalProvider
<1> QED BY <1>1 DEF KeysOf, NormalProvider

LEMMA ProviderStays ==
    ASSUME NEW r, NormalProvider(r), OwnIds(r.keys)
    PROVE  /\ KeysOf(r) = r.keys /\ Strategy(r) = r.strategy /\ Sticky(r) = r.sticky
           /\ NormalizeModels(r.models) = r.models
           /\ NormalizeProvider(r) = r
<1>1. KeysOf(r) = r.keys BY KeysOfStay
<1>2. NormalizeModels(r.models) = r.models /\ NormalizeModels(r.hidden) = r.hidden
      BY ModelsNormal DEF NormalProvider
<1>3. Strategy(r) = r.strategy BY DEF Strategy, Among, NormalProvider
<1>4. Sticky(r) = r.sticky
  <2>1. r.sticky \in Int /\ r.sticky >= 1 BY DEF NormalProvider
  <2> QED BY <2>1 DEF Sticky, OrElse
<1>5. OwnUrl(r) = r.proxyUrl BY DEF OwnUrl, NormalProvider
<1>6. RowIs(r) BY DEF NormalProvider
<1>7. NormalizeProvider(r) = ProviderRow(r.proxyId, r.proxyUrl, r.models, r.hidden, r.apiKey,
                                         r.keys, r.strategy, r.sticky)
      BY <1>1, <1>2, <1>3, <1>4, <1>5, <1>6, NormalizedIs
<1>8. NormalizeProvider(r) = r BY <1>6, <1>7 DEF RowIs
<1> QED BY <1>1, <1>2, <1>3, <1>4, <1>8

\* Normalising a row with ids of its own shows nothing new.
LEMMA ShownSame ==
    ASSUME NEW r, RowOk(r), OwnIds(KeysOf(r)), NEW u
    PROVE  LET t == NormalizeProvider(r)
           IN  /\ Shown(t, u) = Shown(r, u)
               /\ NormalProvider(t) /\ OwnIds(t.keys) /\ t.proxyId = r.proxyId /\ t.proxyUrl = OwnUrl(r)
<1> DEFINE t == NormalizeProvider(r)
<1>1. /\ NormalProvider(t) /\ t.proxyId = r.proxyId /\ t.proxyUrl = OwnUrl(r) /\ t.apiKey = r.apiKey
      /\ t.models = NormalizeModels(r.models)
      /\ t.keys = KeysOf(r) /\ t.strategy = Strategy(r) /\ t.sticky = Sticky(r)
      BY ProviderNormal
<1> HIDE DEF t
<1>2. OwnIds(t.keys) BY <1>1
<1>3. /\ KeysOf(t) = t.keys /\ Strategy(t) = t.strategy /\ Sticky(t) = t.sticky
      /\ NormalizeModels(t.models) = t.models
      BY <1>1, <1>2, ProviderStays
<1> QED BY <1>1, <1>2, <1>3 DEF Shown, t

(***************************************************************************)
(* Settings that are saved: the usage of the stored keys goes in before or *)
(* after the normalisation.                                                *)
(***************************************************************************)
SettingsFields(s, t, keys) ==
    /\ t.keep = KeepLogs(s.keep) /\ t.keys = keys
    /\ t.prices = NormalizeModelPriceRules(s.prices) /\ t.combos = NormalizeCombos(s.combos)
    /\ t.routers = NormalizePromptRouters(s.routers) /\ t.fusions = NormalizeFusions(s.fusions)
    /\ t.guardrails = NormalizeGuardrails(s.guardrails) /\ t.budget = NormalizeBudgetSettings(s.budget)
    /\ t.debug = NormalizeDebugSettings(s.debug)
    /\ t.tokens = NormalizeTokenOptimizationSettings(s.tokens)

LEMMA NormalizedFields ==
    ASSUME NEW s \in Settings
    PROVE  SettingsFields(s, NormalizeSettings(s), NormalizeAPIKeyPolicies(s.keys))
<1> DEFINE keep == KeepLogs(s.keep)
           prices == NormalizeModelPriceRules(s.prices)
           combos == NormalizeCombos(s.combos)
           routers == NormalizePromptRouters(s.routers)
           fusions == NormalizeFusions(s.fusions)
           guardrails == NormalizeGuardrails(s.guardrails)
           budget == NormalizeBudgetSettings(s.budget)
           debug == NormalizeDebugSettings(s.debug)
           tokens == NormalizeTokenOptimizationSettings(s.tokens)
           keys == NormalizeAPIKeyPolicies(s.keys)
           lists == [s EXCEPT !.keep = keep, !.prices = prices, !.combos = combos,
                          !.routers = routers, !.fusions = fusions, !.guardrails = guardrails,
                          !.budget = budget, !.debug = debug, !.tokens = tokens]
           new == [lists EXCEPT !.keys = keys]
<1>1. NormalizeLists(s) = lists BY DEF NormalizeLists
<1> HIDE DEF keep, prices, combos, routers, fusions, guardrails, budget, debug, tokens
<1>2. lists.keys = s.keys BY DEF Settings
<1>3. NormalizeSettings(s) = new BY <1>1, <1>2 DEF NormalizeSettings
<1> HIDE DEF keys
<1>4. /\ new.keep = keep /\ new.keys = keys /\ new.prices = prices /\ new.combos = combos
      /\ new.routers = routers /\ new.fusions = fusions /\ new.guardrails = guardrails
      /\ new.budget = budget /\ new.debug = debug /\ new.tokens = tokens
      BY DEF Settings
<1> HIDE DEF new
<1>5. SettingsFields(s, new, keys)
      BY <1>4 DEF SettingsFields, keep, prices, combos, routers, fusions, guardrails, budget, debug, tokens
<1> QED BY <1>3, <1>5 DEF keys

Rekeyed2(s, keys) == [s EXCEPT !.keys = keys]

LEMMA RekeyedFields ==
    ASSUME NEW s \in NormalSettings, NEW keys \in NormalKeys
    PROVE  LET t == Rekeyed2(s, keys)
           IN  /\ t \in NormalSettings
               /\ t.keep = s.keep /\ t.keys = keys /\ t.prices = s.prices /\ t.combos = s.combos
               /\ t.routers = s.routers /\ t.fusions = s.fusions /\ t.guardrails = s.guardrails
               /\ t.budget = s.budget /\ t.debug = s.debug /\ t.tokens = s.tokens
BY DEF Rekeyed2, NormalSettings

LEMMA SameSettings ==
    ASSUME NEW s \in NormalSettings, NEW t \in NormalSettings,
           s.keep = t.keep, s.keys = t.keys, s.prices = t.prices, s.combos = t.combos,
           s.routers = t.routers, s.fusions = t.fusions, s.guardrails = t.guardrails,
           s.budget = t.budget, s.debug = t.debug, s.tokens = t.tokens
    PROVE  s = t
BY DEF NormalSettings

LEMMA KeysAreKeys == ASSUME NEW keys \in NormalKeys PROVE keys \in Seq(APIKeyPolicies)
<1>1. NormalKey \in SUBSET APIKeyPolicies BY DEF NormalKey
<1> QED BY <1>1, SeqWider DEF NormalKeys

SavedFirst(s, current) == Rekeyed2(NormalizeSettings(s), PreserveAPIKeyUsage(NormalizeSettings(s).keys, current))
SavedLast(s, current) == NormalizeSettings(Rekeyed2(s, PreserveAPIKeyUsage(s.keys, current)))

LEMMA SavedNormal ==
    ASSUME NEW s \in Settings, NEW current \in NormalKeys
    PROVE  SavedFirst(s, current) \in NormalSettings
<1>1. NormalizeSettings(s) \in NormalSettings BY SettingsNormal
<1>2. NormalizeSettings(s).keys \in NormalKeys BY <1>1 DEF NormalSettings
<1>3. PreserveAPIKeyUsage(NormalizeSettings(s).keys, current) \in NormalKeys
      BY <1>2, KeysAreKeys, UsageNormal
<1> QED BY <1>1, <1>3, RekeyedFields DEF SavedFirst

LEMMA SavedSame ==
    ASSUME NEW s \in Settings, ~Unnamed(s), NEW current \in NormalKeys
    PROVE  SavedLast(s, current) = SavedFirst(s, current)
<1> DEFINE old == PreserveAPIKeyUsage(s.keys, current)
           u == Rekeyed2(s, old)
           n == NormalizeSettings(s)
           x == NormalizeSettings(u)
           keys == PreserveAPIKeyUsage(n.keys, current)
           y == Rekeyed2(n, keys)
<1>1. s.keys \in Seq(APIKeyPolicies) /\ current \in Seq(APIKeyPolicies) BY KeysAreKeys DEF Settings
<1>2. old \in Seq(APIKeyPolicies) BY <1>1, UsageNormal
<1> HIDE DEF old
<1>3. /\ u \in Settings
      /\ u.keep = s.keep /\ u.keys = old /\ u.prices = s.prices /\ u.combos = s.combos
      /\ u.routers = s.routers /\ u.fusions = s.fusions /\ u.guardrails = s.guardrails
      /\ u.budget = s.budget /\ u.debug = s.debug /\ u.tokens = s.tokens
      BY <1>2 DEF Settings, Rekeyed2
<1> HIDE DEF u
<1>4. n \in NormalSettings /\ SettingsFields(s, n, NormalizeAPIKeyPolicies(s.keys))
      BY SettingsNormal, NormalizedFields
<1>5. x \in NormalSettings /\ SettingsFields(u, x, NormalizeAPIKeyPolicies(old))
      BY <1>3, SettingsNormal, NormalizedFields
<1> HIDE DEF n, x
<1>6. keys \in NormalKeys
  <2>1. n.keys \in NormalKeys BY <1>4 DEF NormalSettings
  <2> QED BY <1>1, <2>1, UsageNormal
<1>7. NormalizeAPIKeyPolicies(old) = keys
  <2>1. \A i \in 1..Len(s.keys) : s.keys[i].id # "" BY DEF Unnamed
  <2>2. n.keys = NormalizeAPIKeyPolicies(s.keys) BY <1>4 DEF SettingsFields
  <2> QED BY <1>1, <2>1, <2>2, UsageBeforeOrAfter DEF old
<1> HIDE DEF keys
<1>8. /\ y \in NormalSettings
      /\ y.keep = n.keep /\ y.keys = keys /\ y.prices = n.prices /\ y.combos = n.combos
      /\ y.routers = n.routers /\ y.fusions = n.fusions /\ y.guardrails = n.guardrails
      /\ y.budget = n.budget /\ y.debug = n.debug /\ y.tokens = n.tokens
      BY <1>4, <1>6, RekeyedFields
<1> HIDE DEF y
<1>9. x = y BY <1>3, <1>4, <1>5, <1>7, <1>8, SameSettings DEF SettingsFields
<1> QED BY <1>9 DEF SavedLast, SavedFirst, x, y, u, old, keys, n

(***************************************************************************)
(* Accounts and invoices.                                                  *)
(***************************************************************************)
Auths == {"api_key", "bearer", "oauth", "none"}
AtLeast0 == {n \in Int : n >= 0}
Percent == {n \in Int : n >= 0 /\ n <= 100}
NormalAccount ==
    {a \in [provider : STRING \ {""}, auth : Auths, proxyId : STRING, proxyUrl : STRING \cup {""},
            priority : Positive, quota : Percent, streak : AtLeast0, cooldown : Int] :
        a.proxyId # "" => a.proxyUrl = ""}

Fixed(a, auth, url, priority, quota, streak) ==
    [a EXCEPT !.auth = auth, !.proxyUrl = url, !.priority = priority, !.quota = quota, !.streak = streak]

LEMMA NormalizedAccountIs ==
    ASSUME NEW a
    PROVE  NormalizeProviderAccount(a) =
             Fixed(a, Among(Auths, "api_key", a.auth), IF a.proxyId # "" THEN "" ELSE a.proxyUrl,
                   OrElse(1, a.priority), AtMost(100, AtLeast(0, a.quota)), AtLeast(0, a.streak))
BY DEF NormalizeProviderAccount, Fixed, Auths

LEMMA PercentIs == \A n \in Int : AtMost(100, AtLeast(0, n)) \in Percent /\ (n \in Percent => AtMost(100, AtLeast(0, n)) = n)
BY DEF AtMost, AtLeast, Percent
LEMMA PositiveIs == \A n \in Int : OrElse(1, n) \in Positive /\ (n \in Positive => OrElse(1, n) = n)
BY DEF OrElse, Positive
LEMMA AtLeast0Is == \A n \in Int : AtLeast(0, n) \in AtLeast0 /\ (n \in AtLeast0 => AtLeast(0, n) = n)
BY DEF AtLeast, AtLeast0

LEMMA AccountNormal ==
    /\ \A a \in ProviderAccounts : a.provider # "" => NormalizeProviderAccount(a) \in NormalAccount
    /\ \A a \in NormalAccount : NormalizeProviderAccount(a) = a
<1> DEFINE auth(a) == Among(Auths, "api_key", a.auth)
           url(a) == IF a.proxyId # "" THEN "" ELSE a.proxyUrl
           priority(a) == OrElse(1, a.priority)
           quota(a) == AtMost(100, AtLeast(0, a.quota))
           streak(a) == AtLeast(0, a.streak)
<1>1. \A a : NormalizeProviderAccount(a) = Fixed(a, auth(a), url(a), priority(a), quota(a), streak(a))
      BY NormalizedAccountIs
<1>2. ASSUME NEW a \in ProviderAccounts, a.provider # "" PROVE NormalizeProviderAccount(a) \in NormalAccount
  <2>1. /\ a.auth \in STRING /\ a.priority \in Int /\ a.quota \in Int /\ a.streak \in Int
        /\ a.proxyUrl \in STRING
        BY DEF ProviderAccounts
  <2>2. auth(a) \in Auths BY DEF Among, Auths
  <2>3. url(a) \in STRING \cup {""} /\ (a.proxyId # "" => url(a) = "") BY <2>1
  <2>4. priority(a) \in Positive /\ quota(a) \in Percent /\ streak(a) \in AtLeast0
        BY <2>1, PercentIs, PositiveIs, AtLeast0Is
  <2> HIDE DEF auth, url, priority, quota, streak
  <2>5. Fixed(a, auth(a), url(a), priority(a), quota(a), streak(a)) \in NormalAccount
        BY <1>2, <2>2, <2>3, <2>4 DEF Fixed, NormalAccount, ProviderAccounts
  <2> QED BY <1>1, <2>5
<1>3. ASSUME NEW a \in NormalAccount PROVE NormalizeProviderAccount(a) = a
  <2>1. /\ a.auth \in Auths /\ a.priority \in Positive /\ a.quota \in Percent /\ a.streak \in AtLeast0
        /\ (a.proxyId # "" => a.proxyUrl = "")
        BY DEF NormalAccount
  <2>2. auth(a) = a.auth BY <2>1 DEF Among
  <2>3. url(a) = a.proxyUrl BY <2>1
  <2>4. priority(a) = a.priority BY <2>1, PositiveIs DEF Positive
  <2>5. quota(a) = a.quota BY <2>1, PercentIs DEF Percent
  <2>6. streak(a) = a.streak BY <2>1, AtLeast0Is DEF AtLeast0
  <2> HIDE DEF auth, url, priority, quota, streak
  <2>7. Fixed(a, auth(a), url(a), priority(a), quota(a), streak(a)) = a
        BY <2>2, <2>3, <2>4, <2>5, <2>6 DEF Fixed, NormalAccount
  <2> QED BY <1>1, <2>7
<1> QED BY <1>2, <1>3

\* Both stores do the same to the account of a failed or successful request.
SqlOutcome(a, success, cooldown) ==
    [a EXCEPT !.streak = IF success THEN 0 ELSE a.streak + 1,
              !.cooldown = IF success THEN 0 ELSE cooldown]

LEMMA OutcomeNormal ==
    ASSUME NEW a \in NormalAccount, NEW success \in BOOLEAN, NEW cooldown \in Int
    PROVE  /\ AfterOutcome(a, success, cooldown) \in NormalAccount
           /\ AfterOutcome(a, success, cooldown).provider = a.provider
           /\ AfterOutcome(a, success, cooldown) = SqlOutcome(a, success, cooldown)
<1>1. a.streak \in AtLeast0 BY DEF NormalAccount
<1> DEFINE n == a.streak + 1
<1>2. n \in AtLeast0 /\ 0 \in AtLeast0 /\ 0 \in Int BY <1>1 DEF AtLeast0
<1> HIDE DEF n
<1>3. CASE success
  <2>1. [a EXCEPT !.streak = 0, !.cooldown = 0] \in NormalAccount BY <1>2 DEF NormalAccount
  <2>2. [a EXCEPT !.streak = 0, !.cooldown = 0].provider = a.provider BY DEF NormalAccount
  <2> QED BY <1>3, <2>1, <2>2 DEF AfterOutcome, SqlOutcome
<1>4. CASE ~success
  <2>1. [a EXCEPT !.streak = n, !.cooldown = cooldown] \in NormalAccount BY <1>2 DEF NormalAccount
  <2>2. [a EXCEPT !.streak = n, !.cooldown = cooldown].provider = a.provider BY DEF NormalAccount
  <2> QED BY <1>4, <2>1, <2>2 DEF AfterOutcome, SqlOutcome, n
<1> QED BY <1>3, <1>4

Statuses == {"draft", "unpaid", "paid", "overdue", "void"}
NormalInvoice ==
    {v \in [status : Statuses, amount : AtLeast0, tax : AtLeast0, total : Int] :
        v.total > 0 \/ v.total = v.amount + v.tax}

Billed(v, status, amount, tax, total) ==
    [v EXCEPT !.status = status, !.amount = amount, !.tax = tax, !.total = total]

LEMMA InvoiceNormal ==
    /\ \A v \in Invoices : NormalizeInvoice(v) \in NormalInvoice
    /\ \A v \in NormalInvoice : NormalizeInvoice(v) = v
<1> DEFINE status(v) == Among(Statuses, "unpaid", v.status)
           amount(v) == AtLeast(0, v.amount)
           tax(v) == AtLeast(0, v.tax)
           total(v) == IF v.total <= 0 THEN amount(v) + tax(v) ELSE v.total
<1>1. \A v : NormalizeInvoice(v) = Billed(v, status(v), amount(v), tax(v), total(v))
      BY DEF NormalizeInvoice, Billed, Statuses
<1>2. ASSUME NEW v \in Invoices PROVE NormalizeInvoice(v) \in NormalInvoice
  <2>1. v.amount \in Int /\ v.tax \in Int /\ v.total \in Int BY DEF Invoices
  <2>2. amount(v) \in AtLeast0 /\ tax(v) \in AtLeast0 BY <2>1, AtLeast0Is
  <2>3. status(v) \in Statuses BY DEF Among, Statuses
  <2>4. total(v) \in Int /\ (total(v) > 0 \/ total(v) = amount(v) + tax(v))
    <3> HIDE DEF amount, tax
    <3> QED BY <2>1, <2>2 DEF AtLeast0
  <2> HIDE DEF status, amount, tax, total
  <2>5. Billed(v, status(v), amount(v), tax(v), total(v)) \in NormalInvoice
        BY <2>2, <2>3, <2>4 DEF Billed, NormalInvoice, Invoices
  <2> QED BY <1>1, <2>5
<1>3. ASSUME NEW v \in NormalInvoice PROVE NormalizeInvoice(v) = v
  <2>1. /\ v.amount \in AtLeast0 /\ v.tax \in AtLeast0 /\ v.total \in Int /\ v.status \in Statuses
        /\ (v.total > 0 \/ v.total = v.amount + v.tax)
        BY DEF NormalInvoice
  <2>2. amount(v) = v.amount /\ tax(v) = v.tax BY <2>1, AtLeast0Is DEF AtLeast0
  <2>3. status(v) = v.status BY <2>1 DEF Among
  <2>4. total(v) = v.total
    <3> HIDE DEF amount, tax
    <3> QED BY <2>1, <2>2 DEF AtLeast0
  <2> HIDE DEF status, amount, tax, total
  <2>5. Billed(v, status(v), amount(v), tax(v), total(v)) = v
        BY <2>2, <2>3, <2>4 DEF Billed, NormalInvoice
  <2> QED BY <1>1, <2>5
<1> QED BY <1>2, <1>3

(***************************************************************************)
(* The orders that rows are listed in.                                     *)
(***************************************************************************)
LEMMA Places ==
    /\ IsFiniteSet(Ids)
    /\ \A x \in Ids : Place[x] \in Int
    /\ \A x, y \in Ids : Place[x] = Place[y] => x = y
<1>1. Len(IdOrder) \in Nat BY IdsAssumption, LenProperties
<1>2. IsFiniteSet(Ids)
  <2>1. IsFiniteSet(1..Len(IdOrder)) BY <1>1, FS_Interval
  <2> DEFINE I == 1..Len(IdOrder)
             f == [i \in I |-> IdOrder[i]]
  <2>2. f \in Surjection(I, Ids) BY DEF Surjection, Ids
  <2> QED BY <2>1, <2>2, FS_Surjection
<1>3. ASSUME NEW x \in Ids PROVE Place[x] \in 1..Len(IdOrder) /\ IdOrder[Place[x]] = x
  <2>1. \E i \in 1..Len(IdOrder) : IdOrder[i] = x BY DEF Ids
  <2>2. Place[x] = CHOOSE i \in 1..Len(IdOrder) : IdOrder[i] = x BY DEF Place
  <2> QED BY <2>1, <2>2
<1> QED BY <1>1, <1>2, <1>3

Earlier(ids) == {p \in ids \X ids : Place[p[1]] < Place[p[2]]}

LEMMA EarlierOrders ==
    ASSUME NEW ids \in SUBSET Ids PROVE Orders(Earlier(ids), ids)
<1>1. IsFiniteSet(ids) BY Places, FS_Subset
<1>2. /\ \A x \in ids : Place[x] \in Int
      /\ \A x, y \in ids : Place[x] = Place[y] => x = y
      BY Places
<1>3. \A x, y \in ids : <<x, y>> \in Earlier(ids) <=> Place[x] < Place[y] BY DEF Earlier
<1> QED BY <1>1, <1>2, <1>3 DEF Orders

LEMMA ByIdIs ==
    ASSUME NEW ids \in SUBSET Ids PROVE \A i \in 1..Len(ById(ids)) : ById(ids)[i] \in ids
<1>1. ById(ids) = Sorted(ids, Earlier(ids)) BY DEF ById, Earlier
<1>2. Orders(Earlier(ids), ids) BY EarlierOrders
<1>3. /\ Len(Sorted(ids, Earlier(ids))) = Cardinality(ids)
      /\ Sorted(ids, Earlier(ids)) \in [1..Cardinality(ids) -> ids]
      BY <1>2, SortedIs
<1> QED BY <1>1, <1>3

\* By priority first.
Sooner(ids, P) ==
    {p \in ids \X ids : P[p[1]] < P[p[2]] \/ (P[p[1]] = P[p[2]] /\ Place[p[1]] < Place[p[2]])}

LEMMA SoonerOrders ==
    ASSUME NEW ids \in SUBSET Ids, NEW P \in [ids -> Int] PROVE Orders(Sooner(ids, P), ids)
<1>1. IsFiniteSet(ids) BY Places, FS_Subset
<1>2. /\ \A x \in ids : Place[x] \in Int /\ P[x] \in Int
      /\ \A x, y \in ids : Place[x] = Place[y] => x = y
      BY Places
<1>3. \A x, y \in ids : <<x, y>> \in Sooner(ids, P) <=> P[x] < P[y] \/ (P[x] = P[y] /\ Place[x] < Place[y])
      BY DEF Sooner
<1> DEFINE R == Sooner(ids, P)
<1> HIDE DEF R
<1>4. \A x \in ids : <<x, x>> \notin R BY <1>2, <1>3 DEF R
<1>5. ASSUME NEW x \in ids, NEW y \in ids, NEW z \in ids, <<x, y>> \in R, <<y, z>> \in R
      PROVE  <<x, z>> \in R
  <2>1. P[x] \in Int /\ P[y] \in Int /\ P[z] \in Int /\ Place[x] \in Int /\ Place[y] \in Int /\ Place[z] \in Int
        BY <1>2
  <2>2. P[x] < P[y] \/ (P[x] = P[y] /\ Place[x] < Place[y]) BY <1>3, <1>5 DEF R
  <2>3. P[y] < P[z] \/ (P[y] = P[z] /\ Place[y] < Place[z]) BY <1>3, <1>5 DEF R
  <2>4. P[x] < P[z] \/ (P[x] = P[z] /\ Place[x] < Place[z]) BY <2>1, <2>2, <2>3
  <2> QED BY <1>3, <2>4 DEF R
<1>6. ASSUME NEW x \in ids, NEW y \in ids PROVE x = y \/ <<x, y>> \in R \/ <<y, x>> \in R
  <2>1. P[x] \in Int /\ P[y] \in Int /\ Place[x] \in Int /\ Place[y] \in Int BY <1>2
  <2>2. \/ P[x] < P[y] \/ P[y] < P[x]
        \/ P[x] = P[y] /\ (Place[x] < Place[y] \/ Place[y] < Place[x] \/ Place[x] = Place[y])
        BY <2>1
  <2>3. Place[x] = Place[y] => x = y BY <1>2
  <2>4. P[x] < P[y] \/ (P[x] = P[y] /\ Place[x] < Place[y]) => <<x, y>> \in R BY <1>3 DEF R
  <2>5. P[y] < P[x] \/ (P[y] = P[x] /\ Place[y] < Place[x]) => <<y, x>> \in R BY <1>3 DEF R
  <2>6. CASE P[x] < P[y] BY <2>4, <2>6
  <2>7. CASE P[y] < P[x] BY <2>5, <2>7
  <2>8. CASE P[x] = P[y] /\ Place[x] < Place[y] BY <2>4, <2>8
  <2>9. CASE P[x] = P[y] /\ Place[y] < Place[x]
    <3>1. P[y] = P[x] BY <2>9
    <3> QED BY <2>5, <2>9, <3>1
  <2>10. CASE P[x] = P[y] /\ Place[x] = Place[y] BY <2>3, <2>10
  <2> HIDE DEF R
  <2> QED BY <2>2, <2>6, <2>7, <2>8, <2>9, <2>10
<1> QED BY <1>1, <1>4, <1>5, <1>6 DEF Orders, R

(***************************************************************************)
(* The tables of both stores.                                              *)
(***************************************************************************)
IsTable(x) == x = [a \in DOMAIN x |-> x[a]]
GoodProviders(x) == DOMAIN x \in SUBSET Ids /\ \A p \in DOMAIN x : RowOk(x[p])
GoodAccounts(x) == IsTable(x) /\ DOMAIN x \in SUBSET Ids /\ \A a \in DOMAIN x : x[a] \in NormalAccount
GoodInvoices(x) == IsTable(x) /\ \A v \in DOMAIN x : x[v] \in NormalInvoice
GoodDb(d) ==
    /\ Tables \subseteq DOMAIN d
    /\ d.settings \in NormalSettings
    /\ GoodProviders(d.providers) /\ GoodAccounts(d.accounts) /\ GoodInvoices(d.invoices)

\* What SQLite has of the rows d of the file store.
RowsAgree(d, t) ==
    /\ 1 \in DOMAIN t.settings /\ t.settings[1] = d.settings
    /\ DOMAIN t.providers = DOMAIN d.providers
    /\ \A p \in DOMAIN d.providers :
          KeysNamed(d.providers[p]) /\ t.providers[p] = NormalizeProvider(d.providers[p])
    /\ t.accounts = d.accounts /\ t.proxies = d.proxies

RowsInv ==
    /\ GoodDb(db) /\ GoodDb(mainFile)
    /\ ~excused => faults = 0 /\ RowsAgree(db, tables)

Changed(d, n, v) == [d EXCEPT ![n] = v]

LEMMA ChangedIs ==
    ASSUME NEW d, NEW n \in DOMAIN d, NEW v
    PROVE  /\ DOMAIN Changed(d, n, v) = DOMAIN d
           /\ Changed(d, n, v)[n] = v
           /\ \A m \in DOMAIN d : m # n => Changed(d, n, v)[m] = d[m]
BY DEF Changed

LEMMA ChangedTable ==
    ASSUME NEW d, Tables \subseteq DOMAIN d, NEW v
    PROVE  /\ \A n \in Tables : DOMAIN Changed(d, n, v) = DOMAIN d
           /\ LET t == Changed(d, "settings", v)
              IN  /\ t.settings = v /\ t.providers = d.providers /\ t.accounts = d.accounts
                  /\ t.proxies = d.proxies /\ t.invoices = d.invoices
           /\ LET t == Changed(d, "providers", v)
              IN  /\ t.settings = d.settings /\ t.providers = v /\ t.accounts = d.accounts
                  /\ t.proxies = d.proxies /\ t.invoices = d.invoices
           /\ LET t == Changed(d, "accounts", v)
              IN  /\ t.settings = d.settings /\ t.providers = d.providers /\ t.accounts = v
                  /\ t.proxies = d.proxies /\ t.invoices = d.invoices
           /\ LET t == Changed(d, "proxies", v)
              IN  /\ t.settings = d.settings /\ t.providers = d.providers /\ t.accounts = d.accounts
                  /\ t.proxies = v /\ t.invoices = d.invoices
           /\ LET t == Changed(d, "invoices", v)
              IN  /\ t.settings = d.settings /\ t.providers = d.providers /\ t.accounts = d.accounts
                  /\ t.proxies = d.proxies /\ t.invoices = v
<1>1. /\ "settings" \in DOMAIN d /\ "providers" \in DOMAIN d /\ "accounts" \in DOMAIN d
      /\ "proxies" \in DOMAIN d /\ "invoices" \in DOMAIN d
      BY DEF Tables
<1>2. \A n \in Tables : DOMAIN Changed(d, n, v) = DOMAIN d BY ChangedIs
<1> QED BY <1>1, <1>2, ChangedIs

LEMMA ChangedGood ==
    ASSUME NEW d, GoodDb(d), NEW v
    PROVE  /\ v \in NormalSettings => GoodDb(Changed(d, "settings", v))
           /\ GoodProviders(v) => GoodDb(Changed(d, "providers", v))
           /\ GoodAccounts(v) => GoodDb(Changed(d, "accounts", v))
           /\ GoodDb(Changed(d, "proxies", v))
           /\ GoodInvoices(v) => GoodDb(Changed(d, "invoices", v))
<1>1. Tables \subseteq DOMAIN d BY DEF GoodDb
<1>2. \A n \in Tables : Tables \subseteq DOMAIN Changed(d, n, v) BY <1>1, ChangedTable
<1>3. {"settings", "providers", "accounts", "proxies", "invoices"} \subseteq Tables BY DEF Tables
<1> QED BY <1>1, <1>2, <1>3, ChangedTable DEF GoodDb

LEMMA ChangedAgree ==
    ASSUME NEW d, NEW t, Tables \subseteq DOMAIN d, Tables \subseteq DOMAIN t, RowsAgree(d, t),
           NEW v, NEW w
    PROVE  /\ 1 \in DOMAIN w /\ w[1] = v => RowsAgree(Changed(d, "settings", v), Changed(t, "settings", w))
           /\ RowsAgree(Changed(d, "accounts", v), Changed(t, "accounts", v))
           /\ RowsAgree(Changed(d, "proxies", v), Changed(t, "proxies", v))
           /\ RowsAgree(Changed(d, "invoices", v), Changed(t, "invoices", w))
           /\ RowsAgree(Changed(d, "invoices", v), t)
BY ChangedTable DEF RowsAgree

LEMMA ProvidersAgree ==
    ASSUME NEW d, NEW t, Tables \subseteq DOMAIN d, Tables \subseteq DOMAIN t, RowsAgree(d, t),
           NEW v, NEW w, DOMAIN w = DOMAIN v,
           \A p \in DOMAIN v : KeysNamed(v[p]) /\ w[p] = NormalizeProvider(v[p])
    PROVE  RowsAgree(Changed(d, "providers", v), Changed(t, "providers", w))
BY ChangedTable DEF RowsAgree

LEMMA SavedIsGood ==
    ASSUME GoodDb(mainFile), NEW new, GoodDb(new), NEW wrote, Save(new, wrote)
    PROVE  GoodDb(db') /\ GoodDb(mainFile') /\ db' = new
BY DEF Save

(***************************************************************************)
(* Rows that are put into a table or dropped from it.                      *)
(***************************************************************************)
LEMMA PutTable == ASSUME NEW x, NEW id, NEW row PROVE IsTable(Put(x, id, row))
BY DEF Put, IsTable

LEMMA PutIds == ASSUME NEW x, NEW id, NEW row PROVE DOMAIN Put(x, id, row) = DOMAIN x \cup {id}
BY DEF Put

LEMMA PutRow ==
    ASSUME NEW x, NEW id, NEW row PROVE Put(x, id, row)[id] = row
BY DEF Put

LEMMA PutOther ==
    ASSUME NEW x, NEW id, NEW row, NEW y \in DOMAIN x, y # id PROVE Put(x, id, row)[y] = x[y]
BY DEF Put

LEMMA DropTable == ASSUME NEW x, NEW ids PROVE IsTable(Drop(x, ids))
BY DEF Drop, IsTable

LEMMA DropIds == ASSUME NEW x, NEW ids PROVE DOMAIN Drop(x, ids) = DOMAIN x \ ids
BY DEF Drop

LEMMA DropOther ==
    ASSUME NEW x, NEW ids, NEW y \in DOMAIN x \ ids PROVE Drop(x, ids)[y] = x[y]
BY DEF Drop

LEMMA NoRows == DOMAIN Empty = {} /\ IsTable(Empty) /\ \A x : IsTable(x) /\ DOMAIN x = {} => x = Empty
BY DEF IsTable, Empty

LEMMA AccountsGood ==
    ASSUME NEW x, GoodAccounts(x)
    PROVE  /\ \A id \in Ids, row \in NormalAccount : GoodAccounts(Put(x, id, row))
           /\ \A ids : GoodAccounts(Drop(x, ids))
           /\ GoodAccounts(Empty)
<1>1. ASSUME NEW id \in Ids, NEW row \in NormalAccount PROVE GoodAccounts(Put(x, id, row))
  <2> DEFINE y == Put(x, id, row)
  <2>1. /\ IsTable(y) /\ DOMAIN y = DOMAIN x \cup {id}
        /\ y[id] = row /\ \A z \in DOMAIN x : z # id => y[z] = x[z]
    <3>1. \A z \in DOMAIN x : z # id => y[z] = x[z] BY PutOther
    <3>2. IsTable(y) /\ DOMAIN y = DOMAIN x \cup {id} BY PutIds, PutTable
    <3>3. y[id] = row BY PutRow
    <3> QED BY <3>1, <3>2, <3>3
  <2> HIDE DEF y
  <2>2. \A z \in DOMAIN x : x[z] \in NormalAccount BY DEF GoodAccounts
  <2>3. \A z \in DOMAIN y : y[z] \in NormalAccount BY <1>1, <2>1, <2>2
  <2>4. DOMAIN y \in SUBSET Ids
    <3>1. DOMAIN x \in SUBSET Ids BY DEF GoodAccounts
    <3> QED BY <1>1, <2>1, <3>1
  <2>5. GoodAccounts(y) BY <2>1, <2>3, <2>4 DEF GoodAccounts
  <2> QED BY <2>5 DEF y
<1>2. ASSUME NEW ids PROVE GoodAccounts(Drop(x, ids))
  <2> DEFINE y == Drop(x, ids)
  <2>1. IsTable(y) /\ DOMAIN y = DOMAIN x \ ids /\ \A z \in DOMAIN x \ ids : y[z] = x[z] BY DropIds, DropTable, DropOther
  <2> HIDE DEF y
  <2>2. DOMAIN y \in SUBSET Ids BY <2>1 DEF GoodAccounts
  <2>3. \A z \in DOMAIN y : y[z] \in NormalAccount BY <2>1 DEF GoodAccounts
  <2>4. GoodAccounts(y) BY <2>1, <2>2, <2>3 DEF GoodAccounts
  <2> QED BY <2>4 DEF y
<1>3. GoodAccounts(Empty)
  <2>1. DOMAIN Empty = {} /\ IsTable(Empty) BY NoRows
  <2> QED BY <2>1 DEF GoodAccounts
<1> QED BY <1>1, <1>2, <1>3

LEMMA InvoicesGood ==
    ASSUME NEW x, GoodInvoices(x)
    PROVE  /\ \A id, row : row \in NormalInvoice => GoodInvoices(Put(x, id, row))
           /\ \A ids : GoodInvoices(Drop(x, ids))
           /\ GoodInvoices(Empty)
<1>1. ASSUME NEW id, NEW row \in NormalInvoice PROVE GoodInvoices(Put(x, id, row))
  <2> DEFINE y == Put(x, id, row)
  <2>1. /\ IsTable(y) /\ DOMAIN y = DOMAIN x \cup {id}
        /\ y[id] = row /\ \A z \in DOMAIN x : z # id => y[z] = x[z]
    <3>1. \A z \in DOMAIN x : z # id => y[z] = x[z] BY PutOther
    <3>2. IsTable(y) /\ DOMAIN y = DOMAIN x \cup {id} BY PutIds, PutTable
    <3>3. y[id] = row BY PutRow
    <3> QED BY <3>1, <3>2, <3>3
  <2> HIDE DEF y
  <2>2. \A z \in DOMAIN x : x[z] \in NormalInvoice BY DEF GoodInvoices
  <2>3. \A z \in DOMAIN y : y[z] \in NormalInvoice BY <1>1, <2>1, <2>2
  <2>4. GoodInvoices(y) BY <2>1, <2>3 DEF GoodInvoices
  <2> QED BY <2>4 DEF y
<1>2. ASSUME NEW ids PROVE GoodInvoices(Drop(x, ids))
  <2> DEFINE y == Drop(x, ids)
  <2>1. IsTable(y) /\ DOMAIN y = DOMAIN x \ ids /\ \A z \in DOMAIN x \ ids : y[z] = x[z] BY DropIds, DropTable, DropOther
  <2> HIDE DEF y
  <2>2. \A z \in DOMAIN y : y[z] \in NormalInvoice BY <2>1 DEF GoodInvoices
  <2>3. GoodInvoices(y) BY <2>1, <2>2 DEF GoodInvoices
  <2> QED BY <2>3 DEF y
<1>3. GoodInvoices(Empty)
  <2>1. DOMAIN Empty = {} /\ IsTable(Empty) BY NoRows
  <2> QED BY <2>1 DEF GoodInvoices
<1> QED BY <1>1, <1>2, <1>3

LEMMA ProvidersGood ==
    ASSUME NEW x, GoodProviders(x)
    PROVE  /\ \A id \in Ids : \A row : RowOk(row) => GoodProviders(Put(x, id, row))
           /\ \A ids : GoodProviders(Drop(x, ids))
<1>1. ASSUME NEW id \in Ids, NEW row, RowOk(row) PROVE GoodProviders(Put(x, id, row))
  <2> DEFINE y == Put(x, id, row)
  <2>1. /\ DOMAIN y = DOMAIN x \cup {id}
        /\ y[id] = row /\ \A z \in DOMAIN x : z # id => y[z] = x[z]
    <3>1. \A z \in DOMAIN x : z # id => y[z] = x[z] BY PutOther
    <3>2. IsTable(y) /\ DOMAIN y = DOMAIN x \cup {id} BY PutIds, PutTable
    <3>3. y[id] = row BY PutRow
    <3> QED BY <3>1, <3>2, <3>3
  <2> HIDE DEF y
  <2>2. \A z \in DOMAIN x : RowOk(x[z]) BY DEF GoodProviders
  <2>3. \A z \in DOMAIN y : RowOk(y[z])
    <3> TAKE z \in DOMAIN y
    <3>1. CASE z = id BY <1>1, <2>1, <3>1
    <3>2. CASE z # id
      <4>1. z \in DOMAIN x /\ y[z] = x[z] BY <2>1, <3>2
      <4> QED BY <2>2, <4>1
    <3> QED BY <3>1, <3>2
  <2>4. DOMAIN y \in SUBSET Ids
    <3>1. DOMAIN x \in SUBSET Ids BY DEF GoodProviders
    <3> QED BY <1>1, <2>1, <3>1
  <2>5. GoodProviders(y) BY <2>3, <2>4 DEF GoodProviders
  <2> QED BY <2>5 DEF y
<1>2. ASSUME NEW ids PROVE GoodProviders(Drop(x, ids))
  <2> DEFINE y == Drop(x, ids)
  <2>1. DOMAIN y = DOMAIN x \ ids /\ \A z \in DOMAIN x \ ids : y[z] = x[z] BY DropIds, DropTable, DropOther
  <2> HIDE DEF y
  <2>2. DOMAIN y \in SUBSET Ids BY <2>1 DEF GoodProviders
  <2>3. \A z \in DOMAIN y : RowOk(y[z]) BY <2>1 DEF GoodProviders
  <2>4. GoodProviders(y) BY <2>2, <2>3 DEF GoodProviders
  <2> QED BY <2>4 DEF y
<1> QED BY <1>1, <1>2

\* Providers whose keys are named stay so.
LEMMA NamedStays ==
    ASSUME NEW r, RowOk(r), KeysNamed(r)
    PROVE  LET t == NormalizeProvider(r)
           IN  RowOk(t) /\ KeysNamed(t) /\ NormalizeProvider(t) = t
<1> DEFINE t == NormalizeProvider(r)
<1>1. NormalProvider(t) /\ t.keys = KeysOf(r) BY ProviderNormal
<1>2. OwnIds(t.keys) BY DEF KeysNamed, OwnIds
<1> HIDE DEF t
<1>3. RowOk(t) BY <1>1, NormalRowOk
<1>4. NormalizeProvider(t) = t BY <1>1, <1>2, ProviderStays
<1>5. KeysNamed(t) BY <1>2, <1>4 DEF KeysNamed, OwnIds
<1> QED BY <1>3, <1>4, <1>5 DEF t

LEMMA NormalizedOk == ASSUME NEW r, RowOk(r) PROVE RowOk(NormalizeProvider(r))
BY ProviderNormal, NormalRowOk

LEMMA NamedKeys == ASSUME NEW r, RowOk(r) PROVE KeysNamed(r) <=> OwnIds(KeysOf(r))
<1>1. NormalizeProvider(r).keys = KeysOf(r) BY ProviderNormal
<1> QED BY <1>1 DEF KeysNamed, OwnIds

\* The seeds have no key list; one key without an id becomes the default key.
LEMMA SeedsGood ==
    /\ GoodProviders(SeedProviders)
    /\ \A p \in DOMAIN SeedProviders : KeysNamed(SeedProviders[p])
<1>1. \A p \in DOMAIN SeedProviders : RowOk(SeedProviders[p]) BY SeedsAssumption, ProvidersOk
<1>2. GoodProviders(SeedProviders) BY <1>1, SeedsAssumption DEF GoodProviders
<1>3. ASSUME NEW p \in DOMAIN SeedProviders PROVE KeysNamed(SeedProviders[p])
  <2> DEFINE r == SeedProviders[p]
             none == <<>>
             k == KeyRow("default", r.apiKey, TRUE, 1)
  <2>1. RowOk(r) /\ r.keys = none BY <1>1, SeedsAssumption
  <2> HIDE DEF r
  <2>2. KeptKeys(none) /\ OwnIds(none) BY NoKeys DEF OwnIds
  <2>3. NormalizeProviderKeys(none) = none
    <3> HIDE DEF none
    <3> QED BY <2>2, KeysStay
  <2>4. KeysOf(r) = IF r.apiKey # "" THEN <<k>> ELSE none BY <2>1, <2>3 DEF KeysOf
  <2>5. OwnIds(<<k>>)
    <3>1. k.id = "default" BY DEF KeyRow
    <3> HIDE DEF k
    <3>2. \A i \in 1..Len(<<k>>) : <<k>>[i] = k /\ i = 1 OBVIOUS
    <3> QED BY <3>1, <3>2 DEF OwnIds
  <2> HIDE DEF k
  <2>6. OwnIds(KeysOf(r)) BY <2>2, <2>4, <2>5
  <2> QED BY <2>1, <2>6, NamedKeys DEF r
<1> QED BY <1>2, <1>3

(***************************************************************************)
(* Rows, call by call: the file store keeps normal rows whatever fails,    *)
(* and SQLite has the same rows while nothing did.                         *)
(***************************************************************************)
LEMMA CleanCall ==
    ASSUME RowsInv, NEW kind, NEW failed, NEW differs, Call(kind, failed, differs), ~excused'
    PROVE  ~excused /\ failed = "none" /\ ~differs /\ faults' = 0 /\ RowsAgree(db, tables)
BY DEF Call, RowsInv

LEMMA HasTables == ASSUME RowsInv, StoresInv PROVE Tables \subseteq DOMAIN db /\ Tables \subseteq DOMAIN tables
BY DEF RowsInv, GoodDb, StoresInv, Shaped

LEMMA RowsNext ==
    ASSUME GoodDb(db'), GoodDb(mainFile'), ~excused' => faults' = 0 /\ RowsAgree(db', tables')
    PROVE  RowsInv'
BY DEF RowsInv

LEMMA ReadBack ==
    ASSUME RowsInv, ~excused PROVE SqlGetSettings = db.settings /\ db.settings.keys \in NormalKeys
<1>1. db.settings \in NormalSettings /\ 1 \in DOMAIN tables.settings /\ tables.settings[1] = db.settings
      BY DEF RowsInv, GoodDb, RowsAgree
<1>2. db.settings.keys \in NormalKeys BY <1>1 DEF NormalSettings
<1> QED BY <1>1, <1>2, SettingsNormal DEF SqlGetSettings

LEMMA SettingsRows ==
    ASSUME StoresInv, RowsInv, NEW s \in SettingsInputs, NEW failed,
           Call("settings", failed, Unnamed(s)),
           FileSaveSettings(s, Wrote(failed)), SqlSaveSettings(s, failed)
    PROVE  RowsInv'
<1> DEFINE current == db.settings.keys
           new == SavedFirst(s, current)
           wrote == Wrote(failed)
<1>1. s \in Settings BY InputsAssumption
<1>2. current \in NormalKeys BY DEF RowsInv, GoodDb, NormalSettings
<1>3. new \in NormalSettings BY <1>1, <1>2, SavedNormal
<1>4. Save(Changed(db, "settings", new), wrote)
      BY DEF FileSaveSettings, Changed, SavedFirst, Rekeyed2
<1> HIDE DEF new, wrote
<1>5. GoodDb(db') /\ GoodDb(mainFile') /\ db' = Changed(db, "settings", new)
      BY <1>3, <1>4, ChangedGood, SavedIsGood DEF RowsInv
<1>6. ASSUME ~excused' PROVE faults' = 0 /\ RowsAgree(db', tables')
  <2>1. ~excused /\ failed = "none" /\ ~Unnamed(s) /\ faults' = 0 /\ RowsAgree(db, tables)
        BY <1>6, CleanCall
  <2> DEFINE row == SavedLast(s, current)
             rows == Put(tables.settings, 1, row)
  <2>2. SqlGetSettings.keys = current BY <2>1, ReadBack
  <2> HIDE DEF current
  <2>3. tables' = Changed(tables, "settings", rows)
        BY <2>1, <2>2 DEF SqlSaveSettings, SavedLast, Rekeyed2, Changed
  <2>4. row = new BY <1>1, <1>2, <2>1, SavedSame DEF new
  <2> HIDE DEF row
  <2>5. 1 \in DOMAIN rows /\ rows[1] = row
    <3>1. DOMAIN rows = DOMAIN tables.settings \cup {1} BY PutIds
    <3>2. rows[1] = row BY PutRow
    <3> QED BY <3>1, <3>2
  <2> HIDE DEF rows
  <2> QED BY <1>5, <2>1, <2>3, <2>4, <2>5, ChangedAgree, HasTables
<1> QED BY <1>5, <1>6, RowsNext

\* Both stores add the usage to the same key.
LEMMA UsageRows ==
    ASSUME StoresInv, RowsInv, NEW id, NEW failed, Call("settings", failed, FALSE),
           FileRecordAPIKeyUsage(id, 1, Wrote(failed)),
           SqlRecordAPIKeyUsage(id, 1, IF failed = "write" THEN failed ELSE "none")
    PROVE  RowsInv'
<1> DEFINE keys == db.settings.keys
           same == {i \in 1..Len(keys) : keys[i].id = id}
           used == AddUsage(keys, id, 1)
           new == Rekeyed2(db.settings, used)
           wrote == Wrote(failed)
<1>1. keys \in NormalKeys /\ db.settings \in NormalSettings BY DEF RowsInv, GoodDb, NormalSettings
<1>2. used \in NormalKeys BY <1>1, AddUsageNormal
<1>3. new \in NormalSettings
  <2> HIDE DEF used
  <2> QED BY <1>1, <1>2, RekeyedFields
<1>4. CASE same = {}
  <2>1. UNCHANGED fileVars BY <1>4 DEF FileRecordAPIKeyUsage
  <2>2. ASSUME ~excused' PROVE faults' = 0 /\ RowsAgree(db', tables')
    <3>1. ~excused /\ faults' = 0 /\ RowsAgree(db, tables) BY <2>2, CleanCall
    <3>2. 1 \in DOMAIN tables.settings /\ tables.settings[1].keys = keys BY <3>1 DEF RowsAgree
    <3>3. UNCHANGED sqlVars BY <1>4, <3>2 DEF SqlRecordAPIKeyUsage
    <3> QED BY <2>1, <3>1, <3>3 DEF fileVars, sqlVars
  <2> QED BY <2>1, <2>2 DEF RowsInv, fileVars
<1>5. CASE same # {}
  <2>1. Save(Changed(db, "settings", new), wrote)
        BY <1>5 DEF FileRecordAPIKeyUsage, Changed, Rekeyed2
  <2> HIDE DEF new, wrote
  <2>2. GoodDb(db') /\ GoodDb(mainFile') /\ db' = Changed(db, "settings", new)
        BY <1>3, <2>1, ChangedGood, SavedIsGood DEF RowsInv
  <2>3. ASSUME ~excused' PROVE faults' = 0 /\ RowsAgree(db', tables')
    <3>1. ~excused /\ failed = "none" /\ faults' = 0 /\ RowsAgree(db, tables) BY <2>3, CleanCall
    <3> DEFINE first == CHOOSE i \in same : \A j \in same : i <= j
               after == [keys EXCEPT ![first].used = @ + 1]
               x == tables.settings
               y == [x EXCEPT ![1].keys = after]
    <3>2. 1 \in DOMAIN x /\ x[1] = db.settings /\ x[1].keys = keys BY <3>1 DEF RowsAgree
    <3>3. tables' = [tables EXCEPT !.settings[1].keys[first].used = @ + 1]
      <4>1. same = IF 1 \in DOMAIN x THEN {i \in 1..Len(x[1].keys) : x[1].keys[i].id = id} ELSE {}
            BY <3>2
      <4> HIDE DEF same, keys
      <4>2. Exec([tables EXCEPT !.settings[1].keys[first].used = @ + 1], "none")
            BY <1>5, <3>1, <4>1 DEF SqlRecordAPIKeyUsage
      <4> QED BY <4>2 DEF Exec
    <3> HIDE DEF first
    <3>4. tables' = Changed(tables, "settings", y) BY <3>2, <3>3 DEF Changed
    <3>5. after = used
      <4>1. used = IF same = {} THEN keys ELSE after BY DEF AddUsage, first
      <4> QED BY <1>5, <4>1
    <3> HIDE DEF after, used
    <3>6. 1 \in DOMAIN y /\ y[1] = new BY <3>2, <3>5 DEF new, Rekeyed2
    <3> HIDE DEF y
    <3> QED BY <2>2, <3>1, <3>4, <3>6, ChangedAgree, HasTables
  <2> QED BY <2>2, <2>3, RowsNext
<1> QED BY <1>4, <1>5

LEMMA UpsertProviderRows ==
    ASSUME StoresInv, RowsInv, NEW id \in Ids, NEW p, p \in Providers(STRING), NEW failed,
           Call("row", failed, ~KeysNamed(p)),
           FileUpsertProvider(id, p, Wrote(failed)), SqlUpsertProvider(id, p, Stmt(failed))
    PROVE  RowsInv'
<1> DEFINE row == NormalizeProvider(p)
           x == db.providers
           v == Put(x, id, row)
           wrote == Wrote(failed)
<1>1. RowOk(p) /\ RowOk(row) BY ProvidersOk, NormalizedOk
<1>2. Save(Changed(db, "providers", v), wrote) BY DEF FileUpsertProvider, Changed
<1> HIDE DEF row, wrote
<1>3. GoodProviders(v) BY <1>1, ProvidersGood DEF RowsInv, GoodDb
<1>4. GoodDb(db') /\ GoodDb(mainFile') /\ db' = Changed(db, "providers", v)
  <2> HIDE DEF v
  <2> QED BY <1>2, <1>3, ChangedGood, SavedIsGood DEF RowsInv
<1>5. ASSUME ~excused' PROVE faults' = 0 /\ RowsAgree(db', tables')
  <2>1. ~excused /\ failed = "none" /\ KeysNamed(p) /\ faults' = 0 /\ RowsAgree(db, tables)
        BY <1>5 DEF Call, RowsInv
  <2> DEFINE y == tables.providers
             w == Put(y, id, row)
  <2>2. tables' = Changed(tables, "providers", w)
        BY <2>1 DEF SqlUpsertProvider, Exec, Stmt, Changed, row
  <2>3. KeysNamed(row) /\ NormalizeProvider(row) = row BY <1>1, <2>1, NamedStays DEF row
  <2>4. DOMAIN y = DOMAIN x /\ \A q \in DOMAIN x : KeysNamed(x[q]) /\ y[q] = NormalizeProvider(x[q])
        BY <2>1 DEF RowsAgree
  <2> HIDE DEF x, y
  <2>5. DOMAIN w = DOMAIN v /\ DOMAIN v = DOMAIN x \cup {id}
    <3>1. DOMAIN v = DOMAIN x \cup {id} BY PutIds
    <3>2. DOMAIN w = DOMAIN y \cup {id} BY PutIds
    <3> QED BY <2>4, <3>1, <3>2
  <2>6. v[id] = row /\ w[id] = row BY PutRow
  <2>7. ASSUME NEW q \in DOMAIN x, q # id PROVE v[q] = x[q] /\ w[q] = y[q]
        BY <2>4, <2>7, PutOther
  <2> HIDE DEF v, w
  <2>8. ASSUME NEW q \in DOMAIN v PROVE KeysNamed(v[q]) /\ w[q] = NormalizeProvider(v[q])
    <3>1. CASE q = id BY <2>3, <2>6, <3>1
    <3>2. CASE q # id
      <4>1. q \in DOMAIN x BY <2>5, <3>2
      <4> QED BY <2>4, <2>7, <3>2, <4>1
    <3> QED BY <3>1, <3>2
  <2>9. RowsAgree(Changed(db, "providers", v), Changed(tables, "providers", w))
        BY <2>1, <2>5, <2>8, HasTables, ProvidersAgree
  <2> QED BY <1>4, <2>1, <2>2, <2>9
<1> QED BY <1>4, <1>5, RowsNext

LEMMA DeleteProviderRows ==
    ASSUME StoresInv, RowsInv, NEW id, NEW failed, Call("row", failed, FALSE),
           FileDeleteProvider(id, Wrote(failed)), SqlDeleteProvider(id, Stmt(failed)),
           id \in DOMAIN db.providers
    PROVE  RowsInv'
<1> DEFINE gone == AccountsOf(db.accounts, id)
           v == Drop(db.providers, {id})
           a == Drop(db.accounts, gone)
           new == Changed(Changed(db, "providers", v), "accounts", a)
           wrote == Wrote(failed)
<1>1. Save(new, wrote)
  <2>1. Save([db EXCEPT !.providers = v, !.accounts = a], wrote) BY DEF FileDeleteProvider
  <2> HIDE DEF v, a
  <2>2. [db EXCEPT !.providers = v, !.accounts = a] = new BY DEF Changed
  <2> QED BY <2>1, <2>2
<1>2. GoodProviders(v) /\ GoodAccounts(a) BY ProvidersGood, AccountsGood DEF RowsInv, GoodDb
<1> HIDE DEF v, a, wrote
<1>3. GoodDb(db') /\ GoodDb(mainFile') /\ db' = new
      BY <1>1, <1>2, ChangedGood, SavedIsGood DEF RowsInv
<1>4. ASSUME ~excused' PROVE faults' = 0 /\ RowsAgree(db', tables')
  <2>1. ~excused /\ failed = "none" /\ faults' = 0 /\ RowsAgree(db, tables)
        BY <1>4 DEF Call, RowsInv
  <2> DEFINE x == db.providers
             y == tables.providers
             w == Drop(y, {id})
             t == Changed(tables, "providers", w)
  <2>2. DOMAIN y = DOMAIN x /\ \A q \in DOMAIN x : KeysNamed(x[q]) /\ y[q] = NormalizeProvider(x[q])
        BY <2>1 DEF RowsAgree
  <2>3. tables' = Changed(t, "accounts", a)
    <3>1. tables.accounts = db.accounts BY <2>1 DEF RowsAgree
    <3>2. tables' = [tables EXCEPT !.accounts = Drop(@, gone), !.providers = Drop(@, {id})]
          BY <2>1, <3>1 DEF SqlDeleteProvider, Stmt, AccountsOf
    <3>3. tables' = [tables EXCEPT !.accounts = a, !.providers = w] BY <3>1, <3>2 DEF a
    <3> HIDE DEF w
    <3>4. [tables EXCEPT !.accounts = a, !.providers = w] = Changed(t, "accounts", a) BY DEF Changed
    <3> QED BY <3>3, <3>4
  <2> HIDE DEF x, y
  <2>4. v = Drop(x, {id}) BY DEF v, x
  <2>5. DOMAIN w = DOMAIN v /\ DOMAIN v = DOMAIN x \ {id}
    <3>1. DOMAIN v = DOMAIN x \ {id} BY <2>4, DropIds
    <3>2. DOMAIN w = DOMAIN y \ {id} BY DropIds
    <3> QED BY <2>2, <3>1, <3>2
  <2>6. ASSUME NEW q \in DOMAIN v PROVE KeysNamed(v[q]) /\ w[q] = NormalizeProvider(v[q])
    <3>1. q \in DOMAIN x /\ v[q] = x[q] BY <2>4, <2>5, DropOther
    <3>2. w[q] = y[q] BY <2>2, <2>5, DropOther
    <3> QED BY <2>2, <3>1, <3>2
  <2> HIDE DEF w
  <2>7. RowsAgree(Changed(db, "providers", v), t)
        BY <2>1, <2>5, <2>6, HasTables, ProvidersAgree
  <2>8. Tables \subseteq DOMAIN Changed(db, "providers", v) /\ Tables \subseteq DOMAIN t
    <3>1. "providers" \in Tables BY DEF Tables
    <3> QED BY <3>1, HasTables, ChangedTable
  <2> HIDE DEF t
  <2>9. RowsAgree(new, Changed(t, "accounts", a)) BY <2>7, <2>8, ChangedAgree
  <2> QED BY <1>3, <2>1, <2>3, <2>9
<1> QED BY <1>3, <1>4, RowsNext

LEMMA AccountsRows ==
    ASSUME StoresInv, RowsInv, NEW v, GoodAccounts(v), NEW failed,
           Call("row", failed, FALSE), NEW wrote, Save(Changed(db, "accounts", v), wrote),
           failed = "none" /\ tables.accounts = db.accounts => tables' = Changed(tables, "accounts", v)
    PROVE  RowsInv'
<1>1. GoodDb(db') /\ GoodDb(mainFile') /\ db' = Changed(db, "accounts", v)
      BY ChangedGood, SavedIsGood DEF RowsInv
<1>2. ASSUME ~excused' PROVE faults' = 0 /\ RowsAgree(db', tables')
  <2>1. ~excused /\ failed = "none" /\ faults' = 0 /\ RowsAgree(db, tables)
        BY <1>2 DEF Call, RowsInv
  <2>2. tables.accounts = db.accounts BY <2>1 DEF RowsAgree
  <2> QED BY <1>1, <2>1, <2>2, HasTables, ChangedAgree
<1> QED BY <1>1, <1>2, RowsNext

LEMMA UpsertAccountRows ==
    ASSUME StoresInv, RowsInv, NEW id \in Ids, NEW a, a \in ProviderAccounts, a.provider # "", NEW failed,
           Call("row", failed, FALSE),
           FileUpsertProviderAccount(id, a, Wrote(failed)),
           SqlUpsertProviderAccount(id, a, Stmt(failed))
    PROVE  RowsInv'
<1> DEFINE v == Put(db.accounts, id, NormalizeProviderAccount(a))
           wrote == Wrote(failed)
<1>1. NormalizeProviderAccount(a) \in NormalAccount BY AccountNormal
<1>2. GoodAccounts(v) BY <1>1, AccountsGood DEF RowsInv, GoodDb
<1>3. Save(Changed(db, "accounts", v), wrote) BY DEF FileUpsertProviderAccount, Changed
<1>4. failed = "none" /\ tables.accounts = db.accounts => tables' = Changed(tables, "accounts", v)
      BY DEF SqlUpsertProviderAccount, Exec, Stmt, Changed
<1> HIDE DEF v, wrote
<1> QED BY <1>2, <1>3, <1>4, AccountsRows

LEMMA DeleteAccountRows ==
    ASSUME StoresInv, RowsInv, NEW id \in DOMAIN db.accounts, NEW failed, Call("row", failed, FALSE),
           FileDeleteProviderAccount(id, Wrote(failed)), SqlDeleteProviderAccount(id, Stmt(failed))
    PROVE  RowsInv'
<1> DEFINE v == Drop(db.accounts, {id})
           wrote == Wrote(failed)
<1>2. GoodAccounts(v) BY AccountsGood DEF RowsInv, GoodDb
<1>3. Save(Changed(db, "accounts", v), wrote) BY DEF FileDeleteProviderAccount, Changed
<1>4. failed = "none" /\ tables.accounts = db.accounts => tables' = Changed(tables, "accounts", v)
      BY DEF SqlDeleteProviderAccount, Exec, Stmt, Changed
<1> HIDE DEF v, wrote
<1> QED BY <1>2, <1>3, <1>4, AccountsRows

LEMMA OutcomeRows ==
    ASSUME StoresInv, RowsInv, NEW id \in DOMAIN db.accounts, NEW success \in BOOLEAN,
           NEW until \in Cooldowns, NEW failed, Call("row", failed, FALSE),
           FileRecordOutcome(id, success, until, Wrote(failed)),
           SqlRecordOutcome(id, success, until, Stmt(failed))
    PROVE  RowsInv'
<1> DEFINE x == db.accounts
           row == AfterOutcome(x[id], success, until)
           v == [x EXCEPT ![id] = row]
           wrote == Wrote(failed)
<1>1. until \in Int BY InputsAssumption
<1>2. GoodAccounts(x) /\ x[id] \in NormalAccount BY DEF RowsInv, GoodDb, GoodAccounts
<1>3. row \in NormalAccount /\ row = SqlOutcome(x[id], success, until) BY <1>1, <1>2, OutcomeNormal
<1>4. Save(Changed(db, "accounts", v), wrote) BY DEF FileRecordOutcome, Changed
<1>5. failed = "none" /\ tables.accounts = db.accounts => tables' = Changed(tables, "accounts", v)
  <2> SUFFICES ASSUME failed = "none", tables.accounts = db.accounts
               PROVE  tables' = Changed(tables, "accounts", v)
      OBVIOUS
  <2>1. id \in DOMAIN tables.accounts OBVIOUS
  <2>2. Exec([tables EXCEPT !.accounts[id] = SqlOutcome(tables.accounts[id], success, until)], "none")
        BY <2>1 DEF SqlRecordOutcome, SqlOutcome, Stmt
  <2>3. tables' = [tables EXCEPT !.accounts[id] = SqlOutcome(tables.accounts[id], success, until)]
        BY <2>2 DEF Exec
  <2>4. SqlOutcome(tables.accounts[id], success, until) = row BY <1>3
  <2> HIDE DEF row
  <2>5. tables' = [tables EXCEPT !.accounts[id] = row] BY <2>3, <2>4
  <2> QED BY <2>5 DEF Changed
<1> HIDE DEF row, wrote
<1>6. GoodAccounts(v)
  <2>1. IsTable(x) /\ DOMAIN x \in SUBSET Ids /\ \A a \in DOMAIN x : x[a] \in NormalAccount
        BY <1>2 DEF GoodAccounts
  <2> HIDE DEF x
  <2>2. IsTable(v) /\ DOMAIN v = DOMAIN x BY DEF IsTable
  <2>3. \A a \in DOMAIN v : v[a] \in NormalAccount BY <1>3, <2>1
  <2> HIDE DEF v
  <2> QED BY <2>1, <2>2, <2>3 DEF GoodAccounts
<1> HIDE DEF v
<1> QED BY <1>4, <1>5, <1>6, AccountsRows

LEMMA ProxiesRows ==
    ASSUME StoresInv, RowsInv, NEW v, NEW failed,
           Call("row", failed, FALSE), NEW wrote, Save(Changed(db, "proxies", v), wrote),
           failed = "none" /\ tables.proxies = db.proxies => tables' = Changed(tables, "proxies", v)
    PROVE  RowsInv'
<1>1. GoodDb(db') /\ GoodDb(mainFile') /\ db' = Changed(db, "proxies", v)
      BY ChangedGood, SavedIsGood DEF RowsInv
<1>2. ASSUME ~excused' PROVE faults' = 0 /\ RowsAgree(db', tables')
  <2>1. ~excused /\ failed = "none" /\ faults' = 0 /\ RowsAgree(db, tables)
        BY <1>2 DEF Call, RowsInv
  <2>2. tables.proxies = db.proxies BY <2>1 DEF RowsAgree
  <2> QED BY <1>1, <2>1, <2>2, HasTables, ChangedAgree
<1> QED BY <1>1, <1>2, RowsNext

LEMMA ProxyRows ==
    ASSUME StoresInv, RowsInv, NEW id, NEW x, NEW failed, Call("row", failed, FALSE),
           \/ FileUpsertProxy(id, x, Wrote(failed)) /\ SqlUpsertProxy(id, x, Stmt(failed))
           \/ /\ id \in DOMAIN db.proxies
              /\ FileDeleteProxy(id, Wrote(failed)) /\ SqlDeleteProxy(id, Stmt(failed))
    PROVE  RowsInv'
<1> DEFINE put == Put(db.proxies, id, x)
           drop == Drop(db.proxies, {id})
           wrote == Wrote(failed)
<1>1. CASE FileUpsertProxy(id, x, Wrote(failed)) /\ SqlUpsertProxy(id, x, Stmt(failed))
  <2>1. Save(Changed(db, "proxies", put), wrote) BY <1>1 DEF FileUpsertProxy, Changed
  <2>2. failed = "none" /\ tables.proxies = db.proxies => tables' = Changed(tables, "proxies", put)
        BY <1>1 DEF SqlUpsertProxy, Exec, Stmt, Changed
  <2> HIDE DEF put, wrote
  <2> QED BY <2>1, <2>2, ProxiesRows
<1>2. CASE /\ id \in DOMAIN db.proxies
           /\ FileDeleteProxy(id, Wrote(failed)) /\ SqlDeleteProxy(id, Stmt(failed))
  <2>1. Save(Changed(db, "proxies", drop), wrote) BY <1>2 DEF FileDeleteProxy, Changed
  <2>2. failed = "none" /\ tables.proxies = db.proxies => tables' = Changed(tables, "proxies", drop)
        BY <1>2 DEF SqlDeleteProxy, Exec, Stmt, Changed
  <2> HIDE DEF drop, wrote
  <2> QED BY <2>1, <2>2, ProxiesRows
<1> QED BY <1>1, <1>2

LEMMA InvoicesRows ==
    ASSUME StoresInv, RowsInv, NEW v, GoodInvoices(v), NEW failed,
           Call("invoice", failed, FALSE), NEW wrote, Save(Changed(db, "invoices", v), wrote),
           NEW w, failed = "none" => tables' \in {tables, Changed(tables, "invoices", w)}
    PROVE  RowsInv'
<1>1. GoodDb(db') /\ GoodDb(mainFile') /\ db' = Changed(db, "invoices", v)
      BY ChangedGood, SavedIsGood DEF RowsInv
<1>2. ASSUME ~excused' PROVE faults' = 0 /\ RowsAgree(db', tables')
  <2>1. ~excused /\ failed = "none" /\ faults' = 0 /\ RowsAgree(db, tables)
        BY <1>2 DEF Call, RowsInv
  <2> QED BY <1>1, <2>1, HasTables, ChangedAgree
<1> QED BY <1>1, <1>2, RowsNext

LEMMA InvoiceRows ==
    ASSUME StoresInv, RowsInv, NEW id, NEW x, NEW failed, Call("invoice", failed, FALSE),
           \/ /\ x \in Invoices
              /\ FileUpsertInvoice(id, x, Wrote(failed)) /\ SqlUpsertInvoice(id, x)
           \/ /\ id \in DOMAIN db.invoices
              /\ FileDeleteInvoice(id, Wrote(failed)) /\ SqlDeleteInvoice(id, Stmt(failed))
    PROVE  RowsInv'
<1> DEFINE put == Put(db.invoices, id, NormalizeInvoice(x))
           drop == Drop(db.invoices, {id})
           gone == Drop(tables.invoices, {id})
           wrote == Wrote(failed)
<1>0. GoodInvoices(db.invoices) BY DEF RowsInv, GoodDb
<1>1. CASE x \in Invoices /\ FileUpsertInvoice(id, x, Wrote(failed)) /\ SqlUpsertInvoice(id, x)
  <2>1. Save(Changed(db, "invoices", put), wrote) BY <1>1 DEF FileUpsertInvoice, Changed
  <2>2. tables' = tables BY <1>1 DEF SqlUpsertInvoice, sqlVars
  <2>3. NormalizeInvoice(x) \in NormalInvoice BY <1>1, InvoiceNormal
  <2>4. GoodInvoices(put) BY <1>0, <2>3, InvoicesGood
  <2> HIDE DEF put, wrote
  <2> QED BY <2>1, <2>2, <2>4, InvoicesRows
<1>2. CASE /\ id \in DOMAIN db.invoices
           /\ FileDeleteInvoice(id, Wrote(failed)) /\ SqlDeleteInvoice(id, Stmt(failed))
  <2>1. Save(Changed(db, "invoices", drop), wrote) BY <1>2 DEF FileDeleteInvoice, Changed
  <2>2. failed = "none" => tables' = Changed(tables, "invoices", gone)
        BY <1>2 DEF SqlDeleteInvoice, Exec, Stmt, Changed
  <2>3. GoodInvoices(drop) BY <1>0, InvoicesGood
  <2> HIDE DEF drop, wrote, gone
  <2>4. failed = "none" => tables' \in {tables, Changed(tables, "invoices", gone)} BY <2>2
  <2> QED BY <2>1, <2>3, <2>4, InvoicesRows
<1> QED BY <1>1, <1>2

\* Logs are elsewhere.
LEMMA OtherRows ==
    ASSUME RowsInv, UNCHANGED <<db, mainFile, tables>>,
           \/ \E kind, failed : Call(kind, failed, FALSE)
           \/ UNCHANGED <<excused, faults>>
    PROVE  RowsInv'
<1>1. CASE UNCHANGED <<excused, faults>> BY <1>1 DEF RowsInv
<1>2. CASE \E kind, failed : Call(kind, failed, FALSE)
  <2>1. PICK kind, failed : Call(kind, failed, FALSE) BY <1>2
  <2>2. ~excused' => ~excused /\ faults' = faults BY <2>1 DEF Call
  <2> QED BY <2>2 DEF RowsInv
<1> QED BY <1>1, <1>2

LEMMA LogsLeaveRows ==
    ASSUME NEW a, NEW b, NEW c, NEW d,
           \/ FileAddRequestLog(a, b, c) \/ FileDeleteDebugPayloads(d, c)
    PROVE  UNCHANGED <<db, mainFile>>
BY DEF FileAddRequestLog, FileDeleteDebugPayloads, SaveLogs, fileVars

LEMMA SqlLogsLeaveRows ==
    ASSUME NEW a, NEW b,
           \/ SqlAddRequestLog(a, b) \/ SqlRecentLogs(b) \/ SqlDeleteDebugPayloads(b)
    PROVE  UNCHANGED tables
BY DEF SqlAddRequestLog, SqlRecentLogs, SqlDeleteDebugPayloads

\* The rows of a first start, as the file store and SQLite write them.
FirstRows(providers) ==
    [settings |-> DefaultSettings, providers |-> providers,
     accounts |-> Empty, proxies |-> Empty, invoices |-> Empty]

LEMMA FirstGood ==
    ASSUME NEW providers, GoodProviders(providers) PROVE GoodDb(FirstRows(providers))
<1> DEFINE d == FirstRows(providers)
<1>1. /\ d.settings = DefaultSettings /\ d.providers = providers /\ d.accounts = Empty
      /\ d.invoices = Empty /\ Tables \subseteq DOMAIN d
      BY DEF FirstRows, Tables
<1> HIDE DEF d
<1>2. DOMAIN Empty = {} /\ IsTable(Empty) BY NoRows
<1>3. GoodAccounts(Empty) /\ GoodInvoices(Empty) BY <1>2 DEF GoodAccounts, GoodInvoices
<1>4. GoodDb(d) BY <1>1, <1>3, DefaultNormal DEF GoodDb
<1> QED BY <1>4 DEF d

Renewed(x) == [p \in DOMAIN x |-> NormalizeProvider(x[p])]

LEMMA RenewedIs ==
    ASSUME NEW x
    PROVE  DOMAIN Renewed(x) = DOMAIN x /\ \A p \in DOMAIN x : Renewed(x)[p] = NormalizeProvider(x[p])
BY DEF Renewed

LEMMA RenewedGood ==
    ASSUME NEW x, GoodProviders(x) PROVE GoodProviders(Renewed(x))
<1> DEFINE y == Renewed(x)
<1>1. DOMAIN y = DOMAIN x /\ \A p \in DOMAIN x : y[p] = NormalizeProvider(x[p]) BY RenewedIs
<1> HIDE DEF y
<1>2. \A p \in DOMAIN y : RowOk(y[p]) BY <1>1, NormalizedOk DEF GoodProviders
<1>3. GoodProviders(y) BY <1>1, <1>2 DEF GoodProviders
<1> QED BY <1>3 DEF y

LEMMA RenewedTwice ==
    ASSUME NEW x, GoodProviders(x), \A p \in DOMAIN x : KeysNamed(x[p])
    PROVE  LET y == Renewed(x)
           IN  \A p \in DOMAIN y : KeysNamed(y[p]) /\ NormalizeProvider(y[p]) = y[p]
<1> DEFINE y == Renewed(x)
<1>1. DOMAIN y = DOMAIN x /\ \A p \in DOMAIN x : y[p] = NormalizeProvider(x[p]) BY RenewedIs
<1> HIDE DEF y
<1>2. \A p \in DOMAIN y : KeysNamed(y[p]) /\ NormalizeProvider(y[p]) = y[p]
      BY <1>1, NamedStays DEF GoodProviders
<1> QED BY <1>2 DEF y

LEMMA DefaultRead ==
    /\ 1 \in DOMAIN DefaultRow /\ DefaultRow[1] = DefaultSettings
    /\ NormalizeSettings(DefaultSettings) = DefaultSettings
<1>1. NormalizeSettings(DefaultSettings) = DefaultSettings BY DefaultNormal, SettingsNormal
<1> QED BY <1>1 DEF DefaultRow

LEMMA InitRows == Init => RowsInv
<1> SUFFICES ASSUME Init PROVE RowsInv OBVIOUS
<1> DEFINE x == Renewed(SeedProviders)
<1>1. db = FirstRows(x) /\ mainFile = db /\ faults = 0
      BY DEF Init, FileInit, FirstRows, Renewed
<1>2. /\ tables.settings = DefaultRow /\ tables.providers = x
      /\ tables.accounts = Empty /\ tables.proxies = Empty
      BY DEF Init, SqlInit, Seeds, Renewed
<1>3. GoodProviders(x) /\ \A p \in DOMAIN x : KeysNamed(x[p]) /\ NormalizeProvider(x[p]) = x[p]
      BY SeedsGood, RenewedGood, RenewedTwice
<1> HIDE DEF x
<1>4. GoodDb(db) /\ GoodDb(mainFile) BY <1>1, <1>3, FirstGood
<1>5. /\ db.settings = DefaultSettings /\ db.providers = x /\ db.accounts = Empty /\ db.proxies = Empty
      BY <1>1 DEF FirstRows
<1>6. RowsAgree(db, tables) BY <1>2, <1>3, <1>5, DefaultRead DEF RowsAgree
<1> QED BY <1>1, <1>4, <1>6 DEF RowsInv

LEMMA ResetRows ==
    ASSUME StoresInv, RowsInv, NEW failed, NEW seeded,
           Call("reset", failed, DOMAIN tables.accounts # {}), FileReset(failed),
           SqlReset(IF failed \in {"debug", "main", "logs"} THEN "none" ELSE failed, seeded)
    PROVE  RowsInv'
<1> DEFINE new == FirstRows(SeedProviders)
<1>1. GoodDb(new) BY SeedsGood, FirstGood
<1>2. GoodDb(db') /\ GoodDb(mainFile') /\ (failed = "none" => db' = new)
  <2>1. CASE failed = "debug" BY <2>1 DEF FileReset, fileVars, RowsInv
  <2>2. CASE failed # "debug"
    <3>1. db' = new /\ mainFile' = (IF failed = "main" THEN mainFile ELSE db')
          BY <2>2 DEF FileReset, FirstRows
    <3> HIDE DEF new
    <3> QED BY <1>1, <3>1 DEF RowsInv
  <2> QED BY <2>1, <2>2
<1> HIDE DEF new
<1>3. ASSUME ~excused' PROVE faults' = 0 /\ RowsAgree(db', tables')
  <2>1. ~excused /\ failed = "none" /\ DOMAIN tables.accounts = {} /\ faults' = 0 /\ RowsAgree(db, tables)
        BY <1>3 DEF Call, RowsInv
  <2>2. SqlReset("none", seeded) BY <2>1
  <2>3. /\ tables'.settings = DefaultRow /\ tables'.providers = Renewed(SeedProviders)
        /\ tables'.accounts = tables.accounts /\ tables'.proxies = Empty
    <3>1. tables' = [tables EXCEPT !.settings = DefaultRow, !.providers = Seeds(DOMAIN SeedProviders),
                                   !.proxies = Empty, !.invoices = Empty]
          BY <2>2 DEF SqlReset
    <3>2. /\ "settings" \in DOMAIN tables /\ "providers" \in DOMAIN tables /\ "accounts" \in DOMAIN tables
          /\ "proxies" \in DOMAIN tables /\ "invoices" \in DOMAIN tables
          BY HasTables DEF Tables
    <3>3. Seeds(DOMAIN SeedProviders) = Renewed(SeedProviders) BY DEF Seeds, Renewed
    <3> QED BY <3>1, <3>2, <3>3
  <2>4. tables.accounts = Empty
    <3>1. IsTable(db.accounts) /\ tables.accounts = db.accounts
          BY <2>1 DEF RowsInv, GoodDb, GoodAccounts, RowsAgree
    <3> QED BY <2>1, <3>1, NoRows
  <2>5. /\ db'.settings = DefaultSettings /\ db'.providers = SeedProviders
        /\ db'.accounts = Empty /\ db'.proxies = Empty
        BY <1>2, <2>1 DEF new, FirstRows
  <2>6. RowsAgree(db', tables')
        BY <2>3, <2>4, <2>5, DefaultRead, SeedsGood, RenewedIs DEF RowsAgree
  <2> QED BY <2>1, <2>6
<1> QED BY <1>2, <1>3, RowsNext

(***************************************************************************)
(* A restart: what is read back.                                           *)
(***************************************************************************)
LEMMA AccountsStay ==
    ASSUME NEW x, GoodAccounts(x)
    PROVE  [a \in {b \in DOMAIN x : x[b].provider # ""} |-> NormalizeProviderAccount(x[a])] = x
<1>1. IsTable(x) /\ \A a \in DOMAIN x : x[a] \in NormalAccount BY DEF GoodAccounts
<1>2. \A a \in DOMAIN x : NormalizeProviderAccount(x[a]) = x[a] BY <1>1, AccountNormal
<1>3. \A a \in DOMAIN x : x[a].provider # "" BY <1>1 DEF NormalAccount
<1>4. {b \in DOMAIN x : x[b].provider # ""} = DOMAIN x BY <1>3
<1>5. [a \in DOMAIN x |-> NormalizeProviderAccount(x[a])] = [a \in DOMAIN x |-> x[a]] BY <1>2
<1>6. x = [a \in DOMAIN x |-> x[a]] BY <1>1 DEF IsTable
<1> QED BY <1>4, <1>5, <1>6

LEMMA InvoicesStay ==
    ASSUME NEW x, GoodInvoices(x) PROVE [v \in DOMAIN x |-> NormalizeInvoice(x[v])] = x
<1>1. IsTable(x) /\ \A a \in DOMAIN x : x[a] \in NormalInvoice BY DEF GoodInvoices
<1>2. \A a \in DOMAIN x : NormalizeInvoice(x[a]) = x[a] BY <1>1, InvoiceNormal
<1>5. [a \in DOMAIN x |-> NormalizeInvoice(x[a])] = [a \in DOMAIN x |-> x[a]] BY <1>2
<1>6. x = [a \in DOMAIN x |-> x[a]] BY <1>1 DEF IsTable
<1> QED BY <1>5, <1>6

Loaded(x) == Renewed(IF DOMAIN x = {} THEN SeedProviders ELSE x)

LEMMA LoadIs ==
    ASSUME GoodDb(mainFile), FileLoad
    PROVE  /\ Tables \subseteq DOMAIN db' /\ mainFile' = db'
           /\ db'.settings = mainFile.settings /\ db'.providers = Loaded(mainFile.providers)
           /\ db'.accounts = mainFile.accounts /\ db'.proxies = mainFile.proxies
           /\ db'.invoices = mainFile.invoices
<1> DEFINE m == mainFile
           s == NormalizeSettings(m.settings)
           p == Loaded(m.providers)
           a == [x \in {b \in DOMAIN m.accounts : m.accounts[b].provider # ""} |->
                   NormalizeProviderAccount(m.accounts[x])]
           v == [x \in DOMAIN m.invoices |-> NormalizeInvoice(m.invoices[x])]
<1>1. db' = [m EXCEPT !.settings = s, !.providers = p, !.accounts = a, !.invoices = v]
      BY DEF FileLoad, Loaded, Renewed
<1>2. s = m.settings BY SettingsNormal DEF GoodDb
<1>3. a = m.accounts
  <2> DEFINE x == m.accounts
  <2>1. GoodAccounts(x) BY DEF GoodDb
  <2> HIDE DEF x
  <2>2. [y \in {b \in DOMAIN x : x[b].provider # ""} |-> NormalizeProviderAccount(x[y])] = x
        BY <2>1, AccountsStay
  <2> QED BY <2>2 DEF x
<1>4. v = m.invoices
  <2> DEFINE x == m.invoices
  <2>1. GoodInvoices(x) BY DEF GoodDb
  <2> HIDE DEF x
  <2>2. [y \in DOMAIN x |-> NormalizeInvoice(x[y])] = x BY <2>1, InvoicesStay
  <2> QED BY <2>2 DEF x
<1> HIDE DEF s, p, a, v
<1>5. Tables \subseteq DOMAIN m BY DEF GoodDb
<1>6. /\ Tables \subseteq DOMAIN db'
      /\ db'.settings = s /\ db'.providers = p /\ db'.accounts = a /\ db'.invoices = v
      /\ db'.proxies = m.proxies
      BY <1>1, <1>5 DEF Tables
<1>7. mainFile' = db' BY DEF FileLoad
<1> QED BY <1>2, <1>3, <1>4, <1>6, <1>7 DEF p

LEMMA OpenIs ==
    ASSUME StoresInv, SqlOpen
    PROVE  /\ tables'.accounts = tables.accounts /\ tables'.proxies = tables.proxies
           /\ tables'.invoices = tables.invoices
           /\ tables'.settings = IF 1 \in DOMAIN tables.settings THEN tables.settings ELSE DefaultRow
           /\ tables'.providers = IF DOMAIN tables.providers = {} THEN Renewed(SeedProviders)
                                  ELSE tables.providers
           /\ sqlLogs' = sqlLogs /\ payloads' = payloads
<1> DEFINE s == IF 1 \in DOMAIN tables.settings THEN tables.settings ELSE DefaultRow
           p == IF DOMAIN tables.providers = {} THEN Renewed(SeedProviders) ELSE tables.providers
<1>1. tables' = [tables EXCEPT !.settings = s, !.providers = p]
      BY DEF SqlOpen, Seeds, Renewed
<1>2. /\ "settings" \in DOMAIN tables /\ "providers" \in DOMAIN tables /\ "accounts" \in DOMAIN tables
      /\ "proxies" \in DOMAIN tables /\ "invoices" \in DOMAIN tables
      BY DEF StoresInv, Shaped, Tables
<1> HIDE DEF s, p
<1>3. /\ tables'.accounts = tables.accounts /\ tables'.proxies = tables.proxies
      /\ tables'.invoices = tables.invoices /\ tables'.settings = s /\ tables'.providers = p
      BY <1>1, <1>2
<1>4. sqlLogs' = sqlLogs /\ payloads' = payloads BY DEF SqlOpen
<1> QED BY <1>3, <1>4 DEF s, p

LEMMA LoadedGood == ASSUME NEW x, GoodProviders(x) PROVE GoodProviders(Loaded(x))
BY RenewedGood, SeedsGood DEF Loaded

LEMMA RestartRows ==
    ASSUME StoresInv, LogsInv, RowsInv, NEW kind, NEW failed, Call(kind, failed, FALSE), FileLoad, SqlOpen
    PROVE  RowsInv'
<1>1. GoodDb(mainFile) BY DEF RowsInv
<1>2. /\ Tables \subseteq DOMAIN db' /\ mainFile' = db'
      /\ db'.settings = mainFile.settings /\ db'.providers = Loaded(mainFile.providers)
      /\ db'.accounts = mainFile.accounts /\ db'.proxies = mainFile.proxies
      /\ db'.invoices = mainFile.invoices
      BY <1>1, LoadIs
<1>3. GoodDb(db') /\ GoodDb(mainFile') BY <1>1, <1>2, LoadedGood DEF GoodDb
<1>4. ASSUME ~excused' PROVE faults' = 0 /\ RowsAgree(db', tables')
  <2>1. ~excused /\ faults = 0 /\ faults' = 0 /\ RowsAgree(db, tables) BY <1>4 DEF Call, RowsInv
  <2>2. mainFile = db BY <2>1 DEF LogsInv, FilePayloads, StoresInv
  <2>3. /\ tables'.accounts = tables.accounts /\ tables'.proxies = tables.proxies
        /\ tables'.settings = IF 1 \in DOMAIN tables.settings THEN tables.settings ELSE DefaultRow
        /\ tables'.providers = IF DOMAIN tables.providers = {} THEN Renewed(SeedProviders)
                               ELSE tables.providers
        BY OpenIs
  <2> DEFINE x == IF DOMAIN db.providers = {} THEN SeedProviders ELSE db.providers
             y == Renewed(x)
             z == tables'.providers
  <2>4. GoodProviders(x) /\ \A p \in DOMAIN x : KeysNamed(x[p])
        BY <2>1, SeedsGood DEF RowsInv, GoodDb, RowsAgree
  <2>5. z = IF DOMAIN db.providers = {} THEN Renewed(SeedProviders) ELSE tables.providers
        BY <2>1, <2>3 DEF RowsAgree
  <2>6. DOMAIN z = DOMAIN x /\ \A p \in DOMAIN x : z[p] = NormalizeProvider(x[p])
    <3>1. CASE DOMAIN db.providers = {}
      <4>1. z = Renewed(SeedProviders) /\ x = SeedProviders BY <2>5, <3>1
      <4> HIDE DEF z, x
      <4> QED BY <4>1, RenewedIs
    <3>2. CASE DOMAIN db.providers # {}
      <4>1. z = tables.providers /\ x = db.providers BY <2>5, <3>2
      <4> HIDE DEF z, x
      <4> QED BY <2>1, <4>1 DEF RowsAgree
    <3> QED BY <3>1, <3>2
  <2>7. db'.providers = y BY <1>2, <2>2 DEF Loaded
  <2> HIDE DEF z, x
  <2>8. /\ DOMAIN y = DOMAIN x /\ \A p \in DOMAIN x : y[p] = NormalizeProvider(x[p])
        /\ \A p \in DOMAIN y : KeysNamed(y[p]) /\ NormalizeProvider(y[p]) = y[p]
        BY <2>4, RenewedIs, RenewedTwice
  <2> HIDE DEF y
  <2>9. DOMAIN z = DOMAIN y /\ \A p \in DOMAIN y : KeysNamed(y[p]) /\ z[p] = NormalizeProvider(y[p])
        BY <2>6, <2>8
  <2>10. RowsAgree(db', tables')
        BY <1>2, <2>1, <2>2, <2>3, <2>7, <2>9 DEF RowsAgree, z
  <2> QED BY <2>1, <2>10
<1> QED BY <1>3, <1>4, RowsNext

LEMMA NextRows == ASSUME StoresInv, LogsInv, RowsInv, [Next]_vars PROVE RowsInv'
<1>1. CASE SaveSettings BY <1>1, SettingsRows DEF SaveSettings
<1>2. CASE RecordAPIKeyUsage BY <1>2, UsageRows DEF RecordAPIKeyUsage
<1>3. CASE UpsertProvider
  <2> PICK in \in ProviderInputs, failed \in Write :
        /\ Call("row", failed, ~KeysNamed(in[2]))
        /\ FileUpsertProvider(in[1], in[2], Wrote(failed))
        /\ SqlUpsertProvider(in[1], in[2], Stmt(failed))
        BY <1>3 DEF UpsertProvider
  <2>1. in[1] \in Ids /\ in[2] \in Providers(STRING) BY InputsAssumption
  <2> QED BY <2>1, UpsertProviderRows
<1>4. CASE DeleteProvider BY <1>4, DeleteProviderRows DEF DeleteProvider
<1>5. CASE UpsertProviderAccount
  <2> PICK in \in AccountInputs, failed \in Write :
        /\ Call("row", failed, FALSE)
        /\ FileUpsertProviderAccount(in[1], in[2], Wrote(failed))
        /\ SqlUpsertProviderAccount(in[1], in[2], Stmt(failed))
        BY <1>5 DEF UpsertProviderAccount
  <2>1. in[1] \in Ids /\ in[2] \in ProviderAccounts /\ in[2].provider # "" BY InputsAssumption
  <2> QED BY <2>1, UpsertAccountRows
<1>6. CASE DeleteProviderAccount BY <1>6, DeleteAccountRows DEF DeleteProviderAccount
<1>7. CASE RecordProviderAccountOutcome BY <1>7, OutcomeRows DEF RecordProviderAccountOutcome
<1>8. CASE UpsertProxy BY <1>8, ProxyRows DEF UpsertProxy
<1>9. CASE DeleteProxy BY <1>9, ProxyRows DEF DeleteProxy
<1>10. CASE UpsertInvoice BY <1>10, InvoiceRows, InputsAssumption DEF UpsertInvoice
<1>11. CASE DeleteInvoice BY <1>11, InvoiceRows DEF DeleteInvoice
<1>12. CASE AddRequestLog
  <2>1. UNCHANGED <<db, mainFile>> /\ UNCHANGED tables /\ \E kind, failed : Call(kind, failed, FALSE)
        BY <1>12, LogsLeaveRows, SqlLogsLeaveRows DEF AddRequestLog
  <2> QED BY <2>1, OtherRows
<1>13. CASE RecentRequestLogs
  <2>1. UNCHANGED <<db, mainFile>> /\ UNCHANGED tables /\ \E kind, failed : Call(kind, failed, FALSE)
        BY <1>13, SqlLogsLeaveRows DEF RecentRequestLogs, fileVars
  <2> QED BY <2>1, OtherRows
<1>14. CASE DeleteRequestDebugPayloads
  <2>1. UNCHANGED <<db, mainFile>> /\ UNCHANGED tables /\ \E kind, failed : Call(kind, failed, FALSE)
        BY <1>14, LogsLeaveRows, SqlLogsLeaveRows DEF DeleteRequestDebugPayloads
  <2> QED BY <2>1, OtherRows
<1>15. CASE ResetAllData BY <1>15, ResetRows DEF ResetAllData
<1>16. CASE Restart BY <1>16, RestartRows DEF Restart
<1>17. CASE UNCHANGED vars BY <1>17, OtherRows DEF vars, fileVars, sqlVars
<1> QED BY <1>1, <1>2, <1>3, <1>4, <1>5, <1>6, <1>7, <1>8, <1>9, <1>10, <1>11, <1>12, <1>13,
           <1>14, <1>15, <1>16, <1>17 DEF Next

(***************************************************************************)
(* Debug payloads: while no call failed, both stores say of a log they     *)
(* have what the log says of itself.                                       *)
(***************************************************************************)
FileLogs == {logs[i] : i \in 1..Len(logs)}

LogsMatch ==
    /\ \A k \in FileLogs, l \in sqlLogs : k.time = l.time => k.raw = l.raw
    /\ \A k \in FileLogs : k.time \in debugFiles => k.raw
    /\ \A l \in sqlLogs : l.time \in payloads => l.raw
    /\ \A t \in debugFiles : t \in Nat /\ t <= clock

MatchInv == ~excused => LogsMatch

LEMMA LogsKnown ==
    ASSUME LogsInv
    PROVE  /\ clock \in Nat
           /\ \A k \in FileLogs : k \in Log /\ k.time <= clock
           /\ \A l \in sqlLogs : l \in Log /\ l.time <= clock
           /\ \A k, l \in FileLogs : k.time = l.time => k = l
           /\ \A k, l \in sqlLogs : k.time = l.time => k = l
<1>1. clock \in Nat /\ Ordered(logs, clock) /\ Distinct(sqlLogs, clock)
      BY DEF LogsInv, FileLogsInv, SqlLogsInv
<1>2. Len(logs) \in Nat /\ \A i \in 1..Len(logs) : logs[i] \in Log
      BY <1>1, LenProperties, ElementOfSeq DEF Ordered
<1>3. \A k \in FileLogs : k \in Log /\ k.time <= clock BY <1>1, <1>2 DEF FileLogs, Ordered
<1>4. ASSUME NEW k \in FileLogs, NEW l \in FileLogs, k.time = l.time PROVE k = l
  <2>1. PICK i \in 1..Len(logs) : k = logs[i] BY DEF FileLogs
  <2>2. PICK j \in 1..Len(logs) : l = logs[j] BY DEF FileLogs
  <2>3. i \in Int /\ j \in Int /\ k.time \in Nat BY <1>2, <1>3 DEF Log
  <2>4. ~(i < j) /\ ~(j < i) BY <1>1, <1>4, <2>1, <2>2, <2>3 DEF Ordered
  <2> QED BY <2>1, <2>2, <2>3, <2>4
<1>5. \A l \in sqlLogs : l \in Log /\ l.time <= clock BY <1>1 DEF Distinct
<1>6. \A k, l \in sqlLogs : k.time = l.time => k = l BY <1>1 DEF Distinct
<1> QED BY <1>1, <1>3, <1>4, <1>5, <1>6

LEMMA FewerLogs ==
    ASSUME LogsMatch, FileLogs' \subseteq FileLogs, sqlLogs' \subseteq sqlLogs,
           debugFiles' \subseteq debugFiles, payloads' \subseteq payloads, UNCHANGED clock
    PROVE  LogsMatch'
BY DEF LogsMatch

LEMMA NoDebugPayloads ==
    ASSUME debugFiles' = {}, payloads' = {},
           \A k \in FileLogs' : k.raw = FALSE, \A l \in sqlLogs' : l.raw = FALSE
    PROVE  LogsMatch'
BY DEF LogsMatch

LEMMA OneLogMore ==
    ASSUME LogsInv, LogsMatch, NEW raw \in BOOLEAN, NEW log, log.time = clock + 1, log.raw = raw,
           FileLogs' \subseteq FileLogs \cup {log}, sqlLogs' \subseteq sqlLogs \cup {log},
           debugFiles' = IF raw THEN debugFiles \cup {clock + 1} ELSE debugFiles,
           payloads' \subseteq IF raw THEN payloads \cup {clock + 1} ELSE payloads,
           payloads \subseteq Times(sqlLogs), clock' = clock + 1
    PROVE  LogsMatch'
<1>1. /\ clock \in Nat
      /\ \A k \in FileLogs : k.time \in Nat /\ k.time <= clock
      /\ \A l \in sqlLogs : l.time \in Nat /\ l.time <= clock
      BY LogsKnown DEF Log
<1>2. \A t \in debugFiles : t \in Nat /\ t <= clock BY DEF LogsMatch
<1>3. \A t \in payloads : t \in Nat /\ t <= clock BY <1>1 DEF Times
<1>4. ~(clock + 1 \in debugFiles) /\ ~(clock + 1 \in payloads) BY <1>1, <1>2, <1>3
<1>5. \A k \in FileLogs : k.time # clock + 1 BY <1>1
<1>6. \A l \in sqlLogs : l.time # clock + 1 BY <1>1
<1>7. ASSUME NEW k \in FileLogs', NEW l \in sqlLogs', k.time = l.time PROVE k.raw = l.raw
      BY <1>5, <1>6, <1>7 DEF LogsMatch
<1>8. ASSUME NEW k \in FileLogs', k.time \in debugFiles' PROVE k.raw
  <2>1. CASE k = log BY <1>4, <1>8, <2>1
  <2>2. CASE k \in FileLogs BY <1>5, <1>8, <2>2 DEF LogsMatch
  <2> QED BY <2>1, <2>2
<1>9. ASSUME NEW l \in sqlLogs', l.time \in payloads' PROVE l.raw
  <2>1. CASE l = log BY <1>4, <1>9, <2>1
  <2>2. CASE l \in sqlLogs BY <1>6, <1>9, <2>2 DEF LogsMatch
  <2> QED BY <2>1, <2>2
<1>10. \A t \in debugFiles' : t \in Nat /\ t <= clock' BY <1>1, <1>2
<1> QED BY <1>7, <1>8, <1>9, <1>10 DEF LogsMatch

LEMMA FileAddsOne ==
    ASSUME LogsInv, NEW raw \in BOOLEAN, NEW log \in Log, log.time = clock + 1, log.raw = raw,
           NEW wrote, FileAddRequestLog(log, TRUE, wrote)
    PROVE  /\ FileLogs' \subseteq FileLogs \cup {log}
           /\ debugFiles' = IF raw THEN debugFiles \cup {clock + 1} ELSE debugFiles
<1> DEFINE all == <<log>> \o logs
           keep == KeepLogs(db.settings.keep)
           new == IF Len(all) > keep THEN SubSeq(all, 1, keep) ELSE all
<1>1. SaveLogs(new, wrote) BY DEF FileAddRequestLog
<1>2. debugFiles' = IF raw THEN debugFiles \cup {clock + 1} ELSE debugFiles BY DEF FileAddRequestLog
<1>3. clock \in Nat /\ Ordered(logs, clock) BY DEF LogsInv, FileLogsInv
<1>4. keep \in Nat /\ keep >= 1
  <2>1. HasKeep(db.settings) BY DEF LogsInv, FileLogsInv, FileKeeps
  <2> QED BY <2>1, KeepBound DEF HasKeep
<1>5. Len(logs) \in Nat BY <1>3, LenProperties DEF Ordered
<1>6. /\ Ordered(all, clock + 1) /\ Len(all) = Len(logs) + 1 /\ all[1] = log
      /\ \A i \in 1..Len(logs) : all[i + 1] = logs[i]
      BY <1>3, OrderedCons
<1> HIDE DEF all, keep
<1>7. \A i \in 1..Len(all) : all[i] \in FileLogs \cup {log}
  <2> SUFFICES ASSUME NEW i \in 1..Len(all), i # 1 PROVE all[i] \in FileLogs BY <1>6
  <2>1. i - 1 \in 1..Len(logs) /\ all[i] = logs[i - 1] BY <1>5, <1>6
  <2> QED BY <2>1 DEF FileLogs
<1>8. Len(new) \in Nat /\ Len(new) <= Len(all) /\ \A i \in 1..Len(new) : new[i] = all[i]
  <2>1. CASE Len(all) > keep
    <3>1. Len(SubSeq(all, 1, keep)) = keep /\ \A i \in 1..keep : SubSeq(all, 1, keep)[i] = all[i]
          BY <1>4, <1>6, <2>1, OrderedPrefix
    <3> QED BY <1>4, <1>5, <1>6, <2>1, <3>1
  <2>2. CASE ~(Len(all) > keep) BY <1>5, <1>6, <2>2
  <2> QED BY <2>1, <2>2
<1> HIDE DEF new
<1>9. logs' = new BY <1>1 DEF SaveLogs
<1>10. \A i \in 1..Len(new) : new[i] \in FileLogs \cup {log} BY <1>5, <1>6, <1>7, <1>8
<1>11. FileLogs' = {new[i] : i \in 1..Len(new)} BY <1>9 DEF FileLogs
<1> QED BY <1>2, <1>10, <1>11

LEMMA SqlAddsOne ==
    ASSUME NEW log, SqlAddRequestLog(log, "none")
    PROVE  /\ sqlLogs' \subseteq sqlLogs \cup {log}
           /\ payloads' \subseteq IF log.raw THEN payloads \cup {log.time} ELSE payloads
BY DEF SqlAddRequestLog, Retain, Newest

LEMMA AddMatches ==
    ASSUME LogsInv, LogsMatch, payloads \subseteq Times(sqlLogs),
           NEW raw \in BOOLEAN, clock' = clock + 1, NEW wrote,
           FileAddRequestLog([time |-> clock + 1, raw |-> raw], TRUE, wrote),
           SqlAddRequestLog([time |-> clock + 1, raw |-> raw], "none")
    PROVE  LogsMatch'
<1> DEFINE log == [time |-> clock + 1, raw |-> raw]
<1>1. log.time = clock + 1 /\ log.raw = raw /\ log \in Log BY DEF LogsInv, Log
<1>2. FileAddRequestLog(log, TRUE, wrote) /\ SqlAddRequestLog(log, "none") OBVIOUS
<1> HIDE DEF log
<1>3. /\ FileLogs' \subseteq FileLogs \cup {log}
      /\ debugFiles' = IF raw THEN debugFiles \cup {clock + 1} ELSE debugFiles
      BY <1>1, <1>2, FileAddsOne
<1>4. /\ sqlLogs' \subseteq sqlLogs \cup {log}
      /\ payloads' \subseteq IF raw THEN payloads \cup {clock + 1} ELSE payloads
      BY <1>1, <1>2, SqlAddsOne
<1> QED BY <1>1, <1>3, <1>4, OneLogMore

LEMMA DeleteMatches ==
    ASSUME LogsInv, NEW removed \in SUBSET debugFiles, removed = debugFiles, NEW wrote,
           FileDeleteDebugPayloads(removed, wrote), SqlDeleteDebugPayloads("none")
    PROVE  LogsMatch'
<1> DEFINE new == [i \in 1..Len(logs) |-> [logs[i] EXCEPT !.raw = FALSE]]
           bare(l) == [l EXCEPT !.raw = FALSE]
<1>1. /\ \A k \in FileLogs : k \in Log /\ k.time <= clock
      /\ \A l \in sqlLogs : l \in Log /\ l.time <= clock
      BY LogsKnown
<1>2. \A l \in Log : bare(l).raw = FALSE BY DEF Log
<1>3. debugFiles' = {} BY DEF FileDeleteDebugPayloads
<1>4. payloads' = {} /\ sqlLogs' = {bare(l) : l \in sqlLogs} BY DEF SqlDeleteDebugPayloads
<1>5. \A i \in 1..Len(logs) : logs[i] \in Log BY <1>1 DEF FileLogs
<1>6. \A k \in FileLogs' : k.raw = FALSE
  <2>1. CASE \E i \in 1..Len(logs) : logs[i].raw
    <3>1. logs' = new BY <2>1 DEF FileDeleteDebugPayloads, SaveLogs
    <3>2. Len(new) = Len(logs) /\ \A i \in 1..Len(logs) : new[i] = bare(logs[i])
      <4>1. Len(logs) \in Nat BY LenProperties DEF LogsInv, FileLogsInv, Ordered
      <4> QED BY <4>1
    <3> HIDE DEF new, bare
    <3>3. FileLogs' = {new[i] : i \in 1..Len(logs)} BY <3>1, <3>2 DEF FileLogs
    <3> QED BY <1>2, <1>5, <3>2, <3>3
  <2>2. CASE ~\E i \in 1..Len(logs) : logs[i].raw
    <3>1. logs' = logs BY <2>2 DEF FileDeleteDebugPayloads
    <3>2. FileLogs' = FileLogs BY <3>1 DEF FileLogs
    <3> QED BY <1>1, <2>2, <3>2 DEF FileLogs, Log
  <2> QED BY <2>1, <2>2
<1> HIDE DEF bare
<1>7. \A l \in sqlLogs' : l.raw = FALSE BY <1>1, <1>2, <1>4
<1> QED BY <1>3, <1>4, <1>6, <1>7, NoDebugPayloads

DebugVars == <<logs, debugFiles, sqlLogs, payloads, clock>>

LEMMA SaveKeepsDebug ==
    /\ \A new, wrote : Save(new, wrote) => UNCHANGED <<logs, debugFiles>>
    /\ UNCHANGED fileVars => UNCHANGED <<logs, debugFiles>>
    /\ \A new, failed : Exec(new, failed) => UNCHANGED <<sqlLogs, payloads>>
    /\ UNCHANGED sqlVars => UNCHANGED <<sqlLogs, payloads>>
BY DEF Save, Exec, fileVars, sqlVars

LEMMA RowsKeepDebug ==
    \/ SaveSettings \/ RecordAPIKeyUsage \/ UpsertProvider \/ DeleteProvider
    \/ UpsertProviderAccount \/ DeleteProviderAccount \/ RecordProviderAccountOutcome
    \/ UpsertProxy \/ DeleteProxy \/ UpsertInvoice \/ DeleteInvoice
    => UNCHANGED DebugVars
<1>1. SaveSettings => UNCHANGED DebugVars
      BY SaveKeepsDebug DEF SaveSettings, FileSaveSettings, SqlSaveSettings, DebugVars
<1>2. RecordAPIKeyUsage => UNCHANGED DebugVars
      BY SaveKeepsDebug DEF RecordAPIKeyUsage, FileRecordAPIKeyUsage, SqlRecordAPIKeyUsage, DebugVars
<1>3. UpsertProvider => UNCHANGED DebugVars
      BY SaveKeepsDebug DEF UpsertProvider, FileUpsertProvider, SqlUpsertProvider, DebugVars
<1>4. DeleteProvider => UNCHANGED DebugVars
      BY SaveKeepsDebug DEF DeleteProvider, FileDeleteProvider, SqlDeleteProvider, DebugVars
<1>5. UpsertProviderAccount => UNCHANGED DebugVars
      BY SaveKeepsDebug
      DEF UpsertProviderAccount, FileUpsertProviderAccount, SqlUpsertProviderAccount, DebugVars
<1>6. DeleteProviderAccount => UNCHANGED DebugVars
      BY SaveKeepsDebug
      DEF DeleteProviderAccount, FileDeleteProviderAccount, SqlDeleteProviderAccount, DebugVars
<1>7. RecordProviderAccountOutcome => UNCHANGED DebugVars
      BY SaveKeepsDebug
      DEF RecordProviderAccountOutcome, FileRecordOutcome, SqlRecordOutcome, DebugVars
<1>8. UpsertProxy => UNCHANGED DebugVars
      BY SaveKeepsDebug DEF UpsertProxy, FileUpsertProxy, SqlUpsertProxy, DebugVars
<1>9. DeleteProxy => UNCHANGED DebugVars
      BY SaveKeepsDebug DEF DeleteProxy, FileDeleteProxy, SqlDeleteProxy, DebugVars
<1>10. UpsertInvoice => UNCHANGED DebugVars
      BY SaveKeepsDebug DEF UpsertInvoice, FileUpsertInvoice, SqlUpsertInvoice, DebugVars
<1>11. DeleteInvoice => UNCHANGED DebugVars
      BY SaveKeepsDebug DEF DeleteInvoice, FileDeleteInvoice, SqlDeleteInvoice, DebugVars
<1> QED BY <1>1, <1>2, <1>3, <1>4, <1>5, <1>6, <1>7, <1>8, <1>9, <1>10, <1>11

LEMMA SameMatch == ASSUME UNCHANGED DebugVars, LogsMatch PROVE LogsMatch'
BY DEF DebugVars, LogsMatch, FileLogs

\* A step after which nothing is excused is of a call that succeeded.
LEMMA NextExcuses ==
    [Next]_vars /\ ~excused' => ~excused
<1> SUFFICES ASSUME [Next]_vars, ~excused' PROVE ~excused OBVIOUS
<1>1. ASSUME NEW kind, NEW failed, NEW differs, Call(kind, failed, differs) PROVE ~excused
      BY <1>1 DEF Call
<1>2. CASE UNCHANGED vars BY <1>2 DEF vars
<1>3. CASE Next
      BY <1>1, <1>3
      DEF Next, SaveSettings, RecordAPIKeyUsage, UpsertProvider, DeleteProvider,
          UpsertProviderAccount, DeleteProviderAccount, RecordProviderAccountOutcome,
          UpsertProxy, DeleteProxy, UpsertInvoice, DeleteInvoice, AddRequestLog,
          RecentRequestLogs, DeleteRequestDebugPayloads, ResetAllData, Restart
<1> QED BY <1>2, <1>3

LEMMA NextMatches == ASSUME StoresInv, LogsInv, RowsInv, MatchInv, [Next]_vars PROVE MatchInv'
<1> SUFFICES ASSUME ~excused' PROVE LogsMatch' BY DEF MatchInv
<1>1. ~excused /\ LogsMatch /\ faults = 0 BY NextExcuses DEF MatchInv, RowsInv
<1>2. payloads \subseteq Times(sqlLogs) /\ unsaved = {} /\ logFile = logs
      BY <1>1 DEF LogsInv, SqlPayloads, FilePayloads, FileLogsInv
<1>3. ASSUME NEW kind, NEW failed, NEW differs, Call(kind, failed, differs) PROVE failed = "none"
      BY <1>3 DEF Call
<1>4. CASE \/ SaveSettings \/ RecordAPIKeyUsage \/ UpsertProvider \/ DeleteProvider
           \/ UpsertProviderAccount \/ DeleteProviderAccount \/ RecordProviderAccountOutcome
           \/ UpsertProxy \/ DeleteProxy \/ UpsertInvoice \/ DeleteInvoice
      BY <1>1, <1>4, RowsKeepDebug, SameMatch
<1>5. CASE AddRequestLog
  <2> PICK raw \in BOOLEAN, failed \in {"none", "file", "debug", "payload", "log", "trim", "sweep"} :
        /\ Call("log", failed, FALSE)
        /\ FileAddRequestLog([time |-> clock + 1, raw |-> raw], failed # "debug", Wrote(failed))
        /\ SqlAddRequestLog([time |-> clock + 1, raw |-> raw],
                            IF failed = "debug" THEN "none" ELSE Stmt(failed))
        /\ clock' = clock + 1
        BY <1>5 DEF AddRequestLog
  <2>1. failed = "none" BY <1>3
  <2>2. Stmt(failed) = "none" BY <2>1 DEF Stmt
  <2>3. /\ FileAddRequestLog([time |-> clock + 1, raw |-> raw], TRUE, Wrote(failed))
        /\ SqlAddRequestLog([time |-> clock + 1, raw |-> raw], "none")
    <3> DEFINE log == [time |-> clock + 1, raw |-> raw]
    <3>1. /\ FileAddRequestLog(log, failed # "debug", Wrote(failed))
          /\ SqlAddRequestLog(log, IF failed = "debug" THEN "none" ELSE Stmt(failed))
          OBVIOUS
    <3> HIDE DEF log
    <3>2. (failed # "debug") = TRUE BY <2>1
    <3>3. (IF failed = "debug" THEN "none" ELSE Stmt(failed)) = "none" BY <2>1, <2>2
    <3>4. FileAddRequestLog(log, TRUE, Wrote(failed)) /\ SqlAddRequestLog(log, "none")
          BY <3>1, <3>2, <3>3
    <3> QED BY <3>4 DEF log
  <2> QED BY <1>1, <1>2, <2>3, AddMatches
<1>6. CASE RecentRequestLogs
  <2>1. UNCHANGED <<logs, debugFiles, clock>> BY <1>6 DEF RecentRequestLogs, fileVars
  <2>2. sqlLogs' \subseteq sqlLogs /\ payloads' \subseteq payloads
        BY <1>6 DEF RecentRequestLogs, SqlRecentLogs, Retain, Newest
  <2>3. FileLogs' = FileLogs BY <2>1 DEF FileLogs
  <2> QED BY <1>1, <2>1, <2>2, <2>3, FewerLogs
<1>7. CASE DeleteRequestDebugPayloads
  <2> PICK failed \in {"none", "file", "payload", "log"}, removed \in SUBSET debugFiles :
        /\ removed # debugFiles => failed = "file"
        /\ Call("debug", failed, FALSE)
        /\ FileDeleteDebugPayloads(removed, Wrote(failed))
        /\ SqlDeleteDebugPayloads(Stmt(failed))
        BY <1>7 DEF DeleteRequestDebugPayloads
  <2>1. failed = "none" BY <1>3
  <2>2. Stmt(failed) = "none" /\ removed = debugFiles BY <2>1 DEF Stmt
  <2> QED BY <2>2, DeleteMatches
<1>8. CASE ResetAllData
  <2> PICK failed \in {"none", "debug", "main", "logs", "tx", "settings", "seed"},
             seeded \in 0..(Cardinality(DOMAIN SeedProviders) - 1) :
        /\ Call("reset", failed, DOMAIN tables.accounts # {})
        /\ FileReset(failed)
        /\ SqlReset(IF failed \in {"debug", "main", "logs"} THEN "none" ELSE failed, seeded)
        BY <1>8 DEF ResetAllData
  <2>1. failed = "none" BY <1>3
  <2>2. logs' = <<>> /\ debugFiles' = {} BY <2>1 DEF FileReset
  <2>3. sqlLogs' = {} /\ payloads' = {} BY <2>1 DEF SqlReset
  <2>4. FileLogs' = {} BY <2>2 DEF FileLogs
  <2> QED BY <2>2, <2>3, <2>4, NoDebugPayloads
<1>9. CASE Restart
  <2>1. logs' = logs /\ UNCHANGED <<debugFiles, sqlLogs, payloads, clock>>
        BY <1>2, <1>9 DEF Restart, FileLoad, SqlOpen
  <2> QED BY <1>1, <2>1, SameMatch DEF DebugVars
<1>10. CASE UNCHANGED vars
      BY <1>1, <1>10, SameMatch DEF vars, fileVars, sqlVars, DebugVars
<1> QED BY <1>4, <1>5, <1>6, <1>7, <1>8, <1>9, <1>10 DEF Next

LEMMA InitMatches == Init => MatchInv
<1> SUFFICES ASSUME Init PROVE LogsMatch BY DEF MatchInv
<1>1. logs = <<>> /\ debugFiles = {} /\ sqlLogs = {} BY DEF Init, FileInit, SqlInit
<1>2. FileLogs = {} BY <1>1 DEF FileLogs
<1> QED BY <1>1, <1>2 DEF LogsMatch

\* Both stores answer alike whether a log has a debug payload.
LEMMA SameAnswers ==
    ASSUME LogsInv, LogsMatch, faults = 0, NEW t \in FileTimes(logs) \cap Times(sqlLogs)
    PROVE  FileHasDebugPayload(t) = SqlHasDebugPayload(t)
<1>1. PICK k \in FileLogs : k.time = t BY DEF FileTimes, FileLogs
<1>2. PICK l \in sqlLogs : l.time = t BY DEF Times
<1>3. k.raw = l.raw BY <1>1, <1>2 DEF LogsMatch
<1>4. /\ \A i \in 1..Len(logs) : logs[i].raw => logs[i].time \in debugFiles
      /\ \A m \in sqlLogs : m.raw => m.time \in payloads
      BY DEF LogsInv, FilePayloads, SqlPayloads
<1>5. t \in debugFiles <=> k.raw BY <1>1, <1>4 DEF LogsMatch, FileLogs
<1>6. t \in payloads <=> l.raw BY <1>2, <1>4 DEF LogsMatch
<1>7. (\E i \in 1..Len(logs) : logs[i].time = t /\ logs[i].raw) => t \in debugFiles BY <1>4
<1>8. FileHasDebugPayload(t) <=> t \in debugFiles BY <1>7 DEF FileHasDebugPayload
<1>9. SqlHasDebugPayload(t) <=> t \in payloads BY DEF SqlHasDebugPayload
<1>10. FileHasDebugPayload(t) \in BOOLEAN /\ SqlHasDebugPayload(t) \in BOOLEAN
      BY DEF FileHasDebugPayload, SqlHasDebugPayload
<1>11. k.raw \in BOOLEAN /\ l.raw \in BOOLEAN
      BY LogsKnown DEF Log
<1> QED BY <1>3, <1>5, <1>6, <1>8, <1>9, <1>10, <1>11

(***************************************************************************)
(* What callers read, as a function of the tables: the same for both.      *)
(***************************************************************************)
Entry(a, r) == [id |-> a, row |-> r]
Url(r, px) ==
    IF r.proxyId = "" THEN r.proxyUrl
    ELSE IF r.proxyId \in DOMAIN px /\ px[r.proxyId].enabled THEN px[r.proxyId].url ELSE ""

LEMMA ResolvedIs ==
    ASSUME NEW r, NEW px
    PROVE  ResolveProxy(r, px) = IF r.proxyId = "" THEN r ELSE WithUrl(r, Url(r, px))
BY DEF ResolveProxy, WithUrl, Url

LEMMA ResolvedByBoth ==
    ASSUME NEW r PROVE WithProxyURL(r) = ResolveProxy(r, tables.proxies)
<1>1. r.proxyId \in EnabledProxies <=>
        r.proxyId \in DOMAIN tables.proxies /\ tables.proxies[r.proxyId].enabled
      BY DEF EnabledProxies
<1> QED BY <1>1 DEF WithProxyURL, ResolveProxy

LEMMA MaskedIs ==
    ASSUME NEW a, NEW b, NEW c, NEW d, NEW e, NEW f, NEW g, NEW h, NEW u
    PROVE  Masked(ProviderRow(a, b, c, d, e, f, g, h), u) = ProviderRow(a, u, c, <<>>, e, f, g, h)
BY RowExcept

\* A row as a caller gets it, without what the comparison leaves out.
LEMMA PlainRow ==
    ASSUME NEW q, RowOk(q), NEW px
    PROVE  LET r == ResolveProxy(q, px)
           IN  Masked(NormalizeProvider(r), r.proxyUrl) = Shown(q, Url(q, px))
<1> DEFINE r == ResolveProxy(q, px)
           u == Url(q, px)
           a == q.proxyId  b == q.proxyUrl  c == q.models  d == q.hidden
           e == q.apiKey  f == q.keys  g == q.strategy  h == q.sticky
           b2 == OwnUrl(r)  c2 == NormalizeModels(q.models)  d2 == NormalizeModels(q.hidden)
           f2 == KeysOf(q)  g2 == Strategy(q)  h2 == Sticky(q)
<1>1. q = ProviderRow(a, b, c, d, e, f, g, h) BY DEF RowOk, RowIs
<1>2. r = IF a = "" THEN q ELSE WithUrl(q, u) BY ResolvedIs
<1>3. a = "" => u = b BY DEF Url
<1> HIDE DEF r, u, a, b, c, d, e, f, g, h
<1>4. r = ProviderRow(a, u, c, d, e, f, g, h)
  <2>1. CASE a = "" BY <1>1, <1>2, <1>3, <2>1
  <2>2. CASE a # ""
    <3>1. WithUrl(q, u) = ProviderRow(a, u, c, d, e, f, g, h) BY <1>1, RowExcept
    <3> QED BY <1>2, <2>2, <3>1
  <2> QED BY <2>1, <2>2
<1>5. /\ r.proxyId = a /\ r.proxyUrl = u /\ r.models = c /\ r.hidden = d
      /\ r.apiKey = e /\ r.keys = f /\ r.strategy = g /\ r.sticky = h
      BY <1>4, RowFields
<1>6. RowIs(r) BY <1>4, <1>5 DEF RowIs
<1>7. KeysOf(r) = f2 /\ Strategy(r) = g2 /\ Sticky(r) = h2
      BY <1>5 DEF KeysOf, Strategy, Sticky, e, f, g, h
<1>8. NormalizeProvider(r) =
        ProviderRow(r.proxyId, OwnUrl(r), NormalizeModels(r.models), NormalizeModels(r.hidden),
                    r.apiKey, KeysOf(r), Strategy(r), Sticky(r))
      BY <1>6, NormalizedIs
<1>9. NormalizeProvider(r) = ProviderRow(a, b2, c2, d2, e, f2, g2, h2)
      BY <1>5, <1>7, <1>8 DEF c, d
<1> DEFINE n == NormalizeProvider(r)
<1> HIDE DEF b2, c2, d2, f2, g2, h2, n
<1>10. Masked(n, u) = ProviderRow(a, u, c2, <<>>, e, f2, g2, h2)
  <2>1. n = ProviderRow(a, b2, c2, d2, e, f2, g2, h2) BY <1>9 DEF n
  <2> QED BY <2>1, MaskedIs
<1>11. Masked(n, r.proxyUrl) = Shown(q, u)
      BY <1>5, <1>10 DEF Shown, a, e, c2, f2, g2, h2
<1> QED BY <1>11 DEF n, r, u

\* A stored row of SQLite, read back without its hidden models.
LEMMA PlainStored ==
    ASSUME NEW q, NormalProvider(q), OwnIds(q.keys), NEW px
    PROVE  LET r == ResolveProxy(NormalizeProvider(Unhidden(q)), px)
           IN  Masked(NormalizeProvider(r), r.proxyUrl) = Shown(q, Url(q, px))
<1> DEFINE v == Unhidden(q)
           a == q.proxyId  b == q.proxyUrl  c == q.models  d == q.hidden
           e == q.apiKey  f == q.keys  g == q.strategy  h == q.sticky
           none == <<>>
<1>1. q = ProviderRow(a, b, c, d, e, f, g, h) BY DEF NormalProvider, RowIs
<1>2. none \in NormalModels BY NoItems DEF NormalModels
<1> HIDE DEF v, a, b, c, d, e, f, g, h
<1>3. v = ProviderRow(a, b, c, none, e, f, g, h) BY <1>1, RowExcept DEF v
<1> HIDE DEF none
<1>4. /\ v.proxyId = a /\ v.proxyUrl = b /\ v.models = c /\ v.hidden = none
      /\ v.apiKey = e /\ v.keys = f /\ v.strategy = g /\ v.sticky = h
      BY <1>3, RowFields
<1>5. RowIs(v) BY <1>3, <1>4 DEF RowIs
<1>6. NormalProvider(v) BY <1>2, <1>4, <1>5 DEF NormalProvider, a, b, c, e, f, g, h
<1>7. OwnIds(v.keys) BY <1>4 DEF f
<1>8. NormalizeProvider(v) = v /\ RowOk(v) BY <1>6, <1>7, ProviderStays, NormalRowOk
<1>9. LET r == ResolveProxy(v, px)
      IN  Masked(NormalizeProvider(r), r.proxyUrl) = Shown(v, Url(v, px))
      BY <1>8, PlainRow
<1>10. /\ KeysOf(v) = KeysOf(q) /\ Strategy(v) = Strategy(q) /\ Sticky(v) = Sticky(q)
       /\ Url(v, px) = Url(q, px)
      BY <1>4 DEF KeysOf, Strategy, Sticky, Url, a, b, e, f, g, h
<1>11. Shown(v, Url(v, px)) = Shown(q, Url(q, px)) BY <1>4, <1>10 DEF Shown, a, c, e
<1> QED BY <1>8, <1>9, <1>11 DEF v

(***************************************************************************)
(* The views, with the tables they are taken from as parameters.           *)
(***************************************************************************)
ProxiesAt(px) == Listed(ById(DOMAIN px), LAMBDA x : px[x])

FileProvidersAt(x, px) == Plainly(Listed(ById(DOMAIN x), LAMBDA p : ResolveProxy(x[p], px)))
FileAccountsOf(x, px, provider) ==
    LET ids == AccountsOf(x, provider)
        Before(a, b) == IF x[a].priority # x[b].priority
                        THEN x[a].priority < x[b].priority
                        ELSE Place[a] < Place[b]
    IN  Listed(Sorted(ids, {p \in ids \X ids : Before(p[1], p[2])}), LAMBDA a : ResolveProxy(x[a], px))
FileViewAt(s, x, a, px) ==
    [settings  |-> s, providers |-> FileProvidersAt(x, px),
     accounts  |-> [p \in {a[b].provider : b \in DOMAIN a} |-> FileAccountsOf(a, px, p)],
     proxies   |-> ProxiesAt(px)]

UrlOf(row, px) ==
    IF row.proxyId = "" THEN row
    ELSE [row EXCEPT !.proxyUrl = IF row.proxyId \in {x \in DOMAIN px : px[x].enabled}
                                  THEN px[row.proxyId].url ELSE ""]
SqlProvidersAt(x, px) ==
    Plainly(Listed(ById(DOMAIN x), LAMBDA p : UrlOf(NormalizeProvider([x[p] EXCEPT !.hidden = <<>>]), px)))
SqlAccountsOf(x, px, provider) ==
    LET ids == {a \in DOMAIN x : x[a].provider = provider}
        Priority(a) == x[a].priority
        Before(a, b) == \/ Priority(a) < Priority(b)
                        \/ Priority(a) = Priority(b) /\ Place[a] < Place[b]
    IN  Listed(Sorted(ids, {p \in ids \X ids : Before(p[1], p[2])}),
               LAMBDA a : UrlOf(NormalizeProviderAccount(x[a]), px))
SqlViewAt(s, x, a, px) ==
    [settings  |-> s, providers |-> SqlProvidersAt(x, px),
     accounts  |-> [p \in {a[b].provider : b \in DOMAIN a} |-> SqlAccountsOf(a, px, p)],
     proxies   |-> ProxiesAt(px)]

LEMMA FileViewIs ==
    /\ FileView = FileViewAt(db.settings, db.providers, db.accounts, db.proxies)
    /\ FileView' = FileViewAt(db'.settings, db'.providers, db'.accounts, db'.proxies)
<1>1. FileView = FileViewAt(db.settings, db.providers, db.accounts, db.proxies)
      BY DEF FileView, FileListProviders, FileGetProvider, FileListProviderAccounts,
             FileGetProviderAccount, FileListProxies, FileViewAt, FileProvidersAt, FileAccountsOf,
             ProxiesAt, Listed, Each
<1>2. FileView' = FileViewAt(db'.settings, db'.providers, db'.accounts, db'.proxies)
      BY DEF FileView, FileListProviders, FileGetProvider, FileListProviderAccounts,
             FileGetProviderAccount, FileListProxies, FileViewAt, FileProvidersAt, FileAccountsOf,
             ProxiesAt, Listed, Each
<1> QED BY <1>1, <1>2

LEMMA SqlViewIs ==
    /\ SqlView = SqlViewAt(SqlGetSettings, tables.providers, tables.accounts, tables.proxies)
    /\ SqlView' = SqlViewAt(SqlGetSettings', tables'.providers, tables'.accounts, tables'.proxies)
<1>1. SqlView = SqlViewAt(SqlGetSettings, tables.providers, tables.accounts, tables.proxies)
      BY DEF SqlView, SqlListProviders, SqlGetProvider, SqlListProviderAccounts,
             SqlGetProviderAccount, SqlListProxies, SqlViewAt, SqlProvidersAt, SqlAccountsOf,
             ProxiesAt, WithProxyURL, UrlOf, EnabledProxies, Listed, Each
<1>2. SqlView' = SqlViewAt(SqlGetSettings', tables'.providers, tables'.accounts, tables'.proxies)
      BY DEF SqlView, SqlListProviders, SqlGetProvider, SqlListProviderAccounts,
             SqlGetProviderAccount, SqlListProxies, SqlViewAt, SqlProvidersAt, SqlAccountsOf,
             ProxiesAt, WithProxyURL, UrlOf, EnabledProxies, Listed, Each
<1> QED BY <1>1, <1>2

\* The providers in both views.
ProvidersShown(x, px) ==
    LET ids == ById(DOMAIN x)
    IN  [i \in 1..Len(ids) |-> Entry(ids[i], Shown(x[ids[i]], Url(x[ids[i]], px)))]

LEMMA PlainEntry ==
    ASSUME NEW a, NEW r
    PROVE  Plain(Entry(a, r)) = Entry(a, Masked(NormalizeProvider(r), r.proxyUrl))
<1> DEFINE e == Entry(a, r)
           m == Masked(NormalizeProvider(r), r.proxyUrl)
<1>1. e.row = r /\ e = [id |-> a, row |-> r] BY DEF Entry
<1> HIDE DEF e
<1>0. Visible(r) = m BY DEF Visible, Masked
<1>2. Plain(e) = [e EXCEPT !.row = m] BY <1>0, <1>1 DEF Plain
<1> HIDE DEF m
<1>3. Plain(e) = [id |-> a, row |-> m] BY <1>1, <1>2
<1> QED BY <1>3 DEF e, m, Entry

LEMMA SameUrl == ASSUME NEW r, NEW px PROVE UrlOf(r, px) = ResolveProxy(r, px)
<1>1. r.proxyId \in {x \in DOMAIN px : px[x].enabled} <=> r.proxyId \in DOMAIN px /\ px[r.proxyId].enabled
      OBVIOUS
<1> QED BY <1>1 DEF UrlOf, ResolveProxy

LEMMA ListedIds ==
    ASSUME NEW x, DOMAIN x \in SUBSET Ids
    PROVE  /\ Len(ById(DOMAIN x)) \in Nat
           /\ \A i \in 1..Len(ById(DOMAIN x)) : ById(DOMAIN x)[i] \in DOMAIN x
<1>1. ById(DOMAIN x) = Sorted(DOMAIN x, Earlier(DOMAIN x)) BY DEF ById, Earlier
<1>2. Orders(Earlier(DOMAIN x), DOMAIN x) BY EarlierOrders
<1>3. Len(ById(DOMAIN x)) \in Nat BY <1>1, <1>2, SortedIs
<1>4. \A i \in 1..Len(ById(DOMAIN x)) : ById(DOMAIN x)[i] \in DOMAIN x BY ByIdIs
<1> QED BY <1>3, <1>4

LEMMA FileProvidersShown ==
    ASSUME NEW x, GoodProviders(x), NEW px
    PROVE  FileProvidersAt(x, px) = ProvidersShown(x, px)
<1> DEFINE ids == ById(DOMAIN x)
           n == Len(ids)
           G(p) == ResolveProxy(x[p], px)
           L == [i \in 1..n |-> Entry(ids[i], G(ids[i]))]
           S(p) == Shown(x[p], Url(x[p], px))
<1>1. n \in Nat /\ \A i \in 1..n : ids[i] \in DOMAIN x BY ListedIds DEF GoodProviders
<1>2. FileProvidersAt(x, px) = Plainly(L) BY DEF FileProvidersAt, Listed, Each, Entry
<1>3. ASSUME NEW p \in DOMAIN x PROVE Masked(NormalizeProvider(G(p)), G(p).proxyUrl) = S(p)
  <2>1. RowOk(x[p]) BY DEF GoodProviders
  <2> QED BY <2>1, PlainRow
<1>4. ProvidersShown(x, px) = [i \in 1..n |-> Entry(ids[i], S(ids[i]))] BY DEF ProvidersShown
<1> HIDE DEF ids, n, G, S
<1>5. Len(L) = n /\ \A i \in 1..n : L[i] = Entry(ids[i], G(ids[i])) BY <1>1
<1>6. \A i \in 1..n : Plain(L[i]) = Entry(ids[i], S(ids[i])) BY <1>1, <1>3, <1>5, PlainEntry
<1> HIDE DEF L
<1>7. Plainly(L) = [i \in 1..n |-> Entry(ids[i], S(ids[i]))] BY <1>5, <1>6 DEF Plainly
<1> QED BY <1>2, <1>4, <1>7

\* SQLite keeps the normalised rows.
LEMMA SqlProvidersShown ==
    ASSUME NEW x, GoodProviders(x), NEW y, DOMAIN y = DOMAIN x,
           \A p \in DOMAIN x : KeysNamed(x[p]) /\ y[p] = NormalizeProvider(x[p]), NEW px
    PROVE  SqlProvidersAt(y, px) = ProvidersShown(x, px)
<1> DEFINE ids == ById(DOMAIN x)
           n == Len(ids)
           G(p) == UrlOf(NormalizeProvider(Unhidden(y[p])), px)
           L == [i \in 1..n |-> Entry(ids[i], G(ids[i]))]
           S(p) == Shown(x[p], Url(x[p], px))
<1>1. n \in Nat /\ \A i \in 1..n : ids[i] \in DOMAIN x BY ListedIds DEF GoodProviders
<1>2. SqlProvidersAt(y, px) = Plainly(L) BY DEF SqlProvidersAt, Listed, Each, Entry, Unhidden
<1>3. ASSUME NEW p \in DOMAIN x PROVE Masked(NormalizeProvider(G(p)), G(p).proxyUrl) = S(p)
  <2> DEFINE q == x[p]
             t == y[p]
  <2>1. RowOk(q) /\ KeysNamed(q) /\ t = NormalizeProvider(q) BY DEF GoodProviders
  <2>2. G(p) = ResolveProxy(NormalizeProvider(Unhidden(t)), px) BY SameUrl
  <2> HIDE DEF q, t, G
  <2>3. OwnIds(KeysOf(q)) BY <2>1, NamedKeys
  <2>4. NormalProvider(t) /\ OwnIds(t.keys) /\ t.proxyId = q.proxyId /\ t.proxyUrl = OwnUrl(q)
        BY <2>1, <2>3, ShownSame
  <2>5. Masked(NormalizeProvider(G(p)), G(p).proxyUrl) = Shown(t, Url(t, px))
        BY <2>2, <2>4, PlainStored
  <2>6. Url(t, px) = Url(q, px) BY <2>4 DEF Url, OwnUrl
  <2>7. Shown(t, Url(q, px)) = Shown(q, Url(q, px)) BY <2>1, <2>3, ShownSame
  <2> QED BY <2>5, <2>6, <2>7 DEF q
<1>4. ProvidersShown(x, px) = [i \in 1..n |-> Entry(ids[i], S(ids[i]))] BY DEF ProvidersShown
<1> HIDE DEF ids, n, G, S
<1>5. Len(L) = n /\ \A i \in 1..n : L[i] = Entry(ids[i], G(ids[i])) BY <1>1
<1>6. \A i \in 1..n : Plain(L[i]) = Entry(ids[i], S(ids[i])) BY <1>1, <1>3, <1>5, PlainEntry
<1> HIDE DEF L
<1>7. Plainly(L) = [i \in 1..n |-> Entry(ids[i], S(ids[i]))] BY <1>5, <1>6 DEF Plainly
<1> QED BY <1>2, <1>4, <1>7

\* What the file store reads back on its next start is shown as before.
LEMMA RenewedShown ==
    ASSUME NEW x, GoodProviders(x), \A p \in DOMAIN x : KeysNamed(x[p]), NEW px
    PROVE  FileProvidersAt(Renewed(x), px) = FileProvidersAt(x, px)
<1> DEFINE y == Renewed(x)
           ids == ById(DOMAIN x)
           n == Len(ids)
<1>1. n \in Nat /\ \A i \in 1..n : ids[i] \in DOMAIN x BY ListedIds DEF GoodProviders
<1>2. DOMAIN y = DOMAIN x /\ \A p \in DOMAIN x : y[p] = NormalizeProvider(x[p]) BY RenewedIs
<1>3. GoodProviders(y) BY RenewedGood
<1>4. ASSUME NEW p \in DOMAIN x PROVE Shown(y[p], Url(y[p], px)) = Shown(x[p], Url(x[p], px))
  <2> DEFINE q == x[p]
             t == y[p]
  <2>1. RowOk(q) /\ KeysNamed(q) BY DEF GoodProviders
  <2>2. t = NormalizeProvider(q) BY <1>2
  <2> HIDE DEF q, t
  <2>3. OwnIds(KeysOf(q)) BY <2>1, NamedKeys
  <2>4. t.proxyId = q.proxyId /\ t.proxyUrl = OwnUrl(q) BY <2>1, <2>2, <2>3, ShownSame
  <2>5. Url(t, px) = Url(q, px) BY <2>4 DEF Url, OwnUrl
  <2>6. Shown(t, Url(q, px)) = Shown(q, Url(q, px)) BY <2>1, <2>2, <2>3, ShownSame
  <2> QED BY <2>5, <2>6 DEF q, t
<1> DEFINE S(p) == Shown(x[p], Url(x[p], px))
           T(p) == Shown(y[p], Url(y[p], px))
<1> HIDE DEF y
<1>5. /\ ProvidersShown(x, px) = [i \in 1..n |-> Entry(ids[i], S(ids[i]))]
      /\ ProvidersShown(y, px) = [i \in 1..n |-> Entry(ids[i], T(ids[i]))]
      BY <1>2 DEF ProvidersShown
<1>6. \A i \in 1..n : T(ids[i]) = S(ids[i]) BY <1>1, <1>4
<1> HIDE DEF S, T, ids, n
<1>7. ProvidersShown(y, px) = ProvidersShown(x, px) BY <1>5, <1>6
<1>8. FileProvidersAt(y, px) = FileProvidersAt(x, px) BY <1>3, <1>7, FileProvidersShown
<1> QED BY <1>8 DEF y

\* The accounts of a provider: one row and one order in both stores.
LEMMA SameAccounts ==
    ASSUME NEW x, GoodAccounts(x), NEW px, NEW provider
    PROVE  FileAccountsOf(x, px, provider) = SqlAccountsOf(x, px, provider)
<1> DEFINE ids == AccountsOf(x, provider)
           P == [a \in ids |-> x[a].priority]
           R == Sooner(ids, P)
           s == Sorted(ids, R)
           n == Len(s)
           F(a) == ResolveProxy(x[a], px)
           G(a) == UrlOf(NormalizeProviderAccount(x[a]), px)
           A == {p \in ids \X ids : IF x[p[1]].priority # x[p[2]].priority
                                    THEN x[p[1]].priority < x[p[2]].priority
                                    ELSE Place[p[1]] < Place[p[2]]}
           B == {p \in ids \X ids : \/ x[p[1]].priority < x[p[2]].priority
                                    \/ x[p[1]].priority = x[p[2]].priority /\ Place[p[1]] < Place[p[2]]}
<1>1. FileAccountsOf(x, px, provider) = Listed(Sorted(ids, A), F) BY DEF FileAccountsOf
<1>2. SqlAccountsOf(x, px, provider) = Listed(Sorted(ids, B), G) BY DEF SqlAccountsOf, AccountsOf
<1>3. ids \in SUBSET DOMAIN x BY DEF AccountsOf
<1>4. DOMAIN x \in SUBSET Ids /\ \A a \in DOMAIN x : x[a] \in NormalAccount BY DEF GoodAccounts
<1>5. \A a \in ids : x[a].priority \in Int BY <1>3, <1>4 DEF NormalAccount, Positive
<1> HIDE DEF ids, F, G
<1>6. A = R
  <2>1. \A a, b \in ids :
           (IF x[a].priority # x[b].priority THEN x[a].priority < x[b].priority ELSE Place[a] < Place[b])
           <=> (P[a] < P[b] \/ (P[a] = P[b] /\ Place[a] < Place[b]))
        BY <1>5
  <2>2. \A p \in ids \X ids : p[1] \in ids /\ p[2] \in ids OBVIOUS
  <2> HIDE DEF P
  <2> QED BY <2>1, <2>2 DEF Sooner
<1>7. B = R
  <2>1. \A a, b \in ids :
           (x[a].priority < x[b].priority \/ (x[a].priority = x[b].priority /\ Place[a] < Place[b]))
           <=> (P[a] < P[b] \/ (P[a] = P[b] /\ Place[a] < Place[b]))
        OBVIOUS
  <2>2. \A p \in ids \X ids : p[1] \in ids /\ p[2] \in ids OBVIOUS
  <2> HIDE DEF P
  <2> QED BY <2>1, <2>2 DEF Sooner
<1>8. n \in Nat /\ \A i \in 1..n : s[i] \in ids
  <2>1. P \in [ids -> Int] BY <1>5
  <2>2. ids \in SUBSET Ids BY <1>3, <1>4
  <2> HIDE DEF P
  <2>3. Orders(R, ids) BY <2>1, <2>2, SoonerOrders
  <2> HIDE DEF R
  <2>4. Cardinality(ids) \in Nat /\ n = Cardinality(ids) /\ s \in [1..Cardinality(ids) -> ids]
        BY <2>3, SortedIs
  <2> HIDE DEF s
  <2> QED BY <2>4
<1>9. ASSUME NEW a \in ids PROVE G(a) = F(a)
  <2>1. NormalizeProviderAccount(x[a]) = x[a] BY <1>3, <1>4, AccountNormal
  <2> QED BY <2>1, SameUrl DEF F, G
<1> HIDE DEF A, B, R
<1>10. FileAccountsOf(x, px, provider) = [i \in 1..n |-> [id |-> s[i], row |-> F(s[i])]]
      BY <1>1, <1>6 DEF Listed, Each
<1>11. SqlAccountsOf(x, px, provider) = [i \in 1..n |-> [id |-> s[i], row |-> G(s[i])]]
      BY <1>2, <1>7 DEF Listed, Each
<1> HIDE DEF s, n
<1> QED BY <1>8, <1>9, <1>10, <1>11

LEMMA ViewsAgree ==
    ASSUME NEW s, NEW x, GoodProviders(x), NEW y, DOMAIN y = DOMAIN x,
           \A p \in DOMAIN x : KeysNamed(x[p]) /\ y[p] = NormalizeProvider(x[p]),
           NEW a, GoodAccounts(a), NEW px
    PROVE  FileViewAt(s, x, a, px) = SqlViewAt(s, y, a, px)
<1>1. FileProvidersAt(x, px) = SqlProvidersAt(y, px) BY FileProvidersShown, SqlProvidersShown
<1>2. \A p : FileAccountsOf(a, px, p) = SqlAccountsOf(a, px, p) BY SameAccounts
<1> DEFINE I == {a[b].provider : b \in DOMAIN a}
<1> HIDE DEF I
<1>3. [p \in I |-> FileAccountsOf(a, px, p)] = [p \in I |-> SqlAccountsOf(a, px, p)] BY <1>2
<1> QED BY <1>1, <1>3 DEF FileViewAt, SqlViewAt, I

(***************************************************************************)
(* The theorems about both stores.                                         *)
(***************************************************************************)
BothInv == StoresInv /\ LogsInv /\ RowsInv /\ MatchInv

LEMMA BothInvHolds == Spec => []BothInv
<1>1. Init => BothInv BY InitHasShape, InitLogs, InitRows, InitMatches DEF BothInv
<1>2. BothInv /\ [Next]_vars => BothInv'
  <2> SUFFICES ASSUME BothInv, [Next]_vars PROVE BothInv' OBVIOUS
  <2>1. StoresInv /\ LogsInv /\ RowsInv /\ MatchInv BY DEF BothInv
  <2>2. StoresInv' BY <2>1, NextIsGood DEF StepGood, StoresInv, Shaped
  <2>3. LogsInv' BY <2>1, NextLogs
  <2>4. RowsInv' BY <2>1, NextRows
  <2>5. MatchInv' BY <2>1, NextMatches
  <2> QED BY <2>2, <2>3, <2>4, <2>5 DEF BothInv
<1> QED BY <1>1, <1>2, PTL DEF Spec

\* The two backends give their callers the same settings, providers, accounts
\* and proxies, in the same order, and the same answer about debug payloads,
\* after any calls that succeeded and are not known to differ, restarts included.
THEOREM BackendsAreInterchangeable == Spec => []Interchangeable
<1>1. BothInv => Interchangeable
  <2> SUFFICES ASSUME BothInv, ~excused
               PROVE  /\ FileView = SqlView
                      /\ \A t \in FileTimes(logs) \cap Times(sqlLogs) :
                            FileHasDebugPayload(t) = SqlHasDebugPayload(t)
      BY DEF Interchangeable
  <2>1. LogsInv /\ RowsInv /\ LogsMatch /\ faults = 0 BY DEF BothInv, MatchInv, RowsInv
  <2>2. GoodDb(db) /\ RowsAgree(db, tables) BY <2>1 DEF RowsInv
  <2>3. SqlGetSettings = db.settings BY <2>1, ReadBack
  <2> DEFINE s == db.settings
             x == db.providers
             y == tables.providers
             a == db.accounts
             px == db.proxies
  <2>4. FileView = FileViewAt(s, x, a, px) BY FileViewIs
  <2>5. SqlView = SqlViewAt(s, y, a, px) BY <2>2, <2>3, SqlViewIs DEF RowsAgree
  <2>6. /\ GoodProviders(x) /\ GoodAccounts(a) /\ DOMAIN y = DOMAIN x
        /\ \A p \in DOMAIN x : KeysNamed(x[p]) /\ y[p] = NormalizeProvider(x[p])
        BY <2>2 DEF GoodDb, RowsAgree
  <2> HIDE DEF s, x, y, a, px
  <2>7. FileViewAt(s, x, a, px) = SqlViewAt(s, y, a, px) BY <2>6, ViewsAgree
  <2> QED BY <2>1, <2>4, <2>5, <2>7, SameAnswers
<1> QED BY <1>1, BothInvHolds, PTL

\* Only a restart counts as one.
LEMMA OnlyRestarts ==
    ASSUME StoresInv, [Next]_vars, calls'["restart"] # calls["restart"] PROVE Restart
<1>1. ASSUME NEW kind \in Kinds, kind # "restart", NEW failed, NEW differs, Call(kind, failed, differs)
      PROVE  calls'["restart"] = calls["restart"]
  <2>1. calls' = [calls EXCEPT ![kind] = @ + 1] BY <1>1 DEF Call
  <2>2. calls \in [Kinds -> Nat] /\ "restart" \in Kinds BY DEF StoresInv, Kinds
  <2> QED BY <1>1, <2>1, <2>2
<1>2. /\ {"row", "settings", "log", "debug", "reset", "invoice"} \subseteq Kinds
      /\ "row" # "restart" /\ "settings" # "restart" /\ "log" # "restart"
      /\ "debug" # "restart" /\ "reset" # "restart" /\ "invoice" # "restart"
      BY DEF Kinds
<1>3. ~UNCHANGED vars BY DEF vars
<1>4. ~SaveSettings BY <1>1, <1>2 DEF SaveSettings
<1>5. ~RecordAPIKeyUsage BY <1>1, <1>2 DEF RecordAPIKeyUsage
<1>6. ~UpsertProvider BY <1>1, <1>2 DEF UpsertProvider
<1>7. ~DeleteProvider BY <1>1, <1>2 DEF DeleteProvider
<1>8. ~UpsertProviderAccount BY <1>1, <1>2 DEF UpsertProviderAccount
<1>9. ~DeleteProviderAccount BY <1>1, <1>2 DEF DeleteProviderAccount
<1>10. ~RecordProviderAccountOutcome BY <1>1, <1>2 DEF RecordProviderAccountOutcome
<1>11. ~UpsertProxy BY <1>1, <1>2 DEF UpsertProxy
<1>12. ~DeleteProxy BY <1>1, <1>2 DEF DeleteProxy
<1>13. ~UpsertInvoice BY <1>1, <1>2 DEF UpsertInvoice
<1>14. ~DeleteInvoice BY <1>1, <1>2 DEF DeleteInvoice
<1>15. ~AddRequestLog BY <1>1, <1>2 DEF AddRequestLog
<1>16. ~RecentRequestLogs BY <1>1, <1>2 DEF RecentRequestLogs
<1>17. ~DeleteRequestDebugPayloads BY <1>1, <1>2 DEF DeleteRequestDebugPayloads
<1>18. ~ResetAllData BY <1>1, <1>2 DEF ResetAllData
<1> QED BY <1>3, <1>4, <1>5, <1>6, <1>7, <1>8, <1>9, <1>10, <1>11, <1>12, <1>13, <1>14, <1>15,
           <1>16, <1>17, <1>18 DEF Next

\* What the file store reads back when nothing is unsaved.
LEMMA FileKeepsState ==
    ASSUME StoresInv, LogsInv, RowsInv, FileLoad, unsaved = {}, DOMAIN db.providers # {},
           \A p \in DOMAIN db.providers : KeysNamed(db.providers[p])
    PROVE  FileView' = FileView /\ db'.invoices = db.invoices /\ logs' = logs
<1>1. mainFile = db /\ logFile = logs BY DEF StoresInv, LogsInv, FileLogsInv
<1>2. GoodDb(mainFile) BY DEF RowsInv
<1>3. /\ db'.settings = db.settings /\ db'.providers = Loaded(db.providers)
      /\ db'.accounts = db.accounts /\ db'.proxies = db.proxies /\ db'.invoices = db.invoices
      BY <1>1, <1>2, LoadIs
<1>4. Loaded(db.providers) = Renewed(db.providers) BY DEF Loaded
<1>5. logs' = logs BY <1>1 DEF FileLoad
<1>6. FileProvidersAt(Renewed(db.providers), db.proxies) = FileProvidersAt(db.providers, db.proxies)
  <2>1. GoodProviders(db.providers) BY <1>1, <1>2 DEF GoodDb
  <2> QED BY <2>1, RenewedShown
<1>7. FileView' = FileViewAt(db.settings, Renewed(db.providers), db.accounts, db.proxies)
      BY <1>3, <1>4, FileViewIs
<1>8. FileView = FileViewAt(db.settings, db.providers, db.accounts, db.proxies) BY FileViewIs
<1>9. FileViewAt(db.settings, Renewed(db.providers), db.accounts, db.proxies) =
        FileViewAt(db.settings, db.providers, db.accounts, db.proxies)
      BY <1>6 DEF FileViewAt
<1> QED BY <1>3, <1>5, <1>7, <1>8, <1>9

LEMMA SqlKeepsState ==
    ASSUME StoresInv, SqlOpen, DOMAIN tables.providers # {}
    PROVE  SqlView' = SqlView /\ tables'.invoices = tables.invoices /\ sqlLogs' = sqlLogs
<1>1. /\ tables'.accounts = tables.accounts /\ tables'.proxies = tables.proxies
      /\ tables'.invoices = tables.invoices /\ tables'.providers = tables.providers
      /\ tables'.settings = IF 1 \in DOMAIN tables.settings THEN tables.settings ELSE DefaultRow
      /\ sqlLogs' = sqlLogs
      BY OpenIs
<1>2. SqlGetSettings' = SqlGetSettings
  <2>1. CASE 1 \in DOMAIN tables.settings
    <3>1. tables'.settings = tables.settings BY <1>1, <2>1
    <3> QED BY <3>1 DEF SqlGetSettings
  <2>2. CASE 1 \notin DOMAIN tables.settings
    <3>1. tables'.settings = DefaultRow BY <1>1, <2>2
    <3>2. SqlGetSettings' = NormalizeSettings(DefaultRow[1])
          BY <3>1, DefaultRead DEF SqlGetSettings
    <3>3. SqlGetSettings = DefaultSettings BY <2>2 DEF SqlGetSettings
    <3> QED BY <3>2, <3>3, DefaultRead
  <2> QED BY <2>1, <2>2
<1>3. SqlView' = SqlView BY <1>1, <1>2, SqlViewIs
<1> QED BY <1>1, <1>3

\* A restart of a store that has providers gives its callers what it gave them
\* before: the file store as far as its last writes succeeded and its keys have
\* ids of their own, SQLite always.
THEOREM RestartsKeepState == Spec => RestartKeepsState
<1>1. BothInv /\ [Next]_vars =>
        [calls'["restart"] # calls["restart"] =>
         /\ /\ unsaved = {}
            /\ DOMAIN db.providers # {} /\ \A p \in DOMAIN db.providers : KeysNamed(db.providers[p])
            => FileView' = FileView /\ db'.invoices = db.invoices /\ logs' = logs
         /\ DOMAIN tables.providers # {} =>
              SqlView' = SqlView /\ tables'.invoices = tables.invoices /\ sqlLogs' = sqlLogs]_vars
  <2> SUFFICES ASSUME BothInv, [Next]_vars, calls'["restart"] # calls["restart"]
               PROVE  /\ /\ unsaved = {}
                         /\ DOMAIN db.providers # {}
                         /\ \A p \in DOMAIN db.providers : KeysNamed(db.providers[p])
                         => FileView' = FileView /\ db'.invoices = db.invoices /\ logs' = logs
                      /\ DOMAIN tables.providers # {} =>
                           SqlView' = SqlView /\ tables'.invoices = tables.invoices /\ sqlLogs' = sqlLogs
      OBVIOUS
  <2>1. StoresInv /\ LogsInv /\ RowsInv BY DEF BothInv
  <2>2. FileLoad /\ SqlOpen BY <2>1, OnlyRestarts DEF Restart
  <2> QED BY <2>1, <2>2, FileKeepsState, SqlKeepsState
<1> QED BY <1>1, BothInvHolds, PTL DEF Spec, RestartKeepsState
================================================================================
