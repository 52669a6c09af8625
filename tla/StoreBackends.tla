----------------------------- MODULE StoreBackends -----------------------------
(***************************************************************************)
(* The two implementations of the Store interface (store.go), which        *)
(* "mirror" each other "so both backends are interchangeable"              *)
(* (sqlite.go:18-20), driven with the same calls.  A write may fail in one *)
(* of them, and the process restarts at any moment.                        *)
(***************************************************************************)
EXTENDS FileStore, SqliteStore, FiniteSetsExt

CONSTANTS
    ProviderInputs, AccountInputs, ProxyInputs, InvoiceInputs,  \* sets of <<id, row>>
    SettingsInputs,     \* settings as a caller may send them
    UsageKeys,          \* API keys usage is recorded for
    Cooldowns,          \* cooldowns of failed accounts
    MaxCalls,           \* kind of call -> how many are made
    MaxTotal,           \* calls of all kinds but restarts
    MaxFaults           \* failing writes

VARIABLES
    calls,              \* calls made of each kind
    faults,             \* writes that failed
    clock,              \* time of the last log
    excused             \* a write failed, or a call was made that is known to differ

vars == <<fileVars, sqlVars, calls, faults, clock, excused>>

ASSUME BoundsAssumption ==
    /\ {MaxFaults, MaxTotal} \subseteq Nat
    /\ \A k \in DOMAIN MaxCalls : MaxCalls[k] \in Nat

\* What callers send.  An account is of a provider the caller found.
ASSUME InputsAssumption ==
    /\ \A in \in ProviderInputs : in[1] \in Ids /\ in[2] \in Providers(STRING)
    /\ \A in \in AccountInputs :
          in[1] \in Ids /\ in[2] \in ProviderAccounts /\ in[2].provider # ""
    /\ \A in \in ProxyInputs : in[1] \in Ids
    /\ \A in \in InvoiceInputs : in[2] \in Invoices
    /\ SettingsInputs \subseteq Settings
    /\ Cooldowns \subseteq Int

Kinds == {"row", "settings", "log", "debug", "reset", "invoice", "restart"}

Init ==
    /\ FileInit /\ SqlInit
    /\ calls = [k \in Kinds |-> 0]
    /\ faults = 0 /\ clock = 0 /\ excused = FALSE

\* A call of a kind, in which the write named "failed" does not succeed;
\* "differs" marks a call after which the stores may differ.
Call(kind, failed, differs) ==
    /\ calls[kind] < MaxCalls[kind]
    /\ kind # "restart" => MapThenSumSet(LAMBDA k : calls[k], Kinds \ {"restart"}) < MaxTotal
    /\ calls' = [calls EXCEPT ![kind] = @ + 1]
    /\ failed # "none" => faults < MaxFaults
    /\ faults' = IF failed = "none" THEN faults ELSE faults + 1
    /\ excused' = (excused \/ failed # "none" \/ differs)

Wrote(failed) == failed # "file"
Write == {"none", "file", "write"}

\* A key without an id is named only after its usage was looked up.
Unnamed(s) == \E i \in 1..Len(s.keys) : s.keys[i].id = ""

SaveSettings ==
    \E s \in SettingsInputs, failed \in Write \cup {"read"} :
        /\ Call("settings", failed, Unnamed(s))
        /\ FileSaveSettings(s, Wrote(failed)) /\ SqlSaveSettings(s, failed)
        /\ UNCHANGED clock

RecordAPIKeyUsage ==
    \E id \in UsageKeys, failed \in Write :
        /\ Call("settings", failed, FALSE)
        /\ FileRecordAPIKeyUsage(id, 1, Wrote(failed))
        /\ SqlRecordAPIKeyUsage(id, 1, IF failed = "write" THEN failed ELSE "none")
        /\ UNCHANGED clock

\* The statement of SQLite that fails, for a failure that is not the file's.
Stmt(failed) == IF failed = "file" THEN "none" ELSE failed

\* Every key that is kept gets an id, and no other key of the list has it.
KeysNamed(p) ==
    LET keys == NormalizeProvider(p).keys
    IN  \A i \in 1..Len(keys) :
           keys[i].id # "" /\ \A j \in 1..Len(keys) : keys[j].id = keys[i].id => i = j

\* The third of three keys with one id has the id of the second, until it is
\* read again: by SQLite with every read, by the file store on its next start.
UpsertProvider ==
    \E in \in ProviderInputs, failed \in Write :
        /\ Call("row", failed, ~KeysNamed(in[2]))
        /\ FileUpsertProvider(in[1], in[2], Wrote(failed))
        /\ SqlUpsertProvider(in[1], in[2], Stmt(failed))
        /\ UNCHANGED clock

DeleteProvider ==
    \E id \in DOMAIN db.providers, failed \in {"none", "file", "accounts", "providers"} :
        /\ Call("row", failed, FALSE)
        /\ FileDeleteProvider(id, Wrote(failed)) /\ SqlDeleteProvider(id, Stmt(failed))
        /\ UNCHANGED clock

UpsertProviderAccount ==
    \E in \in AccountInputs, failed \in Write :
        /\ Call("row", failed, FALSE)
        /\ FileUpsertProviderAccount(in[1], in[2], Wrote(failed))
        /\ SqlUpsertProviderAccount(in[1], in[2], Stmt(failed))
        /\ UNCHANGED clock

DeleteProviderAccount ==
    \E id \in DOMAIN db.accounts, failed \in Write :
        /\ Call("row", failed, FALSE)
        /\ FileDeleteProviderAccount(id, Wrote(failed))
        /\ SqlDeleteProviderAccount(id, Stmt(failed))
        /\ UNCHANGED clock

RecordProviderAccountOutcome ==
    \E id \in DOMAIN db.accounts, success \in BOOLEAN, until \in Cooldowns, failed \in Write :
        /\ Call("row", failed, FALSE)
        /\ FileRecordOutcome(id, success, until, Wrote(failed))
        /\ SqlRecordOutcome(id, success, until, Stmt(failed))
        /\ UNCHANGED clock

UpsertProxy ==
    \E in \in ProxyInputs, failed \in Write :
        /\ Call("row", failed, FALSE)
        /\ FileUpsertProxy(in[1], in[2], Wrote(failed))
        /\ SqlUpsertProxy(in[1], in[2], Stmt(failed))
        /\ UNCHANGED clock

DeleteProxy ==
    \E id \in DOMAIN db.proxies, failed \in Write :
        /\ Call("row", failed, FALSE)
        /\ FileDeleteProxy(id, Wrote(failed)) /\ SqlDeleteProxy(id, Stmt(failed))
        /\ UNCHANGED clock

UpsertInvoice ==
    \E in \in InvoiceInputs, failed \in {"none", "file"} :
        /\ Call("invoice", failed, FALSE)
        /\ FileUpsertInvoice(in[1], in[2], Wrote(failed)) /\ SqlUpsertInvoice(in[1], in[2])
        /\ UNCHANGED clock

DeleteInvoice ==
    \E id \in DOMAIN db.invoices, failed \in Write :
        /\ Call("invoice", failed, FALSE)
        /\ FileDeleteInvoice(id, Wrote(failed)) /\ SqlDeleteInvoice(id, Stmt(failed))
        /\ UNCHANGED clock

\* Logs come with increasing times.
AddRequestLog ==
    \E raw \in BOOLEAN, failed \in {"none", "file", "debug", "payload", "log", "trim", "sweep"} :
        LET log == [time |-> clock + 1, raw |-> raw] IN
        /\ Call("log", failed, FALSE)
        /\ FileAddRequestLog(log, failed # "debug", Wrote(failed))
        /\ SqlAddRequestLog(log, IF failed = "debug" THEN "none" ELSE Stmt(failed))
        /\ clock' = clock + 1

RecentRequestLogs ==
    \E failed \in {"none", "trim", "sweep"} :
        /\ Call("debug", failed, FALSE)
        /\ SqlRecentLogs(failed)
        /\ UNCHANGED <<fileVars, clock>>

DeleteRequestDebugPayloads ==
    \E failed \in {"none", "file", "payload", "log"}, removed \in SUBSET debugFiles :
        /\ removed # debugFiles => failed = "file"
        /\ Call("debug", failed, FALSE)
        /\ FileDeleteDebugPayloads(removed, Wrote(failed))
        /\ SqlDeleteDebugPayloads(Stmt(failed))
        /\ UNCHANGED clock

\* SQLite keeps the accounts that the file store drops.
ResetAllData ==
    \E failed \in {"none", "debug", "main", "logs", "tx", "settings", "seed"},
       seeded \in 0..(Cardinality(DOMAIN SeedProviders) - 1) :
        /\ failed # "seed" => seeded = 0
        /\ Call("reset", failed, DOMAIN tables.accounts # {})
        /\ FileReset(failed)
        /\ SqlReset(IF failed \in {"debug", "main", "logs"} THEN "none" ELSE failed, seeded)
        /\ UNCHANGED clock

Restart ==
    /\ Call("restart", "none", FALSE)
    /\ FileLoad /\ SqlOpen
    /\ UNCHANGED clock

Next ==
    \/ SaveSettings \/ RecordAPIKeyUsage
    \/ UpsertProvider \/ DeleteProvider
    \/ UpsertProviderAccount \/ DeleteProviderAccount \/ RecordProviderAccountOutcome
    \/ UpsertProxy \/ DeleteProxy
    \/ UpsertInvoice \/ DeleteInvoice
    \/ AddRequestLog \/ RecentRequestLogs \/ DeleteRequestDebugPayloads
    \/ ResetAllData \/ Restart

Spec == Init /\ [][Next]_vars

(***************************************************************************)
(* What a caller can tell of the stores.                                   *)
(***************************************************************************)
\* Rows as the executors and the dashboard get them: hidden models, which SQLite
\* does not read back, and defaults the file store adds on its next start are
\* left out.
Visible(row) == [NormalizeProvider(row) EXCEPT !.hidden = <<>>, !.proxyUrl = row.proxyUrl]
Plain(entry) == [entry EXCEPT !.row = Visible(@)]
Plainly(entries) == [i \in 1..Len(entries) |-> Plain(entries[i])]

FileView ==
    [settings  |-> db.settings,
     providers |-> Plainly(FileListProviders),
     accounts  |-> [p \in {db.accounts[a].provider : a \in DOMAIN db.accounts} |->
                      FileListProviderAccounts(p)],
     proxies   |-> FileListProxies]

SqlView ==
    [settings  |-> SqlGetSettings,
     providers |-> Plainly(SqlListProviders),
     accounts  |-> [p \in {tables.accounts[a].provider : a \in DOMAIN tables.accounts} |->
                      SqlListProviderAccounts(p)],
     proxies   |-> SqlListProxies]

FileTimes(items) == {items[i].time : i \in 1..Len(items)}

\* Interchangeable: whatever calls were made, as long as none failed and none
\* is known to differ (Call's third argument; invoices, which SQLite never
\* stores, are not compared), both stores give their callers the same settings,
\* providers, accounts of each provider and proxies, in the same order, and the
\* same answer to whether a log that both still have has a debug payload.
Interchangeable ==
    ~excused => /\ FileView = SqlView
                /\ \A t \in FileTimes(logs) \cap Times(sqlLogs) :
                      FileHasDebugPayload(t) = SqlHasDebugPayload(t)

\* A restart with nothing unsaved loses and changes nothing: what is written is
\* read back, through normalisers that leave normal rows alone, and seeding
\* does not touch a store that has providers.  Only the file store renames keys
\* that have no id of their own.
RestartKeepsState ==
    [][calls'["restart"] # calls["restart"] =>
         /\ /\ unsaved = {}
            /\ DOMAIN db.providers # {} /\ \A p \in DOMAIN db.providers : KeysNamed(db.providers[p])
            => FileView' = FileView /\ db'.invoices = db.invoices /\ logs' = logs
         /\ DOMAIN tables.providers # {} =>
              SqlView' = SqlView /\ tables'.invoices = tables.invoices /\ sqlLogs' = sqlLogs]_vars

\* Outside a reset and a restart after a failed write, a log leaves a store only
\* when the store still has at least as many newer logs as it has to keep.
OnlyOldLogsAreTrimmed ==
    [][calls'["reset"] = calls["reset"] =>
         /\ unsaved = {} \/ calls'["restart"] = calls["restart"] =>
              \A t \in FileTimes(logs) \ FileTimes(logs') :
                 Cardinality({u \in FileTimes(logs') : u > t}) >= KeepLogs(db'.settings.keep)
         /\ \A t \in Times(sqlLogs) \ Times(sqlLogs') :
                 Cardinality({u \in Times(sqlLogs') : u > t}) >= KeepLogs(keepLogs')]_vars

\* While no write fails, a log that is said to have a captured payload has it in
\* either store, and SQLite has no payload without its log.
PayloadsFollowLogs ==
    faults = 0 =>
        /\ \A i \in 1..Len(logs) : logs[i].raw => logs[i].time \in debugFiles
        /\ \A l \in sqlLogs : l.raw => l.time \in payloads
        /\ payloads \subseteq Times(sqlLogs)

\* An account stored before and after has its provider afterwards if it had it.
ProvidersStay(providers, accounts, providers2, accounts2) ==
    \A a \in DOMAIN accounts \cap DOMAIN accounts2 :
        /\ accounts2[a].provider = accounts[a].provider
        /\ accounts[a].provider \in DOMAIN providers
        => accounts2[a].provider \in DOMAIN providers2

\* No call takes the provider from under an account that is still stored,
\* whichever of its statements fails; only SQLite's reset does, and a restart of
\* the file store that forgets a failed write.
NoNewOrphans ==
    [][/\ unsaved = {} \/ calls'["restart"] = calls["restart"] =>
            ProvidersStay(db.providers, db.accounts, db'.providers, db'.accounts)
       /\ calls'["reset"] = calls["reset"] =>
            ProvidersStay(tables.providers, tables.accounts, tables'.providers, tables'.accounts)]_vars

\* "Clear all data and seed the default state again" (templates/data.html:34):
\* no account is left after a reset that reports success.
ResetClearsAccounts ==
    [][calls'["reset"] # calls["reset"] /\ faults' = faults =>
         db'.accounts = Empty /\ tables'.accounts = Empty]_vars
================================================================================
