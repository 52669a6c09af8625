------------------------------ MODULE SqliteStore ------------------------------
(***************************************************************************)
(* The SQLite store (internal/store/sqlite.go).  A method is a few         *)
(* statements, each a step of the database; SQLite runs one writer at a    *)
(* time, and what is modelled is not their interleaving but that one of    *)
(* them fails: "failed" names the statement that returns the error, and    *)
(* those before it have taken effect unless they share a transaction.      *)
(***************************************************************************)
EXTENDS StoreRows

VARIABLES
    tables,         \* settings (at most row 1), providers, accounts, proxies, invoices
    sqlLogs,        \* request_logs
    payloads,       \* request_debug_payloads, by the log's id
    keepLogs,       \* the retention bound kept beside the settings row
    sinceGC         \* logs added since the last retention

sqlVars == <<tables, sqlLogs, payloads, keepLogs, sinceGC>>

\* The settings table of a first start.
DefaultRow == [row \in {1} |-> NormalizeSettings(DefaultSettings)]

\* Rows in a fixed but arbitrary order, as the seeding loop visits them.
FirstSeeds(n) == CHOOSE ids \in SUBSET DOMAIN SeedProviders : Cardinality(ids) = n
Seeds(ids) == [p \in ids |-> NormalizeProvider(SeedProviders[p])]

SqlInit ==
    /\ tables = [settings |-> DefaultRow,
                 providers |-> Seeds(DOMAIN SeedProviders),
                 accounts |-> Empty, proxies |-> Empty, invoices |-> Empty]
    /\ sqlLogs = {} /\ payloads = {}
    /\ keepLogs = DefaultSettings.keep
    /\ sinceGC = 0

\* One statement that replaces tables, or fails and leaves them.
Exec(new, failed) ==
    /\ tables' = IF failed = "none" THEN new ELSE tables
    /\ UNCHANGED <<sqlLogs, payloads, keepLogs, sinceGC>>

SqlGetSettings ==
    IF 1 \in DOMAIN tables.settings THEN NormalizeSettings(tables.settings[1]) ELSE DefaultSettings

\* The usage to preserve is looked up before the keys get their missing ids;
\* when the stored settings cannot be read, the usage sent is stored.
SqlSaveSettings(s, failed) ==
    LET kept == IF failed = "read" THEN s.keys
                ELSE PreserveAPIKeyUsage(s.keys, SqlGetSettings.keys)
        row  == NormalizeSettings([s EXCEPT !.keys = kept])
    IN  IF failed = "write" THEN UNCHANGED sqlVars
        ELSE /\ tables' = [tables EXCEPT !.settings = Put(@, 1, row)]
             /\ keepLogs' = row.keep
             /\ UNCHANGED <<sqlLogs, payloads, sinceGC>>

\* In a transaction: the row as stored, usage added to the first entry of the id.
SqlRecordAPIKeyUsage(id, n, failed) ==
    LET same == IF 1 \in DOMAIN tables.settings
                THEN {i \in 1..Len(tables.settings[1].keys) : tables.settings[1].keys[i].id = id}
                ELSE {}
        first == CHOOSE i \in same : \A j \in same : i <= j
    IN  IF same = {} THEN UNCHANGED sqlVars
        ELSE Exec([tables EXCEPT !.settings[1].keys[first].used = @ + n], failed)

SqlUpsertProvider(id, p, failed) ==
    Exec([tables EXCEPT !.providers = Put(@, id, NormalizeProvider(p))], failed)

\* Mutant: the provider is deleted first.
SqlDeleteProviderFirst(id, failed) ==
    LET gone == {a \in DOMAIN tables.accounts : tables.accounts[a].provider = id}
    IN  /\ tables' = CASE failed = "providers" -> tables
                       [] failed = "accounts"  -> [tables EXCEPT !.providers = Drop(@, {id})]
                       [] OTHER -> [tables EXCEPT !.accounts = Drop(@, gone),
                                                  !.providers = Drop(@, {id})]
        /\ UNCHANGED <<sqlLogs, payloads, keepLogs, sinceGC>>

\* Two statements: the accounts first, so that a failure leaves no orphan.
SqlDeleteProvider(id, failed) ==
    LET gone == {a \in DOMAIN tables.accounts : tables.accounts[a].provider = id}
    IN  /\ tables' = CASE failed = "accounts"  -> tables
                       [] failed = "providers" -> [tables EXCEPT !.accounts = Drop(@, gone)]
                       [] OTHER -> [tables EXCEPT !.accounts = Drop(@, gone),
                                                  !.providers = Drop(@, {id})]
        /\ UNCHANGED <<sqlLogs, payloads, keepLogs, sinceGC>>

SqlUpsertProviderAccount(id, a, failed) ==
    Exec([tables EXCEPT !.accounts = Put(@, id, NormalizeProviderAccount(a))], failed)

SqlDeleteProviderAccount(id, failed) ==
    Exec([tables EXCEPT !.accounts = Drop(@, {id})], failed)

\* One UPDATE: a success ends streak and cooldown, a failure extends them.
SqlRecordOutcome(id, success, cooldown, failed) ==
    IF id \notin DOMAIN tables.accounts THEN UNCHANGED sqlVars
    ELSE LET a == tables.accounts[id]
         IN  Exec([tables EXCEPT !.accounts[id] =
                [a EXCEPT !.streak = IF success THEN 0 ELSE a.streak + 1,
                          !.cooldown = IF success THEN 0 ELSE cooldown]], failed)

SqlUpsertProxy(id, x, failed) == Exec([tables EXCEPT !.proxies = Put(@, id, x)], failed)
SqlDeleteProxy(id, failed) == Exec([tables EXCEPT !.proxies = Drop(@, {id})], failed)

\* The statement names 16 columns and gives 17 values: SQLite refuses it.
SqlUpsertInvoice(id, v) == UNCHANGED sqlVars
SqlDeleteInvoice(id, failed) == Exec([tables EXCEPT !.invoices = Drop(@, {id})], failed)

Times(records) == {l.time : l \in records}
Newer(l, records) == {k \in records : k.time > l.time}

\* Mutant: one log too few is kept.
NewestOffByOne(n, records) == {l \in records : Cardinality(Newer(l, records)) < n - 1}

Newest(n, records) == {l \in records : Cardinality(Newer(l, records)) < n}

\* Mutant: the payloads are swept before the logs are trimmed.
RetainSweepsFirst(records, blobs, n, failed) ==
    /\ sqlLogs' = IF failed = "trim" THEN records ELSE Newest(n, records)
    /\ payloads' = IF failed \in {"trim", "sweep"} THEN blobs ELSE blobs \cap Times(records)

\* Two statements: the logs beyond the newest n, then payloads without a log.
Retain(records, blobs, n, failed) ==
    LET left == IF failed = "trim" THEN records ELSE Newest(n, records)
    IN  /\ sqlLogs' = left
        /\ payloads' = IF failed \in {"trim", "sweep"} THEN blobs ELSE blobs \cap Times(left)

Bound == KeepLogs(keepLogs)

\* The payload first, then the log; every min(256, keep) logs a retention,
\* whose failure is the error of the log that caused it.
SqlAddRequestLog(log, failed) ==
    LET blobs == IF log.raw THEN payloads \cup {log.time} ELSE payloads
        due   == sinceGC + 1 >= AtMost(256, Bound)
    IN  /\ CASE failed = "payload" -> UNCHANGED <<sqlLogs, payloads, sinceGC>>
             [] failed = "log"     -> payloads' = blobs /\ UNCHANGED <<sqlLogs, sinceGC>>
             [] OTHER -> IF due
                         THEN Retain(sqlLogs \cup {log}, blobs, Bound, failed) /\ sinceGC' = 0
                         ELSE /\ sqlLogs' = sqlLogs \cup {log} /\ payloads' = blobs
                              /\ sinceGC' = sinceGC + 1
        /\ UNCHANGED <<tables, keepLogs>>

\* A read trims first when logs came in since the last retention.
SqlRecentLogs(failed) ==
    /\ sinceGC > 0
    /\ Retain(sqlLogs, payloads, Bound, failed)
    /\ sinceGC' = IF failed = "none" THEN 0 ELSE sinceGC
    /\ UNCHANGED <<tables, keepLogs>>

SqlDeleteDebugPayloads(failed) ==
    /\ payloads' = IF failed = "payload" THEN payloads ELSE {}
    /\ sqlLogs' = IF failed = "none" THEN {[l EXCEPT !.raw = FALSE] : l \in sqlLogs} ELSE sqlLogs
    /\ UNCHANGED <<tables, keepLogs, sinceGC>>

\* One transaction empties every table but provider_accounts; then the
\* default settings and the seeds are inserted statement by statement.
SqlReset(failed, seeded) ==
    IF failed = "tx" THEN UNCHANGED sqlVars
    ELSE /\ tables' = [tables EXCEPT
              !.settings = IF failed = "settings" THEN Empty
                           ELSE DefaultRow,
              !.providers = CASE failed = "settings" -> Empty
                              [] failed = "seed"     -> Seeds(FirstSeeds(seeded))
                              [] OTHER               -> Seeds(DOMAIN SeedProviders),
              !.proxies = Empty, !.invoices = Empty]
         /\ sqlLogs' = {} /\ payloads' = {}
         /\ keepLogs' = IF failed = "settings" THEN keepLogs ELSE DefaultSettings.keep
         /\ UNCHANGED sinceGC

\* Start: the tables exist; settings and seeds are added where there are none.
SqlOpen ==
    /\ tables' = [tables EXCEPT
         !.settings = IF 1 \in DOMAIN @ THEN @ ELSE DefaultRow,
         !.providers = IF DOMAIN @ = {} THEN Seeds(DOMAIN SeedProviders) ELSE @]
    /\ keepLogs' = (IF 1 \in DOMAIN tables.settings THEN SqlGetSettings ELSE DefaultSettings).keep
    /\ sinceGC' = 0
    /\ UNCHANGED <<sqlLogs, payloads>>

(***************************************************************************)
(* What callers read.  scanProvider does not decode the hidden models.     *)
(***************************************************************************)
EnabledProxies == {x \in DOMAIN tables.proxies : tables.proxies[x].enabled}

WithProxyURL(row) ==
    IF row.proxyId = "" THEN row
    ELSE [row EXCEPT !.proxyUrl = IF row.proxyId \in EnabledProxies
                                  THEN tables.proxies[row.proxyId].url ELSE ""]

SqlGetProvider(id) ==
    WithProxyURL(NormalizeProvider([tables.providers[id] EXCEPT !.hidden = <<>>]))
SqlGetProviderAccount(id) == WithProxyURL(NormalizeProviderAccount(tables.accounts[id]))

\* SELECT ... ORDER BY id; accounts by provider, priority and id, which for the
\* one provider asked for is by priority and id.
SqlListProviders == Listed(ById(DOMAIN tables.providers), SqlGetProvider)
SqlListProxies == Listed(ById(DOMAIN tables.proxies), LAMBDA x : tables.proxies[x])

SqlListProviderAccounts(provider) ==
    LET ids == {a \in DOMAIN tables.accounts : tables.accounts[a].provider = provider}
        Priority(a) == tables.accounts[a].priority
        Before(a, b) == \/ Priority(a) < Priority(b)
                        \/ Priority(a) = Priority(b) /\ Place[a] < Place[b]
    IN  Listed(Sorted(ids, {p \in ids \X ids : Before(p[1], p[2])}), SqlGetProviderAccount)

SqlHasDebugPayload(time) == time \in payloads
================================================================================
