------------------------------- MODULE FileStore -------------------------------
(***************************************************************************)
(* The JSON-file store (internal/store/file.go): tables in memory, a main  *)
(* file and a log file written whole through a temporary file and a        *)
(* rename, and one file per captured debug payload.  Every method holds    *)
(* the mutex from its first to its last line, so a call is one step; a     *)
(* write that fails is the argument "wrote", and memory keeps the change.  *)
(***************************************************************************)
EXTENDS StoreRows

VARIABLES
    db,             \* the tables in memory
    mainFile,       \* sample-db.json
    logs,           \* request logs in memory, newest first
    logFile,        \* request-logs.json
    debugFiles,     \* logs with a debug payload file
    unsaved         \* a write failed and none of its file succeeded since

fileVars == <<db, mainFile, logs, logFile, debugFiles, unsaved>>

FileInit ==
    /\ db = [settings |-> DefaultSettings, providers |-> [p \in DOMAIN SeedProviders |->
               NormalizeProvider(SeedProviders[p])],
             accounts |-> Empty, proxies |-> Empty, invoices |-> Empty]
    /\ mainFile = db
    /\ logs = <<>> /\ logFile = <<>>
    /\ debugFiles = {} /\ unsaved = {}

\* Mutant: the file is written before memory changes.
SaveBeforeChange(new, wrote) ==
    /\ db' = new
    /\ mainFile' = IF wrote THEN db ELSE mainFile
    /\ unsaved' = IF wrote THEN unsaved \ {"main"} ELSE unsaved \cup {"main"}
    /\ UNCHANGED <<logs, logFile, debugFiles>>

\* saveLocked and saveRequestLogsLocked: the file is replaced, or left as it was.
Save(new, wrote) ==
    /\ db' = new
    /\ mainFile' = IF wrote THEN new ELSE mainFile
    /\ unsaved' = IF wrote THEN unsaved \ {"main"} ELSE unsaved \cup {"main"}
    /\ UNCHANGED <<logs, logFile, debugFiles>>

SaveLogs(new, wrote) ==
    /\ logs' = new
    /\ logFile' = IF wrote THEN new ELSE logFile
    /\ unsaved' = IF wrote THEN unsaved \ {"logs"} ELSE unsaved \cup {"logs"}
    /\ UNCHANGED <<db, mainFile>>

FileSaveSettings(s, wrote) ==
    Save([db EXCEPT !.settings =
            [NormalizeSettings(s) EXCEPT !.keys = PreserveAPIKeyUsage(@, db.settings.keys)]], wrote)

\* Adds the usage to the first entry of the id; an id nobody has is ignored.
AddUsage(keys, id, n) ==
    LET same == {i \in 1..Len(keys) : keys[i].id = id}
    IN  IF same = {} THEN keys
        ELSE [keys EXCEPT ![CHOOSE i \in same : \A j \in same : i <= j].used = @ + n]

FileRecordAPIKeyUsage(id, n, wrote) ==
    IF \E i \in 1..Len(db.settings.keys) : db.settings.keys[i].id = id
    THEN Save([db EXCEPT !.settings.keys = AddUsage(@, id, n)], wrote)
    ELSE UNCHANGED fileVars

FileUpsertProvider(id, p, wrote) ==
    Save([db EXCEPT !.providers = Put(@, id, NormalizeProvider(p))], wrote)

AccountsOf(accounts, provider) == {a \in DOMAIN accounts : accounts[a].provider = provider}

FileDeleteProvider(id, wrote) ==
    IF id \in DOMAIN db.providers
    THEN Save([db EXCEPT !.providers = Drop(@, {id}),
                         !.accounts = Drop(@, AccountsOf(@, id))], wrote)
    ELSE UNCHANGED fileVars

FileUpsertProviderAccount(id, a, wrote) ==
    Save([db EXCEPT !.accounts = Put(@, id, NormalizeProviderAccount(a))], wrote)

FileDeleteProviderAccount(id, wrote) ==
    IF id \in DOMAIN db.accounts
    THEN Save([db EXCEPT !.accounts = Drop(@, {id})], wrote)
    ELSE UNCHANGED fileVars

\* Mutant: a success leaves the cooldown.
AfterOutcomeCooling(a, success, cooldown) ==
    IF success THEN [a EXCEPT !.streak = 0]
    ELSE [a EXCEPT !.streak = @ + 1, !.cooldown = cooldown]

\* A success ends the failure streak and the cooldown.
AfterOutcome(a, success, cooldown) ==
    IF success THEN [a EXCEPT !.streak = 0, !.cooldown = 0]
    ELSE [a EXCEPT !.streak = @ + 1, !.cooldown = cooldown]

FileRecordOutcome(id, success, cooldown, wrote) ==
    IF id \in DOMAIN db.accounts
    THEN Save([db EXCEPT !.accounts[id] = AfterOutcome(@, success, cooldown)], wrote)
    ELSE UNCHANGED fileVars

FileUpsertProxy(id, x, wrote) == Save([db EXCEPT !.proxies = Put(@, id, x)], wrote)

FileDeleteProxy(id, wrote) ==
    IF id \in DOMAIN db.proxies
    THEN Save([db EXCEPT !.proxies = Drop(@, {id})], wrote)
    ELSE UNCHANGED fileVars

FileUpsertInvoice(id, v, wrote) ==
    Save([db EXCEPT !.invoices = Put(@, id, NormalizeInvoice(v))], wrote)

FileDeleteInvoice(id, wrote) ==
    IF id \in DOMAIN db.invoices
    THEN Save([db EXCEPT !.invoices = Drop(@, {id})], wrote)
    ELSE UNCHANGED fileVars

\* The payload goes to its own file first; when that fails the log is refused.
FileAddRequestLog(log, debugWrote, wrote) ==
    IF log.raw /\ ~debugWrote THEN UNCHANGED fileVars
    ELSE /\ debugFiles' = IF log.raw THEN debugFiles \cup {log.time} ELSE debugFiles
         /\ LET all == <<log>> \o logs
                keep == KeepLogs(db.settings.keep)
            IN  SaveLogs(IF Len(all) > keep THEN SubSeq(all, 1, keep) ELSE all, wrote)

\* Removes the files one by one, up to a failure; then the logs forget them.
FileDeleteDebugPayloads(removed, wrote) ==
    /\ debugFiles' = debugFiles \ removed
    /\ IF removed = debugFiles /\ \E i \in 1..Len(logs) : logs[i].raw
       THEN SaveLogs([i \in 1..Len(logs) |-> [logs[i] EXCEPT !.raw = FALSE]], wrote)
       ELSE UNCHANGED <<db, mainFile, logs, logFile, unsaved>>

\* The payload directory, memory, the main file and the log file, in this order;
\* "failed" is the step that returns the error.  The seeds are stored as they
\* are, without the normalisation of a later load.
FileReset(failed) ==
    IF failed = "debug" THEN UNCHANGED fileVars
    ELSE /\ debugFiles' = {}
         /\ db' = [settings |-> DefaultSettings, providers |-> SeedProviders, accounts |-> Empty,
                   proxies |-> Empty, invoices |-> Empty]
         /\ logs' = <<>>
         /\ mainFile' = IF failed = "main" THEN mainFile ELSE db'
         /\ logFile' = IF failed \in {"main", "logs"} THEN logFile ELSE <<>>
         /\ unsaved' = CASE failed = "main" -> {"main", "logs"}
                         [] failed = "logs" -> {"logs"}
                         [] OTHER           -> {}

\* Start: both files are read and normalised, a store without providers is
\* seeded, and both files are written back.
FileLoad ==
    /\ db' = [mainFile EXCEPT
                !.settings = NormalizeSettings(@),
                !.providers = LET rows == IF DOMAIN @ = {} THEN SeedProviders ELSE @
                              IN  [p \in DOMAIN rows |-> NormalizeProvider(rows[p])],
                !.accounts = [a \in {b \in DOMAIN @ : @[b].provider # ""} |->
                                NormalizeProviderAccount(@[a])],
                !.invoices = [v \in DOMAIN @ |-> NormalizeInvoice(@[v])]]
    /\ logs' = logFile
    /\ mainFile' = db'
    /\ unsaved' = {}
    /\ UNCHANGED <<logFile, debugFiles>>

(***************************************************************************)
(* What callers read.  A row bound to a proxy gets the URL of the proxy if *)
(* it exists and is enabled, and none otherwise.                           *)
(***************************************************************************)
ResolveProxy(row, proxies) ==
    IF row.proxyId = "" THEN row
    ELSE [row EXCEPT !.proxyUrl =
            IF row.proxyId \in DOMAIN proxies /\ proxies[row.proxyId].enabled
            THEN proxies[row.proxyId].url ELSE ""]

FileGetProvider(id) == ResolveProxy(db.providers[id], db.proxies)
FileGetProviderAccount(id) == ResolveProxy(db.accounts[id], db.proxies)
FileRecentLogs == [i \in 1..Len(logs) |-> logs[i].time]

\* Lists are sorted when they are read: by id, accounts by priority first.
FileListProviders == Listed(ById(DOMAIN db.providers), FileGetProvider)
FileListProxies == Listed(ById(DOMAIN db.proxies), LAMBDA x : db.proxies[x])

FileListProviderAccounts(provider) ==
    LET ids == AccountsOf(db.accounts, provider)
        Before(a, b) == IF db.accounts[a].priority # db.accounts[b].priority
                        THEN db.accounts[a].priority < db.accounts[b].priority
                        ELSE Place[a] < Place[b]
    IN  Listed(Sorted(ids, {p \in ids \X ids : Before(p[1], p[2])}), FileGetProviderAccount)

\* The payload's own file is looked for first, then what the log says of it.
FileHasDebugPayload(time) ==
    time \in debugFiles \/ \E i \in 1..Len(logs) : logs[i].time = time /\ logs[i].raw
================================================================================
