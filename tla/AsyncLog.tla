-------------------------------- MODULE AsyncLog --------------------------------
(***************************************************************************)
(* AsyncLogStore: request logs leave the response path through a bounded   *)
(* channel; one worker goroutine writes them in batches; a full or closed  *)
(* channel makes the caller write by itself; Flush and Close drain the     *)
(* channel at shutdown.  The wrapped store is SQLiteStore, which takes a   *)
(* batch in one call and is closed, or FileStore, which takes one log at a *)
(* time and has no Close.                                                  *)
(*                                                                         *)
(* A step is what one holder of AsyncLogStore.mu does, one operation on    *)
(* the channel, or one call of the wrapped store (serialised by its own    *)
(* mutex).                                                                 *)
(***************************************************************************)
EXTENDS Integers, Sequences, FiniteSets

CONSTANTS
    Logs,           \* request logs; each is added by one handler, once
    Capacity,       \* buffer of the channel
    BatchLimit,     \* cap(batch)
    Backends,       \* which of "sqlite" and "file" may be configured
    Faults          \* TRUE: a write of the store may fail

ASSUME AsyncLogConstants ==
    /\ Capacity \in Nat \ {0} /\ BatchLimit \in Nat \ {0}
    /\ Backends \subseteq {"sqlite", "file"}
    /\ Faults \in BOOLEAN

VARIABLES
    backend,        \* the store behind the wrapper
    storeOpen,      \* the store has not been closed
    queue,          \* ch
    closed,         \* closed and ch are closed (one critical section)
    caller,         \* log -> where the handler that adds it stands
    worker,         \* where the worker stands, and whether a write of it failed
    batch,          \* the worker's batch, less what it has written
    outcome,        \* log -> what the store made of it
    failures,       \* writeFailures
    closer          \* where main's deferred close function stands

vars == <<backend, storeOpen, queue, closed, caller, worker, batch, outcome,
          failures, closer>>

\* "skipped": its batch was given up before its turn; "late": the store was closed.
Lost == {"refused", "skipped", "late"}

\* "unsaved": a FileStore has the log in memory and could not save its file.
Outcomes == {"undecided", "kept", "unsaved"} \cup Lost

\* Types; and neither the channel nor a batch exceeds its capacity.
TypeOK ==
    /\ backend \in Backends /\ storeOpen \in BOOLEAN /\ closed \in BOOLEAN
    /\ queue \in Seq(Logs) /\ Len(queue) <= Capacity
    /\ batch \in Seq(Logs) /\ Len(batch) <= BatchLimit
    /\ caller \in [Logs -> {"new", "sync", "returned"}]
    /\ worker \in [pc : {"receive", "collect", "write", "stopped"}, err : BOOLEAN]
    /\ outcome \in [Logs -> Outcomes]
    /\ failures \in Nat
    /\ closer \in {"running", "waiting", "flushed", "done"}

Init ==
    /\ backend \in Backends
    /\ storeOpen = TRUE
    /\ queue = <<>>
    /\ closed = FALSE
    /\ caller = [l \in Logs |-> "new"]
    /\ worker = [pc |-> "receive", err |-> FALSE]
    /\ batch = <<>>
    /\ outcome = [l \in Logs |-> "undecided"]
    /\ failures = 0
    /\ closer = "running"

--------------------------------------------------------------------------------
(***************************************************************************)
(* Handlers.                                                               *)
(***************************************************************************)
\* Fault: the channel is taken for unbounded by one.
AddRequestLogOverfull(l) ==
    /\ caller[l] = "new"
    /\ IF ~closed /\ Len(queue) <= Capacity
       THEN /\ queue' = Append(queue, l)
            /\ caller' = [caller EXCEPT ![l] = "returned"]
       ELSE /\ caller' = [caller EXCEPT ![l] = "sync"]
            /\ UNCHANGED queue
    /\ UNCHANGED <<backend, storeOpen, closed, worker, batch, outcome, failures, closer>>

\* AddRequestLog under mu: buffered if the channel is open and has room; otherwise
\* the caller will write the log itself.
AddRequestLog(l) ==
    /\ caller[l] = "new"
    /\ IF ~closed /\ Len(queue) < Capacity
       THEN /\ queue' = Append(queue, l)
            /\ caller' = [caller EXCEPT ![l] = "returned"]
       ELSE /\ caller' = [caller EXCEPT ![l] = "sync"]
            /\ UNCHANGED queue
    /\ UNCHANGED <<backend, storeOpen, closed, worker, batch, outcome, failures, closer>>

Result(fate, err) == [fate |-> fate, err |-> err]

\* What one write of the store can come to, and whether it returns an error.  An error
\* need not mean a loss: SQLite's retention may fail after the row went in, and a
\* FileStore prepends the log to those in memory before it saves them.
WriteResults ==
    IF ~storeOpen THEN {Result("late", TRUE)}
    ELSE {Result("kept", FALSE)} \cup
         (IF ~Faults THEN {}
          ELSE {Result("refused", TRUE),
                Result(IF backend = "sqlite" THEN "kept" ELSE "unsaved", TRUE)})

\* The outcomes once log l was written with result r: a FileStore that saves its file
\* saves every log it has in memory.
Written(l, r) ==
    [k \in Logs |-> IF k = l THEN r.fate
                    ELSE IF outcome[k] = "unsaved" /\ ~r.err THEN "kept" ELSE outcome[k]]

\* Fault: the caller's own failed write is not counted.
WriteSyncUncounted(l) ==
    /\ caller[l] = "sync"
    /\ \E result \in WriteResults : outcome' = Written(l, result)
    /\ caller' = [caller EXCEPT ![l] = "returned"]
    /\ UNCHANGED <<backend, storeOpen, queue, closed, worker, batch, failures, closer>>

\* writeSync.
WriteSync(l) ==
    /\ caller[l] = "sync"
    /\ \E result \in WriteResults :
         /\ outcome' = Written(l, result)
         /\ failures' = IF result.err THEN failures + 1 ELSE failures
    /\ caller' = [caller EXCEPT ![l] = "returned"]
    /\ UNCHANGED <<backend, storeOpen, queue, closed, worker, batch, closer>>

--------------------------------------------------------------------------------
(***************************************************************************)
(* The worker.                                                             *)
(***************************************************************************)
\* range a.ch: the first log of a batch.
Receive ==
    /\ worker.pc = "receive" /\ queue # <<>>
    /\ batch' = <<Head(queue)>>
    /\ queue' = Tail(queue)
    /\ worker' = [pc |-> "collect", err |-> FALSE]
    /\ UNCHANGED <<backend, storeOpen, closed, caller, outcome, failures, closer>>

\* Fault: a log is taken into the batch and left in the channel.
CollectWithoutTaking ==
    /\ worker.pc = "collect" /\ queue # <<>> /\ Len(batch) < BatchLimit
    /\ batch' = Append(batch, Head(queue))
    /\ UNCHANGED <<backend, storeOpen, queue, closed, caller, worker, outcome, failures,
                   closer>>

\* The batch grows as long as the channel has something and the batch has room.
Collect ==
    /\ worker.pc = "collect" /\ queue # <<>> /\ Len(batch) < BatchLimit
    /\ batch' = Append(batch, Head(queue))
    /\ queue' = Tail(queue)
    /\ UNCHANGED <<backend, storeOpen, closed, caller, worker, outcome, failures, closer>>

\* writeBatch begins.  (A worker that found the channel closed returns after the
\* write; here it finds the channel closed and empty again and stops.)
StartWrite ==
    /\ worker.pc = "collect"
    /\ queue = <<>> \/ Len(batch) = BatchLimit
    /\ worker' = [worker EXCEPT !.pc = "write"]
    /\ UNCHANGED <<backend, storeOpen, queue, closed, caller, batch, outcome, failures,
                   closer>>

\* SQLiteStore.AddRequestLogs, in one critical section of logMu: the first n logs are
\* kept; the next one's write returns an error, whether or not its row went in, and
\* the rest of the batch is given up.
WriteBatchSQLite ==
    /\ worker.pc = "write" /\ backend = "sqlite"
    /\ \E n \in 0..Len(batch), result \in WriteResults :
         /\ (n < Len(batch)) = result.err
         /\ outcome' = [l \in Logs |->
                          IF \E i \in 1..n : batch[i] = l THEN "kept"
                          ELSE IF n < Len(batch) /\ batch[n + 1] = l THEN result.fate
                          ELSE IF \E i \in (n + 2)..Len(batch) : batch[i] = l THEN "skipped"
                          ELSE outcome[l]]
         /\ failures' = IF result.err THEN failures + 1 ELSE failures
    /\ batch' = <<>>
    /\ worker' = [worker EXCEPT !.pc = "receive"]
    /\ UNCHANGED <<backend, storeOpen, queue, closed, caller, closer>>

\* writeBatch over a store without batches writes every log, whatever became of the
\* one before ...
WriteOneFile ==
    /\ worker.pc = "write" /\ backend = "file" /\ batch # <<>>
    /\ \E result \in WriteResults :
         /\ outcome' = Written(Head(batch), result)
         /\ worker' = [worker EXCEPT !.err = @ \/ result.err]
    /\ batch' = Tail(batch)
    /\ UNCHANGED <<backend, storeOpen, queue, closed, caller, failures, closer>>

\* ... and counts one failure for the batch.
FinishBatchFile ==
    /\ worker.pc = "write" /\ backend = "file" /\ batch = <<>>
    /\ failures' = IF worker.err THEN failures + 1 ELSE failures
    /\ worker' = [pc |-> "receive", err |-> FALSE]
    /\ UNCHANGED <<backend, storeOpen, queue, closed, caller, batch, outcome, closer>>

\* Fault: the worker stops as soon as the channel is closed.
StopUndrained ==
    /\ worker.pc = "receive" /\ closed
    /\ worker' = [worker EXCEPT !.pc = "stopped"]
    /\ UNCHANGED <<backend, storeOpen, queue, closed, caller, batch, outcome, failures,
                   closer>>

\* range ends when the channel is closed and empty.
Stop ==
    /\ worker.pc = "receive" /\ closed /\ queue = <<>>
    /\ worker' = [worker EXCEPT !.pc = "stopped"]
    /\ UNCHANGED <<backend, storeOpen, queue, closed, caller, batch, outcome, failures,
                   closer>>

--------------------------------------------------------------------------------
(***************************************************************************)
(* Shutdown.                                                               *)
(***************************************************************************)
\* Flush: both channels are closed under mu ...
BeginFlush ==
    /\ closer = "running"
    /\ closer' = "waiting" /\ closed' = TRUE
    /\ UNCHANGED <<backend, storeOpen, queue, caller, worker, batch, outcome, failures>>

\* Fault: Flush does not wait.
EndFlushAtOnce ==
    /\ closer = "waiting"
    /\ closer' = "flushed"
    /\ UNCHANGED <<backend, storeOpen, queue, closed, caller, worker, batch, outcome,
                   failures>>

\* ... and the worker is waited for.
EndFlush ==
    /\ closer = "waiting" /\ worker.pc = "stopped"
    /\ closer' = "flushed"
    /\ UNCHANGED <<backend, storeOpen, queue, closed, caller, worker, batch, outcome,
                   failures>>

\* Close goes on to close the SQLite store.  Handlers may still be running: the
\* server was closed after ShutdownTimeout without waiting for them.
CloseStore ==
    /\ closer = "flushed"
    /\ closer' = "done"
    /\ storeOpen' = (backend # "sqlite")
    /\ UNCHANGED <<backend, queue, closed, caller, worker, batch, outcome, failures>>

WorkerStep ==
    Receive \/ Collect \/ StartWrite \/ WriteBatchSQLite \/ WriteOneFile
      \/ FinishBatchFile \/ Stop

CloserStep == EndFlush \/ CloseStore

Next ==
    \/ \E l \in Logs : AddRequestLog(l) \/ WriteSync(l)
    \/ WorkerStep \/ BeginFlush \/ CloserStep

\* The worker runs, and a shutdown that has begun goes on.
Fairness == WF_vars(WorkerStep) /\ WF_vars(CloserStep)

Spec == Init /\ [][Next]_vars /\ Fairness

--------------------------------------------------------------------------------
(***************************************************************************)
(* Properties.                                                             *)
(***************************************************************************)
Occurrences(l, s) == Cardinality({i \in DOMAIN s : s[i] = l})

\* A log is in one place: with its caller, in the channel, in the worker's batch, or
\* decided.  So none is written twice, and none vanishes between two of them.
Conserved ==
    \A l \in Logs :
        LET held    == IF caller[l] # "returned" THEN 1 ELSE 0
            decided == IF outcome[l] # "undecided" THEN 1 ELSE 0
        IN  held + Occurrences(l, queue) + Occurrences(l, batch) + decided = 1

\* A shutdown does not overtake the worker: a log that was buffered (its caller never
\* wrote it) is not refused because the store was closed first.
BufferedBeforeClose ==
    ~storeOpen => worker.pc = "stopped" /\ queue = <<>> /\ batch = <<>>

\* Health does not hide a loss: outside a write, a failure counter of zero means that
\* every log the store was given is stored, in SQLite or in the log file.  The converse
\* is false: a failed retention is counted and loses no log, and a log that a FileStore
\* could not save is in its file once a later write succeeds.
LossIsCounted ==
    worker.pc # "write" /\ failures = 0 =>
        \A l \in Logs : outcome[l] \in {"undecided", "kept"}

\* Every step of the wrapper is one of LogSink's: buffered logs are decided in the end,
\* once, but for logs in memory that are saved later, and the store is closed only
\* after the last of them.
Sink == INSTANCE LogSink WITH
    fate <- [l \in Logs |-> IF outcome[l] = "kept" THEN "kept"
                            ELSE IF outcome[l] = "unsaved" THEN "held"
                            ELSE IF outcome[l] \in Lost THEN "lost"
                            ELSE IF caller[l] = "returned" THEN "buffered" ELSE "new"],
    sink <- IF closer = "running" THEN "open"
            ELSE IF closer = "done" THEN "closed" ELSE "draining"

ImplementsLogSink == Sink!SinkSpec

\* "Logs are never intentionally dropped" (async_log.go): each log that was handed over
\* is at least offered to the store.
EveryLogIsOffered == \A l \in Logs : outcome[l] # "skipped"
================================================================================
