----------------------------- MODULE AsyncLogProofs -----------------------------
(***************************************************************************)
(* Proofs about AsyncLog, for any set of logs, any capacity and batch      *)
(* size, on either store.                                                  *)
(***************************************************************************)
EXTENDS AsyncLog, SequenceTheorems, FiniteSetTheorems, TLAPS

\* What the closing goroutine may rely on at each of its steps, and what the worker
\* holds where: the conjuncts that make BufferedBeforeClose inductive.
ShutdownOrder ==
    /\ closer # "running" => closed
    /\ closer \in {"flushed", "done"} => worker.pc = "stopped"
    /\ ~storeOpen => closer = "done" /\ backend = "sqlite"
    /\ worker.pc = "stopped" => closed /\ queue = <<>>
    /\ worker.pc \in {"receive", "stopped"} => batch = <<>>

\* Only a FileStore has logs in memory that are not in its file.
SqliteHoldsNone == backend = "sqlite" => \A l \in Logs : outcome[l] # "unsaved"

\* The inductive invariant.
IInv == TypeOK /\ ShutdownOrder /\ SqliteHoldsNone

\* What a write of the store comes to.
LEMMA ResultIs ==
    ASSUME NEW r \in WriteResults
    PROVE  /\ r.fate \in Outcomes \ {"undecided"} /\ r.err \in BOOLEAN
           /\ ~r.err => r.fate = "kept"
           /\ backend = "sqlite" => r.fate # "unsaved"
           /\ backend = "file" /\ storeOpen /\ r.fate = "kept" => ~r.err
<1>1. CASE r = Result("late", TRUE)
  <2>1. r.fate = "late" /\ r.err = TRUE
    BY <1>1 DEF Result
  <2> QED BY <2>1 DEF Outcomes, Lost
<1>2. CASE r = Result("kept", FALSE)
  <2>1. r.fate = "kept" /\ r.err = FALSE
    BY <1>2 DEF Result
  <2> QED BY <2>1 DEF Outcomes, Lost
<1>3. CASE r = Result("refused", TRUE)
  <2>1. r.fate = "refused" /\ r.err = TRUE
    BY <1>3 DEF Result
  <2> QED BY <2>1 DEF Outcomes, Lost
<1>4. CASE backend = "sqlite" /\ r = Result("kept", TRUE)
  <2>1. r.fate = "kept" /\ r.err = TRUE /\ backend # "file"
    BY <1>4 DEF Result
  <2> QED BY <2>1 DEF Outcomes, Lost
<1>5. CASE backend # "sqlite" /\ r = Result("unsaved", TRUE)
  <2>1. r.fate = "unsaved" /\ r.err = TRUE
    BY <1>5 DEF Result
  <2> QED BY <1>5, <2>1 DEF Outcomes, Lost
<1> QED BY <1>1, <1>2, <1>3, <1>4, <1>5 DEF WriteResults

\* What the logs have come to after a write of one of them.
LEMMA WrittenIs ==
    ASSUME NEW x \in Logs, NEW r, outcome' = Written(x, r)
    PROVE  /\ outcome'[x] = r.fate
           /\ \A l \in Logs \ {x} :
                 outcome'[l] = IF outcome[l] = "unsaved" /\ ~r.err THEN "kept" ELSE outcome[l]
  BY DEF Written

LEMMA InvInit == Init => IInv
<1> SUFFICES ASSUME Init PROVE TypeOK /\ ShutdownOrder /\ SqliteHoldsNone
  BY DEF IInv
<1>1. queue = <<>> /\ batch = <<>> /\ Len(queue) <= Capacity /\ Len(batch) <= BatchLimit
  BY EmptySeq, AsyncLogConstants DEF Init
<1>2. queue \in Seq(Logs) /\ batch \in Seq(Logs)
  BY <1>1, EmptySeq
<1>3. worker \in [pc : {"receive", "collect", "write", "stopped"}, err : BOOLEAN]
  BY DEF Init
<1>4. TypeOK
  BY <1>1, <1>2, <1>3 DEF Init, TypeOK, Outcomes
<1>5. ShutdownOrder /\ SqliteHoldsNone
  BY DEF Init, ShutdownOrder, SqliteHoldsNone
<1> QED BY <1>4, <1>5

LEMMA InvStep == IInv /\ [Next]_vars => IInv'
<1> SUFFICES ASSUME IInv, [Next]_vars PROVE IInv'
  OBVIOUS
<1> USE AsyncLogConstants DEF IInv, TypeOK, ShutdownOrder, SqliteHoldsNone
<1>1. ASSUME NEW l \in Logs, AddRequestLog(l) PROVE IInv'
  <2>1. CASE ~closed /\ Len(queue) < Capacity
    <3>1. queue' = Append(queue, l) /\ caller' = [caller EXCEPT ![l] = "returned"]
      BY <1>1, <2>1 DEF AddRequestLog
    <3>2. queue' \in Seq(Logs) /\ Len(queue') = Len(queue) + 1 /\ Len(queue) \in Nat
      BY <3>1, AppendProperties, LenProperties
    <3>3. worker.pc # "stopped"
      BY <2>1
    <3> QED BY <1>1, <2>1, <3>1, <3>2, <3>3 DEF AddRequestLog
  <2>2. CASE ~(~closed /\ Len(queue) < Capacity)
    BY <1>1, <2>2 DEF AddRequestLog
  <2> QED BY <2>1, <2>2
<1>2. ASSUME NEW l \in Logs, WriteSync(l) PROVE IInv'
  <2>1. PICK r \in WriteResults : outcome' = Written(l, r) /\ failures' = IF r.err THEN failures + 1 ELSE failures
    BY <1>2 DEF WriteSync
  <2>2. /\ caller' = [caller EXCEPT ![l] = "returned"]
        /\ UNCHANGED <<backend, storeOpen, queue, closed, worker, batch, closer>>
    BY <1>2 DEF WriteSync
  <2>3. outcome' \in [Logs -> Outcomes] /\ SqliteHoldsNone'
    <3>1. r.fate \in Outcomes /\ (backend = "sqlite" => r.fate # "unsaved")
      BY ResultIs
    <3> QED BY <2>1, <2>2, <3>1 DEF Written, Outcomes
  <2>4. failures' \in Nat
    BY <2>1, ResultIs
  <2> QED BY <2>2, <2>3, <2>4
<1>3. CASE Receive
  BY <1>3 DEF Receive
<1>4. CASE Collect
  BY <1>4 DEF Collect
<1>5. CASE StartWrite
  BY <1>5 DEF StartWrite
<1>6. CASE WriteBatchSQLite
  <2>1. PICK n \in 0..Len(batch), r \in WriteResults :
          /\ outcome' = [l \in Logs |->
                           IF \E i \in 1..n : batch[i] = l THEN "kept"
                           ELSE IF n < Len(batch) /\ batch[n + 1] = l THEN r.fate
                           ELSE IF \E i \in (n + 2)..Len(batch) : batch[i] = l THEN "skipped"
                           ELSE outcome[l]]
          /\ failures' = IF r.err THEN failures + 1 ELSE failures
    BY <1>6 DEF WriteBatchSQLite
  <2>2. /\ batch' = <<>> /\ worker' = [worker EXCEPT !.pc = "receive"] /\ worker.pc = "write"
        /\ UNCHANGED <<backend, storeOpen, queue, closed, caller, closer>>
    BY <1>6 DEF WriteBatchSQLite
  <2>3. outcome' \in [Logs -> Outcomes] /\ SqliteHoldsNone'
    <3>1. r.fate \in Outcomes /\ (backend = "sqlite" => r.fate # "unsaved")
      BY ResultIs
    <3> QED BY <2>1, <2>2, <3>1 DEF Outcomes, Lost
  <2>4. failures' \in Nat
    BY <2>1, ResultIs
  <2> QED BY <2>2, <2>3, <2>4
<1>7. CASE WriteOneFile
  <2>1. PICK r \in WriteResults : /\ outcome' = Written(Head(batch), r)
                                  /\ worker' = [worker EXCEPT !.err = worker.err \/ r.err]
    BY <1>7 DEF WriteOneFile
  <2>2. /\ batch # <<>> /\ batch' = Tail(batch) /\ worker.pc = "write"
        /\ UNCHANGED <<backend, storeOpen, queue, closed, caller, failures, closer>>
    BY <1>7 DEF WriteOneFile
  <2>3. outcome' \in [Logs -> Outcomes] /\ SqliteHoldsNone'
    <3>1. r.fate \in Outcomes /\ (backend = "sqlite" => r.fate # "unsaved")
      BY ResultIs
    <3> QED BY <2>1, <2>2, <3>1 DEF Written, Outcomes
  <2>4. worker' \in [pc : {"receive", "collect", "write", "stopped"}, err : BOOLEAN] /\ worker'.pc = "write"
    BY <2>1, <2>2, ResultIs
  <2> QED BY <2>2, <2>3, <2>4
<1>8. CASE FinishBatchFile
  BY <1>8 DEF FinishBatchFile
<1>9. CASE Stop
  BY <1>9 DEF Stop
<1>10. CASE BeginFlush
  BY <1>10 DEF BeginFlush
<1>11. CASE EndFlush
  BY <1>11 DEF EndFlush
<1>12. CASE CloseStore
  BY <1>12 DEF CloseStore
<1>13. CASE UNCHANGED vars
  BY <1>13 DEF vars
<1> QED
  BY <1>1, <1>2, <1>3, <1>4, <1>5, <1>6, <1>7, <1>8, <1>9, <1>10, <1>11, <1>12, <1>13
  DEF Next, WorkerStep, CloserStep

LEMMA Invariance == Spec => []IInv
BY InvInit, InvStep, PTL DEF Spec

\* Types, the capacity of the channel and the size of a batch among them.
THEOREM TypeCorrect == Spec => []TypeOK
<1>1. IInv => TypeOK
  BY DEF IInv
<1> QED BY <1>1, Invariance, PTL

\* The store is never closed under a log that was buffered.
THEOREM BufferedLogsPrecedeClose == Spec => []BufferedBeforeClose
<1>1. IInv => BufferedBeforeClose
  BY DEF IInv, TypeOK, ShutdownOrder, BufferedBeforeClose
<1> QED BY <1>1, Invariance, PTL

--------------------------------------------------------------------------------
(***************************************************************************)
(* Where a log is.                                                         *)
(***************************************************************************)
In(l, s) == \E i \in 1..Len(s) : s[i] = l
Once(s) == \A i, j \in 1..Len(s) : s[i] = s[j] => i = j
Held(l) == caller[l] # "returned"
Decided(l) == outcome[l] # "undecided"

\* A log is in exactly one place: with its caller, in the channel, in the batch, or
\* decided.
OnePlace(l) ==
    /\ Held(l) \/ Decided(l) \/ In(l, queue) \/ In(l, batch)
    /\ In(l, queue) => ~In(l, batch) /\ ~Held(l) /\ ~Decided(l)
    /\ In(l, batch) => ~Held(l) /\ ~Decided(l)
    /\ Held(l) => ~Decided(l)

Places == Once(queue) /\ Once(batch) /\ \A l \in Logs : OnePlace(l)

\* A failure is counted when it happens, or at the end of a batch of files.
NoLoss == \A l \in Logs : outcome[l] \in {"undecided", "kept"}
Counted ==
    /\ worker.err => worker.pc = "write" /\ backend = "file"
    /\ failures = 0 /\ ~worker.err => NoLoss

LEMMA InAppend ==
    ASSUME NEW s \in Seq(Logs), NEW x \in Logs
    PROVE  /\ \A l : In(l, Append(s, x)) <=> In(l, s) \/ l = x
           /\ Once(s) /\ ~In(x, s) => Once(Append(s, x))
<1> DEFINE t == Append(s, x)
<1>1. Len(t) = Len(s) + 1 /\ Len(s) \in Nat /\ t[Len(s) + 1] = x /\ \A i \in 1..Len(s) : t[i] = s[i]
  BY AppendProperties, LenProperties
<1> HIDE DEF t
<1>2. ASSUME NEW l PROVE In(l, t) <=> In(l, s) \/ l = x
  <2>1. ASSUME In(l, t) PROVE In(l, s) \/ l = x
    <3>1. PICK i \in 1..Len(t) : t[i] = l
      BY <2>1 DEF In
    <3>2. i \in 1..Len(s) \/ i = Len(s) + 1
      BY <1>1
    <3> QED BY <1>1, <3>1, <3>2 DEF In
  <2>2. ASSUME In(l, s) PROVE In(l, t)
    <3>1. PICK i \in 1..Len(s) : s[i] = l
      BY <2>2 DEF In
    <3>2. i \in 1..Len(t) /\ t[i] = l
      BY <1>1, <3>1
    <3> QED BY <3>2 DEF In
  <2>3. ASSUME l = x PROVE In(l, t)
    <3>1. Len(s) + 1 \in 1..Len(t)
      BY <1>1
    <3> QED BY <1>1, <2>3, <3>1 DEF In
  <2> QED BY <2>1, <2>2, <2>3
<1>3. ASSUME Once(s), ~In(x, s) PROVE Once(t)
  <2> SUFFICES ASSUME NEW i \in 1..Len(t), NEW j \in 1..Len(t), t[i] = t[j] PROVE i = j
    BY DEF Once
  <2>1. (i \in 1..Len(s) \/ i = Len(s) + 1) /\ (j \in 1..Len(s) \/ j = Len(s) + 1)
    BY <1>1
  <2>2. CASE i \in 1..Len(s) /\ j \in 1..Len(s)
    BY <1>1, <1>3, <2>2 DEF Once
  <2>3. CASE i \in 1..Len(s) /\ j = Len(s) + 1
    BY <1>1, <1>3, <2>3 DEF In
  <2>4. CASE i = Len(s) + 1 /\ j \in 1..Len(s)
    BY <1>1, <1>3, <2>4 DEF In
  <2> QED BY <2>1, <2>2, <2>3, <2>4
<1> QED BY <1>2, <1>3 DEF t

LEMMA InTail ==
    ASSUME NEW s \in Seq(Logs), s # <<>>
    PROVE  /\ \A l : In(l, s) <=> l = Head(s) \/ In(l, Tail(s))
           /\ Once(s) => Once(Tail(s)) /\ ~In(Head(s), Tail(s))
<1> DEFINE t == Tail(s)
<1>1. /\ Len(s) \in Nat /\ Len(s) > 0 /\ Len(t) = Len(s) - 1 /\ Head(s) = s[1]
      /\ \A i \in 1..Len(t) : t[i] = s[i + 1]
  BY HeadTailProperties, EmptySeq, LenProperties
<1> HIDE DEF t
<1>2. ASSUME NEW l PROVE In(l, s) <=> l = Head(s) \/ In(l, t)
  <2>1. ASSUME In(l, s) PROVE l = Head(s) \/ In(l, t)
    <3>1. PICK i \in 1..Len(s) : s[i] = l
      BY <2>1 DEF In
    <3>2. CASE i = 1
      BY <1>1, <3>1, <3>2
    <3>3. CASE i # 1
      <4>1. i - 1 \in 1..Len(t) /\ (i - 1) + 1 = i
        BY <1>1, <3>3
      <4>2. t[i - 1] = l
        BY <1>1, <3>1, <4>1
      <4> QED BY <4>1, <4>2 DEF In
    <3> QED BY <3>2, <3>3
  <2>2. ASSUME In(l, t) PROVE In(l, s)
    <3>1. PICK i \in 1..Len(t) : t[i] = l
      BY <2>2 DEF In
    <3>2. i + 1 \in 1..Len(s) /\ s[i + 1] = l
      BY <1>1, <3>1
    <3> QED BY <3>2 DEF In
  <2>3. ASSUME l = Head(s) PROVE In(l, s)
    <3>1. 1 \in 1..Len(s)
      BY <1>1
    <3> QED BY <1>1, <2>3, <3>1 DEF In
  <2> QED BY <2>1, <2>2, <2>3
<1>3. ASSUME Once(s) PROVE Once(t) /\ ~In(Head(s), t)
  <2>1. ASSUME NEW i \in 1..Len(t) PROVE i + 1 \in 1..Len(s) /\ 1 \in 1..Len(s) /\ i + 1 # 1
    BY <1>1
  <2>2. Once(t)
    <3> SUFFICES ASSUME NEW i \in 1..Len(t), NEW j \in 1..Len(t), t[i] = t[j] PROVE i = j
      BY DEF Once
    <3>1. s[i + 1] = s[j + 1]
      BY <1>1
    <3>2. i + 1 = j + 1
      BY <1>3, <2>1, <3>1 DEF Once
    <3> QED BY <3>2
  <2>3. ~In(Head(s), t)
    <3> SUFFICES ASSUME NEW i \in 1..Len(t), t[i] = Head(s) PROVE FALSE
      BY DEF In
    <3>1. s[i + 1] = s[1]
      BY <1>1
    <3> QED BY <1>3, <2>1, <3>1 DEF Once
  <2> QED BY <2>2, <2>3
<1> QED BY <1>2, <1>3 DEF t

LEMMA InEmpty == ASSUME NEW s, s = <<>> PROVE Once(s) /\ \A l : ~In(l, s)
<1>1. Len(s) = 0
  OBVIOUS
<1> QED BY <1>1 DEF Once, In

\* What a write of a batch comes to, whichever the log whose write fails.
LEMMA BatchWritten ==
    ASSUME IInv, WriteBatchSQLite
    PROVE  /\ \A l \in Logs : ~In(l, batch) => outcome'[l] = outcome[l]
           /\ \A l \in Logs : In(l, batch) => outcome'[l] \in {"kept"} \cup Lost
           /\ \/ failures' = failures /\ \A l \in Logs : In(l, batch) => outcome'[l] = "kept"
              \/ failures' = failures + 1
<1> DEFINE Fate(n, result) == [l \in Logs |->
                 IF \E i \in 1..n : batch[i] = l THEN "kept"
                 ELSE IF n < Len(batch) /\ batch[n + 1] = l THEN result.fate
                 ELSE IF \E i \in (n + 2)..Len(batch) : batch[i] = l THEN "skipped"
                 ELSE outcome[l]]
<1>1. PICK n \in 0..Len(batch), result \in WriteResults :
        /\ (n < Len(batch)) = result.err
        /\ outcome' = Fate(n, result)
        /\ failures' = IF result.err THEN failures + 1 ELSE failures
  BY DEF WriteBatchSQLite
<1>2. batch \in Seq(Logs) /\ Len(batch) \in Nat /\ n \in Nat /\ n <= Len(batch)
  BY LenProperties DEF IInv, TypeOK
<1>3. result.fate \in {"kept"} \cup Lost /\ "skipped" \in Lost
  BY ResultIs DEF WriteBatchSQLite, Outcomes, Lost
<1>4. ASSUME NEW l \in Logs
      PROVE  outcome'[l] = IF \E i \in 1..n : batch[i] = l THEN "kept"
                           ELSE IF n < Len(batch) /\ batch[n + 1] = l THEN result.fate
                           ELSE IF \E i \in (n + 2)..Len(batch) : batch[i] = l THEN "skipped"
                           ELSE outcome[l]
  BY <1>1
<1> HIDE DEF Fate
<1>5. ASSUME NEW l \in Logs, ~In(l, batch) PROVE outcome'[l] = outcome[l]
  <2>1. ~\E i \in 1..n : batch[i] = l
    BY <1>2, <1>5 DEF In
  <2>2. ~(n < Len(batch) /\ batch[n + 1] = l)
    BY <1>2, <1>5 DEF In
  <2>3. ~\E i \in (n + 2)..Len(batch) : batch[i] = l
    BY <1>2, <1>5 DEF In
  <2> QED BY <1>4, <2>1, <2>2, <2>3
<1>6. ASSUME NEW l \in Logs, In(l, batch)
      PROVE  outcome'[l] \in {"kept"} \cup Lost /\ (n = Len(batch) => outcome'[l] = "kept")
  <2>1. PICK i \in 1..Len(batch) : batch[i] = l
    BY <1>6 DEF In
  <2>2. i \in 1..n \/ (n < Len(batch) /\ i = n + 1) \/ i \in (n + 2)..Len(batch)
    BY <1>2
  <2>3. n = Len(batch) => i \in 1..n
    BY <1>2
  <2> QED BY <1>3, <1>4, <2>1, <2>2, <2>3
<1>7. CASE n = Len(batch)
  <2>1. ~result.err
    BY <1>1, <1>2, <1>7, ResultIs
  <2> QED BY <1>1, <1>5, <1>6, <1>7, <2>1
<1>8. CASE n # Len(batch)
  <2>1. result.err
    BY <1>1, <1>2, <1>8, ResultIs
  <2> QED BY <1>1, <1>5, <1>6, <2>1
<1> QED BY <1>7, <1>8

\* The invariant that says where every log is and what was counted.
Kept == IInv /\ Places /\ Counted

LEMMA KeptInit == Init => Kept
<1> SUFFICES ASSUME Init PROVE Kept
  OBVIOUS
<1>1. Places
  BY InEmpty DEF Init, Places, OnePlace, Held, Decided
<1>2. Counted
  BY DEF Init, Counted, NoLoss
<1> QED BY <1>1, <1>2, InvInit DEF Kept

\* Only one log changes its place, or none does.
LEMMA OnlyOneMoves ==
    ASSUME Places, Once(queue'), Once(batch'), NEW x \in Logs, OnePlace(x)',
           \A l \in Logs \ {x} : /\ In(l, queue') <=> In(l, queue)
                                 /\ In(l, batch') <=> In(l, batch)
                                 /\ caller'[l] = caller[l] /\ (Decided(l)' <=> Decided(l))
    PROVE  Places'
<1>1. ASSUME NEW l \in Logs, l # x PROVE OnePlace(l)'
  BY <1>1 DEF Places, OnePlace, Held, Decided
<1> QED BY <1>1 DEF Places

\* A write without an error leaves nothing lost or in memory only.
LEMMA CountedWrite ==
    ASSUME NEW x \in Logs, NEW r, outcome' = Written(x, r), ~r.err => r.fate = "kept", NoLoss, ~r.err
    PROVE  NoLoss'
  BY WrittenIs DEF NoLoss

LEMMA KeptStep == Kept /\ [Next]_vars => Kept'
<1> SUFFICES ASSUME Kept, [Next]_vars PROVE Kept'
  OBVIOUS
<1>0. IInv' /\ IInv /\ Places /\ Counted
  BY InvStep DEF Kept
<1> SUFFICES Places' /\ Counted'
  BY <1>0 DEF Kept
<1>a. /\ queue \in Seq(Logs) /\ batch \in Seq(Logs) /\ failures \in Nat
      /\ DOMAIN caller = Logs /\ DOMAIN outcome = Logs /\ "undecided" \notin Lost
  BY <1>0 DEF IInv, TypeOK, Lost
<1>1. ASSUME NEW l \in Logs, AddRequestLog(l) PROVE Places' /\ Counted'
  <2>1. caller[l] = "new" /\ UNCHANGED <<batch, outcome, worker, failures, backend>>
    BY <1>1 DEF AddRequestLog
  <2>2. Counted'
    BY <1>0, <2>1 DEF Counted, NoLoss
  <2>3. ~Decided(l) /\ ~In(l, queue) /\ ~In(l, batch)
    BY <1>0, <2>1 DEF Places, OnePlace, Held
  <2>4. CASE queue' = Append(queue, l) /\ caller' = [caller EXCEPT ![l] = "returned"]
    <3>1. (\A k : In(k, queue') <=> In(k, queue) \/ k = l) /\ Once(queue')
      BY <1>0, <1>a, <2>3, <2>4, InAppend DEF Places
    <3>2. OnePlace(l)'
      BY <1>a, <2>1, <2>3, <2>4, <3>1 DEF OnePlace, Held, Decided
    <3>3. Once(batch')
      BY <1>0, <2>1 DEF Places
    <3> QED BY <1>0, <1>a, <2>1, <2>2, <2>4, <3>1, <3>2, <3>3, OnlyOneMoves DEF Decided
  <2>5. CASE UNCHANGED queue /\ caller' = [caller EXCEPT ![l] = "sync"]
    <3>1. OnePlace(l)'
      BY <1>a, <2>1, <2>3, <2>5 DEF OnePlace, Held, Decided
    <3>2. Once(queue') /\ Once(batch')
      BY <1>0, <2>1, <2>5 DEF Places
    <3> QED BY <1>0, <1>a, <2>1, <2>2, <2>5, <3>1, <3>2, OnlyOneMoves DEF Decided
  <2> QED BY <1>1, <2>4, <2>5 DEF AddRequestLog
<1>2. ASSUME NEW l \in Logs, WriteSync(l) PROVE Places' /\ Counted'
  <2>1. PICK r \in WriteResults :
          /\ outcome' = Written(l, r)
          /\ failures' = IF r.err THEN failures + 1 ELSE failures
    BY <1>2 DEF WriteSync
  <2>2. /\ caller[l] = "sync" /\ caller' = [caller EXCEPT ![l] = "returned"]
        /\ UNCHANGED <<queue, batch, worker, backend>>
    BY <1>2 DEF WriteSync
  <2>3. r.fate # "undecided" /\ r.err \in BOOLEAN /\ (~r.err => r.fate = "kept")
    BY ResultIs
  <2>4. outcome[l] = "undecided" /\ ~In(l, queue) /\ ~In(l, batch)
    BY <1>0, <2>2 DEF Places, OnePlace, Held, Decided
  <2>5. outcome'[l] = r.fate /\ \A k \in Logs \ {l} : Decided(k)' <=> Decided(k)
    BY <2>1, WrittenIs DEF Decided
  <2>6. OnePlace(l)'
    BY <1>a, <2>2, <2>3, <2>4, <2>5 DEF OnePlace, Held, Decided
  <2>7. Once(queue') /\ Once(batch')
    BY <1>0, <2>2 DEF Places
  <2>8. Places'
    BY <1>0, <1>a, <2>2, <2>5, <2>6, <2>7, OnlyOneMoves
  <2>9. Counted'
    <3>1. NoLoss /\ ~r.err => NoLoss'
      BY <2>1, <2>3, CountedWrite
    <3>2. failures' = 0 => failures = 0 /\ ~r.err
      BY <1>a, <2>1, <2>3
    <3> QED BY <1>0, <2>2, <3>1, <3>2 DEF Counted
  <2> QED BY <2>8, <2>9
<1>3. CASE Receive
  <2>1. /\ queue # <<>> /\ batch = <<>> /\ batch' = Append(<<>>, Head(queue)) /\ queue' = Tail(queue)
        /\ UNCHANGED <<caller, outcome, failures, backend>> /\ worker.pc = "receive"
        /\ worker' = [pc |-> "collect", err |-> FALSE]
    BY <1>0, <1>3 DEF Receive, IInv, ShutdownOrder
  <2>0. PICK x : x = Head(queue)
    OBVIOUS
  <2>2. x \in Logs /\ <<>> \in Seq(Logs)
    BY <1>a, <2>0, <2>1, HeadTailProperties, EmptySeq
  <2>3. /\ \A l : In(l, queue) <=> l = x \/ In(l, queue')
        /\ Once(queue') /\ ~In(x, queue')
    BY <1>0, <1>a, <2>0, <2>1, InTail DEF Places
  <2>4. (\A l : In(l, batch') <=> l = x) /\ Once(batch') /\ \A l : ~In(l, batch)
    BY <2>0, <2>1, <2>2, InAppend, InEmpty
  <2>5. OnePlace(x)'
    BY <1>0, <2>1, <2>2, <2>3, <2>4 DEF Places, OnePlace, Held, Decided
  <2>6. Places'
    BY <1>0, <2>1, <2>2, <2>3, <2>4, <2>5, OnlyOneMoves DEF Decided
  <2>7. Counted'
    BY <1>0, <2>1 DEF Counted, NoLoss
  <2> QED BY <2>6, <2>7
<1>4. CASE Collect
  <2>1. /\ queue # <<>> /\ batch' = Append(batch, Head(queue)) /\ queue' = Tail(queue)
        /\ UNCHANGED <<caller, outcome, failures, backend, worker>>
    BY <1>4 DEF Collect
  <2>0. PICK x : x = Head(queue)
    OBVIOUS
  <2>2. x \in Logs
    BY <1>a, <2>0, <2>1, HeadTailProperties
  <2>3. /\ \A l : In(l, queue) <=> l = x \/ In(l, queue')
        /\ Once(queue') /\ ~In(x, queue')
    BY <1>0, <1>a, <2>0, <2>1, InTail DEF Places
  <2>4. ~In(x, batch)
    BY <1>0, <2>2, <2>3 DEF Places, OnePlace
  <2>5. (\A l : In(l, batch') <=> In(l, batch) \/ l = x) /\ Once(batch')
    BY <1>0, <1>a, <2>0, <2>1, <2>2, <2>4, InAppend DEF Places
  <2>6. OnePlace(x)'
    BY <1>0, <2>1, <2>2, <2>3, <2>5 DEF Places, OnePlace, Held, Decided
  <2>7. Places'
    BY <1>0, <2>1, <2>2, <2>3, <2>5, <2>6, OnlyOneMoves DEF Decided
  <2>8. Counted'
    BY <1>0, <2>1 DEF Counted, NoLoss
  <2> QED BY <2>7, <2>8
<1>5. CASE StartWrite
  BY <1>0, <1>5 DEF StartWrite, IInv, TypeOK, Places, OnePlace, Held, Decided, Counted, NoLoss
<1>6. CASE WriteBatchSQLite
  <2>1. /\ \A l \in Logs : ~In(l, batch) => outcome'[l] = outcome[l]
        /\ \A l \in Logs : In(l, batch) => outcome'[l] \in {"kept"} \cup Lost
        /\ \/ failures' = failures /\ \A l \in Logs : In(l, batch) => outcome'[l] = "kept"
           \/ failures' = failures + 1
    BY <1>0, <1>6, BatchWritten
  <2>2. /\ batch' = <<>> /\ UNCHANGED <<queue, caller, backend>> /\ backend = "sqlite"
        /\ worker' = [worker EXCEPT !.pc = "receive"]
    BY <1>6 DEF WriteBatchSQLite
  <2>3. Once(batch') /\ \A l : ~In(l, batch')
    BY <2>2, InEmpty
  <2>4. "undecided" \notin {"kept"} \cup Lost /\ "kept" \notin Lost
    BY DEF Lost
  <2>5. ASSUME NEW l \in Logs PROVE OnePlace(l)'
    <3>1. OnePlace(l)
      BY <1>0 DEF Places
    <3>2. CASE In(l, batch)
      BY <2>1, <2>2, <2>3, <2>4, <3>1, <3>2 DEF OnePlace, Held, Decided
    <3>3. CASE ~In(l, batch)
      BY <2>1, <2>2, <2>3, <3>1, <3>3 DEF OnePlace, Held, Decided
    <3> QED BY <3>2, <3>3
  <2>6. Places'
    BY <1>0, <2>2, <2>3, <2>5 DEF Places
  <2>7. ~worker.err /\ ~worker'.err
    <3>1. ~worker.err
      BY <1>0, <2>2 DEF Counted
    <3> QED BY <1>0, <2>2, <3>1 DEF IInv, TypeOK
  <2>8. CASE failures' = failures /\ \A l \in Logs : In(l, batch) => outcome'[l] = "kept"
    <3>1. NoLoss => NoLoss'
      BY <2>1, <2>8 DEF NoLoss
    <3> QED BY <1>0, <2>6, <2>7, <2>8, <3>1 DEF Counted
  <2>9. CASE failures' = failures + 1
    <3>1. failures' # 0
      BY <1>a, <2>9
    <3> QED BY <2>6, <2>7, <3>1 DEF Counted
  <2> QED BY <2>1, <2>8, <2>9
<1>7. CASE WriteOneFile
  <2>0. PICK x : x = Head(batch)
    OBVIOUS
  <2>1. PICK r \in WriteResults :
          /\ outcome' = Written(x, r)
          /\ worker' = [worker EXCEPT !.err = worker.err \/ r.err]
    BY <1>7, <2>0 DEF WriteOneFile
  <2>2. /\ batch # <<>> /\ batch' = Tail(batch) /\ worker.pc = "write" /\ backend = "file"
        /\ UNCHANGED <<queue, caller, failures, backend>>
    BY <1>7 DEF WriteOneFile
  <2>3. r.fate # "undecided" /\ r.err \in BOOLEAN /\ (~r.err => r.fate = "kept")
    BY ResultIs
  <2>4. x \in Logs
    BY <1>a, <2>0, <2>2, HeadTailProperties
  <2>5. /\ \A l : In(l, batch) <=> l = x \/ In(l, batch')
        /\ Once(batch') /\ ~In(x, batch')
    BY <1>0, <1>a, <2>0, <2>2, InTail DEF Places
  <2>6. outcome[x] = "undecided" /\ ~Held(x) /\ ~In(x, queue)
    BY <1>0, <2>4, <2>5 DEF Places, OnePlace, Decided
  <2>7. outcome'[x] = r.fate /\ \A k \in Logs \ {x} : Decided(k)' <=> Decided(k)
    BY <2>1, <2>4, WrittenIs DEF Decided
  <2>8. OnePlace(x)'
    BY <1>a, <2>2, <2>3, <2>5, <2>6, <2>7 DEF OnePlace, Held, Decided
  <2>9. Places'
    <3>1. Once(queue')
      BY <1>0, <2>2 DEF Places
    <3> QED BY <1>0, <1>a, <2>2, <2>4, <2>5, <2>7, <2>8, <3>1, OnlyOneMoves
  <2>10. worker'.pc = "write" /\ worker'.err = (worker.err \/ r.err)
    BY <1>0, <2>1, <2>2 DEF IInv, TypeOK
  <2>11. NoLoss /\ ~r.err => NoLoss'
    BY <2>1, <2>3, <2>4, CountedWrite
  <2>12. Counted'
    BY <1>0, <2>2, <2>3, <2>10, <2>11 DEF Counted
  <2> QED BY <2>9, <2>12
<1>8. CASE FinishBatchFile
  <2>1. /\ failures' = (IF worker.err THEN failures + 1 ELSE failures)
        /\ worker' = [pc |-> "receive", err |-> FALSE] /\ UNCHANGED <<queue, batch, caller, outcome, backend>>
    BY <1>8 DEF FinishBatchFile
  <2>2. Places'
    BY <1>0, <2>1 DEF Places, OnePlace, Held, Decided
  <2>3. failures' = 0 => failures = 0 /\ ~worker.err
    BY <1>a, <2>1
  <2>4. Counted'
    BY <1>0, <2>1, <2>3 DEF Counted, NoLoss
  <2> QED BY <2>2, <2>4
<1>9. CASE Stop
  BY <1>0, <1>9 DEF Stop, IInv, TypeOK, Places, OnePlace, Held, Decided, Counted, NoLoss
<1>10. CASE BeginFlush
  BY <1>0, <1>10 DEF BeginFlush, Places, OnePlace, Held, Decided, Counted, NoLoss
<1>11. CASE EndFlush
  BY <1>0, <1>11 DEF EndFlush, Places, OnePlace, Held, Decided, Counted, NoLoss
<1>12. CASE CloseStore
  BY <1>0, <1>12 DEF CloseStore, Places, OnePlace, Held, Decided, Counted, NoLoss
<1>13. CASE UNCHANGED vars
  BY <1>0, <1>13 DEF vars, Places, OnePlace, Held, Decided, Counted, NoLoss
<1> QED
  BY <1>1, <1>2, <1>3, <1>4, <1>5, <1>6, <1>7, <1>8, <1>9, <1>10, <1>11, <1>12, <1>13
  DEF Next, WorkerStep, CloserStep

LEMMA KeptAlways == Spec => []Kept
BY KeptInit, KeptStep, PTL DEF Spec

\* A sequence without repetition holds a log once or not at all.
LEMMA OccurrencesOf ==
    ASSUME NEW s \in Seq(Logs), Once(s), NEW l
    PROVE  Occurrences(l, s) = IF In(l, s) THEN 1 ELSE 0
<1> DEFINE places == {i \in DOMAIN s : s[i] = l}
<1>1. DOMAIN s = 1..Len(s)
  BY LenProperties
<1>2. CASE In(l, s)
  <2>1. PICK i \in 1..Len(s) : s[i] = l
    BY <1>2 DEF In
  <2>2. places = {i}
    BY <1>1, <2>1 DEF Once
  <2> QED BY <1>2, <2>2, FS_Singleton DEF Occurrences
<1>3. CASE ~In(l, s)
  <2>1. places = {}
    BY <1>1, <1>3 DEF In
  <2> QED BY <1>3, <2>1, FS_EmptySet DEF Occurrences
<1> QED BY <1>2, <1>3

\* No log is written twice and none vanishes between its caller, the channel, the
\* batch and the store.
THEOREM LogsAreConserved == Spec => []Conserved
<1>1. Kept => Conserved
  <2> SUFFICES ASSUME Kept, NEW l \in Logs
               PROVE  LET held    == IF caller[l] # "returned" THEN 1 ELSE 0
                          decided == IF outcome[l] # "undecided" THEN 1 ELSE 0
                      IN  held + Occurrences(l, queue) + Occurrences(l, batch) + decided = 1
    BY DEF Conserved
  <2>1. /\ Occurrences(l, queue) = IF In(l, queue) THEN 1 ELSE 0
        /\ Occurrences(l, batch) = IF In(l, batch) THEN 1 ELSE 0
    BY OccurrencesOf DEF Kept, Places, IInv, TypeOK
  <2>2. OnePlace(l)
    BY DEF Kept, Places
  <2> QED BY <2>1, <2>2 DEF OnePlace, Held, Decided
<1> QED BY <1>1, KeptAlways, PTL

\* Outside a write, a failure counter of zero means that every log the store was given
\* is stored, in SQLite or in the log file.
THEOREM LossesAreCounted == Spec => []LossIsCounted
<1>1. Kept => LossIsCounted
  BY DEF Kept, Counted, NoLoss, LossIsCounted
<1> QED BY <1>1, KeptAlways, PTL

--------------------------------------------------------------------------------
(***************************************************************************)
(* Every step is one of LogSink's, or none.                                *)
(***************************************************************************)
FateOf(l) == IF outcome[l] = "kept" THEN "kept"
             ELSE IF outcome[l] = "unsaved" THEN "held"
             ELSE IF outcome[l] \in Lost THEN "lost"
             ELSE IF caller[l] = "returned" THEN "buffered" ELSE "new"
SinkNow == IF closer = "running" THEN "open"
           ELSE IF closer = "done" THEN "closed" ELSE "draining"

LEMMA SinkStarts == Init => Sink!SinkInit
  BY DEF Init, Sink!SinkInit, Lost

\* Where nothing that LogSink sees changes.
LEMMA SinkStutters ==
    ASSUME \A l \in Logs : FateOf(l)' = FateOf(l), SinkNow' = SinkNow
    PROVE  UNCHANGED Sink!sinkVars
  BY DEF Sink!sinkVars, FateOf, SinkNow

\* Some logs are written, and with one that is kept those held in memory are.
LEMMA SinkWrites ==
    ASSUME NEW S, S \subseteq Logs, \A l \in S : FateOf(l)' \in {"kept", "held", "lost"},
           \A l \in Logs \ S : FateOf(l)' = IF FateOf(l) = "held" /\ \E k \in S : FateOf(k)' = "kept"
                                          THEN "kept" ELSE FateOf(l)
    PROVE  Sink!Write(S)
<1> DEFINE fate == [l \in Logs |-> FateOf(l)]
           fate2 == [l \in Logs |-> FateOf(l)']
           to == [l \in S |-> FateOf(l)']
           After(t) == [l \in Logs |->
                          IF l \in S THEN t[l]
                          ELSE IF fate[l] = "held" /\ \E k \in S : t[k] = "kept" THEN "kept"
                          ELSE fate[l]]
<1>1. to \in [S -> {"kept", "held", "lost"}]
  OBVIOUS
<1>2. fate2 = After(to)
  <2>1. ASSUME NEW l \in Logs
        PROVE  fate2[l] = IF l \in S THEN to[l]
                          ELSE IF fate[l] = "held" /\ \E k \in S : to[k] = "kept" THEN "kept"
                          ELSE fate[l]
    OBVIOUS
  <2> HIDE DEF fate2, to, fate
  <2>2. fate2 = [l \in Logs |-> fate2[l]]
    BY DEF fate2
  <2> QED BY <2>1, <2>2
<1>3. \E t \in [S -> {"kept", "held", "lost"}] : fate2 = After(t)
  <2> HIDE DEF fate2, to, After
  <2> QED BY <1>1, <1>2
<1> QED BY <1>3 DEF Sink!Write, FateOf

\* A write of one log, as LogSink sees it.
LEMMA SinkWritesOne ==
    ASSUME NEW x \in Logs, NEW r \in WriteResults, outcome' = Written(x, r), SqliteHoldsNone,
           backend \in {"sqlite", "file"}, storeOpen \/ backend = "sqlite",
           caller' = [caller EXCEPT ![x] = "returned"] \/ UNCHANGED caller, DOMAIN caller = Logs
    PROVE  Sink!Write({x})
<1>1. /\ outcome'[x] = r.fate
      /\ \A l \in Logs \ {x} :
            outcome'[l] = IF outcome[l] = "unsaved" /\ ~r.err THEN "kept" ELSE outcome[l]
  BY WrittenIs
<1>2. /\ r.fate \in {"kept", "unsaved"} \cup Lost
      /\ ~r.err => r.fate = "kept"
      /\ (\E l \in Logs : outcome[l] = "unsaved") /\ r.fate = "kept" => ~r.err
  BY ResultIs DEF Outcomes, SqliteHoldsNone
<1>3. FateOf(x)' \in {"kept", "held", "lost"} /\ (FateOf(x)' = "kept" <=> r.fate = "kept")
  BY <1>1, <1>2 DEF FateOf, Lost
<1>4. ASSUME NEW l \in Logs \ {x}
      PROVE  FateOf(l)' = IF FateOf(l) = "held" /\ FateOf(x)' = "kept" THEN "kept" ELSE FateOf(l)
  <2>1. caller'[l] = caller[l]
    OBVIOUS
  <2>2. CASE outcome[l] = "unsaved"
    BY <1>1, <1>2, <1>3, <2>2 DEF FateOf
  <2>3. CASE outcome[l] # "unsaved"
    BY <1>1, <2>1, <2>3 DEF FateOf
  <2> QED BY <2>2, <2>3
<1>5. PICK S : S = {x}
  OBVIOUS
<1>6. /\ S \subseteq Logs /\ \A l \in S : FateOf(l)' \in {"kept", "held", "lost"}
      /\ \A l \in Logs \ S : FateOf(l)' = IF FateOf(l) = "held" /\ \E k \in S : FateOf(k)' = "kept"
                                        THEN "kept" ELSE FateOf(l)
  BY <1>3, <1>4, <1>5
<1>7. Sink!Write(S)
  BY <1>6, SinkWrites
<1> QED BY <1>5, <1>7

LEMMA SinkStep == Kept /\ [Next]_vars => [Sink!SinkNext]_Sink!sinkVars
<1> SUFFICES ASSUME Kept, [Next]_vars PROVE Sink!SinkNext \/ UNCHANGED Sink!sinkVars
  OBVIOUS
<1>0. IInv /\ Places
  BY DEF Kept
<1>a. /\ queue \in Seq(Logs) /\ batch \in Seq(Logs) /\ DOMAIN caller = Logs /\ DOMAIN outcome = Logs
      /\ "undecided" \notin Lost /\ "kept" \notin Lost
  BY <1>0 DEF IInv, TypeOK, Lost
<1>c. backend \in {"sqlite", "file"} /\ (storeOpen \/ backend = "sqlite")
  BY <1>0, AsyncLogConstants DEF IInv, TypeOK, ShutdownOrder
<1>b. ASSUME NEW l \in Logs, In(l, batch) PROVE FateOf(l) = "buffered" /\ outcome[l] = "undecided" /\ caller[l] = "returned"
  BY <1>0, <1>a, <1>b DEF Places, OnePlace, Held, Decided, FateOf
<1>1. ASSUME NEW l \in Logs, AddRequestLog(l) PROVE Sink!SinkNext \/ UNCHANGED Sink!sinkVars
  <2>1. caller[l] = "new" /\ UNCHANGED <<outcome, closer>>
    BY <1>1 DEF AddRequestLog
  <2>2. outcome[l] = "undecided" /\ FateOf(l) = "new"
    BY <1>0, <1>a, <2>1 DEF Places, OnePlace, Held, Decided, FateOf
  <2>3. CASE ~closed /\ caller' = [caller EXCEPT ![l] = "returned"]
    <3>1. closer = "running"
      BY <1>0, <2>3 DEF IInv, TypeOK, ShutdownOrder
    <3>2. FateOf(l)' = "buffered" /\ \A k \in Logs \ {l} : FateOf(k)' = FateOf(k)
      BY <1>a, <2>1, <2>2, <2>3 DEF FateOf
    <3>3. Sink!Buffer(l)
      BY <2>1, <2>2, <3>1, <3>2 DEF Sink!Buffer, FateOf, SinkNow
    <3> QED BY <3>3 DEF Sink!SinkNext
  <2>4. CASE caller' = [caller EXCEPT ![l] = "sync"]
    <3>1. \A k \in Logs : FateOf(k)' = FateOf(k)
      BY <1>a, <2>1, <2>4 DEF FateOf
    <3>2. SinkNow' = SinkNow
      BY <2>1 DEF SinkNow
    <3> QED BY <3>1, <3>2, SinkStutters
  <2> QED BY <1>1, <2>3, <2>4 DEF AddRequestLog
<1>2. ASSUME NEW l \in Logs, WriteSync(l) PROVE Sink!SinkNext
  <2>1. PICK r \in WriteResults : outcome' = Written(l, r)
    BY <1>2 DEF WriteSync
  <2>2. caller[l] = "sync" /\ caller' = [caller EXCEPT ![l] = "returned"] /\ UNCHANGED closer
    BY <1>2 DEF WriteSync
  <2>3. FateOf(l) = "new"
    BY <1>0, <1>a, <2>2 DEF Places, OnePlace, Held, Decided, FateOf
  <2>4. Sink!Write({l})
    BY <1>0, <1>a, <1>c, <2>1, <2>2, SinkWritesOne DEF IInv
  <2>5. SinkNow' = SinkNow
    BY <2>2 DEF SinkNow
  <2>6. Sink!WriteThrough(l)
    BY <2>3, <2>4, <2>5 DEF Sink!WriteThrough, FateOf, SinkNow
  <2> QED BY <2>6 DEF Sink!SinkNext
<1>3. ASSUME UNCHANGED <<outcome, caller, closer>> PROVE UNCHANGED Sink!sinkVars
  BY <1>3 DEF Sink!sinkVars
<1>4. CASE WriteBatchSQLite
  <2>1. /\ \A l \in Logs : ~In(l, batch) => outcome'[l] = outcome[l]
        /\ \A l \in Logs : In(l, batch) => outcome'[l] \in {"kept"} \cup Lost
    BY <1>0, <1>4, BatchWritten
  <2>2. UNCHANGED <<caller, closer>> /\ SinkNow' = SinkNow
    BY <1>4 DEF WriteBatchSQLite, SinkNow
  <2> DEFINE S == {l \in Logs : In(l, batch)}
  <2>3. \A l \in S : FateOf(l) = "buffered" /\ FateOf(l)' \in {"kept", "held", "lost"}
    BY <1>b, <2>1 DEF FateOf
  <2>4. \A l \in Logs \ S : FateOf(l)' = FateOf(l) /\ FateOf(l) # "held"
    <3>1. backend = "sqlite"
      BY <1>4 DEF WriteBatchSQLite
    <3> QED BY <1>0, <2>1, <2>2, <3>1 DEF FateOf, IInv, SqliteHoldsNone
  <2>5. PICK T : T = S
    OBVIOUS
  <2>6. CASE T = {}
    <3>1. \A l \in Logs : FateOf(l)' = FateOf(l)
      BY <2>4, <2>5, <2>6
    <3> QED BY <2>2, <3>1, SinkStutters
  <2>7. CASE T # {}
    <3>1. T \subseteq Logs /\ (\A l \in T : FateOf(l)' \in {"kept", "held", "lost"})
          /\ \A l \in Logs \ T : FateOf(l)' = IF FateOf(l) = "held" /\ \E k \in T : FateOf(k)' = "kept"
                                            THEN "kept" ELSE FateOf(l)
      BY <2>3, <2>4, <2>5
    <3>2. Sink!Write(T)
      BY <3>1, SinkWrites
    <3>3. T \in (SUBSET Sink!Buffered) \ {{}}
      BY <2>3, <2>5, <2>7 DEF Sink!Buffered, FateOf
    <3>4. Sink!WriteBuffered
      BY <2>2, <3>2, <3>3 DEF Sink!WriteBuffered, SinkNow
    <3> QED BY <3>4 DEF Sink!SinkNext
  <2> QED BY <2>6, <2>7
<1>5. CASE WriteOneFile
  <2>0. PICK x : x = Head(batch)
    OBVIOUS
  <2>1. PICK r \in WriteResults : outcome' = Written(x, r)
    BY <1>5, <2>0 DEF WriteOneFile
  <2>2. batch # <<>> /\ UNCHANGED <<caller, closer>> /\ SinkNow' = SinkNow
    BY <1>5 DEF WriteOneFile, SinkNow
  <2>3. x \in Logs /\ In(x, batch)
    BY <1>a, <2>0, <2>2, HeadTailProperties, InTail
  <2>4. FateOf(x) = "buffered"
    BY <1>b, <2>3
  <2>5. Sink!Write({x})
    BY <1>0, <1>a, <1>c, <2>1, <2>2, <2>3, SinkWritesOne DEF IInv
  <2>6. {x} \in (SUBSET Sink!Buffered) \ {{}}
    BY <2>3, <2>4 DEF Sink!Buffered, FateOf
  <2>7. PICK S \in (SUBSET Sink!Buffered) \ {{}} : Sink!Write(S)
    BY <2>5, <2>6
  <2>8. Sink!WriteBuffered
    BY <2>2, <2>7 DEF Sink!WriteBuffered, SinkNow
  <2> QED BY <2>8 DEF Sink!SinkNext
<1>6. CASE BeginFlush
  <2>1. closer = "running" /\ closer' = "waiting" /\ UNCHANGED <<outcome, caller>>
    BY <1>6 DEF BeginFlush
  <2>2. Sink!BeginDrain
    BY <2>1 DEF Sink!BeginDrain
  <2> QED BY <2>2 DEF Sink!SinkNext
<1>7. CASE EndFlush
  <2>1. closer = "waiting" /\ closer' = "flushed" /\ UNCHANGED <<outcome, caller>>
    BY <1>7 DEF EndFlush
  <2> QED BY <2>1 DEF Sink!sinkVars
<1>8. CASE CloseStore
  <2>1. closer = "flushed" /\ closer' = "done" /\ UNCHANGED <<outcome, caller>>
    BY <1>8 DEF CloseStore
  <2>2. queue = <<>> /\ batch = <<>>
    BY <1>0, <2>1 DEF IInv, ShutdownOrder
  <2>3. \A l \in Logs : FateOf(l) # "buffered"
    <3> SUFFICES ASSUME NEW l \in Logs, FateOf(l) = "buffered" PROVE FALSE
      OBVIOUS
    <3>1. ~In(l, queue) /\ ~In(l, batch)
      BY <2>2, InEmpty
    <3>2. Held(l) \/ Decided(l)
      BY <1>0, <3>1 DEF Places, OnePlace
    <3>3. outcome[l] \in Outcomes
      BY <1>0 DEF IInv, TypeOK
    <3> QED BY <3>2, <3>3 DEF Held, Decided, FateOf, Outcomes
  <2>4. Sink!Buffered = {}
    BY <2>3 DEF Sink!Buffered, FateOf
  <2>5. Sink!CloseSink
    BY <2>1, <2>4 DEF Sink!CloseSink
  <2> QED BY <2>5 DEF Sink!SinkNext
<1> QED
  BY <1>1, <1>2, <1>3, <1>4, <1>5, <1>6, <1>7, <1>8
  DEF Next, WorkerStep, CloserStep, Receive, Collect, StartWrite, FinishBatchFile, Stop, vars

\* Every behaviour of the log is one LogSink allows: a log is decided once, a buffered
\* one is never taken back, and the store is closed after the last of them.
THEOREM StepsAreSinkSteps == Spec => Sink!SinkInit /\ [][Sink!SinkNext]_Sink!sinkVars
  BY SinkStarts, SinkStep, KeptAlways, PTL DEF Spec
================================================================================
