-------------------------------- MODULE LogSink --------------------------------
(***************************************************************************)
(* What the rest of the program may rely on when it hands request logs to  *)
(* the store: each log is decided once (kept, held in memory, or lost), a  *)
(* log in memory is kept as soon as another one is, a log whose caller was *)
(* sent on its way is decided in the end, and the store is not closed      *)
(* while such a log is undecided.                                          *)
(***************************************************************************)
CONSTANTS Logs

VARIABLES
    fate,       \* log -> "new", "buffered", "kept", "held" or "lost"
    sink        \* "open", "draining" or "closed"

sinkVars == <<fate, sink>>

Buffered == {l \in Logs : fate[l] = "buffered"}

SinkInit ==
    /\ fate = [l \in Logs |-> "new"]
    /\ sink = "open"

\* The caller goes on; the log is written later.
Buffer(l) ==
    /\ sink = "open" /\ fate[l] = "new"
    /\ fate' = [fate EXCEPT ![l] = "buffered"]
    /\ UNCHANGED sink

\* The logs of S are written, with whatever result; where one is kept, so are those
\* that were held.
Write(S) ==
    \E to \in [S -> {"kept", "held", "lost"}] :
        fate' = [l \in Logs |->
                   IF l \in S THEN to[l]
                   ELSE IF fate[l] = "held" /\ \E k \in S : to[k] = "kept" THEN "kept"
                   ELSE fate[l]]

\* The caller waits for the write and is told of an error.
WriteThrough(l) == fate[l] = "new" /\ Write({l}) /\ UNCHANGED sink

\* Some of the buffered logs are written.
WriteBuffered == (\E S \in (SUBSET Buffered) \ {{}} : Write(S)) /\ UNCHANGED sink

BeginDrain == sink = "open" /\ sink' = "draining" /\ UNCHANGED fate

CloseSink == sink = "draining" /\ Buffered = {} /\ sink' = "closed" /\ UNCHANGED fate

SinkNext ==
    \/ \E l \in Logs : Buffer(l) \/ WriteThrough(l)
    \/ WriteBuffered \/ BeginDrain \/ CloseSink

\* Buffered logs are written, and a shutdown that has begun completes.
SinkSpec ==
    /\ SinkInit /\ [][SinkNext]_sinkVars
    /\ WF_sinkVars(WriteBuffered) /\ WF_sinkVars(CloseSink)
================================================================================
