--------------------------------- MODULE Streams ---------------------------------
(***************************************************************************)
(* One answer on its way from an upstream to a client (internal/gateway/   *)
(* sse.go, anthropic_sse.go): Chat or Responses events become Anthropic    *)
(* events, Responses events become Chat chunks, or the bytes are copied;   *)
(* an answer that is not streamed is read whole, and copied or converted.  *)
(* The usage to be billed is collected on the way (usage.go).              *)
(*                                                                         *)
(* Text is not modelled, only that there was some; the arguments of a tool *)
(* call are counted in fragments, the input of a custom tool is one too.   *)
(* The upstream starts a tool call before it sends its arguments, and a    *)
(* chunk carries text or a tool call.                                      *)
(***************************************************************************)
EXTENDS Naturals, Sequences, FiniteSets, SequencesExt

CONSTANTS
    Tools,          \* tool calls of the answer
    MaxFragments    \* bound: fragments of arguments of one tool call

Streamed == {"chat to anthropic", "responses to anthropic", "responses to chat", "passthrough"}
Routes == Streamed \cup {"json", "json to anthropic"}
FromChat == {"chat to anthropic", "passthrough"}
ToAnthropic == {"chat to anthropic", "responses to anthropic"}

VARIABLES
    route,          \* which of the functions runs
    phase,          \* "open" (a stream), "waiting" (for a whole answer),
                    \* "ended" (its final events are out) or "cut"
    text,           \* contentStarted
    blocks,         \* tool calls in the order of their blocks (startedToolBlocks)
    buffer,         \* responseToolArgBuffers: tool -> fragments kept back
    toolUse,        \* hadToolUse
    toolIndex,      \* toolCallIndex of streamResponsesToChat
    current,        \* currentToolCallID is set
    usage,          \* the tokens known: {"in"}, {"out"}, both, or {"total"}
    chars,          \* outputChars > 0
    reason,         \* the finish or stop reason of the final events
    client,         \* what the client has made of the events
    upstream        \* what the upstream has said

streamVars == <<route, phase, text, blocks, buffer, toolUse, toolIndex, current, usage, chars, reason, client, upstream>>

\* text says how often the text block was opened: "none", "opened", "reopened".
NewClient == [open |-> {}, got |-> [t \in Tools |-> 0], owner |-> <<>>, text |-> "none",
              wrong |-> FALSE, bad |-> FALSE, stops |-> 0]

\* unseen holds the calls whose arguments came only where this route does not
\* look; interleaved: those of a call came beside another's, where only the last
\* call is known; indexed: events name their output_index; texts: "none", "some",
\* "closed" by a tool call, and "again".
NewUpstream(indexed) ==
    [sent |-> [t \in Tools |-> 0], started |-> <<>>, done |-> {}, unseen |-> {},
     interleaved |-> FALSE, indexed |-> indexed, texts |-> "none", reported |-> {}]

StreamInit ==
    /\ route \in Routes /\ phase = IF route \in Streamed THEN "open" ELSE "waiting"
    /\ text = FALSE /\ blocks = <<>> /\ buffer = [t \in Tools |-> 0] /\ toolUse = FALSE
    /\ toolIndex = 0 /\ current = FALSE
    /\ usage = {} /\ chars = FALSE /\ reason = ""
    /\ client = NewClient
    /\ \E indexed \in BOOLEAN :
           /\ upstream = NewUpstream(indexed)
           /\ indexed \/ route = "responses to anthropic"

(***************************************************************************)
(* The client: blocks of an Anthropic message are opened, filled and       *)
(* closed, the text under index 0, a tool call under an index that was     *)
(* never used; tool calls of a Chat message are known by their index.      *)
(***************************************************************************)
Event(type, index, tool, n) == [type |-> type, index |-> index, tool |-> tool, n |-> n]
NoTool == "no tool"
StartText == Event("start", 0, NoTool, 0)
TextDelta == Event("delta", 0, NoTool, 0)
StartTool(index, t) == Event("start", index, t, 0)
Arguments(index, t, n) == Event("delta", index, t, n)
Stop(index) == Event("stop", index, NoTool, 0)
MessageStop == Event("message_stop", 0, NoTool, 0)

\* The tool call a client has under an index.
OwnerOf(c, index) == IF index \in DOMAIN c.owner THEN c.owner[index] ELSE NoTool

Deliver(c, e) ==
    LET illegal == \/ c.stops > 0
                   \/ e.type = "start" /\ e.index \in c.open \cup DOMAIN c.owner
                   \/ e.type \in {"delta", "stop"} /\ e.index \notin c.open
                   \/ e.type = "message_stop" /\ c.open # {}
        open    == CASE e.type = "start" -> c.open \cup {e.index}
                     [] e.type = "stop"  -> c.open \ {e.index}
                     [] OTHER -> c.open
        astray  == e.index > 0 /\ e.type = "delta" /\ OwnerOf(c, e.index) # e.tool
        reused  == e.index > 0 /\ e.type = "start" /\ e.index \in DOMAIN c.owner
    IN  [c EXCEPT !.open = open,
                  !.bad = @ \/ illegal,
                  !.wrong = @ \/ astray \/ reused,
                  !.text = IF e.type = "start" /\ e.index = 0
                           THEN IF @ = "none" THEN "opened" ELSE "reopened"
                           ELSE @,
                  !.owner = IF e.index > 0 /\ e.type = "start" /\ ~reused THEN Append(@, e.tool) ELSE @,
                  !.got = [t \in Tools |-> @[t] + (IF e.type = "delta" /\ e.tool = t THEN e.n ELSE 0)],
                  !.stops = IF e.type = "message_stop" THEN @ + 1 ELSE @]

Emit(events) ==
    LET after[i \in 0..Len(events)] ==
            IF i = 0 THEN client ELSE Deliver(after[i - 1], events[i])
    IN  client' = after[Len(events)]

(***************************************************************************)
(* Usage: the last report replaces what was known; at the end the missing  *)
(* part is estimated.                                                      *)
(***************************************************************************)
Reported(report) == IF report = {} THEN usage ELSE report

\* Mutant: output tokens that the upstream left out stay zero.
EstimatedInputOnly(known, output) == IF known = {} THEN {"in"} \cup (IF output THEN {"out"} ELSE {}) ELSE known

Estimated(known, output) == (IF known = {} THEN {"in"} ELSE known) \cup (IF output THEN {"out"} ELSE {})

(***************************************************************************)
(* The end of a stream: the text block is closed, buffered arguments are   *)
(* sent, the tool blocks are closed, the message ends.                     *)
(***************************************************************************)
Flushed ==
    LET flushed[i \in 0..Len(blocks)] ==
            IF i = 0 THEN <<>>
            ELSE IF buffer[blocks[i]] > 0
                 THEN Append(flushed[i - 1], Arguments(i, blocks[i], buffer[blocks[i]]))
                 ELSE flushed[i - 1]
    IN  flushed[Len(blocks)]

FinalEvents(textOpen) ==
    IF route \in ToAnthropic
    THEN (IF textOpen THEN <<Stop(0)>> ELSE <<>>)
         \o Flushed \o [i \in DOMAIN blocks |-> Stop(i)] \o <<MessageStop>>
    ELSE <<>>

\* Everything final changes, after the events of this step; output says
\* whether there was any, also in this step.
Final(before, textOpen, report, finish, output) ==
    /\ phase' = "ended"
    /\ reason' = IF toolUse /\ finish = "stop" THEN "tool_calls" ELSE finish
    /\ Emit(before \o FinalEvents(textOpen))
    /\ text' = textOpen
    /\ buffer' = [t \in Tools |-> 0]
    /\ usage' = Estimated(Reported(report), output)
    /\ chars' = output
    /\ UNCHANGED <<route, blocks, toolUse, toolIndex, current>>

(***************************************************************************)
(* Upstream events.                                                        *)
(***************************************************************************)
\* What the upstream has said with one more text.
SaidText == [upstream EXCEPT !.texts = CASE @ = "none"   -> "some"
                                         [] @ = "closed" -> "again"
                                         [] OTHER -> @]

\* Index 0 is always the text's: after a tool call it is opened again.
TextEvents == (IF text THEN <<>> ELSE <<StartText>>) \o <<TextDelta>>

\* Text, or reasoning.  In a Chat chunk a finish reason beside it is not seen.
Text ==
    /\ phase = "open"
    /\ IF route \in ToAnthropic
       THEN Emit(TextEvents) /\ text' = TRUE /\ upstream' = SaidText
       ELSE UNCHANGED <<client, text, upstream>>
    /\ chars' = TRUE
    /\ UNCHANGED <<route, phase, blocks, buffer, toolUse, toolIndex, current, usage, reason>>

\* Mutant: the text block is closed but still held to be open.
ToolStartTextHeld(t) ==
    /\ Emit((IF text THEN <<Stop(0)>> ELSE <<>>) \o <<StartTool(Len(blocks) + 1, t)>>)
    /\ blocks' = Append(blocks, t)
    /\ toolUse' = (route = "responses to anthropic" \/ toolUse)
    /\ UNCHANGED <<text, current>>

\* A tool call opens a block of its own and closes the text.
ToolStartAnthropic(t) ==
    /\ Emit((IF text THEN <<Stop(0)>> ELSE <<>>) \o <<StartTool(Len(blocks) + 1, t)>>)
    /\ text' = FALSE
    /\ blocks' = Append(blocks, t)
    /\ toolUse' = (route = "responses to anthropic" \/ toolUse)
    /\ UNCHANGED current

ToolStartChat(t) ==
    /\ client' = LET c == Deliver(client, StartTool(toolIndex + 1, t)) IN [c EXCEPT !.bad = FALSE]
    /\ current' = TRUE
    /\ UNCHANGED <<text, blocks, toolUse>>

ToolStart(t) ==
    /\ phase = "open" /\ t \notin Range(upstream.started)
    /\ upstream' = [upstream EXCEPT
           !.started = Append(@, t),
           !.texts = IF @ = "some" THEN "closed" ELSE @,
           !.interleaved = @ \/ (route = "responses to chat" /\ upstream.done # Range(upstream.started))]
    /\ CASE route \in ToAnthropic        -> ToolStartAnthropic(t)
         [] route = "responses to chat"  -> ToolStartChat(t)
         [] route = "passthrough"        -> UNCHANGED <<client, text, blocks, toolUse, current>>
    /\ UNCHANGED <<route, phase, buffer, toolIndex, usage, chars, reason>>

\* Without an output_index a tool call is known by its place, counted from 0,
\* and all arguments are taken for those of place 0.
Slot(t) == IF upstream.indexed THEN t ELSE blocks[1]

\* Mutant: Responses arguments go to the block opened last.
BufferLatest(t) == buffer' = [buffer EXCEPT ![Last(blocks)] = @ + 1] /\ UNCHANGED client

Buffer(t) == buffer' = [buffer EXCEPT ![Slot(t)] = @ + 1] /\ UNCHANGED client

\* Chat arguments go to the latest block, Chat clients get them under the
\* current index, Responses arguments wait for the end.
ToolArguments(t) ==
    /\ phase = "open" /\ t \in Range(upstream.started) \ upstream.done
    /\ upstream.sent[t] < MaxFragments
    /\ upstream' = [upstream EXCEPT
           !.sent[t] = @ + 1,
           !.interleaved = @ \/ (route # "responses to anthropic" /\ t # Last(upstream.started))]
    /\ CASE route = "chat to anthropic" -> Emit(<<Arguments(Len(blocks), t, 1)>>) /\ UNCHANGED buffer
         [] route = "responses to anthropic" -> Buffer(t)
         [] route = "responses to chat" ->
                /\ client' = LET c == Deliver(client, Arguments(toolIndex + 1, t, 1)) IN [c EXCEPT !.bad = FALSE]
                /\ UNCHANGED buffer
         [] route = "passthrough" -> UNCHANGED <<client, buffer>>
    /\ chars' = TRUE
    /\ UNCHANGED <<route, phase, text, blocks, toolUse, toolIndex, current, usage, reason>>

\* response.output_item.done repeats the arguments, or the input of a custom
\* tool: only arguments are looked at, only for an Anthropic client, and they
\* count when there were no fragments.
ToolDone(t) ==
    LET whole == upstream.sent[t] = 0
    IN  /\ phase = "open" /\ route \notin FromChat /\ t \in Range(upstream.started) \ upstream.done
        /\ \E custom \in BOOLEAN :
               /\ upstream' = [upstream EXCEPT
                      !.done = @ \cup {t}, !.sent[t] = IF whole THEN 1 ELSE @,
                      !.unseen = IF whole /\ (custom \/ route = "responses to chat")
                                 THEN @ \cup {t} ELSE @]
               /\ IF route = "responses to anthropic"
                  THEN /\ buffer' = [buffer EXCEPT ![Slot(t)] = IF @ = 0 /\ ~custom THEN 1 ELSE @]
                       /\ UNCHANGED <<toolIndex, current>>
                  ELSE toolIndex' = toolIndex + 1 /\ current' = FALSE /\ UNCHANGED buffer
        /\ UNCHANGED <<route, phase, text, blocks, toolUse, usage, chars, reason, client>>

\* A report may have any part; "total" has neither input nor output.
Reports == {{}, {"in"}, {"out"}, {"in", "out"}, {"total"}}

\* Any event may carry a report.
UsageChunk ==
    /\ phase = "open"
    /\ \E report \in Reports \ {{}} :
           /\ usage' = Reported(report)
           /\ upstream' = [upstream EXCEPT !.reported = report]
    /\ UNCHANGED <<route, phase, text, blocks, buffer, toolUse, toolIndex, current, chars, reason, client>>

\* What finish_reason or response.completed amount to.
Finishes ==
    CASE route = "chat to anthropic"      -> {"stop", "length", "tool_calls"}
      [] route = "responses to anthropic" -> {"stop"}
      [] route = "responses to chat"      -> {IF toolIndex > 0 \/ current THEN "tool_calls" ELSE "stop"}

\* finish_reason or response.completed: the stream is final, whatever
\* the upstream sends after it.  Copied bytes only end with the connection.
Finish ==
    /\ phase = "open" /\ route # "passthrough"
    /\ \E report \in Reports, finish \in Finishes :
           /\ Final(<<>>, text, report, finish, chars)
           /\ upstream' = [upstream EXCEPT !.reported = Reported(report)]

\* error, response.failed: reported to the client as text.
UpstreamError ==
    /\ phase = "open" /\ route \notin FromChat
    /\ \E report \in Reports :
           IF route \in ToAnthropic
           THEN /\ Final(TextEvents, TRUE, report, "stop", chars)
                /\ upstream' = [SaidText EXCEPT !.reported = Reported(report)]
           ELSE /\ Final(<<>>, text, report, "stop", chars)
                /\ upstream' = [upstream EXCEPT !.reported = Reported(report)]

\* [DONE], or the upstream closes the connection; an event not followed by an empty
\* line has been processed like any other.
Eof ==
    /\ phase = "open"
    /\ Final(<<>>, text, {}, "stop", chars)
    /\ UNCHANGED upstream

\* The context is done, a read or a write fails: the usage so far counts, with
\* the estimate when it was an event of the converted stream that failed.
Cut ==
    /\ phase = "open" /\ phase' = "cut"
    /\ usage' \in {usage} \cup (IF route = "passthrough" THEN {} ELSE {Estimated(usage, chars)})
    /\ UNCHANGED <<route, text, blocks, buffer, toolUse, toolIndex, current, chars, reason, client, upstream>>

(***************************************************************************)
(* Answers that are not streamed.                                          *)
(***************************************************************************)
\* A converted answer has its output estimated only when nothing is reported.
WholeUsage(report, output) ==
    IF route = "json" \/ report = {} THEN Estimated(report, output) ELSE report

\* There is output in any body that is not empty.  An empty body cannot be
\* converted; an answer that was, and is not written, is billed all the same.
WholeAnswer ==
    /\ phase = "waiting"
    /\ phase' \in {"ended"} \cup (IF route = "json" THEN {} ELSE {"cut"})
    /\ \E report \in Reports, output \in BOOLEAN :
           /\ report # {} \/ route = "json to anthropic" => output
           /\ usage' = WholeUsage(report, output)
           /\ chars' = output
           /\ upstream' = [upstream EXCEPT !.reported = report]
    /\ UNCHANGED <<route, text, blocks, buffer, toolUse, toolIndex, current, reason, client>>

\* It cannot be read or is too long, is no JSON to convert, or a copy cannot be
\* written: nothing is billed.
WholeFails ==
    /\ phase = "waiting" /\ phase' = "cut"
    /\ UNCHANGED <<route, text, blocks, buffer, toolUse, toolIndex, current, usage, chars, reason, client, upstream>>

StreamNext ==
    \/ WholeAnswer \/ WholeFails
    \/ Text \/ UsageChunk \/ Finish \/ UpstreamError \/ Eof \/ Cut
    \/ \E t \in Tools : ToolStart(t) \/ ToolArguments(t) \/ ToolDone(t)

(***************************************************************************)
(* Properties.                                                             *)
(***************************************************************************)

\* An Anthropic client never sees a block filled or closed that is not open, a
\* block opened while it is open, a tool block opened a second time, nor anything
\* after message_stop; when the stream has come to its end every block is closed
\* and message_stop was sent once, whatever order text and tool calls came in.
\* Block 0, the text, is opened a second time by the code when text (or an error)
\* follows a tool call that followed text, and never else
\* (streamOpenAIOrResponsesToAnthropic).
BlocksAreWellFormed ==
    /\ ~client.bad
    /\ client.text = "reopened" => upstream.texts = "again"
    /\ (phase = "ended" /\ route \in ToAnthropic) => client.open = {} /\ client.stops = 1

\* At the end every tool call has all of its arguments and none of another's,
\* also when the upstream interleaves them, which only the buffers of the
\* Responses to Anthropic stream can tell apart, and there only when the events
\* name their output_index or there is one call; an Anthropic client is told to
\* run them.  What comes with response.output_item.done alone is not sent to a
\* Chat client, and to an Anthropic client not when it is a custom tool's input.
ArgumentsReachTheirTool ==
    (/\ phase = "ended" /\ route # "passthrough"
     /\ IF route = "responses to anthropic"
        THEN upstream.indexed \/ Len(upstream.started) <= 1
        ELSE ~upstream.interleaved)
    => /\ ~client.wrong
       /\ \A t \in Tools \ upstream.unseen : client.got[t] = upstream.sent[t]
       /\ (route = "responses to anthropic" /\ upstream.started # <<>>) => reason = "tool_calls"

\* An answer that came to its end is billed: what the upstream reported last
\* before the end is kept; without any report input and output are estimated,
\* beside a report the output is (ensureOutputEstimated: otherwise "output cost
\* zero", usage.go:106-108), so that input is missing only when the upstream's
\* last report had none; only a whole answer converted for an Anthropic client
\* does without the output that its upstream left out.
EndedStreamIsBilled ==
    phase = "ended" =>
        /\ "in" \in usage \/ (upstream.reported # {} /\ "in" \notin upstream.reported)
        /\ chars => "out" \in usage \/ (route = "json to anthropic" /\ upstream.reported # {})
        /\ upstream.reported \subseteq usage
================================================================================
