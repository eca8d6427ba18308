---------------------------- MODULE ToolAdapter -----------------------------
(***************************************************************************)
(* ciel-adapter/src/tool_adapter.rs: wrap_stream, the generator that runs  *)
(* the tools a model calls.  It pulls an event from the provider's stream, *)
(* yields it, starts a task for each call, forwards the arguments over a   *)
(* bounded channel as they are streamed, and, when the stream has ended,   *)
(* yields the results of the tools, which come over another one.           *)
(*                                                                         *)
(* The stream it reads keeps the promise of Response, which ChatAdapter    *)
(* around ciel-openai is proved to implement: channels one after the       *)
(* other, each completed before the next one and before the end.  Where an *)
(* inner layer handles calls, their results are in the stream as well, as  *)
(* in a TurnStream.                                                        *)
(* The generator only runs while its consumer polls it, and is dropped     *)
(* when the consumer gives up.                                             *)
(***************************************************************************)
EXTENDS Naturals, Sequences, FiniteSets

CONSTANTS
    NCalls,      \* bound: the tool calls of a response, made in order
    Unknown,     \* the calls that name no tool
    Handled,     \* the calls that an inner layer may handle (the program has
                 \* no such layer: {})
    MaxOthers,   \* bound: events of other kinds, but for results' starts and
                 \* the ends of channels
    MaxArgs,     \* bound: argument chunks of a call
    MaxOutput,   \* bound: output chunks of a tool
    Capacity,    \* of the channels for arguments and output (128)
    Streaming    \* may a tool write or return before it has read everything?

Calls == 1 .. NCalls
Messages == NCalls + 1 .. NCalls + MaxOthers

ASSUME BoundsAssumption ==
    NCalls \in Nat /\ MaxOthers \in Nat /\ MaxArgs \in Nat /\ MaxOutput \in Nat
ASSUME CallsAssumption ==
    Unknown \subseteq Calls /\ Handled \subseteq Calls
ASSUME CapacityAssumption == Capacity \in Nat \ {0}
ASSUME StreamingAssumption == Streaming \in BOOLEAN

VARIABLES
    gen,         \* where the generator is
    called,      \* how many calls the provider has started
    open,        \* the call whose arguments are being streamed, or 0
    sent,        \* sent[c]: argument chunks the provider has sent
    handled,     \* the calls that came handled already
    through,     \* the message, or the call whose result is streamed by an
                 \* inner layer, that is open in the provider's stream, or 0
    passed,      \* how many events of MaxOthers the provider has sent
    answered,    \* the calls whose results an inner layer has started
    states,      \* the IndexMap: calls with a tool, in the order of insertion
    drained,     \* how many of states the last loop has finished
    sender,      \* sender[c]: the generator holds the sender of the arguments
    args,        \* args[c]: chunks in the channel for arguments
    tool,        \* tool[c]: the task of the call
    read,        \* read[c]: argument chunks the tool has read
    results,     \* results[c]: chunks in the channel for output
    written,     \* written[c]: chunks the tool has written
    out          \* history: the events yielded

inner == <<handled, through, passed, answered>>
provider == <<called, open, sent, inner>>
tasks == <<tool, read, written>>
vars == <<gen, provider, states, drained, sender, args, results, tasks, out>>

GenStates ==
    {"pull", "unknown", "unknownChunk", "unknownEnd", "spawn", "send",
     "drain", "recv", "complete", "done", "failed", "cancelled"}
Steps == {"start", "chunk", "complete"}
Aside == <<"other", "whole", 0>>     \* reasoning or usage
Events ==
    ({"tool", "result"} \X Steps \X Calls) \cup ({"message"} \X Steps \X Messages)
        \cup {Aside}

TypeOK ==
    /\ gen \in GenStates
    /\ called \in 0 .. NCalls
    /\ open \in 0 .. NCalls
    /\ sent \in [Calls -> 0 .. MaxArgs]
    /\ handled \subseteq Handled
    /\ through \in 0 .. NCalls + MaxOthers
    /\ passed \in 0 .. MaxOthers
    /\ answered \subseteq Calls
    /\ states \in Seq(Calls)
    /\ drained \in 0 .. NCalls
    /\ sender \in [Calls -> BOOLEAN]
    /\ args \in [Calls -> 0 .. Capacity]
    /\ results \in [Calls -> 0 .. Capacity]
    /\ tool \in [Calls -> {"none", "reading", "writing", "returned", "panicked"}]
    /\ read \in [Calls -> 0 .. MaxArgs]
    /\ written \in [Calls -> 0 .. MaxOutput]
    /\ out \in Seq(Events)

Init ==
    /\ gen = "pull"
    /\ called = 0
    /\ open = 0
    /\ sent = [c \in Calls |-> 0]
    /\ handled = {}
    /\ through = 0
    /\ passed = 0
    /\ answered = {}
    /\ states = <<>>
    /\ drained = 0
    /\ sender = [c \in Calls |-> FALSE]
    /\ args = [c \in Calls |-> 0]
    /\ results = [c \in Calls |-> 0]
    /\ tool = [c \in Calls |-> "none"]
    /\ read = [c \in Calls |-> 0]
    /\ written = [c \in Calls |-> 0]
    /\ out = <<>>

HasState(c) == \E i \in DOMAIN states : states[i] = c
Running(c) == tool[c] \in {"reading", "writing"}
Dropped == gen \in {"failed", "cancelled"}
Yield(kind, step, c) == out' = Append(out, <<kind, step, c>>)

-----------------------------------------------------------------------------
(* The generator, first loop: events of the provider.                      *)

(* Mutant of PullStart: the task is started, then the event is yielded.    *)
PullStartRunning ==
    LET c == called + 1  known == c \notin Unknown IN
    /\ gen = "pull"
    /\ open = 0
    /\ through = 0
    /\ c \in Calls
    /\ called' = c
    /\ open' = c
    /\ IF known THEN UNCHANGED out ELSE Yield("tool", "start", c)
    /\ tool' = IF known THEN [tool EXCEPT ![c] = "reading"] ELSE tool
    /\ gen' = IF known THEN "spawn" ELSE "unknown"
    /\ UNCHANGED <<sent, inner, states, drained, sender, args, results, read,
                   written>>

(* Tool Start, not handled yet: it is yielded as handled.                  *)
PullStart ==
    LET c == called + 1 IN
    /\ gen = "pull"
    /\ open = 0
    /\ through = 0
    /\ c \in Calls
    /\ called' = c
    /\ open' = c
    /\ Yield("tool", "start", c)
    /\ gen' = IF c \in Unknown THEN "unknown" ELSE "spawn"
    /\ UNCHANGED <<sent, inner, states, drained, sender, args, results, tasks>>

(* Tool Start of a call that is handled already: passed over, although its *)
(* arguments and their end are yielded below like those of any other.      *)
PullHandled ==
    LET c == called + 1 IN
    /\ gen = "pull"
    /\ open = 0
    /\ through = 0
    /\ c \in Handled
    /\ called' = c
    /\ open' = c
    /\ handled' = handled \cup {c}
    /\ UNCHANGED <<gen, sent, through, passed, answered, states, drained, sender,
                   args, results, tasks, out>>

(* Mutant of AnswerUnknown: the result is never completed.                 *)
AnswerUnknownOpen ==
    /\ \/ gen = "unknown"
            /\ Yield("result", "start", open) /\ gen' = "unknownChunk"
       \/ gen = "unknownChunk"
            /\ Yield("result", "chunk", open) /\ gen' = "pull"
    /\ UNCHANGED <<provider, states, drained, sender, args, results, tasks>>

(* No such tool: its result follows at once.                               *)
AnswerUnknown ==
    /\ \/ gen = "unknown"
            /\ Yield("result", "start", open) /\ gen' = "unknownChunk"
       \/ gen = "unknownChunk"
            /\ Yield("result", "chunk", open) /\ gen' = "unknownEnd"
       \/ gen = "unknownEnd"
            /\ Yield("result", "complete", open) /\ gen' = "pull"
    /\ UNCHANGED <<provider, states, drained, sender, args, results, tasks>>

(* The consumer asked for more after it saw the call: the tool starts.     *)
Spawn ==
    /\ gen = "spawn"
    /\ states' = Append(states, open)
    /\ sender' = [sender EXCEPT ![open] = TRUE]
    /\ tool' = [tool EXCEPT ![open] = "reading"]
    /\ gen' = "pull"
    /\ UNCHANGED <<provider, drained, args, results, read, written, out>>

(* Tool Chunk is yielded, and goes to the tool if there is one.            *)
PullChunk ==
    /\ gen = "pull"
    /\ open # 0
    /\ through = 0
    /\ sent[open] < MaxArgs
    /\ sent' = [sent EXCEPT ![open] = @ + 1]
    /\ Yield("tool", "chunk", open)
    /\ gen' = IF HasState(open) THEN "send" ELSE "pull"
    /\ UNCHANGED <<called, open, inner, states, drained, sender, args, results,
                   tasks>>

(* Mutant of SendArg: try_send instead of send.                            *)
SendArgOrNot ==
    /\ gen = "send"
    /\ args' = IF Running(open) /\ args[open] < Capacity
               THEN [args EXCEPT ![open] = @ + 1]
               ELSE args
    /\ gen' = "pull"
    /\ UNCHANGED <<provider, states, drained, sender, results, tasks, out>>

(* The send waits for room; it fails, which is ignored, if the tool is     *)
(* gone.                                                                   *)
SendArg ==
    /\ gen = "send"
    /\ Running(open) => args[open] < Capacity
    /\ args' = IF Running(open) THEN [args EXCEPT ![open] = @ + 1] ELSE args
    /\ gen' = "pull"
    /\ UNCHANGED <<provider, states, drained, sender, results, tasks, out>>

(* Mutant of PullComplete: the sender stays where it is.                   *)
PullCompleteKeeping ==
    /\ gen = "pull"
    /\ open # 0
    /\ through = 0
    /\ Yield("tool", "complete", open)
    /\ open' = 0
    /\ UNCHANGED <<gen, called, sent, inner, states, drained, sender, args,
                   results, tasks>>

(* Tool Complete is yielded, and ends the arguments of the tool.           *)
PullComplete ==
    /\ gen = "pull"
    /\ open # 0
    /\ through = 0
    /\ Yield("tool", "complete", open)
    /\ sender' = [sender EXCEPT ![open] = FALSE]
    /\ open' = 0
    /\ UNCHANGED <<gen, called, sent, inner, states, drained, args, results, tasks>>

(* Any other event is yielded as it came: a message, the result of a call  *)
(* that an inner layer handles, in one piece, reasoning and usage.         *)
Kind(channel) == IF channel \in Calls THEN "result" ELSE "message"

OtherStart ==
    \E channel \in handled \cup Messages :
        /\ through = 0
        /\ \/ /\ channel = NCalls + passed + 1
              /\ open = 0
              /\ passed < MaxOthers
              /\ passed' = passed + 1
              /\ UNCHANGED answered
           \/ /\ channel \in handled \ answered
              /\ answered' = answered \cup {channel}
              /\ UNCHANGED passed
        /\ through' = channel
        /\ Yield(Kind(channel), "start", channel)

OtherChunk ==
    /\ through # 0
    /\ passed < MaxOthers
    /\ passed' = passed + 1
    /\ Yield(Kind(through), "chunk", through)
    /\ UNCHANGED <<through, answered>>

OtherComplete ==
    /\ through # 0
    /\ through' = 0
    /\ Yield(Kind(through), "complete", through)
    /\ UNCHANGED <<passed, answered>>

OtherAside ==
    /\ through \notin Calls
    /\ passed < MaxOthers
    /\ passed' = passed + 1
    /\ Yield("other", "whole", 0)
    /\ UNCHANGED <<through, answered>>

PullOther ==
    /\ gen = "pull"
    /\ OtherStart \/ OtherChunk \/ OtherComplete \/ OtherAside
    /\ UNCHANGED <<gen, called, open, sent, handled, states, drained, sender, args,
                   results, tasks>>

(* The provider's stream ends.                                             *)
PullEnd ==
    /\ gen = "pull"
    /\ open = 0
    /\ through = 0
    /\ handled \subseteq answered
    /\ gen' = "drain"
    /\ UNCHANGED <<provider, states, drained, sender, args, results, tasks, out>>

(* The generator is gone, by an error of the provider's stream or because  *)
(* the consumer dropped it: its halves of all channels are dropped, and    *)
(* the tasks go on detached.                                               *)
Drop(why) ==
    /\ gen' = why
    /\ sender' = [c \in Calls |-> FALSE]
    /\ results' = [c \in Calls |-> 0]
    /\ UNCHANGED <<provider, states, drained, args, tasks, out>>

PullError == gen = "pull" /\ Drop("failed")
Cancel == gen \notin {"done", "failed", "cancelled"} /\ Drop("cancelled")

-----------------------------------------------------------------------------
(* The generator, second loop: results in the order of states.             *)

Drain ==
    /\ gen = "drain"
    /\ drained < Len(states)
    /\ Yield("result", "start", states[drained + 1])
    /\ gen' = "recv"
    /\ UNCHANGED <<provider, states, drained, sender, args, results, tasks>>

RecvChunk ==
    LET c == states[drained + 1] IN
    /\ gen = "recv"
    /\ results[c] > 0
    /\ results' = [results EXCEPT ![c] = @ - 1]
    /\ Yield("result", "chunk", c)
    /\ UNCHANGED <<gen, provider, states, drained, sender, args, tasks>>

(* Mutant of RecvEnd: the loop ends when there is no output at the moment. *)
RecvEndEarly ==
    /\ gen = "recv"
    /\ results[states[drained + 1]] = 0
    /\ gen' = "complete"
    /\ UNCHANGED <<provider, states, drained, sender, args, results, tasks, out>>

(* The channel is empty and its sender gone, and the task is joined; one   *)
(* that panicked adds a chunk that says so.                                *)
RecvEnd ==
    LET c == states[drained + 1] IN
    /\ gen = "recv"
    /\ results[c] = 0
    /\ ~Running(c)
    /\ IF tool[c] = "panicked" THEN Yield("result", "chunk", c)
                                ELSE UNCHANGED out
    /\ gen' = "complete"
    /\ UNCHANGED <<provider, states, drained, sender, args, results, tasks>>

CompleteResult ==
    /\ gen = "complete"
    /\ Yield("result", "complete", states[drained + 1])
    /\ drained' = drained + 1
    /\ gen' = "drain"
    /\ UNCHANGED <<provider, states, sender, args, results, tasks>>

DrainEnd ==
    /\ gen = "drain"
    /\ drained = Len(states)
    /\ gen' = "done"
    /\ UNCHANGED <<provider, states, drained, sender, args, results, tasks, out>>

Generator ==
    \/ PullStart \/ PullHandled \/ AnswerUnknown \/ Spawn \/ PullChunk \/ SendArg
    \/ PullComplete \/ PullOther \/ PullEnd
    \/ Drain \/ RecvChunk \/ RecvEnd \/ CompleteResult \/ DrainEnd

-----------------------------------------------------------------------------
(* A tool: an implementation of ToolImpl.  TerminalTool reads all of its   *)
(* arguments before it does anything; the interface lets others stream.    *)

ArgsEnded(c) == args[c] = 0 /\ ~sender[c]
MayWork(c) == tool[c] = "reading" /\ (Streaming \/ ArgsEnded(c))

ToolRead(c) ==
    /\ tool[c] = "reading"
    /\ args[c] > 0
    /\ args' = [args EXCEPT ![c] = @ - 1]
    /\ read' = [read EXCEPT ![c] = @ + 1]
    /\ UNCHANGED <<gen, provider, states, drained, sender, results, tool, written,
                   out>>

(* The tool sends output, which waits for room unless nobody receives.     *)
ToolWrite(c) ==
    /\ MayWork(c)
    /\ written[c] < MaxOutput
    /\ tool' = [tool EXCEPT ![c] = "writing"]
    /\ UNCHANGED <<gen, provider, states, drained, sender, args, results, read,
                   written, out>>

ToolWritten(c) ==
    /\ tool[c] = "writing"
    /\ ~Dropped => results[c] < Capacity
    /\ results' = IF Dropped THEN results ELSE [results EXCEPT ![c] = @ + 1]
    /\ written' = [written EXCEPT ![c] = @ + 1]
    /\ tool' = [tool EXCEPT ![c] = "reading"]
    /\ UNCHANGED <<gen, provider, states, drained, sender, args, read, out>>

(* Both channels lose the tool's half; what is in the arguments is gone.   *)
ToolReturn(c) ==
    /\ MayWork(c)
    /\ tool' = [tool EXCEPT ![c] = "returned"]
    /\ args' = [args EXCEPT ![c] = 0]
    /\ UNCHANGED <<gen, provider, states, drained, sender, results, read, written,
                   out>>

ToolPanic(c) ==
    /\ tool[c] = "reading"
    /\ tool' = [tool EXCEPT ![c] = "panicked"]
    /\ args' = [args EXCEPT ![c] = 0]
    /\ UNCHANGED <<gen, provider, states, drained, sender, results, read, written,
                   out>>

ToolStep(c) == ToolRead(c) \/ ToolWrite(c) \/ ToolWritten(c) \/ ToolReturn(c)

Next ==
    \/ Generator
    \/ PullError
    \/ Cancel
    \/ \E c \in Calls : ToolStep(c) \/ ToolPanic(c)

Spec == Init /\ [][Next]_vars

(* The consumer polls the stream until it ends, the provider's stream      *)
(* ends, and a tool that can go on does.                                   *)
FairSpec ==
    Spec /\ WF_vars(Generator) /\ \A c \in Calls : WF_vars(ToolStep(c))

-----------------------------------------------------------------------------
(* Properties.                                                             *)

Yielded(kind, step, c) == \E i \in DOMAIN out : out[i] = <<kind, step, c>>
Places(kind, step, c) == {i \in DOMAIN out : out[i] = <<kind, step, c>>}
Chunks(c) == Cardinality(Places("result", "chunk", c))

(* response.rs:45-47: a tool runs only once the consumer has seen the call *)
(* and polled on, so that one who cancels first has run nothing.           *)
YieldedBeforeRun == \A c \in Calls : tool[c] # "none" => Yielded("tool", "start", c)

(* tool_adapter.rs:209-228: unless the stream broke off, a tool that reads *)
(* all its arguments before it works has them all when it does: no chunk   *)
(* was skipped on a full channel, and their end is that of the call.       *)
WorksOnAllArgs ==
    \A c \in Calls :
        tool[c] \in {"writing", "returned"} /\ ~Streaming /\ ~Dropped =>
            Yielded("tool", "complete", c) /\ read[c] = sent[c]

(* tool_adapter.rs:158-161, 229-259: when the stream is over, every call   *)
(* has one result, those an inner layer handles included.  The others have *)
(* all the output of their tools, and the note if one panicked.            *)
OneResultPerCall ==
    gen = "done" =>
        \A c \in 1 .. called :
            /\ \E i, j \in DOMAIN out :
                  /\ Places("result", "start", c) = {i}
                  /\ Places("result", "complete", c) = {j}
                  /\ i < j
            /\ c \notin handled =>
                 Chunks(c) = written[c] + (IF c \in Unknown \/ tool[c] = "panicked"
                                           THEN 1 ELSE 0)

(* The generator waits to send arguments on a full channel, or for output  *)
(* or the end of a tool that runs; a tool waits for arguments, or for room *)
(* for its output.                                                         *)
Current == states[drained + 1]
SendWaits(c) == gen = "send" /\ c = open /\ Running(c) /\ args[c] = Capacity
RecvWaits(c) == gen = "recv" /\ c = Current /\ Running(c) /\ results[c] = 0
ToolWaits(c) ==
    \/ tool[c] = "reading" /\ args[c] = 0 /\ sender[c]
    \/ tool[c] = "writing" /\ ~Dropped /\ results[c] = Capacity

(* tool_adapter.rs:209-259: a generator that waits for a tool waits for    *)
(* one that can go on, if tools read their arguments before they write.    *)
(* If they do not, the one deadlock is a send to a tool that waits for     *)
(* room for its output.                                                    *)
NeverBothWait ==
    \A c \in Calls :
        /\ ~(RecvWaits(c) /\ ToolWaits(c))
        /\ ~Streaming => ~(SendWaits(c) /\ ToolWaits(c))

(* response.rs:9-75: what comes out is what drivers expect of it, a        *)
(* response in which every call is answered once and no result overlaps    *)
(* another event, until a call comes that is handled already.  Of that one *)
(* there are chunks, a Complete and a result, but no Start before them     *)
(* (tool_adapter.rs:159), so that the rest is no TurnStream.  The program  *)
(* has no such calls (ciel-openai/src/lib.rs:361, and one ToolAdapter).    *)
Turn == INSTANCE TurnStream WITH
    Channels <- Calls \cup Messages,
    log <- out,
    status <- CASE gen = "done" -> "complete"
                [] Dropped -> "broken"
                [] OTHER -> "streaming"
Implements == Turn!Init /\ [][handled' = {} => Turn!TurnNext]_(Turn!vars)

(* The response ends: no tool waits for arguments that never end, for room *)
(* for its output, or for a generator that waits for it.                   *)
StreamEnds == <>(gen \in {"done", "failed", "cancelled"})
=============================================================================
