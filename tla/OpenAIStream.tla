---------------------------- MODULE OpenAIStream ----------------------------
(***************************************************************************)
(* ciel-openai/src/lib.rs: OpenAI::chat, which sends a branch as a chat    *)
(* completion request and turns the server-sent events that come back into *)
(* response events.  The server is any server: it may refuse, send deltas  *)
(* in any order, break off, or end without [DONE].                         *)
(*                                                                         *)
(* A text is known by the position in the stream of the delta it came in,  *)
(* and an entry of a branch by its place in it.  The generator only runs   *)
(* while it is polled, one event a time, and is dropped when its reader    *)
(* gives up.                                                               *)
(***************************************************************************)
EXTENDS Naturals, Sequences, FiniteSets

CONSTANTS
    Deltas,      \* what the server may send: a subset of AllDeltas
    Indexes,     \* the indexes of parallel tool calls
    MaxDeltas    \* bound: so many of them in a response

(* A server-sent event: usage or not if it has no choices, else the fields *)
(* of the first choice.  A call is the first element of tool_calls.        *)
Field == {"none", "empty", "text"}
CallTypes ==
    {"none",       \* no tool_calls
     "list",       \* an empty list of them
     "start",      \* with an id, a function and its name
     "arguments",  \* arguments, but not both an id and a name
     "other"}      \* neither
AllDeltas ==
    [choices: BOOLEAN, usage: BOOLEAN, reasoning: Field, content: Field,
     call: CallTypes, index: Indexes, arguments: BOOLEAN]

ASSUME DeltasAssumption == Deltas \subseteq AllDeltas /\ Indexes \subseteq Nat
ASSUME MaxDeltasAssumption == MaxDeltas \in Nat

VARIABLES
    gen,         \* where chat and its generator are
    sent,        \* the messages of the request, while it is under way
    wire,        \* history: what the server has sent
    channels,    \* open_channels: a function from stream keys to channels
    fresh,       \* the next channel: Uuid::now_v7
    todo,        \* events to yield before the next delta is awaited
    out          \* history: events yielded

openaiVars == <<gen, sent, wire, channels, fresh, todo, out>>

Final == {"ended", "failed", "panicked", "cancelled"}

(* StreamKey: Message sorts before every Tool(index).                      *)
MessageKey == 0
ToolKey(index) == index + 1
Keys == {MessageKey} \cup {ToolKey(i) : i \in Indexes}
KindOf(key) == IF key = MessageKey THEN "message" ELSE "tool"

ChannelIds == 1 .. MaxDeltas
Event(kind, step, channel, text) ==
    [kind |-> kind, step |-> step, channel |-> channel, text |-> text]
Events ==
    [kind: {"message", "tool", "other"},
     step: {"start", "chunk", "complete", "whole"},
     channel: ChannelIds \cup {0}, text: Seq(1 .. MaxDeltas)]

OpenAITypeOK ==
    /\ gen \in {"idle", "request", "pull", "last"} \cup Final
    /\ \A i \in DOMAIN sent :
          sent[i].role \in {"system", "user", "assistant", "tool"}
    /\ wire \in Seq(Deltas) /\ Len(wire) <= MaxDeltas
    /\ DOMAIN channels \subseteq Keys
    /\ \A key \in DOMAIN channels : channels[key] \in 1 .. fresh - 1
    /\ fresh \in 1 .. MaxDeltas + 1
    /\ todo \in Seq(Events)
    /\ out \in Seq(Events)

OpenAIInit ==
    /\ gen = "idle"
    /\ sent = <<>>
    /\ wire = <<>>
    /\ channels = <<>>
    /\ fresh = 1
    /\ todo = <<>>
    /\ out = <<>>

-----------------------------------------------------------------------------
(* The request.  An entry is [kind, parts]: its kind and what it says.     *)

(* A call is said by the assistant, its result by the tool.                *)
RoleOf(kind) ==
    CASE kind = "call" -> "assistant"
      [] kind = "result" -> "tool"
      [] OTHER -> kind

Prompt == [role |-> "system", parts |-> <<>>]

(* One message for each entry, after the system prompt, which ChatAdapter  *)
(* never leaves empty.                                                     *)
Messages(branch) ==
    <<Prompt>> \o [i \in DOMAIN branch |->
        [role |-> RoleOf(branch[i].kind), parts |-> branch[i].parts]]

(* The request is sent, unless it cannot be made.                          *)
Chat(branch) ==
    /\ gen = "idle"
    /\ \/ gen' = "request" /\ sent' = Messages(branch)
       \/ gen' = "failed" /\ UNCHANGED sent
    /\ UNCHANGED <<wire, channels, fresh, todo, out>>

Accept ==
    /\ gen = "request"
    /\ gen' = "pull"
    /\ sent' = <<>>
    /\ UNCHANGED <<wire, channels, fresh, todo, out>>

(* No connection, or an answer that is no success, read by determine_error.*)
Refuse ==
    /\ gen = "request"
    /\ gen' = "failed"
    /\ sent' = <<>>
    /\ UNCHANGED <<wire, channels, fresh, todo, out>>

-----------------------------------------------------------------------------
(* The generator.                                                          *)

(* The members of a finite set of numbers, from the smallest on.           *)
Ascending(S) ==
    CHOOSE s \in [1 .. Cardinality(S) -> S] :
        \A i, j \in DOMAIN s : i < j => s[i] < s[j]

(* close_all: the completes, in the order of the keys.                     *)
CloseAll ==
    LET keys == Ascending(DOMAIN channels)
    IN [i \in DOMAIN keys |->
            Event(KindOf(keys[i]), "complete", channels[keys[i]], <<>>)]

(* The next delta arrives; its texts are known by its position.            *)
Receive(d) ==
    /\ gen = "pull"
    /\ todo = <<>>
    /\ d \in Deltas
    /\ Len(wire) < MaxDeltas
    /\ wire' = Append(wire, d)
Here == Len(wire) + 1

Goes(state) == gen' = state /\ UNCHANGED <<sent, out>>
SameChannels == UNCHANGED <<channels, fresh>>

(* Mutant of Opens: the channel is not a new one.                          *)
OpensSame(key) == channels' = [k \in {key} |-> fresh] /\ UNCHANGED fresh

(* After close_all, the only open channel is a new one.                    *)
Opens(key) == channels' = [k \in {key} |-> fresh] /\ fresh' = fresh + 1

PullUsage(d) ==
    /\ Receive(d)
    /\ ~d.choices
    /\ todo' = IF d.usage
                 THEN <<Event("other", "whole", 0, <<Here>>)>> ELSE <<>>
    /\ SameChannels
    /\ Goes("pull")

PullReasoning(d) ==
    /\ Receive(d)
    /\ d.choices
    /\ d.reasoning # "none"
    /\ todo' = IF d.reasoning = "text"
                 THEN <<Event("other", "whole", 0, <<Here>>)>> ELSE <<>>
    /\ SameChannels
    /\ Goes("pull")

(* Without reasoning: an empty content, whose delta is passed over with    *)
(* the rest of it, or no field at all.                                     *)
PullEmpty(d) ==
    /\ Receive(d)
    /\ d.choices /\ d.reasoning = "none"
    /\ d.content = "empty" \/ (d.content = "none" /\ d.call = "none")
    /\ todo' = <<>>
    /\ SameChannels
    /\ Goes("pull")

HasContent(d) == d.choices /\ d.reasoning = "none" /\ d.content = "text"

(* Text for the open message.                                              *)
PullContent(d) ==
    /\ Receive(d)
    /\ HasContent(d)
    /\ MessageKey \in DOMAIN channels
    /\ todo' = <<Event("message", "chunk", channels[MessageKey], <<Here>>)>>
    /\ SameChannels
    /\ Goes("pull")

(* Mutant of PullMessage: the text that opens the message is forgotten.    *)
PullMessageOnly(d) ==
    /\ Receive(d)
    /\ HasContent(d)
    /\ MessageKey \notin DOMAIN channels
    /\ todo' = CloseAll \o <<Event("message", "start", fresh, <<Here>>)>>
    /\ Opens(MessageKey)
    /\ Goes("pull")

(* Text while none is open: calls are closed and a message is opened.      *)
PullMessage(d) ==
    /\ Receive(d)
    /\ HasContent(d)
    /\ MessageKey \notin DOMAIN channels
    /\ todo' = CloseAll \o <<Event("message", "start", fresh, <<Here>>),
                             Event("message", "chunk", fresh, <<Here>>)>>
    /\ Opens(MessageKey)
    /\ Goes("pull")

HasCall(d, type) ==
    /\ d.choices /\ d.reasoning = "none" /\ d.content = "none"
    /\ d.call = type

(* A call with an id and a name: everything is closed and it is opened.    *)
PullStart(d) ==
    /\ Receive(d)
    /\ HasCall(d, "start")
    /\ todo' = CloseAll \o <<Event("tool", "start", fresh, <<Here>>)>>
                 \o IF d.arguments
                      THEN <<Event("tool", "chunk", fresh, <<Here>>)>> ELSE <<>>
    /\ Opens(ToolKey(d.index))
    /\ Goes("pull")

(* Mutant of PullArguments: they go to whatever call is open.              *)
PullArgumentsAny(d) ==
    /\ Receive(d)
    /\ HasCall(d, "arguments")
    /\ DOMAIN channels \ {MessageKey} # {}
    /\ \E key \in DOMAIN channels \ {MessageKey} :
          todo' = <<Event("tool", "chunk", channels[key], <<Here>>)>>
    /\ SameChannels
    /\ Goes("pull")

(* More arguments for the call of that index, which must be open.          *)
PullArguments(d) ==
    /\ Receive(d)
    /\ HasCall(d, "arguments")
    /\ ToolKey(d.index) \in DOMAIN channels
    /\ todo' = <<Event("tool", "chunk", channels[ToolKey(d.index)], <<Here>>)>>
    /\ SameChannels
    /\ Goes("pull")

PullUnknown(d) ==
    /\ Receive(d)
    /\ \/ HasCall(d, "arguments") /\ ToolKey(d.index) \notin DOMAIN channels
       \/ HasCall(d, "other")
    /\ SameChannels
    /\ Goes("failed")
    /\ UNCHANGED todo

(* tool[0] of an empty list.                                               *)
PullNoCall(d) ==
    /\ Receive(d)
    /\ HasCall(d, "list")
    /\ SameChannels
    /\ Goes("panicked")
    /\ UNCHANGED todo

(* Mutant of PullDone: channels are not closed at the end.                 *)
PullDoneOpen ==
    /\ gen = "pull" /\ todo = <<>>
    /\ channels' = <<>>
    /\ Goes("last")
    /\ UNCHANGED <<wire, fresh, todo>>

(* [DONE], or the end of the body without it.                              *)
PullDone ==
    /\ gen = "pull" /\ todo = <<>>
    /\ todo' = CloseAll
    /\ channels' = <<>>
    /\ Goes("last")
    /\ UNCHANGED <<wire, fresh>>

(* The connection breaks, or an event is not what it should be.            *)
PullError ==
    /\ gen = "pull" /\ todo = <<>>
    /\ Goes("failed")
    /\ UNCHANGED <<wire, channels, fresh, todo>>

End ==
    /\ gen = "last" /\ todo = <<>>
    /\ Goes("ended")
    /\ UNCHANGED <<wire, channels, fresh, todo>>

(* One event goes to the reader.                                           *)
Yield ==
    /\ todo # <<>>
    /\ gen \in {"pull", "last"}
    /\ out' = Append(out, Head(todo))
    /\ todo' = Tail(todo)
    /\ UNCHANGED <<gen, sent, wire, channels, fresh>>

(* The steps that the reader sees nothing of.                              *)
Await ==
    \/ Accept \/ Refuse
    \/ \E d \in Deltas :
          \/ PullUsage(d) \/ PullReasoning(d) \/ PullEmpty(d)
          \/ PullContent(d) \/ PullMessage(d) \/ PullStart(d)
          \/ PullArguments(d) \/ PullUnknown(d) \/ PullNoCall(d)
    \/ PullDone \/ PullError \/ End

(* The reader gives up: the generator is dropped where it stands.          *)
Cancel ==
    /\ gen \notin Final
    /\ gen' = "cancelled"
    /\ UNCHANGED <<sent, wire, channels, fresh, todo, out>>
-----------------------------------------------------------------------------
(* Properties.                                                             *)

Yielding == out \o todo

(* The generator implements Response: messages and calls come one after    *)
(* the other in channels of their own, chunks belong to the open one, and  *)
(* a response that ends has completed them all, whatever the server sends  *)
(* and wherever it stops.                                                  *)
StatusOf(state) ==
    CASE state = "ended" -> "complete"
      [] state \in {"failed", "panicked", "cancelled"} -> "broken"
      [] OTHER -> "streaming"
Outline(events) ==
    [i \in DOMAIN events |->
        <<events[i].kind, events[i].step, events[i].channel>>]

Promise == INSTANCE Response
             WITH Channels <- ChannelIds, log <- Outline(out),
                  status <- StatusOf(gen)
ProviderImplements == Promise!Spec

(* Arguments reach the call they were sent for: the latest call, when they *)
(* were sent, with their index.  With several calls in parallel, one that  *)
(* got the arguments of another would run with them.                       *)
IsStartOf(q, p) ==
    LET Starts(r) == HasCall(wire[r], "start") /\ wire[r].index = wire[p].index
    IN Starts(q) /\ \A r \in q + 1 .. p : ~Starts(r)

ArgumentsFaithful ==
    \A i \in DOMAIN Yielding :
        LET e == Yielding[i] IN
        e.kind = "tool" /\ e.step = "chunk" =>
            \E j \in 1 .. i - 1, q \in 1 .. e.text[1] :
                /\ Yielding[j] = Event("tool", "start", e.channel, <<q>>)
                /\ IsStartOf(q, e.text[1])

(* Every text that came alone in a delta is yielded once, and all texts in *)
(* the order of the deltas, across all channels; only the delta that the   *)
(* response fails with may be missing.  (A delta with two fields loses     *)
(* one: the code goes by the first of reasoning, content and calls.)       *)
SingleText(d) ==
    \/ ~d.choices /\ d.usage
    \/ d.choices /\ \/ /\ d.reasoning = "text"
                       /\ d.content = "none" /\ d.call = "none"
                    \/ HasContent(d) /\ d.call = "none"
                    \/ HasCall(d, "arguments")
                    \/ HasCall(d, "start") /\ d.arguments

TextFaithful ==
    LET carriers == {i \in DOMAIN Yielding : Yielding[i].step \in {"chunk", "whole"}}
        Text(i) == Yielding[i].text[1]
    IN /\ \A i \in carriers : Text(i) \in DOMAIN wire
       /\ \A i, j \in carriers : i < j => Text(i) < Text(j)
       /\ \A p \in DOMAIN wire :
             SingleText(wire[p]) /\ ~(gen = "failed" /\ p = Len(wire)) =>
                 \E i \in carriers : Text(i) = p
=============================================================================
