---------------------------- MODULE ChatAdapter -----------------------------
(***************************************************************************)
(* ciel-adapter/src/chat_adapter.rs, around ciel-openai: the layer that    *)
(* makes one JSON list of each run of messages before a request, and keeps *)
(* the text of a message back until it is complete, to unwrap a reply that *)
(* came as such a list.  Tool calls and the rest pass through.             *)
(*                                                                         *)
(* The layer pulls an event of the provider only when it is polled and has *)
(* nothing left to yield, so the two generators take turns.                *)
(***************************************************************************)
EXTENDS OpenAIStream

CONSTANT MaxBranch   \* bound: entries of the branch of the request

ASSUME MaxBranchAssumption == MaxBranch \in Nat

VARIABLES
    branch,      \* the branch of the request, while it is under way
    buffers,     \* channels: the text so far of each open message
    chatTodo,    \* events to yield before the next one is pulled
    unwrapped,   \* messages that came as a JSON list
    chatOut      \* history: events yielded

streamVars == <<buffers, chatTodo, unwrapped, chatOut>>
chatVars == <<branch, streamVars>>
vars == <<openaiVars, chatVars>>

(* The entries a branch is made of, by the role of the message or the kind *)
(* of entry.                                                               *)
EntryKinds == {"user", "assistant", "call", "result"}
Entry(kind, parts) == [kind |-> kind, parts |-> parts]
Branches ==
    {[i \in DOMAIN kinds |-> Entry(kinds[i], <<i>>)] :
        kinds \in UNION {[1 .. n -> EntryKinds] : n \in 0 .. MaxBranch}}

TypeOK ==
    /\ OpenAITypeOK
    /\ DOMAIN buffers \subseteq ChannelIds
    /\ \A c \in DOMAIN buffers : buffers[c] \in Seq(1 .. MaxDeltas)
    /\ chatTodo \in Seq(Events)
    /\ unwrapped \subseteq ChannelIds
    /\ chatOut \in Seq(Events)

Init ==
    /\ OpenAIInit
    /\ branch \in Branches
    /\ buffers = <<>>
    /\ chatTodo = <<>>
    /\ unwrapped = {}
    /\ chatOut = <<>>

-----------------------------------------------------------------------------
(* The request.                                                            *)

IsMessage(entry) == entry.kind \in {"user", "assistant"}

(* Mutant of SameKind: all messages are of a kind.                         *)
SameKindOrBothMessages(a, b) ==
    a.kind = b.kind \/ (IsMessage(a) /\ IsMessage(b))

SameKind(a, b) == a.kind = b.kind

(* chunk_by(is_same_kind): a run of messages becomes one, which lists what *)
(* they say; everything else is kept as it is.                             *)
Joins(entries, i) ==
    /\ i > 1
    /\ IsMessage(entries[i]) /\ IsMessage(entries[i - 1])
    /\ SameKind(entries[i - 1], entries[i])
Grouped(entries) ==
    LET first == Ascending({i \in DOMAIN entries : ~Joins(entries, i)})
        last == [g \in DOMAIN first |->
                    IF g = Len(first) THEN Len(entries) ELSE first[g + 1] - 1]
    IN [g \in DOMAIN first |->
           Entry(entries[first[g]].kind,
                 [n \in 1 .. last[g] - first[g] + 1 |->
                     entries[first[g] + n - 1].parts[1]])]

Call ==
    /\ Chat(Grouped(branch))
    /\ UNCHANGED chatVars

-----------------------------------------------------------------------------
(* The stream.                                                             *)

(* The provider works while the layer waits for its next event.            *)
Wait ==
    /\ chatTodo = <<>>
    /\ Await
    /\ branch' = <<>>
    /\ UNCHANGED streamVars

(* The provider yields its next event.                                     *)
Pulled(kind, step) ==
    /\ chatTodo = <<>>
    /\ Yield
    /\ Head(todo).kind = kind
    /\ Head(todo).step = step
    /\ UNCHANGED branch
Channel == Head(todo).channel

PassMessageStart ==
    /\ Pulled("message", "start")
    /\ chatOut' = Append(chatOut, Head(todo))
    /\ buffers' = [c \in DOMAIN buffers \cup {Channel} |->
                      IF c = Channel THEN <<>> ELSE buffers[c]]
    /\ UNCHANGED <<chatTodo, unwrapped>>

(* Mutant of Keep: the buffer holds the latest chunk only.                 *)
KeepLatest ==
    /\ Pulled("message", "chunk")
    /\ buffers' = [c \in DOMAIN buffers |->
                      IF c = Channel THEN Head(todo).text ELSE buffers[c]]
    /\ UNCHANGED <<chatTodo, unwrapped, chatOut>>

(* A chunk of a message with a buffer is kept, of another one dropped.     *)
Keep ==
    /\ Pulled("message", "chunk")
    /\ buffers' = [c \in DOMAIN buffers |->
                      IF c = Channel THEN buffers[c] \o Head(todo).text
                                     ELSE buffers[c]]
    /\ UNCHANGED <<chatTodo, unwrapped, chatOut>>

(* Mutant of Flush: the message is completed before its text is yielded.   *)
FlushLate ==
    /\ Pulled("message", "complete")
    /\ Channel \in DOMAIN buffers
    /\ chatOut' = Append(chatOut, Head(todo))
    /\ chatTodo' = <<Event("message", "chunk", Channel, buffers[Channel])>>
    /\ unwrapped' \in {unwrapped, unwrapped \cup {Channel}}
    /\ buffers' = [c \in DOMAIN buffers \ {Channel} |-> buffers[c]]

(* The message is complete: its text, unwrapped if it is a JSON list, is   *)
(* yielded in one chunk, and then its end.                                 *)
Flush ==
    /\ Pulled("message", "complete")
    /\ Channel \in DOMAIN buffers
    /\ chatOut' = Append(chatOut,
                         Event("message", "chunk", Channel, buffers[Channel]))
    /\ chatTodo' = <<Head(todo)>>
    /\ unwrapped' \in {unwrapped, unwrapped \cup {Channel}}
    /\ buffers' = [c \in DOMAIN buffers \ {Channel} |-> buffers[c]]

PassOther ==
    /\ \E step \in {"start", "chunk", "complete"} : Pulled("tool", step)
       \/ Pulled("other", "whole")
    /\ chatOut' = Append(chatOut, Head(todo))
    /\ UNCHANGED <<buffers, chatTodo, unwrapped>>

ChatYield ==
    /\ chatTodo # <<>>
    /\ gen \notin Final
    /\ chatOut' = Append(chatOut, Head(chatTodo))
    /\ chatTodo' = Tail(chatTodo)
    /\ UNCHANGED <<openaiVars, branch, buffers, unwrapped>>

GiveUp ==
    /\ Cancel
    /\ UNCHANGED chatVars

Next ==
    \/ Call
    \/ Wait
    \/ PassMessageStart \/ Keep \/ Flush \/ PassOther
    \/ ChatYield
    \/ GiveUp

Spec == Init /\ [][Next]_vars

-----------------------------------------------------------------------------
(* Properties.                                                             *)

(* What is sent is the prompt and then the whole branch, each entry once   *)
(* and in order: what was said by different roles is never in one message, *)
(* and what one role said in a row is.  Calls and results stay one message *)
(* each.                                                                   *)
RequestFaithful ==
    gen = "request" =>
        LET body == Tail(sent)
            says(i, p) == \E a \in DOMAIN body[i].parts : body[i].parts[a] = p
        IN
        /\ Head(sent) = Prompt
        /\ \A p \in DOMAIN branch : \E i \in DOMAIN body : says(i, p)
        /\ \A i, j \in DOMAIN body :
              \A a \in DOMAIN body[i].parts, b \in DOMAIN body[j].parts :
                 i < j \/ (i = j /\ a < b) => body[i].parts[a] < body[j].parts[b]
        /\ \A i \in DOMAIN body :
              /\ body[i].parts # <<>>
              /\ \A a \in DOMAIN body[i].parts : LET p == body[i].parts[a] IN
                    /\ p \in DOMAIN branch
                    /\ RoleOf(branch[p].kind) = body[i].role
                    /\ Len(body[i].parts) > 1 => IsMessage(branch[p])
                    /\ a = 1 /\ p > 1 /\ IsMessage(branch[p]) =>
                          branch[p].kind # branch[p - 1].kind

(* The layer implements Response as well, so what ToolAdapter takes for    *)
(* granted holds of the stream it reads: calls come one after the other    *)
(* and are complete before the next one and before the end.                *)
ChatPromise == INSTANCE Response
                 WITH Channels <- ChannelIds, log <- Outline(chatOut),
                      status <- StatusOf(gen)
ChatImplements == ChatPromise!Spec

(* A reply is yielded in one piece with all of its text, in order, before  *)
(* its end, and nothing else is held back, lost or reordered: the stream   *)
(* is that of the provider with the chunks of each message moved to its    *)
(* end and put together.                                                   *)
IsReply(e) == e.kind = "message" /\ e.step = "chunk"
Rest(events) == {i \in DOMAIN events : ~IsReply(events[i])}
Pieces(c) == {p \in DOMAIN out : IsReply(out[p]) /\ out[p].channel = c}

(* The text is that of all pieces of the channel, which are in order.      *)
IsTextOf(text, c) ==
    /\ {text[a] : a \in DOMAIN text} = {out[p].text[1] : p \in Pieces(c)}
    /\ \A a, b \in DOMAIN text : a < b => text[a] < text[b]

RepliesWhole ==
    LET yielded == chatOut \o chatTodo
        replies == DOMAIN yielded \ Rest(yielded)
    IN /\ \A i \in replies :
             /\ i + 1 \in DOMAIN yielded
             /\ yielded[i + 1] =
                   Event("message", "complete", yielded[i].channel, <<>>)
             /\ IsTextOf(yielded[i].text, yielded[i].channel)
       /\ \A i \in Rest(yielded) :
             yielded[i].kind = "message" /\ yielded[i].step = "complete" =>
                 i - 1 \in replies
       /\ {yielded[i] : i \in Rest(yielded)} = {out[p] : p \in Rest(out)}
       /\ \A i, j \in Rest(yielded), p, q \in Rest(out) :
             yielded[i] = out[p] /\ yielded[j] = out[q] => (i < j <=> p < q)
=============================================================================
