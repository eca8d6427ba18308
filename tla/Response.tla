------------------------------ MODULE Response ------------------------------
(***************************************************************************)
(* What a response stream promises whoever reads it                        *)
(* (ciel-core/src/provider/response.rs).  The stream is flat: messages and *)
(* tool calls are channels within it, each with a start, chunks and a      *)
(* complete.  Here is the order that the providers and layers of the       *)
(* program give these events: channels come one after the other, none is   *)
(* used again, and a response that ends leaves none open.  A response may  *)
(* break off anywhere: an error, a panic, or a reader that drops it.       *)
(*                                                                         *)
(* ToolAdapter takes this for granted of the stream it reads, and          *)
(* OpenAIStream and ChatAdapter are proved to implement it.                *)
(***************************************************************************)
EXTENDS Naturals, Sequences

CONSTANT Channels   \* identities of channels

VARIABLES
    log,       \* the events so far, without their contents
    status     \* "streaming", "complete" or "broken"

vars == <<log, status>>

Kinds == {"message", "tool"}
Event(kind, step, channel) == <<kind, step, channel>>
(* Reasoning and usage belong to no channel.                               *)
Aside == <<"other", "whole", 0>>

Init == log = <<>> /\ status = "streaming"

Started(kind, c) == \E i \in DOMAIN log : log[i] = Event(kind, "start", c)
Completed(kind, c) == \E i \in DOMAIN log : log[i] = Event(kind, "complete", c)
Open(kind, c) == Started(kind, c) /\ ~Completed(kind, c)
NothingOpen == \A kind \in Kinds, c \in Channels : ~Open(kind, c)

Add(event) ==
    /\ status = "streaming"
    /\ log' = Append(log, event)
    /\ UNCHANGED status

Start(kind, c) ==
    /\ Add(Event(kind, "start", c))
    /\ NothingOpen
    /\ \A k \in Kinds : ~Started(k, c)

Chunk(kind, c) == Add(Event(kind, "chunk", c)) /\ Open(kind, c)
Complete(kind, c) == Add(Event(kind, "complete", c)) /\ Open(kind, c)

End ==
    /\ status = "streaming"
    /\ status' = "complete"
    /\ NothingOpen
    /\ UNCHANGED log

Break ==
    /\ status = "streaming"
    /\ status' = "broken"
    /\ UNCHANGED log

Next ==
    \/ \E kind \in Kinds, c \in Channels :
          Start(kind, c) \/ Chunk(kind, c) \/ Complete(kind, c)
    \/ Add(Aside)
    \/ End
    \/ Break

Spec == Init /\ [][Next]_vars
=============================================================================
