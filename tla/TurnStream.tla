----------------------------- MODULE TurnStream -----------------------------
(***************************************************************************)
(* What the model service, with all its layers, promises the drivers that  *)
(* read its streams (worker.rs, cli.rs): a Response with, for every call   *)
(* in it, one result.  Results do not overlap, and nothing else comes      *)
(* while one is open; and it follows its call, except that the result of a *)
(* call that names no tool comes while the call is still open.             *)
(*                                                                         *)
(* ToolAdapter is proved to implement it, where no inner layer handles     *)
(* calls, and CommandLine reads it.                                        *)
(***************************************************************************)
EXTENDS Response

CONSTANT Unknown    \* the calls that name no tool

ResultOpen == \E c \in Channels : Open("result", c)

(* Events of the provider's response.                                      *)
PassStart(kind, c) == Start(kind, c) /\ ~ResultOpen
PassChunk(kind, c) == Chunk(kind, c) /\ ~ResultOpen
PassComplete(kind, c) == Complete(kind, c) /\ ~ResultOpen
PassAside == Add(Aside) /\ ~ResultOpen

ResultStart(c) ==
    /\ Add(Event("result", "start", c))
    /\ IF c \in Unknown THEN Open("tool", c) ELSE Completed("tool", c)
    /\ ~Started("result", c)
    /\ ~ResultOpen

ResultChunk(c) == Chunk("result", c)
ResultComplete(c) == Complete("result", c)

TurnEnd ==
    /\ \A c \in Channels : Started("tool", c) => Completed("result", c)
    /\ End

TurnNext ==
    \/ \E kind \in Kinds, c \in Channels :
          PassStart(kind, c) \/ PassChunk(kind, c) \/ PassComplete(kind, c)
    \/ PassAside
    \/ \E c \in Channels : ResultStart(c) \/ ResultChunk(c) \/ ResultComplete(c)
    \/ TurnEnd
    \/ Break

TurnSpec == Init /\ [][TurnNext]_vars
=============================================================================
