--------------------------- MODULE MCChatAdapter ----------------------------
(***************************************************************************)
(* ChatAdapter with what a server sends: text, reasoning and usage, calls  *)
(* of two indexes with and without arguments in the first delta, more      *)
(* arguments for either, empty fields, deltas with two fields at once, and *)
(* tool calls that are none.                                               *)
(***************************************************************************)
EXTENDS ChatAdapter

Delta(reasoning, content, call, index, arguments) ==
    [choices |-> TRUE, usage |-> FALSE, reasoning |-> reasoning,
     content |-> content, call |-> call, index |-> index,
     arguments |-> arguments]
NoChoices(usage) ==
    [Delta("none", "none", "none", 0, FALSE) EXCEPT !.choices = FALSE,
                                                    !.usage = usage]
CallDelta(call, index, arguments) ==
    Delta("none", "none", call, index, arguments)

MCDeltas ==
    {NoChoices(TRUE),
     Delta("text", "none", "none", 0, FALSE),
     Delta("none", "text", "none", 0, FALSE),
     Delta("none", "empty", "start", 0, TRUE),
     Delta("empty", "text", "none", 0, FALSE),
     CallDelta("start", 0, TRUE), CallDelta("start", 0, FALSE),
     CallDelta("start", 1, FALSE),
     CallDelta("arguments", 0, TRUE), CallDelta("arguments", 1, TRUE),
     CallDelta("other", 0, FALSE), CallDelta("list", 0, FALSE)}
=============================================================================
