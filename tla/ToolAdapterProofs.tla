------------------------- MODULE ToolAdapterProofs --------------------------
(***************************************************************************)
(* Proofs about ToolAdapter for any number of calls, chunks and places in  *)
(* the channels: no tool runs before its call was yielded, a tool that     *)
(* reads all its arguments first works on all of them, every call has one  *)
(* result with all of the output, the generator and its tools do not wait  *)
(* for each other, and what comes out is a TurnStream until a call comes   *)
(* that an inner layer handles, of which the program has none.             *)
(*                                                                         *)
(* The inductive invariant ties the place of the generator to what was     *)
(* yielded (LogInv) and to what an inner layer has sent (InnerInv), and    *)
(* the counters of each channel to those of its two ends (ArgsInv,         *)
(* OutputInv).                                                             *)
(***************************************************************************)
EXTENDS ToolAdapter, SequenceTheorems, FiniteSetTheorems, TLAPS

(* The calls for a tool of this layer, and those that name none.           *)
Known == Calls \ (Unknown \cup handled)
NoTool == Unknown \ handled

(* Where the generator is, and what that says of its variables.            *)
Answering == {"unknown", "unknownChunk", "unknownEnd"}
FirstLoop == {"pull", "spawn", "send"} \cup Answering
SecondLoop == {"drain", "recv", "complete", "done"}

ShapeInv ==
    /\ open \in {0, called}
    /\ gen \in Answering => open \in NoTool
    /\ gen \in {"spawn", "send"} => open \in Known
    /\ gen \in SecondLoop => open = 0
    /\ gen \in FirstLoop => drained = 0
    /\ drained <= Len(states)
    /\ gen \in {"recv", "complete"} => drained < Len(states)
    /\ gen = "done" => drained = Len(states)
    /\ Len(states) + (IF gen = "spawn" THEN 1 ELSE 0) <= called

(* The calls with a tool are those of the map, each there once, and only   *)
(* the open one still has the sender of its arguments.                     *)
StatesInv ==
    /\ \A i, j \in DOMAIN states : states[i] = states[j] => i = j
    /\ \A c \in Calls :
        /\ HasState(c) <=> tool[c] # "none"
        /\ HasState(c) => c \in Known /\ c <= called
        /\ gen = "spawn" => ~HasState(open)
        /\ ~Dropped /\ c \in Known /\ c <= called =>
              HasState(c) \/ (gen = "spawn" /\ c = open)
        /\ sender[c] <=> HasState(c) /\ c = open /\ ~Dropped

(* A chunk of arguments is on its way, in the channel, or read.            *)
Sending(c) == IF gen = "send" /\ c = open THEN 1 ELSE 0
ArgsOK(c) ==
    /\ args[c] + read[c] + Sending(c) <= sent[c]
    /\ Running(c) /\ ~Dropped => args[c] + read[c] + Sending(c) = sent[c]
    /\ tool[c] = "none" => args[c] = 0 /\ read[c] = 0
    /\ c > called \/ (gen = "spawn" /\ c = open) => sent[c] = 0
    /\ tool[c] \in {"writing", "returned"} /\ ~Streaming /\ ~Dropped =>
          args[c] = 0 /\ ~sender[c] /\ read[c] = sent[c]
ArgsInv == \A c \in Calls : ArgsOK(c)

(* The calls whose results were yielded, and those whose tasks were joined.*)
Finished(c) == \E i \in 1 .. drained : states[i] = c
Joined(c) == Finished(c) \/ (gen = "complete" /\ c = Current)

(* A chunk of output is in the channel, or yielded.                        *)
OutputOK(c) ==
    /\ tool[c] = "writing" => written[c] < MaxOutput
    /\ tool[c] = "none" => written[c] = 0 /\ results[c] = 0
    /\ ~Dropped /\ Joined(c) => results[c] = 0 /\ ~Running(c)
    /\ ~Dropped /\ c \in Known =>
          Chunks(c) + results[c]
            = written[c] + (IF tool[c] = "panicked" /\ Joined(c) THEN 1 ELSE 0)
    /\ ~Dropped /\ c \in NoTool =>
          Chunks(c) = IF \/ c > called
                         \/ c = open /\ gen \in {"unknown", "unknownChunk"}
                      THEN 0 ELSE 1
OutputInv == \A c \in Calls : OutputOK(c)

(* What was yielded, by the place of the generator.                        *)
Begun(c) ==
    IF c \in handled THEN c \in answered
    ELSE IF c \in Unknown THEN c <= called /\ ~(c = open /\ gen = "unknown")
    ELSE Finished(c) \/ (gen \in {"recv", "complete"} /\ c = Current)
Ended(c) ==
    IF c \in handled THEN c \in answered /\ c # through
    ELSE IF c \in Unknown THEN c <= called /\ ~(c = open /\ gen \in Answering)
    ELSE Finished(c)

LogInv ==
    \A c \in Calls :
        /\ Yielded("tool", "start", c) <=> c <= called /\ c \notin handled
        /\ Yielded("tool", "complete", c) <=> c <= called /\ c # open
        /\ ~Dropped => (Yielded("result", "start", c) <=> Begun(c))
        /\ ~Dropped => (Yielded("result", "complete", c) <=> Ended(c))

(* The events that are passed through: messages, and results of calls that *)
(* an inner layer handles.                                                 *)
InnerInv ==
    /\ \A c \in handled : c <= called
    /\ answered \subseteq handled
    /\ gen \notin {"pull", "failed", "cancelled"} => through = 0
    /\ gen \in SecondLoop => handled \subseteq answered
    /\ through \in Calls => through \in answered
    /\ through \in Messages => open = 0 /\ Yielded("message", "start", through)
    /\ \A m \in Messages :
          /\ Yielded("message", "start", m) => m <= NCalls + passed
          /\ Yielded("message", "complete", m)
                <=> Yielded("message", "start", m) /\ m # through

(* Nothing but chunks and what belongs to no channel is yielded twice, and *)
(* a result starts first.                                                  *)
OnceInv ==
    \A i, j \in DOMAIN out :
        /\ out[i] = out[j] /\ out[i][2] \notin {"chunk", "whole"} => i = j
        /\ \A c \in Calls :
              out[i] = <<"result", "start", c>> /\ out[j] = <<"result", "complete", c>>
                => i < j

IInv ==
    ShapeInv /\ StatesInv /\ ArgsInv /\ OutputInv /\ LogInv /\ InnerInv /\ OnceInv

Inv == TypeOK /\ IInv

-----------------------------------------------------------------------------
(* Facts about the history.                                                *)

(* The places of an event are finitely many.                               *)
LEMMA PlacesFinite ==
    ASSUME out \in Seq(Events)
    PROVE  \A c : IsFiniteSet(Places("result", "chunk", c)) /\ Chunks(c) \in Nat
<1>1. IsFiniteSet(1 .. Len(out))
  BY FS_Interval
<1>2. ASSUME NEW c
      PROVE  IsFiniteSet(Places("result", "chunk", c))
  <2>1. Places("result", "chunk", c) \subseteq 1 .. Len(out)
    BY DEF Places
  <2> QED
    BY <1>1, <2>1, FS_Subset
<1> QED
  BY <1>2, FS_CardinalityType DEF Chunks

(* The events of calls, messages and those of no channel.                  *)
LEMMA EventsOf ==
    /\ \A c \in Calls, step \in Steps :
          <<"tool", step, c>> \in Events /\ <<"result", step, c>> \in Events
    /\ \A m \in Messages, step \in Steps : <<"message", step, m>> \in Events
    /\ <<"other", "whole", 0>> \in Events
BY DEF Events, Aside

(* What yielding an event changes.                                         *)
LEMMA YieldFacts ==
    ASSUME out \in Seq(Events), NEW kind, NEW step, NEW c,
           <<kind, step, c>> \in Events, Yield(kind, step, c)
    PROVE  /\ out' \in Seq(Events)
           /\ \A k, s, d : Yielded(k, s, d)'
                 <=> Yielded(k, s, d) \/ (k = kind /\ s = step /\ d = c)
           /\ \A d : Chunks(d)' = Chunks(d)
                 + (IF kind = "result" /\ step = "chunk" /\ d = c THEN 1 ELSE 0)
           /\ \A d : Chunks(d) \in Nat
<1> DEFINE e == <<kind, step, c>>
<1>1. /\ out' = Append(out, e)
      /\ out' \in Seq(Events)
      /\ DOMAIN out' = DOMAIN out \cup {Len(out) + 1}
      /\ \A i \in DOMAIN out : out'[i] = out[i]
      /\ out'[Len(out) + 1] = e
      /\ DOMAIN out = 1 .. Len(out) /\ Len(out) \in Nat
  BY AppendProperties, LenProperties DEF Yield
<1>2. \A k, s, d : <<k, s, d>> = e <=> k = kind /\ s = step /\ d = c
  OBVIOUS
<1> HIDE DEF e
<1>3. \A k, s, d : Yielded(k, s, d)' <=> Yielded(k, s, d) \/ <<k, s, d>> = e
  BY <1>1 DEF Yielded
<1>4. \A k, s, d : Places(k, s, d)' =
          Places(k, s, d) \cup (IF <<k, s, d>> = e THEN {Len(out) + 1} ELSE {})
  BY <1>1 DEF Places
<1>5. ASSUME NEW d
      PROVE  /\ Chunks(d) \in Nat
             /\ Chunks(d)' = Chunks(d)
                    + (IF <<"result", "chunk", d>> = e THEN 1 ELSE 0)
  <2>1. /\ IsFiniteSet(Places("result", "chunk", d)) /\ Chunks(d) \in Nat
        /\ Len(out) + 1 \notin Places("result", "chunk", d)
    <3>1. /\ IsFiniteSet(Places("result", "chunk", d)) /\ Chunks(d) \in Nat
      BY PlacesFinite
    <3>2. Len(out) + 1 \notin DOMAIN out
      BY <1>1
    <3> QED
      BY <3>1, <3>2 DEF Places
  <2>2. CASE <<"result", "chunk", d>> = e
    <3>1. Places("result", "chunk", d)'
              = Places("result", "chunk", d) \cup {Len(out) + 1}
      BY <1>4, <2>2
    <3>2. Cardinality(Places("result", "chunk", d)') = Chunks(d) + 1
      BY <2>1, <3>1, FS_AddElement DEF Chunks
    <3> QED
      BY <2>1, <2>2, <3>2 DEF Chunks
  <2>3. CASE <<"result", "chunk", d>> # e
    <3>1. Places("result", "chunk", d)' = Places("result", "chunk", d)
      BY <1>4, <2>3
    <3> QED
      BY <2>1, <2>3, <3>1 DEF Chunks
  <2> QED
    BY <2>1, <2>2, <2>3
<1>6. \A k, s, d : Yielded(k, s, d)'
          <=> Yielded(k, s, d) \/ (k = kind /\ s = step /\ d = c)
  BY <1>2, <1>3
<1>7. ASSUME NEW d
      PROVE  /\ Chunks(d) \in Nat
             /\ Chunks(d)' = Chunks(d)
                    + (IF kind = "result" /\ step = "chunk" /\ d = c THEN 1 ELSE 0)
  <2>1. <<"result", "chunk", d>> = e <=> "result" = kind /\ "chunk" = step /\ d = c
    BY <1>2, Zenon
  <2>2. CASE <<"result", "chunk", d>> = e
    BY <1>5, <2>1, <2>2
  <2>3. CASE <<"result", "chunk", d>> # e
    BY <1>5, <2>1, <2>3
  <2> QED
    BY <2>2, <2>3
<1> QED
  BY <1>1, <1>6, <1>7

(* An event that may be yielded now, because it is a chunk or new, and not *)
(* a start that comes after its end.                                       *)
LEMMA YieldOnce ==
    ASSUME out \in Seq(Events), OnceInv,
           NEW kind, NEW step, NEW c,
           <<kind, step, c>> \in Events, Yield(kind, step, c),
           step \in {"chunk", "whole"} \/ ~Yielded(kind, step, c),
           kind = "result" /\ step = "start" => ~Yielded("result", "complete", c)
    PROVE  OnceInv'
<1> DEFINE e == <<kind, step, c>>
           n == Len(out) + 1
<1>1. /\ DOMAIN out' = DOMAIN out \cup {n}
      /\ \A i \in DOMAIN out : out'[i] = out[i] /\ i < n
      /\ out'[n] = e
  BY AppendProperties, LenProperties DEF Yield
<1>2. e[2] = step /\ (\A i \in DOMAIN out : out[i] = e => step \in {"chunk", "whole"})
  BY DEF Yielded
<1>3. \A d : /\ e = <<"result", "start", d>>
                   => \A j \in DOMAIN out : out[j] # <<"result", "complete", d>>
             /\ ~(e = <<"result", "start", d>> /\ e = <<"result", "complete", d>>)
  BY DEF Yielded
<1> HIDE DEF e, n
<1> SUFFICES ASSUME NEW i \in DOMAIN out', NEW j \in DOMAIN out'
             PROVE  /\ out'[i] = out'[j] /\ out'[i][2] \notin {"chunk", "whole"}
                          => i = j
                    /\ \A d \in Calls :
                          /\ out'[i] = <<"result", "start", d>>
                          /\ out'[j] = <<"result", "complete", d>>
                          => i < j
  BY DEF OnceInv
<1>4. CASE i \in DOMAIN out /\ j \in DOMAIN out
  BY <1>1, <1>4 DEF OnceInv
<1>5. CASE i \in DOMAIN out /\ j = n
  BY <1>1, <1>2, <1>5
<1>6. CASE i = n /\ j \in DOMAIN out
  BY <1>1, <1>2, <1>3, <1>6
<1>7. CASE i = n /\ j = n
  BY <1>1, <1>3, <1>7
<1> QED
  BY <1>1, <1>4, <1>5, <1>6, <1>7

(* What does not yield changes nothing of that.                            *)
LEMMA SilentFacts ==
    ASSUME out \in Seq(Events), out' = out
    PROVE  /\ out' \in Seq(Events)
           /\ \A k, s, d : Yielded(k, s, d)' <=> Yielded(k, s, d)
           /\ \A d : Chunks(d)' = Chunks(d) /\ Chunks(d) \in Nat
           /\ OnceInv => OnceInv'
<1>1. \A d : Chunks(d) \in Nat
  BY PlacesFinite
<1>2. \A d : Chunks(d)' = Chunks(d)
  BY DEF Chunks, Places
<1>3. \A k, s, d : Yielded(k, s, d)' <=> Yielded(k, s, d)
  BY DEF Yielded
<1>4. OnceInv => OnceInv'
  BY DEF OnceInv
<1> QED
  BY <1>1, <1>2, <1>3, <1>4

-----------------------------------------------------------------------------
(* The invariant holds initially and every action keeps it.                *)

(* The invariant holds before the first poll.                              *)
LEMMA InitInv == Init => Inv
<1> SUFFICES ASSUME Init PROVE Inv
  OBVIOUS
<1>1. NCalls \in Nat /\ MaxOthers \in Nat /\ MaxArgs \in Nat /\ MaxOutput \in Nat /\ Capacity \in Nat
  BY BoundsAssumption, CapacityAssumption
<1>2. TypeOK
  BY <1>1 DEF Init, TypeOK, GenStates
<1>3. /\ states = <<>> /\ Len(states) = 0 /\ DOMAIN states = {}
      /\ out = <<>> /\ DOMAIN out = {}
  BY DEF Init
<1>4. ShapeInv
  BY <1>3 DEF Init, ShapeInv, Answering, FirstLoop, SecondLoop
<1>5. StatesInv
  BY <1>3 DEF Init, StatesInv, HasState, Calls
<1>6. ArgsInv
  BY DEF Init, ArgsInv, ArgsOK, Sending, Running
<1>7. \A k, s, c : ~Yielded(k, s, c)
  BY <1>3 DEF Yielded
<1>8. \A c : Chunks(c) = 0
  BY <1>3, FS_EmptySet DEF Chunks, Places
<1>9. \A c : ~Finished(c)
  BY DEF Init, Finished
<1>10. OutputInv
  BY <1>8, <1>9 DEF Init, OutputInv, OutputOK, Joined, Running, Calls
<1>11. LogInv
  BY <1>7, <1>9 DEF Init, LogInv, Begun, Ended, Calls
<1>13. InnerInv
  BY <1>1, <1>7 DEF Init, InnerInv, Messages, Calls, SecondLoop
<1>12. OnceInv
  BY <1>3 DEF OnceInv
<1> QED
  BY <1>2, <1>4, <1>5, <1>6, <1>10, <1>11, <1>12, <1>13 DEF Inv, IInv

(* The kinds of calls change only with a call that comes handled.          *)
LEMMA KindsKept ==
    ASSUME handled' = handled
    PROVE  Known' = Known /\ NoTool' = NoTool
BY DEF Known, NoTool

(* A step that passes no event of an inner layer through.                  *)
LEMMA InnerKept ==
    ASSUME InnerInv, UNCHANGED <<handled, through, passed, answered>>,
           \A c \in handled : c <= called => c <= called',
           through \in Messages => open' = 0,
           gen' \notin {"pull", "failed", "cancelled"} => through = 0,
           gen' \in SecondLoop => handled \subseteq answered,
           \A m, step : step # "chunk" =>
              (Yielded("message", step, m)' <=> Yielded("message", step, m))
    PROVE  InnerInv'
BY DEF InnerInv

(* The counters of a call that a step does not touch.                      *)
LEMMA ArgsKept ==
    ASSUME NEW d \in Calls, ArgsOK(d),
           args'[d] = args[d], read'[d] = read[d], sent'[d] = sent[d],
           tool'[d] = tool[d], sender'[d] => sender[d],
           Dropped => Dropped',
           Sending(d)' = Sending(d) \/ (Dropped' /\ Sending(d) = 1 /\ Sending(d)' = 0),
           args[d] + read[d] \in Nat, sent[d] \in Nat,
           (d > called \/ (gen = "spawn" /\ d = open))'
               => d > called \/ (gen = "spawn" /\ d = open)
    PROVE  ArgsOK(d)'
BY DEF ArgsOK, Running

(* A call without a tool.                                                  *)
LEMMA ArgsFree ==
    ASSUME NEW d \in Calls, ArgsOK(d), tool[d] = "none", tool'[d] = "none",
           args'[d] = args[d], read'[d] = read[d], Sending(d)' = 0,
           sent'[d] \in Nat,
           ~(d > called \/ (gen = "spawn" /\ d = open))'
    PROVE  ArgsOK(d)'
BY DEF ArgsOK, Running

(* A step that leaves a call and its output alone.                         *)
LEMMA OutputKept ==
    ASSUME NEW d \in Calls, OutputOK(d),
           results'[d] = results[d], written'[d] = written[d],
           tool'[d] = tool[d], Chunks(d)' = Chunks(d),
           Joined(d)' <=> Joined(d), Dropped => Dropped',
           (d \in Known)' => d \in Known, (d \in NoTool)' => d \in NoTool,
           (d \in NoTool)' =>
              ((d > called \/ (d = open /\ gen \in {"unknown", "unknownChunk"}))'
                  <=> d > called \/ (d = open /\ gen \in {"unknown", "unknownChunk"}))
    PROVE  OutputOK(d)'
BY DEF OutputOK, Running

(* Steps of the tools, which touch only their own counters.                *)
LEMMA ToolFrame ==
    ASSUME Inv, UNCHANGED <<gen, called, open, sent, handled, through, passed,
                            answered, states, drained, sender, out>>,
           \A c \in Calls : tool'[c] = "none" <=> tool[c] = "none"
    PROVE  /\ (ShapeInv /\ StatesInv /\ LogInv /\ InnerInv /\ OnceInv)'
           /\ Dropped' = Dropped
           /\ \A c \in Calls :
                 /\ Sending(c)' = Sending(c) /\ (Joined(c)' <=> Joined(c))
                 /\ Chunks(c)' = Chunks(c)
<1>1. ShapeInv'
  BY KindsKept DEF Inv, IInv, ShapeInv
<1>2. StatesInv'
  BY KindsKept DEF Inv, IInv, StatesInv, HasState, Dropped
<1>3. LogInv'
  BY DEF Inv, IInv, LogInv, Yielded, Begun, Ended, Finished, Current, Dropped
<1>7. InnerInv'
  BY DEF Inv, IInv, InnerInv, Yielded
<1>4. OnceInv'
  BY DEF Inv, IInv, OnceInv
<1>5. Dropped' = Dropped
  BY DEF Dropped
<1>6. \A c \in Calls :
         /\ Sending(c)' = Sending(c) /\ (Joined(c)' <=> Joined(c))
         /\ Chunks(c)' = Chunks(c)
  BY DEF Sending, Joined, Finished, Current, Chunks, Places
<1> QED
  BY <1>1, <1>2, <1>3, <1>4, <1>5, <1>6, <1>7

(* A step of the tool of call c, as far as other calls are concerned.      *)
LEMMA OthersKept ==
    ASSUME Inv, UNCHANGED <<gen, called, open, sent, handled, through, passed,
                            answered, states, drained, sender, out>>,
           \A d \in Calls : tool'[d] = "none" <=> tool[d] = "none",
           NEW d \in Calls,
           args'[d] = args[d], read'[d] = read[d], tool'[d] = tool[d],
           results'[d] = results[d], written'[d] = written[d]
    PROVE  ArgsOK(d)' /\ OutputOK(d)'
<1>1. /\ Dropped' = Dropped /\ Sending(d)' = Sending(d)
      /\ Joined(d)' <=> Joined(d)
      /\ Chunks(d)' = Chunks(d)
  BY ToolFrame
<1>2. ArgsOK(d) /\ OutputOK(d)
  BY DEF Inv, IInv, ArgsInv, OutputInv
<1>3. args[d] + read[d] \in Nat /\ sent[d] \in Nat
  BY BoundsAssumption, CapacityAssumption DEF Inv, TypeOK
<1> QED
  BY <1>1, <1>2, <1>3, ArgsKept, OutputKept, KindsKept

(* A tool reads.                                                           *)
LEMMA ToolReadInv ==
    ASSUME Inv, NEW c \in Calls, ToolRead(c)
    PROVE  Inv'
<1>1. /\ tool[c] = "reading" /\ args[c] > 0
      /\ args' = [args EXCEPT ![c] = @ - 1]
      /\ read' = [read EXCEPT ![c] = @ + 1]
      /\ UNCHANGED <<gen, called, open, sent, handled, through, passed,
                     answered, states, drained, sender, results, tool, written,
                     out>>
  BY DEF ToolRead, provider, inner
<1>2. /\ MaxArgs \in Nat /\ Capacity \in Nat
      /\ args[c] \in 0 .. Capacity /\ read[c] \in 0 .. MaxArgs
      /\ sent[c] \in 0 .. MaxArgs /\ Sending(c) \in {0, 1}
      /\ ArgsOK(c) /\ OutputOK(c)
  BY BoundsAssumption, CapacityAssumption
     DEF Inv, TypeOK, IInv, ArgsInv, OutputInv, Sending
<1>3. /\ args'[c] = args[c] - 1 /\ read'[c] = read[c] + 1
      /\ \A d \in Calls \ {c} : args'[d] = args[d] /\ read'[d] = read[d]
  BY <1>1 DEF Inv, TypeOK
<1>4. args[c] - 1 \in 0 .. Capacity /\ read[c] + 1 \in 0 .. MaxArgs
  BY <1>1, <1>2 DEF ArgsOK
<1>5. TypeOK'
  BY <1>1, <1>4 DEF Inv, TypeOK
<1>6. /\ (ShapeInv /\ StatesInv /\ LogInv /\ InnerInv /\ OnceInv)'
      /\ Dropped' = Dropped /\ Sending(c)' = Sending(c)
      /\ Joined(c)' <=> Joined(c)
      /\ Chunks(c)' = Chunks(c)
  BY <1>1, ToolFrame
<1>7. \A d \in Calls \ {c} : ArgsOK(d)' /\ OutputOK(d)'
  BY <1>1, <1>3, OthersKept
<1>8. ArgsOK(c)'
  BY <1>1, <1>2, <1>3, <1>6 DEF ArgsOK, Running
<1>9. OutputOK(c)'
  BY <1>1, <1>2, <1>6, KindsKept DEF OutputOK, Running
<1>10. (ArgsInv /\ OutputInv)'
  BY <1>7, <1>8, <1>9 DEF ArgsInv, OutputInv
<1> QED
  BY <1>5, <1>6, <1>10 DEF Inv, IInv

(* A tool sends output, waits and goes on.                                 *)
LEMMA ToolWriteInv ==
    ASSUME Inv, NEW c \in Calls, ToolWrite(c) \/ ToolWritten(c)
    PROVE  Inv'
<1>1. UNCHANGED <<gen, called, open, sent, handled, through, passed, answered,
                  states, drained, sender, args, read, out>>
  BY DEF ToolWrite, ToolWritten, provider, inner
<1>2. \/ /\ MayWork(c) /\ written[c] < MaxOutput
         /\ tool' = [tool EXCEPT ![c] = "writing"]
         /\ UNCHANGED <<results, written>>
      \/ /\ tool[c] = "writing"
         /\ ~Dropped => results[c] < Capacity
         /\ results' = IF Dropped THEN results ELSE [results EXCEPT ![c] = @ + 1]
         /\ written' = [written EXCEPT ![c] = @ + 1]
         /\ tool' = [tool EXCEPT ![c] = "reading"]
  BY DEF ToolWrite, ToolWritten
<1>3. /\ MaxOutput \in Nat /\ Capacity \in Nat
      /\ results[c] \in 0 .. Capacity /\ written[c] \in 0 .. MaxOutput
      /\ ArgsOK(c) /\ OutputOK(c)
      /\ args[c] \in Nat /\ read[c] \in Nat /\ sent[c] \in Nat
      /\ Sending(c) \in {0, 1}
      /\ out \in Seq(Events)
  BY BoundsAssumption, CapacityAssumption
     DEF Inv, TypeOK, IInv, ArgsInv, OutputInv, Sending
<1>4. /\ results[c] < Capacity => results[c] + 1 \in 0 .. Capacity
      /\ written[c] < MaxOutput => written[c] + 1 \in 0 .. MaxOutput
  BY <1>3
<1>5. TypeOK'
  BY <1>1, <1>2, <1>3, <1>4, ZenonT(60) DEF Inv, TypeOK, OutputOK
<1>6. \A d \in Calls \ {c} : /\ tool'[d] = tool[d] /\ results'[d] = results[d]
                             /\ written'[d] = written[d]
  BY <1>2 DEF Inv, TypeOK
<1>7. /\ Running(c) /\ tool'[c] \in {"reading", "writing"}
      /\ tool'[c] = "writing" => MayWork(c) /\ written[c] < MaxOutput
                                    /\ results'[c] = results[c]
                                    /\ written'[c] = written[c]
      /\ tool'[c] = "reading" => tool[c] = "writing"
                                    /\ written'[c] = written[c] + 1
                                    /\ (~Dropped => results'[c] = results[c] + 1)
  BY <1>2 DEF Inv, TypeOK, Running, MayWork
<1>8. \A d \in Calls : tool'[d] = "none" <=> tool[d] = "none"
  BY <1>6, <1>7 DEF Running
<1>9. /\ (ShapeInv /\ StatesInv /\ LogInv /\ InnerInv /\ OnceInv)'
      /\ Dropped' = Dropped /\ Sending(c)' = Sending(c)
      /\ Joined(c)' <=> Joined(c)
      /\ Chunks(c)' = Chunks(c)
  BY <1>1, <1>8, ToolFrame
<1>10. \A d \in Calls \ {c} : ArgsOK(d)' /\ OutputOK(d)'
  BY <1>1, <1>6, <1>8, OthersKept
<1>11. ArgsOK(c)'
  <2>1. tool'[c] = "writing" /\ ~Streaming => args[c] = 0 /\ ~sender[c]
    BY <1>7 DEF MayWork, ArgsEnded
  <2>2. ~sender[c] /\ ~Dropped => Sending(c) = 0
    BY <1>7 DEF Inv, IInv, ShapeInv, StatesInv, Sending, Running
  <2> QED
    BY <1>1, <1>3, <1>7, <1>9, <2>1, <2>2 DEF ArgsOK, Running
<1>12. OutputOK(c)'
  <2>1. Chunks(c) \in Nat
    BY <1>3, PlacesFinite
  <2>2. ~Dropped => ~Joined(c)
    BY <1>3, <1>7 DEF OutputOK
  <2>3. /\ results[c] \in Nat /\ written[c] \in Nat
        /\ (Joined(c) /\ ~Dropped)' => FALSE
        /\ tool'[c] # "none" /\ tool[c] # "none" /\ tool'[c] # "panicked"
        /\ tool[c] # "panicked"
    BY <1>3, <1>7, <1>9, <2>2 DEF Running
  <2>4. CASE tool'[c] = "writing"
    BY <1>1, <1>3, <1>7, <1>9, <2>3, <2>4, KindsKept DEF OutputOK
  <2>5. CASE tool'[c] = "reading"
    <3>1. ~Dropped /\ c \in Known => Chunks(c) + results'[c] = written'[c]
      <4> SUFFICES ASSUME ~Dropped, c \in Known
                   PROVE  Chunks(c) + results'[c] = written'[c]
        OBVIOUS
      <4>1. Chunks(c) + results[c] = written[c] + 0
        BY <1>3, <2>3 DEF OutputOK
      <4>2. results'[c] = results[c] + 1 /\ written'[c] = written[c] + 1
        BY <1>7, <2>5
      <4> QED
        BY <2>1, <2>3, <4>1, <4>2
    <3> QED
      BY <1>1, <1>3, <1>7, <1>9, <2>3, <2>5, <3>1, KindsKept DEF OutputOK
  <2> QED
    BY <1>7, <2>4, <2>5
<1>13. (ArgsInv /\ OutputInv)'
  BY <1>10, <1>11, <1>12 DEF ArgsInv, OutputInv
<1> QED
  BY <1>5, <1>9, <1>13 DEF Inv, IInv

(* A tool returns or panics.                                               *)
LEMMA ToolEndInv ==
    ASSUME Inv, NEW c \in Calls, ToolReturn(c) \/ ToolPanic(c)
    PROVE  Inv'
<1>1. UNCHANGED <<gen, called, open, sent, handled, through, passed, answered,
                  states, drained, sender, results, read, written, out>>
  BY DEF ToolReturn, ToolPanic, provider, inner
<1>2. /\ tool[c] = "reading"
      /\ args' = [args EXCEPT ![c] = 0]
      /\ \/ MayWork(c) /\ tool' = [tool EXCEPT ![c] = "returned"]
         \/ tool' = [tool EXCEPT ![c] = "panicked"]
  BY DEF ToolReturn, ToolPanic, MayWork
<1>3. /\ Capacity \in Nat /\ 0 \in 0 .. Capacity
      /\ args[c] \in Nat /\ read[c] \in Nat /\ sent[c] \in Nat
      /\ Sending(c) \in {0, 1}
      /\ ArgsOK(c) /\ OutputOK(c)
  BY BoundsAssumption, CapacityAssumption
     DEF Inv, TypeOK, IInv, ArgsInv, OutputInv, Sending
<1>4. TypeOK'
  BY <1>1, <1>2, <1>3 DEF Inv, TypeOK
<1>5. /\ args'[c] = 0 /\ tool'[c] \in {"returned", "panicked"}
      /\ tool'[c] = "returned" => MayWork(c)
      /\ \A d \in Calls \ {c} : args'[d] = args[d] /\ tool'[d] = tool[d]
  BY <1>2 DEF Inv, TypeOK
<1>6. \A d \in Calls : tool'[d] = "none" <=> tool[d] = "none"
  BY <1>2, <1>5
<1>7. /\ (ShapeInv /\ StatesInv /\ LogInv /\ InnerInv /\ OnceInv)'
      /\ Dropped' = Dropped /\ Sending(c)' = Sending(c)
      /\ Joined(c)' <=> Joined(c)
      /\ Chunks(c)' = Chunks(c)
  BY <1>1, <1>6, ToolFrame
<1>8. \A d \in Calls \ {c} : ArgsOK(d)' /\ OutputOK(d)'
  BY <1>1, <1>5, <1>6, OthersKept
<1>9. ArgsOK(c)'
  <2>1. tool'[c] = "returned" /\ ~Streaming => args[c] = 0 /\ ~sender[c]
    BY <1>5 DEF MayWork, ArgsEnded
  <2>2. ~sender[c] /\ ~Dropped => Sending(c) = 0
    BY <1>2 DEF Inv, IInv, ShapeInv, StatesInv, Sending
  <2> QED
    BY <1>1, <1>2, <1>3, <1>5, <1>7, <2>1, <2>2 DEF ArgsOK, Running
<1>10. OutputOK(c)'
  <2>1. ~Dropped => ~Joined(c)
    BY <1>2, <1>3 DEF OutputOK, Running
  <2> QED
    BY <1>1, <1>2, <1>3, <1>5, <1>7, <2>1, KindsKept DEF OutputOK, Running
<1>11. (ArgsInv /\ OutputInv)'
  BY <1>8, <1>9, <1>10 DEF ArgsInv, OutputInv
<1> QED
  BY <1>4, <1>7, <1>11 DEF Inv, IInv

(* What the types say, for the steps of the generator.                     *)
LEMMA Typed ==
    ASSUME Inv
    PROVE  /\ NCalls \in Nat /\ MaxArgs \in Nat /\ Capacity \in Nat
           /\ called \in Nat /\ open \in Nat /\ drained \in Nat /\ called <= NCalls
           /\ passed \in Nat /\ through \in Nat /\ handled \subseteq Calls
           /\ 0 \notin Messages /\ 0 \notin Calls
           /\ \A m \in Messages : m \in Nat /\ m \notin Calls
           /\ out \in Seq(Events) /\ states \in Seq(Calls) /\ Len(states) \in Nat
           /\ DOMAIN states = 1 .. Len(states)
           /\ \A d \in Calls :
                 /\ d \in Nat /\ d # 0 /\ d <= NCalls
                 /\ args[d] \in Nat /\ read[d] \in Nat /\ sent[d] \in Nat
                 /\ args[d] + read[d] \in Nat
                 /\ results[d] \in Nat /\ written[d] \in Nat
<1>1. NCalls \in Nat /\ MaxOthers \in Nat /\ MaxArgs \in Nat /\ Capacity \in Nat /\ MaxOutput \in Nat
  BY BoundsAssumption, CapacityAssumption
<1>2. /\ called \in Nat /\ open \in Nat /\ drained \in Nat /\ called <= NCalls
      /\ out \in Seq(Events) /\ states \in Seq(Calls) /\ Len(states) \in Nat
      /\ DOMAIN states = 1 .. Len(states)
  BY <1>1 DEF Inv, TypeOK
<1>5. /\ passed \in Nat /\ through \in Nat /\ handled \subseteq Calls
      /\ 0 \notin Messages /\ 0 \notin Calls
      /\ \A m \in Messages : m \in Nat /\ m \notin Calls
  BY <1>1, CallsAssumption DEF Inv, TypeOK, Messages, Calls
<1>3. \A d \in Calls :
         /\ args[d] \in Nat /\ read[d] \in Nat /\ sent[d] \in Nat
         /\ results[d] \in Nat /\ written[d] \in Nat
  BY <1>1 DEF Inv, TypeOK
<1>4. \A d \in Calls : d \in Nat /\ d # 0 /\ d <= NCalls
  BY <1>1 DEF Calls
<1> QED
  BY <1>1, <1>2, <1>3, <1>4, <1>5

(* The generator is dropped: it holds nothing and yields nothing more.     *)
LEMMA DropInv ==
    ASSUME Inv, NEW why \in {"failed", "cancelled"}, Drop(why), ~Dropped
    PROVE  Inv'
<1>1. /\ gen' = why
      /\ sender' = [c \in Calls |-> FALSE]
      /\ results' = [c \in Calls |-> 0]
      /\ UNCHANGED <<called, open, sent, handled, through, passed, answered,
                     states, drained, args, tool, read, written, out>>
      /\ Dropped'
  BY DEF Drop, provider, inner, tasks, Dropped
<1>2. TypeOK'
  BY <1>1, CapacityAssumption DEF Inv, TypeOK, GenStates
<1>3. ShapeInv'
  BY KindsKept, <1>1, Typed DEF Inv, IInv, ShapeInv, Answering, FirstLoop, SecondLoop
<1>4. StatesInv'
  BY KindsKept, <1>1 DEF Inv, IInv, StatesInv, HasState
<1>5. ArgsInv'
  <2> SUFFICES ASSUME NEW d \in Calls PROVE ArgsOK(d)'
    BY DEF ArgsInv
  <2>1. ArgsOK(d)
    BY DEF Inv, IInv, ArgsInv
  <2>2. /\ Sending(d)' = Sending(d)
           \/ (Dropped' /\ Sending(d) = 1 /\ Sending(d)' = 0)
        /\ ~(gen' = "spawn") /\ sender'[d] => sender[d]
    BY <1>1 DEF Sending
  <2> QED
    BY <1>1, <2>1, <2>2, Typed, ArgsKept
<1>6. OutputInv'
  BY <1>1, KindsKept DEF Inv, IInv, OutputInv, OutputOK
<1>7. LogInv'
  BY <1>1 DEF Inv, IInv, LogInv, Yielded
<1>9. InnerInv'
  BY <1>1 DEF Inv, IInv, InnerInv, Yielded, SecondLoop
<1>8. OnceInv'
  BY <1>1, Typed, SilentFacts DEF Inv, IInv
<1> QED
  BY <1>2, <1>3, <1>4, <1>5, <1>6, <1>7, <1>8, <1>9 DEF Inv, IInv

(* A call that is not handled yet starts.                                  *)
LEMMA PullStartInv ==
    ASSUME Inv, PullStart
    PROVE  Inv'
<1> DEFINE c == called + 1
<1>1. /\ gen = "pull" /\ open = 0 /\ through = 0 /\ c \in Calls
      /\ called' = c /\ open' = c
      /\ Yield("tool", "start", c)
      /\ gen' = IF c \in Unknown THEN "unknown" ELSE "spawn"
      /\ UNCHANGED <<sent, handled, through, passed, answered, states, drained,
                     sender, args, results, tool, read, written>>
  BY DEF PullStart, tasks, inner
<1>2. c \in Nat /\ c > called /\ c # 0 /\ \A d \in Calls : d <= c <=> d <= called \/ d = c
  BY Typed
<1>3. <<"tool", "start", c>> \in Events
  BY <1>1, EventsOf DEF Steps
<1>16. c \notin handled
  BY <1>1, <1>2, Typed DEF Inv, IInv, InnerInv
<1> HIDE DEF c
<1>4. ~Dropped /\ ~Dropped' /\ gen' \in {"unknown", "spawn"}
  BY <1>1 DEF Dropped
<1>5. ~Yielded("tool", "start", c)
  BY <1>1, <1>2, Typed DEF Inv, IInv, LogInv
<1>6. /\ out' \in Seq(Events)
      /\ \A k, s, d : Yielded(k, s, d)'
            <=> Yielded(k, s, d) \/ (k = "tool" /\ s = "start" /\ d = c)
      /\ \A d : Chunks(d)' = Chunks(d)
  BY <1>1, <1>3, Typed, YieldFacts, SMTT(30)
<1>7. OnceInv'
  BY <1>1, <1>3, <1>5, Typed, YieldOnce DEF Inv, IInv
<1>8. TypeOK'
  <2>1. c \in 0 .. NCalls
    BY <1>1, <1>2, Typed
  <2> QED
    BY <1>1, <1>4, <1>6, <2>1 DEF Inv, TypeOK, GenStates
<1>9. ShapeInv'
  BY KindsKept, <1>1, <1>2, <1>16, Typed
     DEF Inv, IInv, ShapeInv, Answering, FirstLoop, SecondLoop, Known, NoTool
<1>10. \A d \in Calls : HasState(d)' <=> HasState(d)
  BY <1>1 DEF HasState
<1>11. \A d \in Calls : HasState(d) => d \in Known /\ d <= called /\ d # c
  BY <1>1, <1>2, Typed DEF Inv, IInv, StatesInv
<1>12. StatesInv'
  BY KindsKept, <1>1, <1>2, <1>4, <1>16, <1>10, <1>11, Typed DEF Inv, IInv, StatesInv, Known
<1>13. ArgsInv'
  <2> SUFFICES ASSUME NEW d \in Calls PROVE ArgsOK(d)'
    BY DEF ArgsInv
  <2>1. ArgsOK(d)
    BY DEF Inv, IInv, ArgsInv
  <2>2. Sending(d)' = Sending(d)
    BY <1>1, <1>4 DEF Sending
  <2>3. (d > called \/ (gen = "spawn" /\ d = open))' => d > called
    BY <1>1, <1>2, Typed
  <2> QED
    BY <1>1, <1>4, <2>1, <2>2, <2>3, Typed, ArgsKept
<1>14. OutputInv'
  <2> SUFFICES ASSUME NEW d \in Calls PROVE OutputOK(d)'
    BY DEF OutputInv
  <2>1. OutputOK(d)
    BY DEF Inv, IInv, OutputInv
  <2>2. Joined(d)' <=> Joined(d)
    BY <1>1, <1>4 DEF Joined, Finished
  <2>3. d \in NoTool =>
           ((d > called \/ (d = open /\ gen \in {"unknown", "unknownChunk"}))'
               <=> d > called \/ (d = open /\ gen \in {"unknown", "unknownChunk"}))
    BY <1>1, <1>2, Typed DEF NoTool
  <2> QED
    BY <1>1, <1>4, <1>6, <2>1, <2>2, <2>3, OutputKept, KindsKept
<1>15. LogInv'
  <2> SUFFICES ASSUME NEW d \in Calls
               PROVE  /\ Yielded("tool", "start", d)' <=> d <= c /\ d \notin handled
                      /\ Yielded("tool", "complete", d)' <=> d <= c /\ d # c
                      /\ Yielded("result", "start", d)' <=> Begun(d)'
                      /\ Yielded("result", "complete", d)' <=> Ended(d)'
    BY <1>1 DEF LogInv
  <2>1. /\ Yielded("tool", "start", d) <=> d <= called /\ d \notin handled
        /\ Yielded("tool", "complete", d) <=> d <= called
        /\ Yielded("result", "start", d) <=> Begun(d)
        /\ Yielded("result", "complete", d) <=> Ended(d)
    BY <1>1, <1>4, Typed DEF Inv, IInv, LogInv
  <2>2. (Begun(d)' <=> Begun(d)) /\ (Ended(d)' <=> Ended(d))
    BY <1>1, <1>2, Typed DEF Begun, Ended, Finished, Answering
  <2> QED
    BY <1>1, <1>2, <1>6, <1>16, <2>1, <2>2, Typed
<1>17. InnerInv'
  <2>1. \A d \in handled : d <= called => d <= called'
    BY <1>1, <1>2, Typed
  <2>2. through \notin Messages /\ gen' \notin SecondLoop
    BY <1>1, <1>4, Typed DEF SecondLoop
  <2>3. \A m, step : Yielded("message", step, m)' <=> Yielded("message", step, m)
    BY <1>6
  <2> QED
    BY <1>1, <2>1, <2>2, <2>3, InnerKept DEF Inv, IInv
<1> QED
  BY <1>7, <1>8, <1>9, <1>12, <1>13, <1>14, <1>15, <1>17 DEF Inv, IInv

(* A call that an inner layer handles is passed over.                      *)
LEMMA PullHandledInv ==
    ASSUME Inv, PullHandled
    PROVE  Inv'
<1> DEFINE c == called + 1
<1>1. /\ gen = "pull" /\ open = 0 /\ through = 0 /\ c \in Handled
      /\ called' = c /\ open' = c
      /\ handled' = handled \cup {c}
      /\ UNCHANGED <<gen, sent, through, passed, answered, states,
                     drained, sender, args, results, tool, read, written, out>>
  BY DEF PullHandled, tasks, inner
<1>2. c \in Nat /\ c > called /\ c # 0 /\ \A d \in Calls : d <= c <=> d <= called \/ d = c
  BY Typed
<1>3. /\ c \in Calls /\ c \notin handled /\ c \notin answered
      /\ Known' = Known \ {c} /\ NoTool' = NoTool \ {c}
  BY <1>1, <1>2, CallsAssumption, Typed DEF Known, NoTool, Inv, IInv, InnerInv
<1> HIDE DEF c
<1>4. ~Dropped /\ ~Dropped'
  BY <1>1 DEF Dropped
<1>5. /\ out \in Seq(Events) /\ OnceInv'
      /\ \A k, s, d : Yielded(k, s, d)' <=> Yielded(k, s, d)
      /\ \A d : Chunks(d)' = Chunks(d)
  BY <1>1, Typed, SilentFacts DEF Inv, IInv
<1>6. TypeOK'
  <2>1. c \in 0 .. NCalls
    BY <1>2, <1>3, Typed
  <2> QED
    BY <1>1, <2>1, CallsAssumption DEF Inv, TypeOK
<1>7. ShapeInv'
  BY <1>1, <1>2, <1>3, Typed
     DEF Inv, IInv, ShapeInv, Answering, FirstLoop, SecondLoop
<1>8. \A d \in Calls : HasState(d)' <=> HasState(d)
  BY <1>1 DEF HasState
<1>9. \A d \in Calls : HasState(d) => d \in Known /\ d <= called /\ d # c
  BY <1>2, Typed DEF Inv, IInv, StatesInv
<1>10. StatesInv'
  BY <1>1, <1>2, <1>3, <1>4, <1>8, <1>9, Typed DEF Inv, IInv, StatesInv
<1>11. ArgsInv'
  <2> SUFFICES ASSUME NEW d \in Calls PROVE ArgsOK(d)'
    BY DEF ArgsInv
  <2>1. ArgsOK(d)
    BY DEF Inv, IInv, ArgsInv
  <2>2. Sending(d)' = Sending(d)
    BY <1>1 DEF Sending
  <2>3. (d > called \/ (gen = "spawn" /\ d = open))' => d > called
    BY <1>1, <1>2, Typed
  <2> QED
    BY <1>1, <1>4, <2>1, <2>2, <2>3, Typed, ArgsKept
<1>12. OutputInv'
  <2> SUFFICES ASSUME NEW d \in Calls PROVE OutputOK(d)'
    BY DEF OutputInv
  <2>1. OutputOK(d)
    BY DEF Inv, IInv, OutputInv
  <2>2. Joined(d)' <=> Joined(d)
    BY <1>1 DEF Joined, Finished
  <2>3. (d \in NoTool)' =>
           ((d > called \/ (d = open /\ gen \in {"unknown", "unknownChunk"}))'
               <=> d > called \/ (d = open /\ gen \in {"unknown", "unknownChunk"}))
    BY <1>1, <1>2, <1>3, Typed
  <2> QED
    BY <1>1, <1>4, <1>5, <2>1, <2>2, <2>3, <1>3, OutputKept
<1>13. LogInv'
  <2> SUFFICES ASSUME NEW d \in Calls
               PROVE  /\ Yielded("tool", "start", d)' <=> d <= c /\ d \notin handled'
                      /\ Yielded("tool", "complete", d)' <=> d <= c /\ d # c
                      /\ Yielded("result", "start", d)' <=> Begun(d)'
                      /\ Yielded("result", "complete", d)' <=> Ended(d)'
    BY <1>1 DEF LogInv
  <2>1. /\ Yielded("tool", "start", d) <=> d <= called /\ d \notin handled
        /\ Yielded("tool", "complete", d) <=> d <= called
        /\ Yielded("result", "start", d) <=> Begun(d)
        /\ Yielded("result", "complete", d) <=> Ended(d)
    BY <1>1, <1>4, Typed DEF Inv, IInv, LogInv
  <2>2. (Begun(d)' <=> Begun(d)) /\ (Ended(d)' <=> Ended(d))
    <3>1. ~Finished(d) /\ ~Finished(d)'
      BY <1>1 DEF Finished, Inv, IInv, ShapeInv, FirstLoop
    <3>2. CASE d = c
      BY <1>1, <1>2, <1>3, <3>1, <3>2, Typed DEF Begun, Ended
    <3>3. CASE d # c
      BY <1>1, <1>2, <1>3, <3>1, <3>3, Typed DEF Begun, Ended, Answering
    <3> QED
      BY <3>2, <3>3
  <2> QED
    BY <1>1, <1>2, <1>3, <1>5, <2>1, <2>2, Typed
<1>14. InnerInv'
  <2>1. \A d \in handled : d <= called
    BY DEF Inv, IInv, InnerInv
  <2>2. \A d \in handled' : d <= c
    BY <1>1, <1>2, <2>1, Typed
  <2> QED
    BY <1>1, <1>5, <2>2, Typed DEF Inv, IInv, InnerInv, SecondLoop
<1> QED
  BY <1>5, <1>6, <1>7, <1>10, <1>11, <1>12, <1>13, <1>14 DEF Inv, IInv

(* The result of a call that names no tool, event by event.                *)
LEMMA AnswerUnknownInv ==
    ASSUME Inv, AnswerUnknown
    PROVE  Inv'
<1>1. PICK step \in {"start", "chunk", "complete"} :
        /\ Yield("result", step, open)
        /\ \/ step = "start" /\ gen = "unknown" /\ gen' = "unknownChunk"
           \/ step = "chunk" /\ gen = "unknownChunk" /\ gen' = "unknownEnd"
           \/ step = "complete" /\ gen = "unknownEnd" /\ gen' = "pull"
  BY DEF AnswerUnknown
<1>2. UNCHANGED <<called, open, sent, handled, through, passed, answered,
                  states, drained, sender, args, results, tool, read, written>>
  BY DEF AnswerUnknown, provider, inner, tasks
<1>3. /\ gen \in Answering /\ gen' \in Answering \cup {"pull"}
      /\ ~Dropped /\ ~Dropped'
  BY <1>1 DEF Answering, Dropped
<1>4. /\ open \in Unknown /\ open \in Calls /\ open = called /\ open \notin Known
      /\ open \notin handled /\ open \in NoTool /\ drained = 0 /\ through = 0
  BY <1>3, CallsAssumption, Typed
     DEF Inv, IInv, ShapeInv, InnerInv, Known, NoTool, FirstLoop, Answering
<1>5. <<"result", step, open>> \in Events
  BY <1>4, EventsOf DEF Steps
<1>6. /\ Yielded("result", "start", open) <=> gen # "unknown"
      /\ ~Yielded("result", "complete", open)
  BY <1>3, <1>4, Typed DEF Inv, IInv, LogInv, Begun, Ended
<1>7. /\ out' \in Seq(Events)
      /\ \A k, s, d : Yielded(k, s, d)'
            <=> Yielded(k, s, d) \/ (k = "result" /\ s = step /\ d = open)
      /\ \A d : Chunks(d)' = Chunks(d) + (IF step = "chunk" /\ d = open THEN 1 ELSE 0)
      /\ \A d : Chunks(d) \in Nat
  BY <1>4, <1>5, <1>1, Typed, YieldFacts
<1>8. OnceInv'
  BY <1>1, <1>4, <1>5, <1>6, Typed, YieldOnce DEF Inv, IInv
<1>9. TypeOK'
  BY <1>2, <1>3, <1>7 DEF Inv, TypeOK, GenStates, Answering
<1>10. ShapeInv'
  BY KindsKept, <1>2, <1>3, <1>4, Typed
     DEF Inv, IInv, ShapeInv, Answering, FirstLoop, SecondLoop
<1>11. StatesInv'
  BY KindsKept, <1>2, <1>3 DEF Inv, IInv, StatesInv, HasState, Answering
<1>12. ArgsInv'
  <2> SUFFICES ASSUME NEW d \in Calls PROVE ArgsOK(d)'
    BY DEF ArgsInv
  <2>1. ArgsOK(d)
    BY DEF Inv, IInv, ArgsInv
  <2>2. Sending(d)' = Sending(d) /\ ~(gen' = "spawn")
    BY <1>3 DEF Sending, Answering
  <2> QED
    BY <1>2, <1>3, <2>1, <2>2, Typed, ArgsKept
<1>13. OutputInv'
  <2> SUFFICES ASSUME NEW d \in Calls PROVE OutputOK(d)'
    BY DEF OutputInv
  <2>1. OutputOK(d)
    BY DEF Inv, IInv, OutputInv
  <2>2. Joined(d)' <=> Joined(d)
    BY <1>2, <1>3 DEF Joined, Finished, Answering
  <2>3. CASE d # open
    BY <1>2, <1>3, <1>7, <2>1, <2>2, <2>3, OutputKept, KindsKept
  <2>4. CASE d = open
    <3>1. Chunks(d) = IF gen \in {"unknown", "unknownChunk"} THEN 0 ELSE 1
      BY <1>3, <1>4, <2>1, <2>4, Typed DEF OutputOK
    <3>2. Chunks(d)' = IF gen' \in {"unknown", "unknownChunk"} THEN 0 ELSE 1
      BY <1>1, <1>7, <2>4, <3>1
    <3> QED
      BY <1>2, <1>3, <1>4, <2>1, <2>2, <2>4, <3>2, KindsKept, Typed DEF OutputOK, Running
  <2> QED
    BY <2>3, <2>4
<1>14. LogInv'
  <2> SUFFICES ASSUME NEW d \in Calls
               PROVE  /\ Yielded("tool", "start", d)' <=> d <= called /\ d \notin handled
                      /\ Yielded("tool", "complete", d)' <=> d <= called /\ d # open
                      /\ Yielded("result", "start", d)' <=> Begun(d)'
                      /\ Yielded("result", "complete", d)' <=> Ended(d)'
    BY <1>2 DEF LogInv
  <2>1. /\ Yielded("tool", "start", d) <=> d <= called /\ d \notin handled
        /\ Yielded("tool", "complete", d) <=> d <= called /\ d # open
        /\ Yielded("result", "start", d) <=> Begun(d)
        /\ Yielded("result", "complete", d) <=> Ended(d)
    BY <1>3, Typed DEF Inv, IInv, LogInv
  <2>2. CASE d # open
    BY <1>2, <1>3, <1>7, <2>1, <2>2 DEF Begun, Ended, Finished, Answering
  <2>3. CASE d = open
    BY <1>1, <1>2, <1>4, <1>6, <1>7, <2>1, <2>3, Typed DEF Begun, Ended, Answering
  <2> QED
    BY <2>2, <2>3
<1>15. InnerInv'
  BY <1>2, <1>3, <1>4, <1>7, Typed, InnerKept
     DEF Inv, IInv, InnerInv, SecondLoop, Answering
<1> QED
  BY <1>8, <1>9, <1>10, <1>11, <1>12, <1>13, <1>14, <1>15 DEF Inv, IInv

(* The task of a call starts, with channels of its own.                    *)
LEMMA SpawnInv ==
    ASSUME Inv, Spawn
    PROVE  Inv'
<1>1. /\ gen = "spawn" /\ gen' = "pull"
      /\ states' = Append(states, open)
      /\ sender' = [sender EXCEPT ![open] = TRUE]
      /\ tool' = [tool EXCEPT ![open] = "reading"]
      /\ UNCHANGED <<called, open, sent, handled, through, passed, answered,
                     drained, args, results, read, written, out>>
      /\ ~Dropped /\ ~Dropped'
  BY DEF Spawn, provider, inner, Dropped
<1>2. /\ open \in Known /\ open \in Calls /\ open = called /\ drained = 0
      /\ through = 0 /\ open \notin handled
      /\ ~HasState(open) /\ tool[open] = "none" /\ ArgsOK(open) /\ OutputOK(open)
  BY <1>1, Typed
     DEF Inv, IInv, ShapeInv, StatesInv, ArgsInv, OutputInv, InnerInv, Known,
         FirstLoop
<1>3. /\ states' \in Seq(Calls)
      /\ DOMAIN states' = DOMAIN states \cup {Len(states) + 1}
      /\ Len(states') = Len(states) + 1
      /\ \A i \in DOMAIN states : states'[i] = states[i]
      /\ states'[Len(states) + 1] = open
  BY <1>1, <1>2, Typed, AppendProperties, LenProperties
<1>4. \A d \in Calls : HasState(d)' <=> HasState(d) \/ d = open
  BY <1>3 DEF HasState
<1>5. /\ sender'[open] = TRUE /\ tool'[open] = "reading"
      /\ \A d \in Calls \ {open} : sender'[d] = sender[d] /\ tool'[d] = tool[d]
  BY <1>1, <1>2 DEF Inv, TypeOK
<1>6. /\ OnceInv'
      /\ \A k, s, d : Yielded(k, s, d)' <=> Yielded(k, s, d)
      /\ \A d : Chunks(d)' = Chunks(d)
  BY <1>1, Typed, SilentFacts DEF Inv, IInv
<1>7. TypeOK'
  BY <1>1, <1>2, <1>3 DEF Inv, TypeOK, GenStates
<1>8. ShapeInv'
  BY KindsKept, <1>1, <1>2, <1>3, Typed
     DEF Inv, IInv, ShapeInv, Answering, FirstLoop, SecondLoop
<1>9. StatesInv'
  <2>1. \A i, j \in DOMAIN states' : states'[i] = states'[j] => i = j
    BY KindsKept, <1>2, <1>3 DEF Inv, IInv, StatesInv, HasState
  <2> SUFFICES ASSUME NEW d \in Calls
               PROVE  /\ HasState(d)' <=> tool'[d] # "none"
                      /\ HasState(d)' => d \in Known /\ d <= called
                      /\ d \in Known /\ d <= called => HasState(d)'
                      /\ sender'[d] <=> HasState(d)' /\ d = open
    BY KindsKept, <1>1, <2>1 DEF StatesInv
  <2>2. CASE d = open
    BY KindsKept, <1>2, <1>4, <1>5, <2>2, Typed
  <2>3. CASE d # open
    BY KindsKept, <1>1, <1>4, <1>5, <2>3 DEF Inv, IInv, StatesInv
  <2> QED
    BY KindsKept, <2>2, <2>3
<1>10. ArgsInv'
  <2> SUFFICES ASSUME NEW d \in Calls PROVE ArgsOK(d)'
    BY DEF ArgsInv
  <2>1. CASE d = open
    <3>1. args[d] = 0 /\ read[d] = 0 /\ sent[d] = 0 /\ Sending(d)' = 0
      BY <1>1, <1>2, <2>1 DEF ArgsOK, Sending
    <3> QED
      BY <1>1, <1>2, <1>5, <2>1, <3>1, Typed DEF ArgsOK
  <2>2. CASE d # open
    <3>1. ArgsOK(d) /\ Sending(d)' = Sending(d)
      BY <1>1 DEF Inv, IInv, ArgsInv, Sending
    <3> QED
      BY <1>1, <1>5, <2>2, <3>1, Typed, ArgsKept
  <2> QED
    BY <2>1, <2>2
<1>11. OutputInv'
  <2> SUFFICES ASSUME NEW d \in Calls PROVE OutputOK(d)'
    BY DEF OutputInv
  <2>1. ~Joined(d) /\ ~Joined(d)'
    BY <1>1, <1>2 DEF Joined, Finished
  <2>2. CASE d = open
    BY <1>1, <1>2, <1>5, <1>6, <2>1, <2>2, KindsKept, Typed DEF OutputOK, Known, NoTool
  <2>3. CASE d # open
    BY <1>1, <1>5, <1>6, <2>1, <2>3, OutputKept, KindsKept DEF Inv, IInv, OutputInv
  <2> QED
    BY <2>2, <2>3
<1>12. LogInv'
  <2> SUFFICES ASSUME NEW d \in Calls
               PROVE  (Begun(d)' <=> Begun(d)) /\ (Ended(d)' <=> Ended(d))
    BY <1>1, <1>6 DEF Inv, IInv, LogInv
  <2>1. ~Finished(d) /\ ~Finished(d)'
    BY <1>1, <1>2 DEF Finished
  <2> QED
    BY <1>1, <1>2, <2>1 DEF Begun, Ended, Known, Answering
<1>13. InnerInv'
  BY <1>1, <1>2, <1>6, Typed, InnerKept DEF Inv, IInv, InnerInv, SecondLoop
<1> QED
  BY <1>6, <1>7, <1>8, <1>9, <1>10, <1>11, <1>12, <1>13 DEF Inv, IInv

(* An event of the open call is yielded as it came.                        *)
LEMMA PassedFacts ==
    ASSUME Inv, open \in Calls, NEW step \in {"chunk", "complete"},
           Yield("tool", step, open),
           step = "complete" => ~Yielded("tool", step, open)
    PROVE  /\ out' \in Seq(Events) /\ OnceInv'
           /\ \A k, s, d : Yielded(k, s, d)'
                 <=> Yielded(k, s, d) \/ (k = "tool" /\ s = step /\ d = open)
           /\ \A d : Chunks(d)' = Chunks(d)
<1>1. <<"tool", step, open>> \in Events
  BY EventsOf DEF Steps
<1>2. OnceInv'
  BY <1>1, Typed, YieldOnce DEF Inv, IInv
<1>3. /\ out' \in Seq(Events)
      /\ \A k, s, d : Yielded(k, s, d)'
            <=> Yielded(k, s, d) \/ (k = "tool" /\ s = step /\ d = open)
      /\ \A d : Chunks(d)' = Chunks(d)
              + (IF "tool" = "result" /\ step = "chunk" /\ d = open THEN 1 ELSE 0)
      /\ \A d : Chunks(d) \in Nat
  BY <1>1, Typed, YieldFacts
<1> QED
  BY <1>2, <1>3

(* A chunk of arguments.                                                   *)
LEMMA PullChunkInv ==
    ASSUME Inv, PullChunk
    PROVE  Inv'
<1>1. /\ gen = "pull" /\ open # 0 /\ through = 0 /\ sent[open] < MaxArgs
      /\ sent' = [sent EXCEPT ![open] = @ + 1]
      /\ Yield("tool", "chunk", open)
      /\ gen' = IF HasState(open) THEN "send" ELSE "pull"
      /\ UNCHANGED <<called, open, handled, through, passed, answered, states,
                     drained, sender, args, results, tool, read, written>>
      /\ ~Dropped /\ ~Dropped'
  BY DEF PullChunk, tasks, inner, Dropped
<1>2. open \in Calls /\ open = called /\ drained = 0
  BY <1>1, Typed DEF Inv, TypeOK, IInv, ShapeInv, FirstLoop, Calls
<1>3. /\ out' \in Seq(Events) /\ OnceInv'
      /\ \A k, s, d : Yielded(k, s, d)'
            <=> Yielded(k, s, d) \/ (k = "tool" /\ s = "chunk" /\ d = open)
      /\ \A d : Chunks(d)' = Chunks(d)
  BY <1>1, <1>2, PassedFacts
<1>4. /\ sent'[open] = sent[open] + 1 /\ sent[open] + 1 \in 0 .. MaxArgs
      /\ \A d \in Calls \ {open} : sent'[d] = sent[d]
  <2>1. sent \in [Calls -> 0 .. MaxArgs] /\ MaxArgs \in Nat
    BY Typed DEF Inv, TypeOK
  <2>2. sent[open] + 1 \in 0 .. MaxArgs
    BY <1>1, <1>2, <2>1
  <2> QED
    BY <1>1, <1>2, <2>1, <2>2
<1>5. TypeOK'
  BY <1>1, <1>2, <1>3, <1>4 DEF Inv, TypeOK, GenStates
<1>6. ShapeInv'
  BY KindsKept, <1>1, <1>2, Typed
     DEF Inv, IInv, ShapeInv, StatesInv, Answering, FirstLoop, SecondLoop
<1>7. StatesInv'
  BY KindsKept, <1>1 DEF Inv, IInv, StatesInv, HasState
<1>8. ArgsInv'
  <2> SUFFICES ASSUME NEW d \in Calls PROVE ArgsOK(d)'
    BY DEF ArgsInv
  <2>1. ArgsOK(d) /\ Sending(d) = 0
    BY <1>1 DEF Inv, IInv, ArgsInv, Sending
  <2>2. CASE d # open
    <3>1. Sending(d)' = 0
      BY <1>1, <2>2 DEF Sending
    <3> QED
      BY <1>1, <1>2, <1>4, <2>1, <2>2, <3>1, Typed, ArgsKept
  <2>3. CASE d = open /\ HasState(d)
    <3>1. Sending(d)' = 1 /\ sender[d] /\ tool[d] # "none"
      BY <1>1, <2>3 DEF Sending, Inv, IInv, StatesInv
    <3> QED
      BY <1>1, <1>2, <1>4, <2>1, <2>3, <3>1, Typed DEF ArgsOK, Running
  <2>4. CASE d = open /\ ~HasState(d)
    <3>1. Sending(d)' = 0 /\ tool[d] = "none"
      BY <1>1, <2>4 DEF Sending, Inv, IInv, StatesInv
    <3> QED
      BY <1>1, <1>2, <1>4, <2>1, <2>4, <3>1, Typed, ArgsFree
  <2> QED
    BY <2>2, <2>3, <2>4
<1>9. OutputInv'
  <2> SUFFICES ASSUME NEW d \in Calls PROVE OutputOK(d)'
    BY DEF OutputInv
  <2>1. OutputOK(d) /\ (Joined(d)' <=> Joined(d))
    BY <1>1 DEF Inv, IInv, OutputInv, Joined, Finished
  <2> QED
    BY <1>1, <1>3, <2>1, OutputKept, KindsKept
<1>10. LogInv'
  <2> SUFFICES ASSUME NEW d \in Calls
               PROVE  (Begun(d)' <=> Begun(d)) /\ (Ended(d)' <=> Ended(d))
    BY <1>1, <1>3 DEF Inv, IInv, LogInv
  <2> QED
    BY <1>1 DEF Begun, Ended, Finished, Answering
<1>11. InnerInv'
  BY <1>1, <1>3, Typed, InnerKept DEF Inv, IInv, InnerInv, SecondLoop
<1> QED
  BY <1>3, <1>5, <1>6, <1>7, <1>8, <1>9, <1>10, <1>11 DEF Inv, IInv

(* It goes to the tool, when there is room.                                *)
LEMMA SendArgInv ==
    ASSUME Inv, SendArg
    PROVE  Inv'
<1>1. /\ gen = "send" /\ gen' = "pull"
      /\ Running(open) => args[open] < Capacity
      /\ args' = IF Running(open) THEN [args EXCEPT ![open] = @ + 1] ELSE args
      /\ UNCHANGED <<called, open, sent, handled, through, passed, answered,
                     states, drained, sender, results, tool, read, written,
                     out>>
      /\ ~Dropped /\ ~Dropped'
  BY DEF SendArg, provider, inner, tasks, Dropped
<1>2. /\ open \in Calls /\ open = called /\ drained = 0 /\ open \in Known
      /\ HasState(open) /\ sender[open] /\ tool[open] # "none"
  BY <1>1, Typed
     DEF Inv, IInv, ShapeInv, StatesInv, FirstLoop, Known
<1>3. /\ OnceInv'
      /\ \A k, s, d : Yielded(k, s, d)' <=> Yielded(k, s, d)
      /\ \A d : Chunks(d)' = Chunks(d)
  BY <1>1, Typed, SilentFacts DEF Inv, IInv
<1>4. /\ args'[open] = args[open] + (IF Running(open) THEN 1 ELSE 0)
      /\ args'[open] \in 0 .. Capacity
      /\ \A d \in Calls \ {open} : args'[d] = args[d]
  <2>1. args \in [Calls -> 0 .. Capacity] /\ Capacity \in Nat
    BY Typed DEF Inv, TypeOK
  <2>2. args[open] \in 0 .. Capacity
    BY <1>2, <2>1
  <2>3. args[open] < Capacity => args[open] + 1 \in 0 .. Capacity
    BY <2>1, <2>2
  <2>4. CASE Running(open)
    BY <1>1, <1>2, <2>1, <2>3, <2>4
  <2>5. CASE ~Running(open)
    BY <1>1, <1>2, <2>1, <2>2, <2>5
  <2> QED
    BY <2>4, <2>5
<1>5. TypeOK'
  BY <1>1, <1>2, <1>4 DEF Inv, TypeOK, GenStates
<1>6. ShapeInv'
  BY KindsKept, <1>1, <1>2, Typed
     DEF Inv, IInv, ShapeInv, Answering, FirstLoop, SecondLoop
<1>7. StatesInv'
  BY KindsKept, <1>1 DEF Inv, IInv, StatesInv, HasState
<1>8. ArgsInv'
  <2> SUFFICES ASSUME NEW d \in Calls PROVE ArgsOK(d)'
    BY DEF ArgsInv
  <2>1. ArgsOK(d) /\ Sending(d)' = 0
    BY <1>1 DEF Inv, IInv, ArgsInv, Sending
  <2>2. CASE d # open
    <3>1. Sending(d) = 0
      BY <2>2 DEF Sending
    <3> QED
      BY <1>1, <1>4, <2>1, <2>2, <3>1, Typed, ArgsKept
  <2>3. CASE d = open
    <3>1. Sending(d) = 1
      BY <1>1, <2>3 DEF Sending
    <3>2. /\ sender[d] /\ tool[d] # "none" /\ ~(d > called)
          /\ args'[d] = args[d] + (IF Running(d) THEN 1 ELSE 0)
      BY <1>2, <1>4, <2>3, Typed
    <3>3. args'[d] + read[d] <= sent[d]
      BY <2>1, <2>3, <3>1, <3>2, Typed, SMTT(30) DEF ArgsOK
    <3>4. Running(d) => args'[d] + read[d] = sent[d]
      <4>1. SUFFICES ASSUME Running(d) PROVE args'[d] + read[d] = sent[d]
        OBVIOUS
      <4>2. args[d] + read[d] + 1 = sent[d]
        BY <1>1, <2>1, <3>1, <4>1 DEF ArgsOK
      <4>3. args'[d] = args[d] + 1
        BY <3>2, <4>1
      <4>4. args[d] \in Nat /\ read[d] \in Nat
        BY Typed
      <4> QED
        BY <4>2, <4>3, <4>4
    <3>5. ~(tool[d] \in {"writing", "returned"} /\ ~Streaming)
      BY <1>1, <2>1, <3>2 DEF ArgsOK
    <3>6. args'[d] + read[d] + 0 = args'[d] + read[d]
      BY <1>4, <2>3, Typed
    <3> QED
      BY <1>1, <2>1, <3>2, <3>3, <3>4, <3>5, <3>6 DEF ArgsOK, Running
  <2> QED
    BY <2>2, <2>3
<1>9. OutputInv'
  <2> SUFFICES ASSUME NEW d \in Calls PROVE OutputOK(d)'
    BY DEF OutputInv
  <2>1. OutputOK(d) /\ (Joined(d)' <=> Joined(d))
    BY <1>1 DEF Inv, IInv, OutputInv, Joined, Finished
  <2> QED
    BY <1>1, <1>3, <2>1, OutputKept, KindsKept
<1>10. LogInv'
  <2> SUFFICES ASSUME NEW d \in Calls
               PROVE  (Begun(d)' <=> Begun(d)) /\ (Ended(d)' <=> Ended(d))
    BY <1>1, <1>3 DEF Inv, IInv, LogInv
  <2> QED
    BY <1>1 DEF Begun, Ended, Finished, Answering
<1>11. InnerInv'
  BY <1>1, <1>3, Typed, InnerKept DEF Inv, IInv, InnerInv, SecondLoop
<1> QED
  BY <1>3, <1>5, <1>6, <1>7, <1>8, <1>9, <1>10, <1>11 DEF Inv, IInv

(* The arguments of a call end.                                            *)
LEMMA PullCompleteInv ==
    ASSUME Inv, PullComplete
    PROVE  Inv'
<1>1. /\ gen = "pull" /\ open # 0 /\ through = 0
      /\ Yield("tool", "complete", open)
      /\ sender' = [sender EXCEPT ![open] = FALSE]
      /\ open' = 0
      /\ UNCHANGED <<gen, called, sent, handled, through, passed, answered,
                     states, drained, args, results, tool, read, written>>
      /\ ~Dropped /\ ~Dropped'
  BY DEF PullComplete, tasks, inner, Dropped
<1>2. open \in Calls /\ open = called /\ drained = 0
  BY <1>1, Typed DEF Inv, TypeOK, IInv, ShapeInv, FirstLoop, Calls
<1>3. ~Yielded("tool", "complete", open)
  BY <1>2 DEF Inv, IInv, LogInv
<1>4. /\ out' \in Seq(Events) /\ OnceInv'
      /\ \A k, s, d : Yielded(k, s, d)'
            <=> Yielded(k, s, d) \/ (k = "tool" /\ s = "complete" /\ d = open)
      /\ \A d : Chunks(d)' = Chunks(d)
  BY <1>1, <1>2, <1>3, PassedFacts
<1>5. /\ sender'[open] = FALSE
      /\ \A d \in Calls \ {open} : sender'[d] = sender[d]
  BY <1>1, <1>2 DEF Inv, TypeOK
<1>6. TypeOK'
  BY <1>1, <1>2, <1>4, Typed DEF Inv, TypeOK, GenStates
<1>7. ShapeInv'
  BY KindsKept, <1>1, <1>2, Typed
     DEF Inv, IInv, ShapeInv, Answering, FirstLoop, SecondLoop
<1>8. StatesInv'
  <2>1. \A d \in Calls : sender'[d] = FALSE
    BY KindsKept, <1>1, <1>5 DEF Inv, IInv, TypeOK, StatesInv
  <2> QED
    BY KindsKept, <1>1, <2>1, Typed DEF Inv, IInv, StatesInv, HasState
<1>9. ArgsInv'
  <2> SUFFICES ASSUME NEW d \in Calls PROVE ArgsOK(d)'
    BY DEF ArgsInv
  <2>1. ArgsOK(d) /\ Sending(d)' = Sending(d)
    BY <1>1 DEF Inv, IInv, ArgsInv, Sending
  <2> QED
    BY <1>1, <1>5, <2>1, Typed, ArgsKept
<1>10. OutputInv'
  <2> SUFFICES ASSUME NEW d \in Calls PROVE OutputOK(d)'
    BY DEF OutputInv
  <2>1. OutputOK(d) /\ (Joined(d)' <=> Joined(d))
    BY <1>1 DEF Inv, IInv, OutputInv, Joined, Finished
  <2> QED
    BY <1>1, <1>4, <2>1, OutputKept, KindsKept
<1>11. LogInv'
  <2> SUFFICES ASSUME NEW d \in Calls
               PROVE  /\ Yielded("tool", "start", d)' <=> d <= called /\ d \notin handled
                      /\ Yielded("tool", "complete", d)' <=> d <= called
                      /\ Yielded("result", "start", d)' <=> Begun(d)'
                      /\ Yielded("result", "complete", d)' <=> Ended(d)'
    BY <1>1, Typed DEF LogInv
  <2>1. /\ Yielded("tool", "start", d) <=> d <= called /\ d \notin handled
        /\ Yielded("tool", "complete", d) <=> d <= called /\ d # open
        /\ Yielded("result", "start", d) <=> Begun(d)
        /\ Yielded("result", "complete", d) <=> Ended(d)
    BY <1>1 DEF Inv, IInv, LogInv
  <2>2. (Begun(d)' <=> Begun(d)) /\ (Ended(d)' <=> Ended(d))
    BY <1>1 DEF Begun, Ended, Finished, Answering
  <2> QED
    BY <1>1, <1>2, <1>4, <2>1, <2>2, Typed
<1>12. InnerInv'
  BY <1>1, <1>4, Typed, InnerKept DEF Inv, IInv, InnerInv, SecondLoop
<1> QED
  BY <1>4, <1>6, <1>7, <1>8, <1>9, <1>10, <1>11, <1>12 DEF Inv, IInv

(* An event that is passed through leaves the calls of this layer alone.   *)
LEMMA OtherFrame ==
    ASSUME Inv, gen = "pull", gen' = "pull",
           UNCHANGED <<called, open, sent, handled, states, drained, sender, args,
                       results, tool, read, written>>,
           \A d \in Calls \ handled : Chunks(d)' = Chunks(d)
    PROVE  (ShapeInv /\ StatesInv /\ ArgsInv /\ OutputInv)'
<1>1. ~Dropped /\ ~Dropped'
  BY DEF Dropped
<1>2. ShapeInv'
  BY KindsKept DEF Inv, IInv, ShapeInv
<1>3. StatesInv'
  BY <1>1, KindsKept DEF Inv, IInv, StatesInv, HasState
<1>4. ArgsInv'
  <2> SUFFICES ASSUME NEW d \in Calls PROVE ArgsOK(d)'
    BY DEF ArgsInv
  <2>1. ArgsOK(d) /\ Sending(d)' = Sending(d)
    BY DEF Inv, IInv, ArgsInv, Sending
  <2> QED
    BY <1>1, <2>1, Typed, ArgsKept
<1>5. OutputInv'
  <2> SUFFICES ASSUME NEW d \in Calls PROVE OutputOK(d)'
    BY DEF OutputInv
  <2>1. OutputOK(d) /\ (Joined(d)' <=> Joined(d))
    BY DEF Inv, IInv, OutputInv, Joined, Finished
  <2>2. CASE d \notin handled
    BY <1>1, <2>1, <2>2, OutputKept, KindsKept
  <2>3. CASE d \in handled
    BY <1>1, <2>1, <2>3, KindsKept DEF OutputOK, Running, Known, NoTool
  <2> QED
    BY <2>2, <2>3
<1> QED
  BY <1>2, <1>3, <1>4, <1>5

(* What the log says of the calls when such an event was yielded.          *)
LEMMA OtherLog ==
    ASSUME Inv, gen = "pull", gen' = "pull",
           UNCHANGED <<called, open, handled, drained, states>>,
           \A d \in Calls :
              /\ Yielded("tool", "start", d)' <=> Yielded("tool", "start", d)
              /\ Yielded("tool", "complete", d)' <=> Yielded("tool", "complete", d),
           \A d \in Calls \ handled :
              /\ Yielded("result", "start", d)' <=> Yielded("result", "start", d)
              /\ Yielded("result", "complete", d)' <=> Yielded("result", "complete", d),
           \A d \in handled :
              /\ Yielded("result", "start", d)' <=> d \in answered'
              /\ Yielded("result", "complete", d)' <=> d \in answered' /\ d # through'
    PROVE  LogInv'
<1>1. ~Dropped
  BY DEF Dropped
<1> SUFFICES ASSUME NEW d \in Calls
             PROVE  /\ Yielded("tool", "start", d)' <=> d <= called /\ d \notin handled
                    /\ Yielded("tool", "complete", d)' <=> d <= called /\ d # open
                    /\ Yielded("result", "start", d)' <=> Begun(d)'
                    /\ Yielded("result", "complete", d)' <=> Ended(d)'
  BY DEF LogInv
<1>2. /\ Yielded("tool", "start", d) <=> d <= called /\ d \notin handled
      /\ Yielded("tool", "complete", d) <=> d <= called /\ d # open
      /\ Yielded("result", "start", d) <=> Begun(d)
      /\ Yielded("result", "complete", d) <=> Ended(d)
  BY <1>1 DEF Inv, IInv, LogInv
<1>3. CASE d \in handled
  BY <1>2, <1>3 DEF Begun, Ended
<1>4. CASE d \notin handled
  <2>1. (Begun(d)' <=> Begun(d)) /\ (Ended(d)' <=> Ended(d))
    BY <1>4 DEF Begun, Ended, Finished
  <2> QED
    BY <1>2, <1>4, <2>1
<1> QED
  BY <1>3, <1>4

(* What it says of those that came handled.                                *)
LEMMA HandledLog ==
    ASSUME Inv, ~Dropped, NEW d \in handled
    PROVE  /\ Yielded("result", "start", d) <=> d \in answered
           /\ Yielded("result", "complete", d) <=> d \in answered /\ d # through
           /\ d \in Calls /\ d # 0
<1>1. d \in Calls /\ d # 0
  BY Typed
<1> QED
  BY <1>1 DEF Inv, IInv, LogInv, Begun, Ended

(* A message, or the result of a call that an inner layer handles, starts. *)
LEMMA OtherStartInv ==
    ASSUME Inv, PullOther, OtherStart
    PROVE  Inv'
<1>1. /\ gen = "pull" /\ gen' = "pull" /\ through = 0
      /\ UNCHANGED <<called, open, sent, handled, states, drained, sender, args,
                     results, tool, read, written>>
      /\ ~Dropped
  BY DEF PullOther, OtherStart, tasks, Dropped
<1>2. PICK channel \in handled \cup Messages :
        /\ \/ /\ channel = NCalls + passed + 1 /\ open = 0 /\ passed < MaxOthers
              /\ passed' = passed + 1 /\ answered' = answered
           \/ /\ channel \in handled \ answered
              /\ answered' = answered \cup {channel} /\ passed' = passed
        /\ through' = channel
        /\ Yield(Kind(channel), "start", channel)
  BY DEF OtherStart
<1>3. CASE channel = NCalls + passed + 1 /\ open = 0 /\ passed < MaxOthers
              /\ passed' = passed + 1 /\ answered' = answered
  <2>1. /\ channel \in Messages /\ channel \notin Calls /\ channel # 0
        /\ channel \in 0 .. NCalls + MaxOthers /\ passed + 1 \in 0 .. MaxOthers
        /\ ~(channel <= NCalls + passed)
    BY <1>3, BoundsAssumption, Typed DEF Messages, Calls
  <2>2. Yield("message", "start", channel) /\ <<"message", "start", channel>> \in Events
    BY <1>2, <2>1, EventsOf DEF Kind, Steps
  <2>3. ~Yielded("message", "start", channel) /\ ~Yielded("message", "complete", channel)
    BY <2>1 DEF Inv, IInv, InnerInv
  <2>4. OnceInv'
    BY <2>2, <2>3, Typed, YieldOnce DEF Inv, IInv
  <2>5. /\ out' \in Seq(Events)
        /\ \A k, s, d : Yielded(k, s, d)'
              <=> Yielded(k, s, d) \/ (k = "message" /\ s = "start" /\ d = channel)
        /\ \A d : Chunks(d)' = Chunks(d)
    BY <2>2, Typed, YieldFacts, SMTT(30)
  <2>6. (ShapeInv /\ StatesInv /\ ArgsInv /\ OutputInv)'
    BY <1>1, <2>5, OtherFrame
  <2>7. TypeOK'
    BY <1>1, <1>2, <1>3, <2>1, <2>5 DEF Inv, TypeOK
  <2>8. \A d \in handled : d # channel /\ d # 0
    BY <2>1, Typed
  <2>9. LogInv'
    BY <1>1, <1>2, <1>3, <2>5, <2>8, HandledLog, OtherLog
  <2>10. InnerInv'
    <3>1. \A m \in Messages : m \in Nat /\ m # 0
      BY Typed
    <3>2. /\ Yielded("message", "start", channel)' /\ ~Yielded("message", "complete", channel)'
          /\ \A m \in Messages \ {channel} :
                /\ Yielded("message", "start", m)' <=> Yielded("message", "start", m)
                /\ Yielded("message", "complete", m)' <=> Yielded("message", "complete", m)
      BY <2>3, <2>5
    <3>3. \A m \in Messages : m <= NCalls + passed \/ m = channel => m <= NCalls + passed'
      BY <1>3, <3>1, Typed
    <3> QED
      BY <1>1, <1>2, <1>3, <2>1, <3>1, <3>2, <3>3 DEF Inv, IInv, InnerInv, SecondLoop
  <2> QED
    BY <2>4, <2>6, <2>7, <2>9, <2>10 DEF Inv, IInv
<1>4. CASE channel \in handled \ answered /\ answered' = answered \cup {channel}
              /\ passed' = passed
  <2>1. channel \in Calls /\ channel \notin Messages /\ channel \in 0 .. NCalls + MaxOthers
    BY <1>4, BoundsAssumption, Typed DEF Calls
  <2>2. Yield("result", "start", channel) /\ <<"result", "start", channel>> \in Events
    BY <1>2, <2>1, EventsOf DEF Kind, Steps
  <2>3. ~Yielded("result", "start", channel) /\ ~Yielded("result", "complete", channel)
    BY <1>1, <1>4, <2>1 DEF Inv, IInv, LogInv, Begun, Ended
  <2>4. OnceInv'
    BY <2>2, <2>3, Typed, YieldOnce DEF Inv, IInv
  <2>5. /\ out' \in Seq(Events)
        /\ \A k, s, d : Yielded(k, s, d)'
              <=> Yielded(k, s, d) \/ (k = "result" /\ s = "start" /\ d = channel)
        /\ \A d : Chunks(d)' = Chunks(d)
    BY <2>2, Typed, YieldFacts, SMTT(30)
  <2>6. (ShapeInv /\ StatesInv /\ ArgsInv /\ OutputInv)'
    BY <1>1, <2>5, OtherFrame
  <2>7. TypeOK'
    BY <1>1, <1>2, <1>4, <2>1, <2>5 DEF Inv, TypeOK
  <2>8. \A d \in handled : d # 0
    BY Typed
  <2>9. LogInv'
    <3>1. /\ answered' = answered \cup {channel} /\ through' = channel
          /\ channel \in handled /\ channel \notin answered /\ through = 0
      BY <1>1, <1>2, <1>4
    <3>2. \A d \in handled :
             /\ Yielded("result", "start", d)' <=> d \in answered'
             /\ Yielded("result", "complete", d)' <=> d \in answered' /\ d # through'
      BY <1>1, <2>5, <2>8, <3>1, HandledLog
    <3> QED
      BY <1>1, <2>5, <3>1, <3>2, OtherLog
  <2>10. InnerInv'
    BY <1>1, <1>2, <1>4, <2>1, <2>5, Typed DEF Inv, IInv, InnerInv, SecondLoop
  <2> QED
    BY <2>4, <2>6, <2>7, <2>9, <2>10 DEF Inv, IInv
<1> QED
  BY <1>2, <1>3, <1>4

(* It goes on, or is complete.                                             *)
LEMMA OtherGoesOnInv ==
    ASSUME Inv, PullOther, OtherChunk \/ OtherComplete
    PROVE  Inv'
<1>1. /\ gen = "pull" /\ gen' = "pull" /\ through # 0
      /\ UNCHANGED <<called, open, sent, handled, answered, states, drained, sender,
                     args, results, tool, read, written>>
      /\ ~Dropped
  BY DEF PullOther, OtherChunk, OtherComplete, tasks, Dropped
<1>2. PICK step \in {"chunk", "complete"} :
        /\ Yield(Kind(through), step, through)
        /\ \/ /\ step = "chunk" /\ passed < MaxOthers
              /\ passed' = passed + 1 /\ through' = through
           \/ step = "complete" /\ through' = 0 /\ passed' = passed
  BY DEF OtherChunk, OtherComplete
<1>3. /\ through \in Calls \/ through \in Messages
      /\ Kind(through) \in {"message", "result"}
      /\ Kind(through) = "result" <=> through \in Calls
      /\ Kind(through) = "result" => through \in handled /\ through \in answered
      /\ Kind(through) = "message" => through \in Messages
  <2>1. through \in 0 .. NCalls + MaxOthers
    BY DEF Inv, TypeOK
  <2>2. through \in Calls \/ through \in Messages
    BY <1>1, <2>1, BoundsAssumption DEF Calls, Messages
  <2> QED
    BY <2>2 DEF Kind, Inv, IInv, InnerInv
<1>4. <<Kind(through), step, through>> \in Events
  BY <1>3, EventsOf DEF Steps, Kind
<1>5. step = "complete" => ~Yielded(Kind(through), step, through)
  BY <1>1, <1>3 DEF Inv, IInv, InnerInv, LogInv, Ended
<1>6. OnceInv'
  BY <1>2, <1>4, <1>5, Typed, YieldOnce DEF Inv, IInv
<1>7. /\ out' \in Seq(Events)
      /\ \A k, s, d : Yielded(k, s, d)'
            <=> Yielded(k, s, d) \/ (k = Kind(through) /\ s = step /\ d = through)
      /\ \A d : Chunks(d)' = Chunks(d)
            + (IF Kind(through) = "result" /\ step = "chunk" /\ d = through
               THEN 1 ELSE 0)
      /\ \A d : Chunks(d) \in Nat
  BY <1>2, <1>4, Typed, YieldFacts
<1>8. \A d \in Calls \ handled : Chunks(d)' = Chunks(d)
  BY <1>3, <1>7
<1>9. (ShapeInv /\ StatesInv /\ ArgsInv /\ OutputInv)'
  BY <1>1, <1>8, OtherFrame
<1>10. TypeOK'
  <2>1. passed' \in 0 .. MaxOthers /\ through' \in 0 .. NCalls + MaxOthers
    BY <1>2, BoundsAssumption DEF Inv, TypeOK
  <2> QED
    BY <1>1, <1>7, <2>1 DEF Inv, TypeOK
<1>11. LogInv'
  <2>1. \A d \in handled :
           /\ Yielded("result", "start", d)' <=> d \in answered'
           /\ Yielded("result", "complete", d)' <=> d \in answered' /\ d # through'
    <3> SUFFICES ASSUME NEW d \in handled
                 PROVE  /\ Yielded("result", "start", d)' <=> d \in answered
                        /\ Yielded("result", "complete", d)'
                              <=> d \in answered /\ d # through'
      BY <1>1
    <3>1. /\ Yielded("result", "start", d) <=> d \in answered
          /\ Yielded("result", "complete", d) <=> d \in answered /\ d # through
          /\ d \in Calls /\ d # 0
      BY <1>1, HandledLog
    <3>2. /\ Yielded("result", "start", d)' <=> Yielded("result", "start", d)
          /\ Yielded("result", "complete", d)' <=> Yielded("result", "complete", d)
                \/ (Kind(through) = "result" /\ step = "complete" /\ d = through)
      BY <1>2, <1>7
    <3> QED
      BY <1>2, <1>3, <3>1, <3>2
  <2>2. \A d \in Calls :
           /\ Yielded("tool", "start", d)' <=> Yielded("tool", "start", d)
           /\ Yielded("tool", "complete", d)' <=> Yielded("tool", "complete", d)
    BY <1>3, <1>7
  <2>3. \A d \in Calls \ handled :
           /\ Yielded("result", "start", d)' <=> Yielded("result", "start", d)
           /\ Yielded("result", "complete", d)' <=> Yielded("result", "complete", d)
    BY <1>2, <1>3, <1>7
  <2> QED
    BY <1>1, <2>1, <2>2, <2>3, OtherLog
<1>12. InnerInv'
  <2>1. 0 \notin Messages /\ 0 \notin Calls /\ passed \in Nat /\ NCalls \in Nat
        /\ \A m \in Messages : m \in Nat /\ m \notin Calls
    BY Typed
  <2>2. \A m \in Messages : m <= NCalls + passed => m <= NCalls + passed'
    BY <1>2, <2>1
  <2>3. \A m \in Messages :
           /\ Yielded("message", "start", m)' <=> Yielded("message", "start", m)
           /\ Yielded("message", "complete", m)'
                 <=> Yielded("message", "complete", m) \/ (step = "complete" /\ m = through)
    BY <1>2, <1>3, <1>7, <2>1
  <2> QED
    BY <1>1, <1>2, <1>3, <2>1, <2>2, <2>3 DEF Inv, IInv, InnerInv, SecondLoop
<1> QED
  BY <1>6, <1>9, <1>10, <1>11, <1>12 DEF Inv, IInv

(* Reasoning or usage.                                                     *)
LEMMA OtherAsideInv ==
    ASSUME Inv, PullOther, OtherAside
    PROVE  Inv'
<1>1. /\ gen = "pull" /\ gen' = "pull" /\ passed < MaxOthers /\ passed' = passed + 1
      /\ Yield("other", "whole", 0)
      /\ UNCHANGED <<called, open, sent, handled, through, answered, states, drained,
                     sender, args, results, tool, read, written>>
  BY DEF PullOther, OtherAside, tasks
<1>2. <<"other", "whole", 0>> \in Events
  BY EventsOf
<1>3. OnceInv'
  BY <1>1, <1>2, Typed, YieldOnce DEF Inv, IInv
<1>4. /\ out' \in Seq(Events)
      /\ \A k, s, d : Yielded(k, s, d)'
            <=> Yielded(k, s, d) \/ (k = "other" /\ s = "whole" /\ d = 0)
      /\ \A d : Chunks(d)' = Chunks(d)
  BY <1>1, <1>2, Typed, YieldFacts, SMTT(30)
<1>5. (ShapeInv /\ StatesInv /\ ArgsInv /\ OutputInv)'
  BY <1>1, <1>4, OtherFrame
<1>6. TypeOK'
  <2>1. passed' \in 0 .. MaxOthers
    BY <1>1, BoundsAssumption DEF Inv, TypeOK
  <2> QED
    BY <1>1, <1>4, <2>1 DEF Inv, TypeOK
<1>7. LogInv'
  <2>1. \A d \in handled :
           /\ Yielded("result", "start", d)' <=> d \in answered'
           /\ Yielded("result", "complete", d)' <=> d \in answered' /\ d # through'
    BY <1>1, <1>4, HandledLog DEF Dropped
  <2> QED
    BY <1>1, <1>4, <2>1, OtherLog
<1>8. InnerInv'
  <2>1. \A m \in Messages : m <= NCalls + passed => m <= NCalls + passed'
    BY <1>1, Typed
  <2> QED
    BY <1>1, <1>4, <2>1 DEF Inv, IInv, InnerInv, SecondLoop
<1> QED
  BY <1>3, <1>5, <1>6, <1>7, <1>8 DEF Inv, IInv

(* Any of these.                                                           *)
LEMMA PullOtherInv ==
    ASSUME Inv, PullOther
    PROVE  Inv'
<1>1. OtherStart \/ OtherChunk \/ OtherComplete \/ OtherAside
  BY DEF PullOther
<1> QED
  BY <1>1, OtherStartInv, OtherGoesOnInv, OtherAsideInv

(* The stream of the provider ends.                                        *)
LEMMA PullEndInv ==
    ASSUME Inv, PullEnd
    PROVE  Inv'
<1>1. /\ gen = "pull" /\ open = 0 /\ through = 0 /\ handled \subseteq answered
      /\ gen' = "drain"
      /\ UNCHANGED <<called, open, sent, handled, through, passed, answered,
                     states, drained, sender, args, results, tool, read,
                     written, out>>
      /\ ~Dropped /\ ~Dropped'
  BY DEF PullEnd, provider, inner, tasks, Dropped
<1>2. /\ out' \in Seq(Events) /\ OnceInv'
      /\ \A k, s, d : Yielded(k, s, d)' <=> Yielded(k, s, d)
      /\ \A d : Chunks(d)' = Chunks(d)
  BY <1>1, Typed, SilentFacts DEF Inv, IInv
<1>3. TypeOK'
  BY <1>1 DEF Inv, TypeOK, GenStates
<1>4. ShapeInv'
  BY KindsKept, <1>1, Typed DEF Inv, IInv, ShapeInv, Answering, FirstLoop, SecondLoop
<1>5. StatesInv'
  BY KindsKept, <1>1, Typed DEF Inv, IInv, StatesInv, HasState
<1>6. ArgsInv'
  <2> SUFFICES ASSUME NEW d \in Calls PROVE ArgsOK(d)'
    BY DEF ArgsInv
  <2>1. ArgsOK(d) /\ Sending(d)' = Sending(d)
    BY <1>1 DEF Inv, IInv, ArgsInv, Sending
  <2> QED
    BY <1>1, <2>1, Typed, ArgsKept
<1>7. OutputInv'
  <2> SUFFICES ASSUME NEW d \in Calls PROVE OutputOK(d)'
    BY DEF OutputInv
  <2>1. OutputOK(d) /\ (Joined(d)' <=> Joined(d))
    BY <1>1 DEF Inv, IInv, OutputInv, Joined, Finished
  <2> QED
    BY <1>1, <1>2, <2>1, OutputKept, KindsKept
<1>8. LogInv'
  <2>1. \A d \in Calls : (Begun(d)' <=> Begun(d)) /\ (Ended(d)' <=> Ended(d))
    BY <1>1 DEF Begun, Ended, Finished, Answering
  <2> QED
    BY <1>1, <1>2, <2>1 DEF Inv, IInv, LogInv
<1>9. InnerInv'
  BY <1>1, <1>2, Typed, InnerKept DEF Inv, IInv, InnerInv
<1> QED
  BY <1>2, <1>3, <1>4, <1>5, <1>6, <1>7, <1>8, <1>9 DEF Inv, IInv

(* In the second loop there is always a call whose turn it is.             *)
LEMMA CurrentFacts ==
    ASSUME Inv, gen \in {"drain", "recv", "complete"}, drained < Len(states)
    PROVE  /\ drained + 1 \in DOMAIN states
           /\ Current \in Known /\ Current \in Calls /\ Current <= called
           /\ HasState(Current) /\ tool[Current] # "none"
           /\ ~Finished(Current)
           /\ Current \notin Unknown /\ Current \notin handled
           /\ open = 0 /\ ~Dropped
           /\ drained + 1 \in 0 .. NCalls /\ drained + 1 <= Len(states)
<1>1. drained + 1 \in DOMAIN states
  BY Typed
<1>2. Current \in Calls /\ HasState(Current)
  BY <1>1, Typed DEF Current, HasState
<1>3. Current \in Known /\ Current <= called /\ tool[Current] # "none"
  BY <1>2 DEF Inv, IInv, StatesInv
<1>4. ~Finished(Current)
  <2>1. /\ Len(states) \in Nat /\ DOMAIN states = 1 .. Len(states)
        /\ drained \in Nat /\ drained < Len(states)
    BY Typed
  <2>2. \A i \in 1 .. drained : i \in 1 .. Len(states) /\ i # drained + 1
    BY <2>1
  <2> QED
    BY <1>1, <2>1, <2>2 DEF Finished, Current, Inv, IInv, StatesInv
<1>5. open = 0 /\ ~Dropped
  BY DEF Inv, IInv, ShapeInv, SecondLoop, Dropped
<1>6. drained + 1 \in 0 .. NCalls /\ drained + 1 <= Len(states)
  <2>1. Len(states) <= called
    BY DEF Inv, IInv, ShapeInv
  <2> QED
    BY <2>1, Typed
<1> QED
  BY <1>1, <1>2, <1>3, <1>4, <1>5, <1>6 DEF Known

(* Steps of the second loop: nothing but the results moves.                *)
LEMMA ResultFrame ==
    ASSUME Inv, gen \in SecondLoop, gen' \in SecondLoop,
           UNCHANGED <<called, open, sent, handled, through, passed, answered,
                       states, sender, args, tool, read, written>>
    PROVE  StatesInv' /\ ArgsInv' /\ ~Dropped /\ ~Dropped' /\ open = 0
<1>1. ~Dropped /\ ~Dropped' /\ gen # "spawn" /\ gen' # "spawn" /\ open = 0
  BY DEF SecondLoop, Dropped, Inv, IInv, ShapeInv
<1>2. StatesInv'
  BY KindsKept, <1>1 DEF Inv, IInv, StatesInv, HasState
<1>3. ArgsInv'
  <2> SUFFICES ASSUME NEW d \in Calls PROVE ArgsOK(d)'
    BY DEF ArgsInv
  <2>1. ArgsOK(d) /\ Sending(d)' = Sending(d)
    BY <1>1, Typed DEF Inv, IInv, ArgsInv, Sending
  <2> QED
    BY <1>1, <2>1, Typed, ArgsKept
<1> QED
  BY <1>1, <1>2, <1>3

(* The result of the current call starts.                                  *)
LEMMA DrainInv ==
    ASSUME Inv, Drain
    PROVE  Inv'
<1>1. /\ gen = "drain" /\ drained < Len(states) /\ gen' = "recv"
      /\ Yield("result", "start", Current)
      /\ UNCHANGED <<called, open, sent, handled, through, passed, answered,
                     states, drained, sender, args, results, tool, read,
                     written>>
  BY DEF Drain, provider, inner, tasks, Current
<1>2. /\ Current \in Known /\ Current \in Calls /\ ~Finished(Current)
      /\ Current \notin Unknown /\ Current \notin handled /\ open = 0
      /\ drained + 1 <= Len(states)
  BY <1>1, CurrentFacts
<1>3. StatesInv' /\ ArgsInv' /\ ~Dropped /\ ~Dropped'
  BY <1>1, ResultFrame DEF SecondLoop
<1>4. ~Yielded("result", "start", Current) /\ ~Yielded("result", "complete", Current)
  BY <1>1, <1>2, <1>3 DEF Inv, IInv, LogInv, Begun, Ended
<1>5. <<"result", "start", Current>> \in Events
  BY <1>2, EventsOf DEF Steps
<1>6. /\ out' \in Seq(Events)
      /\ \A k, s, d : Yielded(k, s, d)'
            <=> Yielded(k, s, d) \/ (k = "result" /\ s = "start" /\ d = Current)
      /\ \A d : Chunks(d)' = Chunks(d)
  <2>1. /\ out' \in Seq(Events)
        /\ \A k, s, d : Yielded(k, s, d)'
              <=> Yielded(k, s, d) \/ (k = "result" /\ s = "start" /\ d = Current)
        /\ \A d : Chunks(d)' = Chunks(d)
                + (IF "result" = "result" /\ "start" = "chunk" /\ d = Current
                   THEN 1 ELSE 0)
        /\ \A d : Chunks(d) \in Nat
    BY <1>1, <1>2, <1>5, Typed, YieldFacts
  <2> QED
    BY <2>1
<1>7. OnceInv'
  BY <1>1, <1>2, <1>4, <1>5, Typed, YieldOnce DEF Inv, IInv
<1>8. TypeOK'
  BY <1>1, <1>6 DEF Inv, TypeOK, GenStates
<1>9. ShapeInv'
  BY KindsKept, <1>1, <1>2, Typed DEF Inv, IInv, ShapeInv, Answering, FirstLoop, SecondLoop
<1>10. Current' = Current /\ \A d : Finished(d)' <=> Finished(d)
  BY <1>1 DEF Current, Finished
<1>11. OutputInv'
  <2> SUFFICES ASSUME NEW d \in Calls PROVE OutputOK(d)'
    BY DEF OutputInv
  <2>1. OutputOK(d) /\ (Joined(d)' <=> Joined(d))
    BY <1>1, <1>10 DEF Inv, IInv, OutputInv, Joined
  <2> QED
    BY <1>1, <1>2, <1>3, <1>6, <2>1, Typed, OutputKept, KindsKept
<1>12. LogInv'
  <2> SUFFICES ASSUME NEW d \in Calls
               PROVE  /\ Yielded("result", "start", d)' <=> Begun(d)'
                      /\ Yielded("result", "complete", d)' <=> Ended(d)'
    BY <1>1, <1>6 DEF Inv, IInv, LogInv
  <2>1. /\ Yielded("result", "start", d) <=> Begun(d)
        /\ Yielded("result", "complete", d) <=> Ended(d)
    BY <1>3 DEF Inv, IInv, LogInv
  <2>2. /\ Begun(d)' <=> Begun(d) \/ d = Current
        /\ Ended(d)' <=> Ended(d)
    BY <1>1, <1>2, <1>10 DEF Begun, Ended, Answering
  <2> QED
    BY <1>6, <2>1, <2>2
<1>13. InnerInv'
  BY <1>1, <1>6, Typed, InnerKept DEF Inv, IInv, InnerInv, SecondLoop
<1> QED
  BY <1>3, <1>7, <1>8, <1>9, <1>11, <1>12, <1>13 DEF Inv, IInv

(* A chunk of its output.                                                  *)
LEMMA RecvChunkInv ==
    ASSUME Inv, RecvChunk
    PROVE  Inv'
<1>1. /\ gen = "recv" /\ gen' = "recv" /\ results[Current] > 0
      /\ results' = [results EXCEPT ![Current] = @ - 1]
      /\ Yield("result", "chunk", Current)
      /\ UNCHANGED <<called, open, sent, handled, through, passed, answered,
                     states, drained, sender, args, tool, read, written>>
  BY DEF RecvChunk, provider, inner, tasks, Current
<1>2. drained < Len(states)
  BY <1>1 DEF Inv, IInv, ShapeInv
<1>3. /\ Current \in Known /\ Current \in Calls /\ ~Finished(Current)
      /\ Current \notin Unknown /\ Current \notin handled /\ open = 0 /\ tool[Current] # "none"
  BY <1>1, <1>2, CurrentFacts
<1>4. StatesInv' /\ ArgsInv' /\ ~Dropped /\ ~Dropped'
  BY <1>1, ResultFrame DEF SecondLoop
<1>5. <<"result", "chunk", Current>> \in Events
  BY <1>3, EventsOf DEF Steps
<1>6. /\ out' \in Seq(Events)
      /\ \A k, s, d : Yielded(k, s, d)'
            <=> Yielded(k, s, d) \/ (k = "result" /\ s = "chunk" /\ d = Current)
      /\ \A d : Chunks(d)' = Chunks(d) + (IF d = Current THEN 1 ELSE 0)
      /\ \A d : Chunks(d) \in Nat
  BY <1>1, <1>3, <1>5, Typed, YieldFacts
<1>7. OnceInv'
  BY <1>1, <1>3, <1>5, Typed, YieldOnce DEF Inv, IInv
<1>8. /\ results'[Current] = results[Current] - 1
      /\ results[Current] \in Nat /\ results'[Current] \in 0 .. Capacity
      /\ \A d \in Calls \ {Current} : results'[d] = results[d]
  <2>1. results \in [Calls -> 0 .. Capacity] /\ Capacity \in Nat
    BY Typed DEF Inv, TypeOK
  <2> HIDE DEF Current
  <2> QED
    BY <1>1, <1>3, <2>1
<1>9. TypeOK'
  <2>1. results' \in [Calls -> 0 .. Capacity]
    BY <1>1, <1>3, <1>8 DEF Inv, TypeOK
  <2> QED
    BY <1>1, <1>6, <2>1 DEF Inv, TypeOK, GenStates
<1>10. ShapeInv'
  BY KindsKept, <1>1, Typed DEF Inv, IInv, ShapeInv, Answering, FirstLoop, SecondLoop
<1>11. Current' = Current /\ \A d : Finished(d)' <=> Finished(d)
  BY <1>1 DEF Current, Finished
<1>12. \A d \in Calls : Joined(d)' <=> Joined(d)
  BY <1>1, <1>11 DEF Joined
<1>13. OutputInv'
  <2> SUFFICES ASSUME NEW d \in Calls PROVE OutputOK(d)'
    BY DEF OutputInv
  <2>1. OutputOK(d)
    BY DEF Inv, IInv, OutputInv
  <2>2. CASE d # Current
    BY <1>1, <1>3, <1>4, <1>6, <1>8, <1>12, <2>1, <2>2, Typed, OutputKept, KindsKept
  <2>3. CASE d = Current
    <3>1. ~Joined(d)
      BY <1>1, <1>3, <2>3 DEF Joined
    <3>2. Chunks(d) + results[d] = written[d] + 0
      BY <1>3, <1>4, <2>1, <2>3, <3>1 DEF OutputOK
    <3>3. Chunks(d)' = Chunks(d) + 1 /\ results'[d] = results[d] - 1
      BY <1>6, <1>8, <2>3
    <3>4. Chunks(d) \in Nat /\ results[d] \in Nat /\ written[d] \in Nat
      BY <1>6, Typed
    <3>5. Chunks(d)' + results'[d] = written[d] + 0
      BY <3>2, <3>3, <3>4
    <3> QED
      BY <1>1, <1>3, <1>4, <1>12, <2>1, <2>3, <3>1, <3>5 DEF OutputOK, Known, NoTool
  <2> QED
    BY <2>2, <2>3
<1>14. LogInv'
  <2> SUFFICES ASSUME NEW d \in Calls
               PROVE  (Begun(d)' <=> Begun(d)) /\ (Ended(d)' <=> Ended(d))
    BY <1>1, <1>4, <1>6 DEF Inv, IInv, LogInv
  <2> QED
    BY <1>1, <1>11 DEF Begun, Ended
<1>15. InnerInv'
  BY <1>1, <1>6, Typed, InnerKept DEF Inv, IInv, InnerInv, SecondLoop
<1> QED
  BY <1>4, <1>7, <1>9, <1>10, <1>13, <1>14, <1>15 DEF Inv, IInv

(* Its output is all there, and the task is joined.                        *)
LEMMA RecvEndInv ==
    ASSUME Inv, RecvEnd
    PROVE  Inv'
<1> DEFINE note == tool[Current] = "panicked"
<1>1. /\ gen = "recv" /\ gen' = "complete" /\ results[Current] = 0
      /\ ~Running(Current)
      /\ IF note THEN Yield("result", "chunk", Current) ELSE out' = out
      /\ UNCHANGED <<called, open, sent, handled, through, passed, answered,
                     states, drained, sender, args, results, tool, read,
                     written>>
  BY DEF RecvEnd, provider, inner, tasks, Current
<1>2. drained < Len(states)
  BY <1>1 DEF Inv, IInv, ShapeInv
<1>3. /\ Current \in Known /\ Current \in Calls /\ ~Finished(Current)
      /\ Current \notin Unknown /\ Current \notin handled /\ open = 0 /\ tool[Current] # "none"
  BY <1>1, <1>2, CurrentFacts
<1>4. StatesInv' /\ ArgsInv' /\ ~Dropped /\ ~Dropped'
  BY <1>1, ResultFrame DEF SecondLoop
<1>5. <<"result", "chunk", Current>> \in Events
  BY <1>3, EventsOf DEF Steps
<1>6. /\ out' \in Seq(Events) /\ OnceInv'
      /\ \A k, s, d : s # "chunk" => (Yielded(k, s, d)' <=> Yielded(k, s, d))
      /\ \A d : Chunks(d)' = Chunks(d) + (IF d = Current /\ note THEN 1 ELSE 0)
      /\ \A d : Chunks(d) \in Nat
  <2>1. CASE note
    <3>1. Yield("result", "chunk", Current)
      BY <1>1, <2>1
    <3>2. OnceInv'
      BY <1>3, <1>5, <3>1, Typed, YieldOnce DEF Inv, IInv
    <3>3. /\ out' \in Seq(Events)
          /\ \A k, s, d : Yielded(k, s, d)'
                <=> Yielded(k, s, d) \/ (k = "result" /\ s = "chunk" /\ d = Current)
          /\ \A d : Chunks(d)' = Chunks(d) + (IF d = Current THEN 1 ELSE 0)
          /\ \A d : Chunks(d) \in Nat
      BY <1>3, <1>5, <3>1, Typed, YieldFacts
    <3> HIDE DEF note
    <3> QED
      BY <2>1, <3>2, <3>3
  <2>2. CASE ~note
    <3>1. out' = out
      BY <1>1, <2>2
    <3>2. /\ out' \in Seq(Events) /\ OnceInv'
          /\ \A k, s, d : Yielded(k, s, d)' <=> Yielded(k, s, d)
          /\ \A d : Chunks(d)' = Chunks(d) /\ Chunks(d) \in Nat
      BY <3>1, Typed, SilentFacts DEF Inv, IInv
    <3>3. \A d : Chunks(d) + 0 = Chunks(d)
      BY <3>2
    <3> HIDE DEF note
    <3> QED
      BY <2>2, <3>2, <3>3
  <2> QED
    BY <2>1, <2>2
<1>7. TypeOK'
  BY <1>1, <1>6 DEF Inv, TypeOK, GenStates
<1>8. ShapeInv'
  BY KindsKept, <1>1, <1>2, Typed DEF Inv, IInv, ShapeInv, Answering, FirstLoop, SecondLoop
<1>9. Current' = Current /\ \A d : Finished(d)' <=> Finished(d)
  BY <1>1 DEF Current, Finished
<1>10. \A d : (Joined(d) <=> Finished(d)) /\ (Joined(d)' <=> Joined(d) \/ d = Current)
  BY <1>1, <1>9 DEF Joined
<1>11. OutputInv'
  <2> SUFFICES ASSUME NEW d \in Calls PROVE OutputOK(d)'
    BY DEF OutputInv
  <2>1. OutputOK(d)
    BY DEF Inv, IInv, OutputInv
  <2>2. CASE d # Current
    <3>1. Chunks(d)' = Chunks(d)
      BY <1>6, <2>2
    <3> QED
      BY <1>1, <1>3, <1>4, <1>10, <2>1, <2>2, <3>1, Typed, OutputKept, KindsKept
  <2>3. CASE d = Current
    <3>1. ~Joined(d) /\ Joined(d)'
      BY <1>3, <1>10, <2>3
    <3>2. Chunks(d) + results[d] = written[d] + 0 /\ results[d] = 0
      BY <1>1, <1>3, <1>4, <2>1, <2>3, <3>1 DEF OutputOK
    <3>3. Chunks(d) = written[d] /\ Chunks(d) \in Nat
      BY <1>6, <3>2, Typed
    <3>4. Chunks(d)' + 0 = written[d] + (IF tool[d] = "panicked" THEN 1 ELSE 0)
      BY <1>6, <2>3, <3>3
    <3> QED
      BY <1>1, <1>3, <1>4, <1>10, <2>1, <2>3, <3>1, <3>2, <3>4
         DEF OutputOK, Running, Known, NoTool
  <2> QED
    BY <2>2, <2>3
<1>12. LogInv'
  <2> SUFFICES ASSUME NEW d \in Calls
               PROVE  (Begun(d)' <=> Begun(d)) /\ (Ended(d)' <=> Ended(d))
    BY <1>1, <1>4, <1>6 DEF Inv, IInv, LogInv
  <2> QED
    BY <1>1, <1>3, <1>9 DEF Begun, Ended, Answering
<1>13. InnerInv'
  BY <1>1, <1>6, Typed, InnerKept DEF Inv, IInv, InnerInv, SecondLoop
<1> QED
  BY <1>4, <1>6, <1>7, <1>8, <1>11, <1>12, <1>13 DEF Inv, IInv

(* The result is complete, and the next one may start.                     *)
LEMMA CompleteResultInv ==
    ASSUME Inv, CompleteResult
    PROVE  Inv'
<1>1. /\ gen = "complete" /\ gen' = "drain" /\ drained' = drained + 1
      /\ Yield("result", "complete", Current)
      /\ UNCHANGED <<called, open, sent, handled, through, passed, answered,
                     states, sender, args, results, tool, read, written>>
  BY DEF CompleteResult, provider, inner, tasks, Current
<1>2. drained < Len(states)
  BY <1>1 DEF Inv, IInv, ShapeInv
<1>3. /\ Current \in Known /\ Current \in Calls /\ ~Finished(Current)
      /\ Current \notin Unknown /\ Current \notin handled /\ open = 0
      /\ drained + 1 \in 0 .. NCalls /\ drained + 1 <= Len(states)
  BY <1>1, <1>2, CurrentFacts
<1>4. StatesInv' /\ ArgsInv' /\ ~Dropped /\ ~Dropped'
  BY <1>1, ResultFrame DEF SecondLoop
<1>5. <<"result", "complete", Current>> \in Events
  BY <1>3, EventsOf DEF Steps
<1>6. ~Yielded("result", "complete", Current)
  BY <1>3, <1>4 DEF Inv, IInv, LogInv, Ended
<1>7. /\ out' \in Seq(Events)
      /\ \A k, s, d : Yielded(k, s, d)'
            <=> Yielded(k, s, d) \/ (k = "result" /\ s = "complete" /\ d = Current)
      /\ \A d : Chunks(d)' = Chunks(d)
  <2>1. /\ out' \in Seq(Events)
        /\ \A k, s, d : Yielded(k, s, d)'
              <=> Yielded(k, s, d) \/ (k = "result" /\ s = "complete" /\ d = Current)
        /\ \A d : Chunks(d)' = Chunks(d)
                + (IF "result" = "result" /\ "complete" = "chunk" /\ d = Current
                   THEN 1 ELSE 0)
        /\ \A d : Chunks(d) \in Nat
    BY <1>1, <1>3, <1>5, Typed, YieldFacts
  <2> QED
    BY <2>1
<1>8. OnceInv'
  BY <1>1, <1>3, <1>5, <1>6, Typed, YieldOnce DEF Inv, IInv
<1>9. TypeOK'
  BY <1>1, <1>3, <1>7 DEF Inv, TypeOK, GenStates
<1>10. ShapeInv'
  BY KindsKept, <1>1, <1>3, Typed DEF Inv, IInv, ShapeInv, Answering, FirstLoop, SecondLoop
<1>11. \A d : Finished(d)' <=> Finished(d) \/ d = Current
  <2>1. 1 .. (drained + 1) = (1 .. drained) \cup {drained + 1}
    BY Typed
  <2> QED
    BY <1>1, <2>1 DEF Finished, Current
<1>12. \A d : Joined(d)' <=> Joined(d)
  BY <1>1, <1>11 DEF Joined
<1>13. OutputInv'
  <2> SUFFICES ASSUME NEW d \in Calls PROVE OutputOK(d)'
    BY DEF OutputInv
  <2>1. OutputOK(d)
    BY DEF Inv, IInv, OutputInv
  <2> QED
    BY <1>1, <1>3, <1>4, <1>7, <1>12, <2>1, Typed, OutputKept, KindsKept
<1>14. LogInv'
  <2> SUFFICES ASSUME NEW d \in Calls
               PROVE  /\ Yielded("result", "start", d)' <=> Begun(d)'
                      /\ Yielded("result", "complete", d)' <=> Ended(d)'
    BY <1>1, <1>7 DEF Inv, IInv, LogInv
  <2>1. /\ Yielded("result", "start", d) <=> Begun(d)
        /\ Yielded("result", "complete", d) <=> Ended(d)
    BY <1>4 DEF Inv, IInv, LogInv
  <2>2. /\ Begun(d)' <=> Begun(d)
        /\ Ended(d)' <=> Ended(d) \/ d = Current
    BY <1>1, <1>3, <1>11 DEF Begun, Ended, Answering
  <2> QED
    BY <1>7, <2>1, <2>2
<1>15. InnerInv'
  BY <1>1, <1>7, Typed, InnerKept DEF Inv, IInv, InnerInv, SecondLoop
<1> QED
  BY <1>4, <1>8, <1>9, <1>10, <1>13, <1>14, <1>15 DEF Inv, IInv

(* All results are out.                                                    *)
LEMMA DrainEndInv ==
    ASSUME Inv, DrainEnd
    PROVE  Inv'
<1>1. /\ gen = "drain" /\ drained = Len(states) /\ gen' = "done"
      /\ UNCHANGED <<called, open, sent, handled, through, passed, answered,
                     states, drained, sender, args, results, tool, read,
                     written, out>>
  BY DEF DrainEnd, provider, inner, tasks
<1>2. StatesInv' /\ ArgsInv' /\ ~Dropped /\ ~Dropped' /\ open = 0
  BY <1>1, ResultFrame DEF SecondLoop
<1>3. /\ out' \in Seq(Events) /\ OnceInv'
      /\ \A k, s, d : Yielded(k, s, d)' <=> Yielded(k, s, d)
      /\ \A d : Chunks(d)' = Chunks(d)
  BY <1>1, Typed, SilentFacts DEF Inv, IInv
<1>4. TypeOK'
  BY <1>1 DEF Inv, TypeOK, GenStates
<1>5. ShapeInv'
  BY KindsKept, <1>1, Typed DEF Inv, IInv, ShapeInv, Answering, FirstLoop, SecondLoop
<1>6. OutputInv'
  <2> SUFFICES ASSUME NEW d \in Calls PROVE OutputOK(d)'
    BY DEF OutputInv
  <2>1. OutputOK(d) /\ (Joined(d)' <=> Joined(d))
    BY <1>1 DEF Inv, IInv, OutputInv, Joined, Finished
  <2> QED
    BY <1>1, <1>2, <1>3, <2>1, Typed, OutputKept, KindsKept
<1>7. LogInv'
  <2>1. \A d \in Calls : (Begun(d)' <=> Begun(d)) /\ (Ended(d)' <=> Ended(d))
    BY <1>1 DEF Begun, Ended, Finished, Answering
  <2> QED
    BY <1>1, <1>2, <1>3, <2>1 DEF Inv, IInv, LogInv
<1>8. InnerInv'
  BY <1>1, <1>3, Typed, InnerKept DEF Inv, IInv, InnerInv, SecondLoop
<1> QED
  BY <1>2, <1>3, <1>4, <1>5, <1>6, <1>7, <1>8 DEF Inv, IInv

(* Every step keeps the invariant.                                         *)
LEMMA StepInv == Inv /\ [Next]_vars => Inv'
<1> SUFFICES ASSUME Inv, [Next]_vars PROVE Inv'
  OBVIOUS
<1>1. CASE Generator
  BY <1>1, PullStartInv, PullHandledInv, AnswerUnknownInv, SpawnInv, PullChunkInv,
     SendArgInv, PullCompleteInv, PullOtherInv, PullEndInv, DrainInv, RecvChunkInv,
     RecvEndInv, CompleteResultInv, DrainEndInv
     DEF Generator
<1>2. CASE PullError
  BY <1>2, DropInv DEF PullError, Dropped
<1>3. CASE Cancel
  BY <1>3, DropInv DEF Cancel, Dropped
<1>4. CASE \E c \in Calls : ToolStep(c) \/ ToolPanic(c)
  BY <1>4, ToolReadInv, ToolWriteInv, ToolEndInv DEF ToolStep
<1>5. CASE UNCHANGED vars
  <2>1. /\ UNCHANGED <<gen, called, open, sent, handled, through, passed,
                       answered, states, drained, sender, args, results, tool,
                       read, written, out>>
    BY <1>5 DEF vars, provider, inner, tasks
  <2>2. TypeOK'
    BY <2>1 DEF Inv, TypeOK
  <2>3. (ShapeInv /\ StatesInv /\ LogInv /\ InnerInv /\ OnceInv)'
    BY <2>1, ToolFrame
  <2>4. (ArgsInv /\ OutputInv)'
    BY <2>1, OthersKept DEF ArgsInv, OutputInv
  <2> QED
    BY <2>2, <2>3, <2>4 DEF Inv, IInv
<1> QED
  BY <1>1, <1>2, <1>3, <1>4, <1>5 DEF Next

(* The inductive invariant holds in every reachable state.                 *)
THEOREM Invariance == Spec => []Inv
BY InitInv, StepInv, PTL DEF Spec

-----------------------------------------------------------------------------
(* The properties of the generator and of the tools.                       *)

(* Every variable has its type; in particular the channels never hold more *)
(* than their capacity (tool_adapter.rs:185-191).                          *)
THEOREM TypeCorrect == Spec => []TypeOK
<1>1. Inv => TypeOK
  BY DEF Inv
<1> QED
  BY <1>1, Invariance, PTL

(* response.rs:45-47: no tool runs before the consumer has seen its call.  *)
THEOREM ToolRunsAfterYield == Spec => []YieldedBeforeRun
<1>1. Inv => YieldedBeforeRun
  BY DEF Inv, IInv, StatesInv, LogInv, YieldedBeforeRun, Known
<1> QED
  BY <1>1, Invariance, PTL

(* tool_adapter.rs:209-228: a tool that reads its arguments to their end   *)
(* has read every chunk of the call when it starts to work.                *)
THEOREM ToolHasAllArgs == Spec => []WorksOnAllArgs
<1>1. ASSUME Inv, NEW c \in Calls, tool[c] \in {"writing", "returned"},
             ~Streaming, ~Dropped
      PROVE  Yielded("tool", "complete", c) /\ read[c] = sent[c]
  <2>1. ~sender[c] /\ read[c] = sent[c]
    BY <1>1 DEF Inv, IInv, ArgsInv, ArgsOK
  <2>2. HasState(c) /\ c \in Known /\ c <= called
    BY <1>1 DEF Inv, IInv, StatesInv
  <2>3. c # open
    BY <1>1, <2>1, <2>2 DEF Inv, IInv, StatesInv
  <2> QED
    BY <1>1, <2>1, <2>2, <2>3 DEF Inv, IInv, LogInv, Known
<1>2. Inv => WorksOnAllArgs
  BY <1>1 DEF WorksOnAllArgs
<1> QED
  BY <1>2, Invariance, PTL

(* An event that is no chunk, once yielded, has one place in the history.  *)
LEMMA OnePlace ==
    ASSUME Inv, NEW step \in {"start", "complete"}, NEW c \in Calls,
           Yielded("result", step, c)
    PROVE  \E i \in DOMAIN out : /\ out[i] = <<"result", step, c>>
                                 /\ Places("result", step, c) = {i}
<1>1. PICK i \in DOMAIN out : out[i] = <<"result", step, c>>
  BY DEF Yielded
<1>2. \A j \in DOMAIN out : out[j] = <<"result", step, c>> => j = i
  BY <1>1 DEF Inv, IInv, OnceInv
<1> QED
  BY <1>1, <1>2 DEF Places

(* tool_adapter.rs:158-161, 229-259: a response that is over has one       *)
(* result for every call, with all of its output where a tool of this      *)
(* layer was called.                                                       *)
THEOREM ResultForEveryCall == Spec => []OneResultPerCall
<1>1. ASSUME Inv, gen = "done", NEW c \in 1 .. called
      PROVE  /\ \E i, j \in DOMAIN out :
                   /\ Places("result", "start", c) = {i}
                   /\ Places("result", "complete", c) = {j}
                   /\ i < j
             /\ c \notin handled =>
                  Chunks(c) = written[c] + (IF c \in Unknown \/ tool[c] = "panicked"
                                            THEN 1 ELSE 0)
  <2>1. /\ c \in Calls /\ c <= called
        /\ ~Dropped /\ open = 0 /\ drained = Len(states)
        /\ handled \subseteq answered /\ through = 0 /\ c # 0
    BY <1>1, Typed DEF Inv, IInv, ShapeInv, InnerInv, SecondLoop, Dropped, Calls
  <2>2. c \notin Unknown /\ c \notin handled => c \in Known /\ HasState(c) /\ Finished(c)
    BY <1>1, <2>1, Typed DEF Known, Inv, IInv, StatesInv, HasState, Finished
  <2>3. Yielded("result", "start", c) /\ Yielded("result", "complete", c)
    <3>1. Begun(c) /\ Ended(c)
      BY <1>1, <2>1, <2>2, Typed DEF Begun, Ended, Answering
    <3> QED
      BY <1>1, <2>1, <3>1 DEF Inv, IInv, LogInv
  <2>4. PICK i \in DOMAIN out : /\ out[i] = <<"result", "start", c>>
                                /\ Places("result", "start", c) = {i}
    BY <1>1, <2>1, <2>3, OnePlace
  <2>5. PICK j \in DOMAIN out : /\ out[j] = <<"result", "complete", c>>
                                /\ Places("result", "complete", c) = {j}
    BY <1>1, <2>1, <2>3, OnePlace
  <2>6. i < j
    BY <1>1, <2>1, <2>4, <2>5 DEF Inv, IInv, OnceInv
  <2>7. OutputOK(c) /\ Chunks(c) \in Nat
    BY <1>1, <2>1, Typed, PlacesFinite DEF Inv, IInv, OutputInv
  <2>8. CASE c \notin Unknown /\ c \notin handled
    <3>1. results[c] = 0 /\ Joined(c)
      BY <2>1, <2>2, <2>7, <2>8 DEF OutputOK, Joined
    <3>2. Chunks(c) + 0 = written[c] + (IF tool[c] = "panicked" THEN 1 ELSE 0)
      BY <2>1, <2>2, <2>7, <2>8, <3>1 DEF OutputOK
    <3> QED
      BY <2>4, <2>5, <2>6, <2>7, <2>8, <3>2
  <2>9. CASE c \in Unknown /\ c \notin handled
    <3>1. tool[c] = "none" /\ c \in NoTool
      BY <1>1, <2>1, <2>9 DEF NoTool, Inv, IInv, StatesInv, Known
    <3>2. written[c] = 0 /\ Chunks(c) = 1
      BY <1>1, <2>1, <2>7, <2>9, <3>1, Typed DEF OutputOK
    <3> QED
      BY <2>4, <2>5, <2>6, <2>9, <3>2
  <2>10. CASE c \in handled
    BY <2>4, <2>5, <2>6, <2>10
  <2> QED
    BY <2>8, <2>9, <2>10
<1>2. Inv => OneResultPerCall
  BY <1>1 DEF OneResultPerCall
<1> QED
  BY <1>2, Invariance, PTL

-----------------------------------------------------------------------------
(* What comes out is a TurnStream.                                         *)

Over == {"done", "failed", "cancelled"}

(* The channel of an event is a call or a message.                         *)
LEMMA EventKinds ==
    ASSUME Inv
    PROVE  /\ \A step : \A m \in Messages :
                 ~Yielded("tool", step, m) /\ ~Yielded("result", step, m)
           /\ \A step : \A c \in Calls : ~Yielded("message", step, c)
<1>1. /\ \A i \in DOMAIN out : out[i] \in Events
      /\ \A m \in Messages : m \notin Calls
  BY Typed
<1>2. \A k, step, c : <<k, step, c>> \in Events =>
         /\ k \in {"tool", "result"} => c \in Calls
         /\ k = "message" => c \in Messages
  BY DEF Events, Aside
<1> QED
  BY <1>1, <1>2 DEF Yielded

(* The abstract stream is read off the history and the generator.          *)
LEMMA TurnFacts ==
    ASSUME Inv
    PROVE  /\ \A k, c : Turn!Started(k, c) <=> Yielded(k, "start", c)
           /\ \A k, c : Turn!Completed(k, c) <=> Yielded(k, "complete", c)
           /\ \A c \in Calls : Turn!Open("tool", c) <=> c = open /\ c \notin handled
           /\ \A m \in Messages : Turn!Open("message", m) <=> m = through
           /\ ~Dropped => \A c \in Calls :
                 Turn!Open("result", c) <=> Begun(c) /\ ~Ended(c)
<1>1. \A k, c : Turn!Started(k, c) <=> Yielded(k, "start", c)
  BY DEF Turn!Started, Turn!Event, Yielded
<1>2. \A k, c : Turn!Completed(k, c) <=> Yielded(k, "complete", c)
  BY DEF Turn!Completed, Turn!Event, Yielded
<1>3. \A c \in Calls : Turn!Open("tool", c) <=> c = open /\ c \notin handled
  <2>1. \A c \in Calls : c = open => c <= called
    BY Typed DEF Inv, IInv, ShapeInv
  <2> QED
    BY <1>1, <1>2, <2>1 DEF Turn!Open, Inv, IInv, LogInv
<1>4. \A m \in Messages : Turn!Open("message", m) <=> m = through
  BY <1>1, <1>2 DEF Turn!Open, Inv, IInv, InnerInv
<1>5. ~Dropped => \A c \in Calls :
         Turn!Open("result", c) <=> Begun(c) /\ ~Ended(c)
  BY <1>1, <1>2 DEF Turn!Open, Inv, IInv, LogInv
<1> QED
  BY <1>1, <1>2, <1>3, <1>4, <1>5

(* No call and no message is open.                                         *)
LEMMA NothingOpen ==
    ASSUME Inv, open = 0, through = 0
    PROVE  Turn!NothingOpen
<1> SUFFICES ASSUME NEW kind \in {"message", "tool"}, NEW c \in Calls \cup Messages
             PROVE  ~Turn!Open(kind, c)
  BY DEF Turn!NothingOpen, Turn!Kinds
<1>1. c # 0
  BY Typed
<1>2. CASE c \in Calls
  BY <1>1, <1>2, TurnFacts, EventKinds DEF Turn!Open
<1>3. CASE c \in Messages
  BY <1>1, <1>3, TurnFacts, EventKinds DEF Turn!Open
<1> QED
  BY <1>2, <1>3

(* An event that is yielded is added to it.                                *)
LEMMA TurnAdd ==
    ASSUME gen \notin Over, gen' \notin Over,
           NEW kind, NEW step, NEW c, Yield(kind, step, c)
    PROVE  Turn!Add(Turn!Event(kind, step, c))
BY DEF Turn!Add, Turn!Event, Yield, Over, Dropped

(* No result is open unless the generator is at one.                       *)
LEMMA NoResultOpen ==
    ASSUME Inv, handled = {}, gen \in {"pull", "spawn", "send", "unknown", "drain"}
    PROVE  ~Turn!ResultOpen
<1>1. ~Dropped
  BY DEF Dropped
<1>3. \A m \in Messages : ~Turn!Open("result", m)
  BY TurnFacts, EventKinds DEF Turn!Open
<1>2. \A c \in Calls : Begun(c) => Ended(c)
  BY DEF Begun, Ended, Answering, Inv, IInv, ShapeInv
<1> QED
  BY <1>1, <1>2, <1>3, TurnFacts DEF Turn!ResultOpen

(* A call starts.                                                          *)
LEMMA TurnPullStart == ASSUME Inv, handled = {}, PullStart PROVE Turn!TurnNext
<1> DEFINE c == called + 1
<1>1. /\ gen = "pull" /\ open = 0 /\ through = 0 /\ c \in Calls
      /\ Yield("tool", "start", c)
      /\ gen' = IF c \in Unknown THEN "unknown" ELSE "spawn"
      /\ ~Dropped
  BY DEF PullStart, Dropped
<1>2. ~(c <= called)
  BY Typed
<1> HIDE DEF c
<1>3. ~Turn!ResultOpen
  BY <1>1, NoResultOpen
<1>4. Turn!Add(Turn!Event("tool", "start", c))
  <2>1. gen \notin Over /\ gen' \notin Over
    BY <1>1 DEF Over
  <2> QED
    BY <1>1, <2>1, TurnAdd
<1>5. Turn!NothingOpen
  BY <1>1, NothingOpen
<1>6. \A k \in Turn!Kinds : ~Turn!Started(k, c)
  BY <1>1, <1>2, TurnFacts, EventKinds DEF Turn!Kinds, Inv, IInv, LogInv
<1>7. Turn!PassStart("tool", c)
  BY <1>3, <1>4, <1>5, <1>6 DEF Turn!PassStart, Turn!Start
<1> QED
  BY <1>1, <1>7 DEF Turn!TurnNext, Turn!Kinds

(* Its arguments and their end.                                            *)
LEMMA TurnPassed ==
    ASSUME Inv, handled = {}, gen = "pull", gen' \in {"pull", "send"}, open # 0,
           NEW step \in {"chunk", "complete"}, Yield("tool", step, open)
    PROVE  Turn!TurnNext
<1>1. open \in Calls
  BY Typed DEF Inv, TypeOK, Calls
<1>2. gen \notin Over /\ gen' \notin Over
  BY DEF Over
<1>3. Turn!Add(Turn!Event("tool", step, open))
  BY <1>2, TurnAdd
<1>4. Turn!Open("tool", open) /\ ~Turn!ResultOpen
  BY <1>1, TurnFacts, NoResultOpen
<1>5. Turn!PassChunk("tool", open) \/ Turn!PassComplete("tool", open)
  BY <1>3, <1>4 DEF Turn!PassChunk, Turn!PassComplete, Turn!Chunk, Turn!Complete
<1> QED
  BY <1>1, <1>5 DEF Turn!TurnNext, Turn!Kinds

(* Messages, reasoning and usage.                                          *)
LEMMA TurnOther == ASSUME Inv, handled = {}, PullOther PROVE Turn!TurnNext
<1>1. gen = "pull" /\ gen' = "pull" /\ gen \notin Over /\ gen' \notin Over
  BY DEF PullOther, Over
<1>2. ~Turn!ResultOpen
  BY <1>1, NoResultOpen
<1>3. CASE OtherStart
  <2>1. PICK m : /\ m = NCalls + passed + 1 /\ open = 0 /\ through = 0
                 /\ passed < MaxOthers /\ Yield(Kind(m), "start", m)
    BY <1>3 DEF OtherStart
  <2>2. m \in Messages /\ m \notin Calls /\ ~(m <= NCalls + passed)
    BY <2>1, BoundsAssumption, Typed DEF Messages, Calls
  <2>3. Turn!Add(Turn!Event("message", "start", m))
    BY <1>1, <2>1, <2>2, TurnAdd DEF Kind
  <2>4. Turn!NothingOpen
    BY <2>1, NothingOpen
  <2>5. \A k \in Turn!Kinds : ~Turn!Started(k, m)
    BY <2>2, TurnFacts, EventKinds DEF Turn!Kinds, Inv, IInv, InnerInv
  <2>6. Turn!PassStart("message", m)
    BY <1>2, <2>3, <2>4, <2>5 DEF Turn!PassStart, Turn!Start
  <2> QED
    BY <2>2, <2>6 DEF Turn!TurnNext, Turn!Kinds
<1>4. CASE OtherChunk \/ OtherComplete
  <2>1. PICK step \in {"chunk", "complete"} : Yield(Kind(through), step, through)
    BY <1>4 DEF OtherChunk, OtherComplete
  <2>2. through \in Messages /\ through \notin Calls
    <3>1. through \in 0 .. NCalls + MaxOthers /\ through # 0
      BY <1>4 DEF OtherChunk, OtherComplete, Inv, TypeOK
    <3>2. through \notin Calls
      BY DEF Inv, IInv, InnerInv
    <3> QED
      BY <3>1, <3>2, BoundsAssumption DEF Calls, Messages
  <2>3. Turn!Add(Turn!Event("message", step, through))
    BY <1>1, <2>1, <2>2, TurnAdd DEF Kind
  <2>4. Turn!Open("message", through)
    BY <2>2, TurnFacts
  <2>5. Turn!PassChunk("message", through) \/ Turn!PassComplete("message", through)
    BY <1>2, <2>3, <2>4
       DEF Turn!PassChunk, Turn!PassComplete, Turn!Chunk, Turn!Complete
  <2> QED
    BY <2>2, <2>5 DEF Turn!TurnNext, Turn!Kinds
<1>5. CASE OtherAside
  <2>1. Yield("other", "whole", 0)
    BY <1>5 DEF OtherAside
  <2>2. Turn!Add(Turn!Event("other", "whole", 0))
    BY <1>1, <2>1, TurnAdd
  <2>3. Turn!PassAside
    BY <1>2, <2>2 DEF Turn!PassAside, Turn!Aside, Turn!Event
  <2> QED
    BY <2>3 DEF Turn!TurnNext
<1> QED
  BY <1>3, <1>4, <1>5 DEF PullOther

(* The result of a call that names no tool.                                *)
LEMMA TurnAnswer == ASSUME Inv, handled = {}, AnswerUnknown PROVE Turn!TurnNext
<1>1. PICK step \in {"start", "chunk", "complete"} :
        /\ Yield("result", step, open)
        /\ \/ step = "start" /\ gen = "unknown" /\ gen' = "unknownChunk"
           \/ step = "chunk" /\ gen = "unknownChunk" /\ gen' = "unknownEnd"
           \/ step = "complete" /\ gen = "unknownEnd" /\ gen' = "pull"
  BY DEF AnswerUnknown
<1>2. gen \in Answering /\ ~Dropped /\ gen \notin Over /\ gen' \notin Over
  BY <1>1 DEF Answering, Dropped, Over
<1>3. open \in Unknown /\ open \in Calls /\ open \notin handled /\ open <= called
  BY <1>2, CallsAssumption, Typed DEF Inv, IInv, ShapeInv, NoTool
<1>4. Turn!Add(Turn!Event("result", step, open))
  BY <1>1, <1>2, TurnAdd
<1>5. CASE step = "start"
  <2>1. gen = "unknown" /\ ~Turn!ResultOpen
    BY <1>1, <1>5, NoResultOpen
  <2>2. Turn!Open("tool", open) /\ ~Turn!Started("result", open)
    BY <1>2, <1>3, <2>1, TurnFacts DEF Inv, IInv, LogInv, Begun
  <2> QED
    BY <1>3, <1>4, <1>5, <2>1, <2>2 DEF Turn!TurnNext, Turn!ResultStart
<1>6. CASE step # "start"
  <2>1. gen \in {"unknownChunk", "unknownEnd"}
    BY <1>1, <1>6
  <2>2. Turn!Open("result", open)
    BY <1>2, <1>3, <2>1, TurnFacts DEF Begun, Ended, Answering
  <2>3. Turn!ResultChunk(open) \/ Turn!ResultComplete(open)
    BY <1>1, <1>4, <1>6, <2>2
       DEF Turn!ResultChunk, Turn!ResultComplete, Turn!Chunk, Turn!Complete
  <2> QED
    BY <1>3, <2>3 DEF Turn!TurnNext
<1> QED
  BY <1>5, <1>6

(* The results of the second loop.                                         *)
LEMMA TurnDrain == ASSUME Inv, handled = {}, Drain PROVE Turn!TurnNext
<1>1. /\ gen = "drain" /\ gen' = "recv" /\ drained < Len(states)
      /\ Yield("result", "start", Current)
  BY DEF Drain, Current
<1>2. /\ Current \in Calls /\ Current <= called /\ Current \notin handled
      /\ Current \notin Unknown /\ ~Finished(Current) /\ open = 0 /\ ~Dropped
  BY <1>1, CurrentFacts
<1>3. Turn!Add(Turn!Event("result", "start", Current))
  <2>1. gen \notin Over /\ gen' \notin Over
    BY <1>1 DEF Over
  <2> QED
    BY <1>1, <2>1, TurnAdd
<1>4. ~Turn!ResultOpen
  BY <1>1, NoResultOpen
<1>5. Turn!Completed("tool", Current)
  <2>1. Current # open
    BY <1>2, Typed
  <2> QED
    BY <1>2, <2>1, TurnFacts DEF Inv, IInv, LogInv
<1>6. ~Turn!Started("result", Current)
  <2>1. ~Begun(Current)
    BY <1>1, <1>2 DEF Begun
  <2> QED
    BY <1>2, <2>1, TurnFacts DEF Inv, IInv, LogInv
<1>7. Turn!ResultStart(Current)
  BY <1>2, <1>3, <1>4, <1>5, <1>6 DEF Turn!ResultStart
<1> QED
  BY <1>2, <1>7 DEF Turn!TurnNext

(* A chunk or the end of the output of a tool is one of a result.          *)
LEMMA TurnResult ==
    ASSUME Inv, handled = {}, gen \in {"recv", "complete"}, gen' \notin Over,
           NEW step \in {"chunk", "complete"}, Yield("result", step, Current)
    PROVE  Turn!TurnNext
<1>1. drained < Len(states)
  BY DEF Inv, IInv, ShapeInv
<1>2. /\ Current \in Calls /\ Current \notin Unknown /\ ~Finished(Current)
      /\ ~Dropped
  BY <1>1, CurrentFacts
<1>3. Turn!Add(Turn!Event("result", step, Current))
  <2>1. gen \notin Over
    BY DEF Over
  <2> QED
    BY <2>1, TurnAdd
<1>4. Turn!Open("result", Current)
  <2>1. Begun(Current) /\ ~Ended(Current)
    BY <1>2 DEF Begun, Ended
  <2> QED
    BY <1>2, <2>1, TurnFacts
<1>5. Turn!ResultChunk(Current) \/ Turn!ResultComplete(Current)
  BY <1>3, <1>4
     DEF Turn!ResultChunk, Turn!ResultComplete, Turn!Chunk, Turn!Complete
<1> QED
  BY <1>2, <1>5 DEF Turn!TurnNext

(* The response is over, with every call answered, or breaks off.          *)
LEMMA TurnDrainEnd == ASSUME Inv, handled = {}, DrainEnd PROVE Turn!TurnNext
<1>1. /\ gen = "drain" /\ gen' = "done" /\ drained = Len(states)
      /\ out' = out /\ ~Dropped /\ open = 0 /\ through = 0
  BY DEF DrainEnd, Dropped, Inv, IInv, ShapeInv, InnerInv, SecondLoop
<1>2. ASSUME NEW c \in Calls \cup Messages, Turn!Started("tool", c)
      PROVE  Turn!Completed("result", c)
  <2>1. c \in Calls /\ c <= called
    BY <1>2, TurnFacts, EventKinds DEF Inv, IInv, LogInv
  <2>2. c \notin Unknown => HasState(c) /\ Finished(c)
    BY <1>1, <2>1, Typed DEF Known, Inv, IInv, StatesInv, HasState, Finished
  <2>3. Ended(c)
    BY <1>1, <2>1, <2>2, Typed DEF Ended, Answering
  <2> QED
    BY <1>1, <2>1, <2>3, TurnFacts DEF Inv, IInv, LogInv
<1>3. Turn!NothingOpen
  BY <1>1, NothingOpen
<1>4. Turn!End
  BY <1>1, <1>3 DEF Turn!End, Dropped
<1>5. Turn!TurnEnd
  BY <1>2, <1>4 DEF Turn!TurnEnd
<1> QED
  BY <1>5 DEF Turn!TurnNext

(* A stream that breaks off is a TurnStream that breaks off.               *)
LEMMA TurnDrop ==
    ASSUME NEW why \in {"failed", "cancelled"}, gen \notin Over, Drop(why)
    PROVE  Turn!TurnNext
<1>1. gen' = why /\ out' = out /\ ~Dropped /\ Dropped'
  BY DEF Drop, Dropped, Over
<1>2. Turn!Break
  BY <1>1 DEF Turn!Break, Over
<1> QED
  BY <1>2 DEF Turn!TurnNext

(* What yields nothing and keeps the generator going is no step of it.     *)
LEMMA TurnStutter ==
    ASSUME out' = out, gen' = gen \/ (gen \notin Over /\ gen' \notin Over)
    PROVE  UNCHANGED Turn!vars
BY DEF Turn!vars, Over, Dropped

(* The calls that came handled stay so.                                    *)
LEMMA HandledStays == [Next]_vars => handled \subseteq handled'
BY DEF Next, Generator, PullStart, PullHandled, AnswerUnknown, Spawn, PullChunk,
       SendArg, PullComplete, PullOther, PullEnd, Drain, RecvChunk, RecvEnd,
       CompleteResult, DrainEnd, PullError, Cancel, Drop, ToolStep, ToolRead,
       ToolWrite, ToolWritten, ToolReturn, ToolPanic, vars, provider, inner

(* Every step of the generator and of the tools is one of the abstract     *)
(* stream, or none, until a call comes that is handled already.            *)
LEMMA TurnStep ==
    Inv /\ [Next]_vars => [handled' = {} => Turn!TurnNext]_(Turn!vars)
<1> SUFFICES ASSUME Inv, [Next]_vars, handled' = {}
             PROVE  Turn!TurnNext \/ UNCHANGED Turn!vars
  OBVIOUS
<1>11. handled = {}
  BY HandledStays
<1>1. CASE PullStart
  BY <1>1, <1>11, TurnPullStart
<1>2. CASE AnswerUnknown
  BY <1>2, <1>11, TurnAnswer
<1>3. CASE PullChunk \/ PullComplete
  <2>1. PICK step \in {"chunk", "complete"} : Yield("tool", step, open)
    BY <1>3 DEF PullChunk, PullComplete
  <2>2. gen = "pull" /\ gen' \in {"pull", "send"} /\ open # 0
    BY <1>3 DEF PullChunk, PullComplete
  <2> QED
    BY <1>11, <2>1, <2>2, TurnPassed
<1>4. CASE Spawn \/ SendArg \/ PullEnd
  <2>1. out' = out /\ gen \notin Over /\ gen' \notin Over
    BY <1>4 DEF Spawn, SendArg, PullEnd, Over
  <2> QED
    BY <2>1, TurnStutter
<1>5. CASE Drain
  BY <1>5, <1>11, TurnDrain
<1>6. CASE RecvChunk \/ RecvEnd \/ CompleteResult
  <2>1. gen \in {"recv", "complete"} /\ gen \notin Over /\ gen' \notin Over
    BY <1>6 DEF RecvChunk, RecvEnd, CompleteResult, Over
  <2>2. out' = out \/ \E step \in {"chunk", "complete"} : Yield("result", step, Current)
    BY <1>6 DEF RecvChunk, RecvEnd, CompleteResult, Current
  <2> QED
    BY <1>11, <2>1, <2>2, TurnResult, TurnStutter
<1>7. CASE DrainEnd
  BY <1>7, <1>11, TurnDrainEnd
<1>8. CASE PullError \/ Cancel
  BY <1>8, TurnDrop DEF PullError, Cancel, Over
<1>9. CASE \E c \in Calls : ToolStep(c) \/ ToolPanic(c)
  <2>1. out' = out /\ gen' = gen
    BY <1>9 DEF ToolStep, ToolRead, ToolWrite, ToolWritten, ToolReturn, ToolPanic
  <2> QED
    BY <2>1, TurnStutter
<1>10. CASE UNCHANGED vars
  BY <1>10, TurnStutter DEF vars
<1>12. ~PullHandled
  BY DEF PullHandled
<1>13. CASE PullOther
  BY <1>11, <1>13, TurnOther
<1> QED
  BY <1>1, <1>2, <1>3, <1>4, <1>5, <1>6, <1>7, <1>8, <1>9, <1>10, <1>12, <1>13
     DEF Next, Generator

(* response.rs:9-75: what the adapter yields is a response in which every  *)
(* call is answered once and no result overlaps another event, for as long *)
(* as no call comes that is handled already.                               *)
THEOREM Refinement == Spec => Implements
<1>1. Init => Turn!Init
  BY DEF Init, Turn!Init, Dropped
<1> QED
  BY <1>1, Invariance, TurnStep, PTL DEF Spec, Implements

(* ciel-openai/src/lib.rs:361: in the program, where no layer below this   *)
(* one handles calls, all of what it yields is a TurnStream.               *)
THEOREM ProgramRefinement ==
    ASSUME Handled = {}
    PROVE  Spec => Turn!TurnSpec
<1>1. Init => Turn!Init
  BY DEF Init, Turn!Init, Dropped
<1>2. TypeOK' => handled' = {}
  BY DEF TypeOK
<1>3. Inv /\ Inv' /\ [Next]_vars => [Turn!TurnNext]_(Turn!vars)
  BY <1>2, TurnStep DEF Inv
<1> QED
  BY <1>1, <1>3, Invariance, PTL DEF Spec, Turn!TurnSpec

-----------------------------------------------------------------------------
(* Who waits for whom.                                                     *)

(* tool_adapter.rs:209-259: a generator that waits for a tool waits for    *)
(* one that can go on, whatever the capacity of the channels.              *)
THEOREM NoDeadlock == Spec => []NeverBothWait
<1>1. ASSUME Inv, NEW c \in Calls, RecvWaits(c)
      PROVE  ~ToolWaits(c)
  <2>1. open = 0 /\ results[c] = 0 /\ Capacity # 0
    BY <1>1, CapacityAssumption DEF Inv, IInv, ShapeInv, RecvWaits, SecondLoop
  <2>2. ~sender[c]
    BY <1>1, <2>1 DEF Inv, IInv, StatesInv, Calls
  <2> QED
    BY <2>1, <2>2 DEF ToolWaits
<1>2. ASSUME Inv, NEW c \in Calls, SendWaits(c), ~Streaming
      PROVE  ~ToolWaits(c)
  <2>1. c = open /\ gen = "send" /\ args[c] # 0
    BY <1>2, CapacityAssumption DEF SendWaits
  <2>2. c \in Known /\ c <= called
    BY <1>2, <2>1 DEF Inv, IInv, ShapeInv, TypeOK
  <2>3. ~Dropped /\ HasState(c)
    BY <1>2, <2>1, <2>2 DEF Inv, IInv, StatesInv, Dropped
  <2>4. sender[c] <=> HasState(c) /\ c = open /\ ~Dropped
    BY <1>2 DEF Inv, IInv, StatesInv
  <2>5. tool[c] = "writing" => ~sender[c]
    BY <1>2, <2>3 DEF Inv, IInv, ArgsInv, ArgsOK
  <2> QED
    BY <2>1, <2>3, <2>4, <2>5 DEF ToolWaits
<1>3. Inv => NeverBothWait
  BY <1>1, <1>2 DEF NeverBothWait
<1> QED
  BY <1>3, Invariance, PTL
=============================================================================
