------------------------- MODULE TerminalToolProofs -------------------------
(***************************************************************************)
(* Proofs about TerminalTool, for a command that writes any number of      *)
(* lines, and for a pipe and an output channel of any size.                *)
(*                                                                         *)
(* OutputWhole is about what was delivered.  The invariant is about all    *)
(* that was sent, the output still in the channel included, and says how   *)
(* far the text has come by where the reader is: the lines in the pipe are *)
(* the last ones written, and the reader has sent all before them.         *)
(***************************************************************************)
EXTENDS TerminalTool, SequenceTheorems, FiniteSetTheorems, TLAPS

Sent == delivered \o output
Number(chunks) == Cardinality(Text(chunks))

(* The reader lives as long as the child has something to read from, and   *)
(* only a child whose time is up is killed.                                *)
ChildInv ==
    /\ child = "none" <=> reader = "none"
    /\ child = "none" => written = 0
    /\ task = "reading" => child = "none"
    /\ child = "killed" => task \in {"failing", "returned"}
    /\ reader = "ended" => child # "running"
    /\ pipe # <<>> => reader \in {"reading", "sending", "newline"}

(* The pipe holds the last lines that were written.                        *)
PipeInv ==
    /\ Len(pipe) <= written
    /\ \A i \in DOMAIN pipe : pipe[i] = written - Len(pipe) + i

(* How much text was sent.                                                 *)
TextInv ==
    /\ SaidInOrder(Sent)
    /\ Number(Sent) <= 2 * written
    /\ reader = "sending" => line = written - Len(pipe) /\ line > 0
    /\ reader = "newline" => Len(pipe) < written
    /\ receiver # "dropped" =>
         /\ reader \in {"none", "reading", "ended"} =>
                Number(Sent) = 2 * (written - Len(pipe))
         /\ reader = "sending" => Number(Sent) = 2 * (written - Len(pipe)) - 2
         /\ reader = "newline" => Number(Sent) = 2 * (written - Len(pipe)) - 1

(* A killed child is reported, and a complete result stays as it is.       *)
EndInv ==
    /\ receiver # "dropped" /\ child = "killed" /\ task = "returned" =>
          \E i \in DOMAIN Sent : Sent[i] = ToolError
    /\ receiver = "complete" => /\ output = <<>> /\ task = "returned"
                                /\ reader \in {"none", "ended", "failed"}

IInv == TypeOK /\ ChildInv /\ PipeInv /\ TextInv /\ EndInv

-----------------------------------------------------------------------------
(* Facts about chunks.                                                     *)

(* Two chunks of text follow from each line.                               *)
LEMMA SaidFacts ==
    ASSUME NEW n \in Nat, n > 0
    PROVE  Said(2 * n - 1) = Line(n) /\ Said(2 * n) = Newline
<1>1. (2 * n - 1) % 2 = 1 /\ (2 * n) % 2 = 0 /\ (2 * n - 1 + 1) \div 2 = n
  OBVIOUS
<1> QED
  BY <1>1 DEF Said

(* The errors are chunks, but no text.                                     *)
LEMMA ChunkFacts ==
    /\ ToolError \in Chunks /\ WaitNote \in Chunks
    /\ Newline \in Chunks \ {ToolError, WaitNote}
    /\ \A n \in 1 .. MaxLines : Line(n) \in Chunks \ {ToolError, WaitNote}
BY DEF Chunks, ToolError, WaitNote, Newline, Line

(* The places of the text are finitely many.                               *)
LEMMA TextFinite ==
    ASSUME NEW s \in Seq(Chunks), NEW i
    PROVE  /\ IsFiniteSet(Text(s)) /\ Number(s) \in Nat
           /\ IsFiniteSet({j \in Text(s) : j <= i})
           /\ Cardinality({j \in Text(s) : j <= i}) \in Nat
<1>1. IsFiniteSet(1 .. Len(s))
  BY FS_Interval
<1>2. Text(s) \in SUBSET (1 .. Len(s)) /\ {j \in Text(s) : j <= i} \in SUBSET (1 .. Len(s))
  BY DEF Text
<1> QED
  BY <1>1, <1>2, FS_Subset, FS_CardinalityType DEF Number

(* Sending the right chunk of text, or one that is none, keeps the order.  *)
LEMMA TextAppend ==
    ASSUME NEW s \in Seq(Chunks), NEW v \in Chunks, SaidInOrder(s),
           v \notin {ToolError, WaitNote} => v = Said(Number(s) + 1)
    PROVE  /\ SaidInOrder(Append(s, v))
           /\ Number(Append(s, v)) = Number(s) + (IF v \in {ToolError, WaitNote} THEN 0 ELSE 1)
<1> DEFINE t == Append(s, v)
           n == Len(s) + 1
<1>1. /\ DOMAIN t = DOMAIN s \cup {n} /\ t[n] = v
      /\ \A i \in DOMAIN s : t[i] = s[i] /\ i < n /\ i \in Nat
      /\ n \notin DOMAIN s /\ n \in Nat
  BY AppendProperties, LenProperties
<1>2. IsFiniteSet(Text(s)) /\ Number(s) \in Nat /\ Text(s) \subseteq DOMAIN s
  BY TextFinite DEF Text
<1> HIDE DEF t, n
<1>3. CASE v \in {ToolError, WaitNote}
  <2>1. Text(t) = Text(s)
    BY <1>1, <1>3 DEF Text
  <2>2. SaidInOrder(t)
    BY <1>1, <1>2, <2>1 DEF SaidInOrder
  <2> QED
    BY <1>3, <2>1, <2>2, <1>2 DEF Number, t
<1>4. CASE v \notin {ToolError, WaitNote}
  <2>1. Text(t) = Text(s) \cup {n}
    BY <1>1, <1>4 DEF Text
  <2>2. Number(t) = Number(s) + 1
    BY <1>1, <1>2, <2>1, FS_AddElement DEF Number
  <2>3. ASSUME NEW i \in Text(t)
        PROVE  t[i] = Said(Cardinality({j \in Text(t) : j <= i}))
    <3>1. CASE i = n
      <4>1. {j \in Text(t) : j <= i} = Text(t)
        BY <1>1, <1>2, <2>1, <3>1
      <4> QED
        BY <1>1, <1>4, <2>2, <3>1, <4>1 DEF Number
    <3>2. CASE i \in Text(s)
      <4>1. {j \in Text(t) : j <= i} = {j \in Text(s) : j <= i}
        BY <1>1, <1>2, <2>1, <3>2
      <4> QED
        BY <1>1, <1>2, <3>2, <4>1 DEF SaidInOrder
    <3> QED
      BY <2>1, <3>1, <3>2
  <2> QED
    BY <1>4, <2>2, <2>3 DEF SaidInOrder, t
<1> QED
  BY <1>3, <1>4

(* What is in order is so from the start.                                  *)
LEMMA TextPrefix ==
    ASSUME NEW d \in Seq(Chunks), NEW o \in Seq(Chunks), SaidInOrder(d \o o)
    PROVE  SaidInOrder(d) /\ Number(d) <= Number(d \o o)
<1> DEFINE s == d \o o
<1>1. /\ s \in Seq(Chunks) /\ DOMAIN d = 1 .. Len(d) /\ Len(d) \in Nat /\ Len(o) \in Nat
      /\ DOMAIN s = 1 .. (Len(d) + Len(o))
      /\ \A i \in DOMAIN d : s[i] = d[i]
  BY ConcatProperties, LenProperties
<1> HIDE DEF s
<1>2. Text(d) = {j \in Text(s) : j <= Len(d)} /\ Text(d) \in SUBSET Text(s)
  BY <1>1 DEF Text
<1>3. Number(d) <= Number(s)
  BY <1>1, <1>2, TextFinite, FS_Subset DEF Number
<1>4. ASSUME NEW i \in Text(d)
      PROVE  d[i] = Said(Cardinality({j \in Text(d) : j <= i}))
  <2>1. i \in Text(s) /\ d[i] = s[i] /\ i \in DOMAIN d
    BY <1>1, <1>2, <1>4 DEF Text
  <2>2. {j \in Text(d) : j <= i} = {j \in Text(s) : j <= i}
    <3>1. \A j \in Text(s) : j \in Nat
      BY <1>1 DEF Text
    <3> QED
      BY <1>1, <1>2, <2>1, <3>1
  <2> QED
    BY <2>1, <2>2 DEF SaidInOrder, s
<1> QED
  BY <1>3, <1>4 DEF SaidInOrder, s

(* The property follows.                                                   *)
LEMMA WholeFromInv == IInv => OutputWhole
<1> SUFFICES ASSUME IInv PROVE OutputWhole
  OBVIOUS
<1>1. /\ delivered \in Seq(Chunks) /\ output \in Seq(Chunks) /\ written \in Nat
      /\ pipe \in Seq(1 .. MaxLines)
  BY DEF IInv, TypeOK
<1>2. SaidInOrder(delivered) /\ Number(delivered) <= Number(Sent) /\ Number(Sent) <= 2 * written
  BY <1>1, TextPrefix DEF IInv, TextInv, Sent
<1>3. Number(delivered) \in Nat /\ Number(Sent) \in Nat
  <2>1. Sent \in Seq(Chunks)
    BY <1>1, ConcatProperties, LenProperties DEF Sent
  <2> QED
    BY <1>1, <2>1, TextFinite
<1>4. ASSUME receiver = "complete"
      PROVE  /\ reader # "failed" => Number(delivered) = 2 * written
             /\ child = "killed" => \E i \in DOMAIN delivered : delivered[i] = ToolError
  <2>1. /\ output = <<>> /\ task = "returned" /\ reader \in {"none", "ended", "failed"}
        /\ receiver # "dropped"
    BY <1>4 DEF IInv, EndInv
  <2>2. Sent = delivered
    BY <1>1, <2>1 DEF Sent
  <2>3. reader # "failed" => pipe = <<>>
    BY <2>1 DEF IInv, ChildInv
  <2>4. reader # "failed" => Number(Sent) = 2 * (written - Len(pipe))
    BY <2>1 DEF IInv, TextInv
  <2>5. child = "killed" => \E i \in DOMAIN Sent : Sent[i] = ToolError
    BY <2>1 DEF IInv, EndInv
  <2> QED
    BY <1>1, <2>2, <2>3, <2>4, <2>5
<1> QED
  BY <1>1, <1>2, <1>3, <1>4 DEF OutputWhole, Number

-----------------------------------------------------------------------------
(* The steps.                                                              *)

(* The sequences of a state, without the other types.                      *)
LEMMA TypeFacts ==
    ASSUME IInv
    PROVE  /\ delivered \in Seq(Chunks) /\ output \in Seq(Chunks) /\ Sent \in Seq(Chunks)
           /\ pipe \in Seq(1 .. MaxLines) /\ Len(pipe) \in Nat
           /\ written \in 0 .. MaxLines /\ line \in 0 .. MaxLines /\ MaxLines \in Nat
           /\ Number(Sent) \in Nat
<1>1. delivered \in Seq(Chunks) /\ output \in Seq(Chunks)
  BY DEF IInv, TypeOK
<1>2. Sent \in Seq(Chunks)
  BY <1>1, ConcatProperties, LenProperties DEF Sent
<1>3. Number(Sent) \in Nat
  BY <1>2, TextFinite
<1>4. pipe \in Seq(1 .. MaxLines) /\ written \in 0 .. MaxLines /\ line \in 0 .. MaxLines
  BY DEF IInv, TypeOK
<1>5. Len(pipe) \in Nat /\ MaxLines \in Nat
  BY <1>4, LinesAssumption
<1> QED
  BY <1>1, <1>2, <1>3, <1>4, <1>5

(* What a send does to what was sent.                                      *)
LEMMA SendFacts ==
    ASSUME IInv, NEW chunk \in Chunks, Send(chunk), delivered' = delivered,
           receiver # "dropped" /\ chunk \notin {ToolError, WaitNote} =>
               chunk = Said(Number(Sent) + 1)
    PROVE  /\ output' \in Seq(Chunks) /\ Len(output') <= Capacity
           /\ SaidInOrder(Sent)'
           /\ receiver = "dropped" => Number(Sent)' = Number(Sent)
           /\ receiver # "dropped" =>
                 /\ Number(Sent)' = Number(Sent) + (IF chunk \in {ToolError, WaitNote} THEN 0 ELSE 1)
                 /\ \E i \in DOMAIN Sent' : Sent'[i] = chunk
                 /\ \A i \in DOMAIN Sent : i \in DOMAIN Sent' /\ Sent'[i] = Sent[i]
<1>1. /\ delivered \in Seq(Chunks) /\ output \in Seq(Chunks) /\ Sent \in Seq(Chunks)
      /\ Len(output) <= Capacity /\ Capacity \in Nat /\ SaidInOrder(Sent)
  BY TypeFacts, SizesAssumption DEF IInv, TypeOK, TextInv
<1>2. PICK s : s = Sent
  OBVIOUS
<1>3. PICK t : t = Sent'
  OBVIOUS
<1>4. CASE receiver = "dropped"
  <2>1. output' = output
    BY <1>4 DEF Send
  <2>2. t = s
    BY <1>2, <1>3, <2>1 DEF Sent
  <2> QED
    BY <1>1, <1>2, <1>3, <1>4, <2>1, <2>2
<1>5. CASE receiver # "dropped"
  <2>1. output' = Append(output, chunk) /\ Len(output) < Capacity
    BY <1>5 DEF Send
  <2>2. output' \in Seq(Chunks) /\ Len(output') <= Capacity
    BY <1>1, <2>1
  <2>3. t = Append(s, chunk)
    BY <1>1, <1>2, <1>3, <2>1 DEF Sent
  <2>4. SaidInOrder(t) /\ Number(t) = Number(s) + (IF chunk \in {ToolError, WaitNote} THEN 0 ELSE 1)
    BY <1>1, <1>2, <1>5, <2>3, TextAppend
  <2>5. /\ \E i \in DOMAIN t : t[i] = chunk
        /\ \A i \in DOMAIN s : i \in DOMAIN t /\ t[i] = s[i]
    BY <1>1, <1>2, <2>3, AppendProperties, LenProperties
  <2> QED
    BY <1>2, <1>3, <1>5, <2>2, <2>4, <2>5
<1> QED
  BY <1>4, <1>5

(* The steps that leave alone what was written and sent, up to what is     *)
(* read from the pipe.                                                     *)
LEMMA QuietInv ==
    ASSUME IInv, Begin \/ Waited \/ WaitFails \/ TimeOut \/ ChildExit
                     \/ ArgumentsEnd \/ Drain \/ Closed \/ ReadEnd
    PROVE  IInv'
<1>1. /\ UNCHANGED <<written, pipe, line, output, delivered>>
      /\ reader' # reader => \/ reader = "none" /\ reader' = "reading"
                             \/ reader = "reading" /\ pipe = <<>> /\ reader' = "ended"
      /\ receiver' # receiver => receiver # "dropped" /\ receiver' # "dropped"
  BY DEF Begin, Waited, WaitFails, TimeOut, ChildExit, ArgumentsEnd, Drain, Closed, ReadEnd,
         process, lines, adapter, IInv, ChildInv
<1>2. TypeOK'
  BY DEF IInv, TypeOK, Begin, Waited, WaitFails, TimeOut, ChildExit, ArgumentsEnd, Drain, Closed,
         ReadEnd, process, lines, adapter
<1>3. ChildInv'
  BY DEF IInv, TypeOK, ChildInv, Begin, Waited, WaitFails, TimeOut, ChildExit, ArgumentsEnd, Drain,
         Closed, ReadEnd, process, lines, adapter
<1>4. PipeInv'
  BY <1>1 DEF IInv, PipeInv
<1>5. Sent' = Sent
  BY <1>1 DEF Sent
<1>6. TextInv'
  BY <1>1, <1>5 DEF IInv, TextInv, ChildInv
<1>7. EndInv'
  BY <1>1, <1>5 DEF IInv, EndInv, ChildInv, Begin, Waited, WaitFails, TimeOut, ChildExit,
         ArgumentsEnd, Drain, Closed, ReadEnd, process, lines, adapter
<1> QED
  BY <1>2, <1>3, <1>4, <1>6, <1>7 DEF IInv

(* An error is sent.                                                       *)
LEMMA ReportInv ==
    ASSUME IInv, Note \/ Fail
    PROVE  IInv'
<1>1. PICK chunk \in {ToolError, WaitNote} :
         /\ Send(chunk) /\ UNCHANGED <<process, lines, adapter>>
         /\ chunk = WaitNote => task = "noting" /\ child # "killed"
         /\ task \in {"noting", "failing"} /\ task' \in {"failing", "returned"}
         /\ task' = "failing" => receiver = "dropped"
  <2>1. CASE Note
    <3>1. task' = IF receiver = "dropped" THEN "failing" ELSE "returned"
      BY <2>1 DEF Note
    <3> QED
      BY <2>1, <3>1 DEF Note, IInv, ChildInv
  <2>2. CASE Fail
    <3>1. ToolError # WaitNote
      BY DEF ToolError, WaitNote
    <3> QED
      BY <2>2, <3>1 DEF Fail
  <2> QED
    BY <2>1, <2>2
<1>2. UNCHANGED <<args, receiver, delivered, child, written, pipe, reader, line>>
  BY <1>1 DEF adapter, process, lines
<1>3. chunk \in Chunks /\ chunk \in {ToolError, WaitNote}
  BY ChunkFacts
<1>4. /\ output' \in Seq(Chunks) /\ Len(output') <= Capacity
      /\ SaidInOrder(Sent)' /\ Number(Sent)' = Number(Sent)
      /\ receiver # "dropped" =>
            /\ \E i \in DOMAIN Sent' : Sent'[i] = chunk
            /\ \A i \in DOMAIN Sent : i \in DOMAIN Sent' /\ Sent'[i] = Sent[i]
  <2>1. Number(Sent) \in Nat
    BY TypeFacts
  <2> QED
    BY <1>1, <1>2, <1>3, <2>1, SendFacts
<1>5. TypeOK'
  BY <1>1, <1>2, <1>4 DEF IInv, TypeOK
<1>6. ChildInv' /\ PipeInv'
  BY <1>1, <1>2 DEF IInv, ChildInv, PipeInv
<1>7. TextInv'
  BY <1>2, <1>4 DEF IInv, TextInv
<1>8. EndInv'
  BY <1>1, <1>2, <1>4 DEF IInv, EndInv
<1> QED
  BY <1>5, <1>6, <1>7, <1>8 DEF IInv

(* A line is written.                                                      *)
LEMMA ChildWriteInv ==
    ASSUME IInv, ChildWrite
    PROVE  IInv'
<1>1. /\ child = "running" /\ reader \notin {"ended", "failed"} /\ written < MaxLines
      /\ Len(pipe) < PipeSize /\ pipe' = Append(pipe, written + 1) /\ written' = written + 1
      /\ UNCHANGED <<task, child, reader, line, output, args, receiver, delivered>>
  BY DEF ChildWrite, adapter
<1>2. /\ pipe \in Seq(1 .. MaxLines) /\ Len(pipe) \in Nat /\ written \in 0 .. MaxLines
      /\ MaxLines \in Nat /\ Number(Sent) \in Nat /\ PipeSize \in Nat
  BY TypeFacts, SizesAssumption
<1>3. written' \in 1 .. MaxLines
  BY <1>1, <1>2
<1>4. /\ pipe' \in Seq(1 .. MaxLines) /\ Len(pipe') = Len(pipe) + 1
      /\ DOMAIN pipe' = DOMAIN pipe \cup {Len(pipe) + 1}
      /\ \A i \in DOMAIN pipe : pipe'[i] = pipe[i]
      /\ pipe'[Len(pipe) + 1] = written + 1
  BY <1>1, <1>2, <1>3, AppendProperties, LenProperties
<1>5. TypeOK'
  BY <1>1, <1>2, <1>3, <1>4 DEF IInv, TypeOK
<1>6. ChildInv'
  BY <1>1 DEF IInv, ChildInv, TypeOK
<1>7. PipeInv'
  <2>1. DOMAIN pipe = 1 .. Len(pipe) /\ Len(pipe) <= written
    BY <1>2 DEF IInv, PipeInv
  <2>2. ASSUME NEW i \in DOMAIN pipe'
        PROVE  pipe'[i] = written' - Len(pipe') + i
    BY <1>1, <1>2, <1>4, <2>1, <2>2 DEF IInv, PipeInv
  <2> QED
    BY <1>1, <1>2, <1>4, <2>1, <2>2 DEF PipeInv
<1>8. Sent' = Sent /\ written' - Len(pipe') = written - Len(pipe)
  BY <1>1, <1>2, <1>4 DEF Sent
<1>9. TextInv'
  BY <1>1, <1>2, <1>4, <1>8 DEF IInv, TextInv, PipeInv
<1>10. EndInv'
  BY <1>1, <1>8 DEF IInv, EndInv, ChildInv
<1> QED
  BY <1>5, <1>6, <1>7, <1>9, <1>10 DEF IInv

(* A line is read: it is the one after those that were sent.               *)
LEMMA ReadLineInv ==
    ASSUME IInv, ReadLine
    PROVE  IInv'
<1>1. /\ reader = "reading" /\ pipe # <<>> /\ line' = Head(pipe) /\ pipe' = Tail(pipe)
      /\ reader' = "sending"
      /\ UNCHANGED <<task, child, written, output, args, receiver, delivered>>
  BY DEF ReadLine, adapter, process
<1>2. /\ pipe \in Seq(1 .. MaxLines) /\ Len(pipe) \in Nat /\ written \in 0 .. MaxLines
      /\ MaxLines \in Nat /\ Number(Sent) \in Nat /\ PipeSize \in Nat
  BY TypeFacts, SizesAssumption
<1>3. /\ pipe' \in Seq(1 .. MaxLines) /\ Len(pipe') = Len(pipe) - 1 /\ Len(pipe) > 0
      /\ DOMAIN pipe' = 1 .. (Len(pipe) - 1)
      /\ \A i \in DOMAIN pipe' : pipe'[i] = pipe[i + 1] /\ i + 1 \in DOMAIN pipe
      /\ line' = pipe[1] /\ 1 \in DOMAIN pipe /\ line' \in 1 .. MaxLines
  BY <1>1, <1>2
<1>4. line' = written - Len(pipe) + 1 /\ Len(pipe) <= written
  BY <1>2, <1>3 DEF IInv, PipeInv
<1>5. TypeOK'
  BY <1>1, <1>2, <1>3 DEF IInv, TypeOK
<1>6. ChildInv'
  BY <1>1 DEF IInv, ChildInv
<1>7. PipeInv'
  <2>1. ASSUME NEW i \in DOMAIN pipe'
        PROVE  pipe'[i] = written' - Len(pipe') + i
    <3>1. pipe'[i] = pipe[i + 1] /\ i \in Nat
      BY <1>3
    <3>2. pipe[i + 1] = written - Len(pipe) + (i + 1)
      BY <1>3 DEF IInv, PipeInv
    <3> QED
      BY <1>1, <1>2, <1>3, <3>1, <3>2
  <2> QED
    BY <1>1, <1>2, <1>3, <1>4, <2>1 DEF PipeInv
<1>8. Sent' = Sent
  BY <1>1 DEF Sent
<1>9. TextInv'
  BY <1>1, <1>2, <1>3, <1>4, <1>8 DEF IInv, TextInv
<1>10. EndInv'
  BY <1>1, <1>8 DEF IInv, EndInv
<1> QED
  BY <1>5, <1>6, <1>7, <1>9, <1>10 DEF IInv

(* Reading fails, and nobody is left to read what is in the pipe.          *)
LEMMA ReadFailsInv ==
    ASSUME IInv, ReadFails
    PROVE  IInv'
<1>1. /\ reader = "reading" /\ reader' = "failed" /\ pipe' = <<>>
      /\ UNCHANGED <<task, child, written, line, output, args, receiver, delivered>>
  BY DEF ReadFails, adapter, process
<1>2. pipe' \in Seq(1 .. MaxLines) /\ Len(pipe') = 0 /\ DOMAIN pipe' = {}
  BY <1>1
<1>3. TypeOK'
  BY <1>1, <1>2, SizesAssumption DEF IInv, TypeOK
<1>4. ChildInv'
  BY <1>1 DEF IInv, ChildInv
<1>5. PipeInv'
  BY <1>1, <1>2, TypeFacts DEF PipeInv
<1>6. Sent' = Sent
  BY <1>1 DEF Sent
<1>7. TextInv'
  BY <1>1, <1>6 DEF IInv, TextInv
<1>8. EndInv'
  BY <1>1, <1>6 DEF IInv, EndInv
<1> QED
  BY <1>3, <1>4, <1>5, <1>7, <1>8 DEF IInv

(* A line, or its newline, is sent, and is the text that comes next.       *)
LEMMA SendTextInv ==
    ASSUME IInv, SendLine \/ SendNewline
    PROVE  IInv'
<1>1. UNCHANGED <<task, child, written, pipe, args, receiver, delivered>>
  BY DEF SendLine, SendNewline, process, adapter
<1>2. /\ Len(pipe) \in Nat /\ written \in Nat /\ line \in 0 .. MaxLines
      /\ MaxLines \in Nat /\ Number(Sent) \in Nat
      /\ Len(pipe) <= written
  BY TypeFacts DEF IInv, PipeInv
<1>3. PICK n \in Nat : n = written - Len(pipe)
  BY <1>2
<1>4. PICK chunk \in Chunks \ {ToolError, WaitNote} :
         /\ Send(chunk)
         /\ \/ /\ reader = "sending" /\ reader' = "newline" /\ line' = 0
               /\ chunk = Line(n) /\ n > 0
            \/ /\ reader = "newline" /\ reader' = "reading" /\ line' = line
               /\ chunk = Newline /\ n > 0
  <2>1. CASE SendLine
    <3>1. reader = "sending" /\ Send(Line(line)) /\ reader' = "newline" /\ line' = 0
      BY <2>1 DEF SendLine
    <3>2. line = n /\ n > 0
      BY <1>3, <3>1 DEF IInv, TextInv
    <3>3. Line(line) \in Chunks \ {ToolError, WaitNote}
      BY <1>2, <3>2, ChunkFacts
    <3> QED
      BY <3>1, <3>2, <3>3
  <2>2. CASE SendNewline
    <3>1. reader = "newline" /\ Send(Newline) /\ reader' = "reading" /\ line' = line
      BY <2>2 DEF SendNewline
    <3>2. n > 0
      BY <1>2, <1>3, <3>1 DEF IInv, TextInv
    <3> QED
      BY <3>1, <3>2, ChunkFacts
  <2> QED
    BY <2>1, <2>2
<1>5. receiver # "dropped" => chunk = Said(Number(Sent) + 1)
  <2> SUFFICES ASSUME receiver # "dropped" PROVE chunk = Said(Number(Sent) + 1)
    OBVIOUS
  <2>1. Said(2 * n - 1) = Line(n) /\ Said(2 * n) = Newline
    BY <1>4, SaidFacts
  <2>2. CASE reader = "sending"
    <3>1. Number(Sent) = 2 * n - 2
      BY <1>3, <2>2 DEF IInv, TextInv
    <3>2. Number(Sent) + 1 = 2 * n - 1
      BY <3>1
    <3> QED
      BY <1>4, <2>1, <2>2, <3>2
  <2>3. CASE reader = "newline"
    <3>1. Number(Sent) = 2 * n - 1
      BY <1>3, <2>3 DEF IInv, TextInv
    <3>2. Number(Sent) + 1 = 2 * n
      BY <3>1
    <3> QED
      BY <1>4, <2>1, <2>3, <3>2
  <2> QED
    BY <1>4, <2>2, <2>3
<1>6. /\ output' \in Seq(Chunks) /\ Len(output') <= Capacity
      /\ SaidInOrder(Sent)'
      /\ receiver = "dropped" => Number(Sent)' = Number(Sent)
      /\ receiver # "dropped" =>
            /\ Number(Sent)' = Number(Sent) + 1
            /\ \A i \in DOMAIN Sent : i \in DOMAIN Sent' /\ Sent'[i] = Sent[i]
  BY <1>1, <1>4, <1>5, SendFacts
<1>7. TypeOK'
  BY <1>1, <1>2, <1>4, <1>6 DEF IInv, TypeOK
<1>8. ChildInv'
  BY <1>1, <1>4 DEF IInv, ChildInv
<1>9. PipeInv'
  BY <1>1 DEF IInv, PipeInv
<1>10. TextInv'
  <2>1. Number(Sent)' <= 2 * written
    BY <1>2, <1>3, <1>4, <1>6 DEF IInv, TextInv
  <2>2. reader' = "newline" => Len(pipe) < written
    BY <1>2, <1>3, <1>4
  <2> QED
    BY <1>1, <1>2, <1>3, <1>4, <1>6, <2>1, <2>2 DEF IInv, TextInv
<1>11. EndInv'
  BY <1>1, <1>4, <1>6 DEF IInv, EndInv
<1> QED
  BY <1>7, <1>8, <1>9, <1>10, <1>11 DEF IInv

(* A chunk is received: what was sent stays the same.                      *)
LEMMA ReceiveInv ==
    ASSUME IInv, Receive
    PROVE  IInv'
<1>1. /\ receiver = "draining" /\ output # <<>>
      /\ delivered' = Append(delivered, Head(output)) /\ output' = Tail(output)
      /\ UNCHANGED <<args, task, child, written, pipe, reader, line, receiver>>
  BY DEF Receive, process, lines
<1>2. delivered \in Seq(Chunks) /\ output \in Seq(Chunks)
  BY TypeFacts
<1>3. delivered' \in Seq(Chunks) /\ output' \in Seq(Chunks) /\ Len(output') <= Len(output)
  BY <1>1, <1>2
<1>4. Sent' = Sent
  <2>1. Append(delivered, Head(output)) \o Tail(output) = delivered \o output
    BY <1>1, <1>2
  <2> QED
    BY <1>1, <2>1 DEF Sent
<1>5. TypeOK'
  <2>1. Len(output') <= Capacity
    BY <1>1, <1>2, <1>3, SizesAssumption DEF IInv, TypeOK
  <2> QED
    BY <1>1, <1>3, <2>1 DEF IInv, TypeOK
<1>6. ChildInv' /\ PipeInv'
  BY <1>1 DEF IInv, ChildInv, PipeInv
<1>7. TextInv'
  BY <1>1, <1>4 DEF IInv, TextInv
<1>8. EndInv'
  BY <1>1, <1>4 DEF IInv, EndInv
<1> QED
  BY <1>5, <1>6, <1>7, <1>8 DEF IInv

(* The reader of the response gives up: the rest of what was sent is lost. *)
LEMMA DroppedInv ==
    ASSUME IInv, Dropped
    PROVE  IInv'
<1>1. /\ receiver' = "dropped" /\ args' = "ended" /\ output' = <<>>
      /\ UNCHANGED <<task, child, written, pipe, reader, line, delivered>>
  BY DEF Dropped, process, lines
<1>2. delivered \in Seq(Chunks) /\ output \in Seq(Chunks) /\ written \in Nat
      /\ Number(Sent) \in Nat /\ Number(delivered) \in Nat
  <2>1. delivered \in Seq(Chunks) /\ output \in Seq(Chunks) /\ written \in Nat
        /\ Number(Sent) \in Nat
    BY TypeFacts
  <2> QED
    BY <2>1, TextFinite
<1>3. Sent' = delivered
  BY <1>1, <1>2 DEF Sent
<1>4. SaidInOrder(delivered) /\ Number(delivered) <= Number(Sent)
  BY <1>2, TextPrefix DEF IInv, TextInv, Sent
<1>5. TypeOK'
  <2>1. output' \in Seq(Chunks) /\ Len(output') = 0
    BY <1>1
  <2> QED
    BY <1>1, <2>1, SizesAssumption DEF IInv, TypeOK
<1>6. ChildInv' /\ PipeInv'
  BY <1>1 DEF IInv, ChildInv, PipeInv
<1>7. TextInv'
  <2>1. Number(delivered) <= 2 * written
    BY <1>2, <1>4 DEF IInv, TextInv
  <2> QED
    BY <1>1, <1>3, <1>4, <2>1 DEF IInv, TextInv
<1>8. EndInv'
  BY <1>1 DEF EndInv
<1> QED
  BY <1>5, <1>6, <1>7, <1>8 DEF IInv

(* Nothing is written or sent at first.                                    *)
LEMMA InitInv == Init => IInv
<1> SUFFICES ASSUME Init PROVE IInv
  OBVIOUS
<1>1. /\ pipe = <<>> /\ output = <<>> /\ delivered = <<>> /\ written = 0
      /\ child = "none" /\ reader = "none" /\ line = 0 /\ task = "reading"
      /\ args = "open" /\ receiver = "idle"
  BY DEF Init
<1>2. /\ <<>> \in Seq(Chunks) /\ <<>> \in Seq(1 .. MaxLines) /\ Len(<<>>) = 0
      /\ DOMAIN <<>> = {} /\ <<>> \o <<>> = <<>>
  OBVIOUS
<1>3. TypeOK
  BY <1>1, <1>2, LinesAssumption, SizesAssumption DEF TypeOK
<1>4. Sent = <<>> /\ SaidInOrder(<<>>) /\ Number(<<>>) = 0
  <2>1. Text(<<>>) = {}
    BY <1>2 DEF Text
  <2> QED
    BY <1>1, <1>2, <2>1, FS_EmptySet DEF Sent, SaidInOrder, Number
<1>5. ChildInv /\ PipeInv /\ TextInv /\ EndInv
  BY <1>1, <1>2, <1>4 DEF ChildInv, PipeInv, TextInv, EndInv
<1> QED
  BY <1>3, <1>5 DEF IInv

(* Every step keeps the invariant.                                         *)
LEMMA StepInv == IInv /\ [Next]_vars => IInv'
<1> SUFFICES ASSUME IInv, [Next]_vars PROVE IInv'
  OBVIOUS
<1>1. CASE Begin \/ Waited \/ WaitFails \/ TimeOut \/ ChildExit
             \/ ArgumentsEnd \/ Drain \/ Closed \/ ReadEnd
  BY <1>1, QuietInv
<1>2. CASE Note \/ Fail
  BY <1>2, ReportInv
<1>3. CASE ChildWrite
  BY <1>3, ChildWriteInv
<1>4. CASE ReadLine
  BY <1>4, ReadLineInv
<1>5. CASE SendLine \/ SendNewline
  BY <1>5, SendTextInv
<1>6. CASE ReadFails
  BY <1>6, ReadFailsInv
<1>7. CASE Receive
  BY <1>7, ReceiveInv
<1>8. CASE Dropped
  BY <1>8, DroppedInv
<1>9. CASE UNCHANGED vars
  <2>1. UNCHANGED <<task, child, written, pipe, reader, line, output, args, receiver, delivered>>
    BY <1>9 DEF vars, process, lines, adapter
  <2> QED
    BY <2>1 DEF IInv, TypeOK, ChildInv, PipeInv, TextInv, EndInv, Sent, Number
<1> QED
  BY <1>1, <1>2, <1>3, <1>4, <1>5, <1>6, <1>7, <1>8, <1>9
  DEF Next, Task, Reader, Generator

-----------------------------------------------------------------------------
(* Where the reader is says how much of the text was sent (terminal.rs:    *)
(* 147-154), a killed child is reported (158-180), and a complete result   *)
(* is not added to.                                                        *)
THEOREM Invariance == Spec => []IInv
BY InitInv, StepInv, PTL DEF Spec

(* The types of the task, the reader and their channels.                   *)
THEOREM TypeCorrect == Spec => []TypeOK
<1>1. IInv => TypeOK
  BY DEF IInv
<1> QED
  BY Invariance, <1>1, PTL

(* terminal.rs:147-154, 158-180: the model gets all the lines that were    *)
(* written, in order and each once, and is told of a child that was        *)
(* killed, for any number of lines and any size of pipe and channel.       *)
THEOREM OutputIsWhole == Spec => []OutputWhole
BY Invariance, WholeFromInv, PTL
=============================================================================
