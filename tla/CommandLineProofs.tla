-------------------------- MODULE CommandLineProofs --------------------------
(***************************************************************************)
(* Proofs about CommandLine for any number of channels, chunks, lines and  *)
(* turns and any lengths to slice at: no event of a stream is for a        *)
(* channel that the driver does not know, a turn is put as it was          *)
(* streamed, and no put leaves a call of the session without its result.   *)
(*                                                                         *)
(* The inductive invariant ties the maps of the driver to what is open in  *)
(* the stream (MapsInv), the entries of this turn to the channels that     *)
(* were completed (RecordInv), and the calls of earlier turns to their     *)
(* results (PairInv).                                                      *)
(***************************************************************************)
EXTENDS CommandLine, SequenceTheorems, FiniteSetTheorems, TLAPS

(* The elements of a sequence and of what is appended.                     *)
LEMMA RangeAppend ==
    ASSUME NEW S, NEW s \in Seq(S), NEW v \in S
    PROVE  Range(Append(s, v)) = Range(s) \cup {v}
<1>1. <<v>> \in Seq(S) /\ Range(<<v>>) = {v}
  BY DEF Range
<1>2. Range(s \o <<v>>) = Range(s) \cup Range(<<v>>)
  BY <1>1, RangeConcatenation
<1>3. Append(s, v) = s \o <<v>>
  BY AppendIsConcat
<1> QED
  BY <1>1, <1>2, <1>3, Zenon

(* A sequence is cut in two: no element is lost.                           *)
LEMMA RangeSplit ==
    ASSUME NEW S, NEW s \in Seq(S), NEW n \in Nat, n <= Len(s)
    PROVE  Range(s) = Range(SubSeq(s, 1, n)) \cup Range(SubSeq(s, n + 1, Len(s)))
<1> DEFINE a == SubSeq(s, 1, n)
           b == SubSeq(s, n + 1, Len(s))
<1>1. Len(s) \in Nat /\ 1 \in 1 .. Len(s) + 1 /\ n \in 1 - 1 .. Len(s) /\ Len(s) \in n .. Len(s)
  OBVIOUS
<1>2. a \o b = SubSeq(s, 1, Len(s))
  BY <1>1, ConcatAdjacentSubSeq
<1>3. a \in Seq(S) /\ b \in Seq(S)
  OBVIOUS
<1>4. SubSeq(s, 1, Len(s)) = s
  BY SubSeqFull
<1> HIDE DEF a, b
<1>5. a \o b = s
  BY <1>2, <1>4, Zenon
<1>6. Range(a \o b) = Range(a) \cup Range(b)
  BY <1>3, RangeConcatenation
<1> QED
  BY <1>5, <1>6 DEF a, b

(* How many elements of a sequence are in a set.                           *)
Count(s, V) == Cardinality({i \in DOMAIN s : s[i] \in V})

(* Appending counts one more if the new element is counted.                *)
LEMMA CountAppend ==
    ASSUME NEW S, NEW s \in Seq(S), NEW v \in S, NEW V
    PROVE  /\ Count(s, V) \in Nat
           /\ Count(Append(s, v), V) = Count(s, V) + (IF v \in V THEN 1 ELSE 0)
<1> DEFINE t == Append(s, v)
           places(u) == {i \in DOMAIN u : u[i] \in V}
<1>1. /\ DOMAIN t = DOMAIN s \cup {Len(s) + 1}
      /\ \A i \in DOMAIN s : t[i] = s[i]
      /\ t[Len(s) + 1] = v
      /\ DOMAIN s = 1 .. Len(s) /\ Len(s) \in Nat
  BY AppendProperties, LenProperties
<1> HIDE DEF t
<1>2. Len(s) + 1 \notin DOMAIN s
  BY <1>1
<1>3. IsFiniteSet(places(s)) /\ Cardinality(places(s)) \in Nat
  <2>1. IsFiniteSet(1 .. Len(s))
    BY <1>1, FS_Interval
  <2>2. IsFiniteSet(places(s))
    BY <1>1, <2>1, FS_Subset
  <2> QED
    BY <2>2, FS_CardinalityType
<1>4. places(t) = IF v \in V THEN places(s) \cup {Len(s) + 1} ELSE places(s)
  BY <1>1
<1>5. Len(s) + 1 \notin places(s)
  BY <1>2
<1> DEFINE a == places(s)
           b == places(t)
<1> HIDE DEF places, a, b
<1>6. Cardinality(b) = Cardinality(a) + (IF v \in V THEN 1 ELSE 0)
  <2>1. CASE v \in V
    <3>1. b = a \cup {Len(s) + 1} /\ Len(s) + 1 \notin a /\ IsFiniteSet(a)
      BY <1>3, <1>4, <1>5, <2>1 DEF a, b
    <3>2. Cardinality(b) = Cardinality(a) + 1
      BY <3>1, FS_AddElement
    <3> QED
      BY <2>1, <3>2
  <2>2. CASE v \notin V
    <3>1. b = a /\ Cardinality(a) \in Nat
      BY <1>3, <1>4, <2>2 DEF a, b
    <3> QED
      BY <2>2, <3>1
  <2> QED
    BY <2>1, <2>2
<1> QED
  BY <1>3, <1>6 DEF Count, places, t, a, b

(* Fewer are in a smaller set.                                             *)
LEMMA CountSubset ==
    ASSUME NEW S, NEW s \in Seq(S), NEW V, NEW W, V \subseteq W
    PROVE  Count(s, V) <= Count(s, W)
<1>1. IsFiniteSet(1 .. Len(s))
  BY FS_Interval
<1>2. IsFiniteSet({i \in DOMAIN s : s[i] \in W})
  BY <1>1, FS_Subset
<1>3. {i \in DOMAIN s : s[i] \in V} \subseteq {i \in DOMAIN s : s[i] \in W}
  OBVIOUS
<1> QED
  BY <1>2, <1>3, FS_Subset DEF Count

(* There is nothing to count in the empty sequence.                        *)
LEMMA CountEmpty == \A V : Count(<<>>, V) = 0
BY FS_EmptySet DEF Count

AllKinds == {"message", "tool", "result"}
LogEvents == AllKinds \X {"start", "chunk", "complete"} \X Channels

Map(kind) ==
    CASE kind = "message" -> channels
      [] kind = "tool" -> tools
      [] kind = "result" -> toolResults

(* Where the process is, and its variables.                                *)
TypesInv ==
    /\ pc \in {"down", "prompt", "ask", "stream"}
    /\ lines \in 0 .. MaxLines
    /\ turns \in 0 .. MaxTurns
    /\ shouldContinue \in BOOLEAN
    /\ stored \in Seq(Entries) /\ branch \in Seq(Entries) /\ cut \subseteq Entries
    /\ \A e \in Values(stored) \cup Values(branch) : e.turn <= turns
    /\ log \in Seq(LogEvents)
    /\ status \in {"streaming", "complete"}
    /\ pc = "stream" => status = "streaming"
    /\ pc # "stream" /\ status = "streaming" => log = <<>>

(* The stream: channels start, are used, and are completed, once; a result *)
(* starts after its call is complete or, of an unknown tool, ends before.  *)
LogInv ==
    /\ \A i, j \in DOMAIN log :
          log[i] = log[j] /\ log[i][2] = "complete" => i = j
    /\ Number(ChunkEvents) <= MaxChunks
    /\ \A c \in Channels :
          /\ \A kind \in AllKinds :
                /\ Stream!Completed(kind, c) => Stream!Started(kind, c)
                /\ ~Stream!Started(kind, c) => Number({<<kind, "chunk", c>>}) = 0
          /\ Stream!Started("result", c) =>
                /\ Stream!Started("tool", c)
                /\ IF c \in Unknown
                     THEN Stream!Completed("tool", c) => Stream!Completed("result", c)
                     ELSE Stream!Completed("tool", c)
    /\ status = "complete" => \A c \in Channels :
          /\ \A kind \in AllKinds : ~Stream!Open(kind, c)
          /\ Stream!Started("tool", c) => Stream!Completed("result", c)

(* The maps hold what is open, and count its chunks.                       *)
MapsInv ==
    \A kind \in AllKinds :
        /\ DOMAIN Map(kind) = {c \in Channels : Stream!Open(kind, c)}
        /\ \A c \in DOMAIN Map(kind) : Map(kind)[c] = Number({<<kind, "chunk", c>>})

(* The entries of this turn are the channels that were completed.          *)
Completes == {i \in DOMAIN log : log[i][2] = "complete"}
RecordOf(i) ==
    Entry(log[i][1], turns, log[i][3], Number({<<log[i][1], "chunk", log[i][3]>>}))
OfTurn(b) == {p \in DOMAIN b : b[p].turn = turns /\ b[p].kind # "user"}
Faithful(b) ==
    /\ \A p \in OfTurn(b) : \E i \in Completes : b[p] = RecordOf(i)
    /\ \A i \in Completes : \E p \in OfTurn(b) : b[p] = RecordOf(i)
    /\ \A i, j \in Completes, p, q \in OfTurn(b) :
          b[p] = RecordOf(i) /\ b[q] = RecordOf(j) => (p < q <=> i < j)
RecordInv ==
    /\ pc = "stream" => Faithful(branch)
    /\ status = "complete" => Faithful(stored)

(* Calls and results of a branch that have their partner in it, or lost it *)
(* to slicing, and those that have it on the right side.                   *)
Matches(e, f) == f.kind = Partner(e) /\ f.turn = e.turn /\ f.channel = e.channel
Coupled(es, b) == \A e \in es : e.kind \in {"tool", "result"} =>
                                    \E f \in Values(b) \cup cut : Matches(e, f)
Ordered(b) ==
    \A i, j \in DOMAIN b :
        /\ b[i].kind = "tool" /\ b[j].kind = "result"
        /\ b[i].turn = b[j].turn /\ b[i].channel = b[j].channel
        => (i < j <=> b[i].channel \notin Unknown)
PairInv ==
    /\ Coupled(Values(stored), stored) /\ Ordered(stored) /\ Ordered(branch)
    /\ pc = "ask" => Coupled(Values(branch), branch)
    /\ pc = "stream" => Coupled({e \in Values(branch) : e.turn < turns}, branch)

IInv == LogInv /\ MapsInv /\ RecordInv /\ PairInv
Inv == TypesInv /\ IInv

-----------------------------------------------------------------------------
(* Facts about the stream and about branches.                              *)

(* The bounds are numbers, and a slice leaves nothing before the branch.   *)
LEMMA Bounds ==
    /\ NChannels \in Nat /\ MaxChunks \in Nat /\ MaxLines \in Nat /\ MaxTurns \in Nat
    /\ SliceAt \in Nat /\ SliceFrom \in Nat /\ SliceFrom <= SliceAt
BY ChannelsAssumption, BoundsAssumption, SliceAssumption

Occurs(kind, step, c) == \E i \in DOMAIN log : log[i] = <<kind, step, c>>

(* What an event adds to the stream.                                       *)
LEMMA LogFacts ==
    ASSUME log \in Seq(LogEvents), NEW kind \in AllKinds, NEW c \in Channels,
           NEW step \in {"start", "chunk", "complete"},
           log' = Append(log, <<kind, step, c>>)
    PROVE  LET e == <<kind, step, c>>  n == Len(log) + 1 IN
           /\ log' \in Seq(LogEvents)
           /\ DOMAIN log' = DOMAIN log \cup {n} /\ n \notin DOMAIN log
           /\ n \in Nat /\ \A i \in DOMAIN log : i \in Nat /\ i < n
           /\ log'[n] = e /\ \A i \in DOMAIN log : log'[i] = log[i]
           /\ \A k, d : Stream!Started(k, d)'
                 <=> Stream!Started(k, d) \/ (step = "start" /\ k = kind /\ d = c)
           /\ \A k, d : Stream!Completed(k, d)'
                 <=> Stream!Completed(k, d) \/ (step = "complete" /\ k = kind /\ d = c)
           /\ \A V : /\ Number(V) \in Nat
                     /\ Number(V)' = Number(V) + (IF e \in V THEN 1 ELSE 0)
<1> DEFINE e == <<kind, step, c>>
           n == Len(log) + 1
<1>1. e \in LogEvents
  BY DEF LogEvents
<1> HIDE DEF e
<1>4. /\ log' \in Seq(LogEvents)
      /\ DOMAIN log' = DOMAIN log \cup {n}
      /\ log'[n] = e /\ \A i \in DOMAIN log : log'[i] = log[i]
  BY <1>1, AppendProperties, LenProperties DEF e
<1>5. /\ n \in Nat /\ n \notin DOMAIN log
      /\ \A i \in DOMAIN log : i \in Nat /\ i < n
  OBVIOUS
<1>6. ASSUME NEW k, NEW s, NEW d
      PROVE  Occurs(k, s, d)' <=> Occurs(k, s, d) \/ (s = step /\ k = kind /\ d = c)
  <2>1. <<k, s, d>> = e <=> s = step /\ k = kind /\ d = c
    BY DEF e
  <2> DEFINE x == <<k, s, d>>
  <2> HIDE DEF x
  <2>2. (\E i \in DOMAIN log' : log'[i] = x)
            <=> (\E i \in DOMAIN log : log[i] = x) \/ x = e
    BY <1>4
  <2> QED
    BY <2>1, <2>2 DEF Occurs, x
<1>7. ASSUME NEW k, NEW d
      PROVE  /\ Stream!Started(k, d) <=> Occurs(k, "start", d)
             /\ Stream!Started(k, d)' <=> Occurs(k, "start", d)'
             /\ Stream!Completed(k, d) <=> Occurs(k, "complete", d)
             /\ Stream!Completed(k, d)' <=> Occurs(k, "complete", d)'
  BY DEF Stream!Started, Stream!Completed, Stream!Event, Occurs
<1>8. ASSUME NEW k, NEW d
      PROVE  /\ Stream!Started(k, d)'
                  <=> Stream!Started(k, d) \/ (step = "start" /\ k = kind /\ d = c)
             /\ Stream!Completed(k, d)'
                  <=> Stream!Completed(k, d)
                         \/ (step = "complete" /\ k = kind /\ d = c)
  BY <1>6, <1>7, Zenon
<1>9. \A V : /\ Number(V) \in Nat
             /\ Number(V)' = Number(V) + (IF e \in V THEN 1 ELSE 0)
  <2>1. \A V : Number(V) = Count(log, V) /\ Number(V)' = Count(Append(log, e), V)
    BY DEF Number, Count, e
  <2> QED
    BY <1>1, <2>1, CountAppend
<1> QED
  BY <1>4, <1>5, <1>8, <1>9 DEF e

(* The chunks of a channel are some of all chunks.                         *)
LEMMA NumberFacts ==
    ASSUME log \in Seq(LogEvents)
    PROVE  /\ \A V : Number(V) \in Nat
           /\ \A kind \in AllKinds, c \in Channels :
                 Number({<<kind, "chunk", c>>}) <= Number(ChunkEvents)
<1>1. \A V : Number(V) = Count(log, V)
  BY DEF Number, Count
<1>2. \A kind \in AllKinds, c \in Channels :
          {<<kind, "chunk", c>>} \subseteq ChunkEvents
  BY DEF AllKinds, ChunkEvents
<1>3. \A V : Count(log, V) \in Nat
  <2>1. \A V : IsFiniteSet({i \in DOMAIN log : log[i] \in V})
    <3>1. IsFiniteSet(1 .. Len(log))
      BY FS_Interval
    <3> QED
      BY <3>1, FS_Subset
  <2> QED
    BY <2>1, FS_CardinalityType DEF Count
<1> QED
  BY <1>1, <1>2, <1>3, CountSubset

(* What is in a branch to which an entry is pushed, or which is sliced.    *)
LEMMA PushValues ==
    ASSUME NEW b \in Seq(Entries), NEW e \in Entries
    PROVE  Values(Append(b, e)) = Values(b) \cup {e}
BY RangeAppend DEF Range, Values

(* Slicing adds no entry.                                                  *)
LEMMA SliceValues ==
    ASSUME NEW b \in Seq(Entries), NEW n \in Nat, n <= Len(b)
    PROVE  Values(SubSeq(b, n + 1, Len(b))) \subseteq Values(b)
BY RangeSplit DEF Range, Values

(* An entry pushed on the side of its partner where it belongs.            *)
LEMMA PushOrdered ==
    ASSUME NEW b \in Seq(Entries), NEW e \in Entries, Ordered(b),
           \A f \in Values(b) : f.turn = e.turn /\ f.channel = e.channel =>
              /\ e.kind = "result" /\ f.kind = "tool" => e.channel \notin Unknown
              /\ e.kind = "tool" /\ f.kind = "result" => e.channel \in Unknown
    PROVE  Ordered(Append(b, e))
<1> DEFINE t == Append(b, e)
           n == Len(b) + 1
<1>1. /\ DOMAIN t = DOMAIN b \cup {n}
      /\ \A i \in DOMAIN b : t[i] = b[i] /\ i < n /\ ~(n < i) /\ b[i] \in Values(b)
      /\ t[n] = e /\ ~(n < n)
  BY AppendProperties, LenProperties DEF Values
<1> HIDE DEF t, n
<1> SUFFICES ASSUME NEW i \in DOMAIN t, NEW j \in DOMAIN t,
                    t[i].kind = "tool", t[j].kind = "result",
                    t[i].turn = t[j].turn, t[i].channel = t[j].channel
             PROVE  i < j <=> t[i].channel \notin Unknown
  BY DEF Ordered, t
<1>2. CASE i \in DOMAIN b /\ j \in DOMAIN b
  BY <1>1, <1>2 DEF Ordered
<1>3. CASE i \in DOMAIN b /\ j = n
  BY <1>1, <1>3
<1>4. CASE i = n /\ j \in DOMAIN b
  BY <1>1, <1>4
<1>5. CASE i = n /\ j = n
  BY <1>1, <1>5
<1> QED
  BY <1>1, <1>2, <1>3, <1>4, <1>5

(* Slicing keeps the order of what is left.                                *)
LEMMA SliceOrdered ==
    ASSUME NEW b \in Seq(Entries), NEW n \in Nat, n <= Len(b), Ordered(b)
    PROVE  Ordered(SubSeq(b, n + 1, Len(b)))
<1> DEFINE t == SubSeq(b, n + 1, Len(b))
<1>1. /\ DOMAIN t = 1 .. (Len(b) - n)
      /\ \A i \in 1 .. (Len(b) - n) : n + i \in DOMAIN b /\ t[i] = b[n + i]
  BY SubSeqProperties, LenProperties
<1> SUFFICES ASSUME NEW i \in DOMAIN t, NEW j \in DOMAIN t,
                    t[i].kind = "tool", t[j].kind = "result",
                    t[i].turn = t[j].turn, t[i].channel = t[j].channel
             PROVE  i < j <=> t[i].channel \notin Unknown
  BY DEF Ordered
<1> HIDE DEF t
<1>2. i \in Nat /\ j \in Nat
  BY <1>1
<1>3. i < j <=> n + i < n + j
  BY <1>2
<1>4. /\ n + i \in DOMAIN b /\ t[i] = b[n + i]
      /\ n + j \in DOMAIN b /\ t[j] = b[n + j]
  BY <1>1
<1> QED
  BY <1>3, <1>4 DEF Ordered

-----------------------------------------------------------------------------
(* Events of the stream.  The three handlers of each kind of channel do    *)
(* the same, so what they keep is proved once for an event of any kind.    *)

Handles(kind, step, c) ==
    /\ pc = "stream" /\ UNCHANGED <<pc, lines, turns, stored, cut>>
    /\ shouldContinue' \in BOOLEAN
    /\ status' = "streaming" /\ log' = Append(log, <<kind, step, c>>)
    /\ \A k \in AllKinds \ {kind} : Map(k)' = Map(k)

(* A channel starts.                                                       *)
StartStep(kind, c) ==
    /\ Handles(kind, "start", c)
    /\ ~Stream!Started(kind, c)
    /\ kind = "result" => IF c \in Unknown THEN Stream!Open("tool", c)
                                           ELSE Stream!Completed("tool", c)
    /\ Map(kind)' = Insert(Map(kind), c)
    /\ UNCHANGED branch

(* It gets a chunk.                                                        *)
ChunkStep(kind, c) ==
    /\ Handles(kind, "chunk", c)
    /\ Stream!Open(kind, c)
    /\ Number(ChunkEvents) < MaxChunks
    /\ Map(kind)' = [Map(kind) EXCEPT ![c] = @ + 1]
    /\ UNCHANGED branch

(* It is completed, and what it said is pushed.                            *)
CompleteStep(kind, c) ==
    /\ Handles(kind, "complete", c)
    /\ Stream!Open(kind, c)
    /\ kind = "tool" => ~Stream!Open("result", c)
    /\ Map(kind)' = Remove(Map(kind), c)
    /\ branch' = Append(branch, Entry(kind, turns, c, Map(kind)[c]))

(* Every handler does one of these; in particular none meets a channel     *)
(* that it does not know.                                                  *)
LEMMA ReceiveSteps ==
    ASSUME Inv, NEW c \in Channels, Receive(c)
    PROVE  \E kind \in AllKinds :
               StartStep(kind, c) \/ ChunkStep(kind, c) \/ CompleteStep(kind, c)
<1>1. \A kind \in AllKinds : Stream!Open(kind, c) => c \in DOMAIN Map(kind)
  BY DEF Inv, IInv, MapsInv
<1>2. /\ pc = "stream" /\ UNCHANGED <<turns, lines, stored, cut>>
      /\ shouldContinue \in BOOLEAN
  BY DEF Receive, session, Inv, TypesInv
<1>3. /\ Map("message") = channels /\ Map("message")' = channels'
      /\ Map("tool") = tools /\ Map("tool")' = tools'
      /\ Map("result") = toolResults /\ Map("result")' = toolResults'
  BY DEF Map
<1>4. CASE MessageStart(c)
  <2>1. StartStep("message", c)
    BY <1>2, <1>3, <1>4
       DEF MessageStart, StartStep, Handles, AllKinds, Stream!PassStart,
           Stream!Start, Stream!Add, Stream!Event, Stream!Kinds
  <2> QED
    BY <2>1 DEF AllKinds
<1>5. CASE ToolStart(c)
  <2>1. StartStep("tool", c)
    BY <1>2, <1>3, <1>5
       DEF ToolStart, StartStep, Handles, AllKinds, Stream!PassStart,
           Stream!Start, Stream!Add, Stream!Event, Stream!Kinds
  <2> QED
    BY <2>1 DEF AllKinds
<1>6. CASE ResultStart(c)
  <2>1. StartStep("result", c)
    BY <1>2, <1>3, <1>6
       DEF ResultStart, StartStep, Handles, AllKinds, Stream!ResultStart,
           Stream!Add, Stream!Event
  <2> QED
    BY <2>1 DEF AllKinds
<1>7. CASE MoreChunks /\ MessageChunk(c)
  <2>1. Stream!Open("message", c) /\ c \in DOMAIN channels
    BY <1>1, <1>3, <1>7
       DEF MessageChunk, Stream!PassChunk, Stream!Chunk, AllKinds
  <2>2. ChunkStep("message", c)
    BY <1>2, <1>3, <1>7, <2>1
       DEF MessageChunk, MoreChunks, ChunkStep, Handles, AllKinds,
           Stream!PassChunk, Stream!Chunk, Stream!Add, Stream!Event
  <2> QED
    BY <2>2 DEF AllKinds
<1>8. CASE MoreChunks /\ ToolChunk(c)
  <2>1. Stream!Open("tool", c) /\ c \in DOMAIN tools
    BY <1>1, <1>3, <1>8 DEF ToolChunk, Stream!PassChunk, Stream!Chunk, AllKinds
  <2>2. ChunkStep("tool", c)
    BY <1>2, <1>3, <1>8, <2>1
       DEF ToolChunk, MoreChunks, ChunkStep, Handles, AllKinds,
           Stream!PassChunk, Stream!Chunk, Stream!Add, Stream!Event
  <2> QED
    BY <2>2 DEF AllKinds
<1>9. CASE MoreChunks /\ ResultChunk(c)
  <2>1. Stream!Open("result", c) /\ c \in DOMAIN toolResults
    BY <1>1, <1>3, <1>9
       DEF ResultChunk, Stream!ResultChunk, Stream!Chunk, AllKinds
  <2>2. ChunkStep("result", c)
    BY <1>2, <1>3, <1>9, <2>1
       DEF ResultChunk, MoreChunks, ChunkStep, Handles, AllKinds,
           Stream!ResultChunk, Stream!Chunk, Stream!Add, Stream!Event
  <2> QED
    BY <2>2 DEF AllKinds
<1>10. CASE MessageComplete(c)
  <2>1. Stream!Open("message", c) /\ c \in DOMAIN channels
    BY <1>1, <1>3, <1>10
       DEF MessageComplete, Stream!PassComplete, Stream!Complete, AllKinds
  <2>2. CompleteStep("message", c)
    BY <1>2, <1>3, <1>10, <2>1
       DEF MessageComplete, CompleteStep, Handles, AllKinds, Push,
           Stream!PassComplete, Stream!Complete, Stream!Add, Stream!Event
  <2> QED
    BY <2>2 DEF AllKinds
<1>11. CASE ToolComplete(c)
  <2>1. Stream!Open("tool", c) /\ c \in DOMAIN tools /\ ~Stream!Open("result", c)
    BY <1>1, <1>3, <1>11
       DEF ToolComplete, Stream!PassComplete, Stream!Complete, Stream!ResultOpen,
           AllKinds
  <2>2. CompleteStep("tool", c)
    BY <1>2, <1>3, <1>11, <2>1
       DEF ToolComplete, CompleteStep, Handles, AllKinds, Push,
           Stream!PassComplete, Stream!Complete, Stream!Add, Stream!Event
  <2> QED
    BY <2>2 DEF AllKinds
<1>12. CASE ResultComplete(c)
  <2>1. Stream!Open("result", c) /\ c \in DOMAIN toolResults
    BY <1>1, <1>3, <1>12
       DEF ResultComplete, Stream!ResultComplete, Stream!Complete, AllKinds
  <2>2. CompleteStep("result", c)
    BY <1>2, <1>3, <1>12, <2>1
       DEF ResultComplete, CompleteStep, Handles, AllKinds, Push,
           Stream!ResultComplete, Stream!Complete, Stream!Add, Stream!Event
  <2> QED
    BY <2>2 DEF AllKinds
<1> QED
  BY <1>4, <1>5, <1>6, <1>7, <1>8, <1>9, <1>10, <1>11, <1>12 DEF Receive

(* What all of them keep.                                                  *)
LEMMA HandlesFacts ==
    ASSUME Inv, NEW kind \in AllKinds, NEW c \in Channels,
           NEW step \in {"start", "chunk", "complete"}, Handles(kind, step, c)
    PROVE  /\ log \in Seq(LogEvents) /\ log' = Append(log, <<kind, step, c>>)
           /\ status = "streaming" /\ status' = "streaming"
           /\ pc = "stream" /\ pc' = "stream"
           /\ UNCHANGED <<lines, turns, stored, cut>>
           /\ \A k \in AllKinds \ {kind} : Map(k)' = Map(k)
           /\ branch' \in Seq(Entries)
                /\ (\A e \in Values(branch') : e.turn <= turns)
              => TypesInv'
<1>1. /\ log \in Seq(LogEvents) /\ log' = Append(log, <<kind, step, c>>)
      /\ status = "streaming" /\ status' = "streaming"
      /\ pc = "stream" /\ pc' = "stream"
      /\ UNCHANGED <<lines, turns, stored, cut>>
      /\ \A k \in AllKinds \ {kind} : Map(k)' = Map(k)
      /\ shouldContinue' \in BOOLEAN
  BY DEF Handles, Inv, TypesInv
<1>2. log' \in Seq(LogEvents)
  BY <1>1, LogFacts
<1>3. ASSUME branch' \in Seq(Entries), \A e \in Values(branch') : e.turn <= turns
      PROVE  TypesInv'
  BY <1>1, <1>2, <1>3 DEF Inv, TypesInv, Values
<1> QED
  BY <1>1, <1>3

(* What was recorded stays as it is, unless the event ends a channel or is *)
(* a chunk of one that has ended.                                          *)
LEMMA RecordKept ==
    ASSUME Inv, NEW kind \in AllKinds, NEW c \in Channels,
           NEW step \in {"start", "chunk", "complete"}, Handles(kind, step, c),
           step = "chunk" => ~Stream!Completed(kind, c)
    PROVE  /\ \A i \in Completes : RecordOf(i)' = RecordOf(i)
           /\ Completes' = Completes \cup
                 (IF step = "complete" THEN {Len(log) + 1} ELSE {})
           /\ Len(log) + 1 \notin Completes
<1>1. /\ log \in Seq(LogEvents) /\ log' = Append(log, <<kind, step, c>>)
      /\ UNCHANGED turns
  BY HandlesFacts
<1> DEFINE e == <<kind, step, c>>
           n == Len(log) + 1
<1>2. /\ DOMAIN log' = DOMAIN log \cup {n} /\ n \notin DOMAIN log
      /\ log'[n] = e /\ \A i \in DOMAIN log : log'[i] = log[i]
      /\ \A V : /\ Number(V) \in Nat
                /\ Number(V)' = Number(V) + (IF e \in V THEN 1 ELSE 0)
  BY <1>1, LogFacts, ZenonT(60)
<1>3. ASSUME NEW i \in Completes
      PROVE  RecordOf(i)' = RecordOf(i)
  <2> DEFINE V == {<<log[i][1], "chunk", log[i][3]>>}
  <2>1. i \in DOMAIN log /\ log[i] \in LogEvents /\ log[i][2] = "complete"
    BY <1>1 DEF Completes
  <2>2. log[i] = <<log[i][1], "complete", log[i][3]>>
    BY <2>1 DEF LogEvents
  <2>3. Stream!Completed(log[i][1], log[i][3])
    BY <2>1, <2>2 DEF Stream!Completed, Stream!Event
  <2>4. e \notin V
    BY <2>3
  <2>5. Number(V)' = Number(V)
    <3> HIDE DEF V, e
    <3>1. Number(V)' = Number(V) + 0 /\ Number(V) \in Nat
      BY <1>2, <2>1, <2>4 DEF V
    <3> QED
      BY <3>1
  <2>6. log'[i] = log[i]
    BY <1>2, <2>1
  <2> QED
    BY <1>1, <2>5, <2>6 DEF RecordOf
<1>4. e[2] = step
  OBVIOUS
<1> HIDE DEF e, n
<1>5. Completes' = Completes \cup (IF step = "complete" THEN {n} ELSE {})
  BY <1>2, <1>4 DEF Completes
<1>6. n \notin Completes
  BY <1>2 DEF Completes
<1> QED
  BY <1>3, <1>5, <1>6 DEF n

(* A step that pushes nothing keeps what was recorded and its partners.    *)
LEMMA RecordAndPairsKept ==
    ASSUME Inv, NEW kind \in AllKinds, NEW c \in Channels,
           NEW step \in {"start", "chunk"}, Handles(kind, step, c),
           step = "chunk" => ~Stream!Completed(kind, c), UNCHANGED branch
    PROVE  TypesInv' /\ RecordInv' /\ PairInv'
<1>1. /\ status = "streaming" /\ status' = "streaming"
      /\ pc = "stream" /\ pc' = "stream"
      /\ UNCHANGED <<lines, turns, stored, cut, branch>>
  BY HandlesFacts
<1>2. TypesInv'
  <2>1. branch \in Seq(Entries) /\ \A e \in Values(branch) : e.turn <= turns
    BY DEF Inv, TypesInv
  <2> QED
    BY <1>1, <2>1, HandlesFacts
<1>3. Completes' = Completes /\ \A i \in Completes : RecordOf(i)' = RecordOf(i)
  BY RecordKept
<1>4. Faithful(branch)
  BY <1>1 DEF Inv, IInv, RecordInv
<1>5. OfTurn(branch)' = OfTurn(branch)
  BY <1>1 DEF OfTurn
<1>6. Faithful(branch)'
  BY <1>1, <1>3, <1>4, <1>5 DEF Faithful
<1>7. RecordInv'
  BY <1>1, <1>6 DEF RecordInv
<1>8. PairInv'
  BY <1>1 DEF Inv, IInv, PairInv, Coupled, Ordered, Values
<1> QED
  BY <1>2, <1>7, <1>8

(* A start opens a channel that was not, and its count is zero.            *)
LEMMA StartStepInv ==
    ASSUME Inv, NEW kind \in AllKinds, NEW c \in Channels, StartStep(kind, c)
    PROVE  Inv'
<1> DEFINE e == <<kind, "start", c>>
<1>1. /\ Handles(kind, "start", c) /\ ~Stream!Started(kind, c)
      /\ kind = "result" => IF c \in Unknown THEN Stream!Open("tool", c)
                                             ELSE Stream!Completed("tool", c)
      /\ Map(kind)' = Insert(Map(kind), c)
      /\ UNCHANGED branch
  BY DEF StartStep
<1>2. /\ log \in Seq(LogEvents) /\ log' = Append(log, e)
      /\ status = "streaming" /\ status' = "streaming"
      /\ \A k \in AllKinds \ {kind} : Map(k)' = Map(k)
  BY <1>1, HandlesFacts
<1>3. /\ \A k, d : Stream!Started(k, d)'
            <=> Stream!Started(k, d) \/ (k = kind /\ d = c)
      /\ \A k, d : Stream!Completed(k, d)' <=> Stream!Completed(k, d)
      /\ DOMAIN log' = DOMAIN log \cup {Len(log) + 1}
      /\ log'[Len(log) + 1] = e /\ \A i \in DOMAIN log : log'[i] = log[i]
      /\ \A V : Number(V)' = Number(V) + (IF e \in V THEN 1 ELSE 0)
  <2>1. \A k, d : Stream!Started(k, d)'
            <=> Stream!Started(k, d) \/ (k = kind /\ d = c)
    <3>1. \A k, d : Stream!Started(k, d)'
            <=> Stream!Started(k, d) \/ ("start" = "start" /\ k = kind /\ d = c)
      BY <1>2, LogFacts, Zenon
    <3> QED
      BY <3>1
  <2>2. \A k, d : Stream!Completed(k, d)' <=> Stream!Completed(k, d)
    BY <1>2, LogFacts
  <2>3. /\ DOMAIN log' = DOMAIN log \cup {Len(log) + 1}
        /\ log'[Len(log) + 1] = e /\ \A i \in DOMAIN log : log'[i] = log[i]
    BY <1>2, LogFacts
  <2>4. \A V : Number(V)' = Number(V) + (IF e \in V THEN 1 ELSE 0)
    BY <1>2, LogFacts
  <2> QED
    BY <2>1, <2>2, <2>3, <2>4
<1>4. /\ \A k \in AllKinds, d \in Channels : /\ e \notin {<<k, "chunk", d>>}
      /\ e \notin ChunkEvents /\ e[2] # "complete"
  BY DEF ChunkEvents
<1>5. /\ Number(ChunkEvents)' = Number(ChunkEvents)
      /\ \A k \in AllKinds, d \in Channels :
            Number({<<k, "chunk", d>>})' = Number({<<k, "chunk", d>>})
  <2>1. \A V : e \notin V => Number(V)' = Number(V)
    <3>1. \A V : Number(V) \in Nat
      BY <1>2, NumberFacts
    <3> QED
      BY <1>3, <3>1
  <2> QED
    BY <1>4, <2>1
<1> HIDE DEF e
<1>6. TypesInv' /\ RecordInv' /\ PairInv'
  BY <1>1, RecordAndPairsKept
<1>7. \A d \in Channels :
         Stream!Completed(kind, d) => Stream!Started(kind, d)
  BY DEF Inv, IInv, LogInv
<1>8. LogInv'
  <2>1. \A i, j \in DOMAIN log' : log'[i] = log'[j] /\ log'[i][2] = "complete" => i = j
    BY <1>3, <1>4 DEF Inv, IInv, LogInv
  <2>2. Number(ChunkEvents)' <= MaxChunks
    BY <1>5 DEF Inv, IInv, LogInv
  <2>3. ASSUME NEW d \in Channels
        PROVE  /\ \A k \in AllKinds :
                     /\ Stream!Completed(k, d)' => Stream!Started(k, d)'
                     /\ ~Stream!Started(k, d)' => Number({<<k, "chunk", d>>})' = 0
               /\ Stream!Started("result", d)' =>
                     /\ Stream!Started("tool", d)'
                     /\ IF d \in Unknown
                          THEN Stream!Completed("tool", d)' => Stream!Completed("result", d)'
                          ELSE Stream!Completed("tool", d)'
    <3>1. \A k \in AllKinds :
             /\ Stream!Completed(k, d)' => Stream!Started(k, d)'
             /\ ~Stream!Started(k, d)' => Number({<<k, "chunk", d>>})' = 0
      BY <1>3, <1>5 DEF Inv, IInv, LogInv
    <3>2. CASE Stream!Started("result", d)
      BY <1>3, <3>1, <3>2 DEF Inv, IInv, LogInv
    <3>3. CASE kind = "result" /\ d = c
      <4>1. Stream!Started("tool", d)
        BY <1>1, <3>3 DEF Stream!Open, Inv, IInv, LogInv, AllKinds
      <4>2. IF d \in Unknown THEN ~Stream!Completed("tool", d)
                             ELSE Stream!Completed("tool", d)
        BY <1>1, <3>3 DEF Stream!Open
      <4> QED
        BY <1>3, <3>1, <4>1, <4>2
    <3> QED
      BY <1>3, <3>1, <3>2, <3>3
  <2> QED
    BY <1>2, <2>1, <2>2, <2>3 DEF LogInv
<1>9. MapsInv'
  <2> SUFFICES ASSUME NEW k \in AllKinds
               PROVE  /\ DOMAIN Map(k)' = {d \in Channels : Stream!Open(k, d)'}
                      /\ \A d \in DOMAIN Map(k)' :
                            Map(k)'[d] = Number({<<k, "chunk", d>>})'
    BY DEF MapsInv
  <2>1. /\ DOMAIN Map(k) = {d \in Channels : Stream!Open(k, d)}
        /\ \A d \in DOMAIN Map(k) : Map(k)[d] = Number({<<k, "chunk", d>>})
    BY DEF Inv, IInv, MapsInv
  <2>2. CASE k # kind
    <3>1. Map(k)' = Map(k) /\ \A d \in Channels : Stream!Open(k, d)' <=> Stream!Open(k, d)
      BY <1>2, <1>3, <2>2 DEF Stream!Open
    <3> QED
      BY <1>5, <2>1, <3>1
  <2>3. CASE k = kind
    <3>1. \A d \in Channels : Stream!Open(k, d)' <=> Stream!Open(k, d) \/ d = c
      BY <1>1, <1>3, <1>7, <2>3 DEF Stream!Open
    <3>2. DOMAIN Map(k)' = DOMAIN Map(k) \cup {c}
      BY <1>1, <2>3 DEF Insert
    <3>3. \A d \in DOMAIN Map(k)' : Map(k)'[d] = IF d = c THEN 0 ELSE Map(k)[d]
      BY <1>1, <2>3, <3>2 DEF Insert
    <3>4. Number({<<k, "chunk", c>>}) = 0
      BY <1>1, <2>3 DEF Inv, IInv, LogInv
    <3> QED
      BY <1>5, <2>1, <3>1, <3>2, <3>3, <3>4
  <2> QED
    BY <2>2, <2>3
<1> QED
  BY <1>6, <1>8, <1>9 DEF Inv, IInv

(* A chunk is counted in the map of the channel as it is in the stream.    *)
LEMMA ChunkStepInv ==
    ASSUME Inv, NEW kind \in AllKinds, NEW c \in Channels, ChunkStep(kind, c)
    PROVE  Inv'
<1> DEFINE e == <<kind, "chunk", c>>
<1>1. /\ Handles(kind, "chunk", c) /\ Stream!Open(kind, c)
      /\ Number(ChunkEvents) < MaxChunks
      /\ Map(kind)' = [Map(kind) EXCEPT ![c] = @ + 1]
      /\ UNCHANGED branch
  BY DEF ChunkStep
<1>2. /\ log \in Seq(LogEvents) /\ log' = Append(log, e)
      /\ status = "streaming" /\ status' = "streaming"
      /\ \A k \in AllKinds \ {kind} : Map(k)' = Map(k)
  BY <1>1, HandlesFacts
<1>3. /\ \A k, d : Stream!Started(k, d)' <=> Stream!Started(k, d)
      /\ \A k, d : Stream!Completed(k, d)' <=> Stream!Completed(k, d)
      /\ DOMAIN log' = DOMAIN log \cup {Len(log) + 1}
      /\ log'[Len(log) + 1] = e /\ \A i \in DOMAIN log : log'[i] = log[i]
      /\ \A V : Number(V)' = Number(V) + (IF e \in V THEN 1 ELSE 0)
  <2>1. \A k, d : Stream!Started(k, d)' <=> Stream!Started(k, d)
    BY <1>2, LogFacts
  <2>2. \A k, d : Stream!Completed(k, d)' <=> Stream!Completed(k, d)
    BY <1>2, LogFacts
  <2>3. /\ DOMAIN log' = DOMAIN log \cup {Len(log) + 1}
        /\ log'[Len(log) + 1] = e /\ \A i \in DOMAIN log : log'[i] = log[i]
    BY <1>2, LogFacts
  <2>4. \A V : Number(V)' = Number(V) + (IF e \in V THEN 1 ELSE 0)
    BY <1>2, LogFacts
  <2> QED
    BY <2>1, <2>2, <2>3, <2>4
<1>4. /\ e \in ChunkEvents /\ e[2] # "complete"
      /\ \A k, d : e \in {<<k, "chunk", d>>} <=> k = kind /\ d = c
  BY DEF ChunkEvents, AllKinds
<1>5. \A V : Number(V) \in Nat
  BY <1>2, NumberFacts
<1> HIDE DEF e
<1>6. ASSUME NEW k, NEW d
      PROVE  Number({<<k, "chunk", d>>})'
                = Number({<<k, "chunk", d>>}) + (IF k = kind /\ d = c THEN 1 ELSE 0)
  <2>1. Number({<<k, "chunk", d>>})'
            = Number({<<k, "chunk", d>>}) + (IF e \in {<<k, "chunk", d>>} THEN 1 ELSE 0)
    BY <1>3
  <2> QED
    BY <1>4, <2>1
<1>6a. ASSUME NEW k, NEW d, ~(k = kind /\ d = c)
       PROVE  Number({<<k, "chunk", d>>})' = Number({<<k, "chunk", d>>})
  <2> DEFINE m == Number({<<k, "chunk", d>>})
  <2>1. m' = m + (IF k = kind /\ d = c THEN 1 ELSE 0) /\ m \in Nat
    BY <1>5, <1>6
  <2> HIDE DEF m
  <2>2. m' = m
    BY <1>6a, <2>1
  <2> QED
    BY <2>2 DEF m
<1>7. Number(ChunkEvents)' <= MaxChunks
  <2>1. Number(ChunkEvents)' = Number(ChunkEvents) + 1
    <3>1. ChunkEvents' = ChunkEvents
      BY DEF ChunkEvents
    <3>2. Number(ChunkEvents)' = Number(ChunkEvents) + (IF e \in ChunkEvents THEN 1 ELSE 0)
      BY <1>3
    <3> QED
      BY <1>4, <3>2
  <2> QED
    BY <1>1, <1>5, <2>1, Bounds
<1>8. Stream!Started(kind, c) /\ ~Stream!Completed(kind, c)
  BY <1>1 DEF Stream!Open
<1>9. TypesInv' /\ RecordInv' /\ PairInv'
  BY <1>1, <1>8, RecordAndPairsKept
<1>10. LogInv'
  <2>1. \A i, j \in DOMAIN log' : log'[i] = log'[j] /\ log'[i][2] = "complete" => i = j
    BY <1>3, <1>4 DEF Inv, IInv, LogInv
  <2>2. ASSUME NEW d \in Channels
        PROVE  /\ \A k \in AllKinds :
                     /\ Stream!Completed(k, d)' => Stream!Started(k, d)'
                     /\ ~Stream!Started(k, d)' => Number({<<k, "chunk", d>>})' = 0
               /\ Stream!Started("result", d)' =>
                     /\ Stream!Started("tool", d)'
                     /\ IF d \in Unknown
                          THEN Stream!Completed("tool", d)' => Stream!Completed("result", d)'
                          ELSE Stream!Completed("tool", d)'
    <3>1. ASSUME NEW k \in AllKinds, ~Stream!Started(k, d)'
          PROVE  Number({<<k, "chunk", d>>})' = 0
      <4>1. ~Stream!Started(k, d) /\ ~(k = kind /\ d = c)
        BY <1>3, <1>8, <3>1
      <4>2. Number({<<k, "chunk", d>>}) = 0
        BY <4>1 DEF Inv, IInv, LogInv
      <4> QED
        BY <1>6, <4>1, <4>2
    <3>2. \A k \in AllKinds : Stream!Completed(k, d)' => Stream!Started(k, d)'
      BY <1>3 DEF Inv, IInv, LogInv
    <3>3. Stream!Started("result", d)' =>
              /\ Stream!Started("tool", d)'
              /\ IF d \in Unknown
                   THEN Stream!Completed("tool", d)' => Stream!Completed("result", d)'
                   ELSE Stream!Completed("tool", d)'
      BY <1>3 DEF Inv, IInv, LogInv
    <3> QED
      BY <3>1, <3>2, <3>3
  <2> QED
    BY <1>2, <1>7, <2>1, <2>2 DEF LogInv
<1>11. MapsInv'
  <2> SUFFICES ASSUME NEW k \in AllKinds
               PROVE  /\ DOMAIN Map(k)' = {d \in Channels : Stream!Open(k, d)'}
                      /\ \A d \in DOMAIN Map(k)' :
                            Map(k)'[d] = Number({<<k, "chunk", d>>})'
    BY DEF MapsInv
  <2>1. /\ DOMAIN Map(k) = {d \in Channels : Stream!Open(k, d)}
        /\ \A d \in DOMAIN Map(k) : Map(k)[d] = Number({<<k, "chunk", d>>})
    BY DEF Inv, IInv, MapsInv
  <2>2. \A d \in Channels : Stream!Open(k, d)' <=> Stream!Open(k, d)
    BY <1>3 DEF Stream!Open
  <2>3. CASE k # kind
    <3>1. Map(k)' = Map(k)
      BY <1>2, <2>3
    <3>2. \A d : Number({<<k, "chunk", d>>})' = Number({<<k, "chunk", d>>})
      BY <1>6a, <2>3
    <3> QED
      BY <2>1, <2>2, <3>1, <3>2
  <2>4. CASE k = kind
    <3>1. /\ DOMAIN Map(k)' = DOMAIN Map(k)
          /\ \A d \in DOMAIN Map(k) :
                Map(k)'[d] = IF d = c THEN Map(k)[c] + 1 ELSE Map(k)[d]
      BY <1>1, <2>4
    <3>2. \A d : Number({<<k, "chunk", d>>})'
                    = Number({<<k, "chunk", d>>}) + (IF d = c THEN 1 ELSE 0)
      BY <1>6, <2>4
    <3>3. ASSUME NEW d \in DOMAIN Map(k)
          PROVE  Map(k)'[d] = Number({<<k, "chunk", d>>})'
      <4>1. CASE d = c
        BY <2>1, <3>1, <3>2, <4>1
      <4>2. CASE d # c
        BY <1>6a, <2>1, <3>1, <4>2
      <4> QED
        BY <4>1, <4>2
    <3> QED
      BY <2>1, <2>2, <3>1, <3>3
  <2> QED
    BY <2>3, <2>4
<1> QED
  BY <1>9, <1>10, <1>11 DEF Inv, IInv

(* The entries of this turn are of channels that were completed, and every *)
(* channel that was has one.                                               *)
LEMMA FaithfulFacts ==
    ASSUME log \in Seq(LogEvents), NEW b, Faithful(b)
    PROVE  /\ \A f \in Values(b) : f.turn = turns /\ f.kind # "user"
                  => Stream!Completed(f.kind, f.channel)
           /\ \A kind \in AllKinds, c \in Channels : Stream!Completed(kind, c) =>
                  \E f \in Values(b) : f.kind = kind /\ f.turn = turns /\ f.channel = c
<1>1. \A i \in Completes : i \in DOMAIN log /\ log[i] = <<log[i][1], "complete", log[i][3]>>
  BY DEF Completes, LogEvents
<1>2. ASSUME NEW f \in Values(b), f.turn = turns, f.kind # "user"
      PROVE  Stream!Completed(f.kind, f.channel)
  <2>1. PICK p \in DOMAIN b : b[p] = f
    BY <1>2 DEF Values
  <2>2. p \in OfTurn(b)
    BY <1>2, <2>1 DEF OfTurn
  <2>3. PICK i \in Completes : b[p] = RecordOf(i)
    BY <2>2 DEF Faithful
  <2>4. f.kind = log[i][1] /\ f.channel = log[i][3]
    BY <2>1, <2>3 DEF RecordOf, Entry
  <2>5. i \in DOMAIN log /\ log[i] = <<f.kind, "complete", f.channel>>
    BY <1>1, <2>4
  <2> QED
    BY <2>5 DEF Stream!Completed, Stream!Event
<1>3. ASSUME NEW kind \in AllKinds, NEW c \in Channels, Stream!Completed(kind, c)
      PROVE  \E f \in Values(b) : f.kind = kind /\ f.turn = turns /\ f.channel = c
  <2>1. PICK i \in DOMAIN log : log[i] = <<kind, "complete", c>>
    BY <1>3 DEF Stream!Completed, Stream!Event
  <2>2. i \in Completes
    BY <2>1 DEF Completes
  <2>3. PICK p \in OfTurn(b) : b[p] = RecordOf(i)
    BY <2>2 DEF Faithful
  <2>4. b[p].kind = kind /\ b[p].turn = turns /\ b[p].channel = c
    BY <2>1, <2>3 DEF RecordOf, Entry
  <2> QED
    BY <2>3, <2>4 DEF OfTurn, Values
<1> QED
  BY <1>2, <1>3

(* The event of a channel's end and the entry pushed for it come last.     *)
LEMMA CompleteStepFaithful ==
    ASSUME Inv, NEW kind \in AllKinds, NEW c \in Channels, CompleteStep(kind, c),
           Entry(kind, turns, c, Map(kind)[c]) \in Entries,
           Map(kind)[c] = Number({<<kind, "chunk", c>>})',
           ~Stream!Completed(kind, c)
    PROVE  Faithful(branch)'
<1> DEFINE e == <<kind, "complete", c>>
           x == Entry(kind, turns, c, Map(kind)[c])
           m == Len(branch) + 1
<1>0. PICK n : n = Len(log) + 1
  OBVIOUS
<1>1. Handles(kind, "complete", c) /\ branch' = Append(branch, x)
  BY DEF CompleteStep
<1>2. log \in Seq(LogEvents) /\ log' = Append(log, e) /\ UNCHANGED turns
      /\ branch \in Seq(Entries) /\ pc = "stream"
  BY <1>1, HandlesFacts DEF Inv, TypesInv
<1>3. /\ n \in Nat /\ \A i \in DOMAIN log : i \in Nat /\ i < n
      /\ log'[n] = e
  BY <1>0, <1>2, LogFacts
<1>4. /\ DOMAIN branch' = DOMAIN branch \cup {m}
      /\ \A p \in DOMAIN branch : branch'[p] = branch[p] /\ p \in Nat /\ p < m
      /\ branch'[m] = x /\ m \in Nat
  BY <1>1, <1>2, AppendProperties, LenProperties
<1>5. Completes' = Completes \cup {n} /\ \A i \in Completes : RecordOf(i)' = RecordOf(i)
  BY <1>0, <1>1, RecordKept
<1>6. RecordOf(n)' = x
  <2>1. log'[n][1] = kind /\ log'[n][3] = c
    BY <1>3
  <2>2. {i \in DOMAIN log' : log'[i] \in {<<log'[n][1], "chunk", log'[n][3]>>}}
            = {i \in DOMAIN log' : log'[i] \in {<<kind, "chunk", c>>}}
    BY <2>1
  <2> QED
    BY <1>2, <2>1, <2>2 DEF RecordOf, Number, Entry
<1>7. x.turn = turns /\ x.kind # "user" /\ x.kind = kind /\ x.channel = c
  BY DEF Entry, AllKinds
<1>8. Faithful(branch)
  BY <1>2 DEF Inv, IInv, RecordInv
<1>9. \A i \in Completes : RecordOf(i) # x /\ i \in Nat /\ i < n
  <2> SUFFICES ASSUME NEW i \in Completes, RecordOf(i) = x PROVE FALSE
    BY <1>3 DEF Completes
  <2>1. i \in DOMAIN log /\ log[i] = <<log[i][1], "complete", log[i][3]>>
    BY <1>2 DEF Completes, LogEvents
  <2>2. log[i][1] = kind /\ log[i][3] = c
    BY <1>7 DEF RecordOf, Entry
  <2> QED
    BY <2>1, <2>2 DEF Stream!Completed, Stream!Event
<1>10. \A p \in OfTurn(branch) : branch[p] # x /\ p \in DOMAIN branch
  BY <1>8, <1>9 DEF Faithful, OfTurn
<1> HIDE DEF e, x, m
<1>11. OfTurn(branch)' = OfTurn(branch) \cup {m}
  <2>1. OfTurn(branch)' = {p \in DOMAIN branch' :
                              branch'[p].turn = turns /\ branch'[p].kind # "user"}
    BY <1>2 DEF OfTurn
  <2> QED
    BY <1>4, <1>7, <2>1 DEF OfTurn
<1>12. \A p \in OfTurn(branch) : branch'[p] = branch[p] /\ p \in Nat /\ p < m /\ ~(m < p)
  BY <1>4, <1>10
<1>13. \A i \in Completes : ~(n < i)
  BY <1>3, <1>9
<1>14. \A p \in OfTurn(branch)' : \E i \in Completes' : branch'[p] = RecordOf(i)'
  BY <1>4, <1>5, <1>6, <1>8, <1>11, <1>12 DEF Faithful
<1>15. \A i \in Completes' : \E p \in OfTurn(branch)' : branch'[p] = RecordOf(i)'
  BY <1>4, <1>5, <1>6, <1>8, <1>11, <1>12 DEF Faithful
<1>16. ASSUME NEW i \in Completes', NEW j \in Completes',
              NEW p \in OfTurn(branch)', NEW q \in OfTurn(branch)',
              branch'[p] = RecordOf(i)', branch'[q] = RecordOf(j)'
       PROVE  p < q <=> i < j
  <2>1. p = m <=> i = n
    BY <1>4, <1>5, <1>6, <1>9, <1>10, <1>11, <1>12, <1>16
  <2>2. q = m <=> j = n
    BY <1>4, <1>5, <1>6, <1>9, <1>10, <1>11, <1>12, <1>16
  <2>3. CASE p = m /\ q = m
    BY <1>3, <1>4, <2>1, <2>2, <2>3
  <2>4. CASE p = m /\ q # m
    <3>1. i = n /\ j \in Completes /\ q \in OfTurn(branch)
      BY <1>5, <1>11, <2>1, <2>2, <2>4
    <3> QED
      BY <1>12, <1>13, <2>4, <3>1
  <2>5. CASE p # m /\ q = m
    <3>1. j = n /\ i \in Completes /\ p \in OfTurn(branch)
      BY <1>5, <1>11, <2>1, <2>2, <2>5
    <3> QED
      BY <1>9, <1>12, <2>5, <3>1
  <2>6. CASE p # m /\ q # m
    <3>1. /\ i \in Completes /\ p \in OfTurn(branch) /\ j \in Completes
          /\ q \in OfTurn(branch)
      BY <1>5, <1>11, <2>1, <2>2, <2>6
    <3>2. branch[p] = RecordOf(i) /\ branch[q] = RecordOf(j)
      BY <1>5, <1>12, <1>16, <3>1
    <3> QED
      BY <1>8, <3>1, <3>2 DEF Faithful
  <2> QED
    BY <2>3, <2>4, <2>5, <2>6
<1> QED
  BY <1>14, <1>15, <1>16 DEF Faithful

(* It comes on the right side of its partner, and takes no partner away.   *)
LEMMA CompleteStepPairs ==
    ASSUME Inv, NEW kind \in AllKinds, NEW c \in Channels, CompleteStep(kind, c),
           Entry(kind, turns, c, Map(kind)[c]) \in Entries
    PROVE  PairInv'
<1> DEFINE x == Entry(kind, turns, c, Map(kind)[c])
<1>1. /\ Handles(kind, "complete", c) /\ branch' = Append(branch, x)
      /\ Stream!Open(kind, c)
  BY DEF CompleteStep
<1>2. /\ log \in Seq(LogEvents) /\ UNCHANGED <<turns, stored, cut>>
      /\ branch \in Seq(Entries) /\ pc = "stream" /\ pc' = "stream"
  BY <1>1, HandlesFacts DEF Inv, TypesInv
<1>3. Values(branch') = Values(branch) \cup {x}
  BY <1>1, <1>2, PushValues
<1>4. x.turn = turns /\ x.kind = kind /\ x.channel = c
  BY DEF Entry
<1> HIDE DEF x
<1>5. Stream!Started(kind, c) /\ ~Stream!Completed(kind, c)
  BY <1>1 DEF Stream!Open
<1>6. ASSUME NEW f \in Values(branch), f.turn = turns, f.channel = c
      PROVE  /\ kind = "result" /\ f.kind = "tool" => c \notin Unknown
             /\ kind = "tool" /\ f.kind = "result" => c \in Unknown
  <2>1. Faithful(branch)
    BY <1>2 DEF Inv, IInv, RecordInv
  <2>2. f.kind # "user" => Stream!Completed(f.kind, c)
    BY <1>2, <1>6, <2>1, FaithfulFacts
  <2>3. Stream!Completed("result", c) => Stream!Started("result", c)
    BY DEF Inv, IInv, LogInv, AllKinds
  <2>4. Stream!Started("result", c) =>
            IF c \in Unknown
              THEN Stream!Completed("tool", c) => Stream!Completed("result", c)
              ELSE Stream!Completed("tool", c)
    BY DEF Inv, IInv, LogInv
  <2> QED
    BY <1>5, <2>2, <2>3, <2>4
<1>7. Ordered(branch)'
  <2>1. Ordered(branch)
    BY DEF Inv, IInv, PairInv
  <2>2. Ordered(Append(branch, x))
    BY <1>2, <1>4, <1>6, <2>1, PushOrdered DEF x
  <2> QED
    BY <1>1, <2>2 DEF Ordered
<1>8. Coupled({f \in Values(branch) : f.turn < turns}, branch)'
  <2>1. \A f \in Values(branch') : f.turn < turns => f \in Values(branch)
    BY <1>2, <1>3, <1>4 DEF Inv, TypesInv
  <2>2. Coupled({f \in Values(branch) : f.turn < turns}, branch)
    BY <1>2 DEF Inv, IInv, PairInv
  <2>3. {f \in Values(branch) : f.turn < turns}' = {f \in Values(branch') : f.turn < turns}
    BY <1>2 DEF Values
  <2>4. \A f \in {g \in Values(branch') : g.turn < turns} :
            f.kind \in {"tool", "result"} =>
                \E h \in Values(branch') \cup cut : Matches(f, h)
    BY <1>3, <2>1, <2>2 DEF Coupled
  <2> QED
    BY <1>2, <2>3, <2>4 DEF Coupled, Values, Matches, Partner
<1>9. Coupled(Values(stored), stored)' /\ Ordered(stored)'
  BY <1>2 DEF Inv, IInv, PairInv, Coupled, Ordered, Values
<1> QED
  BY <1>2, <1>7, <1>8, <1>9 DEF PairInv

(* An end closes the channel, in the map and in the stream, and pushes it. *)
LEMMA CompleteStepInv ==
    ASSUME Inv, NEW kind \in AllKinds, NEW c \in Channels, CompleteStep(kind, c)
    PROVE  Inv'
<1> DEFINE e == <<kind, "complete", c>>
           x == Entry(kind, turns, c, Map(kind)[c])
<1>1. /\ Handles(kind, "complete", c) /\ Stream!Open(kind, c)
      /\ kind = "tool" => ~Stream!Open("result", c)
      /\ Map(kind)' = Remove(Map(kind), c)
      /\ branch' = Append(branch, x)
  BY DEF CompleteStep
<1>2. /\ log \in Seq(LogEvents) /\ log' = Append(log, e)
      /\ status = "streaming" /\ status' = "streaming"
      /\ \A k \in AllKinds \ {kind} : Map(k)' = Map(k)
      /\ pc = "stream" /\ pc' = "stream" /\ UNCHANGED <<turns, stored, cut>>
  BY <1>1, HandlesFacts
<1>3. /\ \A k, d : Stream!Started(k, d)' <=> Stream!Started(k, d)
      /\ \A k, d : Stream!Completed(k, d)'
            <=> Stream!Completed(k, d) \/ (k = kind /\ d = c)
      /\ DOMAIN log' = DOMAIN log \cup {Len(log) + 1}
      /\ log'[Len(log) + 1] = e /\ \A i \in DOMAIN log : log'[i] = log[i]
      /\ \A V : Number(V)' = Number(V) + (IF e \in V THEN 1 ELSE 0)
  <2>1. \A k, d : Stream!Started(k, d)' <=> Stream!Started(k, d)
    BY <1>2, LogFacts
  <2>2. \A k, d : Stream!Completed(k, d)'
            <=> Stream!Completed(k, d) \/ (k = kind /\ d = c)
    <3>1. \A k, d : Stream!Completed(k, d)' <=> Stream!Completed(k, d)
              \/ ("complete" = "complete" /\ k = kind /\ d = c)
      BY <1>2, LogFacts, Zenon
    <3> QED
      BY <3>1
  <2>3. /\ DOMAIN log' = DOMAIN log \cup {Len(log) + 1}
        /\ log'[Len(log) + 1] = e /\ \A i \in DOMAIN log : log'[i] = log[i]
    BY <1>2, LogFacts
  <2>4. \A V : Number(V)' = Number(V) + (IF e \in V THEN 1 ELSE 0)
    BY <1>2, LogFacts
  <2> QED
    BY <2>1, <2>2, <2>3, <2>4
<1>4. \A V : Number(V) \in Nat
  BY <1>2, NumberFacts
<1>5. /\ Number(ChunkEvents)' = Number(ChunkEvents)
      /\ \A k, d : Number({<<k, "chunk", d>>})' = Number({<<k, "chunk", d>>})
  <2>1. \A V : e \notin V => Number(V)' = Number(V)
    BY <1>3, <1>4
  <2>2. e \notin ChunkEvents /\ \A k, d : e \notin {<<k, "chunk", d>>}
    BY DEF ChunkEvents
  <2> QED
    BY <2>1, <2>2
<1>6. Stream!Started(kind, c) /\ ~Stream!Completed(kind, c)
  BY <1>1 DEF Stream!Open
<1>7. c \in DOMAIN Map(kind) /\ Map(kind)[c] = Number({<<kind, "chunk", c>>})
  BY <1>1 DEF Inv, IInv, MapsInv
<1>8. x \in Entries
  <2>1. Map(kind)[c] \in 0 .. MaxChunks
    <3> DEFINE m == Number({<<kind, "chunk", c>>})
               t == Number(ChunkEvents)
    <3>1. m \in Nat /\ t \in Nat /\ m <= t /\ t <= MaxChunks /\ Map(kind)[c] = m
      BY <1>2, <1>4, <1>7, NumberFacts DEF Inv, IInv, LogInv
    <3> HIDE DEF m, t
    <3> QED
      BY <3>1, Bounds
  <2>2. turns \in 0 .. MaxTurns
    BY DEF Inv, TypesInv
  <2> QED
    BY <2>1, <2>2 DEF Entry, Entries, AllKinds
<1>9. TypesInv'
  <2>1. branch \in Seq(Entries) /\ \A f \in Values(branch) : f.turn <= turns
    BY DEF Inv, TypesInv
  <2>2. branch' \in Seq(Entries) /\ Values(branch') = Values(branch) \cup {x}
    BY <1>1, <1>8, <2>1, AppendProperties, LenProperties, PushValues
  <2>3. x.turn <= turns
    BY DEF Entry, Inv, TypesInv
  <2>4. \A f \in Values(branch') : f.turn <= turns
    BY <2>1, <2>2, <2>3
  <2> QED
    BY <1>1, <2>2, <2>4, HandlesFacts
<1>10. RecordInv'
  <2>1. Map(kind)[c] = Number({<<kind, "chunk", c>>})'
    BY <1>5, <1>7
  <2>2. Faithful(branch)'
    BY <1>6, <1>8, <2>1, CompleteStepFaithful
  <2> QED
    BY <1>2, <2>2 DEF RecordInv
<1>11. PairInv'
  BY <1>8, CompleteStepPairs
<1>12. e[2] = "complete" /\ \A i \in DOMAIN log : log[i] # e
  BY <1>6 DEF Stream!Completed, Stream!Event
<1> HIDE DEF e, x
<1>13. LogInv'
  <2>1. \A i, j \in DOMAIN log' : log'[i] = log'[j] /\ log'[i][2] = "complete" => i = j
    BY <1>3, <1>12 DEF Inv, IInv, LogInv
  <2>2. Number(ChunkEvents)' <= MaxChunks
    BY <1>5 DEF Inv, IInv, LogInv
  <2>3. ASSUME NEW d \in Channels
        PROVE  /\ \A k \in AllKinds :
                     /\ Stream!Completed(k, d)' => Stream!Started(k, d)'
                     /\ ~Stream!Started(k, d)' => Number({<<k, "chunk", d>>})' = 0
               /\ Stream!Started("result", d)' =>
                     /\ Stream!Started("tool", d)'
                     /\ IF d \in Unknown
                          THEN Stream!Completed("tool", d)' => Stream!Completed("result", d)'
                          ELSE Stream!Completed("tool", d)'
    <3>1. \A k \in AllKinds :
             /\ Stream!Completed(k, d)' => Stream!Started(k, d)'
             /\ ~Stream!Started(k, d)' => Number({<<k, "chunk", d>>})' = 0
      <4>1. \A k \in AllKinds : Stream!Completed(k, d)' => Stream!Started(k, d)'
        BY <1>3, <1>6 DEF Inv, IInv, LogInv
      <4>2. \A k \in AllKinds :
               ~Stream!Started(k, d)' => Number({<<k, "chunk", d>>})' = 0
        BY <1>3, <1>5 DEF Inv, IInv, LogInv
      <4> QED
        BY <4>1, <4>2
    <3>2. ASSUME Stream!Started("result", d)'
          PROVE  /\ Stream!Started("tool", d)'
                 /\ IF d \in Unknown
                      THEN Stream!Completed("tool", d)' => Stream!Completed("result", d)'
                      ELSE Stream!Completed("tool", d)'
      <4>1. /\ Stream!Started("result", d) /\ Stream!Started("tool", d)
            /\ IF d \in Unknown
                 THEN Stream!Completed("tool", d) => Stream!Completed("result", d)
                 ELSE Stream!Completed("tool", d)
        BY <1>3, <3>2 DEF Inv, IInv, LogInv
      <4>2. kind = "tool" /\ d = c => Stream!Completed("result", d)
        BY <1>1, <4>1 DEF Stream!Open
      <4> QED
        BY <1>3, <4>1, <4>2
    <3> QED
      BY <3>1, <3>2
  <2> QED
    BY <1>2, <2>1, <2>2, <2>3 DEF LogInv
<1>14. MapsInv'
  <2> SUFFICES ASSUME NEW k \in AllKinds
               PROVE  /\ DOMAIN Map(k)' = {d \in Channels : Stream!Open(k, d)'}
                      /\ \A d \in DOMAIN Map(k)' :
                            Map(k)'[d] = Number({<<k, "chunk", d>>})'
    BY DEF MapsInv
  <2>1. /\ DOMAIN Map(k) = {d \in Channels : Stream!Open(k, d)}
        /\ \A d \in DOMAIN Map(k) : Map(k)[d] = Number({<<k, "chunk", d>>})
    BY DEF Inv, IInv, MapsInv
  <2>2. CASE k # kind
    <3>1. Map(k)' = Map(k) /\ \A d \in Channels : Stream!Open(k, d)' <=> Stream!Open(k, d)
      BY <1>2, <1>3, <2>2 DEF Stream!Open
    <3> QED
      BY <1>5, <2>1, <3>1
  <2>3. CASE k = kind
    <3>1. \A d \in Channels : Stream!Open(k, d)' <=> Stream!Open(k, d) /\ d # c
      BY <1>3, <2>3 DEF Stream!Open
    <3>2. /\ DOMAIN Map(k)' = DOMAIN Map(k) \ {c}
          /\ \A d \in DOMAIN Map(k)' : Map(k)'[d] = Map(k)[d]
      BY <1>1, <2>3 DEF Remove
    <3> QED
      BY <1>5, <2>1, <3>1, <3>2
  <2> QED
    BY <2>2, <2>3
<1> QED
  BY <1>9, <1>10, <1>11, <1>13, <1>14 DEF Inv, IInv

-----------------------------------------------------------------------------
(* Lines, turns and processes.                                             *)

(* Nothing is in a new stream, and nothing in the maps.                    *)
Fresh == log = <<>> /\ status = "streaming" /\ \A k \in AllKinds : Map(k) = Empty

(* That is so after a request, and whenever no process runs.               *)
LEMMA FreshInv == /\ Fresh => log \in Seq(LogEvents) /\ Completes = {} /\ LogInv /\ MapsInv
                  /\ Fresh' => /\ log' \in Seq(LogEvents) /\ Completes' = {}
                               /\ LogInv' /\ MapsInv'
<1>1. DOMAIN Empty = {}
  BY DEF Empty
<1>2. ASSUME Fresh
      PROVE  log \in Seq(LogEvents) /\ Completes = {} /\ LogInv /\ MapsInv
  <2>1. DOMAIN log = {} /\ log \in Seq(LogEvents)
    BY <1>2 DEF Fresh
  <2>2. \A V : Number(V) = 0
    BY <1>2, CountEmpty DEF Fresh, Number, Count
  <2>3. \A k, d : ~Stream!Started(k, d) /\ ~Stream!Completed(k, d) /\ ~Stream!Open(k, d)
    BY <2>1 DEF Stream!Started, Stream!Completed, Stream!Open
  <2>4. LogInv
    BY <1>2, <2>1, <2>2, <2>3, Bounds DEF LogInv, Fresh
  <2>5. MapsInv
    BY <1>1, <1>2, <2>3 DEF MapsInv, Fresh
  <2> QED
    BY <2>1, <2>4, <2>5 DEF Completes
<1>3. ASSUME Fresh'
      PROVE  log' \in Seq(LogEvents) /\ Completes' = {} /\ LogInv' /\ MapsInv'
  <2>1. DOMAIN log' = {} /\ log' \in Seq(LogEvents)
    BY <1>3 DEF Fresh
  <2>2. \A V : Number(V)' = 0
    BY <1>3, CountEmpty DEF Fresh, Number, Count
  <2>3. \A k, d : ~Stream!Started(k, d)' /\ ~Stream!Completed(k, d)' /\ ~Stream!Open(k, d)'
    BY <2>1 DEF Stream!Started, Stream!Completed, Stream!Open
  <2>4. LogInv'
    BY <1>3, <2>1, <2>2, <2>3, Bounds DEF LogInv, Fresh
  <2>5. MapsInv'
    BY <1>1, <1>3, <2>3 DEF MapsInv, Fresh
  <2> QED
    BY <2>1, <2>4, <2>5 DEF Completes
<1> QED
  BY <1>2, <1>3

(* A process that has not started has nothing in its maps.                 *)
LEMMA InitInv == Init => Inv
<1> SUFFICES ASSUME Init PROVE Inv
  OBVIOUS
<1>1. Fresh
  BY DEF Init, Stream!Init, Fresh, Map, AllKinds
<1>2. log \in Seq(LogEvents) /\ LogInv /\ MapsInv
  BY <1>1, FreshInv
<1>3. TypesInv
  <2>1. stored = <<>> /\ branch = <<>> /\ cut = {} /\ Values(<<>>) = {}
    BY DEF Init, Values
  <2>2. 0 \in 0 .. MaxLines /\ 0 \in 0 .. MaxTurns /\ <<>> \in Seq(Entries)
    BY Bounds
  <2>3. pc = "down" /\ lines = 0 /\ turns = 0 /\ shouldContinue = FALSE
    BY DEF Init
  <2> QED
    BY <1>1, <1>2, <2>1, <2>2, <2>3 DEF TypesInv, Fresh
<1>4. RecordInv
  BY DEF Init, Stream!Init, RecordInv
<1>5. PairInv
  BY DEF Init, PairInv, Coupled, Ordered, Values
<1> QED
  BY <1>2, <1>3, <1>4, <1>5 DEF Inv, IInv

(* What a step that leaves the stream and the maps alone keeps.            *)
LEMMA StreamKept ==
    ASSUME Inv, UNCHANGED <<log, status, maps>>
    PROVE  LogInv' /\ MapsInv' /\ Completes' = Completes
<1>1. /\ \A V : Number(V)' = Number(V)
      /\ \A k, d : /\ Stream!Started(k, d)' <=> Stream!Started(k, d)
                   /\ Stream!Completed(k, d)' <=> Stream!Completed(k, d)
                   /\ Stream!Open(k, d)' <=> Stream!Open(k, d)
      /\ \A k \in AllKinds : Map(k)' = Map(k)
  BY DEF Number, Stream!Started, Stream!Completed, Stream!Open, Map, maps
<1>2. LogInv'
  BY <1>1 DEF Inv, IInv, LogInv
<1>3. MapsInv'
  BY <1>1 DEF Inv, IInv, MapsInv
<1> QED
  BY <1>2, <1>3 DEF Completes

(* A process starts with what the last one put.                            *)
LEMMA StartProcessInv == Inv /\ StartProcess => Inv'
<1> SUFFICES ASSUME Inv, StartProcess PROVE Inv'
  OBVIOUS
<1>1. UNCHANGED <<log, status, maps, turns, lines, stored, cut, branch, shouldContinue>>
  BY DEF StartProcess, stream, session
<1>2. LogInv' /\ MapsInv' /\ Completes' = Completes
  BY <1>1, StreamKept
<1>3. TypesInv'
  BY <1>1 DEF StartProcess, Inv, TypesInv, Values
<1>4. RecordInv'
  BY <1>1, <1>2 DEF StartProcess, Inv, IInv, RecordInv, Faithful, OfTurn, RecordOf, Number
<1>5. PairInv'
  BY <1>1 DEF StartProcess, Inv, IInv, PairInv, Coupled, Ordered, Values
<1> QED
  BY <1>2, <1>3, <1>4, <1>5 DEF Inv, IInv

(* A process that ends forgets its branch, and leaves the session.         *)
LEMMA EndInv == Inv /\ End => Inv'
<1> SUFFICES ASSUME Inv, End PROVE Inv'
  OBVIOUS
<1>1. /\ UNCHANGED <<turns, lines, stored, cut>>
      /\ pc' = "down" /\ branch' = <<>> /\ shouldContinue' = FALSE
  BY DEF End, session
<1>2. Fresh'
  BY DEF End, Fresh, Map, AllKinds
<1>3. log' \in Seq(LogEvents) /\ LogInv' /\ MapsInv'
  BY <1>2, FreshInv
<1>4. TypesInv'
  <2>1. Values(branch') = {} /\ branch' \in Seq(Entries)
    BY <1>1 DEF Values
  <2>2. Values(stored)' = Values(stored)
    BY <1>1 DEF Values
  <2>3. Values(branch)' = {}
    BY <2>1 DEF Values
  <2> QED
    BY <1>1, <1>2, <1>3, <2>1, <2>2, <2>3 DEF Inv, TypesInv, Fresh
<1>5. RecordInv'
  BY <1>1, <1>2 DEF RecordInv, Fresh
<1>6. PairInv'
  BY <1>1 DEF Inv, IInv, PairInv, Coupled, Ordered, Values
<1> QED
  BY <1>3, <1>4, <1>5, <1>6 DEF Inv, IInv

(* A request begins a turn that no entry belongs to yet.                   *)
LEMMA AskInv == Inv /\ Ask => Inv'
<1> SUFFICES ASSUME Inv, Ask PROVE Inv'
  OBVIOUS
<1>1. /\ pc = "ask" /\ pc' = "stream"
      /\ turns < MaxTurns /\ turns' = turns + 1 /\ shouldContinue' = FALSE
      /\ UNCHANGED <<lines, stored, cut, branch>>
  BY DEF Ask, session
<1>2. Fresh'
  BY DEF Ask, Fresh, Map, AllKinds
<1>3. log' \in Seq(LogEvents) /\ Completes' = {} /\ LogInv' /\ MapsInv'
  BY <1>2, FreshInv
<1>4. turns \in Nat /\ turns' \in 0 .. MaxTurns
  BY <1>1, Bounds DEF Inv, TypesInv
<1>5. \A e \in Values(stored) \cup Values(branch) : e.turn \in Nat /\ e.turn < turns'
  <2>1. \A e \in Values(stored) \cup Values(branch) : e \in Entries /\ e.turn <= turns
    BY DEF Inv, TypesInv, Values
  <2>2. \A e \in Entries : e.turn \in Nat
    BY Bounds DEF Entries
  <2> QED
    BY <1>1, <1>4, <2>1, <2>2
<1>6. TypesInv'
  <2>1. Values(stored)' = Values(stored) /\ Values(branch)' = Values(branch)
    BY <1>1 DEF Values
  <2>2. \A e \in Values(stored) \cup Values(branch) : e.turn <= turns'
    BY <1>1, <1>4, <1>5
  <2> QED
    BY <1>1, <1>2, <1>3, <1>4, <2>1, <2>2 DEF Inv, TypesInv, Fresh
<1>7. RecordInv'
  <2>1. OfTurn(branch)' = {}
    BY <1>1, <1>4, <1>5 DEF OfTurn, Values
  <2>2. Faithful(branch)'
    BY <1>3, <2>1 DEF Faithful
  <2> QED
    BY <1>2, <2>2 DEF RecordInv, Fresh
<1>8. PairInv'
  <2>1. /\ Coupled(Values(stored), stored) /\ Ordered(stored) /\ Ordered(branch)
        /\ Coupled(Values(branch), branch)
    BY <1>1 DEF Inv, IInv, PairInv
  <2>2. Coupled({e \in Values(branch) : e.turn < turns}, branch)'
    BY <1>1, <2>1 DEF Coupled, Values, Matches, Partner
  <2>3. Coupled(Values(stored), stored)' /\ Ordered(stored)' /\ Ordered(branch)'
    BY <1>1, <2>1 DEF Coupled, Values, Ordered
  <2> QED
    BY <1>1, <2>2, <2>3 DEF PairInv
<1> QED
  BY <1>3, <1>6, <1>7, <1>8 DEF Inv, IInv

(* What slicing takes out of a branch is remembered as cut.                *)
LEMMA ReadLineInv == Inv /\ ReadLine => Inv'
<1> SUFFICES ASSUME Inv, ReadLine PROVE Inv'
  OBVIOUS
<1> DEFINE x == Entry("user", turns, 0, 0)
           pushed == Append(stored, x)
<1>1. /\ pc = "prompt" /\ pc' = "ask" /\ lines < MaxLines /\ lines' = lines + 1
      /\ UNCHANGED <<turns, stored, shouldContinue, log, status, maps>>
      /\ branch' = IF Len(pushed) >= SliceAt THEN Sliced(pushed) ELSE pushed
      /\ cut' = cut \cup (Values(pushed) \ Values(branch'))
  BY DEF ReadLine, stream
<1>2. LogInv' /\ MapsInv' /\ Completes' = Completes
  BY <1>1, StreamKept
<1>3. /\ x \in Entries /\ x.turn = turns /\ x.kind = "user"
      /\ stored \in Seq(Entries) /\ pushed \in Seq(Entries)
      /\ Values(pushed) = Values(stored) \cup {x}
  <2>1. x \in Entries
    BY Bounds DEF Entry, Entries, Inv, TypesInv
  <2>2. stored \in Seq(Entries)
    BY DEF Inv, TypesInv
  <2> QED
    BY <2>1, <2>2, AppendProperties, LenProperties, PushValues DEF Entry
<1>4. Ordered(pushed)
  <2>1. Ordered(stored)
    BY DEF Inv, IInv, PairInv
  <2> QED
    BY <1>3, <2>1, PushOrdered
<1> HIDE DEF pushed, x
<1>5. branch' \in Seq(Entries) /\ Values(branch') \subseteq Values(pushed) /\ Ordered(branch')
  <2>1. CASE Len(pushed) >= SliceAt
    <3>1. SliceFrom \in Nat /\ SliceFrom <= Len(pushed)
      BY <1>3, <2>1, Bounds
    <3>2. branch' = SubSeq(pushed, SliceFrom + 1, Len(pushed))
      BY <1>1, <2>1 DEF Sliced
    <3> QED
      BY <1>3, <1>4, <3>1, <3>2, SubSeqProperties, LenProperties, SliceValues, SliceOrdered
  <2>2. CASE ~(Len(pushed) >= SliceAt)
    BY <1>1, <1>3, <1>4, <2>2
  <2> QED
    BY <2>1, <2>2
<1>6. Values(pushed) \subseteq Values(branch') \cup cut' /\ cut \subseteq cut'
  BY <1>1
<1>7. TypesInv'
  <2>1. Values(pushed) \subseteq Entries
    BY <1>3 DEF Values
  <2>2. cut' \subseteq Entries
    BY <1>1, <2>1 DEF Inv, TypesInv
  <2>3. \A e \in Values(stored) \cup Values(branch') : e.turn <= turns
    BY <1>3, <1>5 DEF Inv, TypesInv
  <2>4. Values(stored)' = Values(stored) /\ Values(branch)' = Values(branch')
    BY <1>1 DEF Values
  <2>5. lines' \in 0 .. MaxLines
    BY <1>1, Bounds DEF Inv, TypesInv
  <2> QED
    BY <1>1, <1>5, <2>2, <2>3, <2>4, <2>5 DEF Inv, TypesInv
<1>8. RecordInv'
  <2>1. \A i : RecordOf(i)' = RecordOf(i)
    BY <1>1 DEF RecordOf, Number
  <2>2. OfTurn(stored)' = OfTurn(stored)
    BY <1>1 DEF OfTurn
  <2>3. status = "complete" => Faithful(stored)
    BY DEF Inv, IInv, RecordInv
  <2>4. status = "complete" => Faithful(stored)'
    BY <1>1, <1>2, <2>1, <2>2, <2>3 DEF Faithful
  <2> QED
    BY <1>1, <2>4 DEF RecordInv
<1>9. PairInv'
  <2>1. \A e \in Values(pushed) : e.kind \in {"tool", "result"} =>
            \E f \in Values(pushed) \cup cut : Matches(e, f)
    BY <1>3 DEF Inv, IInv, PairInv, Coupled
  <2>2. Coupled(Values(branch), branch)'
    <3>1. \A e \in Values(branch') : e.kind \in {"tool", "result"} =>
              \E f \in Values(branch') \cup cut' : Matches(e, f)
      BY <1>5, <1>6, <2>1
    <3> QED
      BY <3>1 DEF Coupled, Values, Matches, Partner
  <2>3. Coupled(Values(stored), stored)' /\ Ordered(stored)'
    BY <1>1, <1>6 DEF Inv, IInv, PairInv, Coupled, Ordered, Values, Matches, Partner
  <2> QED
    BY <1>1, <1>5, <2>2, <2>3 DEF PairInv, Ordered
<1> QED
  BY <1>2, <1>7, <1>8, <1>9 DEF Inv, IInv

(* A turn that ends has no channel open, and a result for each call: those *)
(* it adds to the session find their partners among themselves.            *)
LEMMA EndTurnInv == Inv /\ EndTurn => Inv'
<1> SUFFICES ASSUME Inv, EndTurn PROVE Inv'
  OBVIOUS
<1>1. /\ pc = "stream" /\ pc' \in {"ask", "prompt"}
      /\ stored' = branch /\ log' = log /\ status' = "complete"
      /\ UNCHANGED <<lines, turns, cut, branch, shouldContinue, maps>>
      /\ \A c \in Channels :
            /\ Stream!Started("tool", c) => Stream!Completed("result", c)
            /\ ~Stream!Open("message", c) /\ ~Stream!Open("tool", c)
  BY DEF EndTurn, Stream!TurnEnd, Stream!End, Stream!NothingOpen, Stream!Kinds
<1>2. /\ log \in Seq(LogEvents) /\ branch \in Seq(Entries) /\ Faithful(branch)
      /\ status = "streaming"
  BY <1>1 DEF Inv, TypesInv, IInv, RecordInv
<1>3. \A c \in Channels :
         /\ Stream!Completed("tool", c) => Stream!Started("tool", c)
         /\ Stream!Completed("result", c) => Stream!Started("result", c)
         /\ Stream!Started("result", c) => Stream!Started("tool", c)
  BY DEF Inv, IInv, LogInv, AllKinds
<1>4. \A c \in Channels : ~Stream!Open("result", c)
  BY <1>1, <1>3 DEF Stream!Open
<1>5. /\ \A V : Number(V)' = Number(V)
      /\ \A k, d : /\ Stream!Started(k, d)' <=> Stream!Started(k, d)
                   /\ Stream!Completed(k, d)' <=> Stream!Completed(k, d)
                   /\ Stream!Open(k, d)' <=> Stream!Open(k, d)
      /\ \A k \in AllKinds : Map(k)' = Map(k)
  BY <1>1 DEF Number, Stream!Started, Stream!Completed, Stream!Open, Map, maps
<1>6. LogInv'
  <2>1. \A c \in Channels :
           /\ \A k \in AllKinds : ~Stream!Open(k, c)'
           /\ Stream!Started("tool", c)' => Stream!Completed("result", c)'
    BY <1>1, <1>4, <1>5 DEF AllKinds
  <2> QED
    BY <1>1, <1>5, <2>1 DEF Inv, IInv, LogInv
<1>7. MapsInv'
  BY <1>5 DEF Inv, IInv, MapsInv
<1>8. TypesInv'
  <2>1. Values(stored)' = Values(branch) /\ Values(branch)' = Values(branch)
    BY <1>1 DEF Values
  <2> QED
    BY <1>1, <2>1 DEF Inv, TypesInv
<1>9. RecordInv'
  <2>1. /\ \A i : RecordOf(i)' = RecordOf(i)
        /\ OfTurn(stored)' = OfTurn(branch) /\ Completes' = Completes
    BY <1>1 DEF RecordOf, Number, OfTurn, Completes
  <2>2. Faithful(stored)'
    BY <1>1, <1>2, <2>1 DEF Faithful
  <2> QED
    BY <1>1, <2>2 DEF RecordInv
<1>10. Coupled(Values(branch), branch)
  <2> SUFFICES ASSUME NEW e \in Values(branch), e.kind \in {"tool", "result"}
               PROVE  \E f \in Values(branch) \cup cut : Matches(e, f)
    BY DEF Coupled
  <2>1. e \in Entries /\ e.turn <= turns
    BY <1>2 DEF Values, Inv, TypesInv
  <2>2. e.turn < turns \/ e.turn = turns
    BY <2>1, Bounds DEF Entries, Inv, TypesInv
  <2>3. CASE e.turn < turns
    BY <1>1, <2>3 DEF Inv, IInv, PairInv, Coupled
  <2>4. CASE e.turn = turns
    <3>1. Stream!Completed(e.kind, e.channel)
      BY <1>2, <2>4, FaithfulFacts
    <3>2. e.channel \in Channels
      BY <1>2, <3>1 DEF LogEvents, Stream!Completed, Stream!Event
    <3>3. /\ Stream!Completed("tool", e.channel)
          /\ Stream!Completed("result", e.channel)
      BY <1>1, <1>3, <3>1, <3>2 DEF Stream!Open
    <3>4. Partner(e) \in AllKinds /\ Stream!Completed(Partner(e), e.channel)
      BY <3>3 DEF Partner, AllKinds
    <3> QED
      BY <1>2, <2>4, <3>2, <3>4, FaithfulFacts DEF Matches
  <2> QED
    BY <2>2, <2>3, <2>4
<1>11. PairInv'
  <2>1. Coupled(Values(branch), branch)' /\ Coupled(Values(stored), stored)'
    BY <1>1, <1>10 DEF Coupled, Values, Matches, Partner
  <2>2. Ordered(branch)' /\ Ordered(stored)'
    BY <1>1 DEF Inv, IInv, PairInv, Ordered
  <2> QED
    BY <1>1, <2>1, <2>2 DEF PairInv
<1> QED
  BY <1>6, <1>7, <1>8, <1>9, <1>11 DEF Inv, IInv

(* A step of nothing keeps the invariant.                                  *)
LEMMA StutterInv == Inv /\ UNCHANGED vars => Inv'
<1> SUFFICES ASSUME Inv, UNCHANGED vars PROVE Inv'
  OBVIOUS
<1>1. UNCHANGED <<log, status, maps, pc, turns, lines, stored, cut, branch, shouldContinue>>
  BY DEF vars, stream, session
<1>2. LogInv' /\ MapsInv' /\ Completes' = Completes
  BY <1>1, StreamKept
<1>3. TypesInv'
  BY <1>1 DEF Inv, TypesInv, Values
<1>4. RecordInv'
  BY <1>1, <1>2 DEF Inv, IInv, RecordInv, Faithful, OfTurn, RecordOf, Number
<1>5. PairInv'
  BY <1>1 DEF Inv, IInv, PairInv, Coupled, Ordered, Values
<1> QED
  BY <1>2, <1>3, <1>4, <1>5 DEF Inv, IInv

(* No step breaks the invariant.                                           *)
LEMMA StepInv == Inv /\ [Next]_vars => Inv'
<1> SUFFICES ASSUME Inv, [Next]_vars PROVE Inv'
  OBVIOUS
<1>1. ASSUME NEW c \in Channels, Receive(c)
      PROVE  Inv'
  BY <1>1, ReceiveSteps, StartStepInv, ChunkStepInv, CompleteStepInv
<1> QED
  BY <1>1, StartProcessInv, ReadLineInv, AskInv, EndTurnInv, EndInv, StutterInv DEF Next

(* The inductive invariant holds of every behaviour.                       *)
THEOREM Invariance == Spec => []Inv
BY InitInv, StepInv, PTL DEF Spec

-----------------------------------------------------------------------------
(* The theorems.                                                           *)

(* The variables keep their types, and the process never meets a channel   *)
(* that it does not know: "unknown channel" is no value of pc.             *)
THEOREM TypeCorrect == Spec => []TypeOK
<1>1. Inv => TypeOK
  <2> SUFFICES ASSUME Inv PROVE TypeOK
    OBVIOUS
  <2>1. ASSUME NEW k \in AllKinds
        PROVE  DOMAIN Map(k) \subseteq Channels /\ Values(Map(k)) \subseteq 0 .. MaxChunks
    <3>1. /\ DOMAIN Map(k) \subseteq Channels
          /\ \A c \in DOMAIN Map(k) : Map(k)[c] = Number({<<k, "chunk", c>>})
      BY DEF Inv, IInv, MapsInv
    <3>2. /\ \A V : Number(V) \in Nat
          /\ \A c \in Channels : Number({<<k, "chunk", c>>}) <= Number(ChunkEvents)
          /\ Number(ChunkEvents) <= MaxChunks
      BY NumberFacts DEF Inv, TypesInv, IInv, LogInv
    <3>3. ASSUME NEW c \in DOMAIN Map(k)
          PROVE  Map(k)[c] \in 0 .. MaxChunks
      <4> DEFINE m == Number({<<k, "chunk", c>>})
                 t == Number(ChunkEvents)
      <4>1. m \in Nat /\ t \in Nat /\ m <= t /\ t <= MaxChunks /\ Map(k)[c] = m
        BY <3>1, <3>2
      <4> HIDE DEF m, t
      <4> QED
        BY <4>1, Bounds
    <3> QED
      BY <3>1, <3>3 DEF Values
  <2>2. \A map \in {channels, tools, toolResults} : \E k \in AllKinds : Map(k) = map
    BY DEF Map, AllKinds
  <2>3. \A map \in {channels, tools, toolResults} :
           DOMAIN map \subseteq Channels /\ Values(map) \subseteq 0 .. MaxChunks
    BY <2>1, <2>2
  <2> QED
    BY <2>3 DEF Inv, TypesInv, TypeOK
<1> QED
  BY <1>1, Invariance, PTL

(* When the turn is over, the session that was put has an entry for each   *)
(* channel of its stream, in the order of completion and with all chunks,  *)
(* and no map holds a channel.                                             *)
THEOREM TurnPutAsStreamed == Spec => []TurnRecorded
<1>1. Inv => TurnRecorded
  <2> SUFFICES ASSUME Inv, status = "complete" PROVE TurnRecorded
    BY DEF TurnRecorded
  <2> DEFINE record == [i \in Completes |-> RecordOf(i)]
  <2>1. DOMAIN channels \cup DOMAIN tools \cup DOMAIN toolResults = {}
    <3>1. \A k \in AllKinds, c \in Channels : ~Stream!Open(k, c)
      BY DEF Inv, IInv, LogInv
    <3>2. \A k \in AllKinds : DOMAIN Map(k) = {}
      BY <3>1 DEF Inv, IInv, MapsInv
    <3> QED
      BY <3>2 DEF Map, AllKinds
  <2>2. Faithful(stored)
    BY DEF Inv, IInv, RecordInv
  <2>3. {stored[p] : p \in OfTurn(stored)} = {RecordOf(i) : i \in Completes}
    BY <2>2 DEF Faithful
  <2>4. \A i, j \in Completes, p, q \in OfTurn(stored) :
           stored[p] = RecordOf(i) /\ stored[q] = RecordOf(j) => (p < q <=> i < j)
    BY <2>2 DEF Faithful
  <2>5. DOMAIN record = Completes /\ \A i \in Completes : record[i] = RecordOf(i)
    OBVIOUS
  <2>6. Values(record) = {RecordOf(i) : i \in Completes}
    <3> HIDE DEF record
    <3> QED
      BY <2>5 DEF Values
  <2> HIDE DEF record
  <2>7. /\ {stored[p] : p \in OfTurn(stored)} = Values(record)
        /\ \A i, j \in Completes, p, q \in OfTurn(stored) :
              stored[p] = record[i] /\ stored[q] = record[j] => (p < q <=> i < j)
    <3>1. {stored[p] : p \in OfTurn(stored)} = Values(record)
      BY <2>3, <2>6
    <3>2. ASSUME NEW i \in Completes, NEW j \in Completes,
                 NEW p \in OfTurn(stored), NEW q \in OfTurn(stored),
                 stored[p] = record[i], stored[q] = record[j]
          PROVE  p < q <=> i < j
      <4>1. stored[p] = RecordOf(i) /\ stored[q] = RecordOf(j)
        BY <2>5, <3>2
      <4> QED
        BY <2>4, <4>1
    <3> QED
      BY <3>1, <3>2
  <2> QED
    BY <2>1, <2>7, Zenon DEF TurnRecorded, record, OfTurn, Completes, RecordOf
<1> QED
  BY <1>1, Invariance, PTL

(* Whatever breaks off or crashes, each call that was put has its result   *)
(* and each result its call, on its side, or slicing removed the other.    *)
THEOREM CallsHaveResults == Spec => []Paired
<1>1. Inv => Paired
  BY DEF Inv, IInv, PairInv, Coupled, Ordered, Matches, Paired
<1> QED
  BY <1>1, Invariance, PTL
=============================================================================
