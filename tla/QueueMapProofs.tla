--------------------------- MODULE QueueMapProofs ---------------------------
(***************************************************************************)
(* Proofs about QueueMap for every set of keys, producers, values and      *)
(* channels: its safety invariants, and that it implements KeyedQueue.     *)
(*                                                                         *)
(* TypeOK /\ IInv is inductive.  One lemma per action shows that the       *)
(* action preserves it; the same facts then show that each action is a     *)
(* step of KeyedQueue or leaves its variables unchanged.                   *)
(***************************************************************************)
EXTENDS QueueMap, SequenceTheorems, TLAPS

(* The elements of a sequence and of what is appended.                     *)
LEMMA ElementsAppend ==
    ASSUME NEW S, NEW s \in Seq(S), NEW v \in S
    PROVE  Range(Append(s, v)) = Range(s) \cup {v}
<1>1. <<v>> \in Seq(S) /\ Range(<<v>>) = {v}
  BY DEF Range
<1>2. Range(s \o <<v>>) = Range(s) \cup Range(<<v>>)
  BY <1>1, RangeConcatenation
<1>3. Append(s, v) = s \o <<v>>
  BY AppendIsConcat
<1> QED
  BY <1>1, <1>2, <1>3, Zenon

(* A sequence is cut in two: no element is lost.                           *)
LEMMA ElementsSplit ==
    ASSUME NEW S, NEW s \in Seq(S), NEW n \in Nat, n <= Len(s)
    PROVE  Range(s) = Range(SubSeq(s, 1, n)) \cup Range(SubSeq(s, n + 1, Len(s)))
<1> DEFINE a == SubSeq(s, 1, n)
           b == SubSeq(s, n + 1, Len(s))
<1>1. Len(s) \in Nat /\ 1 \in 1 .. Len(s) + 1 /\ n \in 1 - 1 .. Len(s) /\ Len(s) \in n .. Len(s)
  OBVIOUS
<1>2. a \o b = SubSeq(s, 1, Len(s))
  BY <1>1, ConcatAdjacentSubSeq
<1>3. a \in Seq(S) /\ b \in Seq(S)
  OBVIOUS
<1>4. SubSeq(s, 1, Len(s)) = s
  BY SubSeqFull
<1> HIDE DEF a, b
<1>5. a \o b = s
  BY <1>2, <1>4, Zenon
<1>6. Range(a \o b) = Range(a) \cup Range(b)
  BY <1>3, RangeConcatenation
<1> QED
  BY <1>5, <1>6 DEF a, b

-----------------------------------------------------------------------------
(* Facts about the elements of a queue.                                    *)

(* Two names for the same set: the model's and the library's.              *)
LEMMA RangeIsElements == \A s : RangeOf(s) = Range(s)
BY DEF RangeOf, Range

(* Sending adds one element.                                               *)
LEMMA RangeAppend ==
    ASSUME NEW S, NEW s \in Seq(S), NEW v \in S
    PROVE  /\ Append(s, v) \in Seq(S)
           /\ RangeOf(Append(s, v)) = RangeOf(s) \cup {v}
BY AppendProperties, ElementsAppend, RangeIsElements

(* A receive splits a queue in what is taken and what stays.               *)
LEMMA RangeSplit ==
    ASSUME NEW S, NEW s \in Seq(S), NEW n \in Nat, n <= Len(s)
    PROVE  /\ SubSeq(s, 1, n) \in Seq(S)
           /\ SubSeq(s, n + 1, Len(s)) \in Seq(S)
           /\ RangeOf(s) = RangeOf(SubSeq(s, 1, n))
                               \cup RangeOf(SubSeq(s, n + 1, Len(s)))
<1>1. SubSeq(s, 1, n) \in Seq(S) /\ SubSeq(s, n + 1, Len(s)) \in Seq(S)
  OBVIOUS
<1> QED
  BY <1>1, ElementsSplit, RangeIsElements

(* Handling a batch adds its elements.                                     *)
LEMMA RangeConcat ==
    ASSUME NEW S, NEW s \in Seq(S), NEW t \in Seq(S)
    PROVE  /\ s \o t \in Seq(S)
           /\ RangeOf(s \o t) = RangeOf(s) \cup RangeOf(t)
BY ConcatProperties, RangeConcatenation, RangeIsElements

(* recv_many takes at least one value of a queue that has one, and no more *)
(* than there are.                                                         *)
LEMMA BatchSizeBounds ==
    ASSUME NEW q \in Seq(Values), q # <<>>
    PROVE  BatchSize(q) \in Nat /\ 1 <= BatchSize(q) /\ BatchSize(q) <= Len(q)
BY RecvLimitAssumption DEF BatchSize
-----------------------------------------------------------------------------
(* One lemma per action: it preserves the inductive invariant.             *)

Inv == TypeOK /\ IInv

(* The invariant holds of an empty map.                                    *)
LEMMA InitInv == Init => Inv
<1> SUFFICES ASSUME Init PROVE Inv
  OBVIOUS
<1>1. TypeOK
  BY DEF Init, TypeOK, RcvStates, EnqueueStates
<1>2. IInv
  BY DEF Init, IInv, FreeInv, KeyInv, NoEntryLeaks, RequestInv,
         LiveReceiverMapped, FinishedEmpty, Accounted
<1> QED
  BY <1>1, <1>2 DEF Inv

(* The new value is with its producer.                                     *)
LEMMA CallInv ==
    ASSUME Inv, NEW p \in Producers, NEW k \in Keys, NEW v \in Values,
           Call(p, k, v)
    PROVE  Inv'
<1> USE DEF Inv, Call
<1>1. TypeOK'
  BY DEF TypeOK, EnqueueStates
<1>2. (FreeInv /\ KeyInv /\ NoEntryLeaks /\ LiveReceiverMapped /\ FinishedEmpty)'
  BY DEF IInv, FreeInv, KeyInv, NoEntryLeaks, LiveReceiverMapped, FinishedEmpty
<1>3. RequestInv'
  BY DEF IInv, RequestInv, TypeOK
<1>4. Accounted'
  <2> SUFFICES ASSUME NEW w \in offered'
               PROVE  (Enqueueing(w) \/ Waiting(w) \/ Received(w) \/ w \in lost)'
    BY DEF Accounted
  <2>1. CASE w = v
    BY <2>1 DEF TypeOK, Enqueueing
  <2>2. CASE w \in offered
    <3>1. CASE Enqueueing(w)
      <4>1. PICK q \in Producers : request[q] # <<>> /\ request[q][2] = w
        BY <3>1 DEF Enqueueing
      <4>2. q # p
        BY <4>1 DEF IInv, RequestInv
      <4> QED
        BY <4>1, <4>2 DEF TypeOK, Enqueueing
    <3> QED
      BY <2>2, <3>1 DEF IInv, Accounted, Waiting, Received
  <2> QED
    BY <2>1, <2>2
<1> QED
  BY <1>1, <1>2, <1>3, <1>4 DEF IInv

(* The value moves from its producer to an open channel.                   *)
LEMMA SendOpenInv ==
    ASSUME Inv, NEW p \in Producers, SendOpen(p)
    PROVE  Inv'
<1> DEFINE k == request[p][1]
           v == request[p][2]
           c == map[k]
<1>1. /\ k \in Keys /\ v \in Values
      /\ c \in Chans /\ rcv[c] = "live"
      /\ request[p] # <<>>
      /\ queue' = [queue EXCEPT ![c] = Append(@, v)]
      /\ pc' = [pc EXCEPT ![p] = "idle"]
      /\ request' = [request EXCEPT ![p] = <<>>]
      /\ UNCHANGED <<map, rcv, chanKey, offered, handled, lost>>
  BY DEF Inv, SendOpen, TypeOK, IInv, RequestInv, NoEntryLeaks, Closed
<1> HIDE DEF k, v, c
<1>2. /\ queue'[c] \in Seq(Values)
      /\ RangeOf(queue'[c]) = RangeOf(queue[c]) \cup {v}
      /\ \A d \in Chans \ {c} : queue'[d] = queue[d]
  BY <1>1, RangeAppend DEF Inv, TypeOK
<1>3. TypeOK'
  BY <1>1, <1>2 DEF Inv, TypeOK, EnqueueStates
<1>4. (FreeInv /\ KeyInv /\ NoEntryLeaks /\ LiveReceiverMapped /\ FinishedEmpty)'
  BY <1>1, <1>2
     DEF Inv, IInv, FreeInv, KeyInv, NoEntryLeaks, LiveReceiverMapped, FinishedEmpty
<1>5. RequestInv'
  BY <1>1 DEF Inv, IInv, RequestInv, TypeOK
<1>6. Accounted'
  <2> SUFFICES ASSUME NEW w \in offered
               PROVE  (Enqueueing(w) \/ Waiting(w) \/ Received(w) \/ w \in lost)'
    BY <1>1 DEF Accounted
  <2>1. CASE w = v
    BY <1>1, <1>2, <2>1 DEF Waiting
  <2>2. CASE w # v /\ Enqueueing(w)
    <3>1. PICK q \in Producers : request[q] # <<>> /\ request[q][2] = w
      BY <2>2 DEF Enqueueing
    <3> QED
      BY <1>1, <2>2, <3>1 DEF Inv, TypeOK, Enqueueing, v
  <2>3. CASE Waiting(w)
    BY <1>1, <1>2, <2>3 DEF Waiting
  <2> QED
    BY <1>1, <2>1, <2>2, <2>3 DEF Inv, IInv, Accounted, Received
<1> QED
  BY <1>3, <1>4, <1>5, <1>6 DEF Inv, IInv

(* The value stays with its producer.                                      *)
LEMMA EnqueueMoveInv ==
    ASSUME Inv, NEW p \in Producers,
           SendClosed(p) \/ Miss(p)
    PROVE  Inv'
<1>1. /\ pc[p] # "idle" /\ pc'[p] # "idle"
      /\ pc' \in [Producers -> EnqueueStates]
      /\ \A q \in Producers \ {p} : pc'[q] = pc[q]
      /\ UNCHANGED <<map, queue, rcv, chanKey, request, offered, handled, lost>>
  BY DEF Inv, TypeOK, EnqueueStates, SendClosed, Miss
<1>2. TypeOK'
  BY <1>1 DEF Inv, TypeOK
<1>3. (FreeInv /\ KeyInv /\ NoEntryLeaks /\ LiveReceiverMapped /\ FinishedEmpty)'
  BY <1>1
     DEF Inv, IInv, FreeInv, KeyInv, NoEntryLeaks, LiveReceiverMapped, FinishedEmpty
<1>4. RequestInv'
  BY <1>1 DEF Inv, IInv, RequestInv
<1>5. Accounted'
  BY <1>1 DEF Inv, IInv, Accounted, Enqueueing, Waiting, Received
<1> QED
  BY <1>2, <1>3, <1>4, <1>5 DEF Inv, IInv

(* remove_if takes at most one entry, and only one of a closed channel.    *)
LEMMA RemoveIfClosedFacts ==
    ASSUME TypeOK, NEW k \in Keys
    PROVE  /\ RemoveIfClosed(k) \in [Keys -> Chans \cup {NoChan}]
           /\ \A j \in Keys :
                \/ RemoveIfClosed(k)[j] = map[j]
                \/ /\ RemoveIfClosed(k)[j] = NoChan
                   /\ map[j] # NoChan
                   /\ rcv[map[j]] = "closed"
           /\ map[k] # NoChan /\ rcv[map[k]] = "closed"
                => RemoveIfClosed(k)[k] = NoChan
BY DEF RemoveIfClosed, Closed, TypeOK

(* Only an entry that leads to a closed channel goes; a channel in use is  *)
(* not closed, so it stays mapped.                                         *)
LEMMA PurgeInv ==
    ASSUME Inv, NEW p \in Producers, Purge(p)
    PROVE  Inv'
<1>1. /\ pc[p] # "idle" /\ pc'[p] # "idle"
      /\ pc' \in [Producers -> EnqueueStates]
      /\ \A q \in Producers \ {p} : pc'[q] = pc[q]
      /\ UNCHANGED <<queue, rcv, chanKey, request, offered, handled, lost>>
  BY DEF Inv, TypeOK, EnqueueStates, Purge
<1>1a. request[p][1] \in Keys
  BY DEF Inv, TypeOK, IInv, RequestInv, Purge
<1>1b. /\ map' \in [Keys -> Chans \cup {NoChan}]
       /\ \A j \in Keys :
            \/ map'[j] = map[j]
            \/ map'[j] = NoChan /\ map[j] # NoChan /\ rcv[map[j]] = "closed"
  <2> DEFINE k == request[p][1]
  <2>1. k \in Keys /\ map' = RemoveIfClosed(k)
    BY <1>1a DEF Purge
  <2> HIDE DEF k
  <2> QED
    BY <2>1, RemoveIfClosedFacts DEF Inv
<1>2. TypeOK'
  BY <1>1, <1>1b DEF Inv, TypeOK
<1>3. (FreeInv /\ KeyInv /\ FinishedEmpty)'
  BY <1>1 DEF Inv, IInv, FreeInv, KeyInv, FinishedEmpty
<1>4. NoEntryLeaks'
  BY <1>1, <1>1b DEF Inv, IInv, NoEntryLeaks
<1>5. LiveReceiverMapped'
  BY <1>1, <1>1b DEF Inv, IInv, LiveReceiverMapped, KeyInv
<1>6. RequestInv'
  BY <1>1 DEF Inv, IInv, RequestInv
<1>7. Accounted'
  BY <1>1 DEF Inv, IInv, Accounted, Enqueueing, Waiting, Received
<1> QED
  BY <1>2, <1>3, <1>4, <1>5, <1>6, <1>7 DEF Inv, IInv

(* The value moves from its producer to a new channel.                     *)
LEMMA CreateInv ==
    ASSUME Inv, NEW p \in Producers, Create(p)
    PROVE  Inv'
<1> DEFINE k == request[p][1]
           v == request[p][2]
<1>1. PICK c \in Chans :
        /\ rcv[c] = "free"
        /\ map' = [map EXCEPT ![k] = c]
        /\ queue' = [queue EXCEPT ![c] = <<v>>]
        /\ rcv' = [rcv EXCEPT ![c] = "live"]
        /\ chanKey' = [chanKey EXCEPT ![c] = k]
  BY DEF Create
<1>2. /\ k \in Keys /\ v \in Values
      /\ request[p] # <<>>
      /\ map[k] = NoChan
      /\ pc' = [pc EXCEPT ![p] = "idle"]
      /\ request' = [request EXCEPT ![p] = <<>>]
      /\ UNCHANGED <<offered, handled, lost>>
  BY DEF Inv, Create, TypeOK, IInv, RequestInv
<1> HIDE DEF k, v
<1>3. TypeOK'
  BY <1>1, <1>2 DEF Inv, TypeOK, RcvStates, EnqueueStates
<1>4. (FreeInv /\ KeyInv /\ FinishedEmpty)'
  BY <1>1, <1>2 DEF Inv, TypeOK, IInv, FreeInv, KeyInv, FinishedEmpty
<1>5. NoEntryLeaks'
  BY <1>1, <1>2, NoChanAssumption DEF Inv, TypeOK, IInv, NoEntryLeaks
<1>6. LiveReceiverMapped'
  BY <1>1, <1>2, NoChanAssumption
     DEF Inv, TypeOK, IInv, LiveReceiverMapped, KeyInv, NoEntryLeaks
<1>7. RequestInv'
  BY <1>2 DEF Inv, IInv, RequestInv, TypeOK
<1>8. Accounted'
  <2> SUFFICES ASSUME NEW w \in offered
               PROVE  (Enqueueing(w) \/ Waiting(w) \/ Received(w) \/ w \in lost)'
    BY <1>2 DEF Accounted
  <2>1. CASE w = v
    <3>1. queue'[c] = <<v>> /\ rcv'[c] = "live"
      BY <1>1 DEF Inv, TypeOK
    <3>2. v \in RangeOf(<<v>>)
      BY DEF RangeOf
    <3> QED
      BY <2>1, <3>1, <3>2 DEF Waiting
  <2>2. CASE w # v /\ Enqueueing(w)
    <3>1. PICK q \in Producers : request[q] # <<>> /\ request[q][2] = w
      BY <2>2 DEF Enqueueing
    <3> QED
      BY <1>2, <2>2, <3>1 DEF Inv, TypeOK, Enqueueing, v
  <2>3. CASE Waiting(w)
    BY <1>1, <2>3 DEF Inv, TypeOK, Waiting
  <2> QED
    BY <1>2, <2>1, <2>2, <2>3 DEF Inv, IInv, Accounted, Received
<1> QED
  BY <1>3, <1>4, <1>5, <1>6, <1>7, <1>8 DEF Inv, IInv

(* Values move from the queue to the client.                               *)
LEMMA TakeInv ==
    ASSUME Inv, NEW c \in Chans, NEW n \in Nat,
           1 <= n, n <= Len(queue[c]), Take(c, n)
    PROVE  Inv'
<1> DEFINE k == chanKey[c]
           a == SubSeq(queue[c], 1, n)
           b == SubSeq(queue[c], n + 1, Len(queue[c]))
<1>1. /\ rcv[c] = "live"
      /\ k \in Keys
      /\ handled' = [handled EXCEPT ![k] = @ \o a]
      /\ queue' = [queue EXCEPT ![c] = b]
      /\ UNCHANGED <<map, rcv, chanKey, pc, request, offered, lost>>
  BY DEF Take, Inv, IInv, KeyInv
<1>2. /\ a \in Seq(Values) /\ b \in Seq(Values)
      /\ RangeOf(queue[c]) = RangeOf(a) \cup RangeOf(b)
  BY RangeSplit DEF Inv, TypeOK
<1> HIDE DEF k, a, b
<1>3. /\ handled[k] \o a \in Seq(Values)
      /\ RangeOf(handled[k] \o a) = RangeOf(handled[k]) \cup RangeOf(a)
  BY <1>1, <1>2, RangeConcat DEF Inv, TypeOK
<1>4. TypeOK'
  BY <1>1, <1>2, <1>3 DEF Inv, TypeOK
<1>5. (FreeInv /\ KeyInv /\ NoEntryLeaks /\ LiveReceiverMapped /\ FinishedEmpty)'
  BY <1>1
     DEF Inv, TypeOK, IInv, FreeInv, KeyInv, NoEntryLeaks, LiveReceiverMapped,
         FinishedEmpty
<1>6. RequestInv'
  BY <1>1 DEF Inv, IInv, RequestInv
<1>7. Accounted'
  <2> SUFFICES ASSUME NEW w \in offered
               PROVE  (Enqueueing(w) \/ Waiting(w) \/ Received(w) \/ w \in lost)'
    BY <1>1 DEF Accounted
  <2>1. CASE Waiting(w)
    <3>1. PICK d \in Chans : rcv[d] = "live" /\ w \in RangeOf(queue[d])
      BY <2>1 DEF Waiting
    <3>2. CASE d # c \/ w \in RangeOf(b)
      <4>1. w \in RangeOf(queue'[d])
        BY <1>1, <3>1, <3>2 DEF Inv, TypeOK
      <4> QED
        BY <1>1, <3>1, <4>1 DEF Waiting
    <3>3. CASE d = c /\ w \in RangeOf(a)
      <4>1. w \in RangeOf(handled'[k])
        BY <1>1, <1>3, <3>3 DEF Inv, TypeOK
      <4> QED
        BY <1>1, <4>1 DEF Received
    <3> QED
      BY <1>2, <3>1, <3>2, <3>3
  <2>2. CASE Received(w)
    <3>1. PICK j \in Keys : w \in RangeOf(handled[j])
      BY <2>2 DEF Received
    <3>2. w \in RangeOf(handled'[j])
      BY <1>1, <1>3, <3>1 DEF Inv, TypeOK
    <3> QED
      BY <3>2 DEF Received
  <2> QED
    BY <1>1, <2>1, <2>2 DEF Inv, IInv, Accounted, Enqueueing
<1> QED
  BY <1>4, <1>5, <1>6, <1>7 DEF Inv, IInv

(* The receiver leaves the map with nothing in its queue.                  *)
LEMMA TryFinishInv ==
    ASSUME Inv, NEW c \in Chans, TryFinish(c)
    PROVE  Inv'
<1> DEFINE k == chanKey[c]
<1>1. /\ rcv[c] = "live"
      /\ queue[c] = <<>>
      /\ k \in Keys
      /\ map[k] = c
      /\ map' = [map EXCEPT ![k] = NoChan]
      /\ rcv' = [rcv EXCEPT ![c] = "finishing"]
      /\ UNCHANGED <<queue, chanKey, pc, request, offered, handled, lost>>
  BY DEF TryFinish, MayFinish, Inv, IInv, KeyInv, LiveReceiverMapped
<1> HIDE DEF k
<1>2. TypeOK'
  BY <1>1 DEF Inv, TypeOK, RcvStates
<1>3. (FreeInv /\ KeyInv /\ FinishedEmpty)'
  BY <1>1 DEF Inv, TypeOK, IInv, FreeInv, KeyInv, FinishedEmpty
<1>4. NoEntryLeaks'
  BY <1>1 DEF Inv, TypeOK, IInv, NoEntryLeaks
<1>5. LiveReceiverMapped'
  BY <1>1 DEF Inv, TypeOK, IInv, LiveReceiverMapped, KeyInv
<1>6. RequestInv'
  BY <1>1 DEF Inv, IInv, RequestInv
<1>7. Accounted'
  <2>1. RangeOf(<<>>) = {}
    BY DEF RangeOf
  <2> QED
    BY <1>1, <2>1
       DEF Inv, TypeOK, IInv, Accounted, Enqueueing, Waiting, Received
<1> QED
  BY <1>2, <1>3, <1>4, <1>5, <1>6, <1>7 DEF Inv, IInv

(* A finishing receiver is out of the map and empty: its channel goes.     *)
LEMMA FinishCloseInv ==
    ASSUME Inv, NEW c \in Chans, FinishClose(c)
    PROVE  Inv'
<1>1. /\ rcv[c] = "finishing"
      /\ rcv' = [rcv EXCEPT ![c] = "free"]
      /\ chanKey' = [chanKey EXCEPT ![c] = NoKey]
      /\ queue' = [queue EXCEPT ![c] = <<>>]
      /\ UNCHANGED <<map, pc, request, offered, handled, lost>>
  BY DEF FinishClose, Release
<1>2. TypeOK'
  BY <1>1 DEF Inv, TypeOK, RcvStates
<1>3. (FreeInv /\ KeyInv /\ NoEntryLeaks /\ LiveReceiverMapped /\ FinishedEmpty)'
  BY <1>1
     DEF Inv, TypeOK, IInv, FreeInv, KeyInv, NoEntryLeaks, LiveReceiverMapped,
         FinishedEmpty
<1>4. RequestInv'
  BY <1>1 DEF Inv, IInv, RequestInv
<1>5. Accounted'
  BY <1>1 DEF Inv, TypeOK, IInv, Accounted, Enqueueing, Waiting, Received
<1> QED
  BY <1>2, <1>3, <1>4, <1>5 DEF Inv, IInv

(* What waited for the dropped receiver is lost.                           *)
LEMMA DropCloseInv ==
    ASSUME Inv, NEW c \in Chans, DropClose(c)
    PROVE  Inv'
<1>1. /\ rcv[c] = "live"
      /\ rcv' = [rcv EXCEPT ![c] = "closed"]
      /\ lost' = lost \cup RangeOf(queue[c])
      /\ UNCHANGED <<map, queue, chanKey, pc, request, offered, handled>>
  BY DEF DropClose
<1>2. RangeOf(queue[c]) \subseteq Values
  BY DEF Inv, TypeOK, RangeOf
<1>3. TypeOK'
  BY <1>1, <1>2 DEF Inv, TypeOK, RcvStates
<1>4. (FreeInv /\ KeyInv /\ NoEntryLeaks /\ LiveReceiverMapped /\ FinishedEmpty)'
  BY <1>1
     DEF Inv, TypeOK, IInv, FreeInv, KeyInv, NoEntryLeaks, LiveReceiverMapped,
         FinishedEmpty
<1>5. RequestInv'
  BY <1>1 DEF Inv, IInv, RequestInv
<1>6. Accounted'
  BY <1>1 DEF Inv, TypeOK, IInv, Accounted, Enqueueing, Waiting, Received
<1> QED
  BY <1>3, <1>4, <1>5, <1>6 DEF Inv, IInv

(* The closed channel is taken out of the map if it is still there, and a  *)
(* live one that took its place is not.                                    *)
LEMMA DropRemoveInv ==
    ASSUME Inv, NEW c \in Chans, DropRemove(c)
    PROVE  Inv'
<1>1. /\ rcv[c] = "closed"
      /\ chanKey[c] \in Keys
      /\ map' = RemoveIfClosed(chanKey[c])
      /\ rcv' = [rcv EXCEPT ![c] = "free"]
      /\ chanKey' = [chanKey EXCEPT ![c] = NoKey]
      /\ queue' = [queue EXCEPT ![c] = <<>>]
      /\ UNCHANGED <<pc, request, offered, handled, lost>>
  BY DEF DropRemove, Release, Inv, IInv, KeyInv
<1>2. /\ map' \in [Keys -> Chans \cup {NoChan}]
      /\ \A j \in Keys :
            \/ map'[j] = map[j]
            \/ map'[j] = NoChan /\ map[j] # NoChan /\ rcv[map[j]] = "closed"
      /\ map[chanKey[c]] = c => map'[chanKey[c]] = NoChan
  BY <1>1, RemoveIfClosedFacts, NoChanAssumption DEF Inv
<1>3. TypeOK'
  BY <1>1, <1>2 DEF Inv, TypeOK, RcvStates
<1>4. (FreeInv /\ KeyInv /\ FinishedEmpty)'
  BY <1>1 DEF Inv, TypeOK, IInv, FreeInv, KeyInv, FinishedEmpty
<1>5. NoEntryLeaks'
  BY <1>1, <1>2, NoChanAssumption DEF Inv, TypeOK, IInv, NoEntryLeaks
<1>6. LiveReceiverMapped'
  BY <1>1, <1>2 DEF Inv, TypeOK, IInv, LiveReceiverMapped, KeyInv
<1>7. RequestInv'
  BY <1>1 DEF Inv, IInv, RequestInv
<1>8. Accounted'
  BY <1>1 DEF Inv, TypeOK, IInv, Accounted, Enqueueing, Waiting, Received
<1> QED
  BY <1>3, <1>4, <1>5, <1>6, <1>7, <1>8 DEF Inv, IInv

-----------------------------------------------------------------------------
(* The invariant and what follows from it.                                 *)

(* Every step of producers and receivers preserves it.                     *)
LEMMA StepInv == Inv /\ [Next]_vars => Inv'
<1> SUFFICES ASSUME Inv, [Next]_vars PROVE Inv'
  OBVIOUS
<1>1. ASSUME NEW p \in Producers, NEW k \in Keys, NEW v \in Values,
             Call(p, k, v)
      PROVE  Inv'
  BY <1>1, CallInv
<1>2. ASSUME NEW p \in Producers, EnqueueStep(p)
      PROVE  Inv'
  BY <1>2, SendOpenInv, EnqueueMoveInv, PurgeInv, CreateInv DEF EnqueueStep
<1>3. ASSUME NEW c \in Chans, Recv(c) \/ RecvMany(c)
      PROVE  Inv'
  <2>1. queue[c] \in Seq(Values) /\ queue[c] # <<>> /\ Len(queue[c]) \in Nat
    BY <1>3 DEF Recv, RecvMany, Take, Inv, TypeOK
  <2>2. 1 <= Len(queue[c])
    BY <2>1
  <2>3. CASE Recv(c)
    BY <2>1, <2>2, <2>3, TakeInv DEF Recv
  <2>4. CASE RecvMany(c)
    <3>1. /\ BatchSize(queue[c]) \in Nat
          /\ 1 <= BatchSize(queue[c])
          /\ BatchSize(queue[c]) <= Len(queue[c])
      BY <2>1, BatchSizeBounds
    <3> QED
      BY <2>4, <3>1, TakeInv DEF RecvMany
  <2> QED
    BY <1>3, <2>3, <2>4
<1>4. ASSUME NEW c \in Chans, ReceiverStep(c)
      PROVE  Inv'
  BY <1>3, <1>4, TryFinishInv, FinishCloseInv, DropCloseInv, DropRemoveInv
     DEF ReceiverStep
<1>5. CASE UNCHANGED vars
  BY <1>5
     DEF vars, Inv, TypeOK, IInv, FreeInv, KeyInv, NoEntryLeaks, RequestInv,
         LiveReceiverMapped, FinishedEmpty, Accounted, Enqueueing, Waiting,
         Received
<1> QED
  BY <1>1, <1>2, <1>4, <1>5 DEF Next

(* Every variable keeps its type.                                          *)
THEOREM TypeCorrect == Spec => []TypeOK
<1>1. Inv => TypeOK
  BY DEF Inv
<1> QED
  BY <1>1, InitInv, StepInv, PTL DEF Spec

(* The inductive invariant holds.                                          *)
THEOREM Invariance == Spec => []IInv
<1>1. Inv => IInv
  BY DEF Inv
<1> QED
  BY <1>1, InitInv, StepInv, PTL DEF Spec

(* At most one receiver serves a key (queue_map.rs:9): two live receivers  *)
(* of one key would both be what the map has under it.                     *)
THEOREM AtMostOneReceiver == Spec => []SingleReceiver
<1>1. Inv => SingleReceiver
  BY DEF Inv, IInv, LiveReceiverMapped, SingleReceiver
<1> QED
  BY <1>1, InitInv, StepInv, PTL DEF Spec

(* The expect of recv (queue_map.rs:183) cannot fail: a receiver in use    *)
(* has its sender in the map.                                              *)
THEOREM ReceiverKeepsSender == Spec => []LiveReceiverMapped
<1>1. Inv => LiveReceiverMapped
  BY DEF Inv, IInv
<1> QED
  BY <1>1, InitInv, StepInv, PTL DEF Spec

(* No entry of the map outlives its receiver, and every entry leads to one *)
(* of its own key (queue_map.rs:199-209).                                  *)
THEOREM NoEntryOutlivesReceiver == Spec => []NoEntryLeaks
<1>1. Inv => NoEntryLeaks
  BY DEF Inv, IInv
<1> QED
  BY <1>1, InitInv, StepInv, PTL DEF Spec

(* The race logged at queue_map.rs:158-161 does not occur.                 *)
THEOREM NoFinishRace == Spec => []FinishedEmpty
<1>1. Inv => FinishedEmpty
  BY DEF Inv, IInv
<1> QED
  BY <1>1, InitInv, StepInv, PTL DEF Spec

(* No enqueued value is ever out of sight (queue_map.rs:32, 64-66).        *)
THEOREM NothingStranded == Spec => []Accounted
<1>1. Inv => Accounted
  BY DEF Inv, IInv
<1> QED
  BY <1>1, InitInv, StepInv, PTL DEF Spec

-----------------------------------------------------------------------------
(* QueueMap implements KeyedQueue.                                         *)

(* A key with a live receiver is owned and its pending values are the ones *)
(* in the channel of the receiver; any other key is not owned.             *)
LEMMA OwnedFacts ==
    ASSUME Inv, NEW c \in Chans, rcv[c] = "live"
    PROVE  /\ chanKey[c] \in Keys
           /\ map[chanKey[c]] = c
           /\ LiveAt(chanKey[c])
           /\ ownedBar[chanKey[c]]
           /\ pendingBar[chanKey[c]] = queue[c]
           /\ \A k \in Keys : map[k] = c => k = chanKey[c]
BY NoChanAssumption, ZenonT(60)
   DEF Inv, IInv, KeyInv, LiveReceiverMapped, NoEntryLeaks, LiveAt, ownedBar, pendingBar

(* A step after which each key has the owner and the queue it had before   *)
(* is one that KeyedQueue does not see.                                    *)
LEMMA Unseen ==
    ASSUME \A k \in Keys :
              /\ LiveAt(k)' = LiveAt(k)
              /\ LiveAt(k) => queue'[map'[k]] = queue[map[k]],
           UNCHANGED <<request, handled, lost>>
    PROVE  UNCHANGED KQ!vars
<1>1. ownedBar' = ownedBar
  BY DEF ownedBar
<1>2. pendingBar' = pendingBar
  BY DEF pendingBar
<1> QED
  BY <1>1, <1>2 DEF KQ!vars

(* An empty map is an empty KeyedQueue.                                    *)
LEMMA InitRefines == Init => KQ!Init
<1> SUFFICES ASSUME Init PROVE KQ!Init
  OBVIOUS
<1>1. \A k \in Keys : LiveAt(k) = FALSE
  BY DEF Init, LiveAt
<1>2. ownedBar = [k \in Keys |-> FALSE]
  BY <1>1 DEF ownedBar
<1>3. pendingBar = [k \in Keys |-> <<>>]
  BY <1>1, Zenon DEF pendingBar
<1> QED
  BY <1>2, <1>3 DEF Init, KQ!Init

(* Accepting a value: its key is owned from then on, and the value is the  *)
(* last of those that wait.                                                *)
LEMMA CommitRefines ==
    ASSUME Inv, NEW p \in Producers, NEW c \in Chans,
           NEW k \in Keys, NEW v \in Values,
           request[p] = <<k, v>>,
           request' = [request EXCEPT ![p] = <<>>],
           map'[k] = c,
           rcv'[c] = "live",
           queue'[c] = Append(pendingBar[k], v),
           \A j \in Keys \ {k} :
              /\ map'[j] = map[j]
              /\ map[j] # NoChan => /\ rcv'[map[j]] = rcv[map[j]]
                                    /\ queue'[map[j]] = queue[map[j]],
           UNCHANGED <<handled, lost>>
    PROVE  KQ!Commit(p, k, v)
<1>1. /\ LiveAt(k)' = TRUE
      /\ \A j \in Keys \ {k} : LiveAt(j)' = LiveAt(j)
  BY NoChanAssumption DEF LiveAt
<1>2. ownedBar' = [ownedBar EXCEPT ![k] = TRUE]
  BY <1>1 DEF ownedBar
<1>3. pendingBar' = [pendingBar EXCEPT ![k] = Append(@, v)]
  <2>1. pendingBar'[k] = Append(pendingBar[k], v)
    BY <1>1 DEF pendingBar
  <2>2. \A j \in Keys \ {k} : pendingBar'[j] = pendingBar[j]
    BY <1>1 DEF pendingBar, LiveAt
  <2> QED
    BY <2>1, <2>2 DEF pendingBar
<1> QED
  BY <1>2, <1>3 DEF KQ!Commit

(* A value sent to an open channel is committed.                           *)
LEMMA SendOpenRefines ==
    ASSUME Inv, NEW p \in Producers, SendOpen(p)
    PROVE  \E k \in Keys, v \in Values : KQ!Commit(p, k, v)
<1> DEFINE k == request[p][1]
           v == request[p][2]
           c == map[k]
<1>1. /\ k \in Keys /\ v \in Values
      /\ request[p] = <<k, v>>
      /\ c \in Chans /\ rcv[c] = "live" /\ chanKey[c] = k
      /\ queue' = [queue EXCEPT ![c] = Append(@, v)]
      /\ request' = [request EXCEPT ![p] = <<>>]
      /\ UNCHANGED <<map, rcv, chanKey, handled, lost>>
  BY DEF Inv, SendOpen, TypeOK, IInv, RequestInv, NoEntryLeaks, Closed
<1> HIDE DEF k, v, c
<1>2. map[k] = c
  BY DEF c
<1>3. queue'[c] = Append(pendingBar[k], v)
  BY <1>1, OwnedFacts DEF Inv, TypeOK
<1>4. \A j \in Keys \ {k} : map[j] # NoChan => queue'[map[j]] = queue[map[j]]
  BY <1>1 DEF Inv, TypeOK, IInv, NoEntryLeaks
<1>5. KQ!Commit(p, k, v)
  BY <1>1, <1>2, <1>3, <1>4, CommitRefines
<1> QED
  BY <1>1, <1>5

(* So is one sent to a channel that was just made for its key.             *)
LEMMA CreateRefines ==
    ASSUME Inv, NEW p \in Producers, Create(p)
    PROVE  \E k \in Keys, v \in Values : KQ!Commit(p, k, v)
<1> DEFINE k == request[p][1]
           v == request[p][2]
<1>1. PICK c \in Chans :
        /\ rcv[c] = "free"
        /\ map' = [map EXCEPT ![k] = c]
        /\ queue' = [queue EXCEPT ![c] = <<v>>]
        /\ rcv' = [rcv EXCEPT ![c] = "live"]
  BY DEF Create
<1>2. /\ k \in Keys /\ v \in Values
      /\ request[p] = <<k, v>>
      /\ map[k] = NoChan
      /\ request' = [request EXCEPT ![p] = <<>>]
      /\ UNCHANGED <<handled, lost>>
  BY DEF Inv, Create, TypeOK, IInv, RequestInv
<1> HIDE DEF k, v
<1>3. map'[k] = c /\ rcv'[c] = "live" /\ queue'[c] = <<v>>
  BY <1>1, <1>2 DEF Inv, TypeOK
<1>4. pendingBar[k] = <<>>
  BY <1>2 DEF pendingBar, LiveAt
<1>5. \A j \in Keys \ {k} :
         /\ map'[j] = map[j]
         /\ map[j] # NoChan => /\ rcv'[map[j]] = rcv[map[j]]
                               /\ queue'[map[j]] = queue[map[j]]
  BY <1>1, <1>2 DEF Inv, TypeOK, IInv, NoEntryLeaks
<1>6. Append(<<>>, v) = <<v>>
  OBVIOUS
<1>7. KQ!Commit(p, k, v)
  BY <1>2, <1>3, <1>4, <1>5, <1>6, CommitRefines
<1> QED
  BY <1>2, <1>7

(* Receiving takes the oldest values of an owned key.                      *)
LEMMA TakeRefines ==
    ASSUME Inv, NEW c \in Chans, NEW n \in Nat,
           1 <= n, n <= Len(queue[c]), Take(c, n)
    PROVE  \E k \in Keys : \E m \in 1 .. Len(pendingBar[k]) : KQ!Deliver(k, m)
<1> DEFINE k == chanKey[c]
<1>1. /\ rcv[c] = "live"
      /\ handled' = [handled EXCEPT ![k] = @ \o SubSeq(queue[c], 1, n)]
      /\ queue' = [queue EXCEPT ![c] = SubSeq(@, n + 1, Len(@))]
      /\ UNCHANGED <<map, rcv, request, lost>>
  BY DEF Take
<1>2. /\ k \in Keys /\ map[k] = c
      /\ LiveAt(k) /\ ownedBar[k] /\ pendingBar[k] = queue[c]
      /\ \A j \in Keys : map[j] = c => j = k
  BY <1>1, OwnedFacts
<1> HIDE DEF k
<1>3. ownedBar' = ownedBar
  BY <1>1 DEF ownedBar, LiveAt
<1>4. pendingBar' = [pendingBar EXCEPT ![k] = SubSeq(@, n + 1, Len(@))]
  <2>1. pendingBar'[k] = SubSeq(queue[c], n + 1, Len(queue[c]))
    BY <1>1, <1>2 DEF pendingBar, LiveAt, Inv, TypeOK
  <2>2. \A j \in Keys \ {k} : pendingBar'[j] = pendingBar[j]
    BY <1>1, <1>2 DEF pendingBar, LiveAt, Inv, TypeOK
  <2> QED
    BY <1>2, <2>1, <2>2 DEF pendingBar
<1>5. n \in 1 .. Len(pendingBar[k])
  BY <1>2 DEF Inv, TypeOK
<1>6. KQ!Deliver(k, n)
  BY <1>1, <1>2, <1>3, <1>4 DEF KQ!Deliver
<1> QED
  BY <1>2, <1>5, <1>6

(* A receiver that takes its empty entry out of the map finishes.          *)
LEMMA TryFinishRefines ==
    ASSUME Inv, NEW c \in Chans, TryFinish(c)
    PROVE  \E k \in Keys : KQ!Finish(k)
<1>1. /\ rcv[c] = "live" /\ queue[c] = <<>>
      /\ map' = [map EXCEPT ![chanKey[c]] = NoChan]
      /\ rcv' = [rcv EXCEPT ![c] = "finishing"]
      /\ UNCHANGED <<queue, request, handled, lost>>
  BY DEF TryFinish, MayFinish
<1>2. PICK k \in Keys :
        /\ k = chanKey[c] /\ map[k] = c
        /\ ownedBar[k] /\ pendingBar[k] = queue[c]
        /\ \A j \in Keys : map[j] = c => j = k
  BY <1>1, OwnedFacts
<1>3. /\ LiveAt(k)' = FALSE
      /\ \A j \in Keys \ {k} :
            LiveAt(j)' = LiveAt(j) /\ map'[j] = map[j]
  BY <1>1, <1>2 DEF LiveAt, Inv, TypeOK
<1>4. ownedBar' = [ownedBar EXCEPT ![k] = FALSE]
  BY <1>3 DEF ownedBar
<1>5. pendingBar' = pendingBar
  <2>1. pendingBar'[k] = pendingBar[k]
    BY <1>1, <1>2, <1>3 DEF pendingBar
  <2>2. \A j \in Keys \ {k} : pendingBar'[j] = pendingBar[j]
    BY <1>1, <1>3 DEF pendingBar
  <2> QED
    BY <2>1, <2>2 DEF pendingBar
<1>6. KQ!Finish(k)
  BY <1>1, <1>2, <1>4, <1>5 DEF KQ!Finish
<1> QED
  BY <1>2, <1>6

(* A receiver that closes its channel abandons what is in it.              *)
LEMMA DropCloseRefines ==
    ASSUME Inv, NEW c \in Chans, DropClose(c)
    PROVE  \E k \in Keys : KQ!Abandon(k)
<1>1. /\ rcv[c] = "live"
      /\ rcv' = [rcv EXCEPT ![c] = "closed"]
      /\ lost' = lost \cup RangeOf(queue[c])
      /\ UNCHANGED <<map, queue, request, handled>>
  BY DEF DropClose
<1>2. PICK k \in Keys :
        /\ k = chanKey[c] /\ map[k] = c
        /\ ownedBar[k] /\ pendingBar[k] = queue[c]
        /\ \A j \in Keys : map[j] = c => j = k
  BY <1>1, OwnedFacts
<1>3. /\ LiveAt(k)' = FALSE
      /\ \A j \in Keys \ {k} : LiveAt(j)' = LiveAt(j)
  BY <1>1, <1>2 DEF LiveAt, Inv, TypeOK
<1>4. ownedBar' = [ownedBar EXCEPT ![k] = FALSE]
  BY <1>3 DEF ownedBar
<1>5. pendingBar' = [pendingBar EXCEPT ![k] = <<>>]
  <2>1. pendingBar'[k] = <<>>
    BY <1>2, <1>3 DEF pendingBar
  <2>2. \A j \in Keys \ {k} : pendingBar'[j] = pendingBar[j]
    BY <1>1, <1>3 DEF pendingBar
  <2> QED
    BY <2>1, <2>2 DEF pendingBar
<1>6. lost' = lost \cup KQ!RangeOf(pendingBar[k])
  BY <1>1, <1>2 DEF RangeOf, KQ!RangeOf
<1>7. KQ!Abandon(k)
  BY <1>1, <1>2, <1>4, <1>5, <1>6 DEF KQ!Abandon
<1> QED
  BY <1>2, <1>7

(* A key with a live receiver keeps it, and keeps its values, through the  *)
(* steps of an enqueuer before its send takes effect, and through the end  *)
(* of a receiver that is no longer live.                                   *)
LEMMA PreliminaryUnseen ==
    ASSUME Inv, NEW p \in Producers, SendClosed(p) \/ Purge(p) \/ Miss(p)
    PROVE  UNCHANGED KQ!vars
<1>1. CASE SendClosed(p) \/ Miss(p)
  <2>1. UNCHANGED <<map, queue, rcv, request, handled, lost>>
    BY <1>1 DEF SendClosed, Miss
  <2> QED
    BY <2>1, Unseen DEF LiveAt
<1>2. CASE Purge(p)
  <2>1. PICK k \in Keys : map' = RemoveIfClosed(k)
    BY <1>2 DEF Purge, Inv, TypeOK, IInv, RequestInv
  <2>2. UNCHANGED <<queue, rcv, request, handled, lost>>
    BY <1>2 DEF Purge
  <2>3. \A j \in Keys : /\ LiveAt(j)' = LiveAt(j)
                        /\ LiveAt(j) => map'[j] = map[j]
    BY <2>1, <2>2, RemoveIfClosedFacts DEF LiveAt, Inv
  <2> QED
    BY <2>2, <2>3, Unseen
<1> QED
  BY <1>1, <1>2

(* What is left to do after either cannot be seen from outside.            *)
LEMMA ReleaseUnseen ==
    ASSUME Inv, NEW c \in Chans, FinishClose(c) \/ DropRemove(c)
    PROVE  UNCHANGED KQ!vars
<1>1. /\ rcv[c] \in {"finishing", "closed"}
      /\ rcv' = [rcv EXCEPT ![c] = "free"]
      /\ queue' = [queue EXCEPT ![c] = <<>>]
      /\ chanKey[c] \in Keys
      /\ map' \in {map, RemoveIfClosed(chanKey[c])}
      /\ UNCHANGED <<request, handled, lost>>
  BY DEF FinishClose, DropRemove, Release, Inv, IInv, KeyInv
<1>2. \A j \in Keys : \/ map'[j] = map[j]
                      \/ /\ map'[j] = NoChan
                         /\ map[j] # NoChan
                         /\ rcv[map[j]] = "closed"
  BY <1>1, RemoveIfClosedFacts DEF Inv
<1>3. \A j \in Keys : /\ LiveAt(j)' = LiveAt(j)
                      /\ LiveAt(j) => /\ map'[j] = map[j]
                                      /\ map[j] # c
  BY <1>1, <1>2 DEF LiveAt, Inv, TypeOK
<1>4. \A j \in Keys : LiveAt(j) => queue'[map'[j]] = queue[map[j]]
  BY <1>1, <1>3 DEF LiveAt, Inv, TypeOK
<1> QED
  BY <1>1, <1>3, <1>4, Unseen

(* A call of enqueue is one.                                               *)
LEMMA CallRefines ==
    ASSUME NEW p \in Producers, NEW k \in Keys, NEW v \in Values,
           Inv, Call(p, k, v)
    PROVE  KQ!Call(p, k, v)
<1>1. /\ request[p] = <<>>
      /\ request' = [request EXCEPT ![p] = <<k, v>>]
      /\ UNCHANGED <<map, queue, rcv, handled, lost>>
  BY DEF Call, Inv, IInv, RequestInv
<1>2. ownedBar' = ownedBar /\ pendingBar' = pendingBar
  BY <1>1 DEF ownedBar, pendingBar, LiveAt
<1> QED
  BY <1>1, <1>2 DEF KQ!Call

(* Every step of QueueMap is one of KeyedQueue or leaves it unchanged.     *)
LEMMA StepRefines == Inv /\ [Next]_vars => [KQ!Next]_KQ!vars
<1> SUFFICES ASSUME Inv, [Next]_vars PROVE [KQ!Next]_KQ!vars
  OBVIOUS
<1>1. ASSUME NEW p \in Producers, NEW k \in Keys, NEW v \in Values,
             Call(p, k, v)
      PROVE  KQ!Next
  BY <1>1, CallRefines DEF KQ!Next
<1>2. ASSUME NEW p \in Producers, SendOpen(p) \/ Create(p)
      PROVE  KQ!Next
  BY <1>2, SendOpenRefines, CreateRefines DEF KQ!Next
<1>3. ASSUME NEW p \in Producers, SendClosed(p) \/ Purge(p) \/ Miss(p)
      PROVE  UNCHANGED KQ!vars
  BY <1>3, PreliminaryUnseen
<1>4. ASSUME NEW c \in Chans, Recv(c) \/ RecvMany(c)
      PROVE  KQ!Next
  <2>1. PICK n \in Nat : 1 <= n /\ n <= Len(queue[c]) /\ Take(c, n)
    <3>1. queue[c] \in Seq(Values) /\ queue[c] # <<>>
      BY <1>4 DEF Recv, RecvMany, Take, Inv, TypeOK
    <3>2. 1 <= Len(queue[c])
      BY <3>1
    <3>3. /\ BatchSize(queue[c]) \in Nat
          /\ 1 <= BatchSize(queue[c])
          /\ BatchSize(queue[c]) <= Len(queue[c])
      BY <3>1, BatchSizeBounds
    <3> QED
      BY <1>4, <3>2, <3>3 DEF Recv, RecvMany
  <2> QED
    BY <2>1, TakeRefines DEF KQ!Next
<1>5. ASSUME NEW c \in Chans, TryFinish(c) \/ DropClose(c)
      PROVE  KQ!Next
  BY <1>5, TryFinishRefines, DropCloseRefines DEF KQ!Next
<1>6. ASSUME NEW c \in Chans, FinishClose(c) \/ DropRemove(c)
      PROVE  UNCHANGED KQ!vars
  BY <1>6, ReleaseUnseen
<1>7. CASE UNCHANGED vars
  BY <1>7, Unseen DEF vars, LiveAt
<1> QED
  BY <1>1, <1>2, <1>3, <1>4, <1>5, <1>6, <1>7
     DEF Next, EnqueueStep, ReceiverStep

(* QueueMap keeps the promise of KeyedQueue: each enqueue takes effect in  *)
(* one step, each key is received in order across its receivers, and only  *)
(* a dropped receiver loses values (queue_map.rs:9-11, 111-124).           *)
THEOREM Refinement == Spec => Implements
<1>1. Inv /\ [Next]_vars => [KQ!Next]_KQ!vars
  BY StepRefines
<1> QED
  BY <1>1, InitInv, InitRefines, StepInv, PTL DEF Spec, Implements, KQ!Spec
=============================================================================
