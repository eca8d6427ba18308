------------------------ MODULE DiscordGatewayProofs -------------------------
(***************************************************************************)
(* Proofs about DiscordGateway for every set of channels, messages and     *)
(* answers and every limit: nothing goes missing without a failure, every  *)
(* session has its messages in the order of the shard, each at most once,  *)
(* no put discards what an earlier one stored, and no message is left      *)
(* between the gateway task and its workers when stop returns.             *)
(*                                                                         *)
(* The inductive invariant follows a message along its way, from the       *)
(* request of the gateway task over the queue and the batch of a worker    *)
(* into a branch and a session: Mine(k) is all that channel k has of them. *)
(* No entry is with two channels, none that was dropped is with any, what  *)
(* is further along was sent earlier, and a branch in use continues the    *)
(* session it was loaded from.                                             *)
(***************************************************************************)
EXTENDS DiscordGateway, SequenceTheorems, TLAPS

(* The elements of a sequence and of what is appended.                     *)
LEMMA RangeAppend ==
    ASSUME NEW S, NEW s \in Seq(S), NEW v \in S
    PROVE  Range(Append(s, v)) = Range(s) \cup {v}
<1>1. <<v>> \in Seq(S) /\ Range(<<v>>) = {v}
  BY DEF Range
<1>2. Range(s \o <<v>>) = Range(s) \cup Range(<<v>>)
  BY <1>1, RangeConcatenation
<1>3. Append(s, v) = s \o <<v>>
  BY AppendIsConcat
<1> QED
  BY <1>1, <1>2, <1>3, Zenon

(* A sequence is cut in two: no element is lost.                           *)
LEMMA RangeSplit ==
    ASSUME NEW S, NEW s \in Seq(S), NEW n \in Nat, n <= Len(s)
    PROVE  Range(s) = Range(SubSeq(s, 1, n)) \cup Range(SubSeq(s, n + 1, Len(s)))
<1> DEFINE a == SubSeq(s, 1, n)
           b == SubSeq(s, n + 1, Len(s))
<1>1. Len(s) \in Nat /\ 1 \in 1 .. Len(s) + 1 /\ n \in 1 - 1 .. Len(s) /\ Len(s) \in n .. Len(s)
  OBVIOUS
<1>2. a \o b = SubSeq(s, 1, Len(s))
  BY <1>1, ConcatAdjacentSubSeq
<1>3. a \in Seq(S) /\ b \in Seq(S)
  OBVIOUS
<1>4. SubSeq(s, 1, Len(s)) = s
  BY SubSeqFull
<1> HIDE DEF a, b
<1>5. a \o b = s
  BY <1>2, <1>4, Zenon
<1>6. Range(a \o b) = Range(a) \cup Range(b)
  BY <1>3, RangeConcatenation
<1> QED
  BY <1>5, <1>6 DEF a, b

(* What channel k has received, and what is being enqueued for it.         *)
Held(k) ==
    RangeOf(stored[k]) \cup RangeOf(branch[k]) \cup RangeOf(batch[k])
        \cup RangeOf(pending[k])
Requested(k) ==
    IF request[Gateway] # <<>> /\ request[Gateway][1] = k
    THEN {request[Gateway][2]} ELSE {}
Mine(k) == Held(k) \cup Requested(k)

HasBranch(k) == worker[k] \in {"ask", "stream", "put"}

(* A worker has a batch only while it loads, and a branch only after that. *)
PlaceInv ==
    \A k \in Channels :
        /\ worker[k] # "load" => batch[k] = <<>>
        /\ ~HasBranch(k) => branch[k] = <<>>

(* A key is owned while a worker serves it; one that waits for values has  *)
(* some.                                                                   *)
OwnerInv ==
    \A k \in Channels :
        /\ owned[k] <=> worker[k] # "none"
        /\ pending[k] # <<>> => owned[k]
        /\ worker[k] = "recv" => pending[k] # <<>>

(* A worker that asks for another turn has one left.                       *)
TurnInv ==
    \A k \in Channels :
        worker[k] = "ask" \/ again[k] => turns[k] < MaxTurns

(* What a channel has was sent in it or said by the model.                 *)
KnownInv ==
    /\ \A k \in Channels :
        /\ Mine(k) \subseteq RangeOf(arrived[k]) \cup said
        /\ Held(k) \cap Requested(k) = {}
    /\ dropped \subseteq Seen \cup said

(* No message is with two channels.                                        *)
DisjointInv ==
    \A j, k \in Channels :
        j # k => /\ Mine(j) \cap Mine(k) = {}
                 /\ RangeOf(arrived[j]) \cap RangeOf(arrived[k]) = {}

(* What was dropped does not come back.                                    *)
DroppedInv == \A k \in Channels : Mine(k) \cap dropped = {}

(* Whatever was sent or said is somewhere.                                 *)
PlacedInv ==
    \A x \in Seen \cup said :
        (\E k \in Channels : x \in Mine(k)) \/ x \in cut \cup dropped

(* Continues, entry by entry, for what was cut by then.                    *)
ContinuesWith(b, a, gone) ==
    \E n \in 0 .. Len(a) :
        /\ Len(a) <= n + Len(b)
        /\ \A i \in 1 .. (Len(a) - n) : b[i] = a[n + i]
        /\ \A i \in 1 .. n : a[i] \in gone

WorkInv ==
    \A k \in Channels : HasBranch(k) => ContinuesWith(branch[k], stored[k], cut)

(* The messages of A were sent before those of B.                          *)
Ahead(k, A, B) == \A x \in A \cap Events, y \in B \cap Events : Before(k, x, y)

InOrder(k, b) ==
    \A i, j \in DOMAIN b :
        i < j /\ b[i] \in Events /\ b[j] \in Events => Before(k, b[i], b[j])

(* What is further along in channel k was sent earlier.                    *)
Ordered(k) ==
    /\ InOrder(k, stored[k])
    /\ InOrder(k, branch[k])
    /\ InOrder(k, batch[k])
    /\ InOrder(k, pending[k])
    /\ Ahead(k, RangeOf(stored[k]) \cup RangeOf(branch[k]),
                RangeOf(batch[k]) \cup RangeOf(pending[k]))
    /\ Ahead(k, RangeOf(batch[k]), RangeOf(pending[k]))
    /\ Ahead(k, Held(k), Requested(k))

OrderInv == \A k \in Channels : Ordered(k)

IInv ==
    /\ PlaceInv /\ OwnerInv /\ TurnInv
    /\ KnownInv /\ DisjointInv /\ DroppedInv /\ PlacedInv
    /\ WorkInv /\ OrderInv

Inv == TypeOK /\ IInv

-----------------------------------------------------------------------------
(* Facts about order and continuation.                                     *)

(* Two names for the same set: the model's and the library's.              *)
LEMMA RangeIsElements == \A s : RangeOf(s) = Range(s)
BY DEF RangeOf, Range

(* The order of two sequences, one after the other.                        *)
LEMMA InOrderConcat ==
    ASSUME NEW k, NEW a \in Seq(Entries), NEW b \in Seq(Entries),
           InOrder(k, a), InOrder(k, b), Ahead(k, RangeOf(a), RangeOf(b))
    PROVE  InOrder(k, a \o b)
<1> DEFINE c == a \o b
<1>1. /\ DOMAIN c = 1 .. (Len(a) + Len(b))
      /\ \A i \in DOMAIN a : c[i] = a[i]
      /\ \A i \in DOMAIN b : c[Len(a) + i] = b[i]
      /\ DOMAIN a = 1 .. Len(a) /\ Len(a) \in Nat
      /\ DOMAIN b = 1 .. Len(b) /\ Len(b) \in Nat
  BY ConcatProperties, LenProperties
<1> HIDE DEF c
<1> SUFFICES ASSUME NEW i \in DOMAIN c, NEW j \in DOMAIN c,
                    i < j, c[i] \in Events, c[j] \in Events
             PROVE  Before(k, c[i], c[j])
  BY DEF InOrder, c
<1>2. CASE j <= Len(a)
  <2>1. i \in DOMAIN a /\ j \in DOMAIN a /\ c[i] = a[i] /\ c[j] = a[j]
    BY <1>1, <1>2
  <2> QED
    BY <2>1 DEF InOrder
<1>3. CASE i > Len(a)
  <2>1. /\ i - Len(a) \in DOMAIN b /\ j - Len(a) \in DOMAIN b
        /\ i - Len(a) < j - Len(a)
        /\ c[i] = b[i - Len(a)] /\ c[j] = b[j - Len(a)]
    BY <1>1, <1>3
  <2> QED
    BY <2>1 DEF InOrder
<1>4. CASE i <= Len(a) /\ j > Len(a)
  <2>1. /\ i \in DOMAIN a /\ c[i] = a[i]
        /\ j - Len(a) \in DOMAIN b /\ c[j] = b[j - Len(a)]
    BY <1>1, <1>4
  <2> QED
    BY <2>1 DEF Ahead, RangeOf
<1> QED
  BY <1>1, <1>2, <1>3, <1>4

(* A queue or branch that is in order, and what is taken from it.          *)
LEMMA InOrderSplit ==
    ASSUME NEW k, NEW s \in Seq(Entries), NEW n \in Nat, n <= Len(s),
           InOrder(k, s)
    PROVE  /\ InOrder(k, SubSeq(s, 1, n))
           /\ InOrder(k, SubSeq(s, n + 1, Len(s)))
           /\ Ahead(k, RangeOf(SubSeq(s, 1, n)), RangeOf(SubSeq(s, n + 1, Len(s))))
<1> DEFINE a == SubSeq(s, 1, n)
           b == SubSeq(s, n + 1, Len(s))
<1>1. /\ DOMAIN a = 1 .. n
      /\ \A i \in 1 .. n : i \in DOMAIN s /\ a[i] = s[i]
  BY SubSeqProperties, LenProperties
<1>2. /\ DOMAIN b = 1 .. (Len(s) - n)
      /\ \A i \in 1 .. (Len(s) - n) : n + i \in DOMAIN s /\ b[i] = s[n + i]
      /\ Len(s) \in Nat
  BY SubSeqProperties, LenProperties
<1> HIDE DEF a, b
<1>3. InOrder(k, a)
  BY <1>1 DEF InOrder
<1>4. InOrder(k, b)
  <2> SUFFICES ASSUME NEW i \in DOMAIN b, NEW j \in DOMAIN b,
                      i < j, b[i] \in Events, b[j] \in Events
               PROVE  Before(k, b[i], b[j])
    BY DEF InOrder
  <2>1. /\ n + i \in DOMAIN s /\ n + j \in DOMAIN s /\ n + i < n + j
        /\ b[i] = s[n + i] /\ b[j] = s[n + j]
    BY <1>2
  <2> QED
    BY <2>1 DEF InOrder
<1>5. Ahead(k, RangeOf(a), RangeOf(b))
  <2> SUFFICES ASSUME NEW i \in DOMAIN a, NEW j \in DOMAIN b,
                      a[i] \in Events, b[j] \in Events
               PROVE  Before(k, a[i], b[j])
    BY DEF Ahead, RangeOf
  <2>1. /\ i \in DOMAIN s /\ n + j \in DOMAIN s /\ i < n + j
        /\ a[i] = s[i] /\ b[j] = s[n + j]
    BY <1>1, <1>2
  <2> QED
    BY <2>1 DEF InOrder
<1> QED
  BY <1>3, <1>4, <1>5 DEF a, b

(* A message that was sent after all those of a sequence, or an answer, at *)
(* its end.                                                                *)
LEMMA InOrderAppend ==
    ASSUME NEW k, NEW s \in Seq(Entries), NEW x \in Entries,
           InOrder(k, s), Ahead(k, RangeOf(s), {x})
    PROVE  InOrder(k, Append(s, x))
<1>1. /\ DOMAIN Append(s, x) = DOMAIN s \cup {Len(s) + 1}
      /\ \A i \in DOMAIN s : Append(s, x)[i] = s[i]
      /\ Append(s, x)[Len(s) + 1] = x
      /\ DOMAIN s = 1 .. Len(s) /\ Len(s) \in Nat
  BY AppendProperties, LenProperties
<1> SUFFICES ASSUME NEW i \in DOMAIN Append(s, x), NEW j \in DOMAIN Append(s, x),
                    i < j, Append(s, x)[i] \in Events, Append(s, x)[j] \in Events
             PROVE  Before(k, Append(s, x)[i], Append(s, x)[j])
  BY DEF InOrder
<1>2. i \in DOMAIN s /\ Append(s, x)[i] = s[i]
  BY <1>1
<1>3. CASE j \in DOMAIN s
  BY <1>1, <1>2, <1>3 DEF InOrder
<1>4. CASE j = Len(s) + 1
  BY <1>1, <1>2, <1>4 DEF Ahead, RangeOf
<1> QED
  BY <1>1, <1>3, <1>4

(* The definition of Continues in the specification.                       *)
LEMMA ContinuesMeans ==
    ASSUME NEW a \in Seq(Entries), NEW b \in Seq(Entries),
           ContinuesWith(b, a, cut)
    PROVE  Continues(b, a)
<1>1. PICK n \in 0 .. Len(a) :
        /\ Len(a) <= n + Len(b)
        /\ \A i \in 1 .. (Len(a) - n) : b[i] = a[n + i]
        /\ \A i \in 1 .. n : a[i] \in cut
  BY DEF ContinuesWith
<1> DEFINE kept == SubSeq(a, n + 1, Len(a))
           gone == SubSeq(a, 1, n)
           begin == SubSeq(b, 1, Len(a) - n)
<1>2. Len(a) \in Nat /\ Len(b) \in Nat /\ n \in Nat /\ n <= Len(a)
  BY <1>1
<1>3. /\ kept \in Seq(Entries)
      /\ Len(kept) = Len(a) - n
      /\ \A i \in 1 .. (Len(a) - n) : kept[i] = a[n + i]
  BY <1>2, SubSeqProperties, LenProperties
<1>4. /\ gone \in Seq(Entries)
      /\ DOMAIN gone = 1 .. n
      /\ \A i \in 1 .. n : gone[i] = a[i]
  BY <1>2, SubSeqProperties, LenProperties
<1>5. Len(a) - n \in Nat /\ Len(a) - n <= Len(b)
  BY <1>1, <1>2
<1>6. /\ begin \in Seq(Entries)
      /\ Len(begin) = Len(a) - n
      /\ \A i \in 1 .. (Len(a) - n) : begin[i] = b[i]
  BY <1>5, SubSeqProperties, LenProperties
<1> HIDE DEF kept, gone, begin
<1>7. begin = kept
  <2>1. \A i \in 1 .. Len(kept) : begin[i] = kept[i]
    BY <1>1, <1>3, <1>6
  <2>2. Len(begin) = Len(kept)
    BY <1>3, <1>6
  <2> QED
    BY <1>3, <1>6, <2>1, <2>2, SMTT(30)
<1>8. RangeOf(gone) \subseteq cut
  BY <1>1, <1>4 DEF RangeOf
<1>9. Len(kept) <= Len(b) /\ SubSeq(b, 1, Len(kept)) = kept
  BY <1>3, <1>5, <1>7 DEF begin
<1> QED
  BY <1>1, <1>8, <1>9 DEF Continues, kept, gone

(* A session continues itself, an answer more continues it, too, and it    *)
(* does not matter what else is cut.                                       *)
LEMMA ContinuesFacts ==
    ASSUME NEW a \in Seq(Entries), NEW gone
    PROVE  /\ ContinuesWith(a, a, gone)
           /\ \A b \in Seq(Entries), x \in Entries :
                 ContinuesWith(b, a, gone) => ContinuesWith(Append(b, x), a, gone)
           /\ \A b \in Seq(Entries) :
                 ContinuesWith(b, a, gone)
                     => RangeOf(a) \subseteq RangeOf(b) \cup gone
<1>1. ContinuesWith(a, a, gone)
  <2>1. 0 \in 0 .. Len(a) /\ Len(a) <= 0 + Len(a)
    OBVIOUS
  <2> QED
    BY <2>1 DEF ContinuesWith
<1>2. ASSUME NEW b \in Seq(Entries), NEW x \in Entries,
             ContinuesWith(b, a, gone)
      PROVE  ContinuesWith(Append(b, x), a, gone)
  <2>1. PICK n \in 0 .. Len(a) :
          /\ Len(a) <= n + Len(b)
          /\ \A i \in 1 .. (Len(a) - n) : b[i] = a[n + i]
          /\ \A i \in 1 .. n : a[i] \in gone
    BY <1>2 DEF ContinuesWith
  <2>2. /\ Len(Append(b, x)) = Len(b) + 1
        /\ \A i \in DOMAIN b : Append(b, x)[i] = b[i]
        /\ DOMAIN b = 1 .. Len(b) /\ Len(b) \in Nat /\ Len(a) \in Nat
    BY AppendProperties, LenProperties
  <2>3. 1 .. (Len(a) - n) \subseteq DOMAIN b
    BY <2>1, <2>2
  <2>4. Len(a) <= n + Len(Append(b, x))
    BY <2>1, <2>2
  <2> QED
    BY <2>1, <2>2, <2>3, <2>4 DEF ContinuesWith
<1>3. ASSUME NEW b \in Seq(Entries), ContinuesWith(b, a, gone)
      PROVE  RangeOf(a) \subseteq RangeOf(b) \cup gone
  <2>1. PICK n \in 0 .. Len(a) :
          /\ Len(a) <= n + Len(b)
          /\ \A i \in 1 .. (Len(a) - n) : b[i] = a[n + i]
          /\ \A i \in 1 .. n : a[i] \in gone
    BY <1>3 DEF ContinuesWith
  <2> SUFFICES ASSUME NEW i \in DOMAIN a PROVE a[i] \in RangeOf(b) \cup gone
    BY DEF RangeOf
  <2>2. Len(a) \in Nat /\ Len(b) \in Nat /\ i \in 1 .. Len(a) /\ DOMAIN b = 1 .. Len(b)
    OBVIOUS
  <2>3. CASE i <= n
    BY <2>1, <2>2, <2>3
  <2>4. CASE i > n
    <3>1. /\ i - n \in 1 .. (Len(a) - n) /\ i - n \in DOMAIN b
          /\ n + (i - n) = i
      BY <2>1, <2>2, <2>4
    <3>2. b[i - n] = a[i]
      BY <2>1, <3>1
    <3> QED
      BY <3>1, <3>2 DEF RangeOf
  <2> QED
    BY <2>1, <2>2, <2>3, <2>4
<1> QED
  BY <1>1, <1>2, <1>3

(* A session with a batch at its end, without its n oldest entries.        *)
LEMMA ContinuesLoad ==
    ASSUME NEW a \in Seq(Entries), NEW whole \in Seq(Entries), NEW gone,
           Len(a) <= Len(whole), \A i \in 1 .. Len(a) : whole[i] = a[i],
           NEW n \in Nat, n <= Len(whole)
    PROVE  ContinuesWith(SubSeq(whole, n + 1, Len(whole)), a,
                         gone \cup RangeOf(SubSeq(whole, 1, n)))
<1> DEFINE b == SubSeq(whole, n + 1, Len(whole))
           cutOff == SubSeq(whole, 1, n)
<1>1. Len(a) \in Nat /\ Len(whole) \in Nat
  OBVIOUS
<1>3. /\ Len(b) = Len(whole) - n
      /\ \A i \in 1 .. (Len(whole) - n) : b[i] = whole[n + i]
  BY SubSeqProperties, LenProperties
<1>4. /\ DOMAIN cutOff = 1 .. n
      /\ \A i \in 1 .. n : cutOff[i] = whole[i]
  BY SubSeqProperties, LenProperties
<1> HIDE DEF b, cutOff
<1>5. PICK m \in 0 .. Len(a) : m <= n /\ (m = n \/ m = Len(a))
  <2>1. CASE n <= Len(a)
    BY <1>1, <2>1
  <2>2. CASE n > Len(a)
    BY <1>1, <2>2
  <2> QED
    BY <1>1, <2>1, <2>2
<1>6. Len(a) <= m + Len(b)
  BY <1>1, <1>3, <1>5
<1>7. ASSUME NEW i \in 1 .. (Len(a) - m)
      PROVE  b[i] = a[m + i]
  <2>1. m = n
    BY <1>1, <1>5
  <2>2. n + i \in 1 .. Len(a) /\ i \in 1 .. (Len(whole) - n)
    BY <1>1, <2>1
  <2> QED
    BY <1>3, <2>1, <2>2
<1>8. ASSUME NEW i \in 1 .. m
      PROVE  a[i] \in gone \cup RangeOf(cutOff)
  <2>1. i \in 1 .. Len(a) /\ i \in 1 .. n
    BY <1>1, <1>5
  <2> QED
    BY <1>4, <2>1 DEF RangeOf
<1>9. ContinuesWith(b, a, gone \cup RangeOf(cutOff))
  BY <1>5, <1>6, <1>7, <1>8 DEF ContinuesWith
<1> QED
  BY <1>9 DEF b, cutOff

-----------------------------------------------------------------------------
(* What a step has to show: of its channel, and of the others.             *)

(* The values of the variables, by type.                                   *)
LEMMA Typed ==
    ASSUME TypeOK, NEW k \in Channels
    PROVE  /\ stored[k] \in Seq(Entries) /\ branch[k] \in Seq(Entries)
           /\ batch[k] \in Seq(Events) /\ batch[k] \in Seq(Entries)
           /\ pending[k] \in Seq(Events) /\ pending[k] \in Seq(Entries)
           /\ arrived[k] \in Seq(Events)
<1>1. Events \subseteq Entries
  BY DEF Entries
<1>2. \A s \in Seq(Events) : s \in Seq(Entries)
  BY <1>1
<1> QED
  BY <1>2 DEF TypeOK

(* Entries move along their channel, or are cut or dropped; X are new.     *)
LEMMA Bookkeeping ==
    ASSUME KnownInv, DisjointInv, DroppedInv, PlacedInv,
           NEW X, NEW c, c \in Channels \/ X = {}, X \cap (Seen \cup said) = {},
           arrived' = arrived, said' = said \cup X,
           cut \subseteq cut', dropped \subseteq dropped',
           dropped' \subseteq Seen \cup said',
           \A k \in Channels :
              /\ Mine(k)' \subseteq Mine(k) \cup (IF k = c THEN X ELSE {})
              /\ Mine(k) \subseteq Mine(k)' \cup cut' \cup dropped'
              /\ Held(k)' \cap Requested(k)' = {}
              /\ Mine(k)' \cap dropped' = {},
           X \subseteq Mine(c)' \cup dropped'
    PROVE  (KnownInv /\ DisjointInv /\ DroppedInv /\ PlacedInv)'
<1>1. Seen' = Seen
  BY DEF Seen
<1>2. \A k \in Channels : RangeOf(arrived[k]) \subseteq Seen
  BY DEF Seen
<1>3. \A k \in Channels : Mine(k) \cap X = {}
  BY <1>2 DEF KnownInv
<1>4. KnownInv'
  <2> SUFFICES ASSUME NEW k \in Channels
               PROVE  Mine(k)' \subseteq RangeOf(arrived[k]) \cup said'
    BY <1>1 DEF KnownInv
  <2> QED
    BY DEF KnownInv
<1>5. DisjointInv'
  <2> SUFFICES ASSUME NEW j \in Channels, NEW k \in Channels, j # k
               PROVE  Mine(j)' \cap Mine(k)' = {}
    BY DEF DisjointInv
  <2>1. Mine(j) \cap Mine(k) = {}
    BY DEF DisjointInv
  <2> QED
    BY <1>3, <2>1
<1>6. DroppedInv'
  BY DEF DroppedInv
<1>7. PlacedInv'
  BY <1>1 DEF PlacedInv
<1> QED
  BY <1>4, <1>5, <1>6, <1>7

(* The same where nothing is new.                                          *)
LEMMA Moved ==
    ASSUME KnownInv, DisjointInv, DroppedInv, PlacedInv,
           arrived' = arrived, said' = said,
           cut \subseteq cut', dropped \subseteq dropped',
           dropped' \subseteq Seen \cup said,
           \A k \in Channels :
              /\ Mine(k)' \subseteq Mine(k)
              /\ Mine(k) \subseteq Mine(k)' \cup cut' \cup dropped'
              /\ Held(k)' \cap Requested(k)' = {}
              /\ Mine(k)' \cap dropped' = {}
    PROVE  (KnownInv /\ DisjointInv /\ DroppedInv /\ PlacedInv)'
<1> DEFINE X == {}
           c == CHOOSE c \in Channels : TRUE
<1>1. /\ X = {} /\ X \cap (Seen \cup said) = {} /\ said' = said \cup X
      /\ X \subseteq Mine(c)' \cup dropped'
      /\ dropped' \subseteq Seen \cup said'
  OBVIOUS
<1>2. \A k \in Channels :
         Mine(k)' \subseteq Mine(k) \cup (IF k = c THEN X ELSE {})
  OBVIOUS
<1> HIDE DEF X, c
<1> QED
  BY <1>1, <1>2, Bookkeeping

(* The order of a channel, from the new values and the shard as it was.    *)
LEMMA OrderIntro ==
    ASSUME NEW k \in Channels, arrived' = arrived,
           InOrder(k, stored'[k]), InOrder(k, branch'[k]),
           InOrder(k, batch'[k]), InOrder(k, pending'[k]),
           Ahead(k, RangeOf(stored'[k]) \cup RangeOf(branch'[k]),
                    RangeOf(batch'[k]) \cup RangeOf(pending'[k])),
           Ahead(k, RangeOf(batch'[k]), RangeOf(pending'[k])),
           Ahead(k, Held(k)', Requested(k)')
    PROVE  Ordered(k)'
BY DEF Ordered, InOrder, Ahead, Before, RangeOf

(* Less is in order, too.                                                  *)
LEMMA AheadSubset ==
    ASSUME NEW k, NEW A, NEW B, Ahead(k, A, B), NEW C, NEW D,
           C \cap Events \subseteq A, D \cap Events \subseteq B
    PROVE  Ahead(k, C, D)
BY DEF Ahead

(* No messages are in order.                                               *)
LEMMA NothingInOrder ==
    ASSUME NEW k
    PROVE  InOrder(k, <<>>) /\ RangeOf(<<>>) = {}
BY DEF InOrder, RangeOf

(* A channel whose values stay.                                            *)
LEMMA OrderKept ==
    ASSUME NEW k \in Channels, Ordered(k), arrived' = arrived,
           stored'[k] = stored[k], branch'[k] = branch[k],
           batch'[k] = batch[k], pending'[k] = pending[k],
           Requested(k)' \subseteq Requested(k)
    PROVE  Ordered(k)'
<1>1. Held(k)' = Held(k)
  BY DEF Held
<1>2. Ahead(k, Held(k)', Requested(k)')
  BY <1>1, AheadSubset DEF Ordered
<1> QED
  BY <1>2, OrderIntro DEF Ordered

(* A branch that continues another still does when more was dropped.       *)
LEMMA ContinuesMore ==
    ASSUME NEW a, NEW b, NEW gone, NEW more, gone \subseteq more,
           ContinuesWith(b, a, gone)
    PROVE  ContinuesWith(b, a, more)
BY DEF ContinuesWith

-----------------------------------------------------------------------------
(* The invariant holds initially and every action keeps it.                *)

(* The invariant holds before the first start.                             *)
LEMMA InitInv == Init => Inv
<1> SUFFICES ASSUME Init PROVE Inv
  OBVIOUS
<1>1. /\ request = [p \in {Gateway} |-> <<>>]
      /\ owned = [k \in Channels |-> FALSE]
      /\ pending = [k \in Channels |-> <<>>]
      /\ handled = [k \in Channels |-> <<>>]
      /\ lost = {}
  BY DEF Init, KQ!Init
<1>2. TypeOK
  BY <1>1, LimitsAssumption DEF Init, TypeOK
<1>3. PlaceInv /\ OwnerInv /\ TurnInv
  BY <1>1 DEF Init, PlaceInv, OwnerInv, TurnInv, HasBranch
<1>4. \A k \in Channels : Mine(k) = {} /\ RangeOf(arrived[k]) = {}
  BY <1>1, NothingInOrder DEF Init, Mine, Held, Requested
<1>5. Seen = {}
  BY <1>4 DEF Seen
<1>6. KnownInv /\ DisjointInv /\ DroppedInv /\ PlacedInv
  BY <1>4, <1>5 DEF Init, KnownInv, DisjointInv, DroppedInv, PlacedInv, Mine
<1>7. WorkInv
  BY DEF Init, WorkInv, HasBranch
<1>8. OrderInv
  BY <1>1, NothingInOrder
     DEF Init, OrderInv, Ordered, Ahead, Held, Requested
<1> QED
  BY <1>2, <1>3, <1>6, <1>7, <1>8 DEF Inv, IInv

(* A step that moves no entry, only a worker or the gateway task.          *)
LEMMA QuietInv ==
    ASSUME Inv, TypeOK', (PlaceInv /\ OwnerInv /\ TurnInv)',
           UNCHANGED <<request, pending, batch, branch, stored, arrived, said,
                       cut, dropped>>,
           \A k \in Channels : HasBranch(k)' => HasBranch(k)
    PROVE  Inv'
<1>1. \A k \in Channels :
         Held(k)' = Held(k) /\ Requested(k)' = Requested(k) /\ Mine(k)' = Mine(k)
  BY DEF Held, Requested, Mine
<1>2. Seen' = Seen
  BY DEF Seen
<1>3. (KnownInv /\ DisjointInv /\ DroppedInv /\ PlacedInv)'
  BY <1>1, <1>2 DEF Inv, IInv, KnownInv, DisjointInv, DroppedInv, PlacedInv
<1>4. WorkInv'
  BY DEF Inv, IInv, WorkInv
<1>5. OrderInv'
  BY <1>1, OrderKept DEF Inv, IInv, OrderInv
<1> QED
  BY <1>3, <1>4, <1>5 DEF Inv, IInv

(* The gateway task starts, closes and is joined.                          *)
LEMMA GatewayInv ==
    ASSUME Inv,
           Start \/ StopCall \/ CloseSeen \/ ShardEnds \/ Drained \/ StopReturn
              \/ UNCHANGED vars
    PROVE  Inv'
<1>1. /\ UNCHANGED <<queueVars, workerVars, stored, arrived, said, cut, dropped>>
      /\ gateway' \in {gateway, "running", "draining", "done"}
      /\ stop' \in {stop, "waiting", "returned"}
  BY DEF Start, StopCall, CloseSeen, ShardEnds, LeaveLoop, Drained, StopReturn,
         vars
<1>2. /\ UNCHANGED <<request, owned, pending, handled, lost>>
      /\ UNCHANGED <<worker, batch, branch, again, turns>>
  BY <1>1 DEF queueVars, workerVars
<1>3. TypeOK'
  BY <1>1, <1>2 DEF Inv, TypeOK
<1>4. (PlaceInv /\ OwnerInv /\ TurnInv)'
  BY <1>1, <1>2 DEF Inv, IInv, PlaceInv, OwnerInv, TurnInv, HasBranch
<1>5. \A k \in Channels : HasBranch(k)' => HasBranch(k)
  BY <1>2 DEF HasBranch
<1> QED
  BY <1>1, <1>2, <1>3, <1>4, <1>5, QuietInv

(* A worker finishes, goes on to receive, asks, or has its answer.         *)
LEMMA QuietWorkerInv ==
    ASSUME Inv, NEW k \in Channels,
           Finish(k) \/ Continue(k) \/ Ask(k) \/ EndStream(k)
    PROVE  Inv'
<1>1. UNCHANGED <<gateway, stop, request, pending, handled, lost, batch, branch,
                  stored, arrived, said, cut, dropped>>
  BY DEF Finish, KQ!Finish, Continue, Ask, EndStream, queueVars
<1>2. \A j \in Channels \ {k} : /\ worker'[j] = worker[j] /\ owned'[j] = owned[j]
                               /\ again'[j] = again[j] /\ turns'[j] = turns[j]
  BY DEF Finish, KQ!Finish, Continue, Ask, EndStream, Goto, queueVars, Inv, TypeOK
<1>3. PlaceInv /\ OwnerInv /\ TurnInv
  BY DEF Inv, IInv
<1>4. CASE Finish(k) \/ Continue(k)
  <2>1. /\ worker[k] = "top"
        /\ UNCHANGED <<again, turns>>
        /\ \/ /\ worker' = [worker EXCEPT ![k] = "none"]
              /\ owned' = [owned EXCEPT ![k] = FALSE]
              /\ pending[k] = <<>>
           \/ /\ worker' = [worker EXCEPT ![k] = "recv"]
              /\ owned' = owned
              /\ pending[k] # <<>>
    BY <1>4 DEF Finish, KQ!Finish, Continue, Goto, queueVars
  <2>2. TypeOK'
    BY <1>1, <2>1 DEF Inv, TypeOK
  <2>3. /\ owned'[k] <=> worker'[k] # "none"
        /\ worker'[k] = "none" => pending[k] = <<>>
        /\ worker'[k] = "recv" => pending[k] # <<>>
        /\ worker'[k] \in {"none", "recv"}
    BY <1>3, <2>1 DEF Inv, TypeOK, OwnerInv
  <2>4. PlaceInv'
    BY <1>1, <1>2, <1>3, <2>1, <2>3 DEF PlaceInv, HasBranch
  <2>5. OwnerInv'
    BY <1>1, <1>2, <1>3, <2>3 DEF OwnerInv
  <2>6. TurnInv'
    BY <1>2, <1>3, <2>1, <2>3 DEF TurnInv
  <2>7. \A j \in Channels : HasBranch(j)' => HasBranch(j)
    BY <1>2, <2>3 DEF HasBranch
  <2> QED
    BY <1>1, <2>2, <2>4, <2>5, <2>6, <2>7, QuietInv
<1>5. CASE Ask(k) \/ EndStream(k)
  <2>1. /\ UNCHANGED owned
        /\ \/ /\ worker[k] = "ask"
              /\ worker' = [worker EXCEPT ![k] = "stream"]
              /\ again' = [again EXCEPT ![k] = FALSE]
              /\ turns' = [turns EXCEPT ![k] = @ + 1]
           \/ /\ worker[k] = "stream"
              /\ worker' = [worker EXCEPT ![k] = "put"]
              /\ UNCHANGED <<again, turns>>
    BY <1>5 DEF Ask, EndStream, Goto, queueVars
  <2>2. turns'[k] \in 0 .. MaxTurns /\ again' \in [Channels -> BOOLEAN]
    <3>1. MaxTurns \in Nat /\ turns[k] \in 0 .. MaxTurns
      BY LimitsAssumption DEF Inv, TypeOK
    <3>2. worker[k] = "ask" => turns[k] + 1 \in 0 .. MaxTurns
      BY <1>3, <3>1 DEF TurnInv
    <3> QED
      BY <2>1, <3>1, <3>2 DEF Inv, TypeOK
  <2>3. TypeOK'
    BY <1>1, <1>2, <2>1, <2>2 DEF Inv, TypeOK
  <2>4. /\ worker[k] \in {"ask", "stream"} /\ worker'[k] \in {"stream", "put"}
        /\ again'[k] => again[k] /\ turns'[k] = turns[k]
    BY <2>1 DEF Inv, TypeOK
  <2>5. (PlaceInv /\ OwnerInv)'
    BY <1>1, <1>2, <1>3, <2>1, <2>4 DEF PlaceInv, OwnerInv, HasBranch
  <2>6. TurnInv'
    BY <1>2, <1>3, <2>4 DEF TurnInv
  <2>7. \A j \in Channels : HasBranch(j)' => HasBranch(j)
    BY <1>2, <2>4 DEF HasBranch
  <2> QED
    BY <1>1, <2>3, <2>5, <2>6, <2>7, QuietInv
<1> QED
  BY <1>4, <1>5

(* A message that was never sent before is after all those that were.      *)
LEMMA BeforeGrows ==
    ASSUME NEW k \in Channels, NEW e \in Events, arrived[k] \in Seq(Events),
           e \notin RangeOf(arrived[k]), arrived'[k] = Append(arrived[k], e),
           NEW x, NEW y, x # e, y = e \/ Before(k, x, y)
    PROVE  Before(k, x, y)'
<1>1. /\ DOMAIN arrived'[k] = DOMAIN arrived[k] \cup {Len(arrived[k]) + 1}
      /\ \A i \in DOMAIN arrived[k] : arrived'[k][i] = arrived[k][i]
      /\ arrived'[k][Len(arrived[k]) + 1] = e
      /\ DOMAIN arrived[k] = 1 .. Len(arrived[k]) /\ Len(arrived[k]) \in Nat
  BY AppendProperties, LenProperties
<1> SUFFICES ASSUME NEW p \in DOMAIN arrived'[k], NEW q \in DOMAIN arrived'[k],
                    arrived'[k][p] = x, arrived'[k][q] = y
             PROVE  p < q
  BY DEF Before
<1>2. p \in DOMAIN arrived[k] /\ arrived[k][p] = x
  BY <1>1
<1>3. CASE q \in DOMAIN arrived[k]
  <2>1. arrived[k][q] = y /\ y # e
    BY <1>1, <1>3 DEF RangeOf
  <2> QED
    BY <1>2, <1>3, <2>1 DEF Before
<1>4. CASE q = Len(arrived[k]) + 1
  BY <1>1, <1>2, <1>4
<1> QED
  BY <1>1, <1>3, <1>4

(* The shard yields a message: it is new, and after all that came before.  *)
LEMMA NextEventInv ==
    ASSUME Inv, NEW c \in Channels, NextEvent(c)
    PROVE  Inv'
<1>1. PICK e \in Events :
        /\ e \notin Seen
        /\ request[Gateway] = <<>>
        /\ request' = [request EXCEPT ![Gateway] = <<c, e>>]
        /\ arrived' = [arrived EXCEPT ![c] = Append(@, e)]
  <2>1. Seen \subseteq Events /\ Seen # Events
    <3>1. \A k \in Channels : arrived[k] \in Seq(Events)
      BY Typed DEF Inv
    <3>2. \A k \in Channels : RangeOf(arrived[k]) \subseteq Events
      BY <3>1 DEF RangeOf
    <3> QED
      BY <3>2 DEF NextEvent, Seen
  <2> QED
    BY <2>1 DEF NextEvent, KQ!Call
<1>2. UNCHANGED <<gateway, stop, owned, pending, handled, lost, worker, batch,
                  branch, again, turns, stored, said, cut, dropped>>
  BY DEF NextEvent, KQ!Call, workerVars
<1>3. TypeOK'
  <2>1. arrived[c] \in Seq(Events)
    BY Typed DEF Inv
  <2>2. Append(arrived[c], e) \in Seq(Events)
    BY <2>1
  <2>3. /\ request' \in [{Gateway} -> (Channels \X Events) \cup {<<>>}]
        /\ arrived' \in [Channels -> Seq(Events)]
    BY <1>1, <2>2 DEF Inv, TypeOK
  <2> QED
    BY <1>2, <2>3 DEF Inv, TypeOK
<1>4. (PlaceInv /\ OwnerInv /\ TurnInv)'
  BY <1>2 DEF Inv, IInv, PlaceInv, OwnerInv, TurnInv, HasBranch
<1>5. e \notin said /\ e \notin dropped
  BY <1>1, EntriesAssumption DEF Inv, TypeOK, IInv, KnownInv
<1>6. /\ request'[Gateway] = <<c, e>>
      /\ \A k \in Channels :
            /\ Held(k)' = Held(k) /\ Requested(k) = {} /\ Mine(k) = Held(k)
            /\ Requested(k)' = (IF k = c THEN {e} ELSE {})
            /\ Mine(k)' = Mine(k) \cup (IF k = c THEN {e} ELSE {})
  <2>1. request'[Gateway] = <<c, e>>
    BY <1>1 DEF Inv, TypeOK
  <2>2. \A k \in Channels : Held(k)' = Held(k)
    BY <1>2 DEF Held
  <2>3. /\ <<c, e>> # <<>> /\ <<c, e>>[1] = c /\ <<c, e>>[2] = e
    OBVIOUS
  <2>4. \A k \in Channels :
          /\ Requested(k) = {}
          /\ Requested(k)' = (IF k = c THEN {e} ELSE {})
    BY <1>1, <2>1, <2>3 DEF Requested
  <2> QED
    BY <2>1, <2>2, <2>4 DEF Mine
<1>7. /\ \A k \in Channels : RangeOf(arrived'[k]) =
             RangeOf(arrived[k]) \cup (IF k = c THEN {e} ELSE {})
      /\ \A k \in Channels : RangeOf(arrived[k]) \subseteq Seen
      /\ Seen' = Seen \cup {e}
  <2>1. \A k \in Channels : arrived[k] \in Seq(Events)
    BY Typed DEF Inv
  <2>2. /\ arrived'[c] = Append(arrived[c], e)
        /\ \A k \in Channels \ {c} : arrived'[k] = arrived[k]
    BY <1>1 DEF Inv, TypeOK
  <2>3. RangeOf(arrived'[c]) = RangeOf(arrived[c]) \cup {e}
    BY <2>1, <2>2, RangeAppend, RangeIsElements
  <2> QED
    BY <2>2, <2>3 DEF Seen
<1>8. \A k \in Channels : e \notin Mine(k)
  BY <1>1, <1>5, <1>7 DEF Inv, IInv, KnownInv
<1>9. (KnownInv /\ DisjointInv /\ DroppedInv /\ PlacedInv)'
  <2>1. KnownInv'
    BY <1>2, <1>6, <1>7, <1>8 DEF Inv, IInv, KnownInv
  <2>2. DisjointInv'
    <3> SUFFICES ASSUME NEW j \in Channels, NEW k \in Channels, j # k
                 PROVE  /\ Mine(j)' \cap Mine(k)' = {}
                        /\ RangeOf(arrived'[j]) \cap RangeOf(arrived'[k]) = {}
      BY DEF DisjointInv, RangeOf
    <3>1. /\ Mine(j) \cap Mine(k) = {}
          /\ RangeOf(arrived[j]) \cap RangeOf(arrived[k]) = {}
          /\ e \notin RangeOf(arrived[j]) /\ e \notin RangeOf(arrived[k])
      BY <1>1, <1>7 DEF Inv, IInv, DisjointInv
    <3> QED
      BY <1>6, <1>7, <1>8, <3>1
  <2>3. DroppedInv'
    BY <1>2, <1>5, <1>6 DEF Inv, IInv, DroppedInv
  <2>4. PlacedInv'
    BY <1>2, <1>6, <1>7 DEF Inv, IInv, PlacedInv
  <2> QED
    BY <2>1, <2>2, <2>3, <2>4
<1>10. WorkInv'
  BY <1>2 DEF Inv, IInv, WorkInv, HasBranch
<1>11. OrderInv'
  <2> SUFFICES ASSUME NEW k \in Channels PROVE Ordered(k)'
    BY DEF OrderInv
  <2>1. CASE k # c
    <3>1. arrived'[k] = arrived[k] /\ Requested(k)' = {} /\ Held(k)' = Held(k)
      BY <1>1, <1>6, <2>1 DEF Inv, TypeOK
    <3> QED
      BY <1>2, <3>1 DEF Inv, IInv, OrderInv, Ordered, InOrder, Ahead, Before
  <2>2. CASE k = c
    <3>1. \A x \in Held(c) : \A y : y = e \/ Before(c, x, y) => Before(c, x, y)'
      <4>1. /\ arrived[c] \in Seq(Events) /\ e \notin RangeOf(arrived[c])
            /\ arrived'[c] = Append(arrived[c], e)
        BY <1>1, <1>7 DEF Inv, TypeOK
      <4>2. \A x \in Held(c) : x # e
        BY <1>8 DEF Mine
      <4> QED
        BY <4>1, <4>2, BeforeGrows
    <3>2. Ordered(c)
      BY DEF Inv, IInv, OrderInv
    <3>3. /\ InOrder(c, stored[c])' /\ InOrder(c, branch[c])'
          /\ InOrder(c, batch[c])' /\ InOrder(c, pending[c])'
      <4>1. /\ InOrder(c, stored[c]) /\ InOrder(c, branch[c])
            /\ InOrder(c, batch[c]) /\ InOrder(c, pending[c])
        BY <3>2 DEF Ordered
      <4> QED
        BY <1>2, <3>1, <4>1 DEF InOrder, RangeOf, Held
    <3> DEFINE done == RangeOf(stored[c]) \cup RangeOf(branch[c])
               todo == RangeOf(batch[c]) \cup RangeOf(pending[c])
    <3>4. Ahead(c, done, todo)'
      <4>1. Ahead(c, done, todo) /\ done \subseteq Held(c)
        BY <3>2 DEF Ordered, Held
      <4>2. done' = done /\ todo' = todo
        BY <1>2
      <4> HIDE DEF done, todo
      <4> QED
        BY <3>1, <4>1, <4>2 DEF Ahead
    <3>5. Ahead(c, RangeOf(batch[c]), RangeOf(pending[c]))'
      <4>1. /\ Ahead(c, RangeOf(batch[c]), RangeOf(pending[c]))
            /\ RangeOf(batch[c]) \subseteq Held(c)
        BY <3>2 DEF Ordered, Held
      <4>2. batch'[c] = batch[c] /\ pending'[c] = pending[c]
        BY <1>2
      <4> QED
        BY <3>1, <4>1, <4>2 DEF Ahead
    <3>6. Ahead(c, Held(c), Requested(c))'
      BY <1>6, <3>1 DEF Ahead
    <3> QED
      BY <2>2, <3>3, <3>4, <3>5, <3>6 DEF Ordered
  <2> QED
    BY <2>1, <2>2
<1> QED
  BY <1>3, <1>4, <1>9, <1>10, <1>11 DEF Inv, IInv

(* enqueue: the message joins the end of the queue of its channel.         *)
LEMMA EnqueueInv ==
    ASSUME Inv, NEW c \in Channels, NEW e \in Events, Enqueue(c, e)
    PROVE  Inv'
<1>1. /\ request[Gateway] = <<c, e>>
      /\ request' = [request EXCEPT ![Gateway] = <<>>]
      /\ owned' = [owned EXCEPT ![c] = TRUE]
      /\ pending' = [pending EXCEPT ![c] = Append(@, e)]
      /\ worker' = [worker EXCEPT ![c] = IF owned[c] THEN @ ELSE "top"]
      /\ UNCHANGED <<gateway, stop, handled, lost, batch, branch, again, turns,
                     stored, arrived, said, cut, dropped>>
  BY DEF Enqueue, KQ!Commit
<1>2. /\ stored[c] \in Seq(Entries) /\ branch[c] \in Seq(Entries)
      /\ batch[c] \in Seq(Entries) /\ pending[c] \in Seq(Events)
      /\ pending[c] \in Seq(Entries) /\ e \in Entries
  BY Typed DEF Inv, Entries
<1>3. /\ pending'[c] = Append(pending[c], e)
      /\ \A k \in Channels \ {c} : /\ pending'[k] = pending[k]
                                   /\ worker'[k] = worker[k]
                                   /\ owned'[k] = owned[k]
      /\ owned'[c] = TRUE /\ worker'[c] = (IF owned[c] THEN worker[c] ELSE "top")
      /\ request'[Gateway] = <<>>
  BY <1>1 DEF Inv, TypeOK
<1>4. Append(pending[c], e) \in Seq(Events) /\ Append(pending[c], e) # <<>>
  BY <1>2
<1>5. TypeOK'
  BY <1>1, <1>3, <1>4 DEF Inv, TypeOK
<1>6. (PlaceInv /\ OwnerInv /\ TurnInv)'
  BY <1>1, <1>3, <1>4
     DEF Inv, IInv, PlaceInv, OwnerInv, TurnInv, HasBranch
<1>7. RangeOf(pending'[c]) = RangeOf(pending[c]) \cup {e}
  BY <1>2, <1>3, RangeAppend, RangeIsElements
<1>8. \A k \in Channels :
         /\ Held(k)' = Held(k) \cup (IF k = c THEN {e} ELSE {})
         /\ Requested(k) = (IF k = c THEN {e} ELSE {})
         /\ Requested(k)' = {}
  <2>1. \A k \in Channels :
           Held(k)' = Held(k) \cup (IF k = c THEN {e} ELSE {})
    BY <1>1, <1>3, <1>7 DEF Held
  <2>2. <<c, e>> # <<>> /\ <<c, e>>[1] = c /\ <<c, e>>[2] = e
    OBVIOUS
  <2> QED
    BY <1>1, <1>3, <2>1, <2>2 DEF Requested
<1>9. \A k \in Channels : Mine(k)' = Mine(k)
  BY <1>8 DEF Mine
<1>10. (KnownInv /\ DisjointInv /\ DroppedInv /\ PlacedInv)'
  <2>1. dropped' \subseteq Seen \cup said
    BY <1>1 DEF Inv, IInv, KnownInv
  <2>2. \A k \in Channels :
           /\ Mine(k)' \subseteq Mine(k)
           /\ Mine(k) \subseteq Mine(k)' \cup cut' \cup dropped'
           /\ Held(k)' \cap Requested(k)' = {}
           /\ Mine(k)' \cap dropped' = {}
    BY <1>1, <1>8, <1>9 DEF Inv, IInv, DroppedInv
  <2> QED
    BY <1>1, <2>1, <2>2, Moved DEF Inv, IInv
<1>11. WorkInv'
  BY <1>1, <1>3 DEF Inv, IInv, WorkInv, HasBranch, OwnerInv
<1>12. OrderInv'
  <2> SUFFICES ASSUME NEW k \in Channels PROVE Ordered(k)'
    BY DEF OrderInv
  <2>1. CASE k # c
    BY <1>1, <1>3, <1>8, <2>1, OrderKept DEF Inv, IInv, OrderInv
  <2>2. CASE k = c
    <3>1. Ordered(c) /\ Ahead(c, Held(c), {e})
      BY <1>8 DEF Inv, IInv, OrderInv, Ordered
    <3>2. InOrder(c, pending'[c])
      <4>1. InOrder(c, pending[c]) /\ Ahead(c, RangeOf(pending[c]), {e})
        BY <3>1, AheadSubset DEF Ordered, Held
      <4> QED
        BY <1>2, <1>3, <4>1, InOrderAppend
    <3>3. Ahead(c, RangeOf(stored[c]) \cup RangeOf(branch[c]),
                   RangeOf(batch[c]) \cup RangeOf(pending'[c]))
      BY <1>7, <3>1 DEF Ordered, Ahead, Held
    <3>4. Ahead(c, RangeOf(batch[c]), RangeOf(pending'[c]))
      BY <1>7, <3>1 DEF Ordered, Ahead, Held
    <3>5. Ahead(c, Held(c)', Requested(c)')
      BY <1>8 DEF Ahead
    <3> QED
      BY <1>1, <2>2, <3>1, <3>2, <3>3, <3>4, <3>5, OrderIntro DEF Ordered
  <2> QED
    BY <2>1, <2>2
<1> QED
  BY <1>5, <1>6, <1>10, <1>11, <1>12 DEF Inv, IInv

(* The process is gone, and only what was stored is left.                  *)
LEMMA ProcessGoneInv ==
    ASSUME Inv, ProcessGone
    PROVE  Inv'
<1> DEFINE Gone == UNION {InMemory(k) \cup Requested(k) : k \in Channels}
<1>1. /\ gateway' = "down" /\ stop' = "none"
      /\ request' = [p \in {Gateway} |-> <<>>]
      /\ owned' = [k \in Channels |-> FALSE]
      /\ pending' = [k \in Channels |-> <<>>]
      /\ worker' = [k \in Channels |-> "none"]
      /\ batch' = [k \in Channels |-> <<>>]
      /\ branch' = [k \in Channels |-> <<>>]
      /\ again' = [k \in Channels |-> FALSE]
      /\ turns' = [k \in Channels |-> 0]
      /\ UNCHANGED <<handled, lost, stored, arrived, said, cut>>
  BY DEF ProcessGone
<1>2. dropped' = dropped \cup Gone
  <2>1. request[Gateway] # <<>> =>
           /\ request[Gateway][1] \in Channels
           /\ Requested(request[Gateway][1]) = {request[Gateway][2]}
    BY DEF Inv, TypeOK, Requested
  <2>2. UNION {Requested(k) : k \in Channels} =
           IF request[Gateway] = <<>> THEN {} ELSE {request[Gateway][2]}
    BY <2>1 DEF Requested
  <2>3. Gone = (UNION {InMemory(k) : k \in Channels})
                  \cup (UNION {Requested(k) : k \in Channels})
    OBVIOUS
  <2>4. dropped' = dropped \cup (UNION {InMemory(k) : k \in Channels})
           \cup (IF request[Gateway] = <<>> THEN {} ELSE {request[Gateway][2]})
    BY DEF ProcessGone
  <2> HIDE DEF Gone
  <2> QED
    BY <2>2, <2>3, <2>4
<1> HIDE DEF Gone
<1>3. \A k \in Channels :
         /\ RangeOf(stored[k]) \cup InMemory(k) \cup Requested(k) = Mine(k)
         /\ RangeOf(stored[k]) \cap (InMemory(k) \cup Requested(k)) = {}
  BY DEF Inv, IInv, KnownInv, InMemory, Mine, Held
<1>4. \A k \in Channels :
         /\ Held(k)' = RangeOf(stored[k]) /\ Requested(k)' = {}
         /\ Mine(k)' = RangeOf(stored[k])
  BY <1>1, NothingInOrder DEF Mine, Held, Requested
<1>5. \A k \in Channels : RangeOf(stored[k]) \cap Gone = {}
  <2> SUFFICES ASSUME NEW k \in Channels, NEW j \in Channels
               PROVE  RangeOf(stored[k]) \cap (InMemory(j) \cup Requested(j)) = {}
    BY DEF Gone
  <2>1. CASE j = k
    BY <1>3, <2>1
  <2>2. CASE j # k
    <3>1. Mine(j) \cap Mine(k) = {}
      BY <2>2 DEF Inv, IInv, DisjointInv
    <3> QED
      BY <1>3, <3>1
  <2> QED
    BY <2>1, <2>2
<1>6. Gone \subseteq Seen \cup said
  BY <1>3 DEF Gone, Inv, IInv, KnownInv, Seen
<1>7. TypeOK'
  <2>1. Gone \subseteq Entries
    <3>1. Seen \subseteq Events
      <4>1. \A k \in Channels : arrived[k] \in Seq(Events)
        BY Typed DEF Inv
      <4>2. \A k \in Channels : RangeOf(arrived[k]) \subseteq Events
        BY <4>1 DEF RangeOf
      <4> QED
        BY <4>2 DEF Seen
    <3> QED
      BY <1>6, <3>1 DEF Inv, TypeOK, Entries
  <2>2. MaxTurns \in Nat /\ <<>> \in Seq(Events) /\ <<>> \in Seq(Entries)
    BY LimitsAssumption
  <2> QED
    BY <1>1, <1>2, <2>1, <2>2 DEF Inv, TypeOK
<1>8. (PlaceInv /\ OwnerInv /\ TurnInv)'
  BY <1>1 DEF PlaceInv, OwnerInv, TurnInv, HasBranch
<1>9. (KnownInv /\ DisjointInv /\ DroppedInv /\ PlacedInv)'
  <2>1. dropped' \subseteq Seen \cup said
    BY <1>2, <1>6 DEF Inv, IInv, KnownInv
  <2>2. \A k \in Channels : InMemory(k) \cup Requested(k) \subseteq Gone
    BY DEF Gone
  <2>3. \A k \in Channels :
           /\ Mine(k)' \subseteq Mine(k)
           /\ Mine(k) \subseteq Mine(k)' \cup cut' \cup dropped'
           /\ Held(k)' \cap Requested(k)' = {}
           /\ Mine(k)' \cap dropped' = {}
    BY <1>2, <1>3, <1>4, <1>5, <2>2 DEF Inv, IInv, DroppedInv
  <2> QED
    BY <1>1, <1>2, <2>1, <2>3, Moved DEF Inv, IInv
<1>10. WorkInv'
  BY <1>1 DEF WorkInv, HasBranch
<1>11. OrderInv'
  <2> SUFFICES ASSUME NEW k \in Channels PROVE Ordered(k)'
    BY DEF OrderInv
  <2>1. InOrder(k, stored[k])
    BY DEF Inv, IInv, OrderInv, Ordered
  <2> QED
    BY <1>1, <1>4, <2>1, NothingInOrder, OrderIntro DEF Ahead
<1> QED
  BY <1>7, <1>8, <1>9, <1>10, <1>11 DEF Inv, IInv

(* The worker receives the oldest messages of its queue.                   *)
LEMMA ReceiveInv ==
    ASSUME Inv, NEW c \in Channels, Receive(c)
    PROVE  Inv'
<1> DEFINE waiting == Len(pending[c])
           n == IF waiting < BatchLimit THEN waiting ELSE BatchLimit
           first == SubSeq(pending[c], 1, n)
           rest == SubSeq(pending[c], n + 1, Len(pending[c]))
<1>1. /\ worker[c] = "recv" /\ owned[c]
      /\ handled' = [handled EXCEPT ![c] = @ \o first]
      /\ pending' = [pending EXCEPT ![c] = SubSeq(@, n + 1, Len(@))]
      /\ batch' = [batch EXCEPT ![c] = @ \o first]
      /\ worker' = [worker EXCEPT ![c] = "load"]
      /\ UNCHANGED <<gateway, stop, request, owned, lost, branch, again, turns,
                     stored, arrived, said, cut, dropped>>
  BY DEF Receive, KQ!Deliver, Goto
<1>2. /\ stored[c] \in Seq(Entries) /\ branch[c] \in Seq(Entries)
      /\ pending[c] \in Seq(Events) /\ pending[c] \in Seq(Entries)
      /\ handled[c] \in Seq(Events)
  BY Typed DEF Inv, TypeOK
<1>3. n \in Nat /\ n <= Len(pending[c])
  BY <1>2, LimitsAssumption
<1> HIDE DEF n
<1>4. /\ first \in Seq(Events) /\ rest \in Seq(Events)
      /\ RangeOf(pending[c]) = RangeOf(first) \cup RangeOf(rest)
  BY <1>2, <1>3, SubSeqProperties, LenProperties, RangeSplit, RangeIsElements
<1>5. /\ InOrder(c, pending[c])
         => InOrder(c, first) /\ InOrder(c, rest)
               /\ Ahead(c, RangeOf(first), RangeOf(rest))
  BY <1>2, <1>3, InOrderSplit
<1>6. pending'[c] = rest
  BY <1>1 DEF Inv, TypeOK
<1> HIDE DEF first, rest
<1>7. /\ batch[c] = <<>> /\ batch'[c] = first
      /\ branch[c] = <<>>
      /\ \A k \in Channels \ {c} : /\ pending'[k] = pending[k]
                                   /\ batch'[k] = batch[k]
                                   /\ worker'[k] = worker[k]
      /\ worker'[c] = "load"
  <2>1. batch[c] = <<>> /\ branch[c] = <<>>
    BY <1>1 DEF Inv, IInv, PlaceInv, HasBranch
  <2>2. <<>> \o first = first
    BY <1>4
  <2> QED
    BY <1>1, <2>1, <2>2 DEF Inv, TypeOK
<1>8. TypeOK'
  <2>1. handled[c] \o first \in Seq(Events)
    BY <1>2, <1>4
  <2> QED
    BY <1>1, <1>4, <1>6, <1>7, <2>1 DEF Inv, TypeOK
<1>9. (PlaceInv /\ OwnerInv /\ TurnInv)'
  BY <1>1, <1>7 DEF Inv, IInv, PlaceInv, OwnerInv, TurnInv, HasBranch
<1>10. \A k \in Channels :
          Held(k)' = Held(k) /\ Requested(k)' = Requested(k) /\ Mine(k)' = Mine(k)
  <2>1. \A k \in Channels : Held(k)' = Held(k)
    BY <1>1, <1>4, <1>6, <1>7, NothingInOrder DEF Held
  <2>2. \A k \in Channels : Requested(k)' = Requested(k)
    BY <1>1 DEF Requested
  <2> QED
    BY <2>1, <2>2 DEF Mine
<1>11. (KnownInv /\ DisjointInv /\ DroppedInv /\ PlacedInv)'
  BY <1>1, <1>10, Moved DEF Inv, IInv, KnownInv, DroppedInv
<1>12. WorkInv'
  BY <1>1, <1>7 DEF Inv, IInv, WorkInv, HasBranch
<1>13. OrderInv'
  <2> SUFFICES ASSUME NEW k \in Channels PROVE Ordered(k)'
    BY DEF OrderInv
  <2>1. CASE k # c
    BY <1>1, <1>7, <1>10, <2>1, OrderKept DEF Inv, IInv, OrderInv
  <2>2. CASE k = c
    <3>1. Ordered(c)
      BY DEF Inv, IInv, OrderInv
    <3>2. /\ InOrder(c, first) /\ InOrder(c, rest)
          /\ Ahead(c, RangeOf(first), RangeOf(rest))
      BY <1>5, <3>1 DEF Ordered
    <3>3. Ahead(c, RangeOf(stored[c]) \cup RangeOf(branch[c]),
                   RangeOf(first) \cup RangeOf(rest))
      BY <1>4, <3>1 DEF Ordered, Ahead
    <3>4. Ahead(c, Held(c)', Requested(c)')
      BY <1>10, <3>1 DEF Ordered
    <3> QED
      BY <1>1, <1>6, <1>7, <2>2, <3>1, <3>2, <3>3, <3>4, OrderIntro DEF Ordered
  <2> QED
    BY <2>1, <2>2
<1> QED
  BY <1>8, <1>9, <1>11, <1>12, <1>13 DEF Inv, IInv

(* A session with a batch at its end.                                      *)
LEMMA LoadedFacts ==
    ASSUME NEW a \in Seq(Entries), NEW b \in Seq(Entries)
    PROVE  /\ a \o b \in Seq(Entries)
           /\ Len(a) <= Len(a \o b)
           /\ \A i \in 1 .. Len(a) : (a \o b)[i] = a[i]
           /\ RangeOf(a \o b) = RangeOf(a) \cup RangeOf(b)
<1>1. RangeOf(a \o b) = RangeOf(a) \cup RangeOf(b)
  BY RangeConcatenation, RangeIsElements
<1>2. /\ a \o b \in Seq(Entries)
      /\ Len(a) <= Len(a \o b)
      /\ \A i \in 1 .. Len(a) : (a \o b)[i] = a[i]
  OBVIOUS
<1> QED
  BY <1>1, <1>2

(* The session is loaded, the batch pushed and the branch sliced.          *)
LEMMA LoadInv ==
    ASSUME Inv, NEW c \in Channels, Load(c)
    PROVE  Inv'
<1> DEFINE whole == stored[c] \o batch[c]
           n == CutLength(whole)
           oldest == SubSeq(whole, 1, n)
           kept == SubSeq(whole, n + 1, Len(whole))
<1>1. /\ worker[c] = "load"
      /\ branch' = [branch EXCEPT ![c] = kept]
      /\ batch' = [batch EXCEPT ![c] = <<>>]
      /\ cut' = cut \cup RangeOf(oldest)
      /\ again' = [again EXCEPT ![c] = TRUE]
      /\ turns' = [turns EXCEPT ![c] = 0]
      /\ worker' = [worker EXCEPT ![c] = "ask"]
      /\ UNCHANGED <<gateway, stop, request, owned, pending, handled, lost,
                     stored, arrived, said, dropped>>
  BY DEF Load, LoadWith, Goto, queueVars
<1>2. /\ stored[c] \in Seq(Entries) /\ batch[c] \in Seq(Entries)
      /\ stored'[c] = stored[c]
  BY <1>1, Typed DEF Inv
<1>3. /\ whole \in Seq(Entries)
      /\ Len(stored[c]) <= Len(whole)
      /\ \A i \in 1 .. Len(stored[c]) : whole[i] = stored[c][i]
      /\ RangeOf(whole) = RangeOf(stored[c]) \cup RangeOf(batch[c])
  BY <1>2, LoadedFacts, Zenon
<1>4. /\ InOrder(c, stored[c]) /\ InOrder(c, batch[c])
            /\ Ahead(c, RangeOf(stored[c]), RangeOf(batch[c]))
         => InOrder(c, whole)
  BY <1>2, InOrderConcat
<1> HIDE DEF whole
<1>5. n \in Nat /\ n <= Len(whole)
  BY <1>3, LimitsAssumption DEF CutLength
<1> HIDE DEF n
<1>6. /\ oldest \in Seq(Entries) /\ kept \in Seq(Entries)
      /\ RangeOf(whole) = RangeOf(oldest) \cup RangeOf(kept)
  BY <1>3, <1>5, SubSeqProperties, LenProperties, RangeSplit, RangeIsElements
<1>7. InOrder(c, whole) => InOrder(c, kept)
  BY <1>3, <1>5, InOrderSplit
<1>8. ContinuesWith(kept, stored[c], cut')
  BY <1>1, <1>2, <1>3, <1>5, ContinuesLoad
<1> HIDE DEF oldest, kept
<1>9. /\ branch[c] = <<>> /\ branch'[c] = kept /\ batch'[c] = <<>>
      /\ worker'[c] = "ask" /\ turns'[c] = 0
      /\ \A k \in Channels \ {c} : /\ branch'[k] = branch[k]
                                   /\ batch'[k] = batch[k]
                                   /\ worker'[k] = worker[k]
                                   /\ again'[k] = again[k]
                                   /\ turns'[k] = turns[k]
  <2>1. branch[c] = <<>>
    BY <1>1 DEF Inv, IInv, PlaceInv, HasBranch
  <2> QED
    BY <1>1, <2>1 DEF Inv, TypeOK
<1>10. TypeOK'
  <2>1. RangeOf(oldest) \subseteq Entries
    BY <1>6 DEF RangeOf
  <2>2. <<>> \in Seq(Events) /\ 0 \in 0 .. MaxTurns
    BY LimitsAssumption
  <2> QED
    BY <1>1, <1>6, <2>1, <2>2 DEF Inv, TypeOK
<1>11. (PlaceInv /\ OwnerInv /\ TurnInv)'
  <2>1. 0 < MaxTurns
    BY LimitsAssumption
  <2>2. PlaceInv' /\ OwnerInv'
    BY <1>1, <1>9 DEF Inv, IInv, PlaceInv, OwnerInv, HasBranch
  <2>3. TurnInv'
    BY <1>9, <2>1 DEF Inv, IInv, TurnInv
  <2> QED
    BY <2>2, <2>3
<1>12. /\ \A k \in Channels : Requested(k)' = Requested(k)
       /\ \A k \in Channels \ {c} : Held(k)' = Held(k)
       /\ Held(c)' \subseteq Held(c) /\ Held(c) \subseteq Held(c)' \cup cut'
  <2>1. \A k \in Channels : Requested(k)' = Requested(k)
    BY <1>1 DEF Requested
  <2>2. \A k \in Channels \ {c} : Held(k)' = Held(k)
    BY <1>1, <1>9 DEF Held
  <2>3. Held(c)' = RangeOf(stored[c]) \cup RangeOf(kept) \cup RangeOf(pending[c])
    BY <1>1, <1>9, NothingInOrder DEF Held
  <2>4. Held(c) = RangeOf(whole) \cup RangeOf(pending[c])
    BY <1>3, <1>9, NothingInOrder DEF Held
  <2>5. RangeOf(oldest) \subseteq cut' /\ RangeOf(kept) \subseteq RangeOf(whole)
    BY <1>1, <1>6
  <2>6. Held(c)' \subseteq Held(c) /\ Held(c) \subseteq Held(c)' \cup cut'
    BY <1>3, <1>6, <2>3, <2>4, <2>5
  <2> QED
    BY <2>1, <2>2, <2>6
<1>13. (KnownInv /\ DisjointInv /\ DroppedInv /\ PlacedInv)'
  <2>1. \A k \in Channels :
           /\ Mine(k)' \subseteq Mine(k)
           /\ Mine(k) \subseteq Mine(k)' \cup cut'
           /\ Held(k)' \cap Requested(k)' = {}
    BY <1>12 DEF Mine, Inv, IInv, KnownInv
  <2>2. \A k \in Channels : Mine(k)' \cap dropped' = {}
    BY <1>1, <2>1 DEF Inv, IInv, DroppedInv
  <2>3. cut \subseteq cut' /\ dropped' \subseteq Seen \cup said
    BY <1>1 DEF Inv, IInv, KnownInv
  <2> QED
    BY <1>1, <2>1, <2>2, <2>3, Moved DEF Inv, IInv
<1>14. WorkInv'
  <2> SUFFICES ASSUME NEW k \in Channels, HasBranch(k)'
               PROVE  ContinuesWith(branch'[k], stored'[k], cut')
    BY DEF WorkInv, ContinuesWith
  <2>1. CASE k = c
    BY <1>1, <1>8, <1>9, <2>1
  <2>2. CASE k # c
    <3>1. ContinuesWith(branch[k], stored[k], cut)
      BY <1>9, <2>2 DEF Inv, IInv, WorkInv, HasBranch
    <3>2. cut \subseteq cut'
      BY <1>1
    <3> QED
      BY <1>1, <1>9, <2>2, <3>1, <3>2, ContinuesMore
  <2> QED
    BY <2>1, <2>2
<1>15. OrderInv'
  <2> SUFFICES ASSUME NEW k \in Channels PROVE Ordered(k)'
    BY DEF OrderInv
  <2>1. CASE k # c
    BY <1>1, <1>9, <1>12, <2>1, OrderKept DEF Inv, IInv, OrderInv
  <2>2. CASE k = c
    <3>1. Ordered(c)
      BY DEF Inv, IInv, OrderInv
    <3>2. InOrder(c, whole)
      BY <1>4, <3>1 DEF Ordered, Ahead
    <3>3. InOrder(c, kept)
      BY <1>7, <3>2
    <3>4. RangeOf(kept) \subseteq RangeOf(stored[c]) \cup RangeOf(batch[c])
      BY <1>3, <1>6
    <3>5. Ahead(c, RangeOf(stored[c]) \cup RangeOf(kept), RangeOf(pending[c]))
      BY <3>1, <3>4 DEF Ordered, Ahead
    <3>6. Ahead(c, Held(c)', Requested(c)')
      BY <1>12, <3>1, AheadSubset DEF Ordered
    <3>7. Ahead(c, RangeOf(stored'[c]) \cup RangeOf(branch'[c]),
                   RangeOf(batch'[c]) \cup RangeOf(pending'[c]))
      BY <1>1, <1>9, <3>5, NothingInOrder
    <3>8. Ahead(c, RangeOf(batch'[c]), RangeOf(pending'[c]))
      BY <1>9, NothingInOrder DEF Ahead
    <3>9. /\ InOrder(c, stored'[c]) /\ InOrder(c, branch'[c])
          /\ InOrder(c, batch'[c]) /\ InOrder(c, pending'[c])
      BY <1>1, <1>9, <3>1, <3>3, NothingInOrder DEF Ordered
    <3> QED
      BY <1>1, <2>2, <3>6, <3>7, <3>8, <3>9, OrderIntro
  <2> QED
    BY <2>1, <2>2
<1> QED
  BY <1>10, <1>11, <1>13, <1>14, <1>15 DEF Inv, IInv

(* The model says something new, at the end of the branch.                 *)
LEMMA AnswerInv ==
    ASSUME Inv, NEW c \in Channels, NEW tool \in BOOLEAN, Answer(c, tool)
    PROVE  Inv'
<1>1. PICK a \in Answers :
        /\ a \notin said
        /\ said' = said \cup {a}
        /\ branch' = [branch EXCEPT ![c] = Append(@, a)]
  BY DEF Answer, Inv, TypeOK
<1>2. /\ worker[c] = "stream" /\ (tool => turns[c] < MaxTurns)
      /\ again' = [again EXCEPT ![c] = @ \/ tool]
      /\ UNCHANGED <<gateway, stop, request, owned, pending, handled, lost,
                     worker, batch, turns, stored, arrived, cut, dropped>>
  BY DEF Answer, queueVars
<1>3. /\ stored[c] \in Seq(Entries) /\ branch[c] \in Seq(Entries)
      /\ a \in Entries /\ a \notin Events
  BY Typed, EntriesAssumption DEF Inv, Entries
<1>4. /\ branch'[c] = Append(branch[c], a)
      /\ \A k \in Channels \ {c} : branch'[k] = branch[k] /\ again'[k] = again[k]
      /\ again'[c] = (again[c] \/ tool)
      /\ batch[c] = <<>>
  BY <1>1, <1>2 DEF Inv, TypeOK, IInv, PlaceInv
<1>5. RangeOf(branch'[c]) = RangeOf(branch[c]) \cup {a}
  BY <1>3, <1>4, RangeAppend, RangeIsElements
<1>6. TypeOK'
  <2>1. Append(branch[c], a) \in Seq(Entries)
    BY <1>3
  <2> QED
    BY <1>1, <1>2, <2>1 DEF Inv, TypeOK
<1>7. (PlaceInv /\ OwnerInv /\ TurnInv)'
  <2>1. PlaceInv' /\ OwnerInv'
    BY <1>2, <1>4 DEF Inv, IInv, PlaceInv, OwnerInv, HasBranch
  <2>2. TurnInv'
    BY <1>2, <1>4 DEF Inv, IInv, TurnInv
  <2> QED
    BY <2>1, <2>2
<1>8. a \notin Seen /\ a \notin dropped
  <2>1. a \notin Seen
    <3>1. \A k \in Channels : arrived[k] \in Seq(Events)
      BY Typed DEF Inv
    <3>2. \A k \in Channels : RangeOf(arrived[k]) \subseteq Events
      BY <3>1 DEF RangeOf
    <3> QED
      BY <1>3, <3>2 DEF Seen
  <2> QED
    BY <1>1, <2>1 DEF Inv, IInv, KnownInv
<1>9. /\ \A k \in Channels : Requested(k)' = Requested(k)
      /\ \A k \in Channels :
            /\ Held(k)' = Held(k) \cup (IF k = c THEN {a} ELSE {})
            /\ Mine(k)' = Mine(k) \cup (IF k = c THEN {a} ELSE {})
  <2>1. \A k \in Channels : Requested(k)' = Requested(k)
    BY <1>2 DEF Requested
  <2>2. \A k \in Channels : Held(k)' = Held(k) \cup (IF k = c THEN {a} ELSE {})
    BY <1>2, <1>4, <1>5 DEF Held
  <2> QED
    BY <2>1, <2>2 DEF Mine
<1>10. (KnownInv /\ DisjointInv /\ DroppedInv /\ PlacedInv)'
  <2> DEFINE X == {a}
  <2>1. /\ X \cap (Seen \cup said) = {} /\ said' = said \cup X
        /\ X \subseteq Mine(c)' \cup dropped'
    BY <1>1, <1>8, <1>9
  <2>2. \A k \in Channels :
           /\ Mine(k)' \subseteq Mine(k) \cup (IF k = c THEN X ELSE {})
           /\ Mine(k) \subseteq Mine(k)' \cup cut' \cup dropped'
    BY <1>9
  <2>3. \A k \in Channels : Requested(k) \subseteq Events
    BY DEF Requested, Inv, TypeOK
  <2>4. \A k \in Channels : Held(k)' \cap Requested(k)' = {}
    BY <1>3, <1>9, <2>3 DEF Inv, IInv, KnownInv
  <2>5. \A k \in Channels : Mine(k)' \cap dropped' = {}
    BY <1>2, <1>8, <1>9 DEF Inv, IInv, DroppedInv
  <2>6. dropped' \subseteq Seen \cup said'
    BY <1>2, <2>1 DEF Inv, IInv, KnownInv
  <2> HIDE DEF X
  <2> QED
    BY <1>2, <2>1, <2>2, <2>4, <2>5, <2>6, Bookkeeping DEF Inv, IInv
<1>11. WorkInv'
  <2> SUFFICES ASSUME NEW k \in Channels, HasBranch(k)'
               PROVE  ContinuesWith(branch'[k], stored[k], cut)
    BY <1>2 DEF WorkInv, ContinuesWith
  <2>1. ContinuesWith(branch[k], stored[k], cut)
    BY <1>2 DEF Inv, IInv, WorkInv, HasBranch
  <2>2. stored[k] \in Seq(Entries) /\ branch[k] \in Seq(Entries)
    BY Typed DEF Inv
  <2>3. CASE k = c
    <3>1. ContinuesWith(Append(branch[c], a), stored[c], cut)
      BY <1>3, <2>1, <2>3, ContinuesFacts
    <3> QED
      BY <1>4, <2>3, <3>1
  <2>4. CASE k # c
    BY <1>4, <2>1, <2>4
  <2> QED
    BY <2>3, <2>4
<1>12. OrderInv'
  <2> SUFFICES ASSUME NEW k \in Channels PROVE Ordered(k)'
    BY DEF OrderInv
  <2>1. CASE k # c
    BY <1>2, <1>4, <1>9, <2>1, OrderKept DEF Inv, IInv, OrderInv
  <2>2. CASE k = c
    <3>1. Ordered(c)
      BY DEF Inv, IInv, OrderInv
    <3>2. InOrder(c, branch'[c])
      <4>1. InOrder(c, branch[c]) /\ Ahead(c, RangeOf(branch[c]), {a})
        BY <1>3, <3>1 DEF Ordered, Ahead
      <4> QED
        BY <1>3, <1>4, <4>1, InOrderAppend
    <3>3. Ahead(c, RangeOf(stored[c]) \cup RangeOf(branch'[c]),
                   RangeOf(batch[c]) \cup RangeOf(pending[c]))
      BY <1>3, <1>5, <3>1 DEF Ordered, Ahead
    <3>4. Ahead(c, Held(c)', Requested(c)')
      BY <1>3, <1>9, <3>1 DEF Ordered, Ahead
    <3> QED
      BY <1>2, <2>2, <3>1, <3>2, <3>3, <3>4, OrderIntro DEF Ordered
  <2> QED
    BY <2>1, <2>2
<1> QED
  BY <1>6, <1>7, <1>10, <1>11, <1>12 DEF Inv, IInv

(* put replaces a session by a branch that continues it.                   *)
LEMMA PutInv ==
    ASSUME Inv, NEW c \in Channels, Put(c)
    PROVE  Inv'
<1>1. /\ worker[c] = "put"
      /\ stored' = [stored EXCEPT ![c] = branch[c]]
      /\ branch' = IF again[c] THEN branch ELSE [branch EXCEPT ![c] = <<>>]
      /\ worker' = [worker EXCEPT ![c] = IF again[c] THEN "ask" ELSE "top"]
      /\ UNCHANGED <<gateway, stop, request, owned, pending, handled, lost,
                     batch, again, turns, arrived, said, cut, dropped>>
  BY DEF Put, Goto, queueVars
<1>2. /\ stored[c] \in Seq(Entries) /\ branch[c] \in Seq(Entries)
      /\ batch[c] = <<>>
  BY <1>1, Typed DEF Inv, IInv, PlaceInv
<1>3. /\ stored'[c] = branch[c]
      /\ branch'[c] = (IF again[c] THEN branch[c] ELSE <<>>)
      /\ worker'[c] = (IF again[c] THEN "ask" ELSE "top")
      /\ \A k \in Channels \ {c} : /\ stored'[k] = stored[k]
                                   /\ branch'[k] = branch[k]
                                   /\ worker'[k] = worker[k]
  BY <1>1 DEF Inv, TypeOK
<1>4. TypeOK'
  <2>1. <<>> \in Seq(Entries)
    OBVIOUS
  <2> QED
    BY <1>1, <1>2, <2>1 DEF Inv, TypeOK
<1>5. (PlaceInv /\ OwnerInv /\ TurnInv)'
  <2>1. PlaceInv' /\ OwnerInv'
    BY <1>1, <1>2, <1>3 DEF Inv, IInv, PlaceInv, OwnerInv, HasBranch
  <2>2. TurnInv'
    BY <1>1, <1>3 DEF Inv, IInv, TurnInv
  <2> QED
    BY <2>1, <2>2
<1>6. RangeOf(stored[c]) \subseteq RangeOf(branch[c]) \cup cut
  BY <1>1, <1>2, ContinuesFacts DEF Inv, IInv, WorkInv, HasBranch
<1>7. /\ \A k \in Channels : Requested(k)' = Requested(k)
      /\ \A k \in Channels \ {c} : Held(k)' = Held(k)
      /\ Held(c)' \subseteq Held(c) /\ Held(c) \subseteq Held(c)' \cup cut'
  <2>1. \A k \in Channels : Requested(k)' = Requested(k)
    BY <1>1 DEF Requested
  <2>2. \A k \in Channels \ {c} : Held(k)' = Held(k)
    BY <1>1, <1>3 DEF Held
  <2>3. Held(c)' = RangeOf(branch[c]) \cup RangeOf(pending[c])
    BY <1>1, <1>2, <1>3, NothingInOrder DEF Held
  <2>4. Held(c)' \subseteq Held(c) /\ Held(c) \subseteq Held(c)' \cup cut'
    BY <1>1, <1>2, <1>6, <2>3, NothingInOrder DEF Held
  <2> QED
    BY <2>1, <2>2, <2>4
<1>8. (KnownInv /\ DisjointInv /\ DroppedInv /\ PlacedInv)'
  <2>1. \A k \in Channels :
           /\ Mine(k)' \subseteq Mine(k)
           /\ Mine(k) \subseteq Mine(k)' \cup cut'
           /\ Held(k)' \cap Requested(k)' = {}
    BY <1>7 DEF Mine, Inv, IInv, KnownInv
  <2>2. \A k \in Channels : Mine(k)' \cap dropped' = {}
    BY <1>1, <2>1 DEF Inv, IInv, DroppedInv
  <2>3. cut \subseteq cut' /\ dropped' \subseteq Seen \cup said
    BY <1>1 DEF Inv, IInv, KnownInv
  <2> QED
    BY <1>1, <2>1, <2>2, <2>3, Moved DEF Inv, IInv
<1>9. WorkInv'
  <2> SUFFICES ASSUME NEW k \in Channels, HasBranch(k)'
               PROVE  ContinuesWith(branch'[k], stored'[k], cut)
    BY <1>1 DEF WorkInv, ContinuesWith
  <2>1. CASE k = c
    <3>1. branch'[c] = branch[c]
      BY <1>3, <2>1 DEF HasBranch
    <3>2. ContinuesWith(branch[c], branch[c], cut)
      BY <1>2, ContinuesFacts
    <3> QED
      BY <1>3, <2>1, <3>1, <3>2
  <2>2. CASE k # c
    BY <1>3, <2>2 DEF Inv, IInv, WorkInv, HasBranch
  <2> QED
    BY <2>1, <2>2
<1>10. OrderInv'
  <2> SUFFICES ASSUME NEW k \in Channels PROVE Ordered(k)'
    BY DEF OrderInv
  <2>1. CASE k # c
    BY <1>1, <1>3, <1>7, <2>1, OrderKept DEF Inv, IInv, OrderInv
  <2>2. CASE k = c
    <3>1. Ordered(c)
      BY DEF Inv, IInv, OrderInv
    <3>2. Ahead(c, Held(c)', Requested(c)')
      BY <1>7, <3>1, AheadSubset DEF Ordered
    <3>3. RangeOf(branch'[c]) \subseteq RangeOf(branch[c]) /\ InOrder(c, branch'[c])
      BY <1>3, <3>1, NothingInOrder DEF Ordered
    <3>4. Ahead(c, RangeOf(stored'[c]) \cup RangeOf(branch'[c]),
                   RangeOf(batch'[c]) \cup RangeOf(pending'[c]))
      BY <1>1, <1>3, <3>1, <3>3 DEF Ordered, Ahead
    <3> QED
      BY <1>1, <1>3, <2>2, <3>1, <3>2, <3>3, <3>4, OrderIntro DEF Ordered
  <2> QED
    BY <2>1, <2>2
<1> QED
  BY <1>4, <1>5, <1>8, <1>9, <1>10 DEF Inv, IInv

(* The worker fails, after it posted what it had not said before or not.   *)
LEMMA AbortInv ==
    ASSUME Inv, NEW c \in Channels, NEW posted \in SUBSET Answers,
           posted \cap said = {}, Abort(c, posted)
    PROVE  Inv'
<1>1. /\ owned' = [owned EXCEPT ![c] = FALSE]
      /\ lost' = lost \cup KQ!RangeOf(pending[c])
      /\ pending' = [pending EXCEPT ![c] = <<>>]
      /\ said' = said \cup posted
      /\ dropped' = dropped \cup InMemory(c) \cup posted
      /\ batch' = [batch EXCEPT ![c] = <<>>]
      /\ branch' = [branch EXCEPT ![c] = <<>>]
      /\ again' = [again EXCEPT ![c] = FALSE]
      /\ turns' = [turns EXCEPT ![c] = 0]
      /\ worker' = [worker EXCEPT ![c] = "none"]
      /\ UNCHANGED <<gateway, stop, request, handled, stored, arrived, cut>>
  BY DEF Abort, KQ!Abandon, Goto
<1>2. /\ \A k \in Channels \ {c} :
            /\ owned'[k] = owned[k] /\ pending'[k] = pending[k]
            /\ batch'[k] = batch[k] /\ branch'[k] = branch[k]
            /\ again'[k] = again[k] /\ turns'[k] = turns[k]
            /\ worker'[k] = worker[k]
      /\ owned'[c] = FALSE /\ pending'[c] = <<>> /\ batch'[c] = <<>>
      /\ branch'[c] = <<>> /\ again'[c] = FALSE /\ worker'[c] = "none"
  BY <1>1 DEF Inv, TypeOK
<1>3. /\ stored[c] \in Seq(Entries) /\ branch[c] \in Seq(Entries)
      /\ batch[c] \in Seq(Entries) /\ pending[c] \in Seq(Events)
  BY Typed DEF Inv
<1>4. TypeOK'
  <2>1. KQ!RangeOf(pending[c]) \subseteq Events
    BY <1>3 DEF KQ!RangeOf
  <2>2. InMemory(c) \subseteq Entries /\ posted \subseteq Entries
    BY <1>3 DEF InMemory, RangeOf, Entries
  <2>3. <<>> \in Seq(Events) /\ <<>> \in Seq(Entries) /\ 0 \in 0 .. MaxTurns
    BY LimitsAssumption
  <2> QED
    BY <1>1, <2>1, <2>2, <2>3 DEF Inv, TypeOK
<1>5. (PlaceInv /\ OwnerInv /\ TurnInv)'
  <2>1. PlaceInv' /\ OwnerInv'
    BY <1>2 DEF Inv, IInv, PlaceInv, OwnerInv, HasBranch
  <2>2. TurnInv'
    BY <1>2 DEF Inv, IInv, TurnInv
  <2> QED
    BY <2>1, <2>2
<1>6. /\ posted \cap (Seen \cup said) = {}
      /\ \A k \in Channels : posted \cap Mine(k) = {}
  <2>1. \A k \in Channels : arrived[k] \in Seq(Events)
    BY Typed DEF Inv
  <2>2. \A k \in Channels : RangeOf(arrived[k]) \subseteq Events
    BY <2>1 DEF RangeOf
  <2>3. Seen \subseteq Events
    BY <2>2 DEF Seen
  <2> QED
    BY <2>2, <2>3, EntriesAssumption DEF Inv, IInv, KnownInv
<1>7. /\ \A k \in Channels : Requested(k)' = Requested(k)
      /\ \A k \in Channels \ {c} : Held(k)' = Held(k)
      /\ Held(c)' = RangeOf(stored[c])
      /\ Held(c) = RangeOf(stored[c]) \cup InMemory(c)
      /\ RangeOf(stored[c]) \cap InMemory(c) = {}
  <2>1. \A k \in Channels : Requested(k)' = Requested(k)
    BY <1>1 DEF Requested
  <2>2. \A k \in Channels \ {c} : Held(k)' = Held(k)
    BY <1>1, <1>2 DEF Held
  <2>3. Held(c)' = RangeOf(stored[c])
    BY <1>1, <1>2, NothingInOrder DEF Held
  <2>4. /\ Held(c) = RangeOf(stored[c]) \cup InMemory(c)
        /\ RangeOf(stored[c]) \cap InMemory(c) = {}
    BY DEF Held, InMemory
  <2> QED
    BY <2>1, <2>2, <2>3, <2>4
<1>8. (KnownInv /\ DisjointInv /\ DroppedInv /\ PlacedInv)'
  <2>1. \A k \in Channels :
           /\ Mine(k)' \subseteq Mine(k)
           /\ Mine(k) \subseteq Mine(k)' \cup dropped'
           /\ Held(k)' \cap Requested(k)' = {}
    BY <1>1, <1>7 DEF Mine, Inv, IInv, KnownInv
  <2>2. ASSUME NEW k \in Channels
        PROVE  Mine(k)' \cap InMemory(c) = {}
    <3>1. CASE k = c
      BY <1>7, <3>1 DEF Mine, Inv, IInv, KnownInv
    <3>2. CASE k # c
      <4>1. Mine(k) \cap Mine(c) = {}
        BY <3>2 DEF Inv, IInv, DisjointInv
      <4> QED
        BY <1>7, <2>1, <4>1 DEF Mine
    <3> QED
      BY <3>1, <3>2
  <2>3. \A k \in Channels : Mine(k)' \cap dropped' = {}
    BY <1>1, <1>6, <2>1, <2>2 DEF Inv, IInv, DroppedInv
  <2>4. InMemory(c) \subseteq Seen \cup said
    BY <1>7 DEF Inv, IInv, KnownInv, Mine, Seen
  <2>5. dropped' \subseteq Seen \cup said'
    BY <1>1, <2>4 DEF Inv, IInv, KnownInv
  <2>6. \A k \in Channels :
           /\ Mine(k)' \subseteq Mine(k) \cup (IF k = c THEN posted ELSE {})
           /\ Mine(k) \subseteq Mine(k)' \cup cut' \cup dropped'
           /\ Held(k)' \cap Requested(k)' = {}
           /\ Mine(k)' \cap dropped' = {}
    BY <2>1, <2>3
  <2>7. /\ cut \subseteq cut' /\ dropped \subseteq dropped'
        /\ posted \subseteq Mine(c)' \cup dropped'
    BY <1>1
  <2>8. arrived' = arrived /\ said' = said \cup posted
    BY <1>1
  <2>9. KnownInv /\ DisjointInv /\ DroppedInv /\ PlacedInv
    BY DEF Inv, IInv
  <2> QED
    BY <1>6, <2>5, <2>6, <2>7, <2>8, <2>9, Bookkeeping
<1>9. WorkInv'
  BY <1>1, <1>2 DEF Inv, IInv, WorkInv, HasBranch
<1>10. OrderInv'
  <2> SUFFICES ASSUME NEW k \in Channels PROVE Ordered(k)'
    BY DEF OrderInv
  <2>1. CASE k # c
    BY <1>1, <1>2, <1>7, <2>1, OrderKept DEF Inv, IInv, OrderInv
  <2>2. CASE k = c
    <3>1. InOrder(c, stored[c]) /\ Ahead(c, Held(c)', Requested(c)')
      <4>1. Ordered(c) /\ Held(c)' \subseteq Held(c)
        BY <1>7 DEF Inv, IInv, OrderInv
      <4> QED
        BY <1>7, <4>1, AheadSubset DEF Ordered
    <3> QED
      BY <1>1, <1>2, <2>2, <3>1, NothingInOrder, OrderIntro DEF Ahead
  <2> QED
    BY <2>1, <2>2
<1> QED
  BY <1>4, <1>5, <1>8, <1>9, <1>10 DEF Inv, IInv

(* Every step of gateway task, workers and process preserves it.           *)
LEMMA StepInv == Inv /\ [Next]_vars => Inv'
<1> SUFFICES ASSUME Inv, [Next]_vars PROVE Inv'
  OBVIOUS
<1>1. ASSUME NEW k \in Channels, WorkerStep(k)
      PROVE  Inv'
  BY <1>1, QuietWorkerInv, ReceiveInv, LoadInv, PutInv DEF WorkerStep
<1>2. ASSUME NEW k \in Channels, Fail(k) \/ FailPosted(k)
      PROVE  Inv'
  <2>1. PICK posted \in SUBSET Answers :
          posted \cap said = {} /\ Abort(k, posted)
    <3>1. CASE Fail(k)
      BY <3>1 DEF Fail
    <3>2. CASE FailPosted(k)
      <4>1. PICK a \in Answers : a \notin said /\ Abort(k, {a})
        BY <3>2 DEF FailPosted, Inv, TypeOK
      <4> QED
        BY <4>1
    <3> QED
      BY <1>2, <3>1, <3>2
  <2> QED
    BY <2>1, AbortInv
<1>3. ASSUME NEW k \in Channels,
             Answer(k, FALSE) \/ Answer(k, TRUE)
      PROVE  Inv'
  BY <1>3, AnswerInv
<1> QED
  BY <1>1, <1>2, <1>3, GatewayInv, ProcessGoneInv, NextEventInv, EnqueueInv
     DEF Next

-----------------------------------------------------------------------------
(* The theorems.                                                           *)

(* Every variable keeps its type, and no worker takes more turns than its  *)
(* tools ask for.                                                          *)
THEOREM TypeCorrect == Spec => []TypeOK
<1>1. Inv => TypeOK
  BY DEF Inv
<1> QED
  BY <1>1, InitInv, StepInv, PTL DEF Spec

(* A channel's key is owned exactly while a worker serves it, and messages *)
(* wait only for a channel that has a worker (lib.rs:150-160).             *)
THEOREM KeyOwnedWhileServed == Spec => []OwnerInv
<1>1. Inv => OwnerInv
  BY DEF Inv, IInv
<1> QED
  BY <1>1, InitInv, StepInv, PTL DEF Spec

(* No message and no answer goes missing without a failure, and what a     *)
(* failure dropped is in no session (worker.rs:37-355).                    *)
THEOREM NothingMissing == Spec => []Accounted
<1>1. Inv => Accounted
  <2> SUFFICES ASSUME Inv, NEW x \in Seen \cup said
               PROVE  /\ InFlight(x) \/ Settled(x)
                      /\ x \in dropped => ~Stored(x)
    BY DEF Accounted
  <2>1. InFlight(x) \/ Settled(x)
    <3>1. CASE x \in cut \cup dropped
      BY <3>1 DEF Settled
    <3>2. ASSUME NEW k \in Channels, x \in Mine(k)
          PROVE  InFlight(x) \/ Settled(x)
      BY <3>2 DEF Mine, Held, Requested, InFlight, Settled, Stored
    <3> QED
      BY <3>1, <3>2 DEF Inv, IInv, PlacedInv
  <2>2. ASSUME x \in dropped, NEW k \in Channels
        PROVE  x \notin RangeOf(stored[k])
    BY <2>2 DEF Inv, IInv, DroppedInv, Mine, Held
  <2> QED
    BY <2>1, <2>2 DEF Stored
<1> QED
  BY <1>1, InitInv, StepInv, PTL DEF Spec

(* The messages of a session are in the order of the shard, each at most   *)
(* once, whatever batches, failures and restarts there were (lib.rs:139,   *)
(* worker.rs:56-103).                                                      *)
THEOREM SessionsInOrder == Spec => []StoredInOrder
<1>1. Inv => StoredInOrder
  <2> SUFFICES ASSUME Inv, NEW k \in Channels
               PROVE  LET heard == {i \in DOMAIN stored[k] : stored[k][i] \in Events} IN
                      /\ {stored[k][i] : i \in heard} \subseteq RangeOf(arrived[k])
                      /\ \A i, j \in heard :
                            i < j => Before(k, stored[k][i], stored[k][j])
    BY DEF StoredInOrder
  <2>1. InOrder(k, stored[k])
    BY DEF Inv, IInv, OrderInv, Ordered
  <2>2. ASSUME NEW i \in DOMAIN stored[k], stored[k][i] \in Events
        PROVE  stored[k][i] \in RangeOf(arrived[k])
    <3>1. stored[k][i] \in Mine(k)
      BY DEF Mine, Held, RangeOf
    <3>2. stored[k][i] \notin said
      BY <2>2, EntriesAssumption DEF Inv, TypeOK
    <3> QED
      BY <3>1, <3>2 DEF Inv, IInv, KnownInv
  <2> QED
    BY <2>1, <2>2 DEF InOrder
<1> QED
  BY <1>1, InitInv, StepInv, PTL DEF Spec

(* No put discards what an earlier one stored, except by slicing           *)
(* (worker.rs:61-65, 349-351).                                             *)
THEOREM NoUpdateLost == Spec => NoLostUpdate
<1> DEFINE Kept == \A k \in Channels : Continues(stored'[k], stored[k])
<1>1. ASSUME Inv, [Next]_vars
      PROVE  Kept
  <2> SUFFICES ASSUME NEW k \in Channels
               PROVE  Continues(stored'[k], stored[k])
    OBVIOUS
  <2>1. stored[k] \in Seq(Entries) /\ branch[k] \in Seq(Entries)
    BY <1>1, Typed DEF Inv
  <2>2. CASE stored'[k] = stored[k]
    BY <2>1, <2>2, ContinuesFacts, ContinuesMeans
  <2>3. ASSUME NEW c \in Channels, Put(c)
        PROVE  stored'[k] = stored[k] \/ (stored'[k] = branch[k] /\ HasBranch(k))
    BY <1>1, <2>3 DEF Put, Inv, TypeOK, HasBranch
  <2>4. CASE stored'[k] = branch[k] /\ HasBranch(k)
    BY <1>1, <2>1, <2>4, ContinuesMeans DEF Inv, IInv, WorkInv
  <2>5. stored' # stored => \E c \in Channels : Put(c)
    BY <1>1
       DEF Next, vars, Start, StopCall, CloseSeen, ShardEnds, LeaveLoop, Drained,
           StopReturn, ProcessGone, NextEvent, Enqueue, WorkerStep, Finish,
           Continue, Receive, Load, LoadWith, Ask, EndStream, Answer, Fail,
           FailPosted, Abort
  <2> QED
    BY <2>2, <2>3, <2>4, <2>5
<1>2. Inv /\ [Next]_vars => [Kept]_vars
  BY <1>1
<1> HIDE DEF Kept
<1>3. Spec => [][Kept]_vars
  BY <1>2, InitInv, StepInv, PTL DEF Spec
<1> QED
  BY <1>3 DEF NoLostUpdate, Kept

-----------------------------------------------------------------------------
(* Stopping.                                                               *)

(* stop has returned only from a task that is done, and the task leaves    *)
(* its loop only between two events.                                       *)
StopInv ==
    /\ stop = "returned" => gateway = "done"
    /\ gateway # "running" => request[Gateway] = <<>>

(* A step of a worker leaves the gateway task and its request alone.       *)
LEMMA WorkerLeavesGateway ==
    ASSUME NEW k \in Channels,
           \/ WorkerStep(k) \/ Answer(k, FALSE) \/ Answer(k, TRUE)
           \/ Fail(k) \/ FailPosted(k)
    PROVE  UNCHANGED <<gateway, stop, request, arrived>>
<1>1. CASE WorkerStep(k)
  BY <1>1
     DEF WorkerStep, Finish, Continue, Receive, Load, LoadWith, Ask, EndStream,
         Put, KQ!Finish, KQ!Deliver, queueVars
<1>2. CASE Answer(k, FALSE) \/ Answer(k, TRUE)
  BY <1>2 DEF Answer, queueVars
<1>3. CASE Fail(k) \/ FailPosted(k)
  BY <1>3 DEF Fail, FailPosted, Abort, KQ!Abandon
<1> QED
  BY <1>1, <1>2, <1>3

(* StopInv is inductive.                                                   *)
LEMMA StopInvStep == TypeOK /\ StopInv /\ [Next]_vars => StopInv'
<1> SUFFICES ASSUME TypeOK, StopInv, [Next]_vars PROVE StopInv'
  OBVIOUS
<1>1. CASE UNCHANGED vars
  BY <1>1 DEF vars, queueVars, StopInv
<1>2. CASE Start \/ StopCall \/ CloseSeen \/ ShardEnds \/ Drained \/ StopReturn
  BY <1>2
     DEF Start, StopCall, CloseSeen, ShardEnds, LeaveLoop, Drained, StopReturn,
         queueVars, StopInv
<1>3. CASE ProcessGone
  <2>1. request'[Gateway] = <<>> /\ stop' = "none"
    BY <1>3 DEF ProcessGone
  <2> QED
    BY <2>1 DEF StopInv
<1>4. ASSUME NEW k \in Channels, NextEvent(k)
      PROVE  StopInv'
  BY <1>4 DEF NextEvent, StopInv
<1>5. ASSUME NEW k \in Channels, NEW e \in Events, Enqueue(k, e)
      PROVE  StopInv'
  BY <1>5 DEF Enqueue, StopInv
<1>6. ASSUME NEW k \in Channels,
             \/ WorkerStep(k) \/ Answer(k, FALSE) \/ Answer(k, TRUE)
             \/ Fail(k) \/ FailPosted(k)
      PROVE  StopInv'
  BY <1>6, WorkerLeavesGateway DEF StopInv
<1> QED
  BY <1>1, <1>2, <1>3, <1>4, <1>5, <1>6 DEF Next

(* Messages are taken from the shard by a gateway task that runs.          *)
LEMMA TakenWhileRunning ==
    ASSUME [Next]_vars, gateway # "running"
    PROVE  arrived' = arrived
<1>1. CASE UNCHANGED vars
  BY <1>1 DEF vars
<1>2. CASE Start \/ StopCall \/ CloseSeen \/ ShardEnds \/ Drained \/ StopReturn
  BY <1>2
     DEF Start, StopCall, CloseSeen, ShardEnds, LeaveLoop, Drained, StopReturn
<1>3. CASE ProcessGone
  BY <1>3 DEF ProcessGone
<1>4. ASSUME NEW k \in Channels,
             NextEvent(k) \/ \E e \in Events : Enqueue(k, e)
      PROVE  FALSE
  BY <1>4 DEF NextEvent, Enqueue
<1>5. ASSUME NEW k \in Channels,
             \/ WorkerStep(k) \/ Answer(k, FALSE) \/ Answer(k, TRUE)
             \/ Fail(k) \/ FailPosted(k)
      PROVE  arrived' = arrived
  BY <1>5, WorkerLeavesGateway
<1> QED
  BY <1>1, <1>2, <1>3, <1>4, <1>5 DEF Next

(* It is that task, too, that starts a worker where there is none.         *)
LEMMA StartedByGateway ==
    ASSUME TypeOK, [Next]_vars, gateway # "running", NEW j \in Channels,
           worker[j] = "none"
    PROVE  worker'[j] = "none"
<1>1. CASE UNCHANGED vars
  BY <1>1 DEF vars, workerVars
<1>2. CASE Start \/ StopCall \/ CloseSeen \/ ShardEnds \/ Drained \/ StopReturn
  BY <1>2
     DEF Start, StopCall, CloseSeen, ShardEnds, LeaveLoop, Drained, StopReturn,
         workerVars
<1>3. CASE ProcessGone
  BY <1>3 DEF ProcessGone
<1>4. ASSUME NEW k \in Channels,
             NextEvent(k) \/ \E e \in Events : Enqueue(k, e)
      PROVE  FALSE
  BY <1>4 DEF NextEvent, Enqueue
<1>5. ASSUME NEW k \in Channels,
             \/ WorkerStep(k) \/ Answer(k, FALSE) \/ Answer(k, TRUE)
             \/ Fail(k) \/ FailPosted(k)
      PROVE  worker'[j] = "none"
  <2>1. worker[k] # "none"
    BY <1>5
       DEF WorkerStep, Finish, Continue, Receive, Load, LoadWith, Ask, EndStream,
           Put, Answer, Fail, FailPosted
  <2>2. worker' = worker \/ \E place : worker' = [worker EXCEPT ![k] = place]
    BY <1>5
       DEF WorkerStep, Finish, Continue, Receive, Load, LoadWith, Ask, EndStream,
           Put, Answer, Fail, FailPosted, Abort, Goto, KQ!Finish
  <2> QED
    BY <2>1, <2>2 DEF TypeOK
<1> QED
  BY <1>1, <1>2, <1>3, <1>4, <1>5 DEF Next

(* Once stop has returned, no message is taken from the shard, no worker   *)
(* starts, and what was taken is settled or with a worker (lib.rs:139-158, *)
(* 179-185).                                                               *)
THEOREM StopLeavesNothingBehind == Spec => StopSeals
<1> DEFINE Sealed ==
              stop = "returned" =>
                /\ arrived' = arrived
                /\ \A k \in Channels : worker[k] = "none" => worker'[k] = "none"
                /\ \A e \in Seen :
                    \/ Settled(e)
                    \/ \E k \in Channels : worker[k] # "none" /\ e \in InHands(k)
<1>1. ASSUME Inv, StopInv, [Next]_vars
      PROVE  Sealed
  <2> SUFFICES ASSUME stop = "returned" PROVE Sealed
    OBVIOUS
  <2>1. gateway # "running" /\ request[Gateway] = <<>>
    BY <1>1 DEF StopInv
  <2>2. \A k \in Channels :
          worker[k] = "none" => worker'[k] = "none"
    BY <1>1, <2>1, StartedByGateway DEF Inv
  <2>3. arrived' = arrived
    BY <1>1, <2>1, TakenWhileRunning
  <2>4. ASSUME NEW e \in Seen, ~Settled(e)
        PROVE  \E k \in Channels : worker[k] # "none" /\ e \in InHands(k)
    <3>1. e \notin cut \cup dropped /\ \A k \in Channels : e \notin RangeOf(stored[k])
      BY <2>4 DEF Settled, Stored
    <3>2. PICK k \in Channels : e \in Mine(k)
      BY <1>1, <3>1 DEF Inv, IInv, PlacedInv
    <3>3. e \in InHands(k)
      BY <2>1, <3>1, <3>2 DEF Mine, Held, Requested, InHands
    <3>4. worker[k] # "none"
      <4>1. RangeOf(<<>>) = {}
        BY DEF RangeOf
      <4> QED
        BY <1>1, <3>3, <4>1 DEF Inv, IInv, PlaceInv, OwnerInv, HasBranch, InHands
    <3> QED
      BY <3>3, <3>4
  <2> QED
    BY <2>2, <2>3, <2>4
<1>2. Inv /\ StopInv /\ [Next]_vars => [Sealed]_vars
  BY <1>1
<1>3. Init => StopInv
  BY DEF Init, StopInv, KQ!Init
<1>4. Inv /\ StopInv /\ [Next]_vars => StopInv'
  BY StopInvStep DEF Inv
<1> HIDE DEF Sealed
<1>5. Spec => [][Sealed]_vars
  BY <1>2, <1>3, <1>4, InitInv, StepInv, PTL DEF Spec
<1> QED
  BY <1>5 DEF StopSeals, Sealed
=============================================================================
