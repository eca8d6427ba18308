-------------------------- MODULE ChatAdapterProofs --------------------------
(***************************************************************************)
(* Proofs about OpenAIStream and ChatAdapter for any deltas that a server  *)
(* may send, any indexes of parallel calls, and responses of any length.   *)
(*                                                                         *)
(* Both layers are shown to implement Response.  What the provider yields  *)
(* and has still to yield is one sequence that only grows: the inductive   *)
(* invariant says that each event of it may follow the ones before it,     *)
(* that open_channels is what is open in it, and at most one channel, and  *)
(* where its texts come from.                                              *)
(*                                                                         *)
(* A request is a statement about data: each of its entries is shown to    *)
(* be a run of entries of the branch, from the last place before it that   *)
(* starts one.                                                             *)
(***************************************************************************)
EXTENDS ChatAdapter, SequenceTheorems, FiniteSetTheorems, WellFoundedInduction, TLAPS

-----------------------------------------------------------------------------
(* Sequences of events.                                                    *)

ChannelKinds == {"message", "tool"}

Occurs(s, kind, step, c) ==
    \E i \in DOMAIN s : s[i].kind = kind /\ s[i].step = step /\ s[i].channel = c
IsOpen(s, kind, c) == Occurs(s, kind, "start", c) /\ ~Occurs(s, kind, "complete", c)
NoneOpen(s) == \A k \in ChannelKinds, c \in ChannelIds : ~IsOpen(s, k, c)

(* An event may come after s: what Response asks of it.                    *)
MayFollow(s, e) ==
    \/ /\ e.step = "start"
       /\ e.kind \in ChannelKinds /\ e.channel \in ChannelIds
       /\ NoneOpen(s)
       /\ \A k \in ChannelKinds : ~Occurs(s, k, "start", e.channel)
    \/ /\ e.step \in {"chunk", "complete"}
       /\ e.kind \in ChannelKinds /\ e.channel \in ChannelIds
       /\ IsOpen(s, e.kind, e.channel)
    \/ e.kind = "other" /\ e.step = "whole" /\ e.channel = 0
InOrder(s) == \A n \in DOMAIN s : MayFollow(SubSeq(s, 1, n - 1), s[n])

(* Events that carry the text of one of the first n deltas, in order, and  *)
(* completes that carry none.                                              *)
Carrier(e) == e.step \in {"chunk", "whole"}
Texts(s, n) ==
    /\ \A i \in DOMAIN s : Carrier(s[i]) =>
          s[i].text = <<s[i].text[1]>> /\ s[i].text[1] \in 1 .. n
    /\ \A i, j \in DOMAIN s :
          Carrier(s[i]) /\ Carrier(s[j]) /\ i < j => s[i].text[1] < s[j].text[1]
    /\ \A i \in DOMAIN s : s[i].step = "complete" => s[i].text = <<>>
Yields(s, p) == \E i \in DOMAIN s : Carrier(s[i]) /\ s[i].text[1] = p

(* Arguments follow the start of the call that the deltas w mean.          *)
StartsCall(w, r, index) == HasCall(w[r], "start") /\ w[r].index = index
LatestStart(w, q, p, index) ==
    StartsCall(w, q, index) /\ \A r \in q + 1 .. p : ~StartsCall(w, r, index)
Arguments(s, w) ==
    \A i \in DOMAIN s : s[i].kind = "tool" /\ s[i].step = "chunk" =>
        \E j \in 1 .. i - 1, q \in 1 .. s[i].text[1] :
            /\ s[j] = Event("tool", "start", s[i].channel, <<q>>)
            /\ LatestStart(w, q, s[i].text[1], w[s[i].text[1]].index)

(* The channels ch are the ones that are open, and the open call is the    *)
(* latest one of its index.                                                *)
KeysOpen(s, ch) ==
    \A k \in ChannelKinds, c \in ChannelIds :
        IsOpen(s, k, c) <=> \E key \in DOMAIN ch : KindOf(key) = k /\ ch[key] = c
CallsLatest(s, w, ch) ==
    \A index \in Indexes : ToolKey(index) \in DOMAIN ch =>
        \E j \in DOMAIN s, q \in DOMAIN w :
            /\ s[j] = Event("tool", "start", ch[ToolKey(index)], <<q>>)
            /\ LatestStart(w, q, Len(w), index)

(* What is yielded, s, is right for the deltas w, of which the first n     *)
(* have been worked off.                                                   *)
Sound(s, w, n, ch, f) ==
    /\ s \in Seq(Events) /\ InOrder(s)
    /\ Texts(s, n) /\ Arguments(s, w)
    /\ KeysOpen(s, ch) /\ CallsLatest(s, w, ch)
    /\ \A k \in ChannelKinds, c \in ChannelIds : Occurs(s, k, "start", c) => c < f
    /\ \A p \in 1 .. n : SingleText(w[p]) => Yields(s, p)

ProviderTypes ==
    /\ gen \in {"idle", "request", "pull", "last"} \cup Final
    /\ wire \in Seq(Deltas) /\ Len(wire) <= MaxDeltas
    /\ todo \in Seq(Events) /\ out \in Seq(Events)
    /\ fresh \in 1 .. Len(wire) + 1
    /\ DOMAIN channels \subseteq Keys
    /\ \A key \in DOMAIN channels : channels[key] \in 1 .. fresh - 1
    /\ \A key, other \in DOMAIN channels : key = other

ProviderInv ==
    /\ ProviderTypes
    /\ \E n \in 0 .. Len(wire) :
          /\ n = Len(wire) \/ (gen = "failed" /\ n = Len(wire) - 1)
          /\ Sound(Yielding, wire, n, channels, fresh)
    /\ gen = "last" => DOMAIN channels = {}

(* What occurs in a sequence to which an event is added.                   *)
LEMMA OccursAppend ==
    ASSUME NEW s \in Seq(Events), NEW e \in Events
    PROVE  \A k, st, c : Occurs(Append(s, e), k, st, c)
              <=> Occurs(s, k, st, c) \/ (e.kind = k /\ e.step = st /\ e.channel = c)
<1> DEFINE t == Append(s, e)
<1>1. /\ DOMAIN t = DOMAIN s \cup {Len(s) + 1}
      /\ \A i \in DOMAIN s : t[i] = s[i]
      /\ t[Len(s) + 1] = e
  BY AppendProperties, LenProperties
<1> HIDE DEF t
<1>2. \A k, st, c : Occurs(t, k, st, c)
         <=> Occurs(s, k, st, c) \/ (e.kind = k /\ e.step = st /\ e.channel = c)
  BY <1>1 DEF Occurs
<1> QED
  BY <1>2 DEF t

(* A sequence is the same, whichever way it is put together.               *)
LEMMA Joining ==
    ASSUME NEW s \in Seq(Events), NEW t \in Seq(Events), NEW e \in Events
    PROVE  /\ s \o <<>> = s /\ s \o <<e>> = Append(s, e)
           /\ s \o Append(t, e) = Append(s \o t, e)
           /\ t # <<>> => Append(s, Head(t)) \o Tail(t) = s \o t
                            /\ Head(t) \in Events /\ Tail(t) \in Seq(Events)
<1>1. s \o <<>> = s /\ s \o <<e>> = Append(s, e)
  OBVIOUS
<1>2. s \o Append(t, e) = Append(s \o t, e)
  OBVIOUS
<1>3. ASSUME t # <<>>
      PROVE  Append(s, Head(t)) \o Tail(t) = s \o t
               /\ Head(t) \in Events /\ Tail(t) \in Seq(Events)
  <2>1. Head(t) \in Events /\ Tail(t) \in Seq(Events)
    BY <1>3
  <2>2. Append(s, Head(t)) \o Tail(t) = s \o t
    BY <1>3
  <2> QED
    BY <2>1, <2>2
<1> QED
  BY <1>1, <1>2, <1>3

(* An event that may follow keeps the order.                               *)
LEMMA InOrderAppend ==
    ASSUME NEW s \in Seq(Events), NEW e \in Events, InOrder(s), MayFollow(s, e)
    PROVE  InOrder(Append(s, e))
<1> DEFINE t == Append(s, e)
           n == Len(s) + 1
<1>1. /\ DOMAIN t = DOMAIN s \cup {n}
      /\ \A i \in DOMAIN s : t[i] = s[i]
      /\ t[n] = e
  BY AppendProperties, LenProperties
<1>2. \A i \in DOMAIN s : SubSeq(t, 1, i - 1) = SubSeq(s, 1, i - 1)
  OBVIOUS
<1>3. SubSeq(t, 1, n - 1) = s
  OBVIOUS
<1> HIDE DEF t, n
<1>4. InOrder(t)
  BY <1>1, <1>2, <1>3 DEF InOrder
<1> QED
  BY <1>4 DEF t

(* The first of the events that are left may come now.                     *)
LEMMA NextMayFollow ==
    ASSUME NEW s \in Seq(Events), NEW t \in Seq(Events), t # <<>>, InOrder(s \o t)
    PROVE  MayFollow(s, Head(t))
<1> DEFINE u == s \o t
           n == Len(s) + 1
<1>1. n \in DOMAIN u /\ u[n] = Head(t)
  OBVIOUS
<1>2. SubSeq(u, 1, n - 1) = s
  OBVIOUS
<1>3. MayFollow(SubSeq(u, 1, n - 1), u[n])
  BY <1>1 DEF InOrder
<1> QED
  BY <1>1, <1>2, <1>3

(* What is yielded first is in order by itself.                            *)
LEMMA InOrderPrefix ==
    ASSUME NEW s \in Seq(Events), NEW t \in Seq(Events), InOrder(s \o t)
    PROVE  InOrder(s)
<1> DEFINE u == s \o t
<1> SUFFICES ASSUME NEW n \in DOMAIN s PROVE MayFollow(SubSeq(s, 1, n - 1), s[n])
  BY DEF InOrder
<1>1. n \in DOMAIN u /\ u[n] = s[n]
  OBVIOUS
<1>2. SubSeq(u, 1, n - 1) = SubSeq(s, 1, n - 1)
  OBVIOUS
<1>3. MayFollow(SubSeq(u, 1, n - 1), u[n])
  BY <1>1 DEF InOrder
<1> QED
  BY <1>1, <1>2, <1>3

(* Being open depends on the starts and completes alone.                   *)
LEMMA FollowSame ==
    ASSUME NEW s, NEW t, NEW e \in Events,
           \A k \in ChannelKinds, c \in ChannelIds, st \in {"start", "complete"} :
              Occurs(s, k, st, c) <=> Occurs(t, k, st, c)
    PROVE  /\ NoneOpen(s) <=> NoneOpen(t)
           /\ MayFollow(s, e) <=> MayFollow(t, e)
<1>1. \A k \in ChannelKinds, c \in ChannelIds :
         /\ Occurs(s, k, "start", c) <=> Occurs(t, k, "start", c)
         /\ Occurs(s, k, "complete", c) <=> Occurs(t, k, "complete", c)
  OBVIOUS
<1>2. \A k \in ChannelKinds, c \in ChannelIds : IsOpen(s, k, c) <=> IsOpen(t, k, c)
  BY <1>1 DEF IsOpen
<1>3. NoneOpen(s) <=> NoneOpen(t)
  BY <1>2 DEF NoneOpen
<1>4. MayFollow(s, e) <=> MayFollow(t, e)
  BY <1>1, <1>2, <1>3 DEF MayFollow
<1> QED
  BY <1>3, <1>4

(* What is open after one more event.                                      *)
LEMMA OpenAppend ==
    ASSUME NEW s \in Seq(Events), NEW e \in Events, MayFollow(s, e)
    PROVE  LET t == Append(s, e) IN
           /\ e.step \notin {"start", "complete"} =>
                 \A k \in ChannelKinds, c \in ChannelIds :
                    /\ IsOpen(t, k, c) <=> IsOpen(s, k, c)
                    /\ Occurs(t, k, "start", c) <=> Occurs(s, k, "start", c)
           /\ e.step = "complete" =>
                 \A k \in ChannelKinds, c \in ChannelIds :
                    /\ IsOpen(t, k, c) <=> IsOpen(s, k, c) /\ ~(k = e.kind /\ c = e.channel)
                    /\ Occurs(t, k, "start", c) <=> Occurs(s, k, "start", c)
           /\ \A k \in ChannelKinds, c \in ChannelIds :
                 Occurs(t, k, "start", c) => Occurs(s, k, "start", c) \/ c = e.channel
<1> DEFINE t == Append(s, e)
<1>1. \A k, st, c : Occurs(t, k, st, c)
         <=> Occurs(s, k, st, c) \/ (e.kind = k /\ e.step = st /\ e.channel = c)
  BY OccursAppend
<1> HIDE DEF t
<1>2. \A k, c :
         /\ Occurs(t, k, "start", c)
              <=> Occurs(s, k, "start", c) \/ (e.kind = k /\ e.step = "start" /\ e.channel = c)
         /\ Occurs(t, k, "complete", c)
              <=> Occurs(s, k, "complete", c) \/ (e.kind = k /\ e.step = "complete" /\ e.channel = c)
  BY <1>1
<1>3. e.step \notin {"start", "complete"} =>
         \A k \in ChannelKinds, c \in ChannelIds :
            /\ IsOpen(t, k, c) <=> IsOpen(s, k, c)
            /\ Occurs(t, k, "start", c) <=> Occurs(s, k, "start", c)
  BY <1>2 DEF IsOpen
<1>4. e.step = "complete" =>
         \A k \in ChannelKinds, c \in ChannelIds :
            /\ IsOpen(t, k, c) <=> IsOpen(s, k, c) /\ ~(k = e.kind /\ c = e.channel)
            /\ Occurs(t, k, "start", c) <=> Occurs(s, k, "start", c)
  BY <1>2 DEF IsOpen
<1>5. \A k \in ChannelKinds, c \in ChannelIds :
         Occurs(t, k, "start", c) => Occurs(s, k, "start", c) \/ c = e.channel
  BY <1>2
<1> QED
  BY <1>3, <1>4, <1>5 DEF t

(* A channel that starts is the only one that is open.                     *)
LEMMA OpenStart ==
    ASSUME NEW s \in Seq(Events), NEW e \in Events, e.step = "start", MayFollow(s, e),
           \A k \in ChannelKinds : ~Occurs(s, k, "complete", e.channel)
    PROVE  \A k \in ChannelKinds, c \in ChannelIds :
              IsOpen(Append(s, e), k, c) <=> k = e.kind /\ c = e.channel
<1> DEFINE t == Append(s, e)
<1>1. \A k, st, c : Occurs(t, k, st, c)
         <=> Occurs(s, k, st, c) \/ (e.kind = k /\ e.step = st /\ e.channel = c)
  BY OccursAppend
<1>2. NoneOpen(s)
  BY DEF MayFollow
<1> HIDE DEF t
<1>3. \A k, c :
         /\ Occurs(t, k, "start", c)
              <=> Occurs(s, k, "start", c) \/ (e.kind = k /\ e.channel = c)
         /\ Occurs(t, k, "complete", c) <=> Occurs(s, k, "complete", c)
  BY <1>1
<1>4. \A k \in ChannelKinds, c \in ChannelIds :
         IsOpen(t, k, c) <=> k = e.kind /\ c = e.channel
  <2> TAKE k \in ChannelKinds, c \in ChannelIds
  <2>1. CASE k = e.kind /\ c = e.channel
    BY <1>3, <2>1 DEF IsOpen
  <2>2. CASE ~(k = e.kind /\ c = e.channel)
    BY <1>3, <1>2, <2>2 DEF IsOpen, NoneOpen
  <2> QED
    BY <2>1, <2>2
<1> QED
  BY <1>4 DEF t

(* What follows a start in an orderly sequence has one.                    *)
LEMMA StartedBefore ==
    ASSUME NEW s \in Seq(Events), InOrder(s), NEW n \in DOMAIN s,
           s[n].step \in {"chunk", "complete"}
    PROVE  /\ s[n].kind \in ChannelKinds /\ s[n].channel \in ChannelIds
           /\ \E m \in 1 .. n - 1 : s[m].kind = s[n].kind /\ s[m].step = "start"
                                    /\ s[m].channel = s[n].channel
           /\ ~\E m \in 1 .. n - 1 : s[m].kind = s[n].kind /\ s[m].step = "complete"
                                    /\ s[m].channel = s[n].channel
<1> DEFINE t == SubSeq(s, 1, n - 1)
<1>1. MayFollow(t, s[n])
  BY DEF InOrder
<1>2. DOMAIN t = 1 .. n - 1 /\ \A i \in 1 .. n - 1 : i \in DOMAIN s /\ t[i] = s[i]
  BY SubSeqProperties, LenProperties
<1> HIDE DEF t
<1>3. /\ s[n].kind \in ChannelKinds /\ s[n].channel \in ChannelIds
      /\ IsOpen(t, s[n].kind, s[n].channel)
  BY <1>1 DEF MayFollow
<1> QED
  BY <1>2, <1>3 DEF IsOpen, Occurs

(* Only what was started is completed.                                     *)
LEMMA CompleteStarted ==
    ASSUME NEW s \in Seq(Events), InOrder(s), NEW k, NEW c,
           Occurs(s, k, "complete", c)
    PROVE  Occurs(s, k, "start", c)
<1>1. PICK n \in DOMAIN s : s[n].kind = k /\ s[n].step = "complete" /\ s[n].channel = c
  BY DEF Occurs
<1>2. PICK m \in 1 .. n - 1 : s[m].kind = k /\ s[m].step = "start" /\ s[m].channel = c
  BY <1>1, StartedBefore
<1>3. m \in DOMAIN s
  BY <1>2, <1>1
<1> QED
  BY <1>2, <1>3 DEF Occurs

(* A channel that starts is the only one that is open.                     *)
LEMMA OpenStarted ==
    ASSUME NEW s \in Seq(Events), InOrder(s),
           NEW e \in Events, e.step = "start", MayFollow(s, e)
    PROVE  \A k \in ChannelKinds, c \in ChannelIds :
              IsOpen(Append(s, e), k, c) <=> k = e.kind /\ c = e.channel
<1>1. \A k \in ChannelKinds : ~Occurs(s, k, "start", e.channel)
  BY DEF MayFollow
<1>2. \A k \in ChannelKinds : ~Occurs(s, k, "complete", e.channel)
  BY <1>1, CompleteStarted
<1> QED
  BY <1>2, OpenStart

(* The texts in order, one more of them, or none.                          *)
LEMMA TextsAppend ==
    ASSUME NEW s \in Seq(Events), NEW e \in Events, NEW n \in Nat, Texts(s, n),
           e.step = "complete" => e.text = <<>>
    PROVE  /\ ~Carrier(e) => Texts(Append(s, e), n)
           /\ Carrier(e) /\ e.text = <<n + 1>> => Texts(Append(s, e), n + 1)
           /\ \A p : Yields(Append(s, e), p)
                       <=> Yields(s, p) \/ (Carrier(e) /\ e.text[1] = p)
<1> DEFINE t == Append(s, e)
<1>1. /\ DOMAIN t = DOMAIN s \cup {Len(s) + 1}
      /\ \A i \in DOMAIN s : t[i] = s[i]
      /\ t[Len(s) + 1] = e
  BY AppendProperties, LenProperties
<1>2. DOMAIN s = 1 .. Len(s) /\ Len(s) \in Nat
  OBVIOUS
<1> HIDE DEF t
<1>3. ~Carrier(e) => Texts(t, n)
  <2> SUFFICES ASSUME ~Carrier(e) PROVE Texts(t, n)
    OBVIOUS
  <2>1. \A i \in DOMAIN t : Carrier(t[i]) => i \in DOMAIN s /\ t[i] = s[i]
    BY <1>1
  <2>2. \A i \in DOMAIN t : t[i].step = "complete" => t[i].text = <<>>
    BY <1>1 DEF Texts
  <2> QED
    BY <2>1, <2>2 DEF Texts
<1>4. ASSUME Carrier(e), e.text = <<n + 1>> PROVE Texts(t, n + 1)
  <2>1. e.text[1] = n + 1 /\ e.text = <<e.text[1]>>
    BY <1>4
  <2>2. \A i \in DOMAIN t : Carrier(t[i]) =>
           t[i].text = <<t[i].text[1]>> /\ t[i].text[1] \in 1 .. n + 1
    BY <1>1, <2>1 DEF Texts
  <2>3. \A i \in DOMAIN s : Carrier(s[i]) => s[i].text[1] < n + 1
    BY DEF Texts
  <2>4. ASSUME NEW i \in DOMAIN t, NEW j \in DOMAIN t,
               Carrier(t[i]), Carrier(t[j]), i < j
        PROVE  t[i].text[1] < t[j].text[1]
    <3>1. i \in DOMAIN s /\ t[i] = s[i]
      BY <1>1, <1>2, <2>4
    <3>2. CASE j \in DOMAIN s
      BY <3>1, <3>2, <1>1, <2>4 DEF Texts
    <3>3. CASE j = Len(s) + 1
      BY <3>1, <3>3, <1>1, <2>1, <2>3, <2>4
    <3> QED
      BY <3>2, <3>3, <1>1
  <2>5. \A i \in DOMAIN t : t[i].step = "complete" => t[i].text = <<>>
    BY <1>1 DEF Texts
  <2> QED
    BY <2>2, <2>4, <2>5 DEF Texts
<1>5. \A p : Yields(t, p) <=> Yields(s, p) \/ (Carrier(e) /\ e.text[1] = p)
  BY <1>1 DEF Yields
<1> QED
  BY <1>3, <1>4, <1>5 DEF t

-----------------------------------------------------------------------------
(* Steps of the provider that keep what is yielded sound.                  *)

(* A delta arrives that starts no call.                                    *)
LEMMA LaterSame ==
    ASSUME NEW w \in Seq(Deltas), NEW d \in Deltas, NEW index, NEW p \in 1 .. Len(w)
    PROVE  LET v == Append(w, d) IN
           /\ Len(v) = Len(w) + 1 /\ v \in Seq(Deltas) /\ v[Len(w) + 1] = d
           /\ v[p] = w[p] /\ p \in 1 .. Len(v)
           /\ SingleText(v[p]) <=> SingleText(w[p])
           /\ \A q \in 1 .. p : LatestStart(v, q, p, index) <=> LatestStart(w, q, p, index)
<1> DEFINE v == Append(w, d)
<1>1. /\ Len(v) = Len(w) + 1 /\ v \in Seq(Deltas) /\ v[Len(w) + 1] = d
      /\ \A r \in 1 .. Len(w) : v[r] = w[r]
  OBVIOUS
<1> HIDE DEF v
<1>2. \A r \in 1 .. p : StartsCall(v, r, index) <=> StartsCall(w, r, index)
  BY <1>1 DEF StartsCall
<1>3. \A q \in 1 .. p : LatestStart(v, q, p, index) <=> LatestStart(w, q, p, index)
  BY <1>2 DEF LatestStart
<1>4. v[p] = w[p] /\ p \in 1 .. Len(v)
  BY <1>1
<1> QED
  BY <1>1, <1>3, <1>4 DEF v

(* A further delta says nothing of the arguments passed on before it.      *)
LEMMA ArgumentsLater ==
    ASSUME NEW s \in Seq(Events), NEW w \in Seq(Deltas), NEW d \in Deltas,
           Texts(s, Len(w)), Arguments(s, w)
    PROVE  Arguments(s, Append(w, d))
<1> DEFINE v == Append(w, d)
<1> HIDE DEF v
<1>1. ASSUME NEW i \in DOMAIN s, s[i].kind = "tool", s[i].step = "chunk"
      PROVE  \E j \in 1 .. i - 1, q \in 1 .. s[i].text[1] :
                /\ s[j] = Event("tool", "start", s[i].channel, <<q>>)
                /\ LatestStart(v, q, s[i].text[1], v[s[i].text[1]].index)
  <2>1. PICK p \in 1 .. Len(w) : p = s[i].text[1]
    BY <1>1 DEF Texts, Carrier
  <2>2. PICK j \in 1 .. i - 1, q \in 1 .. p :
           /\ s[j] = Event("tool", "start", s[i].channel, <<q>>)
           /\ LatestStart(w, q, p, w[p].index)
    BY <1>1, <2>1 DEF Arguments
  <2>3. v[p] = w[p]
    BY LaterSame DEF v
  <2>4. LatestStart(v, q, p, w[p].index)
    BY <2>2, LaterSame DEF v
  <2> QED
    BY <2>1, <2>2, <2>3, <2>4
<1>2. Arguments(s, v)
  BY <1>1 DEF Arguments
<1> QED
  BY <1>2 DEF v

(* Nor does it change where what was yielded so far comes from.            *)
LEMMA SoundLater ==
    ASSUME NEW s, NEW w \in Seq(Deltas), NEW ch, NEW f, NEW d \in Deltas,
           Sound(s, w, Len(w), ch, f), HasCall(d, "start") => DOMAIN ch = {}
    PROVE  Sound(s, Append(w, d), Len(w), ch, f)
<1> DEFINE v == Append(w, d)
           n == Len(w)
<1>1. /\ s \in Seq(Events) /\ InOrder(s)
      /\ Texts(s, n) /\ Arguments(s, w)
      /\ KeysOpen(s, ch) /\ CallsLatest(s, w, ch)
      /\ \A k \in ChannelKinds, c \in ChannelIds : Occurs(s, k, "start", c) => c < f
      /\ \A p \in 1 .. n : SingleText(w[p]) => Yields(s, p)
  BY DEF Sound
<1>2. Arguments(s, v)
  BY <1>1, ArgumentsLater
<1>3. n \in Nat /\ Len(v) = n + 1 /\ v[n + 1] = d /\ DOMAIN w = 1 .. n /\ DOMAIN v = 1 .. n + 1
  OBVIOUS
<1> HIDE DEF v, n
<1>4. \A p \in 1 .. n : SingleText(v[p]) => Yields(s, p)
  BY <1>1, LaterSame DEF v, n
<1>5. ASSUME NEW index \in Indexes, ToolKey(index) \in DOMAIN ch
      PROVE  \E j \in DOMAIN s, q \in DOMAIN v :
                /\ s[j] = Event("tool", "start", ch[ToolKey(index)], <<q>>)
                /\ LatestStart(v, q, Len(v), index)
  <2>1. PICK j \in DOMAIN s, q \in DOMAIN w :
           /\ s[j] = Event("tool", "start", ch[ToolKey(index)], <<q>>)
           /\ LatestStart(w, q, n, index)
    BY <1>1, <1>5 DEF CallsLatest, n
  <2>2. n \in 1 .. n /\ q \in 1 .. n
    BY <1>3, <2>1
  <2>3. LatestStart(v, q, n, index)
    BY <2>1, <2>2, LaterSame DEF v, n
  <2>4. ~StartsCall(v, n + 1, index)
    BY <1>3, <1>5 DEF StartsCall
  <2>5. LatestStart(v, q, n + 1, index)
    <3>1. \A r \in q + 1 .. n + 1 : r \in q + 1 .. n \/ r = n + 1
      BY <1>3, <2>2
    <3> QED
      BY <2>3, <2>4, <3>1 DEF LatestStart
  <2> QED
    BY <2>1, <2>2, <2>5, <1>3
<1>6. CallsLatest(s, v, ch)
  BY <1>5 DEF CallsLatest
<1>7. Sound(s, v, n, ch, f)
  BY <1>1, <1>2, <1>4, <1>6 DEF Sound
<1> QED
  BY <1>7 DEF v, n

(* A delta without a text of its own is worked off.                        *)
LEMMA SoundSkip ==
    ASSUME NEW s, NEW w, NEW n \in Nat, NEW ch, NEW f,
           Sound(s, w, n, ch, f), ~SingleText(w[n + 1])
    PROVE  Sound(s, w, n + 1, ch, f)
<1>1. Texts(s, n + 1)
  BY DEF Sound, Texts
<1>2. \A p \in 1 .. n + 1 : p \in 1 .. n \/ p = n + 1
  OBVIOUS
<1>3. \A p \in 1 .. n + 1 : SingleText(w[p]) => Yields(s, p)
  BY <1>2 DEF Sound
<1> QED
  BY <1>1, <1>3 DEF Sound

(* The text of the latest delta is yielded, a call's for its open channel. *)
LEMMA SoundCarry ==
    ASSUME NEW s, NEW w \in Seq(Deltas), NEW n \in Nat, NEW ch, NEW f,
           Sound(s, w, n, ch, f), Len(w) = n + 1,
           NEW e \in Events, Carrier(e), e.text = <<n + 1>>, MayFollow(s, e),
           e.kind = "tool" =>
              /\ w[n + 1].index \in Indexes /\ ToolKey(w[n + 1].index) \in DOMAIN ch
              /\ e.channel = ch[ToolKey(w[n + 1].index)]
    PROVE  Sound(Append(s, e), w, n + 1, ch, f)
<1> DEFINE t == Append(s, e)
<1>1. /\ s \in Seq(Events) /\ InOrder(s)
      /\ Texts(s, n) /\ Arguments(s, w)
      /\ KeysOpen(s, ch) /\ CallsLatest(s, w, ch)
      /\ \A k \in ChannelKinds, c \in ChannelIds : Occurs(s, k, "start", c) => c < f
      /\ \A p \in 1 .. n : SingleText(w[p]) => Yields(s, p)
  BY DEF Sound
<1>2. /\ DOMAIN t = DOMAIN s \cup {Len(s) + 1}
      /\ \A i \in DOMAIN s : t[i] = s[i]
      /\ t[Len(s) + 1] = e
      /\ t \in Seq(Events)
  BY <1>1, AppendProperties, LenProperties
<1>3. /\ DOMAIN s = 1 .. Len(s) /\ Len(s) \in Nat /\ DOMAIN w = 1 .. n + 1
      /\ e.text[1] = n + 1
      /\ e.step \notin {"start", "complete"}
  BY <1>1 DEF Carrier
<1>4. InOrder(t)
  BY <1>1, InOrderAppend
<1>5. Texts(t, n + 1) /\ \A p : Yields(t, p) <=> Yields(s, p) \/ n + 1 = p
  BY <1>1, <1>3, TextsAppend
<1>6. \A k \in ChannelKinds, c \in ChannelIds :
         /\ IsOpen(t, k, c) <=> IsOpen(s, k, c)
         /\ Occurs(t, k, "start", c) <=> Occurs(s, k, "start", c)
  BY <1>1, <1>3, OpenAppend
<1> HIDE DEF t
<1>7. KeysOpen(t, ch)
  BY <1>1, <1>6 DEF KeysOpen
<1>8. CallsLatest(t, w, ch)
  BY <1>1, <1>2 DEF CallsLatest
<1>9. \A k \in ChannelKinds, c \in ChannelIds : Occurs(t, k, "start", c) => c < f
  BY <1>1, <1>6
<1>10. \A p \in 1 .. n + 1 : SingleText(w[p]) => Yields(t, p)
  BY <1>1, <1>5
<1>11. ASSUME NEW i \in DOMAIN t, t[i].kind = "tool", t[i].step = "chunk"
       PROVE  \E j \in 1 .. i - 1, q \in 1 .. t[i].text[1] :
                 /\ t[j] = Event("tool", "start", t[i].channel, <<q>>)
                 /\ LatestStart(w, q, t[i].text[1], w[t[i].text[1]].index)
  <2>1. CASE i \in DOMAIN s
    <3>1. t[i] = s[i]
      BY <1>2, <2>1
    <3>2. PICK j \in 1 .. i - 1, q \in 1 .. s[i].text[1] :
             /\ s[j] = Event("tool", "start", s[i].channel, <<q>>)
             /\ LatestStart(w, q, s[i].text[1], w[s[i].text[1]].index)
      BY <1>1, <1>11, <2>1, <3>1 DEF Arguments
    <3>3. t[j] = s[j]
      BY <1>2, <1>3, <2>1
    <3> QED
      BY <3>1, <3>2, <3>3
  <2>2. CASE i = Len(s) + 1
    <3>1. t[i] = e
      BY <1>2, <2>2
    <3>2. /\ w[n + 1].index \in Indexes /\ ToolKey(w[n + 1].index) \in DOMAIN ch
          /\ e.channel = ch[ToolKey(w[n + 1].index)]
      BY <1>11, <3>1
    <3>3. PICK j \in DOMAIN s, q \in DOMAIN w :
             /\ s[j] = Event("tool", "start", e.channel, <<q>>)
             /\ LatestStart(w, q, n + 1, w[n + 1].index)
      BY <1>1, <3>2 DEF CallsLatest
    <3>4. j \in 1 .. i - 1 /\ q \in 1 .. n + 1 /\ t[j] = s[j]
      BY <1>2, <1>3, <2>2
    <3> QED
      BY <1>3, <3>1, <3>3, <3>4
  <2> QED
    BY <1>2, <2>1, <2>2
<1>12. Arguments(t, w)
  BY <1>11 DEF Arguments
<1>13. Sound(t, w, n + 1, ch, f)
  BY <1>2, <1>4, <1>5, <1>7, <1>8, <1>9, <1>10, <1>12 DEF Sound
<1> QED
  BY <1>13 DEF t

(* An event without a text, which may follow, adds nothing but itself.     *)
LEMMA PlainAppend ==
    ASSUME NEW s \in Seq(Events), NEW w, NEW n \in Nat, NEW e \in Events,
           InOrder(s), Texts(s, n), Arguments(s, w), MayFollow(s, e), ~Carrier(e),
           e.step = "complete" => e.text = <<>>
    PROVE  LET t == Append(s, e) IN
           /\ t \in Seq(Events) /\ InOrder(t) /\ Texts(t, n) /\ Arguments(t, w)
           /\ \A p : Yields(t, p) <=> Yields(s, p)
<1> DEFINE t == Append(s, e)
<1>1. /\ DOMAIN t = DOMAIN s \cup {Len(s) + 1}
      /\ \A i \in DOMAIN s : t[i] = s[i]
      /\ t[Len(s) + 1] = e
      /\ t \in Seq(Events)
  BY AppendProperties, LenProperties
<1>2. InOrder(t)
  BY InOrderAppend
<1>3. Texts(t, n) /\ \A p : Yields(t, p) <=> Yields(s, p)
  BY TextsAppend
<1>4. DOMAIN s = 1 .. Len(s) /\ Len(s) \in Nat
  OBVIOUS
<1> HIDE DEF t
<1>5. ASSUME NEW i \in DOMAIN t, t[i].kind = "tool", t[i].step = "chunk"
      PROVE  \E j \in 1 .. i - 1, q \in 1 .. t[i].text[1] :
                /\ t[j] = Event("tool", "start", t[i].channel, <<q>>)
                /\ LatestStart(w, q, t[i].text[1], w[t[i].text[1]].index)
  <2>1. i \in DOMAIN s /\ t[i] = s[i]
    BY <1>1, <1>5 DEF Carrier
  <2>2. PICK j \in 1 .. i - 1, q \in 1 .. s[i].text[1] :
           /\ s[j] = Event("tool", "start", s[i].channel, <<q>>)
           /\ LatestStart(w, q, s[i].text[1], w[s[i].text[1]].index)
    BY <1>5, <2>1 DEF Arguments
  <2>3. t[j] = s[j]
    BY <1>1, <1>4, <2>1
  <2> QED
    BY <2>1, <2>2, <2>3
<1>6. Arguments(t, w)
  BY <1>5 DEF Arguments
<1> QED
  BY <1>1, <1>2, <1>3, <1>6 DEF t

(* The one open channel is completed.                                      *)
LEMMA SoundClose ==
    ASSUME NEW s, NEW w, NEW n \in Nat, NEW ch, NEW f, NEW E,
           Sound(s, w, n, ch, f), NEW key, DOMAIN ch = {key}, DOMAIN E = {},
           ch[key] \in ChannelIds,
           NEW e \in Events, e = Event(KindOf(key), "complete", ch[key], <<>>)
    PROVE  Sound(Append(s, e), w, n, E, f)
<1> DEFINE t == Append(s, e)
<1>1. /\ s \in Seq(Events) /\ InOrder(s)
      /\ Texts(s, n) /\ Arguments(s, w)
      /\ KeysOpen(s, ch)
      /\ \A k \in ChannelKinds, c \in ChannelIds : Occurs(s, k, "start", c) => c < f
      /\ \A p \in 1 .. n : SingleText(w[p]) => Yields(s, p)
  BY DEF Sound
<1>2. /\ e.kind = KindOf(key) /\ e.step = "complete" /\ e.channel = ch[key]
      /\ e.kind \in ChannelKinds /\ ~Carrier(e) /\ e.text = <<>>
  BY DEF Event, KindOf, ChannelKinds, Carrier
<1>3. \A k \in ChannelKinds, c \in ChannelIds :
         IsOpen(s, k, c) <=> k = e.kind /\ c = e.channel
  BY <1>1, <1>2 DEF KeysOpen
<1>4. MayFollow(s, e)
  BY <1>2, <1>3 DEF MayFollow
<1>5. /\ t \in Seq(Events) /\ InOrder(t) /\ Texts(t, n) /\ Arguments(t, w)
      /\ \A p : Yields(t, p) <=> Yields(s, p)
  BY <1>1, <1>2, <1>4, PlainAppend
<1>6. \A k \in ChannelKinds, c \in ChannelIds :
         /\ IsOpen(t, k, c) <=> IsOpen(s, k, c) /\ ~(k = e.kind /\ c = e.channel)
         /\ Occurs(t, k, "start", c) <=> Occurs(s, k, "start", c)
  BY <1>1, <1>2, <1>4, OpenAppend
<1> HIDE DEF t
<1>7. KeysOpen(t, E)
  BY <1>3, <1>6 DEF KeysOpen
<1>8. CallsLatest(t, w, E)
  BY DEF CallsLatest
<1>9. Sound(t, w, n, E, f)
  BY <1>1, <1>5, <1>6, <1>7, <1>8 DEF Sound
<1> QED
  BY <1>9 DEF t

(* With none open, a new channel starts.                                   *)
LEMMA SoundStart ==
    ASSUME NEW s, NEW w \in Seq(Deltas), NEW n \in Nat, NEW E, NEW f \in ChannelIds,
           Sound(s, w, n, E, f), DOMAIN E = {}, Len(w) = n + 1,
           NEW key \in Keys,
           key # MessageKey => /\ HasCall(w[n + 1], "start")
                               /\ key = ToolKey(w[n + 1].index),
           NEW e \in Events, e = Event(KindOf(key), "start", f, <<n + 1>>)
    PROVE  /\ Sound(Append(s, e), w, n, [k \in {key} |-> f], f + 1)
           /\ IsOpen(Append(s, e), KindOf(key), f)
<1> DEFINE t == Append(s, e)
           ch == [k \in {key} |-> f]
<1>1. /\ s \in Seq(Events) /\ InOrder(s)
      /\ Texts(s, n) /\ Arguments(s, w)
      /\ KeysOpen(s, E)
      /\ \A k \in ChannelKinds, c \in ChannelIds : Occurs(s, k, "start", c) => c < f
      /\ \A p \in 1 .. n : SingleText(w[p]) => Yields(s, p)
  BY DEF Sound
<1>2. /\ e.kind = KindOf(key) /\ e.step = "start" /\ e.channel = f
      /\ e.kind \in ChannelKinds /\ ~Carrier(e)
  BY DEF Event, KindOf, ChannelKinds, Carrier
<1>3. NoneOpen(s)
  BY <1>1 DEF KeysOpen, NoneOpen
<1>4. MayFollow(s, e)
  <2>1. f \in Int
    BY MaxDeltasAssumption DEF ChannelIds
  <2>2. \A k \in ChannelKinds : ~Occurs(s, k, "start", f)
    BY <1>1, <2>1
  <2> QED
    BY <1>2, <1>3, <2>2 DEF MayFollow
<1>5. /\ t \in Seq(Events) /\ InOrder(t) /\ Texts(t, n) /\ Arguments(t, w)
      /\ \A p : Yields(t, p) <=> Yields(s, p)
  BY <1>1, <1>2, <1>4, PlainAppend
<1>6. /\ \A k \in ChannelKinds, c \in ChannelIds :
            IsOpen(t, k, c) <=> k = e.kind /\ c = e.channel
      /\ \A k \in ChannelKinds, c \in ChannelIds :
            Occurs(t, k, "start", c) => Occurs(s, k, "start", c) \/ c = e.channel
  BY <1>1, <1>2, <1>4, OpenAppend, OpenStarted
<1>7. DOMAIN t = DOMAIN s \cup {Len(s) + 1} /\ t[Len(s) + 1] = e
  BY <1>1, AppendProperties, LenProperties
<1>8. DOMAIN ch = {key} /\ ch[key] = f
  OBVIOUS
<1> HIDE DEF t, ch
<1>9. KeysOpen(t, ch)
  BY <1>2, <1>6, <1>8 DEF KeysOpen
<1>10. ASSUME NEW index \in Indexes, ToolKey(index) \in DOMAIN ch
       PROVE  \E j \in DOMAIN t, q \in DOMAIN w :
                 /\ t[j] = Event("tool", "start", ch[ToolKey(index)], <<q>>)
                 /\ LatestStart(w, q, Len(w), index)
  <2>1. index \in Nat /\ key = index + 1
    BY <1>8, <1>10, DeltasAssumption DEF ToolKey
  <2>2. key # MessageKey /\ KindOf(key) = "tool"
    BY <2>1 DEF MessageKey, KindOf
  <2>3. w[n + 1] \in Deltas
    OBVIOUS
  <2>4. w[n + 1].index \in Nat
    BY <2>3, DeltasAssumption DEF AllDeltas
  <2>5. HasCall(w[n + 1], "start") /\ w[n + 1].index = index
    BY <2>1, <2>2, <2>4 DEF ToolKey
  <2>6. LatestStart(w, n + 1, Len(w), index)
    BY <2>5 DEF LatestStart, StartsCall
  <2>7. t[Len(s) + 1] = Event("tool", "start", ch[ToolKey(index)], <<n + 1>>)
    BY <1>7, <1>8, <2>1, <2>2 DEF ToolKey
  <2>8. n + 1 \in DOMAIN w /\ Len(s) + 1 \in DOMAIN t
    BY <1>7
  <2> QED
    BY <2>6, <2>7, <2>8
<1>11. CallsLatest(t, w, ch)
  BY <1>10 DEF CallsLatest
<1>12. \A k \in ChannelKinds, c \in ChannelIds : Occurs(t, k, "start", c) => c < f + 1
  <2>1. f \in Int /\ \A c \in ChannelIds : c \in Int
    BY MaxDeltasAssumption DEF ChannelIds
  <2> QED
    BY <1>1, <1>2, <1>6, <2>1
<1>13. Sound(t, w, n, ch, f + 1)
  BY <1>1, <1>5, <1>9, <1>11, <1>12 DEF Sound
<1>14. IsOpen(t, KindOf(key), f)
  BY <1>2, <1>6
<1> QED
  BY <1>13, <1>14 DEF t, ch

-----------------------------------------------------------------------------
(* The provider.                                                           *)

(* close_all of the one channel that may be open.                          *)
LEMMA CloseAllFacts ==
    /\ DOMAIN channels = {} => CloseAll = <<>>
    /\ \A key : DOMAIN channels = {key} =>
          CloseAll = <<Event(KindOf(key), "complete", channels[key], <<>>)>>
<1> DEFINE Sorted(s) == \A i, j \in DOMAIN s : i < j => s[i] < s[j]
           open == DOMAIN channels
           keys == CHOOSE s \in [1 .. Cardinality(open) -> open] : Sorted(s)
<1>1. CloseAll = [i \in DOMAIN keys |->
                     Event(KindOf(keys[i]), "complete", channels[keys[i]], <<>>)]
  BY DEF CloseAll, Ascending
<1>2. ASSUME open = {} PROVE CloseAll = <<>>
  <2>1. Cardinality(open) = 0
    BY <1>2, FS_EmptySet
  <2>2. \E s \in [1 .. 0 -> {}] : Sorted(s)
    <3>1. <<>> \in [1 .. 0 -> {}] /\ Sorted(<<>>)
      OBVIOUS
    <3> QED
      BY <3>1
  <2>3. keys \in [1 .. 0 -> {}]
    BY <1>2, <2>1, <2>2
  <2> HIDE DEF keys
  <2>4. DOMAIN keys = 1 .. 0
    BY <2>3
  <2> QED
    BY <1>1, <2>4
<1>3. ASSUME NEW key, open = {key}
      PROVE  CloseAll = <<Event(KindOf(key), "complete", channels[key], <<>>)>>
  <2>1. Cardinality(open) = 1
    BY <1>3, FS_Singleton
  <2>2. \E s \in [1 .. 1 -> {key}] : Sorted(s)
    <3>1. [i \in 1 .. 1 |-> key] \in [1 .. 1 -> {key}]
      OBVIOUS
    <3>2. Sorted([i \in 1 .. 1 |-> key])
      OBVIOUS
    <3> QED
      BY <3>1, <3>2
  <2>3. keys \in [1 .. 1 -> {key}]
    BY <1>3, <2>1, <2>2
  <2> HIDE DEF keys
  <2>4. DOMAIN keys = 1 .. 1 /\ keys[1] = key
    BY <2>3
  <2> QED
    BY <1>1, <2>4
<1> QED
  BY <1>2, <1>3

(* What the arms yield are events.                                         *)
LEMMA EventTypes ==
    ASSUME NEW kind \in {"message", "tool", "other"}, NEW c \in ChannelIds \cup {0},
           NEW step \in {"start", "chunk", "complete", "whole"}, NEW p \in 1 .. MaxDeltas
    PROVE  /\ Event(kind, step, c, <<p>>) \in Events
           /\ Event(kind, step, c, <<>>) \in Events
<1>1. <<p>> \in Seq(1 .. MaxDeltas) /\ <<>> \in Seq(1 .. MaxDeltas)
  OBVIOUS
<1> QED
  BY <1>1 DEF Event, Events

(* Where the provider is when a delta arrives.                             *)
LEMMA Arriving ==
    ASSUME ProviderInv, gen = "pull", todo = <<>>
    PROVE  /\ Yielding = out /\ out \in Seq(Events) /\ Len(wire) \in Nat
           /\ Sound(out, wire, Len(wire), channels, fresh)
           /\ \A key \in DOMAIN channels : channels[key] \in ChannelIds
                                           /\ DOMAIN channels = {key}
<1>1. /\ out \in Seq(Events) /\ wire \in Seq(Deltas) /\ Len(wire) <= MaxDeltas
      /\ fresh \in 1 .. Len(wire) + 1
      /\ \A key \in DOMAIN channels : channels[key] \in 1 .. fresh - 1
      /\ \A key, other \in DOMAIN channels : key = other
  BY DEF ProviderInv, ProviderTypes
<1>2. Len(wire) \in Nat
  BY <1>1
<1>3. Yielding = out
  BY <1>1 DEF Yielding
<1>4. Sound(out, wire, Len(wire), channels, fresh)
  BY <1>3 DEF ProviderInv
<1>5. \A c \in 1 .. fresh - 1 : c \in ChannelIds
  BY <1>1, <1>2, MaxDeltasAssumption DEF ChannelIds
<1>6. ASSUME NEW key \in DOMAIN channels PROVE DOMAIN channels = {key}
  BY <1>1, <1>6
<1> QED
  BY <1>1, <1>2, <1>3, <1>4, <1>5, <1>6

(* After close_all nothing is open.                                        *)
LEMMA Closing ==
    ASSUME ProviderInv, gen = "pull", todo = <<>>
    PROVE  /\ CloseAll \in Seq(Events) /\ out \o CloseAll \in Seq(Events)
           /\ Sound(out \o CloseAll, wire, Len(wire), <<>>, fresh)
<1>1. /\ out \in Seq(Events) /\ Len(wire) \in Nat
      /\ Sound(out, wire, Len(wire), channels, fresh)
      /\ \A key \in DOMAIN channels : channels[key] \in ChannelIds
                                      /\ DOMAIN channels = {key}
  BY Arriving
<1>2. DOMAIN <<>> = {}
  OBVIOUS
<1>3. CASE DOMAIN channels = {}
  <2>1. CloseAll = <<>>
    BY <1>3, CloseAllFacts
  <2>2. out \o CloseAll = out
    BY <1>1, <2>1
  <2>3. Sound(out, wire, Len(wire), <<>>, fresh)
    <3>1. KeysOpen(out, <<>>) /\ CallsLatest(out, wire, <<>>)
      BY <1>1, <1>2, <1>3 DEF Sound, KeysOpen, CallsLatest
    <3> QED
      BY <1>1, <3>1 DEF Sound
  <2> QED
    BY <1>1, <2>1, <2>2, <2>3
<1>4. ASSUME NEW key \in DOMAIN channels
      PROVE  /\ CloseAll \in Seq(Events) /\ out \o CloseAll \in Seq(Events)
             /\ Sound(out \o CloseAll, wire, Len(wire), <<>>, fresh)
  <2> DEFINE e == Event(KindOf(key), "complete", channels[key], <<>>)
  <2>1. CloseAll = <<e>>
    BY <1>1, <1>4, CloseAllFacts
  <2>2. e \in Events
    <3>1. <<>> \in Seq(1 .. MaxDeltas)
      OBVIOUS
    <3> QED
      BY <1>1, <1>4, <3>1 DEF Event, Events, KindOf
  <2>3. out \o CloseAll = Append(out, e)
    BY <1>1, <2>1, <2>2, Joining
  <2>4. Sound(Append(out, e), wire, Len(wire), <<>>, fresh)
    BY <1>1, <1>2, <1>4, <2>2, SoundClose
  <2>5. Append(out, e) \in Seq(Events) /\ <<e>> \in Seq(Events)
    BY <1>1, <2>2
  <2> QED
    BY <2>1, <2>3, <2>4, <2>5
<1> QED
  BY <1>3, <1>4

(* What is left to show when a delta has been worked off.                  *)
LEMMA ArrivedInv ==
    ASSUME ProviderInv, NEW d \in Deltas, Receive(d), Goes("pull"),
           todo' \in Seq(Events), SameChannels \/ \E key \in Keys : Opens(key),
           Sound(out \o todo', Append(wire, d), Len(wire) + 1, channels', fresh')
    PROVE  ProviderInv'
<1>1. /\ gen = "pull" /\ wire' = Append(wire, d) /\ Len(wire) < MaxDeltas
      /\ gen' = "pull" /\ out' = out
  BY DEF Receive, Goes
<1>2. /\ wire \in Seq(Deltas) /\ out \in Seq(Events)
      /\ fresh \in 1 .. Len(wire) + 1
      /\ DOMAIN channels \subseteq Keys
      /\ \A key \in DOMAIN channels : channels[key] \in 1 .. fresh - 1
      /\ \A key, other \in DOMAIN channels : key = other
  BY DEF ProviderInv, ProviderTypes
<1>3. /\ wire' \in Seq(Deltas) /\ Len(wire') = Len(wire) + 1 /\ Len(wire) \in Nat
      /\ Len(wire') <= MaxDeltas
  BY <1>1, <1>2, MaxDeltasAssumption
<1>4. /\ fresh' \in 1 .. Len(wire') + 1
      /\ DOMAIN channels' \subseteq Keys
      /\ \A key \in DOMAIN channels' : channels'[key] \in 1 .. fresh' - 1
      /\ \A key, other \in DOMAIN channels' : key = other
  <2>1. CASE SameChannels
    BY <1>2, <1>3, <2>1 DEF SameChannels
  <2>2. ASSUME NEW key \in Keys, Opens(key)
        PROVE  /\ fresh' \in 1 .. Len(wire') + 1
               /\ DOMAIN channels' \subseteq Keys
               /\ \A k \in DOMAIN channels' : channels'[k] \in 1 .. fresh' - 1
               /\ \A k, other \in DOMAIN channels' : k = other
    BY <1>2, <1>3, <2>2 DEF Opens
  <2> QED
    BY <2>1, <2>2
<1>5. ProviderTypes'
  BY <1>1, <1>2, <1>3, <1>4 DEF ProviderTypes
<1>6. Yielding' = out \o todo'
  BY <1>1 DEF Yielding
<1>7. Sound(Yielding', wire', Len(wire'), channels', fresh')
  BY <1>1, <1>3, <1>6
<1>8. Len(wire') \in 0 .. Len(wire')
  BY <1>3
<1> QED
  BY <1>1, <1>5, <1>7, <1>8 DEF ProviderInv

(* A delta whose text has no channel, or that has none.                    *)
LEMMA PullAsideInv ==
    ASSUME ProviderInv, NEW d \in Deltas,
           PullUsage(d) \/ PullReasoning(d) \/ PullEmpty(d)
    PROVE  ProviderInv'
<1> DEFINE v == Append(wire, d)
           p == Len(wire) + 1
           e == Event("other", "whole", 0, <<p>>)
<1>1. /\ Receive(d) /\ gen = "pull" /\ todo = <<>> /\ Len(wire) < MaxDeltas
      /\ Goes("pull") /\ SameChannels /\ channels' = channels /\ fresh' = fresh
      /\ ~HasCall(d, "start")
      /\ \/ todo' = <<e>>
         \/ todo' = <<>> /\ ~SingleText(d)
  <2>1. /\ Receive(d) /\ Goes("pull") /\ SameChannels
    BY DEF PullUsage, PullReasoning, PullEmpty
  <2>2. ~HasCall(d, "start")
    BY DEF PullUsage, PullReasoning, PullEmpty, HasCall
  <2>3. todo' = <<e>> \/ (todo' = <<>> /\ ~SingleText(d))
    <3>1. CASE PullUsage(d)
      BY <3>1 DEF PullUsage, SingleText, HasContent, HasCall, Here
    <3>2. CASE PullReasoning(d)
      BY <3>2 DEF PullReasoning, SingleText, HasContent, HasCall, Here
    <3>3. CASE PullEmpty(d)
      BY <3>3 DEF PullEmpty, SingleText, HasContent, HasCall
    <3> QED
      BY <3>1, <3>2, <3>3
  <2> QED
    BY <2>1, <2>2, <2>3 DEF Receive, SameChannels
<1>2. /\ out \in Seq(Events) /\ Len(wire) \in Nat /\ wire \in Seq(Deltas)
      /\ Sound(out, wire, Len(wire), channels, fresh)
  BY <1>1, Arriving DEF ProviderInv, ProviderTypes
<1>3. Sound(out, v, Len(wire), channels, fresh)
  BY <1>1, <1>2, SoundLater
<1>4. Len(v) = p /\ v[p] = d /\ v \in Seq(Deltas)
  BY <1>2
<1>5. CASE todo' = <<e>>
  <2>1. e \in Events
    <3>1. p \in 1 .. MaxDeltas /\ 0 \in ChannelIds \cup {0}
      BY <1>1, <1>2, MaxDeltasAssumption
    <3> QED
      BY <3>1, EventTypes
  <2>2. /\ Carrier(e) /\ e.text = <<p>> /\ MayFollow(out, e) /\ e.kind # "tool"
    BY DEF Event, Carrier, MayFollow
  <2>3. Sound(Append(out, e), v, p, channels, fresh)
    BY <1>2, <1>3, <1>4, <2>1, <2>2, SoundCarry
  <2>4. out \o todo' = Append(out, e) /\ todo' \in Seq(Events)
    BY <1>2, <1>5, <2>1, Joining
  <2> QED
    BY <1>1, <2>3, <2>4, ArrivedInv
<1>6. CASE todo' = <<>> /\ ~SingleText(d)
  <2>1. Sound(out, v, p, channels, fresh)
    BY <1>2, <1>3, <1>4, <1>6, SoundSkip
  <2>2. out \o todo' = out /\ todo' \in Seq(Events)
    BY <1>2, <1>6
  <2> QED
    BY <1>1, <2>1, <2>2, ArrivedInv
<1> QED
  BY <1>1, <1>5, <1>6

(* More of what is open.                                                   *)
LEMMA PullMoreInv ==
    ASSUME ProviderInv, NEW d \in Deltas, PullContent(d) \/ PullArguments(d)
    PROVE  ProviderInv'
<1> DEFINE v == Append(wire, d)
           p == Len(wire) + 1
<1>1. PICK key \in DOMAIN channels :
        /\ Receive(d) /\ gen = "pull" /\ todo = <<>> /\ Len(wire) < MaxDeltas
        /\ Goes("pull") /\ SameChannels /\ channels' = channels /\ fresh' = fresh
        /\ ~HasCall(d, "start")
        /\ key # MessageKey => key = ToolKey(d.index)
        /\ todo' = <<Event(KindOf(key), "chunk", channels[key], <<p>>)>>
  <2>1. CASE PullContent(d)
    <3>1. KindOf(MessageKey) = "message"
      BY DEF KindOf
    <3>2. ~HasCall(d, "start")
      BY <2>1 DEF PullContent, HasContent, HasCall
    <3> QED
      BY <2>1, <3>1, <3>2 DEF PullContent, Receive, SameChannels, Here
  <2>2. CASE PullArguments(d)
    <3>1. KindOf(ToolKey(d.index)) = "tool"
      <4>1. d.index \in Nat
        BY DeltasAssumption DEF AllDeltas
      <4> QED
        BY <4>1 DEF KindOf, ToolKey, MessageKey
    <3>2. ~HasCall(d, "start")
      BY <2>2 DEF PullArguments, HasCall
    <3> QED
      BY <2>2, <3>1, <3>2 DEF PullArguments, Receive, SameChannels, Here
  <2> QED
    BY <2>1, <2>2
<1> DEFINE e == Event(KindOf(key), "chunk", channels[key], <<p>>)
<1>2. /\ out \in Seq(Events) /\ Len(wire) \in Nat /\ wire \in Seq(Deltas)
      /\ Sound(out, wire, Len(wire), channels, fresh)
      /\ channels[key] \in ChannelIds /\ DOMAIN channels = {key}
  BY <1>1, Arriving DEF ProviderInv, ProviderTypes
<1>3. Sound(out, v, Len(wire), channels, fresh)
  BY <1>1, <1>2, SoundLater
<1>4. Len(v) = p /\ v[p] = d /\ v \in Seq(Deltas)
  BY <1>2
<1>5. e \in Events
  <2>1. KindOf(key) \in {"message", "tool", "other"} /\ p \in 1 .. MaxDeltas
    BY <1>1, <1>2, MaxDeltasAssumption DEF KindOf
  <2> QED
    BY <1>2, <2>1, EventTypes
<1>6. /\ Carrier(e) /\ e.text = <<p>> /\ e.step = "chunk"
      /\ e.kind = KindOf(key) /\ e.channel = channels[key] /\ e.kind \in ChannelKinds
  BY DEF Event, Carrier, KindOf, ChannelKinds
<1>7. MayFollow(out, e)
  BY <1>2, <1>6 DEF MayFollow, Sound, KeysOpen
<1>8. e.kind = "tool" =>
         /\ d.index \in Indexes /\ ToolKey(d.index) \in DOMAIN channels
         /\ e.channel = channels[ToolKey(d.index)]
  <2>1. e.kind = "tool" => key # MessageKey
    BY <1>6 DEF KindOf
  <2>2. d.index \in Indexes
    BY DeltasAssumption DEF AllDeltas
  <2> QED
    BY <1>1, <1>6, <2>1, <2>2
<1>9. Sound(Append(out, e), v, p, channels, fresh)
  BY <1>2, <1>3, <1>4, <1>5, <1>6, <1>7, <1>8, SoundCarry
<1>10. out \o todo' = Append(out, e) /\ todo' \in Seq(Events)
  BY <1>1, <1>2, <1>5, Joining
<1> QED
  BY <1>1, <1>9, <1>10, ArrivedInv

(* One or two events after others.                                         *)
LEMMA OneMore ==
    ASSUME NEW t \in Seq(Events), NEW a \in Events, NEW b \in Events
    PROVE  /\ t \o <<a>> \in Seq(Events) /\ t \o <<a, b>> \in Seq(Events)
           /\ (t \o <<a>>) \o <<>> = t \o <<a>>
           /\ (t \o <<a>>) \o <<b>> = t \o <<a, b>>
           /\ t \o <<a, b>> = Append(Append(t, a), b)
<1>1. t \o <<a>> = Append(t, a) /\ t \o <<a, b>> = Append(Append(t, a), b)
  OBVIOUS
<1>2. Append(t, a) \in Seq(Events) /\ Append(Append(t, a), b) \in Seq(Events)
  OBVIOUS
<1>3. Append(t, a) \o <<>> = Append(t, a) /\ Append(t, a) \o <<b>> = Append(Append(t, a), b)
  BY <1>2, Joining
<1> QED
  BY <1>1, <1>2, <1>3

(* Yielding one event, or two, at the end of what is still to be yielded.  *)
LEMMA TwoMore ==
    ASSUME NEW s \in Seq(Events), NEW t \in Seq(Events), NEW a \in Events, NEW b \in Events
    PROVE  /\ s \o (t \o <<a>>) = Append(s \o t, a)
           /\ s \o (t \o <<a, b>>) = Append(Append(s \o t, a), b)
<1>1. t \o <<a>> = Append(t, a) /\ t \o <<a, b>> = Append(Append(t, a), b)
  BY OneMore, Joining
<1>2. Append(t, a) \in Seq(Events)
  OBVIOUS
<1>3. /\ s \o Append(t, a) = Append(s \o t, a)
      /\ s \o Append(Append(t, a), b) = Append(s \o Append(t, a), b)
  BY <1>2, Joining
<1> QED
  BY <1>1, <1>3

(* Everything is closed and a channel is opened for the delta.             *)
LEMMA Opening ==
    ASSUME ProviderInv, NEW d \in Deltas, Receive(d), NEW key \in Keys,
           IF HasCall(d, "start") THEN key = ToolKey(d.index) ELSE key = MessageKey
    PROVE  LET p == Len(wire) + 1
               s == out \o CloseAll
               v == Append(wire, d)
               ch == [k \in {key} |-> fresh]
               start == Event(KindOf(key), "start", fresh, <<p>>)
               chunk == Event(KindOf(key), "chunk", fresh, <<p>>)
           IN /\ out \in Seq(Events) /\ CloseAll \in Seq(Events)
              /\ start \in Events /\ chunk \in Events
              /\ Sound(Append(Append(s, start), chunk), v, p, ch, fresh + 1)
              /\ ~SingleText(d) => Sound(Append(s, start), v, p, ch, fresh + 1)
<1> DEFINE p == Len(wire) + 1
           s == out \o CloseAll
           v == Append(wire, d)
           ch == [k \in {key} |-> fresh]
           start == Event(KindOf(key), "start", fresh, <<p>>)
           chunk == Event(KindOf(key), "chunk", fresh, <<p>>)
<1>1. gen = "pull" /\ todo = <<>> /\ Len(wire) < MaxDeltas
  BY DEF Receive
<1>2. /\ out \in Seq(Events) /\ Len(wire) \in Nat /\ wire \in Seq(Deltas)
      /\ fresh \in 1 .. Len(wire) + 1
  BY <1>1, Arriving DEF ProviderInv, ProviderTypes
<1>3. p \in 1 .. MaxDeltas /\ fresh \in ChannelIds
  BY <1>1, <1>2, MaxDeltasAssumption DEF ChannelIds
<1>4. KindOf(key) \in {"message", "tool", "other"} /\ KindOf(key) \in ChannelKinds
  BY DEF KindOf, ChannelKinds
<1>5. start \in Events /\ chunk \in Events
  BY <1>3, <1>4, EventTypes
<1>6. /\ CloseAll \in Seq(Events) /\ s \in Seq(Events)
      /\ Sound(s, wire, Len(wire), <<>>, fresh)
  BY <1>1, Closing
<1>7. Len(v) = p /\ v[p] = d /\ v \in Seq(Deltas)
  BY <1>2
<1>8. DOMAIN <<>> = {}
  OBVIOUS
<1> HIDE DEF s, v
<1>9. Sound(s, v, Len(wire), <<>>, fresh)
  BY <1>2, <1>6, <1>8, SoundLater DEF v
<1>10. d.index \in Indexes /\ ToolKey(d.index) # MessageKey
  <2>1. d.index \in Indexes /\ d.index \in Nat
    BY DeltasAssumption DEF AllDeltas
  <2> QED
    BY <2>1 DEF ToolKey, MessageKey
<1>11. /\ Sound(Append(s, start), v, Len(wire), ch, fresh + 1)
       /\ IsOpen(Append(s, start), KindOf(key), fresh)
  BY <1>2, <1>3, <1>5, <1>7, <1>8, <1>9, SoundStart
<1>12. /\ Carrier(chunk) /\ chunk.text = <<p>> /\ chunk.step = "chunk"
       /\ chunk.kind = KindOf(key) /\ chunk.channel = fresh
  BY DEF Event, Carrier
<1>13. MayFollow(Append(s, start), chunk)
  BY <1>3, <1>4, <1>11, <1>12 DEF MayFollow
<1>14. chunk.kind = "tool" =>
          /\ d.index \in Indexes /\ ToolKey(d.index) \in DOMAIN ch
          /\ chunk.channel = ch[ToolKey(d.index)]
  <2>1. chunk.kind = "tool" => key # MessageKey
    BY <1>12 DEF KindOf
  <2>2. chunk.kind = "tool" => key = ToolKey(d.index)
    BY <2>1
  <2> QED
    BY <1>10, <1>12, <2>2
<1>15. Sound(Append(Append(s, start), chunk), v, p, ch, fresh + 1)
  BY <1>2, <1>5, <1>7, <1>11, <1>12, <1>13, <1>14, SoundCarry
<1>16. ~SingleText(d) => Sound(Append(s, start), v, p, ch, fresh + 1)
  BY <1>2, <1>7, <1>11, SoundSkip
<1> QED
  BY <1>2, <1>5, <1>6, <1>15, <1>16 DEF s, v

(* The arm for content preserves the invariant.                            *)
LEMMA PullMessageInv ==
    ASSUME ProviderInv, NEW d \in Deltas, PullMessage(d)
    PROVE  ProviderInv'
<1> DEFINE p == Len(wire) + 1
           start == Event("message", "start", fresh, <<p>>)
           chunk == Event("message", "chunk", fresh, <<p>>)
<1>1. /\ Receive(d) /\ Goes("pull") /\ Opens(MessageKey)
      /\ todo' = CloseAll \o <<start, chunk>>
      /\ ~HasCall(d, "start")
  BY DEF PullMessage, Here, HasContent, HasCall
<1>2. KindOf(MessageKey) = "message" /\ MessageKey \in Keys
  BY DEF KindOf, Keys
<1>3. /\ out \in Seq(Events) /\ CloseAll \in Seq(Events)
      /\ start \in Events /\ chunk \in Events
      /\ Sound(Append(Append(out \o CloseAll, start), chunk), Append(wire, d), p,
               [k \in {MessageKey} |-> fresh], fresh + 1)
  BY <1>1, <1>2, Opening
<1>4. /\ todo' \in Seq(Events)
      /\ out \o todo' = Append(Append(out \o CloseAll, start), chunk)
  <2> HIDE DEF start, chunk
  <2>1. /\ out \in Seq(Events) /\ CloseAll \in Seq(Events)
        /\ start \in Events /\ chunk \in Events
    BY <1>3
  <2>2. todo' = CloseAll \o <<start, chunk>>
    BY <1>1
  <2>3. CloseAll \o <<start, chunk>> \in Seq(Events)
    BY <2>1, OneMore
  <2>4. out \o (CloseAll \o <<start, chunk>>) = Append(Append(out \o CloseAll, start), chunk)
    BY <2>1, TwoMore
  <2> QED
    BY <2>2, <2>3, <2>4, Zenon
<1>5. channels' = [k \in {MessageKey} |-> fresh] /\ fresh' = fresh + 1
  BY <1>1 DEF Opens
<1> QED
  BY <1>1, <1>2, <1>3, <1>4, <1>5, ArrivedInv

(* So does the arm for the start of a call.                                *)
LEMMA PullStartInv ==
    ASSUME ProviderInv, NEW d \in Deltas, PullStart(d)
    PROVE  ProviderInv'
<1> DEFINE p == Len(wire) + 1
           key == ToolKey(d.index)
           start == Event("tool", "start", fresh, <<p>>)
           chunk == Event("tool", "chunk", fresh, <<p>>)
<1>1. /\ Receive(d) /\ Goes("pull") /\ Opens(key) /\ HasCall(d, "start")
      /\ todo' = CloseAll \o <<start>> \o IF d.arguments THEN <<chunk>> ELSE <<>>
  BY DEF PullStart, Here
<1>2. KindOf(key) = "tool" /\ key \in Keys
  <2>1. d.index \in Indexes /\ d.index \in Nat
    BY DeltasAssumption DEF AllDeltas
  <2> QED
    BY <2>1 DEF ToolKey, MessageKey, KindOf, Keys
<1>3. /\ out \in Seq(Events) /\ CloseAll \in Seq(Events)
      /\ start \in Events /\ chunk \in Events
      /\ Sound(Append(Append(out \o CloseAll, start), chunk), Append(wire, d), p,
               [k \in {key} |-> fresh], fresh + 1)
      /\ ~SingleText(d) =>
            Sound(Append(out \o CloseAll, start), Append(wire, d), p,
                  [k \in {key} |-> fresh], fresh + 1)
  BY <1>1, <1>2, Opening
<1>4. channels' = [k \in {key} |-> fresh] /\ fresh' = fresh + 1
  BY <1>1 DEF Opens
<1> HIDE DEF start, chunk
<1>5. CASE d.arguments
  <2>1. todo' = CloseAll \o <<start>> \o <<chunk>>
    BY <1>1, <1>5
  <2>2. /\ todo' \in Seq(Events)
        /\ out \o todo' = Append(Append(out \o CloseAll, start), chunk)
    <3>1. /\ out \in Seq(Events) /\ CloseAll \in Seq(Events)
          /\ start \in Events /\ chunk \in Events
      BY <1>3
    <3>2. (CloseAll \o <<start>>) \o <<chunk>> = CloseAll \o <<start, chunk>>
      BY <3>1, OneMore, Zenon
    <3>3. todo' = CloseAll \o <<start, chunk>>
      BY <2>1, <3>2
    <3>4. CloseAll \o <<start, chunk>> \in Seq(Events)
      BY <3>1, OneMore
    <3>5. out \o (CloseAll \o <<start, chunk>>)
              = Append(Append(out \o CloseAll, start), chunk)
      BY <3>1, TwoMore
    <3> QED
      BY <3>3, <3>4, <3>5, Zenon
  <2> QED
    BY <1>1, <1>2, <1>3, <1>4, <2>2, ArrivedInv
<1>6. CASE ~d.arguments
  <2>1. todo' = CloseAll \o <<start>> \o <<>>
    BY <1>1, <1>6
  <2>2. /\ todo' \in Seq(Events)
        /\ out \o todo' = Append(out \o CloseAll, start)
    <3>1. out \in Seq(Events) /\ CloseAll \in Seq(Events) /\ start \in Events
      BY <1>3
    <3>2. /\ CloseAll \o <<start>> \o <<>> = CloseAll \o <<start>>
          /\ CloseAll \o <<start>> \in Seq(Events)
      BY <3>1, OneMore
    <3>3. out \o (CloseAll \o <<start>>) = Append(out \o CloseAll, start)
      BY <3>1, TwoMore
    <3> QED
      BY <2>1, <3>2, <3>3, Zenon
  <2>3. ~SingleText(d)
    BY <1>1, <1>6 DEF SingleText, HasContent, HasCall
  <2> QED
    BY <1>1, <1>2, <1>3, <1>4, <2>2, <2>3, ArrivedInv
<1> QED
  BY <1>5, <1>6

(* A delta that the response fails with.                                   *)
LEMMA PullFailedInv ==
    ASSUME ProviderInv, NEW d \in Deltas, PullUnknown(d) \/ PullNoCall(d)
    PROVE  ProviderInv'
<1> DEFINE v == Append(wire, d)
<1>1. /\ gen = "pull" /\ todo = <<>> /\ Len(wire) < MaxDeltas
      /\ wire' = v /\ todo' = todo /\ out' = out
      /\ channels' = channels /\ fresh' = fresh
      /\ ~HasCall(d, "start")
      /\ \/ gen' = "failed"
         \/ gen' = "panicked" /\ ~SingleText(d)
  BY DEF PullUnknown, PullNoCall, Receive, SameChannels, Goes, HasCall, SingleText, HasContent
<1>2. /\ out \in Seq(Events) /\ Len(wire) \in Nat /\ wire \in Seq(Deltas)
      /\ Sound(out, wire, Len(wire), channels, fresh) /\ Yielding = out
      /\ fresh \in 1 .. Len(wire) + 1
  BY <1>1, Arriving DEF ProviderInv, ProviderTypes
<1>3. Len(v) = Len(wire) + 1 /\ v[Len(wire) + 1] = d /\ v \in Seq(Deltas)
  BY <1>2
<1> HIDE DEF v
<1>4. Sound(out, v, Len(wire), channels, fresh)
  BY <1>1, <1>2, SoundLater DEF v
<1>5. ProviderTypes'
  BY <1>1, <1>2, <1>3, MaxDeltasAssumption DEF ProviderInv, ProviderTypes, Final
<1>6. Yielding' = out
  BY <1>1, <1>2 DEF Yielding
<1>7. CASE gen' = "failed"
  <2>1. Len(wire) \in 0 .. Len(wire') /\ Len(wire) = Len(wire') - 1
    BY <1>1, <1>2, <1>3
  <2> QED
    BY <1>1, <1>4, <1>5, <1>6, <1>7, <2>1 DEF ProviderInv
<1>8. CASE gen' = "panicked" /\ ~SingleText(d)
  <2>1. Sound(out, v, Len(wire) + 1, channels, fresh)
    BY <1>2, <1>3, <1>4, <1>8, SoundSkip
  <2>2. Len(wire') \in 0 .. Len(wire') /\ Len(wire') = Len(wire) + 1
    BY <1>1, <1>2, <1>3
  <2> QED
    BY <1>1, <1>5, <1>6, <1>8, <2>1, <2>2 DEF ProviderInv
<1> QED
  BY <1>1, <1>7, <1>8

(* The end of the stream.                                                  *)
LEMMA PullDoneInv ==
    ASSUME ProviderInv, PullDone
    PROVE  ProviderInv'
<1>1. /\ gen = "pull" /\ todo = <<>> /\ gen' = "last"
      /\ todo' = CloseAll /\ channels' = <<>>
      /\ out' = out /\ wire' = wire /\ fresh' = fresh
  BY DEF PullDone, Goes
<1>2. /\ CloseAll \in Seq(Events)
      /\ Sound(out \o CloseAll, wire, Len(wire), <<>>, fresh)
  BY <1>1, Closing
<1>3. DOMAIN <<>> = {}
  OBVIOUS
<1>4. Yielding' = out \o CloseAll
  BY <1>1 DEF Yielding
<1>5. ProviderTypes'
  BY <1>1, <1>2, <1>3 DEF ProviderInv, ProviderTypes
<1>6. Len(wire) \in 0 .. Len(wire)
  BY DEF ProviderInv, ProviderTypes
<1> QED
  BY <1>1, <1>2, <1>3, <1>4, <1>5, <1>6 DEF ProviderInv

(* Steps that change nothing but where the generator is.                   *)
LEMMA StatusInv ==
    ASSUME ProviderInv, UNCHANGED <<wire, channels, fresh, todo, out>>,
           gen' = gen \/ (/\ gen # "failed"
                          /\ gen' \in {"idle", "request", "pull"} \cup Final)
    PROVE  ProviderInv'
<1>1. ProviderTypes'
  BY DEF ProviderInv, ProviderTypes
<1>2. Yielding' = Yielding
  BY DEF Yielding
<1>3. PICK n \in 0 .. Len(wire) :
         /\ n = Len(wire) \/ (gen = "failed" /\ n = Len(wire) - 1)
         /\ Sound(Yielding, wire, n, channels, fresh)
  BY DEF ProviderInv
<1>4. /\ n \in 0 .. Len(wire')
      /\ n = Len(wire') \/ (gen' = "failed" /\ n = Len(wire') - 1)
      /\ Sound(Yielding', wire', n, channels', fresh')
  BY <1>2, <1>3
<1>5. gen' = "last" => DOMAIN channels' = {}
  BY DEF ProviderInv, Final
<1> QED
  BY <1>1, <1>4, <1>5 DEF ProviderInv

(* An event is yielded: what is yielded or left stays the same.            *)
LEMMA YieldFacts ==
    ASSUME ProviderInv, Yield
    PROVE  /\ Yielding' = Yielding /\ Head(todo) \in Events
           /\ out \in Seq(Events) /\ out' = Append(out, Head(todo)) /\ out' \in Seq(Events)
           /\ MayFollow(out, Head(todo))
           /\ InOrder(out) /\ InOrder(out')
           /\ \E n \in Nat : Texts(Yielding, n)
<1>1. /\ out \in Seq(Events) /\ todo \in Seq(Events) /\ todo # <<>>
      /\ out' = Append(out, Head(todo)) /\ todo' = Tail(todo)
  BY DEF ProviderInv, ProviderTypes, Yield
<1>2. Yielding' = Yielding /\ Head(todo) \in Events
  BY <1>1, Joining DEF Yielding
<1>3. InOrder(Yielding) /\ \E n \in Nat : Texts(Yielding, n)
  BY DEF ProviderInv, Sound
<1>4. MayFollow(out, Head(todo))
  BY <1>1, <1>3, NextMayFollow DEF Yielding
<1>5. InOrder(out)
  BY <1>1, <1>3, InOrderPrefix DEF Yielding
<1>6. out' \in Seq(Events) /\ InOrder(out')
  BY <1>1, <1>2, <1>4, <1>5, InOrderAppend
<1> QED
  BY <1>1, <1>2, <1>3, <1>4, <1>5, <1>6

(* A poll that takes the first of what an arm yielded.                     *)
LEMMA YieldInv ==
    ASSUME ProviderInv, Yield
    PROVE  ProviderInv'
<1>1. Yielding' = Yielding
  BY YieldFacts
<1>2. /\ out \in Seq(Events) /\ todo \in Seq(Events) /\ todo # <<>>
      /\ out' = Append(out, Head(todo)) /\ todo' = Tail(todo)
      /\ gen' = gen /\ wire' = wire /\ channels' = channels /\ fresh' = fresh
  BY DEF ProviderInv, ProviderTypes, Yield
<1>3. out' \in Seq(Events) /\ todo' \in Seq(Events)
  BY <1>2, Joining
<1>4. ProviderTypes'
  BY <1>2, <1>3 DEF ProviderInv, ProviderTypes
<1>5. PICK n \in 0 .. Len(wire) :
         /\ n = Len(wire) \/ (gen = "failed" /\ n = Len(wire) - 1)
         /\ Sound(Yielding, wire, n, channels, fresh)
  BY DEF ProviderInv
<1>6. /\ n \in 0 .. Len(wire')
      /\ n = Len(wire') \/ (gen' = "failed" /\ n = Len(wire') - 1)
      /\ Sound(Yielding', wire', n, channels', fresh')
  BY <1>1, <1>2, <1>5
<1> QED
  BY <1>2, <1>4, <1>6 DEF ProviderInv

(* Nothing has come and nothing is yielded at first.                       *)
LEMMA ProviderInitInv == Init => ProviderInv
<1> SUFFICES ASSUME Init PROVE ProviderInv
  OBVIOUS
<1>1. /\ gen = "idle" /\ wire = <<>> /\ channels = <<>> /\ fresh = 1
      /\ todo = <<>> /\ out = <<>>
  BY DEF Init, OpenAIInit
<1>2. Yielding = <<>>
  BY <1>1 DEF Yielding
<1>3. <<>> \in Seq(Events) /\ DOMAIN <<>> = {} /\ <<>> \in Seq(Deltas) /\ Len(<<>>) = 0
  OBVIOUS
<1>4. ProviderTypes
  BY <1>1, <1>3, MaxDeltasAssumption DEF ProviderTypes
<1>5. Sound(<<>>, <<>>, 0, <<>>, 1)
  <2>1. /\ InOrder(<<>>) /\ Texts(<<>>, 0) /\ Arguments(<<>>, <<>>)
    BY <1>3 DEF InOrder, Texts, Arguments
  <2>2. \A k, st, c : ~Occurs(<<>>, k, st, c)
    BY <1>3 DEF Occurs
  <2>3. KeysOpen(<<>>, <<>>) /\ CallsLatest(<<>>, <<>>, <<>>)
    BY <1>3, <2>2 DEF KeysOpen, IsOpen, CallsLatest
  <2>4. 1 .. 0 = {}
    OBVIOUS
  <2> QED
    BY <1>3, <2>1, <2>2, <2>3, <2>4 DEF Sound
<1>6. 0 \in 0 .. Len(wire) /\ 0 = Len(wire)
  BY <1>1, <1>3
<1> QED
  BY <1>1, <1>2, <1>4, <1>5, <1>6 DEF ProviderInv

(* Waiting for the next delta.                                             *)
LEMMA AwaitInv ==
    ASSUME ProviderInv, Await
    PROVE  ProviderInv'
<1>1. CASE Accept \/ Refuse \/ PullError \/ End
  <2>1. /\ UNCHANGED <<wire, channels, fresh, todo, out>>
        /\ gen # "failed" /\ gen' \in {"idle", "request", "pull"} \cup Final
    BY <1>1 DEF Accept, Refuse, PullError, End, Goes, Final
  <2> QED
    BY <2>1, StatusInv
<1>2. CASE PullDone
  BY <1>2, PullDoneInv
<1>3. ASSUME NEW d \in Deltas,
             \/ PullUsage(d) \/ PullReasoning(d) \/ PullEmpty(d)
             \/ PullContent(d) \/ PullMessage(d) \/ PullStart(d)
             \/ PullArguments(d) \/ PullUnknown(d) \/ PullNoCall(d)
      PROVE  ProviderInv'
  BY <1>3, PullAsideInv, PullMoreInv, PullMessageInv, PullStartInv, PullFailedInv
<1> QED
  BY <1>1, <1>2, <1>3 DEF Await

(* Each step is one of the generator, one event that it yields, or none.   *)
LEMMA ProviderSteps ==
    ASSUME [Next]_vars
    PROVE  \/ Await
           \/ Yield
           \/ /\ UNCHANGED <<wire, channels, fresh, todo, out>>
              /\ \/ gen' = gen
                 \/ gen = "idle" /\ gen' \in {"request", "failed"}
                 \/ gen \notin Final /\ gen' = "cancelled"
<1>1. CASE UNCHANGED vars
  BY <1>1 DEF vars, openaiVars
<1>2. CASE Call
  BY <1>2 DEF Call, Chat
<1>3. CASE Wait
  BY <1>3 DEF Wait
<1>4. CASE PassMessageStart \/ Keep \/ Flush \/ PassOther
  BY <1>4 DEF PassMessageStart, Keep, Flush, PassOther, Pulled
<1>5. CASE ChatYield
  BY <1>5 DEF ChatYield, openaiVars
<1>6. CASE GiveUp
  BY <1>6 DEF GiveUp, Cancel
<1> QED
  BY <1>1, <1>2, <1>3, <1>4, <1>5, <1>6 DEF Next

(* Every step of the provider preserves its invariant.                     *)
LEMMA ProviderStepInv == ProviderInv /\ [Next]_vars => ProviderInv'
<1> SUFFICES ASSUME ProviderInv, [Next]_vars PROVE ProviderInv'
  OBVIOUS
<1>1. CASE Await
  BY <1>1, AwaitInv
<1>2. CASE Yield
  BY <1>2, YieldInv
<1>3. CASE /\ UNCHANGED <<wire, channels, fresh, todo, out>>
           /\ \/ gen' = gen
              \/ gen = "idle" /\ gen' \in {"request", "failed"}
              \/ gen \notin Final /\ gen' = "cancelled"
  BY <1>3, StatusInv DEF Final
<1> QED
  BY <1>1, <1>2, <1>3, ProviderSteps

(* The invariant of the provider holds in every state.                     *)
THEOREM ProviderInvariance == Spec => []ProviderInv
BY ProviderInitInv, ProviderStepInv, PTL DEF Spec

(* Arguments reach the call that the server meant, the latest of their     *)
(* index when they were sent.                                              *)
THEOREM ArgumentsReachCall == Spec => []ArgumentsFaithful
<1>1. ProviderInv => ArgumentsFaithful
  <2> SUFFICES ASSUME ProviderInv,
                      NEW i \in DOMAIN Yielding,
                      Yielding[i].kind = "tool", Yielding[i].step = "chunk"
               PROVE  \E j \in 1 .. i - 1, q \in 1 .. Yielding[i].text[1] :
                         /\ Yielding[j] = Event("tool", "start", Yielding[i].channel, <<q>>)
                         /\ IsStartOf(q, Yielding[i].text[1])
    BY DEF ArgumentsFaithful
  <2>1. Arguments(Yielding, wire)
    BY DEF ProviderInv, Sound
  <2>2. PICK j \in 1 .. i - 1, q \in 1 .. Yielding[i].text[1] :
           /\ Yielding[j] = Event("tool", "start", Yielding[i].channel, <<q>>)
           /\ LatestStart(wire, q, Yielding[i].text[1], wire[Yielding[i].text[1]].index)
    BY <2>1 DEF Arguments
  <2>3. IsStartOf(q, Yielding[i].text[1])
    BY <2>2 DEF IsStartOf, LatestStart, StartsCall
  <2> QED
    BY <2>2, <2>3
<1> QED
  BY <1>1, ProviderInvariance, PTL

(* No text that came alone in a delta is lost, yielded twice or out of     *)
(* order, but for the delta that the response fails with.                  *)
THEOREM TextsKept == Spec => []TextFaithful
<1>1. ProviderInv => TextFaithful
  <2> SUFFICES ASSUME ProviderInv PROVE TextFaithful
    OBVIOUS
  <2>1. PICK n \in 0 .. Len(wire) :
           /\ n = Len(wire) \/ (gen = "failed" /\ n = Len(wire) - 1)
           /\ Sound(Yielding, wire, n, channels, fresh)
    BY DEF ProviderInv
  <2>2. wire \in Seq(Deltas) /\ DOMAIN wire = 1 .. Len(wire) /\ Len(wire) \in Nat
    BY DEF ProviderInv, ProviderTypes
  <2>3. /\ Texts(Yielding, n)
        /\ \A p \in 1 .. n : SingleText(wire[p]) => Yields(Yielding, p)
    BY <2>1 DEF Sound
  <2> DEFINE carriers == {i \in DOMAIN Yielding : Yielding[i].step \in {"chunk", "whole"}}
  <2>4. \A i : i \in carriers <=> i \in DOMAIN Yielding /\ Carrier(Yielding[i])
    BY DEF Carrier
  <2> HIDE DEF carriers
  <2>5. \A i \in carriers : Yielding[i].text[1] \in DOMAIN wire
    BY <2>2, <2>3, <2>4 DEF Texts
  <2>6. \A i, j \in carriers : i < j => Yielding[i].text[1] < Yielding[j].text[1]
    BY <2>3, <2>4 DEF Texts
  <2>7. ASSUME NEW p \in DOMAIN wire, SingleText(wire[p]), ~(gen = "failed" /\ p = Len(wire))
        PROVE  \E i \in carriers : Yielding[i].text[1] = p
    <3>1. p \in 1 .. n
      <4>1. CASE n = Len(wire)
        BY <2>2, <4>1
      <4>2. CASE gen = "failed" /\ n = Len(wire) - 1
        <5>1. p \in Nat /\ 1 <= p /\ p <= Len(wire) /\ p # Len(wire)
          BY <2>2, <2>7, <4>2
        <5> QED
          BY <2>2, <4>2, <5>1
      <4> QED
        BY <2>1, <4>1, <4>2
    <3> QED
      BY <2>3, <2>4, <2>7, <3>1 DEF Yields
  <2> QED
    BY <2>5, <2>6, <2>7 DEF TextFaithful, carriers
<1> QED
  BY <1>1, ProviderInvariance, PTL

-----------------------------------------------------------------------------
(* Both layers implement Response.                                         *)

(* What occurs in the outline of a sequence.                               *)
LEMMA OutlineFacts ==
    ASSUME NEW s \in Seq(Events)
    PROVE  /\ \A k, st, c : (\E i \in DOMAIN Outline(s) : Outline(s)[i] = <<k, st, c>>)
                               <=> Occurs(s, k, st, c)
           /\ \A e \in Events :
                 Outline(Append(s, e)) = Append(Outline(s), <<e.kind, e.step, e.channel>>)
<1> DEFINE l == Outline(s)
<1>1. DOMAIN l = DOMAIN s /\ \A i \in DOMAIN s : l[i] = <<s[i].kind, s[i].step, s[i].channel>>
  BY DEF Outline
<1>2. ASSUME NEW e \in Events
      PROVE  Outline(Append(s, e)) = Append(l, <<e.kind, e.step, e.channel>>)
  <2> DEFINE t == Append(s, e)
             T == {"message", "tool", "other"} \X {"start", "chunk", "complete", "whole"}
                     \X (ChannelIds \cup {0})
  <2>1. /\ DOMAIN t = DOMAIN s \cup {Len(s) + 1}
        /\ \A i \in DOMAIN s : t[i] = s[i]
        /\ t[Len(s) + 1] = e
    BY AppendProperties, LenProperties
  <2>2. l \in Seq(T)
    <3>1. \A i \in DOMAIN s : l[i] \in T
      <4>1. \A i \in DOMAIN s : s[i] \in Events
        OBVIOUS
      <4>2. \A x \in Events : <<x.kind, x.step, x.channel>> \in T
        BY DEF Events
      <4> QED
        BY <1>1, <4>1, <4>2
    <3>2. l = [i \in 1 .. Len(s) |-> l[i]] /\ Len(s) \in Nat /\ DOMAIN s = 1 .. Len(s)
      BY DEF Outline
    <3> HIDE DEF T, l
    <3> QED
      BY <3>1, <3>2
  <2>3. Len(l) = Len(s)
    BY <2>2, <1>1
  <2>4. <<e.kind, e.step, e.channel>> \in T
    BY DEF Events
  <2> DEFINE m == Append(l, <<e.kind, e.step, e.channel>>)
  <2>5. /\ DOMAIN m = DOMAIN l \cup {Len(l) + 1} /\ m \in Seq(T)
        /\ \A i \in DOMAIN l : m[i] = l[i]
        /\ m[Len(l) + 1] = <<e.kind, e.step, e.channel>>
    BY <2>2, <2>4, AppendProperties, LenProperties
  <2>6. DOMAIN m = 1 .. Len(s) + 1 /\ DOMAIN t = 1 .. Len(s) + 1 /\ Len(s) \in Nat
    BY <2>1, <2>3, <2>5, <1>1
  <2>7. m = [i \in 1 .. Len(s) + 1 |-> m[i]]
    BY <2>5, <2>6
  <2> HIDE DEF t, m, l
  <2>8. \A i \in 1 .. Len(s) + 1 : m[i] = <<t[i].kind, t[i].step, t[i].channel>>
    BY <2>1, <2>3, <2>5, <2>6, <1>1
  <2>9. Outline(t) = [i \in 1 .. Len(s) + 1 |-> <<t[i].kind, t[i].step, t[i].channel>>]
    BY <2>6 DEF Outline
  <2>10. Outline(t) = m
    BY <2>7, <2>8, <2>9
  <2> QED
    BY <2>10 DEF t, m
<1>3. ASSUME NEW k, NEW st, NEW c
      PROVE  (\E i \in DOMAIN l : l[i] = <<k, st, c>>) <=> Occurs(s, k, st, c)
  BY <1>1 DEF Occurs
<1> QED
  BY <1>2, <1>3

(* An event that may follow is a step of Response, as is the end.          *)
LEMMA PromiseYield ==
    ASSUME out \in Seq(Events), NEW e \in Events, MayFollow(out, e),
           out' = Append(out, e), gen' = gen, gen \notin Final
    PROVE  Promise!Next
<1>1. /\ StatusOf(gen) = "streaming" /\ StatusOf(gen') = StatusOf(gen)
      /\ Outline(out)' = Append(Outline(out), <<e.kind, e.step, e.channel>>)
  BY OutlineFacts DEF StatusOf, Final
<1>2. Promise!Add(<<e.kind, e.step, e.channel>>)
  BY <1>1 DEF Promise!Add
<1>3. \A k, c : /\ Promise!Started(k, c) <=> Occurs(out, k, "start", c)
                /\ Promise!Completed(k, c) <=> Occurs(out, k, "complete", c)
  BY OutlineFacts DEF Promise!Started, Promise!Completed, Promise!Event
<1>4. \A k, c : Promise!Open(k, c) <=> IsOpen(out, k, c)
  BY <1>3 DEF Promise!Open, IsOpen
<1>5. CASE /\ e.step = "start"
           /\ e.kind \in ChannelKinds /\ e.channel \in ChannelIds
           /\ NoneOpen(out)
           /\ \A k \in ChannelKinds : ~Occurs(out, k, "start", e.channel)
  <2>1. Promise!NothingOpen
    BY <1>4, <1>5 DEF Promise!NothingOpen, Promise!Kinds, NoneOpen, ChannelKinds
  <2>2. Promise!Start(e.kind, e.channel)
    BY <1>2, <1>3, <1>5, <2>1
       DEF Promise!Start, Promise!Event, Promise!Kinds, ChannelKinds
  <2> QED
    BY <1>5, <2>2 DEF Promise!Next, Promise!Kinds, ChannelKinds
<1>6. CASE /\ e.step \in {"chunk", "complete"}
           /\ e.kind \in ChannelKinds /\ e.channel \in ChannelIds
           /\ IsOpen(out, e.kind, e.channel)
  <2>1. Promise!Chunk(e.kind, e.channel) \/ Promise!Complete(e.kind, e.channel)
    BY <1>2, <1>4, <1>6 DEF Promise!Chunk, Promise!Complete, Promise!Event
  <2> QED
    BY <1>6, <2>1 DEF Promise!Next, Promise!Kinds, ChannelKinds
<1>7. CASE e.kind = "other" /\ e.step = "whole" /\ e.channel = 0
  BY <1>2, <1>7 DEF Promise!Next, Promise!Aside
<1> QED
  BY <1>5, <1>6, <1>7 DEF MayFollow

(* A step that yields nothing is one of Response or leaves it unchanged.   *)
LEMMA PromiseStill ==
    ASSUME UNCHANGED out,
           \/ gen' = gen
           \/ gen \notin Final /\ gen' \in {"idle", "request", "pull", "last"}
           \/ gen \notin Final /\ gen' \in {"failed", "panicked", "cancelled"}
    PROVE  [Promise!Next]_(Promise!vars)
<1>1. Outline(out)' = Outline(out)
  OBVIOUS
<1>2. CASE gen' = gen
  BY <1>1, <1>2 DEF Promise!vars
<1>3. CASE gen \notin Final /\ gen' \in {"idle", "request", "pull", "last"}
  BY <1>1, <1>3 DEF Promise!vars, StatusOf, Final
<1>4. CASE gen \notin Final /\ gen' \in {"failed", "panicked", "cancelled"}
  <2>1. StatusOf(gen) = "streaming" /\ StatusOf(gen') = "broken"
    BY <1>4 DEF StatusOf, Final
  <2>2. Promise!Break
    BY <1>1, <2>1 DEF Promise!Break
  <2> QED
    BY <2>2 DEF Promise!Next
<1> QED
  BY <1>2, <1>3, <1>4

(* A response that ends with nothing open is complete.                     *)
LEMMA PromiseEnd ==
    ASSUME out \in Seq(Events), UNCHANGED out, gen = "last", gen' = "ended",
           NoneOpen(out)
    PROVE  Promise!Next
<1>1. Outline(out)' = Outline(out)
  OBVIOUS
<1>2. StatusOf(gen) = "streaming" /\ StatusOf(gen') = "complete"
  BY DEF StatusOf
<1>3. \A k, c : Promise!Open(k, c) <=> IsOpen(out, k, c)
  BY OutlineFacts
     DEF Promise!Started, Promise!Completed, Promise!Event, Promise!Open, IsOpen
<1>4. Promise!NothingOpen
  BY <1>3 DEF Promise!NothingOpen, Promise!Kinds, NoneOpen, ChannelKinds
<1>5. Promise!End
  BY <1>1, <1>2, <1>4 DEF Promise!End
<1> QED
  BY <1>5 DEF Promise!Next

(* Where the steps of the generator leave it.                              *)
LEMMA AwaitStatus ==
    ASSUME Await
    PROVE  /\ out' = out
           /\ \/ gen \notin Final /\ gen' \in {"idle", "request", "pull", "last"}
              \/ gen \notin Final /\ gen' \in {"failed", "panicked", "cancelled"}
              \/ End /\ gen = "last" /\ todo = <<>> /\ gen' = "ended"
<1>1. CASE Accept \/ Refuse \/ PullDone \/ PullError
  BY <1>1 DEF Accept, Refuse, PullDone, PullError, Goes, Final
<1>2. CASE End
  BY <1>2 DEF End, Goes
<1>3. ASSUME NEW d \in Deltas,
             \/ PullUsage(d) \/ PullReasoning(d) \/ PullEmpty(d)
             \/ PullContent(d) \/ PullMessage(d) \/ PullStart(d)
             \/ PullArguments(d)
      PROVE  gen = "pull" /\ gen' = "pull" /\ out' = out
  BY <1>3 DEF PullUsage, PullReasoning, PullEmpty, PullContent, PullMessage, PullStart,
              PullArguments, Receive, Goes
<1>4. ASSUME NEW d \in Deltas, PullUnknown(d) \/ PullNoCall(d)
      PROVE  gen = "pull" /\ gen' \in {"failed", "panicked"} /\ out' = out
  BY <1>4 DEF PullUnknown, PullNoCall, Receive, Goes
<1> QED
  BY <1>1, <1>2, <1>3, <1>4 DEF Await, Final

(* When the generator ends, nothing is open in what it has yielded.        *)
LEMMA EndsClosed ==
    ASSUME ProviderInv, gen = "last", todo = <<>>
    PROVE  out \in Seq(Events) /\ NoneOpen(out)
<1>1. out \in Seq(Events) /\ DOMAIN channels = {}
  BY DEF ProviderInv, ProviderTypes
<1>2. Yielding = out
  BY <1>1 DEF Yielding
<1>3. KeysOpen(out, channels)
  BY <1>2 DEF ProviderInv, Sound
<1> QED
  BY <1>1, <1>3 DEF KeysOpen, NoneOpen

(* Every step of the provider is one of Response or leaves it unchanged.   *)
LEMMA PromiseStep == ProviderInv /\ [Next]_vars => [Promise!Next]_(Promise!vars)
<1> SUFFICES ASSUME ProviderInv, [Next]_vars
             PROVE  [Promise!Next]_(Promise!vars)
  OBVIOUS
<1>1. CASE Await
  <2>1. CASE End /\ gen = "last" /\ todo = <<>> /\ gen' = "ended"
    BY <1>1, <2>1, AwaitStatus, EndsClosed, PromiseEnd
  <2> QED
    BY <1>1, <2>1, AwaitStatus, PromiseStill
<1>2. CASE Yield
  <2>1. gen' = gen /\ gen \notin Final
    BY <1>2 DEF Yield, Final
  <2> QED
    BY <1>2, <2>1, YieldFacts, PromiseYield
<1>3. CASE /\ UNCHANGED <<wire, channels, fresh, todo, out>>
           /\ \/ gen' = gen
              \/ gen = "idle" /\ gen' \in {"request", "failed"}
              \/ gen \notin Final /\ gen' = "cancelled"
  BY <1>3, PromiseStill DEF Final
<1> QED
  BY <1>1, <1>2, <1>3, ProviderSteps

(* The provider implements Response: messages and calls come one after the *)
(* other in channels of their own, and a response that ends leaves none    *)
(* open, whatever the server sends and wherever it stops.                  *)
THEOREM ProviderRefines == Spec => ProviderImplements
<1>1. Init => Promise!Init
  BY DEF Init, OpenAIInit, Promise!Init, Outline, StatusOf
<1> QED
  BY <1>1, ProviderInvariance, PromiseStep, PTL DEF Spec, ProviderImplements, Promise!Spec

-----------------------------------------------------------------------------
(* The layer.                                                              *)

Streamed == chatOut \o chatTodo

(* Each reply comes right before the end of its message, and each end has  *)
(* one.                                                                    *)
IsEnd(e) == e.kind = "message" /\ e.step = "complete"
Whole(z) ==
    \A i \in DOMAIN z :
        /\ IsReply(z[i]) => /\ i + 1 \in DOMAIN z
                            /\ z[i + 1] = Event("message", "complete", z[i].channel, <<>>)
        /\ IsEnd(z[i]) => i - 1 \in DOMAIN z /\ IsReply(z[i - 1])

(* All but the replies is the same in both sequences, in the same order.   *)
SameRest(z, o) ==
    /\ {z[i] : i \in Rest(z)} = {o[p] : p \in Rest(o)}
    /\ \A i, j \in Rest(z), p, q \in Rest(o) :
          z[i] = o[p] /\ z[j] = o[q] => (i < j <=> p < q)

Replies(z) == \A i \in DOMAIN z : IsReply(z[i]) => IsTextOf(z[i].text, z[i].channel)

SameStarts(z, o) ==
    \A k \in ChannelKinds, c \in ChannelIds, st \in {"start", "complete"} :
        Occurs(z, k, st, c) <=> Occurs(o, k, st, c)

ChatTypes ==
    /\ chatOut \in Seq(Events) /\ chatTodo \in Seq(Events)
    /\ DOMAIN buffers \subseteq ChannelIds
    /\ \A c \in DOMAIN buffers : buffers[c] \in Seq(1 .. MaxDeltas)

ChatInv ==
    /\ ChatTypes
    /\ InOrder(Streamed)
    /\ SameStarts(Streamed, out)
    /\ \A c \in ChannelIds : c \in DOMAIN buffers <=> IsOpen(out, "message", c)
    /\ \A c \in DOMAIN buffers : IsTextOf(buffers[c], c)
    /\ Whole(Streamed) /\ Replies(Streamed) /\ SameRest(Streamed, out)

(* One event more, and the events that are no part of a reply.             *)
LEMMA RestAppend ==
    ASSUME NEW s \in Seq(Events), NEW e \in Events
    PROVE  LET t == Append(s, e) IN
           /\ IsReply(e) => Rest(t) = Rest(s)
           /\ ~IsReply(e) => Rest(t) = Rest(s) \cup {Len(s) + 1}
           /\ t[Len(s) + 1] = e /\ Len(s) \in Nat
           /\ \A i \in Rest(s) : t[i] = s[i] /\ i \in 1 .. Len(s)
<1> DEFINE t == Append(s, e)
<1>1. /\ DOMAIN t = DOMAIN s \cup {Len(s) + 1}
      /\ \A i \in DOMAIN s : t[i] = s[i]
      /\ t[Len(s) + 1] = e
  BY AppendProperties, LenProperties
<1>2. DOMAIN s = 1 .. Len(s) /\ Len(s) \in Nat
  OBVIOUS
<1> HIDE DEF t
<1>3. IsReply(e) => Rest(t) = Rest(s)
  BY <1>1, <1>2 DEF Rest
<1>4. ~IsReply(e) => Rest(t) = Rest(s) \cup {Len(s) + 1}
  BY <1>1, <1>2 DEF Rest
<1>5. \A i \in Rest(s) : t[i] = s[i] /\ i \in 1 .. Len(s)
  BY <1>1, <1>2 DEF Rest
<1> QED
  BY <1>1, <1>2, <1>3, <1>4, <1>5 DEF t

(* A reply more on either side changes nothing of the rest.                *)
LEMMA SameRestReply ==
    ASSUME NEW z \in Seq(Events), NEW o \in Seq(Events), SameRest(z, o),
           NEW e \in Events, IsReply(e)
    PROVE  SameRest(z, Append(o, e)) /\ SameRest(Append(z, e), o)
<1>1. SameRest(z, Append(o, e))
  <2> DEFINE u == Append(o, e)
  <2>1. Rest(u) = Rest(o) /\ \A i \in Rest(o) : u[i] = o[i]
    BY RestAppend
  <2> HIDE DEF u
  <2>2. SameRest(z, u)
    BY <2>1 DEF SameRest
  <2> QED
    BY <2>2 DEF u
<1>2. SameRest(Append(z, e), o)
  <2> DEFINE u == Append(z, e)
  <2>1. Rest(u) = Rest(z) /\ \A i \in Rest(z) : u[i] = z[i]
    BY RestAppend
  <2> HIDE DEF u
  <2>2. SameRest(u, o)
    BY <2>1 DEF SameRest
  <2> QED
    BY <2>2 DEF u
<1> QED
  BY <1>1, <1>2

(* Nor does a new event on both sides.                                     *)
LEMMA SameRestBoth ==
    ASSUME NEW z \in Seq(Events), NEW o \in Seq(Events), SameRest(z, o),
           NEW e \in Events, ~IsReply(e), \A p \in Rest(o) : o[p] # e
    PROVE  SameRest(Append(z, e), Append(o, e))
<1> DEFINE y == Append(z, e)
           u == Append(o, e)
           m == Len(z) + 1
           n == Len(o) + 1
<1>1. /\ Rest(y) = Rest(z) \cup {m} /\ y[m] = e /\ Len(z) \in Nat
      /\ \A i \in Rest(z) : y[i] = z[i] /\ i \in 1 .. Len(z)
  BY RestAppend
<1>2. /\ Rest(u) = Rest(o) \cup {n} /\ u[n] = e /\ Len(o) \in Nat
      /\ \A i \in Rest(o) : u[i] = o[i] /\ i \in 1 .. Len(o)
  BY RestAppend
<1>3. /\ \A i \in Rest(z) : i \in Nat /\ i < m
      /\ \A p \in Rest(o) : p \in Nat /\ p < n
      /\ m \in Nat /\ n \in Nat
  BY <1>1, <1>2
<1> HIDE DEF y, u, m, n
<1>4. {y[i] : i \in Rest(y)} = {z[i] : i \in Rest(z)} \cup {e}
  BY <1>1
<1>5. {u[i] : i \in Rest(u)} = {o[i] : i \in Rest(o)} \cup {e}
  BY <1>2
<1>6. \A i \in Rest(z) : z[i] # e
  <2>1. {z[i] : i \in Rest(z)} = {o[p] : p \in Rest(o)}
    BY DEF SameRest
  <2>2. ASSUME NEW i \in Rest(z) PROVE z[i] # e
    <3>1. PICK p \in Rest(o) : z[i] = o[p]
      BY <2>1, <2>2
    <3> QED
      BY <3>1
  <2> QED
    BY <2>2
<1>7. ASSUME NEW i \in Rest(y), NEW j \in Rest(y), NEW p \in Rest(u), NEW q \in Rest(u),
             y[i] = u[p], y[j] = u[q]
      PROVE  i < j <=> p < q
  <2>1. i = m <=> p = n
    BY <1>1, <1>2, <1>3, <1>6, <1>7
  <2>2. j = m <=> q = n
    BY <1>1, <1>2, <1>3, <1>6, <1>7
  <2>3. CASE i \in Rest(z) /\ j \in Rest(z)
    <3>1. p \in Rest(o) /\ q \in Rest(o)
      BY <1>2, <1>3, <2>1, <2>2, <2>3
    <3> QED
      BY <1>1, <1>2, <1>7, <2>3, <3>1 DEF SameRest
  <2>4. CASE i = m /\ j \in Rest(z)
    <3>1. p = n /\ q \in Rest(o)
      BY <1>2, <1>3, <2>1, <2>2, <2>4
    <3> QED
      BY <1>3, <2>4, <3>1
  <2>5. CASE i \in Rest(z) /\ j = m
    <3>1. p \in Rest(o) /\ q = n
      BY <1>2, <1>3, <2>1, <2>2, <2>5
    <3> QED
      BY <1>3, <2>5, <3>1
  <2>6. CASE i = m /\ j = m
    BY <1>3, <2>1, <2>2, <2>6
  <2> QED
    BY <1>1, <2>3, <2>4, <2>5, <2>6
<1>8. SameRest(y, u)
  BY <1>4, <1>5, <1>7 DEF SameRest
<1> QED
  BY <1>8 DEF y, u

(* The next event of the provider is one that it has not yielded yet, and  *)
(* its text is later than all those yielded.                               *)
LEMMA NextIsNew ==
    ASSUME NEW s \in Seq(Events), NEW t \in Seq(Events), NEW n \in Nat, t # <<>>,
           InOrder(s \o t), Texts(s \o t, n)
    PROVE  LET e == Head(t) IN
           /\ Carrier(e) => e.text = <<e.text[1]>>
           /\ Carrier(e) =>
                 \A i \in DOMAIN s : Carrier(s[i]) => s[i].text[1] < e.text[1]
           /\ e.step = "complete" => e.text = <<>>
           /\ ~IsReply(e) => \A i \in DOMAIN s : s[i] # e
<1> DEFINE u == s \o t
           m == Len(s) + 1
           e == Head(t)
<1>1. /\ m \in DOMAIN u /\ u[m] = e
      /\ \A i \in DOMAIN s : i \in DOMAIN u /\ u[i] = s[i] /\ i < m
  OBVIOUS
<1>2. MayFollow(s, e)
  BY NextMayFollow
<1>3. Texts(u, n)
  OBVIOUS
<1>4. e \in Events
  BY Joining
<1> HIDE DEF u, m, e
<1>5. Carrier(e) => e.text = <<e.text[1]>>
  BY <1>1, <1>3 DEF Texts
<1>6. Carrier(e) => \A i \in DOMAIN s : Carrier(s[i]) => s[i].text[1] < e.text[1]
  BY <1>1, <1>3 DEF Texts
<1>7. e.step = "complete" => e.text = <<>>
  BY <1>1, <1>3 DEF Texts
<1>8. ASSUME NEW i \in DOMAIN s, s[i] = e
      PROVE  IsReply(e)
  <2>1. Occurs(s, e.kind, e.step, e.channel)
    BY <1>8 DEF Occurs
  <2>2. CASE Carrier(e)
    <3>1. u[i].text[1] < u[m].text[1]
      BY <1>1, <1>3, <1>8, <2>2 DEF Texts
    <3>2. u[m].text[1] \in Int
      BY <1>1, <1>3, <2>2 DEF Texts
    <3> QED
      BY <1>1, <1>8, <3>1, <3>2
  <2>3. CASE e.step = "start"
    BY <1>2, <2>1, <2>3 DEF MayFollow
  <2>4. CASE e.step = "complete"
    BY <1>2, <2>1, <2>4 DEF MayFollow, IsOpen
  <2> QED
    BY <1>4, <2>2, <2>3, <2>4 DEF Events, Carrier
<1> QED
  BY <1>5, <1>6, <1>7, <1>8 DEF e

(* An event that is neither a reply nor the end of a message, or both of   *)
(* them.                                                                   *)
LEMMA WholeAppend ==
    ASSUME NEW z \in Seq(Events), Whole(z), NEW e \in Events, ~IsReply(e), ~IsEnd(e)
    PROVE  Whole(Append(z, e))
<1> DEFINE t == Append(z, e)
<1>1. /\ DOMAIN t = DOMAIN z \cup {Len(z) + 1}
      /\ \A i \in DOMAIN z : t[i] = z[i]
      /\ t[Len(z) + 1] = e
  BY AppendProperties, LenProperties
<1> HIDE DEF t
<1>2. Whole(t)
  BY <1>1 DEF Whole
<1> QED
  BY <1>2 DEF t

(* A reply and its end, passed on together, leave every reply whole.       *)
LEMMA WholeReply ==
    ASSUME NEW z \in Seq(Events), Whole(z), NEW a \in Events, IsReply(a),
           NEW b \in Events, b = Event("message", "complete", a.channel, <<>>)
    PROVE  Whole(Append(Append(z, a), b))
<1> DEFINE t == Append(z, a)
           u == Append(t, b)
           n == Len(z)
<1>1. /\ DOMAIN t = DOMAIN z \cup {n + 1} /\ t \in Seq(Events) /\ Len(t) = n + 1
      /\ \A i \in DOMAIN z : t[i] = z[i]
      /\ t[n + 1] = a
  BY AppendProperties, LenProperties
<1>2. n \in Nat /\ DOMAIN z = 1 .. n
  OBVIOUS
<1> HIDE DEF t, n
<1>3. /\ DOMAIN u = DOMAIN t \cup {n + 2}
      /\ \A i \in DOMAIN t : u[i] = t[i]
      /\ u[n + 2] = b
  BY <1>1, <1>2, AppendProperties, LenProperties
<1> HIDE DEF u
<1>4. /\ DOMAIN u = 1 .. n + 2
      /\ \A i \in DOMAIN z : u[i] = z[i]
      /\ u[n + 1] = a /\ u[n + 2] = b
  BY <1>1, <1>2, <1>3
<1>5. ~IsEnd(a) /\ IsEnd(b) /\ ~IsReply(b)
  BY DEF IsReply, IsEnd, Event
<1>6. ASSUME NEW i \in DOMAIN u
      PROVE  /\ IsReply(u[i]) =>
                   /\ i + 1 \in DOMAIN u
                   /\ u[i + 1] = Event("message", "complete", u[i].channel, <<>>)
             /\ IsEnd(u[i]) => i - 1 \in DOMAIN u /\ IsReply(u[i - 1])
  <2>1. CASE i \in DOMAIN z
    <3>1. u[i] = z[i] /\ DOMAIN z \subseteq DOMAIN u
      BY <1>2, <1>4, <2>1
    <3> QED
      BY <1>4, <2>1, <3>1 DEF Whole
  <2>2. CASE i = n + 1
    <3>1. i + 1 = n + 2 /\ i + 1 \in DOMAIN u
      BY <1>2, <1>4, <2>2
    <3> QED
      BY <1>4, <1>5, <2>2, <3>1
  <2>3. CASE i = n + 2
    <3>1. i - 1 = n + 1 /\ i - 1 \in DOMAIN u
      BY <1>2, <1>4, <2>3
    <3> QED
      BY <1>4, <1>5, <2>3, <3>1
  <2> QED
    BY <1>2, <1>4, <2>1, <2>2, <2>3
<1>7. Whole(u)
  BY <1>6 DEF Whole
<1> QED
  BY <1>7 DEF t, u

(* The same events added to both sequences, or chunks to either.           *)
LEMMA SameStartsAppend ==
    ASSUME NEW z \in Seq(Events), NEW o \in Seq(Events), SameStarts(z, o), NEW e \in Events
    PROVE  /\ SameStarts(Append(z, e), Append(o, e))
           /\ IsReply(e) => SameStarts(Append(z, e), o) /\ SameStarts(z, Append(o, e))
<1> DEFINE y == Append(z, e)
           u == Append(o, e)
<1>1. \A k, st, c :
         /\ Occurs(y, k, st, c)
              <=> Occurs(z, k, st, c) \/ (e.kind = k /\ e.step = st /\ e.channel = c)
         /\ Occurs(u, k, st, c)
              <=> Occurs(o, k, st, c) \/ (e.kind = k /\ e.step = st /\ e.channel = c)
  BY OccursAppend
<1> HIDE DEF y, u
<1>2. SameStarts(y, u)
  BY <1>1 DEF SameStarts
<1>3. IsReply(e) => e.step \notin {"start", "complete"}
  BY DEF IsReply
<1>4. IsReply(e) => SameStarts(y, o) /\ SameStarts(z, u)
  BY <1>1, <1>3 DEF SameStarts
<1> QED
  BY <1>2, <1>4 DEF y, u

(* The pieces of a message, when the provider yields one more event.       *)
LEMMA PiecesAppend ==
    ASSUME out \in Seq(Events), NEW e \in Events, out' = Append(out, e), NEW c
    PROVE  /\ \A p \in Pieces(c) : out'[p] = out[p] /\ p \in DOMAIN out
           /\ Pieces(c)' = IF IsReply(e) /\ e.channel = c
                             THEN Pieces(c) \cup {Len(out) + 1} ELSE Pieces(c)
           /\ out'[Len(out) + 1] = e
           /\ \A text : ~(IsReply(e) /\ e.channel = c) =>
                           (IsTextOf(text, c)' <=> IsTextOf(text, c))
<1>1. /\ DOMAIN out' = DOMAIN out \cup {Len(out) + 1}
      /\ \A i \in DOMAIN out : out'[i] = out[i]
      /\ out'[Len(out) + 1] = e
      /\ Len(out) + 1 \notin DOMAIN out
  <2>1. Len(out) + 1 \notin DOMAIN out
    OBVIOUS
  <2> QED
    BY <2>1, AppendProperties, LenProperties
<1>2. \A p \in Pieces(c) : out'[p] = out[p] /\ p \in DOMAIN out
  BY <1>1 DEF Pieces
<1>3. Pieces(c)' = IF IsReply(e) /\ e.channel = c
                     THEN Pieces(c) \cup {Len(out) + 1} ELSE Pieces(c)
  <2>1. \A p : p \in Pieces(c)' <=> p \in DOMAIN out' /\ IsReply(out'[p]) /\ out'[p].channel = c
    BY DEF Pieces, IsReply
  <2>2. \A p : p \in Pieces(c) <=> p \in DOMAIN out /\ IsReply(out[p]) /\ out[p].channel = c
    BY DEF Pieces
  <2>3. \A p : p \in Pieces(c)'
               <=> p \in Pieces(c) \/ (p = Len(out) + 1 /\ IsReply(e) /\ e.channel = c)
    BY <1>1, <2>1, <2>2
  <2> QED
    BY <2>3
<1>4. ASSUME NEW text, ~(IsReply(e) /\ e.channel = c)
      PROVE  IsTextOf(text, c)' <=> IsTextOf(text, c)
  <2>1. {out'[p].text[1] : p \in Pieces(c)'} = {out[p].text[1] : p \in Pieces(c)}
    BY <1>2, <1>3, <1>4
  <2> QED
    BY <2>1 DEF IsTextOf
<1> QED
  BY <1>1, <1>2, <1>3, <1>4

(* Where the layer is when the provider yields it an event.                *)
LEMMA PulledFacts ==
    ASSUME ProviderInv, ChatInv, NEW kind, NEW step, Pulled(kind, step),
           NEW e, e = Head(todo)
    PROVE  /\ e \in Events /\ e.kind = kind /\ e.step = step
           /\ out \in Seq(Events) /\ chatOut \in Seq(Events)
           /\ chatTodo = <<>> /\ Streamed = chatOut
           /\ out' = Append(out, e) /\ out' \in Seq(Events)
           /\ MayFollow(out, e) /\ MayFollow(chatOut, e)
           /\ InOrder(out) /\ InOrder(out') /\ InOrder(chatOut)
           /\ Carrier(e) => e.text = <<e.text[1]>>
           /\ Carrier(e) =>
                 \A i \in DOMAIN out : Carrier(out[i]) => out[i].text[1] < e.text[1]
           /\ step = "complete" => e.text = <<>>
           /\ ~IsReply(e) => \A i \in DOMAIN out : out[i] # e
           /\ ProviderInv' /\ gen \in {"pull", "last"} /\ gen' = gen
<1>1. Yield /\ chatTodo = <<>> /\ e.kind = kind /\ e.step = step
  BY DEF Pulled
<1>2. /\ e \in Events
      /\ out \in Seq(Events) /\ out' = Append(out, e) /\ out' \in Seq(Events)
      /\ MayFollow(out, e)
      /\ InOrder(out) /\ InOrder(out')
      /\ \E n \in Nat : Texts(Yielding, n)
  BY <1>1, YieldFacts
<1>3. chatOut \in Seq(Events) /\ Streamed = chatOut
  BY <1>1 DEF ChatInv, ChatTypes, Streamed
<1>4. MayFollow(chatOut, e) /\ InOrder(chatOut)
  <2>1. InOrder(chatOut) /\ SameStarts(chatOut, out)
    BY <1>3 DEF ChatInv
  <2> QED
    BY <1>2, <2>1, FollowSame DEF SameStarts
<1>5. todo \in Seq(Events) /\ todo # <<>> /\ InOrder(out \o todo)
  BY <1>1 DEF ProviderInv, ProviderTypes, Sound, Yielding, Yield
<1>6. PICK n \in Nat : Texts(out \o todo, n)
  BY <1>2 DEF Yielding
<1>7. /\ Carrier(e) => e.text = <<e.text[1]>>
      /\ Carrier(e) =>
            \A i \in DOMAIN out : Carrier(out[i]) => out[i].text[1] < e.text[1]
      /\ e.step = "complete" => e.text = <<>>
      /\ ~IsReply(e) => \A i \in DOMAIN out : out[i] # e
  BY <1>2, <1>5, <1>6, NextIsNew
<1>8. ProviderInv' /\ gen \in {"pull", "last"} /\ gen' = gen
  BY <1>1, YieldInv DEF Yield
<1> QED
  BY <1>1, <1>2, <1>3, <1>4, <1>7, <1>8

(* The pieces of a reply that has been yielded are all there are.          *)
LEMMA RepliesKept ==
    ASSUME ProviderInv, ChatInv, out \in Seq(Events), NEW e \in Events, MayFollow(out, e),
           out' = Append(out, e),
           NEW i \in DOMAIN Streamed, IsReply(Streamed[i]),
           NEW text, text = Streamed[i].text, NEW c, c = Streamed[i].channel
    PROVE  IsTextOf(text, c)'
<1>1. /\ IsTextOf(text, c)
      /\ i + 1 \in DOMAIN Streamed
      /\ Streamed[i + 1] = Event("message", "complete", c, <<>>)
      /\ InOrder(Streamed) /\ Streamed \in Seq(Events)
      /\ SameStarts(Streamed, out)
  BY DEF ChatInv, ChatTypes, Streamed, Replies, Whole
<1>2. c \in ChannelIds
  BY <1>1, StartedBefore DEF IsReply
<1>3. Occurs(Streamed, "message", "complete", c)
  BY <1>1 DEF Occurs, Event
<1>4. Occurs(out, "message", "complete", c)
  BY <1>1, <1>2, <1>3 DEF SameStarts, ChannelKinds
<1>5. ~(IsReply(e) /\ e.channel = c)
  BY <1>4 DEF MayFollow, IsReply, IsOpen
<1> QED
  BY <1>1, <1>5, PiecesAppend

(* The replies stay whole when an event is added that is none.             *)
LEMMA RepliesAppend ==
    ASSUME ProviderInv, ChatInv, out \in Seq(Events), NEW e \in Events, MayFollow(out, e),
           out' = Append(out, e),
           NEW a \in Events, ~IsReply(a),
           Streamed' = Append(Streamed, a) \/ Streamed' = Streamed
    PROVE  Replies(Streamed)'
<1> SUFFICES ASSUME NEW i \in DOMAIN Streamed', IsReply(Streamed'[i]),
                    NEW text, text = Streamed'[i].text, NEW c, c = Streamed'[i].channel
             PROVE  IsTextOf(text, c)'
  BY DEF Replies, IsTextOf, IsReply
<1>1. Streamed \in Seq(Events)
  BY DEF ChatInv, ChatTypes, Streamed
<1>2. i \in DOMAIN Streamed /\ Streamed[i] = Streamed'[i]
  <2>1. CASE Streamed' = Streamed
    BY <2>1
  <2>2. CASE Streamed' = Append(Streamed, a)
    <3>1. /\ DOMAIN Streamed' = DOMAIN Streamed \cup {Len(Streamed) + 1}
          /\ \A j \in DOMAIN Streamed : Streamed'[j] = Streamed[j]
          /\ Streamed'[Len(Streamed) + 1] = a
      BY <1>1, <2>2, AppendProperties, LenProperties
    <3> QED
      BY <3>1
  <2> QED
    BY <2>1, <2>2
<1> QED
  BY <1>2, RepliesKept

(* An event that is passed on as it comes.                                 *)
LEMMA PassedOn ==
    ASSUME ProviderInv, ChatInv, NEW kind, NEW step, Pulled(kind, step),
           NEW e, e = Head(todo), ~IsReply(e), ~IsEnd(e),
           chatOut' = Append(chatOut, e), UNCHANGED chatTodo
    PROVE  /\ chatOut' \in Seq(Events) /\ chatTodo' \in Seq(Events)
           /\ InOrder(Streamed)' /\ SameStarts(Streamed, out)'
           /\ Whole(Streamed)' /\ Replies(Streamed)' /\ SameRest(Streamed, out)'
<1>1. /\ e \in Events /\ e.kind = kind /\ e.step = step
      /\ out \in Seq(Events) /\ chatOut \in Seq(Events)
      /\ chatTodo = <<>> /\ Streamed = chatOut
      /\ out' = Append(out, e)
      /\ MayFollow(out, e) /\ MayFollow(chatOut, e) /\ InOrder(chatOut)
      /\ \A i \in DOMAIN out : out[i] # e
  BY PulledFacts
<1>2. chatOut' \in Seq(Events) /\ chatTodo' \in Seq(Events)
  BY <1>1, AppendProperties, LenProperties
<1>3. Streamed' = Append(chatOut, e)
  BY <1>1, <1>2 DEF Streamed
<1>4. /\ SameStarts(chatOut, out) /\ Whole(chatOut) /\ SameRest(chatOut, out)
  BY <1>1 DEF ChatInv
<1>5. InOrder(Append(chatOut, e))
  BY <1>1, InOrderAppend
<1>6. SameStarts(Append(chatOut, e), Append(out, e))
  BY <1>1, <1>4, SameStartsAppend
<1>7. Whole(Append(chatOut, e))
  BY <1>1, <1>4, WholeAppend
<1>8. SameRest(Append(chatOut, e), Append(out, e))
  <2>1. \A p \in Rest(out) : out[p] # e
    BY <1>1 DEF Rest
  <2> QED
    BY <1>1, <1>4, <2>1, SameRestBoth
<1>9. Replies(Streamed)'
  BY <1>1, <1>3, RepliesAppend
<1> QED
  BY <1>1, <1>2, <1>3, <1>5, <1>6, <1>7, <1>8, <1>9

(* A message starts: it has no text yet.                                   *)
LEMMA PassMessageStartInv ==
    ASSUME ProviderInv, ChatInv, PassMessageStart
    PROVE  ChatInv'
<1>1. PICK e : e = Head(todo)
  OBVIOUS
<1>2. /\ Pulled("message", "start") /\ chatOut' = Append(chatOut, e)
      /\ UNCHANGED chatTodo
      /\ buffers' = [c \in DOMAIN buffers \cup {e.channel} |->
                        IF c = e.channel THEN <<>> ELSE buffers[c]]
  BY <1>1 DEF PassMessageStart, Channel
<1>3. /\ e \in Events /\ e.kind = "message" /\ e.step = "start"
      /\ out \in Seq(Events) /\ InOrder(out) /\ InOrder(out') /\ out' \in Seq(Events)
      /\ out' = Append(out, e) /\ MayFollow(out, e)
  BY <1>1, <1>2, PulledFacts
<1>4. ~IsReply(e) /\ ~IsEnd(e)
  BY <1>3 DEF IsReply, IsEnd
<1>5. /\ chatOut' \in Seq(Events) /\ chatTodo' \in Seq(Events)
      /\ InOrder(Streamed)' /\ SameStarts(Streamed, out)'
      /\ Whole(Streamed)' /\ Replies(Streamed)' /\ SameRest(Streamed, out)'
  BY <1>1, <1>2, <1>4, PassedOn
<1>6. NoneOpen(out) /\ e.channel \in ChannelIds /\ ~Occurs(out, "message", "start", e.channel)
  BY <1>3 DEF MayFollow, ChannelKinds
<1>7. DOMAIN buffers = {}
  BY <1>6 DEF ChatInv, ChatTypes, NoneOpen, ChannelKinds
<1>8. DOMAIN buffers' = {e.channel} /\ buffers'[e.channel] = <<>>
  BY <1>2, <1>7
<1>9. \A c \in ChannelIds : IsOpen(out', "message", c) <=> c = e.channel
  BY <1>3, OpenStarted DEF ChannelKinds
<1>10. \A c \in ChannelIds : c \in DOMAIN buffers' <=> IsOpen(out, "message", c)'
  BY <1>8, <1>9 DEF IsOpen, Occurs
<1>11. \A c \in DOMAIN buffers' : IsTextOf(buffers[c], c)'
  <2>1. Pieces(e.channel)' = {}
    <3>1. ASSUME NEW p \in DOMAIN out', IsReply(out'[p]), out'[p].channel = e.channel
          PROVE  FALSE
      <4>1. /\ DOMAIN out' = DOMAIN out \cup {Len(out) + 1}
            /\ \A i \in DOMAIN out : out'[i] = out[i]
            /\ out'[Len(out) + 1] = e
        BY <1>3, AppendProperties, LenProperties
      <4>2. p \in DOMAIN out /\ IsReply(out[p]) /\ out[p].channel = e.channel
        BY <3>1, <4>1, <1>4
      <4>3. \E m \in 1 .. p - 1 : out[m].kind = "message" /\ out[m].step = "start"
                                  /\ out[m].channel = e.channel
        BY <1>3, <4>2, StartedBefore DEF IsReply
      <4>4. \A m \in 1 .. p - 1 : m \in DOMAIN out
        BY <1>3, <4>2
      <4> QED
        BY <1>6, <4>3, <4>4 DEF Occurs
    <3> QED
      BY <3>1 DEF Pieces, IsReply
  <2>2. DOMAIN <<>> = {}
    OBVIOUS
  <2>3. \A d : d = e.channel => IsTextOf(<<>>, d)'
    BY <2>1, <2>2 DEF IsTextOf
  <2> QED
    BY <1>8, <2>3 DEF IsTextOf
<1>12. ChatTypes'
  <2>1. <<>> \in Seq(1 .. MaxDeltas)
    OBVIOUS
  <2> QED
    BY <1>5, <1>6, <1>8, <2>1 DEF ChatTypes
<1> QED
  BY <1>5, <1>10, <1>11, <1>12 DEF ChatInv

(* Calls, reasoning and usage pass.                                        *)
LEMMA PassOtherInv ==
    ASSUME ProviderInv, ChatInv, PassOther
    PROVE  ChatInv'
<1>1. PICK e : e = Head(todo)
  OBVIOUS
<1>2. PICK kind \in {"tool", "other"}, step \in {"start", "chunk", "complete", "whole"} :
         Pulled(kind, step)
  BY DEF PassOther
<1>3. chatOut' = Append(chatOut, e) /\ UNCHANGED <<chatTodo, buffers>>
  BY <1>1 DEF PassOther
<1>4. /\ e \in Events /\ e.kind \in {"tool", "other"}
      /\ out \in Seq(Events) /\ InOrder(out)
      /\ out' = Append(out, e) /\ MayFollow(out, e)
  BY <1>1, <1>2, PulledFacts
<1>5. ~IsReply(e) /\ ~IsEnd(e)
  BY <1>4 DEF IsReply, IsEnd
<1>6. /\ chatOut' \in Seq(Events) /\ chatTodo' \in Seq(Events)
      /\ InOrder(Streamed)' /\ SameStarts(Streamed, out)'
      /\ Whole(Streamed)' /\ Replies(Streamed)' /\ SameRest(Streamed, out)'
  BY <1>1, <1>2, <1>3, <1>5, PassedOn
<1>7. \A c \in ChannelIds : IsOpen(out', "message", c) <=> IsOpen(out, "message", c)
  <2>1. \A k, st, c : Occurs(Append(out, e), k, st, c)
           <=> Occurs(out, k, st, c) \/ (e.kind = k /\ e.step = st /\ e.channel = c)
    BY <1>4, OccursAppend
  <2>2. e.kind # "message"
    BY <1>4
  <2> QED
    BY <1>4, <2>1, <2>2 DEF IsOpen
<1>8. \A c \in ChannelIds : c \in DOMAIN buffers' <=> IsOpen(out, "message", c)'
  BY <1>3, <1>7 DEF ChatInv, IsOpen, Occurs
<1>9. \A c \in DOMAIN buffers' : IsTextOf(buffers[c], c)'
  <2> SUFFICES ASSUME NEW c \in DOMAIN buffers, NEW text, text = buffers[c]
               PROVE  IsTextOf(text, c)'
    BY <1>3 DEF IsTextOf
  <2>1. IsTextOf(text, c)
    BY DEF ChatInv
  <2> QED
    BY <1>4, <1>5, <2>1, PiecesAppend
<1>10. ChatTypes'
  BY <1>3, <1>6 DEF ChatInv, ChatTypes
<1> QED
  BY <1>6, <1>8, <1>9, <1>10 DEF ChatInv

(* A piece of a message is kept, behind those that came before it.         *)
LEMMA KeepInv ==
    ASSUME ProviderInv, ChatInv, Keep
    PROVE  ChatInv'
<1>1. PICK e : e = Head(todo)
  OBVIOUS
<1>2. /\ Pulled("message", "chunk") /\ UNCHANGED <<chatOut, chatTodo>>
      /\ buffers' = [c \in DOMAIN buffers |->
                        IF c = e.channel THEN buffers[c] \o e.text ELSE buffers[c]]
  BY <1>1 DEF Keep, Channel
<1>3. /\ e \in Events /\ e.kind = "message" /\ e.step = "chunk"
      /\ out \in Seq(Events) /\ chatOut \in Seq(Events) /\ InOrder(out)
      /\ chatTodo = <<>> /\ Streamed = chatOut
      /\ out' = Append(out, e) /\ MayFollow(out, e)
      /\ InOrder(chatOut)
      /\ Carrier(e) => e.text = <<e.text[1]>>
      /\ Carrier(e) => \A i \in DOMAIN out : Carrier(out[i]) => out[i].text[1] < e.text[1]
  BY <1>1, <1>2, PulledFacts
<1>4. /\ IsReply(e) /\ Carrier(e)
  BY <1>3 DEF IsReply, Carrier
<1>5. Streamed' = Streamed
  BY <1>2 DEF Streamed
<1>6. /\ InOrder(Streamed)' /\ Whole(Streamed)'
  BY <1>5 DEF ChatInv, InOrder, Whole, IsReply, IsEnd
<1>7. SameStarts(Streamed, out) /\ SameRest(Streamed, out)
  BY DEF ChatInv
<1>8. SameStarts(Streamed', out') /\ SameRest(Streamed', out')
  BY <1>3, <1>4, <1>5, <1>7, SameStartsAppend, SameRestReply
<1>9. Replies(Streamed)'
  <2>1. PICK a \in Events : a = Event("other", "whole", 0, <<>>)
    <3>1. <<>> \in Seq(1 .. MaxDeltas)
      OBVIOUS
    <3> QED
      BY <3>1 DEF Event, Events
  <2>2. ~IsReply(a)
    BY <2>1 DEF IsReply, Event
  <2> QED
    BY <1>3, <1>5, <2>2, RepliesAppend
<1>10. \A c \in ChannelIds : IsOpen(out', "message", c) <=> IsOpen(out, "message", c)
  BY <1>3, OpenAppend DEF ChannelKinds
<1>11. \A c \in ChannelIds : c \in DOMAIN buffers' <=> IsOpen(out, "message", c)'
  BY <1>2, <1>10 DEF ChatInv, IsOpen, Occurs
<1>12. ASSUME NEW c \in DOMAIN buffers
       PROVE  /\ buffers'[c] \in Seq(1 .. MaxDeltas)
              /\ \A text : text = buffers'[c] => IsTextOf(text, c)'
  <2>1. buffers[c] \in Seq(1 .. MaxDeltas) /\ IsTextOf(buffers[c], c)
    BY DEF ChatInv, ChatTypes
  <2>2. PICK before \in Seq(1 .. MaxDeltas) : before = buffers[c]
    BY <2>1
  <2>3. CASE c # e.channel
    <3>1. buffers'[c] = before
      BY <1>2, <2>2, <2>3
    <3>2. IsTextOf(before, c)'
      BY <1>3, <2>1, <2>2, <2>3, PiecesAppend
    <3> QED
      BY <3>1, <3>2
  <2>4. CASE c = e.channel
    <3>1. PICK p \in 1 .. MaxDeltas : e.text = <<p>>
      <4>1. e.text \in Seq(1 .. MaxDeltas) /\ e.text = <<e.text[1]>>
        BY <1>3, <1>4 DEF Events
      <4>2. PICK q : e.text = <<q>>
        BY <4>1
      <4>3. PICK text \in Seq(1 .. MaxDeltas) : text = e.text /\ text = <<q>>
        BY <4>1, <4>2
      <4>4. Len(text) = 1 /\ text[1] \in 1 .. MaxDeltas
        BY <4>3
      <4>5. e.text[1] \in 1 .. MaxDeltas
        BY <4>3, <4>4
      <4> QED
        BY <4>1, <4>5
    <3>2. PICK after \in Seq(1 .. MaxDeltas) : after = Append(before, p)
      BY <2>2, AppendProperties, LenProperties
    <3>3. buffers'[c] = after
      <4>1. before \o <<p>> = Append(before, p)
        BY <2>2
      <4>2. buffers'[c] = before \o <<p>>
        BY <1>2, <2>2, <2>4, <3>1
      <4> QED
        BY <3>2, <4>1, <4>2
    <3>4. /\ DOMAIN after = DOMAIN before \cup {Len(before) + 1}
          /\ \A a \in DOMAIN before : after[a] = before[a]
          /\ after[Len(before) + 1] = p
          /\ DOMAIN before = 1 .. Len(before) /\ Len(before) \in Nat
      BY <3>2, AppendProperties, LenProperties
    <3>5. /\ Pieces(c)' = Pieces(c) \cup {Len(out) + 1}
          /\ out'[Len(out) + 1] = e
          /\ \A q \in Pieces(c) : out'[q] = out[q] /\ q \in DOMAIN out
      BY <1>3, <1>4, <2>4, PiecesAppend
    <3>6. e.text[1] = p
      BY <3>1
    <3>7. {after[a] : a \in DOMAIN after} = {before[a] : a \in DOMAIN before} \cup {p}
      BY <3>4
    <3>8. {out'[q].text[1] : q \in Pieces(c)'} = {out[q].text[1] : q \in Pieces(c)} \cup {p}
      BY <3>5, <3>6
    <3>9. \A a \in DOMAIN before : before[a] < p
      <4>1. \A q \in Pieces(c) : out[q].text[1] < p
        BY <1>3, <1>4, <3>6 DEF Pieces, IsReply, Carrier
      <4> QED
        BY <2>1, <2>2, <4>1 DEF IsTextOf
    <3>10. \A a, b \in DOMAIN after : a < b => after[a] < after[b]
      <4> TAKE a, b \in DOMAIN after
      <4> HAVE a < b
      <4>1. a \in DOMAIN before /\ after[a] = before[a]
        BY <3>4
      <4>2. CASE b \in DOMAIN before
        BY <2>1, <2>2, <3>4, <4>1, <4>2 DEF IsTextOf
      <4>3. CASE b = Len(before) + 1
        BY <3>4, <3>9, <4>1, <4>3
      <4> QED
        BY <3>4, <4>2, <4>3
    <3>11. IsTextOf(after, c)'
      BY <2>1, <2>2, <3>7, <3>8, <3>10 DEF IsTextOf
    <3> QED
      BY <3>3, <3>11
  <2> QED
    BY <2>3, <2>4
<1>13. \A c \in DOMAIN buffers' : IsTextOf(buffers[c], c)'
  <2> SUFFICES ASSUME NEW c \in DOMAIN buffers', NEW text, text = buffers'[c]
               PROVE  IsTextOf(text, c)'
    BY DEF IsTextOf
  <2> QED
    BY <1>2, <1>12
<1>14. ChatTypes'
  BY <1>2, <1>12 DEF ChatInv, ChatTypes
<1> QED
  BY <1>6, <1>8, <1>9, <1>11, <1>13, <1>14 DEF ChatInv

(* A message is complete: its text, all of it, is yielded before its end.  *)
LEMMA FlushInv ==
    ASSUME ProviderInv, ChatInv, Flush
    PROVE  ChatInv'
<1>1. PICK e : e = Head(todo)
  OBVIOUS
<1>2. PICK text : text = buffers[e.channel]
  OBVIOUS
<1> DEFINE a == Event("message", "chunk", e.channel, text)
<1>3. /\ Pulled("message", "complete") /\ e.channel \in DOMAIN buffers
      /\ chatOut' = Append(chatOut, a) /\ chatTodo' = <<e>>
      /\ buffers' = [c \in DOMAIN buffers \ {e.channel} |-> buffers[c]]
  BY <1>1, <1>2 DEF Flush, Channel
<1>4. /\ e \in Events /\ e.kind = "message" /\ e.step = "complete" /\ e.text = <<>>
      /\ out \in Seq(Events) /\ chatOut \in Seq(Events) /\ InOrder(out)
      /\ chatTodo = <<>> /\ Streamed = chatOut
      /\ out' = Append(out, e) /\ MayFollow(out, e) /\ MayFollow(chatOut, e)
      /\ InOrder(chatOut)
      /\ ~IsReply(e) => \A i \in DOMAIN out : out[i] # e
  BY <1>1, <1>3, PulledFacts
<1>5. /\ text \in Seq(1 .. MaxDeltas) /\ e.channel \in ChannelIds
      /\ IsTextOf(text, e.channel)
  BY <1>2, <1>3 DEF ChatInv, ChatTypes
<1>6. a \in Events
  BY <1>5 DEF Event, Events
<1>7. /\ a.kind = "message" /\ a.step = "chunk" /\ a.channel = e.channel /\ a.text = text
      /\ IsReply(a) /\ ~IsReply(e)
  BY <1>4 DEF Event, IsReply
<1>8. e = Event("message", "complete", a.channel, <<>>)
  BY <1>4, <1>7 DEF Event, Events
<1> HIDE DEF a
<1> DEFINE y == Append(chatOut, a)
           z == Append(y, e)
<1>9. y \in Seq(Events) /\ z \in Seq(Events)
  BY <1>4, <1>6, AppendProperties, LenProperties
<1>10. chatOut' = y /\ Streamed' = z /\ <<e>> \in Seq(Events)
  BY <1>3, <1>4, <1>9, Joining DEF Streamed
<1>11. SameStarts(chatOut, out) /\ Whole(chatOut) /\ SameRest(chatOut, out)
  BY <1>4 DEF ChatInv
<1>12. InOrder(y)
  <2>1. MayFollow(chatOut, a)
    BY <1>4, <1>7 DEF MayFollow
  <2> QED
    BY <1>4, <1>6, <2>1, InOrderAppend
<1>13. SameStarts(y, out) /\ SameRest(y, out)
  BY <1>4, <1>6, <1>7, <1>11, SameStartsAppend, SameRestReply
<1>14. Whole(z)
  BY <1>4, <1>6, <1>7, <1>8, <1>11, WholeReply
<1> HIDE DEF y
<1>15. InOrder(z)
  <2>1. MayFollow(y, e)
    BY <1>4, <1>13, FollowSame DEF SameStarts
  <2> QED
    BY <1>4, <1>9, <1>12, <2>1, InOrderAppend
<1>16. SameStarts(z, Append(out, e))
  BY <1>4, <1>9, <1>13, SameStartsAppend
<1>17. SameRest(z, Append(out, e))
  <2>1. \A p \in Rest(out) : out[p] # e
    BY <1>4, <1>7 DEF Rest
  <2> QED
    BY <1>4, <1>7, <1>9, <1>13, <2>1, SameRestBoth
<1>18. Replies(Streamed)'
  <2> SUFFICES ASSUME NEW i \in DOMAIN Streamed', IsReply(Streamed'[i]),
                      NEW t, t = Streamed'[i].text, NEW c, c = Streamed'[i].channel
               PROVE  IsTextOf(t, c)'
    BY DEF Replies, IsTextOf, IsReply
  <2>1. /\ DOMAIN y = DOMAIN chatOut \cup {Len(chatOut) + 1} /\ y[Len(chatOut) + 1] = a
        /\ \A j \in DOMAIN chatOut : y[j] = chatOut[j]
    BY <1>4, <1>6, AppendProperties, LenProperties DEF y
  <2>2. /\ DOMAIN z = DOMAIN y \cup {Len(y) + 1} /\ z[Len(y) + 1] = e
        /\ \A j \in DOMAIN y : z[j] = y[j]
    BY <1>4, <1>9, AppendProperties, LenProperties
  <2>3. CASE i \in DOMAIN chatOut
    <3>1. IsReply(Streamed[i]) /\ t = Streamed[i].text /\ c = Streamed[i].channel
          /\ i \in DOMAIN Streamed
      BY <1>4, <1>10, <2>1, <2>2, <2>3
    <3> QED
      BY <1>4, <3>1, RepliesKept
  <2>4. CASE i = Len(chatOut) + 1 /\ i \in DOMAIN y
    <3>1. t = text /\ c = e.channel
      BY <1>7, <1>10, <2>1, <2>2, <2>4
    <3> QED
      BY <1>4, <1>5, <1>7, <3>1, PiecesAppend
  <2>5. CASE i = Len(y) + 1
    BY <1>7, <1>10, <2>2, <2>5
  <2> QED
    BY <1>10, <2>1, <2>2, <2>3, <2>4, <2>5
<1> HIDE DEF z
<1>19. \A k \in ChannelKinds, c \in ChannelIds :
          IsOpen(out', k, c) <=> IsOpen(out, k, c) /\ ~(k = e.kind /\ c = e.channel)
  BY <1>4, OpenAppend
<1>20. \A c \in ChannelIds : c \in DOMAIN buffers' <=> IsOpen(out, "message", c)'
  <2>1. \A c \in ChannelIds :
           IsOpen(out', "message", c) <=> IsOpen(out, "message", c) /\ c # e.channel
    BY <1>4, <1>19 DEF ChannelKinds
  <2>2. DOMAIN buffers' = DOMAIN buffers \ {e.channel}
    BY <1>3
  <2>3. \A c \in ChannelIds : c \in DOMAIN buffers' <=> IsOpen(out', "message", c)
    BY <2>1, <2>2 DEF ChatInv
  <2> QED
    BY <2>3 DEF IsOpen, Occurs
<1>21. \A c \in DOMAIN buffers' : IsTextOf(buffers[c], c)'
  <2> SUFFICES ASSUME NEW c \in DOMAIN buffers', NEW t, t = buffers'[c]
               PROVE  IsTextOf(t, c)'
    BY DEF IsTextOf
  <2>1. c \in DOMAIN buffers /\ t = buffers[c]
    BY <1>3
  <2>2. IsTextOf(t, c)
    BY <2>1 DEF ChatInv
  <2> QED
    BY <1>4, <1>7, <2>2, PiecesAppend
<1>22. ChatTypes'
  BY <1>3, <1>9, <1>10 DEF ChatInv, ChatTypes
<1>23. InOrder(Streamed') /\ SameStarts(Streamed', out') /\ Whole(Streamed')
       /\ SameRest(Streamed', out')
  BY <1>4, <1>10, <1>14, <1>15, <1>16, <1>17
<1> QED
  BY <1>18, <1>20, <1>21, <1>22, <1>23 DEF ChatInv

(* Nothing changes for the layer but what it has yielded already.          *)
LEMMA ChatSameInv ==
    ASSUME ChatInv, UNCHANGED <<out, buffers>>, Streamed' = Streamed, ChatTypes'
    PROVE  ChatInv'
<1>1. \A c : IsOpen(out, "message", c)' <=> IsOpen(out, "message", c)
  BY DEF IsOpen, Occurs
<1>2. \A text, c : IsTextOf(text, c)' <=> IsTextOf(text, c)
  BY DEF IsTextOf, Pieces, IsReply
<1>3. Replies(Streamed)'
  <2>1. ASSUME NEW i \in DOMAIN Streamed', IsReply(Streamed'[i]),
               NEW t, t = Streamed'[i].text, NEW c, c = Streamed'[i].channel
        PROVE  IsTextOf(t, c)'
    <3>1. IsTextOf(t, c)
      BY <2>1 DEF ChatInv, Replies
    <3> QED
      BY <1>2, <3>1
  <2>2. \A i \in DOMAIN Streamed' : IsReply(Streamed'[i]) =>
           \A t, c : t = Streamed'[i].text /\ c = Streamed'[i].channel => IsTextOf(t, c)'
    BY <2>1
  <2> QED
    BY ONLY <2>2 DEF Replies, IsTextOf, IsReply
<1>4. \A c \in DOMAIN buffers' : IsTextOf(buffers[c], c)'
  <2> SUFFICES ASSUME NEW c \in DOMAIN buffers', NEW t, t = buffers'[c]
               PROVE  IsTextOf(t, c)'
    BY DEF IsTextOf
  <2>1. IsTextOf(t, c)
    BY DEF ChatInv
  <2> QED
    BY <1>2, <2>1
<1>5. InOrder(Streamed') /\ SameStarts(Streamed', out') /\ Whole(Streamed')
      /\ SameRest(Streamed', out')
  BY DEF ChatInv
<1> QED
  BY <1>1, <1>3, <1>4, <1>5 DEF ChatInv

(* A poll of the layer that takes the first of what it has to yield.       *)
LEMMA ChatYieldFacts ==
    ASSUME ChatInv, ChatYield
    PROVE  /\ chatOut \in Seq(Events) /\ Head(chatTodo) \in Events
           /\ chatOut' = Append(chatOut, Head(chatTodo))
           /\ MayFollow(chatOut, Head(chatTodo))
           /\ Streamed' = Streamed /\ ChatTypes'
<1>1. /\ chatOut \in Seq(Events) /\ chatTodo \in Seq(Events) /\ chatTodo # <<>>
      /\ chatOut' = Append(chatOut, Head(chatTodo)) /\ chatTodo' = Tail(chatTodo)
      /\ buffers' = buffers
  BY DEF ChatInv, ChatTypes, ChatYield
<1>2. /\ Head(chatTodo) \in Events /\ Tail(chatTodo) \in Seq(Events)
      /\ Append(chatOut, Head(chatTodo)) \o Tail(chatTodo) = chatOut \o chatTodo
  BY <1>1, Joining
<1>3. Streamed' = Streamed
  BY <1>1, <1>2 DEF Streamed
<1>4. MayFollow(chatOut, Head(chatTodo))
  BY <1>1, NextMayFollow DEF ChatInv, Streamed
<1>5. ChatTypes'
  BY <1>1, <1>2, AppendProperties, LenProperties DEF ChatInv, ChatTypes
<1> QED
  BY <1>1, <1>2, <1>3, <1>4, <1>5

(* The same for what the layer yields.                                     *)
LEMMA ChatPromiseYield ==
    ASSUME chatOut \in Seq(Events), NEW e \in Events, MayFollow(chatOut, e),
           chatOut' = Append(chatOut, e), gen' = gen, gen \notin Final
    PROVE  ChatPromise!Next
<1>1. /\ StatusOf(gen) = "streaming" /\ StatusOf(gen') = StatusOf(gen)
      /\ Outline(chatOut)' = Append(Outline(chatOut), <<e.kind, e.step, e.channel>>)
  BY OutlineFacts DEF StatusOf, Final
<1>2. ChatPromise!Add(<<e.kind, e.step, e.channel>>)
  BY <1>1 DEF ChatPromise!Add
<1>3. \A k, c : /\ ChatPromise!Started(k, c) <=> Occurs(chatOut, k, "start", c)
                /\ ChatPromise!Completed(k, c) <=> Occurs(chatOut, k, "complete", c)
  BY OutlineFacts DEF ChatPromise!Started, ChatPromise!Completed, ChatPromise!Event
<1>4. \A k, c : ChatPromise!Open(k, c) <=> IsOpen(chatOut, k, c)
  BY <1>3 DEF ChatPromise!Open, IsOpen
<1>5. CASE /\ e.step = "start"
           /\ e.kind \in ChannelKinds /\ e.channel \in ChannelIds
           /\ NoneOpen(chatOut)
           /\ \A k \in ChannelKinds : ~Occurs(chatOut, k, "start", e.channel)
  <2>1. ChatPromise!NothingOpen
    BY <1>4, <1>5 DEF ChatPromise!NothingOpen, ChatPromise!Kinds, NoneOpen, ChannelKinds
  <2>2. ChatPromise!Start(e.kind, e.channel)
    BY <1>2, <1>3, <1>5, <2>1
       DEF ChatPromise!Start, ChatPromise!Event, ChatPromise!Kinds, ChannelKinds
  <2> QED
    BY <1>5, <2>2 DEF ChatPromise!Next, ChatPromise!Kinds, ChannelKinds
<1>6. CASE /\ e.step \in {"chunk", "complete"}
           /\ e.kind \in ChannelKinds /\ e.channel \in ChannelIds
           /\ IsOpen(chatOut, e.kind, e.channel)
  <2>1. ChatPromise!Chunk(e.kind, e.channel) \/ ChatPromise!Complete(e.kind, e.channel)
    BY <1>2, <1>4, <1>6 DEF ChatPromise!Chunk, ChatPromise!Complete, ChatPromise!Event
  <2> QED
    BY <1>6, <2>1 DEF ChatPromise!Next, ChatPromise!Kinds, ChannelKinds
<1>7. CASE e.kind = "other" /\ e.step = "whole" /\ e.channel = 0
  BY <1>2, <1>7 DEF ChatPromise!Next, ChatPromise!Aside
<1> QED
  BY <1>5, <1>6, <1>7 DEF MayFollow

(* A step in which the layer yields nothing is one of Response or          *)
(* leaves it unchanged.                                                    *)
LEMMA ChatPromiseStill ==
    ASSUME UNCHANGED chatOut,
           \/ gen' = gen
           \/ gen \notin Final /\ gen' \in {"idle", "request", "pull", "last"}
           \/ gen \notin Final /\ gen' \in {"failed", "panicked", "cancelled"}
    PROVE  [ChatPromise!Next]_(ChatPromise!vars)
<1>1. Outline(chatOut)' = Outline(chatOut)
  OBVIOUS
<1>2. CASE gen' = gen
  BY <1>1, <1>2 DEF ChatPromise!vars
<1>3. CASE gen \notin Final /\ gen' \in {"idle", "request", "pull", "last"}
  BY <1>1, <1>3 DEF ChatPromise!vars, StatusOf, Final
<1>4. CASE gen \notin Final /\ gen' \in {"failed", "panicked", "cancelled"}
  <2>1. StatusOf(gen) = "streaming" /\ StatusOf(gen') = "broken"
    BY <1>4 DEF StatusOf, Final
  <2>2. ChatPromise!Break
    BY <1>1, <2>1 DEF ChatPromise!Break
  <2> QED
    BY <2>2 DEF ChatPromise!Next
<1> QED
  BY <1>2, <1>3, <1>4

(* A response of the layer that ends with nothing open is complete.        *)
LEMMA ChatPromiseEnd ==
    ASSUME chatOut \in Seq(Events), UNCHANGED chatOut, gen = "last", gen' = "ended",
           NoneOpen(chatOut)
    PROVE  ChatPromise!Next
<1>1. Outline(chatOut)' = Outline(chatOut)
  OBVIOUS
<1>2. StatusOf(gen) = "streaming" /\ StatusOf(gen') = "complete"
  BY DEF StatusOf
<1>3. \A k, c : ChatPromise!Open(k, c) <=> IsOpen(chatOut, k, c)
  BY OutlineFacts
     DEF ChatPromise!Started, ChatPromise!Completed, ChatPromise!Event, ChatPromise!Open, IsOpen
<1>4. ChatPromise!NothingOpen
  BY <1>3 DEF ChatPromise!NothingOpen, ChatPromise!Kinds, NoneOpen, ChannelKinds
<1>5. ChatPromise!End
  BY <1>1, <1>2, <1>4 DEF ChatPromise!End
<1> QED
  BY <1>5 DEF ChatPromise!Next

(* The layer starts with its invariant.                                    *)
LEMMA ChatInitInv == Init => ChatInv
<1> SUFFICES ASSUME Init PROVE ChatInv
  OBVIOUS
<1>1. out = <<>> /\ buffers = <<>> /\ chatTodo = <<>> /\ chatOut = <<>>
  BY DEF Init, OpenAIInit
<1>2. <<>> \in Seq(Events) /\ DOMAIN <<>> = {} /\ <<>> \o <<>> = <<>>
  OBVIOUS
<1>3. Streamed = <<>>
  BY <1>1, <1>2 DEF Streamed
<1>4. ChatTypes
  BY <1>1, <1>2 DEF ChatTypes
<1>5. \A k, st, c : ~Occurs(<<>>, k, st, c)
  BY <1>2 DEF Occurs
<1>6. InOrder(<<>>) /\ SameStarts(<<>>, <<>>) /\ Whole(<<>>) /\ Replies(<<>>)
  BY <1>2 DEF InOrder, SameStarts, Whole, Replies
<1>7. SameRest(<<>>, <<>>)
  BY <1>2 DEF SameRest, Rest
<1> QED
  BY <1>1, <1>2, <1>3, <1>4, <1>5, <1>6, <1>7 DEF ChatInv, IsOpen

(* Every step of the layer and its provider preserves it.                  *)
LEMMA ChatStepInv == ProviderInv /\ ChatInv /\ [Next]_vars => ChatInv'
<1> SUFFICES ASSUME ProviderInv, ChatInv, [Next]_vars PROVE ChatInv'
  OBVIOUS
<1>1. CASE Call \/ Wait \/ GiveUp \/ UNCHANGED vars
  <2>1. UNCHANGED <<out, buffers, chatTodo, chatOut>>
    <3>1. Await => out' = out
      BY AwaitStatus
    <3> QED
      BY <1>1, <3>1
         DEF Call, Chat, Wait, GiveUp, Cancel, vars, chatVars, streamVars, openaiVars
  <2>2. Streamed' = Streamed /\ ChatTypes'
    BY <2>1 DEF Streamed, ChatInv, ChatTypes
  <2> QED
    BY <2>1, <2>2, ChatSameInv
<1>2. CASE PassMessageStart
  BY <1>2, PassMessageStartInv
<1>3. CASE Keep
  BY <1>3, KeepInv
<1>4. CASE Flush
  BY <1>4, FlushInv
<1>5. CASE PassOther
  BY <1>5, PassOtherInv
<1>6. CASE ChatYield
  <2>1. UNCHANGED <<out, buffers>>
    BY <1>6 DEF ChatYield, openaiVars
  <2> QED
    BY <1>6, <2>1, ChatYieldFacts, ChatSameInv
<1> QED
  BY <1>1, <1>2, <1>3, <1>4, <1>5, <1>6 DEF Next

(* The invariant of the layer holds in every state.                        *)
THEOREM ChatInvariance == Spec => [](ProviderInv /\ ChatInv)
BY ProviderInitInv, ProviderStepInv, ChatInitInv, ChatStepInv, PTL DEF Spec

(* A reply is yielded in one piece with all of its text before its end,    *)
(* and nothing else is held back, lost or reordered.                       *)
THEOREM RepliesInOnePiece == Spec => []RepliesWhole
<1>1. ProviderInv /\ ChatInv => RepliesWhole
  <2> SUFFICES ASSUME ChatInv PROVE RepliesWhole
    OBVIOUS
  <2> DEFINE replies == DOMAIN Streamed \ Rest(Streamed)
  <2>1. \A i : i \in replies <=> i \in DOMAIN Streamed /\ IsReply(Streamed[i])
    BY DEF Rest
  <2>2. Whole(Streamed) /\ Replies(Streamed) /\ SameRest(Streamed, out)
    BY DEF ChatInv
  <2> HIDE DEF replies
  <2>3. \A i \in replies :
           /\ i + 1 \in DOMAIN Streamed
           /\ Streamed[i + 1] = Event("message", "complete", Streamed[i].channel, <<>>)
           /\ IsTextOf(Streamed[i].text, Streamed[i].channel)
    BY <2>1, <2>2 DEF Whole, Replies
  <2>4. \A i \in Rest(Streamed) :
           Streamed[i].kind = "message" /\ Streamed[i].step = "complete" =>
              i - 1 \in replies
    <3>1. Rest(Streamed) \subseteq DOMAIN Streamed
      BY DEF Rest
    <3> QED
      BY <2>1, <2>2, <3>1 DEF Whole, IsEnd
  <2> QED
    BY <2>2, <2>3, <2>4 DEF RepliesWhole, Streamed, SameRest, replies
<1> QED
  BY <1>1, ChatInvariance, PTL

(* Every step is one of Response, seen from above the layer, or leaves it  *)
(* unchanged.                                                              *)
LEMMA ChatPromiseStep ==
    ProviderInv /\ ChatInv /\ [Next]_vars => [ChatPromise!Next]_(ChatPromise!vars)
<1> SUFFICES ASSUME ProviderInv, ChatInv, [Next]_vars
             PROVE  [ChatPromise!Next]_(ChatPromise!vars)
  OBVIOUS
<1>1. CASE Call \/ GiveUp \/ UNCHANGED vars
  <2>1. /\ UNCHANGED chatOut
        /\ \/ gen' = gen
           \/ gen \notin Final /\ gen' \in {"idle", "request", "pull", "last"}
           \/ gen \notin Final /\ gen' \in {"failed", "panicked", "cancelled"}
    BY <1>1 DEF Call, Chat, GiveUp, Cancel, vars, chatVars, streamVars, openaiVars, Final
  <2> QED
    BY <2>1, ChatPromiseStill
<1>2. CASE Wait
  <2>1. Await /\ UNCHANGED chatOut /\ chatTodo = <<>>
    BY <1>2 DEF Wait, streamVars
  <2>2. CASE End /\ gen = "last" /\ todo = <<>> /\ gen' = "ended"
    <3>1. out \in Seq(Events) /\ NoneOpen(out)
      BY <2>2, EndsClosed
    <3>2. chatOut \in Seq(Events) /\ Streamed = chatOut
      BY <2>1 DEF ChatInv, ChatTypes, Streamed
    <3>3. SameStarts(chatOut, out)
      BY <3>2 DEF ChatInv
    <3>4. NoneOpen(chatOut)
      BY <3>1, <3>3 DEF NoneOpen, IsOpen, SameStarts
    <3> QED
      BY <2>1, <2>2, <3>2, <3>4, ChatPromiseEnd
  <2> QED
    BY <2>1, <2>2, AwaitStatus, ChatPromiseStill
<1>3. CASE PassMessageStart \/ PassOther \/ Flush \/ Keep
  <2>1. PICK kind, step : Pulled(kind, step)
    BY <1>3 DEF PassMessageStart, PassOther, Flush, Keep
  <2>2. PICK e : e = Head(todo)
    OBVIOUS
  <2>3. /\ e \in Events /\ e.kind = kind /\ e.step = step
        /\ chatOut \in Seq(Events) /\ MayFollow(chatOut, e)
        /\ gen \notin Final /\ gen' = gen
    BY <2>1, <2>2, PulledFacts DEF Final
  <2>4. CASE PassMessageStart \/ PassOther
    <3>1. chatOut' = Append(chatOut, e)
      BY <2>2, <2>4 DEF PassMessageStart, PassOther
    <3> QED
      BY <2>3, <3>1, ChatPromiseYield
  <2>5. CASE Flush
    <3>1. /\ e.kind = "message" /\ e.step = "complete" /\ e.channel \in DOMAIN buffers
          /\ chatOut' = Append(chatOut, Event("message", "chunk", e.channel,
                                              buffers[e.channel]))
      BY <2>2, <2>5 DEF Flush, Channel, Pulled
    <3>2. PICK a : a = Event("message", "chunk", e.channel, buffers[e.channel])
      OBVIOUS
    <3>3. a \in Events
      BY <3>1, <3>2 DEF ChatInv, ChatTypes, Event, Events
    <3>4. MayFollow(chatOut, a)
      BY <2>3, <3>1, <3>2 DEF MayFollow, Event
    <3> QED
      BY <2>3, <3>1, <3>2, <3>3, <3>4, ChatPromiseYield
  <2>6. CASE Keep
    BY <2>3, <2>6, ChatPromiseStill DEF Keep
  <2> QED
    BY <1>3, <2>4, <2>5, <2>6
<1>4. CASE ChatYield
  <2>1. gen \notin Final /\ gen' = gen
    BY <1>4 DEF ChatYield, openaiVars
  <2> QED
    BY <1>4, <2>1, ChatYieldFacts, ChatPromiseYield
<1> QED
  BY <1>1, <1>2, <1>3, <1>4 DEF Next

(* The layer implements Response as well: what ToolAdapter takes for       *)
(* granted holds of the stream that it reads.                              *)
THEOREM ChatRefines == Spec => ChatImplements
<1>1. Init => ChatPromise!Init
  BY DEF Init, OpenAIInit, ChatPromise!Init, Outline, StatusOf
<1> QED
  BY <1>1, ChatInvariance, ChatPromiseStep, PTL DEF Spec, ChatImplements, ChatPromise!Spec

-----------------------------------------------------------------------------
(* The runs of messages of a branch.                                       *)

(* A set of numbers that is not empty has a smallest member.               *)
LEMMA SmallestMember ==
    ASSUME NEW T \in SUBSET Nat, T # {}
    PROVE  \E n \in T : \A m \in T : n <= m
<1> DEFINE less == {p \in Nat \X Nat : p[1] < p[2]}
<1>1. OpToRel(<, Nat) = less
  BY Zenon DEF OpToRel
<1>2. IsWellFoundedOn(less, Nat)
  BY <1>1, NatLessThanWellFounded
<1> HIDE DEF less
<1>3. PICK n \in T : \A m \in T : ~(<<m, n>> \in less)
  BY <1>2, WFMin
<1>4. ASSUME NEW m \in T PROVE n <= m
  <2>1. <<m, n>> \in Nat \X Nat /\ <<m, n>>[1] = m /\ <<m, n>>[2] = n
    OBVIOUS
  <2>2. ~(m < n)
    BY <1>3, <2>1 DEF less
  <2> QED
    BY <2>2
<1> QED
  BY <1>4

IsAscending(s, S) ==
    /\ s \in [1 .. Cardinality(S) -> S]
    /\ \A i, j \in 1 .. Cardinality(S) : i < j => s[i] < s[j]

(* The members of a set of numbers up to n can be put in order, by         *)
(* induction on n.                                                         *)
LEMMA AscendingExists ==
    ASSUME NEW n \in Nat, NEW S \in SUBSET (1 .. n)
    PROVE  \E s : IsAscending(s, S)
<1> DEFINE Orderly(k) == \A V \in SUBSET (1 .. k) : \E s : IsAscending(s, V)
           Bad == {k \in Nat : ~Orderly(k)}
<1>1. ASSUME Bad # {} PROVE FALSE
  <2>1. PICK k \in Bad : \A m \in Bad : k <= m
    BY <1>1, SmallestMember
  <2>2. PICK V \in SUBSET (1 .. k) : \A s : ~IsAscending(s, V)
    BY <2>1
  <2>3. IsFiniteSet(V) /\ Cardinality(V) \in Nat
    <3>1. IsFiniteSet(1 .. k)
      BY <2>1, FS_Interval
    <3>2. IsFiniteSet(V)
      BY <3>1, FS_Subset
    <3> QED
      BY <3>2, FS_CardinalityType
  <2>4. CASE k = 0
    <3>1. V = {}
      BY <2>4
    <3>2. Cardinality(V) = 0
      BY <3>1, FS_EmptySet
    <3>3. IsAscending([i \in 1 .. 0 |-> 0], V)
      BY <3>2 DEF IsAscending
    <3> QED
      BY <2>2, <3>3
  <2>5. CASE k > 0
    <3>1. k - 1 \in Nat /\ k - 1 \notin Bad
      BY <2>1, <2>5
    <3>2. Orderly(k - 1)
      BY <3>1
    <3> DEFINE W == V \ {k}
    <3>3. W \in SUBSET (1 .. (k - 1))
      BY <2>1, <2>5
    <3>4. PICK s : IsAscending(s, W)
      BY <3>2, <3>3
    <3>5. CASE k \notin V
      <4>1. W = V
        BY <3>5
      <4> QED
        BY <2>2, <3>4, <4>1
    <3>6. CASE k \in V
      <4>1. Cardinality(W) = Cardinality(V) - 1 /\ Cardinality(V) > 0
        <5>1. Cardinality(W) = Cardinality(V) - 1
          BY <2>3, <3>6, FS_RemoveElement
        <5>2. Cardinality(V) # 0
          BY <2>3, <3>6, FS_EmptySet
        <5> QED
          BY <2>3, <5>1, <5>2
      <4>2. PICK c \in Nat : c = Cardinality(V) /\ c > 0 /\ Cardinality(W) = c - 1
        BY <2>3, <4>1
      <4>3. /\ s \in [1 .. (c - 1) -> W]
            /\ \A i, j \in 1 .. (c - 1) : i < j => s[i] < s[j]
        BY <3>4, <4>2 DEF IsAscending
      <4> HIDE DEF W
      <4> DEFINE t == [i \in 1 .. c |-> IF i = c THEN k ELSE s[i]]
      <4>4. t \in [1 .. c -> V]
        BY <3>6, <4>2, <4>3 DEF W
      <4>5. ASSUME NEW i \in 1 .. c, NEW j \in 1 .. c, i < j
            PROVE  t[i] < t[j]
        <5>1. i \in 1 .. (c - 1) /\ t[i] = s[i] /\ s[i] \in W
          BY <4>2, <4>3, <4>5
        <5>2. CASE j = c
          <6>1. t[j] = k /\ s[i] \in 1 .. (k - 1)
            BY <3>3, <4>5, <5>1, <5>2
          <6> QED
            BY <2>1, <5>1, <6>1
        <5>3. CASE j # c
          BY <4>2, <4>3, <4>5, <5>1, <5>3
        <5> QED
          BY <5>2, <5>3
      <4>6. IsAscending(t, V)
        BY <4>2, <4>4, <4>5 DEF IsAscending
      <4> QED
        BY <2>2, <4>6
    <3> QED
      BY <3>5, <3>6
  <2> QED
    BY <2>1, <2>4, <2>5
<1>2. Orderly(n)
  BY <1>1
<1> QED
  BY <1>2

(* What Ascending says of the members of a set of numbers up to n: all of  *)
(* them, in order.                                                         *)
LEMMA AscendingFacts ==
    ASSUME NEW n \in Nat, NEW S \in SUBSET (1 .. n)
    PROVE  LET s == Ascending(S) IN
           /\ Cardinality(S) \in Nat /\ s \in [1 .. Cardinality(S) -> S]
           /\ \A i, j \in 1 .. Cardinality(S) : i < j => s[i] < s[j]
           /\ \A x \in S : \E i \in 1 .. Cardinality(S) : s[i] = x
<1>1. IsFiniteSet(S) /\ Cardinality(S) \in Nat
  <2>1. IsFiniteSet(1 .. n)
    BY FS_Interval
  <2>2. IsFiniteSet(S)
    BY <2>1, FS_Subset
  <2> QED
    BY <2>2, FS_CardinalityType
<1>2. PICK c \in Nat : c = Cardinality(S)
  BY <1>1
<1>3. PICK s : s = Ascending(S)
  OBVIOUS
<1>4. /\ s \in [1 .. c -> S]
      /\ \A i, j \in 1 .. c : i < j => s[i] < s[j]
  <2>1. \E u \in [1 .. c -> S] : \A i, j \in DOMAIN u : i < j => u[i] < u[j]
    <3>1. PICK u : IsAscending(u, S)
      BY AscendingExists
    <3>2. u \in [1 .. c -> S] /\ DOMAIN u = 1 .. c
      BY <1>2, <3>1 DEF IsAscending
    <3> QED
      BY <1>2, <3>1, <3>2 DEF IsAscending
  <2>2. /\ s \in [1 .. c -> S]
        /\ \A i, j \in DOMAIN s : i < j => s[i] < s[j]
    BY <1>2, <1>3, <2>1 DEF Ascending
  <2>3. DOMAIN s = 1 .. c
    BY <2>2
  <2> QED
    BY <2>2, <2>3
<1>5. s \in Injection(1 .. c, S)
  <2>1. \A i \in 1 .. c : s[i] \in Nat
    <3>1. \A i \in 1 .. c : s[i] \in S
      BY <1>4
    <3>2. \A x \in S : x \in Nat
      OBVIOUS
    <3> QED
      BY <3>1, <3>2
  <2>2. \A i, j \in 1 .. c : s[i] = s[j] => i = j
    <3> SUFFICES ASSUME NEW i \in 1 .. c, NEW j \in 1 .. c, i < j PROVE s[i] # s[j]
      OBVIOUS
    <3> QED
      BY <1>4, <2>1
  <2> QED
    BY <1>4, <2>2 DEF Injection, IsInjective
<1>6. Cardinality(1 .. c) = c
  BY FS_Interval
<1>7. s \in Surjection(1 .. c, S)
  BY <1>1, <1>2, <1>5, <1>6, FS_Injection
<1>8. \A x \in S : \E i \in 1 .. c : s[i] = x
  BY <1>7 DEF Surjection
<1> QED
  BY <1>1, <1>2, <1>3, <1>4, <1>8

(* The entries of a branch say their places.                               *)
LEMMA BranchFacts ==
    ASSUME NEW b \in Branches
    PROVE  /\ Len(b) \in Nat /\ DOMAIN b = 1 .. Len(b)
           /\ \A i \in DOMAIN b : b[i].kind \in EntryKinds /\ b[i].parts[1] = i
<1>1. PICK n \in 0 .. MaxBranch : \E kinds \in [1 .. n -> EntryKinds] :
         b = [i \in DOMAIN kinds |-> Entry(kinds[i], <<i>>)]
  BY DEF Branches
<1> PICK kinds \in [1 .. n -> EntryKinds] :
         b = [i \in DOMAIN kinds |-> Entry(kinds[i], <<i>>)]
  BY <1>1
<1>2. n \in Nat /\ DOMAIN b = 1 .. n
  BY <1>1, MaxBranchAssumption
<1>3. ASSUME NEW i \in 1 .. n
      PROVE  b[i].kind \in EntryKinds /\ b[i].parts[1] = i
  <2>1. b[i] = Entry(kinds[i], <<i>>)
    BY <1>3
  <2> QED
    BY <2>1, <1>3 DEF Entry
<1>4. Len(b) = n
  BY <1>2
<1> QED
  BY <1>2, <1>3, <1>4

(* The runs of a branch: first[g] to last[g] are the entries of the g-th   *)
(* message.                                                                *)
AreRuns(b, m, first, last) ==
    /\ first \in [1 .. m -> DOMAIN b] /\ last \in [1 .. m -> DOMAIN b]
    /\ \A g \in 1 .. m : first[g] <= last[g] /\ ~Joins(b, first[g])
    /\ \A g, h \in 1 .. m : g < h => last[g] < first[h]
    /\ \A g \in 1 .. m : \A p \in first[g] + 1 .. last[g] : Joins(b, p)
    /\ \A p \in DOMAIN b : \E g \in 1 .. m : first[g] <= p /\ p <= last[g]

(* The entries of a request are runs of the entries of the branch.         *)
LEMMA Runs ==
    ASSUME NEW b \in Branches
    PROVE  \E m \in Nat : \E first, last :
              /\ AreRuns(b, m, first, last)
              /\ Grouped(b) = [g \in 1 .. m |->
                                  Entry(b[first[g]].kind,
                                        [n \in 1 .. last[g] - first[g] + 1 |->
                                            b[first[g] + n - 1].parts[1]])]
<1> DEFINE S == {i \in DOMAIN b : ~Joins(b, i)}
<1>1. Len(b) \in Nat /\ DOMAIN b = 1 .. Len(b) /\ S \in SUBSET (1 .. Len(b))
  BY BranchFacts
<1>2. PICK m \in Nat : m = Cardinality(S)
  BY <1>1, AscendingFacts
<1>3. PICK first : first = Ascending(S)
  OBVIOUS
<1>4. /\ first \in [1 .. m -> S]
      /\ \A g, h \in 1 .. m : g < h => first[g] < first[h]
      /\ \A x \in S : \E g \in 1 .. m : first[g] = x
  BY <1>1, <1>2, <1>3, AscendingFacts
<1>5. DOMAIN first = 1 .. m /\ Len(first) = m
  BY <1>2, <1>4
<1> DEFINE last == [g \in 1 .. m |-> IF g = m THEN Len(b) ELSE first[g + 1] - 1]
<1>6. Grouped(b) = [g \in 1 .. m |->
                       Entry(b[first[g]].kind,
                             [n \in 1 .. last[g] - first[g] + 1 |->
                                 b[first[g] + n - 1].parts[1]])]
  BY <1>3, <1>5 DEF Grouped
<1>7. \A g \in 1 .. m : first[g] \in 1 .. Len(b) /\ ~Joins(b, first[g])
  BY <1>1, <1>4
<1>8. ASSUME NEW g \in 1 .. m
      PROVE  last[g] \in 1 .. Len(b) /\ first[g] <= last[g]
  <2>1. CASE g = m
    BY <1>1, <1>7, <2>1
  <2>2. CASE g # m
    <3>1. g + 1 \in 1 .. m /\ last[g] = first[g + 1] - 1 /\ first[g] < first[g + 1]
      BY <1>2, <1>4, <2>2
    <3> QED
      BY <1>1, <1>7, <3>1
  <2> QED
    BY <2>1, <2>2
<1>9. ASSUME NEW g \in 1 .. m, NEW h \in 1 .. m, g < h
      PROVE  last[g] < first[h]
  <2>1. g + 1 \in 1 .. m /\ last[g] = first[g + 1] - 1
    BY <1>2, <1>9
  <2>2. first[g + 1] <= first[h] /\ first[g + 1] \in Nat /\ first[h] \in Nat
    <3>1. g + 1 = h \/ g + 1 < h
      BY <1>2, <1>9
    <3>2. first[g + 1] \in Nat /\ first[h] \in Nat
      BY <1>7, <2>1
    <3> QED
      BY <1>4, <2>1, <3>1, <3>2
  <2> QED
    BY <2>1, <2>2
<1>10. ASSUME NEW g \in 1 .. m, NEW p \in first[g] + 1 .. last[g]
       PROVE  Joins(b, p)
  <2>1. p \in 1 .. Len(b) /\ first[g] < p /\ p <= last[g]
    BY <1>1, <1>7, <1>8, <1>10
  <2>2. ASSUME p \in S PROVE FALSE
    <3>1. PICK h \in 1 .. m : first[h] = p
      BY <1>4, <2>2
    <3>2. CASE h <= g
      <4>1. first[h] <= first[g]
        <5>1. first[h] \in Nat /\ first[g] \in Nat /\ (h = g \/ h < g)
          BY <1>2, <1>7, <3>2
        <5> QED
          BY <1>4, <5>1
      <4> QED
        BY <2>1, <3>1, <4>1, <1>7
    <3>3. CASE g < h
      <4>1. last[g] < first[h]
        BY <1>9, <3>3
      <4> QED
        BY <2>1, <3>1, <4>1, <1>8
    <3> QED
      BY <1>2, <3>2, <3>3
  <2> QED
    BY <1>1, <2>1, <2>2
<1> HIDE DEF last
<1>11. last \in [1 .. m -> 1 .. Len(b)]
  BY <1>8 DEF last
<1>12. ASSUME NEW p \in 1 .. Len(b)
       PROVE  \E g \in 1 .. m : first[g] <= p /\ p <= last[g]
  <2>1. 1 \in S
    <3>1. ~Joins(b, 1)
      BY DEF Joins
    <3> QED
      BY <1>1, <1>12, <3>1
  <2>2. PICK z \in 1 .. m : first[z] = 1
    BY <1>4, <2>1
  <2> DEFINE After == {g \in 1 .. m : p < first[g]}
  <2>3. CASE After = {}
    <3>1. m \in 1 .. m /\ first[m] <= p
      BY <1>2, <1>7, <2>2, <2>3
    <3>2. last[m] = Len(b)
      BY <3>1 DEF last
    <3> QED
      BY <1>1, <1>12, <3>1, <3>2
  <2>4. CASE After # {}
    <3>1. After \in SUBSET Nat
      OBVIOUS
    <3>2. PICK h \in After : \A g \in After : h <= g
      BY <2>4, <3>1, SmallestMember
    <3>3. h \in 1 .. m /\ p < first[h]
      BY <3>2
    <3>4. h # 1
      <4>1. ~(z < 1) /\ (z = 1 \/ 1 < z)
        BY <2>2, <1>2
      <4>2. first[1] <= first[z]
        <5>1. 1 \in 1 .. m
          BY <1>2, <2>2
        <5>2. first[1] \in Nat /\ first[z] \in Nat
          BY <1>7, <5>1
        <5>3. 1 < z => first[1] < first[z]
          BY <1>4, <5>1
        <5> QED
          BY <4>1, <5>2, <5>3
      <4> QED
        BY <1>12, <2>2, <3>3, <4>2, <1>7
    <3>5. h - 1 \in 1 .. m /\ h - 1 # m /\ h - 1 + 1 = h
      BY <1>2, <3>3, <3>4
    <3>6. ~(p < first[h - 1])
      BY <1>2, <3>2, <3>3, <3>5
    <3>7. last[h - 1] = first[h] - 1
      BY <3>5 DEF last
    <3>8. first[h - 1] \in Nat /\ first[h] \in Nat /\ p \in Nat
      BY <1>7, <3>3, <3>5, <1>12
    <3> QED
      BY <3>3, <3>5, <3>6, <3>7, <3>8
  <2> QED
    BY <2>3, <2>4
<1>13. \A g \in 1 .. m : last[g] \in 1 .. Len(b) /\ first[g] <= last[g]
  BY <1>8 DEF last
<1>14. AreRuns(b, m, first, last)
  <2>1. \A g, h \in 1 .. m : g < h => last[g] < first[h]
    BY <1>9 DEF last
  <2>2. \A g \in 1 .. m : \A p \in first[g] + 1 .. last[g] : Joins(b, p)
    BY <1>10 DEF last
  <2> QED
    BY <1>1, <1>4, <1>7, <1>11, <1>12, <1>13, <2>1, <2>2 DEF AreRuns
<1>15. PICK l : l = last
  OBVIOUS
<1>16. Grouped(b) = [g \in 1 .. m |->
                        Entry(b[first[g]].kind,
                              [n \in 1 .. l[g] - first[g] + 1 |->
                                  b[first[g] + n - 1].parts[1]])]
  BY <1>6, <1>15 DEF last
<1>17. AreRuns(b, m, first, l)
  BY <1>14, <1>15
<1> QED
  BY <1>16, <1>17

(* A run is of one kind, that of its first entry: the first entry of       *)
(* another kind would not have joined it.                                  *)
LEMMA RunKind ==
    ASSUME NEW b \in Branches, NEW m \in Nat, NEW first, NEW last,
           AreRuns(b, m, first, last), NEW g \in 1 .. m, NEW p \in first[g] .. last[g]
    PROVE  b[p].kind = b[first[g]].kind
<1> DEFINE Other == {q \in first[g] .. last[g] : b[q].kind # b[first[g]].kind}
<1>1. first[g] \in Nat /\ last[g] \in Nat
  <2>1. first[g] \in DOMAIN b /\ last[g] \in DOMAIN b
    BY DEF AreRuns
  <2> QED
    BY <2>1, BranchFacts
<1>2. ASSUME Other # {} PROVE FALSE
  <2>1. Other \in SUBSET Nat
    BY <1>1
  <2>2. PICK q \in Other : \A r \in Other : q <= r
    BY <1>2, <2>1, SmallestMember
  <2>3. q \in first[g] + 1 .. last[g]
    BY <1>1, <2>2
  <2>4. q - 1 \in first[g] .. last[g] /\ ~(q <= q - 1)
    BY <1>1, <2>3
  <2>5. b[q - 1].kind = b[first[g]].kind
    BY <2>2, <2>4
  <2>6. Joins(b, q)
    BY <2>3 DEF AreRuns
  <2>7. b[q].kind = b[q - 1].kind
    BY <2>6 DEF Joins, SameKind
  <2> QED
    BY <2>2, <2>5, <2>7
<1> QED
  BY <1>2

(* What is sent for a branch: the prompt and a message for each run.       *)
LEMMA MessagesFacts ==
    ASSUME NEW b \in Branches
    PROVE  \E m \in Nat : \E first, last, body :
              /\ AreRuns(b, m, first, last)
              /\ Head(Messages(Grouped(b))) = Prompt
              /\ Tail(Messages(Grouped(b))) = body
              /\ \A i \in DOMAIN Messages(Grouped(b)) :
                    Messages(Grouped(b))[i].role \in {"system", "user", "assistant", "tool"}
              /\ DOMAIN body = 1 .. m
              /\ \A g \in 1 .. m :
                    /\ body[g].role = RoleOf(b[first[g]].kind)
                    /\ Len(body[g].parts) = last[g] - first[g] + 1
                    /\ DOMAIN body[g].parts = 1 .. last[g] - first[g] + 1
                    /\ \A a \in DOMAIN body[g].parts : body[g].parts[a] = first[g] + a - 1
<1>1. PICK m \in Nat : \E first, last :
              /\ AreRuns(b, m, first, last)
              /\ Grouped(b) = [g \in 1 .. m |->
                                  Entry(b[first[g]].kind,
                                        [n \in 1 .. last[g] - first[g] + 1 |->
                                            b[first[g] + n - 1].parts[1]])]
  BY Runs
<1>2. PICK first, last :
              /\ AreRuns(b, m, first, last)
              /\ Grouped(b) = [g \in 1 .. m |->
                                  Entry(b[first[g]].kind,
                                        [n \in 1 .. last[g] - first[g] + 1 |->
                                            b[first[g] + n - 1].parts[1]])]
  BY <1>1
<1>3. PICK G : G = Grouped(b)
  OBVIOUS
<1>4. PICK body : body = [i \in 1 .. m |-> [role |-> RoleOf(G[i].kind), parts |-> G[i].parts]]
  OBVIOUS
<1>5. PICK M : M = Messages(G)
  OBVIOUS
<1>6. M = <<Prompt>> \o body
  BY <1>2, <1>3, <1>4, <1>5 DEF Messages
<1>7. ASSUME NEW g \in 1 .. m
      PROVE  /\ body[g].role = RoleOf(b[first[g]].kind)
             /\ body[g].role \in {"user", "assistant", "tool"}
             /\ Len(body[g].parts) = last[g] - first[g] + 1
             /\ DOMAIN body[g].parts = 1 .. last[g] - first[g] + 1
             /\ \A a \in DOMAIN body[g].parts : body[g].parts[a] = first[g] + a - 1
  <2>1. PICK text : text = [n \in 1 .. last[g] - first[g] + 1 |-> b[first[g] + n - 1].parts[1]]
    OBVIOUS
  <2>2. G[g] = Entry(b[first[g]].kind, text)
    BY <1>2, <1>3, <2>1
  <2>3. body[g].role = RoleOf(b[first[g]].kind) /\ body[g].parts = text
    BY <1>4, <2>2 DEF Entry
  <2>4. first[g] \in DOMAIN b /\ last[g] \in DOMAIN b /\ first[g] <= last[g]
    BY <1>2 DEF AreRuns
  <2>5. first[g] \in 1 .. Len(b) /\ last[g] \in 1 .. Len(b) /\ Len(b) \in Nat
        /\ b[first[g]].kind \in EntryKinds
    BY <2>4, BranchFacts
  <2>6. DOMAIN text = 1 .. last[g] - first[g] + 1 /\ Len(text) = last[g] - first[g] + 1
    BY <2>1, <2>4, <2>5
  <2>7. ASSUME NEW a \in 1 .. last[g] - first[g] + 1
        PROVE  text[a] = first[g] + a - 1
    <3>1. first[g] + a - 1 \in 1 .. Len(b)
      <4>1. /\ first[g] \in Nat /\ last[g] \in Nat /\ Len(b) \in Nat
            /\ 1 <= first[g] /\ last[g] <= Len(b)
        BY <2>5
      <4>2. a \in Nat /\ 1 <= a /\ a <= last[g] - first[g] + 1
        BY <4>1
      <4> QED
        BY <4>1, <4>2
    <3>2. text[a] = b[first[g] + a - 1].parts[1]
      BY <2>1, Zenon
    <3>3. b[first[g] + a - 1].parts[1] = first[g] + a - 1
      BY <3>1, BranchFacts
    <3> QED
      BY <3>2, <3>3
  <2>8. RoleOf(b[first[g]].kind) \in {"user", "assistant", "tool"}
    BY <2>5 DEF RoleOf, EntryKinds
  <2> QED
    BY <2>3, <2>6, <2>7, <2>8
<1>8. DOMAIN body = 1 .. m
  BY <1>4
<1>9. /\ Head(M) = Prompt /\ Tail(M) = body
      /\ DOMAIN M = 1 .. m + 1 /\ M[1] = Prompt
      /\ \A i \in 1 .. m : M[i + 1] = body[i]
  <2>1. <<Prompt>> \in Seq({Prompt} \cup {body[i] : i \in 1 .. m})
    OBVIOUS
  <2>2. body \in Seq({Prompt} \cup {body[i] : i \in 1 .. m}) /\ Len(body) = m
    BY <1>4
  <2> QED
    BY <1>6, <2>1, <2>2
<1>10. \A i \in DOMAIN M : M[i].role \in {"system", "user", "assistant", "tool"}
  <2>1. Prompt.role = "system"
    BY DEF Prompt
  <2>2. ASSUME NEW i \in 2 .. m + 1 PROVE M[i].role \in {"user", "assistant", "tool"}
    <3>1. i - 1 \in 1 .. m /\ i - 1 + 1 = i
      OBVIOUS
    <3>2. M[i] = body[i - 1]
      BY <1>9, <3>1
    <3> QED
      BY <1>7, <3>1, <3>2
  <2>3. \A i \in 1 .. m + 1 : i = 1 \/ i \in 2 .. m + 1
    OBVIOUS
  <2> QED
    BY <1>9, <2>1, <2>2, <2>3
<1>11. AreRuns(b, m, first, last) /\ M = Messages(Grouped(b))
  BY <1>2, <1>3, <1>5
<1> HIDE <1>2
<1> QED
  BY <1>7, <1>8, <1>9, <1>10, <1>11

(* The body of a request says what the branch b says.                      *)
Faithful(body, b) ==
    /\ \A p \in DOMAIN b :
          \E i \in DOMAIN body : \E a \in DOMAIN body[i].parts : body[i].parts[a] = p
    /\ \A i, j \in DOMAIN body :
          \A a \in DOMAIN body[i].parts, c \in DOMAIN body[j].parts :
             i < j \/ (i = j /\ a < c) => body[i].parts[a] < body[j].parts[c]
    /\ \A i \in DOMAIN body :
          /\ body[i].parts # <<>>
          /\ \A a \in DOMAIN body[i].parts : LET p == body[i].parts[a] IN
                /\ p \in DOMAIN b
                /\ RoleOf(b[p].kind) = body[i].role
                /\ Len(body[i].parts) > 1 => IsMessage(b[p])
                /\ a = 1 /\ p > 1 /\ IsMessage(b[p]) => b[p].kind # b[p - 1].kind

(* Such a request says what the branch says.                               *)
LEMMA RequestSays ==
    ASSUME branch \in Branches, sent = Messages(Grouped(branch))
    PROVE  RequestFaithful
<1>1. PICK b \in Branches : b = branch
  OBVIOUS
<1>2. PICK m \in Nat : \E first, last, body :
              /\ AreRuns(b, m, first, last)
              /\ Head(Messages(Grouped(b))) = Prompt
              /\ Tail(Messages(Grouped(b))) = body
              /\ DOMAIN body = 1 .. m
              /\ \A g \in 1 .. m :
                    /\ body[g].role = RoleOf(b[first[g]].kind)
                    /\ Len(body[g].parts) = last[g] - first[g] + 1
                    /\ DOMAIN body[g].parts = 1 .. last[g] - first[g] + 1
                    /\ \A a \in DOMAIN body[g].parts : body[g].parts[a] = first[g] + a - 1
  BY MessagesFacts
<1>4. PICK first, last, body :
              /\ AreRuns(b, m, first, last)
              /\ Head(Messages(Grouped(b))) = Prompt
              /\ Tail(Messages(Grouped(b))) = body
              /\ DOMAIN body = 1 .. m
              /\ \A g \in 1 .. m :
                    /\ body[g].role = RoleOf(b[first[g]].kind)
                    /\ Len(body[g].parts) = last[g] - first[g] + 1
                    /\ DOMAIN body[g].parts = 1 .. last[g] - first[g] + 1
                    /\ \A a \in DOMAIN body[g].parts : body[g].parts[a] = first[g] + a - 1
  BY <1>2
<1>5. /\ Len(b) \in Nat /\ DOMAIN b = 1 .. Len(b)
      /\ \A g \in 1 .. m : /\ first[g] \in 1 .. Len(b) /\ last[g] \in 1 .. Len(b)
                           /\ first[g] <= last[g] /\ ~Joins(b, first[g])
  BY <1>4, BranchFacts DEF AreRuns
<1>6. ASSUME NEW p \in DOMAIN b
      PROVE  \E i \in DOMAIN body : \E a \in DOMAIN body[i].parts : body[i].parts[a] = p
  <2>1. PICK g \in 1 .. m : first[g] <= p /\ p <= last[g]
    BY <1>4 DEF AreRuns
  <2>2. /\ p - first[g] + 1 \in 1 .. last[g] - first[g] + 1
        /\ first[g] + (p - first[g] + 1) - 1 = p
    BY <1>5, <2>1
  <2>3. p - first[g] + 1 \in DOMAIN body[g].parts /\ body[g].parts[p - first[g] + 1] = p
    BY <1>4, <2>2
  <2> QED
    BY <1>4, <2>3
<1>7. ASSUME NEW i \in DOMAIN body, NEW j \in DOMAIN body,
             NEW a \in DOMAIN body[i].parts, NEW c \in DOMAIN body[j].parts,
             i < j \/ (i = j /\ a < c)
      PROVE  body[i].parts[a] < body[j].parts[c]
  <2>1. /\ body[i].parts[a] = first[i] + a - 1 /\ body[j].parts[c] = first[j] + c - 1
        /\ i \in 1 .. m /\ j \in 1 .. m
        /\ a \in 1 .. last[i] - first[i] + 1 /\ c \in 1 .. last[j] - first[j] + 1
    BY <1>4
  <2>2. /\ first[i] \in Nat /\ last[i] \in Nat /\ first[j] \in Nat /\ last[j] \in Nat
    <3>1. /\ first[i] \in 1 .. Len(b) /\ last[i] \in 1 .. Len(b)
          /\ first[j] \in 1 .. Len(b) /\ last[j] \in 1 .. Len(b)
      BY <1>5, <2>1
    <3> QED
      BY <3>1
  <2>3. i < j => last[i] < first[j]
    BY <1>4, <2>1 DEF AreRuns
  <2> QED
    BY <1>7, <2>1, <2>2, <2>3
<1>8. ASSUME NEW i \in DOMAIN body
      PROVE  /\ body[i].parts # <<>>
             /\ \A a \in DOMAIN body[i].parts : LET p == body[i].parts[a] IN
                  /\ p \in DOMAIN b
                  /\ RoleOf(b[p].kind) = body[i].role
                  /\ Len(body[i].parts) > 1 => IsMessage(b[p])
                  /\ a = 1 /\ p > 1 /\ IsMessage(b[p]) => b[p].kind # b[p - 1].kind
  <2>1. /\ i \in 1 .. m /\ body[i].role = RoleOf(b[first[i]].kind)
        /\ Len(body[i].parts) = last[i] - first[i] + 1
        /\ DOMAIN body[i].parts = 1 .. last[i] - first[i] + 1
    BY <1>4
  <2>2. /\ first[i] \in 1 .. Len(b) /\ last[i] \in 1 .. Len(b)
        /\ first[i] <= last[i] /\ ~Joins(b, first[i])
    BY <1>5, <2>1
  <2>3. body[i].parts # <<>>
    <3>1. 1 \in DOMAIN body[i].parts
      BY <2>1, <2>2
    <3> QED
      BY <3>1
  <2>4. ASSUME NEW a \in DOMAIN body[i].parts, NEW p, p = body[i].parts[a]
        PROVE  /\ p \in DOMAIN b
               /\ RoleOf(b[p].kind) = body[i].role
               /\ Len(body[i].parts) > 1 => IsMessage(b[p])
               /\ a = 1 /\ p > 1 /\ IsMessage(b[p]) => b[p].kind # b[p - 1].kind
    <3>1. p = first[i] + a - 1 /\ a \in 1 .. last[i] - first[i] + 1
      BY <1>4, <2>1, <2>4
    <3>2. p \in first[i] .. last[i] /\ p \in 1 .. Len(b) /\ (a = 1 => p = first[i])
      BY <1>5, <2>2, <3>1
    <3>3. b[p].kind = b[first[i]].kind
      BY <1>4, <2>1, <3>2, RunKind
    <3>4. ASSUME Len(body[i].parts) > 1 PROVE IsMessage(b[p])
      <4>1. first[i] + 1 \in first[i] + 1 .. last[i] /\ first[i] + 1 \in first[i] .. last[i]
        BY <2>1, <2>2, <3>4
      <4>2. Joins(b, first[i] + 1)
        BY <1>4, <2>1, <4>1 DEF AreRuns
      <4>3. IsMessage(b[first[i] + 1])
        BY <4>2 DEF Joins
      <4>4. b[first[i] + 1].kind = b[first[i]].kind
        BY <1>4, <2>1, <4>1, RunKind
      <4> QED
        BY <3>3, <4>3, <4>4 DEF IsMessage
    <3>5. ASSUME a = 1, p > 1, IsMessage(b[p]) PROVE b[p].kind # b[p - 1].kind
      <4>1. ~Joins(b, p)
        BY <2>2, <3>2, <3>5
      <4>2. b[p].kind = b[p - 1].kind => IsMessage(b[p - 1]) /\ SameKind(b[p - 1], b[p])
        BY <3>5 DEF IsMessage, SameKind
      <4> QED
        BY <3>5, <4>1, <4>2 DEF Joins
    <3> QED
      BY <1>5, <2>1, <3>2, <3>3, <3>4, <3>5
  <2> QED
    BY <2>3, <2>4
<1>9. Faithful(body, b)
  BY <1>6, <1>7, <1>8 DEF Faithful
<1>10. Head(sent) = Prompt /\ Tail(sent) = body /\ branch = b
  BY <1>1, <1>4
<1>11. Faithful(Tail(sent), branch)
  BY <1>9, <1>10
<1> QED
  BY <1>10, <1>11 DEF Faithful, RequestFaithful

-----------------------------------------------------------------------------
(* The request is made from the branch the layer was called with, which it *)
(* forgets afterwards.                                                     *)
RequestInv ==
    /\ gen \in {"idle", "request"} => branch \in Branches
    /\ gen = "request" => sent = Messages(Grouped(branch))
    /\ \A i \in DOMAIN sent : sent[i].role \in {"system", "user", "assistant", "tool"}
    /\ unwrapped \subseteq ChannelIds

(* The steps of the provider leave no request under way.                   *)
LEMMA AwaitRequest ==
    ASSUME Await
    PROVE  gen' \notin {"idle", "request"} /\ sent' \in {sent, <<>>}
<1>1. CASE Accept \/ Refuse
  BY <1>1 DEF Accept, Refuse
<1>2. CASE PullDone \/ PullError \/ End
  BY <1>2 DEF PullDone, PullError, End, Goes
<1>3. ASSUME NEW d \in Deltas,
             \/ PullUsage(d) \/ PullReasoning(d) \/ PullEmpty(d)
             \/ PullContent(d) \/ PullMessage(d) \/ PullStart(d)
             \/ PullArguments(d)
      PROVE  gen' = "pull" /\ sent' = sent
  BY <1>3 DEF PullUsage, PullReasoning, PullEmpty, PullContent, PullMessage, PullStart,
              PullArguments, Goes
<1>4. ASSUME NEW d \in Deltas, PullUnknown(d) \/ PullNoCall(d)
      PROVE  gen' \in {"failed", "panicked"} /\ sent' = sent
  BY <1>4 DEF PullUnknown, PullNoCall, Goes
<1> QED
  BY <1>1, <1>2, <1>3, <1>4 DEF Await

(* Every step keeps it; only a call makes a request.                       *)
LEMMA RequestStepInv == ChatInv /\ RequestInv /\ [Next]_vars => RequestInv'
<1> SUFFICES ASSUME ChatInv, RequestInv, [Next]_vars PROVE RequestInv'
  OBVIOUS
<1>1. CASE Call
  <2>1. gen = "idle" /\ branch' = branch /\ unwrapped' = unwrapped /\ branch \in Branches
    BY <1>1 DEF Call, Chat, chatVars, streamVars, RequestInv
  <2>2. CASE gen' = "request" /\ sent' = Messages(Grouped(branch))
    <3>1. \A i \in DOMAIN Messages(Grouped(branch)) :
             Messages(Grouped(branch))[i].role \in {"system", "user", "assistant", "tool"}
      BY <2>1, MessagesFacts
    <3> QED
      BY <2>1, <2>2, <3>1 DEF RequestInv
  <2>3. CASE gen' = "failed" /\ sent' = sent
    BY <2>1, <2>3 DEF RequestInv
  <2> QED
    BY <1>1, <2>2, <2>3 DEF Call, Chat
<1>2. CASE Wait
  <2>1. gen' \notin {"idle", "request"} /\ sent' \in {sent, <<>>} /\ unwrapped' = unwrapped
    BY <1>2, AwaitRequest DEF Wait, streamVars
  <2>2. DOMAIN <<>> = {}
    OBVIOUS
  <2> QED
    BY <2>1, <2>2 DEF RequestInv
<1>3. CASE PassMessageStart \/ Keep \/ Flush \/ PassOther
  <2>1. /\ gen \notin {"idle", "request"} /\ UNCHANGED <<gen, sent, branch>>
        /\ unwrapped' = unwrapped \/ (Flush /\ Channel \in DOMAIN buffers)
    BY <1>3 DEF PassMessageStart, Keep, Flush, PassOther, Pulled, Yield
  <2>2. unwrapped' \subseteq ChannelIds
    <3>1. DOMAIN buffers \subseteq ChannelIds
      BY DEF ChatInv, ChatTypes
    <3>2. Flush => unwrapped' \in {unwrapped, unwrapped \cup {Channel}}
      BY DEF Flush
    <3> QED
      BY <2>1, <3>1, <3>2 DEF RequestInv
  <2> QED
    BY <2>1, <2>2 DEF RequestInv
<1>4. CASE ChatYield \/ UNCHANGED vars
  <2>1. UNCHANGED <<gen, sent, branch, unwrapped>>
    BY <1>4 DEF ChatYield, vars, openaiVars, chatVars, streamVars
  <2> QED
    BY <2>1 DEF RequestInv
<1>5. CASE GiveUp
  BY <1>5 DEF GiveUp, Cancel, chatVars, streamVars, RequestInv
<1> QED
  BY <1>1, <1>2, <1>3, <1>4, <1>5 DEF Next

(* It holds at first, when nothing was sent.                               *)
LEMMA RequestInitInv == Init => RequestInv
<1> SUFFICES ASSUME Init PROVE RequestInv
  OBVIOUS
<1>1. gen = "idle" /\ sent = <<>> /\ branch \in Branches /\ unwrapped = {}
  BY DEF Init, OpenAIInit
<1>2. DOMAIN <<>> = {}
  OBVIOUS
<1> QED
  BY <1>1, <1>2 DEF RequestInv

(* The three invariants together.                                          *)
LEMMA AllInvariance == Spec => [](ProviderInv /\ ChatInv /\ RequestInv)
BY ProviderInitInv, ProviderStepInv, ChatInitInv, ChatStepInv,
   RequestInitInv, RequestStepInv, PTL DEF Spec

(* The types of both layers.                                               *)
THEOREM TypeCorrect == Spec => []TypeOK
<1>1. ProviderInv /\ ChatInv /\ RequestInv => TypeOK
  <2> SUFFICES ASSUME ProviderInv, ChatInv, RequestInv PROVE TypeOK
    OBVIOUS
  <2>1. fresh \in 1 .. MaxDeltas + 1
    BY MaxDeltasAssumption DEF ProviderInv, ProviderTypes
  <2>2. OpenAITypeOK
    BY <2>1 DEF OpenAITypeOK, ProviderInv, ProviderTypes, RequestInv
  <2> QED
    BY <2>2 DEF TypeOK, ChatInv, ChatTypes, RequestInv
<1> QED
  BY AllInvariance, <1>1, PTL

(* chat_adapter.rs:101-149, lib.rs:105-166: a request says what the branch *)
(* says, each entry once and in order, in the right roles, with one        *)
(* message for each run of messages, for branches of any length.           *)
THEOREM RequestsFaithful == Spec => []RequestFaithful
<1>1. RequestInv => RequestFaithful
  <2> SUFFICES ASSUME RequestInv PROVE RequestFaithful
    OBVIOUS
  <2>1. CASE gen = "request"
    BY <2>1, RequestSays DEF RequestInv
  <2>2. CASE gen # "request"
    BY <2>2 DEF RequestFaithful
  <2> QED
    BY <2>1, <2>2
<1> QED
  BY AllInvariance, <1>1, PTL
=============================================================================
