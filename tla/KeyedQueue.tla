----------------------------- MODULE KeyedQueue -----------------------------
(***************************************************************************)
(* What ciel-util's QueueMap promises its clients, with no channel, lock   *)
(* or map in sight.  A key is owned while one receiver serves it.  A value *)
(* is accepted in one step, which also makes the key owned; values reach   *)
(* the owner in the order in which they were accepted; an owner that       *)
(* finishes leaves nothing behind; an owner that is dropped loses exactly  *)
(* the values that were waiting for it.                                    *)
(***************************************************************************)
EXTENDS Naturals, Sequences

CONSTANTS
    Keys,        \* discord channels, in ciel-discord
    Producers,   \* threads that call enqueue
    Values       \* what is enqueued

VARIABLES
    request,     \* request[p]: <<>>, or the <<key, value>> p is enqueueing
    owned,       \* owned[k]: some receiver serves k
    pending,     \* pending[k]: accepted values its receiver has not taken
    handled,     \* handled[k]: values taken by receivers of k, in order
    lost         \* values whose receiver was dropped before taking them

vars == <<request, owned, pending, handled, lost>>

RangeOf(s) == {s[i] : i \in DOMAIN s}

Init ==
    /\ request = [p \in Producers |-> <<>>]
    /\ owned = [k \in Keys |-> FALSE]
    /\ pending = [k \in Keys |-> <<>>]
    /\ handled = [k \in Keys |-> <<>>]
    /\ lost = {}

(* A client calls enqueue.                                                 *)
Call(p, k, v) ==
    /\ request[p] = <<>>
    /\ request' = [request EXCEPT ![p] = <<k, v>>]
    /\ UNCHANGED <<owned, pending, handled, lost>>

(* The one step at which an enqueue takes effect.                          *)
Commit(p, k, v) ==
    /\ request[p] = <<k, v>>
    /\ request' = [request EXCEPT ![p] = <<>>]
    /\ owned' = [owned EXCEPT ![k] = TRUE]
    /\ pending' = [pending EXCEPT ![k] = Append(@, v)]
    /\ UNCHANGED <<handled, lost>>

(* The owner of k takes the n oldest values.                               *)
Deliver(k, n) ==
    /\ owned[k]
    /\ handled' = [handled EXCEPT ![k] = @ \o SubSeq(pending[k], 1, n)]
    /\ pending' = [pending EXCEPT ![k] = SubSeq(@, n + 1, Len(@))]
    /\ UNCHANGED <<request, owned, lost>>

(* The owner of k gives it up; nothing may be waiting.                     *)
Finish(k) ==
    /\ owned[k]
    /\ pending[k] = <<>>
    /\ owned' = [owned EXCEPT ![k] = FALSE]
    /\ UNCHANGED <<request, pending, handled, lost>>

(* The owner of k is dropped, and with it what was waiting.                *)
Abandon(k) ==
    /\ owned[k]
    /\ owned' = [owned EXCEPT ![k] = FALSE]
    /\ lost' = lost \cup RangeOf(pending[k])
    /\ pending' = [pending EXCEPT ![k] = <<>>]
    /\ UNCHANGED <<request, handled>>

Next ==
    \/ \E p \in Producers, k \in Keys, v \in Values :
          Call(p, k, v) \/ Commit(p, k, v)
    \/ \E k \in Keys :
          \/ \E n \in 1 .. Len(pending[k]) : Deliver(k, n)
          \/ Finish(k)
          \/ Abandon(k)

Spec == Init /\ [][Next]_vars
=============================================================================
