------------------------------ MODULE QueueMap ------------------------------
(***************************************************************************)
(* ciel-util/src/queue_map.rs: a DashMap from keys to the sending halves   *)
(* of unbounded channels.  A step is one operation on the map, which holds *)
(* the lock of the key's shard, or one operation on a receiver, which      *)
(* holds no lock.  In particular close() in the destructor of a receiver   *)
(* runs under no lock, so an enqueue can meet a channel that is in the map *)
(* and already closed.                                                     *)
(***************************************************************************)
EXTENDS Naturals, Sequences

CONSTANTS
    Keys,        \* keys of the map
    Producers,   \* threads that call enqueue
    Values,      \* values to enqueue, each at most once: the bound of a run
    Chans,       \* channels that may exist at one time: the other bound
    NoChan,      \* "the map has no entry", not a channel
    NoKey,       \* "the channel serves no key", not a key
    RecvLimit    \* the limit passed to recv_many (100 in ciel-discord)

ASSUME NoChanAssumption == NoChan \notin Chans
ASSUME NoKeyAssumption == NoKey \notin Keys
ASSUME RecvLimitAssumption == RecvLimit \in Nat \ {0}

VARIABLES
    map,         \* map[k]: the channel whose sender is in the map, or NoChan
    queue,       \* queue[c]: values sent on c and not yet received
    rcv,         \* rcv[c]: life cycle of the QueueMapReceiver of c
    chanKey,     \* chanKey[c]: the key field of that receiver
    pc,          \* pc[p]: where p is in enqueue
    request,     \* request[p]: the <<key, value>> p is enqueueing, or <<>>
    offered,     \* history: values passed to enqueue so far
    handled,     \* history: values received for each key, in order
    lost         \* history: values dropped with their receiver

vars == <<map, queue, rcv, chanKey, pc, request, offered, handled, lost>>

(* "free": not allocated; "live": a client holds the receiver;             *)
(* "finishing": try_finish took it out of the map and has not closed it;   *)
(* "closed": its destructor closed it and has not looked at the map.       *)
RcvStates == {"free", "live", "finishing", "closed"}

(* fast: read lock and send; slow: entry and send under the write lock;    *)
(* the purges: remove_if after a send met a closed channel.                *)
EnqueueStates == {"idle", "fast", "fastPurge", "slow", "slowPurge"}

RangeOf(s) == {s[i] : i \in DOMAIN s}

TypeOK ==
    /\ map \in [Keys -> Chans \cup {NoChan}]
    /\ queue \in [Chans -> Seq(Values)]
    /\ rcv \in [Chans -> RcvStates]
    /\ chanKey \in [Chans -> Keys \cup {NoKey}]
    /\ pc \in [Producers -> EnqueueStates]
    /\ request \in [Producers -> (Keys \X Values) \cup {<<>>}]
    /\ offered \in SUBSET Values
    /\ handled \in [Keys -> Seq(Values)]
    /\ lost \in SUBSET Values

Init ==
    /\ map = [k \in Keys |-> NoChan]
    /\ queue = [c \in Chans |-> <<>>]
    /\ rcv = [c \in Chans |-> "free"]
    /\ chanKey = [c \in Chans |-> NoKey]
    /\ pc = [p \in Producers |-> "idle"]
    /\ request = [p \in Producers |-> <<>>]
    /\ offered = {}
    /\ handled = [k \in Keys |-> <<>>]
    /\ lost = {}

-----------------------------------------------------------------------------
(* Sender::is_closed of the channel in the map.                            *)
Closed(c) == rcv[c] = "closed"

(* Mutant of RemoveIfClosed: the predicate is never true.                  *)
RemoveNever(k) == map

(* map.remove_if(key, |_, v| v.is_closed()), at its three call sites.      *)
RemoveIfClosed(k) ==
    IF map[k] # NoChan /\ Closed(map[k])
    THEN [map EXCEPT ![k] = NoChan]
    ELSE map

(* Mutant of MayFinish: it does not look at the receiver.                  *)
MayFinishWithValues(c, k) == map[k] # NoChan

(* The condition under which try_finish removes key k: the entry exists    *)
(* and the receiver c that asks is empty.                                  *)
MayFinish(c, k) == map[k] # NoChan /\ queue[c] = <<>>

(* How many values recv_many takes from a queue.                           *)
BatchSize(q) == IF Len(q) < RecvLimit THEN Len(q) ELSE RecvLimit

-----------------------------------------------------------------------------
(* enqueue: one loop of a producer.                                        *)

Call(p, k, v) ==
    /\ pc[p] = "idle"
    /\ v \notin offered
    /\ offered' = offered \cup {v}
    /\ pc' = [pc EXCEPT ![p] = "fast"]
    /\ request' = [request EXCEPT ![p] = <<k, v>>]
    /\ UNCHANGED <<map, queue, rcv, chanKey, handled, lost>>

(* The entry is there and its channel open: send, and return None.         *)
SendOpen(p) ==
    LET k == request[p][1]  v == request[p][2]  c == map[k] IN
    /\ pc[p] \in {"fast", "slow"}
    /\ c # NoChan
    /\ ~Closed(c)
    /\ queue' = [queue EXCEPT ![c] = Append(@, v)]
    /\ pc' = [pc EXCEPT ![p] = "idle"]
    /\ request' = [request EXCEPT ![p] = <<>>]
    /\ UNCHANGED <<map, rcv, chanKey, offered, handled, lost>>

(* Mutant of SendClosed: the value send gave back is not kept.             *)
SendClosedLosing(p) ==
    LET c == map[request[p][1]] IN
    /\ pc[p] \in {"fast", "slow"}
    /\ c # NoChan
    /\ Closed(c)
    /\ pc' = [pc EXCEPT ![p] = "idle"]
    /\ request' = [request EXCEPT ![p] = <<>>]
    /\ UNCHANGED <<map, queue, rcv, chanKey, offered, handled, lost>>

(* The entry is there but its receiver is being dropped: send gives the    *)
(* value back.  The lock is released before the purge.                     *)
SendClosed(p) ==
    LET c == map[request[p][1]] IN
    /\ pc[p] \in {"fast", "slow"}
    /\ c # NoChan
    /\ Closed(c)
    /\ pc' = [pc EXCEPT ![p] = IF @ = "fast" THEN "fastPurge" ELSE "slowPurge"]
    /\ UNCHANGED <<map, queue, rcv, chanKey, request, offered, handled, lost>>

(* Remove the entry unless an open channel took its place meanwhile; the   *)
(* first attempt goes on to the second, the second back to the first.      *)
Purge(p) ==
    /\ pc[p] \in {"fastPurge", "slowPurge"}
    /\ map' = RemoveIfClosed(request[p][1])
    /\ pc' = [pc EXCEPT ![p] = IF @ = "fastPurge" THEN "slow" ELSE "fast"]
    /\ UNCHANGED <<queue, rcv, chanKey, request, offered, handled, lost>>

(* No entry under the read lock.                                           *)
Miss(p) ==
    /\ pc[p] = "fast"
    /\ map[request[p][1]] = NoChan
    /\ pc' = [pc EXCEPT ![p] = "slow"]
    /\ UNCHANGED <<map, queue, rcv, chanKey, request, offered, handled, lost>>

(* Mutant of Create: insert instead of entry().or_insert_with().           *)
CreateOverExisting(p) ==
    LET k == request[p][1]  v == request[p][2] IN
    /\ pc[p] = "slow"
    /\ \E c \in Chans :
        /\ rcv[c] = "free"
        /\ map' = [map EXCEPT ![k] = c]
        /\ queue' = [queue EXCEPT ![c] = <<v>>]
        /\ rcv' = [rcv EXCEPT ![c] = "live"]
        /\ chanKey' = [chanKey EXCEPT ![c] = k]
    /\ pc' = [pc EXCEPT ![p] = "idle"]
    /\ request' = [request EXCEPT ![p] = <<>>]
    /\ UNCHANGED <<offered, handled, lost>>

(* No entry under the write lock: create the channel, send the value and   *)
(* return the receiver.                                                    *)
Create(p) ==
    LET k == request[p][1]  v == request[p][2] IN
    /\ pc[p] = "slow"
    /\ map[k] = NoChan
    /\ \E c \in Chans :
        /\ rcv[c] = "free"
        /\ map' = [map EXCEPT ![k] = c]
        /\ queue' = [queue EXCEPT ![c] = <<v>>]
        /\ rcv' = [rcv EXCEPT ![c] = "live"]
        /\ chanKey' = [chanKey EXCEPT ![c] = k]
    /\ pc' = [pc EXCEPT ![p] = "idle"]
    /\ request' = [request EXCEPT ![p] = <<>>]
    /\ UNCHANGED <<offered, handled, lost>>

EnqueueStep(p) ==
    SendOpen(p) \/ SendClosed(p) \/ Purge(p) \/ Miss(p) \/ Create(p)

-----------------------------------------------------------------------------
(* The receiver.                                                           *)

(* Mutant of Take: the last value taken stays in the queue.                *)
TakeKeepingLast(c, n) ==
    /\ rcv[c] = "live"
    /\ queue[c] # <<>>
    /\ handled' = [handled EXCEPT ![chanKey[c]] = @ \o SubSeq(queue[c], 1, n)]
    /\ queue' = [queue EXCEPT ![c] = SubSeq(@, n, Len(@))]
    /\ UNCHANGED <<map, rcv, chanKey, pc, request, offered, lost>>

Take(c, n) ==
    /\ rcv[c] = "live"
    /\ queue[c] # <<>>
    /\ handled' = [handled EXCEPT ![chanKey[c]] = @ \o SubSeq(queue[c], 1, n)]
    /\ queue' = [queue EXCEPT ![c] = SubSeq(@, n + 1, Len(@))]
    /\ UNCHANGED <<map, rcv, chanKey, pc, request, offered, lost>>

(* recv and recv_many; both wait while the queue is empty.                 *)
Recv(c) == Take(c, 1)
RecvMany(c) == Take(c, BatchSize(queue[c]))

(* try_finish, first half: remove_if on the map.  When it finds values it  *)
(* hands the receiver back, which changes nothing.                         *)
TryFinish(c) ==
    /\ rcv[c] = "live"
    /\ MayFinish(c, chanKey[c])
    /\ map' = [map EXCEPT ![chanKey[c]] = NoChan]
    /\ rcv' = [rcv EXCEPT ![c] = "finishing"]
    /\ UNCHANGED <<queue, chanKey, pc, request, offered, handled, lost>>

(* The channel is deallocated, and with it what is in it.                  *)
Release(c) ==
    /\ rcv' = [rcv EXCEPT ![c] = "free"]
    /\ chanKey' = [chanKey EXCEPT ![c] = NoKey]
    /\ queue' = [queue EXCEPT ![c] = <<>>]

(* try_finish, second half: close, and drop with finished set.             *)
FinishClose(c) ==
    /\ rcv[c] = "finishing"
    /\ Release(c)
    /\ UNCHANGED <<map, pc, request, offered, handled, lost>>

(* Drop of an unfinished receiver, first half: close, under no lock.  What *)
(* waits in the channel can no longer be received.                         *)
DropClose(c) ==
    /\ rcv[c] = "live"
    /\ rcv' = [rcv EXCEPT ![c] = "closed"]
    /\ lost' = lost \cup RangeOf(queue[c])
    /\ UNCHANGED <<map, queue, chanKey, pc, request, offered, handled>>

(* Mutant of DropRemove: remove instead of remove_if.                      *)
DropRemoveAlways(c) ==
    /\ rcv[c] = "closed"
    /\ map' = [map EXCEPT ![chanKey[c]] = NoChan]
    /\ Release(c)
    /\ UNCHANGED <<pc, request, offered, handled, lost>>

(* Mutant of DropRemove: the entry is left to the purge of an enqueuer.    *)
DropRemoveLeaving(c) ==
    /\ rcv[c] = "closed"
    /\ Release(c)
    /\ UNCHANGED <<map, pc, request, offered, handled, lost>>

(* Drop, second half: remove_if on the map, and the channel is gone.       *)
DropRemove(c) ==
    /\ rcv[c] = "closed"
    /\ map' = RemoveIfClosed(chanKey[c])
    /\ Release(c)
    /\ UNCHANGED <<pc, request, offered, handled, lost>>

ReceiverStep(c) ==
    \/ Recv(c) \/ RecvMany(c)
    \/ TryFinish(c) \/ FinishClose(c)
    \/ DropClose(c) \/ DropRemove(c)

Next ==
    \/ \E p \in Producers, k \in Keys, v \in Values : Call(p, k, v)
    \/ \E p \in Producers : EnqueueStep(p)
    \/ \E c \in Chans : ReceiverStep(c)

Spec == Init /\ [][Next]_vars

(* enqueue is a plain function on a running thread: it keeps taking steps. *)
(* Nothing is assumed of receivers, nor of a destructor between its two    *)
(* steps.                                                                  *)
FairSpec == Spec /\ \A p \in Producers : WF_vars(EnqueueStep(p))

-----------------------------------------------------------------------------
(* What the rest of the program relies on.                                 *)

(* queue_map.rs:9: at most one receiver serves a key.  ciel-discord relies *)
(* on it: the worker of a channel loads, extends and stores a session as   *)
(* if it were alone (worker.rs:61-63, 349-351).                            *)
SingleReceiver ==
    \A c, d \in Chans :
        /\ rcv[c] = "live"
        /\ rcv[d] = "live"
        /\ chanKey[c] = chanKey[d]
        => c = d

(* queue_map.rs:183, expect("channel can only be closed on drop"): the     *)
(* sender of a receiver in use is in the map under its key, whatever       *)
(* destructors of earlier receivers of that key and purges by enqueuers    *)
(* did in between; so recv never sees a channel without senders.           *)
LiveReceiverMapped ==
    \A c \in Chans : rcv[c] = "live" => map[chanKey[c]] = c

(* queue_map.rs:199-209: no entry outlives its receiver, so that the map   *)
(* never holds more than the keys that are served, however many keys there *)
(* were; every entry leads to a receiver of its own key that is in use or  *)
(* in its destructor, whichever purge and destructor ran before.           *)
NoEntryLeaks ==
    \A k \in Keys : map[k] # NoChan =>
        rcv[map[k]] \in {"live", "closed"} /\ chanKey[map[k]] = k

(* queue_map.rs:158-161, the race that "should never be able to occur":    *)
(* between the removal from the map and close() nothing was sent to the    *)
(* receiver that is finishing.                                             *)
FinishedEmpty ==
    \A c \in Chans : rcv[c] = "finishing" => queue[c] = <<>>

(* Where a value can be: with its producer, in the queue of a receiver in  *)
(* use, received, or dropped with its receiver.                            *)
Enqueueing(v) == \E p \in Producers : request[p] # <<>> /\ request[p][2] = v
Waiting(v) == \E c \in Chans : rcv[c] = "live" /\ v \in RangeOf(queue[c])
Received(v) == \E k \in Keys : v \in RangeOf(handled[k])

(* queue_map.rs:32, 64-66: no value that was passed to enqueue is ever out *)
(* of sight, in particular not in a channel whose receiver finished while  *)
(* an enqueuer held its sender.                                            *)
Accounted ==
    \A v \in offered :
        Enqueueing(v) \/ Waiting(v) \/ Received(v) \/ v \in lost

-----------------------------------------------------------------------------
(* The promise of KeyedQueue, kept by this implementation.  A key is owned *)
(* while the map leads to a live receiver, and its pending values are the  *)
(* ones in that channel.                                                   *)
LiveAt(k) == map[k] # NoChan /\ rcv[map[k]] = "live"
ownedBar == [k \in Keys |-> LiveAt(k)]
pendingBar == [k \in Keys |-> IF LiveAt(k) THEN queue[map[k]] ELSE <<>>]

KQ == INSTANCE KeyedQueue WITH owned <- ownedBar, pending <- pendingBar

(* queue_map.rs:9-11, 111-124: an enqueue takes effect in one step, values *)
(* of a key are received in the order in which they were enqueued, across  *)
(* receivers, and only a dropped receiver loses any.                       *)
Implements == KQ!Spec

(* enqueue returns, even when destructors of receivers stop half way: the  *)
(* enqueuer purges the closed channel itself (queue_map.rs:48, 83).        *)
EnqueueReturns ==
    \A p \in Producers : request[p] # <<>> ~> request[p] = <<>>

-----------------------------------------------------------------------------
(* The inductive invariant behind the safety properties.                   *)

(* A channel not in use is empty, has no key and is not in the map.        *)
FreeInv ==
    \A c \in Chans :
        rcv[c] = "free" => queue[c] = <<>> /\ chanKey[c] = NoKey
(* An allocated channel has a key.                                         *)
KeyInv == \A c \in Chans : rcv[c] # "free" => chanKey[c] \in Keys
(* A producer has a request exactly while it is inside enqueue.            *)
RequestInv == \A p \in Producers : (pc[p] = "idle") <=> (request[p] = <<>>)

IInv ==
    /\ FreeInv
    /\ KeyInv
    /\ NoEntryLeaks
    /\ RequestInv
    /\ LiveReceiverMapped
    /\ FinishedEmpty
    /\ Accounted
=============================================================================
