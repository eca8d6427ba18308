--------------------------- MODULE DiscordGateway ---------------------------
(***************************************************************************)
(* ciel-discord: the gateway task, which turns the events of a Discord     *)
(* shard into values of a QueueMap, and the channel workers it spawns, one *)
(* per channel with waiting messages.  A worker takes a batch of messages, *)
(* loads the session of its channel, asks the model, posts what it streams *)
(* back, and puts the session.                                             *)
(*                                                                         *)
(* The queue is the promise of QueueMap (KeyedQueue, which QueueMap is     *)
(* proved to implement) and the session store is the promise that          *)
(* SessionStore is proved to keep: put is atomic and a load returns the    *)
(* branch last put.  The process may crash or exit at any moment and be    *)
(* started again; only what was put survives.                              *)
(***************************************************************************)
EXTENDS Naturals, Sequences, FiniteSets

CONSTANTS
    Channels,    \* the allowed channels
    Events,      \* messages users will send: the bound of a run
    Answers,     \* replies and tool entries of the model: another bound
    BatchLimit,  \* at most so many messages are taken at once (100)
    SliceAt,     \* a branch of this length or more is sliced (100)
    SliceFrom,   \* how many of its oldest entries go then (50)
    MaxTurns     \* the model calls tools in at most so many turns in a row

ASSUME EntriesAssumption == Events \cap Answers = {}
ASSUME LimitsAssumption ==
    /\ BatchLimit \in Nat \ {0}
    /\ SliceAt \in Nat /\ SliceFrom \in Nat /\ SliceFrom < SliceAt
    /\ MaxTurns \in Nat \ {0}

VARIABLES
    gateway,     \* the gateway task: "down", "running", "draining", "done"
    stop,        \* Discord::stop: "none", "waiting", "returned"
    request, owned, pending, handled, lost,   \* the QueueMap: KeyedQueue
    worker,      \* worker[k]: where the worker of channel k is, or "none"
    batch,       \* batch[k]: events received and not yet pushed
    branch,      \* branch[k]: the branch the worker holds
    again,       \* again[k]: should_continue
    turns,       \* turns[k]: turns taken for this batch
    stored,      \* stored[k]: the session in the store
    arrived,     \* history: arrived[k]: messages in the order of the shard
    said,        \* history: answers the model has given
    cut,         \* history: entries that slicing removed
    dropped      \* history: entries gone with a failed worker or process

queueVars == <<request, owned, pending, handled, lost>>
workerVars == <<worker, batch, branch, again, turns>>
vars == <<gateway, stop, queueVars, workerVars, stored, arrived, said, cut,
          dropped>>

Entries == Events \cup Answers

(* The gateway task is the only enqueuer.                                  *)
Gateway == "gateway"
KQ == INSTANCE KeyedQueue
        WITH Keys <- Channels, Producers <- {Gateway}, Values <- Events

RangeOf(s) == {s[i] : i \in DOMAIN s}

TypeOK ==
    /\ gateway \in {"down", "running", "draining", "done"}
    /\ stop \in {"none", "waiting", "returned"}
    /\ request \in [{Gateway} -> (Channels \X Events) \cup {<<>>}]
    /\ owned \in [Channels -> BOOLEAN]
    /\ pending \in [Channels -> Seq(Events)]
    /\ handled \in [Channels -> Seq(Events)]
    /\ lost \in SUBSET Events
    /\ worker \in [Channels ->
            {"none", "top", "recv", "load", "ask", "stream", "put"}]
    /\ batch \in [Channels -> Seq(Events)]
    /\ branch \in [Channels -> Seq(Entries)]
    /\ again \in [Channels -> BOOLEAN]
    /\ turns \in [Channels -> 0 .. MaxTurns]
    /\ stored \in [Channels -> Seq(Entries)]
    /\ arrived \in [Channels -> Seq(Events)]
    /\ said \in SUBSET Answers
    /\ cut \in SUBSET Entries
    /\ dropped \in SUBSET Entries

Init ==
    /\ gateway = "down"
    /\ stop = "none"
    /\ KQ!Init
    /\ worker = [k \in Channels |-> "none"]
    /\ batch = [k \in Channels |-> <<>>]
    /\ branch = [k \in Channels |-> <<>>]
    /\ again = [k \in Channels |-> FALSE]
    /\ turns = [k \in Channels |-> 0]
    /\ stored = [k \in Channels |-> <<>>]
    /\ arrived = [k \in Channels |-> <<>>]
    /\ said = {}
    /\ cut = {}
    /\ dropped = {}

Seen == UNION {RangeOf(arrived[k]) : k \in Channels}

-----------------------------------------------------------------------------
(* The gateway task and its two methods.                                   *)

(* Discord::start, in a new process.                                       *)
Start ==
    /\ gateway = "down"
    /\ gateway' = "running"
    /\ UNCHANGED <<stop, queueVars, workerVars, stored, arrived, said, cut,
                   dropped>>

(* The shard yields a message of an allowed channel; enqueue is called.    *)
NextEvent(k) ==
    /\ gateway = "running"
    /\ Seen # Events
    /\ LET e == CHOOSE e \in Events : e \notin Seen IN
        /\ KQ!Call(Gateway, k, e)
        /\ arrived' = [arrived EXCEPT ![k] = Append(@, e)]
    /\ UNCHANGED <<gateway, stop, workerVars, stored, said, cut, dropped>>

(* enqueue takes effect; if it returns a receiver, a worker is spawned.    *)
Enqueue(k, e) ==
    /\ gateway = "running"
    /\ KQ!Commit(Gateway, k, e)
    /\ worker' = [worker EXCEPT ![k] = IF owned[k] THEN @ ELSE "top"]
    /\ UNCHANGED <<gateway, stop, batch, branch, again, turns, stored, arrived,
                   said, cut, dropped>>

(* Discord::stop sends on the close channel and waits for the task.        *)
StopCall ==
    /\ gateway # "down"
    /\ stop = "none"
    /\ stop' = "waiting"
    /\ UNCHANGED <<gateway, queueVars, workerVars, stored, arrived, said, cut,
                   dropped>>

(* Leaving the loop, between two events.                                   *)
LeaveLoop ==
    /\ gateway = "running"
    /\ request[Gateway] = <<>>
    /\ gateway' = "draining"
    /\ UNCHANGED <<stop, queueVars, workerVars, stored, arrived, said, cut,
                   dropped>>

(* The close channel fired.                                                *)
CloseSeen == stop = "waiting" /\ LeaveLoop

(* The shard has no more events.                                           *)
ShardEnds == LeaveLoop

(* The close frame, or the end of the shard.                               *)
Drained ==
    /\ gateway = "draining"
    /\ gateway' = "done"
    /\ UNCHANGED <<stop, queueVars, workerVars, stored, arrived, said, cut,
                   dropped>>

(* Mutant of StopReturn: the close channel is sent on, and the task is not *)
(* joined.                                                                 *)
StopReturnAtOnce ==
    /\ stop = "waiting"
    /\ stop' = "returned"
    /\ UNCHANGED <<gateway, queueVars, workerVars, stored, arrived, said, cut,
                   dropped>>

(* The task has been joined.                                               *)
StopReturn ==
    /\ stop = "waiting"
    /\ gateway = "done"
    /\ stop' = "returned"
    /\ UNCHANGED <<gateway, queueVars, workerVars, stored, arrived, said, cut,
                   dropped>>

(* The process is gone, by main returning after stop or by a crash.  What  *)
(* waited in the queue, what a worker had received and what it had not put *)
(* is gone with it.                                                        *)
InMemory(k) ==
    (RangeOf(pending[k]) \cup RangeOf(batch[k]) \cup RangeOf(branch[k]))
        \ RangeOf(stored[k])

ProcessGone ==
    /\ gateway # "down"
    /\ gateway' = "down"
    /\ stop' = "none"
    /\ dropped' = dropped
            \cup (UNION {InMemory(k) : k \in Channels})
            \cup (IF request[Gateway] = <<>> THEN {} ELSE {request[Gateway][2]})
    /\ request' = [p \in {Gateway} |-> <<>>]
    /\ owned' = [k \in Channels |-> FALSE]
    /\ pending' = [k \in Channels |-> <<>>]
    /\ worker' = [k \in Channels |-> "none"]
    /\ batch' = [k \in Channels |-> <<>>]
    /\ branch' = [k \in Channels |-> <<>>]
    /\ again' = [k \in Channels |-> FALSE]
    /\ turns' = [k \in Channels |-> 0]
    /\ UNCHANGED <<handled, lost, stored, arrived, said, cut>>

-----------------------------------------------------------------------------
(* The worker of channel k.                                                *)

Goto(k, place) == worker' = [worker EXCEPT ![k] = place]

(* Mutant of Finish: the loop is left without giving the key back.         *)
FinishLeaking(k) ==
    /\ worker[k] = "top"
    /\ pending[k] = <<>>
    /\ Goto(k, "none")
    /\ UNCHANGED <<gateway, stop, queueVars, batch, branch, again, turns, stored,
                   arrived, said, cut, dropped>>

(* try_finish succeeds: the worker is done.                                *)
Finish(k) ==
    /\ worker[k] = "top"
    /\ KQ!Finish(k)
    /\ Goto(k, "none")
    /\ UNCHANGED <<gateway, stop, batch, branch, again, turns, stored, arrived,
                   said, cut, dropped>>

(* try_finish fails: there are values.                                     *)
Continue(k) ==
    /\ worker[k] = "top"
    /\ pending[k] # <<>>
    /\ Goto(k, "recv")
    /\ UNCHANGED <<gateway, stop, queueVars, batch, branch, again, turns, stored,
                   arrived, said, cut, dropped>>

(* recv_many appends to events.                                            *)
Receive(k) ==
    LET waiting == Len(pending[k])
        n == IF waiting < BatchLimit THEN waiting ELSE BatchLimit IN
    /\ worker[k] = "recv"
    /\ waiting > 0
    /\ KQ!Deliver(k, n)
    /\ batch' = [batch EXCEPT ![k] = @ \o SubSeq(pending[k], 1, n)]
    /\ Goto(k, "load")
    /\ UNCHANGED <<gateway, stop, branch, again, turns, stored, arrived, said,
                   cut, dropped>>

(* How many of the oldest entries of a branch go.                          *)
CutLength(b) == IF Len(b) >= SliceAt THEN SliceFrom ELSE 0

(* Mutant of LoadWith: the batch is pushed and kept for the next time.     *)
LoadKeepingBatch(k, history) ==
    LET whole == history \o batch[k]
        n == CutLength(whole) IN
    /\ worker[k] = "load"
    /\ branch' = [branch EXCEPT ![k] = SubSeq(whole, n + 1, Len(whole))]
    /\ cut' = cut \cup RangeOf(SubSeq(whole, 1, n))
    /\ again' = [again EXCEPT ![k] = TRUE]
    /\ turns' = [turns EXCEPT ![k] = 0]
    /\ Goto(k, "ask")
    /\ UNCHANGED <<gateway, stop, queueVars, batch, stored, arrived, said,
                   dropped>>

(* by_session_id returns; the batch is pushed and the branch sliced.       *)
LoadWith(k, history) ==
    LET whole == history \o batch[k]
        n == CutLength(whole) IN
    /\ worker[k] = "load"
    /\ branch' = [branch EXCEPT ![k] = SubSeq(whole, n + 1, Len(whole))]
    /\ batch' = [batch EXCEPT ![k] = <<>>]
    /\ cut' = cut \cup RangeOf(SubSeq(whole, 1, n))
    /\ again' = [again EXCEPT ![k] = TRUE]
    /\ turns' = [turns EXCEPT ![k] = 0]
    /\ Goto(k, "ask")
    /\ UNCHANGED <<gateway, stop, queueVars, stored, arrived, said, dropped>>

(* Mutant of Load: a read that fails is taken for "no session yet".        *)
LoadSwallowing(k) == LoadWith(k, stored[k]) \/ LoadWith(k, <<>>)

Load(k) == LoadWith(k, stored[k])

(* A turn: chat.ready and chat.call return a stream.                       *)
Ask(k) ==
    /\ worker[k] = "ask"
    /\ again' = [again EXCEPT ![k] = FALSE]
    /\ turns' = [turns EXCEPT ![k] = @ + 1]
    /\ Goto(k, "stream")
    /\ UNCHANGED <<gateway, stop, queueVars, batch, branch, stored, arrived, said,
                   cut, dropped>>

(* The stream yields a whole message, which is posted and then pushed, or  *)
(* a tool call, which is pushed and asks for another turn.                 *)
Answer(k, tool) ==
    /\ worker[k] = "stream"
    /\ said # Answers
    /\ tool => turns[k] < MaxTurns
    /\ LET a == CHOOSE a \in Answers : a \notin said IN
        /\ said' = said \cup {a}
        /\ branch' = [branch EXCEPT ![k] = Append(@, a)]
    /\ again' = [again EXCEPT ![k] = @ \/ tool]
    /\ UNCHANGED <<gateway, stop, queueVars, worker, batch, turns, stored, arrived,
                   cut, dropped>>

(* The stream ends.                                                        *)
EndStream(k) ==
    /\ worker[k] = "stream"
    /\ Goto(k, "put")
    /\ UNCHANGED <<gateway, stop, queueVars, batch, branch, again, turns, stored,
                   arrived, said, cut, dropped>>

(* Mutant of Put: the session is put only when there is another turn.      *)
PutBetweenTurns(k) ==
    /\ worker[k] = "put"
    /\ stored' = IF again[k] THEN [stored EXCEPT ![k] = branch[k]] ELSE stored
    /\ branch' = IF again[k] THEN branch ELSE [branch EXCEPT ![k] = <<>>]
    /\ Goto(k, IF again[k] THEN "ask" ELSE "top")
    /\ UNCHANGED <<gateway, stop, queueVars, batch, again, turns, arrived, said,
                   cut, dropped>>

(* put commits.  After the last turn the worker goes back to try_finish    *)
(* and its branch goes out of scope.                                       *)
Put(k) ==
    /\ worker[k] = "put"
    /\ stored' = [stored EXCEPT ![k] = branch[k]]
    /\ branch' = IF again[k] THEN branch ELSE [branch EXCEPT ![k] = <<>>]
    /\ Goto(k, IF again[k] THEN "ask" ELSE "top")
    /\ UNCHANGED <<gateway, stop, queueVars, batch, again, turns, arrived, said,
                   cut, dropped>>

(* The worker returns an error.  The receiver is dropped, and with it      *)
(* whatever waited in the queue.                                           *)
Abort(k, posted) ==
    /\ KQ!Abandon(k)
    /\ said' = said \cup posted
    /\ dropped' = dropped \cup InMemory(k) \cup posted
    /\ batch' = [batch EXCEPT ![k] = <<>>]
    /\ branch' = [branch EXCEPT ![k] = <<>>]
    /\ again' = [again EXCEPT ![k] = FALSE]
    /\ turns' = [turns EXCEPT ![k] = 0]
    /\ Goto(k, "none")
    /\ UNCHANGED <<gateway, stop, stored, arrived, cut>>

(* Any `?' of the worker: the store, the provider, its stream, Discord.    *)
Fail(k) == worker[k] \in {"load", "ask", "stream", "put"} /\ Abort(k, {})

(* Posting a message fails after it, or its first part, was posted.        *)
FailPosted(k) ==
    /\ worker[k] = "stream"
    /\ said # Answers
    /\ Abort(k, {CHOOSE a \in Answers : a \notin said})

WorkerStep(k) ==
    \/ Finish(k) \/ Continue(k) \/ Receive(k) \/ Load(k) \/ Ask(k)
    \/ EndStream(k) \/ Put(k)

Next ==
    \/ Start \/ StopCall \/ CloseSeen \/ ShardEnds \/ Drained \/ StopReturn
    \/ ProcessGone
    \/ \E k \in Channels :
        \/ NextEvent(k)
        \/ \E e \in Events : Enqueue(k, e)
        \/ WorkerStep(k)
        \/ Answer(k, FALSE) \/ Answer(k, TRUE)
        \/ Fail(k) \/ FailPosted(k)

Spec == Init /\ [][Next]_vars

(* The runtime polls every task that is ready.  EndStream: the provider    *)
(* ends its stream.  No fairness of starts, events, stop, failures or      *)
(* crashes: Discord need not answer the close frame.                       *)
FairSpec ==
    /\ Spec
    /\ \A k \in Channels :
        /\ WF_vars(\E e \in Events : Enqueue(k, e))
        /\ WF_vars(WorkerStep(k))

-----------------------------------------------------------------------------
(* Properties.                                                             *)

(* Where an entry can be: on its way to a session, in it, cut from it by   *)
(* slicing, or gone with a failed worker or process.                       *)
InFlight(x) ==
    \/ request[Gateway] # <<>> /\ request[Gateway][2] = x
    \/ \E k \in Channels :
        x \in RangeOf(pending[k]) \cup RangeOf(batch[k]) \cup RangeOf(branch[k])
Stored(x) == \E k \in Channels : x \in RangeOf(stored[k])
Settled(x) == Stored(x) \/ x \in cut \cup dropped

(* worker.rs:37-355: no message of a user and nothing the model said goes  *)
(* missing without a failure: it is on its way, stored, or sliced away.    *)
(* And what a failure dropped is not in a session, so that nobody who      *)
(* resends it makes a duplicate.                                           *)
Accounted ==
    \A x \in Seen \cup said :
        /\ InFlight(x) \/ Settled(x)
        /\ x \in dropped => ~Stored(x)

(* lib.rs:139, worker.rs:56-103: whatever batches, workers, failures and   *)
(* restarts a channel went through, the messages in its session are in the *)
(* order in which the shard yielded them, each at most once.               *)
Before(k, e, f) ==
    \A p, q \in DOMAIN arrived[k] :
        arrived[k][p] = e /\ arrived[k][q] = f => p < q
StoredInOrder ==
    \A k \in Channels :
        LET heard == {i \in DOMAIN stored[k] : stored[k][i] \in Events} IN
        /\ {stored[k][i] : i \in heard} \subseteq RangeOf(arrived[k])
        /\ \A i, j \in heard : i < j => Before(k, stored[k][i], stored[k][j])

(* b continues a: what is left of a after cutting some of its oldest       *)
(* entries is the beginning of b.                                          *)
Continues(b, a) ==
    \E n \in 0 .. Len(a) :
        LET kept == SubSeq(a, n + 1, Len(a)) IN
        /\ Len(kept) <= Len(b)
        /\ SubSeq(b, 1, Len(kept)) = kept
        /\ RangeOf(SubSeq(a, 1, n)) \subseteq cut

(* worker.rs:61-65, 349-351: a session is read, extended and written back  *)
(* with many awaits in between, yet a put never discards what an earlier   *)
(* one stored, except by slicing.                                          *)
NoLostUpdate == [][\A k \in Channels : Continues(stored'[k], stored[k])]_vars

(* worker.rs:45-54: every message of an allowed channel ends up in its     *)
(* session, or a failure is the reason that it does not: no message waits  *)
(* for a worker that nobody spawned.                                       *)
EventsSettle == \A e \in Events : e \in Seen ~> Settled(e)

(* lib.rs:139-158, 179-185: once stop has returned, no message is taken    *)
(* from the shard and no worker starts, and every message that was taken   *)
(* before is settled or in the hands of a worker: none is left between the *)
(* gateway task and the queue.                                             *)
InHands(k) == RangeOf(pending[k]) \cup RangeOf(batch[k]) \cup RangeOf(branch[k])
StopSeals ==
    [][stop = "returned" =>
        /\ arrived' = arrived
        /\ \A k \in Channels : worker[k] = "none" => worker'[k] = "none"
        /\ \A e \in Seen :
            \/ Settled(e)
            \/ \E k \in Channels : worker[k] # "none" /\ e \in InHands(k)]_vars

(* gateway.rs:25, "Should not return until the shutdown process has        *)
(* completed": no worker is still at work once stop has returned.          *)
StopWaits == stop = "returned" => \A k \in Channels : worker[k] = "none"
=============================================================================
