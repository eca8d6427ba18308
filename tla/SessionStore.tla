---------------------------- MODULE SessionStore ----------------------------
(***************************************************************************)
(* ciel-core/src/session: branches of messages kept as a tree in a         *)
(* transactional key-value store.  Every message has a container with a    *)
(* link to its parent; the newest message of a stored branch also says at  *)
(* which message the branch begins.  put walks a branch from its newest    *)
(* message and stops at the first one that is stored already; a load walks *)
(* parents in a snapshot.                                                  *)
(*                                                                         *)
(* Each session has one client, as QueueMap guarantees for the channels of *)
(* ciel-discord.  A client loads the branch of its session, appends        *)
(* messages to it, slices it when it has grown long, and puts it, any      *)
(* number of times.  Clients of different sessions interleave, and a load  *)
(* interleaves with the puts of others message by message.                 *)
(***************************************************************************)
EXTENDS Naturals, Sequences, FiniteSets

CONSTANTS
    Sessions,    \* session identifiers, each with its client
    Messages,    \* identifiers of messages, each created once: the bound
    NullId,      \* the nil uuid: the identifier of an empty branch
    SliceAt,     \* a branch of this length or more is sliced (100)
    SliceFrom    \* how many of its oldest messages go then (50)

ASSUME NullIdAssumption == NullId \notin Messages
ASSUME SliceAssumption ==
    SliceAt \in Nat /\ SliceFrom \in Nat /\ 0 < SliceFrom /\ SliceFrom < SliceAt

VARIABLES
    messages,    \* table sessions/messages: containers of the stored messages
    sessionMap,  \* table sessions/id-mapping; NullId: no entry, or the nil id
    pc,          \* pc[s]: what the client of s is doing
    branch,      \* branch[s]: its branch; while it walks, what it has read
    snapshot,    \* snapshot[s]: the messages table as it was at the load
    next,        \* next[s]: next_member_id of the walk
    head,        \* head[s]: session_head of the walk
    created,     \* history: messages created so far
    before,      \* history: the message each one was appended to
    stored       \* history: stored[s]: the branch last put under s

vars == <<messages, sessionMap, pc, branch, snapshot, next, head,
          created, before, stored>>

MaybeId == Messages \cup {NullId}
Container == [parent : MaybeId, head : MaybeId]
IsTable(t) == DOMAIN t \subseteq Messages /\ t \in [DOMAIN t -> Container]

TypeOK ==
    /\ IsTable(messages)
    /\ sessionMap \in [Sessions -> MaybeId]
    /\ pc \in [Sessions -> {"idle", "walking", "holding", "failed"}]
    /\ branch \in [Sessions -> Seq(Messages)]
    /\ DOMAIN snapshot = Sessions
    /\ \A s \in Sessions : IsTable(snapshot[s])
    /\ next \in [Sessions -> MaybeId]
    /\ head \in [Sessions -> MaybeId]
    /\ created \in SUBSET Messages
    /\ before \in [Messages -> MaybeId]
    /\ stored \in [Sessions -> Seq(Messages)]

EmptyTable == [m \in {} |-> NullId]

Init ==
    /\ messages = EmptyTable
    /\ sessionMap = [s \in Sessions |-> NullId]
    /\ pc = [s \in Sessions |-> "idle"]
    /\ branch = [s \in Sessions |-> <<>>]
    /\ snapshot = [s \in Sessions |-> EmptyTable]
    /\ next = [s \in Sessions |-> NullId]
    /\ head = [s \in Sessions |-> NullId]
    /\ created = {}
    /\ before = [m \in Messages |-> NullId]
    /\ stored = [s \in Sessions |-> <<>>]

-----------------------------------------------------------------------------
(* Branch::id, the identifier of the newest message.                       *)

IdOf(b) == IF b = <<>> THEN NullId ELSE b[Len(b)]

(* Mutant of Parent: the neighbour on the other side.                      *)
ParentNewer(b, i) == b[IF i = Len(b) THEN i ELSE i + 1]

(* entries.get(idx.saturating_sub(1)): the oldest is its own parent.       *)
Parent(b, i) == b[IF i = 1 THEN 1 ELSE i - 1]

(* What put writes for entry i: session_head.take() gives the newest the   *)
(* identifier of the oldest, and every other one nothing.                  *)
ContainerOf(b, i) ==
    [parent |-> Parent(b, i), head |-> IF i = Len(b) THEN b[1] ELSE NullId]

(* Mutant of Rewritten: stop before the stored entry, not after it.        *)
RewrittenNew(b) ==
    {i \in DOMAIN b :
        \A j \in DOMAIN b : j >= i => b[j] \notin DOMAIN messages}

(* Mutant of Rewritten: the test of previous_value is the wrong way round. *)
RewrittenNewest(b) ==
    {i \in DOMAIN b : \A j \in DOMAIN b : j > i => b[j] \in DOMAIN messages}

(* The entries put writes, from the newest down to the first one that was  *)
(* stored before, which it still overwrites.                               *)
Rewritten(b) ==
    {i \in DOMAIN b :
        \A j \in DOMAIN b : j > i => b[j] \notin DOMAIN messages}

(* The messages table once the transaction of put has committed.           *)
TableAfterPut(b) ==
    [m \in DOMAIN messages \cup {b[i] : i \in Rewritten(b)} |->
        IF \E i \in Rewritten(b) : b[i] = m
        THEN ContainerOf(b, CHOOSE i \in Rewritten(b) : b[i] = m)
        ELSE messages[m]]

-----------------------------------------------------------------------------
(* A client, and the store operations it calls.                            *)

(* branch_from_snapshot(read_tx, id), up to its loop.                      *)
StartWalk(s, id) ==
    /\ pc' = [pc EXCEPT ![s] = "walking"]
    /\ branch' = [branch EXCEPT ![s] = <<>>]
    /\ snapshot' = [snapshot EXCEPT ![s] = messages]
    /\ next' = [next EXCEPT ![s] = id]
    /\ head' = [head EXCEPT ![s] = NullId]
    /\ UNCHANGED <<messages, sessionMap, created, before, stored>>

(* by_session_id.                                                          *)
Load(s) ==
    /\ pc[s] = "idle"
    /\ StartWalk(s, sessionMap[s])

(* by_branch_id, for a message that is stored.                             *)
LoadBranch(s, m) ==
    /\ pc[s] = "idle"
    /\ m \in DOMAIN messages
    /\ StartWalk(s, m)

(* The loop finds no message: no such session if it is the first one (the  *)
(* client starts with an empty branch), else "incomplete session tree".    *)
WalkMissing(s) ==
    /\ pc[s] = "walking"
    /\ next[s] \notin DOMAIN snapshot[s]
    /\ pc' = [pc EXCEPT ![s] = IF branch[s] = <<>> THEN "holding" ELSE "failed"]
    /\ UNCHANGED <<messages, sessionMap, branch, snapshot, next, head,
                   created, before, stored>>

(* The walk keeps the first session head it meets.                         *)
FirstHead(s) ==
    IF head[s] = NullId THEN snapshot[s][next[s]].head ELSE head[s]

(* Mutant of AtEnd: only a message without a parent ends the walk.         *)
AtRoot(s) == snapshot[s][next[s]].parent = NullId

(* The walk is over at the message the session begins with, or at one      *)
(* without a parent.                                                       *)
AtEnd(s) ==
    \/ FirstHead(s) = next[s]
    \/ snapshot[s][next[s]].parent = NullId

(* The loop finds a message.  The bound of a run on the length of a walk:  *)
(* a walk with more entries than there are messages goes round in circles. *)
WalkMessage(s) ==
    /\ pc[s] = "walking"
    /\ next[s] \in DOMAIN snapshot[s]
    /\ Len(branch[s]) <= Cardinality(DOMAIN snapshot[s])
    /\ branch' = [branch EXCEPT ![s] = <<next[s]>> \o @]
    /\ head' = [head EXCEPT ![s] = FirstHead(s)]
    /\ IF AtEnd(s)
       THEN pc' = [pc EXCEPT ![s] = "holding"] /\ UNCHANGED next
       ELSE next' = [next EXCEPT ![s] = snapshot[s][next[s]].parent]
            /\ UNCHANGED pc
    /\ UNCHANGED <<messages, sessionMap, snapshot, created, before, stored>>

(* A new message, from the user, the model or a tool.                      *)
Push(s) ==
    /\ pc[s] = "holding"
    /\ created # Messages
    /\ LET m == CHOOSE m \in Messages : m \notin created IN
        /\ created' = created \cup {m}
        /\ before' = [before EXCEPT ![m] = IdOf(branch[s])]
        /\ branch' = [branch EXCEPT ![s] = Append(@, m)]
    /\ UNCHANGED <<messages, sessionMap, pc, snapshot, next, head, stored>>

(* A branch that has grown long loses its oldest messages.                 *)
Slice(s) ==
    /\ pc[s] = "holding"
    /\ Len(branch[s]) >= SliceAt
    /\ branch' = [branch EXCEPT ![s] = SubSeq(@, SliceFrom + 1, Len(@))]
    /\ UNCHANGED <<messages, sessionMap, pc, snapshot, next, head,
                   created, before, stored>>

(* put: one transaction on both tables.                                    *)
Put(s) ==
    /\ pc[s] = "holding"
    /\ messages' = TableAfterPut(branch[s])
    /\ sessionMap' = [sessionMap EXCEPT ![s] = IdOf(branch[s])]
    /\ stored' = [stored EXCEPT ![s] = branch[s]]
    /\ UNCHANGED <<pc, branch, snapshot, next, head, created, before>>

(* The client is done, or fails, or the process restarts: what it did not  *)
(* put is gone.                                                            *)
Forget(s) ==
    /\ pc[s] # "idle"
    /\ pc' = [pc EXCEPT ![s] = "idle"]
    /\ branch' = [branch EXCEPT ![s] = <<>>]
    /\ snapshot' = [snapshot EXCEPT ![s] = EmptyTable]
    /\ next' = [next EXCEPT ![s] = NullId]
    /\ head' = [head EXCEPT ![s] = NullId]
    /\ UNCHANGED <<messages, sessionMap, created, before, stored>>

Walk(s) == WalkMissing(s) \/ WalkMessage(s)

Next ==
    \E s \in Sessions :
        Load(s) \/ Walk(s) \/ Push(s) \/ Slice(s) \/ Put(s) \/ Forget(s)

Spec == Init /\ [][Next]_vars

(* The loop of a load runs on a thread of its own (spawn_blocking).        *)
FairSpec == Spec /\ \A s \in Sessions : WF_vars(Walk(s))

(* The store with all of its interface.  The program itself never calls    *)
(* by_branch_id.                                                           *)
ApiNext == Next \/ \E s \in Sessions, m \in Messages : LoadBranch(s, m)
ApiSpec == Init /\ [][ApiNext]_vars

-----------------------------------------------------------------------------
(* Properties.                                                             *)

(* A table leads from the newest message of b to the oldest, and says at   *)
(* the newest where to stop.                                               *)
Represents(table, b) ==
    /\ \A i \in DOMAIN b :
        /\ b[i] \in DOMAIN table
        /\ i > 1 => table[b[i]].parent = b[i - 1]
    /\ b # <<>> => table[IdOf(b)].head = b[1]

(* store.rs:70-123: whatever was put and sliced, and however put stopped   *)
(* early, the tables hold the branch last put under every session.         *)
StoredRepresented ==
    \A s \in Sessions :
        /\ sessionMap[s] = IdOf(stored[s])
        /\ Represents(messages, stored[s])

(* store.rs:31-53, 128-177: a load never misses a message, although the    *)
(* tables change under it and earlier puts have overwritten containers of  *)
(* the branch, and it returns exactly the branch last put: it neither      *)
(* stops before the oldest message that slicing kept nor goes past it.     *)
LoadReturnsLastPut ==
    [][\A s \in Sessions :
          /\ pc'[s] # "failed"
          /\ pc[s] = "walking" /\ pc'[s] = "holding" => branch'[s] = stored[s]]_vars

(* store.rs:102-103, "we reached the part of the tree that has already     *)
(* been written": what is older than a stored message of a branch is       *)
(* stored too and linked, so that put may stop there.                      *)
EarlyStopSound ==
    \A s \in Sessions :
        pc[s] = "holding" =>
            \A i \in DOMAIN branch[s] :
                i > 1 /\ branch[s][i] \in DOMAIN messages =>
                    /\ branch[s][i - 1] \in DOMAIN messages
                    /\ messages[branch[s][i]].parent = branch[s][i - 1]

(* A load ends: the walk never goes round in circles.                      *)
LoadTerminates ==
    \A s \in Sessions : pc[s] = "walking" ~> pc[s] # "walking"

(* store.rs:184-187, "session_head models this by simply pointing to a     *)
(* more recent message": slicing moves the head and leaves the tree alone, *)
(* so a stored message stays linked to the stored one it was appended to.  *)
HistoryLinked ==
    \A m \in DOMAIN messages :
        before[m] \in DOMAIN messages => messages[m].parent = before[m]
=============================================================================
