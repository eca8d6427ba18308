# ciel: a TLA+ model and its proofs

ciel is a chat bot: it listens to Discord channels (or a terminal), asks a
language model over an OpenAI compatible API, lets the model call tools, and
keeps every conversation in an embedded key-value store. This directory holds
TLA+ modules for the parts of ciel whose correctness depends on an order of
events, configurations that check them with TLC, and proofs checked by TLAPS.

Paths below are relative to the repository; `queue_map.rs` is
`ciel-util/src/queue_map.rs`, `store.rs` is `ciel-core/src/session/store.rs`,
`worker.rs` and `lib.rs` are those of `ciel-discord`, `main.rs`, `cli.rs`,
`providers.rs` and `terminal.rs` those of `ciel`, `config.rs`, `gateway.rs`,
`schema.rs` and `json.rs` those of `ciel-core`.

## 1. Inventory

| component | source | state | operations |
|---|---|---|---|
| QueueMap | `queue_map.rs` | a concurrent map from keys to senders of unbounded channels; receivers held by clients | `enqueue`, `recv`, `recv_many`, `try_finish`, drop |
| session store | `store.rs`, `branch.rs` | tables `sessions/messages` (a tree of containers) and `sessions/id-mapping` | `put`, `by_session_id`, `by_branch_id` |
| Discord gateway | `ciel-discord/src/lib.rs` | the running task and its close channel, a QueueMap | `start`, the event loop, `stop` |
| channel worker | `worker.rs` | a receiver, a batch of events, a branch, the maps of open stream channels | one loop: finish or receive, load, turns, put |
| tool adapter | `ciel-adapter/src/tool_adapter.rs` | per call: a task, a channel for arguments, one for output | a generator over the provider's stream |
| chat adapter | `ciel-adapter/src/chat_adapter.rs` | buffers of open messages | grouping of a request, a generator over the stream |
| OpenAI provider | `ciel-openai/src/lib.rs` | open channels of a response | request, translation of server-sent events, errors |
| terminal tool | `ciel/src/tool/terminal.rs` | a child process, a reader task, a time limit | `call` |
| command line client | `ciel/src/cli.rs` | a branch, the maps of open stream channels | `run`: a sequential loop like the worker's |
| gateway registry, main | `ciel-core/src/gateway.rs`, `ciel/src/main.rs` | factories, gateways | `load`, `run_all`, `stop_all`, `do_main` |
| provider registry | `ciel/src/providers.rs` | providers by name | `apply_config`, the look-up for a request |
| configuration | `ciel-core/src/config.rs` | the resolved values and a scope | `new`, `scoped`, `read`, `read_optional`, `read_value` |
| schema | `ciel-core/src/schema.rs`, `schema/json.rs` | none | builders, `to_json` |
| utilities | `ciel-util/src/secret.rs`, `panic_hook.rs` | none | formatting |

How they interact. The event loop of the gateway calls `enqueue` and, when it
is given a receiver, spawns a worker with it. A worker owns the receiver of its
channel until `try_finish` gives the key back. It reads the session of the
channel from the store, adds the messages, and calls the model service, which
is tool adapter over chat adapter over provider registry over provider. It
polls the stream that comes back, which is what makes the generators of the
adapters run, posts messages to Discord, and puts the session after every turn.

What is hard: threads inside `enqueue` and in destructors of receivers
(interleaving without a lock around `close`); a session that is read, extended
over many awaits, and written back, with only the QueueMap to prevent two
writers; every `?` of a worker, and the end of the process, at any point
between posting a reply and storing it; a tree of messages that is partly
rewritten by every `put`; tasks and a generator that wait for each other over
bounded channels.

What makes the components correct:

- QueueMap: one receiver per key, and no entry without one; every value reaches
  a receiver, in order, unless its receiver is dropped; `enqueue` returns.
- session store: a load returns the branch last put, whatever was sliced and
  put before and whatever is put meanwhile; a load ends.
- gateway and worker: no message and no reply goes missing without a failure;
  order is kept; no put discards an earlier one; every message is settled; once
  stop has returned, nothing is between the shard and the workers.
- provider and chat adapter: every text and every argument the server sends is
  passed on once, in order and to the channel it belongs to; channels come one
  after the other and are all completed; a request says what the branch says.
- tool adapter: a tool starts after its call was seen, has all its arguments,
  and every call has exactly one complete result; the adapter and a tool never
  wait for each other, and the response ends.
- terminal tool: the model gets the lines of a command whole and in order; no
  command keeps its call open, and none outlives its time limit.
- command line client: a turn is recorded as it was streamed, and no call is
  stored without its result, wherever a stream or the process ends.
- main and the registries: every gateway and provider is built from its own
  settings; main does not return past a running gateway, unless it cannot even
  listen for signals, and ends on a signal.
- schema: a written union allows nothing that none of its variants allows, where
  they share no keywords but types, bounds and `required` (`Sound`); and it
  allows all that they allow as well, where they are of separate types and share
  no keyword (`Exact`). Variants of one type are narrowed to what all of them
  allow, as the tests of `json.rs` show.

The hazards, each with the line where it bites and the properties for it, are
listed in `PROJECT.json`.

## 2. Modules

`KeyedQueue` is the abstract promise of QueueMap. `QueueMap` is the detailed
model and implements it. `DiscordGateway` is built on the promise: it
instantiates `KeyedQueue` with Discord channels as keys and its own event loop
as the only enqueuer, and takes from `SessionStore` that put is atomic and that
a load returns what was last put. `SessionStore` stands alone. `Response` is the
abstract promise of a response stream; `OpenAIStream` is the provider, and
`ChatAdapter` extends it with the layer around it. Both are proved to
implement `Response`. `ToolAdapter`, the next layer, takes that for granted and
is proved to implement, where no call comes handled, `TurnStream`, which extends
`Response` with the results of calls and is what the service as a whole promises.
`CommandLine` reads a `TurnStream`. `TerminalTool` is the inside of one call of
`ToolAdapter`.
`Startup` extends `Configuration`; the inside of one of its gateways is
`DiscordGateway`. `Schema` stands alone.
The `MC*` modules are what TLC checks; `MCStartup` and `MCSchema` have the
inputs of their runs. The proofs about a component are in a module of their own
that extends it: `QueueMapProofs`, `SessionStoreProofs`, `DiscordGatewayProofs`,
`ChatAdapterProofs` (of the provider and of the layer), `ToolAdapterProofs`,
`TerminalToolProofs`, `CommandLineProofs`, `StartupProofs`. What they need of
sequences and finite sets is cited from the library.

Definitions marked "Mutant of" are not part of any specification. Each is a
plausible mistake in the definition that follows it, and shows that a property
of the runs would notice.

### KeyedQueue

`request`, `owned`, `pending`, `handled`, `lost`. A `Call`, one atomic `Commit`
that appends the value and makes the key owned, `Deliver` of the oldest values,
`Finish` of an owner with nothing pending, `Abandon` of an owner that is
dropped.

### QueueMap

A step is one operation on the `DashMap`, which holds the lock of the key's
shard, or one on a receiver, which holds none.

| code | action |
|---|---|
| `enqueue`, `map.get` and send under the read lock (37-45) | `SendOpen`, `SendClosed`, `Miss` at `fast` |
| `enqueue`, `entry().or_insert_with` and send under the write lock (57-68) | `SendOpen`, `SendClosed`, `Create` at `slow` |
| `remove_if(is_closed)` (48, 83) | `Purge` |
| `recv`, `recv_many` | `Recv`, `RecvMany` |
| `try_finish`: `remove_if(is_empty)`, then `close` | `TryFinish`, `FinishClose` |
| drop: `close`, then `remove_if(is_closed)` | `DropClose`, `DropRemove` |

`rcv` is the life cycle of a receiver and `chanKey` its key field. `try_finish`
checks the length of *its own* receiver but removes the entry of *its key*; that
these belong together is `LiveReceiverMapped`, not an assumption. Channels are
a pool of identities that are used again.

### SessionStore

`messages` and `sessionMap` are the two tables. `Put` is one transaction;
`Rewritten` are the entries its loop writes before it stops at the first one
that was stored already. A load is a snapshot (`StartWalk`) and one `Walk` step
per message, so that it interleaves with the puts of other clients. A client
loads, pushes new messages, slices a branch that has grown to `SliceAt`, puts,
and at any moment forgets what it has (success, failure or restart). Contents
of messages are left out: a message is its identifier.

### DiscordGateway

The event loop (`Start`, `NextEvent`, `Enqueue`, `LeaveLoop`, `Drained`),
`stop` (`StopCall`, `StopReturn`), the end of the process (`ProcessGone`), and
one worker per owned channel:

| worker.rs | action |
|---|---|
| `try_finish` (47-54) | `Finish`, `Continue` |
| `recv_many` (56) | `Receive` |
| load, push, slice (61-109) | `Load` |
| ready and call (116-122) | `Ask` |
| a message, posted and pushed; a tool call or result, pushed (147-347) | `Answer` |
| end of the stream | `EndStream` |
| put (349) | `Put` |
| every `?` | `Fail`, and `FailPosted` where something was posted before |

What was not put when a worker fails or the process ends goes to the history
variable `dropped`, what slicing removed to `cut`.

### Response

`log`, the events without their contents, and `status`. A channel starts when
nothing is open, takes chunks, and completes; the response ends with nothing
open, or breaks off anywhere.

### TurnStream

The events of a `Response`, with one result for each of its calls: after the
call has completed, or, when the call names no tool, while it is still open.
Nothing else comes while a result is open.

### OpenAIStream

`Chat` makes the request out of a branch, `CloseAll` is the code's loop over the
open channels, which completes them in ascending order of their keys, `Accept` and `Refuse` are the answer
(`determine_error` reads the refusal). A delta has the fields the code looks at, in
the order it looks: usage, reasoning, content, calls. There is one action for
each arm (`Pull*`), which fills `todo` with what the arm yields; `Yield` hands
over one event per poll, and a reader may `Cancel` between any two. A text is
known by the position of its delta in `wire`, a channel by a number in place of
a UUID. [DONE] and an end without it are one action, as in the code.

### ChatAdapter

`Call` groups the branch and calls the provider. `Grouped` says what the code's
`chunk_by` gives: an entry starts a group unless it `Joins` the one before it. Since the layer
pulls only when it is polled and has nothing to yield, it and the provider take
turns: `Wait` is the provider at work, and `PassMessageStart`, `Keep`, `Flush`
and `PassOther` are the arms for the event it yields, each together with the
provider's `Yield`. Whether a text is a JSON list is up to the model; if it is,
it is marked `unwrapped`. An entry is known by its place in the branch.

### ToolAdapter

The generator pulls events of the provider (`Pull*`), spawns a task per call,
sends arguments over a bounded channel (`SendArg`), and after the stream has
ended drains the results in order (`Drain`, `RecvChunk`, `RecvEnd`,
`CompleteResult`). `PullOther` is the last arm (229-232), which yields messages,
results of an inner layer, reasoning and usage as they come. `out` is every event
yielded. It is the log of a `TurnStream` as long as no call has come handled:
of one that has, the generator swallows the start (158-161) and yields chunks
and completion all the same, and `OneResultPerCall` is what is left to say. The
calls that an inner layer handles are `handled`, some of the constant `Handled`;
the program has no such layer. A consumer
that gives up (`Cancel`) or a stream that breaks off (`PullError`) drops the
generator's halves of all channels while the tools go on. Tools read, write,
return or panic at will; with `Streaming = FALSE` they read all arguments
first, as `TerminalTool` does.

### TerminalTool

`task` is `call` with `do_tool`: it reads the arguments to their end (`Begin`),
waits for the child (`Waited`, `WaitFails`, `TimeOut`) and reports errors
(`Note`, `Fail`). `reader` is the task that takes lines from the child's pipe
and sends each, and a newline, on the output channel. `receiver` is the
generator's end of that channel, `delivered` what it has received. Lines are
numbers. A line that is not UTF-8 ends the reader and with it the pipe
(`ReadFails`); a time limit may pass at any time.

### CommandLine

`ReadLine` reads a line, loads, pushes and slices; `Ask` is a request; `EndTurn`
is the end of its stream and the put; `End` is the end of the input, every `?`
and a crash. Each handler of an event (`MessageStart` to `ResultComplete`) is a
step of a `TurnStream` together with what the client does about it in its three
maps and its branch. The loop of `worker.rs` 113-346 has the same handlers; what
they post to Discord is in `DiscordGateway`.

### Configuration and Startup

`Configuration` has the values of a TOML file and the operators `Resolve`,
`Scoped` and `LookUp` for `config.rs`. A key is the sequence of parts that dots
separate, so that a quoted key with a dot and a path of two parts can be told
apart and confused. `Values` are the values of the configurations with all their
parts, and `Depth` says how deep each goes: a file is finite, so a part is less
deep than the whole (`ValuesAssumption`). `Resolve` is a recursive function on
`Values`, `LookUp` one on the places of a path. `Files` are the configurations
to start with (`FilesAssumption`). `Startup` is `do_main` without a subcommand:

| code | action |
|---|---|
| `Config::new` and the settings of the database (main.rs 91-104) | `Boot` |
| `Providers::apply_config` | `ApplyProviders` |
| the settings of model and tools (main.rs 113-133) | `ReadModel` |
| `Gateways::load`, an entry at a time in any order | `LoadGateway` |
| `run_all`, from the first start to the last | `RunAll`, `Started`, `StartFails`, `RunReturns` |
| the signal handlers of `await_exit_signal` (main.rs 172-173) | `Listen`, which may fail; before it, `Killed` |
| a signal | `Signal` |
| a gateway's task ends by itself, or after its close frame | `ShardEnds`, `Closed` |
| `stop_all` | `Signal`, `Exit` |

### Schema

`Fields` is `add_json_fields` and `Merge` is `merge_json_maps`, for every kind
and every rule. `MergeVariant` is the loop over the variants of a union.
`Valid` is what JSON Schema allows, the reference the result is compared with.

## 3. Runs

| run | instance | shows |
|---|---|---|
| `queue` | 2 keys, 2 threads, 3 values, 3 channels, batches of 2 | one receiver per key, no entry without one, nothing stranded, that QueueMap implements KeyedQueue, and that `enqueue` returns |
| `store` | 2 sessions, 5 messages, slicing 1 of 3 | tables represent what was put; loads are faithful and end |
| `store_history` | 1 session, 5 messages, slicing 2 of 4, with `by_branch_id` | see findings |
| `discord` | 2 channels, 3 messages, a reply, batches of 2, slicing 1 of 3 | nothing goes missing, order, no lost update; messages settle, and stop leaves none between the gateway task and the workers |
| `discord_stop` | 1 channel, 2 messages | see findings |
| `response` | branches of 0 to 4 entries, answers of 0 to 4 deltas out of 12 | requests say what the branch says, arguments and texts arrive once, in order and where they belong, and both layers implement `Response` |
| `tools` | 3 calls: known, unknown, known or handled; a message or another event; 2 chunks each way, channels for 1 | the tool adapter with tools that read first answers every call, and implements `TurnStream` until a handled call comes; it and its tools never wait for each other, and the response ends |
| `tools_streaming` | 1 call | see findings |
| `terminal` | 4 lines, a pipe for 1, an output channel for 2 chunks | the output is whole, the call and the child end |
| `cli` | 2 lines, 3 turns, 2 channels and 1 chunk a turn, an unknown tool, slicing 2 of 4 | turns are recorded, calls and results stay together |
| `startup` | 32 configurations, 2 environments, up to 2 gateways | settings come from the right section, main outlives its gateways if it can listen for signals, and ends |
| `schema` | unions of up to 3 of 18 kinds, 28 values | what a union allows |

Why the bounds are enough. In QueueMap the races are between the finishing or
dropped receiver of a key, its successor, and enqueuers in both paths: two
threads and three channels give all of them at once, and a third value lets a
key go round again; there are as many channels as values, so that the pool is
no bound of its own. The theorems cover all other sizes. In SessionStore five
messages are two slices of a branch of three, with a put between any two of
them. In DiscordGateway three messages are a full batch, one that waits meanwhile,
and a slice; with a reply a worker can fail before, between and after two turns.
In the response, four deltas are two calls with arguments for each in any
interleaving, or a message interrupted by a call and taken up again; four entries
are two runs of messages, or two messages with a call and its result between.
In ToolAdapter a channel of capacity one
with two chunks fills, as 128 does with 129; a second call is sent while the
tool of the first runs, and one other event comes at every place where one can. In TerminalTool four lines are
eight chunks, more than pipe, reader and channel hold together, so that the
child blocks. In CommandLine two channels are a message and a call, or a known
and an unknown one; three turns and two lines make a branch that is sliced
between a call and its result. In Startup a second gateway is enough for one
that fails beside one that runs, and for a name that leads into the other's
settings; each kind of wrong setting comes alone. In Schema two variants meet
in each case of the merge, and a third meets what it left. Runs say
`CHECK_DEADLOCK FALSE` because inputs are bounded: a system whose values,
messages, deltas, lines or variants are used up, or whose response is over, or
that has ended, stops.

The `TypeOK` of `QueueMap`, `SessionStore`, `DiscordGateway`, `ToolAdapter`
and `TerminalTool` say what the variables hold. They are no part of the runs,
because they are proved.

Fairness. `EnqueueReturns` assumes that a thread inside `enqueue` runs, and
nothing of receivers. `LoadTerminates` assumes that the blocking thread of the
walk runs. `EventsSettle` assumes that the runtime polls ready tasks and that
the provider ends its stream; failures, crashes, starts, events and the end of a
connection are never assumed. `StreamEnds` assumes a
consumer that polls, a provider's stream that ends, and tools that go on when
they can. `CallEnds` and `ChildEnds` assume that ready tasks are polled, that
the timer fires, and that the provider's stream ends, and nothing of the child:
it may hang. `SignalEnds` assumes that main goes on, that a start succeeds or
fails, and that a connection ends after its close frame.

### Findings

Each of these runs checks one sentence of the repository and finds it violated.

- `store_history`: slicing and putting can cut the tree of messages off its
  past, although `session_head` exists so that it need not. With the program's
  numbers: 51 stored messages and a burst of 49, so that the oldest message
  slicing keeps is the newest stored one (or 50 and 50, where it is the first
  new one).
- `tools_streaming`: a tool that streams its output while it still receives
  arguments can deadlock with the generator. The one tool of the repository
  reads first.
- `discord_stop`: `stop` returns while workers are at work.

Other behaviour that a reader should know of, and that no run checks:

- `by_branch_id` of a message that is not the newest of its branch may never
  return, because the oldest message is its own parent. The program does not
  call it.
- Results do not come in the order of calls when one of them names no tool, and
  the session then has the result before its call; a server that refuses such a
  request refuses all later ones of the session.
- A worker that fails loses the messages that wait for it.
- If the process cannot listen for signals, `main` returns an error while
  gateways run (main.rs 155), and stops none of them.
- `stop` drains the shard until Discord answers the close frame or the
  connection ends, without a time limit (lib.rs 163): if neither happens it does
  not return, and neither does `main`.
- A call that comes handled already loses its start, and its chunks and
  completion go on without it (tool_adapter.rs 158-161, 209-228). A reader like
  that of `cli.rs` ends with an error at the first of them. Without the premise
  of `Implements`, TLC finds this in `tools`. It needs two tool adapters around
  each other; the program has one.
- A gateway or provider whose name has a dot in it is built from the settings
  the path leads to, not from its own.
- A union of two object variants is written as one object that allows mixtures
  of them; if both have a property called `type`, and it differs, the result is
  no JSON Schema, because `merge_json_maps` takes names of properties for
  keywords. The program writes no such union.

## 4. Proofs

Each safety property of the runs of the components below, each refinement, and
each action property is a theorem for every value of the constants: for any
number of keys, channels, messages, deltas, calls or lines, any size of a
queue, a pipe or a batch, and any configuration. The proofs assume of the constants what the modules
assume with `ASSUME`, and nothing else. Every proof of `Spec => []Inv` has the
same shape: `Init` gives an inductive invariant, a lemma for each action shows
that it is preserved, and `Inv` follows from it.

| module | theorem | says |
|---|---|---|
| `QueueMapProofs` | `TypeCorrect`, `Invariance`, `AtMostOneReceiver`, `ReceiverKeepsSender`, `NoEntryOutlivesReceiver`, `NoFinishRace`, `NothingStranded` | the safety invariants of `queue` |
| | `Refinement` | `QueueMap` implements `KeyedQueue` |
| `SessionStoreProofs` | `TypeCorrect`, `PutIsStored`, `MayStopEarly`, `SessionsDisjoint` | the tables represent what was put, and put may stop at the first stored message |
| | `LoadIsExact`, `LoadIsBounded` | a load returns the branch last put, in as many steps as it has messages |
| `DiscordGatewayProofs` | `TypeCorrect`, `KeyOwnedWhileServed`, `NothingMissing`, `SessionsInOrder` | the safety invariants of `discord` |
| | `NoUpdateLost` | no put discards what an earlier one stored |
| | `StopLeavesNothingBehind` | once stop has returned no message is taken and no worker starts |
| `ChatAdapterProofs` | `TypeCorrect`, `ProviderInvariance`, `ArgumentsReachCall`, `TextsKept` | what the provider says arrives once, in order, in its channel |
| | `ChatInvariance`, `RepliesInOnePiece`, `RequestsFaithful` | the layer keeps replies whole, and a request says what the branch says |
| | `ProviderRefines`, `ChatRefines` | both implement `Response` |
| `ToolAdapterProofs` | `TypeCorrect`, `Invariance`, `ToolRunsAfterYield`, `ToolHasAllArgs`, `ResultForEveryCall`, `NoDeadlock` | the safety invariants of `tools` |
| | `Refinement` | `ToolAdapter` implements `TurnStream` until a handled call comes |
| | `ProgramRefinement` | `ToolAdapter` implements `TurnStream` where no layer handles calls |
| `TerminalToolProofs` | `TypeCorrect`, `Invariance`, `OutputIsWhole` | the model gets the lines whole and in order |
| `CommandLineProofs` | `TypeCorrect`, `Invariance`, `TurnPutAsStreamed`, `CallsHaveResults` | turns are recorded as streamed, calls keep their results |
| `StartupProofs` | `StartupInvariance`, `StartupOwnSection`, `StartupNoOrphan` | gateways and providers come from their own entries, main does not return past a gateway if it can listen for signals |

Why the invariants are needed.

`QueueMap`. That two receivers never serve a key follows only from what the map
may lead to. The invariant says that an unused channel is empty, without a key
and in no entry (`FreeInv`); that an allocated channel has a key (`KeyInv`);
that an entry leads to an open or half dropped channel of that very key
(`NoEntryLeaks`); that a producer has a request exactly while inside `enqueue`
(`RequestInv`); that a live receiver is mapped (`LiveReceiverMapped`); that a
finishing one is empty (`FinishedEmpty`); and where every value is
(`Accounted`). `LiveReceiverMapped` is preserved because `RemoveIfClosed` never
removes an open channel, and because `TryFinish` removes exactly the receiver
that asks; `FinishedEmpty` because nobody can send on a channel that left the
map. The refinement maps a key to owned when its entry leads to a live
receiver: `SendOpen` and `Create` are `Commit`, `TryFinish` is `Finish`,
`DropClose` is `Abandon`, everything else stutters.

`SessionStore`. `StoredRepresented` is about tables, but a put writes what a
client holds, and a load reads a snapshot that later puts have overtaken. The
invariant says that no message is in two sessions or twice in a branch; that a
walk has read an end of the branch last put, and that its snapshot represents
all of it (`WalkInv`); and that the stored messages of a branch in use are its
oldest, each linked to the one before (`HoldInv`). The last is why the loop of
put may stop at the first stored message, and it holds although slicing rewrites
the oldest message kept, because what is sliced off is older still. All of this
is about `Spec`, what the program does; `by_branch_id`, which it never calls, is
in `ApiSpec` only.

`DiscordGateway`. The invariant follows a message from the request of the
gateway task over the queue and the batch of a worker into a branch and a
session. `Mine(k)` is all that channel k has; no message is with two channels
(`DisjointInv`), none that was dropped comes back (`DroppedInv`), what is
further along was sent earlier (`OrderInv`), and a branch in use continues the
session it was loaded from (`WorkInv`). `WorkInv` needs that a key is owned
exactly while a worker serves it (`OwnerInv`), which is what the code relies on
QueueMap for; `Refinement` of `QueueMapProofs` is the proof that it may.
`StopSeals` adds that stop returns only from a task that is done, and that a
task that has left its loop has no message in hand (`StopInv`); where the others
are is `PlacedInv`.

`OpenAIStream`. What was yielded and what is still in `todo` is one sequence
that only grows. The invariant `Sound` says that each of its events may follow
those before it, that `open_channels` is what is open in it, at most one, and
which deltas its texts come from. When a delta fails the response, the sequence
is sound for the deltas before it. `ChatAdapter` adds what it holds back in its
buffers: the text so far of exactly the messages open below (`ChatInv`).

`Grouped` and `CloseAll` go over data. That a group is a run of entries, and
that `CloseAll` completes every channel, need an induction; it is done by taking
the smallest number for which the claim fails (`SmallestMember`, from the
library's theorem that a well-founded relation has minimal elements), which
needs no operator as a parameter.

`ToolAdapter`. The generator, its consumer, the tasks and two bounded channels
per call are tied together by counting: a chunk of arguments is on its way, in
the channel or read (`ArgsInv`), one of output in the channel or yielded
(`OutputInv`); what was yielded follows from where the generator is (`LogInv`)
and from what an inner layer has sent (`InnerInv`).
The same invariant gives `NoDeadlock` without ENABLED: `NeverBothWait` names
what the generator and a tool wait for, and a generator that waits for a tool is
never one the tool waits for. Tools that read first are needed for the send of
arguments only; the run `tools_streaming` shows that they are needed there.

`TerminalTool`. `OutputWhole` is about what was delivered; the invariant is
about all that was sent. How many chunks of text that is follows from where the
reader is (`TextInv`), because the pipe holds the last lines written
(`PipeInv`).

`CommandLine`. The maps are what is open in the stream (`MapsInv`), so that no
handler meets a channel it does not know; the entries of the turn are the
channels that were completed, in that order (`RecordInv`); the calls of earlier
turns have their results, or lost them to slicing (`PairInv`).

`Startup`. `MainInv` says what a gateway may be doing where main is (`MayBe`):
main returns only from places where none is starting or connected, but for
`deaf`, where signals cannot be listened for and gateways may run. That gives
the first parts of `NoOrphan`; the last, and `OwnSection`, are about the file.
The invariant says that, once it is read, `values` is the file with its
directives replaced, and that what is built comes from a name of its section, in
that scope (`ProvidersBuilt`, `GatewaysBuilt`). The rest is about operators, for
every configuration. A recursive function is a CHOOSE of one that satisfies its
equation, so it has to be shown that one exists: for `LookUp` by the length of
the path (`ReachesSome`), for `Resolve` by the depth of values (`ResolvesSome`,
`ResolvesAlike`, `ResolveDefined`), with `SmallestMember` in place of an
induction. Then what resolves to a table was a table with the same keys, each
field resolved by itself (`ResolveTable`): a directive never becomes a table.
So a path into an entry with a plain name leads into that entry (`EntryLookUp`).
The hypothesis of `OwnSection` that the name is plain is needed: see the other
behaviour above.

The chain. `QueueMap` implements `KeyedQueue`, on which `DiscordGateway` is
built; `SessionStore` returns what was put, as `DiscordGateway` and
`CommandLine` take for granted; `OpenAIStream` and `ChatAdapter` implement
`Response`, which `ToolAdapter` reads; `ToolAdapter`, with no layer inside that
handles calls, implements `TurnStream`, which `CommandLine` reads. Each link between modules is a theorem, except that
the instances of the constants are chosen in the module that uses it.

What stays with TLC. Liveness (`EnqueueReturns`, `LoadTerminates`,
`EventsSettle`, `StreamEnds`, `CallEnds`, `ChildEnds`,
`SignalEnds`): it needs fairness and ENABLED, which the prover does not know.
What can be proved of it without them is: a load has a bound (`LoadIsBounded`),
generator and tools do not wait for each other (`NoDeadlock`), and a worker that
waits for messages has some (`KeyOwnedWhileServed`).
`Schema` (`Sound`, `Exact`): they relate three recursive definitions, `Merge`
and `Fields` of the code and the reference `Valid`, on all schemas and values,
and the proof would be an induction over data in several of them at once. `Schema`
is also the only modelled part that keeps RECURSIVE operators, which the prover
does not accept.

## 5. What is not modelled, and the plan

The wording of prompts and messages, the splitting of long replies, typing
delays, logging, and the serialisation of messages are left out. The database
is assumed to commit atomically and to be durable. Of a server-sent event,
choices after the first and tool calls after the first are left out, because the
code never looks at them.

`SessionStore` and `CommandLine` meet in what the latter takes for granted of a
load; their product would be larger than what it adds. Also left out: elements
of arrays in configuration paths; the remote side of ssh; the look-up of a
provider for a request, since main gives every request the same; how a secret
and a panic are written (`ciel-util`), which has no state.

Not modelled, although it is in the code's reach: two gateways of a
configuration that see the same Discord channel. Each has a QueueMap of its
own (lib.rs 102), so two workers may serve one session at once, and
`NoLostUpdate` would not hold. Nothing in the repository says that it should.

What is left:

1. `Schema`: what `Merge` keeps of two rules, which needs no recursion. Its
   operators would have to be recursive functions over schemas of bounded depth,
   as those of `Configuration` are.
2. More of what the liveness properties rest on, in the way of `NoDeadlock` and
   `LoadIsBounded`: which steps bring a message nearer to being settled.
