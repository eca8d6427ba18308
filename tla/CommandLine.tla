---------------------------- MODULE CommandLine -----------------------------
(***************************************************************************)
(* ciel/src/cli.rs: a driver.  It reads a line, loads the session "cli",   *)
(* adds the line and asks the model; it makes entries of the branch out of *)
(* the channels of the stream that comes back, puts the branch, and asks   *)
(* again while the model calls tools.  worker.rs:113-346 has the same loop *)
(* and the same handlers.                                                  *)
(*                                                                         *)
(* The stream is a TurnStream, which ToolAdapter implements: each handler  *)
(* is a step of the stream together with what the driver does about it.    *)
(* Reasoning and usage events are left out, because the driver passes over *)
(* them.  Of SessionStore the module takes what is proved of it, that a    *)
(* load returns what was last put.  An error of any kind ends the process, *)
(* which may be started again.  A text is the number of its chunks.        *)
(***************************************************************************)
EXTENDS Naturals, Sequences, FiniteSets

CONSTANTS
    NChannels,   \* bound: the channels of a response
    Unknown,     \* those that name no tool if they are calls
    MaxChunks,   \* bound: chunks of a response
    MaxLines,    \* bound: lines of the user
    MaxTurns,    \* bound: requests to the model
    SliceAt,     \* a branch of this length is sliced (100)
    SliceFrom    \* to what follows this many entries (50)

Channels == 1 .. NChannels

ASSUME ChannelsAssumption == NChannels \in Nat /\ Unknown \subseteq Channels
ASSUME BoundsAssumption == MaxChunks \in Nat /\ MaxLines \in Nat /\ MaxTurns \in Nat
ASSUME SliceAssumption == SliceAt \in Nat /\ SliceFrom \in 0 .. SliceAt

VARIABLES
    pc,            \* where the process is
    lines, turns,  \* lines and turns so far
    stored,        \* the session "cli" in the store
    branch,        \* the branch in memory
    shouldContinue,
    channels,      \* messages that are open, and their texts
    tools,         \* calls that are open, and their arguments
    toolResults,   \* results that are open, and their texts
    log, status,   \* the stream of this turn
    cut            \* history: what slicing has removed

stream == <<log, status>>
maps == <<channels, tools, toolResults>>
session == <<lines, stored, cut>>
vars == <<pc, turns, session, branch, shouldContinue, maps, stream>>

Stream == INSTANCE TurnStream

(* An entry of a branch: a line, or what came of a channel of a turn.      *)
Entry(kind, turn, c, text) ==
    [kind |-> kind, turn |-> turn, channel |-> c, text |-> text]
Values(s) == {s[i] : i \in DOMAIN s}

Empty == [c \in {} |-> 0]
Insert(map, c) == [d \in DOMAIN map \cup {c} |-> IF d = c THEN 0 ELSE map[d]]
Remove(map, c) == [d \in DOMAIN map \ {c} |-> map[d]]

Init ==
    /\ pc = "down"
    /\ lines = 0
    /\ turns = 0
    /\ stored = <<>>
    /\ branch = <<>>
    /\ shouldContinue = FALSE
    /\ channels = Empty
    /\ tools = Empty
    /\ toolResults = Empty
    /\ Stream!Init
    /\ cut = {}

-----------------------------------------------------------------------------
(* Lines and turns.                                                        *)

StartProcess ==
    /\ pc = "down"
    /\ pc' = "prompt"
    /\ UNCHANGED <<turns, session, branch, shouldContinue, maps, stream>>

Sliced(b) == SubSeq(b, SliceFrom + 1, Len(b))

(* A line is read, the session is loaded, and the line pushed; a branch    *)
(* that has become too long is sliced.                                     *)
ReadLine ==
    /\ pc = "prompt"
    /\ lines < MaxLines
    /\ lines' = lines + 1
    /\ LET pushed == Append(stored, Entry("user", turns, 0, 0)) IN
        /\ branch' = IF Len(pushed) >= SliceAt THEN Sliced(pushed) ELSE pushed
        /\ cut' = cut \cup (Values(pushed) \ Values(branch'))
    /\ pc' = "ask"
    /\ UNCHANGED <<turns, stored, shouldContinue, maps, stream>>

(* The request is made, and accepted.                                      *)
Ask ==
    /\ pc = "ask"
    /\ turns < MaxTurns
    /\ turns' = turns + 1
    /\ shouldContinue' = FALSE
    /\ channels' = Empty
    /\ tools' = Empty
    /\ toolResults' = Empty
    /\ log' = <<>>
    /\ status' = "streaming"
    /\ pc' = "stream"
    /\ UNCHANGED <<session, branch>>

(* Mutant of EndTurn: the branch is put when the stream breaks off, too.   *)
EndTurnAnyhow ==
    /\ pc = "stream"
    /\ Stream!TurnEnd \/ Stream!Break
    /\ stored' = branch
    /\ pc' = IF shouldContinue THEN "ask" ELSE "prompt"
    /\ UNCHANGED <<lines, turns, cut, branch, shouldContinue, maps>>

(* The stream has ended: the branch is put.  Channels that are still open  *)
(* are an error in the log, and forgotten.                                 *)
EndTurn ==
    /\ pc = "stream"
    /\ Stream!TurnEnd
    /\ stored' = branch
    /\ pc' = IF shouldContinue THEN "ask" ELSE "prompt"
    /\ UNCHANGED <<lines, turns, cut, branch, shouldContinue, maps>>

(* The end of the input, any `?', or a crash.                              *)
End ==
    /\ pc # "down"
    /\ pc' = "down"
    /\ branch' = <<>>
    /\ shouldContinue' = FALSE
    /\ channels' = Empty
    /\ tools' = Empty
    /\ toolResults' = Empty
    /\ log' = <<>>
    /\ status' = "streaming"
    /\ UNCHANGED <<turns, session>>

-----------------------------------------------------------------------------
(* The events of a stream.                                                 *)

(* Channels are numbered in the order in which they start.                 *)
InOrder(c) ==
    \A d \in Channels : d < c <=> Stream!Started("message", d) \/ Stream!Started("tool", d)
Number(events) == Cardinality({i \in DOMAIN log : log[i] \in events})
ChunkEvents == {"message", "tool", "result"} \X {"chunk"} \X Channels
MoreChunks == Number(ChunkEvents) < MaxChunks
Push(kind, c, text) == branch' = Append(branch, Entry(kind, turns, c, text))

(* Mutant of MessageStart: one message at a time, under no index.          *)
MessageStartOnce(c) ==
    /\ Stream!PassStart("message", c)
    /\ channels' = IF \E d \in Channels : Stream!Started("tool", d)
                   THEN channels ELSE Insert(channels, c)
    /\ UNCHANGED <<pc, branch, shouldContinue, tools, toolResults>>

MessageStart(c) ==
    /\ Stream!PassStart("message", c)
    /\ channels' = Insert(channels, c)
    /\ UNCHANGED <<pc, branch, shouldContinue, tools, toolResults>>

(* A chunk or the end of a message that is not open ends the process:      *)
(* "unknown stream channel".                                               *)
MessageChunk(c) ==
    /\ Stream!PassChunk("message", c)
    /\ IF c \in DOMAIN channels
       THEN channels' = [channels EXCEPT ![c] = @ + 1] /\ UNCHANGED pc
       ELSE pc' = "unknown channel" /\ UNCHANGED channels
    /\ UNCHANGED <<branch, shouldContinue, tools, toolResults>>

MessageComplete(c) ==
    /\ Stream!PassComplete("message", c)
    /\ IF c \in DOMAIN channels
       THEN Push("message", c, channels[c]) /\ channels' = Remove(channels, c)
                /\ UNCHANGED pc
       ELSE pc' = "unknown channel" /\ UNCHANGED <<branch, channels>>
    /\ UNCHANGED <<shouldContinue, tools, toolResults>>

ToolStart(c) ==
    /\ Stream!PassStart("tool", c)
    /\ tools' = Insert(tools, c)
    /\ shouldContinue' = TRUE
    /\ UNCHANGED <<pc, branch, channels, toolResults>>

(* Chunks and ends of calls and results that are not open are passed over. *)
ToolChunk(c) ==
    /\ Stream!PassChunk("tool", c)
    /\ tools' = IF c \in DOMAIN tools THEN [tools EXCEPT ![c] = @ + 1] ELSE tools
    /\ UNCHANGED <<pc, branch, shouldContinue, channels, toolResults>>

ToolComplete(c) ==
    /\ Stream!PassComplete("tool", c)
    /\ IF c \in DOMAIN tools
       THEN Push("tool", c, tools[c]) /\ tools' = Remove(tools, c)
       ELSE UNCHANGED <<branch, tools>>
    /\ UNCHANGED <<pc, shouldContinue, channels, toolResults>>

ResultStart(c) ==
    /\ Stream!ResultStart(c)
    /\ toolResults' = Insert(toolResults, c)
    /\ UNCHANGED <<pc, branch, shouldContinue, channels, tools>>

ResultChunk(c) ==
    /\ Stream!ResultChunk(c)
    /\ toolResults' = IF c \in DOMAIN toolResults
                      THEN [toolResults EXCEPT ![c] = @ + 1] ELSE toolResults
    /\ UNCHANGED <<pc, branch, shouldContinue, channels, tools>>

(* Mutant of ResultComplete: results are kept in the map of calls, which   *)
(* an unknown tool's call is still in.                                     *)
ResultCompleteOfCall(c) ==
    /\ Stream!ResultComplete(c)
    /\ Push("result", c, toolResults[c])
    /\ toolResults' = Remove(toolResults, c)
    /\ tools' = Remove(tools, c)
    /\ UNCHANGED <<pc, shouldContinue, channels>>

ResultComplete(c) ==
    /\ Stream!ResultComplete(c)
    /\ IF c \in DOMAIN toolResults
       THEN Push("result", c, toolResults[c]) /\ toolResults' = Remove(toolResults, c)
       ELSE UNCHANGED <<branch, toolResults>>
    /\ UNCHANGED <<pc, shouldContinue, channels, tools>>

Receive(c) ==
    /\ pc = "stream"
    /\ UNCHANGED <<turns, session>>
    /\ \/ InOrder(c) /\ (MessageStart(c) \/ ToolStart(c))
       \/ MoreChunks /\ (MessageChunk(c) \/ ToolChunk(c) \/ ResultChunk(c))
       \/ MessageComplete(c) \/ ToolComplete(c)
       \/ ResultStart(c) \/ ResultComplete(c)

Next ==
    \/ StartProcess \/ ReadLine \/ Ask \/ EndTurn \/ End
    \/ \E c \in Channels : Receive(c)

Spec == Init /\ [][Next]_vars

-----------------------------------------------------------------------------
(* Properties.                                                             *)

Entries ==
    [kind : {"user", "message", "tool", "result"}, turn : 0 .. MaxTurns,
     channel : Channels \cup {0}, text : 0 .. MaxChunks]

(* The types, and cli.rs:115-123: whatever the providers and layers below  *)
(* stream, the error "unknown stream channel" is not raised.               *)
TypeOK ==
    /\ pc \in {"down", "prompt", "ask", "stream"}
    /\ lines \in 0 .. MaxLines
    /\ turns \in 0 .. MaxTurns
    /\ stored \in Seq(Entries)
    /\ branch \in Seq(Entries)
    /\ shouldContinue \in BOOLEAN
    /\ \A map \in {channels, tools, toolResults} :
        DOMAIN map \subseteq Channels /\ Values(map) \subseteq 0 .. MaxChunks
    /\ status \in {"streaming", "complete", "broken"}
    /\ cut \subseteq Entries

(* cli.rs:106-210: when a turn has been put, the session has one entry for *)
(* each channel of the stream, in the order in which they were completed,  *)
(* with all of its chunks and no other's, and no channel is left open.     *)
TurnRecorded ==
    LET completes == {i \in DOMAIN log : log[i][2] = "complete"}
        record == [i \in completes |->
                      LET kind == log[i][1]  c == log[i][3]
                      IN Entry(kind, turns, c, Number({<<kind, "chunk", c>>}))]
        entries == {p \in DOMAIN stored :
                       stored[p].turn = turns /\ stored[p].kind # "user"}
    IN status = "complete" =>
        /\ DOMAIN channels \cup DOMAIN tools \cup DOMAIN toolResults = {}
        /\ {stored[p] : p \in entries} = Values(record)
        /\ \A i, j \in completes, p, q \in entries :
              stored[p] = record[i] /\ stored[q] = record[j] => (p < q <=> i < j)

(* cli.rs:140-210, 220: a server takes a request only if each call in it   *)
(* has its result.  Whatever broke off, ended or was tried again: a call   *)
(* in the session has its result and a result its call, unless slicing cut *)
(* the other, and the result follows, unless the tool is unknown.          *)
Partner(e) == IF e.kind = "tool" THEN "result" ELSE "tool"
Paired ==
    /\ \A e \in Values(stored) : e.kind \in {"tool", "result"} =>
        \E f \in Values(stored) \cup cut :
            f.kind = Partner(e) /\ f.turn = e.turn /\ f.channel = e.channel
    /\ \A i, j \in DOMAIN stored :
        /\ stored[i].kind = "tool" /\ stored[j].kind = "result"
        /\ stored[i].turn = stored[j].turn
        /\ stored[i].channel = stored[j].channel
        => (i < j <=> stored[i].channel \notin Unknown)
=============================================================================
