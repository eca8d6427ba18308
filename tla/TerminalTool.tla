---------------------------- MODULE TerminalTool ----------------------------
(***************************************************************************)
(* ciel/src/tool/terminal.rs: a call of the tool "terminal".  A task reads *)
(* the arguments, spawns ssh and waits for it under a time limit; another  *)
(* task reads the lines the child writes.  Both send on the bounded output *)
(* channel of the call, which the tool adapter receives from only after    *)
(* the provider's stream has ended, and drops when its reader gives up.    *)
(*                                                                         *)
(* The pipe of the child holds lines and is closed by the child's end,     *)
(* even one by a signal; what is in it by then can still be read.  Killing *)
(* a child does not fail.  What the remote side of ssh does after the      *)
(* child is gone is out of the program's hands, and of the model.          *)
(***************************************************************************)
EXTENDS Naturals, Sequences, FiniteSets

CONSTANTS
    MaxLines,    \* bound: lines a command writes
    PipeSize,    \* lines the pipe holds
    Capacity     \* of the output channel (128)

ASSUME LinesAssumption == MaxLines \in Nat
ASSUME SizesAssumption == PipeSize \in Nat \ {0} /\ Capacity \in Nat \ {0}

VARIABLES
    args,        \* "open" until the generator drops the sender of arguments
    task,        \* where call and do_tool are
    child,       \* the ssh process
    written,     \* how many lines it has written
    pipe,        \* the lines in its pipe
    reader,      \* where the task that reads lines is
    line,        \* the line it is sending, or 0
    output,      \* the output channel
    receiver,    \* what the generator does with its end of it
    delivered    \* history: what it has received

process == <<child, written>>
lines == <<pipe, reader, line>>
adapter == <<args, receiver, delivered>>
vars == <<task, process, lines, output, adapter>>

Line(n) == <<"line", n>>
Newline == <<"newline", 0>>
ToolError == <<"error", 0>>
WaitNote == <<"note", 0>>
Chunks == {Line(n) : n \in 1 .. MaxLines} \cup {Newline, ToolError, WaitNote}

TypeOK ==
    /\ args \in {"open", "ended"}
    /\ task \in {"reading", "waiting", "noting", "failing", "returned"}
    /\ child \in {"none", "running", "exited", "killed"} /\ written \in 0 .. MaxLines
    /\ pipe \in Seq(1 .. MaxLines) /\ Len(pipe) <= PipeSize
    /\ reader \in {"none", "reading", "sending", "newline", "ended", "failed"}
    /\ line \in 0 .. MaxLines
    /\ output \in Seq(Chunks) /\ Len(output) <= Capacity
    /\ receiver \in {"idle", "draining", "complete", "dropped"}
    /\ delivered \in Seq(Chunks)

Init ==
    /\ args = "open" /\ task = "reading"
    /\ child = "none" /\ written = 0 /\ pipe = <<>>
    /\ reader = "none" /\ line = 0
    /\ output = <<>> /\ receiver = "idle" /\ delivered = <<>>

(* A send waits for room, and fails at once if nobody will receive.        *)
Send(chunk) ==
    IF receiver = "dropped" THEN UNCHANGED output
    ELSE Len(output) < Capacity /\ output' = Append(output, chunk)

-----------------------------------------------------------------------------
(* The task of the call.                                                   *)

(* When all arguments have been read they are parsed, and ssh is spawned;  *)
(* either can fail.                                                        *)
Begin ==
    /\ task = "reading"
    /\ args = "ended"
    /\ \/ task' = "failing" /\ UNCHANGED <<child, reader>>
       \/ task' = "waiting" /\ child' = "running" /\ reader' = "reading"
    /\ UNCHANGED <<written, pipe, line, output, adapter>>

(* Mutant of Waited: a call whose output nobody wants any more returns.    *)
WaitedOrUnwanted ==
    /\ task = "waiting"
    /\ child # "running" \/ receiver = "dropped"
    /\ task' = "returned"
    /\ UNCHANGED <<process, lines, output, adapter>>

(* child.wait() is ready.                                                  *)
Waited ==
    /\ task = "waiting"
    /\ child # "running"
    /\ task' = "returned"
    /\ UNCHANGED <<process, lines, output, adapter>>

(* child.wait() fails: the output says so, if somebody listens.            *)
WaitFails ==
    /\ task = "waiting"
    /\ task' = "noting"
    /\ UNCHANGED <<process, lines, output, adapter>>

Note ==
    /\ task = "noting"
    /\ Send(WaitNote)
    /\ task' = IF receiver = "dropped" THEN "failing" ELSE "returned"
    /\ UNCHANGED <<process, lines, adapter>>

(* Mutant of TimeOut: the child is left alone.                             *)
TimeOutOnly ==
    /\ task = "waiting"
    /\ child = "running"
    /\ task' = "failing"
    /\ UNCHANGED <<process, lines, output, adapter>>

(* The time limit passes while the child is running: it is killed, and     *)
(* waited for again.                                                       *)
TimeOut ==
    /\ task = "waiting"
    /\ child = "running"
    /\ child' = "killed"
    /\ task' = "failing"
    /\ UNCHANGED <<written, lines, output, adapter>>

(* "Tool error": the last thing the task does.                             *)
Fail ==
    /\ task = "failing"
    /\ Send(ToolError)
    /\ task' = "returned"
    /\ UNCHANGED <<process, lines, adapter>>

Task == Begin \/ Waited \/ Note \/ TimeOut \/ Fail

-----------------------------------------------------------------------------
(* The child and the task that reads its output.                           *)

(* A write waits for room in the pipe.  One to a pipe that nobody reads is *)
(* the end of most commands (ChildExit).                                   *)
ChildWrite ==
    /\ child = "running"
    /\ reader \notin {"ended", "failed"}
    /\ written < MaxLines
    /\ Len(pipe) < PipeSize
    /\ pipe' = Append(pipe, written + 1)
    /\ written' = written + 1
    /\ UNCHANGED <<task, child, reader, line, output, adapter>>

ChildExit ==
    /\ child = "running"
    /\ child' = "exited"
    /\ UNCHANGED <<task, written, lines, output, adapter>>

ReadLine ==
    /\ reader = "reading"
    /\ pipe # <<>>
    /\ line' = Head(pipe)
    /\ pipe' = Tail(pipe)
    /\ reader' = "sending"
    /\ UNCHANGED <<task, process, output, adapter>>

(* Mutant of ReadEnd: the reader stops with the child.                     *)
ReadEndEarly ==
    /\ reader = "reading"
    /\ child # "running"
    /\ reader' = "ended"
    /\ pipe' = <<>>
    /\ UNCHANGED <<task, process, line, output, adapter>>

ReadEnd ==
    /\ reader = "reading"
    /\ pipe = <<>>
    /\ child # "running"
    /\ reader' = "ended"
    /\ UNCHANGED <<task, process, pipe, line, output, adapter>>

(* Any error, as for a line that is not UTF-8, ends the reader in silence, *)
(* and closes the pipe.                                                    *)
ReadFails ==
    /\ reader = "reading"
    /\ pipe # <<>>
    /\ reader' = "failed"
    /\ pipe' = <<>>
    /\ UNCHANGED <<task, process, line, output, adapter>>

SendLine ==
    /\ reader = "sending"
    /\ Send(Line(line))
    /\ reader' = "newline"
    /\ line' = 0
    /\ UNCHANGED <<task, process, pipe, adapter>>

SendNewline ==
    /\ reader = "newline"
    /\ Send(Newline)
    /\ reader' = "reading"
    /\ UNCHANGED <<task, process, pipe, line, adapter>>

Reader == ReadLine \/ ReadEnd \/ SendLine \/ SendNewline

-----------------------------------------------------------------------------
(* The generator of the tool adapter.                                      *)

ArgumentsEnd ==
    /\ args = "open"
    /\ args' = "ended"
    /\ UNCHANGED <<task, process, lines, output, receiver, delivered>>

(* The provider's stream has ended, and it is this call's turn.            *)
Drain ==
    /\ receiver = "idle"
    /\ args = "ended"
    /\ receiver' = "draining"
    /\ UNCHANGED <<args, task, process, lines, output, delivered>>

Receive ==
    /\ receiver = "draining"
    /\ output # <<>>
    /\ delivered' = Append(delivered, Head(output))
    /\ output' = Tail(output)
    /\ UNCHANGED <<args, task, process, lines, receiver>>

(* All senders are gone, that of the reader included.                      *)
Closed ==
    /\ receiver = "draining"
    /\ output = <<>>
    /\ task = "returned"
    /\ reader \in {"none", "ended", "failed"}
    /\ receiver' = "complete"
    /\ UNCHANGED <<args, task, process, lines, output, delivered>>

Generator == ArgumentsEnd \/ Drain \/ Receive \/ Closed

Dropped ==
    /\ receiver \in {"idle", "draining"}
    /\ receiver' = "dropped"
    /\ args' = "ended"
    /\ output' = <<>>
    /\ UNCHANGED <<task, process, lines, delivered>>

Next ==
    \/ Task \/ WaitFails
    \/ ChildWrite \/ ChildExit
    \/ Reader \/ ReadFails
    \/ Generator \/ Dropped

Spec == Init /\ [][Next]_vars

(* Ready tasks are polled, the timer is one of the things the first waits  *)
(* for, and the provider's stream ends.  Nothing is assumed of the child.  *)
FairSpec == Spec /\ WF_vars(Task) /\ WF_vars(Reader) /\ WF_vars(Generator)

-----------------------------------------------------------------------------
(* Properties.                                                             *)

(* The places of the text in what was sent: all but the two errors.        *)
Text(chunks) == {i \in DOMAIN chunks : chunks[i] \notin {ToolError, WaitNote}}

(* The k-th chunk that the reader makes of the lines.                      *)
Said(k) == IF k % 2 = 1 THEN Line((k + 1) \div 2) ELSE Newline

SaidInOrder(chunks) ==
    \A i \in Text(chunks) :
        chunks[i] = Said(Cardinality({j \in Text(chunks) : j <= i}))

(* terminal.rs:147-154, 158-180: the model gets the lines in their order,  *)
(* each once and with its newline; when the result is complete it has all  *)
(* that were written, even those still in the pipe when the child ended or *)
(* was killed, unless one could not be read; and a command that was killed *)
(* is reported, before, between or after them.                             *)
OutputWhole ==
    LET said == Cardinality(Text(delivered)) IN
    /\ SaidInOrder(delivered)
    /\ said <= 2 * written
    /\ receiver = "complete" =>
        /\ reader # "failed" => said = 2 * written
        /\ child = "killed" => \E i \in DOMAIN delivered : delivered[i] = ToolError

(* terminal.rs:147-180: the result ends, however the command behaves: one  *)
(* that hangs, or blocks on output that nobody receives while the          *)
(* provider's stream goes on, is killed, and that ends the reader, too.    *)
(* Where waiting itself fails nobody looks after the child any more.       *)
CallEnds == <>(receiver \in {"complete", "dropped"} \/ task = "noting")

(* terminal.rs:158-175: no command outlives its time limit, even if the    *)
(* reader of the response has long given up on it.                         *)
ChildEnds ==
    child = "running" /\ task = "waiting" ~> child # "running" \/ task = "noting"
=============================================================================
