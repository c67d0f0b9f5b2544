------------------------------- MODULE TsharkRun -------------------------------
(***************************************************************************)
(* One call of dissect_packets_stream (services/tshark_service.py): the    *)
(* TShark process, the thread that reads its output and hands packets to   *)
(* the pipeline, the thread that drains stderr, and the watchdog.  TShark  *)
(* owes its callers nothing: it may stall, crash, warn, or linger after    *)
(* its last line.  There is no clock: a timer may go off at any time.      *)
(***************************************************************************)
EXTENDS Integers

CONSTANTS
    N,            \* lines TShark has to write of this capture
    Lines,        \* ... each of them: "packet" or "short" (rejected)
    StdoutPipe,   \* lines the pipe of stdout holds
    StderrPipe,   \* lines the pipe of stderr holds
    MaxWarnings,  \* bound: lines TShark writes to stderr
    KeptLines     \* maxlen of stderr_lines, 200 in the code

ASSUME RunAssumption ==
    /\ N \in Nat /\ Lines \in [1..N -> {"packet", "short"}]
    /\ StdoutPipe \in Nat \ {0} /\ StderrPipe \in Nat \ {0}
    /\ MaxWarnings \in Nat /\ KeptLines \in Nat \ {0}

VARIABLES
    proc,                \* what proc.poll() would find: "none", "running" or the way it ended
    written,             \* lines TShark has written
    torn,                \* it was stopped within a line
    stdout_closed,       \* it has closed stdout, and may linger
    warnings, stderr,    \* lines written to stderr, and those still in its pipe
    stderr_lines,        \* number of lines drain_stderr keeps
    reader,              \* where the generator is
    line,                \* the line it has read last; 0 is a torn one
    read,                \* lines it has read
    delivered,           \* lines whose packets it has yielded
    outcome,             \* how it ended
    watchdog,            \* the timer and its thread
    watchdog_triggered,
    killer               \* history: who ended a process that had not ended itself

process == <<proc, written, torn, stdout_closed, warnings>>
drain   == <<stderr, stderr_lines>>
pipe    == <<line, read, delivered>>
timer   == <<watchdog, watchdog_triggered>>
vars    == <<process, drain, reader, pipe, outcome, timer, killer>>

Ended   == {"ok", "failed", "killed"}
Packets == {i \in 1..N : Lines[i] = "packet"}

TypeOK ==
    /\ proc \in {"none", "running"} \cup Ended
    /\ written \in 0..N /\ read \in 0..N /\ line \in 0..N
    /\ torn \in BOOLEAN /\ stdout_closed \in BOOLEAN
    /\ warnings \in 0..MaxWarnings /\ stderr \in 0..StderrPipe
    /\ stderr_lines \in 0..KeptLines
    /\ reader \in {"start", "read", "check", "yielded", "wait", "verdict", "code", "raise", "finally", "over"}
    /\ delivered \subseteq Packets
    /\ outcome \in {"none", "refused", "completed", "timeout", "execution_error", "failed",
                    "abandoned"}
    /\ watchdog \in {"idle", "armed", "firing", "triggered", "over", "cancelled"}
    /\ watchdog_triggered \in BOOLEAN
    /\ killer \in {"nobody", "reader", "watchdog"}

Init ==
    /\ proc = "none" /\ written = 0 /\ torn = FALSE /\ stdout_closed = FALSE /\ warnings = 0
    /\ stderr = 0 /\ stderr_lines = 0
    /\ reader = "start" /\ line = 0 /\ read = 0 /\ delivered = {} /\ outcome = "none"
    /\ watchdog = "idle" /\ watchdog_triggered = FALSE /\ killer = "nobody"
-------------------------------------------------------------------------------
\* TShark.  A process that ends in the middle of its work may leave a torn line.

StdoutFull == written - read >= StdoutPipe
Unfinished == proc = "running" /\ ~stdout_closed /\ written < N

WriteLine ==
    /\ Unfinished /\ ~StdoutFull
    /\ written' = written + 1
    /\ UNCHANGED <<proc, torn, stdout_closed, warnings, drain, reader, pipe, outcome, timer, killer>>

Warn ==
    /\ proc = "running" /\ warnings < MaxWarnings /\ stderr < StderrPipe
    /\ warnings' = warnings + 1 /\ stderr' = stderr + 1
    /\ UNCHANGED <<proc, written, torn, stdout_closed, stderr_lines, reader, pipe, outcome, timer, killer>>

CloseStdout ==
    /\ proc = "running" /\ ~stdout_closed /\ written = N
    /\ stdout_closed' = TRUE
    /\ UNCHANGED <<proc, written, torn, warnings, drain, reader, pipe, outcome, timer, killer>>

Exit ==
    /\ proc = "running" /\ written = N
    /\ proc' = "ok"
    /\ UNCHANGED <<written, torn, stdout_closed, warnings, drain, reader, pipe, outcome, timer, killer>>

Dies(how) ==
    /\ proc' = how
    /\ torn' \in {torn} \cup (IF Unfinished /\ ~StdoutFull THEN {TRUE} ELSE {})

Crash ==
    /\ proc = "running"
    /\ Dies("failed")
    /\ UNCHANGED <<written, stdout_closed, warnings, drain, reader, pipe, outcome, timer, killer>>

TShark == WriteLine \/ Warn \/ CloseStdout \/ Exit \/ Crash
-------------------------------------------------------------------------------
\* _terminate_process: nothing is done to a process that has ended; SIGKILL ends every other.
TerminateProcess(who) ==
    IF proc = "running" THEN Dies("killed") /\ killer' = who
                        ELSE UNCHANGED <<proc, torn, killer>>

Refuse ==       \* no capture file, no TShark, or Popen fails
    /\ reader = "start"
    /\ reader' = "over" /\ outcome' = "refused"
    /\ UNCHANGED <<process, drain, pipe, timer, killer>>

Popen ==
    /\ reader = "start"
    /\ reader' = "read" /\ proc' = "running" /\ watchdog' = "armed"
    /\ UNCHANGED <<written, torn, stdout_closed, warnings, drain, pipe, outcome, watchdog_triggered, killer>>

ReadLine ==
    /\ reader = "read" /\ read < written
    /\ reader' = "check" /\ line' = read + 1 /\ read' = read + 1
    /\ UNCHANGED <<process, drain, delivered, outcome, timer, killer>>

ReadTornLine ==
    /\ reader = "read" /\ read = written /\ torn
    /\ reader' = "check" /\ line' = 0 /\ torn' = FALSE
    /\ UNCHANGED <<proc, written, stdout_closed, warnings, drain, read, delivered, outcome, timer, killer>>

EndOfOutput == read = written /\ ~torn /\ (stdout_closed \/ proc \in Ended)

ReadEof ==
    /\ reader = "read" /\ EndOfOutput
    /\ reader' = "wait"
    /\ UNCHANGED <<process, drain, pipe, outcome, timer, killer>>

\* parse_line makes a packet of a line with every field, and None of any other.
parse_line(i) == i # 0 /\ Lines[i] = "packet"

TimedOut(place) ==
    /\ reader = place /\ watchdog_triggered
    /\ reader' = "raise" /\ outcome' = "timeout"
    /\ UNCHANGED <<process, drain, pipe, timer, killer>>

Yield ==
    /\ reader = "check" /\ ~watchdog_triggered /\ parse_line(line)
    /\ reader' = "yielded" /\ delivered' = delivered \cup {line}
    /\ UNCHANGED <<process, drain, line, read, outcome, timer, killer>>

Skip ==
    /\ reader = "check" /\ ~watchdog_triggered /\ ~parse_line(line)
    /\ reader' = "read"
    /\ UNCHANGED <<process, drain, pipe, outcome, timer, killer>>

Resume ==
    /\ reader = "yielded" /\ reader' = "read"
    /\ UNCHANGED <<process, drain, pipe, outcome, timer, killer>>

\* GeneratorExit: the caller gives the generator up at a packet.  No clause catches it
\* (external: the pipeline takes all packets with list()).
Abandon ==
    /\ reader = "yielded"
    /\ reader' = "finally" /\ outcome' = "abandoned"
    /\ UNCHANGED <<process, drain, pipe, timer, killer>>

\* readline fails to decode what TShark wrote: every other exception goes the same way.
ReadFails ==
    /\ reader = "read" /\ read < written
    /\ reader' = "raise" /\ outcome' = "failed"
    /\ UNCHANGED <<process, drain, pipe, timer, killer>>

ProcessHasEnded ==
    /\ reader = "wait" /\ proc \in Ended
    /\ reader' = "verdict"
    /\ UNCHANGED <<process, drain, pipe, outcome, timer, killer>>

WaitElapsed ==  \* proc.wait(timeout=2)
    /\ reader = "wait" /\ proc = "running"
    /\ reader' = "verdict" /\ TerminateProcess("reader")
    /\ UNCHANGED <<written, stdout_closed, warnings, drain, pipe, outcome, timer>>

MutantInTime == \* no second look at the event
    /\ reader = "verdict"
    /\ reader' = "code"
    /\ UNCHANGED <<process, drain, pipe, outcome, timer, killer>>

InTime ==
    /\ reader = "verdict" /\ ~watchdog_triggered
    /\ reader' = "code"
    /\ UNCHANGED <<process, drain, pipe, outcome, timer, killer>>

MutantSucceeds == TRUE      \* the return code is not looked at

Succeeds == proc = "ok"      \* return_code = 0

ReturnCode ==
    /\ reader = "code"
    /\ IF Succeeds THEN reader' = "finally" /\ outcome' = "completed"
                   ELSE reader' = "raise"   /\ outcome' = "execution_error"
    /\ UNCHANGED <<process, drain, pipe, timer, killer>>

Raise ==        \* both except clauses
    /\ reader = "raise"
    /\ reader' = "finally" /\ TerminateProcess("reader")
    /\ UNCHANGED <<written, stdout_closed, warnings, drain, pipe, outcome, timer>>

MutantFinally == \* the process is left to the except clauses
    /\ reader = "finally"
    /\ reader' = "over"
    /\ watchdog' = IF watchdog = "armed" THEN "cancelled" ELSE watchdog
    /\ UNCHANGED <<process, drain, pipe, outcome, watchdog_triggered, killer>>

Finally ==
    /\ reader = "finally"
    /\ reader' = "over" /\ TerminateProcess("reader")
    /\ watchdog' = IF watchdog = "armed" THEN "cancelled" ELSE watchdog
    /\ UNCHANGED <<written, stdout_closed, warnings, drain, pipe, outcome, watchdog_triggered>>

Reader ==
    \/ Refuse \/ Popen \/ ReadLine \/ ReadTornLine \/ ReadEof
    \/ TimedOut("check") \/ TimedOut("verdict") \/ Yield \/ Skip \/ Resume \/ Abandon
    \/ ReadFails \/ ProcessHasEnded \/ WaitElapsed \/ InTime \/ ReturnCode \/ Raise \/ Finally
-------------------------------------------------------------------------------
\* The watchdog: poll, set the event, terminate; other threads run in between.

Fire ==
    /\ watchdog = "armed"
    /\ watchdog' = IF proc = "running" THEN "firing" ELSE "over"
    /\ UNCHANGED <<process, drain, reader, pipe, outcome, watchdog_triggered, killer>>

Trigger ==
    /\ watchdog = "firing"
    /\ watchdog' = "triggered" /\ watchdog_triggered' = TRUE
    /\ UNCHANGED <<process, drain, reader, pipe, outcome, killer>>

MutantTerminate == \* the event alone is to stop the reader
    /\ watchdog = "triggered"
    /\ watchdog' = "over"
    /\ UNCHANGED <<process, drain, reader, pipe, outcome, watchdog_triggered, killer>>

Terminate ==
    /\ watchdog = "triggered"
    /\ watchdog' = "over" /\ TerminateProcess("watchdog")
    /\ UNCHANGED <<written, stdout_closed, warnings, drain, reader, pipe, outcome, watchdog_triggered>>

Watchdog == Fire \/ Trigger \/ Terminate

\* drain_stderr reads until the end and keeps the last lines.
MutantDrainStderr == \* reads as many lines as it keeps
    /\ stderr > 0 /\ stderr_lines < KeptLines
    /\ stderr' = stderr - 1
    /\ stderr_lines' = stderr_lines + 1
    /\ UNCHANGED <<process, reader, pipe, outcome, timer, killer>>

DrainStderr ==
    /\ stderr > 0
    /\ stderr' = stderr - 1
    /\ stderr_lines' = IF stderr_lines < KeptLines THEN stderr_lines + 1 ELSE KeptLines
    /\ UNCHANGED <<process, reader, pipe, outcome, timer, killer>>

Next == TShark \/ Reader \/ Watchdog \/ DrainStderr

Spec == Init /\ [][Next]_vars

\* Threads are scheduled and timers expire; nothing is assumed of TShark.
FairSpec == Spec /\ WF_vars(Reader) /\ WF_vars(Watchdog) /\ WF_vars(DrainStderr)
-------------------------------------------------------------------------------
\* A dissection that ends without an exception is a whole one: TShark ended by itself
\* with code 0 and every packet it wrote was handed on.  Neither a watchdog that fires at
\* any point, nor a torn line, nor a process that lingers may pass for the end of the
\* capture: the report would be about half of it.
CompleteIsWhole == outcome = "completed" => proc = "ok" /\ delivered = Packets

\* What the watchdog has cut short is told as a timeout, not as a failure of TShark,
\* wherever the reader was when the process was killed under it and somebody still listens.
KillIsTold ==
    killer = "watchdog" /\ reader = "over" => outcome \in {"timeout", "failed", "abandoned"}

\* However the call ends, given up by its caller too, TShark has ended and no
\* timer is left to fire at a process that is somebody else's by then.
NoOrphan ==
    reader = "over" /\ outcome # "refused" => proc \in Ended /\ watchdog # "armed"

\* A TShark that stalls, blocks on a pipe or lingers does not hang the analysis, and is
\* itself never left blocked on stderr, however much it has to say.
RunEnds ==
    /\ (reader # "start") ~> (reader = "over")
    /\ (stderr = StderrPipe) ~> (stderr < StderrPipe)
===============================================================================
