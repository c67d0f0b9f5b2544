---------------------------- MODULE TsharkRunProofs ----------------------------
(***************************************************************************)
(* Proofs about TsharkRun for every capture, every size of the two pipes   *)
(* and every number of warnings.  The three promises rest on what each     *)
(* place of the reader guarantees about the process it reads from, and on  *)
(* the fact that nothing happens any more to a process that has ended.     *)
(***************************************************************************)
EXTENDS TsharkRun, TLAPS

\* The process: its output is in order, and it is stopped within a line only where it
\* still had one to write.
ProcessFits ==
    /\ read <= written
    /\ stdout_closed \/ proc = "ok" => written = N /\ ~torn
    /\ torn => proc \in Ended
    /\ proc = "none" <=> reader = "start" \/ outcome = "refused"

\* The packets handed on are those of the lines read, but for the one being examined;
\* a timeout leaves that one out.
DeliveredFits ==
    outcome # "timeout" =>
        delivered = {i \in Packets : i <= read /\ (reader = "check" => i # line)}

\* While a line is examined it is the last one read, or a torn one.
LineFits == reader = "check" => line \in {0, read}

\* Behind the loop nothing more is to come; behind wait() the process has ended.
PlaceFits ==
    /\ reader \in {"wait", "verdict", "code"} => EndOfOutput
    /\ reader \in {"verdict", "code"} => proc \in Ended

\* The outcome fits the place, and a call that ended by the return code did so behind the
\* end of the output, with a process the watchdog had not killed.
OutcomeFits ==
    /\ outcome = "none" <=> reader \notin {"raise", "finally", "over"}
    /\ outcome = "refused" => reader = "over"
    /\ reader = "raise" => outcome # "completed"
    /\ outcome \in {"completed", "execution_error"} => EndOfOutput /\ proc \in Ended
    /\ outcome = "completed" => proc = "ok"

\* The watchdog kills only behind its event, and its kill is never read as a return code.
KillerFits ==
    /\ killer # "nobody" <=> proc = "killed"
    /\ watchdog = "triggered" \/ killer = "watchdog" => watchdog_triggered
    /\ reader = "code" \/ outcome \in {"completed", "execution_error"} => killer # "watchdog"

\* The invariant of a run.
RunInv ==
    /\ TypeOK /\ ProcessFits /\ DeliveredFits /\ LineFits
    /\ PlaceFits /\ OutcomeFits /\ KillerFits /\ NoOrphan

\* A run starts with nothing launched.
LEMMA InitRunInv == Init => RunInv
<1> SUFFICES ASSUME Init PROVE RunInv
  OBVIOUS
<1> USE RunAssumption DEF Init
<1>1. TypeOK
  <2>1. /\ written \in 0..N /\ read \in 0..N /\ line \in 0..N
        /\ warnings \in 0..MaxWarnings /\ stderr \in 0..StderrPipe
        /\ stderr_lines \in 0..KeptLines
    OBVIOUS
  <2> QED
    BY <2>1 DEF TypeOK
<1>2. DeliveredFits
  <2>1. \A i \in Packets : ~(i <= 0)
    BY DEF Packets
  <2> QED
    BY <2>1 DEF DeliveredFits
<1> QED
  BY <1>1, <1>2 DEF RunInv, ProcessFits, LineFits, PlaceFits, OutcomeFits, KillerFits, NoOrphan

\* A process that is killed or crashes may leave a torn line, but not behind the end of
\* its output.
LEMMA DiesTorn ==
    ASSUME TypeOK, NEW how, Dies(how)
    PROVE  proc' = how /\ torn' \in BOOLEAN /\ (torn' # torn => torn' /\ Unfinished)
  BY DEF TypeOK, Dies

\* The invariant is kept by each thread, action by action.
LEMMA TSharkPreserves == ASSUME RunInv, TShark PROVE RunInv'
<1> USE RunAssumption
    DEF RunInv, TypeOK, ProcessFits, DeliveredFits, LineFits, PlaceFits, EndOfOutput, OutcomeFits,
        KillerFits, NoOrphan, process, drain, pipe, timer, Ended, Packets
<1>1. CASE WriteLine
  BY <1>1 DEF WriteLine, Unfinished, StdoutFull
<1>2. CASE Warn
  BY <1>2 DEF Warn
<1>3. CASE CloseStdout
  BY <1>3 DEF CloseStdout
<1>4. CASE Exit
  BY <1>4 DEF Exit
<1>5. CASE Crash
  <2>1. /\ UNCHANGED <<written, stdout_closed, warnings, drain, reader, pipe, outcome,
                      timer, killer>>
        /\ proc = "running" /\ proc' = "failed"
        /\ torn' \in BOOLEAN /\ (torn' # torn => torn' /\ Unfinished)
    BY <1>5, DiesTorn DEF Crash
  <2> QED
    BY <2>1 DEF Unfinished
<1> QED
  BY <1>1, <1>2, <1>3, <1>4, <1>5 DEF TShark

\* A torn line counts for nothing: the packets handed on are still those of the lines read.
LEMMA TornLinePreserves == ASSUME RunInv, ReadTornLine PROVE RunInv'
<1> USE RunAssumption DEF RunInv, TypeOK, ReadTornLine, process, drain, pipe, timer
<1>1. DeliveredFits'
  <2>1. \A i \in Packets : i # 0
    BY DEF Packets
  <2>2. /\ reader = "read" /\ reader' = "check" /\ line' = 0
        /\ UNCHANGED <<read, delivered, outcome>>
    OBVIOUS
  <2> QED
    BY <2>1, <2>2 DEF DeliveredFits
<1>2. TypeOK'
  <2>1. 0 \in 0..N
    OBVIOUS
  <2>2. /\ line' = 0 /\ torn' = FALSE /\ reader' = "check"
        /\ UNCHANGED <<proc, written, stdout_closed, warnings, drain, read, delivered, outcome,
                       timer, killer>>
    OBVIOUS
  <2> QED
    BY <2>1, <2>2, Zenon
<1>3. LineFits' /\ PlaceFits'
  BY DEF LineFits, PlaceFits
<1>4. ProcessFits' /\ OutcomeFits' /\ KillerFits' /\ NoOrphan'
  BY DEF ProcessFits, EndOfOutput, OutcomeFits, KillerFits, NoOrphan, Ended
<1> QED
  BY <1>1, <1>2, <1>3, <1>4

\* The reader ends the process on its way out, by an except clause or by the finally.
LEMMA TerminationPreserves ==
    ASSUME RunInv, TerminateProcess("reader"),
           \/ reader = "raise" /\ reader' = "finally" /\ UNCHANGED timer
           \/ /\ reader = "finally" /\ reader' = "over"
              /\ watchdog' = IF watchdog = "armed" THEN "cancelled" ELSE watchdog
              /\ watchdog_triggered' = watchdog_triggered,
           UNCHANGED <<written, stdout_closed, warnings, drain, pipe, outcome>>
    PROVE  RunInv'
<1>1. /\ torn' \in BOOLEAN /\ (torn' # torn => torn' /\ Unfinished)
      /\ proc' = IF proc = "running" THEN "killed" ELSE proc
      /\ killer' = IF proc = "running" THEN "reader" ELSE killer
  <2>1. CASE proc = "running"
    BY <2>1, DiesTorn DEF TerminateProcess, RunInv
  <2>2. CASE proc # "running"
    BY <2>2 DEF TerminateProcess, RunInv, TypeOK
  <2> QED
    BY <2>1, <2>2
<1>2. /\ reader \in {"raise", "finally"} /\ reader' \in {"finally", "over"}
      /\ reader' = "over" <=> reader = "finally"
      /\ watchdog' \in {watchdog, "cancelled"} /\ (reader' = "over" => watchdog' # "armed")
      /\ watchdog_triggered' = watchdog_triggered
  BY DEF timer
<1> USE RunAssumption DEF RunInv
<1>3. TypeOK'
  <2>1. UNCHANGED <<written, stdout_closed, warnings, stderr, stderr_lines, line, read, delivered,
                    outcome>>
    BY DEF drain, pipe
  <2>2. /\ proc' \in {"none", "running"} \cup Ended /\ torn' \in BOOLEAN
        /\ killer' \in {"nobody", "reader", "watchdog"}
    BY <1>1 DEF TypeOK, Ended
  <2>3. /\ watchdog' \in {"idle", "armed", "firing", "triggered", "over", "cancelled"}
        /\ watchdog_triggered' \in BOOLEAN
    BY <1>2 DEF TypeOK
  <2> QED
    BY <1>2, <2>1, <2>2, <2>3 DEF TypeOK
<1>4. proc' \in Ended /\ proc # "none"
  BY <1>1, <1>2 DEF TypeOK, Ended, ProcessFits, OutcomeFits
<1>5. ProcessFits'
  BY <1>1, <1>2, <1>4 DEF ProcessFits, pipe, Unfinished, Ended, TypeOK, OutcomeFits
<1>6. DeliveredFits' /\ LineFits' /\ PlaceFits'
  BY <1>2 DEF DeliveredFits, LineFits, PlaceFits, pipe
<1>7. OutcomeFits'
  BY <1>1, <1>2, <1>4 DEF OutcomeFits, EndOfOutput, pipe, Ended, Unfinished
<1>8. KillerFits' /\ NoOrphan'
  BY <1>1, <1>2, <1>4 DEF KillerFits, NoOrphan, Ended
<1> QED
  BY <1>3, <1>5, <1>6, <1>7, <1>8

\* Each step of the reading thread keeps the invariant,
LEMMA ReaderPreserves == ASSUME RunInv, Reader PROVE RunInv'
<1> USE RunAssumption
    DEF RunInv, TypeOK, ProcessFits, DeliveredFits, LineFits, PlaceFits, EndOfOutput, OutcomeFits,
        KillerFits, NoOrphan, process, drain, pipe, timer, Ended, Packets
<1>1. CASE Refuse
  BY <1>1 DEF Refuse
<1>2. CASE Popen
  BY <1>2 DEF Popen
<1>3. CASE ReadLine
  BY <1>3 DEF ReadLine
<1>4. CASE ReadTornLine
  BY <1>4, TornLinePreserves
<1>5. CASE ReadEof
  BY <1>5 DEF ReadEof
<1>6. CASE TimedOut("check")
  BY <1>6 DEF TimedOut
<1>7. CASE TimedOut("verdict")
  BY <1>7 DEF TimedOut
<1>8. CASE Yield
  BY <1>8 DEF Yield, parse_line
<1>9. CASE Skip
  BY <1>9 DEF Skip, parse_line
<1>10. CASE Resume
  BY <1>10 DEF Resume
<1>11. CASE ReadFails
  BY <1>11 DEF ReadFails
<1>12. CASE ProcessHasEnded
  BY <1>12 DEF ProcessHasEnded
<1>13. CASE WaitElapsed
  BY <1>13 DEF WaitElapsed, TerminateProcess, Dies, Unfinished, StdoutFull
<1>14. CASE InTime
  BY <1>14 DEF InTime
<1>15. CASE ReturnCode
  BY <1>15 DEF ReturnCode, Succeeds
<1>16. CASE Raise
  <2>1. /\ reader = "raise" /\ reader' = "finally"
        /\ UNCHANGED <<written, stdout_closed, warnings, drain, pipe, outcome, timer>>
    BY <1>16 DEF Raise
  <2>2. TerminateProcess("reader")
    BY <1>16 DEF Raise
  <2> QED
    BY <2>1, <2>2, TerminationPreserves
<1>17. CASE Finally
  <2>1. /\ reader = "finally" /\ reader' = "over"
        /\ UNCHANGED <<written, stdout_closed, warnings, drain, pipe, outcome>>
    BY <1>17 DEF Finally
  <2>2. TerminateProcess("reader")
    BY <1>17 DEF Finally
  <2>3. /\ watchdog' = IF watchdog = "armed" THEN "cancelled" ELSE watchdog
        /\ watchdog_triggered' = watchdog_triggered
    BY <1>17 DEF Finally
  <2> QED
    BY <2>1, <2>2, <2>3, TerminationPreserves
<1>18. CASE Abandon
  BY <1>18 DEF Abandon
<1> QED
  BY <1>1, <1>2, <1>3, <1>4, <1>5, <1>6, <1>7, <1>8, <1>9, <1>10, <1>11, <1>12, <1>13,
     <1>14, <1>15, <1>16, <1>17, <1>18 DEF Reader

\* ... and each of the watchdog.
LEMMA WatchdogPreserves == ASSUME RunInv, Watchdog PROVE RunInv'
<1> USE RunAssumption
    DEF RunInv, TypeOK, ProcessFits, DeliveredFits, LineFits, PlaceFits, EndOfOutput, OutcomeFits,
        KillerFits, NoOrphan, process, drain, pipe, timer, Ended, Packets
<1>1. CASE Fire
  BY <1>1 DEF Fire
<1>2. CASE Trigger
  BY <1>2 DEF Trigger
<1>3. CASE Terminate
  <2>1. CASE proc = "running"
    <3>1. proc' = "killed" /\ torn' \in BOOLEAN /\ (torn' # torn => torn' /\ Unfinished)
      BY <1>3, <2>1, DiesTorn DEF Terminate, TerminateProcess
    <3>2. /\ UNCHANGED <<written, stdout_closed, warnings, drain, reader, pipe, outcome,
                          watchdog_triggered>>
          /\ watchdog = "triggered" /\ watchdog' = "over" /\ killer' = "watchdog"
      BY <1>3, <2>1 DEF Terminate, TerminateProcess
    <3> QED
      BY <2>1, <3>1, <3>2 DEF Unfinished
  <2>2. CASE proc # "running"
    BY <1>3, <2>2 DEF Terminate, TerminateProcess
  <2> QED
    BY <2>1, <2>2
<1> QED
  BY <1>1, <1>2, <1>3 DEF Watchdog

\* RunInv holds throughout: process, reader, stderr thread and watchdog fit together
\* in every interleaving of dissect_packets_stream.
THEOREM Invariance == Spec => []RunInv
<1>1. RunInv /\ [Next]_vars => RunInv'
  <2> SUFFICES ASSUME RunInv, [Next]_vars PROVE RunInv'
    OBVIOUS
  <2>1. CASE DrainStderr
    BY <2>1, RunAssumption
       DEF DrainStderr, RunInv, TypeOK, process, pipe, timer, ProcessFits, DeliveredFits,
           LineFits, PlaceFits, EndOfOutput, OutcomeFits, KillerFits, NoOrphan
  <2>2. CASE UNCHANGED vars
    BY <2>2 DEF vars, RunInv, TypeOK, process, drain, pipe, timer, ProcessFits, DeliveredFits,
           LineFits, PlaceFits, EndOfOutput, OutcomeFits, KillerFits, NoOrphan
  <2> QED
    BY <2>1, <2>2, TSharkPreserves, ReaderPreserves, WatchdogPreserves DEF Next
<1> QED
  BY <1>1, InitRunInv, PTL DEF Spec
-------------------------------------------------------------------------------
\* A dissection that ends without an exception is a whole one, for every capture and at
\* every moment at which the watchdog, a crash or a torn line may come between.
THEOREM CompleteWhole == Spec => []CompleteIsWhole
<1>1. RunInv => CompleteIsWhole
  <2> SUFFICES ASSUME RunInv, outcome = "completed"
               PROVE  proc = "ok" /\ delivered = Packets
    BY DEF CompleteIsWhole
  <2>1. proc = "ok" /\ read = N /\ reader # "check"
    BY DEF RunInv, ProcessFits, OutcomeFits, EndOfOutput
  <2>2. \A i \in Packets : i <= N
    BY RunAssumption DEF Packets
  <2> QED
    BY <2>1, <2>2 DEF RunInv, DeliveredFits
<1> QED
  BY <1>1, Invariance, PTL

\* A run the watchdog has cut short is told to a caller that still listens as a timeout or
\* as a failure to read, never as a failure of TShark and never as complete.
THEOREM KillTold == Spec => []KillIsTold
<1>1. RunInv => KillIsTold
  BY DEF RunInv, TypeOK, ProcessFits, OutcomeFits, KillerFits, KillIsTold
<1> QED
  BY <1>1, Invariance, PTL

\* No TShark and no armed timer outlives the call that started them.
THEOREM NoneLeft == Spec => []NoOrphan
<1>1. RunInv => NoOrphan
  BY DEF RunInv
<1> QED
  BY <1>1, Invariance, PTL
===============================================================================
