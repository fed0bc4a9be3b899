------------------------------ MODULE AsyncLog ------------------------------
(***************************************************************************)
(* base/AsyncLogging over base/LogFile: threads append lines to a current  *)
(* buffer, the logging thread swaps the filled buffers out and writes them *)
(* to a file that is rolled by size and by period.                         *)
(*                                                                         *)
(* A critical section of mutex_ is one step.  A wait ends by a notify, the *)
(* flush interval or spuriously, so the waiting thread may go on at any    *)
(* time.  FixedBuffer holds BufferLines lines.  The disk may refuse what is *)
(* written to it; a line that is cut off counts as refused.  What fopen    *)
(* refuses is left out: an assertion then ends the server.                 *)
(*                                                                         *)
(* History variables: appended, dropped.                                   *)
(***************************************************************************)
EXTENDS Integers, Sequences, FiniteSets, Functions

CONSTANTS
  Loggers,     \* threads that log
  PerLogger,   \* bound: lines of each
  BufferLines, \* lines that fit a buffer
  DropLimit,   \* more buffers than this are dropped (25)
  RollSize,    \* lines after which the file is rolled
  MaxLogTime,  \* bound: the clock
  MaxDiskFaults \* bound: writes the disk refuses

VARIABLES
  logRunning,  \* running_
  current,     \* currentBuffer_
  spare,       \* nextBuffer_ is there
  filled,      \* buffers_
  logPc,       \* where the logging thread is
  new1, new2,  \* newBuffer1 and newBuffer2 are there
  toWrite,     \* buffersToWrite
  stdio,       \* what fwrite holds back
  disk,        \* the files, oldest first: the second in their name and their lines
  written,     \* AppendFile::writtenBytes_
  logTime,     \* time(NULL)
  refilled,    \* newBuffer1 and newBuffer2 were never taken from an empty vector
  appended,    \* history: lines in the order they were appended
  dropped,     \* history: lines dropped on overload or refused by the disk
  diskFaults   \* writes the disk refused

logVars == <<logRunning, current, spare, filled, logPc, new1, new2, toWrite, stdio, disk, written,
             logTime, refilled, appended, dropped, diskFaults>>
fileVars == <<stdio, disk, written, diskFaults>>
frontVars == <<current, spare, filled, appended>>

Init ==
  /\ logRunning = FALSE
  /\ current = <<>> /\ spare = TRUE /\ filled = <<>>
  /\ logPc = "new" /\ new1 = TRUE /\ new2 = TRUE /\ toWrite = <<>>
  /\ stdio = <<>> /\ disk = <<>> /\ written = 0
  /\ logTime = 1 /\ refilled = TRUE
  /\ appended = <<>> /\ dropped = {} /\ diskFaults = 0

\* start(): the thread runs before start returns; LogFile opens its first file.
Start ==
  /\ logPc = "new"
  /\ logRunning' = TRUE /\ logPc' = "loop"
  /\ disk' = <<[name |-> logTime, lines |-> <<>>]>>
  /\ UNCHANGED <<current, spare, filled, new1, new2, toWrite, stdio, written, logTime, refilled,
                 appended, dropped, diskFaults>>

\* append() of a thread's next line.
AppendLine(t) ==
  LET n == Cardinality({i \in 1 .. Len(appended) : appended[i][1] = t})
      line == <<t, n + 1>>
  IN /\ n < PerLogger
     /\ appended' = Append(appended, line)
     /\ IF Len(current) < BufferLines
        THEN current' = Append(current, line) /\ UNCHANGED <<spare, filled>>
        ELSE current' = <<line>> /\ filled' = Append(filled, current) /\ spare' = FALSE
     /\ UNCHANGED <<logRunning, logPc, new1, new2, toWrite, fileVars, logTime, refilled, dropped>>

-----------------------------------------------------------------------------
(* The logging thread *)

\* Mutant: the current buffer is put in front.
Swapped_CurrentFirst == <<current>> \o filled

Swapped == Append(filled, current)

\* One round: take what is there, leave empty buffers behind.
Collect ==
  /\ logPc \in {"loop", "wait"}
  /\ logPc = "loop" => logRunning /\ filled # <<>>
  /\ toWrite' = Swapped /\ filled' = <<>>
  /\ current' = <<>> /\ new1' = FALSE
  /\ IF spare THEN UNCHANGED <<spare, new2>> ELSE spare' = TRUE /\ new2' = FALSE
  /\ logPc' = "write"
  /\ UNCHANGED <<logRunning, fileVars, logTime, refilled, appended, dropped>>

\* Nothing is filled: wait for a notify or the flush interval.
Wait ==
  /\ logPc = "loop" /\ logRunning /\ filled = <<>>
  /\ logPc' = "wait"
  /\ UNCHANGED <<logRunning, frontVars, new1, new2, toWrite, fileVars, logTime, refilled, dropped>>

\* Buffers that are left of an overload.
Kept == 2

LinesOf(bufs) == UNION {{bufs[i][j] : j \in DOMAIN bufs[i]} : i \in DOMAIN bufs}

\* Too many buffers: all but the first two are thrown away.
Drop ==
  /\ logPc = "write" /\ Len(toWrite) > DropLimit
  /\ toWrite' = SubSeq(toWrite, 1, Kept)
  /\ dropped' = dropped \cup LinesOf(SubSeq(toWrite, Kept + 1, Len(toWrite)))
  /\ logPc' = "append"
  /\ UNCHANGED <<logRunning, frontVars, new1, new2, fileVars, logTime, refilled>>

NoDrop ==
  /\ logPc = "write" /\ Len(toWrite) <= DropLimit
  /\ logPc' = "append"
  /\ UNCHANGED <<logRunning, frontVars, new1, new2, toWrite, fileVars, logTime, refilled, dropped>>

\* What is in the open file once stdio is flushed or the file closed.
Flushed(s) == [disk EXCEPT ![Len(disk)].lines = @ \o s]

\* Of the lines s that are passed on the disk takes the first n.  The others are
\* gone: AppendFile::append gives up on an error, flush and fclose do not look
\* for one, and stdio keeps nothing of a write that failed (external).
DiskTakes(s, n) ==
  /\ n < Len(s) => diskFaults < MaxDiskFaults
  /\ diskFaults' = IF n < Len(s) THEN diskFaults + 1 ELSE diskFaults
  /\ dropped' = dropped \cup LinesOf(<<SubSeq(s, n + 1, Len(s))>>)
  /\ stdio' = <<>>

\* The next buffer goes to LogFile::append, of which m lines count as written.
\* The file is rolled when it is too long or its period is over, unless it was
\* rolled within this second; else stdio keeps the lines back, or passes them on
\* when it is full or LogFile flushes it.
WriteBuffer(newPeriod, pass) ==
  LET held == stdio \o Head(toWrite)
      last == disk[Len(disk)]
  IN /\ logPc = "append" /\ \E i \in 1 .. Len(toWrite) : toWrite[i] # <<>>
     /\ toWrite' = Append(Tail(toWrite), <<>>)
     /\ \E n \in 0 .. Len(held), m \in 0 .. Len(Head(toWrite)) :
          LET rolls == (written + m > RollSize \/ newPeriod) /\ logTime > last.name
          IN /\ n = Len(held) => m = Len(Head(toWrite))
             /\ IF rolls \/ pass
                THEN /\ DiskTakes(held, n)
                     /\ disk' = Flushed(SubSeq(held, 1, n))
                                  \o IF rolls THEN <<[name |-> logTime, lines |-> <<>>]>> ELSE <<>>
                ELSE /\ n = Len(held)
                     /\ stdio' = held
                     /\ UNCHANGED <<disk, dropped, diskFaults>>
             /\ written' = IF rolls THEN 0 ELSE written + m
     /\ UNCHANGED <<logRunning, frontVars, logPc, new1, new2, logTime, refilled>>

\* Buffers resize(2) leaves for newBuffer1 and newBuffer2.
Left == IF Len(toWrite) > 2 THEN 2 ELSE Len(toWrite)
Missing == (IF new1 THEN 0 ELSE 1) + (IF new2 THEN 0 ELSE 1)

EndOfRound ==
  \E n \in 0 .. Len(stdio) : DiskTakes(stdio, n) /\ disk' = Flushed(SubSeq(stdio, 1, n))

\* newBuffer1 and newBuffer2 are taken back, and the file is flushed.
Refill ==
  /\ logPc = "append" /\ \A i \in 1 .. Len(toWrite) : toWrite[i] = <<>>
  /\ refilled' = (refilled /\ Missing <= Left)
  /\ new1' = TRUE /\ new2' = TRUE /\ toWrite' = <<>>
  /\ EndOfRound
  /\ logPc' = "loop"
  /\ UNCHANGED <<logRunning, frontVars, written, logTime>>

\* running_ is false: the last flush, and the thread ends.
Exit ==
  /\ logPc = "loop" /\ ~ logRunning
  /\ EndOfRound
  /\ logPc' = "ended"
  /\ UNCHANGED <<logRunning, frontVars, new1, new2, toWrite, written, logTime, refilled>>

\* stop()
Stop ==
  /\ logRunning
  /\ logRunning' = FALSE
  /\ UNCHANGED <<frontVars, logPc, new1, new2, toWrite, fileVars, logTime, refilled, dropped>>

Tick ==
  /\ logTime < MaxLogTime
  /\ logTime' = logTime + 1
  /\ UNCHANGED <<logRunning, frontVars, logPc, new1, new2, toWrite, fileVars, refilled, dropped>>

LoggingThread ==
  \/ Collect \/ Wait \/ Drop \/ NoDrop \/ Refill \/ Exit
  \/ \E newPeriod, pass \in BOOLEAN : WriteBuffer(newPeriod, pass)

Next == Start \/ Stop \/ Tick \/ LoggingThread \/ \E t \in Loggers : AppendLine(t)

\* The logging thread is scheduled; its wait is timed.
Fairness == WF_logVars(LoggingThread)

Spec == Init /\ [][Next]_logVars /\ Fairness

-----------------------------------------------------------------------------
(* Properties *)

OnDisk == [i \in 1 .. Len(disk) |-> disk[i].lines]

\* Everything a line passes through, the oldest lines first.
Chain == OnDisk \o <<stdio>> \o toWrite \o filled \o <<current>>

\* Line x was appended before line y.
Before(x, y) == \E i, j \in 1 .. Len(appended) : i < j /\ appended[i] = x /\ appended[j] = y

InOrder(bufs) ==
  \A i, j \in 1 .. Len(bufs) : \A k \in 1 .. Len(bufs[i]), m \in 1 .. Len(bufs[j]) :
    i < j \/ (i = j /\ k < m) => Before(bufs[i][k], bufs[j][m])

\* Through the files, stdio and the buffers the lines stand in the order in
\* which they were appended, each once (one that stood twice would be before
\* itself), and only those dropped on overload or refused by the disk are missing.
LinesAccounted ==
  /\ InOrder(Chain)
  /\ LinesOf(Chain) = Range(appended) \ dropped

\* The logging thread always gets its two buffers back: the assertions before
\* buffersToWrite.back() hold, after an overload too.
BuffersComeBack == refilled

\* Lines appended while the logger runs get to the file without another line
\* being logged, unless they are dropped, the disk refuses them or the logger is
\* stopped.
LineIsFlushed ==
  LET AllOnDisk == Range(appended) \subseteq dropped \cup LinesOf(OnDisk)
  IN (logRunning /\ ~ AllOnDisk) ~> (~ logRunning \/ AllOnDisk)

\* AsyncLogging and LogFile lose neither lines nor buffers, but for an overload
\* and what the disk refuses.
LogSound ==
  /\ LinesAccounted
  /\ BuffersComeBack
=============================================================================
