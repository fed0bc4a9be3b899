---------------------------- MODULE MCServerCore ----------------------------
(***************************************************************************)
(* The library of the C++ server for TLC: its loops, queues and framing.   *)
(* They share no state, so each is left in an initial state while the one  *)
(* that `part' names runs: the behaviours are those of every component,    *)
(* side by side, and a property of one of them holds here iff it holds of  *)
(* its own specification.                                                  *)
(***************************************************************************)
EXTENDS Integers, Sequences, FiniteSets

CONSTANTS
  Base, IoLoops, Senders, Conns, MaxMsgs, MaxIn, MaxRefused, None,
  Addrs, Delays, MaxSeq, MaxTime, MaxCancels,
  Workers, Producers, PerProducer, Capacity,
  CheapPrepend, InitialSize, ExtraBuf, MaxLen, BodySizes, Damages, MaxFrames,
  Loggers, PerLogger, BufferLines, DropLimit, RollSize, MaxLogTime, MaxDiskFaults,
  InitDelay, MaxDelay, MaxFlaps,
  Fds, MaxChannels,
  KnownDates, WalkDays, ClockTimes, MaxEpochDays,
  Offsets, MaxTypes, MaxTrans, MaxUtc, Apart

VARIABLE part  \* the component that runs

\* Connections
VARIABLES
  started, listening, nextLoop, loopOf, cstate, chan, tcpmap, live, peer, rx, ins, outbuf,
  wire, fin, phase, active, pending, batch, done, wake, owes, sender, msgs, refused,
  accepted, removed, dangling, failed

\* Timers
VARIABLES
  clock, heap, timers, actives, canceling, calling, expired, ran, readAt, armed, ops,
  created, cancels, issued, reading, held, cancelled, fired, gone, early

\* WorkQueue
VARIABLES
  kind, running, starting, latch, wpc, ppc, put, queue, holding, queued, taken, stopping

\* Framing
VARIABLES
  input, ahead, decoding, shut, sent, built, delivered

\* AsyncLog
VARIABLES
  logRunning, current, spare, filled, logPc, new1, new2, toWrite, stdio, disk, written,
  logTime, refilled, appended, dropped, diskFaults

\* Connector
VARIABLES
  retryOn, clientWants, wants, conState, attempt, delay, retryTimers, link, conQueue,
  conBatch, conPhase, ready, user, serverUp, flaps, gaveUp, overtaken, broken

\* Pollers
VARIABLES
  pollKind, chans, chanMap, pollfds, interest, blank, pollFailed

\* Calendar
VARIABLES
  date, day, walked

\* Zones
VARIABLES
  localtimes, transitions

Co == INSTANCE Connections
Ti == INSTANCE Timers
Wq == INSTANCE WorkQueue WITH accepted <- queued
Fr == INSTANCE Framing
Lo == INSTANCE AsyncLog
Cn == INSTANCE Connector
Po == INSTANCE Pollers
Ca == INSTANCE Calendar
Zo == INSTANCE Zones

connVars ==
  <<started, listening, nextLoop, loopOf, cstate, chan, tcpmap, live, peer, rx, ins,
    outbuf, wire, fin, phase, active, pending, batch, done, wake, owes, sender, msgs,
    refused, accepted, removed, dangling, failed>>
timerVars ==
  <<clock, heap, timers, actives, canceling, calling, expired, ran, readAt, armed, ops,
    created, cancels, issued, reading, held, cancelled, fired, gone, early>>
wqVars ==
  <<kind, running, starting, latch, wpc, ppc, put, queue, holding, queued, taken, stopping>>
framingVars ==
  <<input, ahead, decoding, shut, sent, built, delivered>>
logVars ==
  <<logRunning, current, spare, filled, logPc, new1, new2, toWrite, stdio, disk, written,
    logTime, refilled, appended, dropped, diskFaults>>
conVars ==
  <<retryOn, clientWants, wants, conState, attempt, delay, retryTimers, link, conQueue,
    conBatch, conPhase, ready, user, serverUp, flaps, gaveUp, overtaken, broken>>
pollerVars ==
  <<pollKind, chans, chanMap, pollfds, interest, blank, pollFailed>>
calVars ==
  <<date, day, walked>>
zoneVars ==
  <<localtimes, transitions>>

\* What the proofs need of the queues' sizes: a worker, producers that can be counted.
ASSUME QueueSizes == Workers /= {} /\ IsFiniteSet(Producers) /\ Capacity \in Nat

\* What they need of descriptors: none is negative.
ASSUME Descriptors == Fds \subseteq Nat

\* What they need of timers: addresses and delays are numbers, the heap is finite.
ASSUME TimerSettings == Addrs \subseteq Nat /\ IsFiniteSet(Addrs) /\ Delays \subseteq Nat

\* What they need of frames: room in front for the length, and the damages of Damaged.
ASSUME FrameSettings ==
  /\ CheapPrepend \in Nat /\ CheapPrepend >= 2 /\ InitialSize \in Nat
  /\ MaxLen \in Nat /\ BodySizes \subseteq Nat
  /\ Damages \subseteq {"short", "long", "sum", "tag", "body"}

\* What they need of loops: there is an IO loop, and no two threads of different kinds are one.
ASSUME LoopSettings ==
  /\ IoLoops \in Seq(Co!Range(IoLoops)) /\ IoLoops /= <<>> /\ Base \notin Co!Range(IoLoops)
  /\ Senders \cap Co!Loops = {}
  /\ None \notin Co!Loops \cup Conns

\* What they need of the log: at least one filled buffer is written out.
ASSUME LogSettings == DropLimit \in Nat \ {0}

\* What they need of dates: those to start from exist and have the numbers given for them.
ASSUME CalendarSettings ==
  /\ \A k \in KnownDates :
       /\ k.date \in [year : Nat, month : 1 .. 12, day : 1 .. 31]
       /\ k.date.day <= Ca!DaysIn(k.date.year, k.date.month)
       /\ Ca!GetJulianDayNumber(k.date) = k.number
  /\ ClockTimes \subseteq (0 .. 23) \X (0 .. 59) \X (0 .. 59)

\* What they need of zones: there is a least and a largest offset, and transitions are further
\* apart than offsets differ.
ASSUME ZoneSettings ==
  /\ Offsets \subseteq Int /\ Apart \in Nat /\ MaxUtc \in Nat
  /\ \E lo, hi \in Offsets : (\A o \in Offsets : lo <= o /\ o <= hi) /\ hi - lo < Apart

\* One IO loop; main's loop accepts.
OneIoLoop == <<"t2">>

\* The eve of 1970, of a leap year, and of two centuries that are not; the
\* numbers are those of astronomical tables.
Day(y, m, d, n) == [date |-> [year |-> y, month |-> m, day |-> d], number |-> n]
Epoch == Day(1969, 12, 31, 2440587)
SomeDates == {Epoch, Day(1899, 12, 31, 2415020), Day(1999, 12, 31, 2451544),
              Day(2099, 12, 31, 2488069)}
SomeTimes == {<<0, 0, 0>>, <<0, 0, 59>>, <<0, 59, 59>>, <<1, 0, 0>>, <<23, 59, 59>>}

-----------------------------------------------------------------------------
Init ==
  /\ part \in {"connections", "timers", "queues", "framing", "log", "connector",
             "pollers", "calendar", "zones"}
  /\ Co!Init
  /\ Ti!Init
  /\ Wq!Init
  /\ part # "queues" => kind = "pool"
  /\ Fr!Init
  /\ Lo!Init
  /\ Cn!Init
  /\ part # "connector" => retryOn /\ serverUp
  /\ Po!Init
  /\ part # "pollers" => pollKind = "epoll"
  /\ Ca!Init
  /\ part # "calendar" => date = Epoch.date
  /\ Zo!Init
  /\ part # "zones" => localtimes = <<0>>

\* The component that runs takes its step.
Steps(co, ti, wq, fr, lo, cn, po, ca, zo) ==
  /\ UNCHANGED part
  /\ IF part = "connections" THEN co ELSE UNCHANGED connVars
  /\ IF part = "timers" THEN ti ELSE UNCHANGED timerVars
  /\ IF part = "queues" THEN wq ELSE UNCHANGED wqVars
  /\ IF part = "framing" THEN fr ELSE UNCHANGED framingVars
  /\ IF part = "log" THEN lo ELSE UNCHANGED logVars
  /\ IF part = "connector" THEN cn ELSE UNCHANGED conVars
  /\ IF part = "pollers" THEN po ELSE UNCHANGED pollerVars
  /\ IF part = "calendar" THEN ca ELSE UNCHANGED calVars
  /\ IF part = "zones" THEN zo ELSE UNCHANGED zoneVars

Next == Steps(Co!Next, Ti!Next, Wq!Next, Fr!Next, Lo!Next, Cn!Next, Po!Next, Ca!Next, Zo!Next)

allVars == <<part, connVars, timerVars, wqVars, framingVars, logVars, conVars, pollerVars,
            calVars, zoneVars>>

\* The fairness of each component, side by side.
Fairness ==
  /\ WF_connVars(part = "connections" /\ Co!Boot)
  /\ \A l \in Co!Loops : WF_connVars(part = "connections" /\ Co!LoopStep(l))
  /\ \A t \in Senders : WF_connVars(part = "connections" /\ Co!SenderStep(t))
  /\ WF_timerVars(part = "timers" /\ Ti!Tick)
  /\ WF_timerVars(part = "timers" /\ Ti!LoopStep)
  /\ \A w \in Workers : WF_wqVars(part = "queues" /\ Wq!WorkerStep(w))
  /\ \A p \in Producers : WF_wqVars(part = "queues" /\ Wq!ProducerStep(p))
  /\ WF_wqVars(part = "queues" /\ Wq!StarterStep)
  /\ WF_framingVars(part = "framing" /\ \E n \in 1 .. Len(ahead) : Fr!Read(n))
  /\ WF_framingVars(part = "framing" /\ (Fr!Deliver \/ Fr!Reject \/ Fr!NeedMore))
  /\ WF_logVars(part = "log" /\ Lo!LoggingThread)
  /\ WF_conVars(part = "connector" /\ broken = {} /\ Cn!LoopStep)
  /\ WF_conVars(part = "connector" /\ broken = {} /\ (Cn!Disconnect \/ Cn!StopFlag \/ Cn!StopQueue))

Spec == Init /\ [][Next]_allVars /\ Fairness

-----------------------------------------------------------------------------
(* Properties: those of the component that runs. *)

\* EventLoop, TcpServer and TcpConnection hold together, whichever thread sends
\* or closes when: no loop sleeps on queued functors, no connection is closed
\* twice, freed while polled or used afterwards (but for late sends), and the
\* wire gets what was sent.
ConnectionsSound == part = "connections" => Co!ConnectionsSound

\* TimerQueue keeps its two indices, its timerfd and its cancellations in step,
\* also when a callback cancels timers and an address is reused.
TimersSound == part = "timers" => Ti!TimersSound

\* ThreadPool and the blocking queues lose neither a wakeup nor a task.
QueueSound == part = "queues" => Wq!QueueSound

\* ProtobufCodecLite and Buffer: of any cut and damaged stream the sound frames
\* are delivered in order, and no assertion of Buffer fails.
FramingSound == part = "framing" => Fr!FramingSound

\* AsyncLogging and LogFile lose neither lines nor buffers, but for an overload
\* and what the disk refuses.
LogSound == part = "log" => Lo!LogSound

\* However retry timers, attempts, stop and restart of Connector meet, there is
\* one attempt at most and none after stop.
ConnectorSound == part = "connector" => Cn!ConnectorSound

\* EPollPoller and PollPoller watch what the channels ask for, through removals
\* and reused descriptors, and their calls succeed.
PollersSound == part = "pollers" => Po!PollersSound

\* Dates and times: days are counted, seconds broken up and local times read
\* as the calendar and the zone have them.
TimesAreRight ==
  /\ part = "calendar" => Ca!DatesAreRight
  /\ part = "zones" => Zo!LocalTimeIsRight

\* Nothing the library promises stays undone: closed connections are freed,
\* timers fire, tasks are taken and their producers and stop go on, frames and
\* log lines get through, and a client that retries gets connected again.
LibraryProgress ==
  /\ part = "connections" => Co!ClosedIsFreed
  /\ part = "timers" => Ti!TimerFires
  /\ part = "queues" => Wq!PutReturns
  /\ part = "queues" => Wq!TaskIsTaken
  /\ part = "queues" => Wq!StopReturns
  /\ part = "framing" => Fr!FrameIsDelivered
  /\ part = "log" => Lo!LineIsFlushed
  /\ part = "connector" => Cn!Reconnects
=============================================================================
