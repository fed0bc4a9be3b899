---------------------------- MODULE Connections ----------------------------
(***************************************************************************)
(* The event loops and connections under IMServer (muduo net): one base    *)
(* loop that accepts, IO loops that own the connections round robin, and   *)
(* threads that send to a connection they found through its session (a     *)
(* handler on another loop, which holds the session by shared_ptr).  The   *)
(* thread of an assistant's answer has only a raw pointer to the session:  *)
(* while that lives it sends like the others, later see ChatHistory.       *)
(*                                                                         *)
(* The server is never destroyed: ~TcpServer, which calls connectDestroyed *)
(* for connections that are still connected, is left out.                  *)
(*                                                                         *)
(* A loop is in poll, handles the channels poll reported, or runs the      *)
(* batch of functors it swapped out of pendingFunctors_.  A handler is one *)
(* step, except that queueInLoop on another loop is two: push under the    *)
(* mutex, and wakeup.  Every handler calls it last.                        *)
(*                                                                         *)
(* An object is destroyed when the last shared_ptr to it goes: Destroyed   *)
(* is defined by the references that are left.  A chunk is the part of a   *)
(* message one write can take; a message has two.                          *)
(*                                                                         *)
(* History variables: accepted, removed, dangling, failed.                 *)
(***************************************************************************)
EXTENDS Integers, Sequences, FiniteSets, Functions

CONSTANTS
  Base,        \* the loop of main, which runs the Acceptor
  IoLoops,     \* sequence of the IO loops of EventLoopThreadPool
  Senders,     \* threads that send to connections of other loops
  Conns,       \* connections, in the order clients open them
  MaxMsgs,     \* bound: messages handed to TcpConnection::send
  MaxIn,       \* bound: frames a client sends
  MaxRefused,  \* bound: accepts that fail for want of a descriptor
  None

Loops == {Base} \cup Range(IoLoops)
Threads == Loops \cup Senders

VARIABLES
  started,   \* IO threads whose EventLoop exists (EventLoopThread::loop_)
  listening, \* Acceptor::listening_
  nextLoop,  \* EventLoopThreadPool::next_
  loopOf,    \* TcpConnection::loop_
  cstate,    \* TcpConnection::state_
  chan,      \* Channel: events_ and its index_ in the poller
  tcpmap,    \* TcpServer::connections_
  live,      \* sessions registered in IMSer::m_mapclient
  peer,      \* what the client's end of the connection did
  rx,        \* the unread frame in the socket
  ins,       \* frames the clients have sent
  outbuf,    \* outputBuffer_
  wire,      \* chunks written to the socket
  fin,       \* connections whose write side is shut down
  phase,     \* where each loop is
  active,    \* activeChannels_ not yet handled
  pending,   \* pendingFunctors_
  batch,     \* the functors being run
  done,      \* how many of them have run
  wake,      \* wakeupFd_ is readable
  owes,      \* the loop a thread has pushed to and not yet woken up
  sender,    \* what a sending thread does
  msgs,      \* messages handed to send so far
  refused,   \* accepts that failed
  accepted,  \* chunks sendInLoop took
  removed,   \* connections whose connectDestroyed was queued
  dangling,  \* functors that ran on a destroyed connection
  failed     \* assertions of the code that did not hold

loopVars == <<phase, active, pending, batch, done, wake, owes>>
connVars == <<cstate, chan, tcpmap, live, loopOf, nextLoop>>
sockVars == <<peer, rx, ins, refused>>
dataVars == <<outbuf, wire, fin, accepted, msgs>>
bootVars == <<started, listening>>
ghosts   == <<removed, dangling, failed>>
vars == <<loopVars, connVars, sockVars, dataVars, bootVars, sender, ghosts>>

-----------------------------------------------------------------------------
(* Functors and references *)

\* fn names the member function; send binds a raw this, the others hold the
\* connection by shared_ptr.  late: pushed after connectDestroyed was.
Functor(f, c, m, l) == [fn |-> f, conn |-> c, msg |-> m, late |-> l]

Holding == {"established", "remove", "destroyed"}

Holds(f, c) == f.conn = c /\ f.fn \in Holding

\* A session lives while m_mapclient or a thread that found it holds it.
SessionAlive(c) == c \in live \/ \E t \in Senders : sender[t].conn = c

Referenced(c) ==
  \/ c \in tcpmap
  \/ SessionAlive(c)
  \/ \E l \in Loops : \E f \in Range(pending[l]) \cup Range(batch[l]) : Holds(f, c)

Destroyed(c) == cstate[c] /= "none" /\ ~ Referenced(c)

Idle == [at |-> "idle", conn |-> None, msg |-> 0]

Init ==
  /\ started = {}
  /\ listening = FALSE
  /\ nextLoop = 1
  /\ loopOf = [c \in Conns |-> None]
  /\ cstate = [c \in Conns |-> "none"]
  /\ chan = [c \in Conns |-> [events |-> {}, index |-> "new"]]
  /\ tcpmap = {}
  /\ live = {}
  /\ peer = [c \in Conns |-> "none"]
  /\ rx = [c \in Conns |-> "none"]
  /\ ins = 0
  /\ outbuf = [c \in Conns |-> <<>>]
  /\ wire = [c \in Conns |-> <<>>]
  /\ fin = {}
  /\ phase = [l \in Loops |-> "boot"]
  /\ active = [l \in Loops |-> {}]
  /\ pending = [l \in Loops |-> <<>>]
  /\ batch = [l \in Loops |-> <<>>]
  /\ done = [l \in Loops |-> 0]
  /\ wake = [l \in Loops |-> FALSE]
  /\ owes = [t \in Threads |-> None]
  /\ sender = [t \in Senders |-> Idle]
  /\ msgs = 0
  /\ refused = 0
  /\ accepted = [c \in Conns |-> <<>>]
  /\ removed = {}
  /\ dangling = {}
  /\ failed = {}

-----------------------------------------------------------------------------
(* Start-up: EventLoopThreadPool::start waits for each thread's loop        *)

\* EventLoopThread::threadFunc: the loop exists, startLoop is notified, loop().
ThreadFunc(l) ==
  /\ l \in Range(IoLoops)
  /\ phase[l] = "boot"
  /\ \A i \in 1 .. Len(IoLoops) : IoLoops[i] = l =>
       \A j \in 1 .. i - 1 : IoLoops[j] \in started
  /\ started' = started \cup {l}
  /\ phase' = [phase EXCEPT ![l] = "poll"]
  /\ UNCHANGED <<listening, active, pending, batch, done, wake, owes, connVars,
                 sockVars, dataVars, sender, ghosts>>

\* TcpServer::start after the threads run; Acceptor::listen; then main loops.
Listen ==
  /\ phase[Base] = "boot"
  /\ started = Range(IoLoops)
  /\ listening' = TRUE
  /\ phase' = [phase EXCEPT ![Base] = "poll"]
  /\ UNCHANGED <<started, active, pending, batch, done, wake, owes, connVars,
                 sockVars, dataVars, sender, ghosts>>

-----------------------------------------------------------------------------
(* Clients (external) *)

ClientConnects(c) ==
  /\ listening
  /\ peer[c] = "none"
  /\ peer' = [peer EXCEPT ![c] = "waiting"]
  /\ UNCHANGED <<rx, ins, refused, loopVars, connVars, dataVars, bootVars, sender, ghosts>>

\* A frame the codec accepts, or one it does not.
ClientSends(c, frame) ==
  /\ peer[c] = "up"
  /\ rx[c] = "none"
  /\ ins < MaxIn
  /\ ins' = ins + 1
  /\ rx' = [rx EXCEPT ![c] = frame]
  /\ UNCHANGED <<peer, refused, loopVars, connVars, dataVars, bootVars, sender, ghosts>>

ClientCloses(c, how) ==
  /\ peer[c] = "up"
  /\ peer' = [peer EXCEPT ![c] = how]
  /\ rx' = [rx EXCEPT ![c] = IF how = "reset" THEN "none" ELSE @]
  /\ UNCHANGED <<ins, refused, loopVars, connVars, dataVars, bootVars, sender, ghosts>>

-----------------------------------------------------------------------------
(* Loop mechanics *)

Push(l, f) == pending' = [pending EXCEPT ![l] = Append(@, f)]

\* Mutant: queueInLoop forgets to wake the loop up.
QueueInLoop_NoWakeup(t, l, f) == Push(l, f) /\ UNCHANGED owes

\* queueInLoop from a thread that is not l: push, then owe the wakeup.
QueueInLoop(t, l, f) ==
  /\ Push(l, f)
  /\ owes' = [owes EXCEPT ![t] = l]

Wakeup(t) ==
  /\ owes[t] /= None
  /\ wake' = [wake EXCEPT ![owes[t]] = TRUE]
  /\ owes' = [owes EXCEPT ![t] = None]
  /\ UNCHANGED <<phase, active, pending, batch, done, connVars, sockVars, dataVars,
                 bootVars, sender, ghosts>>

\* What epoll_wait reports of a registered channel: data or an end of file to
\* read, and room to write when the channel asks for it.
Readable(c) == "r" \in chan[c].events /\ (rx[c] /= "none" \/ peer[c] \in {"fin", "reset", "gone"})

Events(c) == (IF Readable(c) THEN {"in"} ELSE {})
               \cup (IF "w" \in chan[c].events THEN {"out"} ELSE {})

Polled(l) == {c \in Conns : loopOf[c] = l /\ chan[c].index = "added"}

\* The sets of <<connection, event>> poll can return to loop l.  The base
\* loop polls the listening socket and takes one client from its backlog.
ReadySets(l) ==
  LET backlog == {c \in Conns : l = Base /\ peer[c] = "waiting"}
  IN IF backlog /= {} THEN {{<<c, "accept">>} : c \in backlog}
     ELSE {{a \in Polled(l) \X {"in", "out"} : a[2] \in Events(a[1])}}

\* poll() returns (an event, the eventfd, or its timeout) and reads the
\* eventfd through the wakeup channel.  A timeout that finds nothing to do
\* goes round the loop without effect and is left out.
Poll(l) ==
  /\ phase[l] = "poll"
  /\ owes[l] = None
  /\ wake[l] \/ pending[l] /= <<>> \/ ReadySets(l) /= {{}}
  /\ \E a \in ReadySets(l) : active' = [active EXCEPT ![l] = a]
  /\ wake' = [wake EXCEPT ![l] = FALSE]
  /\ phase' = [phase EXCEPT ![l] = "events"]
  /\ UNCHANGED <<pending, batch, done, owes, connVars, sockVars, dataVars, bootVars,
                 sender, ghosts>>

\* doPendingFunctors: swap under the mutex, once the channels are handled.
Swap(l) ==
  /\ phase[l] = "events"
  /\ owes[l] = None
  /\ active[l] = {}
  /\ batch' = [batch EXCEPT ![l] = pending[l]]
  /\ pending' = [pending EXCEPT ![l] = <<>>]
  /\ done' = [done EXCEPT ![l] = 0]
  /\ phase' = [phase EXCEPT ![l] = "functors"]
  /\ UNCHANGED <<active, wake, owes, connVars, sockVars, dataVars, bootVars, sender, ghosts>>

\* The local vector goes out of scope only when all of them have run.
EndFunctors(l) ==
  /\ phase[l] = "functors"
  /\ owes[l] = None
  /\ done[l] = Len(batch[l])
  /\ batch' = [batch EXCEPT ![l] = <<>>]
  /\ done' = [done EXCEPT ![l] = 0]
  /\ phase' = [phase EXCEPT ![l] = "poll"]
  /\ UNCHANGED <<active, pending, wake, owes, connVars, sockVars, dataVars, bootVars,
                 sender, ghosts>>

\* The functor loop l runs next.
IsNext(l, f) ==
  /\ phase[l] = "functors"
  /\ owes[l] = None
  /\ done[l] < Len(batch[l])
  /\ f = batch[l][done[l] + 1]

Ran(l) == done' = [done EXCEPT ![l] = @ + 1]

-----------------------------------------------------------------------------
(* Channels and the poller *)

\* Channel::update through EPollPoller::updateChannel.
UpdateChannel(ch, events) ==
  [events |-> events,
   index |-> IF ch.index = "added" /\ events = {} THEN "deleted" ELSE "added"]

\* Channel::disableAll.
DisableAll(ch) == UpdateChannel(ch, {})

\* Channel::remove through EPollPoller::removeChannel.
RemoveChannel(ch) == [ch EXCEPT !.index = "new"]

-----------------------------------------------------------------------------
(* Accepting: Acceptor::handleRead, TcpServer::newConnection *)

Handles(l, c, e) == phase[l] = "events" /\ owes[l] = None /\ <<c, e>> \in active[l]

Handled(l, c, e) == active' = [active EXCEPT ![l] = @ \ {<<c, e>>}]

\* EventLoopThreadPool::getNextLoop.
NextIndex(i) == IF i + 1 > Len(IoLoops) THEN 1 ELSE i + 1

\* newConnection: round robin over the loops, then connectEstablished there.
NewConnection(c) ==
  LET io == IoLoops[nextLoop]
  IN /\ Handles(Base, c, "accept")
     /\ Handled(Base, c, "accept")
     /\ peer' = [peer EXCEPT ![c] = "up"]
     /\ nextLoop' = NextIndex(nextLoop)
     /\ loopOf' = [loopOf EXCEPT ![c] = io]
     /\ cstate' = [cstate EXCEPT ![c] = "Connecting"]
     /\ tcpmap' = tcpmap \cup {c}
     /\ QueueInLoop(Base, io, Functor("established", c, None, FALSE))
     /\ UNCHANGED <<chan, live, rx, ins, refused, phase, batch, done, wake, dataVars,
                    bootVars, sender, ghosts>>

\* EMFILE: the idle descriptor is given up to take the client and drop it.
AcceptFails(c) ==
  /\ Handles(Base, c, "accept")
  /\ Handled(Base, c, "accept")
  /\ refused < MaxRefused
  /\ refused' = refused + 1
  /\ peer' = [peer EXCEPT ![c] = "refused"]
  /\ UNCHANGED <<rx, ins, phase, pending, batch, done, wake, owes, connVars, dataVars,
                 bootVars, sender, ghosts>>

\* connectEstablished and the UP callback: IMSer::OnConnection.
ConnectEstablished(l, f) ==
  /\ IsNext(l, f)
  /\ f.fn = "established"
  /\ failed' = failed \cup {a \in {"established"} : cstate[f.conn] /= "Connecting"}
  /\ cstate' = [cstate EXCEPT ![f.conn] = "Connected"]
  /\ chan' = [chan EXCEPT ![f.conn] = UpdateChannel(@, {"r"})]
  /\ live' = live \cup {f.conn}
  /\ Ran(l)
  /\ UNCHANGED <<tcpmap, loopOf, nextLoop, phase, active, pending, batch, wake, owes,
                 sockVars, dataVars, bootVars, sender, removed, dangling>>

-----------------------------------------------------------------------------
(* Sending *)

Chunks(m) == <<<<m, 1>>, <<m, 2>>>>

\* sendInLoop.  n chunks go out at once, when nothing is buffered before them;
\* n = 0 stands for EWOULDBLOCK too.  A write after the write side was shut, or
\* to a reset connection, fails with EPIPE or ECONNRESET and the message is
\* dropped.  (The write and high-water callbacks are not set by IMServer.)
Broken(c) == c \in fin \/ peer[c] \in {"reset", "gone"}

\* sendInLoop writes at once only when nothing waits before it.
Direct(c) == "w" \notin chan[c].events /\ outbuf[c] = <<>>

SendNow(c, m, n) ==
  LET direct == Direct(c)
      out == IF direct THEN SubSeq(Chunks(m), 1, n) ELSE <<>>
      rest == IF direct THEN SubSeq(Chunks(m), n + 1, 2) ELSE Chunks(m)
  IN IF cstate[c] = "Disconnected" \/ (direct /\ Broken(c))
     THEN UNCHANGED <<wire, outbuf, accepted, chan>>
     ELSE /\ wire' = [wire EXCEPT ![c] = @ \o out]
          /\ outbuf' = [outbuf EXCEPT ![c] = @ \o rest]
          /\ accepted' = [accepted EXCEPT ![c] = @ \o Chunks(m)]
          /\ chan' = [chan EXCEPT ![c] =
               IF rest = <<>> \/ "w" \in @.events THEN @
               ELSE UpdateChannel(@, @.events \cup {"w"})]

\* The queued sendInLoop.  It was bound to a raw pointer.
SendInLoop(l, f) ==
  /\ IsNext(l, f)
  /\ f.fn = "send"
  /\ Ran(l)
  /\ IF Destroyed(f.conn)
     THEN /\ dangling' = dangling \cup {f}
          /\ UNCHANGED <<wire, outbuf, accepted, chan>>
     ELSE /\ \E n \in 0 .. 2 : SendNow(f.conn, f.msg, n)
          /\ UNCHANGED dangling
  /\ UNCHANGED <<cstate, tcpmap, live, loopOf, nextLoop, phase, active, pending, batch,
                 wake, owes, sockVars, fin, msgs, bootVars, sender, removed, failed>>

\* A thread finds the session (GetSessionByID) and keeps it while it sends.
Find(t, c) ==
  /\ sender[t].at = "idle"
  /\ msgs < MaxMsgs
  /\ msgs' = msgs + 1
  /\ c \in live
  /\ sender' = [sender EXCEPT ![t] = [at |-> "found", conn |-> c, msg |-> msgs + 1]]
  /\ UNCHANGED <<loopVars, connVars, sockVars, outbuf, wire, fin, accepted, bootVars, ghosts>>

\* TcpConnection::send reads state_ ...
TestState(t) ==
  /\ sender[t].at = "found"
  /\ sender' = [sender EXCEPT ![t].at =
                  IF cstate[sender[t].conn] = "Connected" THEN "send" ELSE "leave"]
  /\ UNCHANGED <<loopVars, connVars, sockVars, dataVars, bootVars, ghosts>>

\* ... and queues sendInLoop on the connection's loop.
Send(t) ==
  LET c == sender[t].conn
  IN /\ sender[t].at = "send"
     /\ QueueInLoop(t, loopOf[c],
                    Functor("send", c, <<"chat", sender[t].msg>>, c \in removed))
     /\ sender' = [sender EXCEPT ![t].at = "leave"]
     /\ UNCHANGED <<phase, active, batch, done, wake, connVars, sockVars, dataVars,
                    bootVars, ghosts>>

\* The shared_ptr to the session goes out of scope.
Leave(t) ==
  /\ sender[t].at = "leave"
  /\ owes[t] = None
  /\ sender' = [sender EXCEPT ![t] = Idle]
  /\ UNCHANGED <<loopVars, connVars, sockVars, dataVars, bootVars, ghosts>>

-----------------------------------------------------------------------------
(* Channel events of a connection *)

\* Channel::handleEventWithGuard: the read callback before the write callback.
WriteTurn(l, c) == Handles(l, c, "out") /\ <<c, "in">> \notin active[l]

\* handleRead with a frame: ClientSession::OnRead answers in the loop's own
\* thread (send runs at once while state_ is Connected).
ReadRequest(l, c) ==
  /\ Handles(l, c, "in")
  /\ rx[c] = "req"
  /\ rx' = [rx EXCEPT ![c] = "none"]
  /\ IF cstate[c] = "Connected"
     THEN \E n \in 0 .. 2 : SendNow(c, <<"reply", ins>>, n)
     ELSE UNCHANGED <<wire, outbuf, accepted, chan>>
  /\ Handled(l, c, "in")
  /\ UNCHANGED <<peer, ins, refused, phase, pending, batch, done, wake, owes, cstate,
                 tcpmap, live, loopOf, nextLoop, fin, msgs, bootVars, sender, ghosts>>

\* shutdownInLoop shuts the write side unless output is still buffered.
ShutdownInLoop(c) == fin' = IF "w" \notin chan[c].events THEN fin \cup {c} ELSE fin

\* A frame the codec refuses: defaultErrorCallback calls shutdown.
Shutdown(c) ==
  IF cstate[c] = "Connected"
  THEN cstate' = [cstate EXCEPT ![c] = "Disconnecting"] /\ ShutdownInLoop(c)
  ELSE UNCHANGED <<cstate, fin>>

ReadBadFrame(l, c) ==
  /\ Handles(l, c, "in")
  /\ rx[c] = "bad"
  /\ rx' = [rx EXCEPT ![c] = "none"]
  /\ Shutdown(c)
  /\ Handled(l, c, "in")
  /\ UNCHANGED <<peer, ins, refused, phase, pending, batch, done, wake, owes, chan,
                 tcpmap, live, loopOf, nextLoop, outbuf, wire, accepted, msgs,
                 bootVars, sender, ghosts>>

\* read gives ECONNRESET: handleError only logs; the next read gives 0.
ReadError(l, c) ==
  /\ Handles(l, c, "in")
  /\ peer[c] = "reset"
  /\ peer' = [peer EXCEPT ![c] = "gone"]
  /\ Handled(l, c, "in")
  /\ UNCHANGED <<rx, ins, refused, phase, pending, batch, done, wake, owes, connVars,
                 dataVars, bootVars, sender, ghosts>>

\* IMSer::OnClose.
OnClose(c) == live' = live \ {c}

\* read gives 0: handleClose.  The channel is switched off, the DOWN callback
\* erases the session (IMSer::OnClose), and TcpServer::removeConnection is
\* queued on the base loop.
HandleClose(l, c) ==
  /\ Handles(l, c, "in")
  /\ rx[c] = "none" /\ peer[c] \in {"fin", "gone"}
  /\ failed' = failed \cup {a \in {"close"} : cstate[c] \notin {"Connected", "Disconnecting"}}
  /\ cstate' = [cstate EXCEPT ![c] = "Disconnected"]
  /\ chan' = [chan EXCEPT ![c] = DisableAll(@)]
  /\ OnClose(c)
  /\ QueueInLoop(l, Base, Functor("remove", c, None, FALSE))
  /\ Handled(l, c, "in")
  /\ UNCHANGED <<sockVars, phase, batch, done, wake, tcpmap, loopOf, nextLoop, dataVars,
                 bootVars, sender, removed, dangling>>

\* handleWrite: some of the buffer goes out; when all of it has, polling for
\* writability stops and a shutdown that was waiting is done.
HandleWrite(l, c) ==
  /\ WriteTurn(l, c)
  /\ "w" \in chan[c].events
  /\ IF Broken(c)
     THEN UNCHANGED <<wire, outbuf, chan, fin>>
     ELSE \E n \in 1 .. Len(outbuf[c]) :
            /\ wire' = [wire EXCEPT ![c] = @ \o SubSeq(outbuf[c], 1, n)]
            /\ outbuf' = [outbuf EXCEPT ![c] = SubSeq(@, n + 1, Len(@))]
            /\ chan' = [chan EXCEPT ![c] =
                 IF n = Len(outbuf[c]) THEN UpdateChannel(@, @.events \ {"w"}) ELSE @]
            /\ fin' = IF n = Len(outbuf[c]) /\ cstate[c] = "Disconnecting"
                      THEN fin \cup {c} ELSE fin
  /\ Handled(l, c, "out")
  /\ UNCHANGED <<sockVars, phase, pending, batch, done, wake, owes, cstate, tcpmap, live,
                 loopOf, nextLoop, accepted, msgs, bootVars, sender, ghosts>>

\* handleWrite on a connection that was closed by the read before it.
IsDown(l, c) ==
  /\ WriteTurn(l, c)
  /\ "w" \notin chan[c].events
  /\ Handled(l, c, "out")
  /\ UNCHANGED <<phase, pending, batch, done, wake, owes, connVars, sockVars, dataVars,
                 bootVars, sender, ghosts>>

-----------------------------------------------------------------------------
(* Removing a connection *)

\* TcpServer::removeConnectionInLoop on the base loop.
RemoveConnectionInLoop(l, f) ==
  /\ IsNext(l, f)
  /\ f.fn = "remove"
  /\ failed' = failed \cup {a \in {"erase"} : f.conn \notin tcpmap}
  /\ tcpmap' = tcpmap \ {f.conn}
  /\ removed' = removed \cup {f.conn}
  /\ QueueInLoop(l, loopOf[f.conn], Functor("destroyed", f.conn, None, FALSE))
  /\ Ran(l)
  /\ UNCHANGED <<cstate, chan, live, loopOf, nextLoop, phase, active, batch, wake,
                 sockVars, dataVars, bootVars, sender, dangling>>

\* connectDestroyed, behind a close: the connection is disconnected by then (its
\* branch for a connected one is only for ~TcpServer).  Channel::remove asserts
\* that no event is polled for.
ConnectDestroyed(l, f) ==
  /\ IsNext(l, f)
  /\ f.fn = "destroyed"
  /\ failed' = failed \cup {a \in {"remove"} : chan[f.conn].events /= {}}
  /\ chan' = [chan EXCEPT ![f.conn] = RemoveChannel(@)]
  /\ Ran(l)
  /\ UNCHANGED <<cstate, tcpmap, live, loopOf, nextLoop, phase, active, pending, batch,
                 wake, owes, sockVars, dataVars, bootVars, sender, removed, dangling>>

-----------------------------------------------------------------------------

LoopStep(l) ==
  \/ l = Base /\ \E c \in Conns : NewConnection(c) \/ AcceptFails(c)
  \/ Poll(l) \/ Swap(l) \/ EndFunctors(l) \/ Wakeup(l)
  \/ \E f \in Range(batch[l]) :
       \/ ConnectEstablished(l, f) \/ SendInLoop(l, f)
       \/ RemoveConnectionInLoop(l, f) \/ ConnectDestroyed(l, f)
  \/ \E c \in Conns :
       \/ ReadRequest(l, c) \/ ReadBadFrame(l, c) \/ ReadError(l, c)
       \/ HandleClose(l, c) \/ HandleWrite(l, c) \/ IsDown(l, c)

SenderStep(t) == TestState(t) \/ Send(t) \/ Wakeup(t) \/ Leave(t)

Boot == Listen \/ \E l \in Loops : ThreadFunc(l)

Environment ==
  \/ \E c \in Conns : ClientConnects(c)
  \/ \E c \in Conns, frame \in {"req", "bad"} : ClientSends(c, frame)
  \/ \E c \in Conns, how \in {"fin", "reset"} : ClientCloses(c, how)
  \/ \E t \in Senders, c \in Conns : Find(t, c)

Next ==
  \/ Boot \/ Environment
  \/ \E l \in Loops : LoopStep(l)
  \/ \E t \in Senders : SenderStep(t)

\* The scheduler runs every thread that can take a step; clients and handlers
\* that want to send are free not to.
Fairness ==
  /\ WF_vars(Boot)
  /\ \A l \in Loops : WF_vars(LoopStep(l))
  /\ \A t \in Senders : WF_vars(SenderStep(t))

Spec == Init /\ [][Next]_vars /\ Fairness

-----------------------------------------------------------------------------
(* Properties *)

\* EventLoop never sleeps on work: a loop that is in poll (or about to be) with
\* functors pending has its eventfd readable, or the thread that pushed them
\* is about to write to it (queueInLoop, wakeup, doPendingFunctors).
NoSleepOnWork ==
  \A l \in Loops :
    phase[l] = "poll" /\ pending[l] /= <<>> =>
      wake[l] \/ \E t \in Threads : owes[t] = l

\* The assertions of TcpConnection, TcpServer and Channel hold: a connection
\* is established once, closed once, erased once, and removed from the
\* poller only when it polls for nothing.
AssertionsHold == failed = {}

\* A TcpConnection is destroyed only when it is closed and out of the poller,
\* so no list of active channels points to a freed one.
DestroyedIsDetached ==
  \A c \in Conns : Destroyed(c) =>
    /\ cstate[c] = "Disconnected"
    /\ chan[c] = [events |-> {}, index |-> "new"]
    /\ \A l \in Loops, e \in {"in", "out"} : <<c, e>> \notin active[l]

\* The raw pointer bound by send is the one way to a destroyed connection, and
\* only for a send queued after connectDestroyed was: what is queued before it
\* runs in the same or an earlier batch, and the batch keeps the object.
OnlyLateSendsDangle == \A f \in dangling : f.late

\* What goes out on a connection is what sendInLoop took, in that order, with
\* no chunk lost, repeated or interleaved, whichever mix of direct and
\* buffered writes it took.
WireInOrder == \A c \in Conns : wire[c] \o outbuf[c] = accepted[c]

\* Buffered output of an open connection is always waiting for a writable
\* event, and the write side is shut only when nothing is left to write.
OutputIsFlushed ==
  \A c \in Conns :
    /\ outbuf[c] /= <<>> /\ cstate[c] /= "Disconnected" => "w" \in chan[c].events
    /\ c \in fin => outbuf[c] = <<>>

\* A connection whose client has gone is closed and its object freed.
ClosedIsFreed ==
  \A c \in Conns : (peer[c] \in {"fin", "reset", "gone"}) ~> Destroyed(c)

\* EventLoop, TcpServer and TcpConnection hold together, whichever thread sends
\* or closes when: no loop sleeps on queued functors, no connection is closed
\* twice, freed while polled or used afterwards (but for late sends), and the
\* wire gets what was sent.
ConnectionsSound ==
  /\ NoSleepOnWork
  /\ AssertionsHold
  /\ DestroyedIsDetached
  /\ OnlyLateSendsDangle
  /\ WireInOrder
  /\ OutputIsFlushed
=============================================================================
