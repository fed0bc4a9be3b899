------------------------------ MODULE Connector ------------------------------
(***************************************************************************)
(* net/Connector under net/TcpClient: one thread asks to connect and later *)
(* to disconnect or stop; the loop's thread connects without blocking,     *)
(* retries with a growing delay, and connects again when the connection is *)
(* lost and retry_ is set.                                                 *)
(*                                                                         *)
(* A round of the loop handles the events poll reported, then runs the     *)
(* functors that were queued by then.  A handler is one step, except that  *)
(* removeConnection tests connect_ in one and restarts in another.  The    *)
(* user's calls write their flags one at a time.  A failed assertion ends  *)
(* the process.  TcpClient is used for one connect(), as its FIXME asks.   *)
(*                                                                         *)
(* History variables: gaveUp, overtaken, broken.                           *)
(***************************************************************************)
EXTENDS Integers, Sequences

CONSTANTS
  InitDelay, MaxDelay, \* kInitRetryDelayMs and kMaxRetryDelayMs
  MaxFlaps             \* bound: times the server goes down or comes up

VARIABLES
  retryOn,     \* TcpClient::retry_
  clientWants, \* TcpClient::connect_
  wants,       \* Connector::connect_
  conState,    \* Connector::state_
  attempt,     \* Connector::channel_: none, registered with the poller, or removed
  delay,       \* Connector::retryDelayMs_
  retryTimers, \* timers that will call startInLoop
  link,        \* TcpClient::connection_: none, up, or closed by its peer
  conQueue,    \* pendingFunctors_
  conBatch,    \* functors being run
  conPhase,    \* where the loop is
  ready,       \* events poll reported that are not handled yet
  user,        \* what the user's thread does
  serverUp,    \* the server accepts connections
  flaps,       \* changes of serverUp so far
  gaveUp,      \* history: connect failed with an error that is not retried
  overtaken,   \* history: restart set connect_ again after stop had cleared it
  broken       \* history: assertions that did not hold

conVars == <<retryOn, clientWants, wants, conState, attempt, delay, retryTimers, link, conQueue,
             conBatch, conPhase, ready, user, serverUp, flaps, gaveUp, overtaken, broken>>
clientVars == <<retryOn, clientWants, link>>
connectorVars == <<conState, attempt, delay, retryTimers, gaveUp, broken>>
worldVars == <<serverUp, flaps>>

Init ==
  /\ retryOn \in BOOLEAN /\ clientWants = TRUE /\ wants = FALSE
  /\ conState = "Disconnected" /\ attempt = "none" /\ delay = InitDelay /\ retryTimers = 0
  /\ link = "none"
  /\ conQueue = <<>> /\ conBatch = <<>> /\ conPhase = "poll" /\ ready = {}
  /\ user = "new"
  /\ serverUp \in BOOLEAN /\ flaps = 0
  /\ gaveUp = FALSE /\ overtaken = FALSE /\ broken = {}

-----------------------------------------------------------------------------
(* The user's thread *)

\* connect(): start() sets connect_ and queues startInLoop.
Connect ==
  /\ user = "new"
  /\ wants' = TRUE
  /\ conQueue' = Append(conQueue, "start")
  /\ user' = "asked"
  /\ UNCHANGED <<clientVars, connectorVars, conBatch, conPhase, ready, worldVars, overtaken>>

\* disconnect() and stop() clear TcpClient::connect_ first.
EndBegins(how) ==
  /\ user = "asked"
  /\ clientWants' = FALSE
  /\ user' = how
  /\ UNCHANGED <<retryOn, wants, connectorVars, link, conQueue, conBatch, conPhase, ready,
                 worldVars, overtaken>>

\* disconnect() then shuts the connection down, if there is one; its peer closes it.
Disconnect ==
  /\ user = "disconnect"
  /\ link' = IF link = "up" THEN "closed" ELSE link
  /\ user' = "done"
  /\ UNCHANGED <<retryOn, clientWants, wants, connectorVars, conQueue, conBatch, conPhase, ready,
                 worldVars, overtaken>>

\* stop() then clears Connector::connect_ ...
StopFlag ==
  /\ user = "stop"
  /\ wants' = FALSE
  /\ user' = "stopping"
  /\ UNCHANGED <<clientVars, connectorVars, conQueue, conBatch, conPhase, ready, worldVars,
                 overtaken>>

\* ... and queues stopInLoop.  The retry timer is not cancelled.
StopQueue ==
  /\ user = "stopping"
  /\ conQueue' = Append(conQueue, "stop")
  /\ user' = "stopped"
  /\ UNCHANGED <<clientVars, wants, connectorVars, conBatch, conPhase, ready, worldVars, overtaken>>

-----------------------------------------------------------------------------
(* Connector *)

Doubled(d) == IF 2 * d < MaxDelay THEN 2 * d ELSE MaxDelay

\* retry: close the socket, and try again after the delay.
Retry(goOn, timers, d) ==
  /\ conState' = "Disconnected"
  /\ IF goOn
     THEN retryTimers' = timers + 1 /\ delay' = Doubled(d)
     ELSE retryTimers' = timers /\ delay' = d

\* connecting: a new Channel, which asserts that there is none.
Connecting(timers, d) ==
  /\ conState' = "Connecting"
  /\ broken' = broken \cup {a \in {"channel"} : attempt # "none"}
  /\ attempt' = "polling"
  /\ retryTimers' = timers /\ delay' = d
  /\ UNCHANGED gaveUp

\* connect() refused at once: retried; any other error: only logged.
Refused(timers, d) ==
  /\ ~ serverUp
  /\ Retry(TRUE, timers, d)
  /\ UNCHANGED <<attempt, gaveUp, broken>>

Fatal(timers, d) ==
  /\ gaveUp' = TRUE
  /\ conState' = "Disconnected" /\ retryTimers' = timers /\ delay' = d
  /\ UNCHANGED <<attempt, broken>>

\* startInLoop in state st, which it asserts to be kDisconnected.
StartInLoop(goOn, st, timers, d) ==
  IF st # "Disconnected"
  THEN /\ broken' = broken \cup {"start"}
       /\ retryTimers' = timers
       /\ UNCHANGED <<conState, attempt, delay, gaveUp>>
  ELSE IF goOn THEN Connecting(timers, d) \/ Refused(timers, d) \/ Fatal(timers, d)
  ELSE /\ conState' = st /\ retryTimers' = timers /\ delay' = d
       /\ UNCHANGED <<attempt, gaveUp, broken>>

\* removeAndResetChannel: out of the poller now, reset by a functor.
RemoveAndReset == attempt' = "off" /\ conQueue' = Append(conQueue, "reset")

-----------------------------------------------------------------------------
(* The loop *)

Possible == {e \in {"timer", "channel", "close"} :
               \/ e = "timer" /\ retryTimers > 0
               \/ e = "channel" /\ attempt = "polling"
               \/ e = "close" /\ link = "closed"}

Poll ==
  /\ conPhase = "poll"
  /\ \E s \in SUBSET Possible : (s # {} \/ conQueue # <<>>) /\ ready' = s
  /\ conPhase' = "events"
  /\ UNCHANGED <<clientVars, wants, connectorVars, conQueue, conBatch, user, worldVars, overtaken>>

Handles(e) == conPhase = "events" /\ e \in ready
Handled(e) == ready' = ready \ {e}

\* A retry timer fires.
TimerFires ==
  /\ Handles("timer") /\ Handled("timer")
  /\ StartInLoop(wants, conState, retryTimers - 1, delay)
  /\ UNCHANGED <<clientVars, wants, conQueue, conBatch, conPhase, user, worldVars, overtaken>>

\* handleWrite with an error or a self connect, or handleError: retry.
AttemptFails ==
  /\ Handles("channel") /\ Handled("channel")
  /\ conState = "Connecting" /\ ~ serverUp
  /\ RemoveAndReset
  /\ Retry(wants, retryTimers, delay)
  /\ UNCHANGED <<clientVars, wants, gaveUp, broken, conBatch, conPhase, user, worldVars, overtaken>>

\* handleWrite: connected.  TcpClient::newConnection, or close if stop came first.
AttemptSucceeds ==
  /\ Handles("channel") /\ Handled("channel")
  /\ conState = "Connecting" /\ serverUp
  /\ RemoveAndReset
  /\ conState' = "Connected"
  /\ link' = IF wants THEN "up" ELSE link
  /\ UNCHANGED <<retryOn, clientWants, wants, delay, retryTimers, gaveUp, broken, conBatch,
                 conPhase, user, worldVars, overtaken>>

\* removeConnection: forget the connection; shall it be made again?
RemoveConnection ==
  /\ Handles("close") /\ Handled("close")
  /\ link' = "none"
  /\ conPhase' = IF retryOn /\ clientWants THEN "restart" ELSE "events"
  /\ UNCHANGED <<retryOn, clientWants, wants, connectorVars, conQueue, conBatch, user, worldVars,
                 overtaken>>

\* restart(): connect_ is set again, whatever stop() did meanwhile.
Restart ==
  /\ conPhase = "restart"
  /\ wants' = TRUE
  /\ overtaken' = (overtaken \/ ~ wants)
  /\ StartInLoop(TRUE, "Disconnected", retryTimers, InitDelay)
  /\ conPhase' = "events"
  /\ UNCHANGED <<clientVars, conQueue, conBatch, ready, user, worldVars>>

\* doPendingFunctors takes what is queued.
Swap ==
  /\ conPhase = "events" /\ ready = {}
  /\ conBatch' = conQueue /\ conQueue' = <<>>
  /\ conPhase' = "functors"
  /\ UNCHANGED <<clientVars, wants, connectorVars, ready, user, worldVars, overtaken>>

RunFunctor(f) ==
  /\ conPhase = "functors" /\ conBatch # <<>> /\ Head(conBatch) = f
  /\ conBatch' = Tail(conBatch)
  /\ UNCHANGED <<clientVars, wants, conPhase, ready, user, worldVars, overtaken>>

RunStart ==
  /\ RunFunctor("start")
  /\ StartInLoop(wants, conState, retryTimers, delay)
  /\ UNCHANGED conQueue

\* Mutant: an attempt that stop finds under way is left to its end.
Stops_Never == FALSE

Stops == conState = "Connecting"

\* stopInLoop gives up an attempt; retry then sees that connect_ is clear.
RunStop ==
  /\ RunFunctor("stop")
  /\ IF Stops
     THEN RemoveAndReset /\ Retry(wants, retryTimers, delay)
     ELSE UNCHANGED <<conState, attempt, retryTimers, delay, conQueue>>
  /\ UNCHANGED <<gaveUp, broken>>

\* resetChannel
RunReset ==
  /\ RunFunctor("reset")
  /\ attempt' = "none"
  /\ UNCHANGED <<conState, delay, retryTimers, gaveUp, broken, conQueue>>

EndRound ==
  /\ conPhase = "functors" /\ conBatch = <<>>
  /\ conPhase' = "poll"
  /\ UNCHANGED <<clientVars, wants, connectorVars, conQueue, conBatch, ready, user, worldVars,
                 overtaken>>

-----------------------------------------------------------------------------

\* The server goes down and takes its connections along, or comes back.
ServerFlaps ==
  /\ flaps < MaxFlaps /\ flaps' = flaps + 1
  /\ serverUp' = ~ serverUp
  /\ link' = IF link = "up" THEN "closed" ELSE link
  /\ UNCHANGED <<retryOn, clientWants, wants, connectorVars, conQueue, conBatch, conPhase, ready,
                 user, overtaken>>

LoopStep ==
  \/ Poll \/ TimerFires \/ AttemptFails \/ AttemptSucceeds \/ RemoveConnection \/ Restart
  \/ Swap \/ RunStart \/ RunStop \/ RunReset \/ EndRound

UserStep ==
  \/ Connect \/ Disconnect \/ StopFlag \/ StopQueue
  \/ \E how \in {"disconnect", "stop"} : EndBegins(how)

Next == broken = {} /\ (LoopStep \/ UserStep \/ ServerFlaps)

\* The loop runs; a call that has begun goes on.
Fairness ==
  /\ WF_conVars(broken = {} /\ LoopStep)
  /\ WF_conVars(broken = {} /\ (Disconnect \/ StopFlag \/ StopQueue))

Spec == Init /\ [][Next]_conVars /\ Fairness

-----------------------------------------------------------------------------
(* Properties *)

\* The assertions of Connector hold, whatever the timing of stop and of the
\* server, except when restart overtook stop: then its own stopInLoop can leave a
\* channel behind that the next attempt finds.
ConnectorAsserts == broken # {} => overtaken

\* There is never more than one of: a timer that will connect, an attempt under
\* way, an established connection.
OneAttempt ==
  broken = {} =>
    retryTimers + (IF attempt = "polling" THEN 1 ELSE 0) + (IF link = "none" THEN 0 ELSE 1) <= 1

\* Once stop has run to its end, in the loop too, no attempt is under way and no
\* timer will start one, unless restart overtook it.
StopHolds ==
  LET Waits(f) == \E q \in {conQueue, conBatch} : \E i \in 1 .. Len(q) : q[i] = f
  IN user = "stopped" /\ ~ Waits("stop") /\ ~ overtaken => attempt # "polling" /\ ~ wants

\* A client that wants to be connected and reconnected is connected again and
\* again as long as the server is up, unless connect gave up for good.
Reconnects ==
  []<>(link = "up" \/ ~ serverUp \/ user # "asked" \/ ~ retryOn \/ gaveUp)

\* However retry timers, attempts, stop and restart of Connector meet, there is
\* one attempt at most and none after stop.
ConnectorSound ==
  /\ ConnectorAsserts
  /\ OneAttempt
  /\ StopHolds
=============================================================================
