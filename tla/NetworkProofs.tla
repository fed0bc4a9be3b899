--------------------------- MODULE NetworkProofs ---------------------------
(***************************************************************************)
(* Proofs about the network library of the C++ server.                     *)
(*                                                                         *)
(* Connector: whatever may still start or end an attempt (a functor, a     *)
(* retry timer, a ready channel) is counted, and there is at most one, so  *)
(* a functor finds the state it asserts.                                   *)
(*                                                                         *)
(* Pollers: the index of a channel says where epoll or the array of poll   *)
(* has it, and that entry is what the channel asks for.                    *)
(*                                                                         *)
(* Timers: a living timer is in one place (the two indices, the round of   *)
(* handleRead that is under way, a functor), so that cancel finds it       *)
(* there, and the timerfd is armed no later than any entry needs.          *)
(*                                                                         *)
(* Connections: what the loops have still to run decides what may happen   *)
(* to a connection.  One functor at most holds it on its way from open to  *)
(* destroyed, every functor fits the stage it is in, and connectDestroyed  *)
(* waits behind every send queued before the connection was removed.       *)
(***************************************************************************)
EXTENDS MCServerCore, FiniteSetTheorems, SequenceTheorems, WellFoundedInduction, TLAPS

-----------------------------------------------------------------------------
(* Connector: the state *)

Functors == {"start", "stop", "reset"}

\* Type correctness.
ConTypes ==
  /\ wants \in BOOLEAN /\ overtaken \in BOOLEAN
  /\ conState \in {"Disconnected", "Connecting", "Connected"}
  /\ attempt \in {"none", "polling", "off"}
  /\ retryTimers \in Nat
  /\ link \in {"none", "up", "closed"}
  /\ conQueue \in Seq(Functors) /\ conBatch \in Seq(Functors)
  /\ conPhase \in {"poll", "events", "restart", "functors"}
  /\ ready \in SUBSET {"timer", "channel", "close"}
  /\ user \in {"new", "asked", "disconnect", "done", "stop", "stopping", "stopped"}

\* A functor waits in the queue or in the batch being run.
In(q, f) == \E i \in 1 .. Len(q) : q[i] = f
Waits(f) == In(conQueue, f) \/ In(conBatch, f)

\* Each functor waits once.
Different(q) == \A i, j \in 1 .. Len(q) : q[i] = q[j] => i = j
WaitsOnce ==
  /\ Different(conQueue) /\ Different(conBatch)
  /\ \A f \in Functors : ~ (In(conQueue, f) /\ In(conBatch, f))
  /\ conPhase # "functors" => conBatch = <<>>

\* What will connect, connects or is connected.
One(b) == IF b THEN 1 ELSE 0
Load ==
  One(Waits("start")) + One(conPhase = "restart") + retryTimers
    + One(attempt = "polling") + One(link # "none")

\* The states of Connector and what is under way for them.
StateInv ==
  /\ Load <= 1
  /\ conState = "Connecting" <=> attempt = "polling"
  /\ conState # "Disconnected" => ~ Waits("start") /\ retryTimers = 0
  /\ attempt = "off" <=> Waits("reset")
  /\ Waits("start") => attempt = "none"
  /\ user = "new" => Load = 0 /\ conState = "Disconnected" /\ attempt = "none"

\* What poll reported still holds when it is handled.
ReadyInv ==
  /\ conPhase \in {"poll", "functors"} => ready = {}
  /\ "timer" \in ready => retryTimers > 0
  /\ "channel" \in ready => attempt = "polling"
  /\ "close" \in ready => link = "closed"

\* stop, unless restart overtook it.
StopInv ==
  /\ Waits("stop") => user = "stopped"
  /\ user \in {"stopping", "stopped"} /\ ~ overtaken => ~ wants
  /\ user = "stopped" /\ ~ Waits("stop") /\ ~ overtaken => attempt # "polling"

\* A channel that is out of the poller is reset before anything can need a new one.
OffInv ==
  attempt = "off" /\ ~ overtaken =>
    /\ conPhase # "restart" /\ "timer" \notin ready /\ "close" \notin ready
    /\ \/ conPhase = "events" /\ In(conQueue, "reset")
       \/ conPhase = "functors" /\ In(conBatch, "reset")
       \/ Load = 0

ConInv ==
  /\ ConTypes
  /\ WaitsOnce
  /\ broken # {} => overtaken
  /\ broken = {} => StateInv /\ ReadyInv /\ StopInv /\ OffInv

-----------------------------------------------------------------------------
(* Connector: the queue of functors *)

\* A functor that is appended to q waits there besides those that did.
LEMMA AppendIn ==
  ASSUME NEW q \in Seq(Functors), NEW x \in Functors
  PROVE  /\ Append(q, x) \in Seq(Functors)
         /\ \A f : In(Append(q, x), f) <=> In(q, f) \/ f = x
         /\ Different(q) /\ ~ In(q, x) => Different(Append(q, x))
  <1>1. /\ Append(q, x) \in Seq(Functors) /\ Len(q) \in Nat
        /\ Len(Append(q, x)) = Len(q) + 1
        /\ \A i \in 1 .. Len(q) : Append(q, x)[i] = q[i]
        /\ Append(q, x)[Len(q) + 1] = x
    OBVIOUS
  <1>2. 1 .. Len(q) + 1 = (1 .. Len(q)) \cup {Len(q) + 1}
    BY <1>1
  <1> HIDE DEF Functors
  <1>3. \A f : In(Append(q, x), f) <=> In(q, f) \/ f = x
    BY <1>1, <1>2 DEF In
  <1>4. Different(q) /\ ~ In(q, x) => Different(Append(q, x))
    BY <1>1, <1>2 DEF In, Different
  <1> QED BY <1>1, <1>3, <1>4

\* The functor that is run waits no more, the others do.
LEMMA TailIn ==
  ASSUME NEW q \in Seq(Functors), q # <<>>, Different(q)
  PROVE  /\ Tail(q) \in Seq(Functors)
         /\ In(q, Head(q)) /\ Head(q) \in Functors
         /\ \A f : In(Tail(q), f) <=> In(q, f) /\ f # Head(q)
         /\ Different(Tail(q))
  <1>1. /\ Tail(q) \in Seq(Functors) /\ Len(q) \in Nat \ {0}
        /\ Len(Tail(q)) = Len(q) - 1
        /\ \A i \in 1 .. Len(q) - 1 : Tail(q)[i] = q[i + 1]
        /\ Head(q) = q[1] /\ q[1] \in Functors
    OBVIOUS
  <1> HIDE DEF Functors
  <1>2. In(q, Head(q))
    BY <1>1 DEF In
  <1>3. ASSUME NEW f, In(Tail(q), f) PROVE In(q, f) /\ f # Head(q)
    <2>1. PICK i \in 1 .. Len(q) - 1 : Tail(q)[i] = f
      BY <1>1, <1>3 DEF In
    <2> QED BY <1>1, <2>1 DEF In, Different
  <1>4. ASSUME NEW f, In(q, f), f # Head(q) PROVE In(Tail(q), f)
    <2>1. PICK i \in 1 .. Len(q) : q[i] = f
      BY <1>4 DEF In
    <2>2. i - 1 \in 1 .. Len(q) - 1 /\ (i - 1) + 1 = i
      BY <1>1, <1>4, <2>1
    <2> QED BY <1>1, <2>1, <2>2 DEF In
  <1>5. Different(Tail(q))
    BY <1>1 DEF Different
  <1> QED BY <1>1, <1>2, <1>3, <1>4, <1>5

\* Nothing waits in an empty queue.
LEMMA NoneIn == <<>> \in Seq(Functors) /\ Different(<<>>) /\ \A f : ~ In(<<>>, f)
  BY DEF In, Different

-----------------------------------------------------------------------------
(* Connector: one step preserves the invariant *)

\* The user's calls.
LEMMA UserKeeps ==
  ASSUME ConInv, broken = {}, Cn!UserStep
  PROVE  ConInv'
  <1> USE DEF ConInv
  <1>1. CASE Cn!Connect
    <2>1. /\ conQueue' \in Seq(Functors) /\ Different(conQueue')
          /\ \A f : In(conQueue', f) <=> In(conQueue, f) \/ f = "start"
      <3>1. ~ In(conQueue, "start")
        BY <1>1 DEF Cn!Connect, StateInv, Load, Waits, One, ConTypes
      <3> QED BY <1>1, <3>1, AppendIn DEF Cn!Connect, ConTypes, WaitsOnce, Functors
    <2>2. ConTypes' /\ WaitsOnce'
      BY <1>1, <2>1 DEF Cn!Connect, Cn!connectorVars, Cn!clientVars, ConTypes, WaitsOnce, Functors, StateInv, Load, Waits, One
    <2>3. StateInv'
      BY <1>1, <2>1 DEF Cn!Connect, Cn!connectorVars, Cn!clientVars, ConTypes, StateInv, Load, Waits, One
    <2>4. ReadyInv' /\ StopInv' /\ OffInv'
      BY <1>1, <2>1 DEF Cn!Connect, Cn!connectorVars, Cn!clientVars, ConTypes, StateInv, ReadyInv, StopInv, OffInv, Load, Waits, One
    <2> QED BY <1>1, <2>2, <2>3, <2>4 DEF Cn!Connect, Cn!connectorVars
  <1>2. CASE Cn!StopQueue
    <2>1. /\ conQueue' \in Seq(Functors) /\ Different(conQueue')
          /\ \A f : In(conQueue', f) <=> In(conQueue, f) \/ f = "stop"
      <3>1. ~ In(conQueue, "stop")
        BY <1>2 DEF Cn!StopQueue, StopInv, Waits
      <3> QED BY <1>2, <3>1, AppendIn DEF Cn!StopQueue, ConTypes, WaitsOnce, Functors
    <2>2. ConTypes' /\ WaitsOnce'
      BY <1>2, <2>1 DEF Cn!StopQueue, Cn!connectorVars, Cn!clientVars, ConTypes, WaitsOnce, Functors, StopInv, Waits
    <2>3. StateInv'
      BY <1>2, <2>1 DEF Cn!StopQueue, Cn!connectorVars, Cn!clientVars, ConTypes, StateInv, Load, Waits, One
    <2>4. ReadyInv' /\ StopInv' /\ OffInv'
      BY <1>2, <2>1 DEF Cn!StopQueue, Cn!connectorVars, Cn!clientVars, ConTypes, StateInv, ReadyInv, StopInv, OffInv, Load, Waits, One
    <2> QED BY <1>2, <2>2, <2>3, <2>4 DEF Cn!StopQueue, Cn!connectorVars
  <1>3. CASE Cn!Disconnect \/ Cn!StopFlag \/ \E how \in {"disconnect", "stop"} : Cn!EndBegins(how)
    <2> USE <1>3 DEF Cn!Disconnect, Cn!StopFlag, Cn!EndBegins, Cn!connectorVars, Cn!clientVars
    <2>1. /\ UNCHANGED <<conState, attempt, retryTimers, conQueue, conBatch, conPhase, ready, overtaken>>
          /\ link' = link \/ (link = "up" /\ link' = "closed")
          /\ user' \in {"disconnect", "done", "stop", "stopping"}
      BY DEF ConTypes
    <2>2. wants' = wants \/ wants' = FALSE
      OBVIOUS
    <2>3. wants' \in BOOLEAN
      BY <2>2, Zenon DEF ConTypes
    <2>4. ConTypes' /\ WaitsOnce'
      <3> HIDE <1>3
      <3> QED BY <2>1, <2>3 DEF ConTypes, WaitsOnce
    <2>5. StateInv'
      BY DEF ConTypes, StateInv, Load, Waits, One
    <2>6. ReadyInv' /\ StopInv' /\ OffInv'
      BY DEF ConTypes, ReadyInv, StopInv, OffInv, Load, Waits, One
    <2> QED BY <2>4, <2>5, <2>6
  <1> QED BY <1>1, <1>2, <1>3 DEF Cn!UserStep

\* What startInLoop comes to: an attempt, a timer or nothing, unless an
\* assertion fails.
LEMMA StartDoes ==
  ASSUME NEW goOn \in BOOLEAN, NEW st, NEW left \in Nat, NEW d, broken = {},
         Cn!StartInLoop(goOn, st, left, d)
  PROVE  \/ /\ st # "Disconnected" /\ broken' # {}
            /\ retryTimers' = left /\ UNCHANGED <<conState, attempt>>
         \/ /\ st = "Disconnected" /\ goOn
            /\ conState' = "Connecting" /\ attempt' = "polling" /\ retryTimers' = left
            /\ broken' = {} <=> attempt = "none"
         \/ /\ st = "Disconnected" /\ conState' = "Disconnected" /\ attempt' = attempt
            /\ broken' = {}
            /\ retryTimers' = left \/ (goOn /\ retryTimers' = left + 1)
  <1>1. CASE st # "Disconnected"
    BY <1>1 DEF Cn!StartInLoop
  <1>2. CASE st = "Disconnected" /\ ~ goOn
    BY <1>2 DEF Cn!StartInLoop
  <1>3. CASE st = "Disconnected" /\ goOn
    <2>1. CASE Cn!Connecting(left, d)
      BY <1>3, <2>1 DEF Cn!Connecting
    <2>2. CASE Cn!Refused(left, d) \/ Cn!Fatal(left, d)
      BY <1>3, <2>2 DEF Cn!Refused, Cn!Fatal, Cn!Retry
    <2> QED BY <1>3, <2>1, <2>2 DEF Cn!StartInLoop
  <1> QED BY <1>1, <1>2, <1>3

\* A retry timer fires, or a connection is made again.
LEMMA TimerKeeps ==
  ASSUME ConInv, broken = {}, Cn!TimerFires
  PROVE  ConInv'
  <1> USE DEF ConInv
  <1>1. /\ UNCHANGED <<wants, link, conQueue, conBatch, conPhase, user, overtaken>>
        /\ ready' = ready \ {"timer"} /\ conPhase = "events" /\ "timer" \in ready
    BY DEF Cn!TimerFires, Cn!Handles, Cn!Handled, Cn!clientVars
  <1>2. wants \in BOOLEAN /\ retryTimers \in Nat /\ retryTimers = 1 /\ retryTimers - 1 = 0
    BY <1>1 DEF ConTypes, ReadyInv, StateInv, Load, One
  <1>3. conState = "Disconnected" /\ ~ Waits("start") /\ link = "none" /\ attempt # "polling"
    BY <1>1, <1>2 DEF StateInv, Load, One, ConTypes
  <1>4. attempt # "none" => overtaken
    BY <1>1, <1>3 DEF OffInv, ConTypes
  <1>5. \/ /\ wants /\ conState' = "Connecting" /\ attempt' = "polling" /\ retryTimers' = 0
           /\ broken' = {} <=> attempt = "none"
        \/ /\ conState' = "Disconnected" /\ attempt' = attempt /\ broken' = {}
           /\ retryTimers' = 0 \/ (wants /\ retryTimers' = 1)
    <2>1. 0 \in Nat /\ Cn!StartInLoop(wants, conState, 0, delay)
      BY <1>2 DEF Cn!TimerFires
    <2>2. 0 + 1 = 1
      OBVIOUS
    <2>3. wants \in BOOLEAN
      BY <1>2
    <2> QED BY <1>3, <2>1, <2>2, <2>3, StartDoes
  <1>6. ConTypes' /\ WaitsOnce'
    BY <1>1, <1>5 DEF ConTypes, WaitsOnce
  <1>7. broken' = {} => StateInv'
    BY <1>1, <1>2, <1>3, <1>5 DEF ConTypes, StateInv, Load, Waits, One
  <1>8. broken' = {} => ReadyInv' /\ StopInv' /\ OffInv'
    BY <1>1, <1>2, <1>3, <1>5 DEF ConTypes, StateInv, ReadyInv, StopInv, OffInv, Load, Waits, One
  <1>9. broken' # {} => overtaken'
    BY <1>1, <1>4, <1>5
  <1> QED BY <1>6, <1>7, <1>8, <1>9

\* As above.
LEMMA RestartKeeps ==
  ASSUME ConInv, broken = {}, Cn!Restart
  PROVE  ConInv'
  <1> USE DEF ConInv
  <1>1. /\ UNCHANGED <<link, conQueue, conBatch, user, ready>>
        /\ conPhase = "restart" /\ conPhase' = "events" /\ wants' = TRUE
        /\ overtaken' = (overtaken \/ ~ wants)
    BY DEF Cn!Restart, Cn!clientVars
  <1>2. /\ retryTimers \in Nat /\ retryTimers = 0
        /\ ~ Waits("start") /\ link = "none" /\ attempt # "polling"
    BY <1>1 DEF ConTypes, StateInv, Load, One
  <1>3. attempt # "none" => overtaken
    BY <1>1, <1>2 DEF OffInv, ConTypes
  <1>4. \/ /\ conState' = "Connecting" /\ attempt' = "polling" /\ retryTimers' = 0
           /\ broken' = {} <=> attempt = "none"
        \/ /\ conState' = "Disconnected" /\ attempt' = attempt /\ broken' = {}
           /\ retryTimers' = 0 \/ retryTimers' = 1
    <2>1. TRUE \in BOOLEAN /\ 0 \in Nat /\ Cn!StartInLoop(TRUE, "Disconnected", 0, InitDelay)
      BY <1>2 DEF Cn!Restart
    <2>2. 0 + 1 = 1
      OBVIOUS
    <2> QED BY <2>1, <2>2, StartDoes, Zenon
  <1>5. ConTypes' /\ WaitsOnce'
    BY <1>1, <1>4 DEF ConTypes, WaitsOnce
  <1>6. broken' = {} => StateInv'
    BY <1>1, <1>2, <1>4 DEF ConTypes, StateInv, Load, Waits, One
  <1>7. broken' = {} => ReadyInv' /\ StopInv' /\ OffInv'
    <2>1. ReadyInv'
      BY <1>1, <1>2, <1>4 DEF ConTypes, ReadyInv
    <2>2. ~ overtaken' => wants /\ ~ overtaken
      BY <1>1 DEF ConTypes
    <2>3. StopInv'
      BY <1>1, <1>4, <2>2 DEF ConTypes, StopInv, Waits
    <2>4. OffInv'
      BY <1>3, <1>4, <2>2 DEF OffInv
    <2> QED BY <2>1, <2>3, <2>4
  <1>8. broken' # {} => overtaken'
    BY <1>1, <1>3, <1>4
  <1> QED BY <1>5, <1>6, <1>7, <1>8

\* An attempt ends.
LEMMA AttemptKeeps ==
  ASSUME ConInv, broken = {}, Cn!AttemptFails \/ Cn!AttemptSucceeds
  PROVE  ConInv'
  <1> USE DEF ConInv
  <1>1. /\ UNCHANGED <<wants, conBatch, conPhase, user, overtaken, broken>>
        /\ ready' = ready \ {"channel"} /\ conPhase = "events" /\ "channel" \in ready
        /\ attempt' = "off" /\ conQueue' = Append(conQueue, "reset")
    BY DEF Cn!AttemptFails, Cn!AttemptSucceeds, Cn!Handles, Cn!Handled, Cn!RemoveAndReset
  <1>2. /\ attempt = "polling" /\ ~ Waits("start") /\ retryTimers = 0 /\ link = "none"
        /\ ~ Waits("reset")
    BY <1>1 DEF ReadyInv, StateInv, Load, One, ConTypes
  <1>3. /\ conQueue' \in Seq(Functors) /\ Different(conQueue')
        /\ \A f : In(conQueue', f) <=> In(conQueue, f) \/ f = "reset"
    BY <1>1, <1>2, AppendIn DEF ConTypes, WaitsOnce, Functors, Waits
  <1>4. \/ /\ conState' = "Disconnected" /\ link' = link
           /\ retryTimers' = 0 \/ retryTimers' = 1
        \/ conState' = "Connected" /\ retryTimers' = 0 /\ link' \in {"none", "up"}
    <2>1. CASE Cn!AttemptFails
      BY <1>2, <2>1 DEF Cn!AttemptFails, Cn!Retry, Cn!clientVars
    <2>2. CASE Cn!AttemptSucceeds
      BY <1>2, <2>2 DEF Cn!AttemptSucceeds
    <2> QED BY <2>1, <2>2
  <1>5. ConTypes' /\ WaitsOnce'
    BY <1>1, <1>2, <1>3, <1>4 DEF ConTypes, WaitsOnce, Functors, Waits
  <1>6. StateInv'
    BY <1>1, <1>2, <1>3, <1>4 DEF ConTypes, StateInv, Load, Waits, One
  <1>7. ReadyInv' /\ StopInv' /\ OffInv'
    BY <1>1, <1>2, <1>3, <1>4 DEF ConTypes, StateInv, ReadyInv, StopInv, OffInv, Load, Waits, One
  <1> QED BY <1>1, <1>5, <1>6, <1>7

\* Poll, the end of a connection, and the server.
LEMMA PollKeeps ==
  ASSUME ConInv, broken = {}, Cn!Poll \/ Cn!RemoveConnection \/ Cn!ServerFlaps
  PROVE  ConInv'
  <1> USE DEF ConInv
  <1>1. CASE Cn!Poll
    <2>1. /\ UNCHANGED <<link, wants, conState, attempt, retryTimers, broken, conQueue, conBatch, user, overtaken>>
          /\ conPhase = "poll" /\ conPhase' = "events"
          /\ ready' \in SUBSET {"timer", "channel", "close"}
          /\ "timer" \in ready' => retryTimers > 0
          /\ "channel" \in ready' => attempt = "polling"
          /\ "close" \in ready' => link = "closed"
      BY <1>1 DEF Cn!Poll, Cn!Possible, Cn!connectorVars, Cn!clientVars
    <2>2. ConTypes' /\ WaitsOnce'
      BY <2>1 DEF ConTypes, WaitsOnce
    <2>3. StateInv' /\ ReadyInv'
      BY <2>1 DEF ConTypes, StateInv, ReadyInv, Load, Waits, One
    <2>4. StopInv' /\ OffInv'
      BY <2>1 DEF ConTypes, StopInv, OffInv, StateInv, Load, Waits, One
    <2> QED BY <2>1, <2>2, <2>3, <2>4
  <1>2. CASE Cn!RemoveConnection
    <2>1. /\ UNCHANGED <<wants, conState, attempt, retryTimers, broken, conQueue, conBatch, user, overtaken>>
          /\ conPhase = "events" /\ conPhase' \in {"events", "restart"}
          /\ "close" \in ready /\ ready' = ready \ {"close"} /\ link' = "none"
      BY <1>2 DEF Cn!RemoveConnection, Cn!connectorVars, Cn!Handles, Cn!Handled
    <2>2. ConTypes' /\ WaitsOnce'
      BY <2>1 DEF ConTypes, WaitsOnce
    <2>3. StateInv' /\ ReadyInv'
      BY <2>1 DEF ConTypes, StateInv, ReadyInv, Load, Waits, One
    <2>4. StopInv' /\ OffInv'
      BY <2>1 DEF ConTypes, StopInv, OffInv, ReadyInv, StateInv, Load, Waits, One
    <2> QED BY <2>1, <2>2, <2>3, <2>4
  <1>3. CASE Cn!ServerFlaps
    <2>1. /\ UNCHANGED <<wants, conState, attempt, retryTimers, broken, conQueue, conBatch, conPhase, ready,
                         user, overtaken>>
          /\ link' = IF link = "up" THEN "closed" ELSE link
      BY <1>3 DEF Cn!ServerFlaps, Cn!connectorVars
    <2>2. ConTypes' /\ WaitsOnce'
      BY <2>1 DEF ConTypes, WaitsOnce
    <2>3. StateInv' /\ ReadyInv'
      BY <2>1 DEF ConTypes, StateInv, ReadyInv, Load, Waits, One
    <2>4. StopInv' /\ OffInv'
      BY <2>1 DEF ConTypes, StopInv, OffInv, StateInv, Load, Waits, One
    <2> QED BY <2>1, <2>2, <2>3, <2>4
  <1> QED BY <1>1, <1>2, <1>3

\* The functors.
LEMMA FunctorKeeps ==
  ASSUME ConInv, broken = {}, NEW f \in Functors, Cn!RunFunctor(f),
         (Cn!RunStart /\ f = "start") \/ (Cn!RunStop /\ f = "stop") \/ (Cn!RunReset /\ f = "reset")
  PROVE  ConInv'
  <1> USE DEF ConInv
  <1>1. /\ UNCHANGED <<wants, link, conPhase, ready, user, overtaken>>
        /\ conPhase = "functors" /\ conBatch # <<>> /\ Head(conBatch) = f
        /\ conBatch' = Tail(conBatch)
    BY DEF Cn!RunFunctor, Cn!clientVars
  <1>2. /\ conBatch' \in Seq(Functors) /\ Different(conBatch') /\ In(conBatch, f)
        /\ \A g : In(conBatch', g) <=> In(conBatch, g) /\ g # f
    BY <1>1, TailIn DEF ConTypes, WaitsOnce
  <1>3. ready = {}
    BY <1>1 DEF ReadyInv
  <1>4. CASE Cn!RunStart /\ f = "start"
    <2>1. /\ wants \in BOOLEAN /\ retryTimers \in Nat /\ retryTimers = 0 /\ attempt = "none"
          /\ conState = "Disconnected" /\ link = "none"
      BY <1>1, <1>2, <1>4 DEF ConTypes, StateInv, Load, One, Waits
    <2>2. /\ UNCHANGED conQueue /\ broken' = {}
          /\ \/ conState' = "Connecting" /\ attempt' = "polling" /\ retryTimers' = 0 /\ wants
             \/ /\ conState' = "Disconnected" /\ attempt' = "none"
                /\ retryTimers' = 0 \/ retryTimers' = 1
      BY <1>4, <2>1, StartDoes DEF Cn!RunStart
    <2>3. ~ In(conQueue, "start")
      BY <1>2, <1>4 DEF WaitsOnce
    <2>4. ConTypes' /\ WaitsOnce'
      BY <1>1, <1>2, <2>2 DEF ConTypes, WaitsOnce
    <2>5. StateInv'
      BY <1>1, <1>2, <1>4, <2>1, <2>2, <2>3 DEF ConTypes, StateInv, Load, Waits, One
    <2>6. ReadyInv' /\ StopInv' /\ OffInv'
      BY <1>1, <1>2, <1>3, <1>4, <2>1, <2>2 DEF ConTypes, ReadyInv, StopInv, OffInv, Load, Waits, One
    <2> QED BY <2>2, <2>4, <2>5, <2>6
  <1>5. CASE Cn!RunStop /\ f = "stop"
    <2>1. user = "stopped" /\ ~ In(conQueue, "stop") /\ broken' = {}
      BY <1>2, <1>5 DEF StopInv, Waits, WaitsOnce, Cn!RunStop
    <2>2. CASE conState # "Connecting"
      <3>1. UNCHANGED <<conState, attempt, retryTimers, conQueue>> /\ attempt # "polling"
        BY <1>5, <2>2 DEF Cn!RunStop, Cn!Stops, StateInv
      <3>2. ConTypes' /\ WaitsOnce'
        BY <1>1, <1>2, <3>1 DEF ConTypes, WaitsOnce
      <3>3. StateInv'
        BY <1>1, <1>2, <1>5, <3>1 DEF ConTypes, StateInv, Load, Waits, One
      <3>4. ReadyInv' /\ StopInv' /\ OffInv'
        BY <1>1, <1>2, <1>3, <1>5, <2>1, <3>1 DEF ConTypes, ReadyInv, StopInv, OffInv, Load, Waits, One
      <3> QED BY <2>1, <3>2, <3>3, <3>4
    <2>3. CASE conState = "Connecting"
      <3>1. attempt = "polling" /\ ~ Waits("reset") /\ ~ Waits("start") /\ retryTimers = 0 /\ link = "none"
        BY <2>3 DEF StateInv, Load, One, ConTypes
      <3>2. /\ conQueue' = Append(conQueue, "reset") /\ attempt' = "off" /\ conState' = "Disconnected"
            /\ retryTimers' = 0 \/ (wants /\ retryTimers' = 1)
        BY <1>5, <2>3, <3>1 DEF Cn!RunStop, Cn!Stops, Cn!RemoveAndReset, Cn!Retry
      <3>3. /\ conQueue' \in Seq(Functors) /\ Different(conQueue')
            /\ \A g : In(conQueue', g) <=> In(conQueue, g) \/ g = "reset"
        BY <3>1, <3>2, AppendIn DEF ConTypes, WaitsOnce, Functors, Waits
      <3>4. ConTypes' /\ WaitsOnce'
        BY <1>1, <1>2, <3>1, <3>2, <3>3 DEF ConTypes, WaitsOnce, Functors, Waits
      <3>5. StateInv'
        BY <1>1, <1>2, <1>5, <2>1, <3>1, <3>2, <3>3 DEF ConTypes, StateInv, Load, Waits, One
      <3>6. ReadyInv' /\ StopInv' /\ OffInv'
        BY <1>1, <1>2, <1>3, <1>5, <2>1, <3>1, <3>2, <3>3
           DEF ConTypes, ReadyInv, StopInv, OffInv, Load, Waits, One
      <3> QED BY <2>1, <3>4, <3>5, <3>6
    <2> QED BY <2>2, <2>3
  <1>6. CASE Cn!RunReset /\ f = "reset"
    <2>1. /\ UNCHANGED <<conState, retryTimers, broken, conQueue>> /\ attempt' = "none"
          /\ attempt = "off" /\ ~ In(conQueue, "reset")
      BY <1>2, <1>6 DEF Cn!RunReset, StateInv, Waits, WaitsOnce
    <2>2. ConTypes' /\ WaitsOnce'
      BY <1>1, <1>2, <2>1 DEF ConTypes, WaitsOnce
    <2>3. StateInv'
      BY <1>1, <1>2, <1>6, <2>1 DEF ConTypes, StateInv, Load, Waits, One
    <2>4. ReadyInv' /\ StopInv' /\ OffInv'
      BY <1>1, <1>2, <1>3, <1>6, <2>1 DEF ConTypes, ReadyInv, StopInv, OffInv, Load, Waits, One
    <2> QED BY <2>1, <2>2, <2>3, <2>4
  <1> QED BY <1>4, <1>5, <1>6

\* The batch is taken, and the round ends.
LEMMA RoundKeeps ==
  ASSUME ConInv, broken = {}, Cn!Swap \/ Cn!EndRound
  PROVE  ConInv'
  <1> USE DEF ConInv
  <1>1. UNCHANGED <<link, wants, conState, attempt, retryTimers, broken, user, ready, overtaken>>
    BY DEF Cn!Swap, Cn!EndRound, Cn!connectorVars, Cn!clientVars
  <1>2. CASE Cn!Swap
    <2>1. /\ conPhase = "events" /\ ready = {} /\ conPhase' = "functors"
          /\ conBatch' = conQueue /\ conQueue' = <<>> /\ conBatch = <<>>
      BY <1>2 DEF Cn!Swap, WaitsOnce
    <2>2. \A f : ~ In(conQueue', f) /\ ~ In(conBatch, f) /\ (In(conBatch', f) <=> In(conQueue, f))
      BY <2>1, NoneIn
    <2>3. ConTypes' /\ WaitsOnce'
      BY <1>1, <2>1, <2>2, NoneIn DEF ConTypes, WaitsOnce
    <2>4. StateInv' /\ ReadyInv'
      BY <1>1, <2>1, <2>2 DEF ConTypes, StateInv, ReadyInv, Load, Waits, One
    <2>5. StopInv' /\ OffInv'
      BY <1>1, <2>1, <2>2 DEF ConTypes, StopInv, OffInv, StateInv, Load, Waits, One
    <2> QED BY <1>1, <2>3, <2>4, <2>5
  <1>3. CASE Cn!EndRound
    <2>1. /\ conPhase = "functors" /\ conBatch = <<>> /\ conPhase' = "poll"
          /\ UNCHANGED <<conQueue, conBatch>>
      BY <1>3 DEF Cn!EndRound
    <2>2. \A f : ~ In(conBatch, f)
      BY <2>1, NoneIn
    <2>3. ConTypes' /\ WaitsOnce'
      BY <1>1, <2>1 DEF ConTypes, WaitsOnce
    <2>4. StateInv' /\ ReadyInv'
      BY <1>1, <2>1, <2>2 DEF ConTypes, StateInv, ReadyInv, Load, Waits, One
    <2>5. StopInv' /\ OffInv'
      BY <1>1, <2>1, <2>2 DEF ConTypes, StopInv, OffInv, StateInv, Load, Waits, One
    <2> QED BY <1>1, <2>3, <2>4, <2>5
  <1> QED BY <1>2, <1>3

\* Every step of Connector preserves the invariant.
LEMMA ConStep ==
  ASSUME ConInv, [Cn!Next]_conVars
  PROVE  ConInv'
  <1>1. CASE UNCHANGED conVars
    BY <1>1 DEF conVars, ConInv, ConTypes, WaitsOnce, StateInv, ReadyInv, StopInv, OffInv, Load, Waits
  <1>2. CASE Cn!Next
    <2>1. broken = {} /\ (Cn!LoopStep \/ Cn!UserStep \/ Cn!ServerFlaps)
      BY <1>2 DEF Cn!Next
    <2>2. CASE Cn!RunStart \/ Cn!RunStop \/ Cn!RunReset
      BY <2>1, <2>2, FunctorKeeps DEF Cn!RunStart, Cn!RunStop, Cn!RunReset, Functors
    <2> QED BY <2>1, <2>2, UserKeeps, TimerKeeps, RestartKeeps, AttemptKeeps, PollKeeps, RoundKeeps
               DEF Cn!LoopStep
  <1> QED BY <1>1, <1>2

\* The invariant holds at the start.
LEMMA ConInit == Cn!Init => ConInv
  <1> SUFFICES ASSUME Cn!Init PROVE ConInv
    OBVIOUS
  <1> USE NoneIn DEF Cn!Init
  <1>1. ConTypes /\ WaitsOnce
    BY DEF ConTypes, WaitsOnce
  <1>2. StateInv /\ ReadyInv /\ StopInv /\ OffInv
    BY DEF StateInv, ReadyInv, StopInv, OffInv, Load, Waits, One
  <1> QED BY <1>1, <1>2 DEF ConInv

\* The invariant is enough.
LEMMA ConInvSound == ConInv => Cn!ConnectorSound
  <1> SUFFICES ASSUME ConInv PROVE Cn!ConnectorSound
    OBVIOUS
  <1>1. Cn!ConnectorAsserts
    BY DEF ConInv, Cn!ConnectorAsserts
  <1>2. Cn!OneAttempt
    BY DEF ConInv, Cn!OneAttempt, StateInv, Load, One, ConTypes
  <1>3. ASSUME user = "stopped", ~ Waits("stop"), ~ overtaken PROVE attempt # "polling" /\ ~ wants
    BY <1>3 DEF ConInv, StopInv
  <1>4. Cn!StopHolds
    BY <1>3 DEF Cn!StopHolds, Waits, In
  <1> QED BY <1>1, <1>2, <1>4 DEF Cn!ConnectorSound

\* Connector: its assertions hold unless restart overtook stop, there is one timer, attempt or
\* connection at most, and after stop no attempt, whatever the user, the server and the loop do.
THEOREM ConnectorStands == Spec => []ConnectorSound
  <1> DEFINE Inv == part = "connector" => ConInv
  <1>1. Init => Inv
    BY ConInit DEF Init
  <1>2. Inv /\ [Next]_allVars => Inv'
    <2> SUFFICES ASSUME Inv, [Next]_allVars, part' = "connector" PROVE ConInv'
      OBVIOUS
    <2>1. part = "connector" /\ [Cn!Next]_conVars
      BY DEF Next, Steps, allVars
    <2> QED BY <2>1, ConStep
  <1>3. Inv => ConnectorSound
    BY ConInvSound DEF ConnectorSound
  <1> QED BY <1>1, <1>2, <1>3, PTL DEF Spec

-----------------------------------------------------------------------------
(* Pollers: the state *)

Events == SUBSET {"r", "w"}
ChanRecs == [fd : Int, events : Events, index : Int, life : {"new", "added", "removed", "closed"}]
Interests == [fd : Int, ptr : Nat, events : Events]
PollRecs == [fd : Int, events : Events]

\* Type correctness.
PollTypes ==
  /\ pollKind \in {"epoll", "poll"}
  /\ chans \in Seq(ChanRecs)
  /\ chanMap \in SUBSET (Int \X Nat)
  /\ pollfds \in Seq(PollRecs)
  /\ interest \in SUBSET Interests
  /\ blank \in BOOLEAN

IsOpen(c) == c \in DOMAIN chans /\ chans[c].life # "closed"
Added(c) == c \in DOMAIN chans /\ chans[c].life = "added"

\* The channels: an open one has a descriptor of its own, one that is not with the poller asks for nothing.
ChanInv ==
  /\ \A c \in DOMAIN chans : IsOpen(c) => chans[c].fd \in Fds
  /\ \A c, d \in DOMAIN chans : IsOpen(c) /\ IsOpen(d) /\ chans[c].fd = chans[d].fd => c = d
  /\ \A c \in DOMAIN chans : chans[c].life # "added" => chans[c].events = {}
  /\ \A c \in DOMAIN chans : chans[c].life = "new" => chans[c].index = -1

\* channels_ has the channels that were added.
MapInv ==
  /\ \A p \in chanMap : Added(p[2]) /\ p[1] = chans[p[2]].fd
  /\ \A c \in DOMAIN chans : Added(c) => <<chans[c].fd, c>> \in chanMap

\* The kernel watches the channels of index kAdded, the others ask for nothing.
KernelInv ==
  /\ \A e \in interest :
       Added(e.ptr) /\ chans[e.ptr].index = 1 /\ e.fd = chans[e.ptr].fd /\ e.events = chans[e.ptr].events
  /\ \A c \in DOMAIN chans :
       /\ Added(c) /\ chans[c].index = 1 => Po!Entry(c, chans[c].events) \in interest
       /\ Added(c) => chans[c].index = 1 \/ (chans[c].index = 2 /\ chans[c].events = {})
       /\ ~ Added(c) => chans[c].index = -1

\* pollfds_ has the channels that were added, each at its place; an entry poll is to ignore is negated,
\* but for a channel that never asked for anything.
Fits(c, k) ==
  /\ Added(c) /\ chans[c].index + 1 = k
  /\ pollfds[k].events = chans[c].events
  /\ pollfds[k].fd \in {chans[c].fd, Po!Ignored(chans[c].fd)}
  /\ chans[c].events # {} => pollfds[k].fd = chans[c].fd
  /\ chans[c].events = {} => pollfds[k].fd = Po!Ignored(chans[c].fd) \/ blank

ArrayInv ==
  /\ \A c \in DOMAIN chans : Added(c) => chans[c].index + 1 \in 1 .. Len(pollfds)
  /\ \A c, d \in DOMAIN chans : Added(c) /\ Added(d) /\ chans[c].index = chans[d].index => c = d
  /\ \A k \in 1 .. Len(pollfds) : \E c \in DOMAIN chans : Fits(c, k)

PollInv ==
  /\ PollTypes
  /\ pollFailed # {} => pollKind = "poll" /\ blank
  /\ pollFailed = {} =>
       /\ ChanInv /\ MapInv
       /\ pollKind = "epoll" => KernelInv
       /\ pollKind = "poll" => ArrayInv

-----------------------------------------------------------------------------
(* Pollers: changes of one channel *)

\* Channel c becomes r, the others stay.
Becomes(c, r) ==
  /\ chans' \in Seq(ChanRecs) /\ DOMAIN chans' = DOMAIN chans
  /\ \A d \in DOMAIN chans : d # c => chans'[d] = chans[d]
  /\ chans'[c] = r

\* The places of a sequence that is changed at one.
LEMMA OneChanged ==
  ASSUME NEW S, NEW q \in Seq(S), NEW c \in DOMAIN q, NEW r \in S
  PROVE  /\ [q EXCEPT ![c] = r] \in Seq(S) /\ DOMAIN [q EXCEPT ![c] = r] = DOMAIN q
         /\ Len([q EXCEPT ![c] = r]) = Len(q)
         /\ \A d \in DOMAIN q : d # c => [q EXCEPT ![c] = r][d] = q[d]
         /\ [q EXCEPT ![c] = r][c] = r
  BY ExceptSeq

\* The assignments of update and remove to a channel.
LEMMA IsDoes ==
  ASSUME PollTypes, NEW c \in DOMAIN chans, NEW ev \in Events, NEW i \in Int,
         NEW life \in {"added", "removed"}, Po!Is(c, ev, i, life)
  PROVE  Becomes(c, [fd |-> chans[c].fd, events |-> ev, index |-> i, life |-> life])
  <1> DEFINE r == [fd |-> chans[c].fd, events |-> ev, index |-> i, life |-> life]
  <1>1. chans[c] \in ChanRecs
    BY DEF PollTypes
  <1>2. r \in ChanRecs
    BY <1>1 DEF ChanRecs
  <1>3. chans' = [chans EXCEPT ![c] = r]
    BY DEF Po!Is
  <1> HIDE DEF r
  <1>4. Becomes(c, r)
    BY <1>2, <1>3, OneChanged DEF PollTypes, Becomes
  <1> QED BY <1>4 DEF r

\* The parts of the invariant that both pollers share, after an update.
LEMMA SharedUpdate ==
  ASSUME PollTypes, ChanInv, MapInv, NEW c \in DOMAIN chans, NEW ev \in Events, NEW i \in Int,
         chans[c].life \in {"new", "added"},
         Becomes(c, [fd |-> chans[c].fd, events |-> ev, index |-> i, life |-> "added"]),
         \/ chanMap' = chanMap \cup {<<chans[c].fd, c>>}
         \/ chanMap' = chanMap /\ chans[c].life = "added"
  PROVE  ChanInv' /\ MapInv' /\ chanMap' \in SUBSET (Int \X Nat)
  <1>1. c \in Nat /\ chans[c].fd \in Int
    <2>1. chans[c] \in ChanRecs /\ c \in Nat
      BY DEF PollTypes
    <2> QED BY <2>1 DEF ChanRecs
  <1>2. ChanInv'
    BY DEF ChanInv, IsOpen, Becomes
  <1>3. MapInv'
    <2>1. chans'[c].fd = chans[c].fd /\ chans'[c].life = "added"
      BY DEF Becomes
    <2>2. ASSUME NEW p \in chanMap' PROVE Added(p[2])' /\ p[1] = chans'[p[2]].fd
      <3>1. CASE p \in chanMap
        BY <2>1, <3>1 DEF MapInv, Added, Becomes
      <3>2. CASE p = <<chans[c].fd, c>>
        BY <2>1, <3>2 DEF Added, Becomes
      <3> QED BY <2>2, <3>1, <3>2
    <2>3. ASSUME NEW d \in DOMAIN chans, Added(d)' PROVE <<chans'[d].fd, d>> \in chanMap'
      BY <2>1, <2>3 DEF MapInv, Added, Becomes
    <2> QED BY <2>2, <2>3 DEF MapInv, Becomes
  <1> QED BY <1>1, <1>2, <1>3 DEF PollTypes

\* And after a removal.
LEMMA SharedRemove ==
  ASSUME PollTypes, ChanInv, MapInv, NEW c \in DOMAIN chans,
         chans[c].life = "added", DOMAIN chans' = DOMAIN chans,
         \A d \in DOMAIN chans : chans'[d].fd = chans[d].fd /\ chans'[d].events = chans[d].events,
         \A d \in DOMAIN chans : d # c => chans'[d].life = chans[d].life,
         \A d \in DOMAIN chans : chans[d].life = "new" => chans'[d].index = chans[d].index,
         chans[c].events = {}, chans'[c].life = "removed",
         chanMap' = chanMap \ {<<chans[c].fd, c>>}
  PROVE  ChanInv' /\ MapInv' /\ chanMap' \in SUBSET (Int \X Nat)
  <1>1. ChanInv'
    BY DEF ChanInv, IsOpen
  <1>2. MapInv'
    BY SMTT(30) DEF MapInv, Added, PollTypes
  <1> QED BY <1>1, <1>2 DEF PollTypes

\* New sockets and their channels.
LEMMA NewKeeps ==
  ASSUME PollInv, pollFailed = {}, NEW fd \in Fds, Po!NewChannel(fd)
  PROVE  PollInv'
  <1> DEFINE r == [fd |-> fd, events |-> {}, index |-> -1, life |-> "new"]
  <1>1. /\ chans' = Append(chans, r) /\ fd \notin Po!Open
        /\ UNCHANGED <<pollKind, chanMap, pollfds, interest, blank, pollFailed>>
    BY DEF Po!NewChannel, Po!kNew
  <1>2. r \in ChanRecs /\ fd \in Fds
    BY Descriptors DEF ChanRecs, Events
  <1>3. PICK n \in Nat :
          /\ chans' \in Seq(ChanRecs) /\ n \notin DOMAIN chans
          /\ DOMAIN chans' = DOMAIN chans \cup {n}
          /\ \A d \in DOMAIN chans : chans'[d] = chans[d]
          /\ chans'[n] = r
    <2>1. /\ chans' \in Seq(ChanRecs) /\ Len(chans) + 1 \notin DOMAIN chans
          /\ DOMAIN chans' = DOMAIN chans \cup {Len(chans) + 1} /\ Len(chans) + 1 \in Nat
          /\ \A d \in DOMAIN chans : chans'[d] = chans[d]
          /\ chans'[Len(chans) + 1] = r
      BY <1>1, <1>2 DEF PollInv, PollTypes
    <2> QED BY <2>1
  <1>4. \A d \in DOMAIN chans : IsOpen(d) => chans[d].fd # fd
    BY <1>1 DEF IsOpen, Po!Open, Po!Channels, PollInv, PollTypes
  <1>5. PollTypes'
    BY <1>1, <1>3 DEF PollInv, PollTypes
  <1>6. /\ \A d \in DOMAIN chans : (IsOpen(d)' <=> IsOpen(d)) /\ (Added(d)' <=> Added(d))
        /\ IsOpen(n)' /\ ~ Added(n)' /\ ~ Added(n)
        /\ chans'[n].fd = fd /\ chans'[n].index = -1 /\ chans'[n].events = {}
    <2>1. /\ chans'[n].fd = fd /\ chans'[n].index = -1 /\ chans'[n].events = {}
          /\ chans'[n].life = "new" /\ n \in DOMAIN chans'
      BY <1>3
    <2> QED BY <1>3, <2>1 DEF IsOpen, Added
  <1>7. ChanInv'
    BY <1>2, <1>3, <1>4, <1>6 DEF PollInv, ChanInv
  <1>8. MapInv'
    BY <1>1, <1>3, <1>6 DEF PollInv, MapInv, Added
  <1>9. pollKind' = "epoll" => KernelInv'
    BY <1>1, <1>3, <1>6 DEF PollInv, KernelInv, Po!Entry, Added
  <1>10. ASSUME pollKind = "poll" PROVE ArrayInv'
    <2>1. \A d \in DOMAIN chans, k \in 1 .. Len(pollfds) : Fits(d, k) => Fits(d, k)'
      BY <1>1, <1>3, <1>6 DEF Fits, Po!Ignored
    <2>2. pollfds' = pollfds /\ ArrayInv
      BY <1>1, <1>10 DEF PollInv
    <2> QED BY <1>3, <1>6, <2>1, <2>2 DEF ArrayInv
  <1> QED BY <1>1, <1>5, <1>7, <1>8, <1>9, <1>10 DEF PollInv

\* A descriptor is closed.
LEMMA CloseKeeps ==
  ASSUME PollInv, pollFailed = {}, NEW c \in DOMAIN chans, Po!Close(c)
  PROVE  PollInv'
  <1>1. /\ chans[c].life \in {"new", "removed"} /\ chans' = [chans EXCEPT ![c] = Po!Closed]
        /\ interest' = Po!Without(chans[c].fd)
        /\ UNCHANGED <<pollKind, chanMap, pollfds, blank, pollFailed>>
    BY DEF Po!Close
  <1>2. Po!Closed \in ChanRecs /\ Po!Closed.life = "closed" /\ Po!Closed.events = {} /\ Po!Closed.index = -1
    BY DEF Po!Closed, Po!kNew, ChanRecs, Events
  <1>3. Becomes(c, Po!Closed)
    BY <1>1, <1>2, OneChanged DEF Becomes, PollInv, PollTypes
  <1>4. PollTypes'
    BY <1>1, <1>3 DEF PollInv, PollTypes, Becomes, Po!Without
  <1>5. /\ \A d \in DOMAIN chans : (Added(d)' <=> Added(d)) /\ (IsOpen(d)' => IsOpen(d) /\ d # c)
        /\ ~ Added(c) /\ IsOpen(c)
    BY <1>1, <1>2, <1>3 DEF Added, IsOpen, Becomes
  <1>6. ChanInv'
    BY <1>2, <1>3, <1>5 DEF PollInv, ChanInv, Becomes
  <1>7. MapInv'
    BY <1>1, <1>3, <1>5 DEF PollInv, MapInv, Becomes, Added
  <1>8. ASSUME pollKind = "epoll" PROVE KernelInv'
    <2>1. \A e \in interest : e.fd # chans[c].fd
      BY <1>5, <1>8 DEF PollInv, KernelInv, ChanInv, Added, IsOpen
    <2>2. interest' = interest
      BY <1>1, <2>1 DEF Po!Without
    <2> QED BY <1>2, <1>3, <1>5, <1>8, <2>2 DEF PollInv, KernelInv, Becomes, Po!Entry, Added
  <1>9. ASSUME pollKind = "poll" PROVE ArrayInv'
    <2>1. \A d \in DOMAIN chans, k \in 1 .. Len(pollfds) : Fits(d, k) => Fits(d, k)'
      BY <1>1, <1>3, <1>5 DEF Fits, Po!Ignored, Becomes
    <2>2. pollfds' = pollfds /\ ArrayInv
      BY <1>1, <1>9 DEF PollInv
    <2> QED BY <1>3, <1>5, <2>1, <2>2 DEF ArrayInv, Becomes
  <1> QED BY <1>1, <1>4, <1>6, <1>7, <1>8, <1>9 DEF PollInv

-----------------------------------------------------------------------------
(* EPollPoller *)

\* The kernel's list when the entry of channel c is replaced by one for ev.
LEMMA KernelUpdate ==
  ASSUME PollInv, pollFailed = {}, pollKind = "epoll", NEW c \in DOMAIN chans, NEW ev \in Events,
         chans[c].life \in {"new", "added"},
         Becomes(c, [fd |-> chans[c].fd, events |-> ev, index |-> 1, life |-> "added"]),
         interest' = Po!Without(chans[c].fd) \cup {Po!Entry(c, ev)}
  PROVE  KernelInv' /\ interest' \in SUBSET Interests
  <1>1. /\ chans'[c].fd = chans[c].fd /\ chans'[c].events = ev /\ chans'[c].index = 1
        /\ Added(c)' /\ IsOpen(c)
        /\ \A d \in DOMAIN chans : d # c => chans'[d] = chans[d] /\ (Added(d)' <=> Added(d))
    BY DEF Becomes, Added, IsOpen
  <1>2. c \in Nat /\ chans[c].fd \in Int
    <2>1. chans[c] \in ChanRecs /\ c \in Nat
      BY DEF PollInv, PollTypes
    <2> QED BY <2>1 DEF ChanRecs
  <1>3. Po!Entry(c, ev) \in Interests
    BY <1>2 DEF Po!Entry, Interests
  <1>4. \A e \in interest : e.fd # chans[c].fd => e.ptr # c /\ e.ptr \in DOMAIN chans
    BY DEF PollInv, KernelInv, Added
  <1>5. ASSUME NEW e \in interest'
        PROVE  /\ Added(e.ptr)' /\ chans'[e.ptr].index = 1
               /\ e.fd = chans'[e.ptr].fd /\ e.events = chans'[e.ptr].events
    <2>1. CASE e \in Po!Without(chans[c].fd)
      BY <1>1, <1>4, <2>1 DEF PollInv, KernelInv, Po!Without
    <2>2. CASE e = Po!Entry(c, ev)
      BY <1>1, <2>2 DEF Po!Entry
    <2> QED BY <1>5, <2>1, <2>2
  <1>6. ASSUME NEW d \in DOMAIN chans, Added(d)', chans'[d].index = 1
        PROVE  [fd |-> chans'[d].fd, ptr |-> d, events |-> chans'[d].events] \in interest'
    <2>1. CASE d = c
      BY <1>1, <2>1 DEF Po!Entry
    <2>2. CASE d # c
      <3>1. chans[d].fd # chans[c].fd
        BY <1>1, <1>6, <2>2 DEF PollInv, ChanInv, Added, IsOpen
      <3>2. [fd |-> chans[d].fd, ptr |-> d, events |-> chans[d].events] \in interest
        BY <1>1, <1>6, <2>2 DEF PollInv, KernelInv, Po!Entry
      <3> QED BY <1>1, <2>2, <3>1, <3>2 DEF Po!Without
    <2> QED BY <2>1, <2>2
  <1>7. \A d \in DOMAIN chans :
          /\ Added(d)' => chans'[d].index = 1 \/ (chans'[d].index = 2 /\ chans'[d].events = {})
          /\ ~ Added(d)' => chans'[d].index = -1
    BY <1>1 DEF PollInv, KernelInv
  <1>8. KernelInv'
    BY <1>5, <1>6, <1>7 DEF KernelInv, Po!Entry, Becomes
  <1> QED BY <1>3, <1>8 DEF PollInv, PollTypes, Po!Without

\* And when it is taken out.
LEMMA KernelDrops ==
  ASSUME PollInv, pollFailed = {}, pollKind = "epoll", NEW c \in DOMAIN chans, NEW r \in ChanRecs,
         Becomes(c, r), r.fd = chans[c].fd, IsOpen(c),
         r.events = {}, (r.life = "added" /\ r.index = 2) \/ (r.life = "removed" /\ r.index = -1),
         interest' = Po!Without(chans[c].fd)
  PROVE  KernelInv' /\ interest' \in SUBSET Interests
  <1>1. /\ chans'[c] = r
        /\ \A d \in DOMAIN chans : d # c => chans'[d] = chans[d] /\ (Added(d)' <=> Added(d))
        /\ Added(c)' <=> r.life = "added"
    BY DEF Becomes, Added
  <1>2. ASSUME NEW e \in interest'
        PROVE  /\ Added(e.ptr)' /\ chans'[e.ptr].index = 1
               /\ e.fd = chans'[e.ptr].fd /\ e.events = chans'[e.ptr].events
    BY <1>1 DEF PollInv, KernelInv, Po!Without, Added
  <1>3. ASSUME NEW d \in DOMAIN chans, Added(d)', chans'[d].index = 1
        PROVE  [fd |-> chans'[d].fd, ptr |-> d, events |-> chans'[d].events] \in interest'
    <2>1. d # c
      BY <1>1, <1>3
    <2>2. chans[d].fd # chans[c].fd
      BY <1>1, <1>3, <2>1 DEF PollInv, ChanInv, Added, IsOpen
    <2>3. [fd |-> chans[d].fd, ptr |-> d, events |-> chans[d].events] \in interest
      BY <1>1, <1>3, <2>1 DEF PollInv, KernelInv, Po!Entry
    <2> QED BY <1>1, <2>1, <2>2, <2>3 DEF Po!Without
  <1>4. \A d \in DOMAIN chans :
          /\ Added(d)' => chans'[d].index = 1 \/ (chans'[d].index = 2 /\ chans'[d].events = {})
          /\ ~ Added(d)' => chans'[d].index = -1
    BY <1>1 DEF PollInv, KernelInv
  <1>5. KernelInv'
    BY <1>2, <1>3, <1>4 DEF KernelInv, Po!Entry, Becomes
  <1> QED BY <1>5 DEF PollInv, PollTypes, Po!Without


\* EPollPoller::updateChannel.
LEMMA EPollUpdateKeeps ==
  ASSUME PollInv, pollFailed = {}, pollKind = "epoll", NEW c \in DOMAIN chans, NEW ev \in Events,
         chans[c].life \in {"new", "added"}, Po!EPollUpdate(c, ev), blank' \in BOOLEAN,
         UNCHANGED <<pollfds, pollKind>>
  PROVE  PollInv'
  <1> USE DEF Po!kNew, Po!kAdded, Po!kDeleted
  <1>1. PollTypes /\ ChanInv /\ MapInv /\ KernelInv
    BY DEF PollInv
  <1>2. Po!Knows(c) <=> chans[c].life = "added"
    BY <1>1 DEF Po!Knows, MapInv, Added
  <1>3. chans[c].life = "new" => ~ Po!Registered(chans[c].fd)
    BY <1>1 DEF Po!Registered, MapInv, ChanInv, Added, IsOpen
  <1>4. Po!Listed(chans[c].fd) <=> chans[c].life = "added" /\ chans[c].index = 1
    <2>1. ASSUME Po!Listed(chans[c].fd) PROVE chans[c].life = "added" /\ chans[c].index = 1
      <3>1. PICK e \in interest : e.fd = chans[c].fd
        BY <2>1 DEF Po!Listed
      <3>2. e.ptr = c
        BY <1>1, <3>1 DEF KernelInv, ChanInv, Added, IsOpen
      <3> QED BY <1>1, <3>1, <3>2 DEF KernelInv, Added
    <2>2. ASSUME chans[c].life = "added", chans[c].index = 1 PROVE Po!Listed(chans[c].fd)
      BY <1>1, <2>2 DEF KernelInv, Added, Po!Listed, Po!Entry
    <2> QED BY <2>1, <2>2
  <1>5. /\ chans[c].life = "new" => chans[c].index = -1
        /\ chans[c].life = "added" => chans[c].index \in {1, 2}
    BY <1>1 DEF KernelInv, Added
  <1>6. CASE Po!IsOut(chans[c].index)
    <2>1. chans[c].index # 1 /\ (chans[c].index = -1 <=> chans[c].life = "new")
      BY <1>5, <1>6 DEF Po!IsOut
    <2>2. /\ Po!Is(c, ev, 1, "added") /\ chanMap' = chanMap \cup {<<chans[c].fd, c>>}
          /\ interest' = Po!Without(chans[c].fd) \cup {Po!Entry(c, ev)}
      BY <1>6 DEF Po!EPollUpdate
    <2>3. pollFailed' = {}
      <3>1. (IF chans[c].index = -1 THEN ~ Po!Registered(chans[c].fd) ELSE Po!Knows(c)) /\ ~ Po!Listed(chans[c].fd)
        BY <1>2, <1>3, <1>4, <2>1
      <3>2. pollFailed' = Po!Failing("map", IF chans[c].index = -1 THEN ~ Po!Registered(chans[c].fd) ELSE Po!Knows(c))
                            \cup Po!Failing("add", ~ Po!Listed(chans[c].fd))
        BY <1>6 DEF Po!EPollUpdate
      <3> QED BY <3>1, <3>2 DEF Po!Failing
    <2>4. Becomes(c, [fd |-> chans[c].fd, events |-> ev, index |-> 1, life |-> "added"])
      <3>1. 1 \in Int /\ "added" \in {"added", "removed"} /\ Po!Is(c, ev, 1, "added")
        BY <2>2
      <3> QED BY <1>1, <3>1, IsDoes, Zenon
    <2>5. ChanInv' /\ MapInv' /\ chanMap' \in SUBSET (Int \X Nat)
      BY <1>1, <2>2, <2>4, SharedUpdate
    <2>6. KernelInv' /\ interest' \in SUBSET Interests
      BY <2>2, <2>4, KernelUpdate
    <2>7. PollTypes'
      BY <1>1, <2>4, <2>5, <2>6 DEF PollTypes, Becomes
    <2> QED BY <2>3, <2>5, <2>6, <2>7 DEF PollInv
  <1>7. CASE ~ Po!IsOut(chans[c].index)
    <2>1. chans[c].index = 1 /\ chans[c].life = "added"
      BY <1>5, <1>7 DEF Po!IsOut
    <2>2. /\ Po!Is(c, ev, IF ev = {} THEN 2 ELSE 1, "added") /\ chanMap' = chanMap
          /\ interest' = IF ev = {} THEN Po!Without(chans[c].fd) ELSE Po!Modified(c, ev)
      BY <1>7 DEF Po!EPollUpdate
    <2>3. pollFailed' = {}
      BY <1>2, <1>4, <1>7, <2>1 DEF Po!EPollUpdate, Po!Failing
    <2>4. CASE ev = {}
      <3> DEFINE r == [fd |-> chans[c].fd, events |-> ev, index |-> 2, life |-> "added"]
      <3>1. Becomes(c, r)
        <4>1. 2 \in Int /\ "added" \in {"added", "removed"} /\ Po!Is(c, ev, 2, "added")
          BY <2>2, <2>4
        <4> QED BY <1>1, <4>1, IsDoes, Zenon
      <3>2. ChanInv' /\ MapInv' /\ chanMap' \in SUBSET (Int \X Nat)
        BY <1>1, <2>1, <2>2, <3>1, SharedUpdate
      <3>3. r \in ChanRecs /\ IsOpen(c)
        <4>1. chans[c] \in ChanRecs
          BY <1>1 DEF PollTypes
        <4> QED BY <2>1, <4>1 DEF ChanRecs, IsOpen
      <3>4. KernelInv' /\ interest' \in SUBSET Interests
        BY <2>2, <2>4, <3>1, <3>3, KernelDrops
      <3>5. PollTypes'
        BY <1>1, <3>1, <3>2, <3>4 DEF PollTypes, Becomes
      <3> QED BY <2>3, <3>2, <3>4, <3>5 DEF PollInv
    <2>5. CASE ev # {}
      <3>1. Becomes(c, [fd |-> chans[c].fd, events |-> ev, index |-> 1, life |-> "added"])
        <4>1. 1 \in Int /\ "added" \in {"added", "removed"} /\ Po!Is(c, ev, 1, "added")
          BY <2>2, <2>5
        <4> QED BY <1>1, <4>1, IsDoes, Zenon
      <3>2. ChanInv' /\ MapInv' /\ chanMap' \in SUBSET (Int \X Nat)
        BY <1>1, <2>1, <2>2, <3>1, SharedUpdate
      <3>3. KernelInv' /\ interest' \in SUBSET Interests
        BY <2>2, <2>5, <3>1, KernelUpdate DEF Po!Modified
      <3>4. PollTypes'
        BY <1>1, <3>1, <3>2, <3>3 DEF PollTypes, Becomes
      <3> QED BY <2>3, <3>2, <3>3, <3>4 DEF PollInv
    <2> QED BY <2>4, <2>5
  <1> QED BY <1>6, <1>7

\* EPollPoller::removeChannel.
LEMMA EPollRemoveKeeps ==
  ASSUME PollInv, pollFailed = {}, pollKind = "epoll", NEW c \in DOMAIN chans,
         chans[c].life = "added", chans[c].events = {}, Po!EPollRemove(c),
         UNCHANGED <<pollfds, pollKind, blank>>
  PROVE  PollInv'
  <1> USE DEF Po!kNew, Po!kAdded, Po!kDeleted
  <1> DEFINE r == [fd |-> chans[c].fd, events |-> {}, index |-> -1, life |-> "removed"]
  <1>1. PollTypes /\ ChanInv /\ MapInv /\ KernelInv
    BY DEF PollInv
  <1>2. /\ Po!Is(c, {}, -1, "removed") /\ chanMap' = chanMap \ {<<chans[c].fd, c>>}
        /\ interest' = IF chans[c].index = 1 THEN Po!Without(chans[c].fd) ELSE interest
    BY DEF Po!EPollRemove
  <1>3. pollFailed' = {}
    <2>1. Po!Knows(c)
      BY <1>1 DEF Po!Knows, MapInv, Added
    <2>2. chans[c].index = 1 => Po!Listed(chans[c].fd)
      BY <1>1 DEF KernelInv, Added, Po!Listed, Po!Entry
    <2> QED BY <2>1, <2>2 DEF Po!EPollRemove, Po!Failing
  <1>4. Becomes(c, r)
    <2>1. -1 \in Int /\ {} \in Events /\ "removed" \in {"added", "removed"} /\ Po!Is(c, {}, -1, "removed")
      BY <1>2 DEF Events
    <2> QED BY <1>1, <2>1, IsDoes, Zenon
  <1>5. ChanInv' /\ MapInv' /\ chanMap' \in SUBSET (Int \X Nat)
    <2>1. /\ \A d \in DOMAIN chans : chans'[d].fd = chans[d].fd /\ chans'[d].events = chans[d].events
          /\ \A d \in DOMAIN chans : d # c => chans'[d].life = chans[d].life
          /\ \A d \in DOMAIN chans : chans[d].life = "new" => chans'[d].index = chans[d].index
          /\ chans'[c].life = "removed" /\ DOMAIN chans' = DOMAIN chans
      <3>1. chans'[c].fd = chans[c].fd /\ chans'[c].events = {} /\ chans'[c].life = "removed"
        BY <1>4 DEF Becomes
      <3>2. DOMAIN chans' = DOMAIN chans /\ \A d \in DOMAIN chans : d # c => chans'[d] = chans[d]
        BY <1>4 DEF Becomes
      <3> QED BY <3>1, <3>2
    <2> QED BY <1>1, <1>2, <2>1, SharedRemove
  <1>6. interest' = Po!Without(chans[c].fd)
    <2>1. ASSUME chans[c].index # 1, NEW e \in interest PROVE e.fd # chans[c].fd
      BY <1>1, <2>1 DEF KernelInv, ChanInv, Added, IsOpen
    <2> QED BY <1>2, <2>1 DEF Po!Without
  <1>7. KernelInv' /\ interest' \in SUBSET Interests
    <2>1. r \in ChanRecs /\ IsOpen(c)
      <3>1. chans[c] \in ChanRecs
        BY <1>1 DEF PollTypes
      <3> QED BY <3>1 DEF ChanRecs, IsOpen, Events
    <2> QED BY <1>4, <1>6, <2>1, KernelDrops
  <1>8. PollTypes'
    BY <1>1, <1>4, <1>5, <1>7 DEF PollTypes, Becomes
  <1> QED BY <1>3, <1>5, <1>7, <1>8 DEF PollInv

-----------------------------------------------------------------------------
(* PollPoller *)

\* An entry and its channel stay as they are.
LEMMA FitsStays ==
  ASSUME NEW d, NEW k, Fits(d, k), d \in DOMAIN chans', chans'[d] = chans[d], pollfds'[k] = pollfds[k],
         blank => blank'
  PROVE  Fits(d, k)'
  BY DEF Fits, Added, Po!Ignored

\* PollPoller::updateChannel.
LEMMA PollUpdateKeeps ==
  ASSUME PollInv, pollFailed = {}, pollKind = "poll", NEW c \in DOMAIN chans, NEW ev \in Events,
         chans[c].life \in {"new", "added"}, Po!PollUpdate(c, ev), blank' \in BOOLEAN,
         blank' = (blank \/ (chans[c].life = "new" /\ ev = {})),
         UNCHANGED <<interest, pollKind>>
  PROVE  PollInv'
  <1>1. PollTypes /\ ChanInv /\ MapInv /\ ArrayInv
    BY DEF PollInv
  <1>2. /\ Len(pollfds) \in Nat /\ chans[c].fd \in Int /\ chans[c].index \in Int
        /\ DOMAIN pollfds = 1 .. Len(pollfds)
    <2>1. chans[c] \in ChanRecs
      BY <1>1 DEF PollTypes
    <2> QED BY <1>1, <2>1 DEF ChanRecs, PollTypes
  <1>3. chans[c].index < 0 <=> chans[c].life = "new"
    <2>1. chans[c].life = "new" => chans[c].index = -1
      BY <1>1 DEF ChanInv
    <2>2. chans[c].life = "added" => chans[c].index + 1 \in 1 .. Len(pollfds)
      BY <1>1 DEF ArrayInv, Added
    <2> QED BY <1>2, <2>1, <2>2
  <1>4. \A d \in DOMAIN chans : chans[d].index \in Int
    <2>1. \A d \in DOMAIN chans : chans[d] \in ChanRecs
      BY <1>1 DEF PollTypes
    <2> QED BY <2>1 DEF ChanRecs
  <1>5. CASE chans[c].index < 0
    <2>1. /\ Po!Is(c, ev, Len(pollfds), "added") /\ chanMap' = chanMap \cup {<<chans[c].fd, c>>}
          /\ pollfds' = Append(pollfds, [fd |-> chans[c].fd, events |-> ev])
      BY <1>5 DEF Po!PollUpdate
    <2>2. pollFailed' = {}
      <3>1. ~ Po!Registered(chans[c].fd)
        BY <1>1, <1>3, <1>5, SMTT(30) DEF Po!Registered, MapInv, ChanInv, Added, IsOpen
      <3> QED BY <1>5, <3>1 DEF Po!PollUpdate, Po!Failing
    <2>3. PICK n \in Nat : n = Len(pollfds)
      BY <1>2
    <2>4. Becomes(c, [fd |-> chans[c].fd, events |-> ev, index |-> n, life |-> "added"])
      <3>1. n \in Int /\ "added" \in {"added", "removed"} /\ Po!Is(c, ev, n, "added")
        BY <2>1, <2>3
      <3> QED BY <1>1, <3>1, IsDoes, Zenon
    <2>5. ChanInv' /\ MapInv' /\ chanMap' \in SUBSET (Int \X Nat)
      BY <1>1, <2>1, <2>4, SharedUpdate
    <2>6. [fd |-> chans[c].fd, events |-> ev] \in PollRecs
      BY <1>2 DEF PollRecs
    <2>7. /\ pollfds' \in Seq(PollRecs) /\ Len(pollfds') = n + 1
          /\ \A k \in 1 .. n : pollfds'[k] = pollfds[k]
          /\ pollfds'[n + 1] = [fd |-> chans[c].fd, events |-> ev]
      BY <1>1, <2>1, <2>3, <2>6 DEF PollTypes
    <2>8. /\ chans'[c].fd = chans[c].fd /\ chans'[c].events = ev /\ chans'[c].index = n
          /\ Added(c)' /\ ~ Added(c)
          /\ \A d \in DOMAIN chans : d # c => chans'[d] = chans[d] /\ (Added(d)' <=> Added(d))
          /\ DOMAIN chans' = DOMAIN chans
      BY <1>3, <1>5, <2>4 DEF Becomes, Added
    <2>9. ArrayInv'
      <3>1. \A d \in DOMAIN chans : Added(d)' => chans'[d].index + 1 \in 1 .. Len(pollfds')
        BY <1>1, <1>4, <2>3, <2>7, <2>8 DEF ArrayInv
      <3>2. \A d \in DOMAIN chans : Added(d) => chans[d].index # n
        BY <1>1, <1>4, <2>3 DEF ArrayInv
      <3>3. \A d, e \in DOMAIN chans : Added(d)' /\ Added(e)' /\ chans'[d].index = chans'[e].index => d = e
        BY <1>1, <2>8, <3>2 DEF ArrayInv
      <3>4. ASSUME NEW k \in 1 .. Len(pollfds') PROVE \E d \in DOMAIN chans' : Fits(d, k)'
        <4>1. CASE k = n + 1
          <5>1. chans'[c].events = {} => blank'
            BY <1>3, <1>5, <2>8
          <5> QED BY <2>7, <2>8, <4>1, <5>1 DEF Fits
        <4>2. CASE k # n + 1
          <5>1. k \in 1 .. Len(pollfds) /\ pollfds'[k] = pollfds[k]
            BY <2>3, <2>7, <4>2
          <5>2. PICK d \in DOMAIN chans : Fits(d, k)
            BY <1>1, <5>1 DEF ArrayInv
          <5>3. d # c
            BY <2>8, <5>2 DEF Fits
          <5> QED BY <2>8, <5>1, <5>2, <5>3, FitsStays
        <4> QED BY <4>1, <4>2
      <3> QED BY <2>8, <3>1, <3>3, <3>4 DEF ArrayInv
    <2>10. PollTypes'
      BY <1>1, <2>4, <2>5, <2>7 DEF PollTypes, Becomes
    <2> QED BY <2>2, <2>5, <2>9, <2>10 DEF PollInv
  <1>6. CASE ~ (chans[c].index < 0)
    <2>1. PICK i \in Int : i = chans[c].index
      BY <1>2
    <2>2. /\ Po!Is(c, ev, i, "added") /\ chanMap' = chanMap
          /\ pollfds' = [pollfds EXCEPT ![i + 1] = [fd |-> Po!PollFd(chans[c].fd, ev), events |-> ev]]
      BY <1>6, <2>1 DEF Po!PollUpdate
    <2>3. chans[c].life = "added" /\ i + 1 \in 1 .. Len(pollfds) /\ Added(c)
      BY <1>1, <1>3, <1>6, <2>1 DEF ArrayInv, Added
    <2>4. Fits(c, i + 1)
      <3>1. PICK d \in DOMAIN chans : Fits(d, i + 1)
        BY <1>1, <2>3 DEF ArrayInv
      <3>2. d = c
        BY <1>1, <1>4, <2>1, <2>3, <3>1 DEF ArrayInv, Fits
      <3> QED BY <3>1, <3>2
    <2>5. pollFailed' = {}
      <3>1. Po!Knows(c)
        BY <1>1, <2>3 DEF Po!Knows, MapInv
      <3>2. Po!IsPlace(i) /\ Po!At(i).fd \in {chans[c].fd, Po!Ignored(chans[c].fd)}
        BY <2>3, <2>4 DEF Po!IsPlace, Po!At, Fits
      <3> QED BY <1>6, <2>1, <3>1, <3>2 DEF Po!PollUpdate, Po!Failing
    <2>6. Becomes(c, [fd |-> chans[c].fd, events |-> ev, index |-> i, life |-> "added"])
      <3>1. i \in Int /\ "added" \in {"added", "removed"} /\ Po!Is(c, ev, i, "added")
        BY <2>1, <2>2
      <3> QED BY <1>1, <3>1, IsDoes, Zenon
    <2>7. ChanInv' /\ MapInv' /\ chanMap' \in SUBSET (Int \X Nat)
      BY <1>1, <2>2, <2>3, <2>6, SharedUpdate
    <2>8. [fd |-> Po!PollFd(chans[c].fd, ev), events |-> ev] \in PollRecs
      BY <1>2 DEF PollRecs, Po!PollFd, Po!Ignored
    <2>9. /\ pollfds' \in Seq(PollRecs) /\ Len(pollfds') = Len(pollfds)
          /\ \A k \in 1 .. Len(pollfds) : k # i + 1 => pollfds'[k] = pollfds[k]
          /\ pollfds'[i + 1] = [fd |-> Po!PollFd(chans[c].fd, ev), events |-> ev]
      BY <1>1, <1>2, <2>2, <2>3, <2>8, OneChanged DEF PollTypes
    <2>10. /\ chans'[c].fd = chans[c].fd /\ chans'[c].events = ev /\ chans'[c].index = i
           /\ Added(c)'
           /\ \A d \in DOMAIN chans : d # c => chans'[d] = chans[d]
           /\ \A d \in DOMAIN chans : chans'[d].index = chans[d].index /\ (Added(d)' <=> Added(d))
           /\ DOMAIN chans' = DOMAIN chans
      BY <2>1, <2>3, <2>6 DEF Becomes, Added
    <2>11. ArrayInv'
      <3>1. ASSUME NEW k \in 1 .. Len(pollfds) PROVE \E d \in DOMAIN chans' : Fits(d, k)'
        <4>1. CASE k = i + 1
          <5>1. Fits(c, k)'
            BY <2>9, <2>10, <4>1 DEF Fits, Po!PollFd
          <5> QED BY <2>10, <5>1
        <4>2. CASE k # i + 1
          <5>1. PICK d \in DOMAIN chans : Fits(d, k)
            BY <1>1, <3>1 DEF ArrayInv
          <5>2. d # c
            BY <2>1, <4>2, <5>1 DEF Fits
          <5> QED BY <2>9, <2>10, <4>2, <5>1, <5>2, FitsStays
        <4> QED BY <4>1, <4>2
      <3> QED BY <1>1, <2>9, <2>10, <3>1 DEF ArrayInv
    <2>12. PollTypes'
      BY <1>1, <2>6, <2>7, <2>9 DEF PollTypes, Becomes
    <2> QED BY <2>5, <2>7, <2>11, <2>12 DEF PollInv
  <1> QED BY <1>5, <1>6

\* pollfds_ without its last place.
Others(q) == SubSeq(q, 1, Len(q) - 1)

LEMMA LastPlace ==
  ASSUME NEW q \in Seq(PollRecs), Len(q) > 0
  PROVE  /\ q[Len(q)] \in PollRecs
         /\ Others(q) \in Seq(PollRecs) /\ Len(Others(q)) = Len(q) - 1
         /\ \A k \in 1 .. Len(q) - 1 : Others(q)[k] = q[k]
  <1> HIDE DEF PollRecs
  <1>1. Len(q) \in Nat /\ Len(q) \in 1 .. Len(q)
    OBVIOUS
  <1>2. q[Len(q)] \in PollRecs
    BY <1>1
  <1>3. /\ SubSeq(q, 1, Len(q) - 1) \in Seq(PollRecs) /\ Len(SubSeq(q, 1, Len(q) - 1)) = Len(q) - 1
        /\ \A k \in 1 .. Len(q) - 1 : SubSeq(q, 1, Len(q) - 1)[k] = q[k]
    <2>1. 1 \in 1 .. Len(q) + 1 /\ Len(q) - 1 \in 1 - 1 .. Len(q) /\ (Len(q) - 1) - 1 + 1 = Len(q) - 1
      BY <1>1
    <2> QED BY <1>1, <2>1, SubSeqProperties
  <1> QED BY <1>1, <1>2, <1>3 DEF Others

\* A channel whose life is over with the poller.
LEMMA LifeEnds ==
  ASSUME NEW x \in ChanRecs
  PROVE  /\ [x EXCEPT !.life = "removed"] \in ChanRecs
         /\ [x EXCEPT !.life = "removed"].fd = x.fd
         /\ [x EXCEPT !.life = "removed"].events = x.events
         /\ [x EXCEPT !.life = "removed"].index = x.index
         /\ [x EXCEPT !.life = "removed"].life = "removed"
  BY DEF ChanRecs

\* A channel that gets another place.
LEMMA PlaceMoves ==
  ASSUME NEW x \in ChanRecs, NEW i \in Int
  PROVE  /\ [x EXCEPT !.index = i] \in ChanRecs
         /\ [x EXCEPT !.index = i].fd = x.fd
         /\ [x EXCEPT !.index = i].events = x.events
         /\ [x EXCEPT !.index = i].index = i
         /\ [x EXCEPT !.index = i].life = x.life
  BY DEF ChanRecs

\* The channel of the last place is the one removeChannel finds in channels_.
LEMMA LastFound ==
  ASSUME PollInv, pollFailed = {}, pollKind = "poll", NEW m \in DOMAIN chans, Fits(m, Len(pollfds)),
         NEW lastFd, lastFd = IF pollfds[Len(pollfds)].fd < 0 THEN Po!Ignored(pollfds[Len(pollfds)].fd)
                              ELSE pollfds[Len(pollfds)].fd
  PROVE  \A x \in Po!Channels : <<lastFd, x>> \in chanMap <=> x = m
  <1>1. Added(m) /\ chans[m].fd \in Nat /\ m \in Po!Channels
    <2>1. Added(m) /\ chans[m].fd \in Fds
      BY DEF Fits, PollInv, ChanInv, IsOpen, Added
    <2>2. DOMAIN chans = Po!Channels
      BY DEF Po!Channels, PollInv, PollTypes
    <2> QED BY <2>1, <2>2, Descriptors
  <1>2. lastFd = chans[m].fd
    BY <1>1 DEF Fits, Po!Ignored
  <1>3. <<lastFd, m>> \in chanMap
    BY <1>1, <1>2 DEF PollInv, MapInv
  <1>4. \A x \in Po!Channels : <<lastFd, x>> \in chanMap => x = m
    BY <1>1, <1>2 DEF PollInv, MapInv, ChanInv, Added, IsOpen
  <1> QED BY <1>1, <1>3, <1>4

\* PollPoller::removeChannel.
LEMMA PollRemoveKeeps ==
  ASSUME PollInv, pollFailed = {}, pollKind = "poll", NEW c \in DOMAIN chans,
         chans[c].life = "added", chans[c].events = {}, Po!PollRemove(c),
         UNCHANGED <<interest, pollKind, blank>>
  PROVE  PollInv'
  <1>1. PollTypes /\ ChanInv /\ MapInv /\ ArrayInv /\ Added(c)
    BY DEF PollInv, Added
  <1>2. /\ DOMAIN pollfds = 1 .. Len(pollfds)
        /\ \A d \in DOMAIN chans : chans[d] \in ChanRecs /\ chans[d].index \in Int
    <2>1. \A d \in DOMAIN chans : chans[d] \in ChanRecs
      BY <1>1 DEF PollTypes
    <2> QED BY <1>1, <2>1 DEF ChanRecs, PollTypes
  <1>3. PICK i \in Int : i = chans[c].index
    BY <1>2
  <1>4. PICK n \in Nat : n = Len(pollfds)
    BY <1>1 DEF PollTypes
  <1>5. i + 1 \in 1 .. n /\ n > 0
    BY <1>1, <1>3, <1>4 DEF ArrayInv
  <1>6. PICK m \in DOMAIN chans : Fits(m, n)
    BY <1>1, <1>4, <1>5 DEF ArrayInv
  <1>7. Fits(c, i + 1)
    <2>1. PICK d \in DOMAIN chans : Fits(d, i + 1)
      BY <1>1, <1>4, <1>5 DEF ArrayInv
    <2>2. d = c
      BY <1>1, <1>2, <1>3, <2>1 DEF ArrayInv, Fits
    <2> QED BY <2>1, <2>2
  <1>8. chans[m].index = n - 1 /\ Added(m)
    BY <1>2, <1>6 DEF Fits
  <1>9. i = n - 1 <=> m = c
    BY <1>1, <1>3, <1>8 DEF ArrayInv
  <1>10. /\ pollfds[n] \in PollRecs
         /\ Others(pollfds) \in Seq(PollRecs) /\ Len(Others(pollfds)) = n - 1
         /\ \A k \in 1 .. n - 1 : Others(pollfds)[k] = pollfds[k]
    BY <1>1, <1>4, <1>5, LastPlace DEF PollTypes
  <1>11. chanMap' = chanMap \ {<<chans[c].fd, c>>}
    BY DEF Po!PollRemove
  <1>12. pollFailed' # {} => blank
    <2>1. Po!Knows(c)
      BY <1>1 DEF Po!Knows, MapInv, Added
    <2>2. ~ blank => Po!IsPlace(i) /\ Po!At(i) = [fd |-> Po!Ignored(chans[c].fd), events |-> {}]
      <3>1. pollfds[i + 1] \in PollRecs
        BY <1>1, <1>4, <1>5 DEF PollTypes
      <3>2. ~ blank => pollfds[i + 1].fd = Po!Ignored(chans[c].fd) /\ pollfds[i + 1].events = {}
        BY <1>7 DEF Fits
      <3>3. pollfds[i + 1] = [fd |-> pollfds[i + 1].fd, events |-> pollfds[i + 1].events]
        BY <3>1 DEF PollRecs
      <3>4. Po!IsPlace(i) /\ Po!At(i) = pollfds[i + 1]
        BY <1>4, <1>5 DEF Po!IsPlace, Po!At
      <3> QED BY <3>2, <3>3, <3>4
    <2> QED BY <1>3, <2>1, <2>2 DEF Po!PollRemove, Po!Failing
  <1>13. /\ chans' \in Seq(ChanRecs) /\ DOMAIN chans' = DOMAIN chans
         /\ chans'[c].fd = chans[c].fd /\ chans'[c].events = chans[c].events /\ chans'[c].life = "removed"
         /\ \A d \in DOMAIN chans : d # c /\ d # m => chans'[d] = chans[d]
         /\ m # c => /\ chans'[m].fd = chans[m].fd /\ chans'[m].events = chans[m].events
                     /\ chans'[m].life = chans[m].life /\ chans'[m].index = i
         /\ pollfds' \in Seq(PollRecs) /\ Len(pollfds') = n - 1
         /\ \A k \in 1 .. n - 1 : k # i + 1 => pollfds'[k] = pollfds[k]
         /\ i # n - 1 => pollfds'[i + 1] = pollfds[n]
    <2>1. chans \in Seq(ChanRecs)
      BY <1>1 DEF PollTypes
    <2>2. CASE i = n - 1
      <3>1. chans' = [chans EXCEPT ![c] = [chans[c] EXCEPT !.life = "removed"]] /\ pollfds' = Others(pollfds)
        BY <1>3, <1>4, <2>2 DEF Po!PollRemove, Others
      <3>2. PICK r \in ChanRecs : r = [chans[c] EXCEPT !.life = "removed"]
        BY <1>2, LifeEnds
      <3>3. r.fd = chans[c].fd /\ r.events = chans[c].events /\ r.life = "removed"
        BY <1>2, <3>2, LifeEnds
      <3>4. /\ chans' \in Seq(ChanRecs) /\ DOMAIN chans' = DOMAIN chans /\ chans'[c] = r
            /\ \A d \in DOMAIN chans : d # c => chans'[d] = chans[d]
        BY <2>1, <3>1, <3>2, OneChanged
      <3> QED BY <1>9, <1>10, <2>2, <3>1, <3>3, <3>4
    <2>3. CASE i # n - 1
      <3>1. m # c
        BY <1>9, <2>3
      <3>2. (CHOOSE x \in Po!Channels :
               <<IF pollfds[n].fd < 0 THEN Po!Ignored(pollfds[n].fd) ELSE pollfds[n].fd, x>> \in chanMap) = m
        <4>1. PICK f : f = IF pollfds[n].fd < 0 THEN Po!Ignored(pollfds[n].fd) ELSE pollfds[n].fd
          OBVIOUS
        <4>2. (CHOOSE x \in Po!Channels : <<f, x>> \in chanMap) = m
          <5>1. /\ Fits(m, Len(pollfds))
                /\ f = IF pollfds[Len(pollfds)].fd < 0 THEN Po!Ignored(pollfds[Len(pollfds)].fd)
                       ELSE pollfds[Len(pollfds)].fd
            BY <1>4, <1>6, <4>1
          <5>2. m \in Po!Channels
            BY <1>1 DEF Po!Channels, PollTypes
          <5>3. \A x \in Po!Channels : <<f, x>> \in chanMap <=> x = m
            BY <5>1, LastFound
          <5> QED BY <5>2, <5>3
        <4> QED BY <4>1, <4>2
      <3>3. /\ chans' = Po!Moved(c, m, i)
            /\ pollfds' = [Others(pollfds) EXCEPT ![i + 1] = pollfds[n]]
        BY <1>3, <1>4, <2>3, <3>2 DEF Po!PollRemove, Others
      <3>4. PICK r \in ChanRecs : r = [chans[c] EXCEPT !.life = "removed"]
        BY <1>2, LifeEnds
      <3>5. r.fd = chans[c].fd /\ r.events = chans[c].events /\ r.life = "removed"
        BY <1>2, <3>4, LifeEnds
      <3>6. PICK s \in ChanRecs : s = [chans[m] EXCEPT !.index = i]
        BY <1>2, <1>3, PlaceMoves
      <3>7. s.fd = chans[m].fd /\ s.events = chans[m].events /\ s.life = chans[m].life /\ s.index = i
        BY <1>2, <1>3, <3>6, PlaceMoves
      <3>8. PICK q : q = [chans EXCEPT ![c] = r]
        OBVIOUS
      <3>9. /\ q \in Seq(ChanRecs) /\ DOMAIN q = DOMAIN chans /\ q[c] = r
            /\ \A d \in DOMAIN chans : d # c => q[d] = chans[d]
        BY <2>1, <3>4, <3>8, OneChanged
      <3>10. chans' = [q EXCEPT ![m] = s]
        BY <3>1, <3>3, <3>4, <3>6, <3>8, <3>9 DEF Po!Moved
      <3>11. /\ chans' \in Seq(ChanRecs) /\ DOMAIN chans' = DOMAIN q /\ chans'[m] = s
             /\ \A d \in DOMAIN q : d # m => chans'[d] = q[d]
        BY <3>6, <3>9, <3>10, OneChanged
      <3>12. /\ pollfds' \in Seq(PollRecs) /\ Len(pollfds') = n - 1
             /\ \A k \in 1 .. n - 1 : k # i + 1 => pollfds'[k] = pollfds[k]
             /\ pollfds'[i + 1] = pollfds[n]
        <4>1. i + 1 \in 1 .. n - 1 /\ DOMAIN Others(pollfds) = 1 .. n - 1
          BY <1>3, <1>5, <1>10, <2>3
        <4> QED BY <1>10, <3>3, <4>1, OneChanged
      <3> QED BY <3>1, <3>5, <3>7, <3>9, <3>11, <3>12
    <2> QED BY <2>2, <2>3
  <1>14. ChanInv' /\ MapInv' /\ chanMap' \in SUBSET (Int \X Nat)
    BY <1>1, <1>8, <1>11, <1>13, SharedRemove, ZenonT(40) DEF Added
  <1>15. PollTypes'
    BY <1>1, <1>13, <1>14 DEF PollTypes
  <1>16. /\ ~ Added(c)'
         /\ \A d \in DOMAIN chans : d # c => (Added(d)' <=> Added(d))
    BY <1>8, <1>13 DEF Added
  <1>17. ArrayInv'
    <2>1. \A d \in DOMAIN chans : Added(d) /\ d # m => chans[d].index + 1 \in 1 .. n - 1
      BY <1>1, <1>2, <1>4, <1>8 DEF ArrayInv
    <2>2. \A d \in DOMAIN chans : Added(d)' => chans'[d].index + 1 \in 1 .. Len(pollfds')
      BY <1>3, <1>5, <1>9, <1>13, <1>16, <2>1, SMTT(30)
    <2>3. \A d, e \in DOMAIN chans : Added(d)' /\ Added(e)' /\ chans'[d].index = chans'[e].index => d = e
      <3>1. \A d, e \in DOMAIN chans : Added(d) /\ Added(e) /\ chans[d].index = chans[e].index => d = e
        BY <1>1 DEF ArrayInv
      <3>2. \A d \in DOMAIN chans : Added(d)' => d # c /\ Added(d)
        BY <1>16
      <3>3. \A d \in DOMAIN chans : Added(d)' /\ d # m => chans'[d].index = chans[d].index /\ chans[d].index # i
        BY <1>1, <1>3, <1>13, <3>1, <3>2
      <3>4. Added(m)' => chans'[m].index = i
        BY <1>13, <3>2
      <3> QED BY <3>1, <3>2, <3>3, <3>4
    <2>4. ASSUME NEW k \in 1 .. n - 1 PROVE \E d \in DOMAIN chans' : Fits(d, k)'
      <3>1. CASE k = i + 1
        <4>1. m # c /\ i # n - 1 /\ pollfds'[k] = pollfds[n]
          BY <1>9, <1>13, <2>4, <3>1
        <4>2. Fits(m, k)'
          BY <1>6, <1>8, <1>13, <1>16, <3>1, <4>1 DEF Fits, Po!Ignored
        <4> QED BY <1>13, <4>2
      <3>2. CASE k # i + 1
        <4>1. PICK d \in DOMAIN chans : Fits(d, k)
          BY <1>1, <1>4, <2>4 DEF ArrayInv
        <4>2. d # c /\ d # m
          BY <1>3, <1>6, <2>4, <3>2, <4>1 DEF Fits
        <4> QED BY <1>13, <2>4, <3>2, <4>1, <4>2, FitsStays
      <3> QED BY <3>1, <3>2
    <2> QED BY <1>13, <2>2, <2>3, <2>4 DEF ArrayInv
  <1> QED BY <1>12, <1>14, <1>15, <1>17 DEF PollInv

-----------------------------------------------------------------------------
(* Pollers: the theorem *)

\* Every step of the pollers preserves the invariant.
LEMMA PollStep ==
  ASSUME PollInv, [Po!Next]_pollerVars
  PROVE  PollInv'
  <1>1. CASE UNCHANGED pollerVars
    <2>1. UNCHANGED <<pollKind, chans, chanMap, pollfds, interest, blank, pollFailed>>
      BY <1>1 DEF pollerVars
    <2>2. PollTypes' <=> PollTypes
      BY <2>1 DEF PollTypes
    <2>3. (ChanInv' <=> ChanInv) /\ (MapInv' <=> MapInv)
      BY <2>1 DEF ChanInv, MapInv, Added, IsOpen
    <2>4. KernelInv' <=> KernelInv
      BY <2>1 DEF KernelInv, Added, Po!Entry
    <2>5. ArrayInv' <=> ArrayInv
      BY <2>1 DEF ArrayInv, Fits, Added
    <2> QED BY <2>1, <2>2, <2>3, <2>4, <2>5 DEF PollInv
  <1>2. CASE Po!Next
    <2>1. pollFailed = {} /\ Po!Channels = DOMAIN chans
      BY <1>2 DEF Po!Next, Po!Channels, PollInv, PollTypes
    <2>2. CASE \E fd \in Fds : Po!NewChannel(fd)
      BY <2>1, <2>2, NewKeeps
    <2>3. CASE \E c \in DOMAIN chans : Po!Close(c)
      BY <2>1, <2>3, CloseKeeps
    <2>4. CASE \E c \in DOMAIN chans : Po!RemoveChannel(c)
      <3>1. PICK c \in DOMAIN chans : Po!RemoveChannel(c)
        BY <2>4
      <3> QED BY <2>1, <3>1, EPollRemoveKeeps, PollRemoveKeeps DEF Po!RemoveChannel
    <2>5. CASE \E c \in DOMAIN chans : \E ev \in SUBSET {"r", "w"} : Po!Update(c, ev)
      <3>1. PICK c \in DOMAIN chans, ev \in Events : Po!Update(c, ev)
        BY <2>5 DEF Events
      <3>2. /\ chans[c].life \in {"new", "added"} /\ UNCHANGED pollKind
            /\ blank' = (blank \/ (chans[c].life = "new" /\ ev = {}))
            /\ \/ pollKind = "epoll" /\ Po!EPollUpdate(c, ev) /\ UNCHANGED pollfds
               \/ pollKind = "poll" /\ Po!PollUpdate(c, ev) /\ UNCHANGED interest
        BY <3>1 DEF Po!Update
      <3>3. blank' \in BOOLEAN
        BY <3>2
      <3> QED BY <2>1, <3>2, <3>3, EPollUpdateKeeps, PollUpdateKeeps
    <2> QED BY <1>2, <2>1, <2>2, <2>3, <2>4, <2>5 DEF Po!Next
  <1> QED BY <1>1, <1>2

\* The invariant holds at the start.
LEMMA PollInit == Po!Init => PollInv
  <1> SUFFICES ASSUME Po!Init PROVE PollInv
    OBVIOUS
  <1>1. PollTypes /\ DOMAIN chans = {} /\ 1 .. Len(pollfds) = {} /\ chanMap = {} /\ interest = {}
    <2>1. /\ chans = <<>> /\ chanMap = {} /\ pollfds = <<>> /\ interest = {}
          /\ pollKind \in {"epoll", "poll"} /\ blank = FALSE
      BY DEF Po!Init
    <2>2. <<>> \in Seq(ChanRecs) /\ <<>> \in Seq(PollRecs) /\ DOMAIN <<>> = {} /\ 1 .. Len(<<>>) = {}
      OBVIOUS
    <2> QED BY <2>1, <2>2 DEF PollTypes
  <1>2. ChanInv /\ MapInv /\ KernelInv /\ ArrayInv
    BY <1>1 DEF ChanInv, MapInv, KernelInv, ArrayInv
  <1> QED BY <1>1, <1>2 DEF PollInv, Po!Init

\* What a poller watches, in the terms of the property.
LEMMA PollWatches ==
  ASSUME PollInv, pollFailed = {}, NEW w
  PROVE  w \in Po!Watched /\ w[3] # {}
           <=> w \in {<<chans[c].fd, c, chans[c].events>> : c \in {x \in Po!Channels : chans[x].life = "added"}}
                 /\ w[3] # {}
  <1>1. ChanInv /\ MapInv /\ PollTypes /\ Po!Channels = DOMAIN chans
    BY DEF PollInv, Po!Channels, PollTypes
  <1>2. CASE pollKind = "epoll"
    <2>1. KernelInv
      BY <1>2 DEF PollInv
    <2>2. ASSUME w \in Po!Watched, w[3] # {}
          PROVE  \E c \in DOMAIN chans : Added(c) /\ w = <<chans[c].fd, c, chans[c].events>>
      <3>1. PICK e \in interest : w = <<e.fd, e.ptr, e.events>>
        BY <1>2, <2>2 DEF Po!Watched
      <3> QED BY <2>1, <3>1 DEF KernelInv, Added
    <2>3. ASSUME NEW c \in DOMAIN chans, Added(c), w = <<chans[c].fd, c, chans[c].events>>, w[3] # {}
          PROVE  w \in Po!Watched
      <3>1. chans[c].events # {}
        BY <2>3
      <3>2. PICK e \in interest : e = Po!Entry(c, chans[c].events)
        BY <2>1, <2>3, <3>1 DEF KernelInv
      <3>3. e.fd = chans[c].fd /\ e.ptr = c /\ e.events = chans[c].events
        BY <3>2 DEF Po!Entry
      <3> QED BY <1>2, <2>3, <3>3 DEF Po!Watched
    <2> QED BY <1>1, <2>2, <2>3 DEF Added
  <1>3. CASE pollKind = "poll"
    <2>1. ArrayInv
      BY <1>3 DEF PollInv
    <2>2. ASSUME w \in Po!Watched, w[3] # {}
          PROVE  \E c \in DOMAIN chans : Added(c) /\ w = <<chans[c].fd, c, chans[c].events>>
      <3>1. PICK k \in 1 .. Len(pollfds), d \in DOMAIN chans :
              <<pollfds[k].fd, d>> \in chanMap /\ w = <<pollfds[k].fd, d, pollfds[k].events>>
        BY <1>1, <1>3, <2>2 DEF Po!Watched
      <3>2. PICK c \in DOMAIN chans : Fits(c, k)
        BY <2>1 DEF ArrayInv
      <3>3. pollfds[k].fd = chans[c].fd /\ pollfds[k].events = chans[c].events /\ Added(c)
        BY <2>2, <3>1, <3>2 DEF Fits
      <3>4. d = c
        BY <1>1, <3>1, <3>3 DEF MapInv, ChanInv, Added, IsOpen
      <3> QED BY <3>1, <3>3, <3>4
    <2>3. ASSUME NEW c \in DOMAIN chans, Added(c), w = <<chans[c].fd, c, chans[c].events>>, w[3] # {}
          PROVE  w \in Po!Watched
      <3>1. chans[c].events # {} /\ <<chans[c].fd, c>> \in chanMap
        BY <1>1, <2>3 DEF MapInv
      <3>2. PICK k \in 1 .. Len(pollfds) : k = chans[c].index + 1
        BY <2>1, <2>3 DEF ArrayInv
      <3>3. PICK d \in DOMAIN chans : Fits(d, k)
        BY <2>1 DEF ArrayInv
      <3>4. d = c
        <4>1. \A x \in DOMAIN chans : chans[x].index \in Int
          <5>1. \A x \in DOMAIN chans : chans[x] \in ChanRecs
            BY <1>1 DEF PollTypes
          <5> QED BY <5>1 DEF ChanRecs
        <4> QED BY <2>1, <2>3, <3>2, <3>3, <4>1 DEF Fits, ArrayInv
      <3>5. pollfds[k].fd = chans[c].fd /\ pollfds[k].events = chans[c].events
        BY <3>1, <3>3, <3>4 DEF Fits
      <3>6. PICK p \in (1 .. Len(pollfds)) \X Po!Channels : p = <<k, c>>
        BY <1>1
      <3>7. p[1] = k /\ p[2] = c /\ <<pollfds[p[1]].fd, p[2]>> \in chanMap
        BY <3>1, <3>5, <3>6
      <3>8. w = <<pollfds[p[1]].fd, p[2], pollfds[p[1]].events>>
        BY <2>3, <3>5, <3>7
      <3> QED BY <1>3, <3>7, <3>8 DEF Po!Watched
    <2> QED BY <1>1, <2>2, <2>3 DEF Added
  <1> QED BY <1>1, <1>2, <1>3 DEF PollTypes

\* EPollPoller and PollPoller, over any descriptors and any number of channels: what they watch is
\* what the channels ask for, through removals and reused descriptors, and no assertion or epoll_ctl
\* fails but the one of PollPoller on a channel that never asked for anything.
THEOREM PollersStand == Spec => []PollersSound
  <1> DEFINE Inv == part = "pollers" => PollInv
  <1>1. Init => Inv
    BY PollInit DEF Init
  <1>2. Inv /\ [Next]_allVars => Inv'
    <2> SUFFICES ASSUME Inv, [Next]_allVars, part' = "pollers" PROVE PollInv'
      OBVIOUS
    <2>1. part = "pollers" /\ [Po!Next]_pollerVars
      BY DEF Next, Steps, allVars
    <2> QED BY <2>1, PollStep
  <1>3. Inv => PollersSound
    <2> SUFFICES ASSUME PollInv PROVE Po!PollersSound
      BY DEF PollersSound
    <2>1. Po!PollCallsSucceed
      BY DEF PollInv, Po!PollCallsSucceed
    <2>2. Po!WatchedIsAsked
      BY PollWatches DEF Po!WatchedIsAsked
    <2> QED BY <2>1, <2>2 DEF Po!PollersSound
  <1> QED BY <1>1, <1>2, <1>3, PTL DEF Spec

-----------------------------------------------------------------------------
(* Timers: the state *)

TimerRecs == [seq : Nat, exp : Nat, every : Nat]
TimerIds == Addrs \X Nat
TimerOps == [op : {"add", "cancel"}, id : TimerIds]
Wheres == {"loop", "callback", "overtook"}

\* Type correctness.
TimerTypes ==
  /\ clock \in Nat \ {0}
  /\ heap \in [Addrs -> TimerRecs]
  /\ timers \in SUBSET (Nat \X Addrs)
  /\ actives \in SUBSET TimerIds
  /\ canceling \in SUBSET TimerIds
  /\ calling \in BOOLEAN
  /\ expired \in SUBSET (Nat \X Addrs)
  /\ ran \in SUBSET Addrs
  /\ readAt \in Nat /\ readAt <= clock
  /\ armed \in Nat
  /\ ops \in Seq(TimerOps)
  /\ created \in Nat
  /\ issued \in SUBSET TimerIds
  /\ cancelled \in SUBSET (Nat \X Wheres)

\* The functors of q add the timer x; the timers they are about; a timer is added once, and before
\* it is cancelled.
HasAdd(q, x) == \E i \in DOMAIN q : q[i].op = "add" /\ q[i].id = x
IdsOf(q) == {q[i].id : i \in DOMAIN q}
AddedFirst(q) ==
  \A i, j \in DOMAIN q :
    q[j].op = "add" /\ q[i].id = q[j].id => IF q[i].op = "add" THEN i = j ELSE j < i

\* Where the timer at address a is: in the two indices, among those handleRead has to run or has
\* run, or in another thread's addTimer.
Alive(a) == heap[a].seq > 0
InT(a) == <<heap[a].exp, a>> \in timers
InE(a) == <<heap[a].exp, a>> \in expired
Pending(a) == HasAdd(ops, Ti!Id(a))

\* A TimerId names one timer for ever.
HeapInv ==
  /\ \A a \in Addrs : heap[a].seq = 0 => heap[a] = Ti!Free
  /\ \A a \in Addrs : Alive(a) => Ti!Id(a) \in issued
  /\ \A x \in issued : x[2] \in 1 .. created
  /\ \A x, y \in issued : x[2] = y[2] => x = y

\* The entries of timers_, activeTimers_ and of the expired are those of living timers.
IndexInv ==
  /\ \A e \in timers \cup expired : Alive(e[2]) /\ e[1] = heap[e[2]].exp
  /\ \A a \in Addrs : InT(a) <=> Ti!Id(a) \in actives
  /\ \A x \in actives : x[2] = heap[x[1]].seq

\* A living timer is in one place.
PlaceInv ==
  /\ \A a \in Addrs : Alive(a) => InT(a) \/ InE(a) \/ a \in ran \/ Pending(a)
  /\ \A a \in Addrs :
       /\ ~ (InT(a) /\ InE(a)) /\ ~ (InT(a) /\ a \in ran) /\ ~ (InE(a) /\ a \in ran)
       /\ Pending(a) => ~ InT(a) /\ ~ InE(a) /\ a \notin ran
  /\ \A a \in ran : Alive(a)
  /\ ~ calling => expired = {} /\ ran = {}
  /\ \A e \in expired : e[1] <= readAt

\* What other threads have asked for is in order, and about timers as they are.
OpsInv ==
  /\ AddedFirst(ops)
  /\ IdsOf(ops) \subseteq issued
  /\ \A x \in issued : HasAdd(ops, x) => x[2] = heap[x[1]].seq

\* A timer that was cancelled in the loop is gone, one that a callback cancelled is gone or will not
\* be inserted again.
CancelInv ==
  /\ \A x \in cancelled : x[1] \in 1 .. created
  /\ \A x \in cancelled : x[2] = "loop" => \A a \in Addrs : heap[a].seq # x[1]
  /\ \A x \in cancelled : x[2] = "callback" =>
       \A a \in Addrs : heap[a].seq = x[1] => (InE(a) \/ a \in ran) /\ Ti!Id(a) \in canceling
  /\ \A f \in fired : "loop" \notin f[2]
  /\ \A s \in gone : \E x \in cancelled : x[1] = s
  /\ early = {}

\* The timerfd is armed early enough for every timer.
ArmedInv == ~ calling => \A e \in timers : armed # 0 /\ (armed <= e[1] \/ armed <= clock)

TimerInv ==
  /\ TimerTypes
  /\ HeapInv
  /\ IndexInv
  /\ PlaceInv
  /\ OpsInv
  /\ CancelInv
  /\ ArmedInv

-----------------------------------------------------------------------------
(* Timers: the first entry, and the functors *)

\* A set of numbers has a least one.
LEMMA LeastNumber ==
  ASSUME NEW S, S \subseteq Nat, S # {}
  PROVE  \E x \in S : \A y \in S : x <= y
  <1> DEFINE R == {p \in Nat \X Nat : p[1] < p[2]}
  <1>1. IsWellFoundedOn(R, Nat)
    BY NatLessThanWellFounded, Zenon DEF OpToRel
  <1>2. PICK x \in S : \A y \in S : ~ (<<y, x>> \in R)
    BY <1>1, WFMin, Zenon
  <1>3. ASSUME NEW y \in S PROVE x <= y
    <2>1. x \in Nat /\ y \in Nat
      OBVIOUS
    <2>2. y < x => <<y, x>> \in R
      BY <2>1
    <2> QED BY <1>2, <2>1, <2>2
  <1> QED BY <1>3

\* First is the entry that expires first.
LEMMA FirstLeast ==
  ASSUME NEW T, T \subseteq Nat \X Addrs, T # {}
  PROVE  Ti!First(T) \in T /\ \A f \in T : Ti!First(T)[1] <= f[1]
  <1> DEFINE X == {e[1] : e \in T}
  <1>1. X \subseteq Nat /\ X # {}
    OBVIOUS
  <1>2. PICK x \in X : \A y \in X : x <= y
    BY <1>1, LeastNumber
  <1> DEFINE B == {e[2] : e \in {f \in T : f[1] = x}}
  <1>3. B \subseteq Nat /\ B # {}
    BY TimerSettings
  <1>4. PICK b \in B : \A y \in B : b <= y
    BY <1>3, LeastNumber
  <1>5. PICK e \in T : e[1] = x /\ e[2] = b
    OBVIOUS
  <1>6. ASSUME NEW f \in T PROVE e = f \/ Ti!Earlier(e, f)
    <2>1. x <= f[1] /\ x \in Nat /\ f[1] \in Nat /\ b \in Nat /\ f[2] \in Nat
      BY <1>1, <1>2, <1>3, TimerSettings
    <2>2. f[1] = x => b <= f[2]
      BY <1>4
    <2>3. e[1] = f[1] /\ e[2] = f[2] => e = f
      BY <1>5
    <2> QED BY <1>5, <2>1, <2>2, <2>3 DEF Ti!Earlier
  <1>7. Ti!First(T) \in T /\ \A f \in T : Ti!First(T) = f \/ Ti!Earlier(Ti!First(T), f)
    BY <1>6 DEF Ti!First
  <1>8. \A f \in T : f[1] \in Nat
    OBVIOUS
  <1> HIDE DEF X, B
  <1> QED BY <1>7, <1>8 DEF Ti!Earlier

\* A functor is queued.
LEMMA OpQueued ==
  ASSUME NEW q \in Seq(TimerOps), NEW o \in TimerOps
  PROVE  /\ Append(q, o) \in Seq(TimerOps)
         /\ \A x : HasAdd(Append(q, o), x) <=> HasAdd(q, x) \/ (o.op = "add" /\ o.id = x)
         /\ IdsOf(Append(q, o)) = IdsOf(q) \cup {o.id}
         /\ AddedFirst(q) /\ (o.op = "add" => o.id \notin IdsOf(q)) => AddedFirst(Append(q, o))
  <1>1. /\ Append(q, o) \in Seq(TimerOps) /\ Len(q) \in Nat /\ DOMAIN q = 1 .. Len(q)
        /\ DOMAIN Append(q, o) = 1 .. Len(q) + 1
        /\ \A i \in 1 .. Len(q) : Append(q, o)[i] = q[i]
        /\ Append(q, o)[Len(q) + 1] = o
    OBVIOUS
  <1>2. 1 .. Len(q) + 1 = DOMAIN q \cup {Len(q) + 1}
    BY <1>1
  <1>3. \A x : HasAdd(Append(q, o), x) <=> HasAdd(q, x) \/ (o.op = "add" /\ o.id = x)
    BY <1>1, <1>2 DEF HasAdd
  <1>4. IdsOf(Append(q, o)) = IdsOf(q) \cup {o.id}
    BY <1>1, <1>2 DEF IdsOf
  <1>5. ASSUME AddedFirst(q), o.op = "add" => o.id \notin IdsOf(q) PROVE AddedFirst(Append(q, o))
    <2> DEFINE p == Append(q, o)
    <2> SUFFICES ASSUME NEW i \in DOMAIN p, NEW j \in DOMAIN p, p[j].op = "add", p[i].id = p[j].id
                 PROVE  IF p[i].op = "add" THEN i = j ELSE j < i
      BY DEF AddedFirst
    <2>1. CASE j = Len(q) + 1
      <3>1. \A k \in DOMAIN q : q[k].id # o.id
        BY <1>1, <1>5, <2>1 DEF IdsOf
      <3> QED BY <1>1, <1>2, <2>1, <3>1
    <2>2. CASE j \in DOMAIN q /\ i = Len(q) + 1
      <3>1. o.op # "add"
        BY <1>1, <1>5, <2>2 DEF IdsOf
      <3> QED BY <1>1, <2>2, <3>1
    <2>3. CASE j \in DOMAIN q /\ i \in DOMAIN q
      BY <1>1, <1>5, <2>3 DEF AddedFirst
    <2> QED BY <1>1, <1>2, <2>1, <2>2, <2>3
  <1> QED BY <1>1, <1>3, <1>4, <1>5

\* A functor is run.
LEMMA OpRuns ==
  ASSUME NEW q \in Seq(TimerOps), q # <<>>
  PROVE  /\ Tail(q) \in Seq(TimerOps) /\ Head(q) \in TimerOps
         /\ \A x : HasAdd(q, x) <=> HasAdd(Tail(q), x) \/ (Head(q).op = "add" /\ Head(q).id = x)
         /\ IdsOf(q) = IdsOf(Tail(q)) \cup {Head(q).id}
         /\ AddedFirst(q) => /\ AddedFirst(Tail(q))
                             /\ Head(q).op = "add" => ~ HasAdd(Tail(q), Head(q).id)
                             /\ Head(q).op # "add" => ~ HasAdd(q, Head(q).id)
  <1>1. /\ Tail(q) \in Seq(TimerOps) /\ Len(q) \in Nat \ {0} /\ DOMAIN q = 1 .. Len(q)
        /\ DOMAIN Tail(q) = 1 .. Len(q) - 1
        /\ \A i \in 1 .. Len(q) - 1 : Tail(q)[i] = q[i + 1]
        /\ Head(q) = q[1] /\ Head(q) \in TimerOps /\ 1 \in DOMAIN q
    OBVIOUS
  <1>2. ASSUME NEW j \in DOMAIN q, j # 1 PROVE j - 1 \in DOMAIN Tail(q) /\ Tail(q)[j - 1] = q[j]
    BY <1>1, <1>2
  <1>3. ASSUME NEW j \in DOMAIN Tail(q) PROVE j + 1 \in DOMAIN q /\ j + 1 # 1 /\ Tail(q)[j] = q[j + 1]
    BY <1>1
  <1>4. ASSUME NEW x PROVE HasAdd(q, x) <=> HasAdd(Tail(q), x) \/ (Head(q).op = "add" /\ Head(q).id = x)
    <2>1. HasAdd(Tail(q), x) => HasAdd(q, x)
      BY <1>3 DEF HasAdd
    <2>2. Head(q).op = "add" /\ Head(q).id = x => HasAdd(q, x)
      BY <1>1 DEF HasAdd
    <2>3. ASSUME NEW j \in DOMAIN q, q[j].op = "add", q[j].id = x
          PROVE  HasAdd(Tail(q), x) \/ (Head(q).op = "add" /\ Head(q).id = x)
      BY <1>1, <1>2, <2>3 DEF HasAdd
    <2> QED BY <2>1, <2>2, <2>3 DEF HasAdd
  <1>5. IdsOf(q) = IdsOf(Tail(q)) \cup {Head(q).id}
    <2>1. ASSUME NEW j \in DOMAIN q PROVE q[j].id \in IdsOf(Tail(q)) \cup {Head(q).id}
      BY <1>1, <1>2 DEF IdsOf
    <2>2. ASSUME NEW j \in DOMAIN Tail(q) PROVE Tail(q)[j].id \in IdsOf(q)
      BY <1>3 DEF IdsOf
    <2>3. Head(q).id \in IdsOf(q)
      BY <1>1 DEF IdsOf
    <2> QED BY <2>1, <2>2, <2>3 DEF IdsOf
  <1>6. ASSUME AddedFirst(q) PROVE AddedFirst(Tail(q))
    <2> SUFFICES ASSUME NEW i \in DOMAIN Tail(q), NEW j \in DOMAIN Tail(q),
                        Tail(q)[j].op = "add", Tail(q)[i].id = Tail(q)[j].id
                 PROVE  IF Tail(q)[i].op = "add" THEN i = j ELSE j < i
      BY DEF AddedFirst
    <2>1. IF q[i + 1].op = "add" THEN i + 1 = j + 1 ELSE j + 1 < i + 1
      BY <1>3, <1>6 DEF AddedFirst
    <2> QED BY <1>1, <1>3, <2>1
  <1>7. ASSUME AddedFirst(q), Head(q).op = "add", HasAdd(Tail(q), Head(q).id) PROVE FALSE
    <2>1. PICK j \in DOMAIN Tail(q) : Tail(q)[j].op = "add" /\ Tail(q)[j].id = Head(q).id
      BY <1>7 DEF HasAdd
    <2> QED BY <1>1, <1>3, <1>7, <2>1 DEF AddedFirst
  <1>8. ASSUME AddedFirst(q), Head(q).op # "add", HasAdd(q, Head(q).id) PROVE FALSE
    <2>1. PICK j \in DOMAIN q : q[j].op = "add" /\ q[j].id = q[1].id
      BY <1>1, <1>8 DEF HasAdd
    <2>2. j < 1
      BY <1>1, <1>8, <2>1 DEF AddedFirst
    <2> QED BY <1>1, <2>2
  <1> QED BY <1>1, <1>4, <1>5, <1>6, <1>7, <1>8

-----------------------------------------------------------------------------
(* Timers: what a round of handleRead and a cancel do *)

\* An address without a timer is nowhere.
LEMMA DeadNowhere ==
  ASSUME TimerInv, NEW a \in Addrs, ~ Alive(a)
  PROVE  /\ heap[a] = Ti!Free /\ a \notin ran
         /\ \A e \in timers \cup expired : e[2] # a
         /\ \A x \in actives : x[1] # a
         /\ \A x : HasAdd(ops, x) => x[1] # a
  <1>1. heap[a].seq \in Nat /\ heap[a].seq = 0
    BY DEF TimerInv, TimerTypes, TimerRecs, Alive
  <1>2. heap[a] = Ti!Free /\ a \notin ran /\ \A e \in timers \cup expired : e[2] # a
    BY <1>1 DEF TimerInv, HeapInv, PlaceInv, IndexInv, Alive
  <1>3. ASSUME NEW x \in actives PROVE x[1] # a
    <2>1. x \in TimerIds /\ x[2] = heap[x[1]].seq
      BY DEF TimerInv, TimerTypes, IndexInv
    <2>2. x = Ti!Id(x[1]) /\ x[1] \in Addrs
      BY <2>1 DEF TimerIds, Ti!Id
    <2>3. InT(x[1])
      BY <2>2 DEF TimerInv, IndexInv
    <2> QED BY <1>2, <2>3 DEF InT
  <1>4. ASSUME NEW x, HasAdd(ops, x) PROVE x[1] # a
    <2>1. x \in issued
      BY <1>4 DEF HasAdd, TimerInv, OpsInv, IdsOf
    <2>2. x[2] \in 1 .. created /\ x[2] = heap[x[1]].seq /\ created \in Nat
      BY <1>4, <2>1 DEF TimerInv, OpsInv, HeapInv, TimerTypes
    <2> QED BY <1>1, <2>2
  <1> QED BY <1>2, <1>3, <1>4

\* The expired timers are run or stay.
Walks ==
  /\ expired' \subseteq expired /\ ran' \in SUBSET Addrs
  /\ \A c \in Addrs : c \in ran' => (c \in ran \/ InE(c)) /\ <<heap[c].exp, c>> \notin expired'
  /\ \A c \in Addrs : InE(c) \/ c \in ran => <<heap[c].exp, c>> \in expired' \/ c \in ran'
  /\ \A f \in fired' : "loop" \notin f[2]
  /\ early' = {}
  /\ UNCHANGED calling /\ (~ calling => expired' = {} /\ ran' = {})

\* The next callback starts.
LEMMA RunsWalks ==
  ASSUME TimerInv, NEW a, Ti!Runs(a), UNCHANGED calling
  PROVE  Walks /\ calling
  <1>1. PICK e \in Nat \X Addrs : e = Ti!First(expired) /\ e \in expired
    BY FirstLeast DEF Ti!Runs, TimerInv, TimerTypes
  <1>2. /\ calling /\ a = e[2] /\ expired' = expired \ {e} /\ ran' = ran \cup {a}
        /\ fired' = fired \cup {<<heap[a].seq, Ti!CancelledBy(heap[a].seq)>>}
        /\ early' = IF heap[a].exp > clock THEN early \cup {heap[a].seq} ELSE early
    BY <1>1 DEF Ti!Runs
  <1>3. a \in Addrs /\ e = <<heap[a].exp, a>> /\ Alive(a) /\ InE(a)
    BY <1>1, <1>2 DEF TimerInv, IndexInv, InE
  <1>4. early' = {}
    BY <1>1, <1>2, <1>3 DEF TimerInv, PlaceInv, TimerTypes, CancelInv
  <1>5. "loop" \notin Ti!CancelledBy(heap[a].seq)
    BY <1>3 DEF Ti!CancelledBy, TimerInv, CancelInv
  <1>6. \A f \in fired' : "loop" \notin f[2]
    BY <1>2, <1>5 DEF TimerInv, CancelInv
  <1>7. \A c \in Addrs : c # a => <<heap[c].exp, c>> # e
    BY <1>3
  <1> QED BY <1>2, <1>3, <1>4, <1>6, <1>7 DEF Walks, InE, TimerInv, TimerTypes, PlaceInv

\* The functors that are left are those there were, but for one that adds nothing.
OpsStay ==
  /\ ops' \in Seq(TimerOps) /\ AddedFirst(ops') /\ IdsOf(ops') \subseteq IdsOf(ops)
  /\ \A x : HasAdd(ops', x) <=> HasAdd(ops, x)

\* cancelInLoop of a timer that waits.
LEMMA CancelsWaiting ==
  ASSUME TimerInv, NEW x \in issued, NEW by \in Wheres, Ti!CancelInLoop(x, by), x \in actives,
         Walks, OpsStay, UNCHANGED <<created, issued, clock, readAt, armed>>
  PROVE  TimerInv'
  <1> USE DEF TimerInv
  <1>1. PICK b \in Addrs : x = <<b, heap[b].seq>> /\ x[1] = b /\ x[2] = heap[b].seq
    BY DEF TimerTypes, IndexInv, TimerIds
  <1>2. InT(b) /\ Alive(b) /\ ~ InE(b) /\ b \notin ran /\ ~ HasAdd(ops, x)
    BY <1>1 DEF IndexInv, PlaceInv, Ti!Id, InT, Pending
  <1>3. /\ cancelled' = cancelled \cup {<<x[2], by>>} /\ timers' = timers \ {<<heap[b].exp, b>>}
        /\ actives' = actives \ {x} /\ gone' = gone \cup {x[2]} /\ canceling' = canceling
        /\ heap' = [heap EXCEPT ![b] = Ti!Free]
    BY <1>1 DEF Ti!CancelInLoop
  <1>4. /\ heap'[b] = Ti!Free /\ heap'[b].seq = 0 /\ heap'[b].exp = 0
        /\ \A c \in Addrs : c # b => heap'[c] = heap[c]
        /\ heap' \in [Addrs -> TimerRecs]
    BY <1>3 DEF TimerTypes, Ti!Free, TimerRecs
  <1>5. /\ \A e \in timers' : e \in timers /\ e[2] # b
        /\ \A e \in expired' : e \in expired /\ e[2] # b
    <2>1. \A e \in timers : e = <<e[1], e[2]>> /\ e[1] = heap[e[2]].exp
      BY DEF IndexInv, TimerTypes
    <2>2. \A e \in expired : e = <<e[1], e[2]>> /\ e[1] = heap[e[2]].exp
      BY DEF IndexInv, TimerTypes
    <2> QED BY <1>2, <1>3, <2>1, <2>2 DEF Walks, InE
  <1>6. /\ \A c \in Addrs : c # b =>
             /\ InT(c)' <=> InT(c)
             /\ InE(c)' <=> <<heap[c].exp, c>> \in expired'
             /\ Alive(c)' <=> Alive(c)
             /\ Pending(c)' <=> Pending(c)
        /\ ~ InT(b)' /\ ~ InE(b)' /\ ~ Alive(b)' /\ b \notin ran'
    BY <1>2, <1>3, <1>4, <1>5 DEF InT, InE, Alive, Pending, Walks, OpsStay, Ti!Id
  <1>7. x[2] \in 1 .. created /\ created \in Nat
    BY DEF HeapInv, TimerTypes
  <1>8. \A y : HasAdd(ops', y) => y \in issued /\ y[1] # b
    <2> SUFFICES ASSUME NEW y, HasAdd(ops', y), y[1] = b PROVE FALSE
      BY DEF HasAdd, OpsStay, OpsInv, IdsOf
    <2>1. HasAdd(ops, y) /\ y \in issued
      BY DEF HasAdd, OpsStay, OpsInv, IdsOf
    <2>2. y \in TimerIds /\ y[2] = heap[b].seq
      BY <2>1 DEF OpsInv, TimerTypes
    <2>3. y = x
      BY <1>1, <2>2 DEF TimerIds
    <2> QED BY <1>2, <2>1, <2>3
  <1>9. TimerTypes'
    BY <1>3, <1>4, <1>7 DEF TimerTypes, Walks, OpsStay
  <1>10. HeapInv'
    BY <1>4, <1>6 DEF HeapInv, Ti!Id
  <1>11. IndexInv'
    <2>1. \A e \in timers' \cup expired' : Alive(e[2])' /\ e[1] = heap'[e[2]].exp
      BY <1>4, <1>5, <1>6 DEF IndexInv, TimerTypes
    <2>2. \A y \in actives' : y \in actives /\ y[1] # b /\ y[2] = heap'[y[1]].seq
      BY <1>1, <1>3, <1>4 DEF IndexInv, TimerTypes, TimerIds
    <2>3. \A c \in Addrs : InT(c)' <=> <<c, heap'[c].seq>> \in actives'
      <3>1. ASSUME NEW c \in Addrs, c # b PROVE InT(c)' <=> <<c, heap'[c].seq>> \in actives'
        BY <1>1, <1>3, <1>4, <1>6, <3>1 DEF IndexInv, Ti!Id
      <3>2. <<b, heap'[b].seq>> \notin actives'
        BY <2>2
      <3> QED BY <1>6, <3>1, <3>2
    <2> QED BY <2>1, <2>2, <2>3 DEF IndexInv, Ti!Id
  <1>12. PlaceInv'
    <2>1. ~ Pending(b)'
      BY <1>8 DEF Pending, Ti!Id
    <2>2. \A c \in Addrs : Alive(c)' => InT(c)' \/ InE(c)' \/ c \in ran' \/ Pending(c)'
      BY <1>6 DEF PlaceInv, Walks
    <2>3. \A c \in Addrs :
            /\ ~ (InT(c)' /\ InE(c)') /\ ~ (InT(c)' /\ c \in ran') /\ ~ (InE(c)' /\ c \in ran')
            /\ Pending(c)' => ~ InT(c)' /\ ~ InE(c)' /\ c \notin ran'
      BY <1>6, <2>1 DEF PlaceInv, Walks, InE
    <2>4. \A c \in ran' : Alive(c)'
      <3>1. \A c \in Addrs : c \in ran \/ InE(c) => Alive(c)
        BY DEF PlaceInv, IndexInv, InE
      <3> QED BY <1>6, <3>1 DEF Walks
    <2>5. (~ calling' => expired' = {} /\ ran' = {}) /\ \A e \in expired' : e[1] <= readAt'
      BY DEF PlaceInv, Walks
    <2> QED BY <2>2, <2>3, <2>4, <2>5 DEF PlaceInv
  <1>13. OpsInv'
    BY <1>4, <1>8 DEF OpsInv, OpsStay, TimerTypes, TimerIds
  <1>14. CancelInv'
    <2>1. \A c \in Addrs : heap'[c].seq # x[2]
      <3>1. ASSUME NEW c \in Addrs, c # b, heap[c].seq = x[2] PROVE FALSE
        <4>1. Ti!Id(c) \in issued /\ Ti!Id(c)[2] = x[2] /\ Ti!Id(c)[1] = c
          BY <1>7, <3>1 DEF HeapInv, Alive, Ti!Id
        <4> QED BY <1>1, <3>1, <4>1 DEF HeapInv
      <3> QED BY <1>4, <1>7, <3>1
    <2>2. \A y \in cancelled' : y \in cancelled \/ y[1] = x[2]
      BY <1>3
    <2>3. \A y \in cancelled' : y[1] \in 1 .. created'
      BY <1>3, <1>7 DEF CancelInv
    <2>4. \A y \in cancelled' : y[2] = "loop" => \A c \in Addrs : heap'[c].seq # y[1]
      BY <1>4, <2>1, <2>2, <2>3 DEF CancelInv
    <2>5. ASSUME NEW y \in cancelled', y[2] = "callback", NEW c \in Addrs, heap'[c].seq = y[1]
          PROVE  (InE(c)' \/ c \in ran') /\ <<c, heap'[c].seq>> \in canceling'
      <3>1. y \in cancelled /\ c # b
        BY <1>4, <2>1, <2>2, <2>3, <2>5
      <3> QED BY <1>3, <1>4, <1>6, <2>5, <3>1 DEF CancelInv, Walks, Ti!Id
    <2>6. \A s \in gone' : \E y \in cancelled' : y[1] = s
      <3>1. \E y \in cancelled' : y[1] = x[2]
        <4>1. <<x[2], by>> \in cancelled'
          BY <1>3
        <4>2. <<x[2], by>>[1] = x[2]
          OBVIOUS
        <4> QED BY <4>1, <4>2
      <3>2. \A s \in gone : \E y \in cancelled' : y[1] = s
        BY <1>3 DEF CancelInv
      <3> QED BY <1>3, <3>1, <3>2
    <2> QED BY <2>3, <2>4, <2>5, <2>6 DEF CancelInv, Walks, Ti!Id
  <1>15. ArmedInv'
    BY <1>5 DEF ArmedInv, Walks
  <1> QED BY <1>9, <1>10, <1>11, <1>12, <1>13, <1>14, <1>15

\* cancelInLoop of a timer that does not wait: it is running, deleted or not added yet.
LEMMA CancelsOther ==
  ASSUME TimerInv, NEW x \in issued, NEW by \in Wheres, Ti!CancelInLoop(x, by), x \notin actives,
         by # "overtook" => ~ HasAdd(ops, x), by = "loop" => ~ calling, by = "callback" => calling,
         Walks, OpsStay, UNCHANGED <<created, issued, clock, readAt, armed>>
  PROVE  TimerInv'
  <1> USE DEF TimerInv
  <1>1. /\ cancelled' = cancelled \cup {<<x[2], by>>} /\ UNCHANGED <<timers, actives, gone, heap>>
        /\ canceling' = IF calling THEN canceling \cup {x} ELSE canceling
    BY DEF Ti!CancelInLoop
  <1>2. \A c \in Addrs :
          /\ InT(c)' <=> InT(c)
          /\ InE(c)' <=> <<heap[c].exp, c>> \in expired'
          /\ Alive(c)' <=> Alive(c)
          /\ Pending(c)' <=> Pending(c)
          /\ Ti!Id(c)' = Ti!Id(c)
    BY <1>1 DEF InT, InE, Alive, Pending, Walks, OpsStay, Ti!Id
  <1>3. x[2] \in 1 .. created /\ created \in Nat /\ x \in TimerIds
    BY DEF HeapInv, TimerTypes
  <1>4. TimerTypes'
    BY <1>1, <1>3 DEF TimerTypes, Walks, OpsStay
  <1>5. HeapInv'
    BY <1>1, <1>2 DEF HeapInv
  <1>6. IndexInv'
    BY <1>1, <1>2 DEF IndexInv, Walks, TimerTypes
  <1>7. PlaceInv'
    <2>1. \A c \in Addrs : Alive(c)' => InT(c)' \/ InE(c)' \/ c \in ran' \/ Pending(c)'
      BY <1>2 DEF PlaceInv, Walks
    <2>2. \A c \in Addrs :
            /\ ~ (InT(c)' /\ InE(c)') /\ ~ (InT(c)' /\ c \in ran') /\ ~ (InE(c)' /\ c \in ran')
            /\ Pending(c)' => ~ InT(c)' /\ ~ InE(c)' /\ c \notin ran'
      BY <1>2 DEF PlaceInv, Walks, InE
    <2>3. \A c \in ran' : Alive(c)'
      <3>1. \A c \in Addrs : c \in ran \/ InE(c) => Alive(c)
        BY DEF PlaceInv, IndexInv, InE
      <3> QED BY <1>2, <3>1 DEF Walks
    <2>4. (~ calling' => expired' = {} /\ ran' = {}) /\ \A e \in expired' : e[1] <= readAt'
      BY DEF PlaceInv, Walks
    <2> QED BY <2>1, <2>2, <2>3, <2>4 DEF PlaceInv
  <1>8. OpsInv'
    BY <1>1 DEF OpsInv, OpsStay
  <1>9. CancelInv'
    <2>1. ASSUME NEW c \in Addrs, heap[c].seq = x[2], by # "overtook"
          PROVE  (InE(c) \/ c \in ran) /\ Ti!Id(c) = x
      <3>1. Alive(c) /\ Ti!Id(c)[2] = x[2]
        BY <1>3, <2>1 DEF Alive, Ti!Id
      <3>2. Ti!Id(c) = x
        BY <3>1 DEF HeapInv
      <3> QED BY <2>1, <3>1, <3>2 DEF PlaceInv, IndexInv, Pending
    <2>2. \A y \in cancelled' : y[1] \in 1 .. created'
      BY <1>1, <1>3 DEF CancelInv
    <2>3. ASSUME NEW y \in cancelled', y[2] = "loop", NEW c \in Addrs, heap'[c].seq = y[1] PROVE FALSE
      <3>1. CASE y \in cancelled
        BY <1>1, <2>3, <3>1 DEF CancelInv
      <3>2. CASE y = <<x[2], by>>
        BY <1>1, <2>1, <2>3, <3>2 DEF PlaceInv, InE
      <3> QED BY <1>1, <2>3, <3>1, <3>2
    <2>4. ASSUME NEW y \in cancelled', y[2] = "callback", NEW c \in Addrs, heap'[c].seq = y[1]
          PROVE  (InE(c)' \/ c \in ran') /\ <<c, heap'[c].seq>> \in canceling'
      <3>1. (InE(c) \/ c \in ran) /\ Ti!Id(c) \in canceling'
        <4>1. CASE y \in cancelled
          BY <1>1, <2>4, <4>1 DEF CancelInv
        <4>2. CASE y = <<x[2], by>>
          BY <1>1, <2>1, <2>4, <4>2
        <4> QED BY <1>1, <2>4, <4>1, <4>2
      <3> QED BY <1>1, <1>2, <3>1 DEF Walks, Ti!Id
    <2>5. \A s \in gone' : \E y \in cancelled' : y[1] = s
      BY <1>1 DEF CancelInv
    <2> QED BY <2>2, <2>3, <2>4, <2>5 DEF CancelInv, Walks, Ti!Id
  <1>10. ArmedInv'
    BY <1>1 DEF ArmedInv, Walks
  <1> QED BY <1>4, <1>5, <1>6, <1>7, <1>8, <1>9, <1>10

\* A callback that neither adds nor cancels.
LEMMA CallbackKeeps ==
  ASSUME TimerInv, NEW a, Ti!Callback(a)
  PROVE  TimerInv'
  <1> USE DEF TimerInv
  <1>1. /\ Walks
        /\ UNCHANGED <<clock, heap, timers, actives, canceling, calling, readAt, armed, ops, created, issued,
                       cancelled, gone>>
    BY RunsWalks DEF Ti!Callback, Ti!bounds
  <1>2. \A c \in Addrs :
          /\ InT(c)' <=> InT(c)
          /\ InE(c)' <=> <<heap[c].exp, c>> \in expired'
          /\ Alive(c)' <=> Alive(c)
          /\ Pending(c)' <=> Pending(c)
          /\ Ti!Id(c)' = Ti!Id(c)
    BY <1>1 DEF InT, InE, Alive, Pending, Ti!Id
  <1>3. TimerTypes' /\ HeapInv' /\ OpsInv'
    BY <1>1, <1>2 DEF TimerTypes, HeapInv, OpsInv, Walks
  <1>4. IndexInv'
    BY <1>1, <1>2 DEF IndexInv, Walks, TimerTypes
  <1>5. PlaceInv'
    <2>1. \A c \in Addrs : Alive(c)' => InT(c)' \/ InE(c)' \/ c \in ran' \/ Pending(c)'
      BY <1>1, <1>2 DEF PlaceInv, Walks
    <2>2. \A c \in Addrs :
            /\ ~ (InT(c)' /\ InE(c)') /\ ~ (InT(c)' /\ c \in ran') /\ ~ (InE(c)' /\ c \in ran')
            /\ Pending(c)' => ~ InT(c)' /\ ~ InE(c)' /\ c \notin ran'
      BY <1>1, <1>2 DEF PlaceInv, Walks, InE
    <2>3. \A c \in ran' : Alive(c)'
      <3>1. \A c \in Addrs : c \in ran \/ InE(c) => Alive(c)
        BY DEF PlaceInv, IndexInv, InE
      <3> QED BY <1>1, <1>2, <3>1 DEF Walks
    <2>4. (~ calling' => expired' = {} /\ ran' = {}) /\ \A e \in expired' : e[1] <= readAt'
      BY <1>1 DEF PlaceInv, Walks
    <2> QED BY <2>1, <2>2, <2>3, <2>4 DEF PlaceInv
  <1>6. CancelInv'
    <2>1. ASSUME NEW y \in cancelled, y[2] = "callback", NEW c \in Addrs, heap'[c].seq = y[1]
          PROVE  (InE(c)' \/ c \in ran') /\ <<c, heap'[c].seq>> \in canceling'
      BY <1>1, <1>2, <2>1 DEF CancelInv, Walks, Ti!Id
    <2>2. /\ \A y \in cancelled' : y[1] \in 1 .. created'
          /\ \A y \in cancelled' : y[2] = "loop" => \A c \in Addrs : heap'[c].seq # y[1]
          /\ \A s \in gone' : \E y \in cancelled' : y[1] = s
      BY <1>1 DEF CancelInv
    <2> QED BY <1>1, <2>1, <2>2 DEF CancelInv, Walks, Ti!Id
  <1>7. ArmedInv'
    BY <1>1 DEF ArmedInv
  <1> QED BY <1>7, <1>3, <1>4, <1>5, <1>6

\* The loop and the callbacks cancel timers.
LEMMA CancelKeeps ==
  ASSUME TimerInv, Ti!RunCancel \/ \E a \in Addrs, x \in issued : Ti!CallbackCancels(a, x)
  PROVE  TimerInv'
  <1>1. CASE Ti!RunCancel
    <2>1. PICK x : x = Head(ops).id
      OBVIOUS
    <2>2. /\ ~ calling /\ ops # <<>> /\ Head(ops).op = "cancel" /\ ops' = Tail(ops)
          /\ Ti!CancelInLoop(x, "loop")
          /\ UNCHANGED <<clock, armed, calling, expired, ran, readAt, created, issued, fired, early>>
      BY <1>1, <2>1 DEF Ti!RunCancel, Ti!bounds
    <2>3. OpsStay /\ x \in issued /\ ~ HasAdd(ops, x)
      BY <2>1, <2>2, OpRuns DEF OpsStay, TimerInv, TimerTypes, OpsInv
    <2>4. Walks
      BY <2>2 DEF Walks, TimerInv, PlaceInv, CancelInv, InE, TimerTypes
    <2>5. "loop" \in Wheres
      BY DEF Wheres
    <2> QED BY <2>2, <2>3, <2>4, <2>5, CancelsWaiting, CancelsOther
  <1>2. CASE \E a \in Addrs, x \in issued : Ti!CallbackCancels(a, x)
    <2>1. PICK a \in Addrs, x \in issued : Ti!CallbackCancels(a, x)
      BY <1>2
    <2>2. PICK by \in Wheres : by = IF Ti!AddPending(x) THEN "overtook" ELSE "callback"
      BY DEF Wheres
    <2>3. /\ Ti!Runs(a) /\ Ti!CancelInLoop(x, by)
          /\ UNCHANGED <<clock, calling, readAt, armed, ops, created, issued>>
      BY <2>1, <2>2 DEF Ti!CallbackCancels
    <2>4. Walks /\ calling
      BY <2>3, RunsWalks
    <2>5. OpsStay
      BY <2>3 DEF OpsStay, TimerInv, TimerTypes, OpsInv
    <2>6. by = "callback" => ~ HasAdd(ops, x)
      <3>1. DOMAIN ops = 1 .. Len(ops) /\ \A i \in DOMAIN ops : ops[i] \in TimerOps
        BY DEF TimerInv, TimerTypes
      <3>2. \A o \in TimerOps : o.op = "add" /\ o.id = x => o = [op |-> "add", id |-> x]
        BY DEF TimerOps
      <3> QED BY <2>2, <3>1, <3>2 DEF Ti!AddPending, HasAdd
    <2>7. by # "loop"
      BY <2>2
    <2> QED BY <2>3, <2>4, <2>5, <2>6, <2>7, CancelsWaiting, CancelsOther DEF Wheres
  <1> QED BY <1>1, <1>2

\* No callback runs: the expired timers stay.
LEMMA StandsStill ==
  ASSUME TimerInv, UNCHANGED <<expired, ran, calling, fired, early>>
  PROVE  Walks
  BY DEF Walks, TimerInv, PlaceInv, CancelInv, InE, TimerTypes

-----------------------------------------------------------------------------
(* Timers: a timer is added *)

\* A new timer, inserted by a callback or left to a functor.
LEMMA NewTimerKeeps ==
  ASSUME TimerInv, NEW b \in Addrs, NEW d \in Delays, NEW i \in {0} \cup Delays, Ti!New(b, d, i),
         Walks, armed' \in Nat, UNCHANGED <<clock, canceling, readAt, cancelled, gone>>,
         \/ /\ UNCHANGED <<timers, actives, armed>>
            /\ ops' = Append(ops, [op |-> "add", id |-> <<b, created + 1>>])
         \/ /\ calling /\ UNCHANGED ops
            /\ timers' = timers \cup {<<clock + d, b>>}
            /\ actives' = actives \cup {<<b, created + 1>>}
  PROVE  TimerInv'
  <1> USE DEF TimerInv
  <1>1. PICK new \in TimerIds : new = <<b, created + 1>> /\ new[1] = b /\ new[2] = created + 1
    BY DEF TimerTypes, TimerIds
  <1>2. /\ created \in Nat /\ created' = created + 1 /\ issued' = issued \cup {new}
        /\ heap' = [heap EXCEPT ![b] = [seq |-> created + 1, exp |-> clock + d, every |-> i]]
        /\ clock + d \in Nat /\ ~ Alive(b)
    BY <1>1, TimerSettings DEF Ti!New, Ti!Timer, TimerTypes, Alive, Ti!Free
  <1>3. /\ heap'[b].seq = created + 1 /\ heap'[b].exp = clock + d
        /\ \A c \in Addrs : c # b => heap'[c] = heap[c]
        /\ heap' \in [Addrs -> TimerRecs]
    BY <1>2, TimerSettings DEF TimerTypes, TimerRecs
  <1>4. /\ b \notin ran
        /\ \A e \in timers \cup expired : e[2] # b
        /\ \A x \in actives : x[1] # b
        /\ \A x : HasAdd(ops, x) => x[1] # b
    BY <1>2, DeadNowhere
  <1>5. \A e \in expired' : e \in expired
    BY DEF Walks
  <1>6. new \notin issued /\ \A x \in issued : x[2] # created + 1 /\ x[2] \in 1 .. created'
    BY <1>1, <1>2 DEF HeapInv
  \* The functors.
  <1>7. PICK queues \in BOOLEAN :
          /\ queues => UNCHANGED <<timers, actives, armed>>
                       /\ ops' = Append(ops, [op |-> "add", id |-> new])
          /\ ~ queues => /\ calling /\ UNCHANGED ops /\ timers' = timers \cup {<<clock + d, b>>}
                         /\ actives' = actives \cup {new}
    BY <1>1
  <1>8. /\ ops' \in Seq(TimerOps) /\ AddedFirst(ops') /\ IdsOf(ops') \subseteq issued'
        /\ \A x : HasAdd(ops', x) <=> HasAdd(ops, x) \/ (queues /\ x = new)
    <2>1. CASE ~ queues
      BY <1>2, <1>7, <2>1 DEF OpsInv, TimerTypes
    <2>2. CASE queues
      <3>1. PICK o \in TimerOps : o = [op |-> "add", id |-> new] /\ o.op = "add" /\ o.id = new
        BY <1>1 DEF TimerOps
      <3>2. o.id \notin IdsOf(ops)
        BY <1>6, <3>1 DEF OpsInv
      <3>3. ops \in Seq(TimerOps) /\ AddedFirst(ops) /\ IdsOf(ops) \subseteq issued
        BY DEF OpsInv, TimerTypes
      <3>4. /\ Append(ops, o) \in Seq(TimerOps) /\ AddedFirst(Append(ops, o))
            /\ \A x : HasAdd(Append(ops, o), x) <=> HasAdd(ops, x) \/ (o.op = "add" /\ o.id = x)
            /\ IdsOf(Append(ops, o)) = IdsOf(ops) \cup {o.id}
        BY <3>2, <3>3, OpQueued
      <3>5. ops' = Append(ops, o)
        BY <1>7, <2>2, <3>1
      <3> QED BY <1>2, <2>2, <3>1, <3>3, <3>4, <3>5
    <2> QED BY <2>1, <2>2
  \* Where the timers are now.
  <1>9. /\ \A c \in Addrs : c # b =>
             /\ InT(c)' <=> InT(c)
             /\ InE(c)' <=> <<heap[c].exp, c>> \in expired'
             /\ Alive(c)' <=> Alive(c)
             /\ Pending(c)' <=> Pending(c)
        /\ (InT(b)' <=> ~ queues) /\ ~ InE(b)' /\ Alive(b)' /\ b \notin ran' /\ (Pending(b)' <=> queues)
    <2>1. ASSUME NEW c \in Addrs, c # b
          PROVE  /\ InT(c)' <=> InT(c)
                 /\ InE(c)' <=> <<heap[c].exp, c>> \in expired'
                 /\ Alive(c)' <=> Alive(c)
                 /\ Pending(c)' <=> Pending(c)
      <3>1. <<c, heap[c].seq>> # new
        BY <1>1, <2>1
      <3> QED BY <1>3, <1>7, <1>8, <2>1, <3>1 DEF InT, InE, Alive, Pending, Ti!Id
    <2>2. (InT(b)' <=> ~ queues) /\ ~ InE(b)' /\ Alive(b)'
      BY <1>2, <1>3, <1>4, <1>5, <1>7 DEF InT, InE, Alive
    <2>3. b \notin ran' /\ (Pending(b)' <=> queues)
      <3>1. <<b, heap'[b].seq>> = new
        BY <1>1, <1>3
      <3>2. b \notin ran'
        <4>1. <<heap[b].exp, b>> \notin expired
          BY <1>4
        <4> QED BY <1>4, <4>1 DEF Walks, InE
      <3>3. HasAdd(ops', new) <=> queues
        BY <1>1, <1>4, <1>8
      <3> QED BY <3>1, <3>2, <3>3 DEF Pending, Ti!Id
    <2> QED BY <2>1, <2>2, <2>3
  <1>10. TimerTypes'
    <2>1. timers' \in SUBSET (Nat \X Addrs) /\ actives' \in SUBSET TimerIds
      BY <1>1, <1>2, <1>7 DEF TimerTypes
    <2>2. expired' \in SUBSET (Nat \X Addrs) /\ ran' \in SUBSET Addrs /\ calling' \in BOOLEAN
      BY DEF TimerTypes, Walks
    <2>3. issued' \in SUBSET TimerIds /\ created' \in Nat
      <3>1. issued \in SUBSET TimerIds
        BY DEF TimerTypes
      <3> QED BY <1>2, <3>1
    <2> QED BY <1>3, <1>8, <2>1, <2>2, <2>3 DEF TimerTypes
  <1>11. HeapInv'
    <2>1. \A c \in Addrs : heap'[c].seq = 0 => heap'[c] = Ti!Free
      BY <1>2, <1>3 DEF HeapInv
    <2>2. \A c \in Addrs : Alive(c)' => <<c, heap'[c].seq>> \in issued'
      BY <1>1, <1>2, <1>3, <1>9 DEF HeapInv, Ti!Id
    <2>3. \A x \in issued' : x[2] \in 1 .. created'
      BY <1>1, <1>2, <1>6
    <2>4. \A x, y \in issued' : x[2] = y[2] => x = y
      BY <1>1, <1>2, <1>6 DEF HeapInv
    <2> QED BY <2>1, <2>2, <2>3, <2>4 DEF HeapInv, Ti!Id
  <1>12. IndexInv'
    <2>1. \A e \in timers' \cup expired' : Alive(e[2])' /\ e[1] = heap'[e[2]].exp
      <3>1. ASSUME NEW e \in timers \cup expired PROVE Alive(e[2])' /\ e[1] = heap'[e[2]].exp
        BY <1>3, <1>4, <1>9 DEF IndexInv, TimerTypes
      <3>2. \A e \in timers' \cup expired' : e \in timers \cup expired \/ e = <<clock + d, b>>
        BY <1>5, <1>7
      <3> QED BY <1>3, <1>9, <3>1, <3>2
    <2>2. \A y \in actives' : y[2] = heap'[y[1]].seq
      <3>1. \A y \in actives : y[2] = heap'[y[1]].seq
        BY <1>3, <1>4 DEF IndexInv, TimerTypes, TimerIds
      <3> QED BY <1>1, <1>3, <1>7, <3>1
    <2>3. \A c \in Addrs : InT(c)' <=> <<c, heap'[c].seq>> \in actives'
      <3>1. ASSUME NEW c \in Addrs, c # b PROVE InT(c)' <=> <<c, heap'[c].seq>> \in actives'
        BY <1>1, <1>3, <1>7, <1>9, <3>1 DEF IndexInv, Ti!Id
      <3>2. <<b, heap'[b].seq>> = new /\ (new \in actives' <=> ~ queues)
        BY <1>1, <1>3, <1>4, <1>7
      <3> QED BY <1>9, <3>1, <3>2
    <2> QED BY <2>1, <2>2, <2>3 DEF IndexInv, Ti!Id
  <1>13. PlaceInv'
    <2>2. \A c \in Addrs : Alive(c)' => InT(c)' \/ InE(c)' \/ c \in ran' \/ Pending(c)'
      BY <1>9 DEF PlaceInv, Walks
    <2>3. \A c \in Addrs :
            /\ ~ (InT(c)' /\ InE(c)') /\ ~ (InT(c)' /\ c \in ran') /\ ~ (InE(c)' /\ c \in ran')
            /\ Pending(c)' => ~ InT(c)' /\ ~ InE(c)' /\ c \notin ran'
      BY <1>9 DEF PlaceInv, Walks, InE
    <2>4. \A c \in ran' : Alive(c)'
      <3>1. \A c \in Addrs : c \in ran \/ InE(c) => Alive(c)
        BY DEF PlaceInv, IndexInv, InE
      <3> QED BY <1>9, <3>1 DEF Walks
    <2>5. (~ calling' => expired' = {} /\ ran' = {}) /\ \A e \in expired' : e[1] <= readAt'
      BY DEF PlaceInv, Walks
    <2> QED BY <2>2, <2>3, <2>4, <2>5 DEF PlaceInv
  <1>14. OpsInv'
    <2>1. \A x \in issued' : HasAdd(ops', x) => x[2] = heap'[x[1]].seq
      <3>1. ASSUME NEW x \in issued, HasAdd(ops, x) PROVE x[2] = heap'[x[1]].seq
        BY <1>3, <1>4, <3>1 DEF OpsInv, TimerTypes, TimerIds
      <3>2. ~ HasAdd(ops, new)
        BY <1>1, <1>4
      <3> QED BY <1>1, <1>2, <1>3, <1>8, <3>1, <3>2
    <2> QED BY <1>8, <2>1 DEF OpsInv
  <1>15. CancelInv'
    <2>1. \A y \in cancelled : y[1] \in 1 .. created' /\ y[1] # created + 1
      BY <1>2 DEF CancelInv
    <2>2. \A y \in cancelled' : y[2] = "loop" => \A c \in Addrs : heap'[c].seq # y[1]
      BY <1>3, <2>1 DEF CancelInv
    <2>3. ASSUME NEW y \in cancelled', y[2] = "callback", NEW c \in Addrs, heap'[c].seq = y[1]
          PROVE  (InE(c)' \/ c \in ran') /\ <<c, heap'[c].seq>> \in canceling'
      <3>1. c # b
        BY <1>3, <2>1, <2>3
      <3> QED BY <1>3, <1>9, <2>3, <3>1 DEF CancelInv, Walks, Ti!Id
    <2>4. \A s \in gone' : \E y \in cancelled' : y[1] = s
      BY DEF CancelInv
    <2> QED BY <2>1, <2>2, <2>3, <2>4 DEF CancelInv, Walks, Ti!Id
  <1>16. ArmedInv'
    BY <1>7 DEF ArmedInv, Walks
  <1> QED BY <1>10, <1>11, <1>12, <1>13, <1>14, <1>15, <1>16

\* Another thread adds a timer, or a callback does.
LEMMA AddKeeps ==
  ASSUME TimerInv, NEW b \in Addrs, NEW d \in Delays, NEW i \in {0} \cup Delays,
         Ti!AddTimer(b, d, i) \/ \E a \in Addrs : Ti!CallbackAdds(a, b, d, i)
  PROVE  TimerInv'
  <1>1. CASE Ti!AddTimer(b, d, i)
    <2>1. Walks
      BY <1>1, StandsStill DEF Ti!AddTimer, Ti!queueVars, Ti!history
    <2>2. armed' \in Nat
      BY <1>1 DEF Ti!AddTimer, TimerInv, TimerTypes
    <2> QED BY <1>1, <2>1, <2>2, NewTimerKeeps DEF Ti!AddTimer, Ti!queueVars, Ti!history
  <1>2. ASSUME NEW a \in Addrs, Ti!CallbackAdds(a, b, d, i) PROVE TimerInv'
    <2>1. Walks /\ calling
      BY <1>2, RunsWalks DEF Ti!CallbackAdds
    <2>2. clock + d \in Nat /\ clock \in Nat /\ armed \in Nat
      BY TimerSettings DEF TimerInv, TimerTypes
    <2>3. /\ timers' = timers \cup {<<clock + d, b>>} /\ actives' = actives \cup {<<b, created + 1>>}
          /\ armed' \in Nat /\ Ti!New(b, d, i)
          /\ UNCHANGED <<clock, canceling, calling, readAt, ops, cancelled, gone>>
      BY <1>2, <2>2 DEF Ti!CallbackAdds, Ti!AddTimerInLoop, Ti!Timer, Ti!FromNow
    <2> QED BY <2>1, <2>3, NewTimerKeeps
  <1> QED BY <1>1, <1>2

\* The loop inserts the timer another thread has added.
LEMMA RunAddKeeps ==
  ASSUME TimerInv, Ti!RunAdd
  PROVE  TimerInv'
  <1> USE DEF TimerInv
  <1>1. PICK x : x = Head(ops).id
    OBVIOUS
  <1>2. /\ ~ calling /\ ops # <<>> /\ Head(ops).op = "add" /\ ops' = Tail(ops)
        /\ Ti!AddTimerInLoop(x[1], heap[x[1]])
        /\ UNCHANGED <<clock, heap, canceling, calling, expired, ran, readAt, created, issued,
                       cancelled, fired, gone, early>>
    BY <1>1 DEF Ti!RunAdd, Ti!bounds, Ti!history
  <1>3. /\ HasAdd(ops, x) /\ ~ HasAdd(ops', x) /\ x \in issued
        /\ ops' \in Seq(TimerOps) /\ AddedFirst(ops') /\ IdsOf(ops') \subseteq issued
        /\ \A y : HasAdd(ops, y) <=> HasAdd(ops', y) \/ x = y
    BY <1>1, <1>2, OpRuns DEF OpsInv, TimerTypes
  <1>4. PICK a \in Addrs : x = <<a, heap[a].seq>> /\ x[1] = a /\ x[2] = heap[a].seq
    BY <1>3 DEF OpsInv, TimerTypes, TimerIds
  <1>5. x[2] \in 1 .. created /\ created \in Nat /\ heap[a].exp \in Nat
    BY <1>3, <1>4 DEF HeapInv, TimerTypes, TimerRecs
  <1>6. Pending(a) /\ Alive(a) /\ ~ InT(a) /\ ~ InE(a) /\ a \notin ran /\ x \notin actives
    BY <1>3, <1>4, <1>5 DEF Pending, Ti!Id, Alive, PlaceInv, IndexInv
  <1>7. /\ timers' = timers \cup {<<heap[a].exp, a>>} /\ actives' = actives \cup {x}
        /\ armed' = IF Ti!EarliestChanged(timers, <<heap[a].exp, a>>) THEN Ti!FromNow(heap[a].exp)
                    ELSE armed
    BY <1>2, <1>4 DEF Ti!AddTimerInLoop
  <1>8. /\ \A c \in Addrs : c # a =>
             /\ InT(c)' <=> InT(c)
             /\ Pending(c)' <=> Pending(c)
        /\ \A c \in Addrs : (InE(c)' <=> InE(c)) /\ (Alive(c)' <=> Alive(c))
        /\ InT(a)' /\ ~ Pending(a)'
    <2>1. ASSUME NEW c \in Addrs, c # a PROVE (InT(c)' <=> InT(c)) /\ (Pending(c)' <=> Pending(c))
      <3>1. <<c, heap[c].seq>> # x /\ <<heap[c].exp, c>> # <<heap[a].exp, a>>
        BY <1>4, <2>1
      <3> QED BY <1>2, <1>3, <1>7, <3>1 DEF InT, Pending, Ti!Id
    <2>2. InT(a)' /\ ~ Pending(a)'
      BY <1>2, <1>3, <1>4, <1>7 DEF InT, Pending, Ti!Id
    <2> QED BY <1>2, <2>1, <2>2 DEF InE, Alive
  <1>9. TimerTypes'
    <2>1. timers' \in SUBSET (Nat \X Addrs)
      BY <1>5, <1>7 DEF TimerTypes
    <2>2. actives' \in SUBSET TimerIds
      BY <1>3, <1>7 DEF TimerTypes
    <2>3. armed' \in Nat
      BY <1>5, <1>7 DEF TimerTypes, Ti!FromNow
    <2> QED BY <1>2, <1>3, <2>1, <2>2, <2>3 DEF TimerTypes
  <1>10. HeapInv'
    BY <1>2, <1>8 DEF HeapInv, Ti!Id
  <1>11. IndexInv'
    <2>1. \A e \in timers' \cup expired' : Alive(e[2])' /\ e[1] = heap'[e[2]].exp
      <3>1. \A e \in timers \cup expired : Alive(e[2])' /\ e[1] = heap'[e[2]].exp
        BY <1>2, <1>8 DEF IndexInv, TimerTypes
      <3> QED BY <1>2, <1>6, <1>7, <1>8, <3>1
    <2>2. \A y \in actives' : y[2] = heap'[y[1]].seq
      BY <1>2, <1>4, <1>7 DEF IndexInv
    <2>3. \A c \in Addrs : InT(c)' <=> <<c, heap'[c].seq>> \in actives'
      <3>1. ASSUME NEW c \in Addrs, c # a PROVE InT(c)' <=> <<c, heap'[c].seq>> \in actives'
        BY <1>2, <1>4, <1>7, <1>8, <3>1 DEF IndexInv, Ti!Id
      <3> QED BY <1>2, <1>4, <1>7, <1>8, <3>1
    <2> QED BY <2>1, <2>2, <2>3 DEF IndexInv, Ti!Id
  <1>12. PlaceInv'
    <2>1. \A c \in Addrs : Alive(c)' => InT(c)' \/ InE(c)' \/ c \in ran' \/ Pending(c)'
      BY <1>2, <1>8 DEF PlaceInv
    <2>2. \A c \in Addrs :
            /\ ~ (InT(c)' /\ InE(c)') /\ ~ (InT(c)' /\ c \in ran') /\ ~ (InE(c)' /\ c \in ran')
            /\ Pending(c)' => ~ InT(c)' /\ ~ InE(c)' /\ c \notin ran'
      BY <1>2, <1>6, <1>8 DEF PlaceInv
    <2> QED BY <1>2, <1>8, <2>1, <2>2 DEF PlaceInv, TimerTypes
  <1>13. OpsInv'
    BY <1>2, <1>3 DEF OpsInv
  <1>14. CancelInv'
    <2>1. ASSUME NEW y \in cancelled, y[2] = "callback", NEW c \in Addrs, heap'[c].seq = y[1]
          PROVE  (InE(c)' \/ c \in ran') /\ <<c, heap'[c].seq>> \in canceling'
      BY <1>2, <1>8, <2>1 DEF CancelInv, Ti!Id
    <2>2. /\ \A y \in cancelled' : y[1] \in 1 .. created'
          /\ \A y \in cancelled' : y[2] = "loop" => \A c \in Addrs : heap'[c].seq # y[1]
          /\ \A s \in gone' : \E y \in cancelled' : y[1] = s
          /\ early' = {} /\ \A f \in fired' : "loop" \notin f[2]
      BY <1>2 DEF CancelInv
    <2> QED BY <1>2, <2>1, <2>2 DEF CancelInv, Ti!Id
  <1>15. ArmedInv'
    <2>1. clock \in Nat \ {0} /\ armed \in Nat /\ clock' = clock /\ timers \subseteq Nat \X Addrs
      BY <1>2 DEF TimerTypes
    <2>2. CASE Ti!EarliestChanged(timers, <<heap[a].exp, a>>)
      <3>1. \A e \in timers : heap[a].exp <= e[1] /\ e[1] \in Nat
        <4>1. CASE timers = {}
          BY <4>1
        <4>2. CASE timers # {}
          <5>1. heap[a].exp < Ti!First(timers)[1] /\ Ti!First(timers)[1] \in Nat
            BY <2>1, <2>2, <4>2, FirstLeast DEF Ti!EarliestChanged
          <5> QED BY <1>5, <2>1, <4>2, <5>1, FirstLeast
        <4> QED BY <4>1, <4>2
      <3> QED BY <1>5, <1>7, <2>1, <2>2, <3>1 DEF ArmedInv, Ti!FromNow
    <2>3. CASE ~ Ti!EarliestChanged(timers, <<heap[a].exp, a>>)
      <3>1. PICK e \in timers : e[1] <= heap[a].exp
        <4>1. timers # {} /\ Ti!First(timers) \in timers /\ Ti!First(timers)[1] \in Nat
          BY <2>1, <2>3, FirstLeast DEF Ti!EarliestChanged
        <4> QED BY <1>5, <2>3, <4>1 DEF Ti!EarliestChanged
      <3>2. armed # 0 /\ (armed <= e[1] \/ armed <= clock) /\ e[1] \in Nat
        BY <1>2, <2>1 DEF ArmedInv
      <3>3. armed <= heap[a].exp \/ armed <= clock
        BY <1>5, <2>1, <3>1, <3>2
      <3> QED BY <1>2, <1>7, <2>1, <2>3, <3>2, <3>3 DEF ArmedInv
    <2> QED BY <2>2, <2>3
  <1> QED BY <1>9, <1>10, <1>11, <1>12, <1>13, <1>14, <1>15

\* Another thread asks for a cancel, and time goes on.
LEMMA AskKeeps ==
  ASSUME TimerInv, Ti!Tick \/ \E x \in issued : Ti!Cancel(x)
  PROVE  TimerInv'
  <1> USE DEF TimerInv
  <1>1. /\ UNCHANGED <<heap, timers, actives, canceling, calling, expired, ran, readAt, armed, created,
                       issued, cancelled, fired, gone, early>>
        /\ clock' \in {clock, clock + 1}
    BY DEF Ti!Tick, Ti!Cancel, Ti!queueVars, Ti!history, Ti!bounds
  <1>2. /\ ops' \in Seq(TimerOps) /\ AddedFirst(ops') /\ IdsOf(ops') \subseteq issued
        /\ \A x : HasAdd(ops', x) <=> HasAdd(ops, x)
    <2>1. ops \in Seq(TimerOps) /\ AddedFirst(ops) /\ IdsOf(ops) \subseteq issued
      BY DEF OpsInv, TimerTypes
    <2>2. CASE Ti!Tick
      BY <2>1, <2>2 DEF Ti!Tick
    <2>3. ASSUME NEW x \in issued, Ti!Cancel(x)
          PROVE  /\ ops' \in Seq(TimerOps) /\ AddedFirst(ops') /\ IdsOf(ops') \subseteq issued
                 /\ \A y : HasAdd(ops', y) <=> HasAdd(ops, y)
      <3>1. PICK o \in TimerOps : o = [op |-> "cancel", id |-> x] /\ o.op # "add" /\ o.id = x
        <4>1. x \in TimerIds
          BY DEF TimerTypes
        <4>2. [op |-> "cancel", id |-> x] \in TimerOps
          BY <4>1 DEF TimerOps
        <4>3. [op |-> "cancel", id |-> x].op # "add" /\ [op |-> "cancel", id |-> x].id = x
          OBVIOUS
        <4> QED BY <4>2, <4>3
      <3>2. ops' = Append(ops, o)
        BY <2>3, <3>1 DEF Ti!Cancel
      <3> QED BY <2>1, <3>1, <3>2, OpQueued
    <2> QED BY <2>2, <2>3
  <1>3. \A c \in Addrs : (InT(c)' <=> InT(c)) /\ (InE(c)' <=> InE(c)) /\ (Alive(c)' <=> Alive(c))
                         /\ (Pending(c)' <=> Pending(c))
    BY <1>1, <1>2 DEF InT, InE, Alive, Pending, Ti!Id
  <1>4. TimerTypes'
    BY <1>1, <1>2 DEF TimerTypes
  <1>5. HeapInv' /\ IndexInv'
    BY <1>1, <1>3 DEF HeapInv, IndexInv, Ti!Id, TimerTypes
  <1>6. PlaceInv' /\ OpsInv'
    BY <1>1, <1>2, <1>3 DEF PlaceInv, OpsInv, TimerTypes
  <1>7. CancelInv'
    BY <1>1, <1>3 DEF CancelInv, Ti!Id
  <1>8. ArmedInv'
    BY <1>1 DEF ArmedInv, TimerTypes
  <1> QED BY <1>4, <1>5, <1>6, <1>7, <1>8

-----------------------------------------------------------------------------
(* Timers: handleRead *)

\* The expired timers leave both indices.
LEMMA HandleReadKeeps ==
  ASSUME TimerInv, Ti!HandleRead
  PROVE  TimerInv'
  <1> USE DEF TimerInv
  <1>1. PICK E : E = {e \in timers : e[1] <= clock}
    OBVIOUS
  <1>2. /\ ~ calling /\ calling' = TRUE /\ readAt' = clock /\ armed' = 0 /\ timers' = timers \ E
        /\ actives' = actives \ {Ti!Id(e[2]) : e \in E} /\ expired' = E /\ ran' = {} /\ canceling' = {}
        /\ UNCHANGED <<clock, heap, ops, created, issued, cancelled, fired, gone, early>>
    BY <1>1 DEF Ti!HandleRead, Ti!GetExpired, Ti!Deactivated, Ti!bounds, Ti!history
  <1>3. expired = {} /\ ran = {} /\ E \subseteq timers /\ clock \in Nat
    BY <1>1, <1>2 DEF PlaceInv, TimerTypes
  <1>4. \A c \in Addrs :
          /\ InT(c)' <=> InT(c) /\ <<heap[c].exp, c>> \notin E
          /\ InE(c)' <=> InT(c) /\ <<heap[c].exp, c>> \in E
          /\ Alive(c)' <=> Alive(c)
          /\ Pending(c)' <=> Pending(c)
          /\ ~ InE(c)
    BY <1>2, <1>3 DEF InT, InE, Alive, Pending, Ti!Id
  <1>5. TimerTypes'
    BY <1>2, <1>3 DEF TimerTypes
  <1>6. HeapInv' /\ OpsInv'
    BY <1>2, <1>4 DEF HeapInv, OpsInv, Ti!Id
  <1>7. IndexInv'
    <2>1. \A e \in timers' \cup expired' : Alive(e[2])' /\ e[1] = heap'[e[2]].exp
      BY <1>2, <1>3, <1>4 DEF IndexInv, TimerTypes
    <2>2. \A y \in actives' : y[2] = heap'[y[1]].seq
      BY <1>2 DEF IndexInv
    <2>3. ASSUME NEW c \in Addrs PROVE InT(c)' <=> <<c, heap'[c].seq>> \in actives'
      <3>1. ASSUME NEW e \in E, Ti!Id(e[2]) = <<c, heap[c].seq>> PROVE e = <<heap[c].exp, c>>
        <4>1. e[2] = c /\ e[1] = heap[e[2]].exp /\ e = <<e[1], e[2]>>
          BY <1>3, <3>1 DEF Ti!Id, IndexInv, TimerTypes
        <4> QED BY <4>1
      <3>2. ASSUME <<heap[c].exp, c>> \in E PROVE <<c, heap[c].seq>> \in {Ti!Id(e[2]) : e \in E}
        <4>1. <<heap[c].exp, c>>[2] = c
          OBVIOUS
        <4> QED BY <3>2, <4>1 DEF Ti!Id
      <3>3. <<c, heap[c].seq>> \in {Ti!Id(e[2]) : e \in E} <=> <<heap[c].exp, c>> \in E
        BY <3>1, <3>2
      <3>4. InT(c) <=> <<c, heap[c].seq>> \in actives
        BY DEF IndexInv, Ti!Id
      <3> QED BY <1>2, <1>4, <3>3, <3>4
    <2> QED BY <2>1, <2>2, <2>3 DEF IndexInv, Ti!Id
  <1>8. PlaceInv'
    <2>1. \A c \in Addrs : Alive(c)' => InT(c)' \/ InE(c)' \/ c \in ran' \/ Pending(c)'
      BY <1>2, <1>3, <1>4 DEF PlaceInv
    <2>2. \A c \in Addrs :
            /\ ~ (InT(c)' /\ InE(c)') /\ ~ (InT(c)' /\ c \in ran') /\ ~ (InE(c)' /\ c \in ran')
            /\ Pending(c)' => ~ InT(c)' /\ ~ InE(c)' /\ c \notin ran'
      BY <1>2, <1>4 DEF PlaceInv
    <2>3. \A e \in expired' : e[1] <= readAt'
      BY <1>1, <1>2
    <2> QED BY <1>2, <2>1, <2>2, <2>3 DEF PlaceInv
  <1>9. CancelInv'
    <2>1. ASSUME NEW y \in cancelled, y[2] = "callback", NEW c \in Addrs, heap'[c].seq = y[1] PROVE FALSE
      BY <1>2, <1>3, <1>4, <2>1 DEF CancelInv
    <2>2. /\ \A y \in cancelled' : y[1] \in 1 .. created'
          /\ \A y \in cancelled' : y[2] = "loop" => \A c \in Addrs : heap'[c].seq # y[1]
          /\ \A s \in gone' : \E y \in cancelled' : y[1] = s
          /\ early' = {} /\ \A f \in fired' : "loop" \notin f[2]
      BY <1>2 DEF CancelInv
    <2> QED BY <1>2, <2>1, <2>2 DEF CancelInv
  <1>10. ArmedInv'
    BY <1>2 DEF ArmedInv
  <1> QED BY <1>5, <1>6, <1>7, <1>8, <1>9, <1>10

\* reset inserts the repeating timers again, deletes the others and arms the timerfd.
LEMMA ResetKeeps ==
  ASSUME TimerInv, Ti!Reset
  PROVE  TimerInv'
  <1> USE DEF TimerInv
  <1>1. PICK A : A = {a \in ran : Ti!Again(a)}
    OBVIOUS
  <1>2. PICK new : new = {<<readAt + heap[a].every, a>> : a \in A}
    OBVIOUS
  <1>3. /\ calling /\ calling' = FALSE /\ expired = {} /\ expired' = {} /\ ran' = {}
        /\ heap' = [a \in Addrs |-> IF a \in A THEN [heap[a] EXCEPT !.exp = readAt + heap[a].every]
                                    ELSE IF a \in ran THEN Ti!Free ELSE heap[a]]
        /\ timers' = timers \cup new
        /\ actives' = actives \cup {Ti!Id(a) : a \in A}
        /\ armed' = Ti!NextArmed(timers \cup new)
        /\ UNCHANGED <<clock, canceling, readAt, ops, created, issued, cancelled, fired, gone, early>>
    BY <1>1, <1>2 DEF Ti!Reset, Ti!bounds, Ti!history
  <1>4. A \subseteq ran /\ ran \subseteq Addrs /\ readAt \in Nat
    BY <1>1 DEF TimerTypes
  <1>5. ASSUME NEW c \in Addrs
        PROVE  /\ c \in A => heap'[c] = [seq |-> heap[c].seq, exp |-> readAt + heap[c].every,
                                         every |-> heap[c].every]
               /\ c \in ran \ A => heap'[c] = Ti!Free
               /\ c \notin ran => heap'[c] = heap[c]
               /\ heap'[c] \in TimerRecs
    <2>1. heap[c] \in TimerRecs
      BY DEF TimerTypes
    <2>2. /\ c \in A => heap'[c] = [heap[c] EXCEPT !.exp = readAt + heap[c].every]
          /\ c \in ran \ A => heap'[c] = Ti!Free
          /\ c \notin ran => heap'[c] = heap[c]
      BY <1>3, <1>4
    <2>3. [heap[c] EXCEPT !.exp = readAt + heap[c].every]
            = [seq |-> heap[c].seq, exp |-> readAt + heap[c].every, every |-> heap[c].every]
      BY <2>1 DEF TimerRecs
    <2> QED BY <1>4, <2>1, <2>2, <2>3 DEF TimerRecs, Ti!Free
  <1>6. \A c \in Addrs :
          /\ c \in A => heap'[c].seq = heap[c].seq /\ heap'[c].exp = readAt + heap[c].every
          /\ c \in ran \ A => heap'[c].seq = 0 /\ heap'[c].exp = 0
          /\ c \in ran => Alive(c) /\ ~ InT(c) /\ ~ Pending(c)
          /\ ~ InE(c)
    BY <1>3, <1>5 DEF Ti!Free, PlaceInv, InE
  <1>7. /\ \A e \in new : e[2] \in A /\ e[1] = readAt + heap[e[2]].every /\ e \in Nat \X Addrs
        /\ \A c \in A : <<readAt + heap[c].every, c>> \in new
    BY <1>2, <1>4 DEF TimerTypes, TimerRecs
  <1>8. \A e \in timers : e[2] \in Addrs /\ e[2] \notin ran /\ e[1] = heap[e[2]].exp /\ Alive(e[2])
    <2> SUFFICES ASSUME NEW e \in timers
                 PROVE  e[2] \in Addrs /\ e[2] \notin ran /\ e[1] = heap[e[2]].exp /\ Alive(e[2])
      OBVIOUS
    <2>1. e[2] \in Addrs /\ e = <<e[1], e[2]>> /\ e[1] = heap[e[2]].exp /\ Alive(e[2])
      BY DEF IndexInv, TimerTypes
    <2>2. InT(e[2])
      BY <2>1 DEF InT
    <2> QED BY <1>6, <2>1, <2>2
  <1>9. ASSUME NEW c \in Addrs
        PROVE  /\ c \in A => InT(c)' /\ Alive(c)'
               /\ c \in ran \ A => ~ InT(c)' /\ ~ Alive(c)'
               /\ c \notin ran => (InT(c)' <=> InT(c)) /\ (Alive(c)' <=> Alive(c))
               /\ Pending(c)' => Pending(c) /\ c \notin ran
               /\ c \notin ran => (Pending(c)' <=> Pending(c))
               /\ ~ InE(c)'
    <2>1. c \in A => InT(c)' /\ Alive(c)'
      <3> SUFFICES ASSUME c \in A PROVE InT(c)' /\ Alive(c)'
        OBVIOUS
      <3>1. heap'[c].seq = heap[c].seq /\ heap'[c].exp = readAt + heap[c].every /\ Alive(c)
        BY <1>4, <1>6
      <3>2. <<readAt + heap[c].every, c>> \in timers'
        BY <1>3, <1>7
      <3> QED BY <3>1, <3>2 DEF InT, Alive
    <2>2. c \in ran \ A => ~ InT(c)' /\ ~ Alive(c)'
      <3> SUFFICES ASSUME c \in ran \ A PROVE ~ InT(c)' /\ ~ Alive(c)'
        OBVIOUS
      <3>1. \A e \in timers' : e[2] # c
        BY <1>3, <1>7, <1>8
      <3>2. <<heap'[c].exp, c>> \notin timers'
        BY <3>1
      <3>3. heap'[c].seq = 0
        BY <1>6
      <3> QED BY <3>2, <3>3 DEF InT, Alive
    <2>3. c \notin ran => (InT(c)' <=> InT(c)) /\ (Alive(c)' <=> Alive(c)) /\ (Pending(c)' <=> Pending(c))
      BY <1>3, <1>4, <1>5, <1>7 DEF InT, Alive, Pending, Ti!Id
    <2>4. ASSUME Pending(c)' PROVE c \notin ran
      <3>1. HasAdd(ops, <<c, heap'[c].seq>>)
        BY <1>3, <2>4 DEF Pending, Ti!Id
      <3>2. <<c, heap'[c].seq>> \in issued
        BY <3>1 DEF HasAdd, OpsInv, IdsOf
      <3>3. heap'[c].seq \in 1 .. created /\ created \in Nat
        BY <3>2 DEF HeapInv, TimerTypes
      <3>4. c \in ran => c \in A
        BY <1>6, <3>3
      <3>5. c \in A => Pending(c)
        BY <1>6, <3>1 DEF Pending, Ti!Id
      <3> QED BY <1>6, <3>4, <3>5
    <2> QED BY <1>3, <2>1, <2>2, <2>3, <2>4 DEF InE
  <1>10. TimerTypes'
    <2>1. heap' \in [Addrs -> TimerRecs]
      BY <1>3, <1>5
    <2>2. timers' \in SUBSET (Nat \X Addrs)
      BY <1>3, <1>7 DEF TimerTypes
    <2>3. actives' \in SUBSET TimerIds
      BY <1>3, <1>4 DEF TimerTypes, Ti!Id, TimerIds, TimerRecs
    <2>4. armed' \in Nat
      <3>1. timers \cup new \subseteq Nat \X Addrs
        BY <1>7 DEF TimerTypes
      <3>2. timers \cup new # {} => Ti!First(timers \cup new)[1] \in Nat
        BY <3>1, FirstLeast
      <3> QED BY <1>3, <3>2 DEF Ti!NextArmed, Ti!FromNow, TimerTypes
    <2> QED BY <1>3, <2>1, <2>2, <2>3, <2>4 DEF TimerTypes
  <1>11. HeapInv'
    <2>1. \A c \in Addrs : heap'[c].seq = 0 => heap'[c] = Ti!Free
      <3> SUFFICES ASSUME NEW c \in Addrs, heap'[c].seq = 0 PROVE heap'[c] = Ti!Free
        OBVIOUS
      <3>1. CASE c \in A
        <4>1. heap[c].seq > 0 /\ heap'[c].seq = heap[c].seq
          BY <1>4, <1>6, <3>1 DEF Alive
        <4> QED BY <4>1
      <3>2. CASE c \in ran \ A
        BY <1>5, <3>2
      <3>3. CASE c \notin ran
        BY <1>5, <3>3 DEF HeapInv
      <3> QED BY <1>4, <3>1, <3>2, <3>3
    <2>2. ASSUME NEW c \in Addrs, Alive(c)' PROVE <<c, heap'[c].seq>> \in issued'
      <3>1. heap'[c].seq = heap[c].seq /\ Alive(c)
        BY <1>4, <1>5, <1>6, <1>9, <2>2
      <3> QED BY <1>3, <3>1 DEF HeapInv, Ti!Id
    <2> QED BY <1>3, <2>1, <2>2 DEF HeapInv, Ti!Id
  <1>12. IndexInv'
    <2>1. \A e \in timers' \cup expired' : Alive(e[2])' /\ e[1] = heap'[e[2]].exp
      <3>1. \A e \in timers : Alive(e[2])' /\ e[1] = heap'[e[2]].exp
        BY <1>5, <1>8, <1>9
      <3>2. \A e \in new : Alive(e[2])' /\ e[1] = heap'[e[2]].exp
        BY <1>4, <1>6, <1>7, <1>9
      <3> QED BY <1>3, <3>1, <3>2
    <2>2. \A c \in A : <<c, heap'[c].seq>> = Ti!Id(c)
      BY <1>4, <1>6 DEF Ti!Id
    <2>3. \A y \in actives : y[1] \in Addrs /\ y[1] \notin ran /\ y[2] = heap[y[1]].seq
      <3> SUFFICES ASSUME NEW y \in actives
                   PROVE  y[1] \in Addrs /\ y[1] \notin ran /\ y[2] = heap[y[1]].seq
        OBVIOUS
      <3>1. y[1] \in Addrs /\ y = <<y[1], y[2]>> /\ y[2] = heap[y[1]].seq
        BY DEF IndexInv, TimerTypes, TimerIds
      <3>2. InT(y[1])
        BY <3>1 DEF IndexInv, Ti!Id
      <3> QED BY <1>6, <3>1, <3>2
    <2>4. \A y \in actives' : y[2] = heap'[y[1]].seq
      <3>1. \A y \in actives : y[2] = heap'[y[1]].seq
        BY <1>5, <2>3
      <3>2. \A c \in A : Ti!Id(c)[1] = c /\ Ti!Id(c)[2] = heap'[c].seq
        BY <1>4, <1>6 DEF Ti!Id
      <3> QED BY <1>3, <3>1, <3>2
    <2>5. ASSUME NEW c \in Addrs PROVE InT(c)' <=> <<c, heap'[c].seq>> \in actives'
      <3>1. CASE c \in A
        <4>1. <<c, heap'[c].seq>> \in {Ti!Id(a) : a \in A}
          BY <2>2, <3>1
        <4> QED BY <1>3, <1>9, <3>1, <4>1
      <3>2. CASE c \in ran \ A
        <4>1. \A y \in actives' : y[1] # c
          BY <1>3, <2>3, <3>2 DEF Ti!Id
        <4> QED BY <1>9, <3>2, <4>1
      <3>3. CASE c \notin ran
        <4>1. \A b \in A : Ti!Id(b) # <<c, heap[c].seq>>
          BY <1>4, <3>3 DEF Ti!Id
        <4> QED BY <1>3, <1>5, <1>9, <3>3, <4>1 DEF IndexInv, Ti!Id
      <3> QED BY <3>1, <3>2, <3>3
    <2> QED BY <2>1, <2>4, <2>5 DEF IndexInv, Ti!Id
  <1>13. PlaceInv'
    <2>1. \A c \in Addrs : Alive(c)' => InT(c)' \/ Pending(c)'
      BY <1>6, <1>9 DEF PlaceInv
    <2>2. \A c \in Addrs : Pending(c)' => ~ InT(c)'
      BY <1>9 DEF PlaceInv
    <2> QED BY <1>3, <1>9, <2>1, <2>2 DEF PlaceInv
  <1>14. OpsInv'
    <2>1. ASSUME NEW x \in issued, HasAdd(ops, x) PROVE x[2] = heap'[x[1]].seq
      <3>1. x[1] \in Addrs /\ x = <<x[1], x[2]>> /\ x[2] = heap[x[1]].seq
        BY <2>1 DEF OpsInv, TimerTypes, TimerIds
      <3>2. Pending(x[1])
        BY <2>1, <3>1 DEF Pending, Ti!Id
      <3> QED BY <1>5, <1>6, <3>1, <3>2
    <2> QED BY <1>3, <2>1 DEF OpsInv
  <1>15. CancelInv'
    <2>1. \A y \in cancelled : y[1] \in 1 .. created /\ created \in Nat
      BY DEF CancelInv, TimerTypes
    <2>2. ASSUME NEW y \in cancelled, NEW c \in Addrs, heap'[c].seq = y[1]
          PROVE  heap[c].seq = y[1] /\ (c \in ran => Ti!Id(c) \notin canceling)
      <3>1. c \notin ran \/ c \in A
        BY <1>6, <2>1, <2>2
      <3> QED BY <1>1, <1>5, <1>6, <2>2, <3>1 DEF Ti!Again
    <2>3. \A y \in cancelled : y[2] = "loop" => \A c \in Addrs : heap'[c].seq # y[1]
      BY <2>2 DEF CancelInv
    <2>4. ASSUME NEW y \in cancelled, y[2] = "callback", NEW c \in Addrs, heap'[c].seq = y[1] PROVE FALSE
      BY <1>6, <2>2, <2>4 DEF CancelInv
    <2>5. /\ \A s \in gone' : \E y \in cancelled' : y[1] = s
          /\ early' = {} /\ \A f \in fired' : "loop" \notin f[2]
      BY <1>3 DEF CancelInv
    <2> QED BY <1>3, <2>1, <2>3, <2>4, <2>5 DEF CancelInv
  <1>16. ArmedInv'
    <2>1. PICK T \in SUBSET (Nat \X Addrs) : T = timers \cup new
      <3>1. timers \subseteq Nat \X Addrs
        BY DEF TimerTypes
      <3> QED BY <1>7, <3>1
    <2>2. ASSUME NEW e \in T PROVE armed' # 0 /\ (armed' <= e[1] \/ armed' <= clock)
      <3>1. PICK f \in T : f = Ti!First(T) /\ f[1] <= e[1]
        BY <2>1, FirstLeast
      <3>2. armed' = IF f[1] > clock THEN f[1] ELSE clock
        BY <1>3, <2>1, <3>1 DEF Ti!NextArmed, Ti!FromNow
      <3>3. f[1] \in Nat /\ e[1] \in Nat /\ clock \in Nat \ {0}
        BY <2>1 DEF TimerTypes
      <3> QED BY <3>1, <3>2, <3>3
    <2> QED BY <1>3, <2>1, <2>2 DEF ArmedInv
  <1> QED BY <1>10, <1>11, <1>12, <1>13, <1>14, <1>15, <1>16

-----------------------------------------------------------------------------
(* Timers: the theorem *)

\* The ids callers hold, or are about to, are those of timers that were created.
HeldInv == held \subseteq issued /\ reading \subseteq issued

\* A step that leaves the queue, its timers and its functors alone.
LEMMA StillKeeps ==
  ASSUME TimerInv,
         UNCHANGED <<clock, heap, timers, actives, canceling, calling, expired, ran, readAt, armed, ops,
                     created, issued, cancelled, fired, gone, early>>
  PROVE  TimerInv'
  <1>1. \A c \in Addrs : (InT(c)' <=> InT(c)) /\ (InE(c)' <=> InE(c)) /\ (Alive(c)' <=> Alive(c))
                         /\ (Pending(c)' <=> Pending(c))
    BY DEF InT, InE, Alive, Pending, Ti!Id
  <1>2. TimerTypes' /\ HeapInv' /\ IndexInv'
    BY <1>1 DEF TimerInv, TimerTypes, HeapInv, IndexInv, Ti!Id
  <1>3. PlaceInv' /\ OpsInv' /\ ArmedInv'
    BY <1>1 DEF TimerInv, TimerTypes, PlaceInv, OpsInv, ArmedInv
  <1>4. CancelInv'
    BY <1>1 DEF TimerInv, CancelInv, Ti!Id
  <1> QED BY <1>2, <1>3, <1>4 DEF TimerInv

LEMMA TimerStep ==
  ASSUME TimerInv, HeldInv, Ti!Next \/ UNCHANGED timerVars
  PROVE  TimerInv'
  <1>1. CASE \E x \in reading : Ti!ReadSequence(x)
    <2>1. UNCHANGED <<clock, heap, timers, actives, canceling, calling, expired, ran, readAt, armed, ops,
                      created, issued, cancelled, fired, gone, early>>
      BY <1>1 DEF Ti!ReadSequence, Ti!queueVars, Ti!history
    <2> QED BY <2>1, StillKeeps
  <1>2. CASE Ti!Next /\ ~ \E x \in reading : Ti!ReadSequence(x)
    BY <1>2, AskKeeps, AddKeeps, RunAddKeeps, CancelKeeps, HandleReadKeeps, CallbackKeeps, ResetKeeps
       DEF HeldInv, Ti!Next, Ti!LoopStep, Ti!RunCallback
  <1>3. CASE UNCHANGED timerVars
    BY <1>3, StillKeeps DEF timerVars
  <1> QED BY <1>1, <1>2, <1>3

\* A creator that reads the number late gets that of a timer all the same.
LEMMA HeldStep ==
  ASSUME TimerInv, HeldInv, Ti!Next \/ UNCHANGED timerVars
  PROVE  HeldInv'
  <1>1. ASSUME NEW x \in reading, Ti!ReadSequence(x) PROVE HeldInv'
    <2>1. x \in issued /\ x[1] \in Addrs
      BY DEF HeldInv, TimerInv, TimerTypes, TimerIds
    <2>2. heap[x[1]] # Ti!Free => Ti!Id(x[1]) \in issued
      <3>1. heap[x[1]].seq \in Nat
        BY <2>1 DEF TimerInv, TimerTypes, TimerRecs
      <3> QED BY <2>1, <3>1 DEF TimerInv, HeapInv, Alive
    <2> QED BY <1>1, <2>1, <2>2 DEF Ti!ReadSequence, HeldInv
  <1>2. ASSUME NEW b \in Addrs, NEW d \in Delays, NEW i \in {0} \cup Delays, Ti!AddTimer(b, d, i)
        PROVE  HeldInv'
    BY <1>2 DEF Ti!AddTimer, Ti!New, HeldInv
  <1>3. ASSUME NEW a \in Addrs, NEW b \in Addrs, NEW d \in Delays, NEW i \in {0} \cup Delays,
               Ti!CallbackAdds(a, b, d, i)
        PROVE  HeldInv'
    BY <1>3 DEF Ti!CallbackAdds, Ti!New, HeldInv
  <1>4. CASE \/ Ti!Tick \/ Ti!RunAdd \/ Ti!RunCancel \/ Ti!HandleRead \/ Ti!Reset
             \/ \E x \in held : Ti!Cancel(x)
             \/ \E a \in Addrs : Ti!Callback(a) \/ \E x \in held : Ti!CallbackCancels(a, x)
             \/ UNCHANGED timerVars
    <2>1. UNCHANGED <<issued, reading, held>>
      BY <1>4 DEF Ti!Tick, Ti!RunAdd, Ti!RunCancel, Ti!HandleRead, Ti!Reset, Ti!Cancel, Ti!Callback,
                  Ti!CallbackCancels, Ti!bounds, timerVars
    <2> QED BY <2>1 DEF HeldInv
  <1> QED BY <1>1, <1>2, <1>3, <1>4 DEF Ti!Next, Ti!LoopStep, Ti!RunCallback

LEMMA TimerStart ==
  ASSUME Ti!Init
  PROVE  TimerInv /\ HeldInv
  <1> USE DEF Ti!Init
  <1>1. \A a \in Addrs : heap[a].seq = 0 /\ heap[a] = Ti!Free
    BY DEF Ti!Free
  <1>2. TimerTypes
    <2>1. heap \in [Addrs -> TimerRecs]
      BY DEF TimerRecs, Ti!Free
    <2>2. ops \in Seq(TimerOps)
      OBVIOUS
    <2>3. /\ clock \in Nat \ {0} /\ readAt \in Nat /\ readAt <= clock /\ armed \in Nat /\ created \in Nat
      OBVIOUS
    <2>5. calling \in BOOLEAN
      BY Zenon
    <2>4. timers = {} /\ actives = {} /\ canceling = {} /\ expired = {} /\ ran = {} /\ issued = {}
          /\ cancelled = {}
      OBVIOUS
    <2> HIDE DEF Ti!Init
    <2> QED BY <2>1, <2>2, <2>3, <2>4, <2>5 DEF TimerTypes
  <1>3. \A x : ~ HasAdd(ops, x)
    BY DEF HasAdd
  <1>4. HeapInv /\ IndexInv
    BY <1>1 DEF HeapInv, IndexInv, InT, Alive
  <1>5. PlaceInv /\ CancelInv /\ ArmedInv
    BY <1>1, <1>3 DEF PlaceInv, CancelInv, ArmedInv, InT, InE, Alive, Pending
  <1>6. OpsInv
    BY <1>3 DEF OpsInv, AddedFirst, IdsOf
  <1> QED BY <1>2, <1>4, <1>5, <1>6 DEF TimerInv, HeldInv

\* activeTimers_ has as many entries as timers_.
LEMMA SameSize ==
  ASSUME TimerInv
  PROVE  actives = {Ti!Id(e[2]) : e \in timers} /\ Cardinality(actives) = Cardinality(timers)
  <1> USE DEF TimerInv
  <1>1. \A e \in timers : e = <<e[1], e[2]>> /\ e[2] \in Addrs /\ e[1] = heap[e[2]].exp
    BY DEF IndexInv, TimerTypes
  <1>2. \A e \in timers : Ti!Id(e[2]) \in actives
    BY <1>1 DEF IndexInv, InT
  <1>3. ASSUME NEW x \in actives PROVE \E e \in timers : x = Ti!Id(e[2])
    <2>1. x[1] \in Addrs /\ x = Ti!Id(x[1])
      BY DEF IndexInv, TimerTypes, TimerIds, Ti!Id
    <2>2. InT(x[1]) /\ <<heap[x[1]].exp, x[1]>>[2] = x[1]
      BY <2>1 DEF IndexInv
    <2> QED BY <2>1, <2>2 DEF InT
  <1> DEFINE Places == [a \in Addrs |-> <<heap[a].exp, a>>]
             P == {Places[a] : a \in Addrs}
             F == [e \in timers |-> Ti!Id(e[2])]
  <1>4. IsFiniteSet(timers)
    <2>1. Places \in Surjection(Addrs, P)
      BY DEF Surjection
    <2>2. IsFiniteSet(P)
      BY <2>1, FS_Surjection, TimerSettings, Zenon
    <2>3. timers \in SUBSET P
      BY <1>1
    <2> QED BY <2>2, <2>3, FS_Subset, Zenon
  <1>5. F \in Bijection(timers, actives)
    <2>1. F \in [timers -> actives]
      BY <1>2
    <2>2. \A e, f \in timers : F[e] = F[f] => e = f
      BY <1>1 DEF Ti!Id
    <2>3. \A x \in actives : \E e \in timers : F[e] = x
      BY <1>3
    <2> QED BY <2>1, <2>2, <2>3 DEF Bijection, Injection, Surjection, IsInjective
  <1>6. Cardinality(actives) = Cardinality(timers)
    <2>1. ExistsBijection(timers, actives)
      BY <1>5 DEF ExistsBijection
    <2> QED BY <1>4, <2>1, FS_Bijection, Zenon
  <1> QED BY <1>2, <1>3, <1>6

LEMMA TimerGoal ==
  ASSUME TimerInv
  PROVE  Ti!TimersSound
  <1>1. Ti!IndicesAgree
    <2>1. \A e \in timers : heap[e[2]] # Ti!Free /\ heap[e[2]].exp = e[1]
      BY DEF TimerInv, IndexInv, Alive, Ti!Free
    <2>2. actives = {Ti!Id(e[2]) : e \in timers} /\ Cardinality(actives) = Cardinality(timers)
      BY SameSize, Zenon
    <2>3. \A S : Ti!Cardinality(S) = Cardinality(S)
      BY DEF Ti!Cardinality, Cardinality
    <2> QED BY <2>1, <2>2, <2>3 DEF Ti!IndicesAgree
  <1> USE DEF TimerInv
  <1>2. Ti!ArmedForFirst
    <2> SUFFICES ASSUME ~ calling, timers # {} PROVE armed # 0 /\ armed <= Ti!FromNow(Ti!First(timers)[1])
      BY DEF Ti!ArmedForFirst
    <2>1. PICK e \in timers : e = Ti!First(timers)
      BY FirstLeast DEF TimerTypes
    <2>2. armed # 0 /\ (armed <= e[1] \/ armed <= clock) /\ e[1] \in Nat /\ clock \in Nat /\ armed \in Nat
      BY DEF ArmedInv, TimerTypes
    <2> QED BY <2>1, <2>2 DEF Ti!FromNow
  <1>3. Ti!CancelIsFinal
    <2>1. ASSUME ~ calling, NEW x \in cancelled, x[2] # "overtook", NEW e \in timers, heap[e[2]].seq = x[1]
          PROVE  FALSE
      <3>1. e[2] \in Addrs /\ x[2] \in Wheres
        BY DEF TimerTypes
      <3>2. x[2] = "callback"
        BY <2>1, <3>1 DEF CancelInv, Wheres
      <3> QED BY <2>1, <3>1, <3>2 DEF CancelInv, PlaceInv, InE
    <2> QED BY <2>1 DEF Ti!CancelIsFinal, CancelInv
  <1>4. Ti!CancelHitsItsOwn
    BY DEF Ti!CancelHitsItsOwn, Ti!CancelledBy, CancelInv
  <1>5. Ti!NeverEarly
    BY DEF Ti!NeverEarly, CancelInv
  <1> QED BY <1>1, <1>2, <1>3, <1>4, <1>5 DEF Ti!TimersSound

\* TimerQueue, for any number of timers, threads and cancels: activeTimers_ and timers_ name the same
\* living timers, the timerfd is armed early enough for the first of them, cancel is final, a timer
\* is deleted only by a cancel of its own id, and no callback runs before its time.
THEOREM TimersStand == Spec => []TimersSound
  <1> DEFINE Inv == part = "timers" => TimerInv /\ HeldInv
  <1>1. Init => Inv
    BY TimerStart DEF Init
  <1>2. Inv /\ [Next]_allVars => Inv'
    <2> SUFFICES ASSUME Inv, [Next]_allVars, part' = "timers" PROVE TimerInv' /\ HeldInv'
      OBVIOUS
    <2>1. part = "timers" /\ (Ti!Next \/ UNCHANGED timerVars)
      BY DEF Next, Steps, allVars
    <2> QED BY <2>1, TimerStep, HeldStep
  <1>3. Inv => TimersSound
    BY TimerGoal DEF TimersSound
  <1> QED BY <1>1, <1>2, <1>3, PTL DEF Spec

-----------------------------------------------------------------------------
(* Connections: functors that wait, as sequences *)

\* A functor, and the stages of a connection and of its channel.
Msgs == {None} \cup ({"chat", "reply"} \X Nat)
Fns == [fn : {"established", "send", "remove", "destroyed"}, conn : Conns,
        msg : Msgs, late : BOOLEAN]

\* The functors a loop has not run, of the batch b with d done and those in p.
Left(b, d, p) == SubSeq(b, d + 1, Len(b)) \o p

\* Functor f waits on loop l for a connection of the right stage: st, ix, lo and
\* rem are the stages, the channels' indices, the loops and who was removed.
Fit(l, f, st, ix, lo, rem) ==
  /\ f \in Fns
  /\ f.fn = "established" => lo[f.conn] = l /\ st[f.conn] = "Connecting"
  /\ f.fn = "remove" => l = Base /\ st[f.conn] = "Disconnected" /\ f.conn \notin rem
  /\ f.fn = "destroyed" => /\ lo[f.conn] = l /\ st[f.conn] = "Disconnected"
                           /\ f.conn \in rem /\ ix[f.conn] = "deleted"
  /\ f.fn = "send" => lo[f.conn] = l /\ st[f.conn] \in {"open", "Disconnected"}

Fitting(r, st, ix, lo, rem) ==
  \A l \in Co!Loops : \A i \in 1 .. Len(r[l]) : Fit(l, r[l][i], st, ix, lo, rem)

\* A connection is held by one functor at most.
Alone(r) ==
  \A l, m \in Co!Loops : \A i \in 1 .. Len(r[l]), j \in 1 .. Len(r[m]) :
    r[l][i].conn = r[m][j].conn /\ r[l][i].fn # "send" /\ r[m][j].fn # "send"
      => l = m /\ i = j

\* Behind place i of q, c is destroyed.
Ends(q, i, c) == \E j \in 1 .. Len(q) : j > i /\ q[j].fn = "destroyed" /\ q[j].conn = c

\* connectDestroyed waits for who was removed, behind every send in time.
Behind(r, ix, lo, rem) ==
  /\ \A c \in rem : ix[c] # "new" => Ends(r[lo[c]], 0, c)
  /\ \A l \in Co!Loops : \A i \in 1 .. Len(r[l]) :
       r[l][i].fn = "send" /\ ~ r[l][i].late /\ r[l][i].conn \in rem =>
         Ends(r[l], i, r[l][i].conn)

Queues == [Co!Loops -> Seq(Fns)]

\* What is left when a functor is pushed, run, swapped out, or the batch ends.
LEMMA LeftPush ==
  ASSUME NEW b \in Seq(Fns), NEW p \in Seq(Fns), NEW d \in 0 .. Len(b), NEW f \in Fns
  PROVE  Left(b, d, Append(p, f)) = Append(Left(b, d, p), f) /\ Left(b, d, p) \in Seq(Fns)
  <1>1. SubSeq(b, d + 1, Len(b)) \in Seq(Fns)
    OBVIOUS
  <1>2. PICK s \in Seq(Fns) : s = SubSeq(b, d + 1, Len(b))
    BY <1>1
  <1>3. s \o Append(p, f) = Append(s \o p, f) /\ s \o p \in Seq(Fns)
    OBVIOUS
  <1> QED  BY <1>2, <1>3 DEF Left

\* Running the next functor of a batch takes it off the head.
LEMMA LeftRan ==
  ASSUME NEW b \in Seq(Fns), NEW p \in Seq(Fns), NEW d \in Nat, d < Len(b)
  PROVE  /\ Left(b, d, p) # <<>> /\ Left(b, d, p)[1] = b[d + 1]
         /\ Left(b, d + 1, p) = Tail(Left(b, d, p))
         /\ Left(b, d, p) \in Seq(Fns)
  <1>1. /\ SubSeq(b, d + 1, Len(b)) \in Seq(Fns)
        /\ Len(SubSeq(b, d + 1, Len(b))) = Len(b) - d
        /\ \A i \in 1 .. Len(b) - d : SubSeq(b, d + 1, Len(b))[i] = b[d + i]
    OBVIOUS
  <1>0. /\ SubSeq(b, d + 1 + 1, Len(b)) \in Seq(Fns)
        /\ Len(SubSeq(b, d + 1 + 1, Len(b))) = Len(b) - (d + 1)
        /\ \A i \in 1 .. Len(b) - (d + 1) : SubSeq(b, d + 1 + 1, Len(b))[i] = b[d + 1 + i]
    OBVIOUS
  <1>2. PICK s \in Seq(Fns) : s = SubSeq(b, d + 1, Len(b))
    BY <1>1
  <1>5. PICK t \in Seq(Fns) : t = SubSeq(b, d + 1 + 1, Len(b))
    BY <1>0
  <1>6. t = Tail(s)
    <2>1. Len(s) = Len(b) - d /\ \A i \in 1 .. Len(b) - d : s[i] = b[d + i]
      BY <1>1, <1>2
    <2>2. /\ Len(t) = Len(b) - (d + 1)
          /\ \A i \in 1 .. Len(b) - (d + 1) : t[i] = b[d + 1 + i]
      BY <1>0, <1>5
    <2>3. Len(b) \in Nat
      OBVIOUS
    <2>4. /\ Tail(s) \in Seq(Fns) /\ Len(Tail(s)) = Len(s) - 1
          /\ \A i \in 1 .. Len(s) - 1 : Tail(s)[i] = s[i + 1]
      BY <2>1, <2>3
    <2>5. Len(t) = Len(Tail(s)) /\ \A i \in 1 .. Len(t) : t[i] = Tail(s)[i]
      BY <2>1, <2>2, <2>3, <2>4
    <2> QED  BY <2>4, <2>5, SeqEqual
  <1>3. /\ s # <<>> /\ s[1] = b[d + 1] /\ SubSeq(b, d + 1 + 1, Len(b)) = Tail(s)
    <2>1. Len(s) = Len(b) - d /\ (\A i \in 1 .. Len(b) - d : s[i] = b[d + i]) /\ Len(b) \in Nat
      BY <1>1, <1>2
    <2>2. Len(s) > 0 /\ s[1] = b[d + 1]
      BY <2>1
    <2>3. s # <<>>
      BY <2>2
    <2> QED  BY <1>5, <1>6, <2>2, <2>3, Zenon
  <1>4. /\ s \o p # <<>> /\ (s \o p)[1] = s[1] /\ Tail(s \o p) = Tail(s) \o p
        /\ s \o p \in Seq(Fns)
    BY <1>3
  <1> QED  BY <1>2, <1>3, <1>4 DEF Left

\* A batch of none, one that ended, one just swapped out.
LEMMA LeftEmpty ==
  ASSUME NEW b \in Seq(Fns), NEW p \in Seq(Fns)
  PROVE  /\ Left(<<>>, 0, p) = p /\ Left(b, Len(b), p) = p
         /\ Left(p, 0, <<>>) = p
  <1>1. SubSeq(b, Len(b) + 1, Len(b)) = <<>>
    OBVIOUS
  <1>2. SubSeq(p, 1, Len(p)) = p
    OBVIOUS
  <1>3. SubSeq(<<>>, 1, 0) = <<>>
    OBVIOUS
  <1>4. <<>> \o p = p /\ p \o <<>> = p
    OBVIOUS
  <1> QED  BY <1>1, <1>2, <1>3, <1>4 DEF Left

-----------------------------------------------------------------------------
(* Connections: what pushing and running do to waiting functors *)

Pushed(r, l, f) == [r EXCEPT ![l] = Append(r[l], f)]
Popped(r, l) == [r EXCEPT ![l] = Tail(r[l])]

\* Of connection c only sends wait.
NoHold(r, c) ==
  \A l \in Co!Loops : \A i \in 1 .. Len(r[l]) : r[l][i].conn = c => r[l][i].fn = "send"

\* A push lengthens one queue by its last functor.
LEMMA PushIs ==
  ASSUME NEW r \in Queues, NEW l \in Co!Loops, NEW f \in Fns, NEW r2, r2 = Pushed(r, l, f)
  PROVE  /\ r2 \in Queues /\ \A m \in Co!Loops : m # l => r2[m] = r[m]
         /\ Len(r[l]) \in Nat /\ Len(r2[l]) = Len(r[l]) + 1
         /\ \A i \in 1 .. Len(r[l]) : r2[l][i] = r[l][i]
         /\ r2[l][Len(r[l]) + 1] = f
  <1>1. r[l] \in Seq(Fns)
    BY DEF Queues
  <1>2. PICK q \in Seq(Fns) : q = r[l]
    BY <1>1
  <1>3. /\ Append(q, f) \in Seq(Fns) /\ Len(q) \in Nat /\ Len(Append(q, f)) = Len(q) + 1
        /\ \A i \in 1 .. Len(q) : Append(q, f)[i] = q[i]
        /\ Append(q, f)[Len(q) + 1] = f
    OBVIOUS
  <1>4. /\ r2 \in Queues /\ r2[l] = Append(q, f) /\ \A m \in Co!Loops : m # l => r2[m] = r[m]
    BY <1>2, <1>3 DEF Queues, Pushed
  <1> QED  BY <1>2, <1>3, <1>4

\* A pop takes the first functor off one queue.
LEMMA PopIs ==
  ASSUME NEW r \in Queues, NEW l \in Co!Loops, r[l] # <<>>, NEW r2, r2 = Popped(r, l)
  PROVE  /\ r2 \in Queues /\ \A m \in Co!Loops : m # l => r2[m] = r[m]
         /\ Len(r[l]) \in Nat /\ Len(r[l]) >= 1 /\ Len(r2[l]) = Len(r[l]) - 1
         /\ \A i \in 1 .. Len(r2[l]) : i + 1 \in 1 .. Len(r[l]) /\ r2[l][i] = r[l][i + 1]
  <1>1. r[l] \in Seq(Fns)
    BY DEF Queues
  <1>2. PICK q \in Seq(Fns) : q = r[l]
    BY <1>1
  <1>3. /\ Tail(q) \in Seq(Fns) /\ Len(q) \in Nat /\ Len(q) >= 1 /\ Len(Tail(q)) = Len(q) - 1
        /\ \A i \in 1 .. Len(q) - 1 : i + 1 \in 1 .. Len(q) /\ Tail(q)[i] = q[i + 1]
    BY <1>2
  <1>4. /\ r2 \in Queues /\ r2[l] = Tail(q) /\ \A m \in Co!Loops : m # l => r2[m] = r[m]
    BY <1>2, <1>3 DEF Queues, Popped
  <1> QED  BY <1>2, <1>3, <1>4

\* Pushing a functor that fits, every one fits.
LEMMA PushFits ==
  ASSUME NEW r \in Queues, NEW l \in Co!Loops, NEW f \in Fns, NEW r2, r2 = Pushed(r, l, f),
         NEW st, NEW ix, NEW lo, NEW rem, Fitting(r, st, ix, lo, rem), Fit(l, f, st, ix, lo, rem)
  PROVE  Fitting(r2, st, ix, lo, rem)
  <1> SUFFICES ASSUME NEW m \in Co!Loops, NEW i \in 1 .. Len(r2[m])
               PROVE  Fit(m, r2[m][i], st, ix, lo, rem)
    BY DEF Fitting
  <1>1. CASE m # l
    BY <1>1, PushIs DEF Fitting
  <1>2. CASE m = l
    <2>1. /\ Len(r[l]) \in Nat /\ Len(r2[l]) = Len(r[l]) + 1
          /\ \A k \in 1 .. Len(r[l]) : r2[l][k] = r[l][k]
          /\ r2[l][Len(r[l]) + 1] = f
      BY PushIs
    <2> QED  BY <1>2, <2>1 DEF Fitting
  <1> QED  BY <1>1, <1>2

\* Those that are left still fit.
LEMMA PopFits ==
  ASSUME NEW r \in Queues, NEW l \in Co!Loops, r[l] # <<>>, NEW r2, r2 = Popped(r, l),
         NEW st, NEW ix, NEW lo, NEW rem, Fitting(r, st, ix, lo, rem)
  PROVE  Fitting(r2, st, ix, lo, rem) /\ Fit(l, r[l][1], st, ix, lo, rem)
  <1>1. /\ \A m \in Co!Loops : m # l => r2[m] = r[m]
        /\ Len(r[l]) \in Nat /\ Len(r[l]) >= 1 /\ Len(r2[l]) = Len(r[l]) - 1
        /\ \A i \in 1 .. Len(r2[l]) : i + 1 \in 1 .. Len(r[l]) /\ r2[l][i] = r[l][i + 1]
    BY PopIs
  <1>2. ASSUME NEW m \in Co!Loops, NEW i \in 1 .. Len(r2[m])
        PROVE  Fit(m, r2[m][i], st, ix, lo, rem)
    BY <1>1, Zenon DEF Fitting
  <1>3. 1 \in 1 .. Len(r[l])
    BY <1>1
  <1> QED  BY <1>2, <1>3 DEF Fitting

\* A functor for a connection that none holds may be pushed.
LEMMA PushAlone ==
  ASSUME NEW r \in Queues, NEW l \in Co!Loops, NEW f \in Fns, NEW r2, r2 = Pushed(r, l, f),
         Alone(r), f.fn = "send" \/ NoHold(r, f.conn)
  PROVE  Alone(r2)
  <1>1. /\ \A m \in Co!Loops : m # l => r2[m] = r[m]
        /\ Len(r[l]) \in Nat /\ Len(r2[l]) = Len(r[l]) + 1
        /\ \A i \in 1 .. Len(r[l]) : r2[l][i] = r[l][i]
        /\ r2[l][Len(r[l]) + 1] = f
    BY PushIs
  <1> SUFFICES ASSUME NEW m \in Co!Loops, NEW n \in Co!Loops,
                      NEW i \in 1 .. Len(r2[m]), NEW j \in 1 .. Len(r2[n]),
                      r2[m][i].conn = r2[n][j].conn, r2[m][i].fn # "send", r2[n][j].fn # "send"
               PROVE  m = n /\ i = j
    BY DEF Alone
  <1>2. ASSUME NEW k \in Co!Loops, NEW h \in 1 .. Len(r2[k])
        PROVE  (h \in 1 .. Len(r[k]) /\ r2[k][h] = r[k][h]) \/ (k = l /\ h = Len(r[l]) + 1 /\ r2[k][h] = f)
    BY <1>1
  <1>3. CASE i \in 1 .. Len(r[m]) /\ r2[m][i] = r[m][i] /\ j \in 1 .. Len(r[n]) /\ r2[n][j] = r[n][j]
    BY <1>3 DEF Alone
  <1>4. CASE ~ (i \in 1 .. Len(r[m]) /\ r2[m][i] = r[m][i])
    BY <1>2, <1>4, ZenonT(40) DEF NoHold
  <1>5. CASE ~ (j \in 1 .. Len(r[n]) /\ r2[n][j] = r[n][j])
    BY <1>2, <1>5, SMTT(30) DEF NoHold
  <1> QED  BY <1>3, <1>4, <1>5

\* Once the functor that held a connection ran, none holds it.
LEMMA PopAlone ==
  ASSUME NEW r \in Queues, NEW l \in Co!Loops, r[l] # <<>>, NEW r2, r2 = Popped(r, l), Alone(r)
  PROVE  Alone(r2) /\ (r[l][1].fn # "send" => NoHold(r2, r[l][1].conn))
  <1>1. /\ \A m \in Co!Loops : m # l => r2[m] = r[m]
        /\ Len(r[l]) \in Nat /\ Len(r[l]) >= 1 /\ Len(r2[l]) = Len(r[l]) - 1
        /\ \A i \in 1 .. Len(r2[l]) : i + 1 \in 1 .. Len(r[l]) /\ r2[l][i] = r[l][i + 1]
    BY PopIs
  <1>2. ASSUME NEW k \in Co!Loops, NEW h \in 1 .. Len(r2[k])
        PROVE  \/ k # l /\ h \in 1 .. Len(r[k]) /\ r2[k][h] = r[k][h]
               \/ k = l /\ h + 1 \in 1 .. Len(r[k]) /\ r2[k][h] = r[k][h + 1]
    BY <1>1
  <1>3. ASSUME NEW m \in Co!Loops, NEW n \in Co!Loops,
               NEW i \in 1 .. Len(r2[m]), NEW j \in 1 .. Len(r2[n]),
               r2[m][i].conn = r2[n][j].conn, r2[m][i].fn # "send", r2[n][j].fn # "send"
        PROVE  m = n /\ i = j
    <2>1. PICK a \in 1 .. Len(r[m]) : r2[m][i] = r[m][a] /\ a = IF m = l THEN i + 1 ELSE i
      BY <1>2
    <2>2. PICK b \in 1 .. Len(r[n]) : r2[n][j] = r[n][b] /\ b = IF n = l THEN j + 1 ELSE j
      BY <1>2
    <2>3. m = n /\ a = b
      <3>1. r[m][a].conn = r[n][b].conn /\ r[m][a].fn # "send" /\ r[n][b].fn # "send"
        BY <1>3, <2>1, <2>2
      <3> QED  BY <3>1 DEF Alone
    <2> QED  BY <2>1, <2>2, <2>3
  <1>4. ASSUME r[l][1].fn # "send", NEW k \in Co!Loops, NEW h \in 1 .. Len(r2[k]),
               r2[k][h].conn = r[l][1].conn
        PROVE  r2[k][h].fn = "send"
    <2>1. PICK a \in 1 .. Len(r[k]) : r2[k][h] = r[k][a] /\ a = IF k = l THEN h + 1 ELSE h
      BY <1>2
    <2>2. 1 \in 1 .. Len(r[l]) /\ ~ (k = l /\ a = 1)
      BY <1>1, <2>1
    <2>3. r[k][a].conn = r[l][1].conn
      BY <1>4, <2>1
    <2>4. r[k][a].fn = "send"
      BY <1>4, <2>2, <2>3 DEF Alone
    <2> QED  BY <2>1, <2>4
  <1>5. Alone(r2)
    BY <1>3 DEF Alone
  <1> QED  BY <1>4, <1>5 DEF NoHold

\* connectDestroyed stays behind the sends when a functor is pushed.
LEMMA PushBehind ==
  ASSUME NEW r \in Queues, NEW l \in Co!Loops, NEW f \in Fns, NEW r2, r2 = Pushed(r, l, f),
         NEW ix, NEW lo, NEW rem, Behind(r, ix, lo, rem), \A c \in rem : lo[c] \in Co!Loops,
         f.fn = "send" => f.late \/ f.conn \notin rem
  PROVE  Behind(r2, ix, lo, rem)
  <1>1. /\ \A m \in Co!Loops : m # l => r2[m] = r[m]
        /\ Len(r[l]) \in Nat /\ Len(r2[l]) = Len(r[l]) + 1
        /\ \A i \in 1 .. Len(r[l]) : r2[l][i] = r[l][i]
        /\ r2[l][Len(r[l]) + 1] = f
    BY PushIs
  <1>2. ASSUME NEW m \in Co!Loops, NEW i, NEW c, Ends(r[m], i, c) PROVE Ends(r2[m], i, c)
    <2>1. PICK j \in 1 .. Len(r[m]) : j > i /\ r[m][j].fn = "destroyed" /\ r[m][j].conn = c
      BY <1>2 DEF Ends
    <2>2. j \in 1 .. Len(r2[m]) /\ r2[m][j] = r[m][j]
      BY <1>1
    <2> QED  BY <2>1, <2>2 DEF Ends
  <1>3. ASSUME NEW c \in rem, ix[c] # "new" PROVE Ends(r2[lo[c]], 0, c)
    BY <1>2, <1>3 DEF Behind
  <1>4. ASSUME NEW m \in Co!Loops, NEW i \in 1 .. Len(r2[m]),
               r2[m][i].fn = "send", ~ r2[m][i].late, r2[m][i].conn \in rem
        PROVE  Ends(r2[m], i, r2[m][i].conn)
    <2>1. i \in 1 .. Len(r[m]) /\ r2[m][i] = r[m][i]
      BY <1>1, <1>4
    <2>2. Ends(r[m], i, r2[m][i].conn)
      BY <1>4, <2>1 DEF Behind
    <2> QED  BY <1>2, <2>2
  <1> QED  BY <1>3, <1>4, Zenon DEF Behind

\* When connectDestroyed is pushed, its connection counts as removed.
LEMMA RemoveBehind ==
  ASSUME NEW r \in Queues, NEW f \in Fns, NEW r2,
         NEW st, NEW ix, NEW lo, NEW rem, Fitting(r, st, ix, lo, rem), Behind(r, ix, lo, rem),
         NEW c \in Conns, \A d \in rem \cup {c} : lo[d] \in Co!Loops,
         r2 = Pushed(r, lo[c], f), f.fn = "destroyed", f.conn = c
  PROVE  Behind(r2, ix, lo, rem \cup {c})
  <1>0. PICK l \in Co!Loops : l = lo[c]
    OBVIOUS
  <1>1. /\ \A m \in Co!Loops : m # l => r2[m] = r[m]
        /\ Len(r[l]) \in Nat /\ Len(r2[l]) = Len(r[l]) + 1
        /\ \A i \in 1 .. Len(r[l]) : r2[l][i] = r[l][i]
        /\ r2[l][Len(r[l]) + 1] = f
    BY <1>0, PushIs
  <1>2. Behind(r2, ix, lo, rem)
    BY <1>0, PushBehind
  <1>3. ASSUME NEW i \in Int, i <= Len(r[l]) PROVE Ends(r2[l], i, c)
    <2>1. Len(r[l]) + 1 \in 1 .. Len(r2[l]) /\ Len(r[l]) + 1 > i
      BY <1>1, <1>3
    <2> QED  BY <1>1, <2>1 DEF Ends
  <1>4. ASSUME NEW m \in Co!Loops, NEW i \in 1 .. Len(r2[m]),
               r2[m][i].fn = "send", r2[m][i].conn = c
        PROVE  Ends(r2[m], i, c)
    <2>1. i \in 1 .. Len(r[m]) /\ r2[m][i] = r[m][i]
      BY <1>1, <1>4
    <2>2. Fit(m, r[m][i], st, ix, lo, rem)
      BY <2>1 DEF Fitting
    <2>3. m = l
      BY <1>0, <1>4, <2>1, <2>2 DEF Fit
    <2> QED  BY <1>1, <1>3, <2>1, <2>3
  <1>5. Ends(r2[lo[c]], 0, c)
    BY <1>0, <1>1, <1>3
  <1> QED  BY <1>2, <1>4, <1>5 DEF Behind

\* The functor in front is run; connectDestroyed takes the channel out.
LEMMA PopBehind ==
  ASSUME NEW r \in Queues, NEW l \in Co!Loops, r[l] # <<>>, NEW r2, r2 = Popped(r, l),
         NEW ix, NEW ix2, NEW lo, NEW rem, Behind(r, ix, lo, rem),
         \A c \in rem : lo[c] \in Co!Loops,
         \A c \in rem : ix2[c] # "new" =>
           ix[c] # "new" /\ ~ (r[l][1].fn = "destroyed" /\ r[l][1].conn = c)
  PROVE  Behind(r2, ix2, lo, rem)
  <1>1. /\ \A m \in Co!Loops : m # l => r2[m] = r[m]
        /\ Len(r[l]) \in Nat /\ Len(r[l]) >= 1 /\ Len(r2[l]) = Len(r[l]) - 1
        /\ \A i \in 1 .. Len(r2[l]) : i + 1 \in 1 .. Len(r[l]) /\ r2[l][i] = r[l][i + 1]
    BY PopIs
  <1>2. ASSUME NEW i \in Nat, NEW c, Ends(r[l], i, c),
               i >= 1 \/ ~ (r[l][1].fn = "destroyed" /\ r[l][1].conn = c),
               NEW k \in Nat, k <= i, i >= 1 => k < i
        PROVE  Ends(r2[l], k, c)
    <2>1. PICK j \in 1 .. Len(r[l]) : j > i /\ r[l][j].fn = "destroyed" /\ r[l][j].conn = c
      BY <1>2 DEF Ends
    <2>2. j - 1 \in 1 .. Len(r2[l]) /\ j - 1 > k /\ j = (j - 1) + 1
      BY <1>1, <1>2, <2>1
    <2>3. r2[l][j - 1] = r[l][j]
      BY <1>1, <2>2
    <2> QED  BY <2>1, <2>2, <2>3 DEF Ends
  <1>3. ASSUME NEW c \in rem, ix2[c] # "new" PROVE Ends(r2[lo[c]], 0, c)
    <2>1. Ends(r[lo[c]], 0, c) /\ ~ (r[l][1].fn = "destroyed" /\ r[l][1].conn = c)
      BY <1>3 DEF Behind
    <2>2. CASE lo[c] = l
      BY <1>2, <2>1, <2>2
    <2>3. CASE lo[c] # l
      BY <1>1, <2>1, <2>3
    <2> QED  BY <2>2, <2>3
  <1>4. ASSUME NEW m \in Co!Loops, NEW i \in 1 .. Len(r2[m]),
               r2[m][i].fn = "send", ~ r2[m][i].late, r2[m][i].conn \in rem
        PROVE  Ends(r2[m], i, r2[m][i].conn)
    <2>1. CASE m # l
      BY <1>1, <1>4, <2>1 DEF Behind
    <2>2. CASE m = l
      <3>1. i + 1 \in 1 .. Len(r[l]) /\ r2[l][i] = r[l][i + 1] /\ i \in Nat /\ i + 1 \in Nat
        BY <1>1, <2>2
      <3>2. Ends(r[l], i + 1, r2[l][i].conn)
        BY <1>4, <2>2, <3>1 DEF Behind
      <3> QED  BY <1>2, <2>2, <3>1, <3>2
    <2> QED  BY <2>1, <2>2
  <1> QED  BY <1>3, <1>4, Zenon DEF Behind

\* From st, ix, lo, rem to their successors only c has moved, and not out of reach
\* of a send.
Moves(c, st, ix, lo, rem, st2, ix2, lo2, rem2) ==
  /\ \A d \in Conns \ {c} : /\ st2[d] = st[d] /\ ix2[d] = ix[d] /\ lo2[d] = lo[d]
                            /\ d \in rem2 <=> d \in rem
  /\ st[c] = "none" \/ (lo2[c] = lo[c] /\ st2[c] \in {"open", "Disconnected"})

\* A connection's stage may change when only sends, or nothing, wait for it.
LEMMA MoveFits ==
  ASSUME NEW r, NEW st, NEW ix, NEW lo, NEW rem, Fitting(r, st, ix, lo, rem),
         NEW st2, NEW ix2, NEW lo2, NEW rem2, NEW c \in Conns, NoHold(r, c),
         Moves(c, st, ix, lo, rem, st2, ix2, lo2, rem2)
  PROVE  Fitting(r, st2, ix2, lo2, rem2)
  <1> SUFFICES ASSUME NEW l \in Co!Loops, NEW i \in 1 .. Len(r[l])
               PROVE  Fit(l, r[l][i], st2, ix2, lo2, rem2)
    BY DEF Fitting
  <1>1. PICK f : f = r[l][i]
    OBVIOUS
  <1>2. Fit(l, f, st, ix, lo, rem) /\ (f.conn = c => f.fn = "send")
    BY <1>1, Zenon DEF Fitting, NoHold
  <1>3. f.conn \in Conns /\ f \in Fns
    BY <1>2 DEF Fit, Fns
  <1>4. Fit(l, f, st2, ix2, lo2, rem2)
    BY <1>2, <1>3 DEF Fit, Moves
  <1> QED  BY <1>1, <1>4

\* A connection not yet accepted, or open, is held by none.
LEMMA StageNoHold ==
  ASSUME NEW r, NEW st, NEW ix, NEW lo, NEW rem, Fitting(r, st, ix, lo, rem),
         NEW c \in Conns, st[c] \in {"none", "open"}
  PROVE  NoHold(r, c)
  <1> SUFFICES ASSUME NEW l \in Co!Loops, NEW i \in 1 .. Len(r[l]), r[l][i].conn = c
               PROVE  r[l][i].fn = "send"
    BY DEF NoHold
  <1>1. PICK f : f = r[l][i]
    OBVIOUS
  <1>2. Fit(l, f, st, ix, lo, rem) /\ f.conn = c
    BY <1>1, Zenon DEF Fitting
  <1> QED  BY <1>1, <1>2 DEF Fit, Fns

\* Who moves on leaves the order of the removed ones.
LEMMA MoveBehind ==
  ASSUME NEW r, NEW ix, NEW lo, NEW rem, Behind(r, ix, lo, rem), NEW ix2, NEW lo2,
         \A c \in rem : lo2[c] = lo[c] /\ ix2[c] = ix[c]
  PROVE  Behind(r, ix2, lo2, rem)
  BY DEF Behind

-----------------------------------------------------------------------------
(* Connections: the steps of their lives, seen from the functors *)

Orderly(r, st, ix, lo, rem) ==
  /\ r \in Queues
  /\ Fitting(r, st, ix, lo, rem)
  /\ Alone(r)
  /\ Behind(r, ix, lo, rem)
  /\ \A c \in rem : c \in Conns /\ lo[c] \in Co!Loops /\ st[c] = "Disconnected"

\* newConnection queues connectEstablished.
LEMMA OrderlyNew ==
  ASSUME NEW r, NEW st, NEW ix, NEW lo, NEW rem, Orderly(r, st, ix, lo, rem),
         NEW c \in Conns, st[c] = "none", NEW io \in Co!Loops, NEW f \in Fns,
         f.fn = "established", f.conn = c, NEW st2, NEW lo2,
         st2[c] = "Connecting", lo2[c] = io,
         \A d \in Conns \ {c} : st2[d] = st[d] /\ lo2[d] = lo[d]
  PROVE  Orderly(Pushed(r, io, f), st2, ix, lo2, rem)
  <1>1. r \in Queues /\ NoHold(r, c) /\ c \notin rem
    BY StageNoHold DEF Orderly
  <1>2. Fitting(r, st2, ix, lo2, rem)
    BY <1>1, MoveFits DEF Orderly, Moves
  <1>3. Behind(r, ix, lo2, rem) /\ \A d \in rem : d \in Conns /\ lo2[d] \in Co!Loops /\ st2[d] = "Disconnected"
    BY <1>1, MoveBehind DEF Orderly
  <1>4. Fit(io, f, st2, ix, lo2, rem)
    BY DEF Fit
  <1>5. PICK r2 : r2 = Pushed(r, io, f)
    OBVIOUS
  <1>6. r2 \in Queues /\ Fitting(r2, st2, ix, lo2, rem)
    BY <1>1, <1>2, <1>4, <1>5, PushIs, PushFits
  <1>7. Alone(r2)
    BY <1>1, <1>5, PushAlone DEF Orderly
  <1>8. Behind(r2, ix, lo2, rem)
    BY <1>1, <1>3, <1>5, PushBehind
  <1> QED  BY <1>3, <1>5, <1>6, <1>7, <1>8, Zenon DEF Orderly

\* connectEstablished runs.
LEMMA OrderlyUp ==
  ASSUME NEW r, NEW st, NEW ix, NEW lo, NEW rem, Orderly(r, st, ix, lo, rem),
         NEW l \in Co!Loops, r[l] # <<>>, r[l][1].fn = "established",
         NEW c \in Conns, c = r[l][1].conn, NEW st2, NEW ix2, st2[c] = "open",
         \A d \in Conns \ {c} : st2[d] = st[d] /\ ix2[d] = ix[d]
  PROVE  Orderly(Popped(r, l), st2, ix2, lo, rem) /\ st[c] = "Connecting"
  <1>1. PICK r2 : r2 = Popped(r, l)
    OBVIOUS
  <1>2. r \in Queues /\ r2 \in Queues
    BY <1>1, PopIs DEF Orderly
  <1>3. Fitting(r2, st, ix, lo, rem) /\ Fit(l, r[l][1], st, ix, lo, rem)
    BY <1>1, <1>2, PopFits DEF Orderly
  <1>4. Alone(r2) /\ NoHold(r2, c)
    BY <1>1, <1>2, PopAlone DEF Orderly
  <1>5. st[c] = "Connecting" /\ c \notin rem
    BY <1>3 DEF Fit, Orderly
  <1>6. Fitting(r2, st2, ix2, lo, rem)
    <2>1. Moves(c, st, ix, lo, rem, st2, ix2, lo, rem)
      BY DEF Moves
    <2> QED  BY <1>3, <1>4, <2>1, MoveFits, Zenon
  <1>7. Behind(r2, ix2, lo, rem)
    BY <1>1, <1>2, <1>5, PopBehind DEF Orderly
  <1>8. \A d \in rem : d \in Conns /\ lo[d] \in Co!Loops /\ st2[d] = "Disconnected"
    BY <1>5 DEF Orderly
  <1> QED  BY <1>1, <1>2, <1>4, <1>5, <1>6, <1>7, <1>8, Zenon DEF Orderly

\* handleClose queues removeConnectionInLoop.
LEMMA OrderlyDown ==
  ASSUME NEW r, NEW st, NEW ix, NEW lo, NEW rem, Orderly(r, st, ix, lo, rem),
         NEW c \in Conns, st[c] = "open", NEW f \in Fns, f.fn = "remove", f.conn = c,
         Base \in Co!Loops, NEW st2, NEW ix2, st2[c] = "Disconnected",
         \A d \in Conns \ {c} : st2[d] = st[d] /\ ix2[d] = ix[d]
  PROVE  Orderly(Pushed(r, Base, f), st2, ix2, lo, rem)
  <1>1. r \in Queues /\ NoHold(r, c) /\ c \notin rem
    BY StageNoHold DEF Orderly
  <1>2. Fitting(r, st2, ix2, lo, rem)
    BY <1>1, MoveFits DEF Orderly, Moves
  <1>3. Behind(r, ix2, lo, rem) /\ \A d \in rem : d \in Conns /\ lo[d] \in Co!Loops /\ st2[d] = "Disconnected"
    BY <1>1, MoveBehind DEF Orderly
  <1>4. Fit(Base, f, st2, ix2, lo, rem)
    BY <1>1 DEF Fit
  <1>5. PICK r2 : r2 = Pushed(r, Base, f)
    OBVIOUS
  <1>6. r2 \in Queues /\ Fitting(r2, st2, ix2, lo, rem)
    BY <1>1, <1>2, <1>4, <1>5, PushIs, PushFits
  <1>7. Alone(r2)
    BY <1>1, <1>5, PushAlone DEF Orderly
  <1>8. Behind(r2, ix2, lo, rem)
    BY <1>1, <1>3, <1>5, PushBehind
  <1> QED  BY <1>3, <1>5, <1>6, <1>7, <1>8, Zenon DEF Orderly

\* removeConnectionInLoop runs and queues connectDestroyed.
LEMMA OrderlyRemove ==
  ASSUME NEW r, NEW st, NEW ix, NEW lo, NEW rem, Orderly(r, st, ix, lo, rem),
         NEW l \in Co!Loops, r[l] # <<>>, r[l][1].fn = "remove",
         NEW c \in Conns, c = r[l][1].conn, lo[c] \in Co!Loops, ix[c] = "deleted",
         NEW f \in Fns, f.fn = "destroyed", f.conn = c
  PROVE  /\ Orderly(Pushed(Popped(r, l), lo[c], f), st, ix, lo, rem \cup {c})
         /\ l = Base /\ st[c] = "Disconnected" /\ c \notin rem
  <1>1. PICK r2 : r2 = Popped(r, l)
    OBVIOUS
  <1>2. r \in Queues /\ r2 \in Queues
    BY <1>1, PopIs DEF Orderly
  <1>3. Fitting(r2, st, ix, lo, rem) /\ Fit(l, r[l][1], st, ix, lo, rem)
    BY <1>1, <1>2, PopFits DEF Orderly
  <1>4. Alone(r2) /\ NoHold(r2, c)
    BY <1>1, <1>2, PopAlone DEF Orderly
  <1>5. l = Base /\ st[c] = "Disconnected" /\ c \notin rem
    BY <1>3 DEF Fit
  <1>6. Behind(r2, ix, lo, rem)
    BY <1>1, <1>2, PopBehind DEF Orderly
  <1>7. PICK r3 : r3 = Pushed(r2, lo[c], f)
    OBVIOUS
  <1>8. \A d \in rem \cup {c} : d \in Conns /\ lo[d] \in Co!Loops /\ st[d] = "Disconnected"
    BY <1>5 DEF Orderly
  <1>9. Behind(r3, ix, lo, rem \cup {c})
    BY <1>2, <1>3, <1>6, <1>7, <1>8, RemoveBehind
  <1>10. Fitting(r2, st, ix, lo, rem \cup {c})
    BY <1>3, <1>4, <1>5, MoveFits, Zenon DEF Moves
  <1>11. Fit(lo[c], f, st, ix, lo, rem \cup {c})
    BY <1>5 DEF Fit
  <1>12. r3 \in Queues /\ Fitting(r3, st, ix, lo, rem \cup {c}) /\ Alone(r3)
    BY <1>2, <1>4, <1>7, <1>10, <1>11, PushIs, PushFits, PushAlone
  <1> QED  BY <1>1, <1>5, <1>7, <1>8, <1>9, <1>12, Zenon DEF Orderly

\* connectDestroyed runs: the channel is taken out of the poller.
LEMMA OrderlyGone ==
  ASSUME NEW r, NEW st, NEW ix, NEW lo, NEW rem, Orderly(r, st, ix, lo, rem),
         NEW l \in Co!Loops, r[l] # <<>>, r[l][1].fn = "destroyed",
         NEW c \in Conns, c = r[l][1].conn, NEW ix2, ix2[c] = "new",
         \A d \in Conns \ {c} : ix2[d] = ix[d]
  PROVE  /\ Orderly(Popped(r, l), st, ix2, lo, rem)
         /\ st[c] = "Disconnected" /\ c \in rem /\ lo[c] = l
  <1>1. PICK r2 : r2 = Popped(r, l)
    OBVIOUS
  <1>2. r \in Queues /\ r2 \in Queues
    BY <1>1, PopIs DEF Orderly
  <1>3. Fitting(r2, st, ix, lo, rem) /\ Fit(l, r[l][1], st, ix, lo, rem)
    BY <1>1, <1>2, PopFits DEF Orderly
  <1>4. Alone(r2) /\ NoHold(r2, c)
    BY <1>1, <1>2, PopAlone DEF Orderly
  <1>5. st[c] = "Disconnected" /\ c \in rem /\ lo[c] = l
    BY <1>3 DEF Fit
  <1>6. Fitting(r2, st, ix2, lo, rem)
    <2>1. Moves(c, st, ix, lo, rem, st, ix2, lo, rem)
      BY <1>5 DEF Moves
    <2> QED  BY <1>3, <1>4, <2>1, MoveFits, Zenon
  <1>7. Behind(r2, ix2, lo, rem)
    BY <1>1, <1>2, <1>5, PopBehind DEF Orderly
  <1> QED  BY <1>1, <1>2, <1>4, <1>5, <1>6, <1>7, Zenon DEF Orderly

\* A queued sendInLoop runs: unless it was late, its connection is held.
LEMMA OrderlySent ==
  ASSUME NEW r, NEW st, NEW ix, NEW lo, NEW rem, Orderly(r, st, ix, lo, rem),
         NEW l \in Co!Loops, r[l] # <<>>, r[l][1].fn = "send"
  PROVE  /\ Orderly(Popped(r, l), st, ix, lo, rem) /\ Fit(l, r[l][1], st, ix, lo, rem)
         /\ r[l][1].conn \in rem /\ ~ r[l][1].late => Ends(r[l], 0, r[l][1].conn)
  <1>1. PICK r2 : r2 = Popped(r, l)
    OBVIOUS
  <1>2. r \in Queues /\ r2 \in Queues /\ 1 \in 1 .. Len(r[l])
    BY <1>1, PopIs DEF Orderly
  <1>3. Fitting(r2, st, ix, lo, rem) /\ Fit(l, r[l][1], st, ix, lo, rem)
    BY <1>1, <1>2, PopFits DEF Orderly
  <1>4. Alone(r2)
    BY <1>1, <1>2, PopAlone DEF Orderly
  <1>5. Behind(r2, ix, lo, rem)
    BY <1>1, <1>2, PopBehind DEF Orderly
  <1>6. r[l][1].conn \in rem /\ ~ r[l][1].late => Ends(r[l], 0, r[l][1].conn)
    BY <1>2 DEF Orderly, Behind, Ends
  <1> QED  BY <1>1, <1>2, <1>3, <1>4, <1>5, <1>6, Zenon DEF Orderly

\* send queues sendInLoop.
LEMMA OrderlySend ==
  ASSUME NEW r, NEW st, NEW ix, NEW lo, NEW rem, Orderly(r, st, ix, lo, rem),
         NEW c \in Conns, lo[c] \in Co!Loops, st[c] \in {"open", "Disconnected"},
         NEW f \in Fns, f.fn = "send", f.conn = c, f.late = (c \in rem)
  PROVE  Orderly(Pushed(r, lo[c], f), st, ix, lo, rem)
  <1>1. PICK r2 : r2 = Pushed(r, lo[c], f)
    OBVIOUS
  <1>2. Fit(lo[c], f, st, ix, lo, rem)
    BY DEF Fit
  <1>3. r2 \in Queues /\ Fitting(r2, st, ix, lo, rem) /\ Alone(r2)
    BY <1>1, <1>2, PushIs, PushFits, PushAlone DEF Orderly
  <1>4. Behind(r2, ix, lo, rem)
    BY <1>1, PushBehind, Zenon DEF Orderly
  <1> QED  BY <1>1, <1>3, <1>4, Zenon DEF Orderly

-----------------------------------------------------------------------------
(* Connections: the state *)

Io == Co!Range(IoLoops)

LoopTypes ==
  /\ phase \in [Co!Loops -> {"boot", "poll", "events", "functors"}]
  /\ wake \in [Co!Loops -> BOOLEAN]
  /\ pending \in [Co!Loops -> Seq(Fns)]
  /\ batch \in [Co!Loops -> Seq(Fns)]
  /\ done \in [Co!Loops -> Nat]
  /\ owes \in [Co!Threads -> Co!Loops \cup {None}]
  /\ active \in [Co!Loops -> SUBSET (Conns \X {"accept", "in", "out"})]

\* The batch is there while it is run, the active channels while they are handled.
BatchInv ==
  \A l \in Co!Loops :
    /\ done[l] <= Len(batch[l])
    /\ phase[l] # "functors" => batch[l] = <<>> /\ done[l] = 0
    /\ phase[l] # "events" => active[l] = {}

\* A loop that is not handling channels will be woken up for what is pending.
WakeInv ==
  \A l \in Co!Loops :
    phase[l] # "events" /\ pending[l] # <<>> => wake[l] \/ \E t \in Co!Threads : owes[t] = l

LoopInv == LoopTypes /\ BatchInv /\ WakeInv

\* The functors each loop has not run.
Todo == [l \in Co!Loops |-> Left(batch[l], done[l], pending[l])]

\* The loops are main's and the IO loops.
LEMMA LoopsAre ==
  /\ Base \in Co!Loops /\ Base \notin Io /\ Io \subseteq Co!Loops /\ Co!Loops = {Base} \cup Io
  /\ Co!Threads = Co!Loops \cup Senders /\ None \notin Co!Loops /\ None \notin Conns
  /\ \A i \in 1 .. Len(IoLoops) : IoLoops[i] \in Io
  /\ Len(IoLoops) \in Nat /\ 1 \in 1 .. Len(IoLoops)
  /\ \A t \in Senders : t \notin Co!Loops
  <1>1. PICK S : S = Co!Range(IoLoops)
    OBVIOUS
  <1>2. IoLoops \in Seq(S) /\ IoLoops # <<>>
    BY <1>1, LoopSettings
  <1>3. /\ \A i \in 1 .. Len(IoLoops) : IoLoops[i] \in S
        /\ Len(IoLoops) \in Nat /\ 1 \in 1 .. Len(IoLoops)
    BY <1>2
  <1> QED  BY <1>1, <1>3, LoopSettings DEF Io, Co!Loops, Co!Threads

\* A handler or thread queues functor f on l: push, and owe the wakeup.
LEMMA Queueing ==
  ASSUME LoopTypes, BatchInv, WakeInv, NEW t \in Co!Threads, NEW l \in Co!Loops, NEW f \in Fns,
         owes[t] = None, Co!QueueInLoop(t, l, f), UNCHANGED <<phase, batch, wake>>
  PROVE  /\ WakeInv' /\ pending' \in [Co!Loops -> Seq(Fns)]
         /\ owes' \in [Co!Threads -> Co!Loops \cup {None}]
         /\ pending' = [pending EXCEPT ![l] = Append(@, f)]
         /\ owes' = [owes EXCEPT ![t] = l]
  <1>1. pending' = [pending EXCEPT ![l] = Append(@, f)] /\ owes' = [owes EXCEPT ![t] = l]
    BY DEF Co!QueueInLoop, Co!Push
  <1>2. pending[l] \in Seq(Fns) /\ Append(pending[l], f) \in Seq(Fns)
    BY DEF LoopTypes
  <1>3. /\ pending' \in [Co!Loops -> Seq(Fns)] /\ owes' \in [Co!Threads -> Co!Loops \cup {None}]
    BY <1>1, <1>2 DEF LoopTypes
  <1>4. WakeInv'
    <2> SUFFICES ASSUME NEW m \in Co!Loops, phase[m] # "events", pending'[m] # <<>>
                 PROVE  wake[m] \/ \E u \in Co!Threads : owes'[u] = m
      BY DEF WakeInv
    <2>1. CASE m = l
      BY <1>1, <2>1 DEF LoopTypes
    <2>2. CASE m # l
      <3>1. wake[m] \/ \E u \in Co!Threads : owes[u] = m
        BY <1>1, <2>2 DEF LoopTypes, WakeInv
      <3> QED  BY <1>1, <3>1, LoopsAre DEF LoopTypes
    <2> QED  BY <2>1, <2>2
  <1> QED  BY <1>1, <1>3, <1>4

\* What is left of the loops' functors after a push, a run, or neither.
LEMMA TodoPush ==
  ASSUME LoopTypes, BatchInv, NEW l \in Co!Loops, NEW f \in Fns, UNCHANGED <<batch, done>>,
         pending' = [pending EXCEPT ![l] = Append(@, f)]
  PROVE  Todo' = Pushed(Todo, l, f)
  <1>1. ASSUME NEW m \in Co!Loops PROVE Todo'[m] = Pushed(Todo, l, f)[m]
    <2>1. CASE m # l
      BY <2>1 DEF Todo, Pushed, LoopTypes
    <2>2. CASE m = l
      <3>1. /\ batch[l] \in Seq(Fns) /\ pending[l] \in Seq(Fns) /\ done[l] \in 0 .. Len(batch[l])
        BY DEF LoopTypes, BatchInv
      <3>2. Left(batch[l], done[l], Append(pending[l], f)) = Append(Left(batch[l], done[l], pending[l]), f)
        BY <3>1, LeftPush
      <3> QED  BY <2>2, <3>2 DEF Todo, Pushed, LoopTypes
    <2> QED  BY <2>1, <2>2
  <1> QED  BY <1>1 DEF Todo, Pushed

\* Running a functor takes it off what its loop has not run.
LEMMA TodoRan ==
  ASSUME LoopTypes, BatchInv, NEW l \in Co!Loops, NEW f, Co!IsNext(l, f), Co!Ran(l),
         UNCHANGED batch
  PROVE  /\ pending' = pending => Todo' = Popped(Todo, l)
         /\ \A m \in Co!Loops, g \in Fns :
              m # l /\ pending' = [pending EXCEPT ![m] = Append(@, g)] =>
                Todo' = Pushed(Popped(Todo, l), m, g)
         /\ Todo[l] # <<>> /\ f = Todo[l][1] /\ f \in Fns
         /\ done' \in [Co!Loops -> Nat]
         /\ \A m \in Co!Loops : done'[m] <= Len(batch[m]) /\ (phase[m] # "functors" => done'[m] = done[m])
  <1>1. /\ batch[l] \in Seq(Fns) /\ pending[l] \in Seq(Fns) /\ done[l] \in Nat /\ done[l] < Len(batch[l])
        /\ f = batch[l][done[l] + 1] /\ done' = [done EXCEPT ![l] = done[l] + 1]
        /\ phase[l] = "functors"
    BY DEF LoopTypes, Co!IsNext, Co!Ran
  <1>2. /\ Left(batch[l], done[l], pending[l]) # <<>>
        /\ Left(batch[l], done[l], pending[l])[1] = f
        /\ Left(batch[l], done[l] + 1, pending[l]) = Tail(Left(batch[l], done[l], pending[l]))
    BY <1>1, LeftRan
  <1>3. f \in Fns
    BY <1>1
  <1>4. Todo[l] # <<>> /\ f = Todo[l][1]
    BY <1>2 DEF Todo
  <1>5. ASSUME pending' = pending PROVE Todo' = Popped(Todo, l)
    BY <1>1, <1>2, <1>5, Zenon DEF Todo, Popped, LoopTypes
  <1>6. ASSUME NEW m \in Co!Loops, NEW g \in Fns, m # l,
               pending' = [pending EXCEPT ![m] = Append(@, g)]
        PROVE  Todo' = Pushed(Popped(Todo, l), m, g)
    <2>1. /\ batch[m] \in Seq(Fns) /\ pending[m] \in Seq(Fns) /\ done[m] \in 0 .. Len(batch[m])
      BY DEF LoopTypes, BatchInv
    <2>2. Left(batch[m], done[m], Append(pending[m], g)) = Append(Left(batch[m], done[m], pending[m]), g)
      BY <2>1, LeftPush
    <2> QED  BY <1>1, <1>2, <1>6, <2>2, Zenon DEF Todo, Popped, Pushed, LoopTypes
  <1>7. done' \in [Co!Loops -> Nat]
    BY <1>1 DEF LoopTypes
  <1>8. \A m \in Co!Loops : done'[m] <= Len(batch[m]) /\ (phase[m] # "functors" => done'[m] = done[m])
    <2>1. Len(batch[l]) \in Nat
      BY <1>1
    <2> QED  BY <1>1, <2>1 DEF LoopTypes, BatchInv
  <1> QED  BY <1>3, <1>4, <1>5, <1>6, <1>7, <1>8

\* What each kind of step does to the loops.
LEMMA LoopQuiet ==
  ASSUME LoopInv, UNCHANGED <<phase, active, pending, batch, done, wake, owes>>
  PROVE  LoopInv' /\ Todo' = Todo
  <1>1. LoopTypes'
    BY DEF LoopInv, LoopTypes
  <1>2. BatchInv' /\ WakeInv'
    BY DEF LoopInv, BatchInv, WakeInv
  <1> QED  BY <1>1, <1>2 DEF LoopInv, Todo

\* The loops start.
LEMMA LoopBoots ==
  ASSUME LoopInv, NEW l \in Co!Loops, phase[l] = "boot", phase' = [phase EXCEPT ![l] = "poll"],
         UNCHANGED <<active, pending, batch, done, wake, owes>>
  PROVE  LoopInv' /\ Todo' = Todo
  <1>1. LoopTypes'
    BY DEF LoopInv, LoopTypes
  <1>2. \A m \in Co!Loops : phase'[m] = phase[m] \/ (phase[m] = "boot" /\ phase'[m] = "poll")
    BY DEF LoopInv, LoopTypes
  <1>3. BatchInv' /\ WakeInv'
    BY <1>2 DEF LoopInv, BatchInv, WakeInv
  <1> QED  BY <1>1, <1>3 DEF LoopInv, Todo

\* A thread writes the eventfd of the loop it owes a wakeup.
LEMMA LoopWakes ==
  ASSUME LoopInv, NEW t \in Co!Threads, Co!Wakeup(t)
  PROVE  LoopInv' /\ Todo' = Todo
  <1>1. /\ owes[t] \in Co!Loops /\ wake' = [wake EXCEPT ![owes[t]] = TRUE]
        /\ owes' = [owes EXCEPT ![t] = None] /\ UNCHANGED <<phase, active, pending, batch, done>>
    BY DEF Co!Wakeup, LoopInv, LoopTypes
  <1>2. LoopTypes'
    BY <1>1 DEF LoopInv, LoopTypes
  <1>3. BatchInv'
    BY <1>1 DEF LoopInv, BatchInv
  <1>4. WakeInv'
    BY <1>1 DEF LoopInv, LoopTypes, WakeInv
  <1> QED  BY <1>1, <1>2, <1>3, <1>4 DEF LoopInv, Todo

\* What poll reports: clients to accept, or channels in the poller.
LEMMA PollReports ==
  ASSUME NEW l, NEW a \in Co!ReadySets(l)
  PROVE  /\ a \subseteq Conns \X {"accept", "in", "out"}
         /\ \A c \in Conns : /\ <<c, "accept">> \in a => l = Base /\ peer[c] = "waiting"
                             /\ <<c, "in">> \in a \/ <<c, "out">> \in a =>
                                  loopOf[c] = l /\ chan[c].index = "added"
  <1>1. CASE \E c \in Conns : a = {<<c, "accept">>} /\ l = Base /\ peer[c] = "waiting"
    BY <1>1
  <1>2. CASE a \subseteq Co!Polled(l) \X {"in", "out"}
    BY <1>2 DEF Co!Polled
  <1>3. \/ \E c \in Conns : a = {<<c, "accept">>} /\ l = Base /\ peer[c] = "waiting"
        \/ a \subseteq Co!Polled(l) \X {"in", "out"}
    BY DEF Co!ReadySets
  <1> QED  BY <1>1, <1>2, <1>3

\* poll returns.
LEMMA LoopPolls ==
  ASSUME LoopInv, NEW l \in Co!Loops, Co!Poll(l)
  PROVE  /\ LoopInv' /\ Todo' = Todo
         /\ \E a \in Co!ReadySets(l) : active' = [active EXCEPT ![l] = a]
  <1>1. PICK a \in Co!ReadySets(l) : active' = [active EXCEPT ![l] = a]
    BY DEF Co!Poll
  <1>2. /\ phase[l] = "poll" /\ wake' = [wake EXCEPT ![l] = FALSE]
        /\ phase' = [phase EXCEPT ![l] = "events"] /\ UNCHANGED <<pending, batch, done, owes>>
    BY DEF Co!Poll
  <1>3. a \subseteq Conns \X {"accept", "in", "out"}
    BY PollReports
  <1>4. LoopTypes'
    <2>1. active' \in [Co!Loops -> SUBSET (Conns \X {"accept", "in", "out"})]
      BY <1>1, <1>3 DEF LoopInv, LoopTypes
    <2> QED  BY <1>2, <2>1 DEF LoopInv, LoopTypes
  <1>5. \A m \in Co!Loops : IF m = l THEN phase'[m] = "events"
                            ELSE phase'[m] = phase[m] /\ active'[m] = active[m] /\ wake'[m] = wake[m]
    BY <1>1, <1>2 DEF LoopInv, LoopTypes
  <1>6. BatchInv'
    BY <1>2, <1>5 DEF LoopInv, BatchInv
  <1>7. WakeInv'
    BY <1>2, <1>5 DEF LoopInv, WakeInv
  <1> QED  BY <1>1, <1>2, <1>4, <1>6, <1>7, Zenon DEF LoopInv, Todo

\* doPendingFunctors swaps the functors out.
LEMMA LoopSwaps ==
  ASSUME LoopInv, NEW l \in Co!Loops, Co!Swap(l)
  PROVE  LoopInv' /\ Todo' = Todo
  <1>1. /\ phase[l] = "events" /\ active[l] = {} /\ batch' = [batch EXCEPT ![l] = pending[l]]
        /\ pending' = [pending EXCEPT ![l] = <<>>] /\ done' = [done EXCEPT ![l] = 0]
        /\ phase' = [phase EXCEPT ![l] = "functors"] /\ UNCHANGED <<active, wake, owes>>
    BY DEF Co!Swap
  <1>2. LoopTypes'
    <2>1. <<>> \in Seq(Fns)
      OBVIOUS
    <2> QED  BY <1>1, <2>1 DEF LoopInv, LoopTypes
  <1>3. /\ phase'[l] = "functors" /\ pending'[l] = <<>> /\ batch'[l] = pending[l] /\ done'[l] = 0
        /\ pending[l] \in Seq(Fns) /\ batch[l] = <<>> /\ done[l] = 0
        /\ \A m \in Co!Loops : m # l => /\ phase'[m] = phase[m] /\ pending'[m] = pending[m]
                                        /\ batch'[m] = batch[m] /\ done'[m] = done[m]
    BY <1>1 DEF LoopInv, LoopTypes, BatchInv
  <1>4. BatchInv'
    <2>1. Len(pending[l]) \in Nat
      BY <1>3
    <2> QED  BY <1>1, <1>3, <2>1 DEF LoopInv, BatchInv
  <1>5. WakeInv'
    BY <1>1, <1>3 DEF LoopInv, WakeInv
  <1>6. Left(pending[l], 0, <<>>) = pending[l] /\ Left(<<>>, 0, pending[l]) = pending[l]
    BY <1>3, LeftEmpty
  <1>7. Todo' = Todo
    BY <1>3, <1>6 DEF Todo
  <1> QED  BY <1>2, <1>4, <1>5, <1>7 DEF LoopInv

\* The batch was run to its end.
LEMMA LoopEnds ==
  ASSUME LoopInv, NEW l \in Co!Loops, Co!EndFunctors(l)
  PROVE  LoopInv' /\ Todo' = Todo
  <1>1. /\ phase[l] = "functors" /\ done[l] = Len(batch[l]) /\ batch' = [batch EXCEPT ![l] = <<>>]
        /\ done' = [done EXCEPT ![l] = 0] /\ phase' = [phase EXCEPT ![l] = "poll"]
        /\ UNCHANGED <<active, pending, wake, owes>>
    BY DEF Co!EndFunctors
  <1>2. LoopTypes'
    <2>1. <<>> \in Seq(Fns)
      OBVIOUS
    <2> QED  BY <1>1, <2>1 DEF LoopInv, LoopTypes
  <1>3. /\ phase'[l] = "poll" /\ batch'[l] = <<>> /\ done'[l] = 0
        /\ pending[l] \in Seq(Fns) /\ batch[l] \in Seq(Fns) /\ active[l] = {}
        /\ \A m \in Co!Loops : m # l => /\ phase'[m] = phase[m]
                                        /\ batch'[m] = batch[m] /\ done'[m] = done[m]
    BY <1>1 DEF LoopInv, LoopTypes, BatchInv
  <1>4. BatchInv'
    BY <1>1, <1>3 DEF LoopInv, BatchInv
  <1>5. WakeInv'
    BY <1>1, <1>3 DEF LoopInv, WakeInv
  <1>6. Left(<<>>, 0, pending[l]) = pending[l] /\ Left(batch[l], Len(batch[l]), pending[l]) = pending[l]
    BY <1>3, LeftEmpty
  <1>7. Todo' = Todo
    BY <1>1, <1>3, <1>6 DEF Todo
  <1> QED  BY <1>2, <1>4, <1>5, <1>7 DEF LoopInv

\* A handler that is done, and one that queues a functor at its end.
LEMMA LoopHandled ==
  ASSUME LoopInv, NEW l \in Co!Loops, NEW c, NEW e, Co!Handles(l, c, e), Co!Handled(l, c, e),
         UNCHANGED <<phase, pending, batch, done, wake, owes>>
  PROVE  /\ LoopInv' /\ Todo' = Todo
         /\ active' = [active EXCEPT ![l] = @ \ {<<c, e>>}] /\ <<c, e>> \in active[l]
         /\ phase[l] = "events"
  <1>1. /\ active' = [active EXCEPT ![l] = @ \ {<<c, e>>}] /\ <<c, e>> \in active[l]
        /\ phase[l] = "events"
    BY DEF Co!Handled, Co!Handles
  <1>2. LoopTypes'
    BY <1>1 DEF LoopInv, LoopTypes
  <1>3. BatchInv' /\ WakeInv'
    BY <1>1 DEF LoopInv, LoopTypes, BatchInv, WakeInv
  <1> QED  BY <1>1, <1>2, <1>3 DEF LoopInv, Todo

\* A handler that queues a functor.
LEMMA LoopHandledQueues ==
  ASSUME LoopInv, NEW l \in Co!Loops, NEW c, NEW e, Co!Handles(l, c, e), Co!Handled(l, c, e),
         NEW m \in Co!Loops, NEW f \in Fns, Co!QueueInLoop(l, m, f),
         UNCHANGED <<phase, batch, done, wake>>
  PROVE  /\ LoopInv' /\ Todo' = Pushed(Todo, m, f)
         /\ active' = [active EXCEPT ![l] = @ \ {<<c, e>>}] /\ <<c, e>> \in active[l]
         /\ phase[l] = "events" /\ owes' = [owes EXCEPT ![l] = m]
  <1>1. /\ active' = [active EXCEPT ![l] = @ \ {<<c, e>>}] /\ <<c, e>> \in active[l]
        /\ phase[l] = "events" /\ owes[l] = None /\ l \in Co!Threads
    BY LoopsAre DEF Co!Handled, Co!Handles
  <1>2. /\ WakeInv' /\ pending' \in [Co!Loops -> Seq(Fns)]
        /\ owes' \in [Co!Threads -> Co!Loops \cup {None}]
        /\ pending' = [pending EXCEPT ![m] = Append(@, f)]
        /\ owes' = [owes EXCEPT ![l] = m]
    BY <1>1, Queueing DEF LoopInv
  <1>3. LoopTypes'
    BY <1>1, <1>2 DEF LoopInv, LoopTypes
  <1>4. BatchInv'
    BY <1>1 DEF LoopInv, LoopTypes, BatchInv
  <1>5. Todo' = Pushed(Todo, m, f)
    BY <1>2, TodoPush DEF LoopInv
  <1> QED  BY <1>1, <1>2, <1>3, <1>4, <1>5 DEF LoopInv

\* A thread queues a functor for another loop.
LEMMA LoopSends ==
  ASSUME LoopInv, NEW t \in Co!Threads, owes[t] = None,
         NEW m \in Co!Loops, NEW f \in Fns, Co!QueueInLoop(t, m, f),
         UNCHANGED <<phase, active, batch, done, wake>>
  PROVE  LoopInv' /\ Todo' = Pushed(Todo, m, f) /\ owes' = [owes EXCEPT ![t] = m]
  <1>2. /\ WakeInv' /\ pending' \in [Co!Loops -> Seq(Fns)]
        /\ owes' \in [Co!Threads -> Co!Loops \cup {None}]
        /\ pending' = [pending EXCEPT ![m] = Append(@, f)]
        /\ owes' = [owes EXCEPT ![t] = m]
    BY Queueing DEF LoopInv
  <1>3. LoopTypes'
    BY <1>2 DEF LoopInv, LoopTypes
  <1>4. BatchInv'
    BY DEF LoopInv, BatchInv
  <1>5. Todo' = Pushed(Todo, m, f)
    BY <1>2, TodoPush DEF LoopInv
  <1> QED  BY <1>2, <1>3, <1>4, <1>5 DEF LoopInv

\* A functor that is run, and one that queues another.
LEMMA LoopRan ==
  ASSUME LoopInv, NEW l \in Co!Loops, NEW f, Co!IsNext(l, f), Co!Ran(l),
         UNCHANGED <<phase, active, pending, batch, wake, owes>>
  PROVE  /\ LoopInv' /\ Todo' = Popped(Todo, l)
         /\ Todo[l] # <<>> /\ f = Todo[l][1] /\ f \in Fns /\ active[l] = {}
  <1>1. /\ Todo' = Popped(Todo, l)
        /\ Todo[l] # <<>> /\ f = Todo[l][1] /\ f \in Fns
        /\ done' \in [Co!Loops -> Nat]
        /\ \A m \in Co!Loops : done'[m] <= Len(batch[m]) /\ (phase[m] # "functors" => done'[m] = done[m])
    BY TodoRan DEF LoopInv
  <1>2. LoopTypes'
    BY <1>1 DEF LoopInv, LoopTypes
  <1>3. BatchInv' /\ WakeInv'
    BY <1>1 DEF LoopInv, BatchInv, WakeInv
  <1>4. active[l] = {}
    BY DEF LoopInv, BatchInv, Co!IsNext
  <1> QED  BY <1>1, <1>2, <1>3, <1>4 DEF LoopInv

\* A functor that queues another one.
LEMMA LoopRanQueues ==
  ASSUME LoopInv, NEW l \in Co!Loops, NEW f, Co!IsNext(l, f), Co!Ran(l),
         NEW m \in Co!Loops, m # l, NEW g \in Fns, Co!QueueInLoop(l, m, g),
         UNCHANGED <<phase, active, batch, wake>>
  PROVE  /\ LoopInv' /\ Todo' = Pushed(Popped(Todo, l), m, g)
         /\ owes' = [owes EXCEPT ![l] = m]
  <1>1. owes[l] = None /\ l \in Co!Threads
    BY LoopsAre DEF Co!IsNext
  <1>2. /\ WakeInv' /\ pending' \in [Co!Loops -> Seq(Fns)]
        /\ owes' \in [Co!Threads -> Co!Loops \cup {None}]
        /\ pending' = [pending EXCEPT ![m] = Append(@, g)]
        /\ owes' = [owes EXCEPT ![l] = m]
    BY <1>1, Queueing DEF LoopInv
  <1>3. /\ Todo' = Pushed(Popped(Todo, l), m, g)
        /\ done' \in [Co!Loops -> Nat]
        /\ \A k \in Co!Loops : done'[k] <= Len(batch[k]) /\ (phase[k] # "functors" => done'[k] = done[k])
    BY <1>2, TodoRan, Zenon DEF LoopInv
  <1>4. LoopTypes'
    BY <1>2, <1>3, Zenon DEF LoopInv, LoopTypes
  <1>5. BatchInv'
    BY <1>3 DEF LoopInv, BatchInv
  <1> QED  BY <1>2, <1>3, <1>4, <1>5 DEF LoopInv

-----------------------------------------------------------------------------
(* Connections: their stages *)

\* A connection is open while Connected or Disconnecting.
Stages == [c \in Conns |->
             IF cstate[c] \in {"Connected", "Disconnecting"} THEN "open" ELSE cstate[c]]
Indices == [c \in Conns |-> chan[c].index]

ConnTypes ==
  /\ cstate \in [Conns -> {"none", "Connecting", "Connected", "Disconnecting", "Disconnected"}]
  /\ chan \in [Conns -> [events : SUBSET {"r", "w"}, index : {"new", "added", "deleted"}]]
  /\ loopOf \in [Conns -> Io \cup {None}]
  /\ nextLoop \in 1 .. Len(IoLoops)
  /\ peer \in [Conns -> {"none", "waiting", "refused", "up", "fin", "reset", "gone"}]
  /\ ins \in Nat /\ msgs \in Nat
  /\ sender \in [Senders -> [at : {"idle", "found", "send", "leave"},
                             conn : Conns \cup {None}, msg : Nat]]

\* What a stage says of the channel, the loop and the server's map.
Staged(st, ix, lo, rem, map) ==
  \A c \in Conns :
    /\ st[c] \in {"none", "Connecting"} => ix[c] = "new" /\ c \notin rem
    /\ st[c] = "open" => ix[c] = "added" /\ c \notin rem
    /\ st[c] = "Disconnected" => ix[c] # "added" /\ (c \notin rem => ix[c] = "deleted")
    /\ st[c] # "none" => lo[c] \in Io /\ (c \in rem \/ c \in map)

PeerInv ==
  \A c \in Conns : /\ peer[c] \in {"none", "waiting"} => Stages[c] = "none"
                   /\ c \in live => Stages[c] = "open"

\* A thread holds connections that are or were open, and owes a wakeup at its end.
SenderInv ==
  \A t \in Senders :
    /\ sender[t].at # "idle" =>
         sender[t].conn \in Conns /\ Stages[sender[t].conn] \in {"open", "Disconnected"}
    /\ owes[t] # None => sender[t].at = "leave"

\* Whom the list of active channels may name.
ActiveInv ==
  \A l \in Co!Loops, c \in Conns :
    /\ <<c, "accept">> \in active[l] => l = Base /\ peer[c] = "waiting"
    /\ <<c, "in">> \in active[l] => loopOf[c] = l /\ Stages[c] = "open"
    /\ <<c, "out">> \in active[l] =>
         /\ loopOf[c] = l
         /\ Stages[c] = "open" \/ (Stages[c] = "Disconnected" /\ Indices[c] = "deleted")

GhostInv == failed = {} /\ \A f \in dangling : f.late

LifeInv ==
  /\ ConnTypes
  /\ Staged(Stages, Indices, loopOf, removed, tcpmap)
  /\ PeerInv /\ SenderInv /\ ActiveInv /\ GhostInv
  /\ Orderly(Todo, Stages, Indices, loopOf, removed)

\* Stages and indices, by their state and channel.
LEMMA StagesAre ==
  ASSUME ConnTypes
  PROVE  /\ Stages \in [Conns -> {"none", "Connecting", "open", "Disconnected"}]
         /\ Indices \in [Conns -> {"new", "added", "deleted"}]
         /\ \A c \in Conns :
              /\ Stages[c] = "open" <=> cstate[c] \in {"Connected", "Disconnecting"}
              /\ \A s \in {"none", "Connecting", "Disconnected"} : Stages[c] = s <=> cstate[c] = s
              /\ Indices[c] = chan[c].index
  BY DEF ConnTypes, Stages, Indices

\* Threads keep what they found when a loop takes a step.
LEMMA SendersKeep ==
  ASSUME SenderInv, UNCHANGED sender, \A t \in Senders : owes'[t] \in {owes[t], None},
         \A c \in Conns : Stages[c] \in {"open", "Disconnected"} =>
           Stages'[c] \in {"open", "Disconnected"}
  PROVE  SenderInv'
  BY DEF SenderInv

\* What a loop owes is no debt of a sender.
LEMMA OthersOwe ==
  ASSUME LoopTypes, NEW l \in Co!Loops, NEW m, owes' = [owes EXCEPT ![l] = m]
  PROVE  \A t \in Senders : owes'[t] \in {owes[t], None}
  BY LoopsAre DEF LoopTypes

\* A step that moves no connection from stage to stage.
LEMMA LifeStill ==
  ASSUME LifeInv, ConnTypes', SenderInv', Todo' = Todo, Stages' = Stages, Indices' = Indices,
         UNCHANGED <<loopOf, removed, tcpmap, live, failed, dangling>>,
         \A l \in Co!Loops : active'[l] \subseteq active[l],
         \A c \in Conns :
           \/ peer'[c] = peer[c]
           \/ peer[c] = "none" /\ peer'[c] = "waiting"
           \/ /\ peer'[c] \notin {"none", "waiting"}
              /\ peer[c] = "waiting" => \A l \in Co!Loops : <<c, "accept">> \notin active'[l]
  PROVE  LifeInv'
  <1>1. PeerInv'
    BY DEF LifeInv, PeerInv
  <1>2. ActiveInv'
    <2> SUFFICES ASSUME NEW l \in Co!Loops, NEW c \in Conns
                 PROVE  /\ <<c, "accept">> \in active'[l] => l = Base /\ peer'[c] = "waiting"
                        /\ <<c, "in">> \in active'[l] => loopOf[c] = l /\ Stages[c] = "open"
                        /\ <<c, "out">> \in active'[l] =>
                             /\ loopOf[c] = l
                             /\ Stages[c] = "open" \/ (Stages[c] = "Disconnected" /\ Indices[c] = "deleted")
      BY DEF ActiveInv
    <2>1. \A e : <<c, e>> \in active'[l] => <<c, e>> \in active[l]
      OBVIOUS
    <2> QED  BY <2>1 DEF LifeInv, ActiveInv
  <1>3. GhostInv'
    BY DEF LifeInv, GhostInv
  <1>4. /\ Staged(Stages', Indices', loopOf', removed', tcpmap')
        /\ Orderly(Todo', Stages', Indices', loopOf', removed')
    BY DEF LifeInv
  <1> QED  BY <1>1, <1>2, <1>3, <1>4 DEF LifeInv

-----------------------------------------------------------------------------
(* Connections: output *)

Parts == Msgs \X {1, 2}

DataTypes ==
  /\ wire \in [Conns -> Seq(Parts)] /\ outbuf \in [Conns -> Seq(Parts)]
  /\ accepted \in [Conns -> Seq(Parts)]

\* What was taken is written or buffered; who is open waits to write what is
\* buffered, and who is not polls for nothing.
Flows(w, b, a, ev, s, closed) ==
  /\ w \o b = a
  /\ s # "Disconnected" => (b # <<>> <=> "w" \in ev)
  /\ IF s = "open" THEN "r" \in ev ELSE ev = {}
  /\ closed => b = <<>>

DataInv ==
  /\ DataTypes
  /\ \A c \in Conns :
       Flows(wire[c], outbuf[c], accepted[c], chan[c].events, Stages[c], c \in fin)

\* What send buffers comes behind what it wrote.
LEMMA SendJoins ==
  ASSUME NEW w \in Seq(Parts), NEW b \in Seq(Parts), NEW x \in Seq(Parts), NEW y \in Seq(Parts),
         b = <<>> \/ x = <<>>
  PROVE  (w \o x) \o (b \o y) = (w \o b) \o (x \o y)
  <1>1. \A s, t, u \in Seq(Parts) : (s \o t) \o u = s \o (t \o u)
    BY SMTT(30)
  <1>2. \A s \in Seq(Parts) : s \o <<>> = s /\ <<>> \o s = s
    OBVIOUS
  <1>3. CASE b = <<>>
    <2>1. b \o y = y /\ w \o b = w
      BY <1>2, <1>3
    <2>2. (w \o x) \o y = w \o (x \o y)
      BY <1>1, Zenon
    <2> QED  BY <2>1, <2>2, Zenon
  <1>4. CASE x = <<>>
    <2>1. x \o y = y /\ w \o x = w
      BY <1>2, <1>4
    <2>2. w \o (b \o y) = (w \o b) \o y
      BY <1>1, Zenon
    <2> QED  BY <2>1, <2>2, Zenon
  <1> QED  BY <1>3, <1>4, Zenon

\* A sequence cut in two is the two parts joined.
LEMMA SeqCut ==
  ASSUME NEW S, NEW b \in Seq(S), NEW n \in 0 .. Len(b)
  PROVE  /\ SubSeq(b, 1, n) \o SubSeq(b, n + 1, Len(b)) = b
         /\ SubSeq(b, 1, n) \in Seq(S) /\ SubSeq(b, n + 1, Len(b)) \in Seq(S)
         /\ n = Len(b) <=> SubSeq(b, n + 1, Len(b)) = <<>>
  <1>1. /\ SubSeq(b, 1, n) \in Seq(S) /\ Len(SubSeq(b, 1, n)) = n
        /\ \A i \in 1 .. n : SubSeq(b, 1, n)[i] = b[i]
    OBVIOUS
  <1>2. /\ SubSeq(b, n + 1, Len(b)) \in Seq(S) /\ Len(SubSeq(b, n + 1, Len(b))) = Len(b) - n
        /\ \A i \in 1 .. Len(b) - n : SubSeq(b, n + 1, Len(b))[i] = b[n + i]
    OBVIOUS
  <1>3. PICK s \in Seq(S), t \in Seq(S) : s = SubSeq(b, 1, n) /\ t = SubSeq(b, n + 1, Len(b))
    BY <1>1, <1>2
  <1>4. /\ Len(s) = n /\ Len(t) = Len(b) - n /\ Len(b) \in Nat
        /\ (\A i \in 1 .. n : s[i] = b[i]) /\ \A i \in 1 .. Len(b) - n : t[i] = b[n + i]
    BY <1>1, <1>2, <1>3
  <1>5. s \o t = b
    <2>1. /\ s \o t \in Seq(S) /\ Len(s \o t) = Len(s) + Len(t)
          /\ \A i \in 1 .. Len(s) : (s \o t)[i] = s[i]
          /\ \A i \in 1 .. Len(t) : (s \o t)[Len(s) + i] = t[i]
      OBVIOUS
    <2>2. ASSUME NEW i \in 1 .. Len(b) PROVE (s \o t)[i] = b[i]
      <3>1. CASE i <= n
        BY <1>4, <2>1, <3>1
      <3>2. CASE i > n
        <4>1. PICK k \in 1 .. Len(b) - n : i = n + k
          <5>1. i - n \in 1 .. Len(b) - n /\ i = n + (i - n)
            BY <1>4, <3>2
          <5> QED  BY <5>1
        <4>2. (s \o t)[n + k] = t[k] /\ t[k] = b[n + k]
          BY <1>4, <2>1
        <4> QED  BY <4>1, <4>2
      <3> QED  BY <1>4, <3>1, <3>2
    <2>3. Len(s \o t) = Len(b)
      BY <1>4, <2>1
    <2> QED  BY <2>1, <2>2, <2>3, SeqEqual
  <1>7. n = Len(b) <=> t = <<>>
    BY <1>4
  <1> QED  BY <1>3, <1>5, <1>7, Zenon

\* A message is two chunks, which add up wherever send stopped.
LEMMA ChunksCut ==
  ASSUME NEW m \in Msgs, NEW n \in 0 .. 2
  PROVE  /\ Co!Chunks(m) \in Seq(Parts) /\ Co!Chunks(m) # <<>>
         /\ SubSeq(Co!Chunks(m), 1, n) \in Seq(Parts) /\ SubSeq(Co!Chunks(m), n + 1, 2) \in Seq(Parts)
         /\ SubSeq(Co!Chunks(m), 1, n) \o SubSeq(Co!Chunks(m), n + 1, 2) = Co!Chunks(m)
  <1>1. Co!Chunks(m) \in Seq(Parts) /\ Co!Chunks(m) # <<>> /\ Len(Co!Chunks(m)) = 2
    BY DEF Co!Chunks, Parts
  <1> QED  BY <1>1, SeqCut

\* Taking a prefix off the buffer leaves the rest.
LEMMA BufferCut ==
  ASSUME NEW w \in Seq(Parts), NEW b \in Seq(Parts), NEW n \in 1 .. Len(b)
  PROVE  /\ (w \o SubSeq(b, 1, n)) \o SubSeq(b, n + 1, Len(b)) = w \o b
         /\ w \o SubSeq(b, 1, n) \in Seq(Parts) /\ SubSeq(b, n + 1, Len(b)) \in Seq(Parts)
         /\ n = Len(b) <=> SubSeq(b, n + 1, Len(b)) = <<>>
  <1>1. n \in 0 .. Len(b)
    OBVIOUS
  <1>2. PICK s \in Seq(Parts), t \in Seq(Parts) :
          /\ s = SubSeq(b, 1, n) /\ t = SubSeq(b, n + 1, Len(b)) /\ s \o t = b
          /\ n = Len(b) <=> t = <<>>
    BY <1>1, SeqCut
  <1>3. (w \o s) \o t = w \o (s \o t) /\ w \o s \in Seq(Parts)
    OBVIOUS
  <1> QED  BY <1>2, <1>3, Zenon

Chans == [events : SUBSET {"r", "w"}, index : {"new", "added", "deleted"}]

\* Output of one connection changes, and the channel with it.
LEMMA DataMoves ==
  ASSUME DataInv, NEW c \in Conns,
         DataTypes', \A d \in Conns \ {c} :
           /\ wire'[d] = wire[d] /\ outbuf'[d] = outbuf[d] /\ accepted'[d] = accepted[d]
           /\ chan'[d] = chan[d] /\ Stages'[d] = Stages[d] /\ (d \in fin' <=> d \in fin),
         Flows(wire'[c], outbuf'[c], accepted'[c], chan'[c].events, Stages'[c], c \in fin')
  PROVE  DataInv'
  <1> SUFFICES ASSUME NEW d \in Conns
               PROVE  Flows(wire'[d], outbuf'[d], accepted'[d], chan'[d].events, Stages'[d], d \in fin')
    BY DEF DataInv
  <1>1. CASE d # c
    BY <1>1, Zenon DEF DataInv, Flows
  <1> QED  BY <1>1

\* sendInLoop keeps the output in order and waits for room when it must.
LEMMA SendNowFlows ==
  ASSUME ConnTypes, Staged(Stages, Indices, loopOf, removed, tcpmap), DataInv,
         NEW c \in Conns, Stages[c] \in {"open", "Disconnected"},
         NEW m \in Msgs, NEW n \in 0 .. 2, Co!SendNow(c, m, n), UNCHANGED <<cstate, fin>>
  PROVE  chan' \in [Conns -> Chans] /\ Stages' = Stages /\ Indices' = Indices /\ DataInv'
  <1>1. Stages' = Stages
    BY DEF Stages
  <1>2. CASE UNCHANGED <<wire, outbuf, accepted, chan>>
    <2>1. chan' \in [Conns -> Chans] /\ Indices' = Indices
      BY <1>2 DEF ConnTypes, Chans, Indices
    <2> QED  BY <1>1, <1>2, <2>1 DEF DataInv, DataTypes
  <1>3. CASE ~ UNCHANGED <<wire, outbuf, accepted, chan>>
    <2>1. PICK k : k = Co!Chunks(m)
      OBVIOUS
    <2>2. PICK out, rest :
            /\ out = IF Co!Direct(c) THEN SubSeq(k, 1, n) ELSE <<>>
            /\ rest = IF Co!Direct(c) THEN SubSeq(k, n + 1, 2) ELSE k
      BY Zenon
    <2>3. /\ ~ (cstate[c] = "Disconnected" \/ (Co!Direct(c) /\ Co!Broken(c)))
          /\ wire' = [wire EXCEPT ![c] = @ \o out]
          /\ outbuf' = [outbuf EXCEPT ![c] = @ \o rest]
          /\ accepted' = [accepted EXCEPT ![c] = @ \o k]
          /\ chan' = [chan EXCEPT ![c] =
               IF rest = <<>> \/ "w" \in @.events THEN @
               ELSE Co!UpdateChannel(@, @.events \cup {"w"})]
      BY <1>3, <2>1, <2>2 DEF Co!SendNow
    <2>4. PICK w \in Seq(Parts), b \in Seq(Parts), a \in Seq(Parts) :
            w = wire[c] /\ b = outbuf[c] /\ a = accepted[c]
      BY DEF DataInv, DataTypes
    <2>5. PICK ev \in SUBSET {"r", "w"} : ev = chan[c].events
      BY DEF ConnTypes
    <2>6. Stages[c] = "open" /\ Flows(w, b, a, ev, "open", c \in fin) /\ chan[c].index = "added"
      <3>1. Stages[c] = "open"
        BY <2>3, StagesAre
      <3>2. Indices[c] = "added"
        BY <3>1 DEF Staged
      <3> QED  BY <2>4, <2>5, <3>1, <3>2, StagesAre DEF DataInv
    <2>7. Co!Direct(c) <=> ("w" \notin ev /\ b = <<>>)
      BY <2>4, <2>5 DEF Co!Direct
    <2>8. c \notin fin
      BY <2>3, <2>6, <2>7 DEF Flows, Co!Broken
    <2>9. /\ out \in Seq(Parts) /\ rest \in Seq(Parts) /\ k \in Seq(Parts) /\ out \o rest = k
          /\ b = <<>> \/ out = <<>>
          /\ "w" \in ev => rest # <<>>
      <3>1. <<>> \o k = k /\ <<>> \in Seq(Parts)
        BY <2>1, ChunksCut
      <3>2. CASE Co!Direct(c)
        BY <2>1, <2>2, <2>7, <3>2, ChunksCut
      <3>3. CASE ~ Co!Direct(c)
        BY <2>1, <2>2, <3>1, <3>3, ChunksCut
      <3> QED  BY <3>2, <3>3
    <2>10. (w \o out) \o (b \o rest) = a \o k
      <3>1. w \o b = a
        BY <2>6 DEF Flows
      <3>2. (w \o out) \o (b \o rest) = (w \o b) \o (out \o rest)
        <4>1. out \in Seq(Parts) /\ rest \in Seq(Parts) /\ (b = <<>> \/ out = <<>>)
          BY <2>9
        <4>2. \A x, y \in Seq(Parts) : b = <<>> \/ x = <<>> =>
                (w \o x) \o (b \o y) = (w \o b) \o (x \o y)
          BY SendJoins, Zenon
        <4> QED  BY <4>1, <4>2, Zenon
      <3> QED  BY <2>9, <3>1, <3>2, Zenon
    <2>11. w \o out \in Seq(Parts) /\ b \o rest \in Seq(Parts) /\ a \o k \in Seq(Parts)
      BY <2>9
    <2>12. b \o rest # <<>> <=> (b # <<>> \/ rest # <<>>)
      BY <2>9
    <2>13. PICK ch : ch = IF rest = <<>> \/ "w" \in ev THEN chan[c]
                          ELSE [events |-> ev \cup {"w"}, index |-> "added"]
      BY Zenon
    <2>14. chan' = [chan EXCEPT ![c] = ch]
      <3>1. Co!UpdateChannel(chan[c], ev \cup {"w"}) = [events |-> ev \cup {"w"}, index |-> "added"]
        BY DEF Co!UpdateChannel
      <3> QED  BY <2>3, <2>5, <2>13, <3>1
    <2>15. ch \in Chans /\ ch.index = "added" /\ ("w" \in ch.events <=> "w" \in ev \/ rest # <<>>)
           /\ ("r" \in ev => "r" \in ch.events)
      <3>1. chan[c] \in Chans
        BY DEF ConnTypes, Chans
      <3> QED  BY <2>5, <2>6, <2>13, <3>1 DEF Chans
    <2>16. chan' \in [Conns -> Chans] /\ Indices' = Indices
      BY <2>6, <2>14, <2>15 DEF ConnTypes, Chans, Indices
    <2>17. Flows(w \o out, b \o rest, a \o k, ch.events, "open", c \in fin)
      BY <2>6, <2>8, <2>10, <2>12, <2>15 DEF Flows
    <2>18. DataTypes'
      BY <2>3, <2>4, <2>11 DEF DataInv, DataTypes
    <2>19. /\ wire'[c] = w \o out /\ outbuf'[c] = b \o rest /\ accepted'[c] = a \o k /\ chan'[c] = ch
           /\ \A d \in Conns \ {c} : /\ wire'[d] = wire[d] /\ outbuf'[d] = outbuf[d]
                                     /\ accepted'[d] = accepted[d] /\ chan'[d] = chan[d]
      BY <2>3, <2>4, <2>14, Zenon DEF DataInv, DataTypes, ConnTypes
    <2>20. DataInv'
      BY <1>1, <2>6, <2>17, <2>18, <2>19, DataMoves, Zenon
    <2> QED  BY <1>1, <2>16, <2>20
  <1> QED  BY <1>2, <1>3

-----------------------------------------------------------------------------
(* Connections: the inductive invariant, step by step *)

ConnInv == LoopInv /\ LifeInv /\ DataInv

Peers == [Conns -> {"none", "waiting", "refused", "up", "fin", "reset", "gone"}]
SenderStates == [Senders -> [at : {"idle", "found", "send", "leave"},
                             conn : Conns \cup {None}, msg : Nat]]

\* Whoever is waiting is so until no accept is due.
PeersMove ==
  \A c \in Conns :
    \/ peer'[c] = peer[c]
    \/ peer[c] = "none" /\ peer'[c] = "waiting"
    \/ /\ peer'[c] \notin {"none", "waiting"}
       /\ peer[c] = "waiting" => \A l \in Co!Loops : <<c, "accept">> \notin active'[l]

\* Steps that neither write nor read leave the data as it was.
LEMMA DataSame ==
  ASSUME DataInv, UNCHANGED <<wire, outbuf, accepted, fin, chan>>, Stages' = Stages
  PROVE  DataInv'
  BY DEF DataInv, DataTypes

\* A step that leaves connections and their output alone.
LEMMA StepsAside ==
  ASSUME ConnInv, LoopInv', Todo' = Todo,
         UNCHANGED <<cstate, chan, loopOf, nextLoop, tcpmap, live, removed, failed, dangling,
                     wire, outbuf, accepted, fin>>,
         ins' \in Nat, msgs' \in Nat, peer' \in Peers, sender' \in SenderStates, SenderInv',
         \A l \in Co!Loops : active'[l] \subseteq active[l], PeersMove
  PROVE  ConnInv'
  <1>1. Stages' = Stages /\ Indices' = Indices
    BY DEF Stages, Indices
  <1>2. ConnTypes'
    BY DEF ConnInv, LifeInv, ConnTypes, Peers, SenderStates
  <1>3. LifeInv'
    BY <1>1, <1>2, LifeStill DEF ConnInv, PeersMove
  <1>4. DataInv'
    BY <1>1, DataSame DEF ConnInv
  <1> QED  BY <1>3, <1>4 DEF ConnInv

\* The steps of the peer.
LEMMA ClientSteps ==
  ASSUME ConnInv, NEW c \in Conns,
         \/ Co!ClientConnects(c)
         \/ \E frame \in {"req", "bad"} : Co!ClientSends(c, frame)
         \/ \E how \in {"fin", "reset"} : Co!ClientCloses(c, how)
  PROVE  ConnInv'
  <1> USE DEF Co!loopVars, Co!connVars, Co!dataVars, Co!bootVars, Co!ghosts
  <1>1. /\ UNCHANGED <<phase, active, pending, batch, done, wake, owes>>
        /\ UNCHANGED <<cstate, chan, loopOf, nextLoop, tcpmap, live, removed, failed, dangling,
                     wire, outbuf, accepted, fin, msgs, sender>>
    BY DEF Co!ClientConnects, Co!ClientSends, Co!ClientCloses
  <1>2. ConnTypes /\ LoopInv' /\ Todo' = Todo
    BY <1>1, LoopQuiet DEF ConnInv, LifeInv
  <1>3. ins' \in Nat
    BY <1>2 DEF ConnTypes, Co!ClientConnects, Co!ClientSends, Co!ClientCloses
  <1>4. peer' \in Peers /\ PeersMove
    <2>1. CASE Co!ClientConnects(c)
      BY <1>2, <2>1 DEF ConnTypes, Peers, PeersMove, Co!ClientConnects
    <2>2. CASE \E frame \in {"req", "bad"} : Co!ClientSends(c, frame)
      BY <1>2, <2>2 DEF ConnTypes, Peers, PeersMove, Co!ClientSends
    <2>3. CASE \E how \in {"fin", "reset"} : Co!ClientCloses(c, how)
      BY <1>2, <2>3 DEF ConnTypes, Peers, PeersMove, Co!ClientCloses
    <2> QED  BY <2>1, <2>2, <2>3
  <1>5. SenderInv' /\ sender' \in SenderStates /\ msgs' \in Nat
    BY <1>1, <1>2 DEF ConnInv, LifeInv, SenderInv, Stages, ConnTypes, SenderStates
  <1> HIDE DEF Co!loopVars, Co!connVars, Co!dataVars, Co!bootVars, Co!ghosts
  <1> QED  BY <1>1, <1>2, <1>3, <1>4, <1>5, StepsAside

\* Steps of the loop itself and of start-up.
LEMMA LoopTurns ==
  ASSUME ConnInv,
         \/ Co!Listen
         \/ \E l \in Co!Loops : Co!ThreadFunc(l) \/ Co!Swap(l) \/ Co!EndFunctors(l)
         \/ \E t \in Co!Threads : Co!Wakeup(t)
  PROVE  ConnInv'
  <1> USE DEF Co!connVars, Co!dataVars, Co!sockVars, Co!ghosts
  <1>1. UNCHANGED <<active, cstate, chan, loopOf, nextLoop, tcpmap, live, removed, failed, dangling,
                    wire, outbuf, accepted, fin, msgs, ins, peer, sender>>
    BY DEF Co!Listen, Co!ThreadFunc, Co!Swap, Co!EndFunctors, Co!Wakeup
  <1>2. LoopInv /\ ConnTypes /\ SenderInv /\ LoopTypes
    BY DEF ConnInv, LoopInv, LifeInv
  <1>3. LoopInv' /\ Todo' = Todo /\ \A t \in Senders : owes'[t] \in {owes[t], None}
    <2>1. CASE Co!Listen
      <3>1. /\ phase[Base] = "boot" /\ phase' = [phase EXCEPT ![Base] = "poll"]
            /\ UNCHANGED <<active, pending, batch, done, wake, owes>>
        BY <2>1 DEF Co!Listen
      <3> QED  BY <1>2, <3>1, LoopBoots, LoopsAre
    <2>2. CASE \E l \in Co!Loops : Co!ThreadFunc(l)
      <3>1. PICK l \in Co!Loops :
              /\ phase[l] = "boot" /\ phase' = [phase EXCEPT ![l] = "poll"]
              /\ UNCHANGED <<active, pending, batch, done, wake, owes>>
        BY <2>2 DEF Co!ThreadFunc
      <3> QED  BY <1>2, <3>1, LoopBoots
    <2>3. CASE \E l \in Co!Loops : Co!Swap(l)
      <3>1. owes' = owes
        BY <2>3 DEF Co!Swap
      <3> QED  BY <1>2, <2>3, <3>1, LoopSwaps
    <2>4. CASE \E l \in Co!Loops : Co!EndFunctors(l)
      <3>1. owes' = owes
        BY <2>4 DEF Co!EndFunctors
      <3> QED  BY <1>2, <2>4, <3>1, LoopEnds
    <2>5. CASE \E t \in Co!Threads : Co!Wakeup(t)
      <3>1. \E t \in Co!Threads : owes' = [owes EXCEPT ![t] = None]
        BY <2>5 DEF Co!Wakeup
      <3>2. \A t \in Senders : owes'[t] \in {owes[t], None}
        BY <1>2, <3>1, LoopsAre DEF LoopTypes
      <3> QED  BY <1>2, <2>5, <3>2, LoopWakes
    <2> QED  BY <2>1, <2>2, <2>3, <2>4, <2>5
  <1> HIDE DEF Co!connVars, Co!dataVars, Co!sockVars, Co!ghosts
  <1>4. SenderInv'
    BY <1>1, <1>2, <1>3, SendersKeep DEF Stages
  <1>5. ins' \in Nat /\ msgs' \in Nat /\ peer' \in Peers /\ sender' \in SenderStates /\ PeersMove
    BY <1>1, <1>2 DEF ConnTypes, Peers, SenderStates, PeersMove
  <1> QED  BY <1>1, <1>3, <1>4, <1>5, StepsAside

\* poll reports the channels that are in the poller: the open ones.
LEMMA LoopReports ==
  ASSUME ConnInv, NEW l \in Co!Loops, Co!Poll(l)
  PROVE  ConnInv'
  <1>1. UNCHANGED <<cstate, chan, loopOf, nextLoop, tcpmap, live, removed, failed, dangling,
                    wire, outbuf, accepted, fin, msgs, ins, peer, sender, owes>>
    BY DEF Co!Poll, Co!connVars, Co!dataVars, Co!sockVars, Co!ghosts
  <1>2. LoopInv /\ LoopTypes /\ ConnTypes /\ LifeInv /\ DataInv
    BY DEF ConnInv, LoopInv, LifeInv
  <1>3. LoopInv' /\ Todo' = Todo
    BY <1>2, LoopPolls
  <1>4. PICK a \in Co!ReadySets(l) : active' = [active EXCEPT ![l] = a]
    BY <1>2, LoopPolls
  <1>5. Stages' = Stages /\ Indices' = Indices
    BY <1>1 DEF Stages, Indices
  <1>6. ActiveInv'
    <2> SUFFICES ASSUME NEW m \in Co!Loops, NEW c \in Conns
                 PROVE  /\ <<c, "accept">> \in active'[m] => m = Base /\ peer[c] = "waiting"
                        /\ <<c, "in">> \in active'[m] => loopOf[c] = m /\ Stages[c] = "open"
                        /\ <<c, "out">> \in active'[m] =>
                             /\ loopOf[c] = m
                             /\ Stages[c] = "open" \/ (Stages[c] = "Disconnected" /\ Indices[c] = "deleted")
      BY <1>1, <1>5 DEF ActiveInv
    <2>1. CASE m # l
      BY <1>2, <1>4, <2>1 DEF LifeInv, ActiveInv, LoopTypes
    <2>2. CASE m = l
      <3>1. active'[m] = a
        BY <1>2, <1>4, <2>2 DEF LoopTypes
      <3>2. /\ <<c, "accept">> \in a => l = Base /\ peer[c] = "waiting"
            /\ <<c, "in">> \in a \/ <<c, "out">> \in a => loopOf[c] = l /\ chan[c].index = "added"
        BY PollReports
      <3>3. chan[c].index = "added" => Stages[c] = "open"
        <4>1. Indices[c] = chan[c].index /\ Stages[c] \in {"none", "Connecting", "open", "Disconnected"}
          BY <1>2, StagesAre
        <4> QED  BY <1>2, <4>1 DEF LifeInv, Staged
      <3> QED  BY <2>2, <3>1, <3>2, <3>3
    <2> QED  BY <2>1, <2>2
  <1>7. ConnTypes' /\ PeerInv' /\ SenderInv' /\ GhostInv'
    BY <1>1, <1>2, <1>5 DEF LifeInv, ConnTypes, PeerInv, SenderInv, GhostInv
  <1>8. /\ Staged(Stages', Indices', loopOf', removed', tcpmap')
        /\ Orderly(Todo', Stages', Indices', loopOf', removed')
    BY <1>1, <1>2, <1>3, <1>5 DEF LifeInv
  <1>9. DataInv'
    BY <1>1, <1>2, <1>5, DataSame
  <1> QED  BY <1>3, <1>6, <1>7, <1>8, <1>9 DEF ConnInv, LifeInv

\* A thread finds a session, reads the state, and lets go of the session.
LEMMA SenderTurns ==
  ASSUME ConnInv, NEW t \in Senders,
         Co!TestState(t) \/ Co!Leave(t) \/ \E c \in Conns : Co!Find(t, c)
  PROVE  ConnInv'
  <1> USE DEF Co!loopVars, Co!connVars, Co!dataVars, Co!sockVars, Co!ghosts
  <1>1. UNCHANGED <<phase, active, pending, batch, done, wake, owes,
                    cstate, chan, loopOf, nextLoop, tcpmap, live, removed, failed, dangling,
                    wire, outbuf, accepted, fin, ins, peer>>
    BY DEF Co!TestState, Co!Leave, Co!Find
  <1>2. LoopInv /\ ConnTypes /\ SenderInv /\ PeerInv
    BY DEF ConnInv, LifeInv
  <1>3. LoopInv' /\ Todo' = Todo /\ Stages' = Stages
    BY <1>1, <1>2, LoopQuiet DEF Stages
  <1>4. sender' \in SenderStates /\ msgs' \in Nat /\ SenderInv'
    <2>1. CASE Co!TestState(t)
      <3>1. PICK a \in {"send", "leave"} :
              sender[t].at = "found" /\ sender' = [sender EXCEPT ![t].at = a] /\ msgs' = msgs
        BY <2>1, Zenon DEF Co!TestState
      <3>2. owes[t] = None
        BY <1>2, <3>1 DEF SenderInv
      <3> QED  BY <1>1, <1>2, <1>3, <3>1, <3>2 DEF ConnTypes, SenderStates, SenderInv
    <2>2. CASE Co!Leave(t)
      BY <1>1, <1>2, <1>3, <2>2 DEF ConnTypes, SenderStates, SenderInv, Co!Leave, Co!Idle
    <2>3. CASE \E c \in Conns : Co!Find(t, c)
      <3>1. PICK c \in Conns : Co!Find(t, c)
        BY <2>3
      <3>2. PICK s : s = [at |-> "found", conn |-> c, msg |-> msgs + 1]
        OBVIOUS
      <3>3. /\ sender[t].at = "idle" /\ c \in live /\ msgs' = msgs + 1
            /\ sender' = [sender EXCEPT ![t] = s]
        BY <3>1, <3>2 DEF Co!Find
      <3>4. Stages[c] = "open"
        BY <1>2, <3>3 DEF PeerInv
      <3>5. sender' \in SenderStates /\ msgs' \in Nat
        BY <1>2, <3>2, <3>3 DEF ConnTypes, SenderStates
      <3>6. owes[t] = None
        BY <1>2, <3>3 DEF SenderInv
      <3>7. sender'[t] = s /\ \A u \in Senders : u # t => sender'[u] = sender[u]
        BY <1>2, <3>3 DEF ConnTypes
      <3>8. SenderInv'
        BY <1>1, <1>2, <1>3, <3>2, <3>4, <3>6, <3>7 DEF SenderInv
      <3> QED  BY <3>5, <3>8
    <2> QED  BY <2>1, <2>2, <2>3
  <1> HIDE DEF Co!loopVars, Co!connVars, Co!dataVars, Co!sockVars, Co!ghosts
  <1>5. ins' \in Nat /\ peer' \in Peers /\ PeersMove
    BY <1>1, <1>2 DEF ConnTypes, Peers, PeersMove
  <1> QED  BY <1>1, <1>3, <1>4, <1>5, StepsAside

\* Active channels shrink.
LEMMA ActiveShrinks ==
  ASSUME LoopTypes, NEW l \in Co!Loops, NEW a, active' = [active EXCEPT ![l] = @ \ {a}]
  PROVE  /\ \A m \in Co!Loops : active'[m] \subseteq active[m]
         /\ a \notin active'[l]
  BY DEF LoopTypes

\* Of a connection that moves, only a write may still be due.
LEMMA ActiveMoves ==
  ASSUME ActiveInv, NEW c \in Conns, \A m \in Co!Loops : active'[m] \subseteq active[m],
         \A d \in Conns \ {c} : /\ loopOf'[d] = loopOf[d] /\ peer'[d] = peer[d]
                                /\ Stages'[d] = Stages[d] /\ Indices'[d] = Indices[d],
         \A m \in Co!Loops :
           /\ <<c, "accept">> \notin active'[m] /\ <<c, "in">> \notin active'[m]
           /\ <<c, "out">> \in active'[m] =>
                loopOf'[c] = m /\ Stages'[c] = "Disconnected" /\ Indices'[c] = "deleted"
  PROVE  ActiveInv'
  <1> SUFFICES ASSUME NEW l \in Co!Loops, NEW d \in Conns
               PROVE  /\ <<d, "accept">> \in active'[l] => l = Base /\ peer'[d] = "waiting"
                      /\ <<d, "in">> \in active'[l] => loopOf'[d] = l /\ Stages'[d] = "open"
                      /\ <<d, "out">> \in active'[l] =>
                           /\ loopOf'[d] = l
                           /\ Stages'[d] = "open" \/ (Stages'[d] = "Disconnected" /\ Indices'[d] = "deleted")
    BY DEF ActiveInv
  <1>1. \A e : <<d, e>> \in active'[l] => <<d, e>> \in active[l]
    OBVIOUS
  <1>2. CASE d = c
    BY <1>2
  <1>3. CASE d # c
    BY <1>1, <1>3 DEF ActiveInv
  <1> QED  BY <1>2, <1>3

\* Handlers without effect on the connection.
LEMMA HandlersAside ==
  ASSUME ConnInv, NEW l \in Co!Loops, NEW c \in Conns,
         Co!ReadError(l, c) \/ Co!IsDown(l, c) \/ (l = Base /\ Co!AcceptFails(c))
  PROVE  ConnInv'
  <1> USE DEF Co!connVars, Co!dataVars, Co!sockVars, Co!ghosts
  <1>1. UNCHANGED <<phase, pending, batch, done, wake, owes,
                    cstate, chan, loopOf, nextLoop, tcpmap, live, removed, failed, dangling,
                    wire, outbuf, accepted, fin, msgs, ins, sender>>
    BY DEF Co!ReadError, Co!IsDown, Co!AcceptFails
  <1>2. LoopInv /\ LoopTypes /\ ConnTypes /\ SenderInv /\ ActiveInv
    BY DEF ConnInv, LifeInv, LoopInv
  <1>3. PICK e : Co!Handles(l, c, e) /\ Co!Handled(l, c, e) /\ (l = Base /\ Co!AcceptFails(c) => e = "accept")
    <2>1. CASE l = Base /\ Co!AcceptFails(c)
      <3>1. Co!Handles(l, c, "accept") /\ Co!Handled(l, c, "accept")
        BY <2>1 DEF Co!AcceptFails
      <3> QED  BY <3>1
    <2>2. CASE Co!ReadError(l, c) /\ ~ (l = Base /\ Co!AcceptFails(c))
      <3>1. Co!Handles(l, c, "in") /\ Co!Handled(l, c, "in")
        BY <2>2 DEF Co!ReadError
      <3> QED  BY <2>2, <3>1
    <2>3. CASE Co!IsDown(l, c) /\ ~ (l = Base /\ Co!AcceptFails(c))
      <3>1. Co!Handles(l, c, "out") /\ Co!Handled(l, c, "out")
        BY <2>3 DEF Co!IsDown, Co!WriteTurn
      <3> QED  BY <2>3, <3>1
    <2> QED  BY <2>1, <2>2, <2>3
  <1>4. LoopInv' /\ Todo' = Todo /\ active' = [active EXCEPT ![l] = @ \ {<<c, e>>}]
    BY <1>1, <1>2, <1>3, LoopHandled
  <1>5. /\ \A m \in Co!Loops : active'[m] \subseteq active[m]
        /\ <<c, e>> \notin active'[l]
    BY <1>2, <1>4, ActiveShrinks, Zenon
  <1>6. peer' \in Peers /\ PeersMove
    <2>1. CASE Co!ReadError(l, c)
      BY <1>2, <2>1 DEF ConnTypes, Peers, PeersMove, Co!ReadError
    <2>2. CASE Co!IsDown(l, c)
      BY <1>2, <2>2 DEF ConnTypes, Peers, PeersMove, Co!IsDown
    <2>3. CASE l = Base /\ Co!AcceptFails(c)
      <3>1. peer' = [peer EXCEPT ![c] = "refused"]
        BY <2>3 DEF Co!AcceptFails
      <3>2. \A m \in Co!Loops : <<c, "accept">> \notin active'[m]
        BY <1>2, <1>3, <1>5, <2>3 DEF ActiveInv
      <3> QED  BY <1>2, <3>1, <3>2, Zenon DEF ConnTypes, Peers, PeersMove
    <2> QED  BY <2>1, <2>2, <2>3
  <1> HIDE DEF Co!connVars, Co!dataVars, Co!sockVars, Co!ghosts
  <1>7. SenderInv' /\ ins' \in Nat /\ msgs' \in Nat /\ sender' \in SenderStates
    BY <1>1, <1>2, SendersKeep DEF Stages, ConnTypes, SenderStates
  <1> QED  BY <1>1, <1>4, <1>5, <1>6, <1>7, StepsAside

\* Handlers that change the output or the state of an open connection.
LEMMA HandlersWork ==
  ASSUME ConnInv, NEW l \in Co!Loops, NEW c \in Conns, NEW e, Co!Handles(l, c, e), Co!Handled(l, c, e),
         UNCHANGED <<phase, pending, batch, done, wake, owes, loopOf, nextLoop, tcpmap, live,
                     removed, failed, dangling, msgs, ins, peer, sender>>,
         cstate' \in [Conns -> {"none", "Connecting", "Connected", "Disconnecting", "Disconnected"}],
         chan' \in [Conns -> Chans], Stages' = Stages, Indices' = Indices, DataInv'
  PROVE  ConnInv'
  <1>1. LoopInv /\ LoopTypes /\ ConnTypes /\ SenderInv /\ LifeInv
    BY DEF ConnInv, LifeInv, LoopInv
  <1>2. LoopInv' /\ Todo' = Todo /\ active' = [active EXCEPT ![l] = @ \ {<<c, e>>}]
    BY <1>1, LoopHandled
  <1>3. \A m \in Co!Loops : active'[m] \subseteq active[m]
    BY <1>1, <1>2, ActiveShrinks
  <1>4. ConnTypes'
    BY <1>1 DEF ConnTypes, Chans
  <1>5. SenderInv'
    BY <1>1, SendersKeep
  <1>6. LifeInv'
    BY <1>1, <1>2, <1>3, <1>4, <1>5, LifeStill
  <1> QED  BY <1>2, <1>6 DEF ConnInv

\* A handler runs for an open channel.
LEMMA HandlesOpen ==
  ASSUME ConnInv, NEW l \in Co!Loops, NEW c \in Conns
  PROVE  /\ Co!Handles(l, c, "in") => Stages[c] = "open" /\ loopOf[c] = l
         /\ Co!Handles(l, c, "out") => Stages[c] \in {"open", "Disconnected"}
  BY Zenon DEF ConnInv, LifeInv, ActiveInv, Co!Handles

\* A message arrives and its reply is sent.
LEMMA RequestStep ==
  ASSUME ConnInv, NEW l \in Co!Loops, NEW c \in Conns, Co!ReadRequest(l, c)
  PROVE  ConnInv'
  <1>1. /\ Co!Handles(l, c, "in") /\ Co!Handled(l, c, "in")
        /\ UNCHANGED <<phase, pending, batch, done, wake, owes, loopOf, nextLoop, tcpmap, live,
                       removed, failed, dangling, msgs, ins, peer, sender, cstate, fin>>
    BY DEF Co!ReadRequest, Co!ghosts
  <1>2. \/ \E n \in 0 .. 2 : Co!SendNow(c, <<"reply", ins>>, n)
        \/ UNCHANGED <<wire, outbuf, accepted, chan>>
    BY DEF Co!ReadRequest
  <1>3. ConnTypes /\ Staged(Stages, Indices, loopOf, removed, tcpmap) /\ DataInv
    BY DEF ConnInv, LifeInv
  <1>4. chan' \in [Conns -> Chans] /\ Stages' = Stages /\ Indices' = Indices /\ DataInv'
    <2>1. CASE \E n \in 0 .. 2 : Co!SendNow(c, <<"reply", ins>>, n)
      <3>1. <<"reply", ins>> \in Msgs
        BY <1>3 DEF ConnTypes, Msgs
      <3>2. PICK n \in 0 .. 2 : Co!SendNow(c, <<"reply", ins>>, n)
        BY <2>1
      <3>3. Stages[c] \in {"open", "Disconnected"}
        BY <1>1, HandlesOpen
      <3> QED  BY <1>1, <1>3, <3>1, <3>2, <3>3, SendNowFlows
    <2>2. CASE UNCHANGED <<wire, outbuf, accepted, chan>>
      <3>1. Stages' = Stages /\ Indices' = Indices /\ chan' \in [Conns -> Chans]
        BY <1>1, <1>3, <2>2 DEF Stages, Indices, ConnTypes, Chans
      <3> QED  BY <1>1, <1>3, <2>2, <3>1, DataSame
    <2> QED  BY <1>2, <2>1, <2>2
  <1>5. cstate' \in [Conns -> {"none", "Connecting", "Connected", "Disconnecting", "Disconnected"}]
    BY <1>1, <1>3 DEF ConnTypes
  <1> QED  BY <1>1, <1>4, <1>5, HandlersWork

\* shutdown waits for buffered output.
LEMMA BadFrameStep ==
  ASSUME ConnInv, NEW l \in Co!Loops, NEW c \in Conns, Co!ReadBadFrame(l, c)
  PROVE  ConnInv'
  <1>1. /\ Co!Handles(l, c, "in") /\ Co!Handled(l, c, "in") /\ Co!Shutdown(c)
        /\ UNCHANGED <<phase, pending, batch, done, wake, owes, loopOf, nextLoop, tcpmap, live,
                       removed, failed, dangling, msgs, ins, peer, sender, chan, wire, outbuf, accepted>>
    BY DEF Co!ReadBadFrame, Co!ghosts
  <1>2. ConnTypes /\ DataInv
    BY DEF ConnInv, LifeInv
  <1>3. Indices' = Indices /\ chan' \in [Conns -> Chans]
    BY <1>1, <1>2 DEF Indices, ConnTypes, Chans
  <1>4. CASE UNCHANGED <<cstate, fin>>
    <2>1. /\ Stages' = Stages
          /\ cstate' \in [Conns -> {"none", "Connecting", "Connected", "Disconnecting", "Disconnected"}]
      BY <1>2, <1>4 DEF Stages, ConnTypes
    <2>2. DataInv'
      BY <1>1, <1>2, <1>4, <2>1, DataSame
    <2> QED  BY <1>1, <1>3, <2>1, <2>2, HandlersWork
  <1>5. CASE ~ UNCHANGED <<cstate, fin>>
    <2>1. /\ cstate[c] = "Connected" /\ cstate' = [cstate EXCEPT ![c] = "Disconnecting"]
          /\ fin' = IF "w" \notin chan[c].events THEN fin \cup {c} ELSE fin
      BY <1>1, <1>5 DEF Co!Shutdown, Co!ShutdownInLoop
    <2>2. /\ Stages' = Stages /\ Stages[c] = "open"
          /\ cstate' \in [Conns -> {"none", "Connecting", "Connected", "Disconnecting", "Disconnected"}]
      BY <1>2, <2>1 DEF Stages, ConnTypes
    <2>3. Flows(wire[c], outbuf[c], accepted[c], chan[c].events, Stages[c], c \in fin)
      BY <1>2 DEF DataInv
    <2>4. Flows(wire[c], outbuf[c], accepted[c], chan[c].events, Stages[c], c \in fin')
      BY <2>1, <2>2, <2>3 DEF Flows
    <2>5. DataTypes' /\ \A d \in Conns \ {c} : d \in fin' <=> d \in fin
      BY <1>1, <1>2, <2>1 DEF DataInv, DataTypes
    <2>6. DataInv'
      BY <1>1, <1>2, <2>2, <2>4, <2>5, DataMoves
    <2> QED  BY <1>1, <1>3, <2>2, <2>6, HandlersWork
  <1> QED  BY <1>4, <1>5

\* handleWrite takes from the front of the buffer.
LEMMA WriteStep ==
  ASSUME ConnInv, NEW l \in Co!Loops, NEW c \in Conns, Co!HandleWrite(l, c)
  PROVE  ConnInv'
  <1>1. /\ Co!Handles(l, c, "out") /\ Co!Handled(l, c, "out") /\ "w" \in chan[c].events
        /\ UNCHANGED <<phase, pending, batch, done, wake, owes, loopOf, nextLoop, tcpmap, live,
                       removed, failed, dangling, msgs, ins, peer, sender, cstate, accepted>>
    BY DEF Co!HandleWrite, Co!WriteTurn, Co!ghosts, Co!sockVars
  <1>2. ConnTypes /\ DataInv /\ Staged(Stages, Indices, loopOf, removed, tcpmap)
    BY DEF ConnInv, LifeInv
  <1>3. /\ Stages' = Stages
        /\ cstate' \in [Conns -> {"none", "Connecting", "Connected", "Disconnecting", "Disconnected"}]
    BY <1>1, <1>2 DEF Stages, ConnTypes
  <1>4. CASE UNCHANGED <<wire, outbuf, chan, fin>>
    <2>1. Indices' = Indices /\ chan' \in [Conns -> Chans]
      BY <1>2, <1>4 DEF Indices, ConnTypes, Chans
    <2>2. DataInv'
      BY <1>1, <1>2, <1>3, <1>4, DataSame
    <2> QED  BY <1>1, <1>3, <2>1, <2>2, HandlersWork
  <1>5. CASE ~ UNCHANGED <<wire, outbuf, chan, fin>>
    <2>1. PICK w \in Seq(Parts), b \in Seq(Parts), a \in Seq(Parts) :
            w = wire[c] /\ b = outbuf[c] /\ a = accepted[c]
      BY <1>2 DEF DataInv, DataTypes
    <2>2. PICK ev \in SUBSET {"r", "w"} : ev = chan[c].events
      BY <1>2, Zenon DEF ConnTypes
    <2>3. PICK n \in 1 .. Len(b) :
            /\ wire' = [wire EXCEPT ![c] = @ \o SubSeq(b, 1, n)]
            /\ outbuf' = [outbuf EXCEPT ![c] = SubSeq(@, n + 1, Len(@))]
            /\ chan' = [chan EXCEPT ![c] =
                 IF n = Len(b) THEN Co!UpdateChannel(@, @.events \ {"w"}) ELSE @]
            /\ fin' = IF n = Len(b) /\ cstate[c] = "Disconnecting" THEN fin \cup {c} ELSE fin
      BY <1>5, <2>1 DEF Co!HandleWrite
    <2>4. ~ Co!Broken(c)
      BY <1>5 DEF Co!HandleWrite
    <2>5. /\ Stages[c] = "open" /\ Flows(w, b, a, ev, "open", c \in fin) /\ chan[c].index = "added"
          /\ "w" \in ev /\ c \notin fin
      <3>1. Flows(w, b, a, ev, Stages[c], c \in fin) /\ "w" \in ev
        BY <1>1, <1>2, <2>1, <2>2 DEF DataInv
      <3>2. Stages[c] = "open"
        BY <3>1 DEF Flows
      <3>3. Indices[c] = "added"
        BY <1>2, <3>2 DEF Staged
      <3> QED  BY <1>2, <2>4, <3>1, <3>2, <3>3, StagesAre DEF Co!Broken
    <2>6. PICK x, y :
            /\ x = w \o SubSeq(b, 1, n) /\ y = SubSeq(b, n + 1, Len(b))
      BY Zenon
    <2>7. x \in Seq(Parts) /\ y \in Seq(Parts) /\ x \o y = w \o b /\ (n = Len(b) <=> y = <<>>)
      BY <2>6, BufferCut, Zenon
    <2>8. PICK ch : ch = IF n = Len(b) THEN [events |-> ev \ {"w"}, index |-> "added"] ELSE chan[c]
      OBVIOUS
    <2>9. "r" \in ev
      BY <2>5 DEF Flows
    <2>10. /\ chan' = [chan EXCEPT ![c] = ch] /\ wire' = [wire EXCEPT ![c] = x]
           /\ outbuf' = [outbuf EXCEPT ![c] = y]
      <3>1. Co!UpdateChannel(chan[c], ev \ {"w"}) = [events |-> ev \ {"w"}, index |-> "added"]
        BY <2>9 DEF Co!UpdateChannel
      <3> QED  BY <2>1, <2>2, <2>3, <2>6, <2>8, <3>1, Zenon
    <2>11. ch \in Chans /\ ch.index = "added" /\ "r" \in ch.events
           /\ ("w" \in ch.events <=> n # Len(b))
      <3>1. chan[c] \in Chans
        BY <1>2 DEF ConnTypes, Chans
      <3> QED  BY <2>2, <2>5, <2>8, <2>9, <3>1 DEF Chans
    <2>12. chan' \in [Conns -> Chans] /\ Indices' = Indices
      BY <1>2, <2>5, <2>10, <2>11 DEF ConnTypes, Chans, Indices
    <2>13. Flows(x, y, a, ch.events, "open", c \in fin')
      BY <2>3, <2>5, <2>7, <2>11 DEF Flows
    <2>14. DataTypes'
      BY <1>1, <1>2, <2>7, <2>10 DEF DataInv, DataTypes
    <2>15. /\ wire'[c] = x /\ outbuf'[c] = y /\ chan'[c] = ch
           /\ \A d \in Conns \ {c} : /\ wire'[d] = wire[d] /\ outbuf'[d] = outbuf[d]
                                     /\ chan'[d] = chan[d] /\ (d \in fin' <=> d \in fin)
      BY <1>2, <2>3, <2>10, SMTT(30) DEF DataInv, DataTypes, ConnTypes
    <2>16. DataInv'
      BY <1>1, <1>2, <1>3, <2>1, <2>5, <2>13, <2>14, <2>15, DataMoves
    <2> QED  BY <1>1, <1>3, <2>12, <2>16, HandlersWork
  <1> QED  BY <1>4, <1>5

\* newConnection: the connection is in the map and will be established.
LEMMA NewStep ==
  ASSUME ConnInv, NEW c \in Conns, Co!NewConnection(c)
  PROVE  ConnInv'
  <1>1. LoopInv /\ LoopTypes /\ LifeInv /\ ConnTypes /\ DataInv /\ ActiveInv
    BY DEF ConnInv, LoopInv, LifeInv
  <1>2. PICK io \in Io : io = IoLoops[nextLoop]
    BY <1>1, LoopsAre DEF ConnTypes
  <1>3. PICK f : f = Co!Functor("established", c, None, FALSE)
    BY Zenon
  <1>4. f \in Fns /\ f.fn = "established" /\ f.conn = c
    BY <1>3 DEF Fns, Msgs, Co!Functor
  <1>5. /\ Co!Handles(Base, c, "accept") /\ Co!Handled(Base, c, "accept")
        /\ peer' = [peer EXCEPT ![c] = "up"] /\ nextLoop' = Co!NextIndex(nextLoop)
        /\ loopOf' = [loopOf EXCEPT ![c] = io] /\ cstate' = [cstate EXCEPT ![c] = "Connecting"]
        /\ tcpmap' = tcpmap \cup {c} /\ Co!QueueInLoop(Base, io, f)
        /\ UNCHANGED <<chan, live, ins, phase, batch, done, wake, wire, outbuf, accepted, fin, msgs,
                       sender, removed, dangling, failed>>
    BY <1>2, <1>3 DEF Co!NewConnection, Co!dataVars, Co!ghosts
  <1>6. Base \in Co!Loops /\ io \in Co!Loops
    BY <1>2, LoopsAre
  <1>7. /\ LoopInv' /\ Todo' = Pushed(Todo, io, f)
        /\ active' = [active EXCEPT ![Base] = @ \ {<<c, "accept">>}] /\ <<c, "accept">> \in active[Base]
        /\ owes' = [owes EXCEPT ![Base] = io]
    BY <1>1, <1>4, <1>5, <1>6, LoopHandledQueues
  <1>8. peer[c] = "waiting" /\ Stages[c] = "none" /\ cstate[c] = "none"
    <2>1. peer[c] = "waiting"
      BY <1>1, <1>6, <1>7 DEF ActiveInv
    <2>2. Stages[c] = "none"
      BY <1>1, <2>1 DEF LifeInv, PeerInv
    <2> QED  BY <1>1, <2>1, <2>2, StagesAre
  <1>9. /\ Indices' = Indices /\ Stages'[c] = "Connecting" /\ loopOf'[c] = io
        /\ \A d \in Conns \ {c} : Stages'[d] = Stages[d] /\ loopOf'[d] = loopOf[d] /\ peer'[d] = peer[d]
        /\ peer'[c] = "up"
    BY <1>1, <1>5 DEF ConnTypes, Stages, Indices
  <1>10. ConnTypes'
    <2>1. nextLoop' \in 1 .. Len(IoLoops)
      BY <1>1, <1>5, LoopsAre DEF ConnTypes, Co!NextIndex
    <2> QED  BY <1>1, <1>5, <2>1 DEF ConnTypes
  <1>11. Orderly(Todo', Stages', Indices', loopOf', removed')
    <2>1. Orderly(Pushed(Todo, io, f), Stages', Indices, loopOf', removed)
      BY <1>1, <1>4, <1>6, <1>8, <1>9, OrderlyNew DEF LifeInv
    <2> QED  BY <1>5, <1>7, <1>9, <2>1
  <1>12. Staged(Stages', Indices', loopOf', removed', tcpmap')
    BY <1>1, <1>5, <1>8, <1>9 DEF LifeInv, Staged
  <1>13. PeerInv' /\ GhostInv'
    BY <1>1, <1>5, <1>8, <1>9 DEF LifeInv, PeerInv, GhostInv
  <1>14. SenderInv'
    <2>1. \A t \in Senders : owes'[t] \in {owes[t], None}
      BY <1>1, <1>6, <1>7, OthersOwe
    <2>2. \A d \in Conns : Stages[d] \in {"open", "Disconnected"} => Stages'[d] \in {"open", "Disconnected"}
      BY <1>8, <1>9
    <2> QED  BY <1>1, <1>5, <2>1, <2>2, SendersKeep DEF LifeInv
  <1>15. ActiveInv'
    <2>1. /\ \A m \in Co!Loops : active'[m] \subseteq active[m]
          /\ <<c, "accept">> \notin active'[Base]
      BY <1>1, <1>6, <1>7, ActiveShrinks
    <2>2. \A m \in Co!Loops : /\ <<c, "accept">> \notin active'[m] /\ <<c, "in">> \notin active'[m]
                              /\ <<c, "out">> \notin active'[m]
      BY <1>1, <1>8, <2>1 DEF ActiveInv
    <2> QED  BY <1>1, <1>9, <2>1, <2>2, ActiveMoves
  <1>16. DataInv'
    <2>1. Flows(wire[c], outbuf[c], accepted[c], chan[c].events, "none", c \in fin) /\ DataTypes'
      BY <1>1, <1>5, <1>8 DEF DataInv, DataTypes
    <2>2. Flows(wire[c], outbuf[c], accepted[c], chan[c].events, "Connecting", c \in fin)
      BY <2>1 DEF Flows
    <2> QED  BY <1>1, <1>5, <1>9, <2>1, <2>2, DataMoves
  <1> QED  BY <1>7, <1>10, <1>11, <1>12, <1>13, <1>14, <1>15, <1>16 DEF ConnInv, LifeInv

\* connectEstablished: the channel is in the poller.
LEMMA UpStep ==
  ASSUME ConnInv, NEW l \in Co!Loops, NEW f, Co!ConnectEstablished(l, f)
  PROVE  ConnInv'
  <1>1. LoopInv /\ LoopTypes /\ LifeInv /\ ConnTypes /\ DataInv /\ ActiveInv
    BY DEF ConnInv, LoopInv, LifeInv
  <1>2. PICK c : c = f.conn
    OBVIOUS
  <1>3. /\ Co!IsNext(l, f) /\ f.fn = "established" /\ Co!Ran(l)
        /\ failed' = failed \cup {a \in {"established"} : cstate[c] /= "Connecting"}
        /\ cstate' = [cstate EXCEPT ![c] = "Connected"]
        /\ chan' = [chan EXCEPT ![c] = Co!UpdateChannel(@, {"r"})]
        /\ live' = live \cup {c}
        /\ UNCHANGED <<tcpmap, loopOf, nextLoop, phase, active, pending, batch, wake, owes,
                       peer, ins, wire, outbuf, accepted, fin, msgs, sender, removed, dangling>>
    BY <1>2 DEF Co!ConnectEstablished, Co!dataVars, Co!sockVars
  <1>4. /\ LoopInv' /\ Todo' = Popped(Todo, l) /\ Todo[l] # <<>> /\ f = Todo[l][1] /\ f \in Fns
    BY <1>1, <1>3, LoopRan
  <1>5. c \in Conns /\ c = Todo[l][1].conn /\ Todo[l][1].fn = "established"
    BY <1>2, <1>3, <1>4 DEF Fns
  <1>6. chan' = [chan EXCEPT ![c] = [events |-> {"r"}, index |-> "added"]]
    BY <1>3, Zenon DEF Co!UpdateChannel
  <1>7. /\ Stages'[c] = "open" /\ Indices'[c] = "added"
        /\ \A d \in Conns \ {c} : Stages'[d] = Stages[d] /\ Indices'[d] = Indices[d] /\ chan'[d] = chan[d]
        /\ chan'[c].events = {"r"}
    BY <1>1, <1>3, <1>5, <1>6 DEF ConnTypes, Stages, Indices
  <1>8. Orderly(Popped(Todo, l), Stages', Indices', loopOf, removed) /\ Stages[c] = "Connecting"
    BY <1>1, <1>4, <1>5, <1>7, OrderlyUp DEF LifeInv
  <1>9. cstate[c] = "Connecting"
    BY <1>1, <1>5, <1>8, StagesAre
  <1>10. ConnTypes'
    <2>1. chan' \in [Conns -> Chans]
      BY <1>1, <1>6 DEF ConnTypes, Chans
    <2> QED  BY <1>1, <1>3, <2>1 DEF ConnTypes, Chans
  <1>11. Orderly(Todo', Stages', Indices', loopOf', removed')
    BY <1>3, <1>4, <1>8
  <1>12. Staged(Stages', Indices', loopOf', removed', tcpmap')
    BY <1>1, <1>3, <1>5, <1>7, <1>8 DEF LifeInv, Staged
  <1>13. PeerInv'
    BY <1>1, <1>3, <1>5, <1>7, <1>8 DEF LifeInv, PeerInv
  <1>14. GhostInv'
    <2>1. failed' = failed
      BY <1>3, <1>9
    <2> QED  BY <1>1, <1>3, <2>1 DEF LifeInv, GhostInv
  <1>15. SenderInv'
    <2>1. \A d \in Conns : Stages[d] \in {"open", "Disconnected"} => Stages'[d] \in {"open", "Disconnected"}
      BY <1>7
    <2> QED  BY <1>1, <1>3, <2>1, SendersKeep DEF LifeInv
  <1>16. ActiveInv'
    <2>1. \A m \in Co!Loops : /\ <<c, "accept">> \notin active[m] /\ <<c, "in">> \notin active[m]
                              /\ <<c, "out">> \notin active[m]
      BY <1>1, <1>5, <1>8 DEF ActiveInv, LifeInv, PeerInv
    <2> QED  BY <1>1, <1>3, <1>5, <1>7, <2>1, ActiveMoves
  <1>17. DataInv'
    <2>1. Flows(wire[c], outbuf[c], accepted[c], chan[c].events, "Connecting", c \in fin) /\ DataTypes'
      BY <1>1, <1>3, <1>5, <1>8 DEF DataInv, DataTypes
    <2>2. Flows(wire[c], outbuf[c], accepted[c], {"r"}, "open", c \in fin)
      BY <2>1 DEF Flows
    <2> QED  BY <1>1, <1>3, <1>5, <1>7, <2>1, <2>2, DataMoves, Zenon
  <1> QED  BY <1>4, <1>10, <1>11, <1>12, <1>13, <1>14, <1>15, <1>16, <1>17 DEF ConnInv, LifeInv

\* handleClose: the channel polls for nothing, and the base loop is told.
LEMMA DownStep ==
  ASSUME ConnInv, NEW l \in Co!Loops, NEW c \in Conns, Co!HandleClose(l, c)
  PROVE  ConnInv'
  <1>1. LoopInv /\ LoopTypes /\ LifeInv /\ ConnTypes /\ DataInv /\ ActiveInv
    BY DEF ConnInv, LoopInv, LifeInv
  <1>2. PICK f : f = Co!Functor("remove", c, None, FALSE)
    OBVIOUS
  <1>3. f \in Fns /\ f.fn = "remove" /\ f.conn = c
    BY <1>2 DEF Fns, Msgs, Co!Functor
  <1>4. /\ Co!Handles(l, c, "in") /\ Co!Handled(l, c, "in")
        /\ failed' = failed \cup {a \in {"close"} : cstate[c] \notin {"Connected", "Disconnecting"}}
        /\ cstate' = [cstate EXCEPT ![c] = "Disconnected"]
        /\ chan' = [chan EXCEPT ![c] = Co!DisableAll(@)]
        /\ live' = live \ {c} /\ Co!QueueInLoop(l, Base, f)
        /\ UNCHANGED <<peer, ins, phase, batch, done, wake, tcpmap, loopOf, nextLoop,
                       wire, outbuf, accepted, fin, msgs, sender, removed, dangling>>
    BY <1>2 DEF Co!HandleClose, Co!dataVars, Co!sockVars, Co!OnClose
  <1>5. Base \in Co!Loops
    BY LoopsAre
  <1>6. /\ LoopInv' /\ Todo' = Pushed(Todo, Base, f)
        /\ active' = [active EXCEPT ![l] = @ \ {<<c, "in">>}] /\ owes' = [owes EXCEPT ![l] = Base]
    <2>1. /\ LoopInv /\ f \in Fns /\ Co!Handles(l, c, "in") /\ Co!Handled(l, c, "in")
          /\ Co!QueueInLoop(l, Base, f) /\ UNCHANGED <<phase, batch, done, wake>>
      BY <1>1, <1>3, <1>4
    <2>2. PICK e : e = "in"
      OBVIOUS
    <2>3. /\ Co!Handles(l, c, e) /\ Co!Handled(l, c, e)
      BY <2>1, <2>2
    <2>4. PICK b \in Co!Loops : b = Base
      BY <1>5
    <2>5. Co!QueueInLoop(l, b, f)
      BY <2>1, <2>4
    <2>6. /\ LoopInv' /\ Todo' = Pushed(Todo, b, f)
          /\ active' = [active EXCEPT ![l] = @ \ {<<c, e>>}] /\ owes' = [owes EXCEPT ![l] = b]
      BY <2>1, <2>3, <2>5, LoopHandledQueues, ZenonT(60)
    <2> QED  BY <2>2, <2>4, <2>6
  <1>7. Stages[c] = "open" /\ loopOf[c] = l
    BY <1>4, HandlesOpen
  <1>8. Indices[c] = "added" /\ chan[c].index = "added" /\ cstate[c] \in {"Connected", "Disconnecting"}
    <2>1. Indices[c] = "added"
      BY <1>1, <1>7 DEF LifeInv, Staged
    <2> QED  BY <1>1, <1>7, <2>1, StagesAre
  <1>9. chan' = [chan EXCEPT ![c] = [events |-> {}, index |-> "deleted"]]
    BY <1>4, <1>8 DEF Co!DisableAll, Co!UpdateChannel
  <1>10. /\ Stages'[c] = "Disconnected" /\ Indices'[c] = "deleted" /\ chan'[c].events = {}
         /\ \A d \in Conns \ {c} : Stages'[d] = Stages[d] /\ Indices'[d] = Indices[d] /\ chan'[d] = chan[d]
    BY <1>1, <1>4, <1>9 DEF ConnTypes, Stages, Indices
  <1>11. ConnTypes'
    <2>1. chan' \in [Conns -> Chans]
      BY <1>1, <1>9 DEF ConnTypes, Chans
    <2> QED  BY <1>1, <1>4, <2>1 DEF ConnTypes, Chans
  <1>12. Orderly(Todo', Stages', Indices', loopOf', removed')
    <2>1. Orderly(Pushed(Todo, Base, f), Stages', Indices', loopOf, removed)
      BY <1>1, <1>3, <1>5, <1>7, <1>10, OrderlyDown DEF LifeInv
    <2> QED  BY <1>4, <1>6, <2>1
  <1>13. Staged(Stages', Indices', loopOf', removed', tcpmap')
    BY <1>1, <1>4, <1>7, <1>10 DEF LifeInv, Staged
  <1>14. PeerInv'
    BY <1>1, <1>4, <1>7, <1>10 DEF LifeInv, PeerInv
  <1>15. GhostInv'
    <2>1. failed' = failed
      BY <1>4, <1>8
    <2> QED  BY <1>1, <1>4, <2>1 DEF LifeInv, GhostInv
  <1>16. SenderInv'
    <2>1. \A t \in Senders : owes'[t] \in {owes[t], None}
      BY <1>1, <1>6, OthersOwe, Zenon
    <2>2. \A d \in Conns : Stages[d] \in {"open", "Disconnected"} => Stages'[d] \in {"open", "Disconnected"}
      BY <1>10
    <2> QED  BY <1>1, <1>4, <2>1, <2>2, SendersKeep DEF LifeInv
  <1>17. ActiveInv'
    <2>1. /\ \A m \in Co!Loops : active'[m] \subseteq active[m]
          /\ <<c, "in">> \notin active'[l]
      BY <1>1, <1>6, ActiveShrinks, Zenon
    <2>2. \A m \in Co!Loops : /\ <<c, "accept">> \notin active'[m] /\ <<c, "in">> \notin active'[m]
                              /\ <<c, "out">> \in active'[m] => loopOf[c] = m
      BY <1>1, <1>7, <2>1 DEF ActiveInv, LifeInv, PeerInv
    <2> QED  BY <1>1, <1>4, <1>10, <2>1, <2>2, ActiveMoves
  <1>18. DataInv'
    <2>1. Flows(wire[c], outbuf[c], accepted[c], chan[c].events, "open", c \in fin) /\ DataTypes'
      BY <1>1, <1>4, <1>7 DEF DataInv, DataTypes
    <2>2. Flows(wire[c], outbuf[c], accepted[c], {}, "Disconnected", c \in fin)
      BY <2>1 DEF Flows
    <2> QED  BY <1>1, <1>4, <1>10, <2>1, <2>2, DataMoves
  <1> QED  BY <1>6, <1>11, <1>12, <1>13, <1>14, <1>15, <1>16, <1>17, <1>18 DEF ConnInv, LifeInv

\* removeConnectionInLoop: out of the map, connectDestroyed is on its way.
LEMMA RemoveStep ==
  ASSUME ConnInv, NEW l \in Co!Loops, NEW f, Co!RemoveConnectionInLoop(l, f)
  PROVE  ConnInv'
  <1>1. LoopInv /\ LoopTypes /\ BatchInv /\ LifeInv /\ ConnTypes /\ DataInv /\ ActiveInv
    BY DEF ConnInv, LoopInv, LifeInv
  <1>2. PICK c : c = f.conn
    OBVIOUS
  <1>3. PICK g : g = Co!Functor("destroyed", c, None, FALSE)
    BY Zenon
  <1>4. /\ Co!IsNext(l, f) /\ f.fn = "remove" /\ Co!Ran(l)
        /\ failed' = failed \cup {a \in {"erase"} : c \notin tcpmap}
        /\ tcpmap' = tcpmap \ {c} /\ removed' = removed \cup {c}
        /\ Co!QueueInLoop(l, loopOf[c], g)
        /\ UNCHANGED <<cstate, chan, live, loopOf, nextLoop, phase, active, batch, wake,
                       peer, ins, wire, outbuf, accepted, fin, msgs, sender, dangling>>
    BY <1>2, <1>3 DEF Co!RemoveConnectionInLoop, Co!dataVars, Co!sockVars
  <1>5. Todo[l] # <<>> /\ f = Todo[l][1] /\ f \in Fns
    BY <1>1, <1>4, TodoRan
  <1>6. c \in Conns /\ c = Todo[l][1].conn /\ Todo[l][1].fn = "remove"
    BY <1>2, <1>4, <1>5 DEF Fns
  <1>7. g \in Fns /\ g.fn = "destroyed" /\ g.conn = c
    BY <1>3, <1>6 DEF Fns, Msgs, Co!Functor
  <1>8. Fit(l, f, Stages, Indices, loopOf, removed)
    BY <1>1, <1>5, PopFits DEF LifeInv, Orderly
  <1>9. l = Base /\ Stages[c] = "Disconnected" /\ c \notin removed
    BY <1>2, <1>4, <1>8 DEF Fit
  <1>10. Indices[c] = "deleted" /\ loopOf[c] \in Io /\ c \in tcpmap
    BY <1>1, <1>6, <1>9 DEF LifeInv, Staged
  <1>11. loopOf[c] \in Co!Loops /\ loopOf[c] # l
    BY <1>9, <1>10, LoopsAre
  <1>12. /\ LoopInv' /\ Todo' = Pushed(Popped(Todo, l), loopOf[c], g)
         /\ owes' = [owes EXCEPT ![l] = loopOf[c]]
    BY <1>1, <1>4, <1>7, <1>11, LoopRanQueues
  <1>13. Stages' = Stages /\ Indices' = Indices
    BY <1>4 DEF Stages, Indices
  <1>14. Orderly(Todo', Stages', Indices', loopOf', removed')
    <2>1. Orderly(Pushed(Popped(Todo, l), loopOf[c], g), Stages, Indices, loopOf, removed \cup {c})
      BY <1>1, <1>5, <1>6, <1>7, <1>10, <1>11, OrderlyRemove DEF LifeInv
    <2> QED  BY <1>4, <1>12, <1>13, <2>1
  <1>15. Staged(Stages', Indices', loopOf', removed', tcpmap')
    BY <1>1, <1>4, <1>9, <1>10, <1>13 DEF LifeInv, Staged
  <1>16. ConnTypes' /\ PeerInv' /\ ActiveInv'
    BY <1>1, <1>4, <1>13 DEF LifeInv, ConnTypes, PeerInv, ActiveInv
  <1>17. GhostInv'
    <2>1. failed' = failed
      BY <1>4, <1>10
    <2> QED  BY <1>1, <1>4, <2>1 DEF LifeInv, GhostInv
  <1>18. SenderInv'
    <2>1. \A t \in Senders : owes'[t] \in {owes[t], None}
      BY <1>1, <1>12, OthersOwe
    <2> QED  BY <1>1, <1>4, <1>13, <2>1, SendersKeep DEF LifeInv
  <1>19. DataInv'
    BY <1>1, <1>4, <1>13, DataSame
  <1> QED  BY <1>12, <1>14, <1>15, <1>16, <1>17, <1>18, <1>19 DEF ConnInv, LifeInv

\* connectDestroyed: the channel polls for nothing and leaves the poller.
LEMMA GoneStep ==
  ASSUME ConnInv, NEW l \in Co!Loops, NEW f, Co!ConnectDestroyed(l, f)
  PROVE  ConnInv'
  <1>1. LoopInv /\ LoopTypes /\ LifeInv /\ ConnTypes /\ DataInv /\ ActiveInv
    BY DEF ConnInv, LoopInv, LifeInv
  <1>2. PICK c : c = f.conn
    OBVIOUS
  <1>3. /\ Co!IsNext(l, f) /\ f.fn = "destroyed" /\ Co!Ran(l)
        /\ failed' = failed \cup {a \in {"remove"} : chan[c].events /= {}}
        /\ chan' = [chan EXCEPT ![c] = Co!RemoveChannel(@)]
        /\ UNCHANGED <<cstate, tcpmap, live, loopOf, nextLoop, phase, active, pending, batch,
                       wake, owes, peer, ins, wire, outbuf, accepted, fin, msgs, sender, removed,
                       dangling>>
    BY <1>2 DEF Co!ConnectDestroyed, Co!dataVars, Co!sockVars
  <1>4. /\ LoopInv' /\ Todo' = Popped(Todo, l) /\ Todo[l] # <<>> /\ f = Todo[l][1] /\ f \in Fns
        /\ active[l] = {}
    BY <1>1, <1>3, LoopRan
  <1>5. c \in Conns /\ c = Todo[l][1].conn /\ Todo[l][1].fn = "destroyed"
    BY <1>2, <1>3, <1>4, SMTT(30) DEF Fns
  <1>6. /\ Stages' = Stages /\ Indices'[c] = "new" /\ chan'[c].events = chan[c].events
        /\ \A d \in Conns \ {c} : Indices'[d] = Indices[d] /\ chan'[d] = chan[d]
        /\ chan' \in [Conns -> Chans]
    <2>1. chan \in [Conns -> Chans] /\ cstate' = cstate
      BY <1>1, <1>3 DEF ConnTypes, Chans
    <2>2. PICK ch \in Chans : ch = Co!RemoveChannel(chan[c]) /\ ch.index = "new" /\ ch.events = chan[c].events
      <3>1. PICK k \in Chans : k = chan[c]
        BY <1>5, <2>1
      <3>2. /\ [k EXCEPT !.index = "new"] \in Chans /\ [k EXCEPT !.index = "new"].index = "new"
            /\ [k EXCEPT !.index = "new"].events = k.events
        BY DEF Chans
      <3> QED  BY <3>1, <3>2 DEF Co!RemoveChannel
    <2>3. chan' = [chan EXCEPT ![c] = ch]
      BY <1>3, <2>2
    <2> QED  BY <1>5, <2>1, <2>2, <2>3 DEF Stages, Indices
  <1>7. /\ Orderly(Popped(Todo, l), Stages, Indices', loopOf, removed)
        /\ Stages[c] = "Disconnected" /\ c \in removed /\ loopOf[c] = l
    BY <1>1, <1>4, <1>5, <1>6, OrderlyGone DEF LifeInv
  <1>8. Flows(wire[c], outbuf[c], accepted[c], chan[c].events, "Disconnected", c \in fin) /\ DataTypes'
    BY <1>1, <1>3, <1>5, <1>7 DEF DataInv, DataTypes
  <1>9. Orderly(Todo', Stages', Indices', loopOf', removed')
    BY <1>3, <1>4, <1>6, <1>7
  <1>10. Staged(Stages', Indices', loopOf', removed', tcpmap')
    BY <1>1, <1>3, <1>5, <1>6, <1>7 DEF LifeInv, Staged
  <1>11. ConnTypes' /\ PeerInv'
    BY <1>1, <1>3, <1>6 DEF LifeInv, PeerInv, ConnTypes, Chans
  <1>12. GhostInv'
    <2>1. failed' = failed
      BY <1>3, <1>8 DEF Flows
    <2> QED  BY <1>1, <1>3, <2>1 DEF LifeInv, GhostInv
  <1>13. SenderInv'
    BY <1>1, <1>3, <1>6, SendersKeep DEF LifeInv
  <1>14. ActiveInv'
    <2>1. \A m \in Co!Loops : /\ <<c, "accept">> \notin active[m] /\ <<c, "in">> \notin active[m]
                              /\ <<c, "out">> \notin active[m]
      BY <1>1, <1>4, <1>5, <1>7, SMTT(30) DEF ActiveInv, LifeInv, PeerInv
    <2> QED  BY <1>1, <1>3, <1>5, <1>6, <2>1, ActiveMoves
  <1>15. DataInv'
    BY <1>1, <1>3, <1>5, <1>6, <1>7, <1>8, DataMoves
  <1> QED  BY <1>4, <1>9, <1>10, <1>11, <1>12, <1>13, <1>14, <1>15 DEF ConnInv, LifeInv

\* A functor that holds c and waits keeps it from being destroyed.
LEMMA WaitingHolds ==
  ASSUME LoopTypes, BatchInv, NEW l \in Co!Loops, NEW c, Ends(Todo[l], 0, c)
  PROVE  ~ Co!Destroyed(c)
  <1>1. PICK b \in Seq(Fns), p \in Seq(Fns) : b = batch[l] /\ p = pending[l]
    BY DEF LoopTypes
  <1>2. PICK d \in Nat : d = done[l] /\ d <= Len(b)
    BY <1>1 DEF LoopTypes, BatchInv
  <1>3. PICK j \in 1 .. Len(Left(b, d, p)) :
          Left(b, d, p)[j].fn = "destroyed" /\ Left(b, d, p)[j].conn = c
    BY <1>1, <1>2 DEF Ends, Todo
  <1>4. \/ \E i \in 1 .. Len(b) : Left(b, d, p)[j] = b[i]
        \/ \E i \in 1 .. Len(p) : Left(b, d, p)[j] = p[i]
    <2>1. /\ SubSeq(b, d + 1, Len(b)) \in Seq(Fns) /\ Len(SubSeq(b, d + 1, Len(b))) = Len(b) - d
          /\ \A i \in 1 .. Len(b) - d : SubSeq(b, d + 1, Len(b))[i] = b[d + i]
      BY <1>2, SMTT(30)
    <2>2. PICK s \in Seq(Fns) : s = SubSeq(b, d + 1, Len(b))
      BY <2>1, Zenon
    <2>3. /\ Len(s) = Len(b) - d /\ Len(b) \in Nat /\ Len(p) \in Nat
          /\ \A i \in 1 .. Len(b) - d : s[i] = b[d + i]
      BY <2>1, <2>2
    <2>4. /\ Len(s \o p) = Len(s) + Len(p)
          /\ \A i \in 1 .. Len(s) : (s \o p)[i] = s[i]
          /\ \A i \in 1 .. Len(p) : (s \o p)[Len(s) + i] = p[i]
      OBVIOUS
    <2>5. j \in 1 .. Len(s) + Len(p) /\ Left(b, d, p) = s \o p
      BY <2>2, <2>4 DEF Left
    <2>6. CASE j <= Len(s)
      <3>1. j \in 1 .. Len(s) /\ d + j \in 1 .. Len(b)
        BY <1>2, <2>3, <2>5, <2>6
      <3> QED  BY <2>3, <2>4, <2>5, <3>1
    <2>7. CASE j > Len(s)
      <3>0. Len(s) \in Nat /\ Len(p) \in Nat
        OBVIOUS
      <3>1. PICK n \in Nat, k \in Nat : n = Len(s) /\ k = Len(p)
        BY <3>0
      <3>2. j \in 1 .. n + k /\ j > n
        BY <2>5, <2>7, <3>1
      <3>3. j - n \in 1 .. k /\ j = n + (j - n)
        BY <3>2
      <3>4. PICK i \in 1 .. Len(p) : j = Len(s) + i
        BY <3>1, <3>3, Zenon
      <3> QED  BY <2>4, <2>5, <3>4
    <2> QED  BY <2>3, <2>5, <2>6, <2>7, SMTT(30)
  <1>5. \E f \in Co!Range(p) \cup Co!Range(b) : Co!Holds(f, c)
    <2>1. DOMAIN b = 1 .. Len(b) /\ DOMAIN p = 1 .. Len(p)
      OBVIOUS
    <2> QED  BY <1>3, <1>4, <2>1 DEF Co!Range, Co!Holds, Co!Holding
  <1> QED  BY <1>1, <1>5 DEF Co!Destroyed, Co!Referenced

\* A connection that is destroyed was removed and has left the poller.
LEMMA DestroyedIsGone ==
  ASSUME ConnInv, NEW c \in Conns, Co!Destroyed(c)
  PROVE  Stages[c] = "Disconnected" /\ c \in removed /\ Indices[c] = "new"
  <1>1. LoopTypes /\ BatchInv /\ LifeInv /\ ConnTypes
    BY DEF ConnInv, LoopInv, LifeInv
  <1>2. Stages[c] # "none" /\ c \notin tcpmap
    BY <1>1, StagesAre DEF Co!Destroyed, Co!Referenced
  <1>3. c \in removed
    BY <1>1, <1>2 DEF LifeInv, Staged
  <1>4. Stages[c] = "Disconnected" /\ loopOf[c] \in Co!Loops
    BY <1>1, <1>3 DEF LifeInv, Orderly
  <1>5. ~ Ends(Todo[loopOf[c]], 0, c)
    BY <1>1, <1>4, WaitingHolds
  <1> QED  BY <1>1, <1>3, <1>4, <1>5 DEF LifeInv, Orderly, Behind

\* The queued sendInLoop.
LEMMA SentStep ==
  ASSUME ConnInv, NEW l \in Co!Loops, NEW f, Co!SendInLoop(l, f)
  PROVE  ConnInv'
  <1>1. LoopInv /\ LoopTypes /\ BatchInv /\ LifeInv /\ ConnTypes /\ DataInv
    BY DEF ConnInv, LoopInv, LifeInv
  <1>2. PICK c, m : c = f.conn /\ m = f.msg
    OBVIOUS
  <1>3. /\ Co!IsNext(l, f) /\ f.fn = "send" /\ Co!Ran(l)
        /\ UNCHANGED <<cstate, tcpmap, live, loopOf, nextLoop, phase, active, pending, batch,
                       wake, owes, peer, ins, fin, msgs, sender, removed, failed>>
        /\ \/ Co!Destroyed(c) /\ dangling' = dangling \cup {f} /\ UNCHANGED <<wire, outbuf, accepted, chan>>
           \/ dangling' = dangling /\ \E n \in 0 .. 2 : Co!SendNow(c, m, n)
    BY <1>2 DEF Co!SendInLoop, Co!sockVars
  <1>4. /\ LoopInv' /\ Todo' = Popped(Todo, l) /\ Todo[l] # <<>> /\ f = Todo[l][1] /\ f \in Fns
    BY <1>1, <1>3, LoopRan
  <1>5. c \in Conns /\ m \in Msgs
    BY <1>2, <1>4 DEF Fns
  <1>6. Todo[l][1].fn = "send"
    BY <1>3, <1>4
  <1>7. /\ Orderly(Popped(Todo, l), Stages, Indices, loopOf, removed)
        /\ Fit(l, f, Stages, Indices, loopOf, removed)
        /\ c \in removed /\ ~ f.late => Ends(Todo[l], 0, c)
    BY <1>1, <1>2, <1>4, <1>6, OrderlySent DEF LifeInv
  <1>8. Stages[c] \in {"open", "Disconnected"} /\ f.late \in BOOLEAN
    BY <1>2, <1>3, <1>4, <1>7 DEF Fit, Fns
  <1>9. /\ chan' \in [Conns -> Chans] /\ Stages' = Stages /\ Indices' = Indices /\ DataInv' /\ GhostInv'
    <2>1. CASE Co!Destroyed(c) /\ dangling' = dangling \cup {f} /\ UNCHANGED <<wire, outbuf, accepted, chan>>
      <3>1. Stages' = Stages /\ Indices' = Indices /\ chan' \in [Conns -> Chans]
        BY <1>1, <1>3, <2>1 DEF Stages, Indices, ConnTypes, Chans
      <3>2. DataInv'
        BY <1>1, <1>3, <2>1, <3>1, DataSame
      <3>3. f.late
        BY <1>1, <1>5, <1>7, <1>8, <2>1, DestroyedIsGone, WaitingHolds
      <3> QED  BY <1>1, <1>3, <2>1, <3>1, <3>2, <3>3 DEF LifeInv, GhostInv
    <2>2. CASE dangling' = dangling /\ \E n \in 0 .. 2 : Co!SendNow(c, m, n)
      <3>1. chan' \in [Conns -> Chans] /\ Stages' = Stages /\ Indices' = Indices /\ DataInv'
        BY <1>1, <1>3, <1>5, <1>8, <2>2, SendNowFlows DEF LifeInv
      <3> QED  BY <1>1, <1>3, <2>2, <3>1 DEF LifeInv, GhostInv
    <2> QED  BY <1>3, <2>1, <2>2
  <1>10. Orderly(Todo', Stages', Indices', loopOf', removed')
    BY <1>3, <1>4, <1>7, <1>9
  <1>11. Staged(Stages', Indices', loopOf', removed', tcpmap')
    BY <1>1, <1>3, <1>9 DEF LifeInv
  <1>12. ConnTypes' /\ PeerInv' /\ ActiveInv'
    BY <1>1, <1>3, <1>9 DEF LifeInv, ConnTypes, Chans, PeerInv, ActiveInv
  <1>13. SenderInv'
    BY <1>1, <1>3, <1>9, SendersKeep DEF LifeInv
  <1> QED  BY <1>4, <1>9, <1>10, <1>11, <1>12, <1>13 DEF ConnInv, LifeInv

\* TcpConnection::send from another thread.
LEMMA SendsStep ==
  ASSUME ConnInv, NEW t \in Senders, Co!Send(t)
  PROVE  ConnInv'
  <1>1. LoopInv /\ LoopTypes /\ LifeInv /\ ConnTypes /\ DataInv /\ SenderInv
    BY DEF ConnInv, LoopInv, LifeInv
  <1>2. PICK c, f : /\ c = sender[t].conn
                    /\ f = Co!Functor("send", c, <<"chat", sender[t].msg>>, c \in removed)
    OBVIOUS
  <1>3. /\ sender[t].at = "send" /\ Co!QueueInLoop(t, loopOf[c], f)
        /\ sender' = [sender EXCEPT ![t].at = "leave"]
        /\ UNCHANGED <<phase, active, batch, done, wake, cstate, chan, tcpmap, live, loopOf, nextLoop,
                       peer, ins, wire, outbuf, accepted, fin, msgs, removed, dangling, failed>>
    BY <1>2 DEF Co!Send, Co!connVars, Co!sockVars, Co!dataVars, Co!ghosts
  <1>4. c \in Conns /\ Stages[c] \in {"open", "Disconnected"} /\ owes[t] = None
    BY <1>1, <1>2, <1>3 DEF SenderInv
  <1>5. loopOf[c] \in Co!Loops /\ t \in Co!Threads
    BY <1>1, <1>4, LoopsAre DEF LifeInv, Staged
  <1>6. f \in Fns /\ f.fn = "send" /\ f.conn = c /\ f.late = (c \in removed)
    <2>1. <<"chat", sender[t].msg>> \in Msgs /\ (c \in removed) \in BOOLEAN
      BY <1>1 DEF ConnTypes, Msgs
    <2> QED  BY <1>2, <1>4, <2>1 DEF Fns, Co!Functor
  <1>7. LoopInv' /\ Todo' = Pushed(Todo, loopOf[c], f) /\ owes' = [owes EXCEPT ![t] = loopOf[c]]
    BY <1>1, <1>3, <1>4, <1>5, <1>6, LoopSends
  <1>8. Stages' = Stages /\ Indices' = Indices
    BY <1>3 DEF Stages, Indices
  <1>9. Orderly(Todo', Stages', Indices', loopOf', removed')
    <2>1. Orderly(Pushed(Todo, loopOf[c], f), Stages, Indices, loopOf, removed)
      BY <1>1, <1>4, <1>5, <1>6, OrderlySend DEF LifeInv
    <2> QED  BY <1>3, <1>7, <1>8, <2>1
  <1>10. Staged(Stages', Indices', loopOf', removed', tcpmap')
    BY <1>1, <1>3, <1>8 DEF LifeInv
  <1>11. ConnTypes'
    BY <1>1, <1>3, Zenon DEF ConnTypes
  <1>12. PeerInv' /\ ActiveInv' /\ GhostInv'
    BY <1>1, <1>3, <1>8 DEF LifeInv, PeerInv, ActiveInv, GhostInv
  <1>13. SenderInv'
    <2>1. /\ sender'[t].at = "leave" /\ sender'[t].conn = sender[t].conn
          /\ \A u \in Senders \ {t} : sender'[u] = sender[u] /\ owes'[u] = owes[u]
      BY <1>1, <1>3, <1>5, <1>7, LoopsAre DEF ConnTypes, LoopTypes
    <2> QED  BY <1>1, <1>3, <1>8, <2>1 DEF SenderInv
  <1>14. DataInv'
    BY <1>1, <1>3, <1>8, DataSame
  <1> QED  BY <1>7, <1>9, <1>10, <1>11, <1>12, <1>13, <1>14 DEF ConnInv, LifeInv

-----------------------------------------------------------------------------
(* Connections: the invariant holds, and what follows from it *)

\* The invariant holds at the start.
LEMMA ConnInit == Co!Init => ConnInv
  <1> SUFFICES ASSUME Co!Init PROVE ConnInv
    OBVIOUS
  <1>1. LoopTypes /\ BatchInv /\ WakeInv
    <2>1. <<>> \in Seq(Fns) /\ Len(<<>>) = 0
      OBVIOUS
    <2>2. LoopTypes
      BY <2>1 DEF Co!Init, LoopTypes
    <2>3. BatchInv
      BY <2>1 DEF Co!Init, BatchInv
    <2> QED  BY <2>2, <2>3 DEF Co!Init, WakeInv
  <1>2. ConnTypes
    BY LoopsAre DEF Co!Init, ConnTypes, Co!Idle
  <1>3. /\ Stages = [c \in Conns |-> "none"] /\ Indices = [c \in Conns |-> "new"] /\ removed = {}
    BY DEF Co!Init, Stages, Indices
  <1>4. Staged(Stages, Indices, loopOf, removed, tcpmap) /\ PeerInv /\ SenderInv /\ ActiveInv /\ GhostInv
    BY <1>3 DEF Co!Init, Staged, PeerInv, SenderInv, ActiveInv, GhostInv, Co!Idle, Co!Threads
  <1>5. \A l \in Co!Loops : Todo[l] = <<>>
    <2>1. Left(<<>>, 0, <<>>) = <<>>
      <3>0. <<>> \in Seq(Fns)
        OBVIOUS
      <3>1. PICK q \in Seq(Fns) : q = <<>>
        BY <3>0, Zenon
      <3>2. Left(<<>>, 0, q) = q
        BY LeftEmpty
      <3> QED  BY <3>1, <3>2, Zenon
    <2> QED  BY <2>1 DEF Co!Init, Todo
  <1>6. Orderly(Todo, Stages, Indices, loopOf, removed)
    <2>1. <<>> \in Seq(Fns) /\ Len(<<>>) = 0 /\ 1 .. 0 = {}
      OBVIOUS
    <2>2. Todo \in Queues
      BY <1>5, <2>1 DEF Queues, Todo
    <2>3. \A l \in Co!Loops : 1 .. Len(Todo[l]) = {}
      BY <1>5, <2>1
    <2> QED  BY <1>3, <2>2, <2>3 DEF Orderly, Fitting, Alone, Behind
  <1>7. DataInv
    <2>1. <<>> \in Seq(Parts) /\ <<>> \o <<>> = <<>>
      OBVIOUS
    <2>2. DataTypes
      BY <2>1 DEF Co!Init, DataTypes
    <2>3. ASSUME NEW c \in Conns
          PROVE  Flows(wire[c], outbuf[c], accepted[c], chan[c].events, Stages[c], c \in fin)
      BY <1>3, <2>1 DEF Co!Init, Flows
    <2> QED  BY <2>2, <2>3 DEF DataInv
  <1> QED  BY <1>1, <1>2, <1>4, <1>6, <1>7 DEF ConnInv, LoopInv, LifeInv

\* Every step keeps it.
LEMMA ConnStep == ConnInv /\ [Co!Next]_connVars => ConnInv'
  <1> SUFFICES ASSUME ConnInv, [Co!Next]_connVars PROVE ConnInv'
    OBVIOUS
  <1>1. CASE UNCHANGED connVars
    <2>1. UNCHANGED <<phase, active, pending, batch, done, wake, owes,
                      cstate, chan, loopOf, nextLoop, tcpmap, live, removed, failed, dangling,
                      wire, outbuf, accepted, fin, msgs, ins, peer, sender>>
      BY <1>1 DEF connVars
    <2>2. LoopInv /\ ConnTypes /\ SenderInv
      BY DEF ConnInv, LifeInv
    <2>3. LoopInv' /\ Todo' = Todo
      BY <2>1, <2>2, LoopQuiet
    <2>4. SenderInv'
      BY <2>1, <2>2 DEF SenderInv, Stages
    <2>5. ins' \in Nat /\ msgs' \in Nat /\ peer' \in Peers /\ sender' \in SenderStates /\ PeersMove
      BY <2>1, <2>2 DEF ConnTypes, Peers, SenderStates, PeersMove
    <2> QED  BY <2>1, <2>3, <2>4, <2>5, StepsAside
  <1>2. CASE Co!Boot \/ \E t \in Co!Threads : Co!Wakeup(t)
    BY <1>2, LoopTurns DEF Co!Boot
  <1>3. CASE Co!Environment
    BY <1>3, ClientSteps, SenderTurns DEF Co!Environment
  <1>4. ASSUME NEW t \in Senders, Co!SenderStep(t) PROVE ConnInv'
    <2>1. t \in Co!Threads
      BY LoopsAre
    <2> QED  BY <1>2, <1>4, <2>1, SenderTurns, SendsStep DEF Co!SenderStep
  <1>5. ASSUME NEW l \in Co!Loops, Co!LoopStep(l) PROVE ConnInv'
    <2>1. CASE l = Base /\ \E c \in Conns : Co!NewConnection(c) \/ Co!AcceptFails(c)
      BY <2>1, NewStep, HandlersAside
    <2>2. CASE Co!Poll(l) \/ Co!Swap(l) \/ Co!EndFunctors(l) \/ Co!Wakeup(l)
      <3>1. l \in Co!Threads
        BY LoopsAre
      <3> QED  BY <2>2, <3>1, LoopReports, LoopTurns
    <2>3. CASE \E f \in Co!Range(batch[l]) :
                 \/ Co!ConnectEstablished(l, f) \/ Co!SendInLoop(l, f)
                 \/ Co!RemoveConnectionInLoop(l, f) \/ Co!ConnectDestroyed(l, f)
      BY <2>3, UpStep, SentStep, RemoveStep, GoneStep
    <2>4. CASE \E c \in Conns :
                 \/ Co!ReadRequest(l, c) \/ Co!ReadBadFrame(l, c) \/ Co!ReadError(l, c)
                 \/ Co!HandleClose(l, c) \/ Co!HandleWrite(l, c) \/ Co!IsDown(l, c)
      BY <2>4, RequestStep, BadFrameStep, HandlersAside, DownStep, WriteStep
    <2> QED  BY <1>5, <2>1, <2>2, <2>3, <2>4 DEF Co!LoopStep
  <1> QED  BY <1>1, <1>2, <1>3, <1>4, <1>5 DEF Co!Next

\* It implies the property the runs check.
LEMMA ConnInvSound == ConnInv => Co!ConnectionsSound
  <1> SUFFICES ASSUME ConnInv PROVE Co!ConnectionsSound
    OBVIOUS
  <1>1. LoopInv /\ LifeInv /\ DataInv /\ ConnTypes
    BY DEF ConnInv, LifeInv
  <1>2. Co!NoSleepOnWork
    BY <1>1 DEF Co!NoSleepOnWork, LoopInv, WakeInv
  <1>3. Co!AssertionsHold /\ Co!OnlyLateSendsDangle
    BY <1>1 DEF LifeInv, GhostInv, Co!AssertionsHold, Co!OnlyLateSendsDangle
  <1>4. Co!DestroyedIsDetached
    <2> SUFFICES ASSUME NEW c \in Conns, Co!Destroyed(c)
                 PROVE  /\ cstate[c] = "Disconnected"
                        /\ chan[c] = [events |-> {}, index |-> "new"]
                        /\ \A l \in Co!Loops, e \in {"in", "out"} : <<c, e>> \notin active[l]
      BY DEF Co!DestroyedIsDetached
    <2>1. Stages[c] = "Disconnected" /\ c \in removed /\ Indices[c] = "new"
      BY DestroyedIsGone
    <2>2. cstate[c] = "Disconnected" /\ chan[c].index = "new"
      BY <1>1, <2>1, StagesAre
    <2>3. chan[c].events = {}
      BY <1>1, <2>1 DEF DataInv, Flows
    <2>4. chan[c] = [events |-> {}, index |-> "new"]
      BY <1>1, <2>2, <2>3 DEF ConnTypes
    <2>5. \A l \in Co!Loops, e \in {"in", "out"} : <<c, e>> \notin active[l]
      BY <1>1, <2>1 DEF LifeInv, ActiveInv
    <2> QED  BY <2>2, <2>4, <2>5
  <1>5. Co!WireInOrder /\ Co!OutputIsFlushed
    <2> SUFFICES ASSUME NEW c \in Conns
                 PROVE  /\ wire[c] \o outbuf[c] = accepted[c]
                        /\ outbuf[c] /= <<>> /\ cstate[c] /= "Disconnected" => "w" \in chan[c].events
                        /\ c \in fin => outbuf[c] = <<>>
      BY DEF Co!WireInOrder, Co!OutputIsFlushed
    <2>1. Flows(wire[c], outbuf[c], accepted[c], chan[c].events, Stages[c], c \in fin)
      BY <1>1 DEF DataInv
    <2>2. cstate[c] # "Disconnected" => Stages[c] # "Disconnected"
      BY <1>1, StagesAre
    <2> QED  BY <2>1, <2>2 DEF Flows
  <1> QED  BY <1>2, <1>3, <1>4, <1>5 DEF Co!ConnectionsSound

\* While the connections run, their steps are those of Connections.
LEMMA ConnRuns ==
  [Next]_allVars /\ part = "connections" => part' = part /\ [Co!Next]_connVars
  BY DEF Next, Steps, allVars

\* EventLoop, TcpServer and TcpConnection hold together for any number of loops, connections,
\* sending threads and messages: no loop sleeps on queued functors, no assertion about a
\* connection's state fails, none is freed while polled, only a send that came after the close
\* is run on a freed one, and the wire gets what was sent, in order.
THEOREM ConnectionsStand == Spec => []ConnectionsSound
  <1> DEFINE Inv == part = "connections" => ConnInv
  <1>1. Init => Inv
    BY ConnInit DEF Init
  <1>2. Inv /\ [Next]_allVars => Inv'
    <2> SUFFICES ASSUME Inv, [Next]_allVars, part' = "connections" PROVE ConnInv'
      OBVIOUS
    <2>1. part = "connections" /\ [Co!Next]_connVars
      BY ConnRuns DEF Next, Steps, allVars
    <2> QED BY <2>1, ConnStep
  <1>3. Inv => ConnectionsSound
    BY ConnInvSound DEF ConnectionsSound
  <1> QED BY <1>1, <1>2, <1>3, PTL DEF Spec
=============================================================================
