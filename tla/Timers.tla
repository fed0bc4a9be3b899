------------------------------- MODULE Timers -------------------------------
(***************************************************************************)
(* TimerQueue: the timers of one EventLoop over a single timerfd.  Other   *)
(* threads add and cancel timers through the loop's functor queue; a timer *)
(* callback adds and cancels directly, while handleRead walks the list of  *)
(* expired timers.  A Timer is a heap object: its address is reused after  *)
(* delete, and a TimerId is the address with a sequence number.            *)
(*                                                                         *)
(* History variables: cancelled (by whom the id was cancelled), gone (how  *)
(* a timer ended), early (a callback that ran before its time).            *)
(***************************************************************************)
EXTENDS Integers, Sequences, FiniteSets

CONSTANTS
  Addrs,     \* heap addresses of Timer objects, numbers
  Delays,    \* delays and repeat intervals in ticks
  MaxSeq,    \* bound: timers created (Timer::s_numCreated_)
  MaxTime,   \* bound: ticks of the clock
  MaxCancels \* bound: calls of cancel

VARIABLES
  clock,     \* Timestamp::now()
  heap,      \* the Timer at each address, or Free
  timers,    \* timers_: <<expiration, address>>
  actives,   \* activeTimers_: <<address, sequence>>
  canceling, \* cancelingTimers_
  calling,   \* callingExpiredTimers_
  expired,   \* entries that getExpired returned and handleRead has still to run
  ran,       \* addresses of those it has run
  readAt,    \* the time handleRead took
  armed,     \* when the timerfd becomes readable, 0 when it is disarmed
  ops,       \* the loop's pending addTimerInLoop and cancelInLoop
  created,   \* s_numCreated_
  cancels,   \* calls of cancel so far
  issued,    \* address and sequence of every timer created
  reading,   \* those whose creator has still to read the sequence number
  held,      \* the TimerIds callers hold
  cancelled, \* <<sequence, where cancelInLoop ran>>
  fired,     \* <<sequence, cancelled before by>>
  gone,      \* sequences of timers that were deleted by a cancel
  early      \* sequences that ran before their expiration

queueVars == <<timers, actives, canceling, calling, expired, ran, readAt>>
bounds    == <<created, cancels, issued, reading, held>>
history   == <<cancelled, fired, gone, early>>
timerVars == <<clock, heap, queueVars, armed, ops, bounds, history>>

Free == [seq |-> 0, exp |-> 0, every |-> 0]
Timer(s, e, i) == [seq |-> s, exp |-> e, every |-> i]
Id(a) == <<a, heap[a].seq>>

Init ==
  /\ clock = 1
  /\ heap = [a \in Addrs |-> Free]
  /\ timers = {} /\ actives = {} /\ canceling = {}
  /\ calling = FALSE
  /\ expired = {} /\ ran = {} /\ readAt = 0
  /\ armed = 0
  /\ ops = <<>>
  /\ created = 0 /\ cancels = 0 /\ issued = {} /\ reading = {} /\ held = {}
  /\ cancelled = {} /\ fired = {} /\ gone = {} /\ early = {}

Tick ==
  /\ clock < MaxTime
  /\ clock' = clock + 1
  /\ UNCHANGED <<heap, queueVars, armed, ops, bounds, history>>

-----------------------------------------------------------------------------
(* timers_ and the timerfd *)

Earlier(e, f) == e[1] < f[1] \/ (e[1] = f[1] /\ e[2] < f[2])
First(T) == CHOOSE e \in T : \A f \in T : e = f \/ Earlier(e, f)

\* howMuchTimeFromNow: never in the past.
FromNow(when) == IF when > clock THEN when ELSE clock

\* insert: the new entry is the first one.
EarliestChanged(T, e) == T = {} \/ e[1] < First(T)[1]

\* new Timer, by the caller of addTimer.
New(a, d, i) ==
  /\ heap[a] = Free
  /\ created < MaxSeq
  /\ created' = created + 1
  /\ heap' = [heap EXCEPT ![a] = Timer(created + 1, clock + d, i)]
  /\ issued' = issued \cup {<<a, created + 1>>}

\* addTimerInLoop, for the timer t at address a.
AddTimerInLoop(a, t) ==
  /\ timers' = timers \cup {<<t.exp, a>>}
  /\ actives' = actives \cup {<<a, t.seq>>}
  /\ armed' = IF EarliestChanged(timers, <<t.exp, a>>) THEN FromNow(t.exp) ELSE armed

\* cancelInLoop: an active timer (address and sequence) is erased and deleted; one that is being
\* called is remembered, so that reset does not insert it again.
CancelInLoop(id, by) ==
  /\ cancelled' = cancelled \cup {<<id[2], by>>}
  /\ IF id \in actives
     THEN /\ timers' = timers \ {<<heap[id[1]].exp, id[1]>>}
          /\ actives' = actives \ {id}
          /\ gone' = gone \cup {id[2]}
          /\ heap' = [heap EXCEPT ![id[1]] = Free]
          /\ UNCHANGED canceling
     ELSE /\ canceling' = IF calling THEN canceling \cup {id} ELSE canceling
          /\ UNCHANGED <<timers, actives, gone, heap>>

-----------------------------------------------------------------------------
(* Calls from other threads go through runInLoop *)

AddTimer(a, d, i) ==
  /\ New(a, d, i)
  /\ ops' = Append(ops, [op |-> "add", id |-> <<a, created + 1>>])
  /\ reading' = reading \cup {<<a, created + 1>>}
  /\ UNCHANGED <<clock, queueVars, armed, cancels, held, history>>

\* addTimer makes the TimerId once the timer is queued, from timer->sequence().
\* By then the timer may have run and be deleted, and the address be another
\* timer's, whose number the caller gets.  Of freed memory the model reads the
\* old number; any other that no timer has cancels nothing either.
ReadSequence(x) ==
  /\ x \in reading
  /\ reading' = reading \ {x}
  /\ held' = held \cup {IF heap[x[1]] = Free THEN x ELSE Id(x[1])}
  /\ UNCHANGED <<clock, heap, queueVars, armed, ops, created, cancels, issued, history>>

Cancel(id) ==
  /\ id \in held
  /\ cancels < MaxCancels
  /\ cancels' = cancels + 1
  /\ ops' = Append(ops, [op |-> "cancel", id |-> id])
  /\ UNCHANGED <<clock, heap, queueVars, armed, created, issued, reading, held, history>>

\* doPendingFunctors runs the next of them; no callback is running then.
RunAdd ==
  /\ ~ calling
  /\ ops /= <<>> /\ Head(ops).op = "add"
  /\ ops' = Tail(ops)
  /\ AddTimerInLoop(Head(ops).id[1], heap[Head(ops).id[1]])
  /\ UNCHANGED <<clock, heap, canceling, calling, expired, ran, readAt, bounds, history>>

RunCancel ==
  /\ ~ calling
  /\ ops /= <<>> /\ Head(ops).op = "cancel"
  /\ ops' = Tail(ops)
  /\ CancelInLoop(Head(ops).id, "loop")
  /\ UNCHANGED <<clock, armed, calling, expired, ran, readAt, bounds, fired, early>>

-----------------------------------------------------------------------------
(* TimerQueue::handleRead *)

\* getExpired: the entries up to now.
GetExpired(now) == {e \in timers : e[1] <= now}

\* getExpired erases the timers it returns from activeTimers_ too.
Deactivated(E) == actives \ {Id(e[2]) : e \in E}

HandleRead ==
  LET E == GetExpired(clock)
  IN /\ ~ calling
     /\ armed /= 0 /\ armed <= clock
     /\ armed' = 0
     /\ readAt' = clock
     /\ timers' = timers \ E
     /\ actives' = Deactivated(E)
     /\ expired' = E
     /\ ran' = {}
     /\ calling' = TRUE
     /\ canceling' = {}
     /\ UNCHANGED <<clock, heap, ops, bounds, history>>

\* The sequence numbers of timers whose id was cancelled before, and where.
CancelledBy(s) == {c[2] : c \in {x \in cancelled : x[1] = s}}

\* The next callback starts: the vector is in order of expiration and address.
Runs(a) ==
  /\ calling
  /\ expired /= {}
  /\ a = First(expired)[2]
  /\ expired' = expired \ {First(expired)}
  /\ ran' = ran \cup {a}
  /\ fired' = fired \cup {<<heap[a].seq, CancelledBy(heap[a].seq)>>}
  /\ early' = IF heap[a].exp > clock THEN early \cup {heap[a].seq} ELSE early

Callback(a) ==
  /\ Runs(a)
  /\ UNCHANGED <<clock, heap, timers, actives, canceling, calling, readAt, armed, ops,
                 bounds, cancelled, gone>>

\* Another thread's addTimer for id has not reached the loop yet.
AddPending(id) == \E i \in 1 .. Len(ops) : ops[i] = [op |-> "add", id |-> id]

\* The callback cancels a timer: its own, another expired one, a waiting or
\* a long deleted one.
CallbackCancels(a, id) ==
  /\ Runs(a)
  /\ id \in held
  /\ cancels < MaxCancels
  /\ cancels' = cancels + 1
  /\ CancelInLoop(id, IF AddPending(id) THEN "overtook" ELSE "callback")
  /\ UNCHANGED <<clock, calling, readAt, armed, ops, created, issued, reading, held>>

\* The callback adds a timer; on the loop's own thread it is still there when its
\* number is read.
CallbackAdds(a, b, d, i) ==
  /\ Runs(a)
  /\ New(b, d, i)
  /\ AddTimerInLoop(b, Timer(created + 1, clock + d, i))
  /\ held' = held \cup {<<b, created + 1>>}
  /\ UNCHANGED <<clock, canceling, calling, readAt, ops, cancels, reading, cancelled, gone>>

\* Mutant: a repeating timer is inserted again whatever its callback did.
Again_Always(a) == heap[a].every > 0

\* reset keeps the repeating timers that were not cancelled meanwhile.
Again(a) == heap[a].every > 0 /\ Id(a) \notin canceling

\* Mutant: reset leaves the timerfd as it is.
NextArmed_Kept(T) == armed

\* reset sets the timerfd to the first timer left.
NextArmed(T) == IF T = {} THEN armed ELSE FromNow(First(T)[1])

Reset ==
  LET A == {a \in ran : Again(a)}
      T == timers \cup {<<readAt + heap[a].every, a>> : a \in A}
  IN /\ calling
     /\ expired = {}
     /\ calling' = FALSE
     /\ heap' = [a \in Addrs |->
          IF a \in A THEN [heap[a] EXCEPT !.exp = readAt + heap[a].every]
          ELSE IF a \in ran THEN Free ELSE heap[a]]
     /\ timers' = T
     /\ actives' = actives \cup {Id(a) : a \in A}
     /\ armed' = NextArmed(T)
     /\ ran' = {}
     /\ UNCHANGED <<clock, canceling, expired, readAt, ops, bounds, history>>

-----------------------------------------------------------------------------

RunCallback ==
  \E a \in Addrs :
    \/ Callback(a)
    \/ \E id \in held : CallbackCancels(a, id)
    \/ \E b \in Addrs, d \in Delays, i \in {0} \cup Delays : CallbackAdds(a, b, d, i)

LoopStep == RunAdd \/ RunCancel \/ HandleRead \/ RunCallback \/ Reset

Next ==
  \/ Tick
  \/ \E a \in Addrs, d \in Delays, i \in {0} \cup Delays : AddTimer(a, d, i)
  \/ \E x \in reading : ReadSequence(x)
  \/ \E id \in held : Cancel(id)
  \/ LoopStep

\* Time goes on and the loop runs.
Fairness == WF_timerVars(Tick) /\ WF_timerVars(LoopStep)

Spec == Init /\ [][Next]_timerVars /\ Fairness

-----------------------------------------------------------------------------
(* Properties *)

\* The two indices name the same timers (the assertions on their sizes), each
\* at the address where that timer still is.
IndicesAgree ==
  /\ actives = {Id(e[2]) : e \in timers}
  /\ Cardinality(actives) = Cardinality(timers)
  /\ \A e \in timers : heap[e[2]] /= Free /\ heap[e[2]].exp = e[1]

\* A waiting timer is never forgotten: outside handleRead the timerfd is
\* armed, and not later than the first expiration needs.
ArmedForFirst ==
  ~ calling /\ timers /= {} => armed /= 0 /\ armed <= FromNow(First(timers)[1])

\* cancel is final: a timer cancelled through the loop does not run again; one
\* cancelled by a callback runs at most in the round that was under way.  The
\* exception: a cancel on the loop's own thread that overtakes the addTimer
\* another thread still has in the functor queue has no effect.
CancelIsFinal ==
  /\ \A f \in fired : "loop" \notin f[2]
  /\ ~ calling => \A x \in cancelled : x[2] /= "overtook" =>
       \A e \in timers : heap[e[2]].seq /= x[1]

\* A timer is deleted only by a cancel of its own id: a stale TimerId never deletes
\* the timer that got the same address.  (A TimerId read too late is the id of
\* that other timer, and does.)
CancelHitsItsOwn == \A s \in gone : CancelledBy(s) /= {}

\* No callback runs before its time.
NeverEarly == early = {}

\* Timers that are to run within the bound, have not run yet and are not
\* cancelled.
Due ==
  {s \in 1 .. MaxSeq :
     /\ \E e \in timers : heap[e[2]].seq = s /\ e[1] <= MaxTime
     /\ \A f \in fired : f[1] /= s
     /\ CancelledBy(s) = {}}

\* A timer whose time comes runs, unless it was cancelled (at most MaxSeq of
\* them exist, so it is enough that none stays due).
TimerFires == Due /= {} ~> Due = {}

\* TimerQueue keeps its two indices, its timerfd and its cancellations in step,
\* also when a callback cancels timers and an address is reused.
TimersSound ==
  /\ IndicesAgree
  /\ ArmedForFirst
  /\ CancelIsFinal
  /\ CancelHitsItsOwn
  /\ NeverEarly
=============================================================================
