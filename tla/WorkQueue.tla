----------------------------- MODULE WorkQueue -----------------------------
(***************************************************************************)
(* The three blocking queues of muduo base over one monitor: ThreadPool    *)
(* (bounded or not, with stop), BoundedBlockingQueue and BlockingQueue.    *)
(* Each behaviour uses one kind of queue, chosen at the start.             *)
(*                                                                         *)
(* A critical section is one step, as it holds mutex_.  A thread in        *)
(* Condition::wait is asleep until a notify picks it or it wakes           *)
(* spuriously; then it contends for the mutex and tests its loop again.    *)
(*                                                                         *)
(* History variables: accepted, taken.                                     *)
(***************************************************************************)
EXTENDS Integers, Sequences

CONSTANTS
  Workers,      \* threads that take
  Producers,    \* threads that put
  PerProducer,  \* bound: tasks each of them puts
  Capacity      \* maxQueueSize_ or maxSize of the bounded kinds

Kinds == {"pool", "poolUnbounded", "bounded", "blocking"}
Pools == {"pool", "poolUnbounded"}

VARIABLES
  kind,      \* which class is in use
  running,   \* ThreadPool::running_
  starting,  \* workers ThreadPool::start has still to start
  latch,     \* workers whose Thread::start waits on its latch
  wpc,       \* where each worker is
  ppc,       \* where each producer is
  put,       \* tasks each producer has put or had refused
  queue,     \* queue_
  holding,   \* the task a worker got from take
  accepted,  \* tasks that entered the queue, in order
  taken,     \* tasks that left it, in order
  stopping   \* ThreadPool::stop: "no", "join", "done"

wqVars == <<kind, running, starting, latch, wpc, ppc, put, queue, holding, accepted,
            taken, stopping>>

NoTask == <<>>
Task(p) == <<p, put[p] + 1>>

Init ==
  /\ kind \in Kinds
  /\ running = TRUE
  /\ starting = Workers
  /\ latch = {}
  /\ wpc = [w \in Workers |-> "new"]
  /\ ppc = [p \in Producers |-> "idle"]
  /\ put = [p \in Producers |-> 0]
  /\ queue = <<>>
  /\ holding = [w \in Workers |-> NoTask]
  /\ accepted = <<>> /\ taken = <<>>
  /\ stopping = "no"

-----------------------------------------------------------------------------
(* Condition *)

\* Mutant: nobody is woken.
NotifyOne_Nobody(pc) == {pc}

\* pthread_cond_signal: one of the sleepers, if there is one.
NotifyOne(pc) ==
  LET S == {t \in DOMAIN pc : pc[t] = "asleep"}
  IN IF S = {} THEN {pc} ELSE {[pc EXCEPT ![t] = "ready"] : t \in S}

NotifyAll(pc) == [t \in DOMAIN pc |-> IF pc[t] = "asleep" THEN "ready" ELSE pc[t]]

-----------------------------------------------------------------------------
(* Start: ThreadPool::start runs Thread::start for one worker after another *)

\* pthread_create; the starter waits on latch_.
ThreadStart(w) ==
  /\ latch = {}
  /\ w \in starting
  /\ starting' = starting \ {w}
  /\ latch' = {w}
  /\ UNCHANGED <<kind, running, wpc, ppc, put, queue, holding, accepted, taken, stopping>>

\* ThreadData::runInThread: countDown releases the starter; func_ begins.
RunInThread(w) ==
  /\ w \in latch
  /\ latch' = {}
  /\ wpc' = [wpc EXCEPT ![w] = "loop"]
  /\ UNCHANGED <<kind, running, starting, ppc, put, queue, holding, accepted, taken, stopping>>

-----------------------------------------------------------------------------
(* Putting *)

\* ThreadPool::isFull; circular_buffer::full.
IsFull == kind \in {"pool", "bounded"} /\ Len(queue) >= Capacity

Enqueued(p) ==
  /\ queue' = Append(queue, Task(p))
  /\ accepted' = Append(accepted, Task(p))
  /\ put' = [put EXCEPT ![p] = @ + 1]
  /\ ppc' = [ppc EXCEPT ![p] = "idle"]
  /\ wpc' \in NotifyOne(wpc)

Begins(p) == starting = {} /\ latch = {} /\ put[p] < PerProducer /\ ppc[p] \in {"idle", "ready"}

Sleeps(p) ==
  /\ ppc' = [ppc EXCEPT ![p] = "asleep"]
  /\ UNCHANGED <<wpc, put, queue, accepted>>

\* ThreadPool::run: waits while the queue is full; gives up when it stops.
Run(p) ==
  /\ kind \in Pools
  /\ Begins(p)
  /\ \/ IsFull /\ running /\ Sleeps(p)
     \/ ~ IsFull /\ running /\ Enqueued(p)
     \/ /\ ~ running
        /\ put' = [put EXCEPT ![p] = @ + 1]
        /\ ppc' = [ppc EXCEPT ![p] = "idle"]
        /\ UNCHANGED <<wpc, queue, accepted>>
  /\ UNCHANGED <<kind, running, starting, latch, holding, taken, stopping>>

\* BoundedBlockingQueue::put.
BoundedPut(p) ==
  /\ kind = "bounded"
  /\ Begins(p)
  /\ \/ IsFull /\ Sleeps(p)
     \/ ~ IsFull /\ Enqueued(p)
  /\ UNCHANGED <<kind, running, starting, latch, holding, taken, stopping>>

\* BlockingQueue::put.
BlockingPut(p) ==
  /\ kind = "blocking"
  /\ Begins(p)
  /\ Enqueued(p)
  /\ UNCHANGED <<kind, running, starting, latch, holding, taken, stopping>>

-----------------------------------------------------------------------------
(* Taking *)

\* The worker leaves the monitor with the first task.
Dequeued(w) ==
  /\ holding' = [holding EXCEPT ![w] = Head(queue)]
  /\ taken' = Append(taken, Head(queue))
  /\ queue' = Tail(queue)
  /\ wpc' = [wpc EXCEPT ![w] = "task"]

SleepsEmpty(w) ==
  /\ wpc' = [wpc EXCEPT ![w] = "asleep"]
  /\ UNCHANGED <<ppc, queue, holding, taken>>

Takes(w) == wpc[w] \in {"take", "ready"}

MustWait == queue = <<>> /\ running

\* ThreadPool::take: also returns, with no task, when the pool stops.
PoolTake(w) ==
  /\ kind \in Pools
  /\ Takes(w)
  /\ \/ MustWait /\ SleepsEmpty(w)
     \/ queue = <<>> /\ ~ MustWait /\ wpc' = [wpc EXCEPT ![w] = "loop"]
          /\ UNCHANGED <<ppc, queue, holding, taken>>
     \/ queue /= <<>> /\ Dequeued(w)
          /\ IF kind = "pool" THEN ppc' \in NotifyOne(ppc) ELSE UNCHANGED ppc
  /\ UNCHANGED <<kind, running, starting, latch, put, accepted, stopping>>

\* BoundedBlockingQueue::take.
BoundedTake(w) ==
  /\ kind = "bounded"
  /\ Takes(w)
  /\ \/ queue = <<>> /\ SleepsEmpty(w)
     \/ queue /= <<>> /\ Dequeued(w) /\ ppc' \in NotifyOne(ppc)
  /\ UNCHANGED <<kind, running, starting, latch, put, accepted, stopping>>

\* BlockingQueue::take.
BlockingTake(w) ==
  /\ kind = "blocking"
  /\ Takes(w)
  /\ \/ queue = <<>> /\ SleepsEmpty(w)
     \/ queue /= <<>> /\ Dequeued(w) /\ UNCHANGED ppc
  /\ UNCHANGED <<kind, running, starting, latch, put, accepted, stopping>>

\* BlockingQueue::drain, by another thread: everything at once.
Drain ==
  /\ kind = "blocking"
  /\ starting = {} /\ latch = {}
  /\ queue /= <<>>
  /\ taken' = taken \o queue
  /\ queue' = <<>>
  /\ UNCHANGED <<kind, running, starting, latch, wpc, ppc, put, holding, accepted, stopping>>

\* runInThread: while (running_), read without the mutex.
WorkerLoop(w) ==
  /\ wpc[w] = "loop"
  /\ wpc' = [wpc EXCEPT ![w] = IF running THEN "take" ELSE "exit"]
  /\ UNCHANGED <<kind, running, starting, latch, ppc, put, queue, holding, accepted, taken,
                 stopping>>

\* The task runs outside the monitor.
RunTask(w) ==
  /\ wpc[w] = "task"
  /\ holding' = [holding EXCEPT ![w] = NoTask]
  /\ wpc' = [wpc EXCEPT ![w] = "loop"]
  /\ UNCHANGED <<kind, running, starting, latch, ppc, put, queue, accepted, taken, stopping>>

\* Condition::wait may return without a notify.
SpuriousWakeup ==
  /\ \/ \E w \in Workers : wpc[w] = "asleep" /\ wpc' = [wpc EXCEPT ![w] = "ready"]
          /\ UNCHANGED ppc
     \/ \E p \in Producers : ppc[p] = "asleep" /\ ppc' = [ppc EXCEPT ![p] = "ready"]
          /\ UNCHANGED wpc
  /\ UNCHANGED <<kind, running, starting, latch, put, queue, holding, accepted, taken, stopping>>

-----------------------------------------------------------------------------
(* ThreadPool::stop *)

Woken == wpc' = NotifyAll(wpc) /\ ppc' = NotifyAll(ppc)

Stop ==
  /\ kind \in Pools
  /\ starting = {} /\ latch = {}
  /\ stopping = "no"
  /\ running' = FALSE
  /\ Woken
  /\ stopping' = "join"
  /\ UNCHANGED <<kind, starting, latch, put, queue, holding, accepted, taken>>

Join ==
  /\ stopping = "join"
  /\ \A w \in Workers : wpc[w] = "exit"
  /\ stopping' = "done"
  /\ UNCHANGED <<kind, running, starting, latch, wpc, ppc, put, queue, holding, accepted, taken>>

-----------------------------------------------------------------------------

WorkerStep(w) ==
  RunInThread(w) \/ PoolTake(w) \/ BoundedTake(w) \/ BlockingTake(w) \/ WorkerLoop(w) \/ RunTask(w)

ProducerStep(p) == Run(p) \/ BoundedPut(p) \/ BlockingPut(p)

StarterStep == Join \/ \E w \in Workers : ThreadStart(w)

Next ==
  \/ \E w \in Workers : WorkerStep(w)
  \/ \E p \in Producers : ProducerStep(p)
  \/ StarterStep \/ Stop \/ Drain \/ SpuriousWakeup

\* Every thread that can run is scheduled; a thread in a condition wait needs
\* a notify.
Fairness ==
  /\ \A w \in Workers : WF_wqVars(WorkerStep(w))
  /\ \A p \in Producers : WF_wqVars(ProducerStep(p))
  /\ WF_wqVars(StarterStep)

Spec == Init /\ [][Next]_wqVars /\ Fairness

-----------------------------------------------------------------------------
(* Properties *)

\* No lost wakeup: with work in the queue some worker is not asleep, and with
\* room in a bounded queue not every producer that waits for it is asleep.
QueueNeverStalls ==
  /\ queue /= <<>> => \E w \in Workers : wpc[w] /= "asleep"
  /\ ~ IsFull /\ (\E p \in Producers : ppc[p] = "asleep")
       => \E p \in Producers : ppc[p] = "ready"

\* A bounded queue never exceeds its capacity, and tasks leave in the order
\* they were accepted, none lost and none twice.
QueueKeepsAll ==
  /\ kind \in {"pool", "bounded"} => Len(queue) <= Capacity
  /\ accepted = taken \o queue
  /\ \A w \in Workers : holding[w] /= NoTask =>
       \E i \in 1 .. Len(taken) : {j \in 1 .. Len(taken) : taken[j] = holding[w]} = {i}

\* A producer that waits for room gets it, or learns that the pool stopped.
PutReturns ==
  (\E p \in Producers : ppc[p] \in {"asleep", "ready"}) ~> (\A p \in Producers : ppc[p] = "idle")

\* An accepted task is taken, unless the pool is stopped: with finitely many
\* tasks, the workers catch up with what was accepted.
TaskIsTaken == accepted /= taken ~> (accepted = taken \/ ~ running)

\* stop returns: every worker leaves its loop and is joined.
StopReturns == stopping = "join" ~> stopping = "done"

\* ThreadPool and the blocking queues lose neither a wakeup nor a task.
QueueSound ==
  /\ QueueNeverStalls
  /\ QueueKeepsAll
=============================================================================
