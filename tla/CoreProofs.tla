----------------------------- MODULE CoreProofs -----------------------------
(***************************************************************************)
(* Proofs about the queues, the wire format, the log, the dates and the    *)
(* zones of the C++ server.                                                *)
(*                                                                         *)
(* Queues: QueueNeverStalls is not inductive, it does not say how many     *)
(* producers a queue with room has woken.  RoomInv counts: as long as one  *)
(* of them is asleep, the producers on their way and the tasks queued fill *)
(* the queue.                                                              *)
(*                                                                         *)
(* Framing: the cells read and not yet taken out, and those still on the   *)
(* way, are one stream in which the frames that were sent and not yet      *)
(* delivered stand one behind another, up to the first damaged one.        *)
(*                                                                         *)
(* Log: every line that was appended and not dropped is in one place (the  *)
(* buffers of the front end, the round of the writer, a file), and the     *)
(* places stand in the order the lines came.                               *)
(*                                                                         *)
(* Dates: the arithmetic undoes itself on a year that begins in March, so  *)
(* the day counted is always the number of a date that exists.             *)
(*                                                                         *)
(* Zones: transitions are further apart than offsets differ, so a local    *)
(* time lies near one transition at most.                                  *)
(***************************************************************************)
EXTENDS MCServerCore, FiniteSetTheorems, SequenceTheorems, TLAPS

-----------------------------------------------------------------------------
(* Queues: the state *)

WorkerStates == {"new", "loop", "take", "asleep", "ready", "task", "exit"}
ProducerStates == {"idle", "asleep", "ready"}
Tasks == Producers \X Nat

\* Type correctness.
QueueTypes ==
  /\ kind \in Wq!Kinds
  /\ running \in BOOLEAN
  /\ wpc \in [Workers -> WorkerStates]
  /\ ppc \in [Producers -> ProducerStates]
  /\ put \in [Producers -> Nat]
  /\ queue \in Seq(Tasks)
  /\ queued \in Seq(Tasks)
  /\ taken \in Seq(Tasks)
  /\ holding \in [Workers -> Tasks \cup {Wq!NoTask}]

-----------------------------------------------------------------------------
(* Notifications *)

\* pthread_cond_signal leaves the states of all threads but one, and wakes one
\* if any is asleep.
LEMMA NotifyOneWakes ==
  ASSUME NEW T, NEW S, NEW pc \in [T -> S], "ready" \in S, NEW pd \in Wq!NotifyOne(pc)
  PROVE  /\ pd \in [T -> S]
         /\ \/ pd = pc /\ \A t \in T : pc[t] # "asleep"
            \/ \E t \in T : pc[t] = "asleep" /\ pd = [pc EXCEPT ![t] = "ready"]
  <1>1. DOMAIN pc = T
    OBVIOUS
  <1>2. CASE {t \in T : pc[t] = "asleep"} = {}
    BY <1>1, <1>2 DEF Wq!NotifyOne
  <1>3. CASE {t \in T : pc[t] = "asleep"} # {}
    <2>1. PICK t \in T : pc[t] = "asleep" /\ pd = [pc EXCEPT ![t] = "ready"]
      BY <1>1, <1>3 DEF Wq!NotifyOne
    <2> QED BY <2>1
  <1> QED BY <1>2, <1>3

\* The same for the workers' condition and for the producers'.
LEMMA WorkerNotified ==
  ASSUME NEW pc \in [Workers -> WorkerStates], NEW pd \in Wq!NotifyOne(pc)
  PROVE  /\ pd \in [Workers -> WorkerStates]
         /\ \/ pd = pc /\ \A t \in Workers : pc[t] # "asleep"
            \/ \E t \in Workers : pc[t] = "asleep" /\ pd = [pc EXCEPT ![t] = "ready"]
  <1>1. "ready" \in WorkerStates
    BY DEF WorkerStates
  <1> QED BY <1>1, NotifyOneWakes

\* As above.
LEMMA ProducerNotified ==
  ASSUME NEW pc \in [Producers -> ProducerStates], NEW pd \in Wq!NotifyOne(pc)
  PROVE  /\ pd \in [Producers -> ProducerStates]
         /\ \/ pd = pc /\ \A t \in Producers : pc[t] # "asleep"
            \/ \E t \in Producers : pc[t] = "asleep" /\ pd = [pc EXCEPT ![t] = "ready"]
  <1>1. "ready" \in ProducerStates
    BY DEF ProducerStates
  <1> QED BY <1>1, NotifyOneWakes

\* Types are kept.
LEMMA QueueTypesStep == QueueTypes /\ [Wq!Next]_wqVars => QueueTypes'
  <1> SUFFICES ASSUME QueueTypes, [Wq!Next]_wqVars PROVE QueueTypes'
    OBVIOUS
  <1> USE DEF QueueTypes
  <1>1. ASSUME NEW w \in Workers,
               Wq!ThreadStart(w) \/ Wq!RunInThread(w) \/ Wq!WorkerLoop(w) \/ Wq!RunTask(w)
        PROVE  QueueTypes'
    BY <1>1 DEF Wq!ThreadStart, Wq!RunInThread, Wq!WorkerLoop, Wq!RunTask, WorkerStates
  <1>2. ASSUME NEW p \in Producers, Wq!Enqueued(p), UNCHANGED <<kind, running, holding, taken>>
        PROVE  QueueTypes'
    <2>1. Wq!Task(p) \in Tasks
      BY DEF Wq!Task, Tasks
    <2>2. wpc' \in [Workers -> WorkerStates]
      BY <1>2, WorkerNotified DEF Wq!Enqueued
    <2>3. queue' \in Seq(Tasks) /\ queued' \in Seq(Tasks)
      BY <1>2, <2>1 DEF Wq!Enqueued
    <2> QED BY <1>2, <2>2, <2>3 DEF Wq!Enqueued, ProducerStates
  <1>3. ASSUME NEW p \in Producers, Wq!ProducerStep(p) PROVE QueueTypes'
    <2>1. ASSUME Wq!Sleeps(p), UNCHANGED <<kind, running, holding, taken>> PROVE QueueTypes'
      BY <2>1 DEF Wq!Sleeps, ProducerStates
    <2>2. ASSUME put' = [put EXCEPT ![p] = @ + 1], ppc' = [ppc EXCEPT ![p] = "idle"],
                 UNCHANGED <<wpc, queue, queued, kind, running, holding, taken>>
          PROVE  QueueTypes'
      BY <2>2 DEF ProducerStates
    <2> QED BY <1>2, <1>3, <2>1, <2>2 DEF Wq!ProducerStep, Wq!Run, Wq!BoundedPut, Wq!BlockingPut
  <1>4. ASSUME NEW w \in Workers, Wq!SleepsEmpty(w) \/ wpc' = [wpc EXCEPT ![w] = "loop"],
               UNCHANGED <<ppc, queue, holding, taken, kind, running, put, queued>>
        PROVE  QueueTypes'
    BY <1>4 DEF Wq!SleepsEmpty, WorkerStates
  <1>5. ASSUME NEW w \in Workers, queue # <<>>, Wq!Dequeued(w), ppc' = ppc \/ ppc' \in Wq!NotifyOne(ppc),
               UNCHANGED <<kind, running, put, queued>>
        PROVE  QueueTypes'
    <2>1. Head(queue) \in Tasks /\ Tail(queue) \in Seq(Tasks)
      BY <1>5
    <2>2. ppc' \in [Producers -> ProducerStates]
      BY <1>5, ProducerNotified
    <2> QED BY <1>5, <2>1, <2>2 DEF Wq!Dequeued, WorkerStates
  <1>6. ASSUME NEW w \in Workers, Wq!PoolTake(w) \/ Wq!BoundedTake(w) \/ Wq!BlockingTake(w)
        PROVE  QueueTypes'
    BY <1>4, <1>5, <1>6 DEF Wq!PoolTake, Wq!BoundedTake, Wq!BlockingTake, Wq!SleepsEmpty
  <1>7. CASE Wq!Drain
    BY <1>7 DEF Wq!Drain
  <1>8. CASE Wq!SpuriousWakeup
    BY <1>8 DEF Wq!SpuriousWakeup, WorkerStates, ProducerStates
  <1>9. CASE Wq!Stop
    BY <1>9 DEF Wq!Stop, Wq!Woken, Wq!NotifyAll, WorkerStates, ProducerStates
  <1>10. CASE Wq!Join
    BY <1>10 DEF Wq!Join
  <1>11. CASE UNCHANGED wqVars
    BY <1>11 DEF wqVars
  <1> QED BY <1>1, <1>3, <1>6, <1>7, <1>8, <1>9, <1>10, <1>11
            DEF Wq!Next, Wq!WorkerStep, Wq!StarterStep

-----------------------------------------------------------------------------
(* No wakeup is lost *)

\* Producers that were woken and have not entered the monitor yet.
Ready(pc) == {p \in Producers : pc[p] = "ready"}

\* As long as a producer is asleep, those that are ready would fill the queue.
Filling(pc, n) ==
  (\E p \in Producers : pc[p] = "asleep") => Cardinality(Ready(pc)) + n >= Capacity

\* With work in the queue some worker is awake; only full queues put producers
\* to sleep, and stop wakes all of them.
RoomInv ==
  /\ queue # <<>> => \E w \in Workers : wpc[w] # "asleep"
  /\ \A p \in Producers : ppc[p] = "asleep" => running /\ kind \in {"pool", "bounded"}
  /\ ~ running => kind \in Wq!Pools
  /\ Filling(ppc, Len(queue))

\* The producers that are ready can be counted.
LEMMA ReadyFinite ==
  ASSUME NEW pc PROVE IsFiniteSet(Ready(pc)) /\ Cardinality(Ready(pc)) \in Nat
  BY FS_Subset, FS_CardinalityType, QueueSizes DEF Ready

\* A producer that leaves the monitor has put one task.
LEMMA FillingPut ==
  ASSUME NEW pc \in [Producers -> ProducerStates], NEW n \in Nat, Filling(pc, n),
         NEW p \in Producers, pc[p] # "asleep"
  PROVE  Filling([pc EXCEPT ![p] = "idle"], n + 1)
  <1>1. PICK pd : pd = [pc EXCEPT ![p] = "idle"]
    OBVIOUS
  <1>2. Ready(pd) = Ready(pc) \ {p}
    BY <1>1 DEF Ready
  <1>3. Cardinality(Ready(pd)) + 1 >= Cardinality(Ready(pc))
    <2>1. IsFiniteSet(Ready(pc)) /\ Cardinality(Ready(pc)) \in Nat
      BY ReadyFinite
    <2>2. CASE p \in Ready(pc)
      <3>1. Cardinality(Ready(pc) \ {p}) = Cardinality(Ready(pc)) - 1
        BY <2>1, <2>2, FS_RemoveElement
      <3> QED BY <1>2, <2>1, <3>1
    <2>3. CASE p \notin Ready(pc)
      <3>1. Ready(pd) = Ready(pc)
        BY <1>2, <2>3
      <3> QED BY <2>1, <3>1
    <2> QED BY <2>2, <2>3
  <1>4. (\E q \in Producers : pd[q] = "asleep") => \E q \in Producers : pc[q] = "asleep"
    BY <1>1
  <1>5. Cardinality(Ready(pc)) \in Nat /\ Cardinality(Ready(pd)) \in Nat /\ Capacity \in Nat
    BY ReadyFinite, QueueSizes
  <1>6. Filling(pd, n + 1)
    BY <1>3, <1>4, <1>5 DEF Filling
  <1> QED BY <1>1, <1>6

\* A producer that wakes is one more on its way.
LEMMA FillingWake ==
  ASSUME NEW pc \in [Producers -> ProducerStates], NEW n \in Nat, Filling(pc, n),
         NEW p \in Producers, pc[p] = "asleep"
  PROVE  /\ Cardinality(Ready([pc EXCEPT ![p] = "ready"])) = Cardinality(Ready(pc)) + 1
         /\ Cardinality(Ready(pc)) + n >= Capacity
  <1>1. Ready([pc EXCEPT ![p] = "ready"]) = Ready(pc) \cup {p} /\ p \notin Ready(pc)
    BY DEF Ready
  <1>2. Cardinality(Ready(pc) \cup {p}) = Cardinality(Ready(pc)) + 1
    BY <1>1, ReadyFinite, FS_AddElement
  <1> QED BY <1>1, <1>2 DEF Filling

\* A task that is taken wakes one.
LEMMA FillingTake ==
  ASSUME NEW pc \in [Producers -> ProducerStates], NEW n \in Nat \ {0}, Filling(pc, n),
         NEW pd \in Wq!NotifyOne(pc)
  PROVE  Filling(pd, n - 1)
  <1>1. \/ pd = pc /\ \A t \in Producers : pc[t] # "asleep"
        \/ \E t \in Producers : pc[t] = "asleep" /\ pd = [pc EXCEPT ![t] = "ready"]
    BY ProducerNotified
  <1>2. CASE pd = pc /\ \A t \in Producers : pc[t] # "asleep"
    BY <1>2 DEF Filling
  <1>3. ASSUME NEW t \in Producers, pc[t] = "asleep", pd = [pc EXCEPT ![t] = "ready"]
        PROVE  Filling(pd, n - 1)
    <2>1. /\ Cardinality(Ready(pd)) = Cardinality(Ready(pc)) + 1
          /\ Cardinality(Ready(pc)) + n >= Capacity
      BY <1>3, FillingWake
    <2>2. Cardinality(Ready(pc)) \in Nat /\ Capacity \in Nat
      BY ReadyFinite, QueueSizes
    <2> QED BY <2>1, <2>2 DEF Filling
  <1> QED BY <1>1, <1>2, <1>3

\* Putting a task in wakes a worker, if all of them were asleep.
LEMMA PutRoom ==
  ASSUME QueueTypes, RoomInv, NEW p \in Producers, ppc[p] # "asleep", Wq!Enqueued(p),
         UNCHANGED <<kind, running>>
  PROVE  RoomInv'
  <1>1. \E w \in Workers : wpc'[w] # "asleep"
    <2>1. \/ wpc' = wpc /\ \A w \in Workers : wpc[w] # "asleep"
          \/ \E w \in Workers : wpc[w] = "asleep" /\ wpc' = [wpc EXCEPT ![w] = "ready"]
      BY WorkerNotified DEF Wq!Enqueued, QueueTypes
    <2> QED BY <2>1, QueueSizes DEF QueueTypes
  <1>2. Filling(ppc', Len(queue'))
    <2>1. Len(queue') = Len(queue) + 1 /\ Len(queue) \in Nat
      BY DEF Wq!Enqueued, QueueTypes
    <2> QED BY <2>1, FillingPut DEF Wq!Enqueued, QueueTypes, RoomInv
  <1>3. \A q \in Producers : ppc'[q] = "asleep" => running' /\ kind' \in {"pool", "bounded"}
    BY DEF Wq!Enqueued, QueueTypes, RoomInv
  <1> QED BY <1>1, <1>2, <1>3 DEF RoomInv

\* Taking one out wakes a producer, where one can be asleep.
LEMMA TakeRoom ==
  ASSUME QueueTypes, RoomInv, NEW w \in Workers, queue # <<>>, Wq!Dequeued(w),
         UNCHANGED <<kind, running>>,
         IF kind \in {"pool", "bounded"} THEN ppc' \in Wq!NotifyOne(ppc) ELSE ppc' = ppc
  PROVE  RoomInv'
  <1>1. \E x \in Workers : wpc'[x] # "asleep"
    BY DEF Wq!Dequeued, QueueTypes
  <1>2. \A p \in Producers : ppc'[p] = "asleep" => ppc[p] = "asleep"
    BY ProducerNotified DEF QueueTypes
  <1>3. Len(queue) \in Nat \ {0} /\ Len(queue') = Len(queue) - 1
    BY DEF QueueTypes, Wq!Dequeued
  <1>4. Filling(ppc', Len(queue'))
    <2>1. CASE kind \in {"pool", "bounded"}
      BY <1>3, <2>1, FillingTake DEF QueueTypes, RoomInv
    <2>2. CASE kind \notin {"pool", "bounded"}
      BY <1>2, <2>2 DEF RoomInv, Filling
    <2> QED BY <2>1, <2>2
  <1> QED BY <1>1, <1>2, <1>4 DEF RoomInv

\* Workers that wake or sleep on an empty queue change nothing for it.
LEMMA IdleRoom ==
  ASSUME RoomInv, UNCHANGED <<kind, running, ppc, queue>>,
         queue # <<>> => \E w \in Workers : wpc'[w] # "asleep"
  PROVE  RoomInv'
  BY DEF RoomInv, Filling, Ready

\* No step loses a wakeup.
LEMMA RoomStep ==
  ASSUME QueueTypes, RoomInv, [Wq!Next]_wqVars
  PROVE  RoomInv'
  <1>1. ASSUME NEW w \in Workers, NEW v \in WorkerStates \ {"asleep"}, wpc' = [wpc EXCEPT ![w] = v],
               UNCHANGED <<kind, running, ppc, queue>>
        PROVE  RoomInv'
    BY <1>1, IdleRoom DEF QueueTypes
  <1>2. ASSUME NEW w \in Workers, Wq!RunInThread(w) \/ Wq!WorkerLoop(w) \/ Wq!RunTask(w)
        PROVE  RoomInv'
    BY <1>1, <1>2 DEF Wq!RunInThread, Wq!WorkerLoop, Wq!RunTask, WorkerStates
  <1>3. ASSUME UNCHANGED <<kind, running, ppc, queue, wpc>> PROVE RoomInv'
    BY <1>3, IdleRoom DEF RoomInv
  <1>4. ASSUME NEW w \in Workers, Wq!PoolTake(w) \/ Wq!BoundedTake(w) \/ Wq!BlockingTake(w)
        PROVE  RoomInv'
    <2>1. CASE queue # <<>> /\ Wq!Dequeued(w)
      BY <1>4, <2>1, TakeRoom
          DEF Wq!PoolTake, Wq!BoundedTake, Wq!BlockingTake, Wq!SleepsEmpty, Wq!MustWait, Wq!Pools
    <2>2. CASE queue = <<>>
      BY <1>4, <2>2, IdleRoom DEF Wq!PoolTake, Wq!BoundedTake, Wq!BlockingTake, Wq!SleepsEmpty
    <2> QED BY <1>4, <2>1, <2>2 DEF Wq!PoolTake, Wq!BoundedTake, Wq!BlockingTake, Wq!MustWait
  <1>5. ASSUME NEW p \in Producers, Wq!IsFull, running, Wq!Sleeps(p), UNCHANGED <<kind, running>>
        PROVE  RoomInv'
    <2>1. Len(queue) >= Capacity /\ Len(queue) \in Nat /\ Capacity \in Nat
      BY <1>5, QueueSizes DEF Wq!IsFull, QueueTypes
    <2>2. Cardinality(Ready(ppc')) \in Nat
      BY ReadyFinite
    <2>3. Filling(ppc', Len(queue))
      BY <2>1, <2>2 DEF Filling
    <2>4. \A q \in Producers : ppc'[q] = "asleep" => running' /\ kind' \in {"pool", "bounded"}
      BY <1>5 DEF Wq!Sleeps, Wq!IsFull, RoomInv, QueueTypes
    <2> QED BY <1>5, <2>3, <2>4 DEF RoomInv, Wq!Sleeps
  <1>6. ASSUME NEW p \in Producers, Wq!Begins(p), ~ running, ppc' = [ppc EXCEPT ![p] = "idle"],
               UNCHANGED <<kind, running, wpc, queue>>
        PROVE  RoomInv'
    BY <1>6 DEF RoomInv, Filling, QueueTypes
  <1>7. ASSUME NEW p \in Producers, Wq!Begins(p), Wq!Enqueued(p), UNCHANGED <<kind, running>>
        PROVE  RoomInv'
    BY <1>7, PutRoom DEF Wq!Begins
  <1>8. ASSUME NEW p \in Producers, Wq!ProducerStep(p) PROVE RoomInv'
    <2>1. kind = "bounded" => running
      BY DEF RoomInv, Wq!Pools
    <2> QED BY <1>5, <1>6, <1>7, <1>8, <2>1
              DEF Wq!ProducerStep, Wq!Run, Wq!BoundedPut, Wq!BlockingPut
  <1>9. CASE Wq!Drain
    <2>1. queue' = <<>> /\ kind = "blocking" /\ UNCHANGED <<kind, running, ppc, wpc>>
      BY <1>9 DEF Wq!Drain
    <2> QED BY <2>1 DEF RoomInv, Filling
  <1>10. CASE Wq!Stop
    <2>1. \A p \in Producers : ppc'[p] # "asleep"
      BY <1>10 DEF Wq!Stop, Wq!Woken, Wq!NotifyAll, QueueTypes
    <2>2. \A w \in Workers : wpc'[w] # "asleep"
      BY <1>10 DEF Wq!Stop, Wq!Woken, Wq!NotifyAll, QueueTypes
    <2> QED BY <1>10, <2>1, <2>2, QueueSizes DEF RoomInv, Filling, Wq!Stop
  <1>11. ASSUME NEW p \in Producers, ppc[p] = "asleep", ppc' = [ppc EXCEPT ![p] = "ready"],
                UNCHANGED <<kind, running, queue, wpc>>
         PROVE  RoomInv'
    <2>1. Len(queue) \in Nat /\ Capacity \in Nat /\ Cardinality(Ready(ppc)) \in Nat
      BY ReadyFinite, QueueSizes DEF QueueTypes
    <2>2. /\ Cardinality(Ready(ppc')) = Cardinality(Ready(ppc)) + 1
          /\ Cardinality(Ready(ppc)) + Len(queue) >= Capacity
      BY <1>11, <2>1, FillingWake DEF QueueTypes, RoomInv
    <2>3. Filling(ppc', Len(queue'))
      BY <1>11, <2>1, <2>2 DEF Filling
    <2> QED BY <1>11, <2>3 DEF RoomInv, QueueTypes
  <1>12. CASE Wq!SpuriousWakeup
    BY <1>1, <1>11, <1>12 DEF Wq!SpuriousWakeup, WorkerStates
  <1> QED BY <1>2, <1>3, <1>4, <1>8, <1>9, <1>10, <1>12
          DEF Wq!Next, Wq!WorkerStep, Wq!StarterStep, Wq!ThreadStart, Wq!Join, wqVars

-----------------------------------------------------------------------------
(* No task is lost *)

\* A task put behind a queue is behind everything before it, too.
LEMMA TaskAppend ==
  \A s, q \in Seq(Tasks) : \A x \in Tasks : Append(s \o q, x) = s \o Append(q, x)
  <1> TAKE s, q \in Seq(Tasks)
  <1> TAKE x \in Tasks
  <1>1. Append(s \o q, x) \in Seq(Tasks) /\ s \o Append(q, x) \in Seq(Tasks)
    BY ConcatProperties
  <1>2. /\ Len(Append(s \o q, x)) = Len(s) + Len(q) + 1
        /\ Len(s \o Append(q, x)) = Len(s) + Len(q) + 1
    BY ConcatProperties
  <1>3. ASSUME NEW i \in 1 .. Len(Append(s \o q, x))
        PROVE  Append(s \o q, x)[i] = (s \o Append(q, x))[i]
    <2>1. /\ s \o q \in Seq(Tasks) /\ Len(s \o q) = Len(s) + Len(q)
          /\ Len(s) \in Nat /\ Len(q) \in Nat
          /\ i \in 1 .. Len(s) + Len(q) + 1
      BY <1>2, ConcatProperties
    <2>2. Append(s \o q, x)[i] = IF i <= Len(s) + Len(q) THEN (s \o q)[i] ELSE x
      BY <2>1
    <2>3. /\ Append(q, x) \in Seq(Tasks) /\ Len(Append(q, x)) = Len(q) + 1
          /\ \A k \in 1 .. Len(q) : Append(q, x)[k] = q[k]
          /\ Append(q, x)[Len(q) + 1] = x
      OBVIOUS
    <2>4. (s \o Append(q, x))[i] = IF i <= Len(s) THEN s[i] ELSE Append(q, x)[i - Len(s)]
      <3>1. PICK a : a = Append(q, x)
        OBVIOUS
      <3>2. a \in Seq(Tasks) /\ Len(a) = Len(q) + 1 /\ i \in 1 .. Len(s) + Len(a)
        BY <2>1, <2>3, <3>1
      <3>3. (s \o a)[i] = IF i <= Len(s) THEN s[i] ELSE a[i - Len(s)]
        BY <3>2, ConcatProperties
      <3> QED BY <3>1, <3>3
    <2>5. i <= Len(s) + Len(q) =>
            (s \o q)[i] = IF i <= Len(s) THEN s[i] ELSE q[i - Len(s)]
      BY <2>1, ConcatProperties
    <2>6. CASE i <= Len(s)
      BY <2>1, <2>2, <2>4, <2>5, <2>6
    <2>7. CASE i > Len(s) /\ i <= Len(s) + Len(q)
      BY <2>1, <2>2, <2>3, <2>4, <2>5, <2>7
    <2>8. CASE i = Len(s) + Len(q) + 1
      BY <2>1, <2>2, <2>3, <2>4, <2>8
    <2> QED BY <2>1, <2>6, <2>7, <2>8
  <1> QED BY <1>1, <1>2, <1>3, SeqEqual

\* The first task of a queue moved to the end of what comes before the queue.
LEMMA ConcatHead ==
  ASSUME NEW S, NEW s \in Seq(S), NEW q \in Seq(S), q # <<>>
  PROVE  Append(s, Head(q)) \o Tail(q) = s \o q
  <1>1. /\ Head(q) \in S /\ Head(q) = q[1] /\ Tail(q) \in Seq(S) /\ Len(q) \in Nat \ {0}
        /\ Len(Tail(q)) = Len(q) - 1
        /\ \A i \in 1 .. Len(Tail(q)) : Tail(q)[i] = q[i + 1]
    BY HeadTailProperties
  <1>2. /\ Append(s, Head(q)) \in Seq(S) /\ Len(Append(s, Head(q))) = Len(s) + 1
        /\ \A i \in 1 .. Len(s) : Append(s, Head(q))[i] = s[i]
        /\ Append(s, Head(q))[Len(s) + 1] = q[1]
    BY <1>1
  <1>3. /\ Append(s, Head(q)) \o Tail(q) \in Seq(S)
        /\ Len(Append(s, Head(q)) \o Tail(q)) = Len(s) + Len(q)
        /\ s \o q \in Seq(S) /\ Len(s \o q) = Len(s) + Len(q)
    BY <1>1, <1>2, ConcatProperties
  <1>4. ASSUME NEW i \in 1 .. Len(s) + Len(q)
        PROVE  (Append(s, Head(q)) \o Tail(q))[i] = (s \o q)[i]
    <2>1. (Append(s, Head(q)) \o Tail(q))[i] =
            IF i <= Len(s) + 1 THEN Append(s, Head(q))[i] ELSE Tail(q)[i - (Len(s) + 1)]
      BY <1>1, <1>2, ConcatProperties
    <2>2. (s \o q)[i] = IF i <= Len(s) THEN s[i] ELSE q[i - Len(s)]
      BY ConcatProperties
    <2>3. CASE i <= Len(s)
      BY <1>2, <2>1, <2>2, <2>3
    <2>4. CASE i = Len(s) + 1
      BY <1>2, <2>1, <2>2, <2>4
    <2>5. CASE i > Len(s) + 1
      BY <1>1, <2>1, <2>2, <2>5
    <2> QED BY <2>3, <2>4, <2>5
  <1> QED BY <1>3, <1>4, SeqEqual

\* Each task was put once, and a worker holds one that was taken out.
KeepInv ==
  /\ kind \in {"pool", "bounded"} => Len(queue) <= Capacity
  /\ queued = taken \o queue
  /\ \A i, j \in DOMAIN queued : queued[i] = queued[j] => i = j
  /\ \A i \in DOMAIN queued : queued[i][2] <= put[queued[i][1]]
  /\ \A w \in Workers : holding[w] # Wq!NoTask => \E i \in DOMAIN taken : taken[i] = holding[w]

\* Putting a task in.
LEMMA PutKeeps ==
  ASSUME QueueTypes, KeepInv, NEW p \in Producers, ~ Wq!IsFull, Wq!Enqueued(p),
         UNCHANGED <<kind, holding, taken>>
  PROVE  KeepInv'
  <1>1. PICK x : x = Wq!Task(p)
    OBVIOUS
  <1>2. x \in Tasks /\ x[1] = p /\ x[2] = put[p] + 1 /\ put[p] \in Nat
    BY <1>1 DEF Wq!Task, Tasks, QueueTypes
  <1>3. queue' = Append(queue, x) /\ queued' = Append(queued, x)
    BY <1>1 DEF Wq!Enqueued
  <1>4. put'[p] = put[p] + 1 /\ \A q \in Producers \ {p} : put'[q] = put[q]
    BY DEF Wq!Enqueued, QueueTypes
  <1>5. Len(queue') = Len(queue) + 1 /\ Len(queue) \in Nat
    BY <1>3 DEF QueueTypes
  <1>6. queued' = taken' \o queue'
    <2>1. taken \in Seq(Tasks) /\ queue \in Seq(Tasks) /\ queued = taken \o queue
      BY DEF KeepInv, QueueTypes
    <2>2. Append(taken \o queue, x) = taken \o Append(queue, x)
      BY <1>2, <2>1, TaskAppend
    <2> QED BY <1>3, <2>1, <2>2
  <1>7. PICK n : n = Len(queued) + 1
    OBVIOUS
  <1>8. /\ DOMAIN queued' = DOMAIN queued \cup {n} /\ queued'[n] = x
        /\ \A i \in DOMAIN queued : queued'[i] = queued[i] /\ i # n
    BY <1>2, <1>3, <1>7 DEF QueueTypes
  <1>9. \A i \in DOMAIN queued : queued[i] \in Tasks
    BY DEF QueueTypes
  <1>10. \A i \in DOMAIN queued : queued[i][1] \in Producers /\ queued[i][2] \in Nat
    BY <1>9 DEF Tasks
  <1>11. \A i \in DOMAIN queued : queued[i] # x
    <2> SUFFICES ASSUME NEW i \in DOMAIN queued, queued[i] = x PROVE FALSE
      OBVIOUS
    <2>1. queued[i][2] <= put[queued[i][1]]
      BY DEF KeepInv
    <2> QED BY <1>2, <2>1
  <1>12. \A i, j \in DOMAIN queued' : queued'[i] = queued'[j] => i = j
    BY <1>8, <1>11 DEF KeepInv
  <1>13. \A i \in DOMAIN queued' : queued'[i][2] <= put'[queued'[i][1]]
    <2>1. \A q \in Producers : put[q] \in Nat
      BY DEF QueueTypes
    <2>2. queued'[n][2] <= put'[queued'[n][1]]
      BY <1>2, <1>4, <1>8
    <2>3. ASSUME NEW i \in DOMAIN queued
          PROVE  queued[i][2] <= put'[queued[i][1]]
      <3>1. queued[i][2] <= put[queued[i][1]]
        BY DEF KeepInv
      <3>2. put[queued[i][1]] <= put'[queued[i][1]] /\ put'[queued[i][1]] \in Nat
        BY <1>2, <1>4, <1>10, <2>1
      <3> QED BY <1>10, <2>1, <3>1, <3>2
    <2> QED BY <1>8, <2>2, <2>3
  <1>14. kind' \in {"pool", "bounded"} => Len(queue') <= Capacity
    BY <1>5, QueueSizes DEF Wq!IsFull
  <1>15. \A w \in Workers : holding'[w] # Wq!NoTask =>
         \E i \in DOMAIN taken' : taken'[i] = holding'[w]
    BY DEF KeepInv
  <1> QED BY <1>6, <1>12, <1>13, <1>14, <1>15 DEF KeepInv

\* Taking one out.
LEMMA TakeKeeps ==
  ASSUME QueueTypes, KeepInv, NEW w \in Workers, queue # <<>>, Wq!Dequeued(w),
         UNCHANGED <<kind, put, queued>>
  PROVE  KeepInv'
  <1>1. PICK x : x = Head(queue)
    OBVIOUS
  <1>2. x \in Tasks /\ taken' = Append(taken, x) /\ queue' = Tail(queue)
    BY <1>1 DEF QueueTypes, Wq!Dequeued
  <1>3. holding'[w] = x /\ \A y \in Workers \ {w} : holding'[y] = holding[y]
    BY <1>1 DEF Wq!Dequeued, QueueTypes
  <1>4. Len(queue') <= Len(queue) /\ Len(queue') \in Nat /\ Len(queue) \in Nat
    BY <1>2 DEF QueueTypes
  <1>5. kind' \in {"pool", "bounded"} => Len(queue') <= Capacity
    BY <1>4, QueueSizes DEF KeepInv
  <1>6. queued' = taken' \o queue'
    BY <1>1, <1>2, ConcatHead DEF KeepInv, QueueTypes
  <1>7. /\ Len(taken) + 1 \in DOMAIN taken' /\ taken'[Len(taken) + 1] = x
        /\ \A i \in DOMAIN taken : i \in DOMAIN taken' /\ taken'[i] = taken[i]
    BY <1>2 DEF QueueTypes
  <1>8. \A y \in Workers : holding'[y] # Wq!NoTask =>
         \E i \in DOMAIN taken' : taken'[i] = holding'[y]
    BY <1>3, <1>7 DEF KeepInv
  <1>9. UNCHANGED <<queued, put>>
    OBVIOUS
  <1> QED BY <1>5, <1>6, <1>8, <1>9 DEF KeepInv

\* No step loses or repeats a task.
LEMMA KeepStep ==
  ASSUME QueueTypes, KeepInv, [Wq!Next]_wqVars
  PROVE  KeepInv'
  <1>1. ASSUME UNCHANGED <<kind, queue, queued, taken, put>>,
               \A w \in Workers : holding'[w] \in {holding[w], Wq!NoTask}
        PROVE  KeepInv'
    BY <1>1 DEF KeepInv
  <1>2. ASSUME NEW w \in Workers, Wq!RunTask(w) PROVE KeepInv'
    BY <1>1, <1>2 DEF Wq!RunTask, QueueTypes
  <1>3. ASSUME NEW w \in Workers, Wq!ThreadStart(w) \/ Wq!RunInThread(w) \/ Wq!WorkerLoop(w)
        PROVE  KeepInv'
    BY <1>1, <1>3 DEF Wq!ThreadStart, Wq!RunInThread, Wq!WorkerLoop
  <1>4. ASSUME NEW w \in Workers, Wq!PoolTake(w) \/ Wq!BoundedTake(w) \/ Wq!BlockingTake(w)
        PROVE  KeepInv'
    BY <1>1, <1>4, TakeKeeps DEF Wq!PoolTake, Wq!BoundedTake, Wq!BlockingTake, Wq!SleepsEmpty
  <1>5. ASSUME NEW p \in Producers, put' = [put EXCEPT ![p] = @ + 1],
               UNCHANGED <<kind, queue, queued, taken, holding>>
        PROVE  KeepInv'
    <2>1. \A q \in Producers : put[q] \in Nat /\ put'[q] \in Nat /\ put[q] <= put'[q]
      BY <1>5 DEF QueueTypes
    <2>2. \A i \in DOMAIN queued : queued[i] \in Tasks
      BY DEF QueueTypes
    <2>3. \A i \in DOMAIN queued : queued[i][1] \in Producers /\ queued[i][2] \in Nat
      BY <2>2 DEF Tasks
    <2>4. \A i \in DOMAIN queued : queued[i][2] <= put'[queued[i][1]]
      BY <2>1, <2>3, SMTT(30) DEF KeepInv
    <2> QED BY <1>5, <2>4 DEF KeepInv
  <1>6. ASSUME NEW p \in Producers, Wq!ProducerStep(p) PROVE KeepInv'
    <2>1. kind = "blocking" => ~ Wq!IsFull
      BY DEF Wq!IsFull
    <2> QED BY <1>1, <1>5, <1>6, <2>1, PutKeeps
            DEF Wq!ProducerStep, Wq!Run, Wq!BoundedPut, Wq!BlockingPut, Wq!Sleeps
  <1>7. CASE Wq!Drain
    <2>1. taken' = taken \o queue /\ queue' = <<>> /\ kind = "blocking"
          /\ UNCHANGED <<kind, put, queued, holding>>
      BY <1>7 DEF Wq!Drain
    <2>2. queued' = taken' \o queue'
      <3>1. taken' \in Seq(Tasks)
        BY <2>1, ConcatProperties DEF QueueTypes
      <3> QED BY <2>1, <3>1, ConcatEmptySeq DEF KeepInv
    <2>3. \A i \in DOMAIN taken : i \in DOMAIN taken' /\ taken'[i] = taken[i]
      <3>1. Len(taken') = Len(taken) + Len(queue) /\ taken' \in Seq(Tasks)
            /\ \A i \in 1 .. Len(taken) + Len(queue) :
                 taken'[i] = IF i <= Len(taken) THEN taken[i] ELSE queue[i - Len(taken)]
        BY <2>1, ConcatProperties DEF QueueTypes
      <3>2. DOMAIN taken = 1 .. Len(taken) /\ DOMAIN taken' = 1 .. Len(taken')
            /\ Len(taken) \in Nat /\ Len(queue) \in Nat
        BY <3>1 DEF QueueTypes
      <3> QED BY <3>1, <3>2
    <2>4. \A w \in Workers : holding'[w] # Wq!NoTask =>
           \E i \in DOMAIN taken' : taken'[i] = holding'[w]
      BY <2>1, <2>3 DEF KeepInv
    <2> QED BY <2>1, <2>2, <2>4 DEF KeepInv
  <1>8. CASE Wq!Stop \/ Wq!Join \/ Wq!SpuriousWakeup \/ UNCHANGED wqVars
    BY <1>1, <1>8 DEF Wq!Stop, Wq!Join, Wq!SpuriousWakeup, wqVars
  <1> QED BY <1>2, <1>3, <1>4, <1>6, <1>7, <1>8 DEF Wq!Next, Wq!WorkerStep, Wq!StarterStep

-----------------------------------------------------------------------------

\* The inductive invariant.
QueueInv == QueueTypes /\ RoomInv /\ KeepInv

\* It holds when the pool is made.
LEMMA QueueInit == Wq!Init => QueueInv
  <1> SUFFICES ASSUME Wq!Init PROVE QueueInv
    OBVIOUS
  <1>1. QueueTypes
    BY DEF Wq!Init, QueueTypes, WorkerStates, ProducerStates
  <1>2. RoomInv
    BY DEF Wq!Init, RoomInv, Filling
  <1>3. KeepInv
    <2>1. queued = taken \o queue
      BY ConcatEmptySeq DEF Wq!Init
    <2> QED BY <2>1, QueueSizes DEF Wq!Init, KeepInv
  <1> QED BY <1>1, <1>2, <1>3 DEF QueueInv

\* ... and implies what is promised.
LEMMA QueueInvSound == QueueInv => Wq!QueueSound
  <1> SUFFICES ASSUME QueueInv PROVE Wq!QueueSound
    OBVIOUS
  <1> USE DEF QueueInv
  <1>1. ASSUME ~ Wq!IsFull, NEW q \in Producers, ppc[q] = "asleep"
        PROVE  \E p \in Producers : ppc[p] = "ready"
    <2>1. Len(queue) < Capacity /\ Len(queue) \in Nat /\ Capacity \in Nat
      BY <1>1, QueueSizes DEF Wq!IsFull, RoomInv, QueueTypes
    <2>2. Cardinality(Ready(ppc)) + Len(queue) >= Capacity /\ Cardinality(Ready(ppc)) \in Nat
      BY <1>1, ReadyFinite DEF RoomInv, Filling
    <2>3. Ready(ppc) # {}
      BY <2>1, <2>2, FS_EmptySet, SMTT(30)
    <2> QED BY <2>3 DEF Ready
  <1>2. ASSUME NEW w \in Workers, holding[w] # Wq!NoTask
        PROVE  \E i \in 1 .. Len(taken) : {j \in 1 .. Len(taken) : taken[j] = holding[w]} = {i}
    <2>1. PICK k \in DOMAIN taken : taken[k] = holding[w]
      BY <1>2 DEF KeepInv
    <2>2. DOMAIN taken = 1 .. Len(taken) /\ Len(taken) \in Nat /\ Len(queue) \in Nat
      BY DEF QueueTypes
    <2>3. /\ Len(queued) = Len(taken) + Len(queue) /\ DOMAIN queued = 1 .. Len(queued)
          /\ \A i \in 1 .. Len(taken) + Len(queue) :
               queued[i] = IF i <= Len(taken) THEN taken[i] ELSE queue[i - Len(taken)]
      BY ConcatProperties DEF KeepInv, QueueTypes
    <2>4. \A i \in 1 .. Len(taken) : i \in DOMAIN queued /\ queued[i] = taken[i]
      BY <2>2, <2>3
    <2>5. {j \in 1 .. Len(taken) : taken[j] = holding[w]} = {k}
      BY <2>1, <2>2, <2>4 DEF KeepInv
    <2> QED BY <2>1, <2>2, <2>5
  <1> QED BY <1>1, <1>2
            DEF Wq!QueueSound, Wq!QueueNeverStalls, Wq!QueueKeepsAll, RoomInv, KeepInv

\* While the queues run, their steps are those of WorkQueue.
LEMMA QueueRuns == [Next]_allVars /\ part = "queues" => part' = part /\ [Wq!Next]_wqVars
  BY DEF Next, Steps, allVars

\* ThreadPool, BoundedBlockingQueue and BlockingQueue lose neither a wakeup nor
\* a task, however many threads take and put and whenever the pool is stopped.
THEOREM QueuesAreSound == Spec => []QueueSound
  <1> DEFINE Inv == part = "queues" => QueueInv
  <1>1. Init => Inv
    BY QueueInit DEF Init
  <1>2. Inv /\ [Next]_allVars => Inv'
    <2> SUFFICES ASSUME Inv, [Next]_allVars, part' = "queues" PROVE QueueInv'
      OBVIOUS
    <2>1. part = "queues" /\ [Wq!Next]_wqVars
      BY QueueRuns DEF Next, Steps, allVars
    <2> QED BY <2>1, QueueTypesStep, RoomStep, KeepStep DEF QueueInv
  <1>3. Inv => QueueSound
    BY QueueInvSound DEF QueueSound
  <1> QED BY <1>1, <1>2, <1>3, PTL DEF Spec

-----------------------------------------------------------------------------
(* Framing: the state *)

Flat ==
  {<<"tag">>, <<"gat">>, <<"junk">>, <<"mus">>} \cup ({"len"} \X Int \X {1, 2})
    \cup ({"body"} \X Nat \X Nat \X Nat)
Cell == Flat \cup ({"sum"} \X Seq(Flat))
Buf == [size : Nat, r : Nat, data : Seq(Cell), ok : BOOLEAN]

\* A Buffer whose assertions have held and whose indices are in order.
Good(b) ==
  /\ b \in Buf /\ b.ok
  /\ CheapPrepend <= b.r /\ b.r + Len(b.data) <= b.size

\* In s, behind its first o cells, a frame of the message body, or a damaged one.
FrameAt(s, o, body) ==
  /\ o + Len(body) + 4 <= Len(s)
  /\ s[o + 1] = <<"len", Len(body) + 2, 1>> /\ s[o + 2] = <<"len", Len(body) + 2, 2>>
  /\ s[o + 3] = <<"tag">> /\ \A i \in 1 .. Len(body) : s[o + 3 + i] = body[i]
BadAt(s, o) ==
  \E n \in Int :
    /\ o + 2 <= Len(s) /\ s[o + 1] = <<"len", n, 1>> /\ s[o + 2] = <<"len", n, 2>>
    /\ n < 2 \/ n > MaxLen \/ (/\ n >= 2 /\ o + 2 + n <= Len(s)
                              /\ \/ s[o + 2 + n] = <<"mus">> \/ s[o + 3] = <<"gat">>
                                 \/ (n >= 3 /\ s[o + 4] = <<"junk">>))

\* The cells that were sent and not yet taken out of the buffer.
Stream == input.data \o ahead

Sents == ({"ok"} \X Seq(Cell)) \cup ({"damaged"} \X Damages)

FrameTypes ==
  /\ Good(input) /\ ahead \in Seq(Cell) /\ built = TRUE
  /\ sent \in Seq(Sents) /\ delivered \in Seq(Seq(Cell))

\* Of the frames sn the first k are sound; those after the delivered dl stand in
\* the cells s, the i-th behind at[i] cells, and behind them the first damaged one,
\* if there is one.
Lay(s, sn, dl, k, at) ==
  /\ Len(dl) <= k /\ k <= Len(sn)
  /\ \A i \in 1 .. k : sn[i][1] = "ok"
  /\ \A i \in 1 .. Len(dl) : dl[i] = sn[i][2]
  /\ at[Len(dl) + 1] = 0
  /\ \A i \in Len(dl) + 1 .. k :
       FrameAt(s, at[i], sn[i][2]) /\ at[i + 1] = at[i] + Len(sn[i][2]) + 4
  /\ \A i, j \in Len(dl) + 1 .. k + 1 : i <= j => at[i] <= at[j]
  /\ IF k = Len(sn) THEN at[k + 1] = Len(s)
     ELSE sn[k + 1][1] = "damaged" /\ BadAt(s, at[k + 1])

InStream == \E k \in Nat, at \in [Nat -> Nat] : Lay(Stream, sent, delivered, k, at)

FrameInv == FrameTypes /\ InStream

-----------------------------------------------------------------------------
(* Framing: Buffer *)

LEMMA Joins ==
  ASSUME NEW s \in Seq(Cell), NEW t \in Seq(Cell)
  PROVE  /\ s \o t \in Seq(Cell) /\ Len(s \o t) = Len(s) + Len(t)
         /\ \A i \in 1 .. Len(s) : (s \o t)[i] = s[i]
         /\ \A i \in 1 .. Len(t) : (s \o t)[Len(s) + i] = t[i]
  OBVIOUS

LEMMA Cut ==
  ASSUME NEW s \in Seq(Cell), NEW m \in Nat, NEW n \in Nat, m <= n, n <= Len(s)
  PROVE  /\ SubSeq(s, m + 1, n) \in Seq(Cell) /\ Len(SubSeq(s, m + 1, n)) = n - m
         /\ \A i \in 1 .. n - m : SubSeq(s, m + 1, n)[i] = s[m + i]
  OBVIOUS

LEMMA CutFront ==
  ASSUME NEW s \in Seq(Cell), NEW n \in Nat, n <= Len(s)
  PROVE  /\ SubSeq(s, 1, n) \in Seq(Cell) /\ Len(SubSeq(s, 1, n)) = n
         /\ \A i \in 1 .. n : SubSeq(s, 1, n)[i] = s[i]
  OBVIOUS

\* The same cells, cut in two.
LEMMA CutJoins ==
  ASSUME NEW s \in Seq(Cell), NEW n \in Nat, n <= Len(s)
  PROVE  s = SubSeq(s, 1, n) \o SubSeq(s, n + 1, Len(s))
  <1>1. PICK a \in Seq(Cell) : a = SubSeq(s, 1, n) /\ Len(a) = n /\ \A i \in 1 .. n : a[i] = s[i]
    <2>1. /\ SubSeq(s, 1, n) \in Seq(Cell) /\ Len(SubSeq(s, 1, n)) = n
          /\ \A i \in 1 .. n : SubSeq(s, 1, n)[i] = s[i]
      BY CutFront
    <2> QED BY <2>1
  <1>2. PICK b \in Seq(Cell) : /\ b = SubSeq(s, n + 1, Len(s)) /\ Len(b) = Len(s) - n
                               /\ \A i \in 1 .. Len(s) - n : b[i] = s[n + i]
    <2>1. Len(s) \in Nat
      OBVIOUS
    <2>2. /\ SubSeq(s, n + 1, Len(s)) \in Seq(Cell) /\ Len(SubSeq(s, n + 1, Len(s))) = Len(s) - n
          /\ \A i \in 1 .. Len(s) - n : SubSeq(s, n + 1, Len(s))[i] = s[n + i]
      BY <2>1, Cut
    <2> QED BY <2>2
  <1>3. PICK c \in Seq(Cell) :
          /\ c = a \o b /\ Len(c) = Len(s)
          /\ \A i \in 1 .. n : c[i] = a[i]
          /\ \A i \in 1 .. Len(s) - n : c[n + i] = b[i]
    <2>1. /\ a \o b \in Seq(Cell) /\ Len(a \o b) = Len(a) + Len(b)
          /\ \A i \in 1 .. Len(a) : (a \o b)[i] = a[i]
          /\ \A i \in 1 .. Len(b) : (a \o b)[Len(a) + i] = b[i]
      BY Joins
    <2>2. Len(a) = n /\ Len(b) = Len(s) - n /\ Len(a) + Len(b) = Len(s)
      BY <1>1, <1>2
    <2> QED BY <2>1, <2>2
  <1>4. \A i \in 1 .. Len(s) : c[i] = s[i]
    <2> TAKE i \in 1 .. Len(s)
    <2>1. CASE i <= n
      BY <2>1, <1>1, <1>3
    <2>2. CASE i > n
      <3>1. PICK j \in 1 .. Len(s) - n : i = n + j
        <4>1. i - n \in 1 .. Len(s) - n /\ i = n + (i - n)
          BY <2>2
        <4> QED BY <4>1
      <3> QED BY <3>1, <1>2, <1>3
    <2> QED BY <2>1, <2>2
  <1>5. c = s
    BY <1>3, <1>4, SeqEqual
  <1> QED BY <1>1, <1>2, <1>3, <1>5

LEMMA JoinsAssoc ==
  ASSUME NEW a \in Seq(Cell), NEW b \in Seq(Cell), NEW c \in Seq(Cell)
  PROVE  (a \o b) \o c = a \o (b \o c)
  OBVIOUS

\* A Buffer with another field.
LEMMA BufIs ==
  ASSUME NEW b \in Buf
  PROVE  /\ b.size \in Nat /\ b.r \in Nat /\ b.data \in Seq(Cell) /\ b.ok \in BOOLEAN
         /\ \A s \in Seq(Cell) : /\ [b EXCEPT !.data = s] \in Buf /\ [b EXCEPT !.data = s].data = s
                                 /\ [b EXCEPT !.data = s].size = b.size
                                 /\ [b EXCEPT !.data = s].r = b.r /\ [b EXCEPT !.data = s].ok = b.ok
         /\ \A n \in Nat : /\ [b EXCEPT !.size = n] \in Buf /\ [b EXCEPT !.size = n].data = b.data
                           /\ [b EXCEPT !.size = n].size = n
                           /\ [b EXCEPT !.size = n].r = b.r /\ [b EXCEPT !.size = n].ok = b.ok
         /\ \A n \in Nat : /\ [b EXCEPT !.r = n] \in Buf /\ [b EXCEPT !.r = n].data = b.data
                           /\ [b EXCEPT !.r = n].size = b.size
                           /\ [b EXCEPT !.r = n].r = n /\ [b EXCEPT !.r = n].ok = b.ok
  BY DEF Buf

\* An assertion that holds changes nothing.
LEMMA CheckIs ==
  ASSUME NEW b \in Buf, b.ok, NEW cond \in BOOLEAN, cond
  PROVE  Fr!Check(b, cond) = b
  BY DEF Buf, Fr!Check

LEMMA MakeSpaceIs ==
  ASSUME NEW b, Good(b), NEW n \in Nat, b.size - (b.r + Len(b.data)) < n
  PROVE  /\ Good(Fr!MakeSpace(b, n)) /\ Fr!MakeSpace(b, n).data = b.data
         /\ Fr!MakeSpace(b, n).size - (Fr!MakeSpace(b, n).r + Len(b.data)) >= n
  <1> USE FrameSettings
  <1>0. b \in Buf /\ b.size \in Nat /\ b.r \in Nat /\ b.data \in Seq(Cell) /\ Len(b.data) \in Nat
    BY BufIs DEF Good
  <1>1. PICK l \in Nat : l = Len(b.data)
    BY <1>0
  <1>2. CASE Fr!TooSmall(b, n)
    <2>1. PICK m \in Nat : m = b.r + l + n
      BY <1>0, <1>1
    <2>2. Fr!MakeSpace(b, n) = [b EXCEPT !.size = m]
      BY <1>1, <1>2, <2>1 DEF Fr!MakeSpace, Fr!WriterIndex
    <2>3. PICK c \in Buf : /\ c = [b EXCEPT !.size = m] /\ c.data = b.data /\ c.size = m /\ c.r = b.r
                           /\ c.ok = b.ok
      BY <1>0, <2>1, BufIs, Zenon
    <2> QED BY <1>0, <1>1, <2>1, <2>2, <2>3, SMTT(30) DEF Good
  <1>3. CASE ~Fr!TooSmall(b, n)
    <2>1. CheapPrepend < b.r /\ CheapPrepend + l + n <= b.size
      BY <1>0, <1>1, <1>3, SMTT(30) DEF Fr!TooSmall, Fr!Writable, Fr!WriterIndex
    <2>2. Fr!Check(b, CheapPrepend < b.r) = b
      BY <1>0, <2>1, CheckIs DEF Good
    <2>3. Fr!MakeSpace(b, n) = [b EXCEPT !.r = CheapPrepend]
      BY <1>3, <2>2 DEF Fr!MakeSpace
    <2>4. PICK c \in Buf : /\ c = [b EXCEPT !.r = CheapPrepend] /\ c.data = b.data /\ c.size = b.size
                           /\ c.r = CheapPrepend /\ c.ok = b.ok
      BY <1>0, BufIs
    <2>5. CheapPrepend + Len(c.data) <= c.size /\ c.size - (c.r + Len(b.data)) >= n
      BY <1>0, <1>1, <2>1, <2>4, SMTT(30)
    <2>6. Good(c)
      BY <2>4, <2>5 DEF Good
    <2> QED BY <2>3, <2>4, <2>5, <2>6
  <1> QED BY <1>2, <1>3

LEMMA EnsureIs ==
  ASSUME NEW b, Good(b), NEW n \in Nat
  PROVE  /\ Good(Fr!EnsureWritable(b, n)) /\ Fr!EnsureWritable(b, n).data = b.data
         /\ Fr!EnsureWritable(b, n).size - (Fr!EnsureWritable(b, n).r + Len(b.data)) >= n
         /\ n <= b.size - (b.r + Len(b.data)) => Fr!EnsureWritable(b, n) = b
  <1>0. b \in Buf /\ b.size \in Nat /\ b.r \in Nat /\ b.data \in Seq(Cell) /\ Len(b.data) \in Nat
    BY BufIs DEF Good
  <1>1. PICK c : c = IF Fr!Writable(b) < n THEN Fr!MakeSpace(b, n) ELSE b
    OBVIOUS
  <1>2. /\ Good(c) /\ c.data = b.data /\ c.size - (c.r + Len(b.data)) >= n
        /\ n <= b.size - (b.r + Len(b.data)) => c = b
    <2>1. CASE Fr!Writable(b) < n
      <3>1. b.size - (b.r + Len(b.data)) < n /\ c = Fr!MakeSpace(b, n)
        BY <2>1, <1>1 DEF Fr!Writable, Fr!WriterIndex
      <3> QED BY <3>1, <1>0, MakeSpaceIs
    <2>2. CASE ~(Fr!Writable(b) < n)
      BY <2>2, <1>0, <1>1 DEF Fr!Writable, Fr!WriterIndex
    <2> QED BY <2>1, <2>2
  <1>3. Fr!Writable(c) >= n
    BY <1>2 DEF Fr!Writable, Fr!WriterIndex
  <1>4. Fr!Check(c, Fr!Writable(c) >= n) = c
    <2>1. (Fr!Writable(c) >= n) = TRUE
      BY <1>3
    <2>2. Fr!Check(c, TRUE) = c
      BY <1>2, CheckIs DEF Good
    <2> QED BY <2>1, <2>2
  <1>5. Fr!EnsureWritable(b, n) = c
    BY <1>1, <1>4 DEF Fr!EnsureWritable
  <1> QED BY <1>2, <1>5

\* Cells that fit.
LEMMA PutIs ==
  ASSUME NEW b, Good(b), NEW s \in Seq(Cell), Len(s) <= b.size - (b.r + Len(b.data))
  PROVE  /\ Good([b EXCEPT !.data = @ \o s]) /\ [b EXCEPT !.data = @ \o s].data = b.data \o s
         /\ [b EXCEPT !.data = @ \o s].size = b.size /\ [b EXCEPT !.data = @ \o s].r = b.r
  <1>0. b \in Buf /\ b.size \in Nat /\ b.r \in Nat /\ b.data \in Seq(Cell) /\ Len(b.data) \in Nat
    BY BufIs DEF Good
  <1>1. PICK t \in Seq(Cell) : t = b.data \o s /\ Len(t) = Len(b.data) + Len(s)
    BY <1>0, Joins
  <1>2. PICK c \in Buf : /\ c = [b EXCEPT !.data = t] /\ c.data = t /\ c.size = b.size /\ c.r = b.r
                         /\ c.ok = b.ok
    BY <1>0, BufIs
  <1>3. [b EXCEPT !.data = @ \o s] = c
    BY <1>1, <1>2
  <1> QED BY <1>0, <1>1, <1>2, <1>3, SMTT(30) DEF Good

LEMMA AppendCellsIs ==
  ASSUME NEW b, Good(b), NEW s \in Seq(Cell)
  PROVE  Good(Fr!AppendCells(b, s)) /\ Fr!AppendCells(b, s).data = b.data \o s
  <1>1. PICK c : c = Fr!EnsureWritable(b, Len(s))
    OBVIOUS
  <1>2. Good(c) /\ c.data = b.data /\ Len(s) <= c.size - (c.r + Len(c.data))
    <2>1. PICK n \in Nat : n = Len(s)
      OBVIOUS
    <2>2. Good(c) /\ c.data = b.data /\ c.size - (c.r + Len(b.data)) >= n
      BY <1>1, <2>1, EnsureIs
    <2> QED BY <2>1, <2>2
  <1>3. Fr!AppendCells(b, s) = [c EXCEPT !.data = @ \o s]
    BY <1>1 DEF Fr!AppendCells
  <1> QED BY <1>2, <1>3, PutIs, Zenon

LEMMA ReadFdIs ==
  ASSUME NEW b, Good(b), NEW s \in Seq(Cell)
  PROVE  Good(Fr!ReadFd(b, s)) /\ Fr!ReadFd(b, s).data = b.data \o s
  <1>0. b \in Buf /\ b.size \in Nat /\ b.r \in Nat /\ b.data \in Seq(Cell) /\ Len(b.data) \in Nat
    BY BufIs DEF Good
  <1>1. PICK w \in Nat : w = b.size - (b.r + Len(b.data)) /\ w = Fr!Writable(b)
    <2>1. b.size - (b.r + Len(b.data)) \in Nat
      BY <1>0 DEF Good
    <2> QED BY <2>1 DEF Fr!Writable, Fr!WriterIndex
  <1>2. CASE Len(s) <= w
    <2>1. Fr!ReadFd(b, s) = [b EXCEPT !.data = @ \o s]
      BY <1>1, <1>2 DEF Fr!ReadFd
    <2> QED BY <2>1, <1>1, <1>2, PutIs
  <1>3. CASE ~(Len(s) <= w)
    <2>1. PICK x \in Seq(Cell) : x = SubSeq(s, 1, w) /\ Len(x) = w
      <3>1. SubSeq(s, 1, w) \in Seq(Cell) /\ Len(SubSeq(s, 1, w)) = w
        BY <1>3, CutFront
      <3> QED BY <3>1
    <2>2. PICK y \in Seq(Cell) : y = SubSeq(s, w + 1, Len(s))
      <3>1. Len(s) \in Nat /\ w <= Len(s)
        BY <1>3
      <3>2. SubSeq(s, w + 1, Len(s)) \in Seq(Cell)
        BY <3>1, Cut
      <3> QED BY <3>2
    <2>3. PICK c : c = [b EXCEPT !.data = @ \o x]
      OBVIOUS
    <2>4. Good(c) /\ c.data = b.data \o x
      <3>1. Len(x) <= b.size - (b.r + Len(b.data))
        BY <2>1, <1>0, <1>1
      <3> QED BY <3>1, <2>3, PutIs
    <2>5. Fr!ReadFd(b, s) = Fr!AppendCells(c, y)
      BY <2>1, <2>2, <2>3, <1>1, <1>3 DEF Fr!ReadFd
    <2>6. Good(Fr!AppendCells(c, y)) /\ Fr!AppendCells(c, y).data = (b.data \o x) \o y
      BY <2>4, AppendCellsIs
    <2>7. s = x \o y
      <3>1. w <= Len(s)
        BY <1>3
      <3> QED BY <3>1, <2>1, <2>2, CutJoins
    <2>8. (b.data \o x) \o y = b.data \o s
      BY <2>7, <1>0, JoinsAssoc, ZenonT(40)
    <2> QED BY <2>5, <2>6, <2>8
  <1> QED BY <1>2, <1>3

LEMMA RetrieveIs ==
  ASSUME NEW b, Good(b), NEW n \in Nat, n <= Len(b.data)
  PROVE  Good(Fr!Retrieve(b, n)) /\ Fr!Retrieve(b, n).data = SubSeq(b.data, n + 1, Len(b.data))
  <1> USE FrameSettings
  <1>0. b \in Buf /\ b.size \in Nat /\ b.r \in Nat /\ b.data \in Seq(Cell) /\ Len(b.data) \in Nat
    BY BufIs DEF Good
  <1>1. PICK d \in Seq(Cell) : d = SubSeq(b.data, n + 1, Len(b.data)) /\ Len(d) = Len(b.data) - n
    <2>1. PICK t \in Seq(Cell), l \in Nat : t = b.data /\ l = Len(t)
      BY <1>0
    <2>2. SubSeq(t, n + 1, l) \in Seq(Cell) /\ Len(SubSeq(t, n + 1, l)) = l - n
      BY <2>1, Cut
    <2> QED BY <2>1, <2>2
  <1>2. CASE n < Len(b.data)
    <2>1. PICK m \in Nat : m = b.r + n
      BY <1>0
    <2>2. PICK c \in Buf : c = [b EXCEPT !.r = m] /\ c.data = b.data /\ c.size = b.size /\ c.r = m
                           /\ c.ok = b.ok
      BY <1>0, BufIs, Zenon
    <2>3. PICK e \in Buf : e = [c EXCEPT !.data = d] /\ e.data = d /\ e.size = c.size /\ e.r = c.r
                           /\ e.ok = c.ok
      BY <2>2, BufIs, ZenonT(40)
    <2>4. Fr!Retrieve(b, n) = e
      BY <1>0, <1>1, <1>2, <2>1, <2>2, <2>3 DEF Fr!Retrieve, Buf
    <2>5. CheapPrepend <= m /\ m + Len(d) <= b.size
      BY <1>0, <1>1, <2>1 DEF Good
    <2> QED BY <1>1, <2>2, <2>3, <2>4, <2>5 DEF Good
  <1>3. CASE n = Len(b.data)
    <2>1. Fr!Check(b, n = Len(b.data)) = b
      BY <1>0, <1>3, CheckIs DEF Good
    <2>m. PICK m \in Nat : m = CheapPrepend
      OBVIOUS
    <2>3. PICK c \in Buf : c = [b EXCEPT !.r = m] /\ c.data = b.data /\ c.size = b.size /\ c.r = m
                           /\ c.ok = b.ok
      BY <1>0, BufIs
    <2>4. PICK e \in Buf : /\ e = [c EXCEPT !.data = d] /\ e.data = d /\ e.size = c.size
                           /\ e.r = c.r /\ e.ok = c.ok
      BY <2>3, BufIs, ZenonT(40)
    <2>2. d = <<>>
      BY <1>1, <1>3
    <2>5. Fr!Retrieve(b, n) = e
      <3>1. ~(n < Len(b.data))
        BY <1>0, <1>3
      <3>2. Fr!Retrieve(b, n) = [b EXCEPT !.r = CheapPrepend, !.data = <<>>]
        BY <3>1, <2>1 DEF Fr!Retrieve
      <3>3. [b EXCEPT !.r = m, !.data = d] = e
        BY <1>0, <2>3, <2>4 DEF Buf
      <3> QED BY <3>2, <3>3, <2>m, <2>2
    <2>6. CheapPrepend + Len(d) <= b.size
      BY <1>0, <1>1, <1>3 DEF Good
    <2>7. Good(e)
      BY <2>m, <2>3, <2>4, <2>6 DEF Good
    <2> QED BY <1>1, <2>4, <2>5, <2>7
  <1> QED BY <1>2, <1>3

-----------------------------------------------------------------------------
(* Framing: frames *)

LEMMA FlatIs == \A s \in Seq(Flat) : s \in Seq(Cell)
  BY SeqMonotonic DEF Cell

LEMMA PiecesAre ==
  /\ \A n \in Int : /\ Fr!Header(n) \in Seq(Cell) /\ Len(Fr!Header(n)) = 2
                    /\ Fr!Header(n)[1] = <<"len", n, 1>> /\ Fr!Header(n)[2] = <<"len", n, 2>>
  /\ \A c \in Flat : <<c>> \in Seq(Flat) /\ Len(<<c>>) = 1 /\ <<c>>[1] = c
  /\ \A s \in Seq(Flat) : Fr!Checksum(s) \in Seq(Cell) /\ Len(Fr!Checksum(s)) = 1
  /\ <<"tag">> \in Flat /\ <<"gat">> \in Flat /\ <<"junk">> \in Flat /\ <<"mus">> \in Flat
  <1>1. ASSUME NEW n \in Int
        PROVE  /\ Fr!Header(n) \in Seq(Cell) /\ Len(Fr!Header(n)) = 2
               /\ Fr!Header(n)[1] = <<"len", n, 1>> /\ Fr!Header(n)[2] = <<"len", n, 2>>
    <2>1. <<"len", n, 1>> \in Cell /\ <<"len", n, 2>> \in Cell
      BY DEF Cell, Flat
    <2> QED BY <2>1 DEF Fr!Header
  <1>2. ASSUME NEW c \in Flat PROVE <<c>> \in Seq(Flat) /\ Len(<<c>>) = 1 /\ <<c>>[1] = c
    OBVIOUS
  <1>3. ASSUME NEW s \in Seq(Flat) PROVE Fr!Checksum(s) \in Seq(Cell) /\ Len(Fr!Checksum(s)) = 1
    <2>1. <<"sum", s>> \in Cell
      BY DEF Cell
    <2> QED BY <2>1 DEF Fr!Checksum
  <1>4. <<"tag">> \in Flat /\ <<"gat">> \in Flat /\ <<"junk">> \in Flat /\ <<"mus">> \in Flat
    BY DEF Flat
  <1> QED BY <1>1, <1>2, <1>3, <1>4

LEMMA BodyIs ==
  ASSUME NEW f \in Nat, NEW n \in Nat
  PROVE  Fr!Body(f, n) \in Seq(Flat) /\ Len(Fr!Body(f, n)) = n
  <1>1. \A i \in 1 .. n : <<"body", f, i, n>> \in Flat
    BY DEF Flat
  <1> QED BY <1>1 DEF Fr!Body

LEMMA JoinsFlat ==
  ASSUME NEW s \in Seq(Flat), NEW t \in Seq(Flat)
  PROVE  /\ s \o t \in Seq(Flat) /\ Len(s \o t) = Len(s) + Len(t)
         /\ \A i \in 1 .. Len(s) : (s \o t)[i] = s[i]
         /\ \A i \in 1 .. Len(t) : (s \o t)[Len(s) + i] = t[i]
  OBVIOUS

LEMMA PartsAre ==
  ASSUME NEW h \in Seq(Cell), NEW bare \in Seq(Cell), NEW sum \in Seq(Cell)
  PROVE  /\ h \o (bare \o sum) \in Seq(Cell)
         /\ Len(h \o (bare \o sum)) = Len(h) + (Len(bare) + Len(sum))
         /\ \A i \in 1 .. Len(h) : (h \o (bare \o sum))[i] = h[i]
         /\ \A i \in 1 .. Len(bare) : (h \o (bare \o sum))[Len(h) + i] = bare[i]
         /\ \A i \in 1 .. Len(sum) : (h \o (bare \o sum))[Len(h) + (Len(bare) + i)] = sum[i]
  <1>1. PICK t \in Seq(Cell) : /\ t = bare \o sum /\ Len(t) = Len(bare) + Len(sum)
                               /\ \A i \in 1 .. Len(bare) : t[i] = bare[i]
                               /\ \A i \in 1 .. Len(sum) : t[Len(bare) + i] = sum[i]
    <2>1. /\ bare \o sum \in Seq(Cell) /\ Len(bare \o sum) = Len(bare) + Len(sum)
          /\ \A i \in 1 .. Len(bare) : (bare \o sum)[i] = bare[i]
          /\ \A i \in 1 .. Len(sum) : (bare \o sum)[Len(bare) + i] = sum[i]
      BY Joins
    <2> QED BY <2>1
  <1>2. PICK s \in Seq(Cell) : /\ s = h \o t /\ Len(s) = Len(h) + Len(t)
                               /\ \A i \in 1 .. Len(h) : s[i] = h[i]
                               /\ \A i \in 1 .. Len(t) : s[Len(h) + i] = t[i]
    <2>1. /\ h \o t \in Seq(Cell) /\ Len(h \o t) = Len(h) + Len(t)
          /\ \A i \in 1 .. Len(h) : (h \o t)[i] = h[i]
          /\ \A i \in 1 .. Len(t) : (h \o t)[Len(h) + i] = t[i]
      BY Joins
    <2> QED BY <2>1
  <1>3. \A i \in 1 .. Len(bare) : s[Len(h) + i] = bare[i]
    BY <1>1, <1>2
  <1>4. \A i \in 1 .. Len(sum) : s[Len(h) + (Len(bare) + i)] = sum[i]
    BY <1>1, <1>2
  <1> QED BY <1>1, <1>2, <1>3, <1>4

\* Two cells, l cells and a last one.
Parted(h, bare, sum, l) == Len(h) = 2 /\ Len(bare) = l /\ Len(sum) = 1
Framed(s, h, bare, sum, l) ==
  /\ s \in Seq(Cell) /\ Len(s) = l + 3 /\ s[1] = h[1] /\ s[2] = h[2]
  /\ s[l + 3] = sum[1] /\ \A i \in 1 .. l : s[2 + i] = bare[i]

LEMMA FramedIs ==
  ASSUME NEW h \in Seq(Cell), NEW bare \in Seq(Cell), NEW sum \in Seq(Cell), NEW l \in Nat,
         Parted(h, bare, sum, l)
  PROVE  Framed(h \o (bare \o sum), h, bare, sum, l)
  <1>1. PICK m \in Nat, k \in Nat, n \in Nat : m = Len(h) /\ k = Len(sum) /\ n = Len(bare)
    OBVIOUS
  <1>2. PICK s \in Seq(Cell) : /\ s = h \o (bare \o sum) /\ Len(s) = m + (n + k)
                               /\ \A i \in 1 .. m : s[i] = h[i]
                               /\ \A i \in 1 .. n : s[m + i] = bare[i]
                               /\ \A i \in 1 .. k : s[m + (n + i)] = sum[i]
    <2>1. PICK s : s = h \o (bare \o sum)
      OBVIOUS
    <2>2. /\ s \in Seq(Cell) /\ Len(s) = Len(h) + (Len(bare) + Len(sum))
          /\ \A i \in 1 .. Len(h) : s[i] = h[i]
          /\ \A i \in 1 .. Len(bare) : s[Len(h) + i] = bare[i]
          /\ \A i \in 1 .. Len(sum) : s[Len(h) + (Len(bare) + i)] = sum[i]
      BY <2>1, PartsAre
    <2> QED BY <2>1, <2>2, <1>1
  <1>3. m = 2 /\ k = 1 /\ n = l
    BY <1>1 DEF Parted
  <1>4. s[m + (n + 1)] = sum[1] /\ m + (n + 1) = l + 3
    BY <1>2, <1>3, SMTT(30)
  <1>5. 1 \in 1 .. m /\ 2 \in 1 .. m
    BY <1>3
  <1>6. s[1] = h[1] /\ s[2] = h[2]
    BY <1>2, <1>5
  <1>7. \A i \in 1 .. l : s[2 + i] = bare[i]
    BY <1>2, <1>3
  <1>8. Len(s) = l + 3
    BY <1>2, <1>3
  <1>9. Framed(s, h, bare, sum, l)
    BY <1>4, <1>6, <1>7, <1>8 DEF Framed
  <1> QED BY <1>2, <1>9

\* fillEmptyBuffer puts a whole frame together, and no assertion fails.
LEMMA FilledIs ==
  ASSUME NEW body \in Seq(Flat)
  PROVE  /\ Fr!FillEmptyBuffer(body).ok = TRUE
         /\ Fr!FillEmptyBuffer(body).data \in Seq(Cell)
         /\ Len(Fr!FillEmptyBuffer(body).data) = Len(body) + 4
         /\ FrameAt(Fr!FillEmptyBuffer(body).data, 0, body)
  <1> USE FrameSettings
  <1>1. PICK tag \in Seq(Flat) : tag = Fr!Tag /\ Len(tag) = 1 /\ tag[1] = <<"tag">>
    BY PiecesAre DEF Fr!Tag
  <1>2. PICK e \in Seq(Cell) : e = <<>> /\ Len(e) = 0 /\ e \in Seq(Flat)
    BY EmptySeq
  <1>3. Good(Fr!New) /\ Fr!New.data = e
    <2>1. PICK m \in Nat : m = CheapPrepend + InitialSize
      OBVIOUS
    <2>2. Fr!New \in Buf /\ Fr!New.ok /\ Fr!New.r = CheapPrepend /\ Fr!New.size = m /\ Fr!New.data = e
      BY <2>1, <1>2 DEF Fr!New, Buf
    <2> QED BY <2>1, <2>2, <1>2 DEF Good
  <1>4. PICK a : a = Fr!AppendCells(Fr!New, tag)
    OBVIOUS
  <1>5. Good(a) /\ a.data = e \o tag
    BY <1>3, <1>4, FlatIs, AppendCellsIs
  <1>6. PICK l \in Nat : l = Len(body) + 1
    OBVIOUS
  <1>7. PICK b : b = Fr!EnsureWritable(a, l)
    OBVIOUS
  <1>8. Good(b) /\ b.data = e \o tag /\ b.size - (b.r + Len(b.data)) >= l
    BY <1>5, <1>7, EnsureIs
  <1>9. PICK c : c = [b EXCEPT !.data = @ \o body]
    OBVIOUS
  <1>10. Good(c) /\ c.data = (e \o tag) \o body
    <2>1. b.size - (b.r + Len(b.data)) \in Int
      BY <1>8, BufIs DEF Good
    <2>2. Len(body) <= b.size - (b.r + Len(b.data))
      BY <2>1, <1>6, <1>8
    <2> QED BY <2>2, <1>8, <1>9, FlatIs, PutIs
  <1>11. PICK bare \in Seq(Flat) : /\ bare = c.data /\ Len(bare) = l /\ bare[1] = <<"tag">>
                                   /\ \A i \in 1 .. Len(body) : bare[1 + i] = body[i]
    <2>1. e \o tag = tag
      BY <1>2, ConcatEmptySeq
    <2>2. /\ tag \o body \in Seq(Flat) /\ Len(tag \o body) = 1 + Len(body)
          /\ (tag \o body)[1] = tag[1] /\ \A i \in 1 .. Len(body) : (tag \o body)[1 + i] = body[i]
      BY <1>1, JoinsFlat
    <2>3. c.data = tag \o body
      BY <2>1, <1>10
    <2>4. Len(tag \o body) = l /\ (tag \o body)[1] = <<"tag">>
      BY <2>2, <1>1, <1>6
    <2> QED BY <2>2, <2>3, <2>4
  <1>12. PICK sum \in Seq(Cell) : sum = Fr!Checksum(bare) /\ Len(sum) = 1
    BY PiecesAre
  <1>13. PICK d : d = Fr!AppendCells(c, sum)
    OBVIOUS
  <1>14. Good(d) /\ d.data = bare \o sum
    BY <1>10, <1>11, <1>13, AppendCellsIs
  <1>15. PICK n \in Nat : n = l + 1
    OBVIOUS
  <1>16. Len(d.data) = n /\ d.data \in Seq(Cell)
    <2>1. bare \in Seq(Cell)
      BY FlatIs
    <2>2. bare \o sum \in Seq(Cell) /\ Len(bare \o sum) = Len(bare) + Len(sum)
      BY <2>1, Joins
    <2> QED BY <2>2, <1>11, <1>12, <1>14, <1>15
  <1>17. PICK h \in Seq(Cell) : /\ h = Fr!Header(n) /\ Len(h) = 2
                               /\ h[1] = <<"len", n, 1>> /\ h[2] = <<"len", n, 2>>
    <2>1. n \in Int
      OBVIOUS
    <2> QED BY <2>1, PiecesAre
  <1>18. Fr!FillEmptyBuffer(body) = Fr!Prepend(d, h)
    BY <1>1, <1>4, <1>6, <1>7, <1>9, <1>11, <1>12, <1>13, <1>16, <1>17
       DEF Fr!FillEmptyBuffer, Fr!ChecksumLen
  <1>19. d \in Buf /\ d.r \in Nat /\ 2 <= d.r /\ d.ok
    BY <1>14, BufIs, SMTT(30) DEF Good
  <1>20. Fr!Check(d, Len(h) <= d.r) = d
    BY <1>17, <1>19, CheckIs
  <1>21. PICK s \in Seq(Cell) : s = h \o d.data
    BY <1>16, Joins
  <1>22. PICK m \in Nat : m = d.r - Len(h)
    BY <1>17, <1>19
  <1>23. Fr!Prepend(d, h) = [d EXCEPT !.r = m, !.data = s]
    BY <1>20, <1>21, <1>22 DEF Fr!Prepend
  <1>24. [d EXCEPT !.r = m, !.data = s].ok = d.ok /\ [d EXCEPT !.r = m, !.data = s].data = s
    BY <1>19 DEF Buf
  <1>25. s = h \o (bare \o sum) /\ bare \in Seq(Cell)
    BY <1>14, <1>21, FlatIs
  <1>26. /\ Len(s) = l + 3 /\ s[1] = h[1] /\ s[2] = h[2]
         /\ \A i \in 1 .. l : s[2 + i] = bare[i]
    <2>1. Parted(h, bare, sum, l)
      BY <1>11, <1>12, <1>17 DEF Parted
    <2>2. Framed(s, h, bare, sum, l)
      BY <2>1, <1>25, FramedIs
    <2> QED BY <2>2 DEF Framed
  <1>27. s[3] = <<"tag">> /\ \A i \in 1 .. Len(body) : s[3 + i] = body[i]
    <2>1. s[2 + 1] = bare[1]
      BY <1>6, <1>26
    <2>2. \A i \in 1 .. Len(body) : s[2 + (1 + i)] = bare[1 + i]
      BY <1>6, <1>26
    <2> QED BY <2>1, <2>2, <1>11
  <1>28. FrameAt(s, 0, body)
    <2>1. Len(body) + 2 = n /\ 0 + Len(body) + 4 <= Len(s)
      BY <1>6, <1>15, <1>26
    <2>2. s[0 + 1] = <<"len", n, 1>> /\ s[0 + 2] = <<"len", n, 2>> /\ s[0 + 3] = <<"tag">>
      BY <1>17, <1>26, <1>27
    <2>3. \A i \in 1 .. Len(body) : s[0 + 3 + i] = body[i]
      BY <1>27
    <2> QED BY <2>1, <2>2, <2>3 DEF FrameAt
  <1> QED BY <1>6, <1>18, <1>19, <1>23, <1>24, <1>26, <1>28

\* A damaged frame is one that onMessage turns down.
LEMMA DamagedIs ==
  ASSUME NEW body \in Seq(Flat), NEW damage \in Damages
  PROVE  Fr!Damaged(damage, body) \in Seq(Cell) /\ BadAt(Fr!Damaged(damage, body), 0)
  <1> USE FrameSettings
  <1>1. PICK tag \in Seq(Flat) : tag = <<<<"tag">>>> /\ Len(tag) = 1 /\ tag[1] = <<"tag">>
    BY PiecesAre
  <1>2. PICK gat \in Seq(Flat) : gat = <<<<"gat">>>> /\ Len(gat) = 1 /\ gat[1] = <<"gat">>
    BY PiecesAre
  <1>3. PICK junk \in Seq(Flat) : junk = <<<<"junk">>>> /\ Len(junk) = 1 /\ junk[1] = <<"junk">>
    BY PiecesAre
  <1>4. PICK mus \in Seq(Cell) : mus = <<<<"mus">>>> /\ Len(mus) = 1 /\ mus[1] = <<"mus">>
    BY PiecesAre, FlatIs
  <1>b. PICK bare : bare = CASE damage = "tag" -> gat \o body
                             [] damage = "body" -> tag \o junk
                             [] OTHER -> tag \o body
    OBVIOUS
  <1>5. /\ bare \in Seq(Flat) /\ Len(bare) >= 1
        /\ damage = "tag" => bare[1] = <<"gat">>
        /\ damage = "body" => Len(bare) = 2 /\ bare[2] = <<"junk">>
    <2>1. CASE damage = "tag"
      <3>1. bare = gat \o body
        BY <2>1, <1>b
      <3>2. /\ gat \o body \in Seq(Flat) /\ Len(gat \o body) = 1 + Len(body) /\ (gat \o body)[1] = gat[1]
        BY <1>2, JoinsFlat
      <3> QED BY <2>1, <3>1, <3>2, <1>2
    <2>2. CASE damage = "body"
      <3>1. bare = tag \o junk
        BY <2>2, <1>b
      <3>2. /\ tag \o junk \in Seq(Flat) /\ Len(tag \o junk) = 2 /\ (tag \o junk)[1 + 1] = junk[1]
        BY <1>1, <1>3, JoinsFlat
      <3>3. 1 + 1 = 2
        OBVIOUS
      <3> QED BY <2>2, <3>1, <3>2, <3>3, <1>3
    <2>3. CASE damage # "tag" /\ damage # "body"
      <3>1. bare = tag \o body
        BY <2>3, <1>b
      <3>2. tag \o body \in Seq(Flat) /\ Len(tag \o body) = 1 + Len(body)
        BY <1>1, JoinsFlat
      <3> QED BY <2>3, <3>1, <3>2
    <2> QED BY <2>1, <2>2, <2>3
  <1>l. PICK l \in Nat : l = Len(bare) /\ l >= 1
    BY <1>5
  <1>6. PICK sum \in Seq(Cell) :
          /\ sum = IF damage = "sum" THEN mus ELSE Fr!Checksum(bare)
          /\ Len(sum) = 1 /\ (damage = "sum" => sum[1] = <<"mus">>)
    BY <1>4, <1>5, PiecesAre
  <1>7. PICK n \in Int :
          n = CASE damage = "short" -> 1
                [] damage = "long" -> MaxLen + 1
                [] OTHER -> l + 1
    OBVIOUS
  <1>h. PICK h \in Seq(Cell) : /\ h = Fr!Header(n) /\ Len(h) = 2
                              /\ h[1] = <<"len", n, 1>> /\ h[2] = <<"len", n, 2>>
    BY PiecesAre
  <1>8. PICK s : s = Fr!Damaged(damage, body)
    OBVIOUS
  <1>9. s = h \o (bare \o sum) /\ bare \in Seq(Cell)
    <2>1. s = (h \o bare) \o sum
      BY <1>1, <1>2, <1>3, <1>4, <1>b, <1>l, <1>6, <1>7, <1>8, <1>h
         DEF Fr!Damaged, Fr!Tag, Fr!MinLen, Fr!TagLen, Fr!ChecksumLen
    <2>2. bare \in Seq(Cell)
      BY <1>5, FlatIs
    <2> QED BY <2>1, <2>2, JoinsAssoc
  <1>10. /\ s \in Seq(Cell) /\ Len(s) = l + 3 /\ s[1] = h[1] /\ s[2] = h[2]
         /\ s[l + 3] = sum[1] /\ \A i \in 1 .. l : s[2 + i] = bare[i]
    <2>1. Parted(h, bare, sum, l)
      BY <1>6, <1>l, <1>h DEF Parted
    <2>2. Framed(s, h, bare, sum, l)
      BY <2>1, <1>9, FramedIs
    <2> QED BY <2>2 DEF Framed
  <1>11. n < 2 \/ n > MaxLen \/ (/\ n >= 2 /\ 2 + n <= Len(s)
                               /\ \/ s[2 + n] = <<"mus">> \/ s[3] = <<"gat">>
                                  \/ (n >= 3 /\ s[4] = <<"junk">>))
    <2>1. CASE damage \in {"short", "long"}
      BY <2>1, <1>7
    <2>2. ASSUME damage \notin {"short", "long"} PROVE n = l + 1 /\ n >= 2 /\ 2 + n = l + 3
      <3>1. n = l + 1
        BY <2>2, <1>7
      <3> QED BY <3>1, <1>l
    <2>3. CASE damage = "sum"
      BY <2>2, <2>3, <1>6, <1>10
    <2>4. CASE damage = "tag"
      <3>1. s[2 + 1] = bare[1]
        BY <1>l, <1>10
      <3>2. 2 + 1 = 3
        OBVIOUS
      <3> QED BY <2>2, <2>4, <3>1, <3>2, <1>5, <1>10
    <2>5. CASE damage = "body"
      <3>1. l = 2
        BY <2>5, <1>5, <1>l
      <3>2. s[2 + 2] = bare[2]
        BY <3>1, <1>10
      <3>3. 2 + 2 = 4
        OBVIOUS
      <3> QED BY <2>2, <2>5, <3>1, <3>2, <3>3, <1>5, <1>10
    <2> QED BY <2>1, <2>3, <2>4, <2>5
  <1>12. BadAt(s, 0)
    <2>1. 0 + 1 = 1 /\ 0 + 2 = 2 /\ 0 + 3 = 3 /\ 0 + 4 = 4 /\ 0 + 2 + n = 2 + n /\ 2 <= Len(s)
      BY <1>10
    <2>2. s[1] = <<"len", n, 1>> /\ s[2] = <<"len", n, 2>>
      BY <1>h, <1>10
    <2> QED BY <2>1, <2>2, <1>11 DEF BadAt
  <1> QED BY <1>8, <1>10, <1>12


\* What stands behind o cells of s stands behind p cells of t.
Follows(s, o, t, p) ==
  /\ s \in Seq(Cell) /\ t \in Seq(Cell) /\ o \in Nat /\ p \in Nat
  /\ p + Len(s) <= o + Len(t) /\ \A i \in Nat \ {0} : o + i <= Len(s) => t[p + i] = s[o + i]

LEMMA FrameFollows ==
  ASSUME NEW s, NEW o, NEW t, NEW p, Follows(s, o, t, p), NEW body \in Seq(Cell), FrameAt(s, o, body)
  PROVE  FrameAt(t, p, body)
  <1>1. PICK n \in Nat, l \in Nat, m \in Nat : n = Len(body) /\ l = Len(s) /\ m = Len(t)
    BY DEF Follows
  <1>2. o \in Nat /\ p \in Nat /\ o + n + 4 <= l /\ p + l <= o + m
    BY <1>1 DEF Follows, FrameAt
  <1>3. t[p + 1] = s[o + 1] /\ t[p + 2] = s[o + 2] /\ t[p + 3] = s[o + 3]
    BY <1>1, <1>2, SMTT(30) DEF Follows
  <1>4. ASSUME NEW i \in 1 .. n PROVE t[p + 3 + i] = body[i]
    <2>1. PICK j \in Nat \ {0} : j = 3 + i
      OBVIOUS
    <2>2. o + j <= l /\ p + 3 + i = p + j /\ o + 3 + i = o + j
      BY <1>2, <2>1
    <2>3. t[p + j] = s[o + j]
      BY <1>1, <2>2 DEF Follows
    <2> QED BY <1>1, <2>2, <2>3 DEF FrameAt
  <1>5. p + n + 4 <= m
    BY <1>2
  <1> QED BY <1>1, <1>3, <1>4, <1>5 DEF FrameAt

LEMMA BadFollows ==
  ASSUME NEW s, NEW o, NEW t, NEW p, Follows(s, o, t, p), BadAt(s, o)
  PROVE  BadAt(t, p)
  <1> USE FrameSettings
  <1>1. PICK l \in Nat, m \in Nat : l = Len(s) /\ m = Len(t)
    BY DEF Follows
  <1>2. PICK n \in Int :
          /\ o + 2 <= l /\ s[o + 1] = <<"len", n, 1>> /\ s[o + 2] = <<"len", n, 2>>
          /\ n < 2 \/ n > MaxLen \/ (/\ n >= 2 /\ o + 2 + n <= l
                                    /\ \/ s[o + 2 + n] = <<"mus">> \/ s[o + 3] = <<"gat">>
                                       \/ (n >= 3 /\ s[o + 4] = <<"junk">>))
    BY <1>1 DEF BadAt
  <1>3. o \in Nat /\ p \in Nat /\ p + l <= o + m
    BY <1>1 DEF Follows
  <1>4. \A i \in Nat \ {0} : o + i <= l => t[p + i] = s[o + i]
    BY <1>1 DEF Follows
  <1>5. p + 2 <= m /\ t[p + 1] = <<"len", n, 1>> /\ t[p + 2] = <<"len", n, 2>>
    BY <1>2, <1>3, <1>4
  <1>6. CASE n < 2 \/ n > MaxLen
    BY <1>1, <1>5, <1>6 DEF BadAt
  <1>7. CASE ~(n < 2 \/ n > MaxLen)
    <2>1. /\ n >= 2 /\ o + 2 + n <= l
          /\ \/ s[o + 2 + n] = <<"mus">> \/ s[o + 3] = <<"gat">>
             \/ (n >= 3 /\ s[o + 4] = <<"junk">>)
      BY <1>2, <1>7
    <2>2. PICK j \in Nat \ {0} : j = 2 + n
      BY <2>1
    <2>3. p + j <= m /\ o + 2 + n = o + j /\ p + 2 + n = p + j /\ o + 3 <= l /\ (n >= 3 => o + 4 <= l)
      BY <1>3, <2>1, <2>2
    <2>4. t[p + j] = s[o + j] /\ t[p + 3] = s[o + 3] /\ (n >= 3 => t[p + 4] = s[o + 4])
      BY <1>4, <2>1, <2>3
    <2>5. /\ n >= 2 /\ p + 2 + n <= m
          /\ \/ t[p + 2 + n] = <<"mus">> \/ t[p + 3] = <<"gat">>
             \/ (n >= 3 /\ t[p + 4] = <<"junk">>)
      BY <2>1, <2>3, <2>4
    <2> QED BY <1>1, <1>5, <2>5 DEF BadAt
  <1> QED BY <1>6, <1>7

\* More cells behind; the same cells behind others.
LEMMA BehindFollows ==
  ASSUME NEW s \in Seq(Cell), NEW t \in Seq(Cell)
  PROVE  /\ \A o \in Nat : Follows(s, o, s \o t, o)
         /\ Follows(t, 0, s \o t, Len(s))
  <1>1. PICK u \in Seq(Cell), l \in Nat, m \in Nat :
          /\ u = s \o t /\ l = Len(s) /\ m = Len(t) /\ Len(u) = l + m
          /\ \A i \in 1 .. l : u[i] = s[i]
          /\ \A i \in 1 .. m : u[l + i] = t[i]
    <2>1. /\ s \o t \in Seq(Cell) /\ Len(s \o t) = Len(s) + Len(t)
          /\ \A i \in 1 .. Len(s) : (s \o t)[i] = s[i]
          /\ \A i \in 1 .. Len(t) : (s \o t)[Len(s) + i] = t[i]
      BY Joins
    <2>2. Len(s) \in Nat /\ Len(t) \in Nat
      OBVIOUS
    <2> QED BY <2>1, <2>2
  <1>2. ASSUME NEW o \in Nat PROVE Follows(s, o, u, o)
    <2>1. \A i \in Nat \ {0} : o + i <= l => u[o + i] = s[o + i]
      BY <1>1
    <2>2. o + l <= o + Len(u)
      BY <1>1
    <2> QED BY <1>1, <2>1, <2>2 DEF Follows
  <1>3. Follows(t, 0, u, l)
    <2>1. \A i \in Nat \ {0} : 0 + i <= m => u[l + i] = t[0 + i]
      BY <1>1
    <2>2. l + m <= 0 + Len(u)
      BY <1>1
    <2> QED BY <1>1, <2>1, <2>2 DEF Follows
  <1> QED BY <1>1, <1>2, <1>3


LEMMA SentIs ==
  ASSUME NEW r \in Sents, r[1] = "ok"
  PROVE  r[2] \in Seq(Cell)
  BY DEF Sents

\* The cells of one frame, sound or damaged.
Wire(x, r) ==
  \/ r[1] = "ok" /\ FrameAt(x, 0, r[2]) /\ Len(x) = Len(r[2]) + 4
  \/ r[1] = "damaged" /\ BadAt(x, 0)

Typed(s, sn, dl, at) ==
  s \in Seq(Cell) /\ sn \in Seq(Sents) /\ dl \in Seq(Seq(Cell)) /\ at \in [Nat -> Nat]

LEMMA SentMore ==
  ASSUME NEW sn \in Seq(Sents), NEW r \in Sents
  PROVE  /\ Append(sn, r) \in Seq(Sents) /\ Len(Append(sn, r)) = Len(sn) + 1
         /\ Append(sn, r)[Len(sn) + 1] = r /\ \A i \in 1 .. Len(sn) : Append(sn, r)[i] = sn[i]
  OBVIOUS

\* One more frame behind the others.
LEMMA LayMore ==
  ASSUME NEW s, NEW sn, NEW dl, NEW k \in Nat, NEW at, Typed(s, sn, dl, at), Lay(s, sn, dl, k, at),
         NEW x, x \in Seq(Cell), NEW r \in Sents, Wire(x, r)
  PROVE  \E k2 \in Nat, at2 \in [Nat -> Nat] : Lay(s \o x, Append(sn, r), dl, k2, at2)
  <1>1. PICK t : /\ t = s \o x /\ Len(t) = Len(s) + Len(x) /\ t \in Seq(Cell)
                 /\ \A o \in Nat : Follows(s, o, t, o)
                 /\ Follows(x, 0, t, Len(s))
    <2>1. s \in Seq(Cell)
      BY DEF Typed
    <2> QED BY <2>1, Joins, BehindFollows
  <1>2. PICK m \in Nat, d \in Nat : m = Len(sn) /\ d = Len(dl)
    BY DEF Typed
  <1>3. PICK u : /\ u = Append(sn, r) /\ Len(u) = m + 1 /\ u[m + 1] = r
                 /\ \A i \in 1 .. m : u[i] = sn[i]
    <2>1. sn \in Seq(Sents)
      BY DEF Typed
    <2>2. /\ Len(Append(sn, r)) = Len(sn) + 1
          /\ Append(sn, r)[Len(sn) + 1] = r /\ \A i \in 1 .. Len(sn) : Append(sn, r)[i] = sn[i]
      BY <2>1, SentMore
    <2> QED BY <2>2, <1>2
  <1>a. at \in [Nat -> Nat] /\ \A i \in Nat : at[i] \in Nat
    BY DEF Typed
  <1>b. \A i \in 1 .. m : sn[i] \in Sents
    BY <1>2 DEF Typed
  <1>c. d <= k /\ k <= m
    BY <1>2 DEF Lay
  <1>d. \A i \in 1 .. k : sn[i][1] = "ok"
    BY DEF Lay
  <1>e. \A i \in 1 .. d : dl[i] = sn[i][2]
    BY <1>2 DEF Lay
  <1>f. at[d + 1] = 0
    BY <1>2 DEF Lay
  <1>g. \A i \in d + 1 .. k : FrameAt(s, at[i], sn[i][2])
    BY <1>2 DEF Lay
  <1>h. \A i \in d + 1 .. k : at[i + 1] = at[i] + Len(sn[i][2]) + 4
    BY <1>2 DEF Lay
  <1>i. \A i, j \in d + 1 .. k + 1 : i <= j => at[i] <= at[j]
    BY <1>2 DEF Lay
  <1>j. k = m => at[k + 1] = Len(s)
    BY <1>2 DEF Lay
  <1>k. k # m => sn[k + 1][1] = "damaged" /\ BadAt(s, at[k + 1])
    BY <1>2 DEF Lay
  <1>5. \A i \in d + 1 .. k : FrameAt(t, at[i], sn[i][2])
    <2> TAKE i \in d + 1 .. k
    <2>1. i \in 1 .. k /\ i \in 1 .. m /\ i \in Nat
      BY <1>c
    <2>2. sn[i][2] \in Seq(Cell)
      BY <2>1, <1>b, <1>d, SentIs
    <2>3. Follows(s, at[i], t, at[i])
      BY <2>1, <1>1, <1>a
    <2> QED BY <2>2, <2>3, <1>g, FrameFollows
  <1>6. \A i \in 1 .. k : u[i] = sn[i]
    BY <1>3, <1>c
  <1>l. /\ \A i \in 1 .. d : dl[i] = u[i][2]
        /\ \A i \in 1 .. k : u[i][1] = "ok"
        /\ \A i \in d + 1 .. k : FrameAt(t, at[i], u[i][2])
        /\ \A i \in d + 1 .. k : at[i + 1] = at[i] + Len(u[i][2]) + 4
    <2>1. \A i \in 1 .. d : i \in 1 .. k
      BY <1>c
    <2>2. \A i \in d + 1 .. k : i \in 1 .. k
      BY <1>c
    <2> QED BY <2>1, <2>2, <1>d, <1>e, <1>5, <1>h, <1>6
  <1>7. ASSUME k # m \/ (BadAt(x, 0) /\ r[1] = "damaged")
        PROVE  Lay(t, u, dl, k, at)
    <2>1. BadAt(t, at[k + 1]) /\ u[k + 1][1] = "damaged"
      <3>1. CASE k # m
        <4>1. Follows(s, at[k + 1], t, at[k + 1])
          BY <1>1, <1>a
        <4>2. k + 1 \in 1 .. m
          BY <3>1, <1>c
        <4> QED BY <4>1, <4>2, <3>1, <1>3, <1>k, BadFollows
      <3>2. CASE k = m
        BY <3>2, <1>1, <1>3, <1>7, <1>j, BadFollows
      <3> QED BY <3>1, <3>2
    <2>2. k # m + 1 /\ k <= m + 1
      BY <1>c
    <2> QED BY <1>2, <1>3, <1>c, <1>f, <1>i, <1>l, <2>1, <2>2 DEF Lay
  <1>8. ASSUME k = m, r[1] = "ok" /\ FrameAt(x, 0, r[2]) /\ Len(x) = Len(r[2]) + 4
        PROVE  \E at2 \in [Nat -> Nat] : Lay(t, u, dl, k + 1, at2)
    <2>1. PICK n \in Nat : n = Len(r[2])
      BY <1>8, SentIs
    <2>2. FrameAt(t, at[k + 1], r[2])
      <3>1. r[2] \in Seq(Cell)
        BY <1>8, SentIs
      <3> QED BY <3>1, <1>1, <1>j, <1>8, FrameFollows
    <2>p. PICK p \in Nat : p = at[k + 1]
      BY <1>a
    <2>3. PICK e \in Nat : e = p + n + 4
      OBVIOUS
    <2>e. e = Len(t)
      <3>1. PICK q : q = Len(x) /\ q = n + 4
        BY <1>8, <2>1
      <3>2. Len(t) = p + q
        BY <3>1, <1>1, <1>8, <1>j, <2>p
      <3>3. q = n + 4
        BY <3>1
      <3>4. p + q = e
        BY <3>3, <2>3
      <3> QED BY <3>2, <3>4
    <2>4. PICK at2 \in [Nat -> Nat] : at2 = [at EXCEPT ![k + 2] = e]
      BY <1>a
    <2>5. at2[k + 2] = e /\ \A i \in 1 .. k + 1 : at2[i] = at[i]
      BY <2>4, <1>a
    <2>6. ASSUME NEW i \in d + 1 .. k + 1
          PROVE  FrameAt(t, at2[i], u[i][2]) /\ at2[i + 1] = at2[i] + Len(u[i][2]) + 4
      <3>1. CASE i = k + 1
        <4>1. u[i] = r /\ i + 1 = k + 2 /\ i \in 1 .. k + 1
          BY <3>1, <1>3, <1>8
        <4>2. at2[i] = p /\ at2[i + 1] = p + n + 4
          BY <4>1, <3>1, <2>p, <2>3, <2>5
        <4> QED BY <4>1, <4>2, <3>1, <2>1, <2>2, <2>p
      <3>2. CASE i # k + 1
        <4>1. i \in d + 1 .. k /\ i \in 1 .. k + 1 /\ i + 1 \in 1 .. k + 1
          BY <3>2, <1>c
        <4> QED BY <4>1, <1>l, <2>5
      <3> QED BY <3>1, <3>2
    <2>7. ASSUME NEW i \in d + 1 .. k + 2, NEW j \in d + 1 .. k + 2, i <= j
          PROVE  at2[i] <= at2[j]
      <3>1. CASE j # k + 2
        <4>1. i \in d + 1 .. k + 1 /\ j \in d + 1 .. k + 1 /\ i \in 1 .. k + 1 /\ j \in 1 .. k + 1
          BY <2>7, <3>1, <1>c
        <4> QED BY <4>1, <2>5, <2>7, <1>i
      <3>2. CASE j = k + 2 /\ i # k + 2
        <4>1. i \in d + 1 .. k + 1 /\ i \in 1 .. k + 1 /\ k + 1 \in d + 1 .. k + 1 /\ i <= k + 1
          BY <3>2, <1>c
        <4>2. at[i] <= at[k + 1]
          BY <4>1, <1>i
        <4>3. PICK q \in Nat : q = at[i]
          BY <1>a, <4>1
        <4>4. q <= p /\ at2[i] = q /\ at2[j] = e
          BY <4>1, <4>2, <4>3, <2>5, <2>p, <3>2
        <4>5. q <= e
          BY <4>4, <2>3
        <4> QED BY <4>4, <4>5
      <3>3. CASE j = k + 2 /\ i = k + 2
        BY <3>3, <2>5
      <3> QED BY <3>1, <3>2, <3>3
    <2>8. \A i \in 1 .. k + 1 : u[i][1] = "ok"
      <3> TAKE i \in 1 .. k + 1
      <3>1. i \in 1 .. k \/ i = k + 1
        OBVIOUS
      <3> QED BY <3>1, <1>3, <1>8, <1>l
    <2>9. at2[d + 1] = 0
      <3>1. d + 1 \in 1 .. k + 1
        BY <1>c
      <3> QED BY <3>1, <1>f, <2>5
    <2>10. d <= k + 1 /\ k + 1 = m + 1 /\ k + 1 + 1 = k + 2 /\ k + 1 <= m + 1
      BY <1>c, <1>8
    <2>11. Lay(t, u, dl, k + 1, at2)
      BY <1>2, <1>3, <1>l, <2>e, <2>5, <2>6, <2>7, <2>8, <2>9, <2>10 DEF Lay
    <2> QED BY <2>11
  <1>9. k + 1 \in Nat
    OBVIOUS
  <1>10. CASE k # m \/ (BadAt(x, 0) /\ r[1] = "damaged")
    BY <1>10, <1>7, <1>1, <1>3, <1>a
  <1>11. CASE k = m /\ r[1] = "ok" /\ FrameAt(x, 0, r[2]) /\ Len(x) = Len(r[2]) + 4
    <2>1. PICK at2 \in [Nat -> Nat] : Lay(t, u, dl, k + 1, at2)
      BY <1>11, <1>8
    <2> QED BY <2>1, <1>9, <1>1, <1>3
  <1> QED BY <1>10, <1>11 DEF Wire


FirstIs(sn, dl, k, body) == Len(dl) < k /\ body = sn[Len(dl) + 1][2]

\* t is s without the L cells of its first frame.
Shorter(s, t, L, body) ==
  /\ t \in Seq(Cell) /\ Len(t) + L = Len(s) /\ L = Len(body) + 4
  /\ \A i \in 1 .. Len(t) : t[i] = s[L + i]

\* The first frame is taken out.
LEMMA LayLess ==
  ASSUME NEW s, NEW sn, NEW dl, NEW k \in Nat, NEW at, Typed(s, sn, dl, at), Lay(s, sn, dl, k, at),
         NEW body, FirstIs(sn, dl, k, body), NEW L \in Nat, NEW t, Shorter(s, t, L, body)
  PROVE  \E at2 \in [Nat -> Nat] : Lay(t, sn, Append(dl, body), k, at2)
  <1>2. PICK m \in Nat, d \in Nat : m = Len(sn) /\ d = Len(dl)
    BY DEF Typed
  <1>0. PICK l \in Nat, e \in Nat : l = Len(s) /\ e = Len(t)
    BY DEF Typed, Shorter
  <1>p. e + L = l /\ \A i \in 1 .. e : t[i] = s[L + i]
    BY <1>0 DEF Shorter
  <1>a. at \in [Nat -> Nat] /\ \A i \in Nat : at[i] \in Nat
    BY DEF Typed
  <1>b. \A i \in 1 .. m : sn[i] \in Sents
    BY <1>2 DEF Typed
  <1>c. d < k /\ k <= m
    BY <1>2 DEF Lay, FirstIs
  <1>d. \A i \in 1 .. k : sn[i][1] = "ok"
    BY DEF Lay
  <1>e. \A i \in 1 .. d : dl[i] = sn[i][2]
    BY <1>2 DEF Lay
  <1>f. at[d + 1] = 0
    BY <1>2 DEF Lay
  <1>g. \A i \in d + 1 .. k : FrameAt(s, at[i], sn[i][2])
    BY <1>2 DEF Lay
  <1>h. \A i \in d + 1 .. k : at[i + 1] = at[i] + Len(sn[i][2]) + 4
    BY <1>2 DEF Lay
  <1>i. \A i, j \in d + 1 .. k + 1 : i <= j => at[i] <= at[j]
    BY <1>2 DEF Lay
  <1>j. k = m => at[k + 1] = Len(s)
    BY <1>2 DEF Lay
  <1>k. k # m => sn[k + 1][1] = "damaged" /\ BadAt(s, at[k + 1])
    BY <1>2 DEF Lay
  <1>l. body \in Seq(Cell) /\ body = sn[d + 1][2]
    <2>1. d + 1 \in 1 .. k /\ d + 1 \in 1 .. m
      BY <1>c
    <2>2. sn[d + 1] \in Sents /\ sn[d + 1][1] = "ok"
      BY <2>1, <1>b, <1>d
    <2>3. sn[d + 1][2] = body
      BY <1>2 DEF FirstIs
    <2> QED BY <2>2, <2>3, SentIs
  <1>m. PICK v : /\ v = Append(dl, body) /\ Len(v) = d + 1 /\ v[d + 1] = body
                 /\ \A i \in 1 .. d : v[i] = dl[i]
    <2>1. dl \in Seq(Seq(Cell))
      BY DEF Typed
    <2>2. /\ Len(Append(dl, body)) = Len(dl) + 1 /\ Append(dl, body)[Len(dl) + 1] = body
          /\ \A i \in 1 .. Len(dl) : Append(dl, body)[i] = dl[i]
      BY <2>1, <1>l
    <2> QED BY <2>2, <1>2
  <1>n. at[d + 2] = L
    <2>1. d + 1 \in d + 1 .. k /\ d + 1 + 1 = d + 2
      BY <1>c
    <2>2. at[d + 1 + 1] = at[d + 1] + Len(body) + 4
      BY <2>1, <1>h, <1>l
    <2>3. Len(body) \in Nat
      BY <1>l
    <2> QED BY <2>1, <2>2, <2>3, <1>f DEF Shorter
  <1>o. \A i \in d + 2 .. k + 1 : at[i] >= L
    <2> TAKE i \in d + 2 .. k + 1
    <2>1. d + 2 \in d + 1 .. k + 1 /\ i \in d + 1 .. k + 1 /\ d + 2 <= i /\ i \in Nat /\ d + 2 \in Nat
      BY <1>c
    <2>2. at[d + 2] <= at[i] /\ at[i] \in Nat /\ at[d + 2] \in Nat
      BY <2>1, <1>i, <1>a
    <2> QED BY <2>2, <1>n
  <1>3. PICK at2 \in [Nat -> Nat] : at2 = [i \in Nat |-> IF at[i] >= L THEN at[i] - L ELSE 0]
    <2>1. \A i \in Nat : (IF at[i] >= L THEN at[i] - L ELSE 0) \in Nat
      BY <1>a
    <2> QED BY <2>1
  <1>4. \A i \in d + 2 .. k + 1 : at2[i] \in Nat /\ at2[i] + L = at[i]
    <2> TAKE i \in d + 2 .. k + 1
    <2>1. i \in Nat /\ at[i] \in Nat
      BY <1>a
    <2> QED BY <2>1, <1>3, <1>o
  <1>5. \A i \in d + 2 .. k + 1 : Follows(s, at[i], t, at2[i])
    <2> TAKE i \in d + 2 .. k + 1
    <2>1. PICK o \in Nat, p \in Nat : o = at[i] /\ p = at2[i] /\ p + L = o
      BY <1>4
    <2>2. p + l <= o + e
      BY <2>1, <1>p
    <2>3. \A j \in Nat \ {0} : o + j <= l => t[p + j] = s[o + j]
      <3> SUFFICES ASSUME NEW j \in Nat \ {0}, o + j <= l PROVE t[p + j] = s[o + j]
        OBVIOUS
      <3>1. PICK q \in 1 .. e : q = p + j
        BY <2>1, <1>p
      <3>2. L + q = o + j
        BY <3>1, <2>1
      <3> QED BY <3>1, <3>2, <1>p
    <2>4. s \in Seq(Cell) /\ t \in Seq(Cell)
      BY DEF Typed, Shorter
    <2> QED BY <2>1, <2>2, <2>3, <2>4, <1>0 DEF Follows
  <1>6. ASSUME NEW i \in d + 2 .. k
        PROVE  FrameAt(t, at2[i], sn[i][2]) /\ at2[i + 1] = at2[i] + Len(sn[i][2]) + 4
    <2>1. i \in d + 1 .. k /\ i \in 1 .. k /\ i \in 1 .. m /\ i \in d + 2 .. k + 1 /\ i + 1 \in d + 2 .. k + 1
      BY <1>c
    <2>2. sn[i][2] \in Seq(Cell)
      BY <2>1, <1>b, <1>d, SentIs
    <2>3. FrameAt(t, at2[i], sn[i][2])
      <3>1. Follows(s, at[i], t, at2[i])
        BY <2>1, <1>5
      <3>2. FrameAt(s, at[i], sn[i][2])
        BY <2>1, <1>g
      <3>3. PICK o, p, b : o = at[i] /\ p = at2[i] /\ b = sn[i][2]
        OBVIOUS
      <3>4. Follows(s, o, t, p) /\ FrameAt(s, o, b) /\ b \in Seq(Cell)
        BY <3>1, <3>2, <3>3, <2>2
      <3>5. FrameAt(t, p, b)
        BY <3>4, FrameFollows
      <3> QED BY <3>3, <3>5
    <2>4. PICK n \in Nat : n = Len(sn[i][2])
      <3>1. PICK b : b = sn[i][2] /\ b \in Seq(Cell)
        BY <2>2
      <3>2. Len(b) \in Nat
        BY <3>1, LenProperties, Zenon
      <3> QED BY <3>1, <3>2
    <2>5. at[i + 1] = at[i] + n + 4
      BY <2>1, <2>4, <1>h
    <2>6. PICK p \in Nat, q \in Nat : p = at2[i] /\ q = at2[i + 1] /\ p + L = at[i] /\ q + L = at[i + 1]
      BY <2>1, <1>4
    <2>7. q = p + n + 4
      BY <2>5, <2>6
    <2> QED BY <2>3, <2>4, <2>6, <2>7
  <1>7. ASSUME NEW i \in d + 2 .. k + 1, NEW j \in d + 2 .. k + 1, i <= j
        PROVE  at2[i] <= at2[j]
    <2>1. i \in d + 1 .. k + 1 /\ j \in d + 1 .. k + 1
      OBVIOUS
    <2>2. at[i] <= at[j]
      BY <2>1, <1>7, <1>i
    <2>3. PICK p \in Nat, q \in Nat : p = at2[i] /\ q = at2[j] /\ p + L = at[i] /\ q + L = at[j]
      BY <1>4
    <2>4. p <= q
      BY <2>2, <2>3
    <2> QED BY <2>3, <2>4
  <1>8. k + 1 \in d + 2 .. k + 1 /\ d + 2 \in d + 2 .. k + 1 /\ d + 1 + 1 = d + 2 /\ d + 1 <= k
    BY <1>c
  <1>9. k = m => at2[k + 1] = Len(t)
    <2> SUFFICES ASSUME k = m PROVE at2[k + 1] = e
      BY <1>0
    <2>1. PICK p \in Nat : p = at2[k + 1] /\ p + L = at[k + 1]
      BY <1>8, <1>4
    <2>2. p + L = l
      BY <2>1, <1>j, <1>0
    <2>3. p = e
      BY <2>2, <1>p
    <2> QED BY <2>1, <2>3
  <1>10. k # m => sn[k + 1][1] = "damaged" /\ BadAt(t, at2[k + 1])
    BY <1>8, <1>5, <1>k, BadFollows
  <1>11. at2[d + 2] = 0
    <2>1. PICK p \in Nat : p = at2[d + 2] /\ p + L = at[d + 2]
      BY <1>8, <1>4
    <2>2. p = 0
      BY <2>1, <1>n
    <2> QED BY <2>1, <2>2
  <1>12. \A i \in 1 .. d + 1 : v[i] = sn[i][2]
    <2> TAKE i \in 1 .. d + 1
    <2>1. i \in 1 .. d \/ i = d + 1
      OBVIOUS
    <2> QED BY <2>1, <1>e, <1>l, <1>m
  <1>13. Lay(t, sn, v, k, at2)
    <2>1. Len(v) + 1 = d + 2 /\ Len(v) = d + 1
      BY <1>m
    <2> QED BY <2>1, <1>2, <1>c, <1>d, <1>6, <1>7, <1>8, <1>9, <1>10, <1>11, <1>12 DEF Lay
  <1> QED BY <1>13, <1>m


-----------------------------------------------------------------------------
(* Framing: onMessage *)

\* What parse makes of the n cells behind a header.
Opened(d, n) == SubSeq(d, 3, 2 + n)

LEMMA OpenedIs ==
  ASSUME NEW d \in Seq(Cell), NEW n \in Nat, 2 <= n, 2 + n <= Len(d)
  PROVE  /\ Opened(d, n) \in Seq(Cell) /\ Len(Opened(d, n)) = n
         /\ \A i \in 1 .. n : Opened(d, n)[i] = d[2 + i]
  <1>1. PICK m \in Nat, e \in Nat : m = 2 /\ e = 2 + n
    OBVIOUS
  <1>2. m <= e /\ e <= Len(d) /\ m + 1 = 3 /\ e - m = n
    BY <1>1
  <1>3. /\ SubSeq(d, m + 1, e) \in Seq(Cell) /\ Len(SubSeq(d, m + 1, e)) = e - m
        /\ \A i \in 1 .. e - m : SubSeq(d, m + 1, e)[i] = d[m + i]
    BY <1>2, Cut
  <1> QED BY <1>1, <1>2, <1>3 DEF Opened

\* The parts of it.
LEMMA PartsOf ==
  ASSUME NEW w \in Seq(Cell), NEW n \in Nat, n = Len(w), 2 <= n
  PROVE  /\ SubSeq(w, 1, n - 1) \in Seq(Cell) /\ Len(SubSeq(w, 1, n - 1)) = n - 1
         /\ \A i \in 1 .. n - 1 : SubSeq(w, 1, n - 1)[i] = w[i]
         /\ SubSeq(w, 2, n - 1) \in Seq(Cell) /\ Len(SubSeq(w, 2, n - 1)) = n - 2
         /\ \A i \in 1 .. n - 2 : SubSeq(w, 2, n - 1)[i] = w[1 + i]
         /\ SubSeq(w, n, n)[1] = w[n]
  <1>1. PICK e \in Nat, o \in Nat : e = n - 1 /\ o = 1
    OBVIOUS
  <1>2. o <= e /\ e <= Len(w) /\ o + 1 = 2 /\ e - o = n - 2 /\ e + 1 = n /\ n - e = 1
    BY <1>1
  <1>3. /\ SubSeq(w, 1, e) \in Seq(Cell) /\ Len(SubSeq(w, 1, e)) = e
        /\ \A i \in 1 .. e : SubSeq(w, 1, e)[i] = w[i]
    BY <1>2, CutFront
  <1>4. /\ SubSeq(w, o + 1, e) \in Seq(Cell) /\ Len(SubSeq(w, o + 1, e)) = e - o
        /\ \A i \in 1 .. e - o : SubSeq(w, o + 1, e)[i] = w[o + i]
    BY <1>2, Cut
  <1>5. \A i \in 1 .. n - e : SubSeq(w, e + 1, n)[i] = w[e + i]
    BY <1>2, Cut
  <1> QED BY <1>1, <1>2, <1>3, <1>4, <1>5

\* parse turns a damaged frame down.
LEMMA BadParses ==
  ASSUME NEW w \in Seq(Cell), NEW n \in Nat, n = Len(w), 2 <= n,
         \/ w[n] = <<"mus">> \/ w[1] = <<"gat">> \/ (n >= 3 /\ w[2] = <<"junk">>)
  PROVE  Fr!Parse(w) # "NoError"
  <1>1. PICK bare \in Seq(Cell), m \in Nat :
          /\ bare = SubSeq(w, 1, Len(w) - 1) /\ Len(bare) = m /\ m = n - 1
          /\ \A i \in 1 .. m : bare[i] = w[i]
    <2>1. PICK bare : bare = SubSeq(w, 1, n - 1)
      OBVIOUS
    <2>2. bare \in Seq(Cell) /\ Len(bare) = n - 1 /\ \A i \in 1 .. n - 1 : bare[i] = w[i]
      BY <2>1, PartsOf
    <2>3. n - 1 \in Nat
      OBVIOUS
    <2> QED BY <2>1, <2>2, <2>3
  <1>2. CASE w[n] = <<"mus">>
    <2>1. SubSeq(w, Len(w), Len(w))[1] = <<"mus">>
      BY <1>2, PartsOf
    <2>2. Fr!Checksum(bare)[1] = <<"sum", bare>>
      BY DEF Fr!Checksum
    <2>3. <<"mus">> # <<"sum", bare>>
      OBVIOUS
    <2>4. SubSeq(w, Len(w), Len(w)) # Fr!Checksum(bare)
      BY <2>1, <2>2, <2>3
    <2> QED BY <1>1, <2>4 DEF Fr!Parse, Fr!ChecksumLen
  <1>3. CASE w[1] = <<"gat">>
    <2>1. bare[1] = <<"gat">> /\ 1 <= Len(bare)
      BY <1>1, <1>3
    <2>2. SubSeq(bare, 1, 1)[1] = <<"gat">>
      BY <2>1, CutFront
    <2>3. Fr!Tag[1] = <<"tag">> /\ <<"tag">> # <<"gat">>
      BY DEF Fr!Tag
    <2>4. SubSeq(bare, 1, 1) # Fr!Tag
      BY <2>2, <2>3
    <2> QED BY <1>1, <2>4 DEF Fr!Parse, Fr!ChecksumLen, Fr!TagLen
  <1>4. CASE n >= 3 /\ w[2] = <<"junk">>
    <2>1. bare[2] = <<"junk">> /\ m >= 2
      BY <1>1, <1>4
    <2>2. PICK body : body = SubSeq(bare, 2, m) /\ Len(body) = m - 1 /\ body[1] = bare[2]
      <3>1. PICK o \in Nat : o = 1 /\ o + 1 = 2 /\ o <= m
        BY <2>1
      <3>2. /\ Len(SubSeq(bare, o + 1, m)) = m - o
            /\ \A i \in 1 .. m - o : SubSeq(bare, o + 1, m)[i] = bare[o + i]
        BY <3>1, <1>1, Cut
      <3>3. 1 \in 1 .. m - o
        BY <3>1, <2>1
      <3>4. SubSeq(bare, 2, m)[1] = bare[2] /\ Len(SubSeq(bare, 2, m)) = m - 1
        BY <3>1, <3>2, <3>3
      <3> QED BY <3>4
    <2>3. body[1][1] = "junk" /\ 1 \in 1 .. Len(body)
      BY <2>1, <2>2
    <2>4. \E i \in 1 .. Len(body) : body[i][1] # "body"
      BY <2>3
    <2>5. body = SubSeq(bare, 1 + 1, Len(bare))
      BY <1>1, <2>2
    <2> QED BY <1>1, <2>4, <2>5 DEF Fr!Parse, Fr!ChecksumLen, Fr!TagLen
  <1> QED BY <1>2, <1>3, <1>4


\* peekInt32 reads the length.
LEMMA PeekIs ==
  ASSUME NEW b, NEW n, b.data[1] = <<"len", n, 1>>, b.data[2] = <<"len", n, 2>>
  PROVE  Fr!PeekInt32(b) = n
  BY DEF Fr!PeekInt32

\* d is where s begins, and holds a header.
Front(d, s) ==
  /\ d \in Seq(Cell) /\ s \in Seq(Cell) /\ Len(d) >= 4 /\ Len(d) <= Len(s)
  /\ \A i \in 1 .. Len(d) : s[i] = d[i]

\* A damaged frame in front is not delivered.
LEMMA BadFront ==
  ASSUME NEW b, NEW s, Front(b.data, s), BadAt(s, 0)
  PROVE  \E n \in Int : /\ Fr!PeekInt32(b) = n
                        /\ n < 2 \/ n > MaxLen \/ (2 + n <= Len(b.data) => Fr!Parse(Opened(b.data, n)) # "NoError")
  <1> USE FrameSettings
  <1>0. PICK d : d = b.data
    OBVIOUS
  <1>1. PICK e \in Nat : d = b.data /\ e = Len(d)
    <2>1. d \in Seq(Cell)
      BY <1>0 DEF Front
    <2>2. Len(d) \in Nat
      BY <2>1
    <2> QED BY <2>2, <1>0
  <1>2. e >= 4 /\ \A i \in 1 .. e : s[i] = d[i]
    BY <1>1 DEF Front
  <1>3. PICK n \in Int :
          /\ s[0 + 1] = <<"len", n, 1>> /\ s[0 + 2] = <<"len", n, 2>>
          /\ n < 2 \/ n > MaxLen \/ (/\ n >= 2
                                    /\ \/ s[0 + 2 + n] = <<"mus">> \/ s[0 + 3] = <<"gat">>
                                       \/ (n >= 3 /\ s[0 + 4] = <<"junk">>))
    BY DEF BadAt
  <1>4. 0 + 1 = 1 /\ 0 + 2 = 2 /\ 0 + 3 = 3 /\ 0 + 4 = 4 /\ 0 + 2 + n = 2 + n
    OBVIOUS
  <1>5. s[1] = d[1] /\ s[2] = d[2] /\ s[3] = d[3] /\ s[4] = d[4]
    BY <1>2
  <1>6. Fr!PeekInt32(b) = n
    BY <1>1, <1>3, <1>4, <1>5, PeekIs
  <1>7. ASSUME n >= 2, n <= MaxLen, 2 + n <= e PROVE Fr!Parse(Opened(d, n)) # "NoError"
    <2>1. d \in Seq(Cell) /\ n \in Nat
      BY <1>1, <1>7 DEF Front
    <2>2. PICK w : /\ w = Opened(d, n) /\ w \in Seq(Cell) /\ Len(w) = n
                   /\ \A i \in 1 .. n : w[i] = d[2 + i]
      BY <2>1, <1>1, <1>7, OpenedIs
    <2>3. 1 \in 1 .. n /\ n \in 1 .. n /\ (n >= 3 => 2 \in 1 .. n) /\ 2 + n \in 1 .. e
      BY <2>1, <1>7
    <2>4. w[1] = d[2 + 1] /\ w[n] = d[2 + n] /\ (n >= 3 => w[2] = d[2 + 2])
      BY <2>2, <2>3
    <2>5. 2 + 1 = 3 /\ 2 + 2 = 4
      OBVIOUS
    <2>6. s[2 + n] = <<"mus">> \/ s[3] = <<"gat">> \/ (n >= 3 /\ s[4] = <<"junk">>)
      BY <1>3, <1>4, <1>7
    <2>7. s[2 + n] = d[2 + n]
      BY <2>3, <1>2
    <2>8. w[n] = <<"mus">> \/ w[1] = <<"gat">> \/ (n >= 3 /\ w[2] = <<"junk">>)
      BY <2>4, <2>5, <2>6, <2>7, <1>5
    <2> QED BY <2>1, <2>2, <2>8, <1>7, BadParses
  <1>8. n < 2 \/ n > MaxLen \/ (2 + n <= e => Fr!Parse(Opened(d, n)) # "NoError")
    BY <1>7
  <1> QED BY <1>1, <1>6, <1>8

\* Of a frame in front the message is delivered.
LEMMA GoodFront ==
  ASSUME NEW b, NEW s, Front(b.data, s), NEW body, body \in Seq(Cell), FrameAt(s, 0, body)
  PROVE  \E n \in Nat : /\ n = Len(body) + 2 /\ Fr!PeekInt32(b) = n
                        /\ 2 + n <= Len(b.data) =>
                             Len(Opened(b.data, n)) = n /\ SubSeq(Opened(b.data, n), 2, n - 1) = body
  <1>0. PICK d : d = b.data
    OBVIOUS
  <1>1. PICK e \in Nat : d = b.data /\ e = Len(d)
    <2>1. d \in Seq(Cell)
      BY <1>0 DEF Front
    <2>2. Len(d) \in Nat
      BY <2>1
    <2> QED BY <2>2, <1>0
  <1>2. e >= 4 /\ \A i \in 1 .. e : s[i] = d[i]
    BY <1>1 DEF Front
  <1>3. PICK l \in Nat : l = Len(body)
    OBVIOUS
  <1>4. PICK n \in Nat : n = l + 2
    OBVIOUS
  <1>5. s[1] = <<"len", n, 1>> /\ s[2] = <<"len", n, 2>> /\ \A i \in 1 .. l : s[3 + i] = body[i]
    <2>1. /\ s[0 + 1] = <<"len", n, 1>> /\ s[0 + 2] = <<"len", n, 2>>
          /\ \A i \in 1 .. l : s[0 + 3 + i] = body[i]
      BY <1>3, <1>4 DEF FrameAt
    <2> QED BY <2>1
  <1>6. Fr!PeekInt32(b) = n
    <2>1. s[1] = d[1] /\ s[2] = d[2]
      BY <1>2
    <2> QED BY <2>1, <1>1, <1>5, PeekIs
  <1>7. ASSUME 2 + n <= e PROVE Len(Opened(d, n)) = n /\ SubSeq(Opened(d, n), 2, n - 1) = body
    <2>1. d \in Seq(Cell) /\ 2 <= n
      BY <1>1, <1>4 DEF Front
    <2>2. PICK w : /\ w = Opened(d, n) /\ w \in Seq(Cell) /\ Len(w) = n
                   /\ \A i \in 1 .. n : w[i] = d[2 + i]
      BY <2>1, <1>1, <1>7, OpenedIs
    <2>3. PICK v : v = SubSeq(w, 2, n - 1) /\ v \in Seq(Cell) /\ Len(v) = n - 2
                   /\ \A i \in 1 .. n - 2 : v[i] = w[1 + i]
      <3>1. /\ SubSeq(w, 2, n - 1) \in Seq(Cell) /\ Len(SubSeq(w, 2, n - 1)) = n - 2
            /\ \A i \in 1 .. n - 2 : SubSeq(w, 2, n - 1)[i] = w[1 + i]
        BY <2>1, <2>2, PartsOf
      <3> QED BY <3>1
    <2>4. n - 2 = l
      BY <1>4
    <2>5. \A i \in 1 .. l : v[i] = body[i]
      <3> TAKE i \in 1 .. l
      <3>1. v[i] = w[1 + i]
        BY <2>3, <2>4
      <3>2. 1 + i \in 1 .. n /\ 2 + (1 + i) = 3 + i /\ 3 + i \in 1 .. e
        BY <1>4, <1>7
      <3>3. w[1 + i] = d[3 + i] /\ s[3 + i] = d[3 + i]
        BY <3>2, <2>2, <1>2
      <3> QED BY <3>1, <3>3, <1>5
    <2>6. Len(v) = Len(body)
      BY <2>3, <2>4, <1>3
    <2>7. v = body
      BY <2>3, <2>5, <2>6, <1>3, SeqEqual
    <2> QED BY <2>2, <2>3, <2>7
  <1> QED BY <1>1, <1>3, <1>4, <1>6, <1>7

LEMMA ShorterIs ==
  ASSUME NEW d \in Seq(Cell), NEW a \in Seq(Cell), NEW L \in Nat, L <= Len(d), NEW body,
         Len(body) + 4 = L
  PROVE  Shorter(d \o a, SubSeq(d, L + 1, Len(d)) \o a, L, body)
  <1>1. PICK e \in Nat, g \in Nat : e = Len(d) /\ g = Len(a)
    OBVIOUS
  <1>2. PICK c : /\ c = SubSeq(d, L + 1, e) /\ c \in Seq(Cell) /\ Len(c) = e - L
                 /\ \A i \in 1 .. e - L : c[i] = d[L + i]
    <2>1. /\ SubSeq(d, L + 1, e) \in Seq(Cell) /\ Len(SubSeq(d, L + 1, e)) = e - L
          /\ \A i \in 1 .. e - L : SubSeq(d, L + 1, e)[i] = d[L + i]
      BY <1>1, Cut
    <2> QED BY <2>1
  <1>3. PICK s : /\ s = d \o a /\ s \in Seq(Cell) /\ Len(s) = e + g
                 /\ \A i \in 1 .. e : s[i] = d[i]
                 /\ \A i \in 1 .. g : s[e + i] = a[i]
    <2>1. /\ d \o a \in Seq(Cell) /\ Len(d \o a) = Len(d) + Len(a)
          /\ \A i \in 1 .. Len(d) : (d \o a)[i] = d[i]
          /\ \A i \in 1 .. Len(a) : (d \o a)[Len(d) + i] = a[i]
      BY Joins
    <2> QED BY <2>1, <1>1
  <1>4. PICK t : /\ t = c \o a /\ t \in Seq(Cell) /\ Len(t) = (e - L) + g
                 /\ \A i \in 1 .. e - L : t[i] = c[i]
                 /\ \A i \in 1 .. g : t[(e - L) + i] = a[i]
    <2>1. PICK t : t = c \o a
      OBVIOUS
    <2>2. /\ t \in Seq(Cell) /\ Len(t) = Len(c) + Len(a)
          /\ \A i \in 1 .. Len(c) : t[i] = c[i]
          /\ \A i \in 1 .. Len(a) : t[Len(c) + i] = a[i]
      BY <2>1, <1>2, Joins
    <2>3. Len(c) = e - L /\ Len(a) = g
      BY <1>1, <1>2
    <2>4. /\ t \in Seq(Cell) /\ Len(t) = (e - L) + g
          /\ \A i \in 1 .. e - L : t[i] = c[i]
          /\ \A i \in 1 .. g : t[(e - L) + i] = a[i]
      BY <2>2, <2>3
    <2> QED BY <2>1, <2>4
  <1>5. \A i \in 1 .. (e - L) + g : t[i] = s[L + i]
    <2> TAKE i \in 1 .. (e - L) + g
    <2>1. CASE i <= e - L
      <3>1. i \in 1 .. e - L /\ L + i \in 1 .. e
        BY <2>1, <1>1
      <3> QED BY <3>1, <1>2, <1>3, <1>4
    <2>2. CASE i > e - L
      <3>1. PICK j \in 1 .. g : i = (e - L) + j /\ L + i = e + j
        <4>1. i - (e - L) \in 1 .. g /\ i = (e - L) + (i - (e - L)) /\ L + i = e + (i - (e - L))
          BY <2>2, <1>1
        <4> QED BY <4>1
      <3> QED BY <3>1, <1>3, <1>4
    <2> QED BY <2>1, <2>2, <1>1
  <1>6. Len(t) + L = Len(s)
    BY <1>1, <1>3, <1>4
  <1>7. Shorter(s, t, L, body)
    BY <1>4, <1>5, <1>6 DEF Shorter
  <1> QED BY <1>1, <1>2, <1>3, <1>4, <1>7


-----------------------------------------------------------------------------
(* Framing: the steps *)

LEMMA InitFrames ==
  ASSUME Fr!Init
  PROVE  FrameInv
  <1> USE FrameSettings
  <1>1. PICK e \in Seq(Cell) : e = <<>> /\ Len(e) = 0 /\ e \in Seq(Sents) /\ e \in Seq(Seq(Cell))
    BY EmptySeq
  <1>2. Good(input) /\ input.data = e
    <2>1. PICK m \in Nat : m = CheapPrepend + InitialSize
      OBVIOUS
    <2>2. /\ input \in Buf /\ input.ok /\ input.r = CheapPrepend /\ input.size = m /\ input.data = e
      BY <2>1, <1>1 DEF Fr!Init, Fr!New, Buf
    <2> QED BY <2>1, <2>2, <1>1 DEF Good
  <1>3. ahead = e /\ sent = e /\ delivered = e /\ built = TRUE
    BY <1>1 DEF Fr!Init
  <1>4. FrameTypes
    BY <1>1, <1>2, <1>3 DEF FrameTypes
  <1>5. Stream = e
    BY <1>1, <1>2, <1>3, ConcatEmptySeq DEF Stream
  <1>6. PICK at \in [Nat -> Nat] : \A i \in Nat : at[i] = 0
    <2>1. [i \in Nat |-> 0] \in [Nat -> Nat]
      OBVIOUS
    <2> QED BY <2>1
  <1>7. Lay(e, e, e, 0, at)
    BY <1>1, <1>6 DEF Lay
  <1>8. 0 \in Nat
    OBVIOUS
  <1> QED BY <1>3, <1>4, <1>5, <1>7, <1>8 DEF FrameInv, InStream

LEMMA StreamIs ==
  ASSUME FrameTypes
  PROVE  /\ input.data \in Seq(Cell) /\ Stream \in Seq(Cell)
         /\ Len(Stream) = Len(input.data) + Len(ahead)
         /\ \A i \in 1 .. Len(input.data) : Stream[i] = input.data[i]
  <1>1. input.data \in Seq(Cell) /\ ahead \in Seq(Cell)
    BY BufIs DEF FrameTypes, Good
  <1> QED BY <1>1, Joins DEF Stream

\* One more frame on the way.
LEMMA MoreStep ==
  ASSUME FrameInv, NEW x, x \in Seq(Cell), NEW r, r \in Sents, Wire(x, r),
         ahead' = ahead \o x, sent' = Append(sent, r), built' = TRUE, UNCHANGED <<input, delivered>>
  PROVE  FrameInv'
  <1>1. FrameTypes
    BY DEF FrameInv
  <1>2. input.data \in Seq(Cell) /\ Stream \in Seq(Cell)
    BY <1>1, StreamIs
  <1>3. PICK k \in Nat, at \in [Nat -> Nat] : Lay(Stream, sent, delivered, k, at)
    BY DEF FrameInv, InStream
  <1>4. Typed(Stream, sent, delivered, at)
    BY <1>1, <1>2 DEF Typed, FrameTypes
  <1>5. PICK k2 \in Nat, at2 \in [Nat -> Nat] : Lay(Stream \o x, Append(sent, r), delivered, k2, at2)
    BY <1>3, <1>4, LayMore
  <1>6. Stream' = Stream \o x
    <2>1. ahead \in Seq(Cell)
      BY <1>1 DEF FrameTypes
    <2>2. (input.data \o ahead) \o x = input.data \o (ahead \o x)
      BY <2>1, <1>2, JoinsAssoc, Zenon
    <2> QED BY <2>2 DEF Stream
  <1>7. InStream'
    BY <1>5, <1>6 DEF InStream
  <1>8. FrameTypes'
    <2>1. ahead \in Seq(Cell) /\ sent \in Seq(Sents)
      BY <1>1 DEF FrameTypes
    <2>2. ahead \o x \in Seq(Cell)
      BY <2>1, Joins
    <2>3. Append(sent, r) \in Seq(Sents)
      BY <2>1, SentMore
    <2> QED BY <2>2, <2>3, <1>1 DEF FrameTypes
  <1> QED BY <1>7, <1>8 DEF FrameInv

LEMMA SendStep ==
  ASSUME FrameInv, NEW n \in BodySizes, Fr!SendFrame(n) \/ \E d \in Damages : Fr!SendDamaged(n, d)
  PROVE  FrameInv'
  <1> USE FrameSettings
  <1>1. PICK body : body = Fr!Body(Len(sent) + 1, n)
    OBVIOUS
  <1>2. body \in Seq(Flat) /\ body \in Seq(Cell)
    <2>1. PICK f \in Nat : f = Len(sent) + 1
      <3>1. sent \in Seq(Sents)
        BY DEF FrameInv, FrameTypes
      <3>2. Len(sent) \in Nat
        BY <3>1
      <3> QED BY <3>2
    <2>2. n \in Nat
      OBVIOUS
    <2>3. Fr!Body(f, n) \in Seq(Flat)
      BY <2>2, BodyIs
    <2> QED BY <2>1, <2>3, <1>1, FlatIs
  <1>b. built = TRUE
    BY DEF FrameInv, FrameTypes
  <1>3. CASE Fr!SendFrame(n)
    <2>1. PICK b : b = Fr!FillEmptyBuffer(body)
      OBVIOUS
    <2>2. /\ b.ok = TRUE /\ b.data \in Seq(Cell) /\ Len(b.data) = Len(body) + 4 /\ FrameAt(b.data, 0, body)
      BY <2>1, <1>2, FilledIs
    <2>3. PICK x : x = b.data
      OBVIOUS
    <2>4. PICK r : r = <<"ok", body>>
      OBVIOUS
    <2>5. r \in Sents /\ r[1] = "ok" /\ r[2] = body
      BY <2>4, <1>2 DEF Sents
    <2>6. Wire(x, r)
      BY <2>2, <2>3, <2>5 DEF Wire
    <2>7. /\ ahead' = ahead \o x /\ sent' = Append(sent, r) /\ built' = TRUE
          /\ UNCHANGED <<input, delivered>>
      BY <1>1, <1>3, <1>b, <2>1, <2>2, <2>3, <2>4 DEF Fr!SendFrame
    <2>8. x \in Seq(Cell)
      BY <2>2, <2>3
    <2> QED BY <2>5, <2>6, <2>7, <2>8, MoreStep
  <1>4. ASSUME NEW d \in Damages, Fr!SendDamaged(n, d) PROVE FrameInv'
    <2>1. PICK x : x = Fr!Damaged(d, body)
      OBVIOUS
    <2>2. x \in Seq(Cell) /\ BadAt(x, 0)
      BY <2>1, <1>2, DamagedIs
    <2>4. PICK r : r = <<"damaged", d>>
      OBVIOUS
    <2>5. r \in Sents /\ r[1] = "damaged"
      BY <2>4 DEF Sents
    <2>6. Wire(x, r)
      BY <2>2, <2>5 DEF Wire
    <2>7. /\ ahead' = ahead \o x /\ sent' = Append(sent, r) /\ built' = TRUE
          /\ UNCHANGED <<input, delivered>>
      BY <1>1, <1>4, <1>b, <2>1, <2>4 DEF Fr!SendDamaged
    <2> QED BY <2>2, <2>5, <2>6, <2>7, MoreStep
  <1> QED BY <1>3, <1>4

LEMMA ReadStep ==
  ASSUME FrameInv, NEW n \in 1 .. Len(ahead), Fr!Read(n)
  PROVE  FrameInv'
  <1>1. FrameTypes
    BY DEF FrameInv
  <1>2. Good(input) /\ input.data \in Seq(Cell) /\ ahead \in Seq(Cell)
    BY <1>1, StreamIs DEF FrameTypes
  <1>3. PICK a : a = ahead
    OBVIOUS
  <1>4. n \in Nat /\ n <= Len(a) /\ a \in Seq(Cell)
    <2>1. Len(ahead) \in Nat
      BY <1>2
    <2> QED BY <2>1, <1>2, <1>3
  <1>5. PICK x : x = SubSeq(a, 1, n) /\ x \in Seq(Cell)
    BY <1>4, CutFront
  <1>6. PICK y : y = SubSeq(a, n + 1, Len(a)) /\ y \in Seq(Cell)
    <2>1. Len(a) \in Nat
      BY <1>4
    <2>2. SubSeq(a, n + 1, Len(a)) \in Seq(Cell)
      BY <2>1, <1>4, Cut
    <2> QED BY <2>2
  <1>7. a = x \o y
    BY <1>4, <1>5, <1>6, CutJoins
  <1>8. Good(Fr!ReadFd(input, x)) /\ Fr!ReadFd(input, x).data = input.data \o x
    BY <1>2, <1>5, ReadFdIs
  <1>9. /\ input' = Fr!ReadFd(input, x) /\ ahead' = y /\ UNCHANGED <<sent, built, delivered>>
    BY <1>3, <1>5, <1>6 DEF Fr!Read
  <1>10. Stream' = Stream
    <2>1. (input.data \o x) \o y = input.data \o (x \o y)
      BY <1>2, <1>5, <1>6, JoinsAssoc, ZenonT(40)
    <2>2. Stream' = (input.data \o x) \o y
      BY <1>8, <1>9 DEF Stream
    <2>3. Stream = input.data \o (x \o y)
      BY <1>3, <1>7 DEF Stream
    <2> QED BY <2>1, <2>2, <2>3
  <1>11. FrameTypes'
    BY <1>1, <1>6, <1>8, <1>9 DEF FrameTypes
  <1>12. InStream'
    BY <1>9, <1>10 DEF FrameInv, InStream
  <1> QED BY <1>11, <1>12 DEF FrameInv


LEMMA DeliverStep ==
  ASSUME FrameInv, Fr!Deliver
  PROVE  FrameInv'
  <1>1. FrameTypes
    BY DEF FrameInv
  <1>2. PICK d : d = input.data
    OBVIOUS
  <1>3. PICK s : s = Stream
    OBVIOUS
  <1>4. /\ d \in Seq(Cell) /\ s \in Seq(Cell) /\ Len(s) = Len(d) + Len(ahead)
        /\ \A i \in 1 .. Len(d) : s[i] = d[i]
    BY <1>1, <1>2, <1>3, StreamIs
  <1>5. Len(d) >= 4
    BY <1>2 DEF Fr!Deliver, Fr!HasHeader, Fr!MinLen, Fr!TagLen, Fr!ChecksumLen, Fr!HeaderLen
  <1>6. Front(input.data, s)
    <2>1. Len(ahead) \in Nat
      BY <1>1 DEF FrameTypes
    <2>2. Len(d) <= Len(s)
      BY <2>1, <1>4
    <2> QED BY <2>2, <1>2, <1>4, <1>5 DEF Front
  <1>7. PICK k \in Nat, at \in [Nat -> Nat] : Lay(s, sent, delivered, k, at)
    BY <1>3 DEF FrameInv, InStream
  <1>8. Typed(s, sent, delivered, at)
    BY <1>1, <1>4 DEF Typed, FrameTypes
  <1>9. PICK m \in Nat, c \in Nat : m = Len(sent) /\ c = Len(delivered)
    BY <1>1 DEF FrameTypes
  <1>10. c <= k /\ k <= m /\ at[c + 1] = 0
    BY <1>7, <1>9 DEF Lay
  <1>11. PICK n : n = Fr!PeekInt32(input)
    OBVIOUS
  <1>12. /\ ~(n > MaxLen) /\ ~(n < 2) /\ Len(d) >= 2 + n
         /\ Fr!Whole = Opened(d, n) /\ Fr!Parse(Opened(d, n)) = "NoError"
    BY <1>2, <1>11 DEF Fr!Deliver, Fr!BadLength, Fr!Complete, Fr!Whole, Fr!MinLen, Fr!TagLen,
         Fr!ChecksumLen, Fr!HeaderLen, Opened
  <1>13. k # c
    <2> SUFFICES ASSUME k = c PROVE FALSE
      OBVIOUS
    <2>1. CASE k = m
      <3>1. Len(s) = 0
        BY <2>1, <1>7, <1>9, <1>10 DEF Lay
      <3>2. PICK e, z : e = Len(d) /\ z = Len(s)
        OBVIOUS
      <3>3. e <= z /\ z = 0 /\ e >= 4
        BY <3>1, <3>2, <1>2, <1>5, <1>6 DEF Front
      <3>4. e \in Nat
        BY <3>2, <1>4, LenProperties
      <3> QED BY <3>3, <3>4
    <2>2. CASE k # m
      <3>1. BadAt(s, at[k + 1])
        BY <2>2, <1>7, <1>9 DEF Lay
      <3>2. BadAt(s, 0)
        BY <3>1, <1>10
      <3>3. PICK j \in Int : /\ Fr!PeekInt32(input) = j
                             /\ j < 2 \/ j > MaxLen
                                  \/ (2 + j <= Len(d) => Fr!Parse(Opened(d, j)) # "NoError")
        BY <3>2, <1>2, <1>6, BadFront
      <3>4. j = n /\ 2 + n <= Len(d)
        BY <3>3, <1>4, <1>11, <1>12
      <3> QED BY <3>3, <3>4, <1>12
    <2> QED BY <2>1, <2>2
  <1>14. PICK body : body = sent[c + 1][2]
    OBVIOUS
  <1>15. body \in Seq(Cell) /\ FrameAt(s, 0, body)
    <2>1. c + 1 \in 1 .. k /\ c + 1 \in c + 1 .. k /\ c + 1 \in 1 .. m
      BY <1>10, <1>13
    <2>2. sent[c + 1][1] = "ok" /\ FrameAt(s, at[c + 1], sent[c + 1][2])
      BY <2>1, <1>7, <1>9 DEF Lay
    <2>3. sent[c + 1] \in Sents
      BY <2>1, <1>1, <1>9 DEF FrameTypes
    <2> QED BY <2>2, <2>3, <1>10, <1>14, SentIs
  <1>16. FirstIs(sent, delivered, k, body)
    BY <1>9, <1>10, <1>13, <1>14 DEF FirstIs
  <1>17. /\ n \in Nat /\ n = Len(body) + 2
         /\ Len(Opened(d, n)) = n /\ SubSeq(Opened(d, n), 2, n - 1) = body
    <2>1. PICK j \in Nat : /\ j = Len(body) + 2 /\ Fr!PeekInt32(input) = j
                           /\ 2 + j <= Len(d) =>
                                Len(Opened(d, j)) = j /\ SubSeq(Opened(d, j), 2, j - 1) = body
      BY <1>2, <1>6, <1>15, GoodFront
    <2>2. j = n
      BY <2>1, <1>11
    <2>3. 2 + n <= Len(d)
      BY <2>1, <2>2, <1>4, <1>12
    <2> QED BY <2>1, <2>2, <2>3
  <1>18. delivered' = Append(delivered, body)
    <2>1. SubSeq(Fr!Whole, 1 + 1, Len(Fr!Whole) - 1) = body
      <3>1. PICK w : w = Fr!Whole
        OBVIOUS
      <3>2. w = Opened(d, n)
        BY <3>1, <1>12
      <3>3. Len(w) = n /\ SubSeq(w, 2, n - 1) = body
        BY <3>2, <1>17, Zenon
      <3>4. 1 + 1 = 2
        OBVIOUS
      <3> QED BY <3>1, <3>3, <3>4, Zenon
    <2> QED BY <2>1 DEF Fr!Deliver, Fr!TagLen, Fr!ChecksumLen
  <1>19. PICK L \in Nat : L = 2 + n
    BY <1>17
  <1>20. input' = Fr!Retrieve(input, L) /\ UNCHANGED <<ahead, sent, built>>
    BY <1>11, <1>19 DEF Fr!Deliver, Fr!FrameLen, Fr!HeaderLen
  <1>21. L <= Len(d) /\ Len(body) + 4 = L
    <2>1. Len(body) \in Nat /\ Len(d) \in Nat
      BY <1>4, <1>15, LenProperties, Zenon
    <2> QED BY <2>1, <1>12, <1>17, <1>19
  <1>22. Good(input') /\ input'.data = SubSeq(d, L + 1, Len(d))
    BY <1>1, <1>2, <1>20, <1>21, RetrieveIs DEF FrameTypes
  <1>23. PICK t : t = Stream'
    OBVIOUS
  <1>24. Shorter(s, t, L, body)
    <2>1. ahead \in Seq(Cell)
      BY <1>1 DEF FrameTypes
    <2>2. s = d \o ahead /\ t = SubSeq(d, L + 1, Len(d)) \o ahead
      BY <1>2, <1>3, <1>20, <1>22, <1>23 DEF Stream
    <2> QED BY <2>1, <2>2, <1>4, <1>21, ShorterIs
  <1>25. PICK at2 \in [Nat -> Nat] : Lay(t, sent, Append(delivered, body), k, at2)
    BY <1>7, <1>8, <1>16, <1>24, LayLess
  <1>26. InStream'
    BY <1>18, <1>20, <1>23, <1>25 DEF InStream
  <1>27. FrameTypes'
    <2>1. delivered \in Seq(Seq(Cell))
      BY <1>1 DEF FrameTypes
    <2>2. Append(delivered, body) \in Seq(Seq(Cell))
      BY <2>1, <1>15
    <2> QED BY <2>2, <1>1, <1>18, <1>20, <1>22 DEF FrameTypes
  <1> QED BY <1>26, <1>27 DEF FrameInv

LEMMA FrameStep ==
  ASSUME FrameInv, Fr!Next \/ UNCHANGED framingVars
  PROVE  FrameInv'
  <1>1. CASE Fr!Reject \/ Fr!NeedMore \/ UNCHANGED framingVars
    <2>1. UNCHANGED <<input, ahead, sent, built, delivered>>
      BY <1>1 DEF Fr!Reject, Fr!Stops, Fr!NeedMore, framingVars
    <2>2. UNCHANGED Stream
      BY <2>1 DEF Stream
    <2> QED BY <2>1, <2>2 DEF FrameInv, FrameTypes, InStream
  <1> QED BY <1>1, SendStep, ReadStep, DeliverStep DEF Fr!Next

LEMMA FrameGoal ==
  ASSUME FrameInv
  PROVE  Fr!FramingSound
  <1>1. PICK k \in Nat, at \in [Nat -> Nat] : Lay(Stream, sent, delivered, k, at)
    BY DEF FrameInv, InStream
  <1>2. PICK m \in Nat, c \in Nat : m = Len(sent) /\ c = Len(delivered)
    BY DEF FrameInv, FrameTypes
  <1>3. /\ c <= k /\ k <= m /\ \A i \in 1 .. k : sent[i][1] = "ok"
        /\ k # m => sent[k + 1][1] = "damaged"
    BY <1>1, <1>2 DEF Lay
  <1>4. PICK u \in 0 .. m : /\ u = Fr!Sound /\ \A i \in 1 .. u : sent[i][1] = "ok"
                            /\ u < m => sent[u + 1][1] = "damaged"
    <2>1. \E j \in 0 .. m : (\A i \in 1 .. j : sent[i][1] = "ok") /\ (j < m => sent[j + 1][1] = "damaged")
      <3>1. k \in 0 .. m /\ (k < m => sent[k + 1][1] = "damaged")
        BY <1>3
      <3> QED BY <3>1, <1>3, Zenon
    <2> QED BY <2>1, <1>2 DEF Fr!Sound
  <1>5. c <= u
    <2> SUFFICES ASSUME u < c PROVE FALSE
      OBVIOUS
    <2>1. u < m /\ u + 1 \in 1 .. k
      BY <1>3
    <2>2. sent[u + 1][1] = "damaged" /\ sent[u + 1][1] = "ok"
      BY <2>1, <1>3, <1>4
    <2> QED BY <2>2
  <1>6. Fr!FramesInOrder
    BY <1>1, <1>2, <1>4, <1>5 DEF Fr!FramesInOrder, Lay
  <1>7. Fr!BufferSound
    BY DEF Fr!BufferSound, Fr!WriterIndex, FrameInv, FrameTypes, Good
  <1> QED BY <1>6, <1>7 DEF Fr!FramingSound

\* ProtobufCodecLite over Buffer, for any sizes of messages and buffers, any number of frames, any
\* cut of the stream into reads and any damaged frames in it: the messages delivered are the ones
\* sent, in order, each once, none from behind a damaged frame, and no assertion of Buffer fails.
THEOREM FramingStands == Spec => []FramingSound
  <1> DEFINE Inv == part = "framing" => FrameInv
  <1>1. Init => Inv
    BY InitFrames DEF Init
  <1>2. Inv /\ [Next]_allVars => Inv'
    <2> SUFFICES ASSUME Inv, [Next]_allVars, part' = "framing" PROVE FrameInv'
      OBVIOUS
    <2>1. part = "framing" /\ (Fr!Next \/ UNCHANGED framingVars)
      BY DEF Next, Steps, allVars
    <2> QED BY <2>1, FrameStep
  <1>3. Inv => FramingSound
    BY FrameGoal DEF FramingSound
  <1> QED BY <1>1, <1>2, <1>3, PTL DEF Spec

-----------------------------------------------------------------------------
(* Logging: lines in buffers, and an order r of lines *)

Lines == Loggers \X Nat
Bufs == Seq(Seq(Lines))

Has(s) == {s[k] : k \in 1 .. Len(s)}

\* Everything in A is before everything in B.
Under(r, A, B) == \A x \in A, y \in B : <<x, y>> \in r

\* The lines of a buffer, and of a row of buffers, stand in order.
Rising(r, s) == \A k, m \in 1 .. Len(s) : k < m => <<s[k], s[m]>> \in r
Rows(r, b) ==
  /\ \A i \in 1 .. Len(b) : Rising(r, b[i])
  /\ \A i, j \in 1 .. Len(b) : i < j => Under(r, Has(b[i]), Has(b[j]))

\* The lines of a row are those of its buffers.
LEMMA RowHas ==
  ASSUME NEW b \in Bufs
  PROVE  /\ \A x : x \in Lo!LinesOf(b) <=> \E i \in 1 .. Len(b) : x \in Has(b[i])
         /\ \A i \in 1 .. Len(b) : b[i] \in Seq(Lines) /\ Has(b[i]) \subseteq Lo!LinesOf(b)
  <1>1. DOMAIN b = 1 .. Len(b) /\ \A i \in 1 .. Len(b) : b[i] \in Seq(Lines)
    BY DEF Bufs
  <1>2. \A i \in 1 .. Len(b) : DOMAIN b[i] = 1 .. Len(b[i])
    BY <1>1
  <1>3. \A x : x \in Lo!LinesOf(b) <=> \E i \in 1 .. Len(b) : x \in {b[i][k] : k \in 1 .. Len(b[i])}
    BY <1>1, <1>2, ZenonT(40) DEF Lo!LinesOf
  <1> QED BY <1>1, <1>3, Zenon DEF Has

\* Two buffers joined.
LEMMA HasJoin ==
  ASSUME NEW s \in Seq(Lines), NEW t \in Seq(Lines)
  PROVE  s \o t \in Seq(Lines) /\ Has(s \o t) = Has(s) \cup Has(t)
  <1>1. /\ s \o t \in Seq(Lines) /\ Len(s \o t) = Len(s) + Len(t) /\ Len(s) \in Nat /\ Len(t) \in Nat
        /\ \A i \in 1 .. Len(s) : (s \o t)[i] = s[i]
        /\ \A i \in 1 .. Len(t) : (s \o t)[Len(s) + i] = t[i]
    OBVIOUS
  <1>2. PICK u \in Seq(Lines) : u = s \o t
    BY <1>1
  <1>3. ASSUME NEW x \in Has(u) PROVE x \in Has(s) \cup Has(t)
    <2>1. PICK k \in 1 .. Len(u) : x = u[k]
      BY DEF Has
    <2>2. CASE k <= Len(s)
      BY <1>1, <1>2, <2>1, <2>2 DEF Has
    <2>3. CASE k > Len(s)
      <3>1. k - Len(s) \in 1 .. Len(t) /\ Len(s) + (k - Len(s)) = k
        BY <1>1, <1>2, <2>1, <2>3
      <3>2. x = t[k - Len(s)]
        BY <1>1, <1>2, <2>1, <3>1
      <3> QED BY <3>1, <3>2 DEF Has
    <2> QED BY <1>1, <1>2, <2>2, <2>3
  <1>4. ASSUME NEW x \in Has(s) \cup Has(t) PROVE x \in Has(u)
    <2>1. CASE x \in Has(s)
      <3>1. PICK k \in 1 .. Len(s) : x = s[k]
        BY <2>1 DEF Has
      <3>2. k \in 1 .. Len(u) /\ x = u[k]
        BY <1>1, <1>2, <3>1
      <3> QED BY <3>2 DEF Has
    <2>2. CASE x \in Has(t)
      <3>1. PICK k \in 1 .. Len(t) : x = t[k]
        BY <2>2 DEF Has
      <3>2. Len(s) + k \in 1 .. Len(u) /\ x = u[Len(s) + k]
        BY <1>1, <1>2, <3>1
      <3> QED BY <3>2 DEF Has
    <2> QED BY <2>1, <2>2
  <1> QED BY <1>1, <1>2, <1>3, <1>4

\* Joined, they stand in order if each does and the first is before the second.
LEMMA RisingJoin ==
  ASSUME NEW s \in Seq(Lines), NEW t \in Seq(Lines), NEW r, Rising(r, s), Rising(r, t),
         Under(r, Has(s), Has(t))
  PROVE  Rising(r, s \o t)
  <1>1. /\ s \o t \in Seq(Lines) /\ Len(s \o t) = Len(s) + Len(t) /\ Len(s) \in Nat /\ Len(t) \in Nat
        /\ \A i \in 1 .. Len(s) : (s \o t)[i] = s[i]
        /\ \A i \in 1 .. Len(t) : (s \o t)[Len(s) + i] = t[i]
    OBVIOUS
  <1>2. PICK u \in Seq(Lines) : u = s \o t
    BY <1>1
  <1> SUFFICES ASSUME NEW k \in 1 .. Len(u), NEW m \in 1 .. Len(u), k < m
               PROVE  <<u[k], u[m]>> \in r
    BY <1>2 DEF Rising
  <1>3. CASE m <= Len(s)
    <2>1. k \in 1 .. Len(s) /\ m \in 1 .. Len(s) /\ u[k] = s[k] /\ u[m] = s[m]
      BY <1>1, <1>2, <1>3
    <2> QED BY <2>1 DEF Rising
  <1>4. CASE k > Len(s)
    <2>1. /\ k - Len(s) \in 1 .. Len(t) /\ Len(s) + (k - Len(s)) = k
          /\ m - Len(s) \in 1 .. Len(t) /\ Len(s) + (m - Len(s)) = m
          /\ k - Len(s) < m - Len(s)
      BY <1>1, <1>2, <1>4
    <2>2. u[k] = t[k - Len(s)] /\ u[m] = t[m - Len(s)]
      BY <1>1, <1>2, <2>1
    <2> QED BY <2>1, <2>2 DEF Rising
  <1>5. CASE k <= Len(s) /\ m > Len(s)
    <2>1. k \in 1 .. Len(s) /\ m - Len(s) \in 1 .. Len(t) /\ Len(s) + (m - Len(s)) = m
      BY <1>1, <1>2, <1>5
    <2>2. u[k] = s[k] /\ u[m] = t[m - Len(s)]
      BY <1>1, <1>2, <2>1
    <2>3. u[k] \in Has(s) /\ u[m] \in Has(t)
      BY <2>1, <2>2 DEF Has
    <2> QED BY <2>3 DEF Under
  <1>6. m <= Len(s) \/ k > Len(s) \/ (k <= Len(s) /\ m > Len(s))
    BY <1>1, <1>2
  <1> QED BY <1>3, <1>4, <1>5, <1>6

\* No line, one line, and one more line at the end.
LEMMA FewLines ==
  /\ Has(<<>>) = {} /\ <<>> \in Seq(Lines)
  /\ \A r : Rising(r, <<>>)
  /\ \A l \in Lines : <<l>> \in Seq(Lines) /\ Has(<<l>>) = {l} /\ \A r : Rising(r, <<l>>)
  <1>1. \A l \in Lines : <<l>> \in Seq(Lines) /\ Len(<<l>>) = 1 /\ <<l>>[1] = l
    OBVIOUS
  <1>2. \A l \in Lines : Has(<<l>>) = {l} /\ \A r : Rising(r, <<l>>)
    BY <1>1 DEF Has, Rising
  <1> QED BY <1>1, <1>2 DEF Has, Rising

\* Two rows joined, and taken apart again.
LEMMA RowsJoin ==
  ASSUME NEW a \in Bufs, NEW b \in Bufs
  PROVE  /\ a \o b \in Bufs /\ Lo!LinesOf(a \o b) = Lo!LinesOf(a) \cup Lo!LinesOf(b)
         /\ \A r : Rows(r, a) /\ Rows(r, b) /\ Under(r, Lo!LinesOf(a), Lo!LinesOf(b))
                     => Rows(r, a \o b)
         /\ \A r : Rows(r, a \o b) => /\ Rows(r, a) /\ Rows(r, b)
                                      /\ Under(r, Lo!LinesOf(a), Lo!LinesOf(b))
  <1>1. /\ a \o b \in Bufs /\ Len(a \o b) = Len(a) + Len(b) /\ Len(a) \in Nat /\ Len(b) \in Nat
        /\ \A i \in 1 .. Len(a) : (a \o b)[i] = a[i]
        /\ \A i \in 1 .. Len(b) : (a \o b)[Len(a) + i] = b[i]
    BY DEF Bufs
  <1>2. PICK c \in Bufs : c = a \o b
    BY <1>1
  <1>3. /\ \A i \in 1 .. Len(a) : i \in 1 .. Len(c) /\ c[i] = a[i]
        /\ \A i \in 1 .. Len(b) : Len(a) + i \in 1 .. Len(c) /\ c[Len(a) + i] = b[i]
        /\ \A k \in 1 .. Len(c) : k > Len(a) =>
             k - Len(a) \in 1 .. Len(b) /\ c[k] = b[k - Len(a)]
        /\ \A k \in 1 .. Len(c) : ~ k > Len(a) => k \in 1 .. Len(a)
    <2>1. \A k \in 1 .. Len(c) : k > Len(a) => k - Len(a) \in 1 .. Len(b) /\ Len(a) + (k - Len(a)) = k
      BY <1>1, <1>2
    <2>2. \A k \in 1 .. Len(c) : k > Len(a) => c[k] = b[k - Len(a)]
      BY <2>1, <1>1, <1>2
    <2> QED BY <1>1, <1>2, <2>1, <2>2
  <1>4. Lo!LinesOf(c) = Lo!LinesOf(a) \cup Lo!LinesOf(b)
    <2>1. ASSUME NEW x \in Lo!LinesOf(c) PROVE x \in Lo!LinesOf(a) \cup Lo!LinesOf(b)
      <3>1. PICK i \in 1 .. Len(c) : x \in Has(c[i])
        BY RowHas
      <3>2. CASE i > Len(a)
        BY <1>3, <3>1, <3>2, RowHas
      <3>3. CASE ~ i > Len(a)
        BY <1>3, <3>1, <3>3, RowHas
      <3> QED BY <3>2, <3>3
    <2>2. ASSUME NEW x \in Lo!LinesOf(a) PROVE x \in Lo!LinesOf(c)
      BY <1>3, RowHas
    <2>3. ASSUME NEW x \in Lo!LinesOf(b) PROVE x \in Lo!LinesOf(c)
      BY <1>3, RowHas
    <2> QED BY <2>1, <2>2, <2>3
  <1>5. ASSUME NEW r, Rows(r, a), Rows(r, b), Under(r, Lo!LinesOf(a), Lo!LinesOf(b))
        PROVE  Rows(r, c)
    <2>1. ASSUME NEW i \in 1 .. Len(c) PROVE Rising(r, c[i])
      BY <1>3, <1>5 DEF Rows
    <2>2. ASSUME NEW i \in 1 .. Len(c), NEW j \in 1 .. Len(c), i < j
          PROVE  Under(r, Has(c[i]), Has(c[j]))
      <3>1. CASE i > Len(a)
        <4>1. j > Len(a) /\ i - Len(a) < j - Len(a)
          BY <1>1, <3>1, <2>2
        <4> QED BY <1>3, <1>5, <3>1, <4>1 DEF Rows
      <3>2. CASE ~ i > Len(a) /\ ~ j > Len(a)
        BY <1>3, <1>5, <2>2, <3>2 DEF Rows
      <3>3. CASE ~ i > Len(a) /\ j > Len(a)
        <4>1. Has(c[i]) \subseteq Lo!LinesOf(a) /\ Has(c[j]) \subseteq Lo!LinesOf(b)
          BY <1>3, <3>3, RowHas
        <4> QED BY <1>5, <4>1, Zenon DEF Under
      <3> QED BY <3>1, <3>2, <3>3
    <2> QED BY <2>1, <2>2 DEF Rows
  <1>6. ASSUME NEW r, Rows(r, c)
        PROVE  Rows(r, a) /\ Rows(r, b) /\ Under(r, Lo!LinesOf(a), Lo!LinesOf(b))
    <2>1. Rows(r, a)
      BY <1>3, <1>6 DEF Rows
    <2>2. Rows(r, b)
      <3>1. \A i, j \in 1 .. Len(b) : i < j => Len(a) + i < Len(a) + j
        BY <1>1
      <3> QED BY <1>3, <1>6, <3>1 DEF Rows
    <2>3. ASSUME NEW x \in Lo!LinesOf(a), NEW y \in Lo!LinesOf(b) PROVE <<x, y>> \in r
      <3>1. PICK i \in 1 .. Len(a) : x \in Has(a[i])
        BY RowHas
      <3>2. PICK j \in 1 .. Len(b) : y \in Has(b[j])
        BY RowHas
      <3>3. i < Len(a) + j
        BY <1>1
      <3>4. Under(r, Has(c[i]), Has(c[Len(a) + j]))
        BY <1>3, <1>6, <3>3 DEF Rows
      <3> QED BY <1>3, <3>1, <3>2, <3>4 DEF Under
    <2> QED BY <2>1, <2>2, <2>3 DEF Under
  <1> QED BY <1>1, <1>2, <1>4, <1>5, <1>6

\* Two rows that stand in order, joined where one ends before the other begins.
LEMMA RowsJoined ==
  ASSUME NEW a \in Bufs, NEW b \in Bufs, NEW r, Rows(r, a), Rows(r, b),
         Under(r, Lo!LinesOf(a), Lo!LinesOf(b))
  PROVE  a \o b \in Bufs /\ Lo!LinesOf(a \o b) = Lo!LinesOf(a) \cup Lo!LinesOf(b) /\ Rows(r, a \o b)
  BY RowsJoin

\* A row of one buffer.
LEMMA RowOfOne ==
  ASSUME NEW s \in Seq(Lines)
  PROVE  /\ <<s>> \in Bufs /\ Lo!LinesOf(<<s>>) = Has(s)
         /\ \A r : Rows(r, <<s>>) <=> Rising(r, s)
  <1>1. <<s>> \in Bufs /\ Len(<<s>>) = 1 /\ <<s>>[1] = s
    BY DEF Bufs
  <1>2. PICK c \in Bufs : c = <<s>> /\ Len(c) = 1 /\ c[1] = s
    BY <1>1
  <1>3. \A i : i \in 1 .. Len(c) <=> i = 1
    BY <1>2
  <1>4. \A x : x \in Lo!LinesOf(c) <=> x \in Has(s)
    BY <1>2, <1>3, RowHas
  <1>5. \A r : Rows(r, c) <=> Rising(r, s)
    BY <1>2, <1>3 DEF Rows
  <1> QED BY <1>1, <1>2, <1>4, <1>5

\* The empty row.
LEMMA NoRow == <<>> \in Bufs /\ Lo!LinesOf(<<>>) = {} /\ \A r : Rows(r, <<>>)
  <1>1. <<>> \in Bufs /\ Len(<<>>) = 0
    BY DEF Bufs
  <1>2. \A x : x \notin Lo!LinesOf(<<>>)
    BY <1>1, RowHas
  <1> QED BY <1>1, <1>2 DEF Rows

\* A row and one more buffer.
LEMMA RowsPush ==
  ASSUME NEW b \in Bufs, NEW s \in Seq(Lines)
  PROVE  /\ Append(b, s) \in Bufs /\ Lo!LinesOf(Append(b, s)) = Lo!LinesOf(b) \cup Has(s)
         /\ \A r : Rows(r, b) /\ Rising(r, s) /\ Under(r, Lo!LinesOf(b), Has(s))
                     => Rows(r, Append(b, s))
  <1>1. Append(b, s) = b \o <<s>>
    BY DEF Bufs
  <1> QED BY <1>1, RowOfOne, RowsJoin

\* Such a row is longer.
LEMMA RowsLonger ==
  ASSUME NEW b \in Bufs, NEW s \in Seq(Lines)
  PROVE  Len(Append(b, s)) = Len(b) + 1 /\ Append(b, s) # <<>>
  <1>1. Len(Append(b, s)) = Len(b) + 1 /\ Len(b) \in Nat
    BY DEF Bufs
  <1> QED BY <1>1

\* The first buffer of a row and the others.
LEMMA RowsHead ==
  ASSUME NEW b \in Bufs, b # <<>>
  PROVE  /\ Head(b) \in Seq(Lines) /\ Tail(b) \in Bufs
         /\ Lo!LinesOf(b) = Has(Head(b)) \cup Lo!LinesOf(Tail(b))
         /\ \A r : Rows(r, b) => /\ Rising(r, Head(b)) /\ Rows(r, Tail(b))
                                 /\ Under(r, Has(Head(b)), Lo!LinesOf(Tail(b)))
  <1>1. Head(b) \in Seq(Lines) /\ Tail(b) \in Bufs /\ b = <<Head(b)>> \o Tail(b)
    BY SMTT(30) DEF Bufs
  <1>2. PICK h \in Seq(Lines), t \in Bufs : h = Head(b) /\ t = Tail(b) /\ b = <<h>> \o t
    BY <1>1
  <1>3. PICK g \in Bufs : /\ g = <<h>> /\ Lo!LinesOf(g) = Has(h)
                          /\ \A r : Rows(r, g) <=> Rising(r, h)
    BY RowOfOne
  <1>4. /\ Lo!LinesOf(b) = Lo!LinesOf(g) \cup Lo!LinesOf(t)
        /\ \A r : Rows(r, b) => /\ Rows(r, g) /\ Rows(r, t)
                                /\ Under(r, Lo!LinesOf(g), Lo!LinesOf(t))
    <2>1. b = g \o t
      BY <1>2, <1>3
    <2>2. /\ Lo!LinesOf(g \o t) = Lo!LinesOf(g) \cup Lo!LinesOf(t)
          /\ \A r : Rows(r, g \o t) => /\ Rows(r, g) /\ Rows(r, t)
                                        /\ Under(r, Lo!LinesOf(g), Lo!LinesOf(t))
      BY RowsJoin
    <2> QED BY <2>1, <2>2, Zenon
  <1>5. /\ Lo!LinesOf(b) = Has(h) \cup Lo!LinesOf(t)
        /\ \A r : Rows(r, b) => /\ Rising(r, h) /\ Rows(r, t)
                                /\ Under(r, Has(h), Lo!LinesOf(t))
    BY <1>3, <1>4
  <1> QED BY <1>1, <1>2, <1>5

\* The first n buffers of a row and the others.
LEMMA RowsCut ==
  ASSUME NEW b \in Bufs, NEW n \in 0 .. Len(b)
  PROVE  /\ SubSeq(b, 1, n) \in Bufs /\ SubSeq(b, n + 1, Len(b)) \in Bufs
         /\ Lo!LinesOf(b) = Lo!LinesOf(SubSeq(b, 1, n)) \cup Lo!LinesOf(SubSeq(b, n + 1, Len(b)))
         /\ \A r : Rows(r, b) =>
              /\ Rows(r, SubSeq(b, 1, n))
              /\ Under(r, Lo!LinesOf(SubSeq(b, 1, n)), Lo!LinesOf(SubSeq(b, n + 1, Len(b))))
  <1>1. SubSeq(b, 1, n) \in Bufs /\ SubSeq(b, n + 1, Len(b)) \in Bufs
    BY DEF Bufs
  <1>2. PICK c \in Bufs, d \in Bufs : c = SubSeq(b, 1, n) /\ d = SubSeq(b, n + 1, Len(b))
    BY <1>1
  <1>3. b = c \o d
    <2>1. Len(b) \in Nat /\ Len(c) = n /\ Len(d) = Len(b) - n
      BY <1>2 DEF Bufs
    <2>2. /\ \A i \in 1 .. n : c[i] = b[i]
          /\ \A i \in 1 .. Len(b) - n : d[i] = b[n + i]
      BY <1>2 DEF Bufs
    <2>3. /\ c \o d \in Bufs /\ Len(c \o d) = Len(c) + Len(d)
          /\ \A i \in 1 .. Len(c) : (c \o d)[i] = c[i]
          /\ \A i \in 1 .. Len(d) : (c \o d)[Len(c) + i] = d[i]
      BY DEF Bufs
    <2>4. ASSUME NEW i \in 1 .. Len(b) PROVE b[i] = (c \o d)[i]
      <3>1. CASE i <= n
        BY <2>1, <2>2, <2>3, <3>1
      <3>2. CASE i > n
        <4>1. i - n \in 1 .. Len(b) - n /\ n + (i - n) = i
          BY <2>1, <3>2
        <4> QED BY <2>1, <2>2, <2>3, <4>1
      <3> QED BY <2>1, <3>1, <3>2
    <2>5. Len(c \o d) = Len(b)
      BY <2>1, <2>3
    <2> QED BY <2>3, <2>4, <2>5, SeqEqual DEF Bufs
  <1>4. /\ Lo!LinesOf(b) = Lo!LinesOf(c) \cup Lo!LinesOf(d)
        /\ \A r : Rows(r, b) => Rows(r, c) /\ Under(r, Lo!LinesOf(c), Lo!LinesOf(d))
    BY <1>3, RowsJoin
  <1> QED BY <1>1, <1>2, <1>4

\* More lines in the last buffer of a row.
Grown(b, s) == [b EXCEPT ![Len(b)] = @ \o s]

\* A row whose last buffer grows by lines that are after all of it.
LEMMA RowsGrow ==
  ASSUME NEW b \in Bufs, b # <<>>, NEW s \in Seq(Lines)
  PROVE  /\ Grown(b, s) \in Bufs /\ Lo!LinesOf(Grown(b, s)) = Lo!LinesOf(b) \cup Has(s)
         /\ Grown(b, s) # <<>>
         /\ \A r : Rows(r, b) /\ Rising(r, s) /\ Under(r, Lo!LinesOf(b), Has(s))
                     => Rows(r, Grown(b, s))
  <1>1. PICK n \in Nat \ {0} : n = Len(b)
    BY DEF Bufs
  <1>2. b[n] \in Seq(Lines) /\ b[n] \o s \in Seq(Lines) /\ Has(b[n] \o s) = Has(b[n]) \cup Has(s)
    BY <1>1, RowHas, HasJoin
  <1>3. PICK c \in Bufs : /\ c = Grown(b, s) /\ Len(c) = n /\ c[n] = b[n] \o s
                          /\ \A i \in 1 .. n : i # n => c[i] = b[i]
    <2>1. Grown(b, s) \in Bufs
      BY <1>1, <1>2 DEF Bufs, Grown
    <2>2. DOMAIN Grown(b, s) = 1 .. n /\ DOMAIN b = 1 .. n
      BY <1>1 DEF Bufs, Grown
    <2>3. Len(Grown(b, s)) = n
      BY <2>1, <2>2 DEF Bufs
    <2>4. Grown(b, s)[n] = b[n] \o s /\ \A i \in 1 .. n : i # n => Grown(b, s)[i] = b[i]
      BY <1>1, <2>2 DEF Grown
    <2> QED BY <2>1, <2>3, <2>4
  <1>4. Lo!LinesOf(c) = Lo!LinesOf(b) \cup Has(s)
    <2>1. ASSUME NEW x \in Lo!LinesOf(c) PROVE x \in Lo!LinesOf(b) \cup Has(s)
      <3>1. PICK i \in 1 .. n : x \in Has(c[i])
        BY <1>3, RowHas
      <3> QED BY <1>1, <1>2, <1>3, <3>1, RowHas
    <2>2. ASSUME NEW x \in Lo!LinesOf(b) PROVE x \in Lo!LinesOf(c)
      <3>1. PICK i \in 1 .. n : x \in Has(b[i])
        BY <1>1, RowHas
      <3> QED BY <1>2, <1>3, <3>1, RowHas
    <2>3. ASSUME NEW x \in Has(s) PROVE x \in Lo!LinesOf(c)
      <3>1. n \in 1 .. Len(c) /\ x \in Has(c[n])
        BY <1>2, <1>3
      <3> QED BY <3>1, RowHas
    <2> QED BY <2>1, <2>2, <2>3
  <1>5. ASSUME NEW r, Rows(r, b), Rising(r, s), Under(r, Lo!LinesOf(b), Has(s))
        PROVE  Rows(r, c)
    <2>1. ASSUME NEW i \in 1 .. n PROVE Rising(r, c[i])
      <3>1. CASE i = n
        <4>2. n \in 1 .. Len(b)
          BY <1>1
        <4>3. Has(b[n]) \subseteq Lo!LinesOf(b)
          BY <4>2, RowHas
        <4>1. Rising(r, b[n]) /\ Under(r, Has(b[n]), Has(s))
          BY <1>5, <4>2, <4>3 DEF Rows, Under
        <4>4. PICK e \in Seq(Lines) : e = b[n]
          BY <1>2
        <4>5. Rising(r, e \o s)
          BY <1>5, <4>1, <4>4, RisingJoin
        <4> QED BY <1>3, <3>1, <4>4, <4>5
      <3> QED BY <1>1, <1>3, <1>5, <3>1 DEF Rows
    <2>2. ASSUME NEW i \in 1 .. n, NEW j \in 1 .. n, i < j
          PROVE  Under(r, Has(c[i]), Has(c[j]))
      <3>1. i # n /\ c[i] = b[i] /\ Under(r, Has(b[i]), Has(b[j]))
        BY <1>1, <1>3, <1>5, <2>2 DEF Rows
      <3>2. CASE j = n
        <4>1. Has(c[j]) = Has(b[j]) \cup Has(s) /\ Under(r, Has(b[i]), Has(s))
          BY <1>1, <1>2, <1>3, <1>5, <3>2, RowHas DEF Under
        <4> QED BY <3>1, <4>1 DEF Under
      <3> QED BY <1>3, <3>1, <3>2
    <2> QED BY <1>3, <2>1, <2>2 DEF Rows
  <1> QED BY <1>1, <1>3, <1>4, <1>5

-----------------------------------------------------------------------------
(* Logging: what the steps do to the lines under way *)

\* Files d, stdio s, buffers to write t, filled f and current c are in order.
Streams(d, s, t, f, c) ==
  d \in Bufs /\ s \in Seq(Lines) /\ t \in Bufs /\ f \in Bufs /\ c \in Seq(Lines)
Every(d, s, t, f, c) ==
  Lo!LinesOf(d) \cup Has(s) \cup Lo!LinesOf(t) \cup Lo!LinesOf(f) \cup Has(c)
Chained(r, d, s, t, f, c) ==
  /\ Rows(r, d) /\ Rising(r, s) /\ Rows(r, t) /\ Rows(r, f) /\ Rising(r, c)
  /\ Under(r, Lo!LinesOf(d), Has(s) \cup Lo!LinesOf(t) \cup Lo!LinesOf(f) \cup Has(c))
  /\ Under(r, Has(s), Lo!LinesOf(t) \cup Lo!LinesOf(f) \cup Has(c))
  /\ Under(r, Lo!LinesOf(t), Lo!LinesOf(f) \cup Has(c))
  /\ Under(r, Lo!LinesOf(f), Has(c))

\* A larger order of lines.
LEMMA ChainMore ==
  ASSUME NEW r, NEW r2, r \subseteq r2, NEW d, NEW s, NEW t, NEW f, NEW c, Chained(r, d, s, t, f, c)
  PROVE  Chained(r2, d, s, t, f, c)
  <1>1. \A A, B : Under(r, A, B) => Under(r2, A, B)
    BY DEF Under
  <1>2. \A q : Rising(r, q) => Rising(r2, q)
    BY DEF Rising
  <1>3. \A b : Rows(r, b) => Rows(r2, b)
    BY <1>1, <1>2 DEF Rows
  <1> QED BY <1>1, <1>2, <1>3, Zenon DEF Chained

\* A line behind all others, in the current buffer or in a new one.
LEMMA ChainLine ==
  ASSUME NEW r, NEW d, NEW s, NEW t, NEW f, NEW c, Streams(d, s, t, f, c), Chained(r, d, s, t, f, c),
         NEW l \in Lines, Under(r, Every(d, s, t, f, c), {l})
  PROVE  /\ Chained(r, d, s, t, f, Append(c, l)) /\ Append(c, l) \in Seq(Lines)
         /\ Every(d, s, t, f, Append(c, l)) = Every(d, s, t, f, c) \cup {l}
         /\ Chained(r, d, s, t, Append(f, c), <<l>>) /\ Append(f, c) \in Bufs
         /\ Every(d, s, t, Append(f, c), <<l>>) = Every(d, s, t, f, c) \cup {l}
  <1>1. PICK o \in Seq(Lines) : o = <<l>> /\ Has(o) = {l} /\ Rising(r, o)
    BY FewLines
  <1>2. Append(c, l) = c \o o
    BY <1>1 DEF Streams
  <1>3. PICK c2 \in Seq(Lines) : c2 = Append(c, l) /\ Has(c2) = Has(c) \cup {l}
    <2>1. c \o o \in Seq(Lines) /\ Has(c \o o) = Has(c) \cup Has(o)
      BY HasJoin DEF Streams
    <2> QED BY <1>1, <1>2, <2>1
  <1>4. Rising(r, c2)
    <2>1. Under(r, Has(c), Has(o)) /\ Rising(r, c)
      BY <1>1 DEF Under, Every, Chained
    <2> QED BY <1>1, <1>2, <1>3, <2>1, RisingJoin DEF Streams
  <1>5. PICK f2 \in Bufs : /\ f2 = Append(f, c) /\ Lo!LinesOf(f2) = Lo!LinesOf(f) \cup Has(c)
                           /\ Rows(r, f2)
    BY RowsPush DEF Streams, Chained
  <1>6. Chained(r, d, s, t, f, c2) /\ Every(d, s, t, f, c2) = Every(d, s, t, f, c) \cup {l}
    BY <1>3, <1>4 DEF Chained, Every, Under
  <1>7. Chained(r, d, s, t, f2, o) /\ Every(d, s, t, f2, o) = Every(d, s, t, f, c) \cup {l}
    BY <1>1, <1>5 DEF Chained, Every, Under
  <1> QED BY <1>1, <1>3, <1>5, <1>6, <1>7

\* The buffers are swapped out.
LEMMA ChainCollect ==
  ASSUME NEW r, NEW d, NEW s, NEW f, NEW c, Streams(d, s, <<>>, f, c), Chained(r, d, s, <<>>, f, c)
  PROVE  /\ Append(f, c) \in Bufs /\ Chained(r, d, s, Append(f, c), <<>>, <<>>)
         /\ Every(d, s, Append(f, c), <<>>, <<>>) = Every(d, s, <<>>, f, c)
  <1>1. PICK f2 \in Bufs : /\ f2 = Append(f, c) /\ Lo!LinesOf(f2) = Lo!LinesOf(f) \cup Has(c)
                           /\ Rows(r, f2)
    BY RowsPush DEF Streams, Chained
  <1>2. Chained(r, d, s, f2, <<>>, <<>>) /\ Every(d, s, f2, <<>>, <<>>) = Every(d, s, <<>>, f, c)
    BY <1>1, NoRow, FewLines DEF Chained, Every, Under
  <1> QED BY <1>1, <1>2

\* Buffers are dropped; no line in them stands elsewhere.
LEMMA ChainDrop ==
  ASSUME NEW r, \A x : <<x, x>> \notin r, NEW d, NEW s, NEW t, NEW f, NEW c,
         Streams(d, s, t, f, c), Chained(r, d, s, t, f, c), NEW n \in 0 .. Len(t)
  PROVE  LET k == SubSeq(t, 1, n)
             x == Lo!LinesOf(SubSeq(t, n + 1, Len(t)))
         IN /\ k \in Bufs /\ Chained(r, d, s, k, f, c)
            /\ Every(d, s, k, f, c) = Every(d, s, t, f, c) \ x
            /\ x \subseteq Every(d, s, t, f, c)
  <1>1. PICK k \in Bufs, q \in Bufs :
          /\ k = SubSeq(t, 1, n) /\ q = SubSeq(t, n + 1, Len(t)) /\ Rows(r, k)
          /\ Lo!LinesOf(t) = Lo!LinesOf(k) \cup Lo!LinesOf(q)
          /\ Under(r, Lo!LinesOf(k), Lo!LinesOf(q))
    BY RowsCut DEF Streams, Chained
  <1>2. PICK D, S, K, Q, F, C : D = Lo!LinesOf(d) /\ S = Has(s) /\ K = Lo!LinesOf(k)
                                 /\ Q = Lo!LinesOf(q) /\ F = Lo!LinesOf(f) /\ C = Has(c)
    OBVIOUS
  <1>3. Under(r, D, Q) /\ Under(r, S, Q) /\ Under(r, K, Q) /\ Under(r, Q, F) /\ Under(r, Q, C)
    BY <1>1, <1>2 DEF Chained, Under
  <1>4. \A x \in Q : x \notin D /\ x \notin S /\ x \notin K /\ x \notin F /\ x \notin C
    BY <1>3 DEF Under
  <1>5. Every(d, s, k, f, c) = Every(d, s, t, f, c) \ Q /\ Q \subseteq Every(d, s, t, f, c)
    BY <1>1, <1>2, <1>4 DEF Every
  <1>6. Chained(r, d, s, k, f, c)
    BY <1>1 DEF Chained, Under
  <1> QED BY <1>1, <1>2, <1>5, <1>6

\* The first n lines of a buffer and the others.
LEMMA LinesCut ==
  ASSUME NEW s \in Seq(Lines), NEW n \in 0 .. Len(s)
  PROVE  /\ SubSeq(s, 1, n) \in Seq(Lines) /\ SubSeq(s, n + 1, Len(s)) \in Seq(Lines)
         /\ Has(s) = Has(SubSeq(s, 1, n)) \cup Has(SubSeq(s, n + 1, Len(s)))
         /\ \A r : Rising(r, s) => /\ Rising(r, SubSeq(s, 1, n))
                                   /\ Under(r, Has(SubSeq(s, 1, n)), Has(SubSeq(s, n + 1, Len(s))))
  <1>1. SubSeq(s, 1, n) \in Seq(Lines) /\ SubSeq(s, n + 1, Len(s)) \in Seq(Lines)
    OBVIOUS
  <1>2. PICK a \in Seq(Lines), b \in Seq(Lines) : a = SubSeq(s, 1, n) /\ b = SubSeq(s, n + 1, Len(s))
    BY <1>1
  <1>3. /\ Len(s) \in Nat /\ Len(a) = n /\ Len(b) = Len(s) - n
        /\ \A i \in 1 .. n : a[i] = s[i]
        /\ \A i \in 1 .. Len(s) - n : b[i] = s[n + i]
    BY <1>2
  <1>4. ASSUME NEW x \in Has(s) PROVE x \in Has(a) \cup Has(b)
    <2>1. PICK k \in 1 .. Len(s) : x = s[k]
      BY DEF Has
    <2>2. CASE k <= n
      BY <1>3, <2>1, <2>2 DEF Has
    <2>3. CASE k > n
      <3>1. k - n \in 1 .. Len(b) /\ n + (k - n) = k
        BY <1>3, <2>3
      <3>2. x = b[k - n]
        BY <1>3, <2>1, <3>1
      <3> QED BY <3>1, <3>2 DEF Has
    <2> QED BY <1>3, <2>2, <2>3
  <1>5. ASSUME NEW x \in Has(a) \cup Has(b) PROVE x \in Has(s)
    <2>1. \A k \in 1 .. n : k \in 1 .. Len(s)
      BY <1>3
    <2>2. \A k \in 1 .. Len(s) - n : n + k \in 1 .. Len(s)
      BY <1>3
    <2> QED BY <1>3, <2>1, <2>2 DEF Has
  <1>6. ASSUME NEW r, Rising(r, s) PROVE Rising(r, a) /\ Under(r, Has(a), Has(b))
    <2>1. Rising(r, a)
      <3>1. \A k \in 1 .. n : k \in 1 .. Len(s)
        BY <1>3
      <3> QED BY <1>3, <1>6, <3>1 DEF Rising
    <2>2. ASSUME NEW x \in Has(a), NEW y \in Has(b) PROVE <<x, y>> \in r
      <3>1. PICK k \in 1 .. n : x = s[k]
        <4>1. PICK k \in 1 .. Len(a) : x = a[k]
          BY DEF Has
        <4> QED BY <1>3, <4>1
      <3>2. PICK m \in 1 .. Len(s) - n : y = s[n + m]
        <4>1. PICK m \in 1 .. Len(b) : y = b[m]
          BY DEF Has
        <4>2. m \in 1 .. Len(s) - n
          BY <1>3, <4>1
        <4>3. y = s[n + m]
          BY <1>3, <4>1, <4>2
        <4> QED BY <4>2, <4>3
      <3>3. k \in 1 .. Len(s) /\ n + m \in 1 .. Len(s) /\ k < n + m
        BY <1>3
      <3> QED BY <1>6, <3>1, <3>2, <3>3 DEF Rising
    <2> QED BY <2>1, <2>2 DEF Under
  <1> QED BY <1>1, <1>2, <1>4, <1>5, <1>6

\* Lines of stdio are lost; none of them stands elsewhere.
LEMMA ChainCut ==
  ASSUME NEW r, \A x : <<x, x>> \notin r, NEW d, NEW s, NEW t, NEW f, NEW c,
         Streams(d, s, t, f, c), Chained(r, d, s, t, f, c), NEW n \in 0 .. Len(s)
  PROVE  LET k == SubSeq(s, 1, n)
             x == Lo!LinesOf(<<SubSeq(s, n + 1, Len(s))>>)
         IN /\ k \in Seq(Lines) /\ Chained(r, d, k, t, f, c)
            /\ Every(d, k, t, f, c) = Every(d, s, t, f, c) \ x
            /\ x \subseteq Every(d, s, t, f, c)
  <1>1. PICK k \in Seq(Lines), q \in Seq(Lines) :
          /\ k = SubSeq(s, 1, n) /\ q = SubSeq(s, n + 1, Len(s)) /\ Rising(r, k)
          /\ Has(s) = Has(k) \cup Has(q) /\ Under(r, Has(k), Has(q))
    BY LinesCut DEF Streams, Chained
  <1>2. Lo!LinesOf(<<q>>) = Has(q)
    BY RowOfOne
  <1>3. PICK D, K, Q, T, F, C : D = Lo!LinesOf(d) /\ K = Has(k) /\ Q = Has(q)
                                 /\ T = Lo!LinesOf(t) /\ F = Lo!LinesOf(f) /\ C = Has(c)
    OBVIOUS
  <1>4. Under(r, D, Q) /\ Under(r, K, Q) /\ Under(r, Q, T) /\ Under(r, Q, F) /\ Under(r, Q, C)
    BY <1>1, <1>3 DEF Chained, Under
  <1>5. \A x \in Q : x \notin D /\ x \notin K /\ x \notin T /\ x \notin F /\ x \notin C
    BY <1>4 DEF Under
  <1>6. Every(d, k, t, f, c) = Every(d, s, t, f, c) \ Q /\ Q \subseteq Every(d, s, t, f, c)
    BY <1>1, <1>3, <1>5 DEF Every
  <1>7. Chained(r, d, k, t, f, c)
    BY <1>1 DEF Chained, Under
  <1> QED BY <1>1, <1>2, <1>3, <1>6, <1>7

\* stdio takes the first buffer, and an empty one comes back.
LEMMA ChainTake ==
  ASSUME NEW r, NEW d, NEW s, NEW t, NEW f, NEW c, Streams(d, s, t, f, c), Chained(r, d, s, t, f, c),
         t # <<>>
  PROVE  LET s2 == s \o Head(t)
             t2 == Append(Tail(t), <<>>)
         IN /\ s2 \in Seq(Lines) /\ t2 \in Bufs /\ Chained(r, d, s2, t2, f, c)
            /\ Every(d, s2, t2, f, c) = Every(d, s, t, f, c)
  <1>1. PICK h \in Seq(Lines), u \in Bufs :
          /\ h = Head(t) /\ u = Tail(t) /\ Lo!LinesOf(t) = Has(h) \cup Lo!LinesOf(u)
          /\ Rising(r, h) /\ Rows(r, u) /\ Under(r, Has(h), Lo!LinesOf(u))
    BY RowsHead DEF Streams, Chained
  <1>2. PICK s2 \in Seq(Lines) : s2 = s \o h /\ Has(s2) = Has(s) \cup Has(h)
    BY HasJoin DEF Streams
  <1>3. Rising(r, s2)
    <2>1. Rising(r, s) /\ Under(r, Has(s), Has(h))
      BY <1>1 DEF Chained, Under
    <2> QED BY <1>1, <1>2, <2>1, RisingJoin DEF Streams
  <1>4. PICK t2 \in Bufs : t2 = Append(u, <<>>) /\ Lo!LinesOf(t2) = Lo!LinesOf(u) /\ Rows(r, t2)
    <2>1. PICK z \in Seq(Lines) : z = <<>> /\ Has(z) = {} /\ Rising(r, z)
      BY FewLines
    <2>2. Under(r, Lo!LinesOf(u), Has(z))
      BY <2>1 DEF Under
    <2>3. /\ Append(u, z) \in Bufs /\ Lo!LinesOf(Append(u, z)) = Lo!LinesOf(u) \cup Has(z)
          /\ Rows(r, Append(u, z))
      BY <1>1, <2>1, <2>2, RowsPush
    <2> QED BY <2>1, <2>3
  <1>5. Chained(r, d, s2, t2, f, c) /\ Every(d, s2, t2, f, c) = Every(d, s, t, f, c)
    BY <1>1, <1>2, <1>3, <1>4 DEF Chained, Every, Under
  <1> QED BY <1>1, <1>2, <1>4, <1>5

\* stdio is flushed to the last file.
LEMMA ChainFlush ==
  ASSUME NEW r, NEW d, NEW s, NEW t, NEW f, NEW c, Streams(d, s, t, f, c), Chained(r, d, s, t, f, c),
         d # <<>>
  PROVE  /\ Grown(d, s) \in Bufs /\ Chained(r, Grown(d, s), <<>>, t, f, c) /\ Grown(d, s) # <<>>
         /\ Every(Grown(d, s), <<>>, t, f, c) = Every(d, s, t, f, c)
  <1>1. PICK e \in Bufs : /\ e = Grown(d, s) /\ Lo!LinesOf(e) = Lo!LinesOf(d) \cup Has(s)
                          /\ Rows(r, e) /\ e # <<>>
    <2>1. Under(r, Lo!LinesOf(d), Has(s)) /\ Rows(r, d) /\ Rising(r, s)
      BY DEF Chained, Under
    <2> QED BY <2>1, RowsGrow DEF Streams
  <1>2. Chained(r, e, <<>>, t, f, c) /\ Every(e, <<>>, t, f, c) = Every(d, s, t, f, c)
    BY <1>1, FewLines DEF Chained, Every, Under
  <1> QED BY <1>1, <1>2

\* A file is opened.
LEMMA ChainOpen ==
  ASSUME NEW r, NEW d, NEW s, NEW t, NEW f, NEW c, Streams(d, s, t, f, c), Chained(r, d, s, t, f, c)
  PROVE  /\ Append(d, <<>>) \in Bufs /\ Chained(r, Append(d, <<>>), s, t, f, c)
         /\ Every(Append(d, <<>>), s, t, f, c) = Every(d, s, t, f, c)
  <1>1. PICK z \in Seq(Lines) : z = <<>> /\ Has(z) = {} /\ Rising(r, z)
    BY FewLines
  <1>2. Under(r, Lo!LinesOf(d), Has(z))
    BY <1>1 DEF Under
  <1>3. PICK e \in Bufs : e = Append(d, z) /\ Lo!LinesOf(e) = Lo!LinesOf(d) \cup Has(z) /\ Rows(r, e)
    BY <1>1, <1>2, RowsPush DEF Streams, Chained
  <1>4. Chained(r, e, s, t, f, c) /\ Every(e, s, t, f, c) = Every(d, s, t, f, c)
    BY <1>1, <1>3 DEF Chained, Every
  <1> QED BY <1>1, <1>3, <1>4

\* The buffers that were written are given back.
LEMMA ChainRefill ==
  ASSUME NEW r, NEW d, NEW s, NEW t, NEW f, NEW c, Streams(d, s, t, f, c), Chained(r, d, s, t, f, c),
         \A i \in 1 .. Len(t) : t[i] = <<>>
  PROVE  Chained(r, d, s, <<>>, f, c) /\ Every(d, s, <<>>, f, c) = Every(d, s, t, f, c)
  <1>1. Lo!LinesOf(t) = {}
    BY RowHas, FewLines DEF Streams
  <1> QED BY <1>1, NoRow DEF Chained, Every, Under

-----------------------------------------------------------------------------
(* Logging: the state *)

Files == [name : Nat, lines : Seq(Lines)]
Texts(d) == [i \in 1 .. Len(d) |-> d[i].lines]

\* The order of lines that append() gave them.
Prec == {p \in Lines \X Lines : Lo!Before(p[1], p[2])}

LogTypes ==
  /\ logPc \in {"new", "loop", "wait", "write", "append", "ended"}
  /\ disk \in Seq(Files) /\ logTime \in Nat /\ appended \in Seq(Lines)
  /\ Streams(Texts(disk), stdio, toWrite, filled, current)
  /\ spare \in BOOLEAN /\ new1 \in BOOLEAN /\ new2 \in BOOLEAN
  /\ logPc = "new" <=> disk = <<>>

\* A logger numbers its lines.
Mine(a, t) == {i \in 1 .. Len(a) : a[i][1] = t}
NumberedInv ==
  /\ \A i, j \in 1 .. Len(appended) : appended[i] = appended[j] => i = j
  /\ \A i \in 1 .. Len(appended) : appended[i][2] <= Cardinality(Mine(appended, appended[i][1]))

\* Buffers are in order, and hold what was appended and not dropped.
LineInv ==
  /\ Chained(Prec, Texts(disk), stdio, toWrite, filled, current)
  /\ Every(Texts(disk), stdio, toWrite, filled, current) = Has(appended) \ dropped
  /\ dropped \subseteq Has(appended)

\* A buffer is missing only if one is there to take its place.
RefillInv ==
  /\ refilled
  /\ logPc \notin {"write", "append"} => new1 /\ new2 /\ toWrite = <<>>
  /\ ~ spare => filled # <<>>
  /\ logPc \in {"write", "append"} => toWrite # <<>> /\ (~ new2 => Len(toWrite) >= 2)

LogInv == LogTypes /\ NumberedInv /\ LineInv /\ RefillInv

\* The lines of the files.
LEMMA TextsAre ==
  ASSUME NEW d \in Seq(Files)
  PROVE  Texts(d) \in Bufs /\ Len(Texts(d)) = Len(d) /\ (Texts(d) = <<>> <=> d = <<>>)
  <1>1. \A i \in 1 .. Len(d) : d[i].lines \in Seq(Lines)
    <2>1. \A i \in 1 .. Len(d) : d[i] \in Files
      OBVIOUS
    <2>2. \A x \in Files : x.lines \in Seq(Lines)
      BY DEF Files
    <2> QED BY <2>1, <2>2
  <1>2. Len(d) \in Nat
    OBVIOUS
  <1>3. Texts(d) \in Bufs /\ Len(Texts(d)) = Len(d)
    BY <1>1, <1>2 DEF Texts, Bufs
  <1> QED BY <1>2, <1>3 DEF Bufs

\* The file that is open grows.
LEMMA TextsGrow ==
  ASSUME NEW d \in Seq(Files), d # <<>>, NEW s \in Seq(Lines), NEW e,
         e = [d EXCEPT ![Len(d)].lines = @ \o s]
  PROVE  e \in Seq(Files) /\ Texts(e) = Grown(Texts(d), s) /\ e # <<>>
  <1>1. PICK n \in Nat \ {0} : n = Len(d)
    OBVIOUS
  <1>2. PICK x \in Files : x = d[n]
    BY <1>1
  <1>3. PICK y \in Files : y = [x EXCEPT !.lines = @ \o s] /\ y.lines = x.lines \o s
    <2>1. x.lines \in Seq(Lines) /\ x.lines \o s \in Seq(Lines)
      BY DEF Files
    <2>2. PICK v \in Seq(Lines) : v = x.lines \o s
      BY <2>1
    <2>3. [x EXCEPT !.lines = v] \in Files /\ [x EXCEPT !.lines = v].lines = v
      BY DEF Files
    <2> QED BY <2>2, <2>3
  <1>4. e = [d EXCEPT ![n] = y]
    BY <1>1, <1>2, <1>3
  <1>5. /\ e \in Seq(Files) /\ Len(e) = n /\ e[n] = y
        /\ \A i \in 1 .. n : i # n => e[i] = d[i]
    <2>1. e \in Seq(Files) /\ DOMAIN e = 1 .. n
      <3>1. n \in 1 .. Len(d) /\ DOMAIN d = 1 .. n
        BY <1>1
      <3>2. [d EXCEPT ![n] = y] \in Seq(Files)
        BY <3>1
      <3> QED BY <1>4, <3>1, <3>2
    <2>3. DOMAIN d = 1 .. n
      BY <1>1
    <2>2. e[n] = y /\ \A i \in 1 .. n : i # n => e[i] = d[i]
      BY <1>1, <1>4, <2>3
    <2>4. Len(e) = n
      BY <1>1, <2>1
    <2> QED BY <2>1, <2>2, <2>4
  <1>6. Texts(d) \in Bufs /\ Len(Texts(d)) = n /\ DOMAIN Texts(d) = 1 .. n
    BY <1>1, TextsAre DEF Texts
  <1>7. Texts(e) = [i \in 1 .. n |-> IF i = n THEN x.lines \o s ELSE d[i].lines]
    <2>1. \A i \in 1 .. n : e[i].lines = IF i = n THEN x.lines \o s ELSE d[i].lines
      <3>1. ASSUME NEW i \in 1 .. n, i # n PROVE e[i].lines = d[i].lines
        BY <1>5, <3>1
      <3>2. e[n].lines = x.lines \o s
        BY <1>3, <1>5
      <3> QED BY <3>1, <3>2, Zenon
    <2> QED BY <1>5, <2>1 DEF Texts
  <1>8. Grown(Texts(d), s) = [i \in 1 .. n |-> IF i = n THEN x.lines \o s ELSE d[i].lines]
    BY <1>1, <1>2, <1>6 DEF Grown, Texts
  <1> QED BY <1>1, <1>5, <1>7, <1>8

\* A new file is opened.
LEMMA TextsOpen ==
  ASSUME NEW d \in Seq(Files), NEW t \in Nat, NEW e, e = Append(d, [name |-> t, lines |-> <<>>])
  PROVE  e \in Seq(Files) /\ Texts(e) = Append(Texts(d), <<>>) /\ e # <<>>
  <1>1. PICK z \in Seq(Lines) : z = <<>>
    BY FewLines
  <1>2. PICK y \in Files : y = [name |-> t, lines |-> z] /\ y.lines = z
    <2>1. [name |-> t, lines |-> z] \in Files /\ [name |-> t, lines |-> z].lines = z
      BY DEF Files
    <2> QED BY <2>1
  <1>3. e = Append(d, y)
    BY <1>1, <1>2
  <1>4. e \in Seq(Files) /\ Len(e) = Len(d) + 1 /\ Len(d) \in Nat /\ e # <<>>
    BY <1>3
  <1>5. e[Len(d) + 1] = y /\ \A i \in 1 .. Len(d) : e[i] = d[i]
    BY <1>3
  <1>6. PICK b \in Bufs, c \in Bufs : b = Texts(d) /\ c = Texts(e) /\ Len(b) = Len(d) /\ Len(c) = Len(e)
    BY <1>4, TextsAre
  <1>7. /\ \A i \in 1 .. Len(d) : b[i] = d[i].lines
        /\ \A i \in 1 .. Len(d) + 1 : c[i] = e[i].lines
    BY <1>4, <1>6 DEF Texts
  <1>8. /\ Append(b, z) \in Bufs /\ Len(Append(b, z)) = Len(b) + 1
        /\ Append(b, z)[Len(b) + 1] = z /\ \A i \in 1 .. Len(b) : Append(b, z)[i] = b[i]
    BY DEF Bufs
  <1>9. \A i \in 1 .. Len(d) + 1 : c[i] = Append(b, z)[i]
    <2>1. \A i \in 1 .. Len(d) + 1 : i = Len(d) + 1 \/ i \in 1 .. Len(d)
      BY <1>4
    <2> QED BY <1>2, <1>5, <1>6, <1>7, <1>8, <2>1
  <1>10. c = Append(b, z)
    <2>1. Len(c) = Len(Append(b, z)) /\ \A i \in 1 .. Len(c) : c[i] = Append(b, z)[i]
      BY <1>4, <1>6, <1>8, <1>9
    <2> QED BY <1>8, <2>1, SeqEqual DEF Bufs
  <1> QED BY <1>1, <1>4, <1>6, <1>10

-----------------------------------------------------------------------------
(* Logging: lines *)

\* A line that is appended is a new one, behind all others.
LEMMA LineIsNew ==
  ASSUME LogInv, NEW t \in Loggers, Lo!AppendLine(t)
  PROVE  \E l \in Lines :
           /\ appended' = Append(appended, l) /\ l \notin Has(appended)
           /\ NumberedInv' /\ Prec \subseteq Prec' /\ Under(Prec', Has(appended), {l})
           /\ Has(appended)' = Has(appended) \cup {l} /\ appended' \in Seq(Lines)
           /\ \/ current' = Append(current, l) /\ UNCHANGED <<spare, filled>>
              \/ current' = <<l>> /\ filled' = Append(filled, current) /\ spare' = FALSE
  <1>1. PICK a \in Seq(Lines), n \in Nat : a = appended /\ n = Len(a)
    BY DEF LogInv, LogTypes
  <1>2. \A u : IsFiniteSet(Mine(a, u)) /\ Cardinality(Mine(a, u)) \in Nat
    <2>1. IsFiniteSet(1 .. n)
      BY FS_Interval
    <2>2. \A u : Mine(a, u) \subseteq 1 .. n
      BY <1>1 DEF Mine
    <2> QED BY <2>1, <2>2, FS_Subset, FS_CardinalityType
  <1>3. PICK m \in Nat : m = Cardinality(Mine(a, t))
    BY <1>2
  <1>4. PICK l \in Lines : l = <<t, m + 1>>
    <2>1. <<t, m + 1>> \in Lines
      BY DEF Lines
    <2> QED BY <2>1
  <1>5. /\ appended' = Append(a, l)
        /\ \/ current' = Append(current, l) /\ UNCHANGED <<spare, filled>>
           \/ current' = <<l>> /\ filled' = Append(filled, current) /\ spare' = FALSE
    <2>1. Cardinality({i \in 1 .. Len(appended) : appended[i][1] = t}) = m
      BY <1>1, <1>3, Zenon DEF Mine
    <2>3. \A S : Lo!Cardinality(S) = Cardinality(S)
      BY DEF Lo!Cardinality, Cardinality
    <2>2. /\ appended' = Append(appended, <<t, m + 1>>)
          /\ IF Len(current) < BufferLines
             THEN current' = Append(current, <<t, m + 1>>) /\ UNCHANGED <<spare, filled>>
             ELSE current' = <<<<t, m + 1>>>> /\ filled' = Append(filled, current) /\ spare' = FALSE
      BY <2>1, <2>3 DEF Lo!AppendLine
    <2> QED BY <1>1, <1>4, <2>2, Zenon
  <1>6. PICK b \in Seq(Lines) : /\ b = appended' /\ Len(b) = n + 1 /\ b[n + 1] = l
                                /\ \A i \in 1 .. n : b[i] = a[i]
    <2>1. /\ Append(a, l) \in Seq(Lines) /\ Len(Append(a, l)) = n + 1 /\ Append(a, l)[n + 1] = l
          /\ \A i \in 1 .. n : Append(a, l)[i] = a[i]
      BY <1>1
    <2> QED BY <1>5, <2>1
  <1>7. \A i \in 1 .. n : a[i] \in Lines /\ a[i][1] \in Loggers /\ a[i][2] \in Nat
    BY <1>1 DEF Lines
  <1>8. \A i \in 1 .. n : a[i] # l
    <2>1. SUFFICES ASSUME NEW i \in 1 .. n, a[i] = l PROVE FALSE
      OBVIOUS
    <2>2. a[i][1] = t /\ a[i][2] = m + 1
      BY <1>4, <2>1
    <2>3. a[i][2] <= Cardinality(Mine(a, t))
      BY <1>1, <2>1, <2>2 DEF LogInv, NumberedInv
    <2> QED BY <1>3, <2>2, <2>3
  <1>9. \A i \in 1 .. n + 1 : i \in 1 .. n \/ i = n + 1
    BY <1>1
  <1>10. Cardinality(Mine(b, t)) = m + 1 /\ \A u : u # t => Mine(b, u) = Mine(a, u)
    <2>1. Mine(b, t) = Mine(a, t) \cup {n + 1} /\ n + 1 \notin Mine(a, t)
      BY <1>1, <1>4, <1>6, <1>9 DEF Mine
    <2>2. \A u : u # t => Mine(b, u) = Mine(a, u)
      BY <1>1, <1>4, <1>6, <1>9 DEF Mine
    <2> QED BY <1>2, <1>3, <2>1, <2>2, FS_AddElement
  <1>11. NumberedInv'
    <2>1. ASSUME NEW i \in 1 .. n + 1, NEW j \in 1 .. n + 1, b[i] = b[j] PROVE i = j
      <3>1. \A p, q \in 1 .. n : a[p] = a[q] => p = q
        BY <1>1 DEF LogInv, NumberedInv
      <3> QED BY <1>6, <1>8, <1>9, <2>1, <3>1
    <2>2. ASSUME NEW i \in 1 .. n + 1 PROVE b[i][2] <= Cardinality(Mine(b, b[i][1]))
      <3>1. CASE i = n + 1
        BY <1>4, <1>6, <1>10, <3>1
      <3>2. CASE i \in 1 .. n
        <4>1. a[i][2] <= Cardinality(Mine(a, a[i][1])) /\ a[i][2] \in Nat
          BY <1>1, <1>7, <3>2 DEF LogInv, NumberedInv
        <4>2. CASE a[i][1] = t
          BY <1>3, <1>6, <1>10, <3>2, <4>1, <4>2
        <4>3. CASE a[i][1] # t
          BY <1>6, <1>10, <3>2, <4>1, <4>3
        <4> QED BY <4>2, <4>3
      <3> QED BY <1>9, <3>1, <3>2
    <2> QED BY <1>6, <2>1, <2>2 DEF NumberedInv
  <1>12. Prec \subseteq Prec'
    <2>1. \A x, y : Lo!Before(x, y) => Lo!Before(x, y)'
      <3> SUFFICES ASSUME NEW x, NEW y, Lo!Before(x, y) PROVE Lo!Before(x, y)'
        OBVIOUS
      <3>1. PICK i \in 1 .. n, j \in 1 .. n : i < j /\ a[i] = x /\ a[j] = y
        BY <1>1 DEF Lo!Before
      <3>2. i \in 1 .. Len(b) /\ j \in 1 .. Len(b) /\ b[i] = x /\ b[j] = y
        BY <1>6, <3>1
      <3> QED BY <1>6, <3>1, <3>2 DEF Lo!Before
    <2> QED BY <2>1 DEF Prec
  <1>13. Under(Prec', Has(a), {l})
    <2> SUFFICES ASSUME NEW x \in Has(a) PROVE x \in Lines /\ Lo!Before(x, l)'
      BY DEF Under, Prec
    <2>1. PICK i \in 1 .. n : x = a[i]
      BY <1>1 DEF Has
    <2>2. i \in 1 .. Len(b) /\ n + 1 \in 1 .. Len(b) /\ i < n + 1 /\ b[i] = x /\ b[n + 1] = l
      BY <1>6, <2>1
    <2> QED BY <1>6, <1>7, <2>1, <2>2 DEF Lo!Before
  <1>14. Has(b) = Has(a) \cup {l} /\ l \notin Has(a)
    BY <1>1, <1>6, <1>8, <1>9 DEF Has
  <1> QED BY <1>1, <1>5, <1>6, <1>11, <1>12, <1>13, <1>14

-----------------------------------------------------------------------------
(* Logging: the steps *)

\* append().
LEMMA AppendStep ==
  ASSUME LogInv, NEW t \in Loggers, Lo!AppendLine(t)
  PROVE  LogInv'
  <1>1. UNCHANGED <<logPc, new1, new2, toWrite, stdio, disk, logTime, refilled, dropped>>
    BY DEF Lo!AppendLine, Lo!fileVars
  <1>2. PICK l \in Lines :
          /\ appended' = Append(appended, l) /\ l \notin Has(appended)
          /\ NumberedInv' /\ Prec \subseteq Prec' /\ Under(Prec', Has(appended), {l})
          /\ Has(appended)' = Has(appended) \cup {l} /\ appended' \in Seq(Lines)
          /\ \/ current' = Append(current, l) /\ UNCHANGED <<spare, filled>>
             \/ current' = <<l>> /\ filled' = Append(filled, current) /\ spare' = FALSE
    BY LineIsNew
  <1>3. PICK d, r, v : d = Texts(disk) /\ r = Prec' /\ v = Every(d, stdio, toWrite, filled, current)
    OBVIOUS
  <1>4. Streams(d, stdio, toWrite, filled, current) /\ v = Has(appended) \ dropped
    BY <1>3 DEF LogInv, LogTypes, LineInv
  <1>5. Chained(r, d, stdio, toWrite, filled, current)
    BY <1>2, <1>3, ChainMore DEF LogInv, LineInv
  <1>6. Under(r, v, {l})
    BY <1>2, <1>3, <1>4 DEF Under
  <1>7. /\ Chained(r, d, stdio, toWrite, filled, Append(current, l))
        /\ Append(current, l) \in Seq(Lines)
        /\ Every(d, stdio, toWrite, filled, Append(current, l)) = v \cup {l}
        /\ Chained(r, d, stdio, toWrite, Append(filled, current), <<l>>)
        /\ Append(filled, current) \in Bufs
        /\ Every(d, stdio, toWrite, Append(filled, current), <<l>>) = v \cup {l}
    <2>1. Under(r, Every(d, stdio, toWrite, filled, current), {l})
      BY <1>3, <1>6
    <2>2. /\ Chained(r, d, stdio, toWrite, filled, Append(current, l))
          /\ Append(current, l) \in Seq(Lines)
          /\ Every(d, stdio, toWrite, filled, Append(current, l))
               = Every(d, stdio, toWrite, filled, current) \cup {l}
          /\ Chained(r, d, stdio, toWrite, Append(filled, current), <<l>>)
          /\ Append(filled, current) \in Bufs
          /\ Every(d, stdio, toWrite, Append(filled, current), <<l>>)
               = Every(d, stdio, toWrite, filled, current) \cup {l}
      BY <1>4, <1>5, <2>1, ChainLine
    <2> QED BY <1>3, <2>2, Zenon
  <1>8. /\ Chained(r, d, stdio, toWrite, filled', current') /\ current' \in Seq(Lines)
        /\ filled' \in Bufs /\ Every(d, stdio, toWrite, filled', current') = v \cup {l}
    BY <1>2, <1>4, <1>7, FewLines DEF Streams
  <1>9. LineInv'
    <2>1. v \cup {l} = Has(appended)' \ dropped /\ dropped \subseteq Has(appended)'
      BY <1>2, <1>4 DEF LogInv, LineInv
    <2> QED BY <1>1, <1>3, <1>8, <2>1 DEF LineInv
  <1>10. LogTypes'
    <2>1. Streams(d, stdio, toWrite, filled', current')
      BY <1>4, <1>8 DEF Streams
    <2> QED BY <1>1, <1>2, <1>3, <2>1 DEF LogInv, LogTypes
  <1>11. RefillInv'
    <2>1. Append(filled, current) # <<>>
      BY <1>4, RowsLonger DEF Streams
    <2> QED BY <1>1, <1>2, <2>1 DEF LogInv, RefillInv
  <1> QED BY <1>2, <1>9, <1>10, <1>11 DEF LogInv

\* What is left of a step once its lines are in order.
LEMMA StepOf ==
  ASSUME LogInv, LogTypes', RefillInv', UNCHANGED appended,
         Chained(Prec, Texts(disk'), stdio', toWrite', filled', current'),
         Every(Texts(disk'), stdio', toWrite', filled', current') = Has(appended) \ dropped',
         dropped' \subseteq Has(appended)
  PROVE  LogInv'
  <1>1. NumberedInv' /\ Prec' = Prec
    BY DEF LogInv, NumberedInv, Prec, Lo!Before
  <1> QED BY <1>1 DEF LogInv, LineInv

\* The logging thread takes the filled buffers and the current one.
LEMMA CollectStep ==
  ASSUME LogInv, Lo!Collect
  PROVE  LogInv'
  <1>1. /\ toWrite' = Append(filled, current) /\ filled' = <<>> /\ current' = <<>> /\ ~ new1'
        /\ IF spare THEN UNCHANGED <<spare, new2>> ELSE spare' = TRUE /\ new2' = FALSE
        /\ UNCHANGED <<stdio, disk, logTime, refilled, appended, dropped>>
        /\ logPc \in {"loop", "wait"} /\ logPc' = "write" /\ new1' = FALSE
    BY DEF Lo!Collect, Lo!Swapped, Lo!fileVars
  <1>2. toWrite = <<>> /\ Streams(Texts(disk), stdio, toWrite, filled, current)
    BY <1>1 DEF LogInv, LogTypes, RefillInv
  <1>3. /\ Append(filled, current) \in Bufs
        /\ Chained(Prec, Texts(disk), stdio, Append(filled, current), <<>>, <<>>)
        /\ Every(Texts(disk), stdio, Append(filled, current), <<>>, <<>>)
             = Every(Texts(disk), stdio, toWrite, filled, current)
    BY <1>2, ChainCollect DEF LogInv, LineInv
  <1>4. LogTypes'
    <2>1. Streams(Texts(disk'), stdio', toWrite', filled', current')
      BY <1>1, <1>2, <1>3, NoRow, FewLines DEF Streams
    <2> QED BY <1>1, <2>1 DEF LogInv, LogTypes
  <1>5. RefillInv'
    <2>1. PICK n \in Nat : n = Len(filled) /\ Len(Append(filled, current)) = n + 1
      BY <1>2 DEF Streams, Bufs
    <2>2. filled # <<>> => n >= 1
      BY <1>2, <2>1 DEF Streams, Bufs
    <2>3. Append(filled, current) # <<>>
      BY <1>2, RowsLonger DEF Streams
    <2>4. ~ new2' => Len(toWrite') >= 2
      BY <1>1, <2>1, <2>2 DEF LogInv, RefillInv
    <2> QED BY <1>1, <2>3, <2>4 DEF LogInv, RefillInv
  <1> QED BY <1>1, <1>3, <1>4, <1>5, StepOf DEF LogInv, LineInv

\* It drops what is too much.
LEMMA DropStep ==
  ASSUME LogInv, Lo!Drop
  PROVE  LogInv'
  <1>1. /\ toWrite' = SubSeq(toWrite, 1, 2)
        /\ dropped' = dropped \cup Lo!LinesOf(SubSeq(toWrite, 2 + 1, Len(toWrite)))
        /\ logPc = "write" /\ Len(toWrite) > DropLimit /\ logPc' = "append"
        /\ UNCHANGED <<current, spare, filled, appended, new1, new2, stdio, disk, logTime, refilled>>
    BY DEF Lo!Drop, Lo!Kept, Lo!frontVars, Lo!fileVars
  <1>2. Streams(Texts(disk), stdio, toWrite, filled, current) /\ 2 \in 0 .. Len(toWrite)
    <2>1. Streams(Texts(disk), stdio, toWrite, filled, current)
      BY DEF LogInv, LogTypes
    <2>2. Len(toWrite) \in Nat
      BY <2>1 DEF Streams, Bufs
    <2> QED BY <1>1, <2>1, <2>2, LogSettings
  <1>3. \A x : <<x, x>> \notin Prec
    BY DEF LogInv, NumberedInv, Prec, Lo!Before
  <1>4. PICK k, q, v :
          /\ k = SubSeq(toWrite, 1, 2) /\ k \in Bufs
          /\ q = Lo!LinesOf(SubSeq(toWrite, 2 + 1, Len(toWrite)))
          /\ v = Every(Texts(disk), stdio, toWrite, filled, current)
          /\ Chained(Prec, Texts(disk), stdio, k, filled, current)
          /\ Every(Texts(disk), stdio, k, filled, current) = v \ q /\ q \subseteq v
    BY <1>2, <1>3, ChainDrop DEF LogInv, LineInv
  <1>5. LogTypes'
    <2>1. Streams(Texts(disk'), stdio', toWrite', filled', current')
      BY <1>1, <1>2, <1>4 DEF Streams
    <2> QED BY <1>1, <2>1 DEF LogInv, LogTypes
  <1>6. RefillInv'
    <2>1. Len(SubSeq(toWrite, 1, 2)) = 2 /\ SubSeq(toWrite, 1, 2) # <<>>
      BY <1>2 DEF Streams, Bufs
    <2> QED BY <1>1, <2>1 DEF LogInv, RefillInv
  <1>7. v \ q = Has(appended) \ dropped' /\ dropped' \subseteq Has(appended)
    BY <1>1, <1>4 DEF LogInv, LineInv
  <1> QED BY <1>1, <1>4, <1>5, <1>6, <1>7, StepOf

\* The lines to be written when a buffer is taken.
LEMMA WriteTakes ==
  ASSUME LogInv, toWrite # <<>>
  PROVE  \E s \in Seq(Lines), t \in Bufs :
           /\ s = stdio \o Head(toWrite) /\ t = Append(Tail(toWrite), <<>>)
           /\ Len(t) = Len(toWrite) /\ t # <<>>
           /\ Streams(Texts(disk), s, t, filled, current)
           /\ Chained(Prec, Texts(disk), s, t, filled, current)
           /\ Every(Texts(disk), s, t, filled, current) = Has(appended) \ dropped
  <1>1. Streams(Texts(disk), stdio, toWrite, filled, current)
    BY DEF LogInv, LogTypes
  <1>2. PICK s \in Seq(Lines), t \in Bufs :
          /\ s = stdio \o Head(toWrite) /\ t = Append(Tail(toWrite), <<>>)
          /\ Chained(Prec, Texts(disk), s, t, filled, current)
          /\ Every(Texts(disk), s, t, filled, current)
               = Every(Texts(disk), stdio, toWrite, filled, current)
    <2>1. Chained(Prec, Texts(disk), stdio, toWrite, filled, current)
      BY DEF LogInv, LineInv
    <2>2. LET s2 == stdio \o Head(toWrite)
              t2 == Append(Tail(toWrite), <<>>)
          IN /\ s2 \in Seq(Lines) /\ t2 \in Bufs
             /\ Chained(Prec, Texts(disk), s2, t2, filled, current)
             /\ Every(Texts(disk), s2, t2, filled, current)
                  = Every(Texts(disk), stdio, toWrite, filled, current)
      BY <1>1, <2>1, ChainTake
    <2> QED BY <2>2, Zenon
  <1>3. Len(t) = Len(toWrite) /\ t # <<>>
    <2>1. Tail(toWrite) \in Seq(Seq(Lines)) /\ Len(Tail(toWrite)) = Len(toWrite) - 1 /\ Len(toWrite) \in Nat
      BY <1>1 DEF Streams, Bufs
    <2>2. /\ Len(Append(Tail(toWrite), <<>>)) = Len(Tail(toWrite)) + 1
          /\ Append(Tail(toWrite), <<>>) # <<>>
      BY <2>1, RowsLonger, FewLines DEF Bufs
    <2> QED BY <1>2, <2>1, <2>2
  <1>4. Streams(Texts(disk), s, t, filled, current)
    BY <1>1 DEF Streams
  <1> QED BY <1>2, <1>3, <1>4 DEF LogInv, LineInv

\* What a written file looks like when the disk takes n lines.
LEMMA DiskGrows ==
  ASSUME LogInv, logPc # "new", NEW s \in Seq(Lines), NEW t, NEW n \in 0 .. Len(s),
         Streams(Texts(disk), s, t, filled, current),
         Chained(Prec, Texts(disk), s, t, filled, current),
         Every(Texts(disk), s, t, filled, current) = Has(appended) \ dropped, Lo!DiskTakes(s, n)
  PROVE  \E e \in Seq(Files) :
           /\ e = Lo!Flushed(SubSeq(s, 1, n)) /\ e # <<>>
           /\ Streams(Texts(e), <<>>, t, filled, current)
           /\ Chained(Prec, Texts(e), <<>>, t, filled, current)
           /\ Every(Texts(e), <<>>, t, filled, current) = Has(appended) \ dropped'
           /\ dropped' \subseteq Has(appended)
  <1>1. disk \in Seq(Files) /\ disk # <<>>
    BY DEF LogInv, LogTypes
  <1>2. \A x : <<x, x>> \notin Prec
    BY DEF LogInv, NumberedInv, Prec, Lo!Before
  <1>3. PICK k, q :
          /\ k \in Seq(Lines) /\ k = SubSeq(s, 1, n) /\ q = Lo!LinesOf(<<SubSeq(s, n + 1, Len(s))>>)
          /\ Chained(Prec, Texts(disk), k, t, filled, current)
          /\ Every(Texts(disk), k, t, filled, current)
               = Every(Texts(disk), s, t, filled, current) \ q
          /\ q \subseteq Every(Texts(disk), s, t, filled, current)
    BY <1>2, ChainCut
  <1>4. PICK e \in Seq(Files) : e = Lo!Flushed(k) /\ Texts(e) = Grown(Texts(disk), k) /\ e # <<>>
    BY <1>1, <1>3, TextsGrow DEF Lo!Flushed
  <1>5. Texts(disk) # <<>> /\ Streams(Texts(disk), k, t, filled, current)
    BY <1>1, <1>3, TextsAre DEF Streams
  <1>6. /\ Chained(Prec, Texts(e), <<>>, t, filled, current)
        /\ Every(Texts(e), <<>>, t, filled, current) = Every(Texts(disk), k, t, filled, current)
    BY <1>3, <1>4, <1>5, ChainFlush
  <1>7. Streams(Texts(e), <<>>, t, filled, current)
    BY <1>4, TextsAre, FewLines DEF Streams
  <1>8. dropped' = dropped \cup q
    BY <1>3 DEF Lo!DiskTakes
  <1>9. /\ Every(Texts(e), <<>>, t, filled, current) = Has(appended) \ dropped'
        /\ dropped' \subseteq Has(appended)
    <2>1. dropped \subseteq Has(appended)
      BY DEF LogInv, LineInv
    <2> QED BY <1>3, <1>6, <1>8, <2>1
  <1> QED BY <1>3, <1>4, <1>6, <1>7, <1>9

\* It writes a buffer to the file.
LEMMA WriteOutStep ==
  ASSUME LogInv, NEW newPeriod \in BOOLEAN, NEW pass \in BOOLEAN, Lo!WriteBuffer(newPeriod, pass)
  PROVE  LogInv'
  <1>1. /\ logPc = "append" /\ toWrite' = Append(Tail(toWrite), <<>>)
        /\ UNCHANGED <<current, spare, filled, appended, logPc, new1, new2, logTime, refilled>>
    BY DEF Lo!WriteBuffer, Lo!frontVars
  <1>2. toWrite # <<>>
    BY <1>1 DEF LogInv, RefillInv
  <1>3. PICK s \in Seq(Lines), t \in Bufs :
          /\ s = stdio \o Head(toWrite) /\ t = Append(Tail(toWrite), <<>>)
          /\ Len(t) = Len(toWrite) /\ t # <<>>
          /\ Streams(Texts(disk), s, t, filled, current)
          /\ Chained(Prec, Texts(disk), s, t, filled, current)
          /\ Every(Texts(disk), s, t, filled, current) = Has(appended) \ dropped
    BY <1>2, WriteTakes
  <1>4. PICK n \in 0 .. Len(s) :
          \/ disk' = disk /\ stdio' = s /\ dropped' = dropped
          \/ /\ Lo!DiskTakes(s, n)
             /\ \/ disk' = Lo!Flushed(SubSeq(s, 1, n)) \o <<[name |-> logTime, lines |-> <<>>]>>
                \/ disk' = Lo!Flushed(SubSeq(s, 1, n)) \o <<>>
    BY <1>3, Zenon DEF Lo!WriteBuffer
  <1>5. disk # <<>> /\ disk \in Seq(Files)
    BY <1>1 DEF LogInv, LogTypes
  <1>6. /\ disk' \in Seq(Files) /\ disk' # <<>> /\ dropped' \subseteq Has(appended)
        /\ Streams(Texts(disk'), stdio', t, filled, current)
        /\ Chained(Prec, Texts(disk'), stdio', t, filled, current)
        /\ Every(Texts(disk'), stdio', t, filled, current) = Has(appended) \ dropped'
    <2>1. CASE disk' = disk /\ stdio' = s /\ dropped' = dropped
      BY <1>3, <1>5, <2>1 DEF LogInv, LineInv
    <2>2. CASE Lo!DiskTakes(s, n)
      <3>1. PICK e \in Seq(Files) :
              /\ e = Lo!Flushed(SubSeq(s, 1, n)) /\ e # <<>>
              /\ Streams(Texts(e), <<>>, t, filled, current)
              /\ Chained(Prec, Texts(e), <<>>, t, filled, current)
              /\ Every(Texts(e), <<>>, t, filled, current) = Has(appended) \ dropped'
              /\ dropped' \subseteq Has(appended)
        BY <1>1, <1>3, <2>2, DiskGrows
      <3>2. stdio' = <<>>
        BY <2>2 DEF Lo!DiskTakes
      <3>3. CASE disk' = Lo!Flushed(SubSeq(s, 1, n)) \o <<[name |-> logTime, lines |-> <<>>]>>
        <4>1. disk' = Append(e, [name |-> logTime, lines |-> <<>>])
          BY <3>1, <3>3
        <4>2. /\ disk' \in Seq(Files) /\ disk' # <<>> /\ Texts(disk') = Append(Texts(e), <<>>)
          BY <4>1, TextsOpen DEF LogInv, LogTypes
        <4>3. /\ Append(Texts(e), <<>>) \in Bufs
              /\ Chained(Prec, Append(Texts(e), <<>>), <<>>, t, filled, current)
              /\ Every(Append(Texts(e), <<>>), <<>>, t, filled, current) = Has(appended) \ dropped'
          BY <3>1, ChainOpen
        <4>4. Streams(Texts(disk'), <<>>, t, filled, current)
          BY <3>1, <4>2, <4>3 DEF Streams
        <4> QED BY <3>1, <3>2, <4>2, <4>3, <4>4
      <3>4. CASE disk' = Lo!Flushed(SubSeq(s, 1, n)) \o <<>>
        <4>1. disk' = e
          BY <3>1, <3>4
        <4> QED BY <3>1, <3>2, <4>1
      <3>5. \/ disk' = Lo!Flushed(SubSeq(s, 1, n)) \o <<[name |-> logTime, lines |-> <<>>]>>
            \/ disk' = Lo!Flushed(SubSeq(s, 1, n)) \o <<>>
            \/ disk' = disk /\ stdio' = s /\ dropped' = dropped
        BY <1>4
      <3> QED BY <2>1, <3>3, <3>4, <3>5
    <2> QED BY <1>4, <2>1, <2>2
  <1>7. toWrite' = t /\ filled' = filled /\ current' = current
    BY <1>1, <1>3
  <1>8. LogTypes'
    BY <1>1, <1>6, <1>7 DEF LogInv, LogTypes
  <1>9. RefillInv'
    BY <1>1, <1>3 DEF LogInv, RefillInv
  <1> QED BY <1>1, <1>6, <1>7, <1>8, <1>9, StepOf

\* stdio is flushed, at the end of a round and of the thread.
LEMMA FlushStep ==
  ASSUME LogInv, Lo!Refill \/ Lo!Exit
  PROVE  LogInv'
  <1>1. /\ Lo!EndOfRound /\ logPc # "new" /\ logPc' # "new"
        /\ logPc' \in {"loop", "ended"}
        /\ UNCHANGED <<current, spare, filled, appended, logTime>>
    BY DEF Lo!Refill, Lo!Exit, Lo!frontVars
  <1>2. toWrite' = <<>> /\ \A i \in 1 .. Len(toWrite) : toWrite[i] = <<>>
    <2>1. CASE Lo!Refill
      BY <2>1 DEF Lo!Refill
    <2>2. CASE Lo!Exit
      <3>1. toWrite = <<>> /\ toWrite' = toWrite
        BY <2>2 DEF LogInv, RefillInv, Lo!Exit
      <3> QED BY <3>1
    <2> QED BY <2>1, <2>2
  <1>3. /\ Streams(Texts(disk), stdio, toWrite, filled, current)
        /\ Chained(Prec, Texts(disk), stdio, toWrite, filled, current)
        /\ Every(Texts(disk), stdio, toWrite, filled, current) = Has(appended) \ dropped
    BY DEF LogInv, LogTypes, LineInv
  <1>4. PICK e \in Seq(Files) :
          /\ e = disk' /\ e # <<>> /\ stdio' = <<>>
          /\ Streams(Texts(e), <<>>, toWrite, filled, current)
          /\ Chained(Prec, Texts(e), <<>>, toWrite, filled, current)
          /\ Every(Texts(e), <<>>, toWrite, filled, current) = Has(appended) \ dropped'
          /\ dropped' \subseteq Has(appended)
    <2>1. stdio \in Seq(Lines)
      BY <1>3 DEF Streams
    <2>2. PICK n \in 0 .. Len(stdio) :
            Lo!DiskTakes(stdio, n) /\ disk' = Lo!Flushed(SubSeq(stdio, 1, n))
      BY <1>1 DEF Lo!EndOfRound
    <2>3. stdio' = <<>>
      BY <2>2 DEF Lo!DiskTakes
    <2> QED BY <1>1, <1>3, <2>1, <2>2, <2>3, DiskGrows
  <1>5. /\ Chained(Prec, Texts(e), <<>>, <<>>, filled, current)
        /\ Every(Texts(e), <<>>, <<>>, filled, current) = Has(appended) \ dropped'
    BY <1>2, <1>4, ChainRefill
  <1>6. Streams(Texts(e), <<>>, <<>>, filled, current)
    BY <1>4, NoRow DEF Streams
  <1>7. RefillInv' /\ new1' \in BOOLEAN /\ new2' \in BOOLEAN
    <2>1. CASE Lo!Exit
      BY <2>1 DEF LogInv, RefillInv, LogTypes, Lo!Exit, Lo!frontVars
    <2>2. CASE Lo!Refill
      <3>1. logPc = "append" /\ refilled' = (refilled /\ Lo!Missing <= Lo!Left) /\ new1' = TRUE /\ new2' = TRUE
        BY <2>2 DEF Lo!Refill
      <3>2. Len(toWrite) \in Nat /\ Len(toWrite) >= 1 /\ (~ new2 => Len(toWrite) >= 2)
        <4>1. toWrite # <<>> /\ (~ new2 => Len(toWrite) >= 2)
          BY <3>1 DEF LogInv, RefillInv
        <4> QED BY <1>3, <4>1 DEF Streams, Bufs
      <3>3. Lo!Missing <= Lo!Left
        BY <3>2 DEF Lo!Missing, Lo!Left
      <3> QED BY <1>1, <1>2, <3>1, <3>3 DEF LogInv, RefillInv
    <2> QED BY <2>1, <2>2
  <1>8. LogTypes'
    BY <1>1, <1>2, <1>4, <1>6, <1>7 DEF LogInv, LogTypes
  <1>9. /\ Chained(Prec, Texts(disk'), stdio', toWrite', filled', current')
        /\ Every(Texts(disk'), stdio', toWrite', filled', current') = Has(appended) \ dropped'
    BY <1>1, <1>2, <1>4, <1>5
  <1> QED BY <1>1, <1>4, <1>7, <1>8, <1>9, StepOf

\* The first file is opened.
LEMMA StartStep ==
  ASSUME LogInv, Lo!Start
  PROVE  LogInv'
  <1>1. /\ logPc = "new" /\ logPc' = "loop" /\ disk' = <<[name |-> logTime, lines |-> <<>>]>>
        /\ UNCHANGED <<current, spare, filled, new1, new2, toWrite, stdio, logTime, refilled, appended,
                       dropped>>
    BY DEF Lo!Start
  <1>2. disk = <<>> /\ disk \in Seq(Files) /\ logTime \in Nat
    BY <1>1 DEF LogInv, LogTypes
  <1>3. disk' = Append(disk, [name |-> logTime, lines |-> <<>>])
    BY <1>1, <1>2
  <1>4. disk' \in Seq(Files) /\ Texts(disk') = Append(Texts(disk), <<>>) /\ disk' # <<>>
    BY <1>2, <1>3, TextsOpen
  <1>5. /\ Streams(Texts(disk), stdio, toWrite, filled, current)
        /\ Chained(Prec, Texts(disk), stdio, toWrite, filled, current)
    BY DEF LogInv, LogTypes, LineInv
  <1>6. /\ Append(Texts(disk), <<>>) \in Bufs
        /\ Chained(Prec, Append(Texts(disk), <<>>), stdio, toWrite, filled, current)
        /\ Every(Append(Texts(disk), <<>>), stdio, toWrite, filled, current)
             = Every(Texts(disk), stdio, toWrite, filled, current)
    BY <1>5, ChainOpen
  <1>7. LogTypes'
    <2>1. Streams(Texts(disk'), stdio', toWrite', filled', current')
      BY <1>1, <1>4, <1>5, <1>6 DEF Streams
    <2> QED BY <1>1, <1>4, <2>1 DEF LogInv, LogTypes
  <1>8. RefillInv'
    BY <1>1 DEF LogInv, RefillInv
  <1> QED BY <1>1, <1>4, <1>6, <1>7, <1>8, StepOf DEF LogInv, LineInv

\* Steps that move no line.
LEMMA StillStep ==
  ASSUME LogInv, Lo!Stop \/ Lo!Tick \/ Lo!Wait \/ Lo!NoDrop \/ UNCHANGED logVars
  PROVE  LogInv'
  <1>1. UNCHANGED <<current, spare, filled, new1, new2, toWrite, stdio, disk, refilled, appended, dropped>>
    BY DEF Lo!Stop, Lo!Tick, Lo!Wait, Lo!NoDrop, logVars, Lo!frontVars, Lo!fileVars
  <1>2. logTime' \in Nat
    BY DEF Lo!Stop, Lo!Tick, Lo!Wait, Lo!NoDrop, logVars, LogInv, LogTypes
  <1>3. \/ logPc' = logPc
        \/ logPc = "loop" /\ logPc' = "wait"
        \/ logPc = "write" /\ logPc' = "append"
    BY DEF Lo!Stop, Lo!Tick, Lo!Wait, Lo!NoDrop, logVars
  <1>4. LogTypes'
    BY <1>1, <1>2, <1>3 DEF LogInv, LogTypes
  <1>5. RefillInv'
    BY <1>1, <1>3 DEF LogInv, RefillInv
  <1> QED BY <1>1, <1>4, <1>5, StepOf DEF LogInv, LineInv

\* Every step keeps the invariant.
LEMMA LogStep == LogInv /\ [Lo!Next]_logVars => LogInv'
  BY AppendStep, CollectStep, DropStep, WriteOutStep, FlushStep, StartStep, StillStep
     DEF Lo!Next, Lo!LoggingThread

\* It holds at the start.
LEMMA LogInit == Lo!Init => LogInv
  <1> SUFFICES ASSUME Lo!Init PROVE LogInv
    OBVIOUS
  <1>1. /\ disk = <<>> /\ stdio = <<>> /\ toWrite = <<>> /\ filled = <<>> /\ current = <<>>
        /\ appended = <<>> /\ dropped = {} /\ logPc = "new" /\ spare = TRUE /\ new1 = TRUE /\ new2 = TRUE
        /\ refilled = TRUE /\ logTime = 1
    BY DEF Lo!Init
  <1>2. disk \in Seq(Files) /\ Texts(disk) = <<>>
    <2>1. <<>> \in Seq(Files)
      OBVIOUS
    <2> QED BY <1>1, <2>1, TextsAre
  <1>3. LogTypes
    BY <1>1, <1>2, NoRow, FewLines DEF LogTypes, Streams
  <1>4. NumberedInv
    BY <1>1 DEF NumberedInv
  <1>5. LineInv
    BY <1>1, <1>2, NoRow, FewLines DEF LineInv, Chained, Every, Under
  <1>6. RefillInv
    BY <1>1 DEF RefillInv
  <1> QED BY <1>3, <1>4, <1>5, <1>6 DEF LogInv

\* It implies the property the runs check.
LEMMA LogInvSound == LogInv => Lo!LogSound
  <1> SUFFICES ASSUME LogInv PROVE Lo!LogSound
    OBVIOUS
  <1>1. PICK d \in Bufs, s \in Bufs, t \in Bufs, f \in Bufs, c \in Bufs :
          /\ d = Texts(disk) /\ s = <<stdio>> /\ t = toWrite /\ f = filled /\ c = <<current>>
          /\ Lo!LinesOf(s) = Has(stdio) /\ Lo!LinesOf(c) = Has(current)
          /\ Rows(Prec, s) /\ Rows(Prec, c)
    <2>1. stdio \in Seq(Lines) /\ current \in Seq(Lines) /\ Rising(Prec, stdio) /\ Rising(Prec, current)
      BY DEF LogInv, LogTypes, LineInv, Streams, Chained
    <2> QED BY <2>1, RowOfOne DEF LogInv, LogTypes, Streams
  <1>2. PICK r, D, S, T, F, C : /\ r = Prec /\ D = Lo!LinesOf(d) /\ S = Lo!LinesOf(s)
                                /\ T = Lo!LinesOf(t) /\ F = Lo!LinesOf(f) /\ C = Lo!LinesOf(c)
    OBVIOUS
  <1>3. /\ Rows(r, d) /\ Rows(r, t) /\ Rows(r, f) /\ Rows(r, s) /\ Rows(r, c)
        /\ Under(r, D, S) /\ Under(r, D \cup S, T) /\ Under(r, D \cup S \cup T, F)
        /\ Under(r, D \cup S \cup T \cup F, C)
    BY <1>1, <1>2 DEF LogInv, LineInv, Chained, Under
  <1>4. PICK a1 \in Bufs : a1 = d \o s /\ Lo!LinesOf(a1) = D \cup S /\ Rows(r, a1)
    <2>1. d \o s \in Bufs /\ Lo!LinesOf(d \o s) = D \cup S /\ Rows(r, d \o s)
      BY <1>2, <1>3, RowsJoined
    <2> QED BY <2>1
  <1>5. PICK a2 \in Bufs : a2 = a1 \o t /\ Lo!LinesOf(a2) = D \cup S \cup T /\ Rows(r, a2)
    <2>1. a1 \o t \in Bufs /\ Lo!LinesOf(a1 \o t) = D \cup S \cup T /\ Rows(r, a1 \o t)
      BY <1>2, <1>3, <1>4, RowsJoined
    <2> QED BY <2>1
  <1>6. PICK a3 \in Bufs : a3 = a2 \o f /\ Lo!LinesOf(a3) = D \cup S \cup T \cup F /\ Rows(r, a3)
    <2>1. a2 \o f \in Bufs /\ Lo!LinesOf(a2 \o f) = D \cup S \cup T \cup F /\ Rows(r, a2 \o f)
      BY <1>2, <1>3, <1>5, RowsJoined
    <2> QED BY <2>1
  <1>7. PICK a4 \in Bufs : a4 = a3 \o c /\ Lo!LinesOf(a4) = D \cup S \cup T \cup F \cup C /\ Rows(r, a4)
    <2>1. a3 \o c \in Bufs /\ Lo!LinesOf(a3 \o c) = D \cup S \cup T \cup F \cup C /\ Rows(r, a3 \o c)
      BY <1>2, <1>3, <1>6, RowsJoined, ZenonT(40)
    <2> QED BY <2>1
  <1>8. Lo!Chain = a4
    BY <1>1, <1>4, <1>5, <1>6, <1>7 DEF Lo!Chain, Lo!OnDisk, Texts
  <1>9. Lo!InOrder(a4)
    <2> SUFFICES ASSUME NEW i \in 1 .. Len(a4), NEW j \in 1 .. Len(a4),
                        NEW k \in 1 .. Len(a4[i]), NEW m \in 1 .. Len(a4[j]),
                        i < j \/ (i = j /\ k < m)
                 PROVE  Lo!Before(a4[i][k], a4[j][m])
      BY DEF Lo!InOrder
    <2>1. <<a4[i][k], a4[j][m]>> \in r
      <3>1. CASE i < j
        <4>1. a4[i][k] \in Has(a4[i]) /\ a4[j][m] \in Has(a4[j])
          BY DEF Has
        <4> QED BY <1>7, <3>1, <4>1 DEF Rows, Under
      <3>2. CASE i = j /\ k < m
        BY <1>7, <3>2 DEF Rows, Rising
      <3> QED BY <3>1, <3>2
    <2> QED BY <1>2, <2>1 DEF Prec
  <1>10. Lo!LinesOf(a4) = Lo!Range(appended) \ dropped
    <2>1. Lo!LinesOf(a4) = Has(appended) \ dropped
      BY <1>1, <1>2, <1>7 DEF LogInv, LineInv, Every
    <2>2. appended \in Seq(Lines)
      BY DEF LogInv, LogTypes
    <2>3. Lo!Range(appended) = Has(appended)
      BY <2>2 DEF Lo!Range, Has
    <2> QED BY <2>1, <2>3
  <1> QED BY <1>8, <1>9, <1>10
          DEF Lo!LogSound, Lo!LinesAccounted, Lo!BuffersComeBack, LogInv, RefillInv

\* While the log runs, its steps are those of AsyncLog.
LEMMA LogRuns ==
  [Next]_allVars /\ part = "log" => part' = part /\ [Lo!Next]_logVars
  BY DEF Next, Steps, allVars

\* AsyncLogging and LogFile hold together for any number of logging threads and lines, any
\* size of buffers and any limit: what the files and the buffers hold, in the order of the
\* disk, is every line appended but those dropped under overload and those the disk refused,
\* each once and each thread's in the order it wrote them, and the logging thread gives back
\* the buffers it took.
THEOREM LogStands == Spec => []LogSound
  <1> DEFINE Inv == part = "log" => LogInv
  <1>1. Init => Inv
    BY LogInit DEF Init
  <1>2. Inv /\ [Next]_allVars => Inv'
    <2> SUFFICES ASSUME Inv, [Next]_allVars, part' = "log" PROVE LogInv'
      OBVIOUS
    <2>1. part = "log" /\ [Lo!Next]_logVars
      BY LogRuns DEF Next, Steps, allVars
    <2> QED BY <2>1, LogStep
  <1>3. Inv => LogSound
    BY LogInvSound DEF LogSound
  <1> QED BY <1>1, <1>2, <1>3, PTL DEF Spec

-----------------------------------------------------------------------------
(* Dates: years that begin in March *)

\* The days of such a year before its month k, the length of that month, and its date.
DaysTo(k) == (153 * k + 2) \div 5
Length(Y, k) ==
  IF k \in {1, 3, 6, 8} THEN 30 ELSE IF k # 11 THEN 31 ELSE IF Ca!Leap(Y + 1) THEN 29 ELSE 28
Civil(Y, k, d) == Ca!Date(Y - 4800 + k \div 10, k + 3 - 12 * (k \div 10), d)

\* The Julian day number of day d of month k.
Number(Y, k, d) == d + DaysTo(k) + Y * 365 + Ca!LeapDays(Y) - 32045

\* Day d of month k of year Y exists.
Exists(Y, k, d) == Y \in Nat /\ k \in 0 .. 11 /\ d \in 1 .. 31 /\ d <= Length(Y, k)

\* Months, one by one.
LEMMA DaysToIs ==
  /\ DaysTo(0) = 0 /\ DaysTo(1) = 31 /\ DaysTo(2) = 61 /\ DaysTo(3) = 92 /\ DaysTo(4) = 122
  /\ DaysTo(5) = 153 /\ DaysTo(6) = 184 /\ DaysTo(7) = 214 /\ DaysTo(8) = 245 /\ DaysTo(9) = 275
  /\ DaysTo(10) = 306 /\ DaysTo(11) = 337
  BY DEF DaysTo

\* A date of the calendar is a day of such a year.
LEMMA DateExists ==
  ASSUME NEW c \in [year : Nat, month : 1 .. 12, day : 1 .. 31],
         c.day <= Ca!DaysIn(c.year, c.month)
  PROVE  \E Y \in Nat, k \in 0 .. 11, d \in 1 .. 31 : Exists(Y, k, d) /\ c = Civil(Y, k, d)
  <1>1. PICK y \in Nat, m \in 1 .. 12, d \in 1 .. 31 :
          /\ y = c.year /\ m = c.month /\ d = c.day /\ c = Ca!Date(y, m, d) /\ d <= Ca!DaysIn(y, m)
    BY DEF Ca!Date
  <1>2. CASE m <= 2
    <2>1. PICK Y \in Nat, k \in 10 .. 11 : Y = y + 4799 /\ k = m + 9
      BY <1>2
    <2>2. k \div 10 = 1
      OBVIOUS
    <2>3. Y - 4800 + 1 = y /\ k + 3 - 12 * 1 = m
      BY <2>1
    <2>4. c = Civil(Y, k, d)
      BY <1>1, <2>2, <2>3 DEF Civil
    <2>5. Ca!Leap(Y + 1) = Ca!Leap(y)
      BY <2>1 DEF Ca!Leap
    <2>6. Ca!DaysIn(y, m) = Length(Y, k)
      BY <1>2, <2>1, <2>5 DEF Length, Ca!DaysIn
    <2> QED BY <1>1, <2>4, <2>6 DEF Exists
  <1>3. CASE m > 2
    <2>1. PICK Y \in Nat, k \in 0 .. 9 : Y = y + 4800 /\ k = m - 3
      BY <1>3
    <2>2. k \div 10 = 0
      OBVIOUS
    <2>3. Y - 4800 + 0 = y /\ k + 3 - 12 * 0 = m
      BY <2>1
    <2>4. c = Civil(Y, k, d)
      BY <1>1, <2>2, <2>3 DEF Civil
    <2>6. Ca!DaysIn(y, m) = Length(Y, k)
      BY <1>3, <2>1 DEF Length, Ca!DaysIn
    <2> QED BY <1>1, <2>4, <2>6, SMTT(30) DEF Exists
  <1> QED BY <1>2, <1>3

\* getJulianDayNumber has its number.
LEMMA NumberIs ==
  ASSUME NEW Y \in Nat, NEW k \in 0 .. 11, NEW d \in 1 .. 31
  PROVE  Ca!GetJulianDayNumber(Civil(Y, k, d)) = Number(Y, k, d) /\ Number(Y, k, d) \in Int
  <1>1. Number(Y, k, d) \in Int
    BY DEF Number, DaysTo, Ca!LeapDays
  <1>2. PICK h \in 0 .. 1 : h = k \div 10
    OBVIOUS
  <1>3. PICK y \in Int, m \in 1 .. 12 : y = Y - 4800 + h /\ m = k + 3 - 12 * h
    BY <1>2
  <1>4. Civil(Y, k, d) = [year |-> y, month |-> m, day |-> d]
    BY <1>2, <1>3 DEF Civil, Ca!Date
  <1>5. (14 - m) \div 12 = h
    BY <1>2, <1>3
  <1>6. y + 4800 - h = Y /\ m + 12 * h - 3 = k
    BY <1>3
  <1>7. Ca!GetJulianDayNumber([year |-> y, month |-> m, day |-> d]) = Number(Y, k, d)
    BY <1>5, <1>6 DEF Ca!GetJulianDayNumber, Number, DaysTo
  <1> QED BY <1>1, <1>4, <1>7

\* The leap day is the last of its year.
LEMMA LeapYear ==
  ASSUME NEW Y \in Nat
  PROVE  /\ Ca!LeapDays(Y) \in Int /\ Ca!LeapDays(Y + 1) \in Int
         /\ Ca!LeapDays(Y + 1) = Ca!LeapDays(Y) + IF Ca!Leap(Y + 1) THEN 1 ELSE 0
  BY DEF Ca!LeapDays, Ca!Leap

\* The day after exists, and has the next number.
LEMMA NextNumber ==
  ASSUME NEW Y \in Nat, NEW k \in 0 .. 11, NEW d \in 1 .. 31, Exists(Y, k, d)
  PROVE  \E Y2 \in Nat, k2 \in 0 .. 11, d2 \in 1 .. 31 :
           /\ Exists(Y2, k2, d2) /\ Ca!DayAfter(Civil(Y, k, d)) = Civil(Y2, k2, d2)
           /\ Number(Y2, k2, d2) = Number(Y, k, d) + 1
  <1>1. PICK h \in 0 .. 1 : h = k \div 10 /\ (h = 0 <=> k <= 9)
    OBVIOUS
  <1>2. PICK y \in Int, m \in 1 .. 12 : y = Y - 4800 + h /\ m = k + 3 - 12 * h
    BY <1>1
  <1>3. PICK c : c = [year |-> y, month |-> m, day |-> d] /\ c = Civil(Y, k, d)
    <2>1. Civil(Y, k, d) = [year |-> y, month |-> m, day |-> d]
      BY <1>1, <1>2 DEF Civil, Ca!Date
    <2> QED BY <2>1
  <1>4. Ca!DaysIn(y, m) = Length(Y, k)
    <2>1. k = 11 => Ca!Leap(Y + 1) = Ca!Leap(y)
      BY <1>1, <1>2 DEF Ca!Leap
    <2> QED BY <1>1, <1>2, <2>1 DEF Length, Ca!DaysIn
  <1>5. PICK L0 \in Int, L1 \in Int : /\ L0 = Ca!LeapDays(Y) /\ L1 = Ca!LeapDays(Y + 1)
                                      /\ L1 = L0 + IF Ca!Leap(Y + 1) THEN 1 ELSE 0
    BY LeapYear
  <1>6. Length(Y, k) \in 28 .. 31 /\ d <= Length(Y, k)
    BY DEF Length, Exists
  <1>7. CASE d < Length(Y, k)
    <2>1. Ca!DayAfter(c) = Ca!Date(y, m, d + 1)
      BY <1>3, <1>4, <1>7 DEF Ca!DayAfter, Ca!Date
    <2>2. Ca!Date(y, m, d + 1) = Civil(Y, k, d + 1)
      BY <1>1, <1>2 DEF Civil
    <2>3. d + 1 \in 1 .. 31 /\ d + 1 <= Length(Y, k)
      BY <1>6, <1>7
    <2>4. Number(Y, k, d + 1) = Number(Y, k, d) + 1
      BY <1>5 DEF Number, DaysTo
    <2> QED BY <1>3, <2>1, <2>2, <2>3, <2>4 DEF Exists
  <1>8. CASE d = Length(Y, k) /\ k < 11
    <2>1. PICK k2 \in 1 .. 11 : k2 = k + 1
      BY <1>8
    <2>2. Ca!DayAfter(c) = IF m < 12 THEN Ca!Date(y, m + 1, 1) ELSE Ca!Date(y + 1, 1, 1)
      BY <1>3, <1>4, <1>8 DEF Ca!DayAfter, Ca!Date
    <2>3. Ca!DayAfter(c) = Civil(Y, k2, 1)
      <3>1. CASE k = 9
        <4>1. h = 0 /\ m = 12 /\ y = Y - 4800 /\ k2 = 10
          BY <1>1, <1>2, <2>1, <3>1
        <4>2. k2 \div 10 = 1 /\ Y - 4800 + 1 = y + 1 /\ k2 + 3 - 12 * 1 = 1
          BY <4>1
        <4> QED BY <2>2, <4>1, <4>2 DEF Civil
      <3>2. CASE k # 9
        <4>1. k2 \div 10 = h /\ m < 12 /\ k2 + 3 - 12 * h = m + 1
          BY <1>1, <1>2, <1>8, <2>1, <3>2
        <4> QED BY <1>2, <2>2, <4>1 DEF Civil
      <3> QED BY <3>1, <3>2
    <2>4. 1 <= Length(Y, k2)
      BY DEF Length
    <2>5. DaysTo(k2) = DaysTo(k) + d
      BY <1>8, <2>1, DaysToIs DEF Length
    <2>6. Number(Y, k2, 1) = Number(Y, k, d) + 1
      <3>1. PICK D \in Int, D2 \in Int : D = DaysTo(k) /\ D2 = DaysTo(k2)
        BY DEF DaysTo
      <3> QED BY <1>5, <2>5, <3>1 DEF Number
    <2>7. k2 \in 0 .. 11 /\ 1 \in 1 .. 31
      OBVIOUS
    <2> QED BY <1>3, <2>3, <2>4, <2>6, <2>7 DEF Exists
  <1>9. CASE d = Length(Y, k) /\ k = 11
    <2>1. h = 1 /\ m = 2 /\ y + 4800 = Y + 1
      BY <1>1, <1>2, <1>9
    <2>2. Ca!DayAfter(c) = Ca!Date(y, 3, 1)
      BY <1>3, <1>4, <1>9, <2>1 DEF Ca!DayAfter, Ca!Date
    <2>3. 0 \div 10 = 0 /\ 0 + 3 - 12 * 0 = 3 /\ (Y + 1) - 4800 + 0 = y
      BY <2>1
    <2>4. Ca!DayAfter(c) = Civil(Y + 1, 0, 1)
      BY <2>2, <2>3 DEF Civil
    <2>5. 1 <= Length(Y + 1, 0)
      BY DEF Length
    <2>6. Number(Y + 1, 0, 1) = Number(Y, k, d) + 1
      <3>1. d = IF Ca!Leap(Y + 1) THEN 29 ELSE 28
        BY <1>9 DEF Length
      <3>2. Number(Y + 1, 0, 1) = 1 + DaysTo(0) + (Y + 1) * 365 + L1 - 32045
        BY <1>5 DEF Number
      <3>3. Number(Y, k, d) = d + DaysTo(11) + Y * 365 + L0 - 32045
        BY <1>5, <1>9 DEF Number
      <3> QED BY <1>5, <3>1, <3>2, <3>3, DaysToIs
    <2>7. Y + 1 \in Nat /\ 0 \in 0 .. 11 /\ 1 \in 1 .. 31
      OBVIOUS
    <2> QED BY <1>3, <2>4, <2>5, <2>6, <2>7 DEF Exists
  <1> QED BY <1>6, <1>7, <1>8, <1>9

-----------------------------------------------------------------------------
(* Dates: from number to date *)

\* Day x of such a year: its month and its day there.
LEMMA MonthOf ==
  ASSUME NEW Y \in Nat, NEW k \in 0 .. 11, NEW d \in 1 .. 31, Exists(Y, k, d)
  PROVE  /\ DaysTo(k) + d - 1 \in Nat /\ DaysTo(k) + d - 1 <= 365
         /\ DaysTo(k) + d - 1 = 365 => Ca!Leap(Y + 1)
         /\ (5 * (DaysTo(k) + d - 1) + 2) \div 153 = k
  <1>1. d <= IF k \in {1, 3, 6, 8} THEN 30 ELSE IF k # 11 THEN 31 ELSE IF Ca!Leap(Y + 1) THEN 29 ELSE 28
    BY DEF Exists, Length
  <1>2. /\ DaysTo(k) + d - 1 \in Nat /\ DaysTo(k) + d - 1 <= 365
        /\ DaysTo(k) + d - 1 = 365 => Ca!Leap(Y + 1)
    BY <1>1, DaysToIs
  <1>3. (5 * (DaysTo(k) + d - 1) + 2) \div 153 = k
    BY <1>1, DaysToIs
  <1> QED BY <1>2, <1>3

\* The leap days of the years before, by fours of centuries, centuries and years.
LEMMA LeapDaysAre ==
  ASSUME NEW Q \in Nat, NEW q \in 0 .. 3, NEW r \in 0 .. 99
  PROVE  Ca!LeapDays(100 * (4 * Q + q) + r) = 97 * Q + 24 * q + r \div 4
  <1>1. PICK Y \in Nat : Y = 100 * (4 * Q + q) + r
    OBVIOUS
  <1>2. Y \div 100 = 4 * Q + q /\ Y \div 400 = Q /\ Y \div 4 = 100 * Q + 25 * q + r \div 4
    BY <1>1
  <1>3. r \div 4 \in Int
    OBVIOUS
  <1>4. Ca!LeapDays(Y) = 97 * Q + 24 * q + r \div 4
    BY <1>2, <1>3 DEF Ca!LeapDays
  <1> QED BY <1>1, <1>4

\* Division by four.
LEMMA Fours ==
  ASSUME NEW a \in Nat
  PROVE  \E b \in Nat, s \in 0 .. 3 : b = a \div 4 /\ a = 4 * b + s
  <1>1. PICK b \in Int : b = a \div 4
    BY SMT
  <1>2. b >= 0 /\ 4 * b <= a /\ a < 4 * b + 4
    BY <1>1, SMT
  <1>3. a - 4 * b \in 0 .. 3 /\ a = 4 * b + (a - 4 * b)
    BY <1>2, SMT
  <1> QED BY <1>1, <1>2, <1>3, SMT

\* By a hundred.
LEMMA Hundreds ==
  ASSUME NEW a \in Nat
  PROVE  \E b \in Nat, s \in 0 .. 99 : a = 100 * b + s
  <1>1. PICK b \in Int : b = a \div 100
    BY SMT
  <1>2. b >= 0 /\ 100 * b <= a /\ a < 100 * b + 100
    BY <1>1, SMT
  <1>3. a - 100 * b \in 0 .. 99 /\ a = 100 * b + (a - 100 * b)
    BY <1>2, SMT
  <1> QED BY <1>1, <1>2, <1>3, SMT

\* By the days of four centuries.
LEMMA CenturyOf ==
  ASSUME NEW a \in Nat, NEW h \in Nat, NEW z \in Nat, z < 146097, a = 146097 * h + z
  PROVE  a \div 146097 = h
  <1>1. PICK b \in Int : b = a \div 146097
    BY SMT
  <1>2. 146097 * b <= a /\ a < 146097 * b + 146097
    BY <1>1, SMT
  <1>3. ~ b >= h + 1 /\ ~ h >= b + 1
    BY <1>2, SMT
  <1>4. b = h
    BY <1>3, SMT
  <1> QED BY <1>1, <1>4, SMT

\* getYearMonthDay undoes it.
LEMMA DateIsFound ==
  ASSUME NEW Y \in Nat, NEW k \in 0 .. 11, NEW d \in 1 .. 31, Exists(Y, k, d)
  PROVE  Ca!GetYearMonthDay(Number(Y, k, d)) = Civil(Y, k, d)
  <1>1. PICK Q \in Nat, q \in 0 .. 3, r \in 0 .. 99 : Y = 100 * (4 * Q + q) + r
    <2>1. PICK g \in Nat, r \in 0 .. 99 : Y = 100 * g + r
      BY Hundreds
    <2>2. PICK Q \in Nat, q \in 0 .. 3 : g = 4 * Q + q
      BY Fours
    <2> QED BY <2>1, <2>2
  <1>2. PICK h \in Nat : h = 4 * Q + q /\ Y = 100 * h + r
    BY <1>1
  <1>3. PICK x \in Nat : /\ x = DaysTo(k) + d - 1 /\ x <= 365
                         /\ x = 365 => Ca!Leap(Y + 1)
                         /\ (5 * x + 2) \div 153 = k
    <2>1. /\ DaysTo(k) + d - 1 \in Nat /\ DaysTo(k) + d - 1 <= 365
          /\ DaysTo(k) + d - 1 = 365 => Ca!Leap(Y + 1)
          /\ (5 * (DaysTo(k) + d - 1) + 2) \div 153 = k
      BY MonthOf
    <2> QED BY <2>1
  <1>4. PICK R \in 0 .. 24, s \in 0 .. 3 : R = r \div 4 /\ r = 4 * R + s
    <2>1. PICK R \in Nat, s \in 0 .. 3 : R = r \div 4 /\ r = 4 * R + s
      BY Fours
    <2>2. R \in 0 .. 24
      BY <2>1
    <2> QED BY <2>1, <2>2
  <1>5. x = 365 => s = 3 /\ (r = 99 => q = 3)
    <2> SUFFICES ASSUME x = 365 PROVE s = 3 /\ (r = 99 => q = 3)
      OBVIOUS
    <2>1. (Y + 1) % 4 = 0 /\ ((Y + 1) % 100 # 0 \/ (Y + 1) % 400 = 0)
      BY <1>3 DEF Ca!Leap
    <2>2. s = 3
      BY <1>1, <1>4, <2>1
    <2>3. r = 99 => q = 3
      BY <1>1, <2>1
    <2> QED BY <2>2, <2>3
  <1>6. PICK w \in Nat : w = 365 * r + R + x
    OBVIOUS
  <1>7. PICK a \in Nat : a = 146097 * Q + 36524 * q + w /\ Number(Y, k, d) + 32044 = a
    <2>1. Ca!LeapDays(Y) = 97 * Q + 24 * q + R
      BY <1>1, <1>4, LeapDaysAre
    <2>2. PICK D \in Int : D = DaysTo(k)
      BY DEF DaysTo
    <2>3. Number(Y, k, d) = d + D + Y * 365 + (97 * Q + 24 * q + R) - 32045
      BY <2>1, <2>2 DEF Number
    <2>4. Y * 365 = 146000 * Q + 36500 * q + 365 * r
      BY <1>1
    <2>5. Number(Y, k, d) + 32044 = 146097 * Q + 36524 * q + w
      BY <1>3, <1>6, <2>2, <2>3, <2>4
    <2> QED BY <2>5
  <1>8. (4 * a + 3) \div 146097 = h
    <2>1. 4 * w + 3 - q >= 0 /\ 4 * w + 3 - q <= 146096
      <3>1. CASE r <= 98
        BY <1>3, <1>6, <3>1, SMT
      <3>2. CASE r = 99 /\ x <= 364
        BY <1>3, <1>6, <3>2, SMT
      <3>3. CASE r = 99 /\ x = 365
        BY <1>3, <1>5, <1>6, <3>3, SMT
      <3> QED BY <1>3, <3>1, <3>2, <3>3, SMT
    <2>2. 4 * a + 3 = 146097 * h + (4 * w + 3 - q)
      BY <1>2, <1>7
    <2>3. PICK z \in Int : z = 4 * w + 3 - q
      OBVIOUS
    <2>4. z \in Nat /\ z < 146097 /\ 4 * a + 3 = 146097 * h + z /\ 4 * a + 3 \in Nat
      BY <2>1, <2>2, <2>3, SMT
    <2> QED BY <2>4, CenturyOf, SMT
  <1>9. a - (h * 146097) \div 4 = w
    <2>1. (h * 146097) \div 4 = 146097 * Q + 36524 * q
      BY <1>2
    <2> QED BY <1>7, <2>1
  <1>10. (4 * w + 3) \div 1461 = r
    <2>1. 4 * x + 3 - s >= 0 /\ 4 * x + 3 - s < 1461
      BY <1>3, <1>5, SMT
    <2>2. 4 * w + 3 = 1461 * r + (4 * x + 3 - s)
      BY <1>4, <1>6
    <2> QED BY <2>1, <2>2
  <1>11. w - (1461 * r) \div 4 = x
    <2>1. (1461 * r) \div 4 = 365 * r + R
      BY <1>4
    <2> QED BY <1>6, <2>1
  <1>12. Ca!DayOfYear(Y, x) = Civil(Y, k, d)
    <2>1. x - (153 * k + 2) \div 5 + 1 = d
      BY <1>3 DEF DaysTo
    <2>2. PICK m \in Int : m = (5 * x + 2) \div 153
      BY SMT
    <2>3. m = k
      BY <1>3, <2>2
    <2>4. Ca!DayOfYear(Y, x) = Ca!Date(Y - 4800 + m \div 10, m + 3 - 12 * (m \div 10),
                                       x - (153 * m + 2) \div 5 + 1)
      BY <2>2, SMT DEF Ca!DayOfYear
    <2> QED BY <2>1, <2>3, <2>4, SMT DEF Civil
  <1>13. Ca!DayOfCentury(h, w) = Ca!DayOfYear(Y, x)
    <2>1. h * 100 + r = Y
      BY <1>2
    <2> QED BY <1>10, <1>11, <2>1 DEF Ca!DayOfCentury
  <1>14. PICK n \in Int : n = Number(Y, k, d) /\ n + 32044 = a
    <2>1. Number(Y, k, d) \in Int
      BY NumberIs
    <2> QED BY <1>7, <2>1, SMT
  <1>15. Ca!GetYearMonthDay(n) = Ca!DayOfCentury(h, w)
    <2>1. (4 * (n + 32044) + 3) \div 146097 = h
      BY <1>8, <1>14, SMT
    <2>2. (n + 32044) - (h * 146097) \div 4 = w
      BY <1>9, <1>14, SMT
    <2> QED BY <2>1, <2>2, SMT DEF Ca!GetYearMonthDay
  <1> QED BY <1>12, <1>13, <1>14, <1>15

-----------------------------------------------------------------------------
(* Dates: seconds *)

\* C++ division gives the day and the second of the day.
LEMMA DayAndSecondAre ==
  ASSUME NEW E \in Int, NEW S \in Nat, S < Ca!SecondsPerDay,
         NEW t \in Int, t = E * Ca!SecondsPerDay + S
  PROVE  Ca!DayAndSecond(t) = <<E, S>>
  <1>1. Ca!SecondsPerDay = 86400
    BY SMT DEF Ca!SecondsPerDay
  <1>2. t = E * 86400 + S /\ S < 86400
    BY <1>1, SMT
  <1>3. CASE t >= 0
    <2>1. t \div 86400 = E
      <3>1. PICK b \in Int : b = t \div 86400
        BY SMT
      <3>2. 86400 * b <= t /\ t < 86400 * b + 86400
        BY <3>1, SMT
      <3> QED BY <1>2, <3>1, <3>2, SMT
    <2>2. Ca!Quot(t, 86400) = E
      BY <1>3, <2>1, SMT DEF Ca!Quot
    <2>3. Ca!Rem(t, 86400) = S
      BY <1>2, <2>2, SMT DEF Ca!Rem
    <2>4. ~ S < 0
      OBVIOUS
    <2> QED BY <1>1, <1>2, <2>2, <2>3, <2>4, SMT DEF Ca!DayAndSecond
  <1>4. CASE t < 0
    <2>1. PICK b \in Int : b = (-t) \div 86400
      BY SMT
    <2>2. 86400 * b <= -t /\ -t < 86400 * b + 86400
      BY <2>1, SMT
    <2>3. Ca!Quot(t, 86400) = -b
      BY <1>4, <2>1, SMT DEF Ca!Quot
    <2>4. Ca!Rem(t, 86400) = t + 86400 * b
      BY <2>3, SMT DEF Ca!Rem
    <2>5. CASE S = 0
      <3>1. -b = E
        BY <1>2, <2>2, <2>5, SMT
      <3>2. t + 86400 * b = 0 /\ ~ 0 < 0
        BY <1>2, <2>5, <3>1, SMT
      <3> QED BY <1>1, <1>2, <2>3, <2>4, <2>5, <3>1, <3>2, SMT DEF Ca!DayAndSecond
    <2>6. CASE S > 0
      <3>1. -b = E + 1
        BY <1>2, <2>2, <2>6, SMT
      <3>2. t + 86400 * b = S - 86400 /\ S - 86400 < 0
        BY <1>2, <2>6, <3>1, SMT
      <3>3. Ca!DayAndSecond(t) = <<-b - 1, t + 86400 * b + 86400>>
        BY <1>1, <2>3, <2>4, <3>2, SMT DEF Ca!DayAndSecond
      <3>4. -b - 1 = E /\ t + 86400 * b + 86400 = S
        BY <3>1, <3>2, SMT
      <3> QED BY <1>2, <3>3, <3>4, SMT
    <2> QED BY <2>5, <2>6
  <1> QED BY <1>3, <1>4

\* FillHMS finds the time of the day.
LEMMA ClockIs ==
  ASSUME NEW h \in Nat, NEW m \in Nat, NEW s \in Nat, h < 24, m < 60, s < 60
  PROVE  /\ h * 3600 + m * 60 + s \in Nat /\ h * 3600 + m * 60 + s < 86400
         /\ Ca!FillHMS(h * 3600 + m * 60 + s) = <<h, m, s>>
  <1>1. PICK S \in Nat : S = h * 3600 + m * 60 + s /\ S < 86400
    BY SMT
  <1>2. S \div 3600 = h
    BY <1>1, SMT
  <1>3. S \div 60 = h * 60 + m
    BY <1>1, SMT
  <1>4. (h * 60 + m) % 60 = m
    BY SMT
  <1>5. S % 60 = s
    BY <1>1, SMT
  <1>6. Ca!FillHMS(S) = <<h, m, s>>
    BY <1>2, <1>3, <1>4, <1>5, SMT DEF Ca!FillHMS
  <1> QED BY <1>1, <1>6, SMT

-----------------------------------------------------------------------------
(* Dates: the invariant *)

\* The date exists, and the day counted is its number.
DateInv ==
  \E Y \in Nat, k \in 0 .. 11, d \in 1 .. 31 :
    Exists(Y, k, d) /\ date = Civil(Y, k, d) /\ day = Number(Y, k, d)

\* It holds of the dates to start from.
LEMMA DateInit == Ca!Init => DateInv
  <1> SUFFICES ASSUME Ca!Init PROVE DateInv
    OBVIOUS
  <1>1. PICK x \in KnownDates : date = x.date /\ day = x.number
    BY DEF Ca!Init
  <1>2. /\ x.date \in [year : Nat, month : 1 .. 12, day : 1 .. 31]
        /\ x.date.day <= Ca!DaysIn(x.date.year, x.date.month)
        /\ Ca!GetJulianDayNumber(x.date) = x.number
    BY CalendarSettings
  <1>3. PICK c \in [year : Nat, month : 1 .. 12, day : 1 .. 31] : c = x.date
    BY <1>2
  <1>4. PICK Y \in Nat, k \in 0 .. 11, d \in 1 .. 31 : Exists(Y, k, d) /\ c = Civil(Y, k, d)
    BY <1>2, <1>3, DateExists
  <1>5. Ca!GetJulianDayNumber(c) = Number(Y, k, d)
    BY <1>4, NumberIs
  <1> QED BY <1>1, <1>2, <1>3, <1>4, <1>5 DEF DateInv

\* It holds from day to day.
LEMMA DateStep == DateInv /\ [Ca!Next]_calVars => DateInv'
  <1> SUFFICES ASSUME DateInv, [Ca!Next]_calVars PROVE DateInv'
    OBVIOUS
  <1>1. PICK Y \in Nat, k \in 0 .. 11, d \in 1 .. 31 :
          Exists(Y, k, d) /\ date = Civil(Y, k, d) /\ day = Number(Y, k, d)
    BY DEF DateInv
  <1>2. CASE Ca!Next
    <2>1. date' = Ca!DayAfter(Civil(Y, k, d)) /\ day' = Number(Y, k, d) + 1
      BY <1>1, <1>2 DEF Ca!Next
    <2>2. PICK Y2 \in Nat, k2 \in 0 .. 11, d2 \in 1 .. 31 :
            /\ Exists(Y2, k2, d2) /\ Ca!DayAfter(Civil(Y, k, d)) = Civil(Y2, k2, d2)
            /\ Number(Y2, k2, d2) = Number(Y, k, d) + 1
      BY <1>1, NextNumber, Zenon
    <2> QED BY <2>1, <2>2, Zenon DEF DateInv
  <1>3. CASE UNCHANGED calVars
    BY <1>1, <1>3 DEF DateInv, calVars
  <1> QED BY <1>2, <1>3

\* Days are counted and seconds broken up as the calendar has them.
LEMMA DateInvRight == DateInv => Ca!DatesAreRight
  <1> SUFFICES ASSUME DateInv PROVE Ca!DatesAreRight
    OBVIOUS
  <1>1. PICK Y \in Nat, k \in 0 .. 11, d \in 1 .. 31 :
          Exists(Y, k, d) /\ date = Civil(Y, k, d) /\ day = Number(Y, k, d)
    BY DEF DateInv
  <1>2. Ca!GetJulianDayNumber(date) = day /\ day \in Int
    BY <1>1, NumberIs
  <1>3. Ca!GetYearMonthDay(day) = date
    BY <1>1, DateIsFound
  <1>4. PICK J \in Int : J = Ca!JulianDayOf1970
    <2>1. Ca!JulianDayOf1970 \in Int
      BY SMT DEF Ca!JulianDayOf1970, Ca!GetJulianDayNumber, Ca!Date, Ca!LeapDays
    <2> QED BY <2>1
  <1>5. PICK E \in Int : E = day - J /\ E + J = day
    BY <1>2, SMT
  <1>6. ASSUME NEW c \in ClockTimes
        PROVE  LET dt == [date |-> date, clock |-> c]
                   t  == E * 86400 + c[1] * 3600 + c[2] * 60 + c[3]
               IN Ca!BreakTime(t) = dt /\ Ca!FromUtcTime(dt) = t
    <2>1. c \in (0 .. 23) \X (0 .. 59) \X (0 .. 59)
      BY CalendarSettings
    <2>2. PICK h \in Nat, m \in Nat, s \in Nat :
            /\ c = <<h, m, s>> /\ h < 24 /\ m < 60 /\ s < 60
      <3>1. PICK A, B, C : A = 0 .. 23 /\ B = 0 .. 59 /\ C = 0 .. 59 /\ c \in A \X B \X C
        BY <2>1, Zenon
      <3>2. c \in A \X B \X C
        BY <3>1, Zenon
      <3>3. PICK h \in A, m \in B, s \in C : c = <<h, m, s>>
        BY <3>2, SMT
      <3>4. h \in Nat /\ m \in Nat /\ s \in Nat /\ h < 24 /\ m < 60 /\ s < 60
        BY <3>1, SMT
      <3> QED BY <3>3, <3>4, Zenon
    <2>3. PICK S \in Nat :
            S = h * 3600 + m * 60 + s /\ S < 86400 /\ Ca!FillHMS(S) = <<h, m, s>>
      BY <2>2, ClockIs, SMT
    <2>4. PICK t \in Int : t = E * 86400 + S
      BY SMT
    <2>5. /\ t = E * 86400 + c[1] * 3600 + c[2] * 60 + c[3]
          /\ c[1] = h /\ c[2] = m /\ c[3] = s
      BY <2>2, <2>3, <2>4, SMT
    <2>6. Ca!DayAndSecond(t) = <<E, S>>
      <3>1. Ca!SecondsPerDay = 86400
        BY SMT DEF Ca!SecondsPerDay
      <3>2. S < Ca!SecondsPerDay /\ t = E * Ca!SecondsPerDay + S
        BY <2>3, <2>4, <3>1, SMT
      <3> QED BY <3>2, DayAndSecondAre, Zenon
    <2>7. Ca!BreakTime(t) = [date |-> date, clock |-> c]
      BY <1>3, <1>4, <1>5, <2>2, <2>3, <2>6, SMT DEF Ca!BreakTime
    <2>8. Ca!FromUtcTime([date |-> date, clock |-> c]) = t
      BY <1>2, <1>4, <1>5, <2>5, SMT DEF Ca!FromUtcTime, Ca!SecondsPerDay
    <2> QED BY <2>5, <2>7, <2>8, SMT
  <1>7. Ca!TimesAreBroken
    BY <1>4, <1>5, <1>6, SMT DEF Ca!TimesAreBroken, Ca!SecondsPerDay
  <1> QED BY <1>2, <1>3, <1>7 DEF Ca!DatesAreRight, Ca!DaysAreCounted

-----------------------------------------------------------------------------
(* Zones: the state *)

Changes == [utctime : Int, localtime : Int, idx : Nat]

\* What addLocalTime and addTransition build: local times follow from the offsets, and
\* transitions are apart.
ZoneInv ==
  /\ localtimes \in Seq(Offsets) /\ localtimes # <<>>
  /\ transitions \in Seq(Changes)
  /\ \A i \in 1 .. Len(transitions) :
       /\ transitions[i].idx \in 1 .. Len(localtimes)
       /\ transitions[i].localtime = transitions[i].utctime + localtimes[transitions[i].idx]
  /\ \A i, j \in 1 .. Len(transitions) :
       i < j => transitions[j].utctime >= transitions[i].utctime + Apart

\* It holds of the zone with one type.
LEMMA ZoneInit == Zo!Init => ZoneInv
  <1> SUFFICES ASSUME Zo!Init PROVE ZoneInv
    OBVIOUS
  <1>1. PICK o \in Offsets : localtimes = <<o>>
    BY DEF Zo!Init
  <1>2. transitions = <<>> /\ Len(transitions) = 0
    BY DEF Zo!Init
  <1> QED BY <1>1, <1>2 DEF ZoneInv

\* addLocalTime, before any transition.
LEMMA ZoneLocalTime ==
  ASSUME ZoneInv, NEW o \in Offsets, Zo!AddLocalTime(o)
  PROVE  ZoneInv'
  <1>1. localtimes' = Append(localtimes, o) /\ transitions' = <<>> /\ Len(transitions') = 0
    BY DEF Zo!AddLocalTime
  <1>2. Append(localtimes, o) \in Seq(Offsets) /\ Append(localtimes, o) # <<>>
    BY DEF ZoneInv
  <1> QED BY <1>1, <1>2 DEF ZoneInv

\* addTransition.
LEMMA ZoneTransition ==
  ASSUME ZoneInv, NEW t \in 0 .. MaxUtc, NEW x \in DOMAIN localtimes, Zo!AddTransition(t, x)
  PROVE  ZoneInv'
  <1>1. PICK c \in Changes :
          /\ c = [utctime |-> t, localtime |-> t + localtimes[x], idx |-> x] /\ x \in 1 .. Len(localtimes)
          /\ c.utctime = t /\ c.localtime = t + localtimes[x] /\ c.idx = x
    <2>3. x \in 1 .. Len(localtimes) /\ localtimes[x] \in Offsets /\ Len(localtimes) \in Nat
      BY DEF ZoneInv
    <2>4. t \in Int
      BY ZoneSettings
    <2>1. x \in 1 .. Len(localtimes) /\ localtimes[x] \in Int /\ t \in Int /\ x \in Nat
      <3>1. localtimes[x] \in Int
        BY <2>3, ZoneSettings, Zenon
      <3>2. x \in Nat
        BY <2>3
      <3> QED BY <2>3, <2>4, <3>1, <3>2
    <2>2. [utctime |-> t, localtime |-> t + localtimes[x], idx |-> x] \in Changes
      BY <2>1 DEF Changes
    <2> QED BY <2>1, <2>2
  <1>2. PICK T \in Seq(Changes) : T = transitions
    BY DEF ZoneInv
  <1>3. PICK T2 \in Seq(Changes) :
          /\ T2 = Append(T, c) /\ Len(T2) = Len(T) + 1 /\ T2[Len(T) + 1] = c
          /\ \A i \in 1 .. Len(T) : T2[i] = T[i]
    <2>1. /\ Append(T, c) \in Seq(Changes) /\ Len(Append(T, c)) = Len(T) + 1
          /\ Append(T, c)[Len(T) + 1] = c /\ \A i \in 1 .. Len(T) : Append(T, c)[i] = T[i]
      OBVIOUS
    <2> QED BY <2>1
  <1>4. transitions' = T2 /\ localtimes' = localtimes
    BY <1>1, <1>2, <1>3 DEF Zo!AddTransition
  <1>5. ASSUME NEW i \in 1 .. Len(T2)
        PROVE  /\ T2[i].idx \in 1 .. Len(localtimes)
               /\ T2[i].localtime = T2[i].utctime + localtimes[T2[i].idx]
    <2>1. CASE i = Len(T) + 1
      BY <1>1, <1>3, <2>1
    <2>2. CASE i \in 1 .. Len(T)
      BY <1>2, <1>3, <2>2 DEF ZoneInv
    <2> QED BY <1>3, <2>1, <2>2
  <1>6. \A i \in 1 .. Len(T) : t >= T[i].utctime + Apart
    <2> SUFFICES ASSUME NEW i \in 1 .. Len(T) PROVE t >= T[i].utctime + Apart
      OBVIOUS
    <2>1. PICK z \in Int, a \in Int, A \in Nat :
            z = T[Len(T)].utctime /\ a = T[i].utctime /\ A = Apart
      <3>1. T[Len(T)] \in Changes /\ T[i] \in Changes
        OBVIOUS
      <3>2. T[Len(T)].utctime \in Int /\ T[i].utctime \in Int
        BY <3>1 DEF Changes
      <3> QED BY <3>2, ZoneSettings
    <2>2. t >= z + A
      BY <1>2, <2>1 DEF Zo!AddTransition
    <2>3. i < Len(T) => z >= a + A
      <3>1. Len(T) \in 1 .. Len(T)
        OBVIOUS
      <3>2. i < Len(T) => T[Len(T)].utctime >= T[i].utctime + Apart
        BY <1>2, <3>1 DEF ZoneInv
      <3> QED BY <2>1, <3>2
    <2>4. i = Len(T) => z = a
      BY <2>1
    <2> QED BY <2>1, <2>2, <2>3, <2>4, ZoneSettings, SMTT(30)
  <1>7. ASSUME NEW i \in 1 .. Len(T2), NEW j \in 1 .. Len(T2), i < j
        PROVE  T2[j].utctime >= T2[i].utctime + Apart
    <2>1. i \in 1 .. Len(T) /\ T2[i] = T[i]
      BY <1>3, <1>7
    <2>2. CASE j = Len(T) + 1
      BY <1>1, <1>3, <1>6, <2>1, <2>2
    <2>3. CASE j \in 1 .. Len(T)
      BY <1>2, <1>3, <1>7, <2>1, <2>3 DEF ZoneInv
    <2> QED BY <1>3, <2>2, <2>3
  <1> QED BY <1>4, <1>5, <1>7 DEF ZoneInv

\* It holds while the zone is built.
LEMMA ZoneStep == ZoneInv /\ [Zo!Next]_zoneVars => ZoneInv'
  <1> SUFFICES ASSUME ZoneInv, [Zo!Next]_zoneVars PROVE ZoneInv'
    OBVIOUS
  <1>1. CASE UNCHANGED zoneVars
    BY <1>1 DEF ZoneInv, zoneVars
  <1>2. CASE Zo!Next
    BY <1>2, ZoneLocalTime, ZoneTransition DEF Zo!Next
  <1> QED BY <1>1, <1>2

-----------------------------------------------------------------------------
(* Zones: the searches *)

\* A set of positions that has all before one of them is counted by its last.
LEMMA UpToCount ==
  ASSUME NEW N \in Nat, NEW S \in SUBSET (1 .. N), \A j \in S : \A i \in 1 .. N : i < j => i \in S
  PROVE  Cardinality(S) \in 0 .. N /\ S = 1 .. Cardinality(S)
  <1>1. IsFiniteSet(1 .. N) /\ Cardinality(1 .. N) = N
    BY FS_Interval
  <1>2. IsFiniteSet(S) /\ Cardinality(S) \in Nat /\ Cardinality(S) <= N
    BY <1>1, FS_Subset, FS_CardinalityType
  <1>3. ASSUME NEW k \in S PROVE k \in 1 .. Cardinality(S)
    <2>1. k \in Nat /\ 1 .. k \subseteq S
      OBVIOUS
    <2>2. Cardinality(1 .. k) = k
      BY <2>1, FS_Interval
    <2>3. k <= Cardinality(S)
      BY <1>2, <2>1, <2>2, FS_Subset
    <2> QED BY <1>2, <2>1, <2>3
  <1>4. IsFiniteSet(1 .. Cardinality(S)) /\ Cardinality(1 .. Cardinality(S)) = Cardinality(S)
    BY <1>2, FS_Interval
  <1>5. S = 1 .. Cardinality(S)
    BY <1>2, <1>3, <1>4, FS_Subset
  <1> QED BY <1>2, <1>5

\* Offset i is shown at t: from its transition until the next.
Shown(N, u, i, t) == (i > 0 => u[i] <= t) /\ (i < N => t < u[i + 1])

\* A zone as its transitions u and offsets o, o[0] before the first.
Zone(N, u, o) ==
  /\ N \in Nat /\ N = Len(transitions) /\ u \in [1 .. N -> Int] /\ o \in [0 .. N -> Offsets]
  /\ o[0] = Zo!FrontOffset
  /\ \A i \in 1 .. N : /\ u[i] = transitions[i].utctime /\ o[i] = Zo!Offset(i)
                       /\ transitions[i].localtime = u[i] + o[i]
  /\ \A i, j \in 1 .. N : i < j => u[j] >= u[i] + Apart

\* The zone that is built is one.
LEMMA ZoneIs ==
  ASSUME ZoneInv
  PROVE  \E N, u, o : Zone(N, u, o)
  <1>1. PICK N \in Nat : N = Len(transitions)
    BY DEF ZoneInv
  <1>2. PICK u : u = [i \in 1 .. N |-> transitions[i].utctime]
    OBVIOUS
  <1>3. PICK o : o = [i \in 0 .. N |-> IF i = 0 THEN Zo!FrontOffset ELSE Zo!Offset(i)]
    OBVIOUS
  <1>4. \A i \in 1 .. N : transitions[i].utctime \in Int
    <2>1. \A i \in 1 .. N : transitions[i] \in Changes
      BY <1>1 DEF ZoneInv
    <2> QED BY <2>1 DEF Changes
  <1>5. Zo!FrontOffset \in Offsets /\ \A i \in 1 .. N : Zo!Offset(i) \in Offsets
    BY <1>1 DEF ZoneInv, Zo!FrontOffset, Zo!Offset
  <1>6. u \in [1 .. N -> Int] /\ \A i \in 1 .. N : u[i] = transitions[i].utctime
    BY <1>2, <1>4
  <1>7. o \in [0 .. N -> Offsets] /\ o[0] = Zo!FrontOffset /\ \A i \in 1 .. N : o[i] = Zo!Offset(i)
    BY <1>3, <1>5
  <1>8. \A i \in 1 .. N : transitions[i].localtime = u[i] + o[i]
    BY <1>1, <1>6, <1>7 DEF ZoneInv, Zo!Offset
  <1>9. \A i, j \in 1 .. N : i < j => u[j] >= u[i] + Apart
    BY <1>1, <1>6 DEF ZoneInv
  <1> QED BY <1>1, <1>6, <1>7, <1>8, <1>9 DEF Zone

\* Offsets differ by less than Apart.
LEMMA Near ==
  ASSUME NEW N, NEW u, NEW o, Zone(N, u, o)
  PROVE  /\ \A i \in 0 .. N : o[i] \in Int
         /\ \A i, j \in 0 .. N : o[i] - o[j] < Apart
         /\ Apart \in Nat /\ N \in Nat /\ \A i \in 1 .. N : u[i] \in Int
  <1>1. PICK lo \in Offsets, hi \in Offsets :
          (\A e \in Offsets : lo <= e /\ e <= hi) /\ hi - lo < Apart
    BY ZoneSettings
  <1>2. \A i \in 0 .. N : o[i] \in Offsets
    BY DEF Zone
  <1>3. \A i \in 0 .. N : o[i] \in Int /\ lo <= o[i] /\ o[i] <= hi
    BY <1>1, <1>2, ZoneSettings
  <1>4. lo \in Int /\ hi \in Int /\ Apart \in Nat
    BY ZoneSettings
  <1>5. \A i, j \in 0 .. N : o[i] - o[j] < Apart
    BY <1>1, <1>3, <1>4
  <1> QED BY <1>3, <1>4, <1>5 DEF Zone

\* findLocalTime(utcTime) takes the offset that is shown.
LEMMA UtcFound ==
  ASSUME NEW N, NEW u, NEW o, Zone(N, u, o), NEW t \in Int
  PROVE  \E i \in 0 .. N : Shown(N, u, i, t) /\ Zo!ToLocalTime(t) = t + o[i]
  <1>1. PICK S : S = Zo!UtcUpTo(t)
    OBVIOUS
  <1>2. DOMAIN transitions = 1 .. N
    BY DEF Zone
  <1>3. S \in SUBSET (1 .. N) /\ \A i \in 1 .. N : i \in S <=> u[i] <= t
    BY <1>1, <1>2 DEF Zo!UtcUpTo, Zone
  <1>4. \A j \in S : \A i \in 1 .. N : i < j => i \in S
    <2> SUFFICES ASSUME NEW j \in S, NEW i \in 1 .. N, i < j PROVE u[i] <= t
      BY <1>3
    <2>1. j \in 1 .. N /\ u[j] <= t
      BY <1>3
    <2>2. u[j] >= u[i] + Apart
      BY <2>1 DEF Zone
    <2> QED BY <2>1, <2>2, Near
  <1>5. PICK n \in 0 .. N : n = Cardinality(S) /\ S = 1 .. n
    BY <1>3, <1>4, Near, UpToCount
  <1>6. Zo!FindUtc(t) = o[n]
    <2>1. \A X : Zo!Cardinality(X) = Cardinality(X)
      BY DEF Zo!Cardinality, Cardinality
    <2>2. Zo!FindUtc(t) = IF n = 0 THEN Zo!FrontOffset ELSE Zo!Offset(n)
      BY <1>1, <1>5, <2>1 DEF Zo!FindUtc
    <2> QED BY <2>2 DEF Zone
  <1>7. Shown(N, u, n, t)
    <2>4. N \in Nat /\ (n > 0 => n \in 1 .. N /\ n \in 1 .. n)
          /\ (n < N => n + 1 \in 1 .. N /\ n + 1 \notin 1 .. n)
      BY Near
    <2>1. n > 0 => u[n] <= t
      BY <1>3, <1>5, <2>4
    <2>2. n < N => ~ u[n + 1] <= t
      BY <1>3, <1>5, <2>4
    <2>3. n < N => u[n + 1] \in Int
      BY Near
    <2> QED BY <2>1, <2>2, <2>3 DEF Shown
  <1> QED BY <1>6, <1>7 DEF Zo!ToLocalTime

\* It is the only one.
LEMMA ShownOnce ==
  ASSUME NEW N, NEW u, NEW o, Zone(N, u, o), NEW t \in Int,
         NEW i \in 0 .. N, NEW j \in 0 .. N, Shown(N, u, i, t), Shown(N, u, j, t)
  PROVE  i = j
  <1>1. ASSUME NEW k \in 0 .. N, NEW m \in 0 .. N, Shown(N, u, k, t), Shown(N, u, m, t), k < m
        PROVE  FALSE
    <2>1. m \in 1 .. N /\ k + 1 \in 1 .. N /\ k + 1 <= m
      BY <1>1, Near
    <2>2. u[m] <= t /\ t < u[k + 1]
      BY <1>1, <2>1, Near DEF Shown
    <2>3. u[m] \in Int /\ u[k + 1] \in Int /\ Apart \in Nat
      BY <2>1, Near
    <2>4. k + 1 < m => u[m] >= u[k + 1] + Apart
      BY <2>1 DEF Zone
    <2>5. k + 1 = m => u[m] = u[k + 1]
      OBVIOUS
    <2> QED BY <2>1, <2>2, <2>3, <2>4, <2>5
  <1> QED BY <1>1, Near

\* What upper_bound finds among local times.
LEMMA LocalFound ==
  ASSUME NEW N, NEW u, NEW o, Zone(N, u, o), NEW l \in Int
  PROVE  \E n \in 0 .. N : /\ n = Zo!Cardinality(Zo!LocalUpTo(l))
                           /\ n > 0 => u[n] + o[n] <= l
                           /\ n < N => l < u[n + 1] + o[n + 1]
  <1>1. PICK S : S = Zo!LocalUpTo(l)
    OBVIOUS
  <1>2. DOMAIN transitions = 1 .. N
    BY DEF Zone
  <1>3. S \in SUBSET (1 .. N) /\ \A i \in 1 .. N : i \in S <=> u[i] + o[i] <= l
    BY <1>1, <1>2 DEF Zo!LocalUpTo, Zone
  <1>4. \A j \in S : \A i \in 1 .. N : i < j => i \in S
    <2> SUFFICES ASSUME NEW j \in S, NEW i \in 1 .. N, i < j PROVE u[i] + o[i] <= l
      BY <1>3
    <2>1. j \in 1 .. N /\ u[j] + o[j] <= l
      BY <1>3
    <2>2. u[j] >= u[i] + Apart
      BY <2>1 DEF Zone
    <2>3. /\ i \in 0 .. N /\ j \in 0 .. N /\ o[i] - o[j] < Apart
          /\ u[i] \in Int /\ u[j] \in Int /\ o[i] \in Int /\ o[j] \in Int /\ Apart \in Nat
      BY <2>1, Near
    <2> QED BY <2>1, <2>2, <2>3
  <1>5. PICK n \in 0 .. N : n = Cardinality(S) /\ S = 1 .. n
    BY <1>3, <1>4, Near, UpToCount
  <1>6. n = Zo!Cardinality(Zo!LocalUpTo(l))
    BY <1>1, <1>5 DEF Zo!Cardinality, Cardinality
  <1>7. n > 0 => u[n] + o[n] <= l
    <2>1. n > 0 => n \in 1 .. N /\ n \in 1 .. n
      BY Near
    <2> QED BY <1>3, <1>5, <2>1
  <1>8. n < N => l < u[n + 1] + o[n + 1]
    <2> SUFFICES ASSUME n < N PROVE l < u[n + 1] + o[n + 1]
      OBVIOUS
    <2>1. n + 1 \in 1 .. N /\ n + 1 \in 0 .. N /\ n + 1 \notin 1 .. n
      BY Near
    <2>2. ~ u[n + 1] + o[n + 1] <= l /\ u[n + 1] \in Int /\ o[n + 1] \in Int
      BY <1>3, <1>5, <2>1, Near
    <2> QED BY <2>2
  <1> QED BY <1>6, <1>7, <1>8

\* The largest of a set of numbers, where there is one.
LEMMA LargestIs ==
  ASSUME NEW S \in SUBSET Int, NEW x \in S, \A y \in S : y <= x
  PROVE  Zo!Largest(S) = x
  <1>1. PICK z : z = Zo!Largest(S)
    OBVIOUS
  <1>2. z \in S /\ \A y \in S : y <= z
    BY <1>1, Zenon DEF Zo!Largest
  <1>3. z <= x /\ x <= z /\ x \in Int /\ z \in Int
    BY <1>2
  <1> QED BY <1>1, <1>3

\* And the least.
LEMMA LeastIs ==
  ASSUME NEW S \in SUBSET Int, NEW x \in S, \A y \in S : x <= y
  PROVE  Zo!Least(S) = x
  <1>1. PICK z : z = Zo!Least(S)
    OBVIOUS
  <1>2. z \in S /\ \A y \in S : z <= y
    BY <1>1, Zenon DEF Zo!Least
  <1>3. z <= x /\ x <= z /\ x \in Int /\ z \in Int
    BY <1>2
  <1> QED BY <1>1, <1>3

\* The instants of a local time are those of the offsets that are shown at them.
LEMMA InstantsAre ==
  ASSUME NEW N, NEW u, NEW o, Zone(N, u, o), NEW l \in Int
  PROVE  /\ Zo!Instants(l) \subseteq Int
         /\ \A t : t \in Zo!Instants(l)
                   <=> \E i \in 0 .. N : t = l - o[i] /\ Shown(N, u, i, l - o[i])
  <1>1. PICK lo \in Offsets, hi \in Offsets : \A e \in Offsets : lo <= e /\ e <= hi
    BY ZoneSettings
  <1>2. lo \in Int /\ hi \in Int /\ Zo!Least(Offsets) = lo /\ Zo!Largest(Offsets) = hi
    BY <1>1, ZoneSettings, LeastIs, LargestIs
  <1>3. \A i \in 0 .. N : o[i] \in Int /\ lo <= o[i] /\ o[i] <= hi
    <2>1. \A i \in 0 .. N : o[i] \in Offsets
      BY DEF Zone
    <2> QED BY <1>1, <2>1, ZoneSettings
  <1>4. \A t : t \in Zo!Instants(l) <=> t \in l - hi .. l - lo /\ Zo!ToLocalTime(t) = l
    BY <1>2 DEF Zo!Instants
  <1>5. ASSUME NEW t \in Zo!Instants(l)
        PROVE  \E i \in 0 .. N : t = l - o[i] /\ Shown(N, u, i, l - o[i])
    <2>1. t \in Int /\ Zo!ToLocalTime(t) = l
      BY <1>2, <1>4
    <2>2. PICK i \in 0 .. N : Shown(N, u, i, t) /\ Zo!ToLocalTime(t) = t + o[i]
      BY <2>1, UtcFound
    <2>3. t = l - o[i]
      BY <1>3, <2>1, <2>2
    <2> QED BY <2>2, <2>3
  <1>6. ASSUME NEW i \in 0 .. N, Shown(N, u, i, l - o[i])
        PROVE  l - o[i] \in Zo!Instants(l)
    <2>1. PICK t \in Int : t = l - o[i]
      BY <1>3
    <2>2. PICK j \in 0 .. N : Shown(N, u, j, t) /\ Zo!ToLocalTime(t) = t + o[j]
      BY UtcFound
    <2>3. j = i
      BY <1>6, <2>1, <2>2, ShownOnce
    <2>4. Zo!ToLocalTime(t) = l /\ t \in l - hi .. l - lo
      BY <1>2, <1>3, <2>1, <2>2, <2>3
    <2> QED BY <1>4, <2>1, <2>4
  <1>7. Zo!Instants(l) \subseteq Int
    BY <1>2, <1>4
  <1> QED BY <1>5, <1>6, <1>7

\* Only the offsets of the last two transitions not after l can show l.
LEMMA LastTwo ==
  ASSUME NEW N, NEW u, NEW o, Zone(N, u, o), NEW l \in Int, NEW n \in 0 .. N,
         n > 0 => u[n] + o[n] <= l, n < N => l < u[n + 1] + o[n + 1],
         NEW i \in 0 .. N, Shown(N, u, i, l - o[i])
  PROVE  i = n \/ i = n - 1
  <1>1. ASSUME i > n PROVE FALSE
    <2>1. i \in 1 .. N /\ n + 1 \in 1 .. N /\ n + 1 \in 0 .. N /\ n < N /\ n + 1 <= i
      BY <1>1, Near
    <2>2. u[i] <= l - o[i] /\ l < u[n + 1] + o[n + 1]
      BY <2>1 DEF Shown
    <2>3. /\ u[i] \in Int /\ o[i] \in Int /\ u[n + 1] \in Int /\ o[n + 1] \in Int /\ Apart \in Nat
          /\ o[n + 1] - o[i] < Apart
      BY <2>1, Near
    <2>4. n + 1 < i => u[i] >= u[n + 1] + Apart
      BY <2>1 DEF Zone
    <2>5. n + 1 = i => u[n + 1] = u[i] /\ o[n + 1] = o[i]
      OBVIOUS
    <2> QED BY <2>1, <2>2, <2>3, <2>4, <2>5
  <1>2. ASSUME i < n - 1 PROVE FALSE
    <2>1. n \in 1 .. N /\ i + 1 \in 1 .. N /\ i + 1 < n /\ i < N
      BY <1>2, Near
    <2>2. l - o[i] < u[i + 1] /\ u[n] + o[n] <= l
      BY <2>1 DEF Shown
    <2>3. /\ u[n] \in Int /\ o[n] \in Int /\ u[i + 1] \in Int /\ o[i] \in Int /\ Apart \in Nat
          /\ o[i] - o[n] < Apart
      BY <2>1, Near
    <2>4. u[n] >= u[i + 1] + Apart
      BY <2>1 DEF Zone
    <2> QED BY <2>2, <2>3, <2>4
  <1>3. n \in Int /\ i \in Int
    BY Near
  <1> QED BY <1>1, <1>2, <1>3

\* findLocalTime(local, postTransition), in terms of the zone.
LEMMA FindLocalIs ==
  ASSUME NEW N, NEW u, NEW o, Zone(N, u, o), NEW l \in Int, NEW n \in 0 .. N,
         n = Zo!Cardinality(Zo!LocalUpTo(l)), NEW post \in BOOLEAN
  PROVE  /\ n = 0 \/ n = N => Zo!FindLocal(l, post) = o[n]
         /\ n > 0 /\ n < N /\ u[n + 1] + o[n] <= l
              => Zo!FindLocal(l, post) = IF post THEN o[n + 1] ELSE o[n]
         /\ n > 1 /\ n < N /\ l < u[n + 1] + o[n] /\ l < u[n] + o[n - 1]
              => Zo!FindLocal(l, post) = IF post THEN o[n] ELSE o[n - 1]
         /\ n > 0 /\ n < N /\ l < u[n + 1] + o[n] /\ (n > 1 => u[n] + o[n - 1] <= l)
              => Zo!FindLocal(l, post) = o[n]
  <1>1. N = Len(transitions) /\ N \in Nat /\ n \in Nat /\ o[0] = Zo!FrontOffset
    BY Near DEF Zone
  <1>2. \A i \in 1 .. N : o[i] = Zo!Offset(i)
    BY DEF Zone
  <1>3. n = 0 \/ n = N => Zo!FindLocal(l, post) = o[n]
    BY <1>1, <1>2 DEF Zo!FindLocal
  <1>4. ASSUME NEW i \in 2 .. N
        PROVE  /\ Zo!PriorSecond(i) < l <=> u[i] + o[i - 1] <= l
               /\ l <= Zo!PriorSecond(i) <=> l < u[i] + o[i - 1]
    <2>1. i \in 1 .. N /\ i - 1 \in 1 .. N /\ i - 1 \in 0 .. N
      BY <1>1
    <2>2. Zo!PriorSecond(i) = u[i] - 1 + o[i - 1] /\ u[i] \in Int /\ o[i - 1] \in Int
      BY <1>2, <2>1, Near DEF Zo!PriorSecond, Zone
    <2> QED BY <2>2
  <1>5. ASSUME n > 0, n < N
        PROVE  Zo!FindLocal(l, post) =
                 IF u[n + 1] + o[n] <= l THEN Zo!Offset(IF post THEN n + 1 ELSE n)
                 ELSE IF Zo!Repeats(n, l) THEN Zo!Offset(IF post THEN n ELSE n - 1)
                 ELSE Zo!Offset(n)
    <2>1. n + 1 \in 2 .. N /\ (n + 1) - 1 = n
      BY <1>1, <1>5
    <2>2. Zo!PriorSecond(n + 1) < l <=> u[n + 1] + o[n] <= l
      BY <1>4, <2>1
    <2>3. n # 0 /\ n # Len(transitions)
      BY <1>1, <1>5
    <2> QED BY <2>2, <2>3 DEF Zo!FindLocal
  <1>6. n > 0 /\ n < N => Zo!Repeats(n, l) = (n > 1 /\ l < u[n] + o[n - 1])
    <2>1. CASE n > 1
      BY <1>1, <1>4, <2>1 DEF Zo!Repeats
    <2>2. CASE ~ n > 1
      BY <2>2 DEF Zo!Repeats
    <2> QED BY <2>1, <2>2
  <1>7. ASSUME n > 0, n < N
        PROVE  /\ Zo!Offset(n + 1) = o[n + 1] /\ Zo!Offset(n) = o[n]
               /\ n > 1 => Zo!Offset(n - 1) = o[n - 1]
               /\ u[n + 1] + o[n] \in Int /\ (n > 1 => u[n] + o[n - 1] \in Int)
    <2>1. n + 1 \in 1 .. N /\ n \in 1 .. N /\ (n > 1 => n - 1 \in 1 .. N) /\ n - 1 \in 0 .. N
      BY <1>1, <1>7
    <2> QED BY <1>2, <2>1, Near
  <1>8. n > 0 /\ n < N /\ u[n + 1] + o[n] <= l
          => Zo!FindLocal(l, post) = IF post THEN o[n + 1] ELSE o[n]
    BY <1>5, <1>7
  <1>9. n > 1 /\ n < N /\ l < u[n + 1] + o[n] /\ l < u[n] + o[n - 1]
          => Zo!FindLocal(l, post) = IF post THEN o[n] ELSE o[n - 1]
    <2> SUFFICES ASSUME n > 1, n < N, l < u[n + 1] + o[n], l < u[n] + o[n - 1]
                 PROVE  Zo!FindLocal(l, post) = IF post THEN o[n] ELSE o[n - 1]
      OBVIOUS
    <2>1. n > 0 /\ ~ u[n + 1] + o[n] <= l
      BY <1>1, <1>7
    <2>2. Zo!Repeats(n, l)
      BY <1>6, <2>1
    <2> QED BY <1>5, <1>7, <2>1, <2>2
  <1>10. n > 0 /\ n < N /\ l < u[n + 1] + o[n] /\ (n > 1 => u[n] + o[n - 1] <= l)
           => Zo!FindLocal(l, post) = o[n]
    <2> SUFFICES ASSUME n > 0, n < N, l < u[n + 1] + o[n], n > 1 => u[n] + o[n - 1] <= l
                 PROVE  Zo!FindLocal(l, post) = o[n]
      OBVIOUS
    <2>1. ~ u[n + 1] + o[n] <= l
      BY <1>7
    <2>2. ~ Zo!Repeats(n, l)
      <3>1. ~ (n > 1 /\ l < u[n] + o[n - 1])
        BY <1>7
      <3> QED BY <1>6, <3>1
    <2> QED BY <1>5, <1>7, <2>1, <2>2
  <1> QED BY <1>3, <1>8, <1>9, <1>10

\* A local time that the n-th offset shows has its last instant there.
LEMMA LastInstant ==
  ASSUME NEW N, NEW u, NEW o, Zone(N, u, o), NEW l \in Int, NEW n \in 0 .. N,
         n > 0 => u[n] + o[n] <= l, n < N => l < u[n + 1] + o[n + 1],
         n < N => l < u[n + 1] + o[n]
  PROVE  /\ l - o[n] \in Zo!Instants(l) /\ Zo!Largest(Zo!Instants(l)) = l - o[n]
         /\ n > 0 /\ l < u[n] + o[n - 1] => Zo!Least(Zo!Instants(l)) = l - o[n - 1]
         /\ n = 0 \/ u[n] + o[n - 1] <= l => Zo!Least(Zo!Instants(l)) = l - o[n]
  <1>1. PICK S \in SUBSET Int : S = Zo!Instants(l)
    BY InstantsAre
  <1>2. \A t : t \in S <=> \E i \in 0 .. N : t = l - o[i] /\ Shown(N, u, i, l - o[i])
    BY <1>1, InstantsAre
  <1>3. /\ N \in Nat /\ Apart \in Nat /\ o[n] \in Int /\ (n > 0 => n \in 1 .. N /\ u[n] \in Int)
        /\ (n < N => n + 1 \in 1 .. N /\ u[n + 1] \in Int)
    BY Near
  <1>4. Shown(N, u, n, l - o[n])
    BY <1>3 DEF Shown
  <1>5. l - o[n] \in S
    BY <1>2, <1>4
  <1>6. \A t \in S : t = l - o[n] \/ (n > 0 /\ t = l - o[n - 1] /\ Shown(N, u, n - 1, l - o[n - 1]))
    <2> SUFFICES ASSUME NEW t \in S
                 PROVE  t = l - o[n] \/ (n > 0 /\ t = l - o[n - 1] /\ Shown(N, u, n - 1, l - o[n - 1]))
      OBVIOUS
    <2>1. PICK i \in 0 .. N : t = l - o[i] /\ Shown(N, u, i, l - o[i])
      BY <1>2
    <2>2. i = n \/ i = n - 1
      BY <2>1, LastTwo
    <2>3. i = n - 1 => n > 0
      BY <1>3
    <2> QED BY <2>1, <2>2, <2>3
  <1>7. ASSUME n > 0
        PROVE  /\ n - 1 \in 0 .. N /\ o[n - 1] \in Int /\ n - 1 < N /\ (n - 1) + 1 = n
               /\ o[n - 1] - o[n] < Apart /\ o[n] - o[n - 1] < Apart
    <2>1. n - 1 \in 0 .. N /\ n - 1 < N /\ (n - 1) + 1 = n
      BY <1>3, <1>7
    <2> QED BY <2>1, Near
  <1>8. n > 0 /\ Shown(N, u, n - 1, l - o[n - 1]) => l - o[n - 1] < u[n] /\ l - o[n - 1] < l - o[n]
    <2> SUFFICES ASSUME n > 0, Shown(N, u, n - 1, l - o[n - 1])
                 PROVE  l - o[n - 1] < u[n] /\ l - o[n - 1] < l - o[n]
      OBVIOUS
    <2>1. l - o[n - 1] < u[n]
      BY <1>7 DEF Shown
    <2> QED BY <1>3, <1>7, <2>1
  <1>9. Zo!Largest(S) = l - o[n]
    <2>1. \A t \in S : t <= l - o[n]
      BY <1>3, <1>6, <1>7, <1>8
    <2> QED BY <1>5, <2>1, LargestIs
  <1>10. ASSUME n > 0, l < u[n] + o[n - 1] PROVE Zo!Least(S) = l - o[n - 1]
    <2>1. Shown(N, u, n - 1, l - o[n - 1])
      <3>1. l - o[n - 1] < u[n]
        BY <1>3, <1>7, <1>10
      <3>2. n - 1 > 0 => u[n - 1] <= l - o[n - 1]
        <4> SUFFICES ASSUME n - 1 > 0 PROVE u[n - 1] <= l - o[n - 1]
          OBVIOUS
        <4>1. n - 1 \in 1 .. N /\ n - 1 < n
          BY <1>7, <1>3
        <4>2. u[n] >= u[n - 1] + Apart /\ u[n - 1] \in Int
          BY <1>3, <1>10, <4>1, Near DEF Zone
        <4> QED BY <1>3, <1>7, <1>10, <4>2
      <3> QED BY <1>7, <1>10, <3>1, <3>2 DEF Shown
    <2>2. l - o[n - 1] \in S
      BY <1>2, <1>7, <1>10, <2>1
    <2>3. \A t \in S : l - o[n - 1] <= t
      BY <1>3, <1>6, <1>7, <1>8, <1>10, <2>1
    <2> QED BY <2>2, <2>3, LeastIs
  <1>11. ASSUME n = 0 \/ u[n] + o[n - 1] <= l PROVE Zo!Least(S) = l - o[n]
    <2>1. \A t \in S : t = l - o[n]
      BY <1>3, <1>6, <1>7, <1>8, <1>11
    <2>2. \A t \in S : l - o[n] <= t
      BY <1>3, <2>1
    <2> QED BY <1>5, <2>2, LeastIs
  <1> QED BY <1>1, <1>5, <1>9, <1>10, <1>11

\* A local time that a change skips has no instant; read with either offset, it is too early
\* or too late.
LEMMA Skipped ==
  ASSUME NEW N, NEW u, NEW o, Zone(N, u, o), NEW l \in Int, NEW n \in 0 .. N,
         n > 0 => u[n] + o[n] <= l, n < N, l < u[n + 1] + o[n + 1], u[n + 1] + o[n] <= l
  PROVE  /\ Zo!Instants(l) = {}
         /\ Zo!ToLocalTime(l - o[n + 1]) < l /\ l < Zo!ToLocalTime(l - o[n])
  <1>1. PICK m \in 1 .. N : m = n + 1
    BY Near
  <1>2. /\ N \in Nat /\ Apart \in Nat /\ n \in Nat /\ o[n] \in Int /\ o[m] \in Int /\ u[m] \in Int
        /\ o[n] - o[m] < Apart /\ o[m] - o[n] < Apart
    BY <1>1, Near
  <1>3. u[m] + o[n] <= l /\ l < u[m] + o[m]
    BY <1>1
  <1>4. n > 0 => n \in 1 .. N /\ u[n] \in Int /\ u[m] >= u[n] + Apart
    BY <1>1, Near DEF Zone
  <1>5. ASSUME NEW t \in Zo!Instants(l) PROVE FALSE
    <2>1. PICK i \in 0 .. N : t = l - o[i] /\ Shown(N, u, i, l - o[i])
      BY InstantsAre
    <2>2. i = n \/ i = n - 1
      BY <2>1, LastTwo
    <2>3. CASE i = n
      <3>1. l - o[n] < u[m]
        BY <1>1, <2>1, <2>3 DEF Shown
      <3> QED BY <1>2, <1>3, <3>1
    <2>4. CASE i = n - 1
      <3>1. n > 0 /\ i < N /\ i + 1 = n
        BY <1>2, <2>4
      <3>2. l - o[i] < u[n] /\ o[i] \in Int /\ o[i] - o[n] < Apart
        BY <2>1, <3>1, Near DEF Shown
      <3> QED BY <1>2, <1>3, <1>4, <3>1, <3>2
    <2> QED BY <2>2, <2>3, <2>4
  <1>6. Zo!ToLocalTime(l - o[m]) < l
    <2>1. PICK t \in Int : t = l - o[m]
      BY <1>2
    <2>2. Shown(N, u, n, t)
      <3>1. t < u[m]
        BY <1>2, <1>3, <2>1
      <3>2. n > 0 => u[n] <= t
        BY <1>2, <1>3, <1>4, <2>1
      <3> QED BY <1>1, <3>1, <3>2 DEF Shown
    <2>3. PICK i \in 0 .. N : Shown(N, u, i, t) /\ Zo!ToLocalTime(t) = t + o[i]
      BY UtcFound
    <2>4. i = n
      BY <2>2, <2>3, ShownOnce
    <2> QED BY <1>2, <1>3, <2>1, <2>3, <2>4
  <1>7. l < Zo!ToLocalTime(l - o[n])
    <2>1. PICK t \in Int : t = l - o[n]
      BY <1>2
    <2>2. Shown(N, u, m, t)
      <3>1. u[m] <= t
        BY <1>2, <1>3, <2>1
      <3>2. m < N => t < u[m + 1]
        <4> SUFFICES ASSUME m < N PROVE t < u[m + 1]
          OBVIOUS
        <4>1. m + 1 \in 1 .. N /\ m < m + 1
          BY <1>2
        <4>2. u[m + 1] >= u[m] + Apart /\ u[m + 1] \in Int
          BY <4>1, Near DEF Zone
        <4> QED BY <1>2, <1>3, <2>1, <4>2
      <3> QED BY <3>1, <3>2 DEF Shown
    <2>3. PICK i \in 0 .. N : Shown(N, u, i, t) /\ Zo!ToLocalTime(t) = t + o[i]
      BY UtcFound
    <2>4. i = m
      BY <2>2, <2>3, ShownOnce, <1>2
    <2> QED BY <1>2, <1>3, <2>1, <2>3, <2>4
  <1>8. Zo!Instants(l) = {}
    BY <1>5
  <1> QED BY <1>1, <1>6, <1>7, <1>8

\* What a local time l is to be read as, where n of N transitions are not after it.
ReadRight(l, n, N) ==
  /\ Zo!Instants(l) # {} =>
       /\ Zo!FromLocalTime(l, TRUE) = Zo!Largest(Zo!Instants(l))
       /\ Zo!FromLocalTime(l, FALSE) = IF n > 1 /\ n < N THEN Zo!Least(Zo!Instants(l))
                                       ELSE Zo!Largest(Zo!Instants(l))
  /\ Zo!Instants(l) = {} /\ n > 0 =>
       /\ Zo!ToLocalTime(Zo!FromLocalTime(l, TRUE)) < l
       /\ l < Zo!ToLocalTime(Zo!FromLocalTime(l, FALSE))

\* fromLocalTime reads every local time as asked for.
LEMMA LocalTimeRead ==
  ASSUME NEW N, NEW u, NEW o, Zone(N, u, o), NEW l \in Int, NEW n \in 0 .. N,
         n = Zo!Cardinality(Zo!LocalUpTo(l)),
         n > 0 => u[n] + o[n] <= l, n < N => l < u[n + 1] + o[n + 1]
  PROVE  ReadRight(l, n, N)
  <1>1. /\ N \in Nat /\ n \in Nat /\ o[n] \in Int /\ (n < N => u[n + 1] \in Int)
        /\ (n > 0 => u[n] \in Int /\ o[n - 1] \in Int)
    <2>1. n > 0 => n \in 1 .. N /\ n - 1 \in 0 .. N
      BY Near
    <2> QED BY <2>1, Near
  <1>5. \A post \in BOOLEAN :
          /\ n = 0 \/ n = N => Zo!FindLocal(l, post) = o[n]
          /\ n > 0 /\ n < N /\ u[n + 1] + o[n] <= l
               => Zo!FindLocal(l, post) = IF post THEN o[n + 1] ELSE o[n]
          /\ n > 1 /\ n < N /\ l < u[n + 1] + o[n] /\ l < u[n] + o[n - 1]
               => Zo!FindLocal(l, post) = IF post THEN o[n] ELSE o[n - 1]
          /\ n > 0 /\ n < N /\ l < u[n + 1] + o[n] /\ (n > 1 => u[n] + o[n - 1] <= l)
               => Zo!FindLocal(l, post) = o[n]
    BY FindLocalIs
  <1>2. CASE n < N /\ u[n + 1] + o[n] <= l
    <2>1. /\ Zo!Instants(l) = {}
          /\ Zo!ToLocalTime(l - o[n + 1]) < l /\ l < Zo!ToLocalTime(l - o[n])
      BY <1>2, Skipped
    <2>2. n > 0 => Zo!FindLocal(l, TRUE) = o[n + 1] /\ Zo!FindLocal(l, FALSE) = o[n]
      BY <1>2, <1>5
    <2> QED BY <2>1, <2>2 DEF ReadRight, Zo!FromLocalTime
  <1>3. CASE n < N => l < u[n + 1] + o[n]
    <2>1. /\ l - o[n] \in Zo!Instants(l) /\ Zo!Largest(Zo!Instants(l)) = l - o[n]
          /\ n > 0 /\ l < u[n] + o[n - 1] => Zo!Least(Zo!Instants(l)) = l - o[n - 1]
          /\ n = 0 \/ u[n] + o[n - 1] <= l => Zo!Least(Zo!Instants(l)) = l - o[n]
      BY <1>3, LastInstant
    <2>2. CASE n > 1 /\ n < N /\ l < u[n] + o[n - 1]
      <3>1. Zo!FindLocal(l, TRUE) = o[n] /\ Zo!FindLocal(l, FALSE) = o[n - 1]
        BY <1>3, <1>5, <2>2
      <3>2. n > 0
        BY <1>1, <2>2
      <3> QED BY <2>1, <2>2, <3>1, <3>2 DEF ReadRight, Zo!FromLocalTime
    <2>3. CASE n > 1 /\ n < N /\ u[n] + o[n - 1] <= l
      <3>1. n > 0
        BY <1>1, <2>3
      <3>2. Zo!FindLocal(l, TRUE) = o[n] /\ Zo!FindLocal(l, FALSE) = o[n]
        BY <1>3, <1>5, <2>3, <3>1
      <3> QED BY <2>1, <2>3, <3>2 DEF ReadRight, Zo!FromLocalTime
    <2>4. CASE ~ (n > 1 /\ n < N)
      <3>1. \A post \in BOOLEAN : Zo!FindLocal(l, post) = o[n]
        <4>1. CASE n = 0 \/ n = N
          BY <1>5, <4>1
        <4>2. CASE n = 1 /\ n < N
          BY <1>3, <1>5, <4>2
        <4> QED BY <1>1, <2>4, <4>1, <4>2
      <3>2. Zo!FindLocal(l, TRUE) = o[n] /\ Zo!FindLocal(l, FALSE) = o[n]
        BY <3>1
      <3> QED BY <2>1, <2>4, <3>2 DEF ReadRight, Zo!FromLocalTime
    <2>5. n > 0 => (l < u[n] + o[n - 1] \/ u[n] + o[n - 1] <= l)
      BY <1>1
    <2>6. n > 1 => n > 0
      BY <1>1
    <2> QED BY <2>2, <2>3, <2>4, <2>5, <2>6
  <1>4. n < N => (u[n + 1] + o[n] <= l \/ l < u[n + 1] + o[n])
    BY <1>1
  <1> QED BY <1>2, <1>3, <1>4

\* TimeZone reads local times as the zone has them.
LEMMA ZoneInvRight == ZoneInv => Zo!LocalTimeIsRight
  <1> SUFFICES ASSUME ZoneInv PROVE Zo!LocalTimeIsRight
    OBVIOUS
  <1>1. PICK N, u, o : Zone(N, u, o)
    BY ZoneIs
  <1>2. N = Len(transitions) /\ N \in Nat
    BY <1>1 DEF Zone
  <1>3. ASSUME NEW l \in Zo!LocalTimes
        PROVE  ReadRight(l, Zo!Cardinality(Zo!LocalUpTo(l)), Len(transitions))
    <2>1. l \in Int
      <3>1. PICK lo \in Offsets : \A e \in Offsets : lo <= e
        BY ZoneSettings
      <3>2. Zo!Least(Offsets) = lo /\ lo \in Int
        BY <3>1, ZoneSettings, LeastIs
      <3> QED BY <3>2, ZoneSettings DEF Zo!LocalTimes
    <2>2. PICK n \in 0 .. N : /\ n = Zo!Cardinality(Zo!LocalUpTo(l))
                              /\ n > 0 => u[n] + o[n] <= l
                              /\ n < N => l < u[n + 1] + o[n + 1]
      BY <1>1, <2>1, LocalFound
    <2>3. ReadRight(l, n, N)
      BY <1>1, <2>1, <2>2, LocalTimeRead
    <2> QED BY <1>2, <2>2, <2>3
  <1> QED BY <1>3 DEF ReadRight, Zo!LocalTimeIsRight, Zo!LocalTimeIsFound, Zo!SkippedIsBracketed

-----------------------------------------------------------------------------
(* Dates and zones: the theorem *)

\* Dates and times are right for any dates to start from and any number of days, any time of
\* the day, and any zone whose transitions are further apart than its offsets differ: days are
\* counted and found as the calendar has them, seconds on either side of 1970 are broken up
\* into the date and time they are of, and local times that occur once, twice or not at all
\* are read as asked for.
THEOREM TimesStand == Spec => []TimesAreRight
  <1> DEFINE Inv == (part = "calendar" => DateInv) /\ (part = "zones" => ZoneInv)
  <1>1. Init => Inv
    BY DateInit, ZoneInit DEF Init
  <1>2. Inv /\ [Next]_allVars => Inv'
    <2> SUFFICES ASSUME Inv, [Next]_allVars PROVE Inv'
      OBVIOUS
    <2>1. part' = part
      BY DEF Next, Steps, allVars
    <2>2. part = "calendar" => [Ca!Next]_calVars
      BY DEF Next, Steps, allVars
    <2>3. part = "zones" => [Zo!Next]_zoneVars
      BY DEF Next, Steps, allVars
    <2> QED BY <2>1, <2>2, <2>3, DateStep, ZoneStep
  <1>3. Inv => TimesAreRight
    BY DateInvRight, ZoneInvRight DEF TimesAreRight
  <1> QED BY <1>1, <1>2, <1>3, PTL DEF Spec
=============================================================================
