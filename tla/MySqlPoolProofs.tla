--------------------------- MODULE MySqlPoolProofs ---------------------------
(* Proofs about MySqlPool, for any number of threads and connections. *)
EXTENDS MySqlPool, FiniteSetTheorems, TLAPS

\* The stack that MySqlManager::Init builds holds every connection once.
LEMMA InitialStack ==
  ASSUME NEW q \in Surjection(1..Cardinality(Conns), Conns)
  PROVE  /\ q \in Seq(Conns)
         /\ \A i, j \in DOMAIN q : q[i] = q[j] => i = j
         /\ Range(q) = Conns
  <1> DEFINE n == Cardinality(Conns)
  <1>1. n \in Nat
    BY PoolAssumption, FS_CardinalityType
  <1>2. q \in [1..n -> Conns] /\ \A c \in Conns : \E i \in 1..n : q[i] = c
    BY DEF Surjection
  <1>3. IsFiniteSet(1..n) /\ Cardinality(1..n) = n
    BY <1>1, FS_Interval
  <1>4. q \in Injection(1..n, Conns)
    BY <1>3, FS_SurjSameCardinalityImpliesInj
  <1>5. \A i, j \in 1..n : q[i] = q[j] => i = j
    BY <1>4 DEF Injection, IsInjective
  <1>6. q \in Seq(Conns)
    BY <1>1, <1>2
  <1> QED BY <1>2, <1>5, <1>6 DEF Range

\* acquire takes the top of the stack and leaves the rest as it is.
LEMMA Pop ==
  ASSUME NEW q \in Seq(Conns), q # <<>>,
         \A i, j \in DOMAIN q : q[i] = q[j] => i = j
  PROVE  LET r == SubSeq(q, 1, Len(q) - 1) IN
           /\ r \in Seq(Conns)
           /\ Len(r) = Len(q) - 1
           /\ q[Len(q)] \in Conns
           /\ \A i, j \in DOMAIN r : r[i] = r[j] => i = j
           /\ Range(r) = Range(q) \ {q[Len(q)]}
  <1> DEFINE r == SubSeq(q, 1, Len(q) - 1)
  <1>1. Len(q) \in Nat /\ Len(q) > 0 /\ DOMAIN q = 1..Len(q)
    OBVIOUS
  <1>2. /\ r \in Seq(Conns)
        /\ Len(r) = Len(q) - 1
        /\ DOMAIN r = 1..(Len(q) - 1)
        /\ \A i \in 1..(Len(q) - 1) : r[i] = q[i]
    BY <1>1
  <1>3. q[Len(q)] \in Conns
    BY <1>1
  <1> HIDE DEF r
  <1>4. \A i, j \in DOMAIN r : r[i] = r[j] => i = j
    BY <1>1, <1>2
  <1>5. ASSUME NEW c \in Range(r) PROVE c \in Range(q) /\ c # q[Len(q)]
    BY <1>1, <1>2, <1>5 DEF Range
  <1>6. ASSUME NEW c \in Range(q), c # q[Len(q)] PROVE c \in Range(r)
    <2>1. PICK i \in 1..Len(q) : c = q[i]
      BY <1>1 DEF Range
    <2>2. i \in 1..(Len(q) - 1)
      BY <1>1, <1>6, <2>1
    <2> QED BY <1>2, <2>1, <2>2 DEF Range
  <1>7. Range(r) = Range(q) \ {q[Len(q)]}
    BY <1>5, <1>6
  <1> QED BY <1>2, <1>3, <1>4, <1>7 DEF r

\* release puts a connection on the stack that was not there.
LEMMA Push ==
  ASSUME NEW q \in Seq(Conns), NEW c \in Conns \ Range(q),
         \A i, j \in DOMAIN q : q[i] = q[j] => i = j
  PROVE  /\ Append(q, c) \in Seq(Conns)
         /\ Len(Append(q, c)) = Len(q) + 1
         /\ \A i, j \in DOMAIN Append(q, c) : Append(q, c)[i] = Append(q, c)[j] => i = j
         /\ Range(Append(q, c)) = Range(q) \cup {c}
  <1> DEFINE r == Append(q, c)
  <1>1. /\ Len(q) \in Nat
        /\ DOMAIN q = 1..Len(q)
        /\ r \in Seq(Conns)
        /\ Len(r) = Len(q) + 1
        /\ DOMAIN r = 1..(Len(q) + 1)
        /\ r[Len(q) + 1] = c
        /\ \A i \in 1..Len(q) : r[i] = q[i]
    OBVIOUS
  <1> HIDE DEF r
  <1>2. \A i \in 1..Len(q) : q[i] # c
    BY <1>1 DEF Range
  <1>3. \A i, j \in DOMAIN r : r[i] = r[j] => i = j
    BY <1>1, <1>2
  <1>4. ASSUME NEW d \in Range(r) PROVE d \in Range(q) \cup {c}
    <2>1. PICK i \in 1..(Len(q) + 1) : d = r[i]
      BY <1>1 DEF Range
    <2>2. i \in 1..Len(q) \/ i = Len(q) + 1
      BY <1>1
    <2> QED BY <1>1, <2>1, <2>2 DEF Range
  <1>5. ASSUME NEW d \in Range(q) \cup {c} PROVE d \in Range(r)
    <2>1. CASE d = c
      BY <1>1, <2>1 DEF Range
    <2>2. CASE d \in Range(q)
      <3>1. PICK i \in 1..Len(q) : d = q[i]
        BY <1>1, <2>2 DEF Range
      <3>2. i \in DOMAIN r /\ r[i] = d
        BY <1>1, <3>1
      <3> QED BY <3>2 DEF Range
    <2> QED BY <2>1, <2>2, <1>5
  <1>6. Range(r) = Range(q) \cup {c}
    BY <1>4, <1>5
  <1> QED BY <1>1, <1>3, <1>6 DEF r

-----------------------------------------------------------------------------
(* Every connection in one place *)

PoolInv == TypeOK /\ EveryConnectionOnce

\* The pool starts with every connection on the stack.
LEMMA PoolInit == Init => PoolInv
  <1> SUFFICES ASSUME Init PROVE PoolInv
    OBVIOUS
  <1>1. TypeOK
    BY InitialStack DEF Init, TypeOK, Handles
  <1>2. EveryConnectionOnce
    BY InitialStack DEF Init, EveryConnectionOnce, Holding
  <1> QED BY <1>1, <1>2 DEF PoolInv

\* Borrowing moves one connection from the stack to the thread.
LEMMA TakeKeeps ==
  ASSUME PoolInv, NEW t \in Threads, pc[t] \in {"out", "woken"}, Take(t),
         UNCHANGED <<handle, outcome, serverUp>>
  PROVE  PoolInv'
  <1> DEFINE top == idle[Len(idle)]
  <1>1. /\ idle \in Seq(Conns)
        /\ \A i, j \in DOMAIN idle : idle[i] = idle[j] => i = j
    BY DEF PoolInv, TypeOK, EveryConnectionOnce
  <1>2. /\ idle' \in Seq(Conns)
        /\ top \in Conns
        /\ \A i, j \in DOMAIN idle' : idle'[i] = idle'[j] => i = j
        /\ Range(idle') = Range(idle) \ {top}
    BY <1>1, Pop DEF Take
  <1>3. top \in Range(idle)
    BY <1>1 DEF Take, Range
  <1>4. /\ pc' = [pc EXCEPT ![t] = "use"]
        /\ held' = [held EXCEPT ![t] = top]
    BY DEF Take
  <1> HIDE DEF top
  <1>5. TypeOK'
    BY <1>2, <1>4 DEF PoolInv, TypeOK
  <1>6. \A u \in Threads : IF u = t THEN Holding(u)' /\ held'[u] = top
                           ELSE Holding(u)' = Holding(u) /\ held'[u] = held[u]
    BY <1>4 DEF PoolInv, TypeOK, Holding
  <1>7. ~ Holding(t)
    BY DEF Holding
  <1>8. \A u \in Threads : Holding(u)' => held'[u] \in Conns \ Range(idle')
    BY <1>2, <1>6 DEF PoolInv, EveryConnectionOnce
  <1>9. \A u, v \in Threads : Holding(u)' /\ Holding(v)' /\ held'[u] = held'[v] => u = v
    BY <1>3, <1>6 DEF PoolInv, EveryConnectionOnce
  <1>10. \A c \in Conns : c \in Range(idle') \/ \E u \in Threads : Holding(u)' /\ held'[u] = c
    BY <1>2, <1>6, <1>7 DEF PoolInv, EveryConnectionOnce
  <1> QED BY <1>2, <1>5, <1>8, <1>9, <1>10 DEF PoolInv, EveryConnectionOnce

\* A step that moves no connection keeps the invariant.
LEMMA StaysPut ==
  ASSUME PoolInv, TypeOK', idle' = idle, held' = held,
         \A t \in Threads : Holding(t)' = Holding(t)
  PROVE  PoolInv'
  BY DEF PoolInv, EveryConnectionOnce

\* Returning moves it back.
LEMMA ReleaseKeeps ==
  ASSUME PoolInv, NEW t \in Threads, Release(t)
  PROVE  PoolInv'
  <1>1. /\ idle \in Seq(Conns)
        /\ \A i, j \in DOMAIN idle : idle[i] = idle[j] => i = j
    BY DEF PoolInv, TypeOK, EveryConnectionOnce
  <1>2. Holding(t)
    BY DEF Release, Holding
  <1>3. held[t] \in Conns \ Range(idle)
    BY <1>2 DEF PoolInv, EveryConnectionOnce
  <1>4. /\ idle' \in Seq(Conns)
        /\ \A i, j \in DOMAIN idle' : idle'[i] = idle'[j] => i = j
        /\ Range(idle') = Range(idle) \cup {held[t]}
    BY <1>1, <1>3, Push DEF Release
  <1>5. TypeOK'
    BY <1>4 DEF PoolInv, TypeOK, Release
  <1>6. \A u \in Threads : IF u = t THEN ~ Holding(u)'
                           ELSE Holding(u)' = Holding(u) /\ held'[u] = held[u]
    BY DEF PoolInv, TypeOK, Holding, Release
  <1>7. \A u \in Threads : Holding(u)' => held'[u] \in Conns \ Range(idle')
    BY <1>2, <1>4, <1>6 DEF PoolInv, EveryConnectionOnce
  <1>8. \A u, v \in Threads : Holding(u)' /\ Holding(v)' /\ held'[u] = held'[v] => u = v
    BY <1>6 DEF PoolInv, EveryConnectionOnce
  <1>9. \A c \in Conns : c \in Range(idle') \/ \E u \in Threads : Holding(u)' /\ held'[u] = c
    BY <1>4, <1>6 DEF PoolInv, EveryConnectionOnce
  <1> QED BY <1>4, <1>5, <1>7, <1>8, <1>9 DEF PoolInv, EveryConnectionOnce

\* Every step of a thread and of the server keeps each connection in one place.
LEMMA PoolStep == PoolInv /\ [Next]_vars => PoolInv'
  <1> SUFFICES ASSUME PoolInv, [Next]_vars PROVE PoolInv'
    OBVIOUS
  <1>1. ASSUME NEW t \in Threads, Acquire(t) PROVE PoolInv'
    <2>1. CASE Take(t)
      BY <1>1, <2>1, TakeKeeps DEF Acquire
    <2>2. CASE Wait(t)
      <3>1. TypeOK'
        BY <1>1, <2>2 DEF PoolInv, TypeOK, Acquire, Wait
      <3>2. \A u \in Threads : Holding(u)' = Holding(u)
        BY <1>1, <2>2 DEF PoolInv, TypeOK, Acquire, Wait, Holding
      <3> QED BY <2>2, <3>1, <3>2, StaysPut DEF Wait
    <2> QED BY <1>1, <2>1, <2>2 DEF Acquire
  <1>2. ASSUME NEW t \in Threads, SpuriousWakeup(t) PROVE PoolInv'
    <2>1. TypeOK' /\ \A u \in Threads : Holding(u)' = Holding(u)
      BY <1>2 DEF PoolInv, TypeOK, SpuriousWakeup, Holding
    <2> QED BY <1>2, <2>1, StaysPut DEF SpuriousWakeup
  <1>3. ASSUME NEW t \in Threads, Release(t) PROVE PoolInv'
    BY <1>3, ReleaseKeeps
  <1>4. ASSUME NEW t \in Threads, NotifyOne(t) PROVE PoolInv'
    <2>1. TypeOK' /\ \A u \in Threads : Holding(u)' = Holding(u)
      BY <1>4 DEF PoolInv, TypeOK, NotifyOne, Waiting, Holding
    <2> QED BY <1>4, <2>1, StaysPut DEF NotifyOne
  <1>5. ASSUME NEW t \in Threads, NEW h \in Handles, NEW r \in {"answered", "failed"},
               pc[t] \in {"use", "retry"}, Finish(t, h, r)
        PROVE  PoolInv'
    <2>1. \A u \in Threads : Holding(u)' = Holding(u)
      BY <1>5 DEF PoolInv, TypeOK, Finish, Holding
    <2>2. handle' \in [Conns -> Handles]
      BY <1>5 DEF PoolInv, TypeOK, Finish
    <2>3. outcome' \in [Threads -> {"none", "answered", "failed"}]
      BY <1>5 DEF PoolInv, TypeOK, Finish
    <2>4. TypeOK'
      BY <1>5, <2>2, <2>3 DEF PoolInv, TypeOK, Finish
    <2> QED BY <1>5, <2>1, <2>4, StaysPut DEF Finish
  <1>6. ASSUME NEW t \in Threads, Answered(t) \/ LostDuringQuery(t) \/ RetryFails(t)
        PROVE  PoolInv'
    BY <1>5, <1>6 DEF Answered, LostDuringQuery, RetryFails, Handles
  <1>7. ASSUME NEW t \in Threads, Reconnect(t) PROVE PoolInv'
    <2>1. CASE serverUp
      <3>1. TypeOK' /\ \A u \in Threads : Holding(u)' = Holding(u)
        BY <1>7, <2>1 DEF PoolInv, TypeOK, Reconnect, Holding, Handles
      <3> QED BY <1>7, <2>1, <3>1, StaysPut DEF Reconnect
    <2>2. CASE ~ serverUp
      BY <1>5, <1>7, <2>2 DEF Reconnect, Handles
    <2> QED BY <2>1, <2>2
  <1>8. ASSUME NEW C \in SUBSET Conns, ServerCloses(C) PROVE PoolInv'
    <2>1. TypeOK' /\ \A u \in Threads : Holding(u)' = Holding(u)
      BY <1>8 DEF PoolInv, TypeOK, ServerCloses, Holding, Handles
    <2> QED BY <1>8, <2>1, StaysPut DEF ServerCloses
  <1>9. CASE UNCHANGED vars
    BY <1>9 DEF vars, PoolInv, TypeOK, EveryConnectionOnce, Holding
  <1> QED BY <1>1, <1>2, <1>3, <1>4, <1>6, <1>7, <1>8, <1>9
          DEF Next, Begin, Proceed

\* No connection is ever shared or lost, for any number of threads and
\* connections.
THEOREM ConnectionsExclusive == Spec => []EveryConnectionOnce
  <1>1. PoolInv => EveryConnectionOnce
    BY DEF PoolInv
  <1> QED BY <1>1, PoolInit, PoolStep, PTL DEF Spec

-----------------------------------------------------------------------------
(* No lost wakeup *)

\* The alerted threads can be counted.
LEMMA AlertedFinite == IsFiniteSet(Alerted) /\ Cardinality(Alerted) \in Nat
  <1>1. IsFiniteSet(Alerted)
    BY PoolAssumption, FS_Subset DEF Alerted
  <1> QED BY <1>1, FS_CardinalityType

\* Borrowing uses up at most one alert and exactly one idle connection.
LEMMA TakeWakeup ==
  ASSUME PoolInv, NoLostWakeup, NEW t \in Threads, pc[t] \in {"out", "woken"}, Take(t)
  PROVE  NoLostWakeup'
  <1>1. Len(idle') = Len(idle) - 1
    BY Pop DEF PoolInv, TypeOK, EveryConnectionOnce, Take
  <1>2. Len(idle) \in Nat
    BY DEF PoolInv, TypeOK
  <1>3. Waiting' = Waiting
    BY DEF PoolInv, TypeOK, Take, Waiting
  <1>4. Alerted' = Alerted \ {t}
    BY DEF PoolInv, TypeOK, Take, Alerted
  <1>5. Cardinality(Alerted') >= Cardinality(Alerted) - 1
    BY <1>4, AlertedFinite, FS_RemoveElement
  <1>6. Cardinality(Alerted) \in Nat /\ Cardinality(Alerted') \in Nat
    BY <1>4, AlertedFinite, FS_RemoveElement, FS_CardinalityType
  <1> QED BY <1>1, <1>2, <1>3, <1>5, <1>6 DEF NoLostWakeup

\* Returning a connection comes with a notification.
LEMMA ReleaseWakeup ==
  ASSUME PoolInv, NoLostWakeup, NEW t \in Threads, Release(t)
  PROVE  NoLostWakeup'
  <1>1. Len(idle') = Len(idle) + 1 /\ Len(idle) \in Nat
    BY DEF PoolInv, TypeOK, Release
  <1>2. Waiting' = Waiting
    BY DEF PoolInv, TypeOK, Release, Waiting
  <1>3. Alerted' = Alerted \cup {t} /\ t \notin Alerted
    BY DEF PoolInv, TypeOK, Release, Alerted
  <1>4. Cardinality(Alerted') = Cardinality(Alerted) + 1
    BY <1>3, AlertedFinite, FS_AddElement
  <1> QED BY <1>1, <1>2, <1>4, AlertedFinite DEF NoLostWakeup

\* A notification is handed to a waiting thread, or nobody waits.
LEMMA NotifyWakeup ==
  ASSUME PoolInv, NoLostWakeup, NEW t \in Threads, NotifyOne(t)
  PROVE  NoLostWakeup'
  <1>1. CASE Waiting = {}
    <2>1. Waiting' = {}
      BY <1>1 DEF PoolInv, TypeOK, NotifyOne, Waiting
    <2> QED BY <2>1 DEF NoLostWakeup
  <1>2. CASE Waiting # {}
    <2>1. PICK w \in Waiting : pc' = [pc EXCEPT ![t] = "out", ![w] = "woken"]
      BY <1>2 DEF NotifyOne
    <2>2. pc[t] = "notify" /\ pc[w] = "wait" /\ w \in Threads
      BY <2>1 DEF NotifyOne, Waiting
    <2>3. /\ Alerted' = (Alerted \ {t}) \cup {w}
          /\ t \in Alerted
          /\ w \notin Alerted \ {t}
      BY <2>1, <2>2 DEF PoolInv, TypeOK, Alerted
    <2>4. /\ IsFiniteSet(Alerted \ {t})
          /\ Cardinality(Alerted \ {t}) = Cardinality(Alerted) - 1
      BY <2>3, AlertedFinite, FS_RemoveElement
    <2>5. Cardinality(Alerted') = Cardinality(Alerted \ {t}) + 1
      BY <2>3, <2>4, FS_AddElement
    <2>6. Cardinality(Alerted') = Cardinality(Alerted)
      BY <2>4, <2>5, AlertedFinite
    <2>7. idle' = idle
      BY DEF NotifyOne
    <2> QED BY <1>2, <2>6, <2>7 DEF NoLostWakeup
  <1> QED BY <1>1, <1>2

\* Every step keeps enough alerts for the idle connections.
LEMMA WakeupStep == PoolInv /\ NoLostWakeup /\ [Next]_vars => NoLostWakeup'
  <1> SUFFICES ASSUME PoolInv, NoLostWakeup, [Next]_vars PROVE NoLostWakeup'
    OBVIOUS
  <1>1. ASSUME NEW t \in Threads, Acquire(t) PROVE NoLostWakeup'
    <2>1. CASE Take(t)
      BY <1>1, <2>1, TakeWakeup DEF Acquire
    <2>2. CASE Wait(t)
      <3>1. Len(idle') = 0
        BY <2>2 DEF Wait
      <3>2. Alerted' \subseteq Threads
        BY DEF Alerted
      <3>3. Cardinality(Alerted') \in Nat
        BY <3>2, PoolAssumption, FS_Subset, FS_CardinalityType
      <3> QED BY <3>1, <3>3 DEF NoLostWakeup
    <2> QED BY <1>1, <2>1, <2>2 DEF Acquire
  <1>2. ASSUME NEW t \in Threads, SpuriousWakeup(t) PROVE NoLostWakeup'
    <2>1. Waiting' \subseteq Waiting /\ idle' = idle
      BY <1>2 DEF PoolInv, TypeOK, SpuriousWakeup, Waiting
    <2>2. Alerted' = Alerted \cup {t}
      BY <1>2 DEF PoolInv, TypeOK, SpuriousWakeup, Alerted
    <2>3. Cardinality(Alerted') >= Cardinality(Alerted)
      BY <2>2, AlertedFinite, FS_AddElement
    <2>4. Cardinality(Alerted') \in Nat
      BY <2>2, AlertedFinite, FS_AddElement, FS_CardinalityType
    <2>5. Len(idle) \in Nat
      BY DEF PoolInv, TypeOK
    <2> QED BY <2>1, <2>3, <2>4, <2>5, AlertedFinite DEF NoLostWakeup
  <1>3. ASSUME NEW t \in Threads, Release(t) PROVE NoLostWakeup'
    BY <1>3, ReleaseWakeup
  <1>4. ASSUME NEW t \in Threads, NotifyOne(t) PROVE NoLostWakeup'
    BY <1>4, NotifyWakeup
  <1>5. ASSUME idle' = idle, Waiting' = Waiting, Alerted' = Alerted PROVE NoLostWakeup'
    BY <1>5 DEF NoLostWakeup
  <1>6. ASSUME NEW t \in Threads, NEW h, NEW r, pc[t] \in {"use", "retry"}, Finish(t, h, r)
        PROVE  NoLostWakeup'
    <2>1. Waiting' = Waiting /\ Alerted' = Alerted
      BY <1>6 DEF PoolInv, TypeOK, Finish, Waiting, Alerted
    <2> QED BY <1>5, <1>6, <2>1 DEF Finish
  <1>7. ASSUME NEW t \in Threads, Answered(t) \/ LostDuringQuery(t) \/ RetryFails(t)
        PROVE  NoLostWakeup'
    BY <1>6, <1>7 DEF Answered, LostDuringQuery, RetryFails
  <1>8. ASSUME NEW t \in Threads, Reconnect(t) PROVE NoLostWakeup'
    <2>1. CASE serverUp
      <3>1. Waiting' = Waiting /\ Alerted' = Alerted
        BY <1>8, <2>1 DEF PoolInv, TypeOK, Reconnect, Waiting, Alerted
      <3> QED BY <1>5, <1>8, <2>1, <3>1 DEF Reconnect
    <2>2. CASE ~ serverUp
      BY <1>6, <1>8, <2>2 DEF Reconnect
    <2> QED BY <2>1, <2>2
  <1>9. ASSUME NEW C \in SUBSET Conns, ServerCloses(C) PROVE NoLostWakeup'
    <2>1. Waiting' = Waiting /\ Alerted' = Alerted
      BY <1>9 DEF ServerCloses, Waiting, Alerted
    <2> QED BY <1>5, <1>9, <2>1 DEF ServerCloses
  <1>10. CASE UNCHANGED vars
    BY <1>10, <1>5 DEF vars, Waiting, Alerted
  <1> QED BY <1>1, <1>2, <1>3, <1>4, <1>7, <1>8, <1>9, <1>10
          DEF Next, Begin, Proceed

\* A thread never sleeps beside an idle connection that nobody will wake it
\* for, for any number of threads and connections.
THEOREM WakeupsKept == Spec => []NoLostWakeup
  <1>1. Init => NoLostWakeup
    BY DEF Init, NoLostWakeup, Waiting
  <1> QED BY <1>1, PoolInit, PoolStep, WakeupStep, PTL DEF Spec
=============================================================================
