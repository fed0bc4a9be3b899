------------------------ MODULE ChatPersistenceProofs ------------------------
(* Proofs about ChatPersistence, for any number of messages, alien events,    *)
(* faults and any prefetch count.                                             *)
EXTENDS ChatPersistence, TLAPS

USE DEF serverVars, brokerVars, workerVars, dbVars, ghosts

\* The consumer's delivery is the head of unacked only because of WorkerInv, so
\* the types are proved together with it.
Inv == TypeOK /\ WorkerInv

\* Queues of the broker.
LEMMA HeadTail ==
  ASSUME NEW q \in Seq(Events), q # <<>>
  PROVE  /\ Head(q) \in Events
         /\ Tail(q) \in Seq(Events)
         /\ Range(q) = {Head(q)} \cup Range(Tail(q))
  <1> DEFINE t == Tail(q)
  <1>1. /\ Len(q) \in Nat /\ Len(q) > 0
        /\ DOMAIN q = 1..Len(q)
        /\ Head(q) = q[1] /\ Head(q) \in Events
        /\ t \in Seq(Events)
        /\ DOMAIN t = 1..(Len(q) - 1)
        /\ \A i \in 1..(Len(q) - 1) : t[i] = q[i + 1]
    OBVIOUS
  <1> HIDE DEF t
  <1>2. ASSUME NEW e \in Range(q) PROVE e \in {Head(q)} \cup Range(t)
    <2>1. PICK i \in 1..Len(q) : e = q[i]
      BY <1>1 DEF Range
    <2>2. CASE i = 1
      BY <1>1, <2>1, <2>2
    <2>3. CASE i # 1
      <3>1. i - 1 \in DOMAIN t /\ t[i - 1] = e
        BY <1>1, <2>1, <2>3
      <3> QED BY <3>1 DEF Range
    <2> QED BY <2>2, <2>3
  <1>3. Head(q) \in Range(q)
    BY <1>1 DEF Range
  <1>4. ASSUME NEW e \in Range(t) PROVE e \in Range(q)
    <2>1. PICK i \in 1..(Len(q) - 1) : e = t[i]
      BY <1>1 DEF Range
    <2>2. i + 1 \in DOMAIN q /\ q[i + 1] = e
      BY <1>1, <2>1
    <2> QED BY <2>2 DEF Range
  <1>5. Range(q) = {Head(q)} \cup Range(t)
    BY <1>2, <1>3, <1>4
  <1> QED BY <1>1, <1>5 DEF t

\* A message appended to a queue.
LEMMA AppendRange ==
  ASSUME NEW q \in Seq(Events), NEW e \in Events
  PROVE  Append(q, e) \in Seq(Events) /\ Range(Append(q, e)) = Range(q) \cup {e}
  <1> DEFINE r == Append(q, e)
  <1>1. /\ Len(q) \in Nat
        /\ r \in Seq(Events)
        /\ DOMAIN q = 1..Len(q)
        /\ DOMAIN r = 1..(Len(q) + 1)
        /\ r[Len(q) + 1] = e
        /\ \A i \in 1..Len(q) : r[i] = q[i]
    OBVIOUS
  <1> HIDE DEF r
  <1>2. ASSUME NEW d \in Range(r) PROVE d \in Range(q) \cup {e}
    <2>1. PICK i \in 1..(Len(q) + 1) : d = r[i]
      BY <1>1 DEF Range
    <2>2. i \in 1..Len(q) \/ i = Len(q) + 1
      BY <1>1
    <2> QED BY <1>1, <2>1, <2>2 DEF Range
  <1>3. ASSUME NEW d \in Range(q) PROVE d \in Range(r)
    <2>1. PICK i \in 1..Len(q) : d = q[i]
      BY <1>1 DEF Range
    <2>2. i \in DOMAIN r /\ r[i] = d
      BY <1>1, <2>1
    <2> QED BY <2>2 DEF Range
  <1>4. e \in Range(r)
    BY <1>1 DEF Range
  <1>5. Range(r) = Range(q) \cup {e}
    BY <1>2, <1>3, <1>4
  <1> QED BY <1>1, <1>5 DEF r

\* Deliveries put back before the rest of the queue.
LEMMA ConcatRange ==
  ASSUME NEW p \in Seq(Events), NEW q \in Seq(Events)
  PROVE  p \o q \in Seq(Events) /\ Range(p \o q) = Range(p) \cup Range(q)
  <1> DEFINE r == p \o q
  <1>1. /\ Len(p) \in Nat /\ Len(q) \in Nat
        /\ r \in Seq(Events)
        /\ DOMAIN p = 1..Len(p)
        /\ DOMAIN q = 1..Len(q)
        /\ DOMAIN r = 1..(Len(p) + Len(q))
        /\ \A i \in 1..(Len(p) + Len(q)) :
             r[i] = IF i <= Len(p) THEN p[i] ELSE q[i - Len(p)]
    OBVIOUS
  <1> HIDE DEF r
  <1>2. ASSUME NEW d \in Range(r) PROVE d \in Range(p) \cup Range(q)
    <2>1. PICK i \in 1..(Len(p) + Len(q)) : d = r[i]
      BY <1>1 DEF Range
    <2>2. CASE i <= Len(p)
      <3>1. i \in DOMAIN p /\ p[i] = d
        BY <1>1, <2>1, <2>2
      <3> QED BY <3>1 DEF Range
    <2>3. CASE i > Len(p)
      <3>1. i - Len(p) \in DOMAIN q /\ q[i - Len(p)] = d
        BY <1>1, <2>1, <2>3
      <3> QED BY <3>1 DEF Range
    <2> QED BY <1>1, <2>2, <2>3
  <1>3. ASSUME NEW d \in Range(p) PROVE d \in Range(r)
    <2>1. PICK i \in 1..Len(p) : d = p[i]
      BY <1>1 DEF Range
    <2>2. i \in DOMAIN r /\ r[i] = d
      BY <1>1, <2>1
    <2> QED BY <2>2 DEF Range
  <1>4. ASSUME NEW d \in Range(q) PROVE d \in Range(r)
    <2>1. PICK i \in 1..Len(q) : d = q[i]
      BY <1>1 DEF Range
    <2>2. i + Len(p) \in DOMAIN r /\ r[i + Len(p)] = d
      BY <1>1, <2>1
    <2> QED BY <2>2 DEF Range
  <1>5. Range(r) = Range(p) \cup Range(q)
    BY <1>2, <1>3, <1>4
  <1> QED BY <1>1, <1>5 DEF r

\* A delivery that is refused goes back alone.
LEMMA PushBack ==
  ASSUME NEW e \in Events, NEW q \in Seq(Events)
  PROVE  <<e>> \o q \in Seq(Events) /\ Range(<<e>> \o q) = {e} \cup Range(q)
  <1>1. <<e>> \in Seq(Events) /\ Range(<<e>>) = {e}
    BY DEF Range
  <1> QED BY <1>1, ConcatRange

-----------------------------------------------------------------------------
(* Types and the consumer's loop *)

\* All three programs start empty.
LEMMA InitInv == Init => Inv
  <1> SUFFICES ASSUME Init PROVE Inv
    OBVIOUS
  <1>1. TypeOK
    <2>1. /\ connected \in BOOLEAN /\ alive \in BOOLEAN /\ brokerUp \in BOOLEAN
          /\ bound \in BOOLEAN /\ channel \in BOOLEAN /\ dbUp \in BOOLEAN
      BY DEF Init
    <2>2. queue \in Seq(Events) /\ unacked \in Seq(Events)
      BY DEF Init
    <2>3. pc \in [Msgs -> {"new", "publish", "send", "save", "done"}] /\ rows \in [Msgs -> Nat]
      BY DEF Init
    <2> QED BY <2>1, <2>2, <2>3 DEF Init, TypeOK
  <1>2. WorkerInv
    BY DEF Init, WorkerInv
  <1> QED BY <1>1, <1>2 DEF Inv

\* Recording a loss keeps the history variable well typed.
LEMMA LostType ==
  ASSUME NEW S, NEW why \in Reasons
  PROVE  Lost(S, why) \subseteq Msgs \X Reasons
  BY DEF Lost

\* Steps of OnChatResponse and of the publisher.
LEMMA ServerInv ==
  ASSUME Inv, NEW m \in Msgs, Server(m)
  PROVE  Inv'
  <1> USE DEF Inv
  <1>1. CASE OnChat(m)
    BY <1>1 DEF OnChat, TypeOK, WorkerInv
  <1>2. CASE EnsureConnected(m)
    BY <1>2 DEF EnsureConnected, TypeOK, WorkerInv
  <1>3. CASE ConnectFails(m)
    BY <1>3 DEF ConnectFails, TypeOK, WorkerInv
  <1>4. CASE BasicPublish(m)
    <2>1. lost' \subseteq Msgs \X Reasons
      BY <1>4, LostType DEF BasicPublish, TypeOK, Reasons
    <2>2. socket' \subseteq Events
      BY <1>4 DEF BasicPublish, TypeOK, Events
    <2> QED BY <1>4, <2>1, <2>2 DEF BasicPublish, TypeOK, WorkerInv
  <1>5. CASE PublishFails(m)
    BY <1>5 DEF PublishFails, TypeOK, WorkerInv
  <1>6. CASE SaveChatMsgToDb(m)
    <2>1. lost' \subseteq Msgs \X Reasons
      BY <1>6, LostType DEF SaveChatMsgToDb, TypeOK, Reasons
    <2>2. rows' \in [Msgs -> Nat] /\ \A n \in Msgs : rows[n] > 0 => rows'[n] > 0
      <3>1. CASE dbUp /\ m \notin TooLong
        <4>1. rows' = [rows EXCEPT ![m] = @ + 1] /\ rows \in [Msgs -> Nat]
          BY <1>6, <3>1 DEF SaveChatMsgToDb, TypeOK
        <4> QED BY <4>1
      <3>2. CASE ~ (dbUp /\ m \notin TooLong)
        BY <1>6, <3>2 DEF SaveChatMsgToDb, TypeOK
      <3> QED BY <3>1, <3>2
    <2> QED BY <1>6, <2>1, <2>2 DEF SaveChatMsgToDb, TypeOK, WorkerInv
  <1> QED BY <1>1, <1>2, <1>3, <1>4, <1>5, <1>6 DEF Server

\* Steps of consumeOnce.
LEMMA PersisterInv ==
  ASSUME Inv, Persister
  PROVE  Inv'
  <1> USE DEF Inv
  <1>1. CASE Subscribe
    BY <1>1 DEF Subscribe, TypeOK, WorkerInv
  <1>2. CASE Disconnected
    BY <1>2 DEF Disconnected, TypeOK, WorkerInv
  <1>3. CASE Receive
    <2>1. Head(unacked) \in Events /\ Tail(unacked) \in Seq(Events)
      BY <1>3, HeadTail DEF Receive, TypeOK
    <2> QED BY <1>3, <2>1 DEF Receive, TypeOK, WorkerInv, Events
  <1>4. CASE Save
    <2>1. cur \in Msgs
      BY <1>4 DEF Save, WorkerInv
    <2>2. rows' \in [Msgs -> Nat] /\ rows'[cur] > 0
      BY <1>4, <2>1 DEF Save, TypeOK
    <2> QED BY <1>4, <2>1, <2>2 DEF Save, TypeOK, WorkerInv
  <1>5. CASE SaveFails
    <2>1. cur \in Msgs
      BY <1>5 DEF SaveFails, WorkerInv
    <2>2. rows' \in [Msgs -> Nat] /\ faults' \in Nat
      BY <1>5, <2>1 DEF SaveFails, Fault, TypeOK
    <2>3. unacked' \in Seq(Events) /\ queue' \in Seq(Events) /\ redelivered' \subseteq Events
      <3>1. CASE channel
        <4>1. unacked # <<>>
          BY <1>5, <3>1 DEF SaveFails, WorkerInv
        <4>2. unacked \in Seq(Events) /\ queue \in Seq(Events) /\ redelivered \subseteq Events
          BY DEF TypeOK
        <4>3. cur \in Events
          BY <2>1 DEF Events
        <4>4. /\ unacked' = Tail(unacked)
              /\ queue' = <<cur>> \o queue
              /\ redelivered' = redelivered \cup {cur}
          BY <1>5, <3>1 DEF SaveFails, NackRequeue
        <4>5. unacked' \in Seq(Events)
          BY <4>1, <4>2, <4>4, HeadTail
        <4>6. queue' \in Seq(Events)
          BY <4>2, <4>3, <4>4, PushBack
        <4> QED BY <4>2, <4>3, <4>4, <4>5, <4>6
      <3>2. CASE ~ channel
        BY <1>5, <3>2 DEF SaveFails, NackRequeue, TypeOK
      <3> QED BY <3>1, <3>2
    <2> QED BY <1>5, <2>2, <2>3 DEF SaveFails, TypeOK, WorkerInv
  <1>6. CASE Ack
    <2>1. unacked' \in Seq(Events)
      BY <1>6, HeadTail DEF Ack, WorkerInv, TypeOK
    <2> QED BY <1>6, <2>1 DEF Ack, TypeOK, WorkerInv
  <1> QED BY <1>1, <1>2, <1>3, <1>4, <1>5, <1>6 DEF Persister

\* Steps of the broker.
LEMMA BrokerInv ==
  ASSUME Inv, Broker
  PROVE  Inv'
  <1> USE DEF Inv
  <1>1. CASE Deliver
    <2>1. Head(queue) \in Events /\ Tail(queue) \in Seq(Events)
      BY <1>1, HeadTail DEF Deliver, TypeOK
    <2>2. unacked' \in Seq(Events)
      BY <1>1, <2>1 DEF Deliver, TypeOK
    <2>3. unacked # <<>> => unacked' # <<>> /\ Head(unacked') = Head(unacked)
      BY <1>1, <2>1 DEF Deliver, TypeOK
    <2> QED BY <1>1, <2>1, <2>2, <2>3 DEF Deliver, TypeOK, WorkerInv
  <1>2. ASSUME NEW m \in Events, BrokerRoutes(m) PROVE Inv'
    <2>1. lost' \subseteq Msgs \X Reasons
      BY <1>2, LostType DEF BrokerRoutes, TypeOK, Reasons
    <2>2. queue' \in Seq(Events)
      <3>1. queue \in Seq(Events)
        BY DEF TypeOK
      <3>2. queue' = Append(queue, m) \/ queue' = queue
        BY <1>2 DEF BrokerRoutes
      <3> QED BY <3>1, <3>2, AppendRange
    <2>3. socket' \subseteq Events
      BY <1>2 DEF BrokerRoutes, TypeOK
    <2> QED BY <1>2, <2>1, <2>2, <2>3 DEF BrokerRoutes, TypeOK, WorkerInv
  <1> QED BY <1>1, <1>2 DEF Broker

\* Crashes, restarts and lost connections.
LEMMA EnvironmentInv ==
  ASSUME Inv, Environment
  PROVE  Inv'
  <1> USE DEF Inv
  <1>1. ASSUME Requeue PROVE /\ queue' \in Seq(Events)
                             /\ unacked' \in Seq(Events)
                             /\ channel' \in BOOLEAN
                             /\ redelivered' \subseteq Events
    <2>1. Range(unacked) \subseteq Events
      BY DEF TypeOK, Range
    <2>2. queue' \in Seq(Events)
      BY <1>1, ConcatRange DEF Requeue, TypeOK
    <2>3. unacked' \in Seq(Events)
      BY <1>1 DEF Requeue
    <2>4. channel' \in BOOLEAN
      BY <1>1 DEF Requeue
    <2> QED BY <1>1, <2>1, <2>2, <2>3, <2>4 DEF Requeue, TypeOK
  <1>2. ASSUME Fault PROVE faults' \in Nat
    BY <1>2 DEF Fault, TypeOK
  <1>3. CASE ServerCrash
    <2>1. lost' \subseteq Msgs \X Reasons
      BY <1>3, LostType DEF ServerCrash, TypeOK, Reasons
    <2> QED BY <1>2, <1>3, <2>1 DEF ServerCrash, TypeOK, WorkerInv
  <1>4. CASE LinkLost
    <2>1. lost' \subseteq Msgs \X Reasons
      BY <1>4, LostType DEF LinkLost, TypeOK, Reasons
    <2> QED BY <1>2, <1>4, <2>1 DEF LinkLost, TypeOK, WorkerInv
  <1>5. CASE ChannelLost
    BY <1>1, <1>2, <1>5 DEF ChannelLost, Requeue, TypeOK, WorkerInv
  <1>6. CASE BrokerCrash
    <2>1. lost' \subseteq Msgs \X Reasons
      BY <1>6, LostType DEF BrokerCrash, TypeOK, Reasons
    <2> QED BY <1>1, <1>2, <1>6, <2>1 DEF BrokerCrash, Requeue, TypeOK, WorkerInv
  <1>7. CASE BrokerStart \/ DbStops \/ DbStarts
    <2>1. CASE BrokerStart
      BY <2>1 DEF BrokerStart, TypeOK, WorkerInv
    <2>2. CASE DbStops
      BY <1>2, <2>2 DEF DbStops, TypeOK, WorkerInv
    <2>3. CASE DbStarts
      BY <2>3 DEF DbStarts, TypeOK, WorkerInv
    <2> QED BY <1>7, <2>1, <2>2, <2>3
  <1>8. CASE WorkerCrash
    BY <1>1, <1>2, <1>8 DEF WorkerCrash, Requeue, TypeOK, WorkerInv
  <1>9. ASSUME NEW e \in Alien, AlienPublish(e) PROVE Inv'
    BY <1>2, <1>9 DEF AlienPublish, TypeOK, WorkerInv, Events
  <1> QED BY <1>3, <1>4, <1>5, <1>6, <1>7, <1>8, <1>9 DEF Environment

\* Every step of the three programs and of their surroundings.
LEMMA InvStep == Inv /\ [Next]_vars => Inv'
  <1> SUFFICES ASSUME Inv, [Next]_vars PROVE Inv'
    OBVIOUS
  <1>1. CASE UNCHANGED vars
    BY <1>1 DEF vars, Inv, TypeOK, WorkerInv
  <1> QED BY <1>1, ServerInv, PersisterInv, BrokerInv, EnvironmentInv DEF Next

\* Types of the persistence pipeline, for every value of the constants.
THEOREM PersistenceTypes == Spec => []TypeOK
  <1>1. Inv => TypeOK
    BY DEF Inv
  <1> QED BY <1>1, InitInv, InvStep, PTL DEF Spec

\* consumeOnce acknowledges only a delivery whose row it has written, and the
\* delivery it works on is the one its Ack or Nack removes.
THEOREM AckAfterSave == Spec => []WorkerInv
  <1>1. Inv => WorkerInv
    BY DEF Inv
  <1> QED BY <1>1, InitInv, InvStep, PTL DEF Spec

-----------------------------------------------------------------------------
(* No message disappears *)

\* A message that has its row, is with the broker or is known to be lost.
Settled(m) == rows[m] > 0 \/ InBroker(m) \/ IsLost(m)

\* Losses are never forgotten, and a recorded one counts.
LEMMA LostCounts ==
  ASSUME NEW S, NEW why \in Reasons, NEW m \in S \cap Msgs,
         lost' = lost \cup Lost(S, why)
  PROVE  IsLost(m)'
  <1>1. <<m, why>> \in lost'
    BY DEF Lost
  <1> QED BY <1>1 DEF IsLost

\* A step that takes nothing away keeps a settled message settled.
LEMMA Keeps ==
  ASSUME NEW m \in Msgs, Settled(m),
         rows[m] > 0 => rows'[m] > 0,
         InBroker(m) => InBroker(m)' \/ IsLost(m)' \/ rows'[m] > 0,
         lost \subseteq lost'
  PROVE  Settled(m)'
  BY DEF Settled, IsLost

\* Whatever happens to the consumer's channel, its deliveries stay in the queue.
LEMMA RequeueKeeps ==
  ASSUME Inv, Requeue
  PROVE  Range(queue') \cup Range(unacked') = Range(queue) \cup Range(unacked)
  <1>1. Range(queue') = Range(unacked) \cup Range(queue)
    BY ConcatRange DEF Requeue, Inv, TypeOK
  <1>2. Range(unacked') = {}
    BY DEF Requeue, Range
  <1> QED BY <1>1, <1>2

\* Each step of OnChatResponse leaves other messages alone and settles its own
\* when it is done.
LEMMA ServerSettles ==
  ASSUME Inv, NEW n \in Msgs, Server(n), NEW m \in Msgs,
         pc[m] = "done" => Settled(m), pc'[m] = "done"
  PROVE  Settled(m)'
  <1> USE DEF Inv
  <1>1. CASE OnChat(n) \/ EnsureConnected(n) \/ ConnectFails(n) \/ PublishFails(n)
    <2>1. pc[m] = "done"
      BY <1>1 DEF OnChat, EnsureConnected, ConnectFails, PublishFails, TypeOK
    <2>2. /\ rows' = rows /\ lost' = lost
          /\ socket' = socket /\ queue' = queue /\ unacked' = unacked
      BY <1>1 DEF OnChat, EnsureConnected, ConnectFails, PublishFails
    <2> QED BY <2>1, <2>2, Keeps DEF InBroker
  <1>2. CASE BasicPublish(n)
    <2>1. CASE m = n
      <3>1. CASE alive
        BY <1>2, <2>1, <3>1 DEF BasicPublish, Settled, InBroker
      <3>2. CASE ~ alive
        <4>1. IsLost(m)'
          BY <1>2, <2>1, <3>2, LostCounts DEF BasicPublish, Reasons
        <4> QED BY <4>1 DEF Settled
      <3> QED BY <3>1, <3>2
    <2>2. CASE m # n
      <3>1. pc[m] = "done"
        BY <1>2, <2>2 DEF BasicPublish, TypeOK
      <3>2. /\ rows' = rows /\ lost \subseteq lost' /\ socket \subseteq socket'
            /\ queue' = queue /\ unacked' = unacked
        BY <1>2 DEF BasicPublish
      <3> QED BY <3>1, <3>2, Keeps DEF InBroker
    <2> QED BY <2>1, <2>2
  <1>3. CASE SaveChatMsgToDb(n)
    <2>1. CASE m = n
      <3>1. CASE dbUp /\ n \notin TooLong
        <4>1. rows'[m] > 0
          BY <1>3, <2>1, <3>1 DEF SaveChatMsgToDb, TypeOK
        <4> QED BY <4>1 DEF Settled
      <3>2. CASE ~ (dbUp /\ n \notin TooLong)
        <4>1. IsLost(m)'
          BY <1>3, <2>1, <3>2, LostCounts DEF SaveChatMsgToDb, Reasons
        <4> QED BY <4>1 DEF Settled
      <3> QED BY <3>1, <3>2
    <2>2. CASE m # n
      <3>1. pc[m] = "done" /\ rows'[m] = rows[m]
        BY <1>3, <2>2 DEF SaveChatMsgToDb, TypeOK
      <3>2. /\ lost \subseteq lost' /\ socket' = socket
            /\ queue' = queue /\ unacked' = unacked
        BY <1>3 DEF SaveChatMsgToDb
      <3> QED BY <3>1, <3>2, Keeps DEF InBroker
    <2> QED BY <2>1, <2>2
  <1> QED BY <1>1, <1>2, <1>3 DEF Server

\* The consumer takes a message out of the broker only with its row written.
LEMMA PersisterSettles ==
  ASSUME Inv, Persister, NEW m \in Msgs, Settled(m)
  PROVE  Settled(m)'
  <1> USE DEF Inv
  <1>1. CASE Subscribe \/ Disconnected
    <2>1. /\ rows' = rows /\ lost' = lost
          /\ socket' = socket /\ queue' = queue /\ unacked' = unacked
      BY <1>1 DEF Subscribe, Disconnected
    <2> QED BY <2>1, Keeps DEF InBroker
  <1>2. CASE Receive
    <2>1. Range(unacked) \subseteq {Head(unacked)} \cup Range(Tail(unacked))
      BY <1>2, HeadTail DEF Receive, TypeOK
    <2>2. m \in Range(unacked) => m \in Range(unacked')
      BY <1>2, <2>1, PersistenceAssumption DEF Receive
    <2>3. rows' = rows /\ lost' = lost /\ socket' = socket /\ queue' = queue
      BY <1>2 DEF Receive
    <2> QED BY <2>2, <2>3, Keeps DEF InBroker
  <1>3. CASE Save
    <2>1. rows[m] > 0 => rows'[m] > 0
      BY <1>3 DEF Save, TypeOK
    <2>2. /\ lost' = lost /\ socket' = socket
          /\ queue' = queue /\ unacked' = unacked
      BY <1>3 DEF Save
    <2> QED BY <2>1, <2>2, Keeps DEF InBroker
  <1>4. CASE SaveFails
    <2>1. rows[m] > 0 => rows'[m] > 0
      <3>1. rows \in [Msgs -> Nat]
        BY DEF TypeOK
      <3>2. rows' = rows \/ rows' = [rows EXCEPT ![cur] = @ + 1]
        BY <1>4 DEF SaveFails
      <3> QED BY <3>1, <3>2
    <2>2. m \in Range(queue) \cup Range(unacked) => m \in Range(queue') \cup Range(unacked')
      <3>1. CASE channel
        <4>1. unacked # <<>> /\ Head(unacked) = cur /\ cur \in Events
          BY <1>4, <3>1 DEF SaveFails, WorkerInv, Events
        <4>2. Range(unacked) = {cur} \cup Range(Tail(unacked))
          BY <4>1, HeadTail DEF TypeOK
        <4>3. Range(<<cur>> \o queue) = {cur} \cup Range(queue)
          BY <4>1, PushBack DEF TypeOK
        <4> QED BY <1>4, <3>1, <4>2, <4>3 DEF SaveFails, NackRequeue
      <3>2. CASE ~ channel
        BY <1>4, <3>2 DEF SaveFails, NackRequeue
      <3> QED BY <3>1, <3>2
    <2>3. lost' = lost /\ socket' = socket
      BY <1>4 DEF SaveFails
    <2> QED BY <2>1, <2>2, <2>3, Keeps DEF InBroker
  <1>5. CASE Ack
    <2>1. m \in Range(unacked) => m \in Range(unacked') \/ rows[m] > 0
      <3>1. CASE channel
        <4>1. unacked # <<>> /\ Head(unacked) = cur /\ rows[cur] > 0
          BY <1>5, <3>1 DEF Ack, WorkerInv
        <4>2. Range(unacked) = {cur} \cup Range(Tail(unacked))
          BY <4>1, HeadTail DEF TypeOK
        <4> QED BY <1>5, <3>1, <4>1, <4>2 DEF Ack
      <3>2. CASE ~ channel
        BY <1>5, <3>2 DEF Ack
      <3> QED BY <3>1, <3>2
    <2>2. rows' = rows /\ lost' = lost /\ socket' = socket /\ queue' = queue
      BY <1>5 DEF Ack
    <2> QED BY <2>1, <2>2, Keeps DEF InBroker
  <1> QED BY <1>1, <1>2, <1>3, <1>4, <1>5 DEF Persister

\* The broker moves a message on, or drops it and that is recorded.
LEMMA BrokerSettles ==
  ASSUME Inv, Broker, NEW m \in Msgs, Settled(m)
  PROVE  Settled(m)'
  <1> USE DEF Inv
  <1>1. CASE Deliver
    <2>1. Range(queue) = {Head(queue)} \cup Range(Tail(queue)) /\ Head(queue) \in Events
      BY <1>1, HeadTail DEF Deliver, TypeOK
    <2>2. Range(unacked') = Range(unacked) \cup {Head(queue)}
      BY <1>1, <2>1, AppendRange DEF Deliver, TypeOK
    <2>3. rows' = rows /\ lost' = lost /\ socket' = socket /\ queue' = Tail(queue)
      BY <1>1 DEF Deliver
    <2> QED BY <2>1, <2>2, <2>3, Keeps DEF InBroker
  <1>2. ASSUME NEW e \in Events, BrokerRoutes(e) PROVE Settled(m)'
    <2>1. rows' = rows /\ lost \subseteq lost' /\ socket' = socket \ {e} /\ unacked' = unacked
      BY <1>2 DEF BrokerRoutes
    <2>2. CASE bound
      <3>1. Range(queue') = Range(queue) \cup {e}
        BY <1>2, <2>2, AppendRange DEF BrokerRoutes, TypeOK
      <3> QED BY <2>1, <3>1, Keeps DEF InBroker
    <2>3. CASE ~ bound
      <3>1. queue' = queue
        BY <1>2, <2>3 DEF BrokerRoutes
      <3>2. m = e => IsLost(m)'
        BY <1>2, <2>3, LostCounts DEF BrokerRoutes, Reasons
      <3> QED BY <2>1, <3>1, <3>2, Keeps DEF InBroker
    <2> QED BY <2>2, <2>3
  <1> QED BY <1>1, <1>2 DEF Broker

\* Crashes and lost connections take only what is recorded as lost.
LEMMA EnvironmentSettles ==
  ASSUME Inv, Environment, NEW m \in Msgs,
         pc[m] = "done" => Settled(m), pc'[m] = "done"
  PROVE  Settled(m)'
  <1> USE DEF Inv
  <1>1. CASE ServerCrash
    <2>1. CASE m \in Handling
      <3>1. IsLost(m)'
        BY <1>1, <2>1, LostCounts DEF ServerCrash, Reasons
      <3> QED BY <3>1 DEF Settled
    <2>2. CASE m \notin Handling
      <3>1. pc[m] = "done"
        BY <1>1, <2>2 DEF ServerCrash
      <3>2. /\ rows' = rows /\ lost \subseteq lost'
            /\ socket' = socket /\ queue' = queue /\ unacked' = unacked
        BY <1>1 DEF ServerCrash
      <3> QED BY <3>1, <3>2, Keeps DEF InBroker
    <2> QED BY <2>1, <2>2
  <1>2. CASE LinkLost
    <2>1. m \in socket => IsLost(m)'
      BY <1>2, LostCounts DEF LinkLost, Reasons
    <2>2. /\ pc' = pc /\ rows' = rows /\ lost \subseteq lost'
          /\ queue' = queue /\ unacked' = unacked
      BY <1>2 DEF LinkLost
    <2> QED BY <2>1, <2>2, Keeps DEF InBroker
  <1>3. CASE ChannelLost \/ WorkerCrash
    <2>1. Requeue /\ pc' = pc /\ rows' = rows /\ lost' = lost /\ socket' = socket
      BY <1>3 DEF ChannelLost, WorkerCrash
    <2> QED BY <2>1, RequeueKeeps, Keeps DEF InBroker
  <1>4. CASE BrokerCrash
    <2>1. m \in socket => IsLost(m)'
      BY <1>4, LostCounts DEF BrokerCrash, Reasons
    <2>2. Requeue /\ pc' = pc /\ rows' = rows /\ lost \subseteq lost'
      BY <1>4 DEF BrokerCrash
    <2> QED BY <2>1, <2>2, RequeueKeeps, Keeps DEF InBroker
  <1>5. CASE BrokerStart \/ DbStops \/ DbStarts
    <2>1. /\ pc' = pc /\ rows' = rows /\ lost' = lost
          /\ socket' = socket /\ queue' = queue /\ unacked' = unacked
      BY <1>5 DEF BrokerStart, DbStops, DbStarts
    <2> QED BY <2>1, Keeps DEF InBroker
  <1>6. ASSUME NEW e \in Alien, AlienPublish(e) PROVE Settled(m)'
    <2>1. /\ pc' = pc /\ rows' = rows /\ lost' = lost
          /\ socket \subseteq socket' /\ queue' = queue /\ unacked' = unacked
      BY <1>6 DEF AlienPublish
    <2> QED BY <2>1, Keeps DEF InBroker
  <1> QED BY <1>1, <1>2, <1>3, <1>4, <1>5, <1>6 DEF Environment

\* Every message OnChatResponse is done with has its row, is with the broker or
\* was lost for a known reason, for every number of messages and faults.
THEOREM NothingVanishes == Spec => []StoredOrPending
  <1>1. Init => StoredOrPending
    BY DEF Init, StoredOrPending
  <1>2. Inv /\ StoredOrPending /\ [Next]_vars => StoredOrPending'
    <2> SUFFICES ASSUME Inv, StoredOrPending, [Next]_vars, NEW m \in Msgs, pc'[m] = "done"
                 PROVE  Settled(m)'
      BY DEF StoredOrPending, Settled
    <2>1. pc[m] = "done" => Settled(m)
      BY DEF StoredOrPending, Settled
    <2>2. CASE UNCHANGED vars
      BY <2>1, <2>2, Keeps DEF vars, InBroker
    <2>3. ASSUME Persister \/ Broker PROVE pc' = pc
      BY <2>3 DEF Persister, Broker, Subscribe, Disconnected, Receive, Save, SaveFails,
                  Ack, Deliver, BrokerRoutes
    <2> QED BY <2>1, <2>2, <2>3, ServerSettles, PersisterSettles, BrokerSettles,
               EnvironmentSettles DEF Next
  <1> QED BY <1>1, <1>2, InitInv, InvStep, PTL DEF Spec

-----------------------------------------------------------------------------
(* One row for each message *)

\* Where a message that never went back to the queue can be: in one place only,
\* and without a row until the consumer is about to acknowledge it.
Single(q, m) == \A i, j \in DOMAIN q : q[i] = m /\ q[j] = m => i = j

RowInv(m) ==
  /\ pc[m] # "done" => rows[m] = 0 /\ ~ InBroker(m)
  /\ m \in socket => rows[m] = 0 /\ m \notin Range(queue) /\ m \notin Range(unacked)
  /\ m \in Range(queue) => rows[m] = 0 /\ m \notin Range(unacked)
  /\ m \in Range(unacked) => rows[m] = 0 \/ (worker = "ack" /\ cur = m)
  /\ Single(queue, m) /\ Single(unacked, m)
  /\ rows[m] <= 1

\* A delivery whose channel is gone is in the queue again already.
StaleInv == worker \in {"save", "ack"} /\ ~ channel => cur \in redelivered

RowsInv == StaleInv /\ \A m \in Msgs \ redelivered : RowInv(m)

\* The head of a queue is not in the rest of it.
LEMMA SingleTail ==
  ASSUME NEW q \in Seq(Events), q # <<>>, NEW m, Single(q, m)
  PROVE  Single(Tail(q), m) /\ (Head(q) = m => m \notin Range(Tail(q)))
  <1> DEFINE t == Tail(q)
  <1>1. /\ Len(q) \in Nat /\ Len(q) > 0
        /\ DOMAIN q = 1..Len(q)
        /\ Head(q) = q[1]
        /\ DOMAIN t = 1..(Len(q) - 1)
        /\ \A i \in 1..(Len(q) - 1) : t[i] = q[i + 1]
    OBVIOUS
  <1> HIDE DEF t
  <1>2. ASSUME NEW i \in DOMAIN t, NEW j \in DOMAIN t, t[i] = m, t[j] = m PROVE i = j
    <2>1. i + 1 \in DOMAIN q /\ j + 1 \in DOMAIN q /\ q[i + 1] = m /\ q[j + 1] = m
      BY <1>1, <1>2
    <2>2. i + 1 = j + 1
      BY <2>1 DEF Single
    <2> QED BY <1>1, <2>2
  <1>3. ASSUME Head(q) = m, m \in Range(t) PROVE FALSE
    <2>1. PICK i \in DOMAIN t : t[i] = m
      BY <1>3 DEF Range
    <2>2. 1 \in DOMAIN q /\ i + 1 \in DOMAIN q /\ q[1] = m /\ q[i + 1] = m
      BY <1>1, <1>3, <2>1
    <2>3. i + 1 = 1
      BY <2>2 DEF Single
    <2> QED BY <1>1, <2>1, <2>3
  <1>4. Single(t, m)
    BY <1>2 DEF Single
  <1> QED BY <1>3, <1>4 DEF t

\* Joining two queues of which one does not hold the message.
LEMMA SingleConcat ==
  ASSUME NEW p \in Seq(Events), NEW q \in Seq(Events), NEW m,
         Single(p, m), Single(q, m), m \notin Range(p) \/ m \notin Range(q)
  PROVE  Single(p \o q, m)
  <1> DEFINE r == p \o q
  <1>1. /\ Len(p) \in Nat /\ Len(q) \in Nat
        /\ DOMAIN p = 1..Len(p)
        /\ DOMAIN q = 1..Len(q)
        /\ DOMAIN r = 1..(Len(p) + Len(q))
        /\ \A i \in 1..(Len(p) + Len(q)) :
             r[i] = IF i <= Len(p) THEN p[i] ELSE q[i - Len(p)]
    OBVIOUS
  <1> HIDE DEF r
  <1>2. ASSUME NEW i \in DOMAIN r, NEW j \in DOMAIN r, r[i] = m, r[j] = m PROVE i = j
    <2>1. \A k \in DOMAIN r : r[k] = m =>
            \/ k \in DOMAIN p /\ p[k] = m /\ m \in Range(p)
            \/ k - Len(p) \in DOMAIN q /\ q[k - Len(p)] = m /\ m \in Range(q)
      <3> TAKE k \in DOMAIN r
      <3> HAVE r[k] = m
      <3>1. CASE k <= Len(p)
        BY <1>1, <3>1 DEF Range
      <3>2. CASE k > Len(p)
        <4>1. k - Len(p) \in DOMAIN q /\ q[k - Len(p)] = m
          BY <1>1, <3>2
        <4> QED BY <4>1 DEF Range
      <3> QED BY <1>1, <3>1, <3>2
    <2>2. \/ i \in DOMAIN p /\ j \in DOMAIN p /\ p[i] = m /\ p[j] = m
          \/ /\ i - Len(p) \in DOMAIN q /\ j - Len(p) \in DOMAIN q
             /\ q[i - Len(p)] = m /\ q[j - Len(p)] = m
      BY <1>2, <2>1
    <2>3. i = j \/ i - Len(p) = j - Len(p)
      BY <2>2 DEF Single
    <2> QED BY <1>1, <2>3
  <1>3. Single(r, m)
    BY <1>2 DEF Single
  <1> QED BY <1>3 DEF r

\* A message appended where it is not yet.
LEMMA SingleAppend ==
  ASSUME NEW q \in Seq(Events), NEW e \in Events, NEW m, Single(q, m),
         m = e => m \notin Range(q)
  PROVE  Single(Append(q, e), m)
  <1>1. /\ <<e>> \in Seq(Events)
        /\ DOMAIN <<e>> = {1} /\ <<e>>[1] = e
    OBVIOUS
  <1>2. Single(<<e>>, m) /\ (m # e => m \notin Range(<<e>>))
    BY <1>1 DEF Single, Range
  <1>3. Append(q, e) = q \o <<e>>
    OBVIOUS
  <1>4. Single(q \o <<e>>, m)
    BY <1>1, <1>2, SingleConcat
  <1> QED BY <1>3, <1>4

\* A step that leaves the places of a message alone.
LEMMA RowFrame ==
  ASSUME NEW m \in Msgs, RowInv(m),
         pc'[m] # "done" => pc[m] # "done",
         rows'[m] = rows[m],
         m \in socket' => m \in socket,
         queue' = queue, unacked' = unacked,
         m \in Range(unacked) /\ worker = "ack" /\ cur = m => worker' = "ack" /\ cur' = m
  PROVE  RowInv(m)'
  BY DEF RowInv, InBroker

\* OnChatResponse stores a message or publishes it, never both.
LEMMA ServerRows ==
  ASSUME Inv, RowsInv, NEW n \in Msgs, Server(n)
  PROVE  RowsInv'
  <1> USE DEF Inv
  <1>0. StaleInv' /\ redelivered' = redelivered
    BY DEF RowsInv, StaleInv, Server, OnChat, EnsureConnected, ConnectFails,
           BasicPublish, PublishFails, SaveChatMsgToDb
  <1> SUFFICES ASSUME NEW m \in Msgs \ redelivered PROVE RowInv(m)'
    BY <1>0 DEF RowsInv
  <1>1. RowInv(m)
    BY DEF RowsInv
  <1>2. CASE OnChat(n) \/ EnsureConnected(n) \/ ConnectFails(n) \/ PublishFails(n)
    <2>1. pc'[m] # "done" => pc[m] # "done"
      BY <1>2 DEF OnChat, EnsureConnected, ConnectFails, PublishFails, TypeOK
    <2>2. /\ rows' = rows /\ socket' = socket /\ queue' = queue
          /\ unacked' = unacked /\ worker' = worker /\ cur' = cur
      BY <1>2 DEF OnChat, EnsureConnected, ConnectFails, PublishFails
    <2> QED BY <1>1, <2>1, <2>2, RowFrame
  <1>3. CASE BasicPublish(n)
    <2>1. /\ rows' = rows /\ queue' = queue /\ unacked' = unacked
          /\ worker' = worker /\ cur' = cur
          /\ pc[n] = "send" /\ socket' \subseteq socket \cup {n}
      BY <1>3 DEF BasicPublish
    <2>2. pc'[n] = "done" /\ (m # n => pc'[m] = pc[m])
      BY <1>3 DEF BasicPublish, TypeOK
    <2>3. CASE m = n
      <3>1. rows[m] = 0 /\ ~ InBroker(m)
        BY <1>1, <2>1, <2>3 DEF RowInv
      <3> QED BY <1>1, <2>1, <2>2, <2>3, <3>1 DEF RowInv, InBroker
    <2>4. CASE m # n
      BY <1>1, <2>1, <2>2, <2>4, RowFrame
    <2> QED BY <2>3, <2>4
  <1>4. CASE SaveChatMsgToDb(n)
    <2>1. /\ queue' = queue /\ unacked' = unacked /\ socket' = socket
          /\ worker' = worker /\ cur' = cur /\ pc[n] = "save"
      BY <1>4 DEF SaveChatMsgToDb
    <2>2. pc'[n] = "done" /\ (m # n => pc'[m] = pc[m])
      BY <1>4 DEF SaveChatMsgToDb, TypeOK
    <2>3. /\ m # n => rows'[m] = rows[m]
          /\ m = n => rows'[m] \in {rows[m], rows[m] + 1}
      BY <1>4 DEF SaveChatMsgToDb, TypeOK
    <2>4. CASE m = n
      <3>1. rows[m] = 0 /\ ~ InBroker(m)
        BY <1>1, <2>1, <2>4 DEF RowInv
      <3>2. rows'[m] <= 1
        BY <2>3, <2>4, <3>1
      <3> QED BY <1>1, <2>1, <2>2, <2>4, <3>1, <3>2 DEF RowInv, InBroker
    <2>5. CASE m # n
      BY <1>1, <2>1, <2>2, <2>3, <2>5, RowFrame
    <2> QED BY <2>4, <2>5
  <1> QED BY <1>2, <1>3, <1>4 DEF Server

\* The consumer writes a row once for each delivery it takes.
LEMMA PersisterRows ==
  ASSUME Inv, RowsInv, Persister
  PROVE  RowsInv'
  <1> USE DEF Inv
  <1>0. pc' = pc /\ socket' = socket
    BY DEF Persister, Subscribe, Disconnected, Receive, Save, SaveFails, Ack
  <1>1. CASE Subscribe \/ Disconnected
    <2>1. /\ rows' = rows /\ queue' = queue /\ unacked' = unacked
          /\ cur' = cur /\ redelivered' = redelivered
          /\ worker # "ack" /\ worker' \notin {"save", "ack"}
      BY <1>1 DEF Subscribe, Disconnected
    <2> QED BY <1>0, <2>1, RowFrame DEF RowsInv, StaleInv
  <1>2. CASE Receive
    <2>1. /\ rows' = rows /\ queue' = queue /\ redelivered' = redelivered
          /\ channel /\ channel' = channel /\ worker = "idle"
      BY <1>2 DEF Receive
    <2>2. unacked \in Seq(Events) /\ unacked # <<>>
      BY <1>2 DEF Receive, TypeOK
    <2>3. unacked' = Tail(unacked) \/ unacked' = unacked
      BY <1>2 DEF Receive
    <2>4. Range(unacked') \subseteq Range(unacked)
      BY <2>2, <2>3, HeadTail
    <2>5. ASSUME NEW m \in Msgs \ redelivered PROVE RowInv(m)'
      <3>1. RowInv(m)
        BY DEF RowsInv
      <3>2. Single(unacked', m)
        BY <2>2, <2>3, <3>1, SingleTail DEF RowInv
      <3> QED BY <1>0, <2>1, <2>4, <3>1, <3>2 DEF RowInv, InBroker
    <2> QED BY <2>1, <2>5 DEF RowsInv, StaleInv
  <1>3. CASE Save
    <2>1. /\ queue' = queue /\ unacked' = unacked /\ redelivered' = redelivered
          /\ cur' = cur /\ channel' = channel /\ worker = "save" /\ worker' = "ack"
      BY <1>3 DEF Save
    <2>2. cur \in Msgs
      BY <2>1 DEF WorkerInv
    <2>3. \A m \in Msgs : rows'[m] = IF m = cur THEN rows[m] + 1 ELSE rows[m]
      BY <1>3 DEF Save, TypeOK
    <2>4. ASSUME NEW m \in Msgs \ redelivered PROVE RowInv(m)'
      <3>1. RowInv(m)
        BY DEF RowsInv
      <3>2. CASE m = cur
        <4>1. channel
          BY <2>1, <3>2 DEF RowsInv, StaleInv
        <4>2. m \in Range(unacked)
          BY <2>1, <3>2, <4>1, HeadTail DEF WorkerInv, TypeOK
        <4>3. rows[m] = 0 /\ m \notin socket /\ m \notin Range(queue) /\ pc[m] = "done"
          BY <2>1, <3>1, <4>2 DEF RowInv, InBroker
        <4>4. rows'[m] = 1
          BY <2>3, <3>2, <4>3
        <4> QED BY <1>0, <2>1, <3>1, <3>2, <4>3, <4>4 DEF RowInv, InBroker
      <3>3. CASE m # cur
        BY <1>0, <2>1, <2>3, <3>1, <3>3, RowFrame
      <3> QED BY <3>2, <3>3
    <2> QED BY <2>1, <2>4 DEF RowsInv, StaleInv
  <1>4. CASE SaveFails
    <2>1. worker = "save" /\ worker' = "idle" /\ cur \in Msgs
      BY <1>4 DEF SaveFails, WorkerInv
    <2>2. cur \in redelivered' /\ redelivered \subseteq redelivered'
      BY <1>4, <2>1 DEF SaveFails, NackRequeue, RowsInv, StaleInv
    <2>3. \A m \in Msgs : m # cur => rows'[m] = rows[m]
      <3>1. rows' = rows \/ rows' = [rows EXCEPT ![cur] = @ + 1]
        BY <1>4 DEF SaveFails
      <3> QED BY <3>1 DEF TypeOK
    <2>4. ASSUME NEW m \in Msgs \ redelivered' PROVE RowInv(m)'
      <3>1. RowInv(m) /\ m # cur
        BY <2>2, <2>4 DEF RowsInv
      <3>2. CASE channel
        <4>1. /\ unacked \in Seq(Events) /\ queue \in Seq(Events) /\ cur \in Events
              /\ unacked # <<>> /\ unacked' = Tail(unacked) /\ queue' = <<cur>> \o queue
          BY <1>4, <2>1, <3>2 DEF SaveFails, NackRequeue, WorkerInv, TypeOK, Events
        <4>2. Range(queue') = {cur} \cup Range(queue) /\ Range(unacked') \subseteq Range(unacked)
          BY <4>1, PushBack, HeadTail
        <4>3. Single(unacked', m)
          BY <3>1, <4>1, SingleTail DEF RowInv
        <4>4. <<cur>> \in Seq(Events) /\ Single(<<cur>>, m) /\ m \notin Range(<<cur>>)
          BY <3>1, <4>1 DEF Single, Range
        <4>5. Single(queue', m)
          BY <3>1, <4>1, <4>4, SingleConcat DEF RowInv
        <4> QED BY <1>0, <2>1, <2>3, <3>1, <4>2, <4>3, <4>5 DEF RowInv, InBroker
      <3>3. CASE ~ channel
        <4>1. unacked' = unacked /\ queue' = queue
          BY <1>4, <3>3 DEF SaveFails, NackRequeue
        <4> QED BY <1>0, <2>1, <2>3, <3>1, <4>1, RowFrame
      <3> QED BY <3>2, <3>3
    <2> QED BY <2>1, <2>4 DEF RowsInv, StaleInv
  <1>5. CASE Ack
    <2>1. /\ rows' = rows /\ queue' = queue /\ redelivered' = redelivered
          /\ worker = "ack" /\ worker' = "idle" /\ unacked \in Seq(Events)
      BY <1>5 DEF Ack, TypeOK
    <2>2. ASSUME NEW m \in Msgs \ redelivered PROVE RowInv(m)'
      <3>1. RowInv(m)
        BY DEF RowsInv
      <3>2. CASE channel
        <4>1. unacked # <<>> /\ Head(unacked) = cur /\ unacked' = Tail(unacked)
          BY <1>5, <2>1, <3>2 DEF Ack, WorkerInv
        <4>2. /\ Range(unacked') \subseteq Range(unacked)
              /\ Single(unacked', m) /\ (m = cur => m \notin Range(unacked'))
          BY <2>1, <3>1, <4>1, HeadTail, SingleTail DEF RowInv
        <4> QED BY <1>0, <2>1, <3>1, <4>2 DEF RowInv, InBroker
      <3>3. CASE ~ channel
        <4>1. unacked' = unacked /\ m # cur
          BY <1>5, <2>1, <3>3 DEF Ack, RowsInv, StaleInv
        <4> QED BY <1>0, <2>1, <3>1, <4>1, RowFrame
      <3> QED BY <3>2, <3>3
    <2> QED BY <2>1, <2>2 DEF RowsInv, StaleInv
  <1> QED BY <1>1, <1>2, <1>3, <1>4, <1>5 DEF Persister

\* The broker moves a message from the socket to the queue to the consumer.
LEMMA BrokerRows ==
  ASSUME Inv, RowsInv, Broker
  PROVE  RowsInv'
  <1> USE DEF Inv
  <1>0. /\ pc' = pc /\ rows' = rows /\ worker' = worker /\ cur' = cur
        /\ channel' = channel /\ redelivered' = redelivered
    BY DEF Broker, Deliver, BrokerRoutes
  <1> SUFFICES ASSUME NEW m \in Msgs \ redelivered PROVE RowInv(m)'
    BY <1>0 DEF RowsInv, StaleInv
  <1>1. RowInv(m) /\ queue \in Seq(Events) /\ unacked \in Seq(Events)
    BY DEF RowsInv, TypeOK
  <1>2. CASE Deliver
    <2>1. /\ queue # <<>> /\ queue' = Tail(queue) /\ socket' = socket
          /\ unacked' = Append(unacked, Head(queue))
      BY <1>2 DEF Deliver
    <2>2. /\ Head(queue) \in Events
          /\ Range(queue) = {Head(queue)} \cup Range(queue')
          /\ Range(unacked') = Range(unacked) \cup {Head(queue)}
      BY <1>1, <2>1, HeadTail, AppendRange
    <2>3. Single(queue', m) /\ (m = Head(queue) => m \notin Range(queue'))
      BY <1>1, <2>1, SingleTail DEF RowInv
    <2>4. Single(unacked', m)
      BY <1>1, <2>1, <2>2, SingleAppend DEF RowInv
    <2> QED BY <1>0, <1>1, <2>1, <2>2, <2>3, <2>4 DEF RowInv, InBroker
  <1>3. ASSUME NEW e \in Events, BrokerRoutes(e) PROVE RowInv(m)'
    <2>1. e \in socket /\ socket' = socket \ {e} /\ unacked' = unacked
      BY <1>3 DEF BrokerRoutes
    <2>2. CASE bound
      <3>1. queue' = Append(queue, e)
        BY <1>3, <2>2 DEF BrokerRoutes
      <3>2. Range(queue') = Range(queue) \cup {e}
        BY <1>1, <3>1, AppendRange
      <3>3. Single(queue', m)
        BY <1>1, <2>1, <3>1, SingleAppend DEF RowInv
      <3> QED BY <1>0, <1>1, <2>1, <3>2, <3>3 DEF RowInv, InBroker
    <2>3. CASE ~ bound
      BY <1>0, <1>1, <1>3, <2>1, <2>3, RowFrame DEF BrokerRoutes
    <2> QED BY <2>2, <2>3
  <1> QED BY <1>2, <1>3 DEF Broker

\* Crashes, restarts and lost connections write no row; what they send back to
\* the queue is recorded.
LEMMA EnvironmentRows ==
  ASSUME Inv, RowsInv, Environment
  PROVE  RowsInv'
  <1> USE DEF Inv
  <1>1. rows' = rows
    BY DEF Environment, ServerCrash, LinkLost, ChannelLost, BrokerCrash, BrokerStart,
           DbStops, DbStarts, WorkerCrash, AlienPublish
  <1>2. CASE \/ ServerCrash \/ LinkLost \/ BrokerStart \/ DbStops \/ DbStarts
             \/ \E e \in Alien : AlienPublish(e)
    <2>1. /\ queue' = queue /\ unacked' = unacked /\ worker' = worker /\ cur' = cur
          /\ channel' = channel /\ redelivered' = redelivered
          /\ \A m \in Msgs : m \in socket' => m \in socket
      BY <1>2, PersistenceAssumption
         DEF ServerCrash, LinkLost, BrokerStart, DbStops, DbStarts, AlienPublish
    <2>2. \A m \in Msgs : pc'[m] # "done" => pc[m] # "done"
      BY <1>2 DEF ServerCrash, Handling, LinkLost, BrokerStart, DbStops, DbStarts, AlienPublish
    <2> QED BY <1>1, <2>1, <2>2, RowFrame DEF RowsInv, StaleInv
  <1>3. CASE ChannelLost \/ BrokerCrash \/ WorkerCrash
    <2>1. /\ pc' = pc /\ socket' \subseteq socket /\ ~ channel'
          /\ queue' = unacked \o queue /\ unacked' = <<>>
          /\ redelivered' = redelivered \cup Range(unacked)
          /\ (worker' = worker /\ cur' = cur) \/ worker' = "off"
      BY <1>3 DEF ChannelLost, BrokerCrash, WorkerCrash, Requeue
    <2>2. queue \in Seq(Events) /\ unacked \in Seq(Events)
      BY DEF TypeOK
    <2>3. StaleInv'
      <3>1. CASE channel /\ worker \in {"save", "ack"}
        <4>1. cur \in Range(unacked)
          BY <2>2, <3>1, HeadTail DEF WorkerInv
        <4> QED BY <2>1, <4>1 DEF StaleInv
      <3>2. CASE ~ channel \/ worker \notin {"save", "ack"}
        BY <2>1, <3>2 DEF RowsInv, StaleInv
      <3> QED BY <3>1, <3>2
    <2>4. ASSUME NEW m \in Msgs \ redelivered' PROVE RowInv(m)'
      <3>1. RowInv(m) /\ m \notin Range(unacked)
        BY <2>1, <2>4 DEF RowsInv
      <3>2. Range(queue') = Range(unacked) \cup Range(queue) /\ Range(unacked') = {}
        <4>1. Range(queue') = Range(unacked) \cup Range(queue)
          BY <2>1, <2>2, ConcatRange
        <4>2. Range(unacked') = {}
          BY <2>1 DEF Range
        <4> QED BY <4>1, <4>2
      <3>3. Single(queue', m)
        BY <2>1, <2>2, <3>1, SingleConcat DEF RowInv
      <3>4. Single(unacked', m)
        BY <2>1 DEF Single
      <3> QED BY <1>1, <2>1, <3>1, <3>2, <3>3, <3>4 DEF RowInv, InBroker
    <2> QED BY <2>3, <2>4 DEF RowsInv
  <1> QED BY <1>2, <1>3 DEF Environment

\* A message has at most one row in t_chatmsg unless the broker delivered it
\* again: the fallback of OnChatResponse and the consumer never both write it.
THEOREM OneRowEach == Spec => []OneRowUnlessRedelivered
  <1>1. Init => RowsInv
    BY DEF Init, RowsInv, StaleInv, RowInv, InBroker, Single, Range
  <1>2. Inv /\ RowsInv /\ [Next]_vars => RowsInv'
    <2> SUFFICES ASSUME Inv, RowsInv, [Next]_vars PROVE RowsInv'
      OBVIOUS
    <2>1. CASE UNCHANGED vars
      BY <2>1 DEF vars, RowsInv, StaleInv, RowInv, InBroker
    <2> QED BY <2>1, ServerRows, PersisterRows, BrokerRows, EnvironmentRows DEF Next
  <1>3. RowsInv => OneRowUnlessRedelivered
    BY DEF RowsInv, RowInv, OneRowUnlessRedelivered
  <1> QED BY <1>1, <1>2, <1>3, InitInv, InvStep, PTL DEF Spec
=============================================================================
