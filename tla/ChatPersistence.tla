--------------------------- MODULE ChatPersistence ---------------------------
(***************************************************************************)
(* How a chat message gets into the history table t_chatmsg: IMServer      *)
(* publishes it to RabbitMQ (RabbitMqPublisher) or, if that fails, writes  *)
(* the row itself (SaveChatMsgToDb); GoChatPersister consumes the queue.   *)
(*                                                                         *)
(* RabbitMQ and MySQL are external.  Of the broker the code relies on: a   *)
(* durable queue that holds persistent messages over a restart, an         *)
(* unroutable message of a publish that is not mandatory is dropped,       *)
(* deliveries not acknowledged on a closed channel go back to the front.   *)
(* A message the broker has not put on disk yet is still in socket:        *)
(* without publisher confirms the publisher cannot tell the difference.    *)
(*                                                                         *)
(* History variables: lost, redelivered, published.                        *)
(***************************************************************************)
EXTENDS Integers, Sequences, FiniteSets, Functions

CONSTANTS
  Msgs,       \* chat messages of IMServer's clients
  TooLong,    \* those a column of t_chatmsg has no room for: MySQL refuses
              \* their INSERT however often it is tried
  Alien,      \* events other programs publish, which do not parse
  NoMsg,      \* no event
  MqEnabled,  \* RABBITMQ_URL is set
  Prefetch,   \* QoS of the consumer
  MaxFaults   \* bound on crashes, lost connections, unclear statements
              \* and alien events

ASSUME PersistenceAssumption ==
  /\ TooLong \subseteq Msgs
  /\ Msgs \cap Alien = {}
  /\ NoMsg \notin Msgs \cup Alien
  /\ MqEnabled \in BOOLEAN
  /\ Prefetch \in Nat \ {0}
  /\ MaxFaults \in Nat

VARIABLES
  pc,          \* where OnChatResponse is with each message
  mutex,       \* message whose handler holds RabbitMqPublisher::m_mutex
  connected,   \* m_connected and m_conn: what the publisher believes
  alive,       \* the broker's end of that connection is there
  socket,      \* published, not on the broker's disk yet
  brokerUp,
  bound,       \* the queue is declared and bound (both durable)
  queue,       \* ready messages of the queue
  unacked,     \* delivered to the consumer, not acknowledged
  channel,     \* the consumer's channel is open
  worker,      \* where consumeOnce is
  cur,         \* the delivery it is working on
  dbUp,
  rows,        \* rows of t_chatmsg for each message
  lost,        \* <<m, why>>: m will never have a row
  redelivered, \* events that went back to the queue
  published,   \* messages whose Publish returned true
  faults

serverVars == <<pc, mutex, connected, alive>>
brokerVars == <<brokerUp, bound, queue, unacked, channel>>
workerVars == <<worker, cur>>
dbVars     == <<dbUp, rows>>
ghosts     == <<lost, redelivered, published>>
vars == <<pc, mutex, connected, alive, socket, brokerUp, bound, queue, unacked,
          channel, worker, cur, dbUp, rows, lost, redelivered, published, faults>>

Events == Msgs \cup Alien
Reasons == {"unroutable", "socket", "insert", "crash"}
Lost(S, why) == {<<m, why>> : m \in S \cap Msgs}

Fault == faults < MaxFaults /\ faults' = faults + 1

Init ==
  /\ pc = [m \in Msgs |-> "new"]
  /\ mutex = NoMsg
  /\ connected = FALSE
  /\ alive = FALSE
  /\ socket = {}
  /\ brokerUp = TRUE
  /\ bound = FALSE
  /\ queue = <<>>
  /\ unacked = <<>>
  /\ channel = FALSE
  /\ worker = "off"
  /\ cur = NoMsg
  /\ dbUp = TRUE
  /\ rows = [m \in Msgs |-> 0]
  /\ lost = {}
  /\ redelivered = {}
  /\ published = {}
  /\ faults = 0

-----------------------------------------------------------------------------
(* IMServer *)

\* A chat message arrives; without a publisher it is written at once.
OnChat(m) ==
  /\ pc[m] = "new"
  /\ pc' = [pc EXCEPT ![m] = IF MqEnabled THEN "publish" ELSE "save"]
  /\ UNCHANGED <<mutex, connected, alive, socket, brokerVars, workerVars,
                 dbVars, ghosts, faults>>

\* Publish takes the mutex; ensureConnected keeps the connection it has or
\* opens one ...
EnsureConnected(m) ==
  /\ pc[m] = "publish"
  /\ mutex = NoMsg
  /\ connected \/ brokerUp
  /\ connected' = TRUE
  /\ alive' = IF connected THEN alive ELSE TRUE
  /\ mutex' = m
  /\ pc' = [pc EXCEPT ![m] = "send"]
  /\ UNCHANGED <<socket, brokerVars, workerVars, dbVars, ghosts, faults>>

\* ... or cannot, and the message is written to the database instead.
ConnectFails(m) ==
  /\ pc[m] = "publish"
  /\ mutex = NoMsg
  /\ ~ connected
  /\ pc' = [pc EXCEPT ![m] = "save"]
  /\ UNCHANGED <<mutex, connected, alive, socket, brokerVars, workerVars,
                 dbVars, ghosts, faults>>

\* Mutant: the result of Publish is not kept and the row is written as well.
BasicPublish_SavesToo(m) ==
  /\ pc[m] = "send"
  /\ socket' = IF alive THEN socket \cup {m} ELSE socket
  /\ lost' = IF alive THEN lost ELSE lost \cup Lost({m}, "socket")
  /\ published' = published \cup {m}
  /\ mutex' = NoMsg
  /\ pc' = [pc EXCEPT ![m] = "save"]
  /\ UNCHANGED <<connected, alive, brokerVars, workerVars, dbVars, redelivered, faults>>

\* amqp_basic_publish returns AMQP_STATUS_OK once the frames are written to the
\* socket, also when the other end is gone and nobody has noticed yet.
BasicPublish(m) ==
  /\ pc[m] = "send"
  /\ socket' = IF alive THEN socket \cup {m} ELSE socket
  /\ lost' = IF alive THEN lost ELSE lost \cup Lost({m}, "socket")
  /\ published' = published \cup {m}
  /\ mutex' = NoMsg
  /\ pc' = [pc EXCEPT ![m] = "done"]
  /\ UNCHANGED <<connected, alive, brokerVars, workerVars, dbVars, redelivered, faults>>

\* The write fails: the connection is closed and the row is written instead.
PublishFails(m) ==
  /\ pc[m] = "send"
  /\ ~ alive
  /\ connected' = FALSE
  /\ mutex' = NoMsg
  /\ pc' = [pc EXCEPT ![m] = "save"]
  /\ UNCHANGED <<alive, socket, brokerVars, workerVars, dbVars, ghosts, faults>>

\* SaveChatMsgToDb; a failure is logged and the message is routed all the same.
SaveChatMsgToDb(m) ==
  /\ pc[m] = "save"
  /\ IF dbUp /\ m \notin TooLong
       THEN /\ rows' = [rows EXCEPT ![m] = @ + 1]
            /\ lost' = lost
       ELSE /\ rows' = rows
            /\ lost' = lost \cup Lost({m}, "insert")
  /\ pc' = [pc EXCEPT ![m] = "done"]
  /\ UNCHANGED <<mutex, connected, alive, socket, brokerVars, workerVars, dbUp,
                 redelivered, published, faults>>

Handling == {m \in Msgs : pc[m] \in {"publish", "send", "save"}}

\* IMServer dies.  What its handlers were doing is gone; what is in the socket
\* may still arrive.
ServerCrash ==
  /\ Fault
  /\ pc' = [m \in Msgs |-> IF m \in Handling THEN "done" ELSE pc[m]]
  /\ mutex' = NoMsg
  /\ connected' = FALSE
  /\ alive' = FALSE
  /\ lost' = lost \cup Lost(Handling, "crash")
  /\ UNCHANGED <<socket, brokerVars, workerVars, dbVars, redelivered, published>>

-----------------------------------------------------------------------------
(* The broker and the database (external) *)

\* The broker takes a published message and routes it.
BrokerRoutes(m) ==
  /\ brokerUp
  /\ m \in socket
  /\ socket' = socket \ {m}
  /\ IF bound
       THEN queue' = Append(queue, m) /\ lost' = lost
       ELSE queue' = queue /\ lost' = lost \cup Lost({m}, "unroutable")
  /\ UNCHANGED <<serverVars, brokerUp, bound, unacked, channel, workerVars,
                 dbVars, redelivered, published, faults>>

\* Some other program publishes an event that is no chat message.
AlienPublish(e) ==
  /\ brokerUp
  /\ e \notin socket \cup Range(queue) \cup Range(unacked)
  /\ Fault
  /\ socket' = socket \cup {e}
  /\ UNCHANGED <<serverVars, brokerVars, workerVars, dbVars, ghosts>>

\* The publisher's connection breaks.
LinkLost ==
  /\ alive
  /\ Fault
  /\ alive' = FALSE
  /\ socket' = {}
  /\ lost' = lost \cup Lost(socket, "socket")
  /\ UNCHANGED <<pc, mutex, connected, brokerVars, workerVars, dbVars,
                 redelivered, published>>

\* What the broker does when the consumer's channel goes away.
Requeue ==
  /\ channel' = FALSE
  /\ queue' = unacked \o queue
  /\ unacked' = <<>>
  /\ redelivered' = redelivered \cup Range(unacked)

ChannelLost ==
  /\ channel
  /\ Fault
  /\ Requeue
  /\ UNCHANGED <<serverVars, socket, brokerUp, bound, workerVars, dbVars, lost,
                 published>>

BrokerCrash ==
  /\ brokerUp
  /\ Fault
  /\ brokerUp' = FALSE
  /\ Requeue
  /\ alive' = FALSE
  /\ socket' = {}
  /\ lost' = lost \cup Lost(socket, "socket")
  /\ UNCHANGED <<pc, mutex, connected, bound, workerVars, dbVars, published>>

BrokerStart ==
  /\ ~ brokerUp
  /\ brokerUp' = TRUE
  /\ UNCHANGED <<serverVars, socket, bound, queue, unacked, channel, workerVars,
                 dbVars, ghosts, faults>>

DbStops ==
  /\ dbUp
  /\ Fault
  /\ dbUp' = FALSE
  /\ UNCHANGED <<serverVars, socket, brokerVars, workerVars, rows, ghosts>>

DbStarts ==
  /\ ~ dbUp
  /\ dbUp' = TRUE
  /\ UNCHANGED <<serverVars, socket, brokerVars, workerVars, rows, ghosts, faults>>

\* The broker pushes a message, up to Prefetch unacknowledged ones.
Deliver ==
  /\ channel
  /\ queue # <<>>
  /\ Len(unacked) < Prefetch
  /\ unacked' = Append(unacked, Head(queue))
  /\ queue' = Tail(queue)
  /\ UNCHANGED <<serverVars, socket, brokerUp, bound, channel, workerVars,
                 dbVars, ghosts, faults>>

-----------------------------------------------------------------------------
(* GoChatPersister *)

\* consumeOnce up to Consume: it declares and binds the queue.
Subscribe ==
  /\ worker = "off"
  /\ brokerUp
  /\ bound' = TRUE
  /\ channel' = TRUE
  /\ worker' = "idle"
  /\ UNCHANGED <<serverVars, socket, brokerUp, queue, unacked, cur, dbVars,
                 ghosts, faults>>

\* The delivery channel was closed: consumeOnce returns, Run waits and calls it
\* again.
Disconnected ==
  /\ worker = "idle"
  /\ ~ channel
  /\ worker' = "off"
  /\ UNCHANGED <<serverVars, socket, brokerVars, cur, dbVars, ghosts, faults>>

\* Mutant: an event that does not parse is put back.
Receive_Requeues ==
  /\ worker = "idle"
  /\ channel
  /\ unacked # <<>>
  /\ IF Head(unacked) \in Alien
       THEN /\ unacked' = Tail(unacked)
            /\ queue' = <<Head(unacked)>> \o queue
            /\ redelivered' = redelivered \cup {Head(unacked)}
            /\ UNCHANGED workerVars
       ELSE /\ cur' = Head(unacked)
            /\ worker' = "save"
            /\ UNCHANGED <<unacked, queue, redelivered>>
  /\ UNCHANGED <<serverVars, socket, brokerUp, bound, channel, dbVars, lost,
                 published, faults>>

\* The next delivery; one that does not parse is refused for good.
Receive ==
  /\ worker = "idle"
  /\ channel
  /\ unacked # <<>>
  /\ IF Head(unacked) \in Alien
       THEN unacked' = Tail(unacked) /\ UNCHANGED workerVars
       ELSE cur' = Head(unacked) /\ worker' = "save" /\ unacked' = unacked
  /\ UNCHANGED <<serverVars, socket, brokerUp, bound, queue, channel, dbVars,
                 ghosts, faults>>

\* The INSERT succeeds.
Save ==
  /\ worker = "save"
  /\ dbUp
  /\ cur \notin TooLong
  /\ rows' = [rows EXCEPT ![cur] = @ + 1]
  /\ worker' = "ack"
  /\ UNCHANGED <<serverVars, socket, brokerVars, cur, dbUp, ghosts, faults>>

\* Mutant: a delivery that could not be saved is refused for good.
NackRequeue_Drops ==
  /\ unacked' = IF channel THEN Tail(unacked) ELSE unacked
  /\ UNCHANGED <<queue, redelivered>>

\* Nack with requeue; on a closed channel it fails and nobody looks.
NackRequeue ==
  IF channel
    THEN /\ unacked' = Tail(unacked)
         /\ queue' = <<cur>> \o queue
         /\ redelivered' = redelivered \cup {cur}
    ELSE UNCHANGED <<unacked, queue, redelivered>>

\* The INSERT fails, or its answer is lost after the row was written.  consumeOnce
\* does not tell an INSERT MySQL refuses for good from one that may work later:
\* it puts both back.
SaveFails ==
  /\ worker = "save"
  /\ \/ (dbUp => cur \in TooLong) /\ UNCHANGED <<rows, faults>>
     \/ /\ dbUp /\ cur \notin TooLong
        /\ Fault
        /\ rows' = [rows EXCEPT ![cur] = @ + 1]
  /\ NackRequeue
  /\ worker' = "idle"
  /\ cur' = NoMsg
  /\ UNCHANGED <<serverVars, socket, brokerUp, bound, channel, dbUp, lost, published>>

\* Ack; on a closed channel it fails and nobody looks.
Ack ==
  /\ worker = "ack"
  /\ unacked' = IF channel THEN Tail(unacked) ELSE unacked
  /\ worker' = "idle"
  /\ cur' = NoMsg
  /\ UNCHANGED <<serverVars, socket, brokerUp, bound, queue, channel, dbVars,
                 ghosts, faults>>

\* GoChatPersister dies or is told to stop.
WorkerCrash ==
  /\ worker # "off"
  /\ Fault
  /\ worker' = "off"
  /\ cur' = NoMsg
  /\ Requeue
  /\ UNCHANGED <<serverVars, socket, brokerUp, bound, dbVars, lost, published>>

-----------------------------------------------------------------------------
(* Specification *)

Server(m) ==
  \/ OnChat(m)
  \/ EnsureConnected(m)
  \/ ConnectFails(m)
  \/ BasicPublish(m)
  \/ PublishFails(m)
  \/ SaveChatMsgToDb(m)

Persister == Subscribe \/ Disconnected \/ Receive \/ Save \/ SaveFails \/ Ack

Broker == Deliver \/ \E m \in Events : BrokerRoutes(m)

Environment ==
  \/ ServerCrash
  \/ LinkLost
  \/ ChannelLost
  \/ BrokerCrash
  \/ BrokerStart
  \/ DbStops
  \/ DbStarts
  \/ WorkerCrash
  \/ \E e \in Alien : AlienPublish(e)

Next == (\E m \in Msgs : Server(m)) \/ Persister \/ Broker \/ Environment

Spec == Init /\ [][Next]_vars

\* The consumer's loop runs; the broker serves its sockets and uses the credit
\* the consumer gives it: an event that is again and again the next one while a
\* delivery is free is delivered.
FairSpec == Spec /\ WF_vars(Persister)
                 /\ \A m \in Events : /\ SF_vars(Deliver /\ Head(queue) = m)
                                      /\ WF_vars(BrokerRoutes(m))

-----------------------------------------------------------------------------
(* Properties *)

\* Types of the three programs' state.
TypeOK ==
  /\ pc \in [Msgs -> {"new", "publish", "send", "save", "done"}]
  /\ mutex \in Msgs \cup {NoMsg}
  /\ connected \in BOOLEAN
  /\ alive \in BOOLEAN
  /\ socket \subseteq Events
  /\ brokerUp \in BOOLEAN
  /\ bound \in BOOLEAN
  /\ queue \in Seq(Events)
  /\ unacked \in Seq(Events)
  /\ channel \in BOOLEAN
  /\ worker \in {"off", "idle", "save", "ack"}
  /\ cur \in Msgs \cup {NoMsg}
  /\ dbUp \in BOOLEAN
  /\ rows \in [Msgs -> Nat]
  /\ lost \subseteq Msgs \X Reasons
  /\ redelivered \subseteq Events
  /\ published \subseteq Msgs
  /\ faults \in Nat

InBroker(m) == m \in socket \/ m \in Range(queue) \/ m \in Range(unacked)
IsLost(m)   == \E why \in Reasons : <<m, why>> \in lost

\* Every message OnChatResponse is done with has a row, is with the broker, or
\* was lost for a known reason: the consumer acknowledges only what it saved
\* and puts back what it could not save, whatever dies in between.
StoredOrPending ==
  \A m \in Msgs : pc[m] = "done" => rows[m] > 0 \/ InBroker(m) \/ IsLost(m)

\* What consumeOnce relies on: the delivery it works on is the oldest one not
\* acknowledged, and what it is about to acknowledge has its row.
WorkerInv ==
  /\ worker \in {"save", "ack"} => cur \in Msgs
  /\ worker = "ack" => rows[cur] > 0
  /\ worker \in {"save", "ack"} /\ channel => unacked # <<>> /\ Head(unacked) = cur
  /\ channel => worker # "off"

\* A message gets a second row only if the broker delivered it again: the
\* fallback to SaveChatMsgToDb never stores what was published too.
OneRowUnlessRedelivered ==
  \A m \in Msgs \ redelivered : rows[m] <= 1

\* Once MySQL and the broker stay up, every message in the queue that MySQL can
\* take gets its row, also behind an event that does not parse and behind
\* messages MySQL refuses for good.  consumeOnce puts the latter back for ever, so
\* the queue moves only while they take fewer than Prefetch deliveries.
QueueDrains ==
  (Cardinality(TooLong) < Prefetch) /\ <>[](dbUp /\ brokerUp) =>
    \A m \in Msgs \ TooLong : m \in Range(queue) ~> rows[m] > 0

\* Claimed in OnChatResponse: a message is not lost, as a failed publish falls
\* back to the database.  So one whose publish succeeded is never lost.
PublishedIsNotLost ==
  \A m \in published : ~ IsLost(m)

\* Claimed in the README: consuming is idempotent, one message one row.
IdempotentConsumer ==
  \A m \in Msgs : rows[m] <= 1
=============================================================================
