------------------------- MODULE ChatDeliveryProofs -------------------------
(* Proofs about ChatDelivery, for any number of connections, users, messages *)
(* and failing statements.                                                  *)
EXTENDS ChatDelivery, TLAPS

\* The types, with what a handler relies on from one of its steps to the next:
\* TypeOK alone is not inductive (status is indexed by m_user, handed by the
\* message and receiver of the running handler).
TypeInv == TypeOK /\ HandlerInv

\* The server starts with no connection, no handler and well-typed tables.
LEMMA TypeInit == Init => TypeInv
  <1> SUFFICES ASSUME Init PROVE TypeInv
    OBVIOUS
  <1>1. TypeOK
    <2>1. job \in [Sessions -> Job]
      BY DEF Init, Job, AJob, NoJob
    <2>2. inbox \in [Sessions -> Seq(Item)] /\ wire \in [Sessions -> Seq(Item)]
      BY DEF Init
    <2>3. handed \in [Msgs \X Users -> Nat]
      BY DEF Init
    <2>4. raced \in BOOLEAN /\ undeleted \in BOOLEAN
      BY Zenon DEF Init
    <2> QED BY <2>1, <2>2, <2>3, <2>4, ConstantsAssumption DEF Init, TypeOK, Steps
  <1>2. HandlerInv
    BY DEF Init, HandlerInv, HandlerOK
  <1> QED BY <1>1, <1>2 DEF TypeInv

USE DEF connVars, dbVars, ghosts

\* What GetSessionByID may return.
LEMMA FoundType ==
  ASSUME TypeOK, NEW u \in Users, NEW found \in GetSessionByID(u)
  PROVE  found \in Sessions \cup {NoSession}
  BY DEF TypeOK, GetSessionByID, SessionsOf

\* Queueing a send (TcpConnection::send from another loop) keeps a queue one.
LEMMA AppendType ==
  ASSUME NEW q \in Seq(Item), NEW x \in Item PROVE Append(q, x) \in Seq(Item)
  OBVIOUS

\* The chat messages of a queue, after a message is put in or taken out.
LEMMA ChatsAppend ==
  ASSUME NEW q \in Seq(Item), NEW x \in Item
  PROVE  Chats(Append(q, x)) =
           Chats(q) \cup (IF x.kind = "chat" THEN {<<x.msg, x.usr>>} ELSE {})
  <1> DEFINE r == Append(q, x)
  <1>1. /\ DOMAIN r = 1..(Len(q) + 1)
        /\ r[Len(q) + 1] = x
        /\ DOMAIN q = 1..Len(q)
        /\ Len(q) \in Nat
        /\ \A i \in 1..Len(q) : r[i] = q[i]
    OBVIOUS
  <1> HIDE DEF r
  <1>2. DOMAIN r = DOMAIN q \cup {Len(q) + 1}
    BY <1>1
  <1> DEFINE new == IF x.kind = "chat" THEN {<<x.msg, x.usr>>} ELSE {}
  <1>3. ASSUME NEW p \in Chats(r) PROVE p \in Chats(q) \cup new
    <2>1. PICK i \in DOMAIN r : r[i].kind = "chat" /\ p = <<r[i].msg, r[i].usr>>
      BY <1>3 DEF Chats
    <2>2. CASE i \in DOMAIN q
      BY <2>1, <2>2, <1>1 DEF Chats
    <2>3. CASE i = Len(q) + 1
      BY <2>1, <2>3, <1>1
    <2> QED BY <1>2, <2>2, <2>3
  <1>4. ASSUME NEW p \in Chats(q) PROVE p \in Chats(r)
    <2>1. PICK i \in DOMAIN q : q[i].kind = "chat" /\ p = <<q[i].msg, q[i].usr>>
      BY <1>4 DEF Chats
    <2>2. i \in DOMAIN r /\ r[i] = q[i]
      BY <2>1, <1>1, <1>2
    <2> QED BY <2>1, <2>2 DEF Chats
  <1>5. ASSUME NEW p \in new PROVE p \in Chats(r)
    <2>1. x.kind = "chat" /\ p = <<x.msg, x.usr>>
      BY <1>5
    <2>2. Len(q) + 1 \in DOMAIN r
      BY <1>2
    <2> QED BY <1>1, <2>1, <2>2 DEF Chats
  <1>6. Chats(r) = Chats(q) \cup new
    <2> HIDE DEF new
    <2> QED BY <1>3, <1>4, <1>5
  <1> QED BY <1>6 DEF r

\* The chat messages of a queue after sendInLoop took its first send.
LEMMA ChatsTail ==
  ASSUME NEW q \in Seq(Item), q # <<>>
  PROVE  Chats(q) =
           Chats(Tail(q)) \cup
             (IF Head(q).kind = "chat" THEN {<<Head(q).msg, Head(q).usr>>} ELSE {})
  <1> DEFINE t == Tail(q)  h == Head(q)
  <1>1. /\ DOMAIN q = 1..Len(q)
        /\ DOMAIN t = 1..(Len(q) - 1)
        /\ Len(q) \in Nat \ {0}
        /\ h = q[1]
        /\ \A i \in 1..(Len(q) - 1) : t[i] = q[i + 1]
    OBVIOUS
  <1> HIDE DEF t, h
  <1>2. \A i \in DOMAIN t : i + 1 \in DOMAIN q /\ t[i] = q[i + 1]
    BY <1>1
  <1>3. \A i \in DOMAIN q : i = 1 \/ (\E j \in DOMAIN t : q[i] = t[j])
    <2> SUFFICES ASSUME NEW i \in DOMAIN q, i # 1 PROVE \E j \in DOMAIN t : q[i] = t[j]
      OBVIOUS
    <2>1. i \in Int /\ i - 1 \in DOMAIN t /\ (i - 1) + 1 = i
      BY <1>1
    <2>2. t[i - 1] = q[(i - 1) + 1]
      BY <1>2, <2>1
    <2> QED BY <2>1, <2>2
  <1>4. 1 \in DOMAIN q
    BY <1>1
  <1>5. Chats(t) \subseteq Chats(q)
    BY <1>2 DEF Chats
  <1>6. h.kind = "chat" => <<h.msg, h.usr>> \in Chats(q)
    BY <1>1, <1>4 DEF Chats
  <1>7. ASSUME NEW p \in Chats(q)
        PROVE  p \in Chats(t) \/ (h.kind = "chat" /\ p = <<h.msg, h.usr>>)
    <2>1. PICK i \in DOMAIN q : q[i].kind = "chat" /\ p = <<q[i].msg, q[i].usr>>
      BY DEF Chats
    <2>2. CASE i = 1
      BY <1>1, <2>1, <2>2
    <2>3. CASE i # 1
      BY <1>3, <2>1, <2>3 DEF Chats
    <2> QED BY <2>2, <2>3
  <1>8. Chats(q) = Chats(t) \cup (IF h.kind = "chat" THEN {<<h.msg, h.usr>>} ELSE {})
    BY <1>5, <1>6, <1>7
  <1> QED BY <1>8 DEF t, h

\* A queue holds messages for users.
LEMMA ChatsType ==
  ASSUME NEW q \in Seq(Item)
  PROVE  Chats(q) \subseteq Msgs \X Users
  BY DEF Chats, Item

\* A lookup, whatever it returns, keeps the locals of the handlers in shape.
LEMMA LookUpType ==
  ASSUME TypeOK, HandlerInv, NEW s \in Sessions, NEW u \in Users,
         NEW found \in Sessions \cup {NoSession}, LookUp(s, u, found)
  PROVE  /\ job' \in [Sessions -> Job]
         /\ pc' \in [Sessions -> Steps]
         /\ pc[s] \in {"route", "announce"}
         /\ \A t \in Sessions \ {s} : pc'[t] = pc[t] /\ job'[t] = job[t]
         /\ pc[s] = "announce" => pc'[s] = "tell"
         /\ pc[s] = "route" =>
              /\ pc'[s] \in {"send", "store"}
              /\ job'[s] = AJob(job[s].msg, job[s].todo \ {u}, u, found)
              /\ pc'[s] = "send" => found \in Sessions
  <1>1. CASE RouteTo(s, u, found)
    BY <1>1 DEF TypeOK, Job, AJob, Steps, RouteTo
  <1>2. CASE AnnounceTo(s, u, found)
    BY <1>2 DEF TypeOK, Job, AJob, Steps, AnnounceTo
  <1> QED BY <1>1, <1>2 DEF LookUp

\* Every handler step, request and crash keeps the types and what the handlers
\* rely on between their steps.
LEMMA TypeStep == TypeInv /\ [Next]_vars => TypeInv'
  <1> SUFFICES ASSUME TypeOK, HandlerInv, [Next]_vars PROVE TypeOK' /\ HandlerInv'
    BY DEF TypeInv
  <1> USE ConstantsAssumption
  <1>1. ASSUME NEW s \in Sessions, OnConnection(s) PROVE TypeOK' /\ HandlerInv'
    <2>1. TypeOK'
      BY <1>1 DEF TypeOK, HandlerInv, HandlerOK, Job, AJob, NoJob, Steps, OnConnection
    <2>2. HandlerInv'
      BY <1>1 DEF TypeOK, HandlerInv, HandlerOK, Job, AJob, NoJob, OnConnection
    <2> QED BY <2>1, <2>2
  <1>2. ASSUME NEW s \in Sessions, OnClose(s) PROVE TypeOK' /\ HandlerInv'
    <2>0. lost' \subseteq Msgs \X Users \X Reasons
      <3>1. Queued(s) \subseteq Msgs \X Users
        BY ChatsType DEF TypeOK, Queued
      <3> QED BY <1>2, <3>1 DEF TypeOK, OnClose, Disconnect, Reasons
    <2>1. TypeOK'
      BY <1>2, <2>0, SMTT(30) DEF TypeOK, OnClose, Disconnect
    <2>2. HandlerInv'
      BY <1>2 DEF TypeOK, HandlerInv, HandlerOK, OnClose, Disconnect
    <2> QED BY <2>1, <2>2
  <1>3. ASSUME NEW s \in Sessions, NEW u \in Users, Login(s, u) PROVE TypeOK' /\ HandlerInv'
    <2>1. TypeOK'
      BY <1>3 DEF TypeOK, HandlerInv, HandlerOK, Job, AJob, NoJob, Steps, Login
    <2>2. HandlerInv'
      BY <1>3 DEF TypeOK, HandlerInv, HandlerOK, Job, AJob, NoJob, Login
    <2> QED BY <2>1, <2>2
  <1>4. ASSUME NEW s \in Sessions, LoginRejected(s) PROVE TypeOK' /\ HandlerInv'
    <2>1. TypeOK'
      BY <1>4 DEF TypeOK, HandlerInv, HandlerOK, Job, AJob, NoJob, Steps, LoginRejected
    <2>2. HandlerInv'
      BY <1>4 DEF TypeOK, HandlerInv, HandlerOK, Job, AJob, NoJob, LoginRejected
    <2> QED BY <2>1, <2>2
  <1>5. ASSUME NEW s \in Sessions, LoginAccepted(s) PROVE TypeOK' /\ HandlerInv'
    <2>1. TypeOK'
      BY <1>5 DEF TypeOK, HandlerInv, HandlerOK, Job, AJob, NoJob, Steps, LoginAccepted
    <2>2. HandlerInv'
      BY <1>5 DEF TypeOK, HandlerInv, HandlerOK, Job, AJob, NoJob, LoginAccepted
    <2> QED BY <2>1, <2>2
  <1>6. ASSUME NEW s \in Sessions, FetchOffline(s) PROVE TypeOK' /\ HandlerInv'
    <2>1. TypeOK'
      BY <1>6 DEF TypeOK, HandlerInv, HandlerOK, Job, AJob, NoJob, Steps, FetchOffline, RowsOf
    <2>2. HandlerInv'
      BY <1>6 DEF TypeOK, HandlerInv, HandlerOK, Job, AJob, NoJob, FetchOffline, RowsOf
    <2> QED BY <2>1, <2>2
  <1>7. ASSUME NEW s \in Sessions, FetchFails(s) PROVE TypeOK' /\ HandlerInv'
    <2>1. TypeOK'
      BY <1>7 DEF TypeOK, HandlerInv, HandlerOK, Job, AJob, NoJob, Steps, FetchFails
    <2>2. HandlerInv'
      BY <1>7 DEF TypeOK, HandlerInv, HandlerOK, Job, AJob, NoJob, FetchFails
    <2> QED BY <2>1, <2>2
  <1>8. ASSUME NEW s \in Sessions, DeleteOffline(s) PROVE TypeOK' /\ HandlerInv'
    <2>1. TypeOK'
      BY <1>8 DEF TypeOK, HandlerInv, HandlerOK, Job, AJob, NoJob, Steps, DeleteOffline
    <2>2. HandlerInv'
      BY <1>8 DEF TypeOK, HandlerInv, HandlerOK, Job, AJob, NoJob, DeleteOffline
    <2> QED BY <2>1, <2>2
  <1>9. ASSUME NEW s \in Sessions, DeleteFails(s) PROVE TypeOK' /\ HandlerInv'
    <2>1. TypeOK'
      BY <1>9, SMTT(30) DEF TypeOK, HandlerInv, HandlerOK, Job, AJob, NoJob, Steps, DeleteFails
    <2>2. HandlerInv'
      BY <1>9 DEF TypeOK, HandlerInv, HandlerOK, Job, AJob, NoJob, DeleteFails
    <2> QED BY <2>1, <2>2
  <1>10. ASSUME NEW s \in Sessions, PushOffline(s) PROVE TypeOK' /\ HandlerInv'
    <2>1. TypeOK'
      <3>1. PICK r \in NextRow(s) :
               /\ wire' = [wire EXCEPT ![s] = Append(@, ChatItem(r.msg, r.usr, r.id))]
               /\ handed' = Hand(r.msg, r.usr)
               /\ batch' = [batch EXCEPT ![s] = @ \ {r}]
        BY <1>10 DEF PushOffline
      <3>2. r \in Row
        BY <1>10 DEF TypeOK, NextRow
      <3>3. wire' \in [Sessions -> Seq(Item)]
        BY <1>10, <3>1, <3>2 DEF TypeOK, ChatItem, Item, Row
      <3>4. handed' \in [Msgs \X Users -> Nat]
        BY <1>10, <3>1, <3>2 DEF TypeOK, Hand, Row
      <3>5. batch' \in [Sessions -> SUBSET Row]
        BY <1>10, <3>1 DEF TypeOK
      <3> QED BY <1>10, <3>1, <3>2, <3>3, <3>4, <3>5 DEF TypeOK, PushOffline
    <2>2. HandlerInv'
      BY <1>10 DEF TypeOK, HandlerInv, HandlerOK, Job, AJob, NoJob, PushOffline, NextRow, Hand, ChatItem, Item, Row
    <2> QED BY <2>1, <2>2
  <1>11. ASSUME NEW s \in Sessions, StartAnnounce(s) PROVE TypeOK' /\ HandlerInv'
    <2>1. TypeOK'
      BY <1>11 DEF TypeOK, HandlerInv, HandlerOK, Job, AJob, NoJob, Steps, StartAnnounce
    <2>2. HandlerInv'
      BY <1>11 DEF TypeOK, HandlerInv, HandlerOK, Job, AJob, NoJob, StartAnnounce
    <2> QED BY <2>1, <2>2
  <1>12. ASSUME NEW s \in Sessions, NEW u \in Users, Route(s, u) PROVE TypeOK' /\ HandlerInv'
    <2>1. PICK found \in Sessions \cup {NoSession} : LookUp(s, u, found)
      BY <1>12, FoundType DEF Route
    <2>2. TypeOK'
      BY <1>12, <2>1, LookUpType DEF TypeOK, Route
    <2>3. HandlerInv'
      <3> DEFINE J == AJob(job[s].msg, job[s].todo \ {u}, u, found)
      <3>0. /\ pc[s] \in {"route", "announce"}
            /\ \A t \in Sessions \ {s} : pc'[t] = pc[t] /\ job'[t] = job[t]
            /\ pc[s] = "announce" => pc'[s] = "tell"
            /\ pc[s] = "route" =>
                 /\ pc'[s] \in {"send", "store"}
                 /\ job'[s] = J
                 /\ pc'[s] = "send" => found \in Sessions
            /\ user' = user /\ batch' = batch
        BY <1>12, <2>1, LookUpType DEF Route
      <3> SUFFICES ASSUME NEW t \in Sessions PROVE HandlerOK(t)'
        BY DEF HandlerInv
      <3>1. CASE t # s
        BY <3>0, <3>1 DEF HandlerInv, HandlerOK
      <3>2. CASE t = s
        BY <3>0, <3>2 DEF HandlerInv, HandlerOK, AJob
      <3> QED BY <3>1, <3>2
    <2> QED BY <2>2, <2>3
  <1>13. ASSUME NEW s \in Sessions, Tell(s) PROVE TypeOK' /\ HandlerInv'
    <2>1. TypeOK'
      <3>1. UpItem(user[s]) \in Item
        BY <1>13 DEF HandlerInv, HandlerOK, Tell, UpItem, Item
      <3>2. inbox' \in [Sessions -> Seq(Item)]
        <4>1. CASE job[s].via = s
          BY <1>13, <4>1 DEF TypeOK, Tell
        <4>2. CASE job[s].via # s
          <5>1. \/ inbox' = inbox
                \/ /\ job[s].via \in mapclient
                   /\ inbox' = [inbox EXCEPT ![job[s].via] = Append(@, UpItem(user[s]))]
            BY <1>13, <4>2 DEF Tell, Queue
          <5>2. inbox \in [Sessions -> Seq(Item)] /\ mapclient \subseteq Sessions
            BY DEF TypeOK
          <5>3. CASE inbox' = inbox
            BY <5>2, <5>3
          <5>4. CASE inbox' # inbox
            <6>1. job[s].via \in Sessions
              BY <5>1, <5>2, <5>4
            <6>2. Append(inbox[job[s].via], UpItem(user[s])) \in Seq(Item)
              BY <3>1, <5>2, <6>1, AppendType
            <6> QED BY <5>1, <5>2, <5>4, <6>1, <6>2
          <5> QED BY <5>3, <5>4
        <4> QED BY <4>1, <4>2
      <3>3. seen' \in [Sessions -> SUBSET Users]
        <4>1. CASE job[s].via = s
          <5>1. seen' = [seen EXCEPT ![s] = @ \cup {user[s]}]
            BY <1>13, <4>1 DEF Tell
          <5>2. user[s] \in Users
            BY <1>13 DEF HandlerInv, HandlerOK, Tell
          <5> QED BY <5>1, <5>2 DEF TypeOK
        <4>2. CASE job[s].via # s
          BY <1>13, <4>2 DEF TypeOK, Tell
        <4> QED BY <4>1, <4>2
      <3>4. job' \in [Sessions -> Job]
        BY <1>13 DEF TypeOK, Job, AJob, Tell
      <3>5. pc' \in [Sessions -> Steps]
        BY <1>13 DEF TypeOK, Steps, Tell
      <3> QED BY <1>13, <3>1, <3>2, <3>3, <3>4, <3>5 DEF TypeOK, Tell
    <2>2. HandlerInv'
      BY <1>13 DEF TypeOK, HandlerInv, HandlerOK, Job, AJob, NoJob, Tell, Queue, UpItem, Item
    <2> QED BY <2>1, <2>2
  <1>14. ASSUME NEW s \in Sessions, LoginDone(s) PROVE TypeOK' /\ HandlerInv'
    <2>1. TypeOK'
      BY <1>14 DEF TypeOK, HandlerInv, HandlerOK, Job, AJob, NoJob, Steps, LoginDone
    <2>2. HandlerInv'
      BY <1>14 DEF TypeOK, HandlerInv, HandlerOK, Job, AJob, NoJob, LoginDone
    <2> QED BY <2>1, <2>2
  <1>15. ASSUME NEW s \in Sessions, OnGetFriendList(s) PROVE TypeOK' /\ HandlerInv'
    <2>1. TypeOK'
      <3>1. user[s] \in Users
        BY <1>15 DEF TypeOK, OnGetFriendList
      <3>2. seen' \in [Sessions -> SUBSET Users]
        <4>1. {f \in Friends[user[s]] : status[f] = 1} \subseteq Users
          BY <3>1, ConstantsAssumption
        <4> QED BY <1>15, <4>1 DEF TypeOK, OnGetFriendList
      <3>3. synced' \subseteq Sessions
        BY <1>15 DEF TypeOK, OnGetFriendList
      <3> QED BY <1>15, <3>2, <3>3 DEF TypeOK, OnGetFriendList
    <2>2. HandlerInv'
      BY <1>15 DEF TypeOK, HandlerInv, HandlerOK, Job, AJob, NoJob, OnGetFriendList
    <2> QED BY <2>1, <2>2
  <1>16. ASSUME NEW s \in Sessions, NEW m \in Msgs, NEW R \in SUBSET Users, Accept(s, m, R) PROVE TypeOK' /\ HandlerInv'
    <2>1. TypeOK'
      <3>1. accepted' \subseteq Msgs \X Users
        BY <1>16 DEF TypeOK, Accept
      <3>2. job' \in [Sessions -> Job]
        BY <1>16 DEF TypeOK, Job, AJob, NoJob, Accept
      <3>3. pc' \in [Sessions -> Steps]
        BY <1>16 DEF TypeOK, Steps, Accept
      <3> QED BY <1>16, <3>1, <3>2, <3>3 DEF TypeOK, Accept
    <2>2. HandlerInv'
      BY <1>16 DEF TypeOK, HandlerInv, HandlerOK, Job, AJob, NoJob, Accept
    <2> QED BY <2>1, <2>2
  <1>17. ASSUME NEW s \in Sessions, SendContainer(s) PROVE TypeOK' /\ HandlerInv'
    <2>1. TypeOK'
      <3>1. job[s].msg \in Msgs /\ job[s].to \in Users
        BY <1>17 DEF HandlerInv, HandlerOK, SendContainer
      <3>2. ChatItem(job[s].msg, job[s].to, 0) \in Item
        BY <1>17, <3>1 DEF ChatItem, Item
      <3>3. inbox' \in [Sessions -> Seq(Item)] /\ wire' \in [Sessions -> Seq(Item)]
        <4>1. CASE job[s].via = s
          <5>1. /\ inbox' = inbox
                /\ wire' = [wire EXCEPT ![s] = Append(@, ChatItem(job[s].msg, job[s].to, 0))]
            BY <1>17, <4>1 DEF SendContainer
          <5> QED BY <3>2, <5>1 DEF TypeOK
        <4>2. CASE job[s].via # s
          <5>1. /\ wire' = wire
                /\ \/ inbox' = inbox
                   \/ inbox' = [inbox EXCEPT ![job[s].via] =
                                   Append(@, ChatItem(job[s].msg, job[s].to, 0))]
            BY <1>17, <4>2 DEF SendContainer, Queue
          <5>2. job[s].via \in Sessions
            BY <1>17 DEF HandlerInv, HandlerOK, SendContainer
          <5>3. inbox \in [Sessions -> Seq(Item)] /\ wire \in [Sessions -> Seq(Item)]
            BY DEF TypeOK
          <5>4. Append(inbox[job[s].via], ChatItem(job[s].msg, job[s].to, 0)) \in Seq(Item)
            BY <3>2, <5>2, <5>3, AppendType
          <5> QED BY <5>1, <5>2, <5>3, <5>4
        <4> QED BY <4>1, <4>2
      <3>4. handed' \in [Msgs \X Users -> Nat]
        <4>1. CASE job[s].via = s
          <5>1. handed' = Hand(job[s].msg, job[s].to)
            BY <1>17, <4>1 DEF SendContainer
          <5> QED BY <3>1, <5>1 DEF TypeOK, Hand
        <4>2. CASE job[s].via # s
          BY <1>17, <4>2 DEF TypeOK, SendContainer
        <4> QED BY <4>1, <4>2
      <3>5. lost' \subseteq Msgs \X Users \X Reasons
        BY <1>17, <3>1 DEF TypeOK, SendContainer, Reasons
      <3>6. job' \in [Sessions -> Job]
        BY <1>17 DEF TypeOK, Job, AJob, SendContainer, NextReceiver
      <3>7. pc' \in [Sessions -> Steps]
        BY <1>17 DEF TypeOK, Steps, SendContainer, NextReceiver
      <3> QED BY <1>17, <3>1, <3>2, <3>3, <3>4, <3>5, <3>6, <3>7 DEF TypeOK, SendContainer
    <2>2. HandlerInv'
      BY <1>17 DEF TypeOK, HandlerInv, HandlerOK, Job, AJob, NoJob, SendContainer, Queue, NextReceiver, Hand, ChatItem, Item, Reasons
    <2> QED BY <2>1, <2>2
  <1>18. ASSUME NEW s \in Sessions, AddChatMsgCache(s) PROVE TypeOK' /\ HandlerInv'
    <2>1. TypeOK'
      <3>1. offline' \subseteq Row
        BY <1>18 DEF TypeOK, HandlerInv, HandlerOK, AddChatMsgCache, Row
      <3>2. job' \in [Sessions -> Job]
        BY <1>18 DEF TypeOK, Job, AJob, AddChatMsgCache, NextReceiver
      <3>3. pc' \in [Sessions -> Steps]
        BY <1>18 DEF TypeOK, Steps, AddChatMsgCache, NextReceiver
      <3> QED BY <1>18, <3>1, <3>2, <3>3, SMTT(30) DEF TypeOK, AddChatMsgCache
    <2>2. HandlerInv'
      BY <1>18 DEF TypeOK, HandlerInv, HandlerOK, Job, AJob, NoJob, AddChatMsgCache, NextReceiver, Row
    <2> QED BY <2>1, <2>2
  <1>19. ASSUME NEW s \in Sessions, InsertFails(s) PROVE TypeOK' /\ HandlerInv'
    <2>1. TypeOK'
      <3>1. lost' \subseteq Msgs \X Users \X Reasons
        BY <1>19 DEF TypeOK, HandlerInv, HandlerOK, InsertFails, Reasons
      <3>2. job' \in [Sessions -> Job]
        BY <1>19 DEF TypeOK, Job, AJob, InsertFails, NextReceiver
      <3>3. pc' \in [Sessions -> Steps]
        BY <1>19 DEF TypeOK, Steps, InsertFails, NextReceiver
      <3> QED BY <1>19, <3>1, <3>2, <3>3 DEF TypeOK, InsertFails
    <2>2. HandlerInv'
      BY <1>19 DEF TypeOK, HandlerInv, HandlerOK, Job, AJob, NoJob, InsertFails, NextReceiver, Reasons
    <2> QED BY <2>1, <2>2
  <1>20. ASSUME NEW s \in Sessions, ChatDone(s) PROVE TypeOK' /\ HandlerInv'
    <2>1. TypeOK'
      BY <1>20 DEF TypeOK, HandlerInv, HandlerOK, Job, AJob, NoJob, Steps, ChatDone
    <2>2. HandlerInv'
      BY <1>20 DEF TypeOK, HandlerInv, HandlerOK, Job, AJob, NoJob, ChatDone
    <2> QED BY <2>1, <2>2
  <1>21. ASSUME NEW s \in Sessions, SendInLoop(s) PROVE TypeOK' /\ HandlerInv'
    <2>1. TypeOK'
      <3>1. Head(inbox[s]) \in Item
        BY <1>21 DEF TypeOK, SendInLoop
      <3>2. wire' \in [Sessions -> Seq(Item)]
        BY <1>21, <3>1 DEF TypeOK, SendInLoop
      <3>3. inbox' \in [Sessions -> Seq(Item)]
        BY <1>21 DEF TypeOK, SendInLoop
      <3>4. handed' \in [Msgs \X Users -> Nat]
        BY <1>21, <3>1 DEF TypeOK, SendInLoop, Hand, Item
      <3>5. seen' \in [Sessions -> SUBSET Users]
        BY <1>21, <3>1 DEF TypeOK, SendInLoop, Item
      <3> QED BY <1>21, <3>1, <3>2, <3>3, <3>4, <3>5 DEF TypeOK, SendInLoop
    <2>2. HandlerInv'
      BY <1>21 DEF TypeOK, HandlerInv, HandlerOK, Job, AJob, NoJob, SendInLoop, Hand, Item
    <2> QED BY <2>1, <2>2
  <1>22. ASSUME NEW t \in Sessions, NEW s \in Sessions, NEW u \in Users,
                OnCloseDuringLookup(t, s, u)
         PROVE  TypeOK' /\ HandlerInv'
    <2>1. PICK found \in Sessions \cup {NoSession} : LookUp(s, u, found)
      BY <1>22 DEF OnCloseDuringLookup, SessionsOf, TypeOK
    <2>2. Disconnect(t) /\ s # t
      BY <1>22 DEF OnCloseDuringLookup
    <2> DEFINE J == AJob(job[s].msg, job[s].todo \ {u}, u, found)
    <2>3. /\ pc[s] \in {"route", "announce"}
          /\ \A x \in Sessions \ {s} : pc'[x] = pc[x] /\ job'[x] = job[x]
          /\ pc[s] = "announce" => pc'[s] = "tell"
          /\ pc[s] = "route" =>
               /\ pc'[s] \in {"send", "store"}
               /\ job'[s] = J
               /\ pc'[s] = "send" => found \in Sessions
          /\ job' \in [Sessions -> Job]
          /\ pc' \in [Sessions -> Steps]
      BY <2>1, LookUpType
    <2>4. TypeOK'
      <3>1. raced' \in BOOLEAN
        BY <1>22, Zenon DEF OnCloseDuringLookup
      <3>2. /\ user' \in [Sessions -> Users \cup {NoUser}]
            /\ inbox' \in [Sessions -> Seq(Item)]
            /\ wire' \in [Sessions -> Seq(Item)]
            /\ seen' \in [Sessions -> SUBSET Users]
        BY <2>2 DEF Disconnect, TypeOK
      <3>3. lost' \subseteq Msgs \X Users \X Reasons
        BY <2>2, ChatsType DEF Disconnect, TypeOK, Queued, Reasons
      <3> QED BY <1>22, <2>2, <2>3, <3>1, <3>2, <3>3
              DEF TypeOK, OnCloseDuringLookup, Disconnect
    <2>5. HandlerInv'
      <3> SUFFICES ASSUME NEW x \in Sessions PROVE HandlerOK(x)'
        BY DEF HandlerInv
      <3>1. /\ batch' = batch
            /\ pc[t] = "idle"
            /\ x # t => user'[x] = user[x]
        BY <1>22, <2>2 DEF OnCloseDuringLookup, Disconnect, TypeOK
      <3>2. CASE x # s
        BY <2>3, <3>1, <3>2 DEF HandlerInv, HandlerOK
      <3>3. CASE x = s
        BY <2>2, <2>3, <3>1, <3>3 DEF HandlerInv, HandlerOK, AJob
      <3> QED BY <3>2, <3>3
    <2> QED BY <2>4, <2>5
  <1>23. ASSUME Crash PROVE TypeOK' /\ HandlerInv'
    <2>2. lost' \subseteq Msgs \X Users \X Reasons
      BY <1>23 DEF Crash, CrashLoss, TypeOK
    <2>3. job' \in [Sessions -> Job]
      BY <1>23 DEF Crash, Job, AJob, NoJob
    <2>4. inbox' \in [Sessions -> Seq(Item)] /\ wire' \in [Sessions -> Seq(Item)]
      BY <1>23 DEF Crash
    <2>5. TypeOK'
      BY <1>23, <2>2, <2>3, <2>4 DEF Crash, TypeOK, Steps
    <2>6. HandlerInv'
      BY <1>23 DEF Crash, HandlerInv, HandlerOK
    <2> QED BY <2>5, <2>6
  <1>24. ASSUME NEW s \in Sessions, Proceed(s) PROVE TypeOK' /\ HandlerInv'
    BY <1>24, <1>4, <1>5, <1>6, <1>7, <1>8, <1>9, <1>10, <1>11, <1>12, <1>13,
       <1>14, <1>17, <1>18, <1>19, <1>20, <1>21 DEF Proceed
  <1>25. ASSUME NEW s \in Sessions, Request(s) PROVE TypeOK' /\ HandlerInv'
    BY <1>25, <1>1, <1>2, <1>3, <1>15, <1>16, <1>22
       DEF Request, OnChat, OnGroupChat, OnMultiChat
  <1>26. ASSUME UNCHANGED vars PROVE TypeOK' /\ HandlerInv'
    BY <1>26 DEF vars, TypeOK, HandlerInv, HandlerOK
  <1> QED BY <1>23, <1>24, <1>25, <1>26 DEF Next

\* Type correctness of the server state, for every value of the constants.
THEOREM TypeCorrect == Spec => []TypeOK
  <1>1. Init => TypeInv
    BY TypeInit
  <1>2. TypeInv /\ [Next]_vars => TypeInv'
    BY TypeStep
  <1>3. TypeInv => TypeOK
    BY DEF TypeInv
  <1> QED BY <1>1, <1>2, <1>3, PTL DEF Spec

-----------------------------------------------------------------------------
(* The critical section of MsgCacheManager *)

\* No step lets a row slip in between the SELECT and the DELETE of a login.
LEMMA LockStep == TypeInv /\ LockInv /\ [Next]_vars => LockInv'
  <1> SUFFICES ASSUME TypeOK, HandlerInv, LockInv, [Next]_vars PROVE LockInv'
    BY DEF TypeInv
  <1> USE ConstantsAssumption DEF LockInv, RowsOf, TypeOK
  <1>1. ASSUME NEW s \in Sessions, OnConnection(s) PROVE LockInv'
    BY <1>1 DEF OnConnection
  <1>2. ASSUME NEW s \in Sessions, OnClose(s) PROVE LockInv'
    BY <1>2 DEF OnClose, Disconnect
  <1>3. ASSUME NEW s \in Sessions, NEW u \in Users, Login(s, u) PROVE LockInv'
    BY <1>3 DEF Login
  <1>4. ASSUME NEW s \in Sessions, LoginRejected(s) PROVE LockInv'
    BY <1>4 DEF LoginRejected
  <1>5. ASSUME NEW s \in Sessions, LoginAccepted(s) PROVE LockInv'
    BY <1>5 DEF LoginAccepted
  <1>6. ASSUME NEW s \in Sessions, FetchOffline(s) PROVE LockInv'
    BY <1>6 DEF FetchOffline, NoSession
  <1>7. ASSUME NEW s \in Sessions, FetchFails(s) PROVE LockInv'
    BY <1>7 DEF FetchFails
  <1>8. ASSUME NEW s \in Sessions, DeleteOffline(s) PROVE LockInv'
    BY <1>8 DEF DeleteOffline
  <1>9. ASSUME NEW s \in Sessions, DeleteFails(s) PROVE LockInv'
    BY <1>9 DEF DeleteFails
  <1>10. ASSUME NEW s \in Sessions, PushOffline(s) PROVE LockInv'
    BY <1>10 DEF PushOffline
  <1>11. ASSUME NEW s \in Sessions, StartAnnounce(s) PROVE LockInv'
    BY <1>11 DEF StartAnnounce
  <1>12. ASSUME NEW s \in Sessions, NEW u \in Users, Route(s, u) PROVE LockInv'
    BY <1>12 DEF Route, LookUp, RouteTo, AnnounceTo
  <1>13. ASSUME NEW s \in Sessions, Tell(s) PROVE LockInv'
    BY <1>13 DEF Tell
  <1>14. ASSUME NEW s \in Sessions, LoginDone(s) PROVE LockInv'
    BY <1>14 DEF LoginDone
  <1>15. ASSUME NEW s \in Sessions, OnGetFriendList(s) PROVE LockInv'
    BY <1>15 DEF OnGetFriendList
  <1>16. ASSUME NEW s \in Sessions, NEW m \in Msgs, NEW R \in SUBSET Users, Accept(s, m, R)
         PROVE  LockInv'
    BY <1>16 DEF Accept
  <1>17. ASSUME NEW s \in Sessions, SendContainer(s) PROVE LockInv'
    BY <1>17 DEF SendContainer, NextReceiver
  <1>18. ASSUME NEW s \in Sessions, AddChatMsgCache(s) PROVE LockInv'
    BY <1>18 DEF AddChatMsgCache, NextReceiver, NoSession
  <1>19. ASSUME NEW s \in Sessions, InsertFails(s) PROVE LockInv'
    BY <1>19 DEF InsertFails, NextReceiver
  <1>20. ASSUME NEW s \in Sessions, ChatDone(s) PROVE LockInv'
    BY <1>20 DEF ChatDone
  <1>21. ASSUME NEW s \in Sessions, SendInLoop(s) PROVE LockInv'
    BY <1>21 DEF SendInLoop
  <1>22. ASSUME NEW t \in Sessions, NEW s \in Sessions, NEW u \in Users,
                OnCloseDuringLookup(t, s, u)
         PROVE  LockInv'
    BY <1>22 DEF OnCloseDuringLookup, Disconnect, LookUp, RouteTo, AnnounceTo
  <1>23. ASSUME Crash PROVE LockInv'
    BY <1>23 DEF Crash
  <1>24. ASSUME NEW s \in Sessions, Proceed(s) PROVE LockInv'
    BY <1>24, <1>4, <1>5, <1>6, <1>7, <1>8, <1>9, <1>10, <1>11, <1>12, <1>13,
       <1>14, <1>17, <1>18, <1>19, <1>20, <1>21 DEF Proceed
  <1>25. ASSUME NEW s \in Sessions, Request(s) PROVE LockInv'
    BY ZenonT(40), <1>25, <1>1, <1>2, <1>3, <1>15, <1>16, <1>22
       DEF Request, OnChat, OnGroupChat, OnMultiChat
  <1>26. ASSUME UNCHANGED vars PROVE LockInv'
    BY <1>26 DEF vars
  <1> QED BY <1>23, <1>24, <1>25, <1>26 DEF Next

-----------------------------------------------------------------------------
(* No silent loss *)

\* Steps of a login before and after the offline rows, and requests that
\* concern no message.
LEMMA QuietStep ==
  ASSUME TypeOK, NEW p \in Msgs \X Users, Placed(p), handed' = handed,
         lost \subseteq lost', offline' = offline, batch' = batch, inbox' = inbox,
         \A x \in Sessions : Unrouted(x)' = Unrouted(x)
  PROVE  Placed(p)'
  BY DEF Placed, OnItsWay, IsLost, InTable, InBatch, InQueue, InHandler, Queued

\* A step of a handler that is not serving a message leaves the others alone.
LEMMA UnroutedFrame ==
  ASSUME TypeOK, NEW s \in Sessions,
         NEW c \in Steps, NEW j, pc' = [pc EXCEPT ![s] = c], job' = [job EXCEPT ![s] = j]
  PROVE  \A x \in Sessions \ {s} : Unrouted(x)' = Unrouted(x)
  BY DEF TypeOK, Unrouted

\* What was queued for a connection that closes is recorded as lost.
LEMMA DisconnectQueue ==
  ASSUME TypeOK, NEW s \in Sessions, Disconnect(s), NEW p \in Msgs \X Users, InQueue(p)
  PROVE  InQueue(p)' \/ IsLost(p)'
  <1>1. PICK x \in Sessions : p \in Chats(inbox[x])
    BY DEF InQueue, Queued
  <1>2. CASE x = s
    <2>1. <<p[1], p[2], "gone">> \in lost'
      BY <1>1, <1>2 DEF Disconnect, Queued
    <2> QED BY <2>1 DEF IsLost, Reasons
  <1>3. CASE x # s
    BY <1>1, <1>3 DEF Disconnect, InQueue, Queued, TypeOK
  <1> QED BY <1>2, <1>3

\* A queue that grows keeps what it held.
LEMMA QueueKeeps ==
  ASSUME TypeOK, NEW t \in Sessions, NEW x \in Item, NEW p,
         inbox' = [inbox EXCEPT ![t] = Append(@, x)], InQueue(p)
  PROVE  InQueue(p)'
  <1>1. PICK y \in Sessions : p \in Chats(inbox[y])
    BY DEF InQueue, Queued
  <1>2. inbox[t] \in Seq(Item)
    BY DEF TypeOK
  <1>3. p \in Chats(inbox'[y])
    BY <1>1, <1>2, ChatsAppend DEF TypeOK
  <1> QED BY <1>3 DEF InQueue, Queued

\* A lookup only moves a receiver within its handler.
LEMMA LookUpUnrouted ==
  ASSUME TypeOK, HandlerInv, NEW s \in Sessions, NEW u \in Users,
         NEW found \in Sessions \cup {NoSession}, LookUp(s, u, found)
  PROVE  \A x \in Sessions : Unrouted(x)' = Unrouted(x)
  <1>1. \A x \in Sessions \ {s} : Unrouted(x)' = Unrouted(x)
    <2>1. \A x \in Sessions \ {s} : pc'[x] = pc[x] /\ job'[x] = job[x]
      BY LookUpType
    <2> QED BY <2>1 DEF Unrouted
  <1>2. CASE AnnounceTo(s, u, found)
    BY <1>1, <1>2 DEF AnnounceTo, Unrouted, TypeOK
  <1>3. CASE RouteTo(s, u, found)
    <2>1. /\ pc[s] = "route" /\ pc'[s] \in {"send", "store"}
          /\ job[s].to = NoUser /\ u \in job[s].todo
          /\ job'[s] = AJob(job[s].msg, job[s].todo \ {u}, u, found)
      BY <1>3, LookUpType DEF RouteTo, HandlerInv, HandlerOK
    <2>2. u # NoUser
      BY ConstantsAssumption
    <2>3. job'[s].msg = job[s].msg /\ job'[s].todo = job[s].todo \ {u} /\ job'[s].to = u
      BY <2>1 DEF AJob
    <2>4. Unrouted(s)' = Unrouted(s)
      BY <2>1, <2>2, <2>3 DEF Unrouted
    <2> QED BY <1>1, <2>4
  <1> QED BY <1>2, <1>3 DEF LookUp

\* A handler goes on to the next receiver: only the one it served is dropped.
LEMMA NextReceiverUnrouted ==
  ASSUME TypeOK, HandlerInv, NEW s \in Sessions, pc[s] \in {"send", "store"},
         NextReceiver(s), NEW p, InHandler(p)
  PROVE  InHandler(p)' \/ p = <<job[s].msg, job[s].to>>
  <1>1. PICK x \in Sessions : p \in Unrouted(x)
    BY DEF InHandler
  <1>2. CASE x # s
    <2>1. pc'[x] = pc[x] /\ job'[x] = job[x]
      BY <1>2 DEF NextReceiver, TypeOK
    <2>2. p \in Unrouted(x)'
      BY <1>1, <2>1 DEF Unrouted
    <2> QED BY <2>2 DEF InHandler
  <1>3. CASE x = s
    <2>1. /\ pc'[s] = "route" /\ job'[s].msg = job[s].msg
          /\ job'[s].todo = job[s].todo /\ job'[s].to = NoUser
      BY DEF NextReceiver, AJob, TypeOK
    <2>2. PICK u \in job[s].todo \cup {job[s].to} : p = <<job[s].msg, u>>
      BY <1>1, <1>3 DEF Unrouted
    <2>3. u \in job[s].todo => p \in Unrouted(s)'
      BY <2>1, <2>2 DEF Unrouted
    <2> QED BY <2>2, <2>3 DEF InHandler
  <1> QED BY <1>2, <1>3

\* Counting one more delivery.
LEMMA HandCount ==
  ASSUME TypeOK, NEW d \in Msgs \X Users, NEW p \in Msgs \X Users,
         handed' = [handed EXCEPT ![d] = @ + 1]
  PROVE  /\ handed[p] > 0 => handed'[p] > 0
         /\ p = d => handed'[p] > 0
  <1>1. handed \in [Msgs \X Users -> Nat]
    BY DEF TypeOK
  <1>2. handed'[p] = IF p = d THEN handed[p] + 1 ELSE handed[p]
    BY <1>1
  <1>3. handed[p] \in Nat
    BY <1>1
  <1> QED BY <1>2, <1>3

\* Every step leaves each accepted message somewhere it can be found.
LEMMA LossStep == TypeInv /\ LockInv /\ NoSilentLoss /\ [Next]_vars => NoSilentLoss'
  <1> SUFFICES ASSUME TypeOK, HandlerInv, LockInv, NoSilentLoss, [Next]_vars
               PROVE  NoSilentLoss'
    BY DEF TypeInv
  <1> USE ConstantsAssumption
  <1>1. ASSUME NEW s \in Sessions, OnConnection(s) PROVE NoSilentLoss'
    <2>1. \A x \in Sessions : Unrouted(x)' = Unrouted(x)
      BY <1>1 DEF OnConnection, Unrouted, AJob, NoJob, TypeOK
    <2> QED BY <1>1, <2>1, QuietStep DEF OnConnection, NoSilentLoss, TypeOK
  <1>2. ASSUME NEW s \in Sessions, NEW u \in Users, Login(s, u) PROVE NoSilentLoss'
    <2>1. \A x \in Sessions : Unrouted(x)' = Unrouted(x)
      BY <1>2 DEF Login, Unrouted, AJob, NoJob, TypeOK
    <2> QED BY <1>2, <2>1, QuietStep DEF Login, NoSilentLoss, TypeOK
  <1>3. ASSUME NEW s \in Sessions, LoginRejected(s) PROVE NoSilentLoss'
    <2>1. \A x \in Sessions : Unrouted(x)' = Unrouted(x)
      BY <1>3 DEF LoginRejected, Unrouted, AJob, NoJob, TypeOK
    <2> QED BY <1>3, <2>1, QuietStep DEF LoginRejected, NoSilentLoss, TypeOK
  <1>4. ASSUME NEW s \in Sessions, LoginAccepted(s) PROVE NoSilentLoss'
    <2>1. \A x \in Sessions : Unrouted(x)' = Unrouted(x)
      BY <1>4 DEF LoginAccepted, Unrouted, AJob, NoJob, TypeOK
    <2> QED BY <1>4, <2>1, QuietStep DEF LoginAccepted, NoSilentLoss, TypeOK
  <1>5. ASSUME NEW s \in Sessions, FetchFails(s) PROVE NoSilentLoss'
    <2>1. \A x \in Sessions : Unrouted(x)' = Unrouted(x)
      BY <1>5 DEF FetchFails, Unrouted, AJob, NoJob, TypeOK
    <2> QED BY <1>5, <2>1, QuietStep DEF FetchFails, NoSilentLoss, TypeOK
  <1>6. ASSUME NEW s \in Sessions, DeleteFails(s) PROVE NoSilentLoss'
    <2>1. \A x \in Sessions : Unrouted(x)' = Unrouted(x)
      BY <1>6 DEF DeleteFails, Unrouted, AJob, NoJob, TypeOK
    <2> QED BY <1>6, <2>1, QuietStep DEF DeleteFails, NoSilentLoss, TypeOK
  <1>7. ASSUME NEW s \in Sessions, StartAnnounce(s) PROVE NoSilentLoss'
    <2>1. \A x \in Sessions : Unrouted(x)' = Unrouted(x)
      <3>1. \A x \in Sessions \ {s} : Unrouted(x)' = Unrouted(x)
        BY <1>7, UnroutedFrame DEF StartAnnounce, Steps
      <3>2. Unrouted(s) = {}
        BY <1>7 DEF StartAnnounce, Unrouted
      <3>3. Unrouted(s)' = {}
        BY <1>7 DEF StartAnnounce, Unrouted, TypeOK
      <3> QED BY <3>1, <3>2, <3>3
    <2> QED BY <1>7, <2>1, QuietStep DEF StartAnnounce, NoSilentLoss, TypeOK
  <1>8. ASSUME NEW s \in Sessions, LoginDone(s) PROVE NoSilentLoss'
    <2>1. \A x \in Sessions : Unrouted(x)' = Unrouted(x)
      <3>1. \A x \in Sessions \ {s} : Unrouted(x)' = Unrouted(x)
        BY <1>8, UnroutedFrame DEF LoginDone, Steps
      <3>2. Unrouted(s) = {}
        BY <1>8 DEF LoginDone, Unrouted
      <3>3. Unrouted(s)' = {}
        BY <1>8 DEF LoginDone, Unrouted, TypeOK
      <3> QED BY <3>1, <3>2, <3>3
    <2> QED BY <1>8, <2>1, QuietStep DEF LoginDone, NoSilentLoss, TypeOK
  <1>9. ASSUME NEW s \in Sessions, OnGetFriendList(s) PROVE NoSilentLoss'
    <2>1. \A x \in Sessions : Unrouted(x)' = Unrouted(x)
      BY <1>9 DEF OnGetFriendList, Unrouted, AJob, NoJob, TypeOK
    <2> QED BY <1>9, <2>1, QuietStep DEF OnGetFriendList, NoSilentLoss, TypeOK
  <1>10. ASSUME NEW s \in Sessions, ChatDone(s) PROVE NoSilentLoss'
    <2>1. \A x \in Sessions : Unrouted(x)' = Unrouted(x)
      <3>1. \A x \in Sessions \ {s} : Unrouted(x)' = Unrouted(x)
        BY <1>10, UnroutedFrame DEF ChatDone, Steps
      <3>2. Unrouted(s) = {}
        BY <1>10 DEF ChatDone, Unrouted, HandlerInv, HandlerOK
      <3>3. Unrouted(s)' = {}
        BY <1>10 DEF ChatDone, Unrouted, TypeOK
      <3> QED BY <3>1, <3>2, <3>3
    <2> QED BY <1>10, <2>1, QuietStep DEF ChatDone, NoSilentLoss, TypeOK
  <1>11. ASSUME NEW s \in Sessions, OnClose(s) PROVE NoSilentLoss'
    <2>1. \A x \in Sessions : Unrouted(x)' = Unrouted(x)
      BY <1>11 DEF OnClose, Unrouted
    <2> SUFFICES ASSUME NEW p \in Msgs \X Users, Placed(p) PROVE Placed(p)'
      BY <1>11 DEF OnClose, NoSilentLoss, TypeOK
    <2>2. InQueue(p) => InQueue(p)' \/ IsLost(p)'
      BY <1>11, DisconnectQueue DEF OnClose
    <2>3. UNCHANGED <<handed, offline, batch>> /\ lost \subseteq lost'
      BY <1>11 DEF OnClose, Disconnect, dbVars
    <2> QED BY <2>1, <2>2, <2>3 DEF Placed, OnItsWay, IsLost, InTable, InBatch, InHandler
  <1>12. ASSUME NEW s \in Sessions, FetchOffline(s) PROVE NoSilentLoss'
    <2>1. \A x \in Sessions : Unrouted(x)' = Unrouted(x)
      BY <1>12 DEF FetchOffline, Unrouted, TypeOK
    <2>2. \A x \in Sessions : batch[x] \subseteq batch'[x]
      BY <1>12 DEF FetchOffline, TypeOK, HandlerInv, HandlerOK
    <2> SUFFICES ASSUME NEW p \in Msgs \X Users, Placed(p) PROVE Placed(p)'
      BY <1>12 DEF FetchOffline, NoSilentLoss, TypeOK
    <2>3. UNCHANGED <<handed, lost, offline, inbox>>
      BY <1>12 DEF FetchOffline
    <2>4. InBatch(p) => InBatch(p)'
      BY <2>2 DEF InBatch
    <2> QED BY <2>1, <2>3, <2>4 DEF Placed, OnItsWay, IsLost, InTable, InQueue, InHandler, Queued
  <1>13. ASSUME NEW s \in Sessions, DeleteOffline(s) PROVE NoSilentLoss'
    <2>1. \A x \in Sessions : Unrouted(x)' = Unrouted(x)
      BY <1>13 DEF DeleteOffline, Unrouted, TypeOK
    <2> SUFFICES ASSUME NEW p \in Msgs \X Users, Placed(p) PROVE Placed(p)'
      BY <1>13 DEF DeleteOffline, NoSilentLoss, TypeOK
    <2>2. UNCHANGED <<handed, lost, batch, inbox>>
      BY <1>13 DEF DeleteOffline
    <2>3. RowsOf(user[s]) \subseteq batch[s]
      BY <1>13 DEF DeleteOffline, LockInv
    <2>4. InTable(p) => InTable(p)' \/ InBatch(p)'
      BY <1>13, <2>2, <2>3 DEF DeleteOffline, InTable, InBatch
    <2> QED BY <2>1, <2>2, <2>4 DEF Placed, OnItsWay, IsLost, InBatch, InQueue, InHandler, Queued
  <1>14. ASSUME NEW s \in Sessions, PushOffline(s) PROVE NoSilentLoss'
    <2>1. \A x \in Sessions : Unrouted(x)' = Unrouted(x)
      BY <1>14 DEF PushOffline, Unrouted, TypeOK
    <2> SUFFICES ASSUME NEW p \in Msgs \X Users, Placed(p) PROVE Placed(p)'
      BY <1>14 DEF PushOffline, NoSilentLoss, TypeOK
    <2>2. PICK r \in batch[s] : /\ handed' = Hand(r.msg, r.usr)
                               /\ batch' = [batch EXCEPT ![s] = @ \ {r}]
      BY <1>14 DEF PushOffline, NextRow
    <2>3. UNCHANGED <<lost, offline, inbox>>
      BY <1>14 DEF PushOffline
    <2>4. <<r.msg, r.usr>> \in Msgs \X Users
      BY <2>2 DEF TypeOK, Row
    <2>5. /\ handed[p] > 0 => handed'[p] > 0
          /\ p = <<r.msg, r.usr>> => handed'[p] > 0
      BY <2>2, <2>4, HandCount DEF Hand
    <2>7. InBatch(p) => InBatch(p)' \/ p = <<r.msg, r.usr>>
      BY <2>2 DEF TypeOK, InBatch
    <2> QED BY <2>1, <2>3, <2>5, <2>7
            DEF Placed, OnItsWay, IsLost, InTable, InQueue, InHandler, Queued
  <1>15. ASSUME NEW s \in Sessions, NEW u \in Users, Route(s, u) PROVE NoSilentLoss'
    <2>1. PICK found \in Sessions \cup {NoSession} : LookUp(s, u, found)
      BY <1>15, FoundType DEF Route
    <2>2. \A x \in Sessions : Unrouted(x)' = Unrouted(x)
      BY <2>1, LookUpUnrouted
    <2> QED BY <1>15, <2>2, QuietStep DEF Route, NoSilentLoss, TypeOK
  <1>16. ASSUME NEW s \in Sessions, Tell(s) PROVE NoSilentLoss'
    <2>1. \A x \in Sessions : Unrouted(x)' = Unrouted(x)
      <3>1. \A x \in Sessions \ {s} : Unrouted(x)' = Unrouted(x)
        BY <1>16, UnroutedFrame DEF Tell, Steps
      <3>2. Unrouted(s) = {} /\ Unrouted(s)' = {}
        BY <1>16 DEF Tell, Unrouted, TypeOK
      <3> QED BY <3>1, <3>2
    <2> SUFFICES ASSUME NEW p \in Msgs \X Users, Placed(p) PROVE Placed(p)'
      BY <1>16 DEF Tell, NoSilentLoss, TypeOK
    <2>2. UpItem(user[s]) \in Item
      BY <1>16 DEF Tell, HandlerInv, HandlerOK, UpItem, Item
    <2>3. \/ inbox' = inbox
          \/ /\ job[s].via \in mapclient
             /\ inbox' = [inbox EXCEPT ![job[s].via] = Append(@, UpItem(user[s]))]
      BY <1>16 DEF Tell, Queue
    <2>4. InQueue(p) => InQueue(p)'
      <3>1. CASE inbox' = inbox
        BY <3>1 DEF InQueue, Queued
      <3>2. CASE inbox' # inbox
        <4>1. job[s].via \in Sessions
          BY <2>3, <3>2 DEF TypeOK
        <4> QED BY <2>2, <2>3, <3>2, <4>1, QueueKeeps
      <3> QED BY <3>1, <3>2
    <2>5. UNCHANGED <<handed, lost, offline, batch>>
      BY <1>16 DEF Tell
    <2> QED BY <2>1, <2>4, <2>5 DEF Placed, OnItsWay, IsLost, InTable, InBatch, InHandler
  <1>17. ASSUME NEW s \in Sessions, NEW m \in Msgs, NEW R \in SUBSET Users, Accept(s, m, R)
         PROVE  NoSilentLoss'
    <2>1. \A x \in Sessions \ {s} : Unrouted(x)' = Unrouted(x)
      BY <1>17, UnroutedFrame DEF Accept, Steps
    <2>2. Unrouted(s) = {}
      BY <1>17 DEF Accept, Unrouted
    <2>3. Unrouted(s)' = {<<m, u>> : u \in R}
      BY <1>17 DEF Accept, Unrouted, AJob, TypeOK
    <2> SUFFICES ASSUME NEW p \in Msgs \X Users, p \in accepted' PROVE Placed(p)'
      BY <1>17 DEF Accept, NoSilentLoss, TypeOK
    <2>4. CASE p \in accepted
      <3>1. InHandler(p) => InHandler(p)'
        BY <2>1, <2>2 DEF InHandler
      <3>2. UNCHANGED <<handed, lost, offline, batch, inbox>>
        BY <1>17 DEF Accept
      <3> QED BY <2>4, <3>1, <3>2
              DEF NoSilentLoss, Placed, OnItsWay, IsLost, InTable, InBatch, InQueue, Queued
    <2>5. CASE p \notin accepted
      <3>1. p \in Unrouted(s)'
        BY <1>17, <2>3, <2>5 DEF Accept
      <3> QED BY <3>1 DEF Placed, OnItsWay, InHandler
    <2> QED BY <2>4, <2>5
  <1>18. ASSUME NEW s \in Sessions, SendContainer(s) PROVE NoSilentLoss'
    <2> DEFINE d == <<job[s].msg, job[s].to>>
               x == ChatItem(job[s].msg, job[s].to, 0)
    <2>1. d \in Msgs \X Users /\ job[s].via \in Sessions
      BY <1>18 DEF SendContainer, HandlerInv, HandlerOK
    <2>2. NextReceiver(s) /\ pc[s] = "send"
      BY <1>18 DEF SendContainer
    <2> SUFFICES ASSUME NEW p \in Msgs \X Users, Placed(p) PROVE Placed(p)'
      BY <1>18 DEF SendContainer, NoSilentLoss, TypeOK
    <2>3. InHandler(p) => InHandler(p)' \/ p = d
      BY <2>2, NextReceiverUnrouted
    <2>4. UNCHANGED <<offline, batch>>
      BY <1>18 DEF SendContainer
    <2>5. CASE job[s].via = s
      <3>1. handed' = [handed EXCEPT ![d] = @ + 1] /\ UNCHANGED <<inbox, lost>>
        BY <1>18, <2>5 DEF SendContainer, Hand
      <3>2. /\ handed[p] > 0 => handed'[p] > 0
            /\ p = d => handed'[p] > 0
        BY <2>1, <3>1, HandCount
      <3> QED BY <2>3, <2>4, <3>1, <3>2
              DEF Placed, OnItsWay, IsLost, InTable, InBatch, InQueue, Queued
    <2>6. CASE job[s].via # s /\ job[s].via \in mapclient
      <3>1. /\ inbox' = [inbox EXCEPT ![job[s].via] = Append(@, x)]
            /\ UNCHANGED <<handed, lost>>
        BY <1>18, <2>6 DEF SendContainer, Queue
      <3>2. x \in Item /\ x.kind = "chat" /\ <<x.msg, x.usr>> = d
        BY <2>1 DEF ChatItem, Item
      <3>3. InQueue(p) => InQueue(p)'
        BY <2>1, <3>1, <3>2, QueueKeeps
      <3>4. p = d => InQueue(p)'
        <4>1. inbox'[job[s].via] = Append(inbox[job[s].via], x)
          BY <2>1, <3>1 DEF TypeOK
        <4>2. inbox[job[s].via] \in Seq(Item)
          BY <2>1 DEF TypeOK
        <4>3. d \in Chats(inbox'[job[s].via])
          BY <3>2, <4>1, <4>2, ChatsAppend
        <4> QED BY <2>1, <4>3 DEF InQueue, Queued
      <3> QED BY <2>3, <2>4, <3>1, <3>3, <3>4
              DEF Placed, OnItsWay, IsLost, InTable, InBatch
    <2>7. CASE job[s].via # s /\ job[s].via \notin mapclient
      <3>1. /\ UNCHANGED <<handed, inbox>>
            /\ lost' = lost \cup {<<job[s].msg, job[s].to, "gone">>}
        BY <1>18, <2>7 DEF SendContainer, Queue
      <3>2. p = d => IsLost(p)'
        BY <2>1, <3>1 DEF IsLost, Reasons
      <3> QED BY <2>3, <2>4, <3>1, <3>2
              DEF Placed, OnItsWay, IsLost, InTable, InBatch, InQueue, Queued
    <2> QED BY <2>5, <2>6, <2>7
  <1>19. ASSUME NEW s \in Sessions, AddChatMsgCache(s) PROVE NoSilentLoss'
    <2> DEFINE d == <<job[s].msg, job[s].to>>
    <2>1. NextReceiver(s) /\ pc[s] = "store"
      BY <1>19 DEF AddChatMsgCache
    <2> SUFFICES ASSUME NEW p \in Msgs \X Users, Placed(p) PROVE Placed(p)'
      BY <1>19 DEF AddChatMsgCache, NoSilentLoss, TypeOK
    <2>2. InHandler(p) => InHandler(p)' \/ p = d
      BY <2>1, NextReceiverUnrouted
    <2>3. UNCHANGED <<handed, lost, batch, inbox>> /\ offline \subseteq offline'
      BY <1>19 DEF AddChatMsgCache
    <2>4. p = d => InTable(p)'
      <3> DEFINE r == [id |-> nextId, usr |-> job[s].to, msg |-> job[s].msg]
      <3>1. r \in offline' /\ r.msg = job[s].msg /\ r.usr = job[s].to
        BY <1>19 DEF AddChatMsgCache
      <3> HIDE DEF r
      <3>2. p = d => \E q \in offline' : <<q.msg, q.usr>> = p
        BY <3>1
      <3> QED BY <3>2 DEF InTable
    <2> QED BY <2>2, <2>3, <2>4 DEF Placed, OnItsWay, IsLost, InTable, InBatch, InQueue, Queued
  <1>20. ASSUME NEW s \in Sessions, InsertFails(s) PROVE NoSilentLoss'
    <2> DEFINE d == <<job[s].msg, job[s].to>>
    <2>1. NextReceiver(s) /\ pc[s] = "store"
      BY <1>20 DEF InsertFails
    <2> SUFFICES ASSUME NEW p \in Msgs \X Users, Placed(p) PROVE Placed(p)'
      BY <1>20 DEF InsertFails, NoSilentLoss, TypeOK
    <2>2. InHandler(p) => InHandler(p)' \/ p = d
      BY <2>1, NextReceiverUnrouted
    <2>3. UNCHANGED <<handed, offline, batch, inbox>> /\ lost \subseteq lost'
      BY <1>20 DEF InsertFails
    <2>4. p = d => IsLost(p)'
      BY <1>20 DEF InsertFails, IsLost, Reasons
    <2> QED BY <2>2, <2>3, <2>4 DEF Placed, OnItsWay, IsLost, InTable, InBatch, InQueue, Queued
  <1>21. ASSUME NEW s \in Sessions, SendInLoop(s) PROVE NoSilentLoss'
    <2> DEFINE x == Head(inbox[s])
               d == <<x.msg, x.usr>>
    <2>1. inbox[s] \in Seq(Item) /\ inbox[s] # <<>> /\ x \in Item
      BY <1>21 DEF SendInLoop, TypeOK
    <2>2. Chats(inbox[s]) = Chats(Tail(inbox[s])) \cup (IF x.kind = "chat" THEN {d} ELSE {})
      BY <2>1, ChatsTail
    <2>3. inbox' = [inbox EXCEPT ![s] = Tail(@)]
      BY <1>21 DEF SendInLoop
    <2>4. \A y \in Sessions : Unrouted(y)' = Unrouted(y)
      BY <1>21 DEF SendInLoop, Unrouted
    <2>5. UNCHANGED <<lost, offline, batch>>
      BY <1>21 DEF SendInLoop
    <2> SUFFICES ASSUME NEW p \in Msgs \X Users, Placed(p) PROVE Placed(p)'
      BY <1>21 DEF SendInLoop, NoSilentLoss, TypeOK
    <2>6. InQueue(p) => InQueue(p)' \/ (x.kind = "chat" /\ p = d)
      BY <2>2, <2>3 DEF InQueue, Queued, TypeOK
    <2>7. CASE x.kind = "chat"
      <3>1. d \in Msgs \X Users
        BY <2>1, <2>7 DEF Item
      <3>2. handed' = [handed EXCEPT ![d] = @ + 1]
        BY <1>21, <2>7 DEF SendInLoop, Hand
      <3>3. /\ handed[p] > 0 => handed'[p] > 0
            /\ p = d => handed'[p] > 0
        BY <3>1, <3>2, HandCount
      <3> QED BY <2>4, <2>5, <2>6, <3>3
              DEF Placed, OnItsWay, IsLost, InTable, InBatch, InHandler
    <2>8. CASE x.kind # "chat"
      <3>1. handed' = handed
        BY <1>21, <2>8 DEF SendInLoop
      <3> QED BY <2>4, <2>5, <2>6, <2>8, <3>1
              DEF Placed, OnItsWay, IsLost, InTable, InBatch, InHandler
    <2> QED BY <2>7, <2>8
  <1>22. ASSUME NEW t \in Sessions, NEW s \in Sessions, NEW u \in Users,
                OnCloseDuringLookup(t, s, u)
         PROVE  NoSilentLoss'
    <2>1. PICK found \in Sessions \cup {NoSession} : LookUp(s, u, found)
      BY <1>22 DEF OnCloseDuringLookup, SessionsOf, TypeOK
    <2>2. \A x \in Sessions : Unrouted(x)' = Unrouted(x)
      BY <2>1, LookUpUnrouted
    <2> SUFFICES ASSUME NEW p \in Msgs \X Users, Placed(p) PROVE Placed(p)'
      BY <1>22 DEF OnCloseDuringLookup, NoSilentLoss, TypeOK
    <2>3. InQueue(p) => InQueue(p)' \/ IsLost(p)'
      BY <1>22, DisconnectQueue DEF OnCloseDuringLookup
    <2>4. UNCHANGED <<handed, offline, batch>> /\ lost \subseteq lost'
      BY <1>22 DEF OnCloseDuringLookup, Disconnect
    <2> QED BY <2>2, <2>3, <2>4 DEF Placed, OnItsWay, IsLost, InTable, InBatch, InHandler
  <1>23. ASSUME Crash PROVE NoSilentLoss'
    <2> SUFFICES ASSUME NEW p \in Msgs \X Users, Placed(p) PROVE Placed(p)'
      BY <1>23 DEF Crash, NoSilentLoss, TypeOK
    <2>1. UNCHANGED <<handed, offline>> /\ lost' = lost \cup CrashLoss
      BY <1>23 DEF Crash
    <2>2. p = <<p[1], p[2]>> /\ p[1] \in Msgs /\ p[2] \in Users
      OBVIOUS
    <2>3. InHandler(p) => IsLost(p)'
      <3>1. InHandler(p) => <<p[1], p[2], "unrouted">> \in CrashLoss
        BY <2>2 DEF InHandler, CrashLoss, Reasons
      <3> QED BY <2>1, <3>1 DEF IsLost, Reasons
    <2>4. InQueue(p) => IsLost(p)'
      <3>1. InQueue(p) => <<p[1], p[2], "queued">> \in CrashLoss
        BY <2>2 DEF InQueue, CrashLoss, Reasons
      <3> QED BY <2>1, <3>1 DEF IsLost, Reasons
    <2>5. InBatch(p) => InTable(p)' \/ IsLost(p)'
      <3>1. InBatch(p) /\ ~ InTable(p) => \E s \in Sessions : p \in Drained(s)
        BY DEF InBatch, InTable, Drained
      <3>2. (\E s \in Sessions : p \in Drained(s)) => <<p[1], p[2], "drained">> \in CrashLoss
        BY <2>2 DEF CrashLoss, Reasons
      <3>3. InTable(p) => InTable(p)'
        BY <2>1 DEF InTable
      <3> QED BY <2>1, <3>1, <3>2, <3>3 DEF IsLost, Reasons
    <2> QED BY <2>1, <2>3, <2>4, <2>5 DEF Placed, OnItsWay, IsLost, InTable
  <1>24. ASSUME NEW s \in Sessions, Proceed(s) PROVE NoSilentLoss'
    BY <1>24, <1>3, <1>4, <1>5, <1>6, <1>7, <1>8, <1>10, <1>12, <1>13, <1>14, <1>15,
       <1>16, <1>18, <1>19, <1>20, <1>21 DEF Proceed
  <1>25. ASSUME NEW s \in Sessions, Request(s) PROVE NoSilentLoss'
    BY <1>25, <1>1, <1>2, <1>9, <1>11, <1>17, <1>22
       DEF Request, OnChat, OnGroupChat, OnMultiChat
  <1>26. ASSUME UNCHANGED vars PROVE NoSilentLoss'
    <2>1. \A x \in Sessions : Unrouted(x)' = Unrouted(x)
      BY <1>26 DEF vars, Unrouted
    <2> QED BY <1>26, <2>1, QuietStep DEF vars, NoSilentLoss, TypeOK
  <1> QED BY <1>23, <1>24, <1>25, <1>26 DEF Next

\* A login that deletes its offline rows holds MsgCacheManager::m_mutex and has
\* fetched every row the DELETE removes.
THEOREM CriticalSection == Spec => []LockInv
  <1>1. Init => TypeInv /\ LockInv
    BY TypeInit DEF Init, LockInv
  <1>2. TypeInv /\ LockInv /\ [Next]_vars => (TypeInv /\ LockInv)'
    BY TypeStep, LockStep
  <1> QED BY <1>1, <1>2, PTL DEF Spec

\* No accepted message disappears without one of the known reasons, whatever
\* the number of connections, users, messages, crashes and failing statements.
THEOREM NeverSilentlyLost == Spec => []NoSilentLoss
  <1>1. Init => TypeInv /\ LockInv /\ NoSilentLoss
    BY TypeInit DEF Init, LockInv, NoSilentLoss
  <1>2. TypeInv /\ LockInv /\ NoSilentLoss /\ [Next]_vars
          => (TypeInv /\ LockInv /\ NoSilentLoss)'
    BY TypeStep, LockStep, LossStep
  <1> QED BY <1>1, <1>2, PTL DEF Spec

-----------------------------------------------------------------------------
(* Where a message can be *)

\* What a login fetched is for its own user, and the receiver a chat handler
\* is serving is no longer on its list.
FetchInv ==
  \A s \in Sessions :
    /\ \A r \in batch[s] : r.usr = user[s]
    /\ pc[s] \in {"send", "store"} => job[s].to \notin job[s].todo

\* Rows stay with the user they were fetched for.
LEMMA FetchStep == TypeInv /\ FetchInv /\ [Next]_vars => FetchInv'
  <1> SUFFICES ASSUME TypeOK, HandlerInv, FetchInv, [Next]_vars PROVE FetchInv'
    BY DEF TypeInv
  <1>0. \A s \in Sessions : pc[s] \notin {"delete", "push"} => batch[s] = {}
    BY DEF HandlerInv, HandlerOK
  <1>00. ASSUME NEW s \in Sessions, NEW u \in Users, NEW found \in Sessions \cup {NoSession},
                LookUp(s, u, found)
         PROVE  \A x \in Sessions : pc'[x] \in {"send", "store"} => job'[x].to \notin job'[x].todo
    <2>1. \A x \in Sessions \ {s} : pc'[x] = pc[x] /\ job'[x] = job[x]
      BY <1>00, LookUpType
    <2>2. pc'[s] \in {"send", "store"} => job'[s] = AJob(job[s].msg, job[s].todo \ {u}, u, found)
      BY <1>00, LookUpType
    <2>3. pc'[s] \in {"send", "store"} => job'[s].to \notin job'[s].todo
      BY <2>2 DEF AJob
    <2> QED BY <2>1, <2>3 DEF FetchInv
  <1> USE <1>0 DEF FetchInv, TypeOK
  <1>1. ASSUME NEW s \in Sessions, OnConnection(s) PROVE FetchInv'
    BY <1>1 DEF OnConnection
  <1>2. ASSUME NEW s \in Sessions, OnClose(s) PROVE FetchInv'
    BY <1>2 DEF OnClose, Disconnect
  <1>3. ASSUME NEW s \in Sessions, NEW u \in Users, Login(s, u) PROVE FetchInv'
    BY <1>3 DEF Login
  <1>4. ASSUME NEW s \in Sessions, LoginRejected(s) PROVE FetchInv'
    BY <1>4 DEF LoginRejected
  <1>5. ASSUME NEW s \in Sessions, LoginAccepted(s) PROVE FetchInv'
    BY <1>5 DEF LoginAccepted
  <1>6. ASSUME NEW s \in Sessions, FetchOffline(s) PROVE FetchInv'
    BY <1>6 DEF FetchOffline, RowsOf
  <1>7. ASSUME NEW s \in Sessions, FetchFails(s) PROVE FetchInv'
    BY <1>7 DEF FetchFails
  <1>8. ASSUME NEW s \in Sessions, DeleteOffline(s) PROVE FetchInv'
    BY <1>8 DEF DeleteOffline
  <1>9. ASSUME NEW s \in Sessions, DeleteFails(s) PROVE FetchInv'
    BY <1>9 DEF DeleteFails
  <1>10. ASSUME NEW s \in Sessions, PushOffline(s) PROVE FetchInv'
    BY <1>10 DEF PushOffline
  <1>11. ASSUME NEW s \in Sessions, StartAnnounce(s) PROVE FetchInv'
    BY <1>11 DEF StartAnnounce
  <1>12. ASSUME NEW s \in Sessions, NEW u \in Users, Route(s, u) PROVE FetchInv'
    <2>1. PICK found \in Sessions \cup {NoSession} : LookUp(s, u, found)
      BY <1>12, FoundType DEF Route
    <2>2. UNCHANGED <<batch, user>>
      BY <1>12 DEF Route
    <2> QED BY <1>00, <2>1, <2>2
  <1>13. ASSUME NEW s \in Sessions, Tell(s) PROVE FetchInv'
    BY <1>13 DEF Tell
  <1>14. ASSUME NEW s \in Sessions, LoginDone(s) PROVE FetchInv'
    BY <1>14 DEF LoginDone
  <1>15. ASSUME NEW s \in Sessions, OnGetFriendList(s) PROVE FetchInv'
    BY <1>15 DEF OnGetFriendList
  <1>16. ASSUME NEW s \in Sessions, NEW m \in Msgs, NEW R \in SUBSET Users, Accept(s, m, R)
         PROVE  FetchInv'
    BY <1>16 DEF Accept
  <1>17. ASSUME NEW s \in Sessions, SendContainer(s) PROVE FetchInv'
    BY <1>17 DEF SendContainer, NextReceiver
  <1>18. ASSUME NEW s \in Sessions, AddChatMsgCache(s) PROVE FetchInv'
    BY <1>18 DEF AddChatMsgCache, NextReceiver
  <1>19. ASSUME NEW s \in Sessions, InsertFails(s) PROVE FetchInv'
    BY <1>19 DEF InsertFails, NextReceiver
  <1>20. ASSUME NEW s \in Sessions, ChatDone(s) PROVE FetchInv'
    BY <1>20 DEF ChatDone
  <1>21. ASSUME NEW s \in Sessions, SendInLoop(s) PROVE FetchInv'
    BY <1>21 DEF SendInLoop
  <1>22. ASSUME NEW t \in Sessions, NEW s \in Sessions, NEW u \in Users,
                OnCloseDuringLookup(t, s, u)
         PROVE  FetchInv'
    <2>1. PICK found \in Sessions \cup {NoSession} : LookUp(s, u, found)
      BY <1>22 DEF OnCloseDuringLookup, SessionsOf
    <2>2. /\ batch' = batch /\ batch[t] = {}
          /\ \A x \in Sessions \ {t} : user'[x] = user[x]
      BY <1>22 DEF OnCloseDuringLookup, Disconnect
    <2> QED BY <1>00, <2>1, <2>2
  <1>23. ASSUME Crash PROVE FetchInv'
    BY <1>23 DEF Crash
  <1>24. ASSUME NEW s \in Sessions, Proceed(s) PROVE FetchInv'
    BY <1>24, <1>4, <1>5, <1>6, <1>7, <1>8, <1>9, <1>10, <1>11, <1>12, <1>13,
       <1>14, <1>17, <1>18, <1>19, <1>20, <1>21 DEF Proceed
  <1>25. ASSUME NEW s \in Sessions, Request(s) PROVE FetchInv'
    BY <1>25, <1>1, <1>2, <1>3, <1>15, <1>16, <1>22, ConstantsAssumption
       DEF Request, OnChat, OnGroupChat, OnMultiChat
  <1>26. ASSUME UNCHANGED vars PROVE FetchInv'
    BY <1>26 DEF vars
  <1> QED BY <1>23, <1>24, <1>25, <1>26 DEF Next

\* A row for message p[1] and receiver p[2]; the same in a queue of sends.
RowFor(r, p) == <<r.msg, r.usr>> = p
ChatAt(q, i, p) == q[i].kind = "chat" /\ <<q[i].msg, q[i].usr>> = p
SingleChat(q, p) == \A i, j \in DOMAIN q : ChatAt(q, i, p) /\ ChatAt(q, j, p) => i = j

\* A step that makes no new copy of p.
NoCopy(p) ==
  /\ handed'[p] = handed[p]
  /\ \A x \in Sessions : p \in Unrouted(x)' => p \in Unrouted(x)
  /\ \A x \in Sessions : p \in Queued(x)' => p \in Queued(x)
  /\ \A x \in Sessions : SingleChat(inbox[x], p) => SingleChat(inbox'[x], p)
  /\ \A x \in Sessions : \A r \in batch'[x] : RowFor(r, p) => r \in batch[x]
  /\ \A r \in offline' : RowFor(r, p) => r \in offline

\* A step that takes no message further: it may only drop some.
Quiet ==
  /\ accepted' = accepted
  /\ undeleted => undeleted'
  /\ \A p \in Msgs \X Users : NoCopy(p)
  /\ ~ undeleted' => \A x \in Sessions :
       pc[x] = "delete" => pc'[x] = "delete" \/ batch'[x] \cap offline' = {}

\* The chat messages of a queue are the pairs at its positions.
LEMMA ChatsAt ==
  ASSUME NEW q, NEW p
  PROVE  p \in Chats(q) <=> \E i \in DOMAIN q : ChatAt(q, i, p)
  BY DEF Chats, ChatAt

\* A queue that gets a send, seen from one message.
LEMMA SingleChatAppend ==
  ASSUME NEW q \in Seq(Item), NEW x \in Item, NEW p,
         x.kind = "chat" /\ <<x.msg, x.usr>> = p => p \notin Chats(q)
  PROVE  SingleChat(q, p) => SingleChat(Append(q, x), p)
  <1> DEFINE r == Append(q, x)
  <1>1. /\ DOMAIN r = DOMAIN q \cup {Len(q) + 1}
        /\ r[Len(q) + 1] = x
        /\ \A i \in DOMAIN q : r[i] = q[i]
    OBVIOUS
  <1> HIDE DEF r
  <1> SUFFICES ASSUME SingleChat(q, p), NEW i \in DOMAIN r, NEW j \in DOMAIN r,
                      ChatAt(r, i, p), ChatAt(r, j, p)
               PROVE  i = j
    BY DEF r, SingleChat
  <1>2. \A k \in DOMAIN q : ChatAt(r, k, p) => ChatAt(q, k, p)
    BY <1>1 DEF ChatAt
  <1>3. ChatAt(r, Len(q) + 1, p) => \A k \in DOMAIN q : ~ ChatAt(q, k, p)
    BY <1>1, ChatsAt DEF ChatAt
  <1> QED BY <1>1, <1>2, <1>3 DEF SingleChat

\* A queue whose first send was taken, seen from one message.
LEMMA SingleChatTail ==
  ASSUME NEW q \in Seq(Item), q # <<>>, NEW p, SingleChat(q, p)
  PROVE  /\ SingleChat(Tail(q), p)
         /\ Head(q).kind = "chat" /\ <<Head(q).msg, Head(q).usr>> = p => p \notin Chats(Tail(q))
  <1> DEFINE t == Tail(q)
  <1>1. /\ Len(q) \in Nat \ {0}
        /\ DOMAIN q = 1..Len(q)
        /\ Head(q) = q[1]
        /\ DOMAIN t = 1..(Len(q) - 1)
        /\ \A i \in 1..(Len(q) - 1) : t[i] = q[i + 1]
    OBVIOUS
  <1> HIDE DEF t
  <1>2. \A i \in DOMAIN t : i + 1 \in DOMAIN q /\ (ChatAt(t, i, p) => ChatAt(q, i + 1, p))
    BY <1>1 DEF ChatAt
  <1>3. ASSUME NEW i \in DOMAIN t, NEW j \in DOMAIN t, ChatAt(t, i, p), ChatAt(t, j, p)
        PROVE  i = j
    <2>1. i + 1 = j + 1
      BY <1>2, <1>3 DEF SingleChat
    <2> QED BY <1>1, <2>1
  <1>4. ASSUME ChatAt(q, 1, p), NEW i \in DOMAIN t, ChatAt(t, i, p) PROVE FALSE
    <2>1. 1 \in DOMAIN q /\ i + 1 = 1
      BY <1>1, <1>2, <1>4 DEF SingleChat
    <2> QED BY <1>1, <2>1
  <1>5. SingleChat(t, p)
    BY <1>3 DEF SingleChat
  <1>6. Head(q).kind = "chat" /\ <<Head(q).msg, Head(q).usr>> = p => p \notin Chats(t)
    BY <1>1, <1>4, ChatsAt DEF ChatAt
  <1> QED BY <1>5, <1>6 DEF t

\* A step that only drops copies.
LEMMA Drops ==
  ASSUME TypeOK, NEW p \in Msgs \X Users, handed'[p] = handed[p], offline' \subseteq offline,
         \A x \in Sessions : batch'[x] \subseteq batch[x],
         \A x \in Sessions : inbox'[x] = inbox[x] \/ inbox'[x] = <<>>,
         \A x \in Sessions : Unrouted(x)' \subseteq Unrouted(x)
  PROVE  NoCopy(p)
  <1>1. Chats(<<>>) = {} /\ SingleChat(<<>>, p)
    BY DEF Chats, SingleChat
  <1> QED BY <1>1 DEF NoCopy, Queued

\* A handler that has served a receiver is left with the others.
LEMMA ServedUnrouted ==
  ASSUME TypeOK, HandlerInv, FetchInv, NEW s \in Sessions, pc[s] \in {"send", "store"},
         NextReceiver(s)
  PROVE  /\ \A x \in Sessions \ {s} : Unrouted(x)' = Unrouted(x)
         /\ <<job[s].msg, job[s].to>> \in Unrouted(s)
         /\ Unrouted(s)' = Unrouted(s) \ {<<job[s].msg, job[s].to>>}
  <1>1. \A x \in Sessions \ {s} : pc'[x] = pc[x] /\ job'[x] = job[x]
    BY DEF NextReceiver, TypeOK
  <1>2. /\ pc'[s] = "route" /\ job'[s].msg = job[s].msg
        /\ job'[s].todo = job[s].todo /\ job'[s].to = NoUser
    BY DEF NextReceiver, AJob, TypeOK
  <1>3. job[s].to \in Users /\ job[s].to \notin job[s].todo /\ job[s].to # NoUser
    BY ConstantsAssumption DEF HandlerInv, HandlerOK, FetchInv
  <1>4. Unrouted(s) = {<<job[s].msg, u>> : u \in job[s].todo \cup {job[s].to}}
    BY <1>3 DEF Unrouted
  <1>5. Unrouted(s)' = {<<job[s].msg, u>> : u \in job[s].todo}
    BY <1>2 DEF Unrouted
  <1>6. \A x \in Sessions \ {s} : Unrouted(x)' = Unrouted(x)
    BY <1>1 DEF Unrouted
  <1> QED BY <1>3, <1>4, <1>5, <1>6

\* Handlers that serve no message, and what becomes of them.
LEMMA IdleUnrouted ==
  ASSUME TypeOK, HandlerInv, NEW s \in Sessions, NEW c \in Steps \ {"route", "send", "store"},
         pc[s] \in {"route", "send", "store"} => pc[s] = "route" /\ job[s].todo = {},
         pc' = [pc EXCEPT ![s] = c],
         \A x \in Sessions \ {s} : job'[x] = job[x]
  PROVE  \A x \in Sessions : Unrouted(x)' = Unrouted(x)
  <1>1. \A x \in Sessions \ {s} : pc'[x] = pc[x]
    BY DEF TypeOK
  <1>2. \A x \in Sessions \ {s} : Unrouted(x)' = Unrouted(x)
    BY <1>1 DEF Unrouted
  <1>3. pc'[s] = c
    BY DEF TypeOK
  <1>4. Unrouted(s)' = {}
    BY <1>3 DEF Unrouted
  <1>5. Unrouted(s) = {}
    BY DEF Unrouted, HandlerInv, HandlerOK
  <1> QED BY <1>2, <1>4, <1>5

\* A step of a login or of a request that moves no message.
LEMMA Idles ==
  ASSUME TypeOK, \A x \in Sessions : Unrouted(x)' = Unrouted(x),
         UNCHANGED <<handed, offline, batch, inbox, accepted>>,
         undeleted => undeleted',
         ~ undeleted' => \A x \in Sessions : pc[x] = "delete" => pc'[x] = "delete"
  PROVE  Quiet
  <1>1. ASSUME NEW p \in Msgs \X Users PROVE NoCopy(p)
    BY Drops
  <1> QED BY <1>1 DEF Quiet

\* What a step can do to the messages: it takes one further, or it is quiet.
Moves(s) ==
  \/ FetchOffline(s)
  \/ PushOffline(s)
  \/ \E m \in Msgs, R \in SUBSET Users : Accept(s, m, R)
  \/ SendContainer(s) /\ (job[s].via = s \/ job[s].via \in mapclient)
  \/ AddChatMsgCache(s)
  \/ SendInLoop(s)

\* Every other step is quiet.
LEMMA QuietOrMoves ==
  ASSUME TypeOK, HandlerInv, LockInv, FetchInv, [Next]_vars
  PROVE  Quiet \/ \E s \in Sessions : Moves(s)
  <1> USE ConstantsAssumption
  <1>1. ASSUME NEW s \in Sessions, OnConnection(s) PROVE Quiet
    <2>1. \A x \in Sessions : Unrouted(x)' = Unrouted(x)
      BY <1>1 DEF OnConnection, Unrouted
    <2> QED BY <1>1, <2>1, Idles DEF OnConnection
  <1>2. ASSUME NEW s \in Sessions, Disconnect(s),
               \A x \in Sessions : Unrouted(x)' = Unrouted(x),
               \A x \in Sessions : pc[x] = "delete" => pc'[x] = "delete",
               UNCHANGED <<handed, offline, batch, accepted, undeleted>>
        PROVE  Quiet
    <2>1. \A x \in Sessions : inbox'[x] = inbox[x] \/ inbox'[x] = <<>>
      BY <1>2 DEF Disconnect, TypeOK
    <2>2. ASSUME NEW p \in Msgs \X Users PROVE NoCopy(p)
      BY <1>2, <2>1, Drops
    <2> QED BY <1>2, <2>2 DEF Quiet
  <1>3. ASSUME NEW s \in Sessions, OnClose(s) PROVE Quiet
    <2>1. \A x \in Sessions : Unrouted(x)' = Unrouted(x)
      BY <1>3 DEF OnClose, Unrouted
    <2> QED BY <1>2, <1>3, <2>1 DEF OnClose
  <1>4. ASSUME NEW t \in Sessions, NEW s \in Sessions, NEW u \in Users,
               OnCloseDuringLookup(t, s, u)
        PROVE  Quiet
    <2>1. PICK found \in Sessions \cup {NoSession} : LookUp(s, u, found)
      BY <1>4 DEF OnCloseDuringLookup, SessionsOf, TypeOK
    <2>2. \A x \in Sessions : Unrouted(x)' = Unrouted(x)
      BY <2>1, LookUpUnrouted
    <2>3. \A x \in Sessions : pc[x] = "delete" => pc'[x] = "delete"
      BY <2>1, LookUpType
    <2> QED BY <1>2, <1>4, <2>2, <2>3 DEF OnCloseDuringLookup
  <1>5. ASSUME NEW s \in Sessions, NEW u \in Users, Login(s, u) PROVE Quiet
    <2>1. \A x \in Sessions : Unrouted(x)' = Unrouted(x)
      BY <1>5, IdleUnrouted DEF Login, Steps
    <2>2. \A x \in Sessions : pc[x] = "delete" => pc'[x] = "delete"
      BY <1>5 DEF Login, TypeOK
    <2> QED BY <1>5, <2>1, <2>2, Idles DEF Login
  <1>6. ASSUME NEW s \in Sessions, LoginRejected(s) \/ LoginAccepted(s) \/ FetchFails(s)
        PROVE  Quiet
    <2>1. \A x \in Sessions : Unrouted(x)' = Unrouted(x)
      BY <1>6, IdleUnrouted DEF LoginRejected, LoginAccepted, FetchFails, Steps
    <2>2. \A x \in Sessions : pc[x] = "delete" => pc'[x] = "delete"
      BY <1>6 DEF LoginRejected, LoginAccepted, FetchFails, TypeOK
    <2> QED BY <1>6, <2>1, <2>2, Idles DEF LoginRejected, LoginAccepted, FetchFails
  <1>7. ASSUME NEW s \in Sessions, DeleteOffline(s) PROVE Quiet
    <2>1. \A x \in Sessions : Unrouted(x)' = Unrouted(x)
      BY <1>7, IdleUnrouted DEF DeleteOffline, Steps
    <2>2. UNCHANGED <<handed, batch, inbox, accepted, undeleted>>
      BY <1>7 DEF DeleteOffline
    <2>3. offline' = offline \ RowsOf(user[s])
      BY <1>7 DEF DeleteOffline
    <2>4. ASSUME NEW p \in Msgs \X Users PROVE NoCopy(p)
      BY <2>1, <2>2, <2>3, Drops
    <2>5. batch'[s] \cap offline' = {}
      BY <2>2, <2>3 DEF FetchInv, RowsOf
    <2>6. \A x \in Sessions \ {s} : pc'[x] = pc[x]
      BY <1>7 DEF DeleteOffline, TypeOK
    <2> QED BY <2>2, <2>4, <2>5, <2>6 DEF Quiet
  <1>8. ASSUME NEW s \in Sessions, DeleteFails(s) PROVE Quiet
    <2>1. \A x \in Sessions : Unrouted(x)' = Unrouted(x)
      BY <1>8, IdleUnrouted DEF DeleteFails, Steps
    <2> QED BY <1>8, <2>1, Idles DEF DeleteFails
  <1>9. ASSUME NEW s \in Sessions, StartAnnounce(s) \/ LoginDone(s) PROVE Quiet
    <2>1. \A x \in Sessions \ {s} : job'[x] = job[x]
      BY <1>9 DEF StartAnnounce, LoginDone, TypeOK
    <2>2. \A x \in Sessions : Unrouted(x)' = Unrouted(x)
      BY <1>9, <2>1, IdleUnrouted DEF StartAnnounce, LoginDone, Steps
    <2>3. \A x \in Sessions : pc[x] = "delete" => pc'[x] = "delete"
      BY <1>9 DEF StartAnnounce, LoginDone, TypeOK
    <2> QED BY <1>9, <2>2, <2>3, Idles DEF StartAnnounce, LoginDone
  <1>10. ASSUME NEW s \in Sessions, NEW u \in Users, Route(s, u) PROVE Quiet
    <2>1. PICK found \in Sessions \cup {NoSession} : LookUp(s, u, found)
      BY <1>10, FoundType DEF Route
    <2>2. \A x \in Sessions : Unrouted(x)' = Unrouted(x)
      BY <2>1, LookUpUnrouted
    <2>3. \A x \in Sessions : pc[x] = "delete" => pc'[x] = "delete"
      BY <2>1, LookUpType
    <2> QED BY <1>10, <2>2, <2>3, Idles DEF Route
  <1>11. ASSUME NEW s \in Sessions, Tell(s) PROVE Quiet
    <2>1. \A x \in Sessions \ {s} : job'[x] = job[x]
      BY <1>11 DEF Tell, TypeOK
    <2>2. \A x \in Sessions : Unrouted(x)' = Unrouted(x)
      BY <1>11, <2>1, IdleUnrouted DEF Tell, Steps
    <2>3. \A x \in Sessions : pc[x] = "delete" => pc'[x] = "delete"
      BY <1>11 DEF Tell, TypeOK
    <2>4. UNCHANGED <<handed, offline, batch, accepted, undeleted>>
      BY <1>11 DEF Tell
    <2>5. UpItem(user[s]) \in Item /\ UpItem(user[s]).kind # "chat"
      BY <1>11 DEF Tell, HandlerInv, HandlerOK, UpItem, Item
    <2>6. \/ inbox' = inbox
          \/ /\ job[s].via \in mapclient
             /\ inbox' = [inbox EXCEPT ![job[s].via] = Append(@, UpItem(user[s]))]
      BY <1>11 DEF Tell, Queue
    <2>7. ASSUME NEW p \in Msgs \X Users PROVE NoCopy(p)
      <3>1. ASSUME NEW x \in Sessions
            PROVE  /\ Chats(inbox'[x]) = Chats(inbox[x])
                   /\ SingleChat(inbox[x], p) => SingleChat(inbox'[x], p)
        <4>1. inbox[x] \in Seq(Item)
          BY DEF TypeOK
        <4>2. inbox'[x] = inbox[x] \/ inbox'[x] = Append(inbox[x], UpItem(user[s]))
          BY <2>6 DEF TypeOK
        <4> QED BY <2>5, <4>1, <4>2, ChatsAppend, SingleChatAppend
      <3> QED BY <2>2, <2>4, <3>1 DEF NoCopy, Queued
    <2> QED BY <2>3, <2>4, <2>7 DEF Quiet
  <1>12. ASSUME NEW s \in Sessions, OnGetFriendList(s) PROVE Quiet
    <2>1. \A x \in Sessions : Unrouted(x)' = Unrouted(x)
      BY <1>12 DEF OnGetFriendList, Unrouted
    <2> QED BY <1>12, <2>1, Idles DEF OnGetFriendList
  <1>13. ASSUME NEW s \in Sessions, SendContainer(s), job[s].via # s, job[s].via \notin mapclient
         PROVE  Quiet
    <2>1. NextReceiver(s) /\ pc[s] = "send"
      BY <1>13 DEF SendContainer
    <2>2. \A x \in Sessions : Unrouted(x)' \subseteq Unrouted(x)
      BY <2>1, ServedUnrouted
    <2>3. UNCHANGED <<handed, offline, batch, inbox, accepted, undeleted>>
      BY <1>13 DEF SendContainer, Queue
    <2>4. ASSUME NEW p \in Msgs \X Users PROVE NoCopy(p)
      BY <2>2, <2>3, Drops
    <2>5. \A x \in Sessions : pc[x] = "delete" => pc'[x] = "delete"
      BY <2>1 DEF NextReceiver, TypeOK
    <2> QED BY <2>3, <2>4, <2>5 DEF Quiet
  <1>14. ASSUME NEW s \in Sessions, InsertFails(s) PROVE Quiet
    <2>1. NextReceiver(s) /\ pc[s] = "store"
      BY <1>14 DEF InsertFails
    <2>2. \A x \in Sessions : Unrouted(x)' \subseteq Unrouted(x)
      BY <2>1, ServedUnrouted
    <2>3. UNCHANGED <<handed, offline, batch, inbox, accepted, undeleted>>
      BY <1>14 DEF InsertFails
    <2>4. ASSUME NEW p \in Msgs \X Users PROVE NoCopy(p)
      BY <2>2, <2>3, Drops
    <2>5. \A x \in Sessions : pc[x] = "delete" => pc'[x] = "delete"
      BY <2>1 DEF NextReceiver, TypeOK
    <2> QED BY <2>3, <2>4, <2>5 DEF Quiet
  <1>15. ASSUME NEW s \in Sessions, ChatDone(s) PROVE Quiet
    <2>1. \A x \in Sessions \ {s} : job'[x] = job[x]
      BY <1>15 DEF ChatDone, TypeOK
    <2>2. \A x \in Sessions : Unrouted(x)' = Unrouted(x)
      BY <1>15, <2>1, IdleUnrouted DEF ChatDone, Steps
    <2>3. \A x \in Sessions : pc[x] = "delete" => pc'[x] = "delete"
      BY <1>15 DEF ChatDone, TypeOK
    <2> QED BY <1>15, <2>2, <2>3, Idles DEF ChatDone
  <1>16. ASSUME Crash PROVE Quiet
    <2>1. /\ UNCHANGED <<handed, offline, accepted, undeleted>>
          /\ \A x \in Sessions : batch'[x] = {} /\ inbox'[x] = <<>> /\ pc'[x] = "idle"
      BY <1>16 DEF Crash
    <2>2. \A x \in Sessions : Unrouted(x)' = {}
      BY <2>1 DEF Unrouted
    <2>3. ASSUME NEW p \in Msgs \X Users PROVE NoCopy(p)
      BY <2>1, <2>2, Drops
    <2> QED BY <2>1, <2>3 DEF Quiet
  <1>17. ASSUME UNCHANGED vars PROVE Quiet
    <2>1. \A x \in Sessions : Unrouted(x)' = Unrouted(x)
      BY <1>17 DEF vars, Unrouted
    <2> QED BY <1>17, <2>1, Idles DEF vars
  <1>18. ASSUME NEW s \in Sessions, Proceed(s) PROVE Quiet \/ Moves(s)
    BY <1>18, <1>6, <1>7, <1>8, <1>9, <1>10, <1>11, <1>13, <1>14, <1>15 DEF Proceed, Moves
  <1>19. ASSUME NEW s \in Sessions, Request(s) PROVE Quiet \/ Moves(s)
    BY <1>19, <1>1, <1>3, <1>4, <1>5, <1>12
       DEF Request, OnChat, OnGroupChat, OnMultiChat, Moves
  <1> QED BY <1>16, <1>17, <1>18, <1>19 DEF Next

\* One copy: what a message accepted for one receiver looks like as long as no
\* DELETE has failed.  It is in one place (a fetched row is in the table too
\* until its DELETE), and nowhere once it has been written to a connection.
Once(p) ==
  /\ \A s, t \in Sessions : p \in Unrouted(s) /\ p \in Unrouted(t) => s = t
  /\ \A s, t \in Sessions : p \in Queued(s) /\ p \in Queued(t) => s = t
  /\ \A s \in Sessions : SingleChat(inbox[s], p)
  /\ \A s, t \in Sessions : \A r \in batch[s], q \in batch[t] :
       RowFor(r, p) /\ RowFor(q, p) => s = t /\ r = q
  /\ \A r, q \in offline : RowFor(r, p) /\ RowFor(q, p) => r = q
  /\ \A s \in Sessions : \A r \in batch[s], q \in offline :
       RowFor(r, p) /\ RowFor(q, p) => r = q /\ pc[s] = "delete"
  /\ InHandler(p) => ~ InQueue(p) /\ ~ InBatch(p) /\ ~ InTable(p)
  /\ InQueue(p) => ~ InBatch(p) /\ ~ InTable(p)
  /\ handed[p] <= 1 /\ (handed[p] = 1 => ~ OnItsWay(p))

OnceInv == ~ undeleted => \A p \in Msgs \X Users : Once(p)

\* Only accepted messages are anywhere.
Traced == \A p \in Msgs \X Users : handed[p] > 0 \/ OnItsWay(p) => p \in accepted

\* The three things a step can do: carry messages on (or drop some), write one
\* to a connection, or accept one for a set of receivers.
Carries ==
  /\ accepted' = accepted
  /\ undeleted => undeleted'
  /\ \A p \in Msgs \X Users :
       /\ handed'[p] = handed[p]
       /\ OnItsWay(p)' => OnItsWay(p)
       /\ ~ undeleted' /\ Once(p) => Once(p)'

Hands(d) ==
  /\ accepted' = accepted
  /\ undeleted' = undeleted
  /\ OnItsWay(d)
  /\ handed' = [handed EXCEPT ![d] = @ + 1]
  /\ ~ undeleted /\ Once(d) => Once(d)'
  /\ \A p \in (Msgs \X Users) \ {d} :
       /\ OnItsWay(p)' <=> OnItsWay(p)
       /\ ~ undeleted /\ Once(p) => Once(p)'

Takes(m, R) ==
  /\ \A u \in Users : <<m, u>> \notin accepted
  /\ accepted' = accepted \cup {<<m, u>> : u \in R}
  /\ undeleted' = undeleted
  /\ handed' = handed
  /\ \A p \in Msgs \X Users :
       /\ OnItsWay(p)' <=> OnItsWay(p) \/ p \in {<<m, u>> : u \in R}
       /\ Traced /\ ~ undeleted /\ Once(p) => Once(p)'

\* Without a new copy, a message stays in one place.
LEMMA NoCopyOnce ==
  ASSUME TypeOK, NEW p \in Msgs \X Users, NoCopy(p)
  PROVE  /\ OnItsWay(p)' => OnItsWay(p)
         /\ /\ Once(p)
            /\ \A x \in Sessions : pc[x] = "delete" =>
                 pc'[x] = "delete" \/ batch'[x] \cap offline' = {}
            => Once(p)'
  <1>1. /\ InHandler(p)' => InHandler(p)
        /\ InQueue(p)' => InQueue(p)
        /\ InBatch(p)' => InBatch(p)
        /\ InTable(p)' => InTable(p)
    BY DEF NoCopy, InHandler, InQueue, InBatch, InTable, RowFor
  <1>2. OnItsWay(p)' => OnItsWay(p)
    BY <1>1 DEF OnItsWay
  <1>3. ASSUME Once(p), \A x \in Sessions : pc[x] = "delete" =>
                          pc'[x] = "delete" \/ batch'[x] \cap offline' = {}
        PROVE  Once(p)'
    <2>1. \A s, t \in Sessions : p \in Unrouted(s)' /\ p \in Unrouted(t)' => s = t
      BY <1>3 DEF Once, NoCopy
    <2>2. \A s, t \in Sessions : p \in Queued(s)' /\ p \in Queued(t)' => s = t
      BY <1>3 DEF Once, NoCopy
    <2>3. \A s \in Sessions : SingleChat(inbox'[s], p)
      BY <1>3 DEF Once, NoCopy
    <2>4. \A s, t \in Sessions : \A r \in batch'[s], q \in batch'[t] :
            RowFor(r, p) /\ RowFor(q, p) => s = t /\ r = q
      BY <1>3 DEF Once, NoCopy
    <2>5. \A r, q \in offline' : RowFor(r, p) /\ RowFor(q, p) => r = q
      BY <1>3 DEF Once, NoCopy
    <2>6. \A s \in Sessions : \A r \in batch'[s], q \in offline' :
            RowFor(r, p) /\ RowFor(q, p) => r = q /\ pc'[s] = "delete"
      <3> SUFFICES ASSUME NEW s \in Sessions, NEW r \in batch'[s], NEW q \in offline',
                          RowFor(r, p), RowFor(q, p)
                   PROVE  r = q /\ pc'[s] = "delete"
        OBVIOUS
      <3>1. r \in batch[s] /\ q \in offline
        BY DEF NoCopy
      <3>2. r = q /\ pc[s] = "delete"
        BY <1>3, <3>1 DEF Once
      <3> QED BY <1>3, <3>2
    <2>7. handed'[p] <= 1 /\ (handed'[p] = 1 => ~ OnItsWay(p)')
      BY <1>2, <1>3 DEF Once, NoCopy
    <2> QED BY <1>1, <1>3, <2>1, <2>2, <2>3, <2>4, <2>5, <2>6, <2>7 DEF Once
  <1> QED BY <1>2, <1>3

\* A quiet step carries every message on.
LEMMA QuietCarries ==
  ASSUME TypeOK, Quiet
  PROVE  Carries
  BY NoCopyOnce DEF Quiet, Carries, NoCopy

\* After a step: a message that is nowhere, or in one handler only.
LEMMA NowhereOnce ==
  ASSUME NEW p \in Msgs \X Users, ~ InQueue(p)', ~ InBatch(p)', ~ InTable(p)',
         \A s, t \in Sessions : p \in Unrouted(s)' /\ p \in Unrouted(t)' => s = t,
         handed'[p] <= 1 /\ (handed'[p] = 1 => ~ OnItsWay(p)')
  PROVE  Once(p)'
  <1>1. \A s \in Sessions : p \notin Chats(inbox'[s])
    BY DEF InQueue, Queued
  <1>2. \A s \in Sessions : SingleChat(inbox'[s], p)
    BY <1>1, ChatsAt DEF SingleChat
  <1>3. \A s \in Sessions : \A r \in batch'[s] : ~ RowFor(r, p)
    BY DEF InBatch, RowFor
  <1>4. \A r \in offline' : ~ RowFor(r, p)
    BY DEF InTable, RowFor
  <1> QED BY <1>1, <1>2, <1>3, <1>4 DEF Once, Queued

\* A message that was on its way and has just been written to a connection.
LEMMA HandedOnce ==
  ASSUME TypeOK, NEW d \in Msgs \X Users, Once(d), OnItsWay(d), ~ OnItsWay(d)',
         handed' = [handed EXCEPT ![d] = @ + 1]
  PROVE  Once(d)'
  <1>1. handed[d] \in Nat /\ handed'[d] = handed[d] + 1
    BY DEF TypeOK
  <1>2. handed[d] = 0
    BY <1>1 DEF Once
  <1>3. handed'[d] <= 1
    BY <1>1, <1>2
  <1> QED BY <1>3, NowhereOnce DEF OnItsWay, InHandler

\* GetChatMsgCache's SELECT: rows go from the table to the login's batch.
LEMMA FetchCarries ==
  ASSUME TypeOK, HandlerInv, LockInv, NEW s \in Sessions, FetchOffline(s)
  PROVE  Carries
  <1> USE ConstantsAssumption
  <1>1. \A x \in Sessions : Unrouted(x)' = Unrouted(x)
    BY IdleUnrouted DEF FetchOffline, Steps, TypeOK, Unrouted
  <1>2. UNCHANGED <<handed, offline, inbox, accepted, undeleted>>
    BY DEF FetchOffline
  <1>3. batch'[s] = RowsOf(user[s]) /\ \A x \in Sessions \ {s} : batch'[x] = batch[x]
    BY DEF FetchOffline, TypeOK
  <1>4. \A x \in Sessions : pc[x] # "delete"
    BY DEF FetchOffline, LockInv, NoSession
  <1>5. batch'[s] # {} => pc'[s] = "delete"
    BY <1>3 DEF FetchOffline, TypeOK
  <1>6. batch[s] = {}
    BY DEF FetchOffline, HandlerInv, HandlerOK
  <1> SUFFICES ASSUME NEW p \in Msgs \X Users
               PROVE  /\ OnItsWay(p)' => OnItsWay(p)
                      /\ Once(p) => Once(p)'
    BY <1>2 DEF Carries
  <1>7. /\ InHandler(p)' <=> InHandler(p)
        /\ InQueue(p)' <=> InQueue(p)
        /\ InTable(p)' <=> InTable(p)
    BY <1>1, <1>2 DEF InHandler, InQueue, InTable, Queued
  <1>8. InBatch(p)' => InBatch(p) \/ InTable(p)
    BY <1>3 DEF InBatch, InTable, RowsOf
  <1>9. OnItsWay(p)' => OnItsWay(p)
    BY <1>7, <1>8 DEF OnItsWay
  <1>10. ASSUME Once(p) PROVE Once(p)'
    <2>1. \A x \in Sessions : \A r \in batch[x], q \in offline : ~ (RowFor(r, p) /\ RowFor(q, p))
      BY <1>4, <1>10 DEF Once
    <2>2. \A x \in Sessions : \A r \in batch'[x] :
            (r \in batch[x] /\ x # s) \/ (r \in offline /\ x = s)
      <3>1. \A r \in RowsOf(user[s]) : r \in offline
        BY DEF RowsOf
      <3>2. ASSUME NEW x \in Sessions, NEW r \in batch'[x]
            PROVE  (r \in batch[x] /\ x # s) \/ (r \in offline /\ x = s)
        <4>1. CASE x = s
          BY <1>3, <3>1, <4>1
        <4>2. CASE x # s
          BY <1>3, <4>2
        <4> QED BY <4>1, <4>2
      <3> QED BY <3>2
    <2>3. \A x, y \in Sessions : \A r \in batch'[x], q \in batch'[y] :
            RowFor(r, p) /\ RowFor(q, p) => x = y /\ r = q
      BY <1>10, <2>1, <2>2 DEF Once
    <2>4. \A x \in Sessions : \A r \in batch'[x], q \in offline :
            RowFor(r, p) /\ RowFor(q, p) => r = q /\ pc'[x] = "delete"
      BY <1>5, <1>10, <2>1, <2>2 DEF Once
    <2> QED BY <1>1, <1>2, <1>7, <1>8, <1>9, <1>10, <2>3, <2>4 DEF Once, Queued
  <1> QED BY <1>9, <1>10

\* A row of the batch is written to the connection.
LEMMA PushHands ==
  ASSUME TypeOK, NEW s \in Sessions, PushOffline(s)
  PROVE  \E d \in Msgs \X Users : Hands(d)
  <1>1. PICK r \in batch[s] : /\ handed' = Hand(r.msg, r.usr)
                             /\ batch' = [batch EXCEPT ![s] = @ \ {r}]
    BY DEF PushOffline, NextRow
  <1> DEFINE d == <<r.msg, r.usr>>
  <1>2. d \in Msgs \X Users
    BY <1>1 DEF TypeOK, Row
  <1>3. \A x \in Sessions : Unrouted(x)' = Unrouted(x)
    BY DEF PushOffline, Unrouted
  <1>4. UNCHANGED <<offline, inbox, accepted, undeleted, pc>> /\ pc[s] = "push"
    BY DEF PushOffline
  <1>5. batch'[s] = batch[s] \ {r} /\ \A x \in Sessions \ {s} : batch'[x] = batch[x]
    BY <1>1 DEF TypeOK
  <1>6. handed' = [handed EXCEPT ![d] = @ + 1]
    BY <1>1 DEF Hand
  <1> HIDE DEF d
  <1>7. RowFor(r, d)
    BY DEF RowFor, d
  <1>8. InBatch(d) /\ OnItsWay(d)
    BY <1>7 DEF InBatch, OnItsWay, RowFor
  <1>9. ASSUME Once(d) PROVE Once(d)'
    <2>1. ~ InHandler(d) /\ ~ InQueue(d)
      BY <1>8, <1>9 DEF Once
    <2>2. ~ InTable(d)
      BY <1>4, <1>7, <1>9 DEF Once, InTable, RowFor
    <2>3. ~ InBatch(d)'
      <3> SUFFICES ASSUME NEW x \in Sessions, NEW q \in batch'[x], RowFor(q, d) PROVE FALSE
        BY DEF InBatch, RowFor
      <3>1. q \in batch[x]
        BY <1>5
      <3>2. x = s /\ q = r
        BY <1>7, <1>9, <3>1 DEF Once
      <3> QED BY <1>5, <3>2
    <2>4. ~ OnItsWay(d)'
      BY <1>3, <1>4, <2>1, <2>2, <2>3 DEF OnItsWay, InHandler, InQueue, InTable, Queued
    <2> QED BY <1>2, <1>6, <1>8, <1>9, <2>4, HandedOnce
  <1>10. ASSUME NEW p \in (Msgs \X Users) \ {d}
         PROVE  /\ OnItsWay(p)' <=> OnItsWay(p)
                /\ Once(p) => Once(p)'
    <2>1. handed'[p] = handed[p]
      BY <1>6 DEF TypeOK
    <2>2. NoCopy(p)
      BY <1>3, <1>4, <1>5, <2>1, Drops
    <2>3. InBatch(p) => InBatch(p)'
      <3> SUFFICES ASSUME NEW x \in Sessions, NEW q \in batch[x], RowFor(q, p) PROVE InBatch(p)'
        BY DEF InBatch, RowFor
      <3>1. q \in batch'[x]
        BY <1>5, <1>7 DEF RowFor
      <3> QED BY <3>1 DEF InBatch, RowFor
    <2>4. OnItsWay(p) => OnItsWay(p)'
      BY <1>3, <1>4, <2>3 DEF OnItsWay, InHandler, InQueue, InTable, Queued
    <2> QED BY <1>4, <2>2, <2>4, NoCopyOnce
  <1> QED BY <1>2, <1>4, <1>6, <1>8, <1>9, <1>10 DEF Hands

\* OnChatResponse accepts a message.
LEMMA AcceptTakes ==
  ASSUME TypeOK, NEW s \in Sessions, NEW m \in Msgs, NEW R \in SUBSET Users, Accept(s, m, R)
  PROVE  Takes(m, R)
  <1>1. \A x \in Sessions \ {s} : Unrouted(x)' = Unrouted(x)
    BY UnroutedFrame DEF Accept, Steps
  <1>2. Unrouted(s) = {}
    BY DEF Accept, Unrouted
  <1>3. Unrouted(s)' = {<<m, u>> : u \in R}
    BY ConstantsAssumption DEF Accept, Unrouted, AJob, TypeOK
  <1>4. /\ UNCHANGED <<handed, offline, batch, inbox, undeleted>>
        /\ accepted' = accepted \cup {<<m, u>> : u \in R}
        /\ \A u \in Users : <<m, u>> \notin accepted
        /\ \A x \in Sessions : pc[x] = "delete" => pc'[x] = "delete"
    BY DEF Accept, TypeOK
  <1>5. ASSUME NEW p \in Msgs \X Users
        PROVE  /\ OnItsWay(p)' <=> OnItsWay(p) \/ p \in {<<m, u>> : u \in R}
               /\ Traced /\ Once(p) => Once(p)'
    <2>1. InHandler(p)' <=> InHandler(p) \/ p \in {<<m, u>> : u \in R}
      BY <1>1, <1>2, <1>3 DEF InHandler
    <2>2. /\ InQueue(p)' <=> InQueue(p)
          /\ InBatch(p)' <=> InBatch(p)
          /\ InTable(p)' <=> InTable(p)
      BY <1>4 DEF InQueue, InBatch, InTable, Queued
    <2>3. OnItsWay(p)' <=> OnItsWay(p) \/ p \in {<<m, u>> : u \in R}
      BY <2>1, <2>2 DEF OnItsWay
    <2>4. ASSUME Traced, Once(p) PROVE Once(p)'
      <3>1. CASE p \in {<<m, u>> : u \in R}
        <4>1. p \notin accepted
          BY <1>4, <3>1
        <4>2. ~ OnItsWay(p) /\ ~ (handed[p] > 0) /\ handed[p] \in Nat
          BY <2>4, <4>1 DEF Traced, TypeOK
        <4>3. handed'[p] = 0
          BY <1>4, <4>2
        <4>4. \A x, y \in Sessions : p \in Unrouted(x)' /\ p \in Unrouted(y)' => x = y
          BY <1>1, <4>2 DEF OnItsWay, InHandler
        <4> QED BY <2>2, <4>2, <4>3, <4>4, NowhereOnce DEF OnItsWay
      <3>2. CASE p \notin {<<m, u>> : u \in R}
        <4>1. \A x \in Sessions : p \in Unrouted(x)' => p \in Unrouted(x)
          BY <1>1, <1>3, <3>2
        <4>2. NoCopy(p)
          BY <1>4, <4>1 DEF NoCopy, Queued
        <4> QED BY <1>4, <2>4, <4>2, NoCopyOnce
      <3> QED BY <3>1, <3>2
    <2> QED BY <2>3, <2>4
  <1> QED BY <1>4, <1>5 DEF Takes

\* SendContainer on the sender's own connection.
LEMMA SendHands ==
  ASSUME TypeOK, HandlerInv, FetchInv, NEW s \in Sessions, SendContainer(s), job[s].via = s
  PROVE  \E d \in Msgs \X Users : Hands(d)
  <1>1. NextReceiver(s) /\ pc[s] = "send"
    BY DEF SendContainer
  <1>2. PICK d \in Msgs \X Users : d = <<job[s].msg, job[s].to>>
    BY <1>1 DEF HandlerInv, HandlerOK
  <1>3. /\ \A x \in Sessions \ {s} : Unrouted(x)' = Unrouted(x)
        /\ d \in Unrouted(s)
        /\ Unrouted(s)' = Unrouted(s) \ {d}
    BY <1>1, <1>2, ServedUnrouted
  <1>4. /\ UNCHANGED <<offline, batch, inbox, accepted, undeleted>>
        /\ handed' = [handed EXCEPT ![d] = @ + 1]
    BY <1>2 DEF SendContainer, Hand
  <1>5. \A x \in Sessions : pc[x] = "delete" => pc'[x] = "delete"
    BY <1>1 DEF NextReceiver, TypeOK
  <1>6. InHandler(d) /\ OnItsWay(d)
    BY <1>3 DEF InHandler, OnItsWay
  <1>7. ASSUME Once(d) PROVE Once(d)'
    <2>1. \A x \in Sessions : d \notin Unrouted(x)'
      BY <1>3, <1>7 DEF Once
    <2>2. ~ InQueue(d) /\ ~ InBatch(d) /\ ~ InTable(d)
      BY <1>6, <1>7 DEF Once
    <2>3. ~ OnItsWay(d)'
      BY <1>4, <2>1, <2>2 DEF OnItsWay, InHandler, InQueue, InBatch, InTable, Queued
    <2> QED BY <1>2, <1>4, <1>6, <1>7, <2>3, HandedOnce
  <1>8. ASSUME NEW p \in (Msgs \X Users) \ {d}
        PROVE  /\ OnItsWay(p)' <=> OnItsWay(p)
               /\ Once(p) => Once(p)'
    <2>1. handed'[p] = handed[p]
      BY <1>4 DEF TypeOK
    <2>2. NoCopy(p)
      BY <1>3, <1>4, <2>1, Drops
    <2>3. InHandler(p) => InHandler(p)'
      BY <1>3 DEF InHandler
    <2>4. OnItsWay(p) => OnItsWay(p)'
      BY <1>4, <2>3 DEF OnItsWay, InQueue, InBatch, InTable, Queued
    <2> QED BY <1>5, <2>2, <2>4, NoCopyOnce
  <1> QED BY <1>2, <1>4, <1>6, <1>7, <1>8 DEF Hands

\* SendContainer to a connection of another loop.
LEMMA SendCarries ==
  ASSUME TypeOK, HandlerInv, FetchInv, NEW s \in Sessions, SendContainer(s),
         job[s].via # s, job[s].via \in mapclient
  PROVE  Carries
  <1>1. NextReceiver(s) /\ pc[s] = "send"
    BY DEF SendContainer
  <1>2. PICK d \in Msgs \X Users, t \in Sessions :
          d = <<job[s].msg, job[s].to>> /\ t = job[s].via
    BY <1>1 DEF HandlerInv, HandlerOK
  <1>6. PICK x \in Item : /\ x = ChatItem(job[s].msg, job[s].to, 0)
                          /\ x.kind = "chat" /\ <<x.msg, x.usr>> = d
    <2>1. job[s].msg \in Msgs /\ job[s].to \in Users
      BY <1>1 DEF HandlerInv, HandlerOK
    <2>2. ChatItem(job[s].msg, job[s].to, 0) \in Item
      BY <2>1 DEF ChatItem, Item
    <2>3. /\ ChatItem(job[s].msg, job[s].to, 0).kind = "chat"
          /\ ChatItem(job[s].msg, job[s].to, 0).msg = job[s].msg
          /\ ChatItem(job[s].msg, job[s].to, 0).usr = job[s].to
      BY DEF ChatItem
    <2> QED BY <1>2, <2>2, <2>3
  <1>3. /\ \A y \in Sessions \ {s} : Unrouted(y)' = Unrouted(y)
        /\ d \in Unrouted(s)
        /\ Unrouted(s)' = Unrouted(s) \ {d}
    BY <1>1, <1>2, ServedUnrouted
  <1>4. /\ UNCHANGED <<offline, batch, handed, accepted, undeleted>>
        /\ inbox' = [inbox EXCEPT ![t] = Append(@, x)]
    BY <1>2, <1>6 DEF SendContainer, Queue
  <1>5. \A y \in Sessions : pc[y] = "delete" => pc'[y] = "delete"
    BY <1>1 DEF NextReceiver, TypeOK
  <1>7. /\ inbox[t] \in Seq(Item) /\ inbox'[t] = Append(inbox[t], x)
        /\ \A y \in Sessions \ {t} : inbox'[y] = inbox[y]
    BY <1>2, <1>4 DEF TypeOK
  <1>8. Queued(t)' = Queued(t) \cup {d} /\ \A y \in Sessions \ {t} : Queued(y)' = Queued(y)
    BY <1>6, <1>7, ChatsAppend DEF Queued
  <1> SUFFICES ASSUME NEW p \in Msgs \X Users
               PROVE  /\ OnItsWay(p)' => OnItsWay(p)
                      /\ Once(p) => Once(p)'
    BY <1>4 DEF Carries
  <1>9. /\ InBatch(p)' <=> InBatch(p)
        /\ InTable(p)' <=> InTable(p)
    BY <1>4 DEF InBatch, InTable
  <1>10. CASE p = d
    <2>1. InHandler(p) /\ OnItsWay(p)
      BY <1>3, <1>10 DEF InHandler, OnItsWay
    <2>2. ASSUME Once(p) PROVE Once(p)'
      <3>1. \A y \in Sessions : p \notin Unrouted(y)'
        BY <1>3, <1>10, <2>2 DEF Once
      <3>2. ~ InQueue(p) /\ ~ InBatch(p) /\ ~ InTable(p)
        BY <2>1, <2>2 DEF Once
      <3>3. \A y \in Sessions : p \in Queued(y)' => y = t
        BY <1>8, <3>2 DEF InQueue
      <3>4. p \notin Chats(inbox[t])
        BY <1>2, <3>2 DEF InQueue, Queued
      <3>5. SingleChat(inbox'[t], p)
        BY <1>2, <1>6, <1>7, <2>2, <3>4, SingleChatAppend DEF Once
      <3>6. \A y \in Sessions : SingleChat(inbox'[y], p)
        BY <1>7, <2>2, <3>5 DEF Once
      <3>7. handed'[p] = handed[p] /\ handed[p] <= 1 /\ handed[p] # 1
        BY <1>4, <2>1, <2>2 DEF Once
      <3> QED BY <1>4, <1>9, <2>2, <3>1, <3>2, <3>3, <3>6, <3>7
              DEF Once, InHandler, InBatch, InTable, RowFor
    <2> QED BY <2>1, <2>2
  <1>11. CASE p # d
    <2>1. /\ \A y \in Sessions : p \in Unrouted(y)' => p \in Unrouted(y)
          /\ \A y \in Sessions : p \in Queued(y)' => p \in Queued(y)
      BY <1>3, <1>8, <1>11
    <2>2. \A y \in Sessions : SingleChat(inbox[y], p) => SingleChat(inbox'[y], p)
      BY <1>6, <1>7, <1>11, SingleChatAppend
    <2>3. NoCopy(p)
      BY <1>4, <2>1, <2>2 DEF NoCopy
    <2> QED BY <1>5, <2>3, NoCopyOnce
  <1> QED BY <1>10, <1>11

\* AddChatMsgCache: the message goes from its handler to the table.
LEMMA StoreCarries ==
  ASSUME TypeOK, HandlerInv, FetchInv, NEW s \in Sessions, AddChatMsgCache(s)
  PROVE  Carries
  <1>1. NextReceiver(s) /\ pc[s] = "store"
    BY DEF AddChatMsgCache
  <1>0. PICK d, r : /\ d = <<job[s].msg, job[s].to>>
                    /\ r = [id |-> nextId, usr |-> job[s].to, msg |-> job[s].msg]
    OBVIOUS
  <1>2. /\ \A y \in Sessions \ {s} : Unrouted(y)' = Unrouted(y)
        /\ d \in Unrouted(s)
        /\ Unrouted(s)' = Unrouted(s) \ {d}
    BY <1>0, <1>1, ServedUnrouted
  <1>3. /\ UNCHANGED <<inbox, batch, handed, accepted, undeleted>>
        /\ offline' = offline \cup {r}
    BY <1>0 DEF AddChatMsgCache
  <1>4. \A y \in Sessions : pc[y] = "delete" => pc'[y] = "delete"
    BY <1>1 DEF NextReceiver, TypeOK
  <1>5. \A p : RowFor(r, p) <=> p = d
    BY <1>0 DEF RowFor
  <1> SUFFICES ASSUME NEW p \in Msgs \X Users
               PROVE  /\ OnItsWay(p)' => OnItsWay(p)
                      /\ Once(p) => Once(p)'
    BY <1>3 DEF Carries
  <1>6. /\ InBatch(p)' <=> InBatch(p)
        /\ InQueue(p)' <=> InQueue(p)
    BY <1>3 DEF InBatch, InQueue, Queued
  <1>7. CASE p = d
    <2>1. InHandler(p) /\ OnItsWay(p)
      BY <1>2, <1>7 DEF InHandler, OnItsWay
    <2>2. ASSUME Once(p) PROVE Once(p)'
      <3>1. \A y \in Sessions : p \notin Unrouted(y)'
        BY <1>2, <1>7, <2>2 DEF Once
      <3>2. ~ InQueue(p) /\ ~ InBatch(p) /\ ~ InTable(p)
        BY <2>1, <2>2 DEF Once
      <3>3. \A q \in offline : ~ RowFor(q, p)
        BY <3>2 DEF InTable, RowFor
      <3>4. \A y \in Sessions : \A q \in batch'[y] : ~ RowFor(q, p)
        BY <1>3, <3>2 DEF InBatch, RowFor
      <3>5. handed'[p] = handed[p] /\ handed[p] <= 1 /\ handed[p] # 1
        BY <1>3, <2>1, <2>2 DEF Once
      <3>6. \A q, o \in offline' : RowFor(q, p) /\ RowFor(o, p) => q = o
        BY <1>3, <3>3
      <3> QED BY <1>3, <1>6, <2>2, <3>1, <3>2, <3>4, <3>5, <3>6
              DEF Once, InHandler, Queued
    <2> QED BY <2>1, <2>2
  <1>8. CASE p # d
    <2>1. \A y \in Sessions : p \in Unrouted(y)' => p \in Unrouted(y)
      BY <1>2, <1>8
    <2>2. \A q \in offline' : RowFor(q, p) => q \in offline
      BY <1>3, <1>5, <1>8
    <2>3. NoCopy(p)
      BY <1>3, <2>1, <2>2 DEF NoCopy, Queued
    <2> QED BY <1>4, <2>3, NoCopyOnce
  <1> QED BY <1>7, <1>8

\* sendInLoop writes a queued chat message, or a notification.
LEMMA LoopSends ==
  ASSUME TypeOK, NEW s \in Sessions, SendInLoop(s)
  PROVE  Carries \/ \E d \in Msgs \X Users : Hands(d)
  <1>1. inbox[s] \in Seq(Item) /\ inbox[s] # <<>>
    BY DEF SendInLoop, TypeOK
  <1>0. PICK x \in Item : x = Head(inbox[s])
    <2>1. Head(inbox[s]) \in Item
      BY <1>1
    <2> QED BY <2>1
  <1>00. PICK d : d = <<x.msg, x.usr>>
    OBVIOUS
  <1>2. Chats(inbox[s]) = Chats(Tail(inbox[s])) \cup (IF x.kind = "chat" THEN {d} ELSE {})
    BY <1>0, <1>00, <1>1, ChatsTail
  <1>3. inbox'[s] = Tail(inbox[s]) /\ \A y \in Sessions \ {s} : inbox'[y] = inbox[y]
    BY DEF SendInLoop, TypeOK
  <1>4. \A y \in Sessions : Unrouted(y)' = Unrouted(y)
    BY DEF SendInLoop, Unrouted
  <1>5. UNCHANGED <<offline, batch, accepted, undeleted, pc>>
    BY DEF SendInLoop
  <1>6. handed' = IF x.kind = "chat" THEN [handed EXCEPT ![d] = @ + 1] ELSE handed
    BY <1>0, <1>00 DEF SendInLoop, Hand
  <1>7. \A p : SingleChat(inbox[s], p) =>
          SingleChat(inbox'[s], p) /\ (x.kind = "chat" /\ d = p => p \notin Chats(inbox'[s]))
    BY <1>0, <1>00, <1>1, <1>3, SingleChatTail
  <1>8. x.kind = "chat" => d \in Msgs \X Users
    BY <1>0, <1>00 DEF Item
  <1>9. \A y \in Sessions : Queued(y)' \subseteq Queued(y)
    BY <1>2, <1>3 DEF Queued
  <1>10. ASSUME NEW p \in Msgs \X Users, handed'[p] = handed[p] PROVE NoCopy(p)
    BY <1>3, <1>4, <1>5, <1>7, <1>9, <1>10 DEF NoCopy
  <1>11. CASE x.kind # "chat"
    <2>1. \A p \in Msgs \X Users : NoCopy(p)
      BY <1>6, <1>10, <1>11
    <2> QED BY <1>5, <1>6, <1>11, <2>1, NoCopyOnce DEF Carries
  <1>12. CASE x.kind = "chat"
    <2>1. d \in Queued(s) /\ InQueue(d) /\ OnItsWay(d)
      BY <1>2, <1>12 DEF Queued, InQueue, OnItsWay
    <2>2. ASSUME Once(d) PROVE Once(d)'
      <3>1. \A y \in Sessions : d \notin Queued(y)'
        BY <1>3, <1>7, <1>9, <1>12, <2>1, <2>2 DEF Once, Queued
      <3>2. ~ InHandler(d) /\ ~ InBatch(d) /\ ~ InTable(d)
        BY <2>1, <2>2 DEF Once
      <3>3. ~ OnItsWay(d)'
        BY <1>4, <1>5, <3>1, <3>2 DEF OnItsWay, InHandler, InQueue, InBatch, InTable
      <3> QED BY <1>6, <1>8, <1>12, <2>1, <2>2, <3>3, HandedOnce
    <2>3. ASSUME NEW p \in (Msgs \X Users) \ {d}
          PROVE  /\ OnItsWay(p)' <=> OnItsWay(p)
                 /\ Once(p) => Once(p)'
      <3>1. handed'[p] = handed[p]
        BY <1>6, <1>12 DEF TypeOK
      <3>2. \A y \in Sessions : p \in Queued(y) => p \in Queued(y)'
        BY <1>2, <1>3 DEF Queued
      <3>3. OnItsWay(p) => OnItsWay(p)'
        BY <1>4, <1>5, <3>2 DEF OnItsWay, InHandler, InQueue, InBatch, InTable
      <3> QED BY <1>5, <1>10, <3>1, <3>3, NoCopyOnce
    <2> QED BY <1>5, <1>6, <1>8, <1>12, <2>1, <2>2, <2>3 DEF Hands
  <1> QED BY <1>11, <1>12

\* Every step does one of the three things.
LEMMA StepKinds ==
  ASSUME TypeInv, LockInv, FetchInv, [Next]_vars
  PROVE  \/ Carries
         \/ \E d \in Msgs \X Users : Hands(d)
         \/ \E m \in Msgs, R \in SUBSET Users : Takes(m, R)
  <1>1. TypeOK /\ HandlerInv
    BY DEF TypeInv
  <1>2. CASE Quiet
    BY <1>1, <1>2, QuietCarries
  <1>3. ASSUME NEW s \in Sessions, Moves(s)
        PROVE  \/ Carries
               \/ \E d \in Msgs \X Users : Hands(d)
               \/ \E m \in Msgs, R \in SUBSET Users : Takes(m, R)
    BY <1>1, <1>3, FetchCarries, PushHands, AcceptTakes, SendHands, SendCarries, StoreCarries,
       LoopSends DEF Moves
  <1> QED BY <1>1, <1>2, <1>3, QuietOrMoves

\* Nothing is anywhere that was not accepted.
LEMMA TracedStep ==
  ASSUME TypeInv, LockInv, FetchInv, Traced, [Next]_vars
  PROVE  Traced'
  <1>1. CASE Carries
    BY <1>1 DEF Carries, Traced
  <1>2. ASSUME NEW d \in Msgs \X Users, Hands(d) PROVE Traced'
    <2>1. \A p \in (Msgs \X Users) \ {d} : handed'[p] = handed[p]
      BY <1>2 DEF Hands, TypeInv, TypeOK
    <2>2. d \in accepted' /\ accepted' = accepted
      BY <1>2 DEF Hands, Traced
    <2> QED BY <1>2, <2>1, <2>2 DEF Hands, Traced
  <1>3. ASSUME NEW m \in Msgs, NEW R \in SUBSET Users, Takes(m, R) PROVE Traced'
    BY <1>3 DEF Takes, Traced
  <1> QED BY <1>1, <1>2, <1>3, StepKinds

\* No step makes a second copy of a message unless a DELETE has failed.
LEMMA OnceStep ==
  ASSUME TypeInv, LockInv, FetchInv, Traced, OnceInv, [Next]_vars
  PROVE  OnceInv'
  <1> SUFFICES ASSUME ~ undeleted', NEW p \in Msgs \X Users PROVE Once(p)'
    BY DEF OnceInv
  <1>1. CASE Carries
    BY <1>1 DEF Carries, OnceInv
  <1>2. ASSUME NEW d \in Msgs \X Users, Hands(d) PROVE Once(p)'
    BY <1>2 DEF Hands, OnceInv
  <1>3. ASSUME NEW m \in Msgs, NEW R \in SUBSET Users, Takes(m, R) PROVE Once(p)'
    BY <1>3 DEF Takes, OnceInv
  <1> QED BY <1>1, <1>2, <1>3, StepKinds

\* The server starts with nothing on its way.
LEMMA OnceInit == Init => FetchInv /\ Traced /\ OnceInv
  <1> SUFFICES ASSUME Init PROVE FetchInv /\ Traced /\ OnceInv
    OBVIOUS
  <1>1. /\ \A s \in Sessions : Unrouted(s) = {} /\ batch[s] = {} /\ inbox[s] = <<>>
        /\ offline = {} /\ \A p \in Msgs \X Users : handed[p] = 0
    BY DEF Init, Unrouted
  <1>2. ASSUME NEW s \in Sessions PROVE Queued(s) = {}
    <2>1. DOMAIN inbox[s] = {}
      BY <1>1
    <2> QED BY <2>1 DEF Queued, Chats
  <1>3. \A p \in Msgs \X Users : ~ OnItsWay(p)
    BY <1>1, <1>2 DEF OnItsWay, InTable, InBatch, InQueue, InHandler
  <1>4. \A p \in Msgs \X Users : Once(p)
    BY <1>1, <1>2, <1>3 DEF Once, SingleChat, InTable, InBatch, InQueue, InHandler
  <1>5. FetchInv
    BY DEF Init, FetchInv
  <1> QED BY <1>1, <1>3, <1>4, <1>5 DEF Traced, OnceInv

\* As long as no DELETE has failed, a message is written once for each of its
\* receivers, whatever logins, closes and restarts interleave.
THEOREM WrittenAtMostOnce == Spec => []AtMostOnce
  <1> DEFINE Ind == TypeInv /\ LockInv /\ FetchInv /\ Traced /\ OnceInv
  <1>1. Init => Ind
    BY TypeInit, OnceInit DEF Init, LockInv
  <1>2. Ind /\ [Next]_vars => Ind'
    BY TypeStep, LockStep, FetchStep, TracedStep, OnceStep
  <1>3. Ind => AtMostOnce
    BY DEF OnceInv, Once, AtMostOnce
  <1> QED BY <1>1, <1>2, <1>3, PTL DEF Spec

-----------------------------------------------------------------------------
(* The server implements ChatMailbox *)

\* Only accepted messages are recorded as lost.
LostTraced == \A p \in Msgs \X Users : IsLost(p) => p \in accepted

\* What is recorded as lost was on its way a step before.
LEMMA LostStep ==
  ASSUME TypeInv, LockInv, FetchInv, Traced, LostTraced, [Next]_vars
  PROVE  LostTraced'
  <1>1. TypeOK /\ HandlerInv
    BY DEF TypeInv
  <1>2. accepted \subseteq accepted'
    BY StepKinds DEF Carries, Hands, Takes
  <1> SUFFICES ASSUME NEW p \in Msgs \X Users, IsLost(p)', ~ IsLost(p) PROVE OnItsWay(p)
    BY <1>2 DEF Traced, LostTraced
  <1>3. PICK why \in Reasons : <<p[1], p[2], why>> \in lost' \ lost
    BY DEF IsLost
  <1>4. p = <<p[1], p[2]>>
    OBVIOUS
  <1>5. ASSUME NEW s \in Sessions, Disconnect(s) PROVE OnItsWay(p)
    <2>1. PICK q \in Queued(s) : <<p[1], p[2], why>> = <<q[1], q[2], "gone">>
      BY <1>3, <1>5 DEF Disconnect
    <2>2. q \in Msgs \X Users
      BY <1>1, ChatsType DEF Queued, TypeOK
    <2>3. q = p
      BY <1>4, <2>1, <2>2
    <2> QED BY <2>3 DEF OnItsWay, InQueue
  <1>6. ASSUME NEW s \in Sessions, pc[s] \in {"send", "store"},
               lost' \subseteq lost \cup {<<job[s].msg, job[s].to, w>> : w \in Reasons}
        PROVE  OnItsWay(p)
    <2>1. p = <<job[s].msg, job[s].to>>
      BY <1>3, <1>4, <1>6
    <2>2. job[s].to # NoUser
      BY <1>1, <1>6, ConstantsAssumption DEF HandlerInv, HandlerOK
    <2>3. p \in Unrouted(s)
      BY <1>6, <2>1, <2>2 DEF Unrouted
    <2> QED BY <2>3 DEF OnItsWay, InHandler
  <1>7. ASSUME NEW s \in Sessions, SendContainer(s) PROVE OnItsWay(p)
    BY <1>6, <1>7 DEF SendContainer, Reasons
  <1>8. ASSUME NEW s \in Sessions, InsertFails(s) PROVE OnItsWay(p)
    BY <1>6, <1>8 DEF InsertFails, Reasons
  <1>9. ASSUME Crash PROVE OnItsWay(p)
    <2>1. PICK s \in Sessions : p \in Unrouted(s) \/ p \in Queued(s) \/ p \in Drained(s)
      BY <1>3, <1>4, <1>9 DEF Crash, CrashLoss
    <2> QED BY <2>1 DEF OnItsWay, InHandler, InQueue, InBatch, Drained
  <1>10. ASSUME NEW s \in Sessions, Proceed(s) PROVE OnItsWay(p)
    BY <1>3, <1>7, <1>8, <1>10
       DEF Proceed, LoginRejected, LoginAccepted, FetchOffline, FetchFails, DeleteOffline,
           DeleteFails, PushOffline, StartAnnounce, Tell, LoginDone, Route,
           AddChatMsgCache, ChatDone, SendInLoop
  <1>11. ASSUME NEW s \in Sessions, Request(s) PROVE OnItsWay(p)
    BY <1>3, <1>5, <1>11
       DEF Request, OnConnection, OnClose, OnCloseDuringLookup, Login, OnGetFriendList,
           OnChat, OnGroupChat, OnMultiChat, Accept
  <1> QED BY <1>3, <1>9, <1>10, <1>11 DEF Next, vars

\* The place of a delivery, when nothing is silently lost or there unaccepted.
PlaceOf(p) ==
  IF handed[p] > 0 THEN "delivered"
  ELSE IF OnItsWay(p) THEN "pending"
  ELSE IF p \in accepted THEN "lost" ELSE "none"

\* The refinement mapping, without the case that never happens.
LEMMA PlaceIs ==
  TypeOK /\ NoSilentLoss /\ Traced /\ LostTraced
    => \A p \in Msgs \X Users : Place(p) = PlaceOf(p)
  <1> SUFFICES ASSUME TypeOK, NoSilentLoss, Traced, LostTraced, NEW p \in Msgs \X Users
               PROVE  Place(p) = PlaceOf(p)
    OBVIOUS
  <1>1. handed[p] \in Nat
    BY DEF TypeOK
  <1>2. handed[p] > 0 \/ handed[p] = 0
    BY <1>1
  <1>3. p \in accepted => handed[p] > 0 \/ OnItsWay(p) \/ IsLost(p)
    BY DEF NoSilentLoss, Placed
  <1>4. CASE handed[p] > 0
    BY <1>1, <1>4 DEF Place, PlaceOf
  <1> QED BY <1>1, <1>2, <1>3, <1>4 DEF Place, PlaceOf, Traced, LostTraced

\* The invariant under which the refinement mapping is what it should be.
MapInv ==
  TypeInv /\ LockInv /\ NoSilentLoss /\ FetchInv /\ Traced /\ LostTraced

\* The value the mapping gives to ChatMailbox's variable.
places == [p \in Msgs \X Users |-> Place(p)]

\* The mapping before a step, and after it.
LEMMA PlaceMap == MapInv => places = [p \in Msgs \X Users |-> PlaceOf(p)]
  BY PlaceIs DEF MapInv, TypeInv, places

\* The same of the next state.
LEMMA PlaceMapNext == (MapInv => places = [p \in Msgs \X Users |-> PlaceOf(p)])'
  BY PlaceMap, PTL

\* A step of the server is a step of the mailbox, or leaves every delivery
\* where it is.
LEMMA MailboxStep ==
  ASSUME MapInv, [Next]_vars, MapInv'
  PROVE  [Mailbox!Next]_places
  <1>0. TypeOK /\ TypeInv /\ LockInv /\ FetchInv
    BY DEF MapInv, TypeInv
  <1>1. places = [p \in Msgs \X Users |-> PlaceOf(p)]
    BY PlaceMap
  <1>2. places' = [p \in Msgs \X Users |-> PlaceOf(p)']
    BY PlaceMapNext
  <1>3. \A p \in Msgs \X Users : PlaceOf(p) = places[p]
    BY <1>1
  <1>4. \A p \in Msgs \X Users : handed[p] \in Nat
    BY <1>0 DEF TypeOK
  <1>5. CASE Carries
    <2>1. PICK L : L = {p \in Msgs \X Users : handed[p] = 0 /\ OnItsWay(p) /\ ~ OnItsWay(p)'}
      OBVIOUS
    <2>2. L \in SUBSET (Msgs \X Users)
      BY <2>1
    <2>3. \A p \in L : places[p] = "pending"
      BY <1>3, <2>1 DEF PlaceOf
    <2>4. ASSUME NEW p \in Msgs \X Users
          PROVE  PlaceOf(p)' = IF p \in L THEN "lost" ELSE places[p]
      <3>1. /\ handed'[p] = handed[p] /\ accepted' = accepted
            /\ OnItsWay(p)' => OnItsWay(p)
        BY <1>5 DEF Carries
      <3>2. OnItsWay(p) => p \in accepted
        BY DEF MapInv, Traced
      <3>3. PlaceOf(p) = places[p]
        BY <1>3
      <3>4. p \in L <=> handed[p] = 0 /\ OnItsWay(p) /\ ~ OnItsWay(p)'
        BY <2>1
      <3>5. handed[p] \in Nat
        BY <1>4
      <3> QED BY <3>1, <3>2, <3>3, <3>4, <3>5 DEF PlaceOf
    <2>5. places' = [p \in Msgs \X Users |-> IF p \in L THEN "lost" ELSE places[p]]
      BY <1>2, <2>4
    <2>6. Mailbox!Lose(L)
      BY <2>3, <2>5 DEF Mailbox!Lose, Mailbox!Deliveries, places
    <2> QED BY <2>2, <2>6 DEF Mailbox!Next, Mailbox!Deliveries
  <1>6. ASSUME NEW d \in Msgs \X Users, Hands(d) PROVE [Mailbox!Next]_places
    <2>1. handed'[d] = handed[d] + 1 /\ OnItsWay(d) /\ accepted' = accepted
      BY <1>0, <1>6 DEF Hands, TypeOK
    <2>2. PlaceOf(d)' = "delivered"
      BY <1>4, <2>1 DEF PlaceOf
    <2>3. ASSUME NEW p \in (Msgs \X Users) \ {d} PROVE PlaceOf(p)' = places[p]
      <3>1. handed'[p] = handed[p] /\ (OnItsWay(p)' <=> OnItsWay(p))
        BY <1>0, <1>6 DEF Hands, TypeOK
      <3> QED BY <1>3, <2>1, <3>1 DEF PlaceOf
    <2>4. places' = [places EXCEPT ![d] = "delivered"]
      BY <1>1, <1>2, <2>2, <2>3
    <2>5. CASE handed[d] > 0
      <3>1. places[d] = "delivered"
        BY <1>3, <2>5 DEF PlaceOf
      <3> QED BY <1>1, <2>4, <3>1
    <2>6. CASE handed[d] = 0
      <3>1. places[d] = "pending"
        BY <1>3, <2>1, <2>6 DEF PlaceOf
      <3>2. Mailbox!Deliver(d)
        BY <2>4, <3>1 DEF Mailbox!Deliver, Mailbox!Deliveries, places
      <3> QED BY <3>2 DEF Mailbox!Next, Mailbox!Deliveries
    <2> QED BY <1>4, <2>5, <2>6
  <1>7. ASSUME NEW m \in Msgs, NEW R \in SUBSET Users, Takes(m, R) PROVE [Mailbox!Next]_places
    <2>1. \A u \in Users : places[<<m, u>>] = "none"
      <3> SUFFICES ASSUME NEW u \in Users PROVE places[<<m, u>>] = "none"
        OBVIOUS
      <3>1. <<m, u>> \in Msgs \X Users /\ <<m, u>> \notin accepted
        BY <1>7 DEF Takes
      <3> QED BY <1>3, <3>1 DEF PlaceOf, MapInv, Traced
    <2>2. ASSUME NEW p \in Msgs \X Users
          PROVE  PlaceOf(p)' = IF p[1] = m /\ p[2] \in R THEN "pending" ELSE places[p]
      <3>1. p \in {<<m, u>> : u \in R} <=> p[1] = m /\ p[2] \in R
        OBVIOUS
      <3>2. /\ handed'[p] = handed[p]
            /\ p \in accepted' <=> (p \in accepted \/ (p[1] = m /\ p[2] \in R))
            /\ OnItsWay(p)' <=> (OnItsWay(p) \/ (p[1] = m /\ p[2] \in R))
        BY <1>7, <3>1 DEF Takes
      <3>3. p[1] = m => p \notin accepted
        BY <1>7 DEF Takes
      <3>4. (p[1] = m) => ~ (handed[p] > 0)
        BY <3>3 DEF MapInv, Traced
      <3>5. PlaceOf(p) = places[p]
        BY <1>3
      <3> QED BY <3>2, <3>4, <3>5 DEF PlaceOf
    <2>3. places' = [p \in Msgs \X Users |->
                       IF p[1] = m /\ p[2] \in R THEN "pending" ELSE places[p]]
      BY <1>2, <2>2
    <2>4. Mailbox!Send(m, R)
      BY <2>1, <2>3 DEF Mailbox!Send, Mailbox!Deliveries, places
    <2> QED BY <2>4 DEF Mailbox!Next
  <1> QED BY <1>0, <1>5, <1>6, <1>7, StepKinds

\* At the start no message has been accepted, and the mailbox is empty.
LEMMA MailboxInit == Init => MapInv /\ Mailbox!Init
  <1> SUFFICES ASSUME Init PROVE MapInv /\ Mailbox!Init
    OBVIOUS
  <1>1. TypeInv /\ LockInv /\ FetchInv /\ Traced
    BY TypeInit, OnceInit DEF Init, LockInv
  <1>2. NoSilentLoss /\ LostTraced
    BY DEF Init, NoSilentLoss, LostTraced, IsLost
  <1>3. MapInv
    BY <1>1, <1>2 DEF MapInv
  <1>4. \A p \in Msgs \X Users : PlaceOf(p) = "none"
    BY <1>1 DEF Init, PlaceOf, Traced
  <1>5. places = [p \in Msgs \X Users |-> "none"]
    BY <1>3, <1>4, PlaceMap
  <1> QED BY <1>3, <1>5 DEF Mailbox!Init, Mailbox!Deliveries, places

\* The server implements ChatMailbox: logins, closes, restarts and failing
\* statements only move an accepted message from pending to delivered or to
\* lost, and nothing undoes either.
THEOREM ServerImplementsMailbox == Spec => ImplementsMailbox
  <1>1. MapInv /\ [Next]_vars => MapInv'
    BY TypeStep, LockStep, LossStep, FetchStep, TracedStep, LostStep DEF MapInv
  <1>2. MapInv /\ [Next]_vars /\ MapInv' => [Mailbox!Next]_places
    BY MailboxStep
  <1> QED BY <1>1, <1>2, MailboxInit, PTL DEF Spec, ImplementsMailbox, Mailbox!Spec, places

-----------------------------------------------------------------------------
(* The order of offline messages *)

\* Sends queued from other loops are live messages, never rows.
LiveInv == \A s \in Sessions : \A i \in DOMAIN inbox[s] : inbox[s][i].id = 0

\* AUTO_INCREMENT is ahead of every row, wherever the row has got to, and no
\* two rows share an id.
IdInv ==
  /\ \A r \in offline : r.id < nextId
  /\ \A s \in Sessions : \A r \in batch[s] : r.id < nextId
  /\ \A s \in Sessions : \A i \in DOMAIN wire[s] : wire[s][i].id < nextId
  /\ \A r, q \in offline : r.id = q.id => r = q
  /\ \A s \in Sessions : \A r, q \in batch[s] : r.id = q.id => r = q

\* A fetched row is older than every row of its user still in the table, and
\* a row that was written is older than both.
OrderInv ==
  ~ undeleted =>
    /\ \A s \in Sessions : pc[s] = "push" =>
         \A r \in batch[s], q \in offline : r.usr = q.usr => r.id < q.id
    /\ \A s \in Sessions : \A i \in DOMAIN wire[s] : wire[s][i].id > 0 =>
         /\ \A q \in offline : q.usr = wire[s][i].usr => wire[s][i].id < q.id
         /\ \A q \in batch[s] : q.usr = wire[s][i].usr => wire[s][i].id < q.id

FifoInv == LiveInv /\ IdInv /\ OrderInv /\ OfflineFifo

\* Steps after which there are no rows, fetched rows or written rows that were
\* not there before.
Settles ==
  /\ nextId' = nextId
  /\ offline' \subseteq offline
  /\ \A x \in Sessions : batch'[x] \subseteq batch[x]
  /\ \A x \in Sessions : \A i \in DOMAIN wire'[x] :
       wire'[x][i].id > 0 => i \in DOMAIN wire[x] /\ wire'[x][i] = wire[x][i]
  /\ ~ undeleted' =>
       /\ ~ undeleted
       /\ \A x \in Sessions : pc'[x] = "push" =>
            pc[x] = "push" \/ \A r \in batch'[x], q \in offline' : r.usr # q.usr

\* Such a step keeps the order.
LEMMA SettlesFifo ==
  ASSUME TypeOK, TypeOK', IdInv, OrderInv, OfflineFifo, Settles
  PROVE  IdInv' /\ OrderInv' /\ OfflineFifo'
  <1>1. \A x \in Sessions : \A i \in DOMAIN wire'[x] : wire'[x][i].id \in Nat
    BY SMTT(30) DEF TypeOK, Item
  <1>2. nextId \in Nat \ {0}
    BY DEF TypeOK
  <1>3. IdInv'
    <2>1. \A x \in Sessions : \A i \in DOMAIN wire'[x] : wire'[x][i].id < nextId'
      BY <1>1, <1>2 DEF IdInv, Settles
    <2> QED BY <2>1 DEF IdInv, Settles
  <1>4. OrderInv'
    <2> SUFFICES ASSUME ~ undeleted'
        PROVE /\ \A s \in Sessions : pc'[s] = "push" =>
                   \A r \in batch'[s], q \in offline' : r.usr = q.usr => r.id < q.id
              /\ \A s \in Sessions : \A i \in DOMAIN wire'[s] : wire'[s][i].id > 0 =>
                   /\ \A q \in offline' : q.usr = wire'[s][i].usr => wire'[s][i].id < q.id
                   /\ \A q \in batch'[s] : q.usr = wire'[s][i].usr => wire'[s][i].id < q.id
      BY DEF OrderInv
    <2>1. \A s \in Sessions : pc'[s] = "push" =>
            \A r \in batch'[s], q \in offline' : r.usr = q.usr => r.id < q.id
      BY DEF OrderInv, Settles
    <2>2. \A s \in Sessions : \A i \in DOMAIN wire'[s] : wire'[s][i].id > 0 =>
             /\ \A q \in offline' : q.usr = wire'[s][i].usr => wire'[s][i].id < q.id
             /\ \A q \in batch'[s] : q.usr = wire'[s][i].usr => wire'[s][i].id < q.id
      BY DEF OrderInv, Settles
    <2> QED BY <2>1, <2>2
  <1>5. OfflineFifo'
    BY ZenonT(40) DEF OfflineFifo, Settles, TypeOK
  <1> QED BY <1>3, <1>4, <1>5

\* The live messages of a queue stay live.
LEMMA QueueLive ==
  ASSUME TypeOK, LiveInv, NEW t \in Sessions \cup {NoSession}, NEW item \in Item, item.id = 0,
         Queue(t, item)
  PROVE  LiveInv'
  <1>1. CASE t \notin mapclient
    BY <1>1 DEF Queue, LiveInv
  <1>2. CASE t \in mapclient
    <2>1. t \in Sessions /\ inbox' = [inbox EXCEPT ![t] = Append(@, item)]
      BY <1>2 DEF Queue, TypeOK
    <2>2. inbox[t] \in Seq(Item)
      BY <2>1 DEF TypeOK
    <2>3. \A i \in DOMAIN Append(inbox[t], item) : Append(inbox[t], item)[i].id = 0
      BY <2>1, <2>2 DEF LiveInv
    <2> QED BY <2>1, <2>3 DEF LiveInv, TypeOK
  <1> QED BY <1>1, <1>2

\* Only live messages are queued in a loop.
LEMMA LiveStep ==
  ASSUME TypeInv, LiveInv, [Next]_vars PROVE LiveInv'
  <1>0. TypeOK /\ HandlerInv
    BY DEF TypeInv
  <1>1. ASSUME NEW s \in Sessions, SendInLoop(s) PROVE LiveInv'
    <2>1. inbox[s] \in Seq(Item) /\ inbox[s] # <<>>
      BY <1>0, <1>1 DEF TypeOK, SendInLoop
    <2>2. \A i \in DOMAIN Tail(inbox[s]) :
            i + 1 \in DOMAIN inbox[s] /\ Tail(inbox[s])[i] = inbox[s][i + 1]
      BY <2>1
    <2> QED BY <1>0, <1>1, <2>2 DEF SendInLoop, LiveInv, TypeOK
  <1>2. ASSUME NEW s \in Sessions, SendContainer(s) PROVE LiveInv'
    <2>1. PICK item : item = ChatItem(job[s].msg, job[s].to, 0)
      OBVIOUS
    <2>2. item \in Item /\ item.id = 0 /\ job[s].via \in Sessions
      BY <1>0, <1>2, <2>1 DEF SendContainer, HandlerInv, HandlerOK, ChatItem, Item
    <2>3. inbox' = inbox \/ Queue(job[s].via, item)
      BY <1>2, <2>1 DEF SendContainer
    <2> QED BY <1>0, <2>2, <2>3, QueueLive DEF LiveInv
  <1>3. ASSUME NEW s \in Sessions, Tell(s) PROVE LiveInv'
    <2>1. PICK item : item = UpItem(user[s])
      OBVIOUS
    <2>2. item \in Item /\ item.id = 0 /\ job[s].via \in Sessions \cup {NoSession}
      BY <1>0, <1>3, <2>1 DEF Tell, HandlerInv, HandlerOK, UpItem, Item, TypeOK, Job
    <2>3. inbox' = inbox \/ Queue(job[s].via, item)
      BY <1>3, <2>1 DEF Tell
    <2> QED BY <1>0, <2>2, <2>3, QueueLive DEF LiveInv
  <1>4. ASSUME NEW s \in Sessions, Disconnect(s) PROVE LiveInv'
    BY <1>0, <1>4 DEF Disconnect, LiveInv, TypeOK
  <1>5. ASSUME Crash PROVE LiveInv'
    BY <1>5 DEF Crash, LiveInv
  <1>6. ASSUME inbox' = inbox PROVE LiveInv'
    BY <1>6 DEF LiveInv
  <1>7. ASSUME NEW s \in Sessions, Proceed(s) PROVE LiveInv'
    BY <1>1, <1>2, <1>3, <1>6, <1>7
       DEF Proceed, LoginRejected, LoginAccepted, FetchOffline, FetchFails, DeleteOffline,
           DeleteFails, PushOffline, StartAnnounce, LoginDone, Route, AddChatMsgCache,
           InsertFails, ChatDone
  <1>8. ASSUME NEW s \in Sessions, Request(s) PROVE LiveInv'
    BY <1>4, <1>6, <1>8
       DEF Request, OnConnection, OnClose, OnCloseDuringLookup, Login, OnGetFriendList,
           OnChat, OnGroupChat, OnMultiChat, Accept
  <1> QED BY <1>5, <1>6, <1>7, <1>8 DEF Next, vars

\* A live message written to a connection is no row.
LEMMA LiveAppend ==
  ASSUME TypeOK, NEW s \in Sessions, NEW x \in Item, x.id = 0,
         wire' = [wire EXCEPT ![s] = Append(@, x)]
  PROVE  \A y \in Sessions : \A i \in DOMAIN wire'[y] :
           wire'[y][i].id > 0 => i \in DOMAIN wire[y] /\ wire'[y][i] = wire[y][i]
  <1>1. wire[s] \in Seq(Item)
    BY DEF TypeOK
  <1>2. \A i \in DOMAIN Append(wire[s], x) :
          \/ i \in DOMAIN wire[s] /\ Append(wire[s], x)[i] = wire[s][i]
          \/ Append(wire[s], x)[i] = x
    BY <1>1
  <1> QED BY <1>2 DEF TypeOK

\* All but three steps settle.
LEMMA SettlesOr ==
  ASSUME TypeInv, LockInv, FetchInv, LiveInv, [Next]_vars
  PROVE  \/ Settles
         \/ \E s \in Sessions : FetchOffline(s) \/ PushOffline(s) \/ AddChatMsgCache(s)
  <1>0. TypeOK /\ HandlerInv
    BY DEF TypeInv
  <1>1. ASSUME UNCHANGED <<nextId, offline, batch, wire, undeleted>>,
               \A x \in Sessions : pc'[x] = "push" => pc[x] = "push"
        PROVE  Settles
    BY <1>1 DEF Settles
  <1>2. ASSUME NEW s \in Sessions, NEW v, v # "push", pc' = [pc EXCEPT ![s] = v]
        PROVE  \A x \in Sessions : pc'[x] = "push" => pc[x] = "push"
    BY <1>0, <1>2 DEF TypeOK
  <1>3. ASSUME NEW s \in Sessions, NEW u \in Users, NEW found, LookUp(s, u, found)
        PROVE  \A x \in Sessions : pc'[x] = "push" => pc[x] = "push"
    BY <1>0, <1>3 DEF LookUp, RouteTo, AnnounceTo, TypeOK
  <1>4. ASSUME NEW s \in Sessions, FetchFails(s) PROVE Settles
    <2>1. batch[s] = {}
      BY <1>0, <1>4 DEF FetchFails, HandlerInv, HandlerOK
    <2> QED BY <1>0, <1>4, <2>1 DEF FetchFails, Settles, TypeOK
  <1>5. ASSUME NEW s \in Sessions, DeleteOffline(s) PROVE Settles
    <2>1. \A r \in batch[s], q \in offline' : r.usr # q.usr
      BY <1>5 DEF DeleteOffline, RowsOf, FetchInv
    <2> QED BY <1>0, <1>5, <2>1 DEF DeleteOffline, Settles, TypeOK
  <1>6. ASSUME NEW s \in Sessions, DeleteFails(s) PROVE Settles
    BY <1>6 DEF DeleteFails, Settles
  <1>7. ASSUME NEW s \in Sessions, SendContainer(s) PROVE Settles
    <2>1. PICK item : item = ChatItem(job[s].msg, job[s].to, 0)
      OBVIOUS
    <2>2. item \in Item /\ item.id = 0
      BY <1>0, <1>7, <2>1 DEF SendContainer, HandlerInv, HandlerOK, ChatItem, Item
    <2>3. wire' = wire \/ wire' = [wire EXCEPT ![s] = Append(@, item)]
      BY <1>7, <2>1 DEF SendContainer
    <2>4. \A y \in Sessions : \A i \in DOMAIN wire'[y] :
           wire'[y][i].id > 0 => i \in DOMAIN wire[y] /\ wire'[y][i] = wire[y][i]
      BY <1>0, <2>2, <2>3, LiveAppend
    <2>5. \A x \in Sessions : pc'[x] = "push" => pc[x] = "push"
      BY <1>2, <1>7 DEF SendContainer, NextReceiver
    <2> QED BY <1>7, <2>4, <2>5 DEF SendContainer, Settles
  <1>8. ASSUME NEW s \in Sessions, SendInLoop(s) PROVE Settles
    <2>1. PICK x : x = Head(inbox[s])
      OBVIOUS
    <2>2. inbox[s] \in Seq(Item) /\ inbox[s] # <<>>
      BY <1>0, <1>8 DEF TypeOK, SendInLoop
    <2>3. x \in Item /\ x = inbox[s][1] /\ 1 \in DOMAIN inbox[s]
      BY <2>1, <2>2
    <2>4. x.id = 0
      BY <2>3 DEF LiveInv
    <2>5. wire' = wire \/ wire' = [wire EXCEPT ![s] = Append(@, x)]
      BY <1>8, <2>1 DEF SendInLoop
    <2>6. \A y \in Sessions : \A i \in DOMAIN wire'[y] :
           wire'[y][i].id > 0 => i \in DOMAIN wire[y] /\ wire'[y][i] = wire[y][i]
      BY <1>0, <2>3, <2>4, <2>5, LiveAppend
    <2> QED BY <1>8, <2>6 DEF SendInLoop, Settles
  <1>9. ASSUME NEW s \in Sessions, Disconnect(s), UNCHANGED <<batch, dbVars>>,
               \A x \in Sessions : pc'[x] = "push" => pc[x] = "push"
        PROVE  Settles
    BY <1>0, <1>9 DEF Disconnect, Settles, TypeOK
  <1>10. ASSUME Crash PROVE Settles
    BY <1>10 DEF Crash, Settles
  <1>11. ASSUME NEW s \in Sessions, Proceed(s)
         PROVE  Settles \/ FetchOffline(s) \/ PushOffline(s) \/ AddChatMsgCache(s)
    <2>1. CASE LoginRejected(s) \/ LoginAccepted(s) \/ StartAnnounce(s) \/ Tell(s) \/ LoginDone(s)
               \/ InsertFails(s) \/ ChatDone(s)
      BY <1>1, <1>2, <2>1
         DEF LoginRejected, LoginAccepted, StartAnnounce, Tell, LoginDone, InsertFails, ChatDone,
             NextReceiver
    <2>2. ASSUME NEW u \in Users, Route(s, u) PROVE Settles
      BY <1>1, <1>3, <2>2 DEF Route
    <2> QED BY <1>4, <1>5, <1>6, <1>7, <1>8, <1>11, <2>1, <2>2 DEF Proceed
  <1>12. ASSUME NEW s \in Sessions, Request(s) PROVE Settles
    <2>1. CASE OnConnection(s)
      BY <1>1, <2>1 DEF OnConnection
    <2>2. CASE OnClose(s)
      BY <1>9, <2>2 DEF OnClose
    <2>3. ASSUME NEW t \in Sessions, NEW u \in Users, OnCloseDuringLookup(s, t, u) PROVE Settles
      BY <1>3, <1>9, <2>3 DEF OnCloseDuringLookup
    <2>4. ASSUME NEW u \in Users, Login(s, u) PROVE Settles
      BY <1>1, <1>2, <2>4 DEF Login
    <2>5. CASE OnGetFriendList(s)
      BY <1>1, <2>5 DEF OnGetFriendList
    <2>6. ASSUME NEW m, NEW R, Accept(s, m, R) PROVE Settles
      BY <1>1, <1>2, <2>6 DEF Accept
    <2> QED BY <1>12, <2>1, <2>2, <2>3, <2>4, <2>5, <2>6
            DEF Request, OnChat, OnGroupChat, OnMultiChat
  <1>13. CASE UNCHANGED vars
    BY <1>1, <1>13 DEF vars
  <1> QED BY <1>10, <1>11, <1>12, <1>13 DEF Next

\* The SELECT of a login fetches rows younger than any it has written.
LEMMA FetchFifo ==
  ASSUME TypeOK, IdInv, OrderInv, OfflineFifo, NEW s \in Sessions, FetchOffline(s)
  PROVE  IdInv' /\ OrderInv' /\ OfflineFifo'
  <1>1. UNCHANGED <<offline, nextId, wire, undeleted>>
    BY DEF FetchOffline
  <1>2. /\ batch'[s] \subseteq offline
        /\ \A x \in Sessions \ {s} : batch'[x] = batch[x] /\ pc'[x] = pc[x]
        /\ pc'[s] = "push" => batch'[s] = {}
    BY DEF FetchOffline, RowsOf, TypeOK
  <1>3. IdInv'
    BY <1>1, <1>2 DEF IdInv
  <1>4. OrderInv'
    BY <1>1, <1>2 DEF OrderInv
  <1>5. OfflineFifo'
    BY <1>1 DEF OfflineFifo
  <1> QED BY <1>3, <1>4, <1>5

\* The INSERT's row is younger than any other.
LEMMA StoreFifo ==
  ASSUME TypeOK, IdInv, OrderInv, OfflineFifo, NEW s \in Sessions, AddChatMsgCache(s)
  PROVE  IdInv' /\ OrderInv' /\ OfflineFifo'
  <1>1. UNCHANGED <<batch, wire, undeleted>> /\ nextId \in Nat /\ nextId' = nextId + 1
    BY DEF AddChatMsgCache, TypeOK
  <1>2. PICK r : offline' = offline \cup {r} /\ r.id = nextId
    <2>1. PICK row : row = [id |-> nextId, usr |-> job[s].to, msg |-> job[s].msg]
      OBVIOUS
    <2>2. offline' = offline \cup {row} /\ row.id = nextId
      BY <2>1 DEF AddChatMsgCache
    <2> QED BY <2>2
  <1>3. \A x \in Sessions : pc'[x] = "push" => pc[x] = "push"
    BY DEF AddChatMsgCache, NextReceiver, TypeOK
  <1>4. /\ \A q \in offline : q.id \in Nat
        /\ \A x \in Sessions : \A q \in batch[x] : q.id \in Nat
        /\ \A x \in Sessions : \A i \in DOMAIN wire[x] : wire[x][i].id \in Nat
    BY DEF TypeOK, Row, Item
  <1>5. IdInv'
    BY <1>1, <1>2, <1>4 DEF IdInv
  <1>6. OrderInv'
    BY <1>1, <1>2, <1>3, <1>4 DEF OrderInv, IdInv
  <1>7. OfflineFifo'
    BY <1>1 DEF OfflineFifo
  <1> QED BY <1>5, <1>6, <1>7

\* The row a login writes next is younger than those it has written and older
\* than those still to come.
LEMMA PushFifo ==
  ASSUME TypeOK, IdInv, OrderInv, OfflineFifo, NEW s \in Sessions, PushOffline(s)
  PROVE  IdInv' /\ OrderInv' /\ OfflineFifo'
  <1>1. UNCHANGED <<offline, nextId, undeleted, pc>> /\ pc[s] = "push"
    BY DEF PushOffline
  <1>2. PICK r \in NextRow(s) :
          /\ wire' = [wire EXCEPT ![s] = Append(@, ChatItem(r.msg, r.usr, r.id))]
          /\ batch' = [batch EXCEPT ![s] = @ \ {r}]
    BY DEF PushOffline
  <1>3. r \in batch[s] /\ r \in Row /\ \A q \in batch[s] : r.id <= q.id
    BY <1>2 DEF NextRow, TypeOK
  <1>4. PICK x : x = ChatItem(r.msg, r.usr, r.id)
    OBVIOUS
  <1>5. x \in Item /\ x.id = r.id /\ x.usr = r.usr /\ r.id \in Nat
    BY <1>3, <1>4 DEF ChatItem, Item, Row
  <1>6. PICK n : n = Len(wire[s]) + 1
    OBVIOUS
  <1>7. wire[s] \in Seq(Item) /\ wire'[s] = Append(wire[s], x)
    BY <1>2, <1>4 DEF TypeOK
  <1>8. /\ n \in Nat /\ DOMAIN wire'[s] = DOMAIN wire[s] \cup {n}
        /\ wire'[s][n] = x
        /\ \A i \in DOMAIN wire[s] : i \in Nat /\ i < n /\ wire'[s][i] = wire[s][i]
    BY <1>5, <1>6, <1>7
  <1>9. \A y \in Sessions \ {s} : wire'[y] = wire[y] /\ batch'[y] = batch[y]
    BY <1>2 DEF TypeOK
  <1>10. batch'[s] = batch[s] \ {r}
    BY <1>2 DEF TypeOK
  <1>11. \A q \in batch[s] \ {r} : r.id < q.id
    <2>1. \A q \in batch[s] : q.id \in Nat
      BY DEF TypeOK, Row
    <2> QED BY <1>3, <1>5, <2>1 DEF IdInv
  <1>12. IdInv'
    BY <1>1, <1>3, <1>5, <1>8, <1>9, <1>10 DEF IdInv
  <1>13. OrderInv'
    <2> SUFFICES ASSUME ~ undeleted
        PROVE /\ \A y \in Sessions : pc[y] = "push" =>
                   \A a \in batch'[y], q \in offline : a.usr = q.usr => a.id < q.id
              /\ \A y \in Sessions : \A i \in DOMAIN wire'[y] : wire'[y][i].id > 0 =>
                   /\ \A q \in offline : q.usr = wire'[y][i].usr => wire'[y][i].id < q.id
                   /\ \A q \in batch'[y] : q.usr = wire'[y][i].usr => wire'[y][i].id < q.id
      BY <1>1 DEF OrderInv
    <2>1. \A y \in Sessions : pc[y] = "push" =>
            \A a \in batch'[y], q \in offline : a.usr = q.usr => a.id < q.id
      BY <1>9, <1>10 DEF OrderInv
    <2>2. ASSUME NEW y \in Sessions \ {s}, NEW i \in DOMAIN wire'[y], wire'[y][i].id > 0
          PROVE  /\ \A q \in offline : q.usr = wire'[y][i].usr => wire'[y][i].id < q.id
                 /\ \A q \in batch'[y] : q.usr = wire'[y][i].usr => wire'[y][i].id < q.id
      BY <1>9, <2>2 DEF OrderInv
    <2>3. ASSUME NEW i \in DOMAIN wire[s], wire'[s][i].id > 0
          PROVE  /\ \A q \in offline : q.usr = wire'[s][i].usr => wire'[s][i].id < q.id
                 /\ \A q \in batch'[s] : q.usr = wire'[s][i].usr => wire'[s][i].id < q.id
      BY <1>8, <1>10, <2>3 DEF OrderInv
    <2>4. /\ \A q \in offline : q.usr = wire'[s][n].usr => wire'[s][n].id < q.id
          /\ \A q \in batch'[s] : q.usr = wire'[s][n].usr => wire'[s][n].id < q.id
      BY <1>1, <1>3, <1>5, <1>8, <1>10, <1>11 DEF OrderInv
    <2> QED BY <1>8, <2>1, <2>2, <2>3, <2>4
  <1>14. OfflineFifo'
    <2> SUFFICES ASSUME NEW y \in Sessions, NEW i \in DOMAIN wire'[y], NEW j \in DOMAIN wire'[y],
                        i < j, wire'[y][i].id > 0, wire'[y][j].id > 0,
                        wire'[y][i].usr = wire'[y][j].usr, ~ undeleted
                 PROVE  wire'[y][i].id < wire'[y][j].id
      BY <1>1 DEF OfflineFifo
    <2>1. CASE y # s
      BY <1>9, <2>1 DEF OfflineFifo
    <2>2. CASE y = s /\ j \in DOMAIN wire[s]
      <3>1. i # n
        BY <1>8, <2>2
      <3> QED BY <1>8, <2>2, <3>1 DEF OfflineFifo
    <2>3. CASE y = s /\ j = n
      <3>1. i \in DOMAIN wire[s]
        BY <1>8, <2>3
      <3>2. wire[s][i].id > 0 /\ wire[s][i].usr = r.usr
        BY <1>5, <1>8, <2>3, <3>1
      <3>3. wire[s][i].id < r.id
        BY <1>3, <3>1, <3>2 DEF OrderInv
      <3> QED BY <1>5, <1>8, <2>3, <3>1, <3>3
    <2> QED BY <1>8, <2>1, <2>2, <2>3
  <1> QED BY <1>12, <1>13, <1>14

\* Every step keeps the order.
LEMMA FifoStep ==
  ASSUME TypeInv, LockInv, FetchInv, FifoInv, [Next]_vars PROVE FifoInv'
  <1>1. TypeOK /\ LiveInv /\ IdInv /\ OrderInv /\ OfflineFifo
    BY DEF TypeInv, FifoInv
  <1>2. TypeOK'
    BY TypeStep DEF TypeInv
  <1>3. LiveInv'
    BY <1>1, LiveStep
  <1>4. IdInv' /\ OrderInv' /\ OfflineFifo'
    BY <1>1, <1>2, SettlesOr, SettlesFifo, FetchFifo, StoreFifo, PushFifo
  <1> QED BY <1>3, <1>4 DEF FifoInv

\* A connection gets the offline messages of a receiver in the order in which
\* they were stored, over several logins too, unless a DELETE has failed.
THEOREM OfflineInOrder == Spec => []OfflineFifo
  <1> DEFINE Ind == TypeInv /\ LockInv /\ FetchInv /\ FifoInv
  <1>1. Init => Ind
    <2> SUFFICES ASSUME Init PROVE Ind
      OBVIOUS
    <2>1. LiveInv /\ IdInv /\ OrderInv /\ OfflineFifo
      BY DEF Init, LiveInv, IdInv, OrderInv, OfflineFifo
    <2> QED BY <2>1, TypeInit, OnceInit DEF Init, LockInv, FifoInv
  <1>2. Ind /\ [Next]_vars => Ind'
    BY TypeStep, LockStep, FetchStep, FifoStep
  <1>3. Ind => OfflineFifo
    BY DEF FifoInv
  <1> QED BY <1>1, <1>2, <1>3, PTL DEF Spec

-----------------------------------------------------------------------------
(* Presence *)

\* The login t runs will still tell connection s, on which user a is logged in.
ToTell(t, a, s) ==
  \/ pc[t] \in {"select", "delete", "push"}
  \/ pc[t] \in {"announce", "tell"} /\ a \in job[t].todo
  \/ pc[t] = "tell" /\ job[t].to = a /\ job[t].via = s

\* The client on s knows that b is online, or the news is on its way to it.
Told(s, b) ==
  \/ b \in seen[s]
  \/ IsQueued(s, UpItem(b))
  \/ \E t \in Sessions : user[t] = b /\ ToTell(t, user[s], s)

\* What a session that fetched its list, or finished its login, is.
SessionInv ==
  /\ \A s \in Sessions : user[s] # NoUser => <<s, user[s]>> \in Logins
  /\ \A s \in synced : s \in mapclient /\ user[s] \in Users
  /\ \A t \in ready : /\ user[t] \in Users /\ status[user[t]] = 1
                      /\ pc[t] \in {"idle", "route", "send", "store"}
  /\ \A t \in Sessions : pc[t] \in {"select", "delete", "push", "announce", "tell"}
                           => status[user[t]] = 1

\* The client on s has asked for its list, and b is a friend online.
Due(s, b) ==
  /\ s \in synced /\ OneDevice(user[s])
  /\ b \in Friends[user[s]] /\ OneDevice(b) /\ status[b] = 1

ToldInv == ~ raced => \A s \in Sessions, b \in Users : Due(s, b) => Told(s, b)

\* A lookup changes the handler's own locals only.
LEMMA LookUpJob ==
  ASSUME TypeOK, NEW s \in Sessions, NEW u \in Users, NEW found, LookUp(s, u, found)
  PROVE  /\ \A t \in Sessions \ {s} : pc'[t] = pc[t] /\ job'[t] = job[t]
         /\ job'[s] = AJob(job[s].msg, job[s].todo \ {u}, u, found)
         /\ pc[s] = "route" => pc'[s] \in {"send", "store"}
         /\ pc[s] = "announce" => pc'[s] = "tell"
         /\ pc[s] \in {"route", "announce"}
  BY DEF LookUp, RouteTo, AnnounceTo, TypeOK

\* What is known of sessions is kept by every step.
LEMMA SessionStep ==
  ASSUME TypeInv, SessionInv, [Next]_vars PROVE SessionInv'
  <1>0. TypeOK /\ HandlerInv
    BY DEF TypeInv
  <1> USE <1>0
  <1>1. ASSUME NEW s \in Sessions, OnConnection(s) PROVE SessionInv'
    BY <1>1 DEF OnConnection, SessionInv
  <1>2. ASSUME NEW s \in Sessions, Disconnect(s), status' = status,
               \A t \in Sessions \ {s} : \/ pc'[t] = pc[t]
                                         \/ pc[t] = "route" /\ pc'[t] \in {"send", "store"}
                                         \/ pc[t] = "announce" /\ pc'[t] = "tell",
               pc'[s] = pc[s]
        PROVE  SessionInv'
    BY <1>2 DEF Disconnect, SessionInv, TypeOK
  <1>3. ASSUME NEW s \in Sessions, OnClose(s) PROVE SessionInv'
    BY <1>2, <1>3 DEF OnClose
  <1>4. ASSUME NEW s \in Sessions, NEW t \in Sessions, NEW u \in Users, OnCloseDuringLookup(s, t, u)
        PROVE  SessionInv'
    <2>1. PICK found : LookUp(t, u, found)
      BY <1>4 DEF OnCloseDuringLookup
    <2>2. /\ \A x \in Sessions \ {t} : pc'[x] = pc[x]
          /\ pc[t] = "route" => pc'[t] \in {"send", "store"}
          /\ pc[t] = "announce" => pc'[t] = "tell"
          /\ pc[t] \in {"route", "announce"}
      BY <2>1, LookUpJob
    <2> QED BY <1>2, <1>4, <2>2 DEF OnCloseDuringLookup
  <1>5. ASSUME NEW s \in Sessions, NEW u \in Users, Login(s, u) PROVE SessionInv'
    BY <1>5, ConstantsAssumption DEF Login, SessionInv, TypeOK
  <1>6. ASSUME NEW s \in Sessions, LoginAccepted(s) PROVE SessionInv'
    <2>1. user[s] \in Users
      BY <1>6 DEF LoginAccepted, HandlerInv, HandlerOK
    <2> QED BY <1>6, <2>1 DEF LoginAccepted, SessionInv, TypeOK
  <1>7. ASSUME UNCHANGED <<mapclient, user, status, synced, ready>>,
               NEW s \in Sessions, \A t \in Sessions \ {s} : pc'[t] = pc[t],
               \/ pc'[s] = pc[s]
               \/ pc'[s] = "idle"
               \/ pc[s] \in {"route", "send", "store"} /\ pc'[s] \in {"route", "send", "store"}
               \/ /\ pc[s] \in {"select", "delete", "push", "announce", "tell"}
                  /\ pc'[s] \in {"select", "delete", "push", "announce", "tell"}
               \/ pc[s] = "idle" /\ pc'[s] = "route"
        PROVE  SessionInv'
    BY <1>7 DEF SessionInv, TypeOK
  <1>8. ASSUME NEW s \in Sessions, LoginDone(s) PROVE SessionInv'
    <2>1. user[s] \in Users
      BY <1>8 DEF LoginDone, HandlerInv, HandlerOK
    <2> QED BY <1>8, <2>1 DEF LoginDone, SessionInv, TypeOK
  <1>9. ASSUME NEW s \in Sessions, OnGetFriendList(s) PROVE SessionInv'
    BY <1>9 DEF OnGetFriendList, SessionInv, TypeOK
  <1>10. ASSUME NEW s \in Sessions, NEW u \in Users, Route(s, u) PROVE SessionInv'
    <2>1. PICK found : LookUp(s, u, found)
      BY <1>10 DEF Route
    <2> QED BY <1>7, <1>10, <2>1, LookUpJob DEF Route
  <1>11. ASSUME Crash PROVE SessionInv'
    BY <1>11 DEF Crash, SessionInv
  <1>12. ASSUME NEW s \in Sessions, NEW m, NEW R, Accept(s, m, R) PROVE SessionInv'
    BY <1>7, <1>12 DEF Accept, TypeOK
  <1>13. ASSUME NEW s \in Sessions,
                \/ LoginRejected(s) \/ FetchOffline(s) \/ FetchFails(s) \/ DeleteOffline(s)
                \/ DeleteFails(s) \/ PushOffline(s) \/ StartAnnounce(s) \/ Tell(s)
         PROVE  SessionInv'
    BY <1>7, <1>13
       DEF LoginRejected, FetchOffline, FetchFails, DeleteOffline, DeleteFails, PushOffline,
           StartAnnounce, Tell, TypeOK
  <1>14. ASSUME NEW s \in Sessions,
                \/ SendContainer(s) \/ AddChatMsgCache(s) \/ InsertFails(s) \/ ChatDone(s)
                \/ SendInLoop(s)
         PROVE  SessionInv'
    BY <1>7, <1>14
       DEF SendContainer, AddChatMsgCache, InsertFails, ChatDone, SendInLoop, NextReceiver, TypeOK
  <1>15. ASSUME NEW s \in Sessions, Request(s) PROVE SessionInv'
    BY <1>1, <1>3, <1>4, <1>5, <1>9, <1>12, <1>15
       DEF Request, OnChat, OnGroupChat, OnMultiChat
  <1>16. ASSUME NEW s \in Sessions, Proceed(s) PROVE SessionInv'
    BY <1>6, <1>8, <1>10, <1>13, <1>14, <1>16 DEF Proceed
  <1>17. CASE UNCHANGED vars
    BY <1>17 DEF vars, SessionInv
  <1> QED BY <1>11, <1>15, <1>16, <1>17 DEF Next

\* A user on one device is logged in on one connection at most.
LEMMA OneSession ==
  ASSUME TypeOK, SessionInv, NEW u \in Users, OneDevice(u),
         NEW s \in Sessions, NEW t \in Sessions, user[s] = u, user[t] = u
  PROVE  s = t
  <1>1. PICK x \in Sessions : {y \in Sessions : <<y, u>> \in Logins} = {x}
    BY DEF OneDevice
  <1>2. <<s, u>> \in Logins /\ <<t, u>> \in Logins
    BY ConstantsAssumption DEF SessionInv
  <1>3. s \in {x} /\ t \in {x}
    BY <1>1, <1>2
  <1> QED BY <1>3

\* A notification in a queue stays there when another send is queued, and is
\* taken out only to be written.
LEMMA IsQueuedAppend ==
  ASSUME TypeOK, NEW s \in Sessions, NEW t \in Sessions, NEW x \in Item, NEW y \in Item,
         inbox' = [inbox EXCEPT ![t] = Append(@, y)]
  PROVE  IsQueued(s, x) => \E i \in DOMAIN inbox'[s] : inbox'[s][i] = x
  <1>1. inbox[t] \in Seq(Item)
    BY DEF TypeOK
  <1>2. \A i \in DOMAIN inbox[t] : /\ i \in DOMAIN Append(inbox[t], y)
                                   /\ Append(inbox[t], y)[i] = inbox[t][i]
    BY <1>1
  <1> QED BY <1>2 DEF IsQueued, TypeOK

\* The send that is queued is in the queue.
LEMMA QueuedAppended ==
  ASSUME TypeOK, NEW t \in Sessions, NEW y \in Item,
         inbox' = [inbox EXCEPT ![t] = Append(@, y)]
  PROVE  \E i \in DOMAIN inbox'[t] : inbox'[t][i] = y
  <1>1. inbox[t] \in Seq(Item) /\ inbox'[t] = Append(inbox[t], y)
    BY DEF TypeOK
  <1>2. /\ Len(inbox[t]) + 1 \in DOMAIN Append(inbox[t], y)
        /\ Append(inbox[t], y)[Len(inbox[t]) + 1] = y
    BY <1>1
  <1> QED BY <1>1, <1>2

\* The same when the first send of a queue is made.
LEMMA IsQueuedTail ==
  ASSUME NEW q \in Seq(Item), q # <<>>, NEW i \in DOMAIN q
  PROVE  q[i] = Head(q) \/ \E j \in DOMAIN Tail(q) : Tail(q)[j] = q[i]
  <1>1. CASE i = 1
    BY <1>1
  <1>2. CASE i # 1
    <2>1. i - 1 \in DOMAIN Tail(q) /\ Tail(q)[i - 1] = q[i]
      BY <1>2
    <2> QED BY <2>1
  <1> QED BY <1>1, <1>2

\* How what a client is told survives a step.
LEMMA ToldKept ==
  ASSUME NEW s \in Sessions, NEW b \in Users, Told(s, b),
         b \in seen[s] => b \in seen'[s],
         IsQueued(s, UpItem(b)) => IsQueued(s, UpItem(b))' \/ b \in seen'[s],
         \A t \in Sessions : user[t] = b /\ ToTell(t, user[s], s) => Told(s, b)'
  PROVE  Told(s, b)'
  BY DEF Told

\* A step that logs nobody in or out and takes no notification away.
LEMMA ToldSame ==
  ASSUME ToldInv, UNCHANGED <<user, status, synced, raced>>,
         NEW s \in Sessions, NEW b \in Users, ~ raced', Due(s, b)',
         b \in seen[s] => b \in seen'[s],
         IsQueued(s, UpItem(b)) => IsQueued(s, UpItem(b))' \/ b \in seen'[s],
         \A t \in Sessions : user[t] = b /\ ToTell(t, user[s], s) => Told(s, b)'
  PROVE  Told(s, b)'
  <1>1. Due(s, b)
    BY DEF Due
  <1>2. Told(s, b)
    BY <1>1 DEF ToldInv
  <1> QED BY <1>2, ToldKept

\* A handler that is not in a login tells nobody.
LEMMA NotTelling ==
  ASSUME NEW t, pc[t] \notin {"select", "delete", "push", "announce", "tell"}
  PROVE  \A a, s : ~ ToTell(t, a, s)
  BY DEF ToTell

\* A login that is not the one taking the step goes on telling.
LEMMA OthersTell ==
  ASSUME NEW t \in Sessions, NEW s \in Sessions, NEW b \in Users, user' = user,
         pc'[t] = pc[t], job'[t] = job[t], user[t] = b, ToTell(t, user[s], s)
  PROVE  Told(s, b)'
  BY DEF Told, ToTell

\* The step of a handler that is not in a login.
LEMMA ToldChat ==
  ASSUME TypeOK, ToldInv, UNCHANGED <<user, status, synced, raced, seen>>,
         NEW x \in Sessions, pc[x] \notin {"select", "delete", "push", "announce", "tell"},
         \A t \in Sessions \ {x} : pc'[t] = pc[t] /\ job'[t] = job[t],
         NEW s \in Sessions, NEW b \in Users, ~ raced', Due(s, b)',
         IsQueued(s, UpItem(b)) => IsQueued(s, UpItem(b))'
  PROVE  Told(s, b)'
  <1>1. ASSUME NEW t \in Sessions, user[t] = b, ToTell(t, user[s], s) PROVE Told(s, b)'
    <2>1. t # x
      BY <1>1, NotTelling
    <2> QED BY <1>1, <2>1, OthersTell
  <1> QED BY <1>1, ToldSame

\* A connection that closes, or on which another login begins, was idle.
LEMMA ToldLeft ==
  ASSUME TypeOK, ToldInv, NEW x \in Sessions, pc[x] = "idle", raced' = raced, status' = status,
         synced' = synced \ {x}, job' = job,
         \A t \in Sessions \ {x} : /\ user'[t] = user[t] /\ seen'[t] = seen[t]
                                   /\ inbox'[t] = inbox[t] /\ pc'[t] = pc[t],
         NEW s \in Sessions, NEW b \in Users, ~ raced', Due(s, b)'
  PROVE  Told(s, b)'
  <1>1. s # x
    BY DEF Due
  <1>2. Due(s, b)
    BY <1>1 DEF Due
  <1>3. Told(s, b)
    BY <1>2 DEF ToldInv
  <1>4. ASSUME NEW t \in Sessions, user[t] = b, ToTell(t, user[s], s) PROVE Told(s, b)'
    <2>1. t # x
      BY <1>4, NotTelling
    <2>2. user'[t] = b /\ user'[s] = user[s] /\ pc'[t] = pc[t] /\ job'[t] = job[t]
      BY <1>1, <1>4, <2>1
    <2> QED BY <1>4, <2>2 DEF Told, ToTell
  <1>5. IsQueued(s, UpItem(b)) => IsQueued(s, UpItem(b))'
    BY <1>1 DEF IsQueued, UpItem
  <1> QED BY <1>1, <1>3, <1>4, <1>5, ToldKept

\* A friend is looked up and found on its only connection.
LEMMA ToldRoute ==
  ASSUME TypeInv, SessionInv, ToldInv, NEW x \in Sessions, NEW u \in Users, Route(x, u),
         NEW s \in Sessions, NEW b \in Users, ~ raced', Due(s, b)'
  PROVE  Told(s, b)'
  <1>0. TypeOK
    BY DEF TypeInv
  <1>1. PICK found \in GetSessionByID(u) : LookUp(x, u, found)
    BY DEF Route
  <1>2. UNCHANGED <<user, mapclient, status, synced, raced, seen, inbox>>
    BY DEF Route
  <1>3. ASSUME NEW t \in Sessions, user[t] = b, ToTell(t, user[s], s) PROVE Told(s, b)'
    <2>1. CASE t # x
      BY <1>0, <1>1, <1>2, <1>3, <2>1, LookUpJob, OthersTell
    <2>2. CASE t = x
      <3>1. pc[x] = "announce" /\ pc'[x] = "tell"
        BY <1>0, <1>1, <1>3, <2>2, LookUpJob, NotTelling
      <3>2. job'[x] = AJob(job[x].msg, job[x].todo \ {u}, u, found)
        BY <1>0, <1>1, LookUpJob
      <3>3. user[s] \in job[x].todo
        BY <1>3, <2>2, <3>1 DEF ToTell
      <3>4. CASE u # user[s]
        <4>1. user[s] \in job'[x].todo
          BY <3>2, <3>3, <3>4 DEF AJob
        <4> QED BY <1>2, <1>3, <2>2, <3>1, <4>1 DEF Told, ToTell
      <3>5. CASE u = user[s]
        <4>1. s \in mapclient /\ OneDevice(u)
          BY <1>2, <3>5 DEF Due, SessionInv, OneDevice
        <4>2. \A y \in SessionsOf(u) : y = s
          BY <1>0, <3>5, <4>1, OneSession DEF SessionsOf, TypeOK
        <4>3. s \in SessionsOf(u)
          BY <3>5, <4>1 DEF SessionsOf
        <4>4. found = s
          BY <1>1, <4>2, <4>3 DEF GetSessionByID
        <4>5. job'[x].to = user[s] /\ job'[x].via = s
          BY <3>2, <3>5, <4>4 DEF AJob
        <4> QED BY <1>2, <1>3, <2>2, <3>1, <4>5 DEF Told, ToTell
      <3> QED BY <3>4, <3>5
    <2> QED BY <2>1, <2>2
  <1>4. IsQueued(s, UpItem(b))' <=> IsQueued(s, UpItem(b))
    BY <1>2 DEF IsQueued
  <1> QED BY <1>2, <1>3, <1>4, ToldSame

\* The friend that was found is told.
LEMMA ToldTell ==
  ASSUME TypeInv, SessionInv, ToldInv, NEW x \in Sessions, Tell(x),
         NEW s \in Sessions, NEW b \in Users, ~ raced', Due(s, b)'
  PROVE  Told(s, b)'
  <1>0. TypeOK /\ HandlerInv
    BY DEF TypeInv
  <1>1. /\ UNCHANGED <<user, mapclient, status, synced, raced>> /\ pc[x] = "tell"
        /\ user[x] \in Users /\ job[x].via \in Sessions \cup {NoSession}
    BY <1>0 DEF Tell, HandlerInv, HandlerOK, TypeOK, Job
  <1>2. PICK item : item = UpItem(user[x])
    OBVIOUS
  <1>3. item \in Item /\ UpItem(b) \in Item
    BY <1>1, <1>2 DEF UpItem, Item
  <1>4. /\ job[x].via = x => seen' = [seen EXCEPT ![x] = @ \cup {user[x]}] /\ inbox' = inbox
        /\ job[x].via # x =>
             /\ seen' = seen
             /\ \/ inbox' = inbox /\ IsQueued(job[x].via, item)
                \/ inbox' = inbox /\ job[x].via \notin mapclient
                \/ /\ job[x].via \in mapclient
                   /\ inbox' = [inbox EXCEPT ![job[x].via] = Append(@, item)]
    BY <1>2 DEF Tell, Queue
  <1>5. /\ \A t \in Sessions \ {x} : pc'[t] = pc[t] /\ job'[t] = job[t]
        /\ pc'[x] = "announce" /\ job'[x].todo = job[x].todo
    BY <1>0 DEF Tell, TypeOK, AJob
  <1>6. b \in seen[s] => b \in seen'[s]
    BY <1>0, <1>4 DEF TypeOK
  <1>7. IsQueued(s, UpItem(b)) => IsQueued(s, UpItem(b))'
    <2>1. CASE inbox' = inbox
      BY <2>1 DEF IsQueued, UpItem
    <2>2. CASE /\ job[x].via \in mapclient
               /\ inbox' = [inbox EXCEPT ![job[x].via] = Append(@, item)]
      <3>1. job[x].via \in Sessions
        BY <1>0, <2>2 DEF TypeOK
      <3> QED BY <1>0, <1>3, <2>2, <3>1, IsQueuedAppend, SMTT(30) DEF IsQueued
    <2> QED BY <1>4, <2>1, <2>2
  <1>8. ASSUME NEW t \in Sessions, user[t] = b, ToTell(t, user[s], s) PROVE Told(s, b)'
    <2>1. CASE t # x
      BY <1>1, <1>5, <1>8, <2>1, OthersTell
    <2>2. CASE t = x /\ user[s] \in job[x].todo
      <3>1. ToTell(x, user[s], s)'
        BY <1>1, <1>5, <2>2 DEF ToTell
      <3> QED BY <1>1, <1>8, <2>2, <3>1 DEF Told
    <2>3. CASE t = x /\ user[s] \notin job[x].todo
      <3>1. job[x].via = s /\ s \in mapclient /\ item = UpItem(b)
        BY <1>1, <1>2, <1>8, <2>3 DEF ToTell, Due, SessionInv
      <3>2. CASE x = s
        <4>1. b \in seen'[s]
          BY <1>0, <1>4, <1>8, <2>3, <3>1, <3>2 DEF TypeOK
        <4> QED BY <4>1 DEF Told
      <3>3. CASE IsQueued(s, UpItem(b))
        BY <1>7, <3>3 DEF Told
      <3>4. CASE x # s /\ inbox' = [inbox EXCEPT ![s] = Append(@, item)]
        <4>1. IsQueued(s, UpItem(b))'
          <5>1. \E i \in DOMAIN inbox'[s] : inbox'[s][i] = item
            BY <1>0, <1>3, <3>4, QueuedAppended
          <5>2. \E i \in DOMAIN inbox'[s] : inbox'[s][i] = UpItem(b)
            BY <3>1, <5>1
          <5> QED BY <5>2 DEF IsQueued
        <4> QED BY <4>1 DEF Told
      <3> QED BY <1>4, <3>1, <3>2, <3>3, <3>4
    <2> QED BY <2>1, <2>2, <2>3
  <1> QED BY <1>1, <1>6, <1>7, <1>8, ToldSame

\* A queued notification is written.
LEMMA ToldLoop ==
  ASSUME TypeOK, ToldInv, NEW x \in Sessions, SendInLoop(x),
         NEW s \in Sessions, NEW b \in Users, ~ raced', Due(s, b)'
  PROVE  Told(s, b)'
  <1>1. UNCHANGED <<user, status, synced, raced, pc, job>>
    BY DEF SendInLoop
  <1>2. inbox[x] \in Seq(Item) /\ inbox[x] # <<>>
    BY DEF TypeOK, SendInLoop
  <1>3. PICK h : h = Head(inbox[x])
    OBVIOUS
  <1>4. /\ inbox' = [inbox EXCEPT ![x] = Tail(@)]
        /\ seen' = IF h.kind = "up" THEN [seen EXCEPT ![x] = @ \cup {h.usr}] ELSE seen
    BY <1>3 DEF SendInLoop
  <1>5. b \in seen[s] => b \in seen'[s]
    BY <1>4 DEF TypeOK
  <1>6. IsQueued(s, UpItem(b)) => IsQueued(s, UpItem(b))' \/ b \in seen'[s]
    <2>1. CASE s # x
      BY <1>4, <2>1 DEF IsQueued, UpItem, TypeOK
    <2>2. CASE s = x
      <3> SUFFICES ASSUME NEW i \in DOMAIN inbox[x], inbox[x][i] = UpItem(b)
                   PROVE  IsQueued(x, UpItem(b))' \/ b \in seen'[x]
        BY <2>2 DEF IsQueued
      <3>1. CASE h = UpItem(b)
        BY <1>4, <3>1 DEF UpItem, TypeOK
      <3>2. CASE \E j \in DOMAIN Tail(inbox[x]) : Tail(inbox[x])[j] = UpItem(b)
        BY <1>4, <3>2 DEF IsQueued, UpItem, TypeOK
      <3> QED BY <1>2, <1>3, <3>1, <3>2, IsQueuedTail
    <2> QED BY <2>1, <2>2
  <1>7. ASSUME NEW t \in Sessions, user[t] = b, ToTell(t, user[s], s) PROVE Told(s, b)'
    BY <1>1, <1>7, OthersTell
  <1> QED BY <1>1, <1>5, <1>6, <1>7, ToldSame

\* The steps of a login before it looks up its friends, and its last one.
LEMMA ToldLogin ==
  ASSUME TypeInv, SessionInv, ToldInv, NEW x \in Sessions,
         \/ FetchOffline(x) \/ FetchFails(x) \/ DeleteOffline(x) \/ DeleteFails(x)
         \/ PushOffline(x) \/ StartAnnounce(x) \/ LoginDone(x),
         NEW s \in Sessions, NEW b \in Users, ~ raced', Due(s, b)'
  PROVE  Told(s, b)'
  <1>0. TypeOK /\ HandlerInv
    BY DEF TypeInv
  <1>1. UNCHANGED <<user, status, synced, raced, seen, inbox>>
    BY DEF FetchOffline, FetchFails, DeleteOffline, DeleteFails, PushOffline, StartAnnounce,
           LoginDone
  <1>2. \A t \in Sessions \ {x} : pc'[t] = pc[t] /\ job'[t] = job[t]
    BY <1>0 DEF FetchOffline, FetchFails, DeleteOffline, DeleteFails, PushOffline, StartAnnounce,
           LoginDone, TypeOK
  <1>3. ASSUME user[x] = b, ToTell(x, user[s], s) PROVE ToTell(x, user[s], s)'
    <2>1. CASE FetchOffline(x) \/ FetchFails(x) \/ DeleteOffline(x) \/ DeleteFails(x)
               \/ PushOffline(x)
      <3>1. pc'[x] \in {"select", "delete", "push"}
        BY <1>0, <2>1 DEF FetchOffline, FetchFails, DeleteOffline, DeleteFails, PushOffline, TypeOK
      <3> QED BY <3>1 DEF ToTell
    <2>2. CASE StartAnnounce(x)
      <3>1. pc'[x] = "announce" /\ job'[x].todo = Friends[b]
        BY <1>0, <1>3, <2>2 DEF StartAnnounce, TypeOK, AJob
      <3>2. user[s] \in Users
        BY <1>1 DEF Due, SessionInv
      <3>3. user[s] \in Friends[b]
        BY <1>1, <3>2, FriendsAssumption DEF Due
      <3> QED BY <1>1, <3>1, <3>3 DEF ToTell
    <2>3. CASE LoginDone(x)
      BY <1>3, <2>3 DEF LoginDone, ToTell
    <2> QED BY <2>1, <2>2, <2>3
  <1>4. ASSUME NEW t \in Sessions, user[t] = b, ToTell(t, user[s], s) PROVE Told(s, b)'
    <2>1. CASE t # x
      BY <1>1, <1>2, <1>4, <2>1, OthersTell
    <2>2. CASE t = x
      BY <1>1, <1>3, <1>4, <2>2 DEF Told
    <2> QED BY <2>1, <2>2
  <1>5. IsQueued(s, UpItem(b))' <=> IsQueued(s, UpItem(b))
    BY <1>1 DEF IsQueued
  <1> QED BY <1>1, <1>4, <1>5, ToldSame

\* The news that a friend is online is never dropped.
LEMMA ToldStep ==
  ASSUME TypeInv, SessionInv, ToldInv, [Next]_vars PROVE ToldInv'
  <1>0. TypeOK /\ HandlerInv
    BY DEF TypeInv
  <1> SUFFICES ASSUME ~ raced', NEW s \in Sessions, NEW b \in Users, Due(s, b)'
               PROVE  Told(s, b)'
    BY DEF ToldInv
  <1>1. ASSUME NEW x \in Sessions, OnConnection(x) PROVE Told(s, b)'
    <2>1. UNCHANGED <<user, status, synced, raced, seen, inbox, pc, job>>
      BY <1>1 DEF OnConnection
    <2>2. IsQueued(s, UpItem(b))' <=> IsQueued(s, UpItem(b))
      BY <2>1 DEF IsQueued
    <2> QED BY <2>1, <2>2, ToldSame, OthersTell
  <1>2. ASSUME NEW x \in Sessions, OnClose(x) PROVE Told(s, b)'
    BY <1>0, <1>2, ToldLeft DEF OnClose, Disconnect, TypeOK
  <1>3. ASSUME NEW x \in Sessions, NEW u \in Users, Login(x, u) PROVE Told(s, b)'
    BY <1>0, <1>3, ToldLeft DEF Login, TypeOK
  <1>4. ASSUME NEW x \in Sessions, LoginAccepted(x) PROVE Told(s, b)'
    <2>1. /\ UNCHANGED <<user, synced, raced, seen, inbox, job>>
          /\ pc[x] = "verify" /\ pc'[x] = "select"
          /\ \A t \in Sessions \ {x} : pc'[t] = pc[t]
          /\ \A u \in Users \ {user[x]} : status'[u] = status[u]
      BY <1>0, <1>4 DEF LoginAccepted, TypeOK
    <2>2. CASE user[x] = b
      BY <2>1, <2>2 DEF Told, ToTell
    <2>3. CASE user[x] # b
      <3>1. Due(s, b)
        BY <2>1, <2>3 DEF Due
      <3>2. Told(s, b)
        BY <2>1, <3>1 DEF ToldInv
      <3>3. ASSUME NEW t \in Sessions, user[t] = b, ToTell(t, user[s], s) PROVE Told(s, b)'
        BY <2>1, <2>3, <3>3, OthersTell
      <3>4. IsQueued(s, UpItem(b))' <=> IsQueued(s, UpItem(b))
        BY <2>1 DEF IsQueued
      <3> QED BY <2>1, <3>2, <3>3, <3>4, ToldKept
    <2> QED BY <2>2, <2>3
  <1>5. ASSUME NEW x \in Sessions, OnGetFriendList(x) PROVE Told(s, b)'
    <2>1. /\ UNCHANGED <<user, status, raced, inbox, pc, job>>
          /\ \A t \in Sessions \ {x} : seen'[t] = seen[t]
          /\ \A t \in Sessions \ {x} : t \in synced' => t \in synced
      BY <1>0, <1>5 DEF OnGetFriendList, TypeOK
    <2>2. CASE s = x
      <3>1. seen'[s] = {f \in Friends[user[s]] : status[f] = 1}
        BY <1>0, <1>5, <2>2 DEF OnGetFriendList, TypeOK
      <3>2. b \in seen'[s]
        BY <2>1, <3>1 DEF Due
      <3> QED BY <3>2 DEF Told
    <2>3. CASE s # x
      <3>1. Due(s, b)
        BY <2>1, <2>3 DEF Due
      <3>2. Told(s, b)
        BY <2>1, <3>1 DEF ToldInv
      <3>3. IsQueued(s, UpItem(b))' <=> IsQueued(s, UpItem(b))
        BY <2>1 DEF IsQueued
      <3> QED BY <2>1, <2>3, <3>2, <3>3, ToldKept, OthersTell
    <2> QED BY <2>2, <2>3
  <1>6. ASSUME NEW x \in Sessions, NEW m, NEW R, Accept(x, m, R) PROVE Told(s, b)'
    <2>1. IsQueued(s, UpItem(b))' <=> IsQueued(s, UpItem(b))
      BY <1>6 DEF IsQueued, Accept
    <2> QED BY <1>0, <1>6, <2>1, ToldChat DEF Accept, TypeOK
  <1>7. ASSUME NEW x \in Sessions, SendContainer(x) PROVE Told(s, b)'
    <2>1. PICK item : item = ChatItem(job[x].msg, job[x].to, 0)
      OBVIOUS
    <2>2. item \in Item /\ UpItem(b) \in Item
      BY <1>0, <1>7, <2>1 DEF SendContainer, HandlerInv, HandlerOK, ChatItem, UpItem, Item
    <2>3. \/ inbox' = inbox
          \/ job[x].via \in Sessions /\ inbox' = [inbox EXCEPT ![job[x].via] = Append(@, item)]
      BY <1>0, <1>7, <2>1 DEF SendContainer, Queue, TypeOK
    <2>4. CASE inbox' = inbox
      <3>1. IsQueued(s, UpItem(b))' <=> IsQueued(s, UpItem(b))
        BY <2>4 DEF IsQueued, UpItem
      <3> QED BY <1>0, <1>7, <3>1, ToldChat DEF SendContainer, NextReceiver, TypeOK
    <2>5. CASE job[x].via \in Sessions /\ inbox' = [inbox EXCEPT ![job[x].via] = Append(@, item)]
      <3>1. IsQueued(s, UpItem(b)) => IsQueued(s, UpItem(b))'
        BY <1>0, <2>2, <2>5, IsQueuedAppend, SMTT(30) DEF IsQueued
      <3> QED BY <1>0, <1>7, <3>1, ToldChat DEF SendContainer, NextReceiver, TypeOK
    <2> QED BY <2>3, <2>4, <2>5
  <1>8. ASSUME NEW x \in Sessions,
               LoginRejected(x) \/ AddChatMsgCache(x) \/ InsertFails(x) \/ ChatDone(x)
        PROVE  Told(s, b)'
    <2>1. IsQueued(s, UpItem(b))' <=> IsQueued(s, UpItem(b))
      BY <1>8 DEF IsQueued, LoginRejected, AddChatMsgCache, InsertFails, ChatDone
    <2> QED BY <1>0, <1>8, <2>1, ToldChat
            DEF LoginRejected, AddChatMsgCache, InsertFails, ChatDone, NextReceiver, TypeOK
  <1>9. CASE Crash
    BY <1>9 DEF Crash, Due
  <1>10. CASE UNCHANGED vars
    <2>1. IsQueued(s, UpItem(b))' <=> IsQueued(s, UpItem(b))
      BY <1>10 DEF IsQueued, vars
    <2> QED BY <1>10, <2>1, ToldSame, OthersTell DEF vars
  <1>11. ASSUME NEW x \in Sessions, Request(x) PROVE Told(s, b)'
    BY <1>1, <1>2, <1>3, <1>5, <1>6, <1>11
       DEF Request, OnCloseDuringLookup, OnChat, OnGroupChat, OnMultiChat
  <1>12. ASSUME NEW x \in Sessions, Proceed(x) PROVE Told(s, b)'
    BY <1>0, <1>4, <1>7, <1>8, <1>12, ToldLogin, ToldRoute, ToldTell, ToldLoop DEF Proceed
  <1> QED BY <1>9, <1>10, <1>11, <1>12 DEF Next

\* A client that fetched its friend list knows of every friend whose login has
\* run to its end, in whatever order the steps of the two came.
THEOREM PresenceNeverMissed == Spec => []PresenceKnown
  <1> DEFINE Ind == TypeInv /\ SessionInv /\ ToldInv
  <1>1. Init => Ind
    <2> SUFFICES ASSUME Init PROVE SessionInv /\ ToldInv
      BY TypeInit
    <2> QED BY DEF Init, SessionInv, ToldInv, Due
  <1>2. Ind /\ [Next]_vars => Ind'
    BY TypeStep, SessionStep, ToldStep
  <1>3. Ind => PresenceKnown
    <2> SUFFICES ASSUME TypeInv, SessionInv, ToldInv, NEW s \in synced, NEW t \in ready, ~ raced,
                        inbox[s] = <<>>, OneDevice(user[s]), OneDevice(user[t]),
                        user[t] \in Friends[user[s]]
                 PROVE  user[t] \in seen[s]
      BY DEF PresenceKnown
    <2>1. s \in Sessions /\ t \in Sessions /\ user[t] \in Users /\ TypeOK
      BY DEF SessionInv, TypeInv, TypeOK
    <2>2. Due(s, user[t])
      BY DEF Due, SessionInv
    <2>3. Told(s, user[t])
      BY <2>1, <2>2 DEF ToldInv
    <2>4. ~ IsQueued(s, UpItem(user[t]))
      BY DEF IsQueued
    <2>5. \A x \in Sessions : user[x] = user[t] => x = t
      BY <2>1, OneSession
    <2>6. ~ ToTell(t, user[s], s)
      BY NotTelling DEF SessionInv
    <2> QED BY <2>3, <2>4, <2>5, <2>6 DEF Told
  <1> QED BY <1>1, <1>2, <1>3, PTL DEF Spec
=============================================================================
