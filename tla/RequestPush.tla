----------------------------- MODULE RequestPush -----------------------------
(***************************************************************************)
(* How a friend request becomes known to its receiver: AddFriendRequest    *)
(* files the row with statements that each borrow a connection of the      *)
(* pool, the sender's thread then looks for a session of the receiver and  *)
(* pushes the request to it, and each of the receiver's sessions asks for  *)
(* the pending list after its login.  Requests are accepted and refused in *)
(* Relations, and threads wait for the pool in MySqlPool.                  *)
(*                                                                         *)
(* The receiver may be logged in several times over; GetSessionByID names  *)
(* one of the sessions, and OnClose erases a session without the lock.     *)
(* LAST_INSERT_ID() belongs to a connection, and the statement that asks   *)
(* for it borrows one anew.                                                *)
(***************************************************************************)
EXTENDS Integers, Sequences, Functions

CONSTANTS
  Requesters,   \* users who send a request to the one receiver, a thread each
  Devices,      \* the receiver's sessions, a thread each; each logs in once
  PoolConns,    \* sequence of the pool's connections, idle at first
  MaxFilings,   \* bound: requests sent
  MaxPushFaults \* bound: failing statements and lost connections

VARIABLES
  poolIdle,    \* m_idle
  lastId,      \* LAST_INSERT_ID() of each connection
  reqRows,     \* t_friend_request: the senders of its rows, all of them pending
  work,        \* what each thread does
  filed,       \* requests sent
  device,      \* each session: "new", "on", "closing" (OnClose has begun) or "closed"
  screen,      \* ids each session was pushed or listed
  listed,      \* the open sessions that got their pending list
  pushFaults,  \* faults so far
  pushes,      \* history: the row, the id and the session of every push, and whether the
               \* pool was left alone between the row's INSERT and LAST_INSERT_ID()
  unsaid       \* history: rows whose INSERT was reported failed, or whose receiver was
               \* not found because a session of it was being closed

pushVars ==
  <<poolIdle, lastId, reqRows, work, filed, device, screen, listed, pushFaults, pushes, unsaid>>
dbVars   == <<reqRows, lastId>>
screenVars == <<device, screen, listed>>

histPush == <<pushes, unsaid>>

Threads == Requesters \cup Devices
NoConn  == 0
NoSession == "none"
NoThread == "none"

Idle == [pc |-> "idle", conn |-> NoConn, next |-> "run", row |-> 0, id |-> 0, sess |-> NoSession,
         alone |-> TRUE]

Init ==
  /\ poolIdle = PoolConns
  /\ lastId = [c \in Range(PoolConns) |-> 0]
  /\ reqRows = <<>>
  /\ work = [t \in Threads |-> Idle]
  /\ filed = 0
  /\ device = [d \in Devices |-> "new"]
  /\ screen = [d \in Devices |-> {}]
  /\ listed = {}
  /\ pushFaults = 0
  /\ pushes = {}
  /\ unsaid = {}

Pending == DOMAIN reqRows

-----------------------------------------------------------------------------
(* A statement borrows a connection, runs on it and gives it back. *)

\* acquire takes the connection that was given back last.
Given(pool) == [conn |-> pool[Len(pool)], left |-> SubSeq(pool, 1, Len(pool) - 1)]

\* t takes or gives back a connection, or NoThread loses one: another thread about
\* to ask for its LAST_INSERT_ID() no longer finds the pool as it left it.
Disturbs(t, w) ==
  [u \in Threads |->
     IF u # t /\ w[u].pc = "last" /\ w[u].conn = NoConn
     THEN [w[u] EXCEPT !.alone = FALSE] ELSE w[u]]

\* acquire, for the statement that is to run next.
Acquire(t, job) ==
  /\ poolIdle # <<>>
  /\ poolIdle' = Given(poolIdle).left
  /\ work' = Disturbs(t, [work EXCEPT ![t] = [job EXCEPT !.conn = Given(poolIdle).conn]])

Borrow(t) ==
  /\ work[t].pc \in {"insert", "last"}
  /\ work[t].conn = NoConn
  /\ Acquire(t, work[t])
  /\ UNCHANGED <<dbVars, filed, screenVars, pushFaults, histPush>>

\* release, after which the handler goes on.
Return(t) ==
  /\ work[t].conn # NoConn
  /\ work[t].next # "run"
  /\ poolIdle' = Append(poolIdle, work[t].conn)
  /\ work' = Disturbs(t, [work EXCEPT ![t].conn = NoConn, ![t].pc = work[t].next,
                                        ![t].next = "run"])
  /\ UNCHANGED <<dbVars, filed, screenVars, pushFaults, histPush>>

Runs(t, pc) == work[t].pc = pc /\ work[t].conn # NoConn /\ work[t].next = "run"

Fault == pushFaults < MaxPushFaults /\ pushFaults' = pushFaults + 1

\* The server drops an idle connection; its next statement reconnects and
\* starts a session that has inserted nothing.
LoseConnection ==
  /\ Fault
  /\ \E c \in Range(poolIdle) :
       /\ lastId[c] # 0
       /\ lastId' = [lastId EXCEPT ![c] = 0]
  /\ work' = Disturbs(NoThread, work)
  /\ UNCHANGED <<poolIdle, reqRows, filed, screenVars, histPush>>

-----------------------------------------------------------------------------
(* UserManager::AddFriendRequest, for OnSendRequestResponse *)

SendRequest(r) ==
  /\ work[r].pc = "idle"
  /\ filed < MaxFilings
  /\ filed' = filed + 1
  /\ Acquire(r, [Idle EXCEPT !.pc = "find"])
  /\ UNCHANGED <<dbVars, screenVars, pushFaults, histPush>>

\* A pending request of the same kind is used again.
Find(r) ==
  LET mine == {i \in Pending : reqRows[i] = r} IN
  /\ Runs(r, "find")
  /\ IF mine = {} THEN work' = [work EXCEPT ![r].next = "insert"]
     ELSE \E i \in mine : work' = [work EXCEPT ![r].next = "lookup", ![r].row = i, ![r].id = i]
  /\ UNCHANGED <<poolIdle, dbVars, filed, screenVars, pushFaults, histPush>>

\* A NULL result counts as none.
FindFails(r) ==
  /\ Runs(r, "find")
  /\ Fault
  /\ work' = [work EXCEPT ![r].next = "insert"]
  /\ UNCHANGED <<poolIdle, dbVars, filed, screenVars, histPush>>

Insert(r) ==
  /\ Runs(r, "insert")
  /\ reqRows' = Append(reqRows, r)
  /\ lastId' = [lastId EXCEPT ![work[r].conn] = Len(reqRows')]
  /\ work' = [work EXCEPT ![r].next = "last", ![r].row = Len(reqRows')]
  /\ UNCHANGED <<poolIdle, filed, screenVars, pushFaults, histPush>>

\* Execute reports a failure: the client gets code 100 and nothing is pushed.
InsertFails(r) ==
  /\ Runs(r, "insert")
  /\ Fault
  /\ work' = [work EXCEPT ![r].next = "idle"]
  /\ UNCHANGED <<poolIdle, dbVars, filed, screenVars, histPush>>

\* The same, and the INSERT has run.
InsertUnclear(r) ==
  /\ Runs(r, "insert")
  /\ Fault
  /\ reqRows' = Append(reqRows, r)
  /\ lastId' = [lastId EXCEPT ![work[r].conn] = Len(reqRows')]
  /\ work' = [work EXCEPT ![r].next = "idle"]
  /\ unsaid' = unsaid \cup {Len(reqRows')}
  /\ UNCHANGED <<poolIdle, filed, screenVars, pushes>>

LastInsertId(r) ==
  /\ Runs(r, "last")
  /\ work' = [work EXCEPT ![r].next = "lookup", ![r].id = lastId[work[r].conn]]
  /\ UNCHANGED <<poolIdle, dbVars, filed, screenVars, pushFaults, histPush>>

\* reqIdOut stays 0, and the request is pushed with it.
LastInsertIdFails(r) ==
  /\ Runs(r, "last")
  /\ Fault
  /\ work' = [work EXCEPT ![r].next = "lookup", ![r].id = 0, ![r].alone = FALSE]
  /\ UNCHANGED <<poolIdle, dbVars, filed, screenVars, histPush>>

In(state) == {d \in Devices : device[d] = state}

\* Mutant: only the first entry of the map is looked at, whoever it belongs to.
GetSessionByID_FirstEntry == In("on") \cup {NoSession}

\* A session of the receiver, whichever comes first in the map.  While OnClose
\* erases one without the lock, it may be the closing session or none.
GetSessionByID ==
  IF In("closing") # {} THEN In("on") \cup In("closing") \cup {NoSession}
  ELSE IF In("on") # {} THEN In("on") ELSE {NoSession}

LookUp(r) ==
  /\ work[r].pc = "lookup"
  /\ \E found \in GetSessionByID :
       IF found = NoSession
       THEN /\ work' = [work EXCEPT ![r] = Idle]
            /\ unsaid' = IF In("closing") # {} THEN unsaid \cup {work[r].row}
                         ELSE unsaid \ {work[r].row}
       ELSE /\ work' = [work EXCEPT ![r].pc = "push", ![r].sess = found]
            /\ unsaid' = unsaid \ {work[r].row}
  /\ UNCHANGED <<poolIdle, dbVars, filed, screenVars, pushFaults, pushes>>

\* PushNewRequest: lost when that session is closed or closing meanwhile.
PushNewRequest(r) ==
  LET w == work[r] IN
  /\ w.pc = "push"
  /\ screen' = IF device[w.sess] = "on" THEN [screen EXCEPT ![w.sess] = @ \cup {w.id}] ELSE screen
  /\ pushes' = pushes \cup {[row |-> w.row, id |-> w.id, sess |-> w.sess, alone |-> w.alone]}
  /\ work' = [work EXCEPT ![r] = Idle]
  /\ UNCHANGED <<poolIdle, dbVars, filed, device, listed, pushFaults, unsaid>>

-----------------------------------------------------------------------------
(* The receiver's sessions *)

Login(d) ==
  /\ device[d] = "new"
  /\ device' = [device EXCEPT ![d] = "on"]
  /\ UNCHANGED <<poolIdle, dbVars, work, filed, screen, listed, pushFaults, histPush>>

\* The connection ends, and with it what the client shows; its loop calls OnClose,
\* between two handlers of the session ...
Close(d) ==
  /\ device[d] = "on"
  /\ work[d].pc = "idle"
  /\ device' = [device EXCEPT ![d] = "closing"]
  /\ screen' = [screen EXCEPT ![d] = {}]
  /\ listed' = listed \ {d}
  /\ UNCHANGED <<poolIdle, dbVars, work, filed, pushFaults, histPush>>

\* ... has erased the session.
Closed(d) ==
  /\ device[d] = "closing"
  /\ device' = [device EXCEPT ![d] = "closed"]
  /\ UNCHANGED <<poolIdle, dbVars, work, filed, screen, listed, pushFaults, histPush>>

\* OnPendingRequestsResponse ...
AskPending(d) ==
  /\ device[d] = "on"
  /\ d \notin listed
  /\ work[d].pc = "idle"
  /\ Acquire(d, [Idle EXCEPT !.pc = "list"])
  /\ UNCHANGED <<dbVars, filed, screenVars, pushFaults, histPush>>

\* ... is answered before the session's next request or its close, with the
\* rows the query found.
GetPendingRequests(d) ==
  /\ Runs(d, "list")
  /\ screen' = [screen EXCEPT ![d] = @ \cup Pending]
  /\ listed' = listed \cup {d}
  /\ work' = [work EXCEPT ![d].next = "idle"]
  /\ UNCHANGED <<poolIdle, dbVars, filed, device, pushFaults, histPush>>

\* Answered with code 0 and an empty list.
GetPendingFails(d) ==
  /\ Runs(d, "list")
  /\ Fault
  /\ work' = [work EXCEPT ![d].next = "idle"]
  /\ UNCHANGED <<poolIdle, dbVars, filed, screenVars, histPush>>

-----------------------------------------------------------------------------
RequesterStep(r) ==
  \/ SendRequest(r)
  \/ Find(r) \/ FindFails(r)
  \/ Insert(r) \/ InsertFails(r) \/ InsertUnclear(r)
  \/ LastInsertId(r) \/ LastInsertIdFails(r)
  \/ LookUp(r)
  \/ PushNewRequest(r)

DeviceStep(d) ==
  \/ Login(d) \/ Close(d) \/ Closed(d)
  \/ AskPending(d) \/ GetPendingRequests(d) \/ GetPendingFails(d)

Next ==
  \/ \E t \in Threads : Return(t)
  \/ \E r \in Requesters : Borrow(r) \/ RequesterStep(r)
  \/ \E d \in Devices : DeviceStep(d)
  \/ LoseConnection

Spec == Init /\ [][Next]_pushVars

-----------------------------------------------------------------------------
(* Properties *)

\* The id a request is pushed with is its row's, unless another thread used
\* the pool between the INSERT and LAST_INSERT_ID() or that query failed: the
\* pool then hands back the connection that inserted (MySqlManager::acquire).
PushNamesItsRow == \A p \in pushes : p.id # p.row => ~p.alone

\* No request escapes both ways of becoming known: once a session has its
\* pending list and no sender is under way, every pending row was listed or
\* pushed to it, however logins, closes and the senders' steps interleaved.  Three
\* things are excused: the push named another session of the same user or
\* a wrong id, a session being closed hid the others, or the sender was told that
\* the request failed.
RequestIsKnown ==
  \A d \in listed :
    (\A r \in Requesters : work[r].pc = "idle") =>
      \A i \in Pending :
        \/ i \in screen[d]
        \/ \E p \in pushes : p.row = i /\ (p.sess # d \/ p.id # i)
        \/ i \in unsaid

\* A pending friend request becomes known to its receiver, by push to one of its
\* sessions or by list, under its own id, with the exceptions the parts name
\* (AddFriendRequest, GetSessionByID, GetPendingRequests).
RequestsArrive ==
  /\ PushNamesItsRow
  /\ RequestIsKnown
=============================================================================
