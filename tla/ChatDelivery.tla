---------------------------- MODULE ChatDelivery ----------------------------
(***************************************************************************)
(* Session registry (IMSer), login and chat routing (ClientSession) and    *)
(* the offline message table (MsgCacheManager) of IMServer.                *)
(*                                                                         *)
(* Every connection is pinned to one IO loop; its handlers run one after   *)
(* the other on that loop and interleave with the handlers of the other    *)
(* connections.  The model gives each connection a loop of its own, which  *)
(* is the most concurrent deployment (IMSERVER_THREADS >= connections).    *)
(* A handler is cut into steps where it takes or leaves a lock, runs an    *)
(* SQL statement or hands bytes to another loop.                           *)
(*                                                                         *)
(* A connection is named by its address: m_mapclient is a std::map ordered *)
(* by that address and GetSessionByID returns the first match.             *)
(*                                                                         *)
(* History variables: accepted, handed, lost, seen, ready, raced.          *)
(***************************************************************************)
EXTENDS Integers, Sequences

CONSTANTS
  Sessions,     \* addresses of connection objects
  Users,        \* registered accounts (t_user)
  Groups,       \* group accounts, ids at or above GROUPID_BOUNDARY
  Msgs,         \* chat messages, each sent once
  Friends,      \* Friends[u]: friend list of user u
  Members,      \* Members[g]: friend list of group g
  Logins,       \* pairs <<s, u>>: clients try account u on connection s
  NoUser,       \* m_user not set
  NoMsg,        \* no chat message
  MaxDbFaults   \* bound on failing SQL statements

NoSession == 0

ASSUME ConstantsAssumption ==
  /\ Sessions \subseteq Nat \ {NoSession}
  /\ NoUser \notin Users
  /\ NoMsg \notin Msgs
  /\ Friends \in [Users -> SUBSET Users]
  /\ Members \in [Groups -> SUBSET Users]
  /\ Logins \subseteq Sessions \X Users
  /\ MaxDbFaults \in Nat

\* Two users are friends of each other or not at all (FriendsMutual, an
\* invariant of module Relations).  Only presence depends on it.
ASSUME FriendsAssumption ==
  \A u \in Users : \A f \in Friends[u] : u \in Friends[f]

VARIABLES
  mapclient,  \* IMSer::m_mapclient, the registered connections
  user,       \* ClientSession::m_user of each connection
  pc,         \* what the handler running on the connection's loop does next
  job,        \* its locals: message, receivers left, receiver, session found
  batch,      \* rows fetched by GetChatMsgCache and not yet pushed
  status,     \* User::status in UserManager's cache
  offline,    \* table t_offline_msg
  nextId,     \* AUTO_INCREMENT of t_offline_msg
  lock,       \* holder of MsgCacheManager::m_mutex
  inbox,      \* sends queued in the connection's loop by other loops
  wire,       \* the chat messages written to the connection
  seen,       \* friends the client was told are online
  ready,      \* connections whose last login ran to its end
  synced,     \* connections that fetched a (non-empty) friend list since
  accepted,   \* <<m, u>>: message m was accepted for receiver u
  handed,     \* how often m was written to a connection for u
  lost,       \* <<m, u, why>>: m will never reach u, and why
  raced,      \* an erase in OnClose overlapped a GetSessionByID
  faults,     \* SQL statements that failed so far
  undeleted   \* a DELETE of fetched rows failed

connVars == <<mapclient, user>>
dbVars   == <<offline, nextId, lock, faults, undeleted>>
ghosts   == <<accepted, handed, lost, ready, synced, raced>>
vars == <<mapclient, user, pc, job, batch, status, offline, nextId, lock,
          inbox, wire, seen, ready, synced, accepted, handed, lost, raced,
          faults, undeleted>>

-----------------------------------------------------------------------------
(* Types *)

\* A row of t_offline_msg with f_msgtype = 1: f_id, f_userid, f_content.
Row == [id : Nat \ {0}, usr : Users, msg : Msgs]

\* What travels to a client: a chat message for usr (id is the row it came
\* from, 0 for a live one) or the notification that usr came online.
Item == [kind : {"chat"}, msg : Msgs, usr : Users, id : Nat]
          \cup [kind : {"up"}, msg : {NoMsg}, usr : Users, id : {0}]

Job == [msg : Msgs \cup {NoMsg}, todo : SUBSET Users,
        to : Users \cup {NoUser}, via : Sessions \cup {NoSession}]

AJob(m, T, u, s) == [msg |-> m, todo |-> T, to |-> u, via |-> s]
NoJob == AJob(NoMsg, {}, NoUser, NoSession)

Steps == {"idle", "verify", "select", "delete", "push", "announce",
          "tell", "route", "send", "store"}

Reasons == {"unrouted", "queued", "drained", "gone", "insert"}

ChatItem(m, u, i) == [kind |-> "chat", msg |-> m, usr |-> u, id |-> i]
UpItem(u) == [kind |-> "up", msg |-> NoMsg, usr |-> u, id |-> 0]

-----------------------------------------------------------------------------
(* Registry *)

\* Connections whose session carries user u, in any state of login.
SessionsOf(u) == {s \in mapclient : user[s] = u}

\* IMSer::GetSessionByID: the first match in key order, or none (as the set
\* with that one element).
GetSessionByID(u) ==
  IF SessionsOf(u) = {} THEN {NoSession}
  ELSE {s \in SessionsOf(u) : \A t \in SessionsOf(u) : s <= t}

\* A session found by some handler keeps its connection object alive, so the
\* address is not reused while one is.
Referenced(s) == \E t \in Sessions : job[t].via = s

Init ==
  /\ mapclient = {}
  /\ user = [s \in Sessions |-> NoUser]
  /\ pc = [s \in Sessions |-> "idle"]
  /\ job = [s \in Sessions |-> NoJob]
  /\ batch = [s \in Sessions |-> {}]
  /\ status = [u \in Users |-> 0]
  /\ offline = {}
  /\ nextId = 1
  /\ lock = NoSession
  /\ inbox = [s \in Sessions |-> <<>>]
  /\ wire = [s \in Sessions |-> <<>>]
  /\ seen = [s \in Sessions |-> {}]
  /\ ready = {}
  /\ synced = {}
  /\ accepted = {}
  /\ handed = [p \in Msgs \X Users |-> 0]
  /\ lost = {}
  /\ raced = FALSE
  /\ faults = 0
  /\ undeleted = FALSE

\* IMSer::OnConnection for a new connection: a fresh ClientSession.
OnConnection(s) ==
  /\ s \notin mapclient
  /\ ~ Referenced(s)
  /\ mapclient' = mapclient \cup {s}
  /\ UNCHANGED <<user, pc, job, batch, status, inbox, wire, seen, dbVars, ghosts>>

\* The chat messages in a queue.
Chats(q) == {<<q[i].msg, q[i].usr>> : i \in {j \in DOMAIN q : q[j].kind = "chat"}}

Queued(s) == Chats(inbox[s])

\* What OnClose does to a connection.  Nothing is written back to status and
\* no friend is notified; sends still queued find the connection closed.
Disconnect(s) ==
  /\ s \in mapclient
  /\ pc[s] = "idle"
  /\ mapclient' = mapclient \ {s}
  /\ user' = [user EXCEPT ![s] = NoUser]
  /\ inbox' = [inbox EXCEPT ![s] = <<>>]
  /\ wire' = [wire EXCEPT ![s] = <<>>]
  /\ seen' = [seen EXCEPT ![s] = {}]
  /\ ready' = ready \ {s}
  /\ synced' = synced \ {s}
  /\ lost' = lost \cup {<<p[1], p[2], "gone">> : p \in Queued(s)}

\* IMSer::OnClose, no lookup running meanwhile.
OnClose(s) ==
  /\ Disconnect(s)
  /\ UNCHANGED <<pc, job, batch, status, dbVars, accepted, handed, raced>>

-----------------------------------------------------------------------------
(* Login *)

\* OnLoginResponse up to GetUserInfoUsername: m_user is assigned before the
\* password is verified, so from here on GetSessionByID finds the session.
Login(s, u) ==
  /\ s \in mapclient
  /\ pc[s] = "idle"
  /\ <<s, u>> \in Logins
  /\ user' = [user EXCEPT ![s] = u]
  /\ pc' = [pc EXCEPT ![s] = "verify"]
  /\ ready' = ready \ {s}
  /\ synced' = synced \ {s}
  /\ seen' = [seen EXCEPT ![s] = {}]
  /\ UNCHANGED <<mapclient, job, batch, status, inbox, wire, dbVars,
                 accepted, handed, lost, raced>>

\* Wrong password: the handler answers 104 and leaves m_user as it is.
LoginRejected(s) ==
  /\ pc[s] = "verify"
  /\ pc' = [pc EXCEPT ![s] = "idle"]
  /\ UNCHANGED <<connVars, job, batch, status, inbox, wire, seen, dbVars, ghosts>>

\* Mutant: SetUserStatus is forgotten.
LoginAccepted_NoStatus(s) ==
  /\ pc[s] = "verify"
  /\ pc' = [pc EXCEPT ![s] = "select"]
  /\ UNCHANGED <<connVars, job, batch, status, inbox, wire, seen, dbVars, ghosts>>

\* Mutant: status counts the logins.
LoginAccepted_Counts(s) ==
  /\ pc[s] = "verify"
  /\ status' = [status EXCEPT ![user[s]] = @ + 1]
  /\ pc' = [pc EXCEPT ![s] = "select"]
  /\ UNCHANGED <<connVars, job, batch, inbox, wire, seen, dbVars, ghosts>>

\* Password verified, VIP status queried (a gRPC call that may take its whole
\* deadline), SetUserStatus(1), response sent.
LoginAccepted(s) ==
  /\ pc[s] = "verify"
  /\ status' = [status EXCEPT ![user[s]] = 1]
  /\ pc' = [pc EXCEPT ![s] = "select"]
  /\ UNCHANGED <<connVars, job, batch, inbox, wire, seen, dbVars, ghosts>>

RowsOf(u) == {r \in offline : r.usr = u}

\* Mutant: the SELECT and the DELETE are not one critical section.
FetchOffline_NoLock(s) ==
  /\ pc[s] = "select"
  /\ batch' = [batch EXCEPT ![s] = RowsOf(user[s])]
  /\ pc' = [pc EXCEPT ![s] = IF RowsOf(user[s]) = {} THEN "push" ELSE "delete"]
  /\ UNCHANGED <<connVars, job, status, dbVars, inbox, wire, seen, ghosts>>

\* Mutant: the early return for an empty result keeps the lock.
FetchOffline_KeepsLock(s) ==
  /\ pc[s] = "select"
  /\ lock = NoSession
  /\ batch' = [batch EXCEPT ![s] = RowsOf(user[s])]
  /\ pc' = [pc EXCEPT ![s] = IF RowsOf(user[s]) = {} THEN "push" ELSE "delete"]
  /\ lock' = s
  /\ UNCHANGED <<connVars, job, status, offline, nextId, inbox, wire, seen,
                 faults, undeleted, ghosts>>

\* GetNotifyMsgCache finds nothing, as AddNotifyMsgCache has no caller: it only
\* waits for the lock.  Then FetchAndDeleteOfflineMsg, the SELECT.  The lock is
\* kept until after the DELETE, which is skipped when nothing was fetched.
FetchOffline(s) ==
  /\ pc[s] = "select"
  /\ lock = NoSession
  /\ batch' = [batch EXCEPT ![s] = RowsOf(user[s])]
  /\ IF RowsOf(user[s]) = {}
       THEN /\ pc' = [pc EXCEPT ![s] = "push"]
            /\ lock' = lock
       ELSE /\ pc' = [pc EXCEPT ![s] = "delete"]
            /\ lock' = s
  /\ UNCHANGED <<connVars, job, status, offline, nextId, inbox, wire, seen,
                 faults, undeleted, ghosts>>

\* The SELECT fails: Query returns NULL and the login goes on with no rows.
FetchFails(s) ==
  /\ pc[s] = "select"
  /\ lock = NoSession
  /\ faults < MaxDbFaults
  /\ faults' = faults + 1
  /\ pc' = [pc EXCEPT ![s] = "push"]
  /\ UNCHANGED <<connVars, job, batch, status, offline, nextId, lock, inbox,
                 wire, seen, undeleted, ghosts>>

\* The DELETE names the user and the type, not the rows that were fetched.
DeleteOffline(s) ==
  /\ pc[s] = "delete"
  /\ offline' = offline \ RowsOf(user[s])
  /\ lock' = NoSession
  /\ pc' = [pc EXCEPT ![s] = "push"]
  /\ UNCHANGED <<connVars, job, batch, status, nextId, inbox, wire, seen,
                 faults, undeleted, ghosts>>

\* The DELETE fails; its result is not looked at and the rows are pushed.
DeleteFails(s) ==
  /\ pc[s] = "delete"
  /\ faults < MaxDbFaults
  /\ faults' = faults + 1
  /\ undeleted' = TRUE
  /\ lock' = NoSession
  /\ pc' = [pc EXCEPT ![s] = "push"]
  /\ UNCHANGED <<connVars, job, batch, status, offline, nextId, inbox, wire,
                 seen, ghosts>>

\* Mutant: newest row first (ORDER BY f_id DESC).
NextRow_Desc(s) == {r \in batch[s] : \A q \in batch[s] : r.id >= q.id}

\* The row GetChatMsgCache returned first (ORDER BY f_id ASC) of those left.
NextRow(s) == {r \in batch[s] : \A q \in batch[s] : r.id <= q.id}

Hand(m, u) == [handed EXCEPT ![<<m, u>>] = @ + 1]

\* sendRaw of one fetched row, written at once: this is the session's loop.
PushOffline(s) ==
  /\ pc[s] = "push"
  /\ \E r \in NextRow(s) :
       /\ wire' = [wire EXCEPT ![s] = Append(@, ChatItem(r.msg, r.usr, r.id))]
       /\ handed' = Hand(r.msg, r.usr)
       /\ batch' = [batch EXCEPT ![s] = @ \ {r}]
  /\ UNCHANGED <<connVars, pc, job, status, inbox, seen, dbVars, ready,
                 synced, accepted, lost, raced>>

\* Mutant: the loop over the fetched rows is left early.
StartAnnounce_Break(s) ==
  /\ pc[s] = "push"
  /\ batch' = [batch EXCEPT ![s] = {}]
  /\ pc' = [pc EXCEPT ![s] = "announce"]
  /\ job' = [job EXCEPT ![s] = AJob(NoMsg, Friends[user[s]], NoUser, NoSession)]
  /\ UNCHANGED <<connVars, status, inbox, wire, seen, dbVars, ghosts>>

\* All rows pushed: the friend list is read and its friends are notified.
StartAnnounce(s) ==
  /\ pc[s] = "push"
  /\ batch[s] = {}
  /\ pc' = [pc EXCEPT ![s] = "announce"]
  /\ job' = [job EXCEPT ![s] = AJob(NoMsg, Friends[user[s]], NoUser, NoSession)]
  /\ UNCHANGED <<connVars, batch, status, inbox, wire, seen, dbVars, ghosts>>

\* One friend of the loop is looked up ...
AnnounceTo(s, f, found) ==
  /\ pc[s] = "announce"
  /\ f \in job[s].todo
  /\ job' = [job EXCEPT ![s] = AJob(@.msg, @.todo \ {f}, f, found)]
  /\ pc' = [pc EXCEPT ![s] = "tell"]

\* A send to connection t from another loop: queued in its loop, dropped when
\* it is no longer connected.
Queue(t, item) ==
  inbox' = IF t \in mapclient THEN [inbox EXCEPT ![t] = Append(@, item)]
                              ELSE inbox

IsQueued(t, item) == \E i \in DOMAIN inbox[t] : inbox[t][i] = item

\* ... and told that the user came online (SendUserStatusChangeMsg, type 1), at
\* once if it is on this loop.  A notification that repeats one still queued
\* changes nothing for the client and is left out.
Tell(s) ==
  /\ pc[s] = "tell"
  /\ LET t == job[s].via IN
       IF t = s
         THEN /\ seen' = [seen EXCEPT ![s] = @ \cup {user[s]}]
              /\ inbox' = inbox
         ELSE /\ seen' = seen
              /\ IF t # NoSession /\ IsQueued(t, UpItem(user[s]))
                   THEN inbox' = inbox
                   ELSE Queue(t, UpItem(user[s]))
  /\ job' = [job EXCEPT ![s] = AJob(@.msg, @.todo, NoUser, NoSession)]
  /\ pc' = [pc EXCEPT ![s] = "announce"]
  /\ UNCHANGED <<connVars, batch, status, wire, dbVars, ghosts>>

LoginDone(s) ==
  /\ pc[s] = "announce"
  /\ job[s].todo = {}
  /\ pc' = [pc EXCEPT ![s] = "idle"]
  /\ job' = [job EXCEPT ![s] = NoJob]
  /\ ready' = ready \cup {s}
  /\ UNCHANGED <<connVars, batch, status, inbox, wire, seen, dbVars, synced,
                 accepted, handed, lost, raced>>

\* OnGetFriendListResponse: the client learns which friends have status 1.
OnGetFriendList(s) ==
  /\ s \in mapclient
  /\ pc[s] = "idle"
  /\ user[s] # NoUser
  /\ seen' = [seen EXCEPT ![s] = {f \in Friends[user[s]] : status[f] = 1}]
  /\ synced' = IF Friends[user[s]] = {} THEN synced ELSE synced \cup {s}
  /\ UNCHANGED <<connVars, pc, job, batch, status, inbox, wire, dbVars, ready,
                 accepted, handed, lost, raced>>

-----------------------------------------------------------------------------
(* Chat *)

\* OnChatResponse after the message was given to persistence (module
\* ChatPersistence): receivers R remain to be served.
Accept(s, m, R) ==
  /\ s \in mapclient
  /\ pc[s] = "idle"
  /\ user[s] # NoUser
  /\ \A u \in Users : <<m, u>> \notin accepted
  /\ accepted' = accepted \cup {<<m, u>> : u \in R}
  /\ job' = [job EXCEPT ![s] = AJob(m, R, NoUser, NoSession)]
  /\ pc' = [pc EXCEPT ![s] = "route"]
  /\ UNCHANGED <<connVars, batch, status, inbox, wire, seen, dbVars, ready,
                 synced, handed, lost, raced>>

\* Single chat: the target itself, which may be the sender.
OnChat(s, m, t) == Accept(s, m, {t})

\* Group chat: the members of the group except the sender.
OnGroupChat(s, m, g) == Accept(s, m, Members[g] \ {user[s]})

\* OnMultiChatResponse: OnChatResponse for each of the targets.
OnMultiChat(s, m, T) == Accept(s, m, T)

\* GetSessionByID for one receiver of the loop.
RouteTo(s, u, found) ==
  /\ pc[s] = "route"
  /\ u \in job[s].todo
  /\ job' = [job EXCEPT ![s] = AJob(@.msg, @.todo \ {u}, u, found)]
  /\ pc' = [pc EXCEPT ![s] = IF found = NoSession THEN "store" ELSE "send"]

\* A handler's lookup of u, with the session it yields.
LookUp(s, u, found) == RouteTo(s, u, found) \/ AnnounceTo(s, u, found)

Route(s, u) ==
  /\ \E found \in GetSessionByID(u) : LookUp(s, u, found)
  /\ UNCHANGED <<connVars, batch, status, inbox, wire, seen, dbVars, ghosts>>

\* The erase in OnClose takes no lock.  When connection t closes while session
\* s is inside GetSessionByID, the lookup walks a map that is being changed: it
\* may return any match, the closing session or nothing.  (It may also bring
\* the process down, which is Crash.)
OnCloseDuringLookup(t, s, u) ==
  /\ s # t
  /\ Disconnect(t)
  /\ \E found \in SessionsOf(u) \cup {NoSession} : LookUp(s, u, found)
  /\ raced' = TRUE
  /\ UNCHANGED <<batch, status, dbVars, accepted, handed>>

\* The lines of a handler after one receiver was served.
NextReceiver(s) ==
  /\ job' = [job EXCEPT ![s] = AJob(@.msg, @.todo, NoUser, NoSession)]
  /\ pc' = [pc EXCEPT ![s] = "route"]

\* SendContainer to the session that was found, whatever it has become since.
SendContainer(s) ==
  /\ pc[s] = "send"
  /\ LET t == job[s].via
         m == job[s].msg
         u == job[s].to
     IN  IF t = s
           THEN /\ wire' = [wire EXCEPT ![s] = Append(@, ChatItem(m, u, 0))]
                /\ handed' = Hand(m, u)
                /\ UNCHANGED <<inbox, lost>>
           ELSE /\ Queue(t, ChatItem(m, u, 0))
                /\ lost' = IF t \in mapclient THEN lost
                                              ELSE lost \cup {<<m, u, "gone">>}
                /\ UNCHANGED <<wire, handed>>
  /\ NextReceiver(s)
  /\ UNCHANGED <<connVars, batch, status, seen, dbVars, ready, synced,
                 accepted, raced>>

\* Mutant: the INSERT does not take the lock.
AddChatMsgCache_NoLock(s) ==
  /\ pc[s] = "store"
  /\ offline' = offline \cup {[id |-> nextId, usr |-> job[s].to, msg |-> job[s].msg]}
  /\ nextId' = nextId + 1
  /\ NextReceiver(s)
  /\ UNCHANGED <<connVars, batch, status, lock, inbox, wire, seen, faults,
                 undeleted, ghosts>>

\* AddChatMsgCache: one INSERT under the lock.
AddChatMsgCache(s) ==
  /\ pc[s] = "store"
  /\ lock = NoSession
  /\ offline' = offline \cup {[id |-> nextId, usr |-> job[s].to, msg |-> job[s].msg]}
  /\ nextId' = nextId + 1
  /\ NextReceiver(s)
  /\ UNCHANGED <<connVars, batch, status, lock, inbox, wire, seen, faults,
                 undeleted, ghosts>>

\* The INSERT fails; OnChatResponse does not look at the result.
InsertFails(s) ==
  /\ pc[s] = "store"
  /\ lock = NoSession
  /\ faults < MaxDbFaults
  /\ faults' = faults + 1
  /\ lost' = lost \cup {<<job[s].msg, job[s].to, "insert">>}
  /\ NextReceiver(s)
  /\ UNCHANGED <<connVars, batch, status, offline, nextId, lock, inbox, wire,
                 seen, undeleted, ready, synced, accepted, handed, raced>>

ChatDone(s) ==
  /\ pc[s] = "route"
  /\ job[s].todo = {}
  /\ pc' = [pc EXCEPT ![s] = "idle"]
  /\ job' = [job EXCEPT ![s] = NoJob]
  /\ UNCHANGED <<connVars, batch, status, inbox, wire, seen, dbVars, ghosts>>

\* sendInLoop: between two handlers the loop runs the sends queued for it.
SendInLoop(s) ==
  /\ pc[s] = "idle"
  /\ inbox[s] # <<>>
  /\ LET x == Head(inbox[s]) IN
       /\ wire' = IF x.kind = "chat" THEN [wire EXCEPT ![s] = Append(@, x)] ELSE wire
       /\ handed' = IF x.kind = "chat" THEN Hand(x.msg, x.usr) ELSE handed
       /\ seen' = IF x.kind = "up" THEN [seen EXCEPT ![s] = @ \cup {x.usr}] ELSE seen
  /\ inbox' = [inbox EXCEPT ![s] = Tail(@)]
  /\ UNCHANGED <<connVars, pc, job, batch, status, dbVars, ready, synced,
                 accepted, lost, raced>>

-----------------------------------------------------------------------------
(* The process dies and is started again *)

\* Receivers a chat handler has not finished with.
Unrouted(s) ==
  IF pc[s] \in {"route", "send", "store"}
    THEN {<<job[s].msg, u>> : u \in job[s].todo \cup ({job[s].to} \ {NoUser})}
    ELSE {}

\* Rows fetched, no longer in the table and not yet pushed.
Drained(s) == {<<r.msg, r.usr>> : r \in batch[s] \ offline}

\* What dies with the process.
CrashLoss ==
  {l \in Msgs \X Users \X Reasons : \E s \in Sessions :
     \/ l[3] = "unrouted" /\ <<l[1], l[2]>> \in Unrouted(s)
     \/ l[3] = "queued"   /\ <<l[1], l[2]>> \in Queued(s)
     \/ l[3] = "drained"  /\ <<l[1], l[2]>> \in Drained(s)}

\* Everything in memory is gone; the table stays.  LoadUserFromDB gives every
\* user status 0.  A handler that reads m_user on a connection that has none
\* ends the process this way too.
Crash ==
  /\ mapclient' = {}
  /\ user' = [s \in Sessions |-> NoUser]
  /\ pc' = [s \in Sessions |-> "idle"]
  /\ job' = [s \in Sessions |-> NoJob]
  /\ batch' = [s \in Sessions |-> {}]
  /\ status' = [u \in Users |-> 0]
  /\ lock' = NoSession
  /\ inbox' = [s \in Sessions |-> <<>>]
  /\ wire' = [s \in Sessions |-> <<>>]
  /\ seen' = [s \in Sessions |-> {}]
  /\ ready' = {}
  /\ synced' = {}
  /\ lost' = lost \cup CrashLoss
  /\ UNCHANGED <<offline, nextId, accepted, handed, raced, faults, undeleted>>

-----------------------------------------------------------------------------
(* Specification *)

\* The steps by which a loop carries on with what it has begun.
Proceed(s) ==
  \/ LoginRejected(s)
  \/ LoginAccepted(s)
  \/ FetchOffline(s)
  \/ FetchFails(s)
  \/ DeleteOffline(s)
  \/ DeleteFails(s)
  \/ PushOffline(s)
  \/ StartAnnounce(s)
  \/ Tell(s)
  \/ LoginDone(s)
  \/ \E u \in Users : Route(s, u)
  \/ SendContainer(s)
  \/ AddChatMsgCache(s)
  \/ InsertFails(s)
  \/ ChatDone(s)
  \/ SendInLoop(s)

\* What clients do.
Request(s) ==
  \/ OnConnection(s)
  \/ OnClose(s)
  \/ \E t \in Sessions, u \in Users : OnCloseDuringLookup(s, t, u)
  \/ \E u \in Users : Login(s, u)
  \/ OnGetFriendList(s)
  \/ \E m \in Msgs :
       \/ \E t \in Users : OnChat(s, m, t)
       \/ \E g \in Groups : OnGroupChat(s, m, g)
       \/ \E T \in SUBSET Users : OnMultiChat(s, m, T)

Next ==
  \/ \E s \in Sessions : Request(s) \/ Proceed(s)
  \/ Crash

Spec == Init /\ [][Next]_vars

\* A loop thread keeps running its handler and its queue.
FairSpec == Spec /\ \A s \in Sessions : WF_vars(Proceed(s))

-----------------------------------------------------------------------------
(* Properties *)

\* Type correctness of the server's state and of the history variables.
TypeOK ==
  /\ raced \in BOOLEAN
  /\ undeleted \in BOOLEAN
  /\ mapclient \subseteq Sessions
  /\ user \in [Sessions -> Users \cup {NoUser}]
  /\ pc \in [Sessions -> Steps]
  /\ job \in [Sessions -> Job]
  /\ batch \in [Sessions -> SUBSET Row]
  /\ status \in [Users -> {0, 1}]
  /\ offline \subseteq Row
  /\ nextId \in Nat \ {0}
  /\ lock \in Sessions \cup {NoSession}
  /\ inbox \in [Sessions -> Seq(Item)]
  /\ wire \in [Sessions -> Seq(Item)]
  /\ seen \in [Sessions -> SUBSET Users]
  /\ ready \subseteq Sessions
  /\ synced \subseteq Sessions
  /\ accepted \subseteq Msgs \X Users
  /\ handed \in [Msgs \X Users -> Nat]
  /\ lost \subseteq Msgs \X Users \X Reasons
  /\ faults \in Nat

\* Where an accepted message is, as long as it is on its way.
InTable(p)   == \E r \in offline : <<r.msg, r.usr>> = p
InBatch(p)   == \E s \in Sessions : \E r \in batch[s] : <<r.msg, r.usr>> = p
InQueue(p)   == \E s \in Sessions : p \in Queued(s)
InHandler(p) == \E s \in Sessions : p \in Unrouted(s)
OnItsWay(p)  == InTable(p) \/ InBatch(p) \/ InQueue(p) \/ InHandler(p)
IsLost(p)    == \E why \in Reasons : <<p[1], p[2], why>> \in lost

\* What a handler relies on from one of its steps to the next.
HandlerOK(s) ==
  /\ pc[s] \in {"verify", "select", "delete", "push", "announce", "tell"}
       => user[s] \in Users
  /\ pc[s] \in {"route", "send", "store"} => job[s].msg \in Msgs
  /\ pc[s] \in {"send", "store"} => job[s].to \in Users
  /\ pc[s] = "send" => job[s].via \in Sessions
  /\ pc[s] = "route" => job[s].to = NoUser
  /\ pc[s] \notin {"delete", "push"} => batch[s] = {}

HandlerInv == \A s \in Sessions : HandlerOK(s)

\* A login that is about to DELETE holds the lock, and has fetched every row
\* its DELETE will remove.
LockInv ==
  \A s \in Sessions : pc[s] = "delete" => lock = s /\ RowsOf(user[s]) \subseteq batch[s]

\* No silent loss: an accepted message was written to a connection, is on its
\* way, or was lost for one of the five known reasons.  In particular the
\* DELETE of a login never removes a row its SELECT did not fetch, although it
\* names the user and not the rows (MsgCacheManager::m_mutex sees to that).
Placed(p) == handed[p] > 0 \/ OnItsWay(p) \/ IsLost(p)
NoSilentLoss == \A p \in accepted : Placed(p)

\* At most once: as long as no DELETE has failed, a message is written once
\* for each receiver, also when two connections of one user log in at the
\* same time and when the process is restarted in the middle of a login.
AtMostOnce == ~ undeleted => \A p \in Msgs \X Users : handed[p] <= 1

\* Offline messages of one receiver reach a connection in the order in which
\* they were stored (ORDER BY f_id), across several logins on it as well.
OfflineFifo ==
  \A s \in Sessions : \A i, j \in DOMAIN wire[s] :
    /\ i < j
    /\ wire[s][i].id > 0 /\ wire[s][j].id > 0
    /\ wire[s][i].usr = wire[s][j].usr
    => wire[s][i].id < wire[s][j].id \/ undeleted

\* The abstract state of a delivery.  A message that is nowhere and has no
\* recorded reason would be "vanished", a place ChatMailbox does not know.
Place(p) ==
  CASE handed[p] > 0    -> "delivered"
    [] handed[p] = 0 /\ OnItsWay(p)   -> "pending"
    [] handed[p] = 0 /\ ~ OnItsWay(p) /\ IsLost(p) -> "lost"
    [] handed[p] = 0 /\ ~ OnItsWay(p) /\ ~ IsLost(p) ->
         IF p \in accepted THEN "vanished" ELSE "none"

Mailbox == INSTANCE ChatMailbox WITH place <- [p \in Msgs \X Users |-> Place(p)]

\* The server implements ChatMailbox: whatever logins, closes, crashes and
\* failing statements do, an accepted message only moves from pending to
\* delivered or lost, and neither is ever undone.
ImplementsMailbox == Mailbox!Spec

\* Users that only one connection logs in as.
OneDevice(u) == \E s \in Sessions : {t \in Sessions : <<t, u>> \in Logins} = {s}

\* Presence is never missed: a client that fetched its friend list and a
\* friend whose login has run to its end, in whatever order their steps came,
\* and the client has been told that the friend is online.  (Users on one
\* device; an erase racing a lookup may break it.)
PresenceKnown ==
  \A s \in synced, t \in ready :
    /\ ~ raced
    /\ pc[s] = "idle" /\ inbox[s] = <<>>
    /\ OneDevice(user[s]) /\ OneDevice(user[t])
    /\ user[t] \in Friends[user[s]]
    => user[t] \in seen[s]

\* When clients stop asking, every handler comes to its end: no step waits for
\* a lock that is never given back.
HandlersFinish ==
  <>[][\A s \in Sessions : pc[s] = "idle" => pc'[s] = "idle"]_vars
    => \A s \in Sessions : pc[s] # "idle" ~> pc[s] = "idle"

\* Claimed by MsgCacheManager.h: offline messages survive a crash.
OfflineSurvivesCrash == \A l \in lost : l[3] # "drained"

AllIdle == \A s \in Sessions : pc[s] = "idle"

\* Claimed by MsgCacheManager.h: messages are stored while the receiver is not
\* online and pushed when it logs in, so none waits for a user who is.
NoRowForOnlineUser ==
  AllIdle /\ ~ raced => \A r \in offline, s \in ready : r.usr # user[s]
=============================================================================
