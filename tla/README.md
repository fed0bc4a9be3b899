# Formal models of AIM-Server

TLA+ models of the instant-messaging server in this repository, with the TLC
configurations that check them on small instances and TLAPS proofs of every
safety property for instances of any size.

## 1. The system

AIM-Server is one C++ process and several Go services.

| Part | Code | State | Operations |
|---|---|---|---|
| Session registry, login, presence | `IMSer.cpp`, `ClientSession.cpp` | `m_mapclient` (address -> session), `m_user` of each session, `User::status` in UserManager's cache | connect, close, login, friend list, `GetSessionByID` |
| Chat routing | `ClientSession.cpp` | locals of the handler | single, group and multi chat, `SendContainer` |
| Offline messages | `MsgCacheManager.cpp` | table `t_offline_msg`, `m_mutex` | `AddChatMsgCache`, `FetchAndDeleteOfflineMsg` |
| Chat persistence | `RabbitMqPublisher.cpp`, `GoChatPersister` | broker connection, queue, unacknowledged deliveries, table `t_chatmsg` | `Publish`, fallback `SaveChatMsgToDb`, `consumeOnce` |
| Chat history and answers | `ClientSession.cpp`, `UserManager.cpp` | `m_seq`, table `t_chatmsg` | `OnGetChatHistoryResponse`, heartbeat, the assistant's reply |
| Schema | `MySqlManager.cpp`, `QueryResult.cpp` | the tables as an earlier start left them | `Init`, `CheckTable`, `CreateTable`, `UpdateTable` |
| MySQL pool | `MySqlManager.cpp`, `mysqltool.cpp` | `m_idle`, `m_poolCv`, a `MYSQL*` per connection | `acquire`, `release`, `Query`, `Execute`, reconnect |
| Accounts | `UserManager.cpp`, `ClientSession.cpp`, `PasswordUtil.h` | `m_cachedUsers`, `m_mapUsers`, `t_user`, a snapshot per session | register, update profile, change password |
| Relations, requests, groups | `UserManager.cpp`, `ClientSession.cpp` | `t_user_relationship`, `t_friend_request`, `t_group_admin`, cached friend and admin sets, `m_baseGroupID` | request, approve, release, create, join, leave, kick, rename, set admin |
| gRPC clients | `AgentGrpcClient.cpp`, `MailGrpcClient.cpp`, `AvatarGrpcClient.cpp` | pending calls | asynchronous assistant reply, blocking mail and avatar calls |
| Framing | `IMCodec.cpp`, `ProtobufCodecLite.cc` | input buffer | split the byte stream into messages |
| muduo `net/` | `EventLoop.cc`, `TcpConnection.cc`, `TcpServer.cc`, `Channel.cc`, `poller/`, `TimerQueue.cc`, `Connector.cc`, `TcpClient.cc` | pending functors, connection state, buffers, interest lists, timers, the attempt to connect | `runInLoop`, `send`, `shutdown`, `handleClose`, `updateChannel`, `addTimer`, `cancel`, `retry` |
| muduo `base/` | `ThreadPool.cc`, `BlockingQueue.h`, `BoundedBlockingQueue.h`, `CountDownLatch.cc`, `AsyncLogging.cc`, `LogFile.cc`, `Date.cc`, `TimeZone.cc` | queues, condition variables, log buffers, the transitions of a zone | put, take, run, stop, append, flush, conversions of times |
| GoMailServer | `codestore.go`, `mail.go` | codes with expiry, last send, attempts | generate, verify, clean up |
| GoImageServer | `filestore.go`, `objectstore.go`, `avatar.go` | files or objects per user | save, delete, find, serve |
| GoMediaServer | `http.go`, `storage.go` | immutable uploads | upload, download |
| goagent | `memory.go`, `redis.go`, `limiter.go`, `retriever.go`, `agent_service.go` | key-value cache with expiry, daily counters, vector index | history, quota, VIP, indexing, LLM call |

How they interact.  A client's connection belongs to one of `IMSERVER_THREADS`
IO loops; its handlers run there one after the other and interleave with those
of all other connections.  A handler looks sessions up in the shared registry,
writes to a session of another loop by queueing a functor in that loop, runs
SQL statements on a connection borrowed from the pool, publishes chat messages
to RabbitMQ and makes gRPC calls.  GoChatPersister consumes the queue and
writes the history.

What is hard.

* Loops share the registry, the user cache and the offline table.  `OnClose`
  changes the registry without the lock that `GetSessionByID` takes; a lookup
  and the use of its result are separate steps; the offline `DELETE` names a
  user and not the rows that were read.
* A crash between two SQL statements, or between a statement and the write to
  a socket; statements whose failure nobody looks at.
* At-least-once delivery from the broker, publishes without confirmation, two
  ways (queue and fallback) for a message to reach the table.
* The condition variable of the pool and connections that break under it.
* The same account lives in a row, in a cached object and in a copy per
  session, and handlers write from the copy.
* Services that carry on after their caller's deadline, expire things while
  they are used, and write files without locks.
* Loops, channels and connections that other threads queue work for while
  they close; timers cancelled from callbacks; a full output buffer.

What makes each part correct: no accepted message disappears without a known
reason, none is delivered twice, offline messages keep their order, nobody
misses that a friend is online, every handler ends (sessions, routing, offline
messages); every message of a finished handler is stored or with the broker,
second rows come only from redelivery, the queue drains (history); connections
are exclusive and not leaked, no wakeup is lost, statements end, the pool
recovers (pool); table and cache of a relation agree once handlers are done,
friendship is mutual, groups keep their owners, an accepted request has made
its relation, only entitled users remove one (relations); a code verifies once
and every account rests on one, what a client was told is stored stays
(accounts); a filed request becomes known under its own id (request push); a
history is the end of its conversation (answers); a start leaves the declared
tables (schema); quota and history follow what happened, an answer rests on
the owner's messages (goagent); an id has its last picture, a link keeps
its upload (files); loops do not sleep on work, objects are not freed in use, output
and frames keep their order, timers and queues lose nothing (muduo).

`PROJECT.json` lists the components with their status, the hazards at their
lines, and the source lines of every definition.

## 2. Modules

| Module | Models |
|---|---|
| `ChatDelivery` | registry, login, presence, chat routing, offline table |
| `ChatMailbox` | what `ChatDelivery` promises for one message and receiver: pending, then delivered or lost, never undone |
| `MCChatDelivery` | the friend, member and login relations of TLC's instances |
| `ChatPersistence` | publisher with fallback, broker and MySQL (external), GoChatPersister |
| `MySqlPool` | connection pool and reconnecting connection |
| `Relations` | friendships, memberships, admins, requests, groups: tables and user cache |
| `MCRelations` | symmetry of the handlers for TLC |
| `Registration` | mailed codes and `AddUser`, over GoMailServer |
| `Accounts` | profile, password, avatar and group name: row, cache, session copies |
| `RequestPush` | filing and pushing a request over the connection pool, the pending list |
| `ChatHistory` | chat histories and the number of an answer |
| `Schema` | `MySqlManager::Init` |
| `Agent`, `Retrieval` | goagent: quota and history; incremental index and search |
| `AvatarStore`, `MediaStore` | GoImageServer, GoMediaServer |
| `Connections` | event loops, accept, connections, sends of other threads |
| `Pollers`, `Timers`, `Connector` | the two pollers, `TimerQueue`, the reconnecting client |
| `Framing` | `Buffer` and the codec |
| `WorkQueue`, `AsyncLog` | thread pool and blocking queues; the asynchronous logger |
| `Calendar`, `Zones` | dates and time zones |
| `MCServerCore`, `MCServices` | the muduo parts, and the accounts and services, for TLC |
| `ChatDeliveryProofs`, `ChatPersistenceProofs`, `MySqlPoolProofs`, `RelationsProofs` | theorems and proofs about the module of the same name |
| `CoreProofs` | proofs about `WorkQueue`, `Framing`, `AsyncLog`, `Calendar`, `Zones` |
| `NetworkProofs` | proofs about `Connector`, `Pollers`, `Timers`, `Connections` |
| `AccountProofs` | proofs about `Accounts`, `ChatHistory`, `RequestPush` |
| `ServicesProofs` | proofs about `Registration`, `Schema`, `Retrieval`, `AvatarStore`, `MediaStore`, `Agent` |

### ChatDelivery

One process per connection.  A handler is cut where it takes or leaves a lock,
runs an SQL statement or hands bytes to another loop; `pc[s]` says which step
comes next and `job[s]`, `batch[s]` hold the handler's locals.

* Login: `Login` (`m_user` is assigned before the password is checked),
  `LoginRejected` or `LoginAccepted` (VIP query, `SetUserStatus`, response),
  `FetchOffline`, `DeleteOffline` (under `m_mutex`), `PushOffline` for each
  row, then for each friend a lookup and `Tell`, `LoginDone`.
* Chat: `OnChat`, `OnGroupChat` or `OnMultiChat`, then for each receiver
  `Route` (`GetSessionByID`) and `SendContainer` or `AddChatMsgCache`.
* `inbox[s]` holds the sends that other loops queued (`TcpConnection::send`),
  `SendInLoop` runs them between handlers.
* `OnCloseDuringLookup` is the data race between `OnClose` and
  `GetSessionByID`: the lookup may return any match, the closing session or
  nothing.
* `FetchFails`, `DeleteFails`, `InsertFails` are statements that fail while
  the handler carries on.  `Crash` loses everything but the table.

Connections are numbered by address because `m_mapclient` is ordered by it and
`GetSessionByID` returns the first match.  Every connection has a loop of its
own, the most concurrent deployment; fewer loops only remove interleavings.
A message is sent once.  `accepted`, `handed`, `lost`, `seen`, `ready`,
`synced` and `raced` record history.  `GetNotifyMsgCache` has nothing to fetch,
as nothing in the repository calls `AddNotifyMsgCache`.  The targets of a multi
chat are distinct users.  Requests on a connection that never logged in
dereference a null `m_user`; in the model they end the process, i.e. `Crash`.

### ChatPersistence

`pc[m]` follows `OnChatResponse` for message m: `EnsureConnected`,
`BasicPublish`, and `SaveChatMsgToDb` when that failed.  The broker is a durable
queue with a FIFO of ready and one of unacknowledged deliveries; `socket` holds
what was published and is not on the broker's disk.  Assumed of RabbitMQ: a
publish without the mandatory flag that no binding matches is dropped, queued
persistent messages survive a restart, deliveries of a closed channel return to
the front.  `Subscribe`, `Receive`, `Save`, `Ack`, `NackRequeue` and
`Disconnected` are `Run` and `consumeOnce`.  `SaveFails` is an `INSERT` that
fails because MySQL is away, one that ran although an error was returned, and
one that MySQL refuses however often it is tried, of a message in `TooLong`
that a column of `t_chatmsg` has no room for: it is requeued for ever.  `LinkLost`, `ChannelLost`, crashes
of each program, MySQL stopping and events of other publishers that do not
parse happen at any time, `MaxFaults` of them in all.

### MySqlPool

Threads inside `Query` or `Execute`, the stack `idle` (`m_idle`), the wait set
of `m_poolCv` (`pc = "wait"`) and the state of each `MYSQL*`: open, broken (the
server closed it, the client does not know yet), closed or null (a reconnect
failed).  `Release` and `NotifyOne` are two steps, since `notify_one` comes
after the unlock.  `SpuriousWakeup` is what the standard allows.

### Relations

A handler is one client request in progress, in any session.  It is cut at
every SQL statement and at the change of the cache that follows under
`UserManager::m_mutex`; `job[h]` holds its next step and its locals.

* A relation ("fact") is a pair of accounts, the smaller id first, or a group
  and an admin.  `rows` is `t_user_relationship` and `t_group_admin`,
  `friends`, `admins` and `owner` are the fields of the cached `User` objects.
  The tables have no unique key; a second row of a pair changes nothing that
  the code can see, so `rows` is a set.
* `Insert` then `Put` are `MakeFriendRelationship` and the INSERT of
  `SetGroupAdmin`; `Remove` then `Erase` are `DeleteFriendToUser`,
  `ReleaseFriendRelationship` and the DELETE of `SetGroupAdmin`.  `Put` keeps
  the early returns: with an unknown smaller id nothing is cached, with an
  unknown greater id one side is.
* `AddFriend`, `DeleteFriend`, `InviteDirectly`, `KickGroupMember`,
  `SetGroupAdmin`, `CreateGroup`, `AskFriend`, `AskInvite`, `AskJoin`,
  `RejectRequest` and `AcceptRequest` are the handlers up to their first
  statement.  The ids a client sends are arbitrary, except where the handler
  tests them.
* `m_baseGroupID++` is a load (in `CreateGroup`), a store (`StoreBase`) and a
  read (`TakeId`) that other handlers interleave with: it is a data race.
  `f_user_id` is the primary key of `t_user`, so `AddGroupRow` fails on an id
  that is taken.
* Every statement may fail, with its effect in the table or without
  (`InsertFails`, `RemoveFails`, ...).  `Restart` reloads the cache and drops
  the handlers; the load of one account's relations may fail and leave its set
  empty, which `init` tolerates.

History: `loose` holds relations whose opposite writes overlapped or whose
write was reported failed, `torn` those that only one cached side shows,
`removed` those deleted after somebody asked for them, `doubled` requests whose
look-ups overlapped or failed, `created` the groups whose creation was
confirmed.  They name the exceptions in the properties; TLC reaches all of them.
Table and cache can thus disagree until the next restart: after an insert and a
delete of one pair overlapped, after a statement was reported failed that had
run, or where an account was missing; the properties say that nothing else does
it.

Left out: notifications to other sessions (they change no state here) and the
text of a request.  The id that is pushed with a request is `RequestPush`'s;
here a user may answer any request addressed to him, which covers every id.
`RenameGroup` changes names only and is in `Accounts`.

Read off the code, without a run: `KickGroupMember` leaves the member's admin
entry, so he is an admin again after rejoining; `HandleRequest` does not look at
`f_status`, so a rejected request can still be accepted and the last answer
stands; type 3 of `OperateFriend` tests neither who asks nor whether the
group exists.

### Registration, Accounts, RequestPush, ChatHistory, Schema

`Registration`: sessions ask GoMailServer for a code and register with one.  A
gRPC call is a record of `calls` with the state it is in; a session waits for
its call until the answer or the deadline (`Deadline`), while the service may
still carry it out.  `CodeStore`'s methods are one step each, since they hold
`mu`; the SMTP call is a step of its own between `Generate` and the answer.
`AddUser` holds `m_mutex` throughout.  Its `INSERT` may run and be reported
failed (`AddUserUnclear`): the row is then not in the cache, and as the counter
has not moved, every later `INSERT` draws the same id and fails until
`ServerRestart` reads the table.  `issued` and `proof` record, for each code, its
fate, and for each account the code behind it.

`Accounts`: row, cached object and the deep copy `m_user` of each session.  A
handler computes the new columns from its copy, runs the `UPDATE`, then changes
the cache; `mixed` names accounts whose handlers crossed between those two
writes, `undone` those to which a handler wrote profile columns from an old
copy, or told its client of an avatar that was not stored, `doubtful` the columns
whose `UPDATE` ran and was reported failed (`WriteRowUnclear`), until they are
written again or read at a restart.  The properties say that nothing else
disturbs an account, and in particular that the password is never among the
columns an old copy writes back.

`RequestPush`: a statement borrows a connection, runs and gives it back, so
that `LAST_INSERT_ID()` may be asked on another than the `INSERT` used.  The
pool is a stack, and a thread that nobody disturbs gets its own connection
back: `PushNamesItsRow`.  The receiver has several sessions, each of which logs
in, asks for its list and closes at any time.  `GetSessionByID` returns any one
of those that are on, the model's reading of "the first in the map"; while
`OnClose` erases one (`Close`, then `Closed`) it may also return that one, or
none.  `InsertUnclear` is an `INSERT` that ran and was reported failed: the row
is pending and nobody is told.  `RequestIsKnown` names these exceptions.

`ChatHistory`: frames of one client in order, each with its number, handled one
at a time; messages get into `t_chatmsg` directly or later through the queue,
with the date of their sender.  The client may connect again, which makes a new
session.  The assistant's answer comes from a thread of its own, which holds a
plain pointer to its session and takes `m_seq` as it is then.  When the session
has been freed meanwhile, what happens is undefined, and the model has the three
outcomes a build can show: nothing is sent (`FreedReplyIsLost`), the server goes
down (`FreedReplyCrashes`), or the answer goes out on the session that has taken
the memory (`FreedReplyStrays`), which may be another user's.

`Schema`: one step per statement and per row of `desc`; starts are repeated
over failures and crashes.

### Agent, Retrieval, AvatarStore, MediaStore

`Agent`: a request of `ProcessMessage` counts against the quota under the key of
its day, calls the provider, and appends question and answer to the history;
the Redis cache does each of these atomically, the memory cache reads and
stores the history in two steps.  Cache loss, a new day, VIP upgrades, failing
calls and callers that are gone happen in between.  A Redis command that failed
may have run.  `ProcessMessageUnsure` is a look-up of the VIP mark that fails,
after which a VIP is judged as a free user; `AllowUncounted` a count that fails,
after which the request passes: such requests are `admitted` and also `waived`.
A command is tried once; go-redis's own retries are not modelled.

`Retrieval`: `EnsureIndexed` under `mu`, one step per call to MySQL, the
embedding service or the store, each of which may fail in the middle of the
batches; then the search, of which any `TopK` of the owner's points may be the
result.

`AvatarStore`: requests for an id process, list, remove and write in separate
steps and in parallel; two ids of which one is a prefix of the other.  A write
that fails leaves nothing, a part or the whole file, and a `PutObject` given up at
its deadline may still arrive (`PutTimesOut`, `LatePut`).  `os.WriteFile` is one
step, of which `WriteFails` may leave a part.  `settled` is what an id must have if
its requests came one at a time: after a failed upload that is what could not be
removed, as the old picture is gone by then.  `AvatarStands` cannot say more than
the code gives; `PictureRemains`, in terms of `Find`, is the part of it that
holds over overlapping uploads.
`MediaStore`: a name is the time in nanoseconds and six random bytes; two draws
within one nanosecond are taken to differ, everything else about names, also after
restarts, failed and late writes, is checked.  Writing is creating and filling.
`ResolveDir` falls back to the working directory when `os.Executable` fails
(`told`), and a restart may begin in another one.

### Connections, Pollers, Timers, Connector

`Connections`: loops with `phase`, the active channels of the round, pending
functors, the batch swapped out of them and the eventfd; connections with
state, channel, buffers and the references that keep them alive; threads that
found a session and send to it.  A functor names the references it holds:
`send` binds the raw `this`, everything else a `shared_ptr`.  `Destroyed` is
that no reference is left, and `dangling` records functors that ran on such an
object.  One happens: a send queued after `connectDestroyed` was, by a thread
that still holds the session.  The branch of `connectDestroyed` for a connection
that is still up is reached from `~TcpServer` only, which is not modelled.

`Pollers`: the interest list of epoll and the array of poll(2) with its negated
and moved entries.  `Timers`: the heap with reused addresses, both sets, the
timerfd, callbacks that add and cancel; `ReadSequence` is the second half of
`addTimer`, which reads the timer's number after it was handed to the loop, when
it may be gone and its address another timer's.  `Connector`: the loop's rounds, the
user's `connect`, `disconnect` and `stop`, flags written one by one; `overtaken`
is the case that `restart`, reading `connect_` early, overtakes `stop`, after
which an assertion can fail.

### Framing, WorkQueue, AsyncLog, Calendar, Zones

`Framing` keeps `Buffer`'s indices, its moves and its growth, the codec's loop
and its verdicts on damaged frames; a cell stands for some bytes and the stream
is cut anywhere.  `WorkQueue` has the three queues of muduo over one monitor,
with signals that wake any sleeper, and spurious wakeups.  `AsyncLog` keeps the
buffers, the swap, the drop on overload, the refill, the rolling of files and
writes of which the disk takes only the beginning (`DiskTakes`), after which the
rest of the buffer is gone;
its main property compares the lines in files and buffers, in the order in which
they stand or will stand on disk, with those appended.
`Calendar` walks day by day over the ends of months, leap years and centuries
and compares `Date.cc` and `BreakTime` with the count.  `Zones` builds every zone
within its bounds, entry by entry, and compares the searches with the instants
that really show a local time.

## 3. Runs

| Run | Instance | Shows |
|---|---|---|
| `delivery` | 3 connections, one user on two of them, 1 message, 1 failing statement | `TypeOK`, `NoSilentLoss`, `AtMostOnce` |
| `delivery_order` | 2 users, 2 messages (interchangeable) | `NoSilentLoss`, `OfflineFifo` |
| `logins` | 2 users who are friends, 1 message, weak fairness | `PresenceKnown`, `HandlersFinish`, `ImplementsMailbox` |
| `crash_loss` | as above | violated: `OfflineSurvivesCrash` |
| `stuck_row` | as above | violated: `NoRowForOnlineUser` |
| `persistence` | 3 messages, one of them too long, 1 alien event, prefetch 2, 2 faults, weak and strong fairness | `StoredOrPending`, `OneRowUnlessRedelivered`, `QueueDrains` |
| `publish_loss` | no faults | violated: `PublishedIsNotLost` |
| `duplicate_rows` | 2 faults | violated: `IdempotentConsumer` |
| `pool` | 4 threads, 2 connections, weak fairness | `EveryConnectionOnce`, `NoLostWakeup`, `StatementsFinish`, `PoolHeals` |
| `relations` | 2 handlers (interchangeable), 2 users, 1 group, 3 requests, 1 fault, up to 1 relation at the start | `TypeOK`, `RowsMatchCache`, `FriendsMutual`, `CreatorOwns`, `AcceptedStands`, `PendingOnce`, `RemovedByEntitled` |
| `core` | `Connections`, `Timers`, `WorkQueue`, `Framing`, `AsyncLog`, `Connector`, `Pollers`, `Calendar`, `Zones`, one at a time, weak fairness | `ConnectionsSound`, `TimersSound`, `QueueSound`, `FramingSound`, `LogSound`, `ConnectorSound`, `PollersSound`, `TimesAreRight`, `LibraryProgress` |
| `services` | `Registration`, `Accounts`, `RequestPush`, `Schema`, `Agent`, `Retrieval`, `AvatarStore`, `MediaStore`, `ChatHistory`, one at a time, weak fairness | `RegistrationSound`, `AccountsSound`, `RequestsArrive`, `SchemaReady`, `AgentSound`, `RetrievalSound`, `FilesStand`, `HistorySound`, `ServicesProgress` |

`core` and `services` check components that share no variable.  `part` chooses,
in the initial state and for good, the component that runs; the others rest in
one of their initial states.  A behaviour of the sum is thus a behaviour of one
component, and its property holds in the sum iff it holds of the component's own
specification.  Each `...Sound` is the conjunction of the component's
invariants, which its module states and explains one by one; the two
`...Progress` are the conjunctions of the liveness properties.

Why these bounds.  `delivery` needs two connections of one user, so that two
logins fetch the same rows, and a third connection to send.  `delivery_order`
needs two messages: only with a second row can a `DELETE` remove one that was
not fetched, or two rows come in the wrong order.  One failing statement is
enough for each of the three failing steps and what follows it.  Crashes and
closes are not bounded.  In `persistence` two messages compete for the
publisher's mutex and the queue beside a third that comes back for ever; two
faults allow, for instance, a lost channel and a MySQL outage, or an unclear
`INSERT` and a crash, in one behaviour.  In `pool` two threads
wait while two hold connections, so notifications, barging threads and spurious
wakeups meet.  In `relations` two handlers suffice for every pair of overlapping
statements, one group id for two creations that race for it, and three requests
for the longest chains (create a group, ask, answer; or make, remove and make
again); a relation and a group may exist at the start, as if earlier requests
had made them.  Accounts that do not exist occur as groups; unregistered users
only in the proofs.

In `core`: one connection of one IO loop, a sender thread, a message of two
chunks, one request or bad frame, one refused client; two timer addresses and
two timers, so that an address is reused; two workers and two producers with two
tasks each on a queue of one; two frames of up to four cells in a buffer of
five that reads four more; two logging threads with two lines each, buffers of
one line and an overload of more than two; three changes of the server's
availability and a delay that doubles to its maximum; four channels on two
descriptors; 800 days from the eves of 1900, 1970, 2000 and 2100; zones of two
types and three transitions.  In `services`: two sessions, one mail address,
three calls, two wrong guesses and one unclear `INSERT`; two devices, three
account requests and two failed statements or restarts; two senders on one pooled
connection and two sessions of the receiver; two tables of two columns and a
foreign one; two requests of one user over two days, quotas of none and one, a
history of two, two faults; two owners, two rows, two questions, batches of one;
two ids, three uploads, two at a time, three seconds (with fewer no file could be
left beside another); two media uploads, of one time or two, and two faults; two
messages, two frames and one reconnection with a history of one.  The others allow
one fault (a failing statement, call or write), and a failing call may have had
its effect.  In these instances every action fires and every exception that the
properties name is reached (`dangling`, `overtaken`, `mixed`, `undone`, `doubtful`,
`unsaid`, `waived`, `crossed`, `forgot`, `spoiled`, `suspect`, `leftover`, ...).

Three things are beyond these bounds and in the theorems only: an `AddUser` whose
`INSERT` meets the row of an unclear one before a restart (`~ Fresh`, which takes
four calls), the choice among several pooled connections in `PushNamesItsRow`
(with one, a thread that nobody disturbs gets it back in any case), and more than
one fault in `AvatarStore`.

Deadlock is checked for the pool, which never stops.  The other systems end
when every message has been sent and clients are quiet.

Fairness.  `ChatDelivery`: weak fairness of `Proceed(s)`, the steps by which a
loop carries on with the handler it has begun or with its queue; an IO thread
is not stopped.  Nothing is assumed of clients, and `HandlersFinish` is
therefore conditional on no new requests: a `std::mutex` does not promise that
a waiting handler beats new ones for ever.  `ChatPersistence`: the consumer's
loop runs and the broker serves sockets and queue, and strong fairness of the
delivery of each event: the broker uses the credit the consumer gives it, so that
an event that is again and again first in the queue while the prefetch has room
is delivered, although one in front of it is requeued for ever.
`QueueDrains` assumes that MySQL and the broker eventually stay up and that fewer
messages than the prefetch are refused for good: with as many, they may fill it
for ever.  `MySqlPool`: a thread inside a
statement goes on; `StatementsFinish` is conditional on no new statements, for
the same reason as above, and `PoolHeals` on a server that stays up and stops
closing connections.

`core`: the loops, workers, producers, sender and logging threads go on with what
they have begun, and time passes for the timers; nothing is assumed of clients,
of producers' next tasks or of the server a client connects to (`Reconnects` is
conditional on its being up).  A process that failed an assertion of `Connector`
takes no more steps.  `services`: a session waiting for the mail service runs
into the answer or its deadline, the ticker of `CodeStore` runs, `Init` goes on, and
so does a retrieval, whose calls return or fail.  Without the deadline or the
ticker (ten seconds in `MailGrpcClient.cpp`, one minute in `codestore.go`) the
properties would not hold.

### Disagreements between code and documentation

* `crash_loss`: `MsgCacheManager.h` promises that offline messages survive a
  crash; rows are deleted before they are pushed.
* `stuck_row`: the same comment says that messages are stored while the
  receiver is not online and pushed at login; a login that falls between
  lookup and `INSERT` leaves a row that waits for the next login.
* `publish_loss`: a comment in `OnChatResponse` says that falling back to the
  database keeps messages from being lost; a publish that no queue is bound for
  succeeds and the message is dropped.
* `duplicate_rows`: the README claims idempotent consumption; a redelivered
  message is inserted again.

Met while modelling, and visible in an action or a history variable rather than in
a run; the properties name them as their exceptions:

* `dangling` of `Connections`: `TcpConnection::send` queues a functor with the raw
  `this`; one queued after the connection was closed runs on a freed object.
* `overtaken` of `Connector`: `restart` sets `connect_` while `stopInLoop` is still
  queued, and `startInLoop` may then find a state that it asserts not to be in.
* `alone` of `RequestPush`: `LAST_INSERT_ID()` may be asked on another connection
  than the one that inserted.
* `unsaid` and `pushes` of `RequestPush`: of several sessions of a user only the
  first gets the push, a look-up during an `OnClose` may find none (`IMSer.cpp:82`),
  and a request whose `INSERT` ran and was reported failed stays pending without a
  push.
* `undone` of `Accounts`: a profile update writes back columns of an old copy, so
  that two devices overwrite each other's change (`ClientSession.cpp:644`); an
  avatar is confirmed although its `UPDATE` failed (`ClientSession.cpp:1190`).
* `OnModifyPassword` of `Accounts`: the old password is compared with the session's
  copy, so that one which another device has changed is still accepted
  (`ClientSession.cpp:697`).
* `doubtful` of `Accounts`: an `UPDATE` that ran and was reported failed leaves the
  cache with the old value until a restart.
* `unclear` of `Registration`: the row of an `INSERT` that ran and was reported failed
  makes every later registration fail until a restart (`UserManager.cpp:77`).
* `TooLong` of `ChatPersistence`: a message that does not fit its column is requeued
  and refused for ever (`consumer.go:131`), the loop that line 126 avoids for events
  that do not parse.
* `doubled` of `Relations`: two look-ups that overlap file one request twice
  (`UserManager.cpp:561`).
* `FreedReply...` of `ChatHistory`: the assistant's callback uses a session that may
  have been freed (`ClientSession.cpp:929`); it can crash the server or answer on
  another user's session.
* `ReadSequence` of `Timers`: `addTimer` reads the number of a timer that may be gone
  (`TimerQueue.cc:123`); the caller may get another timer's `TimerId`.
* `dropped` of `AsyncLog`: lines that the disk refuses are gone; `append` gives up the
  rest of the buffer (`FileUtil.cc:46`) and `flush` does not look.
* `waived` and `due` of `Agent`: with Redis unreachable every request passes
  (`limiter.go:90`), and a VIP whose look-up fails is refused at the free limit
  (`limiter.go:70`).
* `crossed` of `Agent`: of two overlapping appends to the memory cache one is lost
  (`memory.go:81`).
* `spoiled` of `AvatarStore`: a failed write leaves an id without a picture, as the old
  one is removed first (`filestore.go:61`).  Overlapping uploads can leave two
  files, of which `Find` returns the older; and two uploads within a second have one
  URL, which the comment at `storage.go:39` excludes.
* `told` of `MediaStore`: when `os.Executable` fails, media go to the working directory,
  the case the comment at `filestore.go:16` wants to avoid.
* `Retrieval`: the comment at `retriever.go:17` gives the scope as all private and group
  chats that involve the owner; `loadUserTextMessages` (`db.go:40`) finds of a group
  only what the owner sent there.

## 4. Proofs

Every invariant and every action property that a run checks is also a theorem,
and so is the refinement: 36 theorems in 8 modules.  They hold for any number of
connections, loops, users, messages, threads, crashes and failing statements,
under the `ASSUME`s of the modules, which TLC evaluates in every run.

Assumptions.  `ConstantsAssumption` and `FriendsAssumption` (distinct model
values, friendship is mutual), `PersistenceAssumption`, `PoolAssumption`,
`RelationsAssumption` (finite sets, typed relations).  In `MCServerCore`:
`QueueSizes` (there is a worker), `Descriptors`, `TimerSettings` (numbers are
numbers), `FrameSettings` (room for the length in front: `kCheapPrepend` is 8),
`LoopSettings` (an IO loop, threads of different kinds differ), `LogSettings`
(the limit of buffers, 25, is not zero), `CalendarSettings` (dates to start from
exist and have the numbers given), `ZoneSettings` (transitions are further apart
than offsets differ, what real zone files satisfy and `upper_bound` over local
times relies on).  In `MCServices`: `IdsApart`, `CodeSettings`,
`ExistingAccounts`, `SomeTables`, `NoAskIsNone`, `PoolSettings`,
`AvatarSettings`, `HistorySettings`, and `AgentSettings`, of which one part is of
interest: the length of a history is even (`maxLen` is 100 in
`openai_provider.go`); with an odd one, trimming would cut a turn in two.

The theorems about the parts of `core` and `services` are stated of the
specifications of `MCServerCore` and `MCServices`, whose properties the runs
check; the invariant of a part is `part = "..." => ...Inv`, and a lemma
(`ConnRuns`, `LogRuns`, ...) says that while a part runs, its steps are those of
the component's own `Next`.

### The inductive invariants

* `ChatDeliveryProofs`.  `TypeCorrect`: `TypeOK` is not inductive, because a
  handler's later step uses what an earlier one left in `user[s]` and `job[s]`;
  `TypeInv` adds `HandlerInv`.  `CriticalSection`: `LockInv`, a login about to
  delete holds the lock and has fetched all rows its `DELETE` will remove.
  `NeverSilentlyLost`: `NoSilentLoss` relative to both; `LockInv` is what the
  `DeleteOffline` step needs, `HandlerInv` (a batch is empty outside a login) is
  what `FetchOffline` needs.  `WrittenAtMostOnce`: a message has one home at a
  time for each receiver (a row, a batch, a queue, a handler's locals), so
  `FetchInv` and `Traced` follow it from one to the next.  `OfflineInOrder`:
  `FifoInv`, the rows and the batch in hand are in the order of arrival, and what
  was seen is before them.  `PresenceNeverMissed`: `ToldInv`, between `m_user` and
  the end of a login's round one of two friends still has the other to tell.
  `ServerImplementsMailbox`: a step of the server is, for each message and
  receiver, a step of `ChatMailbox` or none; the mapping needs that what is lost
  or delivered is so for good (`MapInv`).
* `ChatPersistenceProofs`.  `PersistenceTypes` and `AckAfterSave`: `TypeOK` and
  `WorkerInv` (the delivery worked on is the oldest one not acknowledged, what is
  acknowledged has its row) are inductive together.  `NothingVanishes`:
  `StoredOrPending` relative to both.  `OneRowEach`: the copies of a message on its
  way are counted, and there is one unless it was redelivered or published by
  both ways.
* `MySqlPoolProofs`.  `ConnectionsExclusive`: `PoolInv` is `TypeOK` with
  `EveryConnectionOnce`, by lemmas on popping and pushing the stack.
  `WakeupsKept`: `NoLostWakeup` relative to `PoolInv`, counting idle connections
  against woken and notifying threads.
* `RelationsProofs`.  `RelationTypes`, `TableMatchesCache`, `FriendshipMutual`,
  `GroupsKeepOwner`, `AcceptedMade`, `FiledOnce`, `RemovalEntitled`: all seven
  properties of the run, from one inductive invariant `IInv`.  What it adds to
  them: `JobsOK` and `TakeInv` (what a handler has in hand at each step),
  `OwnerInv` (cached owners are those of the table), `MidwayInv` (between statement
  and cache the row is still as the handler left it, or the relation is loose,
  which `Put` and `Erase` need), `RemoveInv` (the owner who began a removal is still
  the owner), `AcceptInv` and `FileInv` (the same for a request about to be marked
  or filed).  Steps are grouped by what they touch (`StepKinds`).
* `AccountProofs`.  `AccountsStand`: `CopyInv`, a copy that stems from the row's last
  write has its columns, with `WindowInv` (what a handler between `UPDATE` and cache
  has in hand) and `KeptInv`, in all of which the columns in doubt are left out.
  `HistoryStands`: `HistInv`, the answer given is the newest end of the conversation
  as it was then (`Newest`), and `m_seq` is a number of a frame received (`Told`).
  `RequestsAreKnown`: `PushInv`, the sender's thread carries a filed row until it
  is on the screens that were open, pushed to one session, or unsaid (`WorkInv`,
  `KnownInv`), and a connection is idle or in one hand (`HeldInv`).
* `ServicesProofs`.  `RegistrationStands`: an entry of `CodeStore` is tied to what
  became of its code (`EntryInv`), and a verified code is in one hand (`CallInv`,
  `HandInv`); the ids of the rows follow one another, and the counter is at the last
  or one behind it (`RowIds`).  `SchemaStands`: `ProgressInv`, the tables before the one worked on are
  as declared.  `RetrievalStands`: `PointInv`, `MutexInv`, `PaidInv`.  `FilesStay`:
  names of uploads differ, and a link is a file of an upload that is over
  (`MediaInv`); a request that is alone with its id knows its files, and nothing
  can still arrive under the name it writes (`AsksInv`, `LateOk`, `SettledInv`); an
  id that is not spoiled has a file or an upload that will write one (`RemainsInv`);
  the files newer than one, and the requests that may still write beside it, were
  all under way when it was written (`PileInv`).  `AgentStands`:
  the counter of a day stands between the requests it let pass, those waived aside,
  and the counts, and who was told to be a VIP is marked (`CountInv`); and
  what was stored are whole turns but for the one under way (`TailInv`, `TurnInv`).
* `CoreProofs`.  `QueuesAreSound`: `RoomInv` counts the producers a queue with room has
  woken, `KeepInv` follows each task.  `FramingStands`: `FrameInv`, the cells in the
  buffer and those on the way are one stream in which the frames not yet delivered
  stand one behind another, up to the first damaged one.  `LogStands`: `LogInv`, the
  five places where lines stand (files, stdio, buffers to write, filled ones, the
  current one) are one chain, in the order of each thread's lines, and what is in
  it is what was appended and neither dropped nor refused by the disk; `RefillInv` says how many buffers the
  thread has at least when it refills.  `TimesStand`: `DateInv`, the date is day d of
  month k of a year Y that begins in March, and `day` is its number; this is the
  form from which both conversions can be computed, by centuries of four kinds and
  the one leap day at the end.  `ZoneInv`: transitions are apart, so that only the
  last two not after a local time can show it (`LastTwo`); the three branches of
  `findLocalTime` are the cases of that.
* `NetworkProofs`.  `ConnectorStands`: whatever may still start or end an attempt is
  counted, and there is at most one (`Load`), with `ReadyInv`, `StopInv`, `OffInv`.
  `PollersStand`: `KernelInv` and `ArrayInv`, the index of a channel says where its
  entry is, and the entry is what it asks for.  `TimersStand`: a living timer is in
  one place (`HeapInv`, `IndexInv`, `PlaceInv`), cancellations reach it there
  (`OpsInv`, `CancelInv`), and the timerfd is armed in time (`ArmedInv`).
  `ConnectionsStand`: `LoopInv` (batches, wakeups), `LifeInv` and `DataInv`.  A
  connection passes through stages, and the functors still to run (`Todo`) decide
  how: one functor at most holds it on its way from open to destroyed (`Alone`),
  each fits its stage (`Fitting`), and `connectDestroyed` waits behind every send
  queued before the removal (`Behind`).  `DataInv` is what each stage says of output.

What the proofs changed in the models: two `CASE`s with overlapping branches (in
`MailRestart` and `Parse`) became `IF`s; `AsyncLog`'s property and the second half
of `Date.cc` are stated in smaller steps, without recursion; component modules do
not extend `SequencesExt`, whose definitions every obligation would carry along.

Only model-checked: the liveness properties `HandlersFinish`, `QueueDrains`,
`StatementsFinish`, `PoolHeals`, `LibraryProgress` and `ServicesProgress`, since TLAPS
has no rules here for fairness and `ENABLED`.  The four violations are TLC's
counterexamples.

## 5. Plan

Done: every module of section 2, its runs and, for its safety properties, its
theorems.  The components of section 1 are modelled as far as `PROJECT.json` says,
five of them partly.  What a next step would be:

1. `Connections` with `ChatDelivery` over it: the functor queue of a loop in place of
   `inbox`, with a refinement between them.
2. More of goagent: the expiry of cache entries, retries of Redis commands.

Not modelled, and why:

* muduo's http, inspect and protorpc parts: nothing in the server uses them.
* `forceClose`, `startRead` and `stopRead` of `TcpConnection`: not called.
* The byte layout of zone files, formatting in `LogStream` and `Logging`, protobuf
  encoding, Adler-32, image decoding, password hashing: data, of which the models
  keep the verdict or the size.
* The expiry of entries in goagent's cache other than by day, its prompts and the
  HTTP calls of its language models.
* `FindUser`, `GetGroupMembers` and other handlers that only read and have no
  property beyond their query; the serving of avatars and media over HTTP.
* `~TcpServer` and `connectDestroyed` of a connection that is still up.
* Configuration, generated protobuf code and vendored JSON.
