------------------------------ MODULE Relations ------------------------------
(***************************************************************************)
(* Friendships, group membership, group admins and the requests that lead  *)
(* to them: the relation part of UserManager and the handlers of           *)
(* ClientSession that call it.                                             *)
(*                                                                         *)
(* Every relation exists twice: as a row of t_user_relationship or         *)
(* t_group_admin, and in the User objects that are loaded at start and     *)
(* shared by all sessions.  A handler runs in an IO thread and changes the *)
(* row first, without a lock, and the cache afterwards, under m_mutex.     *)
(* A handler is one request in progress; two handlers may serve two        *)
(* devices of one user.  A group is an account with a large id.            *)
(*                                                                         *)
(* Notifications to the sessions concerned are left out: they change       *)
(* nothing here.  So is what a request carries besides its parties.        *)
(***************************************************************************)
EXTENDS Integers, Sequences, FiniteSets

CONSTANTS
  Handlers,    \* requests in progress
  Users,       \* user ids a client may name
  Registered,  \* the ones with an account; only they send requests
  Boundary,    \* GROUPID_BOUNDARY, also the initial m_baseGroupID
  MaxGroups,   \* bound on group ids
  MaxRows,     \* bound on the relations that exist at the start
  MaxOps,      \* bound on client requests
  MaxFaults    \* bound on failed statements and restarts

ASSUME RelationsAssumption ==
  /\ Boundary \in Nat \ {0}
  /\ Users \subseteq 1..(Boundary - 1)
  /\ Registered \subseteq Users
  /\ MaxGroups \in Nat
  /\ MaxRows \in Nat
  /\ MaxOps \in Nat
  /\ MaxFaults \in Nat

VARIABLES
  rows,      \* the relations in the tables
  ownerRow,  \* f_owner_id of the group accounts in t_user
  requests,  \* t_friend_request in the order of f_id
  friends,   \* User::friends of the cached accounts
  admins,    \* User::admins of the cached groups
  owner,     \* User::ownerid of the cached groups
  base,      \* m_baseGroupID
  job,       \* where each handler is
  ops,       \* client requests so far
  faults,    \* failed statements and restarts so far
  loose,     \* history: relations written by overlapping handlers, or by a
             \* statement that was reported failed
  torn,      \* history: relations only one side of which is cached
  removed,   \* history: relations deleted after a request for them was filed
  doubled,   \* history: requests whose look-ups overlapped or failed
  created    \* history: groups whose creation was confirmed, with the creator

tables  == <<rows, ownerRow, requests>>
cache   == <<friends, admins, owner>>
history == <<loose, torn, removed, doubled, created>>
vars    == <<tables, cache, base, job, ops, faults, history>>

Groups   == (Boundary + 1)..(Boundary + MaxGroups)
Accounts == Users \cup Groups
NoOwner  == 0

\* A relation: two accounts, the smaller id first, or a group and its admin.
Facts == {f \in {"rel"} \X Accounts \X Accounts : f[2] < f[3]}
           \cup ({"admin"} \X Groups \X Users)
Rel(a, b)   == IF a < b THEN <<"rel", a, b>> ELSE <<"rel", b, a>>
Admin(g, u) == <<"admin", g, u>>
NoFact == <<"none", 0, 0>>

\* What a request asks: 1 friendship, 2 invitation to a group, 3 application.
Asks  == {a \in [from : Users, to : Users, type : 1..3, group : Groups \cup {NoOwner}] :
            IF a.type = 1 THEN a.from # a.to ELSE a.group \in Groups}
NoAsk == [from |-> 0, to |-> 0, type |-> 0, group |-> 0]

\* f_status: 0 pending, 1 accepted, 2 rejected.
Requests == [ask : Asks, status : 0..2]

\* The relation that accepting a request makes.
FactOf(a) == CASE a.type = 1 -> Rel(a.from, a.to)
               [] a.type = 2 -> Rel(a.to, a.group)
               [] a.type = 3 -> Rel(a.from, a.group)

\* A handler: its next step, the user (as long as it matters), the relation it
\* writes, the request it accepts, the request it files, the group it creates.
Job(pc, who, fact, req, ask, id) ==
  [pc |-> pc, who |-> who, fact |-> fact, req |-> req, ask |-> ask, id |-> id]
Idle == Job("idle", 0, NoFact, 0, NoAsk, 0)

\* m_mapUsers: the accounts in the cache.
Known(a) == a \in Registered \/ (a \in Groups /\ owner[a] # NoOwner)

\* UserManager::IsFriend
IsFriend(a, b) == b \in friends[a]

\* LoadRelationshipFromDB and LoadGroupAdminsFromDB
FriendsIn(R, a) == {b \in Accounts : b # a /\ Rel(a, b) \in R}
AdminsIn(R, g)  == {u \in Users : Admin(g, u) \in R}

\* UserManager::init on the tables R and O: every account is loaded, then the
\* relations of each.  A query that fails (bad: "rel" or "admin" of an account)
\* leaves its set empty.  m_baseGroupID is the largest group id.
Loaded(R, O, bad, fr, ad, ow, ba) ==
  /\ ow = O
  /\ fr = [a \in Accounts |->
       IF (a \in Registered \/ (a \in Groups /\ O[a] # NoOwner)) /\ <<"rel", a>> \notin bad
         THEN FriendsIn(R, a) ELSE {}]
  /\ ad = [g \in Groups |->
       IF O[g] # NoOwner /\ <<"admin", g>> \notin bad THEN AdminsIn(R, g) ELSE {}]
  /\ ba \in {b \in {Boundary} \cup {g \in Groups : O[g] # NoOwner} :
               \A g \in Groups : O[g] # NoOwner => g <= b}

\* Tables that earlier runs of the server may have left: a relation may name
\* accounts that do not exist and a group's owner may have left it, but only
\* users other than the owner are admins, and only of groups that exist.
EarlierTables(R, O) ==
  \A f \in R : f[1] = "admin" => O[f[2]] \notin {NoOwner, f[3]} /\ f[3] \in Registered

\* The server has just started.
Init ==
  /\ ownerRow \in [Groups -> Registered \cup {NoOwner}]
  /\ rows \in SUBSET Facts
  /\ Cardinality(rows) <= MaxRows
  /\ EarlierTables(rows, ownerRow)
  /\ Loaded(rows, ownerRow, {}, friends, admins, owner, base)
  /\ requests = <<>>
  /\ job = [h \in Handlers |-> Idle]
  /\ ops = 0
  /\ faults = 0
  /\ loose = {} /\ torn = {} /\ removed = {} /\ doubled = {} /\ created = {}

-----------------------------------------------------------------------------
(* Steps of a handler *)

\* A client request of user u is taken up and gets to its first statement.
Begin(h, j) ==
  /\ job[h].pc = "idle"
  /\ ops < MaxOps
  /\ ops' = ops + 1
  /\ job' = [job EXCEPT ![h] = j]
  /\ UNCHANGED <<tables, cache, base, faults, history>>

GoTo(h, pc) == job' = [job EXCEPT ![h].pc = pc]
Done(h) == job' = [job EXCEPT ![h] = Idle]

\* Something outside the server fails.
Fault ==
  /\ faults < MaxFaults
  /\ faults' = faults + 1

\* Another handler is between its statement and its change of the cache.
Midway(h, f, pc) == \E k \in Handlers \ {h} : job[k].fact = f /\ job[k].pc = pc

\* The INSERT of MakeFriendRelationship or SetGroupAdmin.
Insert(h) ==
  /\ job[h].pc = "insert"
  /\ rows' = rows \cup {job[h].fact}
  /\ loose' = IF Midway(h, job[h].fact, "erase") THEN loose \cup {job[h].fact} ELSE loose
  /\ GoTo(h, "put")
  /\ UNCHANGED <<ownerRow, requests, cache, base, ops, faults, torn, removed, doubled, created>>

\* Mutant: the result of Execute is not looked at.
InsertFails_Ignored(h) ==
  /\ job[h].pc = "insert"
  /\ Fault
  /\ GoTo(h, "put")
  /\ UNCHANGED <<tables, cache, base, ops, history>>

\* Execute returns false and the handler gives up.  The row is there all the
\* same if only the answer was lost.
InsertFails(h) ==
  /\ job[h].pc = "insert"
  /\ Fault
  /\ rows' \in {rows, rows \cup {job[h].fact}}
  /\ loose' = IF rows' # rows THEN loose \cup {job[h].fact} ELSE loose
  /\ Done(h)
  /\ UNCHANGED <<ownerRow, requests, cache, base, ops, torn, removed, doubled, created>>

Asked == {FactOf(requests[i].ask) : i \in DOMAIN requests}

\* The DELETE of DeleteFriendToUser, ReleaseFriendRelationship or SetGroupAdmin.
Remove(h) ==
  /\ job[h].pc = "remove"
  /\ rows' = rows \ {job[h].fact}
  /\ removed' = removed \cup ({job[h].fact} \cap Asked)
  /\ loose' = IF Midway(h, job[h].fact, "put") THEN loose \cup {job[h].fact} ELSE loose
  /\ GoTo(h, "erase")
  /\ UNCHANGED <<ownerRow, requests, cache, base, ops, faults, torn, doubled, created>>

RemoveFails(h) ==
  /\ job[h].pc = "remove"
  /\ Fault
  /\ rows' \in {rows, rows \ {job[h].fact}}
  /\ removed' = removed \cup ((rows \ rows') \cap Asked)
  /\ loose' = loose \cup (rows \ rows')
  /\ Done(h)
  /\ UNCHANGED <<ownerRow, requests, cache, base, ops, torn, doubled, created>>

\* Mutant: only the account with the smaller id gets its new friend.
PutRel_OneSide(x, y) ==
  friends' = [friends EXCEPT ![x] = IF Known(x) THEN @ \cup {y} ELSE @]

\* MakeFriendRelationship returns at the first account it does not find.
PutRel(x, y) ==
  friends' = [friends EXCEPT ![x] = IF Known(x) THEN @ \cup {y} ELSE @,
                             ![y] = IF Known(x) /\ Known(y) THEN @ \cup {x} ELSE @]

\* What MakeFriendRelationship returns.
Made(f) == Known(f[2]) /\ Known(f[3])

\* The cache is changed and the handler answers; if it was accepting a request
\* and the relation was made, it goes on to mark it.
Put(h) ==
  LET f == job[h].fact IN
  /\ job[h].pc = "put"
  /\ IF f[1] = "rel"
       THEN /\ PutRel(f[2], f[3])
            /\ torn' = IF Known(f[2]) /\ Known(f[3]) THEN torn ELSE torn \cup {f}
            /\ IF job[h].req # 0 /\ Made(f) THEN GoTo(h, "mark") ELSE Done(h)
            /\ UNCHANGED admins
       ELSE /\ admins' = [admins EXCEPT ![f[2]] = @ \cup {f[3]}]
            /\ Done(h)
            /\ UNCHANGED <<friends, torn>>
  /\ UNCHANGED <<tables, owner, base, ops, faults, loose, removed, doubled, created>>

\* Mutant: the cache keeps the relation.
Erase_Nothing(h) ==
  /\ job[h].pc = "erase"
  /\ Done(h)
  /\ UNCHANGED <<tables, cache, base, ops, faults, history>>

\* The relation leaves the accounts that are found.
Erase(h) ==
  LET f == job[h].fact IN
  /\ job[h].pc = "erase"
  /\ IF f[1] = "rel"
       THEN /\ friends' = [friends EXCEPT ![f[2]] = @ \ {f[3]}, ![f[3]] = @ \ {f[2]}]
            /\ UNCHANGED admins
       ELSE /\ admins' = [admins EXCEPT ![f[2]] = @ \ {f[3]}]
            /\ UNCHANGED friends
  /\ Done(h)
  /\ UNCHANGED <<tables, owner, base, ops, faults, history>>

-----------------------------------------------------------------------------
(* Friends and groups *)

Adding(pc, f)  == Job(pc, 0, f, 0, NoAsk, 0)
Removing(u, f) == Job("remove", u, f, 0, NoAsk, 0)

\* OperateFriend, type 1: a friend is added without being asked.  The friend's
\* id is not looked up.
AddFriend(h, u, v) ==
  /\ u # v
  /\ Begin(h, Adding("insert", Rel(u, v)))

\* OperateFriend, type 2: a friend is deleted, or a group left.
DeleteFriend(h, u, a) ==
  /\ u # a
  /\ Begin(h, Removing(u, Rel(u, a)))

\* OperateFriend, type 3: somebody is put into a group, by anybody.  Neither id
\* is looked up.
InviteDirectly(h, a, g) ==
  /\ a # g
  /\ Begin(h, Adding("insert", Rel(a, g)))

\* Mutant: everybody may remove others.
KickGroupMember_Anyone(h, u, v, g) ==
  /\ Known(g)
  /\ v # u
  /\ IsFriend(v, g)
  /\ Begin(h, Removing(u, Rel(v, g)))

\* The owner removes a member, who stays an admin if he was one.
KickGroupMember(h, u, v, g) ==
  /\ Known(g)
  /\ owner[g] = u
  /\ v # u
  /\ IsFriend(v, g)
  /\ Begin(h, Removing(u, Rel(v, g)))

\* The owner makes a member admin, or makes an admin an ordinary member.
SetGroupAdmin(h, u, v, g) ==
  /\ Known(g)
  /\ owner[g] = u
  /\ v # u
  /\ IsFriend(v, g)
  /\ \/ Begin(h, Adding("look", Admin(g, v)))
     \/ Begin(h, Removing(u, Admin(g, v)))

\* SetGroupAdmin looks for the row before it inserts one.
LookForAdmin(h) ==
  /\ job[h].pc = "look"
  /\ IF job[h].fact \in rows
       THEN /\ loose' = IF Midway(h, job[h].fact, "erase") THEN loose \cup {job[h].fact} ELSE loose
            /\ GoTo(h, "put")
       ELSE GoTo(h, "insert") /\ UNCHANGED loose
  /\ UNCHANGED <<tables, cache, base, ops, faults, torn, removed, doubled, created>>

\* A failed look-up finds no row.
LookFails(h) ==
  /\ job[h].pc = "look"
  /\ Fault
  /\ GoTo(h, "insert")
  /\ UNCHANGED <<tables, cache, base, ops, history>>

\* CreateGroup: AddGroup increments m_baseGroupID without a lock.  It loads it,
CreateGroup(h, u) ==
  /\ base < Boundary + MaxGroups
  /\ Begin(h, Job("store", u, NoFact, 0, NoAsk, base + 1))

\* stores the sum
StoreBase(h) ==
  /\ job[h].pc = "store"
  /\ base' = job[h].id
  /\ GoTo(h, "take")
  /\ UNCHANGED <<tables, cache, ops, faults, history>>

\* and reads the new group's id: from memory again, or from the register.
TakeId(h) ==
  /\ job[h].pc = "take"
  /\ \E id \in {base, job[h].id} :
       job' = [job EXCEPT ![h] = [@ EXCEPT !.pc = "addrow", !.id = id]]
  /\ UNCHANGED <<tables, cache, base, ops, faults, history>>

\* Mutant: the account of an existing group is replaced.
AddGroupRow_Replace(h) ==
  /\ job[h].pc = "addrow"
  /\ ownerRow' = [ownerRow EXCEPT ![job[h].id] = job[h].who]
  /\ GoTo(h, "cachegroup")
  /\ UNCHANGED <<rows, requests, cache, base, ops, faults, history>>

\* f_user_id is the primary key: for a second group of the same id the INSERT
\* is refused and the client is told that the creation failed.
AddGroupRow(h) ==
  /\ job[h].pc = "addrow"
  /\ IF ownerRow[job[h].id] = NoOwner
       THEN /\ ownerRow' = [ownerRow EXCEPT ![job[h].id] = job[h].who]
            /\ GoTo(h, "cachegroup")
       ELSE Done(h) /\ UNCHANGED ownerRow
  /\ UNCHANGED <<rows, requests, cache, base, ops, faults, history>>

AddGroupFails(h) ==
  /\ job[h].pc = "addrow"
  /\ Fault
  /\ ownerRow' \in {ownerRow, [ownerRow EXCEPT ![job[h].id] = IF @ = NoOwner THEN job[h].who ELSE @]}
  /\ Done(h)
  /\ UNCHANGED <<rows, requests, cache, base, ops, history>>

\* The group gets a new, empty User object, also if rows for its id were made
\* before it existed.  The owner then joins; whether that succeeds is not
\* looked at.
CacheGroup(h) ==
  LET g == job[h].id IN
  /\ job[h].pc = "cachegroup"
  /\ owner' = [owner EXCEPT ![g] = job[h].who]
  /\ friends' = [friends EXCEPT ![g] = {}]
  /\ admins' = [admins EXCEPT ![g] = {}]
  /\ torn' = torn \cup {f \in rows : g \in {f[2], f[3]}}
                  \cup {Rel(a, g) : a \in {b \in Accounts \ {g} : IsFriend(b, g)}}
  /\ created' = created \cup {<<g, job[h].who>>}
  /\ job' = [job EXCEPT ![h] = Adding("insert", Rel(job[h].who, g))]
  /\ UNCHANGED <<tables, base, ops, faults, loose, removed, doubled>>

-----------------------------------------------------------------------------
(* Requests *)

\* SendRequest, once its checks on the cache have passed.
Ask(h, u, v, type, g) ==
  Begin(h, Job("find", 0, NoFact, 0, [from |-> u, to |-> v, type |-> type, group |-> g], 0))

AskFriend(h, u, v) ==
  /\ u # v
  /\ Known(v)
  /\ ~ IsFriend(u, v)
  /\ Ask(h, u, v, 1, NoOwner)

AskInvite(h, u, v, g) ==
  /\ Known(g)
  /\ Known(v)
  /\ ~ IsFriend(v, g)
  /\ Ask(h, u, v, 2, g)

\* Mutant: that the group exists is not tested.
AskJoin_NoGroup(h, u, g) ==
  /\ ~ IsFriend(u, g)
  /\ owner[g] # u
  /\ Ask(h, u, owner[g], 3, g)

\* An application goes to the owner.
AskJoin(h, u, g) ==
  /\ Known(g)
  /\ ~ IsFriend(u, g)
  /\ owner[g] # u
  /\ Ask(h, u, owner[g], 3, g)

Pending(a) == \E i \in DOMAIN requests : requests[i] = [ask |-> a, status |-> 0]

\* Mutant: a pending request is not looked for.
FindPending_Never(h) ==
  /\ job[h].pc = "find"
  /\ GoTo(h, "file")
  /\ UNCHANGED <<tables, cache, base, ops, faults, history>>

\* AddFriendRequest looks for a pending request of the same kind ...
FindPending(h) ==
  LET a == job[h].ask IN
  /\ job[h].pc = "find"
  /\ IF Pending(a)
       THEN Done(h) /\ UNCHANGED doubled
       ELSE /\ GoTo(h, "file")
            /\ doubled' = IF \E k \in Handlers : job[k].pc = "file" /\ job[k].ask = a
                            THEN doubled \cup {a} ELSE doubled
  /\ UNCHANGED <<tables, cache, base, ops, faults, loose, torn, removed, created>>

\* (a failed look-up finds none)
FindFails(h) ==
  /\ job[h].pc = "find"
  /\ Fault
  /\ GoTo(h, "file")
  /\ doubled' = doubled \cup {job[h].ask}
  /\ UNCHANGED <<tables, cache, base, ops, loose, torn, removed, created>>

\* ... and inserts one.
FileRequest(h) ==
  /\ job[h].pc = "file"
  /\ requests' = Append(requests, [ask |-> job[h].ask, status |-> 0])
  /\ Done(h)
  /\ UNCHANGED <<rows, ownerRow, cache, base, ops, faults, history>>

FileFails(h) ==
  /\ job[h].pc = "file"
  /\ Fault
  /\ requests' \in {requests, Append(requests, [ask |-> job[h].ask, status |-> 0])}
  /\ Done(h)
  /\ UNCHANGED <<rows, ownerRow, cache, base, ops, history>>

\* HandleRequest, action 2, by the user the request is addressed to.  Whether it
\* is still pending is not looked at; nor is it when it is accepted.
RejectRequest(h, u, r) ==
  /\ requests[r].ask.to = u
  /\ job[h].pc = "idle"
  /\ ops < MaxOps
  /\ ops' = ops + 1
  /\ requests' = [requests EXCEPT ![r].status = 2]
  /\ UNCHANGED <<rows, ownerRow, cache, base, job, faults, history>>

AcceptRequest(h, u, r) ==
  /\ requests[r].ask.to = u
  /\ Begin(h, Job("insert", 0, FactOf(requests[r].ask), r, NoAsk, 0))

\* UpdateRequestStatus, whose result is not looked at.
MarkAccepted(h) ==
  /\ job[h].pc = "mark"
  /\ requests' = [requests EXCEPT ![job[h].req].status = 1]
  /\ Done(h)
  /\ UNCHANGED <<rows, ownerRow, cache, base, ops, faults, history>>

MarkFails(h) ==
  /\ job[h].pc = "mark"
  /\ Fault
  /\ Done(h)
  /\ UNCHANGED <<tables, cache, base, ops, history>>

-----------------------------------------------------------------------------
(* Restart *)

\* The server stops, with whatever handlers were doing, and starts again.
Restart(bad) ==
  /\ Fault
  /\ Loaded(rows, ownerRow, bad, friends', admins', owner', base')
  /\ torn' = {f \in Facts : {<<f[1], f[2]>>, <<f[1], f[3]>>} \cap bad # {}}
  /\ job' = [h \in Handlers |-> Idle]
  /\ loose' = {}
  /\ UNCHANGED <<tables, ops, removed, doubled, created>>

-----------------------------------------------------------------------------
(* Specification *)

ClientRequest(h, u) ==
  \/ \E v \in Users : AddFriend(h, u, v) \/ AskFriend(h, u, v)
  \/ \E a \in Accounts : DeleteFriend(h, u, a)
  \/ \E g \in Groups : AskJoin(h, u, g)
  \/ \E a \in Accounts, g \in Groups : InviteDirectly(h, a, g)
  \/ \E v \in Users, g \in Groups :
       \/ AskInvite(h, u, v, g)
       \/ KickGroupMember(h, u, v, g)
       \/ SetGroupAdmin(h, u, v, g)
  \/ CreateGroup(h, u)
  \/ \E r \in DOMAIN requests : RejectRequest(h, u, r) \/ AcceptRequest(h, u, r)

Proceed(h) ==
  \/ Insert(h) \/ Remove(h) \/ Put(h) \/ Erase(h)
  \/ LookForAdmin(h)
  \/ StoreBase(h) \/ TakeId(h) \/ AddGroupRow(h) \/ CacheGroup(h)
  \/ FindPending(h) \/ FileRequest(h) \/ MarkAccepted(h)

Fail(h) ==
  \/ InsertFails(h) \/ RemoveFails(h) \/ LookFails(h) \/ AddGroupFails(h)
  \/ FindFails(h) \/ FileFails(h) \/ MarkFails(h)

Next ==
  \/ \E h \in Handlers, u \in Registered : ClientRequest(h, u)
  \/ \E h \in Handlers : Proceed(h) \/ Fail(h)
  \/ Restart({})
  \/ \E a \in Accounts : Restart({<<"rel", a>>}) \/ Restart({<<"admin", a>>})

Spec == Init /\ [][Next]_vars

-----------------------------------------------------------------------------
(* Properties *)

PCs == {"idle", "look", "insert", "put", "remove", "erase", "mark",
        "store", "take", "addrow", "cachegroup", "find", "file"}

Jobs == [pc : PCs, who : Users \cup {0}, fact : Facts \cup {NoFact}, req : Nat,
         ask : Asks \cup {NoAsk}, id : Groups \cup {0}]

\* Types of the tables, the cache and the handlers' locals; in particular no
\* request is addressed to nobody.
TypeOK ==
  /\ rows \subseteq Facts
  /\ ownerRow \in [Groups -> Users \cup {NoOwner}]
  /\ requests \in Seq(Requests)
  /\ friends \in [Accounts -> SUBSET Accounts]
  /\ admins \in [Groups -> SUBSET Users]
  /\ owner \in [Groups -> Users \cup {NoOwner}]
  /\ base \in Groups \cup {Boundary}
  /\ job \in [Handlers -> Jobs]
  /\ ops \in Nat
  /\ faults \in Nat
  /\ loose \subseteq Facts
  /\ torn \subseteq Facts
  /\ removed \subseteq Facts
  /\ doubled \subseteq Asks
  /\ created \subseteq Groups \X Users

\* Every cached account that f is about shows it exactly if the row exists.
Agree(f) ==
  IF f[1] = "rel"
    THEN /\ Known(f[2]) => (f[3] \in friends[f[2]] <=> f \in rows)
         /\ Known(f[3]) => (f[2] \in friends[f[3]] <=> f \in rows)
    ELSE Known(f[2]) => (f[3] \in admins[f[2]] <=> f \in rows)

\* Between statements table and cache agree on a relation, whatever requests
\* were served before, unless opposite writes of it overlapped, a write of it
\* was reported failed or met a missing account, or its load failed.  A restart
\* ends all of these but the last.
RowsMatchCache ==
  \A f \in Facts \ (loose \cup torn) :
    (\A h \in Handlers : job[h].fact = f => job[h].pc \notin {"put", "erase"}) => Agree(f)

\* Friendship is mutual in the cache, also where writes overlapped: a member's
\* list shows a group exactly if the group's messages reach the member.
FriendsMutual ==
  \A a, b \in Accounts :
    a < b /\ Known(a) /\ Known(b) /\ Rel(a, b) \notin torn
      => (IsFriend(a, b) <=> IsFriend(b, a))

\* Who was told that he created a group owns the group of that id, in the cache
\* and in the table, although ids are given out without a lock.
CreatorOwns ==
  \A c \in created : ownerRow[c[1]] = c[2] /\ owner[c[1]] = c[2]

\* An accepted request has made its relation, which stands until it is removed.
AcceptedStands ==
  \A i \in DOMAIN requests :
    requests[i].status = 1 => FactOf(requests[i].ask) \in rows \cup removed

\* No two pending requests ask the same, unless the look-ups for them
\* overlapped or failed.
PendingOnce ==
  \A i, j \in DOMAIN requests :
    requests[i].status = 0 /\ requests[j].status = 0 /\ requests[i].ask = requests[j].ask
      => i = j \/ requests[i].ask \in doubled

\* A relation is removed by one of its two sides or by the owner of the group.
Entitled(u, f, O) ==
  IF f[1] = "rel"
    THEN u \in {f[2], f[3]} \/ (f[3] \in Groups /\ O[f[3]] = u)
    ELSE O[f[2]] = u
RemovedByEntitled ==
  [][\A f \in rows \ rows' : \E h \in Handlers :
       job[h].pc = "remove" /\ job[h].fact = f /\ Entitled(job[h].who, f, ownerRow)]_vars
=============================================================================
