-------------------------- MODULE RelationsProofs --------------------------
(* Proofs about Relations, for any number of handlers, users, groups,         *)
(* requests and faults.                                                       *)
EXTENDS Relations, TLAPS

-----------------------------------------------------------------------------
(* The inductive invariant *)

\* What a handler has in hand at each of its steps.
JobOK(j, R) ==
  /\ j.pc \in {"look", "insert", "put", "remove", "erase", "mark"} => j.fact \in Facts
  /\ j.pc = "look" => j.fact[1] = "admin"
  /\ j.pc \in {"store", "take", "addrow", "cachegroup"} => j.id \in Groups /\ j.who \in Users
  /\ j.pc \in {"find", "file"} => j.ask \in Asks
  /\ j.pc \in {"mark"} => j.req # 0
  /\ j.req # 0 => /\ j.pc \in {"insert", "put", "mark"}
                  /\ j.req \in DOMAIN R
                  /\ j.fact = FactOf(R[j.req].ask)
                  /\ j.fact[1] = "rel"
JobsOK == \A h \in Handlers : JobOK(job[h], requests)

\* m_baseGroupID is a group's id as soon as one handler has stored it.
TakeInv == \A h \in Handlers : job[h].pc = "take" => base \in Groups

\* A handler between its statement and the cache still finds the row as it left
\* it, unless an opposite write overlapped.
MidwayInv ==
  \A h \in Handlers : job[h].fact \notin loose =>
    /\ job[h].pc = "put" => job[h].fact \in rows
    /\ job[h].pc = "erase" => job[h].fact \notin rows

\* Owners in the cache are those in the table, and a handler that has inserted a
\* group is its owner.
OwnerInv ==
  /\ \A g \in Groups : owner[g] # NoOwner => owner[g] = ownerRow[g]
  /\ \A h \in Handlers : job[h].pc = "cachegroup" => ownerRow[job[h].id] = job[h].who

\* A request about to be marked has made its relation.
AcceptInv ==
  \A h \in Handlers : job[h].req # 0 /\ job[h].pc \in {"put", "mark"}
    => job[h].fact \in rows \cup removed

\* Whoever is about to insert a request is alone with it and none is pending.
FileInv ==
  \A h \in Handlers : job[h].pc = "file" /\ job[h].ask \notin doubled =>
    /\ ~ Pending(job[h].ask)
    /\ \A k \in Handlers : job[k].pc = "file" /\ job[k].ask = job[h].ask => k = h

\* Whoever is about to delete a relation may.
RemoveInv ==
  \A h \in Handlers : job[h].pc = "remove" => Entitled(job[h].who, job[h].fact, ownerRow) /\ job[h].who \in Users
-----------------------------------------------------------------------------
(* Relations and requests *)

USE DEF tables, cache, history

\* Ids are numbers, and users come before groups.
LEMMA Ids ==
  /\ Groups \subseteq Nat /\ Users \subseteq Nat /\ Accounts \subseteq Nat
  /\ Boundary \in Nat /\ 0 \notin Users /\ 0 \notin Groups /\ Boundary \notin Groups
  /\ \A u \in Users, g \in Groups : u < g /\ u # g
  /\ Registered \subseteq Users
  BY RelationsAssumption DEF Groups, Accounts

\* A pair of accounts in either order is one relation.
LEMMA RelFact ==
  ASSUME NEW a \in Accounts, NEW b \in Accounts, a # b
  PROVE  /\ Rel(a, b) \in Facts
         /\ Rel(a, b) = Rel(b, a)
         /\ Rel(a, b)[1] = "rel"
         /\ a < b => Rel(a, b)[2] = a /\ Rel(a, b)[3] = b
         /\ b < a => Rel(a, b)[2] = b /\ Rel(a, b)[3] = a
         /\ a < b \/ b < a
  <1>1. a \in Nat /\ b \in Nat
    BY Ids
  <1>2. CASE a < b
    BY <1>1, <1>2 DEF Rel, Facts
  <1>3. CASE b < a
    BY <1>1, <1>3 DEF Rel, Facts
  <1> QED BY <1>1, <1>2, <1>3

LEMMA AdminFact ==
  ASSUME NEW g \in Groups, NEW u \in Users
  PROVE  Admin(g, u) \in Facts /\ Admin(g, u)[1] = "admin" /\ Admin(g, u)[2] = g /\ Admin(g, u)[3] = u
  BY DEF Admin, Facts

\* The shape of a relation.
LEMMA FactParts ==
  ASSUME NEW f \in Facts
  PROVE  /\ f[1] = "rel" => f[2] \in Accounts /\ f[3] \in Accounts /\ f[2] < f[3]
                            /\ f = Rel(f[2], f[3])
         /\ f[1] # "rel" => f[1] = "admin" /\ f[2] \in Groups /\ f[3] \in Users
                            /\ f = Admin(f[2], f[3])
         /\ f = <<f[1], f[2], f[3]>>
  BY DEF Facts, Rel, Admin

\* What a request asks for is a relation of two accounts.
LEMMA AskFact ==
  ASSUME NEW a \in Asks
  PROVE  FactOf(a) \in Facts /\ FactOf(a)[1] = "rel"
  <1>1. /\ a.from \in Accounts /\ a.to \in Accounts /\ a.from \in Users /\ a.to \in Users
        /\ a.type \in {1, 2, 3}
        /\ a.type = 1 => a.from # a.to
        /\ a.type # 1 => a.group \in Groups /\ a.group \in Accounts
    BY DEF Asks, Accounts
  <1>2. a.type # 1 => a.from # a.group /\ a.to # a.group
    BY <1>1, Ids
  <1> QED BY <1>1, <1>2, RelFact DEF FactOf
-----------------------------------------------------------------------------
(* Client requests *)

\* The job a client request begins with.
FirstJob(j) ==
  /\ j \in Jobs
  /\ j.pc \in {"insert", "remove", "look", "store", "find"}
  /\ JobOK(j, requests)
  /\ j.pc = "remove" => j.who \in Users /\ Entitled(j.who, j.fact, ownerRow)

LEMMA AddingJob ==
  ASSUME NEW f \in Facts, NEW pc \in {"insert", "look"}, pc = "look" => f[1] = "admin"
  PROVE  FirstJob(Adding(pc, f))
  BY DEF Adding, Job, FirstJob, Jobs, JobOK, PCs

LEMMA RemovingJob ==
  ASSUME NEW f \in Facts, NEW u \in Users, Entitled(u, f, ownerRow)
  PROVE  FirstJob(Removing(u, f))
  BY DEF Removing, Job, FirstJob, Jobs, JobOK, PCs

LEMMA AskJob ==
  ASSUME NEW h, NEW u \in Users, NEW v \in Users, NEW type \in 1..3,
         NEW g \in Groups \cup {NoOwner},
         IF type = 1 THEN u # v ELSE g \in Groups,
         Ask(h, u, v, type, g)
  PROVE  \E j : FirstJob(j) /\ Begin(h, j)
  <1> DEFINE a == [from |-> u, to |-> v, type |-> type, group |-> g]
             j == Job("find", 0, NoFact, 0, a, 0)
  <1>1. a \in Asks
    BY DEF Asks
  <1>3. Begin(h, j)
    BY DEF Ask
  <1> HIDE DEF a
  <1>4. FirstJob(j)
    BY <1>1 DEF Job, FirstJob, Jobs, JobOK, PCs
  <1> QED BY <1>3, <1>4

\* A handler that takes up a request either rejects one at once or begins with
\* a well-formed job; who starts a removal is entitled to it.
LEMMA ClientShape ==
  ASSUME TypeOK, OwnerInv, NEW h \in Handlers, NEW u \in Registered, ClientRequest(h, u)
  PROVE  \/ \E r \in DOMAIN requests : RejectRequest(h, u, r)
         \/ \E j : FirstJob(j) /\ Begin(h, j)
  <1> DEFINE Goal == \E j : FirstJob(j) /\ Begin(h, j)
  <1>0. u \in Users /\ u \in Accounts /\ u # NoOwner
    BY Ids DEF Accounts, NoOwner
  <1>1. ASSUME NEW v \in Users, AddFriend(h, u, v) PROVE Goal
    <2>1. u # v /\ Begin(h, Adding("insert", Rel(u, v)))
      BY <1>1 DEF AddFriend
    <2>2. Rel(u, v) \in Facts
      BY <1>0, <2>1, RelFact DEF Accounts
    <2> QED BY <2>1, <2>2, AddingJob
  <1>2. ASSUME NEW v \in Users, AskFriend(h, u, v) PROVE Goal
    <2>1. u # v /\ Ask(h, u, v, 1, NoOwner)
      BY <1>2 DEF AskFriend
    <2> QED BY <1>0, <2>1, AskJob
  <1>3. ASSUME NEW a \in Accounts, DeleteFriend(h, u, a) PROVE Goal
    <2>1. u # a /\ Begin(h, Removing(u, Rel(u, a)))
      BY <1>3 DEF DeleteFriend
    <2>2. Rel(u, a) \in Facts /\ Entitled(u, Rel(u, a), ownerRow)
      BY <1>0, <2>1, RelFact DEF Entitled
    <2> QED BY <1>0, <2>1, <2>2, RemovingJob
  <1>4. ASSUME NEW g \in Groups, AskJoin(h, u, g) PROVE Goal
    <2>1. owner[g] \in Users /\ Ask(h, u, owner[g], 3, g)
      BY <1>4, Ids DEF AskJoin, Known, TypeOK
    <2> QED BY <1>0, <2>1, AskJob
  <1>5. ASSUME NEW a \in Accounts, NEW g \in Groups, InviteDirectly(h, a, g) PROVE Goal
    <2>1. a # g /\ Begin(h, Adding("insert", Rel(a, g)))
      BY <1>5 DEF InviteDirectly
    <2>2. Rel(a, g) \in Facts
      BY <2>1, RelFact DEF Accounts
    <2> QED BY <2>1, <2>2, AddingJob
  <1>6. ASSUME NEW v \in Users, NEW g \in Groups, AskInvite(h, u, v, g) PROVE Goal
    <2>1. Ask(h, u, v, 2, g)
      BY <1>6 DEF AskInvite
    <2> QED BY <1>0, <2>1, AskJob
  <1>7. ASSUME NEW g \in Groups, owner[g] = u PROVE ownerRow[g] = u
    BY <1>0, <1>7 DEF OwnerInv
  <1>8. ASSUME NEW v \in Users, NEW g \in Groups, KickGroupMember(h, u, v, g) PROVE Goal
    <2>1. ownerRow[g] = u /\ Begin(h, Removing(u, Rel(v, g)))
      BY <1>7, <1>8 DEF KickGroupMember
    <2>2. v < g /\ v \in Accounts /\ g \in Accounts /\ v # g
      BY Ids DEF Accounts
    <2>3. Rel(v, g) \in Facts /\ Entitled(u, Rel(v, g), ownerRow)
      BY <2>1, <2>2, RelFact DEF Entitled
    <2> QED BY <1>0, <2>1, <2>3, RemovingJob
  <1>9. ASSUME NEW v \in Users, NEW g \in Groups, SetGroupAdmin(h, u, v, g) PROVE Goal
    <2>1. ownerRow[g] = u
      BY <1>7, <1>9 DEF SetGroupAdmin
    <2>2. Entitled(u, Admin(g, v), ownerRow)
      BY <2>1, AdminFact DEF Entitled
    <2>3. CASE Begin(h, Adding("look", Admin(g, v)))
      BY <2>3, AdminFact, AddingJob
    <2>4. CASE Begin(h, Removing(u, Admin(g, v)))
      BY <1>0, <2>2, <2>4, AdminFact, RemovingJob
    <2> QED BY <1>9, <2>3, <2>4 DEF SetGroupAdmin
  <1>10. ASSUME CreateGroup(h, u) PROVE Goal
    <2> DEFINE j == Job("store", u, NoFact, 0, NoAsk, base + 1)
    <2>1. base + 1 \in Groups
      BY <1>10, RelationsAssumption DEF CreateGroup, TypeOK, Groups
    <2>2. Begin(h, j)
      BY <1>10 DEF CreateGroup
    <2>3. FirstJob(j)
      BY <1>0, <2>1 DEF Job, FirstJob, Jobs, JobOK, PCs
    <2> QED BY <2>2, <2>3
  <1>11. ASSUME NEW r \in DOMAIN requests, AcceptRequest(h, u, r) PROVE Goal
    <2> DEFINE f == FactOf(requests[r].ask)
               j == Job("insert", 0, f, r, NoAsk, 0)
    <2>1. requests[r] \in Requests /\ r \in Nat /\ r # 0
      BY DEF TypeOK
    <2>2. f \in Facts /\ f[1] = "rel"
      BY <2>1, AskFact DEF Requests
    <2>3. Begin(h, j)
      BY <1>11 DEF AcceptRequest
    <2> HIDE DEF f
    <2>4. FirstJob(j)
      <3>1. j.fact = FactOf(requests[j.req].ask)
        BY DEF f, Job
      <3>2. j \in Jobs
        BY <2>1, <2>2 DEF Job, Jobs, PCs
      <3> QED BY <2>1, <2>2, <3>1, <3>2 DEF Job, FirstJob, JobOK
    <2> QED BY <2>3, <2>4
  <1> QED
    BY <1>1, <1>2, <1>3, <1>4, <1>5, <1>6, <1>8, <1>9, <1>10, <1>11 DEF ClientRequest

-----------------------------------------------------------------------------
(* Types *)

\* A handler moves on with what it has ...
LEMMA GoToJob ==
  ASSUME TypeOK, NEW h \in Handlers, NEW pc \in PCs, GoTo(h, pc)
  PROVE  /\ job' \in [Handlers -> Jobs]
         /\ job'[h].pc = pc
         /\ job'[h].who = job[h].who /\ job'[h].fact = job[h].fact
         /\ job'[h].req = job[h].req /\ job'[h].ask = job[h].ask /\ job'[h].id = job[h].id
         /\ \A k \in Handlers \ {h} : job'[k] = job[k]
  BY DEF GoTo, TypeOK, Jobs

\* ... or is done.
LEMMA DoneJob ==
  ASSUME TypeOK, NEW h \in Handlers, Done(h)
  PROVE  /\ job' \in [Handlers -> Jobs]
         /\ job'[h] = Idle
         /\ Idle \in Jobs /\ Idle.pc = "idle" /\ Idle.req = 0
         /\ \A k \in Handlers \ {h} : job'[k] = job[k]
  BY DEF Done, TypeOK, Jobs, Idle, Job, PCs

\* Requests keep what they ask.
Extends(R, Q) == \A i \in DOMAIN R : i \in DOMAIN Q /\ Q[i].ask = R[i].ask

LEMMA JobStays ==
  ASSUME NEW j, NEW R, NEW Q, JobOK(j, R), Extends(R, Q)
  PROVE  JobOK(j, Q)
  BY DEF JobOK, Extends

LEMMA AppendRequest ==
  ASSUME NEW R \in Seq(Requests), NEW a \in Asks, NEW Q, Q = Append(R, [ask |-> a, status |-> 0])
  PROVE  /\ Q \in Seq(Requests)
         /\ Extends(R, Q)
         /\ DOMAIN Q = DOMAIN R \cup {Len(R) + 1}
         /\ Len(R) + 1 \notin DOMAIN R
         /\ \A i \in DOMAIN R : Q[i] = R[i]
         /\ Q[Len(R) + 1] = [ask |-> a, status |-> 0]
  <1> DEFINE r == [ask |-> a, status |-> 0]
  <1>1. r \in Requests
    BY DEF Requests
  <1>0. Q = Append(R, r)
    OBVIOUS
  <1> HIDE DEF r
  <1>2. /\ Q \in Seq(Requests)
        /\ Len(R) \in Nat /\ DOMAIN R = 1..Len(R)
        /\ DOMAIN Q = 1..(Len(R) + 1)
        /\ Q[Len(R) + 1] = r
        /\ \A i \in 1..Len(R) : Q[i] = R[i]
    BY <1>0, <1>1
  <1>3. /\ DOMAIN Q = DOMAIN R \cup {Len(R) + 1}
        /\ Len(R) + 1 \notin DOMAIN R
    BY <1>2
  <1>4. Extends(R, Q)
    BY <1>2, <1>3 DEF Extends
  <1> QED BY <1>2, <1>3, <1>4 DEF r

LEMMA MarkRequest ==
  ASSUME NEW R \in Seq(Requests), NEW r \in DOMAIN R, NEW s \in {1, 2},
         NEW Q, Q = [R EXCEPT ![r].status = s]
  PROVE  /\ Q \in Seq(Requests)
         /\ Extends(R, Q)
         /\ DOMAIN Q = DOMAIN R
         /\ Q[r].status = s
         /\ \A i \in DOMAIN R : i # r => Q[i] = R[i]
  <1>1. Len(R) \in Nat /\ DOMAIN R = 1..Len(R) /\ \A i \in 1..Len(R) : R[i] \in Requests
    OBVIOUS
  <1>2. R[r] \in [ask : Asks, status : 0..2]
    BY <1>1 DEF Requests
  <1>3. [R[r] EXCEPT !.status = s] \in Requests
    BY <1>2 DEF Requests
  <1>4. /\ DOMAIN Q = 1..Len(R)
        /\ \A i \in 1..Len(R) : Q[i] = IF i = r THEN [R[r] EXCEPT !.status = s] ELSE R[i]
    BY <1>1
  <1>5. Q = [i \in 1..Len(R) |-> Q[i]]
    BY <1>1, <1>4
  <1>6. \A i \in 1..Len(R) : Q[i] \in Requests
    BY <1>1, <1>3, <1>4
  <1>7. Q \in Seq(Requests)
    <2>1. Q \in [1..Len(R) -> Requests]
      BY <1>5, <1>6
    <2> QED BY <1>1, <2>1
  <1>8. [R[r] EXCEPT !.status = s].ask = R[r].ask /\ [R[r] EXCEPT !.status = s].status = s
    BY <1>2
  <1>9. Extends(R, Q)
    BY <1>1, <1>4, <1>8 DEF Extends
  <1> QED BY <1>1, <1>4, <1>7, <1>8, <1>9

\* What a step of the server can be.
LEMMA Cases ==
  ASSUME TypeOK, OwnerInv, [Next]_vars
  PROVE  \/ UNCHANGED vars
         \/ \E bad : Restart(bad)
         \/ \E h \in Handlers :
              \/ \E u \in Registered, r \in DOMAIN requests : RejectRequest(h, u, r)
              \/ \E j : FirstJob(j) /\ Begin(h, j)
              \/ Proceed(h)
              \/ Fail(h)
  <1>1. ASSUME NEW h \in Handlers, NEW u \in Registered, ClientRequest(h, u)
        PROVE  \/ \E r \in DOMAIN requests : RejectRequest(h, u, r)
               \/ \E j : FirstJob(j) /\ Begin(h, j)
    BY <1>1, ClientShape
  <1> QED BY <1>1 DEF Next

LEMMA LoadedTypes ==
  ASSUME TypeOK, NEW bad, Restart(bad)
  PROVE  /\ friends' \in [Accounts -> SUBSET Accounts]
         /\ admins' \in [Groups -> SUBSET Users]
         /\ owner' \in [Groups -> Users \cup {NoOwner}]
         /\ base' \in Groups \cup {Boundary}
         /\ torn' \subseteq Facts
  BY DEF Restart, Loaded, TypeOK, FriendsIn, AdminsIn

\* Every step keeps the types and the handlers' locals.
LEMMA TypeStep ==
  ASSUME TypeOK, JobsOK, TakeInv, OwnerInv, [Next]_vars
  PROVE  TypeOK' /\ JobsOK'
  <1> DEFINE JobTypes == job' \in [Handlers -> Jobs] /\ \A k \in Handlers : JobOK(job'[k], requests')
             Ok == TypeOK' /\ JobsOK'
  <1>a. \A k \in Handlers : job[k] \in Jobs /\ JobOK(job[k], requests)
    BY DEF TypeOK, JobsOK
  <1>b. ASSUME Extends(requests, requests') PROVE \A k \in Handlers : JobOK(job[k], requests')
    BY <1>a, <1>b, JobStays
  <1>c. Extends(requests, requests)
    BY DEF Extends
  <1>d. \A R : JobOK(Idle, R)
    BY DEF JobOK, Idle, Job
  <1>1. CASE UNCHANGED vars
    BY <1>1 DEF vars, TypeOK, JobsOK
  <1>2. ASSUME NEW bad, Restart(bad) PROVE Ok
    <2>1. job' = [h \in Handlers |-> Idle] /\ Idle \in Jobs
      BY <1>2 DEF Restart, Idle, Job, Jobs, PCs
    <2>2. JobsOK'
      BY <1>d, <2>1 DEF JobsOK
    <2>3. TypeOK'
      BY <1>2, <2>1, LoadedTypes DEF Restart, Fault, TypeOK
    <2> QED BY <2>2, <2>3
  <1>3. ASSUME NEW h \in Handlers, NEW u \in Registered, NEW r \in DOMAIN requests, RejectRequest(h, u, r)
        PROVE  Ok
    <2>1. requests' = [requests EXCEPT ![r].status = 2] /\ requests \in Seq(Requests)
      BY <1>3 DEF RejectRequest, TypeOK
    <2>2. requests' \in Seq(Requests) /\ Extends(requests, requests')
      <3>1. \A Q : Q = [requests EXCEPT ![r].status = 2] => Q \in Seq(Requests) /\ Extends(requests, Q)
        BY <2>1, MarkRequest
      <3> QED BY <2>1, <3>1
    <2>3. JobsOK'
      BY <1>3, <1>b, <2>2 DEF RejectRequest, JobsOK
    <2>4. TypeOK'
      BY <1>3, <2>2 DEF RejectRequest, TypeOK
    <2> QED BY <2>3, <2>4
  <1>4. ASSUME NEW h \in Handlers, NEW j, FirstJob(j), Begin(h, j) PROVE Ok
    <2>1. TypeOK'
      BY <1>4 DEF Begin, FirstJob, TypeOK
    <2>2. JobsOK'
      BY <1>4, <1>a DEF Begin, FirstJob, JobsOK, TypeOK
    <2> QED BY <2>1, <2>2
  <1>5. ASSUME NEW h \in Handlers, Insert(h) \/ LookForAdmin(h) \/ LookFails(h) PROVE Ok
    <2>1. GoTo(h, "put") \/ GoTo(h, "insert")
      BY <1>5 DEF Insert, LookForAdmin, LookFails
    <2>2. job[h].pc \in {"insert", "look"} /\ job[h].fact \in Facts /\ requests' = requests
      BY <1>5, <1>a DEF Insert, LookForAdmin, LookFails, JobOK
    <2>3. job' \in [Handlers -> Jobs] /\ \A k \in Handlers : JobOK(job'[k], requests')
      BY <1>a, <2>1, <2>2, GoToJob DEF PCs, JobOK
    <2>4. TypeOK'
      BY <1>5, <2>2, <2>3 DEF Insert, LookForAdmin, LookFails, Fault, TypeOK
    <2> QED BY <2>3, <2>4 DEF JobsOK
  <1>6. ASSUME NEW h \in Handlers, Remove(h) PROVE Ok
    <2>2. job[h].pc = "remove" /\ job[h].fact \in Facts /\ requests' = requests /\ GoTo(h, "erase")
      BY <1>6, <1>a DEF Remove, JobOK
    <2>3. job' \in [Handlers -> Jobs] /\ \A k \in Handlers : JobOK(job'[k], requests')
      BY <1>a, <2>2, GoToJob DEF PCs, JobOK
    <2>4. TypeOK'
      BY <1>6, <2>2, <2>3 DEF Remove, TypeOK
    <2> QED BY <2>3, <2>4 DEF JobsOK
  <1>7. ASSUME NEW h \in Handlers, InsertFails(h) \/ RemoveFails(h) PROVE Ok
    <2>2. job[h].fact \in Facts /\ requests' = requests /\ Done(h)
      BY <1>7, <1>a DEF InsertFails, RemoveFails, JobOK
    <2>3. job' \in [Handlers -> Jobs] /\ \A k \in Handlers : JobOK(job'[k], requests')
      BY <1>a, <1>d, <2>2, DoneJob
    <2>4. TypeOK'
      BY <1>7, <2>2, <2>3 DEF InsertFails, RemoveFails, Fault, TypeOK
    <2> QED BY <2>3, <2>4 DEF JobsOK
  <1>8. ASSUME NEW h \in Handlers, Put(h) PROVE Ok
    <2>1. /\ job[h].pc = "put" /\ job[h].fact \in Facts /\ requests' = requests
          /\ Done(h) \/ (job[h].req # 0 /\ GoTo(h, "mark"))
      BY <1>8, <1>a DEF Put, JobOK
    <2>2. job' \in [Handlers -> Jobs] /\ \A k \in Handlers : JobOK(job'[k], requests')
      BY <1>a, <1>d, <2>1, DoneJob, GoToJob DEF PCs, JobOK
    <2>3. friends' \in [Accounts -> SUBSET Accounts] /\ admins' \in [Groups -> SUBSET Users]
      BY <1>8, <2>1, FactParts DEF Put, PutRel, TypeOK
    <2>4. TypeOK'
      BY <1>8, <2>1, <2>2, <2>3 DEF Put, TypeOK
    <2> QED BY <2>2, <2>4 DEF JobsOK
  <1>9. ASSUME NEW h \in Handlers, Erase(h) PROVE Ok
    <2>1. job[h].fact \in Facts /\ requests' = requests /\ Done(h)
      BY <1>9, <1>a DEF Erase, JobOK
    <2>2. job' \in [Handlers -> Jobs] /\ \A k \in Handlers : JobOK(job'[k], requests')
      BY <1>a, <1>d, <2>1, DoneJob
    <2>3. friends' \in [Accounts -> SUBSET Accounts] /\ admins' \in [Groups -> SUBSET Users]
      BY <1>9, <2>1, FactParts DEF Erase, TypeOK
    <2>4. TypeOK'
      BY <1>9, <2>2, <2>3 DEF Erase, TypeOK
    <2> QED BY <2>2, <2>4 DEF JobsOK
  <1>10. ASSUME NEW h \in Handlers, StoreBase(h) PROVE Ok
    <2>1. job[h].pc = "store" /\ job[h].id \in Groups /\ requests' = requests /\ GoTo(h, "take")
      BY <1>10, <1>a DEF StoreBase, JobOK
    <2>2. job' \in [Handlers -> Jobs] /\ \A k \in Handlers : JobOK(job'[k], requests')
      BY <1>a, <2>1, GoToJob DEF PCs, JobOK
    <2>3. TypeOK'
      BY <1>10, <2>1, <2>2 DEF StoreBase, TypeOK
    <2> QED BY <2>2, <2>3 DEF JobsOK
  <1>11. ASSUME NEW h \in Handlers, TakeId(h) PROVE Ok
    <2>1. job[h].pc = "take" /\ job[h].id \in Groups /\ base \in Groups /\ job[h].who \in Users
      BY <1>11, <1>a DEF TakeId, JobOK, TakeInv
    <2>2. PICK id \in Groups : job' = [job EXCEPT ![h] = [@ EXCEPT !.pc = "addrow", !.id = id]]
      BY <1>11, <2>1 DEF TakeId
    <2>3. job' \in [Handlers -> Jobs] /\ job'[h].pc = "addrow" /\ job'[h].id \in Groups
          /\ job'[h].who = job[h].who /\ job'[h].req = job[h].req
          /\ \A k \in Handlers \ {h} : job'[k] = job[k]
      BY <2>2, ZenonT(40) DEF TypeOK, Jobs, PCs
    <2>4. requests' = requests
      BY <1>11 DEF TakeId
    <2>5. \A k \in Handlers : JobOK(job'[k], requests')
      BY <1>a, <2>1, <2>3, <2>4 DEF JobOK
    <2>6. TypeOK'
      BY <1>11, <2>3 DEF TakeId, TypeOK
    <2> QED BY <2>5, <2>6 DEF JobsOK
  <1>12. ASSUME NEW h \in Handlers, AddGroupRow(h) \/ AddGroupFails(h) PROVE Ok
    <2>1. /\ job[h].pc = "addrow" /\ job[h].id \in Groups /\ job[h].who \in Users
          /\ requests' = requests /\ (Done(h) \/ GoTo(h, "cachegroup"))
      BY <1>12, <1>a DEF AddGroupRow, AddGroupFails, JobOK
    <2>2. job' \in [Handlers -> Jobs] /\ \A k \in Handlers : JobOK(job'[k], requests')
      BY <1>a, <1>d, <2>1, DoneJob, GoToJob DEF PCs, JobOK
    <2>3. ownerRow' \in [Groups -> Users \cup {NoOwner}]
      BY <1>12, <2>1 DEF AddGroupRow, AddGroupFails, TypeOK
    <2>4. TypeOK'
      BY <1>12, <2>2, <2>3 DEF AddGroupRow, AddGroupFails, Fault, TypeOK
    <2> QED BY <2>2, <2>4 DEF JobsOK
  <1>13. ASSUME NEW h \in Handlers, CacheGroup(h) PROVE Ok
    <2>1. /\ job[h].id \in Groups /\ job[h].who \in Users /\ requests' = requests
          /\ job[h].who \in Accounts /\ job[h].id \in Accounts /\ job[h].who # job[h].id
      BY <1>13, <1>a, Ids DEF CacheGroup, JobOK, Accounts
    <2>2. Rel(job[h].who, job[h].id) \in Facts
      BY <2>1, RelFact
    <2>3. FirstJob(Adding("insert", Rel(job[h].who, job[h].id)))
      BY <2>2, AddingJob
    <2>4. job' = [job EXCEPT ![h] = Adding("insert", Rel(job[h].who, job[h].id))]
      BY <1>13 DEF CacheGroup
    <2>5. job' \in [Handlers -> Jobs] /\ \A k \in Handlers : JobOK(job'[k], requests')
      BY <1>a, <2>1, <2>3, <2>4 DEF FirstJob, TypeOK
    <2>6. \A a \in Accounts \ {job[h].id} : Rel(a, job[h].id) \in Facts
      BY <2>1, RelFact
    <2>7. torn' \subseteq Facts
      BY <1>13, <2>6 DEF CacheGroup, TypeOK
    <2>8. TypeOK'
      BY <1>13, <2>1, <2>5, <2>7 DEF CacheGroup, TypeOK, Accounts
    <2> QED BY <2>5, <2>8 DEF JobsOK
  <1>14. ASSUME NEW h \in Handlers, FindPending(h) \/ FindFails(h) PROVE Ok
    <2>1. /\ job[h].pc = "find" /\ job[h].ask \in Asks /\ requests' = requests
          /\ Done(h) \/ GoTo(h, "file")
      BY <1>14, <1>a DEF FindPending, FindFails, JobOK
    <2>2. job' \in [Handlers -> Jobs] /\ \A k \in Handlers : JobOK(job'[k], requests')
      BY <1>a, <1>d, <2>1, DoneJob, GoToJob DEF PCs, JobOK
    <2>3. TypeOK'
      BY <1>14, <2>1, <2>2 DEF FindPending, FindFails, Fault, TypeOK
    <2> QED BY <2>2, <2>3 DEF JobsOK
  <1>15. ASSUME NEW h \in Handlers, FileRequest(h) \/ FileFails(h) PROVE Ok
    <2>1. job[h].ask \in Asks /\ Done(h) /\ requests \in Seq(Requests)
      BY <1>15, <1>a DEF FileRequest, FileFails, JobOK, TypeOK
    <2>2. requests' \in Seq(Requests) /\ Extends(requests, requests')
      BY <1>15, <1>c, <2>1, AppendRequest DEF FileRequest, FileFails
    <2>3. job' \in [Handlers -> Jobs] /\ \A k \in Handlers : JobOK(job'[k], requests')
      BY <1>b, <1>d, <2>1, <2>2, DoneJob
    <2>4. TypeOK'
      BY <1>15, <2>2, <2>3 DEF FileRequest, FileFails, Fault, TypeOK
    <2> QED BY <2>3, <2>4 DEF JobsOK
  <1>16. ASSUME NEW h \in Handlers, MarkAccepted(h) \/ MarkFails(h) PROVE Ok
    <2>1. job[h].req \in DOMAIN requests /\ Done(h) /\ requests \in Seq(Requests)
      BY <1>16, <1>a DEF MarkAccepted, MarkFails, JobOK, TypeOK
    <2>2. requests' \in Seq(Requests) /\ Extends(requests, requests')
      BY <1>16, <1>c, <2>1, MarkRequest DEF MarkAccepted, MarkFails
    <2>3. job' \in [Handlers -> Jobs] /\ \A k \in Handlers : JobOK(job'[k], requests')
      BY <1>b, <1>d, <2>1, <2>2, DoneJob
    <2>4. TypeOK'
      BY <1>16, <2>2, <2>3 DEF MarkAccepted, MarkFails, Fault, TypeOK
    <2> QED BY <2>3, <2>4 DEF JobsOK
  <1> QED
    BY <1>1, <1>2, <1>3, <1>4, <1>5, <1>6, <1>7, <1>8, <1>9, <1>10, <1>11, <1>12, <1>13,
       <1>14, <1>15, <1>16, Cases DEF Proceed, Fail

-----------------------------------------------------------------------------
(* Who owns a group, and who removes *)

\* Steps that concern neither relations nor groups that exist.
Elsewhere(h) ==
  \/ StoreBase(h) \/ TakeId(h)
  \/ FindPending(h) \/ FindFails(h) \/ FileRequest(h) \/ FileFails(h)
  \/ MarkAccepted(h) \/ MarkFails(h)

LEMMA ElsewhereFrame ==
  ASSUME TypeOK, NEW h \in Handlers, Elsewhere(h)
  PROVE  /\ UNCHANGED <<rows, ownerRow, friends, admins, owner, loose, torn, removed, created>>
         /\ job'[h].pc \in {"idle", "take", "addrow", "file"}
         /\ \A k \in Handlers \ {h} : job'[k] = job[k]
  <1>1. CASE StoreBase(h)
    BY <1>1, GoToJob DEF StoreBase, PCs
  <1>2. CASE TakeId(h)
    BY <1>2 DEF TakeId, TypeOK, Jobs
  <1>3. CASE FindPending(h)
    BY <1>3, GoToJob, DoneJob DEF FindPending, PCs
  <1>4. CASE FindFails(h)
    BY <1>4, GoToJob DEF FindFails, PCs
  <1>5. CASE FileRequest(h)
    BY <1>5, DoneJob DEF FileRequest
  <1>6. CASE FileFails(h)
    BY <1>6, DoneJob DEF FileFails
  <1>7. CASE MarkAccepted(h)
    BY <1>7, DoneJob DEF MarkAccepted
  <1>8. CASE MarkFails(h)
    BY <1>8, DoneJob DEF MarkFails
  <1> QED BY <1>1, <1>2, <1>3, <1>4, <1>5, <1>6, <1>7, <1>8 DEF Elsewhere

\* A step of one handler, or the start of one, leaves the others where they are.
LEMMA OthersWait ==
  ASSUME TypeOK, NEW h \in Handlers, Proceed(h) \/ Fail(h) \/ \E j : FirstJob(j) /\ Begin(h, j)
  PROVE  \A k \in Handlers \ {h} : job'[k] = job[k]
  <1>1. CASE Elsewhere(h)
    BY <1>1, ElsewhereFrame
  <1>2. CASE Insert(h) \/ Remove(h) \/ LookForAdmin(h) \/ LookFails(h)
    BY <1>2, GoToJob DEF Insert, Remove, LookForAdmin, LookFails, PCs
  <1>3. CASE InsertFails(h) \/ RemoveFails(h) \/ Erase(h)
    BY <1>3, DoneJob DEF InsertFails, RemoveFails, Erase
  <1>4. CASE Put(h)
    BY <1>4, DoneJob, GoToJob DEF Put, PCs
  <1>5. CASE AddGroupRow(h) \/ AddGroupFails(h)
    BY <1>5, DoneJob, GoToJob DEF AddGroupRow, AddGroupFails, PCs
  <1>6. CASE CacheGroup(h)
    BY <1>6 DEF CacheGroup, TypeOK
  <1>7. CASE \E j : FirstJob(j) /\ Begin(h, j)
    BY <1>7 DEF Begin, TypeOK
  <1> QED BY <1>1, <1>2, <1>3, <1>4, <1>5, <1>6, <1>7 DEF Proceed, Fail, Elsewhere

LEMMA TakeStep ==
  ASSUME TypeOK, JobsOK, TakeInv, OwnerInv, [Next]_vars
  PROVE  TakeInv'
  <1>1. CASE UNCHANGED vars
    BY <1>1 DEF vars, TakeInv
  <1>2. ASSUME NEW bad, Restart(bad) PROVE TakeInv'
    BY <1>2 DEF Restart, TakeInv, Idle, Job
  <1>3. ASSUME NEW h \in Handlers, NEW u, NEW r, RejectRequest(h, u, r) PROVE TakeInv'
    BY <1>3 DEF RejectRequest, TakeInv
  <1>4. ASSUME NEW h \in Handlers, StoreBase(h) PROVE TakeInv'
    BY <1>4 DEF StoreBase, TakeInv, JobsOK, JobOK
  <1>5. ASSUME NEW h \in Handlers, job'[h].pc # "take", base' = base,
               \A k \in Handlers \ {h} : job'[k] = job[k]
        PROVE  TakeInv'
    BY <1>5 DEF TakeInv
  <1>6. ASSUME NEW h \in Handlers, NEW j, FirstJob(j), Begin(h, j) PROVE TakeInv'
    <2>1. job'[h].pc # "take" /\ base' = base
      BY <1>6 DEF Begin, FirstJob, TypeOK
    <2> QED BY <1>5, <1>6, <2>1, OthersWait
  <1>7. ASSUME NEW h \in Handlers, Proceed(h) \/ Fail(h), ~ StoreBase(h) PROVE TakeInv'
    <2>1. CASE Insert(h) \/ Remove(h) \/ LookForAdmin(h) \/ LookFails(h)
      BY <1>5, <1>7, <2>1, OthersWait, GoToJob DEF Insert, Remove, LookForAdmin, LookFails, PCs
    <2>2. CASE InsertFails(h) \/ RemoveFails(h) \/ Erase(h)
      BY <1>5, <1>7, <2>2, OthersWait, DoneJob DEF InsertFails, RemoveFails, Erase
    <2>3. CASE Put(h)
      BY <1>5, <1>7, <2>3, OthersWait, DoneJob, GoToJob DEF Put, PCs
    <2>4. CASE AddGroupRow(h) \/ AddGroupFails(h)
      BY <1>5, <1>7, <2>4, OthersWait, DoneJob, GoToJob DEF AddGroupRow, AddGroupFails, PCs
    <2>5. CASE CacheGroup(h) \/ TakeId(h)
      <3>1. CacheGroup(h) => job'[h].pc # "take" /\ base' = base
        BY DEF CacheGroup, TypeOK, Adding, Job
      <3>2. TakeId(h) => job'[h].pc # "take" /\ base' = base
        BY DEF TakeId, TypeOK, Jobs
      <3> QED BY <1>5, <1>7, <2>5, <3>1, <3>2, OthersWait
    <2>6. CASE FindPending(h) \/ FindFails(h)
      BY <1>5, <1>7, <2>6, OthersWait, DoneJob, GoToJob DEF FindPending, FindFails, PCs
    <2>7. CASE FileRequest(h) \/ FileFails(h) \/ MarkAccepted(h) \/ MarkFails(h)
      BY <1>5, <1>7, <2>7, OthersWait, DoneJob DEF FileRequest, FileFails, MarkAccepted, MarkFails
    <2> QED BY <1>7, <2>1, <2>2, <2>3, <2>4, <2>5, <2>6, <2>7 DEF Proceed, Fail
  <1> QED BY <1>1, <1>2, <1>3, <1>4, <1>6, <1>7, Cases

\* Steps that write a relation, its cache, or look for it.
Relating(h) ==
  \/ Insert(h) \/ InsertFails(h) \/ Remove(h) \/ RemoveFails(h)
  \/ Put(h) \/ Erase(h) \/ LookForAdmin(h) \/ LookFails(h)

LEMMA RelatingFrame ==
  ASSUME TypeOK, NEW h \in Handlers, Relating(h)
  PROVE  /\ UNCHANGED <<ownerRow, owner, created, requests, doubled>>
         /\ job'[h].pc \in {"idle", "put", "erase", "insert", "mark"}
  <1>1. CASE Insert(h) \/ Remove(h) \/ LookForAdmin(h) \/ LookFails(h)
    BY <1>1, GoToJob DEF Insert, Remove, LookForAdmin, LookFails, PCs
  <1>2. CASE InsertFails(h) \/ RemoveFails(h) \/ Erase(h)
    BY <1>2, DoneJob DEF InsertFails, RemoveFails, Erase
  <1>3. CASE Put(h)
    BY <1>3, DoneJob, GoToJob DEF Put, PCs
  <1> QED BY <1>1, <1>2, <1>3 DEF Relating

\* What a step can be, by what it concerns.
LEMMA StepKinds ==
  ASSUME TypeOK, OwnerInv, [Next]_vars
  PROVE  \/ UNCHANGED vars
         \/ \E bad : Restart(bad)
         \/ \E h \in Handlers, u \in Registered, r \in DOMAIN requests : RejectRequest(h, u, r)
         \/ \E h \in Handlers :
              /\ \A k \in Handlers \ {h} : job'[k] = job[k]
              /\ \/ \E j : FirstJob(j) /\ Begin(h, j)
                 \/ Relating(h)
                 \/ AddGroupRow(h) \/ AddGroupFails(h) \/ CacheGroup(h)
                 \/ Elsewhere(h)
  <1>1. ASSUME NEW h \in Handlers, Proceed(h) \/ Fail(h) \/ \E j : FirstJob(j) /\ Begin(h, j)
        PROVE  /\ \A k \in Handlers \ {h} : job'[k] = job[k]
               /\ \/ \E j : FirstJob(j) /\ Begin(h, j)
                  \/ Relating(h)
                  \/ AddGroupRow(h) \/ AddGroupFails(h) \/ CacheGroup(h)
                  \/ Elsewhere(h)
    <2>1. \A k \in Handlers \ {h} : job'[k] = job[k]
      BY <1>1, OthersWait
    <2> QED BY <1>1, <2>1 DEF Proceed, Fail, Relating, Elsewhere
  <1> QED BY <1>1, Cases

\* Owners never change, neither in the table nor, once known, in the cache.
LEMMA OwnerStep ==
  ASSUME TypeOK, JobsOK, OwnerInv, CreatorOwns, RemoveInv, [Next]_vars
  PROVE  OwnerInv' /\ CreatorOwns' /\ RemoveInv'
  <1> DEFINE Ok == OwnerInv' /\ CreatorOwns' /\ RemoveInv'
             Kept == \A g \in Groups : ownerRow[g] # NoOwner => ownerRow'[g] = ownerRow[g]
  <1>a. ASSUME NEW u \in Users, NEW f \in Facts, Entitled(u, f, ownerRow), Kept PROVE Entitled(u, f, ownerRow')
    BY <1>a, Ids, FactParts DEF Entitled, NoOwner
  <1>b. \A c \in created : c[1] \in Groups /\ c[2] \in Users /\ c[2] # NoOwner
    BY Ids DEF TypeOK, NoOwner
  <1>c. \A k \in Handlers : job[k].pc = "remove" => job[k].fact \in Facts
    BY DEF JobsOK, JobOK
  <1>1. CASE UNCHANGED vars
    BY <1>1 DEF vars, OwnerInv, CreatorOwns, RemoveInv, Entitled
  <1>2. ASSUME NEW bad, Restart(bad) PROVE Ok
    BY <1>2 DEF Restart, Loaded, OwnerInv, CreatorOwns, RemoveInv, Idle, Job
  <1>3. ASSUME NEW h \in Handlers, NEW u, NEW r, RejectRequest(h, u, r) PROVE Ok
    BY <1>3 DEF RejectRequest, OwnerInv, CreatorOwns, RemoveInv, Entitled
  <1>4. ASSUME NEW h \in Handlers, \A k \in Handlers \ {h} : job'[k] = job[k],
               job'[h].pc \notin {"cachegroup", "remove"},
               UNCHANGED <<ownerRow, owner, created>>
        PROVE  Ok
    BY <1>4 DEF OwnerInv, CreatorOwns, RemoveInv, Entitled
  <1>5. ASSUME NEW h \in Handlers, \A k \in Handlers \ {h} : job'[k] = job[k],
               NEW j, FirstJob(j), Begin(h, j)
        PROVE  Ok
    <2>1. job'[h] = j /\ UNCHANGED <<ownerRow, owner, created>> /\ j.pc # "cachegroup"
      BY <1>5 DEF Begin, FirstJob, TypeOK
    <2>2. OwnerInv' /\ CreatorOwns'
      BY <1>5, <2>1 DEF OwnerInv, CreatorOwns
    <2>3. RemoveInv'
      BY <1>5, <2>1 DEF FirstJob, RemoveInv, Entitled
    <2> QED BY <2>2, <2>3
  <1>6. ASSUME NEW h \in Handlers, \A k \in Handlers \ {h} : job'[k] = job[k],
               AddGroupRow(h) \/ AddGroupFails(h)
        PROVE  Ok
    <2>1. job[h].id \in Groups /\ job[h].who \in Users
      BY <1>6 DEF AddGroupRow, AddGroupFails, JobsOK, JobOK
    <2>2. /\ Kept
          /\ owner' = owner /\ created' = created
          /\ \A g \in Groups : g # job[h].id => ownerRow'[g] = ownerRow[g]
      BY <1>6, <2>1 DEF AddGroupRow, AddGroupFails, TypeOK
    <2>3. \/ job'[h].pc = "idle"
          \/ job'[h].pc = "cachegroup" /\ ownerRow'[job'[h].id] = job'[h].who
      BY <1>6, <2>1, DoneJob, GoToJob DEF AddGroupRow, AddGroupFails, TypeOK, PCs
    <2>4. OwnerInv'
      <3>1. \A g \in Groups : owner'[g] # NoOwner => owner'[g] = ownerRow'[g]
        BY <2>2 DEF OwnerInv
      <3>2. ASSUME NEW k \in Handlers, job'[k].pc = "cachegroup" PROVE ownerRow'[job'[k].id] = job'[k].who
        <4>1. CASE k = h
          BY <2>3, <3>2, <4>1
        <4>2. CASE k # h
          <5>1. job'[k] = job[k] /\ job[k].pc = "cachegroup"
            BY <1>6, <3>2, <4>2
          <5>2. job[k].id \in Groups /\ ownerRow[job[k].id] # NoOwner
            BY <5>1, Ids DEF JobsOK, JobOK, OwnerInv, NoOwner
          <5> QED BY <2>2, <5>1, <5>2 DEF OwnerInv
        <4> QED BY <4>1, <4>2
      <3> QED BY <3>1, <3>2 DEF OwnerInv
    <2>5. CreatorOwns'
      BY <1>b, <2>2 DEF CreatorOwns
    <2>6. RemoveInv'
      <3>1. ASSUME NEW k \in Handlers, job'[k].pc = "remove" PROVE Entitled(job'[k].who, job'[k].fact, ownerRow') /\ job'[k].who \in Users
        <4>1. k # h /\ job'[k] = job[k] /\ job[k].pc = "remove"
          BY <1>6, <2>3, <3>1
        <4>2. Entitled(job[k].who, job[k].fact, ownerRow) /\ job[k].who \in Users /\ job[k].fact \in Facts
          BY <1>c, <4>1 DEF RemoveInv
        <4> QED BY <1>a, <2>2, <4>1, <4>2
      <3> QED BY <3>1 DEF RemoveInv
    <2> QED BY <2>4, <2>5, <2>6
  <1>7. ASSUME NEW h \in Handlers, \A k \in Handlers \ {h} : job'[k] = job[k], CacheGroup(h)
        PROVE  Ok
    <2>1. /\ job[h].pc = "cachegroup" /\ job[h].id \in Groups
          /\ ownerRow[job[h].id] = job[h].who
          /\ ownerRow' = ownerRow /\ rows' = rows
      BY <1>7 DEF CacheGroup, JobsOK, JobOK, OwnerInv
    <2>2. /\ owner' = [owner EXCEPT ![job[h].id] = job[h].who]
          /\ created' = created \cup {<<job[h].id, job[h].who>>}
          /\ job'[h].pc = "insert"
      BY <1>7 DEF CacheGroup, Adding, Job, TypeOK
    <2>3. OwnerInv'
      BY <1>7, <2>1, <2>2 DEF OwnerInv, TypeOK
    <2>4. CreatorOwns'
      BY <1>b, <2>1, <2>2 DEF CreatorOwns, TypeOK
    <2>5. RemoveInv'
      BY <1>7, <2>1, <2>2 DEF RemoveInv, Entitled
    <2> QED BY <2>3, <2>4, <2>5
  <1>8. ASSUME NEW h \in Handlers, \A k \in Handlers \ {h} : job'[k] = job[k], Relating(h)
        PROVE  Ok
    BY <1>4, <1>8, RelatingFrame
  <1>9. ASSUME NEW h \in Handlers, \A k \in Handlers \ {h} : job'[k] = job[k], Elsewhere(h)
        PROVE  Ok
    BY <1>4, <1>9, ElsewhereFrame
  <1> QED BY <1>1, <1>2, <1>3, <1>5, <1>6, <1>7, <1>8, <1>9, StepKinds

-----------------------------------------------------------------------------
(* Table and cache *)

LEMMA BeginFrame ==
  ASSUME TypeOK, NEW h \in Handlers, NEW j, FirstJob(j), Begin(h, j)
  PROVE  /\ job[h].pc = "idle" /\ job'[h] = j
         /\ j.pc \in {"insert", "remove", "look", "store", "find"}
         /\ UNCHANGED <<tables, cache, history>>
  BY DEF Begin, FirstJob, TypeOK

LEMMA ElsewherePc ==
  ASSUME NEW h \in Handlers, Elsewhere(h)
  PROVE  job[h].pc \notin {"put", "erase"}
  BY DEF Elsewhere, StoreBase, TakeId, FindPending, FindFails, FileRequest, FileFails,
         MarkAccepted, MarkFails

\* The cache after UserManager::init shows what the tables hold, of every account
\* whose queries succeed.
LEMMA LoadedFacts ==
  ASSUME NEW R, NEW O, NEW bad, NEW fr, NEW ad, NEW ow, NEW ba,
         Loaded(R, O, bad, fr, ad, ow, ba),
         NEW f \in Facts, <<f[1], f[2]>> \notin bad, <<f[1], f[3]>> \notin bad
  PROVE  /\ ow = O
         /\ f[1] = "rel" =>
              /\ (f[2] \in Registered \/ (f[2] \in Groups /\ O[f[2]] # NoOwner))
                   => (f[3] \in fr[f[2]] <=> f \in R)
              /\ (f[3] \in Registered \/ (f[3] \in Groups /\ O[f[3]] # NoOwner))
                   => (f[2] \in fr[f[3]] <=> f \in R)
         /\ f[1] # "rel" => (O[f[2]] # NoOwner => (f[3] \in ad[f[2]] <=> f \in R))
  <1>1. CASE f[1] = "rel"
    <2>1. f[2] \in Accounts /\ f[3] \in Accounts /\ f[2] # f[3] /\ f = Rel(f[2], f[3]) /\ f = Rel(f[3], f[2])
      BY <1>1, FactParts, RelFact, Ids
    <2>2. f[3] \in FriendsIn(R, f[2]) <=> f \in R
      BY <2>1 DEF FriendsIn
    <2>3. f[2] \in FriendsIn(R, f[3]) <=> f \in R
      BY <2>1 DEF FriendsIn
    <2> QED BY <1>1, <2>1, <2>2, <2>3 DEF Loaded
  <1>2. CASE f[1] # "rel"
    <2>1. f[1] = "admin" /\ f[2] \in Groups /\ f[3] \in Users /\ f = Admin(f[2], f[3])
      BY <1>2, FactParts
    <2> QED BY <1>2, <2>1 DEF Loaded, AdminsIn
  <1> QED BY <1>1, <1>2

\* Statements and cache updates of one relation alternate, or it is loose.
LEMMA MidwayStep ==
  ASSUME TypeOK, JobsOK, OwnerInv, MidwayInv, [Next]_vars
  PROVE  MidwayInv'
  <1>1. CASE UNCHANGED vars
    BY <1>1 DEF vars, MidwayInv
  <1>2. ASSUME NEW bad, Restart(bad) PROVE MidwayInv'
    BY <1>2 DEF Restart, MidwayInv, Idle, Job
  <1>3. ASSUME NEW h \in Handlers, NEW u, NEW r, RejectRequest(h, u, r) PROVE MidwayInv'
    BY <1>3 DEF RejectRequest, MidwayInv
  <1> SUFFICES ASSUME NEW h \in Handlers, \A k \in Handlers \ {h} : job'[k] = job[k],
                      \/ \E j : FirstJob(j) /\ Begin(h, j)
                      \/ Relating(h)
                      \/ AddGroupRow(h) \/ AddGroupFails(h) \/ CacheGroup(h)
                      \/ Elsewhere(h)
               PROVE  MidwayInv'
    BY <1>1, <1>2, <1>3, StepKinds
  <1>4. ASSUME UNCHANGED <<rows, loose>>, job'[h].pc \notin {"put", "erase"} PROVE MidwayInv'
    BY <1>4 DEF MidwayInv
  <1>5. CASE \E j : FirstJob(j) /\ Begin(h, j)
    BY <1>4, <1>5, BeginFrame
  <1>6. CASE Elsewhere(h)
    BY <1>4, <1>6, ElsewhereFrame
  <1>7. CASE AddGroupRow(h) \/ AddGroupFails(h)
    BY <1>4, <1>7, DoneJob, GoToJob DEF AddGroupRow, AddGroupFails, PCs
  <1>8. CASE CacheGroup(h)
    BY <1>4, <1>8 DEF CacheGroup, Adding, Job, TypeOK
  <1>9. CASE Put(h)
    BY <1>4, <1>9, DoneJob, GoToJob DEF Put, PCs
  <1>10. CASE Erase(h)
    BY <1>4, <1>10, DoneJob DEF Erase
  <1>11. CASE LookFails(h)
    BY <1>4, <1>11, GoToJob DEF LookFails, PCs
  <1>12. CASE Insert(h)
    <2>1. job'[h].pc = "put" /\ job'[h].fact = job[h].fact
      BY <1>12, GoToJob DEF Insert, PCs
    <2> QED BY <1>12, <2>1 DEF Insert, Midway, MidwayInv
  <1>13. CASE Remove(h)
    <2>1. job'[h].pc = "erase" /\ job'[h].fact = job[h].fact
      BY <1>13, GoToJob DEF Remove, PCs
    <2> QED BY <1>13, <2>1 DEF Remove, Midway, MidwayInv
  <1>14. CASE LookForAdmin(h)
    <2>1. job'[h].fact = job[h].fact /\ job'[h].pc \in {"put", "insert"}
          /\ (job'[h].pc = "put" => job[h].fact \in rows)
      BY <1>14, GoToJob DEF LookForAdmin, PCs
    <2> QED BY <1>14, <2>1 DEF LookForAdmin, MidwayInv
  <1>15. CASE InsertFails(h) \/ RemoveFails(h)
    <2>1. job'[h].pc = "idle"
      BY <1>15, DoneJob DEF InsertFails, RemoveFails
    <2> QED BY <1>15, <2>1 DEF InsertFails, RemoveFails, MidwayInv
  <1> QED
    BY <1>5, <1>6, <1>7, <1>8, <1>9, <1>10, <1>11, <1>12, <1>13, <1>14, <1>15 DEF Relating

\* No handler is between a statement on f and the cache.
Quiet(f) == \A h \in Handlers : job[h].fact = f => job[h].pc \notin {"put", "erase"}

LEMMA AgreeStep ==
  ASSUME TypeOK, JobsOK, OwnerInv, MidwayInv, RowsMatchCache, [Next]_vars
  PROVE  RowsMatchCache'
  <1> SUFFICES ASSUME NEW f \in Facts, f \notin loose', f \notin torn', Quiet(f)' PROVE Agree(f)'
    BY DEF RowsMatchCache, Quiet
  <1>a. f \notin loose /\ f \notin torn /\ Quiet(f) => Agree(f)
    BY DEF RowsMatchCache, Quiet
  <1>b. f = <<f[1], f[2], f[3]>>
    BY FactParts
  <1>1. CASE UNCHANGED vars
    BY <1>1, <1>a DEF vars, Quiet, Agree, Known
  <1>2. ASSUME NEW bad, Restart(bad) PROVE Agree(f)'
    <2>1. <<f[1], f[2]>> \notin bad /\ <<f[1], f[3]>> \notin bad
      BY <1>2 DEF Restart
    <2>2. Loaded(rows, ownerRow, bad, friends', admins', owner', base') /\ rows' = rows
      BY <1>2 DEF Restart
    <2> QED BY <2>1, <2>2, LoadedFacts, FactParts, Ids DEF Agree, Known
  <1>3. ASSUME NEW h \in Handlers, NEW u, NEW r, RejectRequest(h, u, r) PROVE Agree(f)'
    BY <1>3, <1>a DEF RejectRequest, Quiet, Agree, Known
  <1> SUFFICES ASSUME NEW h \in Handlers, \A k \in Handlers \ {h} : job'[k] = job[k],
                      \/ \E j : FirstJob(j) /\ Begin(h, j)
                      \/ Relating(h)
                      \/ AddGroupRow(h) \/ AddGroupFails(h) \/ CacheGroup(h)
                      \/ Elsewhere(h)
               PROVE  Agree(f)'
    BY <1>1, <1>2, <1>3, StepKinds
  <1>c. job[h].fact # f \/ job[h].pc \notin {"put", "erase"} => Quiet(f)
    BY DEF Quiet
  <1>4. ASSUME UNCHANGED <<friends, admins, owner>>, f \in rows' <=> f \in rows,
               loose \subseteq loose', torn \subseteq torn',
               job[h].fact # f \/ job[h].pc \notin {"put", "erase"}
        PROVE  Agree(f)'
    BY <1>4, <1>a, <1>c DEF Agree, Known
  <1>5. CASE \E j : FirstJob(j) /\ Begin(h, j)
    BY <1>4, <1>5, BeginFrame
  <1>6. CASE Elsewhere(h)
    BY <1>4, <1>6, ElsewhereFrame, ElsewherePc
  <1>7. CASE AddGroupRow(h) \/ AddGroupFails(h)
    BY <1>4, <1>7 DEF AddGroupRow, AddGroupFails
  <1>8. CASE LookForAdmin(h) \/ LookFails(h)
    BY <1>4, <1>8 DEF LookForAdmin, LookFails
  <1>9. CASE Insert(h)
    <2>1. job'[h].pc = "put" /\ job'[h].fact = job[h].fact
      BY <1>9, GoToJob DEF Insert, PCs
    <2>2. job[h].fact # f
      BY <2>1 DEF Quiet
    <2> QED BY <1>4, <1>9, <2>2 DEF Insert
  <1>10. CASE Remove(h)
    <2>1. job'[h].pc = "erase" /\ job'[h].fact = job[h].fact
      BY <1>10, GoToJob DEF Remove, PCs
    <2>2. job[h].fact # f
      BY <2>1 DEF Quiet
    <2> QED BY <1>4, <1>10, <2>2 DEF Remove
  <1>11. CASE InsertFails(h) \/ RemoveFails(h)
    <2>1. f \in rows' <=> f \in rows
      BY <1>11 DEF InsertFails, RemoveFails
    <2> QED BY <1>4, <1>11, <2>1 DEF InsertFails, RemoveFails
  <1>d. /\ f[1] = "rel" => f[2] \in Accounts /\ f[3] \in Accounts /\ f[2] # f[3]
                           /\ f[2] < f[3] /\ f[2] \in Nat /\ f[3] \in Nat
        /\ f[1] # "rel" => f[2] \in Groups /\ f[3] \in Users
    BY FactParts, Ids
  <1>e. friends \in [Accounts -> SUBSET Accounts] /\ admins \in [Groups -> SUBSET Users]
    BY DEF TypeOK
  <1>12. CASE Put(h)
    <2> DEFINE d == job[h].fact
    <2>1. d \in Facts /\ job[h].pc = "put"
      BY <1>12 DEF Put, JobsOK, JobOK
    <2>2. /\ d[1] = "rel" => d[2] \in Accounts /\ d[3] \in Accounts /\ d[2] < d[3]
                             /\ d[2] \in Nat /\ d[3] \in Nat /\ d[2] # d[3]
          /\ d[1] # "rel" => d[2] \in Groups /\ d[3] \in Users
          /\ d = <<d[1], d[2], d[3]>>
          /\ d[1] # "rel" => d[1] = "admin"
      BY <2>1, FactParts, Ids
    <2>3. rows' = rows /\ owner' = owner /\ loose' = loose /\ torn \subseteq torn'
      BY <1>12 DEF Put
    <2>4. CASE d = f
      <3>1. f \in rows
        BY <1>12, <2>3, <2>4 DEF MidwayInv, Put
      <3>2. CASE f[1] = "rel"
        <4>1. PutRel(f[2], f[3]) /\ Known(f[2]) /\ Known(f[3])
          BY <1>12, <2>4, <3>2 DEF Put
        <4>2. f[3] \in friends'[f[2]] /\ f[2] \in friends'[f[3]]
          BY <1>d, <1>e, <3>2, <4>1 DEF PutRel
        <4> QED BY <2>3, <3>1, <3>2, <4>2 DEF Agree
      <3>3. CASE f[1] # "rel"
        <4>1. f[3] \in admins'[f[2]]
          BY <1>12, <1>d, <1>e, <2>4, <3>3 DEF Put
        <4> QED BY <2>3, <3>1, <3>3, <4>1 DEF Agree
      <3> QED BY <3>2, <3>3
    <2>5. CASE d # f
      <3>1. Agree(f)
        BY <1>a, <1>c, <2>3, <2>5
      <3>2. CASE f[1] = "rel"
        <4>1. (f[3] \in friends'[f[2]] <=> f[3] \in friends[f[2]])
              /\ (f[2] \in friends'[f[3]] <=> f[2] \in friends[f[3]])
          <5>1. CASE d[1] = "rel"
            <6>1. PutRel(d[2], d[3])
              BY <1>12, <5>1 DEF Put
            <6>2. ~ (d[2] = f[2] /\ d[3] = f[3]) /\ ~ (d[2] = f[3] /\ d[3] = f[2])
              BY <1>b, <1>d, <2>2, <2>5, <3>2, <5>1
            <6> HIDE DEF d
            <6> QED BY <1>d, <1>e, <2>2, <3>2, <5>1, <6>1, <6>2 DEF PutRel
          <5>2. CASE d[1] # "rel"
            BY <1>12, <5>2 DEF Put
          <5> QED BY <5>1, <5>2
        <4> QED BY <2>3, <3>1, <3>2, <4>1 DEF Agree, Known
      <3>3. CASE f[1] # "rel"
        <4>1. f[3] \in admins'[f[2]] <=> f[3] \in admins[f[2]]
          <5>1. CASE d[1] = "rel"
            BY <1>12, <5>1 DEF Put
          <5>2. CASE d[1] # "rel"
            <6>1. admins' = [admins EXCEPT ![d[2]] = @ \cup {d[3]}]
              BY <1>12, <5>2 DEF Put
            <6>2. ~ (d[2] = f[2] /\ d[3] = f[3])
              BY <1>b, <2>2, <2>5, <3>3, <5>2, FactParts
            <6> QED BY <1>d, <1>e, <3>3, <6>1, <6>2
          <5> QED BY <5>1, <5>2
        <4> QED BY <2>3, <3>1, <3>3, <4>1 DEF Agree, Known
      <3> QED BY <3>2, <3>3
    <2> QED BY <2>4, <2>5
  <1>13. CASE Erase(h)
    <2> DEFINE d == job[h].fact
    <2>1. d \in Facts /\ job[h].pc = "erase"
      BY <1>13 DEF Erase, JobsOK, JobOK
    <2>2. /\ d[1] = "rel" => d[2] \in Accounts /\ d[3] \in Accounts /\ d[2] < d[3]
                             /\ d[2] \in Nat /\ d[3] \in Nat /\ d[2] # d[3]
          /\ d[1] # "rel" => d[2] \in Groups /\ d[3] \in Users
          /\ d = <<d[1], d[2], d[3]>>
          /\ d[1] # "rel" => d[1] = "admin"
      BY <2>1, FactParts, Ids
    <2>3. rows' = rows /\ owner' = owner /\ loose' = loose /\ torn' = torn
      BY <1>13 DEF Erase
    <2>4. CASE d = f
      <3>1. f \notin rows
        BY <1>13, <2>3, <2>4 DEF MidwayInv, Erase
      <3>2. CASE f[1] = "rel"
        <4>1. friends' = [friends EXCEPT ![f[2]] = @ \ {f[3]}, ![f[3]] = @ \ {f[2]}]
          BY <1>13, <2>4, <3>2 DEF Erase
        <4>2. f[3] \notin friends'[f[2]] /\ f[2] \notin friends'[f[3]]
          BY <1>d, <1>e, <3>2, <4>1
        <4> QED BY <2>3, <3>1, <3>2, <4>2 DEF Agree
      <3>3. CASE f[1] # "rel"
        <4>1. f[3] \notin admins'[f[2]]
          BY <1>13, <1>d, <1>e, <2>4, <3>3 DEF Erase
        <4> QED BY <2>3, <3>1, <3>3, <4>1 DEF Agree
      <3> QED BY <3>2, <3>3
    <2>5. CASE d # f
      <3>1. Agree(f)
        BY <1>a, <1>c, <2>3, <2>5
      <3>2. CASE f[1] = "rel"
        <4>1. (f[3] \in friends'[f[2]] <=> f[3] \in friends[f[2]])
              /\ (f[2] \in friends'[f[3]] <=> f[2] \in friends[f[3]])
          <5>1. CASE d[1] = "rel"
            <6>1. friends' = [friends EXCEPT ![d[2]] = @ \ {d[3]}, ![d[3]] = @ \ {d[2]}]
              BY <1>13, <5>1 DEF Erase
            <6>2. ~ (d[2] = f[2] /\ d[3] = f[3]) /\ ~ (d[2] = f[3] /\ d[3] = f[2])
              BY <1>b, <1>d, <2>2, <2>5, <3>2, <5>1
            <6> HIDE DEF d
            <6> QED BY <1>d, <1>e, <2>2, <3>2, <5>1, <6>1, <6>2
          <5>2. CASE d[1] # "rel"
            BY <1>13, <5>2 DEF Erase
          <5> QED BY <5>1, <5>2
        <4> QED BY <2>3, <3>1, <3>2, <4>1 DEF Agree, Known
      <3>3. CASE f[1] # "rel"
        <4>1. f[3] \in admins'[f[2]] <=> f[3] \in admins[f[2]]
          <5>1. CASE d[1] = "rel"
            BY <1>13, <5>1 DEF Erase
          <5>2. CASE d[1] # "rel"
            <6>1. admins' = [admins EXCEPT ![d[2]] = @ \ {d[3]}]
              BY <1>13, <5>2 DEF Erase
            <6>2. ~ (d[2] = f[2] /\ d[3] = f[3])
              BY <1>b, <2>2, <2>5, <3>3, <5>2, FactParts
            <6> QED BY <1>d, <1>e, <3>3, <6>1, <6>2
          <5> QED BY <5>1, <5>2
        <4> QED BY <2>3, <3>1, <3>3, <4>1 DEF Agree, Known
      <3> QED BY <3>2, <3>3
    <2> QED BY <2>4, <2>5
  <1>14. CASE CacheGroup(h)
    <2> DEFINE g == job[h].id
    <2>1. job[h].pc = "cachegroup" /\ g \in Groups /\ g \in Accounts
      BY <1>14 DEF CacheGroup, JobsOK, JobOK, Accounts
    <2>2. /\ rows' = rows /\ loose' = loose /\ torn \subseteq torn'
          /\ owner' = [owner EXCEPT ![g] = job[h].who]
          /\ friends' = [friends EXCEPT ![g] = {}]
          /\ admins' = [admins EXCEPT ![g] = {}]
      BY <1>14 DEF CacheGroup
    <2>3. /\ g \in {f[2], f[3]} => f \notin rows
          /\ \A a \in Accounts : a # g /\ IsFriend(a, g) => f # Rel(a, g)
      BY <1>14 DEF CacheGroup
    <2>4. Agree(f)
      BY <1>a, <1>c, <2>1, <2>2
    <2> HIDE DEF g
    <2>5. CASE f[1] = "rel"
      <3>1. CASE g = f[2]
        <4>1. f = Rel(f[3], g) /\ ~ IsFriend(f[3], g)
          BY <1>d, <2>3, <2>5, <3>1, FactParts, RelFact
        <4> QED BY <1>d, <1>e, <2>2, <2>3, <2>5, <3>1, <4>1 DEF Agree, IsFriend
      <3>2. CASE g = f[3]
        <4>1. f = Rel(f[2], g) /\ ~ IsFriend(f[2], g)
          BY <1>d, <2>3, <2>5, <3>2, FactParts, RelFact
        <4> QED BY <1>d, <1>e, <2>2, <2>3, <2>5, <3>2, <4>1 DEF Agree, IsFriend
      <3>3. CASE g # f[2] /\ g # f[3]
        <4>1. friends'[f[2]] = friends[f[2]] /\ friends'[f[3]] = friends[f[3]]
          BY <1>d, <1>e, <2>2, <2>5, <3>3
        <4>2. (Known(f[2])' <=> Known(f[2])) /\ (Known(f[3])' <=> Known(f[3]))
          BY <2>2, <3>3 DEF Known, TypeOK
        <4> QED BY <2>2, <2>4, <2>5, <4>1, <4>2 DEF Agree
      <3> QED BY <3>1, <3>2, <3>3
    <2>6. CASE f[1] # "rel"
      <3>1. CASE g = f[2]
        BY <1>d, <1>e, <2>2, <2>3, <2>6, <3>1 DEF Agree
      <3>2. CASE g # f[2]
        <4>1. admins'[f[2]] = admins[f[2]] /\ (Known(f[2])' <=> Known(f[2]))
          BY <1>d, <1>e, <2>2, <2>6, <3>2 DEF Known, TypeOK
        <4> QED BY <2>2, <2>4, <2>6, <4>1 DEF Agree
      <3> QED BY <3>1, <3>2
    <2> QED BY <2>5, <2>6
  <1> QED
    BY <1>5, <1>6, <1>7, <1>8, <1>9, <1>10, <1>11, <1>12, <1>13, <1>14 DEF Relating

\* Both sides of a friendship change in one step, under m_mutex.
LEMMA MutualStep ==
  ASSUME TypeOK, JobsOK, OwnerInv, FriendsMutual, [Next]_vars
  PROVE  FriendsMutual'
  <1> SUFFICES ASSUME NEW a \in Accounts, NEW b \in Accounts, a < b, Known(a)', Known(b)',
                      Rel(a, b) \notin torn'
               PROVE  b \in friends'[a] <=> a \in friends'[b]
    BY DEF FriendsMutual, IsFriend
  <1> DEFINE f == Rel(a, b)
  <1>a. f \in Facts /\ f[1] = "rel" /\ f[2] = a /\ f[3] = b /\ a # b
    BY Ids, RelFact
  <1>b. f \notin torn /\ Known(a) /\ Known(b) => (b \in friends[a] <=> a \in friends[b])
    BY DEF FriendsMutual, IsFriend
  <1>c. friends \in [Accounts -> SUBSET Accounts]
    BY DEF TypeOK
  <1>d. f \notin torn'
    OBVIOUS
  <1> HIDE DEF f
  <1>0. ASSUME UNCHANGED <<friends, owner>>, torn \subseteq torn' PROVE b \in friends'[a] <=> a \in friends'[b]
    BY <1>0, <1>b, <1>d DEF Known
  <1>1. CASE UNCHANGED vars
    BY <1>0, <1>1 DEF vars
  <1>2. ASSUME NEW bad, Restart(bad) PROVE b \in friends'[a] <=> a \in friends'[b]
    <2>1. <<f[1], f[2]>> \notin bad /\ <<f[1], f[3]>> \notin bad
      BY <1>2, <1>a, <1>d DEF Restart
    <2>2. Loaded(rows, ownerRow, bad, friends', admins', owner', base')
      BY <1>2 DEF Restart
    <2> QED BY <1>a, <2>1, <2>2, LoadedFacts DEF Known
  <1>3. ASSUME NEW h \in Handlers, NEW u, NEW r, RejectRequest(h, u, r) PROVE b \in friends'[a] <=> a \in friends'[b]
    BY <1>3, <1>0 DEF RejectRequest
  <1> SUFFICES ASSUME NEW h \in Handlers, \A k \in Handlers \ {h} : job'[k] = job[k],
                      \/ \E j : FirstJob(j) /\ Begin(h, j)
                      \/ Relating(h)
                      \/ AddGroupRow(h) \/ AddGroupFails(h) \/ CacheGroup(h)
                      \/ Elsewhere(h)
               PROVE  b \in friends'[a] <=> a \in friends'[b]
    BY <1>1, <1>2, <1>3, StepKinds
  <1>4. CASE \E j : FirstJob(j) /\ Begin(h, j)
    BY <1>0, <1>4, BeginFrame
  <1>5. CASE Elsewhere(h)
    BY <1>0, <1>5, ElsewhereFrame
  <1>6. CASE AddGroupRow(h) \/ AddGroupFails(h) \/ LookForAdmin(h) \/ LookFails(h)
    BY <1>0, <1>6 DEF AddGroupRow, AddGroupFails, LookForAdmin, LookFails
  <1>7. CASE Insert(h) \/ InsertFails(h) \/ Remove(h) \/ RemoveFails(h)
    BY <1>0, <1>7 DEF Insert, InsertFails, Remove, RemoveFails
  <1>8. ASSUME NEW d \in Facts, d[1] = "rel"
        PROVE  /\ d[2] \in Accounts /\ d[3] \in Accounts /\ d[2] # d[3]
               /\ d # f => ~ (d[2] = a /\ d[3] = b) /\ ~ (d[2] = b /\ d[3] = a)
    <2>1. d[2] \in Accounts /\ d[3] \in Accounts /\ d[2] < d[3] /\ d = Rel(d[2], d[3])
          /\ d[2] \in Nat /\ d[3] \in Nat
      BY <1>8, FactParts, Ids
    <2>2. d[2] # d[3]
      BY <2>1
    <2>3. Rel(d[2], d[3]) = Rel(d[3], d[2])
      BY <2>1, <2>2, RelFact
    <2> QED BY <2>1, <2>2, <2>3 DEF f
  <1>9. CASE Put(h)
    <2> DEFINE d == job[h].fact
    <2>1. d \in Facts
      BY <1>9 DEF Put, JobsOK, JobOK
    <2>2. owner' = owner /\ torn \subseteq torn'
      BY <1>9 DEF Put
    <2>3. b \in friends[a] <=> a \in friends[b]
      BY <1>b, <1>d, <2>2 DEF Known
    <2>4. CASE d[1] = "rel"
      <3>1. PutRel(d[2], d[3]) /\ (d = f => Known(d[2]) /\ Known(d[3]))
        BY <1>9, <1>d, <2>4 DEF Put
      <3> HIDE DEF d
      <3>2. CASE d = f
        BY <1>a, <1>c, <3>1, <3>2 DEF PutRel
      <3>3. CASE d # f
        BY <1>8, <1>c, <2>1, <2>3, <2>4, <3>1, <3>3 DEF PutRel
      <3> QED BY <3>2, <3>3
    <2>5. CASE d[1] # "rel"
      BY <1>9, <2>3, <2>5 DEF Put
    <2> QED BY <2>4, <2>5
  <1>10. CASE Erase(h)
    <2> DEFINE d == job[h].fact
    <2>1. d \in Facts
      BY <1>10 DEF Erase, JobsOK, JobOK
    <2>2. owner' = owner /\ torn' = torn
      BY <1>10 DEF Erase
    <2>3. b \in friends[a] <=> a \in friends[b]
      BY <1>b, <1>d, <2>2 DEF Known
    <2>4. CASE d[1] = "rel"
      <3>1. friends' = [friends EXCEPT ![d[2]] = @ \ {d[3]}, ![d[3]] = @ \ {d[2]}]
        BY <1>10, <2>4 DEF Erase
      <3> HIDE DEF d
      <3>2. CASE d = f
        BY <1>a, <1>c, <3>1, <3>2
      <3>3. CASE d # f
        BY <1>8, <1>c, <2>1, <2>3, <2>4, <3>1, <3>3
      <3> QED BY <3>2, <3>3
    <2>5. CASE d[1] # "rel"
      BY <1>10, <2>3, <2>5 DEF Erase
    <2> QED BY <2>4, <2>5
  <1>11. CASE CacheGroup(h)
    <2> DEFINE g == job[h].id
    <2>1. g \in Groups /\ g \in Accounts
      BY <1>11 DEF CacheGroup, JobsOK, JobOK, Accounts
    <2>2. /\ torn \subseteq torn'
          /\ owner' = [owner EXCEPT ![g] = job[h].who]
          /\ friends' = [friends EXCEPT ![g] = {}]
          /\ \A c \in Accounts : c # g /\ g \in friends[c] => Rel(c, g) \in torn'
      BY <1>11 DEF CacheGroup, IsFriend
    <2> HIDE DEF g
    <2>3. CASE g = a
      <3>1. Rel(b, g) = f
        BY <1>a, <2>3, RelFact DEF f
      <3> QED BY <1>a, <1>c, <1>d, <2>2, <2>3, <3>1
    <2>4. CASE g = b
      BY <1>a, <1>c, <1>d, <2>2, <2>4 DEF f
    <2>5. CASE g # a /\ g # b
      <3>1. Known(a) /\ Known(b)
        BY <2>2, <2>5 DEF Known, TypeOK
      <3> QED BY <1>b, <1>c, <1>d, <2>2, <2>5, <3>1
    <2> QED BY <2>3, <2>4, <2>5
  <1> QED
    BY <1>4, <1>5, <1>6, <1>7, <1>9, <1>10, <1>11 DEF Relating

-----------------------------------------------------------------------------
(* Requests *)

\* A relation somebody asked for leaves the table only into removed.
LEMMA AskedKept ==
  ASSUME NEW h, Relating(h), NEW f \in rows \cup removed, f \in Asked
  PROVE  f \in rows' \cup removed'
  BY DEF Relating, Insert, InsertFails, Remove, RemoveFails, Put, Erase, LookForAdmin, LookFails

\* A request is marked only after its relation was made.
LEMMA AcceptStep ==
  ASSUME TypeOK, JobsOK, OwnerInv, AcceptInv, AcceptedStands, [Next]_vars
  PROVE  AcceptInv' /\ AcceptedStands'
  <1> DEFINE Ok == AcceptInv' /\ AcceptedStands'
  <1>a. \A i \in DOMAIN requests : FactOf(requests[i].ask) \in Asked
    BY DEF Asked
  <1>b. \A k \in Handlers : job[k].req # 0 => job[k].fact \in Asked
    BY <1>a DEF JobsOK, JobOK
  <1>1. CASE UNCHANGED vars
    BY <1>1 DEF vars, AcceptInv, AcceptedStands
  <1>2. ASSUME NEW bad, Restart(bad) PROVE Ok
    BY <1>2 DEF Restart, AcceptInv, AcceptedStands, Idle, Job
  <1>3. ASSUME NEW h \in Handlers, NEW u, NEW r \in DOMAIN requests, RejectRequest(h, u, r) PROVE Ok
    <2>1. /\ requests' = [requests EXCEPT ![r].status = 2] /\ requests \in Seq(Requests)
          /\ job' = job /\ rows' = rows /\ removed' = removed
      BY <1>3 DEF RejectRequest, TypeOK
    <2>2. /\ DOMAIN requests' = DOMAIN requests
          /\ requests'[r].status = 2
          /\ \A i \in DOMAIN requests : i # r => requests'[i] = requests[i]
      BY <2>1, MarkRequest
    <2>3. AcceptInv'
      BY <2>1 DEF AcceptInv
    <2>4. AcceptedStands'
      BY <2>1, <2>2 DEF AcceptedStands
    <2> QED BY <2>3, <2>4
  <1> SUFFICES ASSUME NEW h \in Handlers, \A k \in Handlers \ {h} : job'[k] = job[k],
                      \/ \E j : FirstJob(j) /\ Begin(h, j)
                      \/ Relating(h)
                      \/ AddGroupRow(h) \/ AddGroupFails(h) \/ CacheGroup(h)
                      \/ Elsewhere(h)
               PROVE  Ok
    BY <1>1, <1>2, <1>3, StepKinds
  <1>4. ASSUME UNCHANGED <<rows, removed>>, job'[h].pc \notin {"put", "mark"} PROVE AcceptInv'
    BY <1>4 DEF AcceptInv
  <1>5. ASSUME UNCHANGED <<rows, removed, requests>>, job'[h].pc \notin {"put", "mark"} PROVE Ok
    BY <1>4, <1>5 DEF AcceptedStands
  <1>6. CASE \E j : FirstJob(j) /\ Begin(h, j)
    BY <1>5, <1>6, BeginFrame
  <1>7. CASE AddGroupRow(h) \/ AddGroupFails(h)
    BY <1>5, <1>7, DoneJob, GoToJob DEF AddGroupRow, AddGroupFails, PCs
  <1>8. CASE CacheGroup(h)
    BY <1>5, <1>8 DEF CacheGroup, Adding, Job, TypeOK
  <1>9. CASE Elsewhere(h)
    <2>1. UNCHANGED <<rows, removed>> /\ job'[h].pc \notin {"put", "mark"}
      BY <1>9, ElsewhereFrame
    <2>2. AcceptInv'
      BY <1>4, <2>1
    <2>3. CASE requests' = requests
      BY <1>5, <2>1, <2>3
    <2>4. CASE MarkAccepted(h)
      <3> DEFINE r == job[h].req
      <3>1. /\ r \in DOMAIN requests /\ job[h].fact = FactOf(requests[r].ask)
            /\ job[h].fact \in rows \cup removed
        BY <2>4 DEF MarkAccepted, JobsOK, JobOK, AcceptInv
      <3>2. requests' = [requests EXCEPT ![r].status = 1] /\ requests \in Seq(Requests)
        BY <2>4 DEF MarkAccepted, TypeOK
      <3> HIDE DEF r
      <3>3. /\ DOMAIN requests' = DOMAIN requests
            /\ \A i \in DOMAIN requests : i # r => requests'[i] = requests[i]
        BY <3>1, <3>2, MarkRequest
      <3>4. Extends(requests, requests')
        <4>1. r \in DOMAIN requests
          BY <3>1
        <4>2. \A Q : Q = [requests EXCEPT ![r].status = 1] => Extends(requests, Q)
          BY <3>2, <4>1, MarkRequest
        <4> QED BY <3>2, <4>2
      <3>5. requests'[r].ask = requests[r].ask
        BY <3>1, <3>4 DEF Extends
      <3>6. AcceptedStands'
        BY <2>1, <3>1, <3>3, <3>5 DEF AcceptedStands
      <3> QED BY <2>2, <3>6
    <2>5. CASE FileRequest(h) \/ FileFails(h)
      <3>1. job[h].ask \in Asks /\ requests \in Seq(Requests)
        BY <2>5 DEF FileRequest, FileFails, JobsOK, JobOK, TypeOK
      <3>2. CASE requests' = Append(requests, [ask |-> job[h].ask, status |-> 0])
        <4>1. /\ DOMAIN requests' = DOMAIN requests \cup {Len(requests) + 1}
              /\ \A i \in DOMAIN requests : requests'[i] = requests[i]
              /\ requests'[Len(requests) + 1].status = 0
          BY <3>1, <3>2, AppendRequest
        <4>2. AcceptedStands'
          BY <2>1, <4>1 DEF AcceptedStands
        <4> QED BY <2>2, <4>2
      <3> QED BY <2>3, <2>5, <3>2 DEF FileRequest, FileFails
    <2> QED
      BY <1>9, <2>3, <2>4, <2>5 DEF Elsewhere, StoreBase, TakeId, FindPending, FindFails, MarkFails
  <1>10. CASE Relating(h)
    <2>1. requests' = requests
      BY <1>10, RelatingFrame
    <2>2. \A f \in Asked : f \in rows \cup removed => f \in rows' \cup removed'
      BY <1>10, AskedKept
    <2>3. AcceptedStands'
      BY <1>a, <2>1, <2>2 DEF AcceptedStands
    <2>4. ASSUME job'[h].req # 0, job'[h].pc \in {"put", "mark"}
          PROVE  job'[h].fact \in rows' \cup removed'
      <3>1. CASE Insert(h)
        BY <3>1, GoToJob DEF Insert, PCs
      <3>2. CASE Remove(h) \/ LookFails(h)
        BY <2>4, <3>2, GoToJob DEF Remove, LookFails, PCs
      <3>3. CASE LookForAdmin(h)
        <4>1. job'[h].req = job[h].req /\ job[h].pc = "look"
          BY <3>3, GoToJob DEF LookForAdmin, PCs
        <4> QED BY <2>4, <4>1 DEF JobsOK, JobOK
      <3>4. CASE InsertFails(h) \/ RemoveFails(h) \/ Erase(h)
        BY <2>4, <3>4, DoneJob DEF InsertFails, RemoveFails, Erase
      <3>5. CASE Put(h)
        <4>1. job'[h].pc # "idle" => GoTo(h, "mark")
          BY <3>5, DoneJob DEF Put
        <4>2. job'[h].req = job[h].req /\ job'[h].fact = job[h].fact
          BY <2>4, <4>1, GoToJob DEF PCs
        <4>3. job[h].pc = "put" /\ rows' = rows /\ removed' = removed
          BY <3>5 DEF Put
        <4> QED BY <2>4, <4>2, <4>3 DEF AcceptInv
      <3> QED BY <1>10, <3>1, <3>2, <3>3, <3>4, <3>5 DEF Relating
    <2>5. ASSUME NEW k \in Handlers, k # h, job[k].req # 0, job[k].pc \in {"put", "mark"}
          PROVE  job[k].fact \in rows' \cup removed'
      BY <1>b, <2>2, <2>5 DEF AcceptInv
    <2>6. AcceptInv'
      BY <2>4, <2>5 DEF AcceptInv
    <2> QED BY <2>3, <2>6
  <1> QED BY <1>6, <1>7, <1>8, <1>9, <1>10

\* Whoever finds no pending request is the only one to file one.
LEMMA FileStep ==
  ASSUME TypeOK, JobsOK, OwnerInv, FileInv, PendingOnce, [Next]_vars
  PROVE  FileInv' /\ PendingOnce'
  <1> DEFINE Ok == FileInv' /\ PendingOnce'
             Same == UNCHANGED <<requests, doubled>>
  <1>1. CASE UNCHANGED vars
    BY <1>1 DEF vars, FileInv, PendingOnce, Pending
  <1>2. ASSUME NEW bad, Restart(bad) PROVE Ok
    BY <1>2 DEF Restart, FileInv, PendingOnce, Idle, Job
  <1>3. ASSUME NEW r \in DOMAIN requests, NEW s \in {1, 2}, requests' = [requests EXCEPT ![r].status = s],
               doubled' = doubled,
               \A k \in Handlers : job'[k] = job[k] \/ job'[k].pc # "file"
        PROVE  Ok
    <2>1. requests \in Seq(Requests)
      BY DEF TypeOK
    <2>2. /\ DOMAIN requests' = DOMAIN requests
          /\ requests'[r].status = s /\ s # 0
          /\ \A i \in DOMAIN requests : i # r => requests'[i] = requests[i]
      BY <1>3, <2>1, MarkRequest
    <2>3. ASSUME NEW a, Pending(a)' PROVE Pending(a)
      BY <2>2, <2>3 DEF Pending
    <2>4. FileInv'
      BY <1>3, <2>3 DEF FileInv
    <2>5. PendingOnce'
      BY <1>3, <2>2 DEF PendingOnce
    <2> QED BY <2>4, <2>5
  <1>4. ASSUME NEW h \in Handlers, NEW u, NEW r \in DOMAIN requests, RejectRequest(h, u, r) PROVE Ok
    BY <1>3, <1>4 DEF RejectRequest
  <1> SUFFICES ASSUME NEW h \in Handlers, \A k \in Handlers \ {h} : job'[k] = job[k],
                      \/ \E j : FirstJob(j) /\ Begin(h, j)
                      \/ Relating(h)
                      \/ AddGroupRow(h) \/ AddGroupFails(h) \/ CacheGroup(h)
                      \/ Elsewhere(h)
               PROVE  Ok
    BY <1>1, <1>2, <1>4, StepKinds
  <1>5. ASSUME Same, job'[h].pc # "file" PROVE Ok
    BY <1>5 DEF FileInv, PendingOnce, Pending
  <1>6. CASE \E j : FirstJob(j) /\ Begin(h, j)
    BY <1>5, <1>6, BeginFrame
  <1>7. CASE AddGroupRow(h) \/ AddGroupFails(h)
    BY <1>5, <1>7, DoneJob, GoToJob DEF AddGroupRow, AddGroupFails, PCs
  <1>8. CASE CacheGroup(h)
    BY <1>5, <1>8 DEF CacheGroup, Adding, Job, TypeOK
  <1>9. CASE Relating(h)
    BY <1>5, <1>9, RelatingFrame
  <1>10. CASE StoreBase(h) \/ MarkFails(h)
    BY <1>5, <1>10, GoToJob, DoneJob DEF StoreBase, MarkFails, PCs
  <1>11. CASE TakeId(h)
    BY <1>5, <1>11 DEF TakeId, TypeOK, Jobs
  <1>12. CASE MarkAccepted(h)
    <2>1. job[h].req \in DOMAIN requests
      BY <1>12 DEF MarkAccepted, JobsOK, JobOK
    <2>2. job'[h].pc # "file"
      BY <1>12, DoneJob DEF MarkAccepted
    <2> QED BY <1>3, <1>12, <2>1, <2>2 DEF MarkAccepted
  <1>13. CASE FindPending(h) \/ FindFails(h)
    <2> DEFINE a == job[h].ask
    <2>1. requests' = requests /\ doubled \subseteq doubled'
      BY <1>13 DEF FindPending, FindFails
    <2>2. PendingOnce'
      BY <2>1 DEF PendingOnce
    <2>3. CASE job'[h].pc # "file"
      <3>1. FileInv'
        BY <2>1, <2>3 DEF FileInv, Pending
      <3> QED BY <2>2, <3>1
    <2>4. CASE job'[h].pc = "file"
      <3>1. job'[h].ask = a
        BY <1>13, <2>4, GoToJob, DoneJob DEF FindPending, FindFails, PCs
      <3>2. \/ a \in doubled'
            \/ ~ Pending(a) /\ \A k \in Handlers : ~ (job[k].pc = "file" /\ job[k].ask = a)
        BY <1>13, <2>4, DoneJob DEF FindPending, FindFails
      <3>3. FileInv'
        <4> SUFFICES ASSUME NEW k \in Handlers, job'[k].pc = "file", job'[k].ask \notin doubled'
                     PROVE  /\ ~ Pending(job'[k].ask)
                            /\ \A m \in Handlers : job'[m].pc = "file" /\ job'[m].ask = job'[k].ask => m = k
          BY <2>1 DEF FileInv, Pending
        <4>1. CASE k = h
          BY <3>1, <3>2, <4>1
        <4>2. CASE k # h
          <5>1. job'[k] = job[k]
            BY <4>2
          <5>2. job[k].ask # a
            BY <3>2, <5>1
          <5> QED BY <2>1, <3>1, <5>1, <5>2 DEF FileInv
        <4> QED BY <4>1, <4>2
      <3> QED BY <2>2, <3>3
    <2> QED BY <2>3, <2>4
  <1>14. CASE FileRequest(h) \/ FileFails(h)
    <2> DEFINE a == job[h].ask
               n == Len(requests) + 1
    <2>1. a \in Asks /\ requests \in Seq(Requests) /\ job[h].pc = "file" /\ doubled' = doubled
      BY <1>14 DEF FileRequest, FileFails, JobsOK, JobOK, TypeOK
    <2>2. job'[h].pc # "file"
      BY <1>14, DoneJob DEF FileRequest, FileFails
    <2>3. CASE requests' = requests
      BY <1>5, <2>1, <2>2, <2>3
    <2>4. CASE requests' = Append(requests, [ask |-> a, status |-> 0])
      <3>1. /\ DOMAIN requests' = DOMAIN requests \cup {n}
            /\ n \notin DOMAIN requests
            /\ \A i \in DOMAIN requests : requests'[i] = requests[i]
            /\ requests'[n] = [ask |-> a, status |-> 0]
        BY <2>1, <2>4, AppendRequest
      <3>0. /\ requests'[n].ask = a
            /\ \A i \in DOMAIN requests : requests[i] \in Requests
        BY <2>1, <3>1
      <3>3. FileInv'
        <4> SUFFICES ASSUME NEW k \in Handlers, job'[k].pc = "file", job'[k].ask \notin doubled'
                     PROVE  /\ \A i \in DOMAIN requests' : requests'[i] # [ask |-> job'[k].ask, status |-> 0]
                            /\ \A m \in Handlers : job'[m].pc = "file" /\ job'[m].ask = job'[k].ask => m = k
          BY DEF FileInv, Pending
        <4>1. k # h /\ job'[k] = job[k]
          BY <2>2
        <4>2. job[k].ask # a
          BY <2>1, <4>1 DEF FileInv
        <4>3. ~ Pending(job[k].ask)
          BY <2>1, <4>1 DEF FileInv
        <4>4. ASSUME NEW i \in DOMAIN requests', requests'[i] = [ask |-> job[k].ask, status |-> 0]
              PROVE  FALSE
          <5>1. i # n
            BY <3>0, <4>2, <4>4
          <5> QED BY <3>1, <4>3, <4>4, <5>1 DEF Pending
        <4>5. \A m \in Handlers : job'[m].pc = "file" /\ job'[m].ask = job'[k].ask => m = k
          BY <2>1, <2>2, <4>1 DEF FileInv
        <4> QED BY <4>1, <4>4, <4>5
      <3>4. a \in doubled \/ \A i \in DOMAIN requests : requests[i].ask = a => requests[i].status # 0
        <4>1. ASSUME NEW i \in DOMAIN requests, requests[i].ask = a, requests[i].status = 0
              PROVE  Pending(a)
          <5>1. requests[i] = [ask |-> a, status |-> 0]
            BY <3>0, <4>1 DEF Requests
          <5> QED BY <5>1 DEF Pending
        <4>2. a \in doubled \/ ~ Pending(a)
          BY <2>1 DEF FileInv
        <4> QED BY <4>1, <4>2
      <3>5. PendingOnce'
        BY <2>1, <3>0, <3>1, <3>4 DEF PendingOnce
      <3> QED BY <3>3, <3>5
    <2> QED BY <1>14, <2>3, <2>4 DEF FileRequest, FileFails
  <1> QED
    BY <1>6, <1>7, <1>8, <1>9, <1>10, <1>11, <1>12, <1>13, <1>14 DEF Elsewhere

-----------------------------------------------------------------------------
(* Theorems *)

\* The inductive invariant: the properties and what they rest on.
IInv ==
  /\ TypeOK /\ JobsOK /\ TakeInv
  /\ OwnerInv /\ CreatorOwns /\ RemoveInv
  /\ MidwayInv /\ RowsMatchCache /\ FriendsMutual
  /\ AcceptInv /\ AcceptedStands
  /\ FileInv /\ PendingOnce

\* It holds when the server has just started, on tables of earlier runs.
LEMMA InitInv ==
  ASSUME Init
  PROVE  IInv
  <1>1. /\ Loaded(rows, ownerRow, {}, friends, admins, owner, base)
        /\ job = [h \in Handlers |-> Idle]
        /\ requests = <<>> /\ created = {}
        /\ ownerRow \in [Groups -> Users \cup {NoOwner}]
    BY Ids DEF Init
  <1>2. /\ Idle \in Jobs /\ Idle.pc = "idle" /\ Idle.req = 0
        /\ \A h \in Handlers : job[h] = Idle
    BY <1>1 DEF Idle, Job, Jobs, PCs
  <1>3. TypeOK
    <2>1. requests \in Seq(Requests)
      BY <1>1
    <2>2. /\ friends \in [Accounts -> SUBSET Accounts]
          /\ admins \in [Groups -> SUBSET Users]
          /\ owner \in [Groups -> Users \cup {NoOwner}]
          /\ base \in Groups \cup {Boundary}
      BY <1>1 DEF Loaded, FriendsIn, AdminsIn
    <2>3. job \in [Handlers -> Jobs]
      BY <1>1, <1>2
    <2> QED BY <1>1, <2>1, <2>2, <2>3 DEF Init, TypeOK
  <1>4. JobsOK /\ TakeInv /\ RemoveInv /\ MidwayInv /\ AcceptInv /\ FileInv
    BY <1>2 DEF JobsOK, JobOK, TakeInv, RemoveInv, MidwayInv, AcceptInv, FileInv
  <1>5. OwnerInv /\ CreatorOwns
    BY <1>1, <1>2 DEF Loaded, OwnerInv, CreatorOwns
  <1> DEFINE none == {}
  <1>a. Loaded(rows, ownerRow, none, friends, admins, owner, base) /\ \A x : x \notin none
    BY <1>1
  <1> HIDE DEF none
  <1>6. RowsMatchCache
    <2> SUFFICES ASSUME NEW f \in Facts PROVE Agree(f)
      BY DEF RowsMatchCache
    <2>1. <<f[1], f[2]>> \notin none /\ <<f[1], f[3]>> \notin none
      BY <1>a
    <2> QED BY <1>a, <2>1, LoadedFacts, FactParts, Ids DEF Agree, Known
  <1>7. FriendsMutual
    <2> SUFFICES ASSUME NEW a \in Accounts, NEW b \in Accounts, a < b, Known(a), Known(b)
                 PROVE  b \in friends[a] <=> a \in friends[b]
      BY DEF FriendsMutual, IsFriend
    <2> DEFINE f == Rel(a, b)
    <2>1. f \in Facts /\ f[1] = "rel" /\ f[2] = a /\ f[3] = b
      BY Ids, RelFact
    <2> HIDE DEF f
    <2>2. <<f[1], f[2]>> \notin none /\ <<f[1], f[3]>> \notin none
      BY <1>a
    <2> QED BY <1>a, <2>1, <2>2, LoadedFacts DEF Known
  <1>8. AcceptedStands /\ PendingOnce
    BY <1>1 DEF AcceptedStands, PendingOnce
  <1> QED BY <1>3, <1>4, <1>5, <1>6, <1>7, <1>8 DEF IInv

LEMMA StepInv ==
  ASSUME IInv, [Next]_vars
  PROVE  IInv'
  <1>1. TypeOK' /\ JobsOK'
    BY TypeStep DEF IInv
  <1>2. TakeInv'
    BY TakeStep DEF IInv
  <1>3. OwnerInv' /\ CreatorOwns' /\ RemoveInv'
    BY OwnerStep DEF IInv
  <1>4. MidwayInv' /\ RowsMatchCache' /\ FriendsMutual'
    BY MidwayStep, AgreeStep, MutualStep DEF IInv
  <1>5. AcceptInv' /\ AcceptedStands' /\ FileInv' /\ PendingOnce'
    BY AcceptStep, FileStep DEF IInv
  <1> QED BY <1>1, <1>2, <1>3, <1>4, <1>5 DEF IInv

\* The tables, the cache and the handlers' locals keep their types.
THEOREM RelationTypes == Spec => []TypeOK
  <1>1. IInv => TypeOK
    BY DEF IInv
  <1> QED BY <1>1, InitInv, StepInv, PTL DEF Spec

\* Whatever requests were served and whenever the server was restarted, table and
\* cache agree on every relation that no handler is writing and that neither
\* overlapping writes, a failed statement nor a missing account has disturbed.
THEOREM TableMatchesCache == Spec => []RowsMatchCache
  <1>1. IInv => RowsMatchCache
    BY DEF IInv
  <1> QED BY <1>1, InitInv, StepInv, PTL DEF Spec

\* Friendship is mutual in the cache of MakeFriendRelationship and
\* DeleteFriendToUser, also where their statements overlap.
THEOREM FriendshipMutual == Spec => []FriendsMutual
  <1>1. IInv => FriendsMutual
    BY DEF IInv
  <1> QED BY <1>1, InitInv, StepInv, PTL DEF Spec

\* However the unlocked increments of m_baseGroupID interleave, who was told that
\* AddGroup created a group owns it for good.
THEOREM GroupsKeepOwner == Spec => []CreatorOwns
  <1>1. IInv => CreatorOwns
    BY DEF IInv
  <1> QED BY <1>1, InitInv, StepInv, PTL DEF Spec

\* HandleRequest marks a request accepted only once its relation was made.
THEOREM AcceptedMade == Spec => []AcceptedStands
  <1>1. IInv => AcceptedStands
    BY DEF IInv
  <1> QED BY <1>1, InitInv, StepInv, PTL DEF Spec

\* AddFriendRequest files no request twice while it is pending, unless its
\* look-ups overlap or fail.
THEOREM FiledOnce == Spec => []PendingOnce
  <1>1. IInv => PendingOnce
    BY DEF IInv
  <1> QED BY <1>1, InitInv, StepInv, PTL DEF Spec

\* A step that deletes a relation was asked for by one of its sides or by the
\* group's owner, who is still the owner when the statement runs.
THEOREM RemovalEntitled == Spec => RemovedByEntitled
  <1> DEFINE A == \A f \in rows \ rows' : \E h \in Handlers :
                    job[h].pc = "remove" /\ job[h].fact = f /\ Entitled(job[h].who, f, ownerRow)
  <1>1. ASSUME IInv, [Next]_vars PROVE A
    <2>1. TypeOK /\ OwnerInv /\ RemoveInv
      BY <1>1 DEF IInv
    <2>2. ASSUME rows' = rows PROVE A
      BY <2>2
    <2>3. ASSUME NEW h \in Handlers, Remove(h) \/ RemoveFails(h) PROVE A
      <3>1. job[h].pc = "remove" /\ \A f \in rows \ rows' : f = job[h].fact
        BY <2>3 DEF Remove, RemoveFails
      <3> QED BY <2>1, <3>1 DEF RemoveInv
    <2>4. ASSUME NEW h \in Handlers, Insert(h) \/ InsertFails(h) PROVE A
      BY <2>4 DEF Insert, InsertFails
    <2>5. ASSUME NEW h \in Handlers, Put(h) \/ Erase(h) \/ LookForAdmin(h) \/ LookFails(h) PROVE A
      BY <2>2, <2>5 DEF Put, Erase, LookForAdmin, LookFails
    <2>6. ASSUME NEW h \in Handlers, AddGroupRow(h) \/ AddGroupFails(h) \/ CacheGroup(h) PROVE A
      BY <2>2, <2>6 DEF AddGroupRow, AddGroupFails, CacheGroup
    <2>7. ASSUME NEW h \in Handlers, Elsewhere(h) PROVE A
      BY <2>1, <2>2, <2>7, ElsewhereFrame
    <2>8. ASSUME NEW h \in Handlers, NEW j, Begin(h, j) PROVE A
      BY <2>2, <2>8 DEF Begin
    <2>9. ASSUME NEW bad, Restart(bad) PROVE A
      BY <2>2, <2>9 DEF Restart
    <2>10. ASSUME NEW h, NEW u, NEW r, RejectRequest(h, u, r) PROVE A
      BY <2>2, <2>10 DEF RejectRequest
    <2>11. CASE UNCHANGED vars
      BY <2>2, <2>11 DEF vars
    <2> HIDE DEF A
    <2> QED
      BY <1>1, <2>1, <2>3, <2>4, <2>5, <2>6, <2>7, <2>8, <2>9, <2>10, <2>11, StepKinds DEF Relating
  <1>2. IInv /\ [Next]_vars => [A]_vars
    BY <1>1
  <1> QED BY <1>2, InitInv, StepInv, PTL DEF Spec, RemovedByEntitled
=============================================================================
