------------------------------ MODULE Accounts ------------------------------
(***************************************************************************)
(* Profiles, passwords, avatars and group names: the account part of       *)
(* UserManager and the handlers of ClientSession that change it.           *)
(*                                                                         *)
(* An account exists as a row of t_user, as a User object in the cache and *)
(* as the deep copy m_user that each session took at its login.  A handler *)
(* runs in its session's IO thread: it computes the columns to write from  *)
(* its copy, changes the row without a lock, then the cache under m_mutex. *)
(* A group is an account whose name and nickname are both its title.       *)
(*                                                                         *)
(* The columns that UpdateUserInfo writes together are nick and face, for  *)
(* all nine.  ver is a ghost column: which write of those columns a copy   *)
(* stems from, and asks the columns a request names, a part of those its   *)
(* statement writes.  History variables: ver, asks, acked, mixed, undone,  *)
(* doubtful.                                                               *)
(***************************************************************************)
EXTENDS Integers

CONSTANTS
  Sessions,   \* sessions, each with its IO thread
  People,     \* user ids
  Groups,     \* ids of group accounts, all of which every session may edit
  Nobody,     \* no id
  MaxRequests,\* bound: requests that change an account
  MaxFailed   \* bound: failed statements, failed uploads and restarts

Ids == People \cup Groups
Columns == {"name", "nick", "face", "pw"}

VARIABLES
  row,      \* t_user
  cache,    \* m_mapUsers / m_cachedUsers, one object
  snap,     \* ClientSession::m_user
  job,      \* the request each session is serving
  asked,    \* requests so far
  failures, \* faults so far
  acked,    \* history: the last value of each column a client was told is stored
  mixed,    \* history: accounts whose row and cache two requests wrote at once
  undone,   \* history: accounts written from a copy older than their row, or not
            \* written by an avatar request that said it was
  doubtful  \* history: account and column of UPDATEs that ran and were reported
            \* failed, until the column is asked for anew or read at a restart

accVars == <<row, cache, snap, job, asked, failures, acked, mixed, undone, doubtful>>

-----------------------------------------------------------------------------
(* PasswordUtil *)

\* The stored form: "v1$salt$hash", or the plain text of an old account.
HashPassword(plain) == [v1 |-> TRUE, of |-> plain]

VerifyPassword(plain, stored) == stored.of = plain

-----------------------------------------------------------------------------

Account(id) ==
  [id |-> id, name |-> 0, nick |-> 0, face |-> 0,
   pw |-> [v1 |-> FALSE, of |-> 0], ver |-> 0]

NoUser == [id |-> Nobody]
NoJob == [st |-> "idle"]

\* LoadUserFromDB has just filled the cache.
Init ==
  /\ row = [id \in Ids |-> Account(id)]
  /\ cache = row
  /\ snap = [s \in Sessions |-> NoUser]
  /\ job = [s \in Sessions |-> NoJob]
  /\ asked = 0 /\ failures = 0
  /\ acked = row
  /\ mixed = {} /\ undone = {} /\ doubtful = {}

\* GetUserInfoUsername and GetUserByID return a deep copy of the cached object.
GetUserByID(id) == cache[id]

\* OnLoginResponse: m_user is the copy, whether or not the password fits.
OnLogin(s, id) ==
  /\ job[s] = NoJob
  /\ snap[s] /= GetUserByID(id)
  /\ snap' = [snap EXCEPT ![s] = GetUserByID(id)]
  /\ UNCHANGED <<row, cache, job, asked, failures, acked, mixed, undone, doubtful>>

-----------------------------------------------------------------------------
(* The handlers, up to their first statement or call *)

\* The columns of UpdateUserInfo's UPDATE.
ProfileColumns == {"nick", "face"}

Begin(s, j) ==
  /\ job[s] = NoJob
  /\ asked < MaxRequests
  /\ asked' = asked + 1
  /\ job' = [job EXCEPT ![s] = j]
  /\ UNCHANGED <<row, cache, failures, acked, mixed, undone, doubtful>>

LoggedIn(s) == snap[s] /= NoUser

\* OnUpdateUserInfoResponse: what the request leaves out comes from m_user.
OnUpdateUserInfo(s, col) ==
  /\ LoggedIn(s)
  /\ Begin(s, [st |-> "row", op |-> "info", id |-> snap[s].id, cols |-> ProfileColumns,
               asks |-> {col}, new |-> [snap[s] EXCEPT ![col] = asked + 1], from |-> snap[s].ver])
  /\ UNCHANGED snap

\* OnModifyPasswordResponse: the old password is compared with the session's copy.
OnModifyPassword(s, old) ==
  /\ LoggedIn(s)
  /\ VerifyPassword(old, snap[s].pw)
  /\ Begin(s, [st |-> "row", op |-> "pw", id |-> snap[s].id, cols |-> {"pw"}, asks |-> {"pw"},
               new |-> [snap[s] EXCEPT !.pw = HashPassword(asked + 1)], from |-> snap[s].ver])
  /\ UNCHANGED snap

\* OnAvatarUploadResponse, own avatar: first the blocking Upload call.
OnAvatarUpload(s) ==
  /\ LoggedIn(s)
  /\ Begin(s, [st |-> "upload", op |-> "avatar", id |-> snap[s].id, cols |-> ProfileColumns,
               asks |-> {"face"},
                new |-> [snap[s] EXCEPT !.face = asked + 1], from |-> snap[s].ver])
  /\ UNCHANGED snap

\* OnAvatarUploadResponse, group avatar: the group is copied before the call.
OnGroupAvatar(s, g) ==
  /\ LoggedIn(s)
  /\ Begin(s, [st |-> "upload", op |-> "groupAvatar", id |-> g, cols |-> ProfileColumns,
               asks |-> {"face"},
                new |-> [GetUserByID(g) EXCEPT !.face = asked + 1], from |-> cache[g].ver])
  /\ UNCHANGED snap

\* The columns of RenameGroup's UPDATE.
TitleColumns == {"name", "nick"}

OnRenameGroup(s, g) ==
  /\ LoggedIn(s)
  /\ Begin(s, [st |-> "row", op |-> "rename", id |-> g, cols |-> TitleColumns,
               asks |-> {"name", "nick"},
                new |-> [GetUserByID(g) EXCEPT !.name = asked + 1, !.nick = asked + 1],
               from |-> row[g].ver])
  /\ UNCHANGED snap

-----------------------------------------------------------------------------
(* Serving a request *)

IsFailed == failures < MaxFailed /\ failures' = failures + 1

Uploaded(s) ==
  /\ job[s].st = "upload"
  /\ job' = [job EXCEPT ![s].st = "row"]
  /\ snap' = IF job[s].op = "avatar" THEN [snap EXCEPT ![s].face = job[s].new.face] ELSE snap
  /\ UNCHANGED <<row, cache, asked, failures, acked, mixed, undone, doubtful>>

\* Upload reports an error or its deadline passes: code 2.
UploadFails(s) ==
  /\ job[s].st = "upload"
  /\ IsFailed
  /\ job' = [job EXCEPT ![s] = NoJob]
  /\ UNCHANGED <<row, cache, snap, asked, acked, mixed, undone, doubtful>>

\* The columns of j that another request has in the row and not yet in the cache.
Crossing(s) ==
  \E t \in Sessions \ {s} :
    job[t].st = "cache" /\ job[t].id = job[s].id /\ job[t].cols \cap job[s].cols /= {}

\* An account with the columns cols of v.
Put(a, v, cols) == [c \in DOMAIN a |-> IF c \in cols THEN v[c] ELSE a[c]]

\* MySqlManager::Execute of the UPDATE: the statement runs; whether it is reported
\* to have run is the handler's next step.
Execute(s) ==
  LET j == job[s]
      k == row[j.id].ver + (IF j.op = "pw" THEN 0 ELSE 1)
  IN /\ row' = [row EXCEPT ![j.id] = [Put(@, j.new, j.cols) EXCEPT !.ver = k]]
     /\ mixed' = IF Crossing(s) THEN mixed \cup {j.id} ELSE mixed
     /\ undone' = IF j.cols = ProfileColumns /\ j.from < row[j.id].ver
                  THEN undone \cup {j.id} ELSE undone
     /\ job' = [job EXCEPT ![s].st = "cache", ![s].new.ver = k]
     /\ UNCHANGED <<cache, snap, asked, failures, acked, doubtful>>

WriteRow(s) == job[s].st = "row" /\ Execute(s)

LooksAway(j) == j.op \in {"avatar", "groupAvatar"}

\* The statement ran and Execute says it failed: the cached object stays as it was.
WriteRowUnclear(s) ==
  LET j == job[s]
  IN /\ j.st = "cache"
     /\ IsFailed
     /\ acked' = IF LooksAway(j) THEN [acked EXCEPT ![j.id] = Put(@, j.new, j.asks)] ELSE acked
     /\ doubtful' = doubtful \cup ({j.id} \X j.cols)
     /\ job' = [job EXCEPT ![s] = NoJob]
     /\ UNCHANGED <<row, cache, snap, asked, mixed, undone>>

\* The statement fails.  An avatar handler does not look: its client is told all is well.
WriteRowFails(s) ==
  LET j == job[s]
  IN /\ j.st = "row"
     /\ IsFailed
     /\ IF LooksAway(j)
        THEN /\ acked' = [acked EXCEPT ![j.id] = Put(@, j.new, j.asks)]
             /\ undone' = undone \cup {j.id}
        ELSE UNCHANGED <<acked, undone>>
     /\ job' = [job EXCEPT ![s] = NoJob]
     /\ UNCHANGED <<row, cache, snap, asked, mixed, doubtful>>

\* Mutant: the session's copy misses one of the columns.
Refreshed_WithoutNick(s) == [job[s].new EXCEPT !.nick = snap[s].nick]

\* m_user follows what was written.
Refreshed(s) == job[s].new

\* The cached object takes the same columns, under m_mutex; the client is
\* answered, and m_user follows where the handler says so.
WriteCache(s) ==
  LET j == job[s]
  IN /\ j.st = "cache"
     /\ cache' = [cache EXCEPT ![j.id] = Put(@, j.new,
                                               j.cols \cup (IF j.op = "pw" THEN {} ELSE {"ver"}))]
     /\ acked' = [acked EXCEPT ![j.id] = Put(@, j.new, j.asks)]
     /\ snap' = IF j.op \in {"info", "avatar"} THEN [snap EXCEPT ![s] = Refreshed(s)] ELSE snap
     /\ doubtful' = doubtful \ ({j.id} \X j.asks)
     /\ job' = [job EXCEPT ![s] = NoJob]
     /\ UNCHANGED <<row, asked, failures, mixed, undone>>

\* The columns that id has in its row only.
Untold(id) ==
  {c \in Columns :
     \/ <<id, c>> \in doubtful
     \/ \E s \in Sessions : job[s].st = "cache" /\ job[s].id = id /\ c \in job[s].asks}

\* The process dies and starts again.  What it had in the row only, it finds
\* there; nobody was told.
Restart ==
  /\ IsFailed
  /\ cache' = row
  /\ acked' = [id \in Ids |-> Put(acked[id], row[id], Untold(id))]
  /\ doubtful' = {}
  /\ snap' = [s \in Sessions |-> NoUser]
  /\ job' = [s \in Sessions |-> NoJob]
  /\ UNCHANGED <<row, asked, mixed, undone>>

Next ==
  \/ \E s \in Sessions :
       \/ \E id \in People : OnLogin(s, id)
       \/ \E col \in {"nick", "face"} : OnUpdateUserInfo(s, col)
       \/ \E old \in 0 .. MaxRequests : OnModifyPassword(s, old)
       \/ OnAvatarUpload(s)
       \/ \E g \in Groups : OnGroupAvatar(s, g) \/ OnRenameGroup(s, g)
       \/ Uploaded(s) \/ UploadFails(s)
       \/ WriteRow(s) \/ WriteRowFails(s) \/ WriteRowUnclear(s) \/ WriteCache(s)
  \/ Restart

Spec == Init /\ [][Next]_accVars

-----------------------------------------------------------------------------
(* Properties *)

InWindow(id, c) == \E s \in Sessions : job[s].st = "cache" /\ job[s].id = id /\ c \in job[s].cols

\* Outside the window between a handler's two writes, the cache holds what the
\* row holds, column by column, unless two requests crossed in that window; a
\* column whose UPDATE was reported failed is in doubt until it is asked for again
\* or the server restarts.
CacheFollowsRow ==
  \A id \in Ids \ mixed, c \in Columns :
    InWindow(id, c) \/ <<id, c>> \in doubtful \/ cache[id][c] = row[id][c]

\* A password a client was told is set stays set, in the row and across
\* restarts, whatever profile, avatar and group requests older copies lead to;
\* only a change that was reported failed may have replaced it.
PasswordIsKept ==
  \A id \in Ids \ mixed :
    InWindow(id, "pw") \/ <<id, "pw">> \in doubtful \/ row[id].pw = acked[id].pw

\* A profile value a client was told is stored is only ever undone by a request
\* computed from a copy older than the row, or by one that was reported failed;
\* only an avatar may not be stored.
ProfileIsKept ==
  \A id \in Ids \ (mixed \cup undone), c \in Columns :
    InWindow(id, c) \/ <<id, c>> \in doubtful \/ row[id][c] = acked[id][c]

\* A group's name and nickname change together, unless a group avatar was
\* computed from an older copy.
TitleIsOne ==
  \A g \in Groups \ undone : row[g].name = row[g].nick

\* What a handler told its client is stored stays, in t_user and in the cache,
\* with the exceptions the parts name: handlers that crossed, that started from
\* an older copy, or whose UPDATE ran and was reported failed (UpdateUserInfo,
\* ModifyUserPassword, RenameGroup).
AccountsSound ==
  /\ CacheFollowsRow
  /\ PasswordIsKept
  /\ ProfileIsKept
  /\ TitleIsOne
=============================================================================
