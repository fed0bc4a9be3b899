--------------------------- MODULE AccountProofs ----------------------------
(***************************************************************************)
(* Proof that what a handler told its client is stored stays in t_user and *)
(* in the cache, for any number of sessions, users, groups and requests.   *)
(*                                                                         *)
(* AccountsSound is not inductive: it does not say what the copies of an   *)
(* account are worth that handlers compute from.  CopyInv does: one that   *)
(* stems from the row's last write has its columns.  With it, a statement  *)
(* writes columns nobody asked for as they were, unless its copy is older. *)
(*                                                                         *)
(* And that the history a client gets is the end of the conversation it    *)
(* asked for.  The query picks it in the step that answers; HistInv keeps  *)
(* it through the rows that come later, and ties m_seq to the frames sent. *)
(*                                                                         *)
(* And that a friend request becomes known: its sender's thread carries    *)
(* the row until it is on the receiver's screen, and LAST_INSERT_ID() is   *)
(* the row's while the connection that inserted is the pool's next.        *)
(***************************************************************************)
EXTENDS MCServices, FiniteSetTheorems, TLAPS

Passwords == [v1 : BOOLEAN, of : Nat]
Accts == [id : Ac!Ids, name : Nat, nick : Nat, face : Nat, pw : Passwords, ver : Nat]
Ops == {"info", "pw", "avatar", "groupAvatar", "rename"}
Jobs == [st : {"upload", "row", "cache"}, op : Ops, id : Ac!Ids, cols : SUBSET Ac!Columns,
         asks : SUBSET Ac!Columns, new : Accts, from : Nat]

\* Type correctness.
AccountTypes ==
  /\ row \in [Ac!Ids -> Accts] /\ cache \in [Ac!Ids -> Accts] /\ acked \in [Ac!Ids -> Accts]
  /\ snap \in [Sessions -> Accts \cup {Ac!NoUser}]
  /\ job \in [Sessions -> Jobs \cup {Ac!NoJob}]
  /\ asked \in Nat
  /\ mixed \in SUBSET Ac!Ids /\ undone \in SUBSET Ac!Ids

\* What a request is, by its kind.
Shaped(j, u) ==
  /\ j.new.id = j.id
  /\ \/ /\ j.op = "info" /\ j.id = u.id
        /\ j.cols = Ac!ProfileColumns /\ j.asks \in {{"nick"}, {"face"}}
     \/ j.op = "pw" /\ j.id = u.id /\ j.cols = {"pw"} /\ j.asks = {"pw"}
     \/ j.op = "avatar" /\ j.id = u.id /\ j.cols = Ac!ProfileColumns /\ j.asks = {"face"}
     \/ j.op = "groupAvatar" /\ j.id \in Groups /\ j.cols = Ac!ProfileColumns /\ j.asks = {"face"}
     \/ /\ j.op = "rename" /\ j.id \in Groups /\ j.cols = Ac!TitleColumns
        /\ j.asks = Ac!TitleColumns /\ j.new.name = j.new.nick

\* Only users log in, and a copy is one of the account it is taken from.
ShapeInv ==
  /\ \A id \in Ac!Ids : row[id].id = id /\ cache[id].id = id
  /\ \A s \in Sessions : snap[s] # Ac!NoUser => snap[s].id \in People
  /\ \A s \in Sessions : job[s] # Ac!NoJob => snap[s] # Ac!NoUser /\ Shaped(job[s], snap[s])

-----------------------------------------------------------------------------

Open(s) == job[s].st = "cache"
Early(s) == job[s].st \in {"upload", "row"}

\* Two handlers in the window of one account crossed, or write other columns;
\* one alone has its columns in the row.
WindowInv ==
  /\ \A s, t \in Sessions :
       Open(s) /\ Open(t) /\ s # t /\ job[s].id = job[t].id /\ job[s].id \notin mixed
       => job[s].cols \cap job[t].cols = {}
  /\ \A s \in Sessions : Open(s) /\ job[s].id \notin mixed =>
       \A c \in job[s].cols : row[job[s].id][c] = job[s].new[c]

\* The copy a, made when the row r was at version v, is no newer than the row;
\* made from its last write, it has the columns cols of it (the avatar, if that
\* is sure: the account is a user's and neither mixed nor undone).
Copy(a, v, cols, r, sure) ==
  /\ v <= r.ver
  /\ v = r.ver /\ "nick" \in cols => a.nick = r.nick
  /\ v = r.ver /\ "face" \in cols /\ sure => a.face = r.face

Clean(id) == id \notin mixed \cup undone

\* Only a user's copy vouches for the avatar: a group's is never written unnamed.
Sure(id) == Clean(id) /\ id \in People

\* The columns of a session's copy: while its avatar is not yet in the row, the
\* copy has it already.
SnapColumns(s) ==
  IF job[s].st = "row" /\ job[s].op = "avatar" THEN {"nick"} ELSE Ac!ProfileColumns

CopyInv ==
  /\ \A id \in Ac!Ids : Copy(cache[id], cache[id].ver, Ac!ProfileColumns, row[id], Sure(id))
  /\ \A s \in Sessions : snap[s] # Ac!NoUser =>
       Copy(snap[s], snap[s].ver, SnapColumns(s), row[snap[s].id], Sure(snap[s].id))
  /\ \A s \in Sessions : Early(s) /\ job[s].op # "rename" =>
       Copy(job[s].new, job[s].from, job[s].cols \ job[s].asks, row[job[s].id],
            Sure(job[s].id))
  /\ \A s \in Sessions : Open(s) /\ job[s].op # "pw" =>
       Copy(job[s].new, job[s].new.ver, {"nick"}, row[job[s].id], Sure(job[s].id))

\* Columns that a request writes and does not name stay what clients were told.
KeptInv ==
  \A s \in Sessions : Open(s) /\ Clean(job[s].id) =>
    \A c \in job[s].cols \ job[s].asks :
      <<job[s].id, c>> \in doubtful \/ row[job[s].id][c] = acked[job[s].id][c]

\* The inductive invariant.
AccountsInv == AccountTypes /\ ShapeInv /\ WindowInv /\ CopyInv /\ KeptInv /\ Ac!AccountsSound
-----------------------------------------------------------------------------
(* Accounts as records *)

Fields == {"id", "name", "nick", "face", "pw", "ver"}

\* An account is given by its fields.
LEMMA AcctFields ==
  ASSUME NEW a
  PROVE  a \in Accts <=>
           /\ a = [c \in Fields |-> a[c]]
           /\ a.id \in Ac!Ids /\ a.name \in Nat /\ a.nick \in Nat /\ a.face \in Nat
           /\ a.pw \in Passwords /\ a.ver \in Nat
  BY DEF Accts, Fields

\* Put takes the columns it is given, and leaves the others.
LEMMA PutIs ==
  ASSUME NEW a \in Accts, NEW v \in Accts, NEW cols \in SUBSET (Ac!Columns \cup {"ver"})
  PROVE  /\ Ac!Put(a, v, cols) \in Accts
         /\ Ac!Put(a, v, cols).id = a.id
         /\ \A c \in Ac!Columns \cup {"ver"} :
              Ac!Put(a, v, cols)[c] = IF c \in cols THEN v[c] ELSE a[c]
  <1>1. DOMAIN a = Fields /\ \A c \in Ac!Columns \cup {"ver"} : c \in Fields
    BY DEF Accts, Fields, Ac!Columns
  <1>2. PICK b : b = Ac!Put(a, v, cols)
    OBVIOUS
  <1>3. b = [c \in Fields |-> IF c \in cols THEN v[c] ELSE a[c]]
    BY <1>1, <1>2 DEF Ac!Put
  <1>4. "id" \notin cols
    BY DEF Ac!Columns
  <1>5. b = [c \in Fields |-> b[c]]
    BY <1>3
  <1>6. b.id = a.id /\ \A c \in Ac!Columns \cup {"ver"} : b[c] = IF c \in cols THEN v[c] ELSE a[c]
    BY <1>1, <1>3, <1>4 DEF Fields
  <1>7. b \in Accts
    <2>1. a.id \in Ac!Ids /\ a.name \in Nat /\ a.nick \in Nat /\ a.face \in Nat
          /\ a.pw \in Passwords /\ a.ver \in Nat
      BY DEF Accts
    <2>2. v.id \in Ac!Ids /\ v.name \in Nat /\ v.nick \in Nat /\ v.face \in Nat
          /\ v.pw \in Passwords /\ v.ver \in Nat
      BY DEF Accts
    <2>3. b.name \in Nat /\ b.nick \in Nat /\ b.face \in Nat /\ b.pw \in Passwords /\ b.ver \in Nat
      BY <1>6, <2>1, <2>2 DEF Ac!Columns
    <2> QED BY <1>5, <1>6, <2>1, <2>3, AcctFields
  <1> QED BY <1>2, <1>6, <1>7
-----------------------------------------------------------------------------
(* What the steps do *)

\* A request arrives at an idle session; its handler has a copy of the account.
Begun(s, j) ==
  /\ job[s] = Ac!NoJob /\ snap[s] # Ac!NoUser
  /\ j \in Jobs /\ j.st \in {"upload", "row"} /\ Shaped(j, snap[s])
  /\ j.op # "rename" => Copy(j.new, j.from, j.cols \ j.asks, row[j.id], Sure(j.id))
  /\ job' = [job EXCEPT ![s] = j]
  /\ asked' \in Nat
  /\ UNCHANGED <<row, cache, snap, acked, mixed, undone, doubtful>>

\* Every request starts like that.
LEMMA Begins ==
  ASSUME AccountTypes, ShapeInv, CopyInv, NEW s \in Sessions,
         \/ \E col \in {"nick", "face"} : Ac!OnUpdateUserInfo(s, col)
         \/ \E old \in 0 .. MaxRequests : Ac!OnModifyPassword(s, old)
         \/ Ac!OnAvatarUpload(s)
         \/ \E g \in Groups : Ac!OnGroupAvatar(s, g) \/ Ac!OnRenameGroup(s, g)
  PROVE  \E j : Begun(s, j)
  <1>1. ASSUME NEW j, Ac!Begin(s, j), UNCHANGED snap
        PROVE  /\ job[s] = Ac!NoJob /\ job' = [job EXCEPT ![s] = j] /\ asked' \in Nat
               /\ UNCHANGED <<row, cache, snap, acked, mixed, undone, doubtful>>
    BY <1>1 DEF Ac!Begin, AccountTypes
  <1>2. Ac!LoggedIn(s) /\ snap[s] # Ac!NoUser /\ snap[s] \in Accts
    BY DEF Ac!LoggedIn, AccountTypes, Ac!OnUpdateUserInfo, Ac!OnModifyPassword,
           Ac!OnAvatarUpload, Ac!OnGroupAvatar, Ac!OnRenameGroup
  <1>3. PICK u : u = snap[s]
    OBVIOUS
  <1>4. u \in Accts /\ u.id \in Ac!Ids /\ u.ver \in Nat
    BY <1>2, <1>3 DEF Accts
  <1>5. PICK v : v = asked + 1
    OBVIOUS
  <1>6. v \in Nat /\ Ac!HashPassword(v) \in Passwords
    BY <1>5 DEF AccountTypes, Ac!HashPassword, Passwords
  <1>7. job[s] = Ac!NoJob => Copy(u, u.ver, Ac!ProfileColumns, row[u.id], Sure(u.id))
    BY <1>2, <1>3 DEF CopyInv, SnapColumns, Ac!NoJob
  <1>8. Ac!ProfileColumns \subseteq Ac!Columns /\ Ac!TitleColumns \subseteq Ac!Columns
    BY DEF Ac!ProfileColumns, Ac!TitleColumns, Ac!Columns
  <1>9. ASSUME NEW col \in {"nick", "face"}, Ac!OnUpdateUserInfo(s, col) PROVE \E j : Begun(s, j)
    <2>1. PICK n : n = [u EXCEPT ![col] = v]
      OBVIOUS
    <2>2. PICK j : j = [st |-> "row", op |-> "info", id |-> u.id, cols |-> Ac!ProfileColumns,
                        asks |-> {col}, new |-> n, from |-> u.ver]
      OBVIOUS
    <2>3. n \in Accts /\ n.id = u.id /\ (col = "face" => n.nick = u.nick) /\ (col = "nick" => n.face = u.face)
      BY <1>4, <1>6, <2>1 DEF Accts
    <2>4. Ac!Begin(s, j) /\ UNCHANGED snap
      BY <1>3, <1>5, <1>9, <2>1, <2>2 DEF Ac!OnUpdateUserInfo
    <2>5. j \in Jobs
      BY <1>4, <1>8, <2>2, <2>3 DEF Jobs, Ops, Ac!Columns
    <2>6. Shaped(j, u)
      BY <2>2, <2>3 DEF Shaped
    <2>7. Copy(j.new, j.from, j.cols \ j.asks, row[j.id], Sure(j.id))
      BY <1>1, <1>7, <2>2, <2>3, <2>4 DEF Copy, Ac!ProfileColumns
    <2> QED BY <1>1, <1>2, <1>3, <2>2, <2>4, <2>5, <2>6, <2>7 DEF Begun
  <1>10. ASSUME NEW old \in 0 .. MaxRequests, Ac!OnModifyPassword(s, old)
         PROVE  \E j : Begun(s, j)
    <2>1. PICK n : n = [u EXCEPT !.pw = Ac!HashPassword(v)]
      OBVIOUS
    <2>2. PICK j : j = [st |-> "row", op |-> "pw", id |-> u.id, cols |-> {"pw"},
                        asks |-> {"pw"}, new |-> n, from |-> u.ver]
      OBVIOUS
    <2>3. n \in Accts /\ n.id = u.id
      BY <1>4, <1>6, <2>1 DEF Accts
    <2>4. Ac!Begin(s, j) /\ UNCHANGED snap
      BY <1>3, <1>5, <1>10, <2>1, <2>2 DEF Ac!OnModifyPassword
    <2>5. j \in Jobs
      BY <1>4, <2>2, <2>3 DEF Jobs, Ops, Ac!Columns
    <2>6. Shaped(j, u)
      BY <2>2, <2>3 DEF Shaped
    <2>7. Copy(j.new, j.from, j.cols \ j.asks, row[j.id], Sure(j.id))
      BY <1>1, <1>7, <2>2, <2>4 DEF Copy
    <2> QED BY <1>1, <1>2, <1>3, <2>2, <2>4, <2>5, <2>6, <2>7 DEF Begun
  <1>11. CASE Ac!OnAvatarUpload(s)
    <2>1. PICK n : n = [u EXCEPT !.face = v]
      OBVIOUS
    <2>2. PICK j : j = [st |-> "upload", op |-> "avatar", id |-> u.id,
                        cols |-> Ac!ProfileColumns, asks |-> {"face"}, new |-> n, from |-> u.ver]
      OBVIOUS
    <2>3. n \in Accts /\ n.id = u.id /\ n.nick = u.nick
      BY <1>4, <1>6, <2>1 DEF Accts
    <2>4. Ac!Begin(s, j) /\ UNCHANGED snap
      BY <1>3, <1>5, <1>11, <2>1, <2>2 DEF Ac!OnAvatarUpload
    <2>5. j \in Jobs
      BY <1>4, <1>8, <2>2, <2>3 DEF Jobs, Ops, Ac!Columns
    <2>6. Shaped(j, u)
      BY <2>2, <2>3 DEF Shaped
    <2>7. Copy(j.new, j.from, j.cols \ j.asks, row[j.id], Sure(j.id))
      BY <1>1, <1>7, <2>2, <2>3, <2>4 DEF Copy, Ac!ProfileColumns
    <2> QED BY <1>1, <1>2, <1>3, <2>2, <2>4, <2>5, <2>6, <2>7 DEF Begun
  <1>12. ASSUME NEW g \in Groups PROVE cache[g] \in Accts /\ cache[g].id = g /\ g \in Ac!Ids
    BY DEF AccountTypes, ShapeInv, Ac!Ids
  <1>13. ASSUME NEW g \in Groups, Ac!OnGroupAvatar(s, g) PROVE \E j : Begun(s, j)
    <2>1. PICK n : n = [cache[g] EXCEPT !.face = v]
      OBVIOUS
    <2>2. PICK j : j = [st |-> "upload", op |-> "groupAvatar", id |-> g,
                        cols |-> Ac!ProfileColumns, asks |-> {"face"}, new |-> n,
                        from |-> cache[g].ver]
      OBVIOUS
    <2>3. n \in Accts /\ n.id = g /\ n.nick = cache[g].nick /\ cache[g].ver \in Nat
      BY <1>6, <1>12, <2>1 DEF Accts
    <2>4. Ac!Begin(s, j) /\ UNCHANGED snap
      BY <1>5, <1>13, <2>1, <2>2 DEF Ac!OnGroupAvatar, Ac!GetUserByID
    <2>5. j \in Jobs
      BY <1>8, <1>12, <2>2, <2>3 DEF Jobs, Ops, Ac!Columns
    <2>6. Shaped(j, u)
      BY <2>2, <2>3 DEF Shaped
    <2>7. Copy(j.new, j.from, j.cols \ j.asks, row[j.id], Sure(j.id))
      <3>1. Copy(cache[g], cache[g].ver, Ac!ProfileColumns, row[g], Sure(g))
        BY <1>12 DEF CopyInv
      <3> QED BY <2>2, <2>3, <3>1 DEF Copy, Ac!ProfileColumns
    <2> QED BY <1>1, <1>2, <1>3, <2>2, <2>4, <2>5, <2>6, <2>7 DEF Begun
  <1>14. ASSUME NEW g \in Groups, Ac!OnRenameGroup(s, g) PROVE \E j : Begun(s, j)
    <2>1. PICK n : n = [cache[g] EXCEPT !.name = v, !.nick = v]
      OBVIOUS
    <2>2. PICK j : j = [st |-> "row", op |-> "rename", id |-> g, cols |-> Ac!TitleColumns,
                        asks |-> {"name", "nick"}, new |-> n, from |-> row[g].ver]
      OBVIOUS
    <2>3. n \in Accts /\ n.id = g /\ n.nick = n.name /\ row[g].ver \in Nat
      BY <1>6, <1>12, <2>1 DEF Accts, AccountTypes
    <2>4. Ac!Begin(s, j) /\ UNCHANGED snap
      BY <1>5, <1>14, <2>1, <2>2 DEF Ac!OnRenameGroup, Ac!GetUserByID
    <2>5. j \in Jobs
      BY <1>8, <1>12, <2>2, <2>3 DEF Jobs, Ops, Ac!Columns
    <2>6. Shaped(j, u)
      BY <2>2, <2>3 DEF Shaped, Ac!TitleColumns
    <2> QED BY <1>1, <1>2, <1>3, <2>2, <2>4, <2>5, <2>6 DEF Begun
  <1> QED BY <1>9, <1>10, <1>11, <1>13, <1>14

\* The UPDATE of the request j: the row becomes r, and the handler remembers
\* the write in its copy, n.
Executed(s, j, r, n) ==
  /\ j \in Jobs /\ j.st = "row" /\ job[s] = j
  /\ r \in Accts /\ r.id = row[j.id].id
  /\ n \in Accts /\ n.ver = r.ver /\ n.id = j.new.id
  /\ n.name = j.new.name /\ n.nick = j.new.nick
  /\ r.ver = row[j.id].ver + (IF j.op = "pw" THEN 0 ELSE 1)
  /\ \A c \in Ac!Columns : /\ r[c] = IF c \in j.cols THEN j.new[c] ELSE row[j.id][c]
                           /\ n[c] = j.new[c]
  /\ row' = [row EXCEPT ![j.id] = r]
  /\ job' = [job EXCEPT ![s] = [j EXCEPT !.st = "cache", !.new = n]]
  /\ Ac!Crossing(s) => mixed' = mixed \cup {j.id}
  /\ ~ Ac!Crossing(s) => mixed' = mixed
  /\ j.cols = Ac!ProfileColumns /\ j.from < row[j.id].ver => undone' = undone \cup {j.id}
  /\ ~ (j.cols = Ac!ProfileColumns /\ j.from < row[j.id].ver) => undone' = undone
  /\ UNCHANGED <<cache, snap, asked, acked, doubtful>>

LEMMA Executes ==
  ASSUME AccountTypes, NEW s \in Sessions, Ac!WriteRow(s)
  PROVE  \E j, r, n : Executed(s, j, r, n)
  <1>1. PICK j : j = job[s]
    OBVIOUS
  <1>2. j \in Jobs /\ j.st = "row"
    BY <1>1 DEF Ac!WriteRow, AccountTypes, Ac!NoJob
  <1>3. j.id \in Ac!Ids /\ j.cols \in SUBSET Ac!Columns /\ j.new \in Accts
    BY <1>2 DEF Jobs
  <1>4. row[j.id] \in Accts /\ row[j.id].ver \in Nat
    BY <1>3 DEF AccountTypes, Accts
  <1>5. PICK k : k = row[j.id].ver + (IF j.op = "pw" THEN 0 ELSE 1)
    OBVIOUS
  <1>6. k \in Nat
    BY <1>4, <1>5
  <1>7. PICK q : q = Ac!Put(row[j.id], j.new, j.cols)
    OBVIOUS
  <1>8. /\ q \in Accts /\ q.id = row[j.id].id
        /\ \A c \in Ac!Columns : q[c] = IF c \in j.cols THEN j.new[c] ELSE row[j.id][c]
    BY <1>3, <1>4, <1>7, PutIs
  <1>9. PICK r : r = [q EXCEPT !.ver = k]
    OBVIOUS
  <1>10. /\ r \in Accts /\ r.id = row[j.id].id /\ r.ver = k
         /\ \A c \in Ac!Columns : r[c] = IF c \in j.cols THEN j.new[c] ELSE row[j.id][c]
    BY <1>6, <1>8, <1>9 DEF Accts, Ac!Columns
  <1>11. PICK n : n = [j.new EXCEPT !.ver = k]
    OBVIOUS
  <1>12. n \in Accts /\ n.ver = k /\ n.id = j.new.id /\ \A c \in Ac!Columns : n[c] = j.new[c]
    BY <1>3, <1>6, <1>11 DEF Accts, Ac!Columns
  <1>13. row' = [row EXCEPT ![j.id] = r]
    BY <1>1, <1>5, <1>7, <1>9 DEF Ac!WriteRow, Ac!Execute
  <1>14. job' = [job EXCEPT ![s] = [j EXCEPT !.st = "cache", !.new = n]]
    BY <1>1, <1>2, <1>5, <1>11 DEF Ac!WriteRow, Ac!Execute, AccountTypes, Jobs
  <1>15. /\ mixed' = IF Ac!Crossing(s) THEN mixed \cup {j.id} ELSE mixed
         /\ undone' = IF j.cols = Ac!ProfileColumns /\ j.from < row[j.id].ver
                      THEN undone \cup {j.id} ELSE undone
         /\ UNCHANGED <<cache, snap, asked, acked, doubtful>>
    BY <1>1 DEF Ac!WriteRow, Ac!Execute
  <1>16. n.name = j.new.name /\ n.nick = j.new.nick
    BY <1>12 DEF Ac!Columns
  <1>17. Executed(s, j, r, n)
    BY <1>1, <1>2, <1>5, <1>10, <1>12, <1>13, <1>14, <1>15, <1>16 DEF Executed
  <1> QED BY <1>17

\* The cache takes the columns of the request j, the client is answered.
Applied(s, j, a, b) ==
  /\ j \in Jobs /\ j.st = "cache" /\ job[s] = j
  /\ a \in Accts /\ a.id = cache[j.id].id /\ b \in Accts
  /\ a.ver = IF j.op = "pw" THEN cache[j.id].ver ELSE j.new.ver
  /\ \A c \in Ac!Columns : /\ a[c] = IF c \in j.cols THEN j.new[c] ELSE cache[j.id][c]
                           /\ b[c] = IF c \in j.asks THEN j.new[c] ELSE acked[j.id][c]
  /\ cache' = [cache EXCEPT ![j.id] = a]
  /\ acked' = [acked EXCEPT ![j.id] = b]
  /\ snap' = IF j.op \in {"info", "avatar"} THEN [snap EXCEPT ![s] = j.new] ELSE snap
  /\ doubtful' = doubtful \ ({j.id} \X j.asks)
  /\ job' = [job EXCEPT ![s] = Ac!NoJob]
  /\ UNCHANGED <<row, asked, mixed, undone>>

LEMMA Answers ==
  ASSUME AccountTypes, NEW s \in Sessions, Ac!WriteCache(s)
  PROVE  \E j, a, b : Applied(s, j, a, b)
  <1>1. PICK j : j = job[s]
    OBVIOUS
  <1>2. j \in Jobs /\ j.st = "cache"
    BY <1>1 DEF Ac!WriteCache, AccountTypes, Ac!NoJob
  <1>3. /\ j.id \in Ac!Ids /\ j.cols \in SUBSET Ac!Columns /\ j.asks \in SUBSET Ac!Columns
        /\ j.new \in Accts
    BY <1>2 DEF Jobs
  <1>4. cache[j.id] \in Accts /\ acked[j.id] \in Accts
    BY <1>3 DEF AccountTypes
  <1>5. PICK cols : cols = j.cols \cup (IF j.op = "pw" THEN {} ELSE {"ver"})
    OBVIOUS
  <1>6. /\ cols \in SUBSET (Ac!Columns \cup {"ver"})
        /\ \A c \in Ac!Columns : c \in cols <=> c \in j.cols
        /\ "ver" \in cols <=> j.op # "pw"
    BY <1>3, <1>5 DEF Ac!Columns
  <1>7. PICK a : a = Ac!Put(cache[j.id], j.new, cols)
    OBVIOUS
  <1>8. /\ a \in Accts /\ a.id = cache[j.id].id
        /\ \A c \in Ac!Columns \cup {"ver"} : a[c] = IF c \in cols THEN j.new[c] ELSE cache[j.id][c]
    BY <1>3, <1>4, <1>6, <1>7, PutIs
  <1>9. PICK b : b = Ac!Put(acked[j.id], j.new, j.asks)
    OBVIOUS
  <1>10. /\ b \in Accts
         /\ \A c \in Ac!Columns : b[c] = IF c \in j.asks THEN j.new[c] ELSE acked[j.id][c]
    BY <1>3, <1>4, <1>9, PutIs
  <1>11. cache' = [cache EXCEPT ![j.id] = a] /\ acked' = [acked EXCEPT ![j.id] = b]
    BY <1>1, <1>5, <1>7, <1>9 DEF Ac!WriteCache
  <1>12. a.ver = IF j.op = "pw" THEN cache[j.id].ver ELSE j.new.ver
    BY <1>6, <1>8
  <1>13. \A c \in Ac!Columns : a[c] = IF c \in j.cols THEN j.new[c] ELSE cache[j.id][c]
    BY <1>6, <1>8
  <1>14. /\ snap' = IF j.op \in {"info", "avatar"} THEN [snap EXCEPT ![s] = j.new] ELSE snap
         /\ doubtful' = doubtful \ ({j.id} \X j.asks)
         /\ job' = [job EXCEPT ![s] = Ac!NoJob]
         /\ UNCHANGED <<row, asked, mixed, undone>>
    BY <1>1 DEF Ac!WriteCache, Ac!Refreshed
  <1>15. Applied(s, j, a, b)
    BY <1>1, <1>2, <1>8, <1>10, <1>11, <1>12, <1>13, <1>14 DEF Applied
  <1> QED BY <1>15

\* Upload has answered: the handler goes on to its UPDATE, and the session's own
\* copy, now u, has the new avatar.
Sent(s, j, u) ==
  /\ j \in Jobs /\ j.st = "upload" /\ job[s] = j
  /\ j.op = "avatar" => /\ u \in Accts /\ u.id = snap[s].id /\ u.nick = snap[s].nick
                        /\ u.ver = snap[s].ver
  /\ job' = [job EXCEPT ![s] = [j EXCEPT !.st = "row"]]
  /\ snap' = IF j.op = "avatar" THEN [snap EXCEPT ![s] = u] ELSE snap
  /\ UNCHANGED <<row, cache, asked, acked, mixed, undone, doubtful>>

LEMMA Sends ==
  ASSUME AccountTypes, ShapeInv, NEW s \in Sessions, Ac!Uploaded(s)
  PROVE  \E j, u : Sent(s, j, u)
  <1>1. PICK j : j = job[s]
    OBVIOUS
  <1>2. j \in Jobs /\ j.st = "upload" /\ j # Ac!NoJob
    BY <1>1 DEF Ac!Uploaded, AccountTypes, Ac!NoJob
  <1>3. snap[s] \in Accts /\ j.new \in Accts /\ j.new.face \in Nat
    BY <1>1, <1>2 DEF ShapeInv, AccountTypes, Jobs, Accts
  <1>4. PICK u : u = [snap[s] EXCEPT !.face = j.new.face]
    OBVIOUS
  <1>5. u \in Accts /\ u.id = snap[s].id /\ u.nick = snap[s].nick /\ u.ver = snap[s].ver
    BY <1>3, <1>4 DEF Accts
  <1>6. /\ job' = [job EXCEPT ![s] = [j EXCEPT !.st = "row"]]
        /\ snap' = IF j.op = "avatar" THEN [snap EXCEPT ![s] = u] ELSE snap
        /\ UNCHANGED <<row, cache, asked, acked, mixed, undone, doubtful>>
    BY <1>1, <1>4 DEF Ac!Uploaded, AccountTypes
  <1>7. Sent(s, j, u)
    BY <1>1, <1>2, <1>5, <1>6 DEF Sent
  <1> QED BY <1>7

\* A request ends without its UPDATE; an avatar request may say it had one, and
\* b is what its client believes.
Dropped(s, j, b) ==
  /\ j \in Jobs /\ j.st \in {"upload", "row"} /\ job[s] = j
  /\ \/ /\ UNCHANGED <<acked, undone>>
        /\ j.op = "avatar" => j.st = "upload"
     \/ /\ acked' = [acked EXCEPT ![j.id] = b] /\ b \in Accts /\ b.pw = acked[j.id].pw
        /\ undone' = undone \cup {j.id}
  /\ job' = [job EXCEPT ![s] = Ac!NoJob]
  /\ UNCHANGED <<row, cache, snap, asked, mixed, doubtful>>

LEMMA Drops ==
  ASSUME AccountTypes, ShapeInv, NEW s \in Sessions, Ac!UploadFails(s) \/ Ac!WriteRowFails(s)
  PROVE  \E j, b : Dropped(s, j, b)
  <1>1. PICK j : j = job[s]
    OBVIOUS
  <1>2. j \in Jobs /\ j.st \in {"upload", "row"} /\ j # Ac!NoJob
    BY <1>1 DEF Ac!UploadFails, Ac!WriteRowFails, AccountTypes, Ac!NoJob
  <1>3. j.id \in Ac!Ids /\ j.asks \in SUBSET Ac!Columns /\ j.new \in Accts /\ acked[j.id] \in Accts
    BY <1>2 DEF Jobs, AccountTypes
  <1>4. PICK b : b = Ac!Put(acked[j.id], j.new, j.asks)
    OBVIOUS
  <1>5. b \in Accts /\ \A c \in Ac!Columns : b[c] = IF c \in j.asks THEN j.new[c] ELSE acked[j.id][c]
    BY <1>3, <1>4, PutIs
  <1>6. j.op \in {"avatar", "groupAvatar"} => j.asks = {"face"}
    BY <1>1, <1>2 DEF ShapeInv, Shaped
  <1>7. j.op \in {"avatar", "groupAvatar"} => b.pw = acked[j.id].pw
    BY <1>5, <1>6 DEF Ac!Columns
  <1>8. CASE Ac!UploadFails(s)
    <2>1. Dropped(s, j, b)
      BY <1>1, <1>2, <1>8 DEF Ac!UploadFails, Ac!IsFailed, Dropped
    <2> QED BY <2>1
  <1>9. CASE Ac!WriteRowFails(s)
    <2>1. /\ IF j.op \in {"avatar", "groupAvatar"}
             THEN acked' = [acked EXCEPT ![j.id] = b] /\ undone' = undone \cup {j.id}
             ELSE UNCHANGED <<acked, undone>>
          /\ job' = [job EXCEPT ![s] = Ac!NoJob]
          /\ UNCHANGED <<row, cache, snap, asked, mixed, doubtful>>
      BY <1>1, <1>4, <1>9 DEF Ac!WriteRowFails, Ac!LooksAway
    <2>2. Dropped(s, j, b)
      BY <1>1, <1>2, <1>5, <1>7, <2>1 DEF Dropped
    <2> QED BY <2>2
  <1> QED BY <1>8, <1>9

\* The UPDATE of j was reported failed after it ran; b is what its client believes.
Doubted(s, j, b) ==
  /\ j \in Jobs /\ j.st = "cache" /\ job[s] = j
  /\ b \in Accts
  /\ \A c \in Ac!Columns : c \notin j.asks \/ c # "face" => b[c] = acked[j.id][c]
  /\ acked' = [acked EXCEPT ![j.id] = b]
  /\ doubtful' = doubtful \cup ({j.id} \X j.cols)
  /\ job' = [job EXCEPT ![s] = Ac!NoJob]
  /\ UNCHANGED <<row, cache, snap, asked, mixed, undone>>

LEMMA Doubts ==
  ASSUME AccountTypes, ShapeInv, NEW s \in Sessions, Ac!WriteRowUnclear(s)
  PROVE  \E j, b : Doubted(s, j, b)
  <1>1. PICK j : j = job[s]
    OBVIOUS
  <1>2. j \in Jobs /\ j.st = "cache" /\ j # Ac!NoJob
    BY <1>1 DEF Ac!WriteRowUnclear, AccountTypes, Ac!NoJob
  <1>3. j.id \in Ac!Ids /\ j.asks \in SUBSET Ac!Columns /\ j.new \in Accts /\ acked[j.id] \in Accts
    BY <1>2 DEF Jobs, AccountTypes
  <1>4. PICK d : d = Ac!Put(acked[j.id], j.new, j.asks)
    OBVIOUS
  <1>5. d \in Accts /\ \A c \in Ac!Columns : d[c] = IF c \in j.asks THEN j.new[c] ELSE acked[j.id][c]
    BY <1>3, <1>4, PutIs
  <1>6. Ac!LooksAway(j) => j.asks = {"face"}
    BY <1>1, <1>2 DEF ShapeInv, Shaped, Ac!LooksAway
  <1>7. PICK b : b = IF Ac!LooksAway(j) THEN d ELSE acked[j.id]
    OBVIOUS
  <1>8. b \in Accts /\ \A c \in Ac!Columns : c \notin j.asks \/ c # "face" => b[c] = acked[j.id][c]
    BY <1>3, <1>5, <1>6, <1>7
  <1>9. acked' = [acked EXCEPT ![j.id] = b]
    BY <1>1, <1>3, <1>4, <1>7 DEF Ac!WriteRowUnclear, AccountTypes
  <1>10. /\ doubtful' = doubtful \cup ({j.id} \X j.cols)
         /\ job' = [job EXCEPT ![s] = Ac!NoJob]
         /\ UNCHANGED <<row, cache, snap, asked, mixed, undone>>
    BY <1>1 DEF Ac!WriteRowUnclear
  <1>11. Doubted(s, j, b)
    BY <1>1, <1>2, <1>8, <1>9, <1>10 DEF Doubted
  <1> QED BY <1>11

\* After a restart the cache is the table, and what was in the row only counts
\* as told.
LEMMA Restarts ==
  ASSUME AccountTypes, Ac!Restart
  PROVE  /\ acked' \in [Ac!Ids -> Accts]
         /\ \A id \in Ac!Ids : \A c \in Ac!Columns :
              acked'[id][c] = IF c \in Ac!Untold(id) THEN row[id][c] ELSE acked[id][c]
  <1>1. acked' = [id \in Ac!Ids |-> Ac!Put(acked[id], row[id], Ac!Untold(id))]
    BY DEF Ac!Restart
  <1>2. \A s \in Sessions : job[s].st = "cache" => job[s].asks \in SUBSET Ac!Columns
    BY DEF AccountTypes, Jobs, Ac!NoJob
  <1>3. ASSUME NEW id \in Ac!Ids
        PROVE  /\ acked'[id] \in Accts
               /\ \A c \in Ac!Columns :
                    acked'[id][c] = IF c \in Ac!Untold(id) THEN row[id][c] ELSE acked[id][c]
    <2>1. Ac!Untold(id) \in SUBSET (Ac!Columns \cup {"ver"})
      BY DEF Ac!Untold
    <2>2. /\ acked[id] \in Accts /\ row[id] \in Accts
          /\ acked'[id] = Ac!Put(acked[id], row[id], Ac!Untold(id))
      BY <1>1 DEF AccountTypes
    <2> QED BY <2>1, <2>2, PutIs
  <1>4. acked' \in [Ac!Ids -> Accts]
    BY <1>1, <1>3
  <1> QED BY <1>3, <1>4

\* The steps, by what they do.
LEMMA AccountSteps ==
  ASSUME AccountTypes, ShapeInv, CopyInv, [Ac!Next]_accVars
  PROVE  \/ \E s \in Sessions :
              \/ \E id \in People : Ac!OnLogin(s, id)
              \/ \E j : Begun(s, j)
              \/ \E j, u : Sent(s, j, u)
              \/ \E j, b : Dropped(s, j, b)
              \/ \E j, r, n : Executed(s, j, r, n)
              \/ \E j, b : Doubted(s, j, b)
              \/ \E j, a, b : Applied(s, j, a, b)
         \/ Ac!Restart
         \/ UNCHANGED accVars
  BY Begins, Sends, Drops, Executes, Doubts, Answers DEF Ac!Next

\* No account is the one of a session without a login.
LEMMA NobodyIsNoAccount == Ac!NoUser \notin Accts
  <1>1. "name" \notin DOMAIN Ac!NoUser
    BY DEF Ac!NoUser
  <1> QED BY <1>1 DEF Accts

-----------------------------------------------------------------------------
(* Types and shapes *)

LEMMA ShapeStep ==
  ASSUME AccountTypes, ShapeInv, CopyInv, [Ac!Next]_accVars
  PROVE  AccountTypes' /\ ShapeInv'
  <1> USE NobodyIsNoAccount
  <1>1. ASSUME NEW s \in Sessions, NEW id \in People, Ac!OnLogin(s, id)
        PROVE  AccountTypes' /\ ShapeInv'
    <2>1. id \in Ac!Ids /\ cache[id] \in Accts /\ cache[id].id = id
      BY DEF Ac!Ids, AccountTypes, ShapeInv
    <2>2. job[s] = Ac!NoJob /\ snap' = [snap EXCEPT ![s] = cache[id]]
          /\ UNCHANGED <<row, cache, job, asked, acked, mixed, undone>>
      BY <1>1 DEF Ac!OnLogin, Ac!GetUserByID
    <2> QED BY <2>1, <2>2 DEF AccountTypes, ShapeInv
  <1>2. ASSUME NEW s \in Sessions, NEW j, Begun(s, j) PROVE AccountTypes' /\ ShapeInv'
    <2>1. AccountTypes'
      BY <1>2 DEF Begun, AccountTypes
    <2>2. ShapeInv'
      BY <1>2 DEF Begun, AccountTypes, ShapeInv
    <2> QED BY <2>1, <2>2
  <1>3. ASSUME NEW s \in Sessions, NEW j, NEW u, Sent(s, j, u) PROVE AccountTypes' /\ ShapeInv'
    <2>1. PICK k : k = [j EXCEPT !.st = "row"]
      OBVIOUS
    <2>2. /\ k \in Jobs /\ k # Ac!NoJob /\ j # Ac!NoJob
          /\ k.op = j.op /\ k.cols = j.cols /\ k.asks = j.asks /\ k.id = j.id /\ k.new = j.new
      BY <1>3, <2>1 DEF Sent, Jobs, Ac!NoJob
    <2>3. snap' \in [Sessions -> Accts \cup {Ac!NoUser}] /\ job' \in [Sessions -> Jobs \cup {Ac!NoJob}]
      BY <1>3, <2>1, <2>2 DEF Sent, AccountTypes
    <2>4. job[s] = j /\ job'[s] = k /\ \A t \in Sessions \ {s} : job'[t] = job[t] /\ snap'[t] = snap[t]
      BY <1>3, <2>1 DEF Sent, AccountTypes
    <2>5. snap[s] # Ac!NoUser /\ Shaped(j, snap[s])
      BY <2>2, <2>4 DEF ShapeInv
    <2>6. snap'[s] # Ac!NoUser /\ snap'[s].id = snap[s].id
      BY <1>3, <2>5 DEF Sent, AccountTypes
    <2>7. Shaped(k, snap'[s])
      BY <2>2, <2>5, <2>6 DEF Shaped
    <2>8. ShapeInv'
      BY <1>3, <2>4, <2>5, <2>6, <2>7 DEF ShapeInv, Sent
    <2> QED BY <1>3, <2>3, <2>8 DEF AccountTypes, Sent
  <1>4. ASSUME NEW s \in Sessions, NEW j, NEW b, Dropped(s, j, b) PROVE AccountTypes' /\ ShapeInv'
    <2>1. j.id \in Ac!Ids
      BY <1>4 DEF Dropped, Jobs
    <2> QED BY <1>4, <2>1 DEF AccountTypes, ShapeInv, Dropped
  <1>5. ASSUME NEW s \in Sessions, NEW j, NEW r, NEW n, Executed(s, j, r, n)
        PROVE  AccountTypes' /\ ShapeInv'
    <2>1. PICK k : k = [j EXCEPT !.st = "cache", !.new = n]
      OBVIOUS
    <2>2. /\ k \in Jobs /\ j # Ac!NoJob /\ j.id \in Ac!Ids
          /\ k.op = j.op /\ k.cols = j.cols /\ k.asks = j.asks /\ k.id = j.id /\ k.new = n
      <3>1. j \in Jobs /\ n \in Accts /\ j.st = "row"
        BY <1>5 DEF Executed
      <3>2. PICK h : h = [j EXCEPT !.st = "cache"]
        OBVIOUS
      <3>3. k = [h EXCEPT !.new = n]
        BY <2>1, <3>1, <3>2 DEF Jobs
      <3>4. /\ h \in Jobs /\ h.op = j.op /\ h.cols = j.cols /\ h.asks = j.asks /\ h.id = j.id
            /\ j # Ac!NoJob /\ j.id \in Ac!Ids
        BY <3>1, <3>2 DEF Jobs, Ac!NoJob
      <3> QED BY <3>1, <3>3, <3>4 DEF Jobs
    <2>3. row' \in [Ac!Ids -> Accts] /\ job' \in [Sessions -> Jobs \cup {Ac!NoJob}]
      BY <1>5, <2>1, <2>2 DEF Executed, AccountTypes
    <2>4. mixed' \in SUBSET Ac!Ids /\ undone' \in SUBSET Ac!Ids
      BY <1>5, <2>2 DEF Executed, AccountTypes
    <2>5. job[s] = j /\ job'[s] = k /\ \A t \in Sessions \ {s} : job'[t] = job[t]
      BY <1>5, <2>1 DEF Executed, AccountTypes
    <2>6. snap[s] # Ac!NoUser /\ Shaped(j, snap[s])
      BY <2>2, <2>5 DEF ShapeInv
    <2>7. n.id = j.new.id /\ n.name = j.new.name /\ n.nick = j.new.nick
      BY <1>5 DEF Executed
    <2>8. Shaped(k, snap[s])
      BY <2>2, <2>6, <2>7 DEF Shaped
    <2>9. \A id \in Ac!Ids : row'[id].id = row[id].id
      BY <1>5, <2>2 DEF Executed, AccountTypes
    <2>10. ShapeInv'
      BY <1>5, <2>5, <2>6, <2>8, <2>9 DEF ShapeInv, Executed
    <2> QED BY <1>5, <2>3, <2>4, <2>10 DEF AccountTypes, Executed
  <1>6. ASSUME NEW s \in Sessions, NEW j, NEW a, NEW b, Applied(s, j, a, b)
        PROVE  AccountTypes' /\ ShapeInv'
    <2>1. j.id \in Ac!Ids /\ j.new \in Accts /\ j # Ac!NoJob
      BY <1>6 DEF Applied, Jobs, Ac!NoJob
    <2>2. cache' \in [Ac!Ids -> Accts] /\ acked' \in [Ac!Ids -> Accts]
      BY <1>6, <2>1 DEF Applied, AccountTypes
    <2>3. job' \in [Sessions -> Jobs \cup {Ac!NoJob}] /\ job'[s] = Ac!NoJob
          /\ \A t \in Sessions \ {s} : job'[t] = job[t] /\ snap'[t] = snap[t]
      BY <1>6 DEF Applied, AccountTypes
    <2>4. snap' \in [Sessions -> Accts \cup {Ac!NoUser}]
      BY <1>6, <2>1 DEF Applied, AccountTypes
    <2>5. \A id \in Ac!Ids : cache'[id].id = cache[id].id
      BY <1>6, <2>1 DEF Applied, AccountTypes
    <2>6. AccountTypes'
      BY <1>6, <2>2, <2>3, <2>4 DEF AccountTypes, Applied
    <2>7. snap[s] # Ac!NoUser /\ Shaped(j, snap[s]) /\ snap[s].id \in People
      BY <1>6, <2>1 DEF Applied, ShapeInv
    <2>8. snap'[s].id = snap[s].id
      BY <1>6, <2>7 DEF Applied, Shaped, AccountTypes
    <2>9. \A t \in Sessions : snap'[t] # Ac!NoUser => snap'[t].id \in People
      BY <2>3, <2>7, <2>8 DEF ShapeInv
    <2>10. row' = row
      BY <1>6 DEF Applied
    <2>11. ShapeInv'
      BY <2>3, <2>5, <2>9, <2>10 DEF ShapeInv
    <2> QED BY <2>6, <2>11
  <1>7. CASE Ac!Restart
    <2>1. acked' \in [Ac!Ids -> Accts]
      BY <1>7, Restarts
    <2> QED BY <1>7, <2>1 DEF Ac!Restart, AccountTypes, ShapeInv
  <1>8. CASE UNCHANGED accVars
    BY <1>8 DEF accVars, AccountTypes, ShapeInv
  <1>9. ASSUME NEW s \in Sessions, NEW j, NEW b, Doubted(s, j, b) PROVE AccountTypes' /\ ShapeInv'
    <2>1. j.id \in Ac!Ids
      BY <1>9 DEF Doubted, Jobs
    <2> QED BY <1>9, <2>1 DEF AccountTypes, ShapeInv, Doubted
  <1> QED BY <1>1, <1>2, <1>3, <1>4, <1>5, <1>6, <1>7, <1>8, <1>9, AccountSteps

-----------------------------------------------------------------------------
(* The window between a handler's two writes *)

\* A step that touches neither row nor cache leaves the window as it is, and
\* tells clients something of an account only as it becomes undone.
Quiet ==
  /\ \A t \in Sessions : (Open(t)' <=> Open(t)) /\ (Open(t) => job'[t] = job[t])
  /\ UNCHANGED <<row, cache, mixed, doubtful>>
  /\ undone \subseteq undone'
  /\ \A id \in Ac!Ids : acked'[id].pw = acked[id].pw /\ (Clean(id)' => acked'[id] = acked[id])

LEMMA QuietSteps ==
  ASSUME AccountTypes, NEW s \in Sessions,
         \/ \E id \in People : Ac!OnLogin(s, id)
         \/ \E j : Begun(s, j)
         \/ \E j, u : Sent(s, j, u)
         \/ \E j, b : Dropped(s, j, b)
  PROVE  Quiet
  <1>1. ASSUME NEW id \in People, Ac!OnLogin(s, id) PROVE Quiet
    BY <1>1 DEF Ac!OnLogin, Quiet, Open
  <1>2. ASSUME NEW j, Begun(s, j) PROVE Quiet
    <2>1. job[s].st # "cache" /\ j.st # "cache"
      BY <1>2 DEF Begun, Ac!NoJob
    <2> QED BY <1>2, <2>1 DEF Begun, Quiet, Open, AccountTypes
  <1>3. ASSUME NEW j, NEW u, Sent(s, j, u) PROVE Quiet
    <2>1. [j EXCEPT !.st = "row"].st = "row" /\ job[s].st = "upload"
      BY <1>3 DEF Sent, Jobs
    <2> QED BY <1>3, <2>1 DEF Sent, Quiet, Open, AccountTypes
  <1>4. ASSUME NEW j, NEW b, Dropped(s, j, b) PROVE Quiet
    <2>1. job[s].st # "cache" /\ Ac!NoJob.st # "cache" /\ j.id \in Ac!Ids
      BY <1>4 DEF Dropped, Ac!NoJob, Jobs
    <2>2. \A t \in Sessions : (Open(t)' <=> Open(t)) /\ (Open(t) => job'[t] = job[t])
      BY <1>4, <2>1 DEF Dropped, Open, AccountTypes
    <2>3. \A id \in Ac!Ids : acked'[id].pw = acked[id].pw /\ (Clean(id)' => acked'[id] = acked[id])
      BY <1>4, <2>1 DEF Dropped, Clean, AccountTypes
    <2> QED BY <1>4, <2>2, <2>3 DEF Dropped, Quiet
  <1> QED BY <1>1, <1>2, <1>3, <1>4

\* A handler in its window has a request of a known shape.
LEMMA OpenJob ==
  ASSUME AccountTypes, ShapeInv, NEW s \in Sessions, Open(s)
  PROVE  /\ job[s] \in Jobs /\ job[s] # Ac!NoJob /\ Shaped(job[s], snap[s])
         /\ job[s].id \in Ac!Ids /\ job[s].cols \subseteq Ac!Columns
         /\ job[s].asks \subseteq job[s].cols
  <1>1. job[s] \in Jobs /\ job[s] # Ac!NoJob
    BY DEF Open, AccountTypes, Ac!NoJob
  <1>2. Shaped(job[s], snap[s])
    BY <1>1 DEF ShapeInv
  <1> QED BY <1>1, <1>2 DEF Jobs, Shaped, Ac!ProfileColumns

\* What an UPDATE does to the handlers in their windows: its own enters, and
\* those of the same account write other columns, or the account is mixed.
LEMMA ExecutedOpen ==
  ASSUME AccountTypes, ShapeInv, NEW s \in Sessions, NEW j, NEW r, NEW n, Executed(s, j, r, n)
  PROVE  /\ j \in Jobs /\ j.id \in Ac!Ids /\ Shaped(j, snap[s]) /\ snap[s] # Ac!NoUser
         /\ j.cols \subseteq Ac!Columns /\ job[s] = j
         /\ UNCHANGED <<cache, snap, acked, doubtful>>
         /\ ~ Open(s) /\ Open(s)'
         /\ job'[s].id = j.id /\ job'[s].cols = j.cols /\ job'[s].asks = j.asks
         /\ job'[s].new = n /\ job'[s].op = j.op
         /\ \A t \in Sessions \ {s} : job'[t] = job[t] /\ (Open(t)' <=> Open(t))
         /\ \A id \in Ac!Ids \ {j.id} : row'[id] = row[id] /\ (id \in mixed' <=> id \in mixed)
         /\ row'[j.id] = r
         /\ mixed \subseteq mixed' /\ undone \subseteq undone'
         /\ j.id \notin mixed' => \A t \in Sessions \ {s} :
              Open(t) /\ job[t].id = j.id => job[t].cols \cap j.cols = {}
  <1>1. j \in Jobs /\ j.st = "row" /\ job[s] = j /\ n \in Accts
        /\ UNCHANGED <<cache, snap, acked, doubtful>>
    BY DEF Executed
  <1>2. j.id \in Ac!Ids /\ j.cols \subseteq Ac!Columns /\ j # Ac!NoJob
    BY <1>1 DEF Jobs, Ac!NoJob
  <1>3. Shaped(j, snap[s]) /\ snap[s] # Ac!NoUser
    BY <1>1, <1>2 DEF ShapeInv
  <1>4. PICK k : k = [j EXCEPT !.st = "cache", !.new = n]
    OBVIOUS
  <1>5. k.st = "cache" /\ k.id = j.id /\ k.cols = j.cols /\ k.asks = j.asks /\ k.op = j.op
    BY <1>1, <1>4 DEF Jobs
  <1>6. k.new = n
    BY <1>1, <1>4 DEF Jobs
  <1>7. job'[s] = k /\ \A t \in Sessions \ {s} : job'[t] = job[t]
    BY <1>4 DEF Executed, AccountTypes
  <1>8. row'[j.id] = r /\ \A id \in Ac!Ids \ {j.id} : row'[id] = row[id]
    BY <1>2 DEF Executed, AccountTypes
  <1>9. /\ mixed \subseteq mixed' /\ undone \subseteq undone'
        /\ \A id \in Ac!Ids \ {j.id} : id \in mixed' <=> id \in mixed
    BY DEF Executed
  <1>10. j.id \notin mixed' => \A t \in Sessions \ {s} :
              Open(t) /\ job[t].id = j.id => job[t].cols \cap j.cols = {}
    BY <1>1 DEF Executed, Ac!Crossing, Open
  <1> QED BY <1>1, <1>2, <1>3, <1>5, <1>6, <1>7, <1>8, <1>9, <1>10 DEF Open

\* What the write of the cache does to them: its own leaves.
LEMMA AppliedOpen ==
  ASSUME AccountTypes, ShapeInv, NEW s \in Sessions, NEW j, NEW a, NEW b, Applied(s, j, a, b)
  PROVE  /\ j = job[s] /\ Open(s) /\ ~ Open(s)' /\ job'[s] = Ac!NoJob
         /\ \A t \in Sessions \ {s} : job'[t] = job[t] /\ (Open(t)' <=> Open(t)) /\ snap'[t] = snap[t]
         /\ cache'[j.id] = a /\ acked'[j.id] = b
         /\ \A id \in Ac!Ids \ {j.id} : cache'[id] = cache[id] /\ acked'[id] = acked[id]
         /\ UNCHANGED <<row, mixed, undone>> /\ doubtful' = doubtful \ ({j.id} \X j.asks)
  <1>1. /\ j = job[s] /\ j \in Jobs /\ j.st = "cache" /\ UNCHANGED <<row, mixed, undone>>
        /\ doubtful' = doubtful \ ({j.id} \X j.asks)
    BY DEF Applied
  <1>2. j.id \in Ac!Ids
    BY <1>1 DEF Jobs
  <1>3. job'[s] = Ac!NoJob /\ \A t \in Sessions \ {s} : job'[t] = job[t] /\ snap'[t] = snap[t]
    BY DEF Applied, AccountTypes
  <1>4. /\ cache'[j.id] = a /\ acked'[j.id] = b
        /\ \A id \in Ac!Ids \ {j.id} : cache'[id] = cache[id] /\ acked'[id] = acked[id]
    BY <1>2 DEF Applied, AccountTypes
  <1> QED BY <1>1, <1>3, <1>4 DEF Open, Ac!NoJob

\* What a doubted UPDATE does to them: its own leaves, and its columns are in doubt.
LEMMA DoubtedOpen ==
  ASSUME AccountTypes, ShapeInv, NEW s \in Sessions, NEW j, NEW b, Doubted(s, j, b)
  PROVE  /\ j = job[s] /\ Open(s) /\ ~ Open(s)' /\ job'[s] = Ac!NoJob
         /\ \A t \in Sessions \ {s} : job'[t] = job[t] /\ (Open(t)' <=> Open(t))
         /\ acked'[j.id] = b
         /\ \A id \in Ac!Ids \ {j.id} : acked'[id] = acked[id]
         /\ UNCHANGED <<row, cache, snap, mixed, undone>>
         /\ doubtful' = doubtful \cup ({j.id} \X j.cols)
  <1>1. j = job[s] /\ j \in Jobs /\ j.st = "cache" /\ UNCHANGED <<row, cache, snap, mixed, undone>>
    BY DEF Doubted
  <1>2. j.id \in Ac!Ids
    BY <1>1 DEF Jobs
  <1>3. job'[s] = Ac!NoJob /\ \A t \in Sessions \ {s} : job'[t] = job[t]
    BY DEF Doubted, AccountTypes
  <1>4. acked'[j.id] = b /\ \A id \in Ac!Ids \ {j.id} : acked'[id] = acked[id]
    BY <1>2 DEF Doubted, AccountTypes
  <1> QED BY <1>1, <1>3, <1>4 DEF Open, Ac!NoJob, Doubted

\* After a restart nothing is under way.
LEMMA RestartIdle ==
  ASSUME AccountTypes, Ac!Restart
  PROVE  /\ \A t \in Sessions : ~ Open(t)' /\ ~ Early(t)' /\ snap'[t] = Ac!NoUser
         /\ cache' = row /\ doubtful' = {} /\ UNCHANGED <<row, mixed, undone>>
  BY DEF Ac!Restart, Open, Early, Ac!NoJob

LEMMA WindowStep ==
  ASSUME AccountTypes, ShapeInv, CopyInv, WindowInv, [Ac!Next]_accVars
  PROVE  WindowInv'
  <1>1. ASSUME Quiet PROVE WindowInv'
    BY <1>1 DEF Quiet, WindowInv
  <1>2. ASSUME NEW s \in Sessions, NEW j, NEW r, NEW n, Executed(s, j, r, n) PROVE WindowInv'
    <2>1. \A t, u \in Sessions :
            Open(t)' /\ Open(u)' /\ t # u /\ job'[t].id = job'[u].id /\ job'[t].id \notin mixed'
            => job'[t].cols \cap job'[u].cols = {}
      BY <1>2, ExecutedOpen DEF WindowInv
    <2>2. \A c \in j.cols : r[c] = n[c]
      <3>1. j.cols \subseteq Ac!Columns
        BY <1>2, ExecutedOpen
      <3>2. \A c \in Ac!Columns : /\ r[c] = IF c \in j.cols THEN j.new[c] ELSE row[j.id][c]
                                 /\ n[c] = j.new[c]
        BY <1>2 DEF Executed
      <3> QED BY <3>1, <3>2
    <2>3. ASSUME NEW t \in Sessions, Open(t)', job'[t].id \notin mixed', NEW c \in job'[t].cols
          PROVE  row'[job'[t].id][c] = job'[t].new[c]
      <3>1. CASE t = s
        BY <1>2, <2>2, <2>3, <3>1, ExecutedOpen
      <3>2. CASE t # s
        <4>1. /\ Open(t) /\ job'[t] = job[t] /\ job[t].id \notin mixed /\ c \in job[t].cols
              /\ job[t].id = j.id => c \notin j.cols
          BY <1>2, <2>3, <3>2, ExecutedOpen
        <4>2. job[t].id \in Ac!Ids /\ c \in Ac!Columns /\ row[job[t].id][c] = job[t].new[c]
          BY <4>1, OpenJob DEF WindowInv
        <4>3. job[t].id = j.id => r[c] = row[job[t].id][c]
          BY <1>2, <4>1, <4>2 DEF Executed
        <4> QED BY <1>2, <4>1, <4>2, <4>3, ExecutedOpen
      <3> QED BY <3>1, <3>2
    <2> QED BY <2>1, <2>3 DEF WindowInv
  <1>3. ASSUME NEW s \in Sessions, NEW j, NEW a, NEW b, Applied(s, j, a, b) PROVE WindowInv'
    BY <1>3, AppliedOpen DEF WindowInv
  <1>4. CASE Ac!Restart
    BY <1>4, RestartIdle DEF WindowInv
  <1>5. CASE UNCHANGED accVars
    BY <1>5 DEF accVars, WindowInv, Open
  <1>6. ASSUME NEW s \in Sessions, NEW j, NEW b, Doubted(s, j, b) PROVE WindowInv'
    BY <1>6, DoubtedOpen DEF WindowInv
  <1> QED BY <1>1, <1>2, <1>3, <1>4, <1>5, <1>6, AccountSteps, QuietSteps

-----------------------------------------------------------------------------
(* The copies that handlers compute from *)

\* An UPDATE makes the copies of its account older, or leaves their columns.
LEMMA CopyExecuted ==
  ASSUME AccountTypes, ShapeInv, NEW s \in Sessions, NEW j, NEW r, NEW n, Executed(s, j, r, n),
         NEW a, NEW v \in Nat, NEW cols, NEW id \in Ac!Ids,
         Copy(a, v, cols, row[id], Sure(id))
  PROVE  Copy(a, v, cols, row'[id], Sure(id)')
  <1>1. Sure(id)' => Sure(id)
    BY ExecutedOpen DEF Sure, Clean
  <1>2. CASE id # j.id
    <2>1. row'[id] = row[id]
      BY <1>2, ExecutedOpen
    <2> QED BY <1>1, <2>1 DEF Copy
  <1>3. CASE id = j.id
    <2>1. row'[id] = r /\ row[id].ver \in Nat
      BY <1>3, ExecutedOpen DEF AccountTypes, Accts
    <2>2. CASE j.op = "pw"
      <3>1. "nick" \notin j.cols /\ "face" \notin j.cols
        BY <2>2, ExecutedOpen DEF Shaped
      <3>2. r.nick = row[id].nick /\ r.face = row[id].face /\ r.ver = row[id].ver
        BY <1>3, <2>1, <2>2, <3>1 DEF Executed, Ac!Columns
      <3> QED BY <1>1, <2>1, <3>2 DEF Copy
    <2>3. CASE j.op # "pw"
      <3>1. r.ver = row[id].ver + 1
        BY <1>3, <2>3 DEF Executed
      <3> QED BY <2>1, <3>1 DEF Copy
    <2> QED BY <2>2, <2>3
  <1> QED BY <1>2, <1>3

\* A copy that is good for more columns, of an account that was surer, is good.
LEMMA CopyWeaker ==
  ASSUME NEW a, NEW v, NEW cols, NEW cols2, NEW r, NEW p, NEW q,
         Copy(a, v, cols, r, p), cols2 \subseteq cols, q => p
  PROVE  Copy(a, v, cols2, r, q)
  BY DEF Copy

LEMMA CopyStep ==
  ASSUME AccountTypes, ShapeInv, CopyInv, WindowInv, [Ac!Next]_accVars
  PROVE  CopyInv'
  <1> USE NobodyIsNoAccount
  <1>1. ASSUME NEW s \in Sessions, NEW id \in People, Ac!OnLogin(s, id) PROVE CopyInv'
    <2>1. id \in Ac!Ids /\ cache[id].id = id
      BY DEF Ac!Ids, ShapeInv
    <2>2. /\ job[s] = Ac!NoJob /\ snap'[s] = cache[id]
          /\ \A t \in Sessions \ {s} : snap'[t] = snap[t]
          /\ UNCHANGED <<row, cache, job, asked, acked, mixed, undone>>
      BY <1>1 DEF Ac!OnLogin, Ac!GetUserByID, AccountTypes
    <2>3. SnapColumns(s)' = Ac!ProfileColumns
      BY <2>2 DEF SnapColumns, Ac!NoJob
    <2>4. \A t \in Sessions \ {s} : SnapColumns(t)' = SnapColumns(t)
      BY <2>2 DEF SnapColumns
    <2>5. \A t \in Sessions : snap'[t] # Ac!NoUser =>
            Copy(snap'[t], snap'[t].ver, SnapColumns(t)', row[snap'[t].id], Sure(snap'[t].id))
      BY <2>1, <2>2, <2>3, <2>4 DEF CopyInv
    <2> QED BY <2>2, <2>5 DEF CopyInv, Sure, Clean, Open, Early
  <1>2. ASSUME NEW s \in Sessions, NEW j, Begun(s, j) PROVE CopyInv'
    <2>1. /\ job[s] = Ac!NoJob /\ job'[s] = j /\ \A t \in Sessions \ {s} : job'[t] = job[t]
          /\ UNCHANGED <<row, cache, snap, acked, mixed, undone, doubtful>>
      BY <1>2 DEF Begun, AccountTypes
    <2>2. \A t \in Sessions : SnapColumns(t)' \subseteq SnapColumns(t)
      BY <2>1 DEF SnapColumns, Ac!NoJob, Ac!ProfileColumns
    <2>3. \A t \in Sessions : snap[t] # Ac!NoUser =>
            Copy(snap[t], snap[t].ver, SnapColumns(t)', row[snap[t].id], Sure(snap[t].id))
      BY <2>2, CopyWeaker DEF CopyInv
    <2>4. j.st \in {"upload", "row"} /\
            (j.op # "rename" => Copy(j.new, j.from, j.cols \ j.asks, row[j.id], Sure(j.id)))
      BY <1>2 DEF Begun
    <2> QED BY <2>1, <2>3, <2>4 DEF CopyInv, Sure, Clean, Open, Early
  <1>3. ASSUME NEW s \in Sessions, NEW j, NEW u, Sent(s, j, u) PROVE CopyInv'
    <2>1. PICK k : k = [j EXCEPT !.st = "row"]
      OBVIOUS
    <2>2. /\ k.st = "row" /\ k.op = j.op /\ k.cols = j.cols /\ k.asks = j.asks /\ k.id = j.id
          /\ k.new = j.new /\ k.from = j.from
      BY <1>3, <2>1 DEF Sent, Jobs
    <2>3. /\ job[s] = j /\ j.st = "upload" /\ job'[s] = k /\ j # Ac!NoJob
          /\ \A t \in Sessions \ {s} : job'[t] = job[t] /\ snap'[t] = snap[t]
          /\ UNCHANGED <<row, cache, acked, mixed, undone>>
      BY <1>3, <2>1 DEF Sent, AccountTypes, Ac!NoJob
    <2>4. \A t \in Sessions \ {s} : SnapColumns(t)' = SnapColumns(t)
      BY <2>3 DEF SnapColumns
    <2>5. /\ SnapColumns(s) = Ac!ProfileColumns
          /\ SnapColumns(s)' = IF j.op = "avatar" THEN {"nick"} ELSE Ac!ProfileColumns
      BY <2>2, <2>3 DEF SnapColumns
    <2>6. /\ snap'[s].id = snap[s].id /\ snap'[s].ver = snap[s].ver /\ snap'[s].nick = snap[s].nick
          /\ j.op # "avatar" => snap'[s] = snap[s]
      BY <1>3 DEF Sent, AccountTypes
    <2>7. snap[s] # Ac!NoUser
      BY <2>3 DEF ShapeInv
    <2>8. Copy(snap[s], snap[s].ver, Ac!ProfileColumns, row[snap[s].id], Sure(snap[s].id))
      BY <2>5, <2>7 DEF CopyInv
    <2>9. Copy(snap'[s], snap'[s].ver, SnapColumns(s)', row[snap'[s].id], Sure(snap'[s].id))
      BY <2>5, <2>6, <2>8 DEF Copy, Ac!ProfileColumns
    <2>10. \A t \in Sessions : snap'[t] # Ac!NoUser =>
            Copy(snap'[t], snap'[t].ver, SnapColumns(t)', row[snap'[t].id], Sure(snap'[t].id))
      BY <2>3, <2>4, <2>9 DEF CopyInv
    <2> QED BY <2>2, <2>3, <2>10, SMTT(30) DEF CopyInv, Sure, Clean, Open, Early
  <1>4. ASSUME NEW s \in Sessions, NEW j, NEW b, Dropped(s, j, b) PROVE CopyInv'
    <2>1. /\ job[s] = j /\ j # Ac!NoJob /\ job'[s] = Ac!NoJob
          /\ \A t \in Sessions \ {s} : job'[t] = job[t]
          /\ UNCHANGED <<row, cache, snap, mixed>>
      BY <1>4 DEF Dropped, AccountTypes, Ac!NoJob
    <2>2. /\ undone \subseteq undone'
          /\ j.op = "avatar" /\ j.st = "row" => j.id \in undone'
      BY <1>4 DEF Dropped
    <2>3. \A id : Sure(id)' => Sure(id)
      BY <2>1, <2>2 DEF Sure, Clean
    <2>4. \A t \in Sessions \ {s} : SnapColumns(t)' = SnapColumns(t)
      BY <2>1 DEF SnapColumns
    <2>5. SnapColumns(s)' = Ac!ProfileColumns
      BY <2>1 DEF SnapColumns, Ac!NoJob
    <2>6. snap[s] # Ac!NoUser /\ Shaped(j, snap[s])
      BY <2>1 DEF ShapeInv
    <2>7. j.op = "avatar" /\ j.st = "row" => ~ Sure(snap[s].id)'
      BY <2>1, <2>2, <2>6 DEF Shaped, Sure, Clean
    <2>8. Copy(snap[s], snap[s].ver, SnapColumns(s), row[snap[s].id], Sure(snap[s].id))
      BY <2>6 DEF CopyInv
    <2>9. SnapColumns(s) = IF j.op = "avatar" /\ j.st = "row" THEN {"nick"} ELSE Ac!ProfileColumns
      BY <2>1 DEF SnapColumns
    <2>10. Copy(snap[s], snap[s].ver, Ac!ProfileColumns, row[snap[s].id], Sure(snap[s].id)')
      BY <2>1, <2>3, <2>7, <2>8, <2>9 DEF Copy, Ac!ProfileColumns
    <2>11. \A id \in Ac!Ids : Copy(cache[id], cache[id].ver, Ac!ProfileColumns, row[id], Sure(id)')
      BY <2>3 DEF CopyInv, Copy
    <2>12. \A t \in Sessions \ {s} : snap[t] # Ac!NoUser =>
             Copy(snap[t], snap[t].ver, SnapColumns(t), row[snap[t].id], Sure(snap[t].id)')
      BY <2>1, <2>3 DEF CopyInv, Copy
    <2>13. \A t \in Sessions \ {s} :
             /\ Early(t) /\ job[t].op # "rename" =>
                  Copy(job[t].new, job[t].from, job[t].cols \ job[t].asks, row[job[t].id],
                       Sure(job[t].id)')
             /\ Open(t) /\ job[t].op # "pw" =>
                  Copy(job[t].new, job[t].new.ver, {"nick"}, row[job[t].id],
                       Sure(job[t].id)')
      BY <2>1, <2>2 DEF CopyInv, Copy, Sure, Clean
    <2>14. \A t \in Sessions : snap'[t] # Ac!NoUser =>
             Copy(snap'[t], snap'[t].ver, SnapColumns(t)', row'[snap'[t].id], Sure(snap[t].id)')
      BY <2>1, <2>4, <2>5, <2>10, <2>12
    <2>15. ~ Early(s)' /\ ~ Open(s)'
           /\ \A t \in Sessions \ {s} : (Early(t)' <=> Early(t)) /\ (Open(t)' <=> Open(t))
      BY <2>1 DEF Early, Open, Ac!NoJob
    <2>16. \A t \in Sessions :
             /\ Early(t)' /\ job'[t].op # "rename" =>
                  Copy(job'[t].new, job'[t].from, job'[t].cols \ job'[t].asks, row'[job'[t].id],
                       Sure(job[t].id)')
             /\ Open(t)' /\ job'[t].op # "pw" =>
                  Copy(job'[t].new, job'[t].new.ver, {"nick"}, row'[job'[t].id],
                       Sure(job[t].id)')
      BY <2>1, <2>13, <2>15 DEF Sure, Clean
    <2> QED BY <2>1, <2>11, <2>14, <2>16 DEF CopyInv
  <1>5. ASSUME NEW s \in Sessions, NEW j, NEW r, NEW n, Executed(s, j, r, n) PROVE CopyInv'
    <2>1. \A id \in Ac!Ids : cache[id].ver \in Nat /\ row[id].ver \in Nat
      BY DEF AccountTypes, Accts
    <2>2. \A t \in Sessions : snap[t] # Ac!NoUser => snap[t].ver \in Nat /\ snap[t].id \in Ac!Ids
      BY DEF AccountTypes, Accts
    <2>3. UNCHANGED <<cache, snap>>
      BY <1>5 DEF Executed
    <2>4. \A id \in Ac!Ids : Copy(cache'[id], cache'[id].ver, Ac!ProfileColumns, row'[id], Sure(id)')
      BY <1>5, <2>1, <2>3, CopyExecuted DEF CopyInv
    <2>5. ASSUME NEW t \in Sessions, snap'[t] # Ac!NoUser
          PROVE  Copy(snap'[t], snap'[t].ver, SnapColumns(t)', row'[snap'[t].id], Sure(snap[t].id)')
      <3>1. PICK u : u = snap[t]
        OBVIOUS
      <3>2. u.ver \in Nat /\ u.id \in Ac!Ids /\ Copy(u, u.ver, SnapColumns(t), row[u.id], Sure(u.id))
        BY <2>2, <2>3, <2>5, <3>1 DEF CopyInv
      <3>3. Copy(u, u.ver, SnapColumns(t), row'[u.id], Sure(u.id)')
        BY <1>5, <3>2, CopyExecuted
      <3>4. CASE t # s
        <4>1. SnapColumns(t)' = SnapColumns(t)
          BY <1>5, <3>4, ExecutedOpen DEF SnapColumns
        <4> QED BY <2>3, <3>1, <3>3, <4>1 DEF Sure, Clean
      <3>5. CASE t = s
        <4>1. /\ SnapColumns(s)' = Ac!ProfileColumns
              /\ j.op # "avatar" => SnapColumns(s) = Ac!ProfileColumns
          <5>1. job[s] = j /\ Open(s)'
            BY <1>5, ExecutedOpen
          <5> QED BY <5>1 DEF SnapColumns, Open
        <4>2. CASE j.op = "avatar"
          <5>1. u.id = j.id /\ r.ver = row[u.id].ver + 1 /\ row'[u.id] = r
            <6>1. Shaped(j, snap[s]) /\ row'[j.id] = r
              BY <1>5, ExecutedOpen
            <6>2. r.ver = row[j.id].ver + 1
              BY <1>5, <4>2 DEF Executed
            <6> QED BY <3>1, <3>5, <4>2, <6>1, <6>2 DEF Shaped
          <5>2. u.ver < row'[u.id].ver /\ row'[u.id].ver \in Nat
            BY <2>1, <3>2, <5>1 DEF Copy
          <5>3. Copy(u, u.ver, Ac!ProfileColumns, row'[u.id], Sure(u.id)')
            BY <3>2, <5>2 DEF Copy
          <5> QED BY <2>3, <3>1, <3>5, <4>1, <5>3 DEF Sure, Clean
        <4>3. CASE j.op # "avatar"
          BY <2>3, <3>1, <3>3, <3>5, <4>1, <4>3 DEF Sure, Clean
        <4> QED BY <4>2, <4>3
      <3> QED BY <3>4, <3>5
    <2>6. ASSUME NEW t \in Sessions, Early(t)', job'[t].op # "rename"
          PROVE  Copy(job'[t].new, job'[t].from, job'[t].cols \ job'[t].asks, row'[job'[t].id],
                      Sure(job[t].id)')
      <3>1. t # s /\ job'[t] = job[t]
        BY <1>5, <2>6, ExecutedOpen DEF Early, Open
      <3>2. PICK k : k = job[t]
        OBVIOUS
      <3>3. k \in Jobs /\ k.from \in Nat /\ k.id \in Ac!Ids
        BY <2>6, <3>1, <3>2 DEF Early, AccountTypes, Jobs, Ac!NoJob
      <3>4. Copy(k.new, k.from, k.cols \ k.asks, row[k.id], Sure(k.id))
        BY <2>6, <3>1, <3>2 DEF CopyInv, Early
      <3>5. Copy(k.new, k.from, k.cols \ k.asks, row'[k.id], Sure(k.id)')
        BY <1>5, <3>3, <3>4, CopyExecuted
      <3> QED BY <3>1, <3>2, <3>5 DEF Sure, Clean
    <2>7. ASSUME NEW t \in Sessions, Open(t)', job'[t].op # "pw"
          PROVE  Copy(job'[t].new, job'[t].new.ver, {"nick"}, row'[job'[t].id], Sure(job[t].id)')
      <3>1. CASE t # s
        <4>1. Open(t) /\ job'[t] = job[t]
          BY <1>5, <2>7, <3>1, ExecutedOpen
        <4>2. PICK k : k = job[t]
          OBVIOUS
        <4>3. k \in Jobs /\ k.id \in Ac!Ids /\ k.new.ver \in Nat
          BY <4>1, <4>2, OpenJob DEF Jobs, Accts
        <4>4. Copy(k.new, k.new.ver, {"nick"}, row[k.id], Sure(k.id))
          BY <2>7, <4>1, <4>2 DEF CopyInv
        <4>5. Copy(k.new, k.new.ver, {"nick"}, row'[k.id], Sure(k.id)')
          BY <1>5, <4>3, <4>4, CopyExecuted
        <4> QED BY <4>1, <4>2, <4>5 DEF Sure, Clean
      <3>2. CASE t = s
        <4>1. /\ job'[t].op = j.op /\ job'[t].id = j.id /\ row'[j.id] = r /\ job'[t].new = n
              /\ Shaped(j, snap[s])
          BY <1>5, <3>2, ExecutedOpen
        <4>2. "nick" \in j.cols
          BY <2>7, <4>1 DEF Shaped, Ac!ProfileColumns, Ac!TitleColumns
        <4>3. r.nick = n.nick /\ r.ver = n.ver /\ r.ver \in Nat
          BY <1>5, <4>2 DEF Executed, Ac!Columns, Accts
        <4> QED BY <4>1, <4>3 DEF Copy
      <3> QED BY <3>1, <3>2
    <2> QED BY <2>4, <2>5, <2>6, <2>7 DEF CopyInv
  <1>6. ASSUME NEW s \in Sessions, NEW j, NEW a, NEW b, Applied(s, j, a, b) PROVE CopyInv'
    <2>1. /\ j = job[s] /\ Open(s) /\ j.id \in Ac!Ids /\ Shaped(j, snap[s])
          /\ j.cols \subseteq Ac!Columns /\ snap[s] # Ac!NoUser /\ j \in Jobs
      BY <1>6, AppliedOpen, OpenJob DEF ShapeInv
    <2>2. /\ a.ver = IF j.op = "pw" THEN cache[j.id].ver ELSE j.new.ver
          /\ \A c \in Ac!Columns : a[c] = IF c \in j.cols THEN j.new[c] ELSE cache[j.id][c]
      BY <1>6 DEF Applied
    <2>3. j.op # "pw" => Copy(j.new, j.new.ver, {"nick"}, row[j.id], Sure(j.id))
      BY <2>1 DEF CopyInv
    <2>4. Copy(cache[j.id], cache[j.id].ver, Ac!ProfileColumns, row[j.id], Sure(j.id))
      BY <2>1 DEF CopyInv
    <2>5. Copy(a, a.ver, Ac!ProfileColumns, row[j.id], Sure(j.id))
      <3>1. CASE j.op = "pw"
        <4>1. a.nick = cache[j.id].nick /\ a.face = cache[j.id].face /\ a.ver = cache[j.id].ver
          BY <2>1, <2>2, <3>1 DEF Shaped, Ac!Columns
        <4> QED BY <2>4, <4>1 DEF Copy
      <3>2. CASE j.op # "pw"
        <4>1. "nick" \in j.cols
          BY <2>1, <3>2 DEF Shaped, Ac!ProfileColumns, Ac!TitleColumns
        <4>2. a.ver = j.new.ver /\ a.nick = j.new.nick
          BY <2>2, <3>2, <4>1 DEF Ac!Columns
        <4>3. ASSUME Sure(j.id) PROVE a.face = row[j.id].face
          <5>1. CASE "face" \in j.cols
            BY <2>1, <2>2, <4>3, <5>1 DEF WindowInv, Sure, Clean, Ac!Columns
          <5>2. CASE "face" \notin j.cols
            BY <2>1, <3>2, <4>3, <5>2, IdsApart DEF Shaped, Sure, Ac!ProfileColumns
          <5> QED BY <5>1, <5>2
        <4> QED BY <2>3, <3>2, <4>2, <4>3 DEF Copy
      <3> QED BY <3>1, <3>2
    <2>6. /\ job'[s] = Ac!NoJob /\ cache'[j.id] = a
          /\ \A t \in Sessions \ {s} : job'[t] = job[t] /\ snap'[t] = snap[t]
          /\ \A id \in Ac!Ids \ {j.id} : cache'[id] = cache[id]
          /\ UNCHANGED <<row, mixed, undone>>
      BY <1>6, AppliedOpen
    <2>7. \A id \in Ac!Ids : Copy(cache'[id], cache'[id].ver, Ac!ProfileColumns, row[id], Sure(id))
      BY <2>5, <2>6 DEF CopyInv
    <2>8. SnapColumns(s) = Ac!ProfileColumns /\ SnapColumns(s)' = Ac!ProfileColumns
      BY <2>1, <2>6 DEF SnapColumns, Open, Ac!NoJob
    <2>9. \A t \in Sessions \ {s} : SnapColumns(t)' = SnapColumns(t)
      BY <2>6 DEF SnapColumns
    <2>10. Copy(snap'[s], snap'[s].ver, Ac!ProfileColumns, row[snap'[s].id], Sure(snap'[s].id))
      <3>1. CASE j.op \in {"info", "avatar"}
        <4>1. snap'[s] = j.new /\ j.new.id = j.id /\ j.cols = Ac!ProfileColumns
          BY <1>6, <2>1, <3>1 DEF Applied, Shaped, AccountTypes
        <4>2. Sure(j.id) => j.new.face = row[j.id].face
          BY <2>1, <4>1 DEF WindowInv, Sure, Clean, Ac!ProfileColumns
        <4>3. Copy(j.new, j.new.ver, Ac!ProfileColumns, row[j.id], Sure(j.id))
          BY <2>3, <3>1, <4>2 DEF Copy
        <4> QED BY <4>1, <4>3
      <3>2. CASE j.op \notin {"info", "avatar"}
        <4>1. snap'[s] = snap[s]
          BY <1>6, <3>2 DEF Applied
        <4> QED BY <2>1, <2>8, <4>1 DEF CopyInv
      <3> QED BY <3>1, <3>2
    <2>11. \A t \in Sessions : snap'[t] # Ac!NoUser =>
             Copy(snap'[t], snap'[t].ver, SnapColumns(t)', row[snap'[t].id], Sure(snap'[t].id))
      BY <2>6, <2>8, <2>9, <2>10 DEF CopyInv
    <2>12. ~ Early(s)' /\ ~ Open(s)'
           /\ \A t \in Sessions \ {s} : (Early(t)' <=> Early(t)) /\ (Open(t)' <=> Open(t))
      BY <2>6 DEF Early, Open, Ac!NoJob
    <2>13. \A t \in Sessions :
             /\ Early(t)' /\ job'[t].op # "rename" =>
                  Copy(job'[t].new, job'[t].from, job'[t].cols \ job'[t].asks, row[job'[t].id],
                       Sure(job'[t].id))
             /\ Open(t)' /\ job'[t].op # "pw" =>
                  Copy(job'[t].new, job'[t].new.ver, {"nick"}, row[job'[t].id],
                       Sure(job'[t].id))
      BY <2>6, <2>12 DEF CopyInv
    <2> QED BY <2>6, <2>7, <2>11, <2>13 DEF CopyInv, Sure, Clean
  <1>7. CASE Ac!Restart
    <2>1. \A id \in Ac!Ids : row[id].ver \in Nat
      BY DEF AccountTypes, Accts
    <2> QED BY <1>7, <2>1, RestartIdle DEF CopyInv, Copy
  <1>8. CASE UNCHANGED accVars
    BY <1>8 DEF accVars, CopyInv, Sure, Clean, Open, Early, SnapColumns
  <1>9. ASSUME NEW s \in Sessions, NEW j, NEW b, Doubted(s, j, b) PROVE CopyInv'
    <2>1. /\ j = job[s] /\ Open(s) /\ job'[s] = Ac!NoJob
          /\ \A t \in Sessions \ {s} : job'[t] = job[t]
          /\ UNCHANGED <<row, cache, snap, mixed, undone>>
      BY <1>9, DoubtedOpen
    <2>2. \A t \in Sessions : SnapColumns(t)' = SnapColumns(t)
      BY <2>1 DEF SnapColumns, Open, Ac!NoJob
    <2>3. ~ Early(s)' /\ ~ Open(s)'
          /\ \A t \in Sessions \ {s} : (Early(t)' <=> Early(t)) /\ (Open(t)' <=> Open(t))
      BY <2>1 DEF Early, Open, Ac!NoJob
    <2> QED BY <2>1, <2>2, <2>3 DEF CopyInv, Sure, Clean
  <1> QED BY <1>1, <1>2, <1>3, <1>4, <1>5, <1>6, <1>7, <1>8, <1>9, AccountSteps

-----------------------------------------------------------------------------
(* What clients were told *)

\* A statement that writes columns it was not asked for writes them as they
\* were, unless its account is no longer clean.
LEMMA UnaskedStay ==
  ASSUME AccountTypes, ShapeInv, CopyInv, NEW s \in Sessions, NEW j, NEW r, NEW n,
         Executed(s, j, r, n), NEW c \in j.cols \ j.asks, j.id \notin undone',
         c = "face" => Clean(j.id)
  PROVE  r[c] = row[j.id][c]
  <1>1. /\ Shaped(j, snap[s]) /\ c \in Ac!Columns /\ j.id \in Ac!Ids /\ j \in Jobs
        /\ undone \subseteq undone'
    BY ExecutedOpen
  <1>2. j.cols = Ac!ProfileColumns /\ j.op # "rename" /\ c \in {"nick", "face"}
    BY <1>1 DEF Shaped, Ac!ProfileColumns
  <1>3. Early(s) /\ job[s] = j /\ ~ (j.from < row[j.id].ver) /\ r[c] = j.new[c]
    BY <1>1, <1>2 DEF Executed, Early
  <1>4. Copy(j.new, j.from, j.cols \ j.asks, row[j.id], Sure(j.id))
    BY <1>2, <1>3 DEF CopyInv
  <1>5. j.from \in Nat /\ row[j.id].ver \in Nat
    BY <1>1 DEF Jobs, AccountTypes, Accts
  <1>6. j.from = row[j.id].ver
    BY <1>3, <1>4, <1>5 DEF Copy
  <1>7. c = "face" => Sure(j.id)
    <2>1. c = "face" => j.op = "info"
      BY <1>1, <1>2 DEF Shaped
    <2>2. job[s] # Ac!NoJob
      BY <1>3 DEF Early, Ac!NoJob
    <2>3. j.op = "info" => j.id \in People
      BY <1>1, <1>3, <2>2 DEF ShapeInv, Shaped
    <2> QED BY <2>1, <2>3 DEF Sure
  <1>8. c \in j.cols \ j.asks
    OBVIOUS
  <1>9. r[c] = row[j.id][c] \/ c \notin {"nick", "face"}
    BY <1>3, <1>4, <1>6, <1>7, <1>8 DEF Copy
  <1> QED BY <1>2, <1>9

LEMMA KeptStep ==
  ASSUME AccountTypes, ShapeInv, CopyInv, WindowInv, KeptInv, Ac!ProfileIsKept,
         [Ac!Next]_accVars
  PROVE  KeptInv'
  <1>1. ASSUME Quiet PROVE KeptInv'
    <2>1. ASSUME NEW t \in Sessions, Open(t)', Clean(job[t].id)',
                 NEW c \in job'[t].cols \ job'[t].asks
          PROVE  <<job'[t].id, c>> \in doubtful' \/ row'[job'[t].id][c] = acked'[job'[t].id][c]
      <3>1. /\ Open(t) /\ job'[t] = job[t] /\ row' = row /\ Clean(job[t].id)
            /\ doubtful' = doubtful
        BY <1>1, <2>1 DEF Quiet, Clean
      <3>2. job[t].id \in Ac!Ids
        BY <3>1, OpenJob
      <3>3. acked'[job[t].id] = acked[job[t].id]
        BY <1>1, <2>1, <3>1, <3>2 DEF Quiet, Clean
      <3> QED BY <2>1, <3>1, <3>3 DEF KeptInv
    <2> QED BY <2>1 DEF KeptInv
  <1>2. ASSUME NEW s \in Sessions, NEW j, NEW r, NEW n, Executed(s, j, r, n) PROVE KeptInv'
    <2>1. ASSUME NEW t \in Sessions, Open(t)', Clean(job[t].id)',
                 NEW c \in job'[t].cols \ job'[t].asks
          PROVE  <<job'[t].id, c>> \in doubtful' \/ row'[job'[t].id][c] = acked'[job'[t].id][c]
      <3>1. /\ acked' = acked /\ doubtful' = doubtful /\ mixed \subseteq mixed' /\ undone \subseteq undone'
            /\ row'[j.id] = r /\ j.id \in Ac!Ids
        BY <1>2, ExecutedOpen
      <3>2. CASE t = s
        <4>1. job'[t].id = j.id /\ job'[t].cols = j.cols /\ job'[t].asks = j.asks
              /\ j.cols \subseteq Ac!Columns
          BY <1>2, <3>2, ExecutedOpen
        <4>2. j.id \notin mixed' /\ j.id \notin undone' /\ Clean(j.id)
          BY <2>1, <3>1, <4>1 DEF Clean
        <4>3. r[c] = row[j.id][c]
          BY <1>2, <2>1, <4>1, <4>2, UnaskedStay
        <4>4. ~ Ac!InWindow(j.id, c)
          <5> SUFFICES ASSUME NEW u \in Sessions, job[u].st = "cache", job[u].id = j.id,
                              c \in job[u].cols
                       PROVE  FALSE
            BY DEF Ac!InWindow
          <5>1. Open(u)
            BY DEF Open
          <5>2. u # s
            BY <1>2, <5>1, ExecutedOpen
          <5>3. job[u].cols \cap j.cols = {}
            BY <1>2, <4>2, <5>1, <5>2, ExecutedOpen
          <5> QED BY <2>1, <4>1, <5>3
        <4>5. <<j.id, c>> \in doubtful \/ row[j.id][c] = acked[j.id][c]
          BY <2>1, <3>1, <4>1, <4>2, <4>4 DEF Ac!ProfileIsKept, Clean
        <4> QED BY <3>1, <4>1, <4>3, <4>5
      <3>3. CASE t # s
        <4>1. Open(t) /\ job'[t] = job[t]
          BY <1>2, <2>1, <3>3, ExecutedOpen
        <4>2. PICK k : k = job[t]
          OBVIOUS
        <4>3. k.id \in Ac!Ids /\ c \in Ac!Columns /\ k.id \notin mixed' /\ Clean(k.id)
          BY <2>1, <3>1, <4>1, <4>2, OpenJob DEF Clean
        <4>4. <<k.id, c>> \in doubtful \/ row[k.id][c] = acked[k.id][c]
          BY <2>1, <4>1, <4>2, <4>3 DEF KeptInv
        <4>5. k.id = j.id => c \notin j.cols
          BY <1>2, <2>1, <3>3, <4>1, <4>2, <4>3, ExecutedOpen
        <4>6. k.id = j.id => r[c] = row[k.id][c]
          BY <1>2, <4>3, <4>5 DEF Executed
        <4>7. k.id # j.id => row'[k.id] = row[k.id]
          BY <1>2, <4>3, ExecutedOpen
        <4> QED BY <3>1, <4>1, <4>2, <4>4, <4>6, <4>7
      <3> QED BY <3>2, <3>3
    <2> QED BY <2>1 DEF KeptInv
  <1>3. ASSUME NEW s \in Sessions, NEW j, NEW a, NEW b, Applied(s, j, a, b) PROVE KeptInv'
    <2>1. ASSUME NEW t \in Sessions, Open(t)', Clean(job[t].id)',
                 NEW c \in job'[t].cols \ job'[t].asks
          PROVE  <<job'[t].id, c>> \in doubtful' \/ row'[job'[t].id][c] = acked'[job'[t].id][c]
      <3>1. /\ t # s /\ Open(t) /\ job'[t] = job[t] /\ j = job[s] /\ Open(s)
            /\ UNCHANGED <<row, mixed, undone>> /\ doubtful' = doubtful \ ({j.id} \X j.asks)
            /\ acked'[j.id] = b /\ \A id \in Ac!Ids \ {j.id} : acked'[id] = acked[id]
        BY <1>3, <2>1, AppliedOpen
      <3>2. PICK k : k = job[t]
        OBVIOUS
      <3>3. k.id \in Ac!Ids /\ c \in Ac!Columns /\ Clean(k.id)
        BY <2>1, <3>1, <3>2, OpenJob DEF Clean
      <3>4. <<k.id, c>> \in doubtful \/ row[k.id][c] = acked[k.id][c]
        BY <2>1, <3>1, <3>2, <3>3 DEF KeptInv
      <3>5. k.id = j.id => c \notin j.cols
        BY <2>1, <3>1, <3>2, <3>3 DEF WindowInv, Clean
      <3>6. j.asks \subseteq j.cols
        BY <3>1, OpenJob
      <3>7. k.id = j.id => b[c] = acked[k.id][c]
        BY <1>3, <3>3, <3>5, <3>6 DEF Applied
      <3>8. <<k.id, c>> \in doubtful => <<k.id, c>> \in doubtful'
        BY <3>1, <3>5, <3>6
      <3> QED BY <3>1, <3>2, <3>3, <3>4, <3>7, <3>8
    <2> QED BY <2>1 DEF KeptInv
  <1>4. CASE Ac!Restart
    BY <1>4, RestartIdle DEF KeptInv
  <1>5. CASE UNCHANGED accVars
    BY <1>5 DEF accVars, KeptInv, Open, Clean
  <1>6. ASSUME NEW s \in Sessions, NEW j, NEW b, Doubted(s, j, b) PROVE KeptInv'
    <2>1. ASSUME NEW t \in Sessions, Open(t)', Clean(job[t].id)',
                 NEW c \in job'[t].cols \ job'[t].asks
          PROVE  <<job'[t].id, c>> \in doubtful' \/ row'[job'[t].id][c] = acked'[job'[t].id][c]
      <3>1. /\ t # s /\ Open(t) /\ job'[t] = job[t] /\ j = job[s] /\ Open(s)
            /\ UNCHANGED <<row, mixed, undone>> /\ doubtful \subseteq doubtful'
            /\ acked'[j.id] = b /\ \A id \in Ac!Ids \ {j.id} : acked'[id] = acked[id]
        BY <1>6, <2>1, DoubtedOpen
      <3>2. PICK k : k = job[t]
        OBVIOUS
      <3>3. k.id \in Ac!Ids /\ c \in Ac!Columns /\ Clean(k.id)
        BY <2>1, <3>1, <3>2, OpenJob DEF Clean
      <3>4. <<k.id, c>> \in doubtful \/ row[k.id][c] = acked[k.id][c]
        BY <2>1, <3>1, <3>2, <3>3 DEF KeptInv
      <3>5. k.id = j.id => c \notin j.cols
        BY <2>1, <3>1, <3>2, <3>3 DEF WindowInv, Clean
      <3>6. j.asks \subseteq j.cols
        BY <3>1, OpenJob
      <3>7. k.id = j.id => b[c] = acked[k.id][c]
        BY <1>6, <3>3, <3>5, <3>6 DEF Doubted
      <3> QED BY <3>1, <3>2, <3>3, <3>4, <3>7
    <2> QED BY <2>1 DEF KeptInv
  <1> QED BY <1>1, <1>2, <1>3, <1>4, <1>5, <1>6, AccountSteps, QuietSteps

-----------------------------------------------------------------------------
(* What is promised *)

LEMMA SoundQuiet ==
  ASSUME AccountTypes, ShapeInv, Ac!AccountsSound, Quiet
  PROVE  Ac!AccountsSound'
  <1>1. \A id, c : Ac!InWindow(id, c)' <=> Ac!InWindow(id, c)
    BY DEF Quiet, Ac!InWindow, Open
  <1>2. \A id \in Ac!Ids : id \notin mixed' \cup undone' => acked'[id] = acked[id]
    BY DEF Quiet, Clean
  <1>3. UNCHANGED <<row, cache, mixed, doubtful>> /\ undone \subseteq undone'
    BY DEF Quiet
  <1>4. Ac!CacheFollowsRow'
    BY <1>1, <1>3 DEF Ac!AccountsSound, Ac!CacheFollowsRow
  <1>5. Ac!PasswordIsKept'
    <2>1. \A id \in Ac!Ids : acked'[id].pw = acked[id].pw
      BY DEF Quiet
    <2> QED BY <1>1, <1>3, <2>1 DEF Ac!AccountsSound, Ac!PasswordIsKept
  <1>6. Ac!ProfileIsKept'
    <2> SUFFICES ASSUME NEW id \in Ac!Ids, id \notin mixed' \cup undone', NEW c \in Ac!Columns,
                        ~ Ac!InWindow(id, c)', <<id, c>> \notin doubtful'
                 PROVE  row'[id][c] = acked'[id][c]
      BY DEF Ac!ProfileIsKept
    <2>1. id \notin mixed \cup undone /\ ~ Ac!InWindow(id, c)
      BY <1>1, <1>3
    <2> QED BY <1>2, <1>3, <2>1 DEF Ac!AccountsSound, Ac!ProfileIsKept
  <1>7. Ac!TitleIsOne'
    BY <1>3 DEF Ac!AccountsSound, Ac!TitleIsOne
  <1> QED BY <1>4, <1>5, <1>6, <1>7 DEF Ac!AccountsSound

LEMMA SoundExecuted ==
  ASSUME AccountTypes, ShapeInv, CopyInv, Ac!AccountsSound, NEW s \in Sessions,
         NEW j, NEW r, NEW n, Executed(s, j, r, n)
  PROVE  Ac!AccountsSound'
  <1>1. /\ j \in Jobs /\ j.id \in Ac!Ids /\ Shaped(j, snap[s]) /\ snap[s] # Ac!NoUser
        /\ j.cols \subseteq Ac!Columns /\ UNCHANGED <<cache, snap, acked, doubtful>>
        /\ row'[j.id] = r /\ \A id \in Ac!Ids \ {j.id} : row'[id] = row[id]
        /\ mixed \subseteq mixed' /\ undone \subseteq undone'
    BY ExecutedOpen
  <1>2. \A c \in Ac!Columns : r[c] = IF c \in j.cols THEN j.new[c] ELSE row[j.id][c]
    BY DEF Executed
  <1>3. \A id, c : Ac!InWindow(id, c) => Ac!InWindow(id, c)'
    <2> SUFFICES ASSUME NEW id, NEW c, NEW t \in Sessions, job[t].st = "cache", job[t].id = id,
                        c \in job[t].cols
                 PROVE  Ac!InWindow(id, c)'
      BY DEF Ac!InWindow
    <2>1. Open(t)
      BY DEF Open
    <2>2. t # s /\ job'[t] = job[t]
      BY <2>1, ExecutedOpen
    <2> QED BY <2>2 DEF Ac!InWindow
  <1>4. \A c \in j.cols : Ac!InWindow(j.id, c)'
    <2>1. job'[s].st = "cache" /\ job'[s].id = j.id /\ job'[s].cols = j.cols
      BY ExecutedOpen DEF Open
    <2> QED BY <2>1 DEF Ac!InWindow
  <1>5. ASSUME NEW id \in Ac!Ids, NEW c \in Ac!Columns, ~ Ac!InWindow(id, c)'
        PROVE  ~ Ac!InWindow(id, c) /\ row'[id][c] = row[id][c]
    <2>1. ~ Ac!InWindow(id, c) /\ ~ (id = j.id /\ c \in j.cols)
      BY <1>3, <1>4, <1>5
    <2> QED BY <1>1, <1>2, <2>1
  <1>6. Ac!CacheFollowsRow'
    BY <1>1, <1>5 DEF Ac!AccountsSound, Ac!CacheFollowsRow
  <1>7. Ac!PasswordIsKept'
    <2>1. "pw" \in Ac!Columns
      BY DEF Ac!Columns
    <2> SUFFICES ASSUME NEW id \in Ac!Ids, id \notin mixed', ~ Ac!InWindow(id, "pw")', <<id, "pw">> \notin doubtful'
                 PROVE  row'[id].pw = acked'[id].pw
      BY DEF Ac!PasswordIsKept
    <2>2. ~ Ac!InWindow(id, "pw") /\ row'[id].pw = row[id].pw /\ id \notin mixed
      BY <1>1, <1>5, <2>1
    <2> QED BY <1>1, <2>2 DEF Ac!AccountsSound, Ac!PasswordIsKept
  <1>8. Ac!ProfileIsKept'
    BY <1>1, <1>5 DEF Ac!AccountsSound, Ac!ProfileIsKept
  <1>9. Ac!TitleIsOne'
    <2> SUFFICES ASSUME NEW g \in Groups, g \notin undone' PROVE row'[g].name = row'[g].nick
      BY DEF Ac!TitleIsOne
    <2>1. g \in Ac!Ids /\ g \notin undone /\ row[g].name = row[g].nick
      BY <1>1 DEF Ac!AccountsSound, Ac!TitleIsOne, Ac!Ids
    <2>2. CASE g # j.id
      BY <1>1, <2>1, <2>2
    <2>3. CASE g = j.id
      <3>1. snap[s].id \in People
        BY <1>1 DEF ShapeInv
      <3>2. j.op \in {"groupAvatar", "rename"}
        BY <1>1, <2>3, <3>1, IdsApart DEF Shaped
      <3>3. CASE j.op = "rename"
        <4>1. j.cols = Ac!TitleColumns /\ j.new.name = j.new.nick
          BY <1>1, <3>3 DEF Shaped
        <4>2. r.name = j.new.name /\ r.nick = j.new.nick
          BY <1>2, <4>1 DEF Ac!TitleColumns, Ac!Columns
        <4> QED BY <1>1, <2>3, <4>1, <4>2
      <3>4. CASE j.op = "groupAvatar"
        <4>1. j.cols = Ac!ProfileColumns /\ j.asks = {"face"}
          BY <1>1, <3>4 DEF Shaped
        <4>2. r.name = row[g].name
          BY <1>2, <2>3, <4>1 DEF Ac!ProfileColumns, Ac!Columns
        <4>3. "nick" \in j.cols \ j.asks
          BY <4>1 DEF Ac!ProfileColumns
        <4>4. r.nick = row[g].nick
          BY <2>3, <4>3, UnaskedStay
        <4> QED BY <1>1, <2>1, <2>3, <4>2, <4>4
      <3> QED BY <3>2, <3>3, <3>4
    <2> QED BY <2>2, <2>3
  <1> QED BY <1>6, <1>7, <1>8, <1>9 DEF Ac!AccountsSound

LEMMA SoundApplied ==
  ASSUME AccountTypes, ShapeInv, WindowInv, KeptInv, Ac!AccountsSound, NEW s \in Sessions,
         NEW j, NEW a, NEW b, Applied(s, j, a, b)
  PROVE  Ac!AccountsSound'
  <1>1. /\ j = job[s] /\ Open(s) /\ cache'[j.id] = a /\ acked'[j.id] = b
        /\ \A t \in Sessions \ {s} : job'[t] = job[t]
        /\ \A id \in Ac!Ids \ {j.id} : cache'[id] = cache[id] /\ acked'[id] = acked[id]
        /\ UNCHANGED <<row, mixed, undone>> /\ doubtful' = doubtful \ ({j.id} \X j.asks)
    BY AppliedOpen
  <1>2. /\ j.id \in Ac!Ids /\ j.cols \subseteq Ac!Columns /\ j.asks \subseteq j.cols
        /\ Shaped(j, snap[s])
    BY <1>1, OpenJob
  <1>3. \A c \in Ac!Columns : /\ a[c] = IF c \in j.cols THEN j.new[c] ELSE cache[j.id][c]
                              /\ b[c] = IF c \in j.asks THEN j.new[c] ELSE acked[j.id][c]
    BY DEF Applied
  <1>4. j.id \notin mixed => \A c \in j.cols : row[j.id][c] = j.new[c]
    BY <1>1 DEF WindowInv
  <1>5. \A id, c : Ac!InWindow(id, c) => Ac!InWindow(id, c)' \/ (id = j.id /\ c \in j.cols)
    BY <1>1 DEF Ac!InWindow
  <1>10. \A id, c : <<id, c>> \notin doubtful' => <<id, c>> \notin doubtful \/ (id = j.id /\ c \in j.asks)
    BY <1>1
  <1>6. Ac!CacheFollowsRow'
    <2> SUFFICES ASSUME NEW id \in Ac!Ids, id \notin mixed, NEW c \in Ac!Columns,
                        ~ Ac!InWindow(id, c)', <<id, c>> \notin doubtful'
                 PROVE  cache'[id][c] = row[id][c]
      BY <1>1 DEF Ac!CacheFollowsRow
    <2>1. CASE id = j.id /\ c \in j.cols
      BY <1>1, <1>3, <1>4, <2>1
    <2>2. CASE ~ (id = j.id /\ c \in j.cols)
      <3>1. cache[id][c] = row[id][c]
        BY <1>2, <1>5, <1>10, <2>2 DEF Ac!AccountsSound, Ac!CacheFollowsRow
      <3> QED BY <1>1, <1>3, <2>2, <3>1
    <2> QED BY <2>1, <2>2
  <1>7. Ac!PasswordIsKept'
    <2> SUFFICES ASSUME NEW id \in Ac!Ids, id \notin mixed, ~ Ac!InWindow(id, "pw")', <<id, "pw">> \notin doubtful'
                 PROVE  row[id].pw = acked'[id].pw
      BY <1>1 DEF Ac!PasswordIsKept
    <2>1. "pw" \in Ac!Columns /\ ("pw" \in j.cols <=> "pw" \in j.asks)
      BY <1>2 DEF Ac!Columns, Shaped, Ac!ProfileColumns, Ac!TitleColumns
    <2>2. CASE id = j.id /\ "pw" \in j.cols
      BY <1>1, <1>3, <1>4, <2>1, <2>2
    <2>3. CASE ~ (id = j.id /\ "pw" \in j.cols)
      <3>1. row[id].pw = acked[id].pw
        BY <1>2, <1>5, <1>10, <2>3 DEF Ac!AccountsSound, Ac!PasswordIsKept
      <3> QED BY <1>1, <1>3, <2>1, <2>3, <3>1
    <2> QED BY <2>2, <2>3
  <1>8. Ac!ProfileIsKept'
    <2> SUFFICES ASSUME NEW id \in Ac!Ids, id \notin mixed \cup undone, NEW c \in Ac!Columns,
                        ~ Ac!InWindow(id, c)', <<id, c>> \notin doubtful'
                 PROVE  row[id][c] = acked'[id][c]
      BY <1>1 DEF Ac!ProfileIsKept
    <2>1. CASE id = j.id /\ c \in j.asks
      BY <1>1, <1>2, <1>3, <1>4, <2>1
    <2>2. CASE id = j.id /\ c \in j.cols \ j.asks
      <3>1. row[j.id][c] = acked[j.id][c]
        BY <1>1, <1>10, <2>2 DEF KeptInv, Clean
      <3> QED BY <1>1, <1>3, <2>2, <3>1
    <2>3. CASE ~ (id = j.id /\ c \in j.cols)
      <3>1. row[id][c] = acked[id][c]
        BY <1>2, <1>5, <1>10, <2>3 DEF Ac!AccountsSound, Ac!ProfileIsKept
      <3> QED BY <1>1, <1>2, <1>3, <2>3, <3>1
    <2> QED BY <2>1, <2>2, <2>3
  <1>9. Ac!TitleIsOne'
    BY <1>1 DEF Ac!AccountsSound, Ac!TitleIsOne
  <1> QED BY <1>6, <1>7, <1>8, <1>9 DEF Ac!AccountsSound

LEMMA SoundDoubted ==
  ASSUME AccountTypes, ShapeInv, WindowInv, Ac!AccountsSound, NEW s \in Sessions,
         NEW j, NEW b, Doubted(s, j, b)
  PROVE  Ac!AccountsSound'
  <1>1. /\ j = job[s] /\ Open(s) /\ acked'[j.id] = b
        /\ \A t \in Sessions \ {s} : job'[t] = job[t]
        /\ \A id \in Ac!Ids \ {j.id} : acked'[id] = acked[id]
        /\ UNCHANGED <<row, cache, mixed, undone>> /\ doubtful' = doubtful \cup ({j.id} \X j.cols)
    BY DoubtedOpen
  <1>2. j.id \in Ac!Ids /\ j.cols \subseteq Ac!Columns /\ j.asks \subseteq j.cols
    BY <1>1, OpenJob
  <1>3. \A id, c : Ac!InWindow(id, c) => Ac!InWindow(id, c)' \/ <<id, c>> \in doubtful'
    BY <1>1 DEF Ac!InWindow
  <1>4. \A id \in Ac!Ids : \A c \in Ac!Columns :
          <<id, c>> \notin doubtful' => <<id, c>> \notin doubtful /\ acked'[id][c] = acked[id][c]
    <2> SUFFICES ASSUME NEW id \in Ac!Ids, NEW c \in Ac!Columns, <<id, c>> \notin doubtful'
                 PROVE  <<id, c>> \notin doubtful /\ acked'[id][c] = acked[id][c]
      OBVIOUS
    <2>1. <<id, c>> \notin doubtful /\ ~ (id = j.id /\ c \in j.cols)
      BY <1>1
    <2>2. \A d \in Ac!Columns : d \notin j.asks => b[d] = acked[j.id][d]
      BY DEF Doubted
    <2> QED BY <1>1, <1>2, <2>1, <2>2
  <1>5. Ac!CacheFollowsRow'
    <2> SUFFICES ASSUME NEW id \in Ac!Ids, id \notin mixed', NEW c \in Ac!Columns,
                        ~ Ac!InWindow(id, c)', <<id, c>> \notin doubtful'
                 PROVE  cache'[id][c] = row'[id][c]
      BY DEF Ac!CacheFollowsRow
    <2>1. ~ Ac!InWindow(id, c) /\ <<id, c>> \notin doubtful
      BY <1>3, <1>4
    <2> QED BY <1>1, <2>1 DEF Ac!AccountsSound, Ac!CacheFollowsRow
  <1>6. Ac!PasswordIsKept'
    <2>1. "pw" \in Ac!Columns
      BY DEF Ac!Columns
    <2> SUFFICES ASSUME NEW id \in Ac!Ids, id \notin mixed', ~ Ac!InWindow(id, "pw")',
                        <<id, "pw">> \notin doubtful'
                 PROVE  row'[id].pw = acked'[id].pw
      BY DEF Ac!PasswordIsKept
    <2>2. ~ Ac!InWindow(id, "pw") /\ <<id, "pw">> \notin doubtful /\ acked'[id].pw = acked[id].pw
      BY <1>3, <1>4, <2>1
    <2> QED BY <1>1, <2>2 DEF Ac!AccountsSound, Ac!PasswordIsKept
  <1>7. Ac!ProfileIsKept'
    <2> SUFFICES ASSUME NEW id \in Ac!Ids, id \notin mixed' \cup undone', NEW c \in Ac!Columns,
                        ~ Ac!InWindow(id, c)', <<id, c>> \notin doubtful'
                 PROVE  row'[id][c] = acked'[id][c]
      BY DEF Ac!ProfileIsKept
    <2>1. ~ Ac!InWindow(id, c) /\ <<id, c>> \notin doubtful /\ acked'[id][c] = acked[id][c]
      BY <1>3, <1>4
    <2> QED BY <1>1, <2>1 DEF Ac!AccountsSound, Ac!ProfileIsKept
  <1>8. Ac!TitleIsOne'
    BY <1>1 DEF Ac!AccountsSound, Ac!TitleIsOne
  <1> QED BY <1>5, <1>6, <1>7, <1>8 DEF Ac!AccountsSound

LEMMA SoundRestart ==
  ASSUME AccountTypes, ShapeInv, KeptInv, Ac!AccountsSound, Ac!Restart
  PROVE  Ac!AccountsSound'
  <1>1. cache' = row /\ UNCHANGED <<row, mixed, undone>>
    BY RestartIdle
  <1>2. \A id \in Ac!Ids : \A c \in Ac!Columns :
          acked'[id][c] = IF c \in Ac!Untold(id) THEN row[id][c] ELSE acked[id][c]
    BY Restarts
  <1>3. \A id, c : c \in Ac!Columns => (c \in Ac!Untold(id) <=>
          \/ <<id, c>> \in doubtful
          \/ \E s \in Sessions : Open(s) /\ job[s].id = id /\ c \in job[s].asks)
    BY DEF Ac!Untold, Open
  <1>4. Ac!PasswordIsKept'
    <2> SUFFICES ASSUME NEW id \in Ac!Ids, id \notin mixed PROVE row[id].pw = acked'[id].pw
      BY <1>1 DEF Ac!PasswordIsKept
    <2>1. "pw" \in Ac!Columns
      BY DEF Ac!Columns
    <2>2. CASE "pw" \in Ac!Untold(id)
      BY <1>2, <2>1, <2>2
    <2>3. CASE "pw" \notin Ac!Untold(id)
      <3>1. ~ Ac!InWindow(id, "pw")
        <4> SUFFICES ASSUME NEW s \in Sessions, Open(s), job[s].id = id, "pw" \in job[s].cols
                     PROVE  FALSE
          BY DEF Ac!InWindow, Open
        <4>1. "pw" \in job[s].asks
          BY OpenJob DEF Shaped, Ac!ProfileColumns, Ac!TitleColumns
        <4> QED BY <1>3, <2>1, <2>3, <4>1
      <3>2. row[id].pw = acked[id].pw
        BY <1>3, <2>1, <2>3, <3>1 DEF Ac!AccountsSound, Ac!PasswordIsKept
      <3> QED BY <1>2, <2>1, <2>3, <3>2
    <2> QED BY <2>2, <2>3
  <1>5. Ac!ProfileIsKept'
    <2> SUFFICES ASSUME NEW id \in Ac!Ids, id \notin mixed \cup undone, NEW c \in Ac!Columns
                 PROVE  row[id][c] = acked'[id][c]
      BY <1>1 DEF Ac!ProfileIsKept
    <2>1. CASE c \in Ac!Untold(id)
      BY <1>2, <2>1
    <2>2. CASE c \notin Ac!Untold(id)
      <3>1. <<id, c>> \notin doubtful
        BY <1>3, <2>2
      <3>2. CASE Ac!InWindow(id, c)
        <4>1. PICK s \in Sessions : Open(s) /\ job[s].id = id /\ c \in job[s].cols
          BY <3>2 DEF Ac!InWindow, Open
        <4>2. c \notin job[s].asks
          BY <1>3, <2>2, <4>1
        <4>3. row[id][c] = acked[id][c]
          BY <3>1, <4>1, <4>2 DEF KeptInv, Clean
        <4> QED BY <1>2, <2>2, <4>3
      <3>3. CASE ~ Ac!InWindow(id, c)
        <4>1. row[id][c] = acked[id][c]
          BY <3>1, <3>3 DEF Ac!AccountsSound, Ac!ProfileIsKept
        <4> QED BY <1>2, <2>2, <4>1
      <3> QED BY <3>2, <3>3
    <2> QED BY <2>1, <2>2
  <1>6. Ac!CacheFollowsRow' /\ Ac!TitleIsOne'
    BY <1>1 DEF Ac!AccountsSound, Ac!CacheFollowsRow, Ac!TitleIsOne
  <1> QED BY <1>4, <1>5, <1>6 DEF Ac!AccountsSound

\* Each step keeps the inductive invariant.
LEMMA AccountsStep == AccountsInv /\ [Ac!Next]_accVars => AccountsInv'
  <1> SUFFICES ASSUME AccountsInv, [Ac!Next]_accVars PROVE AccountsInv'
    OBVIOUS
  <1>1. AccountTypes /\ ShapeInv /\ WindowInv /\ CopyInv /\ KeptInv /\ Ac!AccountsSound
    BY DEF AccountsInv
  <1>2. Ac!CacheFollowsRow /\ Ac!ProfileIsKept
    BY <1>1 DEF Ac!AccountsSound
  <1>3. AccountTypes' /\ ShapeInv' /\ WindowInv'
    BY <1>1, ShapeStep, WindowStep
  <1>4. CopyInv' /\ KeptInv'
    BY <1>1, <1>2, CopyStep, KeptStep
  <1>5. Ac!AccountsSound'
    <2>1. CASE UNCHANGED accVars
      BY <1>1, <2>1 DEF accVars, Ac!AccountsSound, Ac!CacheFollowsRow, Ac!PasswordIsKept,
                        Ac!ProfileIsKept, Ac!TitleIsOne, Ac!InWindow
    <2> QED BY <1>1, <2>1, AccountSteps, QuietSteps, SoundQuiet, SoundExecuted, SoundApplied,
               SoundDoubted, SoundRestart
  <1> QED BY <1>3, <1>4, <1>5 DEF AccountsInv

\* The server starts with the cache filled from the table.
LEMMA AccountsInit == Ac!Init => AccountsInv
  <1> SUFFICES ASSUME Ac!Init PROVE AccountsInv
    OBVIOUS
  <1>1. \A id \in Ac!Ids : Ac!Account(id) \in Accts
    BY DEF Ac!Account, Accts, Passwords
  <1>2. AccountTypes
    BY <1>1 DEF Ac!Init, AccountTypes
  <1>3. /\ \A s \in Sessions : job[s] = Ac!NoJob /\ snap[s] = Ac!NoUser /\ ~ Open(s) /\ ~ Early(s)
        /\ cache = row /\ acked = row
    BY DEF Ac!Init, Open, Early, Ac!NoJob
  <1>4. ShapeInv
    BY <1>3 DEF Ac!Init, ShapeInv, Ac!Account
  <1>5. WindowInv /\ KeptInv
    BY <1>3 DEF WindowInv, KeptInv
  <1>6. CopyInv
    <2>1. \A id \in Ac!Ids : row[id].ver \in Nat
      BY <1>2 DEF AccountTypes, Accts
    <2> QED BY <1>3, <2>1 DEF CopyInv, Copy
  <1>7. Ac!AccountsSound
    <2>1. Ac!TitleIsOne
      BY DEF Ac!Init, Ac!TitleIsOne, Ac!Account, Ac!Ids
    <2> QED BY <1>3, <2>1 DEF Ac!AccountsSound, Ac!CacheFollowsRow, Ac!PasswordIsKept,
                              Ac!ProfileIsKept
  <1> QED BY <1>2, <1>4, <1>5, <1>6, <1>7 DEF AccountsInv

\* What UpdateUserInfo, UpdatePassword, the avatar handlers and RenameGroup told
\* their clients is stored stays, in t_user and in the cache, through every
\* interleaving, failed statement and restart; the exceptions are requests that
\* crossed, requests computed from an older copy, and columns whose UPDATE ran
\* and was reported failed.
THEOREM AccountsStand == Spec => []AccountsSound
  <1> DEFINE Inv == part = "accounts" => AccountsInv
  <1>1. Init => Inv
    BY AccountsInit DEF Init
  <1>2. Inv /\ [Next]_allVars => Inv'
    <2> SUFFICES ASSUME Inv, [Next]_allVars, part' = "accounts" PROVE AccountsInv'
      OBVIOUS
    <2>1. part = "accounts" /\ [Ac!Next]_accVars
      BY DEF Next, Steps, allVars
    <2> QED BY <2>1, AccountsStep
  <1>3. Inv => AccountsSound
    BY DEF AccountsSound, AccountsInv
  <1> QED BY <1>1, <1>2, <1>3, PTL DEF Spec
-----------------------------------------------------------------------------
(* ChatHistory: the state *)

\* A row of t_chatmsg has two parties and keeps the time its sender gave it.
RowOk(r) ==
  /\ r.from # r.to /\ r.from \in Friends \cup {Me}
  /\ r.ts > 0 => r.time = r.ts

\* The answer g shows the end of the conversation, in the table T.
Shown(g) == {g.msgs[i].row : i \in DOMAIN g.msgs}
PartiesAsked(g) == Hi!PartiesOf([from |-> Me, to |-> g.target])
Conversation(T, g) == {r \in 1 .. g.at : Hi!PartiesOf(T[r]) = PartiesAsked(g)}
Newest(T, g) ==
  /\ Shown(g) \subseteq Conversation(T, g)
  /\ Cardinality(Shown(g)) = Len(g.msgs)
  /\ \A r \in Conversation(T, g) \ Shown(g) :
       /\ Len(g.msgs) = HistoryLimit
       /\ \A k \in Shown(g) : T[k].time >= T[r].time
  /\ \A i \in DOMAIN g.msgs : T[g.msgs[i].row].ts > 0 => g.msgs[i].timestamp = T[g.msgs[i].row].ts

\* The number of an answer, when the client has sent n frames.
Told(g, n) ==
  g.kind # "none" =>
    /\ g.of \in Nat /\ g.seq \in Nat
    /\ g.kind = "agent" => g.of <= g.seq /\ g.seq <= n
    /\ g.kind \notin {"agent", "stray"} => g.seq = g.of

\* A session's number is that of its last frame, and its questions are no later; a handler is
\* under way only on an open connection, for the last frame.
SessionOk ==
  /\ sentFrames \in Nat /\ session \in Nat /\ mSeq \in 0 .. sentFrames
  /\ wanted \in Friends \cup ChatGroups \cup {Hi!NoTarget}
  /\ wanted # Hi!NoTarget => up /\ mSeq = sentFrames
  /\ \A a \in asking : /\ a.frame \in 1 .. sentFrames /\ a.session \in 0 .. session
                       /\ a.session = session => a.frame <= mSeq

HistInv ==
  /\ DOMAIN chatTable = 1 .. Len(chatTable) /\ Len(chatTable) \in Nat
  /\ \E S : chatTable \in Seq(S)
  /\ \A k \in DOMAIN chatTable : RowOk(chatTable[k])
  /\ SessionOk
  /\ gotten.kind = "history" => gotten.at \in 0 .. Len(chatTable) /\ Newest(chatTable, gotten)
  /\ Told(gotten, sentFrames)

-----------------------------------------------------------------------------
(* ChatHistory: the query *)

\* What an answer shows stays the end of its conversation when rows are added.
LEMMA NewestStays ==
  ASSUME NEW T, NEW V, NEW g, Newest(T, g), \A k \in 1 .. g.at : V[k] = T[k]
  PROVE  Newest(V, g)
  <1>1. Conversation(V, g) = Conversation(T, g)
    BY DEF Conversation
  <1>2. Shown(g) \subseteq 1 .. g.at /\ Conversation(T, g) \subseteq 1 .. g.at
    BY DEF Newest, Conversation
  <1>3. \A i \in DOMAIN g.msgs : g.msgs[i].row \in 1 .. g.at
    BY <1>2 DEF Shown
  <1> QED BY <1>1, <1>2, <1>3 DEF Newest

\* The WHERE clause tells the conversations apart.
LEMMA WhereClause ==
  ASSUME NEW r, RowOk(r), NEW t \in Friends \cup ChatGroups
  PROVE  Hi!Between(t, r) <=> Hi!PartiesOf(r) = Hi!PartiesOf([from |-> Me, to |-> t])
  <1>1. [from |-> Me, to |-> t].from = Me /\ [from |-> Me, to |-> t].to = t
    OBVIOUS
  <1>2. CASE t \in ChatGroups
    <2>1. Hi!PartiesOf([from |-> Me, to |-> t]) = {t}
      BY <1>1, <1>2 DEF Hi!PartiesOf
    <2>2. r.to \in ChatGroups => Hi!PartiesOf(r) = {r.to}
      BY DEF Hi!PartiesOf
    <2>3. r.to \notin ChatGroups => Hi!PartiesOf(r) = {r.from, r.to}
      BY DEF Hi!PartiesOf
    <2>4. {r.from, r.to} # {t}
      BY DEF RowOk
    <2>5. {r.to} = {t} <=> r.to = t
      OBVIOUS
    <2> QED BY <1>2, <2>1, <2>2, <2>3, <2>4, <2>5 DEF Hi!Between
  <1>3. CASE t \notin ChatGroups
    <2>1. Hi!PartiesOf([from |-> Me, to |-> t]) = {Me, t}
      BY <1>1, <1>3 DEF Hi!PartiesOf
    <2>2. Me \notin ChatGroups
      BY HistorySettings
    <2>3. CASE r.to \in ChatGroups
      <3>1. Hi!PartiesOf(r) = {r.to}
        BY <2>3 DEF Hi!PartiesOf
      <3>2. {r.to} # {Me, t} /\ r.to # t /\ r.to # Me
        BY <1>3, <2>2, <2>3
      <3> QED BY <1>3, <2>1, <3>1, <3>2 DEF Hi!Between
    <2>4. CASE r.to \notin ChatGroups
      <3>1. Hi!PartiesOf(r) = {r.from, r.to}
        BY <2>4 DEF Hi!PartiesOf
      <3>2. {r.from, r.to} = {Me, t} <=> (r.from = Me /\ r.to = t) \/ (r.from = t /\ r.to = Me)
        BY DEF RowOk
      <3> QED BY <1>3, <2>1, <3>1, <3>2 DEF Hi!Between
    <2> QED BY <2>3, <2>4
  <1> QED BY <1>2, <1>3

\* The answer to a request is the end of its conversation.
LEMMA QueryIsNewest ==
  ASSUME HistInv, wanted # Hi!NoTarget, NEW q \in Hi!Selected(wanted), NEW g,
         g = [kind |-> "history", seq |-> mSeq, of |-> sentFrames, target |-> wanted,
              at |-> Len(chatTable),
              msgs |-> [i \in DOMAIN q |-> [row |-> q[i], timestamp |-> chatTable[q[i]].time]]]
  PROVE  /\ g.kind = "history" /\ g.at = Len(chatTable) /\ g.seq = mSeq /\ g.of = sentFrames
         /\ Newest(chatTable, g)
  <1>1. PICK R : R = {i \in DOMAIN chatTable : Hi!Between(wanted, chatTable[i])}
    OBVIOUS
  <1>2. PICK n : n = IF Cardinality(R) < HistoryLimit THEN Cardinality(R) ELSE HistoryLimit
    OBVIOUS
  <1>3. IsFiniteSet(R) /\ Cardinality(R) \in Nat /\ R \subseteq 1 .. Len(chatTable)
    <2>1. R \in SUBSET (1 .. Len(chatTable)) /\ Len(chatTable) \in Nat
      BY <1>1 DEF HistInv
    <2>2. IsFiniteSet(1 .. Len(chatTable))
      BY <2>1, FS_Interval
    <2>3. IsFiniteSet(R)
      BY <2>1, <2>2, FS_Subset, Zenon
    <2> QED BY <2>1, <2>3, FS_CardinalityType, Zenon
  <1>4. n \in Nat /\ n <= HistoryLimit /\ (n # HistoryLimit => n = Cardinality(R))
    BY <1>2, <1>3, HistorySettings
  <1>5. /\ q \in [1 .. n -> R]
        /\ \A i, j \in 1 .. n : i < j => q[i] # q[j] /\ Hi!Before(q[i], q[j])
        /\ \A i \in 1 .. n, r \in R : (\E j \in 1 .. n : q[j] = r) \/ Hi!Before(q[i], r)
    <2>1. \A S : Hi!Cardinality(S) = Cardinality(S)
      BY DEF Hi!Cardinality, Cardinality
    <2> QED BY <1>1, <1>2, <2>1 DEF Hi!Selected
  <1>6. /\ g.kind = "history" /\ g.at = Len(chatTable) /\ g.seq = mSeq /\ g.of = sentFrames
        /\ g.target = wanted
        /\ g.msgs = [i \in DOMAIN q |-> [row |-> q[i], timestamp |-> chatTable[q[i]].time]]
    OBVIOUS
  <1>7. DOMAIN g.msgs = 1 .. n /\ \A i \in 1 .. n : g.msgs[i].row = q[i]
                                                   /\ g.msgs[i].timestamp = chatTable[q[i]].time
    BY <1>5, <1>6
  <1>8. Len(g.msgs) = n
    BY <1>4, <1>7
  <1>9. Shown(g) = {q[i] : i \in 1 .. n}
    BY <1>7 DEF Shown
  <1>10. Conversation(chatTable, g) = R
    <2>1. wanted \in Friends \cup ChatGroups
      BY DEF HistInv, SessionOk
    <2>2. \A r \in 1 .. Len(chatTable) :
            Hi!Between(wanted, chatTable[r]) <=> Hi!PartiesOf(chatTable[r]) = PartiesAsked(g)
      BY <1>6, <2>1, WhereClause DEF HistInv, PartiesAsked
    <2>3. DOMAIN chatTable = 1 .. Len(chatTable)
      BY DEF HistInv
    <2> QED BY <1>1, <1>6, <2>2, <2>3 DEF Conversation
  <1>11. Cardinality(Shown(g)) = n
    <2> DEFINE S == {q[i] : i \in 1 .. n}
    <2>1. q \in [1 .. n -> S]
      BY <1>5
    <2>2. \A i, j \in 1 .. n : q[i] = q[j] => i = j
      BY <1>4, <1>5
    <2>3. \A x \in S : \E i \in 1 .. n : q[i] = x
      OBVIOUS
    <2>4. q \in Bijection(1 .. n, S)
      BY <2>1, <2>2, <2>3 DEF Bijection, Injection, Surjection, IsInjective
    <2>5. ExistsBijection(1 .. n, S)
      BY <2>4, Zenon DEF ExistsBijection
    <2> HIDE DEF S
    <2>6. Cardinality(S) = n
      BY <1>4, <2>5, FS_CountingElements, Zenon
    <2> QED BY <1>9, <2>6 DEF S
  <1>12. Shown(g) \subseteq R
    BY <1>5, <1>9
  <1>13. ASSUME NEW r \in R \ Shown(g)
         PROVE  Len(g.msgs) = HistoryLimit /\ \A k \in Shown(g) : chatTable[k].time >= chatTable[r].time
    <2>1. n = HistoryLimit
      <3> SUFFICES ASSUME n # HistoryLimit PROVE FALSE
        OBVIOUS
      <3>1. Cardinality(R) = Cardinality(Shown(g))
        BY <1>4, <1>11
      <3>2. Shown(g) = R
        BY <1>3, <1>12, <3>1, FS_Subset, Zenon
      <3> QED BY <1>13, <3>2
    <2>2. \A k \in Shown(g) : chatTable[k].time >= chatTable[r].time
      BY <1>5, <1>9, <1>13 DEF Hi!Before
    <2> QED BY <1>8, <2>1, <2>2
  <1>14. \A i \in DOMAIN g.msgs :
           chatTable[g.msgs[i].row].ts > 0 => g.msgs[i].timestamp = chatTable[g.msgs[i].row].ts
    <2>1. \A i \in 1 .. n : RowOk(chatTable[q[i]])
      BY <1>1, <1>5 DEF HistInv
    <2> QED BY <1>7, <2>1 DEF RowOk
  <1>15. Newest(chatTable, g)
    BY <1>8, <1>10, <1>11, <1>12, <1>13, <1>14 DEF Newest
  <1> QED BY <1>6, <1>15

-----------------------------------------------------------------------------
(* ChatHistory: one step preserves the invariant *)

\* A row is written, or none.
LEMMA SavedRow ==
  ASSUME HistInv, chatTable' = chatTable \/ \E from \in Friends \cup {Me} : \E to, ts : Hi!SaveChatMsg(from, to, ts)
  PROVE  /\ DOMAIN chatTable' = 1 .. Len(chatTable') /\ Len(chatTable') \in Nat
         /\ \E S : chatTable' \in Seq(S)
         /\ \A k \in DOMAIN chatTable' : RowOk(chatTable'[k])
         /\ Len(chatTable) <= Len(chatTable')
         /\ \A k \in 1 .. Len(chatTable) : chatTable'[k] = chatTable[k]
  <1>1. CASE chatTable' = chatTable
    BY <1>1 DEF HistInv
  <1>2. ASSUME NEW from \in Friends \cup {Me}, NEW to, NEW ts, Hi!SaveChatMsg(from, to, ts)
        PROVE  /\ DOMAIN chatTable' = 1 .. Len(chatTable') /\ Len(chatTable') \in Nat
               /\ \E S : chatTable' \in Seq(S)
               /\ \A k \in DOMAIN chatTable' : RowOk(chatTable'[k])
               /\ Len(chatTable) <= Len(chatTable')
               /\ \A k \in 1 .. Len(chatTable) : chatTable'[k] = chatTable[k]
    <2>1. PICK r : r = [from |-> from, to |-> to, ts |-> ts, time |-> Hi!Dated(ts)]
      OBVIOUS
    <2>2. chatTable' = Append(chatTable, r) /\ from # to
      BY <1>2, <2>1 DEF Hi!SaveChatMsg
    <2>3. RowOk(r)
      BY <2>1, <2>2 DEF RowOk, Hi!Dated
    <2>4. PICK S : chatTable \in Seq(S)
      BY DEF HistInv
    <2>5. chatTable \in Seq(S \cup {r}) /\ Len(chatTable) \in Nat
      BY <2>4
    <2>6. /\ chatTable' \in Seq(S \cup {r}) /\ Len(chatTable') = Len(chatTable) + 1
          /\ DOMAIN chatTable' = 1 .. Len(chatTable')
          /\ \A k \in 1 .. Len(chatTable) : chatTable'[k] = chatTable[k]
          /\ chatTable'[Len(chatTable) + 1] = r
      BY <2>2, <2>5
    <2>7. \A k \in DOMAIN chatTable' : RowOk(chatTable'[k])
      BY <2>3, <2>5, <2>6 DEF HistInv
    <2> QED BY <2>5, <2>6, <2>7
  <1> QED BY <1>1, <1>2

\* The steps that leave the last answer.
LEMMA AnswerStays ==
  ASSUME HistInv, chatTable' = chatTable \/ \E from \in Friends \cup {Me} : \E to, ts : Hi!SaveChatMsg(from, to, ts),
         UNCHANGED gotten, sentFrames <= sentFrames', SessionOk'
  PROVE  HistInv'
  <1>1. gotten'.kind = "history" => gotten'.at \in 0 .. Len(chatTable') /\ Newest(chatTable', gotten')
    <2> SUFFICES ASSUME gotten.kind = "history"
                 PROVE  gotten.at \in 0 .. Len(chatTable') /\ Newest(chatTable', gotten)
      OBVIOUS
    <2>1. gotten.at \in 0 .. Len(chatTable) /\ Newest(chatTable, gotten) /\ Len(chatTable) \in Nat
      BY DEF HistInv
    <2>2. \A k \in 1 .. gotten.at : chatTable'[k] = chatTable[k]
      BY <2>1, SavedRow
    <2>3. Newest(chatTable', gotten)
      BY <2>1, <2>2, NewestStays
    <2> QED BY <2>1, <2>3, SavedRow
  <1>2. Told(gotten', sentFrames')
    BY DEF Told, HistInv, SessionOk
  <1> QED BY <1>1, <1>2, SavedRow DEF HistInv

\* The steps that answer, but for the history.
LEMMA Answered ==
  ASSUME HistInv, UNCHANGED chatTable, NEW kind \in {"heartbeat", "failed", "agent", "stray"},
         NEW seq \in Nat, NEW of \in Nat, gotten' = Hi!Answer(kind, seq, of),
         kind = "agent" => of <= seq /\ seq <= sentFrames',
         kind \in {"heartbeat", "failed"} => seq = of,
         SessionOk'
  PROVE  HistInv'
  <1>1. gotten'.kind = kind /\ gotten'.seq = seq /\ gotten'.of = of /\ kind # "history"
    BY DEF Hi!Answer
  <1>2. Told(gotten', sentFrames')
    BY <1>1 DEF Told
  <1> QED BY <1>1, <1>2 DEF HistInv

\* A frame comes in: its number is the session's.
LEMMA Received ==
  ASSUME SessionOk, Hi!OnMessageReceived, UNCHANGED session,
         \A a \in asking' \ asking : a = [frame |-> sentFrames', session |-> session],
         UNCHANGED up, wanted' \in Friends \cup ChatGroups \cup {Hi!NoTarget}
  PROVE  SessionOk' /\ sentFrames' \in Nat /\ mSeq' = sentFrames' /\ sentFrames <= sentFrames'
  <1>1. /\ sentFrames' = sentFrames + 1 /\ mSeq' = sentFrames' /\ sentFrames \in Nat
        /\ sentFrames' \in Nat /\ sentFrames <= sentFrames' /\ up'
    BY DEF Hi!OnMessageReceived, Hi!SeqOf, SessionOk
  <1>2. ASSUME NEW a \in asking'
        PROVE  /\ a.frame \in 1 .. sentFrames' /\ a.session \in 0 .. session
               /\ a.session = session => a.frame <= mSeq'
    <2>1. CASE a \in asking
      BY <1>1, <2>1 DEF SessionOk
    <2>2. CASE a \notin asking
      <3>1. a.frame = sentFrames' /\ a.session = session
        BY <1>2, <2>2
      <3> QED BY <1>1, <3>1 DEF SessionOk
    <2> QED BY <2>1, <2>2
  <1> QED BY <1>1, <1>2 DEF SessionOk

LEMMA HistStep ==
  ASSUME HistInv, Hi!Next \/ UNCHANGED histVars
  PROVE  HistInv'
  <1> USE DEF Hi!Targets, Hi!Chatters
  <1>1. /\ SessionOk /\ sentFrames \in Nat /\ session \in Nat /\ mSeq \in 0 .. sentFrames
        /\ wanted \in Friends \cup ChatGroups \cup {Hi!NoTarget}
    BY DEF HistInv, SessionOk
  <1>2. ASSUME UNCHANGED <<session, mSeq, sentFrames, wanted>>, asking' \subseteq asking,
               UNCHANGED up \/ wanted = Hi!NoTarget
        PROVE  SessionOk' /\ sentFrames <= sentFrames'
    BY <1>1, <1>2 DEF SessionOk
  <1>3. CASE UNCHANGED histVars
    <2>1. UNCHANGED <<chatTable, up, session, mSeq, sentFrames, wanted, asking, gotten>>
      BY <1>3 DEF histVars
    <2> QED BY <1>2, <2>1, AnswerStays
  <1>4. CASE Hi!OnHeartbeat
    <2>1. /\ gotten' = Hi!Answer("heartbeat", mSeq', sentFrames') /\ Hi!OnMessageReceived
          /\ UNCHANGED <<chatTable, wanted, asking, up, session>>
      BY <1>4 DEF Hi!OnHeartbeat
    <2>2. SessionOk' /\ sentFrames' \in Nat /\ mSeq' = sentFrames'
      BY <1>1, <2>1, Received
    <2>3. PICK kind : kind = "heartbeat"
      OBVIOUS
    <2>4. kind \in {"heartbeat", "failed", "agent", "stray"} /\ kind # "agent"
      BY <2>3
    <2> QED BY <2>1, <2>2, <2>3, <2>4, Answered
  <1>5. CASE \E t \in Hi!Targets : Hi!OnGetChatHistory(t)
    <2>1. /\ UNCHANGED <<chatTable, asking, gotten, up, session>> /\ wanted' \in Friends \cup ChatGroups
          /\ Hi!OnMessageReceived
      BY <1>5 DEF Hi!OnGetChatHistory
    <2> QED BY <1>1, <2>1, Received, AnswerStays
  <1>6. CASE Hi!AskAgent
    <2>1. /\ UNCHANGED <<chatTable, wanted, gotten, up, session>> /\ Hi!OnMessageReceived
          /\ asking' = asking \cup {[frame |-> sentFrames', session |-> session]}
      BY <1>6 DEF Hi!AskAgent
    <2>2. \A a \in asking' \ asking : a = [frame |-> sentFrames', session |-> session]
      BY <2>1
    <2> QED BY <1>1, <2>1, <2>2, Received, AnswerStays
  <1>7. CASE Hi!OnClose \/ Hi!DatabaseTick
    <2>1. /\ UNCHANGED <<chatTable, session, mSeq, sentFrames, wanted, asking, gotten>>
          /\ UNCHANGED up \/ wanted = Hi!NoTarget
      BY <1>7 DEF Hi!OnClose, Hi!DatabaseTick
    <2> QED BY <1>2, <2>1, AnswerStays
  <1>8. CASE \E t \in Hi!Targets, ts \in Dates : Hi!OnChat(t, ts)
    <2>1. PICK t \in Hi!Targets, ts \in Dates : Hi!OnChat(t, ts)
      BY <1>8
    <2>2. /\ Hi!SaveChatMsg(Me, t, ts) \/ UNCHANGED chatTable
          /\ UNCHANGED <<wanted, asking, gotten, up, session>> /\ Hi!OnMessageReceived
      BY <2>1 DEF Hi!OnChat
    <2> QED BY <1>1, <2>2, Received, AnswerStays
  <1>9. CASE \E s \in Friends, t \in Hi!Chatters \cup ChatGroups, ts \in Dates : Hi!SavedElsewhere(s, t, ts)
    <2>1. PICK s \in Friends, t \in Hi!Chatters \cup ChatGroups, ts \in Dates : Hi!SavedElsewhere(s, t, ts)
      BY <1>9
    <2>2. Hi!SaveChatMsg(s, t, ts) /\ UNCHANGED <<up, session, mSeq, sentFrames, wanted, asking, gotten>>
      BY <2>1 DEF Hi!SavedElsewhere
    <2> QED BY <1>2, <2>2, AnswerStays
  <1>10. CASE Hi!GetChatHistory
    <2>1. PICK q \in Hi!Selected(wanted) :
            gotten' = [kind |-> "history", seq |-> mSeq, of |-> sentFrames, target |-> wanted,
                       at |-> Len(chatTable),
                       msgs |-> [i \in DOMAIN q |-> [row |-> q[i], timestamp |-> chatTable[q[i]].time]]]
      BY <1>10 DEF Hi!GetChatHistory
    <2>2. /\ wanted # Hi!NoTarget /\ wanted' = Hi!NoTarget
          /\ UNCHANGED <<chatTable, session, mSeq, sentFrames, asking>>
      BY <1>10 DEF Hi!GetChatHistory
    <2>3. /\ gotten'.kind = "history" /\ gotten'.at = Len(chatTable) /\ gotten'.seq = mSeq
          /\ gotten'.of = sentFrames /\ Newest(chatTable, gotten')
      BY <2>1, <2>2, QueryIsNewest
    <2>4. Told(gotten', sentFrames')
      BY <1>1, <2>2, <2>3 DEF Told, SessionOk
    <2>5. SessionOk'
      BY <1>1, <2>2 DEF SessionOk
    <2> QED BY <1>1, <2>2, <2>3, <2>4, <2>5 DEF HistInv
  <1>11. CASE Hi!GetChatHistoryFails
    <2>1. /\ gotten' = Hi!Answer("failed", mSeq, sentFrames) /\ wanted' = Hi!NoTarget
          /\ wanted # Hi!NoTarget /\ UNCHANGED <<chatTable, session, mSeq, sentFrames, asking>>
      BY <1>11 DEF Hi!GetChatHistoryFails
    <2>2. SessionOk' /\ mSeq = sentFrames
      BY <1>1, <2>1 DEF SessionOk
    <2>3. PICK kind : kind = "failed"
      OBVIOUS
    <2>4. kind \in {"heartbeat", "failed", "agent", "stray"} /\ kind # "agent"
      BY <2>3
    <2> QED BY <1>1, <2>1, <2>2, <2>3, <2>4, Answered
  <1>12. ASSUME NEW a \in asking, Hi!AgentReplies(a) PROVE HistInv'
    <2>1. /\ asking' \subseteq asking /\ UNCHANGED <<chatTable, up, session, mSeq, sentFrames, wanted>>
          /\ gotten' = Hi!Answer("agent", mSeq, a.frame) /\ a.session = session
      BY <1>12 DEF Hi!AgentReplies, Hi!Alive
    <2>2. a.frame \in Nat /\ a.frame <= mSeq /\ mSeq \in Nat /\ mSeq <= sentFrames'
      BY <1>1, <2>1 DEF SessionOk
    <2>3. PICK kind : kind = "agent"
      OBVIOUS
    <2>4. /\ kind \in {"heartbeat", "failed", "agent", "stray"}
          /\ kind \notin {"heartbeat", "failed"}
      BY <2>3
    <2> QED BY <1>2, <2>1, <2>2, <2>3, <2>4, Answered
  <1>13. ASSUME NEW a \in asking, Hi!FreedReplyIsLost(a) PROVE HistInv'
    <2>1. /\ asking' \subseteq asking
          /\ UNCHANGED <<chatTable, up, session, mSeq, sentFrames, wanted, gotten>>
      BY <1>13 DEF Hi!FreedReplyIsLost
    <2> QED BY <1>2, <2>1, AnswerStays
  <1>14. ASSUME NEW a \in asking, Hi!FreedReplyCrashes(a) PROVE HistInv'
    <2>1. /\ asking' = {} /\ wanted' = Hi!NoTarget
          /\ UNCHANGED <<chatTable, session, mSeq, sentFrames, gotten>>
      BY <1>14 DEF Hi!FreedReplyCrashes
    <2>2. SessionOk' /\ sentFrames <= sentFrames'
      BY <1>1, <2>1 DEF SessionOk
    <2> QED BY <2>1, <2>2, AnswerStays
  <1>15. ASSUME NEW n \in 0 .. MaxFrames, Hi!FreedReplyStrays(n) PROVE HistInv'
    <2>1. /\ asking' \subseteq asking /\ UNCHANGED <<chatTable, up, session, mSeq, sentFrames, wanted>>
          /\ gotten' = Hi!Answer("stray", mSeq, n)
      BY <1>15 DEF Hi!FreedReplyStrays
    <2>2. n \in Nat /\ mSeq \in Nat
      BY <1>1
    <2>3. PICK kind : kind = "stray"
      OBVIOUS
    <2>4. /\ kind \in {"heartbeat", "failed", "agent", "stray"}
          /\ kind \notin {"heartbeat", "failed"} /\ kind # "agent"
      BY <2>3
    <2> QED BY <1>2, <2>1, <2>2, <2>3, <2>4, Answered
  <1>16. CASE Hi!OnConnection
    <2>1. /\ session' = session + 1 /\ mSeq' = 0 /\ ~ up
          /\ UNCHANGED <<chatTable, sentFrames, wanted, asking, gotten>>
      BY <1>16 DEF Hi!OnConnection
    <2>2. wanted = Hi!NoTarget
      BY <1>1, <2>1 DEF SessionOk
    <2>3. \A a \in asking : a.frame \in 1 .. sentFrames /\ a.session \in 0 .. session' /\ a.session # session'
      BY <1>1, <2>1 DEF SessionOk
    <2>4. SessionOk' /\ sentFrames <= sentFrames'
      BY <1>1, <2>1, <2>2, <2>3 DEF SessionOk
    <2> QED BY <2>1, <2>4, AnswerStays
  <1> QED BY <1>3, <1>4, <1>5, <1>6, <1>7, <1>8, <1>9, <1>10, <1>11, <1>12, <1>13, <1>14, <1>15, <1>16
          DEF Hi!Next

\* The history a client gets is the end of the conversation it asked for, for any users, groups,
\* messages, limit and connections, and a handler's answer bears its frame's number; the
\* assistant's bears its question's or a later one while its session lives: GetChatHistory, the
\* handlers' answers and the callback of the assistant's thread, that of a freed session included.
THEOREM HistoryStands == Spec => []HistorySound
  <1> DEFINE Inv == part = "history" => HistInv
  <1>1. Init => Inv
    <2> SUFFICES ASSUME Hi!Init PROVE HistInv
      BY DEF Init
    <2>1. gotten.kind = "none" /\ chatTable = <<>> /\ chatTable \in Seq({})
      BY DEF Hi!Init
    <2> QED BY <2>1 DEF Hi!Init, HistInv, SessionOk, Told
  <1>2. Inv /\ [Next]_allVars => Inv'
    <2> SUFFICES ASSUME Inv, [Next]_allVars, part' = "history" PROVE HistInv'
      OBVIOUS
    <2>1. part = "history" /\ (Hi!Next \/ UNCHANGED histVars)
      BY DEF Next, Steps, allVars
    <2> QED BY <2>1, HistStep
  <1>3. Inv => HistorySound
    <2> SUFFICES ASSUME HistInv PROVE Hi!HistorySound
      BY DEF HistorySound
    <2>1. \A S : Hi!Cardinality(S) = Cardinality(S)
      BY DEF Hi!Cardinality, Cardinality
    <2>2. Hi!HistoryIsNewest
      BY <2>1 DEF HistInv, Newest, Shown, Conversation, PartiesAsked, Hi!HistoryIsNewest
    <2>3. Hi!AnswersMatch
      BY DEF HistInv, Told, Hi!AnswersMatch
    <2> QED BY <2>2, <2>3 DEF Hi!HistorySound
  <1> QED BY <1>1, <1>2, <1>3, PTL DEF Spec

-----------------------------------------------------------------------------
(* RequestPush: the state *)

Statements == {"idle", "find", "insert", "last", "lookup", "push", "list"}
Works == [pc : Statements, conn : Nat, next : {"run", "idle", "insert", "last", "lookup"},
          row : Nat, id : Nat, sess : Devices \cup {"none"}, alone : BOOLEAN]

\* What a thread is doing, and with a connection or without.
WorkShape(w) ==
  /\ w.conn = 0 => w.next = "run"
  /\ w.pc \in {"idle", "lookup", "push"} => w.conn = 0
  /\ w.pc \in {"find", "list"} => w.conn # 0
  /\ w.pc = "find" => w.next \in {"run", "insert", "lookup"}
  /\ w.pc = "insert" => w.next \in {"run", "last", "idle"}
  /\ w.pc = "last" => w.next \in {"run", "lookup"}
  /\ w.pc = "list" => w.next \in {"run", "idle"}
  /\ w.pc = "push" => w.sess \in Devices

\* The id LAST_INSERT_ID() tells is the row's, as long as the pool is left alone: the
\* connection that inserted is held, or the one the pool hands out next.
Named(w, pool, ids) ==
  /\ w.pc = "insert" /\ w.next = "last" /\ w.alone => ids[w.conn] = w.row
  /\ w.pc = "last" /\ w.next = "run" /\ w.alone =>
       IF w.conn = 0 THEN pool # <<>> /\ ids[pool[Len(pool)]] = w.row ELSE ids[w.conn] = w.row
  /\ (w.next = "lookup" \/ w.pc \in {"lookup", "push"}) /\ w.alone => w.id = w.row

\* A thread that is going to look for the receiver of row i and push it.
Carries(w, i) ==
  /\ w.row = i
  /\ (w.pc = "insert" /\ w.next = "last") \/ w.pc \in {"last", "lookup", "push"}

Conns == {PoolConns[i] : i \in 1 .. Len(PoolConns)}

PushTypes ==
  /\ poolIdle \in Seq(Conns) /\ lastId \in [Conns -> Nat]
  /\ reqRows \in Seq(Requesters)
  /\ work \in [Requesters \cup Devices -> Works]
  /\ device \in [Devices -> {"new", "on", "closing", "closed"}]
  /\ screen \in [Devices -> SUBSET Nat]
  /\ listed \in SUBSET Devices

\* A connection is in the pool once, or held by one thread.
HeldInv ==
  /\ \A i, j \in 1 .. Len(poolIdle) : poolIdle[i] = poolIdle[j] => i = j
  /\ \A t \in Requesters \cup Devices : work[t].conn # 0 =>
       /\ work[t].conn \in Conns
       /\ \A i \in 1 .. Len(poolIdle) : poolIdle[i] # work[t].conn
       /\ \A u \in Requesters \cup Devices : u # t => work[u].conn # work[t].conn

WorkInv ==
  /\ \A t \in Requesters \cup Devices : WorkShape(work[t]) /\ Named(work[t], poolIdle, lastId)
  /\ \A r \in Requesters : work[r].pc # "list"
  /\ \A d \in Devices : work[d].pc \in {"idle", "list"}

\* A session that asks for its list or has it is open.
OpenInv ==
  /\ \A d \in Devices : work[d].pc = "list" => device[d] = "on"
  /\ \A d \in listed : device[d] = "on"

\* Session d shows row i, or is excused.
Aware(d, i) ==
  \/ i \in screen[d]
  \/ \E p \in pushes : p.row = i /\ (p.sess # d \/ p.id # i)
  \/ i \in unsaid

\* A row is known to the session that got its list, or a thread carries it.
KnownInv ==
  \A d \in listed, i \in 1 .. Len(reqRows) :
    Aware(d, i) \/ \E r \in Requesters : Carries(work[r], i)

\* A wrong id is pushed only if the pool was used in between.
HonestInv == \A p \in pushes : p.id # p.row => ~p.alone

PushInv == PushTypes /\ HeldInv /\ WorkInv /\ OpenInv /\ KnownInv /\ HonestInv

-----------------------------------------------------------------------------
(* RequestPush: one step preserves the invariant *)

\* What Disturbs leaves of the threads.
LEMMA Disturbed ==
  ASSUME NEW t, NEW w \in [Requesters \cup Devices -> Works], work' = Rp!Disturbs(t, w)
  PROVE  /\ work' \in [Requesters \cup Devices -> Works]
         /\ \A u \in Requesters \cup Devices :
              /\ work'[u].pc = w[u].pc /\ work'[u].next = w[u].next /\ work'[u].conn = w[u].conn
              /\ work'[u].row = w[u].row /\ work'[u].id = w[u].id /\ work'[u].sess = w[u].sess
              /\ work'[u].alone => w[u].alone
              /\ u = t => work'[u] = w[u]
              /\ u # t /\ w[u].pc = "last" /\ w[u].conn = 0 => ~work'[u].alone
  <1> DEFINE Th == Requesters \cup Devices
  <1>1. work' = [u \in Th |-> IF u # t /\ w[u].pc = "last" /\ w[u].conn = 0
                             THEN [w[u] EXCEPT !.alone = FALSE] ELSE w[u]]
    BY DEF Rp!Disturbs, Rp!Threads, Rp!NoConn
  <1>2. ASSUME NEW u \in Th
        PROVE  /\ work'[u] \in Works
               /\ work'[u].pc = w[u].pc /\ work'[u].next = w[u].next /\ work'[u].conn = w[u].conn
               /\ work'[u].row = w[u].row /\ work'[u].id = w[u].id /\ work'[u].sess = w[u].sess
               /\ work'[u].alone => w[u].alone
               /\ u = t => work'[u] = w[u]
               /\ u # t /\ w[u].pc = "last" /\ w[u].conn = 0 => ~work'[u].alone
    <2>1. w[u] \in Works
      OBVIOUS
    <2>2. CASE u # t /\ w[u].pc = "last" /\ w[u].conn = 0
      <3>1. work'[u] = [w[u] EXCEPT !.alone = FALSE]
        BY <1>1, <2>2
      <3> QED BY <2>1, <2>2, <3>1 DEF Works
    <2>3. CASE ~(u # t /\ w[u].pc = "last" /\ w[u].conn = 0)
      <3>1. work'[u] = w[u]
        BY <1>1, <2>3
      <3> QED BY <2>1, <2>3, <3>1
    <2> QED BY <2>2, <2>3
  <1>3. work' = [u \in Th |-> work'[u]]
    BY <1>1
  <1> QED BY <1>2, <1>3

\* A thread whose pool was disturbed keeps its shape, and claims no id from it.
LEMMA OthersKeep ==
  ASSUME WorkInv, NEW t, NEW w \in [Requesters \cup Devices -> Works],
         work' = Rp!Disturbs(t, w), NEW u \in Requesters \cup Devices, u # t, w[u] = work[u],
         work[u].conn # 0 => lastId'[work[u].conn] = lastId[work[u].conn]
  PROVE  WorkShape(work'[u]) /\ Named(work'[u], poolIdle', lastId')
  <1>1. WorkShape(work[u]) /\ Named(work[u], poolIdle, lastId)
    BY DEF WorkInv
  <1>2. /\ work'[u].pc = work[u].pc /\ work'[u].next = work[u].next /\ work'[u].conn = work[u].conn
        /\ work'[u].row = work[u].row /\ work'[u].id = work[u].id /\ work'[u].sess = work[u].sess
        /\ work'[u].alone => work[u].alone
        /\ work[u].pc = "last" /\ work[u].conn = 0 => ~work'[u].alone
    BY Disturbed
  <1>3. WorkShape(work'[u])
    BY <1>1, <1>2 DEF WorkShape
  <1>4. Named(work'[u], poolIdle', lastId')
    BY <1>1, <1>2 DEF Named, WorkShape
  <1> QED BY <1>3, <1>4

\* What a thread that still carries a row keeps known.
LEMMA KnownStays ==
  ASSUME PushTypes, KnownInv, UNCHANGED <<reqRows, listed>>,
         \A d \in listed, i \in 1 .. Len(reqRows) : Aware(d, i) =>
           Aware(d, i)' \/ \E r \in Requesters : Carries(work'[r], i),
         \A r \in Requesters, i \in 1 .. Len(reqRows) : Carries(work[r], i) =>
           Carries(work'[r], i) \/ \A d \in listed : Aware(d, i)'
  PROVE  KnownInv'
  BY DEF KnownInv

\* The same, for a step that shows nothing.
LEMMA CarriedOn ==
  ASSUME PushTypes, KnownInv, UNCHANGED <<reqRows, listed, screen, pushes, unsaid>>,
         \A r \in Requesters, i \in 1 .. Len(reqRows) : Carries(work[r], i) => Carries(work'[r], i)
  PROVE  KnownInv'
  <1>1. \A d, i : Aware(d, i)' <=> Aware(d, i)
    BY DEF Aware
  <1> QED BY <1>1, KnownStays

LEMMA StillOpen ==
  ASSUME OpenInv, UNCHANGED <<device, listed>>,
         \A d \in Devices : work'[d].pc = "list" => work[d].pc = "list"
  PROVE  OpenInv'
  BY DEF OpenInv

\* One thread goes on, with the connection it has.
LEMMA GoesOn ==
  ASSUME PushTypes, HeldInv, WorkInv, NEW t \in Requesters \cup Devices, NEW w \in Works,
         work' = [work EXCEPT ![t] = w], w.conn = work[t].conn,
         UNCHANGED poolIdle,
         \A c \in Conns : c # w.conn => lastId'[c] = lastId[c],
         w.conn = 0 => UNCHANGED lastId,
         WorkShape(w), Named(w, poolIdle, lastId'),
         IF t \in Devices THEN w.pc \in {"idle", "list"} ELSE w.pc # "list"
  PROVE  work' \in [Requesters \cup Devices -> Works] /\ HeldInv' /\ WorkInv'
  <1>1. /\ work' \in [Requesters \cup Devices -> Works]
        /\ work'[t] = w /\ \A u \in Requesters \cup Devices : u # t => work'[u] = work[u]
    BY DEF PushTypes
  <1>2. \A u \in Requesters \cup Devices : work'[u].conn = work[u].conn
    BY <1>1
  <1>3. HeldInv'
    BY <1>2 DEF HeldInv
  <1>4. ASSUME NEW u \in Requesters \cup Devices, u # t
        PROVE  WorkShape(work[u]) /\ Named(work[u], poolIdle, lastId')
    <2>1. WorkShape(work[u]) /\ Named(work[u], poolIdle, lastId)
      BY DEF WorkInv
    <2>2. work[u].conn # 0 => work[u].conn \in Conns /\ lastId'[work[u].conn] = lastId[work[u].conn]
      BY <1>4 DEF HeldInv
    <2>3. poolIdle # <<>> => lastId'[poolIdle[Len(poolIdle)]] = lastId[poolIdle[Len(poolIdle)]]
      <3> SUFFICES ASSUME poolIdle # <<>>, w.conn # 0
                   PROVE  lastId'[poolIdle[Len(poolIdle)]] = lastId[poolIdle[Len(poolIdle)]]
        OBVIOUS
      <3>1. Len(poolIdle) \in 1 .. Len(poolIdle) /\ poolIdle[Len(poolIdle)] \in Conns
        BY DEF PushTypes
      <3>2. poolIdle[Len(poolIdle)] # w.conn
        BY <3>1 DEF HeldInv
      <3> QED BY <3>1, <3>2
    <2>4. Named(work[u], poolIdle, lastId')
      BY <2>1, <2>2, <2>3 DEF Named, WorkShape
    <2> QED BY <2>1, <2>4
  <1>5. WorkInv'
    BY <1>1, <1>4, PoolSettings DEF WorkInv
  <1> QED BY <1>1, <1>3, <1>5

\* acquire: a thread that holds none takes the last connection of the pool.
LEMMA Acquires ==
  ASSUME PushTypes, HeldInv, WorkInv, NEW t \in Requesters \cup Devices, NEW w \in Works,
         Rp!Acquire(t, w), work[t].conn = 0, w.next = "run", w.pc \notin {"idle", "lookup", "push"},
         w.pc = "last" => w = work[t],
         IF t \in Devices THEN w.pc \in {"idle", "list"} ELSE w.pc # "list",
         UNCHANGED lastId
  PROVE  /\ poolIdle' \in Seq(Conns) /\ work' \in [Requesters \cup Devices -> Works]
         /\ HeldInv' /\ WorkInv'
         /\ work'[t].pc = w.pc /\ work'[t].row = w.row /\ work'[t].next = w.next
         /\ \A u \in Requesters \cup Devices : u # t =>
              /\ work'[u].pc = work[u].pc /\ work'[u].next = work[u].next
              /\ work'[u].row = work[u].row /\ work'[u].sess = work[u].sess
  <1>1. PICK c : c = poolIdle[Len(poolIdle)]
    OBVIOUS
  <1>2. /\ Len(poolIdle) \in Nat \ {0} /\ c \in Conns /\ c \in Nat \ {0}
        /\ poolIdle' = SubSeq(poolIdle, 1, Len(poolIdle) - 1)
    <2>1. poolIdle # <<>> /\ poolIdle' = SubSeq(poolIdle, 1, Len(poolIdle) - 1)
      BY DEF Rp!Acquire, Rp!Given
    <2>2. Len(poolIdle) \in Nat \ {0} /\ poolIdle[Len(poolIdle)] \in Conns
      BY <2>1 DEF PushTypes
    <2>3. Conns \subseteq Nat \ {0}
      BY PoolSettings DEF Conns
    <2> QED BY <1>1, <2>1, <2>2, <2>3
  <1>3. /\ poolIdle' \in Seq(Conns) /\ Len(poolIdle') = Len(poolIdle) - 1
        /\ \A i \in 1 .. Len(poolIdle') : poolIdle'[i] = poolIdle[i] /\ poolIdle'[i] # c
    <2>1. poolIdle' \in Seq(Conns) /\ Len(poolIdle') = Len(poolIdle) - 1
          /\ \A i \in 1 .. Len(poolIdle') : poolIdle'[i] = poolIdle[i]
      <3>1. PICK n : n = Len(poolIdle) - 1
        OBVIOUS
      <3>2. poolIdle \in Seq(Conns) /\ n \in Nat /\ 1 \in Nat
            /\ \A i \in 1 .. n : i \in 1 .. Len(poolIdle) /\ poolIdle[i] \in Conns
        BY <1>2, <3>1 DEF PushTypes
      <3>3. poolIdle' = [i \in 1 .. n |-> poolIdle[i]]
        BY <1>2, <3>1, <3>2
      <3> QED BY <3>1, <3>2, <3>3
    <2>2. \A i \in 1 .. Len(poolIdle') : poolIdle[i] # c
      BY <1>1, <1>2, <2>1 DEF HeldInv
    <2> QED BY <2>1, <2>2
  <1>4. PICK d : d = [w EXCEPT !.conn = c]
    OBVIOUS
  <1>5. /\ d \in Works /\ d.pc = w.pc /\ d.conn = c /\ d.next = w.next /\ d.row = w.row
        /\ d.id = w.id /\ d.alone = w.alone
    BY <1>2, <1>4 DEF Works
  <1>6. PICK v : v = [work EXCEPT ![t] = d]
    OBVIOUS
  <1>7. /\ v \in [Requesters \cup Devices -> Works] /\ v[t] = d
        /\ \A u \in Requesters \cup Devices : u # t => v[u] = work[u]
    BY <1>5, <1>6 DEF PushTypes
  <1>8. work' = Rp!Disturbs(t, v)
    BY <1>1, <1>4, <1>6 DEF Rp!Acquire, Rp!Given
  <1>9. /\ work' \in [Requesters \cup Devices -> Works] /\ work'[t] = d
        /\ \A u \in Requesters \cup Devices : u # t =>
              /\ work'[u].pc = work[u].pc /\ work'[u].next = work[u].next
              /\ work'[u].row = work[u].row /\ work'[u].sess = work[u].sess
              /\ work'[u].conn = work[u].conn
    <2>1. /\ work' \in [Requesters \cup Devices -> Works]
          /\ \A u \in Requesters \cup Devices :
               /\ work'[u].pc = v[u].pc /\ work'[u].next = v[u].next /\ work'[u].conn = v[u].conn
               /\ work'[u].row = v[u].row /\ work'[u].id = v[u].id /\ work'[u].sess = v[u].sess
               /\ u = t => work'[u] = v[u]
      BY <1>7, <1>8, Disturbed
    <2> QED BY <1>7, <2>1
  <1>10. HeldInv'
    <2>1. \A i, j \in 1 .. Len(poolIdle') : poolIdle'[i] = poolIdle'[j] => i = j
      BY <1>2, <1>3 DEF HeldInv
    <2>2. \A i \in 1 .. Len(poolIdle') : i \in 1 .. Len(poolIdle)
      BY <1>2, <1>3
    <2>3. Len(poolIdle) \in 1 .. Len(poolIdle)
      BY <1>2
    <2>4. \A u \in Requesters \cup Devices : u # t => work[u].conn # c
      BY <1>1, <1>2, <2>3 DEF HeldInv
    <2>5. ASSUME NEW u \in Requesters \cup Devices, work'[u].conn # 0
          PROVE  /\ work'[u].conn \in Conns
                 /\ \A i \in 1 .. Len(poolIdle') : poolIdle'[i] # work'[u].conn
                 /\ \A x \in Requesters \cup Devices : x # u => work'[x].conn # work'[u].conn
      <3>1. CASE u = t
        <4>1. work'[u].conn = c
          BY <1>5, <1>9, <3>1
        <4> QED BY <1>2, <1>3, <1>9, <2>4, <3>1, <4>1
      <3>2. CASE u # t
        <4>1. work'[u].conn = work[u].conn /\ work[u].conn # c
          BY <1>9, <2>4, <3>2
        <4>2. /\ work[u].conn \in Conns
              /\ \A i \in 1 .. Len(poolIdle) : poolIdle[i] # work[u].conn
              /\ \A x \in Requesters \cup Devices : x # u => work[x].conn # work[u].conn
          BY <2>5, <4>1 DEF HeldInv
        <4>3. \A x \in Requesters \cup Devices : x # u => work'[x].conn # work'[u].conn
          BY <1>5, <1>9, <4>1, <4>2
        <4> QED BY <1>3, <2>2, <4>1, <4>2, <4>3
      <3> QED BY <3>1, <3>2
    <2> QED BY <2>1, <2>5 DEF HeldInv
  <1>11. WorkInv'
    <2>1. \A u \in Requesters \cup Devices : u # t =>
            WorkShape(work'[u]) /\ Named(work'[u], poolIdle', lastId')
      BY <1>7, <1>8, OthersKeep
    <2>2. WorkShape(d)
      BY <1>2, <1>5 DEF WorkShape
    <2>3. Named(d, poolIdle', lastId')
      <3>1. CASE w.pc = "last"
        <4>1. w = work[t] /\ w.conn = 0 /\ Named(w, poolIdle, lastId)
          BY <3>1 DEF WorkInv
        <4> QED BY <1>1, <1>2, <1>5, <3>1, <4>1 DEF Named
      <3>2. CASE w.pc # "last"
        BY <1>5, <3>2 DEF Named
      <3> QED BY <3>1, <3>2
    <2>4. \A u \in Requesters \cup Devices :
            WorkShape(work'[u]) /\ Named(work'[u], poolIdle', lastId')
      BY <1>9, <2>1, <2>2, <2>3
    <2>5. (\A r \in Requesters : work'[r].pc # "list") /\ \A e \in Devices : work'[e].pc \in {"idle", "list"}
      BY <1>5, <1>9, PoolSettings DEF WorkInv
    <2> QED BY <2>4, <2>5 DEF WorkInv
  <1> QED BY <1>3, <1>5, <1>9, <1>10, <1>11

\* release: the connection goes to the end of the pool, and the thread goes on.
LEMMA Returns ==
  ASSUME PushInv, NEW t \in Requesters \cup Devices, Rp!Return(t)
  PROVE  PushInv'
  <1> USE DEF PushInv
  <1>1. PICK c : c = work[t].conn
    OBVIOUS
  <1>2. /\ work[t] \in Works /\ WorkShape(work[t]) /\ Named(work[t], poolIdle, lastId)
        /\ c # 0 /\ work[t].next # "run" /\ c \in Conns
    BY <1>1 DEF PushTypes, WorkInv, HeldInv, Rp!Return, Rp!NoConn
  <1>3. /\ poolIdle' = Append(poolIdle, c)
        /\ UNCHANGED <<lastId, reqRows, filed, device, screen, listed, pushFaults, pushes, unsaid>>
    BY <1>1 DEF Rp!Return, Rp!dbVars, Rp!screenVars, Rp!histPush
  <1>4. /\ poolIdle' \in Seq(Conns) /\ Len(poolIdle') = Len(poolIdle) + 1 /\ Len(poolIdle) \in Nat
        /\ \A i \in 1 .. Len(poolIdle) : poolIdle'[i] = poolIdle[i]
        /\ poolIdle'[Len(poolIdle')] = c /\ poolIdle' # <<>>
    BY <1>2, <1>3, SMTT(30) DEF PushTypes
  <1>5. PICK d : d = [pc |-> work[t].next, conn |-> 0, next |-> "run", row |-> work[t].row,
                      id |-> work[t].id, sess |-> work[t].sess, alone |-> work[t].alone]
    OBVIOUS
  <1>6. PICK v : v = [work EXCEPT ![t] = d]
    OBVIOUS
  <1>7. d \in Works
    BY <1>2, <1>5 DEF Works, Statements
  <1>8. /\ v \in [Requesters \cup Devices -> Works] /\ v[t] = d
        /\ \A u \in Requesters \cup Devices : u # t => v[u] = work[u]
    BY <1>6, <1>7 DEF PushTypes
  <1>9. work' = Rp!Disturbs(t, v)
    <2>1. v = [work EXCEPT ![t].conn = 0, ![t].pc = work[t].next, ![t].next = "run"]
      BY <1>2, <1>5, <1>6 DEF Works, PushTypes
    <2> QED BY <2>1 DEF Rp!Return, Rp!NoConn
  <1>10. /\ work' \in [Requesters \cup Devices -> Works] /\ work'[t] = d
         /\ \A u \in Requesters \cup Devices : u # t =>
              /\ work'[u].pc = work[u].pc /\ work'[u].next = work[u].next
              /\ work'[u].row = work[u].row /\ work'[u].sess = work[u].sess
              /\ work'[u].conn = work[u].conn
    <2>1. /\ work' \in [Requesters \cup Devices -> Works]
          /\ \A u \in Requesters \cup Devices :
               /\ work'[u].pc = v[u].pc /\ work'[u].next = v[u].next /\ work'[u].conn = v[u].conn
               /\ work'[u].row = v[u].row /\ work'[u].id = v[u].id /\ work'[u].sess = v[u].sess
               /\ u = t => work'[u] = v[u]
      BY <1>8, <1>9, Disturbed
    <2> QED BY <1>8, <2>1
  <1>11. HeldInv'
    <2>1. \A i \in 1 .. Len(poolIdle) : poolIdle[i] # c
      BY <1>1, <1>2 DEF HeldInv
    <2>2. \A i, j \in 1 .. Len(poolIdle') : poolIdle'[i] = poolIdle'[j] => i = j
      BY <1>4, <2>1 DEF HeldInv
    <2>3. \A u \in Requesters \cup Devices : u # t => work[u].conn # c
      BY <1>1, <1>2 DEF HeldInv
    <2>4. \A u \in Requesters \cup Devices : work'[u].conn # 0 => u # t
      BY <1>5, <1>10
    <2>5. ASSUME NEW u \in Requesters \cup Devices, work'[u].conn # 0
          PROVE  /\ work'[u].conn \in Conns
                 /\ \A i \in 1 .. Len(poolIdle') : poolIdle'[i] # work'[u].conn
                 /\ \A x \in Requesters \cup Devices : x # u => work'[x].conn # work'[u].conn
      <3>1. u # t /\ work'[u].conn = work[u].conn /\ work[u].conn # 0 /\ work[u].conn # c
        BY <1>10, <2>3, <2>4, <2>5
      <3>2. /\ work[u].conn \in Conns
            /\ \A i \in 1 .. Len(poolIdle) : poolIdle[i] # work[u].conn
            /\ \A x \in Requesters \cup Devices : x # u => work[x].conn # work[u].conn
        BY <3>1 DEF HeldInv
      <3>3. \A x \in Requesters \cup Devices : x # u => work'[x].conn # work'[u].conn
        BY <1>5, <1>10, <3>1, <3>2
      <3> QED BY <1>4, <3>1, <3>2, <3>3
    <2> QED BY <2>2, <2>5 DEF HeldInv
  <1>12. WorkInv'
    <2>1. \A u \in Requesters \cup Devices : u # t =>
            WorkShape(work'[u]) /\ Named(work'[u], poolIdle', lastId')
      BY <1>3, <1>8, <1>9, OthersKeep
    <2>2. WorkShape(d)
      BY <1>2, <1>5 DEF WorkShape, Works, Statements
    <2>3. Named(d, poolIdle', lastId')
      BY <1>1, <1>2, <1>3, <1>4, <1>5 DEF Named, WorkShape, Works, Statements
    <2>4. \A u \in Requesters \cup Devices :
            WorkShape(work'[u]) /\ Named(work'[u], poolIdle', lastId')
      BY <1>10, <2>1, <2>2, <2>3
    <2>5. (\A r \in Requesters : work'[r].pc # "list") /\ \A e \in Devices : work'[e].pc \in {"idle", "list"}
      <3>1. d.pc # "list" /\ (t \in Devices => d.pc = "idle")
        BY <1>2, <1>5 DEF WorkInv, WorkShape, Works, Statements
      <3> QED BY <1>10, <3>1 DEF WorkInv
    <2> QED BY <2>4, <2>5 DEF WorkInv
  <1>13. KnownInv'
    <2>1. ASSUME NEW i, NEW r \in Requesters, Carries(work[r], i) PROVE Carries(work'[r], i)
      <3>1. CASE r = t
        BY <1>2, <1>5, <1>10, <2>1, <3>1 DEF Carries, WorkShape
      <3>2. CASE r # t
        BY <1>10, <2>1, <3>2 DEF Carries
      <3> QED BY <3>1, <3>2
    <2> QED BY <1>3, <2>1, CarriedOn
  <1>14. OpenInv'
    <2>1. d.pc # "list"
      BY <1>2, <1>5 DEF WorkShape, Works
    <2>2. \A e \in Devices : work'[e].pc = "list" => work[e].pc = "list"
      BY <1>10, <2>1
    <2> QED BY <1>3, <2>2, StillOpen
  <1>15. HonestInv'
    BY <1>3 DEF HonestInv
  <1> QED BY <1>3, <1>4, <1>10, <1>11, <1>12, <1>13, <1>14, <1>15 DEF PushTypes

\* A thread that takes a connection.
LEMMA AcquireStep ==
  ASSUME PushInv, NEW t \in Requesters \cup Devices, NEW w \in Works,
         Rp!Acquire(t, w), work[t].conn = 0, w.next = "run", w.pc \notin {"idle", "lookup", "push"},
         w = work[t] \/ (work[t].pc = "idle" /\ w.pc # "last"),
         IF t \in Devices THEN w.pc \in {"idle", "list"} /\ device[t] = "on" ELSE w.pc # "list",
         UNCHANGED <<lastId, reqRows, device, screen, listed, pushes, unsaid>>
  PROVE  PushInv'
  <1>1. PushTypes /\ HeldInv /\ WorkInv /\ OpenInv /\ KnownInv /\ HonestInv
    BY DEF PushInv
  <1>2. /\ w.pc = "last" => w = work[t]
        /\ IF t \in Devices THEN w.pc \in {"idle", "list"} ELSE w.pc # "list"
    OBVIOUS
  <1>3. /\ poolIdle' \in Seq(Conns) /\ work' \in [Requesters \cup Devices -> Works]
        /\ HeldInv' /\ WorkInv'
        /\ work'[t].pc = w.pc /\ work'[t].row = w.row /\ work'[t].next = w.next
        /\ \A u \in Requesters \cup Devices : u # t =>
             /\ work'[u].pc = work[u].pc /\ work'[u].next = work[u].next
             /\ work'[u].row = work[u].row /\ work'[u].sess = work[u].sess
    BY <1>1, <1>2, Acquires
  <1>4. KnownInv'
    <2>1. ASSUME NEW i, NEW r \in Requesters, Carries(work[r], i) PROVE Carries(work'[r], i)
      <3>1. CASE r = t
        BY <1>3, <2>1, <3>1 DEF Carries
      <3>2. CASE r # t
        BY <1>3, <2>1, <3>2 DEF Carries
      <3> QED BY <3>1, <3>2
    <2> QED BY <1>1, <2>1, CarriedOn
  <1>5. OpenInv'
    BY <1>1, <1>3 DEF OpenInv
  <1>6. HonestInv'
    BY <1>1 DEF HonestInv
  <1> QED BY <1>1, <1>3, <1>4, <1>5, <1>6 DEF PushInv, PushTypes

\* A sender goes on with the connection it has, or without.
LEMMA GoStep ==
  ASSUME PushInv, NEW t \in Requesters, NEW w \in Works,
         work' = [work EXCEPT ![t] = w], w.conn = work[t].conn,
         UNCHANGED <<poolIdle, lastId, reqRows, device, listed>>,
         screen' \in [Devices -> SUBSET Nat], HonestInv',
         WorkShape(w), Named(w, poolIdle, lastId), w.pc # "list",
         \A d \in listed, i \in 1 .. Len(reqRows) : Aware(d, i) => Aware(d, i)' \/ Carries(w, i),
         \A i \in 1 .. Len(reqRows) : Carries(work[t], i) =>
           Carries(w, i) \/ \A d \in listed : Aware(d, i)'
  PROVE  PushInv'
  <1>1. PushTypes /\ HeldInv /\ WorkInv /\ OpenInv /\ KnownInv /\ t \notin Devices
    BY PoolSettings DEF PushInv
  <1>2. work' \in [Requesters \cup Devices -> Works] /\ HeldInv' /\ WorkInv'
    BY <1>1, GoesOn
  <1>3. work'[t] = w /\ \A u \in Requesters \cup Devices : u # t => work'[u] = work[u]
    BY <1>1 DEF PushTypes
  <1>4. KnownInv'
    <2>1. \A r \in Requesters, i \in 1 .. Len(reqRows) : Carries(work[r], i) =>
            Carries(work'[r], i) \/ \A d \in listed : Aware(d, i)'
      BY <1>3
    <2>2. \A d \in listed, i \in 1 .. Len(reqRows) : Aware(d, i) =>
            Aware(d, i)' \/ \E r \in Requesters : Carries(work'[r], i)
      BY <1>3
    <2> QED BY <1>1, <2>1, <2>2, KnownStays
  <1>5. OpenInv'
    BY <1>1, <1>3, StillOpen
  <1> QED BY <1>1, <1>2, <1>4, <1>5 DEF PushInv, PushTypes

\* The same, when nothing is shown and the history stays.
LEMMA PlainStep ==
  ASSUME PushInv, NEW t \in Requesters, NEW w \in Works,
         work' = [work EXCEPT ![t] = w], w.conn = work[t].conn,
         UNCHANGED <<poolIdle, lastId, reqRows, device, listed, screen, pushes, unsaid>>,
         WorkShape(w), Named(w, poolIdle, lastId), w.pc # "list",
         \A i : Carries(work[t], i) => Carries(w, i)
  PROVE  PushInv'
  <1>1. \A d, i : Aware(d, i)' <=> Aware(d, i)
    BY DEF Aware
  <1>2. screen' \in [Devices -> SUBSET Nat] /\ HonestInv'
    BY DEF PushInv, PushTypes, HonestInv
  <1> QED BY <1>1, <1>2, GoStep

\* The sender's statements, but for the INSERT.
LEMMA SenderStep ==
  ASSUME PushInv, NEW r \in Requesters,
         \/ Rp!SendRequest(r) \/ Rp!Borrow(r)
         \/ Rp!Find(r) \/ Rp!FindFails(r) \/ Rp!InsertFails(r)
         \/ Rp!LastInsertId(r) \/ Rp!LastInsertIdFails(r) \/ Rp!LookUp(r) \/ Rp!PushNewRequest(r)
  PROVE  PushInv'
  <1> USE DEF Rp!NoConn, Rp!dbVars, Rp!screenVars, Rp!histPush
  <1>1. PushTypes /\ HeldInv /\ WorkInv /\ OpenInv /\ KnownInv /\ HonestInv
    BY DEF PushInv
  <1>2. /\ work[r] \in Works /\ r \notin Devices /\ WorkShape(work[r])
        /\ Named(work[r], poolIdle, lastId) /\ work[r].pc # "list"
    BY <1>1, PoolSettings DEF PushTypes, WorkInv
  <1>3. CASE Rp!SendRequest(r)
    <2>1. PICK w : w = [Rp!Idle EXCEPT !.pc = "find"]
      OBVIOUS
    <2>2. w \in Works /\ w.next = "run" /\ w.pc = "find"
      BY <2>1 DEF Works, Statements, Rp!Idle, Rp!NoSession
    <2>3. Rp!Acquire(r, w)
      BY <1>3, <2>1 DEF Rp!SendRequest
    <2>4. /\ work[r].pc = "idle" /\ work[r].conn = 0
          /\ UNCHANGED <<lastId, reqRows, device, screen, listed, pushes, unsaid>>
      BY <1>2, <1>3 DEF Rp!SendRequest, WorkShape
    <2> QED BY <1>2, <2>2, <2>3, <2>4, AcquireStep
  <1>4. CASE Rp!Borrow(r)
    <2>1. /\ work[r].pc \in {"insert", "last"} /\ work[r].conn = 0 /\ work[r].next = "run"
          /\ Rp!Acquire(r, work[r])
          /\ UNCHANGED <<lastId, reqRows, device, screen, listed, pushes, unsaid>>
      BY <1>2, <1>4 DEF Rp!Borrow, WorkShape
    <2> QED BY <1>2, <2>1, AcquireStep
  <1>5. CASE Rp!FindFails(r) \/ Rp!InsertFails(r)
    <2>1. PICK nx : nx = IF work[r].pc = "find" THEN "insert" ELSE "idle"
      OBVIOUS
    <2>2. PICK w : w = [work[r] EXCEPT !.next = nx]
      OBVIOUS
    <2>3. /\ work[r].pc \in {"find", "insert"} /\ work[r].conn # 0 /\ work[r].next = "run"
          /\ work' = [work EXCEPT ![r] = w]
          /\ UNCHANGED <<poolIdle, lastId, reqRows, device, listed, screen, pushes, unsaid>>
      BY <1>5, <2>1, <2>2 DEF Rp!FindFails, Rp!InsertFails, Rp!Runs
    <2>4. /\ w \in Works /\ w.conn = work[r].conn /\ w.pc = work[r].pc /\ w.next = nx
          /\ w.alone = work[r].alone /\ w.row = work[r].row
      BY <1>2, <2>1, <2>2 DEF Works
    <2>5. WorkShape(w) /\ Named(w, poolIdle, lastId)
      BY <1>2, <2>1, <2>3, <2>4 DEF WorkShape, Named
    <2>6. \A i : ~Carries(work[r], i)
      BY <2>3 DEF Carries
    <2> QED BY <1>1, <1>2, <2>3, <2>4, <2>5, <2>6, PlainStep
  <1>6. CASE Rp!Find(r)
    <2>1. /\ work[r].pc = "find" /\ work[r].conn # 0 /\ work[r].next = "run"
          /\ UNCHANGED <<poolIdle, lastId, reqRows, device, listed, screen, pushes, unsaid>>
      BY <1>6 DEF Rp!Find, Rp!Runs
    <2>2. \/ work' = [work EXCEPT ![r].next = "insert"]
          \/ \E i \in DOMAIN reqRows :
               work' = [work EXCEPT ![r].next = "lookup", ![r].row = i, ![r].id = i]
      BY <1>6 DEF Rp!Find, Rp!Pending
    <2>3. ASSUME NEW w \in Works, work' = [work EXCEPT ![r] = w], w.conn = work[r].conn,
                 w.pc = "find", w.next = "insert" \/ (w.next = "lookup" /\ w.id = w.row)
          PROVE  PushInv'
      <3>1. WorkShape(w) /\ Named(w, poolIdle, lastId)
        BY <1>2, <2>1, <2>3 DEF WorkShape, Named
      <3>2. \A i : ~Carries(work[r], i)
        BY <2>1 DEF Carries
      <3> QED BY <1>1, <1>2, <2>1, <2>3, <3>1, <3>2, PlainStep
    <2>4. CASE work' = [work EXCEPT ![r].next = "insert"]
      <3>1. PICK w : w = [work[r] EXCEPT !.next = "insert"]
        OBVIOUS
      <3>2. w \in Works /\ w.conn = work[r].conn /\ w.pc = "find" /\ w.next = "insert"
        BY <1>2, <2>1, <3>1 DEF Works
      <3> QED BY <2>3, <2>4, <3>1, <3>2
    <2>5. ASSUME NEW i \in DOMAIN reqRows,
                 work' = [work EXCEPT ![r].next = "lookup", ![r].row = i, ![r].id = i]
          PROVE  PushInv'
      <3>1. PICK w : w = [work[r] EXCEPT !.next = "lookup", !.row = i, !.id = i]
        OBVIOUS
      <3>2. i \in Nat
        BY <1>1 DEF PushTypes
      <3>3. w \in Works /\ w.conn = work[r].conn /\ w.pc = "find" /\ w.next = "lookup" /\ w.id = w.row
        BY <1>2, <2>1, <3>1, <3>2 DEF Works
      <3>4. work' = [work EXCEPT ![r] = w]
        BY <1>1, <2>5, <3>1 DEF PushTypes
      <3> QED BY <2>3, <3>3, <3>4
    <2> QED BY <2>2, <2>4, <2>5
  <1>7. CASE Rp!LastInsertId(r) \/ Rp!LastInsertIdFails(r)
    <2>1. /\ work[r].pc = "last" /\ work[r].conn # 0 /\ work[r].next = "run"
          /\ UNCHANGED <<poolIdle, lastId, reqRows, device, listed, screen, pushes, unsaid>>
      BY <1>7 DEF Rp!LastInsertId, Rp!LastInsertIdFails, Rp!Runs
    <2>2. work[r].conn \in Conns /\ lastId[work[r].conn] \in Nat
      BY <1>1, <2>1 DEF PushTypes, HeldInv
    <2>3. PICK w \in Works :
            /\ work' = [work EXCEPT ![r] = w] /\ w.conn = work[r].conn /\ w.pc = "last"
            /\ w.next = "lookup" /\ w.row = work[r].row
            /\ w.alone => work[r].alone /\ w.id = lastId[work[r].conn]
      <3>1. CASE Rp!LastInsertId(r)
        <4>1. PICK w : w = [work[r] EXCEPT !.next = "lookup", !.id = lastId[work[r].conn]]
          OBVIOUS
        <4>2. /\ w \in Works /\ w.pc = "last" /\ w.conn = work[r].conn /\ w.next = "lookup"
              /\ w.row = work[r].row /\ w.id = lastId[work[r].conn] /\ w.alone = work[r].alone
          BY <1>2, <2>1, <2>2, <4>1 DEF Works
        <4>3. work' = [work EXCEPT ![r] = w]
          BY <1>1, <3>1, <4>1 DEF PushTypes, Rp!LastInsertId
        <4> QED BY <4>2, <4>3
      <3>2. CASE Rp!LastInsertIdFails(r)
        <4>1. PICK w : w = [work[r] EXCEPT !.next = "lookup", !.id = 0, !.alone = FALSE]
          OBVIOUS
        <4>2. /\ w \in Works /\ w.pc = "last" /\ w.conn = work[r].conn /\ w.next = "lookup"
              /\ w.row = work[r].row /\ ~w.alone
          BY <1>2, <2>1, <4>1 DEF Works
        <4>3. work' = [work EXCEPT ![r] = w]
          BY <1>1, <3>2, <4>1 DEF PushTypes, Rp!LastInsertIdFails
        <4> QED BY <4>2, <4>3
      <3> QED BY <1>7, <3>1, <3>2
    <2>4. WorkShape(w) /\ Named(w, poolIdle, lastId)
      BY <1>2, <2>1, <2>3 DEF WorkShape, Named
    <2>5. \A i : Carries(work[r], i) => Carries(w, i)
      BY <2>3 DEF Carries
    <2> QED BY <1>1, <1>2, <2>1, <2>3, <2>4, <2>5, PlainStep
  <1>8. CASE Rp!LookUp(r)
    <2>1. /\ work[r].pc = "lookup" /\ work[r].conn = 0 /\ work[r].next = "run"
          /\ UNCHANGED <<poolIdle, lastId, reqRows, device, listed, screen, pushes>>
      BY <1>2, <1>8 DEF Rp!LookUp, WorkShape
    <2>2. screen' \in [Devices -> SUBSET Nat] /\ HonestInv'
      BY <1>1, <2>1 DEF PushTypes, HonestInv
    <2>3. \A d, i : Aware(d, i) /\ (i \notin unsaid \/ i \in unsaid') => Aware(d, i)'
      BY <2>1 DEF Aware
    <2>4. PICK found \in Rp!GetSessionByID :
            IF found = "none"
            THEN /\ work' = [work EXCEPT ![r] = Rp!Idle]
                 /\ unsaid' = IF Rp!In("closing") # {} THEN unsaid \cup {work[r].row}
                              ELSE unsaid \ {work[r].row}
            ELSE /\ work' = [work EXCEPT ![r].pc = "push", ![r].sess = found]
                 /\ unsaid' = unsaid \ {work[r].row}
      BY <1>8 DEF Rp!LookUp, Rp!NoSession
    <2>5. CASE found = "none"
      <3>1. /\ Rp!Idle \in Works /\ Rp!Idle.conn = 0 /\ Rp!Idle.pc = "idle"
            /\ WorkShape(Rp!Idle) /\ Named(Rp!Idle, poolIdle, lastId)
        BY DEF Rp!Idle, Rp!NoSession, Works, Statements, WorkShape, Named
      <3>2. CASE Rp!In("closing") # {}
        <4>1. unsaid' = unsaid \cup {work[r].row}
          BY <2>4, <2>5, <3>2
        <4>2. \A i : Carries(work[r], i) => \A d \in listed : Aware(d, i)'
          BY <4>1 DEF Carries, Aware
        <4> QED BY <1>2, <2>1, <2>2, <2>3, <2>4, <2>5, <3>1, <4>1, <4>2, GoStep
      <3>3. CASE Rp!In("closing") = {}
        <4>1. Rp!In("on") = {}
          BY <2>4, <2>5, <3>3, PoolSettings DEF Rp!GetSessionByID, Rp!In
        <4>2. listed = {}
          BY <1>1, <4>1 DEF OpenInv, PushTypes, Rp!In
        <4> QED BY <1>2, <2>1, <2>2, <2>4, <2>5, <3>1, <4>2, GoStep
      <3> QED BY <3>2, <3>3
    <2>6. CASE found # "none"
      <3>1. found \in Devices
        BY <2>4, <2>6 DEF Rp!GetSessionByID, Rp!In, Rp!NoSession
      <3>2. PICK w : w = [work[r] EXCEPT !.pc = "push", !.sess = found]
        OBVIOUS
      <3>3. /\ w \in Works /\ w.pc = "push" /\ w.conn = work[r].conn /\ w.next = work[r].next
            /\ w.row = work[r].row /\ w.id = work[r].id /\ w.sess = found
            /\ w.alone = work[r].alone
        BY <1>2, <3>1, <3>2 DEF Works, Statements
      <3>4. work' = [work EXCEPT ![r] = w] /\ unsaid' = unsaid \ {work[r].row}
        BY <1>1, <2>4, <2>6, <3>2 DEF PushTypes
      <3>5. WorkShape(w) /\ Named(w, poolIdle, lastId)
        BY <1>2, <2>1, <3>1, <3>3 DEF WorkShape, Named
      <3>6. \A i : Carries(w, i) <=> i = work[r].row
        BY <3>3 DEF Carries
      <3>7. \A d, i : Aware(d, i) => Aware(d, i)' \/ Carries(w, i)
        BY <2>3, <3>4, <3>6
      <3>8. \A i : Carries(work[r], i) => Carries(w, i)
        BY <3>6 DEF Carries
      <3> QED BY <1>2, <2>1, <2>2, <3>3, <3>4, <3>5, <3>7, <3>8, GoStep
    <2> QED BY <2>5, <2>6
  <1>9. CASE Rp!PushNewRequest(r)
    <2>1. /\ work[r].pc = "push" /\ work[r].conn = 0 /\ work[r].next = "run"
          /\ work[r].sess \in Devices
          /\ UNCHANGED <<poolIdle, lastId, reqRows, device, listed, unsaid>>
          /\ work' = [work EXCEPT ![r] = Rp!Idle]
      BY <1>2, <1>9 DEF Rp!PushNewRequest, WorkShape
    <2>2. PICK e, k, p : e = work[r].sess /\ k = work[r].id /\
            p = [row |-> work[r].row, id |-> k, sess |-> e, alone |-> work[r].alone]
      OBVIOUS
    <2>3. /\ screen' = IF device[e] = "on" THEN [screen EXCEPT ![e] = @ \cup {k}] ELSE screen
          /\ pushes' = pushes \cup {p}
      BY <1>9, <2>2 DEF Rp!PushNewRequest
    <2>4. /\ Rp!Idle \in Works /\ Rp!Idle.conn = 0 /\ Rp!Idle.pc = "idle"
          /\ WorkShape(Rp!Idle) /\ Named(Rp!Idle, poolIdle, lastId)
      BY DEF Rp!Idle, Rp!NoSession, Works, Statements, WorkShape, Named
    <2>5. e \in Devices /\ k \in Nat /\ (p.id # p.row => ~p.alone)
      BY <1>2, <2>1, <2>2 DEF Named, Works
    <2>6. HonestInv'
      BY <1>1, <2>3, <2>5 DEF HonestInv
    <2>7. /\ screen' \in [Devices -> SUBSET Nat]
          /\ \A d \in Devices : screen[d] \subseteq screen'[d]
          /\ device[e] = "on" => k \in screen'[e]
      <3>1. screen \in [Devices -> SUBSET Nat]
        BY <1>1 DEF PushTypes
      <3> QED BY <2>3, <2>5, <3>1
    <2>8. listed \subseteq Devices
      BY <1>1 DEF PushTypes
    <2>9. \A d \in listed, i \in 1 .. Len(reqRows) : Aware(d, i) => Aware(d, i)'
      BY <2>1, <2>3, <2>7, <2>8 DEF Aware
    <2>10. ASSUME NEW i \in 1 .. Len(reqRows), Carries(work[r], i), NEW d \in listed
           PROVE  Aware(d, i)'
      <3>1. p.row = i /\ p.id = k /\ p.sess = e /\ p \in pushes'
        BY <2>2, <2>3, <2>10 DEF Carries
      <3>2. CASE e # d \/ k # i
        BY <3>1, <3>2 DEF Aware
      <3>3. CASE e = d /\ k = i
        <4>1. device[d] = "on"
          BY <1>1 DEF OpenInv
        <4> QED BY <2>7, <3>3, <4>1 DEF Aware
      <3> QED BY <3>2, <3>3
    <2> QED BY <1>2, <2>1, <2>4, <2>6, <2>7, <2>9, <2>10, GoStep
  <1> QED BY <1>3, <1>4, <1>5, <1>6, <1>7, <1>8, <1>9

\* The INSERT: its connection tells the new row's id from now on.
LEMMA InsertStep ==
  ASSUME PushInv, NEW r \in Requesters, Rp!Insert(r) \/ Rp!InsertUnclear(r)
  PROVE  PushInv'
  <1> USE DEF Rp!NoConn, Rp!dbVars, Rp!screenVars, Rp!histPush
  <1>1. PushTypes /\ HeldInv /\ WorkInv /\ OpenInv /\ KnownInv /\ HonestInv
    BY DEF PushInv
  <1>2. /\ work[r] \in Works /\ r \notin Devices /\ WorkShape(work[r])
        /\ Named(work[r], poolIdle, lastId) /\ work[r].pc # "list"
    BY <1>1, PoolSettings DEF PushTypes, WorkInv
  <1>3. PICK n : n = Len(reqRows)
    OBVIOUS
  <1>4. /\ n \in Nat /\ reqRows' \in Seq(Requesters) /\ Len(reqRows') = n + 1
    <2>1. reqRows' = Append(reqRows, r) /\ reqRows \in Seq(Requesters)
      BY <1>1 DEF PushTypes, Rp!Insert, Rp!InsertUnclear
    <2> QED BY <1>3, <2>1
  <1>5. /\ work[r].pc = "insert" /\ work[r].conn # 0 /\ work[r].next = "run"
        /\ lastId' = [lastId EXCEPT ![work[r].conn] = n + 1]
        /\ UNCHANGED <<poolIdle, device, listed, screen, pushes>>
        /\ \/ work' = [work EXCEPT ![r].next = "last", ![r].row = n + 1] /\ UNCHANGED unsaid
           \/ work' = [work EXCEPT ![r].next = "idle"] /\ unsaid' = unsaid \cup {n + 1}
    BY <1>4, Zenon DEF Rp!Insert, Rp!InsertUnclear, Rp!Runs
  <1>6. PICK w \in Works :
          /\ work' = [work EXCEPT ![r] = w] /\ w.pc = "insert" /\ w.conn = work[r].conn
          /\ \/ w.next = "last" /\ w.row = n + 1 /\ UNCHANGED unsaid
             \/ w.next = "idle" /\ unsaid' = unsaid \cup {n + 1}
    <2>1. CASE work' = [work EXCEPT ![r].next = "last", ![r].row = n + 1] /\ UNCHANGED unsaid
      <3>1. PICK m : m = n + 1
        OBVIOUS
      <3>2. PICK w : w = [work[r] EXCEPT !.next = "last", !.row = m]
        OBVIOUS
      <3>3. m \in Nat
        BY <1>4, <3>1
      <3>4. /\ w \in Works /\ w.pc = "insert" /\ w.conn = work[r].conn /\ w.next = "last"
            /\ w.row = m
        BY <1>2, <1>5, <3>2, <3>3 DEF Works
      <3>5. work' = [work EXCEPT ![r] = w]
        BY <1>1, <2>1, <3>1, <3>2 DEF PushTypes
      <3> QED BY <2>1, <3>1, <3>4, <3>5
    <2>2. CASE work' = [work EXCEPT ![r].next = "idle"] /\ unsaid' = unsaid \cup {n + 1}
      <3>1. PICK w : w = [work[r] EXCEPT !.next = "idle"]
        OBVIOUS
      <3>2. w \in Works /\ w.pc = "insert" /\ w.conn = work[r].conn /\ w.next = "idle"
        BY <1>2, <1>5, <3>1 DEF Works
      <3>3. work' = [work EXCEPT ![r] = w]
        BY <1>1, <2>2, <3>1 DEF PushTypes
      <3> QED BY <2>2, <3>2, <3>3
    <2> QED BY <1>5, <2>1, <2>2
  <1>9. work[r].conn \in Conns
    BY <1>1, <1>5 DEF HeldInv
  <1>10. /\ lastId' \in [Conns -> Nat] /\ lastId'[work[r].conn] = n + 1
         /\ \A c \in Conns : c # work[r].conn => lastId'[c] = lastId[c]
    BY <1>1, <1>4, <1>5, <1>9 DEF PushTypes
  <1>11. WorkShape(w) /\ Named(w, poolIdle, lastId')
    BY <1>5, <1>6, <1>10 DEF WorkShape, Named
  <1>12. work' \in [Requesters \cup Devices -> Works] /\ HeldInv' /\ WorkInv'
    <2>1. /\ r \in Requesters \cup Devices /\ w.conn # 0 /\ UNCHANGED poolIdle
          /\ \A c \in Conns : c # w.conn => lastId'[c] = lastId[c]
          /\ IF r \in Devices THEN w.pc \in {"idle", "list"} ELSE w.pc # "list"
      BY <1>2, <1>5, <1>6, <1>10
    <2> QED BY <1>1, <1>6, <1>11, <2>1, GoesOn
  <1>13. work'[r] = w /\ \A u \in Requesters \cup Devices : u # r => work'[u] = work[u]
    BY <1>1, <1>6 DEF PushTypes
  <1>14. KnownInv'
    <2>1. \A i : ~Carries(work[r], i)
      BY <1>5 DEF Carries
    <2>2. \A d, i : Aware(d, i) => Aware(d, i)'
      BY <1>5, <1>6 DEF Aware
    <2>3. \A d : Aware(d, n + 1)' \/ Carries(work'[r], n + 1)
      BY <1>6, <1>13 DEF Aware, Carries
    <2>4. \A i \in 1 .. n + 1 : i \in 1 .. n \/ i = n + 1
      BY <1>4
    <2> SUFFICES ASSUME NEW d \in listed, NEW i \in 1 .. n + 1
                 PROVE  Aware(d, i)' \/ \E q \in Requesters : Carries(work'[q], i)
      BY <1>4, <1>5 DEF KnownInv
    <2>5. CASE i = n + 1
      BY <2>3, <2>5
    <2>6. CASE i \in 1 .. n
      <3>1. Aware(d, i) \/ \E q \in Requesters : Carries(work[q], i)
        BY <1>1, <1>3, <2>6 DEF KnownInv
      <3> QED BY <1>13, <2>1, <2>2, <3>1
    <2> QED BY <2>4, <2>5, <2>6
  <1>15. OpenInv'
    BY <1>1, <1>2, <1>5, <1>13, StillOpen
  <1>16. HonestInv'
    BY <1>1, <1>5 DEF HonestInv
  <1> QED BY <1>1, <1>4, <1>5, <1>10, <1>12, <1>14, <1>15, <1>16 DEF PushInv, PushTypes

\* A session of the receiver.
LEMMA DeviceSteps ==
  ASSUME PushInv, NEW e \in Devices, Rp!DeviceStep(e)
  PROVE  PushInv'
  <1> USE DEF Rp!NoConn, Rp!dbVars, Rp!screenVars, Rp!histPush
  <1>1. PushTypes /\ HeldInv /\ WorkInv /\ OpenInv /\ KnownInv /\ HonestInv
    BY DEF PushInv
  <1>2. /\ work[e] \in Works /\ WorkShape(work[e])
        /\ Named(work[e], poolIdle, lastId) /\ work[e].pc \in {"idle", "list"}
    BY <1>1 DEF PushTypes, WorkInv
  <1>3. CASE Rp!Login(e) \/ Rp!Closed(e)
    <2>1. /\ device[e] # "on"
          /\ device' = [device EXCEPT ![e] = "on"] \/ device' = [device EXCEPT ![e] = "closed"]
          /\ UNCHANGED <<poolIdle, lastId, reqRows, work, listed, screen, pushes, unsaid>>
      BY <1>3 DEF Rp!Login, Rp!Closed
    <2>2. PushTypes' /\ \A d \in Devices : device[d] = "on" => device'[d] = "on"
      BY <1>1, <2>1 DEF PushTypes
    <2>3. OpenInv'
      BY <1>1, <2>1, <2>2 DEF OpenInv, PushTypes
    <2>4. KnownInv'
      BY <1>1, <2>1, CarriedOn
    <2> QED BY <1>1, <2>1, <2>2, <2>3, <2>4 DEF PushInv, HeldInv, WorkInv, HonestInv
  <1>4. CASE Rp!Close(e)
    <2>1. /\ device' = [device EXCEPT ![e] = "closing"] /\ screen' = [screen EXCEPT ![e] = {}]
          /\ listed' = listed \ {e} /\ work[e].pc = "idle"
          /\ UNCHANGED <<poolIdle, lastId, reqRows, work, pushes, unsaid>>
      BY <1>4 DEF Rp!Close
    <2>2. /\ PushTypes'
          /\ \A d \in Devices : d # e => device'[d] = device[d] /\ screen'[d] = screen[d]
      BY <1>1, <2>1 DEF PushTypes
    <2>3. OpenInv'
      BY <1>1, <2>1, <2>2 DEF OpenInv, PushTypes
    <2>4. KnownInv'
      <3>1. \A d \in listed' : d \in listed /\ d \in Devices /\ d # e
        BY <1>1, <2>1 DEF PushTypes
      <3>2. \A d \in listed' : \A i : Aware(d, i) => Aware(d, i)'
        BY <2>1, <2>2, <3>1 DEF Aware
      <3> QED BY <1>1, <2>1, <3>1, <3>2 DEF KnownInv
    <2> QED BY <1>1, <2>1, <2>2, <2>3, <2>4 DEF PushInv, HeldInv, WorkInv, HonestInv
  <1>5. CASE Rp!AskPending(e)
    <2>1. PICK w : w = [Rp!Idle EXCEPT !.pc = "list"]
      OBVIOUS
    <2>2. w \in Works /\ w.next = "run" /\ w.pc = "list"
      BY <2>1 DEF Works, Statements, Rp!Idle, Rp!NoSession
    <2>3. /\ Rp!Acquire(e, w) /\ work[e].pc = "idle" /\ device[e] = "on"
          /\ UNCHANGED <<lastId, reqRows, device, screen, listed, pushes, unsaid>>
      BY <1>5, <2>1 DEF Rp!AskPending
    <2>4. work[e].conn = 0
      BY <1>2, <2>3 DEF WorkShape
    <2> QED BY <2>2, <2>3, <2>4, AcquireStep
  <1>6. CASE Rp!GetPendingRequests(e) \/ Rp!GetPendingFails(e)
    <2>1. PICK w : w = [work[e] EXCEPT !.next = "idle"]
      OBVIOUS
    <2>2. /\ work[e].pc = "list" /\ work[e].conn # 0
          /\ work' = [work EXCEPT ![e] = w]
          /\ UNCHANGED <<poolIdle, lastId, reqRows, device, pushes, unsaid>>
      BY <1>6, <2>1 DEF Rp!GetPendingRequests, Rp!GetPendingFails, Rp!Runs
    <2>3. /\ w \in Works /\ w.conn = work[e].conn /\ w.pc = "list" /\ w.next = "idle"
      BY <1>2, <2>1, <2>2 DEF Works
    <2>4. WorkShape(w) /\ Named(w, poolIdle, lastId)
      BY <2>2, <2>3 DEF WorkShape, Named
    <2>5. work' \in [Requesters \cup Devices -> Works] /\ HeldInv' /\ WorkInv'
      BY <1>1, <2>2, <2>3, <2>4, GoesOn
    <2>6. /\ \A r \in Requesters : work'[r] = work[r]
          /\ \A d \in Devices : work'[d].pc = work[d].pc
      BY <1>1, <2>2, <2>3, PoolSettings DEF PushTypes
    <2>7. DOMAIN reqRows = 1 .. Len(reqRows) /\ Len(reqRows) \in Nat
      BY <1>1 DEF PushTypes
    <2>8. PICK k \in SUBSET Nat :
            /\ screen' = [screen EXCEPT ![e] = k] /\ screen[e] \subseteq k
            /\ \/ listed' = listed \cup {e} /\ 1 .. Len(reqRows) \subseteq k
               \/ listed' = listed
      <3>1. CASE Rp!GetPendingRequests(e)
        <4>1. screen' = [screen EXCEPT ![e] = @ \cup DOMAIN reqRows] /\ listed' = listed \cup {e}
          BY <3>1 DEF Rp!GetPendingRequests, Rp!Pending
        <4>2. screen[e] \cup DOMAIN reqRows \in SUBSET Nat
          BY <1>1, <2>7 DEF PushTypes
        <4> QED BY <2>7, <4>1, <4>2
      <3>2. CASE Rp!GetPendingFails(e)
        <4>1. UNCHANGED <<screen, listed>>
          BY <3>2 DEF Rp!GetPendingFails
        <4>2. screen' = [screen EXCEPT ![e] = screen[e]] /\ screen[e] \in SUBSET Nat
          BY <1>1, <4>1 DEF PushTypes
        <4> QED BY <4>1, <4>2
      <3> QED BY <1>6, <3>1, <3>2
    <2>9. /\ screen' \in [Devices -> SUBSET Nat] /\ listed' \in SUBSET Devices
          /\ \A d \in Devices : screen[d] \subseteq screen'[d]
          /\ k \subseteq screen'[e]
      BY <1>1, <2>8 DEF PushTypes
    <2>10. OpenInv'
      BY <1>1, <2>2, <2>6, <2>8 DEF OpenInv
    <2>11. KnownInv'
      <3>1. \A d \in Devices : \A i : Aware(d, i) => Aware(d, i)'
        BY <2>2, <2>9 DEF Aware
      <3>2. SUFFICES ASSUME NEW d \in listed', NEW i \in 1 .. Len(reqRows)
                     PROVE  Aware(d, i)' \/ \E r \in Requesters : Carries(work'[r], i)
        BY <2>2 DEF KnownInv
      <3>3. CASE d \in listed
        BY <1>1, <2>6, <3>1, <3>3 DEF KnownInv, PushTypes
      <3>4. CASE d \notin listed
        <4>1. d = e /\ i \in k
          BY <2>8, <3>4
        <4> QED BY <2>9, <4>1 DEF Aware
      <3> QED BY <3>3, <3>4
    <2> QED BY <1>1, <2>2, <2>5, <2>9, <2>10, <2>11 DEF PushInv, PushTypes, HonestInv
  <1> QED BY <1>3, <1>4, <1>5, <1>6 DEF Rp!DeviceStep

\* An idle connection is lost: threads that counted on the pool no longer do.
LEMMA LoseStep ==
  ASSUME PushInv, Rp!LoseConnection
  PROVE  PushInv'
  <1>1. PushTypes /\ HeldInv /\ WorkInv /\ OpenInv /\ KnownInv /\ HonestInv
    BY DEF PushInv
  <1>3. /\ work' = Rp!Disturbs("none", work)
        /\ UNCHANGED <<poolIdle, reqRows, device, screen, listed, pushes, unsaid>>
    BY DEF Rp!LoseConnection, Rp!screenVars, Rp!histPush, Rp!NoThread
  <1>4. work \in [Requesters \cup Devices -> Works]
    BY <1>1 DEF PushTypes
  <1>5. /\ work' \in [Requesters \cup Devices -> Works]
        /\ \A u \in Requesters \cup Devices :
             /\ work'[u].pc = work[u].pc /\ work'[u].next = work[u].next
             /\ work'[u].conn = work[u].conn /\ work'[u].row = work[u].row
             /\ work'[u].sess = work[u].sess
    BY <1>3, <1>4, Disturbed
  <1>6. PICK c \in Rp!Range(poolIdle) : lastId' = [lastId EXCEPT ![c] = 0]
    BY DEF Rp!LoseConnection, Rp!screenVars
  <1>7. PICK k \in 1 .. Len(poolIdle) : c = poolIdle[k]
    BY <1>1, <1>6 DEF Rp!Range, PushTypes
  <1>8. /\ lastId' \in [Conns -> Nat]
        /\ \A d \in Conns : d # c => lastId'[d] = lastId[d]
    BY <1>1, <1>6 DEF PushTypes
  <1>9. \A u \in Requesters \cup Devices : work[u].conn # 0 =>
          lastId'[work[u].conn] = lastId[work[u].conn]
    BY <1>1, <1>7, <1>8 DEF HeldInv
  <1>10. HeldInv'
    BY <1>1, <1>3, <1>5 DEF HeldInv
  <1>11. WorkInv'
    <2>1. \A u \in Requesters \cup Devices :
            WorkShape(work'[u]) /\ Named(work'[u], poolIdle', lastId')
      BY <1>1, <1>3, <1>4, <1>9, PoolSettings, OthersKeep
    <2> QED BY <1>1, <1>5, <2>1 DEF WorkInv
  <1>12. KnownInv'
    <2>1. ASSUME NEW i, NEW r \in Requesters, Carries(work[r], i) PROVE Carries(work'[r], i)
      BY <1>5, <2>1 DEF Carries
    <2> QED BY <1>1, <1>3, <2>1, CarriedOn
  <1>13. OpenInv'
    BY <1>1, <1>3, <1>5, StillOpen
  <1>14. HonestInv'
    BY <1>1, <1>3 DEF HonestInv
  <1> QED BY <1>1, <1>3, <1>8, <1>5, <1>10, <1>11, <1>12, <1>13, <1>14 DEF PushInv, PushTypes

LEMMA PushStep ==
  ASSUME PushInv, Rp!Next \/ UNCHANGED pushVars
  PROVE  PushInv'
  <1>1. CASE UNCHANGED pushVars
    <2>1. UNCHANGED <<poolIdle, lastId, reqRows, work, device, screen, listed, pushes, unsaid>>
      BY <1>1 DEF pushVars
    <2>2. KnownInv'
      BY <2>1, CarriedOn DEF PushInv
    <2> QED BY <2>1, <2>2 DEF PushInv, PushTypes, HeldInv, WorkInv, OpenInv, HonestInv
  <1>2. CASE Rp!Next
    BY <1>2, Returns, SenderStep, InsertStep, DeviceSteps, LoseStep
       DEF Rp!Next, Rp!RequesterStep, Rp!Threads
  <1> QED BY <1>1, <1>2

\* A friend request becomes known to every session of its receiver that has its pending
\* list, by push or by list and under its own id unless the pool was used in between, for
\* any number of senders, connections and sessions: AddFriendRequest, LAST_INSERT_ID(),
\* GetSessionByID and GetPendingRequests.  Excused are the sessions that GetSessionByID does
\* not name, rows it finds nobody for while OnClose erases a session, and INSERTs that
\* were reported failed.
THEOREM RequestsAreKnown == Spec => []RequestsArrive
  <1> DEFINE Inv == part = "requests" => PushInv
  <1>1. Init => Inv
    <2> SUFFICES ASSUME Rp!Init PROVE PushInv
      BY DEF Init
    <2>1. /\ poolIdle = PoolConns /\ lastId = [c \in Rp!Range(PoolConns) |-> 0] /\ reqRows = <<>>
          /\ work = [t \in Requesters \cup Devices |-> Rp!Idle]
          /\ device = [d \in Devices |-> "new"] /\ screen = [d \in Devices |-> {}]
          /\ listed = {} /\ pushes = {}
      BY DEF Rp!Init, Rp!Threads
    <2>2. Rp!Range(PoolConns) = Conns /\ PoolConns \in Seq(Conns)
      BY PoolSettings, SMTT(30) DEF Conns, Rp!Range
    <2>3. Rp!Idle \in Works /\ Rp!Idle.conn = 0 /\ Rp!Idle.pc = "idle" /\ WorkShape(Rp!Idle)
          /\ Named(Rp!Idle, poolIdle, lastId)
      BY DEF Rp!Idle, Rp!NoConn, Rp!NoSession, Works, Statements, WorkShape, Named
    <2>4. PushTypes
      <3>1. lastId \in [Conns -> Nat] /\ poolIdle \in Seq(Conns) /\ reqRows \in Seq(Requesters)
        BY <2>1, <2>2
      <3>2. work \in [Requesters \cup Devices -> Works]
        BY <2>1, <2>3
      <3>3. /\ device \in [Devices -> {"new", "on", "closing", "closed"}]
            /\ screen \in [Devices -> SUBSET Nat] /\ listed \in SUBSET Devices
        BY <2>1
      <3> QED BY <3>1, <3>2, <3>3 DEF PushTypes
    <2>5. HeldInv /\ WorkInv /\ OpenInv /\ KnownInv /\ HonestInv
      BY <2>1, <2>3, PoolSettings DEF HeldInv, WorkInv, OpenInv, KnownInv, HonestInv
    <2> QED BY <2>1, <2>4, <2>5 DEF PushInv
  <1>2. Inv /\ [Next]_allVars => Inv'
    <2> SUFFICES ASSUME Inv, [Next]_allVars, part' = "requests" PROVE PushInv'
      OBVIOUS
    <2>1. part = "requests" /\ (Rp!Next \/ UNCHANGED pushVars)
      BY DEF Next, Steps, allVars
    <2> QED BY <2>1, PushStep
  <1>3. Inv => RequestsArrive
    <2> SUFFICES ASSUME PushInv PROVE Rp!RequestsArrive
      BY DEF RequestsArrive
    <2>1. Rp!PushNamesItsRow
      BY DEF PushInv, HonestInv, Rp!PushNamesItsRow
    <2>2. DOMAIN reqRows = 1 .. Len(reqRows)
      BY DEF PushInv, PushTypes
    <2>3. \A i : \A r \in Requesters : work[r].pc = "idle" => ~Carries(work[r], i)
      BY DEF Carries
    <2>4. Rp!RequestIsKnown
      BY <2>2, <2>3 DEF PushInv, KnownInv, Aware, Rp!RequestIsKnown, Rp!Pending
    <2> QED BY <2>1, <2>4 DEF Rp!RequestsArrive
  <1> QED BY <1>1, <1>2, <1>3, PTL DEF Spec
=============================================================================
