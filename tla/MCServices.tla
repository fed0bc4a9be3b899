----------------------------- MODULE MCServices -----------------------------
(***************************************************************************)
(* The accounts, requests and answers of the server and its services.      *)
(* They share no state, so each is left in an initial state while the one  *)
(* that `part' names runs: the behaviours are those of every component,    *)
(* side by side, and a property of one of them holds here iff it holds of  *)
(* its own specification.                                                  *)
(***************************************************************************)
EXTENDS Integers, Sequences, FiniteSets

CONSTANTS
  Clients, Names, Mails, Existing, TTL, Cool, MaxAttempts, MaxClock, MaxCalls, MaxUnclear,
  Sessions, People, Groups, Nobody, MaxRequests, MaxFailed,
  Requesters, Devices, PoolConns, MaxFilings, MaxPushFaults,
  Tables, Declared, Foreign, MaxSqlErrors,
  MaxReqs, AgentUsers, FreeDaily, VipDaily, MaxLen, Days, MaxErrors,
  Owners, Messages, MaxCorpus, EmbedBatch, TopK, MaxRows, MaxAsks, MaxRagErrors, NoAsk,
  AvatarIds, Pictures, Unreadable, MaxSaves, MaxAtOnce, MaxSecond, MaxDiskErrors,
  Unsettled,
  WorkDirs, ExeDir, AbsoluteDir, Randoms, MaxBytes, Bodies, MaxMedia, MaxNano, MaxMediaErrors,
  Me, Friends, ChatGroups, Dates, HistoryLimit, MaxMessages, MaxFrames, MaxReconnects

VARIABLE part  \* the component that runs

\* Registration
VARIABLES
  mailClock, codes, calls, waiting, reg, rows, users, baseId, issued, proof, restarted,
  unclear

\* Accounts
VARIABLES
  row, cache, snap, job, asked, failures, acked, mixed, undone, doubtful

\* RequestPush
VARIABLES
  poolIdle, lastId, reqRows, work, filed, device, screen, listed, pushFaults, pushes, unsaid

\* Schema
VARIABLES
  hasDb, tables, boot, at, unread, rest, change, sqlErrors, clean

\* Agent
VARIABLES
  backend, data, today, req, errors, upgraded, turns, tries, admitted, waived, refused, forgot,
  crossed

\* Retrieval
VARIABLES
  vectors, chatRows, points, ensured, collection, mu, ask, ragErrors, paid

\* AvatarStore
VARIABLES
  avatars, second, saves, late, diskErrors, settled, spoiled, suspect, leftover, writes

\* MediaStore
VARIABLES
  relative, workDir, told, mediaFiles, nano, puts, mediaErrors, links

\* ChatHistory
VARIABLES
  chatTable, dbTime, up, session, mSeq, sentFrames, wanted, asking, gotten

Rg == INSTANCE Registration
Ac == INSTANCE Accounts
Rp == INSTANCE RequestPush
Sc == INSTANCE Schema
Ag == INSTANCE Agent
Rt == INSTANCE Retrieval
Av == INSTANCE AvatarStore
Ms == INSTANCE MediaStore
Hi == INSTANCE ChatHistory WITH now <- dbTime, open <- up, job <- wanted, last <- gotten,
              frames <- sentFrames, chatRows <- chatTable

regVars ==
  <<mailClock, codes, issued, restarted, calls, waiting, reg, rows, users, baseId, proof, unclear>>
accVars ==
  <<row, cache, snap, job, asked, failures, acked, mixed, undone, doubtful>>
pushVars ==
  <<poolIdle, lastId, reqRows, work, filed, device, screen, listed, pushFaults, pushes, unsaid>>
schemaVars ==
  <<hasDb, tables, boot, at, unread, rest, change, sqlErrors, clean>>
agentVars ==
  <<backend, data, today, req, errors, upgraded, turns, tries, admitted, waived, refused, forgot,
    crossed>>
ragVars ==
  <<vectors, chatRows, points, ensured, collection, mu, ask, ragErrors, paid>>
avatarVars ==
  <<avatars, second, saves, late, diskErrors, settled, spoiled, suspect, leftover, writes>>
mediaVars ==
  <<relative, workDir, told, mediaFiles, nano, puts, mediaErrors, links>>
histVars ==
  <<chatTable, dbTime, up, session, mSeq, sentFrames, wanted, asking, gotten>>

\* What the proofs need of the ids: a group is not a person.
ASSUME IdsApart == People \cap Groups = {}

\* What the proofs need of the mail service's settings and of the table at the
\* start: ids are drawn one after another, names and mails are unique.
ASSUME CodeSettings == TTL \in Nat /\ Cool \in Nat /\ MaxAttempts \in Nat \ {0}
ASSUME ExistingAccounts ==
  \A S \in Existing :
    /\ Cardinality(S) \in Nat /\ {u.id : u \in S} = 1 .. Cardinality(S)
    /\ \A u, v \in S : (u.name = v.name \/ u.mail = v.mail \/ u.id = v.id) => u = v

\* What they need of the tables: at least one, numbered in the order of the map.
ASSUME SomeTables == Cardinality(Tables) \in Nat \ {0} /\ Tables = 1 .. Cardinality(Tables)

\* What they need of the absence of a request: no request is it.
ASSUME NoAskIsNone == NoAsk \notin Nat

\* What they need of the pool: its connections differ, and the receiver's threads
\* are not a sender's.
ASSUME PoolSettings ==
  /\ PoolConns \in Seq(Nat \ {0})
  /\ \A i, j \in 1 .. Len(PoolConns) : PoolConns[i] = PoolConns[j] => i = j
  /\ Devices \cap Requesters = {} /\ "none" \notin Devices \cup Requesters

\* What they need of the agent: the limits are numbers, and a history has room for
\* whole turns, as the 100 messages of openai_provider.go have.
ASSUME AgentSettings ==
  /\ FreeDaily \in Nat /\ VipDaily \in Nat /\ Days \in Nat \ {0}
  /\ MaxLen \in Nat \ {0} /\ MaxLen % 2 = 0

\* What they need of the avatars: an id is written in digits, so that "_" ends it.
ASSUME AvatarSettings ==
  /\ MaxAtOnce \in Nat
  /\ \A id \in AvatarIds : id \in Seq({"0", "1", "2", "3", "4", "5", "6", "7", "8", "9"})

\* What they need of the history: groups are not users, and it has a length.
ASSUME HistorySettings == HistoryLimit \in Nat /\ (Friends \cup {Me}) \cap ChatGroups = {}

\* No account yet, or one that has the mail address.
AnAccount == {{}, {[id |-> 1, name |-> "n0", mail |-> "x"]}}

OneConn == <<1>>

\* Messages between two users, to a group, and ones that are not indexed.
SomeMessages ==
  {[from |-> "u1", to |-> "u2", kind |-> "text"], [from |-> "u1", to |-> "g", kind |-> "text"],
   [from |-> "u2", to |-> "u1", kind |-> "blank"], [from |-> "u2", to |-> "u1", kind |-> "media"]}

\* An id that is a prefix of the other.
TwoIds == {<<"1">>, <<"1", "2">>}

-----------------------------------------------------------------------------
Init ==
  /\ part \in {"registration", "accounts", "requests", "schema", "agent", "retrieval",
             "avatars", "media", "history"}
  /\ Rg!Init
  /\ part # "registration" => rows = {}
  /\ Ac!Init
  /\ Rp!Init
  /\ Sc!Init
  /\ part # "schema" => hasDb /\ \A t \in Tables : tables[t] = Sc!NoTable
  /\ Ag!Init
  /\ part # "agent" => backend = "redis"
  /\ Rt!Init
  /\ part # "retrieval" => vectors = "memory" /\ ~ collection
  /\ Av!Init
  /\ Ms!Init
  /\ part # "media" => relative /\ told /\ workDir = CHOOSE d \in WorkDirs : TRUE
  /\ Hi!Init

\* The component that runs takes its step.
Steps(rg, ac, rp, sc, ag, rt, av, ms, hi) ==
  /\ UNCHANGED part
  /\ IF part = "registration" THEN rg ELSE UNCHANGED regVars
  /\ IF part = "accounts" THEN ac ELSE UNCHANGED accVars
  /\ IF part = "requests" THEN rp ELSE UNCHANGED pushVars
  /\ IF part = "schema" THEN sc ELSE UNCHANGED schemaVars
  /\ IF part = "agent" THEN ag ELSE UNCHANGED agentVars
  /\ IF part = "retrieval" THEN rt ELSE UNCHANGED ragVars
  /\ IF part = "avatars" THEN av ELSE UNCHANGED avatarVars
  /\ IF part = "media" THEN ms ELSE UNCHANGED mediaVars
  /\ IF part = "history" THEN hi ELSE UNCHANGED histVars

Next == Steps(Rg!Next, Ac!Next, Rp!Next, Sc!Next, Ag!Next, Rt!Next, Av!Next, Ms!Next, Hi!Next)

allVars == <<part, regVars, accVars, pushVars, schemaVars, agentVars, ragVars, avatarVars,
            mediaVars, histVars>>

\* The fairness of each component, side by side.
Fairness ==
  /\ \A c \in Clients : WF_regVars(part = "registration" /\ Rg!SessionStep(c))
  /\ WF_regVars(part = "registration" /\ Rg!CleanupExpired)
  /\ WF_schemaVars(part = "schema" /\ Sc!InitStep)
  /\ \A a \in 1 .. MaxAsks :
       WF_ragVars(/\ part = "retrieval"
                  /\ a \in Rt!Asks
                  /\ ask[a].pc \notin {"over", "answered"}
                  /\ Rt!Step(a))

Spec == Init /\ [][Next]_allVars /\ Fairness

-----------------------------------------------------------------------------
(* Properties: those of the component that runs. *)

\* OnSendEmailCodeResponse, OnRegisterResponse and CodeStore: codes are good
\* once and in time, whatever calls fail or come late, and every account rests
\* on a code of its own and is unique.
RegistrationSound == part = "registration" => Rg!RegistrationSound

\* What a handler told its client is stored stays, in t_user and in the cache,
\* with the exceptions the parts name: handlers that crossed, that started from
\* an older copy, or whose UPDATE ran and was reported failed (UpdateUserInfo,
\* ModifyUserPassword, RenameGroup).
AccountsSound == part = "accounts" => Ac!AccountsSound

\* A pending friend request becomes known to its receiver, by push to one of its
\* sessions or by list, under its own id, with the exceptions the parts name
\* (AddFriendRequest, GetSessionByID, GetPendingRequests).
RequestsArrive == part = "requests" => Rp!RequestsArrive

\* A server that came up without a failed statement has every declared column
\* of every table as declared, whatever an older version, a crash in the
\* middle of an earlier start or a failed statement had left.  (A failed ALTER
\* does not keep the server from starting: CreateTable's IF NOT EXISTS turns
\* CheckTable's false into a success.)
SchemaReady == part = "schema" => Sc!SchemaReady

\* goagent: the quota is that of the user's tier and day, but for failed look-ups
\* and counts, and the history is what was said, however requests overlap and the
\* cache is lost.
AgentSound == part = "agent" => Ag!AgentSound

\* retriever.go: an answer rests on the owner's own window, all of it, and no row
\* is embedded again while it is stored.
RetrievalSound == part = "retrieval" => Rt!RetrievalSound

\* Uploaded files: used by one request at a time an id has its last accepted
\* picture, but for what failed calls left; overlapping uploads leave Find a
\* picture; old files do not pile up; and a link to a medium keeps its upload.
FilesStand ==
  /\ part = "avatars" => Av!AvatarsSound
  /\ part = "media" => Ms!MediaIsPermanent

\* GetChatHistory shows the end of the conversation asked for, and a handler's
\* answer bears its frame's number, the assistant's that or a later one.
HistorySound == part = "history" => Hi!HistorySound

\* Nobody waits for ever: sessions are answered by the mail service, expired
\* codes are collected, a start ends, and so does every retrieval.
ServicesProgress ==
  /\ part = "registration" => Rg!RequestIsAnswered
  /\ part = "registration" => Rg!StaleIsCollected
  /\ part = "schema" => Sc!StartEnds
  /\ part = "retrieval" => Rt!RetrieveEnds
=============================================================================
