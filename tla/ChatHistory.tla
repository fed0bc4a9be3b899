----------------------------- MODULE ChatHistory -----------------------------
(***************************************************************************)
(* What a client gets back on its connection: the answers of its session's *)
(* handlers (heartbeat, chat history) and the assistant's, which a         *)
(* detached thread sends when goagent replied or its deadline passed.      *)
(* Every answer carries the session's m_seq.  The history is read from     *)
(* t_chatmsg, where messages are dated by their senders and arrive from    *)
(* the handlers or, through RabbitMQ, later.                               *)
(*                                                                         *)
(* The sessions of the user Me, one after another; each handles a frame at *)
(* a time.  The assistant's thread holds a plain pointer to its session,   *)
(* which OnClose frees.  Delivery to the other users is ChatDelivery's.    *)
(***************************************************************************)
EXTENDS Integers, Sequences, FiniteSets

CONSTANTS
  Me, Friends,  \* users
  ChatGroups,   \* ids from 0xFFFFFFF on
  Dates,        \* a sender's timestamps; 0 is none
  HistoryLimit,        \* messages of a history
  MaxMessages,  \* bound: rows of t_chatmsg
  MaxFrames,    \* bound: frames of the client
  MaxReconnects \* bound: connections after the first

VARIABLES
  chatRows, \* t_chatmsg
  now,      \* the database's clock
  open,     \* the session's connection is up
  session,  \* which session it is, or was last
  mSeq,     \* m_seq, 0 before the first frame
  frames,   \* frames the client sent
  job,      \* the history request the session is answering, or NoTarget
  asking,   \* detached threads, by the frame and the session that started them
  last      \* what the client got last

histVars == <<chatRows, now, open, session, mSeq, frames, job, asking, last>>

Chatters == Friends \cup {Me}
Targets  == Friends \cup ChatGroups
NoTarget == "none"

Init ==
  /\ chatRows = <<>>
  /\ now = 1
  /\ open = TRUE /\ session = 0
  /\ mSeq = 0 /\ frames = 0
  /\ job = NoTarget
  /\ asking = {}
  /\ last = [kind |-> "none"]

-----------------------------------------------------------------------------
(* Frames *)

\* Mutant: the number of the first frame stays.
SeqOf_First(frame) == IF mSeq = 0 THEN frame ELSE mSeq

\* m_seq takes over the number the client gave the frame: its place.
SeqOf(frame) == frame

\* OnMessageReceived, with the handler's reading of the frame.
OnMessageReceived ==
  /\ frames < MaxFrames
  /\ open /\ job = NoTarget
  /\ frames' = frames + 1
  /\ mSeq' = SeqOf(frames + 1)

\* An answer with number seq, to frame `of'.
Answer(kind, seq, of) == [kind |-> kind, seq |-> seq, of |-> of]

OnHeartbeat ==
  /\ OnMessageReceived
  /\ last' = Answer("heartbeat", mSeq', frames')
  /\ UNCHANGED <<chatRows, now, open, session, job, asking>>

-----------------------------------------------------------------------------
(* Messages *)

\* FROM_UNIXTIME(timestamp), or NOW() when the message has none.
Dated(ts) == IF ts > 0 THEN ts ELSE now

\* The INSERT of a message.
SaveChatMsg(from, to, ts) ==
  /\ Len(chatRows) < MaxMessages
  /\ from # to
  /\ chatRows' = Append(chatRows, [from |-> from, to |-> to, ts |-> ts, time |-> Dated(ts)])

\* The session's own message: written by the handler, or left to the
\* persister or lost, when nothing is written here.
OnChat(to, ts) ==
  /\ OnMessageReceived
  /\ SaveChatMsg(Me, to, ts) \/ UNCHANGED chatRows
  /\ UNCHANGED <<now, open, session, job, asking, last>>

\* Another session's handler, or the persister, writes a message.
SavedElsewhere(from, to, ts) ==
  /\ SaveChatMsg(from, to, ts)
  /\ UNCHANGED <<now, open, session, mSeq, frames, job, asking, last>>

DatabaseTick ==
  /\ now + 1 \in Dates
  /\ now' = now + 1
  /\ UNCHANGED <<chatRows, open, session, mSeq, frames, job, asking, last>>

-----------------------------------------------------------------------------
(* The history *)

OnGetChatHistory(t) ==
  /\ OnMessageReceived
  /\ job' = t
  /\ UNCHANGED <<chatRows, now, open, session, asking, last>>

\* The WHERE clause: a group's messages, or those of the two users.
Between(t, r) ==
  IF t \in ChatGroups
  THEN r.to = t
  ELSE (r.from = Me /\ r.to = t) \/ (r.from = t /\ r.to = Me)

\* ORDER BY f_create_time DESC: rows of one second come in any order.
Before(i, j) == chatRows[i].time >= chatRows[j].time

\* The rows, in order, that the SELECT with its LIMIT may return.
Selected(t) ==
  LET rows == {i \in DOMAIN chatRows : Between(t, chatRows[i])}
      size == IF Cardinality(rows) < HistoryLimit THEN Cardinality(rows) ELSE HistoryLimit
  IN {q \in [1 .. size -> rows] :
        /\ \A i, j \in 1 .. size : i < j => q[i] # q[j] /\ Before(q[i], q[j])
        /\ \A i \in 1 .. size, r \in rows : (\E j \in 1 .. size : q[j] = r) \/ Before(q[i], r)}

\* The query and the response.
GetChatHistory ==
  /\ job # NoTarget
  /\ \E q \in Selected(job) :
       last' = [kind |-> "history", seq |-> mSeq, of |-> frames, target |-> job,
                 at |-> Len(chatRows),
                msgs |-> [i \in DOMAIN q |-> [row |-> q[i], timestamp |-> chatRows[q[i]].time]]]
  /\ job' = NoTarget
  /\ UNCHANGED <<chatRows, now, open, session, mSeq, frames, asking>>

\* No connection, or the query fails: code 100.
GetChatHistoryFails ==
  /\ job # NoTarget
  /\ last' = Answer("failed", mSeq, frames)
  /\ job' = NoTarget
  /\ UNCHANGED <<chatRows, now, open, session, mSeq, frames, asking>>

-----------------------------------------------------------------------------
(* The assistant *)

\* A chat message to the assistant: sendMessage starts a thread.
AskAgent ==
  /\ OnMessageReceived
  /\ asking' = asking \cup {[frame |-> frames', session |-> session]}
  /\ UNCHANGED <<chatRows, now, open, session, job, last>>

Alive(a) == open /\ a.session = session

\* The callback, on its thread, reads m_seq as it now is.
AgentReplies(a) ==
  /\ Alive(a)
  /\ asking' = asking \ {a}
  /\ last' = Answer("agent", mSeq, a.frame)
  /\ UNCHANGED <<chatRows, now, open, session, mSeq, frames, job>>

\* The callback of a session that is freed, using it: nothing is sent ...
FreedReplyIsLost(a) ==
  /\ ~ Alive(a)
  /\ asking' = asking \ {a}
  /\ UNCHANGED <<chatRows, now, open, session, mSeq, frames, job, last>>

\* ... or the server goes down ...
FreedReplyCrashes(a) ==
  /\ ~ Alive(a)
  /\ open' = FALSE /\ job' = NoTarget /\ asking' = {}
  /\ UNCHANGED <<chatRows, now, session, mSeq, frames, last>>

\* ... or it finds the session that has taken its place.  It may have been
\* another user's, whose question is number 0 here.
FreedReplyStrays(frame) ==
  /\ open
  /\ frame = 0 \/ \E a \in asking : a.frame = frame /\ ~ Alive(a)
  /\ asking' = {a \in asking : a.frame # frame}
  /\ last' = Answer("stray", mSeq, frame)
  /\ UNCHANGED <<chatRows, now, open, session, mSeq, frames, job>>

\* OnClose, on the session's loop: the session is erased.
OnClose ==
  /\ open /\ job = NoTarget
  /\ open' = FALSE
  /\ UNCHANGED <<chatRows, now, session, mSeq, frames, job, asking, last>>

\* The client connects again: a new session.
OnConnection ==
  /\ ~ open /\ session < MaxReconnects
  /\ open' = TRUE /\ session' = session + 1 /\ mSeq' = 0
  /\ UNCHANGED <<chatRows, now, frames, job, asking, last>>

Next ==
  \/ OnHeartbeat \/ AskAgent \/ OnClose \/ OnConnection \/ DatabaseTick
  \/ \E t \in Targets : OnGetChatHistory(t)
  \/ \E t \in Targets, ts \in Dates : OnChat(t, ts)
  \/ \E s \in Friends, t \in Chatters \cup ChatGroups, ts \in Dates : SavedElsewhere(s, t, ts)
  \/ GetChatHistory \/ GetChatHistoryFails
  \/ \E a \in asking : AgentReplies(a) \/ FreedReplyIsLost(a) \/ FreedReplyCrashes(a)
  \/ \E frame \in 0 .. MaxFrames : FreedReplyStrays(frame)

HistorySpec == Init /\ [][Next]_histVars

-----------------------------------------------------------------------------
(* Properties *)

\* The parties of the conversation a row, or a request, belongs to.
PartiesOf(r) == IF r.to \in ChatGroups THEN {r.to} ELSE {r.from, r.to}

\* The end of a conversation is what its history shows: nothing of another
\* one, and a message that was in the table is missing only if HistoryLimit others,
\* none of them dated earlier, are shown.  (Dated by its sender: one from a
\* slow clock may be missing as soon as it is stored.)  Each has the
\* timestamp its sender gave it, by which clients know the ones they have.
HistoryIsNewest ==
  last.kind = "history" =>
    LET shown == {last.msgs[i].row : i \in DOMAIN last.msgs}
        asked == PartiesOf([from |-> Me, to |-> last.target])
        conversation == {r \in 1 .. last.at : PartiesOf(chatRows[r]) = asked}
    IN /\ shown \subseteq conversation
       /\ Cardinality(shown) = Len(last.msgs)
       /\ \A r \in conversation \ shown :
            /\ Len(last.msgs) = HistoryLimit
            /\ \A k \in shown : chatRows[k].time >= chatRows[r].time
       /\ \A i \in DOMAIN last.msgs :
            LET ts == chatRows[last.msgs[i].row].ts IN ts > 0 => last.msgs[i].timestamp = ts

\* A handler's answer carries the number of its frame.  The assistant's carries
\* that of its question or, if the client went on meanwhile, of a later frame, so
\* that the number does not tell which question is answered: unless its session
\* was closed, when the answer, if it comes, is anybody's.
AnswersMatch ==
  last.kind \notin {"none", "stray"} =>
    IF last.kind = "agent"
    THEN last.of <= last.seq /\ last.seq <= frames
    ELSE last.seq = last.of

\* GetChatHistory shows the end of the conversation asked for, and a handler's
\* answer bears its frame's number.
HistorySound ==
  /\ HistoryIsNewest
  /\ AnswersMatch
=============================================================================
