----------------------------- MODULE Retrieval -----------------------------
(***************************************************************************)
(* goagent's retrieval (rag_qa): Retriever.EnsureIndexed embeds the        *)
(* owner's chat rows that the vector store has not got yet, one request at *)
(* a time under Retriever.mu, and Retrieve then searches the store.        *)
(*                                                                         *)
(* One step per call that leaves the process (MySQL, embeddings, vector    *)
(* store).  Vectors and scores are left out: any k of the owner's points   *)
(* may be the nearest ones.                                                *)
(*                                                                         *)
(* History: paid, and the fields seen and found of a request.              *)
(***************************************************************************)
EXTENDS Integers, Sequences, FiniteSets

LOCAL INSTANCE FiniteSetsExt

CONSTANTS
  Owners,     \* user ids
  Messages,   \* bound: rows that may be stored, [from, to, kind], kind "text", "blank" or "media"
  MaxCorpus,  \* newest rows that are indexed
  EmbedBatch, \* texts per embedding call
  TopK,       \* points a search returns at most
  MaxRows,    \* bound: rows of t_chatmsg
  MaxAsks,    \* bound: requests, one goroutine each
  MaxRagErrors, \* bound: failing calls, passed deadlines, restarts
  NoAsk

VARIABLES
  vectors,     \* "memory" (MemoryStore) or "qdrant" (QdrantStore)
  chatRows,    \* t_chatmsg: sender, target and what f_msgcontent holds
  points,      \* the store: a point's key, and the owner and row in its payload
  ensured,     \* QdrantStore.ensured
  collection,  \* the Qdrant collection exists
  mu,          \* Retriever.mu: the request that holds it
  ask,         \* the requests so far
  ragErrors,   \* faults so far
  paid         \* history: embeddings bought for an owner and row, less those whose point
               \* may not have been stored

ragVars == <<vectors, chatRows, points, ensured, collection, mu, ask, ragErrors, paid>>

Pairs == Owners \X (1 .. MaxRows)
Asks == 1 .. Len(ask)
Over == [pc |-> "over"]

Init ==
  /\ vectors \in {"memory", "qdrant"}
  /\ chatRows = <<>> /\ points = {} /\ ask = <<>>
  /\ ensured = FALSE /\ collection \in BOOLEAN
  /\ mu = NoAsk
  /\ ragErrors = 0
  /\ paid = [p \in Pairs |-> 0]

At(a, pc) == ask[a].pc = pc
Owner(a) == ask[a].owner
Fault == ragErrors < MaxRagErrors /\ ragErrors' = ragErrors + 1
\* A call fails: surely when the caller's deadline has passed, else as a fault.
FaultUnless(sure) == IF sure THEN UNCHANGED ragErrors ELSE Fault
Alive(a) == ~ ask[a].late

\* GoChatPersister stores a message to a user or a group.
StoreRow(row) ==
  /\ Len(chatRows) < MaxRows
  /\ chatRows' = Append(chatRows, row)
  /\ UNCHANGED <<vectors, points, ensured, collection, mu, ask, ragErrors, paid>>

-----------------------------------------------------------------------------
(* The vector stores *)

\* Mutant: the point of a row is the same for every owner.
PointID_RowOnly(o, m) == <<m>>

\* pointID of the owner and f_id; MemoryStore keeps one map per owner.
PointID(o, m) == <<o, m>>

HasIDs(o, ms) == {m \in ms : \E p \in points : p.key = PointID(o, m)}

\* Points with the same key are overwritten.
Upserted(o, ms) ==
  {p \in points : \A m \in ms : p.key # PointID(o, m)}
    \cup {[key |-> PointID(o, m), owner |-> o, row |-> m] : m \in ms}

\* The payload filter owner = o; the owner's map in memory.
InScope(p, o) == p.owner = o

\* What a search may return: the k nearest, whichever they are.
Nearest(o) ==
  LET mine == {p \in points : InScope(p, o)}
  IN {hits \in SUBSET mine : Cardinality(hits) = Min({TopK, Cardinality(mine)})}

-----------------------------------------------------------------------------
(* EnsureIndexed *)

\* Retrieve, called by ProcessMessage with skill rag_qa.
Retrieve(o) ==
  /\ Len(ask) < MaxAsks
  /\ ask' = Append(ask, [pc |-> "lock", owner |-> o, late |-> FALSE, todo |-> {}, batch |-> {},
                          seen |-> {}, found |-> {}])
  /\ UNCHANGED <<vectors, chatRows, points, ensured, collection, mu, ragErrors, paid>>

Lock(a) ==
  /\ At(a, "lock") /\ mu = NoAsk
  /\ mu' = a
  /\ ask' = [ask EXCEPT ![a].pc = "load"]
  /\ UNCHANGED <<vectors, chatRows, points, ensured, collection, ragErrors, paid>>

\* EnsureIndexed returns; Retrieve goes on to the query.
Indexed(a) ==
  /\ mu' = NoAsk
  /\ ask' = [ask EXCEPT ![a].pc = "query"]

\* Mutant: an error leaves without the deferred unlock.
Failed_KeepsLock(a) == UNCHANGED mu /\ ask' = [ask EXCEPT ![a] = Over]

\* EnsureIndexed returns the error, and so does Retrieve.
Failed(a) ==
  /\ mu' = NoAsk
  /\ ask' = [ask EXCEPT ![a] = Over]

\* The newest MaxCorpus text rows that the owner sent or received; rows of
\* blanks are passed over, those of other types are not selected.
LoadUserTextMessages(o) ==
  LET texts == {m \in 1 .. Len(chatRows) :
                  o \in {chatRows[m].from, chatRows[m].to} /\ chatRows[m].kind # "media"}
      newest == {m \in texts : Cardinality({n \in texts : n > m}) < MaxCorpus}
  IN {m \in newest : chatRows[m].kind = "text"}

Load(a) ==
  LET cand == LoadUserTextMessages(Owner(a))
  IN /\ At(a, "load") /\ Alive(a)
     /\ IF cand = {} THEN Indexed(a)
        ELSE /\ ask' = [ask EXCEPT ![a].pc = "has", ![a].todo = cand, ![a].seen = cand]
             /\ UNCHANGED mu
     /\ UNCHANGED <<vectors, chatRows, points, ensured, collection, ragErrors, paid>>

\* HasIDs, and the rows that are left.
Pending(a) ==
  LET left == ask[a].todo \ HasIDs(Owner(a), ask[a].todo)
  IN /\ At(a, "has") /\ (vectors = "memory" \/ Alive(a))
     /\ IF left = {} THEN Indexed(a)
        ELSE /\ ask' = [ask EXCEPT ![a].pc = "embed", ![a].todo = left]
             /\ UNCHANGED mu
     /\ UNCHANGED <<vectors, chatRows, points, ensured, collection, ragErrors, paid>>

Pay(o, ms, n) == [p \in Pairs |-> IF p[1] = o /\ p[2] \in ms THEN paid[p] + n ELSE paid[p]]

\* The next rows, newest first.
NextBatch(ms) == {m \in ms : Cardinality({n \in ms : n > m}) < EmbedBatch}

\* Embed one batch.  A provider that repeats an index leaves another empty: that
\* row is passed over and is pending again the next time.
Embed(a, got) ==
  LET batch == NextBatch(ask[a].todo)
  IN /\ At(a, "embed") /\ Alive(a)
     /\ got \subseteq batch
     /\ IF got = batch THEN UNCHANGED ragErrors ELSE Fault
     /\ ask' = [ask EXCEPT ![a].pc = "upsert", ![a].todo = @ \ batch, ![a].batch = got,
                            ![a].seen = @ \ (batch \ got)]
     /\ paid' = Pay(Owner(a), got, 1)
     /\ UNCHANGED <<vectors, chatRows, points, ensured, collection, mu>>

\* Upsert: the collection is made sure of, then the points are written.
Upsert(a) ==
  /\ At(a, "upsert") /\ (vectors = "memory" \/ ask[a].batch = {} \/ Alive(a))
  /\ points' = Upserted(Owner(a), ask[a].batch)
  /\ IF vectors = "memory" \/ ask[a].batch = {} THEN UNCHANGED <<ensured, collection>>
     ELSE ensured' = TRUE /\ collection' = TRUE
  /\ IF ask[a].todo = {} THEN Indexed(a)
     ELSE ask' = [ask EXCEPT ![a].pc = "embed", ![a].batch = {}] /\ UNCHANGED mu
  /\ UNCHANGED <<vectors, chatRows, ragErrors, paid>>

\* Qdrant fails at one of the calls of Upsert; the last one may have been
\* carried out all the same.
UpsertFails(a, written) ==
  /\ At(a, "upsert") /\ vectors = "qdrant" /\ ask[a].batch # {}
  /\ FaultUnless(ask[a].late)
  /\ written => ~ ask[a].late
  /\ points' = IF written THEN Upserted(Owner(a), ask[a].batch) ELSE points
  /\ ensured' \in {ensured, ensured \/ ~ ask[a].late}
  /\ collection' \in {collection, collection \/ ~ ask[a].late}
  /\ ensured' => collection'
  /\ written => ensured'
  /\ paid' = Pay(Owner(a), ask[a].batch, -1)
  /\ Failed(a)
  /\ UNCHANGED <<vectors, chatRows>>

\* MySQL, HasIDs or the embeddings fail.
IndexFails(a) ==
  /\ \/ ask[a].pc \in {"load", "embed"}
     \/ At(a, "has") /\ vectors = "qdrant"
  /\ FaultUnless(ask[a].late)
  /\ Failed(a)
  /\ UNCHANGED <<vectors, chatRows, points, ensured, collection, paid>>

-----------------------------------------------------------------------------
(* The query, outside the lock *)

Search(a) ==
  /\ At(a, "query") /\ Alive(a)
  /\ \E hits \in Nearest(Owner(a)) :
       ask' = [ask EXCEPT ![a].pc = "answered", ![a].found = {p.row : p \in hits}]
  /\ UNCHANGED <<vectors, chatRows, points, ensured, collection, mu, ragErrors, paid>>

QueryFails(a) ==
  /\ At(a, "query")
  /\ FaultUnless(ask[a].late)
  /\ ask' = [ask EXCEPT ![a] = Over]
  /\ UNCHANGED <<vectors, chatRows, points, ensured, collection, mu, paid>>

CallerGone(a) ==
  /\ ask[a].pc \in {"lock", "load", "has", "embed", "upsert", "query"} /\ Alive(a)
  /\ Fault
  /\ ask' = [ask EXCEPT ![a].late = TRUE]
  /\ UNCHANGED <<vectors, chatRows, points, ensured, collection, mu, paid>>

\* goagent starts again: its memory is gone, Qdrant's points are not.
AgentRestart ==
  /\ Fault
  /\ mu' = NoAsk /\ ensured' = FALSE
  /\ ask' = [a \in Asks |-> Over]
  /\ points' = IF vectors = "memory" THEN {} ELSE points
  /\ paid' = [p \in Pairs |-> 0]
  /\ UNCHANGED <<vectors, chatRows, collection>>

Step(a) ==
  \/ Lock(a) \/ Load(a) \/ Pending(a) \/ Upsert(a) \/ IndexFails(a) \/ Search(a) \/ QueryFails(a)
  \/ \E got \in SUBSET NextBatch(ask[a].todo) : Embed(a, got)
  \/ \E written \in BOOLEAN : UpsertFails(a, written)

Next ==
  \/ \E a \in Asks : ask[a].pc \notin {"over", "answered"} /\ (Step(a) \/ CallerGone(a))
  \/ \E o \in Owners : Retrieve(o)
  \/ \E row \in Messages : StoreRow(row)
  \/ AgentRestart

\* A goroutine runs on; the mutex is fair and every call ends within its timeout.
Fairness ==
  \A a \in 1 .. MaxAsks :
    WF_ragVars(a \in Asks /\ ask[a].pc \notin {"over", "answered"} /\ Step(a))

Spec == Init /\ [][Next]_ragVars /\ Fairness

-----------------------------------------------------------------------------
(* Properties *)

\* However many requests of an owner index at once, a row that is in the store
\* is not embedded again: a further embedding is bought only where the point of
\* the one before may be missing (retriever.go: "避免并发重复 embedding").
EmbeddedOnce == \A p \in Pairs : paid[p] <= 1

\* When a request gets to its query, the store holds, for its own owner, every
\* row that it found in its window and that the provider did not leave out.
WindowIsIndexed ==
  \A a \in Asks : ask[a].pc \in {"query", "answered"} =>
    \A m \in ask[a].seen : \E p \in points : p.owner = Owner(a) /\ p.row = m

\* An answer is built only from rows that the owner sent or received.
AnswerInScope ==
  \A a \in Asks : At(a, "answered") =>
    \A m \in ask[a].found : Owner(a) \in {chatRows[m].from, chatRows[m].to}

\* Every request ends, whatever fails on the way: nobody keeps the mutex.
RetrieveEnds ==
  LET Under == {a \in Asks : ask[a].pc \notin {"over", "answered"}}
  IN Under # {} ~> Under = {}

\* retriever.go: an answer rests on the owner's own window, all of it, and no row
\* is embedded again while it is stored.
RetrievalSound ==
  /\ EmbeddedOnce
  /\ WindowIsIndexed
  /\ AnswerInScope
=============================================================================
