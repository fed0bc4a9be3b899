------------------------------ MODULE MySqlPool ------------------------------
(***************************************************************************)
(* The connection pool of MySqlManager and the reconnecting MySQLTool it   *)
(* holds.  IO threads borrow a connection for one statement.               *)
(*                                                                         *)
(* m_poolMutex is only held for the few lines of acquire and release, so   *)
(* these are atomic; notify_one comes after the unlock and is a step of    *)
(* its own.  A thread in the condition variable's wait set is "wait", one  *)
(* that was woken and has to test the predicate again is "woken".          *)
(***************************************************************************)
EXTENDS Integers, Sequences, FiniteSets, Functions

CONSTANTS
  Threads,  \* IO threads that run statements
  Conns,    \* the connections of m_pool
  NoConn    \* no connection

ASSUME PoolAssumption ==
  /\ IsFiniteSet(Threads)
  /\ IsFiniteSet(Conns)
  /\ Conns # {}
  /\ NoConn \notin Conns

VARIABLES
  pc,       \* where each thread is in Query or Execute
  held,     \* the connection it has borrowed
  idle,     \* m_idle, a stack whose top is the last element
  handle,   \* m_mysql of each connection: open, broken (the server closed its
            \* end), closed (and the client library knows) or null
  outcome,  \* result of the thread's statement
  serverUp

vars == <<pc, held, idle, handle, outcome, serverUp>>

Handles == {"open", "broken", "closed", "null"}

\* MySqlManager::Init connects every connection and makes it idle.
Init ==
  /\ pc = [t \in Threads |-> "out"]
  /\ held = [t \in Threads |-> NoConn]
  /\ idle \in Surjection(1..Cardinality(Conns), Conns)
  /\ handle = [c \in Conns |-> "open"]
  /\ outcome = [t \in Threads |-> "none"]
  /\ serverUp = TRUE

-----------------------------------------------------------------------------
(* acquire and release *)

\* Mutant: the connection stays on the stack.
Take_NoPop(t) ==
  /\ idle # <<>>
  /\ held' = [held EXCEPT ![t] = idle[Len(idle)]]
  /\ idle' = idle
  /\ pc' = [pc EXCEPT ![t] = "use"]

\* The thread takes the connection on top of the stack.
Take(t) ==
  /\ idle # <<>>
  /\ held' = [held EXCEPT ![t] = idle[Len(idle)]]
  /\ idle' = SubSeq(idle, 1, Len(idle) - 1)
  /\ pc' = [pc EXCEPT ![t] = "use"]

\* Nothing is idle: the thread joins the wait set of m_poolCv.
Wait(t) ==
  /\ idle = <<>>
  /\ pc' = [pc EXCEPT ![t] = "wait"]
  /\ UNCHANGED <<held, idle>>

\* A statement begins; a thread that was woken tests the predicate again.
Acquire(t) ==
  /\ pc[t] \in {"out", "woken"}
  /\ Take(t) \/ Wait(t)
  /\ UNCHANGED <<handle, outcome, serverUp>>

\* A condition variable may wake a thread for no reason.
SpuriousWakeup(t) ==
  /\ pc[t] = "wait"
  /\ pc' = [pc EXCEPT ![t] = "woken"]
  /\ UNCHANGED <<held, idle, handle, outcome, serverUp>>

\* Mutant: the waiting threads are not notified.
Release_NoNotify(t) ==
  /\ pc[t] = "release"
  /\ idle' = Append(idle, held[t])
  /\ held' = [held EXCEPT ![t] = NoConn]
  /\ pc' = [pc EXCEPT ![t] = "out"]
  /\ outcome' = [outcome EXCEPT ![t] = "none"]
  /\ UNCHANGED <<handle, serverUp>>

\* The connection goes back on the stack ...
Release(t) ==
  /\ pc[t] = "release"
  /\ idle' = Append(idle, held[t])
  /\ held' = [held EXCEPT ![t] = NoConn]
  /\ pc' = [pc EXCEPT ![t] = "notify"]
  /\ outcome' = [outcome EXCEPT ![t] = "none"]
  /\ UNCHANGED <<handle, serverUp>>

Waiting == {w \in Threads : pc[w] = "wait"}

\* ... and, the mutex released, one waiting thread is woken if there is any.
NotifyOne(t) ==
  /\ pc[t] = "notify"
  /\ \/ /\ Waiting = {}
        /\ pc' = [pc EXCEPT ![t] = "out"]
     \/ \E w \in Waiting : pc' = [pc EXCEPT ![t] = "out", ![w] = "woken"]
  /\ UNCHANGED <<held, idle, handle, outcome, serverUp>>

-----------------------------------------------------------------------------
(* MySQLTool: Query and Execute *)

\* The statement's result, and what it leaves of the handle.
Finish(t, h, result) ==
  /\ handle' = [handle EXCEPT ![held[t]] = h]
  /\ outcome' = [outcome EXCEPT ![t] = result]
  /\ pc' = [pc EXCEPT ![t] = "release"]
  /\ UNCHANGED <<held, idle, serverUp>>

\* The server answers (that the SQL is refused is an answer too).
Answered(t) ==
  /\ pc[t] \in {"use", "retry"}
  /\ handle[held[t]] = "open"
  /\ Finish(t, "open", "answered")

\* The first attempt fails with an error other than CR_SERVER_GONE_ERROR: the
\* broken connection is noticed while waiting for the answer.
LostDuringQuery(t) ==
  /\ pc[t] = "use"
  /\ handle[held[t]] = "broken"
  /\ Finish(t, "closed", "failed")

\* A second attempt fails, whatever the error.
RetryFails(t) ==
  /\ pc[t] = "retry"
  /\ handle[held[t]] # "open"
  /\ Finish(t, "closed", "failed")

\* Mutant: a handle that is null is given up.
Reconnect_NullStays(t) ==
  /\ pc[t] = "use"
  /\ handle[held[t]] # "open"
  /\ IF serverUp /\ handle[held[t]] # "null"
       THEN /\ handle' = [handle EXCEPT ![held[t]] = "open"]
            /\ pc' = [pc EXCEPT ![t] = "retry"]
            /\ UNCHANGED <<held, idle, outcome, serverUp>>
       ELSE Finish(t, "null", "failed")

\* No handle, or CR_SERVER_GONE_ERROR: connect again (on the default port, the
\* only one main uses).  Then the first attempt is made, or the second.  When
\* connect fails the handle stays null.
Reconnect(t) ==
  /\ pc[t] = "use"
  /\ handle[held[t]] # "open"
  /\ IF serverUp
       THEN /\ handle' = [handle EXCEPT ![held[t]] = "open"]
            /\ pc' = [pc EXCEPT ![t] = IF handle[held[t]] = "null" THEN "use" ELSE "retry"]
            /\ UNCHANGED <<held, idle, outcome, serverUp>>
       ELSE Finish(t, "null", "failed")

\* The server closes its connections: it stops, or wait_timeout is over.
ServerCloses(C) ==
  /\ serverUp' \in BOOLEAN
  /\ handle' = [c \in Conns |-> IF c \in C /\ handle[c] = "open" THEN "broken" ELSE handle[c]]
  /\ C = Conns \/ serverUp'
  /\ UNCHANGED <<pc, held, idle, outcome>>

-----------------------------------------------------------------------------
(* Specification *)

Proceed(t) ==
  \/ pc[t] = "woken" /\ Acquire(t)
  \/ Release(t)
  \/ NotifyOne(t)
  \/ Answered(t)
  \/ LostDuringQuery(t)
  \/ Reconnect(t)
  \/ RetryFails(t)

Begin(t) == pc[t] = "out" /\ Acquire(t)

Next ==
  \/ \E t \in Threads : Begin(t) \/ Proceed(t) \/ SpuriousWakeup(t)
  \/ \E C \in SUBSET Conns : ServerCloses(C)

Spec == Init /\ [][Next]_vars

\* A thread inside Query or Execute is not stopped.
FairSpec == Spec /\ \A t \in Threads : WF_vars(Proceed(t))

-----------------------------------------------------------------------------
(* Properties *)

Holding(t) == pc[t] \in {"use", "retry", "release"}

\* Types of the pool, the connections and the threads' locals.
TypeOK ==
  /\ pc \in [Threads -> {"out", "wait", "woken", "use", "retry", "release", "notify"}]
  /\ held \in [Threads -> Conns \cup {NoConn}]
  /\ idle \in Seq(Conns)
  /\ handle \in [Conns -> Handles]
  /\ outcome \in [Threads -> {"none", "answered", "failed"}]
  /\ serverUp \in BOOLEAN

\* Every connection is in one place: once on the stack or with one thread.  So
\* a MYSQL*, which is not thread-safe, is never used by two threads, and no
\* connection leaks out of the pool.
EveryConnectionOnce ==
  /\ \A i, j \in DOMAIN idle : idle[i] = idle[j] => i = j
  /\ \A t \in Threads : Holding(t) => held[t] \in Conns \ Range(idle)
  /\ \A t, u \in Threads : Holding(t) /\ Holding(u) /\ held[t] = held[u] => t = u
  /\ \A c \in Conns : c \in Range(idle) \/ \E t \in Threads : Holding(t) /\ held[t] = c

\* Threads that were woken or are about to wake one.
Alerted == {t \in Threads : pc[t] \in {"woken", "notify"}}

\* No wakeup is lost although notify_one comes after the unlock and other
\* threads may take the connection first: while threads wait, every idle
\* connection has a woken thread or a notification under way for it.
NoLostWakeup == Waiting # {} => Len(idle) <= Cardinality(Alerted)

\* When no new statement begins, every thread gets its connection and is done.
StatementsFinish ==
  <>[][\A t \in Threads : ~ Begin(t)]_vars
    => \A t \in Threads : pc[t] # "out" ~> pc[t] = "out"

\* The pool heals: once the server stays up and closes no
\* more connections, statements stop failing, also on handles that are null.
PoolHeals ==
  /\ <>[]serverUp
  /\ <>[][\A c \in Conns : handle[c] = "open" => handle'[c] = "open"]_vars
  => <>[](\A t \in Threads : outcome[t] # "failed")
=============================================================================
