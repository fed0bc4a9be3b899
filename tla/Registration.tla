---------------------------- MODULE Registration ----------------------------
(***************************************************************************)
(* Registration by mail code: the sessions' OnSendEmailCodeResponse and    *)
(* OnRegisterResponse, the blocking gRPC calls of MailGrpcClient with      *)
(* their ten-second deadline, GoMailServer's MailService over CodeStore    *)
(* and SMTP, and UserManager::AddUser.                                     *)
(*                                                                         *)
(* CodeStore holds mu and AddUser holds m_mutex throughout, so each of     *)
(* their methods is one step.  A call whose deadline passes is forgotten   *)
(* by its session while the service may still carry it out.  A code is a   *)
(* number never drawn before: randomDigits is taken not to repeat.         *)
(*                                                                         *)
(* History variables: issued, proof, restarted, unclear.                   *)
(***************************************************************************)
EXTENDS Integers, Sequences, FiniteSets

CONSTANTS
  Clients,      \* sessions
  Names,        \* usernames asked for
  Mails,        \* well-formed mail addresses
  Existing,     \* sets of accounts LoadUserFromDB may find
  TTL,          \* CodeStore.ttl
  Cool,         \* CodeStore.cool
  MaxAttempts,  \* maxVerifyAttempts
  MaxClock,     \* bound: the clock
  MaxCalls,     \* bound: gRPC calls to the mail service
  MaxUnclear    \* bound: INSERTs that run and are reported failed

VARIABLES
  mailClock,   \* time.Now() of the mail service
  codes,       \* CodeStore.codes: mail -> entry
  calls,       \* gRPC calls in the order they were made
  waiting,     \* the call each session is blocked in, 0 if none
  reg,         \* the registration a session is working on
  rows,        \* t_user
  users,       \* m_cachedUsers
  baseId,      \* m_baseUserID
  issued,      \* history: what became of each code
  proof,       \* history: user id -> the code that proved its mail
  restarted,   \* history: the mail service lost its codes
  unclear      \* history: ids of rows whose INSERT was reported failed

mailVars == <<mailClock, codes, issued, restarted>>
userVars == <<rows, users, baseId, proof, unclear>>
regVars == <<mailVars, calls, waiting, reg, userVars>>

NoCode == 0
NoReg == <<>>
NoEntry == [code |-> NoCode]

\* m_baseUserID as LoadUserFromDB leaves it: the largest id it read.
BaseId(S) == CHOOSE n \in {0} \cup {u.id : u \in S} : \A u \in S : u.id <= n

Init ==
  /\ mailClock = 0
  /\ codes = [m \in Mails |-> NoEntry]
  /\ calls = <<>>
  /\ waiting = [c \in Clients |-> 0]
  /\ reg = [c \in Clients |-> NoReg]
  /\ rows \in Existing /\ users = rows /\ baseId = BaseId(rows)
  /\ issued = <<>> /\ proof = [u \in 1 .. baseId |-> NoCode]
  /\ restarted = FALSE /\ unclear = {}

-----------------------------------------------------------------------------
(* The session's side of a call: MailGrpcClient *)

\* A call that nobody waits for and the service is done with.
Over == [op |-> "over", mail |-> "", code |-> NoCode, st |-> "over"]

Idle(c) == waiting[c] = 0 /\ reg[c] = NoReg

\* stub->Method(&ctx, req, &rsp): the IO thread blocks in it.
Call(c, r) ==
  /\ Len(calls) < MaxCalls
  /\ calls' = Append(calls, r)
  /\ waiting' = [waiting EXCEPT ![c] = Len(calls) + 1]

\* OnSendEmailCodeResponse with an address both services accept.
OnSendEmailCode(c, m) ==
  /\ Idle(c)
  /\ Call(c, [op |-> "send", mail |-> m, code |-> NoCode, st |-> "sent"])
  /\ UNCHANGED <<mailVars, reg, userVars>>

\* OnRegisterResponse up to VerifyCode; the code may be any the client knows or guesses.
OnRegister(c, n, m, code) ==
  /\ Idle(c)
  /\ Call(c, [op |-> "verify", mail |-> m, code |-> code, st |-> "sent"])
  /\ reg' = [reg EXCEPT ![c] = [name |-> n, mail |-> m, code |-> code]]
  /\ UNCHANGED <<mailVars, userVars>>

\* set_deadline(now + 10 s).
Overdue(c) == waiting[c] /= 0

\* The call fails for the session (deadline or transport): code 3, or 104 with
\* no AddUser.
Deadline(c) ==
  /\ Overdue(c)
  /\ waiting' = [waiting EXCEPT ![c] = 0]
  /\ reg' = [reg EXCEPT ![c] = NoReg]
  /\ calls' = [calls EXCEPT ![waiting[c]] = IF @.st \in {"sent", "smtp"} THEN @ ELSE Over]
  /\ UNCHANGED <<mailVars, userVars>>

\* Mutant: any answer counts as verified.
Verified_AnyReply(i) == calls[i].st \in {"ok", "refused"}

\* result.ok = (rsp.code() == 0).
Verified(i) == calls[i].st = "ok"

Answered(c) == waiting[c] /= 0 /\ calls[waiting[c]].st \in {"ok", "refused", "failed"}

\* The reply releases the session, which answers its client unless the code of a
\* registration was verified: then AddUser is next.
Reply(c) ==
  /\ Answered(c)
  /\ waiting' = [waiting EXCEPT ![c] = 0]
  /\ reg' = [reg EXCEPT ![c] = IF @ /= NoReg /\ Verified(waiting[c]) THEN @ ELSE NoReg]
  /\ calls' = [calls EXCEPT ![waiting[c]] = Over]
  /\ UNCHANGED <<mailVars, userVars>>

-----------------------------------------------------------------------------
(* UserManager::AddUser *)

Taken(r) == \E u \in users : u.name = r.name \/ u.mail = r.mail

\* The id drawn is free in the table (its primary key).
Fresh == \A u \in rows : u.id /= baseId + 1

Drawn(r) == [id |-> baseId + 1, name |-> r.name, mail |-> r.mail]

\* Refused (1 or 2), or the INSERT failed without effect (3): nothing changes.
AddUserRefused(c) ==
  /\ waiting[c] = 0 /\ reg[c] /= NoReg
  /\ reg' = [reg EXCEPT ![c] = NoReg]
  /\ UNCHANGED <<mailVars, calls, waiting, userVars>>

\* The INSERT ran and Execute says it failed (3): the row is not in the cache, and
\* its id is drawn again.
AddUserUnclear(c) ==
  /\ waiting[c] = 0 /\ reg[c] /= NoReg
  /\ ~ Taken(reg[c]) /\ Fresh
  /\ Cardinality(unclear) < MaxUnclear
  /\ rows' = rows \cup {Drawn(reg[c])}
  /\ proof' = Append(proof, reg[c].code)
  /\ unclear' = unclear \cup {baseId + 1}
  /\ reg' = [reg EXCEPT ![c] = NoReg]
  /\ UNCHANGED <<mailVars, calls, waiting, users, baseId>>

AddUser(c) ==
  /\ waiting[c] = 0 /\ reg[c] /= NoReg
  /\ ~ Taken(reg[c]) /\ Fresh
  /\ rows' = rows \cup {Drawn(reg[c])}
  /\ users' = users \cup {Drawn(reg[c])}
  /\ baseId' = baseId + 1
  /\ proof' = Append(proof, reg[c].code)
  /\ reg' = [reg EXCEPT ![c] = NoReg]
  /\ UNCHANGED <<mailVars, calls, waiting, unclear>>

\* IMServer is started again: LoadUserFromDB reads the table, and the calls of
\* its sessions are forgotten.
ServerRestart ==
  /\ users' = rows
  /\ baseId' = BaseId(rows)
  /\ waiting' = [c \in Clients |-> 0]
  /\ reg' = [c \in Clients |-> NoReg]
  /\ calls' = [i \in DOMAIN calls |-> IF calls[i].st \in {"sent", "smtp"} THEN calls[i] ELSE Over]
  /\ UNCHANGED <<mailVars, rows, proof, unclear>>

-----------------------------------------------------------------------------
(* MailService and CodeStore *)

Cooling(m) == codes[m] /= NoEntry /\ mailClock - codes[m].lastSent < Cool

\* The call returns; its answer is dropped when the session has given up.
Return(i, st) ==
  calls' = [calls EXCEPT ![i] = IF \E c \in Clients : waiting[c] = i
                                THEN [@ EXCEPT !.st = st] ELSE Over]

Arrived(i, op) == i \in 1 .. Len(calls) /\ calls[i].st = "sent" /\ calls[i].op = op

\* MailService.SendCode: Generate within its cooldown.
SendTooSoon(i) ==
  /\ Arrived(i, "send")
  /\ Cooling(calls[i].mail)
  /\ Return(i, "refused")
  /\ UNCHANGED <<mailVars, waiting, reg, userVars>>

\* Generate draws a new code, which replaces the one before it.
Generate(i) ==
  LET m == calls[i].mail
      k == Len(issued) + 1
  IN /\ Arrived(i, "send")
     /\ ~ Cooling(m)
     /\ codes' = [codes EXCEPT ![m] = [code |-> k, expireAt |-> mailClock + TTL,
                                       lastSent |-> mailClock, attempts |-> 0]]
     /\ issued' = Append(issued, [mail |-> m, at |-> mailClock, wrong |-> 0, uses |-> 0,
                                  usedAt |-> mailClock, lost |-> FALSE])
     /\ calls' = [calls EXCEPT ![i].st = "smtp", ![i].code = k]
     /\ UNCHANGED <<mailClock, restarted, waiting, reg, userVars>>

\* Mailer.SendCode, outside mu; the entry stays whatever comes of it.
Smtp(i) ==
  /\ i \in 1 .. Len(calls) /\ calls[i].st = "smtp"
  /\ \E st \in {"ok", "failed"} : Return(i, st)
  /\ UNCHANGED <<mailVars, waiting, reg, userVars>>

Expired(m) == codes[m] /= NoEntry /\ mailClock > codes[m].expireAt

\* attempts++, written back until the limit is reached.
Guessed(m) ==
  IF codes[m].attempts + 1 >= MaxAttempts THEN NoEntry ELSE [codes[m] EXCEPT !.attempts = @ + 1]

\* CodeStore.Verify.
Verify(i) ==
  LET m == calls[i].mail
      e == codes[m]
  IN /\ Arrived(i, "verify")
     /\ \/ e = NoEntry /\ Return(i, "refused") /\ UNCHANGED <<codes, issued>>
        \/ /\ Expired(m)
           /\ codes' = [codes EXCEPT ![m] = NoEntry]
           /\ Return(i, "refused") /\ UNCHANGED issued
        \/ /\ e /= NoEntry /\ ~ Expired(m) /\ e.code /= calls[i].code
           /\ codes' = [codes EXCEPT ![m] = Guessed(m)]
           /\ issued' = [issued EXCEPT ![e.code].wrong = @ + 1]
           /\ Return(i, "refused")
        \/ /\ e /= NoEntry /\ ~ Expired(m) /\ e.code = calls[i].code
           /\ codes' = [codes EXCEPT ![m] = NoEntry]
           /\ issued' = [issued EXCEPT ![e.code].uses = @ + 1, ![e.code].usedAt = mailClock]
           /\ Return(i, "ok")
     /\ UNCHANGED <<mailClock, restarted, waiting, reg, userVars>>

Stale == {m \in Mails : Expired(m)}

\* StartCleanup's ticker: cleanupExpired.
CleanupExpired ==
  /\ Stale /= {}
  /\ codes' = [m \in Mails |-> IF m \in Stale THEN NoEntry ELSE codes[m]]
  /\ UNCHANGED <<mailClock, issued, restarted, calls, waiting, reg, userVars>>

\* The codes live in memory only; the calls under way break.
MailRestart ==
  /\ ~ restarted /\ \E m \in Mails : codes[m] /= NoEntry
  /\ restarted' = TRUE
  /\ codes' = [m \in Mails |-> NoEntry]
  /\ issued' = [k \in DOMAIN issued |->
       [issued[k] EXCEPT !.lost = \E m \in Mails : codes[m].code = k]]
  /\ calls' = [i \in DOMAIN calls |->
       IF calls[i].st \notin {"sent", "smtp"} THEN calls[i]
       ELSE IF \E c \in Clients : waiting[c] = i THEN [calls[i] EXCEPT !.st = "failed"]
       ELSE Over]
  /\ UNCHANGED <<mailClock, waiting, reg, userVars>>

Tick ==
  /\ mailClock < MaxClock
  /\ mailClock' = mailClock + 1
  /\ UNCHANGED <<codes, issued, restarted, calls, waiting, reg, userVars>>

-----------------------------------------------------------------------------

SessionStep(c) == Deadline(c) \/ Reply(c) \/ AddUser(c) \/ AddUserUnclear(c) \/ AddUserRefused(c)

ServiceStep(i) == SendTooSoon(i) \/ Generate(i) \/ Smtp(i) \/ Verify(i)

Next ==
  \/ \E c \in Clients :
       \/ SessionStep(c)
       \/ \E m \in Mails : OnSendEmailCode(c, m)
       \/ \E n \in Names, m \in Mails, k \in 0 .. Len(issued) : OnRegister(c, n, m, k)
  \/ \E i \in 1 .. Len(calls) : ServiceStep(i)
  \/ CleanupExpired \/ MailRestart \/ ServerRestart \/ Tick

\* A session's IO thread runs and its calls have deadlines; the ticker ticks.
\* Nothing is assumed of the mail service's answers.
Fairness ==
  /\ \A c \in Clients : WF_regVars(SessionStep(c))
  /\ WF_regVars(CleanupExpired)

Spec == Init /\ [][Next]_regVars /\ Fairness

-----------------------------------------------------------------------------
(* Properties *)

\* A code is good for one registration, within its lifetime, and before its
\* MaxAttempts-th wrong guess, however the guesses of several sessions and the
\* cleanup interleave (CodeStore.Verify).
CodeIsSingleUse ==
  \A k \in DOMAIN issued :
    /\ issued[k].uses <= 1
    /\ issued[k].uses = 1 => issued[k].usedAt <= issued[k].at + TTL
    /\ issued[k].wrong <= MaxAttempts
    /\ issued[k].uses = 1 => issued[k].wrong < MaxAttempts

\* A code that was not used, guessed at too often, replaced, outlived or lost
\* with the process is still the one the store accepts: no failed mail, timed
\* out call or cleanup takes it away.
CodeStaysValid ==
  \A k \in DOMAIN issued :
    LET r == issued[k]
    IN \/ r.uses > 0 \/ r.wrong >= MaxAttempts \/ r.lost \/ mailClock > r.at + TTL
       \/ \E j \in DOMAIN issued : j > k /\ issued[j].mail = r.mail
       \/ codes[r.mail].code = k

\* Two codes for one address are Cool apart, unless the first was used up,
\* guessed at too often, outlived (its entry, and the cooldown with it, is gone)
\* or lost (CodeStore.Generate).
CooldownHolds ==
  \A j, k \in DOMAIN issued :
    /\ j < k /\ issued[j].mail = issued[k].mail
    /\ issued[k].at < issued[j].at + Cool
    => \/ issued[j].uses > 0 \/ issued[j].wrong >= MaxAttempts \/ issued[j].lost
       \/ issued[k].at > issued[j].at + TTL

\* Concurrent registrations leave distinct names, mails and ids in the table, and
\* a cache that equals it but for one row at most: one whose INSERT was reported
\* failed and whose id is the next, so that no further INSERT runs until a restart
\* (UserManager::AddUser).
UniqueAccounts ==
  /\ \A u, v \in rows : (u.name = v.name \/ u.mail = v.mail \/ u.id = v.id) => u = v
  /\ {u.id : u \in users} = 1 .. baseId
  /\ users \subseteq rows
  /\ \A u \in rows \ users : u.id = baseId + 1 /\ u.id \in unclear

\* Behind every new account is a code of its own, sent to its mail and used once: no
\* account from a late, failed or refused verification.
AccountsProven ==
  /\ \A u \in rows :
       \/ \E S \in Existing : u \in S
       \/ /\ proof[u.id] \in DOMAIN issued
          /\ issued[proof[u.id]].mail = u.mail
          /\ issued[proof[u.id]].uses = 1
  /\ \A i, j \in DOMAIN proof : proof[i] = proof[j] /\ proof[i] /= NoCode => i = j

\* No session stays blocked in the mail service: of the MaxCalls calls, none is
\* left unanswered.
RequestIsAnswered == (\E c \in Clients : ~ Idle(c)) ~> (\A c \in Clients : Idle(c))

\* A code nobody asks about again is collected.
StaleIsCollected == \A m \in Mails : Expired(m) ~> ~ Expired(m)

\* OnSendEmailCodeResponse, OnRegisterResponse and CodeStore: codes are good
\* once and in time, whatever calls fail or come late, and every account rests
\* on a code of its own and is unique.
RegistrationSound ==
  /\ CodeIsSingleUse
  /\ CodeStaysValid
  /\ CooldownHolds
  /\ UniqueAccounts
  /\ AccountsProven
=============================================================================
