--------------------------- MODULE ServicesProofs ---------------------------
(***************************************************************************)
(* Proofs about the services beside the chat server.                       *)
(*                                                                         *)
(* Registration: an entry of CodeStore is tied to what became of its code, *)
(* and a code that was verified is in one hand: the answer on its way to a *)
(* session, the session that is about to call AddUser, or a row.  The ids  *)
(* of the rows follow one another; the cache lacks at most the last.       *)
(*                                                                         *)
(* Schema: in a start where no statement failed, every table before the    *)
(* one being worked on is as declared.                                     *)
(*                                                                         *)
(* Retrieval: a stored point is one of its owner's rows, the rows between  *)
(* HasIDs and Upsert belong to the one holder of the mutex, and an         *)
(* embedding is bought only for a row that has no point.                   *)
(*                                                                         *)
(* Files: the files of an id that are as new as one of them, and the       *)
(* requests that may still add another, were all under way when it was     *)
(* written; counted for the oldest file, they bound the pile.              *)
(*                                                                         *)
(* Agent: the counter of a day stands between the requests it let pass and *)
(* the counts, and what was stored for a user are whole turns but for the  *)
(* one whose answer is yet to be stored, by the one request that stores.   *)
(***************************************************************************)
EXTENDS MCServices, FiniteSetTheorems, WellFoundedInduction, TLAPS

-----------------------------------------------------------------------------
(* Registration: the state *)

Entries == [code : Nat, expireAt : Nat, lastSent : Nat, attempts : Nat]
CallStates == {"sent", "smtp", "ok", "refused", "failed", "over"}
MailCalls == [op : {"send", "verify", "over"}, mail : Mails \cup {""}, code : Nat, st : CallStates]
Regs == [name : Names, mail : Mails, code : Nat]
Issues == [mail : Mails, at : Nat, wrong : Nat, uses : Nat, usedAt : Nat, lost : BOOLEAN]

\* Type correctness: the codes, the calls, the sessions and the accounts.
CodeTypes ==
  /\ mailClock \in Nat
  /\ codes \in [Mails -> Entries \cup {Rg!NoEntry}]
  /\ issued \in Seq(Issues)
  /\ restarted \in BOOLEAN

\* A call has an address, and only one to send a code is at SMTP.
Whole(x) ==
  /\ x.st # "over" => x.mail \in Mails
  /\ x.st = "smtp" => x.op = "send"

CallTypes ==
  /\ calls \in Seq(MailCalls)
  /\ \A i \in DOMAIN calls : Whole(calls[i])

SessionTypes ==
  /\ waiting \in [Clients -> Nat]
  /\ reg \in [Clients -> Regs \cup {Rg!NoReg}]
  /\ baseId \in Nat
  /\ proof \in Seq(Nat)

\* The entry of an address is that of a code sent to it, unused and unspent.
EntryInv ==
  /\ \A m \in Mails : codes[m] # Rg!NoEntry =>
       /\ codes[m].code \in DOMAIN issued
       /\ issued[codes[m].code].mail = m
       /\ issued[codes[m].code].uses = 0
       /\ issued[codes[m].code].at = codes[m].lastSent
       /\ codes[m].expireAt = codes[m].lastSent + TTL
       /\ issued[codes[m].code].wrong = codes[m].attempts
       /\ codes[m].attempts < MaxAttempts
  /\ \A k \in DOMAIN issued : issued[k].at <= mailClock
  /\ ~ restarted => \A k \in DOMAIN issued : ~ issued[k].lost

\* A session waits for a call of its own, which has the code it registers with.
CallInv ==
  /\ \A c \in Clients : waiting[c] # 0 =>
       /\ waiting[c] \in DOMAIN calls
       /\ reg[c] # Rg!NoReg => /\ calls[waiting[c]].op = "verify"
                               /\ calls[waiting[c]].mail = reg[c].mail
                               /\ calls[waiting[c]].code = reg[c].code
  /\ \A c, d \in Clients : waiting[c] = waiting[d] /\ waiting[c] # 0 => c = d

Good(k, m) == k \in DOMAIN issued /\ issued[k].mail = m /\ issued[k].uses = 1
OkCall(i) == calls[i].op = "verify" /\ calls[i].st = "ok"
Ready(c) == reg[c] # Rg!NoReg /\ waiting[c] = 0

\* A verified code is in one hand.
HandInv ==
  /\ \A i \in DOMAIN calls : OkCall(i) => Good(calls[i].code, calls[i].mail)
  /\ \A i, j \in DOMAIN calls : OkCall(i) /\ OkCall(j) /\ calls[i].code = calls[j].code => i = j
  /\ \A c \in Clients : Ready(c) => Good(reg[c].code, reg[c].mail)
  /\ \A c, d \in Clients : Ready(c) /\ Ready(d) /\ reg[c].code = reg[d].code => c = d
  /\ \A c \in Clients : \A i \in DOMAIN calls : Ready(c) /\ OkCall(i) => reg[c].code # calls[i].code
  /\ \A p \in DOMAIN proof : proof[p] # Rg!NoCode =>
       proof[p] \in DOMAIN issued /\ issued[proof[p]].uses = 1
  /\ \A p \in DOMAIN proof : \A c \in Clients : Ready(c) => proof[p] # reg[c].code
  /\ \A p \in DOMAIN proof : \A i \in DOMAIN calls : OkCall(i) => proof[p] # calls[i].code

\* The part that is about CodeStore.
CodeInv ==
  CodeTypes /\ EntryInv /\ Rg!CodeIsSingleUse /\ Rg!CodeStaysValid /\ Rg!CooldownHolds

\* The ids of the rows follow one another, and m_baseUserID is the last of them
\* or the one before.
RowIds ==
  /\ {u.id : u \in rows} = 1 .. Len(proof)
  /\ baseId = Len(proof) \/ baseId + 1 = Len(proof)

\* The part that is about t_user.
UserInv == Rg!UniqueAccounts /\ Rg!AccountsProven /\ RowIds

\* The inductive invariant.
RegInv == CodeInv /\ CallTypes /\ SessionTypes /\ CallInv /\ HandInv /\ UserInv
-----------------------------------------------------------------------------
(* The calls *)

\* A call answered, failed or forgotten, with the same contents otherwise.
SameCall(x, y) == x.op = y.op /\ x.mail = y.mail /\ x.code = y.code

\* Over is a call.
LEMMA OverIs ==
  Rg!Over \in MailCalls /\ Rg!Over.st = "over" /\ Rg!Over.op = "over" /\ Whole(Rg!Over)
  BY DEF Whole, Rg!Over, Rg!NoCode, MailCalls, CallStates

\* A call whose state changes.
LEMMA NewState ==
  ASSUME NEW x \in MailCalls, NEW st \in CallStates
  PROVE  /\ [x EXCEPT !.st = st] \in MailCalls
         /\ [x EXCEPT !.st = st].st = st
         /\ SameCall([x EXCEPT !.st = st], x)
  BY DEF MailCalls, SameCall

\* One call of the sequence is replaced.
LEMMA Replaced ==
  ASSUME CallTypes, NEW i \in DOMAIN calls, NEW x \in MailCalls,
         Whole(x),
         calls' = [calls EXCEPT ![i] = x]
  PROVE  /\ CallTypes'
         /\ DOMAIN calls' = DOMAIN calls
         /\ calls'[i] = x
         /\ \A j \in DOMAIN calls : j # i => calls'[j] = calls[j]
  BY DEF CallTypes

\* Return leaves the contents of a call somebody waits for.
LEMMA Returned ==
  ASSUME CallTypes, NEW i \in DOMAIN calls, calls[i].st \in {"sent", "smtp"},
         NEW st \in {"ok", "refused", "failed"}, Rg!Return(i, st)
  PROVE  /\ CallTypes'
         /\ DOMAIN calls' = DOMAIN calls
         /\ \A j \in DOMAIN calls : j # i => calls'[j] = calls[j]
         /\ calls'[i] = Rg!Over \/ (SameCall(calls'[i], calls[i]) /\ calls'[i].st = st)
         /\ (\E c \in Clients : waiting[c] = i) => SameCall(calls'[i], calls[i])
  <1>1. calls[i] \in MailCalls /\ calls[i].mail \in Mails
    BY DEF CallTypes, Whole
  <1>2. PICK x : x = [calls[i] EXCEPT !.st = st]
    OBVIOUS
  <1>3. x \in MailCalls /\ x.st = st /\ SameCall(x, calls[i])
    <2>1. PICK y \in MailCalls : y = calls[i]
      BY <1>1
    <2>2. st \in CallStates
      BY DEF CallStates
    <2>3. [y EXCEPT !.st = st] \in MailCalls /\ [y EXCEPT !.st = st].st = st
          /\ SameCall([y EXCEPT !.st = st], y)
      BY <2>2, NewState
    <2> QED BY <1>2, <2>1, <2>3
  <1>4. Whole(x)
    BY <1>1, <1>3 DEF SameCall, Whole
  <1>5. CASE \E c \in Clients : waiting[c] = i
    <2>1. calls' = [calls EXCEPT ![i] = x]
      BY <1>2, <1>5 DEF Rg!Return
    <2> QED BY <1>3, <1>4, <2>1, Replaced
  <1>6. CASE ~ \E c \in Clients : waiting[c] = i
    <2>1. calls' = [calls EXCEPT ![i] = Rg!Over]
      BY <1>6 DEF Rg!Return
    <2> QED BY <1>6, <2>1, OverIs, Replaced
  <1> QED BY <1>5, <1>6
-----------------------------------------------------------------------------
(* The codes *)

\* Generate: a code for m, the entry of m is its.
Drawn(m) ==
  /\ ~ Rg!Cooling(m)
  /\ codes' = [codes EXCEPT ![m] = [code |-> Len(issued) + 1, expireAt |-> mailClock + TTL,
                                    lastSent |-> mailClock, attempts |-> 0]]
  /\ issued' = Append(issued, [mail |-> m, at |-> mailClock, wrong |-> 0, uses |-> 0,
                               usedAt |-> mailClock, lost |-> FALSE])
  /\ UNCHANGED <<mailClock, restarted>>

\* Verify of another code.
Missed(m) ==
  /\ codes[m] # Rg!NoEntry
  /\ codes' = [codes EXCEPT ![m] = Rg!Guessed(m)]
  /\ issued' = [issued EXCEPT ![codes[m].code].wrong = @ + 1]
  /\ UNCHANGED <<mailClock, restarted>>

\* Verify of the code.
Used(m) ==
  /\ codes[m] # Rg!NoEntry /\ ~ Rg!Expired(m)
  /\ codes' = [codes EXCEPT ![m] = Rg!NoEntry]
  /\ issued' = [issued EXCEPT ![codes[m].code].uses = @ + 1, ![codes[m].code].usedAt = mailClock]
  /\ UNCHANGED <<mailClock, restarted>>

\* Time passes, or entries that expired are dropped.
Dropped ==
  /\ mailClock' \in Nat /\ mailClock <= mailClock'
  /\ codes' \in [Mails -> Entries \cup {Rg!NoEntry}]
  /\ \A x \in Mails : codes'[x] = codes[x] \/ (Rg!Expired(x) /\ codes'[x] = Rg!NoEntry)
  /\ UNCHANGED <<issued, restarted>>

\* The codes are lost with the process.
Lost ==
  /\ ~ restarted /\ restarted' = TRUE
  /\ codes' = [m \in Mails |-> Rg!NoEntry]
  /\ issued' = [k \in DOMAIN issued |->
       [issued[k] EXCEPT !.lost = \E m \in Mails : codes[m].code = k]]
  /\ UNCHANGED mailClock

\* What an entry is.
LEMMA EntryIs ==
  ASSUME CodeTypes, EntryInv, NEW m \in Mails, codes[m] # Rg!NoEntry
  PROVE  /\ codes[m] \in Entries
         /\ codes[m].code \in DOMAIN issued /\ codes[m].code \in Nat
         /\ issued[codes[m].code] \in Issues
  BY DEF CodeTypes, EntryInv

\* NoEntry is nobody's code.
LEMMA NoEntryIs ==
  ASSUME CodeTypes
  PROVE  Rg!NoEntry.code = 0 /\ 0 \notin DOMAIN issued
  BY DEF CodeTypes, Rg!NoEntry, Rg!NoCode

LEMMA DrawnIs ==
  ASSUME CodeTypes, NEW m \in Mails, Drawn(m)
  PROVE  /\ CodeTypes'
         /\ Len(issued) \in Nat
         /\ DOMAIN issued' = DOMAIN issued \cup {Len(issued) + 1}
         /\ \A k \in DOMAIN issued : k \in Nat /\ k < Len(issued) + 1 /\ issued'[k] = issued[k]
         /\ LET r == issued'[Len(issued) + 1]
            IN r.mail = m /\ r.at = mailClock /\ r.wrong = 0 /\ r.uses = 0 /\ ~ r.lost
         /\ \A x \in Mails : x # m => codes'[x] = codes[x]
         /\ LET e == codes'[m]
            IN /\ e.code = Len(issued) + 1 /\ e.expireAt = mailClock + TTL
               /\ e.lastSent = mailClock /\ e.attempts = 0
  <1>1. mailClock \in Nat /\ mailClock + TTL \in Nat
    BY CodeSettings DEF CodeTypes
  <1>2. Len(issued) \in Nat /\ issued \in Seq(Issues)
    BY DEF CodeTypes
  <1>3. PICK r : r = [mail |-> m, at |-> mailClock, wrong |-> 0, uses |-> 0,
                      usedAt |-> mailClock, lost |-> FALSE]
    OBVIOUS
  <1>4. r \in Issues /\ r.mail = m /\ r.at = mailClock /\ r.wrong = 0 /\ r.uses = 0 /\ ~ r.lost
    BY <1>1, <1>3 DEF Issues
  <1>5. PICK e : e = [code |-> Len(issued) + 1, expireAt |-> mailClock + TTL,
                      lastSent |-> mailClock, attempts |-> 0]
    OBVIOUS
  <1>6. /\ e \in Entries /\ e.code = Len(issued) + 1 /\ e.expireAt = mailClock + TTL
        /\ e.lastSent = mailClock /\ e.attempts = 0
    BY <1>1, <1>2, <1>5 DEF Entries
  <1>7. issued' = Append(issued, r)
    BY <1>3 DEF Drawn
  <1>8. codes' = [codes EXCEPT ![m] = e]
    BY <1>5 DEF Drawn
  <1>9. /\ issued' \in Seq(Issues) /\ issued'[Len(issued) + 1] = r
        /\ DOMAIN issued' = DOMAIN issued \cup {Len(issued) + 1}
        /\ \A k \in DOMAIN issued : k \in Nat /\ k < Len(issued) + 1 /\ issued'[k] = issued[k]
    BY <1>2, <1>4, <1>7
  <1>10. /\ codes' \in [Mails -> Entries \cup {Rg!NoEntry}] /\ codes'[m] = e
         /\ \A x \in Mails : x # m => codes'[x] = codes[x]
    BY <1>6, <1>8 DEF CodeTypes
  <1>11. CodeTypes'
    BY <1>9, <1>10 DEF CodeTypes, Drawn
  <1> QED BY <1>2, <1>4, <1>6, <1>9, <1>10, <1>11

LEMMA MissedIs ==
  ASSUME CodeTypes, EntryInv, NEW m \in Mails, Missed(m)
  PROVE  /\ CodeTypes'
         /\ DOMAIN issued' = DOMAIN issued
         /\ \A k \in DOMAIN issued : k # codes[m].code => issued'[k] = issued[k]
         /\ LET r == issued[codes[m].code]
                s == issued'[codes[m].code]
            IN /\ s.mail = r.mail /\ s.at = r.at /\ s.wrong = r.wrong + 1 /\ s.uses = r.uses
               /\ s.usedAt = r.usedAt /\ s.lost = r.lost
         /\ \A x \in Mails : x # m => codes'[x] = codes[x]
         /\ LET e == codes[m]
                f == codes'[m]
            IN \/ f = Rg!NoEntry /\ e.attempts + 1 = MaxAttempts
               \/ /\ e.attempts + 1 < MaxAttempts /\ f \in Entries
                  /\ f.code = e.code /\ f.expireAt = e.expireAt /\ f.lastSent = e.lastSent
                  /\ f.attempts = e.attempts + 1
  <1>1. PICK e : e = codes[m]
    OBVIOUS
  <1>2. e \in Entries /\ e.attempts \in Nat /\ e.attempts < MaxAttempts /\ e.code \in DOMAIN issued
    BY <1>1, EntryIs DEF Missed, EntryInv, Entries
  <1>3. PICK r : r = issued[e.code]
    OBVIOUS
  <1>4. r \in Issues
    BY <1>2, <1>3 DEF CodeTypes
  <1>5. PICK s : s = [r EXCEPT !.wrong = @ + 1]
    OBVIOUS
  <1>6. /\ s \in Issues /\ s.mail = r.mail /\ s.at = r.at /\ s.wrong = r.wrong + 1
        /\ s.uses = r.uses /\ s.usedAt = r.usedAt /\ s.lost = r.lost
    BY <1>4, <1>5 DEF Issues
  <1>7. issued' = [issued EXCEPT ![e.code] = s]
    BY <1>1, <1>3, <1>5 DEF Missed
  <1>8. /\ issued' \in Seq(Issues) /\ DOMAIN issued' = DOMAIN issued /\ issued'[e.code] = s
        /\ \A k \in DOMAIN issued : k # e.code => issued'[k] = issued[k]
    BY <1>2, <1>6, <1>7 DEF CodeTypes
  <1>9. PICK f : f = Rg!Guessed(m)
    OBVIOUS
  <1>10. \/ f = Rg!NoEntry /\ e.attempts + 1 = MaxAttempts
         \/ /\ e.attempts + 1 < MaxAttempts /\ f \in Entries
            /\ f.code = e.code /\ f.expireAt = e.expireAt /\ f.lastSent = e.lastSent
            /\ f.attempts = e.attempts + 1
    <2>1. CASE e.attempts + 1 >= MaxAttempts
      BY <1>1, <1>2, <1>9, <2>1, CodeSettings DEF Rg!Guessed
    <2>2. CASE ~ (e.attempts + 1 >= MaxAttempts)
      <3>1. f = [e EXCEPT !.attempts = e.attempts + 1]
        BY <1>1, <1>9, <2>2 DEF Rg!Guessed
      <3> QED BY <1>2, <2>2, <3>1, CodeSettings DEF Entries
    <2> QED BY <2>1, <2>2
  <1>11. /\ codes' \in [Mails -> Entries \cup {Rg!NoEntry}] /\ codes'[m] = f
         /\ \A x \in Mails : x # m => codes'[x] = codes[x]
    BY <1>9, <1>10 DEF CodeTypes, Missed
  <1>12. CodeTypes'
    BY <1>8, <1>11 DEF CodeTypes, Missed
  <1> QED BY <1>1, <1>3, <1>6, <1>8, <1>10, <1>11, <1>12

LEMMA UsedIs ==
  ASSUME CodeTypes, EntryInv, NEW m \in Mails, Used(m)
  PROVE  /\ CodeTypes'
         /\ DOMAIN issued' = DOMAIN issued
         /\ \A k \in DOMAIN issued : k # codes[m].code => issued'[k] = issued[k]
         /\ LET r == issued[codes[m].code]
                s == issued'[codes[m].code]
            IN /\ s.mail = r.mail /\ s.at = r.at /\ s.wrong = r.wrong /\ s.uses = r.uses + 1
               /\ s.usedAt = mailClock /\ s.lost = r.lost
         /\ \A x \in Mails : x # m => codes'[x] = codes[x]
         /\ codes'[m] = Rg!NoEntry
  <1>1. PICK e : e = codes[m]
    OBVIOUS
  <1>2. e \in Entries /\ e.code \in DOMAIN issued
    BY <1>1, EntryIs DEF Used
  <1>3. PICK r : r = issued[e.code]
    OBVIOUS
  <1>4. r \in Issues /\ mailClock \in Nat
    BY <1>2, <1>3 DEF CodeTypes
  <1>5. PICK s : s = [r EXCEPT !.uses = @ + 1, !.usedAt = mailClock]
    OBVIOUS
  <1>6. /\ s \in Issues /\ s.mail = r.mail /\ s.at = r.at /\ s.wrong = r.wrong
        /\ s.uses = r.uses + 1 /\ s.usedAt = mailClock /\ s.lost = r.lost
    <2>1. PICK q : q = [r EXCEPT !.uses = @ + 1]
      OBVIOUS
    <2>2. /\ q \in Issues /\ q.mail = r.mail /\ q.at = r.at /\ q.wrong = r.wrong
          /\ q.uses = r.uses + 1 /\ q.lost = r.lost
      BY <1>4, <2>1 DEF Issues
    <2>3. s = [q EXCEPT !.usedAt = mailClock]
      BY <1>5, <2>1
    <2> QED BY <1>4, <2>2, <2>3 DEF Issues
  <1>7. issued' = [issued EXCEPT ![e.code] = s]
    BY <1>1, <1>2, <1>3, <1>5 DEF Used, CodeTypes
  <1>8. /\ issued' \in Seq(Issues) /\ DOMAIN issued' = DOMAIN issued /\ issued'[e.code] = s
        /\ \A k \in DOMAIN issued : k # e.code => issued'[k] = issued[k]
    BY <1>2, <1>6, <1>7 DEF CodeTypes
  <1>9. /\ codes' \in [Mails -> Entries \cup {Rg!NoEntry}] /\ codes'[m] = Rg!NoEntry
        /\ \A x \in Mails : x # m => codes'[x] = codes[x]
    BY DEF CodeTypes, Used
  <1>10. CodeTypes'
    BY <1>8, <1>9 DEF CodeTypes, Used
  <1> QED BY <1>1, <1>3, <1>6, <1>8, <1>9, <1>10

\* The fields of a code's record.
IssueFields ==
  \A k \in DOMAIN issued :
    /\ k \in Nat
    /\ issued[k].mail \in Mails /\ issued[k].at \in Nat /\ issued[k].wrong \in Nat
    /\ issued[k].uses \in Nat /\ issued[k].usedAt \in Nat /\ issued[k].lost \in BOOLEAN

LEMMA IssueFieldsHold ==
  ASSUME CodeTypes
  PROVE  IssueFields
  <1> SUFFICES ASSUME NEW k \in DOMAIN issued
               PROVE  /\ k \in Nat
                      /\ issued[k].mail \in Mails /\ issued[k].at \in Nat
                      /\ issued[k].wrong \in Nat /\ issued[k].uses \in Nat
                      /\ issued[k].usedAt \in Nat /\ issued[k].lost \in BOOLEAN
    BY DEF IssueFields
  <1>1. k \in Nat /\ issued[k] \in Issues
    BY DEF CodeTypes
  <1> QED BY <1>1 DEF Issues

\* Generate keeps the codes right.
LEMMA DrawnKeeps ==
  ASSUME CodeInv, NEW m \in Mails, Drawn(m)
  PROVE  CodeInv'
  <1> DEFINE n == Len(issued) + 1
  <1>1. CodeTypes /\ EntryInv /\ CodeTypes' /\ n \in Nat /\ mailClock \in Nat
    BY DrawnIs DEF CodeInv, CodeTypes
  <1>2. /\ DOMAIN issued' = DOMAIN issued \cup {n}
        /\ \A k \in DOMAIN issued : k \in Nat /\ k < n /\ issued'[k] = issued[k]
        /\ \A x \in Mails : x # m => codes'[x] = codes[x]
    BY <1>1, DrawnIs
  <1>3. /\ issued'[n].mail = m /\ issued'[n].at = mailClock /\ issued'[n].wrong = 0
        /\ issued'[n].uses = 0 /\ ~ issued'[n].lost
    BY <1>1, DrawnIs
  <1>4. /\ codes'[m].code = n /\ codes'[m].expireAt = mailClock + TTL
        /\ codes'[m].lastSent = mailClock /\ codes'[m].attempts = 0
    BY <1>1, DrawnIs
  <1>5. IssueFields /\ mailClock' = mailClock /\ restarted' = restarted
    BY <1>1, IssueFieldsHold DEF Drawn
  <1> HIDE DEF n
  <1>6. EntryInv'
    <2>1. \A x \in Mails : (codes[x] # Rg!NoEntry)' => 
            /\ (codes[x].code)' \in DOMAIN issued'
            /\ (issued[codes[x].code])'.mail = x
            /\ (issued[codes[x].code])'.uses = 0
            /\ (issued[codes[x].code])'.at = codes'[x].lastSent
            /\ codes'[x].expireAt = codes'[x].lastSent + TTL
            /\ (issued[codes[x].code])'.wrong = codes'[x].attempts
            /\ codes'[x].attempts < MaxAttempts
      <3> SUFFICES ASSUME NEW x \in Mails, codes'[x] # Rg!NoEntry
                   PROVE  /\ codes'[x].code \in DOMAIN issued'
                          /\ issued'[codes'[x].code].mail = x
                          /\ issued'[codes'[x].code].uses = 0
                          /\ issued'[codes'[x].code].at = codes'[x].lastSent
                          /\ codes'[x].expireAt = codes'[x].lastSent + TTL
                          /\ issued'[codes'[x].code].wrong = codes'[x].attempts
                          /\ codes'[x].attempts < MaxAttempts
        BY DEF Rg!NoEntry, Rg!NoCode
      <3>1. CASE x = m
        BY <1>2, <1>3, <1>4, <3>1, CodeSettings
      <3>2. CASE x # m
        <4>1. codes'[x] = codes[x] /\ codes[x] # Rg!NoEntry
          BY <1>2, <3>2
        <4> QED BY <1>1, <1>2, <4>1 DEF EntryInv
      <3> QED BY <3>1, <3>2
    <2>2. \A k \in DOMAIN issued' : issued'[k].at <= mailClock'
      BY <1>1, <1>2, <1>3, <1>5 DEF EntryInv
    <2>3. ~ restarted' => \A k \in DOMAIN issued' : ~ issued'[k].lost
      BY <1>1, <1>2, <1>3, <1>5 DEF EntryInv
    <2> QED BY <2>1, <2>2, <2>3 DEF EntryInv, Rg!NoEntry, Rg!NoCode
  <1>7. Rg!CodeIsSingleUse'
    BY <1>2, <1>3, <1>5, CodeSettings DEF CodeInv, Rg!CodeIsSingleUse
  <1>8. Rg!CodeStaysValid'
    <2> SUFFICES ASSUME NEW k \in DOMAIN issued'
                 PROVE  \/ issued'[k].uses > 0 \/ issued'[k].wrong >= MaxAttempts
                        \/ issued'[k].lost \/ mailClock' > issued'[k].at + TTL
                        \/ \E j \in DOMAIN issued' : j > k /\ issued'[j].mail = issued'[k].mail
                        \/ codes'[issued'[k].mail].code = k
      BY DEF Rg!CodeStaysValid
    <2>1. CASE k = n
      BY <1>3, <1>4, <2>1
    <2>2. CASE k # n /\ issued[k].mail = m
      <3>1. k \in DOMAIN issued /\ issued'[k].mail = m /\ n > k /\ n \in DOMAIN issued'
        BY <1>1, <1>2, <2>2
      <3> QED BY <1>3, <3>1
    <2>3. CASE k # n /\ issued[k].mail # m
      <3>1. k \in DOMAIN issued /\ issued'[k] = issued[k]
        BY <1>2, <2>3
      <3>2. codes'[issued[k].mail] = codes[issued[k].mail]
        BY <1>2, <1>5, <2>3, <3>1 DEF IssueFields
      <3>3. \/ issued[k].uses > 0 \/ issued[k].wrong >= MaxAttempts
            \/ issued[k].lost \/ mailClock > issued[k].at + TTL
            \/ \E j \in DOMAIN issued : j > k /\ issued[j].mail = issued[k].mail
            \/ codes[issued[k].mail].code = k
        BY <3>1 DEF CodeInv, Rg!CodeStaysValid
      <3> QED BY <1>2, <1>5, <3>1, <3>2, <3>3
    <2> QED BY <2>1, <2>2, <2>3
  <1>9. Rg!CooldownHolds'
    <2> SUFFICES ASSUME NEW j \in DOMAIN issued', NEW k \in DOMAIN issued',
                        j < k, issued'[j].mail = issued'[k].mail,
                        issued'[k].at < issued'[j].at + Cool
                 PROVE  \/ issued'[j].uses > 0 \/ issued'[j].wrong >= MaxAttempts
                        \/ issued'[j].lost \/ issued'[k].at > issued'[j].at + TTL
      BY DEF Rg!CooldownHolds
    <2>1. j \in DOMAIN issued /\ issued'[j] = issued[j]
      BY <1>1, <1>2
    <2>2. CASE k # n
      <3>1. k \in DOMAIN issued /\ issued'[k] = issued[k]
        BY <1>2, <2>2
      <3> QED BY <2>1, <3>1 DEF CodeInv, Rg!CooldownHolds
    <2>3. CASE k = n
      <3>1. issued[j].mail = m /\ mailClock < issued[j].at + Cool
        BY <1>3, <2>1, <2>3
      <3> SUFFICES ASSUME ~ (issued[j].uses > 0), ~ (issued[j].wrong >= MaxAttempts),
                          ~ issued[j].lost, ~ (mailClock > issued[j].at + TTL)
                   PROVE  FALSE
        BY <1>3, <2>1, <2>3
      <3>2. \/ \E i \in DOMAIN issued : i > j /\ issued[i].mail = m
            \/ codes[m].code = j
        BY <2>1, <3>1 DEF CodeInv, Rg!CodeStaysValid
      <3>3. CASE codes[m].code = j
        <4>1. codes[m] # Rg!NoEntry
          BY <1>1, <2>1, <3>3, NoEntryIs
        <4>2. codes[m].lastSent = issued[j].at
          BY <1>1, <3>3, <4>1 DEF EntryInv
        <4>3. Rg!Cooling(m)
          BY <1>1, <1>5, <2>1, <3>1, <4>1, <4>2, CodeSettings DEF Rg!Cooling, IssueFields
        <4> QED BY <4>3 DEF Drawn
      <3>4. CASE \E i \in DOMAIN issued : i > j /\ issued[i].mail = m
        <4>1. PICK i \in DOMAIN issued : i > j /\ issued[i].mail = m
          BY <3>4
        <4>2. issued[i].at <= mailClock /\ issued[i].at \in Nat /\ issued[j].at \in Nat
              /\ i \in Nat /\ j \in Nat
          BY <1>1, <1>5, <2>1 DEF EntryInv, IssueFields
        <4>3. j < i /\ issued[i].at < issued[j].at + Cool
          BY <1>1, <3>1, <4>1, <4>2, CodeSettings
        <4>4. issued[i].at > issued[j].at + TTL
          BY <2>1, <3>1, <4>1, <4>3 DEF CodeInv, Rg!CooldownHolds
        <4> QED BY <1>1, <4>2, <4>4, CodeSettings
      <3> QED BY <3>2, <3>3, <3>4
    <2> QED BY <2>2, <2>3
  <1> QED BY <1>1, <1>6, <1>7, <1>8, <1>9 DEF CodeInv

\* No code is drawn, and what became of one is not undone.
Grown ==
  /\ DOMAIN issued' = DOMAIN issued
  /\ mailClock' \in Nat /\ mailClock <= mailClock'
  /\ \A k \in DOMAIN issued :
       /\ issued'[k].mail = issued[k].mail /\ issued'[k].at = issued[k].at
       /\ issued[k].uses <= issued'[k].uses /\ issued[k].wrong <= issued'[k].wrong
       /\ issued'[k].uses \in Nat /\ issued'[k].wrong \in Nat
       /\ issued[k].lost => issued'[k].lost

\* The entry of a code goes for a reason.
Reasons ==
  \A x \in Mails : codes[x] # Rg!NoEntry /\ codes'[x].code # codes[x].code =>
    LET k == codes[x].code
    IN \/ issued'[k].uses > 0 \/ issued'[k].wrong >= MaxAttempts
       \/ issued'[k].lost \/ mailClock' > issued[k].at + TTL

LEMMA GrownKeeps ==
  ASSUME CodeInv, Grown, Reasons
  PROVE  Rg!CodeStaysValid' /\ Rg!CooldownHolds'
  <1>1. CodeTypes /\ EntryInv /\ IssueFields /\ mailClock \in Nat
    BY IssueFieldsHold DEF CodeInv, CodeTypes
  <1>2. Rg!CooldownHolds'
    <2> SUFFICES ASSUME NEW j \in DOMAIN issued', NEW k \in DOMAIN issued',
                        j < k, issued'[j].mail = issued'[k].mail,
                        issued'[k].at < issued'[j].at + Cool
                 PROVE  \/ issued'[j].uses > 0 \/ issued'[j].wrong >= MaxAttempts
                        \/ issued'[j].lost \/ issued'[k].at > issued'[j].at + TTL
      BY DEF Rg!CooldownHolds
    <2>1. /\ j \in DOMAIN issued /\ k \in DOMAIN issued
          /\ issued[j].mail = issued[k].mail /\ issued[k].at < issued[j].at + Cool
      BY DEF Grown
    <2>2. \/ issued[j].uses > 0 \/ issued[j].wrong >= MaxAttempts
          \/ issued[j].lost \/ issued[k].at > issued[j].at + TTL
      BY <2>1 DEF CodeInv, Rg!CooldownHolds
    <2> QED BY <1>1, <2>1, <2>2, CodeSettings DEF Grown, IssueFields
  <1>3. Rg!CodeStaysValid'
    <2> SUFFICES ASSUME NEW k \in DOMAIN issued'
                 PROVE  \/ issued'[k].uses > 0 \/ issued'[k].wrong >= MaxAttempts
                        \/ issued'[k].lost \/ mailClock' > issued'[k].at + TTL
                        \/ \E j \in DOMAIN issued' : j > k /\ issued'[j].mail = issued'[k].mail
                        \/ codes'[issued'[k].mail].code = k
      BY DEF Rg!CodeStaysValid
    <2>1. k \in DOMAIN issued
      BY DEF Grown
    <2>2. \/ issued[k].uses > 0 \/ issued[k].wrong >= MaxAttempts
          \/ issued[k].lost \/ mailClock > issued[k].at + TTL
          \/ \E j \in DOMAIN issued : j > k /\ issued[j].mail = issued[k].mail
          \/ codes[issued[k].mail].code = k
      BY <2>1 DEF CodeInv, Rg!CodeStaysValid
    <2>3. CASE \/ issued[k].uses > 0 \/ issued[k].wrong >= MaxAttempts
               \/ issued[k].lost \/ mailClock > issued[k].at + TTL
      BY <1>1, <2>1, <2>3, CodeSettings DEF Grown, IssueFields
    <2>4. CASE \E j \in DOMAIN issued : j > k /\ issued[j].mail = issued[k].mail
      <3>1. PICK j \in DOMAIN issued : j > k /\ issued[j].mail = issued[k].mail
        BY <2>4
      <3>2. j \in DOMAIN issued' /\ issued'[j].mail = issued'[k].mail
        BY <2>1, <3>1 DEF Grown
      <3> QED BY <3>1, <3>2
    <2>5. CASE codes[issued[k].mail].code = k
      <3>1. PICK x \in Mails : x = issued[k].mail
        BY <1>1, <2>1 DEF IssueFields
      <3>2. codes[x] # Rg!NoEntry /\ codes[x].code = k
        BY <1>1, <2>1, <2>5, <3>1, NoEntryIs
      <3>3. issued'[k].mail = x /\ issued'[k].at = issued[k].at
        BY <2>1, <3>1 DEF Grown
      <3> QED BY <3>2, <3>3 DEF Reasons
    <2> QED BY <2>2, <2>3, <2>4, <2>5
  <1> QED BY <1>2, <1>3

\* Two addresses have different codes.
LEMMA OwnCode ==
  ASSUME CodeTypes, EntryInv, NEW x \in Mails, NEW y \in Mails, x # y,
         codes[x] # Rg!NoEntry, codes[y] # Rg!NoEntry
  PROVE  codes[x].code # codes[y].code
  BY DEF EntryInv

\* A wrong guess keeps the codes right.
LEMMA MissedKeeps ==
  ASSUME CodeInv, NEW m \in Mails, Missed(m)
  PROVE  CodeInv'
  <1>1. CodeTypes /\ EntryInv /\ CodeTypes' /\ IssueFields /\ mailClock \in Nat
        /\ codes[m] # Rg!NoEntry
    BY MissedIs, IssueFieldsHold DEF CodeInv, CodeTypes, Missed
  <1>2. PICK e : e = codes[m]
    OBVIOUS
  <1>3. /\ e \in Entries /\ e.attempts \in Nat /\ e.code \in DOMAIN issued
        /\ issued[e.code].wrong = e.attempts /\ e.attempts < MaxAttempts
        /\ issued[e.code].uses = 0
    BY <1>1, <1>2, EntryIs DEF EntryInv, Entries
  <1>4. /\ DOMAIN issued' = DOMAIN issued
        /\ \A k \in DOMAIN issued : k # e.code => issued'[k] = issued[k]
        /\ \A x \in Mails : x # m => codes'[x] = codes[x]
    BY <1>1, <1>2, MissedIs
  <1>5. /\ issued'[e.code].mail = issued[e.code].mail /\ issued'[e.code].at = issued[e.code].at
        /\ issued'[e.code].wrong = issued[e.code].wrong + 1
        /\ issued'[e.code].uses = issued[e.code].uses
        /\ issued'[e.code].usedAt = issued[e.code].usedAt
        /\ issued'[e.code].lost = issued[e.code].lost
    BY <1>1, <1>2, MissedIs
  <1>6. \/ codes'[m] = Rg!NoEntry /\ e.attempts + 1 = MaxAttempts
        \/ /\ e.attempts + 1 < MaxAttempts /\ codes'[m] \in Entries
           /\ codes'[m].code = e.code /\ codes'[m].expireAt = e.expireAt
           /\ codes'[m].lastSent = e.lastSent /\ codes'[m].attempts = e.attempts + 1
    BY <1>1, <1>2, MissedIs
  <1>7. mailClock' = mailClock /\ restarted' = restarted
    BY DEF Missed
  <1>8. Grown
    BY <1>1, <1>3, <1>4, <1>5, <1>7 DEF Grown, IssueFields
  <1>9. Reasons
    <2> SUFFICES ASSUME NEW x \in Mails, codes[x] # Rg!NoEntry, codes'[x].code # codes[x].code
                 PROVE  issued'[codes[x].code].wrong >= MaxAttempts
      BY DEF Reasons
    <2>1. x = m /\ codes[x].code = e.code /\ codes'[m].code # e.code
      BY <1>2, <1>4
    <2>2. e.attempts + 1 = MaxAttempts
      BY <1>6, <2>1
    <2> QED BY <1>3, <1>5, <2>1, <2>2, CodeSettings
  <1>10. Rg!CodeIsSingleUse'
    <2> SUFFICES ASSUME NEW k \in DOMAIN issued
                 PROVE  /\ issued'[k].uses <= 1
                        /\ issued'[k].uses = 1 => issued'[k].usedAt <= issued'[k].at + TTL
                        /\ issued'[k].wrong <= MaxAttempts
                        /\ issued'[k].uses = 1 => issued'[k].wrong < MaxAttempts
      BY <1>4 DEF Rg!CodeIsSingleUse
    <2>1. CASE k = e.code
      BY <1>3, <1>5, <2>1, CodeSettings
    <2>2. CASE k # e.code
      BY <1>4, <2>2 DEF CodeInv, Rg!CodeIsSingleUse
    <2> QED BY <2>1, <2>2
  <1>11. EntryInv'
    <2>1. ASSUME NEW x \in Mails, codes'[x] # Rg!NoEntry
          PROVE  /\ codes'[x].code \in DOMAIN issued'
                 /\ issued'[codes'[x].code].mail = x
                 /\ issued'[codes'[x].code].uses = 0
                 /\ issued'[codes'[x].code].at = codes'[x].lastSent
                 /\ codes'[x].expireAt = codes'[x].lastSent + TTL
                 /\ issued'[codes'[x].code].wrong = codes'[x].attempts
                 /\ codes'[x].attempts < MaxAttempts
      <3>1. CASE x = m
        <4>1. /\ issued[e.code].mail = m /\ issued[e.code].at = e.lastSent
              /\ e.expireAt = e.lastSent + TTL
          BY <1>1, <1>2 DEF EntryInv
        <4> QED BY <1>3, <1>4, <1>5, <1>6, <2>1, <3>1, <4>1
      <3>2. CASE x # m
        <4>1. codes'[x] = codes[x] /\ codes[x] # Rg!NoEntry /\ codes[x].code # e.code
          BY <1>1, <1>2, <1>4, <2>1, <3>2, OwnCode
        <4> QED BY <1>1, <1>4, <4>1 DEF EntryInv
      <3> QED BY <3>1, <3>2
    <2>2. \A k \in DOMAIN issued' : issued'[k].at <= mailClock'
      BY <1>1, <1>4, <1>5, <1>7 DEF EntryInv
    <2>3. ~ restarted' => \A k \in DOMAIN issued' : ~ issued'[k].lost
      BY <1>1, <1>4, <1>5, <1>7 DEF EntryInv
    <2> QED BY <2>1, <2>2, <2>3 DEF EntryInv, Rg!NoEntry, Rg!NoCode
  <1> QED BY <1>1, <1>8, <1>9, <1>10, <1>11, GrownKeeps DEF CodeInv

\* The use of a code keeps the codes right.
LEMMA UsedKeeps ==
  ASSUME CodeInv, NEW m \in Mails, Used(m)
  PROVE  CodeInv' /\ Grown /\ codes[m].code \in DOMAIN issued
         /\ issued[codes[m].code].uses = 0 /\ issued'[codes[m].code].uses = 1
         /\ issued[codes[m].code].mail = m
  <1>1. CodeTypes /\ EntryInv /\ CodeTypes' /\ IssueFields /\ mailClock \in Nat
        /\ codes[m] # Rg!NoEntry
    BY UsedIs, IssueFieldsHold DEF CodeInv, CodeTypes, Used
  <1>2. PICK e : e = codes[m]
    OBVIOUS
  <1>3. /\ e \in Entries /\ e.attempts \in Nat /\ e.code \in DOMAIN issued
        /\ issued[e.code].wrong = e.attempts /\ e.attempts < MaxAttempts
        /\ issued[e.code].uses = 0 /\ issued[e.code].mail = m
        /\ e.expireAt = issued[e.code].at + TTL
    BY <1>1, <1>2, EntryIs DEF EntryInv, Entries
  <1>4. /\ DOMAIN issued' = DOMAIN issued
        /\ \A k \in DOMAIN issued : k # e.code => issued'[k] = issued[k]
        /\ \A x \in Mails : x # m => codes'[x] = codes[x]
        /\ codes'[m] = Rg!NoEntry
    BY <1>1, <1>2, UsedIs
  <1>5. /\ issued'[e.code].mail = issued[e.code].mail /\ issued'[e.code].at = issued[e.code].at
        /\ issued'[e.code].wrong = issued[e.code].wrong
        /\ issued'[e.code].uses = issued[e.code].uses + 1
        /\ issued'[e.code].usedAt = mailClock
        /\ issued'[e.code].lost = issued[e.code].lost
    BY <1>1, <1>2, UsedIs
  <1>6. ~ (mailClock > e.expireAt)
    BY <1>1, <1>2 DEF Used, Rg!Expired
  <1>7. mailClock' = mailClock /\ restarted' = restarted
    BY DEF Used
  <1>8. Grown
    BY <1>1, <1>3, <1>4, <1>5, <1>7 DEF Grown, IssueFields
  <1>9. Reasons
    <2> SUFFICES ASSUME NEW x \in Mails, codes[x] # Rg!NoEntry, codes'[x].code # codes[x].code
                 PROVE  issued'[codes[x].code].uses > 0
      BY DEF Reasons
    <2>1. x = m /\ codes[x].code = e.code
      BY <1>2, <1>4
    <2> QED BY <1>3, <1>5, <2>1
  <1>10. Rg!CodeIsSingleUse'
    <2> SUFFICES ASSUME NEW k \in DOMAIN issued
                 PROVE  /\ issued'[k].uses <= 1
                        /\ issued'[k].uses = 1 => issued'[k].usedAt <= issued'[k].at + TTL
                        /\ issued'[k].wrong <= MaxAttempts
                        /\ issued'[k].uses = 1 => issued'[k].wrong < MaxAttempts
      BY <1>4 DEF Rg!CodeIsSingleUse
    <2>1. CASE k = e.code
      <3>1. issued[e.code].at \in Nat
        BY <1>1, <1>3 DEF IssueFields
      <3> QED BY <1>1, <1>3, <1>5, <1>6, <2>1, <3>1, CodeSettings
    <2>2. CASE k # e.code
      BY <1>4, <2>2 DEF CodeInv, Rg!CodeIsSingleUse
    <2> QED BY <2>1, <2>2
  <1>11. EntryInv'
    <2>1. ASSUME NEW x \in Mails, codes'[x] # Rg!NoEntry
          PROVE  /\ codes'[x].code \in DOMAIN issued'
                 /\ issued'[codes'[x].code].mail = x
                 /\ issued'[codes'[x].code].uses = 0
                 /\ issued'[codes'[x].code].at = codes'[x].lastSent
                 /\ codes'[x].expireAt = codes'[x].lastSent + TTL
                 /\ issued'[codes'[x].code].wrong = codes'[x].attempts
                 /\ codes'[x].attempts < MaxAttempts
      <3>1. x # m
        BY <1>4, <2>1
      <3>2. codes'[x] = codes[x] /\ codes[x] # Rg!NoEntry /\ codes[x].code # e.code
        BY <1>1, <1>2, <1>4, <2>1, <3>1, OwnCode
      <3> QED BY <1>1, <1>4, <3>2 DEF EntryInv
    <2>2. \A k \in DOMAIN issued' : issued'[k].at <= mailClock'
      BY <1>1, <1>4, <1>5, <1>7 DEF EntryInv
    <2>3. ~ restarted' => \A k \in DOMAIN issued' : ~ issued'[k].lost
      BY <1>1, <1>4, <1>5, <1>7 DEF EntryInv
    <2> QED BY <2>1, <2>2, <2>3 DEF EntryInv, Rg!NoEntry, Rg!NoCode
  <1> QED BY <1>1, <1>2, <1>3, <1>5, <1>8, <1>9, <1>10, <1>11, GrownKeeps, SMTT(30) DEF CodeInv

\* Neither time nor the cleanup takes a good code away.
LEMMA DroppedKeeps ==
  ASSUME CodeInv, Dropped
  PROVE  CodeInv'
  <1>1. CodeTypes /\ EntryInv /\ IssueFields /\ mailClock \in Nat
    BY IssueFieldsHold DEF CodeInv, CodeTypes
  <1>2. CodeTypes'
    BY <1>1 DEF CodeTypes, Dropped
  <1>3. issued' = issued /\ restarted' = restarted /\ mailClock' \in Nat /\ mailClock <= mailClock'
    BY DEF Dropped
  <1>4. Grown
    BY <1>1, <1>3 DEF Grown, IssueFields
  <1>5. Reasons
    <2> SUFFICES ASSUME NEW x \in Mails, codes[x] # Rg!NoEntry, codes'[x].code # codes[x].code
                 PROVE  mailClock' > issued[codes[x].code].at + TTL
      BY DEF Reasons
    <2>1. Rg!Expired(x)
      BY DEF Dropped
    <2>2. codes[x].expireAt = issued[codes[x].code].at + TTL /\ codes[x].code \in DOMAIN issued
      BY <1>1 DEF EntryInv
    <2>3. issued[codes[x].code].at \in Nat
      BY <1>1, <2>2 DEF IssueFields
    <2> QED BY <1>1, <1>3, <2>1, <2>2, <2>3, CodeSettings DEF Rg!Expired
  <1>6. Rg!CodeIsSingleUse'
    BY <1>3 DEF CodeInv, Rg!CodeIsSingleUse
  <1>7. EntryInv'
    <2>1. ASSUME NEW x \in Mails, codes'[x] # Rg!NoEntry
          PROVE  codes'[x] = codes[x] /\ codes[x] # Rg!NoEntry
      BY <2>1 DEF Dropped
    <2>2. \A k \in DOMAIN issued : issued[k].at <= mailClock'
      BY <1>1, <1>3 DEF EntryInv, IssueFields
    <2> QED BY <1>1, <1>3, <2>1, <2>2 DEF EntryInv, Rg!NoEntry, Rg!NoCode
  <1> QED BY <1>2, <1>4, <1>5, <1>6, <1>7, GrownKeeps DEF CodeInv

\* A restart loses codes, and says so.
LEMMA LostKeeps ==
  ASSUME CodeInv, Lost
  PROVE  CodeInv' /\ Grown /\ \A k \in DOMAIN issued : issued'[k].uses = issued[k].uses
  <1>1. CodeTypes /\ EntryInv /\ IssueFields /\ mailClock \in Nat
    BY IssueFieldsHold DEF CodeInv, CodeTypes
  <1>2. ASSUME NEW k \in DOMAIN issued
        PROVE  /\ issued'[k] \in Issues
               /\ issued'[k].mail = issued[k].mail /\ issued'[k].at = issued[k].at
               /\ issued'[k].wrong = issued[k].wrong /\ issued'[k].uses = issued[k].uses
               /\ issued'[k].usedAt = issued[k].usedAt
               /\ issued'[k].lost <=> \E m \in Mails : codes[m].code = k
    <2>1. PICK r : r = issued[k]
      OBVIOUS
    <2>2. PICK b \in BOOLEAN : b <=> \E m \in Mails : codes[m].code = k
      OBVIOUS
    <2>3. b = (\E m \in Mails : codes[m].code = k)
      BY <2>2
    <2>4. issued'[k] = [r EXCEPT !.lost = b]
      BY <2>1, <2>3 DEF Lost
    <2>5. r \in Issues
      BY <1>1, <2>1 DEF CodeTypes
    <2> QED BY <2>1, <2>2, <2>4, <2>5 DEF Issues
  <1>3. DOMAIN issued' = DOMAIN issued /\ mailClock' = mailClock /\ restarted' = TRUE
    BY DEF Lost
  <1>4. issued' \in Seq(Issues)
    <2>1. DOMAIN issued = 1 .. Len(issued) /\ Len(issued) \in Nat
      BY <1>1 DEF CodeTypes
    <2>2. PICK s : s = issued'
      OBVIOUS
    <2>3. s = [k \in 1 .. Len(issued) |-> s[k]]
      BY <2>1, <2>2 DEF Lost
    <2>4. \A k \in 1 .. Len(issued) : s[k] \in Issues
      BY <1>2, <2>1, <2>2
    <2> QED BY <2>1, <2>2, <2>3, <2>4
  <1>5. CodeTypes' /\ \A x \in Mails : codes'[x] = Rg!NoEntry
    BY <1>1, <1>3, <1>4 DEF CodeTypes, Lost
  <1>6. \A k \in DOMAIN issued : ~ issued[k].lost
    BY <1>1 DEF EntryInv, Lost
  <1>7. Grown
    BY <1>1, <1>2, <1>3, <1>6 DEF Grown, IssueFields
  <1>8. Reasons
    <2> SUFFICES ASSUME NEW x \in Mails, codes[x] # Rg!NoEntry, codes'[x].code # codes[x].code
                 PROVE  issued'[codes[x].code].lost
      BY DEF Reasons
    <2>1. codes[x].code \in DOMAIN issued
      BY <1>1 DEF EntryInv
    <2> QED BY <1>2, <2>1
  <1>9. Rg!CodeIsSingleUse'
    BY <1>2, <1>3 DEF CodeInv, Rg!CodeIsSingleUse
  <1>10. EntryInv'
    BY <1>1, <1>2, <1>3, <1>5 DEF EntryInv, Rg!NoEntry, Rg!NoCode
  <1> QED BY <1>2, <1>5, <1>7, <1>8, <1>9, <1>10, GrownKeeps DEF CodeInv
-----------------------------------------------------------------------------
(* Hands and accounts *)

\* Codes stay where they were sent to, and a used one stays used once.
Steady ==
  \A k \in DOMAIN issued :
    /\ k \in DOMAIN issued' /\ issued'[k].mail = issued[k].mail
    /\ issued[k].uses = 1 => issued'[k].uses = 1

LEMMA CodeStep ==
  ASSUME CodeInv,
         \/ UNCHANGED <<mailClock, codes, issued, restarted>>
         \/ \E m \in Mails : Drawn(m) \/ Missed(m) \/ Used(m)
         \/ Dropped
         \/ Lost
  PROVE  CodeInv' /\ Steady
  <1>1. CASE UNCHANGED <<mailClock, codes, issued, restarted>>
    <2>1. CodeInv'
      BY <1>1 DEF CodeInv, CodeTypes, EntryInv, Rg!CodeIsSingleUse, Rg!CodeStaysValid,
                  Rg!CooldownHolds, Rg!NoEntry, Rg!NoCode
    <2> QED BY <1>1, <2>1 DEF Steady
  <1>2. ASSUME NEW m \in Mails, Drawn(m)
        PROVE  CodeInv' /\ Steady
    <2>1. CodeTypes
      BY DEF CodeInv
    <2> QED BY <1>2, <2>1, DrawnIs, DrawnKeeps DEF Steady
  <1>3. ASSUME NEW m \in Mails, Missed(m)
        PROVE  CodeInv' /\ Steady
    <2>1. CodeTypes /\ EntryInv
      BY DEF CodeInv
    <2>2. PICK n : n = codes[m].code
      OBVIOUS
    <2>3. /\ DOMAIN issued' = DOMAIN issued
          /\ \A k \in DOMAIN issued : k # n => issued'[k] = issued[k]
          /\ issued'[n].mail = issued[n].mail /\ issued'[n].uses = issued[n].uses
      BY <1>3, <2>1, <2>2, MissedIs
    <2>4. Steady
      BY <2>3 DEF Steady
    <2> QED BY <1>3, <2>4, MissedKeeps
  <1>4. ASSUME NEW m \in Mails, Used(m)
        PROVE  CodeInv' /\ Steady
    <2>1. CodeTypes /\ EntryInv
      BY DEF CodeInv
    <2>2. PICK n : n = codes[m].code
      OBVIOUS
    <2>3. /\ DOMAIN issued' = DOMAIN issued
          /\ \A k \in DOMAIN issued : k # n => issued'[k] = issued[k]
          /\ issued'[n].mail = issued[n].mail
      BY <1>4, <2>1, <2>2, UsedIs
    <2>4. CodeInv' /\ issued[n].uses = 0
      BY <1>4, <2>2, UsedKeeps
    <2> QED BY <2>3, <2>4 DEF Steady
  <1>5. CASE Dropped
    <2>1. issued' = issued
      BY <1>5 DEF Dropped
    <2> QED BY <1>5, <2>1, DroppedKeeps DEF Steady
  <1>6. CASE Lost
    BY <1>6, LostKeeps DEF Steady, Grown
  <1> QED BY <1>1, <1>2, <1>3, <1>4, <1>5, <1>6

\* Nothing new in anybody's hands.
Kept ==
  /\ \A i \in DOMAIN calls' : OkCall(i)' =>
       /\ i \in DOMAIN calls /\ OkCall(i)
       /\ calls'[i].code = calls[i].code /\ calls'[i].mail = calls[i].mail
  /\ \A c \in Clients : Ready(c)' => Ready(c) /\ reg'[c] = reg[c]
  /\ proof' = proof

LEMMA KeptKeeps ==
  ASSUME HandInv, Kept, Steady
  PROVE  HandInv'
  <1>1. \A i \in DOMAIN calls' : OkCall(i)' => Good(calls[i].code, calls[i].mail)'
    BY DEF HandInv, Kept, Steady, Good
  <1>2. \A i, j \in DOMAIN calls' :
          OkCall(i)' /\ OkCall(j)' /\ calls'[i].code = calls'[j].code => i = j
    BY DEF HandInv, Kept
  <1>3. \A c \in Clients : Ready(c)' => Good(reg[c].code, reg[c].mail)'
    BY DEF HandInv, Kept, Steady, Good
  <1>4. \A c, d \in Clients : Ready(c)' /\ Ready(d)' /\ reg'[c].code = reg'[d].code => c = d
    BY DEF HandInv, Kept
  <1>5. \A c \in Clients : \A i \in DOMAIN calls' :
          Ready(c)' /\ OkCall(i)' => reg'[c].code # calls'[i].code
    BY DEF HandInv, Kept
  <1>6. \A p \in DOMAIN proof' : proof'[p] # Rg!NoCode =>
          proof'[p] \in DOMAIN issued' /\ issued'[proof'[p]].uses = 1
    BY DEF HandInv, Kept, Steady
  <1>7. \A p \in DOMAIN proof' : \A c \in Clients : Ready(c)' => proof'[p] # reg'[c].code
    BY DEF HandInv, Kept
  <1>8. \A p \in DOMAIN proof' : \A i \in DOMAIN calls' : OkCall(i)' => proof'[p] # calls'[i].code
    BY DEF HandInv, Kept
  <1> QED BY <1>1, <1>2, <1>3, <1>4, <1>5, <1>6, <1>7, <1>8 DEF HandInv, Rg!NoCode

\* The accounts stay what they are.
LEMMA UsersKept ==
  ASSUME UserInv, Steady, UNCHANGED <<users, rows, baseId, proof, unclear>>
  PROVE  UserInv'
  <1>1. Rg!UniqueAccounts'
    BY DEF UserInv, Rg!UniqueAccounts
  <1>2. Rg!AccountsProven'
    <2>1. ASSUME NEW u \in rows, ~ \E S \in Existing : u \in S
          PROVE  /\ proof[u.id] \in DOMAIN issued'
                 /\ issued'[proof[u.id]].mail = u.mail /\ issued'[proof[u.id]].uses = 1
      <3>1. /\ proof[u.id] \in DOMAIN issued
            /\ issued[proof[u.id]].mail = u.mail /\ issued[proof[u.id]].uses = 1
        BY <2>1 DEF UserInv, Rg!AccountsProven
      <3> QED BY <3>1 DEF Steady
    <2>2. \A i, j \in DOMAIN proof : proof[i] = proof[j] /\ proof[i] # Rg!NoCode => i = j
      BY DEF UserInv, Rg!AccountsProven
    <2> QED BY <2>1, <2>2 DEF Rg!AccountsProven, Rg!NoCode
  <1>3. RowIds'
    BY DEF UserInv, RowIds
  <1> QED BY <1>1, <1>2, <1>3 DEF UserInv

\* The service leaves what a waiting session asked.
LEMMA CallsKept ==
  ASSUME CallInv, UNCHANGED <<waiting, reg>>, DOMAIN calls' = DOMAIN calls,
         \A c \in Clients : waiting[c] # 0 /\ calls[waiting[c]].op = "verify" =>
           SameCall(calls'[waiting[c]], calls[waiting[c]])
  PROVE  CallInv'
  <1>1. ASSUME NEW c \in Clients, waiting[c] # 0
        PROVE  /\ waiting[c] \in DOMAIN calls
               /\ reg[c] # Rg!NoReg => /\ calls'[waiting[c]].op = "verify"
                                       /\ calls'[waiting[c]].mail = reg[c].mail
                                       /\ calls'[waiting[c]].code = reg[c].code
    <2>1. /\ waiting[c] \in DOMAIN calls
          /\ reg[c] # Rg!NoReg => /\ calls[waiting[c]].op = "verify"
                                  /\ calls[waiting[c]].mail = reg[c].mail
                                  /\ calls[waiting[c]].code = reg[c].code
      BY <1>1 DEF CallInv
    <2> QED BY <1>1, <2>1 DEF SameCall
  <1> QED BY <1>1 DEF CallInv, Rg!NoReg
-----------------------------------------------------------------------------
(* The steps of the sessions *)

\* What the sessions' steps leave alone.
StoreSame == UNCHANGED <<mailClock, codes, issued, restarted>>
UsersSame == UNCHANGED <<users, rows, baseId, proof, unclear>>

\* A call is made by an idle session, for the registration g if any.
LEMMA Calls ==
  ASSUME RegInv, NEW c \in Clients, Rg!Idle(c), NEW r \in MailCalls, r.st = "sent",
         r.mail \in Mails, Rg!Call(c, r), NEW g \in Regs \cup {Rg!NoReg},
         reg' = [reg EXCEPT ![c] = g],
         g # Rg!NoReg => r.op = "verify" /\ r.mail = g.mail /\ r.code = g.code,
         StoreSame, UsersSame
  PROVE  RegInv'
  <1>1. CodeInv' /\ Steady
    BY CodeStep DEF RegInv, StoreSame
  <1>2. CallTypes /\ SessionTypes /\ CallInv /\ HandInv /\ UserInv
    BY DEF RegInv
  <1>3. PICK n \in Nat : n = Len(calls) + 1 /\ n # 0
    BY <1>2 DEF CallTypes
  <1>4. /\ calls' \in Seq(MailCalls) /\ DOMAIN calls' = DOMAIN calls \cup {n}
        /\ n \notin DOMAIN calls /\ calls'[n] = r
        /\ \A i \in DOMAIN calls : calls'[i] = calls[i]
    BY <1>2, <1>3 DEF CallTypes, Rg!Call
  <1>5. CallTypes'
    BY <1>2, <1>4 DEF CallTypes, Whole
  <1>6. /\ waiting' \in [Clients -> Nat] /\ waiting'[c] = n
        /\ \A d \in Clients : d # c => waiting'[d] = waiting[d]
    BY <1>2, <1>3 DEF SessionTypes, Rg!Call
  <1>7. /\ reg' \in [Clients -> Regs \cup {Rg!NoReg}] /\ reg'[c] = g
        /\ \A d \in Clients : d # c => reg'[d] = reg[d]
    BY <1>2 DEF SessionTypes
  <1>8. SessionTypes'
    BY <1>2, <1>6, <1>7 DEF SessionTypes, UsersSame, Rg!NoReg
  <1>9. CallInv'
    <2>1. ASSUME NEW d \in Clients, waiting'[d] # 0
          PROVE  /\ waiting'[d] \in DOMAIN calls'
                 /\ reg'[d] # Rg!NoReg => /\ calls'[waiting'[d]].op = "verify"
                                          /\ calls'[waiting'[d]].mail = reg'[d].mail
                                          /\ calls'[waiting'[d]].code = reg'[d].code
      <3>1. CASE d = c
        BY <1>4, <1>6, <1>7, <3>1
      <3>2. CASE d # c
        BY <1>2, <1>4, <1>6, <1>7, <2>1, <3>2 DEF CallInv
      <3> QED BY <3>1, <3>2
    <2>2. ASSUME NEW d \in Clients, NEW e \in Clients, waiting'[d] = waiting'[e], waiting'[d] # 0
          PROVE  d = e
      BY <1>2, <1>4, <1>6, <2>2 DEF CallInv
    <2> QED BY <2>1, <2>2 DEF CallInv, Rg!NoReg
  <1>10. Kept
    <2>1. \A i \in DOMAIN calls' : OkCall(i)' => i \in DOMAIN calls /\ calls'[i] = calls[i]
      BY <1>4 DEF OkCall
    <2>2. \A d \in Clients : Ready(d)' => d # c
      BY <1>3, <1>6 DEF Ready
    <2> QED BY <1>6, <1>7, <2>1, <2>2 DEF Kept, OkCall, Ready, UsersSame, Rg!NoReg
  <1>11. HandInv' /\ UserInv'
    BY <1>1, <1>2, <1>10, KeptKeeps, UsersKept DEF UsersSame
  <1> QED BY <1>1, <1>5, <1>8, <1>9, <1>11 DEF RegInv

LEMMA SendStep ==
  ASSUME RegInv, NEW c \in Clients, NEW m \in Mails, Rg!OnSendEmailCode(c, m)
  PROVE  RegInv'
  <1>1. PICK r : r = [op |-> "send", mail |-> m, code |-> Rg!NoCode, st |-> "sent"]
    OBVIOUS
  <1>2. r \in MailCalls /\ r.st = "sent" /\ r.mail \in Mails
    BY <1>1 DEF MailCalls, CallStates, Rg!NoCode
  <1>3. reg' = [reg EXCEPT ![c] = Rg!NoReg]
    BY DEF Rg!OnSendEmailCode, Rg!mailVars, Rg!userVars, Rg!Idle, RegInv, SessionTypes
  <1>4. Rg!Idle(c) /\ Rg!Call(c, r) /\ StoreSame /\ UsersSame
    BY <1>1 DEF Rg!OnSendEmailCode, Rg!mailVars, Rg!userVars, StoreSame, UsersSame
  <1> QED BY <1>2, <1>3, <1>4, Calls

LEMMA RegisterStep ==
  ASSUME RegInv, NEW c \in Clients, NEW n \in Names, NEW m \in Mails, NEW k \in 0 .. Len(issued),
         Rg!OnRegister(c, n, m, k)
  PROVE  RegInv'
  <1> k \in Nat
    BY DEF RegInv, CodeInv, CodeTypes
  <1>1. PICK r : r = [op |-> "verify", mail |-> m, code |-> k, st |-> "sent"]
    OBVIOUS
  <1>2. /\ r \in MailCalls /\ r.st = "sent" /\ r.mail = m /\ r.op = "verify" /\ r.code = k
    BY <1>1 DEF MailCalls, CallStates
  <1>3. PICK g : g = [name |-> n, mail |-> m, code |-> k]
    OBVIOUS
  <1>4. g \in Regs /\ g.mail = m /\ g.code = k
    BY <1>3 DEF Regs
  <1>5. Rg!Idle(c) /\ Rg!Call(c, r) /\ StoreSame /\ UsersSame /\ reg' = [reg EXCEPT ![c] = g]
    BY <1>1, <1>3 DEF Rg!OnRegister, Rg!mailVars, Rg!userVars, StoreSame, UsersSame
  <1> QED BY <1>2, <1>4, <1>5, Calls

\* What a session that waits is worth.
LEMMA Waits ==
  ASSUME RegInv, NEW c \in Clients, waiting[c] # 0
  PROVE  /\ waiting[c] \in DOMAIN calls /\ waiting[c] \in Nat
         /\ calls[waiting[c]] \in MailCalls
         /\ \A d \in Clients : d # c => waiting[d] # waiting[c]
  <1>1. CallTypes /\ SessionTypes /\ CallInv
    BY DEF RegInv
  <1>2. waiting[c] \in DOMAIN calls /\ \A d \in Clients : d # c => waiting[d] # waiting[c]
    BY <1>1 DEF CallInv
  <1> QED BY <1>1, <1>2 DEF CallTypes, SessionTypes

\* A session stops waiting; of its call remains x, of its registration g.
Released(c, x, g) ==
  /\ waiting[c] # 0
  /\ waiting' = [waiting EXCEPT ![c] = 0]
  /\ reg' = [reg EXCEPT ![c] = g]
  /\ calls' = [calls EXCEPT ![waiting[c]] = x]
  /\ StoreSame /\ UsersSame

LEMMA ReleasedIs ==
  ASSUME RegInv, NEW c \in Clients, NEW x \in MailCalls, Whole(x),
         NEW g \in Regs \cup {Rg!NoReg}, Released(c, x, g)
  PROVE  /\ CodeInv' /\ Steady /\ CallTypes' /\ SessionTypes' /\ CallInv' /\ UserInv'
         /\ DOMAIN calls' = DOMAIN calls /\ calls'[waiting[c]] = x
         /\ \A i \in DOMAIN calls : i # waiting[c] => calls'[i] = calls[i]
         /\ waiting'[c] = 0 /\ \A d \in Clients : d # c => waiting'[d] = waiting[d]
         /\ reg'[c] = g /\ \A d \in Clients : d # c => reg'[d] = reg[d]
  <1>1. CodeInv' /\ Steady
    BY CodeStep DEF RegInv, StoreSame, Released
  <1>2. CallTypes /\ SessionTypes /\ CallInv /\ HandInv /\ UserInv
    BY DEF RegInv
  <1>3. PICK w : w = waiting[c]
    OBVIOUS
  <1>4. w # 0 /\ w \in DOMAIN calls /\ \A d \in Clients : d # c => waiting[d] # w
    BY <1>3, Waits DEF Released
  <1>5. /\ CallTypes' /\ DOMAIN calls' = DOMAIN calls /\ calls'[w] = x
        /\ \A i \in DOMAIN calls : i # w => calls'[i] = calls[i]
    <2>1. calls' = [calls EXCEPT ![w] = x]
      BY <1>3 DEF Released
    <2> QED BY <1>2, <1>4, <2>1, Replaced
  <1>6. /\ waiting' \in [Clients -> Nat] /\ waiting'[c] = 0
        /\ \A d \in Clients : d # c => waiting'[d] = waiting[d]
    BY <1>2 DEF SessionTypes, Released
  <1>7. /\ reg' \in [Clients -> Regs \cup {Rg!NoReg}] /\ reg'[c] = g
        /\ \A d \in Clients : d # c => reg'[d] = reg[d]
    BY <1>2 DEF SessionTypes, Released
  <1>8. SessionTypes'
    BY <1>2, <1>6, <1>7 DEF SessionTypes, UsersSame, Released, Rg!NoReg
  <1>9. CallInv'
    <2>1. ASSUME NEW d \in Clients, waiting'[d] # 0
          PROVE  /\ waiting'[d] \in DOMAIN calls'
                 /\ reg'[d] # Rg!NoReg => /\ calls'[waiting'[d]].op = "verify"
                                          /\ calls'[waiting'[d]].mail = reg'[d].mail
                                          /\ calls'[waiting'[d]].code = reg'[d].code
      <3>1. d # c /\ waiting'[d] = waiting[d] /\ waiting[d] # w /\ reg'[d] = reg[d]
        BY <1>4, <1>6, <1>7, <2>1
      <3>2. waiting[d] \in DOMAIN calls
        BY <1>2, <2>1, <3>1 DEF CallInv
      <3> QED BY <1>2, <1>5, <2>1, <3>1, <3>2 DEF CallInv
    <2>2. ASSUME NEW d \in Clients, NEW e \in Clients, waiting'[d] = waiting'[e], waiting'[d] # 0
          PROVE  d = e
      BY <1>2, <1>6, <2>2 DEF CallInv
    <2> QED BY <2>1, <2>2 DEF CallInv, Rg!NoReg
  <1>10. UserInv'
    BY <1>1, <1>2, UsersKept DEF UsersSame, Released
  <1> QED BY <1>1, <1>3, <1>5, <1>6, <1>7, <1>8, <1>9, <1>10

\* A session that ends its registration without a verified code.
LEMMA Dismissed ==
  ASSUME RegInv, NEW c \in Clients, NEW x \in MailCalls, Whole(x),
         x = Rg!Over \/ x.st \in {"sent", "smtp"},
         Released(c, x, Rg!NoReg)
  PROVE  RegInv'
  <1>1. /\ CodeInv' /\ Steady /\ CallTypes' /\ SessionTypes' /\ CallInv' /\ UserInv'
        /\ DOMAIN calls' = DOMAIN calls /\ calls'[waiting[c]] = x
        /\ \A i \in DOMAIN calls : i # waiting[c] => calls'[i] = calls[i]
        /\ waiting'[c] = 0 /\ \A d \in Clients : d # c => waiting'[d] = waiting[d]
        /\ reg'[c] = Rg!NoReg /\ \A d \in Clients : d # c => reg'[d] = reg[d]
    BY ReleasedIs
  <1>2. ~ (x.op = "verify" /\ x.st = "ok")
    BY OverIs
  <1>3. \A i \in DOMAIN calls' : OkCall(i)' => i \in DOMAIN calls /\ calls'[i] = calls[i]
    BY <1>1, <1>2 DEF OkCall
  <1>4. \A d \in Clients : Ready(d)' => d # c
    BY <1>1 DEF Ready, Rg!NoReg
  <1>5. proof' = proof
    BY DEF Released, UsersSame
  <1>6. Kept
    BY <1>1, <1>3, <1>4, <1>5 DEF Kept, OkCall, Ready, Rg!NoReg
  <1>7. HandInv'
    BY <1>1, <1>6, KeptKeeps DEF RegInv
  <1> QED BY <1>1, <1>7 DEF RegInv

LEMMA DeadlineStep ==
  ASSUME RegInv, NEW c \in Clients, Rg!Deadline(c)
  PROVE  RegInv'
  <1>1. waiting[c] # 0
    BY DEF Rg!Deadline, Rg!mailVars, Rg!userVars, Rg!Overdue
  <1>2. PICK y : y = calls[waiting[c]]
    OBVIOUS
  <1>3. y \in MailCalls /\ Whole(y)
    BY <1>1, <1>2, Waits DEF RegInv, CallTypes
  <1>4. PICK x : x = IF y.st \in {"sent", "smtp"} THEN y ELSE Rg!Over
    OBVIOUS
  <1>5. /\ x \in MailCalls /\ Whole(x)
        /\ x = Rg!Over \/ x.st \in {"sent", "smtp"}
    BY <1>3, <1>4, OverIs
  <1>6. Released(c, x, Rg!NoReg)
    <2>1. waiting[c] \in DOMAIN calls
      BY <1>1, Waits
    <2>2. calls' = [calls EXCEPT ![waiting[c]] = x]
      BY <1>2, <1>4, <2>1 DEF Rg!Deadline, Rg!mailVars, Rg!userVars
    <2> QED BY <1>1, <2>2 DEF Released, Rg!Deadline, Rg!mailVars, Rg!userVars, StoreSame, UsersSame
  <1> QED BY <1>5, <1>6, Dismissed

LEMMA ReplyStep ==
  ASSUME RegInv, NEW c \in Clients, Rg!Reply(c)
  PROVE  RegInv'
  <1>1. waiting[c] # 0
    BY DEF Rg!Reply, Rg!mailVars, Rg!userVars, Rg!Answered
  <1>2. PICK w : w = waiting[c]
    OBVIOUS
  <1>3. PICK g : g = IF reg[c] # Rg!NoReg /\ Rg!Verified(w) THEN reg[c] ELSE Rg!NoReg
    OBVIOUS
  <1>4. g \in Regs \cup {Rg!NoReg}
    BY <1>3 DEF RegInv, SessionTypes
  <1>5. Released(c, Rg!Over, g)
    <2>1. reg' = [reg EXCEPT ![c] = g]
      BY <1>2, <1>3 DEF Rg!Reply, Rg!mailVars, Rg!userVars, RegInv, SessionTypes
    <2> QED BY <1>1, <2>1 DEF Released, Rg!Reply, Rg!mailVars, Rg!userVars, StoreSame, UsersSame
  <1>6. CASE g = Rg!NoReg
    BY <1>5, <1>6, OverIs, Dismissed
  <1>7. CASE g # Rg!NoReg
    <2>1. g = reg[c] /\ reg[c] # Rg!NoReg /\ calls[w].st = "ok"
      BY <1>3, <1>7 DEF Rg!Verified
    <2>2. /\ CodeInv' /\ Steady /\ CallTypes' /\ SessionTypes' /\ CallInv' /\ UserInv'
          /\ DOMAIN calls' = DOMAIN calls /\ calls'[w] = Rg!Over
          /\ \A i \in DOMAIN calls : i # w => calls'[i] = calls[i]
          /\ waiting'[c] = 0 /\ \A d \in Clients : d # c => waiting'[d] = waiting[d]
          /\ reg'[c] = g /\ \A d \in Clients : d # c => reg'[d] = reg[d]
      BY <1>2, <1>4, <1>5, OverIs, ReleasedIs
    <2>3. /\ w \in DOMAIN calls /\ calls[w].op = "verify"
          /\ calls[w].mail = g.mail /\ calls[w].code = g.code
      BY <1>1, <1>2, <2>1 DEF RegInv, CallInv
    <2>4. OkCall(w)
      BY <2>1, <2>3 DEF OkCall
    <2>5. HandInv /\ issued' = issued /\ proof' = proof
      BY <1>5 DEF RegInv, Released, StoreSame, UsersSame
    <2>6. \A i \in DOMAIN calls' : OkCall(i)' =>
            i # w /\ i \in DOMAIN calls /\ OkCall(i) /\ calls'[i] = calls[i]
      BY <2>2, OverIs DEF OkCall
    <2>7. \A d \in Clients : Ready(d)' => reg'[d] = reg[d] /\ (d = c \/ Ready(d))
      BY <2>1, <2>2 DEF Ready, Rg!NoReg
    <2>8. HandInv'
      <3>1. \A i \in DOMAIN calls' : OkCall(i)' => Good(calls[i].code, calls[i].mail)'
        BY <2>5, <2>6 DEF HandInv, Good
      <3>2. \A i, j \in DOMAIN calls' :
              OkCall(i)' /\ OkCall(j)' /\ calls'[i].code = calls'[j].code => i = j
        BY <2>5, <2>6 DEF HandInv
      <3>3. Good(g.code, g.mail)
        BY <2>3, <2>4, <2>5 DEF HandInv
      <3>4. \A d \in Clients : Ready(d)' => Good(reg[d].code, reg[d].mail)'
        BY <2>1, <2>5, <2>7, <3>3 DEF HandInv, Good
      <3>5. \A d \in Clients : Ready(d) => reg[d].code # g.code
        BY <2>3, <2>4, <2>5 DEF HandInv
      <3>6. \A d, e \in Clients : Ready(d)' /\ Ready(e)' /\ reg'[d].code = reg'[e].code => d = e
        BY <2>1, <2>5, <2>7, <3>5 DEF HandInv
      <3>7. \A i \in DOMAIN calls : OkCall(i) /\ i # w => calls[i].code # g.code
        BY <2>3, <2>4, <2>5 DEF HandInv
      <3>8. \A d \in Clients : \A i \in DOMAIN calls' :
              Ready(d)' /\ OkCall(i)' => reg'[d].code # calls'[i].code
        BY <2>1, <2>5, <2>6, <2>7, <3>7 DEF HandInv
      <3>9. \A p \in DOMAIN proof' : proof'[p] # Rg!NoCode =>
              proof'[p] \in DOMAIN issued' /\ issued'[proof'[p]].uses = 1
        BY <2>5 DEF HandInv
      <3>10. \A p \in DOMAIN proof : proof[p] # g.code
        BY <2>3, <2>4, <2>5 DEF HandInv
      <3>11. \A p \in DOMAIN proof' : \A d \in Clients : Ready(d)' => proof'[p] # reg'[d].code
        BY <2>1, <2>5, <2>7, <3>10 DEF HandInv
      <3>12. \A p \in DOMAIN proof' : \A i \in DOMAIN calls' :
               OkCall(i)' => proof'[p] # calls'[i].code
        BY <2>5, <2>6 DEF HandInv
      <3> QED BY <3>1, <3>2, <3>4, <3>6, <3>8, <3>9, <3>11, <3>12 DEF HandInv, Rg!NoCode
    <2> QED BY <2>2, <2>8 DEF RegInv
  <1> QED BY <1>6, <1>7

\* The registration of a session that has its answer ends.
LEMMA RegistrationEnds ==
  ASSUME RegInv, NEW c \in Clients, waiting[c] = 0, reg' = [reg EXCEPT ![c] = Rg!NoReg],
         UNCHANGED <<calls, waiting>>, StoreSame
  PROVE  /\ CodeInv' /\ Steady /\ CallTypes' /\ CallInv'
         /\ reg' \in [Clients -> Regs \cup {Rg!NoReg}]
         /\ \A d \in Clients : Ready(d)' => d # c /\ Ready(d) /\ reg'[d] = reg[d]
         /\ \A i \in DOMAIN calls' : OkCall(i)' => OkCall(i)
  <1>1. CodeInv' /\ Steady
    BY CodeStep DEF RegInv, StoreSame
  <1>2. CallTypes /\ SessionTypes /\ CallInv
    BY DEF RegInv
  <1>3. /\ reg' \in [Clients -> Regs \cup {Rg!NoReg}] /\ reg'[c] = Rg!NoReg
        /\ \A d \in Clients : d # c => reg'[d] = reg[d]
    BY <1>2 DEF SessionTypes
  <1>4. CallTypes'
    BY <1>2 DEF CallTypes
  <1>5. CallInv'
    BY <1>2, <1>3 DEF CallInv, Rg!NoReg
  <1>6. \A d \in Clients : Ready(d)' => d # c /\ Ready(d) /\ reg'[d] = reg[d]
    BY <1>3 DEF Ready, Rg!NoReg
  <1>7. \A i \in DOMAIN calls' : OkCall(i)' => OkCall(i)
    BY DEF OkCall
  <1> QED BY <1>1, <1>3, <1>4, <1>5, <1>6, <1>7

LEMMA RefusedStep ==
  ASSUME RegInv, NEW c \in Clients, Rg!AddUserRefused(c)
  PROVE  RegInv'
  <1>1. StoreSame /\ UsersSame /\ waiting[c] = 0 /\ UNCHANGED <<calls, waiting>>
        /\ reg' = [reg EXCEPT ![c] = Rg!NoReg]
    BY DEF Rg!AddUserRefused, Rg!mailVars, Rg!userVars, StoreSame, UsersSame
  <1>2. /\ CodeInv' /\ Steady /\ CallTypes' /\ CallInv'
        /\ reg' \in [Clients -> Regs \cup {Rg!NoReg}]
        /\ \A d \in Clients : Ready(d)' => d # c /\ Ready(d) /\ reg'[d] = reg[d]
        /\ \A i \in DOMAIN calls' : OkCall(i)' => OkCall(i)
    BY <1>1, RegistrationEnds
  <1>3. SessionTypes'
    BY <1>1, <1>2 DEF RegInv, SessionTypes, UsersSame, Rg!NoReg
  <1>4. Kept
    BY <1>1, <1>2 DEF Kept, UsersSame
  <1>5. HandInv' /\ UserInv'
    BY <1>1, <1>2, <1>4, KeptKeeps, UsersKept DEF RegInv, UsersSame
  <1> QED BY <1>2, <1>3, <1>5 DEF RegInv

\* An INSERT that ran: the new row differs from all others, and its code is its own.
LEMMA Inserted ==
  ASSUME RegInv, NEW c \in Clients, reg[c] # Rg!NoReg, waiting[c] = 0,
         UNCHANGED <<calls, waiting>>, StoreSame, reg' = [reg EXCEPT ![c] = Rg!NoReg],
         ~ Rg!Taken(reg[c]), Rg!Fresh,
         rows' = rows \cup {Rg!Drawn(reg[c])}, proof' = Append(proof, reg[c].code),
         baseId' \in Nat
  PROVE  /\ CodeInv' /\ CallTypes' /\ CallInv' /\ SessionTypes' /\ HandInv'
         /\ Rg!AccountsProven'
         /\ \A v, w \in rows' : (v.name = w.name \/ v.mail = w.mail \/ v.id = w.id) => v = w
         /\ users = rows /\ Rg!Drawn(reg[c]).id = baseId + 1
         /\ {v.id : v \in rows'} = 1 .. baseId + 1 /\ Len(proof') = baseId + 1
         /\ baseId \in Nat
  <1>1. PICK r : r = reg[c]
    OBVIOUS
  <1>2. PICK u : u = [id |-> baseId + 1, name |-> r.name, mail |-> r.mail]
    OBVIOUS
  <1>3. /\ waiting[c] = 0 /\ r # Rg!NoReg /\ UNCHANGED <<calls, waiting>> /\ StoreSame
        /\ reg' = [reg EXCEPT ![c] = Rg!NoReg]
        /\ ~ Rg!Taken(r)
        /\ rows' = rows \cup {u} /\ u = Rg!Drawn(r)
        /\ proof' = Append(proof, r.code)
    BY <1>1, <1>2 DEF Rg!Drawn
  <1>4. /\ CodeInv' /\ Steady /\ CallTypes' /\ CallInv'
        /\ reg' \in [Clients -> Regs \cup {Rg!NoReg}]
        /\ \A d \in Clients : Ready(d)' => d # c /\ Ready(d) /\ reg'[d] = reg[d]
        /\ \A i \in DOMAIN calls' : OkCall(i)' => OkCall(i)
    BY <1>3, RegistrationEnds
  <1>5. SessionTypes /\ HandInv /\ UserInv
    BY DEF RegInv
  <1>6. r \in Regs /\ r.code \in Nat /\ baseId \in Nat
    BY <1>1, <1>3, <1>5 DEF SessionTypes, Regs
  <1>7. PICK n \in Nat : n = baseId + 1
    BY <1>6
  <1>20. users = rows /\ Len(proof) = baseId /\ {v.id : v \in rows} = 1 .. baseId
    <2>1. n \notin {v.id : v \in rows}
      BY <1>7 DEF Rg!Fresh
    <2>2. Len(proof) = baseId
      BY <1>5, <1>6, <1>7, <2>1 DEF UserInv, RowIds
    <2>3. \A v \in rows : v \in users
      BY <1>5, <1>7, <2>1 DEF UserInv, Rg!UniqueAccounts
    <2>4. users \subseteq rows
      BY <1>5 DEF UserInv, Rg!UniqueAccounts
    <2> QED BY <1>5, <2>2, <2>3, <2>4 DEF UserInv, RowIds
  <1>8. /\ proof' \in Seq(Nat) /\ Len(proof') = n /\ proof'[n] = r.code
        /\ DOMAIN proof = 1 .. baseId /\ DOMAIN proof' = 1 .. n
        /\ \A p \in 1 .. baseId : proof'[p] = proof[p]
    BY <1>1, <1>5, <1>6, <1>7, <1>20 DEF SessionTypes
  <1>9. SessionTypes'
    BY <1>3, <1>4, <1>5, <1>7, <1>8 DEF SessionTypes, Rg!NoReg
  <1>10. \A p \in DOMAIN proof' : p = n \/ p \in DOMAIN proof
    BY <1>6, <1>7, <1>8
  <1>11. Ready(c)
    BY <1>1, <1>3 DEF Ready
  <1>12. r.code \in DOMAIN issued /\ issued[r.code].mail = r.mail /\ issued[r.code].uses = 1
    BY <1>1, <1>5, <1>11 DEF HandInv, Good
  <1>13. issued' = issued /\ calls' = calls
    BY <1>3 DEF StoreSame
  <1>14. \A p \in DOMAIN proof : proof'[p] = proof[p] /\ proof[p] # r.code
    BY <1>1, <1>5, <1>8, <1>11 DEF HandInv
  <1>15. HandInv'
    <2>1. \A i \in DOMAIN calls' : OkCall(i)' => Good(calls[i].code, calls[i].mail)'
      BY <1>4, <1>5, <1>13 DEF HandInv, Good
    <2>2. \A i, j \in DOMAIN calls' :
            OkCall(i)' /\ OkCall(j)' /\ calls'[i].code = calls'[j].code => i = j
      BY <1>4, <1>5, <1>13 DEF HandInv
    <2>3. \A d \in Clients : Ready(d)' => Good(reg[d].code, reg[d].mail)'
      BY <1>4, <1>5, <1>13 DEF HandInv, Good
    <2>4. \A d, e \in Clients : Ready(d)' /\ Ready(e)' /\ reg'[d].code = reg'[e].code => d = e
      BY <1>4, <1>5 DEF HandInv
    <2>5. \A d \in Clients : \A i \in DOMAIN calls' :
            Ready(d)' /\ OkCall(i)' => reg'[d].code # calls'[i].code
      BY <1>4, <1>5, <1>13 DEF HandInv
    <2>6. \A p \in DOMAIN proof' : proof'[p] # Rg!NoCode =>
            proof'[p] \in DOMAIN issued' /\ issued'[proof'[p]].uses = 1
      BY <1>5, <1>8, <1>10, <1>12, <1>13, <1>14 DEF HandInv
    <2>7. \A d \in Clients : Ready(d) /\ d # c => reg[d].code # r.code
      BY <1>1, <1>5, <1>11 DEF HandInv
    <2>8. \A p \in DOMAIN proof' : \A d \in Clients : Ready(d)' => proof'[p] # reg'[d].code
      BY <1>4, <1>5, <1>8, <1>10, <1>14, <2>7 DEF HandInv
    <2>9. \A i \in DOMAIN calls : OkCall(i) => calls[i].code # r.code
      BY <1>1, <1>5, <1>11 DEF HandInv
    <2>10. \A p \in DOMAIN proof' : \A i \in DOMAIN calls' :
             OkCall(i)' => proof'[p] # calls'[i].code
      BY <1>4, <1>5, <1>8, <1>10, <1>13, <1>14, <2>9 DEF HandInv
    <2> QED BY <2>1, <2>2, <2>3, <2>4, <2>5, <2>6, <2>8, <2>10 DEF HandInv, Rg!NoCode
  <1>16. /\ \A v, w \in rows' : (v.name = w.name \/ v.mail = w.mail \/ v.id = w.id) => v = w
         /\ {v.id : v \in rows'} = 1 .. n
    <2>1. u.id = n /\ u.name = r.name /\ u.mail = r.mail
      BY <1>2, <1>7
    <2>2. \A v, w \in rows : (v.name = w.name \/ v.mail = w.mail \/ v.id = w.id) => v = w
      BY <1>5 DEF UserInv, Rg!UniqueAccounts
    <2>3. \A v \in rows : v.name # u.name /\ v.mail # u.mail /\ v.id # u.id
      <3> SUFFICES ASSUME NEW v \in rows
                   PROVE  v.name # u.name /\ v.mail # u.mail /\ v.id # u.id
        OBVIOUS
      <3>1. v.id \in 1 .. baseId
        BY <1>20
      <3> QED BY <1>3, <1>6, <1>7, <1>20, <2>1, <3>1 DEF Rg!Taken
    <2>4. {v.id : v \in rows'} = 1 .. n
      <3>1. {v.id : v \in rows'} = {v.id : v \in rows} \cup {u.id}
        BY <1>3
      <3>2. 1 .. n = (1 .. baseId) \cup {n}
        BY <1>6, <1>7
      <3>3. {v.id : v \in rows} = 1 .. baseId
        BY <1>20
      <3> QED BY <2>1, <3>1, <3>2, <3>3, Zenon
    <2>5. \A v, w \in rows' : (v.name = w.name \/ v.mail = w.mail \/ v.id = w.id) => v = w
      BY <1>3, <2>2, <2>3
    <2> QED BY <2>4, <2>5
  <1>17. Rg!AccountsProven'
    <2>1. ASSUME NEW v \in rows', ~ \E S \in Existing : v \in S
          PROVE  /\ proof'[v.id] \in DOMAIN issued'
                 /\ issued'[proof'[v.id]].mail = v.mail /\ issued'[proof'[v.id]].uses = 1
      <3>1. CASE v = u
        <4>1. v.id = n /\ v.mail = r.mail
          BY <1>2, <1>7, <3>1
        <4> QED BY <1>8, <1>12, <1>13, <4>1
      <3>2. CASE v \in rows
        <4>1. v.id \in 1 .. baseId
          BY <1>20, <3>2
        <4>2. /\ proof[v.id] \in DOMAIN issued
              /\ issued[proof[v.id]].mail = v.mail /\ issued[proof[v.id]].uses = 1
          BY <1>5, <2>1, <3>2 DEF UserInv, Rg!AccountsProven
        <4> QED BY <1>8, <1>13, <4>1, <4>2
      <3> QED BY <1>3, <3>1, <3>2
    <2>2. \A i, j \in DOMAIN proof' : proof'[i] = proof'[j] /\ proof'[i] # Rg!NoCode => i = j
      <3>1. \A i, j \in DOMAIN proof : proof[i] = proof[j] /\ proof[i] # Rg!NoCode => i = j
        BY <1>5 DEF UserInv, Rg!AccountsProven
      <3> QED BY <1>8, <1>10, <1>14, <3>1
    <2> QED BY <2>1, <2>2 DEF Rg!AccountsProven, Rg!NoCode
  <1>18. u = Rg!Drawn(reg[c]) /\ u.id = n
    BY <1>1, <1>2, <1>3, <1>7
  <1> QED BY <1>4, <1>6, <1>7, <1>8, <1>9, <1>15, <1>16, <1>17, <1>18, <1>20
LEMMA AddUserStep ==
  ASSUME RegInv, NEW c \in Clients, Rg!AddUser(c)
  PROVE  RegInv'
  <1>1. PICK u : u = Rg!Drawn(reg[c])
    OBVIOUS
  <1>2. /\ reg[c] # Rg!NoReg /\ waiting[c] = 0 /\ UNCHANGED <<calls, waiting>> /\ StoreSame
        /\ reg' = [reg EXCEPT ![c] = Rg!NoReg] /\ ~ Rg!Taken(reg[c]) /\ Rg!Fresh
        /\ rows' = rows \cup {Rg!Drawn(reg[c])} /\ proof' = Append(proof, reg[c].code)
        /\ users' = users \cup {u} /\ baseId' = baseId + 1 /\ unclear' = unclear
    BY <1>1 DEF Rg!AddUser, StoreSame, Rg!mailVars
  <1>3. baseId' \in Nat
    BY <1>2 DEF RegInv, SessionTypes
  <1>4. /\ CodeInv' /\ CallTypes' /\ CallInv' /\ SessionTypes' /\ HandInv' /\ Rg!AccountsProven'
        /\ \A v, w \in rows' : (v.name = w.name \/ v.mail = w.mail \/ v.id = w.id) => v = w
        /\ users = rows /\ u.id = baseId + 1
        /\ {v.id : v \in rows'} = 1 .. baseId + 1 /\ Len(proof') = baseId + 1
    BY <1>1, <1>2, <1>3, Inserted
  <1>5. users' = rows'
    BY <1>1, <1>2, <1>4
  <1>6. RowIds' /\ Rg!UniqueAccounts'
    BY <1>2, <1>4, <1>5 DEF RowIds, Rg!UniqueAccounts
  <1> QED BY <1>4, <1>6 DEF RegInv, UserInv

LEMMA AddUserUnclearStep ==
  ASSUME RegInv, NEW c \in Clients, Rg!AddUserUnclear(c)
  PROVE  RegInv'
  <1>1. PICK u : u = Rg!Drawn(reg[c])
    OBVIOUS
  <1>2. /\ reg[c] # Rg!NoReg /\ waiting[c] = 0 /\ UNCHANGED <<calls, waiting>> /\ StoreSame
        /\ reg' = [reg EXCEPT ![c] = Rg!NoReg] /\ ~ Rg!Taken(reg[c]) /\ Rg!Fresh
        /\ rows' = rows \cup {Rg!Drawn(reg[c])} /\ proof' = Append(proof, reg[c].code)
        /\ users' = users /\ baseId' = baseId /\ unclear' = unclear \cup {baseId + 1}
    BY DEF Rg!AddUserUnclear, StoreSame, Rg!mailVars
  <1>3. baseId' \in Nat
    BY <1>2 DEF RegInv, SessionTypes
  <1>4. /\ CodeInv' /\ CallTypes' /\ CallInv' /\ SessionTypes' /\ HandInv' /\ Rg!AccountsProven'
        /\ \A v, w \in rows' : (v.name = w.name \/ v.mail = w.mail \/ v.id = w.id) => v = w
        /\ users = rows /\ u.id = baseId + 1
        /\ {v.id : v \in rows'} = 1 .. baseId + 1 /\ Len(proof') = baseId + 1
    BY <1>1, <1>2, <1>3, Inserted
  <1>5. {v.id : v \in users} = 1 .. baseId
    BY DEF RegInv, UserInv, Rg!UniqueAccounts
  <1>6. \A v \in rows' \ users' : v = u
    BY <1>1, <1>2, <1>4
  <1>7. Rg!UniqueAccounts'
    BY <1>2, <1>4, <1>5, <1>6 DEF Rg!UniqueAccounts
  <1>8. RowIds'
    BY <1>2, <1>4 DEF RowIds
  <1> QED BY <1>4, <1>7, <1>8 DEF RegInv, UserInv

\* LoadUserFromDB finds the last id.
LEMMA LastId ==
  ASSUME NEW k \in Nat, {u.id : u \in rows} = 1 .. k
  PROVE  Rg!BaseId(rows) = k
  <1>1. \A u \in rows : u.id \in 1 .. k
    OBVIOUS
  <1>2. k \in {0} \cup {u.id : u \in rows} /\ \A u \in rows : u.id <= k
    BY <1>1
  <1>3. \A n \in {0} \cup {u.id : u \in rows} : (\A u \in rows : u.id <= n) => n = k
    <2> SUFFICES ASSUME NEW n \in {0} \cup {u.id : u \in rows}, \A u \in rows : u.id <= n
                 PROVE  n = k
      OBVIOUS
    <2>1. n \in 0 .. k
      OBVIOUS
    <2>2. CASE k = 0
      BY <2>1, <2>2
    <2>3. CASE k # 0
      <3>1. PICK u \in rows : u.id = k
        BY <2>3
      <3> QED BY <2>1, <3>1
    <2> QED BY <2>2, <2>3
  <1> QED BY <1>2, <1>3 DEF Rg!BaseId

LEMMA ServerRestartStep ==
  ASSUME RegInv, Rg!ServerRestart
  PROVE  RegInv'
  <1>1. CallTypes /\ SessionTypes /\ HandInv /\ UserInv /\ StoreSame
    BY DEF RegInv, Rg!ServerRestart, StoreSame, Rg!mailVars
  <1>2. CodeInv' /\ Steady
    BY <1>1, CodeStep DEF RegInv, StoreSame
  <1>3. DOMAIN calls' = DOMAIN calls
    BY DEF Rg!ServerRestart
  <1>4. \A i \in DOMAIN calls :
          /\ calls'[i] \in MailCalls /\ Whole(calls'[i])
          /\ calls'[i] = Rg!Over \/ calls'[i].st \in {"sent", "smtp"}
    BY <1>1, OverIs DEF Rg!ServerRestart, CallTypes
  <1>5. CallTypes'
    <2>1. DOMAIN calls = 1 .. Len(calls) /\ Len(calls) \in Nat
      BY <1>1 DEF CallTypes
    <2>2. PICK s : s = calls'
      OBVIOUS
    <2>3. s = [i \in 1 .. Len(calls) |-> s[i]]
      BY <2>1, <2>2 DEF Rg!ServerRestart
    <2>4. \A i \in 1 .. Len(calls) : s[i] \in MailCalls /\ Whole(s[i])
      BY <1>4, <2>1, <2>2
    <2>5. s \in Seq(MailCalls)
      BY <2>1, <2>3, <2>4
    <2> QED BY <1>3, <2>1, <2>2, <2>4, <2>5 DEF CallTypes
  <1>6. \A c \in Clients : waiting'[c] = 0 /\ reg'[c] = Rg!NoReg
    BY DEF Rg!ServerRestart
  <1>7. CallInv'
    BY <1>6 DEF CallInv
  <1>8. baseId' = Len(proof) /\ users' = rows /\ UNCHANGED <<rows, proof, unclear>>
    BY <1>1, LastId DEF Rg!ServerRestart, UserInv, RowIds, SessionTypes
  <1>9. SessionTypes'
    BY <1>1, <1>8 DEF SessionTypes, Rg!ServerRestart, Rg!NoReg
  <1>10. Kept
    <2>1. \A i \in DOMAIN calls' : ~ OkCall(i)'
      BY <1>3, <1>4, OverIs DEF OkCall
    <2>2. \A c \in Clients : ~ Ready(c)'
      BY <1>6 DEF Ready, Rg!NoReg
    <2> QED BY <1>8, <2>1, <2>2 DEF Kept
  <1>11. HandInv'
    BY <1>1, <1>2, <1>10, KeptKeeps
  <1>12. Rg!UniqueAccounts' /\ RowIds'
    BY <1>1, <1>8 DEF UserInv, Rg!UniqueAccounts, RowIds
  <1>13. Rg!AccountsProven'
    <2>1. ASSUME NEW u \in rows, ~ \E S \in Existing : u \in S
          PROVE  /\ proof[u.id] \in DOMAIN issued'
                 /\ issued'[proof[u.id]].mail = u.mail /\ issued'[proof[u.id]].uses = 1
      <3>1. /\ proof[u.id] \in DOMAIN issued
            /\ issued[proof[u.id]].mail = u.mail /\ issued[proof[u.id]].uses = 1
        BY <1>1, <2>1 DEF UserInv, Rg!AccountsProven
      <3> QED BY <1>2, <3>1 DEF Steady
    <2>2. \A i, j \in DOMAIN proof : proof[i] = proof[j] /\ proof[i] # Rg!NoCode => i = j
      BY <1>1 DEF UserInv, Rg!AccountsProven
    <2> QED BY <1>8, <2>1, <2>2 DEF Rg!AccountsProven, Rg!NoCode
  <1> QED BY <1>2, <1>5, <1>7, <1>9, <1>11, <1>12, <1>13 DEF RegInv, UserInv
-----------------------------------------------------------------------------
(* The steps of the mail service *)

\* The service changes calls somebody waits for in their state only, and none
\* of them into a verified one.
LEMMA Served ==
  ASSUME RegInv, UNCHANGED <<waiting, reg>>, UsersSame, CodeInv', Steady,
         CallTypes', DOMAIN calls' = DOMAIN calls,
         \A c \in Clients : waiting[c] # 0 /\ calls[waiting[c]].op = "verify" =>
           SameCall(calls'[waiting[c]], calls[waiting[c]]),
         \A i \in DOMAIN calls : OkCall(i)' => calls'[i] = calls[i]
  PROVE  RegInv'
  <1>1. SessionTypes /\ CallInv /\ HandInv /\ UserInv
    BY DEF RegInv
  <1>2. SessionTypes'
    BY <1>1 DEF SessionTypes, UsersSame, Rg!NoReg
  <1>3. CallInv'
    BY <1>1, CallsKept
  <1>4. Kept
    <2>1. \A i \in DOMAIN calls' : OkCall(i)' =>
            /\ i \in DOMAIN calls /\ OkCall(i)
            /\ calls'[i].code = calls[i].code /\ calls'[i].mail = calls[i].mail
      BY DEF OkCall
    <2>2. \A c \in Clients : Ready(c)' => Ready(c) /\ reg'[c] = reg[c]
      BY DEF Ready, Rg!NoReg
    <2> QED BY <2>1, <2>2 DEF Kept, UsersSame
  <1>5. HandInv' /\ UserInv'
    BY <1>1, <1>4, KeptKeeps, UsersKept DEF UsersSame
  <1> QED BY <1>2, <1>3, <1>5 DEF RegInv

\* A call that does not return as verified.
LEMMA ServedOne ==
  ASSUME RegInv, UNCHANGED <<waiting, reg>>, UsersSame, CodeInv', Steady,
         NEW i \in DOMAIN calls, calls[i].st \in {"sent", "smtp"},
         NEW st \in {"ok", "refused", "failed"}, Rg!Return(i, st),
         calls[i].op # "verify" \/ st # "ok"
  PROVE  RegInv'
  <1>1. CallTypes
    BY DEF RegInv
  <1>2. /\ CallTypes' /\ DOMAIN calls' = DOMAIN calls
        /\ \A j \in DOMAIN calls : j # i => calls'[j] = calls[j]
        /\ calls'[i] = Rg!Over \/ (SameCall(calls'[i], calls[i]) /\ calls'[i].st = st)
        /\ (\E c \in Clients : waiting[c] = i) => SameCall(calls'[i], calls[i])
    BY <1>1, Returned
  <1>3. \A c \in Clients : waiting[c] # 0 => waiting[c] \in DOMAIN calls
    BY DEF RegInv, CallInv
  <1>4. \A c \in Clients : waiting[c] # 0 /\ calls[waiting[c]].op = "verify" =>
          SameCall(calls'[waiting[c]], calls[waiting[c]])
    BY <1>2, <1>3 DEF SameCall
  <1>5. \A j \in DOMAIN calls : OkCall(j)' => calls'[j] = calls[j]
    BY <1>2, OverIs DEF OkCall, SameCall
  <1> QED BY <1>2, <1>4, <1>5, Served

LEMMA TooSoonStep ==
  ASSUME RegInv, NEW i \in 1 .. Len(calls), Rg!SendTooSoon(i)
  PROVE  RegInv'
  <1>1. i \in DOMAIN calls /\ calls[i].st = "sent" /\ Rg!Return(i, "refused")
        /\ UNCHANGED <<waiting, reg>> /\ UsersSame /\ StoreSame
    BY DEF Rg!SendTooSoon, Rg!mailVars, Rg!userVars, Rg!Arrived, UsersSame, StoreSame, RegInv,
           CallTypes
  <1>2. CodeInv' /\ Steady
    BY <1>1, CodeStep DEF RegInv, StoreSame
  <1> QED BY <1>1, <1>2, ServedOne

LEMMA SmtpStep ==
  ASSUME RegInv, NEW i \in 1 .. Len(calls), Rg!Smtp(i)
  PROVE  RegInv'
  <1>1. PICK st \in {"ok", "failed"} : Rg!Return(i, st)
    BY DEF Rg!Smtp, Rg!mailVars, Rg!userVars
  <1>2. i \in DOMAIN calls /\ calls[i].st = "smtp" /\ calls[i].op = "send"
        /\ UNCHANGED <<waiting, reg>> /\ UsersSame /\ StoreSame
    BY DEF Rg!Smtp, Rg!mailVars, Rg!userVars, UsersSame, StoreSame, RegInv, CallTypes, Whole
  <1>3. CodeInv' /\ Steady
    BY <1>2, CodeStep DEF RegInv, StoreSame
  <1> QED BY <1>1, <1>2, <1>3, ServedOne

LEMMA GenerateStep ==
  ASSUME RegInv, NEW i \in 1 .. Len(calls), Rg!Generate(i)
  PROVE  RegInv'
  <1>1. CallTypes /\ CodeTypes /\ i \in DOMAIN calls
    BY DEF RegInv, CodeInv, CallTypes
  <1>2. PICK y : y = calls[i]
    OBVIOUS
  <1>3. y \in MailCalls /\ y.mail \in Mails /\ y.op = "send"
    BY <1>1, <1>2 DEF CallTypes, Whole, Rg!Generate, Rg!mailVars, Rg!userVars, Rg!Arrived
  <1>4. PICK k \in Nat : k = Len(issued) + 1
    BY <1>1 DEF CodeTypes
  <1>5. PICK x : x = [[y EXCEPT !.st = "smtp"] EXCEPT !.code = k]
    OBVIOUS
  <1>6. x \in MailCalls /\ x.st = "smtp" /\ x.op = "send" /\ x.mail = y.mail
    <2>1. PICK z : z = [y EXCEPT !.st = "smtp"]
      OBVIOUS
    <2>2. z \in MailCalls /\ z.st = "smtp" /\ z.op = "send" /\ z.mail = y.mail
      BY <1>3, <2>1 DEF MailCalls, CallStates
    <2>3. x = [z EXCEPT !.code = k]
      BY <1>5, <2>1
    <2> QED BY <1>4, <2>2, <2>3 DEF MailCalls
  <1>7. calls' = [calls EXCEPT ![i] = x]
    BY <1>1, <1>2, <1>4, <1>5 DEF Rg!Generate, Rg!mailVars, Rg!userVars, CallTypes
  <1>8. /\ CallTypes' /\ DOMAIN calls' = DOMAIN calls /\ calls'[i] = x
        /\ \A j \in DOMAIN calls : j # i => calls'[j] = calls[j]
    <2>1. Whole(x)
      BY <1>3, <1>6 DEF Whole
    <2> QED BY <1>1, <1>6, <1>7, <2>1, Replaced
  <1>9. Drawn(y.mail) /\ UNCHANGED <<waiting, reg>> /\ UsersSame
    BY <1>2 DEF Rg!Generate, Rg!mailVars, Rg!userVars, Drawn, UsersSame
  <1>10. CodeInv' /\ Steady
    BY <1>3, <1>9, CodeStep DEF RegInv
  <1>11. \A c \in Clients : waiting[c] # 0 /\ calls[waiting[c]].op = "verify" =>
           SameCall(calls'[waiting[c]], calls[waiting[c]])
    <2>1. \A c \in Clients : waiting[c] # 0 => waiting[c] \in DOMAIN calls
      BY DEF RegInv, CallInv
    <2> QED BY <1>2, <1>3, <1>8, <2>1 DEF SameCall
  <1>12. \A j \in DOMAIN calls : OkCall(j)' => calls'[j] = calls[j]
    BY <1>6, <1>8 DEF OkCall
  <1> QED BY <1>8, <1>9, <1>10, <1>11, <1>12, Served

\* The code of a call is verified: nobody had it in hand.
LEMMA VerifiedStep ==
  ASSUME RegInv, NEW i \in DOMAIN calls, calls[i].st = "sent", calls[i].op = "verify",
         NEW m \in Mails, m = calls[i].mail, Used(m), codes[m].code = calls[i].code,
         Rg!Return(i, "ok"), UNCHANGED <<waiting, reg>>, UsersSame
  PROVE  RegInv'
  <1>1. CallTypes /\ SessionTypes /\ CallInv /\ HandInv /\ UserInv /\ CodeInv
    BY DEF RegInv
  <1>2. CodeInv' /\ Steady
    BY <1>1, CodeStep
  <1>3. PICK k : k = calls[i].code
    OBVIOUS
  <1>4. k \in DOMAIN issued /\ issued[k].uses = 0 /\ issued'[k].uses = 1 /\ issued[k].mail = m
    BY <1>1, <1>3, UsedKeeps
  <1>5. k \in DOMAIN issued' /\ issued'[k].mail = m
    BY <1>2, <1>4 DEF Steady
  <1>6. /\ CallTypes' /\ DOMAIN calls' = DOMAIN calls
        /\ \A j \in DOMAIN calls : j # i => calls'[j] = calls[j]
        /\ calls'[i] = Rg!Over \/ (SameCall(calls'[i], calls[i]) /\ calls'[i].st = "ok")
        /\ (\E c \in Clients : waiting[c] = i) => SameCall(calls'[i], calls[i])
    BY <1>1, Returned
  <1>7. CallInv'
    <2>1. \A c \in Clients : waiting[c] # 0 => waiting[c] \in DOMAIN calls
      BY <1>1 DEF CallInv
    <2>2. \A c \in Clients : waiting[c] # 0 /\ calls[waiting[c]].op = "verify" =>
            SameCall(calls'[waiting[c]], calls[waiting[c]])
      BY <1>6, <2>1 DEF SameCall
    <2> QED BY <1>1, <1>6, <2>2, CallsKept
  <1>8. SessionTypes' /\ UserInv'
    <2>1. SessionTypes'
      BY <1>1 DEF SessionTypes, UsersSame, Rg!NoReg
    <2> QED BY <1>1, <1>2, <2>1, UsersKept DEF UsersSame
  <1>9. \A j \in DOMAIN calls' : OkCall(j)' =>
          \/ j = i /\ calls'[j].code = k /\ calls'[j].mail = m
          \/ j # i /\ j \in DOMAIN calls /\ OkCall(j) /\ calls'[j] = calls[j]
    BY <1>3, <1>6, OverIs DEF OkCall, SameCall
  <1>10. \A j \in DOMAIN calls : OkCall(j) => calls[j].code # k
    BY <1>1, <1>4 DEF HandInv, Good
  <1>11. \A c \in Clients : Ready(c) => reg[c].code # k
    BY <1>1, <1>4 DEF HandInv, Good
  <1>12. \A p \in DOMAIN proof : proof[p] # k
    <2>1. k # Rg!NoCode
      BY <1>1, <1>4 DEF CodeInv, CodeTypes, Rg!NoCode
    <2> QED BY <1>1, <1>4, <2>1 DEF HandInv
  <1>13. proof' = proof /\ \A c \in Clients : Ready(c)' => Ready(c) /\ reg'[c] = reg[c]
    BY DEF Ready, UsersSame, Rg!NoReg
  <1>14. HandInv'
    <2>1. \A j \in DOMAIN calls' : OkCall(j)' => Good(calls[j].code, calls[j].mail)'
      BY <1>1, <1>2, <1>4, <1>5, <1>9 DEF HandInv, Good, Steady
    <2>2. \A j, l \in DOMAIN calls' :
            OkCall(j)' /\ OkCall(l)' /\ calls'[j].code = calls'[l].code => j = l
      BY <1>1, <1>9, <1>10 DEF HandInv
    <2>3. \A c \in Clients : Ready(c)' => Good(reg[c].code, reg[c].mail)'
      BY <1>1, <1>2, <1>13 DEF HandInv, Good, Steady
    <2>4. \A c, d \in Clients : Ready(c)' /\ Ready(d)' /\ reg'[c].code = reg'[d].code => c = d
      BY <1>1, <1>13 DEF HandInv
    <2>5. \A c \in Clients : \A j \in DOMAIN calls' :
            Ready(c)' /\ OkCall(j)' => reg'[c].code # calls'[j].code
      BY <1>1, <1>9, <1>11, <1>13 DEF HandInv
    <2>6. \A p \in DOMAIN proof' : proof'[p] # Rg!NoCode =>
            proof'[p] \in DOMAIN issued' /\ issued'[proof'[p]].uses = 1
      BY <1>1, <1>2, <1>13 DEF HandInv, Steady
    <2>7. \A p \in DOMAIN proof' : \A c \in Clients : Ready(c)' => proof'[p] # reg'[c].code
      BY <1>1, <1>13 DEF HandInv
    <2>8. \A p \in DOMAIN proof' : \A j \in DOMAIN calls' :
            OkCall(j)' => proof'[p] # calls'[j].code
      BY <1>1, <1>9, <1>12, <1>13, SMTT(30) DEF HandInv
    <2> QED BY <2>1, <2>2, <2>3, <2>4, <2>5, <2>6, <2>7, <2>8 DEF HandInv, Rg!NoCode
  <1> QED BY <1>2, <1>6, <1>7, <1>8, <1>14 DEF RegInv

LEMMA VerifyStep ==
  ASSUME RegInv, NEW i \in 1 .. Len(calls), Rg!Verify(i)
  PROVE  RegInv'
  <1>1. CallTypes /\ CodeInv /\ CodeTypes /\ EntryInv /\ i \in DOMAIN calls
    BY DEF RegInv, CodeInv, CallTypes
  <1>2. PICK m : m = calls[i].mail
    OBVIOUS
  <1>3. /\ calls[i].st = "sent" /\ calls[i].op = "verify" /\ m \in Mails
        /\ UNCHANGED <<waiting, reg>> /\ UsersSame
        /\ mailClock' = mailClock /\ restarted' = restarted
    BY <1>1, <1>2 DEF CallTypes, Whole, Rg!Verify, Rg!mailVars, Rg!userVars, Rg!Arrived, UsersSame
  <1>4. CASE codes[m] = Rg!NoEntry /\ Rg!Return(i, "refused") /\ UNCHANGED <<codes, issued>>
    <2>1. CodeInv' /\ Steady
      BY <1>1, <1>3, <1>4, CodeStep
    <2> QED BY <1>1, <1>3, <1>4, <2>1, ServedOne
  <1>5. CASE /\ Rg!Expired(m) /\ codes' = [codes EXCEPT ![m] = Rg!NoEntry]
             /\ Rg!Return(i, "refused") /\ UNCHANGED issued
    <2>1. Dropped
      BY <1>1, <1>3, <1>5 DEF Dropped, CodeTypes
    <2>2. CodeInv' /\ Steady
      BY <1>1, <2>1, CodeStep
    <2> QED BY <1>1, <1>3, <1>5, <2>2, ServedOne
  <1>6. CASE /\ codes[m] # Rg!NoEntry /\ codes' = [codes EXCEPT ![m] = Rg!Guessed(m)]
             /\ issued' = [issued EXCEPT ![codes[m].code].wrong = @ + 1]
             /\ Rg!Return(i, "refused")
    <2>1. Missed(m)
      BY <1>3, <1>6 DEF Missed
    <2>2. CodeInv' /\ Steady
      BY <1>1, <1>3, <2>1, CodeStep
    <2> QED BY <1>1, <1>3, <1>6, <2>2, ServedOne
  <1>7. CASE /\ codes[m] # Rg!NoEntry /\ ~ Rg!Expired(m) /\ codes[m].code = calls[i].code
             /\ codes' = [codes EXCEPT ![m] = Rg!NoEntry]
             /\ issued' = [issued EXCEPT ![codes[m].code].uses = @ + 1,
                                         ![codes[m].code].usedAt = mailClock]
             /\ Rg!Return(i, "ok")
    <2>1. Used(m)
      BY <1>3, <1>7 DEF Used
    <2> QED BY <1>1, <1>2, <1>3, <1>7, <2>1, VerifiedStep
  <1> QED BY <1>2, <1>4, <1>5, <1>6, <1>7 DEF Rg!Verify, Rg!mailVars, Rg!userVars

LEMMA RestartStep ==
  ASSUME RegInv, Rg!MailRestart
  PROVE  RegInv'
  <1>1. CallTypes /\ CodeInv /\ Lost /\ UNCHANGED <<waiting, reg>> /\ UsersSame
    BY DEF RegInv, Lost, Rg!MailRestart, Rg!mailVars, Rg!userVars, UsersSame
  <1>2. CodeInv' /\ Steady
    BY <1>1, CodeStep
  <1>3. DOMAIN calls' = DOMAIN calls
    BY DEF Rg!MailRestart, Rg!mailVars, Rg!userVars
  <1>4. ASSUME NEW i \in DOMAIN calls
        PROVE  /\ calls'[i] \in MailCalls /\ Whole(calls'[i])
               /\ calls'[i] = calls[i] \/ calls'[i].st \in {"failed", "over"}
               /\ (\E c \in Clients : waiting[c] = i) => SameCall(calls'[i], calls[i])
    <2>1. PICK y : y = calls[i]
      OBVIOUS
    <2>2. y \in MailCalls /\ Whole(y)
      BY <1>1, <2>1 DEF CallTypes
    <2>3. CASE y.st \notin {"sent", "smtp"}
      <3>1. calls'[i] = calls[i]
        BY <2>1, <2>3 DEF Rg!MailRestart, Rg!mailVars, Rg!userVars
      <3> QED BY <2>1, <2>2, <3>1 DEF SameCall
    <2>4. CASE y.st \in {"sent", "smtp"} /\ \E c \in Clients : waiting[c] = i
      <3>1. calls'[i] = [y EXCEPT !.st = "failed"]
        BY <2>1, <2>4 DEF Rg!MailRestart, Rg!mailVars, Rg!userVars
      <3>2. PICK x : x = [y EXCEPT !.st = "failed"]
        OBVIOUS
      <3>3. x \in MailCalls /\ x.st = "failed" /\ SameCall(x, y)
        BY <2>2, <3>2, NewState DEF CallStates
      <3>4. Whole(x)
        BY <2>2, <2>4, <3>3 DEF Whole, SameCall
      <3> QED BY <2>1, <3>1, <3>2, <3>3, <3>4
    <2>5. CASE y.st \in {"sent", "smtp"} /\ ~ \E c \in Clients : waiting[c] = i
      <3>1. calls'[i] = Rg!Over
        BY <2>1, <2>5 DEF Rg!MailRestart, Rg!mailVars, Rg!userVars
      <3> QED BY <2>5, <3>1, OverIs
    <2> QED BY <2>3, <2>4, <2>5
  <1>5. CallTypes'
    <2>1. DOMAIN calls = 1 .. Len(calls) /\ Len(calls) \in Nat
      BY <1>1 DEF CallTypes
    <2>2. PICK s : s = calls'
      OBVIOUS
    <2>3. s = [i \in 1 .. Len(calls) |-> s[i]]
      BY <2>1, <2>2 DEF Rg!MailRestart, Rg!mailVars, Rg!userVars
    <2>4. \A i \in 1 .. Len(calls) : s[i] \in MailCalls /\ Whole(s[i])
      BY <1>4, <2>1, <2>2
    <2>5. s \in Seq(MailCalls)
      BY <2>1, <2>3, <2>4
    <2> QED BY <1>3, <2>1, <2>2, <2>4, <2>5 DEF CallTypes
  <1>6. \A c \in Clients : waiting[c] # 0 /\ calls[waiting[c]].op = "verify" =>
          SameCall(calls'[waiting[c]], calls[waiting[c]])
    <2>1. \A c \in Clients : waiting[c] # 0 => waiting[c] \in DOMAIN calls
      BY DEF RegInv, CallInv
    <2> QED BY <1>4, <2>1
  <1>7. \A i \in DOMAIN calls : OkCall(i)' => calls'[i] = calls[i]
    BY <1>4 DEF OkCall
  <1> QED BY <1>1, <1>2, <1>3, <1>5, <1>6, <1>7, Served
-----------------------------------------------------------------------------
(* Registration: the theorem *)

LEMMA RegistrationInit ==
  ASSUME Rg!Init
  PROVE  RegInv
  <1>2. PICK S \in Existing : rows = S /\ users = S /\ baseId = Rg!BaseId(rows)
    BY DEF Rg!Init
  <1>1. PICK k \in Nat : {u.id : u \in rows} = 1 .. k
    BY <1>2, ExistingAccounts
  <1>3. /\ baseId = k /\ users = rows
        /\ \A u, v \in rows : (u.name = v.name \/ u.mail = v.mail \/ u.id = v.id) => u = v
    BY <1>1, <1>2, ExistingAccounts, LastId
  <1>4. /\ proof \in Seq(Nat) /\ Len(proof) = baseId
        /\ \A p \in DOMAIN proof : proof[p] = Rg!NoCode
    BY <1>3 DEF Rg!Init, Rg!NoCode
  <1>5. issued = <<>> /\ calls = <<>> /\ DOMAIN issued = {} /\ DOMAIN calls = {}
    BY DEF Rg!Init
  <1>6. CodeInv
    <2>1. CodeTypes
      <3>1. issued \in Seq(Issues)
        BY <1>5
      <3>2. codes \in [Mails -> Entries \cup {Rg!NoEntry}]
        BY DEF Rg!Init
      <3> QED BY <3>1, <3>2 DEF CodeTypes, Rg!Init
    <2>2. \A m \in Mails : codes[m] = Rg!NoEntry
      BY DEF Rg!Init
    <2> QED BY <1>5, <2>1, <2>2 DEF CodeInv, EntryInv, Rg!CodeIsSingleUse, Rg!CodeStaysValid,
                                   Rg!CooldownHolds
  <1>7. CallTypes
    BY <1>5 DEF CallTypes
  <1>8. SessionTypes
    BY <1>1, <1>3, <1>4 DEF SessionTypes, Rg!Init
  <1>9. CallInv /\ HandInv
    <2>1. \A c \in Clients : waiting[c] = 0 /\ reg[c] = Rg!NoReg
      BY DEF Rg!Init
    <2> QED BY <1>4, <1>5, <2>1 DEF CallInv, HandInv, Ready
  <1>10. UserInv
    BY <1>1, <1>2, <1>3, <1>4 DEF UserInv, Rg!UniqueAccounts, Rg!AccountsProven, RowIds
  <1> QED BY <1>6, <1>7, <1>8, <1>9, <1>10 DEF RegInv

LEMMA RegistrationStep ==
  ASSUME RegInv, [Rg!Next]_regVars
  PROVE  RegInv'
  <1>1. ASSUME NEW c \in Clients, Rg!SessionStep(c)
        PROVE  RegInv'
    BY <1>1, DeadlineStep, ReplyStep, AddUserStep, AddUserUnclearStep, RefusedStep
    DEF Rg!SessionStep
  <1>2. ASSUME NEW i \in 1 .. Len(calls), Rg!ServiceStep(i)
        PROVE  RegInv'
    BY <1>2, TooSoonStep, GenerateStep, SmtpStep, VerifyStep DEF Rg!ServiceStep
  <1>3. CASE Rg!CleanupExpired \/ Rg!Tick \/ UNCHANGED regVars
    <2>1. Dropped
      <3>1. CodeTypes
        BY DEF RegInv, CodeInv
      <3>2. CASE Rg!CleanupExpired
        BY <3>1, <3>2 DEF Dropped, Rg!CleanupExpired, Rg!mailVars, Rg!userVars, Rg!Stale, CodeTypes
      <3>3. CASE Rg!Tick \/ UNCHANGED regVars
        BY <3>1, <3>3 DEF Dropped, Rg!Tick, Rg!mailVars, Rg!userVars, regVars, CodeTypes
      <3> QED BY <1>3, <3>2, <3>3
    <2>2. CodeInv' /\ Steady
      BY <2>1, CodeStep DEF RegInv
    <2>3. UNCHANGED <<waiting, reg, calls>> /\ UsersSame
      BY <1>3 DEF Rg!CleanupExpired, Rg!mailVars, Rg!userVars, Rg!Tick, regVars, UsersSame
    <2>4. CallTypes'
      BY <2>3 DEF RegInv, CallTypes
    <2> QED BY <2>2, <2>3, <2>4, Served DEF SameCall
  <1> QED BY <1>1, <1>2, <1>3, SendStep, RegisterStep, RestartStep, ServerRestartStep DEF Rg!Next

\* The codes and accounts of registration are right for any number of sessions,
\* names, addresses and calls, any lifetime, cooldown and limit of guesses:
\* CodeStore, MailService, OnRegisterResponse and AddUser.
THEOREM RegistrationStands == Spec => []RegistrationSound
  <1> DEFINE Inv == part = "registration" => RegInv
  <1>1. Init => Inv
    BY RegistrationInit DEF Init
  <1>2. Inv /\ [Next]_allVars => Inv'
    <2> SUFFICES ASSUME Inv, [Next]_allVars, part' = "registration" PROVE RegInv'
      OBVIOUS
    <2>1. part = "registration" /\ [Rg!Next]_regVars
      BY DEF Next, Steps, allVars
    <2> QED BY <2>1, RegistrationStep
  <1>3. Inv => RegistrationSound
    BY DEF RegistrationSound, Rg!RegistrationSound, RegInv, CodeInv, UserInv
  <1> QED BY <1>1, <1>2, <1>3, PTL DEF Spec

-----------------------------------------------------------------------------
(* Schema: the state *)

\* The tables: made or not, with a definition of every column.
TableTypes == [made : BOOLEAN, col : [Sc!AllColumns -> {"none", "old", "declared"}]]

\* Type correctness; a table is worked on from "desc" on.
Working == {"desc", "rows", "add", "create", "create2"}
SchemaTypes ==
  /\ tables \in [Tables -> TableTypes]
  /\ boot \in {"down", "databases", "createdb", "serving"} \cup Working
  /\ boot \in Working => at \in Tables
  /\ rest \in SUBSET Declared /\ change \in SUBSET Declared
  /\ unread \in SUBSET Sc!AllColumns

\* A table as its declaration has it.
AsDeclared(t) == tables[t].made /\ \A c \in Declared : tables[t].col[c] = "declared"

\* How far a start has come in which no statement failed.
ProgressInv ==
  clean =>
    /\ boot \in Working => \A t \in Tables : t < at => AsDeclared(t)
    /\ boot = "rows" => tables[at].made /\ rest \cup change = Declared
    /\ boot = "add" =>
         /\ tables[at].made
         /\ \A c \in Declared : c \in rest \cup change \/ tables[at].col[c] = "declared"
    /\ boot = "create" => ~ tables[at].made
    /\ boot # "create2"
    /\ boot = "serving" => \A t \in Tables : AsDeclared(t)

\* The inductive invariant.
SchemaInv == SchemaTypes /\ ProgressInv
-----------------------------------------------------------------------------
(* Schema: the steps *)

\* The loop goes on with the next table once this one is as declared.
LEMMA NextTableKeeps ==
  ASSUME SchemaInv, boot \in Working, Sc!NextTable, SchemaTypes',
         clean => \A t \in Tables : t <= at => AsDeclared(t)',
         clean' = clean
  PROVE  SchemaInv'
  <1>1. /\ Cardinality(Tables) \in Nat /\ Tables = 1 .. Cardinality(Tables) /\ at \in Tables
    BY SomeTables DEF SchemaInv, SchemaTypes
  <1>2. CASE at + 1 \in Tables
    <2>1. at' = at + 1 /\ boot' = "desc"
      BY <1>2 DEF Sc!NextTable
    <2>2. \A t \in Tables : t < at' => t <= at
      BY <1>1, <2>1
    <2> QED BY <2>1, <2>2 DEF SchemaInv, ProgressInv
  <1>3. CASE at + 1 \notin Tables
    <2>1. boot' = "serving"
      BY <1>3 DEF Sc!NextTable
    <2>2. \A t \in Tables : t <= at
      BY <1>1, <1>3
    <2> QED BY <2>1, <2>2 DEF SchemaInv, ProgressInv, Working
  <1> QED BY <1>2, <1>3

\* The types go with the loop.
LEMMA NextTableTypes ==
  ASSUME Sc!NextTable
  PROVE  /\ boot' \in {"desc", "serving"}
         /\ boot' \in Working => at' \in Tables
  BY DEF Sc!NextTable, Working

\* A column gets its definition.
LEMMA AlteredIs ==
  ASSUME SchemaTypes, boot \in Working, NEW c \in Declared, tables' = Sc!Altered(c)
  PROVE  /\ tables' \in [Tables -> TableTypes]
         /\ \A t \in Tables : t # at => tables'[t] = tables[t]
         /\ tables'[at].made = tables[at].made
         /\ \A d \in Sc!AllColumns :
              tables'[at].col[d] = IF d = c THEN "declared" ELSE tables[at].col[d]
  <1>1. PICK a \in Tables : a = at
    BY DEF SchemaTypes
  <1>2. PICK y \in TableTypes : y = tables[a]
    BY DEF SchemaTypes
  <1>3. PICK k \in [Sc!AllColumns -> {"none", "old", "declared"}] : k = [y.col EXCEPT ![c] = "declared"]
    BY DEF TableTypes
  <1>4. PICK x : x = [y EXCEPT !.col = k]
    OBVIOUS
  <1>5. x \in TableTypes /\ x.made = y.made /\ x.col = k
    BY <1>4 DEF TableTypes
  <1>6. tables' = [tables EXCEPT ![a] = x]
    BY <1>1, <1>2, <1>3, <1>4 DEF Sc!Altered, SchemaTypes
  <1>7. tables' \in [Tables -> TableTypes] /\ tables'[a] = x
        /\ \A t \in Tables : t # a => tables'[t] = tables[t]
    BY <1>5, <1>6 DEF SchemaTypes
  <1>8. \A d \in Sc!AllColumns : k[d] = IF d = c THEN "declared" ELSE y.col[d]
    BY <1>3 DEF TableTypes, Sc!AllColumns
  <1> QED BY <1>1, <1>2, <1>5, <1>7, <1>8

\* A step in which a statement fails keeps the types, and is not clean.
LEMMA FailsKeeps ==
  ASSUME SchemaInv, NEW pc \in {"createdb", "create", "create2"},
         pc # "createdb" => boot \in Working, Sc!Fails(pc)
  PROVE  SchemaInv'
  BY DEF SchemaInv, SchemaTypes, ProgressInv, Sc!Fails, Sc!lists, Working

\* A start that ends, or has not come to the tables.
LEMMA DownKeeps ==
  ASSUME SchemaInv, boot' \in {"down", "databases"}, UNCHANGED tables, UNCHANGED Sc!lists
  PROVE  SchemaInv'
  BY DEF SchemaInv, SchemaTypes, ProgressInv, Sc!lists, Working

LEMMA CheckDatabaseStep ==
  ASSUME SchemaInv, Sc!CheckDatabase
  PROVE  SchemaInv'
  <1>1. CASE Sc!Fails("createdb")
    BY <1>1, FailsKeeps
  <1>2. CASE at' = 1 /\ boot' = "desc" /\ Sc!Ok /\ UNCHANGED <<tables, Sc!lists>>
    <2>1. 1 \in Tables /\ \A t \in Tables : ~ (t < 1)
      BY SomeTables
    <2>2. SchemaTypes'
      BY <1>2, <2>1 DEF SchemaInv, SchemaTypes, Sc!lists, Working
    <2> QED BY <1>2, <2>1, <2>2 DEF SchemaInv, ProgressInv
  <1> QED BY <1>1, <1>2 DEF Sc!CheckDatabase

LEMMA DescStep ==
  ASSUME SchemaInv, Sc!Desc
  PROVE  SchemaInv'
  <1>1. boot = "desc" /\ boot \in Working
    BY DEF Sc!Desc, Working
  <1>2. CASE Sc!Fails("create")
    BY <1>1, <1>2, FailsKeeps
  <1>3. CASE /\ tables[at].made /\ unread' = {c \in Sc!AllColumns : tables[at].col[c] # "none"}
             /\ rest' = Declared /\ change' = {} /\ boot' = "rows"
             /\ Sc!Ok /\ UNCHANGED <<tables, at>>
    <2>1. SchemaTypes'
      BY <1>1, <1>3 DEF SchemaInv, SchemaTypes, Working
    <2>2. clean' = clean /\ rest' \cup change' = Declared
      BY <1>3 DEF Sc!Ok
    <2> QED BY <1>1, <1>3, <2>1, <2>2 DEF SchemaInv, ProgressInv, AsDeclared
  <1>4. CASE ~ tables[at].made /\ boot' = "create" /\ Sc!Ok /\ UNCHANGED <<tables, at, Sc!lists>>
    <2>1. SchemaTypes'
      BY <1>1, <1>4 DEF SchemaInv, SchemaTypes, Sc!lists, Working
    <2> QED BY <1>1, <1>4, <2>1 DEF SchemaInv, ProgressInv, AsDeclared, Sc!Ok
  <1> QED BY <1>2, <1>3, <1>4 DEF Sc!Desc

LEMMA RowStep ==
  ASSUME SchemaInv, Sc!Row
  PROVE  SchemaInv'
  <1>1. PICK c : /\ unread' = unread \ {c} /\ rest' = rest \ {c}
                 /\ change' = IF c \in Declared THEN change \cup {c} ELSE change
    BY DEF Sc!Row
  <1>2. boot = "rows" /\ boot' = "rows" /\ UNCHANGED <<tables, at, clean>>
    BY DEF Sc!Row, Sc!Ok
  <1>3. SchemaTypes'
    BY <1>1, <1>2 DEF SchemaInv, SchemaTypes
  <1>4. rest \cup change = Declared => rest' \cup change' = Declared
    BY <1>1
  <1> QED BY <1>2, <1>3, <1>4 DEF SchemaInv, ProgressInv, AsDeclared

LEMMA EndQueryStep ==
  ASSUME SchemaInv, Sc!EndQuery
  PROVE  SchemaInv'
  <1>1. boot = "rows" /\ boot' = "add" /\ UNCHANGED <<tables, at, unread, rest, change, clean>>
    BY DEF Sc!EndQuery, Sc!Ok, Sc!lists
  <1>2. SchemaTypes'
    BY <1>1 DEF SchemaInv, SchemaTypes, Working
  <1> QED BY <1>1, <1>2 DEF SchemaInv, ProgressInv, AsDeclared, Working

\* An ALTER statement for one of the columns that are left.
LEMMA AlterKeeps ==
  ASSUME SchemaInv, boot = "add", NEW c \in Declared, tables' = Sc!Altered(c),
         rest' \in SUBSET rest, change' \in SUBSET change,
         \A d \in rest \cup change : d = c \/ d \in rest' \cup change',
         UNCHANGED <<boot, at, unread, clean>>
  PROVE  SchemaInv'
  <1>1. boot \in Working /\ SchemaTypes /\ c \in Sc!AllColumns /\ at \in Tables
    BY DEF Working, SchemaInv, SchemaTypes, Sc!AllColumns
  <1>2. /\ tables' \in [Tables -> TableTypes]
        /\ \A t \in Tables : t # at => tables'[t] = tables[t]
        /\ tables'[at].made = tables[at].made
        /\ \A d \in Sc!AllColumns :
             tables'[at].col[d] = IF d = c THEN "declared" ELSE tables[at].col[d]
    BY <1>1, AlteredIs
  <1>3. SchemaTypes'
    BY <1>1, <1>2 DEF SchemaTypes
  <1>4. ASSUME clean
        PROVE  /\ \A t \in Tables : t < at => AsDeclared(t)'
               /\ tables'[at].made
               /\ \A d \in Declared : d \in rest' \cup change' \/ tables'[at].col[d] = "declared"
    <2>1. /\ \A t \in Tables : t < at => AsDeclared(t)
          /\ tables[at].made
          /\ \A d \in Declared : d \in rest \cup change \/ tables[at].col[d] = "declared"
      BY <1>1, <1>4 DEF SchemaInv, ProgressInv
    <2>2. \A t \in Tables : t < at => t # at
      BY SomeTables
    <2>3. \A t \in Tables : t < at => AsDeclared(t)'
      BY <1>1, <1>2, <2>1, <2>2 DEF AsDeclared
    <2>4. \A d \in Declared : d \in rest' \cup change' \/ tables'[at].col[d] = "declared"
      BY <1>2, <2>1 DEF Sc!AllColumns
    <2> QED BY <1>2, <2>1, <2>3, <2>4
  <1> QED BY <1>1, <1>3, <1>4 DEF SchemaInv, ProgressInv

LEMMA AddColumnStep ==
  ASSUME SchemaInv, Sc!AddColumn
  PROVE  SchemaInv'
  <1>1. PICK c : c = CHOOSE x \in rest : TRUE
    OBVIOUS
  <1>2. boot = "add" /\ boot \in Working /\ c \in rest
    BY <1>1 DEF Sc!AddColumn, Working
  <1>3. c \in Declared
    BY <1>2 DEF SchemaInv, SchemaTypes
  <1>4. CASE Sc!Fails("create2")
    BY <1>2, <1>4, FailsKeeps
  <1>5. CASE /\ tables' = Sc!Altered(c) /\ rest' = rest \ {c} /\ Sc!Ok
             /\ UNCHANGED <<boot, at, unread, change>>
    BY <1>2, <1>3, <1>5, AlterKeeps DEF Sc!Ok
  <1> QED BY <1>1, <1>4, <1>5 DEF Sc!AddColumn

LEMMA ModifyColumnStep ==
  ASSUME SchemaInv, Sc!ModifyColumn
  PROVE  SchemaInv'
  <1>1. PICK c : c = CHOOSE x \in change : TRUE
    OBVIOUS
  <1>2. boot = "add" /\ boot \in Working /\ c \in change
    BY <1>1 DEF Sc!ModifyColumn, Working
  <1>3. c \in Declared
    BY <1>2 DEF SchemaInv, SchemaTypes
  <1>4. CASE Sc!Fails("create2")
    BY <1>2, <1>4, FailsKeeps
  <1>5. CASE /\ tables' = Sc!Altered(c) /\ change' = change \ {c} /\ Sc!Ok
             /\ UNCHANGED <<boot, at, unread, rest>>
    BY <1>2, <1>3, <1>5, AlterKeeps DEF Sc!Ok
  <1> QED BY <1>1, <1>4, <1>5 DEF Sc!ModifyColumn

LEMMA CheckedStep ==
  ASSUME SchemaInv, Sc!Checked
  PROVE  SchemaInv'
  <1>1. /\ boot = "add" /\ boot \in Working /\ rest = {} /\ change = {} /\ at \in Tables
        /\ Sc!NextTable /\ clean' = clean /\ UNCHANGED <<tables, unread, rest, change>>
    BY DEF Sc!Checked, Sc!Ok, Sc!lists, Working, SchemaInv, SchemaTypes
  <1>2. SchemaTypes'
    BY <1>1, NextTableTypes DEF SchemaInv, SchemaTypes, Working
  <1>3. ASSUME clean, NEW t \in Tables, t <= at
        PROVE  AsDeclared(t)'
    <2>1. t = at \/ t < at
      BY <1>1, <1>3, SomeTables
    <2>2. AsDeclared(t)
      BY <1>1, <1>3, <2>1 DEF SchemaInv, ProgressInv, AsDeclared
    <2> QED BY <1>1, <2>2 DEF AsDeclared
  <1> QED BY <1>1, <1>2, <1>3, NextTableKeeps

LEMMA CreateTableStep ==
  ASSUME SchemaInv, Sc!CreateTable
  PROVE  SchemaInv'
  <1>1. boot \in Working /\ at \in Tables /\ SchemaTypes
    BY DEF Sc!CreateTable, Working, SchemaInv, SchemaTypes
  <1>2. CASE boot = "create" /\ Sc!Fails("create2")
    BY <1>1, <1>2, FailsKeeps
  <1>3. CASE boot = "create2" /\ Sc!GiveUp
    BY <1>3, DownKeeps DEF Sc!GiveUp
  <1>4. CASE /\ tables' = IF tables[at].made THEN tables ELSE [tables EXCEPT ![at] = Sc!Full]
             /\ Sc!NextTable /\ Sc!Ok /\ UNCHANGED Sc!lists
    <2>1. Sc!Full \in TableTypes /\ Sc!Full.made /\ \A c \in Declared : Sc!Full.col[c] = "declared"
      BY DEF TableTypes, Sc!Full, Sc!AllColumns
    <2>2. /\ tables' \in [Tables -> TableTypes]
          /\ \A t \in Tables : t # at => tables'[t] = tables[t]
          /\ ~ tables[at].made => tables'[at] = Sc!Full
      BY <1>1, <1>4, <2>1 DEF SchemaTypes
    <2>3. clean' = clean /\ UNCHANGED <<unread, rest, change>>
      BY <1>4 DEF Sc!Ok, Sc!lists
    <2>4. SchemaTypes'
      BY <1>1, <1>4, <2>2, <2>3, NextTableTypes DEF SchemaTypes, Working
    <2>5. ASSUME clean, NEW t \in Tables, t <= at
          PROVE  AsDeclared(t)'
      <3>1. boot = "create" /\ ~ tables[at].made
        BY <2>5 DEF SchemaInv, ProgressInv, Sc!CreateTable
      <3>2. CASE t = at
        BY <2>1, <2>2, <3>1, <3>2 DEF AsDeclared
      <3>3. CASE t < at
        <4>1. AsDeclared(t) /\ t # at
          BY <1>1, <2>5, <3>3, SomeTables DEF SchemaInv, ProgressInv
        <4> QED BY <2>2, <4>1 DEF AsDeclared
      <3>4. t = at \/ t < at
        BY <1>1, <2>5, SomeTables
      <3> QED BY <3>2, <3>3, <3>4
    <2> QED BY <1>1, <1>4, <2>3, <2>4, <2>5, NextTableKeeps
  <1> QED BY <1>2, <1>3, <1>4 DEF Sc!CreateTable

LEMMA SchemaInit ==
  ASSUME Sc!Init
  PROVE  SchemaInv
  <1>1. Sc!NoTable \in TableTypes
    BY DEF Sc!NoTable, TableTypes
  <1>2. Sc!Earlier \subseteq TableTypes
    BY <1>1 DEF Sc!Earlier, TableTypes
  <1>3. tables \in [Tables -> TableTypes]
    BY <1>2 DEF Sc!Init
  <1> QED BY <1>3 DEF Sc!Init, SchemaInv, SchemaTypes, ProgressInv, Working

LEMMA SchemaStep ==
  ASSUME SchemaInv, [Sc!Next]_schemaVars
  PROVE  SchemaInv'
  <1>1. CASE Sc!Connect \/ Sc!CreateDatabase \/ Sc!Crash
    BY <1>1, DownKeeps DEF Sc!Connect, Sc!CreateDatabase, Sc!GiveUp, Sc!Crash
  <1>2. CASE Sc!MakeDatabase \/ UNCHANGED schemaVars
    <2>1. UNCHANGED <<tables, boot, at, unread, rest, change, clean>>
      BY <1>2 DEF Sc!MakeDatabase, schemaVars, Sc!lists
    <2> QED BY <2>1 DEF SchemaInv, SchemaTypes, ProgressInv, AsDeclared
  <1>3. CASE Sc!InitStep
    BY <1>1, <1>3, CheckDatabaseStep, DescStep, RowStep, EndQueryStep, AddColumnStep,
       ModifyColumnStep, CheckedStep, CreateTableStep DEF Sc!InitStep
  <1> QED BY <1>1, <1>2, <1>3 DEF Sc!Next

\* A start without a failed statement leaves every table as declared, for any
\* number of tables and columns, whatever it found: MySqlManager::Init.
THEOREM SchemaStands == Spec => []SchemaReady
  <1> DEFINE Inv == part = "schema" => SchemaInv
  <1>1. Init => Inv
    BY SchemaInit DEF Init
  <1>2. Inv /\ [Next]_allVars => Inv'
    <2> SUFFICES ASSUME Inv, [Next]_allVars, part' = "schema" PROVE SchemaInv'
      OBVIOUS
    <2>1. part = "schema" /\ [Sc!Next]_schemaVars
      BY DEF Next, Steps, allVars
    <2> QED BY <2>1, SchemaStep
  <1>3. Inv => SchemaReady
    BY DEF SchemaReady, Sc!SchemaReady, SchemaInv, ProgressInv, AsDeclared
  <1> QED BY <1>1, <1>2, <1>3, PTL DEF Spec

-----------------------------------------------------------------------------
(* Retrieval: the state *)

Inside == {"load", "has", "embed", "upsert"}
AskRecs ==
  [pc : {"lock", "query", "answered"} \cup Inside, owner : Owners, late : BOOLEAN,
   todo : SUBSET Nat, batch : SUBSET Nat, seen : SUBSET Nat, found : SUBSET Nat]
Points == [key : Owners \X Nat, owner : Owners, row : Nat]

\* Type correctness.
RetTypes ==
  /\ chatRows \in Seq(Messages)
  /\ points \in SUBSET Points
  /\ ask \in Seq(AskRecs \cup {Rt!Over})
  /\ paid \in [Rt!Pairs -> Int]

\* The row m is one that o sent or received.
Mine(o, m) == m \in DOMAIN chatRows /\ o \in {chatRows[m].from, chatRows[m].to}

\* The store has the point of o's row m.
Stored(o, m) == \E p \in points : p.key = <<o, m>>

\* A point is where its payload says, of a row of its owner.
PointInv == \A p \in points : p.key = <<p.owner, p.row>> /\ Mine(p.owner, p.row)

\* The embedding of o's row m is still to be bought.
Unpaid(o, m) == \A p \in Rt!Pairs : p[1] = o /\ p[2] = m => paid[p] <= 0

\* What a request has found, has still to do and has seen done.
AskOk(x) ==
  /\ x.pc \in {"lock", "load"} => x.seen = {}
  /\ x.pc \in {"has", "embed", "upsert"} => \A m \in x.todo : Mine(x.owner, m)
  /\ x.pc = "has" => x.seen \subseteq x.todo
  /\ x.pc = "embed" => \A m \in x.seen : m \in x.todo \/ Stored(x.owner, m)
  /\ x.pc = "upsert" =>
       /\ \A m \in x.seen : m \in x.todo \cup x.batch \/ Stored(x.owner, m)
       /\ \A m \in x.batch : Mine(x.owner, m)
       /\ x.todo \cap x.batch = {}
  /\ x.pc \in {"embed", "upsert"} => \A m \in x.todo : Unpaid(x.owner, m)
  /\ x.pc \in {"query", "answered"} => \A m \in x.seen : Stored(x.owner, m)
  /\ x.pc = "answered" => \A m \in x.found : Mine(x.owner, m)

\* Retriever.mu is held inside EnsureIndexed.
MutexInv == \A a \in DOMAIN ask : ask[a].pc \in Inside => mu = a

\* An embedding that was bought is in the store, or about to be.
PaidInv ==
  \A p \in Rt!Pairs :
    /\ paid[p] <= 1
    /\ paid[p] = 1 => \/ Stored(p[1], p[2])
                      \/ \E a \in DOMAIN ask : /\ ask[a].pc = "upsert" /\ ask[a].owner = p[1]
                                               /\ p[2] \in ask[a].batch

\* The inductive invariant.
RetInv ==
  /\ RetTypes /\ PointInv /\ MutexInv /\ PaidInv
  /\ \A a \in DOMAIN ask : AskOk(ask[a])
-----------------------------------------------------------------------------
(* Retrieval: the requests *)

\* Rows and points stay.
Later ==
  /\ \A o, m : Mine(o, m) => Mine(o, m)'
  /\ \A o, m : Stored(o, m) => Stored(o, m)'

\* A request under way has its record.
LEMMA AskIs ==
  ASSUME RetTypes, NEW a \in DOMAIN ask, ask[a].pc # "over"
  PROVE  ask[a] \in AskRecs /\ a \in Nat
  BY DEF RetTypes, Rt!Over

\* Over is no request under way.
LEMMA NotUnderWay ==
  Rt!Over.pc = "over" /\ AskOk(Rt!Over) /\ Rt!Over.pc \notin Inside
  BY DEF Rt!Over, AskOk, Inside

\* What a request is worth stays, if the embeddings it has still to buy do.
LEMMA AskKept ==
  ASSUME NEW x, AskOk(x), Later, paid' = paid \/ x.pc \notin {"embed", "upsert"}
  PROVE  AskOk(x)'
  BY DEF AskOk, Later, Unpaid

\* One request moves on.
LEMMA OneAsk ==
  ASSUME RetInv, NEW a \in DOMAIN ask, NEW x \in AskRecs \cup {Rt!Over},
         ask' = [ask EXCEPT ![a] = x], Later, AskOk(x)',
         paid' = paid \/ ask[a].pc \in Inside,
         x.pc \in Inside => mu' = a,
         mu' = mu \/ mu = NoAsk \/ mu = a
  PROVE  /\ ask' \in Seq(AskRecs \cup {Rt!Over}) /\ DOMAIN ask' = DOMAIN ask
         /\ ask'[a] = x /\ \A b \in DOMAIN ask : b # a => ask'[b] = ask[b]
         /\ MutexInv'
         /\ \A b \in DOMAIN ask' : AskOk(ask[b])'
  <1>1. /\ ask' \in Seq(AskRecs \cup {Rt!Over}) /\ DOMAIN ask' = DOMAIN ask
        /\ ask'[a] = x /\ \A b \in DOMAIN ask : b # a => ask'[b] = ask[b]
    BY DEF RetInv, RetTypes
  <1>2. \A b \in DOMAIN ask : b \in Nat
    BY DEF RetInv, RetTypes
  <1>3. MutexInv'
    <2> SUFFICES ASSUME NEW b \in DOMAIN ask, ask'[b].pc \in Inside PROVE mu' = b
      BY <1>1 DEF MutexInv
    <2>1. CASE b = a
      BY <1>1, <2>1
    <2>2. CASE b # a
      <3>1. mu = b /\ b # NoAsk
        BY <1>1, <1>2, <2>2, NoAskIsNone DEF RetInv, MutexInv
      <3> QED BY <2>2, <3>1
    <2> QED BY <2>1, <2>2
  <1>4. ASSUME NEW b \in DOMAIN ask
        PROVE  AskOk(ask[b])'
    <2>1. CASE b = a
      BY <1>1, <2>1 DEF AskOk
    <2>2. CASE b # a
      <3>1. PICK y : y = ask[b]
        OBVIOUS
      <3>2. AskOk(y) /\ ask'[b] = y
        BY <1>1, <2>2, <3>1 DEF RetInv
      <3>3. paid' = paid \/ y.pc \notin {"embed", "upsert"}
        BY <2>2, <3>1 DEF RetInv, MutexInv, Inside
      <3>4. AskOk(y)'
        BY <3>2, <3>3, AskKept
      <3> QED BY <3>2, <3>4 DEF AskOk
    <2> QED BY <2>1, <2>2
  <1> QED BY <1>1, <1>3, <1>4

\* A bought embedding stays accounted for.
LEMMA PaidKept ==
  ASSUME PaidInv, paid' = paid, Later,
         \A b \in DOMAIN ask : ask[b].pc = "upsert" =>
           \/ \A m \in ask[b].batch : \E q \in points' : q.key = <<ask[b].owner, m>>
           \/ /\ b \in DOMAIN ask' /\ ask'[b].pc = "upsert"
              /\ ask'[b].owner = ask[b].owner /\ ask'[b].batch = ask[b].batch
  PROVE  PaidInv'
  <1> SUFFICES ASSUME NEW p \in Rt!Pairs
               PROVE  /\ paid[p] <= 1
                      /\ paid[p] = 1 =>
                           \/ Stored(p[1], p[2])'
                           \/ \E b \in DOMAIN ask' : /\ ask'[b].pc = "upsert"
                                                     /\ ask'[b].owner = p[1]
                                                     /\ p[2] \in ask'[b].batch
    BY DEF PaidInv, Rt!Pairs
  <1>1. paid[p] <= 1
    BY DEF PaidInv
  <1>2. CASE Stored(p[1], p[2])
    BY <1>1, <1>2 DEF Later
  <1>3. CASE paid[p] = 1 /\ ~ Stored(p[1], p[2])
    <2>1. PICK b \in DOMAIN ask : /\ ask[b].pc = "upsert" /\ ask[b].owner = p[1]
                                  /\ p[2] \in ask[b].batch
      BY <1>3 DEF PaidInv
    <2>2. CASE \A m \in ask[b].batch : \E q \in points' : q.key = <<ask[b].owner, m>>
      <3>1. \E q \in points' : q.key = <<p[1], p[2]>>
        BY <2>1, <2>2
      <3> QED BY <1>1, <3>1 DEF Stored
    <2> QED BY <1>1, <2>1, <2>2
  <1> QED BY <1>1, <1>2, <1>3

\* Points stay, rows stay or are added.
LEMMA Stays ==
  ASSUME RetInv, points' = points, chatRows' = chatRows
  PROVE  Later /\ PointInv' /\ points' \in SUBSET Points /\ chatRows' \in Seq(Messages)
  <1>1. Later
    BY DEF Later, Mine, Stored
  <1> QED BY <1>1 DEF RetInv, RetTypes, PointInv, Mine

\* A request that is not at its upsert moves on, and nothing is bought or stored.
LEMMA MovesOn ==
  ASSUME RetInv, NEW a \in DOMAIN ask, NEW x \in AskRecs \cup {Rt!Over},
         ask' = [ask EXCEPT ![a] = x], UNCHANGED <<points, chatRows, paid>>,
         ask[a].pc # "upsert" \/ (x.pc = "upsert" /\ x.owner = ask[a].owner
                                  /\ x.batch = ask[a].batch),
         AskOk(x), x.pc \in Inside => mu' = a,
         mu' = mu \/ mu = NoAsk \/ mu = a
  PROVE  RetInv'
  <1>1. Later /\ PointInv' /\ points' \in SUBSET Points /\ chatRows' \in Seq(Messages)
    BY Stays
  <1>2. AskOk(x)'
    BY <1>1, AskKept
  <1>3. /\ ask' \in Seq(AskRecs \cup {Rt!Over}) /\ DOMAIN ask' = DOMAIN ask
        /\ ask'[a] = x /\ \A b \in DOMAIN ask : b # a => ask'[b] = ask[b]
        /\ MutexInv'
        /\ \A b \in DOMAIN ask' : AskOk(ask[b])'
    BY <1>1, <1>2, OneAsk
  <1>4. PaidInv'
    BY <1>1, <1>3, PaidKept DEF RetInv
  <1>5. RetTypes'
    BY <1>1, <1>3 DEF RetInv, RetTypes, Rt!Pairs, Rt!Over
  <1> QED BY <1>1, <1>3, <1>4, <1>5 DEF RetInv
-----------------------------------------------------------------------------
(* Retrieval: the steps *)

LEMMA LockStep ==
  ASSUME RetInv, NEW a \in DOMAIN ask, Rt!Lock(a)
  PROVE  RetInv'
  <1>1. PICK y : y = ask[a]
    OBVIOUS
  <1>2. y.pc = "lock" /\ y \in AskRecs /\ AskOk(y)
    BY <1>1, AskIs DEF RetInv, Rt!Lock, Rt!At
  <1>3. PICK x : x = [y EXCEPT !.pc = "load"]
    OBVIOUS
  <1>4. x \in AskRecs /\ x.pc = "load" /\ x.seen = y.seen
    BY <1>2, <1>3 DEF AskRecs, Inside
  <1>5. AskOk(x)
    BY <1>2, <1>4 DEF AskOk
  <1>6. ask' = [ask EXCEPT ![a] = x]
    BY <1>1, <1>3 DEF Rt!Lock, RetInv, RetTypes
  <1> QED BY <1>1, <1>2, <1>4, <1>5, <1>6, MovesOn DEF Rt!Lock

\* EnsureIndexed returns: what was seen is stored.
LEMMA IndexedStep ==
  ASSUME RetInv, NEW a \in DOMAIN ask, ask[a].pc \in {"load", "has"}, Rt!Indexed(a),
         UNCHANGED <<points, chatRows, paid>>,
         \A m \in ask[a].seen : Stored(ask[a].owner, m)
  PROVE  RetInv'
  <1>1. PICK y : y = ask[a]
    OBVIOUS
  <1>2. y \in AskRecs /\ mu = a
    BY <1>1, AskIs DEF RetInv, MutexInv, Inside
  <1>3. PICK x : x = [y EXCEPT !.pc = "query"]
    OBVIOUS
  <1>4. x \in AskRecs /\ x.pc = "query" /\ x.seen = y.seen /\ x.owner = y.owner
    BY <1>2, <1>3 DEF AskRecs
  <1>5. AskOk(x) /\ x.pc \notin Inside
    BY <1>1, <1>4 DEF AskOk, Inside
  <1>6. ask' = [ask EXCEPT ![a] = x]
    BY <1>1, <1>3 DEF Rt!Indexed, RetInv, RetTypes
  <1> QED BY <1>1, <1>2, <1>4, <1>5, <1>6, MovesOn

\* The rows that are loaded are the owner's.
LEMMA LoadedAreMine ==
  ASSUME RetTypes, NEW o
  PROVE  Rt!LoadUserTextMessages(o) \in SUBSET Nat
         /\ \A m \in Rt!LoadUserTextMessages(o) : Mine(o, m)
  BY DEF RetTypes, Rt!LoadUserTextMessages, Mine

LEMMA LoadStep ==
  ASSUME RetInv, NEW a \in DOMAIN ask, Rt!Load(a)
  PROVE  RetInv'
  <1>1. PICK y : y = ask[a]
    OBVIOUS
  <1>2. y.pc = "load" /\ y \in AskRecs /\ AskOk(y) /\ mu = a
    BY <1>1, AskIs DEF RetInv, Rt!Load, Rt!At, MutexInv, Inside
  <1>3. PICK cand : cand = Rt!LoadUserTextMessages(y.owner)
    OBVIOUS
  <1>4. cand \in SUBSET Nat /\ \A m \in cand : Mine(y.owner, m)
    BY <1>3, LoadedAreMine DEF RetInv
  <1>5. UNCHANGED <<points, chatRows, paid>>
    BY DEF Rt!Load
  <1>6. CASE cand = {}
    <2>1. Rt!Indexed(a)
      BY <1>1, <1>3, <1>6 DEF Rt!Load, Rt!Owner
    <2>2. y.seen = {}
      BY <1>2 DEF AskOk
    <2> QED BY <1>1, <1>2, <1>5, <2>1, <2>2, IndexedStep
  <1>7. CASE cand # {}
    <2>1. PICK x : x = [y EXCEPT !.pc = "has", !.todo = cand, !.seen = cand]
      OBVIOUS
    <2>2. x \in AskRecs /\ x.pc = "has" /\ x.todo = cand /\ x.seen = cand /\ x.owner = y.owner
      BY <1>2, <1>4, <2>1 DEF AskRecs, Inside
    <2>3. AskOk(x)
      BY <1>4, <2>2 DEF AskOk
    <2>4. ask' = [ask EXCEPT ![a] = x] /\ mu' = mu
      BY <1>1, <1>3, <1>7, <2>1 DEF Rt!Load, Rt!Owner, RetInv, RetTypes
    <2> QED BY <1>1, <1>2, <1>5, <2>2, <2>3, <2>4, MovesOn
  <1> QED BY <1>6, <1>7

LEMMA PendingStep ==
  ASSUME RetInv, NEW a \in DOMAIN ask, Rt!Pending(a)
  PROVE  RetInv'
  <1>1. PICK y : y = ask[a]
    OBVIOUS
  <1>2. y.pc = "has" /\ y \in AskRecs /\ AskOk(y) /\ mu = a
    BY <1>1, AskIs DEF RetInv, Rt!Pending, Rt!At, MutexInv, Inside
  <1>3. PICK left : left = y.todo \ Rt!HasIDs(y.owner, y.todo)
    OBVIOUS
  <1>4. left \in SUBSET y.todo /\ y.todo \in SUBSET Nat /\ y.seen \subseteq y.todo
        /\ \A m \in y.todo : Mine(y.owner, m)
    BY <1>2, <1>3 DEF AskRecs, AskOk
  <1>5. \A m \in y.todo : Stored(y.owner, m) <=> m \notin left
    BY <1>3 DEF Rt!HasIDs, Rt!PointID, Stored
  <1>6. UNCHANGED <<points, chatRows, paid>>
    BY DEF Rt!Pending
  <1>7. CASE left = {}
    <2>1. Rt!Indexed(a)
      BY <1>1, <1>3, <1>7 DEF Rt!Pending, Rt!Owner
    <2> QED BY <1>1, <1>2, <1>4, <1>5, <1>6, <1>7, <2>1, IndexedStep
  <1>8. CASE left # {}
    <2>1. PICK x : x = [y EXCEPT !.pc = "embed", !.todo = left]
      OBVIOUS
    <2>2. x \in AskRecs /\ x.pc = "embed" /\ x.todo = left /\ x.seen = y.seen /\ x.owner = y.owner
      BY <1>2, <1>4, <2>1 DEF AskRecs, Inside
    <2>3. ASSUME NEW m \in left
          PROVE  Unpaid(y.owner, m)
      <3> SUFFICES ASSUME NEW p \in Rt!Pairs, p[1] = y.owner, p[2] = m
                   PROVE  paid[p] <= 0
        BY DEF Unpaid
      <3>1. paid[p] \in Int /\ paid[p] <= 1
        BY DEF RetInv, RetTypes, PaidInv
      <3>2. ~ Stored(p[1], p[2])
        BY <1>4, <1>5
      <3>3. \A b \in DOMAIN ask : ask[b].pc # "upsert"
        BY <1>1, <1>2 DEF RetInv, MutexInv, Inside
      <3>4. paid[p] # 1
        BY <3>2, <3>3 DEF RetInv, PaidInv
      <3> QED BY <3>1, <3>4
    <2>4. AskOk(x)
      BY <1>4, <1>5, <2>2, <2>3 DEF AskOk
    <2>5. ask' = [ask EXCEPT ![a] = x] /\ mu' = mu
      BY <1>1, <1>3, <1>8, <2>1 DEF Rt!Pending, Rt!Owner, RetInv, RetTypes
    <2> QED BY <1>1, <1>2, <1>6, <2>2, <2>4, <2>5, MovesOn
  <1> QED BY <1>7, <1>8

\* What Pay does.
LEMMA PayIs ==
  ASSUME RetTypes, NEW o, NEW ms, NEW n \in Int, paid' = Rt!Pay(o, ms, n)
  PROVE  /\ paid' \in [Rt!Pairs -> Int]
         /\ \A p \in Rt!Pairs :
              paid'[p] = IF p[1] = o /\ p[2] \in ms THEN paid[p] + n ELSE paid[p]
  BY DEF RetTypes, Rt!Pay

LEMMA EmbedStep ==
  ASSUME RetInv, NEW a \in DOMAIN ask, NEW got, Rt!Embed(a, got)
  PROVE  RetInv'
  <1>1. PICK y : y = ask[a]
    OBVIOUS
  <1>2. y.pc = "embed" /\ y \in AskRecs /\ AskOk(y) /\ mu = a
    BY <1>1, AskIs DEF RetInv, Rt!Embed, Rt!At, MutexInv, Inside
  <1>3. PICK b : b = Rt!NextBatch(y.todo)
    OBVIOUS
  <1>4. b \in SUBSET y.todo /\ y.todo \in SUBSET Nat /\ y.seen \in SUBSET Nat /\ got \in SUBSET b
    BY <1>1, <1>2, <1>3 DEF Rt!NextBatch, AskRecs, Rt!Embed
  <1>5. PICK x : x = [y EXCEPT !.pc = "upsert", !.todo = y.todo \ b, !.batch = got,
                              !.seen = y.seen \ (b \ got)]
    OBVIOUS
  <1>6. /\ x \in AskRecs /\ x.pc = "upsert" /\ x.todo = y.todo \ b /\ x.batch = got
        /\ x.seen = y.seen \ (b \ got) /\ x.owner = y.owner
    <2>1. PICK x1 : x1 = [y EXCEPT !.pc = "upsert", !.todo = y.todo \ b]
      OBVIOUS
    <2>2. /\ x1 \in AskRecs /\ x1.pc = "upsert" /\ x1.todo = y.todo \ b /\ x1.owner = y.owner
      BY <1>2, <1>4, <2>1 DEF AskRecs, Inside
    <2>3. PICK s \in SUBSET Nat : s = y.seen \ (b \ got)
      BY <1>4
    <2>4. x = [x1 EXCEPT !.batch = got, !.seen = s]
      BY <1>5, <2>1, <2>3
    <2> QED BY <1>4, <2>2, <2>3, <2>4 DEF AskRecs
  <1>7. ask' = [ask EXCEPT ![a] = x] /\ mu' = mu /\ UNCHANGED <<points, chatRows>>
    BY <1>1, <1>3, <1>5 DEF Rt!Embed, RetInv, RetTypes
  <1>8. Later /\ PointInv' /\ points' \in SUBSET Points /\ chatRows' \in Seq(Messages)
    BY <1>7, Stays
  <1>9. /\ paid' \in [Rt!Pairs -> Int]
        /\ \A p \in Rt!Pairs :
             paid'[p] = IF p[1] = y.owner /\ p[2] \in got THEN paid[p] + 1 ELSE paid[p]
    <2>1. paid' = Rt!Pay(y.owner, got, 1) /\ RetTypes
      BY <1>1 DEF Rt!Embed, Rt!Owner, RetInv
    <2> QED BY <2>1, PayIs
  <1>10. AskOk(x)'
    <2>1. \A m \in x.todo : Unpaid(x.owner, m)'
      <3> SUFFICES ASSUME NEW m \in x.todo, NEW p \in Rt!Pairs, p[1] = x.owner, p[2] = m
                   PROVE  paid'[p] <= 0
        BY DEF Unpaid, Rt!Pairs
      <3>1. m \in y.todo /\ m \notin got
        BY <1>4, <1>6
      <3>2. paid[p] <= 0
        BY <1>2, <1>6, <3>1 DEF AskOk, Unpaid
      <3> QED BY <1>9, <3>1, <3>2
    <2>2. \A m \in y.todo : Mine(y.owner, m)'
      BY <1>2, <1>8 DEF AskOk, Later
    <2>3. \A m \in y.seen : m \in y.todo \/ Stored(y.owner, m)'
      BY <1>2, <1>8 DEF AskOk, Later
    <2> QED BY <1>4, <1>6, <2>1, <2>2, <2>3 DEF AskOk
  <1>11. /\ ask' \in Seq(AskRecs \cup {Rt!Over}) /\ DOMAIN ask' = DOMAIN ask
         /\ ask'[a] = x /\ \A c \in DOMAIN ask : c # a => ask'[c] = ask[c]
         /\ MutexInv'
         /\ \A c \in DOMAIN ask' : AskOk(ask[c])'
    <2>1. ask[a].pc \in Inside
      BY <1>1, <1>2 DEF Inside
    <2> QED BY <1>2, <1>6, <1>7, <1>8, <1>10, <2>1, OneAsk
  <1>12. PaidInv'
    <2> SUFFICES ASSUME NEW p \in Rt!Pairs
                 PROVE  /\ paid'[p] <= 1
                        /\ paid'[p] = 1 =>
                             \/ Stored(p[1], p[2])'
                             \/ \E c \in DOMAIN ask' : /\ ask'[c].pc = "upsert"
                                                       /\ ask'[c].owner = p[1]
                                                       /\ p[2] \in ask'[c].batch
      BY DEF PaidInv, Rt!Pairs
    <2>1. paid[p] \in Int
      BY DEF RetInv, RetTypes
    <2>2. CASE p[1] = y.owner /\ p[2] \in got
      <3>1. paid[p] <= 0
        BY <1>2, <1>4, <2>2 DEF AskOk, Unpaid
      <3> QED BY <1>6, <1>9, <1>11, <2>1, <2>2, <3>1
    <2>3. CASE ~ (p[1] = y.owner /\ p[2] \in got)
      <3>1. paid'[p] = paid[p]
        BY <1>9, <2>3
      <3>2. \A c \in DOMAIN ask : ask[c].pc # "upsert"
        BY <1>1, <1>2 DEF RetInv, MutexInv, Inside
      <3>3. paid[p] <= 1 /\ (paid[p] = 1 => Stored(p[1], p[2]))
        BY <3>2 DEF RetInv, PaidInv
      <3> QED BY <1>8, <3>1, <3>3 DEF Later
    <2> QED BY <2>2, <2>3
  <1>13. RetTypes'
    BY <1>8, <1>9, <1>11 DEF RetTypes, Rt!Pairs, Rt!Over
  <1> QED BY <1>8, <1>11, <1>12, <1>13 DEF RetInv

\* Points that are written for the owner's own rows.
LEMMA UpsertedIs ==
  ASSUME RetInv, NEW o \in Owners, NEW ms \in SUBSET Nat, \A m \in ms : Mine(o, m),
         points' = Rt!Upserted(o, ms), chatRows' = chatRows
  PROVE  /\ Later /\ PointInv' /\ points' \in SUBSET Points
         /\ \A m \in ms : Stored(o, m)'
  <1>1. \A p \in points' : \/ p \in points
                           \/ \E m \in ms : p = [key |-> <<o, m>>, owner |-> o, row |-> m]
    BY DEF Rt!Upserted, Rt!PointID
  <1>2. \A m \in ms : [key |-> <<o, m>>, owner |-> o, row |-> m] \in points'
    BY DEF Rt!Upserted, Rt!PointID
  <1>3. \A p \in points : p \in points' \/ \E m \in ms : p.key = <<o, m>>
    BY DEF Rt!Upserted, Rt!PointID
  <1>4. \A m \in ms : LET p == [key |-> <<o, m>>, owner |-> o, row |-> m]
                      IN p \in Points /\ p.key = <<o, m>> /\ p.owner = o /\ p.row = m
    BY DEF Points
  <1>5. \A m \in ms : Stored(o, m)'
    BY <1>2, <1>4 DEF Stored
  <1>6. \A q, m : Mine(q, m) => Mine(q, m)'
    BY DEF Mine
  <1>7. \A q, m : Stored(q, m) => Stored(q, m)'
    <2> SUFFICES ASSUME NEW q, NEW m, Stored(q, m) PROVE Stored(q, m)'
      OBVIOUS
    <2>1. PICK p \in points : p.key = <<q, m>>
      BY DEF Stored
    <2>2. CASE p \in points'
      BY <2>1, <2>2 DEF Stored
    <2>3. CASE \E n \in ms : p.key = <<o, n>>
      <3>1. PICK n \in ms : p.key = <<o, n>>
        BY <2>3
      <3>2. q = o /\ m = n
        BY <2>1, <3>1
      <3> QED BY <1>5, <3>2
    <2> QED BY <1>3, <2>2, <2>3
  <1>8. PointInv'
    <2> SUFFICES ASSUME NEW p \in points'
                 PROVE  p.key = <<p.owner, p.row>> /\ Mine(p.owner, p.row)'
      BY DEF PointInv
    <2>1. CASE p \in points
      BY <1>6, <2>1 DEF RetInv, PointInv
    <2>2. CASE \E m \in ms : p = [key |-> <<o, m>>, owner |-> o, row |-> m]
      BY <1>4, <1>6, <2>2
    <2> QED BY <1>1, <2>1, <2>2
  <1>9. points' \in SUBSET Points
    BY <1>1, <1>4 DEF RetInv, RetTypes
  <1> QED BY <1>5, <1>6, <1>7, <1>8, <1>9 DEF Later

LEMMA UpsertStep ==
  ASSUME RetInv, NEW a \in DOMAIN ask, Rt!Upsert(a)
  PROVE  RetInv'
  <1>1. PICK y : y = ask[a]
    OBVIOUS
  <1>2. y.pc = "upsert" /\ y \in AskRecs /\ AskOk(y) /\ mu = a /\ y.pc \in Inside
    BY <1>1, AskIs DEF RetInv, Rt!Upsert, Rt!At, MutexInv, Inside
  <1>3. /\ y.owner \in Owners /\ y.batch \in SUBSET Nat /\ \A m \in y.batch : Mine(y.owner, m)
    BY <1>2 DEF AskRecs, AskOk
  <1>4. points' = Rt!Upserted(y.owner, y.batch) /\ chatRows' = chatRows /\ paid' = paid
    BY <1>1 DEF Rt!Upsert, Rt!Owner
  <1>5. Later /\ PointInv' /\ points' \in SUBSET Points /\ \A m \in y.batch : Stored(y.owner, m)'
    BY <1>3, <1>4, UpsertedIs
  <1>6. PICK x \in AskRecs :
          /\ ask' = [ask EXCEPT ![a] = x]
          /\ x.owner = y.owner /\ x.seen = y.seen /\ x.todo = y.todo
          /\ \/ x.pc = "query" /\ y.todo = {} /\ mu' = NoAsk
             \/ x.pc = "embed" /\ mu' = mu
    <2>1. CASE y.todo = {}
      <3>1. PICK x : x = [y EXCEPT !.pc = "query"]
        OBVIOUS
      <3>2. x \in AskRecs /\ x.pc = "query" /\ x.owner = y.owner /\ x.seen = y.seen /\ x.todo = y.todo
        BY <1>2, <3>1 DEF AskRecs
      <3>3. ask' = [ask EXCEPT ![a] = x] /\ mu' = NoAsk
        BY <1>1, <2>1, <3>1 DEF Rt!Upsert, Rt!Indexed, RetInv, RetTypes
      <3> QED BY <2>1, <3>2, <3>3
    <2>2. CASE y.todo # {}
      <3>1. PICK x : x = [y EXCEPT !.pc = "embed", !.batch = {}]
        OBVIOUS
      <3>2. x \in AskRecs /\ x.pc = "embed" /\ x.owner = y.owner /\ x.seen = y.seen /\ x.todo = y.todo
        BY <1>2, <3>1 DEF AskRecs, Inside
      <3>3. ask' = [ask EXCEPT ![a] = x] /\ mu' = mu
        BY <1>1, <2>2, <3>1 DEF Rt!Upsert, RetInv, RetTypes
      <3> QED BY <3>2, <3>3
    <2> QED BY <2>1, <2>2
  <1>7. AskOk(x)'
    <2>1. \A m \in y.seen : m \in y.todo \/ Stored(y.owner, m)'
      BY <1>2, <1>5 DEF AskOk, Later
    <2>2. \A m \in y.todo : Mine(y.owner, m)' /\ Unpaid(y.owner, m)'
      BY <1>2, <1>4, <1>5 DEF AskOk, Later, Unpaid
    <2>3. CASE x.pc = "query" /\ y.todo = {}
      BY <1>6, <2>1, <2>3 DEF AskOk
    <2>4. CASE x.pc = "embed"
      BY <1>6, <2>1, <2>2, <2>4 DEF AskOk
    <2> QED BY <1>6, <2>3, <2>4
  <1>8. /\ ask' \in Seq(AskRecs \cup {Rt!Over}) /\ DOMAIN ask' = DOMAIN ask
        /\ ask'[a] = x /\ \A c \in DOMAIN ask : c # a => ask'[c] = ask[c]
        /\ MutexInv'
        /\ \A c \in DOMAIN ask' : AskOk(ask[c])'
    <2>1. x.pc \in Inside => mu' = a
      BY <1>2, <1>6 DEF Inside
    <2> QED BY <1>2, <1>4, <1>5, <1>6, <1>7, <2>1, OneAsk
  <1>9. PaidInv'
    <2>1. ASSUME NEW b \in DOMAIN ask, ask[b].pc = "upsert"
          PROVE  \A m \in ask[b].batch : \E q \in points' : q.key = <<ask[b].owner, m>>
      <3>1. b = a
        BY <1>2, <2>1 DEF RetInv, MutexInv, Inside
      <3> QED BY <1>1, <1>5, <3>1 DEF Stored
    <2> QED BY <1>4, <1>5, <2>1, PaidKept DEF RetInv
  <1>10. RetTypes'
    BY <1>4, <1>5, <1>8 DEF RetInv, RetTypes, Rt!Pairs, Rt!Over
  <1> QED BY <1>5, <1>8, <1>9, <1>10 DEF RetInv

LEMMA UpsertFailsStep ==
  ASSUME RetInv, NEW a \in DOMAIN ask, NEW ok \in BOOLEAN, Rt!UpsertFails(a, ok)
  PROVE  RetInv'
  <1>1. PICK y : y = ask[a]
    OBVIOUS
  <1>2. y.pc = "upsert" /\ y \in AskRecs /\ AskOk(y) /\ mu = a /\ y.pc \in Inside
    BY <1>1, AskIs DEF RetInv, Rt!UpsertFails, Rt!At, MutexInv, Inside
  <1>3. /\ y.owner \in Owners /\ y.batch \in SUBSET Nat /\ \A m \in y.batch : Mine(y.owner, m)
    BY <1>2 DEF AskRecs, AskOk
  <1>4. /\ points' = (IF ok THEN Rt!Upserted(y.owner, y.batch) ELSE points)
        /\ chatRows' = chatRows /\ paid' = Rt!Pay(y.owner, y.batch, -1)
        /\ mu' = NoAsk /\ ask' = [ask EXCEPT ![a] = Rt!Over]
    BY <1>1 DEF Rt!UpsertFails, Rt!Owner, Rt!Failed
  <1>5. Later /\ PointInv' /\ points' \in SUBSET Points /\ chatRows' \in Seq(Messages)
    <2>1. CASE ok
      BY <1>3, <1>4, <2>1, UpsertedIs DEF RetInv, RetTypes
    <2>2. CASE ~ ok
      BY <1>4, <2>2, Stays
    <2> QED BY <2>1, <2>2
  <1>6. AskOk(Rt!Over)'
    BY DEF AskOk, Rt!Over
  <1>7. /\ ask' \in Seq(AskRecs \cup {Rt!Over}) /\ DOMAIN ask' = DOMAIN ask
        /\ ask'[a] = Rt!Over /\ \A c \in DOMAIN ask : c # a => ask'[c] = ask[c]
        /\ MutexInv'
        /\ \A c \in DOMAIN ask' : AskOk(ask[c])'
    <2>1. PICK x \in AskRecs \cup {Rt!Over} : x = Rt!Over
      OBVIOUS
    <2>2. ask' = [ask EXCEPT ![a] = x] /\ AskOk(x)' /\ x.pc \notin Inside /\ ask[a].pc \in Inside
      BY <1>1, <1>2, <1>4, <1>6, <2>1, NotUnderWay
    <2> QED BY <1>2, <1>5, <2>1, <2>2, OneAsk
  <1>8. /\ paid' \in [Rt!Pairs -> Int]
        /\ \A p \in Rt!Pairs :
             paid'[p] = IF p[1] = y.owner /\ p[2] \in y.batch THEN paid[p] + (-1) ELSE paid[p]
    <2>1. RetTypes /\ -1 \in Int
      BY DEF RetInv
    <2> QED BY <1>4, <2>1, PayIs
  <1>9. PaidInv'
    <2> SUFFICES ASSUME NEW p \in Rt!Pairs
                 PROVE  paid'[p] <= 1 /\ (paid'[p] = 1 => Stored(p[1], p[2])')
      BY DEF PaidInv, Rt!Pairs
    <2>1. paid[p] \in Int /\ paid[p] <= 1
      BY DEF RetInv, RetTypes, PaidInv
    <2>2. CASE p[1] = y.owner /\ p[2] \in y.batch
      BY <1>8, <2>1, <2>2
    <2>3. CASE ~ (p[1] = y.owner /\ p[2] \in y.batch)
      <3>1. \A c \in DOMAIN ask : ask[c].pc = "upsert" => c = a
        BY <1>2 DEF RetInv, MutexInv, Inside
      <3>2. paid[p] = 1 => Stored(p[1], p[2])
        BY <1>1, <2>3, <3>1 DEF RetInv, PaidInv
      <3> QED BY <1>5, <1>8, <2>1, <2>3, <3>2 DEF Later
    <2> QED BY <2>2, <2>3
  <1>10. RetTypes'
    BY <1>5, <1>7, <1>8 DEF RetTypes, Rt!Pairs, Rt!Over
  <1> QED BY <1>5, <1>7, <1>9, <1>10 DEF RetInv

LEMMA FailsStep ==
  ASSUME RetInv, NEW a \in DOMAIN ask, Rt!IndexFails(a) \/ Rt!QueryFails(a)
  PROVE  RetInv'
  <1>1. PICK x \in AskRecs \cup {Rt!Over} : x = Rt!Over
    OBVIOUS
  <1>2. /\ ask' = [ask EXCEPT ![a] = x] /\ AskOk(x) /\ x.pc \notin Inside
        /\ UNCHANGED <<points, chatRows, paid>>
    BY <1>1, NotUnderWay DEF Rt!IndexFails, Rt!QueryFails, Rt!Failed
  <1>3. CASE Rt!IndexFails(a)
    <2>1. ask[a].pc \in Inside /\ ask[a].pc # "upsert" /\ mu = a
      BY <1>3 DEF Rt!IndexFails, Rt!At, Inside, RetInv, MutexInv
    <2> QED BY <1>2, <2>1, MovesOn
  <1>4. CASE Rt!QueryFails(a)
    <2>1. ask[a].pc # "upsert" /\ mu' = mu
      BY <1>4 DEF Rt!QueryFails, Rt!At
    <2> QED BY <1>2, <2>1, MovesOn
  <1> QED BY <1>3, <1>4

LEMMA SearchStep ==
  ASSUME RetInv, NEW a \in DOMAIN ask, Rt!Search(a)
  PROVE  RetInv'
  <1>1. PICK y : y = ask[a]
    OBVIOUS
  <1>2. y.pc = "query" /\ y \in AskRecs /\ AskOk(y)
    BY <1>1, AskIs, ZenonT(40) DEF RetInv, Rt!Search, Rt!At
  <1>3. PICK hits \in Rt!Nearest(y.owner) :
          ask' = [ask EXCEPT ![a].pc = "answered", ![a].found = {p.row : p \in hits}]
    BY <1>1 DEF Rt!Search, Rt!Owner
  <1>4. hits \in SUBSET points /\ \A p \in hits : p.owner = y.owner
    BY <1>3 DEF Rt!Nearest, Rt!InScope
  <1>5. PICK f : f = {p.row : p \in hits}
    OBVIOUS
  <1>6. f \in SUBSET Nat /\ \A m \in f : Mine(y.owner, m)
    BY <1>4, <1>5 DEF RetInv, RetTypes, Points, PointInv
  <1>7. PICK x : x = [y EXCEPT !.pc = "answered", !.found = f]
    OBVIOUS
  <1>8. x \in AskRecs /\ x.pc = "answered" /\ x.found = f /\ x.seen = y.seen /\ x.owner = y.owner
    BY <1>2, <1>6, <1>7 DEF AskRecs
  <1>9. AskOk(x) /\ x.pc \notin Inside
    BY <1>2, <1>6, <1>8 DEF AskOk, Inside
  <1>10. ask' = [ask EXCEPT ![a] = x]
    BY <1>1, <1>3, <1>5, <1>7 DEF RetInv, RetTypes
  <1> QED BY <1>1, <1>2, <1>8, <1>9, <1>10, MovesOn DEF Rt!Search

LEMMA CallerGoneStep ==
  ASSUME RetInv, NEW a \in DOMAIN ask, Rt!CallerGone(a)
  PROVE  RetInv'
  <1>1. PICK y : y = ask[a]
    OBVIOUS
  <1>2. y.pc # "over" /\ y \in AskRecs /\ AskOk(y) /\ (y.pc \in Inside => mu = a)
    BY <1>1, AskIs DEF RetInv, Rt!CallerGone, MutexInv
  <1>3. PICK x : x = [y EXCEPT !.late = TRUE]
    OBVIOUS
  <1>4. /\ x \in AskRecs /\ x.pc = y.pc /\ x.found = y.found /\ x.seen = y.seen
        /\ x.owner = y.owner /\ x.todo = y.todo /\ x.batch = y.batch
    BY <1>2, <1>3 DEF AskRecs
  <1>5. AskOk(x)
    BY <1>2, <1>4 DEF AskOk
  <1>6. ask' = [ask EXCEPT ![a] = x] /\ UNCHANGED <<points, chatRows, paid, mu>>
    BY <1>1, <1>3 DEF Rt!CallerGone, RetInv, RetTypes
  <1> QED BY <1>1, <1>2, <1>4, <1>5, <1>6, MovesOn

LEMMA RetrieveStep ==
  ASSUME RetInv, NEW o \in Owners, Rt!Retrieve(o)
  PROVE  RetInv'
  <1>1. PICK x : x = [pc |-> "lock", owner |-> o, late |-> FALSE, todo |-> {}, batch |-> {},
                      seen |-> {}, found |-> {}]
    OBVIOUS
  <1>2. x \in AskRecs /\ x.pc = "lock" /\ x.seen = {}
    BY <1>1 DEF AskRecs
  <1>3. ask' = Append(ask, x) /\ UNCHANGED <<points, chatRows, paid, mu>>
    BY <1>1 DEF Rt!Retrieve
  <1>4. Later /\ PointInv' /\ points' \in SUBSET Points /\ chatRows' \in Seq(Messages)
    BY <1>3, Stays
  <1>5. PICK n \in Nat : n = Len(ask) + 1
    BY DEF RetInv, RetTypes
  <1>6. /\ ask' \in Seq(AskRecs \cup {Rt!Over}) /\ DOMAIN ask' = DOMAIN ask \cup {n}
        /\ ask'[n] = x /\ \A b \in DOMAIN ask : ask'[b] = ask[b]
    BY <1>2, <1>3, <1>5 DEF RetInv, RetTypes
  <1>7. MutexInv'
    BY <1>2, <1>3, <1>6 DEF RetInv, MutexInv, Inside
  <1>8. ASSUME NEW b \in DOMAIN ask'
        PROVE  AskOk(ask[b])'
    <2>1. CASE b \in DOMAIN ask
      <3>1. PICK y : y = ask[b]
        OBVIOUS
      <3>2. AskOk(y) /\ ask'[b] = y
        BY <1>6, <2>1, <3>1 DEF RetInv
      <3>3. AskOk(y)'
        BY <1>3, <1>4, <3>2, AskKept
      <3> QED BY <3>2, <3>3 DEF AskOk
    <2>2. CASE b = n
      BY <1>2, <1>6, <2>2 DEF AskOk
    <2> QED BY <1>6, <2>1, <2>2
  <1>9. PaidInv'
    BY <1>3, <1>4, <1>6, PaidKept DEF RetInv
  <1>10. RetTypes'
    BY <1>3, <1>4, <1>6 DEF RetInv, RetTypes, Rt!Pairs, Rt!Over
  <1> QED BY <1>4, <1>7, <1>8, <1>9, <1>10 DEF RetInv

\* Nothing happens to the requests, and rows and points stay.
LEMMA Idles ==
  ASSUME RetInv, Later, UNCHANGED <<ask, mu, points, paid>>, chatRows' \in Seq(Messages)
  PROVE  RetInv'
  <1>1. PointInv'
    BY DEF RetInv, PointInv, Later
  <1>2. MutexInv'
    BY DEF RetInv, MutexInv
  <1>3. ASSUME NEW b \in DOMAIN ask
        PROVE  AskOk(ask[b])'
    <2>1. PICK y : y = ask[b]
      OBVIOUS
    <2>2. AskOk(y)'
      BY <2>1, AskKept DEF RetInv
    <2> QED BY <2>1, <2>2 DEF AskOk
  <1>4. PaidInv'
    BY PaidKept DEF RetInv
  <1>5. RetTypes'
    BY DEF RetInv, RetTypes, Rt!Pairs, Rt!Over
  <1> QED BY <1>1, <1>2, <1>3, <1>4, <1>5 DEF RetInv

LEMMA StoreRowStep ==
  ASSUME RetInv, NEW r \in Messages, Rt!StoreRow(r)
  PROVE  RetInv'
  <1>1. chatRows' = Append(chatRows, r) /\ UNCHANGED <<ask, mu, points, paid>>
    BY DEF Rt!StoreRow
  <1>2. chatRows' \in Seq(Messages)
        /\ \A m \in DOMAIN chatRows : m \in DOMAIN chatRows' /\ chatRows'[m] = chatRows[m]
    BY <1>1 DEF RetInv, RetTypes
  <1>3. Later
    BY <1>1, <1>2 DEF Later, Mine, Stored
  <1> QED BY <1>1, <1>2, <1>3, Idles

LEMMA AgentRestartStep ==
  ASSUME RetInv, Rt!AgentRestart
  PROVE  RetInv'
  <1>1. /\ DOMAIN ask' = 1 .. Len(ask) /\ Len(ask) \in Nat
        /\ \A a \in 1 .. Len(ask) : ask'[a] = Rt!Over
        /\ ask' = [a \in 1 .. Len(ask) |-> Rt!Over]
        /\ points' \in SUBSET points /\ chatRows' = chatRows
        /\ paid' = [p \in Rt!Pairs |-> 0]
    BY DEF Rt!AgentRestart, Rt!Asks, RetInv, RetTypes
  <1>2. ask' \in Seq(AskRecs \cup {Rt!Over})
    BY <1>1
  <1>3. RetTypes'
    BY <1>1, <1>2 DEF RetInv, RetTypes, Rt!Pairs, Rt!Over
  <1>4. PointInv'
    BY <1>1 DEF RetInv, PointInv, Mine
  <1>5. MutexInv' /\ \A a \in DOMAIN ask' : AskOk(ask[a])'
    BY <1>1 DEF MutexInv, AskOk, Rt!Over, Inside
  <1>6. PaidInv'
    BY <1>1 DEF PaidInv, Rt!Pairs
  <1> QED BY <1>3, <1>4, <1>5, <1>6 DEF RetInv
-----------------------------------------------------------------------------
(* Retrieval: the theorem *)

LEMMA RetrievalInit ==
  ASSUME Rt!Init
  PROVE  RetInv
  <1>1. chatRows = <<>> /\ ask = <<>> /\ DOMAIN ask = {} /\ points = {}
        /\ paid = [p \in Rt!Pairs |-> 0]
    BY DEF Rt!Init
  <1>2. RetTypes
    BY <1>1 DEF RetTypes
  <1>3. PaidInv
    BY <1>1 DEF PaidInv
  <1> QED BY <1>1, <1>2, <1>3 DEF RetInv, PointInv, MutexInv

LEMMA RetrievalStep ==
  ASSUME RetInv, [Rt!Next]_ragVars
  PROVE  RetInv'
  <1>1. \A a \in Rt!Asks : a \in DOMAIN ask
    BY DEF RetInv, RetTypes, Rt!Asks
  <1>2. ASSUME NEW a \in DOMAIN ask, Rt!Step(a)
        PROVE  RetInv'
    BY <1>2, LockStep, LoadStep, PendingStep, UpsertStep, FailsStep, SearchStep, EmbedStep,
       UpsertFailsStep DEF Rt!Step
  <1>3. CASE UNCHANGED ragVars
    <2>1. UNCHANGED <<ask, mu, points, paid, chatRows>>
      BY <1>3 DEF ragVars
    <2>2. Later /\ chatRows' \in Seq(Messages)
      BY <2>1, Stays
    <2> QED BY <2>1, <2>2, Idles
  <1> QED BY <1>1, <1>2, <1>3, CallerGoneStep, RetrieveStep, StoreRowStep, AgentRestartStep
          DEF Rt!Next

\* An answer rests on the owner's own window and no stored row is embedded
\* again, for any number of owners, rows and simultaneous requests, any window,
\* batch and result size: Retriever.EnsureIndexed and Retrieve.
THEOREM RetrievalStands == Spec => []RetrievalSound
  <1> DEFINE Inv == part = "retrieval" => RetInv
  <1>1. Init => Inv
    BY RetrievalInit DEF Init
  <1>2. Inv /\ [Next]_allVars => Inv'
    <2> SUFFICES ASSUME Inv, [Next]_allVars, part' = "retrieval" PROVE RetInv'
      OBVIOUS
    <2>1. part = "retrieval" /\ [Rt!Next]_ragVars
      BY DEF Next, Steps, allVars
    <2> QED BY <2>1, RetrievalStep
  <1>3. RetInv => Rt!RetrievalSound
    <2> SUFFICES ASSUME RetInv PROVE Rt!RetrievalSound
      OBVIOUS
    <2>1. \A a \in Rt!Asks : a \in DOMAIN ask /\ AskOk(ask[a])
      BY DEF RetInv, RetTypes, Rt!Asks
    <2>2. Rt!EmbeddedOnce
      BY DEF RetInv, PaidInv, Rt!EmbeddedOnce
    <2>3. Rt!WindowIsIndexed
      <3> SUFFICES ASSUME NEW a \in Rt!Asks, ask[a].pc \in {"query", "answered"},
                          NEW m \in ask[a].seen
                   PROVE  \E p \in points : p.owner = ask[a].owner /\ p.row = m
        BY DEF Rt!WindowIsIndexed, Rt!Owner
      <3>1. PICK p \in points : p.key = <<ask[a].owner, m>>
        BY <2>1 DEF AskOk, Stored
      <3>2. p.key = <<p.owner, p.row>>
        BY DEF RetInv, PointInv
      <3> QED BY <3>1, <3>2
    <2>4. Rt!AnswerInScope
      BY <2>1 DEF AskOk, Mine, Rt!AnswerInScope, Rt!At, Rt!Owner
    <2> QED BY <2>2, <2>3, <2>4 DEF Rt!RetrievalSound
  <1>4. Inv => RetrievalSound
    BY <1>3 DEF RetrievalSound
  <1> QED BY <1>1, <1>2, <1>4, PTL DEF Spec

-----------------------------------------------------------------------------
(* MediaStore: the state *)

Upl ==
  [pc : {"create", "fill", "late", "over"}, name : Nat \X Randoms \X {"mp3", "bin"}, size : Bodies]

\* Where a link's file was stored, if the path told it.
LinkDir(l) ==
  /\ l.dir \in Ms!Dirs
  /\ ~ relative => l.dir = AbsoluteDir
  /\ relative /\ l.told => l.dir = ExeDir

\* Uploads have names of their own, and a link is a file of an upload that is over.
MediaInv ==
  /\ DOMAIN mediaFiles = Ms!Dirs /\ workDir \in WorkDirs
  /\ puts \in Seq(Upl)
  /\ nano \in Nat
  /\ \A u, v \in DOMAIN puts : puts[u].name = puts[v].name => u = v
  /\ \A l \in links :
       /\ LinkDir(l) /\ l.file \in mediaFiles[l.dir]
       /\ \E u \in DOMAIN puts : puts[u].pc = "over" /\ l.file.name = puts[u].name

-----------------------------------------------------------------------------
(* AvatarStore: the state *)

Imgs == Pictures \cup {Av!NoPicture, Av!Part}
AvatarFiles == [id : AvatarIds, ts : Nat, img : Imgs, nr : Nat]
Busy == [pc : {"list", "remove", "write"}, id : AvatarIds, img : Imgs, ts : Nat,
         old : SUBSET AvatarFiles, alone : BOOLEAN]
Done == [pc : {"over"}, id : AvatarIds]

Own(A, id) == {f \in A : f.id = id}
Live(r) == saves[r].pc # "over"
Alive == {r \in 1 .. Len(saves) : Live(r)}

\* The files of an id that bear no name of a failed upload.
Sure(A, id) == {f \in A : f.id = id /\ <<f.id, f.ts>> \notin suspect}

\* A name belongs to one file.
OneEach(A) == \A f, g \in A : f.id = g.id /\ f.ts = g.ts => f = g

\* The stored files, numbered as they were written.
FilesOk ==
  /\ avatars \subseteq AvatarFiles /\ IsFiniteSet(avatars) /\ OneEach(avatars)
  /\ writes \in Nat /\ \A f \in avatars : f.nr <= writes

\* What may still arrive is older than now, and bears the name of a failed upload.
LateOk == \A f \in late : f \in AvatarFiles /\ f.ts < second /\ <<f.id, f.ts>> \in suspect

AvTypes ==
  /\ saves \in Seq(Busy \cup Done)
  /\ second \in Nat
  /\ settled \in [AvatarIds -> (SUBSET AvatarFiles) \cup {Unsettled}]

\* A request lists files of its own id, and while it is the only one of its id it knows
\* them; nothing can then arrive under the name it writes.
AsksOk(r) ==
  /\ \A f \in saves[r].old : f.id = saves[r].id
  /\ OneEach(saves[r].old)
  /\ saves[r].alone => \A q \in Alive : saves[q].id = saves[r].id => q = r
  /\ saves[r].alone /\ saves[r].pc \in {"remove", "write"} =>
       Sure(saves[r].old, saves[r].id) = Sure(avatars, saves[r].id)
  /\ saves[r].alone /\ saves[r].pc = "write" =>
       \A f \in late : f.id = saves[r].id => f.ts < saves[r].ts

AsksInv == \A r \in Alive : AsksOk(r)

\* The files as new as f, and the requests that may write another and leave f.
Newer(f) == {g \in avatars \ leftover : g.id = f.id /\ g.nr >= f.nr}
Coming(f) ==
  {r \in 1 .. Len(saves) :
     saves[r].id = f.id
       /\ (saves[r].pc = "write" \/ (saves[r].pc = "remove" /\ \A g \in saves[r].old : g.ts # f.ts))}

\* They were all under way when f was written.
PileInv ==
  \A f \in avatars \ leftover : Cardinality(Newer(f)) + Cardinality(Coming(f)) <= MaxAtOnce

\* As long as requests for an id come one by one, its files are known.
SettledInv ==
  \A id \in AvatarIds :
    settled[id] # Unsettled /\ (\A r \in Alive : saves[r].id # id) => Sure(avatars, id) = settled[id]

\* An id has a file, or an upload that will write one.
RemainsInv ==
  \A id \in AvatarIds \ spoiled :
    Own(avatars, id) # {} \/ \E r \in Alive : saves[r].id = id /\ saves[r].img # Av!NoPicture

AvInv ==
  /\ AvTypes /\ FilesOk /\ LateOk /\ AsksInv /\ SettledInv /\ PileInv /\ RemainsInv
  /\ Cardinality(Alive) <= MaxAtOnce

-----------------------------------------------------------------------------
(* MediaStore: one step preserves the invariant *)

\* A file that is written takes away none of another name.
LEMMA PutKeeps ==
  ASSUME MediaInv, NEW f, Ms!Put(f)
  PROVE  /\ DOMAIN mediaFiles' = Ms!Dirs
         /\ \A l \in links : l.file.name # f.name => l.file \in mediaFiles'[l.dir]
         /\ Ms!ResolveDir \in Ms!Dirs /\ f \in mediaFiles'[Ms!ResolveDir]
  <1>1. Ms!ResolveDir \in Ms!Dirs /\ DOMAIN mediaFiles = Ms!Dirs
    BY DEF Ms!ResolveDir, Ms!Dirs, MediaInv
  <1>2. PICK d : d = Ms!ResolveDir
    OBVIOUS
  <1>3. PICK F : F = {g \in mediaFiles[d] : g.name # f.name} \cup {f}
    OBVIOUS
  <1>4. mediaFiles' = [mediaFiles EXCEPT ![d] = F]
    BY <1>2, <1>3 DEF Ms!Put
  <1>5. DOMAIN mediaFiles' = Ms!Dirs /\ mediaFiles'[d] = F /\ f \in F
        /\ \A e \in Ms!Dirs : e # d => mediaFiles'[e] = mediaFiles[e]
    BY <1>1, <1>2, <1>3, <1>4
  <1>6. ASSUME NEW l \in links, l.file.name # f.name PROVE l.file \in mediaFiles'[l.dir]
    <2>1. l.dir \in Ms!Dirs /\ l.file \in mediaFiles[l.dir]
      BY DEF MediaInv, LinkDir
    <2>2. l.dir = d => l.file \in F
      BY <1>3, <1>6, <2>1
    <2> QED BY <1>5, <2>1, <2>2
  <1> QED BY <1>1, <1>2, <1>5, <1>6

\* Uploads that are over stay so, with their names; the files of links are left.
LEMMA LinksStay ==
  ASSUME MediaInv, NEW u \in DOMAIN puts, NEW pc \in {"fill", "late", "over"}, puts[u].pc # "over",
         puts' = [puts EXCEPT ![u].pc = pc], UNCHANGED <<relative, workDir, nano>>,
         DOMAIN mediaFiles' = Ms!Dirs,
         \A l \in links : l.file.name # puts[u].name => l.file \in mediaFiles'[l.dir],
         \A l \in links' \ links : /\ l.file.name = puts[u].name /\ pc = "over"
                                   /\ LinkDir(l) /\ l.file \in mediaFiles'[l.dir]
  PROVE  MediaInv'
  <1>0. puts \in Seq(Upl)
    BY DEF MediaInv
  <1>1. puts \in Seq(Upl) /\ puts[u] \in Upl
    BY <1>0
  <1>2. PICK w : w = [puts[u] EXCEPT !.pc = pc]
    OBVIOUS
  <1>3. w \in Upl /\ w.pc = pc /\ w.name = puts[u].name
    BY <1>1, <1>2 DEF Upl
  <1>4. puts' = [puts EXCEPT ![u] = w]
    BY <1>1, <1>2
  <1>5. /\ puts' \in Seq(Upl) /\ DOMAIN puts' = DOMAIN puts /\ puts'[u] = w
        /\ \A v \in DOMAIN puts : v # u => puts'[v] = puts[v]
    BY <1>1, <1>3, <1>4
  <1>6. \A l : LinkDir(l)' <=> LinkDir(l)
    BY DEF LinkDir, Ms!Dirs
  <1>7. \A v \in DOMAIN puts : puts'[v].name = puts[v].name
    BY <1>3, <1>5
  <1>8. \A v, x \in DOMAIN puts' : puts'[v].name = puts'[x].name => v = x
    BY <1>5, <1>7 DEF MediaInv
  <1>9. \A l \in links : \E v \in DOMAIN puts :
          v # u /\ puts[v].pc = "over" /\ l.file.name = puts[v].name /\ l.file.name # puts[u].name
    <2> SUFFICES ASSUME NEW l \in links
                 PROVE  \E v \in DOMAIN puts : /\ v # u /\ puts[v].pc = "over"
                                               /\ l.file.name = puts[v].name
                                               /\ l.file.name # puts[u].name
      OBVIOUS
    <2>1. PICK v \in DOMAIN puts : puts[v].pc = "over" /\ l.file.name = puts[v].name
      BY DEF MediaInv
    <2>2. v # u
      BY <2>1
    <2>3. puts[v].name # puts[u].name
      BY <2>2 DEF MediaInv
    <2> QED BY <2>1, <2>2, <2>3
  <1>10. ASSUME NEW l \in links'
        PROVE  /\ LinkDir(l) /\ l.file \in mediaFiles'[l.dir]
               /\ \E v \in DOMAIN puts' : puts'[v].pc = "over" /\ l.file.name = puts'[v].name
    <2>1. CASE l \in links
      <3>1. LinkDir(l)
        BY <2>1 DEF MediaInv
      <3> QED BY <1>5, <1>9, <2>1, <3>1
    <2>2. CASE l \notin links
      BY <1>3, <1>5, <2>2
    <2> QED BY <2>1, <2>2
  <1>11. workDir' \in WorkDirs /\ nano' \in Nat
    BY DEF MediaInv
  <1>12. \A l \in links' : LinkDir(l)'
    BY <1>6, <1>10
  <1>13. Ms!Dirs' = Ms!Dirs
    BY DEF Ms!Dirs
  <1> QED BY <1>5, <1>8, <1>10, <1>11, <1>12, <1>13 DEF MediaInv

LEMMA MediaStep ==
  ASSUME MediaInv, Ms!Next \/ UNCHANGED mediaVars
  PROVE  MediaInv'
  <1>1. /\ puts \in Seq(Upl) /\ Len(puts) \in Nat /\ DOMAIN puts = 1 .. Len(puts)
        /\ nano \in Nat /\ workDir \in WorkDirs /\ DOMAIN mediaFiles = Ms!Dirs
        /\ \A l \in links : l.file \in mediaFiles[l.dir]
    BY DEF MediaInv
  <1>2. \A u \in DOMAIN puts : \A body : Ms!File(u, body).name = puts[u].name
    BY DEF Ms!File
  <1>3. CASE UNCHANGED mediaVars
    BY <1>3 DEF mediaVars, MediaInv, LinkDir, Ms!Dirs
  <1>4. ASSUME NEW n \in Bodies, NEW ext \in {"mp3", "exe"}, NEW rand \in Randoms,
               Ms!HandleUpload(n, ext, rand)
        PROVE  MediaInv'
    <2>1. PICK name : name = Ms!UniqueFilename(rand, ext)
      OBVIOUS
    <2>2. PICK w : w = [pc |-> "create", name |-> name, size |-> n]
      OBVIOUS
    <2>3. /\ puts' = Append(puts, w)
          /\ UNCHANGED <<relative, workDir, told, mediaFiles, nano, mediaErrors, links>>
      BY <1>4, <2>1, <2>2 DEF Ms!HandleUpload
    <2>4. name \in Nat \X Randoms \X {"mp3", "bin"} /\ name[1] = nano /\ name[2] = rand
      BY <1>1, <2>1 DEF Ms!UniqueFilename
    <2>5. w \in Upl /\ w.name = name
      BY <2>2, <2>4 DEF Upl
    <2>6. /\ puts' \in Seq(Upl) /\ DOMAIN puts' = DOMAIN puts \cup {Len(puts) + 1}
          /\ puts'[Len(puts) + 1] = w /\ \A v \in DOMAIN puts : puts'[v] = puts[v]
      BY <1>1, <2>3, <2>5
    <2>7. \A v \in DOMAIN puts : puts[v].name # name
      <3>1. \A v \in DOMAIN puts : puts[v].name[1] = nano => puts[v].name[2] # rand
        BY <1>1, <1>4 DEF Ms!HandleUpload, Ms!Draws, Ms!Puts
      <3> QED BY <2>4, <3>1
    <2>8. \A v, x \in DOMAIN puts' : puts'[v].name = puts'[x].name => v = x
      <3>1. \A v, x \in DOMAIN puts : puts[v].name = puts[x].name => v = x
        BY DEF MediaInv
      <3> QED BY <2>5, <2>6, <2>7, <3>1
    <2>9. \A l \in links : \E v \in DOMAIN puts' : puts'[v].pc = "over" /\ l.file.name = puts'[v].name
      BY <2>6 DEF MediaInv
    <2>10. \A l \in links : LinkDir(l)'
      BY <2>3 DEF MediaInv, LinkDir, Ms!Dirs
    <2>11. Ms!Dirs' = Ms!Dirs
      BY DEF Ms!Dirs
    <2> QED BY <1>1, <2>3, <2>6, <2>8, <2>9, <2>10, <2>11 DEF MediaInv
  <1>5. ASSUME NEW u \in 1 .. Len(puts), Ms!Create(u) PROVE MediaInv'
    <2>1. /\ puts[u].pc = "create" /\ puts' = [puts EXCEPT ![u].pc = "fill"]
          /\ UNCHANGED <<relative, workDir, nano, links>> /\ Ms!Put(Ms!File(u, <<>>))
      BY <1>5 DEF Ms!Create
    <2>2. PICK f : f = Ms!File(u, <<>>)
      OBVIOUS
    <2>3. f.name = puts[u].name /\ Ms!Put(f)
      BY <1>1, <1>2, <2>1, <2>2
    <2> QED BY <1>1, <2>1, <2>3, PutKeeps, LinksStay
  <1>6. ASSUME NEW u \in 1 .. Len(puts), Ms!Fill(u) PROVE MediaInv'
    <2>1. PICK f : f = Ms!Whole(u)
      OBVIOUS
    <2>2. PICK n : n = [file |-> f, dir |-> Ms!ResolveDir, told |-> told]
      OBVIOUS
    <2>3. /\ puts[u].pc = "fill" /\ puts' = [puts EXCEPT ![u].pc = "over"]
          /\ UNCHANGED <<relative, workDir, nano>> /\ links' = links \cup {n} /\ Ms!Put(f)
      BY <1>6, <2>1, <2>2 DEF Ms!Fill
    <2>4. f.name = puts[u].name
      BY <1>1, <1>2, <2>1 DEF Ms!Whole
    <2>5. /\ Ms!ResolveDir \in Ms!Dirs /\ f \in mediaFiles'[Ms!ResolveDir]
          /\ DOMAIN mediaFiles' = Ms!Dirs
          /\ \A l \in links : l.file.name # puts[u].name => l.file \in mediaFiles'[l.dir]
      BY <2>3, <2>4, PutKeeps
    <2>6. LinkDir(n) /\ n.file = f /\ n.dir = Ms!ResolveDir
      BY <2>2, <2>5 DEF LinkDir, Ms!ResolveDir
    <2> QED BY <1>1, <2>3, <2>4, <2>5, <2>6, LinksStay
  <1>7. ASSUME NEW u \in 1 .. Len(puts), Ms!WriteFails(u) PROVE MediaInv'
    <2>1. /\ puts[u].pc # "over" /\ UNCHANGED <<relative, workDir, nano, links>>
          /\ UNCHANGED mediaFiles \/ Ms!Put(Ms!Whole(u))
      BY <1>7 DEF Ms!WriteFails
    <2>2. \E pc \in {"over", "late"} : puts' = [puts EXCEPT ![u].pc = pc]
      BY <1>7 DEF Ms!WriteFails
    <2>3. PICK f : f = Ms!Whole(u)
      OBVIOUS
    <2>4. f.name = puts[u].name
      BY <1>1, <1>2, <2>3 DEF Ms!Whole
    <2>5. /\ DOMAIN mediaFiles' = Ms!Dirs
          /\ \A l \in links : l.file.name # puts[u].name => l.file \in mediaFiles'[l.dir]
      <3>1. CASE UNCHANGED mediaFiles
        BY <1>1, <3>1
      <3>2. CASE Ms!Put(f)
        BY <2>4, <3>2, PutKeeps
      <3> QED BY <2>1, <2>3, <3>1, <3>2
    <2> QED BY <1>1, <2>1, <2>2, <2>5, LinksStay
  <1>8. ASSUME NEW u \in 1 .. Len(puts), Ms!LatePut(u) PROVE MediaInv'
    <2>1. /\ puts[u].pc = "late" /\ puts' = [puts EXCEPT ![u].pc = "over"]
          /\ UNCHANGED <<relative, workDir, nano, links>> /\ Ms!Put(Ms!Whole(u))
      BY <1>8 DEF Ms!LatePut
    <2>2. PICK f : f = Ms!Whole(u)
      OBVIOUS
    <2>3. f.name = puts[u].name /\ Ms!Put(f)
      BY <1>1, <1>2, <2>1, <2>2 DEF Ms!Whole
    <2> QED BY <1>1, <2>1, <2>3, PutKeeps, LinksStay
  <1>9. CASE Ms!Tick
    <2>1. UNCHANGED <<relative, workDir, mediaFiles, puts, links>> /\ nano' = nano + 1
      BY <1>9 DEF Ms!Tick
    <2>2. nano' \in Nat
      BY <1>1, <2>1
    <2> QED BY <2>1, <2>2 DEF MediaInv, LinkDir, Ms!Dirs
  <1>10. CASE Ms!Restart
    <2>1. /\ UNCHANGED <<relative, mediaFiles, nano, links>> /\ workDir' \in WorkDirs
          /\ puts' = [u \in 1 .. Len(puts) |->
                        [puts[u] EXCEPT !.pc = IF @ = "late" THEN @ ELSE "over"]]
      BY <1>10 DEF Ms!Restart, Ms!Puts
    <2>2. ASSUME NEW u \in 1 .. Len(puts)
          PROVE  /\ puts'[u] \in Upl /\ puts'[u].name = puts[u].name
                 /\ puts[u].pc = "over" => puts'[u].pc = "over"
      <3>1. puts'[u] = [puts[u] EXCEPT !.pc = IF @ = "late" THEN @ ELSE "over"] /\ puts[u] \in Upl
        BY <1>1, <2>1
      <3> QED BY <3>1 DEF Upl
    <2>3. DOMAIN puts' = DOMAIN puts /\ puts' = [u \in 1 .. Len(puts) |-> puts'[u]]
      BY <1>1, <2>1
    <2>4. puts' \in Seq(Upl)
      BY <1>1, <2>2, <2>3
    <2>5. \A u, v \in DOMAIN puts' : puts'[u].name = puts'[v].name => u = v
      BY <1>1, <2>2, <2>3 DEF MediaInv
    <2>6. \A l \in links : \E v \in DOMAIN puts' : puts'[v].pc = "over" /\ l.file.name = puts'[v].name
      BY <1>1, <2>2, <2>3 DEF MediaInv
    <2>7. \A l \in links : LinkDir(l)'
      BY <2>1 DEF MediaInv, LinkDir, Ms!Dirs
    <2>8. Ms!Dirs' = Ms!Dirs
      BY DEF Ms!Dirs
    <2> QED BY <1>1, <2>1, <2>4, <2>5, <2>6, <2>7, <2>8 DEF MediaInv
  <1> QED BY <1>3, <1>4, <1>5, <1>6, <1>7, <1>8, <1>9, <1>10 DEF Ms!Next, Ms!Puts

-----------------------------------------------------------------------------
(* AvatarStore: what the steps of a request preserve *)

\* The sequence p is a, ended by bar.
Ended(p, a, C, bar) ==
  /\ p \in Seq(C \cup {bar}) /\ Len(p) = Len(a) + 1
  /\ \A i \in 1 .. Len(a) : p[i] = a[i]
  /\ p[Len(a) + 1] = bar

LEMMA EndedByBar ==
  ASSUME NEW C, NEW bar, NEW a \in Seq(C)
  PROVE  Ended(a \o <<bar>>, a, C, bar)
  <1>1. a \in Seq(C \cup {bar}) /\ <<bar>> \in Seq(C \cup {bar})
    OBVIOUS
  <1> QED BY <1>1 DEF Ended

\* A prefix that ends in "_" is the whole of an id and its "_".
LEMMA PrefixIsWhole ==
  ASSUME NEW C, NEW bar, bar \notin C, NEW a \in Seq(C), NEW b \in Seq(C), NEW p, NEW n,
         Ended(p, a, C, bar), Ended(n, b, C, bar)
  PROVE  (Len(p) <= Len(n) /\ SubSeq(n, 1, Len(p)) = p) <=> b = a
  <1>1. /\ Len(a) \in Nat /\ Len(b) \in Nat
        /\ p \in Seq(C \cup {bar}) /\ Len(p) = Len(a) + 1
        /\ n \in Seq(C \cup {bar}) /\ Len(n) = Len(b) + 1
        /\ \A i \in 1 .. Len(a) : p[i] = a[i]
        /\ \A i \in 1 .. Len(b) : n[i] = b[i] /\ b[i] \in C
        /\ p[Len(a) + 1] = bar /\ n[Len(b) + 1] = bar
    BY DEF Ended
  <1>2. ASSUME b = a PROVE Len(p) <= Len(n) /\ SubSeq(n, 1, Len(p)) = p
    <2>1. Len(p) = Len(n) /\ \A i \in 1 .. Len(n) : n[i] = p[i]
      BY <1>1, <1>2
    <2>2. SubSeq(n, 1, Len(p)) = [i \in 1 .. Len(p) |-> n[i]]
      BY <1>1, <2>1
    <2>3. p = [i \in 1 .. Len(p) |-> p[i]]
      BY <1>1
    <2>4. [i \in 1 .. Len(p) |-> n[i]] = [i \in 1 .. Len(p) |-> p[i]]
      BY <2>1
    <2>5. Len(p) <= Len(n)
      BY <1>1, <2>1
    <2> QED BY <2>2, <2>3, <2>4, <2>5, Zenon
  <1>3. ASSUME Len(p) <= Len(n), SubSeq(n, 1, Len(p)) = p PROVE b = a
    <2>1. \A i \in 1 .. Len(p) : n[i] = p[i]
      <3>1. SubSeq(n, 1, Len(p)) = [i \in 1 .. Len(p) |-> n[i]]
        BY <1>1, <1>3
      <3> QED BY <1>3, <3>1
    <2>2. n[Len(a) + 1] = bar
      BY <1>1, <2>1
    <2>3. Len(b) = Len(a)
      <3> SUFFICES ASSUME Len(a) + 1 <= Len(b) PROVE FALSE
        BY <1>1, <1>3
      <3>1. Len(a) + 1 \in 1 .. Len(b)
        BY <1>1
      <3>2. n[Len(a) + 1] \in C
        BY <1>1, <3>1
      <3> QED BY <2>2, <3>2
    <2>4. \A i \in 1 .. Len(a) : b[i] = a[i]
      BY <1>1, <2>1, <2>3
    <2> QED BY <2>3, <2>4
  <1> QED BY <1>2, <1>3

\* deleteFiles finds the files of its id, and of no id that the id is a prefix of.
LEMMA ListedAreOwn ==
  ASSUME FilesOk, NEW id \in AvatarIds
  PROVE  Av!Listed(id) = Own(avatars, id)
  <1>1. PICK bar, C : bar = "_" /\ bar \notin C /\ \A k \in AvatarIds : k \in Seq(C)
    <2>1. "_" \notin {"0", "1", "2", "3", "4", "5", "6", "7", "8", "9"}
      BY Zenon
    <2> QED BY <2>1, AvatarSettings, Zenon
  <1>2. \A f \in avatars : f.id \in AvatarIds
    BY DEF FilesOk, AvatarFiles
  <1>3. PICK p : p = id \o <<bar>>
    OBVIOUS
  <1>4. \A f \in avatars :
          (Len(p) <= Len(f.id \o <<bar>>) /\ SubSeq(f.id \o <<bar>>, 1, Len(p)) = p) <=> f.id = id
    <2> TAKE f \in avatars
    <2>1. PICK n : n = f.id \o <<bar>>
      OBVIOUS
    <2>2. bar \notin C /\ id \in Seq(C) /\ f.id \in Seq(C)
      BY <1>1, <1>2, Zenon
    <2>3. Ended(p, id, C, bar) /\ Ended(n, f.id, C, bar)
      BY <1>3, <2>1, <2>2, EndedByBar
    <2>4. (Len(p) <= Len(n) /\ SubSeq(n, 1, Len(p)) = p) <=> f.id = id
      BY <2>2, <2>3, PrefixIsWhole
    <2> QED BY <2>1, <2>4
  <1>5. Av!Listed(id) = {f \in avatars : Len(p) <= Len(f.id \o <<bar>>)
                                          /\ SubSeq(f.id \o <<bar>>, 1, Len(p)) = p}
    BY <1>1, <1>3, Zenon DEF Av!Listed, Av!AvatarPrefix
  <1> QED BY <1>4, <1>5 DEF Own

\* One request goes on: the types, the requests and what is settled, in whatever way its
\* step changes the files and the doubtful names of its own id.
LEMMA RequestGoesOn ==
  ASSUME AvInv, NEW r \in Alive, NEW w \in Busy \cup Done, saves' = [saves EXCEPT ![r] = w],
         w.id = saves[r].id, UNCHANGED second, FilesOk', LateOk',
         \A f \in late' \ late : f.id = w.id /\ w.pc = "over",
         \A id \in AvatarIds \ {w.id} : /\ Own(avatars', id) = Own(avatars, id)
                                        /\ Sure(avatars, id)' = Sure(avatars, id)
                                        /\ \A S \in SUBSET AvatarFiles : Sure(S, id)' = Sure(S, id),
         w.pc # "over" =>
           /\ UNCHANGED settled /\ w.alone = saves[r].alone
           /\ (\A f \in w.old : f.id = w.id) /\ OneEach(w.old)
           /\ w.alone /\ w.pc \in {"remove", "write"} => Sure(w.old, w.id)' = Sure(avatars, w.id)'
           /\ w.pc = "write" => \A f \in late : f.ts < w.ts,
         w.pc = "over" => \E t \in (SUBSET AvatarFiles) \cup {Unsettled} :
           /\ settled' = [settled EXCEPT ![w.id] = t]
           /\ t # Unsettled => Sure(avatars, w.id)' = t
  PROVE  /\ AvTypes' /\ AsksInv' /\ SettledInv' /\ Cardinality(Alive') <= MaxAtOnce
         /\ Len(saves') = Len(saves) /\ saves'[r] = w
         /\ \A q \in 1 .. Len(saves) : q # r => saves'[q] = saves[q]
  <1>1. AvTypes /\ AsksInv /\ SettledInv /\ Cardinality(Alive) <= MaxAtOnce
    BY DEF AvInv
  <1>2. saves \in Seq(Busy \cup Done) /\ r \in 1 .. Len(saves) /\ Live(r)
    BY <1>1 DEF AvTypes, Alive
  <1>3. /\ saves' \in Seq(Busy \cup Done) /\ Len(saves') = Len(saves) /\ saves'[r] = w
        /\ \A q \in 1 .. Len(saves) : q # r => saves'[q] = saves[q]
    BY <1>2
  <1>4. Alive' \subseteq Alive /\ (w.pc # "over" => r \in Alive') /\ Alive \ {r} \subseteq Alive'
    BY <1>2, <1>3 DEF Alive, Live
  <1>5. w.id \in AvatarIds
    BY DEF Busy, Done
  <1>6. AvTypes'
    <2>1. settled' \in [AvatarIds -> (SUBSET AvatarFiles) \cup {Unsettled}]
      BY <1>1, <1>5 DEF AvTypes
    <2> QED BY <1>1, <1>3, <2>1 DEF AvTypes
  <1>7. ASSUME NEW q \in Alive' PROVE AsksOk(q)'
    <2>1. q \in Alive /\ AsksOk(q)
      BY <1>1, <1>4, <1>7 DEF AsksInv
    <2>2. CASE q = r
      <3>1. w.pc # "over" /\ saves'[q] = w
        BY <1>2, <1>3, <1>7, <2>2 DEF Alive, Live
      <3>2. saves[r].alone => \A x \in Alive : saves[x].id = w.id => x = r
        BY <2>1, <2>2 DEF AsksOk
      <3>3. \A x \in Alive' : x \in Alive /\ saves'[x].id = saves[x].id
        BY <1>2, <1>3, <1>4 DEF Alive
      <3>4. w.pc = "write" => \A f \in late' : f.ts < w.ts
        BY <3>1
      <3>5. /\ \A f \in w.old : f.id = w.id
            /\ OneEach(w.old)
            /\ w.alone => \A x \in Alive' : saves'[x].id = w.id => x = r
            /\ w.alone /\ w.pc \in {"remove", "write"} => Sure(w.old, w.id)' = Sure(avatars, w.id)'
            /\ w.alone /\ w.pc = "write" => \A f \in late' : f.id = w.id => f.ts < w.ts
        BY <3>1, <3>2, <3>3, <3>4
      <3> QED BY <2>2, <3>1, <3>5 DEF AsksOk, OneEach, Sure
    <2>3. CASE q # r
      <3>1. saves'[q] = saves[q] /\ saves[q].id \in AvatarIds /\ saves[q].old \in SUBSET AvatarFiles
        <4>1. q \in 1 .. Len(saves) /\ saves[q].pc # "over"
          BY <2>1 DEF Alive, Live
        <4>2. saves[q] \in Busy \cup Done
          BY <1>2, <4>1
        <4> QED BY <1>3, <2>3, <4>1, <4>2 DEF Busy, Done
      <3>2. \A x \in Alive' : x \in Alive /\ saves'[x].id = saves[x].id
        BY <1>2, <1>3, <1>4 DEF Alive
      <3>3. saves[q].alone => saves[q].id # w.id
        BY <2>1, <2>3 DEF AsksOk
      <3>4. PICK o, i, al, ts, pc : o = saves[q].old /\ i = saves[q].id /\ al = saves[q].alone
                                    /\ ts = saves[q].ts /\ pc = saves[q].pc
        OBVIOUS
      <3>5. /\ \A f \in o : f.id = i
            /\ OneEach(o)
            /\ al => \A x \in Alive : saves[x].id = i => x = q
            /\ al /\ pc \in {"remove", "write"} => Sure(o, i) = Sure(avatars, i)
            /\ al /\ pc = "write" => \A f \in late : f.id = i => f.ts < ts
        BY <2>1, <3>4 DEF AsksOk
      <3>6. al => /\ Sure(avatars, i)' = Sure(avatars, i) /\ Sure(o, i)' = Sure(o, i)
                  /\ \A f \in late' : f.id = i => f \in late
        <4>1. i \in AvatarIds /\ o \in SUBSET AvatarFiles /\ (al => i # w.id)
          BY <3>1, <3>3, <3>4
        <4> QED BY <4>1
      <3>7. /\ \A f \in o : f.id = i
            /\ OneEach(o)
            /\ al => \A x \in Alive' : saves'[x].id = i => x = q
            /\ al /\ pc \in {"remove", "write"} => Sure(o, i)' = Sure(avatars, i)'
            /\ al /\ pc = "write" => \A f \in late' : f.id = i => f.ts < ts
        BY <3>2, <3>5, <3>6
      <3>8. /\ saves'[q].old = o /\ saves'[q].id = i /\ saves'[q].alone = al
            /\ saves'[q].ts = ts /\ saves'[q].pc = pc
        BY <3>1, <3>4
      <3> QED BY <3>7, <3>8 DEF AsksOk, OneEach, Sure
    <2> QED BY <2>2, <2>3
  <1>8. SettledInv'
    <2> SUFFICES ASSUME NEW id \in AvatarIds, settled'[id] # Unsettled,
                        \A x \in Alive' : saves'[x].id # id
                 PROVE  Sure(avatars, id)' = settled'[id]
      BY DEF SettledInv, Sure
    <2>1. CASE id = w.id
      <3>1. w.pc = "over"
        BY <1>3, <1>4, <2>1
      <3>2. PICK t : settled' = [settled EXCEPT ![w.id] = t] /\ (t # Unsettled => Sure(avatars, w.id)' = t)
        BY <3>1
      <3>3. settled'[id] = t
        BY <1>1, <1>5, <2>1, <3>2 DEF AvTypes
      <3> QED BY <2>1, <3>2, <3>3 DEF Sure
    <2>2. CASE id # w.id
      <3>1. settled'[id] = settled[id]
        BY <1>1, <1>5, <2>2 DEF AvTypes
      <3>2. \A x \in Alive : saves[x].id # id
        <4> TAKE x \in Alive
        <4>1. CASE x = r
          BY <2>2, <4>1
        <4>2. CASE x # r
          BY <1>3, <1>4, <4>2 DEF Alive
        <4> QED BY <4>1, <4>2
      <3>3. Sure(avatars, id) = settled[id]
        BY <1>1, <3>1, <3>2 DEF SettledInv
      <3> QED BY <2>2, <3>1, <3>3
    <2> QED BY <2>1, <2>2
  <1>9. Cardinality(Alive') <= MaxAtOnce
    <2>1. IsFiniteSet(Alive)
      <3>1. Alive \in SUBSET (1 .. Len(saves)) /\ Len(saves) \in Nat
        BY <1>2 DEF Alive
      <3>2. IsFiniteSet(1 .. Len(saves))
        BY <3>1, FS_Interval
      <3> QED BY <3>1, <3>2, FS_Subset, Zenon
    <2>2. Cardinality(Alive') <= Cardinality(Alive) /\ IsFiniteSet(Alive')
      <3> DEFINE T == Alive'
      <3>1. T \in SUBSET Alive
        BY <1>4
      <3> HIDE DEF T
      <3>2. Cardinality(T) <= Cardinality(Alive) /\ IsFiniteSet(T)
        BY <2>1, <3>1, FS_Subset, Zenon
      <3> QED BY <3>2 DEF T
    <2>3. Cardinality(Alive) \in Nat /\ Cardinality(Alive') \in Nat
      BY <2>1, <2>2, FS_CardinalityType, Zenon
    <2> QED BY <1>1, <2>2, <2>3, AvatarSettings
  <1> QED BY <1>3, <1>6, <1>7, <1>8, <1>9 DEF AsksInv

\* A step of one request: its id is spoiled, or has a file, or the request will write one.
LEMMA SomethingRemains ==
  ASSUME AvInv, NEW r \in Alive, NEW w \in Busy \cup Done, Len(saves') = Len(saves), saves'[r] = w,
         \A q \in 1 .. Len(saves) : q # r => saves'[q] = saves[q],
         w.id = saves[r].id,
         \A id \in AvatarIds \ {w.id} : /\ Own(avatars', id) = Own(avatars, id)
                                        /\ id \in spoiled' <=> id \in spoiled,
         \/ w.id \in spoiled'
         \/ Own(avatars', w.id) # {}
         \/ w.pc # "over" /\ w.img # Av!NoPicture
         \/ w.pc # "over" /\ w.img = saves[r].img /\ UNCHANGED <<avatars, spoiled>>
  PROVE  RemainsInv'
  <1>1. r \in 1 .. Len(saves) /\ Live(r) /\ RemainsInv
    BY DEF Alive, AvInv
  <1>2. \A q \in Alive : q # r => q \in Alive' /\ saves'[q] = saves[q]
    BY DEF Alive, Live
  <1>3. w.pc # "over" => r \in Alive'
    BY <1>1 DEF Alive, Live
  <1> SUFFICES ASSUME NEW id \in AvatarIds, id \notin spoiled'
               PROVE  \/ Own(avatars', id) # {}
                      \/ \E q \in Alive' : saves'[q].id = id /\ saves'[q].img # Av!NoPicture
    BY DEF RemainsInv, Own
  <1>4. CASE id # w.id
    <2>1. Own(avatars, id) # {} \/ \E q \in Alive : saves[q].id = id /\ saves[q].img # Av!NoPicture
      BY <1>1, <1>4 DEF RemainsInv
    <2>2. CASE Own(avatars, id) # {}
      BY <1>4, <2>2
    <2>3. ASSUME NEW q \in Alive, saves[q].id = id, saves[q].img # Av!NoPicture
          PROVE  \E x \in Alive' : saves'[x].id = id /\ saves'[x].img # Av!NoPicture
      BY <1>2, <1>4, <2>3
    <2> QED BY <2>1, <2>2, <2>3
  <1>5. CASE id = w.id
    <2>1. CASE Own(avatars', w.id) # {}
      BY <1>5, <2>1
    <2>2. CASE w.pc # "over" /\ w.img # Av!NoPicture
      BY <1>3, <1>5, <2>2
    <2>3. CASE w.pc # "over" /\ w.img = saves[r].img /\ UNCHANGED <<avatars, spoiled>>
      <3>1. Own(avatars, id) # {} \/ \E q \in Alive : saves[q].id = id /\ saves[q].img # Av!NoPicture
        BY <1>1, <2>3 DEF RemainsInv
      <3>2. CASE Own(avatars, id) # {}
        BY <2>3, <3>2 DEF Own
      <3>3. ASSUME NEW q \in Alive, saves[q].id = id, saves[q].img # Av!NoPicture
            PROVE  \E x \in Alive' : saves'[x].id = id /\ saves'[x].img # Av!NoPicture
        <4>1. CASE q = r
          BY <1>3, <1>5, <2>3, <3>3, <4>1
        <4>2. CASE q # r
          BY <1>2, <3>3, <4>2
        <4> QED BY <4>1, <4>2
      <3> QED BY <3>1, <3>2, <3>3
    <2> QED BY <1>5, <2>1, <2>2, <2>3
  <1> QED BY <1>4, <1>5

\* Sets of requests and of files are finite, and smaller ones count less.
LEMMA Smaller ==
  ASSUME NEW S, NEW T, IsFiniteSet(S), T \subseteq S
  PROVE  /\ IsFiniteSet(T) /\ Cardinality(S) \in Nat /\ Cardinality(T) \in Nat
         /\ Cardinality(T) <= Cardinality(S)
  <1>1. T \in SUBSET S
    OBVIOUS
  <1>2. IsFiniteSet(T) /\ Cardinality(T) <= Cardinality(S)
    BY <1>1, FS_Subset, Zenon
  <1> QED BY <1>2, FS_CardinalityType, Zenon

LEMMA Finite ==
  ASSUME AvTypes, FilesOk
  PROVE  /\ IsFiniteSet(Alive)
         /\ \A f : IsFiniteSet(Newer(f)) /\ IsFiniteSet(Coming(f)) /\ Coming(f) \subseteq Alive
  <1>1. Len(saves) \in Nat
    BY DEF AvTypes
  <1>2. IsFiniteSet(1 .. Len(saves))
    BY <1>1, FS_Interval
  <1>3. Alive \subseteq 1 .. Len(saves)
    BY DEF Alive
  <1>4. IsFiniteSet(Alive)
    BY <1>2, <1>3, Smaller, Zenon
  <1>5. \A f : Coming(f) \subseteq Alive
    BY DEF Coming, Alive, Live
  <1>6. \A f : Newer(f) \subseteq avatars
    BY DEF Newer
  <1>7. IsFiniteSet(avatars)
    BY DEF FilesOk
  <1> QED BY <1>4, <1>5, <1>6, <1>7, Smaller, Zenon

\* A file for which neither set grows.
LEMMA PileStays ==
  ASSUME AvTypes, FilesOk, PileInv, NEW f \in avatars \ leftover,
         Newer(f)' \subseteq Newer(f), Coming(f)' \subseteq Coming(f)
  PROVE  Cardinality(Newer(f)') + Cardinality(Coming(f)') <= MaxAtOnce
  <1>1. PICK A, B, C, D : A = Newer(f) /\ B = Newer(f)' /\ C = Coming(f) /\ D = Coming(f)'
    OBVIOUS
  <1>2. IsFiniteSet(A) /\ IsFiniteSet(C) /\ B \subseteq A /\ D \subseteq C
    BY <1>1, Finite
  <1>3. /\ Cardinality(A) \in Nat /\ Cardinality(B) \in Nat /\ Cardinality(B) <= Cardinality(A)
        /\ Cardinality(C) \in Nat /\ Cardinality(D) \in Nat /\ Cardinality(D) <= Cardinality(C)
    BY <1>2, Smaller
  <1>4. Cardinality(A) + Cardinality(C) <= MaxAtOnce
    BY <1>1 DEF PileInv
  <1>5. Cardinality(B) + Cardinality(D) <= MaxAtOnce
    BY <1>3, <1>4, AvatarSettings
  <1> QED BY <1>1, <1>5

\* A file that is stored takes the place of the one with its name.
LEMMA StoreKeeps ==
  ASSUME FilesOk, NEW n \in AvatarFiles, n.nr = writes + 1, Av!Store(n)
  PROVE  /\ FilesOk' /\ avatars' = {g \in avatars : ~(g.id = n.id /\ g.ts = n.ts)} \cup {n}
         /\ \A id : id # n.id => Own(avatars', id) = Own(avatars, id)
  <1>1. avatars' = {g \in avatars : ~(g.id = n.id /\ g.ts = n.ts)} \cup {n} /\ writes' = writes + 1
    BY DEF Av!Store, Av!SameName
  <1>2. IsFiniteSet(avatars')
    <2>1. PICK S : S = {g \in avatars : ~(g.id = n.id /\ g.ts = n.ts)}
      OBVIOUS
    <2>2. IsFiniteSet(S)
      BY <2>1, Smaller DEF FilesOk
    <2>3. IsFiniteSet(S \cup {n})
      BY <2>2, FS_AddElement
    <2> QED BY <1>1, <2>1, <2>3
  <1>3. avatars' \subseteq AvatarFiles /\ OneEach(avatars')
    BY <1>1 DEF FilesOk, OneEach
  <1>4. writes \in Nat /\ \A f \in avatars : f.nr \in Nat /\ f.nr <= writes
    BY DEF FilesOk, AvatarFiles
  <1>5. writes' \in Nat /\ \A f \in avatars : f.nr <= writes'
    BY <1>1, <1>4
  <1>6. n.nr <= writes'
    BY <1>1, <1>4
  <1>7. \A f \in avatars' : f.nr <= writes'
    BY <1>1, <1>5, <1>6
  <1>8. \A id : id # n.id => Own(avatars', id) = Own(avatars, id)
    BY <1>1 DEF Own
  <1> QED BY <1>1, <1>2, <1>3, <1>5, <1>7, <1>8 DEF FilesOk, OneEach

-----------------------------------------------------------------------------
(* AvatarStore: one step preserves the invariant *)

\* A request comes in.
LEMMA BeginStep ==
  ASSUME AvInv, NEW new \in Busy \cup Done, Av!Begin(new),
         new.pc # "over" => /\ new.pc = "list" /\ new.old = {}
                            /\ new.alone => \A q \in Alive : saves[q].id # new.id
  PROVE  AvInv'
  <1>1. /\ AvTypes /\ FilesOk /\ LateOk /\ AsksInv /\ SettledInv /\ PileInv /\ RemainsInv
        /\ Cardinality(Alive) <= MaxAtOnce
    BY DEF AvInv
  <1>2. PICK n \in Nat : n = Len(saves)
    BY <1>1 DEF AvTypes
  <1>3. PICK s : s = [r \in 1 .. n |-> IF r \in Av!Others(new.id) /\ new.pc # "over"
                                       THEN [saves[r] EXCEPT !.alone = FALSE] ELSE saves[r]]
    OBVIOUS
  <1>4. /\ saves' = Append(s, new)
        /\ UNCHANGED <<avatars, second, late, diskErrors, settled, spoiled, suspect, leftover, writes>>
    BY <1>2, <1>3 DEF Av!Begin, Av!Requests
  <1>5. Cardinality(Alive) < MaxAtOnce
    <2>1. \A S : Av!Cardinality(S) = Cardinality(S)
      BY DEF Av!Cardinality, Cardinality
    <2>2. Alive = {r \in Av!Requests : Av!Active(r)}
      BY DEF Alive, Live, Av!Requests, Av!Active
    <2> QED BY <2>1, <2>2 DEF Av!Begin
  <1>6. ASSUME NEW r \in 1 .. n
        PROVE  /\ s[r] \in Busy \cup Done /\ s[r].pc = saves[r].pc /\ s[r].id = saves[r].id
               /\ saves[r].pc # "over" =>
                    /\ s[r].old = saves[r].old /\ s[r].ts = saves[r].ts /\ s[r].img = saves[r].img
                    /\ s[r].alone => saves[r].alone /\ (new.pc # "over" => saves[r].id # new.id)
    <2>1. saves[r] \in Busy \cup Done
      BY <1>1, <1>2 DEF AvTypes
    <2>2. CASE r \in Av!Others(new.id) /\ new.pc # "over"
      <3>1. s[r] = [saves[r] EXCEPT !.alone = FALSE] /\ saves[r].pc # "over"
        BY <1>3, <2>2 DEF Av!Others, Av!Active
      <3>2. saves[r] \in Busy
        BY <2>1, <3>1 DEF Done
      <3> QED BY <3>1, <3>2 DEF Busy
    <2>3. CASE ~(r \in Av!Others(new.id) /\ new.pc # "over")
      <3>1. s[r] = saves[r]
        BY <1>3, <2>3
      <3>2. saves[r].pc # "over" => (new.pc # "over" => saves[r].id # new.id)
        BY <1>2, <2>3 DEF Av!Others, Av!Active, Av!Requests
      <3> QED BY <2>1, <3>1, <3>2
    <2> QED BY <2>2, <2>3
  <1>7. /\ saves' \in Seq(Busy \cup Done) /\ Len(saves') = n + 1 /\ saves'[n + 1] = new
        /\ \A r \in 1 .. n : saves'[r] = s[r]
    <2>1. DOMAIN s = 1 .. n /\ s = [r \in 1 .. n |-> s[r]]
      BY <1>3
    <2>2. s \in Seq(Busy \cup Done) /\ Len(s) = n
      BY <1>6, <2>1
    <2> QED BY <1>4, <2>2
  <1>8. /\ Alive \subseteq Alive' /\ Alive' \subseteq Alive \cup {n + 1}
        /\ n + 1 \in Alive' <=> new.pc # "over"
        /\ \A r \in Alive : r \in 1 .. n /\ saves[r].pc # "over"
    BY <1>2, <1>6, <1>7 DEF Alive, Live
  <1>9. AvTypes' /\ FilesOk' /\ LateOk'
    BY <1>1, <1>4, <1>7 DEF AvTypes, FilesOk, LateOk, OneEach
  <1>10. ASSUME NEW q \in Alive' PROVE AsksOk(q)'
    <2>1. CASE q = n + 1
      <3>1. saves'[q] = new /\ new.pc = "list" /\ new.old = {}
        BY <1>7, <1>8, <1>10, <2>1
      <3>2. new.alone => \A x \in Alive' : saves'[x].id = new.id => x = q
        BY <1>6, <1>7, <1>8, <2>1, <3>1, ZenonT(40)
      <3> QED BY <3>1, <3>2 DEF AsksOk, OneEach
    <2>2. CASE q # n + 1
      <3>1. q \in Alive /\ q \in 1 .. n /\ saves[q].pc # "over" /\ AsksOk(q)
        BY <1>1, <1>8, <1>10, <2>2 DEF AsksInv
      <3>2. /\ saves'[q].pc = saves[q].pc /\ saves'[q].id = saves[q].id
            /\ saves'[q].old = saves[q].old /\ saves'[q].ts = saves[q].ts
            /\ saves'[q].alone => saves[q].alone /\ (new.pc # "over" => saves[q].id # new.id)
        BY <1>6, <1>7, <3>1
      <3>3. ASSUME saves'[q].alone, NEW x \in Alive', saves'[x].id = saves'[q].id PROVE x = q
        <4>1. x # n + 1
          BY <1>7, <1>8, <3>2, <3>3
        <4>2. x \in Alive /\ saves'[x].id = saves[x].id
          BY <1>6, <1>7, <1>8, <4>1
        <4> QED BY <3>1, <3>2, <3>3, <4>2 DEF AsksOk
      <3> QED BY <1>4, <3>1, <3>2, <3>3 DEF AsksOk, OneEach, Sure
    <2> QED BY <2>1, <2>2
  <1>11. SettledInv' /\ RemainsInv'
    <2>1. \A x \in Alive : x \in Alive' /\ saves'[x].id = saves[x].id /\ saves'[x].img = saves[x].img
      BY <1>6, <1>7, <1>8
    <2>2. SettledInv'
      BY <1>1, <1>4, <2>1 DEF SettledInv, Sure
    <2>3. RemainsInv'
      <3> SUFFICES ASSUME NEW id \in AvatarIds \ spoiled
                   PROVE  \/ Own(avatars, id) # {}
                          \/ \E x \in Alive' : saves'[x].id = id /\ saves'[x].img # Av!NoPicture
        BY <1>4 DEF RemainsInv, Own
      <3> QED BY <1>1, <2>1 DEF RemainsInv
    <2> QED BY <2>2, <2>3
  <1>12. PileInv'
    <2> SUFFICES ASSUME NEW f \in avatars \ leftover
                 PROVE  Cardinality(Newer(f)') + Cardinality(Coming(f)') <= MaxAtOnce
      BY <1>4 DEF PileInv
    <2>1. Newer(f)' = Newer(f)
      BY <1>4 DEF Newer
    <2>2. Coming(f)' \subseteq Coming(f)
      <3> SUFFICES ASSUME NEW x \in Coming(f)' PROVE x \in Coming(f)
        OBVIOUS
      <3>1. x \in 1 .. n + 1 /\ saves'[x].pc \in {"write", "remove"}
        BY <1>7 DEF Coming
      <3>2. x # n + 1
        BY <1>7, <3>1
      <3>3. x \in 1 .. n
        BY <1>2, <3>1, <3>2
      <3>4. /\ saves'[x].pc = saves[x].pc /\ saves'[x].id = saves[x].id
            /\ saves'[x].old = saves[x].old
        BY <1>6, <1>7, <3>1, <3>3
      <3> QED BY <1>2, <3>3, <3>4 DEF Coming
    <2> QED BY <1>1, <2>1, <2>2, PileStays
  <1>13. Cardinality(Alive') <= MaxAtOnce
    <2>1. IsFiniteSet(Alive)
      BY <1>1, Finite
    <2>2. PICK S, T : S = Alive \cup {n + 1} /\ T = Alive'
      OBVIOUS
    <2>3. IsFiniteSet(S) /\ (Cardinality(S) = Cardinality(Alive) \/ Cardinality(S) = Cardinality(Alive) + 1)
      BY <2>1, <2>2, FS_AddElement
    <2>4. T \subseteq S
      BY <1>8, <2>2
    <2>5. Cardinality(T) \in Nat /\ Cardinality(S) \in Nat /\ Cardinality(T) <= Cardinality(S)
      BY <2>3, <2>4, Smaller
    <2>6. Cardinality(Alive) \in Nat
      BY <2>1, FS_CardinalityType
    <2>7. Cardinality(T) <= MaxAtOnce
      BY <1>5, <2>3, <2>5, <2>6, AvatarSettings
    <2> QED BY <2>2, <2>7
  <1> QED BY <1>9, <1>10, <1>11, <1>12, <1>13 DEF AvInv, AsksInv

\* A request that is under way, and its record.
LEMMA Underway ==
  ASSUME AvTypes, NEW r \in Alive
  PROVE  r \in 1 .. Len(saves) /\ saves[r] \in Busy /\ saves[r].id \in AvatarIds
  <1>1. r \in 1 .. Len(saves) /\ saves[r].pc # "over"
    BY DEF Alive, Live
  <1>2. saves[r] \in Busy \cup Done
    BY <1>1 DEF AvTypes
  <1> QED BY <1>1, <1>2 DEF Busy, Done

\* ReadDir, or ListObjects.
LEMMA ListStep ==
  ASSUME AvInv, NEW r \in Alive, Av!List(r)
  PROVE  AvInv'
  <1>1. AvTypes /\ FilesOk /\ LateOk /\ AsksInv /\ PileInv
    BY DEF AvInv
  <1>2. r \in 1 .. Len(saves) /\ saves[r] \in Busy /\ saves[r].id \in AvatarIds
    BY <1>1, Underway
  <1>3. PICK F : F = Own(avatars, saves[r].id)
    OBVIOUS
  <1>4. PICK w : w = [saves[r] EXCEPT !.pc = "remove", !.old = F]
    OBVIOUS
  <1>5. /\ saves[r].pc = "list" /\ saves' = [saves EXCEPT ![r] = w]
        /\ UNCHANGED <<avatars, second, late, diskErrors, settled, spoiled, suspect, leftover, writes>>
    <2>1. Av!Listed(saves[r].id) = F
      BY <1>1, <1>2, <1>3, ListedAreOwn
    <2>2. /\ saves[r].pc = "list"
          /\ saves' = [saves EXCEPT ![r].pc = "remove", ![r].old = F]
          /\ UNCHANGED <<avatars, second, late, diskErrors, settled, spoiled, suspect, leftover, writes>>
      BY <2>1 DEF Av!List, Av!At
    <2> QED BY <1>1, <1>2, <1>4, <2>2 DEF AvTypes
  <1>6. F \subseteq AvatarFiles /\ OneEach(F) /\ \A f \in F : f.id = saves[r].id
    BY <1>1, <1>3 DEF Own, FilesOk, OneEach
  <1>7. /\ w \in Busy \cup Done /\ w.pc = "remove" /\ w.id = saves[r].id /\ w.old = F
        /\ w.alone = saves[r].alone /\ w.img = saves[r].img
    BY <1>2, <1>4, <1>6 DEF Busy
  <1>8. FilesOk' /\ LateOk'
    BY <1>1, <1>5 DEF FilesOk, LateOk, OneEach
  <1>9. /\ \A id : Own(avatars', id) = Own(avatars, id) /\ Sure(avatars, id)' = Sure(avatars, id)
        /\ \A id, S : Sure(S, id)' = Sure(S, id)
    BY <1>5 DEF Own, Sure
  <1>10. Sure(w.old, w.id)' = Sure(avatars, w.id)'
    <2>1. Sure(F, w.id)' = Sure(avatars, w.id)'
      BY <1>3, <1>5, <1>7 DEF Sure, Own
    <2> QED BY <1>7, <2>1 DEF Sure
  <1>11. /\ AvTypes' /\ AsksInv' /\ SettledInv' /\ Cardinality(Alive') <= MaxAtOnce
         /\ Len(saves') = Len(saves) /\ saves'[r] = w
         /\ \A q \in 1 .. Len(saves) : q # r => saves'[q] = saves[q]
    <2>1. (\A f \in w.old : f.id = w.id) /\ OneEach(w.old)
      BY <1>6, <1>7
    <2>2. late' \ late = {} /\ UNCHANGED <<second, settled>>
      BY <1>5
    <2> QED BY <1>5, <1>7, <1>8, <1>9, <1>10, <2>1, <2>2, RequestGoesOn
  <1>12. RemainsInv'
    <2>1. w.pc # "over" /\ UNCHANGED <<avatars, spoiled>>
      BY <1>5, <1>7
    <2> QED BY <1>5, <1>7, <1>9, <1>11, <2>1, SomethingRemains
  <1>13. PileInv'
    <2> SUFFICES ASSUME NEW f \in avatars \ leftover
                 PROVE  Cardinality(Newer(f)') + Cardinality(Coming(f)') <= MaxAtOnce
      BY <1>5 DEF PileInv
    <2>1. Newer(f)' = Newer(f)
      BY <1>5 DEF Newer
    <2>2. f.id = saves[r].id => f \in F
      BY <1>3 DEF Own
    <2>3. Coming(f)' \subseteq Coming(f)
      BY <1>7, <1>11, <2>2 DEF Coming
    <2> QED BY <1>1, <2>1, <2>3, PileStays
  <1> QED BY <1>8, <1>11, <1>12, <1>13 DEF AvInv

\* Remove, or RemoveObject, of each name that was listed.
LEMMA RemoveStep ==
  ASSUME AvInv, NEW r \in Alive, NEW kept \in SUBSET saves[r].old, Av!RemoveFiles(r, kept)
  PROVE  AvInv'
  <1>1. AvTypes /\ FilesOk /\ LateOk /\ AsksInv /\ PileInv /\ AsksOk(r)
    BY DEF AvInv, AsksInv
  <1>2. r \in 1 .. Len(saves) /\ saves[r] \in Busy /\ saves[r].id \in AvatarIds
    BY <1>1, Underway
  <1>3. PICK o, i : o = saves[r].old /\ i = saves[r].id
    OBVIOUS
  <1>4. PICK gone : gone = {f \in avatars : \E g \in o \ kept : f.id = g.id /\ f.ts = g.ts}
    OBVIOUS
  <1>5. PICK stay : stay = {f \in avatars : \E g \in kept : f.id = g.id /\ f.ts = g.ts}
    OBVIOUS
  <1>6. /\ saves[r].pc = "remove" /\ avatars' = avatars \ gone
        /\ leftover' = (leftover \ gone) \cup stay /\ UNCHANGED <<second, late, suspect, writes>>
    BY <1>3, <1>4, <1>5 DEF Av!RemoveFiles, Av!At, Av!Named, Av!SameName
  <1>7. /\ kept \subseteq o /\ o \subseteq AvatarFiles /\ OneEach(o) /\ \A f \in o : f.id = i
    BY <1>1, <1>2, <1>3 DEF AsksOk, Busy
  <1>8. FilesOk' /\ LateOk'
    <2>1. IsFiniteSet(avatars) /\ avatars' \subseteq avatars
      BY <1>1, <1>6 DEF FilesOk
    <2>2. IsFiniteSet(avatars')
      <3> DEFINE T == avatars'
      <3>1. T \subseteq avatars
        BY <2>1
      <3> HIDE DEF T
      <3>2. IsFiniteSet(T)
        BY <2>1, <3>1, Smaller, Zenon
      <3> QED BY <3>2 DEF T
    <2>3. OneEach(avatars')
      BY <1>1, <2>1 DEF FilesOk, OneEach
    <2>4. FilesOk'
      BY <1>1, <1>6, <2>1, <2>2, <2>3 DEF FilesOk, OneEach
    <2>5. LateOk'
      BY <1>1, <1>6 DEF LateOk
    <2> QED BY <2>4, <2>5
  <1>9. \A id \in AvatarIds \ {i} : /\ Own(avatars', id) = Own(avatars, id)
                                    /\ Sure(avatars, id)' = Sure(avatars, id)
    BY <1>4, <1>6, <1>7 DEF Own, Sure
  <1>10. \A id, S : Sure(S, id)' = Sure(S, id)
    BY <1>6 DEF Sure
  <1>11. saves[r].alone => Sure(kept, i)' = Sure(avatars, i)'
    <2> SUFFICES ASSUME saves[r].alone PROVE Sure(kept, i)' = Sure(avatars, i)'
      OBVIOUS
    <2>1. Sure(o, i) = Sure(avatars, i)
      BY <1>1, <1>3, <1>6 DEF AsksOk
    <2>2. ASSUME NEW f \in kept, f.id = i, <<f.id, f.ts>> \notin suspect PROVE f \in avatars \ gone
      <3>1. f \in avatars
        BY <1>7, <2>1, <2>2 DEF Sure
      <3>2. f \notin gone
        BY <1>4, <1>7, <2>2 DEF OneEach
      <3> QED BY <3>1, <3>2
    <2>3. ASSUME NEW f \in avatars \ gone, f.id = i, <<f.id, f.ts>> \notin suspect PROVE f \in kept
      <3>1. f \in o
        BY <2>1, <2>3 DEF Sure
      <3> QED BY <1>4, <2>3, <3>1
    <2>4. {f \in kept : f.id = i /\ <<f.id, f.ts>> \notin suspect}
            = {f \in avatars \ gone : f.id = i /\ <<f.id, f.ts>> \notin suspect}
      BY <2>2, <2>3
    <2> QED BY <1>6, <2>4 DEF Sure
  <1>12. PICK w \in Busy \cup Done :
           /\ saves' = [saves EXCEPT ![r] = w] /\ w.id = i
           /\ w.pc \in {"write", "over"}
           /\ AvTypes' /\ AsksInv' /\ SettledInv' /\ RemainsInv' /\ Cardinality(Alive') <= MaxAtOnce
           /\ Len(saves') = Len(saves) /\ saves'[r] = w
           /\ \A q \in 1 .. Len(saves) : q # r => saves'[q] = saves[q]
    <2>1. CASE saves[r].img = Av!NoPicture
      <3>1. PICK w : w = [pc |-> "over", id |-> i]
        OBVIOUS
      <3>2. /\ saves' = [saves EXCEPT ![r] = w] /\ Av!Settle(r, kept)
            /\ spoiled' = spoiled \cup {i}
        BY <1>2, <1>3, <2>1, <3>1 DEF Av!RemoveFiles, Av!Over
      <3>3. w \in Busy \cup Done /\ w.pc = "over" /\ w.id = i
        BY <1>2, <1>3, <3>1 DEF Done
      <3>4. PICK t : t = IF saves[r].alone THEN {f \in kept : <<f.id, f.ts>> \notin suspect'} ELSE Unsettled
        OBVIOUS
      <3>5. t \in (SUBSET AvatarFiles) \cup {Unsettled} /\ settled' = [settled EXCEPT ![w.id] = t]
        BY <1>3, <1>7, <3>2, <3>3, <3>4 DEF Av!Settle, Av!Name
      <3>6. saves[r].alone => Sure(kept, i)' = t
        BY <1>7, <3>4 DEF Sure
      <3>7. t # Unsettled => Sure(avatars, w.id)' = t
        BY <1>11, <3>3, <3>4, <3>6 DEF Sure
      <3>8. w.id = saves[r].id /\ late' \ late = {} /\ UNCHANGED second
        BY <1>3, <1>6, <3>3
      <3>9. /\ AvTypes' /\ AsksInv' /\ SettledInv' /\ Cardinality(Alive') <= MaxAtOnce
            /\ Len(saves') = Len(saves) /\ saves'[r] = w
            /\ \A q \in 1 .. Len(saves) : q # r => saves'[q] = saves[q]
        BY <1>8, <1>9, <1>10, <3>2, <3>3, <3>5, <3>7, <3>8, RequestGoesOn
      <3>10. w.id \in spoiled' /\ \A id \in AvatarIds \ {w.id} : id \in spoiled' <=> id \in spoiled
        BY <3>2, <3>3
      <3>11. RemainsInv'
        BY <1>9, <3>3, <3>8, <3>9, <3>10, SomethingRemains
      <3> QED BY <3>2, <3>3, <3>9, <3>11
    <2>2. CASE saves[r].img # Av!NoPicture
      <3>1. PICK w : w = [saves[r] EXCEPT !.pc = "write", !.ts = second, !.old = kept]
        OBVIOUS
      <3>2. saves' = [saves EXCEPT ![r] = w] /\ UNCHANGED <<settled, spoiled>>
        <4>1. /\ saves' = [saves EXCEPT ![r].pc = "write", ![r].ts = second, ![r].old = kept]
              /\ UNCHANGED <<settled, spoiled>>
          BY <2>2 DEF Av!RemoveFiles
        <4> QED BY <1>1, <1>2, <3>1, <4>1 DEF AvTypes
      <3>3. /\ w \in Busy \cup Done /\ w.pc = "write" /\ w.id = i /\ w.old = kept /\ w.ts = second
            /\ w.alone = saves[r].alone /\ w.img # Av!NoPicture
        <4>1. kept \in SUBSET AvatarFiles /\ second \in Nat
          BY <1>1, <1>7 DEF AvTypes
        <4> QED BY <1>2, <1>3, <2>2, <3>1, <4>1 DEF Busy
      <3>4. (\A f \in w.old : f.id = w.id) /\ OneEach(w.old)
        BY <1>7, <3>3 DEF OneEach
      <3>5. w.alone => Sure(w.old, w.id)' = Sure(avatars, w.id)'
        BY <1>11, <3>3 DEF Sure
      <3>6. \A f \in late : f.ts < w.ts
        BY <1>1, <3>3 DEF LateOk
      <3>7. w.id = saves[r].id /\ late' \ late = {} /\ UNCHANGED second /\ w.pc # "over"
        BY <1>3, <1>6, <3>3
      <3>8. /\ AvTypes' /\ AsksInv' /\ SettledInv' /\ Cardinality(Alive') <= MaxAtOnce
            /\ Len(saves') = Len(saves) /\ saves'[r] = w
            /\ \A q \in 1 .. Len(saves) : q # r => saves'[q] = saves[q]
        BY <1>8, <1>9, <1>10, <3>2, <3>3, <3>4, <3>5, <3>6, <3>7, RequestGoesOn
      <3>9. RemainsInv'
        BY <1>9, <3>2, <3>3, <3>7, <3>8, SomethingRemains
      <3> QED BY <3>2, <3>3, <3>8, <3>9
    <2> QED BY <2>1, <2>2
  <1>13. PileInv'
    <2> SUFFICES ASSUME NEW f \in (avatars \ leftover)'
                 PROVE  Cardinality(Newer(f)') + Cardinality(Coming(f)') <= MaxAtOnce
      BY DEF PileInv
    <2>1. f \in avatars \ leftover /\ (f.id = i => \A g \in o : g.ts # f.ts)
      BY <1>4, <1>5, <1>6, <1>7
    <2>2. Newer(f)' \subseteq Newer(f)
      BY <1>6 DEF Newer
    <2>3. Coming(f)' \subseteq Coming(f)
      <3> SUFFICES ASSUME NEW x \in Coming(f)' PROVE x \in Coming(f)
        OBVIOUS
      <3>1. CASE x = r
        BY <1>2, <1>3, <1>6, <1>12, <2>1, <3>1 DEF Coming
      <3>2. CASE x # r
        BY <1>12, <3>2 DEF Coming
      <3> QED BY <3>1, <3>2
    <2> QED BY <1>1, <2>1, <2>2, <2>3, PileStays
  <1> QED BY <1>8, <1>12, <1>13 DEF AvInv

\* The pile when a request has written its file.
LEMMA PileOfWriter ==
  ASSUME AvInv, NEW r \in Alive, saves[r].pc = "write", UNCHANGED leftover,
         \A f : Coming(f)' \subseteq Coming(f) \ {r},
         NEW n \in AvatarFiles, n.id = saves[r].id, n.nr = writes + 1,
         avatars' = {g \in avatars : ~(g.id = n.id /\ g.ts = n.ts)} \cup {n}
  PROVE  PileInv'
  <1>1. AvTypes /\ FilesOk /\ PileInv
    BY DEF AvInv
  <1> SUFFICES ASSUME NEW f \in (avatars \ leftover)'
               PROVE  Cardinality(Newer(f)') + Cardinality(Coming(f)') <= MaxAtOnce
    BY DEF PileInv
  <1>2. CASE f = n
    <2>1. PICK B, D : B = Newer(f)' /\ D = Coming(f)'
      OBVIOUS
    <2>2. B \subseteq {n}
      <3>1. \A g \in avatars : g.nr \in Nat /\ g.nr <= writes /\ writes \in Nat
        BY <1>1 DEF FilesOk, AvatarFiles
      <3>2. \A g \in avatars : ~(g.nr >= writes + 1)
        BY <3>1
      <3>3. \A g \in B : g \in avatars' /\ g.nr >= writes + 1
        BY <1>2, <2>1 DEF Newer
      <3> QED BY <3>2, <3>3
    <2>3. IsFiniteSet({n}) /\ Cardinality({n}) = 1
      BY FS_Singleton
    <2>4. Cardinality(B) \in Nat /\ Cardinality(B) <= 1
      BY <2>2, <2>3, Smaller
    <2>5. IsFiniteSet(Alive) /\ D \subseteq Alive \ {r}
      <3>1. IsFiniteSet(Alive) /\ Coming(f) \subseteq Alive
        BY <1>1, Finite
      <3> QED BY <2>1, <3>1
    <2>6. /\ IsFiniteSet(Alive \ {r}) /\ Cardinality(Alive \ {r}) = Cardinality(Alive) - 1
          /\ Cardinality(Alive) \in Nat
      BY <2>5, FS_RemoveElement, FS_CardinalityType
    <2>7. Cardinality(D) \in Nat /\ Cardinality(D) <= Cardinality(Alive \ {r})
      BY <2>5, <2>6, Smaller
    <2>8. Cardinality(Alive) <= MaxAtOnce
      BY DEF AvInv
    <2>9. Cardinality(B) + Cardinality(D) <= MaxAtOnce
      BY <2>4, <2>6, <2>7, <2>8, AvatarSettings
    <2> QED BY <2>1, <2>9
  <1>3. CASE f # n
    <2>1. f \in avatars \ leftover
      BY <1>3
    <2>2. CASE f.id # n.id
      <3>1. Newer(f)' \subseteq Newer(f)
        BY <2>2 DEF Newer
      <3>2. Coming(f)' \subseteq Coming(f)
        OBVIOUS
      <3> QED BY <1>1, <2>1, <3>1, <3>2, PileStays
    <2>3. CASE f.id = n.id
      <3>1. PICK A, B, C, D : A = Newer(f) /\ B = Newer(f)' /\ C = Coming(f) /\ D = Coming(f)'
        OBVIOUS
      <3>2. IsFiniteSet(A) /\ IsFiniteSet(C) /\ D \subseteq C \ {r}
        BY <1>1, <3>1, Finite
      <3>3. B \subseteq A \cup {n}
        BY <3>1 DEF Newer
      <3>4. r \in C
        BY <2>3, <3>1 DEF Coming, Alive
      <3>5. /\ IsFiniteSet(A \cup {n}) /\ Cardinality(A) \in Nat
            /\ Cardinality(A \cup {n}) = Cardinality(A)
               \/ Cardinality(A \cup {n}) = Cardinality(A) + 1
        BY <3>2, FS_AddElement, FS_CardinalityType
      <3>6. IsFiniteSet(C \ {r}) /\ Cardinality(C \ {r}) = Cardinality(C) - 1 /\ Cardinality(C) \in Nat
        BY <3>2, <3>4, FS_RemoveElement, FS_CardinalityType
      <3>7. Cardinality(B) \in Nat /\ Cardinality(B) <= Cardinality(A \cup {n})
        BY <3>3, <3>5, Smaller
      <3>8. Cardinality(D) \in Nat /\ Cardinality(D) <= Cardinality(C \ {r})
        BY <3>2, <3>6, Smaller
      <3>9. Cardinality(A) + Cardinality(C) <= MaxAtOnce
        BY <1>1, <2>1, <3>1 DEF PileInv
      <3>10. Cardinality(B) + Cardinality(D) <= MaxAtOnce
        BY <3>5, <3>6, <3>7, <3>8, <3>9, AvatarSettings
      <3> QED BY <3>1, <3>10
    <2> QED BY <2>2, <2>3
  <1> QED BY <1>2, <1>3

\* A request ends: F is what it leaves to its id, and only files and names of its id change.
LEMMA RequestEnds ==
  ASSUME AvInv, NEW r \in Alive, saves[r].pc = "write", Av!Over(r), UNCHANGED <<second, leftover>>,
         FilesOk', LateOk', \A f \in late' \ late : f.id = saves[r].id,
         UNCHANGED avatars \/ \E n \in AvatarFiles :
           /\ n.id = saves[r].id /\ n.nr = writes + 1
           /\ avatars' = {g \in avatars : ~(g.id = n.id /\ g.ts = n.ts)} \cup {n},
         NEW F \in SUBSET AvatarFiles, Av!Settle(r, F), \A f \in F : f.id = saves[r].id,
         saves[r].alone => \A f : f.id = saves[r].id /\ <<f.id, f.ts>> \notin suspect' =>
                                    (f \in F <=> f \in avatars'),
         \A a, b : a # saves[r].id => (<<a, b>> \in suspect' <=> <<a, b>> \in suspect),
         \A id \in AvatarIds \ {saves[r].id} : id \in spoiled' <=> id \in spoiled,
         saves[r].id \in spoiled' \/ Own(avatars', saves[r].id) # {}
  PROVE  AvInv'
  <1>1. AvTypes /\ FilesOk /\ PileInv
    BY DEF AvInv
  <1>2. r \in 1 .. Len(saves) /\ saves[r] \in Busy /\ saves[r].id \in AvatarIds
    BY <1>1, Underway
  <1>3. PICK i : i = saves[r].id
    OBVIOUS
  <1>4. PICK w : w = [pc |-> "over", id |-> i]
    OBVIOUS
  <1>5. w \in Busy \cup Done /\ w.pc = "over" /\ w.id = i
    BY <1>2, <1>3, <1>4 DEF Done
  <1>6. saves' = [saves EXCEPT ![r] = w]
    BY <1>2, <1>3, <1>4 DEF Av!Over
  <1>7. \A id : id # i => Own(avatars', id) = Own(avatars, id)
    BY <1>3 DEF Own
  <1>8. \A id, S : id # i => Sure(S, id)' = Sure(S, id)
    BY <1>3 DEF Sure
  <1>9. \A id : id # i => Sure(avatars, id)' = Sure(avatars, id)
    <2> SUFFICES ASSUME NEW id, id # i PROVE Sure(avatars, id)' = Sure(avatars, id)
      OBVIOUS
    <2>1. \A f : f.id = id => (f \in avatars' <=> f \in avatars)
      BY <1>7 DEF Own
    <2>2. \A f : f.id = id => (<<f.id, f.ts>> \in suspect' <=> <<f.id, f.ts>> \in suspect)
      BY <1>3
    <2> QED BY <2>1, <2>2 DEF Sure
  <1>10. PICK t : t = IF saves[r].alone THEN {f \in F : <<f.id, f.ts>> \notin suspect'} ELSE Unsettled
    OBVIOUS
  <1>11. t \in (SUBSET AvatarFiles) \cup {Unsettled} /\ settled' = [settled EXCEPT ![w.id] = t]
    BY <1>3, <1>5, <1>10 DEF Av!Settle, Av!Name
  <1>12. t # Unsettled => Sure(avatars, w.id)' = t
    <2> SUFFICES ASSUME t # Unsettled PROVE Sure(avatars, w.id)' = t
      OBVIOUS
    <2>1. saves[r].alone /\ t = {f \in F : <<f.id, f.ts>> \notin suspect'}
      BY <1>10
    <2>2. {f \in avatars' : f.id = i /\ <<f.id, f.ts>> \notin suspect'} = t
      BY <1>3, <2>1
    <2> QED BY <1>5, <2>2 DEF Sure
  <1>13. w.id = saves[r].id /\ \A f \in late' \ late : f.id = w.id
    BY <1>3, <1>5
  <1>14. /\ \A id \in AvatarIds \ {w.id} : /\ Own(avatars', id) = Own(avatars, id)
                                           /\ Sure(avatars, id)' = Sure(avatars, id)
                                           /\ \A S \in SUBSET AvatarFiles : Sure(S, id)' = Sure(S, id)
    BY <1>5, <1>7, <1>8, <1>9
  <1>15. /\ AvTypes' /\ AsksInv' /\ SettledInv' /\ Cardinality(Alive') <= MaxAtOnce
         /\ Len(saves') = Len(saves) /\ saves'[r] = w
         /\ \A q \in 1 .. Len(saves) : q # r => saves'[q] = saves[q]
    BY <1>5, <1>6, <1>11, <1>12, <1>13, <1>14, RequestGoesOn
  <1>16. RemainsInv'
    BY <1>3, <1>5, <1>13, <1>14, <1>15, SomethingRemains
  <1>17. \A f : Coming(f)' \subseteq Coming(f) \ {r}
    BY <1>5, <1>15 DEF Coming
  <1>18. PileInv'
    <2>1. CASE UNCHANGED avatars
      <3> SUFFICES ASSUME NEW f \in avatars \ leftover
                   PROVE  Cardinality(Newer(f)') + Cardinality(Coming(f)') <= MaxAtOnce
        BY <2>1 DEF PileInv
      <3>1. Newer(f)' \subseteq Newer(f) /\ Coming(f)' \subseteq Coming(f)
        BY <1>17, <2>1 DEF Newer
      <3> QED BY <1>1, <3>1, PileStays
    <2>2. CASE ~ UNCHANGED avatars
      <3>1. PICK n \in AvatarFiles :
              /\ n.id = saves[r].id /\ n.nr = writes + 1
              /\ avatars' = {g \in avatars : ~(g.id = n.id /\ g.ts = n.ts)} \cup {n}
        BY <2>2
      <3> QED BY <1>17, <3>1, PileOfWriter
    <2> QED BY <2>1, <2>2
  <1> QED BY <1>15, <1>16, <1>18 DEF AvInv

\* WriteFile, or PutObject.
LEMMA WriteStep ==
  ASSUME AvInv, NEW r \in Alive, Av!Write(r) \/ Av!WriteFails(r) \/ Av!PutTimesOut(r)
  PROVE  AvInv'
  <1>1. AvTypes /\ FilesOk /\ LateOk /\ AsksOk(r)
    BY DEF AvInv, AsksInv
  <1>2. r \in 1 .. Len(saves) /\ saves[r] \in Busy /\ saves[r].id \in AvatarIds
    BY <1>1, Underway
  <1>3. /\ saves[r].pc = "write" /\ Av!Over(r) /\ UNCHANGED <<second, leftover>>
    BY DEF Av!Write, Av!WriteFails, Av!PutTimesOut, Av!Failed, Av!At
  <1>4. PICK i, o, ts : i = saves[r].id /\ o = saves[r].old /\ ts = saves[r].ts
    OBVIOUS
  <1>5. i \in AvatarIds /\ o \subseteq AvatarFiles /\ ts \in Nat /\ \A f \in o : f.id = i
    BY <1>1, <1>2, <1>4 DEF Busy, AsksOk
  <1>6. PICK K : K = {f \in o : f.ts # ts}
    OBVIOUS
  <1>7. K = Av!Kept(r) /\ K \in SUBSET AvatarFiles /\ \A f \in K : f.id = i
    BY <1>4, <1>5, <1>6 DEF Av!Kept
  <1>8. saves[r].alone => \A f : f.id = i /\ <<f.id, f.ts>> \notin suspect => (f \in o <=> f \in avatars)
    BY <1>1, <1>3, <1>4 DEF AsksOk, Sure
  <1>9. \A img \in Imgs : \A k \in Nat :
          /\ Av!NewFile(r, img, k) \in AvatarFiles
          /\ Av!NewFile(r, img, k).id = i /\ Av!NewFile(r, img, k).ts = ts
          /\ Av!NewFile(r, img, k).nr = k
    BY <1>4, <1>5 DEF Av!NewFile, AvatarFiles
  <1>10. saves[r].img \in Imgs /\ Av!Part \in Imgs /\ writes + 1 \in Nat
    BY <1>1, <1>2 DEF Busy, Imgs, FilesOk
  <1>11. CASE Av!Write(r)
    <2>1. PICK n : n = Av!NewFile(r, saves[r].img, writes + 1)
      OBVIOUS
    <2>2. n \in AvatarFiles /\ n.id = i /\ n.ts = ts /\ n.nr = writes + 1
      BY <1>9, <1>10, <2>1
    <2>3. /\ Av!Store(n) /\ Av!Settle(r, {n} \cup K) /\ spoiled' = spoiled \ {i} /\ UNCHANGED late
          /\ suspect' = IF saves[r].alone THEN suspect \ {<<n.id, n.ts>>} ELSE suspect
      BY <1>4, <1>7, <1>11, <2>1 DEF Av!Write, Av!Name
    <2>4. /\ FilesOk' /\ avatars' = {g \in avatars : ~(g.id = n.id /\ g.ts = n.ts)} \cup {n}
      BY <1>1, <2>2, <2>3, StoreKeeps
    <2>5. LateOk'
      <3> SUFFICES ASSUME NEW f \in late PROVE <<f.id, f.ts>> \in suspect'
        BY <1>1, <1>3, <2>3 DEF LateOk
      <3>1. f \in AvatarFiles /\ <<f.id, f.ts>> \in suspect
        BY <1>1 DEF LateOk
      <3>2. CASE ~ saves[r].alone
        BY <2>3, <3>1, <3>2
      <3>3. CASE saves[r].alone
        <4>1. f.id = i => f.ts < ts
          BY <1>1, <1>3, <1>4, <3>3 DEF AsksOk
        <4>2. f.ts \in Nat
          BY <3>1 DEF AvatarFiles
        <4>3. f.id = i => f.ts # ts
          BY <1>5, <4>1, <4>2
        <4>4. <<f.id, f.ts>> # <<n.id, n.ts>>
          BY <2>2, <4>3
        <4> QED BY <2>3, <3>1, <3>3, <4>4
      <3> QED BY <3>2, <3>3
    <2>6. PICK F : F = {n} \cup K
      OBVIOUS
    <2>7. F \in SUBSET AvatarFiles /\ Av!Settle(r, F) /\ \A f \in F : f.id = i
      BY <1>7, <2>2, <2>3, <2>6
    <2>8. saves[r].alone => \A f : f.id = i /\ <<f.id, f.ts>> \notin suspect' => (f \in F <=> f \in avatars')
      <3> SUFFICES ASSUME saves[r].alone, NEW f, f.id = i, <<f.id, f.ts>> \notin suspect'
                   PROVE  f \in F <=> f \in avatars'
        OBVIOUS
      <3>1. CASE f = n
        BY <2>4, <2>6, <3>1
      <3>2. CASE f # n /\ f.ts = ts
        BY <1>6, <2>2, <2>4, <2>6, <3>2
      <3>3. CASE f.ts # ts
        <4>1. <<f.id, f.ts>> # <<n.id, n.ts>>
          BY <2>2, <3>3
        <4>2. <<f.id, f.ts>> \notin suspect
          BY <2>3, <4>1
        <4>3. f \in o <=> f \in avatars
          BY <1>8, <4>2
        <4> QED BY <1>6, <2>2, <2>4, <2>6, <3>3, <4>3
      <3> QED BY <3>1, <3>2, <3>3
    <2>9. \A a, b : a # i => (<<a, b>> \in suspect' <=> <<a, b>> \in suspect)
      <3>1. \A a, b : a # i => <<a, b>> # <<n.id, n.ts>>
        BY <2>2
      <3> QED BY <2>3, <3>1
    <2>10. n \in avatars' /\ Own(avatars', i) # {}
      BY <2>2, <2>4 DEF Own
    <2> QED BY <1>3, <1>4, <2>2, <2>3, <2>4, <2>5, <2>7, <2>8, <2>9, <2>10, RequestEnds
  <1>12. CASE Av!WriteFails(r) \/ Av!PutTimesOut(r)
    <2>1. /\ Av!Settle(r, K) /\ spoiled' = spoiled \cup {i} /\ suspect' = suspect \cup {<<i, ts>>}
      BY <1>4, <1>7, <1>12 DEF Av!WriteFails, Av!PutTimesOut, Av!Failed
    <2>2. \/ UNCHANGED <<avatars, writes>>
          \/ \E img \in Imgs : Av!Store(Av!NewFile(r, img, writes + 1))
      BY <1>10, <1>12 DEF Av!WriteFails, Av!PutTimesOut
    <2>3. /\ FilesOk'
          /\ UNCHANGED avatars \/ \E n \in AvatarFiles :
               /\ n.id = i /\ n.ts = ts /\ n.nr = writes + 1
               /\ avatars' = {g \in avatars : ~(g.id = n.id /\ g.ts = n.ts)} \cup {n}
      <3>1. CASE UNCHANGED <<avatars, writes>>
        BY <1>1, <3>1 DEF FilesOk, OneEach
      <3>2. ASSUME NEW img \in Imgs, Av!Store(Av!NewFile(r, img, writes + 1))
            PROVE  FilesOk' /\ \E n \in AvatarFiles :
                     /\ n.id = i /\ n.ts = ts /\ n.nr = writes + 1
                     /\ avatars' = {g \in avatars : ~(g.id = n.id /\ g.ts = n.ts)} \cup {n}
        <4>1. PICK n : n = Av!NewFile(r, img, writes + 1)
          OBVIOUS
        <4>2. n \in AvatarFiles /\ n.id = i /\ n.ts = ts /\ n.nr = writes + 1 /\ Av!Store(n)
          BY <1>9, <1>10, <3>2, <4>1
        <4> QED BY <1>1, <4>2, StoreKeeps
      <3> QED BY <2>2, <3>1, <3>2
    <2>4. \A f \in late' \ late : f \in AvatarFiles /\ f.id = i /\ f.ts = ts /\ ts < second
      <3>1. CASE Av!WriteFails(r)
        BY <3>1 DEF Av!WriteFails
      <3>2. CASE Av!PutTimesOut(r)
        <4>1. late' = late \cup {Av!NewFile(r, saves[r].img, 0)} /\ ts < second
          BY <1>4, <3>2 DEF Av!PutTimesOut
        <4> QED BY <1>9, <1>10, <4>1
      <3> QED BY <1>12, <3>1, <3>2
    <2>5. LateOk'
      <3> SUFFICES ASSUME NEW f \in late'
                   PROVE  f \in AvatarFiles /\ f.ts < second /\ <<f.id, f.ts>> \in suspect'
        BY <1>3 DEF LateOk
      <3>1. CASE f \in late
        BY <1>1, <2>1, <3>1 DEF LateOk
      <3>2. CASE f \notin late
        BY <2>1, <2>4, <3>2
      <3> QED BY <3>1, <3>2
    <2>6. saves[r].alone => \A f : f.id = i /\ <<f.id, f.ts>> \notin suspect' => (f \in K <=> f \in avatars')
      <3> SUFFICES ASSUME saves[r].alone, NEW f, f.id = i, <<f.id, f.ts>> \notin suspect'
                   PROVE  f \in K <=> f \in avatars'
        OBVIOUS
      <3>1. f.ts # ts /\ <<f.id, f.ts>> \notin suspect
        BY <2>1
      <3>2. f \in o <=> f \in avatars
        BY <1>8, <3>1
      <3>3. f \in avatars' <=> f \in avatars
        BY <2>3, <3>1
      <3> QED BY <1>6, <3>1, <3>2, <3>3
    <2>7. \A a, b : a # i => (<<a, b>> \in suspect' <=> <<a, b>> \in suspect)
      <3>1. \A a, b : a # i => <<a, b>> # <<i, ts>>
        OBVIOUS
      <3> QED BY <2>1, <3>1
    <2>8. \A f \in late' \ late : f.id = i
      BY <2>4
    <2>9. UNCHANGED avatars \/ \E n \in AvatarFiles :
               /\ n.id = i /\ n.nr = writes + 1
               /\ avatars' = {g \in avatars : ~(g.id = n.id /\ g.ts = n.ts)} \cup {n}
      BY <2>3
    <2>10. i \in spoiled' /\ \A id \in AvatarIds \ {i} : id \in spoiled' <=> id \in spoiled
      BY <2>1
    <2> QED BY <1>3, <1>4, <1>7, <2>1, <2>3, <2>5, <2>6, <2>7, <2>8, <2>9, <2>10, RequestEnds
  <1> QED BY <1>11, <1>12

\* An object arrives after its upload was given up.
LEMMA LatePutStep ==
  ASSUME AvInv, NEW f \in late, Av!LatePut(f)
  PROVE  AvInv'
  <1>1. AvTypes /\ FilesOk /\ LateOk /\ AsksInv /\ SettledInv /\ PileInv /\ RemainsInv
    BY DEF AvInv
  <1>2. PICK n : n = [f EXCEPT !.nr = writes + 1]
    OBVIOUS
  <1>3. f \in AvatarFiles /\ <<f.id, f.ts>> \in suspect /\ writes \in Nat
    BY <1>1 DEF LateOk, FilesOk
  <1>4. n \in AvatarFiles /\ n.id = f.id /\ n.ts = f.ts /\ n.nr = writes + 1
    BY <1>2, <1>3 DEF AvatarFiles
  <1>5. /\ Av!Store(n) /\ late' = late \ {f} /\ leftover' = leftover \cup {n}
        /\ UNCHANGED <<second, saves, settled, spoiled, suspect>>
    BY <1>2 DEF Av!LatePut
  <1>6. /\ FilesOk' /\ avatars' = {g \in avatars : ~(g.id = n.id /\ g.ts = n.ts)} \cup {n}
        /\ \A id : id # n.id => Own(avatars', id) = Own(avatars, id)
    BY <1>1, <1>4, <1>5, StoreKeeps
  <1>7. AvTypes' /\ LateOk' /\ Alive' = Alive
    BY <1>1, <1>5 DEF AvTypes, LateOk, Alive, Live
  <1>8. \A g : <<g.id, g.ts>> \notin suspect => (g \in avatars' <=> g \in avatars)
    BY <1>3, <1>4, <1>6
  <1>9. \A id : Sure(avatars, id)' = Sure(avatars, id)
    BY <1>5, <1>8 DEF Sure
  <1>10. \A id, S : Sure(S, id)' = Sure(S, id)
    BY <1>5 DEF Sure
  <1>11. AsksInv'
    <2> SUFFICES ASSUME NEW q \in Alive PROVE AsksOk(q)'
      BY <1>7 DEF AsksInv
    <2>1. AsksOk(q)
      BY <1>1 DEF AsksInv
    <2>2. PICK o, i : o = saves[q].old /\ i = saves[q].id
      OBVIOUS
    <2>3. Sure(o, i)' = Sure(o, i) /\ Sure(avatars, i)' = Sure(avatars, i)
      BY <1>9, <1>10
    <2>4. saves[q].alone /\ saves[q].pc \in {"remove", "write"} => Sure(o, i)' = Sure(avatars, i)'
      BY <2>1, <2>2, <2>3 DEF AsksOk
    <2>5. saves[q].alone /\ saves[q].pc \in {"remove", "write"} =>
            Sure(saves[q].old, saves[q].id)' = Sure(avatars, saves[q].id)'
      BY <1>5, <2>2, <2>4 DEF Sure
    <2>6. saves[q].alone /\ saves[q].pc = "write" =>
            \A g \in late' : g.id = saves[q].id => g.ts < saves[q].ts
      BY <1>5, <2>1 DEF AsksOk
    <2>7. /\ \A g \in saves[q].old : g.id = saves[q].id
          /\ OneEach(saves[q].old)
          /\ saves[q].alone => \A x \in Alive : saves[x].id = saves[q].id => x = q
      BY <2>1 DEF AsksOk
    <2> QED BY <1>5, <1>7, <2>5, <2>6, <2>7 DEF AsksOk, OneEach
  <1>12. SettledInv'
    BY <1>1, <1>5, <1>7, <1>9 DEF SettledInv
  <1>13. RemainsInv'
    <2>1. Own(avatars', n.id) # {}
      BY <1>6 DEF Own
    <2>2. \A id : Own(avatars, id) # {} => Own(avatars', id) # {}
      BY <1>6, <2>1
    <2> QED BY <1>1, <1>5, <1>7, <2>2 DEF RemainsInv, Own
  <1>14. PileInv'
    <2> SUFFICES ASSUME NEW g \in (avatars \ leftover)'
                 PROVE  Cardinality(Newer(g)') + Cardinality(Coming(g)') <= MaxAtOnce
      BY DEF PileInv
    <2>1. g \in avatars \ leftover
      BY <1>5, <1>6
    <2>2. Newer(g)' \subseteq Newer(g) /\ Coming(g)' \subseteq Coming(g)
      BY <1>5, <1>6 DEF Newer, Coming
    <2> QED BY <1>1, <2>1, <2>2, PileStays
  <1> QED BY <1>6, <1>7, <1>11, <1>12, <1>13, <1>14 DEF AvInv

LEMMA AvatarStep ==
  ASSUME AvInv, Av!Next \/ UNCHANGED avatarVars
  PROVE  AvInv'
  <1>1. AvTypes /\ FilesOk /\ LateOk /\ AsksInv /\ SettledInv /\ PileInv /\ RemainsInv
    BY DEF AvInv
  <1>2. CASE UNCHANGED avatarVars \/ Av!Tick
    <2>1. /\ UNCHANGED <<avatars, saves, late, settled, spoiled, suspect, leftover, writes>>
          /\ second' \in Nat /\ second <= second' /\ second \in Nat
      BY <1>1, <1>2 DEF avatarVars, Av!Tick, AvTypes
    <2>2. AvTypes' /\ FilesOk'
      BY <1>1, <2>1 DEF AvTypes, FilesOk, OneEach
    <2>3. LateOk'
      <3>1. \A f \in late : f.ts \in Nat /\ f.ts < second
        BY <1>1 DEF LateOk, AvatarFiles
      <3>2. \A f \in late : f.ts < second'
        BY <2>1, <3>1
      <3> QED BY <1>1, <2>1, <3>2 DEF LateOk
    <2>4. Alive' = Alive
      BY <2>1 DEF Alive, Live
    <2>5. AsksInv' /\ SettledInv' /\ RemainsInv'
      BY <1>1, <2>1, <2>4 DEF AsksInv, AsksOk, SettledInv, RemainsInv, Sure, Own, OneEach
    <2>6. PileInv'
      BY <1>1, <2>1 DEF PileInv, Newer, Coming
    <2> QED BY <2>2, <2>3, <2>4, <2>5, <2>6 DEF AvInv
  <1>3. ASSUME NEW id \in AvatarIds, NEW img \in Imgs, Av!Begin(Av!NewReq(id, img))
        PROVE  AvInv'
    <2>1. PICK new : new = Av!NewReq(id, img)
      OBVIOUS
    <2>2. new = [pc |-> "list", id |-> id, img |-> img, ts |-> 0, old |-> {},
                 alone |-> Av!Others(id) = {}]
      BY <2>1 DEF Av!NewReq
    <2>3. new.pc = "list" /\ new.id = id /\ new.img = img /\ new.old = {}
          /\ (new.alone <=> Av!Others(id) = {})
      BY <2>2
    <2>4. (Av!Others(id) = {}) \in BOOLEAN
      BY Zenon
    <2>5. new \in Busy \cup Done
      BY <2>2, <2>4 DEF Busy
    <2>6. new.alone => \A q \in Alive : saves[q].id # new.id
      BY <2>3 DEF Av!Others, Av!Requests, Av!Active, Alive, Live
    <2> QED BY <1>3, <2>1, <2>3, <2>5, <2>6, BeginStep
  <1>4. ASSUME NEW id \in AvatarIds, Av!Delete(id) PROVE AvInv'
    <2>1. Av!NoPicture \in Imgs
      BY DEF Imgs
    <2> QED BY <1>3, <1>4, <2>1 DEF Av!Delete
  <1>5. ASSUME NEW id \in AvatarIds, NEW p \in Pictures, Av!Upload(id, p) PROVE AvInv'
    <2>1. p \in Imgs
      BY DEF Imgs
    <2> QED BY <1>3, <1>5, <2>1 DEF Av!Upload
  <1>6. ASSUME NEW id \in AvatarIds, NEW p \in Pictures, Av!UploadRefused(id, p) PROVE AvInv'
    <2>1. PICK new : new = [pc |-> "over", id |-> id]
      OBVIOUS
    <2>2. new \in Busy \cup Done /\ new.pc = "over"
      BY <2>1 DEF Done
    <2>3. Av!Begin(new)
      BY <1>6, <2>1 DEF Av!UploadRefused
    <2> QED BY <2>2, <2>3, BeginStep
  <1>7. ASSUME NEW r \in Av!Requests, Av!Active(r), Av!Step(r) PROVE AvInv'
    <2>1. r \in Alive
      BY <1>7 DEF Alive, Live, Av!Requests, Av!Active
    <2> QED BY <1>7, <2>1, ListStep, RemoveStep, WriteStep DEF Av!Step
  <1>8. CASE Av!Restart
    <2>1. PICK n \in Nat : n = Len(saves)
      BY <1>1 DEF AvTypes
    <2>2. /\ saves' = [r \in 1 .. n |-> [pc |-> "over", id |-> saves[r].id]]
          /\ settled' = [id \in AvatarIds |-> IF Av!Others(id) # {} THEN Unsettled ELSE settled[id]]
          /\ spoiled' = spoiled \cup {id \in AvatarIds : Av!Others(id) # {}}
          /\ UNCHANGED <<avatars, second, late, suspect, leftover, writes>>
      <3>1. \A id \in AvatarIds : id \in {k \in AvatarIds : Av!Others(k) # {}} <=> Av!Others(id) # {}
        OBVIOUS
      <3> QED BY <1>8, <2>1, <3>1 DEF Av!Restart, Av!Requests
    <2>3. ASSUME NEW r \in 1 .. n PROVE saves'[r] \in Done /\ saves'[r].pc = "over"
      <3>1. saves[r].id \in AvatarIds
        <4>1. saves[r] \in Busy \cup Done
          BY <1>1, <2>1 DEF AvTypes
        <4> QED BY <4>1 DEF Busy, Done
      <3>2. saves'[r] = [pc |-> "over", id |-> saves[r].id]
        BY <2>2
      <3> QED BY <3>1, <3>2 DEF Done
    <2>4. saves' \in Seq(Busy \cup Done) /\ Len(saves') = n
      <3>1. saves' = [r \in 1 .. n |-> saves'[r]]
        BY <2>2
      <3> QED BY <2>3, <3>1
    <2>5. settled' \in [AvatarIds -> (SUBSET AvatarFiles) \cup {Unsettled}]
      BY <1>1, <2>2 DEF AvTypes
    <2>6. AvTypes' /\ FilesOk' /\ LateOk'
      BY <1>1, <2>2, <2>4, <2>5 DEF AvTypes, FilesOk, LateOk, OneEach
    <2>7. Alive' = {} /\ \A f : Coming(f)' = {}
      BY <2>3, <2>4 DEF Alive, Live, Coming
    <2>8. \A id : Av!Others(id) = {} => \A r \in Alive : saves[r].id # id
      BY DEF Av!Others, Av!Requests, Av!Active, Alive, Live
    <2>9. SettledInv'
      <3> SUFFICES ASSUME NEW id \in AvatarIds, settled'[id] # Unsettled
                   PROVE  Sure(avatars, id)' = settled'[id]
        BY DEF SettledInv
      <3>1. Av!Others(id) = {} /\ settled'[id] = settled[id]
        BY <2>2
      <3>2. Sure(avatars, id) = settled[id]
        BY <1>1, <2>8, <3>1 DEF SettledInv
      <3> QED BY <2>2, <3>1, <3>2 DEF Sure
    <2>10. RemainsInv'
      <3> SUFFICES ASSUME NEW id \in AvatarIds, id \notin spoiled' PROVE Own(avatars, id) # {}
        BY <2>2 DEF RemainsInv, Own
      <3>1. Av!Others(id) = {} /\ id \notin spoiled
        BY <2>2
      <3> QED BY <1>1, <2>8, <3>1 DEF RemainsInv
    <2>11. PileInv'
      <3> SUFFICES ASSUME NEW f \in avatars \ leftover
                   PROVE  Cardinality(Newer(f)') + Cardinality(Coming(f)') <= MaxAtOnce
        BY <2>2 DEF PileInv
      <3>1. Newer(f)' \subseteq Newer(f) /\ Coming(f)' \subseteq Coming(f)
        BY <2>2, <2>7 DEF Newer
      <3> QED BY <1>1, <3>1, PileStays
    <2>12. Cardinality(Alive') <= MaxAtOnce
      BY <2>7, FS_EmptySet, AvatarSettings
    <2> QED BY <2>6, <2>7, <2>9, <2>10, <2>11, <2>12 DEF AvInv, AsksInv
  <1>9. ASSUME NEW f \in late, Av!LatePut(f) PROVE AvInv'
    BY <1>9, LatePutStep
  <1> QED BY <1>2, <1>4, <1>5, <1>6, <1>7, <1>8, <1>9 DEF Av!Next

\* A set of numbers has a least one.
LEMMA LeastNumber ==
  ASSUME NEW T, T \subseteq Nat, T # {}
  PROVE  \E x \in T : \A y \in T : x <= y
  <1>1. PICK x \in T : \A y \in T : ~(<<y, x>> \in OpToRel(<, Nat))
    BY WFMin, NatLessThanWellFounded, Zenon
  <1>2. \A y \in T : ~(y < x)
    BY <1>1 DEF OpToRel
  <1> QED BY <1>2

\* Some file of an id is the oldest by its name, and some is the first that was written.
LEMMA OldestFile ==
  ASSUME FilesOk, NEW S, S \subseteq avatars, S # {}
  PROVE  /\ \E f \in S : \A g \in S : f.ts <= g.ts
         /\ \E f \in S : \A g \in S : g.nr >= f.nr
  <1>1. \A f \in S : f.ts \in Nat /\ f.nr \in Nat
    BY DEF FilesOk, AvatarFiles
  <1>2. PICK T, U : T = {f.ts : f \in S} /\ U = {f.nr : f \in S}
    OBVIOUS
  <1>3. T \subseteq Nat /\ T # {} /\ U \subseteq Nat /\ U # {}
    BY <1>1, <1>2
  <1>4. \E x \in T : \A y \in T : x <= y
    BY <1>3, LeastNumber
  <1>5. \E x \in U : \A y \in U : x <= y
    BY <1>3, LeastNumber
  <1>6. \E f \in S : \A g \in S : f.ts <= g.ts
    BY <1>2, <1>4
  <1>7. \E f \in S : \A g \in S : f.nr <= g.nr
    BY <1>2, <1>5
  <1> QED BY <1>1, <1>6, <1>7

\* While requests for an id come one by one it has the file of its last accepted upload and
\* no other but what failed uploads and removals left; Find has a picture after uploads that
\* overlap, unless one failed or a Delete was among them; files do not pile up; and a medium's
\* link keeps its upload: for any number of requests, ids and faults (GoImageServer's
\* deleteFiles, Save and Find, GoMediaServer's Save and resolveDir).
THEOREM FilesStay == Spec => []FilesStand
  <1> DEFINE Inv == (part = "avatars" => AvInv) /\ (part = "media" => MediaInv)
  <1>1. Init => Inv
    <2> SUFFICES ASSUME Av!Init, Ms!Init PROVE AvInv /\ MediaInv
      BY DEF Init
    <2>1. MediaInv
      BY DEF MediaInv, Ms!Init
    <2>2. /\ avatars = {} /\ second = 1 /\ saves = <<>> /\ settled = [id \in AvatarIds |-> {}]
          /\ late = {} /\ spoiled = AvatarIds /\ writes = 0
      BY DEF Av!Init
    <2>3. AvTypes /\ FilesOk /\ LateOk
      BY <2>2, FS_EmptySet DEF AvTypes, FilesOk, LateOk, OneEach
    <2>4. Alive = {} /\ Cardinality(Alive) <= MaxAtOnce
      <3>1. Alive = {}
        BY <2>2 DEF Alive
      <3> QED BY <3>1, FS_EmptySet, AvatarSettings
    <2>5. SettledInv /\ PileInv /\ AsksInv /\ RemainsInv
      BY <2>2, <2>4 DEF SettledInv, PileInv, AsksInv, RemainsInv, Sure
    <2> QED BY <2>1, <2>3, <2>4, <2>5 DEF AvInv
  <1>2. Inv /\ [Next]_allVars => Inv'
    <2> SUFFICES ASSUME Inv, [Next]_allVars PROVE Inv'
      OBVIOUS
    <2>1. /\ part' = part
          /\ part = "avatars" => Av!Next \/ UNCHANGED avatarVars
          /\ part = "media" => Ms!Next \/ UNCHANGED mediaVars
      BY DEF Next, Steps, allVars
    <2> QED BY <2>1, AvatarStep, MediaStep
  <1>3. Inv => FilesStand
    <2>0. \A id : Av!Others(id) = {} => \A r \in Alive : saves[r].id # id
      BY DEF Av!Others, Av!Requests, Av!Active, Alive, Live
    <2>1. ASSUME AvInv PROVE Av!AvatarStands
      <3>1. \A id \in AvatarIds :
              {f \in Av!FilesOf(id) : Av!Name(f) \notin suspect} = Sure(avatars, id)
        BY DEF Av!FilesOf, Av!Name, Sure
      <3> QED BY <2>0, <2>1, <3>1 DEF Av!AvatarStands, AvInv, SettledInv
    <2>2. ASSUME AvInv PROVE Av!PictureRemains
      <3> SUFFICES ASSUME NEW id \in AvatarIds \ spoiled, Av!Others(id) = {} PROVE Av!Find(id) # {}
        BY DEF Av!PictureRemains
      <3>1. FilesOk /\ RemainsInv
        BY <2>2 DEF AvInv
      <3>2. Own(avatars, id) # {} /\ Own(avatars, id) \subseteq avatars
        BY <2>0, <3>1 DEF RemainsInv, Own
      <3>3. Av!Listed(id) = Own(avatars, id)
        BY <3>1, ListedAreOwn
      <3>4. \E f \in Av!Listed(id) : \A g \in Av!Listed(id) : f.ts <= g.ts
        BY <3>1, <3>2, <3>3, OldestFile
      <3> QED BY <3>4 DEF Av!Find
    <2>3. ASSUME AvInv PROVE Av!FilesDoNotPile
      <3>1. \A S : Av!Cardinality(S) = Cardinality(S)
        BY DEF Av!Cardinality, Cardinality
      <3> SUFFICES ASSUME NEW id \in AvatarIds
                   PROVE  Cardinality(Av!FilesOf(id) \ leftover) <= MaxAtOnce
        BY <3>1 DEF Av!FilesDoNotPile
      <3>2. PICK S : S = Av!FilesOf(id) \ leftover
        OBVIOUS
      <3>3. /\ AvTypes /\ FilesOk /\ PileInv /\ S \subseteq avatars \ leftover /\ S \subseteq avatars
            /\ \A f \in S : f.id = id
        BY <2>3, <3>2 DEF AvInv, Av!FilesOf
      <3>4. CASE S = {}
        BY <3>2, <3>4, FS_EmptySet, AvatarSettings
      <3>5. CASE S # {}
        <4>1. PICK f \in S : \A g \in S : g.nr >= f.nr
          BY <3>3, <3>5, OldestFile
        <4>2. S \subseteq Newer(f)
          BY <3>3, <4>1 DEF Newer
        <4>3. IsFiniteSet(Newer(f)) /\ IsFiniteSet(Coming(f))
          BY <3>3, Finite
        <4>4. /\ Cardinality(S) \in Nat /\ Cardinality(Newer(f)) \in Nat
              /\ Cardinality(S) <= Cardinality(Newer(f))
          BY <4>2, <4>3, Smaller
        <4>5. Cardinality(Coming(f)) \in Nat
          BY <4>3, FS_CardinalityType
        <4>6. Cardinality(Newer(f)) + Cardinality(Coming(f)) <= MaxAtOnce
          BY <3>3 DEF PileInv
        <4>7. Cardinality(S) <= MaxAtOnce
          BY <4>4, <4>5, <4>6, AvatarSettings
        <4> QED BY <3>2, <4>7
      <3> QED BY <3>4, <3>5
    <2>4. ASSUME MediaInv PROVE Ms!MediaIsPermanent
      BY <2>4 DEF MediaInv, LinkDir, Ms!MediaIsPermanent, Ms!ResolveDir
    <2> QED BY <2>1, <2>2, <2>3, <2>4 DEF FilesStand, Av!AvatarsSound
  <1> QED BY <1>1, <1>2, <1>3, PTL DEF Spec

-----------------------------------------------------------------------------
(* Agent: the state *)

USE DEF Ag!quotaVars

Said == {"user", "assistant"} \X Nat
Caches == [counter : [AgentUsers -> [Ag!Day -> Nat]], vip : SUBSET AgentUsers,
           hist : [AgentUsers -> Seq(Said)]]
Asking == [pc : {"quota", "call", "append", "store"}, user : AgentUsers, gone : BOOLEAN, limit : Nat,
           due : Nat, day : Ag!Day, left : Seq(Said), copy : Seq(Said)]
Through == [pc : {"over"}]

AgentTypes ==
  /\ backend \in {"redis", "memory"} /\ data \in [{"redis", "memory"} -> Caches]
  /\ today \in Ag!Day
  /\ req \in Seq(Asking \cup Through)
  /\ turns \in [AgentUsers -> Seq(Said)]
  /\ tries \in [AgentUsers -> [Ag!Day -> Nat]]
  /\ admitted \in [AgentUsers -> [Ag!Day -> [Ag!Tiers -> Nat]]]
  /\ waived \in [AgentUsers -> [Ag!Day -> [Ag!Tiers -> Nat]]]

\* Who was told to be a VIP is one. No counter is ahead of the counts, and on a day without a
\* lost cache none is behind those it let pass.
CountInv ==
  /\ upgraded \subseteq data[backend].vip
  /\ \A b \in {"redis", "memory"}, u \in AgentUsers, d \in Ag!Day : data[b].counter[u][d] <= tries[u][d]
  /\ \A u \in AgentUsers, d \in Ag!Day \ forgot, n \in Ag!Tiers :
       /\ admitted[u][d][n] <= n + waived[u][d][n]
       /\ admitted[u][d][n] <= data[backend].counter[u][d] + waived[u][d][n]
  /\ \A x \in refused : /\ x[1] \in AgentUsers /\ x[2] \in Ag!Day /\ x[3] \in Nat
                        /\ tries[x[1]][x[2]] > x[3]

\* h holds the last messages of t, all of them unless it is full.
TailOf(h, t) ==
  /\ Len(h) <= Len(t) /\ \A i \in 1 .. Len(h) : h[i] = t[Len(t) - Len(h) + i]
  /\ Len(h) < MaxLen => h = t

TailInv ==
  /\ \A b \in {"redis", "memory"}, u \in AgentUsers : Len(data[b].hist[u]) <= MaxLen
  /\ \A u \in AgentUsers :
       /\ Ag!IsSubsequence(data[backend].hist[u], turns[u])
       /\ backend = "redis" \/ u \notin crossed => TailOf(data[backend].hist[u], turns[u])

\* A request that stores: what it has left, what it read, and that it is alone.
Stores(w) == w.pc \in {"append", "store"}
AskedOk(r) ==
  LET w == req[r]
  IN /\ w.pc = "quota" => w.limit \in Ag!Tiers /\ w.due = w.limit
     /\ w.pc = "store" => /\ backend = "memory" /\ Ag!IsSubsequence(w.copy, turns[w.user])
                          /\ w.user \notin crossed => w.copy = data[backend].hist[w.user]
     /\ Stores(w) => /\ w.left \in {Ag!Turn(r), <<<<"assistant", r>>>>}
                     /\ w.user \notin crossed =>
                          \A o \in 1 .. Len(req) : Stores(req[o]) /\ req[o].user = w.user => o = r
AskedInv == \A r \in 1 .. Len(req) : AskedOk(r)

\* What was stored for a user are whole turns, but for the one whose question is stored.
Half(r, u) == Stores(req[r]) /\ req[r].user = u /\ req[r].left = <<<<"assistant", r>>>>
Pairs(t, n) == \A i \in 1 .. n : i % 2 = 1 => t[i][1] = "user" /\ t[i + 1] = <<"assistant", t[i][2]>>
WholeTurns(t) == Len(t) % 2 = 0 /\ Pairs(t, Len(t))
BegunTurn(t, r) == Len(t) % 2 = 1 /\ Pairs(t, Len(t) - 1) /\ t[Len(t)] = <<"user", r>>

TurnInv ==
  \A u \in AgentUsers \ crossed :
    /\ (\A r \in 1 .. Len(req) : ~Half(r, u)) => WholeTurns(turns[u])
    /\ \A r \in 1 .. Len(req) : Half(r, u) => BegunTurn(turns[u], r)

AgentInv == AgentTypes /\ CountInv /\ TailInv /\ AskedInv /\ TurnInv

-----------------------------------------------------------------------------
(* Agent: messages in order *)

LEMMA AppendIs == \A s \in Seq(Said), m \in Said : Append(s, m) \in Seq(Said)
  OBVIOUS

LEMMA SubRefl == ASSUME NEW s \in Seq(Said) PROVE Ag!IsSubsequence(s, s)
  <1> DEFINE f == [i \in 1 .. Len(s) |-> i]
  <1>1. f \in [1 .. Len(s) -> 1 .. Len(s)]
    OBVIOUS
  <1> QED BY <1>1 DEF Ag!IsSubsequence

LEMMA SubRight ==
  ASSUME NEW s \in Seq(Said), NEW t \in Seq(Said), NEW m \in Said, Ag!IsSubsequence(s, t)
  PROVE  Ag!IsSubsequence(s, Append(t, m))
  <1>1. PICK f \in [1 .. Len(s) -> 1 .. Len(t)] :
          /\ \A i \in 1 .. Len(s) : s[i] = t[f[i]]
          /\ \A i, j \in 1 .. Len(s) : i < j => f[i] < f[j]
    BY DEF Ag!IsSubsequence
  <1>2. Len(Append(t, m)) = Len(t) + 1 /\ \A i \in 1 .. Len(t) : Append(t, m)[i] = t[i]
    OBVIOUS
  <1>3. f \in [1 .. Len(s) -> 1 .. Len(Append(t, m))]
    BY <1>1, <1>2
  <1>4. \A i \in 1 .. Len(s) : s[i] = Append(t, m)[f[i]]
    BY <1>1, <1>2
  <1> QED BY <1>1, <1>3, <1>4 DEF Ag!IsSubsequence

LEMMA SubBoth ==
  ASSUME NEW s \in Seq(Said), NEW t \in Seq(Said), NEW m \in Said, Ag!IsSubsequence(s, t)
  PROVE  Ag!IsSubsequence(Append(s, m), Append(t, m))
  <1>1. PICK f \in [1 .. Len(s) -> 1 .. Len(t)] :
          /\ \A i \in 1 .. Len(s) : s[i] = t[f[i]]
          /\ \A i, j \in 1 .. Len(s) : i < j => f[i] < f[j]
    BY DEF Ag!IsSubsequence
  <1> DEFINE g == [i \in 1 .. Len(s) + 1 |-> IF i = Len(s) + 1 THEN Len(t) + 1 ELSE f[i]]
  <1>2. /\ Len(Append(s, m)) = Len(s) + 1 /\ Append(s, m)[Len(s) + 1] = m
        /\ \A i \in 1 .. Len(s) : Append(s, m)[i] = s[i]
    OBVIOUS
  <1>3. /\ Len(Append(t, m)) = Len(t) + 1 /\ Append(t, m)[Len(t) + 1] = m
        /\ \A i \in 1 .. Len(t) : Append(t, m)[i] = t[i]
    OBVIOUS
  <1>4. g \in [1 .. Len(s) + 1 -> 1 .. Len(t) + 1]
    OBVIOUS
  <1>5. \A i \in 1 .. Len(s) : g[i] = f[i]
    OBVIOUS
  <1>6. g[Len(s) + 1] = Len(t) + 1
    OBVIOUS
  <1>7. \A i \in 1 .. Len(s) + 1 : Append(s, m)[i] = Append(t, m)[g[i]]
    <2> TAKE i \in 1 .. Len(s) + 1
    <2>1. CASE i = Len(s) + 1
      BY <2>1, <1>2, <1>3, <1>6
    <2>2. CASE i \in 1 .. Len(s)
      BY <2>2, <1>1, <1>2, <1>3, <1>5
    <2> QED BY <2>1, <2>2
  <1>8. \A i, j \in 1 .. Len(s) + 1 : i < j => g[i] < g[j]
    <2> TAKE i, j \in 1 .. Len(s) + 1
    <2> SUFFICES ASSUME i < j PROVE g[i] < g[j]
      OBVIOUS
    <2>1. i \in 1 .. Len(s) /\ g[i] = f[i] /\ f[i] \in 1 .. Len(t)
      BY <1>1, <1>5
    <2>2. CASE j = Len(s) + 1
      BY <2>1, <2>2, <1>6
    <2>3. CASE j \in 1 .. Len(s)
      BY <2>1, <2>3, <1>1, <1>5
    <2> QED BY <2>2, <2>3
  <1> HIDE DEF g
  <1> QED BY <1>2, <1>3, <1>4, <1>7, <1>8 DEF Ag!IsSubsequence

LEMMA TrimIs ==
  ASSUME NEW s \in Seq(Said)
  PROVE  /\ Ag!Trim(s) \in Seq(Said) /\ Len(Ag!Trim(s)) <= MaxLen /\ Len(Ag!Trim(s)) <= Len(s)
         /\ Len(s) <= MaxLen => Ag!Trim(s) = s
         /\ Len(s) > MaxLen => Len(Ag!Trim(s)) = MaxLen
         /\ \A i \in 1 .. Len(Ag!Trim(s)) : Ag!Trim(s)[i] = s[Len(s) - Len(Ag!Trim(s)) + i]
  <1>1. CASE Len(s) > MaxLen
    <2>1. Len(s) - MaxLen + 1 \in 1 .. Len(s)
      BY <1>1, AgentSettings
    <2>2. Ag!Trim(s) = SubSeq(s, Len(s) - MaxLen + 1, Len(s))
      BY <1>1 DEF Ag!Trim
    <2>3. Ag!Trim(s) \in Seq(Said) /\ Len(Ag!Trim(s)) = MaxLen
      BY <2>1, <2>2, AgentSettings
    <2>4. \A i \in 1 .. MaxLen : Ag!Trim(s)[i] = s[Len(s) - MaxLen + i]
      BY <2>1, <2>2, <2>3, AgentSettings
    <2> QED BY <1>1, <2>3, <2>4, AgentSettings
  <1>2. CASE Len(s) <= MaxLen
    <2>1. Ag!Trim(s) = s
      BY <1>2, AgentSettings DEF Ag!Trim
    <2>2. \A i \in 1 .. Len(s) : Len(s) - Len(s) + i = i
      OBVIOUS
    <2> QED BY <1>2, <2>1, <2>2, AgentSettings
  <1> QED BY <1>1, <1>2, AgentSettings

LEMMA SubTrim ==
  ASSUME NEW s \in Seq(Said), NEW t \in Seq(Said), Ag!IsSubsequence(s, t)
  PROVE  Ag!IsSubsequence(Ag!Trim(s), t)
  <1>1. PICK f \in [1 .. Len(s) -> 1 .. Len(t)] :
          /\ \A i \in 1 .. Len(s) : s[i] = t[f[i]]
          /\ \A i, j \in 1 .. Len(s) : i < j => f[i] < f[j]
    BY DEF Ag!IsSubsequence
  <1>2. PICK h \in Seq(Said) : h = Ag!Trim(s)
    BY TrimIs
  <1> DEFINE k == Len(s) - Len(h)
  <1>3. k \in Nat
    <2>1. Len(h) <= Len(s)
      BY <1>2, TrimIs
    <2> QED BY <2>1
  <1>4. \A i \in 1 .. Len(h) : k + i \in 1 .. Len(s) /\ h[i] = s[k + i]
    BY <1>2, <1>3, TrimIs
  <1> DEFINE g == [i \in 1 .. Len(h) |-> f[k + i]]
  <1>5. g \in [1 .. Len(h) -> 1 .. Len(t)]
    BY <1>4
  <1>6. \A i \in 1 .. Len(h) : h[i] = t[g[i]]
    BY <1>1, <1>4
  <1>7. \A i, j \in 1 .. Len(h) : i < j => g[i] < g[j]
    <2> TAKE i, j \in 1 .. Len(h)
    <2> SUFFICES ASSUME i < j PROVE g[i] < g[j]
      OBVIOUS
    <2>1. k + i < k + j
      BY <1>3
    <2>2. f[k + i] < f[k + j]
      BY <2>1, <1>1, <1>4
    <2> QED BY <2>2
  <1> HIDE DEF g
  <1> QED BY <1>2, <1>5, <1>6, <1>7 DEF Ag!IsSubsequence

LEMMA TailGrows ==
  ASSUME NEW h \in Seq(Said), NEW t \in Seq(Said), NEW m \in Said,
         Len(h) <= MaxLen, TailOf(h, t)
  PROVE  TailOf(Ag!Trim(Append(h, m)), Append(t, m))
  <1>1. PICK a \in Seq(Said) : a = Append(h, m)
    BY AppendIs
  <1>2. PICK b \in Seq(Said) : b = Append(t, m)
    BY AppendIs
  <1>3. PICK c \in Seq(Said) : c = Ag!Trim(a)
    BY TrimIs
  <1>4. Len(a) = Len(h) + 1 /\ a[Len(a)] = m /\ \A i \in 1 .. Len(h) : a[i] = h[i]
    BY <1>1
  <1>5. Len(b) = Len(t) + 1 /\ b[Len(b)] = m /\ \A i \in 1 .. Len(t) : b[i] = t[i]
    BY <1>2
  <1>6. /\ Len(c) <= MaxLen /\ Len(c) <= Len(a)
        /\ Len(a) <= MaxLen => c = a
        /\ Len(a) > MaxLen => Len(c) = MaxLen
        /\ \A i \in 1 .. Len(c) : c[i] = a[Len(a) - Len(c) + i]
    BY <1>3, TrimIs
  <1>7. Len(a) <= Len(b) /\ \A i \in 1 .. Len(a) : a[i] = b[Len(b) - Len(a) + i]
    <2>1. Len(h) <= Len(t) /\ \A i \in 1 .. Len(h) : h[i] = t[Len(t) - Len(h) + i]
      BY DEF TailOf
    <2>0. Len(a) <= Len(b)
      BY <2>1, <1>4, <1>5
    <2> SUFFICES ASSUME NEW i \in 1 .. Len(a) PROVE a[i] = b[Len(b) - Len(a) + i]
      BY <2>0
    <2>2. CASE i = Len(a)
      BY <2>2, <1>4, <1>5
    <2>3. CASE i \in 1 .. Len(h)
      <3>1. Len(b) - Len(a) + i = Len(t) - Len(h) + i /\ Len(t) - Len(h) + i \in 1 .. Len(t)
        BY <2>1, <2>3, <1>4, <1>5
      <3> QED BY <2>1, <2>3, <3>1, <1>4, <1>5
    <2> QED BY <2>2, <2>3, <1>4
  <1>8. \A i \in 1 .. Len(c) : c[i] = b[Len(b) - Len(c) + i]
    <2> TAKE i \in 1 .. Len(c)
    <2>1. PICK j \in 1 .. Len(a) : j = Len(a) - Len(c) + i
      BY <1>6
    <2>2. Len(b) - Len(a) + j = Len(b) - Len(c) + i
      BY <2>1, <1>7
    <2> QED BY <2>1, <2>2, <1>6, <1>7
  <1>9. Len(c) < MaxLen => c = b
    <2> HAVE Len(c) < MaxLen
    <2>1. Len(a) <= MaxLen /\ c = a /\ Len(h) < MaxLen
      BY <1>4, <1>6, AgentSettings
    <2>2. h = t
      BY <2>1 DEF TailOf
    <2> QED BY <2>1, <2>2, <1>1, <1>2
  <1>10. Len(c) <= Len(b)
    BY <1>6, <1>7
  <1>11. TailOf(c, b)
    BY <1>8, <1>9, <1>10 DEF TailOf
  <1> QED BY <1>1, <1>2, <1>3, <1>11

LEMMA TurnIs ==
  ASSUME NEW r \in Nat
  PROVE  /\ Ag!Turn(r) \in Seq(Said) /\ Len(Ag!Turn(r)) # 1 /\ Ag!Turn(r) # <<<<"assistant", r>>>>
         /\ Head(Ag!Turn(r)) = <<"user", r>> /\ Tail(Ag!Turn(r)) = <<<<"assistant", r>>>>
         /\ <<<<"assistant", r>>>> \in Seq(Said) /\ Len(<<<<"assistant", r>>>>) = 1
         /\ Head(<<<<"assistant", r>>>>) = <<"assistant", r>>
         /\ <<"user", r>> \in Said /\ <<"assistant", r>> \in Said
  <1>1. <<"user", r>> \in Said /\ <<"assistant", r>> \in Said
    BY DEF Said
  <1> QED BY <1>1 DEF Ag!Turn

\* A question that is stored begins a turn, and its answer completes it.
LEMMA QuestionBegins ==
  ASSUME NEW t \in Seq(Said), NEW r \in Nat, WholeTurns(t)
  PROVE  BegunTurn(Append(t, <<"user", r>>), r)
  <1>1. PICK m \in Said : m = <<"user", r>>
    BY DEF Said
  <1>2. PICK b \in Seq(Said) : b = Append(t, m)
    BY AppendIs
  <1>3. Len(b) = Len(t) + 1 /\ b[Len(b)] = m /\ \A i \in 1 .. Len(t) : b[i] = t[i]
    BY <1>2
  <1>4. Len(t) % 2 = 0 /\ Len(b) % 2 = 1
    BY <1>3 DEF WholeTurns
  <1>5. Pairs(b, Len(b) - 1)
    <2> SUFFICES ASSUME NEW i \in 1 .. Len(t), i % 2 = 1
                 PROVE  b[i][1] = "user" /\ b[i + 1] = <<"assistant", b[i][2]>>
      BY <1>3 DEF Pairs
    <2>1. t[i][1] = "user" /\ t[i + 1] = <<"assistant", t[i][2]>>
      BY DEF WholeTurns, Pairs
    <2>2. i + 1 \in 1 .. Len(t)
      BY <1>4
    <2> QED BY <2>1, <2>2, <1>3
  <1> QED BY <1>1, <1>2, <1>3, <1>4, <1>5 DEF BegunTurn

LEMMA AnswerCompletes ==
  ASSUME NEW t \in Seq(Said), NEW r \in Nat, BegunTurn(t, r)
  PROVE  WholeTurns(Append(t, <<"assistant", r>>))
  <1>1. PICK m \in Said : m = <<"assistant", r>>
    BY DEF Said
  <1>2. PICK b \in Seq(Said) : b = Append(t, m)
    BY AppendIs
  <1>3. Len(b) = Len(t) + 1 /\ b[Len(b)] = m /\ \A i \in 1 .. Len(t) : b[i] = t[i]
    BY <1>2
  <1>4. Len(t) % 2 = 1 /\ Len(b) % 2 = 0
    BY <1>3 DEF BegunTurn
  <1>5. Pairs(b, Len(b))
    <2> SUFFICES ASSUME NEW i \in 1 .. Len(b), i % 2 = 1
                 PROVE  b[i][1] = "user" /\ b[i + 1] = <<"assistant", b[i][2]>>
      BY DEF Pairs
    <2>1. i \in 1 .. Len(t)
      BY <1>3, <1>4
    <2>2. CASE i = Len(t)
      <3>1. b[i] = <<"user", r>> /\ b[i + 1] = m
        BY <2>1, <2>2, <1>3 DEF BegunTurn
      <3> QED BY <3>1, <1>1
    <2>3. CASE i \in 1 .. Len(t) - 1
      <3>1. t[i][1] = "user" /\ t[i + 1] = <<"assistant", t[i][2]>>
        BY <2>3 DEF BegunTurn, Pairs
      <3>2. i + 1 \in 1 .. Len(t)
        BY <2>3
      <3> QED BY <3>1, <3>2, <2>1, <1>3
    <2> QED BY <2>1, <2>2, <2>3
  <1> QED BY <1>1, <1>2, <1>4, <1>5 DEF WholeTurns

-----------------------------------------------------------------------------
(* Agent: steps of one request *)

LEMMA AskingIs ==
  ASSUME NEW w \in Asking \cup Through, w.pc # "over"
  PROVE  w \in Asking
  BY DEF Through

LEMMA AskIsTyped ==
  ASSUME AgentTypes, NEW r \in 1 .. Len(req)
  PROVE  req[r] \in Asking \cup Through
  BY DEF AgentTypes

\* The histories are sequences of messages.
LEMMA HistIs ==
  ASSUME AgentTypes, NEW b \in {"redis", "memory"}, NEW u \in AgentUsers
  PROVE  data[b] \in Caches /\ data[b].hist[u] \in Seq(Said) /\ turns[u] \in Seq(Said)
  <1>1. data[b] \in Caches /\ turns[u] \in Seq(Said)
    BY DEF AgentTypes
  <1> QED BY <1>1 DEF Caches

\* One request changes, no history does, and it is alone where it now stores.
LEMMA ReqMoves ==
  ASSUME AgentInv, NEW r \in 1 .. Len(req), NEW w \in Asking \cup Through,
         req' = [req EXCEPT ![r] = w], crossed \subseteq crossed', UNCHANGED <<backend, turns>>,
         \A b \in {"redis", "memory"} : data'[b].hist = data[b].hist,
         w.pc = "quota" => w.limit \in Ag!Tiers /\ w.due = w.limit,
         w.pc = "store" => /\ backend = "memory" /\ Ag!IsSubsequence(w.copy, turns[w.user])
                           /\ w.user \notin crossed' => w.copy = data[backend].hist[w.user],
         Stores(w) => /\ w.left \in {Ag!Turn(r), <<<<"assistant", r>>>>}
                      /\ w.user \notin crossed' =>
                           \A o \in 1 .. Len(req) : Stores(req[o]) /\ req[o].user = w.user => o = r,
         \A u \in AgentUsers \ crossed' :
           (Stores(w) /\ w.user = u /\ w.left = <<<<"assistant", r>>>>) <=> Half(r, u)
  PROVE  req' \in Seq(Asking \cup Through) /\ TailInv' /\ AskedInv' /\ TurnInv'
  <1> USE DEF AgentInv
  <1>1. /\ Len(req') = Len(req) /\ req'[r] = w
        /\ \A o \in 1 .. Len(req) : o # r => req'[o] = req[o]
    BY DEF AgentTypes
  <1>2. req' \in Seq(Asking \cup Through)
    BY DEF AgentTypes
  <1>h. data'[backend'].hist = data[backend].hist
    BY DEF AgentTypes
  <1>3. TailInv'
    BY <1>h DEF TailInv
  <1>4. AskedInv'
    <2> SUFFICES ASSUME NEW o \in 1 .. Len(req) PROVE AskedOk(o)'
      BY <1>1 DEF AskedInv
    <2>1. CASE o = r
      <3>1. \A p \in 1 .. Len(req) : Stores(req'[p]) /\ req'[p].user = w.user /\ p # r
              => Stores(req[p]) /\ req[p].user = w.user
        BY <1>1
      <3> QED BY <2>1, <3>1, <1>1, <1>h DEF AskedOk
    <2>2. CASE o # r
      <3>1. AskedOk(o) /\ req'[o] = req[o]
        BY <2>2, <1>1 DEF AskedInv
      <3>2. ASSUME Stores(req[o]), req[o].user \notin crossed', NEW p \in 1 .. Len(req),
                   Stores(req'[p]), req'[p].user = req[o].user
            PROVE  p = o
        <4>1. CASE p = r
          BY <3>2, <4>1, <2>2, <1>1
        <4>2. CASE p # r
          BY <3>1, <3>2, <4>2, <1>1 DEF AskedOk
        <4> QED BY <4>1, <4>2
      <3> QED BY <3>1, <3>2, <1>1, <1>h DEF AskedOk
    <2> QED BY <2>1, <2>2
  <1>5. TurnInv'
    <2>1. \A o \in 1 .. Len(req), u \in AgentUsers \ crossed' : Half(o, u)' <=> Half(o, u)
      BY <1>1 DEF Half
    <2> QED BY <2>1, <1>1 DEF TurnInv
  <1> QED BY <1>2, <1>3, <1>4, <1>5

\* The same where the cache is left alone.
LEMMA OneReq ==
  ASSUME AgentInv, NEW r \in 1 .. Len(req), NEW w \in Asking \cup Through,
         req' = [req EXCEPT ![r] = w], crossed \subseteq crossed',
         UNCHANGED <<backend, data, today, turns, upgraded, tries, admitted, waived, refused, forgot>>,
         w.pc = "quota" => w.limit \in Ag!Tiers /\ w.due = w.limit,
         w.pc = "store" => /\ backend = "memory" /\ Ag!IsSubsequence(w.copy, turns[w.user])
                           /\ w.user \notin crossed' => w.copy = data[backend].hist[w.user],
         Stores(w) => /\ w.left \in {Ag!Turn(r), <<<<"assistant", r>>>>}
                      /\ w.user \notin crossed' =>
                           \A o \in 1 .. Len(req) : Stores(req[o]) /\ req[o].user = w.user => o = r,
         \A u \in AgentUsers \ crossed' :
           (Stores(w) /\ w.user = u /\ w.left = <<<<"assistant", r>>>>) <=> Half(r, u)
  PROVE  AgentInv'
  <1>1. req' \in Seq(Asking \cup Through) /\ TailInv' /\ AskedInv' /\ TurnInv'
    BY ReqMoves
  <1>2. AgentTypes' /\ CountInv'
    BY <1>1 DEF AgentInv, AgentTypes, CountInv
  <1> QED BY <1>1, <1>2 DEF AgentInv

\* A new request waits for the quota or the provider.
LEMMA AnotherReq ==
  ASSUME AgentInv, NEW w \in Asking, req' = Append(req, w),
         UNCHANGED <<backend, data, today, turns, upgraded, tries, admitted, waived, refused, forgot, crossed>>,
         w.pc = "call" \/ (w.pc = "quota" /\ w.limit \in Ag!Tiers /\ w.due = w.limit)
  PROVE  AgentInv'
  <1> USE DEF AgentInv
  <1>0. req \in Seq(Asking \cup Through) /\ w \in Asking \cup Through
    BY DEF AgentTypes
  <1>1. /\ req' \in Seq(Asking \cup Through) /\ Len(req') = Len(req) + 1 /\ req'[Len(req) + 1] = w
        /\ \A o \in 1 .. Len(req) : req'[o] = req[o]
    BY <1>0
  <1>2. ~Stores(w)
    BY DEF Stores
  <1>3. AgentTypes' /\ CountInv' /\ TailInv'
    BY <1>1 DEF AgentTypes, CountInv, TailInv
  <1>4. AskedInv'
    <2> SUFFICES ASSUME NEW o \in 1 .. Len(req) + 1 PROVE AskedOk(o)'
      BY <1>1 DEF AskedInv
    <2>1. CASE o = Len(req) + 1
      BY <2>1, <1>1, <1>2 DEF AskedOk
    <2>2. CASE o \in 1 .. Len(req)
      <3>1. AskedOk(o) /\ req'[o] = req[o]
        BY <2>2, <1>1 DEF AskedInv
      <3>2. \A p \in 1 .. Len(req) + 1 : Stores(req'[p]) => p \in 1 .. Len(req) /\ req'[p] = req[p]
        BY <1>1, <1>2
      <3> QED BY <3>1, <3>2, <1>1 DEF AskedOk
    <2> QED BY <2>1, <2>2
  <1>5. TurnInv'
    <2>1. \A o \in 1 .. Len(req), u \in AgentUsers : Half(o, u)' <=> Half(o, u)
      BY <1>1 DEF Half
    <2>2. PICK n \in Nat : n = Len(req) + 1
      BY <1>0
    <2>3. \A u \in AgentUsers : ~Half(n, u)'
      BY <2>2, <1>1, <1>2 DEF Half
    <2>4. 1 .. Len(req') = (1 .. Len(req)) \cup {n}
      BY <2>2, <1>0, <1>1
    <2> QED BY <2>1, <2>3, <2>4 DEF TurnInv
  <1> QED BY <1>3, <1>4, <1>5

LEMMA OverIsThrough == Ag!Over \in Asking \cup Through /\ ~Stores(Ag!Over) /\ Ag!Over.pc = "over"
  BY DEF Ag!Over, Through, Stores

LEMMA CallerGoneKeeps ==
  ASSUME AgentInv, NEW r \in 1 .. Len(req), Ag!CallerGone(r)
  PROVE  AgentInv'
  <1>1. req[r] \in Asking
    BY AskingIs, AskIsTyped DEF AgentInv, Ag!CallerGone
  <1>2. PICK w : w = [req[r] EXCEPT !.gone = TRUE]
    OBVIOUS
  <1>3. /\ w \in Asking /\ w.pc = req[r].pc /\ w.user = req[r].user /\ w.limit = req[r].limit
        /\ w.due = req[r].due
        /\ w.left = req[r].left /\ w.copy = req[r].copy
    BY <1>1, <1>2 DEF Asking
  <1>4. req' = [req EXCEPT ![r] = w]
    BY <1>2 DEF Ag!CallerGone
  <1>5. AskedOk(r)
    BY DEF AgentInv, AskedInv
  <1>6. UNCHANGED <<backend, data, today, turns, upgraded, tries, admitted, waived, refused, forgot, crossed>>
    BY DEF Ag!CallerGone
  <1>7. Stores(w) <=> Stores(req[r])
    BY <1>3 DEF Stores
  <1>8. \A u : (Stores(w) /\ w.user = u /\ w.left = <<<<"assistant", r>>>>) <=> Half(r, u)
    BY <1>3, <1>7 DEF Half
  <1>9. w.pc = "quota" => w.limit \in Ag!Tiers /\ w.due = w.limit
    BY <1>3, <1>5 DEF AskedOk
  <1>10. w.pc = "store" => /\ backend = "memory" /\ Ag!IsSubsequence(w.copy, turns[w.user])
                           /\ w.user \notin crossed' => w.copy = data[backend].hist[w.user]
    BY <1>3, <1>5, <1>6 DEF AskedOk
  <1>11. Stores(w) => /\ w.left \in {Ag!Turn(r), <<<<"assistant", r>>>>}
                      /\ w.user \notin crossed' =>
                           \A o \in 1 .. Len(req) : Stores(req[o]) /\ req[o].user = w.user => o = r
    BY <1>3, <1>5, <1>6, <1>7 DEF AskedOk
  <1>12. w \in Asking \cup Through /\ crossed \subseteq crossed'
    BY <1>3, <1>6
  <1>13. UNCHANGED <<backend, data, today, turns, upgraded, tries, admitted, waived, refused, forgot>>
    BY <1>6
  <1>14. \A u \in AgentUsers \ crossed' :
           (Stores(w) /\ w.user = u /\ w.left = <<<<"assistant", r>>>>) <=> Half(r, u)
    BY <1>8
  <1> QED BY <1>4, <1>9, <1>10, <1>11, <1>12, <1>13, <1>14, OneReq

LEMMA WithoutTraceKeeps ==
  ASSUME AgentInv, NEW r \in 1 .. Len(req), Ag!ChatWithoutTrace(r)
  PROVE  AgentInv'
  <1>1. ~Stores(req[r])
    BY DEF Ag!ChatWithoutTrace, Ag!At, Stores
  <1>2. /\ req' = [req EXCEPT ![r] = Ag!Over]
        /\ UNCHANGED <<backend, data, today, turns, upgraded, tries, admitted, waived, refused, forgot, crossed>>
    BY DEF Ag!ChatWithoutTrace
  <1> QED BY <1>1, <1>2, OverIsThrough, OneReq DEF Half

LEMMA ChatKeeps ==
  ASSUME AgentInv, NEW r \in 1 .. Len(req), Ag!Chat(r)
  PROVE  AgentInv'
  <1>0. req[r].pc = "call"
    BY DEF Ag!Chat, Ag!At
  <1>1. req[r] \in Asking
    BY <1>0, AskingIs, AskIsTyped DEF AgentInv
  <1>t. PICK t \in Seq(Said) : t = Ag!Turn(r) /\ t # <<<<"assistant", r>>>>
    <2>1. r \in Nat
      BY DEF AgentInv, AgentTypes
    <2>2. Ag!Turn(r) \in Seq(Said) /\ Ag!Turn(r) # <<<<"assistant", r>>>>
      BY <2>1, TurnIs
    <2> QED BY <2>2
  <1>2. PICK w : w = [[req[r] EXCEPT !.pc = "append"] EXCEPT !.left = t]
    OBVIOUS
  <1>3. /\ w \in Asking /\ w.pc = "append" /\ w.left = t /\ w.user = req[r].user
    BY <1>1, <1>2 DEF Asking
  <1>4. req' = [req EXCEPT ![r] = w]
    BY <1>2, <1>t DEF Ag!Chat, AgentInv, AgentTypes
  <1>5. Stores(w) /\ ~Stores(req[r]) /\ w.left # <<<<"assistant", r>>>>
    BY <1>0, <1>3, <1>t DEF Stores
  <1>6. /\ UNCHANGED <<backend, data, today, turns, upgraded, tries, admitted, waived, refused, forgot>>
        /\ crossed' = crossed \cup Ag!Meets(r)
    BY DEF Ag!Chat
  <1>7. w.user \notin crossed' => \A o \in 1 .. Len(req) : Stores(req[o]) /\ req[o].user = w.user => o = r
    <2> SUFFICES ASSUME NEW o \in 1 .. Len(req), Stores(req[o]), req[o].user = w.user, o # r
                 PROVE  w.user \in crossed'
      OBVIOUS
    <2>1. w.user \in Ag!Meets(r)
      BY <1>1, <1>3 DEF Ag!Meets, Ag!Storing, Ag!Requests, Stores, Asking
    <2> QED BY <2>1, <1>6
  <1> QED BY <1>3, <1>4, <1>5, <1>6, <1>7, <1>t, OneReq DEF Half

\* What is left of a request after one of its messages.
LEMMA RestIs ==
  ASSUME AgentInv, NEW r \in 1 .. Len(req), Stores(req[r])
  PROVE  /\ req[r] \in Asking /\ Ag!Rest(r) \in Asking \cup Through
         /\ \/ /\ req[r].left = Ag!Turn(r)
               /\ Ag!Rest(r).pc = "append" /\ Ag!Rest(r).user = req[r].user
               /\ Ag!Rest(r).left = <<<<"assistant", r>>>>
            \/ req[r].left = <<<<"assistant", r>>>> /\ Ag!Rest(r) = Ag!Over
  <1>1. req[r] \in Asking
    BY AskingIs, AskIsTyped DEF AgentInv, Stores
  <1>2. req[r].left \in {Ag!Turn(r), <<<<"assistant", r>>>>}
    BY DEF AgentInv, AskedInv, AskedOk
  <1>3. CASE req[r].left = Ag!Turn(r)
    <2>0. r \in Nat
      BY DEF AgentInv, AgentTypes
    <2>1. PICK v \in Seq(Said) : v = <<<<"assistant", r>>>> /\ v = Tail(req[r].left)
      BY <1>3, <2>0, TurnIs
    <2>a. <<>> \in Seq(Said)
      OBVIOUS
    <2>2. PICK e \in Seq(Said) : e = <<>>
      BY <2>a
    <2>3. PICK w : w = [[[req[r] EXCEPT !.pc = "append"] EXCEPT !.left = v] EXCEPT !.copy = e]
      OBVIOUS
    <2>4. Len(req[r].left) # 1
      BY <1>3, <2>0, TurnIs
    <2>5. Ag!Rest(r) = w
      BY <1>1, <2>1, <2>2, <2>3, <2>4 DEF Ag!Rest, Asking
    <2>6. w \in Asking /\ w.pc = "append" /\ w.user = req[r].user /\ w.left = v
      BY <1>1, <2>3 DEF Asking
    <2> QED BY <1>1, <1>3, <2>1, <2>5, <2>6
  <1>4. CASE req[r].left = <<<<"assistant", r>>>>
    BY <1>1, <1>4, TurnIs, OverIsThrough DEF Ag!Rest
  <1> QED BY <1>2, <1>3, <1>4

LEMMA AppendFailsKeeps ==
  ASSUME AgentInv, NEW r \in 1 .. Len(req), Ag!AppendFails(r)
  PROVE  AgentInv'
  <1>1. Stores(req[r])
    BY DEF Ag!AppendFails, Ag!At, Stores
  <1>2. PICK w : w = Ag!Rest(r)
    OBVIOUS
  <1>3. /\ req' = [req EXCEPT ![r] = w] /\ crossed' = crossed \cup {req[r].user}
        /\ UNCHANGED <<backend, data, today, turns, upgraded, tries, admitted, waived, refused, forgot>>
    BY <1>2 DEF Ag!AppendFails
  <1>4. /\ w \in Asking \cup Through
        /\ \/ w.pc = "append" /\ w.user \in crossed' /\ w.left = <<<<"assistant", r>>>>
           \/ w.pc = "over"
    BY <1>1, <1>2, <1>3, RestIs, OverIsThrough
  <1>5. \A u \in AgentUsers \ crossed' :
          ~Half(r, u) /\ ~(Stores(w) /\ w.user = u)
    BY <1>3, <1>4 DEF Half, Stores
  <1> QED BY <1>3, <1>4, <1>5, OneReq DEF Stores

LEMMA AppendReadsKeeps ==
  ASSUME AgentInv, NEW r \in 1 .. Len(req), Ag!AppendReads(r)
  PROVE  AgentInv'
  <1>0. req[r].pc = "append" /\ backend = "memory"
    BY DEF Ag!AppendReads, Ag!At
  <1>1. req[r] \in Asking
    BY <1>0, AskingIs, AskIsTyped DEF AgentInv
  <1>2. PICK u \in AgentUsers : u = req[r].user
    BY <1>1 DEF Asking
  <1>3. PICK h \in Seq(Said) : h = data[backend].hist[u]
    BY HistIs, <1>0 DEF AgentInv
  <1>4. PICK w : w = [[req[r] EXCEPT !.pc = "store"] EXCEPT !.copy = h]
    OBVIOUS
  <1>5. w \in Asking /\ w.pc = "store" /\ w.copy = h /\ w.user = u /\ w.left = req[r].left
    BY <1>1, <1>2, <1>4 DEF Asking
  <1>6. /\ req' = [req EXCEPT ![r] = w]
        /\ UNCHANGED <<backend, data, today, turns, upgraded, tries, admitted, waived, refused, forgot, crossed>>
    BY <1>2, <1>3, <1>4 DEF Ag!AppendReads, Ag!Cache, AgentInv, AgentTypes
  <1>7. AskedOk(r) /\ Ag!IsSubsequence(h, turns[u])
    BY <1>3 DEF AgentInv, AskedInv, TailInv
  <1>8. Stores(req[r]) /\ Stores(w)
    BY <1>0, <1>5 DEF Stores
  <1>9. \A v : (Stores(w) /\ w.user = v /\ w.left = <<<<"assistant", r>>>>) <=> Half(r, v)
    BY <1>2, <1>5, <1>8 DEF Half
  <1>10. Stores(w) => /\ w.left \in {Ag!Turn(r), <<<<"assistant", r>>>>}
                      /\ w.user \notin crossed' =>
                           \A o \in 1 .. Len(req) : Stores(req[o]) /\ req[o].user = w.user => o = r
    BY <1>2, <1>5, <1>6, <1>7, <1>8 DEF AskedOk
  <1>11. w \in Asking \cup Through /\ crossed \subseteq crossed'
    BY <1>5, <1>6
  <1>12. UNCHANGED <<backend, data, today, turns, upgraded, tries, admitted, waived, refused, forgot>>
    BY <1>6
  <1>13. \A v \in AgentUsers \ crossed' :
           (Stores(w) /\ w.user = v /\ w.left = <<<<"assistant", r>>>>) <=> Half(r, v)
    BY <1>9
  <1>14. /\ w.pc # "quota" /\ backend = "memory" /\ Ag!IsSubsequence(w.copy, turns[w.user])
         /\ w.copy = data[backend].hist[w.user]
    BY <1>0, <1>3, <1>5, <1>7
  <1> QED BY <1>6, <1>10, <1>11, <1>12, <1>13, <1>14, OneReq, ZenonT(40)

LEMMA NewReqIs ==
  ASSUME AgentTypes, NEW pc \in {"quota", "call"}, NEW u \in AgentUsers, NEW n \in Nat
  PROVE  /\ Ag!NewReq(pc, u, n, n) \in Asking /\ Ag!NewReq(pc, u, n, n).pc = pc
         /\ Ag!NewReq(pc, u, n, n).limit = n /\ Ag!NewReq(pc, u, n, n).due = n
  <1>1. <<>> \in Seq(Said)
    OBVIOUS
  <1>2. PICK e \in Seq(Said) : e = <<>>
    BY <1>1
  <1>3. today \in Ag!Day
    BY DEF AgentTypes
  <1> QED BY <1>2, <1>3 DEF Ag!NewReq, Asking

\* A request that starts: at the quota with a tier's limit, or at the provider.
LEMMA StartKeeps ==
  ASSUME AgentInv, NEW u \in AgentUsers, NEW pc \in {"quota", "call"}, NEW n \in Nat,
         pc = "call" \/ n \in Ag!Tiers, Ag!Start(Ag!NewReq(pc, u, n, n))
  PROVE  AgentInv'
  <1>1. PICK w \in Asking : w = Ag!NewReq(pc, u, n, n) /\ w.pc = pc /\ w.limit = n /\ w.due = n
    BY NewReqIs DEF AgentInv
  <1>2. /\ req' = Append(req, w)
        /\ UNCHANGED <<backend, data, today, turns, upgraded, tries, admitted, waived, refused, forgot,
                       crossed>>
    BY <1>1 DEF Ag!Start
  <1>3. w.pc = "call" \/ (w.pc = "quota" /\ w.limit \in Ag!Tiers /\ w.due = w.limit)
    BY <1>1
  <1> QED BY <1>2, <1>3, AnotherReq

LEMMA NewReqKeeps ==
  ASSUME AgentInv, NEW u \in AgentUsers,
         Ag!ProcessMessage(u) \/ Ag!ProcessMessageUnsure(u) \/ Ag!HandleChat(u)
  PROVE  AgentInv'
  <1>0. FreeDaily \in Nat /\ VipDaily \in Nat /\ FreeDaily \in Ag!Tiers /\ VipDaily \in Ag!Tiers
    BY AgentSettings DEF Ag!Tiers
  <1>1. CASE Ag!ProcessMessage(u)
    <2>1. PICK n \in Nat : n = Ag!Limit(u) /\ n \in Ag!Tiers
      BY <1>0 DEF Ag!Limit
    <2>2. Ag!Due(u) = n
      BY <2>1 DEF Ag!Due, Ag!Limit, Ag!Cache, AgentInv, CountInv
    <2>3. Ag!Start(Ag!NewReq("quota", u, n, n))
      BY <1>1, <2>1, <2>2 DEF Ag!ProcessMessage
    <2> QED BY <2>1, <2>3, StartKeeps
  <1>2. CASE Ag!ProcessMessageUnsure(u)
    <2>1. Ag!Start(Ag!NewReq("quota", u, FreeDaily, FreeDaily))
      BY <1>2 DEF Ag!ProcessMessageUnsure
    <2> QED BY <1>0, <2>1, StartKeeps
  <1>3. CASE Ag!HandleChat(u)
    <2>1. Ag!Start(Ag!NewReq("call", u, 0, 0))
      BY <1>3 DEF Ag!HandleChat
    <2> QED BY <2>1, StartKeeps
  <1> QED BY <1>1, <1>2, <1>3

\* The histories and the requests stay as they are.
LEMMA OnlyCounts ==
  ASSUME AgentInv, UNCHANGED <<backend, req, turns, crossed>>,
         \A b \in {"redis", "memory"} : data'[b].hist = data[b].hist
  PROVE  TailInv' /\ AskedInv' /\ TurnInv'
  <1>1. data'[backend'].hist = data[backend].hist
    BY DEF AgentInv, AgentTypes
  <1>2. \A o, u : Half(o, u)' <=> Half(o, u)
    BY DEF Half
  <1> QED BY <1>1, <1>2 DEF AgentInv, TailInv, AskedInv, AskedOk, TurnInv

LEMMA UpgradeKeeps ==
  ASSUME AgentInv, NEW u \in AgentUsers, Ag!UpgradeVip(u) \/ Ag!UpgradeFails(u)
  PROVE  AgentInv'
  <1>1. PICK c \in Caches : c = data[backend]
    BY DEF AgentInv, AgentTypes
  <1>2. PICK e : e = [c EXCEPT !.vip = @ \cup {u}]
    OBVIOUS
  <1>3. e \in Caches /\ e.counter = c.counter /\ e.hist = c.hist /\ e.vip = c.vip \cup {u}
    BY <1>2 DEF Caches
  <1>4. data' = [data EXCEPT ![backend] = e]
    BY <1>1, <1>2 DEF Ag!UpgradeVip, Ag!UpgradeFails, Ag!Mark
  <1>5. /\ data' \in [{"redis", "memory"} -> Caches] /\ data'[backend] = e
        /\ \A b \in {"redis", "memory"} : data'[b].hist = data[b].hist /\ data'[b].counter = data[b].counter
    BY <1>1, <1>3, <1>4 DEF AgentInv, AgentTypes
  <1>6. UNCHANGED <<backend, today, req, turns, tries, admitted, waived, refused, forgot, crossed>>
    BY DEF Ag!UpgradeVip, Ag!UpgradeFails
  <1>7. AgentTypes'
    BY <1>5, <1>6 DEF AgentInv, AgentTypes
  <1>8. CountInv'
    <2>1. data'[backend'].counter = data[backend].counter
      BY <1>5, <1>6 DEF AgentInv, AgentTypes
    <2>2. upgraded' \subseteq upgraded \cup {u}
      BY DEF Ag!UpgradeVip, Ag!UpgradeFails
    <2>3. upgraded' \subseteq data'[backend'].vip
      BY <2>2, <1>1, <1>3, <1>5, <1>6 DEF AgentInv, CountInv
    <2> QED BY <2>1, <2>3, <1>5, <1>6 DEF AgentInv, CountInv
  <1> QED BY <1>5, <1>6, <1>7, <1>8, OnlyCounts DEF AgentInv

LEMMA MidnightKeeps ==
  ASSUME AgentInv, Ag!Midnight
  PROVE  AgentInv'
  <1>1. today' \in Ag!Day
    BY AgentSettings DEF AgentInv, AgentTypes, Ag!Midnight, Ag!Day
  <1>2. UNCHANGED <<backend, data, req, turns, upgraded, tries, admitted, waived, refused, forgot, crossed>>
    BY DEF Ag!Midnight
  <1>3. TailInv' /\ AskedInv' /\ TurnInv'
    BY <1>2, OnlyCounts
  <1> QED BY <1>1, <1>2, <1>3 DEF AgentInv, AgentTypes, CountInv

LEMMA CountsAre ==
  ASSUME AgentTypes, NEW u \in AgentUsers, NEW d \in Ag!Day
  PROVE  /\ tries[u][d] \in Nat
         /\ \A b \in {"redis", "memory"} : data[b].counter[u][d] \in Nat
         /\ \A n \in Ag!Tiers : admitted[u][d][n] \in Nat /\ waived[u][d][n] \in Nat /\ n \in Nat
  <1>1. tries[u][d] \in Nat
    BY DEF AgentTypes
  <1>2. \A n \in Ag!Tiers : admitted[u][d][n] \in Nat /\ waived[u][d][n] \in Nat /\ n \in Nat
    BY AgentSettings DEF AgentTypes, Ag!Tiers
  <1>3. \A b \in {"redis", "memory"} : data[b].counter[u][d] \in Nat
    <2> TAKE b \in {"redis", "memory"}
    <2>1. data[b] \in Caches
      BY DEF AgentTypes
    <2> QED BY <2>1 DEF Caches
  <1> QED BY <1>1, <1>2, <1>3

\* What is known of a request at the quota.
LEMMA AtQuota ==
  ASSUME AgentInv, NEW r \in 1 .. Len(req), req[r].pc = "quota"
  PROVE  /\ req[r] \in Asking /\ req[r].user \in AgentUsers /\ req[r].day \in Ag!Day
         /\ req[r].limit \in Ag!Tiers /\ req[r].limit \in Nat /\ req[r].due = req[r].limit
  <1>1. req[r] \in Asking
    BY AskingIs, AskIsTyped DEF AgentInv
  <1>2. req[r].limit \in Ag!Tiers /\ req[r].due = req[r].limit
    BY DEF AgentInv, AskedInv, AskedOk
  <1> QED BY <1>1, <1>2, AgentSettings DEF Asking, Ag!Tiers

\* INCR: one counter and its tries go up together.
LEMMA CountGoesUp ==
  ASSUME AgentInv, NEW r \in 1 .. Len(req), req[r].pc = "quota", Ag!Counted(r)
  PROVE  /\ data' \in [{"redis", "memory"} -> Caches]
         /\ \A b \in {"redis", "memory"} : data'[b].hist = data[b].hist /\ data'[b].vip = data[b].vip
         /\ tries' \in [AgentUsers -> [Ag!Day -> Nat]]
         /\ \A v \in AgentUsers, x \in Ag!Day :
              /\ tries'[v][x] \in Nat /\ tries[v][x] <= tries'[v][x]
              /\ data'[backend].counter[v][x] \in Nat
              /\ data[backend].counter[v][x] <= data'[backend].counter[v][x]
         /\ \A b \in {"redis", "memory"}, v \in AgentUsers, x \in Ag!Day :
              data'[b].counter[v][x] <= tries'[v][x]
         /\ data'[backend].counter[req[r].user][req[r].day]
              = data[backend].counter[req[r].user][req[r].day] + 1
  <1> USE DEF AgentInv
  <1>2. PICK u \in AgentUsers : u = req[r].user
    BY AtQuota
  <1>3. PICK d \in Ag!Day : d = req[r].day
    BY AtQuota
  <1>5. PICK c \in Caches : c = data[backend]
    BY DEF AgentTypes
  <1>6. PICK n \in Nat : n = c.counter[u][d] + 1
    BY DEF Caches
  <1>7. PICK g : g = [c.counter EXCEPT ![u][d] = n]
    OBVIOUS
  <1>8. /\ g \in [AgentUsers -> [Ag!Day -> Nat]] /\ g[u][d] = n
        /\ \A v \in AgentUsers, x \in Ag!Day : v # u \/ x # d => g[v][x] = c.counter[v][x]
    BY <1>7 DEF Caches
  <1>9. PICK e : e = [c EXCEPT !.counter = g]
    OBVIOUS
  <1>10. e \in Caches /\ e.counter = g /\ e.hist = c.hist /\ e.vip = c.vip
    BY <1>8, <1>9 DEF Caches
  <1>11. data' = [data EXCEPT ![backend] = e]
    BY <1>2, <1>3, <1>5, <1>6, <1>7, <1>9 DEF Ag!Counted, Ag!Key
  <1>12. /\ data' \in [{"redis", "memory"} -> Caches] /\ data'[backend] = e
         /\ \A b \in {"redis", "memory"} : b # backend => data'[b] = data[b]
    BY <1>10, <1>11 DEF AgentTypes
  <1>13. \A b \in {"redis", "memory"} : data'[b].hist = data[b].hist /\ data'[b].vip = data[b].vip
    BY <1>5, <1>10, <1>12, SMTT(30)
  <1>15. tries' = [tries EXCEPT ![u][d] = @ + 1]
    BY <1>2, <1>3 DEF Ag!Counted
  <1>16. /\ tries' \in [AgentUsers -> [Ag!Day -> Nat]] /\ tries'[u][d] = tries[u][d] + 1
         /\ \A v \in AgentUsers, x \in Ag!Day : v # u \/ x # d => tries'[v][x] = tries[v][x]
    BY <1>15 DEF AgentTypes
  <1>17. \A v \in AgentUsers, x \in Ag!Day :
           tries'[v][x] \in Nat /\ tries[v][x] \in Nat /\ tries[v][x] <= tries'[v][x]
    <2> TAKE v \in AgentUsers, x \in Ag!Day
    <2>1. tries[v][x] \in Nat
      BY CountsAre
    <2>2. CASE v = u /\ x = d
      BY <2>1, <2>2, <1>16
    <2>3. CASE v # u \/ x # d
      BY <2>1, <2>3, <1>16
    <2> QED BY <2>2, <2>3
  <1>18. \A b \in {"redis", "memory"}, v \in AgentUsers, x \in Ag!Day :
           data'[b].counter[v][x] <= tries'[v][x]
    <2> TAKE b \in {"redis", "memory"}, v \in AgentUsers, x \in Ag!Day
    <2>0. data[b].counter[v][x] <= tries[v][x] /\ data[b].counter[v][x] \in Nat
      BY CountsAre DEF CountInv
    <2>1. CASE b = backend /\ v = u /\ x = d
      BY <2>0, <2>1, <1>5, <1>6, <1>8, <1>10, <1>12, <1>16, <1>17, SMTT(30)
    <2>2. CASE b = backend /\ (v # u \/ x # d)
      BY <2>0, <2>2, <1>5, <1>8, <1>10, <1>12, <1>16
    <2>3. CASE b # backend
      BY <2>0, <2>3, <1>12, <1>17
    <2> QED BY <2>1, <2>2, <2>3
  <1>19. \A v \in AgentUsers, x \in Ag!Day : g[v][x] \in Nat /\ c.counter[v][x] <= g[v][x]
    <2> TAKE v \in AgentUsers, x \in Ag!Day
    <2>0. c.counter[v][x] \in Nat
      BY DEF Caches
    <2>1. CASE v = u /\ x = d
      BY <2>0, <2>1, <1>6, <1>8
    <2>2. CASE v # u \/ x # d
      BY <2>0, <2>2, <1>8
    <2> QED BY <2>1, <2>2
  <1>20. \A v \in AgentUsers, x \in Ag!Day :
           /\ data'[backend].counter[v][x] \in Nat
           /\ data[backend].counter[v][x] <= data'[backend].counter[v][x]
    BY <1>5, <1>10, <1>12, <1>19
  <1>21. data'[backend].counter[u][d] = data[backend].counter[u][d] + 1
    BY <1>5, <1>6, <1>8, <1>10, <1>12
  <1> QED BY <1>2, <1>3, <1>12, <1>13, <1>16, <1>17, <1>18, <1>20, <1>21

\* Who was refused had used the day up, and still has.
LEMMA RefusedStay ==
  ASSUME AgentInv, \A v \in AgentUsers, x \in Ag!Day : tries'[v][x] \in Nat /\ tries[v][x] <= tries'[v][x]
  PROVE  \A x \in refused : /\ x[1] \in AgentUsers /\ x[2] \in Ag!Day /\ x[3] \in Nat
                            /\ tries'[x[1]][x[2]] > x[3]
  <1> TAKE x \in refused
  <1>1. x[1] \in AgentUsers /\ x[2] \in Ag!Day /\ x[3] \in Nat /\ tries[x[1]][x[2]] > x[3]
    BY DEF AgentInv, CountInv
  <1>2. PICK m \in Nat, n \in Nat : m = tries[x[1]][x[2]] /\ n = tries'[x[1]][x[2]]
    BY <1>1, CountsAre DEF AgentInv
  <1> QED BY <1>1, <1>2

LEMMA Sums ==
  \A a, m, w, i, j \in Nat : a <= m + w /\ a <= i + w /\ i <= j =>
    a <= j + w /\ a + 1 <= m + (w + 1) /\ a + 1 <= j + (w + 1)
  OBVIOUS

\* One more in a table of numbers by user, day and limit.
LEMMA OneMore ==
  ASSUME NEW A \in [AgentUsers -> [Ag!Day -> [Ag!Tiers -> Nat]]], NEW u \in AgentUsers,
         NEW d \in Ag!Day, NEW k \in Ag!Tiers, NEW B, B = [A EXCEPT ![u][d][k] = @ + 1]
  PROVE  /\ B \in [AgentUsers -> [Ag!Day -> [Ag!Tiers -> Nat]]]
         /\ B[u][d][k] = A[u][d][k] + 1
         /\ \A v \in AgentUsers, x \in Ag!Day, m \in Ag!Tiers :
              v # u \/ x # d \/ m # k => B[v][x][m] = A[v][x][m]
  OBVIOUS

\* One request more passes.
LEMMA PassIs ==
  ASSUME AgentInv, NEW r \in 1 .. Len(req), req[r].pc = "quota", Ag!Pass(r)
  PROVE  /\ admitted' \in [AgentUsers -> [Ag!Day -> [Ag!Tiers -> Nat]]]
         /\ admitted'[req[r].user][req[r].day][req[r].limit]
              = admitted[req[r].user][req[r].day][req[r].limit] + 1
         /\ \A v \in AgentUsers, x \in Ag!Day, m \in Ag!Tiers :
              v # req[r].user \/ x # req[r].day \/ m # req[r].limit
                => admitted'[v][x][m] = admitted[v][x][m]
  <1>1. PICK u \in AgentUsers : u = req[r].user
    BY AtQuota
  <1>2. PICK d \in Ag!Day : d = req[r].day
    BY AtQuota
  <1>3. PICK k \in Ag!Tiers : k = req[r].limit
    BY AtQuota
  <1>4. admitted' = [admitted EXCEPT ![u][d][k] = @ + 1]
    BY <1>1, <1>2, <1>3 DEF Ag!Pass
  <1>5. admitted \in [AgentUsers -> [Ag!Day -> [Ag!Tiers -> Nat]]]
    BY DEF AgentInv, AgentTypes
  <1> QED BY <1>1, <1>2, <1>3, <1>4, <1>5, OneMore

\* The request leaves the quota; the histories stay.
LEMMA LeavesQuota ==
  ASSUME AgentInv, NEW r \in 1 .. Len(req), req[r].pc = "quota",
         Ag!Pass(r) \/ req' = [req EXCEPT ![r] = Ag!Over],
         UNCHANGED <<backend, turns, crossed>>,
         \A b \in {"redis", "memory"} : data'[b].hist = data[b].hist
  PROVE  req' \in Seq(Asking \cup Through) /\ TailInv' /\ AskedInv' /\ TurnInv'
  <1>1. req[r] \in Asking
    BY AtQuota
  <1>2. PICK a : a = [req[r] EXCEPT !.pc = "call"]
    OBVIOUS
  <1>3. a \in Asking /\ a.pc = "call"
    BY <1>1, <1>2 DEF Asking
  <1>4. req' = [req EXCEPT ![r] = a] \/ req' = [req EXCEPT ![r] = Ag!Over]
    BY <1>2 DEF Ag!Pass
  <1>5. PICK w \in Asking \cup Through :
          req' = [req EXCEPT ![r] = w] /\ w.pc \in {"call", "over"}
    BY <1>3, <1>4, OverIsThrough
  <1>7. ~Stores(w) /\ ~Stores(req[r])
    BY <1>5 DEF Stores
  <1>9. \A u : ~Half(r, u)
    BY <1>7 DEF Half
  <1> QED BY <1>5, <1>7, <1>9, ReqMoves

LEMMA AllowKeeps ==
  ASSUME AgentInv, NEW r \in 1 .. Len(req), Ag!Allow(r)
  PROVE  AgentInv'
  <1>0. req[r].pc = "quota" /\ Ag!Counted(r) /\ backend \in {"redis", "memory"}
    BY DEF Ag!Allow, Ag!At, AgentInv, AgentTypes
  <1>1. UNCHANGED <<backend, today, upgraded, turns, waived, forgot, crossed>>
    BY DEF Ag!Allow
  <1>2. PICK u \in AgentUsers : u = req[r].user
    BY <1>0, AtQuota
  <1>3. PICK d \in Ag!Day : d = req[r].day
    BY <1>0, AtQuota
  <1>4. PICK k \in Ag!Tiers : k = req[r].limit /\ k = req[r].due /\ k \in Nat
    BY <1>0, AtQuota
  <1>5. PICK n \in Nat : n = data'[backend].counter[u][d] /\ n = data[backend].counter[u][d] + 1
    BY <1>0, <1>2, <1>3, CountGoesUp
  <1>6. upgraded' \subseteq data'[backend'].vip
    BY <1>0, <1>1, CountGoesUp DEF AgentInv, CountInv
  <1>7. \A b \in {"redis", "memory"} : data'[b].hist = data[b].hist
    BY <1>0, CountGoesUp
  <1>8. Ag!Pass(r) \/ req' = [req EXCEPT ![r] = Ag!Over]
    BY DEF Ag!Allow
  <1>9. req' \in Seq(Asking \cup Through) /\ TailInv' /\ AskedInv' /\ TurnInv'
    BY <1>0, <1>1, <1>7, <1>8, LeavesQuota
  <1>10. \A b \in {"redis", "memory"}, v \in AgentUsers, x \in Ag!Day :
           data'[b].counter[v][x] <= tries'[v][x]
    BY <1>0, CountGoesUp
  <1>11. \A x \in refused : /\ x[1] \in AgentUsers /\ x[2] \in Ag!Day /\ x[3] \in Nat
                            /\ tries'[x[1]][x[2]] > x[3]
    BY <1>0, CountGoesUp, RefusedStay
  <1>12. /\ data' \in [{"redis", "memory"} -> Caches] /\ tries' \in [AgentUsers -> [Ag!Day -> Nat]]
    BY <1>0, CountGoesUp
  <1>13. ASSUME NEW v \in AgentUsers, NEW x \in Ag!Day \ forgot, NEW m \in Ag!Tiers
         PROVE  /\ admitted[v][x][m] \in Nat /\ waived[v][x][m] \in Nat /\ m \in Nat
                /\ data'[backend].counter[v][x] \in Nat
                /\ admitted[v][x][m] <= m + waived[v][x][m]
                /\ admitted[v][x][m] <= data[backend].counter[v][x] + waived[v][x][m]
                /\ admitted[v][x][m] <= data'[backend].counter[v][x] + waived[v][x][m]
    <2>1. PICK a \in Nat, w \in Nat : a = admitted[v][x][m] /\ w = waived[v][x][m] /\ m \in Nat
      BY CountsAre DEF AgentInv
    <2>x. x \in Ag!Day
      OBVIOUS
    <2>p. data[backend].counter[v][x] \in Nat
      BY <1>0, <2>x, CountsAre DEF AgentInv
    <2>q. /\ data'[backend].counter[v][x] \in Nat
          /\ data[backend].counter[v][x] <= data'[backend].counter[v][x]
      BY <1>0, <2>x, CountGoesUp
    <2>2. PICK p \in Nat, q \in Nat :
            p = data[backend].counter[v][x] /\ q = data'[backend].counter[v][x] /\ p <= q
      BY <2>p, <2>q
    <2>3. a <= m + w /\ a <= p + w
      BY <2>1, <2>2 DEF AgentInv, CountInv
    <2>4. m \in Nat /\ p <= q
      BY <2>1, <2>2
    <2>5. a <= q + w
      BY <2>3, <2>4, Sums
    <2> QED BY <2>1, <2>2, <2>3, <2>5
  <1>14. CASE n <= k
    <2>1. Ag!Pass(r) /\ refused' = refused
      BY <1>2, <1>3, <1>4, <1>5, <1>14 DEF Ag!Allow, Ag!Allowed, Ag!Cache, Ag!Key
    <2>2. /\ admitted' \in [AgentUsers -> [Ag!Day -> [Ag!Tiers -> Nat]]]
          /\ admitted'[u][d][k] = admitted[u][d][k] + 1
          /\ \A v \in AgentUsers, x \in Ag!Day, m \in Ag!Tiers :
               v # u \/ x # d \/ m # k => admitted'[v][x][m] = admitted[v][x][m]
      BY <2>1, <1>0, <1>2, <1>3, <1>4, PassIs
    <2>3. ASSUME NEW v \in AgentUsers, NEW x \in Ag!Day \ forgot, NEW m \in Ag!Tiers
          PROVE  /\ admitted'[v][x][m] <= m + waived[v][x][m]
                 /\ admitted'[v][x][m] <= data'[backend].counter[v][x] + waived[v][x][m]
      <3>1. CASE v = u /\ x = d /\ m = k
        <4>1. PICK a \in Nat, w \in Nat : a = admitted[u][d][k] /\ w = waived[u][d][k]
          BY <1>13, <3>1
        <4>2. PICK p \in Nat : p = data[backend].counter[u][d] /\ n = p + 1
          BY <1>0, <1>5, CountsAre DEF AgentInv
        <4>3. a <= p + w
          BY <1>13, <3>1, <4>1, <4>2
        <4>n. k \in Nat /\ n = p + 1
          BY <1>4, <4>2
        <4>4. a + 1 <= n + w /\ a + 1 <= k + w
          BY <1>14, <4>3, <4>n
        <4> QED BY <1>5, <2>2, <3>1, <4>1, <4>4
      <3>2. CASE v # u \/ x # d \/ m # k
        BY <1>13, <2>2, <3>2
      <3> QED BY <3>1, <3>2
    <2>4. CountInv'
      BY <1>1, <1>6, <1>10, <1>11, <2>1, <2>3 DEF CountInv
    <2> QED BY <1>1, <1>9, <1>12, <2>2, <2>4 DEF AgentInv, AgentTypes
  <1>15. CASE ~(n <= k)
    <2>1. admitted' = admitted /\ refused' = refused \cup {<<u, d, k>>}
      BY <1>2, <1>3, <1>4, <1>5, <1>15 DEF Ag!Allow, Ag!Allowed, Ag!Cache, Ag!Key
    <2>2. tries'[u][d] > k
      <3>1. PICK t \in Nat : t = tries'[u][d] /\ n <= t
        BY <1>0, <1>5, <1>10, CountGoesUp
      <3> QED BY <3>1, <1>4, <1>15
    <2>3. \A x \in refused' : /\ x[1] \in AgentUsers /\ x[2] \in Ag!Day /\ x[3] \in Nat
                              /\ tries'[x[1]][x[2]] > x[3]
      <3> TAKE x \in refused'
      <3>1. CASE x \in refused
        BY <3>1, <1>11
      <3>2. CASE x = <<u, d, k>>
        BY <3>2, <2>2, <1>4
      <3> QED BY <3>1, <3>2, <2>1
    <2>4. CountInv'
      BY <1>1, <1>6, <1>10, <1>13, <2>1, <2>3 DEF CountInv
    <2> QED BY <1>1, <1>9, <1>12, <2>1, <2>4 DEF AgentInv, AgentTypes
  <1> QED BY <1>14, <1>15

\* The counter cannot be had: what passes is waived as well, counted or not.
LEMMA UncountedKeeps ==
  ASSUME AgentInv, NEW r \in 1 .. Len(req), Ag!AllowUncounted(r)
  PROVE  AgentInv'
  <1>0. /\ req[r].pc = "quota" /\ Ag!Pass(r) /\ backend \in {"redis", "memory"}
        /\ Ag!Counted(r) \/ UNCHANGED <<data, tries>>
    BY DEF Ag!AllowUncounted, Ag!At, AgentInv, AgentTypes
  <1>1. UNCHANGED <<backend, today, upgraded, turns, refused, forgot, crossed>>
    BY DEF Ag!AllowUncounted
  <1>2. PICK u \in AgentUsers : u = req[r].user
    BY <1>0, AtQuota
  <1>3. PICK d \in Ag!Day : d = req[r].day
    BY <1>0, AtQuota
  <1>4. PICK k \in Ag!Tiers : k = req[r].limit
    BY <1>0, AtQuota
  <1>5. /\ data' \in [{"redis", "memory"} -> Caches]
        /\ \A b \in {"redis", "memory"} : data'[b].hist = data[b].hist /\ data'[b].vip = data[b].vip
        /\ tries' \in [AgentUsers -> [Ag!Day -> Nat]]
        /\ \A v \in AgentUsers, x \in Ag!Day :
             /\ tries'[v][x] \in Nat /\ tries[v][x] <= tries'[v][x]
             /\ data'[backend].counter[v][x] \in Nat
             /\ data[backend].counter[v][x] <= data'[backend].counter[v][x]
        /\ \A b \in {"redis", "memory"}, v \in AgentUsers, x \in Ag!Day :
             data'[b].counter[v][x] <= tries'[v][x]
    <2>1. CASE Ag!Counted(r)
      BY <1>0, <2>1, CountGoesUp
    <2>2. CASE UNCHANGED <<data, tries>>
      <3>1. \A v \in AgentUsers, x \in Ag!Day :
              /\ tries'[v][x] \in Nat /\ tries[v][x] <= tries'[v][x]
              /\ data'[backend].counter[v][x] \in Nat
              /\ data[backend].counter[v][x] <= data'[backend].counter[v][x]
        <4> TAKE v \in AgentUsers, x \in Ag!Day
        <4>1. tries[v][x] \in Nat /\ data[backend].counter[v][x] \in Nat
          BY <1>0, CountsAre DEF AgentInv
        <4> QED BY <4>1, <2>2
      <3> QED BY <2>2, <3>1 DEF AgentInv, AgentTypes, CountInv
    <2> QED BY <1>0, <2>1, <2>2
  <1>6. upgraded' \subseteq data'[backend'].vip
    BY <1>0, <1>1, <1>5 DEF AgentInv, CountInv
  <1>7. req' \in Seq(Asking \cup Through) /\ TailInv' /\ AskedInv' /\ TurnInv'
    BY <1>0, <1>1, <1>5, LeavesQuota
  <1>8. \A x \in refused : /\ x[1] \in AgentUsers /\ x[2] \in Ag!Day /\ x[3] \in Nat
                           /\ tries'[x[1]][x[2]] > x[3]
    BY <1>5, RefusedStay
  <1>9. /\ admitted' \in [AgentUsers -> [Ag!Day -> [Ag!Tiers -> Nat]]]
        /\ admitted'[u][d][k] = admitted[u][d][k] + 1
        /\ \A v \in AgentUsers, x \in Ag!Day, m \in Ag!Tiers :
             v # u \/ x # d \/ m # k => admitted'[v][x][m] = admitted[v][x][m]
    BY <1>0, <1>2, <1>3, <1>4, PassIs
  <1>10. waived' = [waived EXCEPT ![u][d][k] = @ + 1]
    BY <1>2, <1>3, <1>4 DEF Ag!AllowUncounted
  <1>11. /\ waived' \in [AgentUsers -> [Ag!Day -> [Ag!Tiers -> Nat]]]
         /\ waived'[u][d][k] = waived[u][d][k] + 1
         /\ \A v \in AgentUsers, x \in Ag!Day, m \in Ag!Tiers :
              v # u \/ x # d \/ m # k => waived'[v][x][m] = waived[v][x][m]
    <2>1. waived \in [AgentUsers -> [Ag!Day -> [Ag!Tiers -> Nat]]]
      BY DEF AgentInv, AgentTypes
    <2> QED BY <1>10, <2>1, OneMore
  <1>12. ASSUME NEW v \in AgentUsers, NEW x \in Ag!Day \ forgot, NEW m \in Ag!Tiers
         PROVE  /\ admitted'[v][x][m] <= m + waived'[v][x][m]
                /\ admitted'[v][x][m] <= data'[backend].counter[v][x] + waived'[v][x][m]
    <2>1. PICK a \in Nat, w \in Nat : a = admitted[v][x][m] /\ w = waived[v][x][m] /\ m \in Nat
      BY CountsAre DEF AgentInv
    <2>x. x \in Ag!Day
      OBVIOUS
    <2>p. data[backend].counter[v][x] \in Nat
      BY <1>0, <2>x, CountsAre DEF AgentInv
    <2>q. /\ data'[backend].counter[v][x] \in Nat
          /\ data[backend].counter[v][x] <= data'[backend].counter[v][x]
      BY <1>5, <2>x
    <2>2. PICK p \in Nat, q \in Nat :
            p = data[backend].counter[v][x] /\ q = data'[backend].counter[v][x] /\ p <= q
      BY <2>p, <2>q
    <2>3. a <= m + w /\ a <= p + w
      BY <2>1, <2>2 DEF AgentInv, CountInv
    <2>m. a + 1 <= m + (w + 1) /\ a + 1 <= q + (w + 1) /\ a <= q + w
      <3>1. m \in Nat /\ p <= q
        BY <2>1, <2>2
      <3> QED BY <2>3, <3>1, Sums
    <2>4. CASE v = u /\ x = d /\ m = k
      <3>1. admitted'[v][x][m] = a + 1 /\ waived'[v][x][m] = w + 1
        BY <1>9, <1>11, <2>1, <2>4
      <3> QED BY <3>1, <2>2, <2>m
    <2>5. CASE v # u \/ x # d \/ m # k
      <3>1. admitted'[v][x][m] = a /\ waived'[v][x][m] = w
        BY <1>9, <1>11, <2>x, <2>1, <2>5
      <3> QED BY <3>1, <2>2, <2>3, <2>m
    <2> QED BY <2>4, <2>5
  <1>13. CountInv'
    BY <1>1, <1>5, <1>6, <1>8, <1>12 DEF CountInv
  <1> QED BY <1>1, <1>5, <1>7, <1>9, <1>11, <1>13 DEF AgentInv, AgentTypes

\* A message is stored after s, which is the history unless requests crossed in memory.
LEMMA StoredKeeps ==
  ASSUME AgentInv, NEW r \in 1 .. Len(req), Stores(req[r]), NEW s \in Seq(Said),
         Ag!IsSubsequence(s, turns[req[r].user]),
         backend = "redis" \/ req[r].user \notin crossed => s = data[backend].hist[req[r].user],
         Ag!Stored(r, s), UNCHANGED <<backend, today, upgraded, tries, admitted, waived, refused, forgot, crossed>>
  PROVE  AgentInv'
  <1> USE DEF AgentInv
  <1>0. r \in Nat /\ backend \in {"redis", "memory"}
    BY DEF AgentTypes
  <1>1. req[r] \in Asking
    BY RestIs
  <1>2. PICK u \in AgentUsers : u = req[r].user
    BY <1>1 DEF Asking
  <1>3. PICK left \in Seq(Said) : left = req[r].left /\ left \in {Ag!Turn(r), <<<<"assistant", r>>>>}
    BY <1>1 DEF Asking, AskedInv, AskedOk
  <1>4. PICK m \in Said : m = Head(left)
    BY <1>0, <1>3, TurnIs
  <1>5. PICK w \in Asking \cup Through : w = Ag!Rest(r)
    BY RestIs
  <1>6. \/ /\ left = Ag!Turn(r) /\ m = <<"user", r>>
           /\ w.pc = "append" /\ w.user = u /\ w.left = <<<<"assistant", r>>>>
        \/ left = <<<<"assistant", r>>>> /\ m = <<"assistant", r>> /\ w.pc = "over"
    BY <1>0, <1>2, <1>3, <1>4, <1>5, RestIs, TurnIs, OverIsThrough
  <1>7. PICK t \in Seq(Said) : t = turns[u]
    BY DEF AgentTypes
  <1>8. PICK h \in Seq(Said) : h = data[backend].hist[u]
    BY <1>0, HistIs
  <1>9. PICK g \in Seq(Said) : g = Ag!Trim(Append(s, m)) /\ Len(g) <= MaxLen
    BY AppendIs, TrimIs
  <1>10. PICK b \in Seq(Said) : b = Append(t, m)
    BY AppendIs
  <1>11. PICK c \in Caches : c = data[backend]
    BY <1>0 DEF AgentTypes
  <1>12. PICK e : e = [c EXCEPT !.hist[u] = g]
    OBVIOUS
  <1>13. /\ e \in Caches /\ e.counter = c.counter /\ e.vip = c.vip /\ e.hist[u] = g
         /\ \A v \in AgentUsers : v # u => e.hist[v] = c.hist[v]
    BY <1>12 DEF Caches
  <1>14. data' = [data EXCEPT ![backend] = e]
    BY <1>2, <1>3, <1>4, <1>9, <1>11, <1>12 DEF Ag!Stored
  <1>15. /\ data' \in [{"redis", "memory"} -> Caches] /\ data'[backend] = e
         /\ \A k \in {"redis", "memory"} : k # backend => data'[k] = data[k]
    BY <1>13, <1>14 DEF AgentTypes
  <1>16. /\ turns' \in [AgentUsers -> Seq(Said)] /\ turns'[u] = b
         /\ \A v \in AgentUsers : v # u => turns'[v] = turns[v]
    <2>1. turns' = [turns EXCEPT ![u] = b]
      BY <1>2, <1>3, <1>4, <1>7, <1>10 DEF Ag!Stored
    <2> QED BY <2>1 DEF AgentTypes
  <1>17. /\ req' \in Seq(Asking \cup Through) /\ Len(req') = Len(req) /\ req'[r] = w
         /\ \A o \in 1 .. Len(req) : o # r => req'[o] = req[o]
    <2>1. req' = [req EXCEPT ![r] = w]
      BY <1>5 DEF Ag!Stored
    <2> QED BY <2>1 DEF AgentTypes
  <1>18. AgentTypes'
    BY <1>15, <1>16, <1>17 DEF AgentTypes
  <1>19. CountInv'
    <2>1. \A k \in {"redis", "memory"} : data'[k].counter = data[k].counter /\ data'[k].vip = data[k].vip
      BY <1>11, <1>13, <1>15
    <2> QED BY <2>1, <1>0 DEF CountInv
  <1>20. Ag!IsSubsequence(g, b)
    <2>1. Append(s, m) \in Seq(Said) /\ Append(t, m) \in Seq(Said)
      BY AppendIs
    <2>2. Ag!IsSubsequence(Append(s, m), Append(t, m))
      BY <1>2, <1>7, SubBoth
    <2> QED BY <2>1, <2>2, <1>9, <1>10, SubTrim
  <1>21. backend = "redis" \/ u \notin crossed => TailOf(g, b)
    <2> HAVE backend = "redis" \/ u \notin crossed
    <2>1. s = h /\ TailOf(h, t) /\ Len(h) <= MaxLen
      BY <1>0, <1>2, <1>7, <1>8 DEF TailInv
    <2> QED BY <2>1, <1>9, <1>10, TailGrows
  <1>22. TailInv'
    <2>1. \A k \in {"redis", "memory"}, v \in AgentUsers :
            data'[k].hist[v] = data[k].hist[v] \/ (data'[k].hist[v] = g)
      BY <1>11, <1>13, <1>15
    <2>2. \A k \in {"redis", "memory"}, v \in AgentUsers : Len(data'[k].hist[v]) <= MaxLen
      BY <2>1, <1>9 DEF TailInv
    <2>3. ASSUME NEW v \in AgentUsers
          PROVE  /\ Ag!IsSubsequence(data'[backend].hist[v], turns'[v])
                 /\ backend = "redis" \/ v \notin crossed => TailOf(data'[backend].hist[v], turns'[v])
      <3>1. CASE v = u
        BY <3>1, <1>13, <1>15, <1>16, <1>20, <1>21
      <3>2. CASE v # u
        BY <3>2, <1>11, <1>13, <1>15, <1>16 DEF TailInv
      <3> QED BY <3>1, <3>2
    <2> QED BY <2>2, <2>3 DEF TailInv
  <1>23. u \notin crossed => \A o \in 1 .. Len(req) : Stores(req[o]) /\ req[o].user = u => o = r
    BY <1>2 DEF AskedInv, AskedOk
  <1>24. AskedInv'
    <2> SUFFICES ASSUME NEW o \in 1 .. Len(req) PROVE AskedOk(o)'
      BY <1>17 DEF AskedInv
    <2>1. CASE o = r
      <3>1. w.pc \in {"append", "over"} /\ (Stores(w) => w.user = u /\ w.left = <<<<"assistant", r>>>>)
        BY <1>6 DEF Stores
      <3>2. ASSUME u \notin crossed, NEW p \in 1 .. Len(req), Stores(req'[p]), req'[p].user = u
            PROVE  p = r
        BY <3>2, <1>17, <1>23
      <3> QED BY <2>1, <3>1, <3>2, <1>17 DEF AskedOk
    <2>2. CASE o # r
      <3>1. AskedOk(o) /\ req'[o] = req[o]
        BY <2>2, <1>17 DEF AskedInv
      <3>2. ASSUME Stores(req[o]), req[o].user \notin crossed, NEW p \in 1 .. Len(req),
                   Stores(req'[p]), req'[p].user = req[o].user
            PROVE  p = o
        <4>1. CASE p = r
          <5>1. req[o].user = u
            BY <3>2, <4>1, <1>6, <1>17 DEF Stores
          <5> QED BY <5>1, <3>2, <2>2, <1>23
        <4>2. CASE p # r
          BY <3>1, <3>2, <4>2, <1>17 DEF AskedOk
        <4> QED BY <4>1, <4>2
      <3>3. ASSUME req[o].pc = "store"
            PROVE  /\ Ag!IsSubsequence(req[o].copy, turns'[req[o].user])
                   /\ req[o].user \notin crossed => req[o].copy = data'[backend].hist[req[o].user]
        <4>0. req[o] \in Asking /\ Stores(req[o])
          BY <3>3, AskingIs, AskIsTyped DEF Stores
        <4>1. PICK v \in AgentUsers : v = req[o].user
          BY <4>0 DEF Asking
        <4>2. PICK y \in Seq(Said) : y = req[o].copy
          BY <4>0 DEF Asking
        <4>3. Ag!IsSubsequence(y, turns[v]) /\ (v \notin crossed => y = data[backend].hist[v])
          BY <3>1, <3>3, <4>1, <4>2 DEF AskedOk
        <4>4. CASE v = u
          <5>1. u \in crossed
            BY <4>0, <4>1, <4>4, <2>2, <1>23
          <5>2. Ag!IsSubsequence(y, b)
            BY <4>3, <4>4, <1>7, <1>10, SubRight
          <5> QED BY <5>1, <5>2, <4>1, <4>2, <4>4, <1>16
        <4>5. CASE v # u
          BY <4>1, <4>2, <4>3, <4>5, <1>11, <1>13, <1>15, <1>16
        <4> QED BY <4>4, <4>5
      <3> QED BY <3>1, <3>2, <3>3, <1>17 DEF AskedOk
    <2> QED BY <2>1, <2>2
  <1>25. TurnInv'
    <2> SUFFICES ASSUME NEW v \in AgentUsers \ crossed
                 PROVE  /\ (\A o \in 1 .. Len(req) : ~Half(o, v)') => WholeTurns(turns'[v])
                        /\ \A o \in 1 .. Len(req) : Half(o, v)' => BegunTurn(turns'[v], o)
      BY <1>17 DEF TurnInv
    <2>1. CASE v # u
      <3>1. \A o \in 1 .. Len(req) : Half(o, v)' <=> Half(o, v)
        BY <2>1, <1>2, <1>6, <1>17 DEF Half, Stores
      <3> QED BY <2>1, <3>1, <1>16 DEF TurnInv
    <2>2. CASE v = u
      <3>1. \A o \in 1 .. Len(req) : o # r => ~Half(o, u) /\ ~Half(o, u)'
        BY <2>2, <1>17, <1>23 DEF Half
      <3>2. CASE left = Ag!Turn(r)
        <4>1. left # <<<<"assistant", r>>>>
          BY <3>2, <1>0, TurnIs
        <4>2. ~Half(r, u)
          BY <4>1, <1>3 DEF Half
        <4>3. WholeTurns(t)
          BY <4>2, <3>1, <2>2, <1>7 DEF TurnInv
        <4>4. BegunTurn(b, r) /\ Half(r, u)'
          BY <4>1, <4>3, <1>0, <1>6, <1>10, <1>17, QuestionBegins DEF Half, Stores
        <4> QED BY <4>4, <3>1, <2>2, <1>16
      <3>3. CASE left = <<<<"assistant", r>>>>
        <4>1. Half(r, u)
          BY <3>3, <1>2, <1>3 DEF Half
        <4>2. BegunTurn(t, r)
          BY <4>1, <2>2, <1>7 DEF TurnInv
        <4>3. left # Ag!Turn(r)
          BY <3>3, <1>0, TurnIs
        <4>4. WholeTurns(b) /\ ~Half(r, u)'
          BY <4>2, <4>3, <1>0, <1>6, <1>10, <1>17, AnswerCompletes DEF Half, Stores
        <4> QED BY <4>4, <3>1, <2>2, <1>16
      <3> QED BY <3>2, <3>3, <1>3
    <2> QED BY <2>1, <2>2
  <1> QED BY <1>18, <1>19, <1>22, <1>24, <1>25

LEMMA AppendRedisKeeps ==
  ASSUME AgentInv, NEW r \in 1 .. Len(req), Ag!AppendRedis(r)
  PROVE  AgentInv'
  <1>1. Stores(req[r]) /\ backend = "redis"
    BY DEF Ag!AppendRedis, Ag!At, Stores
  <1>2. req[r] \in Asking
    BY <1>1, RestIs
  <1>3. PICK u \in AgentUsers : u = req[r].user
    BY <1>2 DEF Asking
  <1>4. PICK s \in Seq(Said) : s = data[backend].hist[u]
    BY <1>1, HistIs DEF AgentInv
  <1>5. Ag!IsSubsequence(s, turns[req[r].user])
    BY <1>3, <1>4 DEF AgentInv, TailInv
  <1>6. /\ Ag!Stored(r, s)
        /\ UNCHANGED <<backend, today, upgraded, tries, admitted, waived, refused, forgot, crossed>>
    BY <1>3, <1>4 DEF Ag!AppendRedis, Ag!Cache
  <1> QED BY <1>1, <1>3, <1>4, <1>5, <1>6, StoredKeeps

LEMMA AppendStoresKeeps ==
  ASSUME AgentInv, NEW r \in 1 .. Len(req), Ag!AppendStores(r)
  PROVE  AgentInv'
  <1>1. Stores(req[r]) /\ req[r].pc = "store"
    BY DEF Ag!AppendStores, Ag!At, Stores
  <1>2. req[r] \in Asking
    BY <1>1, RestIs
  <1>3. PICK s \in Seq(Said) : s = req[r].copy
    BY <1>2 DEF Asking
  <1>4. /\ backend = "memory" /\ Ag!IsSubsequence(s, turns[req[r].user])
        /\ req[r].user \notin crossed => s = data[backend].hist[req[r].user]
    BY <1>1, <1>3 DEF AgentInv, AskedInv, AskedOk
  <1>5. /\ Ag!Stored(r, s)
        /\ UNCHANGED <<backend, today, upgraded, tries, admitted, waived, refused, forgot, crossed>>
    BY <1>3 DEF Ag!AppendStores
  <1> QED BY <1>1, <1>4, <1>5, StoredKeeps

-----------------------------------------------------------------------------
(* Agent: restarts, and the invariant *)

LEMMA EmptyIs ==
  /\ Ag!Empty \in Caches
  /\ \A u \in AgentUsers : Ag!Empty.hist[u] = <<>>
  /\ \A u \in AgentUsers, d \in Ag!Day : Ag!Empty.counter[u][d] = 0
  <1>1. <<>> \in Seq(Said)
    OBVIOUS
  <1>2. PICK e \in Seq(Said) : e = <<>>
    BY <1>1
  <1> QED BY <1>2 DEF Ag!Empty, Caches

LEMMA TailOfItself == ASSUME NEW s \in Seq(Said) PROVE TailOf(s, s)
  BY DEF TailOf

LEMMA AgRestartKeeps ==
  ASSUME AgentInv, Ag!AgentRestart
  PROVE  AgentInv'
  <1> USE DEF AgentInv
  <1>1. /\ backend' \in {"redis", "memory"} /\ data' = [data EXCEPT !["memory"] = Ag!Empty]
        /\ turns' = [u \in AgentUsers |-> data'[backend'].hist[u]]
        /\ req' = [r \in 1 .. Len(req) |-> Ag!Over] /\ AgentUsers \subseteq crossed'
        /\ Ag!Day \subseteq forgot' /\ UNCHANGED <<today, tries, admitted, waived, refused>>
        /\ upgraded' = IF backend = "redis" /\ backend' = "redis" THEN upgraded ELSE {}
    BY DEF Ag!AgentRestart, Ag!Backends, Ag!Requests
  <1>2. /\ data' \in [{"redis", "memory"} -> Caches] /\ data'["redis"] = data["redis"]
        /\ data'["memory"] = Ag!Empty
    BY <1>1, EmptyIs DEF AgentTypes
  <1>3. data'[backend'] \in Caches
    BY <1>1, <1>2
  <1>4. \A u \in AgentUsers : data'[backend'].hist[u] \in Seq(Said) /\ turns'[u] = data'[backend'].hist[u]
    BY <1>1, <1>3 DEF Caches
  <1>5. req' \in Seq(Asking \cup Through) /\ Len(req') = Len(req)
    BY <1>1, OverIsThrough DEF AgentTypes
  <1>6. AgentTypes'
    <2>1. turns' \in [AgentUsers -> Seq(Said)]
      BY <1>1, <1>4
    <2> QED BY <2>1, <1>1, <1>2, <1>5 DEF AgentTypes
  <1>7. CountInv'
    <2>1. \A b \in {"redis", "memory"}, u \in AgentUsers, d \in Ag!Day :
            data'[b].counter[u][d] <= tries[u][d]
      <3> TAKE b \in {"redis", "memory"}, u \in AgentUsers, d \in Ag!Day
      <3>1. tries[u][d] \in Nat
        BY CountsAre
      <3>2. CASE b = "memory"
        BY <3>1, <3>2, <1>2, EmptyIs
      <3>3. CASE b = "redis"
        BY <3>3, <1>2 DEF CountInv
      <3> QED BY <3>2, <3>3
    <2>2. upgraded' \subseteq data'[backend'].vip
      BY <1>1, <1>2 DEF CountInv
    <2> QED BY <2>1, <2>2, <1>1 DEF CountInv
  <1>8. TailInv'
    <2>1. \A b \in {"redis", "memory"}, u \in AgentUsers : Len(data'[b].hist[u]) <= MaxLen
      <3> TAKE b \in {"redis", "memory"}, u \in AgentUsers
      <3>1. CASE b = "memory"
        BY <3>1, <1>2, EmptyIs, AgentSettings
      <3>2. CASE b = "redis"
        BY <3>2, <1>2 DEF TailInv
      <3> QED BY <3>1, <3>2
    <2>2. \A u \in AgentUsers : /\ Ag!IsSubsequence(data'[backend'].hist[u], turns'[u])
                                /\ TailOf(data'[backend'].hist[u], turns'[u])
      BY <1>4, SubRefl, TailOfItself
    <2> QED BY <2>1, <2>2 DEF TailInv
  <1>9. AskedInv' /\ TurnInv'
    <2>1. \A r \in 1 .. Len(req) : req'[r].pc = "over"
      BY <1>1, OverIsThrough
    <2> QED BY <2>1, <1>1, <1>5 DEF AskedInv, AskedOk, TurnInv, Stores
  <1> QED BY <1>6, <1>7, <1>8, <1>9

LEMMA AgentInit == Ag!Init => AgentInv
  <1> SUFFICES ASSUME Ag!Init PROVE AgentInv
    OBVIOUS
  <1>1. PICK e \in Seq(Said) : e = <<>> /\ Len(e) = 0
    <2>1. <<>> \in Seq(Said) /\ Len(<<>>) = 0
      OBVIOUS
    <2> QED BY <2>1
  <1>2. /\ backend \in {"redis", "memory"} /\ data \in [{"redis", "memory"} -> Caches]
        /\ \A b \in {"redis", "memory"} : data[b] = Ag!Empty
    BY EmptyIs DEF Ag!Init, Ag!Backends
  <1>3. turns \in [AgentUsers -> Seq(Said)] /\ \A u \in AgentUsers : turns[u] = e
    BY <1>1 DEF Ag!Init
  <1>4. req = <<>> /\ req \in Seq(Asking \cup Through) /\ Len(req) = 0
    BY DEF Ag!Init
  <1>5. /\ tries \in [AgentUsers -> [Ag!Day -> Nat]] /\ today \in Ag!Day
        /\ \A u \in AgentUsers, d \in Ag!Day : tries[u][d] = 0
    BY AgentSettings DEF Ag!Init, Ag!Day
  <1>6. /\ admitted \in [AgentUsers -> [Ag!Day -> [Ag!Tiers -> Nat]]]
        /\ \A u \in AgentUsers, d \in Ag!Day, n \in Ag!Tiers : admitted[u][d][n] = 0
        /\ waived = admitted
    BY DEF Ag!Init
  <1>7. AgentTypes
    BY <1>2, <1>3, <1>4, <1>5, <1>6 DEF AgentTypes
  <1>8. CountInv
    <2>1. \A b \in {"redis", "memory"}, u \in AgentUsers, d \in Ag!Day : data[b].counter[u][d] = 0
      BY <1>2, EmptyIs
    <2>2. \A n \in Ag!Tiers : 0 <= n
      BY AgentSettings DEF Ag!Tiers
    <2>3. refused = {} /\ upgraded = {}
      BY DEF Ag!Init
    <2>4. \A u \in AgentUsers, d \in Ag!Day \ forgot, n \in Ag!Tiers :
            /\ admitted[u][d][n] <= n + waived[u][d][n]
            /\ admitted[u][d][n] <= data[backend].counter[u][d] + waived[u][d][n]
      <3> TAKE u \in AgentUsers, d \in Ag!Day \ forgot, n \in Ag!Tiers
      <3>1. admitted[u][d][n] = 0 /\ waived[u][d][n] = 0 /\ data[backend].counter[u][d] = 0
        BY <1>2, <1>6, <2>1
      <3>2. n \in Nat
        BY AgentSettings DEF Ag!Tiers
      <3> QED BY <3>1, <3>2
    <2> QED BY <2>1, <2>3, <2>4, <1>2, <1>5 DEF CountInv
  <1>9. TailInv
    <2>1. \A b \in {"redis", "memory"}, u \in AgentUsers : data[b].hist[u] = e
      BY <1>1, <1>2, EmptyIs
    <2> QED BY <2>1, <1>1, <1>2, <1>3, SubRefl, TailOfItself, AgentSettings DEF TailInv
  <1>10. AskedInv
    BY <1>4 DEF AskedInv
  <1>11. TurnInv
    <2>1. WholeTurns(e)
      BY <1>1 DEF WholeTurns, Pairs
    <2> QED BY <2>1, <1>3, <1>4 DEF TurnInv
  <1> QED BY <1>7, <1>8, <1>9, <1>10, <1>11 DEF AgentInv

LEMMA AgentStep == AgentInv /\ [Ag!Next]_agentVars => AgentInv'
  <1> SUFFICES ASSUME AgentInv, [Ag!Next]_agentVars PROVE AgentInv'
    OBVIOUS
  <1>1. ASSUME NEW r \in 1 .. Len(req), Ag!RequestStep(r) \/ Ag!CallerGone(r) PROVE AgentInv'
    BY <1>1, AllowKeeps, UncountedKeeps, ChatKeeps, WithoutTraceKeeps, AppendRedisKeeps,
       AppendFailsKeeps, AppendReadsKeeps, AppendStoresKeeps, CallerGoneKeeps DEF Ag!RequestStep
  <1>2. ASSUME NEW u \in AgentUsers, Ag!ProcessMessage(u) \/ Ag!ProcessMessageUnsure(u) \/ Ag!HandleChat(u)
                                    \/ Ag!UpgradeVip(u) \/ Ag!UpgradeFails(u)
        PROVE  AgentInv'
    BY <1>2, NewReqKeeps, UpgradeKeeps
  <1>3. CASE Ag!Midnight
    BY <1>3, MidnightKeeps
  <1>4. CASE Ag!AgentRestart
    BY <1>4, AgRestartKeeps
  <1>5. CASE UNCHANGED agentVars
    <2>1. TailInv' /\ AskedInv' /\ TurnInv'
      BY <1>5, OnlyCounts DEF agentVars
    <2> QED BY <1>5, <2>1 DEF agentVars, AgentInv, AgentTypes, CountInv
  <1> QED BY <1>1, <1>2, <1>3, <1>4, <1>5 DEF Ag!Next, Ag!Requests

\* What the invariant says of the history: it is the tail of what was stored, in whole turns.
LEMMA TailIsSubSeq ==
  ASSUME NEW h \in Seq(Said), NEW t \in Seq(Said), TailOf(h, t)
  PROVE  h = SubSeq(t, Len(t) - Len(h) + 1, Len(t)) /\ (Len(h) < MaxLen => h = t)
  <1>1. /\ Len(h) <= Len(t) /\ \A i \in 1 .. Len(h) : h[i] = t[Len(t) - Len(h) + i]
        /\ Len(h) < MaxLen => h = t
    BY DEF TailOf
  <1>2. PICK k \in 1 .. Len(t) + 1 : k = Len(t) - Len(h) + 1
    BY <1>1
  <1>3. PICK s : s = SubSeq(t, k, Len(t))
    OBVIOUS
  <1>4. /\ s \in Seq(Said) /\ Len(s) = Len(h)
        /\ \A i \in 1 .. Len(h) : s[i] = t[k + i - 1]
    BY <1>1, <1>2, <1>3
  <1>5. \A i \in 1 .. Len(h) : k + i - 1 = Len(t) - Len(h) + i
    BY <1>2
  <1>6. \A i \in 1 .. Len(h) : s[i] = h[i]
    BY <1>1, <1>4, <1>5
  <1>7. s = h
    BY <1>4, <1>6
  <1> QED BY <1>1, <1>2, <1>3, <1>7

LEMMA Parity ==
  ASSUME NEW a \in Nat, NEW b \in Nat, NEW i \in Nat, a % 2 = 0, b % 2 = 0, i % 2 = 1
  PROVE  (b - a + i) % 2 = 1
  OBVIOUS

LEMMA TailIsPaired ==
  ASSUME NEW h \in Seq(Said), NEW t \in Seq(Said), TailOf(h, t), Len(h) <= MaxLen, WholeTurns(t),
         NEW i \in 1 .. Len(h), i % 2 = 1
  PROVE  i < Len(h) /\ h[i][1] = "user" /\ h[i + 1] = <<"assistant", h[i][2]>>
  <1>1. /\ Len(h) <= Len(t) /\ \A j \in 1 .. Len(h) : h[j] = t[Len(t) - Len(h) + j]
        /\ Len(h) < MaxLen => h = t
    BY DEF TailOf
  <1>2. Len(t) % 2 = 0 /\ Len(h) % 2 = 0
    <2>1. Len(t) % 2 = 0
      BY DEF WholeTurns
    <2>2. Len(h) = MaxLen \/ h = t
      <3>1. Len(h) \in Nat /\ MaxLen \in Nat
        BY AgentSettings
      <3> QED BY <3>1, <1>1
    <2> QED BY <2>1, <2>2, AgentSettings
  <1>3. i < Len(h) /\ i + 1 \in 1 .. Len(h)
    BY <1>2
  <1>4. PICK a \in Nat, b \in Nat : a = Len(h) /\ b = Len(t)
    OBVIOUS
  <1>k. b - a + i \in Nat
    BY <1>1, <1>4
  <1>l. PICK k \in Nat : k = b - a + i
    BY <1>k
  <1>5. k \in 1 .. Len(t) /\ k % 2 = 1 /\ k + 1 = b - a + (i + 1)
    <2>1. k \in 1 .. b /\ k + 1 = b - a + (i + 1)
      BY <1>1, <1>4, <1>l
    <2>2. k % 2 = 1
      BY <1>2, <1>4, <1>l, Parity
    <2> QED BY <2>1, <2>2, <1>4
  <1>6. t[k][1] = "user" /\ t[k + 1] = <<"assistant", t[k][2]>>
    BY <1>5 DEF WholeTurns, Pairs
  <1> QED BY <1>1, <1>3, <1>4, <1>l, <1>5, <1>6

\* goagent: no more requests of a user pass at a tier on a day than the tier
\* allows and the counter's failures let through, nobody is refused who has not
\* used up what its tier allows, but for failed look-ups, and the history is
\* the tail of what was said, in whole turns, in the ways Agent!AgentSound
\* names, for any number of users, requests and days, any limits, and any even
\* length of the history.
THEOREM AgentStands == Spec => []AgentSound
  <1> DEFINE Inv == part = "agent" => AgentInv
  <1>1. Init => Inv
    BY AgentInit DEF Init
  <1>2. Inv /\ [Next]_allVars => Inv'
    <2> SUFFICES ASSUME Inv, [Next]_allVars, part' = "agent" PROVE AgentInv'
      OBVIOUS
    <2>1. part = "agent" /\ [Ag!Next]_agentVars
      BY DEF Next, Steps, allVars
    <2> QED BY <2>1, AgentStep
  <1>3. AgentInv => Ag!AgentSound
    <2> SUFFICES ASSUME AgentInv PROVE Ag!AgentSound
      OBVIOUS
    <2>0. backend \in {"redis", "memory"} /\ \A u \in AgentUsers :
            /\ data[backend].hist[u] \in Seq(Said) /\ turns[u] \in Seq(Said)
            /\ Len(data[backend].hist[u]) <= MaxLen
      BY HistIs DEF AgentInv, AgentTypes, TailInv
    <2>1. Ag!QuotaHolds /\ Ag!RefusedIsUsedUp
      BY DEF AgentInv, CountInv, Ag!QuotaHolds, Ag!RefusedIsUsedUp
    <2>2. Ag!HistoryIsTail
      <3> SUFFICES ASSUME NEW u \in AgentUsers
                   PROVE  LET h == data[backend].hist[u]
                              t == turns[u]
                          IN /\ Len(h) <= MaxLen
                             /\ IF backend = "redis" \/ u \notin crossed
                                THEN h = SubSeq(t, Len(t) - Len(h) + 1, Len(t)) /\ (Len(h) < MaxLen => h = t)
                                ELSE Ag!IsSubsequence(h, t)
        BY DEF Ag!HistoryIsTail, Ag!Cache
      <3>1. backend = "redis" \/ u \notin crossed => TailOf(data[backend].hist[u], turns[u])
        BY DEF AgentInv, TailInv
      <3>2. Ag!IsSubsequence(data[backend].hist[u], turns[u])
        BY DEF AgentInv, TailInv
      <3> QED BY <2>0, <3>1, <3>2, TailIsSubSeq
    <2>3. Ag!TurnsPaired
      <3> SUFFICES ASSUME NEW u \in AgentUsers \ crossed, \A r \in Ag!Requests : ~Ag!Storing(r),
                          NEW i \in 1 .. Len(data[backend].hist[u]), i % 2 = 1
                   PROVE  LET h == data[backend].hist[u]
                          IN i < Len(h) /\ h[i][1] = "user" /\ h[i + 1] = <<"assistant", h[i][2]>>
        BY DEF Ag!TurnsPaired, Ag!Cache
      <3>1. \A r \in 1 .. Len(req) : ~Half(r, u)
        BY DEF Half, Stores, Ag!Storing, Ag!Requests
      <3>2. WholeTurns(turns[u]) /\ TailOf(data[backend].hist[u], turns[u])
        BY <3>1 DEF AgentInv, TurnInv, TailInv
      <3> QED BY <2>0, <3>2, TailIsPaired
    <2> QED BY <2>1, <2>2, <2>3 DEF Ag!AgentSound
  <1>4. Inv => AgentSound
    BY <1>3 DEF AgentSound
  <1> QED BY <1>1, <1>2, <1>4, PTL DEF Spec
=============================================================================
