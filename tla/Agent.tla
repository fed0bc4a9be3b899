------------------------------- MODULE Agent -------------------------------
(***************************************************************************)
(* goagent's request path: AgentService.ProcessMessage with the daily      *)
(* quota of ratelimit.Limiter, the provider's Chat, and the conversation   *)
(* history in cache.Cache, Redis or its in-memory substitute; the HTTP     *)
(* /api/chat, which skips the quota; UpgradeVip.                           *)
(*                                                                         *)
(* A Redis command and a critical section of MemoryCache.mu are one step.  *)
(* MemoryCache.AppendHistory reads under one lock and stores under another.*)
(* A request whose caller's deadline passed goes on without it; its Redis  *)
(* and HTTP calls then fail, because they carry its context.               *)
(*                                                                         *)
(* A Redis command runs at most once; when it fails, it may have run.      *)
(*                                                                         *)
(* History variables: upgraded, turns, tries, admitted, waived, refused,   *)
(* forgot, crossed, and the field due of a request.                        *)
(***************************************************************************)
EXTENDS Integers, Sequences, FiniteSets

CONSTANTS
  MaxReqs,    \* bound: requests, one goroutine each
  AgentUsers, \* user ids
  FreeDaily, VipDaily,
  MaxLen,     \* messages AppendHistory keeps
  Days,       \* bound: days 1 .. Days
  MaxErrors   \* bound: failed calls, passed deadlines and restarts

Backends == {"redis", "memory"}

VARIABLES
  backend,  \* the cache main() settled for
  data,     \* what each backend holds: counters, VIP marks, histories
  today,    \* the date
  req,      \* the requests so far and where each is
  errors,   \* faults so far
  upgraded, \* history: users told that they are VIPs, on the present cache
  turns,    \* history: messages stored for each user, in order
  tries,    \* history: quota counts of each user and day
  admitted, \* history: requests that passed the quota, by user, day and limit
  waived,   \* history: those of them that passed because the count failed
  refused,  \* history: user, day and due limit of the requests that were refused
  forgot,   \* history: days on which a cache was lost or replaced
  crossed   \* history: users whose messages were not stored one request at a time

agentVars == <<backend, data, today, req, errors, upgraded, turns, tries, admitted, waived,
               refused, forgot, crossed>>
quotaVars == <<upgraded, tries, admitted, waived, refused, forgot>>

Day == 1 .. Days
Tiers == {FreeDaily, VipDaily}

Empty ==
  [counter |-> [u \in AgentUsers |-> [d \in Day |-> 0]],
   vip     |-> {},
   hist    |-> [u \in AgentUsers |-> <<>>]]

Requests == 1 .. Len(req)
Over == [pc |-> "over"]

Init ==
  /\ backend \in Backends
  /\ data = [b \in Backends |-> Empty]
  /\ today = 1
  /\ req = <<>>
  /\ errors = 0
  /\ turns = [u \in AgentUsers |-> <<>>]
  /\ tries = [u \in AgentUsers |-> [d \in Day |-> 0]]
  /\ admitted = [u \in AgentUsers |-> [d \in Day |-> [n \in Tiers |-> 0]]]
  /\ waived = admitted
  /\ upgraded = {} /\ refused = {} /\ forgot = {} /\ crossed = {}

Cache == data[backend]
Fault == errors < MaxErrors /\ errors' = errors + 1
\* A call fails: surely with a dead context, else as a fault.
FaultUnless(sure) == IF sure THEN UNCHANGED errors ELSE Fault
At(r, pc) == req[r].pc = pc
NewReq(pc, u, limit, due) ==
  [pc |-> pc, user |-> u, gone |-> FALSE, limit |-> limit, due |-> due, day |-> today,
   left |-> <<>>, copy |-> <<>>]
Cancelled(r) == req[r].gone /\ backend = "redis"

-----------------------------------------------------------------------------
(* Limiter *)

\* IsVIP: the mark in the cache.
Limit(u) == IF u \in Cache.vip THEN VipDaily ELSE FreeDaily

\* The limit a user may count on: that of the tier it was told.
Due(u) == IF u \in upgraded THEN VipDaily ELSE Limit(u)

\* Mutant: one counter for all days.
Key_AnyDay(d) == 1

\* ratelimit:agent:{user}:{YYYYMMDD}
Key(d) == d

Start(q) ==
  /\ Len(req) < MaxReqs
  /\ req' = Append(req, q)
  /\ UNCHANGED <<backend, data, today, turns, quotaVars, crossed>>

\* ProcessMessage starts: Allow looks up the tier and forms the day's key.
ProcessMessage(u) ==
  /\ Start(NewReq("quota", u, Limit(u), Due(u)))
  /\ UNCHANGED errors

\* The look-up fails: the user counts as a free one.
ProcessMessageUnsure(u) ==
  /\ backend = "redis" /\ u \in Cache.vip
  /\ Fault
  /\ Start(NewReq("quota", u, FreeDaily, FreeDaily))

Allowed(n, limit) == n <= limit

\* A request passes: it goes on to the provider.
Pass(r) ==
  /\ admitted' = [admitted EXCEPT ![req[r].user][req[r].day][req[r].limit] = @ + 1]
  /\ req' = [req EXCEPT ![r].pc = "call"]

\* INCR of the day's counter.
Counted(r) ==
  LET q == req[r]
  IN /\ data' = [data EXCEPT ![backend].counter[q.user][Key(q.day)] = @ + 1]
     /\ tries' = [tries EXCEPT ![q.user][q.day] = @ + 1]

\* IncrWithTTL counts first, then the verdict.
Allow(r) ==
  LET q == req[r]
  IN /\ At(r, "quota") /\ ~ Cancelled(r)
     /\ Counted(r)
     /\ IF Allowed(Cache.counter[q.user][Key(q.day)] + 1, q.limit)
        THEN Pass(r) /\ UNCHANGED refused
        ELSE /\ refused' = refused \cup {<<q.user, q.day, q.due>>}
             /\ req' = [req EXCEPT ![r] = Over]
             /\ UNCHANGED admitted
     /\ UNCHANGED <<backend, today, errors, upgraded, turns, waived, forgot, crossed>>

\* IncrWithTTL fails, having counted or not: the request passes.
AllowUncounted(r) ==
  LET q == req[r]
  IN /\ At(r, "quota") /\ backend = "redis"
     /\ FaultUnless(q.gone)
     /\ Counted(r) \/ UNCHANGED <<data, tries>>
     /\ Pass(r)
     /\ waived' = [waived EXCEPT ![q.user][q.day][q.limit] = @ + 1]
     /\ UNCHANGED <<backend, today, upgraded, turns, refused, forgot, crossed>>

Mark(u) == data' = [data EXCEPT ![backend].vip = @ \cup {u}]

\* UpgradeVip with a payment: IsVIP, then MarkVIP; the user is told.
UpgradeVip(u) ==
  /\ u \notin upgraded
  /\ Mark(u)
  /\ upgraded' = upgraded \cup {u}
  /\ UNCHANGED <<backend, today, req, errors, turns, tries, admitted, waived, refused, forgot,
                 crossed>>

\* MarkVIP fails: code 5, although the user may be marked.  (If not, nothing
\* has changed.)
UpgradeFails(u) ==
  /\ u \notin Cache.vip /\ backend = "redis"
  /\ Fault
  /\ Mark(u)
  /\ UNCHANGED <<backend, today, req, turns, quotaVars, crossed>>

-----------------------------------------------------------------------------
(* The provider *)

\* HTTP /api/chat goes straight to the provider.
HandleChat(u) ==
  /\ Start(NewReq("call", u, 0, 0))
  /\ UNCHANGED errors

\* Two requests of one user store their messages at the same time.
Storing(r) == req[r].pc \in {"append", "store"}
Meets(r) ==
  {u \in AgentUsers : req[r].user = u
     /\ \E o \in Requests \ {r} : Storing(o) /\ req[o].user = u}

Turn(r) == <<<<"user", r>>, <<"assistant", r>>>>

\* Chat succeeds with skill chat or social_action, which are remembered.
Chat(r) ==
  /\ At(r, "call") /\ ~ req[r].gone
  /\ req' = [req EXCEPT ![r].pc = "append", ![r].left = Turn(r)]
  /\ crossed' = crossed \cup Meets(r)
  /\ UNCHANGED <<backend, data, today, errors, turns, quotaVars>>

\* A skill that leaves no trace, a rag_qa that finds nothing, or a provider or
\* retriever that fails: codes 0, 2 and 3.
ChatWithoutTrace(r) ==
  /\ At(r, "call")
  /\ req' = [req EXCEPT ![r] = Over]
  /\ UNCHANGED <<backend, data, today, errors, turns, quotaVars, crossed>>

-----------------------------------------------------------------------------
(* AppendHistory, twice per turn *)

\* The last maxLen messages.
Trim(s) == IF Len(s) > MaxLen THEN SubSeq(s, Len(s) - MaxLen + 1, Len(s)) ELSE s

\* What is left of a request after one of its messages.
Rest(r) ==
  IF Len(req[r].left) = 1 THEN Over
  ELSE [req[r] EXCEPT !.pc = "append", !.left = Tail(@), !.copy = <<>>]

Stored(r, s) ==
  /\ data' = [data EXCEPT ![backend].hist[req[r].user] = Trim(Append(s, Head(req[r].left)))]
  /\ turns' = [turns EXCEPT ![req[r].user] = Append(@, Head(req[r].left))]
  /\ req' = [req EXCEPT ![r] = Rest(r)]

\* RPUSH, LTRIM and EXPIRE in one transaction.
AppendRedis(r) ==
  /\ At(r, "append") /\ backend = "redis" /\ ~ req[r].gone
  /\ Stored(r, Cache.hist[req[r].user])
  /\ UNCHANGED <<backend, today, errors, quotaVars, crossed>>

\* The error is dropped; the other message of the turn may still be stored.
AppendFails(r) ==
  /\ At(r, "append") /\ backend = "redis"
  /\ FaultUnless(req[r].gone)
  /\ req' = [req EXCEPT ![r] = Rest(r)]
  /\ crossed' = crossed \cup {req[r].user}
  /\ UNCHANGED <<backend, data, today, turns, quotaVars>>

\* MemoryCache: GetHistory under the read lock ...
AppendReads(r) ==
  /\ At(r, "append") /\ backend = "memory"
  /\ req' = [req EXCEPT ![r].pc = "store", ![r].copy = Cache.hist[req[r].user]]
  /\ UNCHANGED <<backend, data, today, errors, turns, quotaVars, crossed>>

\* ... and the new list under the write lock.
AppendStores(r) ==
  /\ At(r, "store")
  /\ Stored(r, req[r].copy)
  /\ UNCHANGED <<backend, today, errors, quotaVars, crossed>>

-----------------------------------------------------------------------------

\* The caller's deadline passes; the goroutine does not stop.
CallerGone(r) ==
  /\ req[r].pc \in {"quota", "call", "append", "store"} /\ ~ req[r].gone
  /\ Fault
  /\ req' = [req EXCEPT ![r].gone = TRUE]
  /\ UNCHANGED <<backend, data, today, turns, quotaVars, crossed>>

Midnight ==
  /\ today < Days
  /\ today' = today + 1
  /\ UNCHANGED <<backend, data, req, errors, turns, quotaVars, crossed>>

\* goagent starts again and takes Redis if it answers; memory does not survive.
AgentRestart ==
  /\ Fault
  /\ backend' \in Backends
  /\ data' = [data EXCEPT !["memory"] = Empty]
  /\ turns' = [u \in AgentUsers |-> data'[backend'].hist[u]]
  /\ req' = [r \in Requests |-> Over]
  /\ crossed' = crossed \cup AgentUsers
  /\ forgot' = forgot \cup Day
  /\ upgraded' = IF backend = "redis" /\ backend' = "redis" THEN upgraded ELSE {}
  /\ UNCHANGED <<today, tries, admitted, waived, refused>>

RequestStep(r) ==
  \/ Allow(r) \/ AllowUncounted(r) \/ Chat(r) \/ ChatWithoutTrace(r)
  \/ AppendRedis(r) \/ AppendFails(r) \/ AppendReads(r) \/ AppendStores(r)

Next ==
  \/ \E r \in Requests : RequestStep(r) \/ CallerGone(r)
  \/ \E u \in AgentUsers : ProcessMessage(u) \/ ProcessMessageUnsure(u) \/ HandleChat(u)
       \/ UpgradeVip(u) \/ UpgradeFails(u)
  \/ Midnight \/ AgentRestart

Spec == Init /\ [][Next]_agentVars

-----------------------------------------------------------------------------
(* Properties *)

\* On a day without a lost cache, however many requests of a user run at once,
\* no more pass at a tier than the tier allows and the counter's failures let
\* through (Limiter.Allow counts first, and fails open).
QuotaHolds ==
  \A u \in AgentUsers, d \in Day \ forgot, n \in Tiers : admitted[u][d][n] <= n + waived[u][d][n]

\* Nobody is refused who has not used up on that day what the tier it was told
\* allows; only a failed look-up makes a VIP a free user (IsVIP).
RefusedIsUsedUp == \A x \in refused : tries[x[1]][x[2]] > x[3]

IsSubsequence(s, t) ==
  \E f \in [1 .. Len(s) -> 1 .. Len(t)] :
    /\ \A i \in 1 .. Len(s) : s[i] = t[f[i]]
    /\ \A i, j \in 1 .. Len(s) : i < j => f[i] < f[j]

\* A user's history is the tail of what was stored for the user, in order; where
\* two of the user's requests stored at once in memory, messages may be missing,
\* but none is repeated or out of order.
HistoryIsTail ==
  \A u \in AgentUsers :
    LET h == Cache.hist[u]
        t == turns[u]
    IN /\ Len(h) <= MaxLen
       /\ IF backend = "redis" \/ u \notin crossed
          THEN h = SubSeq(t, Len(t) - Len(h) + 1, Len(t)) /\ (Len(h) < MaxLen => h = t)
          ELSE IsSubsequence(h, t)

\* Unless requests of a user crossed or a call failed, every question in the
\* history is followed by its own answer.
TurnsPaired ==
  \A u \in AgentUsers \ crossed :
    LET h == Cache.hist[u]
    IN (\A r \in Requests : ~ Storing(r)) =>
         \A i \in 1 .. Len(h) : i % 2 = 1 =>
           i < Len(h) /\ h[i][1] = "user" /\ h[i + 1] = <<"assistant", h[i][2]>>

\* goagent: the quota is that of the user's tier and day, but for failed look-ups
\* and counts, and the history is what was said, however requests overlap and the
\* cache is lost.
AgentSound ==
  /\ QuotaHolds
  /\ RefusedIsUsedUp
  /\ HistoryIsTail
  /\ TurnsPaired
=============================================================================
