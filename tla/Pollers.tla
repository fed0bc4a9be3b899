------------------------------- MODULE Pollers -------------------------------
(***************************************************************************)
(* net/poller: the two implementations of Poller, over the channels of one *)
(* loop.  EPollPoller keeps the kernel's interest list in step with the    *)
(* channels by epoll_ctl; PollPoller keeps an array for poll(2) in which a *)
(* channel knows its place, ignores an entry by negating its descriptor    *)
(* and removes one by moving the last into its place.  Everything runs in  *)
(* the loop's thread.  Descriptors are reused as soon as they are closed.  *)
(*                                                                         *)
(* History variables: blank, pollFailed.                                   *)
(***************************************************************************)
EXTENDS Integers, Sequences, FiniteSets

CONSTANTS
  Fds,        \* descriptors
  MaxChannels \* bound: Channel objects

VARIABLES
  pollKind,  \* newDefaultPoller's choice: "epoll" or "poll"
  chans,     \* the Channel objects so far: fd_, events_, index_ and their life
  chanMap,   \* channels_: set of <<fd, channel>>
  pollfds,   \* pollfds_
  interest,  \* the kernel's interest list: [fd, ptr, events]
  blank,     \* history: some channel's first update asked for no event
  pollFailed \* history: assertions and epoll_ctl calls that failed

pollerVars == <<pollKind, chans, chanMap, pollfds, interest, blank, pollFailed>>

kNew == -1
kAdded == 1
kDeleted == 2

Init ==
  /\ pollKind \in {"epoll", "poll"}
  /\ chans = <<>> /\ chanMap = {} /\ pollfds = <<>> /\ interest = {}
  /\ blank = FALSE /\ pollFailed = {}

Closed == [fd |-> -1, events |-> {}, index |-> kNew, life |-> "closed"]
Channels == 1 .. Len(chans)
Open == {chans[c].fd : c \in {x \in Channels : chans[x].life # "closed"}}
Knows(c) == <<chans[c].fd, c>> \in chanMap
Registered(fd) == \E p \in chanMap : p[1] = fd
Failing(name, holds) == {a \in {name} : ~ holds}

\* The events of channel c are ev from here on, at place i.
Is(c, ev, i, life) ==
  chans' = [chans EXCEPT ![c] = [fd |-> @.fd, events |-> ev, index |-> i, life |-> life]]

-----------------------------------------------------------------------------
(* EPollPoller *)

\* epoll_ctl, with the new interest list and whether the kernel takes it.
Without(fd) == {e \in interest : e.fd # fd}
Listed(fd) == \E e \in interest : e.fd = fd
Entry(c, ev) == [fd |-> chans[c].fd, ptr |-> c, events |-> ev]

\* Mutant: MOD is left out.
Modified_Not(c, ev) == interest

\* EPOLL_CTL_MOD
Modified(c, ev) == Without(chans[c].fd) \cup {Entry(c, ev)}

\* A channel the kernel does not know: ADD it.
IsOut(i) == i \in {kNew, kDeleted}

EPollUpdate(c, ev) ==
  LET fd == chans[c].fd
      i == chans[c].index
  IN IF IsOut(i)
     THEN /\ Is(c, ev, kAdded, "added")
          /\ chanMap' = chanMap \cup {<<fd, c>>}
          /\ interest' = Without(fd) \cup {Entry(c, ev)}
          /\ pollFailed' = pollFailed
               \cup Failing("map", IF i = kNew THEN ~ Registered(fd) ELSE Knows(c))
               \cup Failing("add", ~ Listed(fd))
     ELSE /\ Is(c, ev, IF ev = {} THEN kDeleted ELSE kAdded, "added")
          /\ interest' = IF ev = {} THEN Without(fd) ELSE Modified(c, ev)
          /\ pollFailed' = pollFailed \cup Failing("map", Knows(c)) \cup Failing("ctl", Listed(fd))
          /\ UNCHANGED chanMap

EPollRemove(c) ==
  LET fd == chans[c].fd
      i == chans[c].index
  IN /\ Is(c, {}, kNew, "removed")
     /\ chanMap' = chanMap \ {<<fd, c>>}
     /\ interest' = IF i = kAdded THEN Without(fd) ELSE interest
     /\ pollFailed' = pollFailed \cup Failing("map", Knows(c))
                        \cup Failing("del", i = kAdded => Listed(fd))

-----------------------------------------------------------------------------
(* PollPoller: index_ counts from 0 *)

Ignored(fd) == -fd - 1
At(i) == pollfds[i + 1]
IsPlace(i) == i >= 0 /\ i < Len(pollfds)

\* An entry poll(2) skips has a negative descriptor.
PollFd(fd, ev) == IF ev = {} THEN Ignored(fd) ELSE fd

PollUpdate(c, ev) ==
  LET fd == chans[c].fd
      i == chans[c].index
  IN IF i < 0
     THEN /\ Is(c, ev, Len(pollfds), "added")
          /\ pollfds' = Append(pollfds, [fd |-> fd, events |-> ev])
          /\ chanMap' = chanMap \cup {<<fd, c>>}
          /\ pollFailed' = pollFailed \cup Failing("map", ~ Registered(fd))
     ELSE /\ Is(c, ev, i, "added")
          /\ pollfds' = [pollfds EXCEPT ![i + 1] = [fd |-> PollFd(fd, ev), events |-> ev]]
          /\ pollFailed' = pollFailed \cup Failing("map", Knows(c))
               \cup Failing("place", IsPlace(i) /\ At(i).fd \in {fd, Ignored(fd)})
          /\ UNCHANGED chanMap

\* The entry of channel `last` moves to place i.
Moved(c, last, i) == [chans EXCEPT ![c].life = "removed", ![last].index = i]

PollRemove(c) ==
  LET fd == chans[c].fd
      i == chans[c].index
      end == pollfds[Len(pollfds)]
      others == SubSeq(pollfds, 1, Len(pollfds) - 1)
      lastFd == IF end.fd < 0 THEN Ignored(end.fd) ELSE end.fd
      last == CHOOSE x \in Channels : <<lastFd, x>> \in chanMap
  IN /\ pollFailed' = pollFailed \cup Failing("map", Knows(c))
          \cup Failing("place", IsPlace(i) /\ At(i) = [fd |-> Ignored(fd), events |-> {}])
     /\ chanMap' = chanMap \ {<<fd, c>>}
     /\ IF i = Len(pollfds) - 1
        THEN /\ chans' = [chans EXCEPT ![c].life = "removed"]
             /\ pollfds' = others
        ELSE /\ chans' = Moved(c, last, i)
             /\ pollfds' = [others EXCEPT ![i + 1] = end]

-----------------------------------------------------------------------------
(* Channel, as its owners use it *)

\* A socket is opened and its Channel made.
NewChannel(fd) ==
  /\ Len(chans) < MaxChannels /\ fd \notin Open
  /\ chans' = Append(chans, [fd |-> fd, events |-> {}, index |-> kNew, life |-> "new"])
  /\ UNCHANGED <<pollKind, chanMap, pollfds, interest, blank, pollFailed>>

\* enableReading, enableWriting, disableWriting and disableAll.
Update(c, ev) ==
  /\ chans[c].life \in {"new", "added"}
  /\ blank' = (blank \/ (chans[c].life = "new" /\ ev = {}))
  /\ \/ pollKind = "epoll" /\ EPollUpdate(c, ev) /\ UNCHANGED pollfds
     \/ pollKind = "poll" /\ PollUpdate(c, ev) /\ UNCHANGED interest
  /\ UNCHANGED pollKind

\* remove, which asserts that no event is asked for.
RemoveChannel(c) ==
  /\ chans[c].life = "added" /\ chans[c].events = {}
  /\ \/ pollKind = "epoll" /\ EPollRemove(c) /\ UNCHANGED pollfds
     \/ pollKind = "poll" /\ PollRemove(c) /\ UNCHANGED interest
  /\ UNCHANGED <<pollKind, blank>>

\* The descriptor is closed; the kernel forgets it.
Close(c) ==
  /\ chans[c].life \in {"new", "removed"}
  /\ chans' = [chans EXCEPT ![c] = Closed]
  /\ interest' = Without(chans[c].fd)
  /\ UNCHANGED <<pollKind, chanMap, pollfds, blank, pollFailed>>

Next ==
  /\ pollFailed = {}
  /\ \/ \E fd \in Fds : NewChannel(fd)
     \/ \E c \in Channels :
          RemoveChannel(c) \/ Close(c) \/ \E ev \in SUBSET {"r", "w"} : Update(c, ev)

Spec == Init /\ [][Next]_pollerVars

-----------------------------------------------------------------------------
(* Properties *)

\* What poll and epoll_wait watch: descriptor, the channel fillActiveChannels
\* would find for it, and the events.
Watched ==
  IF pollKind = "epoll" THEN {<<e.fd, e.ptr, e.events>> : e \in interest}
  ELSE {<<pollfds[p[1]].fd, p[2], pollfds[p[1]].events>> : p \in
          {p \in (1 .. Len(pollfds)) \X Channels : <<pollfds[p[1]].fd, p[2]>> \in chanMap}}

\* Either poller watches exactly what the channels ask for, on behalf of the
\* channel that asks, also after others were removed and descriptors reused.
WatchedIsAsked ==
  LET Busy(s) == {w \in s : w[3] # {}}
  IN pollFailed = {} =>
       Busy(Watched) = Busy({<<chans[c].fd, c, chans[c].events>> : c \in
                               {x \in Channels : chans[x].life = "added"}})

\* The pollers' assertions and epoll_ctl calls succeed, except that PollPoller
\* cannot remove a channel whose first update asked for nothing: its entry was
\* never negated.  (An Acceptor destroyed before listen() is such a channel.)
PollCallsSucceed == pollFailed # {} => pollKind = "poll" /\ blank

\* EPollPoller and PollPoller watch what the channels ask for, through removals
\* and reused descriptors, and their calls succeed.
PollersSound ==
  /\ WatchedIsAsked
  /\ PollCallsSucceed
=============================================================================
