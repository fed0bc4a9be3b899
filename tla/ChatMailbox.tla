----------------------------- MODULE ChatMailbox -----------------------------
(***************************************************************************)
(* What chat delivery promises to one receiver of one message: accepted    *)
(* once, then on its way until it is delivered or lost for good.  A        *)
(* delivered message stays delivered; a lost one never comes back.         *)
(***************************************************************************)
CONSTANTS Msgs, Users
VARIABLE place

Deliveries == Msgs \X Users
Places == {"none", "pending", "delivered", "lost"}

Init == place = [p \in Deliveries |-> "none"]

\* A message is accepted for a set of receivers.
Send(m, R) ==
  /\ \A u \in Users : place[<<m, u>>] = "none"
  /\ place' = [p \in Deliveries |->
                 IF p[1] = m /\ p[2] \in R THEN "pending" ELSE place[p]]

\* One receiver gets it.
Deliver(p) ==
  /\ place[p] = "pending"
  /\ place' = [place EXCEPT ![p] = "delivered"]

\* A crash, a closed connection or a failed INSERT takes some of what is on
\* its way.
Lose(L) ==
  /\ \A p \in L : place[p] = "pending"
  /\ place' = [p \in Deliveries |-> IF p \in L THEN "lost" ELSE place[p]]

Next ==
  \/ \E m \in Msgs, R \in SUBSET Users : Send(m, R)
  \/ \E p \in Deliveries : Deliver(p)
  \/ \E L \in SUBSET Deliveries : Lose(L)

Spec == Init /\ [][Next]_place
=============================================================================
