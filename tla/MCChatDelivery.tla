--------------------------- MODULE MCChatDelivery ---------------------------
(* Instances of ChatDelivery for TLC. *)
EXTENDS ChatDelivery, TLC

CONSTANTS alice, bob

\* Everybody is everybody's friend, or nobody has friends.
AllFriends == [u \in Users |-> Users \ {u}]
NoFriends  == [u \in Users |-> {}]
AllMembers == [g \in Groups |-> Users]

\* Connections 1 and 2 belong to alice, 3 to bob.
TwoDevices == {<<1, alice>>, <<2, alice>>, <<3, bob>>}

\* One connection for each user.
OneEach == {<<1, alice>>, <<2, bob>>}

\* Messages are alike.
MsgSymmetry == Permutations(Msgs)
=============================================================================
