-------------------------- MODULE MCConversations --------------------------
(* Three requests, the first two of one user and the third of either of two, *)
(* each a chat, a stream or a deletion, with a new conversation or any of    *)
(* the others'.                                                              *)
EXTENDS Conversations

CONSTANTS r1, r2, r3, u1, u2

RequestsAre == {r1, r2, r3}
UsersAre    == {u1, u2}
UserOfIs    == [r \in RequestsAre |-> IF r = r3 THEN u2 ELSE u1]
AllOfOne    == [r \in RequestsAre |-> u1]
=============================================================================
