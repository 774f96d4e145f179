------------------------ MODULE MCConversationCache ------------------------
(* A small instance of ConversationCache: ann's conversation is asked for by *)
(* both users, and two entries are too few for the three keys.  One worker    *)
(* is enough: caches share nothing but the database, and a write on another   *)
(* worker is to this one a write that invalidates nothing (LeaveWrite).       *)
EXTENDS ConversationCache, TLC

CONSTANTS ann, bob, c1

MCOwner == c1 :> ann
=============================================================================
