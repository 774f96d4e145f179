--------------------------- MODULE MCUserAccounts ---------------------------
(* Three requests, two of them on one worker.  The registrations clash in   *)
(* the name or in the address, and a login knows the password or does not.  *)
EXTENDS UserAccounts, TLC

CONSTANTS r1, r2, r3, w1, w2

MCWorkerOf == (r1 :> w1) @@ (r2 :> w1) @@ (r3 :> w2)

MCBodies ==
  {[kind |-> "register", name |-> b[1], email |-> b[2], password |-> b[3]] :
     b \in {<<"ann", "ann@", "secret">>, <<"ann", "bob@", "guess">>, <<"bob", "ann@", "guess">>}}
  \cup {[kind |-> "login", name |-> "ann", password |-> p] : p \in {"secret", "guess"}}
=============================================================================
