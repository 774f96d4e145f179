------------------------ MODULE MCDocumentIngestion ------------------------
(* A small instance of DocumentIngestion: the documents of two owners queue   *)
(* for the single permit of one worker, or have a worker each (Init tries     *)
(* every placement), and both delete requests are sent by one of the owners.  *)
EXTENDS DocumentIngestion, TLC

CONSTANTS d1, d2, r1, r2, ann, bob

MCOwner  == d1 :> ann @@ d2 :> bob
MCCaller == r1 :> ann @@ r2 :> ann
=============================================================================
