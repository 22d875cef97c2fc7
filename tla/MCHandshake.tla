----------------------------- MODULE MCHandshake -----------------------------
EXTENDS Handshake, TLC

(* The third session takes the id of the first again. *)
MCId == 1 :> 1 @@ 2 :> 2 @@ 3 :> 1

MCPlans ==
    {[calm |-> TRUE, timeouts |-> 0, failures |-> 0, closes |-> 0],
     [calm |-> FALSE, timeouts |-> 1, failures |-> 0, closes |-> 1],
     [calm |-> FALSE, timeouts |-> 0, failures |-> 1, closes |-> 2]}
=============================================================================
