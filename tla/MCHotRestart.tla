---------------------------- MODULE MCHotRestart ----------------------------
EXTENDS HotRestart, TLC

(* Two hot restarts of a session, with one lost around them; one hot restart *)
(* of two sessions; a session lost and a server crashed around a hot         *)
(* restart; and a dial that fails and Close at any time.                     *)
MCPlans ==
    {[sessions |-> 1, restarts |-> 2, dials |-> 0, losses |-> 1,
      crashes |-> 0, close |-> FALSE],
     [sessions |-> 2, restarts |-> 1, dials |-> 0, losses |-> 0,
      crashes |-> 0, close |-> FALSE],
     [sessions |-> 1, restarts |-> 1, dials |-> 0, losses |-> 1,
      crashes |-> 1, close |-> FALSE],
     [sessions |-> 1, restarts |-> 1, dials |-> 1, losses |-> 0,
      crashes |-> 0, close |-> TRUE]}

(* A client that goes away before a hot restart. *)
LossPlan ==
    {[sessions |-> 1, restarts |-> 1, dials |-> 0, losses |-> 1,
      crashes |-> 0, close |-> FALSE]}

(* A second hot restart after one that timed out. *)
RetryPlan ==
    {[sessions |-> 2, restarts |-> 2, dials |-> 0, losses |-> 0,
      crashes |-> 0, close |-> FALSE]}
=============================================================================
