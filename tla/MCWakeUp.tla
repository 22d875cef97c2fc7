------------------------------ MODULE MCWakeUp ------------------------------
(* Small instances of WakeUp, with a sendCh of one entry: for safety two   *)
(* flushers, one call of waitForSend and one hot restart event, so that    *)
(* every writer meets every other; for liveness two flushers and two calls *)
(* of waitForSend, so that the slow path meets a full channel.             *)
EXTENDS WakeUp, TLC

(* The flushers are interchangeable in the invariants. *)
FlusherSymmetry == Permutations(Flushers)
=============================================================================
