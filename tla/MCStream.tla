------------------------------ MODULE MCStream ------------------------------
(* Instances of Stream for model checking. *)
EXTENDS Stream
=============================================================================
