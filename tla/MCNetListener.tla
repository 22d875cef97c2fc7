---------------------------- MODULE MCNetListener ---------------------------
(* Two sessions, one with two streams and one with a single stream, and     *)
(* channels of one entry: both channels fill.                               *)
EXTENDS NetListener, TLC

CONSTANTS s1, s2, x1, x2, x3

MCOf == x1 :> s1 @@ x2 :> s1 @@ x3 :> s2
=============================================================================
