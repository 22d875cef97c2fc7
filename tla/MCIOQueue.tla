------------------------------ MODULE MCIOQueue ------------------------------
(* Two elements that differ in every field, so that a torn element shows.   *)
EXTENDS IOQueue

MCElement(n) == [seqID |-> n, offsetInShmBuf |-> n, status |-> n]
MCElements == {MCElement(n) : n \in {1, 2}}
MCZero == MCElement(0)
=============================================================================
