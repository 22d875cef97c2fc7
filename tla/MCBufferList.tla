---------------------------- MODULE MCBufferList ----------------------------
(* Instances of BufferList: goroutines that do not allocate are            *)
(* interchangeable.                                                        *)
EXTENDS BufferList, TLC

PusherSymmetry == Permutations(Procs \ Poppers)
=============================================================================
