---------------------------- MODULE MCDispatcher ----------------------------
(* Two connections, together or one after the other with the same          *)
(* descriptor.  Either their peers send events, which a read buffer of two *)
(* units has to grow for, or goroutines write frames of two units to       *)
(* sockets that take one.                                                  *)
EXTENDS Dispatcher, TLC

CONSTANTS c1, c2

Sends(n) == c1 :> n @@ c2 :> 0

MCPlans == {[uses |-> {c1}, sends |-> Sends(2), writers |-> {}],
            [uses |-> {c1, c2}, sends |-> Sends(1), writers |-> {}],
            [uses |-> {c1, c2}, sends |-> Sends(0), writers |-> {c1}]}
=============================================================================
