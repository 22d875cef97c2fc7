------------------------------ MODULE MCSession -----------------------------
(* Two goroutines on one session with a pool of one stream. *)
EXTENDS Session

Plan(g, s, f, c, x, d) == [gets |-> g, sends |-> s, falls |-> f, closes |-> c, shuts |-> x,
                           deadlines |-> d]

(* Reuse of a stream three times with a late answer; the server closes a    *)
(* stream that is in use; one flush falls back; the session closes under    *)
(* its users.                                                               *)
MCPlans == {Plan(3, 2, 0, 0, 0, 1), Plan(2, 2, 0, 1, 0, 0), Plan(2, 2, 1, 0, 0, 0),
            Plan(3, 1, 0, 0, 1, 0)}

FallbackPlan == {Plan(2, 1, 1, 0, 0, 1)}
=============================================================================
