--------------------------- MODULE MCLinkedBuffer ---------------------------
(* Instances of LinkedBuffer: slices of one and of two bytes. *)
EXTENDS LinkedBuffer

CONSTANTS a1, a2, a3, b1, b2

MCSlices == {a1, a2, a3, b1, b2}
MCCapOf == [s \in MCSlices |-> IF s \in {a1, a2, a3} THEN 1 ELSE 2]
MCMaxBytes == [e \in {"client", "server"} |-> IF e = "client" THEN 3 ELSE 1]
MCMisses == {{}, {2}}

(* Slices of one size are interchangeable: no action depends on which one is *)
(* at the head of its list.  Two slices of two bytes are never told apart.   *)
SliceSymmetry == Permutations({a1, a2, a3})
=============================================================================
