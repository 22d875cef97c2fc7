------------------------------ MODULE FIFOQueue ------------------------------
(***************************************************************************)
(* What one IO queue promises its users: a FIFO of at most Cap elements.   *)
(* A put either appends its element or reports that the queue is full, a   *)
(* pop either takes the oldest element or reports that there is none, and  *)
(* each of them takes effect in one instant between its call and return.   *)
(***************************************************************************)
EXTENDS Naturals, Sequences

CONSTANTS Producers,  \* goroutines of the producing process that call put
          Elements,   \* the queue elements they put
          Cap,        \* capacity of the queue
          Pending,    \* result of an operation that has not taken effect yet
          QueueEmpty  \* result of a pop of an empty queue

VARIABLES items,   \* the elements in the queue, oldest first
          putErr,  \* per producer: the result of its current or last put
          got      \* the result of the current or last pop

vars == <<items, putErr, got>>

Init == /\ items = <<>>
        /\ putErr = [p \in Producers |-> "none"]
        /\ got = Pending

BeginPut(p) == /\ putErr' = [putErr EXCEPT ![p] = "none"]
               /\ UNCHANGED <<items, got>>

Put(p) == /\ Len(items) < Cap
          /\ \E e \in Elements : items' = Append(items, e)
          /\ putErr' = [putErr EXCEPT ![p] = "ok"]
          /\ UNCHANGED got

PutFull(p) == /\ Len(items) = Cap
              /\ putErr' = [putErr EXCEPT ![p] = "full"]
              /\ UNCHANGED <<items, got>>

BeginPop == /\ got' = Pending
            /\ UNCHANGED <<items, putErr>>

Pop == /\ items # <<>>
       /\ got' = Head(items)
       /\ items' = Tail(items)
       /\ UNCHANGED putErr

PopEmpty == /\ items = <<>>
            /\ got' = QueueEmpty
            /\ UNCHANGED <<items, putErr>>

Next == \/ \E p \in Producers : BeginPut(p) \/ Put(p) \/ PutFull(p)
        \/ BeginPop \/ Pop \/ PopEmpty

Spec == Init /\ [][Next]_vars
=============================================================================
