------------------------------- MODULE IOQueue -------------------------------
(***************************************************************************)
(* One IO queue of a session: a ring of queueElements in shared memory,    *)
(* with an absolute head and tail.  The goroutines of one process put,     *)
(* serialised by the mutex of their process-local queue object; the event  *)
(* dispatcher of the peer process pops.  Nothing but the atomic head and   *)
(* tail orders the two processes, so every load and store is a step.       *)
(***************************************************************************)
EXTENDS Integers, Sequences

CONSTANTS Producers,   \* goroutines of the producing process
          Elements,    \* the queueElements they put
          Cap,         \* q.cap
          MaxPut,      \* bound: puts that succeed in a behaviour
          ZeroElement, \* the zeroed memory a slot starts with
          NoOne,       \* the queue's mutex is not held
          Pending,     \* a pop that has not returned yet
          QueueEmpty   \* errQueueEmpty

Fields == {"seqID", "offsetInShmBuf", "status"}

ASSUME CapAssumption == Cap \in Nat \ {0}
ASSUME MaxPutAssumption == MaxPut \in Nat
ASSUME NoOneAssumption == NoOne \notin Producers

VARIABLES head, tail,  \* absolute positions, in shared memory
          ring,        \* queueBytesOnMemory: Cap slots of three fields
          lock,        \* the mutex embedded in the producer's queue
          pc,          \* per producer: the next step of its put
          elem,        \* per producer: the argument of its put
          ptail,       \* per producer: the tail it loaded
          putErr,      \* per producer: the result of its put
          cpc,         \* the next step of the consumer's pop
          chead,       \* the head the consumer loaded
          celem,       \* the element the consumer is reading
          got,         \* the result of its pop
          puts, gets   \* histories: the elements put, the elements popped

prodVars == <<lock, pc, elem, ptail, putErr>>
consVars == <<cpc, chead, celem, got>>
vars == <<head, tail, ring, prodVars, consVars, puts, gets>>

(* createQueueFromBytes: the creator zeroes the header of a zeroed mapping. *)
Init == /\ head = 0 /\ tail = 0
        /\ ring = [i \in 0..Cap-1 |-> ZeroElement]
        /\ lock = NoOne
        /\ pc = [p \in Producers |-> "idle"]
        /\ elem = [p \in Producers |-> ZeroElement]
        /\ ptail = [p \in Producers |-> 0]
        /\ putErr = [p \in Producers |-> "none"]
        /\ cpc = "idle" /\ chead = 0 /\ celem = ZeroElement /\ got = Pending
        /\ puts = <<>> /\ gets = <<>>

Goto(p, from, to) == pc[p] = from /\ pc' = [pc EXCEPT ![p] = to]
CGoto(from, to) == cpc = from /\ cpc' = to
-----------------------------------------------------------------------------
(* put *)

PutUnlocked(p) ==
    /\ tail < MaxPut
    /\ Goto(p, "idle", "loadTail")
    /\ \E e \in Elements : elem' = [elem EXCEPT ![p] = e]
    /\ putErr' = [putErr EXCEPT ![p] = "none"]
    /\ UNCHANGED <<head, tail, ring, lock, ptail, consVars, puts, gets>>

PutLock(p) ==
    /\ lock = NoOne /\ tail < MaxPut
    /\ lock' = p
    /\ Goto(p, "idle", "loadTail")
    /\ \E e \in Elements : elem' = [elem EXCEPT ![p] = e]
    /\ putErr' = [putErr EXCEPT ![p] = "none"]
    /\ UNCHANGED <<head, tail, ring, ptail, consVars, puts, gets>>

PutLoadTail(p) ==
    /\ Goto(p, "loadTail", "loadHead")
    /\ ptail' = [ptail EXCEPT ![p] = tail]
    /\ UNCHANGED <<head, tail, ring, lock, elem, putErr, consVars, puts, gets>>

PutLoadHead(p) ==
    /\ IF ptail[p] - head >= Cap
         THEN /\ Goto(p, "loadHead", "unlock")
              /\ putErr' = [putErr EXCEPT ![p] = "full"]
         ELSE Goto(p, "loadHead", "seqID") /\ UNCHANGED putErr
    /\ UNCHANGED <<head, tail, ring, lock, elem, ptail, consVars, puts, gets>>

PutField(p, f, next) ==
    /\ Goto(p, f, next)
    /\ ring' = [ring EXCEPT ![ptail[p] % Cap] = [@ EXCEPT ![f] = elem[p][f]]]
    /\ UNCHANGED <<head, tail, lock, elem, ptail, putErr, consVars, puts, gets>>

(* The store that publishes the element. *)
PutAddTail(p) ==
    /\ Goto(p, "addTail", "unlock")
    /\ tail' = tail + 1
    /\ putErr' = [putErr EXCEPT ![p] = "ok"]
    /\ puts' = Append(puts, elem[p])
    /\ UNCHANGED <<head, ring, lock, elem, ptail, consVars, gets>>

PutUnlock(p) ==
    /\ Goto(p, "unlock", "idle")
    /\ lock' = NoOne
    /\ UNCHANGED <<head, tail, ring, elem, ptail, putErr, consVars, puts, gets>>

PutStep(p) == \/ PutLock(p) \/ PutLoadTail(p) \/ PutLoadHead(p)
              \/ PutField(p, "seqID", "offsetInShmBuf")
              \/ PutField(p, "offsetInShmBuf", "status")
              \/ PutField(p, "status", "addTail")
              \/ PutAddTail(p) \/ PutUnlock(p)
-----------------------------------------------------------------------------
(* pop: only the peer's dispatcher goroutine calls it. *)

PopLoadHead ==
    /\ CGoto("idle", "loadTail")
    /\ chead' = head
    /\ got' = Pending
    /\ UNCHANGED <<head, tail, ring, prodVars, celem, puts, gets>>

PopCheckOffByOne ==
    /\ IF chead > tail
         THEN CGoto("loadTail", "idle") /\ got' = QueueEmpty
         ELSE CGoto("loadTail", "seqID") /\ UNCHANGED got
    /\ UNCHANGED <<head, tail, ring, prodVars, chead, celem, puts, gets>>

PopLoadTail ==
    /\ IF chead >= tail
         THEN CGoto("loadTail", "idle") /\ got' = QueueEmpty
         ELSE CGoto("loadTail", "seqID") /\ UNCHANGED got
    /\ UNCHANGED <<head, tail, ring, prodVars, chead, celem, puts, gets>>

PopField(f, next) ==
    /\ CGoto(f, next)
    /\ celem' = [celem EXCEPT ![f] = ring[chead % Cap][f]]
    /\ UNCHANGED <<head, tail, ring, prodVars, chead, got, puts, gets>>

(* The store that frees the slot. *)
PopAddHead ==
    /\ CGoto("addHead", "idle")
    /\ head' = head + 1
    /\ got' = celem
    /\ gets' = Append(gets, celem)
    /\ UNCHANGED <<tail, ring, prodVars, chead, celem, puts>>

PopStep == \/ PopLoadHead \/ PopLoadTail
           \/ PopField("seqID", "offsetInShmBuf")
           \/ PopField("offsetInShmBuf", "status")
           \/ PopField("status", "addHead")
           \/ PopAddHead

Next == (\E p \in Producers : PutStep(p)) \/ PopStep

Spec == Init /\ [][Next]_vars
-----------------------------------------------------------------------------
ElementType == [Fields -> Nat]

ASSUME ElementsAssumption == Elements \subseteq ElementType
                             /\ ZeroElement \in ElementType

WritingSteps == Fields \cup {"addTail"}
PutSteps == WritingSteps \cup {"idle", "loadTail", "loadHead", "unlock"}
ReadingSteps == Fields \cup {"addHead"}

(* The types of the queue's header and ring, and of the locals of put and pop. *)
TypeOK ==
    /\ head \in Nat /\ tail \in Nat
    /\ ring \in [0..Cap-1 -> ElementType]
    /\ lock \in Producers \cup {NoOne}
    /\ pc \in [Producers -> PutSteps]
    /\ elem \in [Producers -> ElementType]
    /\ ptail \in [Producers -> Nat]
    /\ putErr \in [Producers -> {"none", "ok", "full"}]
    /\ cpc \in ReadingSteps \cup {"idle", "loadTail"}
    /\ chead \in Nat /\ celem \in ElementType
    /\ got \in ElementType \cup {Pending, QueueEmpty}
    /\ puts \in Seq(ElementType) /\ gets \in Seq(ElementType)

(* The consumer gets exactly what was put, in the order of the puts: every  *)
(* element pop returned is, field by field, the element put at its position *)
(* (put writes three words that pop reads without a lock).                  *)
PopsInOrder ==
    /\ Len(gets) <= Len(puts)
    /\ \A i \in 1..Len(gets) : gets[i] = puts[i]

(* The capacity check of put, made against a head that the peer moves, never *)
(* lets a producer write a slot whose element has not been popped yet, and   *)
(* two producers are never writing at the same time.                         *)
NoUnreadOverwritten ==
    \A p \in Producers : pc[p] \in WritingSteps =>
        /\ \A i \in head..tail-1 : ptail[p] % Cap # i % Cap
        /\ \A r \in Producers : pc[r] \in WritingSteps => r = p

(* Each put and each pop takes effect at one instant, as if the queue were a *)
(* sequence: ErrQueueFull is only reported by a put during which the queue   *)
(* held Cap elements, errQueueEmpty by a pop during which it was empty.      *)
Window(r, h, t) == [i \in 1..t-h |-> r[(h + i - 1) % Cap]]
Contents == Window(ring, head, tail)
Abstract == INSTANCE FIFOQueue WITH items <- Contents
ImplementsFIFO == Abstract!Spec
-----------------------------------------------------------------------------
(* The inductive invariant. *)

HeaderInv == /\ head <= tail /\ tail - head <= Cap
             /\ Len(puts) = tail /\ Len(gets) = head

(* A put holds the mutex, so the tail it loaded stays the tail; the head it  *)
(* loaded may be behind, which only makes room.                              *)
ProducerInv ==
    \A p \in Producers :
        /\ pc[p] # "idle" => lock = p
        /\ pc[p] \in WritingSteps \cup {"loadHead"} =>
              elem[p] \in Elements /\ ptail[p] = tail
        /\ pc[p] = "loadTail" => elem[p] \in Elements
        /\ pc[p] \in WritingSteps => tail - head < Cap

(* The fields of elem[p] that p has stored so far. *)
Stored(step) == CASE step = "offsetInShmBuf" -> {"seqID"}
                  [] step = "status" -> {"seqID", "offsetInShmBuf"}
                  [] step \in {"addTail", "addHead"} -> Fields
                  [] OTHER -> {}

WrittenInv == \A p \in Producers, f \in Fields :
                f \in Stored(pc[p]) => ring[tail % Cap][f] = elem[p][f]

ConsumerInv == /\ cpc # "idle" => chead = head
               /\ cpc \in ReadingSteps => head < tail
               /\ \A f \in Fields :
                    f \in Stored(cpc) => celem[f] = puts[head + 1][f]

(* Between head and tail the ring holds what was put there. *)
ContentInv == \A i \in head..tail-1 : ring[i % Cap] = puts[i + 1]

DeliveredInv == \A i \in 1..head : gets[i] = puts[i]

IInv == /\ HeaderInv /\ ProducerInv /\ WrittenInv
        /\ ConsumerInv /\ ContentInv /\ DeliveredInv
=============================================================================
