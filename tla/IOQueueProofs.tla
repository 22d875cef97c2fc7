--------------------------- MODULE IOQueueProofs ---------------------------
EXTENDS IOQueue, TLAPS

LEMMA ModRange == \A a \in Nat : a % Cap \in 0..Cap-1
  BY CapAssumption

LEMMA ModDistinct ==
  ASSUME NEW a \in Nat, NEW b \in Nat, a < b, b - a < Cap
  PROVE  a % Cap # b % Cap
<1> DEFINE q == a \div Cap
           r == b \div Cap
<1>1. /\ q \in Int /\ r \in Int
      /\ a = Cap * q + (a % Cap)
      /\ b = Cap * r + (b % Cap)
  BY CapAssumption
<1>2. SUFFICES ASSUME a % Cap = b % Cap PROVE FALSE
  BY Zenon
<1> HIDE DEF q, r
<1>3. b - a = Cap * (r - q)
  BY <1>1, <1>2, CapAssumption
<1>4. CASE r - q <= 0
  <2>1. Cap * (r - q) <= 0
    BY <1>4, <1>1, CapAssumption
  <2> QED BY <2>1, <1>3, CapAssumption
<1>5. CASE r - q >= 1
  <2>1. Cap * (r - q) >= Cap
    BY <1>5, <1>1, CapAssumption
  <2> QED BY <2>1, <1>3, CapAssumption
<1> QED BY <1>1, <1>4, <1>5

(* Every location has its type: the shared header and ring, and the locals *)
(* of put and pop.                                                         *)
THEOREM TypeCorrect == Spec => []TypeOK
<1> USE ElementsAssumption
    DEF TypeOK, PutSteps, WritingSteps, ReadingSteps
<1>1. Init => TypeOK
  BY DEF Init
<1>2. TypeOK /\ [Next]_vars => TypeOK'
  <2> SUFFICES ASSUME TypeOK, [Next]_vars PROVE TypeOK'
    BY Zenon
  <2>1. ASSUME NEW p \in Producers, PutLock(p) PROVE TypeOK'
    BY <2>1, Zenon DEF PutLock, Goto, consVars
  <2>2. ASSUME NEW p \in Producers, PutLoadTail(p) PROVE TypeOK'
    BY <2>2, Zenon DEF PutLoadTail, Goto, consVars
  <2>3. ASSUME NEW p \in Producers, PutLoadHead(p) PROVE TypeOK'
    BY <2>3, Zenon DEF PutLoadHead, Goto, consVars, Fields
  <2>4. ASSUME NEW p \in Producers, NEW f \in Fields, NEW next \in PutSteps,
               PutField(p, f, next)
        PROVE TypeOK'
    <3> DEFINE k == ptail[p] % Cap
    <3>1. k \in 0..Cap-1
      BY ModRange, Zenon
    <3>2. [ring[k] EXCEPT ![f] = elem[p][f]] \in ElementType
      BY <3>1 DEF ElementType
    <3> HIDE DEF k
    <3>3. [ring EXCEPT ![k] = [@ EXCEPT ![f] = elem[p][f]]]
            \in [0..Cap-1 -> ElementType]
      BY <3>1, <3>2, Zenon
    <3> QED BY <2>4, <3>3, Zenon DEF PutField, Goto, consVars, k
  <2>5. ASSUME NEW p \in Producers, PutUnlock(p) PROVE TypeOK'
    BY <2>5, Zenon DEF PutUnlock, Goto, consVars
  <2>11. ASSUME NEW p \in Producers, PutAddTail(p) PROVE TypeOK'
    <3>1. Append(puts, elem[p]) \in Seq(ElementType)
      OBVIOUS
    <3> QED BY <2>11, <3>1 DEF PutAddTail, Goto, consVars
  <2>6. CASE PopLoadHead
    BY <2>6, Zenon DEF PopLoadHead, CGoto, prodVars
  <2>7. CASE PopLoadTail
    BY <2>7, Zenon DEF PopLoadTail, CGoto, prodVars, Fields
  <2>8. ASSUME NEW f \in Fields, NEW next \in ReadingSteps, PopField(f, next)
        PROVE TypeOK'
    <3>1. ring[chead % Cap] \in ElementType
      BY ModRange, Zenon
    <3>2. [celem EXCEPT ![f] = ring[chead % Cap][f]] \in ElementType
      BY <3>1, Zenon DEF ElementType
    <3> QED BY <2>8, <3>2, Zenon DEF PopField, CGoto, prodVars
  <2>9. CASE PopAddHead
    <3>1. Append(gets, celem) \in Seq(ElementType)
      OBVIOUS
    <3> QED BY <2>9, <3>1 DEF PopAddHead, CGoto, prodVars
  <2>10. CASE UNCHANGED vars
    BY <2>10, Zenon DEF vars, prodVars, consVars
  <2> QED
    BY <2>1, <2>2, <2>3, <2>4, <2>5, <2>6, <2>7, <2>8, <2>9, <2>10, <2>11, Zenon
    DEF Next, PutStep, PopStep, Fields
<1> QED BY <1>1, <1>2, PTL DEF Spec

(* The content of the ring, the producers' and the consumer's partial work  *)
(* and the two histories stay consistent.  The only step that stores to the *)
(* ring is PutField, to the slot of the current tail; ModDistinct says that *)
(* it is no slot between head and tail.                                     *)
LEMMA SlotIsFree ==
  ASSUME TypeOK, HeaderInv, tail - head < Cap, NEW i \in head..tail-1
  PROVE  i % Cap # tail % Cap
<1>1. i \in Nat /\ tail \in Nat /\ i < tail /\ tail - i < Cap
  BY CapAssumption DEF TypeOK, HeaderInv
<1> QED BY <1>1, ModDistinct, Zenon

LEMMA Inductive == TypeOK /\ TypeOK' /\ IInv /\ [Next]_vars => IInv'
<1> SUFFICES ASSUME TypeOK, TypeOK', IInv, [Next]_vars PROVE IInv'
  BY Zenon
<1> USE DEF IInv
<1>1. ASSUME NEW p \in Producers, PutLock(p) PROVE IInv'
  <2> USE <1>1 DEF PutLock, Goto, consVars
  <2>1. HeaderInv' BY Zenon DEF HeaderInv
  <2>2. ProducerInv' BY NoOneAssumption DEF ProducerInv, TypeOK, WritingSteps, Fields
  <2>3. WrittenInv' BY DEF WrittenInv, Stored, TypeOK
  <2>4. ConsumerInv' /\ ContentInv' /\ DeliveredInv'
    BY Zenon DEF ConsumerInv, ContentInv, DeliveredInv
  <2> QED BY <2>1, <2>2, <2>3, <2>4, Zenon
<1>2. ASSUME NEW p \in Producers, PutLoadTail(p) PROVE IInv'
  <2> USE <1>2 DEF PutLoadTail, Goto, consVars
  <2>1. HeaderInv' BY Zenon DEF HeaderInv
  <2>2. ProducerInv' BY Zenon DEF ProducerInv, TypeOK, WritingSteps, Fields
  <2>3. WrittenInv' BY DEF WrittenInv, Stored, TypeOK
  <2>4. ConsumerInv' /\ ContentInv' /\ DeliveredInv'
    BY Zenon DEF ConsumerInv, ContentInv, DeliveredInv
  <2> QED BY <2>1, <2>2, <2>3, <2>4, Zenon
<1>3. ASSUME NEW p \in Producers, PutLoadHead(p) PROVE IInv'
  <2> USE <1>3 DEF PutLoadHead, Goto, consVars
  <2>1. HeaderInv' BY Zenon DEF HeaderInv
  <2>2. ProducerInv'
    BY CapAssumption DEF ProducerInv, TypeOK, WritingSteps, Fields
  <2>3. WrittenInv' BY DEF WrittenInv, Stored, TypeOK
  <2>4. ConsumerInv' /\ ContentInv' /\ DeliveredInv'
    BY Zenon DEF ConsumerInv, ContentInv, DeliveredInv
  <2> QED BY <2>1, <2>2, <2>3, <2>4, Zenon
<1>4. ASSUME NEW p \in Producers, PutUnlock(p) PROVE IInv'
  <2> USE <1>4 DEF PutUnlock, Goto, consVars
  <2>1. HeaderInv' BY Zenon DEF HeaderInv
  <2>2. ProducerInv' BY Zenon DEF ProducerInv, TypeOK, WritingSteps, Fields
  <2>3. WrittenInv' BY DEF WrittenInv, Stored, TypeOK
  <2>4. ConsumerInv' /\ ContentInv' /\ DeliveredInv'
    BY Zenon DEF ConsumerInv, ContentInv, DeliveredInv
  <2> QED BY <2>1, <2>2, <2>3, <2>4, Zenon
<1>5. ASSUME NEW p \in Producers, NEW f \in Fields, NEW next \in WritingSteps,
             PutField(p, f, next), Stored(next) = Stored(f) \cup {f}
      PROVE IInv'
  <2> DEFINE k == tail % Cap
  <2>0. /\ ptail[p] = tail /\ elem[p] \in Elements /\ tail - head < Cap
        /\ lock = p /\ k \in 0..Cap-1 /\ pc[p] = f
    <3>1. pc[p] = f /\ f \in WritingSteps /\ f # "idle"
      BY <1>5, Zenon DEF PutField, Goto, WritingSteps, Fields
    <3>2. k \in 0..Cap-1
      BY ModRange, Zenon DEF TypeOK
    <3> QED BY <3>1, <3>2, Zenon DEF ProducerInv
  <2>1. /\ pc' = [pc EXCEPT ![p] = next]
        /\ ring' = [ring EXCEPT ![k] = [@ EXCEPT ![f] = elem[p][f]]]
        /\ UNCHANGED <<head, tail, lock, elem, ptail, putErr, consVars, puts, gets>>
    BY <1>5, <2>0, Zenon DEF PutField, Goto
  <2>2. HeaderInv' BY <2>1, Zenon DEF HeaderInv
  <2>3. ProducerInv' BY <2>0, <2>1, Zenon DEF ProducerInv, TypeOK
  <2> HIDE DEF k
  <2>4. ring'[k] = [ring[k] EXCEPT ![f] = elem[p][f]] /\ ring[k] \in ElementType
    BY <2>0, <2>1, Zenon DEF TypeOK
  <2>5. WrittenInv'
    <3> SUFFICES ASSUME NEW r \in Producers, NEW g \in Fields, g \in Stored(pc'[r])
                 PROVE  ring'[k][g] = elem[r][g]
      BY <2>1 DEF WrittenInv, k
    <3>1. CASE r = p
      <4>1. g = f \/ (g # f /\ g \in Stored(pc[p]))
        BY <3>1, <1>5, <2>0, <2>1, Zenon DEF TypeOK
      <4>2. g # f => ring'[k][g] = ring[k][g]
        BY <2>4, Zenon DEF ElementType
      <4>3. ring'[k][f] = elem[p][f]
        BY <2>4, Zenon DEF ElementType
      <4> QED BY <3>1, <4>1, <4>2, <4>3, Zenon DEF WrittenInv, k
    <3>2. CASE r # p
      <4>1. pc'[r] = "idle"
        BY <3>2, <2>0, <2>1, Zenon DEF ProducerInv, TypeOK
      <4> QED BY <4>1, Zenon DEF Stored
    <3> QED BY <3>1, <3>2, Zenon
  <2>6. ConsumerInv' BY <2>1, Zenon DEF ConsumerInv, consVars
  <2>7. ContentInv'
    <3> SUFFICES ASSUME NEW i \in head..tail-1 PROVE ring'[i % Cap] = puts[i + 1]
      BY <2>1, Zenon DEF ContentInv
    <3>1. i % Cap # k
      BY <2>0, SlotIsFree, Zenon DEF k
    <3>2. i % Cap \in 0..Cap-1
      <4>1. i \in Nat BY DEF TypeOK
      <4> QED BY <4>1, ModRange, Zenon
    <3>3. ring'[i % Cap] = ring[i % Cap]
      BY <3>1, <3>2, <2>0, <2>1, Zenon DEF TypeOK
    <3> QED BY <3>3, Zenon DEF ContentInv
  <2>8. DeliveredInv' BY <2>1, Zenon DEF DeliveredInv
  <2> QED BY <2>2, <2>3, <2>5, <2>6, <2>7, <2>8, Zenon
<1>6. ASSUME NEW p \in Producers, PutAddTail(p) PROVE IInv'
  <2>0. /\ ptail[p] = tail /\ elem[p] \in Elements /\ tail - head < Cap
        /\ lock = p /\ tail % Cap \in 0..Cap-1 /\ pc[p] = "addTail"
        /\ puts \in Seq(ElementType) /\ Len(puts) = tail
        /\ head \in Nat /\ tail \in Nat /\ head <= tail
    BY <1>6, ModRange, Zenon
    DEF PutAddTail, Goto, ProducerInv, WritingSteps, TypeOK, HeaderInv
  <2>1. /\ pc' = [pc EXCEPT ![p] = "unlock"] /\ tail' = tail + 1
        /\ puts' = Append(puts, elem[p])
        /\ UNCHANGED <<head, ring, lock, elem, ptail, consVars, gets>>
    BY <1>6, Zenon DEF PutAddTail, Goto
  <2>2. /\ Len(puts') = tail + 1 /\ puts'[tail + 1] = elem[p]
        /\ \A i \in 1..tail : puts'[i] = puts[i]
    BY <2>0, <2>1, ElementsAssumption
  <2>3. HeaderInv' BY <2>0, <2>1, <2>2, CapAssumption DEF HeaderInv, TypeOK
  <2>4. \A r \in Producers : pc'[r] = IF r = p THEN "unlock" ELSE "idle"
    BY <2>0, <2>1, Zenon DEF ProducerInv, TypeOK
  <2>5. ProducerInv' BY <2>0, <2>1, <2>4 DEF ProducerInv, WritingSteps, Fields
  <2>6. WrittenInv' BY <2>4, Zenon DEF WrittenInv, Stored
  <2>7. ConsumerInv'
    <3>1. cpc \in ReadingSteps => puts'[head + 1] = puts[head + 1]
      BY <2>0, <2>2 DEF ConsumerInv
    <3>2. \A f \in Fields : f \in Stored(cpc) => cpc \in ReadingSteps
      BY Zenon DEF Stored, ReadingSteps, Fields, TypeOK
    <3>3. (cpc \in ReadingSteps => head < tail)'
      BY <2>0, <2>1 DEF ConsumerInv, consVars
    <3> QED BY <3>1, <3>2, <3>3, <2>1, Zenon DEF ConsumerInv, consVars
  <2>8. ContentInv'
    <3>1. ring[tail % Cap] = elem[p]
      <4>1. \A f \in Fields : ring[tail % Cap][f] = elem[p][f]
        BY <2>0, Zenon DEF WrittenInv, Stored
      <4>2. ring[tail % Cap] \in ElementType /\ elem[p] \in ElementType
        BY <2>0, Zenon DEF TypeOK
      <4> QED BY <4>1, <4>2 DEF ElementType
    <3> SUFFICES ASSUME NEW i \in head..tail PROVE ring[i % Cap] = puts'[i + 1]
      BY <2>0, <2>1 DEF ContentInv
    <3>2. CASE i = tail BY <3>1, <3>2, <2>2, Zenon
    <3>3. CASE i # tail BY <3>3, <2>0, <2>2 DEF ContentInv
    <3> QED BY <3>2, <3>3, Zenon
  <2>9. DeliveredInv' BY <2>0, <2>1, <2>2 DEF DeliveredInv
  <2> QED BY <2>3, <2>5, <2>6, <2>7, <2>8, <2>9, Zenon
<1>7. CASE PopLoadHead
  <2> USE <1>7 DEF PopLoadHead, CGoto, prodVars
  <2>1. HeaderInv' /\ ContentInv' /\ DeliveredInv'
    BY Zenon DEF HeaderInv, ContentInv, DeliveredInv
  <2>2. ProducerInv' /\ WrittenInv' BY Zenon DEF ProducerInv, WrittenInv
  <2>3. ConsumerInv' BY Zenon DEF ConsumerInv, ReadingSteps, Fields, Stored
  <2> QED BY <2>1, <2>2, <2>3, Zenon
<1>8. CASE PopLoadTail
  <2> USE <1>8 DEF PopLoadTail, CGoto, prodVars
  <2>1. HeaderInv' /\ ContentInv' /\ DeliveredInv'
    BY Zenon DEF HeaderInv, ContentInv, DeliveredInv
  <2>2. ProducerInv' /\ WrittenInv' BY Zenon DEF ProducerInv, WrittenInv
  <2>3. ConsumerInv' BY DEF ConsumerInv, ReadingSteps, Fields, Stored, TypeOK
  <2> QED BY <2>1, <2>2, <2>3, Zenon
<1>9. ASSUME NEW f \in Fields, NEW next \in ReadingSteps,
             PopField(f, next), Stored(next) = Stored(f) \cup {f}
      PROVE IInv'
  <2>0. /\ cpc = f /\ cpc' = next /\ chead = head /\ head < tail
        /\ celem' = [celem EXCEPT ![f] = ring[head % Cap][f]]
        /\ UNCHANGED <<head, tail, ring, prodVars, chead, got, puts, gets>>
    BY <1>9, Zenon DEF PopField, CGoto, ConsumerInv, ReadingSteps, Fields
  <2>1. HeaderInv' /\ ContentInv' /\ DeliveredInv'
    BY <2>0, Zenon DEF HeaderInv, ContentInv, DeliveredInv
  <2>2. ProducerInv' /\ WrittenInv' BY <2>0, Zenon DEF ProducerInv, WrittenInv, prodVars
  <2>3. ring[head % Cap] = puts[head + 1]
    <3>1. head \in head..tail-1
      BY <2>0 DEF TypeOK
    <3> QED BY <3>1, Zenon DEF ContentInv
  <2>4. \A g \in Fields : celem'[g] = IF g = f THEN puts[head + 1][f] ELSE celem[g]
    BY <2>0, <2>3, Zenon DEF TypeOK, ElementType
  <2>5. ConsumerInv' BY <2>0, <2>4, <1>9, Zenon DEF ConsumerInv
  <2> QED BY <2>1, <2>2, <2>5, Zenon
<1>10. CASE PopAddHead
  <2>0. /\ cpc = "addHead" /\ cpc' = "idle" /\ chead = head /\ head < tail
        /\ head' = head + 1 /\ gets' = Append(gets, celem)
        /\ UNCHANGED <<tail, ring, prodVars, chead, celem, puts>>
        /\ head \in Nat /\ tail \in Nat /\ tail - head <= Cap
        /\ gets \in Seq(ElementType) /\ Len(gets) = head /\ Len(puts) = tail
        /\ celem \in ElementType
    BY <1>10, Zenon DEF PopAddHead, CGoto, ConsumerInv, ReadingSteps, HeaderInv, TypeOK
  <2>1. /\ Len(gets') = head + 1 /\ gets'[head + 1] = celem
        /\ \A i \in 1..head : gets'[i] = gets[i]
    BY <2>0
  <2>2. HeaderInv' BY <2>0, <2>1, CapAssumption DEF HeaderInv
  <2>3. ProducerInv'
    <3>1. tail - head < Cap => tail' - head' < Cap
      BY <2>0, CapAssumption
    <3>2. UNCHANGED <<pc, lock, elem, ptail, tail>>
      BY <2>0, Zenon DEF prodVars
    <3> QED BY <3>1, <3>2, Zenon DEF ProducerInv
  <2>4. WrittenInv' BY <2>0, Zenon DEF WrittenInv, prodVars
  <2>5. ConsumerInv' BY <2>0, Zenon DEF ConsumerInv, ReadingSteps, Fields, Stored
  <2>6. ContentInv'
    <3>1. \A i \in (head + 1)..tail-1 : i \in head..tail-1
      BY <2>0
    <3> QED BY <3>1, <2>0, Zenon DEF ContentInv
  <2>7. DeliveredInv'
    <3>1. celem = puts[head + 1]
      <4>1. \A f \in Fields : celem[f] = puts[head + 1][f]
        BY <2>0, Zenon DEF ConsumerInv, Stored
      <4>2. puts[head + 1] \in ElementType
        BY <2>0 DEF TypeOK
      <4> QED BY <4>1, <4>2, <2>0 DEF ElementType
    <3> QED BY <3>1, <2>0, <2>1 DEF DeliveredInv
  <2> QED BY <2>2, <2>3, <2>4, <2>5, <2>6, <2>7, Zenon
<1>11. CASE UNCHANGED vars
  BY <1>11, Zenon DEF vars, prodVars, consVars, HeaderInv, ProducerInv, WrittenInv,
               ConsumerInv, ContentInv, DeliveredInv
<1>12. /\ Stored("offsetInShmBuf") = Stored("seqID") \cup {"seqID"}
       /\ Stored("status") = Stored("offsetInShmBuf") \cup {"offsetInShmBuf"}
       /\ Stored("addTail") = Stored("status") \cup {"status"}
       /\ Stored("addHead") = Stored("status") \cup {"status"}
  BY Zenon DEF Stored, Fields
<1>13. /\ Fields \subseteq WritingSteps /\ "addTail" \in WritingSteps
       /\ Fields \subseteq ReadingSteps /\ "addHead" \in ReadingSteps
       /\ {"seqID", "offsetInShmBuf", "status"} \subseteq Fields
  BY Zenon DEF WritingSteps, ReadingSteps, Fields
<1>14. ASSUME NEW p \in Producers, PutStep(p) PROVE IInv'
  BY <1>14, <1>1, <1>2, <1>3, <1>4, <1>5, <1>6, <1>12, <1>13, Zenon DEF PutStep
<1>15. CASE PopStep
  BY <1>15, <1>7, <1>8, <1>9, <1>10, <1>12, <1>13, Zenon DEF PopStep
<1> QED BY <1>11, <1>14, <1>15, Zenon DEF Next

LEMMA Invariant == Spec => [](TypeOK /\ IInv)
<1>1. Init => IInv
  BY CapAssumption DEF Init, IInv, HeaderInv, ProducerInv, WrittenInv, ConsumerInv,
     ContentInv, DeliveredInv, WritingSteps, ReadingSteps, Fields, Stored
<1> QED BY <1>1, TypeCorrect, Inductive, PTL DEF Spec

(* For every capacity, every set of producers and every element they put,  *)
(* pop returns the elements whole and in the order of the puts.            *)
THEOREM FIFODelivery == Spec => []PopsInOrder
<1>1. TypeOK /\ IInv => PopsInOrder
  BY Zenon DEF TypeOK, IInv, HeaderInv, DeliveredInv, PopsInOrder
<1> QED BY <1>1, Invariant, PTL

(* A producer never stores to a slot that still holds an unread element,   *)
(* and the mutex keeps the producers from each other's slot.               *)
THEOREM NoOverwrite == Spec => []NoUnreadOverwritten
<1>1. TypeOK /\ IInv => NoUnreadOverwritten
  <2> SUFFICES ASSUME TypeOK, IInv, NEW p \in Producers, pc[p] \in WritingSteps
               PROVE  /\ \A i \in head..tail-1 : ptail[p] % Cap # i % Cap
                      /\ \A r \in Producers : pc[r] \in WritingSteps => r = p
    BY Zenon DEF NoUnreadOverwritten
  <2>1. ptail[p] = tail /\ tail - head < Cap
    BY Zenon DEF IInv, ProducerInv
  <2>2. \A i \in head..tail-1 : ptail[p] % Cap # i % Cap
    BY <2>1, SlotIsFree, Zenon DEF IInv
  <2>3. \A r \in Producers : pc[r] \in WritingSteps => lock = r
    BY Zenon DEF IInv, ProducerInv, WritingSteps, Fields
  <2> QED BY <2>2, <2>3, Zenon
<1> QED BY <1>1, Invariant, PTL

LEMMA FunctionIsSeq ==
  ASSUME NEW S, NEW n \in Nat, NEW f \in [1..n -> S]
  PROVE  f \in Seq(S) /\ Len(f) = n
  OBVIOUS

LEMMA SeqEquality ==
  ASSUME NEW S, NEW s \in Seq(S), NEW t \in Seq(S), Len(s) = Len(t),
         \A i \in 1..Len(s) : s[i] = t[i]
  PROVE  s = t
  OBVIOUS

(* The ring r holds the elements h to t of ps; w is those elements. *)
RingHolds(r, h, t, ps) == /\ h \in Nat /\ t \in Nat /\ h <= t
                          /\ ps \in Seq(ElementType) /\ Len(ps) = t
                          /\ \A i \in h..t-1 : r[i % Cap] = ps[i + 1]
IsSlice(w, h, t, ps) == /\ w \in Seq(ElementType) /\ Len(w) = t - h
                        /\ \A i \in 1..t-h : w[i] = ps[h + i]

LEMMA WindowSeq ==
  ASSUME NEW r, NEW h, NEW t, NEW ps, RingHolds(r, h, t, ps)
  PROVE  IsSlice(Window(r, h, t), h, t, ps)
<1> USE DEF RingHolds, IsSlice
<1>1. \A i \in 1..t-h : r[(h + i - 1) % Cap] = ps[h + i]
  <2> SUFFICES ASSUME NEW i \in 1..t-h PROVE r[(h + i - 1) % Cap] = ps[h + i]
    BY Zenon
  <2>1. h + i - 1 \in h..t-1 /\ (h + i - 1) + 1 = h + i
    OBVIOUS
  <2> QED BY <2>1, Zenon
<1>2. \A i \in 1..t-h : ps[h + i] \in ElementType
  OBVIOUS
<1>3. Window(r, h, t) \in [1..t-h -> ElementType]
  BY <1>1, <1>2, Zenon DEF Window
<1>4. t - h \in Nat
  OBVIOUS
<1>5. Window(r, h, t) \in Seq(ElementType) /\ Len(Window(r, h, t)) = t - h
  BY <1>3, <1>4, FunctionIsSeq, Zenon
<1> QED BY <1>1, <1>5, Zenon DEF Window

LEMMA ContentsSlice ==
  ASSUME TypeOK, IInv PROVE IsSlice(Contents, head, tail, puts)
<1>1. RingHolds(ring, head, tail, puts)
  BY Zenon DEF RingHolds, TypeOK, IInv, HeaderInv, ContentInv
<1> QED BY <1>1, WindowSeq, Zenon DEF Contents

LEMMA ContentsSlicePrimed ==
  ASSUME TypeOK', IInv' PROVE IsSlice(Contents', head', tail', puts')
<1>1. RingHolds(ring', head', tail', puts')
  BY Zenon DEF RingHolds, TypeOK, IInv, HeaderInv, ContentInv
<1> QED BY <1>1, WindowSeq, Zenon DEF Contents

(* The step that publishes an element appends it to the contents. *)
LEMMA PutAppends ==
  ASSUME TypeOK, TypeOK', IInv, IInv', NEW p \in Producers, PutAddTail(p)
  PROVE  Contents' = Append(Contents, elem[p])
<1>1. /\ tail' = tail + 1 /\ head' = head /\ puts' = Append(puts, elem[p])
      /\ head \in Nat /\ tail \in Nat /\ head <= tail /\ Len(puts) = tail
      /\ puts \in Seq(ElementType) /\ elem[p] \in ElementType
      /\ puts' \in Seq(ElementType) /\ Len(puts') = tail'
  BY Zenon DEF PutAddTail, TypeOK, IInv, HeaderInv
<1>2. /\ Contents \in Seq(ElementType) /\ Len(Contents) = tail - head
      /\ \A i \in 1..tail-head : Contents[i] = puts[head + i]
  BY ContentsSlice, Zenon DEF IsSlice
<1>3. /\ Contents' \in Seq(ElementType) /\ Len(Contents') = tail' - head
      /\ \A i \in 1..tail'-head : Contents'[i] = puts'[head + i]
  BY <1>1, ContentsSlicePrimed, Zenon DEF IsSlice
<1> HIDE DEF Contents
<1> DEFINE c == Contents
           d == Contents'
<1>4. /\ Append(c, elem[p]) \in Seq(ElementType)
      /\ Len(Append(c, elem[p])) = tail - head + 1
      /\ Append(c, elem[p])[tail - head + 1] = elem[p]
      /\ \A i \in 1..tail-head : Append(c, elem[p])[i] = c[i]
  BY <1>1, <1>2
<1>5. puts'[tail + 1] = elem[p] /\ \A i \in 1..tail : puts'[i] = puts[i]
  BY <1>1
<1>6. \A i \in 1..Len(d) : d[i] = Append(c, elem[p])[i]
  <2> SUFFICES ASSUME NEW i \in 1..tail-head+1
               PROVE  d[i] = Append(c, elem[p])[i]
    <3>1. Len(d) = tail - head + 1
      BY <1>1, <1>3
    <3> QED BY <3>1, Zenon
  <2>1. d[i] = puts'[head + i]
    BY <1>1, <1>3
  <2>2. CASE i = tail - head + 1
    <3>1. head + i = tail + 1 BY <1>1, <2>2
    <3> QED BY <2>1, <2>2, <3>1, <1>4, <1>5, Zenon
  <2>3. CASE i # tail - head + 1
    <3>1. i \in 1..tail-head /\ head + i \in 1..tail BY <1>1, <2>3
    <3>2. puts'[head + i] = puts[head + i] BY <3>1, <1>5, Zenon
    <3>3. c[i] = puts[head + i] BY <3>1, <1>2, Zenon
    <3>4. Append(c, elem[p])[i] = c[i] BY <3>1, <1>4, Zenon
    <3> QED BY <2>1, <3>2, <3>3, <3>4, Zenon
  <2> QED BY <2>2, <2>3, Zenon
<1>7. Len(d) = Len(Append(c, elem[p]))
  BY <1>1, <1>3, <1>4
<1> QED BY <1>3, <1>4, <1>6, <1>7, SeqEquality, Zenon

(* The step that frees a slot takes the first element of the contents. *)
LEMMA PopTakesHead ==
  ASSUME TypeOK, TypeOK', IInv, IInv', PopAddHead
  PROVE  Contents # <<>> /\ celem = Head(Contents) /\ Contents' = Tail(Contents)
<1>1. /\ tail' = tail /\ head' = head + 1 /\ puts' = puts
      /\ head \in Nat /\ tail \in Nat /\ head < tail
      /\ puts \in Seq(ElementType) /\ Len(puts) = tail
  BY Zenon DEF PopAddHead, CGoto, TypeOK, IInv, HeaderInv, ConsumerInv, ReadingSteps
<1>2. /\ Contents \in Seq(ElementType) /\ Len(Contents) = tail - head
      /\ \A i \in 1..tail-head : Contents[i] = puts[head + i]
  BY ContentsSlice, Zenon DEF IsSlice
<1>3. /\ Contents' \in Seq(ElementType) /\ Len(Contents') = tail - head - 1
      /\ \A i \in 1..tail-head-1 : Contents'[i] = puts[head + 1 + i]
  <2>1. tail - (head + 1) = tail - head - 1
    BY <1>1
  <2> QED BY <1>1, <2>1, ContentsSlicePrimed, Zenon DEF IsSlice
<1> DEFINE c == Contents
           d == Contents'
<1> HIDE DEF Contents, c, d
<1>4. c \in Seq(ElementType) /\ c # <<>>
  BY <1>1, <1>2 DEF c
<1>5. /\ Head(c) = c[1] /\ Tail(c) \in Seq(ElementType)
      /\ Len(Tail(c)) = tail - head - 1
      /\ \A i \in 1..tail-head-1 : Tail(c)[i] = c[i + 1]
  BY <1>1, <1>2, <1>4 DEF c
<1>6. celem = Head(c)
  <2>1. \A f \in Fields : celem[f] = puts[head + 1][f]
    BY Zenon DEF IInv, ConsumerInv, Stored, PopAddHead, CGoto
  <2>2. puts[head + 1] \in ElementType /\ celem \in ElementType
    BY <1>1 DEF TypeOK
  <2>3. celem = puts[head + 1]
    BY <2>1, <2>2 DEF ElementType
  <2> QED BY <2>3, <1>1, <1>2, <1>5 DEF c
<1>7. d = Tail(c)
  <2>1. \A i \in 1..Len(d) : d[i] = Tail(c)[i]
    <3> SUFFICES ASSUME NEW i \in 1..tail-head-1 PROVE d[i] = Tail(c)[i]
      BY <1>3, Zenon DEF d
    <3>1. i + 1 \in 1..tail-head /\ head + (i + 1) = head + 1 + i
      BY <1>1
    <3>2. Tail(c)[i] = puts[head + (i + 1)]
      BY <3>1, <1>2, <1>5, Zenon DEF c
    <3> QED BY <3>1, <3>2, <1>3, Zenon DEF d
  <2>2. Len(d) = Len(Tail(c)) /\ d \in Seq(ElementType)
    BY <1>3, <1>5, Zenon DEF d
  <2> QED BY <1>5, <2>1, <2>2, SeqEquality, Zenon
<1> QED BY <1>4, <1>6, <1>7, Zenon DEF c, d

(* The ring, whose put and pop are eight and six separate loads and stores, *)
(* implements the queue whose operations are atomic.                        *)
THEOREM Refinement == Spec => ImplementsFIFO
<1>1. Init => Abstract!Init
  <2> SUFFICES ASSUME Init PROVE Contents = <<>>
    BY Zenon DEF Init, Abstract!Init
  <2> QED BY DEF Init, Contents, Window
<1>2. ASSUME TypeOK, TypeOK', IInv, IInv', [Next]_vars
      PROVE  [Abstract!Next]_(Abstract!vars)
  <2> USE <1>2
  <2> DEFINE Stutter == UNCHANGED <<Contents, putErr, got>>
  <2>1. UNCHANGED <<head, tail, ring>> => Contents' = Contents
    BY Zenon DEF Contents
  <2>2. ASSUME NEW p \in Producers, PutLock(p) PROVE Abstract!BeginPut(p)
    BY <2>1, <2>2, Zenon DEF PutLock, consVars, Abstract!BeginPut
  <2>3. ASSUME NEW p \in Producers, PutLoadTail(p) \/ PutUnlock(p) PROVE Stutter
    BY <2>1, <2>3, Zenon DEF PutLoadTail, PutUnlock, consVars
  <2>4. ASSUME NEW p \in Producers, PutLoadHead(p)
        PROVE  Abstract!PutFull(p) \/ Stutter
    <3>1. Len(Contents) = tail - head
      BY ContentsSlice, Zenon DEF IsSlice
    <3>2. ptail[p] = tail /\ tail - head <= Cap
      BY <2>4, Zenon DEF PutLoadHead, Goto, IInv, ProducerInv, HeaderInv
    <3>3. CASE ptail[p] - head >= Cap
      BY <2>1, <2>4, <3>1, <3>2, <3>3, CapAssumption
      DEF PutLoadHead, consVars, Abstract!PutFull, TypeOK
    <3>4. CASE ~(ptail[p] - head >= Cap)
      BY <2>1, <2>4, <3>4, Zenon DEF PutLoadHead, consVars
    <3> QED BY <3>3, <3>4, Zenon
  <2>5. ASSUME NEW p \in Producers, NEW f \in Fields, NEW next,
               PutField(p, f, next)
        PROVE  Stutter
    <3>1. IsSlice(Contents, head, tail, puts) /\ IsSlice(Contents', head, tail, puts)
      BY <2>5, ContentsSlice, ContentsSlicePrimed, Zenon DEF PutField
    <3>2. Contents' = Contents
      BY <3>1, SeqEquality, Zenon DEF IsSlice
    <3> QED BY <2>5, <3>2, Zenon DEF PutField, consVars
  <2>6. ASSUME NEW p \in Producers, PutAddTail(p) PROVE Abstract!Put(p)
    <3>1. Len(Contents) = tail - head /\ tail - head < Cap /\ elem[p] \in Elements
      BY <2>6, ContentsSlice, Zenon
      DEF IsSlice, PutAddTail, Goto, IInv, ProducerInv, WritingSteps
    <3>2. Contents' = Append(Contents, elem[p])
      BY <2>6, PutAppends, Zenon
    <3> QED BY <2>6, <3>1, <3>2, Zenon DEF PutAddTail, consVars, Abstract!Put
  <2>7. CASE PopLoadHead
    BY <2>1, <2>7, Zenon DEF PopLoadHead, prodVars, Abstract!BeginPop, Abstract!Next
  <2>8. CASE PopLoadTail
    <3>1. CASE chead >= tail
      <4>1. chead = head /\ tail = head
        <5>1. chead = head
          BY <2>8, Zenon DEF PopLoadTail, CGoto, IInv, ConsumerInv
        <5>2. head <= tail /\ head \in Nat /\ tail \in Nat
          BY Zenon DEF IInv, HeaderInv, TypeOK
        <5> QED BY <3>1, <5>1, <5>2
      <4>2. Contents = <<>>
        BY <4>1, ContentsSlice DEF IsSlice, TypeOK
      <4>3. Abstract!PopEmpty
        BY <2>1, <2>8, <3>1, <4>2, Zenon DEF PopLoadTail, prodVars, Abstract!PopEmpty
      <4> QED BY <4>3, Zenon DEF Abstract!Next
    <3>2. CASE ~(chead >= tail)
      BY <2>1, <2>8, <3>2, Zenon DEF PopLoadTail, prodVars, Abstract!vars
    <3> QED BY <3>1, <3>2, Zenon
  <2>9. ASSUME NEW f, NEW next, PopField(f, next) PROVE Stutter
    BY <2>1, <2>9, Zenon DEF PopField, prodVars
  <2>10. CASE PopAddHead
    BY <2>10, PopTakesHead, Zenon DEF PopAddHead, prodVars, Abstract!Pop, Abstract!Next
  <2>11. CASE UNCHANGED vars
    BY <2>1, <2>11, Zenon DEF vars, prodVars, consVars, Abstract!vars
  <2>12. ASSUME NEW p \in Producers, PutStep(p)
         PROVE  [Abstract!Next]_(Abstract!vars)
    BY <2>12, <2>2, <2>3, <2>4, <2>5, <2>6, Zenon
    DEF PutStep, Fields, Abstract!Next, Abstract!vars
  <2>13. CASE PopStep
    BY <2>13, <2>7, <2>8, <2>9, <2>10, Zenon DEF PopStep, Abstract!vars
  <2> QED BY <2>11, <2>12, <2>13, Zenon DEF Next
<1> QED BY <1>1, <1>2, Invariant, PTL DEF Spec, ImplementsFIFO, Abstract!Spec
=============================================================================
