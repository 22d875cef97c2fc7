-------------------------- MODULE BufferListProofs --------------------------
(***************************************************************************)
(* Proofs about the accounting of BufferList, for any number of slices and *)
(* goroutines: size is exact, and the last slice is never handed out.      *)
(***************************************************************************)
EXTENDS BufferList, FiniteSetTheorems, TLAPS

USE DEF sliceVars, userVars

(* There is a slice at the start of the region. *)
LEMMA ZeroSlice == 0 \in Slices
  BY ListAssumption DEF Slices

(* Every step keeps the types. *)
LEMMA TypeStep == ASSUME TypeOK, [Next]_vars PROVE TypeOK'
<1>. USE ListAssumption, ZeroSlice DEF TypeOK, Steps, Granted, Taken, Unlinked, Linking
<1>1. ASSUME NEW p \in Poppers, PopLoadHead(p) PROVE TypeOK'
  BY <1>1 DEF PopLoadHead, Goto, Set
<1>2. ASSUME NEW p \in Poppers, PopReserve(p) PROVE TypeOK'
  BY <1>2 DEF PopReserve, Goto, Set
<1>3. ASSUME NEW p \in Poppers, PopUnreserve(p) PROVE TypeOK'
  BY <1>3 DEF PopUnreserve, Goto, Set
<1>4. ASSUME NEW p \in Poppers, PopCheckNext(p) PROVE TypeOK'
  BY <1>4 DEF PopCheckNext, Goto, Set
<1>5. ASSUME NEW p \in Poppers, PopReadNext(p) PROVE TypeOK'
  BY <1>5, Zenon DEF PopReadNext, Goto, Set
<1>6. ASSUME NEW p \in Poppers, PopCasHead(p) PROVE TypeOK'
  BY <1>6 DEF PopCasHead, Goto, Set
<1>7. ASSUME NEW p \in Poppers, PopCheckSize(p) PROVE TypeOK'
  BY <1>7, Zenon DEF PopCheckSize, Goto, Set
<1>8. ASSUME NEW p \in Poppers, PopReload(p) PROVE TypeOK'
  BY <1>8 DEF PopReload, Goto, Set
<1>9. ASSUME NEW p \in Poppers, PopClearFlag(p) PROVE TypeOK'
  BY <1>9, Zenon DEF PopClearFlag, Goto, Set
<1>10. ASSUME NEW p \in Poppers, PopReturn(p) PROVE TypeOK'
  BY <1>10 DEF PopReturn, Goto, Set
<1>11. ASSUME NEW p \in Procs, NEW i \in Slices, PushReset(p, i) PROVE TypeOK'
  BY <1>11 DEF PushReset, Goto, Set
<1>12. ASSUME NEW p \in Procs, PushLoadTail(p) PROVE TypeOK'
  BY <1>12, Zenon DEF PushLoadTail, Goto, Set
<1>13. ASSUME NEW p \in Procs, PushCasTail(p) PROVE TypeOK'
  BY <1>13 DEF PushCasTail, Goto, Set
<1>14. ASSUME NEW p \in Procs, PushLinkNext(p) PROVE TypeOK'
  BY <1>14, Zenon DEF PushLinkNext, Goto, Set
<1>15. ASSUME NEW p \in Procs, PushLinkFlag(p) PROVE TypeOK'
  BY <1>15, Zenon DEF PushLinkFlag, Goto, Set
<1>16. ASSUME NEW p \in Procs, PushAddSize(p) PROVE TypeOK'
  BY <1>16 DEF PushAddSize, Goto, Set
<1>17. ASSUME NEW i \in Slices, Link(i) PROVE TypeOK'
  BY <1>17 DEF Link, Goto, Set
<1>18. ASSUME UNCHANGED vars PROVE TypeOK'
  BY <1>18, Zenon DEF vars
<1>. QED
  BY <1>1, <1>2, <1>3, <1>4, <1>5, <1>6, <1>7, <1>8, <1>9, <1>10, <1>11, <1>12, <1>13, <1>14, <1>15, <1>16, <1>17, <1>18, Zenon DEF Next, PopStep, PushStep

(* Types hold in every behaviour. *)
THEOREM TypeCorrect == Spec => []TypeOK
<1>1. Init => TypeOK
  <2>. SUFFICES ASSUME Init PROVE TypeOK
    BY Zenon
  <2>1. /\ head \in Slices /\ tail \in Slices /\ size \in Int /\ used \in Int
        /\ out \in [Slices -> Nat]
    BY ListAssumption DEF Init, Slices
  <2>2. next \in [Slices -> Slices] /\ hasNext \in [Slices -> BOOLEAN]
    BY ListAssumption DEF Init, Slices
  <2>3. /\ pc \in [Procs -> Steps]
        /\ \A p \in Procs : pc[p] \notin Granted \cup {"reserve"}
    BY Zenon DEF Init, Steps, Granted
  <2>4. /\ at \in [Procs -> Slices] /\ nx \in [Procs -> Slices]
        /\ mine \in [Procs -> Slices] /\ try \in [Procs -> 0..MaxRetry]
    BY ZeroSlice, ListAssumption DEF Init
  <2>. QED
    BY <2>1, <2>2, <2>3, <2>4, Zenon DEF TypeOK
<1>. QED
  BY <1>1, TypeStep, PTL DEF Spec
-----------------------------------------------------------------------------
(* Goroutine p goes from one step to another. *)
Moves(p, from, to) == pc[p] = from /\ pc' = [pc EXCEPT ![p] = to]

(* 1 for a step in S, 0 for any other. *)
In(step, S) == IF step \in S THEN 1 ELSE 0

Accounting == SizeAccounting /\ NeverAllAllocated

(* How the number of goroutines in a set of steps changes when one moves. *)
LEMMA CountMoves ==
    ASSUME TypeOK, NEW p \in Procs, NEW from \in Steps, NEW to \in Steps,
           Moves(p, from, to), NEW S
    PROVE  /\ Cardinality(At(S)) \in Nat
           /\ Cardinality(At(S)') = Cardinality(At(S)) + In(to, S) - In(from, S)
<1>. DEFINE Others == {q \in Procs : q # p /\ pc[q] \in S}
<1>1. IsFiniteSet(Others) /\ IsFiniteSet(At(S))
  BY ListAssumption, FS_Subset, Zenon DEF At
<1>2. p \notin Others
  BY Zenon
<1>3. At(S) = IF from \in S THEN Others \cup {p} ELSE Others
  BY Zenon DEF At, Moves
<1>4. At(S)' = IF to \in S THEN Others \cup {p} ELSE Others
  BY Zenon DEF At, Moves, TypeOK
<1>5. /\ Cardinality(Others \cup {p}) = Cardinality(Others) + 1
      /\ Cardinality(Others) \in Nat /\ Cardinality(At(S)) \in Nat
  BY <1>1, <1>2, FS_AddElement, FS_CardinalityType, Zenon
<1>. HIDE DEF Others
<1>. QED
  BY <1>3, <1>4, <1>5 DEF In

(* The steps that are counted in size, and the steps that hold a slice. *)
LEMMA CountedSteps ==
    ASSUME NEW s \in Steps
    PROVE  /\ In(s, Counted) = IF s \in {"idle", "reserve"} THEN 0 ELSE 1
           /\ In(s, Pending) = IF s \in {"idle", "reserve", "unreserve"} THEN 0 ELSE 1
  BY Zenon DEF In, Counted, Pending, Steps, Granted, Taken, Unlinked, Linking

(* The named steps are steps. *)
LEMMA AllSteps ==
    {"idle", "reserve", "unreserve", "checkNext", "readNext", "casHead", "checkSize",
     "reload", "clearFlag", "return", "loadTail", "casTail", "linkNext", "linkFlag",
     "addSize"} \subseteq Steps
  BY Zenon DEF Steps, Granted, Taken, Unlinked, Linking

(* How a move changes the two counts. *)
LEMMA Delta ==
    ASSUME TypeOK, NEW p \in Procs, NEW from \in Steps, NEW to \in Steps, Moves(p, from, to)
    PROVE  /\ Cardinality(At(Counted)) \in Nat /\ Cardinality(At(Pending)) \in Nat
           /\ Cardinality(At(Counted)') = Cardinality(At(Counted))
                + (IF to \in {"idle", "reserve"} THEN 0 ELSE 1)
                - (IF from \in {"idle", "reserve"} THEN 0 ELSE 1)
           /\ Cardinality(At(Pending)') = Cardinality(At(Pending))
                + (IF to \in {"idle", "reserve", "unreserve"} THEN 0 ELSE 1)
                - (IF from \in {"idle", "reserve", "unreserve"} THEN 0 ELSE 1)
  BY CountMoves, CountedSteps

(* A failed pop is counted in size and holds no slice. *)
LEMMA PendingBelow == ASSUME TypeOK PROVE Cardinality(At(Pending)) <= Cardinality(At(Counted))
<1>1. At(Pending) \subseteq At(Counted) /\ IsFiniteSet(At(Counted))
  BY ListAssumption, FS_Subset, Zenon DEF At, Counted
<1>. QED
  BY <1>1, FS_Subset, Zenon

(* Every step keeps size exact and a slice in the list. *)
LEMMA AccountingStep ==
    ASSUME TypeOK, Accounting, [Next]_vars PROVE Accounting'
<1>. N \in Nat /\ size \in Int /\ used \in Int /\ Poppers \subseteq Procs
  BY ListAssumption, Zenon DEF TypeOK
<1>. USE DEF Accounting, SizeAccounting, NeverAllAllocated
<1>1. ASSUME NEW p \in Poppers, PopLoadHead(p) PROVE Accounting'
  <2>1. Moves(p, "idle", "reserve")
    BY <1>1, Zenon DEF PopLoadHead, Goto, Moves
  <2>. QED
    BY <2>1, Delta, AllSteps, <1>1 DEF PopLoadHead
<1>2. ASSUME NEW p \in Poppers, PopReserve(p) PROVE Accounting'
  <2>1. size' = size - 1 /\ used' = used
    BY <1>2, Zenon DEF PopReserve
  <2>2. CASE size - 1 <= 0
    <3>1. "reserve" \in Steps /\ "unreserve" \in Steps
      BY AllSteps, Zenon
    <3>2. Moves(p, "reserve", "unreserve")
      BY <1>2, <2>2, Zenon DEF PopReserve, Goto, Moves
    <3>3. /\ Cardinality(At(Counted)) \in Nat /\ Cardinality(At(Pending)) \in Nat
          /\ Cardinality(At(Counted))' = Cardinality(At(Counted)) + 1
          /\ Cardinality(At(Pending))' = Cardinality(At(Pending))
      BY <3>1, <3>2, Delta
    <3>. QED
      BY <2>1, <3>3
  <2>3. CASE ~(size - 1 <= 0)
    <3>1. "reserve" \in Steps /\ "checkNext" \in Steps
      BY AllSteps, Zenon
    <3>2. Moves(p, "reserve", "checkNext")
      BY <1>2, <2>3, Zenon DEF PopReserve, Goto, Moves
    <3>3. /\ Cardinality(At(Counted)) \in Nat /\ Cardinality(At(Pending)) \in Nat
          /\ Cardinality(At(Counted))' = Cardinality(At(Counted)) + 1
          /\ Cardinality(At(Pending))' = Cardinality(At(Pending)) + 1
      BY <3>1, <3>2, Delta
    <3>. QED
      BY <2>1, <2>3, <3>3, PendingBelow
  <2>. QED
    BY <2>2, <2>3, Zenon
<1>3. ASSUME NEW p \in Poppers, PopUnreserve(p) PROVE Accounting'
  <2>1. Moves(p, "unreserve", "idle")
    BY <1>3, Zenon DEF PopUnreserve, Goto, Moves
  <2>2. /\ Cardinality(At(Counted)) \in Nat /\ Cardinality(At(Pending)) \in Nat
        /\ Cardinality(At(Counted))' = Cardinality(At(Counted)) - 1
        /\ Cardinality(At(Pending))' = Cardinality(At(Pending))
    <3>1. "unreserve" \in Steps /\ "idle" \in Steps
      BY AllSteps, Zenon
    <3>. QED
      BY <2>1, <3>1, Delta
  <2>3. size' = size + 1 /\ used' = used
    BY <1>3, Zenon DEF PopUnreserve
  <2>. QED
    BY <2>2, <2>3
<1>4. ASSUME NEW p \in Poppers, PopCheckNext(p) PROVE Accounting'
  <2>1. Moves(p, "checkNext", "readNext") \/ Moves(p, "checkNext", "checkSize")
    BY <1>4, Zenon DEF PopCheckNext, Goto, Moves
  <2>. QED
    BY <2>1, Delta, AllSteps, <1>4 DEF PopCheckNext, Moves
<1>5. ASSUME NEW p \in Poppers, PopReadNext(p) PROVE Accounting'
  <2>1. Moves(p, "readNext", "casHead")
    BY <1>5, Zenon DEF PopReadNext, Goto, Moves
  <2>. QED
    BY <2>1, Delta, AllSteps, <1>5 DEF PopReadNext
<1>6. ASSUME NEW p \in Poppers, PopCasHead(p) PROVE Accounting'
  <2>1. Moves(p, "casHead", "clearFlag") \/ Moves(p, "casHead", "reload")
    BY <1>6, Zenon DEF PopCasHead, Goto, Moves
  <2>. QED
    BY <2>1, Delta, AllSteps, <1>6 DEF PopCasHead, Moves
<1>7. ASSUME NEW p \in Poppers, PopCheckSize(p) PROVE Accounting'
  <2>1. Moves(p, "checkSize", "unreserve") \/ Moves(p, "checkSize", "reload")
    BY <1>7, Zenon DEF PopCheckSize, Goto, Moves
  <2>. QED
    BY <2>1, Delta, AllSteps, <1>7 DEF PopCheckSize, Moves
<1>8. ASSUME NEW p \in Poppers, PopReload(p) PROVE Accounting'
  <2>1. Moves(p, "reload", "unreserve") \/ Moves(p, "reload", "checkNext")
    BY <1>8, Zenon DEF PopReload, Goto, Moves
  <2>. QED
    BY <2>1, Delta, AllSteps, <1>8 DEF PopReload, Moves
<1>9. ASSUME NEW p \in Poppers, PopClearFlag(p) PROVE Accounting'
  <2>1. Moves(p, "clearFlag", "return")
    BY <1>9, Zenon DEF PopClearFlag, Goto, Moves
  <2>2. "clearFlag" \in Steps /\ "return" \in Steps
    BY AllSteps, Zenon
  <2>3. /\ Cardinality(At(Counted))' = Cardinality(At(Counted))
        /\ Cardinality(At(Pending))' = Cardinality(At(Pending))
    BY <2>1, <2>2, Delta
  <2>. QED
    BY <1>9, <2>3, Zenon DEF PopClearFlag
<1>10. ASSUME NEW p \in Poppers, PopReturn(p) PROVE Accounting'
  <2>1. Moves(p, "return", "idle")
    BY <1>10, Zenon DEF PopReturn, Goto, Moves
  <2>2. /\ Cardinality(At(Counted)) \in Nat /\ Cardinality(At(Pending)) \in Nat
        /\ Cardinality(At(Counted))' = Cardinality(At(Counted)) - 1
        /\ Cardinality(At(Pending))' = Cardinality(At(Pending)) - 1
    <3>1. "return" \in Steps /\ "idle" \in Steps
      BY AllSteps, Zenon
    <3>. QED
      BY <2>1, <3>1, Delta
  <2>3. size' = size /\ used' = used + 1
    BY <1>10, Zenon DEF PopReturn
  <2>. QED
    BY <2>2, <2>3
<1>11. ASSUME NEW p \in Procs, NEW i \in Slices, PushReset(p, i) PROVE Accounting'
  <2>1. Moves(p, "idle", "loadTail")
    BY <1>11, Zenon DEF PushReset, Goto, Moves
  <2>2. /\ Cardinality(At(Counted)) \in Nat /\ Cardinality(At(Pending)) \in Nat
        /\ Cardinality(At(Counted))' = Cardinality(At(Counted)) + 1
        /\ Cardinality(At(Pending))' = Cardinality(At(Pending)) + 1
    <3>1. "idle" \in Steps /\ "loadTail" \in Steps
      BY AllSteps, Zenon
    <3>. QED
      BY <2>1, <3>1, Delta
  <2>3. size' = size /\ used' = used - 1
    BY <1>11, Zenon DEF PushReset
  <2>4. SizeAccounting'
    BY <2>2, <2>3
  <2>5. NeverAllAllocated'
    BY <2>2, <2>3
  <2>. QED
    BY <2>4, <2>5, Zenon
<1>12. ASSUME NEW p \in Procs, PushLoadTail(p) PROVE Accounting'
  <2>1. Moves(p, "loadTail", "casTail")
    BY <1>12, Zenon DEF PushLoadTail, Goto, Moves
  <2>. QED
    BY <2>1, Delta, AllSteps, <1>12 DEF PushLoadTail
<1>13. ASSUME NEW p \in Procs, PushCasTail(p) PROVE Accounting'
  <2>1. Moves(p, "casTail", "linkNext") \/ Moves(p, "casTail", "loadTail")
    BY <1>13, Zenon DEF PushCasTail, Goto, Moves
  <2>. QED
    BY <2>1, Delta, AllSteps, <1>13 DEF PushCasTail, Moves
<1>14. ASSUME NEW p \in Procs, PushLinkNext(p) PROVE Accounting'
  <2>1. Moves(p, "linkNext", "linkFlag")
    BY <1>14, Zenon DEF PushLinkNext, Goto, Moves
  <2>. QED
    BY <2>1, Delta, AllSteps, <1>14 DEF PushLinkNext
<1>15. ASSUME NEW p \in Procs, PushLinkFlag(p) PROVE Accounting'
  <2>1. Moves(p, "linkFlag", "addSize")
    BY <1>15, Zenon DEF PushLinkFlag, Goto, Moves
  <2>. QED
    BY <2>1, Delta, AllSteps, <1>15 DEF PushLinkFlag
<1>16. ASSUME NEW p \in Procs, PushAddSize(p) PROVE Accounting'
  <2>1. Moves(p, "addSize", "idle")
    BY <1>16, Zenon DEF PushAddSize, Goto, Moves
  <2>2. /\ Cardinality(At(Counted)) \in Nat /\ Cardinality(At(Pending)) \in Nat
        /\ Cardinality(At(Counted))' = Cardinality(At(Counted)) - 1
        /\ Cardinality(At(Pending))' = Cardinality(At(Pending)) - 1
    <3>1. "addSize" \in Steps /\ "idle" \in Steps
      BY AllSteps, Zenon
    <3>. QED
      BY <2>1, <3>1, Delta
  <2>3. size' = size + 1 /\ used' = used
    BY <1>16, Zenon DEF PushAddSize
  <2>. QED
    BY <2>2, <2>3
<1>17. ASSUME NEW i \in Slices, Link(i) PROVE Accounting'
  BY <1>17, Zenon DEF Link, At
<1>18. ASSUME UNCHANGED vars PROVE Accounting'
  BY <1>18, Zenon DEF vars, At
<1>. QED
  BY <1>1, <1>2, <1>3, <1>4, <1>5, <1>6, <1>7, <1>8, <1>9, <1>10, <1>11, <1>12, <1>13, <1>14, <1>15, <1>16, <1>17, <1>18, Zenon DEF Next, PopStep, PushStep

(* The accounting holds in every behaviour. *)
LEMMA AccountingInvariant == Spec => []Accounting
<1>1. Init => Accounting
  <2>. SUFFICES ASSUME Init PROVE Accounting
    BY Zenon
  <2>1. At(Counted) = {} /\ At(Pending) = {}
    BY Zenon DEF Init, At, Counted, Pending, Granted, Taken, Unlinked, Linking
  <2>. QED
    BY <2>1, FS_EmptySet, ListAssumption DEF Init, Accounting, SizeAccounting, NeverAllAllocated
<1>. QED
  BY <1>1, TypeCorrect, AccountingStep, PTL DEF Spec

(* size is exact, whatever the interleaving of pops, failed pops and pushes *)
(* of both processes.                                                       *)
THEOREM SizeIsExact == Spec => []SizeAccounting
<1>1. Accounting => SizeAccounting
  BY Zenon DEF Accounting
<1>. QED
  BY <1>1, AccountingInvariant, PTL

(* pop never hands out the last slice, so head and tail always point to a   *)
(* free one.                                                                *)
THEOREM LastSliceStays == Spec => []NeverAllAllocated
<1>1. Accounting => NeverAllAllocated
  BY Zenon DEF Accounting
<1>. QED
  BY <1>1, AccountingInvariant, PTL
=============================================================================
