------------------------- MODULE NetListenerProofs --------------------------
(***************************************************************************)
(* Proofs about the reference counts of NetListener, for any number of     *)
(* sessions, streams and calls of Close: the counts are exact, and a       *)
(* session is not terminated under the streams that were counted.          *)
(***************************************************************************)
EXTENDS NetListener, FiniteSetTheorems, TLAPS

Elems(q) == {q[i] : i \in 1..Len(q)}
Distinct(q) == \A i, j \in 1..Len(q) : i # j => q[i] # q[j]

(* Each stream is created once, and is in acceptCh or with the blocked      *)
(* dispatcher until it is wrapped.                                          *)
InAcceptCh ==
    /\ wrapped \subseteq seen
    /\ blocked # NoOne => blocked \in seen \ wrapped
    /\ \A s \in Sessions :
         /\ Distinct(acceptCh[s])
         /\ \A x \in Elems(acceptCh[s]) : x \in seen \ wrapped /\ Of[x] = s /\ x # blocked

(* A stream that is wrapped is with the goroutine of its session, in the    *)
(* backlog, or with the application.                                        *)
InBacklog ==
    /\ conns \subseteq wrapped
    /\ \A s \in Sessions : pc[s] = "hand" =>
         held[s] \in wrapped \ (conns \cup Elems(backlog)) /\ Of[held[s]] = s
    /\ Distinct(backlog) /\ Elems(backlog) \subseteq wrapped \ conns

Places == InAcceptCh /\ InBacklog

(* A session whose goroutine has not registered it has no references. *)
Unserved == \A s \in Sessions : pc[s] \in {"none", "created"} =>
    s \notin table /\ waiter[s] = "none" /\ \A x \in wrapped : Of[x] # s

(* What is known once the count of a session was zero, and why it became    *)
(* zero.                                                                    *)
Waits ==
    /\ \A s \in Sessions : waiter[s] \in {"woken", "returned", "done", "panic"} =>
         s \notin table /\ \A x \in wrapped : Of[x] = s => x \in late
    /\ \A s \in Sessions : pc[s] \notin {"none", "created"} /\ s \notin table /\ s \notin shutdown
         => closed
    /\ \A s \in byCount : waiter[s] = "done" /\ closed
    /\ \A c \in Closers : closer[c] # "idle" => closed

IInv == TypeOK /\ Places /\ Unserved /\ RefsExact /\ Waits
-----------------------------------------------------------------------------
USE DEF listenerVars, sessionVars, connVars

(* The rest of a sequence without duplicates. *)
LEMMA TailDistinct ==
  ASSUME NEW S, NEW q \in Seq(S), q # <<>>, Distinct(q)
  PROVE  /\ Distinct(Tail(q)) /\ Head(q) \in Elems(q) /\ Head(q) \in S
         /\ Elems(Tail(q)) = Elems(q) \ {Head(q)}
<1>1. /\ Len(q) \in Nat /\ Len(q) >= 1 /\ Head(q) = q[1] /\ Len(Tail(q)) = Len(q) - 1
      /\ \A i \in 1..Len(q)-1 : Tail(q)[i] = q[i + 1]
  OBVIOUS
<1>2. Head(q) \in Elems(q) /\ Head(q) \in S
  BY <1>1 DEF Elems
<1>3. ASSUME NEW i \in 1..Len(Tail(q)), NEW j \in 1..Len(Tail(q)), i # j
      PROVE  Tail(q)[i] # Tail(q)[j]
  <2>1. i + 1 \in 1..Len(q) /\ j + 1 \in 1..Len(q) /\ i + 1 # j + 1
    BY <1>1, <1>3
  <2>2. q[i + 1] # q[j + 1]
    BY <2>1, Zenon DEF Distinct
  <2>. QED
    BY <1>1, <2>2, Zenon
<1>4. ASSUME NEW x \in Elems(Tail(q)) PROVE x \in Elems(q) \ {Head(q)}
  <2>1. PICK i \in 1..Len(Tail(q)) : x = Tail(q)[i]
    BY Zenon DEF Elems
  <2>2. i + 1 \in 1..Len(q) /\ 1 \in 1..Len(q) /\ i + 1 # 1 /\ x = q[i + 1]
    BY <1>1, <2>1
  <2>. QED
    BY <1>1, <2>2, Zenon DEF Elems, Distinct
<1>5. ASSUME NEW x \in Elems(q) \ {Head(q)} PROVE x \in Elems(Tail(q))
  <2>1. PICK i \in 1..Len(q) : x = q[i]
    BY Zenon DEF Elems
  <2>2. i - 1 \in 1..Len(Tail(q)) /\ Tail(q)[i - 1] = x
    BY <1>1, <2>1
  <2>. QED
    BY <2>2, Zenon DEF Elems
<1>. QED
  BY <1>2, <1>3, <1>4, <1>5, Zenon DEF Distinct

(* A new element after a sequence without duplicates. *)
LEMMA AppendDistinct ==
  ASSUME NEW S, NEW q \in Seq(S), NEW x \in S, x \notin Elems(q), Distinct(q)
  PROVE  Distinct(Append(q, x)) /\ Elems(Append(q, x)) = Elems(q) \cup {x}
<1>1. /\ Len(q) \in Nat /\ Len(Append(q, x)) = Len(q) + 1 /\ Append(q, x)[Len(q) + 1] = x
      /\ \A i \in 1..Len(q) : Append(q, x)[i] = q[i]
  OBVIOUS
<1>2. \A i \in 1..Len(q) : q[i] # x
  BY Zenon DEF Elems
<1>3. 1..Len(q) + 1 = 1..Len(q) \cup {Len(q) + 1}
  BY <1>1
<1>4. Distinct(Append(q, x))
  BY <1>1, <1>2, <1>3 DEF Distinct
<1>5. Elems(Append(q, x)) = Elems(q) \cup {x}
  BY <1>1, <1>3 DEF Elems
<1>. QED
  BY <1>4, <1>5, Zenon

(* The wrappers of a session are finitely many. *)
LEMMA WrappersFinite ==
  ASSUME TypeOK, NEW s \in Sessions
  PROVE  IsFiniteSet(Wrappers(s)) /\ Cardinality(Wrappers(s)) \in Nat
<1>1. Wrappers(s) \subseteq Streams /\ IsFiniteSet(Streams)
  BY NetListenerAssumption, Zenon DEF Wrappers, TypeOK
<1>. QED
  BY <1>1, FS_Subset, FS_CardinalityType, Zenon

(* Whoever gives a reference back has one: the listener for the sessions of *)
(* its table, and the wrapper of a stream that Accept has returned.         *)
LEMMA HasReference ==
  ASSUME IInv
  PROVE  /\ \A s \in table : refs[s] >= 1
         /\ \A x \in conns : refs[Of[x]] >= 1
<1>1. ASSUME NEW s \in table PROVE refs[s] >= 1
  BY WrappersFinite DEF IInv, RefsExact, TypeOK
<1>2. ASSUME NEW x \in conns PROVE refs[Of[x]] >= 1
  <2>1. Of[x] \in Sessions /\ x \in Wrappers(Of[x])
    BY NetListenerAssumption, Zenon DEF IInv, Places, InBacklog, Wrappers, TypeOK
  <2>2. IsFiniteSet(Wrappers(Of[x])) /\ Cardinality(Wrappers(Of[x])) \in Nat
    BY <2>1, WrappersFinite, Zenon DEF IInv
  <2>3. Cardinality(Wrappers(Of[x])) # 0
    BY <2>1, <2>2, FS_EmptySet
  <2>. QED
    BY <2>1, <2>2, <2>3 DEF IInv, RefsExact
<1>. QED
  BY <1>1, <1>2, Zenon

(* Every step keeps the types. *)
LEMMA TypeStep == ASSUME IInv, [Next]_vars PROVE TypeOK'
<1>. USE NetListenerAssumption DEF IInv, TypeOK
<1>1. ASSUME NEW s \in Sessions, NewSession(s) PROVE TypeOK'
  BY <1>1, Zenon DEF NewSession, Goto
<1>2. ASSUME NEW s \in Sessions, Register(s) PROVE TypeOK'
  <2>0. /\ pc' = [pc EXCEPT ![s] = "gone"] \/ pc' = [pc EXCEPT ![s] = "accept"]
        /\ refs' = refs \/ refs' = [refs EXCEPT ![s] = 1]
    BY <1>2, Zenon DEF Register, Goto
  <2>1. pc' \in [Sessions -> {"none", "created", "accept", "hand", "gone"}]
    BY <2>0, Zenon
  <2>2. refs' \in [Sessions -> Nat]
    BY <2>0, refs \in [Sessions -> Nat], 1 \in Nat, Zenon
  <2>3. waiter' \in [Sessions -> {"none", "starting", "waiting", "woken", "returned", "panic",
                                  "done"}]
    BY <1>2, Zenon DEF Register
  <2>4. table' \subseteq Sessions /\ shutdown' \subseteq Sessions
    BY <1>2 DEF Register
  <2>5. UNCHANGED <<closed, closeCh, closer, held, wrapped, late, byCount, seen, acceptCh,
                    blocked, lost, backlog, conns>>
    BY <1>2, Zenon DEF Register
  <2>. QED
    BY <2>1, <2>2, <2>3, <2>4, <2>5, Zenon
<1>3. ASSUME NEW s \in Sessions, AcceptStream(s) PROVE TypeOK'
  <2>1. Head(acceptCh[s]) \in Streams /\ Tail(acceptCh[s]) \in Seq(Streams)
    BY <1>3 DEF AcceptStream
  <2>2. /\ pc' \in [Sessions -> {"none", "created", "accept", "hand", "gone"}]
        /\ held' \in [Sessions -> Streams \cup {NoOne}]
        /\ acceptCh' \in [Sessions -> Seq(Streams)]
    BY <1>3, <2>1, Zenon DEF AcceptStream, Goto
  <2>0. /\ refs' = [refs EXCEPT ![s] = @ + 1] /\ wrapped' = wrapped \cup {Head(acceptCh[s])}
        /\ late' = late \/ late' = late \cup {Head(acceptCh[s])}
    BY <1>3, late \cup {} = late DEF AcceptStream, Wrap
  <2>3. refs' \in [Sessions -> Nat]
    BY <2>0
  <2>5. wrapped' \subseteq Streams /\ late' \subseteq Streams
    BY <2>0, <2>1, Zenon
  <2>4. UNCHANGED <<closed, closeCh, closer, table, waiter, byCount, shutdown, seen, blocked,
                    lost, backlog, conns>>
    BY <1>3, Zenon DEF AcceptStream
  <2>. QED
    BY <2>2, <2>3, <2>4, <2>5, Zenon
<1>4. ASSUME NEW s \in Sessions, Hand(s) PROVE TypeOK'
  <2>1. held[s] \in Streams
    BY <1>4, Zenon DEF Hand, Goto, Places, InBacklog
  <2>2. backlog' \in Seq(Streams)
    BY <1>4, <2>1 DEF Hand
  <2>3. held' \in [Sessions -> Streams \cup {NoOne}]
    BY <1>4, Zenon DEF Hand
  <2>4. pc' \in [Sessions -> {"none", "created", "accept", "hand", "gone"}]
    BY <1>4, Zenon DEF Hand, Goto
  <2>5. UNCHANGED <<closed, closeCh, closer, table, refs, waiter, wrapped, late, byCount,
                    shutdown, seen, acceptCh, blocked, lost, conns>>
    BY <1>4, Zenon DEF Hand
  <2>. QED
    BY <2>2, <2>3, <2>4, <2>5, Zenon
<1>5. ASSUME NEW s \in Sessions, HandClosed(s) PROVE TypeOK'
  BY <1>5, Zenon DEF HandClosed, Goto
<1>6. ASSUME NEW s \in Sessions, End(s) PROVE TypeOK'
  <2>1. refs' \in [Sessions -> Nat]
    BY <1>6, HasReference DEF End, Done
  <2>. QED
    BY <1>6, <2>1, Zenon DEF End, Goto, Done
<1>7. ASSUME NEW s \in Sessions, WaitStarts(s) PROVE TypeOK'
  BY <1>7, Zenon DEF WaitStarts
<1>8. ASSUME NEW s \in Sessions, WaitReturns(s) PROVE TypeOK'
  BY <1>8, Zenon DEF WaitReturns
<1>9. ASSUME NEW s \in Sessions, CloseUnused(s) PROVE TypeOK'
  BY <1>9, Zenon DEF CloseUnused
<1>10. ASSUME NEW s \in Sessions, RemoteClose(s) PROVE TypeOK'
  BY <1>10 DEF RemoteClose
<1>11. ASSUME NEW x \in Streams, getStream(x) PROVE TypeOK'
  <2>1. Of[x] \in Sessions
    BY Zenon
  <2>2. Append(acceptCh[Of[x]], x) \in Seq(Streams)
    BY <2>1
  <2>3. acceptCh' \in [Sessions -> Seq(Streams)]
    BY <1>11, <2>2, Zenon DEF getStream
  <2>4. seen' \subseteq Streams /\ blocked' \in Streams \cup {NoOne}
    BY <1>11, Zenon DEF getStream
  <2>5. UNCHANGED <<closed, closeCh, closer, table, pc, held, refs, waiter, wrapped, late,
                    byCount, shutdown, lost, backlog, conns>>
    BY <1>11, Zenon DEF getStream
  <2>. QED
    BY <2>3, <2>4, <2>5, Zenon
<1>12. ASSUME NEW x \in Streams, CloseConn(x) PROVE TypeOK'
  <2>1. refs' \in [Sessions -> Nat]
    BY <1>12, HasReference DEF CloseConn, Done
  <2>2. waiter' \in [Sessions -> {"none", "starting", "waiting", "woken", "returned", "panic",
                                  "done"}]
    BY <1>12, Zenon DEF CloseConn, Done
  <2>3. conns' \subseteq Streams /\ wrapped' \subseteq Streams
    BY <1>12, Zenon DEF CloseConn
  <2>4. UNCHANGED <<closed, closeCh, closer, table, pc, held, late, byCount, shutdown, seen,
                    acceptCh, blocked, lost, backlog>>
    BY <1>12, Zenon DEF CloseConn
  <2>. QED
    BY <2>1, <2>2, <2>3, <2>4, Zenon
<1>13. ASSUME Unblock PROVE TypeOK'
  <2>1. blocked \in Streams /\ Of[blocked] \in Sessions /\ blocked' = NoOne
    BY <1>13, Zenon DEF Unblock
  <2>2. acceptCh' \in [Sessions -> Seq(Streams)]
    BY <1>13, <2>1, Append(acceptCh[Of[blocked]], blocked) \in Seq(Streams), Zenon DEF Unblock
  <2>3. UNCHANGED <<closed, closeCh, closer, table, pc, held, refs, waiter, wrapped, late,
                    byCount, shutdown, seen, lost, backlog, conns>>
    BY <1>13, Zenon DEF Unblock
  <2>. QED
    BY <2>1, <2>2, <2>3, Zenon
<1>14. ASSUME Accept PROVE TypeOK'
  BY <1>14 DEF Accept
<1>15. ASSUME NEW c \in Closers, CloseMark(c) PROVE TypeOK'
  BY <1>15, Zenon DEF CloseMark, CloseStep
<1>16. ASSUME NEW c \in Closers, CloseCloseCh(c) PROVE TypeOK'
  BY <1>16, Zenon DEF CloseCloseCh, CloseStep
<1>17. ASSUME NEW c \in Closers, CloseRelease(c) PROVE TypeOK'
  <2>1. refs' \in [Sessions -> Nat]
    BY <1>17, HasReference DEF CloseRelease, Done
  <2>. QED
    BY <1>17, <2>1, Zenon DEF CloseRelease, CloseStep, Done
<1>18. ASSUME UNCHANGED vars PROVE TypeOK'
  BY <1>18, Zenon DEF vars
<1>. QED
  BY <1>1, <1>2, <1>3, <1>4, <1>5, <1>6, <1>7, <1>8, <1>9, <1>10, <1>11, <1>12, <1>13, <1>14, <1>15, <1>16, <1>17, <1>18
    , Zenon DEF Next, Serve, Wait, Close

(* Every step keeps the sessions that are not registered without references. *)
LEMMA UnservedStep == ASSUME IInv, [Next]_vars PROVE Unserved'
<1>. USE NetListenerAssumption DEF IInv, TypeOK, Places, InAcceptCh, InBacklog, Unserved
<1>1. ASSUME NEW s \in Sessions, NewSession(s) PROVE Unserved'
  BY <1>1 DEF NewSession, Goto
<1>2. ASSUME NEW s \in Sessions, Register(s) PROVE Unserved'
  BY <1>2 DEF Register, Goto
<1>3. ASSUME NEW s \in Sessions, AcceptStream(s) PROVE Unserved'
  <2>1. Head(acceptCh[s]) \in Elems(acceptCh[s])
    BY <1>3, TailDistinct, Zenon DEF AcceptStream
  <2>2. wrapped' = wrapped \cup {Head(acceptCh[s])} /\ Of[Head(acceptCh[s])] = s
    BY <1>3, <2>1, Zenon DEF AcceptStream, Wrap
  <2>3. pc' = [pc EXCEPT ![s] = "hand"] /\ pc[s] = "accept" /\ UNCHANGED <<table, waiter>>
    BY <1>3, Zenon DEF AcceptStream, Goto
  <2>. QED
    BY <2>2, <2>3
<1>4. ASSUME NEW s \in Sessions, Hand(s) PROVE Unserved'
  BY <1>4 DEF Hand, Goto
<1>5. ASSUME NEW s \in Sessions, HandClosed(s) PROVE Unserved'
  BY <1>5 DEF HandClosed, Goto
<1>6. ASSUME NEW s \in Sessions, End(s) PROVE Unserved'
  <2>1. /\ pc' = [pc EXCEPT ![s] = "gone"] /\ pc[s] = "accept" /\ table' \subseteq table
        /\ wrapped' = wrapped
    BY <1>6, Zenon DEF End, Goto
  <2>2. \A t \in Sessions : t \notin table => waiter'[t] = waiter[t]
    BY <1>6, Zenon DEF End, Done
  <2>. QED
    BY <2>1, <2>2
<1>7. ASSUME NEW s \in Sessions, WaitStarts(s) PROVE Unserved'
  BY <1>7 DEF WaitStarts
<1>8. ASSUME NEW s \in Sessions, WaitReturns(s) PROVE Unserved'
  BY <1>8 DEF WaitReturns
<1>9. ASSUME NEW s \in Sessions, CloseUnused(s) PROVE Unserved'
  BY <1>9 DEF CloseUnused
<1>10. ASSUME NEW s \in Sessions, RemoteClose(s) PROVE Unserved'
  BY <1>10, Zenon DEF RemoteClose
<1>11. ASSUME NEW x \in Streams, getStream(x) PROVE Unserved'
  BY <1>11, Zenon DEF getStream
<1>12. ASSUME NEW x \in Streams, CloseConn(x) PROVE Unserved'
  BY <1>12 DEF CloseConn, Done
<1>13. ASSUME Unblock PROVE Unserved'
  BY <1>13, Zenon DEF Unblock
<1>14. ASSUME Accept PROVE Unserved'
  BY <1>14, Zenon DEF Accept
<1>15. ASSUME NEW c \in Closers, CloseMark(c) PROVE Unserved'
  BY <1>15, Zenon DEF CloseMark, CloseStep
<1>16. ASSUME NEW c \in Closers, CloseCloseCh(c) PROVE Unserved'
  BY <1>16, Zenon DEF CloseCloseCh, CloseStep
<1>17. ASSUME NEW c \in Closers, CloseRelease(c) PROVE Unserved'
  BY <1>17, Zenon DEF CloseRelease, CloseStep, Done
<1>18. ASSUME UNCHANGED vars PROVE Unserved'
  BY <1>18, Zenon DEF vars
<1>. QED
  BY <1>1, <1>2, <1>3, <1>4, <1>5, <1>6, <1>7, <1>8, <1>9, <1>10, <1>11, <1>12, <1>13, <1>14, <1>15, <1>16, <1>17, <1>18
    , Zenon DEF Next, Serve, Wait, Close

(* What is in acceptCh stays there when nothing of it changes. *)
LEMMA SameAcceptCh == ASSUME InAcceptCh, UNCHANGED <<seen, wrapped, blocked, acceptCh>>
                      PROVE  InAcceptCh'
  BY Zenon DEF InAcceptCh

(* Every step keeps the streams of acceptCh distinct and unwrapped. *)
LEMMA AcceptChStep == ASSUME IInv, [Next]_vars PROVE InAcceptCh'
<1>0. /\ InAcceptCh /\ acceptCh \in [Sessions -> Seq(Streams)]
      /\ blocked \in Streams \cup {NoOne} /\ seen \subseteq Streams
  BY Zenon DEF IInv, TypeOK, Places
<1>. USE <1>0
<1>1. ASSUME NEW s \in Sessions, NewSession(s) PROVE InAcceptCh'
  <2>1. UNCHANGED <<seen, wrapped, blocked, acceptCh>>
    BY <1>1, Zenon DEF NewSession
  <2>. QED
    BY <2>1, SameAcceptCh, Zenon
<1>2. ASSUME NEW s \in Sessions, Register(s) PROVE InAcceptCh'
  <2>1. UNCHANGED <<seen, wrapped, blocked, acceptCh>>
    BY <1>2, Zenon DEF Register
  <2>. QED
    BY <2>1, SameAcceptCh, Zenon
<1>3. ASSUME NEW s \in Sessions, AcceptStream(s) PROVE InAcceptCh'
  <2>1. /\ acceptCh[s] \in Seq(Streams) /\ acceptCh[s] # <<>> /\ Distinct(acceptCh[s])
        /\ acceptCh' = [acceptCh EXCEPT ![s] = Tail(acceptCh[s])]
        /\ wrapped' = wrapped \cup {Head(acceptCh[s])} /\ UNCHANGED <<seen, blocked>>
    BY <1>3, Zenon DEF AcceptStream, Wrap, InAcceptCh
  <2>2. /\ Distinct(Tail(acceptCh[s])) /\ Head(acceptCh[s]) \in Elems(acceptCh[s])
        /\ Elems(Tail(acceptCh[s])) = Elems(acceptCh[s]) \ {Head(acceptCh[s])}
    BY <2>1, TailDistinct, Zenon
  <2>3. Head(acceptCh[s]) \in seen /\ Of[Head(acceptCh[s])] = s /\ Head(acceptCh[s]) # blocked
    BY <2>2, Zenon DEF InAcceptCh
  <2>4. \A t \in Sessions : acceptCh'[t] = IF t = s THEN Tail(acceptCh[s]) ELSE acceptCh[t]
    BY <2>1
  <2>. QED
    BY <2>1, <2>2, <2>3, <2>4 DEF InAcceptCh
<1>4. ASSUME NEW s \in Sessions, Hand(s) PROVE InAcceptCh'
  <2>1. UNCHANGED <<seen, wrapped, blocked, acceptCh>>
    BY <1>4, Zenon DEF Hand
  <2>. QED
    BY <2>1, SameAcceptCh, Zenon
<1>5. ASSUME NEW s \in Sessions, HandClosed(s) PROVE InAcceptCh'
  <2>1. UNCHANGED <<seen, wrapped, blocked, acceptCh>>
    BY <1>5, Zenon DEF HandClosed
  <2>. QED
    BY <2>1, SameAcceptCh, Zenon
<1>6. ASSUME NEW s \in Sessions, End(s) PROVE InAcceptCh'
  <2>1. UNCHANGED <<seen, wrapped, blocked, acceptCh>>
    BY <1>6, Zenon DEF End
  <2>. QED
    BY <2>1, SameAcceptCh, Zenon
<1>7. ASSUME NEW s \in Sessions, WaitStarts(s) PROVE InAcceptCh'
  <2>1. UNCHANGED <<seen, wrapped, blocked, acceptCh>>
    BY <1>7, Zenon DEF WaitStarts
  <2>. QED
    BY <2>1, SameAcceptCh, Zenon
<1>8. ASSUME NEW s \in Sessions, WaitReturns(s) PROVE InAcceptCh'
  <2>1. UNCHANGED <<seen, wrapped, blocked, acceptCh>>
    BY <1>8, Zenon DEF WaitReturns
  <2>. QED
    BY <2>1, SameAcceptCh, Zenon
<1>9. ASSUME NEW s \in Sessions, CloseUnused(s) PROVE InAcceptCh'
  <2>1. UNCHANGED <<seen, wrapped, blocked, acceptCh>>
    BY <1>9, Zenon DEF CloseUnused
  <2>. QED
    BY <2>1, SameAcceptCh, Zenon
<1>10. ASSUME NEW s \in Sessions, RemoteClose(s) PROVE InAcceptCh'
  <2>1. UNCHANGED <<seen, wrapped, blocked, acceptCh>>
    BY <1>10, Zenon DEF RemoteClose
  <2>. QED
    BY <2>1, SameAcceptCh, Zenon
<1>11. ASSUME NEW x \in Streams, getStream(x) PROVE InAcceptCh'
  <2>1. /\ Of[x] \in Sessions /\ acceptCh[Of[x]] \in Seq(Streams) /\ x \in Streams
        /\ x \notin wrapped /\ x # NoOne /\ Distinct(acceptCh[Of[x]])
    BY <1>11, NetListenerAssumption, Zenon DEF getStream, InAcceptCh
  <2>2. \A t \in Sessions : x \notin Elems(acceptCh[t])
    BY <1>11, Zenon DEF getStream, InAcceptCh
  <2>3. wrapped' = wrapped /\ seen' = seen \cup {x}
    BY <1>11, Zenon DEF getStream, InAcceptCh
  <2>4. \A t \in Sessions : NoOne \notin Elems(acceptCh[t]) /\ seen \subseteq Streams
    BY NetListenerAssumption, Zenon DEF InAcceptCh
  <2>5. CASE acceptCh' = [acceptCh EXCEPT ![Of[x]] = Append(acceptCh[Of[x]], x)] /\ blocked' = NoOne
    <3>1. /\ Distinct(Append(acceptCh[Of[x]], x))
          /\ Elems(Append(acceptCh[Of[x]], x)) = Elems(acceptCh[Of[x]]) \cup {x}
      BY <2>1, <2>2, AppendDistinct
    <3>2. \A t \in Sessions :
            acceptCh'[t] = IF t = Of[x] THEN Append(acceptCh[Of[x]], x) ELSE acceptCh[t]
      BY <1>0, <2>1, <2>5, Zenon
    <3>3. ASSUME NEW t \in Sessions
          PROVE  /\ Distinct(acceptCh'[t])
                 /\ \A y \in Elems(acceptCh'[t]) :
                      y \in seen' \ wrapped' /\ Of[y] = t /\ y # blocked'
      <4>1. CASE t = Of[x]
        BY <2>1, <2>3, <2>5, <2>4, <3>1, <3>2, <4>1 DEF InAcceptCh
      <4>2. CASE t # Of[x]
        BY <2>1, <2>3, <2>5, <2>4, <3>2, <4>2 DEF InAcceptCh
      <4>. QED
        BY <4>1, <4>2
    <3>. QED
      BY <2>3, <2>5, <3>3, Zenon DEF InAcceptCh
  <2>6. CASE acceptCh' = acceptCh /\ blocked' = x
    BY <2>1, <2>2, <2>3, <2>6 DEF InAcceptCh
  <2>. QED
    BY <1>11, <2>5, <2>6, Zenon DEF getStream
<1>12. ASSUME NEW x \in Streams, CloseConn(x) PROVE InAcceptCh'
  <2>1. wrapped' \subseteq wrapped /\ UNCHANGED <<seen, blocked, acceptCh>>
    BY <1>12, Zenon DEF CloseConn
  <2>. QED
    BY <2>1, Zenon DEF InAcceptCh
<1>13. ASSUME Unblock PROVE InAcceptCh'
  <2>1. /\ Of[blocked] \in Sessions /\ acceptCh[Of[blocked]] \in Seq(Streams) /\ blocked \in Streams
        /\ blocked \notin wrapped /\ blocked # NoOne /\ Distinct(acceptCh[Of[blocked]])
    BY <1>13, NetListenerAssumption, Zenon DEF Unblock, InAcceptCh
  <2>2. \A t \in Sessions : blocked \notin Elems(acceptCh[t])
    BY <1>13, Zenon DEF Unblock, InAcceptCh
  <2>3. wrapped' = wrapped /\ seen' = seen \cup {blocked}
    BY <1>13, Zenon DEF Unblock, InAcceptCh
  <2>4. \A t \in Sessions : NoOne \notin Elems(acceptCh[t]) /\ seen \subseteq Streams
    BY NetListenerAssumption, Zenon DEF InAcceptCh
  <2>5. CASE acceptCh' = [acceptCh EXCEPT ![Of[blocked]] = Append(acceptCh[Of[blocked]], blocked)] /\ blocked' = NoOne
    <3>1. /\ Distinct(Append(acceptCh[Of[blocked]], blocked))
          /\ Elems(Append(acceptCh[Of[blocked]], blocked)) = Elems(acceptCh[Of[blocked]]) \cup {blocked}
      BY <2>1, <2>2, AppendDistinct
    <3>2. \A t \in Sessions :
            acceptCh'[t] = IF t = Of[blocked] THEN Append(acceptCh[Of[blocked]], blocked) ELSE acceptCh[t]
      BY <1>0, <2>1, <2>5, Zenon
    <3>3. ASSUME NEW t \in Sessions
          PROVE  /\ Distinct(acceptCh'[t])
                 /\ \A y \in Elems(acceptCh'[t]) :
                      y \in seen' \ wrapped' /\ Of[y] = t /\ y # blocked'
      <4>1. CASE t = Of[blocked]
        BY <2>1, <2>3, <2>5, <2>4, <3>1, <3>2, <4>1 DEF InAcceptCh
      <4>2. CASE t # Of[blocked]
        BY <2>1, <2>3, <2>5, <2>4, <3>2, <4>2 DEF InAcceptCh
      <4>. QED
        BY <4>1, <4>2
    <3>. QED
      BY <2>3, <2>5, <3>3, Zenon DEF InAcceptCh
  <2>6. CASE acceptCh' = acceptCh /\ blocked' = NoOne
    BY <2>3, <2>6, <2>4 DEF InAcceptCh
  <2>. QED
    BY <1>13, <2>5, <2>6, Zenon DEF Unblock
<1>14. ASSUME Accept PROVE InAcceptCh'
  <2>1. UNCHANGED <<seen, wrapped, blocked, acceptCh>>
    BY <1>14, Zenon DEF Accept
  <2>. QED
    BY <2>1, SameAcceptCh, Zenon
<1>15. ASSUME NEW c \in Closers, CloseMark(c) PROVE InAcceptCh'
  <2>1. UNCHANGED <<seen, wrapped, blocked, acceptCh>>
    BY <1>15, Zenon DEF CloseMark
  <2>. QED
    BY <2>1, SameAcceptCh, Zenon
<1>16. ASSUME NEW c \in Closers, CloseCloseCh(c) PROVE InAcceptCh'
  <2>1. UNCHANGED <<seen, wrapped, blocked, acceptCh>>
    BY <1>16, Zenon DEF CloseCloseCh
  <2>. QED
    BY <2>1, SameAcceptCh, Zenon
<1>17. ASSUME NEW c \in Closers, CloseRelease(c) PROVE InAcceptCh'
  <2>1. UNCHANGED <<seen, wrapped, blocked, acceptCh>>
    BY <1>17, Zenon DEF CloseRelease
  <2>. QED
    BY <2>1, SameAcceptCh, Zenon
<1>18. ASSUME UNCHANGED vars PROVE InAcceptCh'
  <2>1. UNCHANGED <<seen, wrapped, blocked, acceptCh>>
    BY <1>18, Zenon DEF vars
  <2>. QED
    BY <2>1, SameAcceptCh
<1>. QED
  BY <1>1, <1>2, <1>3, <1>4, <1>5, <1>6, <1>7, <1>8, <1>9, <1>10, <1>11, <1>12, <1>13, <1>14, <1>15, <1>16, <1>17, <1>18, Zenon
     DEF Next, Serve, Wait, Close

(* Every step keeps each wrapped stream in one place. *)
LEMMA BacklogStep == ASSUME IInv, [Next]_vars PROVE InBacklog'
<1>0. /\ InAcceptCh /\ InBacklog /\ acceptCh \in [Sessions -> Seq(Streams)]
      /\ pc \in [Sessions -> {"none", "created", "accept", "hand", "gone"}]
      /\ held \in [Sessions -> Streams \cup {NoOne}] /\ backlog \in Seq(Streams)
      /\ wrapped \subseteq Streams
  BY Zenon DEF IInv, TypeOK, Places
<1>. USE <1>0
<1>1. ASSUME NEW s \in Sessions, NewSession(s) PROVE InBacklog'
  <2>1. /\ UNCHANGED <<held, wrapped, conns, backlog>>
        /\ \A t \in Sessions : pc'[t] = "hand" => pc[t] = "hand"
    BY <1>1, Zenon DEF NewSession, Goto
  <2>. QED
    BY <2>1, Zenon DEF InBacklog
<1>2. ASSUME NEW s \in Sessions, Register(s) PROVE InBacklog'
  <2>1. /\ UNCHANGED <<held, wrapped, conns, backlog>>
        /\ \A t \in Sessions : pc'[t] = "hand" => pc[t] = "hand"
    BY <1>2, Zenon DEF Register, Goto
  <2>. QED
    BY <2>1, Zenon DEF InBacklog
<1>3. ASSUME NEW s \in Sessions, AcceptStream(s) PROVE InBacklog'
  <2>1. /\ Head(acceptCh[s]) \in Elems(acceptCh[s])
        /\ pc' = [pc EXCEPT ![s] = "hand"] /\ held' = [held EXCEPT ![s] = Head(acceptCh[s])]
        /\ wrapped' = wrapped \cup {Head(acceptCh[s])} /\ UNCHANGED <<conns, backlog>>
    BY <1>3, TailDistinct, Zenon DEF AcceptStream, Goto, Wrap, InAcceptCh
  <2>2. Head(acceptCh[s]) \notin wrapped /\ Of[Head(acceptCh[s])] = s
    BY <2>1, Zenon DEF InAcceptCh
  <2>. QED
    BY <2>1, <2>2, Zenon DEF InBacklog
<1>4. ASSUME NEW s \in Sessions, Hand(s) PROVE InBacklog'
  <2>1. /\ pc[s] = "hand" /\ pc' = [pc EXCEPT ![s] = "accept"]
        /\ held' = [held EXCEPT ![s] = NoOne] /\ backlog' = Append(backlog, held[s])
        /\ UNCHANGED <<wrapped, conns>>
    BY <1>4, Zenon DEF Hand, Goto
  <2>2. held[s] \in Streams /\ held[s] \notin Elems(backlog) /\ Of[held[s]] = s
    BY <2>1, Zenon DEF InBacklog
  <2>3. Distinct(backlog') /\ Elems(backlog') = Elems(backlog) \cup {held[s]}
    BY <2>1, <2>2, AppendDistinct DEF InBacklog
  <2>4. \A t \in Sessions : pc'[t] = "hand" => t # s /\ pc[t] = "hand" /\ held'[t] = held[t]
    BY <2>1, Zenon
  <2>5. \A t \in Sessions : pc'[t] = "hand" =>
          held'[t] \in wrapped' \ (conns' \cup Elems(backlog')) /\ Of[held'[t]] = t
    BY <2>1, <2>2, <2>3, <2>4 DEF InBacklog
  <2>. QED
    BY <2>1, <2>3, <2>5 DEF InBacklog
<1>5. ASSUME NEW s \in Sessions, HandClosed(s) PROVE InBacklog'
  <2>1. /\ UNCHANGED <<held, wrapped, conns, backlog>>
        /\ \A t \in Sessions : pc'[t] = "hand" => pc[t] = "hand"
    BY <1>5, Zenon DEF HandClosed, Goto
  <2>. QED
    BY <2>1, Zenon DEF InBacklog
<1>6. ASSUME NEW s \in Sessions, End(s) PROVE InBacklog'
  <2>1. /\ UNCHANGED <<held, wrapped, conns, backlog>>
        /\ \A t \in Sessions : pc'[t] = "hand" => pc[t] = "hand"
    BY <1>6, Zenon DEF End, Goto
  <2>. QED
    BY <2>1, Zenon DEF InBacklog
<1>7. ASSUME NEW s \in Sessions, WaitStarts(s) PROVE InBacklog'
  <2>1. UNCHANGED <<pc, held, wrapped, conns, backlog>>
    BY <1>7, Zenon DEF WaitStarts
  <2>. QED
    BY <2>1, Zenon DEF InBacklog
<1>8. ASSUME NEW s \in Sessions, WaitReturns(s) PROVE InBacklog'
  <2>1. UNCHANGED <<pc, held, wrapped, conns, backlog>>
    BY <1>8, Zenon DEF WaitReturns
  <2>. QED
    BY <2>1, Zenon DEF InBacklog
<1>9. ASSUME NEW s \in Sessions, CloseUnused(s) PROVE InBacklog'
  <2>1. UNCHANGED <<pc, held, wrapped, conns, backlog>>
    BY <1>9, Zenon DEF CloseUnused
  <2>. QED
    BY <2>1, Zenon DEF InBacklog
<1>10. ASSUME NEW s \in Sessions, RemoteClose(s) PROVE InBacklog'
  <2>1. UNCHANGED <<pc, held, wrapped, conns, backlog>>
    BY <1>10, Zenon DEF RemoteClose
  <2>. QED
    BY <2>1, Zenon DEF InBacklog
<1>11. ASSUME NEW x \in Streams, getStream(x) PROVE InBacklog'
  <2>1. UNCHANGED <<pc, held, wrapped, conns, backlog>>
    BY <1>11, Zenon DEF getStream
  <2>. QED
    BY <2>1, Zenon DEF InBacklog
<1>12. ASSUME NEW x \in Streams, CloseConn(x) PROVE InBacklog'
  <2>1. /\ x \in conns /\ conns' = conns \ {x} /\ wrapped' = wrapped \ {x}
        /\ UNCHANGED <<pc, held, backlog>>
    BY <1>12, Zenon DEF CloseConn
  <2>. QED
    BY <2>1 DEF InBacklog
<1>13. ASSUME Unblock PROVE InBacklog'
  <2>1. UNCHANGED <<pc, held, wrapped, conns, backlog>>
    BY <1>13, Zenon DEF Unblock
  <2>. QED
    BY <2>1, Zenon DEF InBacklog
<1>14. ASSUME Accept PROVE InBacklog'
  <2>1. /\ backlog # <<>> /\ backlog' = Tail(backlog) /\ conns' = conns \cup {Head(backlog)}
        /\ UNCHANGED <<pc, held, wrapped>>
    BY <1>14, Zenon DEF Accept
  <2>2. /\ Distinct(backlog') /\ Head(backlog) \in Elems(backlog)
        /\ Elems(backlog') = Elems(backlog) \ {Head(backlog)}
    BY <2>1, TailDistinct, Zenon DEF InBacklog
  <2>. QED
    BY <2>1, <2>2 DEF InBacklog
<1>15. ASSUME NEW c \in Closers, CloseMark(c) PROVE InBacklog'
  <2>1. UNCHANGED <<pc, held, wrapped, conns, backlog>>
    BY <1>15, Zenon DEF CloseMark
  <2>. QED
    BY <2>1, Zenon DEF InBacklog
<1>16. ASSUME NEW c \in Closers, CloseCloseCh(c) PROVE InBacklog'
  <2>1. UNCHANGED <<pc, held, wrapped, conns, backlog>>
    BY <1>16, Zenon DEF CloseCloseCh
  <2>. QED
    BY <2>1, Zenon DEF InBacklog
<1>17. ASSUME NEW c \in Closers, CloseRelease(c) PROVE InBacklog'
  <2>1. UNCHANGED <<pc, held, wrapped, conns, backlog>>
    BY <1>17, Zenon DEF CloseRelease
  <2>. QED
    BY <2>1, Zenon DEF InBacklog
<1>18. ASSUME UNCHANGED vars PROVE InBacklog'
  <2>1. UNCHANGED <<pc, held, wrapped, conns, backlog>>
    BY <1>18, Zenon DEF vars
  <2>. QED
    BY <2>1, Zenon DEF InBacklog
<1>. QED
  BY <1>1, <1>2, <1>3, <1>4, <1>5, <1>6, <1>7, <1>8, <1>9, <1>10, <1>11, <1>12, <1>13, <1>14, <1>15, <1>16, <1>17, <1>18, Zenon
     DEF Next, Serve, Wait, Close

(* Every step keeps the counts exact. *)
LEMMA RefsStep == ASSUME IInv, [Next]_vars PROVE RefsExact'
<1>0. /\ TypeOK /\ RefsExact /\ InAcceptCh /\ InBacklog /\ Unserved
      /\ refs \in [Sessions -> Nat] /\ table \subseteq Sessions
      /\ acceptCh \in [Sessions -> Seq(Streams)]
  BY Zenon DEF IInv, TypeOK, Places
<1>. USE <1>0
<1>1. ASSUME NEW s \in Sessions, NewSession(s) PROVE RefsExact'
  <2>1. UNCHANGED <<refs, wrapped, table>>
    BY <1>1, Zenon DEF NewSession
  <2>. QED
    BY <2>1, Zenon DEF RefsExact, Wrappers
<1>2. ASSUME NEW s \in Sessions, Register(s) PROVE RefsExact'
  <2>1. wrapped' = wrapped /\ pc[s] = "created"
    BY <1>2, Zenon DEF Register, Goto
  <2>2. CASE UNCHANGED <<refs, table>>
    BY <2>1, <2>2, Zenon DEF RefsExact, Wrappers
  <2>3. CASE refs' = [refs EXCEPT ![s] = 1] /\ table' = table \cup {s}
    <3>1. Wrappers(s)' = {} /\ Cardinality({}) = 0
      BY <2>1, FS_EmptySet, Zenon DEF Unserved, Wrappers
    <3>2. \A t \in Sessions : Wrappers(t)' = Wrappers(t)
      BY <2>1, Zenon DEF Wrappers
    <3>3. refs'[s] = Cardinality(Wrappers(s)') + (IF s \in table' THEN 1 ELSE 0)
      BY <2>3, <3>1
    <3>4. \A t \in Sessions : t # s =>
            refs'[t] = Cardinality(Wrappers(t)') + (IF t \in table' THEN 1 ELSE 0)
      BY <2>3, <3>2, Zenon DEF RefsExact
    <3>. QED
      BY <3>3, <3>4, Zenon DEF RefsExact
  <2>. QED
    BY <1>2, <2>2, <2>3, Zenon DEF Register
<1>3. ASSUME NEW s \in Sessions, AcceptStream(s) PROVE RefsExact'
  <2>1. /\ Head(acceptCh[s]) \in Elems(acceptCh[s]) /\ table' = table
        /\ wrapped' = wrapped \cup {Head(acceptCh[s])} /\ refs' = [refs EXCEPT ![s] = @ + 1]
    BY <1>3, TailDistinct, Zenon DEF AcceptStream, Wrap, InAcceptCh
  <2>2. Head(acceptCh[s]) \notin wrapped /\ Of[Head(acceptCh[s])] = s
    BY <2>1, Zenon DEF InAcceptCh
  <2>3. /\ Wrappers(s)' = Wrappers(s) \cup {Head(acceptCh[s])}
        /\ Head(acceptCh[s]) \notin Wrappers(s)
        /\ \A t \in Sessions : t # s => Wrappers(t)' = Wrappers(t)
    BY <2>1, <2>2, Zenon DEF Wrappers
  <2>4. Cardinality(Wrappers(s)') = Cardinality(Wrappers(s)) + 1
    BY <2>3, WrappersFinite, FS_AddElement, Zenon
  <2>5. refs'[s] = Cardinality(Wrappers(s)') + (IF s \in table' THEN 1 ELSE 0)
    BY <2>1, <2>4, WrappersFinite DEF RefsExact
  <2>6. \A t \in Sessions : t # s =>
          refs'[t] = Cardinality(Wrappers(t)') + (IF t \in table' THEN 1 ELSE 0)
    BY <2>1, <2>3, Zenon DEF RefsExact
  <2>. QED
    BY <2>5, <2>6, Zenon DEF RefsExact
<1>4. ASSUME NEW s \in Sessions, Hand(s) PROVE RefsExact'
  <2>1. UNCHANGED <<refs, wrapped, table>>
    BY <1>4, Zenon DEF Hand
  <2>. QED
    BY <2>1, Zenon DEF RefsExact, Wrappers
<1>5. ASSUME NEW s \in Sessions, HandClosed(s) PROVE RefsExact'
  <2>1. UNCHANGED <<refs, wrapped, table>>
    BY <1>5, Zenon DEF HandClosed
  <2>. QED
    BY <2>1, Zenon DEF RefsExact, Wrappers
<1>6. ASSUME NEW s \in Sessions, End(s) PROVE RefsExact'
  <2>1. /\ wrapped' = wrapped /\ table' = table \ ({s} \cap table)
        /\ refs' = [t \in Sessions |-> IF t \in ({s} \cap table) THEN refs[t] - 1 ELSE refs[t]]
    BY <1>6, Zenon DEF End, Done
  <2>2. \A t \in Sessions : /\ Wrappers(t)' = Wrappers(t) /\ Cardinality(Wrappers(t)) \in Nat
                           /\ t \in ({s} \cap table) => t \in table
    BY <2>1, WrappersFinite, Zenon DEF Wrappers
  <2>3. ASSUME NEW t \in Sessions
        PROVE  refs'[t] = Cardinality(Wrappers(t)') + (IF t \in table' THEN 1 ELSE 0)
    <3>1. refs[t] = Cardinality(Wrappers(t)) + (IF t \in table THEN 1 ELSE 0)
      BY Zenon DEF RefsExact
    <3>2. refs'[t] = (IF t \in ({s} \cap table) THEN refs[t] - 1 ELSE refs[t])
      BY <2>1, Zenon
    <3>3. Wrappers(t)' = Wrappers(t) /\ Cardinality(Wrappers(t)) \in Nat
      BY <2>1, WrappersFinite, Zenon DEF Wrappers
    <3>. QED
      BY <2>1, <2>2, <3>1, <3>2, <3>3
  <2>. QED
    BY <2>3, Zenon DEF RefsExact
<1>7. ASSUME NEW s \in Sessions, WaitStarts(s) PROVE RefsExact'
  <2>1. UNCHANGED <<refs, wrapped, table>>
    BY <1>7, Zenon DEF WaitStarts
  <2>. QED
    BY <2>1, Zenon DEF RefsExact, Wrappers
<1>8. ASSUME NEW s \in Sessions, WaitReturns(s) PROVE RefsExact'
  <2>1. UNCHANGED <<refs, wrapped, table>>
    BY <1>8, Zenon DEF WaitReturns
  <2>. QED
    BY <2>1, Zenon DEF RefsExact, Wrappers
<1>9. ASSUME NEW s \in Sessions, CloseUnused(s) PROVE RefsExact'
  <2>1. UNCHANGED <<refs, wrapped, table>>
    BY <1>9, Zenon DEF CloseUnused
  <2>. QED
    BY <2>1, Zenon DEF RefsExact, Wrappers
<1>10. ASSUME NEW s \in Sessions, RemoteClose(s) PROVE RefsExact'
  <2>1. UNCHANGED <<refs, wrapped, table>>
    BY <1>10, Zenon DEF RemoteClose
  <2>. QED
    BY <2>1, Zenon DEF RefsExact, Wrappers
<1>11. ASSUME NEW x \in Streams, getStream(x) PROVE RefsExact'
  <2>1. UNCHANGED <<refs, wrapped, table>>
    BY <1>11, Zenon DEF getStream
  <2>. QED
    BY <2>1, Zenon DEF RefsExact, Wrappers
<1>12. ASSUME NEW x \in Streams, CloseConn(x) PROVE RefsExact'
  <2>1. /\ x \in wrapped /\ wrapped' = wrapped \ {x} /\ table' = table
        /\ refs' = [t \in Sessions |-> IF t \in {Of[x]} THEN refs[t] - 1 ELSE refs[t]]
    BY <1>12, Zenon DEF CloseConn, Done, InBacklog
  <2>2. Of[x] \in Sessions
    BY NetListenerAssumption, Zenon
  <2>3. /\ Wrappers(Of[x])' = Wrappers(Of[x]) \ {x} /\ x \in Wrappers(Of[x])
        /\ \A t \in Sessions : t # Of[x] => Wrappers(t)' = Wrappers(t)
    BY <2>1, Zenon DEF Wrappers
  <2>4. Cardinality(Wrappers(Of[x])') = Cardinality(Wrappers(Of[x])) - 1
    <3>1. IsFiniteSet(Wrappers(Of[x]))
      BY <2>2, WrappersFinite
    <3>. QED
      BY <2>3, <3>1, FS_RemoveElement, Zenon
  <2>5. refs'[Of[x]] = Cardinality(Wrappers(Of[x])') + (IF Of[x] \in table' THEN 1 ELSE 0)
    BY <2>1, <2>2, <2>4, WrappersFinite DEF RefsExact
  <2>6. \A t \in Sessions : t # Of[x] =>
          refs'[t] = Cardinality(Wrappers(t)') + (IF t \in table' THEN 1 ELSE 0)
    BY <2>1, <2>3, Zenon DEF RefsExact
  <2>. QED
    BY <2>5, <2>6, Zenon DEF RefsExact
<1>13. ASSUME Unblock PROVE RefsExact'
  <2>1. UNCHANGED <<refs, wrapped, table>>
    BY <1>13, Zenon DEF Unblock
  <2>. QED
    BY <2>1, Zenon DEF RefsExact, Wrappers
<1>14. ASSUME Accept PROVE RefsExact'
  <2>1. UNCHANGED <<refs, wrapped, table>>
    BY <1>14, Zenon DEF Accept
  <2>. QED
    BY <2>1, Zenon DEF RefsExact, Wrappers
<1>15. ASSUME NEW c \in Closers, CloseMark(c) PROVE RefsExact'
  <2>1. UNCHANGED <<refs, wrapped, table>>
    BY <1>15, Zenon DEF CloseMark
  <2>. QED
    BY <2>1, Zenon DEF RefsExact, Wrappers
<1>16. ASSUME NEW c \in Closers, CloseCloseCh(c) PROVE RefsExact'
  <2>1. UNCHANGED <<refs, wrapped, table>>
    BY <1>16, Zenon DEF CloseCloseCh
  <2>. QED
    BY <2>1, Zenon DEF RefsExact, Wrappers
<1>17. ASSUME NEW c \in Closers, CloseRelease(c) PROVE RefsExact'
  <2>1. /\ wrapped' = wrapped /\ table' = table \ table
        /\ refs' = [t \in Sessions |-> IF t \in table THEN refs[t] - 1 ELSE refs[t]]
    BY <1>17, Zenon DEF CloseRelease, Done
  <2>2. \A t \in Sessions : /\ Wrappers(t)' = Wrappers(t) /\ Cardinality(Wrappers(t)) \in Nat
                           /\ t \in table => t \in table
    BY <2>1, WrappersFinite, Zenon DEF Wrappers
  <2>3. ASSUME NEW t \in Sessions
        PROVE  refs'[t] = Cardinality(Wrappers(t)') + (IF t \in table' THEN 1 ELSE 0)
    <3>1. refs[t] = Cardinality(Wrappers(t)) + (IF t \in table THEN 1 ELSE 0)
      BY Zenon DEF RefsExact
    <3>2. refs'[t] = (IF t \in table THEN refs[t] - 1 ELSE refs[t])
      BY <2>1, Zenon
    <3>3. Wrappers(t)' = Wrappers(t) /\ Cardinality(Wrappers(t)) \in Nat
      BY <2>1, WrappersFinite, Zenon DEF Wrappers
    <3>. QED
      BY <2>1, <2>2, <3>1, <3>2, <3>3
  <2>. QED
    BY <2>3, Zenon DEF RefsExact
<1>18. ASSUME UNCHANGED vars PROVE RefsExact'
  <2>1. UNCHANGED <<refs, wrapped, table>>
    BY <1>18, Zenon DEF vars
  <2>. QED
    BY <2>1, Zenon DEF RefsExact, Wrappers
<1>. QED
  BY <1>1, <1>2, <1>3, <1>4, <1>5, <1>6, <1>7, <1>8, <1>9, <1>10, <1>11, <1>12, <1>13, <1>14, <1>15, <1>16, <1>17, <1>18, Zenon
     DEF Next, Serve, Wait, Close

(* A count of zero means that the session has no references. *)
LEMMA ZeroMeansUnused ==
  ASSUME NEW w \in SUBSET Streams, NEW t \in SUBSET Sessions, NEW s \in Sessions,
         Cardinality({x \in w : Of[x] = s}) + (IF s \in t THEN 1 ELSE 0) = 0
  PROVE  s \notin t /\ \A x \in w : Of[x] # s
<1>1. IsFiniteSet({x \in w : Of[x] = s})
  BY NetListenerAssumption, FS_Subset, Zenon
<1>2. Cardinality({x \in w : Of[x] = s}) \in Nat
  BY <1>1, FS_CardinalityType, Zenon
<1>3. s \notin t /\ Cardinality({x \in w : Of[x] = s}) = 0
  BY <1>2
<1>4. {x \in w : Of[x] = s} = {}
  BY <1>1, <1>3, FS_EmptySet
<1>. QED
  BY <1>3, <1>4, Zenon

(* Every step keeps what is known of the counts that were zero. *)
LEMMA WaitsStep == ASSUME IInv, [Next]_vars PROVE Waits'
<1>0. TypeOK /\ Waits /\ Unserved /\ RefsExact /\ Places
  BY Zenon DEF IInv
<1>a. /\ wrapped' \in SUBSET Streams /\ table' \in SUBSET Sessions /\ RefsExact'
  BY TypeStep, RefsStep, Zenon DEF TypeOK
<1>. USE <1>0 DEF Waits, TypeOK
<1>1. ASSUME NEW s \in Sessions, NewSession(s) PROVE Waits'
  BY <1>1, Zenon DEF NewSession, Goto
<1>2. ASSUME NEW s \in Sessions, Register(s) PROVE Waits'
  BY <1>2 DEF Register, Goto
<1>3. ASSUME NEW s \in Sessions, AcceptStream(s) PROVE Waits'
  <2>1. /\ Head(acceptCh[s]) \in Elems(acceptCh[s]) /\ wrapped' = wrapped \cup {Head(acceptCh[s])}
        /\ waiter[s] \in {"woken", "returned", "done", "panic"} =>
             late' = late \cup {Head(acceptCh[s])}
        /\ late \subseteq late' /\ UNCHANGED <<closed, closer, table, waiter, byCount, shutdown>>
        /\ \A t \in Sessions : pc'[t] \notin {"none", "created"} => pc[t] \notin {"none", "created"}
    BY <1>3, TailDistinct DEF AcceptStream, Goto, Wrap, WasZero, Places, InAcceptCh
  <2>2. Of[Head(acceptCh[s])] = s
    BY <2>1, Zenon DEF Places, InAcceptCh
  <2>. QED
    BY <2>1, <2>2, Zenon
<1>4. ASSUME NEW s \in Sessions, Hand(s) PROVE Waits'
  BY <1>4, Zenon DEF Hand, Goto
<1>5. ASSUME NEW s \in Sessions, HandClosed(s) PROVE Waits'
  BY <1>5, Zenon DEF HandClosed, Goto
<1>6. ASSUME NEW s \in Sessions, End(s) PROVE Waits'
  <2>1. /\ s \in shutdown /\ table' = table \ {s} /\ pc[s] = "accept"
        /\ pc' = [pc EXCEPT ![s] = "gone"] 
        /\ UNCHANGED <<closed, closer, wrapped, late, byCount, shutdown>>
    BY <1>6, Zenon DEF End, Goto
  <2>2. ASSUME NEW t \in Sessions, waiter'[t] # waiter[t]
        PROVE  t \notin table' /\ \A y \in wrapped' : Of[y] # t
    <3>1. refs'[t] = 0
      BY <1>6, <2>2 DEF End, Done
    <3>2. refs'[t] = Cardinality({y \in wrapped' : Of[y] = t})
                       + (IF t \in table' THEN 1 ELSE 0)
      BY <1>a, Zenon DEF RefsExact, Wrappers
    <3>. QED
      BY <3>1, <3>2, <1>a, ZeroMeansUnused, Zenon
  <2>3. waiter' \in [Sessions -> {"none", "starting", "waiting", "woken", "returned", "panic",
                                  "done"}]
        /\ \A t \in Sessions : waiter[t] = "done" => waiter'[t] = "done"
    BY <1>6, Zenon DEF End, Done
  <2>. QED
    BY <2>1, <2>2, <2>3, Zenon
<1>7. ASSUME NEW s \in Sessions, WaitStarts(s) PROVE Waits'
  <2>1. /\ waiter[s] = "starting" /\ UNCHANGED <<closed, closer, table, pc, wrapped, late, byCount,
                                                shutdown>>
        /\ waiter' = [waiter EXCEPT ![s] = IF refs[s] = 0 THEN "returned" ELSE "waiting"]
    BY <1>7, Zenon DEF WaitStarts
  <2>2. refs[s] = 0 => s \notin table /\ \A x \in wrapped : Of[x] # s
    BY ZeroMeansUnused, Zenon DEF RefsExact, Wrappers
  <2>. QED
    BY <2>1, <2>2, Zenon
<1>8. ASSUME NEW s \in Sessions, WaitReturns(s) PROVE Waits'
  BY <1>8, Zenon DEF WaitReturns
<1>9. ASSUME NEW s \in Sessions, CloseUnused(s) PROVE Waits'
  <2>1. /\ waiter[s] = "returned" /\ waiter' = [waiter EXCEPT ![s] = "done"]
        /\ shutdown' = shutdown \cup {s} /\ byCount' = byCount \cup ({s} \ shutdown)
        /\ UNCHANGED <<closed, closer, table, pc, wrapped, late>>
    BY <1>9, Zenon DEF CloseUnused
  <2>2. s \notin table /\ pc[s] \notin {"none", "created"}
    BY <2>1, Zenon DEF Unserved
  <2>. QED
    BY <2>1, <2>2, Zenon
<1>10. ASSUME NEW s \in Sessions, RemoteClose(s) PROVE Waits'
  BY <1>10, Zenon DEF RemoteClose
<1>11. ASSUME NEW x \in Streams, getStream(x) PROVE Waits'
  BY <1>11, Zenon DEF getStream
<1>12. ASSUME NEW x \in Streams, CloseConn(x) PROVE Waits'
  <2>1. wrapped' \subseteq wrapped /\ UNCHANGED <<closed, closer, table, pc, late, byCount,
                                                  shutdown>>
    BY <1>12, Zenon DEF CloseConn
  <2>2. ASSUME NEW t \in Sessions, waiter'[t] # waiter[t]
        PROVE  t \notin table' /\ \A y \in wrapped' : Of[y] # t
    <3>1. refs'[t] = 0
      BY <1>12, <2>2 DEF CloseConn, Done
    <3>2. refs'[t] = Cardinality({y \in wrapped' : Of[y] = t})
                       + (IF t \in table' THEN 1 ELSE 0)
      BY <1>a, Zenon DEF RefsExact, Wrappers
    <3>. QED
      BY <3>1, <3>2, <1>a, ZeroMeansUnused, Zenon
  <2>3. waiter' \in [Sessions -> {"none", "starting", "waiting", "woken", "returned", "panic",
                                  "done"}]
        /\ \A t \in Sessions : waiter[t] = "done" => waiter'[t] = "done"
    BY <1>12, Zenon DEF CloseConn, Done
  <2>. QED
    BY <2>1, <2>2, <2>3, Zenon
<1>13. ASSUME Unblock PROVE Waits'
  BY <1>13, Zenon DEF Unblock
<1>14. ASSUME Accept PROVE Waits'
  BY <1>14, Zenon DEF Accept
<1>15. ASSUME NEW c \in Closers, CloseMark(c) PROVE Waits'
  BY <1>15, Zenon DEF CloseMark, CloseStep
<1>16. ASSUME NEW c \in Closers, CloseCloseCh(c) PROVE Waits'
  BY <1>16, Zenon DEF CloseCloseCh, CloseStep
<1>17. ASSUME NEW c \in Closers, CloseRelease(c) PROVE Waits'
  <2>1. /\ closed /\ table' = {} /\ UNCHANGED <<closed, pc, wrapped, late, byCount, shutdown>>
        /\ \A d \in Closers : closer'[d] # "idle" => closed
    BY <1>17, Zenon DEF CloseRelease, CloseStep
  <2>2. ASSUME NEW t \in Sessions, waiter'[t] # waiter[t]
        PROVE  t \notin table' /\ \A y \in wrapped' : Of[y] # t
    <3>1. refs'[t] = 0
      BY <1>17, <2>2 DEF CloseRelease, Done
    <3>2. refs'[t] = Cardinality({y \in wrapped' : Of[y] = t})
                       + (IF t \in table' THEN 1 ELSE 0)
      BY <1>a, Zenon DEF RefsExact, Wrappers
    <3>. QED
      BY <3>1, <3>2, <1>a, ZeroMeansUnused, Zenon
  <2>3. waiter' \in [Sessions -> {"none", "starting", "waiting", "woken", "returned", "panic",
                                  "done"}]
        /\ \A t \in Sessions : waiter[t] = "done" => waiter'[t] = "done"
    BY <1>17, Zenon DEF CloseRelease, Done
  <2>. QED
    BY <2>1, <2>2, <2>3, Zenon
<1>18. ASSUME UNCHANGED vars PROVE Waits'
  BY <1>18, Zenon DEF vars
<1>. QED
  BY <1>1, <1>2, <1>3, <1>4, <1>5, <1>6, <1>7, <1>8, <1>9, <1>10, <1>11, <1>12, <1>13, <1>14, <1>15, <1>16, <1>17, <1>18
    , Zenon DEF Next, Serve, Wait, Close

(* The inductive invariant holds in every behaviour. *)
THEOREM Inductive == Spec => []IInv
<1>1. Init => IInv
  <2>. SUFFICES ASSUME Init PROVE IInv
    BY Zenon
  <2>1. TypeOK
    <3>1. acceptCh \in [Sessions -> Seq(Streams)] /\ backlog \in Seq(Streams)
      BY DEF Init
    <3>2. refs \in [Sessions -> Nat] /\ lost \in Nat
      BY Zenon DEF Init
    <3>. QED
      BY <3>1, <3>2, Zenon DEF Init, TypeOK
  <2>2. Places
    BY DEF Init, Places, InAcceptCh, InBacklog, Distinct, Elems
  <2>3. Unserved /\ Waits
    BY Zenon DEF Init, Unserved, Waits
  <2>4. \A s \in Sessions : Wrappers(s) = {}
    BY Zenon DEF Init, Wrappers
  <2>5. RefsExact
    <3>1. \A s \in Sessions : refs[s] = 0 /\ s \notin table
      BY Zenon DEF Init
    <3>. QED
      BY <2>4, <3>1, FS_EmptySet DEF RefsExact
  <2>. QED
    BY <2>1, <2>2, <2>3, <2>5, Zenon DEF IInv
<1>2. IInv /\ [Next]_vars => IInv'
  BY TypeStep, AcceptChStep, BacklogStep, UnservedStep, RefsStep, WaitsStep, Zenon DEF IInv, Places
<1>. QED
  BY <1>1, <1>2, PTL DEF Spec

(* The count of every session is exact: what the goroutine of the session,  *)
(* the wrappers' Close and the listener's Close add and take away always    *)
(* balances.                                                                *)
THEOREM CountsAreExact == Spec => []RefsExact
<1>1. IInv => RefsExact
  BY Zenon DEF IInv
<1>. QED
  BY <1>1, Inductive, PTL

(* A session is terminated for want of references only when the listener is *)
(* closed and the streams that were counted are closed.                     *)
THEOREM TerminatesUnused == Spec => []TerminatedUnused
<1>1. IInv => TerminatedUnused
  BY Zenon DEF IInv, Waits, TypeOK, TerminatedUnused, Wrappers
<1>. QED
  BY <1>1, Inductive, PTL
=============================================================================
