---------------------------- MODULE WakeUpProofs ----------------------------
(***************************************************************************)
(* Proofs about WakeUp, for any number of flushers and of waitForSend      *)
(* calls and for any capacities.  The invariants are proved in layers, so  *)
(* that each step uses only the layers below it: types and frames, the     *)
(* ownership of the connection, then the working flag and the queue.       *)
(***************************************************************************)
EXTENDS WakeUp, TLAPS

USE DEF queueVars, connVars

(* What frames there are. *)
LEMMA FrameNames == "polling" \in Frames /\ "hotRestart" \in Frames /\ Waiters \subseteq Frames
  BY Zenon DEF Frames

(* Every step keeps the types and the bounds of the queue and of sendCh. *)
LEMMA TypeStep == ASSUME TypeOK, FrameInv, [Next]_vars PROVE TypeOK'
<1>. USE BoundsAssumption DEF TypeOK, FlusherSteps, SenderSteps, ConsumerSteps
<1>1. ASSUME NEW g \in Flushers, Put(g) PROVE TypeOK'
  BY <1>1 DEF Put, Goto
<1>2. ASSUME NEW g \in Flushers, MarkWorking(g) PROVE TypeOK'
  <2>1. frame' \in [Flushers -> Frames \cup {Nothing}]
    BY FrameNames, <1>2, Zenon DEF MarkWorking
  <2>. QED
    BY <2>1, <1>2 DEF MarkWorking, Goto
<1>3. ASSUME NEW g \in Flushers, BeginHotRestart(g) PROVE TypeOK'
  <2>1. frame' \in [Flushers -> Frames \cup {Nothing}]
    BY FrameNames, <1>3, Zenon DEF BeginHotRestart
  <2>. QED
    BY <2>1, <1>3 DEF BeginHotRestart, Goto
<1>4. ASSUME NEW g \in Flushers, TryWrite(g) PROVE TypeOK'
  BY <1>4 DEF TryWrite, Goto
<1>5. ASSUME NEW g \in Flushers, FastWriteBegin(g) PROVE TypeOK'
  <2>1. pc' \in [Flushers -> FlusherSteps]
    BY <1>5, Zenon DEF FastWriteBegin, Goto
  <2>2. /\ partial' \in Frames \cup {Nothing} /\ garbled' \in BOOLEAN
        /\ written' \in SUBSET Waiters /\ sock' = sock
    BY <1>5, Zenon DEF FastWriteBegin, WriteFirstBytes, WriteFails
  <2>9. /\ shutdown' \in BOOLEAN /\ broken' \in BOOLEAN
        /\ UNCHANGED <<queueVars, writing, sendCh, notifyCh, frame, waiter, spc, sframe,
                       cpc, hots>>
    BY <1>5, Zenon DEF FastWriteBegin, WriteFails
  <2>. QED
    BY <2>1, <2>2, <2>9
<1>6. ASSUME NEW g \in Flushers, FastWriteEnd(g) PROVE TypeOK'
  <2>1. pc' \in [Flushers -> FlusherSteps] /\ frame[g] \in Frames
    BY FrameNames, <1>6, Zenon DEF FastWriteEnd, Goto, FrameInv
  <2>2. Append(sock, frame[g]) \in Seq(Frames)
    BY <2>1
  <2>3. /\ partial' \in Frames \cup {Nothing} /\ garbled' \in BOOLEAN
        /\ written' \in SUBSET Waiters /\ sock' \in Seq(Frames)
    BY <2>2, <1>6, Zenon DEF FastWriteEnd, WriteLastBytes, WriteFails
  <2>9. /\ shutdown' \in BOOLEAN /\ broken' \in BOOLEAN
        /\ UNCHANGED <<queueVars, writing, sendCh, notifyCh, frame, waiter, spc, sframe,
                       cpc, hots>>
    BY <1>6, Zenon DEF FastWriteEnd, WriteFails
  <2>. QED
    BY <2>1, <2>3, <2>9
<1>7. ASSUME NEW g \in Flushers, Release(g) PROVE TypeOK'
  BY <1>7 DEF Release, Goto
<1>8. ASSUME NEW g \in Flushers, Notify(g) PROVE TypeOK'
  BY <1>8 DEF Notify, Goto
<1>9. ASSUME NEW g \in Flushers, Enqueue(g) PROVE TypeOK'
  <2>1. pc' \in [Flushers -> FlusherSteps] /\ frame[g] \in Frames
    BY FrameNames, <1>9, Zenon DEF Enqueue, Goto, FrameInv
  <2>2. /\ Append(sendCh, frame[g]) \in Seq(Frames)
        /\ Len(Append(sendCh, frame[g])) = Len(sendCh) + 1
    BY <2>1
  <2>3. sendCh' \in Seq(Frames) /\ Len(sendCh') <= SendChCap
    BY <2>2, <1>9 DEF Enqueue
  <2>. QED
    BY <2>1, <2>3, <1>9 DEF Enqueue
<1>10. ASSUME NEW w \in Waiters, WaitForSend(w) PROVE TypeOK'
  <2>1. w \in Frames /\ Len(sendCh) \in Nat
    BY FrameNames
  <2>2. /\ Append(sendCh, w) \in Seq(Frames)
        /\ Len(Append(sendCh, w)) = Len(sendCh) + 1
    BY <2>1
  <2>3. \/ Len(sendCh) < SendChCap /\ sendCh' = Append(sendCh, w)
        \/ sendCh' = sendCh
    BY <1>10, Zenon DEF WaitForSend
  <2>4. sendCh' \in Seq(Frames) /\ Len(sendCh') <= SendChCap
    <3>1. CASE Len(sendCh) < SendChCap /\ sendCh' = Append(sendCh, w)
      BY <2>1, <2>2, <3>1
    <3>2. CASE sendCh' = sendCh
      BY <3>2
    <3>. QED
      BY <2>3, <3>1, <3>2
  <2>. QED
    BY <2>4, <1>10 DEF WaitForSend
<1>11. ASSUME NEW w \in Waiters, WaitTimeout(w) PROVE TypeOK'
  BY <1>11 DEF WaitTimeout
<1>12. ASSUME SendSelect PROVE TypeOK'
  <2>1. CASE sendCh # <<>> /\ sframe' = Head(sendCh) /\ sendCh' = Tail(sendCh)
    <3>1. /\ Head(sendCh) \in Frames /\ Tail(sendCh) \in Seq(Frames)
          /\ Len(Tail(sendCh)) = Len(sendCh) - 1
      BY <2>1
    <3>2. sframe' \in Frames /\ sendCh' \in Seq(Frames) /\ Len(sendCh') <= SendChCap
      BY <3>1, <2>1
    <3>. QED
      BY <3>2, <1>12 DEF SendSelect, SGoto
  <2>. QED
    BY <2>1, <1>12 DEF SendSelect, SGoto
<1>13. ASSUME SendTryWrite PROVE TypeOK'
  BY <1>13 DEF SendTryWrite, SGoto
<1>14. ASSUME SendAwait PROVE TypeOK'
  BY <1>14 DEF SendAwait, SGoto
<1>15. ASSUME SendWriteBegin PROVE TypeOK'
  <2>1. /\ partial' \in Frames \cup {Nothing} /\ garbled' \in BOOLEAN
        /\ written' \in SUBSET Waiters /\ sock' = sock
    BY <1>15, Zenon DEF SendWriteBegin, WriteFirstBytes, WriteFails
  <2>2. /\ waiter' \in [Waiters -> {"idle", "waiting", "sent", "failed"}]
        /\ spc' \in SenderSteps /\ shutdown' \in BOOLEAN /\ broken' \in BOOLEAN
    BY <1>15, Zenon DEF SendWriteBegin, WriteFails, SGoto
  <2>3. UNCHANGED <<queueVars, writing, sendCh, notifyCh, pc, frame, sframe, cpc, hots>>
    BY <1>15, Zenon DEF SendWriteBegin
  <2>. QED
    BY <2>1, <2>2, <2>3, Zenon
<1>16. ASSUME SendWriteEnd PROVE TypeOK'
  <2>1. sframe \in Frames
    BY <1>16, Zenon DEF SendWriteEnd, SGoto, FrameInv
  <2>2. Append(sock, sframe) \in Seq(Frames)
    BY <2>1
  <2>3. /\ partial' \in Frames \cup {Nothing} /\ garbled' \in BOOLEAN
        /\ written' \in SUBSET Waiters /\ sock' \in Seq(Frames)
    BY <2>2, <1>16, Zenon DEF SendWriteEnd, WriteLastBytes, WriteFails
  <2>. QED
    BY <2>3, <1>16, Zenon DEF SendWriteEnd, WriteFails, SGoto
<1>17. ASSUME SendRelease PROVE TypeOK'
  BY <1>17 DEF SendRelease, SGoto
<1>18. ASSUME SendReply PROVE TypeOK'
  BY <1>18 DEF SendReply, SGoto
<1>19. ASSUME ReadFrame PROVE TypeOK'
  BY <1>19 DEF ReadFrame, CGoto
<1>20. ASSUME RemoteClose PROVE TypeOK'
  BY <1>20 DEF RemoteClose, CGoto
<1>21. ASSUME PopElement PROVE TypeOK'
  BY <1>21 DEF PopElement, CGoto
<1>22. ASSUME ClearWorking PROVE TypeOK'
  BY <1>22 DEF ClearWorking, CGoto
<1>23. ASSUME Recheck PROVE TypeOK'
  BY <1>23 DEF Recheck, CGoto
<1>24. ASSUME SetWorking PROVE TypeOK'
  BY <1>24 DEF SetWorking, CGoto
<1>25. ASSUME UNCHANGED vars PROVE TypeOK'
  BY <1>25 DEF vars, queueVars, connVars
<1>26. ASSUME Close \/ CloseConn PROVE TypeOK'
  <2>1. shutdown' \in BOOLEAN /\ broken' \in BOOLEAN
    BY <1>26, Zenon DEF Close, CloseConn
  <2>2. UNCHANGED <<queueVars, writing, sendCh, notifyCh, pc, frame, waiter, spc, sframe,
                    cpc, connVars, hots>>
    BY <1>26, Zenon DEF Close, CloseConn
  <2>. QED
    BY <2>1, <2>2
<1>. QED
  BY <1>1, <1>2, <1>3, <1>4, <1>5, <1>6, <1>7, <1>8, <1>9, <1>10, <1>11, <1>12, <1>13, <1>14, <1>15, <1>16, <1>17, <1>18, <1>19, <1>20, <1>21, <1>22, <1>23, <1>24, <1>25, <1>26, Zenon DEF Next, FlusherStep, SenderStep, ConsumerStep

(* Every step keeps a frame in the hands of every goroutine that sends. *)
LEMMA FrameStep == ASSUME TypeOK, FrameInv, [Next]_vars PROVE FrameInv'
<1>. USE DEF TypeOK, FlusherSteps, SenderSteps, FrameInv
<1>1. ASSUME NEW g \in Flushers, Put(g) PROVE FrameInv'
  BY <1>1, Zenon DEF Put, Goto
<1>2. ASSUME NEW g \in Flushers, MarkWorking(g) PROVE FrameInv'
  BY FrameNames, <1>2, Zenon DEF MarkWorking, Goto
<1>3. ASSUME NEW g \in Flushers, BeginHotRestart(g) PROVE FrameInv'
  BY FrameNames, <1>3, Zenon DEF BeginHotRestart, Goto
<1>4. ASSUME NEW g \in Flushers, TryWrite(g) PROVE FrameInv'
  BY <1>4, Zenon DEF TryWrite, Goto
<1>5. ASSUME NEW g \in Flushers, FastWriteBegin(g) PROVE FrameInv'
  BY <1>5, Zenon DEF FastWriteBegin, WriteFirstBytes, WriteFails, Goto
<1>6. ASSUME NEW g \in Flushers, FastWriteEnd(g) PROVE FrameInv'
  BY <1>6, Zenon DEF FastWriteEnd, WriteLastBytes, WriteFails, Goto
<1>7. ASSUME NEW g \in Flushers, Release(g) PROVE FrameInv'
  BY <1>7, Zenon DEF Release, Goto
<1>8. ASSUME NEW g \in Flushers, Notify(g) PROVE FrameInv'
  BY <1>8, Zenon DEF Notify, Goto
<1>9. ASSUME NEW g \in Flushers, Enqueue(g) PROVE FrameInv'
  BY <1>9, Zenon DEF Enqueue, Goto
<1>10. ASSUME NEW w \in Waiters, WaitForSend(w) PROVE FrameInv'
  BY <1>10, Zenon DEF WaitForSend
<1>11. ASSUME NEW w \in Waiters, WaitTimeout(w) PROVE FrameInv'
  BY <1>11, Zenon DEF WaitTimeout
<1>12. ASSUME SendSelect PROVE FrameInv'
  BY <1>12 DEF SendSelect, SGoto
<1>13. ASSUME SendTryWrite PROVE FrameInv'
  BY <1>13, Zenon DEF SendTryWrite, SGoto
<1>14. ASSUME SendAwait PROVE FrameInv'
  BY <1>14, Zenon DEF SendAwait, SGoto
<1>15. ASSUME SendWriteBegin PROVE FrameInv'
  BY <1>15, Zenon DEF SendWriteBegin, WriteFirstBytes, WriteFails, SGoto
<1>16. ASSUME SendWriteEnd PROVE FrameInv'
  BY <1>16, Zenon DEF SendWriteEnd, WriteLastBytes, WriteFails, SGoto
<1>17. ASSUME SendRelease PROVE FrameInv'
  BY <1>17, Zenon DEF SendRelease, SGoto
<1>18. ASSUME SendReply PROVE FrameInv'
  BY <1>18, Zenon DEF SendReply, SGoto
<1>19. ASSUME ReadFrame PROVE FrameInv'
  BY <1>19, Zenon DEF ReadFrame, CGoto
<1>20. ASSUME RemoteClose PROVE FrameInv'
  BY <1>20, Zenon DEF RemoteClose, CGoto
<1>21. ASSUME PopElement PROVE FrameInv'
  BY <1>21, Zenon DEF PopElement, CGoto
<1>22. ASSUME ClearWorking PROVE FrameInv'
  BY <1>22, Zenon DEF ClearWorking, CGoto
<1>23. ASSUME Recheck PROVE FrameInv'
  BY <1>23, Zenon DEF Recheck, CGoto
<1>24. ASSUME SetWorking PROVE FrameInv'
  BY <1>24, Zenon DEF SetWorking, CGoto
<1>25. ASSUME UNCHANGED vars PROVE FrameInv'
  BY <1>25, Zenon DEF vars, queueVars, connVars
<1>26. ASSUME Close \/ CloseConn PROVE FrameInv'
  BY <1>26, Zenon DEF Close, CloseConn
<1>. QED
  BY <1>1, <1>2, <1>3, <1>4, <1>5, <1>6, <1>7, <1>8, <1>9, <1>10, <1>11, <1>12, <1>13, <1>14, <1>15, <1>16, <1>17, <1>18, <1>19, <1>20, <1>21, <1>22, <1>23, <1>24, <1>25, <1>26, Zenon DEF Next, FlusherStep, SenderStep, ConsumerStep

(* Types, bounds and frames in the initial state. *)
LEMMA InitTypeOK == Init => TypeOK /\ FrameInv
<1>. SUFFICES ASSUME Init PROVE TypeOK /\ FrameInv
  BY Zenon
<1>1. <<>> \in Seq(Frames) /\ Len(<<>>) = 0
  OBVIOUS
<1>2. /\ pc \in [Flushers -> FlusherSteps]
      /\ frame \in [Flushers -> Frames \cup {Nothing}]
      /\ waiter \in [Waiters -> {"idle", "waiting", "sent", "failed"}]
  BY Zenon DEF Init, FlusherSteps
<1>3. /\ sendCh \in Seq(Frames) /\ Len(sendCh) <= SendChCap /\ sock \in Seq(Frames)
      /\ head <= tail /\ tail - head <= Cap
  BY <1>1, BoundsAssumption DEF Init
<1>4. TypeOK
  BY <1>2, <1>3, Zenon DEF Init, TypeOK, SenderSteps, ConsumerSteps
<1>. QED
  BY <1>4, Zenon DEF Init, FrameInv

(* Types and bounds hold in every behaviour. *)
THEOREM TypeCorrect == Spec => []TypeOK
<1>. QED
  BY InitTypeOK, TypeStep, FrameStep, PTL DEF Spec
-----------------------------------------------------------------------------
(* Every step leaves the connection with at most one owner, and with one    *)
(* exactly while writing is set.                                            *)
LEMMA LockStep == ASSUME TypeOK, LockInv, [Next]_vars PROVE LockInv'
<1>. USE DEF TypeOK, LockInv, Owner, SenderOwner
<1>1. ASSUME NEW g \in Flushers, Put(g) PROVE LockInv'
  BY <1>1, Zenon DEF Put, Goto
<1>2. ASSUME NEW g \in Flushers, MarkWorking(g) PROVE LockInv'
  BY <1>2 DEF MarkWorking, Goto
<1>3. ASSUME NEW g \in Flushers, BeginHotRestart(g) PROVE LockInv'
  BY <1>3, Zenon DEF BeginHotRestart, Goto
<1>4. ASSUME NEW g \in Flushers, TryWrite(g) PROVE LockInv'
  BY <1>4 DEF TryWrite, Goto
<1>5. ASSUME NEW g \in Flushers, FastWriteBegin(g) PROVE LockInv'
  BY <1>5 DEF FastWriteBegin, WriteFirstBytes, WriteFails, Goto
<1>6. ASSUME NEW g \in Flushers, FastWriteEnd(g) PROVE LockInv'
  BY <1>6, Zenon DEF FastWriteEnd, WriteLastBytes, WriteFails, Goto
<1>7. ASSUME NEW g \in Flushers, Release(g) PROVE LockInv'
  BY <1>7 DEF Release, Goto
<1>8. ASSUME NEW g \in Flushers, Notify(g) PROVE LockInv'
  BY <1>8, Zenon DEF Notify, Goto
<1>9. ASSUME NEW g \in Flushers, Enqueue(g) PROVE LockInv'
  BY <1>9, Zenon DEF Enqueue, Goto
<1>10. ASSUME NEW w \in Waiters, WaitForSend(w) PROVE LockInv'
  BY <1>10, Zenon DEF WaitForSend
<1>11. ASSUME NEW w \in Waiters, WaitTimeout(w) PROVE LockInv'
  BY <1>11, Zenon DEF WaitTimeout
<1>12. ASSUME SendSelect PROVE LockInv'
  BY <1>12, Zenon DEF SendSelect, SGoto
<1>13. ASSUME SendTryWrite PROVE LockInv'
  BY <1>13 DEF SendTryWrite, SGoto
<1>14. ASSUME SendAwait PROVE LockInv'
  BY <1>14, Zenon DEF SendAwait, SGoto
<1>15. ASSUME SendWriteBegin PROVE LockInv'
  BY <1>15, Zenon DEF SendWriteBegin, WriteFirstBytes, WriteFails, SGoto
<1>16. ASSUME SendWriteEnd PROVE LockInv'
  BY <1>16, Zenon DEF SendWriteEnd, WriteLastBytes, WriteFails, SGoto
<1>17. ASSUME SendRelease PROVE LockInv'
  BY <1>17 DEF SendRelease, SGoto
<1>18. ASSUME SendReply PROVE LockInv'
  BY <1>18, Zenon DEF SendReply, SGoto
<1>19. ASSUME ReadFrame PROVE LockInv'
  BY <1>19, Zenon DEF ReadFrame, CGoto
<1>20. ASSUME RemoteClose PROVE LockInv'
  BY <1>20, Zenon DEF RemoteClose, CGoto
<1>21. ASSUME PopElement PROVE LockInv'
  BY <1>21, Zenon DEF PopElement, CGoto
<1>22. ASSUME ClearWorking PROVE LockInv'
  BY <1>22, Zenon DEF ClearWorking, CGoto
<1>23. ASSUME Recheck PROVE LockInv'
  BY <1>23, Zenon DEF Recheck, CGoto
<1>24. ASSUME SetWorking PROVE LockInv'
  BY <1>24, Zenon DEF SetWorking, CGoto
<1>25. ASSUME UNCHANGED vars PROVE LockInv'
  BY <1>25, Zenon DEF vars, queueVars, connVars
<1>26. ASSUME Close \/ CloseConn PROVE LockInv'
  BY <1>26, Zenon DEF Close, CloseConn
<1>. QED
  BY <1>1, <1>2, <1>3, <1>4, <1>5, <1>6, <1>7, <1>8, <1>9, <1>10, <1>11, <1>12, <1>13, <1>14, <1>15, <1>16, <1>17, <1>18, <1>19, <1>20, <1>21, <1>22, <1>23, <1>24, <1>25, <1>26, Zenon DEF Next, FlusherStep, SenderStep, ConsumerStep

(* Only the owner of the connection has a frame partly written, so the bytes *)
(* of two frames are never mixed.                                            *)
LEMMA PartialStep ==
    ASSUME TypeOK, FrameInv, LockInv, PartialInv, FramesIntact, [Next]_vars
    PROVE  PartialInv' /\ FramesIntact'
<1>. USE NothingAssumption, FrameNames
     DEF TypeOK, FrameInv, LockInv, Owner, SenderOwner, PartialInv, FramesIntact
<1>1. ASSUME NEW g \in Flushers, Put(g) PROVE PartialInv' /\ FramesIntact'
  BY <1>1, Zenon DEF Put, Goto
<1>2. ASSUME NEW g \in Flushers, MarkWorking(g) PROVE PartialInv' /\ FramesIntact'
  BY <1>2 DEF MarkWorking, Goto
<1>3. ASSUME NEW g \in Flushers, BeginHotRestart(g) PROVE PartialInv' /\ FramesIntact'
  BY <1>3, Zenon DEF BeginHotRestart, Goto
<1>4. ASSUME NEW g \in Flushers, TryWrite(g) PROVE PartialInv' /\ FramesIntact'
  BY <1>4 DEF TryWrite, Goto
<1>5. ASSUME NEW g \in Flushers, FastWriteBegin(g) PROVE PartialInv' /\ FramesIntact'
  BY <1>5 DEF FastWriteBegin, WriteFirstBytes, WriteFails, Goto
<1>6. ASSUME NEW g \in Flushers, FastWriteEnd(g) PROVE PartialInv' /\ FramesIntact'
  BY <1>6 DEF FastWriteEnd, WriteLastBytes, WriteFails, Goto
<1>7. ASSUME NEW g \in Flushers, Release(g) PROVE PartialInv' /\ FramesIntact'
  BY <1>7, Zenon DEF Release, Goto
<1>8. ASSUME NEW g \in Flushers, Notify(g) PROVE PartialInv' /\ FramesIntact'
  BY <1>8, Zenon DEF Notify, Goto
<1>9. ASSUME NEW g \in Flushers, Enqueue(g) PROVE PartialInv' /\ FramesIntact'
  BY <1>9, Zenon DEF Enqueue, Goto
<1>10. ASSUME NEW w \in Waiters, WaitForSend(w) PROVE PartialInv' /\ FramesIntact'
  BY <1>10, Zenon DEF WaitForSend
<1>11. ASSUME NEW w \in Waiters, WaitTimeout(w) PROVE PartialInv' /\ FramesIntact'
  BY <1>11, Zenon DEF WaitTimeout
<1>12. ASSUME SendSelect PROVE PartialInv' /\ FramesIntact'
  BY <1>12, Zenon DEF SendSelect, SGoto
<1>13. ASSUME SendTryWrite PROVE PartialInv' /\ FramesIntact'
  BY <1>13, Zenon DEF SendTryWrite, SGoto
<1>14. ASSUME SendAwait PROVE PartialInv' /\ FramesIntact'
  BY <1>14, Zenon DEF SendAwait, SGoto
<1>15. ASSUME SendWriteBegin PROVE PartialInv' /\ FramesIntact'
  BY <1>15 DEF SendWriteBegin, WriteFirstBytes, WriteFails, SGoto
<1>16. ASSUME SendWriteEnd PROVE PartialInv' /\ FramesIntact'
  BY <1>16 DEF SendWriteEnd, WriteLastBytes, WriteFails, SGoto
<1>17. ASSUME SendRelease PROVE PartialInv' /\ FramesIntact'
  BY <1>17, Zenon DEF SendRelease, SGoto
<1>18. ASSUME SendReply PROVE PartialInv' /\ FramesIntact'
  BY <1>18, Zenon DEF SendReply, SGoto
<1>19. ASSUME ReadFrame PROVE PartialInv' /\ FramesIntact'
  BY <1>19, Zenon DEF ReadFrame, CGoto
<1>20. ASSUME RemoteClose PROVE PartialInv' /\ FramesIntact'
  BY <1>20, Zenon DEF RemoteClose, CGoto
<1>21. ASSUME PopElement PROVE PartialInv' /\ FramesIntact'
  BY <1>21, Zenon DEF PopElement, CGoto
<1>22. ASSUME ClearWorking PROVE PartialInv' /\ FramesIntact'
  BY <1>22, Zenon DEF ClearWorking, CGoto
<1>23. ASSUME Recheck PROVE PartialInv' /\ FramesIntact'
  BY <1>23, Zenon DEF Recheck, CGoto
<1>24. ASSUME SetWorking PROVE PartialInv' /\ FramesIntact'
  BY <1>24, Zenon DEF SetWorking, CGoto
<1>25. ASSUME UNCHANGED vars PROVE PartialInv' /\ FramesIntact'
  BY <1>25, Zenon DEF vars, queueVars, connVars
<1>26. ASSUME Close \/ CloseConn PROVE PartialInv' /\ FramesIntact'
  BY <1>26 DEF Close, CloseConn
<1>. QED
  BY <1>1, <1>2, <1>3, <1>4, <1>5, <1>6, <1>7, <1>8, <1>9, <1>10, <1>11, <1>12, <1>13, <1>14, <1>15, <1>16, <1>17, <1>18, <1>19, <1>20, <1>21, <1>22, <1>23, <1>24, <1>25, <1>26, Zenon DEF Next, FlusherStep, SenderStep, ConsumerStep

(* A send goroutine that waits has a token or a flusher that will leave one. *)
LEMMA StuckStep ==
    ASSUME TypeOK, LockInv, SenderNotStuck, [Next]_vars PROVE SenderNotStuck'
<1>. USE DEF TypeOK, LockInv, Owner, SenderOwner, SenderNotStuck
<1>1. ASSUME NEW g \in Flushers, Put(g) PROVE SenderNotStuck'
  BY <1>1, Zenon DEF Put, Goto
<1>2. ASSUME NEW g \in Flushers, MarkWorking(g) PROVE SenderNotStuck'
  BY <1>2, Zenon DEF MarkWorking, Goto
<1>3. ASSUME NEW g \in Flushers, BeginHotRestart(g) PROVE SenderNotStuck'
  BY <1>3, Zenon DEF BeginHotRestart, Goto
<1>4. ASSUME NEW g \in Flushers, TryWrite(g) PROVE SenderNotStuck'
  BY <1>4, Zenon DEF TryWrite, Goto
<1>5. ASSUME NEW g \in Flushers, FastWriteBegin(g) PROVE SenderNotStuck'
  BY <1>5, Zenon DEF FastWriteBegin, WriteFirstBytes, WriteFails, Goto
<1>6. ASSUME NEW g \in Flushers, FastWriteEnd(g) PROVE SenderNotStuck'
  BY <1>6, Zenon DEF FastWriteEnd, WriteLastBytes, WriteFails, Goto
<1>7. ASSUME NEW g \in Flushers, Release(g) PROVE SenderNotStuck'
  BY <1>7, Zenon DEF Release, Goto
<1>8. ASSUME NEW g \in Flushers, Notify(g) PROVE SenderNotStuck'
  BY <1>8, Zenon DEF Notify, Goto
<1>9. ASSUME NEW g \in Flushers, Enqueue(g) PROVE SenderNotStuck'
  BY <1>9, Zenon DEF Enqueue, Goto
<1>10. ASSUME NEW w \in Waiters, WaitForSend(w) PROVE SenderNotStuck'
  BY <1>10, Zenon DEF WaitForSend
<1>11. ASSUME NEW w \in Waiters, WaitTimeout(w) PROVE SenderNotStuck'
  BY <1>11, Zenon DEF WaitTimeout
<1>12. ASSUME SendSelect PROVE SenderNotStuck'
  BY <1>12, Zenon DEF SendSelect, SGoto
<1>13. ASSUME SendTryWrite PROVE SenderNotStuck'
  BY <1>13, Zenon DEF SendTryWrite, SGoto
<1>14. ASSUME SendAwait PROVE SenderNotStuck'
  BY <1>14, Zenon DEF SendAwait, SGoto
<1>15. ASSUME SendWriteBegin PROVE SenderNotStuck'
  BY <1>15, Zenon DEF SendWriteBegin, WriteFirstBytes, WriteFails, SGoto
<1>16. ASSUME SendWriteEnd PROVE SenderNotStuck'
  BY <1>16, Zenon DEF SendWriteEnd, WriteLastBytes, WriteFails, SGoto
<1>17. ASSUME SendRelease PROVE SenderNotStuck'
  BY <1>17, Zenon DEF SendRelease, SGoto
<1>18. ASSUME SendReply PROVE SenderNotStuck'
  BY <1>18, Zenon DEF SendReply, SGoto
<1>19. ASSUME ReadFrame PROVE SenderNotStuck'
  BY <1>19, Zenon DEF ReadFrame, CGoto
<1>20. ASSUME RemoteClose PROVE SenderNotStuck'
  BY <1>20, Zenon DEF RemoteClose, CGoto
<1>21. ASSUME PopElement PROVE SenderNotStuck'
  BY <1>21, Zenon DEF PopElement, CGoto
<1>22. ASSUME ClearWorking PROVE SenderNotStuck'
  BY <1>22, Zenon DEF ClearWorking, CGoto
<1>23. ASSUME Recheck PROVE SenderNotStuck'
  BY <1>23, Zenon DEF Recheck, CGoto
<1>24. ASSUME SetWorking PROVE SenderNotStuck'
  BY <1>24, Zenon DEF SetWorking, CGoto
<1>25. ASSUME UNCHANGED vars PROVE SenderNotStuck'
  BY <1>25, Zenon DEF vars, queueVars, connVars
<1>26. ASSUME Close \/ CloseConn PROVE SenderNotStuck'
  BY <1>26, Zenon DEF Close, CloseConn
<1>. QED
  BY <1>1, <1>2, <1>3, <1>4, <1>5, <1>6, <1>7, <1>8, <1>9, <1>10, <1>11, <1>12, <1>13, <1>14, <1>15, <1>16, <1>17, <1>18, <1>19, <1>20, <1>21, <1>22, <1>23, <1>24, <1>25, <1>26, Zenon DEF Next, FlusherStep, SenderStep, ConsumerStep
-----------------------------------------------------------------------------
(* What appending and removing do to the frames of a channel. *)
LEMMA ContainsAppend ==
    ASSUME NEW s \in Seq(Frames), NEW f \in Frames, NEW x
    PROVE  Contains(Append(s, f), x) <=> Contains(s, x) \/ f = x
<1>1. /\ Len(Append(s, f)) = Len(s) + 1 /\ Len(s) \in Nat
      /\ \A i \in 1..Len(s) : Append(s, f)[i] = s[i]
      /\ Append(s, f)[Len(s) + 1] = f
  OBVIOUS
<1>. QED
  BY <1>1 DEF Contains

(* The first frame leaves the channel, the others stay. *)
LEMMA ContainsTail ==
    ASSUME NEW s \in Seq(Frames), s # <<>>, NEW x
    PROVE  Contains(s, x) <=> Head(s) = x \/ Contains(Tail(s), x)
<1>1. /\ Len(s) \in Nat \ {0} /\ Head(s) = s[1]
      /\ Len(Tail(s)) = Len(s) - 1
      /\ \A i \in 1..(Len(s) - 1) : Tail(s)[i] = s[i + 1]
  OBVIOUS
<1>2. ASSUME Contains(s, x) PROVE Head(s) = x \/ Contains(Tail(s), x)
  <2>1. PICK i \in 1..Len(s) : s[i] = x
    BY <1>2, Zenon DEF Contains
  <2>2. CASE i = 1
    BY <1>1, <2>1, <2>2, Zenon
  <2>3. CASE i # 1
    <3>1. i - 1 \in 1..(Len(s) - 1) /\ Tail(s)[i - 1] = x
      BY <1>1, <2>1, <2>3
    <3>. QED
      BY <1>1, <3>1, Zenon DEF Contains
  <2>. QED
    BY <2>2, <2>3, Zenon
<1>3. ASSUME Head(s) = x \/ Contains(Tail(s), x) PROVE Contains(s, x)
  <2>1. CASE Head(s) = x
    BY <1>1, <2>1 DEF Contains
  <2>2. CASE Contains(Tail(s), x)
    BY <1>1, <2>2 DEF Contains
  <2>. QED
    BY <1>3, <2>1, <2>2
<1>. QED
  BY <1>2, <1>3, Zenon

(* waitForSend's result: a waiting call hears of its own frame only. *)
LEMMA ReplyStep ==
    ASSUME TypeOK, FrameInv, ReplyInv, SentMeansWritten, [Next]_vars
    PROVE  ReplyInv' /\ SentMeansWritten'
<1>. USE FrameNames, WaitersAssumption, NothingAssumption
     DEF TypeOK, FrameInv, ReplyInv, SentMeansWritten
<1>1. ASSUME NEW g \in Flushers, Put(g) PROVE ReplyInv' /\ SentMeansWritten'
  BY <1>1, Zenon DEF Put, Goto
<1>2. ASSUME NEW g \in Flushers, MarkWorking(g) PROVE ReplyInv' /\ SentMeansWritten'
  BY <1>2, Zenon DEF MarkWorking, Goto
<1>3. ASSUME NEW g \in Flushers, BeginHotRestart(g) PROVE ReplyInv' /\ SentMeansWritten'
  BY <1>3, Zenon DEF BeginHotRestart, Goto
<1>4. ASSUME NEW g \in Flushers, TryWrite(g) PROVE ReplyInv' /\ SentMeansWritten'
  BY <1>4, Zenon DEF TryWrite, Goto
<1>5. ASSUME NEW g \in Flushers, FastWriteBegin(g) PROVE ReplyInv' /\ SentMeansWritten'
  BY <1>5, Zenon DEF FastWriteBegin, WriteFirstBytes, WriteFails, Goto
<1>6. ASSUME NEW g \in Flushers, FastWriteEnd(g) PROVE ReplyInv' /\ SentMeansWritten'
  BY <1>6, Zenon DEF FastWriteEnd, WriteLastBytes, WriteFails, Goto
<1>7. ASSUME NEW g \in Flushers, Release(g) PROVE ReplyInv' /\ SentMeansWritten'
  BY <1>7, Zenon DEF Release, Goto
<1>8. ASSUME NEW g \in Flushers, Notify(g) PROVE ReplyInv' /\ SentMeansWritten'
  BY <1>8, Zenon DEF Notify, Goto
<1>9. ASSUME NEW g \in Flushers, Enqueue(g) PROVE ReplyInv' /\ SentMeansWritten'
  <2>1. frame[g] \in Frames \ Waiters /\ sendCh' = Append(sendCh, frame[g])
    BY <1>9 DEF Enqueue, Goto, Frames
  <2>2. \A x \in Waiters : Contains(sendCh', x) <=> Contains(sendCh, x)
    <3>1. frame[g] \in Frames /\ sendCh \in Seq(Frames)
      BY <2>1, Zenon
    <3>2. \A x : Contains(sendCh', x) <=> Contains(sendCh, x) \/ frame[g] = x
      BY ContainsAppend, <2>1, <3>1, Zenon
    <3>. QED
      BY <2>1, <3>2, Zenon
  <2>. QED
    BY <2>2, <1>9, Zenon DEF Enqueue, Goto
<1>10. ASSUME NEW w \in Waiters, WaitForSend(w) PROVE ReplyInv' /\ SentMeansWritten'
  <2>1. CASE sendCh' = Append(sendCh, w) /\ waiter' = [waiter EXCEPT ![w] = "waiting"]
    <3>1. \A x \in Waiters : Contains(sendCh', x) <=> Contains(sendCh, x) \/ w = x
      BY ContainsAppend, <2>1
    <3>. QED
      BY <2>1, <3>1, <1>10, Zenon DEF WaitForSend
  <2>2. CASE sendCh' = sendCh /\ waiter' = [waiter EXCEPT ![w] = "failed"]
    BY <2>2, <1>10, Zenon DEF WaitForSend
  <2>. QED
    BY <2>1, <2>2, <1>10, Zenon DEF WaitForSend
<1>11. ASSUME NEW w \in Waiters, WaitTimeout(w) PROVE ReplyInv' /\ SentMeansWritten'
  BY <1>11, Zenon DEF WaitTimeout
<1>12. ASSUME SendSelect PROVE ReplyInv' /\ SentMeansWritten'
  BY ContainsTail, <1>12, Zenon DEF SendSelect, SGoto
<1>13. ASSUME SendTryWrite PROVE ReplyInv' /\ SentMeansWritten'
  BY <1>13, Zenon DEF SendTryWrite, SGoto
<1>14. ASSUME SendAwait PROVE ReplyInv' /\ SentMeansWritten'
  BY <1>14, Zenon DEF SendAwait, SGoto
<1>15. ASSUME SendWriteBegin PROVE ReplyInv' /\ SentMeansWritten'
  BY <1>15 DEF SendWriteBegin, WriteFirstBytes, WriteFails, SGoto
<1>16. ASSUME SendWriteEnd PROVE ReplyInv' /\ SentMeansWritten'
  BY <1>16 DEF SendWriteEnd, WriteLastBytes, WriteFails, SGoto
<1>17. ASSUME SendRelease PROVE ReplyInv' /\ SentMeansWritten'
  BY <1>17, Zenon DEF SendRelease, SGoto
<1>18. ASSUME SendReply PROVE ReplyInv' /\ SentMeansWritten'
  BY <1>18, Zenon DEF SendReply, SGoto
<1>19. ASSUME ReadFrame PROVE ReplyInv' /\ SentMeansWritten'
  BY <1>19, Zenon DEF ReadFrame, CGoto
<1>20. ASSUME RemoteClose PROVE ReplyInv' /\ SentMeansWritten'
  BY <1>20, Zenon DEF RemoteClose, CGoto
<1>21. ASSUME PopElement PROVE ReplyInv' /\ SentMeansWritten'
  BY <1>21, Zenon DEF PopElement, CGoto
<1>22. ASSUME ClearWorking PROVE ReplyInv' /\ SentMeansWritten'
  BY <1>22, Zenon DEF ClearWorking, CGoto
<1>23. ASSUME Recheck PROVE ReplyInv' /\ SentMeansWritten'
  BY <1>23, Zenon DEF Recheck, CGoto
<1>24. ASSUME SetWorking PROVE ReplyInv' /\ SentMeansWritten'
  BY <1>24, Zenon DEF SetWorking, CGoto
<1>25. ASSUME UNCHANGED vars PROVE ReplyInv' /\ SentMeansWritten'
  BY <1>25, Zenon DEF vars, queueVars, connVars
<1>26. ASSUME Close \/ CloseConn PROVE ReplyInv' /\ SentMeansWritten'
  BY <1>26, Zenon DEF Close, CloseConn
<1>. QED
  BY <1>1, <1>2, <1>3, <1>4, <1>5, <1>6, <1>7, <1>8, <1>9, <1>10, <1>11, <1>12, <1>13, <1>14, <1>15, <1>16, <1>17, <1>18, <1>19, <1>20, <1>21, <1>22, <1>23, <1>24, <1>25, <1>26, Zenon DEF Next, FlusherStep, SenderStep, ConsumerStep

(* A polling event on its way stays on its way until the dispatcher has it, *)
(* whatever path it takes, unless the session closes.                       *)
LEMMA ComingStep ==
    ASSUME TypeOK, FrameInv, [Next]_vars, ~shutdown', WakeUpComing
    PROVE  WakeUpComing' \/ cpc' = "pop"
<1>. USE FrameNames DEF TypeOK, FrameInv, WakeUpComing
<1>1. ASSUME NEW g \in Flushers, Put(g) PROVE WakeUpComing' \/ cpc' = "pop"
  BY <1>1, Zenon DEF Put, Goto
<1>2. ASSUME NEW g \in Flushers, MarkWorking(g) PROVE WakeUpComing' \/ cpc' = "pop"
  BY <1>2, Zenon DEF MarkWorking, Goto
<1>3. ASSUME NEW g \in Flushers, BeginHotRestart(g) PROVE WakeUpComing' \/ cpc' = "pop"
  BY <1>3, Zenon DEF BeginHotRestart, Goto
<1>4. ASSUME NEW g \in Flushers, TryWrite(g) PROVE WakeUpComing' \/ cpc' = "pop"
  BY <1>4, Zenon DEF TryWrite, Goto
<1>5. ASSUME NEW g \in Flushers, FastWriteBegin(g) PROVE WakeUpComing' \/ cpc' = "pop"
  BY <1>5, Zenon DEF FastWriteBegin, WriteFirstBytes, WriteFails, Goto
<1>6. ASSUME NEW g \in Flushers, FastWriteEnd(g) PROVE WakeUpComing' \/ cpc' = "pop"
  <2>1. sock' = Append(sock, frame[g]) /\ frame[g] \in Frames
    BY <1>6, Zenon DEF FastWriteEnd, WriteLastBytes, WriteFails, Goto
  <2>2. Contains(sock', "polling") <=> Contains(sock, "polling") \/ frame[g] = "polling"
    BY <2>1, ContainsAppend
  <2>. QED
    BY <2>2, <1>6, Zenon DEF FastWriteEnd, Goto
<1>7. ASSUME NEW g \in Flushers, Release(g) PROVE WakeUpComing' \/ cpc' = "pop"
  BY <1>7, Zenon DEF Release, Goto
<1>8. ASSUME NEW g \in Flushers, Notify(g) PROVE WakeUpComing' \/ cpc' = "pop"
  BY <1>8, Zenon DEF Notify, Goto
<1>9. ASSUME NEW g \in Flushers, Enqueue(g) PROVE WakeUpComing' \/ cpc' = "pop"
  BY ContainsAppend, <1>9 DEF Enqueue, Goto
<1>10. ASSUME NEW w \in Waiters, WaitForSend(w) PROVE WakeUpComing' \/ cpc' = "pop"
  <2>1. sendCh' = sendCh \/ sendCh' = Append(sendCh, w)
    BY <1>10, Zenon DEF WaitForSend
  <2>2. Contains(sendCh, "polling") => Contains(sendCh', "polling")
    <3>1. Contains(Append(sendCh, w), "polling") <=> Contains(sendCh, "polling") \/ w = "polling"
      BY ContainsAppend
    <3>. QED
      BY <2>1, <3>1, Zenon
  <2>. QED
    BY <2>2, <1>10, Zenon DEF WaitForSend
<1>11. ASSUME NEW w \in Waiters, WaitTimeout(w) PROVE WakeUpComing' \/ cpc' = "pop"
  BY <1>11, Zenon DEF WaitTimeout
<1>12. ASSUME SendSelect PROVE WakeUpComing' \/ cpc' = "pop"
  BY ContainsTail, <1>12, Zenon DEF SendSelect, SGoto
<1>13. ASSUME SendTryWrite PROVE WakeUpComing' \/ cpc' = "pop"
  BY <1>13, Zenon DEF SendTryWrite, SGoto
<1>14. ASSUME SendAwait PROVE WakeUpComing' \/ cpc' = "pop"
  BY <1>14, Zenon DEF SendAwait, SGoto
<1>15. ASSUME SendWriteBegin PROVE WakeUpComing' \/ cpc' = "pop"
  BY <1>15, Zenon DEF SendWriteBegin, WriteFirstBytes, WriteFails, SGoto
<1>16. ASSUME SendWriteEnd PROVE WakeUpComing' \/ cpc' = "pop"
  <2>1. sock' = Append(sock, sframe) /\ sframe \in Frames
    BY <1>16, Zenon DEF SendWriteEnd, WriteLastBytes, WriteFails, SGoto
  <2>2. Contains(sock', "polling") <=> Contains(sock, "polling") \/ sframe = "polling"
    BY <2>1, ContainsAppend
  <2>. QED
    BY <2>2, <1>16, Zenon DEF SendWriteEnd, SGoto
<1>17. ASSUME SendRelease PROVE WakeUpComing' \/ cpc' = "pop"
  BY <1>17, Zenon DEF SendRelease, SGoto
<1>18. ASSUME SendReply PROVE WakeUpComing' \/ cpc' = "pop"
  BY <1>18, Zenon DEF SendReply, SGoto
<1>19. ASSUME ReadFrame PROVE WakeUpComing' \/ cpc' = "pop"
  BY ContainsTail, <1>19, Zenon DEF ReadFrame, CGoto
<1>20. ASSUME RemoteClose PROVE WakeUpComing' \/ cpc' = "pop"
  BY <1>20, Zenon DEF RemoteClose, CGoto
<1>21. ASSUME PopElement PROVE WakeUpComing' \/ cpc' = "pop"
  BY <1>21, Zenon DEF PopElement, CGoto
<1>22. ASSUME ClearWorking PROVE WakeUpComing' \/ cpc' = "pop"
  BY <1>22, Zenon DEF ClearWorking, CGoto
<1>23. ASSUME Recheck PROVE WakeUpComing' \/ cpc' = "pop"
  BY <1>23, Zenon DEF Recheck, CGoto
<1>24. ASSUME SetWorking PROVE WakeUpComing' \/ cpc' = "pop"
  BY <1>24, Zenon DEF SetWorking, CGoto
<1>25. ASSUME UNCHANGED vars PROVE WakeUpComing' \/ cpc' = "pop"
  BY <1>25, Zenon DEF vars, queueVars, connVars
<1>26. ASSUME Close \/ CloseConn PROVE WakeUpComing' \/ cpc' = "pop"
  BY <1>26, Zenon DEF Close, CloseConn
<1>. QED
  BY <1>1, <1>2, <1>3, <1>4, <1>5, <1>6, <1>7, <1>8, <1>9, <1>10, <1>11, <1>12, <1>13, <1>14, <1>15, <1>16, <1>17, <1>18, <1>19, <1>20, <1>21, <1>22, <1>23, <1>24, <1>25, <1>26, Zenon DEF Next, FlusherStep, SenderStep, ConsumerStep

(* Every step keeps the promise of the working flag and loses no wake-up. *)
LEMMA WakeUpStep ==
    ASSUME TypeOK, FrameInv, FlagMeansWorking, NoLostWakeUp, [Next]_vars
    PROVE  FlagMeansWorking' /\ NoLostWakeUp'
<1>. USE DEF TypeOK, FlagMeansWorking, NoLostWakeUp, Alive
<1>1. ASSUME NEW g \in Flushers, Put(g) PROVE FlagMeansWorking' /\ NoLostWakeUp'
  BY ComingStep, <1>1, Zenon DEF Put, Goto
<1>2. ASSUME NEW g \in Flushers, MarkWorking(g) PROVE FlagMeansWorking' /\ NoLostWakeUp'
  BY ComingStep, <1>2, Zenon DEF MarkWorking, Goto, WakeUpComing
<1>3. ASSUME NEW g \in Flushers, BeginHotRestart(g) PROVE FlagMeansWorking' /\ NoLostWakeUp'
  BY ComingStep, <1>3, Zenon DEF BeginHotRestart, Goto
<1>4. ASSUME NEW g \in Flushers, TryWrite(g) PROVE FlagMeansWorking' /\ NoLostWakeUp'
  BY ComingStep, <1>4, Zenon DEF TryWrite, Goto
<1>5. ASSUME NEW g \in Flushers, FastWriteBegin(g) PROVE FlagMeansWorking' /\ NoLostWakeUp'
  BY ComingStep, <1>5, Zenon DEF FastWriteBegin, WriteFirstBytes, WriteFails, Goto
<1>6. ASSUME NEW g \in Flushers, FastWriteEnd(g) PROVE FlagMeansWorking' /\ NoLostWakeUp'
  BY ComingStep, <1>6, Zenon DEF FastWriteEnd, WriteLastBytes, WriteFails, Goto
<1>7. ASSUME NEW g \in Flushers, Release(g) PROVE FlagMeansWorking' /\ NoLostWakeUp'
  BY ComingStep, <1>7, Zenon DEF Release, Goto
<1>8. ASSUME NEW g \in Flushers, Notify(g) PROVE FlagMeansWorking' /\ NoLostWakeUp'
  BY ComingStep, <1>8, Zenon DEF Notify, Goto
<1>9. ASSUME NEW g \in Flushers, Enqueue(g) PROVE FlagMeansWorking' /\ NoLostWakeUp'
  BY ComingStep, <1>9, Zenon DEF Enqueue, Goto
<1>10. ASSUME NEW w \in Waiters, WaitForSend(w) PROVE FlagMeansWorking' /\ NoLostWakeUp'
  BY ComingStep, <1>10, Zenon DEF WaitForSend
<1>11. ASSUME NEW w \in Waiters, WaitTimeout(w) PROVE FlagMeansWorking' /\ NoLostWakeUp'
  BY ComingStep, <1>11, Zenon DEF WaitTimeout
<1>12. ASSUME SendSelect PROVE FlagMeansWorking' /\ NoLostWakeUp'
  BY ComingStep, <1>12, Zenon DEF SendSelect, SGoto
<1>13. ASSUME SendTryWrite PROVE FlagMeansWorking' /\ NoLostWakeUp'
  BY ComingStep, <1>13, Zenon DEF SendTryWrite, SGoto
<1>14. ASSUME SendAwait PROVE FlagMeansWorking' /\ NoLostWakeUp'
  BY ComingStep, <1>14, Zenon DEF SendAwait, SGoto
<1>15. ASSUME SendWriteBegin PROVE FlagMeansWorking' /\ NoLostWakeUp'
  BY ComingStep, <1>15, Zenon DEF SendWriteBegin, WriteFirstBytes, WriteFails, SGoto
<1>16. ASSUME SendWriteEnd PROVE FlagMeansWorking' /\ NoLostWakeUp'
  BY ComingStep, <1>16, Zenon DEF SendWriteEnd, WriteLastBytes, WriteFails, SGoto
<1>17. ASSUME SendRelease PROVE FlagMeansWorking' /\ NoLostWakeUp'
  BY ComingStep, <1>17, Zenon DEF SendRelease, SGoto
<1>18. ASSUME SendReply PROVE FlagMeansWorking' /\ NoLostWakeUp'
  BY ComingStep, <1>18, Zenon DEF SendReply, SGoto
<1>19. ASSUME ReadFrame PROVE FlagMeansWorking' /\ NoLostWakeUp'
  BY ComingStep, <1>19, Zenon DEF ReadFrame, CGoto
<1>20. ASSUME RemoteClose PROVE FlagMeansWorking' /\ NoLostWakeUp'
  BY ComingStep, <1>20, Zenon DEF RemoteClose, CGoto
<1>21. ASSUME PopElement PROVE FlagMeansWorking' /\ NoLostWakeUp'
  BY ComingStep, <1>21, Zenon DEF PopElement, CGoto
<1>22. ASSUME ClearWorking PROVE FlagMeansWorking' /\ NoLostWakeUp'
  BY ComingStep, <1>22 DEF ClearWorking, CGoto
<1>23. ASSUME Recheck PROVE FlagMeansWorking' /\ NoLostWakeUp'
  BY ComingStep, <1>23 DEF Recheck, CGoto
<1>24. ASSUME SetWorking PROVE FlagMeansWorking' /\ NoLostWakeUp'
  BY ComingStep, <1>24, Zenon DEF SetWorking, CGoto
<1>25. ASSUME UNCHANGED vars PROVE FlagMeansWorking' /\ NoLostWakeUp'
  BY <1>25, Zenon DEF vars, WakeUpComing
<1>26. ASSUME Close \/ CloseConn PROVE FlagMeansWorking' /\ NoLostWakeUp'
  BY ComingStep, <1>26, Zenon DEF Close, CloseConn
<1>. QED
  BY <1>1, <1>2, <1>3, <1>4, <1>5, <1>6, <1>7, <1>8, <1>9, <1>10, <1>11, <1>12, <1>13, <1>14, <1>15, <1>16, <1>17, <1>18, <1>19, <1>20, <1>21, <1>22, <1>23, <1>24, <1>25, <1>26, Zenon DEF Next, FlusherStep, SenderStep, ConsumerStep
-----------------------------------------------------------------------------
(* The invariants hold initially and every step keeps them all. *)
LEMMA Invariant == Spec => []IInv
<1>1. Init => IInv
  <2>. SUFFICES ASSUME Init PROVE IInv
    BY Zenon
  <2>1. LockInv /\ PartialInv /\ FramesIntact /\ SenderNotStuck
    BY DEF Init, LockInv, Owner, SenderOwner, PartialInv, FramesIntact, SenderNotStuck
  <2>2. ReplyInv /\ SentMeansWritten
    <3>1. \A w \in Waiters : sframe # w /\ ~Contains(sendCh, w)
      BY NothingAssumption, FrameNames DEF Init, Contains
    <3>. QED
      BY <3>1, Zenon DEF Init, ReplyInv, SentMeansWritten
  <2>3. FlagMeansWorking /\ NoLostWakeUp
    BY DEF Init, FlagMeansWorking, NoLostWakeUp
  <2>. QED
    BY InitTypeOK, <2>1, <2>2, <2>3, Zenon DEF IInv
<1>2. IInv /\ [Next]_vars => IInv'
  BY TypeStep, FrameStep, LockStep, PartialStep, StuckStep, ReplyStep, WakeUpStep, Zenon DEF IInv
<1>. QED
  BY <1>1, <1>2, PTL DEF Spec

(* No element is ever left in the IO queue with nobody going to look at it, *)
(* for any interleaving of wakeUpPeer, the send goroutine and handlePolling. *)
THEOREM WakeUpNeverLost == Spec => [](NoLostWakeUp /\ FlagMeansWorking)
<1>1. IInv => NoLostWakeUp /\ FlagMeansWorking
  BY Zenon DEF IInv
<1>. QED
  BY <1>1, Invariant, PTL

(* The writing flag keeps the frames of all the writers of a connection     *)
(* apart (wakeUpPeer, hotRestart, send).                                    *)
THEOREM FramesNeverMixed == Spec => []FramesIntact
<1>1. IInv => FramesIntact
  BY Zenon DEF IInv
<1>. QED
  BY <1>1, Invariant, PTL

(* The send goroutine never waits for a token that nobody will leave        *)
(* (notifyContinueWriteCh).                                                 *)
THEOREM SenderAlwaysResumes == Spec => []SenderNotStuck
<1>1. IInv => SenderNotStuck
  BY Zenon DEF IInv
<1>. QED
  BY <1>1, Invariant, PTL

(* waitForSend returns nil only for a frame that was written whole. *)
THEOREM SendResultTrue == Spec => []SentMeansWritten
<1>1. IInv => SentMeansWritten
  BY Zenon DEF IInv
<1>. QED
  BY <1>1, Invariant, PTL
=============================================================================
