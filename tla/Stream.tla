------------------------------- MODULE Stream -------------------------------
(***************************************************************************)
(* One stream of a session: its receive side, its callbacks and its close. *)
(* The session's dispatcher appends the units of data that it pops from    *)
(* the IO queue to pendingData.  They are moved to recvBuf by whoever      *)
(* reads: a goroutine that calls the BufferReader (synchronous mode), or   *)
(* the goroutine that runs OnData (callback mode).  Users, OnData itself   *)
(* and the closing session may all close the stream.                       *)
(*                                                                         *)
(* A unit is the chain of buffer slices of one queue element.  It is       *)
(* released when its slices go back to the buffer manager.                 *)
(***************************************************************************)
EXTENDS Integers, Sequences, FiniteSets

CONSTANTS D,        \* the session's dispatcher
          Modes,    \* with callbacks, without, or both: a subset of BOOLEAN
          Workers,  \* goroutines of the pool, that run OnData
          Readers,  \* goroutines that read a stream without callbacks
          Users,    \* goroutines that call Close, each of them once
          MaxData,  \* bound: units the peer sends
          Env       \* what the environment may do, a subset of EnvSteps

(* The peer closes the stream; the session is closed; OnData calls Close; a *)
(* read has a deadline.                                                     *)
EnvSteps == {"peerClose", "sessionClose", "onDataClose", "deadline"}

ASSUME StreamAssumption ==
    /\ D \notin Workers \cup Readers \cup Users
    /\ Workers \cap Readers = {} /\ Workers \cap Users = {} /\ Readers \cap Users = {}
    /\ Modes \subseteq BOOLEAN
    /\ MaxData \in Nat /\ Env \subseteq EnvSteps

(* recvBuf has no lock against a second reader: one goroutine reads. *)
ASSUME ReaderAssumption == \A r, s \in Readers : r = s

Actors == {D} \cup Workers \cup Readers \cup Users
Units == 1..MaxData

VARIABLES callbacks,     \* SetCallbacks was called, before the first data
          state,         \* Stream.state
          pending,       \* pendingData.unread
          recvBuf,       \* recvBuf, the unit in use at its front included
          recycleMux,    \* holder of recvBuf.recycleMux, or "free"
          notifyCh,      \* recvNotifyCh, a channel of one token
          closeNotified, \* closeNotifyCh is closed
          inProcess,     \* callbackInProcess
          closeState,    \* callbackCloseState = callbackWaitExit
          wg,            \* asyncGoroutineWg
          registered,    \* the session's table holds the stream
          session,       \* progress of Session.Close
          pc, old,       \* per goroutine: next step, oldState of close
          hand,          \* per goroutine: the unit its user code is reading
          result,        \* per goroutine: result of its last read
          arrived,       \* history: units taken from the IO queue
          peerClosed,    \* history: the peer's close was taken from the IO queue
          delivered,     \* history: units that user code has read, in order
          released,      \* history: units given back to the buffer manager
          localCalls, remoteCalls, \* history: calls of OnLocalClose, OnRemoteClose
          peerTold       \* history: close elements sent to the peer

dataVars == <<pending, recvBuf, recycleMux, released>>
readVars == <<hand, result, delivered>>
cbVars == <<inProcess, closeState, wg>>
closeVars == <<callbacks, state, closeNotified, registered, old, localCalls, remoteCalls,
               peerTold>>
peerVars == <<arrived, peerClosed>>

(* What a step leaves alone when it changes only pc, only pc and one group  *)
(* of variables.                                                            *)
notData == <<readVars, cbVars, closeVars, peerVars, notifyCh, session>>
notClose == <<dataVars, readVars, cbVars, peerVars, notifyCh, session>>
notCb == <<dataVars, readVars, closeVars, peerVars, notifyCh, session>>
butPc == <<dataVars, notData>>
vars == <<butPc, pc>>

Init == /\ callbacks \in Modes
        /\ state = "opened" /\ pending = <<>> /\ recvBuf = <<>> /\ recycleMux = "free"
        /\ notifyCh = 0 /\ closeNotified = FALSE
        /\ inProcess = 0 /\ closeState = FALSE /\ wg = 0
        /\ registered = TRUE /\ session = "open"
        /\ pc = [a \in Actors |-> "idle"] /\ old = [a \in Actors |-> "none"]
        /\ hand = [a \in Actors |-> 0] /\ result = [a \in Actors |-> "none"]
        /\ arrived = 0 /\ peerClosed = FALSE /\ delivered = <<>> /\ released = {}
        /\ localCalls = 0 /\ remoteCalls = 0 /\ peerTold = 0

IsClosed == session # "open"
Goto(a, from, to) == pc[a] = from /\ pc' = [pc EXCEPT ![a] = to]
Elements(s) == {s[i] : i \in 1..Len(s)}

(* Where a goroutine goes on when Close or a release of the buffers returns. *)
Return(a) == CASE a = D -> IF session = "lambda" THEN "join" ELSE "idle"
               [] a \in Workers -> IF result[a] # "none" THEN "onData" ELSE "idle"
               [] OTHER -> "done"
-----------------------------------------------------------------------------
(* The dispatcher, on an element of the IO queue (handlePolling, getStream).*)
DispatcherFree == pc[D] = "idle" /\ session \in {"open", "shutdown", "closing"}

(* An element with data; without a stream the data is released at once. *)
Arrive == /\ DispatcherFree /\ ~peerClosed /\ arrived < MaxData
          /\ arrived' = arrived + 1
          /\ IF registered
             THEN /\ Goto(D, "idle", "add")
                  /\ UNCHANGED released
             ELSE /\ released' = released \cup {arrived + 1}
                  /\ UNCHANGED pc
          /\ UNCHANGED <<pending, recvBuf, recycleMux, readVars, cbVars, closeVars,
                         peerClosed, notifyCh, session>>

(* An element of a closed stream, or a typeStreamClose event: halfClose. *)
PeerCloses == /\ "peerClose" \in Env /\ DispatcherFree /\ ~peerClosed
              /\ peerClosed' = TRUE
              /\ IF registered /\ state = "opened"
                 THEN /\ state' = "halfClosed"
                      /\ Goto(D, "idle", "halfNotify")
                 ELSE UNCHANGED <<state, pc>>
              /\ UNCHANGED <<dataVars, readVars, cbVars, callbacks, closeNotified,
                             registered, old, localCalls, remoteCalls, peerTold,
                             arrived, notifyCh, session>>

HalfNotify == /\ Goto(D, "halfNotify", IF callbacks THEN "halfReport" ELSE "idle")
              /\ closeNotified' = TRUE
              /\ UNCHANGED <<notClose, callbacks, state, registered, old, localCalls,
                             remoteCalls, peerTold>>

HalfReport == /\ Goto(D, "halfReport", "idle")
              /\ remoteCalls' = remoteCalls + 1
              /\ UNCHANGED <<notClose, callbacks, state, closeNotified, registered, old,
                             localCalls, peerTold>>

(* fillDataToReadBuffer. *)
FillAdd == /\ Goto(D, "add", "check")
           /\ pending' = Append(pending, arrived)
           /\ UNCHANGED <<notData, recvBuf, recycleMux, released>>

FillUnchecked == /\ Goto(D, "check", "notify")
                 /\ UNCHANGED butPc

FillCheck == /\ Goto(D, "check", IF state = "closed" THEN "clear" ELSE "notify")
             /\ UNCHANGED butPc

FillSilent == /\ Goto(D, "notify", IF callbacks THEN "cas" ELSE "idle")
              /\ UNCHANGED butPc

FillNotify == /\ Goto(D, "notify", IF callbacks THEN "cas" ELSE "idle")
              /\ notifyCh' = 1
              /\ UNCHANGED <<dataVars, readVars, cbVars, closeVars, peerVars, session>>

StoreInProcess == /\ Goto(D, "cas", "spawn")
                  /\ inProcess' = 1
                  /\ UNCHANGED <<notCb, closeState, wg>>

FillCas == /\ Goto(D, "cas", IF inProcess = 0 THEN "spawn" ELSE "idle")
           /\ inProcess' = 1
           /\ UNCHANGED <<notCb, closeState, wg>>

FillSpawn(w) == /\ pc[D] = "spawn" /\ pc[w] = "idle"
                /\ wg' = wg + 1
                /\ pc' = [pc EXCEPT ![D] = "idle", ![w] = "move"]
                /\ UNCHANGED <<notCb, inProcess, closeState>>
-----------------------------------------------------------------------------
(* pendingData.clear and linkedBuffer.recycle, by the dispatcher or close. *)
ClearPending(a) == /\ Goto(a, "clear", "drain")
                   /\ released' = released \cup Elements(pending)
                   /\ pending' = <<>>
                   /\ UNCHANGED <<notData, recvBuf, recycleMux>>

Drain(a) == /\ Goto(a, "drain", "reset")
            /\ recycleMux = "free" /\ recycleMux' = a
            /\ released' = released \cup Elements(recvBuf)
            /\ recvBuf' = <<>>
            /\ UNCHANGED <<notData, pending>>

(* linkedBuffer.clean: what was appended since the drain is dropped without *)
(* a release.                                                               *)
ResetBuf(a) == /\ Goto(a, "reset", IF old[a] = "opened" THEN "closeNotify" ELSE Return(a))
               /\ recycleMux' = "free" /\ recvBuf' = <<>>
               /\ UNCHANGED <<notData, pending, released>>
-----------------------------------------------------------------------------
(* The goroutine that runs OnData. *)
Unread == Len(recvBuf) - (IF \E a \in Actors : recvBuf # <<>> /\ hand[a] = recvBuf[1]
                          THEN 1 ELSE 0)

PendingFirst(buf) == pending \o buf

(* pendingData.moveTo, with the lock of pendingData held: what buf becomes. *)
MoveTo(buf) == buf \o pending

WorkerMove(w) == /\ Goto(w, "move", "loop")
                 /\ recvBuf' = MoveTo(recvBuf) /\ pending' = <<>>
                 /\ UNCHANGED <<notData, recycleMux, released>>

WorkerLoop(w) == /\ Goto(w, "loop", IF state = "opened" /\ Unread > 0
                                    THEN "read" ELSE "leave")
                 /\ UNCHANGED butPc

WorkerLeave(w) == /\ Goto(w, "leave", "checkClose")
                  /\ inProcess' = 0
                  /\ UNCHANGED <<notCb, closeState, wg>>

WorkerCheckClose(w) ==
    /\ Goto(w, "checkClose", IF closeState THEN "readState" ELSE "recheck")
    /\ wg' = IF closeState THEN wg - 1 ELSE wg
    /\ UNCHANGED <<notCb, inProcess, closeState>>

WorkerRecheck(w) == /\ Goto(w, "recheck", IF pending # <<>> THEN "recas" ELSE "end")
                    /\ UNCHANGED butPc

WorkerRecas(w) == /\ Goto(w, "recas", IF inProcess = 0 THEN "move" ELSE "end")
                  /\ inProcess' = 1
                  /\ UNCHANGED <<notCb, closeState, wg>>

WorkerEnd(w) == /\ Goto(w, "end", "idle")
                /\ wg' = wg - 1
                /\ UNCHANGED <<notCb, inProcess, closeState>>
-----------------------------------------------------------------------------
(* BufferReader: ReleasePreviousRead, then a read of one unit.  Only what a *)
(* read releases and moves is modelled; the unit that is read stays at the  *)
(* front of recvBuf until it is released.                                   *)
InUse(a) == hand[a] # 0 /\ recvBuf # <<>> /\ recvBuf[1] = hand[a]
Rest(a) == IF InUse(a) THEN Tail(recvBuf) ELSE recvBuf
ReleaseHand(a) == released' = released \cup (IF InUse(a) THEN {hand[a]} ELSE {})
AfterRead(a) == IF a \in Workers THEN "onData" ELSE "idle"

(* readMore and the read that follows: move what is pending, take a unit or *)
(* go on to otherwise with result res.                                      *)
TakeOr(a, from, otherwise, res) ==
    LET buf == MoveTo(Rest(a))
    IN /\ Goto(a, from, IF buf # <<>> THEN AfterRead(a) ELSE otherwise)
       /\ ReleaseHand(a) /\ recvBuf' = buf /\ pending' = <<>>
       /\ hand' = [hand EXCEPT ![a] = IF buf # <<>> THEN buf[1] ELSE 0]
       /\ delivered' = IF buf # <<>> THEN Append(delivered, buf[1]) ELSE delivered
       /\ result' = [result EXCEPT ![a] = IF buf # <<>> THEN "data" ELSE res]
       /\ UNCHANGED <<recycleMux, cbVars, closeVars, peerVars, session>>

ReadMove(a) == TakeOr(a, "read", "readCheck", result[a]) /\ UNCHANGED notifyCh

ReadCheck(a) ==
    /\ Goto(a, "readCheck", IF state # "opened" THEN AfterRead(a) ELSE "select")
    /\ result' = [result EXCEPT ![a] = IF state # "opened" THEN "eos" ELSE @]
    /\ UNCHANGED <<dataVars, hand, delivered, cbVars, closeVars, peerVars, notifyCh,
                   session>>

SelectNotify(a) == /\ Goto(a, "select", "reread")
                   /\ notifyCh = 1 /\ notifyCh' = 0
                   /\ UNCHANGED <<dataVars, readVars, cbVars, closeVars, peerVars,
                                  session>>

Reread(a) == TakeOr(a, "reread", "select", result[a]) /\ UNCHANGED notifyCh

SelectClose(a) == /\ closeNotified
                  /\ TakeOr(a, "select", AfterRead(a),
                            IF state = "halfClosed" THEN "eos" ELSE "closed")
                  /\ UNCHANGED notifyCh

SelectTimeout(a) ==
    /\ "deadline" \in Env
    /\ Goto(a, "select", AfterRead(a))
    /\ result' = [result EXCEPT ![a] = "timeout"]
    /\ UNCHANGED <<dataVars, hand, delivered, cbVars, closeVars, peerVars, notifyCh,
                   session>>

(* A synchronous reader reads until its read fails. *)
ReaderReads(r) == /\ ~callbacks /\ result[r] \in {"none", "data"}
                  /\ Goto(r, "idle", "read")
                  /\ UNCHANGED butPc

(* OnData reads at least one unit; then it may read what else has arrived   *)
(* or call Close before it releases what it read and returns.               *)
OnDataReads(w) == /\ result[w] = "data" /\ Unread > 0
                  /\ Goto(w, "onData", "read")
                  /\ UNCHANGED butPc

OnDataCloses(w) == /\ "onDataClose" \in Env /\ ~closeState
                   /\ Goto(w, "onData", "store")
                   /\ UNCHANGED butPc

OnDataReturns(w) == /\ Goto(w, "onData", "move")
                    /\ ReleaseHand(w) /\ recvBuf' = Rest(w)
                    /\ hand' = [hand EXCEPT ![w] = 0]
                    /\ result' = [result EXCEPT ![w] = "none"]
                    /\ UNCHANGED <<pending, recycleMux, delivered, cbVars, closeVars,
                                   peerVars, notifyCh, session>>
-----------------------------------------------------------------------------
(* Close and close. *)
UserCloses(u) == /\ Goto(u, "idle", "store")
                 /\ UNCHANGED butPc

CloseStore(a) == /\ Goto(a, "store", "load")
                 /\ closeState' = callbacks
                 /\ UNCHANGED <<notCb, inProcess, wg>>

CloseLoad(a) == /\ Goto(a, "load", IF inProcess = 1 THEN "half" ELSE "readState")
                /\ UNCHANGED butPc

CloseHalf(a) == /\ Goto(a, "half", Return(a))
                /\ state' = IF state = "opened" THEN "halfClosed" ELSE state
                /\ UNCHANGED <<notClose, callbacks, closeNotified, registered, old,
                               localCalls, remoteCalls, peerTold>>

CloseReadState(a) ==
    /\ Goto(a, "readState", IF state = "closed" THEN Return(a) ELSE "casClosed")
    /\ old' = [old EXCEPT ![a] = IF state = "closed" THEN "none" ELSE state]
    /\ UNCHANGED <<notClose, callbacks, state, closeNotified, registered, localCalls,
                   remoteCalls, peerTold>>

AfterCas(a) == IF callbacks THEN "wait" ELSE "unregister"

StoreClosed(a) == /\ Goto(a, "casClosed", AfterCas(a))
                  /\ state' = "closed"
                  /\ UNCHANGED <<notClose, callbacks, closeNotified, registered, old,
                                 localCalls, remoteCalls, peerTold>>

(* A compare-and-swap that fails makes close return without closing. *)
CloseCas(a) == /\ Goto(a, "casClosed", IF state = old[a] THEN AfterCas(a) ELSE Return(a))
               /\ state' = IF state = old[a] THEN "closed" ELSE state
               /\ old' = IF state = old[a] THEN old ELSE [old EXCEPT ![a] = "none"]
               /\ UNCHANGED <<notClose, callbacks, closeNotified, registered,
                              localCalls, remoteCalls, peerTold>>

CloseWait(a) == /\ wg = 0
                /\ Goto(a, "wait", "unregister")
                /\ UNCHANGED butPc

CloseUnregister(a) == /\ Goto(a, "unregister", "clear")
                      /\ registered' = FALSE
                      /\ UNCHANGED <<notClose, callbacks, state, closeNotified, old,
                                     localCalls, remoteCalls, peerTold>>

CloseNotify(a) == /\ Goto(a, "closeNotify", IF callbacks THEN "report" ELSE "tell")
                  /\ closeNotified' = TRUE
                  /\ UNCHANGED <<notClose, callbacks, state, registered, old,
                                 localCalls, remoteCalls, peerTold>>

CloseReport(a) == /\ Goto(a, "report", "tell")
                  /\ localCalls' = IF IsClosed THEN localCalls ELSE localCalls + 1
                  /\ remoteCalls' = IF IsClosed THEN remoteCalls + 1 ELSE remoteCalls
                  /\ UNCHANGED <<notClose, callbacks, state, closeNotified, registered,
                                 old, peerTold>>

(* The close element goes into the IO queue or, if that is full, to the     *)
(* connection (WakeUp).                                                     *)
CloseTell(a) == /\ Goto(a, "tell", Return(a))
                /\ peerTold' = IF IsClosed THEN peerTold ELSE peerTold + 1
                /\ UNCHANGED <<notClose, callbacks, state, closeNotified, registered,
                               old, localCalls, remoteCalls>>
-----------------------------------------------------------------------------
(* Session.Close: the compare-and-swap of shutdown, the notification of the *)
(* streams in the table, and the function posted to the dispatcher.         *)
SessionShutdown == /\ "sessionClose" \in Env /\ session = "open"
                   /\ session' = "shutdown"
                   /\ UNCHANGED <<dataVars, readVars, cbVars, closeVars, peerVars,
                                  notifyCh, pc>>

SessionPost == /\ session = "shutdown" /\ session' = "closing"
               /\ closeNotified' = (closeNotified \/ registered)
               /\ UNCHANGED <<dataVars, readVars, cbVars, callbacks, state, registered,
                              old, localCalls, remoteCalls, peerTold, peerVars,
                              notifyCh, pc>>

SessionLambda == /\ session = "closing" /\ session' = "lambda"
                 /\ Goto(D, "idle", IF registered THEN "store" ELSE "unmap")
                 /\ registered' = FALSE
                 /\ UNCHANGED <<dataVars, readVars, cbVars, callbacks, state,
                                closeNotified, old, localCalls, remoteCalls, peerTold,
                                peerVars, notifyCh>>

SessionJoin == /\ wg = 0
               /\ Goto(D, "join", "unmap")
               /\ UNCHANGED butPc

SessionUnmap == /\ Goto(D, "unmap", "done")
                /\ session' = "unmapped"
                /\ UNCHANGED <<dataVars, readVars, cbVars, closeVars, peerVars,
                               notifyCh>>
-----------------------------------------------------------------------------
Receive == PeerCloses \/ Arrive
DispatcherStep == \/ HalfNotify \/ HalfReport \/ FillAdd \/ FillCheck \/ FillNotify
                  \/ FillCas \/ \E w \in Workers : FillSpawn(w)
                  \/ SessionLambda \/ SessionJoin \/ SessionUnmap
WorkerStep(w) == \/ WorkerMove(w) \/ WorkerLoop(w) \/ WorkerLeave(w) \/ WorkerCheckClose(w)
                 \/ WorkerRecheck(w) \/ WorkerRecas(w) \/ WorkerEnd(w)
                 \/ OnDataReads(w) \/ OnDataCloses(w) \/ OnDataReturns(w)
ReadStep(a) == ReadMove(a) \/ ReadCheck(a) \/ SelectNotify(a) \/ Reread(a) \/ SelectClose(a)
CloseStep(a) == \/ CloseStore(a) \/ CloseLoad(a) \/ CloseHalf(a) \/ CloseReadState(a)
                \/ CloseCas(a) \/ CloseWait(a) \/ CloseUnregister(a) \/ ClearPending(a)
                \/ Drain(a) \/ ResetBuf(a) \/ CloseNotify(a) \/ CloseReport(a)
                \/ CloseTell(a)
ReaderActors == Workers \cup Readers

Next == \/ Receive \/ DispatcherStep \/ SessionShutdown \/ SessionPost
        \/ \E w \in Workers : WorkerStep(w)
        \/ \E a \in ReaderActors : ReadStep(a) \/ SelectTimeout(a)
        \/ \E r \in Readers : ReaderReads(r)
        \/ \E u \in Users : UserCloses(u)
        \/ \E a \in Actors : CloseStep(a)

Spec == Init /\ [][Next]_vars

(* Goroutines are scheduled fairly; whether the peer sends or closes and    *)
(* whether anyone closes is up to them.  Readers read streams without       *)
(* callbacks, on which no worker ever runs: nothing is assumed of workers.  *)
Fairness == /\ WF_vars(DispatcherStep) /\ WF_vars(SessionPost)
            /\ \A r \in Readers : WF_vars(ReadStep(r))
            /\ \A a \in {D} \cup Users : WF_vars(CloseStep(a))
FairSpec == Spec /\ Fairness
-----------------------------------------------------------------------------
(* Where a goroutine is between two steps. *)
Steps == {"idle", "done", "add", "check", "notify", "cas", "spawn", "halfNotify", "halfReport",
          "move", "loop", "leave", "checkClose", "recheck", "recas", "end", "onData",
          "read", "readCheck", "select", "reread", "store", "load", "half", "readState",
          "casClosed", "wait", "unregister", "clear", "drain", "reset", "closeNotify",
          "report", "tell", "join", "unmap"}

(* The type invariant of what the stream's goroutines synchronise with. *)
TypeOK ==
    /\ state \in {"opened", "halfClosed", "closed"} /\ inProcess \in {0, 1}
    /\ session \in {"open", "shutdown", "closing", "lambda", "unmapped"}
    /\ pc \in [Actors -> Steps] /\ old \in [Actors -> {"none", "opened", "halfClosed"}]
    /\ result \in [Actors -> {"none", "data", "eos", "closed", "timeout"}]
    /\ localCalls \in Nat /\ remoteCalls \in Nat /\ peerTold \in Nat

(* A goroutine is in process from the compare-and-swap of callbackInProcess *)
(* to the store that clears it.                                             *)
InOnData(w) == \/ pc[w] \in {"read", "readCheck", "select", "reread", "onData"}
               \/ result[w] # "none"
InProcess(w) == InOnData(w) \/ pc[w] \in {"move", "loop", "leave"}

(* callbackInProcess keeps OnData to one goroutine at a time, and is never  *)
(* 0 while a goroutine is in process: so Close called by OnData takes the   *)
(* early return and never waits in asyncGoroutineWg.Wait for itself.        *)
OneInProcess == \A w \in Workers : InProcess(w) =>
                    /\ inProcess = 1 /\ pc[D] # "spawn"
                    /\ \A v \in Workers \ {w} : ~InProcess(v)
                    /\ pc[w] # "wait"

(* User code reads the units in the order in which they arrived, each of    *)
(* them once, whatever pending data, callbacks and closes interleave.       *)
ReadInOrder == \A i, j \in 1..Len(delivered) : i < j => delivered[i] < delivered[j]

(* Of the calls of Close, the peer's close and the session's, one at most   *)
(* calls OnLocalClose or OnRemoteClose and tells the peer, and once.        *)
ReportedOnce == localCalls + remoteCalls <= 1 /\ peerTold <= 1

Quiet == \A a \in Actors : pc[a] \in {"idle", "done"}

(* Once the stream is closed and every goroutine has finished with it, it   *)
(* holds no data and the session's table does not hold it, also when data   *)
(* arrived during the close.                                                *)
ClosedMeansDrained == state = "closed" /\ Quiet =>
                          pending = <<>> /\ recvBuf = <<>> /\ ~registered

(* No unit is recycled while the callback is reading it: Close "maybe block *)
(* if there is StreamCallbacks running".                                    *)
NotRecycledInUse == \A w \in Workers : hand[w] \notin released

(* A read returns ErrEndOfStream for a stream that the peer closed only     *)
(* when nothing is left to read ("user shouldn't to read from the stream"). *)
EndOfStreamIsTheEnd == \A r \in Readers : result[r] = "eos" /\ state = "halfClosed" =>
                           pending = <<>> /\ Unread = 0

(* Close of a stream with callbacks, whoever calls it and whatever OnData   *)
(* is doing, leads to a closed stream: either Close finds that no callback  *)
(* is in process, or the callback goroutine finds callbackCloseState.       *)
CloseCompletes == closeState ~> state = "closed" /\ Quiet

(* A blocked read returns when there is data or when the stream is closed   *)
(* or half-closed.                                                          *)
BlockedReadReturns == \A a \in Readers :
    pc[a] = "select" /\ (pending # <<>> \/ state # "opened") ~> pc[a] # "select"

(* OnData is called for data that arrives on a stream not closed locally.   *)
OnDataCalled == \A u \in Units :
    arrived = u /\ pc[D] = "cas" ~> u \in Elements(delivered) \/ closeState
=============================================================================
