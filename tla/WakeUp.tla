------------------------------- MODULE WakeUp -------------------------------
(***************************************************************************)
(* How one process wakes the other up, for one direction of a session.     *)
(* Goroutines that flush put an element into the IO queue and send a       *)
(* polling event over the connection only when the queue's working flag    *)
(* says that the peer is not consuming; the peer's dispatcher empties the  *)
(* queue on a polling event and clears the flag before it goes back to     *)
(* epoll.  Flushing goroutines write to the connection themselves when no  *)
(* one else is writing, otherwise they hand the event to the session's     *)
(* send goroutine, which also carries the frames of waitForSend (fallback  *)
(* data, stream close events) and of hot restart.                          *)
(*                                                                         *)
(* The IO queue is its pair of positions: IOQueueProofs shows that put and *)
(* pop are atomic.                                                         *)
(***************************************************************************)
EXTENDS Integers, Sequences

CONSTANTS Flushers,    \* goroutines that flush, close streams or hot restart
          Waiters,     \* goroutines that call waitForSend, each of them once
          Cap,         \* capacity of the IO queue
          SendChCap,   \* capacity of sendCh
          MaxPut,      \* bound: elements put in a behaviour
          MaxHotRestart, \* bound: hot restart events sent in a behaviour
          Failures,    \* whether a write may fail or time out, or an element be invalid
          Nothing      \* no frame

ASSUME BoundsAssumption ==
    Cap \in Nat \ {0} /\ SendChCap \in Nat \ {0} /\ MaxPut \in Nat /\ MaxHotRestart \in Nat
    /\ Failures \in BOOLEAN

Frames == Waiters \cup {"polling", "hotRestart"}

ASSUME NothingAssumption == Nothing \notin Frames
ASSUME WaitersAssumption == "polling" \notin Waiters /\ "hotRestart" \notin Waiters

VARIABLES head, tail,   \* of the IO queue
          workingFlag,  \* of the IO queue
          writing,      \* Session.writing: someone is writing to the connection
          sendCh,       \* Session.sendCh: frames for the send goroutine
          notifyCh,     \* Session.notifyContinueWriteCh, a channel of one token
          pc, frame,    \* per flusher: next step, the frame it sends
          waiter,       \* per waiter: state of its call of waitForSend
          spc, sframe,  \* the send goroutine
          cpc,          \* the peer's dispatcher
          sock,         \* whole frames on the connection, not read yet
          partial,      \* the frame that is partly written
          garbled,      \* history: the bytes of two frames have been mixed
          written,      \* history: the waiters whose frame was written whole
          shutdown,     \* Session.shutdown: closed by a failing write or for another reason
          broken,       \* the connection takes no more: a write failed, or isClose is set
          hots          \* history: hot restart events sent

queueVars == <<head, tail, workingFlag>>
connVars == <<sock, partial, garbled, written>>
vars == <<queueVars, writing, sendCh, notifyCh, pc, frame, waiter, spc, sframe,
          cpc, connVars, shutdown, broken, hots>>

Init == /\ head = 0 /\ tail = 0 /\ workingFlag = 0 /\ writing = 0
        /\ sendCh = <<>> /\ notifyCh = 0
        /\ pc = [g \in Flushers |-> "idle"]
        /\ frame = [g \in Flushers |-> Nothing]
        /\ waiter = [w \in Waiters |-> "idle"]
        /\ spc = "select" /\ sframe = Nothing /\ cpc = "epoll"
        /\ sock = <<>> /\ partial = Nothing /\ garbled = FALSE /\ written = {}
        /\ shutdown = FALSE /\ broken = FALSE /\ hots = 0

Goto(g, from, to) == pc[g] = from /\ pc' = [pc EXCEPT ![g] = to]
SGoto(from, to) == spc = from /\ spc' = to
CGoto(from, to) == cpc = from /\ cpc' = to
-----------------------------------------------------------------------------
(* eventConn.write, which may need several system calls for one frame.  The *)
(* first bytes of f follow whatever is on the connection; if a frame is     *)
(* still incomplete, the reader cannot tell them apart any more.            *)
WriteFirstBytes(f) == /\ garbled' = (garbled \/ partial # Nothing)
                      /\ partial' = f
                      /\ UNCHANGED <<sock, written>>

WriteLastBytes(f) == /\ garbled' = (garbled \/ partial # f)
                     /\ partial' = Nothing
                     /\ sock' = Append(sock, f)
                     /\ written' = written \cup ({f} \cap Waiters)

(* writeEventData: a write error, which stays, closes the session (exitErr). *)
WriteFails == /\ Failures \/ broken
              /\ broken' = TRUE /\ shutdown' = TRUE
              /\ UNCHANGED connVars
-----------------------------------------------------------------------------
(* Flush and Stream.close: put an element; a full queue leaves no trace. *)
Put(g) == /\ tail < MaxPut /\ tail - head < Cap
          /\ Goto(g, "idle", "mark")
          /\ tail' = tail + 1
          /\ UNCHANGED <<head, workingFlag, writing, sendCh, notifyCh, frame, waiter,
                         spc, sframe, cpc, connVars, shutdown, broken, hots>>

(* wakeUpPeer: the compare-and-swap of markWorking. *)
MarkWorking(g) ==
    /\ IF workingFlag = 0
         THEN /\ Goto(g, "mark", "cas")
              /\ workingFlag' = 1
              /\ frame' = [frame EXCEPT ![g] = "polling"]
         ELSE Goto(g, "mark", "idle") /\ UNCHANGED <<workingFlag, frame>>
    /\ UNCHANGED <<head, tail, writing, sendCh, notifyCh, waiter, spc, sframe, cpc,
                   connVars, shutdown, broken, hots>>

(* Session.hotRestart sends its event along the same path. *)
BeginHotRestart(g) ==
    /\ hots < MaxHotRestart
    /\ Goto(g, "idle", "cas")
    /\ frame' = [frame EXCEPT ![g] = "hotRestart"]
    /\ hots' = hots + 1
    /\ UNCHANGED <<queueVars, writing, sendCh, notifyCh, waiter, spc, sframe, cpc,
                   connVars, shutdown, broken>>

TryWriteUnlocked(g) ==
    /\ Goto(g, "cas", "write")
    /\ writing' = 1
    /\ UNCHANGED <<queueVars, sendCh, notifyCh, frame, waiter, spc, sframe, cpc,
                   connVars, shutdown, broken, hots>>

(* The fast path if nobody is writing, the slow path otherwise. *)
TryWrite(g) ==
    /\ IF writing = 0 THEN Goto(g, "cas", "write") ELSE Goto(g, "cas", "enqueue")
    /\ writing' = 1
    /\ UNCHANGED <<queueVars, sendCh, notifyCh, frame, waiter, spc, sframe, cpc,
                   connVars, shutdown, broken, hots>>

FastWriteBegin(g) ==
    /\ \/ /\ ~broken /\ Goto(g, "write", "written")
          /\ WriteFirstBytes(frame[g]) /\ UNCHANGED <<shutdown, broken>>
       \/ Goto(g, "write", "release") /\ WriteFails
    /\ UNCHANGED <<queueVars, writing, sendCh, notifyCh, frame, waiter, spc, sframe,
                   cpc, hots>>

FastWriteEnd(g) ==
    /\ Goto(g, "written", "release")
    /\ \/ ~broken /\ WriteLastBytes(frame[g]) /\ UNCHANGED <<shutdown, broken>>
       \/ WriteFails
    /\ UNCHANGED <<queueVars, writing, sendCh, notifyCh, frame, waiter, spc, sframe,
                   cpc, hots>>

Release(g) == /\ Goto(g, "release", "notify")
              /\ writing' = 0
              /\ UNCHANGED <<queueVars, sendCh, notifyCh, frame, waiter, spc, sframe,
                             cpc, connVars, shutdown, broken, hots>>

NotifyForgotten(g) == /\ Goto(g, "notify", "idle")
                      /\ frame' = [frame EXCEPT ![g] = Nothing]
                      /\ UNCHANGED <<queueVars, writing, sendCh, notifyCh, waiter, spc,
                                     sframe, cpc, connVars, shutdown, broken, hots>>

(* asyncNotify(notifyContinueWriteCh): the token is dropped if one is there. *)
Notify(g) == /\ Goto(g, "notify", "idle")
             /\ notifyCh' = 1
             /\ frame' = [frame EXCEPT ![g] = Nothing]
             /\ UNCHANGED <<queueVars, writing, sendCh, waiter, spc, sframe, cpc,
                            connVars, shutdown, broken, hots>>

(* The slow path blocks while sendCh is full. *)
Enqueue(g) == /\ Len(sendCh) < SendChCap
              /\ Goto(g, "enqueue", "idle")
              /\ sendCh' = Append(sendCh, frame[g])
              /\ frame' = [frame EXCEPT ![g] = Nothing]
              /\ UNCHANGED <<queueVars, writing, notifyCh, waiter, spc, sframe, cpc,
                             connVars, shutdown, broken, hots>>

FlusherStep(g) == \/ MarkWorking(g) \/ TryWrite(g) \/ FastWriteBegin(g)
                  \/ FastWriteEnd(g) \/ Release(g) \/ Notify(g) \/ Enqueue(g)
-----------------------------------------------------------------------------
(* waitForSendErr: hand the frame over, then wait for the result. *)
WaitForSend(w) ==
    /\ waiter[w] = "idle"
    /\ \/ /\ Len(sendCh) < SendChCap
          /\ sendCh' = Append(sendCh, w)
          /\ waiter' = [waiter EXCEPT ![w] = "waiting"]
       \/ /\ Len(sendCh) = SendChCap \/ shutdown
          /\ waiter' = [waiter EXCEPT ![w] = "failed"]
          /\ UNCHANGED sendCh
    /\ UNCHANGED <<queueVars, writing, notifyCh, pc, frame, spc, sframe, cpc, connVars,
                   shutdown, broken, hots>>

(* ErrConnectionWriteTimeout or shutdownErr while the frame is in flight. *)
WaitTimeout(w) ==
    /\ Failures /\ waiter[w] = "waiting"
    /\ waiter' = [waiter EXCEPT ![w] = "failed"]
    /\ UNCHANGED <<queueVars, writing, sendCh, notifyCh, pc, frame, spc, sframe, cpc,
                   connVars, shutdown, broken, hots>>
-----------------------------------------------------------------------------
(* send: the session's send goroutine. *)
SendSelect ==
    /\ \/ /\ sendCh # <<>>
          /\ SGoto("select", "cas")
          /\ sframe' = Head(sendCh) /\ sendCh' = Tail(sendCh)
       \/ shutdown /\ SGoto("select", "exited") /\ UNCHANGED <<sframe, sendCh>>
    /\ UNCHANGED <<queueVars, writing, notifyCh, pc, frame, waiter, cpc, connVars,
                   shutdown, broken, hots>>

SendTryWrite ==
    /\ IF writing = 0 THEN SGoto("cas", "write") ELSE SGoto("cas", "await")
    /\ writing' = 1
    /\ UNCHANGED <<queueVars, sendCh, notifyCh, pc, frame, waiter, sframe, cpc,
                   connVars, shutdown, broken, hots>>

SendAwait ==
    /\ notifyCh = 1 /\ notifyCh' = 0
    /\ SGoto("await", "cas")
    /\ UNCHANGED <<queueVars, writing, sendCh, pc, frame, waiter, sframe, cpc,
                   connVars, shutdown, broken, hots>>

SendWriteBegin ==
    /\ \/ /\ ~broken /\ SGoto("write", "written")
          /\ WriteFirstBytes(sframe) /\ UNCHANGED <<shutdown, broken, waiter>>
       \/ /\ SGoto("write", "release") /\ WriteFails
          /\ waiter' = [w \in Waiters |-> IF w = sframe /\ waiter[w] = "waiting"
                                            THEN "failed" ELSE waiter[w]]
    /\ UNCHANGED <<queueVars, writing, sendCh, notifyCh, pc, frame, sframe, cpc, hots>>

SendWriteEnd ==
    /\ SGoto("written", "release")
    /\ \/ ~broken /\ WriteLastBytes(sframe) /\ UNCHANGED <<shutdown, broken, waiter>>
       \/ /\ WriteFails
          /\ waiter' = [w \in Waiters |-> IF w = sframe /\ waiter[w] = "waiting"
                                            THEN "failed" ELSE waiter[w]]
    /\ UNCHANGED <<queueVars, writing, sendCh, notifyCh, pc, frame, sframe, cpc, hots>>

(* The lock is released without a token: only this goroutine waits for one. *)
SendRelease ==
    /\ SGoto("release", "reply")
    /\ writing' = 0
    /\ UNCHANGED <<queueVars, sendCh, notifyCh, pc, frame, waiter, sframe, cpc,
                   connVars, shutdown, broken, hots>>

(* asyncSendErr(ready.Err, nil): the result of a call that gave up is lost. *)
SendReply ==
    /\ SGoto("reply", "select")
    /\ waiter' = [w \in Waiters |-> IF w = sframe /\ waiter[w] = "waiting"
                                      THEN "sent" ELSE waiter[w]]
    /\ sframe' = Nothing
    /\ UNCHANGED <<queueVars, writing, sendCh, notifyCh, pc, frame, cpc, connVars,
                   shutdown, broken, hots>>

SenderStep == \/ SendSelect \/ SendTryWrite \/ SendAwait \/ SendWriteBegin
              \/ SendWriteEnd \/ SendRelease \/ SendReply
-----------------------------------------------------------------------------
(* Session.Close for another reason than a write, and the function it posts, *)
(* whose eventConn.close sets isClose: until then frames are still written. *)
Close ==
    /\ Failures /\ ~shutdown /\ shutdown' = TRUE
    /\ UNCHANGED <<queueVars, writing, sendCh, notifyCh, pc, frame, waiter, spc, sframe,
                   cpc, connVars, broken, hots>>

CloseConn ==
    /\ shutdown /\ ~broken /\ broken' = TRUE
    /\ UNCHANGED <<queueVars, writing, sendCh, notifyCh, pc, frame, waiter, spc, sframe,
                   cpc, connVars, shutdown, hots>>
-----------------------------------------------------------------------------
(* The peer's dispatcher: one whole frame at a time; only a polling event   *)
(* makes it look at the queue (handlePolling).                              *)
ReadFrame ==
    /\ sock # <<>>
    /\ IF Head(sock) = "polling" THEN CGoto("epoll", "pop")
                                 ELSE CGoto("epoll", "epoll")
    /\ sock' = Tail(sock)
    /\ UNCHANGED <<queueVars, writing, sendCh, notifyCh, pc, frame, waiter, spc,
                   sframe, partial, garbled, written, shutdown, broken, hots>>

(* The peer learns that this side has closed the connection. *)
RemoteClose ==
    /\ broken
    /\ CGoto("epoll", "closed")
    /\ UNCHANGED <<queueVars, writing, sendCh, notifyCh, pc, frame, waiter, spc,
                   sframe, connVars, shutdown, broken, hots>>

(* An element that refers to no valid buffer closes the peer's session. *)
PopElement ==
    /\ \/ head < tail /\ CGoto("pop", "pop") /\ head' = head + 1
       \/ Failures /\ head < tail /\ CGoto("pop", "closed") /\ head' = head + 1
       \/ head = tail /\ CGoto("pop", "clear") /\ UNCHANGED head
    /\ UNCHANGED <<tail, workingFlag, writing, sendCh, notifyCh, pc, frame, waiter,
                   spc, sframe, connVars, shutdown, broken, hots>>

(* markNotWorking: clear the flag, look at the queue once more, and set the *)
(* flag again if an element arrived.                                        *)
ClearWorking ==
    /\ CGoto("clear", "recheck")
    /\ workingFlag' = 0
    /\ UNCHANGED <<head, tail, writing, sendCh, notifyCh, pc, frame, waiter, spc,
                   sframe, connVars, shutdown, broken, hots>>

ClearWithoutRecheck ==
    /\ CGoto("recheck", "epoll")
    /\ UNCHANGED <<queueVars, writing, sendCh, notifyCh, pc, frame, waiter, spc,
                   sframe, connVars, shutdown, broken, hots>>

Recheck ==
    /\ IF tail - head = 0 THEN CGoto("recheck", "epoll")
                          ELSE CGoto("recheck", "setWorking")
    /\ UNCHANGED <<queueVars, writing, sendCh, notifyCh, pc, frame, waiter, spc,
                   sframe, connVars, shutdown, broken, hots>>

SetWorking ==
    /\ CGoto("setWorking", "pop")
    /\ workingFlag' = 1
    /\ UNCHANGED <<head, tail, writing, sendCh, notifyCh, pc, frame, waiter, spc,
                   sframe, connVars, shutdown, broken, hots>>

ConsumerStep == ReadFrame \/ RemoteClose \/ PopElement \/ ClearWorking \/ Recheck \/ SetWorking

Next == \/ \E g \in Flushers : Put(g) \/ BeginHotRestart(g) \/ FlusherStep(g)
        \/ \E w \in Waiters : WaitForSend(w) \/ WaitTimeout(w)
        \/ SenderStep \/ ConsumerStep \/ Close \/ CloseConn

(* Go runs every goroutine that can run; nobody is forced to flush. *)
Fairness == /\ \A g \in Flushers : WF_vars(FlusherStep(g))
            /\ WF_vars(SenderStep) /\ WF_vars(ConsumerStep)

Spec == Init /\ [][Next]_vars
FairSpec == Spec /\ Fairness
-----------------------------------------------------------------------------
FlusherSteps == {"idle", "mark", "cas", "write", "written", "release", "notify", "enqueue"}
SenderSteps == {"select", "cas", "await", "write", "written", "release", "reply", "exited"}
ConsumerSteps == {"epoll", "pop", "clear", "recheck", "setWorking", "closed"}

(* Types, and the bounds of the IO queue and of sendCh. *)
TypeOK ==
    /\ head \in Nat /\ tail \in Nat /\ head <= tail /\ tail - head <= Cap
    /\ workingFlag \in {0, 1} /\ writing \in {0, 1} /\ notifyCh \in {0, 1}
    /\ sendCh \in Seq(Frames) /\ Len(sendCh) <= SendChCap
    /\ pc \in [Flushers -> FlusherSteps]
    /\ frame \in [Flushers -> Frames \cup {Nothing}]
    /\ waiter \in [Waiters -> {"idle", "waiting", "sent", "failed"}]
    /\ spc \in SenderSteps /\ sframe \in Frames \cup {Nothing}
    /\ cpc \in ConsumerSteps
    /\ sock \in Seq(Frames) /\ partial \in Frames \cup {Nothing}
    /\ garbled \in BOOLEAN /\ written \in SUBSET Waiters
    /\ shutdown \in BOOLEAN /\ broken \in BOOLEAN /\ hots \in Nat

(* Both sessions are alive: neither this one nor the peer's is closed. *)
Alive == ~shutdown /\ cpc # "closed"

Contains(s, f) == \E i \in 1..Len(s) : s[i] = f

(* A polling event is on its way to the peer's dispatcher. *)
WakeUpComing ==
    \/ \E g \in Flushers : /\ frame[g] = "polling"
                           /\ pc[g] \in {"cas", "write", "written", "enqueue"}
    \/ Contains(sendCh, "polling")
    \/ sframe = "polling" /\ spc \in {"cas", "await", "write", "written"}
    \/ Contains(sock, "polling")

(* No element is left in the queue unseen: while it holds one, the peer's   *)
(* dispatcher is busy with it, or a polling event is on its way, or a       *)
(* flusher is just about to try to set the working flag (wakeUpPeer against *)
(* markNotWorking).                                                         *)
NoLostWakeUp ==
    Alive /\ head < tail =>
        \/ WakeUpComing
        \/ cpc \in {"pop", "clear", "recheck", "setWorking"}
        \/ \E g \in Flushers : pc[g] = "mark"

(* A set working flag never lies: whoever finds it set and sends nothing    *)
(* relies on a dispatcher that will look at the queue again.                *)
FlagMeansWorking ==
    Alive /\ workingFlag = 1 =>
        WakeUpComing \/ cpc \in {"pop", "clear", "setWorking"}

(* The bytes of two frames are never mixed on the connection, though the    *)
(* flushers, hot restart and the send goroutine all write to it.            *)
FramesIntact == ~garbled

(* The send goroutine is never stuck on notifyContinueWriteCh: a token is   *)
(* there, or the goroutine that holds the connection will leave one.        *)
SenderNotStuck ==
    spc = "await" =>
        \/ notifyCh = 1
        \/ \E g \in Flushers : pc[g] \in {"write", "written", "release", "notify"}

(* waitForSend reports success only for a frame that was written whole. *)
SentMeansWritten == \A w \in Waiters : waiter[w] = "sent" => w \in written

-----------------------------------------------------------------------------
(* What makes the invariants above inductive: the connection has one owner  *)
(* exactly while writing is set, ...                                        *)
Owner(g) == pc[g] \in {"write", "written", "release"}
SenderOwner == spc \in {"write", "written", "release"}

LockInv ==
    /\ \A g \in Flushers : Owner(g) => writing = 1 /\ ~SenderOwner
    /\ \A g, h \in Flushers : Owner(g) /\ Owner(h) => g = h
    /\ SenderOwner => writing = 1
    /\ writing = 1 => SenderOwner \/ \E g \in Flushers : Owner(g)

(* ... goroutines that send have a frame to send, ... *)
FrameInv ==
    /\ \A g \in Flushers :
          pc[g] \notin {"idle", "mark"} => frame[g] \in {"polling", "hotRestart"}
    /\ spc \notin {"select", "exited"} => sframe \in Frames
    /\ spc = "exited" => shutdown

(* ... the frame that is partly written is the owner's, ... *)
PartialInv ==
    ~broken =>
        /\ \A g \in Flushers : pc[g] = "written" => partial = frame[g]
        /\ spc = "written" => partial = sframe
        /\ partial # Nothing => spc = "written" \/ \E g \in Flushers : pc[g] = "written"

(* ... and a call that still waits for the frame that has just been written *)
(* is told the truth.                                                       *)
ReplyInv ==
    \A w \in Waiters :
        /\ sframe = w \/ Contains(sendCh, w) => waiter[w] # "idle"
        /\ sframe = w /\ spc \in {"release", "reply"} /\ waiter[w] = "waiting"
             => w \in written

IInv == /\ TypeOK /\ LockInv /\ FrameInv /\ PartialInv /\ FramesIntact
        /\ SenderNotStuck /\ ReplyInv /\ SentMeansWritten
        /\ FlagMeansWorking /\ NoLostWakeUp
-----------------------------------------------------------------------------
(* Every element that was put is consumed, unless a session closes. *)
EveryElementConsumed ==
    \A n \in 1..MaxPut : (tail >= n) ~> (head >= n \/ ~Alive)

(* Every wake-up and every hot restart event comes to an end, even if the   *)
(* connection is busy and sendCh is full, unless a session closes.          *)
WakeUpReturns ==
    \A g \in Flushers : (pc[g] # "idle") ~> (pc[g] = "idle" \/ ~Alive)
=============================================================================
