----------------------------- MODULE Dispatcher -----------------------------
(***************************************************************************)
(* The epoll dispatcher of a process and its connections: one goroutine    *)
(* waits for edge-triggered events, reads whole sockets, cuts what it read *)
(* into events for the session, and between two waits runs the functions   *)
(* that were posted to it.  Descriptors are closed only by such functions, *)
(* so that a batch of events never meets a closed descriptor.  Other       *)
(* goroutines add connections, write to them and close sessions.           *)
(*                                                                         *)
(* A byte is a unit: a header has HeaderSize units, a payload one.  A unit *)
(* knows the event it belongs to and its place there, so that the cutting  *)
(* can be checked.                                                         *)
(***************************************************************************)
EXTENDS Integers, Sequences

CONSTANTS Conns,         \* connEventHandlers, each of them used once
          Fds,           \* descriptor numbers
          None,          \* no connection, no descriptor
          Kinds,         \* kinds of events the peer sends
          Plans,         \* bound: what may go on in a behaviour, see plan
          InitialLen,    \* units of a new read buffer (64K)
          ResizeLen,     \* commitRead shrinks longer buffers (4M)
          OnDataThreshold, \* onReadReady delivers early above this (1M)
          Room,          \* units the socket's send buffer takes
          WriteLen       \* units of the frame a goroutine writes

ASSUME KindsAssumption == Kinds \subseteq {"polling", "fallback", "invalid"}
ASSUME SizesAssumption ==
    {InitialLen, ResizeLen, OnDataThreshold, Room, WriteLen} \subseteq Nat \ {0}
ASSUME PlansAssumption == 
    Plans \subseteq [uses : SUBSET Conns, sends : [Conns -> Nat], writers : SUBSET Conns]
ASSUME FdsAssumption == Fds \subseteq Nat
ASSUME NoneAssumption == None \notin Conns \cup Fds

HeaderSize == 2

(* The length that the header of an event announces. *)
Length(kind) == IF kind = "fallback" THEN HeaderSize + 1 ELSE HeaderSize

VARIABLES
    fd, file,     \* connEventHandler.fd and whether its os.File is open
    isClose,      \* connEventHandler.isClose
    onWriteReadyCh, \* a channel of one token: "empty", "token" or "closed"
    readBuf,      \* units between readStartOff and readEndOff, readStartOff, len(readBuffer)
    conns,        \* epollDispatcher.conns
    epoll, ready, \* the kernel's interest list, and the edges not reported yet
    shutdown,     \* Session.shutdown of the session on top of the connection
    loop,         \* the dispatcher's goroutine: next step, current connection
    batch,        \* events of the last epollWait that are not handled yet
    pending, running, \* pendingLambda, runningLambda
    sent, inFlight, sock, \* the peer: kinds sent, units it still has to write, units to read
    peerOpen,
    room,         \* units the send buffer still takes
    writer,       \* the goroutine that writes: next step, units left
    plan,         \* bound: connections used, events their peers send, which are written to
    handled,      \* history: events handed to the session's handlers
    misdirected   \* history: a frame went to another connection's socket

connVars == <<fd, file, isClose, onWriteReadyCh>>
history == <<plan, handled, misdirected>>
peerVars == <<sent, inFlight, sock, peerOpen>>
vars == <<connVars, readBuf, conns, epoll, ready, shutdown, loop, batch,
          pending, running, peerVars, room, writer, history>>

Init == /\ fd = [c \in Conns |-> None]
        /\ file = [c \in Conns |-> "none"]
        /\ isClose = [c \in Conns |-> FALSE]
        /\ onWriteReadyCh = [c \in Conns |-> "empty"]
        /\ readBuf = [c \in Conns |-> [data |-> <<>>, start |-> 0, len |-> InitialLen]]
        /\ conns = [f \in Fds |-> None]
        /\ epoll = {} /\ ready = [c \in Conns |-> {}]
        /\ shutdown = [c \in Conns |-> FALSE]
        /\ loop = [pc |-> "wait", cur |-> None, events |-> {}]
        /\ batch = [c \in Conns |-> {}]
        /\ pending = <<>> /\ running = <<>>
        /\ sent = [c \in Conns |-> <<>>]
        /\ inFlight = [c \in Conns |-> <<>>]
        /\ sock = [c \in Conns |-> <<>>]
        /\ peerOpen = [c \in Conns |-> TRUE]
        /\ room = [c \in Conns |-> Room]
        /\ writer = [c \in Conns |-> [pc |-> "idle", left |-> 0]]
        /\ plan \in Plans
        /\ handled = [c \in Conns |-> <<>>]
        /\ misdirected = FALSE
-----------------------------------------------------------------------------
(* The kernel reports an edge of a connection that is on the interest list. *)
Edge(c, e) == ready' = [ready EXCEPT ![c] = IF c \in epoll THEN @ \cup e ELSE @]

(* The peer writes the first unit of an event, or the next one. *)
PeerSend(c, kind) ==
    LET units == [i \in 1..Length(kind) |-> [event |-> Len(sent[c]) + 1, at |-> i]]
    IN  /\ peerOpen[c] /\ file[c] = "open"
        /\ inFlight[c] = <<>> /\ Len(sent[c]) < plan.sends[c]
        /\ sent' = [sent EXCEPT ![c] = Append(@, kind)]
        /\ inFlight' = [inFlight EXCEPT ![c] = Tail(units)]
        /\ sock' = [sock EXCEPT ![c] = Append(@, Head(units))]
        /\ Edge(c, {"IN"})
        /\ UNCHANGED <<connVars, readBuf, conns, epoll, shutdown, loop, batch, pending,
                       running, peerOpen, room, writer, history>>

PeerWrite(c) ==
    /\ peerOpen[c] /\ file[c] = "open" /\ inFlight[c] # <<>>
    /\ sock' = [sock EXCEPT ![c] = Append(@, Head(inFlight[c]))]
    /\ inFlight' = [inFlight EXCEPT ![c] = Tail(@)]
    /\ Edge(c, {"IN"})
    /\ UNCHANGED <<connVars, readBuf, conns, epoll, shutdown, loop, batch, pending,
                   running, sent, peerOpen, room, writer, history>>

(* The peer reads what was written to it: there is room again. *)
PeerRead(c) ==
    /\ peerOpen[c] /\ file[c] = "open" /\ room[c] < Room
    /\ room' = [room EXCEPT ![c] = Room]
    /\ Edge(c, {"OUT"})
    /\ UNCHANGED <<connVars, readBuf, conns, epoll, shutdown, loop, batch, pending,
                   running, peerVars, writer, history>>

PeerClose(c) ==
    /\ peerOpen[c] /\ file[c] = "open"
    /\ peerOpen' = [peerOpen EXCEPT ![c] = FALSE]
    /\ Edge(c, {"RDHUP"})
    /\ UNCHANGED <<connVars, readBuf, conns, epoll, shutdown, loop, batch, pending, running,
                   sent, inFlight, sock, room, writer, history>>
-----------------------------------------------------------------------------
(* newSession: getConnDupFd duplicates the descriptor, to the lowest number *)
(* that is free.                                                            *)
DupFd(c) ==
    /\ file[c] = "none" /\ c \in plan.uses
    /\ LET free == {f \in Fds : \A d \in Conns : file[d] = "open" => fd[d] # f}
       IN  free # {} /\ fd' = [fd EXCEPT ![c] = CHOOSE f \in free : \A g \in free : f <= g]
    /\ file' = [file EXCEPT ![c] = "open"]
    /\ UNCHANGED <<isClose, onWriteReadyCh, readBuf, conns, epoll, ready, shutdown, loop,
                   batch, pending, running, peerVars, room, writer, history>>

(* setCallback takes the dispatcher's lock, which the dispatcher holds while *)
(* it handles a batch; adding to epoll reports what is ready already.        *)
SetCallback(c) ==
    /\ file[c] = "open" /\ c \notin epoll /\ ~isClose[c]
    /\ loop.pc \in {"wait", "run"}
    /\ epoll' = epoll \cup {c}
    /\ conns' = [conns EXCEPT ![fd[c]] = c]
    /\ ready' = [ready EXCEPT ![c] =
           (IF room[c] > 0 THEN {"OUT"} ELSE {})
           \cup (IF sock[c] # <<>> \/ ~peerOpen[c] THEN {"IN"} ELSE {})
           \cup (IF peerOpen[c] THEN {} ELSE {"RDHUP"})]
    /\ UNCHANGED <<connVars, readBuf, shutdown, loop, batch, pending, running,
                   peerVars, room, writer, history>>

(* Session.Close: the first caller posts the rest of the work. *)
SessionCloses(c) ==
    /\ shutdown' = [shutdown EXCEPT ![c] = TRUE]
    /\ pending' = IF shutdown[c] THEN pending
                  ELSE Append(pending, [do |-> "closeSession", conn |-> c])

(* Mutant: the caller closes the descriptor itself instead of posting. *)
CloseSessionAtOnce(c) ==
    /\ c \in epoll /\ ~shutdown[c]
    /\ shutdown' = [shutdown EXCEPT ![c] = TRUE]
    /\ epoll' = epoll \ {c} /\ ready' = [ready EXCEPT ![c] = {}]
    /\ conns' = [conns EXCEPT ![fd[c]] = None]
    /\ file' = [file EXCEPT ![c] = "closed"]
    /\ UNCHANGED <<fd, isClose, onWriteReadyCh, readBuf, loop, batch, pending, running,
                   peerVars, room, writer, history>>

CloseSession(c) ==
    /\ c \in epoll /\ ~shutdown[c]
    /\ SessionCloses(c)
    /\ UNCHANGED <<connVars, readBuf, conns, epoll, ready, loop, batch, running,
                   peerVars, room, writer, history>>
-----------------------------------------------------------------------------
(* runLambda takes the functions posted so far; those that they post run in *)
(* the next round.                                                          *)
RunLambda == /\ running' = pending /\ pending' = <<>>
             /\ loop' = [pc |-> "run", cur |-> None, events |-> {}]

(* epollWait returns the events of all connections that have any, or none   *)
(* after its timeout; without events the loop runs the posted functions.    *)
EpollWait ==
    /\ loop.pc = "wait" /\ \E c \in Conns : ready[c] # {}
    /\ batch' = ready
    /\ ready' = [c \in Conns |-> {}]
    /\ loop' = [loop EXCEPT !.pc = "batch"]
    /\ UNCHANGED <<connVars, readBuf, conns, epoll, shutdown, pending, running,
                   peerVars, room, writer, history>>

WaitTimeout ==
    /\ loop.pc = "wait" /\ \A c \in Conns : ready[c] = {}
    /\ pending # <<>>   \* otherwise the loop waits again
    /\ RunLambda
    /\ UNCHANGED <<connVars, readBuf, conns, epoll, ready, shutdown, batch,
                   peerVars, room, writer, history>>

BatchDone ==
    /\ loop.pc = "batch" /\ \A c \in Conns : batch[c] = {}
    /\ RunLambda
    /\ UNCHANGED <<connVars, readBuf, conns, epoll, ready, shutdown, batch,
                   peerVars, room, writer, history>>

(* Mutant: goroutines that wait for room are not woken up. *)
DeferredCloseSilent(c, posted) ==
    /\ isClose' = [isClose EXCEPT ![c] = TRUE]
    /\ pending' = IF isClose[c] THEN posted
                  ELSE Append(posted, [do |-> "closeFile", conn |-> c])
    /\ UNCHANGED onWriteReadyCh

(* deferredClose; more is posted only by the first call. *)
DeferredClose(c, posted) ==
    /\ isClose' = [isClose EXCEPT ![c] = TRUE]
    /\ onWriteReadyCh' = [onWriteReadyCh EXCEPT ![c] = "closed"]
    /\ pending' = IF isClose[c] THEN posted
                  ELSE Append(posted, [do |-> "closeFile", conn |-> c])

(* onRemoteClose: exitErr closes the session, deferredClose the connection. *)
OnRemoteClose(c) ==
    /\ shutdown' = [shutdown EXCEPT ![c] = TRUE]
    /\ DeferredClose(c, IF shutdown[c] THEN pending
                        ELSE Append(pending, [do |-> "closeSession", conn |-> c]))

(* onWriteReady leaves a token for a goroutine that waits to write. *)
OnWriteReady(c, events) ==
    onWriteReadyCh' = [onWriteReadyCh EXCEPT ![c] =
        IF "OUT" \in events /\ ~isClose[c] THEN "token" ELSE @]

(* handleEvent of the next connection of the batch. *)
HandleEvent(c) ==
    /\ loop.pc = "batch" /\ batch[c] # {}
    /\ batch' = [batch EXCEPT ![c] = {}]
    /\ IF "RDHUP" \in batch[c]
       THEN OnRemoteClose(c) /\ UNCHANGED loop
       ELSE /\ UNCHANGED <<isClose, shutdown, pending>>
            /\ IF "IN" \in batch[c]
               THEN /\ loop' = [pc |-> "read", cur |-> c, events |-> batch[c]]
                    /\ UNCHANGED onWriteReadyCh
               ELSE OnWriteReady(c, batch[c]) /\ UNCHANGED loop
    /\ UNCHANGED <<fd, file, readBuf, conns, epoll, ready, running, peerVars, room,
                   writer, history>>
-----------------------------------------------------------------------------
(* handleEvents on a sequence of units: the events that are complete, how   *)
(* many units they take, and whether it met a header that is not one.       *)
Parse(c, data) ==
    LET from[n \in 0..Len(data)] ==
            IF Len(data) - n < HeaderSize
            THEN [n |-> n, events |-> <<>>, failed |-> FALSE]
            ELSE LET hdr == data[n + 1]
                     kind == sent[c][hdr.event]
                 IN  IF hdr.at # 1 \/ kind = "invalid"
                     THEN [n |-> n + HeaderSize, events |-> <<>>, failed |-> TRUE]
                     ELSE IF Len(data) - n < Length(kind)
                          THEN [n |-> n, events |-> <<>>, failed |-> FALSE]
                          ELSE LET rest == from[n + Length(kind)]
                               IN  [rest EXCEPT !.events = <<hdr.event>> \o @]
    IN  from[0]

(* Mutant: only a buffer that was consumed whole moves its start. *)
CommitReadWhole(buf, n) ==
    IF n < Len(buf.data) THEN buf ELSE [buf EXCEPT !.data = <<>>, !.start = 0]

(* commitRead: a buffer that was consumed starts again, a large one shrinks. *)
CommitRead(buf, n) ==
    LET data == SubSeq(buf.data, n + 1, Len(buf.data))
    IN  IF data # <<>> THEN [buf EXCEPT !.data = data, !.start = @ + n]
        ELSE [data |-> <<>>, start |-> 0,
              len |-> IF buf.len > ResizeLen THEN buf.len \div 2 ELSE buf.len]

(* maybeExpandReadBuffer: a full buffer doubles and what is unread moves to *)
(* its front.                                                               *)
MaybeExpandReadBuffer(buf) ==
    IF buf.start + Len(buf.data) = buf.len
    THEN [buf EXCEPT !.start = 0, !.len = 2 * @] ELSE buf

(* Session.onEventData on the read buffer: a session that is closed ignores *)
(* the data, an event that is not valid closes it.                          *)
OnEventData(c, buf) ==
    LET result == Parse(c, buf.data)
    IN  IF shutdown[c]
        THEN /\ readBuf' = [readBuf EXCEPT ![c] = buf]
             /\ UNCHANGED <<handled, shutdown, pending>>
        ELSE /\ handled' = [handled EXCEPT ![c] = @ \o result.events]
             /\ readBuf' = [readBuf EXCEPT ![c] = CommitRead(buf, result.n)]
             /\ IF result.failed THEN SessionCloses(c)
                ELSE UNCHANGED <<shutdown, pending>>

(* Mutant: one read per event, as if epoll were level-triggered. *)
ReadOnce(c) ==
    LET buf == MaybeExpandReadBuffer(readBuf[c])
        free == buf.len - (buf.start + Len(buf.data))
        n == IF free < Len(sock[c]) THEN free ELSE Len(sock[c])
    IN  /\ loop.pc = "read" /\ loop.cur = c /\ sock[c] # <<>>
        /\ sock' = [sock EXCEPT ![c] = SubSeq(@, n + 1, Len(@))]
        /\ OnEventData(c, [buf EXCEPT !.data = @ \o SubSeq(sock[c], 1, n)])
        /\ OnWriteReady(c, loop.events)
        /\ loop' = [pc |-> "batch", cur |-> None, events |-> {}]
        /\ UNCHANGED <<fd, file, isClose, conns, epoll, ready, batch, running, sent,
                       inFlight, peerOpen, room, writer, plan, misdirected>>

(* One read of onReadReady's loop that returns data. *)
ReadSome(c) ==
    LET buf == MaybeExpandReadBuffer(readBuf[c])
        free == buf.len - (buf.start + Len(buf.data))
        n == IF free < Len(sock[c]) THEN free ELSE Len(sock[c])
        more == [buf EXCEPT !.data = @ \o SubSeq(sock[c], 1, n)]
    IN  /\ loop.pc = "read" /\ loop.cur = c /\ sock[c] # <<>>
        /\ sock' = [sock EXCEPT ![c] = SubSeq(@, n + 1, Len(@))]
        /\ IF Len(more.data) >= OnDataThreshold THEN OnEventData(c, more)
           ELSE /\ readBuf' = [readBuf EXCEPT ![c] = more]
                /\ UNCHANGED <<handled, shutdown, pending>>
        /\ UNCHANGED <<connVars, conns, epoll, ready, loop, batch, running, sent,
                       inFlight, peerOpen, room, writer, plan, misdirected>>

(* The last read of the loop: nothing to read, or the end of the stream. *)
ReadEnd(c) ==
    LET buf == MaybeExpandReadBuffer(readBuf[c])
    IN  /\ loop.pc = "read" /\ loop.cur = c /\ sock[c] = <<>>
        /\ loop' = [pc |-> "batch", cur |-> None, events |-> {}]
        /\ IF peerOpen[c]
           THEN OnEventData(c, buf) /\ OnWriteReady(c, loop.events) /\ UNCHANGED isClose
           ELSE /\ OnRemoteClose(c)
                /\ readBuf' = [readBuf EXCEPT ![c] = buf]
                /\ UNCHANGED handled
        /\ UNCHANGED <<fd, file, conns, epoll, ready, batch, running, peerVars, room,
                       writer, plan, misdirected>>

(* A read that fails, which it does when the peer's end was reset: the loop *)
(* returns, without an error and without handing on what it has read.       *)
ReadFails(c) ==
    /\ loop.pc = "read" /\ loop.cur = c /\ ~peerOpen[c]
    /\ loop' = [pc |-> "batch", cur |-> None, events |-> {}]
    /\ readBuf' = [readBuf EXCEPT ![c] = MaybeExpandReadBuffer(@)]
    /\ OnWriteReady(c, loop.events)
    /\ UNCHANGED <<fd, file, isClose, conns, epoll, ready, shutdown, batch, pending, running,
                   peerVars, room, writer, history>>
-----------------------------------------------------------------------------
(* The function of Session.Close: eventConn.close is deferredClose. *)
RunCloseSession(c) ==
    /\ loop.pc = "run" /\ running # <<>> /\ Head(running) = [do |-> "closeSession", conn |-> c]
    /\ DeferredClose(c, pending)
    /\ running' = Tail(running)
    /\ UNCHANGED <<fd, file, readBuf, conns, epoll, ready, shutdown, loop, batch,
                   peerVars, room, writer, history>>

(* The function of deferredClose; the kernel drops what was not read. *)
RunCloseFile(c) ==
    /\ loop.pc = "run" /\ running # <<>> /\ Head(running) = [do |-> "closeFile", conn |-> c]
    /\ epoll' = epoll \ {c}
    /\ ready' = [ready EXCEPT ![c] = {}]
    /\ conns' = [conns EXCEPT ![fd[c]] = None]
    /\ file' = [file EXCEPT ![c] = "closed"]
    /\ sock' = [sock EXCEPT ![c] = <<>>]
    /\ inFlight' = [inFlight EXCEPT ![c] = <<>>]
    /\ running' = Tail(running)
    /\ UNCHANGED <<fd, isClose, onWriteReadyCh, readBuf, shutdown, loop, batch, pending,
                   sent, peerOpen, room, writer, history>>

(* Mutant: the list that the functions posted to is emptied. *)
LambdasDoneDropsPosted ==
    /\ loop.pc = "run" /\ running = <<>>
    /\ pending' = <<>>
    /\ loop' = [loop EXCEPT !.pc = "wait"]
    /\ UNCHANGED <<connVars, readBuf, conns, epoll, ready, shutdown, batch,
                   running, peerVars, room, writer, history>>

LambdasDone ==
    /\ loop.pc = "run" /\ running = <<>>
    /\ loop' = [loop EXCEPT !.pc = "wait"]
    /\ UNCHANGED <<connVars, readBuf, conns, epoll, ready, shutdown, batch, pending,
                   running, peerVars, room, writer, history>>
-----------------------------------------------------------------------------
(* connEventHandler.write by one goroutine at a time: the test of isClose,  *)
(* the system call on the descriptor's number, and the wait for a token     *)
(* when the socket takes nothing.                                           *)
WriteStart(c) ==
    /\ c \in plan.writers \cap epoll /\ writer[c].pc = "idle"
    /\ writer' = [writer EXCEPT ![c] = [pc |-> IF isClose[c] THEN "done" ELSE "syscall",
                                        left |-> WriteLen]]
    /\ UNCHANGED <<connVars, readBuf, conns, epoll, ready, shutdown, loop, batch, pending,
                   running, peerVars, room, history>>

WriteCheck(c) ==
    /\ writer[c].pc = "check"
    /\ writer' = [writer EXCEPT ![c].pc =
           IF isClose[c] THEN "done" ELSE "syscall"]
    /\ UNCHANGED <<connVars, readBuf, conns, epoll, ready, shutdown, loop, batch, pending,
                   running, peerVars, room, history>>

(* An error of the system call closes the session (writeEventData). *)
WriteSyscall(c) ==
    LET Owner(d) == file[d] = "open" /\ fd[d] = fd[c]
        open == \E d \in Conns : Owner(d)
        target == CHOOSE d \in Conns : Owner(d)
        n == IF room[target] < writer[c].left THEN room[target] ELSE writer[c].left
    IN  /\ writer[c].pc = "syscall"
        /\ IF ~open \/ (open /\ ~peerOpen[target])
           THEN /\ writer' = [writer EXCEPT ![c].pc = "done"]
                /\ SessionCloses(c)
                /\ UNCHANGED <<room, misdirected>>
           ELSE /\ writer' = [writer EXCEPT ![c] =
                       IF n = 0 THEN [@ EXCEPT !.pc = "wait"]
                       ELSE [pc |-> IF n < @.left THEN "check" ELSE "done",
                             left |-> @.left - n]]
                /\ room' = [room EXCEPT ![target] = @ - n]
                /\ misdirected' = (misdirected \/ (n > 0 /\ target # c))
                /\ UNCHANGED <<shutdown, pending>>
        /\ UNCHANGED <<connVars, readBuf, conns, epoll, ready, loop, batch, running,
                       peerVars, plan, handled>>

WriteResume(c) ==
    /\ writer[c].pc = "wait" /\ onWriteReadyCh[c] # "empty"
    /\ onWriteReadyCh' = [onWriteReadyCh EXCEPT ![c] = IF @ = "token" THEN "empty" ELSE @]
    /\ writer' = [writer EXCEPT ![c].pc = "check"]
    /\ UNCHANGED <<fd, file, isClose, readBuf, conns, epoll, ready, shutdown, loop, batch,
                   pending, running, peerVars, room, history>>
-----------------------------------------------------------------------------
Peer(c) == \/ \E kind \in Kinds : PeerSend(c, kind)
           \/ PeerWrite(c) \/ PeerRead(c) \/ PeerClose(c)

Loop(c) == \/ HandleEvent(c) \/ ReadSome(c) \/ ReadEnd(c) \/ ReadFails(c)
           \/ RunCloseSession(c) \/ RunCloseFile(c)

Write(c) == WriteCheck(c) \/ WriteSyscall(c) \/ WriteResume(c)

Next == \/ EpollWait \/ WaitTimeout \/ BatchDone \/ LambdasDone
        \/ \E c \in Conns : \/ Peer(c) \/ Loop(c) \/ Write(c)
                            \/ DupFd(c) \/ SetCallback(c) \/ CloseSession(c) \/ WriteStart(c)

(* The dispatcher's goroutine and the writers keep running, and the peer,   *)
(* which runs the same loop, reads what it is sent.                         *)
Fairness == /\ WF_vars(EpollWait \/ WaitTimeout \/ BatchDone \/ LambdasDone
                       \/ \E c \in Conns : Loop(c))
            /\ \A c \in Conns : WF_vars(Write(c)) /\ WF_vars(PeerRead(c))

Spec == Init /\ [][Next]_vars /\ Fairness
-----------------------------------------------------------------------------
(* "we could ensure that when the onReadReady() was called, the connection's *)
(* fd must be open" (event_dispatcher_linux.go:171): a connection with an    *)
(* event in the batch or in the hands of the loop has its descriptor open    *)
(* and is the one the dispatcher's table has under that number, whoever      *)
(* closes sessions meanwhile.                                                *)
EventsMeetOpenFiles ==
    \A c \in Conns :
        batch[c] # {} \/ loop.cur = c => file[c] = "open" /\ conns[fd[c]] = c

(* A frame goes to the peer of its own session.  It does not when the        *)
(* descriptor is closed, and its number given to a new connection, between   *)
(* the test of isClose and the system call of write.                         *)
WritesMeetOwnPeer == ~misdirected

(* However the peer's writes are cut into reads, and however the read buffer *)
(* grows, is compacted and shrinks, the handlers see the events the peer     *)
(* sent, in that order and each of them once, up to the first that is not    *)
(* valid; and while the session is open, what is buffered continues exactly  *)
(* where the last handled event ended.                                       *)
EventsInOrder ==
    \A c \in Conns :
        /\ handled[c] = [i \in 1..Len(handled[c]) |-> i]
        /\ \A i \in 1..Len(handled[c]) : sent[c][i] # "invalid"
        /\ ~shutdown[c] /\ readBuf[c].data # <<>> =>
               Head(readBuf[c].data) = [event |-> Len(handled[c]) + 1, at |-> 1]

(* onReadReady reads until the socket is empty because epoll reports an edge *)
(* once: when the dispatcher waits and no edge of an open connection is      *)
(* pending, nothing is left on its socket and no complete event in its read  *)
(* buffer.                                                                   *)
NoEdgeLost ==
    \A c \in epoll :
        loop.pc = "wait" /\ ready[c] = {} /\ ~shutdown[c]
            => sock[c] = <<>> /\ peerOpen[c] /\ Len(Parse(c, readBuf[c].data).events) = 0

(* A goroutine that waits for room in the socket gets on: the peer reads, or *)
(* the connection is closed and deferredClose wakes the goroutine up.        *)
BlockedWriteReturns == \A c \in Conns : writer[c].pc = "wait" ~> writer[c].pc # "wait"

(* A session that is closed, by its user, by the peer, by a failed write or  *)
(* by an event that is not valid, gives its descriptor back: no posted       *)
(* function is lost between pendingLambda and runningLambda.                 *)
ClosedMeansReleased == \A c \in Conns : shutdown[c] ~> file[c] = "closed"
=============================================================================
