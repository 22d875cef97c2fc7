------------------------------ MODULE Session -------------------------------
(***************************************************************************)
(* The streams of one session, at both of its ends.  The client's          *)
(* goroutines take streams from the stream pool of a SessionManager, send  *)
(* requests, read answers and put the streams back.  The server finds or   *)
(* creates a stream for what it receives, answers, and closes streams.     *)
(*                                                                         *)
(* Two ways lead to the server: the IO queue in shared memory, of which a  *)
(* polling event on the socket tells, and, once a stream could not get     *)
(* shared memory, the socket itself (the fallback).  The way back is one   *)
(* queue.  A stream is used without callbacks; what a single stream does   *)
(* inside is in Stream, how the flag of the IO queue is kept in WakeUp:    *)
(* here an operation of either is one step.                                *)
(***************************************************************************)
EXTENDS Integers, Sequences, FiniteSets

CONSTANTS Users,    \* goroutines of the client
          MaxIds,   \* bound: streams that the client opens
          Capacity, \* streamPool.capacity, MaxStreamNum
          QueueCap, \* capacity of the IO queue to the server
          Plans     \* bounds: how often what may happen happens, see Bounds

(* gets: calls of GetStream; sends: requests; falls: flushes without shared *)
(* memory; closes: streams that the server's application closes of its own; *)
(* shuts: Close of the client's session; deadlines: users that give up.     *)
Bounds == {"gets", "sends", "falls", "closes", "shuts", "deadlines"}

ASSUME SessionAssumption ==
    /\ MaxIds \in Nat /\ Capacity \in Nat \ {0} /\ QueueCap \in Nat \ {0}
    /\ Plans \subseteq [Bounds -> Nat]

Ids == 1..MaxIds
NoStream == 0

VARIABLES left,       \* what is left of the plan
          state,      \* client: Stream.state of each stream
          table,      \* client: ids in Session.streams
          shutdown,   \* client: progress of Session.Close
          unhealthy,  \* client: the circuit breaker is open
          fallback,   \* client: streams with inFallbackState
          unread,     \* client: answers in pendingData and recvBuf
          nextId,     \* client: nextStreamID
          pool,       \* streamPool: the ring of streams, head and tail
          pc, hand,   \* user: next step, stream it works with
          owed,       \* user: answers it waits for
          use,        \* user: number of its call of GetStream
          uses,       \* calls of GetStream that returned a stream
          queue, working, \* IO queue to the server and its working flag
          sock,       \* events on the socket to the server
          sent,       \* requests sent
          draining,   \* server: the dispatcher is in handlePolling
          srv,        \* server: state of each stream
          streams,    \* server: ids in Session.streams
          inbox,      \* server: requests its application has not read
          back,       \* queue to the client
          created,    \* history: streams the server created for an id
          order,      \* history: requests of an id, as the server handled them
          overtaken,  \* history: streams that used the socket before an event for the queue
          abandoned,  \* history: streams put back with an answer on its way
          misread     \* history: streams that gave an answer of an earlier use

clientVars == <<state, table, shutdown, unhealthy, fallback, unread, nextId, pool>>
userVars == <<pc, hand, owed, use, uses>>
wireVars == <<queue, working, sock, sent>>
serverVars == <<draining, srv, streams, inbox, back, created, order>>
historyVars == <<overtaken, abandoned, misread>>
vars == <<left, clientVars, userVars, wireVars, serverVars, historyVars>>

Init == /\ left \in Plans
        /\ state = [i \in Ids |-> "none"] /\ table = {} /\ shutdown = "open"
        /\ unhealthy = FALSE /\ fallback = {} /\ unread = [i \in Ids |-> <<>>] /\ nextId = 0
        /\ pool = [ring |-> [k \in 0..Capacity-1 |-> NoStream], head |-> 0, tail |-> 0]
        /\ pc = [u \in Users |-> "idle"] /\ hand = [u \in Users |-> NoStream]
        /\ owed = [u \in Users |-> 0] /\ use = [u \in Users |-> 0] /\ uses = 0
        /\ queue = <<>> /\ working = FALSE /\ sock = <<>> /\ sent = 0
        /\ draining = FALSE /\ srv = [i \in Ids |-> "none"] /\ streams = {}
        /\ inbox = [i \in Ids |-> <<>>] /\ back = <<>>
        /\ created = [i \in Ids |-> 0] /\ order = [i \in Ids |-> <<>>]
        /\ overtaken = {} /\ abandoned = {} /\ misread = {}

May(b) == left[b] > 0 /\ left' = [left EXCEPT ![b] = @ - 1]
Goto(u, from, to) == pc[u] = from /\ pc' = [pc EXCEPT ![u] = to]
Message(i, st, n, w) == [id |-> i, st |-> st, n |-> n, use |-> w]
Polling == Message(NoStream, "polling", 0, 0)
-----------------------------------------------------------------------------
(* The stream pool: a ring of Capacity entries, filled from head to tail.   *)
Empty == pool.tail = pool.head
Oldest == pool.ring[pool.head % Capacity]
Pooled == {pool.ring[k % Capacity] : k \in pool.head..pool.tail-1}

pop == pool' = [pool EXCEPT !.head = @ + 1]

RoomForOneMore == pool.tail - pool.head <= Capacity
Room == pool.tail - pool.head < Capacity

push(i) == pool' = [pool EXCEPT !.ring[pool.tail % Capacity] = i, !.tail = @ + 1]
-----------------------------------------------------------------------------
(* GetStream: a pooled stream that is open, or else a new one. *)
IsClosed == shutdown # "open"

(* The user of u has a stream, and has asked for nothing with it. *)
Obtained(u, i) == /\ hand' = [hand EXCEPT ![u] = i] /\ uses' = uses + 1
                  /\ use' = [use EXCEPT ![u] = uses + 1] /\ owed' = [owed EXCEPT ![u] = 0]

GetStream(u) == /\ May("gets")
                /\ Goto(u, "idle", IF unhealthy THEN "idle" ELSE "pop")
                /\ UNCHANGED <<clientVars, hand, owed, use, uses, wireVars, serverVars,
                               historyVars>>

(* A stream that is not open any more is passed over, and not closed. *)
PopStream(u) == /\ ~Empty /\ pop
                /\ IF ~IsClosed /\ state[Oldest] = "opened"
                   THEN Goto(u, "pop", "use") /\ Obtained(u, Oldest)
                   ELSE Goto(u, "pop", "pop") /\ UNCHANGED <<hand, owed, use, uses>>
                /\ UNCHANGED <<left, state, table, shutdown, unhealthy, fallback, unread,
                               nextId, wireVars, serverVars, historyVars>>

OpenStream(u) == /\ Empty
                 /\ Goto(u, "pop", IF IsClosed \/ unhealthy THEN "idle" ELSE "insert")
                 /\ UNCHANGED <<left, clientVars, hand, owed, use, uses, wireVars, serverVars,
                                historyVars>>

(* The new stream is stored in the table; once the posted part of Close has *)
(* taken the table away, the store panics.                                  *)
Stored(i) == /\ nextId' = i
             /\ state' = [state EXCEPT ![i] = "opened"]
             /\ table' = table \cup {i}

Insert(u) == /\ nextId < MaxIds
             /\ IF shutdown = "closed"
                THEN /\ Goto(u, "insert", "panic")
                     /\ UNCHANGED <<state, table, nextId, hand, owed, use, uses>>
                ELSE /\ Goto(u, "insert", "use")
                     /\ Stored(nextId + 1) /\ Obtained(u, nextId + 1)
             /\ UNCHANGED <<left, shutdown, unhealthy, fallback, unread, pool, wireVars,
                            serverVars, historyVars>>
-----------------------------------------------------------------------------
(* Flush: an element of the IO queue, or, from the first flush without      *)
(* shared memory on, an event on the socket; a stream that is not open      *)
(* sends nothing, and nothing is sent while the queue is full.              *)
Request(u) == Message(hand[u], "opened", sent + 1, use[u])
Asked(u) == /\ sent' = sent + 1 /\ owed' = [owed EXCEPT ![u] = @ + 1]
            /\ UNCHANGED <<hand, use, uses>>

FlushAnyStream(u) == /\ Goto(u, "use", "wake")
                     /\ May("sends") /\ state[hand[u]] = "opened" /\ Len(queue) < QueueCap
                     /\ queue' = Append(queue, Request(u)) /\ Asked(u)
                     /\ UNCHANGED <<clientVars, working, sock, serverVars, historyVars>>

Flush(u) == /\ Goto(u, "use", "wake")
            /\ May("sends") /\ hand[u] \notin fallback /\ state[hand[u]] = "opened"
            /\ Len(queue) < QueueCap
            /\ queue' = Append(queue, Request(u)) /\ Asked(u)
            /\ UNCHANGED <<clientVars, working, sock, serverVars, historyVars>>

(* Another goroutine has set the flag and not yet written its event: what   *)
(* is in the queue then arrives after what is written to the socket now.    *)
EventUnsent(u) == \E v \in Users \ {u} : pc[v] = "poll"

WriteFallback(u) ==
    /\ Goto(u, "use", "use") /\ state[hand[u]] = "opened"
    /\ sock' = Append(sock, Request(u)) /\ Asked(u)
    /\ fallback' = fallback \cup {hand[u]} /\ unhealthy' = TRUE
    /\ overtaken' = overtaken \cup (IF EventUnsent(u) THEN {hand[u]} ELSE {})
    /\ UNCHANGED <<state, table, shutdown, unread, nextId, pool, queue, working,
                   serverVars, abandoned, misread>>

FlushFallback(u) == /\ pc[u] = "use"
                    /\ May(IF hand[u] \in fallback THEN "sends" ELSE "falls")
                    /\ WriteFallback(u)

(* The circuit breaker closes again after 30 seconds. *)
Recover == /\ unhealthy /\ unhealthy' = FALSE
           /\ UNCHANGED <<left, state, table, shutdown, fallback, unread, nextId, pool,
                          userVars, wireVars, serverVars, historyVars>>

(* wakeUpPeer: the first to set the flag writes the polling event.  A user  *)
(* without a stream was closing one.                                        *)
After(u) == IF hand[u] = NoStream THEN "idle" ELSE "use"

MarkWorking(u) == /\ Goto(u, "wake", IF working THEN After(u) ELSE "poll")
                  /\ working' = TRUE
                  /\ UNCHANGED <<left, clientVars, hand, owed, use, uses, queue, sock, sent,
                                 serverVars, historyVars>>

WritePolling(u) == /\ Goto(u, "poll", After(u))
                   /\ sock' = Append(sock, Polling)
                   /\ UNCHANGED <<left, clientVars, hand, owed, use, uses, queue, working, sent,
                                  serverVars, historyVars>>

(* A read of an answer that is there. *)
ReadAnswer(u) == LET i == hand[u] IN
    /\ pc[u] = "use" /\ unread[i] # <<>>
    /\ unread' = [unread EXCEPT ![i] = Tail(@)]
    /\ misread' = misread \cup (IF Head(unread[i]) # use[u] THEN {i} ELSE {})
    /\ owed' = [owed EXCEPT ![u] = @ - 1]
    /\ UNCHANGED <<left, state, table, shutdown, unhealthy, fallback, nextId, pool, pc, hand,
                   use, uses, wireVars, serverVars, overtaken, abandoned>>
-----------------------------------------------------------------------------
(* Stream.close: out of the table, the unread answers released, and the     *)
(* peer told, unless it closed first or the session is closed: with an      *)
(* element of the IO queue, also when the stream is in fallback, or with an *)
(* event if the queue is full.                                              *)
Tells(i) == state[i] = "opened" /\ ~IsClosed

TellByQueueOnly(u, i) ==
    LET byQueue == Tells(i) /\ Len(queue) < QueueCap
    IN  /\ queue' = IF byQueue THEN Append(queue, Message(i, "closed", 0, 0)) ELSE queue
        /\ pc' = [pc EXCEPT ![u] = IF byQueue THEN "wake" ELSE "idle"]
        /\ UNCHANGED <<sock, overtaken>>

Tell(u, i) ==
    LET told == Message(i, "closed", 0, 0)
        byQueue == Tells(i) /\ Len(queue) < QueueCap
        byEvent == Tells(i) /\ Len(queue) >= QueueCap
    IN  /\ queue' = IF byQueue THEN Append(queue, told) ELSE queue
        /\ sock' = IF byEvent THEN Append(sock, told) ELSE sock
        /\ overtaken' = overtaken \cup (IF byEvent /\ EventUnsent(u) THEN {i} ELSE {})
        /\ pc' = [pc EXCEPT ![u] = IF byQueue THEN "wake" ELSE "idle"]

close(u, i) == /\ state' = [state EXCEPT ![i] = "closed"]
               /\ table' = table \ {i} /\ unread' = [unread EXCEPT ![i] = <<>>]
               /\ hand' = [hand EXCEPT ![u] = NoStream]
               /\ Tell(u, i)

(* A user gives up the stream when it has its answers, when the stream has  *)
(* ended, or when a deadline has passed.                                    *)
Finished(u) == \/ owed[u] <= 0 /\ UNCHANGED left
               \/ owed[u] > 0 /\ state[hand[u]] # "opened" /\ UNCHANGED left
               \/ owed[u] > 0 /\ state[hand[u]] = "opened" /\ May("deadlines")

(* PutBack: a stream that reset accepts goes to the pool if there is room,  *)
(* any other is closed.                                                     *)
resetsUnread(i) == i \notin fallback /\ state[i] = "opened"
resets(i) == i \notin fallback /\ state[i] = "opened" /\ unread[i] = <<>>

PutBack(u) == LET i == hand[u] IN
    /\ pc[u] = "use" /\ Finished(u)
    /\ IF resets(i)
       THEN /\ Goto(u, "use", "push")
            /\ abandoned' = abandoned \cup (IF owed[u] > Len(unread[i]) THEN {i} ELSE {})
            /\ UNCHANGED <<state, table, unread, hand, queue, sock, overtaken>>
       ELSE close(u, i) /\ UNCHANGED abandoned
    /\ UNCHANGED <<shutdown, unhealthy, fallback, nextId, pool, owed, use, uses, working, sent,
                   serverVars, misread>>

PushOrDrop(u) == /\ Goto(u, "push", "idle")
                 /\ hand' = [hand EXCEPT ![u] = NoStream]
                 /\ IF Room THEN push(hand[u]) ELSE UNCHANGED pool
                 /\ UNCHANGED <<left, state, table, shutdown, unhealthy, fallback, unread,
                                nextId, owed, use, uses, wireVars, serverVars, historyVars>>

PushOrClose(u) == /\ pc[u] = "push"
                  /\ IF Room
                     THEN /\ push(hand[u]) /\ Goto(u, "push", "idle")
                          /\ hand' = [hand EXCEPT ![u] = NoStream]
                          /\ UNCHANGED <<state, table, unread, queue, sock, overtaken>>
                     ELSE close(u, hand[u]) /\ UNCHANGED pool
                  /\ UNCHANGED <<left, shutdown, unhealthy, fallback, nextId, owed, use, uses,
                                 working, sent, serverVars, abandoned, misread>>

(* Session.Close: the mark, and the posted function, in which the           *)
(* dispatcher takes the table and closes what it held.                      *)
Close == /\ May("shuts") /\ shutdown = "open"
         /\ shutdown' = "shutdown"
         /\ UNCHANGED <<state, table, unhealthy, fallback, unread, nextId, pool, userVars,
                        wireVars, serverVars, historyVars>>

ClosePosted == /\ shutdown = "shutdown" /\ shutdown' = "closed"
               /\ state' = [i \in Ids |-> IF i \in table THEN "closed" ELSE state[i]]
               /\ unread' = [i \in Ids |-> IF i \in table THEN <<>> ELSE unread[i]]
               /\ table' = {}
               /\ UNCHANGED <<left, unhealthy, fallback, nextId, pool, userVars, wireVars,
                              serverVars, historyVars>>

(* The client's dispatcher, on an element of the server's queue; what is    *)
(* for a stream that is gone is dropped.                                    *)
ClientHandles ==
    /\ back # <<>> /\ shutdown # "closed"
    /\ back' = Tail(back)
    /\ LET m == Head(back) IN
       /\ state' = [state EXCEPT ![m.id] =
                      IF m.st = "closed" /\ m.id \in table /\ @ = "opened" THEN "halfClosed"
                                                                           ELSE @]
       /\ unread' = [unread EXCEPT ![m.id] =
                      IF m.st = "opened" /\ m.id \in table THEN Append(@, m.use) ELSE @]
    /\ UNCHANGED <<left, table, shutdown, unhealthy, fallback, nextId, pool, userVars, wireVars,
                   draining, srv, streams, inbox, created, order, historyVars>>
-----------------------------------------------------------------------------
(* The server's dispatcher: getStream, which creates a stream for data that *)
(* has none, and handleStreamMessage.                                       *)
getStream(m) == m.id \in streams \/ m.st = "opened"

Handle(m) ==
    /\ IF m.st = "opened" /\ m.id \notin streams
       THEN /\ streams' = streams \cup {m.id}
            /\ srv' = [srv EXCEPT ![m.id] = "opened"]
            /\ created' = [created EXCEPT ![m.id] = @ + 1]
       ELSE /\ srv' = [srv EXCEPT ![m.id] =
                         IF getStream(m) /\ m.st = "closed" /\ @ = "opened" THEN "halfClosed"
                                                                             ELSE @]
            /\ UNCHANGED <<streams, created>>
    /\ inbox' = [inbox EXCEPT ![m.id] = IF m.st = "opened" THEN Append(@, m) ELSE @]
    /\ order' = [order EXCEPT ![m.id] = IF m.st = "opened" THEN Append(@, m.n) ELSE @]

(* One event of the socket; a polling event starts a round on the queue. *)
HandleEvent == /\ ~draining /\ sock # <<>>
               /\ sock' = Tail(sock)
               /\ IF Head(sock) = Polling
                  THEN draining' = TRUE /\ UNCHANGED <<srv, streams, inbox, created, order>>
                  ELSE Handle(Head(sock)) /\ UNCHANGED draining
               /\ UNCHANGED <<left, clientVars, userVars, queue, working, sent, back,
                              historyVars>>

handlePolling == /\ draining
                 /\ IF queue # <<>>
                    THEN /\ queue' = Tail(queue) /\ Handle(Head(queue))
                         /\ UNCHANGED <<working, draining>>
                    ELSE /\ working' = FALSE /\ draining' = FALSE
                         /\ UNCHANGED <<queue, srv, streams, inbox, created, order>>
                 /\ UNCHANGED <<left, clientVars, userVars, sock, sent, back, historyVars>>

(* The server's application answers a request, if the stream is still open, *)
(* and closes streams: those the client has closed, others of its own.      *)
Answer(i) == /\ i \in streams /\ inbox[i] # <<>>
             /\ inbox' = [inbox EXCEPT ![i] = Tail(@)]
             /\ back' = IF srv[i] = "opened"
                        THEN Append(back, Message(i, "opened", 0, Head(inbox[i]).use))
                        ELSE back
             /\ UNCHANGED <<left, clientVars, userVars, wireVars, draining, srv, streams,
                            created, order, historyVars>>

ServerCloses(i) == /\ i \in streams
                   /\ IF srv[i] = "opened" THEN May("closes") ELSE UNCHANGED left
                   /\ srv' = [srv EXCEPT ![i] = "closed"] /\ streams' = streams \ {i}
                   /\ inbox' = [inbox EXCEPT ![i] = <<>>]
                   /\ back' = IF srv[i] = "opened"
                              THEN Append(back, Message(i, "closed", 0, 0)) ELSE back
                   /\ UNCHANGED <<clientVars, userVars, wireVars, draining, created, order,
                                  historyVars>>
-----------------------------------------------------------------------------
UserStep(u) == \/ GetStream(u) \/ PopStream(u) \/ OpenStream(u) \/ Insert(u)
               \/ Flush(u) \/ FlushFallback(u) \/ ReadAnswer(u)
               \/ PutBack(u) \/ PushOrClose(u)

WakeUp(u) == MarkWorking(u) \/ WritePolling(u)

Dispatch == HandleEvent \/ handlePolling

Next == \/ \E u \in Users : UserStep(u) \/ WakeUp(u)
        \/ Recover \/ Close \/ ClosePosted \/ ClientHandles \/ Dispatch
        \/ \E i \in Ids : Answer(i) \/ ServerCloses(i)

Spec == Init /\ [][Next]_vars

(* A goroutine in wakeUpPeer is not blocked by anyone, and the server's     *)
(* dispatcher runs as long as its process does.  Nothing is assumed of the  *)
(* applications.                                                            *)
FairSpec == /\ Spec /\ WF_vars(Dispatch)
            /\ \A u \in Users : WF_vars(WakeUp(u))
-----------------------------------------------------------------------------
(* Where a user is between two steps. *)
Steps == {"idle", "pop", "insert", "use", "wake", "poll", "push", "panic"}

(* The type invariant of the client: its streams, table, pool and users. *)
TypeOK ==
    /\ state \in [Ids -> {"none", "opened", "halfClosed", "closed"}]
    /\ nextId \in 0..MaxIds /\ table \subseteq 1..nextId
    /\ shutdown \in {"open", "shutdown", "closed"}
    /\ pool \in [ring : [0..Capacity-1 -> Ids \cup {NoStream}], head : Nat, tail : Nat]
    /\ hand \in [Users -> Ids \cup {NoStream}] /\ pc \in [Users -> Steps]

(* The pool hands a stream to one user at a time: no stream is with two     *)
(* users, or with a user and in the pool, or twice in the pool, however     *)
(* GetStream and PutBack of several goroutines interleave.                  *)
ExclusiveUse ==
    /\ \A u, v \in Users : u # v /\ hand[u] # NoStream => hand[u] # hand[v]
    /\ \A u \in Users : hand[u] \notin Pooled
    /\ Cardinality(Pooled) = pool.tail - pool.head

(* An open stream is never lost: as long as Stream.IsOpen, the stream is in *)
(* the session's table, and with a user, in the pool, or in the hands of    *)
(* Session.Close, so that somebody gives its shared memory back; and after  *)
(* Close has taken the table no stream is open, also when an OpenStream had *)
(* passed IsClosed before.                                                  *)
OpenIsReachable ==
    \A i \in Ids : state[i] = "opened" =>
        /\ i \in table /\ shutdown # "closed"
        /\ IsClosed \/ i \in Pooled \/ \E u \in Users : hand[u] = i

(* A user reads answers to its own requests only: reset keeps a stream with *)
(* unread answers out of the pool.  It cannot see an answer that is still   *)
(* on its way, so the streams put back before their answers came are        *)
(* excepted.                                                                *)
OwnAnswers == misread \subseteq abandoned

(* The server handles the requests of a stream in the order in which they   *)
(* were flushed, also when the stream changes from the IO queue to the      *)
(* socket, unless that happens while the polling event of the queue is set  *)
(* and not written.                                                         *)
InOrder == \A i \in Ids \ overtaken : \A k \in 1..Len(order[i])-1 : order[i][k] < order[i][k+1]

(* The close of a stream at the client reaches the server, whose stream is  *)
(* then never open again, if the stream has never left the IO queue and its *)
(* id was not taken twice.                                                  *)
CloseReachesPeer ==
    \A i \in Ids : state[i] = "closed" ~>
        [](\/ srv[i] # "opened" \/ IsClosed \/ created[i] > 1
           \/ i \in fallback \cup overtaken)

(* The same of every stream: that the fallback keeps the order of what a    *)
(* stream sends.                                                            *)
EveryCloseReachesPeer ==
    \A i \in Ids : state[i] = "closed" ~>
        [](srv[i] # "opened" \/ IsClosed \/ created[i] > 1 \/ i \in overtaken)
=============================================================================
