----------------------------- MODULE NetListener ----------------------------
(***************************************************************************)
(* The net.Listener that Listen returns, for applications that know        *)
(* net.Conn only.  A goroutine per session takes the session's new streams *)
(* from acceptCh, wraps each of them and puts it on the backlog, from      *)
(* which Accept takes it.  A WaitGroup per session counts the references   *)
(* of the listener and of the wrappers; a second goroutine waits for it    *)
(* and closes the session.                                                 *)
(*                                                                         *)
(* A step under the mutex mu is one action.  What the session does with    *)
(* the data of its streams is in Session and Stream.                       *)
(***************************************************************************)
EXTENDS Integers, Sequences, FiniteSets

CONSTANTS Sessions,   \* connections that clients establish
          Streams,    \* streams that clients open
          Of,         \* the session of each stream
          Closers,    \* goroutines that call Close of the listener, once each
          AcceptCap,  \* capacity of Session.acceptCh
          Backlog,    \* capacity of the backlog
          MaxLost,    \* bound: sessions that their peer closes
          NoOne       \* no stream

ASSUME NetListenerAssumption ==
    /\ Of \in [Streams -> Sessions] /\ IsFiniteSet(Streams) /\ NoOne \notin Streams
    /\ AcceptCap \in Nat \ {0} /\ Backlog \in Nat \ {0} /\ MaxLost \in Nat

VARIABLES closed,    \* listener.closed
          closeCh,   \* closeCh is closed
          table,     \* sessions in listener.sessions
          closer,    \* progress of each call of Close
          pc,        \* goroutine of a session: its next step
          held,      \* goroutine of a session: the stream that it has wrapped
          refs,      \* the WaitGroup of a session
          waiter,    \* goroutine that waits for the WaitGroup
          shutdown,  \* sessions that are closed
          seen,      \* streams that the dispatcher has created
          acceptCh,  \* Session.acceptCh
          blocked,   \* stream with which the dispatcher waits in getStream
          backlog,   \* listener.backlog
          conns,     \* streams that Accept has returned and nobody has closed
          wrapped,   \* streams whose wrapper holds a reference
          late,      \* history: streams wrapped after the count was zero
          byCount,   \* history: sessions closed for want of references
          lost       \* sessions closed by their peer

listenerVars == <<closed, closeCh, closer>>
sessionVars == <<shutdown, seen, acceptCh, blocked, lost>>
connVars == <<backlog, conns>>
vars == <<listenerVars, table, pc, held, refs, waiter, wrapped, late, byCount, sessionVars,
          connVars>>

Init == /\ closed = FALSE /\ closeCh = FALSE /\ table = {}
        /\ closer = [c \in Closers |-> "idle"]
        /\ pc = [s \in Sessions |-> "none"] /\ held = [s \in Sessions |-> NoOne]
        /\ refs = [s \in Sessions |-> 0] /\ waiter = [s \in Sessions |-> "none"]
        /\ shutdown = {} /\ seen = {} /\ acceptCh = [s \in Sessions |-> <<>>] /\ blocked = NoOne
        /\ backlog = <<>> /\ conns = {} /\ wrapped = {} /\ late = {} /\ byCount = {} /\ lost = 0

Goto(s, from, to) == pc[s] = from /\ pc' = [pc EXCEPT ![s] = to]

(* The WaitGroup.  The Done that reaches zero wakes who waits; the woken    *)
(* goroutine panics if the count is not zero when it runs.                  *)
Done(S) == /\ refs' = [s \in Sessions |-> IF s \in S THEN refs[s] - 1 ELSE refs[s]]
           /\ waiter' = [s \in Sessions |->
                           IF s \in S /\ refs[s] = 1 /\ waiter[s] = "waiting" THEN "woken"
                                                                             ELSE waiter[s]]
-----------------------------------------------------------------------------
(* The goroutine of a session, from a connection that was accepted on. *)
NewSession(s) == /\ ~closed /\ Goto(s, "none", "created")
                 /\ UNCHANGED <<listenerVars, table, held, refs, waiter, wrapped, late, byCount,
                                sessionVars, connVars>>

Register(s) == /\ IF closed
                  THEN /\ Goto(s, "created", "gone") /\ shutdown' = shutdown \cup {s}
                       /\ UNCHANGED <<table, refs, waiter>>
                  ELSE /\ Goto(s, "created", "accept") /\ table' = table \cup {s}
                       /\ refs' = [refs EXCEPT ![s] = 1]
                       /\ waiter' = [waiter EXCEPT ![s] = "starting"]
                       /\ UNCHANGED shutdown
               /\ UNCHANGED <<listenerVars, held, wrapped, late, byCount, seen, acceptCh,
                              blocked, lost, connVars>>

(* newStreamWrapper takes a reference, maybe after the count was zero. *)
WasZero(s) == refs[s] = 0 \/ waiter[s] \in {"woken", "returned", "done", "panic"}

WrapUncounted(s, x) == /\ wrapped' = wrapped \cup {x}
                       /\ UNCHANGED <<refs, late>>

Wrap(s, x) == /\ refs' = [refs EXCEPT ![s] = @ + 1]
              /\ wrapped' = wrapped \cup {x}
              /\ late' = late \cup (IF WasZero(s) THEN {x} ELSE {})

AcceptStream(s) == /\ acceptCh[s] # <<>>
                   /\ Goto(s, "accept", "hand")
                   /\ held' = [held EXCEPT ![s] = Head(acceptCh[s])]
                   /\ acceptCh' = [acceptCh EXCEPT ![s] = Tail(@)]
                   /\ Wrap(s, Head(acceptCh[s]))
                   /\ UNCHANGED <<listenerVars, table, waiter, byCount, shutdown, seen, blocked,
                                  lost, connVars>>

Hand(s) == /\ Len(backlog) < Backlog
           /\ Goto(s, "hand", "accept")
           /\ backlog' = Append(backlog, held[s]) /\ held' = [held EXCEPT ![s] = NoOne]
           /\ UNCHANGED <<listenerVars, table, refs, waiter, wrapped, late, byCount, sessionVars,
                          conns>>

(* The listener was closed first: the goroutine ends, with its wrapper. *)
HandClosed(s) == /\ closeCh
                 /\ Goto(s, "hand", "gone")
                 /\ UNCHANGED <<listenerVars, table, held, refs, waiter, wrapped, late, byCount,
                                sessionVars, connVars>>

(* AcceptStream failed: the session was closed early. *)
End(s) == /\ s \in shutdown
          /\ Goto(s, "accept", "gone")
          /\ table' = table \ {s} /\ Done({s} \cap table)
          /\ UNCHANGED <<listenerVars, held, wrapped, late, byCount, sessionVars, connVars>>

(* The goroutine that waits for the WaitGroup and then closes the session. *)
WaitStarts(s) == /\ waiter[s] = "starting"
                 /\ waiter' = [waiter EXCEPT ![s] = IF refs[s] = 0 THEN "returned" ELSE "waiting"]
                 /\ UNCHANGED <<listenerVars, table, pc, held, refs, wrapped, late, byCount,
                                sessionVars, connVars>>

WaitReturns(s) == /\ waiter[s] = "woken"
                  /\ waiter' = [waiter EXCEPT ![s] = IF refs[s] = 0 THEN "returned" ELSE "panic"]
                  /\ UNCHANGED <<listenerVars, table, pc, held, refs, wrapped, late, byCount,
                                 sessionVars, connVars>>

CloseUnused(s) == /\ waiter[s] = "returned"
                  /\ waiter' = [waiter EXCEPT ![s] = "done"]
                  /\ shutdown' = shutdown \cup {s}
                  /\ byCount' = byCount \cup ({s} \ shutdown)
                  /\ UNCHANGED <<listenerVars, table, pc, held, refs, wrapped, late, seen,
                                 acceptCh, blocked, lost, connVars>>
-----------------------------------------------------------------------------
(* The dispatcher of the process: getStream puts a new stream in acceptCh,  *)
(* and holds up every session while there is no room.  It stops when the    *)
(* session is closed.                                                       *)
NoSpareRoom(s) == Len(acceptCh[s]) + 1 < AcceptCap
Room(s) == Len(acceptCh[s]) < AcceptCap

getStream(x) == LET s == Of[x] IN
    /\ blocked = NoOne /\ x \notin seen /\ pc[s] # "none" /\ s \notin shutdown
    /\ seen' = seen \cup {x}
    /\ IF Room(s) THEN acceptCh' = [acceptCh EXCEPT ![s] = Append(@, x)] /\ UNCHANGED blocked
                  ELSE blocked' = x /\ UNCHANGED acceptCh
    /\ UNCHANGED <<listenerVars, table, pc, held, refs, waiter, wrapped, late, byCount, shutdown,
                   lost, connVars>>

Unblock == /\ blocked # NoOne /\ blocked' = NoOne
           /\ LET s == Of[blocked] IN
              \/ Room(s) /\ acceptCh' = [acceptCh EXCEPT ![s] = Append(@, blocked)]
              \/ s \in shutdown /\ UNCHANGED acceptCh
           /\ UNCHANGED <<listenerVars, table, pc, held, refs, waiter, wrapped, late, byCount,
                          shutdown, seen, lost, connVars>>

(* onRemoteClose, or an error of the session. *)
RemoteClose(s) == /\ lost < MaxLost /\ lost' = lost + 1
                  /\ blocked = NoOne /\ pc[s] # "none" /\ s \notin shutdown
                  /\ shutdown' = shutdown \cup {s}
                  /\ UNCHANGED <<listenerVars, table, pc, held, refs, waiter, wrapped, late,
                                 byCount, seen, acceptCh, blocked, connVars>>
-----------------------------------------------------------------------------
(* The application: Accept, Close of a conn, and Close of the listener.     *)
Accept == /\ backlog # <<>>
          /\ backlog' = Tail(backlog) /\ conns' = conns \cup {Head(backlog)}
          /\ UNCHANGED <<listenerVars, table, pc, held, refs, waiter, wrapped, late, byCount,
                         sessionVars>>

CloseTwice(x) == /\ x \in conns
                 /\ wrapped' = wrapped \ {x} /\ Done({Of[x]})
                 /\ UNCHANGED <<listenerVars, table, pc, held, late, byCount, sessionVars,
                                connVars>>

CloseConn(x) == /\ x \in conns /\ conns' = conns \ {x}
                /\ wrapped' = wrapped \ {x} /\ Done({Of[x]})
                /\ UNCHANGED <<listenerVars, table, pc, held, late, byCount, sessionVars,
                               backlog>>

CloseStep(c, from, to) == closer[c] = from /\ closer' = [closer EXCEPT ![c] = to]

CloseMark(c) == /\ CloseStep(c, "idle", IF closed THEN "release" ELSE "closeCh")
                /\ closed' = TRUE
                /\ UNCHANGED <<closeCh, table, pc, held, refs, waiter, wrapped, late, byCount,
                               sessionVars, connVars>>

CloseCloseCh(c) == /\ CloseStep(c, "closeCh", "release") /\ closeCh' = TRUE
                   /\ UNCHANGED <<closed, table, pc, held, refs, waiter, wrapped, late, byCount,
                                  sessionVars, connVars>>

ReleaseForgets(c) == /\ CloseStep(c, "release", "done") /\ table' = {}
                     /\ UNCHANGED <<closed, closeCh, pc, held, refs, waiter, wrapped, late,
                                    byCount, sessionVars, connVars>>

CloseRelease(c) == /\ CloseStep(c, "release", "done")
                   /\ Done(table) /\ table' = {}
                   /\ UNCHANGED <<closed, closeCh, pc, held, wrapped, late, byCount, sessionVars,
                                  connVars>>
-----------------------------------------------------------------------------
Serve(s) == Register(s) \/ AcceptStream(s) \/ Hand(s) \/ HandClosed(s) \/ End(s)
Wait(s) == WaitStarts(s) \/ WaitReturns(s) \/ CloseUnused(s)
Close(c) == CloseMark(c) \/ CloseCloseCh(c) \/ CloseRelease(c)

Next == \/ \E s \in Sessions : NewSession(s) \/ Serve(s) \/ Wait(s) \/ RemoteClose(s)
        \/ \E x \in Streams : getStream(x) \/ CloseConn(x)
        \/ Unblock \/ Accept
        \/ \E c \in Closers : Close(c)

Spec == Init /\ [][Next]_vars

(* The goroutines run.  The application accepts as long as the listener is  *)
(* open, closes the conns it has, and finishes a Close that it has begun.   *)
FairSpec == /\ Spec
            /\ \A s \in Sessions : WF_vars(Serve(s)) /\ WF_vars(Wait(s))
            /\ WF_vars(Unblock) /\ WF_vars(~closed /\ Accept)
            /\ \A x \in Streams : WF_vars(CloseConn(x))
            /\ \A c \in Closers : WF_vars(CloseCloseCh(c) \/ CloseRelease(c))
-----------------------------------------------------------------------------
(* The type invariant of the listener. *)
TypeOK ==
    /\ closed \in BOOLEAN /\ closeCh \in BOOLEAN /\ table \subseteq Sessions
    /\ closer \in [Closers -> {"idle", "closeCh", "release", "done"}]
    /\ pc \in [Sessions -> {"none", "created", "accept", "hand", "gone"}]
    /\ held \in [Sessions -> Streams \cup {NoOne}] /\ refs \in [Sessions -> Nat]
    /\ waiter \in [Sessions -> {"none", "starting", "waiting", "woken", "returned", "panic",
                                "done"}]
    /\ shutdown \subseteq Sessions /\ seen \subseteq Streams
    /\ acceptCh \in [Sessions -> Seq(Streams)] /\ blocked \in Streams \cup {NoOne}
    /\ backlog \in Seq(Streams) /\ conns \subseteq Streams /\ wrapped \subseteq Streams
    /\ late \subseteq Streams /\ byCount \subseteq Sessions /\ lost \in Nat

Wrappers(s) == {x \in wrapped : Of[x] = s}

(* The count of a session is exact: one reference of the listener while the *)
(* session is in its table, and one of each wrapper that is not closed,     *)
(* although the goroutine of the session, the application and Close take    *)
(* and give references concurrently.                                        *)
RefsExact == \A s \in Sessions :
    refs[s] = Cardinality(Wrappers(s)) + (IF s \in table THEN 1 ELSE 0)

(* A session is terminated for want of references only after the listener   *)
(* was closed and every stream of it closed, except the streams that the    *)
(* goroutine of the session wrapped after the count had been zero.          *)
TerminatedUnused == \A s \in byCount : closed /\ Wrappers(s) \subseteq late

(* Close of the listener ends every session for good once the application   *)
(* has closed the conns it was handed.  The exception is the session's own: *)
(* one of its streams was never handed out, left in the backlog or held by  *)
(* a goroutine that ended; what happens to other sessions is no excuse.     *)
HandedOut(s) == \A x \in Wrappers(s) : x \in conns
Panicked == \E s \in Sessions : waiter[s] = "panic"
Ended(s) == pc[s] # "none" => s \in shutdown
CloseEndsSessions ==
    \A s \in Sessions : closeCh ~> [](Ended(s) \/ ~HandedOut(s) \/ Panicked)

(* The same without the exception. *)
CloseEndsAllSessions == \A s \in Sessions : closeCh ~> [](Ended(s) \/ Panicked)

(* A full acceptCh does not stop the dispatcher, and with it every session  *)
(* of the process, for good as long as the listener is open.                *)
DispatcherGoesOn == blocked # NoOne ~> blocked = NoOne \/ closed
=============================================================================
