----------------------------- MODULE HotRestart -----------------------------
(***************************************************************************)
(* The client's SessionManager and the generations of the server's         *)
(* Listener: reconnecting after a loss, and the hot restart, in which an   *)
(* old server asks every session to move to the server that took over its  *)
(* address (session_manager.go, listener.go, handleHotRestart and          *)
(* handleHotRestartAck of protocol_manager.go).                            *)
(*                                                                         *)
(* A session is a connection with its two ends: what newSession and its    *)
(* handshake establish is one step here (module Handshake refines it).  A  *)
(* streamPool object is named after the first connection it held.          *)
(***************************************************************************)
EXTENDS Integers, Sequences, FiniteSets, FiniteSetsExt

CONSTANTS
    MaxGen,          \* bound: generations of the server process
    MaxConns,        \* bound: connections ever made
    Plans,           \* bound: what may go wrong and how often, see plan
    UnlinkOnClose    \* Listener.unlinkOnClose of every generation

ASSUME HotRestartAssumption ==
    /\ MaxGen \in Nat \ {0} /\ MaxConns \in Nat
    /\ Plans \subseteq [sessions : Nat \ {0}, restarts : Nat, dials : Nat, losses : Nat,
                        crashes : Nat, close : BOOLEAN]
    /\ UnlinkOnClose \in BOOLEAN

VARIABLES
    plan,        \* SessionNum, and the calls of HotRestart, failing dials, lost sessions,
                 \* server crashes and SessionManager.Close that are still to come
    phase,       \* the client: "new" in NewSessionManager, "run", "closing" and
                 \* "closed" by Close, "failed" to construct, "panicked"
    state,       \* SessionManager.state: "default" or "hotRestart"
    epoch,       \* SessionManager.epoch
    pools,       \* SessionManager.pools, by id
    reservePools,\* SessionManager.reservePools, by id
    session,     \* streamPool.session of every pool object
    background,  \* the goroutine of every id: its place, the pool it captured
                 \* and the session it made and has not stored yet
    conn,        \* the connections
    path,        \* the generation that the socket address leads to, 0 for none
    phaseL,      \* a Listener: "none", "run", "closing", "closed", "exited"
    stateL,      \* Listener.state: "default", "hotRestart" or "hotRestartDone"
    epochL,      \* Listener.epoch
    ackCount,    \* Listener.hotRestartAckCount
    stuck,       \* a goroutine waits for Listener.sessions.sessionMu that it holds
    calls,       \* how often HotRestart was called on this Listener
    late         \* history: sessions stored in a pool that the manager had dropped

clientVars == <<phase, state, epoch, pools, reservePools, session, background, late>>
serverVars == <<path, phaseL, stateL, epochL, ackCount, stuck, calls>>
vars == <<plan, clientVars, conn, serverVars>>

Gens == 1..MaxGen
Ids == 1..plan.sessions
AllIds == 1..Max({p.sessions : p \in Plans})
Conns == 1..MaxConns
None == 0

AtTop == [pc |-> "top", pool |-> None, made |-> None]

Made == {c \in Conns : conn[c].client # "none"}
Of(g) == {c \in Made : conn[c].gen = g}

(* The sessions of Listener.sessions.  removeShutdownSession runs inside    *)
(* Session.Close, so a session leaves the table in the step that closes it, *)
(* except one that was closed before Run added it ("early"): that one stays *)
(* ("listed") until another session of the Listener closes.                 *)
Listed(g) == {c \in Of(g) : conn[c].server = "listed"}
Table(g) == Listed(g) \cup {c \in Of(g) : conn[c].server = "open"}

NoConn == [id |-> None, epoch |-> 0, gen |-> 0, client |-> "none", server |-> "none",
           state |-> "default", s2c |-> <<>>, c2s |-> <<>>]

Init ==
    /\ plan \in Plans
    /\ phase = "new" /\ state = "default" /\ epoch = 0
    /\ pools = [i \in Ids |-> None]
    /\ reservePools = [i \in Ids |-> None]
    /\ session = [c \in Conns |-> None]
    /\ background = [i \in Ids |-> AtTop]
    /\ conn = [c \in Conns |-> NoConn]
    /\ path = 1
    /\ phaseL = [g \in Gens |-> IF g = 1 THEN "run" ELSE "none"]
    /\ stateL = [g \in Gens |-> "default"]
    /\ epochL = [g \in Gens |-> 0]
    /\ ackCount = [g \in Gens |-> 0]
    /\ stuck = [g \in Gens |-> FALSE]
    /\ calls = [g \in Gens |-> 0]
    /\ late = {}

-----------------------------------------------------------------------------
(* Sessions. *)

(* newClientSession dials the address and the handshake succeeds; the        *)
(* server's Run has still to add the session to its table.                   *)
CanDial == path # 0 /\ phaseL[path] = "run" /\ ~stuck[path]

NewConn == Cardinality(Made) + 1

Dialled(i, e) ==
    [NoConn EXCEPT !.id = i, !.epoch = e, !.gen = path, !.client = "open",
                   !.server = "backlog"]

newClientSession(i, e) ==
    /\ CanDial /\ NewConn \in Conns
    /\ conn' = [conn EXCEPT ![NewConn] = Dialled(i, e)]
    /\ UNCHANGED plan

(* It fails when nobody listens, or when the handshake goes wrong. *)
DialFails ==
    \/ ~CanDial /\ UNCHANGED plan
    \/ CanDial /\ plan.dials > 0 /\ plan' = [plan EXCEPT !.dials = @ - 1]

ClientClosed(cs) ==
    [c \in Conns |-> IF c \in cs /\ conn[c].client = "open"
                     THEN [conn[c] EXCEPT !.client = "closed"] ELSE conn[c]]

ServerClosed(cs) ==
    [c \in Conns |-> IF c \in cs /\ conn[c].server # "none"
                     THEN [conn[c] EXCEPT !.server = "closed", !.c2s = <<>>] ELSE conn[c]]

(* Session.Close in the server, with removeShutdownSession. *)
ServerCloses(c) ==
    LET shut == Listed(conn[c].gen)
        early == conn[c].server = "backlog"
    IN  /\ conn[c].server \in {"backlog", "open"} /\ ~stuck[conn[c].gen]
        /\ conn' = [ServerClosed(shut \cup {c}) EXCEPT ![c].server = IF early THEN "early" ELSE @]

ServerGone(c) == conn[c].server \in {"early", "listed", "closed"}

(* Session.onRemoteClose in the client and in the server. *)
ClientSeesClose(c) ==
    /\ conn[c].client = "open" /\ ServerGone(c) /\ phase # "panicked"
    /\ conn' = ClientClosed({c})
    /\ UNCHANGED <<plan, clientVars, serverVars>>

ServerSeesClose(c) ==
    /\ conn[c].client = "closed" /\ ServerCloses(c)
    /\ UNCHANGED <<plan, clientVars, serverVars>>

(* Session.exitErr at either end: the session ends for a reason of its own. *)
SessionFails(c) ==
    /\ plan.losses > 0 /\ plan' = [plan EXCEPT !.losses = @ - 1]
    /\ \/ conn[c].client = "open" /\ conn' = ClientClosed({c})
       \/ ServerCloses(c)
    /\ UNCHANGED <<clientVars, serverVars>>

-----------------------------------------------------------------------------
(* The SessionManager. *)

Session(p) == conn[session[p]]

(* NewSessionManager makes the sessions in turn; one that cannot be made     *)
(* closes the others and there is no manager.                                *)
NewSessionManager(i) ==
    /\ i \in Ids /\ phase = "new" /\ pools[i] = None
    /\ \A j \in 1..(i - 1) : pools[j] # None
    /\ background[i].made = None
    /\ \/ /\ newClientSession(i, 0)
          /\ background' = [background EXCEPT
                ![i] = [pc |-> "store", pool |-> NewConn, made |-> NewConn]]
          /\ UNCHANGED phase
       \/ /\ DialFails
          /\ conn' = ClientClosed({session[pools[j]] : j \in {k \in Ids : pools[k] # None}})
          /\ phase' = "failed" /\ UNCHANGED background
    /\ UNCHANGED <<state, epoch, pools, reservePools, session, late, serverVars>>

(* session.manager = sm, and the session goes into the pool. *)
Store(i) ==
    /\ i \in Ids /\ phase # "panicked" /\ background[i].pc = "store"
    /\ session' = [session EXCEPT ![background[i].pool] = background[i].made]
    /\ pools' = IF phase = "new" THEN [pools EXCEPT ![i] = background[i].pool] ELSE pools
    /\ phase' = IF phase = "new" /\ \A j \in Ids \ {i} : pools[j] # None THEN "run" ELSE phase
    /\ background' = [background EXCEPT ![i] = AtTop]
    /\ late' = IF background[i].pool \in {pools'[i], reservePools[i]} THEN late
               ELSE late \cup {background[i].made}
    /\ UNCHANGED <<plan, state, epoch, reservePools, conn, serverVars>>

(* background(): during a hot restart the goroutine only waits. *)
Capture(i) ==
    /\ i \in Ids /\ phase \in {"run", "closing"} /\ background[i].pc = "top" /\ state # "hotRestart"
    /\ background' = [background EXCEPT ![i].pc = "watch", ![i].pool = pools[i]]
    /\ UNCHANGED <<plan, phase, state, epoch, pools, reservePools, session, conn, late, serverVars>>

CloseChan(i) ==
    /\ i \in Ids /\ phase \in {"run", "closing"} /\ background[i].pc = "watch"
    /\ Session(background[i].pool).client = "closed"
    /\ background' = [background EXCEPT
          ![i] = IF state = "hotRestart" THEN AtTop
                 ELSE [@ EXCEPT !.pc = "rebuild"]]
    /\ UNCHANGED <<plan, phase, state, epoch, pools, reservePools, session, conn, late, serverVars>>

ReplacedByHotRestart(i) == Session(pools[i]).epoch # Session(background[i].pool).epoch

(* Mutant: the goroutine returns when the server cannot be reached. *)
RebuildGivesUp(i) ==
    /\ i \in Ids /\ phase \in {"run", "closing"} /\ background[i].pc = "rebuild"
    /\ \A c \in Made : conn[c].client = "closed" => conn[c].s2c = <<>>
    /\ \/ /\ ReplacedByHotRestart(i)
          /\ background' = [background EXCEPT ![i] = AtTop]
          /\ UNCHANGED <<plan, conn>>
       \/ /\ ~ReplacedByHotRestart(i)
          /\ newClientSession(i, epoch)
          /\ background' = [background EXCEPT ![i].pc = "store", ![i].made = NewConn]
       \/ /\ ~ReplacedByHotRestart(i) /\ DialFails
          /\ background' = [background EXCEPT ![i] = [pc |-> "exit", pool |-> None, made |-> None]]
          /\ UNCHANGED conn
    /\ UNCHANGED <<phase, state, epoch, pools, reservePools, session, late, serverVars>>

(* The timer fires; it takes a minute, in which the dispatcher has run what   *)
(* was posted to it.  The new session is stored after sm is unlocked.        *)
Rebuild(i) ==
    /\ i \in Ids /\ phase \in {"run", "closing"} /\ background[i].pc = "rebuild"
    /\ \A c \in Made : conn[c].client = "closed" => conn[c].s2c = <<>>
    /\ \/ /\ ReplacedByHotRestart(i)
          /\ background' = [background EXCEPT ![i] = AtTop]
          /\ UNCHANGED <<plan, conn>>
       \/ /\ ~ReplacedByHotRestart(i)
          /\ newClientSession(i, epoch)
          /\ background' = [background EXCEPT ![i].pc = "store", ![i].made = NewConn]
       \/ /\ ~ReplacedByHotRestart(i)
          /\ DialFails /\ UNCHANGED <<background, conn>>
    /\ UNCHANGED <<phase, state, epoch, pools, reservePools, session, late, serverVars>>

(* SessionManager.Close: the goroutines leave where they select, and then    *)
(* the pools are closed; the reserve pools are not.                          *)
Close ==
    /\ phase = "run" /\ plan.close
    /\ phase' = "closing" /\ plan' = [plan EXCEPT !.close = FALSE]
    /\ UNCHANGED <<state, epoch, pools, reservePools, session, background, conn, late, serverVars>>

(* Mutant: the context is looked at only between two attempts to rebuild. *)
ContextDoneRetrying(i) ==
    /\ i \in Ids /\ phase = "closing" /\ background[i].pc = "rebuild"
    /\ background' = [background EXCEPT ![i] = [pc |-> "exit", pool |-> None, made |-> None]]
    /\ UNCHANGED <<plan, phase, state, epoch, pools, reservePools, session, conn, late, serverVars>>

ContextDone(i) ==
    /\ i \in Ids /\ phase = "closing" /\ background[i].pc \in {"watch", "rebuild"}
    /\ background' = [background EXCEPT ![i] = [pc |-> "exit", pool |-> None, made |-> None]]
    /\ UNCHANGED <<plan, phase, state, epoch, pools, reservePools, session, conn, late, serverVars>>

ClosePools ==
    /\ phase = "closing" /\ \A i \in Ids : background[i].pc = "exit"
    /\ phase' = "closed"
    /\ conn' = ClientClosed({session[pools[i]] : i \in Ids})
    /\ UNCHANGED <<plan, state, epoch, pools, reservePools, session, background, late, serverVars>>

-----------------------------------------------------------------------------
(* Hot restart in the client. *)

Reserved == {reservePools[i] : i \in {j \in Ids : reservePools[j] # None}}

(* handleHotRestart reads the event and posts the handler, which runs in the *)
(* order of the reads, even when the session has closed in between; an event *)
(* that had not been read when the session closed is lost.                   *)
handleHotRestart(c) ==
    /\ conn[c].s2c # <<>> /\ conn[c].client = "closed"
    /\ conn' = [conn EXCEPT ![c].s2c = Tail(@)]
    /\ UNCHANGED <<plan, clientVars, serverVars>>

(* The manager of a session that has not been stored yet is nil: the handler *)
(* panics, and panics again in the function that recovers.                   *)
Unmanaged(c) == \E i \in Ids : background[i].made = c

HandlerPanics(c) ==
    /\ phase # "panicked" /\ conn[c].s2c # <<>> /\ Unmanaged(c)
    /\ phase' = "panicked"
    /\ conn' = ClientClosed(Conns)
    /\ UNCHANGED <<plan, state, epoch, pools, reservePools, session, background, late, serverVars>>

(* handleSessionManagerHotRestart: the first event of an epoch starts        *)
(* checkHotRestart, which runs as long as the state is hotRestart.           *)
handleSessionManagerHotRestart(c) ==
    /\ phase # "panicked" /\ conn[c].s2c # <<>> /\ ~Unmanaged(c)
    /\ LET e == Head(conn[c].s2c)
           i == conn[c].id
           first == state # "hotRestart"
           kept == IF first THEN [j \in Ids |-> None] ELSE reservePools
           closed == IF first THEN ClientClosed({session[p] : p \in Reserved}) ELSE conn
           read == [closed EXCEPT ![c].s2c = Tail(@)]
       IN  \/ /\ ~first /\ epoch # e
              /\ conn' = read
              /\ UNCHANGED <<plan, state, epoch, pools, reservePools, session>>
           \/ /\ first \/ epoch = e
              /\ state' = "hotRestart" /\ epoch' = e
              /\ \/ /\ kept[i] = None /\ CanDial /\ NewConn \in Conns
                    /\ conn' = [read EXCEPT ![NewConn] = Dialled(i, e)]
                    /\ session' = [session EXCEPT ![NewConn] = NewConn]
                    /\ reservePools' = [kept EXCEPT ![i] = pools[i]]
                    /\ pools' = [pools EXCEPT ![i] = NewConn]
                    /\ UNCHANGED plan
                 \/ /\ IF kept[i] = None THEN DialFails ELSE UNCHANGED plan
                    /\ conn' = read /\ reservePools' = kept
                    /\ UNCHANGED <<pools, session>>
    /\ UNCHANGED <<phase, background, late, serverVars>>

(* Mutant: the first replaced session is taken for all of them. *)
SomeReplaced == \E i \in Ids : reservePools[i] # None

(* checkHotRestart, a tick with every pool replaced: the event is            *)
(* acknowledged on what the reserve pools hold now.                          *)
AllReplaced == \A i \in Ids : pools[i] # None => reservePools[i] # None

checkHotRestart ==
    /\ phase # "panicked" /\ state = "hotRestart" /\ AllReplaced
    /\ state' = "default"
    /\ conn' = [c \in Conns |->
          IF c \in {session[p] : p \in Reserved} /\ conn[c].client = "open"
                /\ ~ServerGone(c)
          THEN [conn[c] EXCEPT !.c2s = Append(@, epoch)] ELSE conn[c]]
    /\ UNCHANGED <<plan, phase, epoch, pools, reservePools, session, background, late, serverVars>>

(* Mutant: the reserve pools are dropped without being closed. *)
checkHotRestartTimeoutDrops ==
    /\ phase # "panicked" /\ state = "hotRestart"
    /\ state' = "default"
    /\ reservePools' = [i \in Ids |-> None]
    /\ UNCHANGED <<plan, phase, epoch, pools, session, background, conn, late, serverVars>>

checkHotRestartTimeout ==
    /\ phase # "panicked" /\ state = "hotRestart"
    /\ state' = "default"
    /\ conn' = ClientClosed({session[p] : p \in Reserved})
    /\ reservePools' = [i \in Ids |-> None]
    /\ UNCHANGED <<plan, phase, epoch, pools, session, background, late, serverVars>>

-----------------------------------------------------------------------------
(* The Listener. *)

(* NewListener of the next generation takes the address over. *)
NewListener(g) ==
    /\ phaseL[g] = "none" /\ g > 1 /\ phaseL[g - 1] # "none"
    /\ phaseL' = [phaseL EXCEPT ![g] = "run"]
    /\ path' = g
    /\ UNCHANGED <<plan, clientVars, conn, stateL, epochL, ackCount, stuck, calls>>

(* Run adds the session it made, closed or not.  When the Listener was       *)
(* closed meanwhile it closes the session while holding sessionMu, whose     *)
(* callback locks it again, unless the session was closed already.           *)
Run(c) ==
    /\ conn[c].server \in {"backlog", "early"} /\ ~stuck[conn[c].gen]
    /\ LET g == conn[c].gen
           early == conn[c].server = "early"
       IN  \/ /\ phaseL[g] = "run"
              /\ conn' = [conn EXCEPT ![c].server = IF early THEN "listed" ELSE "open"]
              /\ UNCHANGED stuck
           \/ /\ phaseL[g] \in {"closing", "closed"}
              /\ stuck' = [stuck EXCEPT ![g] = ~early]
              /\ conn' = IF early THEN ServerClosed({c}) ELSE conn
    /\ UNCHANGED <<plan, clientVars, path, phaseL, stateL, epochL, ackCount, calls>>

(* newSession fails in the server, or the kernel resets what was not accepted. *)
Reject(c) ==
    /\ conn[c].server = "backlog"
    /\ \/ phaseL[conn[c].gen] \in {"closing", "closed"} /\ UNCHANGED plan
       \/ plan.losses > 0 /\ plan' = [plan EXCEPT !.losses = @ - 1]
    /\ conn' = ServerClosed({c})
    /\ UNCHANGED <<clientVars, serverVars>>

Unnotified(g) == {c \in Table(g) : conn[c].state = "default"}

(* Session.hotRestart on each of cs.  On a closed session it says nothing    *)
(* when the write fails; the event is still written to those of unclosed,    *)
(* whose connection the dispatcher has yet to close.                         *)
Notify(cs, unclosed, e) ==
    [c \in Conns |-> IF c \in cs
        THEN [conn[c] EXCEPT !.state = "hotRestart",
                             !.s2c = IF conn[c].client = "open" /\ (c \in unclosed \/ ~ServerGone(c))
                                     THEN Append(@, e) ELSE @]
        ELSE conn[c]]

NewEpoch == 1 + Max({epochL[g] : g \in Gens})

(* HotRestart, called as in the example server once the next generation      *)
(* listens, each time with a new epoch (bound: not while the client is still *)
(* in NewSessionManager).  Writing to a session whose peer is gone closes    *)
(* it, and the callback locks sessionMu, which HotRestart holds.             *)
HotRestart(g) ==
    /\ phaseL[g] = "run" /\ ~stuck[g] /\ stateL[g] # "hotRestart"
    /\ path > g /\ plan.restarts > 0 /\ phase # "new"
    /\ \E unclosed \in SUBSET Listed(g) : LET e == NewEpoch IN
       \/ /\ conn' = Notify(Unnotified(g), unclosed, e)
          /\ ackCount' = [ackCount EXCEPT ![g] = @ + Cardinality(Unnotified(g))]
          /\ UNCHANGED stuck
       \/ \E dead \in Unnotified(g) : \E cs \in SUBSET (Unnotified(g) \ {dead}) :
          /\ conn[dead].client = "closed" /\ conn[dead].server = "open"
          /\ conn' = Notify(cs, unclosed, e)
          /\ ackCount' = [ackCount EXCEPT ![g] = @ + Cardinality(cs)]
          /\ stuck' = [stuck EXCEPT ![g] = TRUE]
    /\ stateL' = [stateL EXCEPT ![g] = "hotRestart"]
    /\ epochL' = [epochL EXCEPT ![g] = NewEpoch]
    /\ calls' = [calls EXCEPT ![g] = @ + 1]
    /\ plan' = [plan EXCEPT !.restarts = @ - 1]
    /\ UNCHANGED <<clientVars, path, phaseL>>

handleHotRestartAck(c) ==
    /\ conn[c].server = "open" /\ conn[c].c2s # <<>>
    /\ LET g == conn[c].gen
           current == Head(conn[c].c2s) = epochL[g]
       IN  /\ phaseL[g] = "run" /\ ~stuck[g]
           /\ ackCount' = IF current THEN [ackCount EXCEPT ![g] = @ - 1] ELSE ackCount
           /\ conn' = [conn EXCEPT ![c].c2s = Tail(@),
                                   ![c].state = IF current THEN "hotRestartDone" ELSE @]
    /\ UNCHANGED <<plan, clientVars, path, phaseL, stateL, epochL, stuck, calls>>

(* Mutant: off by one in the number of acknowledgements. *)
checkHotRestartLEarly(g) ==
    /\ phaseL[g] \in {"run", "closed"} /\ ~stuck[g]
    /\ stateL[g] = "hotRestart" /\ ackCount[g] <= 1
    /\ stateL' = [stateL EXCEPT ![g] = "hotRestartDone"]
    /\ UNCHANGED <<plan, clientVars, conn, path, phaseL, epochL, ackCount, stuck, calls>>

checkHotRestartL(g) ==
    /\ phaseL[g] \in {"run", "closed"} /\ ~stuck[g]
    /\ stateL[g] = "hotRestart" /\ ackCount[g] = 0
    /\ stateL' = [stateL EXCEPT ![g] = "hotRestartDone"]
    /\ UNCHANGED <<plan, clientVars, conn, path, phaseL, epochL, ackCount, stuck, calls>>

(* The timeout of checkHotRestart: resetState. *)
resetState(g) ==
    /\ phaseL[g] \in {"run", "closed"} /\ ~stuck[g] /\ stateL[g] = "hotRestart"
    /\ stateL' = [stateL EXCEPT ![g] = "default"]
    /\ ackCount' = [ackCount EXCEPT ![g] = 0]
    /\ conn' = [c \in Conns |-> IF c \in Table(g) THEN [conn[c] EXCEPT !.state = "default"]
                                ELSE conn[c]]
    /\ UNCHANGED <<plan, clientVars, path, phaseL, epochL, stuck, calls>>

(* Listener.Close, called as in the example server when IsHotRestartDone;    *)
(* closeAll closes the sessions one by one.                                  *)
IsHotRestartDone(g) == stateL[g] # "hotRestart"

CloseListener(g) ==
    /\ phaseL[g] = "run" /\ ~stuck[g] /\ calls[g] > 0 /\ IsHotRestartDone(g)
    /\ phaseL' = [phaseL EXCEPT ![g] = "closing"]
    /\ path' = IF UnlinkOnClose THEN 0 ELSE path
    /\ UNCHANGED <<plan, clientVars, conn, stateL, epochL, ackCount, stuck, calls>>

closeAll(g) ==
    /\ phaseL[g] = "closing" /\ ~stuck[g]
    /\ \/ \E c \in Table(g) : conn' = ServerClosed({c}) /\ UNCHANGED phaseL
       \/ /\ Table(g) = {}
          /\ phaseL' = [phaseL EXCEPT ![g] = "closed"] /\ UNCHANGED conn
    /\ UNCHANGED <<plan, clientVars, path, stateL, epochL, ackCount, stuck, calls>>

(* The process of a generation ends, after Close or by a crash; the last     *)
(* generation stays.                                                         *)
Exit(g) ==
    /\ \/ phaseL[g] = "closed" /\ UNCHANGED plan
       \/ /\ phaseL[g] \in {"run", "closing"} /\ g < MaxGen
          /\ plan.crashes > 0 /\ plan' = [plan EXCEPT !.crashes = @ - 1]
    /\ phaseL' = [phaseL EXCEPT ![g] = "exited"]
    /\ stuck' = [stuck EXCEPT ![g] = FALSE]
    /\ conn' = ServerClosed(Of(g))
    /\ UNCHANGED <<clientVars, path, stateL, epochL, ackCount, calls>>

-----------------------------------------------------------------------------
Next ==
    \/ \E c \in Conns : \/ ClientSeesClose(c) \/ ServerSeesClose(c) \/ SessionFails(c)
                        \/ handleHotRestart(c) \/ handleSessionManagerHotRestart(c)
                        \/ HandlerPanics(c) \/ handleHotRestartAck(c)
                        \/ Run(c) \/ Reject(c)
    \/ \E i \in AllIds : \/ NewSessionManager(i) \/ Store(i) \/ Capture(i) \/ CloseChan(i)
                         \/ Rebuild(i) \/ ContextDone(i)
    \/ Close \/ ClosePools
    \/ checkHotRestart \/ checkHotRestartTimeout
    \/ \E g \in Gens : \/ NewListener(g) \/ HotRestart(g) \/ checkHotRestartL(g)
                       \/ resetState(g) \/ CloseListener(g) \/ closeAll(g) \/ Exit(g)

(* The threads of the two programs. *)
ClientDispatcher ==
    \E c \in Conns : \/ ClientSeesClose(c) \/ handleHotRestart(c) \/ HandlerPanics(c)
                     \/ handleSessionManagerHotRestart(c)

ServerDispatcher == \E c \in Conns : ServerSeesClose(c) \/ handleHotRestartAck(c)

Background(i) == Store(i) \/ Capture(i) \/ CloseChan(i) \/ Rebuild(i) \/ ContextDone(i)

(* An old server closes its listener and exits when its hot restart is over. *)
OldServer(g) ==
    CloseListener(g) \/ closeAll(g) \/ (phaseL[g] = "closed" /\ Exit(g))

(* The dispatchers, the goroutines and their timers keep running; somebody   *)
(* starts the next generation of the server; an old server ends as the one   *)
(* of the example does.                                                      *)
Fairness ==
    /\ WF_vars(ClientDispatcher) /\ WF_vars(ServerDispatcher)
    /\ WF_vars(\E i \in AllIds : NewSessionManager(i))
    /\ \A i \in AllIds : WF_vars(Background(i))
    /\ WF_vars(ClosePools)
    /\ WF_vars(checkHotRestart \/ checkHotRestartTimeout)
    /\ WF_vars(\E c \in Conns : Run(c))
    /\ \A g \in Gens : /\ WF_vars(NewListener(g)) /\ WF_vars(OldServer(g))
                       /\ WF_vars(checkHotRestartL(g) \/ resetState(g))

Spec == Init /\ [][Next]_vars /\ Fairness
-----------------------------------------------------------------------------
(* Once a hot restart event has been acknowledged on any session, the        *)
(* manager has replaced the session of every id by one of that epoch or a    *)
(* later one (checkHotRestart).                                              *)
AckMeansAllReplaced ==
    \A c \in Made : \A k \in 1..Len(conn[c].c2s) : \A i \in Ids :
        pools[i] # None => Session(pools[i]).epoch >= conn[c].c2s[k]

(* A listener whose first hot restart is done has had an acknowledgement for *)
(* every session that it notified and that is still open, and none of these  *)
(* is where the manager opens streams (Listener.checkHotRestart).            *)
DoneMeansMoved ==
    \A g \in Gens : stateL[g] = "hotRestartDone" /\ calls[g] = 1 =>
        \A c \in Table(g) : /\ conn[c].state # "hotRestart"
                            /\ conn[c].state = "hotRestartDone" =>
                                   \A i \in Ids : pools[i] = None \/ session[pools[i]] # c

(* The same after any number of hot restarts. *)
EveryDoneMeansMoved ==
    \A g \in Gens : stateL[g] = "hotRestartDone" =>
        \A c \in Table(g) : conn[c].state # "hotRestart"

(* A hot restart of a listener ends: "since the hot restart process is       *)
(* establish connection operation so waiting timeout is set short".          *)
HotRestartEnds ==
    \A g \in Gens : (stateL[g] = "hotRestart") ~>
        (stateL[g] # "hotRestart" \/ phaseL[g] = "exited")

(* Every open session is in a pool, in a reserve pool or about to be stored: *)
(* none is forgotten (handleSessionManagerHotRestart, background).  The one  *)
(* exception is a session that background stores after it unlocked sm, in a  *)
(* pool that hot restarts replaced and dropped between the two.              *)
NoSessionForgotten ==
    \A c \in Made : conn[c].client = "open" =>
        \/ \E i \in Ids : \/ background[i].made = c
                          \/ pools[i] # None /\ session[pools[i]] = c
                          \/ reservePools[i] # None /\ session[reservePools[i]] = c
        \/ c \in late

(* background stores the session it made in a pool that the manager has. *)
StoredInTime == late = {}

(* The pool of an id has no session while the manager runs. *)
Lost(i) == /\ i \in Ids /\ phase = "run" /\ ~\E g \in Gens : stuck[g]
           /\ Session(pools[i]).client = "closed"

(* background watches a session that a hot restart replaced; it looks at the *)
(* pool again only when that one ends.                                       *)
WatchesReplaced(i) == /\ background[i].pc = "watch" /\ background[i].pool # pools[i]
                      /\ Session(background[i].pool).client = "open"

(* A session that ended while the manager runs is eventually replaced by an  *)
(* open one: "when peer process was crashed or the underlying connection was *)
(* closed, SessionManager could retry connect", as long as the replaced      *)
(* session that background may still watch ends too.                         *)
Rebuilt ==
    \A i \in AllIds : LET Noticed == Lost(i) /\ ~WatchesReplaced(i)
                      IN  Noticed ~> ~Noticed

(* The same whatever background watches. *)
EveryLossRebuilt == \A i \in AllIds : Lost(i) ~> ~Lost(i)

(* SessionManager.Close returns: its goroutines get to see that the context  *)
(* is done, although they do not look while a hot restart is in progress.    *)
CloseReturns == (phase = "closing") ~> (phase \in {"closed", "panicked"})
=============================================================================
