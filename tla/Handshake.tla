------------------------------ MODULE Handshake ------------------------------
(***************************************************************************)
(* How a session comes to share memory: newSession with initMemManager and *)
(* initProtocol at both ends (session.go, protocol_manager.go,             *)
(* protocol_initializer.go), the table of buffer managers that the         *)
(* sessions of a process share (buffer_manager.go), the queue's memory     *)
(* (queue.go) and what Session.Close gives back.                           *)
(*                                                                         *)
(* All sessions use one buffer path, as those of a SessionManager do; each *)
(* id has a queue path.  A region of memory is named after the session     *)
(* whose client end created it.                                            *)
(***************************************************************************)
EXTENDS Integers, Sequences, FiniteSets

CONSTANTS
    Sess,        \* bound: the sessions ever dialled, numbered in the order of dialling
    Id,          \* the session id, hence the queue path, of each
    MemTypes,    \* the configurations looked at: "file" or "memfd"
    Plans        \* bound: what may happen and how often, see plan

ASSUME HandshakeAssumption ==
    /\ Sess \subseteq Nat \ {0} /\ IsFiniteSet(Sess)
    /\ Id \in [Sess -> Nat]
    /\ MemTypes \subseteq {"file", "memfd"}
    /\ Plans \subseteq [calm : BOOLEAN, timeouts : Nat, failures : Nat, closes : Nat]

Ends == {"client", "server"}
Peer(e) == IF e = "client" THEN "server" ELSE "client"
None == 0
NoBM == [region |-> None, refCount |-> 0]

VARIABLES
    memType,   \* config.MemMapType
    plan,      \* timeouts, failing system calls and calls of Close still to come
    main,      \* newSession at each end: "idle", "wait" in initProtocol, "open", "error";
               \* "shut" and "gone" when Close gave back the memory and the socket
    init,      \* the goroutine of initProtocol at each end
    bm,        \* Session.bufferManager at each end: the region
    qm,        \* Session.queueManager at each end: the region
    open,      \* the socket of each end
    inbox,     \* what was written to it and not read
    bms,       \* bufferManagers.bms of each process
    bufferFile,\* the region that the buffer path leads to
    queueFile, \* the region that the queue path of each id leads to
    leaked,    \* history: references that nobody will give back, by process
    apart      \* history: regions made by the client while the server had an older one

sessionVars == <<main, init, bm, qm>>
vars == <<memType, plan, sessionVars, open, inbox, bms, bufferFile, queueFile, leaked, apart>>

Ids == {Id[s] : s \in Sess}
Both(x) == [s \in Sess |-> [e \in Ends |-> x]]

Init ==
    /\ memType \in MemTypes /\ plan \in Plans
    /\ main = Both("idle") /\ init = Both("none") /\ bm = Both(None) /\ qm = Both(None)
    /\ open = Both(FALSE) /\ inbox = Both(<<>>)
    /\ bms = [e \in Ends |-> NoBM]
    /\ bufferFile = None /\ queueFile = [i \in Ids |-> None]
    /\ leaked = [e \in Ends |-> 0] /\ apart = {}

-----------------------------------------------------------------------------
(* The memory. *)

(* Mutant: a manager found in the table gets no reference. *)
getGlobalBufferManagerUncounted(e, r) ==
    IF bms[e] = NoBM THEN [region |-> r, refCount |-> 1] ELSE bms[e]

(* Mutant: the table is not asked, every session makes a manager anew. *)
getGlobalBufferManagerAnew(e, r) == [region |-> r, refCount |-> bms[e].refCount + 1]

(* getGlobalBufferManager and getGlobalBufferManagerWithMemFd: the table is  *)
(* asked by path before anything else; r is what would be mapped.            *)
getGlobalBufferManager(e, r) ==
    IF bms[e] = NoBM THEN [region |-> r, refCount |-> 1]
    ELSE [bms[e] EXCEPT !.refCount = @ + 1]

(* addGlobalBufferManagerRefCount(path, -1), with bufferManager.unmap, and   *)
(* queueManager.unmap: both remove whatever the path leads to.               *)
LastReference(e) == bms[e].refCount <= 1

GiveBackBuffer(e) ==
    /\ bms' = IF LastReference(e) THEN [bms EXCEPT ![e] = NoBM]
              ELSE [bms EXCEPT ![e].refCount = @ - 1]
    /\ bufferFile' = IF LastReference(e) /\ memType = "file" THEN None ELSE bufferFile

(* Mutant: the queue's file stays. *)
GiveBackKeepsQueue(s, e) ==
    /\ IF bm[s][e] # None THEN GiveBackBuffer(e) ELSE UNCHANGED <<bms, bufferFile>>
    /\ bm' = [bm EXCEPT ![s][e] = None] /\ qm' = [qm EXCEPT ![s][e] = None]
    /\ UNCHANGED queueFile

GiveBack(s, e) ==
    /\ IF bm[s][e] # None THEN GiveBackBuffer(e) ELSE UNCHANGED <<bms, bufferFile>>
    /\ queueFile' = IF qm[s][e] # None /\ memType = "file"
                    THEN [queueFile EXCEPT ![Id[s]] = None] ELSE queueFile
    /\ bm' = [bm EXCEPT ![s][e] = None] /\ qm' = [qm EXCEPT ![s][e] = None]

Started(s) == main[s]["client"] # "idle"

(* The SessionManager dials under its lock, one session at a time, and an id *)
(* again only when its last session ended; other ids are dialled any time.   *)
MayDial(s) ==
    /\ ~Started(s) /\ \A t \in Sess : t < s => Started(t)
    /\ \A t \in Sess : /\ main[t]["client"] # "wait"
                       /\ Started(t) /\ Id[t] = Id[s] => main[t]["client"] \in {"error", "gone"}

(* The server has a region under the path, or the descriptor of one is on    *)
(* its way to a server end that will map it.                                 *)
ServerHasRegion ==
    \/ bms["server"] # NoBM
    \/ \E t \in Sess : /\ init[t]["server"] \notin {"ok", "fail"}
                       /\ \E i \in 1..Len(inbox[t]["server"]) : inbox[t]["server"][i].type = "fd"

(* initMemManager: when the buffer cannot be created, or is there already,   *)
(* its path is removed; when the queue cannot be, its path is, and the       *)
(* buffer manager that was just obtained is not given back.                  *)
initMemManager(s) ==
    LET creates == bms["client"] = NoBM
        bufferExists == memType = "file" /\ creates /\ bufferFile # None
        queueExists == memType = "file" /\ queueFile[Id[s]] # None
        Fails(exists) ==
            /\ exists \/ plan.failures > 0
            /\ plan' = IF exists THEN plan ELSE [plan EXCEPT !.failures = @ - 1]
            /\ main' = [main EXCEPT ![s]["client"] = "error"]
            /\ UNCHANGED <<init, bm, qm>>
    IN  /\ MayDial(s)
        /\ open' = [open EXCEPT ![s] = [e \in Ends |-> TRUE]]
        /\ \/ /\ creates /\ Fails(bufferExists)
              /\ bufferFile' = None
              /\ UNCHANGED <<bms, queueFile, leaked, apart>>
           \/ /\ ~bufferExists
              /\ bms' = [bms EXCEPT !["client"] = getGlobalBufferManager("client", s)]
              /\ bufferFile' = IF creates /\ memType = "file" THEN s ELSE bufferFile
              /\ apart' = IF creates /\ ServerHasRegion THEN apart \cup {s} ELSE apart
              /\ \/ /\ Fails(queueExists)
                    /\ queueFile' = [queueFile EXCEPT ![Id[s]] = None]
                    /\ leaked' = [leaked EXCEPT !["client"] = @ + 1]
                 \/ /\ ~queueExists
                    /\ queueFile' = IF memType = "file" THEN [queueFile EXCEPT ![Id[s]] = s]
                                    ELSE queueFile
                    /\ bm' = [bm EXCEPT ![s]["client"] = bms'["client"].region]
                    /\ qm' = [qm EXCEPT ![s]["client"] = s]
                    /\ main' = [main EXCEPT ![s]["client"] = "wait"]
                    /\ init' = [init EXCEPT ![s]["client"] =
                                   IF memType = "file" THEN "sendPath" ELSE "sendVersion"]
                    /\ UNCHANGED <<plan, leaked>>
        /\ UNCHANGED <<memType, inbox>>

(* Listener.Run accepts the connections one after the other. *)
Accept(s) ==
    /\ Started(s) /\ main[s]["server"] = "idle"
    /\ \A t \in Sess : main[t]["server"] # "wait" /\ (t < s => main[t]["server"] # "idle")
    /\ main' = [main EXCEPT ![s]["server"] = "wait"]
    /\ init' = [init EXCEPT ![s]["server"] = "waitFirst"]
    /\ UNCHANGED <<memType, plan, bm, qm, open, inbox, bms, bufferFile, queueFile, leaked, apart>>

-----------------------------------------------------------------------------
(* The protocol, version 2 with files and version 3 with memfds.             *)

Message(t) == [type |-> t, bm |-> None, qm |-> None]

GoTo(s, e, to) == init' = [init EXCEPT ![s][e] = to]

(* blockWriteFull, sendFd: an error once either end is closed. *)
Send(s, e, from, message, to) ==
    /\ init[s][e] = from
    /\ IF open[s][e] /\ open[s][Peer(e)]
       THEN inbox' = [inbox EXCEPT ![s][Peer(e)] = Append(@, message)] /\ GoTo(s, e, to)
       ELSE UNCHANGED inbox /\ GoTo(s, e, "fail")
    /\ UNCHANGED <<memType, plan, main, bm, qm, open, bms, bufferFile, queueFile, leaked, apart>>

(* waitEventHeader and blockReadFull: end of file once the peer is closed. *)
Wait(s, e, from, type, to) ==
    /\ init[s][e] = from
    /\ inbox[s][e] # <<>> \/ ~open[s][e] \/ ~open[s][Peer(e)]
    /\ IF open[s][e] /\ inbox[s][e] # <<>> /\ Head(inbox[s][e]).type = type
       THEN inbox' = [inbox EXCEPT ![s][e] = Tail(@)] /\ GoTo(s, e, to)
       ELSE UNCHANGED inbox /\ GoTo(s, e, "fail")
    /\ UNCHANGED <<memType, plan, main, bm, qm, open, bms, bufferFile, queueFile, leaked, apart>>

(* The client: protocolInitializerV2.Init sends the paths, the memfd         *)
(* configuration first exchanges versions.                                   *)
sendShareMemoryByFilePath(s) == Send(s, "client", "sendPath", Message("path"), "ok")

clientGetProtocolInitializer(s) ==
    \/ Send(s, "client", "sendVersion", Message("version"), "waitVersion")
    \/ Wait(s, "client", "waitVersion", "version", "sendMemfd")

(* The client's descriptors are closed when its newSession gave up. *)
sendMemFdToPeer(s) ==
    LET fds == [type |-> "fd", bm |-> bm[s]["client"], qm |-> qm[s]["client"]]
    IN  \/ Send(s, "client", "sendMemfd", Message("memfd"), "waitReady")
        \/ Wait(s, "client", "waitReady", "ready", "sendFd")
        \/ fds.bm # None /\ Send(s, "client", "sendFd", fds, "waitAck")
        \/ /\ fds.bm = None /\ init[s]["client"] = "sendFd" /\ GoTo(s, "client", "fail")
           /\ UNCHANGED <<memType, plan, main, bm, qm, open, inbox, bms, bufferFile,
                          queueFile, leaked, apart>>

clientInit(s) ==
    \/ sendShareMemoryByFilePath(s) \/ clientGetProtocolInitializer(s) \/ sendMemFdToPeer(s)
    \/ Wait(s, "client", "waitAck", "ack", "ok")

(* The server looks at the first event to tell the version, and follows; the *)
(* memory is mapped by mapQueue and getBuffer.                               *)
FirstType(s) == IF inbox[s]["server"] # <<>> THEN Head(inbox[s]["server"]).type ELSE "none"

serverGetProtocolInitializer(s) ==
    \/ FirstType(s) = "version" /\ Wait(s, "server", "waitFirst", "version", "sendVersion")
    \/ FirstType(s) # "version" /\ Wait(s, "server", "waitFirst", "path", "mapQueue")

handleExchangeVersion(s) == Send(s, "server", "sendVersion", Message("version"), "waitMemfd")

(* Mutant: the server does not say that it is ready to receive descriptors. *)
MemFdNotReady(s) == Wait(s, "server", "waitMemfd", "memfd", "waitFd")

(* handleShareMemoryByMemFd up to the receipt of the descriptors. *)
handleShareMemoryByMemFd(s) ==
    \/ Wait(s, "server", "waitMemfd", "memfd", "sendReady")
    \/ Send(s, "server", "sendReady", Message("ready"), "waitFd")

serverInit(s) ==
    \/ serverGetProtocolInitializer(s) \/ handleExchangeVersion(s)
    \/ handleShareMemoryByMemFd(s)
    \/ Send(s, "server", "sendAck", Message("ack"), "ok")

FdMessage(s) == inbox[s]["server"] # <<>> /\ Head(inbox[s]["server"]).type = "fd"

(* mappingQueueManager opens the path; mappingQueueManagerMemfd has the      *)
(* descriptor.  blockReadOutOfBoundForFd comes first; the message stays in   *)
(* the inbox until getBuffer has used it too.                                *)
mapQueue(s) ==
    LET r == IF memType = "file" THEN queueFile[Id[s]]
             ELSE IF open[s]["server"] /\ FdMessage(s) THEN Head(inbox[s]["server"]).qm ELSE None
    IN  /\ \/ init[s]["server"] = "mapQueue"
           \/ /\ init[s]["server"] = "waitFd"
              /\ FdMessage(s) \/ ~open[s]["server"] \/ ~open[s]["client"]
        /\ qm' = [qm EXCEPT ![s]["server"] = r]
        /\ GoTo(s, "server", IF r = None THEN "fail" ELSE "getBuffer")
        /\ UNCHANGED <<memType, plan, main, bm, open, inbox, bms, bufferFile, queueFile, leaked, apart>>

(* handleShareMemoryByFilePath and handleShareMemoryByMemFd end with the     *)
(* buffer manager.  newSession may have given up meanwhile: then nobody will *)
(* give the reference back.                                                  *)
getBuffer(s) ==
    LET r == IF memType = "file" THEN bufferFile ELSE Head(inbox[s]["server"]).bm
        hit == bms["server"] # NoBM
    IN  /\ init[s]["server"] = "getBuffer"
        /\ inbox' = IF memType = "file" THEN inbox ELSE [inbox EXCEPT ![s]["server"] = Tail(@)]
        /\ \/ /\ ~hit /\ r = None
              /\ GoTo(s, "server", "fail")
              /\ UNCHANGED <<bm, bms, leaked>>
           \/ /\ hit \/ r # None
              /\ bms' = [bms EXCEPT !["server"] = getGlobalBufferManager("server", r)]
              /\ bm' = [bm EXCEPT ![s]["server"] = bms'["server"].region]
              /\ leaked' = IF main[s]["server"] = "wait" THEN leaked
                           ELSE [leaked EXCEPT !["server"] = @ + 1]
              /\ GoTo(s, "server", IF memType = "file" THEN "ok" ELSE "sendAck")
        /\ UNCHANGED <<memType, plan, main, qm, open, bufferFile, queueFile, apart>>

-----------------------------------------------------------------------------
(* initProtocol returns with the result, or with the timeout; newSession     *)
(* gives back what the session has by then, but nothing when it is setCallback*)
(* that fails.                                                               *)
initProtocol(s, e) ==
    /\ main[s][e] = "wait"
    /\ \/ /\ init[s][e] = "ok"
          /\ main' = [main EXCEPT ![s][e] = "open"]
          /\ UNCHANGED <<plan, bm, qm, bms, bufferFile, queueFile, leaked>>
       \/ /\ init[s][e] = "ok"
          /\ plan.failures > 0 /\ plan' = [plan EXCEPT !.failures = @ - 1]
          /\ bm' = [bm EXCEPT ![s][e] = None] /\ qm' = [qm EXCEPT ![s][e] = None]
          /\ leaked' = IF bm[s][e] = None THEN leaked ELSE [leaked EXCEPT ![e] = @ + 1]
          /\ main' = [main EXCEPT ![s][e] = "error"]
          /\ UNCHANGED <<bms, bufferFile, queueFile>>
       \/ /\ \/ init[s][e] = "fail" /\ UNCHANGED plan
             \/ /\ init[s][e] \notin {"ok", "fail"}
                /\ plan.timeouts > 0 /\ plan' = [plan EXCEPT !.timeouts = @ - 1]
          /\ GiveBack(s, e)
          /\ main' = [main EXCEPT ![s][e] = "error"]
          /\ UNCHANGED leaked
    /\ UNCHANGED <<memType, init, open, inbox, apart>>

(* The duplicated descriptor of a session that failed is closed by its       *)
(* finalizer.                                                                *)
Finalize(s, e) ==
    /\ main[s][e] = "error" /\ open[s][e]
    /\ open' = [open EXCEPT ![s][e] = FALSE]
    /\ UNCHANGED <<memType, plan, sessionVars, inbox, bms, bufferFile, queueFile, leaked, apart>>

(* The function that Session.Close posts, because of a call or because the   *)
(* peer is gone; the socket is closed by a function posted by that one.      *)
Close(s, e) ==
    /\ main[s][e] = "open"
    /\ \/ ~open[s][Peer(e)] /\ UNCHANGED plan
       \/ plan.closes > 0 /\ plan' = [plan EXCEPT !.closes = @ - 1]
    /\ GiveBack(s, e)
    /\ main' = [main EXCEPT ![s][e] = "shut"]
    /\ UNCHANGED <<memType, init, open, inbox, leaked, apart>>

CloseSocket(s, e) ==
    /\ main[s][e] = "shut"
    /\ main' = [main EXCEPT ![s][e] = "gone"]
    /\ open' = [open EXCEPT ![s][e] = FALSE]
    /\ UNCHANGED <<memType, plan, init, bm, qm, inbox, bms, bufferFile, queueFile, leaked, apart>>

Next ==
    \E s \in Sess :
        \/ initMemManager(s) \/ Accept(s) \/ clientInit(s) \/ serverInit(s)
        \/ mapQueue(s) \/ getBuffer(s)
        \/ \E e \in Ends : initProtocol(s, e) \/ Finalize(s, e) \/ Close(s, e) \/ CloseSocket(s, e)

(* Who made the session, and the dispatcher when the peer is gone. *)
Owner(s, e) ==
    \/ initProtocol(s, e) \/ Finalize(s, e) \/ CloseSocket(s, e)
    \/ (~open[s][Peer(e)] /\ Close(s, e))

(* The goroutines run, the listener accepts, descriptors without an owner    *)
(* are finalized.                                                            *)
Fairness ==
    \A s \in Sess :
        /\ WF_vars(Accept(s)) /\ WF_vars(clientInit(s))
        /\ WF_vars(serverInit(s) \/ mapQueue(s) \/ getBuffer(s))
        /\ \A e \in Ends : WF_vars(Owner(s, e))

Spec == Init /\ [][Next]_vars /\ Fairness
-----------------------------------------------------------------------------
(* Where newSession and the goroutine of initProtocol are. *)
MainSteps == {"idle", "wait", "open", "error", "shut", "gone"}
InitSteps == {"none", "sendPath", "sendVersion", "waitVersion", "sendMemfd", "waitReady",
              "sendFd", "waitAck", "waitFirst", "waitMemfd", "sendReady", "waitFd",
              "mapQueue", "getBuffer", "sendAck", "ok", "fail"}
Messages == [type : {"path", "version", "memfd", "ready", "fd", "ack"}, bm : Nat, qm : Nat]

(* The type invariant of the sessions, their messages and their memory. *)
TypeOK ==
    /\ memType \in {"file", "memfd"}
    /\ main \in [Sess -> [Ends -> MainSteps]] /\ init \in [Sess -> [Ends -> InitSteps]]
    /\ bm \in [Sess -> [Ends -> Nat]] /\ qm \in [Sess -> [Ends -> Nat]]
    /\ inbox \in [Sess -> [Ends -> Seq(Messages)]]
    /\ bms \in [Ends -> [region : Nat, refCount : Nat]]
    /\ bufferFile \in Nat /\ queueFile \in [Ids -> Nat]
    /\ leaked \in [Ends -> Nat] /\ apart \subseteq Sess

(* The sessions that will give back a reference at their end. *)
Holders(e) == {s \in Sess : bm[s][e] # None /\ main[s][e] \in {"wait", "open"}}

(* A buffer manager is mapped as long as a session holds it, and its         *)
(* references are those of the sessions that hold it, and those that the     *)
(* error paths forget (getGlobalBufferManager,                               *)
(* addGlobalBufferManagerRefCount).                                          *)
MappedWhileHeld ==
    \A e \in Ends : /\ \A s \in Holders(e) : bms[e].region = bm[s][e]
                    /\ bms[e].refCount = Cardinality(Holders(e)) + leaked[e]

(* The two ends of an established session share their queue and, unless the  *)
(* client made its region while the server still had an older one, their     *)
(* buffers, whatever sessions open, fail and close around it and whatever    *)
(* the error paths forget (initMemManager, mapQueue, getBuffer).             *)
SameMemory ==
    \A s \in Sess :
        (\A e \in Ends : main[s][e] = "open") =>
            /\ qm[s]["client"] = qm[s]["server"]
            /\ bm[s]["client"] \notin apart => bm[s]["client"] = bm[s]["server"]

(* The server maps what its client created: "the share memory should created *)
(* by peer".                                                                 *)
MappedFromPeer ==
    \A s \in Sess : (\A e \in Ends : main[s][e] = "open") =>
                        bm[s]["client"] = bm[s]["server"]

(* When all sessions are over, no table entry and no file is left, unless an *)
(* error path forgot a reference (bufferManager.unmap, queueManager.unmap).  *)
NothingLeft ==
    (\A s \in Sess : ~Started(s) \/ \A e \in Ends : main[s][e] \in {"error", "shut", "gone"})
    /\ (\A e \in Ends : leaked[e] = 0)
    /\ (\A s \in Sess : init[s]["server"] \in {"none", "ok", "fail"})
    => /\ \A e \in Ends : bms[e] = NoBM
       /\ bufferFile = None /\ \A i \in Ids : queueFile[i] = None

(* When nothing fails and nobody closes, both ends of every session that is  *)
(* dialled get through the handshake: neither waits for an event that the    *)
(* other sends only later (clientInit, serverInit).                          *)
Establishes ==
    \A s \in Sess :
        (plan.calm /\ Started(s)) ~> (\A e \in Ends : main[s][e] = "open")

=============================================================================
