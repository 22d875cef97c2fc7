--------------------------- MODULE HandshakeProofs ---------------------------
(***************************************************************************)
(* Proofs about the memory of sessions in Handshake: the references to     *)
(* buffer managers, the files, and what the two ends of a session share;   *)
(* for any number of sessions, with the failures, timeouts and closes of   *)
(* the model at any point of the handshake.                                *)
(***************************************************************************)
EXTENDS Handshake, TLAPS

(* The steps of the server's goroutine before it has a buffer manager. *)
Unmapped == {"none", "waitFirst", "sendVersion", "waitMemfd", "sendReady", "waitFd",
             "mapQueue", "getBuffer"}

(* The goroutine gets the buffer manager once, newSession succeeds only     *)
(* after it, and the descriptors are still there when getBuffer uses them.  *)
FlowInv ==
    \A s \in Sess :
        /\ main[s]["server"] = "idle" => init[s]["server"] = "none"
        /\ init[s]["server"] \in Unmapped => bm[s]["server"] = None
        /\ main[s]["server"] = "open" => init[s]["server"] = "ok"
        /\ memType = "memfd" /\ init[s]["server"] = "getBuffer" => inbox[s]["server"] # <<>>

(* MappedWhileHeld at one end, and an entry of the table is in use. *)
RefInv(e) ==
    /\ \A s \in Holders(e) : bms[e].region = bm[s][e]
    /\ bms[e].refCount = Cardinality(Holders(e)) + leaked[e]
    /\ bms[e] = NoBM \/ bms[e].region # None

IInv == TypeOK /\ FlowInv /\ \A e \in Ends : RefInv(e)
-----------------------------------------------------------------------------
(* What the proofs use of Cardinality; see Counted. *)
Counts ==
    /\ Cardinality({}) = 0
    /\ \A S \in SUBSET Sess :
          /\ Cardinality(S) \in Nat /\ (Cardinality(S) = 0 => S = {})
          /\ \A x \in Sess \ S : Cardinality(S \cup {x}) = Cardinality(S) + 1
          /\ \A x \in S : Cardinality(S \ {x}) = Cardinality(S) - 1

(* The holders at an end can be counted. *)
LEMMA HoldersCount ==
  ASSUME Counts
  PROVE  \A e : /\ Holders(e) \in SUBSET Sess /\ Cardinality(Holders(e)) \in Nat
                /\ Cardinality(Holders(e)) = 0 => Holders(e) = {}
<1> TAKE e
<1>1. Holders(e) \in SUBSET Sess
  BY Zenon DEF Holders
<1> QED BY <1>1, Zenon DEF Counts

(* A step that keeps the holders, their memory and the count at an end. *)
LEMMA Same ==
  ASSUME NEW e \in Ends, RefInv(e), bms'[e] = bms[e], leaked'[e] = leaked[e],
         Holders(e)' = Holders(e), \A s \in Holders(e) : bm'[s][e] = bm[s][e]
  PROVE  RefInv(e)'
<1> DEFINE h == Holders(e)
<1>1. h' = h
  BY Zenon
<1> QED BY <1>1, Zenon DEF RefInv

(* What getGlobalBufferManager returns is mapped. *)
LEMMA Got ==
  ASSUME TypeOK, NEW e \in Ends, RefInv(e), NEW r \in Nat, r # None \/ bms[e] # NoBM
  PROVE  /\ getGlobalBufferManager(e, r) \in [region : Nat, refCount : Nat]
         /\ getGlobalBufferManager(e, r).region # None
<1>1. bms[e] \in [region : Nat, refCount : Nat]
  BY Zenon DEF TypeOK
<1>2. CASE bms[e] = NoBM
  BY <1>2, Zenon DEF getGlobalBufferManager
<1>3. CASE bms[e] # NoBM
  <2>1. bms[e].region # None
    BY <1>3, Zenon DEF RefInv
  <2> QED BY <1>1, <1>3, <2>1 DEF getGlobalBufferManager
<1> QED BY <1>2, <1>3, Zenon

(* A session that obtains the buffer manager becomes a holder. *)
LEMMA Gain ==
  ASSUME Counts, TypeOK, NEW e \in Ends, RefInv(e), NEW s \in Sess, NEW r \in Nat,
         r # None \/ bms[e] # NoBM, s \notin Holders(e), Holders(e)' = Holders(e) \cup {s},
         bms'[e] = getGlobalBufferManager(e, r), bm'[s][e] = bms'[e].region,
         \A t \in Holders(e) : bm'[t][e] = bm[t][e], leaked'[e] = leaked[e]
  PROVE  RefInv(e)'
<1>1. Cardinality(Holders(e)') = Cardinality(Holders(e)) + 1
  BY HoldersCount DEF Counts
<1>2. bms[e] \in [region : Nat, refCount : Nat] /\ leaked[e] \in Nat
      /\ Cardinality(Holders(e)) \in Nat
  BY HoldersCount, Zenon DEF TypeOK
<1>3. CASE bms[e] = NoBM
  <2>1. Cardinality(Holders(e)) = 0 /\ leaked[e] = 0
    BY <1>2, <1>3 DEF RefInv, NoBM
  <2>2. Holders(e) = {}
    BY <2>1, HoldersCount, Zenon
  <2>3. bms'[e] = [region |-> r, refCount |-> 1]
    BY <1>3, Zenon DEF getGlobalBufferManager
  <2> QED BY <1>1, <1>3, <2>1, <2>2, <2>3 DEF RefInv
<1>4. CASE bms[e] # NoBM
  <2>1. bms'[e].region = bms[e].region /\ bms'[e].refCount = bms[e].refCount + 1
    BY <1>2, <1>4, Zenon DEF getGlobalBufferManager
  <2> QED BY <1>1, <1>2, <1>4, <2>1 DEF RefInv
<1> QED BY <1>3, <1>4, Zenon

(* A reference that an error path forgets is counted in leaked. *)
LEMMA Forget ==
  ASSUME Counts, TypeOK, NEW e \in Ends, RefInv(e), NEW r \in Nat, r # None \/ bms[e] # NoBM,
         Holders(e)' = Holders(e), bms'[e] = getGlobalBufferManager(e, r),
         \A t \in Holders(e) : bm'[t][e] = bm[t][e], leaked'[e] = leaked[e] + 1
  PROVE  RefInv(e)'
<1>2. bms[e] \in [region : Nat, refCount : Nat] /\ leaked[e] \in Nat
      /\ Cardinality(Holders(e)) \in Nat
  BY HoldersCount, Zenon DEF TypeOK
<1>3. CASE bms[e] = NoBM
  <2>1. Cardinality(Holders(e)) = 0 /\ leaked[e] = 0
    BY <1>2, <1>3 DEF RefInv, NoBM
  <2>2. Holders(e) = {}
    BY <2>1, HoldersCount, Zenon
  <2>3. bms'[e] = [region |-> r, refCount |-> 1]
    BY <1>3, Zenon DEF getGlobalBufferManager
  <2> QED BY <1>3, <2>1, <2>2, <2>3 DEF RefInv
<1>4. CASE bms[e] # NoBM
  <2>1. bms'[e].region = bms[e].region /\ bms'[e].refCount = bms[e].refCount + 1
    BY <1>2, <1>4, Zenon DEF getGlobalBufferManager
  <2> QED BY <1>2, <1>4, <2>1 DEF RefInv
<1> QED BY <1>3, <1>4, Zenon

(* A session that ends gives back its reference; the last one unmaps. *)
LEMMA Lose ==
  ASSUME Counts, TypeOK, NEW e \in Ends, NEW s \in Sess, \A f \in Ends : RefInv(f),
         main[s][e] \in {"wait", "open"}, NEW x \in {"error", "shut"},
         main' = [main EXCEPT ![s][e] = x], GiveBack(s, e), leaked' = leaked
  PROVE  /\ \A f \in Ends : RefInv(f)'
         /\ bm' = [bm EXCEPT ![s][e] = None] /\ qm' = [qm EXCEPT ![s][e] = None]
         /\ bms' \in [Ends -> [region : Nat, refCount : Nat]]
         /\ bufferFile' \in Nat /\ queueFile' \in [Ids -> Nat]
<1>1. bm' = [bm EXCEPT ![s][e] = None] /\ qm' = [qm EXCEPT ![s][e] = None]
  BY Zenon DEF GiveBack
<1>2. queueFile' \in [Ids -> Nat]
  BY Zenon DEF GiveBack, TypeOK, None
<1>3. \A f \in Ends \ {e} : Holders(f)' = Holders(f) /\ \A t \in Sess : bm'[t][f] = bm[t][f]
  BY <1>1, SMTT(30) DEF Holders, TypeOK
<1>4. Holders(e)' = Holders(e) \ {s} /\ \A t \in Sess \ {s} : bm'[t][e] = bm[t][e]
  BY <1>1, Zenon DEF Holders, TypeOK
<1>5. /\ bms[e] \in [region : Nat, refCount : Nat] /\ leaked[e] \in Nat
      /\ Cardinality(Holders(e)) \in Nat
  BY HoldersCount, Zenon DEF TypeOK
<1>6. CASE bm[s][e] # None
  <2>1. s \in Holders(e)
    BY <1>6, Zenon DEF Holders
  <2>2. Cardinality(Holders(e)') = Cardinality(Holders(e)) - 1 /\ Cardinality(Holders(e)) > 0
    <3>1. Cardinality(Holders(e) \ {s}) = Cardinality(Holders(e)) - 1
      BY <2>1, HoldersCount, Zenon DEF Counts
    <3>2. Cardinality(Holders(e)') \in Nat
      BY <1>4, HoldersCount, Zenon DEF Counts
    <3> QED BY <1>4, <1>5, <3>1, <3>2
  <2>3. /\ bms' = IF LastReference(e) THEN [bms EXCEPT ![e] = NoBM]
                 ELSE [bms EXCEPT ![e].refCount = @ - 1]
        /\ bufferFile' \in Nat
    BY <1>6 DEF GiveBack, GiveBackBuffer, TypeOK, None
  <2>4. bms[e].refCount = Cardinality(Holders(e)) + leaked[e] /\ bms[e] # NoBM
    BY <1>5, <2>2 DEF RefInv, NoBM
  <2>5. ASSUME LastReference(e) PROVE bms'[e] = NoBM /\ RefInv(e)'
    <3>1. bms'[e] = NoBM
      BY <2>3, <2>5, Zenon DEF TypeOK
    <3>2. Cardinality(Holders(e)') = 0 /\ leaked[e] = 0
      BY <1>5, <2>2, <2>4, <2>5 DEF LastReference
    <3>3. Holders(e)' = {}
      BY <1>4, <3>2, HoldersCount, Zenon DEF Counts
    <3> QED BY <3>1, <3>2, <3>3 DEF RefInv, NoBM
  <2>6. ASSUME ~LastReference(e)
        PROVE  /\ bms'[e] \in [region : Nat, refCount : Nat] /\ RefInv(e)'
    <3>1. bms' = [bms EXCEPT ![e].refCount = @ - 1]
      BY <2>3, <2>6, Zenon
    <3>2. /\ bms'[e].region = bms[e].region /\ bms'[e].refCount = bms[e].refCount - 1
          /\ bms'[e] \in [region : Nat, refCount : Nat]
      <4>1. bms'[e] = [bms[e] EXCEPT !.refCount = bms[e].refCount - 1]
        BY <3>1, Zenon DEF TypeOK
      <4>2. bms[e].refCount - 1 \in Nat
        BY <1>5, <2>6 DEF LastReference
      <4> QED BY <1>5, <4>1, <4>2, Zenon
    <3> QED BY <1>4, <1>5, <2>2, <2>4, <3>2 DEF RefInv, Holders
  <2>7. \A f \in Ends \ {e} : bms'[f] = bms[f]
    BY <2>3, Zenon DEF TypeOK
  <2>8. \A f \in Ends \ {e} : RefInv(f)'
    BY <1>3, <2>7, Same, Zenon DEF Holders
  <2>9. bms' \in [Ends -> [region : Nat, refCount : Nat]]
    <3>1. bms'[e] \in [region : Nat, refCount : Nat]
      BY <2>5, <2>6 DEF NoBM, None
    <3>2. DOMAIN bms' = Ends /\ bms' = [f \in Ends |-> bms'[f]]
      BY <2>3, Zenon DEF TypeOK
    <3>3. \A f \in Ends : bms'[f] \in [region : Nat, refCount : Nat]
      BY <2>7, <3>1, Zenon DEF TypeOK
    <3> QED BY <3>2, <3>3, Zenon
  <2> QED BY <1>1, <1>2, <2>3, <2>5, <2>6, <2>8, <2>9, Zenon
<1>7. CASE bm[s][e] = None
  <2>1. bms' = bms /\ bufferFile' = bufferFile
    BY <1>7, Zenon DEF GiveBack
  <2>2. Holders(e)' = Holders(e) /\ s \notin Holders(e)
    BY <1>4, <1>7, Zenon DEF Holders
  <2>3. RefInv(e)'
    BY <1>4, <2>1, <2>2, Same, Zenon DEF Holders
  <2>4. \A f \in Ends \ {e} : RefInv(f)'
    BY <1>3, <2>1, Same, Zenon DEF Holders
  <2> QED BY <1>1, <1>2, <2>1, <2>3, <2>4, Zenon DEF TypeOK
<1> QED BY <1>6, <1>7, Zenon

(* A session that ends without giving back its reference. *)
LEMMA Abandon ==
  ASSUME Counts, TypeOK, NEW e \in Ends, NEW s \in Sess, \A f \in Ends : RefInv(f),
         main[s][e] = "wait", main' = [main EXCEPT ![s][e] = "error"],
         bm' = [bm EXCEPT ![s][e] = None], bms' = bms,
         leaked' = IF bm[s][e] = None THEN leaked ELSE [leaked EXCEPT ![e] = leaked[e] + 1]
  PROVE  \A f \in Ends : RefInv(f)'
<1>1. \A f \in Ends \ {e} : Holders(f)' = Holders(f) /\ \A t \in Sess : bm'[t][f] = bm[t][f]
  BY SMTT(30) DEF Holders, TypeOK
<1>2. Holders(e)' = Holders(e) \ {s} /\ \A t \in Sess \ {s} : bm'[t][e] = bm[t][e]
  BY Zenon DEF Holders, TypeOK
<1>3. \A f \in Ends \ {e} : leaked'[f] = leaked[f]
  BY Zenon DEF TypeOK
<1>4. \A f \in Ends \ {e} : RefInv(f)'
  BY <1>1, <1>3, Same, Zenon DEF Holders
<1>5. CASE bm[s][e] = None
  <2>1. Holders(e)' = Holders(e) /\ s \notin Holders(e) /\ leaked'[e] = leaked[e]
    BY <1>2, <1>5, Zenon DEF Holders
  <2>2. RefInv(e)'
    BY <1>2, <2>1, Same, Zenon DEF Holders
  <2> QED BY <1>4, <2>2, Zenon
<1>6. CASE bm[s][e] # None
  <2>1. s \in Holders(e)
    BY <1>6, Zenon DEF Holders
  <2>2. Cardinality(Holders(e)') = Cardinality(Holders(e)) - 1
    BY <1>2, <2>1, HoldersCount, Zenon DEF Counts
  <2>3. leaked'[e] = leaked[e] + 1 /\ leaked[e] \in Nat /\ Cardinality(Holders(e)) \in Nat
    BY <1>6, HoldersCount, Zenon DEF TypeOK
  <2>4. bms[e].refCount = Cardinality(Holders(e)') + leaked'[e]
    BY <2>2, <2>3 DEF RefInv
  <2>5. \A t \in Holders(e)' : bms[e].region = bm'[t][e]
    BY <1>2, Zenon DEF RefInv, Holders
  <2>6. RefInv(e)'
    BY <2>4, <2>5, Zenon DEF RefInv
  <2> QED BY <1>4, <2>6, Zenon
<1> QED BY <1>5, <1>6, Zenon

(* A step that changes neither memory nor who holds it. *)
LEMMA Quiet ==
  ASSUME \A e \in Ends : RefInv(e), UNCHANGED <<bms, leaked, bm>>,
         \A t \in Sess, e \in Ends :
             main'[t][e] \in {"wait", "open"} <=> main[t][e] \in {"wait", "open"}
  PROVE  \A e \in Ends : RefInv(e)'
<1>1. \A e \in Ends : Holders(e)' = Holders(e)
  BY Zenon DEF Holders
<1> QED BY <1>1, Same, Zenon

(* A step of a goroutine of initProtocol that sends or awaits a message. *)
LEMMA Exchange ==
  ASSUME IInv, NEW s \in Sess, NEW e \in Ends, NEW from \in InitSteps, NEW to \in InitSteps,
         init[s][e] = from, from \notin {"none", "ok", "fail", "getBuffer"},
         e = "server" /\ to \in Unmapped => from \in Unmapped,
         e = "server" /\ to = "getBuffer" => memType = "file" \/ inbox'[s][e] # <<>>,
         init' = [init EXCEPT ![s][e] = to],
         inbox' \in [Sess -> [Ends -> Seq(Messages)]],
         \A t \in Sess : (t # s \/ e # "server") /\ inbox[t]["server"] # <<>>
                            => inbox'[t]["server"] # <<>>,
         qm' \in [Sess -> [Ends -> Nat]],
         UNCHANGED <<memType, main, bm, bms, bufferFile, queueFile, leaked, apart>>
  PROVE  IInv'
<1> USE DEF Ends
<1>1. TypeOK'
  BY Zenon DEF IInv, TypeOK, Ids
<1>2. FlowInv'
  <2> SUFFICES ASSUME NEW t \in Sess
               PROVE  /\ main[t]["server"] = "idle" => init'[t]["server"] = "none"
                      /\ init'[t]["server"] \in Unmapped => bm[t]["server"] = None
                      /\ main[t]["server"] = "open" => init'[t]["server"] = "ok"
                      /\ memType = "memfd" /\ init'[t]["server"] = "getBuffer"
                           => inbox'[t]["server"] # <<>>
    BY Zenon DEF FlowInv
  <2>1. CASE t = s /\ e = "server"
    <3>1. init'[t]["server"] = to /\ init[t]["server"] = from
      BY <2>1, Zenon DEF IInv, TypeOK
    <3>2. main[t]["server"] # "idle" /\ main[t]["server"] # "open"
      BY <3>1, Zenon DEF IInv, FlowInv
    <3> QED BY <2>1, <3>1, <3>2, Zenon DEF IInv, FlowInv, Unmapped
  <2>2. CASE ~(t = s /\ e = "server")
    <3>1. init'[t]["server"] = init[t]["server"]
      BY <2>2, Zenon DEF IInv, TypeOK
    <3> QED BY <2>2, <3>1, Zenon DEF IInv, FlowInv
  <2> QED BY <2>1, <2>2, Zenon
<1>3. \A f \in Ends : RefInv(f)'
  BY Quiet, Zenon DEF IInv
<1> QED BY <1>1, <1>2, <1>3, Zenon DEF IInv

(* Send appends to the peer's inbox, or fails. *)
LEMMA SendPreserves ==
  ASSUME IInv, NEW s \in Sess, NEW e \in Ends, NEW from \in InitSteps, NEW to \in InitSteps,
         NEW m \in Messages, Send(s, e, from, m, to),
         from \notin {"none", "ok", "fail", "getBuffer"}, to # "getBuffer",
         e = "server" /\ to \in Unmapped => from \in Unmapped
  PROVE  IInv'
<1>1. /\ init[s][e] = from /\ qm' \in [Sess -> [Ends -> Nat]]
      /\ UNCHANGED <<memType, main, bm, bms, bufferFile, queueFile, leaked, apart>>
  BY Zenon DEF Send, IInv, TypeOK
<1>2. CASE open[s][e] /\ open[s][Peer(e)]
  <2>1. /\ inbox' = [inbox EXCEPT ![s][Peer(e)] = Append(inbox[s][Peer(e)], m)]
        /\ init' = [init EXCEPT ![s][e] = to]
    BY <1>2, Zenon DEF Send, GoTo
  <2>2. inbox \in [Sess -> [Ends -> Seq(Messages)]] /\ Peer(e) \in Ends
    BY Zenon DEF IInv, TypeOK, Peer, Ends
  <2>3. Append(inbox[s][Peer(e)], m) \in Seq(Messages) /\ Append(inbox[s][Peer(e)], m) # <<>>
    <3>1. ASSUME NEW q \in Seq(Messages)
          PROVE  Append(q, m) \in Seq(Messages) /\ Append(q, m) # <<>>
      <4>1. Append(q, m) \in Seq(Messages) /\ Len(Append(q, m)) = Len(q) + 1 /\ Len(q) \in Nat
        OBVIOUS
      <4> QED BY <4>1, SMTT(30)
    <3>2. inbox[s][Peer(e)] \in Seq(Messages)
      BY <2>2, Zenon
    <3> QED BY <3>1, <3>2, Zenon
  <2>4. inbox' \in [Sess -> [Ends -> Seq(Messages)]]
    BY <2>1, <2>2, <2>3, Zenon
  <2>5. \A t \in Sess : inbox[t]["server"] # <<>> => inbox'[t]["server"] # <<>>
    BY <2>1, <2>2, <2>3, Zenon DEF Ends
  <2> QED BY <1>1, <2>1, <2>4, <2>5, Exchange, Zenon
<1>3. CASE ~(open[s][e] /\ open[s][Peer(e)])
  <2>1. inbox' = inbox /\ init' = [init EXCEPT ![s][e] = "fail"]
    BY <1>3, Zenon DEF Send, GoTo
  <2>2. inbox' \in [Sess -> [Ends -> Seq(Messages)]] /\ "fail" \in InitSteps
        /\ "fail" \notin Unmapped
    BY <2>1, Zenon DEF IInv, TypeOK, InitSteps, Unmapped
  <2> QED BY <1>1, <2>1, <2>2, Exchange, Zenon
<1> QED BY <1>2, <1>3, Zenon

(* Wait takes the first message of the own inbox, or fails. *)
LEMMA WaitPreserves ==
  ASSUME IInv, NEW s \in Sess, NEW e \in Ends, NEW from \in InitSteps, NEW to \in InitSteps,
         NEW type, Wait(s, e, from, type, to),
         from \notin {"none", "ok", "fail", "getBuffer"}, to # "getBuffer",
         e = "server" /\ to \in Unmapped => from \in Unmapped
  PROVE  IInv'
<1>1. /\ init[s][e] = from /\ qm' \in [Sess -> [Ends -> Nat]]
      /\ UNCHANGED <<memType, main, bm, bms, bufferFile, queueFile, leaked, apart>>
  BY Zenon DEF Wait, IInv, TypeOK
<1>2. inbox \in [Sess -> [Ends -> Seq(Messages)]]
  BY Zenon DEF IInv, TypeOK
<1>3. ASSUME inbox' = [inbox EXCEPT ![s][e] = Tail(inbox[s][e])], inbox[s][e] # <<>>,
             init' = [init EXCEPT ![s][e] = to]
      PROVE  IInv'
  <2>1. Tail(inbox[s][e]) \in Seq(Messages)
    BY <1>2, <1>3
  <2>2. inbox' \in [Sess -> [Ends -> Seq(Messages)]]
    BY <1>2, <1>3, <2>1, Zenon
  <2>3. \A t \in Sess : (t # s \/ e # "server") /\ inbox[t]["server"] # <<>>
                           => inbox'[t]["server"] # <<>>
    BY <1>2, <1>3, Zenon DEF Ends
  <2> QED BY <1>1, <1>3, <2>2, <2>3, Exchange, Zenon
<1>4. ASSUME inbox' = inbox, init' = [init EXCEPT ![s][e] = "fail"]
      PROVE  IInv'
  <2>1. "fail" \in InitSteps /\ "fail" \notin Unmapped
    BY Zenon DEF InitSteps, Unmapped
  <2> QED BY <1>1, <1>2, <1>4, <2>1, Exchange, Zenon
<1> QED BY <1>3, <1>4, Zenon DEF Wait, GoTo
-----------------------------------------------------------------------------
(* Every step of the specification preserves the invariant. *)
LEMMA Preserved ==
  ASSUME Counts
  PROVE  IInv /\ [Next]_vars => IInv'
<1> SUFFICES ASSUME IInv, [Next]_vars PROVE IInv'
  BY Zenon
<1>m. Message("path") \in Messages /\ Message("version") \in Messages
      /\ Message("memfd") \in Messages /\ Message("ready") \in Messages
      /\ Message("ack") \in Messages
  BY Zenon DEF Message, Messages, None
<1> "client" \in Ends /\ "server" \in Ends
  BY Zenon DEF Ends
<1>1. ASSUME NEW s \in Sess, initMemManager(s) PROVE IInv'
  <2> DEFINE c == "client"
             g == getGlobalBufferManager(c, s)
  <2>1. main[s][c] = "idle" /\ UNCHANGED <<memType, inbox>>
    BY <1>1, Zenon DEF initMemManager, MayDial, Started
  <2>2. s \in Nat /\ s # None /\ s \notin Holders(c) /\ Id[s] \in Ids
    BY <2>1, HandshakeAssumption, Zenon DEF Holders, None, Ids
  <2>3. g \in [region : Nat, refCount : Nat] /\ g.region # None
    BY <2>2, Got, Zenon DEF IInv
  <2>4. ASSUME bufferFile' = None, main' = [main EXCEPT ![s][c] = "error"],
               UNCHANGED <<init, bm, qm, bms, queueFile, leaked, apart>>
        PROVE  IInv'
    <3>1. TypeOK'
      BY <2>1, <2>4, SMTT(30) DEF IInv, TypeOK, MainSteps, None
    <3>2. FlowInv'
      BY <2>1, <2>4, Zenon DEF IInv, TypeOK, FlowInv, Ends
    <3>3. \A e \in Ends : Holders(e)' = Holders(e)
      BY <2>1, <2>4, Zenon DEF IInv, TypeOK, Holders
    <3>4. \A e \in Ends : RefInv(e)'
      BY <2>4, <3>3, Same, Zenon DEF IInv
    <3> QED BY <3>1, <3>2, <3>4, Zenon DEF IInv
  <2>5. ASSUME bms' = [bms EXCEPT ![c] = g], bufferFile' \in {s, bufferFile},
               queueFile' \in [Ids -> Nat], apart' \in {apart, apart \cup {s}},
               leaked' = [leaked EXCEPT ![c] = leaked[c] + 1],
               main' = [main EXCEPT ![s][c] = "error"], UNCHANGED <<init, bm, qm>>
        PROVE  IInv'
    <3>1. TypeOK'
      <4>1. main' \in [Sess -> [Ends -> MainSteps]]
        BY <2>5, Zenon DEF IInv, TypeOK, MainSteps
      <4>2. bms' \in [Ends -> [region : Nat, refCount : Nat]] /\ bufferFile' \in Nat
        BY <2>2, <2>3, <2>5, Zenon DEF IInv, TypeOK
      <4>3. leaked' \in [Ends -> Nat]
        BY <2>5 DEF IInv, TypeOK
      <4> QED BY <2>1, <2>5, <4>1, <4>2, <4>3, Zenon DEF IInv, TypeOK, Ids
    <3>2. FlowInv'
      BY <2>1, <2>5, Zenon DEF IInv, TypeOK, FlowInv, Ends
    <3>3. \A e \in Ends : Holders(e)' = Holders(e)
      BY <2>1, <2>5, Zenon DEF IInv, TypeOK, Holders
    <3>4. bms'[c] = g /\ leaked'[c] = leaked[c] + 1
          /\ \A e \in Ends \ {c} : bms'[e] = bms[e] /\ leaked'[e] = leaked[e]
      BY <2>5, Zenon DEF IInv, TypeOK
    <3>5. RefInv(c)'
      BY <2>2, <2>5, <3>3, <3>4, Forget, Zenon DEF IInv
    <3>6. \A e \in Ends \ {c} : RefInv(e)'
      BY <2>5, <3>3, <3>4, Same, Zenon DEF IInv
    <3> QED BY <3>1, <3>2, <3>5, <3>6, Zenon DEF IInv
  <2>6. ASSUME bms' = [bms EXCEPT ![c] = g], bufferFile' \in {s, bufferFile},
               queueFile' \in [Ids -> Nat], bm' = [bm EXCEPT ![s][c] = bms'[c].region],
               qm' = [qm EXCEPT ![s][c] = s], main' = [main EXCEPT ![s][c] = "wait"],
               NEW to \in {"sendPath", "sendVersion"}, init' = [init EXCEPT ![s][c] = to],
               UNCHANGED leaked, apart' \in {apart, apart \cup {s}}
        PROVE  IInv'
    <3>1. bms'[c] = g /\ \A e \in Ends \ {c} : bms'[e] = bms[e]
      BY <2>6, Zenon DEF IInv, TypeOK
    <3>2. /\ bm'[s][c] = g.region
          /\ \A t \in Sess, e \in Ends : t # s \/ e # c => bm'[t][e] = bm[t][e]
      BY <2>6, <3>1, Zenon DEF IInv, TypeOK
    <3>3. TypeOK'
      BY <2>1, <2>2, <2>3, <2>6, <3>1, Zenon DEF IInv, TypeOK, MainSteps, InitSteps
    <3>4. FlowInv'
      <4>1. \A t \in Sess : bm'[t]["server"] = bm[t]["server"]
        BY <3>2, Zenon
      <4>2. \A t \in Sess : main'[t]["server"] = main[t]["server"]
        BY <2>6, Zenon DEF IInv, TypeOK
      <4>3. \A t \in Sess : init'[t]["server"] = init[t]["server"]
        BY <2>6, Zenon DEF IInv, TypeOK
      <4> QED BY <2>1, <4>1, <4>2, <4>3 DEF IInv, FlowInv
    <3>5. /\ main'[s][c] = "wait"
          /\ \A t \in Sess, e \in Ends : t # s \/ e # c => main'[t][e] = main[t][e]
      BY <2>6, Zenon DEF IInv, TypeOK
    <3>6. Holders(c)' = Holders(c) \cup {s} /\ \A e \in Ends \ {c} : Holders(e)' = Holders(e)
      <4>1. Holders(c)' = Holders(c) \cup {s}
        BY <2>3, <3>2, <3>5 DEF Holders
      <4>2. ASSUME NEW e \in Ends \ {c} PROVE Holders(e)' = Holders(e)
        BY <3>2, <3>5, Zenon DEF Holders
      <4> QED BY <4>1, <4>2, Zenon
    <3>7. RefInv(c)'
      <4>1. \A t \in Holders(c) : bm'[t][c] = bm[t][c]
        BY <2>2, <3>2, Zenon DEF Holders
      <4> QED BY <2>2, <2>6, <3>1, <3>2, <3>6, <4>1, Gain, Zenon DEF IInv
    <3>8. \A e \in Ends \ {c} : RefInv(e)'
      <4>1. \A e \in Ends \ {c} : \A t \in Holders(e) : bm'[t][e] = bm[t][e]
        BY <3>2, Zenon DEF Holders
      <4> QED BY <2>6, <3>1, <3>6, <4>1, Same, Zenon DEF IInv
    <3> QED BY <3>3, <3>4, <3>7, <3>8, Zenon DEF IInv
  <2>7. queueFile \in [Ids -> Nat] /\ [queueFile EXCEPT ![Id[s]] = None] \in [Ids -> Nat]
        /\ [queueFile EXCEPT ![Id[s]] = s] \in [Ids -> Nat]
    BY <2>2, Zenon DEF IInv, TypeOK, None
  <2> QED BY <1>1, <2>4, <2>5, <2>6, <2>7, Zenon DEF initMemManager
<1>2. ASSUME NEW s \in Sess, Accept(s) PROVE IInv'
  <2>1. /\ main[s]["server"] = "idle" /\ main' = [main EXCEPT ![s]["server"] = "wait"]
        /\ init' = [init EXCEPT ![s]["server"] = "waitFirst"]
        /\ UNCHANGED <<memType, bm, qm, inbox, bms, bufferFile, queueFile, leaked, apart>>
    BY <1>2, Zenon DEF Accept
  <2>2. init[s]["server"] = "none" /\ bm[s]["server"] = None
    BY <2>1, Zenon DEF IInv, FlowInv, Unmapped
  <2>3. TypeOK'
    BY <2>1, SMTT(30) DEF IInv, TypeOK, MainSteps, InitSteps
  <2>4. FlowInv'
    BY <2>1, <2>2, Zenon DEF IInv, TypeOK, FlowInv, Unmapped
  <2>5. \A e \in Ends : Holders(e)' = Holders(e)
    BY <2>1, <2>2, Zenon DEF IInv, TypeOK, Holders
  <2>6. \A e \in Ends : RefInv(e)'
    BY <2>1, <2>5, Same, Zenon DEF IInv
  <2> QED BY <2>3, <2>4, <2>6, Zenon DEF IInv
<1>3. ASSUME NEW s \in Sess, clientInit(s) PROVE IInv'
  <2> USE DEF InitSteps
  <2>1. CASE sendShareMemoryByFilePath(s)
    BY <1>m, <2>1, SendPreserves DEF sendShareMemoryByFilePath
  <2>2. CASE Send(s, "client", "sendVersion", Message("version"), "waitVersion")
    BY <1>m, <2>2, SendPreserves, Zenon
  <2>3. CASE Wait(s, "client", "waitVersion", "version", "sendMemfd")
    BY <2>3, WaitPreserves, Zenon
  <2>4. CASE sendMemFdToPeer(s)
    <3> DEFINE fds == [type |-> "fd", bm |-> bm[s]["client"], qm |-> qm[s]["client"]]
    <3>1. fds \in Messages
      BY DEF IInv, TypeOK, Messages
    <3>2. CASE Send(s, "client", "sendMemfd", Message("memfd"), "waitReady")
      BY <1>m, <3>2, SendPreserves, Zenon
    <3>3. CASE Wait(s, "client", "waitReady", "ready", "sendFd")
      BY <3>3, WaitPreserves, Zenon
    <3>4. CASE Send(s, "client", "sendFd", fds, "waitAck")
      BY <3>1, <3>4, SendPreserves, Zenon
    <3>5. ASSUME init[s]["client"] = "sendFd", init' = [init EXCEPT ![s]["client"] = "fail"],
                 UNCHANGED <<memType, main, bm, qm, inbox, bms, bufferFile, queueFile, leaked, apart>>
          PROVE  IInv'
      <4>1. inbox' \in [Sess -> [Ends -> Seq(Messages)]] /\ qm' \in [Sess -> [Ends -> Nat]]
        BY <3>5, Zenon DEF IInv, TypeOK
      <4> QED BY <3>5, <4>1, Exchange, Zenon
    <3> QED BY <2>4, <3>2, <3>3, <3>4, <3>5, Zenon DEF sendMemFdToPeer, GoTo
  <2>5. CASE Wait(s, "client", "waitAck", "ack", "ok")
    BY <2>5, WaitPreserves, Zenon
  <2> QED BY <1>3, <2>1, <2>2, <2>3, <2>4, <2>5, Zenon DEF clientInit, clientGetProtocolInitializer
<1>4. ASSUME NEW s \in Sess, serverInit(s) PROVE IInv'
  <2> USE DEF InitSteps, Unmapped
  <2>1. CASE Wait(s, "server", "waitFirst", "version", "sendVersion")
    BY <2>1, WaitPreserves, Zenon
  <2>2. CASE Wait(s, "server", "waitFirst", "path", "mapQueue")
    BY <2>2, WaitPreserves, Zenon
  <2>3. CASE Send(s, "server", "sendVersion", Message("version"), "waitMemfd")
    BY <1>m, <2>3, SendPreserves, Zenon
  <2>4. CASE Wait(s, "server", "waitMemfd", "memfd", "sendReady")
    BY <2>4, WaitPreserves, Zenon
  <2>5. CASE Send(s, "server", "sendReady", Message("ready"), "waitFd")
    BY <1>m, <2>5, SendPreserves, Zenon
  <2>6. CASE Send(s, "server", "sendAck", Message("ack"), "ok")
    BY <1>m, <2>6, SendPreserves
  <2> QED BY <1>4, <2>1, <2>2, <2>3, <2>4, <2>5, <2>6, Zenon
          DEF serverInit, serverGetProtocolInitializer, handleExchangeVersion,
              handleShareMemoryByMemFd
<1>5. ASSUME NEW s \in Sess, mapQueue(s) PROVE IInv'
  <2> DEFINE r == IF memType = "file" THEN queueFile[Id[s]]
                  ELSE IF open[s]["server"] /\ FdMessage(s) THEN Head(inbox[s]["server"]).qm
                  ELSE None
             to == IF r = None THEN "fail" ELSE "getBuffer"
  <2>1. /\ init[s]["server"] \in {"mapQueue", "waitFd"}
        /\ qm' = [qm EXCEPT ![s]["server"] = r] /\ init' = [init EXCEPT ![s]["server"] = to]
        /\ UNCHANGED <<memType, main, bm, inbox, bms, bufferFile, queueFile, leaked, apart>>
    BY <1>5, Zenon DEF mapQueue, GoTo
  <2>2. r \in Nat
    <3>1. queueFile[Id[s]] \in Nat
      BY SMTT(30) DEF IInv, TypeOK, Ids
    <3>2. ASSUME FdMessage(s) PROVE Head(inbox[s]["server"]).qm \in Nat
      <4>1. inbox[s]["server"] \in Seq(Messages) /\ inbox[s]["server"] # <<>>
        BY <3>2 DEF FdMessage, IInv, TypeOK
      <4>2. Head(inbox[s]["server"]) \in Messages
        BY <4>1
      <4> QED BY <4>2, Zenon DEF Messages
    <3> QED BY <3>1, <3>2, Zenon DEF None
  <2>3. to = "getBuffer" => memType = "file" \/ inbox[s]["server"] # <<>>
    BY Zenon DEF FdMessage
  <2>4. qm' \in [Sess -> [Ends -> Nat]] /\ inbox' \in [Sess -> [Ends -> Seq(Messages)]]
    BY <2>1, <2>2, SMTT(30) DEF IInv, TypeOK
  <2>5. to \in InitSteps /\ \A x \in {"mapQueue", "waitFd"} : x \in InitSteps /\ x \in Unmapped
    BY Zenon DEF InitSteps, Unmapped
  <2> HIDE DEF r, to
  <2>6. CASE init[s]["server"] = "mapQueue"
    BY <2>1, <2>3, <2>4, <2>5, <2>6, Exchange, Zenon
  <2>7. CASE init[s]["server"] = "waitFd"
    BY <2>1, <2>3, <2>4, <2>5, <2>7, Exchange, Zenon
  <2> QED BY <2>1, <2>6, <2>7, Zenon
<1>6. ASSUME NEW s \in Sess, getBuffer(s) PROVE IInv'
  <2> DEFINE v == "server"
             r == IF memType = "file" THEN bufferFile ELSE Head(inbox[s][v]).bm
             g == getGlobalBufferManager(v, r)
  <2>1. /\ init[s][v] = "getBuffer"
        /\ inbox' = IF memType = "file" THEN inbox ELSE [inbox EXCEPT ![s][v] = Tail(@)]
        /\ UNCHANGED <<memType, main, qm, bufferFile, queueFile, apart>>
    BY <1>6, Zenon DEF getBuffer
  <2>2. bm[s][v] = None /\ main[s][v] \notin {"idle", "open"} /\ s \notin Holders(v)
    BY <2>1, Zenon DEF IInv, FlowInv, Unmapped, Holders
  <2>3. memType = "file" \/ (inbox[s][v] \in Seq(Messages) /\ inbox[s][v] # <<>>)
    BY <2>1, Zenon DEF IInv, TypeOK, FlowInv
  <2>4. r \in Nat /\ inbox' \in [Sess -> [Ends -> Seq(Messages)]]
    <3>1. CASE memType = "file"
      BY <2>1, <3>1, Zenon DEF IInv, TypeOK
    <3>2. CASE memType # "file"
      <4>1. Head(inbox[s][v]) \in Messages /\ Tail(inbox[s][v]) \in Seq(Messages)
        BY <2>3, <3>2
      <4> QED BY <2>1, <3>2, <4>1, Zenon DEF IInv, TypeOK, Messages
    <3> QED BY <3>1, <3>2, Zenon
  <2>5. \A t \in Sess \ {s} : inbox'[t][v] = inbox[t][v]
    BY <2>1, Zenon DEF IInv, TypeOK
  <2>6. ASSUME init' = [init EXCEPT ![s][v] = "fail"], UNCHANGED <<bm, bms, leaked>>
        PROVE  IInv'
    <3>1. TypeOK'
      BY <2>1, <2>4, <2>6, SMTT(30) DEF IInv, TypeOK, InitSteps
    <3>2. FlowInv'
      <4>1. \A t \in Sess \ {s} : init'[t][v] = init[t][v]
        BY <2>6, Zenon DEF IInv, TypeOK
      <4>2. init'[s][v] = "fail"
        BY <2>6, Zenon DEF IInv, TypeOK
      <4> QED BY <2>1, <2>2, <2>5, <2>6, <4>1, <4>2 DEF IInv, FlowInv, Unmapped
    <3>3. \A e \in Ends : RefInv(e)'
      BY <2>1, <2>6, Quiet, Zenon DEF IInv
    <3> QED BY <3>1, <3>2, <3>3, Zenon DEF IInv
  <2>7. ASSUME bms[v] # NoBM \/ r # None, bms' = [bms EXCEPT ![v] = g],
               bm' = [bm EXCEPT ![s][v] = bms'[v].region],
               leaked' = IF main[s][v] = "wait" THEN leaked
                         ELSE [leaked EXCEPT ![v] = leaked[v] + 1],
               NEW to \in {"ok", "sendAck"}, init' = [init EXCEPT ![s][v] = to]
        PROVE  IInv'
    <3>1. g \in [region : Nat, refCount : Nat] /\ g.region # None
      BY <2>4, <2>7, Got, Zenon DEF IInv
    <3>2. bms'[v] = g /\ \A e \in Ends \ {v} : bms'[e] = bms[e]
      BY <2>7, Zenon DEF IInv, TypeOK
    <3>3. /\ bm'[s][v] = g.region
          /\ \A t \in Sess, e \in Ends : t # s \/ e # v => bm'[t][e] = bm[t][e]
      BY <2>7, <3>2, Zenon DEF IInv, TypeOK
    <3>4. TypeOK'
      <4>1. init' \in [Sess -> [Ends -> InitSteps]]
        BY <2>7, SMTT(30) DEF IInv, TypeOK, InitSteps
      <4>2. bms' \in [Ends -> [region : Nat, refCount : Nat]]
        BY <2>7, <3>1, Zenon DEF IInv, TypeOK
      <4>3. bm' \in [Sess -> [Ends -> Nat]]
        BY <2>7, <3>1, <3>2, Zenon DEF IInv, TypeOK
      <4>4. leaked' \in [Ends -> Nat]
        BY <2>7, SMTT(30) DEF IInv, TypeOK
      <4> QED BY <2>1, <2>4, <4>1, <4>2, <4>3, <4>4, Zenon DEF IInv, TypeOK, Ids
    <3>5. FlowInv'
      <4>1. \A t \in Sess \ {s} : /\ init'[t][v] = init[t][v] /\ bm'[t][v] = bm[t][v]
                                  /\ main'[t][v] = main[t][v]
        BY <2>1, <2>7, <3>3, Zenon DEF IInv, TypeOK
      <4>2. init'[s][v] = to /\ main'[s][v] \notin {"idle", "open"}
        BY <2>1, <2>2, <2>7, Zenon DEF IInv, TypeOK
      <4> QED BY <2>1, <2>5, <4>1, <4>2 DEF IInv, FlowInv, Unmapped
    <3>6. \A e \in Ends \ {v} : RefInv(e)'
      <4>1. \A e \in Ends \ {v} : leaked'[e] = leaked[e]
        BY <2>7, Zenon DEF IInv, TypeOK
      <4>2. \A e \in Ends \ {v} : \A t \in Holders(e) : bm'[t][e] = bm[t][e]
        BY <3>3, Zenon DEF Holders
      <4>3. ASSUME NEW e \in Ends \ {v} PROVE Holders(e)' = Holders(e)
        BY <2>1, <3>3, Zenon DEF Holders
      <4> QED BY <3>2, <4>1, <4>2, <4>3, Same, Zenon DEF IInv
    <3>7. \A t \in Holders(v) : bm'[t][v] = bm[t][v]
      BY <2>2, <3>3, Zenon DEF Holders
    <3> HIDE DEF r
    <3>8. CASE main[s][v] = "wait"
      <4>1. Holders(v)' = Holders(v) \cup {s} /\ leaked' = leaked
        BY <2>1, <2>7, <3>1, <3>3, <3>8 DEF Holders
      <4>2. RefInv(v)'
        <5>1. TypeOK /\ RefInv(v) /\ v \in Ends
          BY Zenon DEF IInv
        <5>2. (r # None \/ bms[v] # NoBM) /\ r \in Nat /\ s \notin Holders(v)
          BY <2>2, <2>4, <2>7, Zenon
        <5>3. bm'[s][v] = bms'[v].region /\ leaked'[v] = leaked[v]
          BY <3>2, <3>3, <4>1, Zenon
        <5> QED BY <3>2, <3>7, <4>1, <5>1, <5>2, <5>3, Gain, Zenon
      <4> QED BY <3>4, <3>5, <3>6, <4>2, Zenon DEF IInv
    <3>9. CASE main[s][v] # "wait"
      <4>1. Holders(v)' = Holders(v) /\ leaked'[v] = leaked[v] + 1
        BY <2>1, <2>2, <2>7, <3>3, <3>9, SMTT(30) DEF Holders, IInv, TypeOK
      <4>2. RefInv(v)'
        <5>1. TypeOK /\ RefInv(v) /\ v \in Ends
          BY Zenon DEF IInv
        <5>2. (r # None \/ bms[v] # NoBM) /\ r \in Nat
          BY <2>4, <2>7, Zenon
        <5> QED BY <3>2, <3>7, <4>1, <5>1, <5>2, Forget, Zenon
      <4> QED BY <3>4, <3>5, <3>6, <4>2, Zenon DEF IInv
    <3> QED BY <3>8, <3>9, Zenon
  <2> QED BY <1>6, <2>6, <2>7, Zenon DEF getBuffer, GoTo
<1>7. ASSUME NEW s \in Sess, NEW e \in Ends, main[s][e] \in {"wait", "open"},
             NEW x \in {"error", "shut"}, main' = [main EXCEPT ![s][e] = x], GiveBack(s, e),
             UNCHANGED <<memType, init, inbox, leaked, apart>>
      PROVE  IInv'
  <2>1. /\ \A f \in Ends : RefInv(f)'
        /\ bm' = [bm EXCEPT ![s][e] = None] /\ qm' = [qm EXCEPT ![s][e] = None]
        /\ bms' \in [Ends -> [region : Nat, refCount : Nat]]
        /\ bufferFile' \in Nat /\ queueFile' \in [Ids -> Nat]
    BY <1>7, Lose, Zenon DEF IInv
  <2>2. TypeOK'
    BY <1>7, <2>1, Zenon DEF IInv, TypeOK, MainSteps, None
  <2>3. FlowInv'
    BY <1>7, <2>1, Zenon DEF IInv, TypeOK, FlowInv
  <2> QED BY <2>1, <2>2, <2>3, Zenon DEF IInv
<1>8. ASSUME NEW s \in Sess, NEW e \in Ends, initProtocol(s, e) PROVE IInv'
  <2>1. main[s][e] = "wait" /\ UNCHANGED <<memType, init, inbox, apart>>
    BY <1>8, Zenon DEF initProtocol
  <2>2. ASSUME init[s][e] = "ok", main' = [main EXCEPT ![s][e] = "open"],
               UNCHANGED <<bm, qm, bms, bufferFile, queueFile, leaked>>
        PROVE  IInv'
    <3>1. TypeOK'
      BY <2>1, <2>2, Zenon DEF IInv, TypeOK, MainSteps
    <3>2. FlowInv'
      BY <2>1, <2>2, Zenon DEF IInv, TypeOK, FlowInv
    <3>3. \A f \in Ends : RefInv(f)'
      BY <2>1, <2>2, Quiet, Zenon DEF IInv, TypeOK
    <3> QED BY <3>1, <3>2, <3>3, Zenon DEF IInv
  <2>3. ASSUME GiveBack(s, e), main' = [main EXCEPT ![s][e] = "error"], UNCHANGED leaked
        PROVE  IInv'
    BY <1>7, <2>1, <2>3, Zenon
  <2>4. ASSUME bm' = [bm EXCEPT ![s][e] = None], qm' = [qm EXCEPT ![s][e] = None],
               leaked' = IF bm[s][e] = None THEN leaked ELSE [leaked EXCEPT ![e] = leaked[e] + 1],
               main' = [main EXCEPT ![s][e] = "error"], UNCHANGED <<bms, bufferFile, queueFile>>
        PROVE  IInv'
    <3>1. TypeOK'
      <4>1. leaked' \in [Ends -> Nat]
        BY <2>4, SMTT(30) DEF IInv, TypeOK
      <4> QED BY <2>1, <2>4, <4>1, Zenon DEF IInv, TypeOK, MainSteps, None, Ids
    <3>2. FlowInv'
      BY <2>1, <2>4, Zenon DEF IInv, TypeOK, FlowInv
    <3>3. \A f \in Ends : RefInv(f)'
      BY <2>1, <2>4, Abandon, Zenon DEF IInv
    <3> QED BY <3>1, <3>2, <3>3, Zenon DEF IInv
  <2> QED BY <1>8, <2>2, <2>3, <2>4, Zenon DEF initProtocol
<1>9. ASSUME NEW s \in Sess, NEW e \in Ends, Close(s, e) PROVE IInv'
  <2>1. /\ main[s][e] = "open" /\ main' = [main EXCEPT ![s][e] = "shut"] /\ GiveBack(s, e)
        /\ UNCHANGED <<memType, init, inbox, leaked, apart>>
    BY <1>9, Zenon DEF Close
  <2> QED BY <1>7, <2>1, Zenon
<1>10. ASSUME NEW s \in Sess, NEW e \in Ends, CloseSocket(s, e) PROVE IInv'
  <2>1. /\ main[s][e] = "shut" /\ main' = [main EXCEPT ![s][e] = "gone"]
        /\ UNCHANGED <<memType, init, bm, qm, inbox, bms, bufferFile, queueFile, leaked, apart>>
    BY <1>10, Zenon DEF CloseSocket
  <2>2. TypeOK'
    BY <2>1, Zenon DEF IInv, TypeOK, MainSteps
  <2>3. FlowInv'
    BY <2>1, Zenon DEF IInv, TypeOK, FlowInv
  <2>4. \A f \in Ends : RefInv(f)'
    BY <2>1, Quiet, Zenon DEF IInv, TypeOK
  <2> QED BY <2>2, <2>3, <2>4, Zenon DEF IInv
<1>11. ASSUME UNCHANGED <<memType, sessionVars, inbox, bms, bufferFile, queueFile, leaked, apart>>
       PROVE  IInv'
  <2>1. UNCHANGED <<memType, main, init, bm, qm, inbox, bms, bufferFile, queueFile, leaked, apart>>
    BY <1>11, Zenon DEF sessionVars
  <2>2. TypeOK' /\ FlowInv'
    BY <2>1, Zenon DEF IInv, TypeOK, FlowInv, Ids
  <2>3. \A f \in Ends : RefInv(f)'
    BY <2>1, Quiet, Zenon DEF IInv
  <2> QED BY <2>2, <2>3, Zenon DEF IInv
<1>12. ASSUME NEW s \in Sess, NEW e \in Ends, Finalize(s, e) PROVE IInv'
  BY <1>11, <1>12, Zenon DEF Finalize
<1>13. CASE UNCHANGED vars
  BY <1>11, <1>13, Zenon DEF vars
<1> QED
  BY <1>1, <1>2, <1>3, <1>4, <1>5, <1>6, <1>8, <1>9, <1>10, <1>12, <1>13, Zenon DEF Next
-----------------------------------------------------------------------------
(* The steps of one session. *)
Step(s) ==
    \/ initMemManager(s) \/ Accept(s) \/ clientInit(s) \/ serverInit(s)
    \/ mapQueue(s) \/ getBuffer(s)
    \/ \E e \in Ends : initProtocol(s, e) \/ Finalize(s, e) \/ Close(s, e) \/ CloseSocket(s, e)

(* A connection is accepted, and something sent on it, once it is dialled. *)
DialInv ==
    \A s \in Sess : ~Started(s) => /\ main[s]["server"] = "idle" /\ init[s]["client"] = "none"
                                   /\ inbox[s]["server"] = <<>>

(* One cell of a function of sessions and ends changes. *)
LEMMA Cell ==
  ASSUME NEW S, NEW f \in [Sess -> [Ends -> S]], NEW s \in Sess, NEW e \in Ends, NEW x,
         NEW g, g = [f EXCEPT ![s][e] = x]
  PROVE  g[s][e] = x /\ \A t \in Sess, d \in Ends : t # s \/ d # e => g[t][d] = f[t][d]
  BY Zenon

(* A message was sent, or the goroutine failed. *)
LEMMA Posted ==
  ASSUME TypeOK, NEW s \in Sess, NEW e \in Ends, NEW from, NEW m, NEW to,
         Send(s, e, from, m, to)
  PROVE  /\ init[s][e] = from
         /\ \E x : init' = [init EXCEPT ![s][e] = x] /\ x \in {to, "fail"}
         /\ \/ inbox' = inbox
            \/ inbox' = [inbox EXCEPT ![s][Peer(e)] = Append(inbox[s][Peer(e)], m)]
<1>1. Peer(e) \in Ends
  BY Zenon DEF Peer, Ends
<1> QED BY <1>1, SMTT(30) DEF Send, GoTo

(* The same for a message received. *)
LEMMA Fetched ==
  ASSUME TypeOK, NEW s \in Sess, NEW e \in Ends, NEW from, NEW type, NEW to,
         Wait(s, e, from, type, to)
  PROVE  /\ init[s][e] = from
         /\ \E x : init' = [init EXCEPT ![s][e] = x] /\ x \in {to, "fail"}
         /\ \/ inbox' = inbox
            \/ /\ inbox[s][e] # <<>> /\ Head(inbox[s][e]).type = type
               /\ inbox' = [inbox EXCEPT ![s][e] = Tail(inbox[s][e])]
  BY Zenon DEF Wait, GoTo

(* The goroutines of initProtocol only talk, until they map memory. *)
LEMMA Talk ==
  ASSUME TypeOK, NEW s \in Sess, clientInit(s) \/ serverInit(s)
  PROVE  /\ UNCHANGED <<memType, main, bm, qm, bms, bufferFile, queueFile, leaked, apart>>
         /\ \E e \in Ends, x \in InitSteps :
               init[s][e] # "none" /\ init' = [init EXCEPT ![s][e] = x]
         /\ \A t \in Sess \ {s} : inbox'[t] = inbox[t]
<1> DEFINE Q == /\ UNCHANGED <<memType, main, bm, qm, bms, bufferFile, queueFile, leaked, apart>>
                /\ \E e \in Ends, x \in InitSteps :
                      init[s][e] # "none" /\ init' = [init EXCEPT ![s][e] = x]
                /\ \A t \in Sess \ {s} : inbox'[t] = inbox[t]
<1>1. ASSUME NEW e \in Ends, NEW from, NEW m, NEW to \in InitSteps, from # "none",
             Send(s, e, from, m, to)
      PROVE  Q
  <2>1. UNCHANGED <<memType, main, bm, qm, bms, bufferFile, queueFile, leaked, apart>>
    BY <1>1, Zenon DEF Send
  <2>2. \A t \in Sess \ {s} : inbox'[t] = inbox[t]
    <3>1. inbox' = inbox \/ \E q : inbox' = [inbox EXCEPT ![s][Peer(e)] = q]
      BY <1>1, Posted
    <3> QED BY <3>1, Zenon DEF TypeOK
  <2>3. \E x \in InitSteps : init[s][e] # "none" /\ init' = [init EXCEPT ![s][e] = x]
    BY <1>1, Posted DEF InitSteps
  <2> QED BY <2>1, <2>2, <2>3, Zenon
<1>2. ASSUME NEW e \in Ends, NEW from, NEW type, NEW to \in InitSteps, from # "none",
             Wait(s, e, from, type, to)
      PROVE  Q
  <2>1. UNCHANGED <<memType, main, bm, qm, bms, bufferFile, queueFile, leaked, apart>>
    BY <1>2, Zenon DEF Wait
  <2>2. \A t \in Sess \ {s} : inbox'[t] = inbox[t]
    <3>1. inbox' = inbox \/ \E q : inbox' = [inbox EXCEPT ![s][e] = q]
      BY <1>2, Fetched
    <3> QED BY <3>1, Zenon DEF TypeOK
  <2>3. \E x \in InitSteps : init[s][e] # "none" /\ init' = [init EXCEPT ![s][e] = x]
    BY <1>2, Fetched DEF InitSteps
  <2> QED BY <2>1, <2>2, <2>3, Zenon
<1>3. "client" \in Ends /\ "server" \in Ends
  BY Zenon DEF Ends
<1>4. CASE sendMemFdToPeer(s)
  <2>1. CASE /\ init[s]["client"] = "sendFd" /\ GoTo(s, "client", "fail")
             /\ UNCHANGED <<memType, plan, main, bm, qm, open, inbox, bms, bufferFile,
                            queueFile, leaked, apart>>
    BY <1>3, <2>1, Zenon DEF GoTo, InitSteps
  <2> QED BY <1>1, <1>2, <1>3, <1>4, <2>1, Zenon DEF sendMemFdToPeer, InitSteps
<1>5. CASE clientInit(s)
  BY <1>1, <1>2, <1>3, <1>4, <1>5, Zenon DEF clientInit, sendShareMemoryByFilePath,
     clientGetProtocolInitializer, InitSteps
<1>6. CASE serverInit(s)
  BY <1>1, <1>2, <1>3, <1>6, Zenon DEF serverInit, serverGetProtocolInitializer, handleExchangeVersion,
     handleShareMemoryByMemFd, InitSteps
<1> QED BY <1>5, <1>6, Zenon

(* A step of a session leaves the others alone, and comes of its dialling   *)
(* or after it.                                                             *)
LEMMA Local ==
  ASSUME IInv, DialInv, NEW s \in Sess, Step(s)
  PROVE  /\ \A t \in Sess \ {s} : /\ main'[t] = main[t] /\ init'[t] = init[t]
                                  /\ bm'[t] = bm[t] /\ qm'[t] = qm[t] /\ inbox'[t] = inbox[t]
         /\ main'[s]["client"] # "idle"
<1> DEFINE Q == /\ \A t \in Sess \ {s} : /\ main'[t] = main[t] /\ init'[t] = init[t]
                                  /\ bm'[t] = bm[t] /\ qm'[t] = qm[t] /\ inbox'[t] = inbox[t]
                /\ main'[s]["client"] # "idle"
<1> "client" \in Ends /\ "server" \in Ends /\ TypeOK
  BY Zenon DEF Ends, IInv
<1>1. init[s]["client"] # "none" \/ init[s]["server"] # "none" => main[s]["client"] # "idle"
  BY Zenon DEF IInv, FlowInv, DialInv, Started
<1>2. \A e \in Ends : main[s][e] # "idle" => main[s]["client"] # "idle"
  BY Zenon DEF DialInv, Started, Ends
<1>3. CASE initMemManager(s)
  <2>1. /\ inbox' = inbox /\ \E x \in {"error", "wait"} : main' = [main EXCEPT ![s]["client"] = x]
        /\ init' = init \/ \E x : init' = [init EXCEPT ![s]["client"] = x]
    BY <1>3, Zenon DEF initMemManager
  <2>2. /\ bm' = bm \/ \E x : bm' = [bm EXCEPT ![s]["client"] = x]
        /\ qm' = qm \/ \E x : qm' = [qm EXCEPT ![s]["client"] = x]
    BY <1>3, SMTT(30) DEF initMemManager
  <2>3. main'[s]["client"] # "idle" /\ \A t \in Sess \ {s} : main'[t] = main[t] /\ init'[t] = init[t]
    BY <2>1 DEF TypeOK
  <2>4. \A t \in Sess \ {s} : bm'[t] = bm[t] /\ qm'[t] = qm[t]
    BY <2>2, Zenon DEF TypeOK
  <2> QED BY <2>1, <2>3, <2>4, Zenon
<1>4. CASE Accept(s)
  BY <1>4, Zenon DEF Accept, TypeOK, Started
<1>5. CASE clientInit(s) \/ serverInit(s)
  <2>1. \A t \in Sess \ {s} : init'[t] = init[t]
    BY <1>5, Talk, ZenonT(30) DEF TypeOK
  <2>2. main[s]["client"] # "idle"
    BY <1>1, <1>5, Talk, Zenon DEF Ends
  <2> QED BY <1>5, <2>1, <2>2, Talk, Zenon
<1>6. CASE mapQueue(s)
  <2>1. init[s]["server"] # "none"
    BY <1>6, Zenon DEF mapQueue
  <2> QED BY <1>1, <1>6, <2>1, Zenon DEF mapQueue, GoTo, TypeOK
<1>7. CASE getBuffer(s)
  <2>1. init[s]["server"] # "none" /\ UNCHANGED <<main, qm>>
    BY <1>7, Zenon DEF getBuffer
  <2>2. \A t \in Sess \ {s} : init'[t] = init[t] /\ inbox'[t] = inbox[t]
    BY <1>7, Zenon DEF getBuffer, GoTo, TypeOK
  <2>3. \A t \in Sess \ {s} : bm'[t] = bm[t]
    BY <1>7, Zenon DEF getBuffer, TypeOK
  <2> QED BY <1>1, <2>1, <2>2, <2>3, Zenon
<1>8. ASSUME NEW e \in Ends,
             initProtocol(s, e) \/ Finalize(s, e) \/ Close(s, e) \/ CloseSocket(s, e)
      PROVE  Q
  <2>1. main[s][e] # "idle" /\ UNCHANGED <<init, inbox>>
    BY <1>8, Zenon DEF initProtocol, Finalize, Close, CloseSocket, sessionVars
  <2>2. main' = main \/ \E x \in {"open", "error", "shut", "gone"} : main' = [main EXCEPT ![s][e] = x]
    BY <1>8, Zenon DEF initProtocol, Finalize, Close, CloseSocket, sessionVars
  <2>3. /\ bm' = bm \/ bm' = [bm EXCEPT ![s][e] = None]
        /\ qm' = qm \/ qm' = [qm EXCEPT ![s][e] = None]
    BY <1>8, Zenon DEF initProtocol, Finalize, Close, CloseSocket, sessionVars, GiveBack
  <2>4. \A t \in Sess \ {s} : main'[t] = main[t]
    BY <2>2, Zenon DEF TypeOK
  <2>5. main'[s]["client"] # "idle"
    BY <1>2, <2>1, <2>2, ZenonT(30) DEF TypeOK
  <2>6. \A t \in Sess \ {s} : bm'[t] = bm[t] /\ qm'[t] = qm[t]
    BY <2>3, Zenon DEF TypeOK
  <2> QED BY <2>1, <2>4, <2>5, <2>6, Zenon
<1> QED BY <1>3, <1>4, <1>5, <1>6, <1>7, <1>8, Zenon DEF Step

(* No step forgets that its session was dialled. *)
LEMMA DialPreserved == IInv /\ DialInv /\ [Next]_vars => DialInv'
<1> SUFFICES ASSUME IInv, DialInv, [Next]_vars PROVE DialInv'
  BY Zenon
<1>1. ASSUME NEW s \in Sess, Step(s) PROVE DialInv'
  BY <1>1, Local, Zenon DEF DialInv, Started
<1>2. CASE UNCHANGED vars
  BY <1>2, Zenon DEF DialInv, Started, vars, sessionVars
<1> QED BY <1>1, <1>2, Zenon DEF Next, Step

(* Nothing is dialled at first. *)
LEMMA InitDial == Init => DialInv
  BY DEF Init, Both, Ends, DialInv, Started
-----------------------------------------------------------------------------
(* Where newSession has memory to give back. *)
Busy == {"wait", "open"}

(* A file in the file system belongs to a client's end that will remove it: *)
(* the buffer path leads to the region of the client's table, a queue path  *)
(* to that of a session whose client end has yet to close, or forgot to.    *)
FileInv ==
    /\ \A e \in Ends : bms[e] # NoBM => bms[e].refCount # 0
    /\ bufferFile # None => /\ memType = "file" /\ bms["client"] # NoBM
                            /\ bufferFile = bms["client"].region
    /\ \A i \in Ids : queueFile[i] # None =>
          /\ memType = "file" /\ queueFile[i] \in Sess /\ Id[queueFile[i]] = i
          /\ main[queueFile[i]]["client"] \in Busy \/ leaked["client"] # 0
    /\ \A s \in Sess :
          /\ main[s]["client"] \in Busy => bm[s]["client"] # None /\ qm[s]["client"] = s
          /\ bm[s]["client"] # None => main[s]["client"] \in Busy

(* A step that leaves the memory of the client's ends and the files alone. *)
LEMMA FileSame ==
  ASSUME FileInv, UNCHANGED <<memType, bufferFile, queueFile>>,
         bms'["client"] = bms["client"],
         \A e \in Ends : bms'[e] = bms[e] \/ bms'[e].refCount # 0,
         leaked["client"] # 0 => leaked'["client"] # 0,
         \A t \in Sess : /\ main'[t]["client"] \in Busy <=> main[t]["client"] \in Busy
                         /\ bm'[t]["client"] = bm[t]["client"]
                         /\ qm'[t]["client"] = qm[t]["client"]
  PROVE  FileInv'
<1>1. \A i \in Ids : queueFile'[i] # None =>
         /\ memType' = "file" /\ queueFile'[i] \in Sess /\ Id[queueFile'[i]] = i
         /\ main'[queueFile'[i]]["client"] \in Busy \/ leaked'["client"] # 0
  BY Zenon DEF FileInv
<1>2. \A e \in Ends : bms'[e] # NoBM => bms'[e].refCount # 0
  BY Zenon DEF FileInv
<1>3. \A s \in Sess :
         /\ main'[s]["client"] \in Busy => bm'[s]["client"] # None /\ qm'[s]["client"] = s
         /\ bm'[s]["client"] # None => main'[s]["client"] \in Busy
  BY Zenon DEF FileInv
<1> QED BY <1>1, <1>2, <1>3, Zenon DEF FileInv, Ids

(* What GiveBack does to the tables and the files. *)
LEMMA Gave ==
  ASSUME TypeOK, FileInv, NEW s \in Sess, NEW e \in Ends, GiveBack(s, e)
  PROVE  /\ \A f \in Ends :
               \/ bms'[f] = bms[f]
               \/ f = e /\ bms'[f] = NoBM /\ (memType = "file" => bufferFile' = None)
               \/ /\ f = e /\ bms[f] # NoBM /\ bms'[f] # NoBM
                  /\ bms'[f].region = bms[f].region /\ bms'[f].refCount # 0
         /\ bufferFile' \in {bufferFile, None}
<1>1. CASE bm[s][e] = None
  BY <1>1, Zenon DEF GiveBack
<1>2. CASE bm[s][e] # None
  <2>1. /\ bms' = IF LastReference(e) THEN [bms EXCEPT ![e] = NoBM]
                  ELSE [bms EXCEPT ![e].refCount = @ - 1]
        /\ bufferFile' = IF LastReference(e) /\ memType = "file" THEN None ELSE bufferFile
    BY <1>2, Zenon DEF GiveBack, GiveBackBuffer
  <2>2. \A f \in Ends \ {e} : bms'[f] = bms[f]
    BY <2>1, Zenon DEF TypeOK
  <2>3. CASE LastReference(e)
    <3>1. bms'[e] = NoBM
      BY <2>1, <2>3, Zenon DEF TypeOK
    <3> QED BY <2>1, <2>2, <2>3, <3>1, Zenon
  <2>4. CASE ~LastReference(e)
    <3>1. bms[e] \in [region : Nat, refCount : Nat] /\ bms[e].refCount > 1
      BY <2>4 DEF LastReference, TypeOK
    <3>2. bms'[e] = [bms[e] EXCEPT !.refCount = bms[e].refCount - 1]
      BY <2>1, <2>4, Zenon DEF TypeOK
    <3>3. bms'[e].region = bms[e].region /\ bms'[e].refCount = bms[e].refCount - 1
      BY <3>1, <3>2, Zenon
    <3>4. bms'[e].refCount # 0 /\ bms[e].refCount # 0
      BY <3>1, <3>3
    <3>5. bms'[e] # NoBM /\ bms[e] # NoBM
      BY <3>4 DEF NoBM
    <3> QED BY <2>1, <2>2, <2>4, <3>3, <3>4, <3>5, Zenon
  <2> QED BY <2>3, <2>4, Zenon
<1> QED BY <1>1, <1>2, Zenon

(* A session that ends removes the files that lead to its memory. *)
LEMMA FileGiven ==
  ASSUME TypeOK, FileInv, NEW s \in Sess, NEW e \in Ends, main[s][e] \in Busy,
         NEW x \in {"error", "shut"}, main' = [main EXCEPT ![s][e] = x], GiveBack(s, e),
         memType' = memType, leaked' = leaked
  PROVE  FileInv'
<1>1. main'[s][e] = x /\ \A t \in Sess, d \in Ends : t # s \/ d # e => main'[t][d] = main[t][d]
  BY Cell DEF TypeOK
<1>2. /\ bm'[s][e] = None /\ qm'[s][e] = None
      /\ \A t \in Sess, d \in Ends : t # s \/ d # e => bm'[t][d] = bm[t][d] /\ qm'[t][d] = qm[t][d]
  BY Cell, ZenonT(30) DEF TypeOK, GiveBack
<1>3. x \notin Busy /\ "client" \in Ends
  BY Zenon DEF Busy, Ends
<1>4. \A t \in Sess :
         /\ main'[t]["client"] \in Busy => bm'[t]["client"] # None /\ qm'[t]["client"] = t
         /\ bm'[t]["client"] # None => main'[t]["client"] \in Busy
  BY <1>1, <1>2, <1>3 DEF FileInv
<1>5. \A f \in Ends : bms'[f] # NoBM => bms'[f].refCount # 0
  BY Gave, Zenon DEF FileInv
<1>6. bufferFile' # None => /\ memType = "file" /\ bms'["client"] # NoBM
                            /\ bufferFile' = bms'["client"].region
  <2> SUFFICES ASSUME bufferFile' # None
               PROVE  /\ memType = "file" /\ bms'["client"] # NoBM
                      /\ bufferFile' = bms'["client"].region
    BY Zenon
  <2>1. bufferFile' = bufferFile
    BY Gave, Zenon
  <2>2. memType = "file" /\ bms["client"] # NoBM /\ bufferFile = bms["client"].region
    BY <2>1, Zenon DEF FileInv
  <2>3. bms'["client"] # NoBM /\ bms'["client"].region = bms["client"].region
    BY <1>3, <2>2, Gave, Zenon
  <2> QED BY <2>1, <2>2, <2>3, Zenon
<1>7. ASSUME NEW i \in Ids, queueFile'[i] # None
      PROVE  /\ memType = "file" /\ queueFile'[i] \in Sess /\ Id[queueFile'[i]] = i
             /\ main'[queueFile'[i]]["client"] \in Busy \/ leaked'["client"] # 0
  <2>1. queueFile' = queueFile \/ queueFile' = [queueFile EXCEPT ![Id[s]] = None]
    BY Zenon DEF GiveBack
  <2>2. queueFile'[i] = queueFile[i] /\ (queueFile' # queueFile => i # Id[s])
    BY <1>7, <2>1, Zenon DEF TypeOK, Ids
  <2>3. /\ memType = "file" /\ queueFile[i] \in Sess /\ Id[queueFile[i]] = i
        /\ main[queueFile[i]]["client"] \in Busy \/ leaked["client"] # 0
    BY <1>7, <2>2, Zenon DEF FileInv
  <2>4. ASSUME queueFile[i] = s, e = "client" PROVE FALSE
    <3>1. qm[s][e] # None
      BY <2>4, HandshakeAssumption, Zenon DEF FileInv, None
    <3>2. queueFile' = [queueFile EXCEPT ![Id[s]] = None] /\ Id[s] = i
      BY <2>3, <2>4, <3>1, Zenon DEF GiveBack
    <3> QED BY <1>7, <3>2, Zenon DEF TypeOK
  <2> QED BY <1>1, <1>3, <2>2, <2>3, <2>4
<1> QED BY <1>4, <1>5, <1>6, <1>7, Zenon DEF FileInv, Ids

(* A dialled session finds no file of an earlier one, and its own lead to   *)
(* the memory it made.                                                      *)
LEMMA FileMade ==
  ASSUME IInv, FileInv, NEW s \in Sess, main[s]["client"] = "idle", memType' = memType,
         bms' = [bms EXCEPT !["client"] = getGlobalBufferManager("client", s)],
         bufferFile' = IF bms["client"] = NoBM /\ memType = "file" THEN s ELSE bufferFile,
         \/ /\ queueFile' = [queueFile EXCEPT ![Id[s]] = None]
            /\ leaked' = [leaked EXCEPT !["client"] = leaked["client"] + 1]
            /\ main' = [main EXCEPT ![s]["client"] = "error"] /\ UNCHANGED <<bm, qm>>
         \/ /\ queueFile' = IF memType = "file" THEN [queueFile EXCEPT ![Id[s]] = s] ELSE queueFile
            /\ bm' = [bm EXCEPT ![s]["client"] = bms'["client"].region]
            /\ qm' = [qm EXCEPT ![s]["client"] = s]
            /\ main' = [main EXCEPT ![s]["client"] = "wait"] /\ leaked' = leaked
  PROVE  FileInv'
<1> DEFINE c == "client"
           g == getGlobalBufferManager(c, s)
           created == bms[c] = NoBM /\ memType = "file"
<1>1. main[s][c] = "idle" /\ memType' = memType /\ c \in Ends
  BY Zenon DEF Ends
<1>2. s \in Nat /\ s # None /\ Id[s] \in Ids /\ TypeOK
  BY HandshakeAssumption, Zenon DEF None, Ids, IInv
<1>3. g \in [region : Nat, refCount : Nat] /\ g.region # None
  BY <1>1, <1>2, Got, Zenon DEF IInv
<1>5. /\ bms' = [bms EXCEPT ![c] = g]
      /\ bufferFile' = IF created THEN s ELSE bufferFile
  OBVIOUS
<1>6. bms'[c] = g /\ \A e \in Ends \ {c} : bms'[e] = bms[e]
  BY <1>1, <1>2, <1>5, Zenon DEF TypeOK
<1>7. g.refCount # 0 /\ (bms[c] = NoBM => g.region = s) /\ (bms[c] # NoBM => g.region = bms[c].region)
  <2>1. CASE bms[c] = NoBM
    BY <2>1 DEF getGlobalBufferManager
  <2>2. CASE bms[c] # NoBM
    <3>1. bms[c] \in [region : Nat, refCount : Nat]
      BY <1>1, <1>2, Zenon DEF TypeOK
    <3> QED BY <2>2, <3>1 DEF getGlobalBufferManager
  <2> QED BY <2>1, <2>2, Zenon
<1>8. \A e \in Ends : bms'[e] # NoBM => bms'[e].refCount # 0
  BY <1>6, <1>7, Zenon DEF FileInv
<1>9. bufferFile' # None => /\ memType = "file" /\ bms'[c] # NoBM
                            /\ bufferFile' = bms'[c].region
  <2>1. g # NoBM
    BY <1>3 DEF NoBM
  <2>2. CASE created
    BY <1>5, <1>6, <1>7, <2>1, <2>2, Zenon
  <2>3. CASE ~created
    BY <1>5, <1>6, <1>7, <2>1, <2>3, Zenon DEF FileInv
  <2> QED BY <2>2, <2>3, Zenon
<1>10. ASSUME queueFile' = [queueFile EXCEPT ![Id[s]] = None],
              leaked' = [leaked EXCEPT ![c] = leaked[c] + 1],
              main' = [main EXCEPT ![s][c] = "error"], UNCHANGED <<bm, qm>>
       PROVE  FileInv'
  <2>1. main'[s][c] = "error" /\ \A t \in Sess, d \in Ends : t # s \/ d # c => main'[t][d] = main[t][d]
    BY <1>1, <1>2, <1>10, Cell, SMTT(30) DEF TypeOK
  <2>2. \A i \in Ids : queueFile'[i] \in {None, queueFile[i]}
    BY <1>2, <1>10, Zenon DEF TypeOK, Ids
  <2>3. \A t \in Sess : main'[t][c] \in Busy <=> main[t][c] \in Busy
    BY <1>1, <2>1, Zenon DEF Busy
  <2>4. \A i \in Ids : queueFile'[i] # None =>
          /\ memType = "file" /\ queueFile'[i] \in Sess /\ Id[queueFile'[i]] = i
          /\ main'[queueFile'[i]][c] \in Busy \/ leaked'[c] # 0
    <3>1. leaked'[c] # 0
      <4>1. leaked[c] \in Nat /\ leaked'[c] = leaked[c] + 1
        BY <1>1, <1>2, <1>10, Zenon DEF TypeOK
      <4> QED BY <4>1
    <3> QED BY <2>2, <3>1, Zenon DEF FileInv
  <2>5. \A t \in Sess :
          /\ main'[t][c] \in Busy => bm'[t][c] # None /\ qm'[t][c] = t
          /\ bm'[t][c] # None => main'[t][c] \in Busy
    BY <1>10, <2>3, SMTT(30) DEF FileInv
  <2> QED BY <1>1, <1>8, <1>9, <2>4, <2>5, Zenon DEF FileInv, Ids
<1>11. ASSUME queueFile' = IF memType = "file" THEN [queueFile EXCEPT ![Id[s]] = s] ELSE queueFile,
              bm' = [bm EXCEPT ![s][c] = bms'[c].region], qm' = [qm EXCEPT ![s][c] = s],
              main' = [main EXCEPT ![s][c] = "wait"], leaked' = leaked
       PROVE  FileInv'
  <2>1. main'[s][c] = "wait" /\ \A t \in Sess, d \in Ends : t # s \/ d # c => main'[t][d] = main[t][d]
    BY <1>1, <1>2, <1>11, Cell, SMTT(30) DEF TypeOK
  <2>2. bm'[s][c] = g.region /\ \A t \in Sess, d \in Ends : t # s \/ d # c => bm'[t][d] = bm[t][d]
    BY <1>1, <1>2, <1>6, <1>11, Cell, SMTT(30) DEF TypeOK
  <2>3. qm'[s][c] = s /\ \A t \in Sess, d \in Ends : t # s \/ d # c => qm'[t][d] = qm[t][d]
    BY <1>1, <1>2, <1>11, Cell DEF TypeOK
  <2>4. \A i \in Ids : \/ queueFile'[i] = queueFile[i]
                       \/ memType = "file" /\ i = Id[s] /\ queueFile'[i] = s
    <3>1. queueFile \in [Ids -> Nat]
      BY <1>2, Zenon DEF TypeOK
    <3> QED BY <1>2, <1>11, <3>1, Zenon
  <2>5. \A t \in Sess : main[t][c] \in Busy => t # s /\ main'[t][c] \in Busy
    BY <1>1, <2>1, Zenon DEF Busy
  <2>6. main'[s][c] \in Busy
    BY <2>1, SMTT(30) DEF Busy
  <2>7. \A i \in Ids : queueFile'[i] # None =>
          /\ memType = "file" /\ queueFile'[i] \in Sess /\ Id[queueFile'[i]] = i
          /\ main'[queueFile'[i]][c] \in Busy \/ leaked'[c] # 0
    BY <1>11, <2>4, <2>5, <2>6, SMTT(30) DEF FileInv
  <2>8. \A t \in Sess :
          /\ main'[t][c] \in Busy => bm'[t][c] # None /\ qm'[t][c] = t
          /\ bm'[t][c] # None => main'[t][c] \in Busy
    BY <1>1, <1>3, <2>1, <2>2, <2>3, <2>6 DEF FileInv
  <2> QED BY <1>1, <1>8, <1>9, <2>7, <2>8, SMTT(30) DEF FileInv, Ids
<1> QED BY <1>10, <1>11, Zenon

(* Without memory in the client's table there is no file of it, so that a   *)
(* failing creation has none to remove.                                     *)
LEMMA FileDialled ==
  ASSUME IInv, FileInv, NEW s \in Sess, initMemManager(s)
  PROVE  FileInv'
<1>1. main[s]["client"] = "idle" /\ memType' = memType
  BY Zenon DEF initMemManager, MayDial, Started
<1>2. bms["client"] = NoBM => bufferFile = None
  BY Zenon DEF FileInv
<1>3. CASE /\ bms["client"] = NoBM /\ bufferFile' = None
           /\ main' = [main EXCEPT ![s]["client"] = "error"]
           /\ UNCHANGED <<bm, qm, bms, queueFile, leaked>>
  <2>1. \A t \in Sess : main'[t]["client"] \in Busy <=> main[t]["client"] \in Busy
    BY <1>1, <1>3, Zenon DEF IInv, TypeOK, Ends, Busy
  <2> QED BY <1>1, <1>2, <1>3, <2>1, FileSame, Zenon
<1> QED BY <1>1, <1>3, FileMade, Zenon DEF initMemManager

(* Every step keeps the files in order. *)
LEMMA FilePreserved == IInv /\ FileInv /\ [Next]_vars => FileInv'
<1> SUFFICES ASSUME IInv, FileInv, [Next]_vars PROVE FileInv'
  BY Zenon
<1> "client" \in Ends /\ "server" \in Ends /\ TypeOK
  BY Zenon DEF Ends, IInv
<1>1. ASSUME NEW s \in Sess, initMemManager(s) PROVE FileInv'
  BY <1>1, FileDialled, Zenon
<1>2. ASSUME NEW s \in Sess, Accept(s) \/ mapQueue(s) PROVE FileInv'
  <2>1. UNCHANGED <<memType, bm, bms, bufferFile, queueFile, leaked>>
    BY <1>2, Zenon DEF Accept, mapQueue
  <2>2. \A t \in Sess : main'[t]["client"] = main[t]["client"] /\ qm'[t]["client"] = qm[t]["client"]
    <3>1. /\ main' = main \/ main' = [main EXCEPT ![s]["server"] = "wait"]
          /\ qm' = qm \/ \E r : qm' = [qm EXCEPT ![s]["server"] = r]
      BY <1>2, Zenon DEF Accept, mapQueue
    <3>2. ASSUME NEW r, qm' = [qm EXCEPT ![s]["server"] = r]
          PROVE  \A t \in Sess, d \in Ends : d # "server" => qm'[t][d] = qm[t][d]
      BY <3>2, Cell, Zenon DEF TypeOK
    <3>3. \A t \in Sess, d \in Ends : d # "server" => main'[t][d] = main[t][d]
      <4>1. CASE main' = [main EXCEPT ![s]["server"] = "wait"]
        BY <4>1, Cell, Zenon DEF TypeOK
      <4> QED BY <3>1, <4>1, Zenon
    <3> QED BY <3>1, <3>2, <3>3, Zenon
  <2> QED BY <2>1, <2>2, FileSame, Zenon
<1>3. ASSUME NEW s \in Sess, clientInit(s) \/ serverInit(s) PROVE FileInv'
  BY <1>3, Talk, FileSame, Zenon
<1>4. ASSUME NEW s \in Sess, getBuffer(s) PROVE FileInv'
  <2>1. UNCHANGED <<memType, main, qm, bufferFile, queueFile>>
    BY <1>4, Zenon DEF getBuffer
  <2>2. bms' = bms \/ bms' = [bms EXCEPT !["server"] = bms'["server"]]
    BY <1>4, Zenon DEF getBuffer
  <2>3. bms'["client"] = bms["client"]
    BY <2>2, SMTT(30) DEF TypeOK
  <2>4. \A t \in Sess : bm'[t]["client"] = bm[t]["client"]
    <3>1. bm' = bm \/ \E r : bm' = [bm EXCEPT ![s]["server"] = r]
      BY <1>4, Zenon DEF getBuffer
    <3>2. \A t \in Sess, d \in Ends : d # "server" => bm'[t][d] = bm[t][d]
      <4>1. CASE bm' = bm
        BY <4>1, Zenon
      <4>2. ASSUME NEW r, bm' = [bm EXCEPT ![s]["server"] = r]
            PROVE  \A t \in Sess, d \in Ends : d # "server" => bm'[t][d] = bm[t][d]
        BY <4>2, Cell, Zenon DEF TypeOK
      <4> QED BY <3>1, <4>1, <4>2, Zenon
    <3> QED BY <3>2, Zenon
  <2>5. bms'["server"] = bms["server"] \/ bms'["server"].refCount # 0
    <3>1. \A r : getGlobalBufferManager("server", r).refCount # 0
      <4>1. bms["server"] \in [region : Nat, refCount : Nat]
        BY Zenon DEF TypeOK
      <4> QED BY <4>1 DEF getGlobalBufferManager
    <3>2. bms' = bms \/ \E r : bms' = [bms EXCEPT !["server"] = getGlobalBufferManager("server", r)]
      BY <1>4, Zenon DEF getBuffer
    <3> QED BY <3>1, <3>2, SMTT(30) DEF TypeOK
  <2>6. \A e \in Ends : bms'[e] = bms[e] \/ bms'[e].refCount # 0
    BY <2>3, <2>5, Zenon DEF Ends
  <2>7. leaked'["client"] = leaked["client"]
    BY <1>4, Zenon DEF getBuffer, TypeOK
  <2> QED BY <2>1, <2>3, <2>4, <2>6, <2>7, FileSame, Zenon
<1>5. ASSUME NEW s \in Sess, NEW e \in Ends, initProtocol(s, e) PROVE FileInv'
  <2>1. main[s][e] \in Busy /\ memType' = memType
    BY <1>5, Zenon DEF initProtocol, Busy
  <2>2. CASE main' = [main EXCEPT ![s][e] = "open"] /\ UNCHANGED <<bm, qm, bms, bufferFile, queueFile, leaked>>
    <3>1. \A t \in Sess : main'[t]["client"] \in Busy <=> main[t]["client"] \in Busy
      BY <2>1, <2>2, Zenon DEF TypeOK, Busy
    <3> QED BY <2>1, <2>2, <3>1, FileSame, Zenon
  <2>3. CASE GiveBack(s, e) /\ main' = [main EXCEPT ![s][e] = "error"] /\ UNCHANGED leaked
    BY <2>1, <2>3, FileGiven, Zenon
  <2>4. CASE /\ bm' = [bm EXCEPT ![s][e] = None] /\ qm' = [qm EXCEPT ![s][e] = None]
             /\ leaked' = IF bm[s][e] = None THEN leaked ELSE [leaked EXCEPT ![e] = leaked[e] + 1]
             /\ main' = [main EXCEPT ![s][e] = "error"] /\ UNCHANGED <<bms, bufferFile, queueFile>>
    <3>1. main'[s][e] = "error" /\ \A t \in Sess, d \in Ends : t # s \/ d # e => main'[t][d] = main[t][d]
      BY <2>4, Cell DEF TypeOK
    <3>2. /\ bm'[s][e] = None /\ qm'[s][e] = None
          /\ \A t \in Sess, d \in Ends : t # s \/ d # e => bm'[t][d] = bm[t][d] /\ qm'[t][d] = qm[t][d]
      BY <2>4, Cell, ZenonT(30) DEF TypeOK
    <3>3. CASE e = "server"
      <4>1. leaked'["client"] = leaked["client"]
        BY <2>4, <3>3, Zenon DEF TypeOK
      <4> QED BY <2>1, <2>4, <3>1, <3>2, <3>3, <4>1, FileSame, Zenon
    <3>4. CASE e = "client"
      <4>1. leaked'["client"] # 0
        <5>1. bm[s][e] # None
          BY <2>1, <3>4, Zenon DEF FileInv
        <5>2. leaked[e] \in Nat /\ leaked'[e] = leaked[e] + 1
          BY <2>4, <5>1, Zenon DEF TypeOK
        <5> QED BY <3>4, <5>2
      <4>2. \A t \in Sess :
               /\ main'[t]["client"] \in Busy => bm'[t]["client"] # None /\ qm'[t]["client"] = t
               /\ bm'[t]["client"] # None => main'[t]["client"] \in Busy
        <5>1. "error" \notin Busy
          BY Zenon DEF Busy
        <5> QED BY <3>1, <3>2, <3>4, <5>1 DEF FileInv
      <4> QED BY <2>1, <2>4, <4>1, <4>2, Zenon DEF FileInv, Ids
    <3> QED BY <3>3, <3>4, Zenon DEF Ends
  <2> QED BY <1>5, <2>2, <2>3, <2>4, Zenon DEF initProtocol
<1>6. ASSUME NEW s \in Sess, NEW e \in Ends, Close(s, e) PROVE FileInv'
  BY <1>6, FileGiven, Zenon DEF Close, Busy
<1>7. ASSUME NEW s \in Sess, NEW e \in Ends, Finalize(s, e) \/ CloseSocket(s, e) PROVE FileInv'
  <2>1. UNCHANGED <<memType, bm, qm, bms, bufferFile, queueFile, leaked>>
    BY <1>7, Zenon DEF Finalize, CloseSocket, sessionVars
  <2>2. \A t \in Sess : main'[t]["client"] \in Busy <=> main[t]["client"] \in Busy
    <3>1. main' = main \/ (main[s][e] = "shut" /\ main' = [main EXCEPT ![s][e] = "gone"])
      BY <1>7, Zenon DEF Finalize, CloseSocket, sessionVars
    <3>2. \A t \in Sess, d \in Ends : t # s \/ d # e => main'[t][d] = main[t][d]
      <4>1. CASE main' = [main EXCEPT ![s][e] = "gone"]
        BY <4>1, Cell DEF TypeOK
      <4> QED BY <3>1, <4>1, Zenon
    <3>3. main' = main \/ (main[s][e] = "shut" /\ main'[s][e] = "gone")
      BY <3>1, Cell, SMTT(30) DEF TypeOK
    <3> QED BY <3>2, <3>3, Zenon DEF Busy
  <2> QED BY <2>1, <2>2, FileSame, Zenon
<1>8. CASE UNCHANGED vars
  BY <1>8, FileSame, SMTT(30) DEF vars, sessionVars
<1> QED BY <1>1, <1>2, <1>3, <1>4, <1>5, <1>6, <1>7, <1>8, Zenon DEF Next

(* There is no file at first. *)
LEMMA InitFile == Init => FileInv
<1> SUFFICES ASSUME Init PROVE FileInv
  BY Zenon
<1>1. \A s \in Sess : main[s]["client"] = "idle" /\ bm[s]["client"] = None
  BY Zenon DEF Init, Both, Ends
<1>2. bufferFile = None /\ \A i \in Ids : queueFile[i] = None
  BY Zenon DEF Init
<1>3. \A e \in Ends : bms[e] = NoBM
  BY Zenon DEF Init
<1> QED BY <1>1, <1>2, <1>3, Zenon DEF FileInv, Busy
-----------------------------------------------------------------------------
(* The descriptors that a client sends are those of its own memory: of the  *)
(* queue of session s, and of table b unless its region is one of a.        *)
Good(s, b, a, m) ==
    m.type = "fd" => m.qm = s /\ (b # NoBM /\ b.region \notin a => m.bm = b.region)

(* What a session has mapped at the server, or may yet map, is its own.     *)
OwnMemory(s) ==
    /\ init[s]["server"] \notin {"ok", "fail"} =>
          \A i \in 1..Len(inbox[s]["server"]) : Good(s, bms["client"], apart, inbox[s]["server"][i])
    /\ memType = "memfd" /\ init[s]["server"] = "getBuffer" =>
          Head(inbox[s]["server"]).type = "fd"
    /\ main[s]["client"] \in Busy => queueFile[Id[s]] \in {None, s}
    /\ main[s]["server"] \in Busy =>
          /\ main[s]["client"] \in Busy /\ init[s]["server"] \in {"getBuffer", "sendAck", "ok"} =>
                qm[s]["server"] = s
          /\ init[s]["server"] \in {"sendAck", "ok"} => bm[s]["server"] # None

(* The tables of the two processes hold the same memory, unless the         *)
(* client's was made while the server had an older one.                     *)
SameRegion ==
    bms["client"] # NoBM /\ bms["server"] # NoBM /\ bms["client"].region \notin apart =>
        bms["client"].region = bms["server"].region

MemInv == SameRegion /\ \A s \in Sess : OwnMemory(s)

(* The client's table keeps its memory, becomes empty or leaves the server's. *)
Kept ==
    \/ bms'["client"] = NoBM
    \/ bms["client"] # NoBM /\ bms'["client"].region = bms["client"].region
    \/ bms'["client"].region \in apart'

(* What was good stays so. *)
LEMMA GoodKept ==
  ASSUME Kept, apart \subseteq apart', NEW s, NEW m, Good(s, bms["client"], apart, m)
  PROVE  Good(s, bms'["client"], apart', m)
  BY Zenon DEF Good, Kept

(* A session that takes no step keeps its memory. *)
LEMMA OthersKeep ==
  ASSUME NEW t \in Sess, OwnMemory(t), memType' = memType,
         main'[t] = main[t], init'[t] = init[t], bm'[t] = bm[t], qm'[t] = qm[t],
         inbox'[t] = inbox[t], apart \subseteq apart',
         \/ Kept
         \/ init[t]["server"] \in {"ok", "fail"}
         \/ \A i \in 1..Len(inbox[t]["server"]) : inbox[t]["server"][i].type # "fd",
         main[t]["client"] \in Busy => queueFile'[Id[t]] \in {None, queueFile[Id[t]]}
  PROVE  OwnMemory(t)'
<1>1. ASSUME init[t]["server"] \notin {"ok", "fail"}, NEW i \in 1..Len(inbox[t]["server"])
      PROVE  Good(t, bms'["client"], apart', inbox[t]["server"][i])
  <2>1. Good(t, bms["client"], apart, inbox[t]["server"][i])
    BY <1>1, Zenon DEF OwnMemory
  <2>2. CASE Kept
    BY <2>1, <2>2, GoodKept, Zenon
  <2>3. CASE inbox[t]["server"][i].type # "fd"
    BY <2>3, Zenon DEF Good
  <2> QED BY <1>1, <2>2, <2>3, Zenon
<1>2. main[t]["client"] \in Busy => queueFile'[Id[t]] \in {None, t}
  BY Zenon DEF OwnMemory
<1> QED BY <1>1, <1>2, Zenon DEF OwnMemory

(* A client that makes a region finds the server without one, or counts     *)
(* the region as apart.                                                     *)
LEMMA DialKeeps ==
  ASSUME IInv, NEW s \in Sess, initMemManager(s)
  PROVE  /\ Kept \/ ~ServerHasRegion
         /\ apart \subseteq apart' /\ bms'["server"] = bms["server"]
<1> DEFINE c == "client"
           g == getGlobalBufferManager(c, s)
<1> TypeOK /\ c \in Ends /\ "server" \in Ends
  BY Zenon DEF IInv, Ends
<1>1. CASE bms[c] = NoBM /\ UNCHANGED <<bms, apart>>
  BY <1>1, Zenon DEF Kept
<1>2. CASE /\ bms' = [bms EXCEPT ![c] = g]
           /\ apart' = IF bms[c] = NoBM /\ ServerHasRegion THEN apart \cup {s} ELSE apart
  <2>1. bms'[c] = g /\ bms'["server"] = bms["server"] /\ apart \subseteq apart'
    BY <1>2, Zenon DEF TypeOK
  <2>2. CASE bms[c] # NoBM
    <3>1. bms[c] \in [region : Nat, refCount : Nat]
      BY SMTT(30) DEF TypeOK
    <3>2. g.region = bms[c].region
      BY <2>2, <3>1, Zenon DEF getGlobalBufferManager
    <3> QED BY <2>1, <2>2, <3>2, Zenon DEF Kept
  <2>3. CASE bms[c] = NoBM /\ ServerHasRegion
    <3>1. g.region = s /\ s \in apart'
      BY <1>2, <2>3, Zenon DEF getGlobalBufferManager
    <3> QED BY <2>1, <3>1, Zenon DEF Kept
  <2> QED BY <2>1, <2>2, <2>3, Zenon
<1> QED BY <1>1, <1>2, Zenon DEF initMemManager

(* Dialling. *)
LEMMA MemDialled ==
  ASSUME IInv, DialInv, FileInv, MemInv, NEW s \in Sess, initMemManager(s)
  PROVE  MemInv'
<1> DEFINE c == "client"
<1>1. MayDial(s) /\ UNCHANGED <<memType, inbox>> /\ ~Started(s) /\ c \in Ends /\ "server" \in Ends
      /\ TypeOK
  BY Zenon DEF initMemManager, MayDial, Ends, IInv
<1>2. \A t \in Sess \ {s} : /\ main'[t] = main[t] /\ init'[t] = init[t]
                            /\ bm'[t] = bm[t] /\ qm'[t] = qm[t] /\ inbox'[t] = inbox[t]
  BY Local, Zenon DEF Step
<1>3. queueFile' \in {queueFile, [queueFile EXCEPT ![Id[s]] = None], [queueFile EXCEPT ![Id[s]] = s]}
  BY SMTT(30) DEF initMemManager
<1>4. ASSUME NEW t \in Sess \ {s} PROVE OwnMemory(t)'
  <2>1. ASSUME main[t][c] \in Busy PROVE queueFile'[Id[t]] = queueFile[Id[t]]
    <3>1. Id[t] # Id[s]
      BY <1>1, <2>1, SMTT(30) DEF MayDial, Busy, Started
    <3>2. queueFile \in [Ids -> Nat] /\ Id[t] \in Ids
      BY <1>1, Zenon DEF TypeOK, Ids
    <3> QED BY <1>3, <3>1, <3>2, Zenon
  <2>2. \/ Kept
        \/ init[t]["server"] \in {"ok", "fail"}
        \/ \A i \in 1..Len(inbox[t]["server"]) : inbox[t]["server"][i].type # "fd"
    BY DialKeeps, Zenon DEF ServerHasRegion
  <2>3. OwnMemory(t) /\ apart \subseteq apart'
    BY DialKeeps, Zenon DEF MemInv
  <2> QED BY <1>1, <1>2, <2>1, <2>2, <2>3, OthersKeep, Zenon
<1>5. main'[s]["server"] = main[s]["server"] /\ init'[s]["server"] = init[s]["server"]
  <2>1. /\ \E x : main' = [main EXCEPT ![s][c] = x]
        /\ init' = init \/ \E x : init' = [init EXCEPT ![s][c] = x]
    BY SMTT(30) DEF initMemManager
  <2>2. main'[s]["server"] = main[s]["server"]
    BY <1>1, <2>1, Cell DEF TypeOK
  <2>3. ASSUME NEW x, init' = [init EXCEPT ![s][c] = x]
        PROVE  init'[s]["server"] = init[s]["server"]
    BY <1>1, <2>3, Cell DEF TypeOK
  <2> QED BY <2>1, <2>2, <2>3, Zenon
<1>6. OwnMemory(s)'
  <2>1. main'[s]["server"] = "idle" /\ init'[s]["server"] = "none" /\ inbox'[s]["server"] = <<>>
    BY <1>1, <1>5, SMTT(30) DEF DialInv, IInv, FlowInv
  <2>2. main'[s][c] \in Busy => queueFile'[Id[s]] \in {None, s}
    <3>1. \/ main' = [main EXCEPT ![s][c] = "error"]
          \/ queueFile' = [queueFile EXCEPT ![Id[s]] = s]
          \/ memType # "file" /\ queueFile' = queueFile
      BY Zenon DEF initMemManager
    <3>2. CASE main' = [main EXCEPT ![s][c] = "error"]
      <4>1. main'[s][c] = "error"
        BY <1>1, <3>2, Zenon DEF TypeOK
      <4> QED BY <4>1, Zenon DEF Busy
    <3> QED BY <1>1, <3>1, <3>2, SMTT(30) DEF TypeOK, Ids, FileInv
  <2> QED BY <2>1, <2>2, SMTT(30) DEF OwnMemory, Busy
<1>7. SameRegion'
  <2> SUFFICES ASSUME bms'[c] # NoBM, bms'["server"] # NoBM, bms'[c].region \notin apart'
               PROVE  bms'[c].region = bms'["server"].region
    BY Zenon DEF SameRegion
  <2>1. Kept /\ bms'["server"] = bms["server"] /\ apart \subseteq apart'
    BY DialKeeps, Zenon DEF ServerHasRegion
  <2> QED BY <2>1, Zenon DEF Kept, SameRegion, MemInv
<1> QED BY <1>4, <1>6, <1>7, Zenon DEF MemInv

(* A message behind good ones, and good ones without the first. *)
LEMMA GoodBox ==
  ASSUME NEW s, NEW b, NEW a, NEW q \in Seq(Messages),
         \A i \in 1..Len(q) : Good(s, b, a, q[i])
  PROVE  /\ \A m \in Messages : Good(s, b, a, m) =>
               \A i \in 1..Len(Append(q, m)) : Good(s, b, a, Append(q, m)[i])
         /\ q # <<>> => /\ Good(s, b, a, Head(q))
                        /\ \A i \in 1..Len(Tail(q)) : Good(s, b, a, Tail(q)[i])
<1>1. ASSUME NEW m \in Messages, Good(s, b, a, m), NEW i \in 1..Len(Append(q, m))
      PROVE  Good(s, b, a, Append(q, m)[i])
  <2>1. (i \in 1..Len(q) /\ Append(q, m)[i] = q[i]) \/ Append(q, m)[i] = m
    OBVIOUS
  <2> QED BY <1>1, <2>1, Zenon
<1>2. ASSUME q # <<>> PROVE Good(s, b, a, Head(q))
  <2>1. 1 \in 1..Len(q) /\ Head(q) = q[1]
    BY <1>2
  <2> QED BY <2>1, Zenon
<1>3. ASSUME q # <<>>, NEW i \in 1..Len(Tail(q)) PROVE Good(s, b, a, Tail(q)[i])
  <2>1. i + 1 \in 1..Len(q) /\ Tail(q)[i] = q[i + 1]
    BY <1>3
  <2> QED BY <2>1, Zenon
<1> QED BY <1>1, <1>2, <1>3, Zenon

(* What a client sends is good. *)
LEMMA ClientTalk ==
  ASSUME IInv, FileInv, NEW s \in Sess, clientInit(s)
  PROVE  /\ \E x : init' = [init EXCEPT ![s]["client"] = x]
         /\ \/ inbox'[s]["server"] = inbox[s]["server"]
            \/ \E m \in Messages : /\ Good(s, bms["client"], apart, m)
                                   /\ inbox'[s]["server"] = Append(inbox[s]["server"], m)
<1> DEFINE Q == /\ \E x : init' = [init EXCEPT ![s]["client"] = x]
                /\ \/ inbox'[s]["server"] = inbox[s]["server"]
                   \/ \E m \in Messages : /\ Good(s, bms["client"], apart, m)
                                          /\ inbox'[s]["server"] = Append(inbox[s]["server"], m)
           fds == [type |-> "fd", bm |-> bm[s]["client"], qm |-> qm[s]["client"]]
<1> "client" \in Ends /\ "server" \in Ends /\ TypeOK /\ Peer("client") = "server"
  BY Zenon DEF Ends, IInv, Peer
<1>1. ASSUME NEW from, NEW m \in Messages, NEW to, Good(s, bms["client"], apart, m),
             Send(s, "client", from, m, to)
      PROVE  Q
  <2>1. \E x : init' = [init EXCEPT ![s]["client"] = x]
    BY <1>1, Posted
  <2>2. inbox' = inbox \/ inbox' = [inbox EXCEPT ![s]["server"] = Append(inbox[s]["server"], m)]
    BY <1>1, Posted
  <2>3. inbox' = inbox \/ inbox'[s]["server"] = Append(inbox[s]["server"], m)
    BY <2>2, Cell, SMTT(30) DEF TypeOK
  <2> QED BY <1>1, <2>1, <2>3, Zenon
<1>2. ASSUME NEW from, NEW type, NEW to, Wait(s, "client", from, type, to)
      PROVE  Q
  <2>1. \E x : init' = [init EXCEPT ![s]["client"] = x]
    BY <1>2, Fetched
  <2>2. inbox' = inbox \/ inbox' = [inbox EXCEPT ![s]["client"] = Tail(inbox[s]["client"])]
    BY <1>2, Fetched, Zenon
  <2>3. inbox'[s]["server"] = inbox[s]["server"]
    <3>1. CASE inbox' = [inbox EXCEPT ![s]["client"] = Tail(inbox[s]["client"])]
      BY <3>1, Cell, Zenon DEF TypeOK
    <3> QED BY <2>2, <3>1, Zenon
  <2> QED BY <2>1, <2>3, Zenon
<1>3. \A x \in {"path", "version", "memfd"} :
         Message(x) \in Messages /\ Good(s, bms["client"], apart, Message(x))
  BY Zenon DEF Message, Messages, Good, None
<1>4. CASE sendMemFdToPeer(s)
  <2>1. CASE fds.bm # None /\ Send(s, "client", "sendFd", fds, "waitAck")
    <3>1. fds \in Messages
      BY DEF TypeOK, Messages
    <3>2. main[s]["client"] \in Busy /\ qm[s]["client"] = s
      BY <2>1, Zenon DEF FileInv
    <3>3. bms["client"].region = bm[s]["client"]
      BY <2>1, <3>2, Zenon DEF IInv, RefInv, Holders, Busy
    <3>4. Good(s, bms["client"], apart, fds)
      BY <3>2, <3>3, Zenon DEF Good
    <3> QED BY <1>1, <2>1, <3>1, <3>4, Zenon
  <2>2. CASE init[s]["client"] = "sendFd" /\ GoTo(s, "client", "fail") /\ UNCHANGED inbox
    BY <2>2, Zenon DEF GoTo
  <2> QED BY <1>1, <1>2, <1>3, <1>4, <2>1, <2>2, Zenon DEF sendMemFdToPeer
<1> QED BY <1>1, <1>2, <1>3, <1>4, Zenon DEF clientInit, sendShareMemoryByFilePath,
        clientGetProtocolInitializer

(* The server's goroutine maps nothing while it talks. *)
LEMMA ServerTalk ==
  ASSUME IInv, NEW s \in Sess, serverInit(s)
  PROVE  /\ init[s]["server"] \notin {"none", "ok", "fail", "getBuffer"}
         /\ \E x : /\ init' = [init EXCEPT ![s]["server"] = x]
                   /\ x \notin {"getBuffer", "sendAck"}
                   /\ x = "ok" => init[s]["server"] = "sendAck"
         /\ \/ inbox'[s]["server"] = inbox[s]["server"]
            \/ /\ inbox[s]["server"] # <<>>
               /\ inbox'[s]["server"] = Tail(inbox[s]["server"])
<1> DEFINE Q == /\ init[s]["server"] \notin {"none", "ok", "fail", "getBuffer"}
                /\ \E x : /\ init' = [init EXCEPT ![s]["server"] = x]
                          /\ x \notin {"getBuffer", "sendAck"}
                          /\ x = "ok" => init[s]["server"] = "sendAck"
                /\ \/ inbox'[s]["server"] = inbox[s]["server"]
                   \/ /\ inbox[s]["server"] # <<>>
                      /\ inbox'[s]["server"] = Tail(inbox[s]["server"])
<1> "client" \in Ends /\ "server" \in Ends /\ TypeOK /\ Peer("server") = "client"
  BY Zenon DEF Ends, IInv, Peer
<1>1. ASSUME NEW from, NEW m, NEW to, Send(s, "server", from, m, to),
             from \notin {"none", "ok", "fail", "getBuffer"},
             to \notin {"getBuffer", "sendAck"}, to = "ok" => from = "sendAck"
      PROVE  Q
  <2>1. init[s]["server"] = from /\ \E x \in {to, "fail"} : init' = [init EXCEPT ![s]["server"] = x]
    BY <1>1, Posted
  <2>2. inbox' = inbox \/ inbox' = [inbox EXCEPT ![s]["client"] = Append(inbox[s]["client"], m)]
    BY <1>1, Posted
  <2>3. inbox'[s]["server"] = inbox[s]["server"]
    <3>1. CASE inbox' = [inbox EXCEPT ![s]["client"] = Append(inbox[s]["client"], m)]
      BY <3>1, Cell, Zenon DEF TypeOK
    <3> QED BY <2>2, <3>1, Zenon
  <2> QED BY <1>1, <2>1, <2>3, Zenon
<1>2. ASSUME NEW from, NEW type, NEW to, Wait(s, "server", from, type, to),
             from \notin {"none", "ok", "fail", "getBuffer"},
             to \notin {"getBuffer", "sendAck", "ok"}
      PROVE  Q
  <2>1. init[s]["server"] = from /\ \E x \in {to, "fail"} : init' = [init EXCEPT ![s]["server"] = x]
    BY <1>2, Fetched
  <2>2. \/ inbox' = inbox
        \/ /\ inbox[s]["server"] # <<>>
           /\ inbox' = [inbox EXCEPT ![s]["server"] = Tail(inbox[s]["server"])]
    BY <1>2, Fetched, Zenon
  <2>3. \/ inbox' = inbox
        \/ inbox[s]["server"] # <<>> /\ inbox'[s]["server"] = Tail(inbox[s]["server"])
    <3>1. CASE inbox' = [inbox EXCEPT ![s]["server"] = Tail(inbox[s]["server"])]
      BY <2>2, <3>1, Cell, Zenon DEF TypeOK
    <3> QED BY <2>2, <3>1, Zenon
  <2> QED BY <1>2, <2>1, <2>3, Zenon
<1> SUFFICES Q
  BY Zenon
<1> HIDE DEF Q
<1>3. CASE serverGetProtocolInitializer(s)
  BY <1>2, <1>3 DEF serverGetProtocolInitializer
<1>4. CASE handleExchangeVersion(s)
  BY <1>1, <1>4 DEF handleExchangeVersion
<1>5. CASE handleShareMemoryByMemFd(s)
  BY <1>1, <1>2, <1>5 DEF handleShareMemoryByMemFd
<1>6. CASE Send(s, "server", "sendAck", Message("ack"), "ok")
  BY <1>1, <1>6
<1> QED BY <1>3, <1>4, <1>5, <1>6, Zenon DEF serverInit

(* A step of the handshake of session s that leaves the tables alone. *)
LEMMA MemTalk ==
  ASSUME IInv, DialInv, FileInv, MemInv, NEW s \in Sess,
         clientInit(s) \/ serverInit(s) \/ mapQueue(s)
  PROVE  MemInv'
<1> "client" \in Ends /\ "server" \in Ends /\ TypeOK
  BY Zenon DEF Ends, IInv
<1>1. UNCHANGED <<memType, main, bm, bms, queueFile, apart>>
  BY Talk, Zenon DEF mapQueue
<1>2. ASSUME NEW t \in Sess \ {s} PROVE OwnMemory(t)'
  BY <1>1, Local, OthersKeep, Zenon DEF Step, MemInv, Kept
<1>3. SameRegion'
  BY <1>1, Zenon DEF MemInv, SameRegion
<1>4. OwnMemory(s)
  BY SMTT(30) DEF MemInv
<1> DEFINE q == inbox[s]["server"]
           AllGood(b) == \A i \in 1..Len(b) : Good(s, bms["client"], apart, b[i])
<1>5. q \in Seq(Messages)
  BY DEF TypeOK
<1>6. init[s]["server"] \notin {"ok", "fail"} => AllGood(q)
  BY <1>4, Zenon DEF OwnMemory
<1>7. CASE clientInit(s)
  <2>1. init'[s]["server"] = init[s]["server"]
    <3>1. PICK x : init' = [init EXCEPT ![s]["client"] = x]
      BY <1>7, ClientTalk, Zenon
    <3> QED BY <3>1, Cell, Zenon DEF TypeOK
  <2>2. qm' = qm
    BY <1>7, Talk, Zenon
  <2>3. init[s]["server"] \notin {"ok", "fail"} => AllGood(inbox'[s]["server"])
    <3>1. CASE inbox'[s]["server"] = q
      BY <1>6, <3>1, SMTT(30)
    <3>2. ASSUME NEW m \in Messages, Good(s, bms["client"], apart, m), inbox'[s]["server"] = Append(q, m)
          PROVE  init[s]["server"] \notin {"ok", "fail"} => AllGood(inbox'[s]["server"])
      BY <1>5, <1>6, <3>2, GoodBox, Zenon
    <3> QED BY <1>7, <3>1, <3>2, ClientTalk, Zenon
  <2>4. q # <<>> => Head(inbox'[s]["server"]) = Head(q)
    <3>1. \A m \in Messages : q # <<>> => Head(Append(q, m)) = Head(q)
      BY <1>5
    <3> QED BY <1>7, <3>1, ClientTalk
  <2>5. memType = "memfd" /\ init[s]["server"] = "getBuffer" =>
           Head(inbox'[s]["server"]).type = "fd"
    BY <1>4, <2>4, Zenon DEF OwnMemory, IInv, FlowInv
  <2>6. OwnMemory(s)'
    BY <1>1, <1>4, <2>1, <2>2, <2>3, <2>5, Zenon DEF OwnMemory
  <2> QED BY <1>2, <1>3, <2>6, Zenon DEF MemInv
<1>8. CASE serverInit(s)
  <2>1. PICK x : /\ init' = [init EXCEPT ![s]["server"] = x]
                 /\ x \notin {"getBuffer", "sendAck"}
                 /\ x = "ok" => init[s]["server"] = "sendAck"
    BY <1>8, ServerTalk, Zenon
  <2>2. init'[s]["server"] = x /\ qm' = qm
    BY <1>8, <2>1, Cell, Talk, ZenonT(30) DEF TypeOK
  <2>3. AllGood(inbox'[s]["server"])
    <3>1. AllGood(q)
      BY <1>6, <1>8, ServerTalk, Zenon
    <3>2. inbox'[s]["server"] = q \/ (q # <<>> /\ inbox'[s]["server"] = Tail(q))
      BY <1>8, ServerTalk, Zenon
    <3>3. q # <<>> => AllGood(Tail(q))
      BY <1>5, <3>1, GoodBox, Zenon
    <3> QED BY <3>1, <3>2, <3>3, Zenon
  <2>4. OwnMemory(s)'
    BY <1>1, <1>4, <2>1, <2>2, <2>3, SMTT(30) DEF OwnMemory
  <2> QED BY <1>2, <1>3, <2>4, Zenon DEF MemInv
<1>9. CASE mapQueue(s)
  <2> DEFINE r == IF memType = "file" THEN queueFile[Id[s]]
                  ELSE IF open[s]["server"] /\ FdMessage(s) THEN Head(q).qm ELSE None
             x == IF r = None THEN "fail" ELSE "getBuffer"
  <2>1. /\ qm' = [qm EXCEPT ![s]["server"] = r] /\ init' = [init EXCEPT ![s]["server"] = x]
        /\ inbox' = inbox /\ init[s]["server"] \in {"mapQueue", "waitFd"}
    BY <1>9, Zenon DEF mapQueue, GoTo
  <2>2. qm'[s]["server"] = r /\ init'[s]["server"] = x
    BY <2>1, Cell, ZenonT(30) DEF TypeOK
  <2>3. AllGood(q) /\ (main[s]["client"] \in Busy => queueFile[Id[s]] \in {None, s})
    BY <1>4, <1>6, <2>1, Zenon DEF OwnMemory
  <2>4. FdMessage(s) => Head(q).type = "fd" /\ Head(q).qm = s
    <3>1. q # <<>> => Good(s, bms["client"], apart, Head(q))
      BY <1>5, <2>3, GoodBox, Zenon
    <3> QED BY <3>1, Zenon DEF FdMessage, Good
  <2>5. r # None => /\ main[s]["client"] \in Busy => r = s
                    /\ memType = "memfd" => Head(q).type = "fd"
    BY <2>3, <2>4, Zenon
  <2>6. OwnMemory(s)'
    BY <1>1, <2>1, <2>2, <2>3, <2>5 DEF OwnMemory
  <2> QED BY <1>2, <1>3, <2>6, Zenon DEF MemInv
<1> QED BY <1>7, <1>8, <1>9, Zenon

(* The server maps the memory that its table has, or that of its client. *)
LEMMA MemMapped ==
  ASSUME IInv, DialInv, FileInv, MemInv, NEW s \in Sess, getBuffer(s)
  PROVE  MemInv'
<1> DEFINE q == inbox[s]["server"]
           r == IF memType = "file" THEN bufferFile ELSE Head(q).bm
           g == getGlobalBufferManager("server", r)
<1> "client" \in Ends /\ "server" \in Ends /\ TypeOK
  BY Zenon DEF Ends, IInv
<1>1. UNCHANGED <<memType, main, qm, queueFile, bufferFile, apart>> /\ init[s]["server"] = "getBuffer"
  BY Zenon DEF getBuffer
<1>2. bms'["client"] = bms["client"]
  <2>1. bms' = bms \/ bms' = [bms EXCEPT !["server"] = g]
    BY Zenon DEF getBuffer
  <2> QED BY <2>1, Zenon DEF TypeOK
<1>3. ASSUME NEW t \in Sess \ {s} PROVE OwnMemory(t)'
  BY <1>1, <1>2, Local, OthersKeep, Zenon DEF Step, MemInv, Kept
<1>4. OwnMemory(s) /\ q \in Seq(Messages)
  BY SMTT(30) DEF MemInv, TypeOK
<1>5. memType = "memfd" => q # <<>> /\ Head(q) \in Messages /\ Head(q).type = "fd"
  BY <1>1, <1>4 DEF OwnMemory, IInv, FlowInv
<1>6. \A i \in 1..Len(q) : Good(s, bms["client"], apart, q[i])
  BY <1>1, <1>4, Zenon DEF OwnMemory
<1>7. \A i \in 1..Len(inbox'[s]["server"]) : Good(s, bms["client"], apart, inbox'[s]["server"][i])
  <2>1. inbox' = inbox \/ (memType # "file" /\ inbox' = [inbox EXCEPT ![s]["server"] = Tail(q)])
    BY Zenon DEF getBuffer, TypeOK
  <2>2. CASE inbox' = inbox
    BY <1>6, <2>2, Zenon
  <2>3. CASE memType # "file" /\ inbox' = [inbox EXCEPT ![s]["server"] = Tail(q)]
    <3>1. inbox'[s]["server"] = Tail(q) /\ q # <<>>
      BY <1>5, <2>3, Cell, SMTT(30) DEF TypeOK
    <3> QED BY <1>4, <1>6, <3>1, GoodBox, Zenon
  <2> QED BY <2>1, <2>2, <2>3, Zenon
<1>8. main[s]["client"] \in Busy => /\ queueFile[Id[s]] \in {None, s}
                                    /\ main[s]["server"] \in Busy => qm[s]["server"] = s
  BY <1>1, <1>4, Zenon DEF OwnMemory
<1>9. CASE bms["server"] = NoBM /\ r = None
  <2>1. init' = [init EXCEPT ![s]["server"] = "fail"] /\ UNCHANGED <<bm, bms>>
    BY <1>9, Zenon DEF getBuffer, GoTo
  <2>2. init'[s]["server"] = "fail"
    BY <2>1, Cell DEF TypeOK
  <2>3. OwnMemory(s)'
    BY <1>1, <1>2, <1>7, <1>8, <2>2, Zenon DEF OwnMemory
  <2>4. SameRegion'
    BY <1>1, <2>1, SMTT(30) DEF MemInv, SameRegion
  <2> QED BY <1>3, <2>3, <2>4, Zenon DEF MemInv
<1>10. CASE bms["server"] # NoBM \/ r # None
  <2>1. /\ bms' = [bms EXCEPT !["server"] = g]
        /\ bm' = [bm EXCEPT ![s]["server"] = bms'["server"].region]
        /\ \E x \in {"ok", "sendAck"} : init' = [init EXCEPT ![s]["server"] = x]
    BY <1>10, Zenon DEF getBuffer, GoTo
  <2>2. bms'["server"] = g
    BY <2>1, Zenon DEF TypeOK
  <2>3. r \in Nat
    BY <1>5, Zenon DEF TypeOK, Messages
  <2>4. bm'[s]["server"] # None
    BY <1>10, <2>1, <2>2, <2>3, Got, Cell, ZenonT(30) DEF IInv, TypeOK
  <2>5. init'[s]["server"] \in {"ok", "sendAck"}
    BY <2>1 DEF TypeOK
  <2>6. OwnMemory(s)'
    BY <1>1, <1>2, <1>7, <1>8, <2>4, <2>5, Zenon DEF OwnMemory
  <2>7. SameRegion'
    <3> SUFFICES ASSUME bms["client"] # NoBM, bms["client"].region \notin apart
                 PROVE  bms["client"].region = g.region
      BY <1>1, <1>2, <2>2, Zenon DEF SameRegion
    <3>2. CASE bms["server"] = NoBM
      <4>1. g.region = r /\ r # None
        BY <1>10, <3>2, Zenon DEF getGlobalBufferManager
      <4>2. CASE memType = "file"
        BY <4>1, <4>2, Zenon DEF FileInv
      <4>3. CASE memType = "memfd"
        <5>1. Good(s, bms["client"], apart, Head(q))
          BY <1>4, <1>5, <1>6, <4>3, GoodBox, Zenon
        <5> QED BY <1>5, <4>1, <4>3, <5>1, SMTT(30) DEF Good
      <4> QED BY <4>2, <4>3, Zenon DEF TypeOK
    <3>3. CASE bms["server"] # NoBM
      <4>3. bms["client"].region = bms["server"].region
        BY <3>3, Zenon DEF MemInv, SameRegion
      <4>4. g.region = bms["server"].region
        <5>1. bms["server"] \in [region : Nat, refCount : Nat]
          BY Zenon DEF TypeOK
        <5> QED BY <3>3, <5>1, Zenon DEF getGlobalBufferManager
      <4> QED BY <4>3, <4>4, Zenon
    <3> QED BY <3>2, <3>3, Zenon
  <2> QED BY <1>3, <2>6, <2>7, Zenon DEF MemInv
<1> QED BY <1>9, <1>10, Zenon

(* A step of newSession or Close at one end of session s, that leaves the   *)
(* client's table its memory, or empty.                                     *)
LEMMA MemEnds ==
  ASSUME IInv, DialInv, FileInv, MemInv, NEW s \in Sess, Step(s), NEW e \in Ends, NEW x,
         main' = [main EXCEPT ![s][e] = x], UNCHANGED <<memType, init, inbox, apart>>,
         x \in Busy => main[s][e] \in Busy /\ UNCHANGED <<bm, qm>>,
         \/ GiveBack(s, e)
         \/ UNCHANGED <<bm, qm, bms, queueFile>>
         \/ /\ bm' = [bm EXCEPT ![s][e] = None] /\ qm' = [qm EXCEPT ![s][e] = None]
            /\ UNCHANGED <<bms, queueFile>>
  PROVE  MemInv'
<1> "client" \in Ends /\ "server" \in Ends /\ TypeOK
  BY Zenon DEF Ends, IInv
<1>1. main'[s][e] = x /\ \A t \in Sess, d \in Ends : t # s \/ d # e => main'[t][d] = main[t][d]
  BY Cell DEF TypeOK
<1>2. \A t \in Sess, d \in Ends : t # s \/ d # e => bm'[t][d] = bm[t][d] /\ qm'[t][d] = qm[t][d]
  <2>1. CASE bm' = [bm EXCEPT ![s][e] = None] /\ qm' = [qm EXCEPT ![s][e] = None]
    BY <2>1, Cell, Zenon DEF TypeOK
  <2>2. CASE UNCHANGED <<bm, qm>>
    BY <2>2, Zenon
  <2> QED BY <2>1, <2>2, Zenon DEF GiveBack
<1>3. Kept /\ (\/ bms'["server"] = NoBM
               \/ bms["server"] # NoBM /\ bms'["server"].region = bms["server"].region)
  <2>1. CASE GiveBack(s, e)
    BY <2>1, Gave, Zenon DEF Kept
  <2> QED BY <2>1, Zenon DEF Kept
<1>4. \A t \in Sess : queueFile'[Id[t]] \in {None, queueFile[Id[t]]}
  <2>1. queueFile' = queueFile \/ queueFile' = [queueFile EXCEPT ![Id[s]] = None]
    BY Zenon DEF GiveBack
  <2>2. queueFile \in [Ids -> Nat] /\ \A t \in Sess : Id[t] \in Ids
    BY Zenon DEF TypeOK, Ids
  <2> QED BY <2>1, <2>2, Zenon
<1>5. ASSUME NEW t \in Sess \ {s} PROVE OwnMemory(t)'
  <2>1. OwnMemory(t) /\ apart \subseteq apart' /\ queueFile'[Id[t]] \in {None, queueFile[Id[t]]}
    BY <1>4, Zenon DEF MemInv
  <2> QED BY <1>3, <2>1, Local, OthersKeep, Zenon
<1>6. OwnMemory(s)'
  <2>1. OwnMemory(s)
    BY Zenon DEF MemInv
  <2>2. init[s]["server"] \notin {"ok", "fail"} =>
           \A i \in 1..Len(inbox[s]["server"]) : Good(s, bms'["client"], apart', inbox[s]["server"][i])
    BY <1>3, <2>1, GoodKept, Zenon DEF OwnMemory
  <2>3. \A d \in Ends : main'[s][d] \in Busy => /\ main[s][d] \in Busy
                                               /\ bm'[s][d] = bm[s][d] /\ qm'[s][d] = qm[s][d]
    BY <1>1, <1>2, Zenon
  <2>4. queueFile'[Id[s]] \in {None, queueFile[Id[s]]}
    BY <1>4, Zenon
  <2>5. main'[s]["client"] \in Busy => queueFile'[Id[s]] \in {None, s}
    BY <2>1, <2>3, <2>4, Zenon DEF OwnMemory
  <2>6. main'[s]["server"] \in Busy =>
          /\ main'[s]["client"] \in Busy /\ init[s]["server"] \in {"getBuffer", "sendAck", "ok"} =>
                qm'[s]["server"] = s
          /\ init[s]["server"] \in {"sendAck", "ok"} => bm'[s]["server"] # None
    BY <2>1, <2>3, Zenon DEF OwnMemory
  <2> QED BY <2>1, <2>2, <2>5, <2>6, Zenon DEF OwnMemory
<1>7. SameRegion'
  BY <1>3, Zenon DEF MemInv, SameRegion, Kept
<1> QED BY <1>5, <1>6, <1>7, Zenon DEF MemInv

(* Every step keeps the memory of the two ends the same. *)
LEMMA MemPreserved == IInv /\ DialInv /\ FileInv /\ MemInv /\ [Next]_vars => MemInv'
<1> SUFFICES ASSUME IInv, DialInv, FileInv, MemInv, [Next]_vars PROVE MemInv'
  BY Zenon
<1> "client" \in Ends /\ "server" \in Ends /\ TypeOK
  BY Zenon DEF Ends, IInv
<1>1. ASSUME NEW s \in Sess, initMemManager(s) PROVE MemInv'
  BY <1>1, MemDialled, Zenon
<1>2. ASSUME NEW s \in Sess, Accept(s) PROVE MemInv'
  <2>1. /\ main[s]["server"] = "idle" /\ main' = [main EXCEPT ![s]["server"] = "wait"]
        /\ init' = [init EXCEPT ![s]["server"] = "waitFirst"]
        /\ UNCHANGED <<memType, bm, qm, inbox, bms, bufferFile, queueFile, apart>>
    BY <1>2, Zenon DEF Accept
  <2>2. main'[s]["client"] = main[s]["client"]
    BY <2>1, Cell, SMTT(30) DEF TypeOK
  <2>3. init'[s]["server"] = "waitFirst" /\ init[s]["server"] = "none"
    BY <2>1, Cell DEF TypeOK, IInv, FlowInv
  <2>4. ASSUME NEW t \in Sess \ {s} PROVE OwnMemory(t)'
    BY <1>2, <2>1, Local, OthersKeep, SMTT(30) DEF MemInv, Step, Kept
  <2>5. OwnMemory(s)'
    BY <2>1, <2>2, <2>3, Zenon DEF MemInv, OwnMemory
  <2>6. SameRegion'
    BY <2>1, Zenon DEF MemInv, SameRegion
  <2> QED BY <2>4, <2>5, <2>6, Zenon DEF MemInv
<1>3. ASSUME NEW s \in Sess, clientInit(s) \/ serverInit(s) \/ mapQueue(s) PROVE MemInv'
  BY <1>3, MemTalk, Zenon
<1>4. ASSUME NEW s \in Sess, getBuffer(s) PROVE MemInv'
  BY <1>4, MemMapped, Zenon
<1>b. \A y \in {"error", "shut", "gone"} : y \notin Busy
  BY Zenon DEF Busy
<1>5. ASSUME NEW s \in Sess, NEW e \in Ends, initProtocol(s, e) PROVE MemInv'
  <2>0. main[s][e] \in Busy /\ UNCHANGED <<memType, init, inbox, apart>> /\ Step(s)
    BY <1>5, Zenon DEF initProtocol, Step, Busy
  <2>1. CASE main' = [main EXCEPT ![s][e] = "open"] /\ UNCHANGED <<bm, qm, bms, queueFile>>
    BY <2>0, <2>1, MemEnds, Zenon
  <2>2. CASE main' = [main EXCEPT ![s][e] = "error"] /\ GiveBack(s, e)
    BY <1>b, <2>0, <2>2, MemEnds, Zenon
  <2>3. CASE /\ main' = [main EXCEPT ![s][e] = "error"] /\ UNCHANGED <<bms, queueFile>>
             /\ bm' = [bm EXCEPT ![s][e] = None] /\ qm' = [qm EXCEPT ![s][e] = None]
    BY <1>b, <2>0, <2>3, MemEnds, Zenon
  <2> QED BY <1>5, <2>1, <2>2, <2>3, Zenon DEF initProtocol
<1>6. ASSUME NEW s \in Sess, NEW e \in Ends, Close(s, e) PROVE MemInv'
  <2>1. /\ UNCHANGED <<memType, init, inbox, apart>> /\ Step(s)
        /\ main' = [main EXCEPT ![s][e] = "shut"] /\ GiveBack(s, e)
    BY <1>6, Zenon DEF Close, Step
  <2> QED BY <1>b, <2>1, MemEnds, Zenon
<1>7. ASSUME NEW s \in Sess, NEW e \in Ends, CloseSocket(s, e) PROVE MemInv'
  <2>1. /\ UNCHANGED <<memType, init, inbox, apart, bm, qm, bms, queueFile>> /\ Step(s)
        /\ main' = [main EXCEPT ![s][e] = "gone"]
    BY <1>7, Zenon DEF CloseSocket, Step
  <2> QED BY <1>b, <2>1, MemEnds, Zenon
<1>8. ASSUME UNCHANGED <<memType, main, init, bm, qm, inbox, bms, queueFile, apart>>
      PROVE  MemInv'
  <2>1. SameRegion'
    BY <1>8, SMTT(30) DEF MemInv, SameRegion
  <2>2. \A s \in Sess : OwnMemory(s)'
    BY <1>8, Zenon DEF MemInv, OwnMemory
  <2> QED BY <2>1, <2>2, Zenon DEF MemInv
<1>9. ASSUME NEW s \in Sess, NEW e \in Ends, Finalize(s, e) PROVE MemInv'
  BY <1>8, <1>9, Zenon DEF Finalize, sessionVars
<1>10. CASE UNCHANGED vars
  BY <1>8, <1>10, Zenon DEF vars, sessionVars
<1> QED BY <1>1, <1>2, <1>3, <1>4, <1>5, <1>6, <1>7, <1>9, <1>10, Zenon DEF Next
-----------------------------------------------------------------------------
(* The invariants hold at first, and imply the properties. *)
LEMMA InitInv ==
  ASSUME Counts
  PROVE  Init => IInv
<1> SUFFICES ASSUME Init PROVE IInv
  BY Zenon
<1>1. TypeOK
  <2>1. memType \in {"file", "memfd"}
    BY HandshakeAssumption, Zenon DEF Init
  <2>2. <<>> \in Seq(Messages)
    OBVIOUS
  <2> QED BY <2>1, <2>2, Zenon DEF Init, TypeOK, Both, MainSteps, InitSteps, NoBM, None
<1>2. FlowInv
  BY Zenon DEF Init, FlowInv, Both, Ends
<1>3. \A e \in Ends : Holders(e) = {} /\ bms[e] = NoBM /\ leaked[e] = 0
  BY Zenon DEF Init, Both, Holders
<1>4. Cardinality({}) = 0
  BY Zenon DEF Counts
<1>5. ASSUME NEW e \in Ends PROVE RefInv(e)
  <2>1. bms[e].refCount = 0 /\ bms[e] = NoBM /\ leaked[e] = 0 /\ Holders(e) = {}
    BY <1>3 DEF NoBM
  <2> QED BY <1>4, <2>1 DEF RefInv
<1> QED BY <1>1, <1>2, <1>5, Zenon DEF IInv

(* No table entry stands for a reference that nobody holds. *)
LEMMA GivenBack ==
  ASSUME Counts
  PROVE  IInv /\ DialInv /\ FileInv => NothingLeft
<1> SUFFICES ASSUME IInv, DialInv, FileInv,
               \A s \in Sess : ~Started(s) \/ \A e \in Ends : main[s][e] \in {"error", "shut", "gone"},
               \A e \in Ends : leaked[e] = 0,
               \A s \in Sess : init[s]["server"] \in {"none", "ok", "fail"}
             PROVE  /\ \A e \in Ends : bms[e] = NoBM
                    /\ bufferFile = None /\ \A i \in Ids : queueFile[i] = None
  BY Zenon DEF NothingLeft
<1>1. \A s \in Sess : main[s]["client"] \notin Busy
  BY Zenon DEF Started, Busy, Ends
<1>2. ASSUME NEW e \in Ends PROVE bms[e] = NoBM
  <2>1. Holders(e) = {}
    BY Zenon DEF DialInv, Holders, Ends, Started
  <2>2. bms[e].refCount = 0 + 0
    BY <2>1, Zenon DEF IInv, RefInv, Counts
  <2> QED BY <2>2 DEF FileInv
<1>3. bufferFile = None
  BY <1>2, SMTT(30) DEF FileInv, Ends
<1>4. \A i \in Ids : queueFile[i] = None
  <2>1. leaked["client"] = 0
    BY Zenon DEF Ends
  <2> QED BY <1>1, <2>1, Zenon DEF FileInv
<1> QED BY <1>2, <1>3, <1>4, SMTT(30)

(* No memory is mapped at first. *)
LEMMA InitMem == Init => MemInv
<1> SUFFICES ASSUME Init PROVE MemInv
  BY Zenon
<1>1. \A s \in Sess : /\ main[s]["client"] = "idle" /\ main[s]["server"] = "idle"
                      /\ init[s]["server"] = "none" /\ inbox[s]["server"] = <<>>
  BY Zenon DEF Init, Both, Ends
<1>2. bms["client"] = NoBM
  BY Zenon DEF Init, Ends
<1>3. \A i \in 1..Len(<<>>) : FALSE
  OBVIOUS
<1> QED BY <1>1, <1>2, <1>3, Zenon DEF MemInv, SameRegion, OwnMemory, Busy

(* The two ends of a session hold what their tables hold. *)
LEMMA Shared == IInv /\ FileInv /\ MemInv => SameMemory
<1> SUFFICES ASSUME IInv, FileInv, MemInv, NEW s \in Sess,
                    \A e \in Ends : main[s][e] = "open"
             PROVE  /\ qm[s]["client"] = qm[s]["server"]
                    /\ bm[s]["client"] \notin apart => bm[s]["client"] = bm[s]["server"]
  BY Zenon DEF SameMemory
<1>1. main[s]["client"] = "open" /\ main[s]["server"] = "open"
  BY Zenon DEF Ends
<1>2. bm[s]["client"] # None /\ qm[s]["client"] = s
  BY <1>1, SMTT(30) DEF FileInv, Busy
<1>3. bm[s]["server"] # None /\ qm[s]["server"] = s
  BY <1>1, SMTT(30) DEF IInv, FlowInv, MemInv, OwnMemory, Busy
<1>4. s \in Holders("client") /\ s \in Holders("server")
  BY <1>1, <1>2, <1>3, Zenon DEF Holders
<1>5. bms["client"].region = bm[s]["client"] /\ bms["server"].region = bm[s]["server"]
  BY <1>4, Zenon DEF IInv, RefInv, Ends
<1>6. bms["client"] # NoBM /\ bms["server"] # NoBM
  BY <1>2, <1>3, <1>5 DEF NoBM
<1>7. bms["client"].region \notin apart => bms["client"].region = bms["server"].region
  BY <1>6, Zenon DEF MemInv, SameRegion
<1> QED BY <1>2, <1>3, <1>5, <1>7, Zenon
-----------------------------------------------------------------------------
(* The theorems of finite sets come last: what precedes needs no more of    *)
(* them than Counts.                                                        *)
INSTANCE FiniteSetTheorems

(* There are finitely many sessions, so the sets of them can be counted. *)
LEMMA Counted == Counts
<1>1. ASSUME NEW S \in SUBSET Sess PROVE IsFiniteSet(S)
  BY HandshakeAssumption, FS_Subset, Zenon
<1>2. Cardinality({}) = 0
  BY FS_EmptySet, Zenon
<1>3. ASSUME NEW S \in SUBSET Sess
      PROVE  Cardinality(S) \in Nat /\ (Cardinality(S) = 0 => S = {})
  BY <1>1, FS_CardinalityType, FS_EmptySet, SMTT(30)
<1>4. ASSUME NEW S \in SUBSET Sess, NEW x \in Sess \ S
      PROVE  Cardinality(S \cup {x}) = Cardinality(S) + 1
  BY <1>1, FS_AddElement, Zenon
<1>5. ASSUME NEW S \in SUBSET Sess, NEW x \in S
      PROVE  Cardinality(S \ {x}) = Cardinality(S) - 1
  BY <1>1, FS_RemoveElement, Zenon
<1> QED BY <1>2, <1>3, <1>4, <1>5, Zenon DEF Counts

(* The invariant that the theorems follow from. *)
THEOREM Inductive == Spec => []IInv
<1>1. (Init => IInv) /\ (IInv /\ [Next]_vars => IInv')
  BY InitInv, Preserved, Counted, Zenon
<1> QED BY <1>1, PTL DEF Spec

(* The count of a process's buffer manager is that of the sessions that     *)
(* will give it back and of the references that the error paths of          *)
(* initMemManager, setCallback and a late initProtocol forget; hence it is  *)
(* never unmapped under a session that uses it.                             *)
THEOREM NeverUnmappedInUse == Spec => []MappedWhileHeld
<1>1. IInv => MappedWhileHeld
  BY Zenon DEF IInv, RefInv, MappedWhileHeld
<1> QED BY <1>1, Inductive, PTL

(* Where the files lead, and that nothing precedes the dialling. *)
LEMMA InductiveFiles == Spec => [](DialInv /\ FileInv)
  BY InitDial, InitFile, DialPreserved, FilePreserved, Inductive, PTL DEF Spec

(* With the files in order, sessions that are over leave nothing: the table *)
(* entry went with the last reference, and its file with it; a queue's file *)
(* went with its session (unmap of bufferManager and queueManager).         *)
THEOREM EverythingGivenBack == Spec => []NothingLeft
<1>1. IInv /\ DialInv /\ FileInv => NothingLeft
  BY GivenBack, Counted, Zenon
<1> QED BY <1>1, Inductive, InductiveFiles, PTL

(* An established session has one queue at its ends, and one buffer unless  *)
(* its client made the region while the server had an older one; whatever   *)
(* timed out, failed or closed around it, however late either end notices   *)
(* the end of other sessions, and whatever references the error paths       *)
(* forgot (initMemManager, mapQueue, getBuffer, initProtocol).              *)
THEOREM EndsShareMemory == Spec => []SameMemory
  BY InitMem, MemPreserved, Shared, Inductive, InductiveFiles, PTL DEF Spec

=============================================================================
