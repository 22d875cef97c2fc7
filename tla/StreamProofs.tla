---------------------------- MODULE StreamProofs ----------------------------
(***************************************************************************)
(* Proofs about Stream, for any number of goroutines and of units of      *)
(* data: OnData runs in one goroutine at a time and never waits for        *)
(* itself, a close is reported once, a closed stream holds no data, and    *)
(* what arrives is read once and in order.                                 *)
(***************************************************************************)
EXTENDS Stream, TLAPS

(* Where OnData may be: reading, or past a read and perhaps in Close. *)
Reading == {"read", "readCheck", "select", "reread"}
PastRead == {"onData", "store", "load", "half"}

(* A worker has a result exactly while OnData runs, and callbackInProcess   *)
(* belongs to one goroutine: a worker in process, or the dispatcher that    *)
(* has set it and starts a worker.                                          *)
ProcessInv ==
    /\ \A w \in Workers : /\ pc[w] \in PastRead => result[w] # "none"
                          /\ result[w] # "none" => pc[w] \in Reading \cup PastRead
                          /\ InProcess(w) => /\ inProcess = 1 /\ pc[D] # "spawn"
                                             /\ \A v \in Workers \ {w} : ~InProcess(v)
    /\ pc[D] = "spawn" => inProcess = 1

(* The steps of close after its compare-and-swap, and those of them that    *)
(* only the close of an open stream takes.                                  *)
Reporting == {"closeNotify", "report", "tell"}
Closing == {"wait", "unregister", "clear", "drain", "reset"} \cup Reporting
Halving == {"halfNotify", "halfReport"}

(* Who took the stream out of "opened" and has yet to report it. *)
Reporter(a) == \/ pc[a] \in Closing /\ old[a] = "opened"
               \/ a = D /\ pc[a] \in Halving

(* The steps of close that the dispatcher takes for Session.Close only; it  *)
(* takes the others after fillDataToReadBuffer too.                         *)
SessionSteps == {"store", "load", "half", "readState", "casClosed", "wait", "unregister"}
                \cup Reporting

DispatcherInv ==
    /\ pc[D] \in SessionSteps => session \in {"lambda", "unmapped"}
    /\ session \in {"open", "shutdown", "closing"} => old[D] = "none"
    /\ pc[D] \in {"add", "check"} => old[D] = "none"

(* An open stream has no reporter, and there is one at most, who has not    *)
(* reported yet.                                                            *)
ReportInv ==
    /\ \A a \in Actors : pc[a] \in Reporting => old[a] = "opened"
    /\ \A a \in Actors : Reporter(a) =>
         /\ state # "opened" /\ peerTold = 0
         /\ pc[a] # "tell" => localCalls + remoteCalls = 0
         /\ \A b \in Actors \ {a} : ~Reporter(b)
    /\ state = "opened" => localCalls + remoteCalls = 0 /\ peerTold = 0
    /\ localCalls + remoteCalls <= 1 /\ peerTold <= 1

IInv == TypeOK /\ ProcessInv /\ DispatcherInv /\ ReportInv

(* The kinds of goroutines are disjoint. *)
LEMMA Members ==
  /\ D \in Actors /\ Workers \subseteq Actors /\ Readers \subseteq Actors
  /\ Users \subseteq Actors /\ D \notin Workers /\ D \notin Readers /\ D \notin Users
  /\ \A w \in Workers : w \notin Readers /\ w \notin Users
  BY StreamAssumption, Zenon DEF Actors

(* A step of one goroutine that leaves callbackInProcess alone. *)
LEMMA ProcessSame ==
  ASSUME TypeOK, ProcessInv, NEW a \in Actors, NEW to \in Steps, NEW x,
         pc' = [pc EXCEPT ![a] = to], result' = [result EXCEPT ![a] = x],
         inProcess' = inProcess, a = D => to # "spawn",
         a \in Workers => /\ to \in PastRead => x # "none"
                          /\ x # "none" => to \in Reading \cup PastRead
                          /\ x # "none" \/ to \in Reading \cup {"onData", "move", "loop", "leave"}
                               => InProcess(a)
  PROVE  ProcessInv'
<1>1. \A b \in Actors \ {a} : pc'[b] = pc[b] /\ result'[b] = result[b]
  BY Zenon DEF TypeOK
<1>2. pc'[a] = to /\ result'[a] = x
  BY Zenon DEF TypeOK
<1>3. pc'[D] = "spawn" => pc[D] = "spawn"
  BY <1>1, <1>2, Members, Zenon
<1>4. \A w \in Workers : InProcess(w)' => InProcess(w)
  BY <1>1, <1>2, Members, Zenon DEF InProcess, InOnData, Reading
<1>5. \A w \in Workers : /\ pc'[w] \in PastRead => result'[w] # "none"
                         /\ result'[w] # "none" => pc'[w] \in Reading \cup PastRead
  BY <1>1, <1>2, Members, Zenon DEF ProcessInv
<1> QED BY <1>3, <1>4, <1>5, Zenon DEF ProcessInv

(* A step of one goroutine that neither takes the stream out of "opened"    *)
(* nor reports.                                                             *)
LEMMA ReportSame ==
  ASSUME TypeOK, ReportInv, DispatcherInv, NEW a \in Actors, NEW to \in Steps,
         pc' = [pc EXCEPT ![a] = to], UNCHANGED <<old, session, localCalls, remoteCalls, peerTold>>,
         state' = "opened" => state = "opened", pc[a] # "tell",
         to \in Reporting => old[a] = "opened",
         to \in Closing /\ old[a] = "opened" => pc[a] \in Closing,
         a = D => /\ to \in Halving => pc[a] \in Halving
                  /\ to \in SessionSteps => session \in {"lambda", "unmapped"}
                  /\ to \in {"add", "check"} => old[D] = "none"
  PROVE  ReportInv' /\ DispatcherInv'
<1>1. \A b \in Actors \ {a} : pc'[b] = pc[b]
  BY Zenon DEF TypeOK
<1>2. pc'[a] = to
  BY Zenon DEF TypeOK
<1>3. \A b \in Actors : Reporter(b)' => Reporter(b) /\ (pc'[b] # "tell" => pc[b] # "tell")
  BY <1>1, <1>2, Zenon DEF Reporter
<1>4. \A b \in Actors : pc'[b] \in Reporting => old'[b] = "opened"
  BY <1>1, <1>2, Zenon DEF ReportInv
<1>5. ReportInv'
  BY <1>3, <1>4, Zenon DEF ReportInv
<1>6. DispatcherInv'
  BY <1>1, <1>2, Members, Zenon DEF DispatcherInv
<1> QED BY <1>5, <1>6, Zenon

(* Both together, for the steps that are of neither kind. *)
LEMMA Plain ==
  ASSUME IInv, NEW a \in Actors, NEW to \in Steps,
         NEW x \in {"none", "data", "eos", "closed", "timeout"},
         pc' = [pc EXCEPT ![a] = to], result' = [result EXCEPT ![a] = x],
         UNCHANGED <<inProcess, old, session, localCalls, remoteCalls, peerTold>>,
         state' \in {state, "halfClosed", "closed"}, pc[a] # "tell",
         to \in Reporting => old[a] = "opened",
         to \in Closing /\ old[a] = "opened" => pc[a] \in Closing,
         a = D => /\ to # "spawn" /\ (to \in Halving => pc[a] \in Halving)
                  /\ to \in SessionSteps => session \in {"lambda", "unmapped"}
                  /\ to \in {"add", "check"} => old[D] = "none",
         a \in Workers => /\ to \in PastRead => x # "none"
                          /\ x # "none" => to \in Reading \cup PastRead
                          /\ x # "none" \/ to \in Reading \cup {"onData", "move", "loop", "leave"}
                               => InProcess(a)
  PROVE  IInv'
<1>1. TypeOK /\ ProcessInv /\ ReportInv /\ DispatcherInv
  BY Zenon DEF IInv
<1>2. TypeOK'
  BY <1>1, Zenon DEF TypeOK
<1>3. ProcessInv'
  BY <1>1, ProcessSame, Zenon
<1>4. ReportInv' /\ DispatcherInv'
  BY <1>1, ReportSame, Zenon
<1> QED BY <1>2, <1>3, <1>4, Zenon DEF IInv

(* A step of the dispatcher outside close. *)
LEMMA DispatcherPlain ==
  ASSUME IInv, NEW to \in {"idle", "add", "check", "clear", "notify", "cas", "halfReport",
                           "join", "unmap"},
         pc' = [pc EXCEPT ![D] = to],
         UNCHANGED <<result, inProcess, state, old, session, localCalls, remoteCalls, peerTold>>,
         pc[D] # "tell", to = "halfReport" => pc[D] \in Halving,
         to \in {"add", "check", "clear"} => old[D] = "none"
  PROVE  IInv'
<1>1. result' = [result EXCEPT ![D] = result[D]]
      /\ result[D] \in {"none", "data", "eos", "closed", "timeout"}
  BY Members, Zenon DEF IInv, TypeOK
<1>2. D \in Actors /\ D \notin Workers /\ to \in Steps
  BY Members, Zenon DEF Steps
<1> QED BY <1>1, <1>2, Plain, ZenonT(30) DEF Reporting, Closing, Halving, SessionSteps

(* A step of a worker outside close and OnData. *)
LEMMA WorkerPlain ==
  ASSUME IInv, NEW w \in Workers,
         NEW to \in {"idle", "move", "loop", "leave", "checkClose", "recheck", "recas", "end",
                     "readState", "read", "store"},
         pc' = [pc EXCEPT ![w] = to],
         UNCHANGED <<result, inProcess, state, old, session, localCalls, remoteCalls, peerTold>>,
         pc[w] # "tell", to = "store" <=> result[w] # "none" /\ to # "read",
         to \in {"move", "loop", "leave", "read", "store"} => InProcess(w)
  PROVE  IInv'
<1>1. result' = [result EXCEPT ![w] = result[w]]
      /\ result[w] \in {"none", "data", "eos", "closed", "timeout"}
  BY Members, Zenon DEF IInv, TypeOK
<1>2. w \in Actors /\ w # D /\ to \in Steps
  BY Members DEF Steps
<1> QED BY <1>1, <1>2, Plain, Zenon DEF Reporting, Closing, Reading, PastRead

(* A step of a read; it ends with a result. *)
LEMMA ReadPlain ==
  ASSUME IInv, NEW a \in ReaderActors, pc[a] \in Reading, NEW to \in Reading \cup {AfterRead(a)},
         NEW x \in {"none", "data", "eos", "closed", "timeout"},
         to = AfterRead(a) => x # "none",
         pc' = [pc EXCEPT ![a] = to], result' = [result EXCEPT ![a] = x],
         UNCHANGED <<inProcess, state, old, session, localCalls, remoteCalls, peerTold>>
  PROVE  IInv'
<1>1. a \in Actors /\ a # D
  BY Members, Zenon DEF ReaderActors
<1>2. a \in Workers => InProcess(a)
  BY Zenon DEF InProcess, InOnData, Reading
<1>3. to \in Steps /\ to \notin Closing /\ to \notin Reporting /\ pc[a] # "tell"
  BY Zenon DEF Reading, AfterRead, Closing, Reporting, Steps
<1>4. a \in Workers => /\ to \in Reading \cup {"onData"}
                       /\ to \in PastRead => x # "none"
                       /\ to \in Reading \cup PastRead
  BY Zenon DEF AfterRead, Reading, PastRead
<1> QED BY <1>1, <1>2, <1>3, <1>4, Plain, Zenon

(* A step of close that leaves the stream to the same reporter. *)
LEMMA ClosePlain ==
  ASSUME IInv, NEW a \in Actors, NEW to \in Steps, pc' = [pc EXCEPT ![a] = to],
         UNCHANGED <<result, inProcess, old, session, localCalls, remoteCalls, peerTold>>,
         state' \in {state, "halfClosed"},
         pc[a] \in {"store", "load", "half", "readState"} \cup Closing, pc[a] # "tell",
         \/ to = Return(a)
         \/ pc[a] \in {"store", "load"} /\ to \in {"load", "half"}
         \/ pc[a] = "load" /\ to = "readState" /\ a \notin Workers
         \/ pc[a] \in Closing /\ to \in Closing,
         to \in Reporting => old[a] = "opened",
         to \in SessionSteps => pc[a] \in SessionSteps \/ old[a] = "opened"
  PROVE  IInv'
<1>1. result' = [result EXCEPT ![a] = result[a]]
      /\ result[a] \in {"none", "data", "eos", "closed", "timeout"}
  BY Zenon DEF IInv, TypeOK
<1>2. /\ Return(a) \in {"join", "idle", "onData", "done"}
      /\ a \in Workers => Return(a) = IF result[a] # "none" THEN "onData" ELSE "idle"
      /\ a = D => Return(a) \in {"join", "idle"}
  BY Members, Zenon DEF Return
<1>3. a = D =>
               (to \in SessionSteps => session \in {"lambda", "unmapped"}) /\ to # "spawn"
               /\ to \notin Halving /\ to \notin {"add", "check"}
  BY <1>2, Zenon DEF IInv, TypeOK, DispatcherInv, SessionSteps, Halving, Closing, Reporting
<1>4. to \in Closing => pc[a] \in Closing
  BY <1>2, Zenon DEF Closing, Reporting
<1>5. ASSUME a \in Workers
      PROVE  /\ to \in PastRead => result[a] # "none"
             /\ result[a] # "none" => to \in Reading \cup PastRead
             /\ result[a] # "none" \/ to \in Reading \cup {"onData", "move", "loop", "leave"}
                  => InProcess(a)
  <2>1. /\ pc[a] \in PastRead => result[a] # "none"
        /\ result[a] # "none" => pc[a] \in Reading \cup PastRead
    BY <1>5, Zenon DEF IInv, ProcessInv
  <2>2. CASE to = Return(a)
    BY <1>2, <1>5, <2>1, <2>2, Zenon DEF InProcess, InOnData, Reading, PastRead
  <2>3. CASE pc[a] \in {"store", "load"} /\ to \in {"load", "half"}
    BY <2>1, <2>3, Zenon DEF InProcess, InOnData, Reading, PastRead
  <2>4. CASE pc[a] \in Closing /\ to \in Closing
    BY <2>1, <2>4, Zenon DEF Reading, PastRead, Closing, Reporting
  <2> QED BY <1>5, <2>2, <2>3, <2>4, Zenon
<1> QED BY <1>1, <1>3, <1>4, <1>5, Plain, Zenon

(* A step that changes neither a goroutine nor anything they synchronise with. *)
LEMMA Elsewhere ==
  ASSUME IInv, UNCHANGED <<result, inProcess, state, old, pc, localCalls, remoteCalls, peerTold>>,
         \/ session' = session
         \/ session \in {"open", "shutdown"} /\ session' \in {"shutdown", "closing"}
  PROVE  IInv'
<1>1. TypeOK'
  BY Zenon DEF IInv, TypeOK
<1>2. ProcessInv'
  BY Zenon DEF IInv, ProcessInv, InProcess, InOnData
<1>3. DispatcherInv'
  BY Zenon DEF IInv, DispatcherInv
<1>4. ReportInv'
  BY Zenon DEF IInv, ReportInv, Reporter
<1> QED BY <1>1, <1>2, <1>3, <1>4, Zenon DEF IInv
-----------------------------------------------------------------------------
(* The dispatcher's steps. *)
LEMMA DispatcherPreserves == IInv /\ (Receive \/ DispatcherStep) => IInv'
<1> SUFFICES ASSUME IInv, Receive \/ DispatcherStep PROVE IInv'
  BY Zenon
<1> USE DEF Goto, butPc, dataVars, notData, notClose, notCb, readVars, cbVars, closeVars, peerVars
<1>0. /\ D \in Actors /\ pc \in [Actors -> Steps] /\ TypeOK /\ ProcessInv /\ ReportInv
      /\ DispatcherInv
  BY Members, Zenon DEF IInv, TypeOK
<1>1. CASE Arrive
  <2>1. CASE registered
    <3>1. old[D] = "none"
      BY <1>0, <1>1, Zenon DEF Arrive, DispatcherFree, DispatcherInv
    <3> QED BY <1>1, <2>1, <3>1, DispatcherPlain, Zenon DEF Arrive
  <2>2. CASE ~registered
    <3>1. UNCHANGED <<result, inProcess, state, old, pc, session, localCalls, remoteCalls, peerTold>>
      BY <1>1, <2>2, Zenon DEF Arrive
    <3> QED BY <3>1, Elsewhere, Zenon
  <2> QED BY <2>1, <2>2, Zenon
<1>2. CASE PeerCloses
  <2>1. CASE registered /\ state = "opened"
    <3>1. /\ pc[D] = "idle" /\ pc' = [pc EXCEPT ![D] = "halfNotify"] /\ state' = "halfClosed"
          /\ UNCHANGED <<result, inProcess, old, session, localCalls, remoteCalls, peerTold>>
      BY <1>2, <2>1, Zenon DEF PeerCloses
    <3>2. result' = [result EXCEPT ![D] = result[D]]
      BY <1>0, <3>1, Zenon DEF TypeOK
    <3>3. TypeOK'
      BY <1>0, <3>1, Zenon DEF TypeOK, Steps
    <3>4. ProcessInv'
      BY <1>0, <3>1, <3>2, Members, ProcessSame, Zenon DEF Steps
    <3>5. pc'[D] = "halfNotify" /\ \A b \in Actors \ {D} : pc'[b] = pc[b]
      BY <1>0, <3>1, Zenon
    <3>6. DispatcherInv'
      BY <1>0, <3>1, <3>5, Zenon DEF DispatcherInv, SessionSteps, Reporting
    <3>7. \A b \in Actors : ~Reporter(b)
      BY <1>0, <2>1, Zenon DEF ReportInv
    <3>8. \A b \in Actors \ {D} : ~Reporter(b)'
      BY <3>1, <3>5, <3>7, Zenon DEF Reporter
    <3>9. \A b \in Actors : pc'[b] \in Reporting => old'[b] = "opened"
      BY <1>0, <3>1, <3>5, Zenon DEF ReportInv, Reporting
    <3>10. ReportInv'
      BY <1>0, <2>1, <3>1, <3>8, <3>9, Zenon DEF ReportInv
    <3> QED BY <3>3, <3>4, <3>6, <3>10, Zenon DEF IInv
  <2>2. CASE ~(registered /\ state = "opened")
    <3>1. UNCHANGED <<result, inProcess, state, old, pc, session, localCalls, remoteCalls, peerTold>>
      BY <1>2, <2>2, Zenon DEF PeerCloses
    <3> QED BY <3>1, Elsewhere, Zenon
  <2> QED BY <2>1, <2>2, Zenon
<1>3. CASE HalfNotify
  BY <1>3, DispatcherPlain, Zenon DEF HalfNotify, Halving
<1>4. CASE HalfReport
  <2>1. /\ pc[D] = "halfReport" /\ pc' = [pc EXCEPT ![D] = "idle"]
        /\ remoteCalls' = remoteCalls + 1
        /\ UNCHANGED <<result, inProcess, state, old, session, localCalls, peerTold>>
    BY <1>4, Zenon DEF HalfReport
  <2>2. result' = [result EXCEPT ![D] = result[D]]
    BY <1>0, <2>1, Zenon DEF TypeOK
  <2>3. TypeOK'
    BY <1>0, <2>1 DEF TypeOK, Steps
  <2>4. ProcessInv'
    BY <1>0, <2>1, <2>2, Members, ProcessSame, Zenon DEF Steps
  <2>5. pc'[D] = "idle" /\ \A b \in Actors \ {D} : pc'[b] = pc[b]
    BY <1>0, <2>1, Zenon
  <2>6. DispatcherInv'
    BY <1>0, <2>1, <2>5, Zenon DEF DispatcherInv, SessionSteps, Reporting
  <2>7. Reporter(D)
    BY <2>1, Zenon DEF Reporter, Halving
  <2>8. localCalls + remoteCalls = 0 /\ state # "opened" /\ \A b \in Actors \ {D} : ~Reporter(b)
    BY <1>0, <2>1, <2>7, Zenon DEF ReportInv
  <2>9. \A b \in Actors : ~Reporter(b)'
    BY <1>0, <2>1, <2>5, <2>8, Zenon DEF Reporter, Closing, Halving, Reporting
  <2>10. \A b \in Actors : pc'[b] \in Reporting => old'[b] = "opened"
    BY <1>0, <2>1, <2>5, Zenon DEF ReportInv, Reporting
  <2>11. localCalls' + remoteCalls' = 1
    BY <1>0, <2>1, <2>8 DEF TypeOK
  <2>12. ReportInv'
    BY <1>0, <2>1, <2>8, <2>9, <2>10, <2>11 DEF ReportInv
  <2> QED BY <2>3, <2>4, <2>6, <2>12, Zenon DEF IInv
<1>5. CASE FillAdd
  BY <1>0, <1>5, DispatcherPlain, Zenon DEF FillAdd, DispatcherInv
<1>6. CASE FillCheck
  BY <1>0, <1>6, DispatcherPlain, Zenon DEF FillCheck, DispatcherInv
<1>7. CASE FillNotify
  BY <1>7, DispatcherPlain, Zenon DEF FillNotify
<1>8. CASE FillCas
  <2>1. /\ pc[D] = "cas" /\ inProcess' = 1
        /\ UNCHANGED <<result, state, old, session, localCalls, remoteCalls, peerTold>>
    BY <1>8, Zenon DEF FillCas
  <2>2. CASE inProcess = 1
    BY <1>8, <2>1, <2>2, DispatcherPlain DEF FillCas
  <2>3. CASE inProcess = 0
    <3>1. pc' = [pc EXCEPT ![D] = "spawn"]
      BY <1>8, <2>3, Zenon DEF FillCas
    <3>2. pc'[D] = "spawn" /\ \A b \in Actors \ {D} : pc'[b] = pc[b]
      BY <1>0, <3>1, Zenon
    <3>3. TypeOK'
      BY <1>0, <2>1, <3>1, Zenon DEF TypeOK, Steps
    <3>4. \A w \in Workers : ~InProcess(w) /\ ~InProcess(w)'
      BY <1>0, <2>1, <2>3, <3>2, Members DEF ProcessInv, InProcess, InOnData
    <3>5. ProcessInv'
      BY <1>0, <2>1, <3>2, <3>4, Members, Zenon DEF ProcessInv
    <3>6. ReportInv' /\ DispatcherInv'
      BY <1>0, <2>1, <3>1, ReportSame, Zenon DEF Steps, Reporting, Closing, Halving, SessionSteps
    <3> QED BY <3>3, <3>5, <3>6, Zenon DEF IInv
  <2> QED BY <1>0, <2>2, <2>3, Zenon DEF TypeOK
<1>9. ASSUME NEW w \in Workers, FillSpawn(w) PROVE IInv'
  <2>1. /\ pc[D] = "spawn" /\ pc[w] = "idle"
        /\ pc' = [pc EXCEPT ![D] = "idle", ![w] = "move"]
        /\ UNCHANGED <<result, inProcess, state, old, session, localCalls, remoteCalls, peerTold>>
    BY <1>9, Zenon DEF FillSpawn
  <2>2. w \in Actors /\ w # D
    BY Members, Zenon
  <2>3. /\ pc'[D] = "idle" /\ pc'[w] = "move"
        /\ \A b \in Actors \ {D, w} : pc'[b] = pc[b]
    BY <1>0, <2>1, <2>2, Zenon
  <2>4. TypeOK'
    BY <1>0, <2>1, <2>2, Zenon DEF TypeOK, Steps
  <2>5. inProcess = 1 /\ \A v \in Workers : ~InProcess(v)
    BY <1>0, <2>1, Zenon DEF ProcessInv
  <2>6. \A v \in Workers \ {w} : ~InProcess(v)'
    BY <2>1, <2>3, <2>5, Members, Zenon DEF InProcess, InOnData
  <2>7. result[w] = "none"
    BY <2>5, Zenon DEF InProcess, InOnData
  <2>8. \A v \in Workers : /\ pc'[v] \in PastRead => result'[v] # "none"
                           /\ result'[v] # "none" => pc'[v] \in Reading \cup PastRead
    BY <1>0, <2>1, <2>3, <2>7, Members, Zenon DEF ProcessInv, PastRead
  <2>9. ProcessInv'
    BY <2>1, <2>3, <2>5, <2>6, <2>8, Zenon DEF ProcessInv
  <2>10. \A b \in Actors : /\ Reporter(b)' => Reporter(b) /\ pc'[b] = pc[b]
                           /\ pc'[b] \in Reporting => old'[b] = "opened"
    BY <1>0, <2>1, <2>3, Zenon DEF Reporter, ReportInv, Closing, Reporting, Halving
  <2>11. ReportInv'
    BY <1>0, <2>1, <2>10, Zenon DEF ReportInv
  <2>12. DispatcherInv'
    BY <1>0, <2>1, <2>3, Zenon DEF DispatcherInv, SessionSteps, Reporting
  <2> QED BY <2>4, <2>9, <2>11, <2>12, Zenon DEF IInv
<1>10. ASSUME NEW to \in {"store", "unmap", "done"}, pc[D] \in {"idle", "unmap"},
              session' = IF to = "done" THEN "unmapped" ELSE "lambda",
              pc' = [pc EXCEPT ![D] = to],
              UNCHANGED <<result, inProcess, state, old, localCalls, remoteCalls, peerTold>>
       PROVE  IInv'
  <2>1. result' = [result EXCEPT ![D] = result[D]]
    BY <1>0, <1>10, Zenon DEF TypeOK
  <2>2. TypeOK'
    BY <1>0, <1>10, Zenon DEF TypeOK, Steps
  <2>3. ProcessInv'
    BY <1>0, <1>10, <2>1, Members, ProcessSame, Zenon DEF Steps
  <2>4. pc'[D] = to /\ \A b \in Actors \ {D} : pc'[b] = pc[b]
    BY <1>0, <1>10, Zenon
  <2>5. \A b \in Actors : /\ Reporter(b)' => Reporter(b) /\ pc'[b] = pc[b]
                          /\ pc'[b] \in Reporting => old'[b] = "opened"
    BY <1>0, <1>10, <2>4, Zenon DEF Reporter, ReportInv, Closing, Reporting, Halving
  <2>6. ReportInv'
    BY <1>0, <1>10, <2>5, Zenon DEF ReportInv
  <2>7. DispatcherInv'
    BY <1>10, <2>4, Zenon DEF DispatcherInv, SessionSteps, Reporting
  <2> QED BY <2>2, <2>3, <2>6, <2>7, Zenon DEF IInv
<1>11. CASE SessionLambda
  BY <1>10, <1>11, Zenon DEF SessionLambda
<1>12. CASE SessionJoin
  BY <1>12, DispatcherPlain, Zenon DEF SessionJoin
<1>13. CASE SessionUnmap
  BY <1>10, <1>13, Zenon DEF SessionUnmap
<1> QED
  BY <1>1, <1>2, <1>3, <1>4, <1>5, <1>6, <1>7, <1>8, <1>9, <1>11, <1>12, <1>13, Zenon
  DEF Receive, DispatcherStep

(* The steps of the goroutine that runs OnData. *)
LEMMA WorkerPreserves == \A w \in Workers : IInv /\ WorkerStep(w) => IInv'
<1> SUFFICES ASSUME IInv, NEW w \in Workers, WorkerStep(w) PROVE IInv'
  BY Zenon
<1> USE DEF Goto, butPc, dataVars, notData, notClose, notCb, readVars, cbVars, closeVars, peerVars
<1>0. /\ w \in Actors /\ w # D /\ pc \in [Actors -> Steps] /\ TypeOK /\ ProcessInv /\ ReportInv
      /\ DispatcherInv
  BY Members, Zenon DEF IInv, TypeOK
<1>r. result[w] # "none" => pc[w] \in Reading \cup PastRead
  BY <1>0, Zenon DEF ProcessInv
<1> DEFINE Frame == UNCHANGED <<result, inProcess, state, old, session, localCalls, remoteCalls,
                                peerTold>>
<1>1. CASE WorkerMove(w)
  <2>1. pc[w] = "move" /\ pc' = [pc EXCEPT ![w] = "loop"] /\ Frame
    BY <1>1, Zenon DEF WorkerMove
  <2>2. result[w] = "none" /\ InProcess(w)
    BY <1>r, <2>1, Zenon DEF InProcess, Reading, PastRead
  <2> QED BY <2>1, <2>2, WorkerPlain, Zenon
<1>2. CASE WorkerLoop(w)
  <2>1. PICK to \in {"read", "leave"} : pc[w] = "loop" /\ pc' = [pc EXCEPT ![w] = to] /\ Frame
    BY <1>2, Zenon DEF WorkerLoop
  <2>2. result[w] = "none" /\ InProcess(w)
    BY <1>r, <2>1, Zenon DEF InProcess, Reading, PastRead
  <2> QED BY <2>1, <2>2, WorkerPlain, Zenon
<1>3. CASE WorkerCheckClose(w) \/ WorkerRecheck(w) \/ WorkerEnd(w)
  <2>1. PICK to \in {"readState", "recheck", "recas", "end", "idle"} :
            /\ pc[w] \in {"checkClose", "recheck", "end"} /\ pc' = [pc EXCEPT ![w] = to] /\ Frame
    BY <1>3, Zenon DEF WorkerCheckClose, WorkerRecheck, WorkerEnd
  <2>2. result[w] = "none"
    BY <1>r, <2>1, Zenon DEF Reading, PastRead
  <2> QED BY <2>1, <2>2, WorkerPlain, Zenon
<1>4. CASE OnDataReads(w) \/ OnDataCloses(w)
  <2>1. PICK to \in {"read", "store"} :
            pc[w] = "onData" /\ pc' = [pc EXCEPT ![w] = to] /\ Frame
    BY <1>4, Zenon DEF OnDataReads, OnDataCloses
  <2>2. result[w] # "none" /\ InProcess(w)
    BY <1>0, <2>1, Zenon DEF ProcessInv, PastRead, InProcess, InOnData
  <2> QED BY <2>1, <2>2, WorkerPlain, Zenon
<1>5. CASE OnDataReturns(w)
  <2>1. /\ pc[w] = "onData" /\ pc' = [pc EXCEPT ![w] = "move"]
        /\ result' = [result EXCEPT ![w] = "none"]
        /\ UNCHANGED <<inProcess, state, old, session, localCalls, remoteCalls, peerTold>>
    BY <1>5, Zenon DEF OnDataReturns
  <2>2. InProcess(w)
    BY <2>1, Zenon DEF InProcess, InOnData
  <2> QED BY <1>0, <2>1, <2>2, Plain, Zenon DEF Steps, Closing, Reporting, PastRead
<1>6. ASSUME NEW to \in {"checkClose", "move", "end"}, pc[w] \in {"leave", "recas"},
             pc' = [pc EXCEPT ![w] = to], inProcess' \in {0, 1},
             UNCHANGED <<result, state, old, session, localCalls, remoteCalls, peerTold>>,
             \/ pc[w] = "leave" /\ to = "checkClose"
             \/ inProcess = 0 /\ to = "move" /\ inProcess' = 1
             \/ inProcess = 1 /\ to = "end" /\ inProcess' = 1
      PROVE  IInv'
  <2>1. pc'[w] = to /\ \A b \in Actors \ {w} : pc'[b] = pc[b]
    BY <1>0, <1>6, Zenon
  <2>2. result[w] = "none"
    BY <1>6, <1>r, Zenon DEF Reading, PastRead
  <2>3. TypeOK'
    BY <1>0, <1>6, Zenon DEF TypeOK, Steps
  <2>4. ReportInv' /\ DispatcherInv'
    BY <1>0, <1>6, ReportSame, Zenon DEF Steps, Closing, Reporting
  <2>5. \A v \in Workers : /\ pc'[v] \in PastRead => result'[v] # "none"
                           /\ result'[v] # "none" => pc'[v] \in Reading \cup PastRead
    BY <1>0, <1>6, <2>1, <2>2, Members, Zenon DEF ProcessInv, PastRead
  <2>6. \A v \in Workers \ {w} : InProcess(v)' <=> InProcess(v)
    BY <1>6, <2>1, Members, Zenon DEF InProcess, InOnData
  <2>7. pc'[D] = pc[D]
    BY <1>0, <2>1, Members, Zenon
  <2>8. CASE pc[w] = "leave" /\ to = "checkClose"
    <3>1. InProcess(w) /\ ~InProcess(w)'
      BY <1>6, <2>1, <2>2, <2>8, Zenon DEF InProcess, InOnData
    <3>2. pc[D] # "spawn" /\ \A v \in Workers : ~InProcess(v)'
      BY <1>0, <2>6, <3>1, Zenon DEF ProcessInv
    <3>3. ProcessInv'
      BY <2>5, <2>7, <3>2, Zenon DEF ProcessInv
    <3> QED BY <2>3, <2>4, <3>3, Zenon DEF IInv
  <2>9. CASE inProcess = 0 /\ to = "move" /\ inProcess' = 1
    <3>1. pc[D] # "spawn" /\ \A v \in Workers : ~InProcess(v)
      BY <1>0, <2>9 DEF ProcessInv
    <3>2. ProcessInv'
      BY <2>5, <2>6, <2>7, <2>9, <3>1, Zenon DEF ProcessInv
    <3> QED BY <2>3, <2>4, <3>2, Zenon DEF IInv
  <2>10. CASE inProcess = 1 /\ to = "end" /\ inProcess' = 1
    <3>1. ~InProcess(w)'
      BY <1>6, <2>1, <2>2, <2>10, Zenon DEF InProcess, InOnData
    <3>2. ProcessInv'
      BY <1>0, <2>5, <2>6, <2>7, <2>10, <3>1, Zenon DEF ProcessInv
    <3> QED BY <2>3, <2>4, <3>2, Zenon DEF IInv
  <2> QED BY <1>6, <2>8, <2>9, <2>10, Zenon
<1>7. CASE WorkerLeave(w)
  BY <1>6, <1>7, Zenon DEF WorkerLeave
<1>8. CASE WorkerRecas(w)
  BY <1>0, <1>6, <1>8, Zenon DEF WorkerRecas, TypeOK
<1> QED BY <1>1, <1>2, <1>3, <1>4, <1>5, <1>7, <1>8, Zenon DEF WorkerStep

(* The steps of a read, in OnData or in a reader of its own. *)
LEMMA ReadPreserves ==
  \A a \in ReaderActors : IInv /\ (ReadStep(a) \/ SelectTimeout(a)) => IInv'
<1> SUFFICES ASSUME IInv, NEW a \in ReaderActors, ReadStep(a) \/ SelectTimeout(a) PROVE IInv'
  BY Zenon
<1> USE DEF Goto, dataVars, readVars, cbVars, closeVars, peerVars
<1>0. TypeOK /\ a \in Actors /\ result[a] \in {"none", "data", "eos", "closed", "timeout"}
  BY Members, Zenon DEF IInv, TypeOK, ReaderActors
<1> DEFINE Frame == UNCHANGED <<inProcess, state, old, session, localCalls, remoteCalls, peerTold>>
<1>1. ASSUME NEW from \in Reading, NEW to \in Reading \cup {AfterRead(a)},
             NEW x \in {"none", "data", "eos", "closed", "timeout"},
             to = AfterRead(a) => x # "none", TakeOr(a, from, to, x)
      PROVE  IInv'
  <2>1. pc[a] = from /\ Frame
    BY <1>1, Zenon DEF TakeOr
  <2>2. \/ /\ pc' = [pc EXCEPT ![a] = AfterRead(a)]
           /\ result' = [result EXCEPT ![a] = "data"]
        \/ pc' = [pc EXCEPT ![a] = to] /\ result' = [result EXCEPT ![a] = x]
    BY <1>1, Zenon DEF TakeOr
  <2>3. CASE pc' = [pc EXCEPT ![a] = AfterRead(a)] /\ result' = [result EXCEPT ![a] = "data"]
    BY <2>1, <2>3, ReadPlain, Zenon
  <2>4. CASE pc' = [pc EXCEPT ![a] = to] /\ result' = [result EXCEPT ![a] = x]
    BY <1>1, <2>1, <2>4, ReadPlain, Zenon
  <2> QED BY <2>2, <2>3, <2>4, Zenon
<1>2. AfterRead(a) \notin Reading
  BY Zenon DEF AfterRead, Reading
<1>3. CASE ReadMove(a) \/ Reread(a)
  BY <1>0, <1>1, <1>2, <1>3, Zenon DEF ReadMove, Reread, Reading
<1>4. CASE SelectClose(a)
  BY <1>1, <1>4, Zenon DEF SelectClose, Reading
<1>5. CASE ReadCheck(a)
  <2>1. pc[a] = "readCheck" /\ Frame
    BY <1>5, Zenon DEF ReadCheck
  <2>2. CASE state # "opened"
    <3>1. pc' = [pc EXCEPT ![a] = AfterRead(a)] /\ result' = [result EXCEPT ![a] = "eos"]
      BY <1>5, <2>2, Zenon DEF ReadCheck
    <3> QED BY <2>1, <3>1, ReadPlain, Zenon DEF Reading
  <2>3. CASE state = "opened"
    <3>1. pc' = [pc EXCEPT ![a] = "select"] /\ result' = [result EXCEPT ![a] = result[a]]
      BY <1>5, <2>3, Zenon DEF ReadCheck
    <3> QED BY <1>0, <1>2, <2>1, <3>1, ReadPlain, Zenon DEF Reading
  <2> QED BY <2>2, <2>3, Zenon
<1>6. CASE SelectNotify(a)
  <2>1. /\ pc[a] = "select" /\ pc' = [pc EXCEPT ![a] = "reread"] /\ Frame /\ result' = result
    BY <1>6, Zenon DEF SelectNotify
  <2>2. result' = [result EXCEPT ![a] = result[a]]
    BY <1>0, <2>1, Zenon DEF TypeOK
  <2> QED BY <1>0, <1>2, <2>1, <2>2, ReadPlain, Zenon DEF Reading
<1>7. CASE SelectTimeout(a)
  <2>1. /\ pc[a] = "select" /\ pc' = [pc EXCEPT ![a] = AfterRead(a)] /\ Frame
        /\ result' = [result EXCEPT ![a] = "timeout"]
    BY <1>7, Zenon DEF SelectTimeout
  <2> QED BY <2>1, ReadPlain, Zenon DEF Reading
<1> QED BY <1>3, <1>4, <1>5, <1>6, <1>7, Zenon DEF ReadStep

(* The steps of Close and close, whoever takes them. *)
LEMMA ClosePreserves == \A a \in Actors : IInv /\ CloseStep(a) => IInv'
<1> SUFFICES ASSUME IInv, NEW a \in Actors, CloseStep(a) PROVE IInv'
  BY Zenon
<1> USE DEF Goto, butPc, dataVars, notData, notClose, notCb, readVars, cbVars, closeVars, peerVars
<1>0. /\ pc \in [Actors -> Steps] /\ pc[a] \in Steps /\ TypeOK /\ ProcessInv /\ ReportInv
      /\ DispatcherInv
  BY Zenon DEF IInv, TypeOK
<1>t. Return(a) \in Steps /\ Return(a) \notin Closing \cup Reporting \cup SessionSteps \cup Halving
      /\ Return(a) \notin {"spawn", "add", "check"}
  BY Zenon DEF Return, Steps, Closing, Reporting, SessionSteps, Halving
<1>w. a \in Workers => /\ pc[a] \in PastRead => result[a] # "none"
                       /\ result[a] # "none" => pc[a] \in Reading \cup PastRead /\ InProcess(a)
                       /\ Return(a) = IF result[a] # "none" THEN "onData" ELSE "idle"
  BY <1>0, Members, Zenon DEF ProcessInv, InProcess, InOnData, Return
<1> DEFINE Frame == UNCHANGED <<result, inProcess, old, session, localCalls, remoteCalls, peerTold>>
<1>1. CASE CloseStore(a)
  <2>1. pc[a] = "store" /\ pc' = [pc EXCEPT ![a] = "load"] /\ Frame /\ state' = state
    BY <1>1, Zenon DEF CloseStore
  <2> QED BY <2>1, ClosePlain, Zenon DEF Steps, Reporting, SessionSteps
<1>2. CASE CloseLoad(a)
  <2>1. pc[a] = "load" /\ Frame /\ state' = state
    BY <1>2, Zenon DEF CloseLoad
  <2>2. CASE inProcess = 1
    <3>1. pc' = [pc EXCEPT ![a] = "half"]
      BY <1>2, <2>2, Zenon DEF CloseLoad
    <3> QED BY <2>1, <3>1, ClosePlain, Zenon DEF Steps, Reporting, SessionSteps
  <2>3. CASE inProcess # 1
    <3>1. pc' = [pc EXCEPT ![a] = "readState"]
      BY <1>2, <2>3, Zenon DEF CloseLoad
    <3>2. a \notin Workers
      BY <1>0, <1>w, <2>1, <2>3, Zenon DEF ProcessInv, PastRead
    <3> QED BY <2>1, <3>1, <3>2, ClosePlain, Zenon DEF Steps, Reporting, SessionSteps
  <2> QED BY <2>2, <2>3, Zenon
<1>3. CASE CloseHalf(a)
  <2>1. /\ pc[a] = "half" /\ pc' = [pc EXCEPT ![a] = Return(a)] /\ Frame
        /\ state' \in {state, "halfClosed"}
    BY <1>3, Zenon DEF CloseHalf
  <2> QED BY <1>t, <2>1, ClosePlain, Zenon
<1>4. ASSUME NEW from \in Closing, NEW to \in Closing, pc[a] = from, from # "tell",
             pc' = [pc EXCEPT ![a] = to], Frame, state' = state,
             to \in Reporting => old[a] = "opened",
             to \in SessionSteps => from \in SessionSteps \/ old[a] = "opened"
      PROVE  IInv'
  <2>1. to \in Steps
    BY <1>4, Zenon DEF Closing, Reporting, Steps
  <2> QED BY <1>4, <2>1, ClosePlain, Zenon
<1>5. CASE CloseWait(a) \/ CloseUnregister(a) \/ ClearPending(a) \/ Drain(a)
  <2>1. PICK to \in {"unregister", "clear", "drain", "reset"} :
            /\ pc' = [pc EXCEPT ![a] = to] /\ Frame /\ state' = state
            /\ pc[a] \in {"wait", "unregister", "clear", "drain"}
            /\ to = "unregister" => pc[a] = "wait"
    BY <1>5, Zenon DEF CloseWait, CloseUnregister, ClearPending, Drain
  <2> QED BY <1>4, <2>1, Zenon DEF Closing, Reporting, SessionSteps
<1>6. CASE ResetBuf(a)
  <2>1. pc[a] = "reset" /\ Frame /\ state' = state
    BY <1>6, Zenon DEF ResetBuf
  <2>2. CASE old[a] = "opened"
    <3>1. pc' = [pc EXCEPT ![a] = "closeNotify"]
      BY <1>6, <2>2, Zenon DEF ResetBuf
    <3> QED BY <1>4, <2>1, <2>2, <3>1, Zenon DEF Closing, Reporting
  <2>3. CASE old[a] # "opened"
    <3>1. pc' = [pc EXCEPT ![a] = Return(a)]
      BY <1>6, <2>3, Zenon DEF ResetBuf
    <3> QED BY <1>t, <2>1, <3>1, ClosePlain, Zenon DEF Closing
  <2> QED BY <2>2, <2>3, Zenon
<1>7. CASE CloseNotify(a)
  <2>1. PICK to \in {"report", "tell"} :
            pc[a] = "closeNotify" /\ pc' = [pc EXCEPT ![a] = to] /\ Frame /\ state' = state
    BY <1>7, Zenon DEF CloseNotify
  <2>2. old[a] = "opened"
    BY <1>0, <2>1, Zenon DEF ReportInv, Reporting
  <2> QED BY <1>4, <2>1, <2>2, Zenon DEF Closing, Reporting
<1>8. ASSUME NEW from \in {"readState", "casClosed", "report", "tell"},
             NEW to \in {"casClosed", "wait", "unregister", "tell", Return(a)},
             pc[a] = from, pc' = [pc EXCEPT ![a] = to], UNCHANGED <<result, inProcess, session>>
      PROVE  /\ ProcessInv'
             /\ pc'[a] = to /\ \A b \in Actors \ {a} : pc'[b] = pc[b]
             /\ pc' \in [Actors -> Steps]
             /\ pc'[D] \in SessionSteps => session \in {"lambda", "unmapped"}
             /\ pc'[D] \in {"add", "check"} => pc[D] \in {"add", "check"} /\ a # D
  <2>1. result' = [result EXCEPT ![a] = result[a]]
    BY <1>0, <1>8, Zenon DEF TypeOK
  <2>2. to \in Steps /\ to # "spawn" /\ to \notin {"add", "check"}
    BY <1>t, <1>8 DEF Steps
  <2>3. a \in Workers => result[a] = "none"
    BY <1>w, <1>8, Zenon DEF Reading, PastRead
  <2>4. a \in Workers => to \notin PastRead \cup Reading \cup {"onData", "move", "loop", "leave"}
    BY <1>w, <1>8, <2>3, Zenon DEF PastRead, Reading
  <2>5. ProcessInv'
    BY <1>0, <1>8, <2>1, <2>2, <2>3, <2>4, ProcessSame, Zenon
  <2>6. pc'[a] = to /\ \A b \in Actors \ {a} : pc'[b] = pc[b]
    BY <1>0, <1>8, Zenon
  <2>7. pc' \in [Actors -> Steps]
    BY <1>0, <1>8, <2>2, Zenon
  <2>8. pc'[D] \in SessionSteps => session \in {"lambda", "unmapped"}
    BY <1>0, <1>t, <1>8, <2>6, Members, Zenon DEF DispatcherInv, SessionSteps, Reporting
  <2> QED BY <2>2, <2>5, <2>6, <2>7, <2>8, Members, Zenon
<1>9. CASE CloseReadState(a)
  <2> DEFINE to == IF state = "closed" THEN Return(a) ELSE "casClosed"
             o == IF state = "closed" THEN "none" ELSE state
  <2>1. /\ pc[a] = "readState" /\ pc' = [pc EXCEPT ![a] = to]
        /\ old' = [old EXCEPT ![a] = o]
        /\ UNCHANGED <<result, inProcess, session, state, localCalls, remoteCalls, peerTold>>
    BY <1>9, Zenon DEF CloseReadState
  <2>2. /\ to \in {"casClosed", Return(a)} /\ to \notin Closing /\ to \notin Reporting
        /\ to \notin Halving
        /\ o \in {"none", "opened", "halfClosed"}
    BY <1>0, <1>t, Zenon DEF TypeOK, Closing, Reporting, Halving
  <2> HIDE DEF to, o
  <2>3. /\ ProcessInv'
        /\ pc'[a] = to /\ \A b \in Actors \ {a} : pc'[b] = pc[b]
        /\ pc' \in [Actors -> Steps]
        /\ pc'[D] \in SessionSteps => session \in {"lambda", "unmapped"}
        /\ pc'[D] \in {"add", "check"} => pc[D] \in {"add", "check"} /\ a # D
    BY <1>8, <2>1, <2>2, Zenon
  <2>4. /\ TypeOK' /\ \A b \in Actors \ {a} : old'[b] = old[b]
    BY <1>0, <2>1, <2>2, <2>3, Zenon DEF TypeOK
  <2>5. DispatcherInv'
    <3>1. a = D => session \in {"lambda", "unmapped"}
      BY <1>0, <2>1, Zenon DEF DispatcherInv, SessionSteps
    <3> QED BY <1>0, <2>1, <2>3, <2>4, <3>1, Members, Zenon DEF DispatcherInv
  <2>6. \A b \in Actors : /\ Reporter(b)' => Reporter(b) /\ pc'[b] = pc[b]
                          /\ pc'[b] \in Reporting => old'[b] = "opened"
    BY <1>0, <2>2, <2>3, <2>4, Zenon DEF Reporter, ReportInv
  <2>7. ReportInv'
    BY <1>0, <2>1, <2>6, Zenon DEF ReportInv
  <2> QED BY <2>3, <2>4, <2>5, <2>7, Zenon DEF IInv
<1>10. CASE CloseCas(a) /\ state = old[a]
  <2>1. /\ pc[a] = "casClosed" /\ pc' = [pc EXCEPT ![a] = AfterCas(a)] /\ state' = "closed"
        /\ UNCHANGED <<result, inProcess, session, old, localCalls, remoteCalls, peerTold>>
    BY <1>10, Zenon DEF CloseCas
  <2>2. AfterCas(a) \in {"wait", "unregister"}
    BY Zenon DEF AfterCas
  <2>3. /\ ProcessInv'
        /\ pc'[a] = AfterCas(a) /\ \A b \in Actors \ {a} : pc'[b] = pc[b]
        /\ pc' \in [Actors -> Steps]
        /\ pc'[D] \in SessionSteps => session \in {"lambda", "unmapped"}
        /\ pc'[D] \in {"add", "check"} => pc[D] \in {"add", "check"} /\ a # D
    BY <1>8, <2>1, <2>2, Zenon
  <2>4. TypeOK' /\ DispatcherInv'
    BY <1>0, <2>1, <2>3, Zenon DEF TypeOK, DispatcherInv
  <2>5. \A b \in Actors \ {a} : Reporter(b)' => Reporter(b) /\ pc'[b] = pc[b]
    BY <2>1, <2>3, Zenon DEF Reporter
  <2>6. \A b \in Actors : pc'[b] \in Reporting => old'[b] = "opened"
    BY <1>0, <2>1, <2>2, <2>3, Zenon DEF ReportInv, Reporting
  <2>7. ASSUME Reporter(a)' PROVE state = "opened"
    BY <1>10, <2>1, <2>2, <2>3, <2>7, Zenon DEF Reporter, Halving
  <2>8. ReportInv'
    BY <1>0, <2>1, <2>5, <2>6, <2>7, Zenon DEF ReportInv
  <2> QED BY <2>3, <2>4, <2>8, Zenon DEF IInv
<1>11. CASE CloseCas(a) /\ state # old[a]
  <2>1. /\ pc[a] = "casClosed" /\ pc' = [pc EXCEPT ![a] = Return(a)]
        /\ old' = [old EXCEPT ![a] = "none"]
        /\ UNCHANGED <<result, inProcess, session, state, localCalls, remoteCalls, peerTold>>
    BY <1>11, Zenon DEF CloseCas
  <2>2. /\ ProcessInv'
        /\ pc'[a] = Return(a) /\ \A b \in Actors \ {a} : pc'[b] = pc[b]
        /\ pc' \in [Actors -> Steps]
        /\ pc'[D] \in SessionSteps => session \in {"lambda", "unmapped"}
        /\ pc'[D] \in {"add", "check"} => pc[D] \in {"add", "check"} /\ a # D
    BY <1>8, <2>1, Zenon
  <2>3. TypeOK' /\ old'[a] = "none" /\ \A b \in Actors \ {a} : old'[b] = old[b]
    BY <1>0, <2>1, <2>2, Zenon DEF TypeOK
  <2>4. DispatcherInv'
    BY <1>0, <2>1, <2>2, <2>3, Members, Zenon DEF DispatcherInv
  <2>5. \A b \in Actors : /\ Reporter(b)' => Reporter(b) /\ pc'[b] = pc[b]
                          /\ pc'[b] \in Reporting => old'[b] = "opened"
    BY <1>0, <1>t, <2>2, <2>3, Zenon DEF Reporter, ReportInv
  <2>6. ReportInv'
    BY <1>0, <2>1, <2>5, Zenon DEF ReportInv
  <2> QED BY <2>2, <2>3, <2>4, <2>6, Zenon DEF IInv
<1>12. ASSUME NEW from \in {"report", "tell"}, NEW to \in {"tell", Return(a)}, pc[a] = from,
              pc' = [pc EXCEPT ![a] = to], from = "report" <=> to = "tell",
              localCalls' \in Nat, remoteCalls' \in Nat, peerTold' \in Nat,
              from = "report" => /\ localCalls' + remoteCalls' = localCalls + remoteCalls + 1
                                 /\ peerTold' = peerTold,
              from = "tell" => /\ localCalls' = localCalls /\ remoteCalls' = remoteCalls
                               /\ peerTold' \in {peerTold, peerTold + 1},
              UNCHANGED <<result, inProcess, session, state, old>>
       PROVE  IInv'
  <2>1. /\ ProcessInv'
        /\ pc'[a] = to /\ \A b \in Actors \ {a} : pc'[b] = pc[b]
        /\ pc' \in [Actors -> Steps]
        /\ pc'[D] \in SessionSteps => session \in {"lambda", "unmapped"}
        /\ pc'[D] \in {"add", "check"} => pc[D] \in {"add", "check"} /\ a # D
    BY <1>8, <1>12, Zenon
  <2>2. TypeOK' /\ DispatcherInv'
    BY <1>0, <1>12, <2>1, Zenon DEF TypeOK, DispatcherInv
  <2>3. old[a] = "opened" /\ Reporter(a)
    BY <1>0, <1>12, Zenon DEF ReportInv, Reporter, Reporting, Closing
  <2>4. /\ state # "opened" /\ peerTold = 0
        /\ from = "report" => localCalls + remoteCalls = 0
        /\ \A b \in Actors \ {a} : ~Reporter(b)
    BY <1>0, <1>12, <2>3, Zenon DEF ReportInv
  <2>5. \A b \in Actors \ {a} : ~Reporter(b)'
    BY <1>12, <2>1, <2>4, Zenon DEF Reporter
  <2>6. \A b \in Actors : pc'[b] \in Reporting => old'[b] = "opened"
    BY <1>0, <1>t, <1>12, <2>1, <2>3, Zenon DEF ReportInv
  <2>7. localCalls' + remoteCalls' <= 1 /\ peerTold' <= 1
    <3>1. CASE from = "report"
      <4>1. localCalls' + remoteCalls' = localCalls + remoteCalls + 1 /\ peerTold' = 0
        BY <1>12, <2>4, <3>1, Zenon
      <4>2. localCalls + remoteCalls + 1 = 1
        BY <2>4, <3>1
      <4> QED BY <4>1, <4>2
    <3>2. CASE from = "tell"
      <4>1. localCalls' + remoteCalls' <= 1
        BY <1>0, <1>12, <3>2, Zenon DEF ReportInv
      <4>2. peerTold' \in {0, 1}
        BY <1>12, <2>4, <3>2
      <4> QED BY <4>1, <4>2
    <3> QED BY <3>1, <3>2, Zenon
  <2>8. Reporter(a)' => pc'[a] = "tell" /\ peerTold' = 0
    BY <1>t, <1>12, <2>1, <2>4, Zenon DEF Reporter
  <2>9. ReportInv'
    BY <1>12, <2>4, <2>5, <2>6, <2>7, <2>8, Zenon DEF ReportInv
  <2> QED BY <2>1, <2>2, <2>9, Zenon DEF IInv
<1>13. CASE CloseReport(a)
  <2>1. /\ pc[a] = "report" /\ pc' = [pc EXCEPT ![a] = "tell"] /\ peerTold' = peerTold
        /\ UNCHANGED <<result, inProcess, session, state, old>>
    BY <1>13, Zenon DEF CloseReport
  <2>2. /\ localCalls' \in Nat /\ remoteCalls' \in Nat /\ peerTold' \in Nat
        /\ localCalls' + remoteCalls' = localCalls + remoteCalls + 1
    BY <1>0, <1>13, <2>1 DEF CloseReport, TypeOK
  <2> QED BY <1>12, <2>1, <2>2, Zenon
<1>14. CASE CloseTell(a)
  <2>1. /\ pc[a] = "tell" /\ pc' = [pc EXCEPT ![a] = Return(a)]
        /\ peerTold' \in {peerTold, peerTold + 1}
        /\ UNCHANGED <<result, inProcess, session, state, old, localCalls, remoteCalls>>
    BY <1>14, Zenon DEF CloseTell
  <2>2. localCalls' \in Nat /\ remoteCalls' \in Nat /\ peerTold' \in Nat /\ Return(a) # "tell"
    BY <1>0, <1>t, <2>1 DEF TypeOK, Reporting
  <2> QED BY <1>12, <2>1, <2>2, Zenon
<1> QED
  BY <1>1, <1>2, <1>3, <1>5, <1>6, <1>7, <1>9, <1>10, <1>11, <1>13, <1>14, Zenon DEF CloseStep

(* Every step of the specification preserves the invariant. *)
LEMMA Preserved == IInv /\ [Next]_vars => IInv'
<1> SUFFICES ASSUME IInv, [Next]_vars PROVE IInv'
  BY Zenon
<1> USE DEF Goto, butPc, dataVars, notData, readVars, cbVars, closeVars, peerVars
<1>0. TypeOK
  BY Zenon DEF IInv
<1>1. CASE SessionShutdown \/ SessionPost
  BY <1>1, Elsewhere, Zenon DEF SessionShutdown, SessionPost
<1>2. ASSUME NEW a \in Readers \cup Users, NEW to \in {"read", "store"}, pc[a] = "idle",
             pc' = [pc EXCEPT ![a] = to],
             UNCHANGED <<result, inProcess, state, old, session, localCalls, remoteCalls, peerTold>>
      PROVE  IInv'
  <2>1. a \in Actors /\ a # D /\ a \notin Workers /\ to \in Steps
    BY Members, Zenon DEF Steps
  <2>2. result' = [result EXCEPT ![a] = result[a]]
        /\ result[a] \in {"none", "data", "eos", "closed", "timeout"}
    BY <1>0, <1>2, <2>1, Zenon DEF TypeOK
  <2> QED BY <1>2, <2>1, <2>2, Plain, Zenon DEF Closing, Reporting
<1>3. ASSUME NEW r \in Readers, ReaderReads(r) PROVE IInv'
  BY <1>2, <1>3, Zenon DEF ReaderReads
<1>4. ASSUME NEW u \in Users, UserCloses(u) PROVE IInv'
  BY <1>2, <1>4, Zenon DEF UserCloses
<1>5. CASE UNCHANGED vars
  BY <1>5, Elsewhere, Zenon DEF vars
<1> QED
  BY <1>1, <1>3, <1>4, <1>5, DispatcherPreserves, WorkerPreserves, ReadPreserves, ClosePreserves, Zenon
  DEF Next
-----------------------------------------------------------------------------
(* The invariant that the theorems follow from. *)
THEOREM Inductive == Spec => []IInv
<1>1. Init => IInv
  <2> SUFFICES ASSUME Init PROVE IInv
    BY Zenon
  <2>1. TypeOK
    BY Zenon DEF Init, TypeOK, Steps
  <2>2. \A a \in Actors : pc[a] = "idle" /\ old[a] = "none" /\ result[a] = "none"
    BY Zenon DEF Init
  <2>3. ProcessInv
    BY <2>2, Members, Zenon DEF ProcessInv, InProcess, InOnData, PastRead
  <2>4. DispatcherInv
    BY <2>2, Members, Zenon DEF DispatcherInv, SessionSteps, Reporting
  <2>5. ReportInv
    BY <2>2 DEF Init, ReportInv, Reporter, Reporting, Halving
  <2> QED BY <2>1, <2>3, <2>4, <2>5, Zenon DEF IInv
<1> QED BY <1>1, Preserved, PTL DEF Spec

(* callbackInProcess lets one goroutine at a time run OnData, and a Close   *)
(* that OnData calls never waits for the goroutine it is called in, for any *)
(* number of goroutines in the pool, readers and closers.                   *)
THEOREM OneCallbackAtATime == Spec => []OneInProcess
<1>1. IInv => OneInProcess
  BY Zenon DEF IInv, ProcessInv, OneInProcess, InProcess, InOnData, Reading, PastRead
<1> QED BY <1>1, Inductive, PTL

(* However many goroutines close the stream, and whether the peer and the   *)
(* session close it too, the close is reported once and told to the peer    *)
(* once.                                                                    *)
THEOREM CloseReportedOnce == Spec => []ReportedOnce
<1>1. IInv => ReportedOnce
  BY Zenon DEF IInv, ReportInv, ReportedOnce
<1> QED BY <1>1, Inductive, PTL
-----------------------------------------------------------------------------
(* Where close has yet to clear pendingData, and to drain recvBuf. *)
Clearing == {"wait", "unregister", "clear"}
Draining == Clearing \cup {"drain", "reset"}

(* What a closed stream still holds has somebody who will take it away: the *)
(* goroutine that closed it, or the dispatcher that looks at the state      *)
(* again after it has added data.                                           *)
DrainInv ==
    state = "closed" =>
        /\ registered => \E a \in Actors : pc[a] \in {"wait", "unregister"}
        /\ pending # <<>> => pc[D] = "check" \/ \E a \in Actors : pc[a] \in Clearing
        /\ recvBuf # <<>> => pc[D] = "check" \/ \E a \in Actors : pc[a] \in Draining

(* A step that neither adds data nor is one of those that take it away. *)
LEMMA DrainSame ==
  ASSUME DrainInv, state' = "closed" => state = "closed", registered' => registered,
         pending' # <<>> => pending # <<>>,
         recvBuf' # <<>> => recvBuf # <<>> \/ pending # <<>>,
         \A b \in Actors : pc[b] \in Draining \cup {"check"} => pc'[b] = pc[b]
  PROVE  DrainInv'
<1>1. \A b \in Actors : /\ pc[b] \in {"wait", "unregister"} => pc'[b] \in {"wait", "unregister"}
                        /\ pc[b] \in Clearing => pc'[b] \in Clearing
                        /\ pc[b] \in Draining => pc'[b] \in Draining
  BY Zenon DEF Draining, Clearing
<1>2. pc[D] = "check" => pc'[D] = "check"
  BY Members, Zenon
<1>3. Clearing \subseteq Draining
  BY Zenon DEF Draining
<1> QED BY <1>1, <1>2, <1>3, Zenon DEF DrainInv

(* A step of one goroutine that is none of those. *)
LEMMA DrainElsewhere ==
  ASSUME IInv, DrainInv, NEW a \in Actors, NEW to, pc' = [pc EXCEPT ![a] = to],
         pc[a] \notin Draining \cup {"check"},
         state' = "closed" => state = "closed", registered' => registered,
         pending' # <<>> => pending # <<>>,
         recvBuf' # <<>> => recvBuf # <<>> \/ pending # <<>>
  PROVE  DrainInv'
<1>1. \A b \in Actors : pc[b] \in Draining \cup {"check"} => pc'[b] = pc[b]
  BY Zenon DEF IInv, TypeOK
<1> QED BY <1>1, DrainSame, Zenon

(* What a read leaves in recvBuf was there or in pendingData. *)
LEMMA NothingMore ==
  ASSUME NEW a
  PROVE  MoveTo(Rest(a)) # <<>> => recvBuf # <<>> \/ pending # <<>>
<1> SUFFICES ASSUME recvBuf = <<>>, pending = <<>> PROVE MoveTo(Rest(a)) = <<>>
  BY Zenon
<1>1. Rest(a) = <<>>
  BY Zenon DEF Rest, InUse
<1> QED BY <1>1 DEF MoveTo

(* Every step keeps what a closed stream holds in somebody's care. *)
LEMMA DrainPreserved == IInv /\ DrainInv /\ [Next]_vars => DrainInv'
<1> SUFFICES ASSUME IInv, DrainInv, [Next]_vars PROVE DrainInv'
  BY Zenon
<1> USE DEF Goto, butPc, dataVars, notData, notClose, notCb, readVars, cbVars, closeVars, peerVars
<1>0. pc \in [Actors -> Steps] /\ D \in Actors /\ state \in {"opened", "halfClosed", "closed"}
  BY Members, Zenon DEF IInv, TypeOK
<1> DEFINE Same == UNCHANGED <<state, registered, pending, recvBuf>>
<1>1. CASE UNCHANGED vars \/ SessionShutdown \/ SessionPost \/ (Arrive /\ ~registered)
           \/ (PeerCloses /\ ~(registered /\ state = "opened"))
  <2>1. Same /\ pc' = pc
    BY <1>1, Zenon DEF vars, SessionShutdown, SessionPost, Arrive, PeerCloses
  <2> QED BY <2>1, DrainSame, Zenon
<1>2. CASE Arrive /\ registered
  <2>1. pc[D] = "idle" /\ pc' = [pc EXCEPT ![D] = "add"] /\ Same
    BY <1>2, Zenon DEF Arrive
  <2> QED BY <1>0, <2>1, DrainElsewhere, Zenon DEF Draining, Clearing
<1>3. CASE PeerCloses /\ registered /\ state = "opened"
  <2>1. /\ pc[D] = "idle" /\ pc' = [pc EXCEPT ![D] = "halfNotify"]
        /\ state' = "halfClosed" /\ UNCHANGED <<registered, pending, recvBuf>>
    BY <1>3, Zenon DEF PeerCloses
  <2> QED BY <1>0, <2>1, DrainElsewhere, Zenon DEF Draining, Clearing
<1>4. CASE HalfNotify \/ HalfReport \/ FillNotify \/ FillCas \/ SessionJoin \/ SessionUnmap
  <2>1. PICK to : /\ pc[D] \in {"halfNotify", "halfReport", "notify", "cas", "join", "unmap"}
                  /\ pc' = [pc EXCEPT ![D] = to] /\ Same
    BY <1>4 DEF HalfNotify, HalfReport, FillNotify, FillCas, SessionJoin, SessionUnmap
  <2> QED BY <1>0, <2>1, DrainElsewhere, Zenon DEF Draining, Clearing
<1>5. CASE SessionLambda
  <2>1. PICK to : /\ pc[D] = "idle" /\ pc' = [pc EXCEPT ![D] = to]
                  /\ registered' = FALSE /\ UNCHANGED <<state, pending, recvBuf>>
    BY <1>5, Zenon DEF SessionLambda
  <2> QED BY <1>0, <2>1, DrainElsewhere, Zenon DEF Draining, Clearing
<1>6. ASSUME NEW w \in Workers, FillSpawn(w) PROVE DrainInv'
  <2>1. /\ pc[D] = "spawn" /\ pc[w] = "idle" /\ w \in Actors
        /\ pc' = [pc EXCEPT ![D] = "idle", ![w] = "move"] /\ Same
    BY <1>6, Members, Zenon DEF FillSpawn
  <2>2. \A b \in Actors : pc[b] \in Draining \cup {"check"} => pc'[b] = pc[b]
    BY <1>0, <2>1, Zenon DEF Draining, Clearing
  <2> QED BY <2>1, <2>2, DrainSame, Zenon
<1>7. CASE FillAdd
  <2>1. /\ pc[D] = "add" /\ pc' = [pc EXCEPT ![D] = "check"]
        /\ UNCHANGED <<state, registered, recvBuf>>
    BY <1>7, Zenon DEF FillAdd
  <2>2. pc'[D] = "check" /\ \A b \in Actors : pc[b] \in Draining => pc'[b] = pc[b]
    BY <1>0, <2>1, Zenon DEF Draining, Clearing
  <2> QED BY <2>1, <2>2, Zenon DEF DrainInv, Draining, Clearing
<1>8. CASE FillCheck
  <2>1. /\ pc[D] = "check" /\ Same
        /\ pc' = [pc EXCEPT ![D] = IF state = "closed" THEN "clear" ELSE "notify"]
    BY <1>8, Zenon DEF FillCheck
  <2>2. /\ state = "closed" => pc'[D] = "clear"
        /\ \A b \in Actors : pc[b] \in Draining => pc'[b] = pc[b]
    BY <1>0, <2>1, Zenon DEF Draining, Clearing
  <2> QED BY <1>0, <2>1, <2>2, Zenon DEF DrainInv, Draining, Clearing
<1>9. ASSUME NEW w \in Workers, WorkerStep(w) PROVE DrainInv'
  <2>1. w \in Actors
    BY Members, Zenon
  <2>2. CASE WorkerMove(w)
    <3>1. /\ pc[w] = "move" /\ pc' = [pc EXCEPT ![w] = "loop"] /\ pending' = <<>>
          /\ recvBuf' = recvBuf \o pending /\ UNCHANGED <<state, registered>>
      BY <2>2, Zenon DEF WorkerMove, MoveTo
    <3>2. recvBuf' # <<>> => recvBuf # <<>> \/ pending # <<>>
      BY <3>1
    <3> QED BY <2>1, <3>1, <3>2, DrainElsewhere, Zenon DEF Draining, Clearing
  <2>3. CASE OnDataReturns(w)
    <3>1. /\ pc[w] = "onData" /\ pc' = [pc EXCEPT ![w] = "move"]
          /\ recvBuf' = Rest(w) /\ UNCHANGED <<state, registered, pending>>
      BY <2>3, Zenon DEF OnDataReturns
    <3>2. recvBuf' # <<>> => recvBuf # <<>>
      BY <3>1, Zenon DEF Rest, InUse
    <3> QED BY <2>1, <3>1, <3>2, DrainElsewhere, Zenon DEF Draining, Clearing
  <2>4. CASE ~WorkerMove(w) /\ ~OnDataReturns(w)
    <3>1. CASE WorkerLoop(w) \/ WorkerLeave(w) \/ WorkerCheckClose(w) \/ WorkerRecheck(w)
      <4>1. PICK to : /\ pc[w] \in {"loop", "leave", "checkClose", "recheck"}
                      /\ pc' = [pc EXCEPT ![w] = to] /\ Same
        BY <3>1 DEF WorkerLoop, WorkerLeave, WorkerCheckClose, WorkerRecheck
      <4> QED BY <2>1, <4>1, DrainElsewhere, Zenon DEF Draining, Clearing
    <3>2. CASE WorkerRecas(w) \/ WorkerEnd(w) \/ OnDataReads(w) \/ OnDataCloses(w)
      <4>1. PICK to : /\ pc[w] \in {"recas", "end", "onData"}
                      /\ pc' = [pc EXCEPT ![w] = to] /\ Same
        BY <3>2 DEF WorkerRecas, WorkerEnd, OnDataReads, OnDataCloses
      <4> QED BY <2>1, <4>1, DrainElsewhere, Zenon DEF Draining, Clearing
    <3> QED BY <1>9, <2>4, <3>1, <3>2, Zenon DEF WorkerStep
  <2> QED BY <2>2, <2>3, <2>4, Zenon
<1>10. ASSUME NEW a \in ReaderActors, ReadStep(a) \/ SelectTimeout(a) PROVE DrainInv'
  <2>1. a \in Actors
    BY Members, Zenon DEF ReaderActors
  <2>2. ASSUME NEW from \in Reading, NEW to, NEW x, TakeOr(a, from, to, x)
        PROVE  DrainInv'
    <3>1. /\ pc[a] = from /\ pending' = <<>> /\ recvBuf' = MoveTo(Rest(a))
          /\ UNCHANGED <<state, registered>>
      BY <2>2, Zenon DEF TakeOr
    <3>2. PICK t : pc' = [pc EXCEPT ![a] = t]
      BY <2>2, Zenon DEF TakeOr
    <3>3. from \notin Draining \cup {"check"}
      BY Zenon DEF Reading, Draining, Clearing
    <3> QED BY <2>1, <3>1, <3>2, <3>3, NothingMore, DrainElsewhere, Zenon
  <2>3. CASE ReadMove(a) \/ Reread(a) \/ SelectClose(a)
    BY <2>2, <2>3, Zenon DEF ReadMove, Reread, SelectClose, Reading
  <2>4. CASE ReadCheck(a) \/ SelectNotify(a) \/ SelectTimeout(a)
    <3>1. PICK to : pc[a] \in {"readCheck", "select"} /\ pc' = [pc EXCEPT ![a] = to] /\ Same
      BY <2>4, Zenon DEF ReadCheck, SelectNotify, SelectTimeout
    <3> QED BY <2>1, <3>1, DrainElsewhere, Zenon DEF Draining, Clearing
  <2> QED BY <1>10, <2>3, <2>4, Zenon DEF ReadStep
<1>11. ASSUME NEW a \in Actors, (a \in Readers /\ ReaderReads(a)) \/ (a \in Users /\ UserCloses(a))
       PROVE  DrainInv'
  <2>1. PICK to : pc[a] = "idle" /\ pc' = [pc EXCEPT ![a] = to] /\ Same
    BY <1>11, Zenon DEF ReaderReads, UserCloses
  <2> QED BY <2>1, DrainElsewhere, Zenon DEF Draining, Clearing
<1>12. ASSUME NEW a \in Actors, CloseStep(a) PROVE DrainInv'
  <2>1. CASE CloseStore(a) \/ CloseLoad(a) \/ CloseReadState(a)
    <3>1. PICK to : /\ pc[a] \in {"store", "load", "readState"}
                    /\ pc' = [pc EXCEPT ![a] = to] /\ Same
      BY <2>1 DEF CloseStore, CloseLoad, CloseReadState
    <3> QED BY <3>1, DrainElsewhere, Zenon DEF Draining, Clearing
  <2>10. CASE CloseNotify(a) \/ CloseReport(a) \/ CloseTell(a)
    <3>1. PICK to : /\ pc[a] \in {"closeNotify", "report", "tell"}
                    /\ pc' = [pc EXCEPT ![a] = to] /\ Same
      BY <2>10 DEF CloseNotify, CloseReport, CloseTell
    <3> QED BY <3>1, DrainElsewhere, Zenon DEF Draining, Clearing
  <2>2. CASE CloseHalf(a)
    <3>1. PICK to : /\ pc[a] = "half" /\ pc' = [pc EXCEPT ![a] = to]
                    /\ state' \in {state, "halfClosed"}
                    /\ UNCHANGED <<registered, pending, recvBuf>>
      BY <2>2, Zenon DEF CloseHalf
    <3> QED BY <3>1, DrainElsewhere, Zenon DEF Draining, Clearing
  <2>3. CASE CloseCas(a) /\ state # old[a]
    <3>1. PICK to : pc[a] = "casClosed" /\ pc' = [pc EXCEPT ![a] = to] /\ Same
      BY <2>3, Zenon DEF CloseCas
    <3> QED BY <3>1, DrainElsewhere, Zenon DEF Draining, Clearing
  <2>4. CASE CloseCas(a) /\ state = old[a]
    <3>1. pc' = [pc EXCEPT ![a] = AfterCas(a)]
      BY <2>4, Zenon DEF CloseCas
    <3>2. pc'[a] \in {"wait", "unregister"}
      BY <1>0, <3>1, Zenon DEF AfterCas
    <3> QED BY <3>2, Zenon DEF DrainInv, Draining, Clearing
  <2>5. ASSUME NEW to, pc' = [pc EXCEPT ![a] = to]
        PROVE  pc'[a] = to /\ \A b \in Actors \ {a} : pc'[b] = pc[b]
    BY <1>0, <2>5, Zenon
  <2>6. CASE CloseWait(a)
    <3>1. pc[a] = "wait" /\ pc' = [pc EXCEPT ![a] = "unregister"] /\ Same
      BY <2>6, Zenon DEF CloseWait
    <3> QED BY <2>5, <3>1, Members, Zenon DEF DrainInv, Draining, Clearing
  <2>7. CASE CloseUnregister(a)
    <3>1. /\ pc[a] = "unregister" /\ pc' = [pc EXCEPT ![a] = "clear"] /\ registered' = FALSE
          /\ UNCHANGED <<state, pending, recvBuf>>
      BY <2>7, Zenon DEF CloseUnregister
    <3> QED BY <2>5, <3>1, Members, Zenon DEF DrainInv, Draining, Clearing
  <2>8. CASE ClearPending(a)
    <3>1. /\ pc[a] = "clear" /\ pc' = [pc EXCEPT ![a] = "drain"] /\ pending' = <<>>
          /\ UNCHANGED <<state, registered, recvBuf>>
      BY <2>8, Zenon DEF ClearPending
    <3> QED BY <2>5, <3>1, Members, Zenon DEF DrainInv, Draining, Clearing
  <2>9. CASE Drain(a) \/ ResetBuf(a)
    <3>1. PICK to : /\ pc[a] \in {"drain", "reset"} /\ pc' = [pc EXCEPT ![a] = to]
                    /\ recvBuf' = <<>> /\ UNCHANGED <<state, registered, pending>>
      BY <2>9, Zenon DEF Drain, ResetBuf
    <3> QED BY <2>5, <3>1, Members, Zenon DEF DrainInv, Draining, Clearing
  <2> QED BY <1>12, <2>1, <2>2, <2>3, <2>4, <2>6, <2>7, <2>8, <2>9, <2>10, Zenon
      DEF CloseStep
<1>13. Readers \subseteq Actors /\ Users \subseteq Actors
  BY Members, Zenon
<1> QED
  BY <1>1, <1>2, <1>3, <1>4, <1>5, <1>6, <1>7, <1>8, <1>9, <1>10, <1>11, <1>12, <1>13, Zenon
  DEF Next, Receive, DispatcherStep

(* A closed stream that no goroutine is busy with holds no data and is not  *)
(* in the session's table, whatever arrived while it was being closed, for  *)
(* any number of goroutines that close and read it and of units of data.    *)
THEOREM NothingHeldAfterClose == Spec => []ClosedMeansDrained
<1>1. Init => DrainInv
  BY Zenon DEF Init, DrainInv
<1>2. DrainInv => ClosedMeansDrained
  BY Members, Zenon DEF DrainInv, ClosedMeansDrained, Quiet, Draining, Clearing
<1> QED BY <1>1, <1>2, DrainPreserved, Inductive, PTL DEF Spec

-----------------------------------------------------------------------------
(* A stream has callbacks or readers. *)
ModeInv ==
    /\ callbacks => \A r \in Readers : hand[r] = 0 /\ pc[r] \notin Reading
    /\ ~callbacks => /\ pc[D] \notin {"cas", "spawn"}
                     /\ \A w \in Workers : hand[w] = 0 /\ pc[w] = "idle"
    /\ \A w \in Workers : hand[w] # 0 => result[w] # "none"

Sorted(s) == \A i, j \in 1..Len(s) : i < j => s[i] < s[j]
Below(s, n) == \A i \in 1..Len(s) : 1 <= s[i] /\ s[i] <= n

(* What was read, d, comes before what waits, q, except for the unit at the *)
(* front that is still in the hand of who read it; and no unit is above n.  *)
Ordered(q, d, inHand, n) ==
    /\ Sorted(q) /\ Below(q, n) /\ Sorted(d) /\ Below(d, n)
    /\ \A i \in 1..Len(q), j \in 1..Len(d) :
           d[j] < q[i] \/ (i = 1 /\ q[1] \in inHand /\ d[j] <= q[1])

(* The data that waits to be read, with the unit in use at its front, and   *)
(* the last unit that has been added to pendingData.                        *)
Queued == recvBuf \o pending
InHand == IF recvBuf = <<>> THEN {} ELSE {hand[a] : a \in ReaderActors}
Added == IF pc[D] = "add" THEN arrived - 1 ELSE arrived

DataType == /\ pending \in Seq(Nat) /\ recvBuf \in Seq(Nat) /\ delivered \in Seq(Nat)
            /\ arrived \in Nat /\ hand \in [Actors -> Nat] /\ callbacks \in BOOLEAN
            /\ Added \in Nat

OrderInv == DataType /\ ModeInv /\ Ordered(Queued, delivered, InHand, Added)

(* The parts of Ordered, with the types of the units in it. *)
LEMMA Parts ==
  ASSUME NEW q \in Seq(Nat), NEW d \in Seq(Nat), NEW h, NEW n \in Nat, Ordered(q, d, h, n)
  PROVE  /\ Len(q) \in Nat /\ Len(d) \in Nat
         /\ \A i \in 1..Len(q) : q[i] \in Nat /\ 1 <= q[i] /\ q[i] <= n
         /\ \A j \in 1..Len(d) : d[j] \in Nat /\ 1 <= d[j] /\ d[j] <= n
         /\ \A i, j \in 1..Len(q) : i < j => q[i] < q[j]
         /\ \A i, j \in 1..Len(d) : i < j => d[i] < d[j]
         /\ \A i \in 1..Len(q), j \in 1..Len(d) :
               d[j] < q[i] \/ (i = 1 /\ q[1] \in h /\ d[j] <= q[1])
<1>1. Below(q, n) /\ Below(d, n) /\ Sorted(q) /\ Sorted(d)
  BY Zenon DEF Ordered
<1>2. /\ Len(q) \in Nat /\ Len(d) \in Nat
      /\ \A i \in 1..Len(q) : q[i] \in Nat
      /\ \A j \in 1..Len(d) : d[j] \in Nat
  OBVIOUS
<1>3. /\ \A i \in 1..Len(q) : 1 <= q[i] /\ q[i] <= n
      /\ \A j \in 1..Len(d) : 1 <= d[j] /\ d[j] <= n
  BY <1>1, Zenon DEF Below
<1>4. /\ \A i, j \in 1..Len(q) : i < j => q[i] < q[j]
      /\ \A i, j \in 1..Len(d) : i < j => d[i] < d[j]
  BY <1>1, Zenon DEF Sorted
<1>5. \A i \in 1..Len(q), j \in 1..Len(d) :
         d[j] < q[i] \/ (i = 1 /\ q[1] \in h /\ d[j] <= q[1])
  BY Zenon DEF Ordered
<1> QED BY <1>2, <1>3, <1>4, <1>5, Zenon

(* What is left of the queue when its front or its end is taken away. *)
LEMMA Shifted ==
  ASSUME NEW q \in Seq(Nat), NEW r \in Seq(Nat), NEW d \in Seq(Nat), NEW h, NEW g,
         NEW n \in Nat, NEW m \in Nat, n <= m, Ordered(q, d, h, n), NEW k \in Nat,
         \A i \in 1..Len(r) : i + k \in 1..Len(q) /\ r[i] = q[i + k],
         k = 0 /\ r # <<>> /\ q[1] \in h => q[1] \in g
  PROVE  Ordered(r, d, g, m)
<1>1. Sorted(r)
  BY DEF Ordered, Sorted
<1>2. Below(r, m)
  <2> SUFFICES ASSUME NEW i \in 1..Len(r) PROVE 1 <= r[i] /\ r[i] <= m
    BY Zenon DEF Below
  <2>1. i + k \in 1..Len(q) /\ r[i] = q[i + k]
    BY Zenon
  <2>2. q[i + k] \in Nat /\ 1 <= q[i + k] /\ q[i + k] <= n
    <3>1. \A l \in 1..Len(q) : q[l] \in Nat /\ 1 <= q[l] /\ q[l] <= n
      BY Parts, Zenon
    <3> QED BY <2>1, <3>1, Zenon
  <2> QED BY <2>1, <2>2, SMTT(30)
<1>3. Below(d, m)
  <2> SUFFICES ASSUME NEW i \in 1..Len(d) PROVE 1 <= d[i] /\ d[i] <= m
    BY Zenon DEF Below
  <2>1. d[i] \in Nat /\ 1 <= d[i] /\ d[i] <= n
    BY Parts, Zenon
  <2> QED BY <2>1
<1>4. Sorted(d)
  BY Zenon DEF Ordered
<1>5. ASSUME NEW i \in 1..Len(r), NEW j \in 1..Len(d)
      PROVE  d[j] < r[i] \/ (i = 1 /\ r[1] \in g /\ d[j] <= r[1])
  <2>1. r[i] = q[i + k] /\ i + k \in 1..Len(q)
    BY Zenon
  <2>2. d[j] < q[i + k] \/ (i + k = 1 /\ q[1] \in h /\ d[j] <= q[1])
    BY <2>1, Zenon DEF Ordered
  <2>3. CASE i + k = 1 /\ q[1] \in h /\ d[j] <= q[1]
    <3>1. i = 1 /\ k = 0 /\ r # <<>>
      BY <2>3
    <3> QED BY <2>1, <2>3, <3>1, Zenon
  <2> QED BY <2>1, <2>2, <2>3, Zenon
<1> QED BY <1>1, <1>2, <1>3, <1>4, <1>5, Zenon DEF Ordered

(* A unit is added behind the others. *)
LEMMA Extended ==
  ASSUME NEW q \in Seq(Nat), NEW r \in Seq(Nat), NEW d \in Seq(Nat), NEW h,
         NEW n \in Nat, Ordered(q, d, h, n),
         Len(r) = Len(q) + 1, \A i \in 1..Len(q) : r[i] = q[i], r[Len(q) + 1] = n + 1
  PROVE  Ordered(r, d, h, n + 1)
<1>0. \A i \in 1..Len(r) : \/ i \in 1..Len(q) /\ r[i] = q[i]
                           \/ i = Len(q) + 1 /\ r[i] = n + 1
  <2> TAKE i \in 1..Len(r)
  <2>1. Len(q) \in Nat /\ (i = Len(q) + 1 \/ i \in 1..Len(q))
    OBVIOUS
  <2> QED BY <2>1, Zenon
<1>1. Sorted(r)
  <2> SUFFICES ASSUME NEW i \in 1..Len(r), NEW j \in 1..Len(r), i < j PROVE r[i] < r[j]
    BY Zenon DEF Sorted
  <2>1. i \in 1..Len(q) /\ r[i] = q[i]
    <3>1. Len(q) \in Nat /\ i # Len(q) + 1
      BY SMTT(30)
    <3> QED BY <1>0, <3>1, Zenon
  <2>2. q[i] \in Nat /\ q[i] <= n
    BY <2>1, Parts, Zenon
  <2>3. CASE j \in 1..Len(q) /\ r[j] = q[j]
    BY <2>1, <2>3, Parts, Zenon
  <2>4. CASE r[j] = n + 1
    BY <2>1, <2>2, <2>4, SMTT(30)
  <2> QED BY <1>0, <2>3, <2>4, Zenon
<1>2. Below(r, n + 1)
  <2> SUFFICES ASSUME NEW i \in 1..Len(r) PROVE 1 <= r[i] /\ r[i] <= n + 1
    BY Zenon DEF Below
  <2>1. CASE i \in 1..Len(q) /\ r[i] = q[i]
    <3>1. q[i] \in Nat /\ 1 <= q[i] /\ q[i] <= n
      BY <2>1, Parts, Zenon
    <3> QED BY <2>1, <3>1, SMTT(30)
  <2>2. CASE r[i] = n + 1
    BY <2>2
  <2> QED BY <1>0, <2>1, <2>2, Zenon
<1>3. Below(d, n + 1) /\ Sorted(d)
  <2>1. ASSUME NEW j \in 1..Len(d) PROVE 1 <= d[j] /\ d[j] <= n + 1
    <3>1. d[j] \in Nat /\ 1 <= d[j] /\ d[j] <= n
      BY Parts, Zenon
    <3> QED BY <3>1, SMTT(30)
  <2> QED BY <2>1, Zenon DEF Below, Ordered
<1>4. ASSUME NEW i \in 1..Len(r), NEW j \in 1..Len(d)
      PROVE  d[j] < r[i] \/ (i = 1 /\ r[1] \in h /\ d[j] <= r[1])
  <2>1. CASE i = Len(q) + 1 /\ r[i] = n + 1
    BY <2>1, Parts
  <2>2. CASE i \in 1..Len(q) /\ r[i] = q[i]
    BY <2>2, Zenon DEF Ordered
  <2> QED BY <1>0, <2>1, <2>2, Zenon
<1> QED BY <1>1, <1>2, <1>3, <1>4, Zenon DEF Ordered

(* The first unit is read and stays at the front, in the reader's hand. *)
LEMMA Read ==
  ASSUME NEW q \in Seq(Nat), NEW d \in Seq(Nat), NEW h, NEW n \in Nat,
         Ordered(q, d, {}, n), q # <<>>, q[1] \in h
  PROVE  Ordered(q, Append(d, q[1]), h, n)
<1> DEFINE e == Append(d, q[1])
<1>1. e \in Seq(Nat) /\ Len(e) = Len(d) + 1 /\ Len(d) \in Nat /\ 1 \in 1..Len(q)
  OBVIOUS
<1>2. e[Len(d) + 1] = q[1] /\ \A j \in 1..Len(d) : e[j] = d[j]
  OBVIOUS
<1> HIDE DEF e
<1>3. \A j \in 1..Len(e) : \/ j \in 1..Len(d) /\ e[j] = d[j]
                           \/ j = Len(d) + 1 /\ e[j] = q[1]
  <2> TAKE j \in 1..Len(e)
  <2>1. j = Len(d) + 1 \/ j \in 1..Len(d)
    BY <1>1
  <2> QED BY <1>2, <2>1, Zenon
<1>4. Sorted(e)
  <2> SUFFICES ASSUME NEW i \in 1..Len(e), NEW j \in 1..Len(e), i < j PROVE e[i] < e[j]
    BY Zenon DEF Sorted
  <2>1. i \in 1..Len(d) /\ e[i] = d[i]
    <3>1. i # Len(d) + 1
      BY <1>1
    <3> QED BY <1>3, <3>1, Zenon
  <2>2. CASE j \in 1..Len(d) /\ e[j] = d[j]
    BY <2>1, <2>2, Parts, Zenon
  <2>3. CASE e[j] = q[1]
    <3>1. d[i] < q[1]
      BY <1>1, <2>1, Zenon DEF Ordered
    <3> QED BY <2>1, <2>3, <3>1, Zenon
  <2> QED BY <1>3, <2>2, <2>3, Zenon
<1>5. Below(e, n)
  BY <1>1, <1>3, Parts, Zenon DEF Below
<1>6. ASSUME NEW i \in 1..Len(q), NEW j \in 1..Len(e)
      PROVE  e[j] < q[i] \/ (i = 1 /\ q[1] \in h /\ e[j] <= q[1])
  <2>1. CASE j = Len(d) + 1 /\ e[j] = q[1]
    <3>1. q[1] \in Nat /\ (i # 1 => q[1] < q[i])
      BY <1>1, Parts, SMTT(30)
    <3> QED BY <2>1, <3>1
  <2>2. CASE j \in 1..Len(d) /\ e[j] = d[j]
    BY <2>2, Zenon DEF Ordered
  <2> QED BY <1>3, <2>1, <2>2, Zenon
<1>7. Ordered(q, e, h, n)
  BY <1>4, <1>5, <1>6, Zenon DEF Ordered
<1> QED BY <1>7, Zenon DEF e

(* A step of one goroutine keeps to the stream's mode. *)
LEMMA ModeStep ==
  ASSUME TypeOK, ModeInv, NEW a \in Actors, NEW to, pc' = [pc EXCEPT ![a] = to],
         callbacks' = callbacks,
         \A b \in Actors \ {a} : hand'[b] = hand[b] /\ result'[b] = result[b],
         a \in Workers => pc[a] # "idle" /\ (hand'[a] # 0 => result'[a] # "none"),
         a \in Readers => (callbacks => to \notin Reading /\ hand'[a] = 0),
         a = D => (to \in {"cas", "spawn"} => callbacks)
  PROVE  ModeInv'
<1>1. /\ pc'[a] = to /\ \A b \in Actors \ {a} : pc'[b] = pc[b]
      /\ D \in Actors /\ Workers \subseteq Actors /\ Readers \subseteq Actors
  BY Members, Zenon DEF TypeOK
<1>2. callbacks => \A r \in Readers : hand'[r] = 0 /\ pc'[r] \notin Reading
  BY <1>1, Zenon DEF ModeInv
<1>3. ~callbacks => \A w \in Workers : hand'[w] = 0 /\ pc'[w] = "idle"
  BY <1>1, Zenon DEF ModeInv
<1>4. ~callbacks => pc'[D] \notin {"cas", "spawn"}
  BY <1>1, Zenon DEF ModeInv
<1>5. \A w \in Workers : hand'[w] # 0 => result'[w] # "none"
  BY <1>1, Zenon DEF ModeInv
<1> QED BY <1>2, <1>3, <1>4, <1>5, Zenon DEF ModeInv

(* Whoever reads, or releases what it read, is the only one with a unit in  *)
(* its hand.                                                                *)
LEMMA OneHand ==
  ASSUME IInv, ModeInv, NEW a \in ReaderActors,
         pc[a] \in Reading \/ (a \in Workers /\ pc[a] = "onData")
  PROVE  \A h \in ReaderActors : hand[h] # 0 => h = a
<1> SUFFICES ASSUME NEW h \in ReaderActors, hand[h] # 0 PROVE h = a
  BY Zenon
<1>1. CASE callbacks
  <2>1. h \in Workers /\ a \in Workers
    BY <1>1, Zenon DEF ModeInv, ReaderActors
  <2>2. result[h] # "none" /\ pc[h] \in Reading \cup PastRead
    BY <2>1, Zenon DEF ModeInv, IInv, ProcessInv
  <2>3. InProcess(h)
    BY <2>1, <2>2, Zenon DEF InProcess, InOnData, Reading, PastRead
  <2>4. InProcess(a)
    <3>1. CASE pc[a] \in Reading
      BY <2>1, <3>1, Zenon DEF InProcess, InOnData, Reading
    <3>2. CASE pc[a] = "onData"
      <4>1. result[a] # "none"
        BY <2>1, <3>2, Zenon DEF IInv, ProcessInv, PastRead
      <4> QED BY <2>1, <3>2, <4>1, Zenon DEF InProcess, InOnData
    <3> QED BY <3>1, <3>2, Zenon
  <2> QED BY <2>1, <2>3, <2>4, Zenon DEF IInv, ProcessInv
<1>2. CASE ~callbacks
  <2>1. h \in Readers /\ a \in Readers
    BY <1>2, Zenon DEF ModeInv, ReaderActors, Reading
  <2> QED BY <2>1, ReaderAssumption, Zenon
<1> QED BY <1>1, <1>2, Zenon

(* A step that leaves the data alone, but for what the peer sends. *)
LEMMA OrderSame ==
  ASSUME OrderInv, ModeInv', UNCHANGED <<callbacks, pending, recvBuf, delivered, hand>>,
         arrived' \in Nat, Added <= Added'
  PROVE  OrderInv'
<1>1. Added \in Nat /\ Added' \in Nat /\ Queued \in Seq(Nat) /\ delivered \in Seq(Nat)
  <2>1. Added \in Nat /\ Added' \in Int
    BY DEF OrderInv, DataType, Added
  <2>2. Added' \in Nat
    BY <2>1
  <2> QED BY <2>1, <2>2 DEF OrderInv, DataType, Queued
<1>2. Queued' = Queued /\ InHand' = InHand
  BY Zenon DEF Queued, InHand
<1>3. Ordered(Queued, delivered, InHand, Added)
  BY Zenon DEF OrderInv
<1>4. Ordered(Queued, delivered, InHand, Added')
  <2>1. \A i \in 1..Len(Queued) : i + 0 \in 1..Len(Queued) /\ Queued[i] = Queued[i + 0]
    BY <1>1
  <2> HIDE DEF Ordered
  <2> QED BY <1>1, <1>3, <2>1, Shifted, Zenon
<1>5. DataType'
  BY <1>1, Zenon DEF OrderInv, DataType
<1> QED BY <1>2, <1>4, <1>5, Zenon DEF OrderInv

(* A step of one goroutine that leaves the data alone. *)
LEMMA OrderElsewhere ==
  ASSUME IInv, OrderInv, NEW a \in Actors, NEW to, pc' = [pc EXCEPT ![a] = to],
         UNCHANGED <<callbacks, pending, recvBuf, delivered, hand, arrived>>,
         a = D => to # "add" /\ pc[D] # "add", ModeInv'
  PROVE  OrderInv'
<1>1. pc'[D] = "add" <=> pc[D] = "add"
  BY Members, Zenon DEF IInv, TypeOK
<1>2. Added' = Added /\ Added \in Nat /\ arrived' \in Nat
  BY <1>1, Zenon DEF Added, OrderInv, DataType
<1>3. Added <= Added'
  BY <1>2
<1> QED BY <1>2, <1>3, OrderSame, Zenon

(* A step that takes pendingData or recvBuf away. *)
LEMMA OrderTaken ==
  ASSUME OrderInv, ModeInv', UNCHANGED <<callbacks, delivered, hand, arrived>>, Added' = Added,
         \/ recvBuf' = recvBuf /\ pending' = <<>>
         \/ recvBuf' = <<>> /\ pending' = pending
  PROVE  OrderInv'
<1>1. /\ Added \in Nat /\ Queued \in Seq(Nat) /\ delivered \in Seq(Nat)
      /\ recvBuf \in Seq(Nat) /\ pending \in Seq(Nat)
  BY DEF OrderInv, DataType, Queued
<1>2. Ordered(Queued, delivered, InHand, Added) /\ Added <= Added
  BY <1>1 DEF OrderInv
<1>3. DataType'
  <2>1. <<>> \in Seq(Nat)
    OBVIOUS
  <2>2. recvBuf' \in Seq(Nat) /\ pending' \in Seq(Nat)
    BY <1>1, <2>1, Zenon
  <2> QED BY <2>2, Zenon DEF OrderInv, DataType
<1>4. CASE recvBuf' = recvBuf /\ pending' = <<>>
  <2>1. Queued' = recvBuf /\ InHand' = InHand
    BY <1>1, <1>4 DEF Queued, InHand
  <2>2. \A i \in 1..Len(recvBuf) : i + 0 \in 1..Len(Queued) /\ recvBuf[i] = Queued[i + 0]
    BY <1>1 DEF Queued
  <2>3. Ordered(recvBuf, delivered, InHand, Added)
    BY <1>1, <1>2, <2>2, Shifted, Zenon
  <2> QED BY <1>3, <2>1, <2>3, Zenon DEF OrderInv
<1>5. CASE recvBuf' = <<>> /\ pending' = pending
  <2>1. Queued' = pending /\ InHand' = {} /\ Len(recvBuf) \in Nat
    BY <1>1, <1>5 DEF Queued, InHand
  <2>2. \A i \in 1..Len(pending) :
           i + Len(recvBuf) \in 1..Len(Queued) /\ pending[i] = Queued[i + Len(recvBuf)]
    BY <1>1 DEF Queued
  <2>3. Len(recvBuf) = 0 => InHand = {}
    BY <1>1 DEF InHand
  <2>4. Ordered(pending, delivered, {}, Added)
    BY <1>1, <1>2, <2>1, <2>2, <2>3, Shifted, Zenon
  <2> QED BY <1>3, <2>1, <2>4, Zenon DEF OrderInv
<1> QED BY <1>4, <1>5, Zenon

(* What waits once the reader has released what it read: none of it has     *)
(* been read.                                                               *)
LEMMA Released ==
  ASSUME OrderInv, NEW a \in ReaderActors, \A h \in ReaderActors : hand[h] # 0 => h = a
  PROVE  /\ Rest(a) \in Seq(Nat) /\ Rest(a) \o pending \in Seq(Nat)
         /\ Ordered(Rest(a) \o pending, delivered, {}, Added)
<1>1. /\ Added \in Nat /\ Queued \in Seq(Nat) /\ delivered \in Seq(Nat)
      /\ recvBuf \in Seq(Nat) /\ pending \in Seq(Nat)
  BY DEF OrderInv, DataType, Queued
<1>2. Ordered(Queued, delivered, InHand, Added) /\ Added <= Added
  BY <1>1 DEF OrderInv
<1>3. CASE InUse(a)
  <2> DEFINE r == Tail(recvBuf) \o pending
  <2>1. Rest(a) = Tail(recvBuf) /\ recvBuf # <<>>
    BY <1>3, Zenon DEF Rest, InUse
  <2>2. Tail(recvBuf) \in Seq(Nat) /\ r \in Seq(Nat)
    BY <1>1, <2>1
  <2>3. \A i \in 1..Len(r) : i + 1 \in 1..Len(Queued) /\ r[i] = Queued[i + 1]
    BY <1>1, <2>1, <2>2 DEF Queued
  <2> HIDE DEF r
  <2>4. Ordered(r, delivered, {}, Added)
    <3>1. 1 \in Nat /\ 1 # 0
      OBVIOUS
    <3> QED BY <1>1, <1>2, <2>2, <2>3, <3>1, Shifted, ZenonT(30)
  <2> QED BY <2>1, <2>2, <2>4, Zenon DEF r
<1>4. CASE ~InUse(a)
  <2>1. Rest(a) = recvBuf /\ Rest(a) \o pending = Queued
    BY <1>4, Zenon DEF Rest, Queued
  <2>2. \A i \in 1..Len(Queued) : i + 0 \in 1..Len(Queued) /\ Queued[i] = Queued[i + 0]
    BY <1>1
  <2>3. ASSUME Queued # <<>>, Queued[1] \in InHand PROVE FALSE
    <3>1. recvBuf # <<>> /\ Queued[1] = recvBuf[1]
      BY <1>1, <2>3 DEF InHand, Queued
    <3>2. PICK h \in ReaderActors : Queued[1] = hand[h]
      BY <2>3, <3>1, Zenon DEF InHand
    <3>3. 1 \in 1..Len(Queued)
      BY <1>1, <2>3
    <3>4. Queued[1] # 0
      BY <1>1, <1>2, <3>3 DEF Ordered, Below
    <3> QED BY <1>4, <3>1, <3>2, <3>4, Zenon DEF InUse
  <2>4. Ordered(Queued, delivered, {}, Added)
    BY <1>1, <1>2, <2>2, <2>3, Shifted, ZenonT(30)
  <2> QED BY <1>1, <2>1, <2>4, Zenon
<1> QED BY <1>3, <1>4, Zenon

(* What is appended to pendingData is appended to all that waits. *)
LEMMA AppendBehind ==
  ASSUME NEW s \in Seq(Nat), NEW t \in Seq(Nat), NEW x \in Nat
  PROVE  s \o Append(t, x) = Append(s \o t, x)
<1> DEFINE p == s \o Append(t, x)
           q == Append(s \o t, x)
<1>1. /\ Len(s) \in Nat /\ Len(t) \in Nat /\ s \o t \in Seq(Nat) /\ Append(t, x) \in Seq(Nat)
      /\ Len(s \o t) = Len(s) + Len(t) /\ Len(Append(t, x)) = Len(t) + 1
  OBVIOUS
<1>2. p \in Seq(Nat) /\ q \in Seq(Nat) /\ Len(p) = Len(q) /\ Len(q) = Len(s) + Len(t) + 1
  BY <1>1
<1>3. ASSUME NEW i \in 1..Len(q) PROVE p[i] = q[i]
  <2>1. CASE i <= Len(s)
    BY <1>1, <1>2, <2>1
  <2>2. CASE i > Len(s) /\ i <= Len(s) + Len(t)
    BY <1>1, <1>2, <2>2
  <2>3. CASE i = Len(s) + Len(t) + 1
    BY <1>1, <1>2, <2>3
  <2> QED BY <1>1, <1>2, <2>1, <2>2, <2>3, SMTT(30)
<1> HIDE DEF p, q
<1>4. p = q
  BY <1>2, <1>3, SMTT(30)
<1> QED BY <1>4, Zenon DEF p, q

(* Every step keeps what is read and what waits in order. *)
LEMMA OrderPreserved == IInv /\ OrderInv /\ [Next]_vars => OrderInv'
<1> SUFFICES ASSUME IInv, OrderInv, [Next]_vars PROVE OrderInv'
  BY Zenon
<1> USE DEF Goto, butPc, dataVars, notData, notClose, notCb, readVars, cbVars, closeVars, peerVars
<1>0. /\ pc \in [Actors -> Steps] /\ D \in Actors /\ D \notin Workers /\ D \notin Readers
      /\ TypeOK /\ ModeInv /\ DataType /\ Workers \subseteq Actors /\ Readers \subseteq Actors
      /\ \A w \in Workers : w \notin Readers /\ w # D
      /\ \A u \in Users : u \in Actors /\ u \notin Readers /\ u \notin Workers /\ u # D
      /\ \A r \in Readers : r # D
      /\ \A w \in Workers : hand[w] # 0 => result[w] # "none"
      /\ callbacks => \A r \in Readers : hand[r] = 0 /\ pc[r] \notin Reading
  <2>1. Users \cap Readers = {} /\ Users \cap Workers = {}
    BY StreamAssumption, Zenon
  <2> QED BY <2>1, Members, Zenon DEF IInv, TypeOK, OrderInv, ModeInv
<1> DEFINE Same == UNCHANGED <<callbacks, pending, recvBuf, delivered, hand>>
<1>1. ASSUME NEW a \in Actors, NEW to, pc' = [pc EXCEPT ![a] = to], Same, arrived' = arrived,
             result' = result, pc[a] \notin {"idle", "add"}, to \notin {"add", "cas", "spawn"},
             to \in Reading => pc[a] \in Reading \/ a \in Workers
      PROVE  OrderInv'
  <2>1. ModeInv'
    BY <1>0, <1>1, ModeStep, Zenon
  <2> QED BY <1>0, <1>1, <2>1, OrderElsewhere, Zenon
<1>2. CASE UNCHANGED vars \/ SessionShutdown \/ SessionPost \/ (Arrive /\ ~registered)
           \/ (PeerCloses /\ ~(registered /\ state = "opened"))
  <2>1. /\ Same /\ pc' = pc /\ result' = result
        /\ arrived' = arrived \/ (arrived' = arrived + 1 /\ pc[D] = "idle")
    BY <1>2, Zenon DEF vars, SessionShutdown, SessionPost, Arrive, PeerCloses, DispatcherFree
  <2>2. ModeInv'
    BY <1>0, <2>1, Zenon DEF ModeInv
  <2>3. arrived' \in Nat /\ Added <= Added'
    <3>1. arrived \in Nat /\ Added \in Nat
      BY <1>0, Zenon DEF DataType
    <3>2. CASE arrived' = arrived
      <4>1. Added' = Added
        BY <2>1, <3>2, Zenon DEF Added
      <4> QED BY <3>1, <3>2, <4>1
    <3>3. CASE arrived' = arrived + 1 /\ pc[D] = "idle"
      BY <2>1, <3>1, <3>3 DEF Added
    <3> QED BY <2>1, <3>2, <3>3, Zenon
  <2> QED BY <2>1, <2>2, <2>3, OrderSame, Zenon
<1>3. CASE Arrive /\ registered
  <2>1. /\ pc[D] = "idle" /\ pc' = [pc EXCEPT ![D] = "add"] /\ Same /\ result' = result
        /\ arrived' = arrived + 1
    BY <1>3, Zenon DEF Arrive
  <2>2. ModeInv'
    BY <1>0, <2>1, ModeStep, Zenon
  <2>3. pc'[D] = "add"
    BY <1>0, <2>1, Zenon
  <2>4. arrived' \in Nat /\ Added <= Added'
    BY <1>0, <2>1, <2>3 DEF DataType, Added
  <2> QED BY <2>1, <2>2, <2>4, OrderSame, Zenon
<1>4. CASE \/ PeerCloses /\ registered /\ state = "opened"
           \/ HalfNotify \/ HalfReport \/ FillCheck \/ FillNotify \/ FillCas
           \/ SessionLambda \/ SessionJoin \/ SessionUnmap
  <2>1. PICK to : /\ pc' = [pc EXCEPT ![D] = to] /\ Same /\ arrived' = arrived /\ result' = result
                  /\ pc[D] # "add" /\ to # "add"
                  /\ to = "cas" => callbacks
                  /\ to = "spawn" => pc[D] = "cas"
    BY <1>4, ZenonT(30) DEF PeerCloses, HalfNotify, HalfReport, FillCheck, FillNotify, FillCas,
                SessionLambda, SessionJoin, SessionUnmap
  <2>2. ModeInv'
    <3>1. to \in {"cas", "spawn"} => callbacks
      BY <1>0, <2>1, Zenon DEF ModeInv
    <3> QED BY <1>0, <2>1, <3>1, ModeStep, Zenon
  <2> QED BY <1>0, <2>1, <2>2, OrderElsewhere, Zenon
<1>5. ASSUME NEW w \in Workers, FillSpawn(w) PROVE OrderInv'
  <2>1. /\ pc[D] = "spawn" /\ w \in Actors /\ w # D /\ arrived' = arrived
        /\ pc' = [pc EXCEPT ![D] = "idle", ![w] = "move"] /\ Same /\ result' = result
    BY <1>0, <1>5, Zenon DEF FillSpawn
  <2>2. /\ pc'[D] = "idle" /\ pc'[w] = "move"
        /\ \A b \in Actors \ {D, w} : pc'[b] = pc[b]
    BY <1>0, <2>1, Zenon
  <2>3. callbacks
    BY <1>0, <2>1, Zenon DEF ModeInv
  <2>4. ModeInv'
    BY <1>0, <2>1, <2>2, <2>3, Zenon DEF ModeInv
  <2>5. arrived' \in Nat /\ Added <= Added'
    BY <1>0, <2>1, <2>2 DEF DataType, Added
  <2> QED BY <2>1, <2>4, <2>5, OrderSame, Zenon
<1>6. CASE FillAdd
  <2>1. /\ pc[D] = "add" /\ pc' = [pc EXCEPT ![D] = "check"] /\ pending' = Append(pending, arrived)
        /\ UNCHANGED <<callbacks, recvBuf, delivered, hand, result, arrived>>
    BY <1>6, Zenon DEF FillAdd
  <2>2. ModeInv'
    BY <1>0, <2>1, ModeStep, Zenon
  <2>3. /\ arrived \in Nat /\ Queued \in Seq(Nat) /\ delivered \in Seq(Nat) /\ recvBuf \in Seq(Nat)
        /\ pending \in Seq(Nat) /\ pending' \in Seq(Nat) /\ Queued' \in Seq(Nat)
    BY <1>0, <2>1 DEF DataType, Queued
  <2>4. Added = arrived - 1 /\ Added' = arrived /\ arrived - 1 \in Nat
    <3>1. Added = arrived - 1 /\ Added' = arrived
      BY <1>0, <2>1, Zenon DEF Added
    <3> QED BY <1>0, <3>1, Zenon DEF DataType
  <2>5. InHand' = InHand
    BY <2>1, Zenon DEF InHand
  <2>6. /\ Len(Queued') = Len(Queued) + 1 /\ Queued'[Len(Queued) + 1] = arrived
        /\ \A i \in 1..Len(Queued) : Queued'[i] = Queued[i]
    <3>1. Queued' = Append(Queued, arrived)
      BY <2>1, <2>3, AppendBehind, SMTT(30) DEF Queued
    <3> QED BY <2>3, <3>1
  <2>7. Ordered(Queued', delivered, InHand, arrived)
    <3>1. Ordered(Queued, delivered, InHand, arrived - 1)
      BY <2>4, Zenon DEF OrderInv
    <3>2. arrived = (arrived - 1) + 1
      BY <2>3
    <3> QED BY <2>3, <2>4, <2>6, <3>1, <3>2, Extended, Zenon
  <2>8. DataType'
    BY <1>0, <2>1, <2>3, <2>4, Zenon DEF DataType
  <2> QED BY <2>1, <2>2, <2>4, <2>5, <2>7, <2>8, Zenon DEF OrderInv
<1>7. ASSUME NEW a \in Actors, NEW to, pc' = [pc EXCEPT ![a] = to], to # "add",
             a = D => pc[a] # "add", arrived' = arrived
      PROVE  Added' = Added
  <2>1. pc'[D] = "add" <=> pc[D] = "add"
    BY <1>0, <1>7, Zenon
  <2> QED BY <1>7, <2>1, Zenon DEF Added
<1>8. ASSUME NEW w \in Workers, WorkerStep(w) PROVE OrderInv'
  <2>1. w \in Actors /\ w # D /\ w \notin Readers
    BY <1>0, Zenon
  <2>2. CASE WorkerMove(w)
    <3>1. /\ pc[w] = "move" /\ pc' = [pc EXCEPT ![w] = "loop"] /\ pending' = <<>>
          /\ recvBuf' = recvBuf \o pending
          /\ UNCHANGED <<callbacks, delivered, hand, result, arrived>>
      BY <2>2, Zenon DEF WorkerMove, MoveTo
    <3>2. ModeInv' /\ Added' = Added
      BY <1>0, <1>7, <2>1, <3>1, ModeStep, Zenon
    <3>3. /\ Queued \in Seq(Nat) /\ delivered \in Seq(Nat) /\ Added \in Nat /\ Added <= Added
          /\ recvBuf \in Seq(Nat) /\ pending \in Seq(Nat) /\ <<>> \in Seq(Nat)
      BY <1>0 DEF DataType, Queued
    <3>4. Queued' = Queued /\ recvBuf' = Queued
      BY <3>1, <3>3 DEF Queued
    <3>5. \A i \in 1..Len(Queued) : i + 0 \in 1..Len(Queued) /\ Queued[i] = Queued[i + 0]
      BY <3>3
    <3>6. Queued # <<>> /\ Queued[1] \in InHand => Queued[1] \in InHand'
      BY <3>1, <3>4, Zenon DEF InHand
    <3>7. Ordered(Queued, delivered, InHand', Added)
      <4>1. Ordered(Queued, delivered, InHand, Added)
        BY Zenon DEF OrderInv
      <4> QED BY <3>3, <3>5, <3>6, <4>1, Shifted, Zenon
    <3>8. DataType'
      BY <1>0, <3>1, <3>2, <3>3, <3>4, Zenon DEF DataType
    <3> QED BY <3>1, <3>2, <3>4, <3>7, <3>8, Zenon DEF OrderInv
  <2>3. CASE OnDataReturns(w)
    <3>1. /\ pc[w] = "onData" /\ pc' = [pc EXCEPT ![w] = "move"] /\ recvBuf' = Rest(w)
          /\ hand' = [hand EXCEPT ![w] = 0] /\ result' = [result EXCEPT ![w] = "none"]
          /\ UNCHANGED <<callbacks, pending, delivered, arrived>>
      BY <2>3, Zenon DEF OnDataReturns
    <3>2. /\ hand' \in [Actors -> Nat] /\ hand'[w] = 0
          /\ \A b \in Actors \ {w} : hand'[b] = hand[b] /\ result'[b] = result[b]
      BY <1>0, <2>1, <3>1, Zenon DEF DataType, TypeOK
    <3>3. ModeInv' /\ Added' = Added
      BY <1>0, <1>7, <2>1, <3>1, <3>2, ModeStep, Zenon
    <3>4. /\ Rest(w) \in Seq(Nat) /\ Rest(w) \o pending \in Seq(Nat)
          /\ Ordered(Rest(w) \o pending, delivered, {}, Added)
      BY <1>0, <3>1, OneHand, Released, Zenon DEF ReaderActors
    <3>5. Queued' = Rest(w) \o pending
      BY <3>1, Zenon DEF Queued
    <3>6. Ordered(Queued', delivered, InHand', Added)
      <4>1. Ordered(Rest(w) \o pending, delivered, InHand', Added)
        BY <3>4, Zenon DEF Ordered
      <4> QED BY <3>5, <4>1, Zenon
    <3>7. DataType'
      BY <1>0, <3>1, <3>2, <3>3, <3>4, Zenon DEF DataType
    <3> QED BY <3>1, <3>3, <3>6, <3>7, Zenon DEF OrderInv
  <2>4. CASE ~WorkerMove(w) /\ ~OnDataReturns(w)
    <3>1. PICK to : /\ pc[w] \notin {"idle", "add"} /\ to \notin {"add", "cas", "spawn"}
                    /\ pc' = [pc EXCEPT ![w] = to] /\ Same /\ result' = result
                    /\ arrived' = arrived
      BY <1>8, <2>4, Zenon DEF WorkerStep, WorkerLoop, WorkerLeave, WorkerCheckClose, WorkerRecheck,
                        WorkerRecas, WorkerEnd, OnDataReads, OnDataCloses
    <3> QED BY <1>1, <2>1, <3>1, Zenon
  <2> QED BY <2>2, <2>3, <2>4, Zenon
<1>9. ASSUME NEW a \in ReaderActors, ReadStep(a) \/ SelectTimeout(a) PROVE OrderInv'
  <2>1. a \in Actors /\ a # D /\ (a \in Workers \/ a \in Readers)
    BY <1>0, Zenon DEF ReaderActors
  <2>2. ASSUME NEW from \in Reading, NEW to \in Reading \cup {AfterRead(a)}, NEW x,
               TakeOr(a, from, to, x), a \in Workers => x = result[a] \/ x # "none"
        PROVE  OrderInv'
    <3> DEFINE buf == Rest(a) \o pending
               t == IF buf # <<>> THEN AfterRead(a) ELSE to
    <3>1. /\ pc[a] = from /\ pc' = [pc EXCEPT ![a] = t] /\ recvBuf' = buf /\ pending' = <<>>
          /\ hand' = [hand EXCEPT ![a] = IF buf # <<>> THEN buf[1] ELSE 0]
          /\ delivered' = IF buf # <<>> THEN Append(delivered, buf[1]) ELSE delivered
          /\ result' = [result EXCEPT ![a] = IF buf # <<>> THEN "data" ELSE x]
          /\ UNCHANGED <<callbacks, arrived>>
      BY <2>2, Zenon DEF TakeOr, MoveTo
    <3>2. /\ Rest(a) \in Seq(Nat) /\ buf \in Seq(Nat)
          /\ Ordered(buf, delivered, {}, Added)
      BY <1>0, <2>2, <3>1, OneHand, Released, Zenon
    <3> HIDE DEF buf
    <3>3. pc[a] # "idle" /\ pc[a] # "add" /\ t # "add" /\ ~(a \in Readers /\ callbacks)
      BY <1>0, <2>1, <2>2, <3>1, Zenon DEF Reading, AfterRead
    <3> HIDE DEF t
    <3>4. buf # <<>> => buf[1] \in Nat
      BY <3>2
    <3>5. /\ hand' \in [Actors -> Nat] /\ hand'[a] = IF buf # <<>> THEN buf[1] ELSE 0
          /\ \A b \in Actors \ {a} : hand'[b] = hand[b]
      BY <1>0, <2>1, <3>1, <3>4, Zenon DEF DataType
    <3>6. /\ result'[a] = IF buf # <<>> THEN "data" ELSE x
          /\ \A b \in Actors \ {a} : result'[b] = result[b]
      BY <1>0, <2>1, <3>1, Zenon DEF TypeOK
    <3>7. hand'[a] # 0 => result'[a] # "none"
      BY <3>5, <3>6, Zenon
    <3>8. ModeInv' /\ Added' = Added
      <4>1. ModeInv'
        BY <1>0, <2>1, <3>1, <3>3, <3>5, <3>6, <3>7, ModeStep, Zenon
      <4>2. Added' = Added
        BY <1>7, <2>1, <3>1, <3>3, Zenon
      <4> QED BY <4>1, <4>2, Zenon
    <3>9. Queued' = buf
      BY <3>1, <3>2 DEF Queued
    <3>10. delivered \in Seq(Nat) /\ delivered' \in Seq(Nat) /\ Added \in Nat /\ <<>> \in Seq(Nat)
      BY <1>0, <3>1, <3>4 DEF DataType
    <3>11. Ordered(buf, delivered', InHand', Added)
      <4>1. CASE buf = <<>>
        BY <3>1, <3>2, <4>1, Zenon DEF InHand
      <4>2. CASE buf # <<>>
        <5>1. buf[1] \in InHand'
          BY <3>1, <3>5, <4>2, Zenon DEF InHand
        <5> QED BY <3>1, <3>2, <3>10, <4>2, <5>1, Read, Zenon
      <4> QED BY <4>1, <4>2, Zenon
    <3>12. DataType'
      BY <1>0, <3>1, <3>2, <3>5, <3>8, <3>10, Zenon DEF DataType
    <3> QED BY <3>8, <3>9, <3>11, <3>12, Zenon DEF OrderInv
  <2>3. CASE ReadMove(a) \/ Reread(a) \/ SelectClose(a)
    BY <2>2, <2>3, Zenon DEF ReadMove, Reread, SelectClose, Reading
  <2>4. CASE SelectNotify(a)
    <3>1. /\ pc[a] = "select" /\ pc' = [pc EXCEPT ![a] = "reread"] /\ Same /\ result' = result
          /\ arrived' = arrived
      BY <2>4, Zenon DEF SelectNotify
    <3> QED BY <1>1, <2>1, <3>1, Zenon DEF Reading
  <2>5. CASE ReadCheck(a) \/ SelectTimeout(a)
    <3>1. PICK to, x : /\ pc[a] \in {"readCheck", "select"} /\ pc' = [pc EXCEPT ![a] = to]
                       /\ to \in {AfterRead(a), "select"} /\ Same /\ arrived' = arrived
                       /\ result' = [result EXCEPT ![a] = x] /\ x \in {result[a], "eos", "timeout"}
      BY <2>5, Zenon DEF ReadCheck, SelectTimeout
    <3>2. result'[a] = x /\ \A b \in Actors \ {a} : result'[b] = result[b]
      BY <1>0, <2>1, <3>1, Zenon DEF TypeOK
    <3>3. ~(a \in Readers /\ callbacks)
      BY <1>0, <3>1, Zenon DEF Reading
    <3>4. to # "add"
      BY <3>1, Zenon DEF AfterRead
    <3>5. ModeInv'
      BY <1>0, <2>1, <3>1, <3>2, <3>3, ModeStep, Zenon
    <3> QED BY <2>1, <3>1, <3>4, <3>5, OrderElsewhere, Zenon
  <2> QED BY <1>9, <2>3, <2>4, <2>5, Zenon DEF ReadStep
<1>10. ASSUME NEW a \in Actors, (a \in Readers /\ ReaderReads(a)) \/ (a \in Users /\ UserCloses(a))
       PROVE  OrderInv'
  <2>1. PICK to \in {"read", "store"} :
            /\ pc[a] = "idle" /\ pc' = [pc EXCEPT ![a] = to] /\ Same /\ result' = result
            /\ arrived' = arrived /\ (a \in Users \/ ~callbacks)
    BY <1>10, Zenon DEF ReaderReads, UserCloses
  <2>2. a \notin Workers /\ a # D /\ ~(a \in Readers /\ callbacks)
    BY <1>0, <1>10, <2>1, Zenon
  <2>3. ModeInv'
    BY <1>0, <2>1, <2>2, ModeStep, Zenon
  <2> QED BY <2>1, <2>2, <2>3, OrderElsewhere, Zenon
<1>11. ASSUME NEW a \in Actors, CloseStep(a) PROVE OrderInv'
  <2>1. Return(a) \notin {"add", "cas", "spawn"} \cup Reading
    BY Zenon DEF Return, Reading
  <2>2. CASE ClearPending(a) \/ Drain(a) \/ ResetBuf(a)
    <3>1. PICK to : /\ pc[a] \notin {"idle", "add"} /\ to \notin {"add", "cas", "spawn"} \cup Reading
                    /\ pc' = [pc EXCEPT ![a] = to]
      BY <2>1, <2>2, Zenon DEF ClearPending, Drain, ResetBuf, Reading
    <3>2. /\ UNCHANGED <<callbacks, delivered, hand, arrived, result>>
          /\ \/ recvBuf' = recvBuf /\ pending' = <<>>
             \/ recvBuf' = <<>> /\ pending' = pending
      BY <2>2, Zenon DEF ClearPending, Drain, ResetBuf
    <3>3. ModeInv' /\ Added' = Added
      <4>1. ModeInv'
        BY <1>0, <3>1, <3>2, ModeStep, Zenon
      <4> QED BY <1>7, <3>1, <3>2, <4>1, Zenon
    <3> QED BY <3>2, <3>3, OrderTaken, Zenon
  <2>3. CASE ~(ClearPending(a) \/ Drain(a) \/ ResetBuf(a))
    <3>1. PICK to : /\ pc[a] \notin {"idle", "add"} /\ to \notin {"add", "cas", "spawn"} \cup Reading
                    /\ pc' = [pc EXCEPT ![a] = to] /\ Same /\ result' = result
                    /\ arrived' = arrived
      BY <1>11, <2>1, <2>3, Zenon DEF CloseStep, CloseStore, CloseLoad, CloseHalf, CloseReadState, CloseCas,
            CloseWait, CloseUnregister, CloseNotify, CloseReport, CloseTell, AfterCas, Reading
    <3> QED BY <1>1, <3>1, Zenon
  <2> QED BY <2>2, <2>3, Zenon
<1> QED
  BY <1>0, <1>2, <1>3, <1>4, <1>5, <1>6, <1>8, <1>9, <1>10, <1>11
 , Zenon DEF Next, Receive, DispatcherStep

(* User code reads the units of data in the order in which the peer sent    *)
(* them, each of them once, whether callbacks or a reader read them and     *)
(* whatever closes interleave: what pendingData.moveTo brings comes behind  *)
(* what recvBuf holds, and only the unit in the reader's hand is both.      *)
THEOREM DeliveredInOrder == Spec => []ReadInOrder
<1>1. Init => OrderInv
  <2> SUFFICES ASSUME Init PROVE OrderInv
    BY Zenon
  <2>1. /\ pending = <<>> /\ recvBuf = <<>> /\ delivered = <<>> /\ arrived = 0
        /\ hand = [a \in Actors |-> 0] /\ pc = [a \in Actors |-> "idle"] /\ callbacks \in BOOLEAN
    BY StreamAssumption, Zenon DEF Init
  <2>2. DataType /\ ModeInv
    BY <2>1, Members DEF DataType, ModeInv, Added, Reading
  <2>3. Queued = <<>>
    BY <2>1 DEF Queued
  <2>4. Ordered(<<>>, <<>>, InHand, Added)
    BY DEF Ordered, Sorted, Below
  <2> QED BY <2>1, <2>2, <2>3, <2>4, Zenon DEF OrderInv
<1>2. OrderInv => ReadInOrder
  BY Zenon DEF OrderInv, Ordered, Sorted, ReadInOrder
<1> QED BY <1>1, <1>2, OrderPreserved, Inductive, PTL DEF Spec
=============================================================================
