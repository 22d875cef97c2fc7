---------------------------- MODULE SessionProofs ----------------------------
(***************************************************************************)
(* Proofs about Session, for any number of users, streams and places in    *)
(* the pool and the IO queue: a stream has one user at a time, an open     *)
(* stream is never lost, the server handles a stream's requests in order,  *)
(* and a user reads the answers to its own requests.                       *)
(***************************************************************************)
EXTENDS Session, TLAPS

(* The stream at a position of the pool. *)
At(k) == pool.ring[k % Capacity]
Positions == pool.head..pool.tail-1

(* A user has a stream exactly in the steps that work with one; wakeUpPeer  *)
(* is also called by a user that has just closed its stream.                *)
HandInv ==
    /\ \A u \in Users :
         /\ pc[u] \in {"idle", "pop", "insert", "panic"} => hand[u] = NoStream
         /\ pc[u] \in {"use", "push"} => hand[u] # NoStream
         /\ hand[u] \in 0..nextId
    /\ \A u, v \in Users : u # v /\ hand[u] # NoStream => hand[u] # hand[v]

(* The pool holds different streams, none of which a user has. *)
PoolInv ==
    /\ pool.head <= pool.tail /\ pool.tail - pool.head <= Capacity
    /\ \A k \in Positions : At(k) \in 1..nextId /\ \A u \in Users : hand[u] # At(k)
    /\ \A k, l \in Positions : k # l => At(k) # At(l)

(* OpenIsReachable follows the streams from hand to pool and back, so it needs both. *)
IInv == TypeOK /\ HandInv /\ PoolInv /\ OpenIsReachable
-----------------------------------------------------------------------------
(* A position of the pool has a place in the ring. *)
LEMMA ModRange == \A a \in Nat : a % Capacity \in 0..Capacity-1
  BY SessionAssumption

(* Positions less than Capacity apart have different places. *)
LEMMA ModDistinct ==
  ASSUME NEW a \in Nat, NEW b \in Nat, a < b, b - a < Capacity
  PROVE  a % Capacity # b % Capacity
<1> DEFINE q == a \div Capacity
           r == b \div Capacity
<1>1. /\ q \in Int /\ r \in Int
      /\ a = Capacity * q + (a % Capacity)
      /\ b = Capacity * r + (b % Capacity)
  BY SessionAssumption
<1>2. SUFFICES ASSUME a % Capacity = b % Capacity PROVE FALSE
  BY Zenon
<1> HIDE DEF q, r
<1>3. b - a = Capacity * (r - q)
  BY <1>1, <1>2, SessionAssumption
<1>4. CASE r - q <= 0
  BY <1>1, <1>3, <1>4, SessionAssumption
<1>5. CASE r - q >= 1
  BY <1>1, <1>3, <1>5, SessionAssumption
<1> QED BY <1>1, <1>4, <1>5

(* The pooled streams are those at the positions. *)
LEMMA PooledAt == Pooled = {At(k) : k \in Positions}
  BY Zenon DEF Pooled, At, Positions

(* What the operations on the pool do to its positions. *)
LEMMA PoolSame == ASSUME pool' = pool PROVE Positions' = Positions /\ Pooled' = Pooled
                                          /\ \A k : At(k)' = At(k)
  BY Zenon DEF Positions, Pooled, At

(* pop takes the oldest stream and leaves the others. *)
LEMMA PopEffect ==
  ASSUME TypeOK, PoolInv, ~Empty, pop
  PROVE  /\ pool.head \in Positions /\ Oldest = At(pool.head)
         /\ Positions' = Positions \ {pool.head} /\ \A k : At(k)' = At(k)
         /\ pool' \in [ring : [0..Capacity-1 -> Ids \cup {NoStream}], head : Nat, tail : Nat]
         /\ pool'.head <= pool'.tail /\ pool'.tail - pool'.head <= Capacity
         /\ \A i \in Pooled : i # Oldest => i \in Pooled'
<1>1. /\ pool.head \in Nat /\ pool.tail \in Nat /\ pool.head < pool.tail
      /\ pool.tail - pool.head <= Capacity /\ Capacity \in Nat
  BY SessionAssumption DEF TypeOK, PoolInv, Empty
<1>2. pool' = [ring |-> pool.ring, head |-> pool.head + 1, tail |-> pool.tail]
  BY Zenon DEF pop, TypeOK
<1>3. \A k : At(k)' = At(k)
  BY <1>2, Zenon DEF At
<1>4. pool.head \in Positions /\ Positions' = Positions \ {pool.head}
  BY <1>1, <1>2 DEF Positions
<1>5. Oldest = At(pool.head)
  BY Zenon DEF Oldest, At
<1>6. ASSUME NEW i \in Pooled, i # Oldest PROVE i \in Pooled'
  <2>1. PICK k \in Positions : i = At(k)
    BY <1>6, PooledAt, Zenon
  <2>2. k \in Positions'
    BY <1>4, <1>5, <1>6, <2>1, Zenon
  <2>3. pool'.ring = pool.ring /\ k \in pool'.head..pool'.tail-1
    BY <1>2, <2>2, Zenon DEF Positions
  <2> QED BY <2>1, <2>3, Zenon DEF Pooled, At
<1> QED BY <1>1, <1>2, <1>3, <1>4, <1>5, <1>6 DEF TypeOK

(* push adds a stream behind the others when there is room. *)
LEMMA PushEffect ==
  ASSUME TypeOK, PoolInv, Room, NEW i \in Ids, push(i), NEW t, t = pool.tail
  PROVE  /\ Positions' = Positions \cup {t} /\ t \notin Positions
         /\ At(t)' = i /\ \A k \in Positions : At(k)' = At(k)
         /\ pool' \in [ring : [0..Capacity-1 -> Ids \cup {NoStream}], head : Nat, tail : Nat]
         /\ pool'.head <= pool'.tail /\ pool'.tail - pool'.head <= Capacity
         /\ i \in Pooled' /\ Pooled \subseteq Pooled'
<1>1. /\ pool.head \in Nat /\ t \in Nat /\ pool.head <= t
      /\ t - pool.head < Capacity /\ Capacity \in Nat
  BY SessionAssumption, Zenon DEF TypeOK, PoolInv, Room
<1>2. /\ pool' = [ring |-> [pool.ring EXCEPT ![t % Capacity] = i],
                  head |-> pool.head, tail |-> t + 1]
      /\ pool.ring \in [0..Capacity-1 -> Ids \cup {NoStream}]
  BY Zenon DEF push, TypeOK
<1>3. t % Capacity \in 0..Capacity-1
  BY <1>1, ModRange, Zenon
<1>4. ASSUME NEW k \in Positions PROVE At(k)' = At(k) /\ k # t
  <2>1. k \in Nat /\ k < t /\ t - k < Capacity
    BY <1>1 DEF Positions
  <2>2. k % Capacity # t % Capacity /\ k % Capacity \in 0..Capacity-1
    BY <1>1, <2>1, ModDistinct, ModRange, Zenon
  <2>3. pool'.ring[k % Capacity] = pool.ring[k % Capacity]
    BY <1>2, <1>3, <2>2, Zenon
  <2> QED BY <2>1, <2>3 DEF At
<1>5. At(t)' = i
  BY <1>2, <1>3, Zenon DEF At
<1>6. Positions' = Positions \cup {t}
  BY <1>1, <1>2 DEF Positions
<1>7. i \in Pooled' /\ Pooled \subseteq Pooled'
  <2>1. Pooled' = {At(k)' : k \in Positions'}
    BY Zenon DEF Pooled, At, Positions
  <2> QED BY <1>4, <1>5, <1>6, <2>1, PooledAt, Zenon
<1>8. /\ pool' \in [ring : [0..Capacity-1 -> Ids \cup {NoStream}], head : Nat, tail : Nat]
      /\ pool'.head <= pool'.tail /\ pool'.tail - pool'.head <= Capacity
  BY <1>1, <1>2, <1>3
<1> QED BY <1>4, <1>5, <1>6, <1>7, <1>8, Zenon
-----------------------------------------------------------------------------
(* A step that leaves the streams, the table, the pool and the hands alone. *)
LEMMA Elsewhere ==
  ASSUME IInv, UNCHANGED <<state, table, shutdown, nextId, pool, hand>>,
         pc' \in [Users -> Steps],
         \A u \in Users : /\ pc'[u] \in {"idle", "pop", "insert", "panic"} => hand[u] = NoStream
                          /\ pc'[u] \in {"use", "push"} => hand[u] # NoStream
  PROVE  IInv'
<1>1. TypeOK'
  BY Zenon DEF IInv, TypeOK
<1>2. HandInv'
  BY Zenon DEF IInv, HandInv
<1>3. PoolInv'
  BY PoolSame, Zenon DEF IInv, PoolInv
<1>4. OpenIsReachable'
  BY PoolSame, Zenon DEF IInv, OpenIsReachable, IsClosed
<1> QED BY <1>1, <1>2, <1>3, <1>4, Zenon DEF IInv

(* The same for a step of one user. *)
LEMMA UserElsewhere ==
  ASSUME IInv, UNCHANGED <<state, table, shutdown, nextId, pool, hand>>,
         NEW u \in Users, NEW to \in Steps, pc' = [pc EXCEPT ![u] = to],
         to \in {"idle", "pop", "insert", "panic"} => hand[u] = NoStream,
         to \in {"use", "push"} => hand[u] # NoStream
  PROVE  IInv'
<1>1. pc' \in [Users -> Steps]
  BY Zenon DEF IInv, TypeOK
<1>2. ASSUME NEW v \in Users
      PROVE  /\ pc'[v] \in {"idle", "pop", "insert", "panic"} => hand[v] = NoStream
             /\ pc'[v] \in {"use", "push"} => hand[v] # NoStream
  BY Zenon DEF IInv, TypeOK, HandInv
<1> QED BY <1>1, <1>2, Elsewhere, Zenon

(* Stream.close by the user that has the stream. *)
LEMMA Closes ==
  ASSUME IInv, NEW u \in Users, NEW i, i = hand[u], i # NoStream, close(u, i),
         UNCHANGED <<shutdown, nextId, pool>>
  PROVE  IInv'
<1>1. /\ state' = [state EXCEPT ![i] = "closed"] /\ table' = table \ {i}
      /\ hand' = [hand EXCEPT ![u] = NoStream]
      /\ \E to \in {"wake", "idle"} : pc' = [pc EXCEPT ![u] = to]
  BY Zenon DEF close, Tell
<1>2. TypeOK'
  BY <1>1, ZenonT(30) DEF IInv, TypeOK, Steps, NoStream
<1>3. HandInv'
  BY <1>1 DEF IInv, TypeOK, HandInv, NoStream
<1>4. PoolInv'
  BY <1>1, PoolSame DEF IInv, TypeOK, PoolInv, NoStream
<1>5. OpenIsReachable'
  BY <1>1, PoolSame DEF IInv, TypeOK, HandInv, OpenIsReachable, IsClosed
<1> QED BY <1>2, <1>3, <1>4, <1>5, Zenon DEF IInv

(* Every step of the specification preserves the invariant. *)
LEMMA Preserved == IInv /\ [Next]_vars => IInv'
<1> SUFFICES ASSUME IInv, [Next]_vars PROVE IInv'
  BY Zenon
<1> USE DEF Steps, NoStream
<1>1. ASSUME NEW u \in Users, GetStream(u) PROVE IInv'
  <2>1. PICK to \in {"idle", "pop"} : pc[u] = "idle" /\ pc' = [pc EXCEPT ![u] = to]
    BY <1>1, Zenon DEF GetStream, Goto
  <2>2. UNCHANGED <<state, table, shutdown, nextId, pool, hand>>
    BY <1>1, Zenon DEF GetStream, clientVars
  <2>3. hand[u] = NoStream
    BY <2>1, Zenon DEF IInv, HandInv
  <2> QED BY <2>1, <2>2, <2>3, UserElsewhere, Zenon
<1>2. ASSUME NEW u \in Users, PopStream(u) PROVE IInv'
  <2>1. ~Empty /\ pop /\ pc[u] = "pop" /\ hand[u] = NoStream
        /\ UNCHANGED <<state, table, shutdown, nextId>>
    BY <1>2, Zenon DEF PopStream, Goto, IInv, HandInv
  <2>2. /\ pool.head \in Positions /\ Oldest = At(pool.head)
        /\ Positions' = Positions \ {pool.head} /\ \A k : At(k)' = At(k)
        /\ pool' \in [ring : [0..Capacity-1 -> Ids \cup {NoStream}], head : Nat, tail : Nat]
        /\ pool'.head <= pool'.tail /\ pool'.tail - pool'.head <= Capacity
        /\ \A i \in Pooled : i # Oldest => i \in Pooled'
    BY <2>1, PopEffect, Zenon DEF IInv
  <2>3. Oldest \in 1..nextId /\ Oldest # NoStream /\ Oldest \in Ids
    BY <2>2, SessionAssumption, SMTT(30) DEF IInv, TypeOK, PoolInv, Ids
  <2>4. CASE ~IsClosed /\ state[Oldest] = "opened"
    <3>1. hand' = [hand EXCEPT ![u] = Oldest] /\ pc' = [pc EXCEPT ![u] = "use"]
      BY <1>2, <2>4, Zenon DEF PopStream, Goto, Obtained
    <3>2. TypeOK'
      BY <2>1, <2>2, <2>3, <3>1, Zenon DEF IInv, TypeOK
    <3>3. HandInv'
      BY <2>1, <2>2, <2>3, <3>1 DEF IInv, TypeOK, HandInv, PoolInv
    <3>4. PoolInv'
      <4>1. \A k \in Positions' : At(k)' # Oldest
        BY <2>2, Zenon DEF IInv, PoolInv
      <4> QED BY <2>1, <2>2, <3>1, <4>1, Zenon DEF IInv, TypeOK, PoolInv
    <3>5. OpenIsReachable'
      <4>1. ASSUME NEW i \in Ids, state[i] = "opened"
            PROVE  i \in Pooled' \/ \E v \in Users : hand'[v] = i
        BY <2>1, <2>2, <2>3, <2>4, <3>1, <4>1 DEF IInv, TypeOK, OpenIsReachable, Ids
      <4> QED BY <2>1, <4>1, Zenon DEF IInv, OpenIsReachable, IsClosed
    <3> QED BY <3>2, <3>3, <3>4, <3>5, Zenon DEF IInv
  <2>5. CASE ~(~IsClosed /\ state[Oldest] = "opened")
    <3>1. hand' = hand /\ pc' = [pc EXCEPT ![u] = "pop"]
      BY <1>2, <2>5, Zenon DEF PopStream, Goto
    <3>2. TypeOK'
      BY <2>1, <2>2, <3>1, Zenon DEF IInv, TypeOK
    <3>3. HandInv'
      BY <2>1, <3>1, Zenon DEF IInv, TypeOK, HandInv
    <3>4. PoolInv'
      BY <2>1, <2>2, <3>1, Zenon DEF IInv, PoolInv
    <3>5. OpenIsReachable'
      BY <2>1, <2>2, <2>5, <3>1, Zenon DEF IInv, OpenIsReachable, IsClosed
    <3> QED BY <3>2, <3>3, <3>4, <3>5, Zenon DEF IInv
  <2> QED BY <2>4, <2>5, Zenon
<1>3. ASSUME NEW u \in Users, OpenStream(u) PROVE IInv'
  <2>1. PICK to \in {"idle", "insert"} : pc[u] = "pop" /\ pc' = [pc EXCEPT ![u] = to]
    BY <1>3, Zenon DEF OpenStream, Goto
  <2>2. UNCHANGED <<state, table, shutdown, nextId, pool, hand>>
    BY <1>3, Zenon DEF OpenStream, clientVars
  <2>3. hand[u] = NoStream
    BY <2>1, Zenon DEF IInv, HandInv
  <2> QED BY <2>1, <2>2, <2>3, UserElsewhere, Zenon
<1>4. ASSUME NEW u \in Users, Insert(u) PROVE IInv'
  <2>1. pc[u] = "insert" /\ hand[u] = NoStream /\ nextId < MaxIds
        /\ UNCHANGED <<shutdown, pool>>
    BY <1>4, Zenon DEF Insert, Goto, IInv, HandInv
  <2>2. CASE shutdown = "closed"
    <3>1. pc' = [pc EXCEPT ![u] = "panic"] /\ UNCHANGED <<state, table, nextId, hand>>
      BY <1>4, <2>2, Zenon DEF Insert, Goto
    <3> QED BY <2>1, <3>1, UserElsewhere, Zenon
  <2>3. CASE shutdown # "closed"
    <3> DEFINE i == nextId + 1
    <3>1. /\ pc' = [pc EXCEPT ![u] = "use"] /\ hand' = [hand EXCEPT ![u] = i]
          /\ nextId' = i /\ table' = table \cup {i} /\ state' = [state EXCEPT ![i] = "opened"]
      BY <1>4, <2>3, Zenon DEF Insert, Goto, Stored, Obtained
    <3>2. nextId \in Nat /\ i \in Ids /\ i \in Nat /\ i # NoStream /\ i \notin 0..nextId
          /\ MaxIds \in Nat
      BY <2>1, SessionAssumption DEF IInv, TypeOK, Ids
    <3>3. TypeOK'
      BY <2>1, <3>1, <3>2 DEF IInv, TypeOK, Ids
    <3>4. HandInv'
      BY <2>1, <3>1, <3>2 DEF IInv, TypeOK, HandInv
    <3>5. PoolInv'
      BY <2>1, <3>1, <3>2, PoolSame DEF IInv, TypeOK, PoolInv
    <3>6. OpenIsReachable'
      BY <2>1, <2>3, <3>1, <3>2, PoolSame DEF IInv, TypeOK, OpenIsReachable, IsClosed, Ids
    <3> QED BY <3>3, <3>4, <3>5, <3>6, Zenon DEF IInv
  <2> QED BY <2>2, <2>3, Zenon
<1>5. ASSUME NEW u \in Users, Flush(u) PROVE IInv'
  <2>1. pc' = [pc EXCEPT ![u] = "wake"]
    BY <1>5, Zenon DEF Flush, Goto
  <2>2. UNCHANGED <<state, table, shutdown, nextId, pool, hand>>
    BY <1>5, Zenon DEF Flush, Asked, clientVars
  <2> QED BY <2>1, <2>2, UserElsewhere, Zenon
<1>6. ASSUME NEW u \in Users, FlushFallback(u) PROVE IInv'
  <2>1. pc[u] = "use" /\ pc' = [pc EXCEPT ![u] = "use"]
    BY <1>6, Zenon DEF FlushFallback, WriteFallback, Goto
  <2>2. UNCHANGED <<state, table, shutdown, nextId, pool, hand>>
    BY <1>6, Zenon DEF FlushFallback, WriteFallback, Asked
  <2>3. hand[u] # NoStream
    BY <2>1, Zenon DEF IInv, HandInv
  <2> QED BY <2>1, <2>2, <2>3, UserElsewhere, Zenon
<1>7. ASSUME NEW u \in Users, ReadAnswer(u) PROVE IInv'
  <2>1. UNCHANGED <<state, table, shutdown, nextId, pool, hand, pc>>
    BY <1>7, Zenon DEF ReadAnswer
  <2> QED BY <2>1, Elsewhere, Zenon DEF IInv, TypeOK, HandInv
<1>8. ASSUME NEW u \in Users, PutBack(u) PROVE IInv'
  <2>1. pc[u] = "use" /\ hand[u] # NoStream /\ UNCHANGED <<shutdown, nextId, pool>>
    BY <1>8, Zenon DEF PutBack, IInv, HandInv
  <2>2. CASE resets(hand[u])
    <3>1. pc' = [pc EXCEPT ![u] = "push"] /\ UNCHANGED <<state, table, hand>>
      BY <1>8, <2>2, Zenon DEF PutBack, Goto
    <3> QED BY <2>1, <3>1, UserElsewhere, Zenon
  <2>3. CASE ~resets(hand[u])
    <3>1. close(u, hand[u])
      BY <1>8, <2>3, Zenon DEF PutBack
    <3> QED BY <2>1, <3>1, Closes, Zenon
  <2> QED BY <2>2, <2>3, Zenon
<1>9. ASSUME NEW u \in Users, PushOrClose(u) PROVE IInv'
  <2>1. pc[u] = "push" /\ hand[u] # NoStream /\ hand[u] \in Ids
        /\ UNCHANGED <<shutdown, nextId>>
    BY <1>9, Zenon DEF PushOrClose, IInv, TypeOK, HandInv
  <2>2. CASE Room
    <3>1. /\ push(hand[u]) /\ pc' = [pc EXCEPT ![u] = "idle"]
          /\ hand' = [hand EXCEPT ![u] = NoStream] /\ UNCHANGED <<state, table>>
      BY <1>9, <2>2, Zenon DEF PushOrClose, Goto
    <3>2. PICK p : p = pool.tail
      BY Zenon
    <3>3. PICK j : j = hand[u]
      BY Zenon
    <3>4. /\ Positions' = Positions \cup {p} /\ p \notin Positions
          /\ At(p)' = j /\ \A k \in Positions : At(k)' = At(k)
          /\ pool' \in [ring : [0..Capacity-1 -> Ids \cup {NoStream}], head : Nat, tail : Nat]
          /\ pool'.head <= pool'.tail /\ pool'.tail - pool'.head <= Capacity
          /\ j \in Pooled' /\ Pooled \subseteq Pooled'
      BY <2>1, <2>2, <3>1, <3>2, <3>3, PushEffect, Zenon DEF IInv
    <3>5. j \in Ids /\ j \in 1..nextId /\ j # NoStream
      BY <2>1, <3>3, SessionAssumption DEF IInv, TypeOK, HandInv, Ids
    <3>6. TypeOK'
      BY <2>1, <3>1, <3>4, Zenon DEF IInv, TypeOK
    <3>7. HandInv'
      BY <2>1, <3>1 DEF IInv, TypeOK, HandInv
    <3>8. PoolInv'
      <4>1. ASSUME NEW k \in Positions' PROVE At(k)' \in 1..nextId' /\ \A v \in Users : hand'[v] # At(k)'
        <5>1. At(k)' = j \/ (k \in Positions /\ At(k)' = At(k))
          BY <3>4, Zenon
        <5>2. \A v \in Users : hand'[v] = IF v = u THEN NoStream ELSE hand[v]
          BY <3>1, Zenon DEF IInv, TypeOK
        <5>3. CASE At(k)' = j
          BY <2>1, <3>3, <3>5, <5>2, <5>3, Zenon DEF IInv, HandInv
        <5>4. CASE k \in Positions /\ At(k)' = At(k)
          <6>1. At(k) \in 1..nextId /\ \A v \in Users : hand[v] # At(k)
            BY <5>4, Zenon DEF IInv, PoolInv
          <6>2. nextId \in Nat /\ At(k) # NoStream
            BY <6>1, SessionAssumption DEF IInv, TypeOK
          <6> QED BY <2>1, <5>2, <5>4, <6>1, <6>2, Zenon
        <5> QED BY <5>1, <5>3, <5>4, Zenon
      <4>2. ASSUME NEW k \in Positions', NEW l \in Positions', k # l PROVE At(k)' # At(l)'
        BY <2>1, <3>3, <3>4, <4>2 DEF IInv, PoolInv
      <4> QED BY <3>4, <4>1, <4>2, Zenon DEF PoolInv
    <3>9. OpenIsReachable'
      <4>1. ASSUME NEW i2 \in Ids, state[i2] = "opened", ~IsClosed
            PROVE  i2 \in Pooled' \/ \E v \in Users : hand'[v] = i2
        BY <2>1, <3>1, <3>3, <3>4, <4>1 DEF IInv, TypeOK, OpenIsReachable
      <4> QED BY <2>1, <3>1, <4>1, Zenon DEF IInv, OpenIsReachable, IsClosed
    <3> QED BY <3>6, <3>7, <3>8, <3>9, Zenon DEF IInv
  <2>3. CASE ~Room
    <3>1. close(u, hand[u]) /\ UNCHANGED pool
      BY <1>9, <2>3, Zenon DEF PushOrClose
    <3> QED BY <2>1, <3>1, Closes, Zenon
  <2> QED BY <2>2, <2>3, Zenon
<1>10. ASSUME NEW u \in Users, WakeUp(u) PROVE IInv'
  <2>1. UNCHANGED <<state, table, shutdown, nextId, pool, hand>>
    BY <1>10, Zenon DEF WakeUp, MarkWorking, WritePolling, clientVars
  <2>2. PICK to \in {"poll", After(u)} : pc' = [pc EXCEPT ![u] = to]
    BY <1>10, Zenon DEF WakeUp, MarkWorking, WritePolling, Goto
  <2>3. /\ to \in Steps
        /\ to \in {"idle", "pop", "insert", "panic"} => hand[u] = NoStream
        /\ to \in {"use", "push"} => hand[u] # NoStream
    BY <2>2, Zenon DEF After
  <2> QED BY <2>1, <2>2, <2>3, UserElsewhere, Zenon
<1>11. ASSUME Recover \/ Dispatch \/ \E i \in Ids : Answer(i) \/ ServerCloses(i)
       PROVE  IInv'
  <2>1. UNCHANGED <<state, table, shutdown, nextId, pool, hand, pc>>
    BY <1>11, Zenon DEF Recover, Dispatch, HandleEvent, handlePolling, Answer, ServerCloses,
                 clientVars, userVars
  <2> QED BY <2>1, Elsewhere, Zenon DEF IInv, TypeOK, HandInv
<1>12. ASSUME Close PROVE IInv'
  <2>1. /\ shutdown = "open" /\ shutdown' = "shutdown"
        /\ UNCHANGED <<state, table, nextId, pool, hand, pc>>
    BY <1>12, Zenon DEF Close, userVars
  <2>2. TypeOK' /\ HandInv'
    BY <2>1, Zenon DEF IInv, TypeOK, HandInv
  <2>3. PoolInv'
    BY <2>1, PoolSame, Zenon DEF IInv, PoolInv
  <2>4. OpenIsReachable'
    BY <2>1, Zenon DEF IInv, OpenIsReachable, IsClosed
  <2> QED BY <2>2, <2>3, <2>4, Zenon DEF IInv
<1>13. ASSUME ClosePosted PROVE IInv'
  <2>1. /\ shutdown' = "closed" /\ table' = {}
        /\ state' = [i \in Ids |-> IF i \in table THEN "closed" ELSE state[i]]
        /\ UNCHANGED <<nextId, pool, hand, pc>>
    BY <1>13, Zenon DEF ClosePosted, userVars
  <2>2. TypeOK' /\ HandInv'
    BY <2>1, Zenon DEF IInv, TypeOK, HandInv
  <2>3. PoolInv'
    BY <2>1, PoolSame, Zenon DEF IInv, PoolInv
  <2>4. OpenIsReachable'
    BY <2>1, Zenon DEF IInv, OpenIsReachable
  <2> QED BY <2>2, <2>3, <2>4, Zenon DEF IInv
<1>14. ASSUME ClientHandles PROVE IInv'
  <2>1. UNCHANGED <<table, shutdown, nextId, pool, hand, pc>>
    BY <1>14, Zenon DEF ClientHandles, userVars
  <2>2. /\ state' \in [Ids -> {"none", "opened", "halfClosed", "closed"}]
        /\ \A i \in Ids : state'[i] = "opened" => state[i] = "opened"
    BY <1>14, Zenon DEF ClientHandles, IInv, TypeOK
  <2>3. TypeOK' /\ HandInv'
    BY <2>1, <2>2, Zenon DEF IInv, TypeOK, HandInv
  <2>4. PoolInv'
    BY <2>1, PoolSame, Zenon DEF IInv, PoolInv
  <2>5. OpenIsReachable'
    BY <2>1, <2>2, PoolSame, Zenon DEF IInv, OpenIsReachable, IsClosed
  <2> QED BY <2>3, <2>4, <2>5, Zenon DEF IInv
<1>15. CASE UNCHANGED vars
  <2>1. UNCHANGED <<state, table, shutdown, nextId, pool, hand, pc>>
    BY <1>15, Zenon DEF vars, clientVars, userVars
  <2> QED BY <2>1, Elsewhere, Zenon DEF IInv, TypeOK, HandInv
<1> QED
  BY <1>1, <1>2, <1>3, <1>4, <1>5, <1>6, <1>7, <1>8, <1>9, <1>10, <1>11, <1>12, <1>13,
     <1>14, <1>15, Zenon DEF Next, UserStep
-----------------------------------------------------------------------------
(* The invariant that the theorems follow from. *)
THEOREM Inductive == Spec => []IInv
<1>1. Init => IInv
  <2> SUFFICES ASSUME Init PROVE IInv
    BY Zenon
  <2>1. TypeOK
    BY SessionAssumption DEF Init, TypeOK, Steps, Ids, NoStream
  <2>2. HandInv
    BY DEF Init, HandInv, NoStream
  <2>3. pool.head = 0 /\ pool.tail = 0 /\ Positions = {}
    BY DEF Init, Positions
  <2>4. PoolInv
    BY <2>3, SessionAssumption DEF PoolInv
  <2>5. OpenIsReachable
    BY Zenon DEF Init, OpenIsReachable
  <2> QED BY <2>1, <2>2, <2>4, <2>5, Zenon DEF IInv
<1> QED BY <1>1, Preserved, PTL DEF Spec

(* An open stream is in the session's table and somebody has it, whatever   *)
(* opens, closes and returns of streams race with the session's Close.      *)
THEOREM OpenNeverLost == Spec => []OpenIsReachable
<1>1. IInv => OpenIsReachable
  BY Zenon DEF IInv
<1> QED BY <1>1, Inductive, PTL

-----------------------------------------------------------------------------
(* What is on the two ways to the server: the queue q and the socket s.  A  *)
(* request is a message that opens its stream at the server if it has none, *)
(* n is the number of the last request sent, and o are the requests that    *)
(* the server has handled.                                                  *)
Messages == [id : Ids, st : {"opened", "closed"}, n : Nat, use : Nat]
Events == Messages \cup {Polling}
Wires(q, s, n, o) == /\ q \in Seq(Messages) /\ s \in Seq(Events) /\ n \in Nat
                     /\ o \in [Ids -> Seq(Nat)]

Under(q, n) == \A p \in 1..Len(q) : q[p].st = "opened" => q[p].n <= n
Rising(q) == \A p, r \in 1..Len(q) :
                 p < r /\ q[p].st = "opened" /\ q[r].st = "opened" => q[p].n < q[r].n
Within(q, F) == \A p \in 1..Len(q) : q[p].st = "opened" => q[p].id \in F
Has(q, i) == \E p \in 1..Len(q) : q[p].st = "opened" /\ q[p].id = i
Polled(s) == \E p \in 1..Len(s) : s[p] = Polling
Ahead(q, s) == \A p \in 1..Len(q), r \in 1..Len(s) :
                   q[p].st = "opened" /\ s[r].st = "opened" /\ q[p].id = s[r].id => q[p].n < s[r].n
Announced(s, i) == \A r \in 1..Len(s) :
                       s[r].st = "opened" /\ s[r].id = i => \E t \in 1..r-1 : s[t] = Polling

(* A stream uses the socket after the queue, and the server learns of what  *)
(* is in the queue before it reads what is on the socket: it is in          *)
(* handlePolling (d), or a polling event comes first.                       *)
Told(q, s, d, O) == \A i \in Ids \ O : Has(q, i) => d \/ Announced(s, i)
Ways(q, s, n, F, d, O) == /\ Under(q, n) /\ Under(s, n) /\ Rising(q) /\ Rising(s)
                          /\ Within(s, F) /\ Ahead(q, s) /\ Told(q, s, d, O)

(* The requests of a stream that the server handled precede those on their  *)
(* way.                                                                     *)
Sorted(h) == \A k \in 1..Len(h)-1 : h[k] < h[k+1]
Bounded(h, n) == \A k \in 1..Len(h) : h[k] <= n
Behind(h, q, i) == \A k \in 1..Len(h), p \in 1..Len(q) :
                       q[p].st = "opened" /\ q[p].id = i => h[k] < q[p].n
Done(h, q, s, n, i) == Sorted(h) /\ Bounded(h, n) /\ Behind(h, q, i) /\ Behind(h, s, i)
Handled(o, q, s, n, O) == \A i \in Ids \ O : Done(o[i], q, s, n, i)

(* A sequence and one that has an element more. *)
More(q, r, m) == /\ Len(q) \in Nat /\ Len(r) = Len(q) + 1
                 /\ \A p \in 1..Len(q) : r[p] = q[p]
                 /\ \A p \in 1..Len(r) : p \in 1..Len(q) \/ (p = Len(q) + 1 /\ r[p] = m)

(* A sequence and one that has lost its first element. *)
Less(q, r, m) == /\ Len(q) \in Nat /\ Len(r) = Len(q) - 1 /\ 1 \in 1..Len(q) /\ m = q[1]
                 /\ \A p \in 1..Len(r) : p + 1 \in 1..Len(q) /\ r[p] = q[p+1]
                 /\ \A p \in 1..Len(q) : p = 1 \/ (p - 1 \in 1..Len(r) /\ r[p-1] = q[p])

(* What Append does. *)
LEMMA AppendAt ==
  ASSUME NEW S, NEW q \in Seq(S), NEW m \in S
  PROVE  Append(q, m) \in Seq(S) /\ More(q, Append(q, m), m)
  BY DEF More

(* What Tail does. *)
LEMMA TailAt ==
  ASSUME NEW S, NEW q \in Seq(S), q # <<>>
  PROVE  Tail(q) \in Seq(S) /\ Head(q) \in S /\ Less(q, Tail(q), Head(q))
  BY DEF Less

(* The numbers of the requests are numbers. *)
Numbered(q) == \A p \in 1..Len(q) : q[p].st = "opened" => q[p].n \in Nat

(* The numbers of what is on the two ways. *)
LEMMA WiresNumbered ==
  ASSUME NEW q, NEW s, NEW n, NEW o, Wires(q, s, n, o)
  PROVE  Numbered(q) /\ Numbered(s)
<1>1. \A p \in 1..Len(q) : q[p] \in Messages
  BY DEF Wires
<1>2. \A p \in 1..Len(s) : s[p] \in Messages \/ s[p] = Polling
  BY DEF Wires, Events
<1>3. \A m \in Messages : m.n \in Nat
  BY Zenon DEF Messages
<1>4. Polling.st # "opened"
  BY Zenon DEF Polling, Message
<1> QED BY <1>1, <1>2, <1>3, <1>4, Zenon DEF Numbered

(* A message that goes to one of the ways: a request has the next number. *)
Sends(m, n, n2) == /\ n \in Nat /\ n2 \in Nat /\ n <= n2
                   /\ m.st = "opened" => m.n = n + 1 /\ n2 = n + 1

(* One more message, seen from its own way. *)
LEMMA WayMore ==
  ASSUME NEW q, NEW r, NEW m, More(q, r, m), NEW n, NEW n2, Sends(m, n, n2), Numbered(q),
         Under(q, n), Rising(q)
  PROVE  Under(r, n2) /\ Rising(r)
<1>1. Under(r, n2)
  BY DEF Under, Sends, More, Numbered
<1>2. ASSUME NEW p \in 1..Len(r), NEW t \in 1..Len(r), p < t, r[p].st = "opened", r[t].st = "opened"
      PROVE  r[p].n < r[t].n
  <2>1. p \in 1..Len(q) /\ r[p] = q[p]
    BY <1>2 DEF More
  <2>2. CASE t \in 1..Len(q)
    BY <1>2, <2>1, <2>2, Zenon DEF Rising, More
  <2>3. CASE r[t] = m
    BY <1>2, <2>1, <2>3 DEF Under, Sends, Numbered
  <2> QED BY <2>2, <2>3, Zenon DEF More
<1> QED BY <1>1, <1>2, Zenon DEF Rising

(* What was handled is behind one more message too. *)
LEMMA BehindMore ==
  ASSUME NEW q, NEW r, NEW m, More(q, r, m), NEW n, NEW n2, Sends(m, n, n2), NEW i,
         NEW h \in Seq(Nat), Bounded(h, n), Behind(h, q, i)
  PROVE  Behind(h, r, i) /\ Bounded(h, n2)
<1>1. \A k \in 1..Len(h) : h[k] \in Nat /\ h[k] <= n
  BY DEF Bounded
<1>2. Bounded(h, n2)
  BY <1>1 DEF Bounded, Sends
<1>3. ASSUME NEW k \in 1..Len(h), NEW p \in 1..Len(r), r[p].st = "opened", r[p].id = i
      PROVE  h[k] < r[p].n
  <2>1. CASE p \in 1..Len(q)
    BY <1>3, <2>1, Zenon DEF Behind, More
  <2>2. CASE r[p] = m
    <3>1. n \in Nat /\ m.n = n + 1
      BY <1>3, <2>2, Zenon DEF Sends
    <3>2. h[k] \in Nat /\ h[k] <= n
      BY <1>1, Zenon
    <3> QED BY <2>2, <3>1, <3>2
  <2> QED BY <2>1, <2>2, SMTT(30) DEF More
<1> QED BY <1>2, <1>3, Zenon DEF Behind

(* A message less, seen from its own way. *)
LEMMA WayLess ==
  ASSUME NEW q, NEW r, NEW m, Less(q, r, m), NEW n, Under(q, n), Rising(q)
  PROVE  /\ Under(r, n) /\ Rising(r)
         /\ \A h, i : Behind(h, q, i) => Behind(h, r, i)
         /\ \A t : (Ahead(q, t) => Ahead(r, t)) /\ (Ahead(t, q) => Ahead(t, r))
<1>0. \A p \in 1..Len(r) : p + 1 \in 1..Len(q) /\ r[p] = q[p+1]
  BY Zenon DEF Less
<1>1. Under(r, n)
  BY DEF Under, Less
<1>2. Rising(r)
  <2>1. ASSUME NEW p \in 1..Len(r), NEW t \in 1..Len(r), p < t,
               r[p].st = "opened", r[t].st = "opened"
        PROVE  r[p].n < r[t].n
    <3>1. /\ p + 1 \in 1..Len(q) /\ r[p] = q[p+1] /\ t + 1 \in 1..Len(q) /\ r[t] = q[t+1]
          /\ p + 1 < t + 1
      BY <2>1 DEF Less
    <3> QED BY <2>1, <3>1, Zenon DEF Rising
  <2> QED BY <2>1, Zenon DEF Rising
<1>3. \A h, i : Behind(h, q, i) => Behind(h, r, i)
  BY <1>0, Zenon DEF Behind
<1>4. \A t : (Ahead(q, t) => Ahead(r, t)) /\ (Ahead(t, q) => Ahead(t, r))
  BY <1>0, Zenon DEF Ahead
<1> QED BY <1>1, <1>2, <1>3, <1>4, Zenon

(* What the server has handled of a stream after one more message. *)
LEMMA LaterMore ==
  ASSUME NEW h \in Seq(Nat), NEW k \in Nat
  PROVE  Append(h, k) \in Seq(Nat) /\ More(h, Append(h, k), k)
  BY AppendAt, Zenon

(* The server handles the first message of a way: the rest of the way has   *)
(* later requests.                                                          *)
LEMMA FirstBehind ==
  ASSUME NEW q, NEW r, NEW m, Less(q, r, m), Rising(q), NEW i, NEW n, Under(q, n), Numbered(q),
         NEW h \in Seq(Nat), Sorted(h), Bounded(h, n), Behind(h, q, i),
         m.st = "opened", m.id = i, NEW h2, h2 = Append(h, m.n)
  PROVE  Sorted(h2) /\ Bounded(h2, n) /\ Behind(h2, r, i)
<1>1. m = q[1] /\ 1 \in 1..Len(q) /\ m.n \in Nat
  BY Zenon DEF Less, Numbered
<1>2. More(h, h2, m.n)
  BY <1>1, LaterMore, Zenon
<1>3. \A k \in 1..Len(h) : h[k] < m.n
  BY <1>1, Zenon DEF Behind
<1>4. Sorted(h2)
  BY <1>2, <1>3 DEF Sorted, More
<1>5. Bounded(h2, n)
  BY <1>1, <1>2, Zenon DEF Bounded, Under, More
<1>6. ASSUME NEW k \in 1..Len(h2), NEW p \in 1..Len(r), r[p].st = "opened", r[p].id = i
      PROVE  h2[k] < r[p].n
  <2>1. p + 1 \in 1..Len(q) /\ r[p] = q[p+1] /\ 1 < p + 1
    BY DEF Less
  <2>2. CASE k \in 1..Len(h)
    BY <1>2, <1>6, <2>1, <2>2, Zenon DEF Behind, More
  <2>3. CASE h2[k] = m.n
    BY <1>1, <1>6, <2>1, <2>3, SMTT(30) DEF Rising
  <2> QED BY <1>2, <2>2, <2>3, Zenon DEF More
<1> QED BY <1>4, <1>5, <1>6, Zenon DEF Behind

(* The message of a Flush or of a close goes to the queue. *)
LEMMA QueueAppend ==
  ASSUME NEW q, NEW s, NEW n, NEW o, Wires(q, s, n, o), NEW F, NEW d, NEW O,
         NEW m \in Messages, NEW n2, Sends(m, n, n2), m.st = "opened" => m.id \notin F,
         Ways(q, s, n, F, d, O), Handled(o, q, s, n, O)
  PROVE  /\ Wires(Append(q, m), s, n2, o) /\ Ways(Append(q, m), s, n2, F, d, O)
         /\ Handled(o, Append(q, m), s, n2, O)
<1>1. PICK r : r = Append(q, m)
  BY Zenon
<1>0. r \in Seq(Messages) /\ More(q, r, m)
  BY <1>1, AppendAt, Zenon DEF Wires
<1>2. More(q, r, m)
  BY <1>0, Zenon
<1>3. Wires(r, s, n2, o)
  BY <1>0, Zenon DEF Wires, Sends
<1>4. /\ Under(q, n) /\ Under(s, n) /\ Rising(q) /\ Rising(s)
      /\ Within(s, F) /\ Ahead(q, s) /\ Told(q, s, d, O)
  BY Zenon DEF Ways
<1>5. Numbered(q) /\ Numbered(s)
  BY WiresNumbered, Zenon
<1>6. Under(r, n2) /\ Rising(r)
  BY <1>2, <1>4, <1>5, WayMore, Zenon
<1>7. Under(s, n2)
  BY <1>4, <1>5 DEF Under, Sends, Numbered
<1>8. \A t \in 1..Len(s) : s[t].st = "opened" /\ m.st = "opened" => s[t].id # m.id
  BY <1>4, Zenon DEF Within
<1>9. Ahead(r, s)
  <2> SUFFICES ASSUME NEW p \in 1..Len(r), NEW t \in 1..Len(s), r[p].st = "opened",
                      s[t].st = "opened", r[p].id = s[t].id
               PROVE  r[p].n < s[t].n
    BY Zenon DEF Ahead
  <2>1. CASE p \in 1..Len(q)
    BY <1>2, <1>4, <2>1, Zenon DEF More, Ahead
  <2>2. CASE r[p] = m
    BY <1>8, <2>2, Zenon
  <2> QED BY <1>2, <2>1, <2>2, Zenon DEF More
<1>10. ASSUME NEW i \in Ids \ O, Has(r, i) PROVE d \/ Announced(s, i)
  <2>1. Has(q, i) \/ (m.st = "opened" /\ m.id = i)
    BY <1>2, <1>10, Zenon DEF Has, More
  <2>2. CASE Has(q, i)
    BY <1>4, <2>2, Zenon DEF Told
  <2>3. CASE m.st = "opened" /\ m.id = i
    BY <1>8, <2>3, Zenon DEF Announced
  <2> QED BY <2>1, <2>2, <2>3, Zenon
<1>11. Ways(r, s, n2, F, d, O)
  BY <1>4, <1>6, <1>7, <1>9, <1>10, Zenon DEF Ways, Told
<1>12. ASSUME NEW i \in Ids \ O PROVE Done(o[i], r, s, n2, i)
  <2>1. o[i] \in Seq(Nat)
    BY Zenon DEF Wires
  <2>2. Done(o[i], q, s, n, i)
    BY Zenon DEF Handled
  <2>3. Behind(o[i], r, i) /\ Bounded(o[i], n2)
    BY <1>2, <2>1, <2>2, BehindMore, Zenon DEF Done
  <2> QED BY <2>2, <2>3, Zenon DEF Done
<1>13. Handled(o, r, s, n2, O)
  BY <1>12, Zenon DEF Handled
<1> QED BY <1>1, <1>3, <1>11, <1>13, Zenon

(* When an event may go to the socket: a request if its stream is in        *)
(* fallback, and the server learns of the queue first or is overtaken.      *)
Follows(m, q, s, d, F, O) ==
    m.st = "opened" => m.id \in F /\ (m.id \in O \/ ~Has(q, m.id) \/ d \/ Polled(s))

(* An event goes to the socket: a request after what is in the queue, and   *)
(* after the event that tells of it, unless the stream overtakes.           *)
LEMMA SockAppend ==
  ASSUME NEW q, NEW s, NEW n, NEW o, Wires(q, s, n, o), NEW F, NEW d, NEW O,
         NEW m \in Events, NEW n2, Sends(m, n, n2), NEW F2, F \subseteq F2, NEW O2, O \subseteq O2,
         Follows(m, q, s, d, F2, O2), Ways(q, s, n, F, d, O), Handled(o, q, s, n, O)
  PROVE  /\ Wires(q, Append(s, m), n2, o) /\ Ways(q, Append(s, m), n2, F2, d, O2)
         /\ Handled(o, q, Append(s, m), n2, O2)
<1>1. PICK r : r = Append(s, m)
  BY Zenon
<1>0. r \in Seq(Events) /\ More(s, r, m)
  BY <1>1, AppendAt, Zenon DEF Wires
<1>2. More(s, r, m)
  BY <1>0, Zenon
<1>3. Wires(q, r, n2, o)
  BY <1>0, Zenon DEF Wires, Sends
<1>4. /\ Under(q, n) /\ Under(s, n) /\ Rising(q) /\ Rising(s)
      /\ Within(s, F) /\ Ahead(q, s) /\ Told(q, s, d, O)
  BY Zenon DEF Ways
<1>5. Numbered(q) /\ Numbered(s)
  BY WiresNumbered, Zenon
<1>6. Under(r, n2) /\ Rising(r)
  BY <1>2, <1>4, <1>5, WayMore, Zenon
<1>7. Under(q, n2)
  BY <1>4, <1>5 DEF Under, Sends, Numbered
<1>8. Within(r, F2)
  BY <1>2, <1>4, Zenon DEF Within, More, Follows
<1>9. Ahead(q, r)
  <2> SUFFICES ASSUME NEW p \in 1..Len(q), NEW t \in 1..Len(r), q[p].st = "opened",
                      r[t].st = "opened", q[p].id = r[t].id
               PROVE  q[p].n < r[t].n
    BY Zenon DEF Ahead
  <2>1. CASE t \in 1..Len(s)
    BY <1>2, <1>4, <2>1, SMTT(30) DEF More, Ahead
  <2>2. CASE r[t] = m
    BY <1>4, <1>5, <2>2 DEF Under, Sends, Numbered
  <2> QED BY <1>2, <2>1, <2>2, Zenon DEF More
<1>10. ASSUME NEW i \in Ids \ O2, Has(q, i), ~d PROVE Announced(r, i)
  <2> SUFFICES ASSUME NEW p \in 1..Len(r), r[p].st = "opened", r[p].id = i
               PROVE  \E t \in 1..p-1 : r[t] = Polling
    BY Zenon DEF Announced
  <2>1. CASE p \in 1..Len(s)
    <3>1. Announced(s, i)
      BY <1>4, <1>10, Zenon DEF Told
    <3>2. PICK t \in 1..p-1 : s[t] = Polling
      BY <1>2, <2>1, <3>1, Zenon DEF Announced, More
    <3>3. t \in 1..Len(s)
      BY <1>2, <2>1, <3>2 DEF More
    <3> QED BY <1>2, <3>2, <3>3, Zenon DEF More
  <2>2. CASE p = Len(s) + 1 /\ r[p] = m
    <3>1. PICK t \in 1..Len(s) : s[t] = Polling
      BY <1>10, <2>2, Zenon DEF Follows, Polled
    <3>2. t \in 1..p-1 /\ r[t] = Polling
      BY <1>2, <2>2, <3>1 DEF More
    <3> QED BY <3>2, Zenon
  <2> QED BY <1>2, <2>1, <2>2, Zenon DEF More
<1>11. Ways(q, r, n2, F2, d, O2)
  BY <1>4, <1>6, <1>7, <1>8, <1>9, <1>10, Zenon DEF Ways, Told
<1>12. ASSUME NEW i \in Ids \ O2 PROVE Done(o[i], q, r, n2, i)
  <2>1. o[i] \in Seq(Nat)
    BY Zenon DEF Wires
  <2>2. Done(o[i], q, s, n, i)
    BY Zenon DEF Handled
  <2>3. Behind(o[i], r, i) /\ Bounded(o[i], n2)
    BY <1>2, <2>1, <2>2, BehindMore, Zenon DEF Done
  <2> QED BY <2>2, <2>3, Zenon DEF Done
<1>13. Handled(o, q, r, n2, O2)
  BY <1>12, Zenon DEF Handled
<1> QED BY <1>1, <1>3, <1>11, <1>13, Zenon

(* What the server handled, after one more message. *)
Noted(o, m) == [o EXCEPT ![m.id] = IF m.st = "opened" THEN Append(@, m.n) ELSE @]

(* Only the stream of the message is concerned. *)
LEMMA NotedAt ==
  ASSUME NEW o \in [Ids -> Seq(Nat)], NEW m \in Messages
  PROVE  /\ Noted(o, m) \in [Ids -> Seq(Nat)]
         /\ \A i \in Ids : \/ m.st = "opened" /\ m.id = i /\ Noted(o, m)[i] = Append(o[i], m.n)
                           \/ Noted(o, m)[i] = o[i]
<1>1. m.id \in Ids /\ m.n \in Nat
  BY Zenon DEF Messages
<1>2. o[m.id] \in Seq(Nat) /\ Append(o[m.id], m.n) \in Seq(Nat)
  BY <1>1
<1> QED BY <1>1, <1>2, Zenon DEF Noted

(* What is taken from one of the ways. *)
NonEmpty(q) == q # <<>>
FirstIsMessage(s) == Head(s) # Polling

(* handlePolling takes an element of the queue. *)
LEMMA QueueTail ==
  ASSUME NEW q, NEW s, NEW n, NEW o, Wires(q, s, n, o), NEW F, NEW O, NonEmpty(q),
         Ways(q, s, n, F, TRUE, O), Handled(o, q, s, n, O)
  PROVE  /\ Wires(Tail(q), s, n, Noted(o, Head(q))) /\ Ways(Tail(q), s, n, F, TRUE, O)
         /\ Handled(Noted(o, Head(q)), Tail(q), s, n, O)
<1>1. PICK r, m, o2 : r = Tail(q) /\ m = Head(q) /\ o2 = Noted(o, m)
  BY Zenon
<1>0. r \in Seq(Messages) /\ m \in Messages /\ Less(q, r, m)
  BY <1>1, TailAt, Zenon DEF Wires, NonEmpty
<1>2. Less(q, r, m)
  BY <1>0, Zenon
<1>3. /\ o2 \in [Ids -> Seq(Nat)]
      /\ \A i \in Ids : \/ m.st = "opened" /\ m.id = i /\ o2[i] = Append(o[i], m.n)
                        \/ o2[i] = o[i]
  BY <1>0, <1>1, NotedAt, Zenon DEF Wires
<1>4. Wires(r, s, n, o2)
  BY <1>0, <1>3, Zenon DEF Wires
<1>5. /\ Under(q, n) /\ Under(s, n) /\ Rising(q) /\ Rising(s) /\ Within(s, F) /\ Ahead(q, s)
  BY Zenon DEF Ways
<1>6. /\ Under(r, n) /\ Rising(r)
      /\ \A h, i : Behind(h, q, i) => Behind(h, r, i)
  BY <1>2, <1>5, WayLess, Zenon
<1>7. Ahead(r, s)
  BY <1>2, <1>5, WayLess, Zenon
<1>8. Ways(r, s, n, F, TRUE, O)
  BY <1>5, <1>6, <1>7, Zenon DEF Ways, Told
<1>9. ASSUME NEW i \in Ids \ O PROVE Done(o2[i], r, s, n, i)
  <2>1. o[i] \in Seq(Nat) /\ Numbered(q)
    <3>1. o[i] \in Seq(Nat)
      BY Zenon DEF Wires
    <3> QED BY <3>1, WiresNumbered, Zenon
  <2>2. Done(o[i], q, s, n, i)
    BY Zenon DEF Handled
  <2>3. CASE m.st = "opened" /\ m.id = i /\ o2[i] = Append(o[i], m.n)
    <3>1. Sorted(o2[i]) /\ Bounded(o2[i], n) /\ Behind(o2[i], r, i)
      BY <1>2, <1>5, <2>1, <2>2, <2>3, FirstBehind, Zenon DEF Done
    <3>2. m.n \in Nat
      BY <1>0, Zenon DEF Messages
    <3>3. More(o[i], o2[i], m.n)
      BY <2>1, <2>3, <3>2, LaterMore, Zenon
    <3>4. \A p \in 1..Len(s) : s[p].st = "opened" /\ s[p].id = i => m.n < s[p].n
      BY <1>2, <1>5, <2>3, Zenon DEF Ahead, Less
    <3>5. Behind(o2[i], s, i)
      BY <2>2, <3>3, <3>4, Zenon DEF Behind, Done, More
    <3> QED BY <3>1, <3>5, Zenon DEF Done
  <2>4. CASE o2[i] = o[i]
    BY <1>6, <2>2, <2>4, Zenon DEF Done
  <2> QED BY <1>3, <2>3, <2>4, Zenon
<1>10. Handled(o2, r, s, n, O)
  BY <1>9, Zenon DEF Handled
<1> QED BY <1>1, <1>4, <1>8, <1>10, Zenon

(* A polling event is read. *)
LEMMA SockPoll ==
  ASSUME NEW q, NEW s, NEW n, NEW o, Wires(q, s, n, o), NEW F, NEW d, NEW O, NonEmpty(s),
         Ways(q, s, n, F, d, O), Handled(o, q, s, n, O)
  PROVE  /\ Wires(q, Tail(s), n, o) /\ Ways(q, Tail(s), n, F, TRUE, O)
         /\ Handled(o, q, Tail(s), n, O)
<1>1. PICK r, m : r = Tail(s) /\ m = Head(s)
  BY Zenon
<1>0. r \in Seq(Events) /\ Less(s, r, m)
  BY <1>1, TailAt, Zenon DEF Wires, NonEmpty
<1>2. Less(s, r, m)
  BY <1>0, Zenon
<1>3. /\ Under(q, n) /\ Under(s, n) /\ Rising(q) /\ Rising(s) /\ Within(s, F) /\ Ahead(q, s)
  BY Zenon DEF Ways
<1>4. /\ Under(r, n) /\ Rising(r)
      /\ \A h, i : Behind(h, s, i) => Behind(h, r, i)
  BY <1>2, <1>3, WayLess, Zenon
<1>5. Ahead(q, r)
  BY <1>2, <1>3, WayLess, Zenon
<1>6. Within(r, F)
  BY <1>2, <1>3 DEF Less, Within
<1>7. Ways(q, r, n, F, TRUE, O)
  BY <1>3, <1>4, <1>5, <1>6, Zenon DEF Ways, Told
<1>8. Wires(q, r, n, o)
  BY <1>0, Zenon DEF Wires
<1>9. Handled(o, q, r, n, O)
  BY <1>4, Zenon DEF Handled, Done
<1> QED BY <1>1, <1>7, <1>8, <1>9, Zenon

(* An event of a stream is read: of its requests, none is in the queue. *)
LEMMA SockTail ==
  ASSUME NEW q, NEW s, NEW n, NEW o, Wires(q, s, n, o), NEW F, NEW O, NonEmpty(s),
         FirstIsMessage(s), Ways(q, s, n, F, FALSE, O), Handled(o, q, s, n, O)
  PROVE  /\ Wires(q, Tail(s), n, Noted(o, Head(s))) /\ Ways(q, Tail(s), n, F, FALSE, O)
         /\ Handled(Noted(o, Head(s)), q, Tail(s), n, O)
<1>1. PICK r, m, o2 : r = Tail(s) /\ m = Head(s) /\ o2 = Noted(o, m)
  BY Zenon
<1>0. r \in Seq(Events) /\ m \in Messages /\ Less(s, r, m)
  BY <1>1, TailAt DEF Wires, Events, NonEmpty, FirstIsMessage
<1>2. Less(s, r, m)
  BY <1>0, Zenon
<1>3. /\ o2 \in [Ids -> Seq(Nat)]
      /\ \A i \in Ids : \/ m.st = "opened" /\ m.id = i /\ o2[i] = Append(o[i], m.n)
                        \/ o2[i] = o[i]
  BY <1>0, <1>1, NotedAt, Zenon DEF Wires
<1>4. Wires(q, r, n, o2)
  BY <1>0, <1>3, Zenon DEF Wires
<1>5. /\ Under(q, n) /\ Under(s, n) /\ Rising(q) /\ Rising(s)
      /\ Within(s, F) /\ Ahead(q, s) /\ Told(q, s, FALSE, O)
  BY Zenon DEF Ways
<1>6. /\ Under(r, n) /\ Rising(r)
      /\ \A h, i : Behind(h, s, i) => Behind(h, r, i)
  BY <1>2, <1>5, WayLess, Zenon
<1>7. Ahead(q, r)
  BY <1>2, <1>5, WayLess, Zenon
<1>8. Within(r, F)
  BY <1>2, <1>5 DEF Less, Within
<1>9. ASSUME NEW i \in Ids \ O, Has(q, i) PROVE Announced(r, i)
  <2> SUFFICES ASSUME NEW p \in 1..Len(r), r[p].st = "opened", r[p].id = i
               PROVE  \E t \in 1..p-1 : r[t] = Polling
    BY Zenon DEF Announced
  <2>1. Announced(s, i)
    BY <1>5, <1>9, Zenon DEF Told
  <2>2. PICK t \in 1..(p+1)-1 : s[t] = Polling
    <3>1. p + 1 \in 1..Len(s) /\ s[p+1] = r[p]
      BY <1>2, Zenon DEF Less
    <3> QED BY <2>1, <3>1, Zenon DEF Announced
  <2>3. t \in 1..Len(s) /\ t # 1
    <3>1. s[1] # Polling
      BY <1>1, <1>2, Zenon DEF Less, FirstIsMessage
    <3>2. t \in 1..Len(s)
      BY <1>2, <2>2 DEF Less
    <3> QED BY <2>2, <3>1, <3>2, Zenon
  <2>4. t - 1 \in 1..p-1 /\ r[t-1] = Polling
    BY <1>2, <2>2, <2>3 DEF Less
  <2> QED BY <2>4, Zenon
<1>10. Ways(q, r, n, F, FALSE, O)
  BY <1>5, <1>6, <1>7, <1>8, <1>9, Zenon DEF Ways, Told
<1>11. ASSUME NEW i \in Ids \ O PROVE Done(o2[i], q, r, n, i)
  <2>1. o[i] \in Seq(Nat) /\ Numbered(s)
    <3>1. o[i] \in Seq(Nat)
      BY Zenon DEF Wires
    <3> QED BY <3>1, WiresNumbered, Zenon
  <2>2. Done(o[i], q, s, n, i)
    BY Zenon DEF Handled
  <2>3. CASE m.st = "opened" /\ m.id = i /\ o2[i] = Append(o[i], m.n)
    <3>1. Sorted(o2[i]) /\ Bounded(o2[i], n) /\ Behind(o2[i], r, i)
      BY <1>2, <1>5, <2>1, <2>2, <2>3, FirstBehind, Zenon DEF Done
    <3>2. ~Announced(s, i)
      BY <1>2, <2>3 DEF Announced, Less
    <3>3. ~Has(q, i)
      BY <1>5, <3>2, Zenon DEF Told
    <3>4. Behind(o2[i], q, i)
      BY <3>3, Zenon DEF Behind, Has
    <3> QED BY <3>1, <3>4, Zenon DEF Done
  <2>4. CASE o2[i] = o[i]
    BY <1>6, <2>2, <2>4, Zenon DEF Done
  <2> QED BY <1>3, <2>3, <2>4, Zenon
<1>12. Handled(o2, q, r, n, O)
  BY <1>11, Zenon DEF Handled
<1> QED BY <1>1, <1>4, <1>10, <1>12, Zenon

-----------------------------------------------------------------------------
(* The server has been told of the requests in the queue, or will be. *)
WakeInv ==
    /\ \A p \in 1..Len(queue) : queue[p].st = "opened" =>
          working \/ \E u \in Users : hand[u] = queue[p].id /\ pc[u] = "wake"
    /\ working => draining \/ Polled(sock) \/ \E v \in Users : pc[v] = "poll"

Flags == use \in [Users -> Nat] /\ uses \in Nat /\ working \in BOOLEAN /\ draining \in BOOLEAN

OrderInv == /\ Wires(queue, sock, sent, order) /\ Flags /\ WakeInv
            /\ Ways(queue, sock, sent, fallback, draining, overtaken)
            /\ Handled(order, queue, sock, sent, overtaken)

(* Nobody leaves wakeUpPeer. *)
StillWaking == \A v \in Users : /\ pc[v] = "wake" => pc'[v] = "wake" /\ hand'[v] = hand[v]
                                /\ pc[v] = "poll" => pc'[v] = "poll"

(* A user that is not in wakeUpPeer moves. *)
LEMMA Moves ==
  ASSUME IInv, NEW u \in Users, pc[u] # "wake", pc[u] # "poll", NEW to, NEW h,
         pc' = [pc EXCEPT ![u] = to], hand' = [hand EXCEPT ![u] = h] \/ hand' = hand
  PROVE  StillWaking
<1>1. \A v \in Users : v # u => pc'[v] = pc[v] /\ hand'[v] = hand[v]
  BY Zenon DEF IInv, TypeOK
<1> QED BY <1>1, Zenon DEF StillWaking

(* A step that leaves the two ways alone. *)
LEMMA WireSame ==
  ASSUME OrderInv, StillWaking, use' \in [Users -> Nat], uses' \in Nat,
         UNCHANGED <<queue, working, sock, sent, draining, order, fallback, overtaken>>
  PROVE  OrderInv'
<1>1. Flags'
  BY Zenon DEF OrderInv, Flags
<1>2. WakeInv'
  <2>1. ASSUME NEW p \in 1..Len(queue), queue[p].st = "opened", ~working
        PROVE  \E u \in Users : hand'[u] = queue[p].id /\ pc'[u] = "wake"
    BY <2>1, Zenon DEF OrderInv, WakeInv, StillWaking
  <2>2. (\E v \in Users : pc[v] = "poll") => \E v \in Users : pc'[v] = "poll"
    BY Zenon DEF StillWaking
  <2> QED BY <2>1, <2>2, SMTT(30) DEF OrderInv, WakeInv
<1>3. /\ Wires(queue, sock, sent, order)'
      /\ Ways(queue, sock, sent, fallback, draining, overtaken)'
      /\ Handled(order, queue, sock, sent, overtaken)'
  BY Zenon DEF OrderInv
<1> QED BY <1>1, <1>2, <1>3, Zenon DEF OrderInv

(* A message to the queue, after which the user wakes the server. *)
LEMMA QueueMore ==
  ASSUME IInv, OrderInv, NEW u \in Users, pc[u] # "wake", pc[u] # "poll",
         pc' = [pc EXCEPT ![u] = "wake"], hand' = [hand EXCEPT ![u] = NoStream] \/ hand' = hand,
         NEW m \in Messages, queue' = Append(queue, m), Sends(m, sent, sent'),
         m.st = "opened" => m.id \notin fallback /\ hand'[u] = m.id,
         UNCHANGED <<working, sock, draining, order, fallback, overtaken, use, uses>>
  PROVE  OrderInv'
<1>1. StillWaking /\ pc'[u] = "wake"
  BY Moves, Zenon DEF IInv, TypeOK
<1>2. /\ Wires(queue, sock, sent, order)
      /\ Ways(queue, sock, sent, fallback, draining, overtaken)
      /\ Handled(order, queue, sock, sent, overtaken)
  BY Zenon DEF OrderInv
<1>3. m.st = "opened" => m.id \notin fallback
  BY Zenon
<1>4. /\ Wires(queue', sock, sent', order)
      /\ Ways(queue', sock, sent', fallback, draining, overtaken)
      /\ Handled(order, queue', sock, sent', overtaken)
  <2>1. /\ Wires(Append(queue, m), sock, sent', order)
        /\ Ways(Append(queue, m), sock, sent', fallback, draining, overtaken)
        /\ Handled(order, Append(queue, m), sock, sent', overtaken)
    BY <1>2, <1>3, QueueAppend, Zenon
  <2> QED BY <2>1, Zenon
<1>5. More(queue, queue', m)
  BY <1>2, AppendAt, Zenon DEF Wires
<1>6. Flags'
  BY Zenon DEF OrderInv, Flags
<1>7. ASSUME NEW p \in 1..Len(queue'), queue'[p].st = "opened", ~working
      PROVE  \E v \in Users : hand'[v] = queue'[p].id /\ pc'[v] = "wake"
  <2>1. CASE p \in 1..Len(queue) /\ queue'[p] = queue[p]
    <3>1. PICK v \in Users : hand[v] = queue[p].id /\ pc[v] = "wake"
      BY <1>7, <2>1, Zenon DEF OrderInv, WakeInv
    <3> QED BY <1>1, <2>1, <3>1, Zenon DEF StillWaking
  <2>2. CASE queue'[p] = m
    BY <1>1, <1>7, <2>2, Zenon
  <2> QED BY <1>5, <2>1, <2>2, Zenon DEF More
<1>8. (\E v \in Users : pc[v] = "poll") => \E v \in Users : pc'[v] = "poll"
  BY <1>1, Zenon DEF StillWaking
<1>9. WakeInv'
  BY <1>7, <1>8, Zenon DEF OrderInv, WakeInv
<1> QED BY <1>4, <1>6, <1>9, Zenon DEF OrderInv

(* A message to the socket. *)
LEMMA SockMore ==
  ASSUME OrderInv, StillWaking, NEW m \in Events, sock' = Append(sock, m),
         Sends(m, sent, sent'), fallback \subseteq fallback', overtaken \subseteq overtaken',
         Follows(m, queue, sock, draining, fallback', overtaken'),
         UNCHANGED <<working, queue, draining, order, use, uses>>
  PROVE  OrderInv'
<1>1. /\ Wires(queue, sock, sent, order)
      /\ Ways(queue, sock, sent, fallback, draining, overtaken)
      /\ Handled(order, queue, sock, sent, overtaken)
  BY Zenon DEF OrderInv
<1>2. /\ Wires(queue, sock', sent', order)
      /\ Ways(queue, sock', sent', fallback', draining, overtaken')
      /\ Handled(order, queue, sock', sent', overtaken')
  <2>1. /\ Wires(queue, Append(sock, m), sent', order)
        /\ Ways(queue, Append(sock, m), sent', fallback', draining, overtaken')
        /\ Handled(order, queue, Append(sock, m), sent', overtaken')
    BY <1>1, SockAppend, Zenon
  <2> QED BY <2>1, Zenon
<1>3. More(sock, sock', m)
  BY <1>1, AppendAt, Zenon DEF Wires
<1>4. Flags'
  BY SMTT(30) DEF OrderInv, Flags
<1>5. ASSUME NEW p \in 1..Len(queue), queue[p].st = "opened", ~working
      PROVE  \E v \in Users : hand'[v] = queue[p].id /\ pc'[v] = "wake"
  BY <1>5, Zenon DEF OrderInv, WakeInv, StillWaking
<1>6. (\E v \in Users : pc[v] = "poll") => \E v \in Users : pc'[v] = "poll"
  BY Zenon DEF StillWaking
<1>7. Polled(sock) => Polled(sock')
  <2>1. \A t \in 1..Len(sock) : t \in 1..Len(sock') /\ sock'[t] = sock[t]
    BY <1>3, SMTT(30) DEF More
  <2> QED BY <2>1, Zenon DEF Polled
<1>8. WakeInv'
  BY <1>5, <1>6, <1>7, SMTT(30) DEF OrderInv, WakeInv
<1> QED BY <1>2, <1>4, <1>8, Zenon DEF OrderInv

(* Stream.close: the peer is told on one of the ways, or not at all. *)
LEMMA CloseTells ==
  ASSUME IInv, OrderInv, NEW u \in Users, pc[u] # "wake", pc[u] # "poll", hand[u] \in Ids,
         close(u, hand[u]), UNCHANGED <<working, sent, draining, order, fallback, use, uses>>
  PROVE  OrderInv'
<1> DEFINE i == hand[u]
           m == Message(i, "closed", 0, 0)
<1>1. hand' = [hand EXCEPT ![u] = NoStream] /\ Tell(u, i)
  BY Zenon DEF close
<1>2. m \in Messages /\ m \in Events /\ m.st = "closed"
  BY Zenon DEF Message, Messages, Events
<1>3. use \in [Users -> Nat] /\ uses \in Nat /\ sent \in Nat /\ Len(queue) \in Nat
  BY SMTT(30) DEF OrderInv, Wires, Flags
<1>4. Sends(m, sent, sent') /\ Follows(m, queue, sock, draining, fallback', overtaken')
  BY <1>2, <1>3 DEF Sends, Follows
<1>5. (Len(queue) < QueueCap) = ~(Len(queue) >= QueueCap)
  BY <1>3, SessionAssumption
<1> HIDE DEF i, m
<1>6. CASE Tells(i) /\ Len(queue) < QueueCap
  <2>1. /\ queue' = Append(queue, m) /\ sock' = sock /\ overtaken' = overtaken
        /\ pc' = [pc EXCEPT ![u] = "wake"]
    BY <1>1, <1>5, <1>6, Zenon DEF Tell, m
  <2> QED BY <1>1, <1>2, <1>4, <2>1, QueueMore, Zenon
<1>7. CASE Tells(i) /\ ~(Len(queue) < QueueCap)
  <2>1. /\ sock' = Append(sock, m) /\ queue' = queue /\ overtaken \subseteq overtaken'
        /\ pc' = [pc EXCEPT ![u] = "idle"]
    BY <1>1, <1>5, <1>7, Zenon DEF Tell, m
  <2>2. StillWaking
    BY <1>1, <2>1, Moves, Zenon
  <2> QED BY <1>2, <1>4, <2>1, <2>2, SockMore, Zenon
<1>8. CASE ~Tells(i)
  <2>1. sock' = sock /\ queue' = queue /\ overtaken' = overtaken /\ pc' = [pc EXCEPT ![u] = "idle"]
    BY <1>1, <1>8, Zenon DEF Tell
  <2>2. StillWaking
    BY <1>1, <2>1, Moves, Zenon
  <2> QED BY <1>3, <2>1, <2>2, WireSame, Zenon
<1> QED BY <1>6, <1>7, <1>8, Zenon

(* A Flush to the queue. *)
LEMMA FlushOrdered ==
  ASSUME IInv, OrderInv, NEW u \in Users, Flush(u) PROVE OrderInv'
<1> DEFINE m == Request(u)
<1>1. /\ pc[u] = "use" /\ pc' = [pc EXCEPT ![u] = "wake"] /\ hand[u] \notin fallback
      /\ queue' = Append(queue, m) /\ sent' = sent + 1
      /\ UNCHANGED <<working, sock, draining, order, fallback, overtaken, use, uses, hand>>
  BY Zenon DEF Flush, Goto, Asked, clientVars, serverVars, historyVars
<1>2. sent \in Nat /\ use[u] \in Nat /\ hand[u] \in Ids
  BY <1>1, Zenon DEF OrderInv, Wires, Flags, IInv, TypeOK, HandInv
<1>3. m \in Messages /\ m.st = "opened" /\ m.id = hand[u] /\ m.n = sent + 1
  BY <1>2 DEF Request, Message, Messages
<1>4. Sends(m, sent, sent')
  BY <1>1, <1>2, <1>3 DEF Sends
<1> HIDE DEF m
<1> QED BY <1>1, <1>3, <1>4, QueueMore, Zenon

(* A Flush to the socket: what the stream has in the queue is announced,    *)
(* unless another user has the event of the queue still to write.           *)
LEMMA FallbackOrdered ==
  ASSUME IInv, OrderInv, NEW u \in Users, FlushFallback(u) PROVE OrderInv'
<1> DEFINE m == Request(u)
<1>1. /\ pc[u] = "use" /\ pc' = [pc EXCEPT ![u] = "use"]
      /\ sock' = Append(sock, m) /\ sent' = sent + 1
      /\ fallback' = fallback \cup {hand[u]} /\ overtaken \subseteq overtaken'
      /\ EventUnsent(u) => hand[u] \in overtaken'
      /\ UNCHANGED <<working, queue, draining, order, use, uses, hand>>
  BY Zenon DEF FlushFallback, WriteFallback, Goto, Asked, serverVars
<1>2. sent \in Nat /\ use[u] \in Nat /\ hand[u] \in Ids
  BY <1>1, Zenon DEF OrderInv, Wires, Flags, IInv, TypeOK, HandInv
<1>3. m \in Messages /\ m \in Events /\ m.st = "opened" /\ m.id = hand[u] /\ m.n = sent + 1
  BY <1>2 DEF Request, Message, Messages, Events
<1>4. Sends(m, sent, sent')
  BY <1>1, <1>2, <1>3 DEF Sends
<1>5. StillWaking
  BY <1>1, Moves, Zenon
<1>6. ASSUME Has(queue, hand[u]), ~EventUnsent(u)
      PROVE  draining \/ Polled(sock)
  <2>1. PICK p \in 1..Len(queue) : queue[p].st = "opened" /\ queue[p].id = hand[u]
    BY <1>6, Zenon DEF Has
  <2>2. \A v \in Users : ~(hand[v] = hand[u] /\ pc[v] = "wake")
    BY <1>1, <1>2, Zenon DEF IInv, HandInv, Ids, NoStream
  <2>3. working
    BY <2>1, <2>2, Zenon DEF OrderInv, WakeInv
  <2>4. \A v \in Users : pc[v] # "poll"
    BY <1>1, <1>6, Zenon DEF EventUnsent
  <2> QED BY <2>3, <2>4, Zenon DEF OrderInv, WakeInv
<1>7. Follows(m, queue, sock, draining, fallback', overtaken')
  BY <1>1, <1>3, <1>6, Zenon DEF Follows
<1> HIDE DEF m
<1>8. fallback \subseteq fallback'
  BY <1>1, Zenon
<1> QED BY <1>1, <1>3, <1>4, <1>5, <1>7, <1>8, SockMore, Zenon

(* The flag is set, and its polling event written. *)
LEMMA WakeOrdered ==
  ASSUME IInv, OrderInv, NEW u \in Users, WakeUp(u) PROVE OrderInv'
<1>1. CASE MarkWorking(u)
  <2>1. /\ pc[u] = "wake" /\ working' = TRUE
        /\ pc' = [pc EXCEPT ![u] = IF working THEN After(u) ELSE "poll"]
        /\ UNCHANGED <<hand, use, uses, queue, sock, sent, draining, order, fallback, overtaken>>
    BY <1>1, Zenon DEF MarkWorking, Goto, clientVars, serverVars, historyVars
  <2>2. ~working => pc'[u] = "poll"
    BY <2>1, Zenon DEF IInv, TypeOK
  <2>3. ASSUME NEW v \in Users, pc[v] = "poll" PROVE pc'[v] = "poll"
    BY <2>1, <2>3, Zenon DEF IInv, TypeOK
  <2>4. WakeInv'
    BY <2>1, <2>2, <2>3, Zenon DEF OrderInv, WakeInv
  <2>5. Wires(queue, sock, sent, order)' /\ Flags'
    BY <2>1, Zenon DEF OrderInv, Flags
  <2>6. Ways(queue, sock, sent, fallback, draining, overtaken)'
    BY <2>1, Zenon DEF OrderInv
  <2>7. Handled(order, queue, sock, sent, overtaken)'
    BY <2>1, Zenon DEF OrderInv
  <2> QED BY <2>4, <2>5, <2>6, <2>7, Zenon DEF OrderInv
<1>2. CASE WritePolling(u)
  <2>1. /\ pc[u] = "poll" /\ sock' = Append(sock, Polling)
        /\ pc' = [pc EXCEPT ![u] = After(u)]
        /\ UNCHANGED <<hand, use, uses, queue, working, sent, draining, order, fallback, overtaken>>
    BY <1>2, Zenon DEF WritePolling, Goto, clientVars, serverVars, historyVars
  <2>2. /\ Wires(queue, sock, sent, order)
        /\ Ways(queue, sock, sent, fallback, draining, overtaken)
        /\ Handled(order, queue, sock, sent, overtaken)
    BY Zenon DEF OrderInv
  <2>3. Polling \in Events /\ Polling.st = "polling"
    BY Zenon DEF Events, Polling, Message
  <2>4. Sends(Polling, sent, sent) /\ Follows(Polling, queue, sock, draining, fallback, overtaken)
    BY <2>2, <2>3 DEF Sends, Follows, Wires
  <2>5. fallback \subseteq fallback /\ overtaken \subseteq overtaken
    BY Zenon
  <2>6. /\ Wires(queue, Append(sock, Polling), sent, order)
        /\ Ways(queue, Append(sock, Polling), sent, fallback, draining, overtaken)
        /\ Handled(order, queue, Append(sock, Polling), sent, overtaken)
    BY <2>2, <2>3, <2>4, <2>5, SockAppend, Zenon
  <2>7. Polled(sock')
    <3>1. sock' \in Seq(Events) /\ Len(sock') = Len(sock) + 1 /\ sock'[Len(sock) + 1] = Polling
      BY <2>1, <2>2, <2>3 DEF Wires
    <3>2. Len(sock) \in Nat
      BY <2>2 DEF Wires
    <3> QED BY <3>1, <3>2 DEF Polled
  <2>8. ASSUME NEW v \in Users, pc[v] = "wake" PROVE pc'[v] = "wake"
    BY <2>1, <2>8, Zenon DEF IInv, TypeOK
  <2>9. WakeInv'
    BY <2>1, <2>7, <2>8, Zenon DEF OrderInv, WakeInv
  <2>10. Flags'
    BY <2>1, Zenon DEF OrderInv, Flags
  <2> QED BY <2>1, <2>6, <2>9, <2>10, Zenon DEF OrderInv
<1> QED BY <1>1, <1>2, Zenon DEF WakeUp

(* The server's dispatcher reads an event. *)
LEMMA EventOrdered ==
  ASSUME OrderInv, HandleEvent PROVE OrderInv'
<1>1. /\ Wires(queue, sock, sent, order) /\ Flags
      /\ Ways(queue, sock, sent, fallback, draining, overtaken)
      /\ Handled(order, queue, sock, sent, overtaken)
  BY Zenon DEF OrderInv
<1>2. /\ ~draining /\ NonEmpty(sock) /\ sock' = Tail(sock)
      /\ UNCHANGED <<sent, fallback, overtaken, pc, hand, use, uses, queue, working>>
  BY Zenon DEF HandleEvent, NonEmpty, clientVars, userVars, historyVars
<1>3. draining = FALSE
  BY <1>1, <1>2, Zenon DEF Flags
<1>4. CASE Head(sock) = Polling
  <2>1. draining' = TRUE /\ order' = order
    BY <1>4, Zenon DEF HandleEvent
  <2>2. /\ Wires(queue, Tail(sock), sent, order)
        /\ Ways(queue, Tail(sock), sent, fallback, TRUE, overtaken)
        /\ Handled(order, queue, Tail(sock), sent, overtaken)
    BY <1>1, <1>2, SockPoll, Zenon
  <2>3. WakeInv'
    BY <1>2, <2>1, Zenon DEF OrderInv, WakeInv
  <2>4. Flags'
    BY <1>1, <1>2, <2>1, Zenon DEF Flags
  <2> QED BY <1>2, <2>1, <2>2, <2>3, <2>4, Zenon DEF OrderInv
<1>5. CASE Head(sock) # Polling
  <2>1. draining' = FALSE /\ order' = Noted(order, Head(sock))
    BY <1>3, <1>5, Zenon DEF HandleEvent, Handle, Noted
  <2>2. /\ Wires(queue, Tail(sock), sent, Noted(order, Head(sock)))
        /\ Ways(queue, Tail(sock), sent, fallback, FALSE, overtaken)
        /\ Handled(Noted(order, Head(sock)), queue, Tail(sock), sent, overtaken)
    <3>1. FirstIsMessage(sock)
      BY <1>5, Zenon DEF FirstIsMessage
    <3>2. Ways(queue, sock, sent, fallback, FALSE, overtaken)
      BY <1>1, <1>3, Zenon
    <3> QED BY <1>1, <1>2, <3>1, <3>2, SockTail, Zenon
  <2>3. Polled(sock) => Polled(sock')
    <3>1. Less(sock, sock', Head(sock))
      BY <1>1, <1>2, TailAt, Zenon DEF Wires, NonEmpty
    <3>2. ASSUME NEW p \in 1..Len(sock), sock[p] = Polling PROVE Polled(sock')
      BY <1>5, <3>1, <3>2, Zenon DEF Less, Polled
    <3> QED BY <3>2, Zenon DEF Polled
  <2>4. WakeInv'
    BY <1>2, <1>3, <2>1, <2>3, Zenon DEF OrderInv, WakeInv
  <2>5. Flags'
    BY <1>1, <1>2, <2>1, Zenon DEF Flags
  <2> QED BY <1>2, <2>1, <2>2, <2>4, <2>5, Zenon DEF OrderInv
<1> QED BY <1>4, <1>5, Zenon

(* The server's dispatcher takes an element of the queue, or leaves it. *)
LEMMA PollingOrdered ==
  ASSUME OrderInv, handlePolling PROVE OrderInv'
<1>1. /\ Wires(queue, sock, sent, order) /\ Flags
      /\ Ways(queue, sock, sent, fallback, draining, overtaken)
      /\ Handled(order, queue, sock, sent, overtaken)
  BY Zenon DEF OrderInv
<1>2. draining /\ UNCHANGED <<sent, fallback, overtaken, pc, hand, use, uses, sock>>
  BY Zenon DEF handlePolling, clientVars, userVars, historyVars
<1>3. draining = TRUE
  BY <1>1, <1>2, Zenon DEF Flags
<1>4. CASE queue # <<>>
  <2>1. /\ queue' = Tail(queue) /\ working' = working /\ draining' = TRUE
        /\ order' = Noted(order, Head(queue))
    BY <1>3, <1>4, Zenon DEF handlePolling, Handle, Noted
  <2>2. /\ Wires(Tail(queue), sock, sent, Noted(order, Head(queue)))
        /\ Ways(Tail(queue), sock, sent, fallback, TRUE, overtaken)
        /\ Handled(Noted(order, Head(queue)), Tail(queue), sock, sent, overtaken)
    <3>1. NonEmpty(queue)
      BY <1>4, Zenon DEF NonEmpty
    <3>2. Ways(queue, sock, sent, fallback, TRUE, overtaken)
      BY <1>1, <1>3, Zenon
    <3> QED BY <1>1, <3>1, <3>2, QueueTail, Zenon
  <2>3. \A p \in 1..Len(queue') : p + 1 \in 1..Len(queue) /\ queue'[p] = queue[p+1]
    BY <1>1, <1>4, <2>1, TailAt, Zenon DEF Wires, Less
  <2>4. WakeInv'
    BY <1>2, <2>1, <2>3 DEF OrderInv, WakeInv
  <2>5. Flags'
    BY <1>1, <1>2, <2>1, Zenon DEF Flags
  <2> QED BY <1>2, <2>1, <2>2, <2>4, <2>5, Zenon DEF OrderInv
<1>5. CASE queue = <<>>
  <2>1. working' = FALSE /\ draining' = FALSE /\ UNCHANGED <<queue, order>>
    BY <1>5, Zenon DEF handlePolling
  <2>2. Len(queue) = 0
    BY <1>5, Zenon
  <2>3. \A i : ~Has(queue, i)
    BY <2>2 DEF Has
  <2>4. Ways(queue, sock, sent, fallback, FALSE, overtaken)
    BY <1>1, <2>3, Zenon DEF Ways, Told
  <2>5. WakeInv'
    BY <2>1, <2>2 DEF WakeInv
  <2>6. Flags'
    BY <1>1, <1>2, <2>1, Zenon DEF Flags
  <2> QED BY <1>1, <1>2, <2>1, <2>4, <2>5, <2>6, Zenon DEF OrderInv
<1> QED BY <1>4, <1>5, Zenon

(* Every step keeps the ways to the server in order. *)
LEMMA OrderPreserved == IInv /\ OrderInv /\ [Next]_vars => OrderInv'
<1> SUFFICES ASSUME IInv, OrderInv, [Next]_vars PROVE OrderInv'
  BY Zenon
<1>0. use \in [Users -> Nat] /\ uses \in Nat
  BY Zenon DEF OrderInv, Flags
<1>1. ASSUME NEW u \in Users, GetStream(u) \/ OpenStream(u) PROVE OrderInv'
  <2>1. PICK to : pc' = [pc EXCEPT ![u] = to] /\ pc[u] # "wake" /\ pc[u] # "poll"
    BY <1>1, Zenon DEF GetStream, OpenStream, Goto
  <2>2. UNCHANGED <<queue, working, sock, sent, draining, order, fallback, overtaken, hand, use, uses>>
    BY <1>1, Zenon DEF GetStream, OpenStream, clientVars, wireVars, serverVars, historyVars
  <2>3. StillWaking
    BY <2>1, <2>2, Moves, Zenon
  <2> QED BY <1>0, <2>2, <2>3, WireSame, Zenon
<1>2. ASSUME NEW u \in Users, PopStream(u) \/ Insert(u) PROVE OrderInv'
  <2>1. PICK to : pc' = [pc EXCEPT ![u] = to] /\ pc[u] # "wake" /\ pc[u] # "poll"
    BY <1>2, Zenon DEF PopStream, Insert, Goto
  <2>2. UNCHANGED <<queue, working, sock, sent, draining, order, fallback, overtaken>>
    BY <1>2, Zenon DEF PopStream, Insert, wireVars, serverVars, historyVars
  <2>3. \/ UNCHANGED <<hand, use, uses>>
        \/ \E i : hand' = [hand EXCEPT ![u] = i] /\ uses' = uses + 1
                  /\ use' = [use EXCEPT ![u] = uses + 1]
    BY <1>2, Zenon DEF PopStream, Insert, Obtained
  <2>4. CASE UNCHANGED <<hand, use, uses>>
    BY <1>0, <2>1, <2>2, <2>4, Moves, WireSame, Zenon
  <2>5. CASE \E i : hand' = [hand EXCEPT ![u] = i] /\ uses' = uses + 1
                    /\ use' = [use EXCEPT ![u] = uses + 1]
    <3>1. PICK i : hand' = [hand EXCEPT ![u] = i]
      BY <2>5, Zenon
    <3>2. uses' \in Nat /\ use' \in [Users -> Nat]
      BY <1>0, <2>5
    <3>3. StillWaking
      BY <2>1, <3>1, Moves, Zenon
    <3> QED BY <2>2, <3>2, <3>3, WireSame, Zenon
  <2> QED BY <2>3, <2>4, <2>5, Zenon
<1>3. ASSUME NEW u \in Users, PutBack(u) PROVE OrderInv'
  <2>1. /\ pc[u] = "use" /\ hand[u] \in Ids
        /\ UNCHANGED <<working, sent, draining, order, fallback, use, uses>>
    BY <1>3, Zenon DEF PutBack, serverVars, IInv, TypeOK, HandInv
  <2>2. CASE resets(hand[u])
    <3>1. pc' = [pc EXCEPT ![u] = "push"] /\ UNCHANGED <<hand, queue, sock, overtaken>>
      BY <1>3, <2>2, Zenon DEF PutBack, Goto
    <3>2. StillWaking
      BY <2>1, <3>1, Moves, Zenon
    <3> QED BY <1>0, <2>1, <3>1, <3>2, WireSame, Zenon
  <2>3. CASE ~resets(hand[u])
    <3>1. close(u, hand[u])
      BY <1>3, <2>3, Zenon DEF PutBack
    <3> QED BY <2>1, <3>1, CloseTells, Zenon
  <2> QED BY <2>2, <2>3, Zenon
<1>4. ASSUME NEW u \in Users, PushOrClose(u) PROVE OrderInv'
  <2>1. /\ pc[u] = "push" /\ hand[u] \in Ids
        /\ UNCHANGED <<working, sent, draining, order, fallback, use, uses>>
    BY <1>4, Zenon DEF PushOrClose, serverVars, IInv, TypeOK, HandInv
  <2>2. CASE Room
    <3>1. pc' = [pc EXCEPT ![u] = "idle"] /\ hand' = [hand EXCEPT ![u] = NoStream]
          /\ UNCHANGED <<queue, sock, overtaken>>
      BY <1>4, <2>2, Zenon DEF PushOrClose, Goto
    <3>2. StillWaking
      BY <2>1, <3>1, Moves, Zenon
    <3> QED BY <1>0, <2>1, <3>1, <3>2, WireSame, Zenon
  <2>3. CASE ~Room
    <3>1. close(u, hand[u])
      BY <1>4, <2>3, Zenon DEF PushOrClose
    <3> QED BY <2>1, <3>1, CloseTells, Zenon
  <2> QED BY <2>2, <2>3, Zenon
<1>5. ASSUME \/ Recover \/ Close \/ ClosePosted \/ ClientHandles \/ UNCHANGED vars
             \/ \E i \in Ids : Answer(i) \/ ServerCloses(i)
             \/ \E u \in Users : ReadAnswer(u)
      PROVE  OrderInv'
  <2>1. UNCHANGED <<queue, working, sock, sent, draining, order, fallback, overtaken, hand, pc,
                    use, uses>>
    BY <1>5, Zenon DEF Recover, Close, ClosePosted, ClientHandles, Answer, ServerCloses, ReadAnswer, vars,
                clientVars, userVars, wireVars, serverVars, historyVars
  <2>2. StillWaking
    BY <2>1, Zenon DEF StillWaking
  <2> QED BY <1>0, <2>1, <2>2, WireSame, Zenon
<1> QED
  BY <1>1, <1>2, <1>3, <1>4, <1>5, FlushOrdered, FallbackOrdered, WakeOrdered,
     EventOrdered, PollingOrdered, Zenon
     DEF Next, UserStep, Dispatch

(* Nothing is on its way at first. *)
LEMMA InitOrder == Init => OrderInv
<1> SUFFICES ASSUME Init PROVE OrderInv
  BY Zenon
<1>1. /\ queue = <<>> /\ sock = <<>> /\ sent = 0 /\ working = FALSE /\ draining = FALSE
      /\ order = [i \in Ids |-> <<>>] /\ use = [u \in Users |-> 0] /\ uses = 0
  BY Zenon DEF Init
<1>2. Len(queue) = 0 /\ Len(sock) = 0 /\ \A i \in Ids : Len(order[i]) = 0
  BY <1>1, Zenon
<1>3. Wires(queue, sock, sent, order) /\ Flags
  <2>1. \A S : <<>> \in Seq(S)
    OBVIOUS
  <2>2. order \in [Ids -> Seq(Nat)]
    BY <1>1, <2>1, Zenon
  <2>3. queue \in Seq(Messages) /\ sock \in Seq(Events)
    BY <1>1, <2>1, Zenon
  <2> QED BY <1>1, <2>2, <2>3, Zenon DEF Wires, Flags
<1>4. WakeInv
  BY <1>1, <1>2, SMTT(30) DEF WakeInv
<1>5. Ways(queue, sock, sent, fallback, draining, overtaken)
  BY <1>2 DEF Ways, Under, Rising, Within, Ahead, Told, Has
<1>6. ASSUME NEW i \in Ids PROVE Done(order[i], queue, sock, sent, i)
  <2>1. Sorted(order[i])
    BY <1>2, SMTT(30) DEF Sorted
  <2>2. Bounded(order[i], sent) /\ Behind(order[i], queue, i) /\ Behind(order[i], sock, i)
    BY <1>2 DEF Bounded, Behind
  <2> QED BY <2>1, <2>2, Zenon DEF Done
<1>7. Handled(order, queue, sock, sent, overtaken)
  BY <1>6, Zenon DEF Handled
<1> QED BY <1>3, <1>4, <1>5, <1>7, Zenon DEF OrderInv

(* The server handles the requests of a stream in the order of their        *)
(* flushes, for any number of users and streams and any length of the IO    *)
(* queue, also across the change to the socket, unless the stream wrote to  *)
(* the socket while the polling event of the queue was set and not written. *)
THEOREM HandledInOrder == Spec => []InOrder
<1>1. OrderInv => InOrder
  BY Zenon DEF OrderInv, Handled, Done, Sorted, InOrder
<1> QED BY <1>1, Inductive, InitOrder, OrderPreserved, PTL DEF Spec

-----------------------------------------------------------------------------
(* Answers.  A message of stream i is a request or an answer to one; they   *)
(* are counted, because an answer no longer says which request it is for.   *)
Of(m, i) == m.st = "opened" /\ m.id = i
Count(q, i) == Cardinality({p \in 1..Len(q) : Of(q[p], i)})
Uses(q, i, w) == \A p \in 1..Len(q) : Of(q[p], i) => q[p].use = w

(* What is under way for stream i, in the queue q, on the socket s, in the  *)
(* server's inbox x, on the way back b and unread at the client r; and that *)
(* all of it belongs to the use w of the stream.                            *)
Flow(q, s, x, b, r, i) == Count(q, i) + Count(s, i) + Len(x) + Count(b, i) + Len(r)
Own(q, s, x, b, r, i, w) == /\ Uses(q, i, w) /\ Uses(s, i, w) /\ Uses(b, i, w)
                            /\ \A p \in 1..Len(x) : x[p].use = w
                            /\ \A p \in 1..Len(r) : r[p] = w

UnderWay(i) == Flow(queue, sock, inbox[i], back, unread[i], i)
OfUse(i, w) == Own(queue, sock, inbox[i], back, unread[i], i, w)

(* A stream in the pool, on its way there, or not opened yet. *)
Free(i) == i \in Pooled \/ i > nextId \/ \E u \in Users : pc[u] = "push" /\ hand[u] = i
Busy(u, i) == hand[u] = i /\ pc[u] # "push"

AnswerTypes == /\ inbox \in [Ids -> Seq(Messages)] /\ back \in Seq(Messages)
               /\ unread \in [Ids -> Seq(Nat)] /\ owed \in [Users -> Int]

(* Nothing is under way for a stream that is free, and for one that is with *)
(* a user not more than the user is owed, all of it of the user's own use.  *)
AnswersOf(i) == /\ Free(i) => UnderWay(i) = 0
                /\ \A u \in Users : Busy(u, i) => UnderWay(i) <= owed[u] /\ OfUse(i, use[u])

AnswerInv == /\ AnswerTypes /\ misread \subseteq abandoned
             /\ \A i \in Ids \ abandoned : AnswersOf(i)

(* What counting comes to, proved below with the theorems on finite sets. *)
CountsNat == /\ \A i : Count(<<>>, i) = 0
             /\ \A q, i : Len(q) \in Nat =>
                  Count(q, i) \in Nat /\ (Count(q, i) = 0 => \A w : Uses(q, i, w))
CountsMore == \A q, r, m, i : More(q, r, m) =>
                  /\ Count(q, i) \in Nat /\ Count(r, i) \in Nat
                  /\ Of(m, i) => Count(r, i) = Count(q, i) + 1
                  /\ ~Of(m, i) => Count(r, i) = Count(q, i)
CountsLess == \A q, r, m, i : Less(q, r, m) =>
                  /\ Count(q, i) \in Nat /\ Count(r, i) \in Nat
                  /\ Of(m, i) => Count(q, i) = Count(r, i) + 1
                  /\ ~Of(m, i) => Count(q, i) = Count(r, i)
Counting == CountsNat /\ CountsMore /\ CountsLess

(* It is of the use that the others are of if it is one of the stream's. *)
LEMMA UsesMore ==
  ASSUME NEW q, NEW r, NEW m, More(q, r, m), NEW i, NEW w, Uses(q, i, w), Of(m, i) => m.use = w
  PROVE  Uses(r, i, w)
  BY Zenon DEF Uses, More

(* What is left is of the same use, and so is what was taken. *)
LEMMA UsesLess ==
  ASSUME NEW q, NEW r, NEW m, Less(q, r, m), NEW i, NEW w, Uses(q, i, w)
  PROVE  Uses(r, i, w) /\ (Of(m, i) => m.use = w)
  BY DEF Uses, Less

-----------------------------------------------------------------------------
(* A way on which nothing has changed for stream i. *)
Silent(q, r, i) == Count(r, i) = Count(q, i) /\ \A w : Uses(q, i, w) => Uses(r, i, w)

(* The lengths of what is under way. *)
Sized(q, s, x, b, r) == /\ Len(q) \in Nat /\ Len(s) \in Nat /\ Len(b) \in Nat
                           /\ Len(x) \in Nat /\ Len(r) \in Nat

(* Nothing new is under way for stream i. *)
Sinks(q, s, x, b, r, q2, s2, x2, b2, r2, i) ==
    /\ Flow(q2, s2, x2, b2, r2, i) \in Nat
    /\ Flow(q2, s2, x2, b2, r2, i) <= Flow(q, s, x, b, r, i)
    /\ \A w : Own(q, s, x, b, r, i, w) => Own(q2, s2, x2, b2, r2, i, w)

(* The lengths count. *)
LEMMA Sizes ==
  ASSUME Counting, NEW q, NEW s, NEW x, NEW b, NEW r, NEW i, Sized(q, s, x, b, r)
  PROVE  /\ Count(q, i) \in Nat /\ Count(s, i) \in Nat /\ Count(b, i) \in Nat
         /\ Len(x) \in Nat /\ Len(r) \in Nat
  BY Zenon DEF Sized, Counting, CountsNat

(* What is under way is a number. *)
LEMMA FlowNat ==
  ASSUME Counting, NEW q, NEW s, NEW x, NEW b, NEW r, NEW i, Sized(q, s, x, b, r)
  PROVE  Flow(q, s, x, b, r, i) \in Nat
<1>1. /\ Count(q, i) \in Nat /\ Count(s, i) \in Nat /\ Count(b, i) \in Nat
      /\ Len(x) \in Nat /\ Len(r) \in Nat
  BY Sizes, Zenon
<1> QED BY <1>1 DEF Flow

(* A message of another stream, or none, that comes or goes. *)
LEMMA SilentWay ==
  ASSUME Counting, NEW q, NEW r, NEW i, NEW m, r = q \/ (~Of(m, i) /\ (More(q, r, m) \/ Less(q, r, m)))
  PROVE  Silent(q, r, i)
<1>1. CASE r = q
  BY <1>1, Zenon DEF Silent
<1>2. CASE ~Of(m, i) /\ More(q, r, m)
  <2>1. Count(r, i) = Count(q, i)
    BY <1>2 DEF Counting, CountsMore
  <2> QED BY <1>2, <2>1, UsesMore, Zenon DEF Silent
<1>3. CASE ~Of(m, i) /\ Less(q, r, m)
  <2>1. Count(r, i) = Count(q, i)
    BY <1>3 DEF Counting, CountsLess
  <2> QED BY <1>3, <2>1, UsesLess, Zenon DEF Silent
<1> QED BY <1>1, <1>2, <1>3, Zenon

(* A step that does nothing for stream i, or releases what it has. *)
LEMMA Quiet ==
  ASSUME Counting, NEW q, NEW s, NEW x, NEW b, NEW r, NEW q2, NEW s2, NEW x2, NEW b2, NEW r2, NEW i,
         Sized(q, s, x, b, r),
         Silent(q, q2, i), Silent(s, s2, i), Silent(b, b2, i),
         x2 = x \/ x2 = <<>>, r2 = r \/ r2 = <<>>
  PROVE  Sinks(q, s, x, b, r, q2, s2, x2, b2, r2, i)
<1>0. /\ Count(q, i) \in Nat /\ Count(s, i) \in Nat /\ Count(b, i) \in Nat
      /\ Len(x) \in Nat /\ Len(r) \in Nat
  BY Sizes, Zenon
<1>1. /\ Len(x2) \in Nat /\ Len(x2) <= Len(x)
      /\ Len(r2) \in Nat /\ Len(r2) <= Len(r)
      /\ Len(<<>>) = 0
  BY <1>0
<1>2. Flow(q2, s2, x2, b2, r2, i) \in Nat /\ Flow(q2, s2, x2, b2, r2, i) <= Flow(q, s, x, b, r, i)
  BY <1>0, <1>1, SMTT(30) DEF Flow, Silent
<1>3. ASSUME NEW w, Own(q, s, x, b, r, i, w) PROVE Own(q2, s2, x2, b2, r2, i, w)
  <2>1. Uses(q2, i, w) /\ Uses(s2, i, w) /\ Uses(b2, i, w)
    BY <1>3, Zenon DEF Own, Silent
  <2>2. \A p \in 1..Len(x2) : x2[p].use = w
    BY <1>1, <1>3 DEF Own
  <2>3. \A p \in 1..Len(r2) : r2[p] = w
    BY <1>1, <1>3 DEF Own
  <2> QED BY <2>1, <2>2, <2>3, Zenon DEF Own
<1> QED BY <1>2, <1>3, Zenon DEF Sinks

(* The server takes a request of the stream from the queue. *)
LEMMA QueueToInbox ==
  ASSUME Counting, NEW q, NEW s, NEW x, NEW b, NEW r, NEW q2, NEW s2, NEW x2, NEW b2, NEW r2, NEW i,
         Sized(q, s, x, b, r), NEW m, Of(m, i),
         Less(q, q2, m), More(x, x2, m),
         s2 = s, b2 = b, r2 = r
  PROVE  Sinks(q, s, x, b, r, q2, s2, x2, b2, r2, i)
<1>0. /\ Count(q, i) \in Nat /\ Count(s, i) \in Nat /\ Count(b, i) \in Nat
      /\ Len(x) \in Nat /\ Len(r) \in Nat
  BY Sizes, Zenon
<1>1. Count(q, i) = Count(q2, i) + 1 /\ Count(q2, i) \in Nat
  BY DEF Counting, CountsLess
<1>2. Flow(q2, s2, x2, b2, r2, i) \in Nat /\ Flow(q2, s2, x2, b2, r2, i) <= Flow(q, s, x, b, r, i)
  <2>1. Len(x2) = Len(x) + 1
    BY Zenon DEF More
  <2>2. Flow(q2, s2, x2, b2, r2, i) = Count(q2, i) + Count(s, i) + (Len(x) + 1) + Count(b, i) + Len(r)
    BY <2>1, Zenon DEF Flow
  <2>3. Flow(q, s, x, b, r, i) = Count(q, i) + Count(s, i) + Len(x) + Count(b, i) + Len(r)
    BY Zenon DEF Flow
  <2> QED BY ONLY <1>0, <1>1, <2>2, <2>3, SMTT(30)
<1>3. ASSUME NEW w, Own(q, s, x, b, r, i, w) PROVE Own(q2, s2, x2, b2, r2, i, w)
  <2>1. Uses(q2, i, w) /\ m.use = w
    BY <1>3, UsesLess, Zenon DEF Own
  <2>2. \A p \in 1..Len(x2) : x2[p].use = w
    BY <1>3, <2>1, Zenon DEF Own, More
  <2> QED BY <1>3, <2>1, <2>2, Zenon DEF Own
<1> QED BY <1>2, <1>3, Zenon DEF Sinks

(* The server takes a request of the stream from the socket. *)
LEMMA SockToInbox ==
  ASSUME Counting, NEW q, NEW s, NEW x, NEW b, NEW r, NEW q2, NEW s2, NEW x2, NEW b2, NEW r2, NEW i,
         Sized(q, s, x, b, r), NEW m, Of(m, i),
         Less(s, s2, m), More(x, x2, m),
         q2 = q, b2 = b, r2 = r
  PROVE  Sinks(q, s, x, b, r, q2, s2, x2, b2, r2, i)
<1>0. /\ Count(q, i) \in Nat /\ Count(s, i) \in Nat /\ Count(b, i) \in Nat
      /\ Len(x) \in Nat /\ Len(r) \in Nat
  BY Sizes, Zenon
<1>1. Count(s, i) = Count(s2, i) + 1 /\ Count(s2, i) \in Nat
  BY DEF Counting, CountsLess
<1>2. Flow(q2, s2, x2, b2, r2, i) \in Nat /\ Flow(q2, s2, x2, b2, r2, i) <= Flow(q, s, x, b, r, i)
  <2>1. Len(x2) = Len(x) + 1
    BY Zenon DEF More
  <2>2. Flow(q2, s2, x2, b2, r2, i) = Count(q, i) + Count(s2, i) + (Len(x) + 1) + Count(b, i) + Len(r)
    BY <2>1, Zenon DEF Flow
  <2>3. Flow(q, s, x, b, r, i) = Count(q, i) + Count(s, i) + Len(x) + Count(b, i) + Len(r)
    BY Zenon DEF Flow
  <2> QED BY ONLY <1>0, <1>1, <2>2, <2>3, SMTT(30)
<1>3. ASSUME NEW w, Own(q, s, x, b, r, i, w) PROVE Own(q2, s2, x2, b2, r2, i, w)
  <2>1. Uses(s2, i, w) /\ m.use = w
    BY <1>3, UsesLess, Zenon DEF Own
  <2>2. \A p \in 1..Len(x2) : x2[p].use = w
    BY <1>3, <2>1, Zenon DEF Own, More
  <2> QED BY <1>3, <2>1, <2>2, Zenon DEF Own
<1> QED BY <1>2, <1>3, Zenon DEF Sinks

(* The server answers the first request of the stream, or drops it. *)
LEMMA InboxToBack ==
  ASSUME Counting, NEW q, NEW s, NEW x, NEW b, NEW r, NEW q2, NEW s2, NEW x2, NEW b2, NEW r2, NEW i,
         Sized(q, s, x, b, r), NEW m, NEW a,
         Less(x, x2, m), a.use = m.use, b2 = b \/ More(b, b2, a),
         q2 = q, s2 = s, r2 = r
  PROVE  Sinks(q, s, x, b, r, q2, s2, x2, b2, r2, i)
<1>0. /\ Count(q, i) \in Nat /\ Count(s, i) \in Nat /\ Count(b, i) \in Nat
      /\ Len(x) \in Nat /\ Len(r) \in Nat
  BY Sizes, Zenon
<1>1. Count(b2, i) \in Nat /\ Count(b2, i) <= Count(b, i) + 1
  BY <1>0 DEF Counting, CountsMore
<1>2. Len(x2) \in Nat /\ Len(x2) + 1 = Len(x)
  BY DEF Less
<1>3. Flow(q2, s2, x2, b2, r2, i) \in Nat /\ Flow(q2, s2, x2, b2, r2, i) <= Flow(q, s, x, b, r, i)
  <2>1. Flow(q2, s2, x2, b2, r2, i) = Count(q, i) + Count(s, i) + Len(x2) + Count(b2, i) + Len(r)
    BY Zenon DEF Flow
  <2>2. Flow(q, s, x, b, r, i) = Count(q, i) + Count(s, i) + (Len(x2) + 1) + Count(b, i) + Len(r)
    BY <1>2, Zenon DEF Flow
  <2> QED BY ONLY <1>0, <1>1, <1>2, <2>1, <2>2, SMTT(30)
<1>4. ASSUME NEW w, Own(q, s, x, b, r, i, w) PROVE Own(q2, s2, x2, b2, r2, i, w)
  <2>1. m.use = w /\ \A p \in 1..Len(x2) : x2[p].use = w
    BY <1>4 DEF Own, Less
  <2>2. Uses(b2, i, w)
    BY <1>4, <2>1, UsesMore, Zenon DEF Own
  <2> QED BY <1>4, <2>1, <2>2, Zenon DEF Own
<1> QED BY <1>3, <1>4, Zenon DEF Sinks

(* The client takes an answer of the stream, or drops it. *)
LEMMA BackToUnread ==
  ASSUME Counting, NEW q, NEW s, NEW x, NEW b, NEW r, NEW q2, NEW s2, NEW x2, NEW b2, NEW r2, NEW i,
         Sized(q, s, x, b, r), NEW m, Of(m, i),
         Less(b, b2, m), r2 = r \/ More(r, r2, m.use),
         q2 = q, s2 = s, x2 = x
  PROVE  Sinks(q, s, x, b, r, q2, s2, x2, b2, r2, i)
<1>0. /\ Count(q, i) \in Nat /\ Count(s, i) \in Nat /\ Count(b, i) \in Nat
      /\ Len(x) \in Nat /\ Len(r) \in Nat
  BY Sizes, Zenon
<1>1. Count(b, i) = Count(b2, i) + 1 /\ Count(b2, i) \in Nat
  BY DEF Counting, CountsLess
<1>2. Flow(q2, s2, x2, b2, r2, i) \in Nat /\ Flow(q2, s2, x2, b2, r2, i) <= Flow(q, s, x, b, r, i)
  BY <1>0, <1>1, SMTT(30) DEF Flow, More
<1>3. ASSUME NEW w, Own(q, s, x, b, r, i, w) PROVE Own(q2, s2, x2, b2, r2, i, w)
  <2>1. Uses(b2, i, w) /\ m.use = w
    BY <1>3, UsesLess, Zenon DEF Own
  <2>2. \A p \in 1..Len(r2) : r2[p] = w
    <3>1. CASE r2 = r
      BY <1>3, <3>1, Zenon DEF Own
    <3>2. CASE More(r, r2, m.use)
      BY <1>3, <2>1, <3>2 DEF Own, More
    <3> QED BY <3>1, <3>2, Zenon
  <2> QED BY <1>3, <2>1, <2>2, Zenon DEF Own
<1> QED BY <1>2, <1>3, Zenon DEF Sinks

(* Nothing under way is of any use. *)
LEMMA NothingIsOwn ==
  ASSUME Counting, NEW q, NEW s, NEW x, NEW b, NEW r, NEW i,
         Sized(q, s, x, b, r), Flow(q, s, x, b, r, i) = 0
  PROVE  \A w : Own(q, s, x, b, r, i, w)
<1>0. /\ Count(q, i) \in Nat /\ Count(s, i) \in Nat /\ Count(b, i) \in Nat
      /\ Len(x) \in Nat /\ Len(r) \in Nat
  BY Sizes, Zenon
<1>1. /\ Count(q, i) = 0 /\ Count(s, i) = 0 /\ Count(b, i) = 0
      /\ Len(x) = 0 /\ Len(r) = 0
  BY <1>0 DEF Flow
<1>2. ASSUME NEW y, Len(y) \in Nat, Count(y, i) = 0 PROVE \A w : Uses(y, i, w)
  BY <1>2, Zenon DEF Counting, CountsNat
<1>3. Len(q) \in Nat /\ Len(s) \in Nat /\ Len(b) \in Nat
  BY DEF Sized
<1>4. \A w : Uses(q, i, w) /\ Uses(s, i, w) /\ Uses(b, i, w)
  BY <1>1, <1>2, <1>3, Zenon
<1>5. \A p \in 1..0 : FALSE
  OBVIOUS
<1> QED BY <1>1, <1>4, <1>5, Zenon DEF Own

(* A request of the stream goes to the queue. *)
LEMMA SentByQueue ==
  ASSUME Counting, NEW q, NEW s, NEW x, NEW b, NEW r, NEW q2, NEW i, Sized(q, s, x, b, r),
         NEW m, Of(m, i), More(q, q2, m)
  PROVE  /\ Flow(q2, s, x, b, r, i) = Flow(q, s, x, b, r, i) + 1
         /\ Own(q, s, x, b, r, i, m.use) => Own(q2, s, x, b, r, i, m.use)
<1>0. /\ Count(q, i) \in Nat /\ Count(s, i) \in Nat /\ Count(b, i) \in Nat
      /\ Len(x) \in Nat /\ Len(r) \in Nat
  BY Sizes, Zenon
<1>1. Count(q2, i) = Count(q, i) + 1
  BY DEF Counting, CountsMore
<1>2. Flow(q2, s, x, b, r, i) = (Count(q, i) + 1) + Count(s, i) + Len(x) + Count(b, i) + Len(r)
  BY <1>1, Zenon DEF Flow
<1>3. Flow(q, s, x, b, r, i) = Count(q, i) + Count(s, i) + Len(x) + Count(b, i) + Len(r)
  BY Zenon DEF Flow
<1>4. Flow(q2, s, x, b, r, i) = Flow(q, s, x, b, r, i) + 1
  BY ONLY <1>0, <1>2, <1>3
<1> QED BY <1>4, UsesMore, Zenon DEF Own

(* A request of the stream goes to the socket. *)
LEMMA SentBySock ==
  ASSUME Counting, NEW q, NEW s, NEW x, NEW b, NEW r, NEW s2, NEW i, Sized(q, s, x, b, r),
         NEW m, Of(m, i), More(s, s2, m)
  PROVE  /\ Flow(q, s2, x, b, r, i) = Flow(q, s, x, b, r, i) + 1
         /\ Own(q, s, x, b, r, i, m.use) => Own(q, s2, x, b, r, i, m.use)
<1>0. /\ Count(q, i) \in Nat /\ Count(s, i) \in Nat /\ Count(b, i) \in Nat
      /\ Len(x) \in Nat /\ Len(r) \in Nat
  BY Sizes, Zenon
<1>1. Count(s2, i) = Count(s, i) + 1
  BY DEF Counting, CountsMore
<1>2. Flow(q, s2, x, b, r, i) = Count(q, i) + (Count(s, i) + 1) + Len(x) + Count(b, i) + Len(r)
  BY <1>1, Zenon DEF Flow
<1>3. Flow(q, s, x, b, r, i) = Count(q, i) + Count(s, i) + Len(x) + Count(b, i) + Len(r)
  BY Zenon DEF Flow
<1>4. Flow(q, s2, x, b, r, i) = Flow(q, s, x, b, r, i) + 1
  BY ONLY <1>0, <1>2, <1>3
<1> QED BY <1>4, UsesMore, Zenon DEF Own

(* The user reads an answer. *)
LEMMA TakesAnswer ==
  ASSUME Counting, NEW q, NEW s, NEW x, NEW b, NEW r, NEW r2, NEW i, Sized(q, s, x, b, r),
         NEW k, Less(r, r2, k)
  PROVE  /\ Flow(q, s, x, b, r, i) = Flow(q, s, x, b, r2, i) + 1
         /\ Flow(q, s, x, b, r2, i) \in Nat
         /\ \A w : Own(q, s, x, b, r, i, w) => Own(q, s, x, b, r2, i, w) /\ k = w
<1>0. /\ Count(q, i) \in Nat /\ Count(s, i) \in Nat /\ Count(b, i) \in Nat
      /\ Len(x) \in Nat /\ Len(r) \in Nat
  BY Sizes, Zenon
<1>1. Len(r2) \in Nat /\ Len(r) = Len(r2) + 1
  BY DEF Less
<1>2. Flow(q, s, x, b, r, i) = Count(q, i) + Count(s, i) + Len(x) + Count(b, i) + (Len(r2) + 1)
  BY <1>1, Zenon DEF Flow
<1>3. Flow(q, s, x, b, r2, i) = Count(q, i) + Count(s, i) + Len(x) + Count(b, i) + Len(r2)
  BY Zenon DEF Flow
<1>4. /\ Flow(q, s, x, b, r, i) = Flow(q, s, x, b, r2, i) + 1
      /\ Flow(q, s, x, b, r2, i) \in Nat
  BY ONLY <1>0, <1>1, <1>2, <1>3, SMTT(30)
<1>5. ASSUME NEW w, \A p \in 1..Len(r) : r[p] = w PROVE k = w /\ \A p \in 1..Len(r2) : r2[p] = w
  BY <1>5 DEF Less
<1> QED BY <1>4, <1>5, Zenon DEF Own
-----------------------------------------------------------------------------
(* Nothing new is under way for stream i. *)
Lighter(i) == Sinks(queue, sock, inbox[i], back, unread[i],
                    queue', sock', inbox'[i], back', unread'[i], i)

(* Nobody has taken stream i, or given it up. *)
Stays(i) == /\ Free(i)' => Free(i)
            /\ \A u \in Users : Busy(u, i)' => Busy(u, i) /\ owed'[u] = owed[u] /\ use'[u] = use[u]

(* The types as the lemmas on the ways need them. *)
LEMMA Typed ==
  ASSUME Counting, AnswerTypes, Wires(queue, sock, sent, order), NEW i \in Ids
  PROVE  /\ Sized(queue, sock, inbox[i], back, unread[i]) /\ UnderWay(i) \in Nat
         /\ inbox[i] \in Seq(Messages) /\ unread[i] \in Seq(Nat)
<1>1. inbox[i] \in Seq(Messages) /\ unread[i] \in Seq(Nat)
  BY Zenon DEF AnswerTypes
<1>2. Len(queue) \in Nat /\ Len(sock) \in Nat /\ Len(back) \in Nat
  BY DEF AnswerTypes, Wires
<1>3. Len(inbox[i]) \in Nat /\ Len(unread[i]) \in Nat
  BY <1>1
<1>4. Sized(queue, sock, inbox[i], back, unread[i])
  BY <1>2, <1>3, Zenon DEF Sized
<1> QED BY <1>1, <1>4, FlowNat, Zenon DEF UnderWay

(* A stream for which nothing has happened. *)
LEMMA Carried ==
  ASSUME Counting, AnswerTypes, Wires(queue, sock, sent, order), NEW i \in Ids, AnswersOf(i),
         Lighter(i), Stays(i)
  PROVE  AnswersOf(i)'
<1>1. /\ UnderWay(i)' \in Nat /\ UnderWay(i)' <= UnderWay(i)
      /\ \A w : OfUse(i, w) => OfUse(i, w)'
  BY Zenon DEF Lighter, Sinks, UnderWay, OfUse
<1>2. UnderWay(i) \in Nat
  BY Typed, Zenon
<1>3. Free(i)' => UnderWay(i)' = 0
  <2>1. Free(i)' => UnderWay(i) = 0
    BY Zenon DEF Stays, AnswersOf
  <2> QED BY <1>1, <2>1
<1>4. ASSUME NEW u \in Users, Busy(u, i)'
      PROVE  UnderWay(i)' <= owed'[u] /\ Own(queue', sock', inbox'[i], back', unread'[i], i, use'[u])
  <2>1. /\ owed'[u] = owed[u] /\ use'[u] = use[u] /\ owed[u] \in Int
        /\ UnderWay(i) <= owed[u] /\ OfUse(i, use[u])
    BY <1>4, Zenon DEF Stays, AnswersOf, AnswerTypes
  <2>2. UnderWay(i)' <= owed'[u]
    BY <1>1, <1>2, <2>1
  <2>3. PICK w : w = use[u]
    BY Zenon
  <2> QED BY <1>1, <2>1, <2>2, <2>3, Zenon DEF OfUse
<1> QED BY <1>3, <1>4, Zenon DEF AnswersOf, OfUse

(* A step that nobody notices. *)
LEMMA AllCarried ==
  ASSUME Counting, AnswerInv, OrderInv, AnswerTypes', UNCHANGED <<misread, abandoned>>,
         \A i \in Ids : Lighter(i) /\ Stays(i)
  PROVE  AnswerInv'
<1>1. ASSUME NEW i \in Ids \ abandoned' PROVE AnswersOf(i)'
  <2>1. i \in Ids /\ AnswersOf(i) /\ Lighter(i) /\ Stays(i)
    BY Zenon DEF AnswerInv
  <2> QED BY <2>1, Carried, Zenon DEF AnswerInv, OrderInv
<1> QED BY <1>1, Zenon DEF AnswerInv

(* A user that keeps its stream, if it has one. *)
LEMMA UserKeeps ==
  ASSUME TypeOK, NEW u \in Users, NEW to, to # "push", pc[u] # "push", pc' = [pc EXCEPT ![u] = to],
         UNCHANGED <<pool, nextId, hand, owed, use>>, NEW i \in Ids
  PROVE  Stays(i)
<1>1. \A v \in Users : pc'[v] = "push" <=> pc[v] = "push"
  BY Zenon DEF TypeOK
<1> QED BY <1>1, PoolSame, Zenon DEF Stays, Free, Busy

(* A step of the server, of the client's dispatcher, or of neither. *)
LEMMA UsersStay ==
  ASSUME UNCHANGED <<pool, nextId, hand, owed, use, pc>>, NEW i \in Ids
  PROVE  Stays(i)
  BY PoolSame, Zenon DEF Stays, Free, Busy

(* A step that leaves the ways alone. *)
LEMMA WaysStay ==
  ASSUME Counting, AnswerTypes, Wires(queue, sock, sent, order), NEW i \in Ids,
         UNCHANGED <<queue, sock, inbox, back, unread>>
  PROVE  Lighter(i)
<1>1. \A q : Silent(q, q, i)
  BY Zenon DEF Silent
<1>2. Sized(queue, sock, inbox[i], back, unread[i])
  BY Typed, Zenon
<1> QED BY <1>1, <1>2, Quiet, Zenon DEF Lighter

(* A user gives up a stream that it closes or returns. *)
LEMMA UserLeaves ==
  ASSUME TypeOK, NEW u \in Users, NEW to, to # "push", pc' = [pc EXCEPT ![u] = to],
         hand' = [hand EXCEPT ![u] = NoStream],
         UNCHANGED <<nextId, owed, use>>, NEW i \in Ids,
         i \in Pooled' => i \in Pooled \/ (pc[u] = "push" /\ hand[u] = i)
  PROVE  Stays(i)
<1>1. i # NoStream
  BY SessionAssumption DEF Ids, NoStream
<1>2. ASSUME NEW v \in Users, hand'[v] = i PROVE v # u /\ pc'[v] = pc[v] /\ hand[v] = i
  BY <1>1, <1>2, Zenon DEF TypeOK
<1>3. Free(i)' => Free(i)
  BY <1>2, Zenon DEF Free
<1> QED BY <1>2, <1>3, Zenon DEF Stays, Busy

(* Stream.close releases the unread answers and tells the peer. *)
LEMMA CloseAnswers ==
  ASSUME Counting, IInv, OrderInv, AnswerInv, NEW u \in Users, NEW j, j = hand[u], j \in Ids, close(u, j),
         UNCHANGED <<pool, nextId, owed, use, inbox, back, misread, abandoned>>
  PROVE  AnswerInv'
<1> DEFINE m == Message(j, "closed", 0, 0)
<1>1. /\ unread' = [unread EXCEPT ![j] = <<>>] /\ hand' = [hand EXCEPT ![u] = NoStream]
      /\ queue' = queue \/ queue' = Append(queue, m)
      /\ sock' = sock \/ sock' = Append(sock, m)
  BY Zenon DEF close, Tell
<1>2. PICK to \in {"wake", "idle"} : pc' = [pc EXCEPT ![u] = to]
  BY Zenon DEF close, Tell
<1>3. AnswerTypes /\ Wires(queue, sock, sent, order) /\ TypeOK
  BY Zenon DEF AnswerInv, OrderInv, IInv
<1>4. m \in Messages /\ m \in Events /\ \A i : ~Of(m, i)
  BY DEF Messages, Events, Message, Of
<1> HIDE DEF m
<1>5. AnswerTypes'
  <2>1. <<>> \in Seq(Nat)
    OBVIOUS
  <2> QED BY <1>1, <1>3, <2>1, Zenon DEF AnswerTypes
<1>6. ASSUME NEW i \in Ids PROVE Lighter(i) /\ Stays(i)
  <2>1. Silent(queue, queue', i)
    BY <1>1, <1>3, <1>4, AppendAt, SilentWay, Zenon DEF Wires
  <2>2. Silent(sock, sock', i)
    BY <1>1, <1>3, <1>4, AppendAt, SilentWay, Zenon DEF Wires
  <2>3. Silent(back, back', i)
    BY SilentWay, Zenon
  <2>4. unread'[i] = unread[i] \/ unread'[i] = <<>>
    BY <1>1, <1>3, Zenon DEF AnswerTypes
  <2>5. Lighter(i)
    BY <1>3, <2>1, <2>2, <2>3, <2>4, Typed, Quiet, Zenon DEF Lighter
  <2>6. Stays(i)
    BY <1>1, <1>2, <1>3, PoolSame, UserLeaves, Zenon
  <2> QED BY <2>5, <2>6, Zenon
<1> QED BY <1>5, <1>6, AllCarried, Zenon

(* The server reads a message. *)
LEMMA InboxMore ==
  ASSUME AnswerTypes, NEW m \in Messages, NEW i \in Ids,
         inbox' = [inbox EXCEPT ![m.id] = IF m.st = "opened" THEN Append(@, m) ELSE @]
  PROVE  /\ inbox' \in [Ids -> Seq(Messages)]
         /\ Of(m, i) => More(inbox[i], inbox'[i], m)
         /\ ~Of(m, i) => inbox'[i] = inbox[i]
<1>1. inbox \in [Ids -> Seq(Messages)] /\ m.id \in Ids
  BY DEF AnswerTypes, Messages
<1>2. \A x \in Seq(Messages) : Append(x, m) \in Seq(Messages) /\ More(x, Append(x, m), m)
  BY AppendAt, Zenon
<1>3. inbox' \in [Ids -> Seq(Messages)]
  BY <1>1, <1>2, Zenon
<1>4. Of(m, i) => inbox'[i] = Append(inbox[i], m)
  BY <1>1, Zenon DEF Of
<1>5. ~Of(m, i) => inbox'[i] = inbox[i]
  BY <1>1, Zenon DEF Of
<1> QED BY <1>1, <1>2, <1>3, <1>4, <1>5, Zenon

(* The server's dispatcher takes a message from the socket or the queue. *)
LEMMA DispatchAnswers ==
  ASSUME Counting, OrderInv, AnswerInv, Dispatch PROVE AnswerInv'
<1>1. AnswerTypes /\ Wires(queue, sock, sent, order)
  BY Zenon DEF AnswerInv, OrderInv
<1>2. /\ UNCHANGED <<pool, nextId, hand, owed, use, pc>>
      /\ UNCHANGED <<misread, abandoned, back, unread>>
  BY Zenon DEF Dispatch, HandleEvent, handlePolling, clientVars, userVars, historyVars
<1>3. \A i \in Ids : Stays(i)
  BY <1>2, UsersStay, Zenon
<1>4. ASSUME HandleEvent PROVE AnswerInv'
  <2>1. /\ sock # <<>> /\ sock' = Tail(sock) /\ queue' = queue
        /\ IF Head(sock) = Polling THEN inbox' = inbox ELSE Handle(Head(sock))
    BY <1>4, Zenon DEF HandleEvent
  <2>2. PICK m : m = Head(sock)
    BY Zenon
  <2>3. Less(sock, sock', m) /\ m \in Events
    BY <1>1, <2>1, <2>2, TailAt, Zenon DEF Wires
  <2>4. CASE m = Polling
    <3>1. \A i : ~Of(m, i)
      BY <2>4 DEF Of, Polling, Message
    <3>2. ASSUME NEW i \in Ids PROVE Lighter(i)
      BY <1>1, <1>2, <2>1, <2>2, <2>3, <2>4, <3>1, SilentWay, Typed, Quiet, Zenon DEF Lighter
    <3>3. AnswerTypes'
      BY <1>1, <1>2, <2>1, <2>2, <2>4, Zenon DEF AnswerTypes
    <3> QED BY <1>2, <1>3, <3>2, <3>3, AllCarried, Zenon
  <2>5. CASE m # Polling
    <3>1. /\ m \in Messages
          /\ inbox' = [inbox EXCEPT ![m.id] = IF m.st = "opened" THEN Append(@, m) ELSE @]
      BY <2>1, <2>2, <2>3, <2>5, Zenon DEF Handle, Events
    <3>2. ASSUME NEW i \in Ids
          PROVE  /\ inbox' \in [Ids -> Seq(Messages)]
                 /\ Of(m, i) => More(inbox[i], inbox'[i], m)
                 /\ ~Of(m, i) => inbox'[i] = inbox[i]
      BY <1>1, <3>1, InboxMore, Zenon
    <3>3. ASSUME NEW i \in Ids PROVE Lighter(i)
      <4>1. Sized(queue, sock, inbox[i], back, unread[i])
        BY <1>1, Typed, Zenon
      <4>2. CASE Of(m, i)
        BY <1>2, <2>1, <2>3, <3>2, <4>1, <4>2, SockToInbox, Zenon DEF Lighter
      <4>3. CASE ~Of(m, i)
        <5>1. Silent(sock, sock', i) /\ Silent(queue, queue', i) /\ Silent(back, back', i)
          BY <1>2, <2>1, <2>3, <4>3, SilentWay, Zenon
        <5> QED BY <1>2, <3>2, <4>1, <4>3, <5>1, Quiet, Zenon DEF Lighter
      <4> QED BY <4>2, <4>3, Zenon
    <3>4. inbox' \in [Ids -> Seq(Messages)]
      BY <3>1, <3>2, Zenon DEF Messages
    <3>5. AnswerTypes'
      BY <1>1, <1>2, <3>4, Zenon DEF AnswerTypes
    <3> QED BY <1>2, <1>3, <3>3, <3>5, AllCarried, Zenon
  <2> QED BY <2>4, <2>5, Zenon
<1>5. ASSUME handlePolling PROVE AnswerInv'
  <2>1. CASE queue = <<>>
    <3>1. UNCHANGED <<queue, sock, inbox>>
      BY <1>5, <2>1, Zenon DEF handlePolling
    <3>2. \A i \in Ids : Lighter(i)
      BY <1>1, <1>2, <3>1, WaysStay, Zenon
    <3>3. AnswerTypes'
      BY <1>1, <1>2, <3>1, Zenon DEF AnswerTypes
    <3> QED BY <1>2, <1>3, <3>2, <3>3, AllCarried, Zenon
  <2>2. CASE queue # <<>>
    <3>1. queue' = Tail(queue) /\ sock' = sock /\ Handle(Head(queue))
      BY <1>5, <2>2, Zenon DEF handlePolling
    <3>2. PICK m : m = Head(queue)
      BY Zenon
    <3>3. Less(queue, queue', m) /\ m \in Messages
      BY <1>1, <2>2, <3>1, <3>2, TailAt, Zenon DEF Wires
    <3>4. inbox' = [inbox EXCEPT ![m.id] = IF m.st = "opened" THEN Append(@, m) ELSE @]
      BY <3>1, <3>2, Zenon DEF Handle
    <3>5. ASSUME NEW i \in Ids
          PROVE  /\ inbox' \in [Ids -> Seq(Messages)]
                 /\ Of(m, i) => More(inbox[i], inbox'[i], m)
                 /\ ~Of(m, i) => inbox'[i] = inbox[i]
      BY <1>1, <3>3, <3>4, InboxMore, Zenon
    <3>6. ASSUME NEW i \in Ids PROVE Lighter(i)
      <4>1. Sized(queue, sock, inbox[i], back, unread[i])
        BY <1>1, Typed, Zenon
      <4>2. CASE Of(m, i)
        BY <1>2, <3>1, <3>3, <3>5, <4>1, <4>2, QueueToInbox, Zenon DEF Lighter
      <4>3. CASE ~Of(m, i)
        <5>1. Silent(sock, sock', i) /\ Silent(queue, queue', i) /\ Silent(back, back', i)
          BY <1>2, <3>1, <3>3, <4>3, SilentWay, Zenon
        <5> QED BY <1>2, <3>5, <4>1, <4>3, <5>1, Quiet, Zenon DEF Lighter
      <4> QED BY <4>2, <4>3, Zenon
    <3>7. inbox' \in [Ids -> Seq(Messages)]
      BY <3>3, <3>5, Zenon DEF Messages
    <3>8. AnswerTypes'
      BY <1>1, <1>2, <3>7, Zenon DEF AnswerTypes
    <3> QED BY <1>2, <1>3, <3>6, <3>8, AllCarried, Zenon
  <2> QED BY <2>1, <2>2, Zenon
<1> QED BY <1>4, <1>5, Zenon DEF Dispatch

(* The server's application answers a request. *)
LEMMA AnswerAnswers ==
  ASSUME Counting, OrderInv, AnswerInv, NEW j \in Ids, Answer(j) PROVE AnswerInv'
<1>1. AnswerTypes /\ Wires(queue, sock, sent, order)
  BY Zenon DEF AnswerInv, OrderInv
<1>2. /\ UNCHANGED <<pool, nextId, hand, owed, use, pc>>
      /\ UNCHANGED <<misread, abandoned, queue, sock, unread>>
      /\ inbox' = [inbox EXCEPT ![j] = Tail(@)] /\ inbox[j] # <<>>
      /\ back' = back \/ back' = Append(back, Message(j, "opened", 0, Head(inbox[j]).use))
  BY Zenon DEF Answer, clientVars, userVars, wireVars, historyVars
<1>3. \A i \in Ids : Stays(i)
  BY <1>2, UsersStay, Zenon
<1>4. PICK m : m = Head(inbox[j])
  BY Zenon
<1>5. PICK a : a = Message(j, "opened", 0, m.use)
  BY Zenon
<1>6. inbox[j] \in Seq(Messages)
  BY <1>1, Zenon DEF AnswerTypes
<1>7. m \in Messages /\ Tail(inbox[j]) \in Seq(Messages) /\ Less(inbox[j], Tail(inbox[j]), m)
  BY <1>2, <1>4, <1>6, TailAt, Zenon
<1>8. a \in Messages /\ a.use = m.use /\ \A i : i # j => ~Of(a, i)
  BY <1>5, <1>7 DEF Messages, Message, Of
<1>9. back \in Seq(Messages) /\ Append(back, a) \in Seq(Messages) /\ More(back, Append(back, a), a)
  BY <1>1, <1>8, AppendAt, Zenon DEF AnswerTypes
<1>10. back' = back \/ back' = Append(back, a)
  BY <1>2, <1>4, <1>5, Zenon
<1>11. AnswerTypes'
  BY <1>1, <1>2, <1>7, <1>9, <1>10, Zenon DEF AnswerTypes
<1>12. ASSUME NEW i \in Ids PROVE Lighter(i)
  <2>1. Sized(queue, sock, inbox[i], back, unread[i])
    BY <1>1, Typed, Zenon
  <2>2. CASE i = j
    <3>1. inbox'[i] = Tail(inbox[i])
      BY <1>1, <1>2, <2>2, Zenon DEF AnswerTypes
    <3> QED BY <1>2, <1>7, <1>8, <1>9, <1>10, <2>1, <2>2, <3>1, InboxToBack, Zenon DEF Lighter
  <2>3. CASE i # j
    <3>1. inbox'[i] = inbox[i]
      BY <1>1, <1>2, <2>3, Zenon DEF AnswerTypes
    <3>2. Silent(sock, sock', i) /\ Silent(queue, queue', i) /\ Silent(back, back', i)
      BY <1>2, <1>8, <1>9, <1>10, <2>3, SilentWay, Zenon
    <3> QED BY <1>2, <2>1, <3>1, <3>2, Quiet, Zenon DEF Lighter
  <2> QED BY <2>2, <2>3, Zenon
<1> QED BY <1>2, <1>3, <1>11, <1>12, AllCarried, Zenon

(* The server's application closes a stream. *)
LEMMA CloseAtServer ==
  ASSUME Counting, OrderInv, AnswerInv, NEW j \in Ids, ServerCloses(j) PROVE AnswerInv'
<1>1. AnswerTypes /\ Wires(queue, sock, sent, order)
  BY Zenon DEF AnswerInv, OrderInv
<1>2. PICK m : m = Message(j, "closed", 0, 0)
  BY Zenon
<1>3. /\ UNCHANGED <<pool, nextId, hand, owed, use, pc>>
      /\ UNCHANGED <<misread, abandoned, queue, sock, unread>>
      /\ inbox' = [inbox EXCEPT ![j] = <<>>]
      /\ back' = back \/ back' = Append(back, m)
  BY <1>2, Zenon DEF ServerCloses, clientVars, userVars, wireVars, historyVars
<1>4. \A i \in Ids : Stays(i)
  BY <1>3, UsersStay, Zenon
<1>5. m \in Messages /\ \A i : ~Of(m, i)
  BY <1>2 DEF Messages, Message, Of
<1>6. back \in Seq(Messages) /\ Append(back, m) \in Seq(Messages) /\ More(back, Append(back, m), m)
  BY <1>1, <1>5, AppendAt, Zenon DEF AnswerTypes
<1>7. AnswerTypes'
  <2>1. <<>> \in Seq(Messages)
    OBVIOUS
  <2> QED BY <1>1, <1>3, <1>6, <2>1, Zenon DEF AnswerTypes
<1>8. ASSUME NEW i \in Ids PROVE Lighter(i)
  <2>1. inbox'[i] = inbox[i] \/ inbox'[i] = <<>>
    BY <1>1, <1>3, Zenon DEF AnswerTypes
  <2>2. Silent(sock, sock', i) /\ Silent(queue, queue', i) /\ Silent(back, back', i)
    BY <1>3, <1>5, <1>6, SilentWay, Zenon
  <2> QED BY <1>1, <1>3, <2>1, <2>2, Typed, Quiet, Zenon DEF Lighter
<1> QED BY <1>3, <1>4, <1>7, <1>8, AllCarried, Zenon

(* The client's dispatcher takes an answer, or a close. *)
LEMMA ClientAnswers ==
  ASSUME Counting, OrderInv, AnswerInv, ClientHandles PROVE AnswerInv'
<1>1. AnswerTypes /\ Wires(queue, sock, sent, order)
  BY Zenon DEF AnswerInv, OrderInv
<1>2. PICK m : m = Head(back)
  BY Zenon
<1>3. /\ UNCHANGED <<pool, nextId, hand, owed, use, pc>>
      /\ UNCHANGED <<misread, abandoned, queue, sock, inbox>>
      /\ back # <<>> /\ back' = Tail(back)
      /\ unread' = [unread EXCEPT ![m.id] =
                      IF m.st = "opened" /\ m.id \in table THEN Append(@, m.use) ELSE @]
  BY <1>2, Zenon DEF ClientHandles, userVars, wireVars, historyVars
<1>4. \A i \in Ids : Stays(i)
  BY <1>3, UsersStay, Zenon
<1>5. m \in Messages /\ back' \in Seq(Messages) /\ Less(back, back', m)
  BY <1>1, <1>2, <1>3, TailAt, Zenon DEF AnswerTypes
<1>6. m.id \in Ids /\ m.use \in Nat
  BY <1>5 DEF Messages
<1>7. \A r \in Seq(Nat) : Append(r, m.use) \in Seq(Nat) /\ More(r, Append(r, m.use), m.use)
  BY <1>6, AppendAt, Zenon
<1>8. unread' \in [Ids -> Seq(Nat)]
  BY <1>1, <1>3, <1>6, <1>7, Zenon DEF AnswerTypes
<1>9. AnswerTypes'
  BY <1>1, <1>3, <1>5, <1>8, Zenon DEF AnswerTypes
<1>10. ASSUME NEW i \in Ids PROVE Lighter(i)
  <2>1. Sized(queue, sock, inbox[i], back, unread[i]) /\ unread[i] \in Seq(Nat)
    BY <1>1, Typed, Zenon
  <2>2. /\ unread'[i] = unread[i] \/ unread'[i] = Append(unread[i], m.use)
        /\ ~Of(m, i) => unread'[i] = unread[i]
    BY <1>1, <1>3, <1>6, Zenon DEF AnswerTypes, Of
  <2>3. CASE Of(m, i)
    <3>1. unread'[i] = unread[i] \/ More(unread[i], unread'[i], m.use)
      BY <1>7, <2>1, <2>2, Zenon
    <3> QED BY <1>3, <1>5, <2>1, <2>3, <3>1, BackToUnread, Zenon DEF Lighter
  <2>4. CASE ~Of(m, i)
    <3>1. Silent(sock, sock', i) /\ Silent(queue, queue', i) /\ Silent(back, back', i)
      BY <1>3, <1>5, <2>4, SilentWay, Zenon
    <3> QED BY <1>3, <2>1, <2>2, <2>4, <3>1, Quiet, Zenon DEF Lighter
  <2> QED BY <2>3, <2>4, Zenon
<1> QED BY <1>3, <1>4, <1>9, <1>10, AllCarried, Zenon

(* The posted part of Session.Close releases what the streams have. *)
LEMMA ClosePostedAnswers ==
  ASSUME Counting, OrderInv, AnswerInv, ClosePosted PROVE AnswerInv'
<1>1. AnswerTypes /\ Wires(queue, sock, sent, order)
  BY Zenon DEF AnswerInv, OrderInv
<1>2. /\ UNCHANGED <<pool, nextId, hand, owed, use, pc>>
      /\ UNCHANGED <<misread, abandoned, queue, sock, inbox, back>>
      /\ unread' = [i \in Ids |-> IF i \in table THEN <<>> ELSE unread[i]]
  BY Zenon DEF ClosePosted, userVars, wireVars, serverVars, historyVars
<1>3. \A i \in Ids : Stays(i)
  BY <1>2, UsersStay, Zenon
<1>4. AnswerTypes'
  <2>1. <<>> \in Seq(Nat)
    OBVIOUS
  <2> QED BY <1>1, <1>2, <2>1, Zenon DEF AnswerTypes
<1>5. ASSUME NEW i \in Ids PROVE Lighter(i)
  <2>1. unread'[i] = unread[i] \/ unread'[i] = <<>>
    BY <1>2, Zenon
  <2>2. Silent(sock, sock', i) /\ Silent(queue, queue', i) /\ Silent(back, back', i)
    BY <1>2, SilentWay, Zenon
  <2> QED BY <1>1, <1>2, <2>1, <2>2, Typed, Quiet, Zenon DEF Lighter
<1> QED BY <1>2, <1>3, <1>4, <1>5, AllCarried, Zenon

(* A step of a user that sends nothing of its stream. *)
LEMMA UserAnswers ==
  ASSUME Counting, IInv, OrderInv, AnswerInv, NEW u \in Users,
         GetStream(u) \/ OpenStream(u) \/ MarkWorking(u) \/ WritePolling(u)
  PROVE  AnswerInv'
<1>1. AnswerTypes /\ Wires(queue, sock, sent, order) /\ TypeOK
  BY Zenon DEF AnswerInv, OrderInv, IInv
<1>2. /\ UNCHANGED <<pool, nextId, hand, owed, use>>
      /\ UNCHANGED <<misread, abandoned, queue, inbox, back, unread>>
      /\ sock' = sock \/ sock' = Append(sock, Polling)
  BY Zenon DEF GetStream, OpenStream, MarkWorking, WritePolling, clientVars, wireVars, serverVars,
               historyVars
<1>3. pc[u] \in {"idle", "pop", "wake", "poll"}
      /\ \E to \in {"idle", "pop", "insert", "poll", "use"} : pc' = [pc EXCEPT ![u] = to]
  <2>1. CASE GetStream(u) \/ OpenStream(u)
    BY <2>1, Zenon DEF GetStream, OpenStream, Goto
  <2>2. CASE MarkWorking(u) \/ WritePolling(u)
    BY <2>2, Zenon DEF MarkWorking, WritePolling, Goto, After
  <2> QED BY <2>1, <2>2, Zenon
<1>4. PICK to \in {"idle", "pop", "insert", "poll", "use"} : pc' = [pc EXCEPT ![u] = to]
  BY <1>3, Zenon
<1>5. to # "push" /\ pc[u] # "push"
  BY <1>3, Zenon
<1>6. Polling \in Events /\ \A i : ~Of(Polling, i)
  BY DEF Events, Of, Polling, Message
<1>7. More(sock, Append(sock, Polling), Polling)
  BY <1>1, <1>6, AppendAt, Zenon DEF Wires
<1>8. ASSUME NEW i \in Ids PROVE Lighter(i) /\ Stays(i)
  <2>1. Silent(sock, sock', i) /\ Silent(queue, queue', i) /\ Silent(back, back', i)
    BY <1>2, <1>6, <1>7, SilentWay, Zenon
  <2>2. Lighter(i)
    BY <1>1, <1>2, <2>1, Typed, Quiet, Zenon DEF Lighter
  <2>3. Stays(i)
    BY <1>1, <1>2, <1>4, <1>5, UserKeeps, Zenon
  <2> QED BY <2>2, <2>3, Zenon
<1>9. AnswerTypes'
  BY <1>1, <1>2, Zenon DEF AnswerTypes
<1> QED BY <1>2, <1>8, <1>9, AllCarried, Zenon

(* A user obtains a stream for which nothing is under way. *)
LEMMA ObtainAnswers ==
  ASSUME Counting, IInv, OrderInv, AnswerInv, NEW u \in Users, NEW j, j \in Ids,
         UNCHANGED <<queue, sock, inbox, back, unread, misread, abandoned>>,
         hand' = [hand EXCEPT ![u] = j], pc' = [pc EXCEPT ![u] = "use"],
         owed' = [owed EXCEPT ![u] = 0], \A v \in Users : v # u => use'[v] = use[v],
         Free(j), \A i \in Ids : i \in Pooled' \/ i > nextId' => i \in Pooled \/ i > nextId
  PROVE  AnswerInv'
<1>1. AnswerTypes /\ Wires(queue, sock, sent, order) /\ TypeOK
  BY Zenon DEF AnswerInv, OrderInv, IInv
<1>2. AnswerTypes'
  <2>1. 0 \in Int
    OBVIOUS
  <2> QED BY <1>1, <2>1, Zenon DEF AnswerTypes
<1>3. \A v \in Users : v # u => hand'[v] = hand[v] /\ pc'[v] = pc[v] /\ owed'[v] = owed[v]
  BY <1>1, Zenon DEF TypeOK, AnswerTypes
<1>4. hand'[u] = j /\ pc'[u] = "use" /\ owed'[u] = 0
  BY <1>1, Zenon DEF TypeOK, AnswerTypes
<1>5. ASSUME NEW i \in Ids \ abandoned' PROVE AnswersOf(i)'
  <2>1. i \in Ids /\ AnswersOf(i) /\ UnderWay(i)' = UnderWay(i)
    BY Zenon DEF AnswerInv, UnderWay
  <2>2. Free(i)' => Free(i)
    BY <1>3, <1>4, Zenon DEF Free
  <2>3. ASSUME NEW v \in Users, Busy(v, i)'
        PROVE  UnderWay(i)' <= owed'[v] /\ Own(queue', sock', inbox'[i], back', unread'[i], i, use'[v])
    <3>1. CASE v = u
      <4>1. i = j
        BY <1>4, <2>3, <3>1, Zenon DEF Busy
      <4>2. UnderWay(i) = 0
        BY <2>1, <4>1, Zenon DEF AnswersOf
      <4>3. \A w : OfUse(i, w)
        BY <1>1, <4>2, Typed, NothingIsOwn, Zenon DEF UnderWay, OfUse
      <4>4. UnderWay(i)' <= owed'[v]
        BY <1>4, <2>1, <3>1, <4>2
      <4> QED BY <4>3, <4>4, Zenon DEF OfUse
    <3>2. CASE v # u
      BY <1>3, <2>1, <2>3, <3>2, Zenon DEF Busy, AnswersOf, OfUse
    <3> QED BY <3>1, <3>2, Zenon
  <2> QED BY <2>1, <2>2, <2>3, Zenon DEF AnswersOf, OfUse
<1> QED BY <1>2, <1>5, Zenon DEF AnswerInv

(* GetStream takes a stream from the pool, or opens a new one. *)
LEMMA PopAnswers ==
  ASSUME Counting, IInv, OrderInv, AnswerInv, NEW u \in Users, PopStream(u) PROVE AnswerInv'
<1>1. AnswerTypes /\ Wires(queue, sock, sent, order) /\ TypeOK
  BY Zenon DEF AnswerInv, OrderInv, IInv
<1>2. /\ UNCHANGED <<queue, sock, inbox, back, unread, misread, abandoned>>
      /\ ~Empty /\ pop /\ nextId' = nextId
  BY Zenon DEF PopStream, wireVars, serverVars, historyVars
<1>3. /\ pool.head \in Positions /\ Oldest = At(pool.head)
      /\ Positions' = Positions \ {pool.head} /\ \A k : At(k)' = At(k)
  BY <1>2, PopEffect, Zenon DEF IInv
<1>4. Pooled' \subseteq Pooled /\ Oldest \in Pooled
  <2>1. Pooled' = {At(k)' : k \in Positions'}
    BY Zenon DEF Pooled, At, Positions
  <2> QED BY <1>3, <2>1, PooledAt, Zenon
<1>5. CASE ~IsClosed /\ state[Oldest] = "opened"
  <2>1. PICK j : j = Oldest
    BY Zenon
  <2>2. /\ hand' = [hand EXCEPT ![u] = j] /\ pc' = [pc EXCEPT ![u] = "use"]
        /\ owed' = [owed EXCEPT ![u] = 0] /\ use' = [use EXCEPT ![u] = uses + 1]
    BY <1>5, <2>1, Zenon DEF PopStream, Goto, Obtained
  <2>3. j \in Ids
    BY <1>3, <2>1, SessionAssumption, SMTT(30) DEF IInv, TypeOK, PoolInv, Ids
  <2>4. \A v \in Users : v # u => use'[v] = use[v]
    BY <2>2, Zenon DEF OrderInv, Flags
  <2>5. Free(j)
    BY <1>4, <2>1, Zenon DEF Free
  <2> QED BY <1>2, <1>4, <2>2, <2>3, <2>4, <2>5, ObtainAnswers, Zenon
<1>6. CASE ~(~IsClosed /\ state[Oldest] = "opened")
  <2>1. /\ UNCHANGED <<hand, owed, use>>
        /\ pc[u] = "pop" /\ pc' = [pc EXCEPT ![u] = "pop"]
    BY <1>6, Zenon DEF PopStream, Goto
  <2>2. pc' = pc
    BY <1>1, <2>1, Zenon DEF TypeOK
  <2>3. ASSUME NEW i \in Ids PROVE Lighter(i) /\ Stays(i)
    <3>1. Lighter(i)
      BY <1>1, <1>2, WaysStay, Zenon
    <3>2. Stays(i)
      BY <1>2, <1>4, <2>1, <2>2, Zenon DEF Stays, Free, Busy
    <3> QED BY <3>1, <3>2, Zenon
  <2>4. AnswerTypes'
    BY <1>1, <1>2, <2>1, Zenon DEF AnswerTypes
  <2> QED BY <1>2, <2>3, <2>4, AllCarried, Zenon
<1> QED BY <1>5, <1>6, Zenon

(* A new stream has an id for which nothing was ever sent. *)
LEMMA InsertAnswers ==
  ASSUME Counting, IInv, OrderInv, AnswerInv, NEW u \in Users, Insert(u) PROVE AnswerInv'
<1>1. AnswerTypes /\ Wires(queue, sock, sent, order) /\ TypeOK
  BY Zenon DEF AnswerInv, OrderInv, IInv
<1>2. /\ UNCHANGED <<queue, sock, inbox, back, unread, misread, abandoned, pool>>
      /\ pc[u] = "insert" /\ nextId < MaxIds
  BY Zenon DEF Insert, Goto, wireVars, serverVars, historyVars
<1>3. CASE shutdown = "closed"
  <2>1. pc' = [pc EXCEPT ![u] = "panic"] /\ UNCHANGED <<nextId, hand, owed, use>>
    BY <1>3, Zenon DEF Insert, Goto
  <2>2. ASSUME NEW i \in Ids PROVE Lighter(i) /\ Stays(i)
    BY <1>1, <1>2, <2>1, WaysStay, UserKeeps, Zenon
  <2>3. AnswerTypes'
    BY <1>1, <1>2, <2>1, Zenon DEF AnswerTypes
  <2> QED BY <1>2, <2>2, <2>3, AllCarried, Zenon
<1>4. CASE shutdown # "closed"
  <2>1. PICK j : j = nextId + 1
    BY Zenon
  <2>2. /\ hand' = [hand EXCEPT ![u] = j] /\ pc' = [pc EXCEPT ![u] = "use"] /\ nextId' = j
        /\ owed' = [owed EXCEPT ![u] = 0] /\ use' = [use EXCEPT ![u] = uses + 1]
    BY <1>4, <2>1, Zenon DEF Insert, Goto, Stored, Obtained
  <2>3. j \in Ids /\ j > nextId /\ \A i \in Ids : i > j => i > nextId
    BY <1>1, <1>2, <2>1, SessionAssumption DEF TypeOK, Ids
  <2>4. \A v \in Users : v # u => use'[v] = use[v]
    BY <2>2, Zenon DEF OrderInv, Flags
  <2>5. Free(j)
    BY <2>3, Zenon DEF Free
  <2>6. \A i \in Ids : i \in Pooled' \/ i > nextId' => i \in Pooled \/ i > nextId
    BY <1>2, <2>2, <2>3, PoolSame, Zenon
  <2> QED BY <1>2, <2>2, <2>3, <2>4, <2>5, <2>6, ObtainAnswers, Zenon
<1> QED BY <1>3, <1>4, Zenon

(* A user that has a stream asks, or reads: what is under way stays within  *)
(* what the user is owed.                                                   *)
LEMMA Balanced ==
  ASSUME Counting, IInv, OrderInv, AnswerInv, NEW u \in Users, NEW j, j = hand[u], j \in Ids, pc[u] = "use",
         NEW to \in {"wake", "use"}, pc' = [pc EXCEPT ![u] = to],
         UNCHANGED <<pool, nextId, hand, use, abandoned>>, misread' \subseteq abandoned, AnswerTypes',
         \A v \in Users : v # u => owed'[v] = owed[v],
         UnderWay(j) <= owed[u] => UnderWay(j)' <= owed'[u],
         OfUse(j, use[u]) => Own(queue', sock', inbox'[j], back', unread'[j], j, use[u]),
         \A i \in Ids : i # j => Lighter(i)
  PROVE  AnswerInv'
<1>1. AnswerTypes /\ Wires(queue, sock, sent, order) /\ TypeOK
  BY Zenon DEF AnswerInv, OrderInv, IInv
<1>2. j # NoStream
  BY SessionAssumption DEF Ids, NoStream
<1>3. pc'[u] = to /\ to # "push" /\ \A v \in Users : v # u => pc'[v] = pc[v]
  BY <1>1, Zenon DEF TypeOK
<1>4. \A v \in Users : hand[v] = j => v = u
  BY <1>2, Zenon DEF IInv, HandInv
<1>5. ASSUME NEW i \in Ids \ abandoned', i # j PROVE AnswersOf(i)'
  <2>1. i \in Ids /\ AnswersOf(i) /\ Lighter(i)
    BY <1>5, Zenon DEF AnswerInv
  <2>2. \A v \in Users : hand[v] = i => v # u
    BY <1>5, Zenon
  <2>3. Stays(i)
    BY <1>3, <2>2, PoolSame, Zenon DEF Stays, Free, Busy
  <2> QED BY <1>1, <2>1, <2>3, Carried, Zenon
<1>6. ASSUME j \notin abandoned' PROVE AnswersOf(j)'
  <2>1. AnswersOf(j) /\ Busy(u, j)
    BY <1>6, Zenon DEF AnswerInv, Busy
  <2>2. UnderWay(j) <= owed[u] /\ OfUse(j, use[u])
    BY <2>1, Zenon DEF AnswersOf
  <2>3. UnderWay(j)' <= owed'[u]
    BY <2>2, Zenon
  <2>4. ~Free(j)'
    <3>1. j \notin Pooled
      BY PooledAt, Zenon DEF IInv, PoolInv
    <3>2. ~(j > nextId)
      BY <1>1 DEF IInv, HandInv, TypeOK
    <3> QED BY <1>3, <1>4, <3>1, <3>2, PoolSame, Zenon DEF Free
  <2>5. ASSUME NEW v \in Users, Busy(v, j)'
        PROVE  UnderWay(j)' <= owed'[v] /\ Own(queue', sock', inbox'[j], back', unread'[j], j, use'[v])
    <3>1. v = u
      BY <1>4, <2>5, Zenon DEF Busy
    <3> QED BY <2>2, <2>3, <3>1, Zenon
  <2> QED BY <2>4, <2>5, Zenon DEF AnswersOf, OfUse
<1> QED BY <1>5, <1>6, Zenon DEF AnswerInv

(* A request of a user is a message of its stream and of its use. *)
LEMMA RequestOf ==
  ASSUME OrderInv, NEW u \in Users, NEW j, j = hand[u], j \in Ids, NEW m, m = Request(u)
  PROVE  m \in Messages /\ m \in Events /\ Of(m, j) /\ m.use = use[u] /\ \A i : i # j => ~Of(m, i)
<1>1. m = [id |-> j, st |-> "opened", n |-> sent + 1, use |-> use[u]]
  BY Zenon DEF Request, Message
<1>2. sent + 1 \in Nat /\ use[u] \in Nat
  BY DEF OrderInv, Flags, Wires
<1> QED BY <1>1, <1>2 DEF Messages, Events, Of

(* A flush, by the queue or by the socket. *)
LEMMA FlushAnswers ==
  ASSUME Counting, IInv, OrderInv, AnswerInv, NEW u \in Users, Flush(u) \/ FlushFallback(u) PROVE AnswerInv'
<1>1. AnswerTypes /\ Wires(queue, sock, sent, order) /\ TypeOK
  BY Zenon DEF AnswerInv, OrderInv, IInv
<1>2. PICK j : j = hand[u]
  BY Zenon
<1>3. PICK m : m = Request(u)
  BY Zenon
<1>4. /\ pc[u] = "use" /\ \E to \in {"wake", "use"} : pc' = [pc EXCEPT ![u] = to]
      /\ UNCHANGED <<pool, nextId, hand, use, misread, abandoned, inbox, back, unread>>
      /\ owed' = [owed EXCEPT ![u] = @ + 1]
      /\ \/ queue' = Append(queue, m) /\ sock' = sock
         \/ sock' = Append(sock, m) /\ queue' = queue
  <2>1. CASE Flush(u)
    BY <1>3, <2>1, Zenon DEF Flush, Goto, Asked, clientVars, serverVars, historyVars
  <2>2. CASE FlushFallback(u)
    BY <1>3, <2>2, Zenon DEF FlushFallback, WriteFallback, Goto, Asked, serverVars
  <2> QED BY <2>1, <2>2, Zenon
<1>5. PICK to \in {"wake", "use"} : pc' = [pc EXCEPT ![u] = to]
  BY <1>4, Zenon
<1>6. j \in Ids
  BY <1>1, <1>2, <1>4, Zenon DEF TypeOK, IInv, HandInv
<1>7. m \in Messages /\ m \in Events /\ Of(m, j) /\ m.use = use[u] /\ \A i : i # j => ~Of(m, i)
  BY <1>2, <1>3, <1>6, RequestOf, Zenon
<1>8. More(queue, Append(queue, m), m) /\ More(sock, Append(sock, m), m)
  BY <1>1, <1>7, AppendAt, Zenon DEF Wires
<1>9. owed' \in [Users -> Int] /\ owed'[u] = owed[u] + 1 /\ \A v \in Users : v # u => owed'[v] = owed[v]
  BY <1>1, <1>4 DEF AnswerTypes
<1>10. AnswerTypes'
  BY <1>1, <1>4, <1>9, Zenon DEF AnswerTypes
<1>11. ASSUME NEW i \in Ids, i # j PROVE Lighter(i)
  <2>1. Silent(sock, sock', i) /\ Silent(queue, queue', i) /\ Silent(back, back', i)
    BY <1>4, <1>7, <1>8, <1>11, SilentWay, Zenon
  <2> QED BY <1>1, <1>4, <2>1, Typed, Quiet, Zenon DEF Lighter
<1>12. /\ UnderWay(j)' = UnderWay(j) + 1
       /\ OfUse(j, use[u]) => Own(queue', sock', inbox'[j], back', unread'[j], j, use[u])
  <2>1. Sized(queue, sock, inbox[j], back, unread[j])
    BY <1>1, <1>6, Typed, Zenon
  <2>2. CASE queue' = Append(queue, m) /\ sock' = sock
    <3>1. More(queue, queue', m) /\ Of(m, j)
      BY <1>7, <1>8, <2>2, Zenon
    <3>2. /\ Flow(queue', sock, inbox[j], back, unread[j], j) =
               Flow(queue, sock, inbox[j], back, unread[j], j) + 1
          /\ Own(queue, sock, inbox[j], back, unread[j], j, m.use) =>
               Own(queue', sock, inbox[j], back, unread[j], j, m.use)
      BY <2>1, <3>1, SentByQueue, Zenon
    <3> QED BY <1>4, <1>7, <2>2, <3>2, Zenon DEF UnderWay, OfUse
  <2>3. CASE sock' = Append(sock, m) /\ queue' = queue
    <3>1. More(sock, sock', m) /\ Of(m, j)
      BY <1>7, <1>8, <2>3, Zenon
    <3>2. /\ Flow(queue, sock', inbox[j], back, unread[j], j) =
               Flow(queue, sock, inbox[j], back, unread[j], j) + 1
          /\ Own(queue, sock, inbox[j], back, unread[j], j, m.use) =>
               Own(queue, sock', inbox[j], back, unread[j], j, m.use)
      BY <2>1, <3>1, SentBySock, Zenon
    <3> QED BY <1>4, <1>7, <2>3, <3>2, Zenon DEF UnderWay, OfUse
  <2> QED BY <1>4, <2>2, <2>3, Zenon
<1>13. misread' \subseteq abandoned
  BY <1>4, Zenon DEF AnswerInv
<1>14. UnderWay(j) <= owed[u] => UnderWay(j)' <= owed'[u]
  <2>1. UnderWay(j) \in Nat /\ owed[u] \in Int
    BY <1>1, <1>6, Typed, Zenon DEF AnswerTypes
  <2> QED BY <1>9, <1>12, <2>1
<1> QED BY <1>2, <1>4, <1>5, <1>6, <1>9, <1>10, <1>11, <1>12, <1>13, <1>14, Balanced, Zenon

(* A read finds an answer of the user's own use, or the stream was put back *)
(* too early.                                                               *)
LEMMA ReadsOwn ==
  ASSUME Counting, IInv, OrderInv, AnswerInv, NEW u \in Users, ReadAnswer(u) PROVE AnswerInv'
<1>1. AnswerTypes /\ Wires(queue, sock, sent, order) /\ TypeOK
  BY Zenon DEF AnswerInv, OrderInv, IInv
<1>2. PICK j : j = hand[u]
  BY Zenon
<1>3. PICK k : k = Head(unread[j])
  BY Zenon
<1>4. /\ pc[u] = "use" /\ pc' = pc /\ unread[j] # <<>>
      /\ UNCHANGED <<pool, nextId, hand, use, abandoned, queue, sock, inbox, back>>
      /\ owed' = [owed EXCEPT ![u] = @ - 1]
      /\ unread' = [unread EXCEPT ![j] = Tail(@)]
      /\ misread' = misread \cup (IF k # use[u] THEN {j} ELSE {})
  BY <1>2, <1>3, Zenon DEF ReadAnswer, wireVars, serverVars
<1>5. j \in Ids
  BY <1>1, <1>2, <1>4, Zenon DEF TypeOK, IInv, HandInv
<1>6. pc' = [pc EXCEPT ![u] = "use"]
  BY <1>1, <1>4, Zenon DEF TypeOK
<1>7. unread[j] \in Seq(Nat)
  BY <1>1, <1>5, Zenon DEF AnswerTypes
<1>8. Tail(unread[j]) \in Seq(Nat) /\ Less(unread[j], Tail(unread[j]), k)
  BY <1>3, <1>4, <1>7, TailAt, Zenon
<1>9. unread'[j] = Tail(unread[j]) /\ \A i \in Ids : i # j => unread'[i] = unread[i]
  BY <1>1, <1>4, <1>5, Zenon DEF AnswerTypes
<1>10. owed' \in [Users -> Int] /\ owed'[u] = owed[u] - 1
       /\ \A v \in Users : v # u => owed'[v] = owed[v]
  BY <1>1, <1>4 DEF AnswerTypes
<1>11. AnswerTypes'
  BY <1>1, <1>4, <1>5, <1>8, <1>10, Zenon DEF AnswerTypes
<1>12. /\ UnderWay(j) = UnderWay(j)' + 1 /\ UnderWay(j)' \in Nat
       /\ OfUse(j, use[u]) => /\ Own(queue', sock', inbox'[j], back', unread'[j], j, use[u])
                              /\ k = use[u]
  <2>1. Sized(queue, sock, inbox[j], back, unread[j])
    BY <1>1, <1>5, Typed, Zenon
  <2>2. Less(unread[j], unread'[j], k)
    BY <1>8, <1>9, Zenon
  <2>3. /\ Flow(queue, sock, inbox[j], back, unread[j], j) =
             Flow(queue, sock, inbox[j], back, unread'[j], j) + 1
        /\ Flow(queue, sock, inbox[j], back, unread'[j], j) \in Nat
        /\ \A w : Own(queue, sock, inbox[j], back, unread[j], j, w) =>
                    Own(queue, sock, inbox[j], back, unread'[j], j, w) /\ k = w
    BY <2>1, <2>2, TakesAnswer, Zenon
  <2> QED BY <1>4, <2>3, Zenon DEF UnderWay, OfUse
<1>13. UnderWay(j) <= owed[u] => UnderWay(j)' <= owed'[u]
  <2>1. owed[u] \in Int
    BY <1>1, Zenon DEF AnswerTypes
  <2> QED BY <1>10, <1>12, <2>1
<1>14. ASSUME NEW i \in Ids, i # j PROVE Lighter(i)
  <2>1. Silent(sock, sock', i) /\ Silent(queue, queue', i) /\ Silent(back, back', i)
    BY <1>4, SilentWay, Zenon
  <2> QED BY <1>1, <1>4, <1>9, <1>14, <2>1, Typed, Quiet, Zenon DEF Lighter
<1>15. misread' \subseteq abandoned
  <2>1. j \notin abandoned => k = use[u]
    BY <1>2, <1>4, <1>5, <1>12, Zenon DEF AnswerInv, AnswersOf, Busy
  <2> QED BY <1>4, <2>1, Zenon DEF AnswerInv
<1>16. /\ UNCHANGED <<pool, nextId, hand, use, abandoned>> /\ pc[u] = "use"
       /\ OfUse(j, use[u]) => Own(queue', sock', inbox'[j], back', unread'[j], j, use[u])
       /\ "use" \in {"wake", "use"} /\ \A v \in Users : v # u => owed'[v] = owed[v]
  BY <1>4, <1>10, <1>12, Zenon
<1> QED BY <1>2, <1>5, <1>6, <1>11, <1>13, <1>14, <1>15, <1>16, Balanced, Zenon

(* PutBack: a stream that goes back to the pool has nothing under way, or   *)
(* is put back too early.                                                   *)
LEMMA PutBackAnswers ==
  ASSUME Counting, IInv, OrderInv, AnswerInv, NEW u \in Users, PutBack(u) PROVE AnswerInv'
<1>1. AnswerTypes /\ Wires(queue, sock, sent, order) /\ TypeOK
  BY Zenon DEF AnswerInv, OrderInv, IInv
<1>2. PICK j : j = hand[u]
  BY Zenon
<1>3. /\ pc[u] = "use" /\ Finished(u)
      /\ UNCHANGED <<pool, nextId, owed, use, inbox, back, misread>>
  BY Zenon DEF PutBack, serverVars
<1>4. j \in Ids /\ j # NoStream
  BY <1>1, <1>2, <1>3, Zenon DEF TypeOK, IInv, HandInv
<1>5. CASE ~resets(j)
  <2>1. close(u, j) /\ abandoned' = abandoned
    BY <1>2, <1>5, Zenon DEF PutBack
  <2> QED BY <1>2, <1>3, <1>4, <2>1, CloseAnswers, Zenon
<1>6. CASE resets(j)
  <2>1. /\ pc' = [pc EXCEPT ![u] = "push"]
        /\ abandoned' = abandoned \cup (IF owed[u] > Len(unread[j]) THEN {j} ELSE {})
        /\ UNCHANGED <<unread, hand, queue, sock>>
    BY <1>2, <1>6, Zenon DEF PutBack, Goto
  <2>2. AnswerTypes'
    BY <1>1, <1>3, <2>1, Zenon DEF AnswerTypes
  <2>3. pc'[u] = "push" /\ \A v \in Users : v # u => pc'[v] = pc[v]
    BY <1>1, <2>1, Zenon DEF TypeOK
  <2>4. \A v \in Users : hand[v] = j => v = u
    BY <1>2, <1>4, Zenon DEF IInv, HandInv
  <2>5. ASSUME NEW i \in Ids \ abandoned', i # j PROVE AnswersOf(i)'
    <3>1. i \in Ids /\ AnswersOf(i) /\ Lighter(i)
      BY <1>1, <1>3, <2>1, <2>5, WaysStay, Zenon DEF AnswerInv
    <3>2. \A v \in Users : hand[v] = i => v # u
      BY <1>2, <2>5, Zenon
    <3>3. Stays(i)
      BY <1>3, <2>1, <2>3, <3>2, PoolSame, Zenon DEF Stays, Free, Busy
    <3> QED BY <1>1, <3>1, <3>3, Carried, Zenon
  <2>6. ASSUME j \notin abandoned' PROVE AnswersOf(j)'
    <3>1. j \notin abandoned /\ ~(owed[u] > Len(unread[j]))
      BY <2>1, <2>6, Zenon
    <3>2. unread[j] = <<>> /\ Len(unread[j]) = 0
      BY <1>6 DEF resets
    <3>3. AnswersOf(j) /\ Busy(u, j)
      BY <1>2, <1>3, <1>4, <3>1, Zenon DEF AnswerInv, Busy
    <3>4. UnderWay(j) <= owed[u] /\ UnderWay(j) \in Nat /\ owed[u] \in Int
      BY <1>1, <1>4, <3>3, Typed, Zenon DEF AnswersOf, AnswerTypes
    <3>5. UnderWay(j) = 0
      BY <3>1, <3>2, <3>4
    <3>6. UnderWay(j)' = 0
      BY <1>3, <2>1, <3>5, Zenon DEF UnderWay
    <3>7. \A v \in Users : ~Busy(v, j)'
      BY <2>1, <2>3, <2>4, Zenon DEF Busy
    <3> QED BY <3>6, <3>7, Zenon DEF AnswersOf
  <2>7. misread' \subseteq abandoned'
    BY <1>3, <2>1, Zenon DEF AnswerInv
  <2> QED BY <2>2, <2>5, <2>6, <2>7, Zenon DEF AnswerInv
<1> QED BY <1>5, <1>6, Zenon

(* The stream goes to the pool, or is closed. *)
LEMMA PushAnswers ==
  ASSUME Counting, IInv, OrderInv, AnswerInv, NEW u \in Users, PushOrClose(u) PROVE AnswerInv'
<1>1. AnswerTypes /\ Wires(queue, sock, sent, order) /\ TypeOK
  BY Zenon DEF AnswerInv, OrderInv, IInv
<1>2. PICK j : j = hand[u]
  BY Zenon
<1>3. /\ pc[u] = "push"
      /\ UNCHANGED <<nextId, owed, use, inbox, back, misread, abandoned>>
  BY Zenon DEF PushOrClose, serverVars
<1>4. j \in Ids
  BY <1>1, <1>2, <1>3, Zenon DEF TypeOK, IInv, HandInv
<1>5. CASE ~Room
  <2>1. close(u, j) /\ pool' = pool
    BY <1>2, <1>5, Zenon DEF PushOrClose
  <2> QED BY <1>2, <1>3, <1>4, <2>1, CloseAnswers, Zenon
<1>6. CASE Room
  <2>1. /\ push(j) /\ pc' = [pc EXCEPT ![u] = "idle"] /\ hand' = [hand EXCEPT ![u] = NoStream]
        /\ UNCHANGED <<unread, queue, sock>>
    BY <1>2, <1>6, Zenon DEF PushOrClose, Goto
  <2>2. PICK t : t = pool.tail
    BY Zenon
  <2>3. Positions' = Positions \cup {t} /\ At(t)' = j /\ \A k \in Positions : At(k)' = At(k)
    BY <1>4, <1>6, <2>1, <2>2, PushEffect, Zenon DEF IInv
  <2>4. \A i \in Pooled' : i \in Pooled \/ i = j
    <3>1. Pooled' = {At(k)' : k \in Positions'}
      BY Zenon DEF Pooled, At, Positions
    <3> QED BY <2>3, <3>1, PooledAt, Zenon
  <2>5. ASSUME NEW i \in Ids PROVE Lighter(i) /\ Stays(i)
    <3>1. Lighter(i)
      BY <1>1, <1>3, <2>1, WaysStay, Zenon
    <3>2. Stays(i)
      BY <1>1, <1>2, <1>3, <2>1, <2>4, UserLeaves, Zenon
    <3> QED BY <3>1, <3>2, Zenon
  <2>6. AnswerTypes'
    BY <1>1, <1>3, <2>1, Zenon DEF AnswerTypes
  <2> QED BY <1>3, <2>5, <2>6, AllCarried, Zenon
<1> QED BY <1>5, <1>6, Zenon

(* Every step keeps the answers with their uses. *)
LEMMA AnswerPreserved == Counting /\ IInv /\ OrderInv /\ AnswerInv /\ [Next]_vars => AnswerInv'
<1> SUFFICES ASSUME Counting, IInv, OrderInv, AnswerInv, [Next]_vars PROVE AnswerInv'
  BY Zenon
<1>1. ASSUME Recover \/ Close \/ UNCHANGED vars PROVE AnswerInv'
  <2>1. AnswerTypes /\ Wires(queue, sock, sent, order)
    BY Zenon DEF AnswerInv, OrderInv
  <2>2. /\ UNCHANGED <<pool, nextId, hand, owed, use, pc>>
        /\ UNCHANGED <<misread, abandoned, queue, sock, inbox, back, unread>>
    BY <1>1, Zenon DEF Recover, Close, vars, clientVars, userVars, wireVars, serverVars, historyVars
  <2>3. \A i \in Ids : Lighter(i) /\ Stays(i)
    BY <2>1, <2>2, WaysStay, UsersStay, Zenon
  <2>4. AnswerTypes'
    BY <2>1, <2>2, Zenon DEF AnswerTypes
  <2> QED BY <2>2, <2>3, <2>4, AllCarried, Zenon
<1>2. ASSUME NEW u \in Users, UserStep(u) \/ WakeUp(u) PROVE AnswerInv'
  BY <1>2, UserAnswers, PopAnswers, InsertAnswers, FlushAnswers, ReadsOwn, PutBackAnswers, PushAnswers,
     Zenon DEF UserStep, WakeUp
<1> QED
  BY <1>1, <1>2, ClosePostedAnswers, ClientAnswers, DispatchAnswers, AnswerAnswers, CloseAtServer, Zenon
     DEF Next

(* Nothing has been asked at first. *)
LEMMA InitAnswers == Counting /\ Init => AnswerInv
<1> SUFFICES ASSUME Counting, Init PROVE AnswerInv
  BY Zenon
<1>1. /\ queue = <<>> /\ sock = <<>> /\ back = <<>> /\ misread = {}
      /\ inbox = [i \in Ids |-> <<>>] /\ unread = [i \in Ids |-> <<>>]
      /\ owed = [u \in Users |-> 0] /\ hand = [u \in Users |-> NoStream]
  BY Zenon DEF Init
<1>2. AnswerTypes
  <2>1. (\A S : <<>> \in Seq(S)) /\ 0 \in Int
    OBVIOUS
  <2> QED BY <1>1, <2>1, Zenon DEF AnswerTypes
<1>3. ASSUME NEW i \in Ids PROVE AnswersOf(i)
  <2>1. Len(<<>>) = 0
    OBVIOUS
  <2>2. Count(<<>>, i) = 0
    BY Zenon DEF Counting, CountsNat
  <2>3. inbox[i] = <<>> /\ unread[i] = <<>>
    BY <1>1, Zenon
  <2>4. UnderWay(i) = 0
    BY <1>1, <2>1, <2>2, <2>3 DEF UnderWay, Flow
  <2>5. i # NoStream
    BY SessionAssumption DEF Ids, NoStream
  <2>6. \A u \in Users : ~Busy(u, i)
    BY <1>1, <2>5, Zenon DEF Busy
  <2> QED BY <2>4, <2>6, Zenon DEF AnswersOf
<1> QED BY <1>1, <1>2, <1>3, Zenon DEF AnswerInv
-----------------------------------------------------------------------------
(* The theorems about finite sets are here and not among the modules this   *)
(* one extends because only what follows counts streams.                    *)
INSTANCE FiniteSetTheorems

(* As many streams are in the pool as there are positions. *)
LEMMA PooledCount ==
  ASSUME TypeOK, PoolInv PROVE Cardinality(Pooled) = pool.tail - pool.head
<1> DEFINE f == [k \in Positions |-> At(k)]
<1>1. f \in Bijection(Positions, Pooled)
  <2>1. f \in [Positions -> Pooled] /\ \A i \in Pooled : \E k \in Positions : f[k] = i
    BY PooledAt, Zenon
  <2>2. \A k, l \in Positions : f[k] = f[l] => k = l
    BY Zenon DEF PoolInv
  <2>3. f \in Injection(Positions, Pooled)
    BY <2>1, <2>2, Zenon DEF Injection, IsInjective
  <2>4. f \in Surjection(Positions, Pooled)
    BY <2>1, Zenon DEF Surjection
  <2> QED BY <2>3, <2>4, Zenon DEF Bijection
<1>2. ExistsBijection(Positions, Pooled)
  BY <1>1, Zenon DEF ExistsBijection
<1>3. pool.head \in Nat /\ pool.tail \in Nat /\ pool.head <= pool.tail
  BY Zenon DEF TypeOK, PoolInv
<1>4. /\ IsFiniteSet(Positions)
      /\ Cardinality(Positions) = pool.tail - pool.head
  <2>1. pool.head \in Int /\ pool.tail - 1 \in Int
    BY <1>3
  <2>2. /\ IsFiniteSet(pool.head..pool.tail-1)
        /\ Cardinality(pool.head..pool.tail-1) =
             IF pool.head > pool.tail - 1 THEN 0 ELSE pool.tail - 1 - pool.head + 1
    BY <2>1, FS_Interval, SMTT(30)
  <2> QED BY <1>3, <2>2, SMTT(30) DEF Positions
<1> QED BY <1>2, <1>4, FS_Bijection, Zenon

(* However GetStream and PutBack interleave, the pool gives each stream to  *)
(* one user at a time, for every capacity and number of users.              *)
THEOREM OneUserAtATime == Spec => []ExclusiveUse
<1>1. IInv => ExclusiveUse
  <2> SUFFICES ASSUME IInv PROVE ExclusiveUse
    BY Zenon
  <2>1. \A u \in Users : hand[u] \notin Pooled
    BY PooledAt, Zenon DEF IInv, PoolInv
  <2>2. Cardinality(Pooled) = pool.tail - pool.head
    BY PooledCount, Zenon DEF IInv
  <2> QED BY <2>1, <2>2, Zenon DEF IInv, HandInv, ExclusiveUse
<1> QED BY <1>1, Inductive, PTL

(* The messages of a stream are finitely many. *)
LEMMA CountNat ==
  ASSUME NEW q, Len(q) \in Nat, NEW i
  PROVE  /\ IsFiniteSet({p \in 1..Len(q) : Of(q[p], i)})
         /\ Count(q, i) \in Nat
<1>1. IsFiniteSet(1..Len(q))
  BY FS_Interval, SMTT(30)
<1>2. {p \in 1..Len(q) : Of(q[p], i)} \in SUBSET (1..Len(q))
  BY Zenon
<1>3. IsFiniteSet({p \in 1..Len(q) : Of(q[p], i)})
  BY <1>1, <1>2, FS_Subset, Zenon
<1> QED BY <1>3, FS_CardinalityType, Zenon DEF Count

(* A message more counts if it is of the stream. *)
LEMMA CountMore ==
  ASSUME NEW q, NEW r, NEW m, More(q, r, m), NEW i
  PROVE  /\ Count(q, i) \in Nat /\ Count(r, i) \in Nat
         /\ Of(m, i) => Count(r, i) = Count(q, i) + 1
         /\ ~Of(m, i) => Count(r, i) = Count(q, i)
<1> DEFINE Q == {p \in 1..Len(q) : Of(q[p], i)}
           R == {p \in 1..Len(r) : Of(r[p], i)}
           t == Len(q) + 1
<1>1. Len(q) \in Nat /\ Len(r) = t /\ Len(r) \in Nat
  BY DEF More
<1>2. IsFiniteSet(Q) /\ Count(q, i) \in Nat /\ Count(r, i) \in Nat
  BY <1>1, CountNat, Zenon
<1>3. t \notin 1..Len(q) /\ t \in 1..Len(r) /\ 1..Len(q) \subseteq 1..Len(r)
  BY <1>1
<1>4. r[t] = m /\ (\A p \in 1..Len(q) : r[p] = q[p])
      /\ \A p \in 1..Len(r) : p \in 1..Len(q) \/ p = t
  BY <1>3, Zenon DEF More
<1> HIDE DEF t
<1>5. Of(m, i) => R = Q \cup {t}
  BY <1>3, <1>4, Zenon
<1>6. ~Of(m, i) => R = Q
  BY <1>3, <1>4, Zenon
<1>7. t \notin Q
  BY <1>3, Zenon
<1>8. Cardinality(Q \cup {t}) = Cardinality(Q) + 1
  BY <1>2, <1>7, FS_AddElement, Zenon
<1> QED BY <1>2, <1>5, <1>6, <1>8, Zenon DEF Count

(* A message less does not count any more. *)
LEMMA CountLess ==
  ASSUME NEW q, NEW r, NEW m, Less(q, r, m), NEW i
  PROVE  /\ Count(q, i) \in Nat /\ Count(r, i) \in Nat
         /\ Of(m, i) => Count(q, i) = Count(r, i) + 1
         /\ ~Of(m, i) => Count(q, i) = Count(r, i)
<1> DEFINE Q == {p \in 1..Len(q) : Of(q[p], i)}
           R == {p \in 1..Len(r) : Of(r[p], i)}
           S == Q \ {1}
           f == [p \in R |-> p + 1]
<1>1. Len(q) \in Nat /\ Len(r) \in Nat /\ 1 \in 1..Len(q) /\ q[1] = m
  BY DEF Less
<1>2. IsFiniteSet(Q) /\ IsFiniteSet(R) /\ Count(q, i) \in Nat /\ Count(r, i) \in Nat
  BY <1>1, CountNat, Zenon
<1>3. ASSUME NEW p \in R PROVE p + 1 \in S /\ p \in Nat
  BY SMTT(30) DEF Less
<1>4. ASSUME NEW p \in S PROVE p - 1 \in R /\ p - 1 \in Nat /\ p = (p - 1) + 1
  <2>1. p \in 1..Len(q) /\ p # 1 /\ Of(q[p], i)
    BY Zenon
  <2>2. p - 1 \in 1..Len(r) /\ r[p-1] = q[p]
    BY <2>1, Zenon DEF Less
  <2> QED BY <2>1, <2>2, SMTT(30)
<1> HIDE DEF Q, R
<1>5. f \in Bijection(R, S)
  <2>1. f \in [R -> S] /\ \A p \in S : \E k \in R : f[k] = p
    BY <1>3, <1>4, Zenon
  <2>2. \A k, l \in R : f[k] = f[l] => k = l
    BY <1>3
  <2>3. f \in Injection(R, S)
    BY <2>1, <2>2, Zenon DEF Injection, IsInjective
  <2>4. f \in Surjection(R, S)
    BY <2>1, Zenon DEF Surjection
  <2> QED BY <2>3, <2>4, Zenon DEF Bijection
<1>6. Cardinality(S) = Cardinality(R)
  <2>1. ExistsBijection(R, S)
    BY <1>5, Zenon DEF ExistsBijection
  <2> QED BY <1>2, <2>1, FS_Bijection, Zenon
<1>7. CASE Of(m, i)
  <2>1. 1 \in Q
    BY <1>1, <1>7, Zenon DEF Q
  <2>2. Cardinality(S) = Cardinality(Q) - 1
    BY <1>2, <2>1, FS_RemoveElement, Zenon
  <2>3. Count(q, i) = Cardinality(Q) /\ Count(r, i) = Cardinality(R)
    BY Zenon DEF Count, Q, R
  <2> QED BY <1>2, <1>6, <1>7, <2>2, <2>3, SMTT(30)
<1>8. CASE ~Of(m, i)
  <2>1. S = Q
    BY <1>1, <1>8, Zenon DEF Q
  <2>2. Count(q, i) = Cardinality(Q) /\ Count(r, i) = Cardinality(R)
    BY Zenon DEF Count, Q, R
  <2> QED BY <1>2, <1>6, <1>8, <2>1, <2>2, Zenon
<1> QED BY <1>7, <1>8, Zenon

(* Counting is as it should be. *)
LEMMA Counted == Counting
<1>1. ASSUME NEW q, Len(q) \in Nat, NEW i, Count(q, i) = 0 PROVE \A w : Uses(q, i, w)
  <2> DEFINE Q == {p \in 1..Len(q) : Of(q[p], i)}
  <2>1. IsFiniteSet(Q) /\ Cardinality(Q) = 0
    BY <1>1, CountNat, Zenon DEF Count
  <2>2. Q = {}
    <3> HIDE DEF Q
    <3> QED BY <2>1, FS_EmptySet, SMTT(30)
  <2> QED BY <2>2, Zenon DEF Uses
<1>2. ASSUME NEW i PROVE Count(<<>>, i) = 0
  <2>1. Len(<<>>) = 0 /\ {p \in 1..0 : Of(<<>>[p], i)} = {}
    OBVIOUS
  <2> QED BY <2>1, FS_EmptySet, Zenon DEF Count
<1>3. CountsNat
  BY <1>1, <1>2, CountNat, Zenon DEF CountsNat
<1>4. CountsMore
  BY CountMore, SMTT(30) DEF CountsMore
<1>5. CountsLess
  BY CountLess, SMTT(30) DEF CountsLess
<1> QED BY <1>3, <1>4, <1>5, Zenon DEF Counting

(* A user never reads an answer of an earlier use of its stream, for any    *)
(* number of users, streams and places, unless the stream was put back with *)
(* an answer still on its way.                                              *)
THEOREM ReadsOwnAnswers == Spec => []OwnAnswers
<1>1. AnswerInv => OwnAnswers
  BY Zenon DEF AnswerInv, OwnAnswers
<1> QED BY <1>1, Counted, Inductive, InitOrder, OrderPreserved, InitAnswers, AnswerPreserved, PTL DEF Spec
=============================================================================
