---------------------------- MODULE LinkedBuffer ----------------------------
(***************************************************************************)
(* The linked buffers of one stream at both ends, with the slices of the   *)
(* shared memory they are made of: what is written at one end, flushed,    *)
(* moved into the receive buffer of the other end, read, pinned, released  *)
(* and recycled.  Loops over slices are written as the position where they *)
(* stop.  The free lists are queues here (BufferList models their races);  *)
(* a pop that loses such a race is in the set "miss" of an allocation.     *)
(* The peer's order of arrival is that of the flushes.                     *)
(***************************************************************************)
EXTENDS Integers, FiniteSets, SequencesExt, FiniteSetsExt

CONSTANTS Slices, CapOf,  \* slices of the shared memory and their capacities
          MaxBytes,       \* per end: how many bytes it writes
          Sizes,          \* sizes of reads and writes
          MinHeap,        \* defaultSingleBufferSize
          QueueCap,       \* capacity of the IO queue
          Misses,         \* lists whose pop may fail in allocShmBuffer
          DropUnsent      \* streams are reused with data that was not flushed

Ends == {"client", "server"}
Peer(e) == CHOOSE f \in Ends : f # e
None == "none"
Caps == {CapOf[s] : s \in Slices}
CapsDescending == SetToSortSeq(Caps, LAMBDA a, b : a > b)

ASSUME BufferAssumption ==
    /\ IsFiniteSet(Slices) /\ None \notin Slices /\ CapOf \in [Slices -> Nat \ {0}]
    /\ MaxBytes \in [Ends -> Nat] /\ Sizes \subseteq Nat \ {0} /\ MinHeap \in Nat
    /\ QueueCap \in Nat /\ Misses \subseteq SUBSET Caps /\ DropUnsent \in BOOLEAN

VARIABLES free,          \* per capacity: the free list
          mem,           \* per slice: its data area
          hdr,           \* per slice: size and next (None: no hasNext flag) in its header
          sendBuf, recvBuf,
          queue,         \* per end: what the peer sent and the end has not received
          pending,       \* per end: pendingData.unread
          state, inFallbackState,
          views,         \* per end: results of ReadBytes and Peek that lie in a slice
          count,         \* per end: how many bytes it wrote
          flushed,       \* per end, history: the bytes it sent
          received,      \* per end, history: the bytes it read
          panicked       \* a nil header or a missing byte was accessed

poolVars == <<free, hdr>>
vars == <<poolVars, mem, sendBuf, recvBuf, queue, pending, state, inFallbackState, views,
          count, flushed, received, panicked>>

-----------------------------------------------------------------------------
(* Slices (bufferSlice): data lies in the shared memory or on the heap. *)

Node(s, size) == [slice |-> s, cap |-> CapOf[s], r |-> 0, w |-> size, heap |-> <<>>]
HeapNode(cap, bytes) == [slice |-> None, cap |-> cap, r |-> 0, w |-> Len(bytes),
                         heap |-> bytes]
IsFromShm(n) == n.slice # None
Size(n) == n.w - n.r
Remain(n) == n.cap - n.w
Bytes(n) == SubSeq(IF IsFromShm(n) THEN mem[n.slice] ELSE n.heap, n.r + 1, n.w)
Overwrite(old, at, bytes) ==
    SubSeq(old, 1, at) \o bytes \o SubSeq(old, at + Len(bytes) + 1, Len(old))

(* Lists of slices.  write is the position of writeSlice; 0: nil.  A slice *)
(* that is popped while writeSlice still points to it leaves -1.           *)
EmptyBuffer(pinned) == [list |-> <<>>, write |-> 0, pinned |-> pinned,
                        currentPinned |-> FALSE, isFromShm |-> TRUE, len |-> 0]
SumOf(list, f(_)) ==
    LET sum[i \in 0..Len(list)] == IF i = 0 THEN 0 ELSE sum[i-1] + f(list[i])
    IN sum[Len(list)]
ShmSlices(list) == LET shm == SelectSeq(list, IsFromShm)
                   IN [i \in DOMAIN shm |-> shm[i].slice]
Contents(list) == FlattenSeq([i \in DOMAIN list |-> Bytes(list[i])])
PopFront(b, k) == [b EXCEPT !.list = SubSeq(@, k + 1, Len(@)),
                            !.write = IF @ > k THEN @ - k ELSE IF @ > 0 /\ k > 0 THEN -1 ELSE @]

-----------------------------------------------------------------------------
(* Allocation and recycling. *)

AllocShmBuffer(size, fr, miss) ==
    LET fit == {c \in Caps \ miss : size <= c /\ Len(fr[c]) > 1}
    IN IF fit = {} THEN [nodes |-> <<>>, free |-> fr]
       ELSE [nodes |-> <<Node(Head(fr[Min(fit)]), 0)>>,
             free |-> [fr EXCEPT ![Min(fit)] = Tail(@)]]

(* As many slices of the largest list as are needed or left, then of the   *)
(* next one.                                                               *)
AllocShmBuffers(size, fr) ==
    LET Take(acc, c) ==
            LET need == (acc.remain + c - 1) \div c
                k == Max({0, Min({need, Len(acc.free[c]) - 1})})
            IN [nodes |-> acc.nodes \o [i \in 1..k |-> Node(acc.free[c][i], 0)],
                free |-> [acc.free EXCEPT ![c] = SubSeq(@, k + 1, Len(@))],
                remain |-> acc.remain - k * c]
    IN FoldLeft(Take, [nodes |-> <<>>, free |-> fr, remain |-> size],
                CapsDescending)

(* linkedBuffer.alloc: the buffer with room for size bytes more. *)
Alloc(b, size, fr, miss) ==
    LET one == AllocShmBuffer(size, fr, miss)
        many == AllocShmBuffers(size, fr)
        heap == IF many.remain > 0 THEN <<HeapNode(Max({many.remain, MinHeap}), <<>>)>>
                ELSE <<>>
    IN IF one.nodes # <<>> THEN [buf |-> [b EXCEPT !.list = @ \o one.nodes], free |-> one.free]
       ELSE [buf |-> [b EXCEPT !.list = @ \o many.nodes \o heap,
                               !.isFromShm = @ /\ heap = <<>>],
             free |-> many.free]

Returned(fr, ss) == [c \in Caps |-> fr[c] \o SelectSeq(ss, LAMBDA s : CapOf[s] = c)]
Cleared(h, ss) == [s \in Slices |-> IF Contains(ss, s) THEN [size |-> 0, next |-> None]
                                    ELSE h[s]]
Recycle(ss) == free' = Returned(free, ss) /\ hdr' = Cleared(hdr, ss)

(* The slices of a message: recycleBuffers, and moveTo, follow the headers. *)
Chain(first) ==
    LET f[k \in 0..Cardinality(Slices)] ==
            IF k = 0 THEN <<first>>
            ELSE LET c == f[k-1]
                 IN IF hdr[Last(c)].next = None THEN c ELSE Append(c, hdr[Last(c)].next)
    IN f[Cardinality(Slices)]

-----------------------------------------------------------------------------
(* Writing.  The bytes of an end are numbered. *)

Fresh(e, n) == [i \in 1..n |-> <<e, count[e] + i>>]

(* append, from position "from" of the list on. *)
Fill(b, from, data) ==
    LET Before(i) == MapThenSumSet(LAMBDA j : Remain(b.list[j]), from..i-1)
        Amount(i) == Max({0, Min({Remain(b.list[i]), Len(data) - Before(i)})})
        Part(i) == IF i < from THEN <<>> ELSE SubSeq(data, Before(i) + 1, Before(i) + Amount(i))
        Filled(i) == [b.list[i] EXCEPT !.w = @ + Len(Part(i)),
                                       !.heap = IF IsFromShm(b.list[i]) THEN @ ELSE @ \o Part(i)]
        At(s) == {i \in DOMAIN b.list : b.list[i].slice = s}
    IN [buf |-> [b EXCEPT !.list = [i \in DOMAIN b.list |-> Filled(i)],
                          !.write = Min({i \in from..Len(b.list) :
                                            Before(i) + Remain(b.list[i]) >= Len(data)}),
                          !.len = @ + Len(data)],
        mem |-> [s \in Slices |->
                    IF At(s) = {} THEN mem[s]
                    ELSE LET i == Min(At(s)) IN Overwrite(mem[s], b.list[i].w, Part(i))]]

(* Put data into a buffer that has room for it from a position on. *)
Write(e, a, from, data) ==
    LET f == Fill(a.buf, from, data)
    IN /\ sendBuf' = [sendBuf EXCEPT ![e] = f.buf]
       /\ mem' = f.mem /\ free' = a.free
       /\ count' = [count EXCEPT ![e] = @ + Len(data)]
       /\ UNCHANGED <<hdr, recvBuf, queue, pending, state, inFallbackState, views,
                      flushed, received, panicked>>

MayWrite(e, n) == state[e] # "closed" /\ count[e] + n <= MaxBytes[e]
Unchanged(b) == [buf |-> b, free |-> free]
WritePos(b) == IF b.write = 0 THEN 1 ELSE b.write

WriteByte(e) ==
    /\ MayWrite(e, 1)
    /\ LET b == sendBuf[e]
       IN IF b.write # 0 /\ Remain(b.list[b.write]) > 0
          THEN Write(e, Unchanged(b), b.write, Fresh(e, 1))
          ELSE \E miss \in Misses :
                  Write(e, Alloc(b, 1, free, miss), b.write + 1, Fresh(e, 1))

WriteBytes(e, n) ==
    /\ MayWrite(e, n)
    /\ LET b == sendBuf[e]
           room == IF b.write = 0 THEN 0
                   ELSE SumOf(SubSeq(b.list, b.write, Len(b.list)), Remain)
       IN \E miss \in Misses :
             Write(e, IF n > room THEN Alloc(b, n - room, free, miss) ELSE Unchanged(b),
                   WritePos(b), Fresh(e, n))

(* Reserve, and the user's stores to the reserved space. *)
Reserve(e, n) ==
    /\ MayWrite(e, n)
    /\ \E miss1, miss2 \in Misses :
          LET b == sendBuf[e]
              a == IF b.write = 0 THEN Alloc(b, n, free, miss1) ELSE Unchanged(b)
              cur == WritePos(b)
              fits == {i \in {cur, cur + 1} : i <= Len(a.buf.list)
                                              /\ Remain(a.buf.list[i]) >= n}
              one == AllocShmBuffer(n, a.free, miss2)
              last == IF one.nodes # <<>> THEN one.nodes
                      ELSE <<HeapNode(Max({n, MinHeap}), <<>>)>>
              grown == [a.buf EXCEPT !.list = @ \o last, !.isFromShm = @ /\ one.nodes # <<>>]
          IN IF fits # {} THEN Write(e, a, Min(fits), Fresh(e, n))
             ELSE Write(e, [buf |-> grown, free |-> one.free], Len(grown.list), Fresh(e, n))

-----------------------------------------------------------------------------
(* Flush: done, then the queue or the connection. *)

(* The headers that done leaves in the slices up to writeSlice. *)
Update(h, b) ==
    [s \in Slices |->
        LET at == {i \in 1..b.write : b.list[i].slice = s}
        IN IF at = {} THEN h[s]
           ELSE LET i == Min(at)
                IN [size |-> Size(b.list[i]),
                    next |-> IF i < Len(b.list) THEN b.list[i+1].slice ELSE h[s].next]]

Flush(e) ==
    LET b == sendBuf[e]
        used == SubSeq(b.list, 1, b.write)
        unused == ShmSlices(SubSeq(b.list, b.write + 1, Len(b.list)))
        fallback == inFallbackState[e] \/ ~b.isFromShm
        Send(m) == /\ queue' = [queue EXCEPT ![Peer(e)] = Append(@, m)]
                   /\ flushed' = [flushed EXCEPT ![e] = @ \o Contents(used)]
    IN /\ b.len > 0
       /\ sendBuf' = [sendBuf EXCEPT ![e] = EmptyBuffer(b.pinned)]
       /\ inFallbackState' = [inFallbackState EXCEPT ![e] = @ \/ (state[e] = "opened" /\ fallback)]
       /\ \/ /\ state[e] = "opened" /\ fallback
             /\ Recycle(ShmSlices(b.list))
             /\ Send([kind |-> "fallback", first |-> None, bytes |-> Contents(used)])
          \/ /\ state[e] = "opened" /\ ~fallback /\ Len(queue[Peer(e)]) < QueueCap
             /\ free' = Returned(free, unused)
             /\ hdr' = Cleared(Update(hdr, b), unused)
             /\ Send([kind |-> "shm", first |-> b.list[1].slice, bytes |-> <<>>])
          \/ /\ state[e] # "opened" \/ (~fallback /\ Len(queue[Peer(e)]) >= QueueCap)
             /\ Recycle(ShmSlices(b.list))
             /\ UNCHANGED <<queue, flushed>>
       /\ UNCHANGED <<mem, recvBuf, pending, state, views, count, received, panicked>>

-----------------------------------------------------------------------------
(* Receiving. *)

(* The dispatcher takes the next element: fillDataToReadBuffer or halfClose, *)
(* and recycleBuffers when the stream is closed.                             *)
Arrive(e) ==
    /\ queue[e] # <<>>
    /\ LET m == Head(queue[e])
           data == m.kind # "close"
       IN /\ queue' = [queue EXCEPT ![e] = Tail(@)]
          /\ state' = [state EXCEPT ![e] = IF @ = "opened" /\ ~data THEN "halfClosed" ELSE @]
          /\ pending' = [pending EXCEPT ![e] = IF data /\ state[e] # "closed"
                                               THEN Append(@, m) ELSE @]
          /\ IF m.kind = "shm" /\ state[e] = "closed" THEN Recycle(Chain(m.first))
             ELSE UNCHANGED poolVars
    /\ UNCHANGED <<mem, sendBuf, recvBuf, inFallbackState, views, count, flushed, received,
                   panicked>>

(* One message of pendingData appended to a buffer: its empty slices are   *)
(* recycled, which unlinks them from the slice before them.                *)
AppendMessage(acc, m) ==
    LET chain == IF m.kind = "shm" THEN Chain(m.first) ELSE <<>>
        full == SelectSeq(chain, LAMBDA s : hdr[s].size > 0)
        nodes == IF m.kind = "fallback" THEN <<HeapNode(Len(m.bytes), m.bytes)>>
                 ELSE [i \in DOMAIN full |-> Node(full[i], hdr[full[i]].size)]
        list == acc.buf.list \o nodes
        bad == /\ chain # <<>> /\ hdr[chain[1]].size = 0
               /\ IF acc.buf.list = <<>> THEN full = <<>> ELSE ~IsFromShm(Last(acc.buf.list))
    IN [buf |-> [acc.buf EXCEPT !.list = list, !.write = IF nodes = <<>> THEN @ ELSE Len(list),
                                !.len = @ + SumOf(nodes, Size),
                                !.isFromShm = @ /\ m.kind = "shm"],
        empty |-> acc.empty \o SelectSeq(chain, LAMBDA s : hdr[s].size = 0),
        bad |-> acc.bad \/ bad]

MoveTo(e) ==
    /\ pending[e] # <<>> /\ state[e] # "closed"
    /\ LET moved == FoldLeft(AppendMessage,
                             [buf |-> recvBuf[e], empty |-> <<>>, bad |-> FALSE], pending[e])
       IN /\ recvBuf' = [recvBuf EXCEPT ![e] = moved.buf]
          /\ Recycle(moved.empty)
          /\ panicked' = (panicked \/ moved.bad)
    /\ inFallbackState' = [inFallbackState EXCEPT
                              ![e] = @ \/ \E i \in DOMAIN pending[e] :
                                             pending[e][i].kind = "fallback"]
    /\ pending' = [pending EXCEPT ![e] = <<>>]
    /\ UNCHANGED <<mem, sendBuf, queue, state, views, count, flushed, received>>

-----------------------------------------------------------------------------
(* Reading.  Each read leaves behind, with readNextSlice, the slices before *)
(* the one where its last byte lies.                                        *)

Behind(b, n) == Cardinality({i \in DOMAIN b.list : SumOf(SubSeq(b.list, 1, i), Size) < n})

(* readNextSlice, k times: a slice that is pinned stays until the release. *)
ForgetPin(b, k) ==
    [buf |-> [PopFront(b, k) EXCEPT !.currentPinned = @ /\ k = 0],
     gone |-> ShmSlices(SubSeq(b.list, 1, k))]

ReadNextSlices(b, k) ==
    LET keep == k > 0 /\ b.currentPinned /\ IsFromShm(b.list[1])
    IN [buf |-> [PopFront(b, k) EXCEPT !.currentPinned = @ /\ k = 0,
                                       !.pinned = IF keep THEN Append(@, b.list[1]) ELSE @],
        gone |-> ShmSlices(SubSeq(b.list, IF keep THEN 2 ELSE 1, k))]

(* Take n bytes after leaving k slices behind; pin: as a view of the slice. *)
Take(e, n, k, pin) ==
    LET b == recvBuf[e]
        next == ReadNextSlices(b, k)
        m == n - SumOf(SubSeq(b.list, 1, k), Size)
        list == next.buf.list
        seen == IF list = <<>> THEN <<>> ELSE SubSeq(Bytes(list[1]), 1, m)
    IN /\ recvBuf' = [recvBuf EXCEPT ![e] =
                         [next.buf EXCEPT
                             !.list = IF @ = <<>> THEN @ ELSE [@ EXCEPT ![1].r = @ + m],
                             !.len = @ - n,
                             !.currentPinned = @ \/ pin]]
       /\ Recycle(next.gone)
       /\ received' = [received EXCEPT ![e] = @ \o Contents(SubSeq(b.list, 1, k)) \o seen]
       /\ views' = [views EXCEPT ![e] =
                       IF pin /\ IsFromShm(list[1])
                       THEN @ \cup {[slice |-> list[1].slice, from |-> list[1].r, bytes |-> seen]}
                       ELSE @]
       /\ UNCHANGED <<mem, sendBuf, queue, pending, state, inFallbackState, count, flushed>>

CanRead(e, n) == state[e] # "closed" /\ recvBuf[e].len >= n

(* read: what is there, up to n bytes. *)
Read(e, n) == /\ CanRead(e, 1)
              /\ Take(e, Min({n, recvBuf[e].len}), Behind(recvBuf[e], n), FALSE)
              /\ UNCHANGED panicked

ReadByte(e) ==
    /\ CanRead(e, 1)
    /\ IF Behind(recvBuf[e], 1) > 1
       THEN panicked' = TRUE /\ UNCHANGED <<poolVars, mem, sendBuf, recvBuf, queue, pending, state,
                                            inFallbackState, views, count, flushed, received>>
       ELSE Take(e, 1, Behind(recvBuf[e], 1), FALSE) /\ UNCHANGED panicked

(* The fast path: all n bytes in the front slice, or in the one after an   *)
(* empty front slice.                                                      *)
ReadBytes(e, n) ==
    LET b == recvBuf[e]
        i == IF Size(b.list[1]) = 0 THEN 2 ELSE 1
    IN /\ CanRead(e, n)
       /\ Take(e, n, Behind(b, n), Size(b.list[i]) >= n)
       /\ UNCHANGED panicked

ReadString(e, n) == /\ CanRead(e, n)
                    /\ Take(e, n, Behind(recvBuf[e], n), FALSE)
                    /\ UNCHANGED panicked

Discard(e, n) == /\ CanRead(e, n)
                 /\ Take(e, n, Behind(recvBuf[e], n), FALSE)
                 /\ UNCHANGED panicked

(* Only a Peek that is answered from the front slice leaves a view. *)
Peek(e, n) ==
    LET front == recvBuf[e].list[1]
    IN /\ CanRead(e, n) /\ Size(front) >= n
       /\ recvBuf' = [recvBuf EXCEPT ![e].currentPinned = TRUE]
       /\ views' = [views EXCEPT ![e] =
                       IF IsFromShm(front)
                       THEN @ \cup {[slice |-> front.slice, from |-> front.r,
                                     bytes |-> SubSeq(Bytes(front), 1, n)]}
                       ELSE @]
       /\ UNCHANGED <<poolVars, mem, sendBuf, queue, pending, state, inFallbackState, count,
                      flushed, received, panicked>>

-----------------------------------------------------------------------------
(* Releasing. *)

CleanPinnedList(b) == [b EXCEPT !.pinned = <<>>, !.currentPinned = @ /\ b.pinned = <<>>]

ReleasePreviousRead(e) ==
    LET b == CleanPinnedList(recvBuf[e])
        drained == b.list # <<>> /\ Size(b.list[1]) = 0 /\ b.write = 1
        gone == recvBuf[e].pinned \o (IF drained THEN <<b.list[1]>> ELSE <<>>)
    IN /\ state[e] # "closed"
       /\ recvBuf' = [recvBuf EXCEPT ![e] = IF drained THEN [PopFront(b, 1) EXCEPT !.write = 0]
                                            ELSE b]
       /\ Recycle(ShmSlices(gone))
       /\ views' = [views EXCEPT ![e] = {}]
       /\ UNCHANGED <<mem, sendBuf, queue, pending, state, inFallbackState, count, flushed,
                      received, panicked>>

(* The read buffer with its last slice emptied for the next write. *)
ReserveDirty(b) == CleanPinnedList(b)

ReserveLast(b) ==
    LET c == CleanPinnedList(b)
    IN IF c.len = 0 /\ Len(c.list) = 1
       THEN IF IsFromShm(c.list[1]) THEN [c EXCEPT !.list[1] = Node(c.list[1].slice, 0)]
            ELSE PopFront(c, 1)
       ELSE c

ReleaseReadAndReuse(e) ==
    LET b == ReserveLast(recvBuf[e])
        reuse == b.len = 0 /\ Len(b.list) = 1
    IN /\ state[e] # "closed"
       /\ DropUnsent \/ sendBuf[e].len = 0
       /\ recvBuf' = [recvBuf EXCEPT ![e] = IF reuse THEN sendBuf[e] ELSE b]
       /\ sendBuf' = [sendBuf EXCEPT ![e] = IF reuse THEN b ELSE @]
       /\ free' = Returned(free, ShmSlices(recvBuf[e].pinned))
       /\ hdr' = Cleared(hdr, ShmSlices(recvBuf[e].pinned)
                              \o (IF reuse THEN ShmSlices(b.list) ELSE <<>>))
       /\ views' = [views EXCEPT ![e] = {}]
       /\ UNCHANGED <<mem, queue, pending, state, inFallbackState, count, flushed, received,
                      panicked>>

(* close: pendingData.clear, and recycle of both buffers.  pinnedList is   *)
(* left as it is.                                                          *)
CloseKeepsPending(e) ==
    /\ state[e] # "closed"
    /\ state' = [state EXCEPT ![e] = "closed"]
    /\ pending' = [pending EXCEPT ![e] = <<>>]
    /\ Recycle(ShmSlices(recvBuf[e].list) \o ShmSlices(sendBuf[e].list))
    /\ recvBuf' = [recvBuf EXCEPT ![e] = EmptyBuffer(@.pinned)]
    /\ sendBuf' = [sendBuf EXCEPT ![e] = EmptyBuffer(@.pinned)]
    /\ views' = [views EXCEPT ![e] = {}]
    /\ UNCHANGED <<mem, queue, inFallbackState, count, flushed, received, panicked>>

Close(e) ==
    LET chains == FlattenSeq([i \in DOMAIN pending[e] |->
                                 IF pending[e][i].kind = "shm" THEN Chain(pending[e][i].first)
                                 ELSE <<>>])
    IN /\ state[e] # "closed"
       /\ state' = [state EXCEPT ![e] = "closed"]
       /\ pending' = [pending EXCEPT ![e] = <<>>]
       /\ Recycle(chains \o ShmSlices(recvBuf[e].list) \o ShmSlices(sendBuf[e].list))
       /\ recvBuf' = [recvBuf EXCEPT ![e] = EmptyBuffer(@.pinned)]
       /\ sendBuf' = [sendBuf EXCEPT ![e] = EmptyBuffer(@.pinned)]
       /\ views' = [views EXCEPT ![e] = {}]
       /\ queue' = [queue EXCEPT ![Peer(e)] =
                       IF state[e] = "opened"
                       THEN Append(@, [kind |-> "close", first |-> None, bytes |-> <<>>]) ELSE @]
       /\ UNCHANGED <<mem, inFallbackState, count, flushed, received, panicked>>

-----------------------------------------------------------------------------
Init ==
    /\ free = [c \in Caps |-> SetToSeq({s \in Slices : CapOf[s] = c})]
    /\ mem = [s \in Slices |-> [i \in 1..CapOf[s] |-> <<None, 0>>]]
    /\ hdr = [s \in Slices |-> [size |-> 0, next |-> None]]
    /\ sendBuf = [e \in Ends |-> EmptyBuffer(<<>>)]
    /\ recvBuf = [e \in Ends |-> EmptyBuffer(<<>>)]
    /\ queue = [e \in Ends |-> <<>>] /\ pending = [e \in Ends |-> <<>>]
    /\ state = [e \in Ends |-> "opened"]
    /\ inFallbackState = [e \in Ends |-> FALSE]
    /\ views = [e \in Ends |-> {}]
    /\ count = [e \in Ends |-> 0]
    /\ flushed = [e \in Ends |-> <<>>] /\ received = [e \in Ends |-> <<>>]
    /\ panicked = FALSE

Next == \E e \in Ends :
    \/ WriteByte(e) \/ Flush(e) \/ Arrive(e) \/ MoveTo(e) \/ ReadByte(e)
    \/ ReleasePreviousRead(e) \/ ReleaseReadAndReuse(e) \/ Close(e)
    \/ \E n \in Sizes : \/ WriteBytes(e, n) \/ Reserve(e, n) \/ Read(e, n) \/ ReadBytes(e, n)
                        \/ ReadString(e, n) \/ Discard(e, n) \/ Peek(e, n)

Spec == Init /\ [][Next]_vars

-----------------------------------------------------------------------------
MessageSlices(ms) == FlattenSeq([i \in DOMAIN ms |-> IF ms[i].kind = "shm" THEN Chain(ms[i].first)
                                                    ELSE <<>>])
HeldBy(e) == ShmSlices(sendBuf[e].list \o sendBuf[e].pinned \o recvBuf[e].list \o recvBuf[e].pinned)
             \o MessageSlices(pending[e]) \o MessageSlices(queue[e])

(* No slice is lost and none has two owners: each is in a free list, in a  *)
(* buffer of one end, pinned there, or part of one message under way,      *)
(* found by following the headers as the peer will (recycle, done, moveTo, *)
(* recycleBuffers).                                                        *)
SlicesConserved ==
    LET all == FlattenSeq([c \in 1..Max(Caps) |-> IF c \in Caps THEN free[c] ELSE <<>>])
               \o HeldBy("client") \o HeldBy("server")
    IN Len(all) = Cardinality(Slices) /\ ToSet(all) = Slices

MessageBytes(m) ==
    IF m.kind = "shm"
    THEN LET c == Chain(m.first)
         IN FlattenSeq([i \in DOMAIN c |-> SubSeq(mem[c[i]], 1, hdr[c[i]].size)])
    ELSE m.bytes
AllBytes(ms) == FlattenSeq([i \in DOMAIN ms |-> MessageBytes(ms[i])])

(* What an end has read, has in its buffer and has still to receive is     *)
(* exactly what the other end flushed, in order, whether it went through   *)
(* shared memory, through the connection, or in a reused slice; Len() is   *)
(* what the slices hold; and neither moveTo nor ReadByte panics on empty   *)
(* slices.                                                                 *)
BytesInOrder ==
    \A e \in Ends :
        /\ IF state[e] = "closed" THEN IsPrefix(received[e], flushed[Peer(e)])
           ELSE received[e] \o Contents(recvBuf[e].list) \o AllBytes(pending[e])
                \o AllBytes(queue[e]) = flushed[Peer(e)]
        /\ \A b \in {sendBuf[e], recvBuf[e]} : b.len = SumOf(b.list, Size)
        /\ ~panicked

(* The result of ReadBytes or Peek keeps its bytes, and its slice, until   *)
(* the next release ("when ReleasePreviousRead() was called, the results   *)
(* ... will be invalid").                                                  *)
ViewsIntact ==
    \A e \in Ends : \A v \in views[e] :
        /\ SubSeq(mem[v.slice], v.from + 1, v.from + Len(v.bytes)) = v.bytes
        /\ \A c \in Caps : ~Contains(free[c], v.slice)

(* What an end reads was written by the other end, also when the stream is *)
(* reused with ReleaseReadAndReuse while written data is not flushed.      *)
ReadsPeersBytes == \A e \in Ends : \A i \in DOMAIN received[e] : received[e][i][1] = Peer(e)
=============================================================================
