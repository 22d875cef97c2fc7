----------------------------- MODULE BufferList -----------------------------
(***************************************************************************)
(* bufferList: the lock-free list of free slices of one size, shared by    *)
(* the goroutines of both processes.  Slices are named by their position   *)
(* in the buffer region.  pop and push are split into their accesses to    *)
(* the shared memory; the fields of a slice that only its owner uses       *)
(* (cap, size, start, data) and counter, which pop and push update and     *)
(* never read, are left out.                                               *)
(***************************************************************************)
EXTENDS Integers, FiniteSets

CONSTANTS Procs,      \* goroutines of both processes
          Poppers,    \* those of them that allocate; all of them recycle
          N,          \* number of slices (bufferNum)
          MaxRetry,   \* how often pop retries (200 in the code)
          MultiSlice  \* messages may span several slices

ASSUME ListAssumption == /\ N \in Nat \ {0} /\ MaxRetry \in Nat \ {0}
                         /\ Poppers \subseteq Procs /\ IsFiniteSet(Procs)
                         /\ MultiSlice \in BOOLEAN

Slices == 0..N-1

VARIABLES head, tail, size,
          next, hasNext, \* the headers of the slices
          out,          \* how often a slice is in the hands of its users
          used,         \* how many slices are
          pc,
          at,           \* oldHead of pop, oldTail of push
          nx,           \* the successor that pop read
          mine,         \* the slice that push returns
          try           \* retries of pop left

sliceVars == <<next, hasNext>>
userVars == <<out, used>>
vars == <<head, tail, size, sliceVars, userVars, pc, at, nx, mine, try>>

(* createFreeBufferList, and the locals of goroutines that do nothing. *)
Init == /\ head = 0 /\ tail = N - 1 /\ size = N
        /\ next = [i \in Slices |-> IF i < N - 1 THEN i + 1 ELSE 0]
        /\ hasNext = [i \in Slices |-> i < N - 1]
        /\ out = [i \in Slices |-> 0] /\ used = 0
        /\ pc = [p \in Procs |-> "idle"]
        /\ at = [p \in Procs |-> 0] /\ nx = [p \in Procs |-> 0]
        /\ mine = [p \in Procs |-> 0] /\ try = [p \in Procs |-> 0]

Goto(p, from, to) == pc[p] = from /\ pc' = [pc EXCEPT ![p] = to]
Set(v, p, x) == [v EXCEPT ![p] = x]
-----------------------------------------------------------------------------
(* pop *)

PopLoadHead(p) ==
    /\ Goto(p, "idle", "reserve")
    /\ at' = Set(at, p, head) /\ try' = Set(try, p, MaxRetry)
    /\ UNCHANGED <<head, tail, size, sliceVars, userVars, nx, mine>>

PopReserve(p) ==
    /\ IF size - 1 <= 0 THEN Goto(p, "reserve", "unreserve")
                        ELSE Goto(p, "reserve", "checkNext")
    /\ size' = size - 1
    /\ UNCHANGED <<head, tail, sliceVars, userVars, at, nx, mine, try>>

(* The three returns with ErrNoMoreBuffer. *)
PopUnreserve(p) ==
    /\ Goto(p, "unreserve", "idle")
    /\ size' = size + 1
    /\ at' = Set(at, p, 0) /\ try' = Set(try, p, 0)
    /\ UNCHANGED <<head, tail, sliceVars, userVars, nx, mine>>

PopCheckNext(p) ==
    /\ IF hasNext[at[p]] THEN Goto(p, "checkNext", "readNext")
                         ELSE Goto(p, "checkNext", "checkSize")
    /\ UNCHANGED <<head, tail, size, sliceVars, userVars, at, nx, mine, try>>

PopReadNext(p) ==
    /\ Goto(p, "readNext", "casHead")
    /\ nx' = Set(nx, p, next[at[p]])
    /\ UNCHANGED <<head, tail, size, sliceVars, userVars, at, mine, try>>

PopCasHead(p) ==
    /\ IF head = at[p] THEN Goto(p, "casHead", "clearFlag") /\ head' = nx[p]
                       ELSE Goto(p, "casHead", "reload") /\ UNCHANGED head
    /\ nx' = Set(nx, p, 0)
    /\ UNCHANGED <<tail, size, sliceVars, userVars, at, mine, try>>

(* "don't alloc the last slice" *)
PopCheckSize(p) ==
    /\ IF size <= 1 THEN Goto(p, "checkSize", "unreserve")
                    ELSE Goto(p, "checkSize", "reload")
    /\ UNCHANGED <<head, tail, size, sliceVars, userVars, at, nx, mine, try>>

PopReload(p) ==
    /\ IF try[p] = 1 THEN Goto(p, "reload", "unreserve")
                     ELSE Goto(p, "reload", "checkNext")
    /\ at' = Set(at, p, head) /\ try' = Set(try, p, try[p] - 1)
    /\ UNCHANGED <<head, tail, size, sliceVars, userVars, nx, mine>>

(* clearFlag and setInUsed; only debugging reads the in-use bit. *)
PopClearFlag(p) ==
    /\ Goto(p, "clearFlag", "return")
    /\ hasNext' = Set(hasNext, at[p], FALSE)
    /\ UNCHANGED <<head, tail, size, next, userVars, at, nx, mine, try>>

(* The last step hands the slice out. *)
PopReturn(p) ==
    /\ Goto(p, "return", "idle")
    /\ out' = [out EXCEPT ![at[p]] = @ + 1] /\ used' = used + 1
    /\ at' = Set(at, p, 0) /\ try' = Set(try, p, 0)
    /\ UNCHANGED <<head, tail, size, sliceVars, nx, mine>>

PopStep(p) == \/ PopLoadHead(p) \/ PopReserve(p) \/ PopUnreserve(p)
              \/ PopCheckNext(p) \/ PopReadNext(p) \/ PopCasHead(p)
              \/ PopCheckSize(p) \/ PopReload(p) \/ PopClearFlag(p)
              \/ PopReturn(p)
-----------------------------------------------------------------------------
(* bufferSlice.update: the user of a slice links it to the next slice of    *)
(* its message, by an offset that means nothing to the free list.           *)
Link(i) ==
    /\ MultiSlice /\ out[i] > 0
    /\ \E j \in Slices : next' = Set(next, i, j)
    /\ hasNext' = Set(hasNext, i, TRUE)
    /\ UNCHANGED <<head, tail, size, userVars, pc, at, nx, mine, try>>
-----------------------------------------------------------------------------
(* push, of a slice that either process allocated *)

ResetForgotten(p, i) ==
    /\ out[i] > 0 /\ out' = [out EXCEPT ![i] = @ - 1] /\ used' = used - 1
    /\ Goto(p, "idle", "loadTail")
    /\ mine' = Set(mine, p, i)
    /\ UNCHANGED <<head, tail, size, sliceVars, at, nx, try>>

PushReset(p, i) ==
    /\ out[i] > 0 /\ out' = [out EXCEPT ![i] = @ - 1] /\ used' = used - 1
    /\ Goto(p, "idle", "loadTail")
    /\ mine' = Set(mine, p, i)
    /\ hasNext' = Set(hasNext, i, FALSE)
    /\ UNCHANGED <<head, tail, size, next, at, nx, try>>

PushLoadTail(p) ==
    /\ Goto(p, "loadTail", "casTail")
    /\ at' = Set(at, p, tail)
    /\ UNCHANGED <<head, tail, size, sliceVars, userVars, nx, mine, try>>

StoreTail(p) ==
    /\ Goto(p, "casTail", "linkNext") /\ tail' = mine[p]
    /\ UNCHANGED <<head, size, sliceVars, userVars, at, nx, mine, try>>

PushCasTail(p) ==
    /\ IF tail = at[p] THEN Goto(p, "casTail", "linkNext") /\ tail' = mine[p]
                       ELSE Goto(p, "casTail", "loadTail") /\ UNCHANGED tail
    /\ UNCHANGED <<head, size, sliceVars, userVars, at, nx, mine, try>>

PushLinkNext(p) ==
    /\ Goto(p, "linkNext", "linkFlag")
    /\ next' = Set(next, at[p], mine[p])
    /\ UNCHANGED <<head, tail, size, hasNext, userVars, at, nx, mine, try>>

PushLinkFlag(p) ==
    /\ Goto(p, "linkFlag", "addSize")
    /\ hasNext' = Set(hasNext, at[p], TRUE)
    /\ UNCHANGED <<head, tail, size, next, userVars, at, nx, mine, try>>

PushSizeForgotten(p) ==
    /\ Goto(p, "addSize", "idle")
    /\ at' = Set(at, p, 0) /\ mine' = Set(mine, p, 0)
    /\ UNCHANGED <<head, tail, size, sliceVars, userVars, nx, try>>

PushAddSize(p) ==
    /\ Goto(p, "addSize", "idle")
    /\ size' = size + 1
    /\ at' = Set(at, p, 0) /\ mine' = Set(mine, p, 0)
    /\ UNCHANGED <<head, tail, sliceVars, userVars, nx, try>>

PushStep(p) == \/ \E i \in Slices : PushReset(p, i)
               \/ PushLoadTail(p) \/ PushCasTail(p) \/ PushLinkNext(p)
               \/ PushLinkFlag(p) \/ PushAddSize(p)

Next == \/ \E p \in Poppers : PopStep(p)
        \/ \E p \in Procs : PushStep(p)
        \/ \E i \in Slices : Link(i)

Spec == Init /\ [][Next]_vars
-----------------------------------------------------------------------------
Granted == {"checkNext", "readNext", "casHead", "checkSize", "reload"}
Taken == {"clearFlag", "return"}
Unlinked == {"loadTail", "casTail"}
Linking == {"linkNext", "linkFlag"}
Steps == {"idle", "reserve", "unreserve", "addSize"}
         \cup Granted \cup Taken \cup Unlinked \cup Linking

(* Types, and pop's bound on its retries. *)
TypeOK ==
    /\ head \in Slices /\ tail \in Slices /\ size \in Int
    /\ next \in [Slices -> Slices] /\ hasNext \in [Slices -> BOOLEAN]
    /\ out \in [Slices -> Nat] /\ used \in Int
    /\ pc \in [Procs -> Steps]
    /\ at \in [Procs -> Slices] /\ nx \in [Procs -> Slices]
    /\ mine \in [Procs -> Slices] /\ try \in [Procs -> 0..MaxRetry]
    /\ \A p \in Procs : pc[p] \in Granted \cup {"reserve"} => try[p] > 0

At(steps) == {p \in Procs : pc[p] \in steps}

(* Who holds slice i: its users, the pop that has just taken it, the push   *)
(* that has not yet made it the tail.                                       *)
Holders(i) == out[i] + Cardinality({p \in At(Taken) : at[p] = i})
                     + Cardinality({p \in At(Unlinked) : mine[p] = i})

(* No slice is allocated twice: pop and push of both processes, whatever    *)
(* their interleaving, give every slice at most one holder.                 *)
NoDoubleAllocation == \A i \in Slices : Holders(i) <= 1

(* The slices met from head on, following the links. *)
Walk[k \in 0..N] ==
    IF k = 0 THEN head
    ELSE IF hasNext[Walk[k - 1]] THEN next[Walk[k - 1]] ELSE Walk[k - 1]

(* No slice is lost: when no push is between moving the tail and linking    *)
(* the old one, the links lead from head to tail through exactly the slices *)
(* that nobody holds.                                                       *)
FreeListIntact ==
    At(Linking) = {} =>
        /\ Walk[N] = tail
        /\ {Walk[k] : k \in 0..N} = {i \in Slices : Holders(i) = 0}

(* The steps of a call that holds a slice or a claim to one, and those for  *)
(* which pop has decremented size or push has not incremented it yet.       *)
Pending == Granted \cup Taken \cup Unlinked \cup Linking \cup {"addSize"}
Counted == Pending \cup {"unreserve"}

(* size is short of N by exactly the slices in use and the calls under way, *)
(* whatever the interleaving of pops, failed pops and pushes.               *)
SizeAccounting == size = N - used - Cardinality(At(Counted))

(* "don't alloc the last slice": pops that were granted a slice and slices  *)
(* in use leave at least one slice in the list.                             *)
NeverAllAllocated == used + Cardinality(At(Pending)) <= N - 1
=============================================================================
