# Verification of shmipc-go

shmipc-go moves messages between two processes through shared memory.  A unix
connection carries only small events (wake up, stream close, hot restart) and,
when the shared memory is exhausted, the data itself.  This directory models the
library in TLA+, checks the models with TLC on small instances and proves the
central facts with TLAPS for every instance.

## 1. The system

| Part | Source | State | Operations | Talks to |
|---|---|---|---|---|
| IO queue | `queue.go` | ring in shared memory, `head`, `tail`, `workingFlag` | `put` (many goroutines, mutex), `pop` (the peer's dispatcher), `markWorking`, `markNotWorking` | session, stream |
| Free buffer lists | `buffer_manager.go`, `buffer_slice.go` | `head`, `tail`, `size`, `counter`, links in the slices | `pop`, `push`, by goroutines of both processes, without locks | linked buffers |
| Buffer manager | `buffer_manager.go` | lists of several slice sizes, global table with reference counts | create, map, alloc, recycle, unmap | linked buffers, session |
| Linked buffers | `buffer.go`, `buffer_slice.go` | chain of slices, read and write positions, pinned slices | read, peek, discard, write, reserve, release, recycle | stream |
| Stream | `stream.go` | `state`, `pendingData`, `recvBuf`, `sendBuf`, two notification channels, callback flags | read, `Flush`, `Close`, half-close, arrival of data, callbacks, `reset` | session, IO queue |
| Session | `session.go`, `util.go` | stream table, `writing`, `sendCh`, `notifyContinueWriteCh`, shutdown state | `OpenStream`, `wakeUpPeer`, `waitForSend`, send goroutine, `Close`, `exitErr`, event handlers | everything |
| Event dispatcher | `event_dispatcher*.go`, `epoll_*.go` | epoll set, read buffer per connection, posted functions, deferred closes | write, read-ready, post, close | session |
| Handshake | `protocol_initializer.go`, `protocol_manager.go`, `protocol_event.go`, `block_io.go` | protocol version, paths or file descriptors | exchange of versions and memory, timeouts | session |
| Session manager, hot restart | `session_manager.go`, `listener.go` | sessions, stream pools, epoch, acks awaited | get and put back a stream, reconnect, hot restart | session |
| net.Listener adapter | `net_listener.go` | channel of accepted streams | accept, close | listener |

Behaviours that are hard to test, and that the models aim at:

* producers in one process and a consumer in the other on one ring without a
  common lock; the working flag that saves system calls but may lose a wake-up;
* the two ways to write to the connection (directly, or through the send
  goroutine) and the hand-over of the write lock;
* lock-free free lists shared by both processes;
* the close of a stream, which races with the peer's close, with arriving data,
  with a running callback and with the close of the session;
* one goroutine that serves all connections with edge-triggered events, while others
  write, close and reuse descriptors;
* memory shared by several sessions, mapped and unmapped while handshakes time out;
* streams that are pooled and reused while messages for them are on two ways;
* a hot restart whose events, acks and timeouts at both ends meet lost connections
  and the client's own reconnecting;
* reference counts that an application, a listener and a session's goroutine change.

What should hold: elements arrive whole, once and in order; no wake-up is lost
and every element is consumed; frames are not mixed; a reported send happened;
no slice has two owners and none is lost; a stream delivers its data in order,
closes once, reports its close once, and keeps nothing afterwards; an event reaches
the connection it was meant for; both ends map the same memory, for as long as they
use it; a pooled stream has one user; a hot restart moves every session or leaves
every session in use; nobody waits for ever.

The list of hazards in `PROJECT.json` names the source line of each.

## 2. Modules

| Module | Models | Correspondence |
|---|---|---|
| `FIFOQueue` | what the IO queue promises: an atomic bounded FIFO | abstract specification |
| `IOQueue` | `put` and `pop` | one action per shared access: the mutex, the loads of `tail` and `head`, the store of each field, the add to `tail`; for `pop` the two loads, the read of each field, the add to `head`.  `puts` and `gets` are histories |
| `WakeUp` | one direction of a session: `wakeUpPeer`, `hotRestart`, `waitForSend`, the send goroutine, `eventConn.write`, and the peer's `handlePolling` with `markNotWorking` | goroutines `Flushers` and `Waiters`; `writing`, `sendCh`, `notifyCh`, `workingFlag` are the variables of the code.  A frame is written in two steps, since a write may take several system calls; any write may fail and shuts the session down.  `shutdown` is set by `Session.Close`, and `broken` by the function that it posts, or by the failing write: frames are written until then.  The queue is the pair of its positions: `IOQueueProofs` shows that put and pop are atomic |
| `BufferList` | `bufferList.pop` and `push` on one list | one action per atomic operation.  `Procs` are goroutines of either process, `Poppers` those that allocate; `Link` is a user of a slice that links it to the next slice of a message; `out` counts the holders of a slice.  `counter`, which only `checkBufferReturned` reads, is left out |
| `Stream` | the receive side of a stream: `fillDataToReadBuffer`, the callback goroutine, `readMore`, `Close`/`close`, `halfClose`, `pendingData`, `recvBuf`, and the part of `Session.Close` that concerns a stream | one action per atomic operation or locked region.  A unit of data is a number; `hand` is the unit whose bytes user code holds, which stays at the front of `recvBuf` until it is released.  `linkedBuffer.recycle` is two steps, its loop and the reset that follows |
| `LinkedBuffer` | the read and write buffers of a stream at both ends, the slices they hold, `bufferManager.allocShmBuffer(s)` and `recycleBuffer(s)` | one action per call of the `BufferWriter`, `BufferReader` and `Stream` interfaces.  A byte is a numbered value; a slice has its data area and its header; a list of slices is a sequence, `writeSlice` a position in it; the loop of a read is the number of slices it leaves behind.  The free lists are queues, and a pop that loses a race is in the set `miss` of an allocation |
| `Dispatcher` | the epoll loop, `onReadReady`, `commitRead`, `handleEvents`, `write`, `deferredClose`, `post` and `runLambda` | the loop, the peers and the writing goroutines interleave; a system call is one step.  A byte is a unit that knows its event, so that framing can be checked; `ready` is the kernel's list of edges; descriptor numbers are reused; a read fails only once the peer is gone |
| `Handshake` | `newSession`: `initMemManager`, `initProtocol` and the exchange of `protocol_initializer.go` at both ends, the tables of buffer managers, the files, and what `Session.Close` gives back | one action per message sent, awaited or mapped.  A region of memory is named after the session that created it; `leaked` counts the references that the code forgets, when the queue cannot be created, when `setCallback` fails and when a goroutine maps for a `newSession` that gave up; `apart` is the history of regions that the client made while the server had an older one, in its table or in a descriptor on its way |
| `Session` | the streams of one session with its stream pool: `GetStream`, `PutBack`, `OpenStream`, `Flush` over the IO queue and over the socket, `Stream.close`, `Session.Close`, and the server's handling of messages | one action per locked region or message.  `WakeUp`'s flag and the single stream of `Stream` are one step each |
| `HotRestart` | `SessionManager` with its rebuilding goroutines, the generations of a `Listener`, hot restart events and acks, both timeouts, `Close` of either | a connection has a state at each end and two queues of events.  A handshake is one step; a session that is closed before `Run` adds it is added none the less, and stays until another of the `Listener` closes (`Listed`); a stream pool object is named after its first connection |
| `NetListener` | `net_listener.go` and the accepting half of `getStream` | one action per locked region, channel operation or `WaitGroup` call; the `WaitGroup` panics when it is reused while a waiter returns, as Go's does |
| `MC*` | instances for TLC | constants and symmetry |
| `*Proofs` | theorems | section 4 |

`IOQueue` and `WakeUp` compose through the refinement: `WakeUp` uses the queue as
the atomic object that `IOQueue` is proved to be.  `Stream` receives what
`WakeUp` delivers, one element at a time, in order.  `LinkedBuffer` refines the
units of data that `Stream` moves into slices and bytes; the goroutines of the
stream are `Stream`'s subject, the contents of the buffers `LinkedBuffer`'s.
`Session` puts streams, both ways to the peer and the pool together, with the
operations that the other modules show to be atomic as single steps; `HotRestart`
takes sessions as a whole, and their handshake, which `Handshake` models, as one step.

Operators whose name says what is wrong with them (`PutUnlocked`,
`ClearWithoutRecheck`, `FillUnchecked`, ...) stand before the action they vary.
No specification uses them; each is a plausible mistake in the code that one of
the properties is known to catch.

## 3. Model checking

| Run | Bounds | Result |
|---|---|---|
| `io_queue` | 2 producers, ring of 2, 5 puts: the ring is filled, emptied and wrapped twice | 172,315 states; whole elements in order, refinement of `FIFOQueue`; no deadlock |
| `wake_up_safety` | 2 flushers, 1 waiter, ring of 2, `sendCh` of 1, 3 puts, 1 hot restart; symmetric flushers | 3,216,585 states |
| `wake_up_liveness` | 2 flushers, 2 waiters, ring of 1, `sendCh` of 1, 2 puts, no hot restart, no failures, without symmetry: the slow path meets a full `sendCh` | 57,447 states |
| `buffer_list` | 3 slices, 1 allocating goroutine, 3 recycling ones, 2 tries, multi-slice messages | 25,326 states |
| `stream` | 2 units, 2 callback goroutines, 1 reader, 1 closing user, the peer's and the session's close, reads with deadline; with and without callbacks | 335,011 states |
| `linked_buffer` | 3 slices of one byte and 2 of two (one of each size stays in its list), 3 bytes one way and 1 back, operations of 1 and 2 bytes, a queue of 2; symmetric slices of one byte | 203,388 states |
| `dispatcher` | 2 connections on 2 descriptors, 2 events of up to 3 units (one may be invalid), a read buffer of 2 units that grows and shrinks, frames of 2 units on sockets that take 1 | 138,299 states |
| `hot_restart` | 2 generations, up to 5 connections; four plans: two restarts of one session with a loss, one restart of two sessions, a lost session and a server crash around a restart, a failing dial and `Close` at any time | 103,354 states |
| `handshake` | 3 sessions of which two share an id and hence a queue path, file and memfd; three plans: calm, one timeout and one close, one failing call and two closes | 212,222 states |
| `session` | 2 users, 2 streams, a pool of 1, a queue of 2; four plans: a stream reused with a late answer, a stream closed by the server, a fallback, the session closed under its users | 220,377 states |
| `net_listener` | 2 sessions with 2 and 1 streams, channels of 1, one `Close`, one session lost | 136,913 states |

Three slices are enough for a free list with an empty, a partly linked and a full
state; two units for one in use and one pending; two callback goroutines for the
overlap of one that leaves and one that starts.  Two slice sizes and lists that run
out give messages of one slice, of several, with empty slices in front, and on the
heap; one byte back is enough for both ends to reuse a slice.  Two connections are
enough for one to get the descriptor of the other; three sessions for two that share
memory and one that comes back under an old path; a pool of one is full, empty and
wrapped with two users.  A *plan* is a bound on how often each fault or call happens
in a behaviour: the plans of a run are its initial states, so each fault meets all
orders of the others in its plan without the product of all of them.

Fairness is weak fairness throughout: a step that stays enabled is taken.

* `WakeUp`, `Stream`: each goroutine (the Go scheduler runs a runnable goroutine
  eventually) and the dispatcher.  Nothing forces the peer to send or to close, anyone
  to close, a deadline to expire or a write to fail; in `Stream` nothing is assumed of
  the goroutines that run OnData, because the property is of synchronous readers.
  Both liveness properties of `WakeUp` are discharged for good once a session closes,
  so their run leaves write failures, closes and invalid elements out (`Failures`); it also
  leaves out timeouts of `waitForSend`, after which the frame stays where it is and
  only the caller knows.  The safety run has them all.
* `Dispatcher`: the loop, the writing goroutines, and the peer's reading, since the
  peer runs the same loop.
* `Handshake`: both ends of a session and their goroutines; no timeout, failure or
  close is forced.
* `Session`: the server's dispatcher and goroutines inside `wakeUpPeer`; the
  applications are free to stop.
* `HotRestart`: the dispatchers, the background goroutines, the tickers and timers of
  both checks; a new server is started and an old one ends as in
  `example/hot_restart_test`.
* `NetListener`: the session's two goroutines and the dispatcher; the application
  accepts while the listener is open and closes what it accepted.

Assumptions of the instances: `HotRestart` is not called while the client is still
in `NewSessionManager`; the rebuild timer (60 s) is longer than the handlers already
posted; `UnlinkOnClose` is off, as the hot restart example sets it.

Deadlock is not checked where the system may stop: sessions shut down and bounded
environments run out of steps.  `io_queue` checks it.

### Where the code departs from its documentation

The run `buffer_list_aba` shows one departure: two goroutines allocate from a list of
four slices, a pop's compare-and-swap succeeds with a stale next offset, and a slice
in use becomes the head (`buffer_manager.go:428`; `:79` calls the list "thead safe,
lock free. support push && pop concurrently even cross different process.").

The following properties are stated in the modules and do not hold.  TLC finds a
counterexample with the constants given, in place of the properties of that module's
configuration.

| Property | Instance | What happens |
|---|---|---|
| `Stream!CloseCompletes` | callbacks, 1 worker, 1 user, 1 unit | `Close` racing the end of `OnData` leaves the stream half-closed for ever: a failed compare-and-swap in `close` is not retried (`stream.go:295`; `:87` "after OnData return check state and call stream.Close again") |
| `Stream!NotRecycledInUse` | callbacks, 2 workers, 1 user, 3 units | data that arrives during a close makes the dispatcher recycle the slices that `OnData` is reading (`stream.go:393`) |
| `Stream!EndOfStreamIsTheEnd` | no callbacks, 1 reader, 2 units, the peer closes | data and the peer's close between the two halves of `readMore` give `ErrEndOfStream` with data unread (`stream.go:142`; `errors.go:45`) |
| `Stream!OnDataCalled` | callbacks, 2 workers, 2 units, the peer closes | `OnData` is not called for data received just before the peer's close (`stream.go:406`; `:51`) |
| `LinkedBuffer!ReadsPeersBytes` | `DropUnsent = TRUE` | `ReleaseReadAndReuse` with unflushed data makes the write buffer the read buffer (`stream.go:383`) |
| `Dispatcher!WritesMeetOwnPeer` | that of `dispatcher` | the descriptor is closed and given to a new connection between `write`'s test of `isClose` and its system call (`event_dispatcher_linux.go:146`) |
| `HotRestart!HotRestartEnds` | `Plans <- LossPlan` | `HotRestart` holds `sessionMu` when its write to a dead client fails; closing that session takes `sessionMu` again (`listener.go:198`, `:316`; `:233` "waiting timeout is set short") |
| `HotRestart!EveryDoneMeansMoved` | `Plans <- RetryPlan` | an ack that comes after the timeout is counted in the next hot restart (`protocol_manager.go:314`) |
| `HotRestart!StoredInTime` | that of `hot_restart` | `background` stores its new session after `sm.Unlock` (`session_manager.go:239`), in a pool that a hot restart has replaced and dropped since: the session stays open and nobody has it |
| `HotRestart!EveryLossRebuilt` | that of `hot_restart` | after a hot restart that was tried again, `background` still watches the session that was replaced (`session_manager.go:202`, the pool is taken at `:198`) and does not see the loss of the new one ("when peer process was crashed or the underlying connection was closed, SessionManager could retry connect") |
| `Handshake!MappedFromPeer` | that of `handshake` | the client's last session ends and removes the file, another id is dialled at once and makes a new region, and the server, whose end of the old session is still open, finds the old one in its table; or the server keeps an old mapping because an error path forgot a reference (`buffer_manager.go:185`; `:212` "the share memory should created by peer") |
| `Session!EveryCloseReachesPeer` | `Plans <- FallbackPlan` | the close of a stream in fallback goes through the IO queue and overtakes its data, which then creates the stream anew (`stream.go:314`; `:211` "for this stream we will always use uds later to avoid unordering") |
| `NetListener!CloseEndsAllSessions` | that of `net_listener` | a stream left in the backlog, or in the hands of the session's goroutine, keeps its reference for ever (`net_listener.go:115`; `:135` "When listen closed, all sessions should be closed which otherwise would leak."); `CloseEndsSessions` leaves out that session and no other |

More departures show in the models or are plain from the text:

* the retry after a lost compare-and-swap is also missing when `Close` of a stream
  without callbacks races the peer's close;
* the creating and the mapping process keep `counter` at different offsets of the
  list header, so `checkBufferReturned` never holds again after an exchange;
* the session can unmap the memory while a stream that has left its table is still
  draining; the posted part of `Session.Close` waits for callbacks under
  `shutdownLock`, which `exitErr` takes too;
* `OpenStream` that passed `IsClosed` stores into a nil table and panics
  (`session.go:268`); on the server, data after a local close creates the id anew;
* a pooled stream that its peer half-closed is dropped on `GetStream` without
  `Close` (`session_manager.go:413`); `reset` cannot see answers still on their way,
  and the next user reads them;
* a fallback write can overtake elements whose polling event is not yet written
  (`overtaken` in `Session`);
* a handshake that times out or fails after mapping, and a `setCallback` that fails
  (`session.go:169`), leave a reference (`leaked` in `Handshake`);
* a server session that is closed between the end of `newSession` and `sessions.add`
  stays in the table, and a hot restart counts on its ack (`listener.go:169`);
* a hot restart event for a session whose `manager` is not set yet panics;
  `SessionManager.Close` does not close `reservePools`, and an event that arrives
  after it connects again; with `unlinkOnClose`, the default, the old server removes
  the new server's socket path;
* `NetListener`: the `WaitGroup` may be reused before its waiter returned, and a
  stream may be wrapped after the count was zero and its session closed (`late`).

## 4. Proofs

Each proof module extends the specification and `TLAPS`; constants are arbitrary
values that satisfy the named assumptions (positive capacities, bounds in `Nat`,
distinct names).

* `IOQueueProofs`.  The inductive invariant `IInv` relates the ring to the
  history: between `head` and `tail` the ring holds what was put, a producer past
  its check holds the mutex and has room, the fields stored so far are those of
  its element, and the consumer's copy agrees with the element at `head`.
  `PopsInOrder` alone is not inductive, since a pop takes effect three steps after
  its check.  Theorems: `TypeCorrect`, `FIFODelivery`, `NoOverwrite`, and
  `Refinement`, by showing that each step is a step of `FIFOQueue` or a stutter.
* `WakeUpProofs`.  `IInv` adds to the safety properties who owns the write lock
  (`LockInv`), which frame each goroutine carries (`FrameInv`), that an incomplete
  frame belongs to the owner (`PartialInv`), and what each waiter's result means
  (`ReplyInv`).  Theorems: `TypeCorrect`, `WakeUpNeverLost`, `FramesNeverMixed`,
  `SenderAlwaysResumes`, `SendResultTrue`.
* `BufferListProofs`.  The accounting argument: every step moves at most one
  goroutine into or out of the steps that are counted, by the amount it adds to
  `size`.  Theorems: `TypeCorrect`, `SizeIsExact`, `LastSliceStays`, for any number
  of goroutines, allocating ones included.
* `NetListenerProofs`.  The inductive invariant says where each stream is: not seen,
  in `acceptCh` or `blocked`, held, in the backlog, in `conns`, or done, each in one
  place only; which of them hold a reference; and that the listener's own reference
  is there exactly while the session is in the table.  The count is then a sum over
  disjoint sets, which each action changes by one.  Theorems: `Inductive`,
  `CountsAreExact`, `TerminatesUnused`, for any number of sessions, streams and
  closers.
* `SessionProofs`.  `IInv` says in which steps a user has a stream (`HandInv`), and
  that the positions between the pool's `head` and `tail` hold different streams
  that no user has (`PoolInv`); positions less than `Capacity` apart have different
  places in the ring, so a push never lands on a pooled stream.  `ExclusiveUse` is
  not inductive, since it does not say that a user on its way to `push` has a
  stream at all.  Theorems: `Inductive`, `OneUserAtATime`, `OpenNeverLost`, for any
  number of users and streams and any capacity.

  Two more invariants follow the messages.  `OrderInv`: requests are numbered by
  their flushes, each way carries a stream's requests in rising order, and what the
  queue holds for a stream comes before what the socket holds, because the polling
  event for it is ahead (`WakeInv`); what was handled is below both.  Theorem
  `HandledInOrder`, for any length of the queue.  `AnswerInv`: for a stream that was
  never put back with an answer under way, no more requests and answers are under way
  than its user is owed, none if it has no user, and all belong to that user's use.
  `OwnAnswers` alone says nothing of what is still on its way, and only the count
  tells that nothing is when a user that is owed nothing more puts the stream back.
  Apart from a flush, a step adds to one place at most what it takes from another.
  What counting messages comes to (`Counting`) is a hypothesis of these lemmas and is
  proved last (`Counted`) from the theorems on finite sets.  Theorem
  `ReadsOwnAnswers`.
* `HandshakeProofs`.  `IInv` joins `MappedWhileHeld` at each end (`RefInv`, with an
  entry of the table being mapped) to the order of the handshake (`FlowInv`): the
  server's goroutine gets the buffer manager once, and `newSession` succeeds only
  after it.  Without `FlowInv` a second `getBuffer` would take a reference that no
  session gives back.  `DialInv` says that nothing precedes the dialling; `FileInv`
  that every file has a client's end that will remove it, or a forgotten reference;
  `MemInv` what memory a session has in each step of the exchange, and what its
  messages name.  Its core is what the server may have in its table (`SameRegion`): the
  client's present region, unless that one is in `apart`.  It stays true when the
  client makes a region, because one that the server does not match goes into `apart`,
  and when the server maps, because the path or the descriptor leads to the client's
  region.  `SameMemory` alone says nothing of what is on its way.  Theorems:
  `Inductive`, `NeverUnmappedInUse`, `EverythingGivenBack`, and `EndsShareMemory`,
  which needs no assumption on when a session is dialled and leaves out only the
  regions in `apart`.  Within one client process `initMemManager` finds a buffer file
  without having the region in its table never, the queue file of an earlier session
  only after a failed `setCallback`.
* `StreamProofs`.  `ProcessInv` gives `callbackInProcess` one owner, a worker or the
  dispatcher between its compare-and-swap and the start of a worker, and says that a
  worker in `Close` is either inside `OnData`, where the flag is set, or past it.
  `ReportInv` gives the report of a close one owner, who took the stream out of
  `opened`; `DispatcherInv` is needed because the dispatcher runs the same recycling
  steps for late data, where it must not report.  `DrainInv` names who will take away
  what a closed stream still holds: a goroutine in `close`, or the dispatcher that
  looks at the state again after it has added data.  `OrderInv` orders `delivered`,
  `recvBuf` and `pendingData` in one rising sequence, in which only the unit in the
  reader's hand occurs twice; it rests on one goroutine reading `recvBuf`, a worker
  in process or the one reader (`ReaderAssumption`; a `Stream` has no lock against a
  second).  Theorems: `Inductive`, `OneCallbackAtATime`, `CloseReportedOnce`,
  `NothingHeldAfterClose`, `DeliveredInOrder`, for any number of workers, closers and
  units.
* `DispatcherProofs`.  `FileInv` ties descriptors, the table and what epoll watches
  together; `EventInv` says that only watched connections have edges or events, and
  that there are no events while posted functions run; `CloseInv` that the function
  of `deferredClose` waits at most once, with `isClose` set and the descriptor open,
  and that whoever may still call `deferredClose` does so on a watched connection
  unless it was called before; `WriterInv` types the writers.  `EventsMeetOpenFiles`
  alone is not inductive: a function posted twice would take the entry of the
  connection that got the number since out of the table.  That there is a lowest free
  descriptor, which the kernel gives, is by well-foundedness.  Theorems:
  `DescriptorsOutliveEvents`, `DescriptorsClosedOnce`, for any number of connections
  and descriptors.

Only model-checked:

* the liveness properties, since fairness is outside the prover's reach;
* `NoDoubleAllocation` and `FreeListIntact` of `BufferList`, which hold only with one
  allocating goroutine and speak of reachability along the links of the list, and
  `LinkedBuffer`, whose chains of slices are of any length: both need induction over
  data;
* `EventsInOrder` and `NoEdgeLost` of `Dispatcher`: what the recursive `Parse` takes
  out of the read buffer is induction over data too;
* `HotRestart`: its safety properties depend on the order of the events, ticks and
  timeouts of several generations, and no proof is attempted.

## 5. Not modelled

* The layout arithmetic of lists and queues in the shared memory (`createBufferManager`,
  `createFreeBufferList`): sizes and offsets, no state that changes.
* `writev`, which only a test calls, the dispatcher's own `shutdown`, and the race
  build of the dispatcher, which differs in synchronisation only.
* `shutdownLock` and the monitor goroutine of a session; `copyRead` and
  `copyWriteAndFlush`, which copy through the operations modelled.
* The contents of protocol versions beyond the two message sequences.
* Configuration, statistics, logging and debugging output, single system calls.
* The examples, which use the library from outside, and `adapter/`, which does not
  compile against it.
