# Lekuo Streaming Server: a TLA+ verification project

The server is a Darwin Streaming Server (DSS) that Lekuo extended with an adaptor
(`server/AdaptorModule`) which relays video recorders, and a client library
(`server/StreamingClient`, on top of `RTSPClientLib`) through which one server, or a player,
pulls a stream from another. Both halves run on the same small operating layer,
`CommonUtilitiesLib`: tasks, timers, locks and socket events. The project models that layer, on
which everything else depends, the client session and the adaptor, which are the product's own, and
the reliable UDP of the server's streams.

Paths below are relative to `src/coding/src/server/`; `CU` is `StreamingServer/CommonUtilitiesLib`.

## 1. Inventory

### 1.1 Task scheduler: `CU/Task.cpp`, `Task.h`, `OSQueue`, `OSMutexRW`

State: per task an event word `fEvents` with the bit `kAlive`, `fUseThisThread`, `fWriteLock`;
per thread a blocking queue `fTaskQueue` and a heap of timers `fHeap`; `sThreadPicker`; the
global lock `sMutexRW`.
Operations: `Signal`, `GetEvents`, `Run`'s result (`< 0` delete, `0` sleep, `> 0` timer),
`ForceSameThread`, `CallLocked`, the loop `TaskThread::Entry`, `AddThreads`/`RemoveThreads`.
Interaction: everything else in the program is a task or calls `Signal`.
Hard: several atomic operations on one word make up `Signal` and the end of `Run`, with any
number of callers; deletion; the lock taken according to a flag read earlier.
Correct when: no event is lost; `Run` is never re-entered; a deleted task is nowhere; a task that
asked for a thread or for the lock gets it; the write lock excludes; the threads can be joined.

### 1.2 Read/write lock: `CU/OSMutexRW.cpp`, `OSCond.cpp`, `OSCond.h`

State: `fState` (-1 writer, 0, n readers), `fWriteWaiters`, two condition variables; on Windows
each of them is an auto-reset event and a counter `fWaitCount` that is changed without a lock.
Operations: `LockRead`, `LockWrite`, the `Try` forms, `Unlock`; `Wait`, `Signal`, `Broadcast`.
Hard: the step between releasing the mutex and sleeping; lost updates of the counter.
Correct when: a writer is alone; nobody sleeps on while the lock is his to take; a writer that
waits gets in.

### 1.3 Heap: `CU/OSHeap.cpp`

State: an array, its free index, a membership pointer in each element.
Operations: `Insert`, `Extract`, `ExtractMin`, `Remove`; the two loops that restore the order.
Hard: an order that must survive long sequences of operations; array bounds.
Correct when: the minimum is extracted; membership is truthful; no index leaves the array. The first
is not true of this code once `Remove` has worked on six elements or more (5).
Used by the scheduler and by the idle timers.

### 1.4 Idle timers: `CU/IdleTask.cpp`

State: one thread, a heap of timers, a mutex, a condition, a stop flag.
Operations: `SetIdleTimer`, `~IdleTask`, `CancelTimeout`, the loop, `WZD_SignalIdleThreadExit`.
Hard: a timer shorter than the sleep in progress; a deletion while the timer fires; exit.
Correct when: the thread never oversleeps, every timer fires, no deleted task is signalled.

### 1.5 Timeouts: `CU/TimeoutTask.cpp`

State: a queue of timers with absolute times; a task that scans it and computes its next interval.
Operations: construct, delete, `SetTimeout`, `RefreshTimeout`, `Run`.
Hard: the interval is computed while timers come and go, and refreshed without the mutex.
Correct when: an expired timer is signalled, and not much later than it ran out.

### 1.6 Socket events: `CU/EventContext.cpp`, `OSRef.cpp`, `win32ev.cpp`

State: per socket a context with descriptor, an ID (from `WM_USER` to 8192), a counted
reference in a table; a window with a queue of messages; the event thread.
Operations: `RequestEvent`, `Cleanup`, `SnarfEventContext`, `select_modwatch`,
`select_waitevent`, `Resolve`/`Release`/`UnRegister`, the thread's exit.
Hard: messages about sockets that are gone; a context deleted while the event thread is in it;
IDs that start again; every event disarms its socket, so none may be lost or misrouted; a handle
is closed twice, the second time perhaps under a new owner.
Correct when: the event thread is only ever inside a living context, the right one; whoever waits
and has not lost his socket to another stays armed; `Cleanup` returns.

### 1.7 Client session: `RTSPClientLib/ClientSession.cpp`, `StreamingClient/ClientSession_Channel.cpp`

State: `fState` of the RTSP dialogue, `fNumSetups`, `fTeardownImmediately`, `m_DVR` (its owner),
the transaction in progress of its `RTSPClient`, its timeout.
Operations: `Play`, `TearDown` (from `RelayDVR::DestroyChannel`), `Run` with its five events and
seven states, the report to the owner.
Hard: `TearDown` writes `fState` and `m_DVR` without a lock while `Run` reads and writes them; a
`Run` that returns 0 must have arranged to be called again; death against a last call.
Correct when: a tear-down is never forgotten, the owner is told before the session dies, no
session sleeps for ever, TEARDOWN reaches the server.

### 1.8 Channel sharing: `AdaptorModule/ModuleAdaptor.cpp`, `ChannelElem_4_Channel_S_map.cpp`, `ConnectionElem.cpp`

State: per RTP session of the server two attributes (its `ConnectionElem`, its `ChannelElem`); per
viewer a stream pointer and the flag that its metadata was sent; per channel the list of viewers,
the stored metadata packet, and whether it has metadata at all.
Operations: the module's roles for SETUP, PLAY, TEARDOWN and the closing of a session; attach and
detach; `ReceiveData`, with which the channel's thread hands a packet to every viewer.
Interaction: below it a client session delivers the packets, above it `RTPSession` times out,
is killed, closes and deletes its streams.
Hard: the comment says the list is used under `m_Mutex`, and the channel's thread does not lock
it; the stream pointer is tested and used while TEARDOWN clears it; a write blocks or fails.
Correct when: list and sessions agree; every viewer in the list is offered every packet; no viewer
gets data before metadata; who has ended gets nothing more.

### 1.9 Reliable UDP: `Server.tproj/RTPPacketResender.cpp`, `RTPBandwidthTracker.cpp`

State: per stream an array of packets sent and not acknowledged; shared by all streams of a
session, the congestion window and the bytes in it.
Operations: `AddPacket`, `AckPacket`, `ResendDueEntries`, `ClearOutstandingPackets` (PLAY), the
tracker's filling, emptying and narrowing of the window.
Hard: a backward loop over an array whose entries move as others are removed; one counter for many
lists; acknowledgements of packets that are gone; a window that only expiry opens again.
Correct when: the lists are exact, the count is their bytes, the window is bounded and reopens.

### 1.10 Parts not modelled (each is a component of `PROJECT.json` with its reason)

* Sockets and pools (`TCPListenerSocket`, `UDPSocketPool`, `OSBufferPool`): state in pools with
  reference counts. Plan.
* Client DLL (`RelayDVR`, `RelayClient`, `adaptor`): a map of sessions, the order of set-up and
  tear-down. Plan.
* Reflector (`ReflectorStream`, `ReflectorSocket`): a queue of packets, bookmarks of outputs. Plan.
* RTSP/RTP sessions of the server: mostly parsing and calls of modules; the life of an RTP session
  is modelled as far as the adaptor meets it, the map of HTTP tunnels is in the plan.
* Server object, module interface, other API modules: sequential start-up, attribute tables and
  request handlers, plain I/O.
* Media files, RTCP and meta-info, parsers, memory: data, not control.
* Programs beside the server, vendored code (`src/externals`), build scripts: not this product.

## 2. Modules

| Module | Models | Abstract specification | Proofs |
|---|---|---|---|
| `Task` | what class `Task` promises its users | (is one) | |
| `TaskThread` | scheduler, `sMutexRW` as an ideal lock with the code's guards | implements `Task` | `TaskThread_proofs` |
| `OSMutexRW` | the lock inside, both builds | | `OSMutexRW_proofs` |
| `OSHeap` | the heap, loop by loop | implements `PriorityQueue` (proved) | in `IdleTask_proofs` |
| `PriorityQueue` | a set from which a least element is taken, until a removal ends that | (is one) | |
| `IdleTask` | idle thread over the heap (extends `OSHeap`) | | `IdleTask_proofs` |
| `TimeoutTask` | the scan of the timeouts | | `TimeoutTask_proofs` |
| `EventContext` | sockets, reference table, window, event thread | | `EventContext_proofs` |
| `ClientSession` | client session, over `Task` (INSTANCE) | | `ClientSession_proofs` |
| `AdaptorModule` | viewers, channel, RTP sessions and the channel's thread | | `AdaptorModule_proofs` |
| `RTPPacketResender` | lists of a session's streams and the window they share | | `RTPPacketResender_proofs` |

Each has an `MC...` module with the model values of its runs. The layers meet at abstract
specifications: `TaskThread` is shown, and proved, to implement `Task`, and `ClientSession` takes its turns of
`Run`, its events and its death from the actions of `Task` and from nothing else.

### How state and actions correspond to the code

* Names are the code's wherever TLA+ allows. An action is a section that nothing else can see the
  middle of: an atomic operation, a section under a mutex, or code that touches only its own
  thread's data. `PROJECT.json` gives the lines of every definition.
* `TaskThread`: `Signal` is `SignalOr` (the `atomic_or` and the test of `kAlive`) and
  `SignalEnQueue`; a thread's `pc` walks `Entry` and `WaitForTask`; `Run` is any sequence of
  `GetEvents` and one of the results the code knows, `CallLocked` included. Elements of the heap
  carry the time left, which `Tick` counts down; `MaxLate` bounds how overdue a timer may be.
  `Signal` may come at any time, before, during and after `RemoveThreads`: a task may end up in the
  queue of a thread that was deleted, and stays marked without a place once there are no threads.
  `MaxSignals` bounds the calls. A `Signal` that must choose a thread when there is none left
  divides by zero in the code; it takes no step in the model.
* `OSMutexRW`: a section under `fInternalLock` is a step; `Wait` on Windows is load and store of
  `fWaitCount`, sleep, load and store again; a `SetEvent` that finds no sleeper is remembered once.
  `MaxDrift` bounds how far lost updates may take `fWaitCount`. `Win32 = FALSE` gives the
  pthreads build, whose `Wait` is atomic.
* `OSHeap`: the loops are steps (`Rise`, `Sink`) so that a position can be checked at each.
  `Remove` is the code's, on a heap of any size; `misplaced` records that it has put a leaf below a
  greater element, from which on the order is not to be relied on.
* `IdleTask`: `holder` is the mutex, `fHeapCond` an auto-reset event. A waiter that is woken takes
  the mutex again in a step of its own. The heap is `OSHeap`, whose actions are parts of this
  module's; its elements stand for the tasks they are members of, its `least` for the task whose
  timer the thread has extracted.
* `TimeoutTask`: the scan visits one timer a step under the mutex; `RefreshTimeout` and
  `SetTimeout` take no mutex and fall between the steps. Seconds stand for milliseconds: `Slack`
  is the extra second, `Interval` the 60.
* `EventContext`: one section of the table's mutex is a step; a message is a handle and an ID;
  `Post` is what `WSAAsyncSelect` does when data is there. Sockets are numbered as they are opened
  and `current` says which of them a handle names: the system may hand out any handle that is not
  open, also one that old messages name or that a context is about to close a second time
  (`CloseFirst`, `Close`). Every call works on whatever the handle names by then. The number in a
  message, `socket` and `disturbed` are history: which socket a message is about, which one a context
  opened, and which were closed, disarmed, armed or read through a call or a message of another.
* `ClientSession`: the read of `fState` by the switch, the use of the answer with the write of
  `fState`, the test for the end, the test of `m_DVR`, its use and the kill are steps; `TearDown` is
  three. `ReceiveMsg` may go to what was tested or to what `m_DVR` is by then. A
  transaction that was started goes on, whatever state asks (`RTSPClient::DoTransaction`).
  An answer arrives, is refused, breaks off, or keeps its reader waiting up to `MaxParts` times.
* `AdaptorModule`: a request is its first section (`DoSetup`, `DoPlay`, `DoTearDown`, under
  `m_Mutex`) and its end (`Response`), between which it keeps the session alive; `Closing` is the
  RTP session's last run. `ReceiveData` is one visit of the iterator or one write per step. `place`
  orders the nodes of the list; an iterator on a node that was removed may end or go on anywhere
  (`NextFromRemoved`), because the node was freed. A write is sent, blocks or fails; the metadata
  are tried again up to `MaxWaits` times.
* `RTPPacketResender`: everything runs under the session's mutex, so only the loops of PLAY and of
  a resend pass are taken apart, entry by entry. Time is two marks of a packet, `old` and
  `expired`. `Word` is the width at which the growth of the window overflows.

## 3. Runs

Counts are distinct states. `CHECK_DEADLOCK FALSE` stands where the program may really stop:
threads that were joined, sessions that were deleted, bounds that are used up.

| Run | Instance | States | Shows |
|---|---|---|---|
| `task` | 2 tasks, 2 signallers, 2 threads, 3 signals, timeouts to 2, one task that locks, `RemoveThreads` | 142 448 | a task is in one place, no wake-up is lost, requests for the write lock are honoured, the lock excludes, every event is taken, `RemoveThreads` returns while `Signal` goes on; `TaskThread` implements `Task`, also when threads delete what they hold |
| `task_two_writers` | 2 tasks that lock | violation | two writers at once, see 5 |
| `rw_win32` | 3 threads, 1 of them writes, Windows | 14 330 | exclusion, no forgotten writer, writers get in |
| `rw_forgotten` | the same | violation | a reader sleeps on, see 5 |
| `heap_order` | 6 elements, values 1 to 4 | violation | `Remove` breaks the order, see 5 |
| `idle` | 2 tasks created, armed, deleted in any order, exit | 148 484 | membership is truthful, no oversleeping, no timer of the dead, timers fire, the thread leaves |
| `timeout_safety` | 2 timers created, set, refreshed, deleted in any order | 93 568 | an expired timer waits one longest interval at most; one the scan has seen is nearly punctual |
| `event` | 2 contexts, 2 handles, 2 opens, handles used again, second close, hand-over, exit | 510 504 | no dead or foreign context, data is signalled, `Cleanup` returns |
| `session` | 1 session, 2 streams, `MaxParts` 2, timeouts | 37 557 | tear-down remembered, owner told, session can be woken, TEARDOWN sent, session ends |
| `resend` | 2 streams, 2 sequence numbers, 2 packets each, a window of 2 packets | 8 068 | lists exact, bytes accounted, window bounded, a pass misses nothing, PLAY starts empty, flow control ends |
| `channel` | 2 viewers, 2 PLAYs, 1 wait | 568 118 | list and sessions agree, everybody is served, metadata come first and are not given up, one late packet at most |
| `channel_deleted` | the same | violation | a write to a stream that is deleted, see 5 |

The type invariants are proved (4) instead of run.

Why the bounds are enough. Two tasks and two threads give every pair of interfering actors of the
scheduler (two signallers of one task, a signaller against a thread, a thread against a thread);
the proofs lift the invariants to any number. Three threads are the least with a writer and two
readers, which share an auto-reset event; six elements are the least heap whose last leaf can come
from another branch than the hole (proved: `HeapOfFiveInOrder`), so `heap_order` has six; two timers are the least with a scan that passes one and
overwrites its interval with the next; two contexts are the least for hand-over and for a
misrouted message; sessions share no state in the model, so one is enough, and two streams give
a SETUP that is not the last. IDs run to 8 with two opens so that they do not wrap in `event`; two
opens on one handle are enough for a second close that hits a new owner. Contexts and handles
are interchangeable, so the action constraint `FirstIsA` of `event` lets context `a` open first, on
`s1`; it cuts off no step that fairness is asked of. Two
streams are the least with a window to share, two packets the least with one that moves into the
other's place, and 16 bits the least width at which the growth of so small a window does not
overflow. Two viewers are the least with one to pass over while the other
goes; two PLAYs in all give each viewer one, or one viewer a second after its tear-down. The
proofs lift the invariants of all of them to any number. Every run reaches the case its bound is for: each property is
broken by a mutant of the code under the run's own bounds.

Fairness. Liveness is only asked under fairness of what the code or the system does by itself.
*Task*: a thread that can go on does (weak fairness of its steps, `Run` returns), a call of
`Signal` or `RemoveThreads` that has begun goes on, time passes; nobody is made to call anything.
`task` also lets time pass only while no thread has work (`PromptRuns`): without it timers that
are always due starve the queue of a thread, which the code allows. *Lock*: whoever has it gives it
back, whoever is awake goes on. *Idle*: weak fairness of the thread, of the heap's loops, of time
and of begun calls; strong fairness for taking the mutex, which Windows grants to every waiter but
which is not enabled all the time. *Event*: the event thread, the system's posts and begun calls;
`RunTask` counts among them. *Session*: a task thread comes to a scheduled task (which `task`
shows), a begun `TearDown` ends, an armed socket sees data or an error in the end; timeouts are not
fair, so that no property holds because a session timed out. *Resend*: a loop that has begun ends;
the session keeps trying to send, which begins a pass; packets grow old and expire, strongly fair
because passes come in between. *Channel*: a channel that lives keeps sending, its thread gets on,
requests end, and the task of a session that is to close runs; nobody is made to come or go.

## 4. Proofs

All for every value of the constants, under the ASSUMEs of the modules (at least one thread, bounds
are naturals, null values are not objects) and nothing else unless stated.

* `TaskThread_proofs`. `TypeInv` adds that a thread past `WaitForTask` holds a task. `PlaceInv` is
  the strengthening for places: per task, *Alone* (one place), *Marked* (`kAlive` exactly while it
  is in a place, as long as there are task threads; after that only that what is in a place or has
  events is marked), *Affine* (every place of a thread respects `fUseThisThread`); waiting threads
  hold none. A joined thread's queue may fill again, so no conjunct says that it is empty. Neither is inductive alone: that a task is in one place relies on its mark, because
  `Signal` enqueues what is not marked, and the mark relies on the places. Lemmas say what
  `EnQueue`, `DeQueue` and the clearing of a queue do to the set of queued tasks. `LockInv` adds
  what a request for the write lock depends on. `ExclusionInv` counts the readers in
  `fState` (a cardinality). Results: `TypeCorrect`, `OnePlace`, `NoLostWakeUp`, `NoDanglingTask`,
  `RequestedThread`, `CalledBack`, and `LockIsExclusive`, which assumes `OneLockTask`: one task at
  most ever asks for the write lock. Without that it is false (`task_two_writers`).
  `SchedulerImplementsTask` proves the refinement: the status of a task is a function of where it
  is held and of its mark (`StatusOf`); there is one lemma per action, and they rest on `OnePlace`
  and `NoLostWakeUp`, because a thread may only take up, or delete, what it alone holds.
* `OSMutexRW_proofs`. `CountInv`: `fWriteWaiters` is the number of waiting writers (a cardinality,
  for any finite set of threads). `StateInv`: `fState` tells who is in, with at most one writer.
  `WritersInv`: while the lock is free and a thread is anywhere inside `LockWrite`, the writers'
  event is set or a woken writer is on its way to the mutex; on Windows this needs no count of
  sleepers, because `Unlock` signals whenever `fWriteWaiters` is positive and the event keeps what
  finds no sleeper. With pthreads it needs `PosixInv`: with an atomic `Wait` the
  count is exact. `ReadersInv` is the same for readers, who are woken by a broadcast. Results:
  `WaitersAreCounted`, `OneWriterExcludes`, `WritersAreWoken` on both builds, and on pthreads
  `ReadersAreWoken`, which is false on Windows (`rw_forgotten`).
* `IdleTask_proofs`, first part: the heap by itself, from `OSHeap`'s assumptions only. The order
  fails inside a loop, at one position: `LoopInv` says where, and that
  the elements below it are in order with the one above (`BelowAbove`), on which the next swap
  relies. `HeapOrdered` is what is true of the code: the order holds until a `Remove` has put the
  last leaf below a greater element (`misplaced`), and `HeapOfFiveInOrder` says when that can first
  happen: not in a heap of five or fewer, because there the hole's parent is above the last leaf
  too. Types and membership hold always. `HeapImplementsQueue` is the refinement: while the abstract queue
  is `exact`, `ExtractMin` hands out a least element because the root is one (`RootIsLeast`: the
  first position smaller than the root would have a parent no larger than itself at a position
  before it); a removal may end that, and the refinement maps `exact` to `~ misplaced`.
* `IdleTask_proofs`, second part: the idle thread. A step of it is a step of the heap that leaves
  all times alone, or sets one time that is in no heap, or lowers all of them at once
  (`IdleHeapStep`), and the order survives each. `Mutex` says who holds `fHeapMutex` at each step
  and which loop runs under it, `Removed` that a task on its way out is in no heap; these give
  `IdleTypeCorrect` and `DeletedTasksHaveNoTimer` for any number of tasks and timers. `SleepInv`
  strengthens `SleepCovers`: while no signal waits, the thread covers every timer whose
  `SetIdleTimer` is over, also while a loop of the heap runs or other calls are in progress. Its
  second bound (`Covers`) is about the clock: time stops for a timer that is `MaxLate` overdue, and
  the sleep must have ended by then. The length of the sleep rests on the order of the
  heap (it is as long as the root says), so that half of `SleepCoversTimers` holds until a `Remove`
  misplaces a timer, which takes six timers.
* `TimeoutTask_proofs`. `Inv` bounds the interval by the number of timers visited (`Climb`), says
  since when a timer can be overdue unnoticed (`DueInv`), and relates the interval to every timer
  already seen (`SeenInv`). Results: `OverdueIsBounded`, `SeenArePunctual`.
* `EventContext_proofs`. `TypeInv` counts the users of a reference; `UseInv` says that a context in
  the table or in the event thread's hands has a socket and an ID, the ID because `Cleanup`
  unregisters only what has one. Result: `NeverInsideDead`, for wrapped or doubled IDs, reused
  handles and second closes. `EventsAreOwn` is about the time before `sUniqueID` reaches `LastID`,
  and assumes nothing of handles: what a message says of its socket agrees with the socket's owner
  (`MessageInv`), because a socket takes its ID before it is armed (`WatchInv`, `ArmedInv`) and has
  one owner (`SocketInv`); of two contexts with one ID, one has given its socket away (`IDInv`), to
  the one context that takes it over (`DonorInv`). The exception is a context that a second
  `closesocket` has taken the socket from (`Robbed`): its calls go to the next owner's socket, which it
  arms under its own ID. Until the IDs wrap, too, `WaitersAreArmed` is the safety half of
  `DataIsSignalled`: a context that waits is armed under its own ID, or the event thread holds the
  message that disarmed it, or its socket was `disturbed`, or closed, through another. The message
  finds that context, and no other, because the table has one context for each ID and every context
  that is watched, or the donor whose place it is about to take (`TableInv`, `WaitInv`). Both
  exceptions are real: with either left out, TLC breaks the property under the run's bounds or
  with a third open.
* `ClientSession_proofs`. `SetupInv` (SETUPs left while one is sent), `RememberInv` (what still
  remembers a tear-down at each step of `Run`), `ToldInv` (a kill is on its way only once the user
  knows), `WakeInv` (`Run` returns 0 only when something will wake it), `QuietInv` (the way from a
  tear-down to its TEARDOWN). Results: `TearDownNotForgotten`, `NoSilentDeath`,
  `NoStrandedSession`, `QuietTearDownIsSent`.
* `AdaptorModule_proofs`. `SessionInv` relates the attributes of a session, its request and its
  place in the list; `PassInv` says what the iterator has passed (`owed` viewers behind it are
  `served`), on which `EveryViewerServed` rests; `MetaInv` and `SentInv` say who still waits for
  metadata, at each step of a pass; `LateInv` that a cleared pointer is used at most by the write
  that had already tested it. Results: `TypeCorrect`, `ListMatchesSessionsHolds`,
  `EveryViewerServedHolds`, `MetaDataFirstHolds`, `MetaDataNotGivenUpHolds`, `OneLatePacketHolds`,
  for any number of viewers and of PLAYs.
* `RTPPacketResender_proofs`. The invariant says of each list that its entries are the first
  `fPacketsInList` of the array, of the count that it is the cardinality of the set of outstanding
  bytes, of the window that it stays within its limit in whatever order packets are acknowledged,
  and of a pass what lies behind its index. `WindowIsBounded` is not the tracker's own assertion
  (`fBytesInList < fClientWindow + 2000`, of which its comment says "this assert hits"): that holds
  for packets of up to 2000 bytes and windows of at least a segment only. What is proved is that what
  is outstanding exceeds the limit by less than one packet, so that the count never wraps, which the
  assertion is there to catch. Results: `TypeCorrect`, `ListsAreExact`,
  `BytesAreAccounted`, `WindowIsBounded`, `PassIsComplete`, `PlayIsEmpty`, for any number of
  streams, packets and sizes.

Model-checked only: liveness (fairness and ENABLED are beyond the prover), that is `EventIsTaken`,
`RemoveThreadsReturns`, `WritersGetIn`, `TimerFires`, `ThreadExits`, `DataIsSignalled`,
`CleanupReturns`, `TearDownEnds`, `FlowReopens` and `ViewerIsServed`. Every other property of a
passing run is a theorem.

## 5. Where the code and its texts differ

With a run:

* `OSMutexRW.cpp:102`: `LockWrite` does not look at `ActiveWriter()`, so two writers can be in;
  `OSMutexRW.h:104` says "only one". With at most one writer exclusion is proved.
* `OSCond.h:117` on Windows: `Wait` counts itself after it has released the mutex, and several
  `SetEvent`s are one: a reader can sleep on while the lock is free.
* `OSHeap.cpp:185`: `Remove` only lets the last leaf sink; from six elements on it can be smaller
  than the parent of the hole and stay there, and `ExtractMin` may then hand out a later timer
  first. `OSHeap.cpp:132` says the loop maintains the heap property and `SanityCheck` asserts it
  (`heap_order`).
* `RTPSession.cpp:553` says that once a session is unregistered "there's no way another thread could
  get involved anyway"; the channel's thread may be inside `QTSS_Write` on a stream of it
  (`ConnectionElem.cpp:75`), which the destructor deletes. What is true is `OneLatePacket`.

Seen while modelling, without a run (some are reachable in the models with other constants):

* `Task.cpp:136`: a `Signal` that comes when a thread has been joined may put its task into the
  queue of that deleted thread, and one that comes after the last divides by zero.
* `EventContext.cpp:225`: an ID that is in use is refused by the table, and the refusal is ignored
  (`LastID = 2`, `MaxOpens = 3` break `EventIsOwn`).
* `Task.cpp:194`: `CallLocked` called by a run that already holds the write lock is forgotten.
* A thread with always-due timers never looks at its queue (`PromptRuns = FALSE`).
* `TimeoutTask.cpp:116`: each timer after the one that set the interval can lengthen it by up to a
  second (`Climb`); `TimeoutTask.h:120`: refreshing a timer of timeout 0 arms it as already due.
* `EventContext.cpp:134`: on Windows the `else` at `:131` covers a `printf` only, so `Cleanup` closes
  the handle of a registered context at `:121` and again at `:134`. If the handle was given out in
  between, the new owner's socket is closed, and its later calls go to whoever gets the handle next.
  `EventIsOwn` and `DataIsSignalled` except the context it happens to (`Robbed`).
* `win32ev.cpp:205`: a message of a closed socket disarms a new one with its handle, whose owner then
  waits for ever; `DataIsSignalled` excepts it (`disturbed`).
* `win32ev.cpp:81`: `RequestEvent` after the event thread has left never returns.
* `ClientSession.h:276` says the timeout kills the connection: `ClientSession.cpp:527` only marks
  it done, neither killed nor reported, and drops a kill that came with it; a playing session
  refreshes its own timeout every 50 ms. `ClientSession.cpp:516`: a delay of 0 is never called
  back. The properties of `session` except these sessions (`timedOut`, `noDelay`).
* `ClientSession.h:171` says a tear-down sends TEARDOWN: during another request the answer of that
  request is taken for TEARDOWN's (`RTSPClient.cpp:1274`, `:1408`). `TearDownIsSent` is stated for
  tear-downs between requests.
* `ClientSession.cpp:903` tests `m_DVR` and `:906` uses it, while `TearDown` clears it: the report can
  go to a null owner, or to one that has let go (`ReceiveMsg` with `m_DVR` cleared).
* `RTPBandwidthTracker.cpp:97`: packets over 2000 bytes, which `RTPPacketResender.cpp:280` allows for,
  can break the assertion; its comment admits that it hits.
* `TearDown` begun before the session's own end may signal a deleted object
  (`SignalTeardown` with a dead session); `relaydvr.cpp:173` leaves deleted sessions in its map.
* `RelayDVR::DestroyAllChannel` (`relaydvr.cpp`, below line 117) clears `m_Channel_map` before it
  iterates over it: `Logout` and `~RelayDVR` tear no session down, and the sessions keep an
  `m_DVR` that is deleted.
* `ChannelElem_4_Channel_S_map.cpp:106`: the iterator of `ReceiveData` may stand on a node that a
  tear-down frees (`NextFromRemoved`); `EveryViewerServed` excepts such a pass (`raced`).
* `ChannelElem_4_Channel_S_map.cpp:49`: a channel whose source has ended deletes its client session
  and stays in the mapping, so the next PLAY calls a deleted object.
* A description without tracks reads `GetStreamInfo` out of range (`NumStreamsAssumption`).

## 6. What the models leave out

* Memory: a write to a freed session has no effect; a crash that ends the process is not a state.
* `EventContext`: a context is not opened again after `Cleanup` (the code does not reset
  `fWatchEventCalled`); sockets that are no `EventContext`s, which could get a handle between the
  two closes; the `select` build of `ev.cpp`.
* `TaskThread` has the lock of `OSMutexRW` with ideal condition variables; the two are not composed.
* `ClientSession`: media data and its statistics, a second `Play` on the same session, `TearDown` of
  one that was never played (its `fClient` is null when `Run` gets to it), the map of `RelayDVR`; the user stops using a session it was told about.
* `AdaptorModule`: one channel; a second PLAY of a viewer that plays; what calls on freed memory do;
  PAUSE, which the module answers without doing it; the writes of `RTPStream` below `QTSS_Write`.
* `RTPPacketResender`: the round-trip estimate (when a packet is due is left open, within the
  longest timeout), statistics, the overbuffer window.
* Hazards with no model: `RequestEvent` after the event thread has left (`win32ev.cpp:81`), the
  listener's two bases (`TCPListenerSocket.cpp:203`), the 64-bit times that are read while they are
  written (`TimeoutTask.cpp:105`), TEARDOWN of a viewer that never played, which has no channel to
  detach from (`ModuleAdaptor.cpp:140`), reflector sockets that are signalled and then deleted
  although their `Run` may be executing (`ReflectorStream.cpp:1170`), queue elements of
  `OSBufferPool` that are never constructed (`OSBufferPool.cpp:51`).
* Real time, but for order, lateness and the bounds named above.

## 7. Plan

Done, in this order, the layer below before the one above: `Task`, `TaskThread`; `OSMutexRW`;
`OSHeap`, `PriorityQueue`; `IdleTask`; `TimeoutTask`; `EventContext`; `ClientSession`;
`RTPPacketResender`; `AdaptorModule`.

Next modules, the product's own first:

1. `RelayDVR`: the map of sessions over `ClientSession` (an abstract session extracted from it):
   no call on a deleted session, `Logout` tears all down; second `Play`.
2. `AdaptorModule` over that abstract session: the end of a source, several channels. Abstract: a
   viewer receives a suffix of the stream.
3. `ReflectorStream`: no bookmark or output on a removed packet; packets in order, once.
4. Pools: `UDPSocketPool` reference counts, `OSBufferPool`.
5. Compositions: `TCPListenerSocket` over `EventContext` and `IdleTask`; the shutdown of the
   client DLL over the three threads.
6. `RTSPSession`: the map of HTTP tunnels.

Next theorems: that `ClientSession` implements `Task`; then the invariants of the modules above.
