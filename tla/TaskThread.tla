---------------------------- MODULE TaskThread ----------------------------
(***************************************************************************)
(* The task scheduler of CommonUtilitiesLib: Task::Signal and              *)
(* Task::GetEvents, TaskThread::Entry and TaskThread::WaitForTask, the     *)
(* per-thread run queue and timer heap, the global lock under which Run is *)
(* called, and TaskThreadPool::RemoveThreads.                              *)
(*                                                                         *)
(* A signaller is any thread in the middle of a call of Signal: the event  *)
(* thread, the idle thread, a DVR callback thread, or a task thread whose  *)
(* task signals another task.  Every atomic operation of Task.cpp is one   *)
(* step here.  Milliseconds are counted down in the elements of the heaps. *)
(***************************************************************************)
EXTENDS Integers, Sequences, FiniteSets

CONSTANTS
    Tasks,          \* Task objects
    Signallers,     \* threads that may be inside Task::Signal
    SignalEvents,   \* events that callers send, e.g. kReadEvent, kKillEvent
    NumThreads,     \* argument of TaskThreadPool::AddThreads
    MaxTimeout,     \* bound: largest positive result of Run
    MaxLate,        \* bound: milliseconds a timer may be overdue
    MaxSignals,     \* bound: number of calls of Signal in a behaviour
    LockTasks,      \* tasks whose Run may end with "return CallLocked()"
    PromptRuns,     \* TRUE: time passes only while no thread has work
    Shutdown,       \* TRUE: RemoveThreads may be called
    NoTask,         \* the null Task*
    NoThread        \* the null TaskThread*

kAlive == "kAlive"
kIdleEvent == "kIdleEvent"
Events == SignalEvents \cup {kIdleEvent}

Threads == 0 .. NumThreads - 1

ASSUME ThreadsAssumption == NumThreads \in Nat \ {0}
ASSUME BoundsAssumption == MaxTimeout \in Nat \ {0} /\ MaxLate \in Nat /\ MaxSignals \in Nat
ASSUME NullAssumption == NoTask \notin Tasks /\ NoThread \notin Threads
ASSUME EventsAssumption == kAlive \notin Events
ASSUME ConfigAssumption ==
    LockTasks \subseteq Tasks /\ PromptRuns \in BOOLEAN /\ Shutdown \in BOOLEAN

VARIABLES
    \* of a Task
    fEvents, fUseThisThread, fWriteLock, life,
    \* of a TaskThread
    fTaskQueue, fHeap, fStopRequested, pc, theTask, got, theTimeout, locker,
    \* remaining milliseconds of a task's fTimerHeapElem
    timer,
    \* of TaskThreadPool: round-robin counter, RW lock state, deleted threads
    sThreadPicker, fState, removed,
    \* of a call of Signal: the task it still has to enqueue
    toEnqueue,
    \* history: calls of Signal; tasks whose last Run held the read lock and
    \* ended with CallLocked()
    signals, callBackLocked

taskVars == <<fEvents, fUseThisThread, fWriteLock, life, callBackLocked>>
threadVars == <<pc, theTask, got, theTimeout, locker>>
poolVars == <<fStopRequested, removed>>
placeVars == <<fTaskQueue, fHeap, timer>>
signalVars == <<sThreadPicker, toEnqueue, signals>>
vars == <<taskVars, threadVars, poolVars, placeVars, signalVars, fState>>

Init ==
    /\ fEvents = [t \in Tasks |-> {}]
    /\ fUseThisThread = [t \in Tasks |-> NoThread]
    /\ fWriteLock = [t \in Tasks |-> FALSE]
    /\ life = [t \in Tasks |-> "live"]
    /\ fTaskQueue = [th \in Threads |-> <<>>]
    /\ fHeap = [th \in Threads |-> {}]
    /\ fStopRequested = [th \in Threads |-> FALSE]
    /\ pc = [th \in Threads |-> "waitForTask"]
    /\ theTask = [th \in Threads |-> NoTask]
    /\ got = [th \in Threads |-> {}]
    /\ theTimeout = [th \in Threads |-> 0]
    /\ locker = [th \in Threads |-> "none"]
    /\ timer = [t \in Tasks |-> 0]
    /\ sThreadPicker = 0
    /\ fState = 0
    /\ removed = {}
    /\ toEnqueue = [s \in Signallers |-> NoTask]
    /\ signals = 0
    /\ callBackLocked = [t \in Tasks |-> FALSE]

-----------------------------------------------------------------------------
(* Task::Signal                                                            *)

(* RemoveThreads sets it to 0 behind the last thread it joined.            *)
sNumTaskThreads == IF removed = Threads THEN 0 ELSE NumThreads

(* Only the call that turns kAlive on goes on to enqueue, and only while   *)
(* there are task threads; without any, kAlive stays on all the same.      *)
MustEnQueue_Always(t) == TRUE   \* slip: whatever the old value was
MustEnQueue(t) == kAlive \notin fEvents[t] /\ sNumTaskThreads > 0

(* The atomic_or, of a task that Valid() finds alive (its destructor marks *)
(* it dead).  Any thread may call it at any time, RemoveThreads or not.    *)
SignalOr(s, t, e) ==
    /\ toEnqueue[s] = NoTask
    /\ signals < MaxSignals
    /\ life[t] = "live"
    /\ signals' = signals + 1
    /\ fEvents' = [fEvents EXCEPT ![t] = @ \cup {e, kAlive}]
    /\ toEnqueue' = IF MustEnQueue(t) THEN [toEnqueue EXCEPT ![s] = t]
                    ELSE toEnqueue
    /\ UNCHANGED <<fUseThisThread, fWriteLock, life, callBackLocked,
                   threadVars, poolVars, placeVars, sThreadPicker, fState>>

(* OSQueue::EnQueue: at the head, unless the element is there already;     *)
(* DeQueue takes the tail, so a sequence grows at its end.                 *)
EnQueue(q, t) ==
    IF \E i \in DOMAIN q : q[i] = t THEN q ELSE Append(q, t)

NextThread_NoWrap == sThreadPicker + 1   \* slip: no modulus
NextThread == (sThreadPicker + 1) % NumThreads

(* The requested thread if there is one, otherwise round robin.            *)
ThreadFor(t) == IF fUseThisThread[t] # NoThread THEN fUseThisThread[t]
                ELSE NextThread

(* The thread chosen may have been joined and deleted: the element then    *)
(* lies in a queue nobody reads.  With no thread left the modulus is 0,    *)
(* which ends the program: no step.                                        *)
SignalEnQueue(s) ==
    LET t == toEnqueue[s]
    IN  /\ t # NoTask
        /\ fUseThisThread[t] = NoThread => sNumTaskThreads > 0
        /\ fTaskQueue' = [fTaskQueue EXCEPT ![ThreadFor(t)] = EnQueue(@, t)]
        /\ sThreadPicker' = IF fUseThisThread[t] # NoThread
                            THEN sThreadPicker ELSE NextThread
        /\ toEnqueue' = [toEnqueue EXCEPT ![s] = NoTask]
        /\ UNCHANGED <<taskVars, threadVars, poolVars, fHeap, timer,
                       signals, fState>>

-----------------------------------------------------------------------------
(* TaskThread::WaitForTask                                                 *)

DueTasks(th) == {t \in fHeap[th] : timer[t] <= 0}

(* Entry starts on the task it was handed, or leaves if it is marked dead. *)
Dispatch(th, t) ==
    /\ theTask' = [theTask EXCEPT ![th] = t]
    /\ pc' = [pc EXCEPT ![th] = IF life[t] = "live" THEN "entry" ELSE "exited"]

(* A timer that has run out wins over the queue, the earliest one first.   *)
TakeFromHeap(th) ==
    /\ pc[th] = "waitForTask"
    /\ \E t \in DueTasks(th) :
          /\ \A u \in fHeap[th] : timer[t] <= timer[u]
          /\ fHeap' = [fHeap EXCEPT ![th] = @ \ {t}]
          /\ Dispatch(th, t)
    /\ UNCHANGED <<taskVars, got, theTimeout, locker, poolVars, fTaskQueue,
                   timer, signalVars, fState>>

(* No timer is due: DeQueueBlocking, for at least 10 ms.                   *)
BlockOnQueue(th) ==
    /\ pc[th] = "waitForTask"
    /\ DueTasks(th) = {}
    /\ pc' = [pc EXCEPT ![th] = "blocked"]
    /\ UNCHANGED <<taskVars, theTask, got, theTimeout, locker, poolVars,
                   placeVars, signalVars, fState>>

TakeFromQueue(th) ==
    /\ pc[th] = "blocked"
    /\ fTaskQueue[th] # <<>>
    /\ fTaskQueue' = [fTaskQueue EXCEPT ![th] = Tail(@)]
    /\ Dispatch(th, Head(fTaskQueue[th]))
    /\ UNCHANGED <<taskVars, got, theTimeout, locker, poolVars, fHeap,
                   timer, signalVars, fState>>

Quits_Never(th) == FALSE   \* slip: the stop request is not looked at
Quits(th) == fStopRequested[th]

(* The wait ended with an empty queue: quit if asked to, else look again.  *)
(* Under PromptRuns the wait lasts until a timer is due or a stop request  *)
(* signals the condition; a wait that ends before that changes nothing.    *)
WaitTimedOut(th) ==
    /\ pc[th] = "blocked"
    /\ fTaskQueue[th] = <<>>
    /\ PromptRuns => DueTasks(th) # {} \/ fStopRequested[th]
    /\ pc' = [pc EXCEPT ![th] = IF Quits(th) THEN "exited"
                                ELSE "waitForTask"]
    /\ UNCHANGED <<taskVars, theTask, got, theTimeout, locker, poolVars,
                   placeVars, signalVars, fState>>

-----------------------------------------------------------------------------
(* TaskThread::Entry, up to the call of Run                                *)

(* Forget the requested thread and choose the side of the global lock.     *)
Prepare(th) ==
    LET t == theTask[th]
    IN  /\ pc[th] = "entry"
        /\ fUseThisThread' = [fUseThisThread EXCEPT ![t] = NoThread]
        /\ pc' = [pc EXCEPT ![th] = IF fWriteLock[t] THEN "lockWrite"
                                    ELSE "lockRead"]
        /\ UNCHANGED <<fEvents, fWriteLock, life, callBackLocked, theTask, got,
                       theTimeout, locker, poolVars, placeVars, signalVars,
                       fState>>

WaitingWriters == \E th \in Threads : pc[th] = "lockWrite"

(* OSMutexRW::LockRead yields to active and to waiting writers.            *)
MayRead_NoActive == ~ WaitingWriters   \* slip: to waiting writers only
MayRead == fState >= 0 /\ ~ WaitingWriters

LockRead(th) ==
    /\ pc[th] = "lockRead"
    /\ MayRead
    /\ fState' = fState + 1
    /\ locker' = [locker EXCEPT ![th] = "read"]
    /\ pc' = [pc EXCEPT ![th] = "running"]
    /\ UNCHANGED <<taskVars, theTask, got, theTimeout, poolVars, placeVars,
                   signalVars>>

(* OSMutexRW::LockWrite waits for active readers and for nothing else.     *)
LockWrite(th) ==
    /\ pc[th] = "lockWrite"
    /\ fState <= 0
    /\ fState' = -1
    /\ locker' = [locker EXCEPT ![th] = "write"]
    /\ pc' = [pc EXCEPT ![th] = "running"]
    /\ UNCHANGED <<taskVars, theTask, got, theTimeout, poolVars, placeVars,
                   signalVars>>

(* The value of fState after OSMutexRW::Unlock.                            *)
StateAfterUnlock == IF fState > 1 THEN fState - 1 ELSE 0

-----------------------------------------------------------------------------
(* Run: reads its events, may ask for its thread, returns                  *)

(* The events GetEvents reports: all but the alive bit.                    *)
Reported_WithAlive(t) == fEvents[t]   \* slip: the kAliveOff mask forgotten
Reported(t) == fEvents[t] \ {kAlive}

(* Task::GetEvents reads the word ...                                      *)
GetEventsRead(th) ==
    /\ pc[th] = "running"
    /\ got' = [got EXCEPT ![th] = Reported(theTask[th])]
    /\ pc' = [pc EXCEPT ![th] = "getEvents"]
    /\ UNCHANGED <<taskVars, theTask, theTimeout, locker, poolVars, placeVars,
                   signalVars, fState>>

(* ... and in a second atomic operation subtracts what it read.            *)
GetEventsSub(th) ==
    /\ pc[th] = "getEvents"
    /\ fEvents' = [fEvents EXCEPT ![theTask[th]] = @ \ got[th]]
    /\ got' = [got EXCEPT ![th] = {}]
    /\ pc' = [pc EXCEPT ![th] = "handling"]
    /\ UNCHANGED <<fUseThisThread, fWriteLock, life, callBackLocked, theTask,
                   theTimeout, locker, poolVars, placeVars, signalVars, fState>>

ForceSameThread(th) ==
    /\ pc[th] = "handling"
    /\ fUseThisThread' = [fUseThisThread EXCEPT ![theTask[th]] = th]
    /\ UNCHANGED <<fEvents, fWriteLock, life, callBackLocked, threadVars,
                   poolVars, placeVars, signalVars, fState>>

(* Entry clears fWriteLock after a Run under the write lock.               *)
LockKept_Never(th) == FALSE   \* slip: cleared after every Run
LockKept(th) == locker[th] # "write"

(* Run returns n, and Entry unlocks.                                       *)
Return(th, n) ==
    LET t == theTask[th]
    IN  /\ pc[th] = "handling"
        /\ theTimeout' = [theTimeout EXCEPT ![th] = n]
        /\ fWriteLock' = [fWriteLock EXCEPT ![t] = @ /\ LockKept(th)]
        /\ callBackLocked' = [callBackLocked EXCEPT ![t] = FALSE]
        /\ locker' = [locker EXCEPT ![th] = "none"]
        /\ fState' = StateAfterUnlock
        /\ pc' = [pc EXCEPT ![th] = "returned"]
        /\ UNCHANGED <<fEvents, fUseThisThread, life, theTask, got, poolVars,
                       placeVars, signalVars>>

(* "return this->CallLocked()": same thread, write lock, 10 ms from now.   *)
ReturnCallLocked(th) ==
    LET t == theTask[th]
    IN  /\ pc[th] = "handling"
        /\ t \in LockTasks
        /\ theTimeout' = [theTimeout EXCEPT ![th] = 1]
        /\ fUseThisThread' = [fUseThisThread EXCEPT ![t] = th]
        /\ fWriteLock' = [fWriteLock EXCEPT ![t] = LockKept(th)]
        /\ callBackLocked' = [callBackLocked EXCEPT ![t] = locker[th] = "read"]
        /\ locker' = [locker EXCEPT ![th] = "none"]
        /\ fState' = StateAfterUnlock
        /\ pc' = [pc EXCEPT ![th] = "returned"]
        /\ UNCHANGED <<fEvents, life, theTask, got, poolVars, placeVars,
                       signalVars>>

-----------------------------------------------------------------------------
(* TaskThread::Entry, on the result of Run                                 *)

Release(th) ==
    /\ theTask' = [theTask EXCEPT ![th] = NoTask]
    /\ theTimeout' = [theTimeout EXCEPT ![th] = 0]
    /\ pc' = [pc EXCEPT ![th] = "waitForTask"]
    /\ UNCHANGED <<got, locker, poolVars, signalVars, fState>>

(* Negative: the task is deleted.                                          *)
DeleteTask(th) ==
    /\ pc[th] = "returned"
    /\ theTimeout[th] < 0
    /\ life' = [life EXCEPT ![theTask[th]] = "dead"]
    /\ Release(th)
    /\ UNCHANGED <<fEvents, fUseThisThread, fWriteLock, callBackLocked,
                   placeVars>>

StoreSucceeds_Always(t) == TRUE   \* slip: a plain store of 0
StoreSucceeds(t) == fEvents[t] = {kAlive}

(* Zero, and the compare_and_store of kAlive by 0 succeeds.                *)
FinishTask(th) ==
    /\ pc[th] = "returned"
    /\ theTimeout[th] = 0
    /\ StoreSucceeds(theTask[th])
    /\ fEvents' = [fEvents EXCEPT ![theTask[th]] = {}]
    /\ Release(th)
    /\ UNCHANGED <<fUseThisThread, fWriteLock, life, callBackLocked, placeVars>>

(* Zero, but an event came in before the compare_and_store: run it again.  *)
RunAgain(th) ==
    /\ pc[th] = "returned"
    /\ theTimeout[th] = 0
    /\ ~ StoreSucceeds(theTask[th])
    /\ pc' = [pc EXCEPT ![th] = "entry"]
    /\ UNCHANGED <<taskVars, theTask, got, theTimeout, locker, poolVars,
                   placeVars, signalVars, fState>>

(* Positive: into this thread's timer heap, with kIdleEvent pending.       *)
InsertInHeap(th) ==
    LET t == theTask[th]
    IN  /\ pc[th] = "returned"
        /\ theTimeout[th] > 0
        /\ timer' = [timer EXCEPT ![t] = theTimeout[th]]
        /\ fHeap' = [fHeap EXCEPT ![th] = @ \cup {t}]
        /\ fEvents' = [fEvents EXCEPT ![t] = @ \cup {kIdleEvent}]
        /\ Release(th)
        /\ UNCHANGED <<fUseThisThread, fWriteLock, life, callBackLocked,
                       fTaskQueue>>

-----------------------------------------------------------------------------
(* Time, and the end of the pool                                           *)

AtRest(th) ==
    \/ pc[th] = "exited"
    \/ /\ pc[th] = "blocked"
       /\ fTaskQueue[th] = <<>>
       /\ DueTasks(th) = {}
       /\ ~ fStopRequested[th]

Sleeping == UNION {fHeap[th] : th \in Threads}

(* A millisecond passes.                                                   *)
Tick ==
    /\ PromptRuns => \A th \in Threads : AtRest(th)
    /\ Sleeping # {}
    /\ \A t \in Sleeping : timer[t] > -MaxLate
    /\ timer' = [t \in Tasks |-> IF t \in Sleeping THEN timer[t] - 1
                                 ELSE timer[t]]
    /\ UNCHANGED <<taskVars, threadVars, poolVars, fTaskQueue, fHeap,
                   signalVars, fState>>

(* RemoveThreads first asks every thread to stop ...                       *)
SendStopRequest(th) ==
    /\ Shutdown
    /\ ~ fStopRequested[th]
    /\ fStopRequested' = [fStopRequested EXCEPT ![th] = TRUE]
    /\ UNCHANGED <<taskVars, threadVars, removed, placeVars, signalVars, fState>>

InQueue(t, th) == \E i \in DOMAIN fTaskQueue[th] : fTaskQueue[th][i] = t

TasksHeld_All(th) == Tasks   \* slip: also those of other threads
TasksHeld(th) == fHeap[th] \cup {t \in Tasks : InQueue(t, th)}

(* ... then joins them in order; ~TaskThread deletes the tasks it holds.   *)
DeleteThread(th) ==
    /\ \A u \in Threads : fStopRequested[u]
    /\ removed = 0 .. th - 1
    /\ pc[th] = "exited"
    /\ removed' = removed \cup {th}
    /\ life' = [t \in Tasks |->
                  IF t \in TasksHeld(th) THEN "dead" ELSE life[t]]
    /\ fHeap' = [fHeap EXCEPT ![th] = {}]
    /\ fTaskQueue' = [fTaskQueue EXCEPT ![th] = <<>>]
    /\ UNCHANGED <<fEvents, fUseThisThread, fWriteLock, callBackLocked,
                   threadVars, fStopRequested, timer, signalVars, fState>>

-----------------------------------------------------------------------------
RunReturns(th) ==
    \/ \E n \in -1 .. MaxTimeout : Return(th, n)
    \/ ReturnCallLocked(th)

(* The steps a task thread takes by itself.                                *)
ThreadStep(th) ==
    \/ TakeFromHeap(th) \/ BlockOnQueue(th)
    \/ TakeFromQueue(th) \/ WaitTimedOut(th)
    \/ Prepare(th) \/ LockRead(th) \/ LockWrite(th)
    \/ GetEventsRead(th) \/ GetEventsSub(th) \/ RunReturns(th)
    \/ DeleteTask(th) \/ FinishTask(th) \/ RunAgain(th) \/ InsertInHeap(th)

Next ==
    \/ \E s \in Signallers :
          \/ \E t \in Tasks, e \in SignalEvents : SignalOr(s, t, e)
          \/ SignalEnQueue(s)
    \/ \E th \in Threads : ThreadStep(th) \/ ForceSameThread(th)
    \/ Tick
    \/ \E th \in Threads : SendStopRequest(th) \/ DeleteThread(th)

Spec == Init /\ [][Next]_vars

(* Threads are scheduled, Run returns, a Signal that has started finishes, *)
(* and RemoveThreads goes on once it has begun; nothing makes anybody call *)
(* Signal, ForceSameThread or RemoveThreads.                               *)
Fairness ==
    /\ \A th \in Threads : WF_vars(ThreadStep(th)) /\ WF_vars(DeleteThread(th))
    /\ \A th \in Threads :
          WF_vars((\E u \in Threads : fStopRequested[u]) /\ SendStopRequest(th))
    /\ \A s \in Signallers : WF_vars(SignalEnQueue(s))
    /\ WF_vars(Tick)

FairSpec == Spec /\ Fairness

-----------------------------------------------------------------------------
(* Properties                                                              *)

Flags == Events \cup {kAlive}
PCs == {"waitForTask", "blocked", "entry", "lockRead", "lockWrite", "running",
        "getEvents", "handling", "returned", "exited"}

(* Every variable keeps the type its C++ declaration gives it.             *)
TypeOK ==
    /\ fEvents \in [Tasks -> SUBSET Flags]
    /\ fUseThisThread \in [Tasks -> Threads \cup {NoThread}]
    /\ fWriteLock \in [Tasks -> BOOLEAN]
    /\ life \in [Tasks -> {"live", "dead"}]
    /\ fTaskQueue \in [Threads -> Seq(Tasks)]
    /\ fHeap \in [Threads -> SUBSET Tasks]
    /\ fStopRequested \in [Threads -> BOOLEAN]
    /\ pc \in [Threads -> PCs]
    /\ theTask \in [Threads -> Tasks \cup {NoTask}]
    /\ got \in [Threads -> SUBSET Events]
    /\ theTimeout \in [Threads -> -1 .. MaxTimeout]
    /\ locker \in [Threads -> {"none", "read", "write"}]
    /\ timer \in [Tasks -> -MaxLate .. MaxTimeout]
    /\ sThreadPicker \in Threads
    /\ fState \in Int
    /\ removed \in SUBSET Threads
    /\ toEnqueue \in [Signallers -> Tasks \cup {NoTask}]
    /\ signals \in 0 .. MaxSignals
    /\ callBackLocked \in [Tasks -> BOOLEAN]

(* The places a scheduled task can be in: about to be enqueued by a        *)
(* signaller, in a queue, in a timer heap, in the hands of a thread.       *)
Places(t) ==
    ({"signal"} \X {s \in Signallers : toEnqueue[s] = t})
      \cup ({"queue"} \X {th \in Threads : InQueue(t, th)})
      \cup ({"heap"} \X {th \in Threads : t \in fHeap[th]})
      \cup ({"thread"} \X {th \in Threads : theTask[th] = t})

(* "The whole premise of a task is that the Run function cannot be         *)
(* re-entered" (Task.h): a task is in one place at most, once in a queue,  *)
(* so that no two threads can ever run it, or run it and delete it.        *)
AtMostOnePlace ==
    /\ \A t \in Tasks : \A p, q \in Places(t) : p = q
    /\ \A th \in Threads : \A i, j \in DOMAIN fTaskQueue[th] :
          fTaskQueue[th][i] = fTaskQueue[th][j] => i = j

(* No wake-up is lost: a live task with a pending event is marked alive,   *)
(* and it is so marked exactly while it is in some place, as long as there *)
(* are task threads at all.                                                *)
AliveIsScheduled ==
    \A t \in Tasks :
        life[t] = "live" =>
            /\ Places(t) # {} => kAlive \in fEvents[t]
            /\ fEvents[t] # {} => kAlive \in fEvents[t]
            /\ kAlive \in fEvents[t] /\ sNumTaskThreads > 0 => Places(t) # {}

(* A deleted task has left every queue and heap and no thread or signaller *)
(* still holds it.                                                         *)
DeadIsNowhere == \A t \in Tasks : life[t] = "dead" => Places(t) = {}

(* ForceSameThread "ensures that the same task thread will be used for the *)
(* next call to Run()" (Task.h): a thread about to run a task that asked   *)
(* for a thread is the thread it asked for.                                *)
SameThreadHonoured ==
    \A th \in Threads :
        pc[th] = "entry" => fUseThisThread[theTask[th]] \in {NoThread, th}

InRun(th) == pc[th] \in {"running", "getEvents", "handling"}

(* The global lock: while one task runs under the write lock no other task *)
(* is inside Run.                                                          *)
GlobalLockExclusive ==
    \A th, u \in Threads :
        InRun(th) /\ InRun(u) /\ locker[th] = "write" => th = u

(* A module that requested the global lock is "called back locked"         *)
(* (RTSPSession.cpp): the Run after CallLocked, called by a Run under the  *)
(* read lock, holds the write lock.                                        *)
CalledBackLocked ==
    \A th \in Threads :
        InRun(th) /\ callBackLocked[theTask[th]] => locker[th] = "write"

(* "100% definitely the task's Run function WILL be invoked when another   *)
(* thread calls Signal" (Task.cpp): an event sent to a task is eventually  *)
(* taken by its Run, unless the task dies first or RemoveThreads has       *)
(* deleted the thread it was queued at, or all of them.                    *)
Stranded(t) == removed = Threads \/ \E th \in removed : InQueue(t, th)

EventIsTaken ==
    \A t \in Tasks : \A e \in Events :
        e \in fEvents[t]
            ~> (e \notin fEvents[t] \/ life[t] = "dead" \/ Stranded(t))

(* RemoveThreads, which joins every thread, returns, though Signal goes on *)
(* filling the queues meanwhile; not for ever (MaxSignals), since a thread *)
(* looks at the stop request only when it finds its queue empty.           *)
RemoveThreadsReturns ==
    (\A th \in Threads : fStopRequested[th]) ~> (removed = Threads)

-----------------------------------------------------------------------------
(* What the scheduler promises a task: the abstract specification of       *)
(* module Task, with a task's status read off the place it is in.          *)
status ==
    [t \in Tasks |->
        IF life[t] = "dead" THEN "dead"
        ELSE IF \E th \in Threads :
                   theTask[th] = t /\ (InRun(th) \/ pc[th] = "returned")
             THEN "running"
        ELSE IF kAlive \in fEvents[t] THEN "scheduled" ELSE "idle"]

pending == [t \in Tasks |-> fEvents[t] \ {kAlive}]

TaskSpec == INSTANCE Task
ImplementsTask == TaskSpec!Spec
=============================================================================
