------------------------- MODULE TaskThread_proofs -------------------------
(***************************************************************************)
(* Proofs about TaskThread, for any number of threads, tasks, signallers   *)
(* and any bounds.                                                         *)
(***************************************************************************)
EXTENDS TaskThread, SequenceTheorems, FiniteSetTheorems, TLAPS

(* Reducing the round-robin counter gives a thread.                        *)
LEMMA ModInRange ==
    ASSUME NEW n \in Nat \ {0}, NEW x \in Int PROVE x % n \in 0 .. n - 1
  OBVIOUS

LEMMA NextThreadInThreads ==
    ASSUME sThreadPicker \in Threads PROVE NextThread \in Threads
  BY ModInRange, ThreadsAssumption DEF NextThread, Threads

(* EnQueue keeps a queue a sequence of tasks.                              *)
LEMMA EnQueueType ==
    ASSUME NEW q \in Seq(Tasks), NEW t \in Tasks
    PROVE  EnQueue(q, t) \in Seq(Tasks)
  BY AppendProperties DEF EnQueue

-----------------------------------------------------------------------------
(* Type correctness.                                                       *)

(* A thread outside WaitForTask has a task; without this fact a step could *)
(* read fEvents of the null task, so TypeOK alone is not inductive.        *)
Waiting == {"waitForTask", "blocked", "exited"}
HasTask == \A th \in Threads : pc[th] \notin Waiting => theTask[th] \in Tasks

TypeInv == TypeOK /\ HasTask

LEMMA TypeInit == Init => TypeInv
  BY ThreadsAssumption, BoundsAssumption, EmptySeq
  DEF Init, TypeInv, TypeOK, HasTask, Waiting, Threads, PCs, Flags

LEMMA TypeNext == TypeInv /\ [Next]_vars => TypeInv'
<1> SUFFICES ASSUME TypeInv, [Next]_vars PROVE TypeInv'
  OBVIOUS
<1> USE ThreadsAssumption, BoundsAssumption, ConfigAssumption, NullAssumption
         DEF TypeInv, HasTask, Waiting
<1>1. ASSUME NEW s \in Signallers, NEW t \in Tasks, NEW e \in SignalEvents,
             SignalOr(s, t, e)
      PROVE  TypeInv'
  BY <1>1 DEF SignalOr, TypeOK, Flags, Events, threadVars, poolVars, placeVars
<1>2. ASSUME NEW s \in Signallers, SignalEnQueue(s) PROVE TypeInv'
  <2>1. toEnqueue[s] \in Tasks
    BY <1>2 DEF SignalEnQueue, TypeOK
  <2>2. ThreadFor(toEnqueue[s]) \in Threads
    BY <2>1, NextThreadInThreads DEF ThreadFor, TypeOK
  <2>3. fTaskQueue' \in [Threads -> Seq(Tasks)]
    BY <1>2, <2>1, <2>2, EnQueueType DEF SignalEnQueue, TypeOK
  <2>4. sThreadPicker' \in Threads
    BY <1>2, NextThreadInThreads DEF SignalEnQueue, TypeOK
  <2> QED
    BY <1>2, <2>3, <2>4
    DEF SignalEnQueue, TypeOK, taskVars, threadVars, poolVars
<1>3. ASSUME NEW th \in Threads, ThreadStep(th) \/ ForceSameThread(th)
      PROVE  TypeInv'
  <2> USE DEF TypeOK, PCs, taskVars, threadVars, poolVars, placeVars, signalVars
  <2>1. CASE TakeFromHeap(th)
    BY <2>1 DEF TakeFromHeap, DueTasks, Dispatch
  <2>2. CASE BlockOnQueue(th)
    BY <2>2 DEF BlockOnQueue
  <2>3. CASE TakeFromQueue(th)
    <3>1. Head(fTaskQueue[th]) \in Tasks /\ Tail(fTaskQueue[th]) \in Seq(Tasks)
      BY <2>3, HeadTailProperties DEF TakeFromQueue
    <3> QED
      BY <2>3, <3>1 DEF TakeFromQueue, Dispatch
  <2>4. CASE WaitTimedOut(th)
    <3>1. pc' \in [Threads -> PCs]
      BY <2>4 DEF WaitTimedOut
    <3> QED
      BY <2>4, <3>1 DEF WaitTimedOut
  <2>5. CASE Prepare(th)
    BY <2>5 DEF Prepare
  <2>6. CASE LockRead(th)
    <3>1. pc' \in [Threads -> PCs] /\ locker' \in [Threads -> {"none", "read", "write"}]
      BY <2>6 DEF LockRead
    <3> QED
      BY <2>6, <3>1 DEF LockRead
  <2>7. CASE LockWrite(th)
    BY <2>7 DEF LockWrite
  <2>8. CASE GetEventsRead(th)
    <3>1. got' \in [Threads -> SUBSET Events]
      BY <2>8 DEF GetEventsRead, Reported, Flags
    <3> QED
      BY <2>8, <3>1 DEF GetEventsRead
  <2>9. CASE GetEventsSub(th)
    <3>1. fEvents' \in [Tasks -> SUBSET Flags] /\ got' \in [Threads -> SUBSET Events]
      BY <2>9 DEF GetEventsSub
    <3> QED
      BY <2>9, <3>1 DEF GetEventsSub
  <2>10. CASE RunReturns(th)
    <3>1. StateAfterUnlock \in Int
      BY DEF StateAfterUnlock
    <3>2. ASSUME NEW n \in -1 .. MaxTimeout, Return(th, n) PROVE TypeInv'
      <4>1. fWriteLock' \in [Tasks -> BOOLEAN] /\ callBackLocked' \in [Tasks -> BOOLEAN]
        BY <3>2 DEF Return
      <4> QED
        BY <3>1, <3>2, <4>1 DEF Return
    <3>3. CASE ReturnCallLocked(th)
      <4>1. fWriteLock' \in [Tasks -> BOOLEAN]
        BY <3>3, Zenon DEF ReturnCallLocked, LockKept
      <4>2. callBackLocked' \in [Tasks -> BOOLEAN]
        BY <3>3, Zenon DEF ReturnCallLocked
      <4> QED
        BY <3>1, <3>3, <4>1, <4>2 DEF ReturnCallLocked
    <3> QED
      BY <2>10, <3>2, <3>3 DEF RunReturns
  <2>11. CASE DeleteTask(th)
    <3>1. life' \in [Tasks -> {"live", "dead"}] /\ pc' \in [Threads -> PCs]
      BY <2>11 DEF DeleteTask, Release
    <3> QED
      BY <2>11, <3>1 DEF DeleteTask, Release
  <2>12. CASE FinishTask(th)
    BY <2>12 DEF FinishTask, Release
  <2>13. CASE RunAgain(th)
    BY <2>13 DEF RunAgain
  <2>14. CASE InsertInHeap(th)
    <3>1. fEvents' \in [Tasks -> SUBSET Flags]
      BY <2>14 DEF InsertInHeap, Flags, Events
    <3>2. fHeap' \in [Threads -> SUBSET Tasks]
      BY <2>14 DEF InsertInHeap
    <3>3. timer' \in [Tasks -> -MaxLate .. MaxTimeout]
      <4>1. theTimeout[th] \in -MaxLate .. MaxTimeout
        BY <2>14 DEF InsertInHeap
      <4>2. timer' = [timer EXCEPT ![theTask[th]] = theTimeout[th]]
        BY <2>14 DEF InsertInHeap
      <4> QED
        BY <4>1, <4>2
    <3>4. pc' \in [Threads -> PCs]
      BY <2>14 DEF InsertInHeap, Release
    <3> QED
      BY <2>14, <3>1, <3>2, <3>3, <3>4 DEF InsertInHeap, Release
  <2>15. CASE ForceSameThread(th)
    BY <2>15 DEF ForceSameThread
  <2> QED
    BY <1>3, <2>1, <2>2, <2>3, <2>4, <2>5, <2>6, <2>7, <2>8, <2>9, <2>10,
       <2>11, <2>12, <2>13, <2>14, <2>15 DEF ThreadStep
<1>4. ASSUME Tick PROVE TypeInv'
  <2>1. Sleeping \subseteq Tasks
    BY DEF Sleeping, TypeOK
  <2>2. \A t \in Sleeping : timer[t] - 1 \in -MaxLate .. MaxTimeout
    BY <1>4, <2>1 DEF Tick, TypeOK
  <2> QED
    BY <1>4, <2>2 DEF Tick, TypeOK, taskVars, threadVars, poolVars, signalVars
<1>5. ASSUME NEW th \in Threads, SendStopRequest(th) \/ DeleteThread(th)
      PROVE  TypeInv'
  <2>1. CASE SendStopRequest(th)
    BY <2>1 DEF SendStopRequest, TypeOK, taskVars, threadVars, placeVars,
                signalVars
  <2>2. CASE DeleteThread(th)
    BY <2>2, EmptySeq DEF DeleteThread, TypeOK, threadVars, signalVars
  <2> QED
    BY <1>5, <2>1, <2>2
<1>6. CASE UNCHANGED vars
  BY <1>6 DEF vars, TypeOK, taskVars, threadVars, poolVars, placeVars, signalVars
<1> QED
  BY <1>1, <1>2, <1>3, <1>4, <1>5, <1>6 DEF Next

(* TypeOK is an invariant: no step of Task.cpp writes a value of another   *)
(* type, and the reduced counter always names a thread of the pool.        *)
THEOREM TypeCorrect == Spec => []TypeOK
<1>1. TypeInv => TypeOK
  BY DEF TypeInv
<1> QED
  BY <1>1, TypeInit, TypeNext, PTL DEF Spec

-----------------------------------------------------------------------------
(* Where a task is.                                                        *)
(*                                                                         *)
(* AtMostOnePlace is not inductive: Signal enqueues a task because kAlive  *)
(* was off, so it must be known that a task without kAlive is in no place; *)
(* Entry clears kAlive because Run returned 0, so it must be known that    *)
(* the thread held the task's only place.  PlaceInv states all of it at    *)
(* once, with the queues read as sets.                                     *)

Queued == [th \in Threads |-> {t \in Tasks : InQueue(t, th)}]

NoRepeat ==
    \A th \in Threads : \A i, j \in DOMAIN fTaskQueue[th] :
        fTaskQueue[th][i] = fTaskQueue[th][j] => i = j

Scheduled(t) ==
    \/ \E s \in Signallers : toEnqueue[s] = t
    \/ \E th \in Threads : t \in Queued[th] \/ t \in fHeap[th] \/ theTask[th] = t

Alone(t) ==
    /\ \A s, r \in Signallers : toEnqueue[s] = t /\ toEnqueue[r] = t => s = r
    /\ \A s \in Signallers, th \in Threads :
          toEnqueue[s] = t =>
              t \notin Queued[th] /\ t \notin fHeap[th] /\ theTask[th] # t
    /\ \A th, u \in Threads :
          /\ t \in Queued[th] /\ t \in Queued[u] => th = u
          /\ t \in fHeap[th] /\ t \in fHeap[u] => th = u
          /\ theTask[th] = t /\ theTask[u] = t => th = u
          /\ t \in Queued[th] => t \notin fHeap[u] /\ theTask[u] # t
          /\ t \in fHeap[th] => theTask[u] # t

Marked(t) ==
    /\ Scheduled(t) => kAlive \in fEvents[t]
    /\ fEvents[t] # {} => kAlive \in fEvents[t]
    /\ kAlive \in fEvents[t] /\ removed # Threads => Scheduled(t)

(* A place of thread th holds no task that asked for another thread.       *)
Affine(t) ==
    \A th \in Threads :
        t \in Queued[th] \/ t \in fHeap[th] \/ theTask[th] = t
            => fUseThisThread[t] \in {NoThread, th}

WaitingHoldsNone == \A th \in Threads : pc[th] \in Waiting => theTask[th] = NoTask

TaskInv(t) ==
    /\ Alone(t)
    /\ life[t] = "live" => Marked(t)
    /\ life[t] = "dead" => ~ Scheduled(t)
    /\ Affine(t)

PlaceInv == NoRepeat /\ WaitingHoldsNone /\ \A t \in Tasks : TaskInv(t)

-----------------------------------------------------------------------------
(* What the operations on a queue do to the set of queued tasks.           *)

LEMMA QueuedType == TypeOK => Queued \in [Threads -> SUBSET Tasks]
  BY DEF Queued

LEMMA SameQueues ==
    fTaskQueue' = fTaskQueue => Queued' = Queued /\ (NoRepeat => NoRepeat')
  BY DEF Queued, InQueue, NoRepeat

(* A queue that is not touched keeps its set of tasks.                     *)
LEMMA OtherQueues ==
    ASSUME NEW th \in Threads, NEW S,
           \A u \in Threads \ {th} : fTaskQueue'[u] = fTaskQueue[u],
           Queued'[th] = S
    PROVE  Queued' = [Queued EXCEPT ![th] = S]
<1>1. \A u \in Threads \ {th} : Queued'[u] = Queued[u]
  BY DEF Queued, InQueue
<1>2. Queued' = [u \in Threads |-> Queued'[u]]
  BY DEF Queued
<1> QED
  BY <1>1, <1>2 DEF Queued

LEMMA AfterEnQueue ==
    ASSUME TypeOK, NoRepeat, NEW th \in Threads, NEW t \in Tasks,
           fTaskQueue' = [fTaskQueue EXCEPT ![th] = EnQueue(@, t)]
    PROVE  /\ Queued' = [Queued EXCEPT ![th] = @ \cup {t}]
           /\ NoRepeat'
<1> DEFINE q == fTaskQueue[th]
<1>1. q \in Seq(Tasks) /\ fTaskQueue'[th] = EnQueue(q, t)
  BY DEF TypeOK
<1>2. \A u \in Threads \ {th} : fTaskQueue'[u] = fTaskQueue[u]
  BY DEF TypeOK
<1>3. CASE \E i \in DOMAIN q : q[i] = t
  <2>1. fTaskQueue' = fTaskQueue
    BY <1>3 DEF EnQueue, TypeOK
  <2>2. t \in Queued[th]
    BY <1>3 DEF Queued, InQueue
  <2> QED
    BY <2>1, <2>2, SameQueues, QueuedType
<1>4. CASE ~ \E i \in DOMAIN q : q[i] = t
  <2>1. fTaskQueue'[th] = Append(q, t)
    BY <1>1, <1>4 DEF EnQueue
  <2>2. /\ DOMAIN q = 1 .. Len(q) /\ Len(q) \in Nat
        /\ DOMAIN fTaskQueue'[th] = 1 .. Len(q) + 1
        /\ \A i \in 1 .. Len(q) : fTaskQueue'[th][i] = q[i]
        /\ fTaskQueue'[th][Len(q) + 1] = t
    BY <1>1, <2>1
  <2>3. \A u \in Tasks :
           (\E i \in DOMAIN fTaskQueue'[th] : fTaskQueue'[th][i] = u)
               <=> (\E i \in DOMAIN q : q[i] = u) \/ u = t
    BY <2>2
  <2>4. NoRepeat'
    <3>1. \A i, j \in DOMAIN fTaskQueue'[th] :
             fTaskQueue'[th][i] = fTaskQueue'[th][j] => i = j
      BY <1>4, <2>2 DEF NoRepeat
    <3> QED
      BY <1>2, <3>1 DEF NoRepeat
  <2>5. Queued' = [Queued EXCEPT ![th] = @ \cup {t}]
    <3>1. Queued'[th] = Queued[th] \cup {t}
      BY <2>3 DEF Queued, InQueue
    <3> QED
      BY <1>2, <3>1, OtherQueues
  <2> QED
    BY <2>4, <2>5
<1> QED
  BY <1>3, <1>4

LEMMA AfterDeQueue ==
    ASSUME TypeOK, NoRepeat, NEW th \in Threads, fTaskQueue[th] # <<>>,
           fTaskQueue' = [fTaskQueue EXCEPT ![th] = Tail(@)]
    PROVE  /\ Head(fTaskQueue[th]) \in Queued[th]
           /\ Queued' = [Queued EXCEPT ![th] = @ \ {Head(fTaskQueue[th])}]
           /\ NoRepeat'
<1> DEFINE q == fTaskQueue[th]
<1>1. q \in Seq(Tasks) /\ fTaskQueue'[th] = Tail(q)
  BY DEF TypeOK
<1>2. \A u \in Threads \ {th} : fTaskQueue'[u] = fTaskQueue[u]
  BY DEF TypeOK
<1>3. /\ Len(q) \in Nat \ {0} /\ DOMAIN q = 1 .. Len(q)
      /\ DOMAIN Tail(q) = 1 .. Len(q) - 1
      /\ \A i \in 1 .. Len(q) - 1 : Tail(q)[i] = q[i + 1]
      /\ Head(q) = q[1] /\ q[1] \in Tasks
  BY <1>1, HeadTailProperties, EmptySeq
<1>4. Head(q) \in Queued[th]
  BY <1>3 DEF Queued, InQueue
<1>5. \A i, j \in DOMAIN q : q[i] = q[j] => i = j
  BY DEF NoRepeat
<1>6. \A u \in Tasks :
         (\E i \in DOMAIN Tail(q) : Tail(q)[i] = u)
             <=> (\E i \in DOMAIN q : q[i] = u) /\ u # Head(q)
  <2>1. ASSUME NEW u \in Tasks, NEW i \in DOMAIN Tail(q), Tail(q)[i] = u
        PROVE  (\E j \in DOMAIN q : q[j] = u) /\ u # Head(q)
    <3>1. i \in 1 .. Len(q) - 1 /\ i + 1 \in DOMAIN q /\ i + 1 # 1 /\ 1 \in DOMAIN q
      BY <1>3
    <3>2. q[i + 1] = u
      BY <1>3, <2>1, <3>1
    <3> QED
      BY <1>3, <1>5, <3>1, <3>2
  <2>2. ASSUME NEW u \in Tasks, NEW j \in DOMAIN q, q[j] = u, u # Head(q)
        PROVE  \E i \in DOMAIN Tail(q) : Tail(q)[i] = u
    <3>1. j \in 1 .. Len(q) /\ j # 1
      BY <1>3, <2>2
    <3>2. j - 1 \in 1 .. Len(q) - 1 /\ (j - 1) + 1 = j
      BY <1>3, <3>1
    <3>3. Tail(q)[j - 1] = u
      BY <1>3, <2>2, <3>2
    <3> QED
      BY <1>3, <3>2, <3>3
  <2> QED
    BY <2>1, <2>2
<1>7. Queued' = [Queued EXCEPT ![th] = @ \ {Head(q)}]
  <2>1. Queued'[th] = Queued[th] \ {Head(q)}
    <3>1. Queued'[th] = {u \in Tasks : \E i \in DOMAIN Tail(q) : Tail(q)[i] = u}
      BY <1>1 DEF Queued, InQueue
    <3>2. Queued[th] = {u \in Tasks : \E i \in DOMAIN q : q[i] = u}
      BY DEF Queued, InQueue
    <3> QED
      BY <1>6, <3>1, <3>2
  <2> QED
    BY <1>2, <2>1, OtherQueues
<1>8. NoRepeat'
  <2>1. ASSUME NEW i \in DOMAIN Tail(q), NEW j \in DOMAIN Tail(q),
               Tail(q)[i] = Tail(q)[j]
        PROVE  i = j
    <3>1. i \in 1 .. Len(q) - 1 /\ j \in 1 .. Len(q) - 1
      BY <1>3
    <3>2. i + 1 \in DOMAIN q /\ j + 1 \in DOMAIN q
      BY <1>3, <3>1
    <3>3. q[i + 1] = q[j + 1]
      BY <1>3, <2>1, <3>1
    <3>4. i + 1 = j + 1
      BY <1>5, <3>2, <3>3
    <3> QED
      BY <3>1, <3>4
  <2> QED
    BY <1>1, <1>2, <2>1 DEF NoRepeat
<1> QED
  BY <1>4, <1>7, <1>8

LEMMA AfterClear ==
    ASSUME TypeOK, NoRepeat, NEW th \in Threads,
           fTaskQueue' = [fTaskQueue EXCEPT ![th] = <<>>]
    PROVE  Queued' = [Queued EXCEPT ![th] = {}] /\ NoRepeat'
<1>1. fTaskQueue'[th] = <<>> /\ \A u \in Threads \ {th} : fTaskQueue'[u] = fTaskQueue[u]
  BY DEF TypeOK
<1>2. DOMAIN fTaskQueue'[th] = {}
  BY <1>1, EmptySeq
<1>3. Queued'[th] = {}
  BY <1>2 DEF Queued, InQueue
<1>4. NoRepeat'
  BY <1>1, <1>2 DEF NoRepeat
<1> QED
  BY <1>1, <1>3, <1>4, OtherQueues

-----------------------------------------------------------------------------
(* PlaceInv is inductive: one step per action.                             *)

LEMMA PlaceInit == Init => PlaceInv
<1> SUFFICES ASSUME Init PROVE PlaceInv
  OBVIOUS
<1>1. NoRepeat /\ Queued = [th \in Threads |-> {}]
  BY EmptySeq DEF Init, NoRepeat, Queued, InQueue
<1>2. WaitingHoldsNone
  BY DEF Init, WaitingHoldsNone
<1>3. ASSUME NEW t \in Tasks PROVE TaskInv(t)
  BY <1>1, NullAssumption
  DEF Init, TaskInv, Alone, Marked, Scheduled, Affine
<1> QED
  BY <1>1, <1>2, <1>3 DEF PlaceInv

(* A step that moves no task and touches no flag, queue, heap or thread    *)
(* preference.                                                             *)
LEMMA PlaceUnmoved ==
    ASSUME PlaceInv, UNCHANGED <<fEvents, fUseThisThread, life, fTaskQueue, fHeap,
                                 theTask, toEnqueue, removed>>,
           WaitingHoldsNone'
    PROVE  PlaceInv'
<1>1. Queued' = Queued /\ NoRepeat'
  BY SameQueues DEF PlaceInv
<1> QED
  BY <1>1 DEF PlaceInv, TaskInv, Alone, Marked, Scheduled, Affine

(* The or of kAlive: the task becomes the signaller's, or stays where it is.*)
LEMMA PlaceSignalOr ==
    ASSUME TypeInv, PlaceInv,
           NEW s \in Signallers, NEW t \in Tasks, NEW e \in SignalEvents,
           SignalOr(s, t, e)
    PROVE  PlaceInv'
<1>1. /\ life[t] = "live" /\ toEnqueue[s] = NoTask
      /\ UNCHANGED <<fUseThisThread, life, fTaskQueue, fHeap, theTask, pc>>
      /\ fEvents' = [fEvents EXCEPT ![t] = @ \cup {e, kAlive}]
      /\ removed' = removed
      /\ toEnqueue' = IF kAlive \notin fEvents[t] /\ removed # Threads
                      THEN [toEnqueue EXCEPT ![s] = t] ELSE toEnqueue
  BY ThreadsAssumption
  DEF SignalOr, MustEnQueue, sNumTaskThreads, threadVars, poolVars, placeVars
<1>2. Queued' = Queued /\ NoRepeat'
  BY <1>1, SameQueues DEF PlaceInv
<1>3. WaitingHoldsNone'
  BY <1>1 DEF PlaceInv, WaitingHoldsNone
<1>4. TaskInv(t) /\ Marked(t)
  BY <1>1 DEF PlaceInv, TaskInv
<1>5. CASE kAlive \notin fEvents[t] /\ removed # Threads
  <2>1. toEnqueue' = [toEnqueue EXCEPT ![s] = t] /\ ~ Scheduled(t)
    BY <1>1, <1>4, <1>5 DEF Marked
  <2>2. TaskInv(t)'
    BY <1>1, <1>2, <1>4, <2>1
    DEF TypeInv, TypeOK, TaskInv, Alone, Marked, Scheduled, Affine
  <2>3. ASSUME NEW u \in Tasks \ {t} PROVE TaskInv(u)'
    <3>1. \A r \in Signallers : toEnqueue'[r] = u <=> toEnqueue[r] = u
      BY <1>1, <2>1, NullAssumption DEF TypeInv, TypeOK
    <3>2. fEvents'[u] = fEvents[u] /\ TaskInv(u)
      BY <1>1 DEF TypeInv, TypeOK, PlaceInv
    <3> QED
      BY <1>1, <1>2, <3>1, <3>2
      DEF TaskInv, Alone, Marked, Scheduled, Affine
  <2> QED
    BY <1>2, <1>3, <2>2, <2>3 DEF PlaceInv
<1>6. CASE kAlive \in fEvents[t]
  <2>1. toEnqueue' = toEnqueue
    BY <1>1, <1>6
  <2>2. ASSUME NEW u \in Tasks PROVE TaskInv(u)'
    <3>1. kAlive \in fEvents'[u] <=> kAlive \in fEvents[u]
      BY <1>1, <1>6 DEF TypeInv, TypeOK
    <3>2. fEvents'[u] # {} => fEvents[u] # {}
      BY <1>1, <1>6 DEF TypeInv, TypeOK
    <3>3. TaskInv(u)
      BY DEF PlaceInv
    <3> QED
      BY <1>1, <1>2, <2>1, <3>1, <3>2, <3>3
      DEF TaskInv, Alone, Marked, Scheduled, Affine
  <2> QED
    BY <1>2, <1>3, <2>2 DEF PlaceInv
<1>7. CASE kAlive \notin fEvents[t] /\ removed = Threads
  <2>1. toEnqueue' = toEnqueue /\ ~ Scheduled(t)
    BY <1>1, <1>4, <1>7 DEF Marked
  <2>2. TaskInv(t)'
    BY <1>1, <1>2, <1>4, <1>7, <2>1
    DEF TypeInv, TypeOK, TaskInv, Alone, Marked, Scheduled, Affine
  <2>3. ASSUME NEW u \in Tasks \ {t} PROVE TaskInv(u)'
    <3>1. fEvents'[u] = fEvents[u] /\ TaskInv(u)
      BY <1>1 DEF TypeInv, TypeOK, PlaceInv
    <3> QED
      BY <1>1, <1>2, <2>1, <3>1 DEF TaskInv, Alone, Marked, Scheduled, Affine
  <2> QED
    BY <1>2, <1>3, <2>2, <2>3 DEF PlaceInv
<1> QED
  BY <1>5, <1>6, <1>7

LEMMA PlaceSignalEnQueue ==
    ASSUME TypeInv, PlaceInv, NEW s \in Signallers, SignalEnQueue(s)
    PROVE  PlaceInv'
<1>1. PICK t \in Tasks : toEnqueue[s] = t
  BY DEF SignalEnQueue, TypeInv, TypeOK
<1>2. PICK th \in Threads : th = ThreadFor(t)
  BY NextThreadInThreads DEF ThreadFor, TypeInv, TypeOK
<1>3. /\ UNCHANGED <<fEvents, fUseThisThread, life, fHeap, theTask, pc, removed>>
      /\ toEnqueue' = [toEnqueue EXCEPT ![s] = NoTask]
      /\ fTaskQueue' = [fTaskQueue EXCEPT ![th] = EnQueue(@, t)]
  BY <1>1, <1>2 DEF SignalEnQueue, taskVars, threadVars, poolVars
<1>4. Queued' = [Queued EXCEPT ![th] = @ \cup {t}] /\ NoRepeat'
  BY <1>3, AfterEnQueue DEF PlaceInv, TypeInv
<1>5. /\ Queued \in [Threads -> SUBSET Tasks]
      /\ toEnqueue \in [Signallers -> Tasks \cup {NoTask}]
  BY QueuedType DEF TypeInv, TypeOK
<1>6. WaitingHoldsNone'
  BY <1>3 DEF PlaceInv, WaitingHoldsNone
<1>7. TaskInv(t) /\ Scheduled(t)
  BY <1>1 DEF PlaceInv, Scheduled
<1>8. fUseThisThread[t] \in {NoThread, th}
  BY <1>2 DEF ThreadFor
<1>9. TaskInv(t)'
  <2>1. t \in Queued'[th] /\ Scheduled(t)'
    BY <1>4, <1>5 DEF Scheduled
  <2>2. /\ \A r \in Signallers : toEnqueue'[r] # t
        /\ \A u \in Threads : t \notin fHeap[u] /\ theTask[u] # t
        /\ \A u \in Threads : t \in Queued'[u] => u = th
    BY <1>1, <1>3, <1>4, <1>5, <1>7, NullAssumption DEF TaskInv, Alone
  <2> QED
    BY <1>3, <1>7, <1>8, <2>1, <2>2
    DEF TaskInv, Alone, Marked, Affine
<1>10. ASSUME NEW u \in Tasks \ {t} PROVE TaskInv(u)'
  <2>1. /\ \A r \in Signallers : toEnqueue'[r] = u <=> toEnqueue[r] = u
        /\ \A w \in Threads : u \in Queued'[w] <=> u \in Queued[w]
    BY <1>1, <1>3, <1>4, <1>5, NullAssumption
  <2>2. TaskInv(u)
    BY DEF PlaceInv
  <2> QED
    BY <1>3, <2>1, <2>2 DEF TaskInv, Alone, Marked, Scheduled, Affine
<1> QED
  BY <1>4, <1>6, <1>9, <1>10 DEF PlaceInv

(* A thread in WaitForTask is handed a task t that was in its heap or      *)
(* queue: H and Q are the heaps and queues without it.                     *)
LEMMA PlaceDispatch ==
    ASSUME TypeInv, PlaceInv, NEW th \in Threads, NEW t \in Tasks,
           pc[th] \in Waiting, Dispatch(th, t),
           t \in fHeap[th] \/ t \in Queued[th],
           UNCHANGED <<fEvents, fUseThisThread, life, removed, toEnqueue>>,
           fHeap' = [fHeap EXCEPT ![th] = @ \ {t}],
           Queued' = [Queued EXCEPT ![th] = @ \ {t}],
           NoRepeat'
    PROVE  PlaceInv'
<1>1. TaskInv(t) /\ Scheduled(t)
  BY DEF PlaceInv, Scheduled
<1>2. /\ life[t] = "live" /\ theTask[th] = NoTask /\ t # NoTask
      /\ fHeap \in [Threads -> SUBSET Tasks] /\ Queued \in [Threads -> SUBSET Tasks]
      /\ theTask \in [Threads -> Tasks \cup {NoTask}]
  BY <1>1, QueuedType, NullAssumption
  DEF TaskInv, PlaceInv, WaitingHoldsNone, TypeInv, TypeOK
<1>3. theTask' = [theTask EXCEPT ![th] = t] /\ pc' = [pc EXCEPT ![th] = "entry"]
  BY <1>2 DEF Dispatch
<1>4. WaitingHoldsNone'
  BY <1>2, <1>3 DEF PlaceInv, WaitingHoldsNone, Waiting, TypeInv, TypeOK
<1>5. TaskInv(t)'
  <2>1. theTask'[th] = t /\ Scheduled(t)'
    BY <1>2, <1>3 DEF Scheduled
  <2>2. /\ \A r \in Signallers : toEnqueue[r] # t
        /\ \A u \in Threads : t \notin fHeap'[u] /\ t \notin Queued'[u]
        /\ \A u \in Threads : theTask'[u] = t => u = th
    BY <1>1, <1>2, <1>3 DEF TaskInv, Alone
  <2>3. fUseThisThread[t] \in {NoThread, th}
    BY <1>1 DEF TaskInv, Affine
  <2> QED
    BY <1>1, <2>1, <2>2, <2>3 DEF TaskInv, Alone, Marked, Affine
<1>6. ASSUME NEW u \in Tasks \ {t} PROVE TaskInv(u)'
  <2>1. \A w \in Threads :
           /\ u \in Queued'[w] <=> u \in Queued[w]
           /\ u \in fHeap'[w] <=> u \in fHeap[w]
           /\ theTask'[w] = u <=> theTask[w] = u
    BY <1>2, <1>3, NullAssumption
  <2>2. TaskInv(u)
    BY DEF PlaceInv
  <2> QED
    BY <2>1, <2>2 DEF TaskInv, Alone, Marked, Scheduled, Affine
<1> QED
  BY <1>4, <1>5, <1>6 DEF PlaceInv

LEMMA PlaceTakeFromHeap ==
    ASSUME TypeInv, PlaceInv, NEW th \in Threads, TakeFromHeap(th)
    PROVE  PlaceInv'
<1>1. PICK t \in DueTasks(th) :
         fHeap' = [fHeap EXCEPT ![th] = @ \ {t}] /\ Dispatch(th, t)
  BY DEF TakeFromHeap
<1>2. /\ t \in Tasks /\ t \in fHeap[th] /\ pc[th] \in Waiting
      /\ UNCHANGED <<fEvents, fUseThisThread, life, removed, toEnqueue, fTaskQueue>>
  BY DEF DueTasks, TakeFromHeap, taskVars, poolVars, signalVars, Waiting, TypeInv, TypeOK
<1>3. Queued' = Queued /\ NoRepeat'
  BY <1>2, SameQueues DEF PlaceInv
<1>4. t \notin Queued[th]
  BY <1>2 DEF PlaceInv, TaskInv, Alone
<1>5. Queued' = [Queued EXCEPT ![th] = @ \ {t}]
  BY <1>3, <1>4, QueuedType DEF TypeInv
<1> QED
  BY <1>1, <1>2, <1>3, <1>5, PlaceDispatch

LEMMA PlaceTakeFromQueue ==
    ASSUME TypeInv, PlaceInv, NEW th \in Threads, TakeFromQueue(th)
    PROVE  PlaceInv'
<1> DEFINE t == Head(fTaskQueue[th])
<1>1. /\ Dispatch(th, t) /\ pc[th] \in Waiting
      /\ UNCHANGED <<fEvents, fUseThisThread, life, removed, toEnqueue, fHeap>>
  BY DEF TakeFromQueue, taskVars, poolVars, signalVars, Waiting
<1>2. /\ t \in Queued[th] /\ NoRepeat'
      /\ Queued' = [Queued EXCEPT ![th] = @ \ {t}]
  BY AfterDeQueue DEF TakeFromQueue, TypeInv, PlaceInv
<1>3. t \in Tasks
  BY <1>2, QueuedType DEF TypeInv
<1>4. t \notin fHeap[th]
  BY <1>2, <1>3 DEF PlaceInv, TaskInv, Alone
<1>5. fHeap' = [fHeap EXCEPT ![th] = @ \ {t}]
  BY <1>1, <1>4 DEF TypeInv, TypeOK
<1> QED
  BY <1>1, <1>2, <1>3, <1>5, PlaceDispatch

(* The thread that holds t changes t's flags, life or thread preference    *)
(* and keeps it.                                                           *)
LEMMA PlaceKeep ==
    ASSUME TypeInv, PlaceInv, NEW th \in Threads, NEW t \in Tasks,
           theTask[th] = t, pc[th] \notin Waiting,
           NEW E \in SUBSET Flags, kAlive \in E,
           NEW f \in {NoThread, th, fUseThisThread[t]},
           fEvents' = [fEvents EXCEPT ![t] = E],
           fUseThisThread' = [fUseThisThread EXCEPT ![t] = f],
           UNCHANGED <<life, fTaskQueue, fHeap, theTask, toEnqueue, removed>>,
           WaitingHoldsNone'
    PROVE  PlaceInv'
<1>1. Queued' = Queued /\ NoRepeat'
  BY SameQueues DEF PlaceInv
<1>2. TaskInv(t) /\ Scheduled(t) /\ Scheduled(t)'
  BY <1>1 DEF PlaceInv, Scheduled
<1>3. TaskInv(t)'
  <2>1. fEvents'[t] = E /\ fUseThisThread'[t] = f
    BY DEF TypeInv, TypeOK
  <2>2. \A u \in Threads :
           t \in Queued[u] \/ t \in fHeap[u] \/ theTask[u] = t => u = th
    BY <1>2 DEF TaskInv, Alone
  <2>3. Affine(t)'
    BY <1>1, <1>2, <2>1, <2>2 DEF TaskInv, Affine
  <2> QED
    BY <1>1, <1>2, <2>1, <2>3 DEF TaskInv, Alone, Marked
<1>4. ASSUME NEW u \in Tasks \ {t} PROVE TaskInv(u)'
  <2>1. fEvents'[u] = fEvents[u] /\ fUseThisThread'[u] = fUseThisThread[u]
    BY DEF TypeInv, TypeOK
  <2>2. TaskInv(u)
    BY DEF PlaceInv
  <2> QED
    BY <1>1, <2>1, <2>2 DEF TaskInv, Alone, Marked, Scheduled, Affine
<1> QED
  BY <1>1, <1>3, <1>4 DEF PlaceInv

(* The thread that holds t lets go of it: t goes to the thread's heap      *)
(* (H = {t}), or nowhere (H = {}), being idle or dead from now on.         *)
LEMMA PlaceRelease ==
    ASSUME TypeInv, PlaceInv, NEW th \in Threads, NEW t \in Tasks,
           theTask[th] = t, pc[th] \notin Waiting, Release(th),
           UNCHANGED <<fUseThisThread, fTaskQueue>>,
           NEW E \in SUBSET Flags, NEW l \in {"live", "dead"},
           NEW H \in {{}, {t}},
           fEvents' = [fEvents EXCEPT ![t] = E],
           life' = [life EXCEPT ![t] = l],
           fHeap' = [fHeap EXCEPT ![th] = @ \cup H],
           H = {} => l = "dead" \/ E = {},
           H = {t} => l = "live" /\ kAlive \in E
    PROVE  PlaceInv'
<1>1. Queued' = Queued /\ NoRepeat'
  BY SameQueues DEF PlaceInv
<1>2. /\ theTask' = [theTask EXCEPT ![th] = NoTask]
      /\ pc' = [pc EXCEPT ![th] = "waitForTask"]
      /\ toEnqueue' = toEnqueue /\ removed' = removed
  BY DEF Release, signalVars, poolVars
<1>3. WaitingHoldsNone'
  BY <1>2 DEF PlaceInv, WaitingHoldsNone, TypeInv, TypeOK
<1>4. TaskInv(t) /\ t # NoTask
  BY NullAssumption DEF PlaceInv
<1>5. TaskInv(t)'
  <2>1. fEvents'[t] = E /\ life'[t] = l
    BY DEF TypeInv, TypeOK
  <2>2. /\ \A r \in Signallers : toEnqueue'[r] # t
        /\ \A u \in Threads : t \notin Queued'[u] /\ theTask'[u] # t
        /\ \A u \in Threads : t \in fHeap'[u] <=> u = th /\ H = {t}
    BY <1>1, <1>2, <1>4 DEF TaskInv, Alone, TypeInv, TypeOK
  <2>3. Alone(t)'
    BY <2>2 DEF Alone
  <2>4. Affine(t)'
    BY <1>4, <2>2 DEF Affine, TaskInv
  <2>5. Scheduled(t)' <=> H = {t}
    BY <2>2 DEF Scheduled
  <2> QED
    BY <2>1, <2>3, <2>4, <2>5 DEF TaskInv, Marked
<1>6. ASSUME NEW u \in Tasks \ {t} PROVE TaskInv(u)'
  <2>1. fEvents'[u] = fEvents[u] /\ life'[u] = life[u]
    BY DEF TypeInv, TypeOK
  <2>2. \A w \in Threads :
           /\ theTask'[w] = u <=> theTask[w] = u
           /\ u \in fHeap'[w] <=> u \in fHeap[w]
    BY <1>2, NullAssumption DEF TypeInv, TypeOK
  <2>3. TaskInv(u)
    BY DEF PlaceInv
  <2> QED
    BY <1>1, <1>2, <2>1, <2>2, <2>3
    DEF TaskInv, Alone, Marked, Scheduled, Affine
<1> QED
  BY <1>1, <1>3, <1>5, <1>6 DEF PlaceInv

(* What a thread knows of the task in its hands.                           *)
LEMMA Held ==
    ASSUME TypeInv, PlaceInv, NEW th \in Threads, pc[th] \notin Waiting
    PROVE  /\ theTask[th] \in Tasks
           /\ life[theTask[th]] = "live"
           /\ kAlive \in fEvents[theTask[th]]
           /\ fEvents[theTask[th]] \in SUBSET Flags
<1>1. theTask[th] \in Tasks
  BY DEF TypeInv, HasTask
<1>2. TaskInv(theTask[th]) /\ Scheduled(theTask[th])
  BY <1>1 DEF PlaceInv, Scheduled
<1> QED
  BY <1>1, <1>2 DEF TaskInv, Marked, TypeInv, TypeOK

LEMMA PlaceThreadStep ==
    ASSUME TypeInv, PlaceInv, NEW th \in Threads,
           ThreadStep(th) \/ ForceSameThread(th)
    PROVE  PlaceInv'
<1> USE DEF Waiting
<1>1. CASE TakeFromHeap(th)
  BY <1>1, PlaceTakeFromHeap
<1>2. CASE TakeFromQueue(th)
  BY <1>2, PlaceTakeFromQueue
<1>3. CASE BlockOnQueue(th)
  <2>1. WaitingHoldsNone'
    BY <1>3 DEF BlockOnQueue, PlaceInv, WaitingHoldsNone, TypeInv, TypeOK
  <2> QED
    BY <1>3, <2>1, PlaceUnmoved DEF BlockOnQueue, taskVars, poolVars, placeVars, signalVars
<1>4. CASE WaitTimedOut(th)
  <2>1. WaitingHoldsNone'
    BY <1>4 DEF WaitTimedOut, PlaceInv, WaitingHoldsNone, TypeInv, TypeOK
  <2> QED
    BY <1>4, <2>1, PlaceUnmoved DEF WaitTimedOut, taskVars, poolVars, placeVars, signalVars
<1>5. CASE Prepare(th)
  <2>1. WaitingHoldsNone'
    BY <1>5 DEF Prepare, PlaceInv, WaitingHoldsNone, TypeInv, TypeOK
  <2>2. fEvents' = [fEvents EXCEPT ![theTask[th]] = fEvents[theTask[th]]]
    BY <1>5, Held DEF Prepare, TypeInv, TypeOK
  <2>3. PICK t \in Tasks : t = theTask[th]
    BY <1>5, Held DEF Prepare
  <2>4. PICK E \in SUBSET Flags : E = fEvents[t] /\ kAlive \in E
    BY <1>5, <2>3, Held DEF Prepare
  <2> QED
    BY <1>5, <2>1, <2>2, <2>3, <2>4, PlaceKeep DEF Prepare, poolVars, placeVars, signalVars
<1>6. CASE LockRead(th) \/ LockWrite(th) \/ GetEventsRead(th) \/ RunAgain(th)
  <2>1. /\ UNCHANGED <<taskVars, poolVars, placeVars, signalVars, theTask>>
        /\ pc[th] \notin Waiting
        /\ \E x \in PCs \ Waiting : pc' = [pc EXCEPT ![th] = x]
    BY <1>6 DEF LockRead, LockWrite, GetEventsRead, RunAgain, PCs
  <2>2. WaitingHoldsNone'
    BY <2>1 DEF PlaceInv, WaitingHoldsNone, TypeInv, TypeOK
  <2> QED
    BY <2>1, <2>2, PlaceUnmoved DEF taskVars, poolVars, placeVars, signalVars
<1>7. CASE GetEventsSub(th)
  <2>1. WaitingHoldsNone'
    BY <1>7 DEF GetEventsSub, PlaceInv, WaitingHoldsNone, TypeInv, TypeOK
  <2>2. PICK t \in Tasks : t = theTask[th]
    BY <1>7, Held DEF GetEventsSub
  <2>3. PICK E \in SUBSET Flags : E = fEvents[t] \ got[th] /\ kAlive \in E
    <3>1. pc[th] \notin Waiting
      BY <1>7 DEF GetEventsSub
    <3>2. kAlive \in fEvents[t] /\ fEvents[t] \in SUBSET Flags
      BY <2>2, <3>1, Held
    <3>3. kAlive \notin got[th]
      BY EventsAssumption DEF TypeInv, TypeOK
    <3>4. kAlive \in fEvents[t] \ got[th] /\ fEvents[t] \ got[th] \in SUBSET Flags
      BY <3>2, <3>3
    <3> QED
      BY <3>4
  <2>4. fUseThisThread' = [fUseThisThread EXCEPT ![t] = fUseThisThread[t]]
    BY <1>7, <2>2 DEF GetEventsSub, TypeInv, TypeOK
  <2> QED
    BY <1>7, <2>1, <2>2, <2>3, <2>4, PlaceKeep
    DEF GetEventsSub, poolVars, placeVars, signalVars
<1>8. CASE ForceSameThread(th) \/ RunReturns(th)
  <2>1. WaitingHoldsNone'
    <3>1. theTask' = theTask /\ (pc' = pc \/ pc' = [pc EXCEPT ![th] = "returned"])
      BY <1>8 DEF ForceSameThread, RunReturns, Return, ReturnCallLocked, threadVars
    <3> QED
      BY <3>1 DEF PlaceInv, WaitingHoldsNone, TypeInv, TypeOK
  <2>2. PICK t \in Tasks : t = theTask[th]
    BY <1>8, Held DEF ForceSameThread, RunReturns, Return, ReturnCallLocked
  <2>3. PICK E \in SUBSET Flags : E = fEvents[t] /\ kAlive \in E
    BY <1>8, <2>2, Held DEF ForceSameThread, RunReturns, Return, ReturnCallLocked
  <2>4. /\ pc[th] \notin Waiting
        /\ UNCHANGED <<fEvents, life, fTaskQueue, fHeap, theTask, toEnqueue, removed>>
        /\ \E f \in {th, fUseThisThread[t]} :
              fUseThisThread' = [fUseThisThread EXCEPT ![t] = f]
    BY <1>8, <2>2 DEF ForceSameThread, RunReturns, Return, ReturnCallLocked,
                      threadVars, poolVars, placeVars, signalVars, TypeInv,
                      TypeOK
  <2>5. fEvents' = [fEvents EXCEPT ![t] = E]
    BY <2>3, <2>4 DEF TypeInv, TypeOK
  <2>6. PICK f \in {th, fUseThisThread[t]} :
           fUseThisThread' = [fUseThisThread EXCEPT ![t] = f]
    BY <2>4
  <2>7. f \in {NoThread, th, fUseThisThread[t]}
    OBVIOUS
  <2> QED
    <3>1. theTask[th] = t /\ kAlive \in E /\ pc[th] \notin Waiting
      BY <2>2, <2>3, <2>4
    <3>2. UNCHANGED <<life, fTaskQueue, fHeap, theTask, toEnqueue, removed>>
      BY <2>4
    <3> HIDE DEF Waiting
    <3> QED
      BY <2>1, <2>5, <2>6, <2>7, <3>1, <3>2, PlaceKeep
<1>9. CASE DeleteTask(th)
  <2>1. PICK t \in Tasks : t = theTask[th]
    BY <1>9, Held DEF DeleteTask
  <2>2. PICK E \in SUBSET Flags : E = fEvents[t]
    BY <2>1 DEF TypeInv, TypeOK
  <2>3. /\ fEvents' = [fEvents EXCEPT ![t] = E]
        /\ fHeap' = [fHeap EXCEPT ![th] = @ \cup {}]
        /\ life' = [life EXCEPT ![t] = "dead"]
        /\ Release(th) /\ UNCHANGED <<fUseThisThread, fTaskQueue>>
        /\ pc[th] \notin Waiting
    BY <1>9, <2>1, <2>2 DEF DeleteTask, placeVars, TypeInv, TypeOK
  <2> QED
    BY <2>1, <2>3, PlaceRelease
<1>10. CASE FinishTask(th)
  <2>1. PICK t \in Tasks : t = theTask[th]
    BY <1>10, Held DEF FinishTask
  <2>2. PICK l \in {"live", "dead"} : l = life[t]
    BY <2>1 DEF TypeInv, TypeOK
  <2>3. /\ fEvents' = [fEvents EXCEPT ![t] = {}]
        /\ fHeap' = [fHeap EXCEPT ![th] = @ \cup {}]
        /\ life' = [life EXCEPT ![t] = l]
        /\ Release(th) /\ UNCHANGED <<fUseThisThread, fTaskQueue>>
        /\ pc[th] \notin Waiting
    BY <1>10, <2>1, <2>2 DEF FinishTask, placeVars, TypeInv, TypeOK
  <2> QED
    BY <2>1, <2>3, PlaceRelease
<1>11. CASE InsertInHeap(th)
  <2>1. PICK t \in Tasks : t = theTask[th]
    BY <1>11, Held DEF InsertInHeap
  <2>2. PICK E \in SUBSET Flags : E = fEvents[t] \cup {kIdleEvent} /\ kAlive \in E
    BY <1>11, <2>1, Held DEF InsertInHeap, Flags, Events
  <2>3. /\ fEvents' = [fEvents EXCEPT ![t] = E]
        /\ fHeap' = [fHeap EXCEPT ![th] = @ \cup {t}]
        /\ life' = [life EXCEPT ![t] = "live"]
        /\ Release(th) /\ UNCHANGED <<fUseThisThread, fTaskQueue>>
        /\ pc[th] \notin Waiting
    BY <1>11, <2>1, <2>2, Held DEF InsertInHeap, TypeInv, TypeOK
  <2>4. PICK H \in {{}, {t}} : H = {t}
    OBVIOUS
  <2> QED
    BY <2>1, <2>2, <2>3, <2>4, PlaceRelease
<1> QED
  BY <1>1, <1>2, <1>3, <1>4, <1>5, <1>6, <1>7, <1>8, <1>9, <1>10, <1>11
  DEF ThreadStep
(* ~TaskThread: the tasks in the heap and the queue of th die with it.     *)
LEMMA PlaceDeleteThread ==
    ASSUME TypeInv, PlaceInv, NEW th \in Threads, DeleteThread(th)
    PROVE  PlaceInv'
<1>1. /\ UNCHANGED <<fEvents, fUseThisThread, theTask, pc, toEnqueue>>
      /\ fHeap' = [fHeap EXCEPT ![th] = {}]
      /\ fTaskQueue' = [fTaskQueue EXCEPT ![th] = <<>>]
      /\ pc[th] = "exited" /\ (removed' # Threads => removed # Threads)
  BY DEF DeleteThread, threadVars, signalVars, TypeInv, TypeOK
<1>2. Queued' = [Queued EXCEPT ![th] = {}] /\ NoRepeat'
  BY <1>1, AfterClear DEF PlaceInv, TypeInv
<1>3. Queued \in [Threads -> SUBSET Tasks] /\ fHeap \in [Threads -> SUBSET Tasks]
  BY QueuedType DEF TypeInv, TypeOK
<1>4. WaitingHoldsNone'
  BY <1>1 DEF PlaceInv, WaitingHoldsNone
<1>5. \A t \in Tasks :
         life'[t] = IF t \in fHeap[th] \/ t \in Queued[th] THEN "dead" ELSE life[t]
  BY DEF DeleteThread, TasksHeld, Queued
<1>6. ASSUME NEW t \in Tasks PROVE TaskInv(t)'
  <2>1. TaskInv(t)
    BY DEF PlaceInv
  <2>2. Alone(t)' /\ Affine(t)'
    BY <1>1, <1>2, <1>3, <2>1 DEF TaskInv, Alone, Affine
  <2>3. CASE t \in fHeap[th] \/ t \in Queued[th]
    <3>1. life'[t] = "dead" /\ ~ Scheduled(t)'
      BY <1>1, <1>2, <1>3, <1>5, <2>1, <2>3 DEF TaskInv, Alone, Scheduled
    <3> QED
      BY <2>2, <3>1 DEF TaskInv
  <2>4. CASE ~ (t \in fHeap[th] \/ t \in Queued[th])
    <3>1. life'[t] = life[t] /\ (Scheduled(t)' <=> Scheduled(t))
      BY <1>1, <1>2, <1>3, <1>5, <2>4 DEF Scheduled
    <3> QED
      BY <1>1, <2>1, <2>2, <3>1 DEF TaskInv, Marked
  <2> QED
    BY <2>3, <2>4
<1> QED
  BY <1>2, <1>4, <1>6 DEF PlaceInv

LEMMA PlaceNext == TypeInv /\ PlaceInv /\ [Next]_vars => PlaceInv'
<1> SUFFICES ASSUME TypeInv, PlaceInv, [Next]_vars PROVE PlaceInv'
  OBVIOUS
<1>1. CASE Tick \/ (\E th \in Threads : SendStopRequest(th)) \/ UNCHANGED vars
  <2>1. UNCHANGED <<taskVars, threadVars, fTaskQueue, fHeap, signalVars, removed>>
    BY <1>1 DEF Tick, SendStopRequest, vars, poolVars, placeVars
  <2>2. WaitingHoldsNone'
    BY <2>1 DEF PlaceInv, WaitingHoldsNone, threadVars
  <2> QED
    BY <2>1, <2>2, PlaceUnmoved DEF taskVars, threadVars, signalVars
<1>2. ASSUME NEW s \in Signallers,
             NEW t \in Tasks, NEW e \in SignalEvents, SignalOr(s, t, e)
      PROVE  PlaceInv'
  BY <1>2, PlaceSignalOr
<1>3. ASSUME NEW s \in Signallers, SignalEnQueue(s) PROVE PlaceInv'
  BY <1>3, PlaceSignalEnQueue
<1>4. ASSUME NEW th \in Threads, ThreadStep(th) \/ ForceSameThread(th)
      PROVE  PlaceInv'
  BY <1>4, PlaceThreadStep
<1>5. ASSUME NEW th \in Threads, DeleteThread(th) PROVE PlaceInv'
  BY <1>5, PlaceDeleteThread
<1> QED
  BY <1>1, <1>2, <1>3, <1>4, <1>5 DEF Next

-----------------------------------------------------------------------------
(* The theorems that follow from PlaceInv.                                 *)

THEOREM Inductive == Spec => [](TypeInv /\ PlaceInv)
  BY TypeInit, TypeNext, PlaceInit, PlaceNext, PTL DEF Spec

(* The places of AtMostOnePlace are those of PlaceInv.                     *)
LEMMA InPlace ==
    ASSUME NEW t \in Tasks, NEW p \in Places(t)
    PROVE  \/ \E s \in Signallers : p = <<"signal", s>> /\ toEnqueue[s] = t
           \/ \E th \in Threads : p = <<"queue", th>> /\ t \in Queued[th]
           \/ \E th \in Threads : p = <<"heap", th>> /\ t \in fHeap[th]
           \/ \E th \in Threads : p = <<"thread", th>> /\ theTask[th] = t
  BY DEF Places, Queued

LEMMA ScheduledIsPlaced ==
    ASSUME NEW t \in Tasks PROVE Scheduled(t) <=> Places(t) # {}
<1>1. ASSUME NEW s \in Signallers, toEnqueue[s] = t PROVE <<"signal", s>> \in Places(t)
  BY <1>1 DEF Places
<1>2. ASSUME NEW th \in Threads, t \in Queued[th] PROVE <<"queue", th>> \in Places(t)
  BY <1>2 DEF Places, Queued
<1>3. ASSUME NEW th \in Threads, t \in fHeap[th] PROVE <<"heap", th>> \in Places(t)
  BY <1>3 DEF Places
<1>4. ASSUME NEW th \in Threads, theTask[th] = t PROVE <<"thread", th>> \in Places(t)
  BY <1>4 DEF Places
<1>5. Places(t) # {} => Scheduled(t)
  BY InPlace DEF Scheduled
<1> QED
  BY <1>1, <1>2, <1>3, <1>4, <1>5 DEF Scheduled

(* A task is never in two queues, heaps, threads or signallers at once, so *)
(* Run is never re-entered and no task is run after its deletion began.    *)
THEOREM OnePlace == Spec => []AtMostOnePlace
<1>1. TypeInv /\ PlaceInv => AtMostOnePlace
  <2> SUFFICES ASSUME PlaceInv PROVE AtMostOnePlace
    OBVIOUS
  <2>1. ASSUME NEW t \in Tasks, NEW p \in Places(t), NEW q \in Places(t) PROVE p = q
    <3>1. Alone(t)
      BY DEF PlaceInv, TaskInv
    <3> QED
      BY <3>1, InPlace DEF Alone
  <2> QED
    BY <2>1 DEF AtMostOnePlace, PlaceInv, NoRepeat
<1> QED
  BY <1>1, Inductive, PTL

(* While there are threads, a live task is marked alive exactly while it   *)
(* is scheduled: no event is left behind by the race of Signal with the    *)
(* end of Run.                                                             *)
THEOREM NoLostWakeUp == Spec => []AliveIsScheduled
<1>1. TypeInv /\ PlaceInv => AliveIsScheduled
  BY ScheduledIsPlaced
  DEF PlaceInv, TaskInv, Marked, AliveIsScheduled, sNumTaskThreads
<1> QED
  BY <1>1, Inductive, PTL

(* No queue, heap, thread or signaller holds a deleted task, though Signal *)
(* is called while RemoveThreads drains the threads one by one.            *)
THEOREM NoDanglingTask == Spec => []DeadIsNowhere
<1>1. TypeInv /\ PlaceInv => DeadIsNowhere
  BY ScheduledIsPlaced DEF PlaceInv, TaskInv, DeadIsNowhere
<1> QED
  BY <1>1, Inductive, PTL

(* A task that asked for a thread is never taken up by another one.        *)
THEOREM RequestedThread == Spec => []SameThreadHonoured
<1>1. TypeInv /\ PlaceInv => SameThreadHonoured
  <2> SUFFICES ASSUME TypeInv, PlaceInv, NEW th \in Threads, pc[th] = "entry"
               PROVE  fUseThisThread[theTask[th]] \in {NoThread, th}
    BY DEF SameThreadHonoured
  <2>1. theTask[th] \in Tasks
    BY DEF TypeInv, HasTask, Waiting
  <2> QED
    BY <2>1 DEF PlaceInv, TaskInv, Affine
<1> QED
  BY <1>1, Inductive, PTL

-----------------------------------------------------------------------------
(* The call with the global lock.  A request for it survives until Run has *)
(* the lock, because only Entry clears fWriteLock, for the task in its     *)
(* hands, and no other thread has that task.                               *)

LockOf(th) ==
    /\ pc[th] = "lockRead" => ~ fWriteLock[theTask[th]]
    /\ InRun(th) => \/ locker[th] = "write"
                    \/ locker[th] = "read" /\ ~ fWriteLock[theTask[th]]

Requested(t) == callBackLocked[t] => fWriteLock[t]

LockInv == (\A th \in Threads : LockOf(th)) /\ \A t \in Tasks : Requested(t)

LEMMA LockInit == Init => LockInv
  BY DEF Init, LockInv, LockOf, Requested, InRun

(* A step of a thread that leaves fWriteLock alone.                        *)
LEMMA LockKeep ==
    ASSUME TypeInv, LockInv, NEW th \in Threads,
           UNCHANGED <<fWriteLock, callBackLocked>>,
           \A u \in Threads \ {th} : /\ pc'[u] = pc[u] /\ theTask'[u] = theTask[u]
                                     /\ locker'[u] = locker[u],
           LockOf(th)'
    PROVE  LockInv'
<1>1. ASSUME NEW u \in Threads, u # th PROVE LockOf(u)'
  BY <1>1 DEF LockInv, LockOf, InRun
<1>2. \A t \in Tasks : Requested(t)'
  BY DEF LockInv, Requested
<1> QED
  BY <1>1, <1>2 DEF LockInv

LEMMA LockThreadStep ==
    ASSUME TypeInv, PlaceInv, LockInv, NEW th \in Threads, ThreadStep(th)
    PROVE  LockInv'
<1> USE DEF TypeInv, TypeOK
<1>1. CASE TakeFromHeap(th) \/ TakeFromQueue(th)
  <2>1. /\ pc'[th] \in {"entry", "exited"} /\ UNCHANGED <<fWriteLock, callBackLocked>>
        /\ \A u \in Threads \ {th} : /\ pc'[u] = pc[u] /\ theTask'[u] = theTask[u]
                                     /\ locker'[u] = locker[u]
    BY <1>1 DEF TakeFromHeap, TakeFromQueue, Dispatch, taskVars
  <2> QED
    BY <2>1, LockKeep DEF LockOf, InRun
<1>2. CASE BlockOnQueue(th) \/ WaitTimedOut(th) \/ RunAgain(th)
  <2>1. /\ pc'[th] \in {"blocked", "exited", "waitForTask", "entry"}
        /\ UNCHANGED <<fWriteLock, callBackLocked>>
        /\ \A u \in Threads \ {th} : /\ pc'[u] = pc[u] /\ theTask'[u] = theTask[u]
                                     /\ locker'[u] = locker[u]
    BY <1>2 DEF BlockOnQueue, WaitTimedOut, RunAgain, taskVars
  <2> QED
    BY <2>1, LockKeep DEF LockOf, InRun
<1>3. CASE DeleteTask(th) \/ FinishTask(th) \/ InsertInHeap(th)
  <2>1. /\ pc'[th] = "waitForTask" /\ UNCHANGED <<fWriteLock, callBackLocked>>
        /\ \A u \in Threads \ {th} : /\ pc'[u] = pc[u] /\ theTask'[u] = theTask[u]
                                     /\ locker'[u] = locker[u]
    BY <1>3 DEF DeleteTask, FinishTask, InsertInHeap, Release, taskVars
  <2> QED
    BY <2>1, LockKeep DEF LockOf, InRun
<1>4. CASE Prepare(th)
  <2>1. /\ pc'[th] = "lockRead" => ~ fWriteLock[theTask[th]]
        /\ pc'[th] \in {"lockRead", "lockWrite"}
        /\ UNCHANGED <<fWriteLock, callBackLocked, theTask, locker>>
        /\ \A u \in Threads \ {th} : pc'[u] = pc[u]
    BY <1>4 DEF Prepare, taskVars
  <2> QED
    BY <2>1, LockKeep DEF LockOf, InRun
<1>5. CASE LockRead(th)
  <2>1. /\ pc[th] = "lockRead" /\ pc'[th] = "running" /\ locker'[th] = "read"
        /\ UNCHANGED <<fWriteLock, callBackLocked, theTask>>
        /\ \A u \in Threads \ {th} : pc'[u] = pc[u] /\ locker'[u] = locker[u]
    BY <1>5 DEF LockRead, taskVars
  <2> QED
    BY <2>1, LockKeep DEF LockInv, LockOf, InRun
<1>6. CASE LockWrite(th)
  <2>1. /\ pc'[th] = "running" /\ locker'[th] = "write"
        /\ UNCHANGED <<fWriteLock, callBackLocked, theTask>>
        /\ \A u \in Threads \ {th} : pc'[u] = pc[u] /\ locker'[u] = locker[u]
    BY <1>6 DEF LockWrite, taskVars
  <2> QED
    BY <2>1, LockKeep DEF LockOf, InRun
<1>7. CASE GetEventsRead(th) \/ GetEventsSub(th)
  <2>1. /\ InRun(th) /\ pc'[th] \in {"getEvents", "handling"}
        /\ UNCHANGED <<fWriteLock, callBackLocked, theTask, locker>>
        /\ \A u \in Threads \ {th} : pc'[u] = pc[u]
    BY <1>7 DEF GetEventsRead, GetEventsSub, InRun, taskVars
  <2> QED
    BY <2>1, LockKeep DEF LockInv, LockOf, InRun
<1>8. CASE RunReturns(th)
  <2>1. PICK t \in Tasks : t = theTask[th]
    BY <1>8 DEF RunReturns, Return, ReturnCallLocked, HasTask, Waiting
  <2>2. /\ pc'[th] = "returned" /\ UNCHANGED theTask
        /\ \A u \in Threads \ {th} : pc'[u] = pc[u] /\ locker'[u] = locker[u]
    BY <1>8 DEF RunReturns, Return, ReturnCallLocked
  <2>3. \A v \in Tasks \ {t} : (fWriteLock'[v] <=> fWriteLock[v])
                                /\ (callBackLocked'[v] <=> callBackLocked[v])
    BY <1>8, <2>1, Zenon DEF RunReturns, Return, ReturnCallLocked
  <2>4. callBackLocked'[t] => fWriteLock'[t]
    <3>1. ASSUME NEW n \in -1 .. MaxTimeout, Return(th, n) PROVE ~ callBackLocked'[t]
      BY <2>1, <3>1 DEF Return
    <3>2. CASE ReturnCallLocked(th)
      <4>1. callBackLocked'[t] <=> locker[th] = "read"
        BY <2>1, <3>2, Zenon DEF ReturnCallLocked
      <4>2. fWriteLock'[t] <=> locker[th] # "write"
        BY <2>1, <3>2, Zenon DEF ReturnCallLocked, LockKept
      <4> QED
        BY <4>1, <4>2
    <3> QED
      BY <1>8, <3>1, <3>2 DEF RunReturns
  <2>5. ASSUME NEW u \in Threads, u # th PROVE LockOf(u)'
    <3>1. theTask[u] # t
      BY <2>1, <2>5 DEF PlaceInv, TaskInv, Alone
    <3>2. pc[u] \notin Waiting => theTask[u] \in Tasks \ {t}
      BY <3>1 DEF HasTask
    <3> QED
      BY <2>2, <2>3, <2>5, <3>2 DEF LockInv, LockOf, InRun, Waiting
  <2>6. LockOf(th)'
    BY <2>2 DEF LockOf, InRun
  <2>7. \A v \in Tasks : Requested(v)'
    BY <2>3, <2>4 DEF LockInv, Requested
  <2> QED
    BY <2>5, <2>6, <2>7 DEF LockInv
<1> QED
  BY <1>1, <1>2, <1>3, <1>4, <1>5, <1>6, <1>7, <1>8 DEF ThreadStep

LEMMA LockNext == TypeInv /\ PlaceInv /\ LockInv /\ [Next]_vars => LockInv'
<1> SUFFICES ASSUME TypeInv, PlaceInv, LockInv, [Next]_vars PROVE LockInv'
  OBVIOUS
<1>1. ASSUME UNCHANGED <<fWriteLock, callBackLocked, pc, theTask, locker>> PROVE LockInv'
  BY <1>1 DEF LockInv, LockOf, Requested, InRun
<1>2. ASSUME NEW th \in Threads, ThreadStep(th) PROVE LockInv'
  BY <1>2, LockThreadStep
<1> QED
  BY <1>1, <1>2 DEF Next, vars, taskVars, threadVars, SignalOr, SignalEnQueue, ForceSameThread,
     Tick, SendStopRequest, DeleteThread

(* A task that asked for the write lock runs next with it, whatever the    *)
(* other threads do in between.                                            *)
THEOREM CalledBack == Spec => []CalledBackLocked
<1>1. TypeInv /\ LockInv => CalledBackLocked
  <2> SUFFICES ASSUME TypeInv, LockInv, NEW th \in Threads, InRun(th),
                      callBackLocked[theTask[th]]
               PROVE  locker[th] = "write"
    BY DEF CalledBackLocked
  <2>1. theTask[th] \in Tasks
    BY DEF TypeInv, HasTask, Waiting, InRun
  <2> QED
    BY <2>1 DEF LockInv, LockOf, Requested
<1>2. Spec => [](TypeInv /\ PlaceInv /\ LockInv)
  BY TypeInit, TypeNext, PlaceInit, PlaceNext, LockInit, LockNext, PTL DEF Spec
<1> QED
  BY <1>1, <1>2, PTL

-----------------------------------------------------------------------------
(* The global lock.  OSMutexRW lets a second writer in, so this needs that *)
(* no two tasks ask for it: then fState counts the readers, or is -1 while *)
(* the writer is alone.                                                    *)

OneLockTask == \A s, t \in LockTasks : s = t

Readers == {th \in Threads : locker[th] = "read"}
Writers == {th \in Threads : locker[th] = "write"}

HolderInv(th) ==
    /\ InRun(th) <=> locker[th] # "none"
    /\ pc[th] = "lockWrite" \/ locker[th] = "write" => theTask[th] \in LockTasks

Counted ==
    /\ Writers = {} => fState = Cardinality(Readers)
    /\ Writers # {} => fState = -1 /\ Readers = {}

ExclusionInv ==
    /\ \A t \in Tasks : fWriteLock[t] => t \in LockTasks
    /\ \A th \in Threads : HolderInv(th)
    /\ Counted

LEMMA ExclusionInit == Init => ExclusionInv
<1> SUFFICES ASSUME Init PROVE ExclusionInv
  OBVIOUS
<1>1. Readers = {} /\ Writers = {} /\ fState = 0
  BY DEF Init, Readers, Writers
<1>2. \A t \in Tasks : ~ fWriteLock[t]
  BY DEF Init
<1>3. \A th \in Threads : HolderInv(th)
  BY DEF Init, HolderInv, InRun
<1> QED
  BY <1>1, <1>2, <1>3, FS_EmptySet DEF ExclusionInv, Counted

LEMMA ReadersFinite == IsFiniteSet(Readers) /\ Cardinality(Readers) \in Nat
<1>1. IsFiniteSet(Threads)
  BY ThreadsAssumption, FS_Interval DEF Threads
<1>2. IsFiniteSet(Readers)
  BY <1>1, FS_Subset DEF Readers
<1> QED
  BY <1>2, FS_CardinalityType

(* Two threads with tasks that ask for the write lock are one.             *)
LEMMA OneLockThread ==
    ASSUME OneLockTask, PlaceInv, NEW th \in Threads, NEW u \in Threads,
           theTask[th] \in LockTasks, theTask[u] \in LockTasks
    PROVE  th = u
<1>1. theTask[th] = theTask[u] /\ theTask[u] \in Tasks
  BY ConfigAssumption DEF OneLockTask
<1> QED
  BY <1>1 DEF PlaceInv, TaskInv, Alone

(* A step of a thread that takes or leaves no lock.                        *)
LEMMA ExclusionKeep ==
    ASSUME TypeInv, ExclusionInv, NEW th \in Threads, UNCHANGED <<fWriteLock, locker, fState>>,
           \A u \in Threads \ {th} : pc'[u] = pc[u] /\ theTask'[u] = theTask[u],
           HolderInv(th)'
    PROVE  ExclusionInv'
<1>1. ASSUME NEW u \in Threads, u # th PROVE HolderInv(u)'
  BY <1>1 DEF ExclusionInv, HolderInv, InRun
<1>2. Counted'
  BY DEF ExclusionInv, Counted, Readers, Writers
<1> QED
  BY <1>1, <1>2 DEF ExclusionInv

LEMMA ExclusionThreadStep ==
    ASSUME OneLockTask, TypeInv, PlaceInv, ExclusionInv, NEW th \in Threads, ThreadStep(th)
    PROVE  ExclusionInv'
<1> USE DEF TypeInv, TypeOK
<1>0. HolderInv(th)
  BY DEF ExclusionInv
<1>1. CASE TakeFromHeap(th) \/ TakeFromQueue(th) \/ BlockOnQueue(th) \/ WaitTimedOut(th)
           \/ RunAgain(th) \/ DeleteTask(th) \/ FinishTask(th) \/ InsertInHeap(th)
  <2>1. /\ ~ InRun(th) /\ pc'[th] \in {"entry", "exited", "blocked", "waitForTask"}
        /\ UNCHANGED <<fWriteLock, locker, fState>>
        /\ \A u \in Threads \ {th} : pc'[u] = pc[u] /\ theTask'[u] = theTask[u]
    <3>1. CASE TakeFromHeap(th) \/ TakeFromQueue(th)
      BY <3>1 DEF TakeFromHeap, TakeFromQueue, Dispatch, taskVars, InRun
    <3>2. CASE BlockOnQueue(th) \/ WaitTimedOut(th) \/ RunAgain(th)
      BY <3>2 DEF BlockOnQueue, WaitTimedOut, RunAgain, taskVars, InRun
    <3>3. CASE DeleteTask(th) \/ FinishTask(th) \/ InsertInHeap(th)
      BY <3>3 DEF DeleteTask, FinishTask, InsertInHeap, Release, taskVars, InRun
    <3> QED
      BY <1>1, <3>1, <3>2, <3>3
  <2>2. HolderInv(th)'
    BY <1>0, <2>1 DEF HolderInv, InRun
  <2> QED
    BY <2>1, <2>2, ExclusionKeep
<1>2. CASE Prepare(th)
  <2>1. /\ ~ InRun(th) /\ pc'[th] \in {"lockRead", "lockWrite"}
        /\ pc'[th] = "lockWrite" => fWriteLock[theTask[th]]
        /\ UNCHANGED <<fWriteLock, locker, fState, theTask>> /\ theTask[th] \in Tasks
        /\ \A u \in Threads \ {th} : pc'[u] = pc[u]
    BY <1>2 DEF Prepare, InRun, HasTask, Waiting
  <2>2. HolderInv(th)'
    BY <1>0, <2>1 DEF HolderInv, InRun, ExclusionInv
  <2> QED
    BY <2>1, <2>2, ExclusionKeep
<1>3. CASE GetEventsRead(th) \/ GetEventsSub(th)
  <2>1. /\ InRun(th) /\ pc'[th] \in {"getEvents", "handling"}
        /\ UNCHANGED <<fWriteLock, locker, fState, theTask>>
        /\ \A u \in Threads \ {th} : pc'[u] = pc[u]
    BY <1>3 DEF GetEventsRead, GetEventsSub, InRun, taskVars
  <2>2. HolderInv(th)'
    BY <1>0, <2>1 DEF HolderInv, InRun
  <2> QED
    BY <2>1, <2>2, ExclusionKeep
<1>4. CASE LockRead(th)
  <2>1. /\ pc[th] = "lockRead" /\ pc'[th] = "running" /\ fState >= 0 /\ fState' = fState + 1
        /\ locker' = [locker EXCEPT ![th] = "read"] /\ UNCHANGED <<fWriteLock, theTask>>
        /\ \A u \in Threads \ {th} : pc'[u] = pc[u]
    BY <1>4 DEF LockRead, MayRead, taskVars
  <2>2. locker[th] = "none"
    BY <1>0, <2>1 DEF HolderInv, InRun
  <2>3. Writers = {} /\ fState = Cardinality(Readers)
    BY <2>1 DEF ExclusionInv, Counted
  <2>4. Writers' = {} /\ Readers' = Readers \cup {th} /\ th \notin Readers
    BY <2>1, <2>2, <2>3 DEF Writers, Readers
  <2>5. Cardinality(Readers') = Cardinality(Readers) + 1
    BY <2>4, ReadersFinite, FS_AddElement
  <2>6. Counted'
    BY <2>1, <2>3, <2>4, <2>5 DEF Counted
  <2>7. ASSUME NEW u \in Threads PROVE HolderInv(u)'
    BY <2>1 DEF ExclusionInv, HolderInv, InRun
  <2> QED
    BY <2>1, <2>6, <2>7 DEF ExclusionInv
<1>5. CASE LockWrite(th)
  <2>1. /\ pc[th] = "lockWrite" /\ pc'[th] = "running" /\ fState <= 0 /\ fState' = -1
        /\ locker' = [locker EXCEPT ![th] = "write"] /\ UNCHANGED <<fWriteLock, theTask>>
        /\ \A u \in Threads \ {th} : pc'[u] = pc[u]
    BY <1>5 DEF LockWrite, taskVars
  <2>2. locker[th] = "none" /\ theTask[th] \in LockTasks
    BY <1>0, <2>1 DEF HolderInv, InRun
  <2>3. Writers = {}
    BY <2>2, OneLockThread DEF Writers, ExclusionInv, HolderInv
  <2>4. Readers = {}
    BY <2>1, <2>3, ReadersFinite, FS_EmptySet DEF ExclusionInv, Counted
  <2>5. Writers' = {th} /\ Readers' = {}
    BY <2>1, <2>3, <2>4 DEF Writers, Readers
  <2>6. Counted'
    BY <2>1, <2>5 DEF Counted
  <2>7. ASSUME NEW u \in Threads PROVE HolderInv(u)'
    BY <2>1, <2>2 DEF ExclusionInv, HolderInv, InRun
  <2> QED
    BY <2>1, <2>6, <2>7 DEF ExclusionInv
<1>6. CASE RunReturns(th)
  <2>1. /\ InRun(th) /\ pc' = [pc EXCEPT ![th] = "returned"] /\ fState' = StateAfterUnlock
        /\ locker' = [locker EXCEPT ![th] = "none"] /\ UNCHANGED theTask
    BY <1>6 DEF RunReturns, Return, ReturnCallLocked, InRun
  <2>2. ASSUME NEW t \in Tasks, fWriteLock'[t] PROVE t \in LockTasks
    <3>1. CASE ReturnCallLocked(th)
      <4>1. theTask[th] \in LockTasks /\ (t # theTask[th] => (fWriteLock'[t] <=> fWriteLock[t]))
        BY <3>1, Zenon DEF ReturnCallLocked
      <4> QED
        BY <2>2, <4>1 DEF ExclusionInv
    <3>2. ASSUME NEW n \in -1 .. MaxTimeout, Return(th, n) PROVE t \in LockTasks
      <4>1. fWriteLock'[t] => fWriteLock[t]
        BY <3>2, Zenon DEF Return
      <4> QED
        BY <2>2, <4>1 DEF ExclusionInv
    <3> QED
      BY <1>6, <3>1, <3>2 DEF RunReturns
  <2>3. Counted'
    <3>1. Readers' = Readers \ {th} /\ Writers' = Writers \ {th}
      BY <2>1 DEF Readers, Writers
    <3>2. CASE locker[th] = "write"
      <4>1. Writers = {th}
        BY <1>0, <3>2, OneLockThread DEF Writers, ExclusionInv, HolderInv
      <4>2. Readers = {} /\ fState = -1
        BY <4>1 DEF ExclusionInv, Counted
      <4> QED
        BY <2>1, <3>1, <4>1, <4>2, FS_EmptySet DEF Counted, StateAfterUnlock
    <3>3. CASE locker[th] = "read"
      <4>1. th \in Readers /\ Writers = {} /\ fState = Cardinality(Readers)
        BY <3>3 DEF Readers, ExclusionInv, Counted
      <4>2. Cardinality(Readers') = Cardinality(Readers) - 1 /\ Cardinality(Readers') \in Nat
        BY <3>1, <4>1, ReadersFinite, FS_RemoveElement, FS_CardinalityType
      <4> QED
        BY <2>1, <3>1, <4>1, <4>2, ReadersFinite DEF Counted, StateAfterUnlock
    <3> QED
      BY <1>0, <2>1, <3>2, <3>3 DEF HolderInv
  <2>4. ASSUME NEW u \in Threads PROVE HolderInv(u)'
    BY <2>1 DEF ExclusionInv, HolderInv, InRun
  <2> QED
    BY <2>2, <2>3, <2>4 DEF ExclusionInv
<1> QED
  BY <1>1, <1>2, <1>3, <1>4, <1>5, <1>6 DEF ThreadStep

LEMMA ExclusionNext ==
    OneLockTask /\ TypeInv /\ PlaceInv /\ ExclusionInv /\ [Next]_vars => ExclusionInv'
<1> SUFFICES ASSUME OneLockTask, TypeInv, PlaceInv, ExclusionInv, [Next]_vars
             PROVE  ExclusionInv'
  OBVIOUS
<1>1. ASSUME UNCHANGED <<fWriteLock, pc, theTask, locker, fState>> PROVE ExclusionInv'
  BY <1>1 DEF ExclusionInv, HolderInv, InRun, Counted, Readers, Writers
<1>2. ASSUME NEW th \in Threads, ThreadStep(th) PROVE ExclusionInv'
  BY <1>2, ExclusionThreadStep
<1> QED
  BY <1>1, <1>2 DEF Next, vars, taskVars, threadVars, SignalOr, SignalEnQueue, ForceSameThread,
     Tick, SendStopRequest, DeleteThread

(* A task that holds the write lock runs alone, if only one ever asks for  *)
(* it; with two it does not, because LockWrite waits for readers only.     *)
THEOREM LockIsExclusive == ASSUME OneLockTask PROVE Spec => []GlobalLockExclusive
<1>1. TypeInv /\ PlaceInv /\ ExclusionInv => GlobalLockExclusive
  <2> SUFFICES ASSUME TypeInv, PlaceInv, ExclusionInv, NEW th \in Threads, NEW u \in Threads,
                      InRun(th), InRun(u), locker[th] = "write"
               PROVE  th = u
    BY DEF GlobalLockExclusive
  <2>1. Readers = {} /\ locker[u] # "none"
    BY DEF ExclusionInv, HolderInv, Counted, Writers
  <2>2. CASE locker[u] = "write"
    BY <2>2, OneLockThread DEF ExclusionInv, HolderInv
  <2>3. CASE locker[u] = "read"
    BY <2>1, <2>3 DEF Readers
  <2>4. locker[u] \in {"none", "read", "write"}
    BY DEF TypeInv, TypeOK
  <2> QED
    BY <2>1, <2>2, <2>3, <2>4
<1>2. Spec => [](TypeInv /\ PlaceInv /\ ExclusionInv)
  BY TypeInit, TypeNext, PlaceInit, PlaceNext, ExclusionInit, ExclusionNext, PTL DEF Spec
<1> QED
  BY <1>1, <1>2, PTL

-----------------------------------------------------------------------------
(* The scheduler implements Task: every step is one of Task's, of the task *)
(* it is about, or leaves status and pending alone.                        *)

Active(th) == InRun(th) \/ pc[th] = "returned"
Running(t) == \E th \in Threads : theTask[th] = t /\ Active(th)

LEMMA StatusOf ==
    status = [t \in Tasks |-> IF life[t] = "dead" THEN "dead"
                              ELSE IF Running(t) THEN "running"
                              ELSE IF kAlive \in fEvents[t] THEN "scheduled" ELSE "idle"]
  BY Zenon DEF status, Running, Active

LEMMA StatusAfter ==
    status' = [t \in Tasks |-> IF life'[t] = "dead" THEN "dead"
                               ELSE IF Running(t)' THEN "running"
                               ELSE IF kAlive \in fEvents'[t] THEN "scheduled" ELSE "idle"]
  BY Zenon DEF status, Running, Active

LEMMA KAliveIsNoEvent ==
    kAlive \notin Events /\ SignalEvents \subseteq Events /\ kIdleEvent \in Events
  BY EventsAssumption DEF Events

LEMMA NothingSeen ==
    ASSUME UNCHANGED <<fEvents, life>>, \A t \in Tasks : Running(t)' <=> Running(t)
    PROVE  UNCHANGED TaskSpec!taskState
<1>1. status' = status
  BY StatusOf, StatusAfter
<1> QED
  BY <1>1 DEF TaskSpec!taskState, pending

(* The task of a thread past WaitForTask is nobody else's.                 *)
LEMMA HeldByOne ==
    ASSUME TypeInv, PlaceInv, NEW th \in Threads, pc[th] \notin Waiting,
           NEW u \in Threads, theTask[u] = theTask[th]
    PROVE  u = th
  BY Held DEF PlaceInv, TaskInv, Alone

(* ... and runs while that thread is inside Run.                           *)
LEMMA RunningTask ==
    ASSUME TypeInv, PlaceInv, NEW th \in Threads, pc[th] \notin Waiting
    PROVE  Running(theTask[th]) <=> Active(th)
  BY HeldByOne DEF Running

(* A step that takes or gives back the task of one thread.                 *)
LEMMA RunningOfOthers ==
    ASSUME NEW th \in Threads, NEW t \in Tasks, theTask[th] \in {t, NoTask},
           theTask'[th] \in {t, NoTask},
           \A u \in Threads \ {th} : pc'[u] = pc[u] /\ theTask'[u] = theTask[u]
    PROVE  \A v \in Tasks \ {t} : Running(v)' <=> Running(v)
  BY NullAssumption DEF Running, Active, InRun

LEMMA RefineInit == Init => TaskSpec!TaskInit
<1> SUFFICES ASSUME Init PROVE TaskSpec!TaskInit
  OBVIOUS
<1>1. \A t \in Tasks : ~ Running(t)
  BY DEF Init, Running, Active, InRun
<1>2. status = [t \in Tasks |-> "idle"]
  BY <1>1, StatusOf DEF Init
<1>3. pending = [t \in Tasks |-> {}]
  BY DEF Init, pending
<1> QED
  BY <1>2, <1>3 DEF TaskSpec!TaskInit

(* Signal.                                                                 *)
LEMMA RefineSignalOr ==
    ASSUME TypeInv, PlaceInv, NEW s \in Signallers, NEW t \in Tasks, NEW e \in SignalEvents,
           SignalOr(s, t, e)
    PROVE  TaskSpec!Post(t, e)
<1>1. /\ life[t] = "live" /\ fEvents' = [fEvents EXCEPT ![t] = @ \cup {e, kAlive}]
      /\ UNCHANGED <<life, pc, theTask>> /\ fEvents \in [Tasks -> SUBSET Flags]
  BY DEF SignalOr, taskVars, threadVars, TypeInv, TypeOK
<1>2. \A u \in Tasks : Running(u)' <=> Running(u)
  BY <1>1 DEF Running, Active, InRun
<1>3. status[t] # "dead"
  BY <1>1, StatusOf
<1>4. pending' = [pending EXCEPT ![t] = pending[t] \cup {e}]
  BY <1>1, KAliveIsNoEvent DEF pending
<1>5. status' = [status EXCEPT ![t] = IF status[t] = "idle" THEN "scheduled" ELSE status[t]]
  <2>1. \A u \in Tasks \ {t} : status'[u] = status[u]
    BY <1>1, <1>2, StatusOf, StatusAfter
  <2>2. status'[t] = IF status[t] = "idle" THEN "scheduled" ELSE status[t]
    BY <1>1, <1>2, StatusOf, StatusAfter
  <2> QED
    BY <2>1, <2>2, StatusOf, StatusAfter
<1> QED
  BY <1>3, <1>4, <1>5 DEF TaskSpec!Post, TaskSpec!Set

(* A step that only changes the status and the events of one task.         *)
LEMMA RefineOne ==
    ASSUME TypeInv, NEW t \in Tasks, NEW st, NEW E,
           UNCHANGED life \/ (life' = [life EXCEPT ![t] = "dead"]),
           \A v \in Tasks \ {t} : fEvents'[v] = fEvents[v] /\ (Running(v)' <=> Running(v)),
           fEvents'[t] \ {kAlive} = E,
           st = IF life'[t] = "dead" THEN "dead" ELSE IF Running(t)' THEN "running"
                ELSE IF kAlive \in fEvents'[t] THEN "scheduled" ELSE "idle"
    PROVE  TaskSpec!Set(t, st, E)
<1>1. life \in [Tasks -> {"live", "dead"}] /\ fEvents \in [Tasks -> SUBSET Flags]
  BY DEF TypeInv, TypeOK
<1>2. \A v \in Tasks \ {t} : life'[v] = life[v]
  BY <1>1
<1>3. status' = [status EXCEPT ![t] = st]
  <2>1. \A v \in Tasks \ {t} : status'[v] = status[v]
    BY <1>2, StatusOf, StatusAfter
  <2>2. status'[t] = st
    BY StatusAfter
  <2> QED
    BY <2>1, <2>2, StatusOf, StatusAfter
<1>4. pending' = [pending EXCEPT ![t] = E]
  BY DEF pending
<1> QED
  BY <1>3, <1>4 DEF TaskSpec!Set

(* Steps of a thread that Task does not show: it takes up a task, prepares *)
(* its Run, or returns from it.                                            *)
LEMMA RefineUnseen ==
    ASSUME TypeInv, PlaceInv, NEW th \in Threads,
           \/ TakeFromHeap(th) \/ TakeFromQueue(th) \/ BlockOnQueue(th) \/ WaitTimedOut(th)
           \/ Prepare(th) \/ GetEventsRead(th) \/ RunReturns(th)
    PROVE  UNCHANGED TaskSpec!taskState
<1>1. pc \in [Threads -> PCs] /\ theTask \in [Threads -> Tasks \cup {NoTask}]
  BY DEF TypeInv, TypeOK
<1>2. UNCHANGED <<fEvents, life>>
  BY DEF TakeFromHeap, TakeFromQueue, BlockOnQueue, WaitTimedOut, Prepare, GetEventsRead,
     RunReturns, Return, ReturnCallLocked, taskVars
<1>3. \A u \in Threads \ {th} : pc'[u] = pc[u] /\ theTask'[u] = theTask[u]
  BY <1>1 DEF TakeFromHeap, TakeFromQueue, Dispatch, BlockOnQueue, WaitTimedOut, Prepare,
     GetEventsRead, RunReturns, Return, ReturnCallLocked
<1>4. (Active(th)' <=> Active(th)) /\ (Active(th) => theTask'[th] = theTask[th])
  <2>1. CASE TakeFromHeap(th) \/ TakeFromQueue(th)
    BY <1>1, <2>1 DEF TakeFromHeap, TakeFromQueue, Dispatch, Active, InRun
  <2>2. CASE BlockOnQueue(th) \/ WaitTimedOut(th) \/ Prepare(th) \/ GetEventsRead(th)
    BY <1>1, <2>2 DEF BlockOnQueue, WaitTimedOut, Prepare, GetEventsRead, Active, InRun
  <2>3. CASE RunReturns(th)
    BY <1>1, <2>3 DEF RunReturns, Return, ReturnCallLocked, Active, InRun
  <2> QED
    BY <2>1, <2>2, <2>3
<1>5. \A t \in Tasks : Running(t)' <=> Running(t)
  BY <1>3, <1>4 DEF Running, Active, InRun
<1> QED
  BY <1>2, <1>5, NothingSeen

LEMMA RefineThreadStep ==
    ASSUME TypeInv, PlaceInv, NEW th \in Threads, ThreadStep(th)
    PROVE  TaskSpec!TaskNext \/ UNCHANGED TaskSpec!taskState
<1> PICK t : t = theTask[th]
  OBVIOUS
<1>0. /\ pc \in [Threads -> PCs] /\ theTask \in [Threads -> Tasks \cup {NoTask}]
      /\ fEvents \in [Tasks -> SUBSET Flags] /\ got \in [Threads -> SUBSET Events]
      /\ life \in [Tasks -> {"live", "dead"}]
  BY DEF TypeInv, TypeOK
<1>1. CASE LockRead(th) \/ LockWrite(th)
  <2>1. /\ UNCHANGED <<fEvents, life, theTask>> /\ pc[th] \notin Waiting /\ ~ Active(th)
        /\ pc' = [pc EXCEPT ![th] = "running"]
    BY <1>1 DEF LockRead, LockWrite, taskVars, Waiting, Active, InRun
  <2>2. t \in Tasks /\ life[t] = "live" /\ kAlive \in fEvents[t] /\ ~ Running(t)
    BY <2>1, Held, RunningTask
  <2>3. Running(t)' /\ \A u \in Threads \ {th} : pc'[u] = pc[u] /\ theTask'[u] = theTask[u]
    BY <1>0, <2>1 DEF Running, Active, InRun
  <2>4. \A v \in Tasks \ {t} : Running(v)' <=> Running(v)
    BY <2>1, <2>2, <2>3, RunningOfOthers
  <2>5. fEvents'[t] \ {kAlive} = pending[t]
    BY <2>1, <2>2 DEF pending
  <2>6. TaskSpec!Set(t, "running", pending[t])
    BY <2>1, <2>2, <2>3, <2>4, <2>5, RefineOne
  <2>7. status[t] = "scheduled"
    BY <2>2, StatusOf
  <2> QED
    BY <2>2, <2>6, <2>7 DEF TaskSpec!Begin, TaskSpec!TaskNext
<1>2. CASE GetEventsSub(th)
  <2>1. /\ UNCHANGED <<life, theTask>> /\ pc[th] = "getEvents"
        /\ pc' = [pc EXCEPT ![th] = "handling"]
        /\ fEvents' = [fEvents EXCEPT ![t] = @ \ got[th]]
    BY <1>2 DEF GetEventsSub
  <2>2. pc[th] \notin Waiting /\ Active(th) /\ Active(th)'
    BY <1>0, <2>1 DEF Waiting, Active, InRun
  <2>3. t \in Tasks /\ life[t] = "live" /\ Running(t)
    BY <2>2, Held, RunningTask
  <2>4. Running(t)' /\ \A u \in Threads \ {th} : pc'[u] = pc[u] /\ theTask'[u] = theTask[u]
    BY <1>0, <2>1, <2>2 DEF Running
  <2>5. \A v \in Tasks \ {t} : Running(v)' <=> Running(v)
    BY <2>1, <2>3, <2>4, RunningOfOthers
  <2>6. /\ fEvents'[t] \ {kAlive} = pending[t] \ got[th]
        /\ \A v \in Tasks \ {t} : fEvents'[v] = fEvents[v]
    BY <1>0, <2>1, <2>3 DEF pending
  <2>7. TaskSpec!Set(t, "running", pending[t] \ got[th])
    BY <2>1, <2>3, <2>4, <2>5, <2>6, RefineOne
  <2>8. status[t] = "running"
    BY <2>3, StatusOf
  <2> QED
    BY <1>0, <2>3, <2>7, <2>8 DEF TaskSpec!Collect, TaskSpec!TaskNext
<1>3. CASE DeleteTask(th) \/ FinishTask(th) \/ RunAgain(th) \/ InsertInHeap(th)
  <2>1. /\ pc[th] = "returned" /\ theTask'[th] \in {t, NoTask}
        /\ pc'[th] \in {"waitForTask", "entry"}
        /\ \A u \in Threads \ {th} : pc'[u] = pc[u] /\ theTask'[u] = theTask[u]
    BY <1>0, <1>3 DEF DeleteTask, FinishTask, RunAgain, InsertInHeap, Release
  <2>2. pc[th] \notin Waiting /\ Active(th) /\ ~ Active(th)'
    BY <2>1 DEF Waiting, Active, InRun
  <2>3. t \in Tasks /\ life[t] = "live" /\ kAlive \in fEvents[t] /\ Running(t)
    BY <2>2, Held, RunningTask
  <2>4. \A v \in Tasks \ {t} : Running(v)' <=> Running(v)
    BY <2>1, <2>3, RunningOfOthers
  <2>5. ~ Running(t)'
    BY <2>1, <2>2, HeldByOne DEF Running, Active, InRun
  <2>6. status[t] = "running"
    BY <2>3, StatusOf
  <2>7. CASE DeleteTask(th)
    <3>1. life' = [life EXCEPT ![t] = "dead"] /\ UNCHANGED fEvents
      BY <2>7 DEF DeleteTask
    <3>2. fEvents'[t] \ {kAlive} = pending[t]
      BY <2>3, <3>1 DEF pending
    <3>3. TaskSpec!Set(t, "dead", pending[t])
      BY <1>0, <2>3, <2>4, <3>1, <3>2, RefineOne
    <3> QED
      BY <2>3, <2>6, <3>3 DEF TaskSpec!Delete, TaskSpec!TaskNext
  <2>8. CASE FinishTask(th)
    <3>1. /\ UNCHANGED life /\ fEvents[t] = {kAlive} /\ fEvents'[t] = {}
          /\ \A v \in Tasks \ {t} : fEvents'[v] = fEvents[v]
      BY <1>0, <2>3, <2>8 DEF FinishTask, StoreSucceeds
    <3>2. pending[t] = {}
      BY <2>3, <3>1 DEF pending
    <3>3. TaskSpec!Set(t, "idle", {})
      BY <2>3, <2>4, <2>5, <3>1, RefineOne
    <3> QED
      BY <2>3, <2>6, <3>2, <3>3 DEF TaskSpec!Rest, TaskSpec!TaskNext
  <2>9. CASE RunAgain(th)
    <3>1. UNCHANGED <<life, fEvents>> /\ fEvents[t] # {kAlive}
      BY <2>9 DEF RunAgain, StoreSucceeds, taskVars
    <3>2. fEvents'[t] \ {kAlive} = pending[t] /\ pending[t] # {} /\ pending[t] \cup {} = pending[t]
      BY <1>0, <2>3, <3>1 DEF pending
    <3>3. TaskSpec!Set(t, "scheduled", pending[t] \cup {})
      BY <2>3, <2>4, <2>5, <3>1, <3>2, RefineOne
    <3>4. TaskSpec!Again(t, {})
      BY <2>6, <3>2, <3>3 DEF TaskSpec!Again
    <3> QED
      BY <2>3, <3>4 DEF TaskSpec!TaskNext
  <2>10. CASE InsertInHeap(th)
    <3>1. /\ UNCHANGED life /\ fEvents'[t] = fEvents[t] \cup {kIdleEvent}
          /\ \A v \in Tasks \ {t} : fEvents'[v] = fEvents[v]
      BY <1>0, <2>3, <2>10 DEF InsertInHeap
    <3>2. fEvents'[t] \ {kAlive} = pending[t] \cup {kIdleEvent}
      BY <2>3, <3>1, KAliveIsNoEvent DEF pending
    <3>3. TaskSpec!Set(t, "scheduled", pending[t] \cup {kIdleEvent})
      BY <2>3, <2>4, <2>5, <3>1, <3>2, RefineOne
    <3> QED
      BY <2>3, <2>6, <3>3, KAliveIsNoEvent DEF TaskSpec!Again, TaskSpec!TaskNext
  <2> QED
    BY <1>3, <2>7, <2>8, <2>9, <2>10
<1> QED
  BY <1>1, <1>2, <1>3, RefineUnseen DEF ThreadStep

(* ~TaskThread deletes what is in its queue and its heap, all of it        *)
(* scheduled.                                                              *)
LEMMA RefineDeleteThread ==
    ASSUME TypeInv, PlaceInv, NEW th \in Threads, DeleteThread(th)
    PROVE  TaskSpec!DeleteScheduled(TasksHeld(th)) /\ TasksHeld(th) \subseteq Tasks
<1>1. /\ UNCHANGED <<fEvents, pc, theTask>>
      /\ life' = [t \in Tasks |-> IF t \in TasksHeld(th) THEN "dead" ELSE life[t]]
  BY DEF DeleteThread, threadVars
<1>2. TasksHeld(th) \subseteq Tasks
  BY DEF TasksHeld, TypeInv, TypeOK
<1>3. ASSUME NEW t \in TasksHeld(th) PROVE status[t] = "scheduled"
  <2>1. t \in Tasks /\ (t \in Queued[th] \/ t \in fHeap[th]) /\ TaskInv(t)
    BY <1>2, <1>3 DEF TasksHeld, Queued, PlaceInv
  <2>2. life[t] = "live" /\ kAlive \in fEvents[t]
    BY <2>1 DEF TaskInv, Marked, Scheduled, TypeInv, TypeOK
  <2>3. ~ Running(t)
    BY <2>1 DEF TaskInv, Alone, Running
  <2> QED
    BY <2>1, <2>2, <2>3, StatusOf
<1>4. \A t \in Tasks : Running(t)' <=> Running(t)
  BY <1>1 DEF Running, Active, InRun
<1>5. status' = [t \in Tasks |-> IF t \in TasksHeld(th) THEN "dead" ELSE status[t]]
  BY <1>1, <1>4, StatusOf, StatusAfter
<1>6. pending' = pending
  BY <1>1 DEF pending
<1> QED
  BY <1>2, <1>3, <1>5, <1>6 DEF TaskSpec!DeleteScheduled

LEMMA RefineNext ==
    TypeInv /\ PlaceInv /\ [Next]_vars => [TaskSpec!TaskNext]_(TaskSpec!taskState)
<1> SUFFICES ASSUME TypeInv, PlaceInv, [Next]_vars
             PROVE  TaskSpec!TaskNext \/ UNCHANGED TaskSpec!taskState
  OBVIOUS
<1>1. ASSUME UNCHANGED <<fEvents, life, pc, theTask>> PROVE UNCHANGED TaskSpec!taskState
  BY <1>1, NothingSeen DEF Running, Active, InRun
<1>2. CASE UNCHANGED vars \/ Tick \/ \E s \in Signallers : SignalEnQueue(s)
  BY <1>1, <1>2 DEF vars, Tick, SignalEnQueue, taskVars, threadVars
<1>3. ASSUME NEW th \in Threads, ForceSameThread(th) \/ SendStopRequest(th)
      PROVE  UNCHANGED TaskSpec!taskState
  BY <1>1, <1>3 DEF ForceSameThread, SendStopRequest, taskVars, threadVars
<1>4. ASSUME NEW s \in Signallers, NEW t \in Tasks, NEW e \in SignalEvents, SignalOr(s, t, e)
      PROVE  TaskSpec!TaskNext
  BY <1>4, RefineSignalOr DEF TaskSpec!TaskNext
<1>5. ASSUME NEW th \in Threads, DeleteThread(th) PROVE TaskSpec!TaskNext
  BY <1>5, RefineDeleteThread DEF TaskSpec!TaskNext
<1> QED
  BY <1>2, <1>3, <1>4, <1>5, RefineThreadStep DEF Next

(* A user of the scheduler sees a Task: no event is lost, Run is not       *)
(* re-entered, a deleted task is never run.                                *)
THEOREM SchedulerImplementsTask == Spec => ImplementsTask
  BY RefineInit, RefineNext, Inductive, PTL DEF ImplementsTask, TaskSpec!Spec, Spec
=============================================================================
