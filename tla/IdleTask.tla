------------------------------ MODULE IdleTask ------------------------------
(***************************************************************************)
(* IdleTask.cpp: one thread sleeps until the earliest of a heap of timers  *)
(* runs out and signals kIdleEvent to its task.  SetIdleTimer and the      *)
(* destructor of IdleTask change the heap from other threads.              *)
(*                                                                         *)
(* OSCond is a Win32 auto-reset event here: a Signal that finds no waiter  *)
(* is remembered, several are one.  Times are relative to now.             *)
(*                                                                         *)
(* The heap of the timers is the one of OSHeap: its elements, Elems, stand *)
(* for the IdleTasks they are part of (fIdleElem), NoElem for none, and    *)
(* least is the task whose timer the idle thread has extracted.            *)
(***************************************************************************)
EXTENDS OSHeap

CONSTANTS
    MaxTimeout,     \* bound: largest timeout asked for
    MaxLate,        \* bound: how late the thread may be, in milliseconds
    Deletes,        \* TRUE: tasks are deleted
    Shutdown,       \* TRUE: the idle thread may be asked to stop
    IdleThread      \* the idle thread, as a holder of fHeapMutex

ASSUME TimesAssumption == MaxTimeout \in Nat \ {0} /\ MaxLate \in Nat
ASSUME ThreadAssumption == IdleThread \notin Elems \cup {NoElem}
ASSUME SwitchesAssumption == {Deletes, Shutdown} \subseteq BOOLEAN

VARIABLES
    \* holder of fHeapMutex; fHeapCond is signalled; fStopRequested
    holder, fHeapCond, fStopRequested,
    \* the idle thread: step, msec, time left of its Wait
    pc, msec, waitLeft,
    \* per task: step of a call on it; the object exists; kIdleEvent sent
    call, alive, idled

syncVars == <<holder, fHeapCond, fStopRequested>>
threadVars == <<pc, msec, waitLeft>>
taskVars == <<call, alive, idled>>
idleVars == <<vars, syncVars, threadVars, taskVars>>

Times == -(MaxLate + MaxTimeout) .. MaxTimeout
ASSUME HeapAssumption == Times \subseteq Values

IdleInit ==
    /\ Init /\ fValue = [t \in Elems |-> 0]
    /\ holder = IdleThread /\ fHeapCond = FALSE /\ fStopRequested = FALSE
    /\ pc = "top" /\ msec = 0 /\ waitLeft = 0
    /\ call = [t \in Elems |-> "none"]
    /\ alive = [t \in Elems |-> TRUE]
    /\ idled = [t \in Elems |-> FALSE]

-----------------------------------------------------------------------------
(* IdleTaskThread::Entry                                                   *)

(* The top of the loop: leave, or block while there is no timer, or look   *)
(* at the clock and at the heap.                                           *)
Stops_Never == FALSE   \* slip: the stop request is not looked at
Stops == fStopRequested

LoopTop ==
    /\ pc = "top"
    /\ pc' = IF Stops THEN "exited"
             ELSE IF fHeap = <<>> THEN "waitEmpty" ELSE "drain"
    /\ holder' = IF Stops \/ fHeap = <<>> THEN NoElem ELSE holder
    /\ msec' = 0
    /\ UNCHANGED <<vars, fHeapCond, fStopRequested, waitLeft, taskVars>>

(* Wait without a timeout.                                                 *)
WakeEmpty ==
    /\ pc = "waitEmpty"
    /\ fHeapCond
    /\ fHeapCond' = FALSE
    /\ pc' = "relock"
    /\ UNCHANGED <<vars, holder, fStopRequested, msec, waitLeft, taskVars>>

Relock ==
    /\ pc \in {"relock", "relockTop"}
    /\ holder = NoElem
    /\ holder' = IdleThread
    /\ pc' = IF pc = "relock" THEN "drain" ELSE "top"
    /\ msec' = 0
    /\ UNCHANGED <<vars, fHeapCond, fStopRequested, waitLeft, taskVars>>

HasDue == fHeap # <<>> /\ ValueAt(1) <= msec

(* Pop a timer that has run out ...                                        *)
Drain ==
    /\ pc = "drain"
    /\ HasDue
    /\ ExtractMin
    /\ pc' = "extracting"
    /\ UNCHANGED <<syncVars, msec, waitLeft, taskVars>>

(* ... and signal its task, with the mutex still held.                     *)
SignalIdle ==
    /\ pc = "extracting"
    /\ EndExtract
    /\ idled' = [idled EXCEPT ![least] = TRUE]
    /\ pc' = "drain"
    /\ UNCHANGED <<syncVars, msec, waitLeft, call, alive>>

(* Sleep until the time of the element at the root.                        *)
SleepTime_Whole == ValueAt(Len(fHeap)) - msec   \* slip: the last leaf's time
SleepTime == ValueAt(1) - msec

Sleep ==
    /\ pc = "drain"
    /\ ~ HasDue
    /\ IF fHeap = <<>>
       THEN pc' = "top" /\ UNCHANGED <<waitLeft, holder>>
       ELSE pc' = "asleep" /\ waitLeft' = SleepTime /\ holder' = NoElem
    /\ UNCHANGED <<vars, fHeapCond, fStopRequested, msec, taskVars>>

Wake ==
    /\ pc = "asleep"
    /\ fHeapCond \/ waitLeft <= 0
    /\ fHeapCond' = FALSE
    /\ pc' = "relockTop"
    /\ waitLeft' = 0
    /\ UNCHANGED <<vars, holder, fStopRequested, msec, taskVars>>

ThreadStep == LoopTop \/ WakeEmpty \/ Relock \/ Drain \/ SignalIdle \/ Sleep \/ Wake

-----------------------------------------------------------------------------
(* SetIdleTimer, called by the Run of the task itself                      *)

(* The test for membership and SetValue come before the lock.              *)
SetIdleTimer(t, n) ==
    /\ call[t] = "none" /\ alive[t]
    /\ ~ inHeap[t]
    /\ fValue' = [fValue EXCEPT ![t] = n]
    /\ idled' = [idled EXCEPT ![t] = FALSE]
    /\ call' = [call EXCEPT ![t] = "lock"]
    /\ UNCHANGED <<fHeap, inHeap, loop, pos, inElem, least, misplaced, syncVars,
                   threadVars, alive>>

InsertTimer(t) ==
    /\ call[t] = "lock"
    /\ holder = NoElem
    /\ holder' = t
    /\ Insert(t, fValue[t])
    /\ call' = [call EXCEPT ![t] = "insert"]
    /\ UNCHANGED <<fHeapCond, fStopRequested, threadVars, alive, idled>>

TimerInserted(t) ==
    /\ call[t] = "insert"
    /\ EndInsert
    /\ holder' = NoElem
    /\ call' = [call EXCEPT ![t] = "signal"]
    /\ UNCHANGED <<fHeapCond, fStopRequested, threadVars, alive, idled>>

Signalled_Not == fHeapCond   \* slip: fHeapCond.Signal() forgotten
Signalled == TRUE

SignalHeapCond(t) ==
    /\ call[t] = "signal"
    /\ fHeapCond' = Signalled
    /\ call' = [call EXCEPT ![t] = "none"]
    /\ UNCHANGED <<vars, holder, fStopRequested, threadVars, alive, idled>>

-----------------------------------------------------------------------------
(* ~IdleTask, and its successor                                            *)

MayLock_Always == TRUE   \* slip: CancelTimeout without the mutex
MayLock == holder = NoElem

Delete(t) ==
    /\ Deletes
    /\ call[t] = "none" /\ alive[t]
    /\ MayLock
    /\ IF inHeap[t]
       THEN /\ Remove(t)
            /\ holder' = t
            /\ call' = [call EXCEPT ![t] = "remove"]
            /\ UNCHANGED alive
       ELSE /\ alive' = [alive EXCEPT ![t] = FALSE]
            /\ UNCHANGED <<vars, holder, call>>
    /\ UNCHANGED <<fHeapCond, fStopRequested, threadVars, idled>>

Deleted(t) ==
    /\ call[t] = "remove"
    /\ EndExtract
    /\ holder' = NoElem
    /\ call' = [call EXCEPT ![t] = "none"]
    /\ alive' = [alive EXCEPT ![t] = FALSE]
    /\ UNCHANGED <<fHeapCond, fStopRequested, threadVars, idled>>

Create(t) ==
    /\ ~ alive[t]
    /\ alive' = [alive EXCEPT ![t] = TRUE]
    /\ idled' = [idled EXCEPT ![t] = FALSE]
    /\ UNCHANGED <<vars, syncVars, threadVars, call>>

-----------------------------------------------------------------------------
(* Whoever holds the mutex goes on with the loop of its heap operation.    *)
HeapLoop ==
    /\ Rise \/ Sink
    /\ UNCHANGED <<syncVars, threadVars, taskVars>>

(* WZD_SignalIdleThreadExit: SendStopRequest, then three Signals at once.  *)
SignalIdleThreadExit ==
    /\ Shutdown
    /\ ~ fStopRequested
    /\ fStopRequested' = TRUE
    /\ fHeapCond' = Signalled
    /\ UNCHANGED <<vars, holder, threadVars, taskVars>>

Counting == {t \in Elems : inHeap[t] \/ call[t] \in {"lock", "insert"} \/ t = least}

(* A millisecond passes.                                                   *)
Tick ==
    /\ Counting # {} \/ (pc = "asleep" /\ waitLeft > 0)
    /\ \A t \in Counting : fValue[t] > -MaxLate
    /\ pc \in {"drain", "extracting"} => msec > -MaxLate
    /\ fValue' = [t \in Elems |-> IF t \in Counting THEN fValue[t] - 1 ELSE fValue[t]]
    /\ msec' = IF pc \in {"drain", "extracting", "asleep"} /\ msec > -(MaxLate + MaxTimeout)
               THEN msec - 1 ELSE msec
    /\ waitLeft' = IF waitLeft > 0 THEN waitLeft - 1 ELSE 0
    /\ UNCHANGED <<fHeap, inHeap, loop, pos, inElem, least, misplaced, syncVars, pc,
                   taskVars>>

CallStep(t) == InsertTimer(t) \/ TimerInserted(t) \/ SignalHeapCond(t) \/ Deleted(t)

IdleNext ==
    \/ ThreadStep \/ HeapLoop \/ Tick \/ SignalIdleThreadExit
    \/ \E t \in Elems :
          \/ \E n \in 1 .. MaxTimeout : SetIdleTimer(t, n)
          \/ CallStep(t) \/ Delete(t) \/ Create(t)

IdleSpec == IdleInit /\ [][IdleNext]_idleVars

(* Every thread that is inside one of these functions goes on with it.     *)
Fairness ==
    /\ WF_idleVars(ThreadStep) /\ SF_idleVars(Relock) /\ WF_idleVars(HeapLoop) /\ WF_idleVars(Tick)
    /\ \A t \in Elems : WF_idleVars(CallStep(t)) /\ SF_idleVars(InsertTimer(t))

FairSpec == IdleSpec /\ Fairness

-----------------------------------------------------------------------------
(* Properties                                                              *)

(* Types, and the mutex: the loops of the heap run for its holder only.    *)
IdleTypeOK ==
    /\ TypeOK /\ fValue \in [Elems -> Times]
    /\ holder \in Elems \cup {NoElem, IdleThread}
    /\ {fHeapCond, fStopRequested} \subseteq BOOLEAN
    /\ pc \in {"top", "waitEmpty", "relock", "relockTop", "drain", "extracting",
               "asleep", "exited"}
    /\ msec \in Times /\ waitLeft \in 0 .. MaxTimeout + MaxLate
    /\ call \in [Elems -> {"none", "lock", "insert", "signal", "remove"}]
    /\ alive \in [Elems -> BOOLEAN] /\ idled \in [Elems -> BOOLEAN]
    /\ loop # "none" => holder # NoElem

(* "after the time has elapsed the task object will receive an OS_IDLE     *)
(* event" (IdleTask.cpp): while the thread is asleep with no wake-up on    *)
(* its way, no timer in the heap runs out before the thread wakes, and it  *)
(* never sleeps without end while there is a timer.  The first half is     *)
(* lost once Remove has put a timer below a later one, for which the heap  *)
(* must hold six (OSHeap): the root may then not be the earliest.          *)
SleepCovers ==
    (~ fHeapCond /\ loop = "none" /\ \A t \in Elems : call[t] # "signal")
      => /\ pc = "asleep" /\ ~ misplaced =>
              \A t \in Elems : inHeap[t] => waitLeft <= fValue[t] - msec
         /\ pc = "waitEmpty" => \A t \in Elems : ~ inHeap[t]

(* A deleted task has no timer left, and is not the one being signalled.   *)
DeletedHasNoTimer ==
    \A t \in Elems : ~ alive[t] =>
        /\ ~ inHeap[t] /\ t # least
        /\ \A i \in DOMAIN fHeap : fHeap[i] # t

(* Every timer that is set ends in a kIdleEvent, unless the task is        *)
(* deleted or the thread is told to stop.                                  *)
TimerFires ==
    \A t \in Elems : (inHeap[t] /\ alive[t]) ~> (idled[t] \/ ~ alive[t] \/ fStopRequested)

(* UnInitialize joins the thread, which must therefore leave its loop.     *)
ThreadExits == fStopRequested ~> (pc = "exited")
=============================================================================
