----------------------------- MODULE OSMutexRW -----------------------------
(***************************************************************************)
(* OSMutexRW.cpp over OSCond.h: a lock of several readers or one writer,   *)
(* on a mutex and two condition variables.                                 *)
(*                                                                         *)
(* A section of code under fInternalLock is one step.  OSCond has two      *)
(* builds: on Win32 Wait leaves the mutex, counts itself and sleeps on an  *)
(* auto-reset event in separate steps; with pthreads Wait is atomic.       *)
(* fActiveReaders only ever copies fState and is left out.                 *)
(***************************************************************************)
EXTENDS Integers, FiniteSets

CONSTANTS
    Threads,    \* threads that use the lock
    Writers,    \* those among them that ever call LockWrite
    Win32,      \* TRUE: the Win32 build of OSCond
    MaxDrift    \* bound: beyond it, changes of fWaitCount do not race

ASSUME ThreadsAssumption == IsFiniteSet(Threads) /\ Writers \subseteq Threads
ASSUME BuildAssumption == Win32 \in BOOLEAN /\ MaxDrift \in Nat

VARIABLES
    \* -1: a writer, 0: free, n > 0: n readers; threads inside LockWrite
    fState, fWriteWaiters,
    \* of a thread: its step, the condition it waits on, and fWaitCount as
    \* it last read it
    pc, cond, loaded,
    \* of a condition, on Win32: the event; fWaitCount, below 0 if wrapped
    event, fWaitCount

lockVars == <<fState, fWriteWaiters>>
condVars == <<event, fWaitCount>>
vars == <<lockVars, pc, cond, loaded, condVars>>

Conds == {"readers", "writers"}

Init ==
    /\ fState = 0 /\ fWriteWaiters = 0
    /\ pc = [t \in Threads |-> "out"]
    /\ cond = [t \in Threads |-> "readers"]
    /\ loaded = [t \in Threads |-> 0]
    /\ event = [c \in Conds |-> FALSE]
    /\ fWaitCount = [c \in Conds |-> 0]

Goto(t, step) == pc' = [pc EXCEPT ![t] = step]

-----------------------------------------------------------------------------
(* OSCond                                                                  *)

StartWait(t) == Goto(t, IF Win32 THEN "load" ELSE "asleep")

(* fWaitCount++ and fWaitCount-- are not under the mutex.                  *)
LoadCount(t) ==
    /\ pc[t] \in {"load", "loadDown"}
    /\ \/ fWaitCount[cond[t]] \in - MaxDrift .. MaxDrift
       \/ \A u \in Threads : pc[u] \in {"store", "storeDown"} => cond[u] # cond[t]
    /\ loaded' = [loaded EXCEPT ![t] = fWaitCount[cond[t]]]
    /\ Goto(t, IF pc[t] = "load" THEN "store" ELSE "storeDown")
    /\ UNCHANGED <<lockVars, cond, condVars>>

StoreCount(t) ==
    /\ pc[t] \in {"store", "storeDown"}
    /\ fWaitCount' = [fWaitCount EXCEPT
                         ![cond[t]] = IF pc[t] = "store" THEN loaded[t] + 1 ELSE loaded[t] - 1]
    /\ loaded' = [loaded EXCEPT ![t] = 0]
    /\ Goto(t, IF pc[t] = "store" THEN "asleep" ELSE "relock")
    /\ UNCHANGED <<lockVars, cond, event>>

EndSleep(t) == Goto(t, IF Win32 THEN "loadDown" ELSE "relock")

(* WaitForSingleObject takes the event.                                    *)
Wake(t) ==
    /\ Win32
    /\ pc[t] = "asleep"
    /\ event[cond[t]]
    /\ event' = [event EXCEPT ![cond[t]] = FALSE]
    /\ EndSleep(t)
    /\ UNCHANGED <<lockVars, cond, loaded, fWaitCount>>

(* eMaxWait, some 74 hours, has passed, or pthreads wake up spuriously.    *)
TimedOut(t) ==
    /\ pc[t] = "asleep"
    /\ EndSleep(t)
    /\ UNCHANGED <<lockVars, cond, loaded, condVars>>

Sleepers(c) == {t \in Threads : pc[t] = "asleep" /\ cond[t] = c}

(* With pthreads the waker moves the sleepers on; the caller is at "out".  *)
WakeAll(t, woken) ==
    pc' = [u \in Threads |-> IF u = t THEN "out"
                             ELSE IF u \in woken THEN "relock" ELSE pc[u]]

Signal(t, c) ==
    IF Win32
    THEN /\ event' = [event EXCEPT ![c] = TRUE]
         /\ WakeAll(t, {})
         /\ UNCHANGED fWaitCount
    ELSE /\ IF Sleepers(c) = {} THEN WakeAll(t, {})
            ELSE \E u \in Sleepers(c) : WakeAll(t, {u})
         /\ UNCHANGED condVars

(* SetEvent as often as fWaitCount says: the event is set once.            *)
Broadcast(t, c) ==
    IF Win32
    THEN /\ event' = [event EXCEPT ![c] = @ \/ fWaitCount[c] # 0]
         /\ WakeAll(t, {})
         /\ UNCHANGED fWaitCount
    ELSE WakeAll(t, Sleepers(c)) /\ UNCHANGED condVars

-----------------------------------------------------------------------------
(* OSMutexRW                                                               *)

MayRead_PastWriters == fState >= 0   \* slip: readers do not wait for waiting writers
MayRead == fState >= 0 /\ fWriteWaiters = 0

MayWrite_Always == TRUE   \* slip: the writer does not wait
MayWrite == fState <= 0

LockRead(t) ==
    /\ pc[t] = "out"
    /\ cond' = [cond EXCEPT ![t] = "readers"]
    /\ IF MayRead THEN fState' = fState + 1 /\ Goto(t, "reading")
       ELSE StartWait(t) /\ UNCHANGED fState
    /\ UNCHANGED <<fWriteWaiters, loaded, condVars>>

LockWrite(t) ==
    /\ pc[t] = "out" /\ t \in Writers
    /\ cond' = [cond EXCEPT ![t] = "writers"]
    /\ IF MayWrite
       THEN fState' = -1 /\ Goto(t, "writing") /\ UNCHANGED fWriteWaiters
       ELSE fWriteWaiters' = fWriteWaiters + 1 /\ StartWait(t) /\ UNCHANGED fState
    /\ UNCHANGED <<loaded, condVars>>

(* The calls nested in these take the recursive mutex a second time.       *)
TryLockRead(t) == MayRead /\ LockRead(t)
TryLockWrite(t) == fState = 0 /\ fWriteWaiters = 0 /\ LockWrite(t)

(* Wait returns with the mutex taken again, and the test is repeated.      *)
ReadAgain(t) ==
    /\ pc[t] = "relock" /\ cond[t] = "readers"
    /\ IF MayRead THEN fState' = fState + 1 /\ Goto(t, "reading")
       ELSE StartWait(t) /\ UNCHANGED fState
    /\ UNCHANGED <<fWriteWaiters, cond, loaded, condVars>>

RemoveWriteWaiter == fWriteWaiters' = fWriteWaiters - 1

WriteAgain(t) ==
    /\ pc[t] = "relock" /\ cond[t] = "writers"
    /\ IF MayWrite
       THEN fState' = -1 /\ RemoveWriteWaiter /\ Goto(t, "writing")
       ELSE StartWait(t) /\ UNCHANGED lockVars
    /\ UNCHANGED <<cond, loaded, condVars>>

WriterWakesReaders == fWriteWaiters = 0

LastReader_Missed(left) == left < 0   \* slip: the last reader does not signal
LastReader(left) == left <= 0

Unlock(t) ==
    /\ pc[t] \in {"reading", "writing"}
    /\ \/ /\ fState < 0
          /\ fState' = 0
          /\ IF WriterWakesReaders THEN Broadcast(t, "readers") ELSE Signal(t, "writers")
       \/ /\ fState >= 0
          /\ LastReader(fState - 1)
          /\ fState' = 0
          /\ Signal(t, "writers")
       \/ /\ fState >= 0
          /\ ~ LastReader(fState - 1)
          /\ fState' = fState - 1
          /\ WakeAll(t, {})
          /\ UNCHANGED condVars
    /\ UNCHANGED <<fWriteWaiters, cond, loaded>>

Waiting(t) == LoadCount(t) \/ StoreCount(t) \/ Wake(t) \/ ReadAgain(t) \/ WriteAgain(t)

Next ==
    \E t \in Threads :
        \/ LockRead(t) \/ LockWrite(t) \/ TryLockRead(t) \/ TryLockWrite(t)
        \/ Unlock(t) \/ Waiting(t) \/ TimedOut(t)

Spec == Init /\ [][Next]_vars

(* Whoever has the lock gives it back, and whoever is awake goes on.       *)
Fairness == \A t \in Threads : WF_vars(Unlock(t)) /\ WF_vars(Waiting(t))
FairSpec == Spec /\ Fairness

-----------------------------------------------------------------------------
(* Properties                                                              *)

Reading == {t \in Threads : pc[t] = "reading"}
Writing == {t \in Threads : pc[t] = "writing"}
WaitsIn(c) == {t \in Threads : cond[t] = c /\ pc[t] \notin {"out", "reading", "writing"}}

(* Types; fWriteWaiters counts the threads that wait in LockWrite.         *)
TypeOK ==
    /\ fState \in Int /\ fWriteWaiters \in Nat
    /\ pc \in [Threads -> {"out", "reading", "writing", "load", "store", "asleep",
                           "loadDown", "storeDown", "relock"}]
    /\ cond \in [Threads -> Conds] /\ loaded \in [Threads -> Int]
    /\ event \in [Conds -> BOOLEAN] /\ fWaitCount \in [Conds -> Int]
    /\ fWriteWaiters = Cardinality(WaitsIn("writers"))

(* "-1:writer,0:free,>0:readers" (OSMutexRW.h): fState tells who is in,    *)
(* and a writer is in alone.                                               *)
Exclusive ==
    /\ Writing # {} => Reading = {} /\ Cardinality(Writing) = 1
    /\ fState = IF Writing # {} THEN -1 ELSE Cardinality(Reading)

(* No reader sleeps without a wake-up while the lock has no writer, in it  *)
(* or waiting: Wait and Broadcast do not miss each other.                  *)
NoForgottenReader ==
    (Sleepers("readers") # {} /\ ~ event["readers"] /\ fWriteWaiters = 0 /\ fState >= 0)
        => \E t \in WaitsIn("readers") : pc[t] # "asleep"

(* No writer sleeps while the lock is free, unless one has been woken.     *)
NoForgottenWriter ==
    (Sleepers("writers") # {} /\ fState = 0)
        => event["writers"] \/ \E t \in WaitsIn("writers") : pc[t] # "asleep"

(* A reader waits for waiting writers (LockRead): a writer gets the lock.  *)
WritersGetIn ==
    \A t \in Threads : (t \in WaitsIn("writers")) ~> (pc[t] = "writing")
=============================================================================
