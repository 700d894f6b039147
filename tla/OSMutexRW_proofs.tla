-------------------------- MODULE OSMutexRW_proofs --------------------------
(***************************************************************************)
(* Proofs about OSMutexRW: with at most one writer the lock excludes, and  *)
(* no writer is forgotten, on both builds of OSCond; with pthreads no      *)
(* reader is forgotten.                                                    *)
(***************************************************************************)
EXTENDS OSMutexRW, FiniteSetTheorems, TLAPS

W == WaitsIn("writers")

(* The part of the types that does not count.                              *)
Types ==
    /\ fState \in Int /\ fWriteWaiters \in Int
    /\ pc \in [Threads -> {"out", "reading", "writing", "load", "store", "asleep",
                           "loadDown", "storeDown", "relock"}]
    /\ cond \in [Threads -> Conds] /\ loaded \in [Threads -> Int]
    /\ event \in [Conds -> BOOLEAN] /\ fWaitCount \in [Conds -> Int]

Counted == fWriteWaiters = Cardinality(W)

TypeInv == Types /\ Counted

LEMMA FiniteSets == ASSUME NEW S \in SUBSET Threads
                    PROVE  IsFiniteSet(S) /\ Cardinality(S) \in Nat
BY ThreadsAssumption, FS_Subset, FS_CardinalityType

LEMMA Subsets == Reading \in SUBSET Threads /\ Writing \in SUBSET Threads /\ W \in SUBSET Threads
BY DEF Reading, Writing, W, WaitsIn

-----------------------------------------------------------------------------
(* What each action does to the sets of threads                            *)

SameSets == Reading' = Reading /\ Writing' = Writing /\ W' = W

(* Waiting, waking and signalling move threads between steps of a wait.    *)
LEMMA WaitMoves ==
    ASSUME Types, NEW t \in Threads, NEW to \in {"load", "store", "asleep", "loadDown", "storeDown", "relock"},
           pc[t] \notin {"out", "reading", "writing"}, pc' = [pc EXCEPT ![t] = to], cond' = cond
    PROVE  SameSets /\ pc' \in [Threads -> {"out", "reading", "writing", "load", "store", "asleep",
                                            "loadDown", "storeDown", "relock"}]
BY DEF Types, SameSets, Reading, Writing, W, WaitsIn

LEMMA Wakes ==
    ASSUME Types, NEW t \in Threads, pc[t] \in {"reading", "writing"}, cond' = cond,
           NEW woken \in SUBSET {u \in Threads : pc[u] = "asleep"}, WakeAll(t, woken)
    PROVE  /\ Reading' = Reading \ {t} /\ Writing' = Writing \ {t} /\ W' = W
           /\ pc' \in [Threads -> {"out", "reading", "writing", "load", "store", "asleep",
                                   "loadDown", "storeDown", "relock"}]
BY DEF Types, WakeAll, Reading, Writing, W, WaitsIn

LEMMA Enters ==
    ASSUME Types, NEW t \in Threads, NEW c \in Conds,
           cond' = [cond EXCEPT ![t] = c], pc[t] = "out" \/ cond[t] = c,
           pc[t] \notin {"reading", "writing"},
           NEW to \in {"reading", "writing", "load", "asleep"}, Goto(t, to)
    PROVE  /\ Reading' = IF to = "reading" THEN Reading \cup {t} ELSE Reading
           /\ Writing' = IF to = "writing" THEN Writing \cup {t} ELSE Writing
           /\ W' = IF c = "readers" THEN W
                   ELSE IF to \in {"reading", "writing"} THEN W \ {t} ELSE W \cup {t}
           /\ t \notin Reading /\ t \notin Writing
           /\ t \in W <=> pc[t] # "out" /\ c = "writers"
           /\ cond' \in [Threads -> Conds]
           /\ pc' \in [Threads -> {"out", "reading", "writing", "load", "store", "asleep",
                                   "loadDown", "storeDown", "relock"}]
<1>1. /\ \A u \in Threads : u # t => pc'[u] = pc[u] /\ cond'[u] = cond[u]
      /\ pc'[t] = to /\ cond'[t] = c
      /\ cond' \in [Threads -> Conds]
      /\ pc' \in [Threads -> {"out", "reading", "writing", "load", "store", "asleep",
                              "loadDown", "storeDown", "relock"}]
  BY DEF Types, Goto
<1>2. Reading' = IF to = "reading" THEN Reading \cup {t} ELSE Reading
  BY <1>1 DEF Reading
<1>3. Writing' = IF to = "writing" THEN Writing \cup {t} ELSE Writing
  BY <1>1 DEF Writing
<1>4. t \notin Reading /\ t \notin Writing
  BY DEF Reading, Writing
<1>5. t \in W <=> pc[t] # "out" /\ c = "writers"
  BY DEF W, WaitsIn, Conds
<1>6. W' = IF c = "readers" THEN W
           ELSE IF to \in {"reading", "writing"} THEN W \ {t} ELSE W \cup {t}
  <2>1. CASE c = "readers"
    BY <2>1, <1>1 DEF W, WaitsIn
  <2>2. CASE c = "writers"
    BY <2>2, <1>1 DEF W, WaitsIn
  <2>3. QED
    BY <2>1, <2>2 DEF Conds
<1>7. QED
  BY <1>1, <1>2, <1>3, <1>4, <1>5, <1>6
-----------------------------------------------------------------------------
(* The steps of the lock, as the proofs see them                           *)

StepsOfAWait == SameSets /\ UNCHANGED lockVars

EntersToRead(t) ==
    /\ MayRead /\ fState' = fState + 1 /\ UNCHANGED fWriteWaiters
    /\ t \notin Reading /\ Reading' = Reading \cup {t} /\ Writing' = Writing /\ W' = W

EntersToWrite(t) ==
    /\ MayWrite /\ fState' = -1 /\ t \notin Writing
    /\ Reading' = Reading /\ Writing' = Writing \cup {t} /\ W' = W \ {t}
    /\ fWriteWaiters' = IF t \in W THEN fWriteWaiters - 1 ELSE fWriteWaiters
    /\ t \in W \/ t \in Writers

QueuesToWrite(t) ==
    /\ fWriteWaiters' = fWriteWaiters + 1 /\ UNCHANGED fState /\ t \in Writers
    /\ t \notin W /\ W' = W \cup {t} /\ Reading' = Reading /\ Writing' = Writing

Leaves(t) ==
    /\ t \in Reading \cup Writing
    /\ Reading' = Reading \ {t} /\ Writing' = Writing \ {t} /\ W' = W
    /\ UNCHANGED fWriteWaiters
    /\ fState' = IF fState < 0 \/ fState - 1 <= 0 THEN 0 ELSE fState - 1

Effect(t) == StepsOfAWait \/ EntersToRead(t) \/ EntersToWrite(t) \/ QueuesToWrite(t) \/ Leaves(t)

LEMMA StartWaitGoes ==
    ASSUME NEW t \in Threads, StartWait(t)
    PROVE  \E to \in {"load", "asleep"} : Goto(t, to)
BY DEF StartWait

LEMMA LockReadEffect ==
    ASSUME Types, NEW t \in Threads, LockRead(t) PROVE Types' /\ Effect(t)
<1>1. /\ pc[t] = "out" /\ cond' = [cond EXCEPT ![t] = "readers"]
      /\ UNCHANGED <<fWriteWaiters, loaded, event, fWaitCount>>
  BY DEF LockRead, condVars
<1>2. CASE MayRead /\ fState' = fState + 1 /\ Goto(t, "reading")
  <2>1. /\ Reading' = Reading \cup {t} /\ Writing' = Writing /\ W' = W /\ t \notin Reading
        /\ cond' \in [Threads -> Conds]
        /\ pc' \in [Threads -> {"out", "reading", "writing", "load", "store", "asleep",
                                "loadDown", "storeDown", "relock"}]
    BY <1>1, <1>2, Enters DEF Conds
  <2>2. EntersToRead(t)
    BY <1>1, <1>2, <2>1 DEF EntersToRead
  <2>3. Types'
    BY <1>1, <1>2, <2>1 DEF Types
  <2>4. QED
    BY <2>2, <2>3 DEF Effect
<1>3. CASE StartWait(t) /\ UNCHANGED fState
  <2>1. PICK to \in {"load", "asleep"} : Goto(t, to)
    BY <1>3, StartWaitGoes
  <2>2. /\ Reading' = Reading /\ Writing' = Writing /\ W' = W
        /\ cond' \in [Threads -> Conds]
        /\ pc' \in [Threads -> {"out", "reading", "writing", "load", "store", "asleep",
                                "loadDown", "storeDown", "relock"}]
    BY <1>1, <2>1, Enters DEF Conds
  <2>3. StepsOfAWait
    BY <1>1, <1>3, <2>2 DEF StepsOfAWait, SameSets, lockVars
  <2>4. Types'
    BY <1>1, <1>3, <2>2 DEF Types
  <2>5. QED
    BY <2>3, <2>4 DEF Effect
<1>4. QED
  BY <1>2, <1>3 DEF LockRead

LEMMA ReadAgainEffect ==
    ASSUME Types, NEW t \in Threads, ReadAgain(t) PROVE Types' /\ Effect(t)
<1>1. /\ pc[t] = "relock" /\ cond[t] = "readers" /\ cond' = [cond EXCEPT ![t] = "readers"]
      /\ UNCHANGED <<fWriteWaiters, loaded, event, fWaitCount>>
  BY DEF ReadAgain, condVars, Types
<1>2. CASE MayRead /\ fState' = fState + 1 /\ Goto(t, "reading")
  <2>1. /\ Reading' = Reading \cup {t} /\ Writing' = Writing /\ W' = W /\ t \notin Reading
        /\ cond' \in [Threads -> Conds]
        /\ pc' \in [Threads -> {"out", "reading", "writing", "load", "store", "asleep",
                                "loadDown", "storeDown", "relock"}]
    BY <1>1, <1>2, Enters DEF Conds
  <2>2. EntersToRead(t)
    BY <1>1, <1>2, <2>1 DEF EntersToRead
  <2>3. Types'
    BY <1>1, <1>2, <2>1 DEF Types
  <2>4. QED
    BY <2>2, <2>3 DEF Effect
<1>3. CASE StartWait(t) /\ UNCHANGED fState
  <2>1. PICK to \in {"load", "asleep"} : Goto(t, to)
    BY <1>3, StartWaitGoes
  <2>2. /\ Reading' = Reading /\ Writing' = Writing /\ W' = W
        /\ cond' \in [Threads -> Conds]
        /\ pc' \in [Threads -> {"out", "reading", "writing", "load", "store", "asleep",
                                "loadDown", "storeDown", "relock"}]
    BY <1>1, <2>1, Enters DEF Conds
  <2>3. StepsOfAWait
    BY <1>1, <1>3, <2>2 DEF StepsOfAWait, SameSets, lockVars
  <2>4. Types'
    BY <1>1, <1>3, <2>2 DEF Types
  <2>5. QED
    BY <2>3, <2>4 DEF Effect
<1>4. QED
  BY <1>2, <1>3 DEF ReadAgain

LEMMA LockWriteEffect ==
    ASSUME Types, NEW t \in Threads, LockWrite(t) PROVE Types' /\ Effect(t)
<1>1. /\ pc[t] = "out" /\ cond' = [cond EXCEPT ![t] = "writers"] /\ t \in Writers
      /\ UNCHANGED <<loaded, event, fWaitCount>>
  BY DEF LockWrite, condVars
<1>2. CASE MayWrite /\ fState' = -1 /\ Goto(t, "writing") /\ UNCHANGED fWriteWaiters
  <2>1. /\ Reading' = Reading /\ Writing' = Writing \cup {t} /\ W' = W \ {t} /\ t \notin Writing
        /\ t \notin W
        /\ cond' \in [Threads -> Conds]
        /\ pc' \in [Threads -> {"out", "reading", "writing", "load", "store", "asleep",
                                "loadDown", "storeDown", "relock"}]
    BY <1>1, <1>2, Enters DEF Conds
  <2>2. EntersToWrite(t)
    BY <1>1, <1>2, <2>1 DEF EntersToWrite
  <2>3. Types'
    BY <1>1, <1>2, <2>1 DEF Types
  <2>4. QED
    BY <2>2, <2>3 DEF Effect
<1>3. CASE fWriteWaiters' = fWriteWaiters + 1 /\ StartWait(t) /\ UNCHANGED fState
  <2>1. PICK to \in {"load", "asleep"} : Goto(t, to)
    BY <1>3, StartWaitGoes
  <2>2. /\ Reading' = Reading /\ Writing' = Writing /\ W' = W \cup {t} /\ t \notin W
        /\ cond' \in [Threads -> Conds]
        /\ pc' \in [Threads -> {"out", "reading", "writing", "load", "store", "asleep",
                                "loadDown", "storeDown", "relock"}]
    BY <1>1, <1>3, <2>1, Enters DEF Conds
  <2>3. QueuesToWrite(t)
    BY <1>1, <1>3, <2>2 DEF QueuesToWrite
  <2>4. Types'
    BY <1>1, <1>3, <2>2 DEF Types
  <2>5. QED
    BY <2>3, <2>4 DEF Effect
<1>4. QED
  BY <1>2, <1>3 DEF LockWrite

LEMMA WriteAgainEffect ==
    ASSUME Types, NEW t \in Threads, WriteAgain(t) PROVE Types' /\ Effect(t)
<1>1. /\ pc[t] = "relock" /\ cond[t] = "writers" /\ cond' = [cond EXCEPT ![t] = "writers"]
      /\ UNCHANGED <<loaded, event, fWaitCount>>
  BY DEF WriteAgain, condVars, Types
<1>2. CASE MayWrite /\ fState' = -1 /\ fWriteWaiters' = fWriteWaiters - 1 /\ Goto(t, "writing")
  <2>1. /\ Reading' = Reading /\ Writing' = Writing \cup {t} /\ W' = W \ {t} /\ t \notin Writing
        /\ t \in W
        /\ cond' \in [Threads -> Conds]
        /\ pc' \in [Threads -> {"out", "reading", "writing", "load", "store", "asleep",
                                "loadDown", "storeDown", "relock"}]
    BY <1>1, <1>2, Enters DEF Conds
  <2>2. EntersToWrite(t)
    BY <1>1, <1>2, <2>1 DEF EntersToWrite
  <2>3. Types'
    BY <1>1, <1>2, <2>1 DEF Types
  <2>4. QED
    BY <2>2, <2>3 DEF Effect
<1>3. CASE StartWait(t) /\ UNCHANGED lockVars
  <2>1. PICK to \in {"load", "asleep"} : Goto(t, to)
    BY <1>3, StartWaitGoes
  <2>2. t \in W
    BY <1>1 DEF W, WaitsIn
  <2>3. /\ Reading' = Reading /\ Writing' = Writing /\ W' = W \cup {t}
        /\ cond' \in [Threads -> Conds]
        /\ pc' \in [Threads -> {"out", "reading", "writing", "load", "store", "asleep",
                                "loadDown", "storeDown", "relock"}]
    BY <1>1, <1>3, <2>1, Enters DEF Conds
  <2>4. StepsOfAWait
    BY <1>1, <1>3, <2>2, <2>3 DEF StepsOfAWait, SameSets, lockVars
  <2>5. Types'
    BY <1>1, <1>3, <2>3 DEF Types, lockVars
  <2>6. QED
    BY <2>4, <2>5 DEF Effect
<1>4. QED
  BY <1>2, <1>3 DEF WriteAgain, RemoveWriteWaiter

LEMMA WaitEffect ==
    ASSUME Types, NEW t \in Threads, LoadCount(t) \/ StoreCount(t) \/ Wake(t) \/ TimedOut(t)
    PROVE  Types' /\ Effect(t)
<1>1. /\ UNCHANGED <<fState, fWriteWaiters, cond>> /\ cond[t] \in Conds
      /\ pc[t] \notin {"out", "reading", "writing"}
      /\ \E to \in {"store", "asleep", "loadDown", "storeDown", "relock"} : Goto(t, to)
  BY DEF LoadCount, StoreCount, Wake, TimedOut, EndSleep, lockVars, Types
<1>2. /\ loaded' \in [Threads -> Int] /\ event' \in [Conds -> BOOLEAN]
      /\ fWaitCount' \in [Conds -> Int]
  <2>1. CASE LoadCount(t)
    BY <2>1, <1>1 DEF LoadCount, Types, condVars
  <2>2. CASE StoreCount(t)
    BY <2>2, <1>1 DEF StoreCount, Types
  <2>3. CASE Wake(t)
    BY <2>3, <1>1 DEF Wake, Types
  <2>4. CASE TimedOut(t)
    BY <2>4, <1>1 DEF TimedOut, Types, condVars
  <2>5. QED
    BY <2>1, <2>2, <2>3, <2>4
<1>3. PICK to \in {"store", "asleep", "loadDown", "storeDown", "relock"} : pc' = [pc EXCEPT ![t] = to]
  BY <1>1 DEF Goto
<1>4. SameSets /\ Types'
  BY <1>1, <1>2, <1>3, WaitMoves DEF Types
<1>5. QED
  BY <1>1, <1>4 DEF Effect, StepsOfAWait, lockVars

LEMMA SignalWakes ==
    ASSUME Types, NEW t \in Threads, NEW c \in Conds, Signal(t, c) \/ Broadcast(t, c)
    PROVE  /\ \E woken \in SUBSET {u \in Threads : pc[u] = "asleep"} : WakeAll(t, woken)
           /\ event' \in [Conds -> BOOLEAN] /\ UNCHANGED fWaitCount
<1>1. Sleepers(c) \in SUBSET {u \in Threads : pc[u] = "asleep"}
  BY DEF Sleepers
<1>2. CASE Signal(t, c)
  <2>1. CASE Win32
    BY <1>2, <2>1 DEF Signal, Types
  <2>2. CASE ~ Win32
    <3>1. UNCHANGED <<event, fWaitCount>>
      BY <1>2, <2>2 DEF Signal, condVars
    <3>2. WakeAll(t, {}) \/ \E u \in Sleepers(c) : WakeAll(t, {u})
      BY <1>2, <2>2 DEF Signal
    <3>3. QED
      BY <1>1, <3>1, <3>2 DEF Types
  <2>3. QED
    BY <2>1, <2>2
<1>3. CASE Broadcast(t, c)
  <2>1. CASE Win32
    BY <1>3, <2>1 DEF Broadcast, Types
  <2>2. CASE ~ Win32
    BY <1>1, <1>3, <2>2 DEF Broadcast, condVars, Types
  <2>3. QED
    BY <2>1, <2>2
<1>4. QED
  BY <1>2, <1>3

LEMMA UnlockEffect ==
    ASSUME Types, NEW t \in Threads, Unlock(t) PROVE Types' /\ Effect(t)
<1>1. pc[t] \in {"reading", "writing"} /\ UNCHANGED <<fWriteWaiters, cond, loaded>> /\ fState \in Int
  BY DEF Unlock, Types
<1>2. fState' = IF fState < 0 \/ fState - 1 <= 0 THEN 0 ELSE fState - 1
  BY <1>1 DEF Unlock, LastReader
<1>3. /\ \E woken \in SUBSET {u \in Threads : pc[u] = "asleep"} : WakeAll(t, woken)
      /\ event' \in [Conds -> BOOLEAN] /\ UNCHANGED fWaitCount
  <2>1. CASE Signal(t, "writers") \/ Broadcast(t, "readers")
    BY <2>1, SignalWakes DEF Conds
  <2>2. CASE WakeAll(t, {}) /\ UNCHANGED condVars
    BY <2>2 DEF condVars, Types
  <2>3. QED
    BY <2>1, <2>2 DEF Unlock
<1>4. Leaves(t) /\ Types'
  <2>1. t \in Reading \cup Writing
    BY <1>1 DEF Reading, Writing
  <2>2. fState' \in Int
    BY <1>1, <1>2
  <2>3. QED
    BY <1>1, <1>2, <1>3, <2>1, <2>2, Wakes DEF Leaves, Types
<1>5. QED
  BY <1>4 DEF Effect

LEMMA NextEffect ==
    ASSUME Types, Next PROVE Types' /\ \E t \in Threads : Effect(t)
<1>1. PICK t \in Threads : \/ LockRead(t) \/ LockWrite(t) \/ TryLockRead(t) \/ TryLockWrite(t)
                           \/ Unlock(t) \/ Waiting(t) \/ TimedOut(t)
  BY DEF Next
<1>2. LockRead(t) \/ ReadAgain(t) \/ LockWrite(t) \/ WriteAgain(t) \/ Unlock(t)
      \/ LoadCount(t) \/ StoreCount(t) \/ Wake(t) \/ TimedOut(t)
  BY <1>1 DEF TryLockRead, TryLockWrite, Waiting
<1>3. Types' /\ Effect(t)
  BY <1>2, LockReadEffect, ReadAgainEffect, LockWriteEffect, WriteAgainEffect, UnlockEffect, WaitEffect
<1>4. QED
  BY <1>3
-----------------------------------------------------------------------------
(* The count of waiting writers                                            *)

OnlyWriters == W \cup Writing \subseteq Writers

CountInv == Types /\ Counted /\ OnlyWriters

LEMMA InitCount == Init => CountInv /\ Reading = {} /\ Writing = {}
<1> SUFFICES ASSUME Init PROVE CountInv /\ Reading = {} /\ Writing = {}
  OBVIOUS
<1>1. Types
  BY DEF Init, Types, Conds
<1>2. W = {} /\ Writing = {} /\ Reading = {}
  BY DEF Init, W, WaitsIn, Writing, Reading
<1>3. Counted
  BY <1>2, FS_EmptySet DEF Init, Counted
<1>4. QED
  BY <1>1, <1>2, <1>3 DEF CountInv, OnlyWriters

LEMMA NextCount ==
    ASSUME CountInv, Types', NEW t \in Threads, Effect(t)
    PROVE  CountInv'
<1>1. IsFiniteSet(W) /\ fWriteWaiters = Cardinality(W)
  BY Subsets, FiniteSets DEF CountInv, Counted
<1>2. CASE W' = W /\ UNCHANGED fWriteWaiters
  BY <1>2, <1>1 DEF CountInv, Counted, OnlyWriters, Effect, StepsOfAWait, SameSets,
     EntersToRead, EntersToWrite, QueuesToWrite, Leaves
<1>3. CASE EntersToWrite(t)
  <2>1. W' = W \ {t} /\ Writing' = Writing \cup {t} /\ (t \in W \/ t \in Writers)
        /\ fWriteWaiters' = IF t \in W THEN fWriteWaiters - 1 ELSE fWriteWaiters
    BY <1>3 DEF EntersToWrite
  <2>2. Counted'
    BY <2>1, <1>1, FS_RemoveElement DEF Counted
  <2>3. OnlyWriters'
    BY <2>1 DEF CountInv, OnlyWriters
  <2>4. QED
    BY <2>2, <2>3 DEF CountInv
<1>4. CASE QueuesToWrite(t)
  <2>1. W' = W \cup {t} /\ Writing' = Writing /\ t \notin W /\ t \in Writers
        /\ fWriteWaiters' = fWriteWaiters + 1
    BY <1>4 DEF QueuesToWrite
  <2>2. Counted'
    BY <2>1, <1>1, FS_AddElement DEF Counted
  <2>3. OnlyWriters'
    BY <2>1 DEF CountInv, OnlyWriters
  <2>4. QED
    BY <2>2, <2>3 DEF CountInv
<1>5. QED
  BY <1>2, <1>3, <1>4 DEF Effect, StepsOfAWait, SameSets, lockVars, EntersToRead, Leaves

LEMMA StutterEffect == ASSUME UNCHANGED vars PROVE SameSets /\ UNCHANGED <<lockVars, pc, cond, event>> /\ (Types => Types')
BY DEF vars, lockVars, condVars, SameSets, Reading, Writing, W, WaitsIn, Types

LEMMA CountInductive == CountInv /\ [Next]_vars => CountInv'
<1>1. ASSUME CountInv, Next PROVE CountInv'
  <2>1. Types' /\ \E t \in Threads : Effect(t)
    BY <1>1, NextEffect DEF CountInv
  <2>2. QED
    BY <1>1, <2>1, NextCount
<1>2. ASSUME CountInv, UNCHANGED vars PROVE CountInv'
  BY <1>2, StutterEffect DEF CountInv, Counted, OnlyWriters, SameSets, lockVars
<1>3. QED
  BY <1>1, <1>2

(* fWriteWaiters is the number of threads waiting in LockWrite, for any    *)
(* threads and on both builds.                                             *)
THEOREM WaitersAreCounted == Spec => []TypeOK
<1>1. CountInv => TypeOK
  <2>1. ASSUME CountInv PROVE fWriteWaiters \in Nat /\ fWriteWaiters = Cardinality(W)
    BY <2>1, Subsets, FiniteSets DEF CountInv, Counted
  <2>2. QED
    BY <2>1 DEF CountInv, Types, TypeOK, W
<1>2. QED
  BY <1>1, InitCount, CountInductive, PTL DEF Spec

-----------------------------------------------------------------------------
(* Exclusion with one writer                                               *)

OneWriter == \A v, w \in Writers : v = w

StateInv ==
    /\ Writing # {} => Reading = {} /\ fState = -1
    /\ Writing = {} => fState = Cardinality(Reading)

LEMMA NextState ==
    ASSUME OneWriter, CountInv, StateInv, NEW t \in Threads, Effect(t)
    PROVE  StateInv'
<1>1. /\ IsFiniteSet(Reading) /\ Cardinality(Reading) \in Nat /\ fState \in Int
      /\ Cardinality(Reading) = 0 <=> Reading = {}
  BY Subsets, FiniteSets, FS_EmptySet DEF CountInv, Types
<1>2. CASE UNCHANGED fState /\ Reading' = Reading /\ Writing' = Writing
  BY <1>2 DEF StateInv
<1>3. CASE EntersToRead(t)
  <2>1. fState >= 0 /\ fState' = fState + 1 /\ Writing' = Writing
        /\ t \notin Reading /\ Reading' = Reading \cup {t}
    BY <1>3 DEF EntersToRead, MayRead
  <2>2. Writing = {} /\ fState = Cardinality(Reading)
    BY <2>1 DEF StateInv
  <2>3. Cardinality(Reading') = Cardinality(Reading) + 1
    BY <2>1, <1>1, FS_AddElement
  <2>4. QED
    BY <2>1, <2>2, <2>3 DEF StateInv
<1>4. CASE EntersToWrite(t)
  <2>1. fState <= 0 /\ fState' = -1 /\ t \notin Writing /\ (t \in W \/ t \in Writers)
        /\ Reading' = Reading /\ Writing' = Writing \cup {t}
    BY <1>4 DEF EntersToWrite, MayWrite
  <2>2. Writing = {}
    BY <2>1 DEF CountInv, OnlyWriters, OneWriter
  <2>3. Reading = {}
    BY <2>1, <2>2, <1>1 DEF StateInv
  <2>4. QED
    BY <2>1, <2>3 DEF StateInv
<1>5. CASE Leaves(t)
  <2>1. /\ t \in Reading \cup Writing
        /\ Reading' = Reading \ {t} /\ Writing' = Writing \ {t}
        /\ fState' = IF fState < 0 \/ fState - 1 <= 0 THEN 0 ELSE fState - 1
    BY <1>5 DEF Leaves
  <2>2. CASE t \in Writing
    <3>1. Reading' = {} /\ fState' = 0
      BY <2>1, <2>2 DEF StateInv
    <3>2. Writing' = {}
      BY <2>1, <2>2 DEF CountInv, OnlyWriters, OneWriter
    <3>3. QED
      BY <3>1, <3>2, FS_EmptySet DEF StateInv
  <2>3. CASE t \in Reading
    <3>1. Writing = {} /\ fState = Cardinality(Reading) /\ Reading # {}
      BY <2>3 DEF StateInv
    <3>2. Cardinality(Reading') = Cardinality(Reading) - 1
      BY <2>1, <2>3, <1>1, FS_RemoveElement
    <3>3. fState' = Cardinality(Reading')
      BY <2>1, <3>1, <3>2, <1>1
    <3>4. QED
      BY <2>1, <3>1, <3>3 DEF StateInv
  <2>4. QED
    BY <2>1, <2>2, <2>3
<1>6. QED
  BY <1>2, <1>3, <1>4, <1>5 DEF Effect, StepsOfAWait, SameSets, lockVars, QueuesToWrite

(* With at most one writer, for any number of readers and on both builds,  *)
(* the lock excludes and fState counts those who are in.                   *)
THEOREM OneWriterExcludes == OneWriter => (Spec => []Exclusive)
<1> SUFFICES ASSUME OneWriter PROVE Spec => []Exclusive
  OBVIOUS
<1>1. Init => CountInv /\ StateInv
  <2>1. ASSUME Init PROVE CountInv /\ StateInv
    <3>1. CountInv /\ Reading = {} /\ Writing = {} /\ fState = 0
      BY <2>1, InitCount DEF Init
    <3>2. QED
      BY <3>1, FS_EmptySet DEF StateInv
  <2>2. QED
    BY <2>1
<1>2. (CountInv /\ StateInv) /\ [Next]_vars => (CountInv /\ StateInv)'
  <2>1. ASSUME CountInv, StateInv, Next PROVE StateInv'
    BY <2>1, NextEffect, NextState DEF CountInv
  <2>2. ASSUME StateInv, UNCHANGED vars PROVE StateInv'
    BY <2>2, StutterEffect DEF StateInv, SameSets, lockVars
  <2>3. QED
    BY <2>1, <2>2, CountInductive
<1>3. CountInv /\ StateInv => Exclusive
  <2>1. ASSUME CountInv, StateInv, Writing # {} PROVE Cardinality(Writing) = 1
    <3>1. PICK t \in Writing : Writing = {t}
      BY <2>1 DEF CountInv, OnlyWriters, OneWriter
    <3>2. QED
      BY <3>1, FS_Singleton
  <2>2. QED
    BY <2>1 DEF StateInv, Exclusive
<1>4. QED
  BY <1>1, <1>2, <1>3, PTL DEF Spec
-----------------------------------------------------------------------------
(* Wake-ups of writers                                                     *)

Woken == {"loadDown", "storeDown", "relock"}
WokenWriter == \E u \in W : pc[u] \in Woken

(* While the lock is free and a writer is anywhere in LockWrite, one is    *)
(* about to be woken or on its way back to its test.                       *)
WritersInv == fState = 0 /\ W # {} => event["writers"] \/ WokenWriter

LEMMA CountFacts ==
    ASSUME CountInv
    PROVE  /\ Types /\ fState \in Int /\ fWriteWaiters \in Nat
           /\ fWriteWaiters = 0 => W = {}
BY Subsets, FiniteSets, FS_EmptySet DEF CountInv, Counted, Types

(* A woken writer stays one, whatever the others do.                       *)
LEMMA StaysWoken ==
    ASSUME Types, NEW t \in Threads, pc' = [pc EXCEPT ![t] = pc'[t]],
           W \ {t} \subseteq W', UNCHANGED event, fState = 0, WritersInv, W # {},
           pc[t] \notin Woken \/ t \notin W \/ (t \in W' /\ pc'[t] \in Woken)
    PROVE  (event["writers"] \/ WokenWriter)'
<1>1. CASE event["writers"]
  BY <1>1
<1>2. CASE WokenWriter
  <2>1. PICK u \in W : pc[u] \in Woken
    BY <1>2 DEF WokenWriter
  <2>2. u \in Threads /\ (u # t => pc'[u] = pc[u])
    BY Subsets DEF Types
  <2>3. u \in W' /\ pc'[u] \in Woken
    BY <2>1, <2>2
  <2>4. QED
    BY <2>3 DEF WokenWriter
<1>3. QED
  BY <1>1, <1>2 DEF WritersInv

(* A reader that enters takes the lock, one that waits changes no writer.  *)
LEMMA ReaderKeepsWriters ==
    ASSUME CountInv, WritersInv, NEW t \in Threads, LockRead(t) \/ ReadAgain(t)
    PROVE  WritersInv'
<1>1. Types /\ fState \in Int
  BY CountFacts
<1>2. UNCHANGED event /\ t \notin W
  BY DEF LockRead, ReadAgain, condVars, W, WaitsIn
<1>3. CASE MayRead /\ fState' = fState + 1
  BY <1>1, <1>3 DEF MayRead, WritersInv
<1>4. CASE StartWait(t) /\ UNCHANGED fState
  <2>1. \E to \in {"load", "asleep"} : pc' = [pc EXCEPT ![t] = to]
    BY <1>4 DEF StartWait, Goto
  <2>2. pc' = [pc EXCEPT ![t] = pc'[t]]
    BY <1>1, <2>1 DEF Types
  <2>3. cond' = [cond EXCEPT ![t] = "readers"]
    BY <1>1 DEF LockRead, ReadAgain, Types
  <2>4. W' = W
    BY <1>1, <1>2, <2>1, <2>3 DEF Types, W, WaitsIn
  <2>5. QED
    BY <1>1, <1>2, <1>4, <2>2, <2>4, StaysWoken DEF WritersInv
<1>5. QED
  BY <1>3, <1>4 DEF LockRead, ReadAgain

(* A writer waits only while readers are in.                               *)
LEMMA WriterKeepsWriters ==
    ASSUME CountInv, NEW t \in Threads, LockWrite(t) \/ WriteAgain(t)
    PROVE  WritersInv'
<1>1. fState \in Int
  BY CountFacts
<1>2. fState' = -1 \/ (UNCHANGED fState /\ ~ MayWrite)
  BY DEF LockWrite, WriteAgain, lockVars
<1>3. fState' # 0
  BY <1>1, <1>2 DEF MayWrite
<1>4. QED
  BY <1>3 DEF WritersInv

LEMMA WaitKeepsWriters ==
    ASSUME CountInv, WritersInv, NEW t \in Threads,
           LoadCount(t) \/ StoreCount(t) \/ Wake(t) \/ TimedOut(t)
    PROVE  WritersInv'
<1>1. Types
  BY CountFacts
<1>2. UNCHANGED <<fState, cond>> /\ pc[t] \notin {"out", "reading", "writing"}
  BY DEF LoadCount, StoreCount, Wake, TimedOut, lockVars
<1>3. PICK to \in {"store", "asleep", "loadDown", "storeDown", "relock"} :
        pc' = [pc EXCEPT ![t] = to] /\ (pc[t] \in Woken => to \in Woken)
  BY DEF LoadCount, StoreCount, Wake, TimedOut, EndSleep, Goto, Woken
<1>4. W' = W /\ pc' = [pc EXCEPT ![t] = pc'[t]] /\ pc'[t] = to
  BY <1>1, <1>2, <1>3 DEF Types, W, WaitsIn
<1>5. CASE UNCHANGED event
  BY <1>1, <1>2, <1>3, <1>4, <1>5, StaysWoken DEF WritersInv
<1>6. CASE Wake(t)
  <2>1. event[cond[t]] /\ event' = [event EXCEPT ![cond[t]] = FALSE] /\ to \in Woken
    BY <1>1, <1>3, <1>4, <1>6 DEF Wake, EndSleep, Goto, Woken, Types
  <2>2. CASE cond[t] = "writers"
    <3>1. t \in W
      BY <1>2, <2>2 DEF W, WaitsIn
    <3>2. WokenWriter'
      BY <1>4, <2>1, <3>1 DEF WokenWriter
    <3>3. QED
      BY <3>2 DEF WritersInv
  <2>3. CASE cond[t] = "readers"
    <3>1. event'["writers"] = event["writers"]
      BY <1>1, <2>1, <2>3 DEF Types, Conds
    <3>2. WokenWriter => WokenWriter'
      <4>1. \A u \in W : pc[u] \in Woken => pc'[u] \in Woken
        BY <1>1, <1>3, Subsets DEF Types
      <4>2. QED
        BY <1>4, <4>1 DEF WokenWriter
    <3>3. QED
      BY <1>2, <1>4, <3>1, <3>2 DEF WritersInv
  <2>4. QED
    BY <1>1, <2>2, <2>3 DEF Types, Conds
<1>7. QED
  BY <1>5, <1>6 DEF LoadCount, StoreCount, TimedOut, condVars

(* Signal leaves the event set, or a writer on its way.                    *)
LEMMA SignalWakesWriter ==
    ASSUME Types, NEW t \in Threads, pc[t] \in {"reading", "writing"}, UNCHANGED cond,
           Signal(t, "writers"), W # {}, \A u \in W : pc[u] \notin {"load", "store"} \/ Win32
    PROVE  (event["writers"] \/ WokenWriter)'
<1>1. CASE Win32
  BY <1>1 DEF Signal, Types, Conds
<1>2. CASE ~ Win32 /\ Sleepers("writers") = {}
  <2>1. WakeAll(t, {})
    BY <1>2 DEF Signal
  <2>2. PICK u \in W : TRUE
    OBVIOUS
  <2>3. u # t /\ u \in Threads /\ pc[u] \in Woken
    BY <1>2 DEF W, WaitsIn, Sleepers, Woken, Types
  <2>4. pc'[u] = pc[u] /\ u \in W'
    BY <2>1, <2>3 DEF WakeAll, W, WaitsIn
  <2>5. QED
    BY <2>3, <2>4 DEF WokenWriter
<1>3. CASE ~ Win32 /\ Sleepers("writers") # {}
  <2>1. PICK u \in Sleepers("writers") : WakeAll(t, {u})
    BY <1>3 DEF Signal
  <2>2. u \in Threads /\ u # t /\ cond[u] = "writers"
    BY DEF Sleepers
  <2>3. pc'[u] = "relock"
    BY <2>1, <2>2 DEF WakeAll
  <2>4. u \in W'
    BY <2>2, <2>3 DEF W, WaitsIn
  <2>5. QED
    BY <2>3, <2>4 DEF WokenWriter, Woken
<1>4. QED
  BY <1>1, <1>2, <1>3

(* The steps of Wait that only Win32 has are never taken.                  *)
PosixInv == \A t \in Threads : pc[t] \notin {"load", "store", "loadDown", "storeDown"}
BuildInv == Win32 \/ PosixInv

LEMMA UnlockKeepsWriters ==
    ASSUME CountInv, BuildInv, NEW t \in Threads, Unlock(t)
    PROVE  WritersInv'
<1>1. /\ Types /\ fState \in Int /\ fWriteWaiters \in Nat
      /\ fWriteWaiters = 0 => W = {}
  BY CountFacts
<1>2. pc[t] \in {"reading", "writing"} /\ UNCHANGED <<fWriteWaiters, cond>>
  BY DEF Unlock
<1>3. W' = W
  <2>1. \E woken \in SUBSET {u \in Threads : pc[u] = "asleep"} : WakeAll(t, woken)
    <3>1. CASE Signal(t, "writers") \/ Broadcast(t, "readers")
      BY <1>1, <3>1, SignalWakes DEF Conds
    <3>2. QED
      BY <3>1 DEF Unlock
  <2>2. QED
    BY <1>1, <1>2, <2>1, Wakes
<1>4. CASE WriterWakesReaders
  BY <1>1, <1>3, <1>4 DEF WriterWakesReaders, WritersInv
<1>5. CASE Signal(t, "writers")
  <2>1. \A u \in W : pc[u] \notin {"load", "store"} \/ Win32
    BY Subsets DEF BuildInv, PosixInv
  <2>2. QED
    BY <1>1, <1>2, <1>3, <1>5, <2>1, SignalWakesWriter DEF WritersInv
<1>6. CASE fState >= 0 /\ ~ LastReader(fState - 1) /\ fState' = fState - 1
  BY <1>1, <1>6 DEF LastReader, WritersInv
<1>7. QED
  BY <1>4, <1>5, <1>6 DEF Unlock

LEMMA PosixSteps ==
    ASSUME Types, BuildInv, [Next]_vars PROVE BuildInv'
<1> SUFFICES ASSUME ~ Win32, PosixInv PROVE PosixInv'
  BY BuildAssumption DEF BuildInv
<1>1. CASE UNCHANGED vars
  BY <1>1 DEF vars, PosixInv
<1>2. CASE Next
  <2>1. PICK t \in Threads : \/ LockRead(t) \/ LockWrite(t) \/ TryLockRead(t) \/ TryLockWrite(t)
                             \/ Unlock(t) \/ Waiting(t) \/ TimedOut(t)
    BY <1>2 DEF Next
  <2>2. CASE Unlock(t)
    <3>1. pc[t] \in {"reading", "writing"}
      BY <2>2 DEF Unlock
    <3>2. \E woken \in SUBSET {u \in Threads : pc[u] = "asleep"} : WakeAll(t, woken)
      BY <2>2, SignalWakes DEF Unlock, Conds
    <3>3. QED
      BY <3>2 DEF WakeAll, PosixInv
  <2>3. CASE ~ Unlock(t)
    <3>1. \E to \in {"reading", "writing", "asleep", "relock"} : pc' = [pc EXCEPT ![t] = to]
      BY <2>1, <2>3 DEF LockRead, LockWrite, TryLockRead, TryLockWrite, Waiting, TimedOut,
         LoadCount, StoreCount, Wake, ReadAgain, WriteAgain, StartWait, EndSleep, Goto, PosixInv
    <3>2. QED
      BY <3>1 DEF PosixInv, Types
  <2>4. QED
    BY <2>2, <2>3
<1>3. QED
  BY <1>1, <1>2

LEMMA WritersInductive ==
    CountInv /\ BuildInv /\ WritersInv /\ [Next]_vars => CountInv' /\ BuildInv' /\ WritersInv'
<1> SUFFICES ASSUME CountInv, BuildInv, WritersInv, [Next]_vars
             PROVE  CountInv' /\ BuildInv' /\ WritersInv'
  OBVIOUS
<1>1. CountInv' /\ BuildInv'
  BY CountInductive, PosixSteps DEF CountInv
<1>2. CASE UNCHANGED vars
  <2>1. UNCHANGED <<fState, pc, event>> /\ W' = W
    BY <1>2, StutterEffect DEF lockVars, SameSets
  <2>2. QED
    BY <1>1, <2>1 DEF WritersInv, WokenWriter
<1>3. CASE Next
  <2>1. PICK t \in Threads : \/ LockRead(t) \/ LockWrite(t) \/ TryLockRead(t) \/ TryLockWrite(t)
                             \/ Unlock(t) \/ Waiting(t) \/ TimedOut(t)
    BY <1>3 DEF Next
  <2>2. CASE LockRead(t) \/ ReadAgain(t)
    BY <1>1, <2>2, ReaderKeepsWriters
  <2>3. CASE LockWrite(t) \/ WriteAgain(t)
    BY <1>1, <2>3, WriterKeepsWriters
  <2>4. CASE LoadCount(t) \/ StoreCount(t) \/ Wake(t) \/ TimedOut(t)
    BY <1>1, <2>4, WaitKeepsWriters
  <2>5. CASE Unlock(t)
    BY <1>1, <2>5, UnlockKeepsWriters
  <2>6. QED
    BY <2>1, <2>2, <2>3, <2>4, <2>5 DEF TryLockRead, TryLockWrite, Waiting
<1>4. QED
  BY <1>2, <1>3

LEMMA InitWakes == Init => CountInv /\ BuildInv /\ WritersInv
<1> SUFFICES ASSUME Init PROVE CountInv /\ BuildInv /\ WritersInv
  OBVIOUS
<1>1. W = {}
  BY DEF Init, W, WaitsIn
<1>2. QED
  BY <1>1, InitCount DEF Init, BuildInv, PosixInv, WritersInv

(* On both builds, and however many writers there are, no writer sleeps    *)
(* while the lock is free, unless another has been woken and takes it.     *)
THEOREM WritersAreWoken == Spec => []NoForgottenWriter
<1>1. WritersInv => NoForgottenWriter
  <2>1. SUFFICES ASSUME WritersInv, NEW t \in Sleepers("writers"), fState = 0, ~ event["writers"]
                 PROVE  \E u \in WaitsIn("writers") : pc[u] # "asleep"
    BY DEF NoForgottenWriter
  <2>2. t \in W
    BY DEF Sleepers, W, WaitsIn
  <2>3. PICK u \in W : pc[u] \in Woken
    BY <2>1, <2>2 DEF WritersInv, WokenWriter
  <2>4. QED
    BY <2>3 DEF W, Woken
<1>2. QED
  BY <1>1, InitWakes, WritersInductive, PTL DEF Spec
-----------------------------------------------------------------------------
(* Wake-ups of readers, with pthreads                                      *)

ReadersInv ==
    \A t \in Threads : pc[t] = "asleep" /\ cond[t] = "readers" => fState < 0 \/ fWriteWaiters > 0

LEMMA EnterWakes ==
    ASSUME CountInv, ReadersInv, ~ Win32, NEW t \in Threads,
           LockRead(t) \/ LockWrite(t) \/ ReadAgain(t) \/ WriteAgain(t)
    PROVE  ReadersInv'
<1>1. Types /\ fState \in Int /\ fWriteWaiters \in Nat
  BY CountFacts
<1>2. PICK to \in {"reading", "writing", "asleep"} : pc' = [pc EXCEPT ![t] = to]
  BY DEF LockRead, LockWrite, ReadAgain, WriteAgain, Goto, StartWait
<1>3. /\ \A u \in Threads : u # t => pc'[u] = pc[u] /\ cond'[u] = cond[u]
      /\ pc'[t] = to
  BY <1>1, <1>2 DEF Types, LockRead, LockWrite, ReadAgain, WriteAgain
<1>4. CASE fState' = -1
  BY <1>4 DEF ReadersInv
<1>5. CASE MayRead /\ fState' = fState + 1 /\ UNCHANGED fWriteWaiters /\ to = "reading"
  BY <1>1, <1>3, <1>5 DEF MayRead, ReadersInv
<1>6. CASE UNCHANGED <<fState, fWriteWaiters>> /\ ~ MayRead
  BY <1>1, <1>6 DEF MayRead, ReadersInv
<1>7. CASE UNCHANGED fState /\ fWriteWaiters' \in {fWriteWaiters, fWriteWaiters + 1}
           /\ cond'[t] = "writers"
  BY <1>1, <1>3, <1>7 DEF ReadersInv
<1>8. QED
  <2>1. pc'[t] = to /\ (Goto(t, "reading") => to = "reading")
    <3>1. \A x : Goto(t, x) => pc'[t] = x
      BY <1>1 DEF Types, Goto
    <3>2. QED
      BY <3>1, <1>3
  <2>2. CASE LockRead(t)
    BY <2>1, <2>2, <1>5, <1>6 DEF LockRead
  <2>3. CASE ReadAgain(t)
    BY <2>1, <2>3, <1>5, <1>6 DEF ReadAgain
  <2>4. CASE LockWrite(t)
    <3>1. cond'[t] = "writers"
      BY <1>1, <2>4 DEF LockWrite, Types
    <3>2. QED
      BY <3>1, <2>4, <1>4, <1>7 DEF LockWrite
  <2>5. CASE WriteAgain(t)
    <3>1. cond'[t] = "writers"
      BY <2>5 DEF WriteAgain
    <3>2. QED
      BY <3>1, <2>5, <1>4, <1>7 DEF WriteAgain, lockVars
  <2>6. QED
    BY <2>2, <2>3, <2>4, <2>5

LEMMA WaitWakes ==
    ASSUME CountInv, ReadersInv, ~ Win32, PosixInv, NEW t \in Threads,
           LoadCount(t) \/ StoreCount(t) \/ Wake(t) \/ TimedOut(t)
    PROVE  ReadersInv'
<1>1. Types
  BY CountFacts
<1>2. TimedOut(t)
  BY DEF LoadCount, StoreCount, Wake, PosixInv
<1>3. pc' = [pc EXCEPT ![t] = "relock"] /\ UNCHANGED <<fState, fWriteWaiters, cond>>
  BY <1>2 DEF TimedOut, EndSleep, Goto, lockVars
<1>4. \A u \in Threads : pc'[u] = "asleep" => pc[u] = "asleep"
  BY <1>1, <1>3 DEF Types
<1>5. QED
  BY <1>3, <1>4 DEF ReadersInv

LEMMA UnlockWakes ==
    ASSUME CountInv, ReadersInv, ~ Win32, NEW t \in Threads, Unlock(t)
    PROVE  ReadersInv'
<1>1. Types /\ fState \in Int /\ fWriteWaiters \in Nat
  BY CountFacts
<1>2. pc[t] \in {"reading", "writing"} /\ UNCHANGED <<fWriteWaiters, cond>>
  BY DEF Unlock
<1>3. ASSUME NEW woken \in SUBSET {u \in Threads : pc[u] = "asleep"}, WakeAll(t, woken)
      PROVE  \A u \in Threads : pc'[u] = "asleep" <=> pc[u] = "asleep" /\ u \notin woken
  BY <1>2, <1>3 DEF WakeAll
<1>4. CASE fState < 0 /\ fState' = 0 /\ WriterWakesReaders /\ Broadcast(t, "readers")
  <2>1. WakeAll(t, Sleepers("readers"))
    BY <1>4 DEF Broadcast
  <2>2. Sleepers("readers") \in SUBSET {u \in Threads : pc[u] = "asleep"}
    BY DEF Sleepers
  <2>3. \A u \in Threads : pc'[u] = "asleep" <=> pc[u] = "asleep" /\ u \notin Sleepers("readers")
    BY <1>3, <2>1, <2>2
  <2>4. QED
    BY <1>2, <2>3 DEF ReadersInv, Sleepers
<1>5. CASE Signal(t, "writers") /\ ((fState < 0 /\ ~ WriterWakesReaders) \/ fState >= 0)
  <2>1. \E woken \in SUBSET {u \in Threads : pc[u] = "asleep"} : WakeAll(t, woken)
    BY <1>1, <1>5, SignalWakes DEF Conds
  <2>2. \A u \in Threads : pc'[u] = "asleep" => pc[u] = "asleep"
    BY <1>3, <2>1
  <2>3. (\E u \in Threads : pc[u] = "asleep" /\ cond[u] = "readers") => fWriteWaiters > 0
    BY <1>1, <1>5 DEF ReadersInv, WriterWakesReaders
  <2>4. QED
    BY <1>2, <2>2, <2>3 DEF ReadersInv
<1>6. CASE fState >= 0 /\ ~ LastReader(fState - 1) /\ fState' = fState - 1 /\ WakeAll(t, {})
  <2>1. \A u \in Threads : pc'[u] = "asleep" => pc[u] = "asleep"
    BY <1>3, <1>6
  <2>2. QED
    BY <1>1, <1>2, <1>6, <2>1 DEF ReadersInv
<1>7. QED
  BY <1>4, <1>5, <1>6 DEF Unlock

LEMMA ReadersInductive ==
    ~ Win32 => (CountInv /\ BuildInv /\ ReadersInv /\ [Next]_vars => ReadersInv')
<1> SUFFICES ASSUME ~ Win32, CountInv, BuildInv, ReadersInv, [Next]_vars PROVE ReadersInv'
  OBVIOUS
<1>1. CASE UNCHANGED vars
  BY <1>1 DEF vars, lockVars, ReadersInv
<1>2. CASE Next
  <2>1. PICK t \in Threads : \/ LockRead(t) \/ LockWrite(t) \/ TryLockRead(t) \/ TryLockWrite(t)
                             \/ Unlock(t) \/ Waiting(t) \/ TimedOut(t)
    BY <1>2 DEF Next
  <2>2. CASE LockRead(t) \/ LockWrite(t) \/ ReadAgain(t) \/ WriteAgain(t)
    BY <2>2, EnterWakes
  <2>3. CASE LoadCount(t) \/ StoreCount(t) \/ Wake(t) \/ TimedOut(t)
    BY <2>3, WaitWakes DEF BuildInv
  <2>4. CASE Unlock(t)
    BY <2>4, UnlockWakes
  <2>5. QED
    BY <2>1, <2>2, <2>3, <2>4 DEF TryLockRead, TryLockWrite, Waiting
<1>3. QED
  BY <1>1, <1>2

(* With pthreads no reader sleeps while no writer is in the lock or        *)
(* waiting for it, however many writers there are.                         *)
THEOREM ReadersAreWoken == ~ Win32 => (Spec => []NoForgottenReader)
<1> SUFFICES ASSUME ~ Win32 PROVE Spec => []NoForgottenReader
  OBVIOUS
<1>1. CountInv /\ ReadersInv => NoForgottenReader
  <2>1. SUFFICES ASSUME CountInv, ReadersInv, NEW t \in Sleepers("readers"), fWriteWaiters = 0, fState >= 0
                 PROVE  FALSE
    BY DEF NoForgottenReader
  <2>2. fState < 0 \/ fWriteWaiters > 0
    BY <2>1 DEF Sleepers, ReadersInv
  <2>3. QED
    BY <2>1, <2>2, CountFacts
<1>2. Init => ReadersInv
  BY DEF Init, ReadersInv
<1>3. CountInv /\ BuildInv /\ ReadersInv /\ [Next]_vars => ReadersInv'
  BY ReadersInductive
<1>4. CountInv /\ BuildInv /\ [Next]_vars => CountInv' /\ BuildInv'
  BY CountInductive, PosixSteps DEF CountInv
<1>5. QED
  BY <1>1, <1>2, <1>3, <1>4, InitWakes, PTL DEF Spec
=============================================================================
