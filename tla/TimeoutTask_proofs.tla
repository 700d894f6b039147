------------------------- MODULE TimeoutTask_proofs -------------------------
(***************************************************************************)
(* Proofs about TimeoutTask.  The inductive invariant ties the interval    *)
(* that Run computes to the timers it has visited so far: each visit after *)
(* the one of timer i can push the scan back by less than a slack.         *)
(***************************************************************************)
EXTENDS TimeoutTask, TLAPS

(* A timer out of the queue is not armed; no timer is further away than    *)
(* its timeout.                                                            *)
QueueInv ==
    \A t \in Timers :
        /\ ~ InQueue(t) => ~ armed[t] /\ ~ seen[t]
        /\ fTimeoutAtThisTime[t] <= fTimeoutInMilSecs[t]

(* How long the interval can be, and for how long no scan was made.        *)
IntervalInv ==
    /\ intervalMilli <= Interval + Climb(IF scanning THEN iter - 1 ELSE MaxTimers)
    /\ elapsed <= LongestInterval + MaxLate
    /\ ~ scanning => elapsed <= intervalMilli + MaxLate

(* What no scan has noticed yet ran out after the last one.                *)
Unnoticed(t) == Expired(t) /\ ~ timedOut[t]

DueInv ==
    /\ \A t \in Timers : Unnoticed(t) => - fTimeoutAtThisTime[t] <= elapsed
    /\ scanning => \A i \in 1 .. iter - 1 :
          Unnoticed(fQueue[i]) => fTimeoutAtThisTime[fQueue[i]] = 0

(* The interval against the timers that a scan found pending.              *)
SeenInv ==
    /\ ~ scanning => \A t \in Timers : seen[t] =>
          intervalMilli - elapsed <= fTimeoutAtThisTime[t] + Slack + Climb(MaxTimers - 1)
    /\ scanning => \A t \in Timers : seen[t] =>
          - fTimeoutAtThisTime[t] <= LatestForSeen
    /\ scanning => \A i \in 1 .. iter - 1 : seen[fQueue[i]] =>
          intervalMilli <= fTimeoutAtThisTime[fQueue[i]] + Slack + Climb(iter - 1 - i)

Inv == TypeOK /\ QueueInv /\ IntervalInv /\ DueInv /\ SeenInv

-----------------------------------------------------------------------------
(* The climb of the interval is monotonic and grows by a slack less one.   *)
LEMMA ClimbFacts ==
    /\ Climb(0) = 0
    /\ \A n \in Nat : Climb(n) \in Nat /\ Climb(n + 1) = Climb(n) + Slack - 1
    /\ \A m, n \in Nat : m <= n => Climb(m) <= Climb(n)
<1> DEFINE s == Slack - 1
<1>1. s \in Nat
  BY TimesAssumption
<1>2. \A n \in Nat : Climb(n) = n * s
  BY DEF Climb
<1> HIDE DEF s
<1>3. \A n \in Nat : n * s \in Nat
  BY <1>1
<1>4. \A n \in Nat : (n + 1) * s = n * s + s
  BY <1>1
<1>5. ASSUME NEW m \in Nat, NEW n \in Nat, m <= n
      PROVE  m * s <= n * s
  <2>1. PICK d \in Nat : n = m + d
    BY <1>5
  <2>2. n * s = m * s + d * s
    BY <2>1, <1>1
  <2>3. QED
    BY <2>2, <1>3
<1>6. s = Slack - 1 /\ Slack \in Int
  BY TimesAssumption DEF s
<1>7. 0 * s = 0
  BY <1>1
<1>8. QED
  BY <1>1, <1>2, <1>3, <1>4, <1>5, <1>6, <1>7

LEMMA InitInv == Init => Inv
<1> SUFFICES ASSUME Init PROVE Inv
  OBVIOUS
<1> USE DEF Init
<1>1. TypeOK
  <2>1. fQueue \in Seq(Timers) /\ Len(fQueue) <= MaxTimers /\ DOMAIN fQueue = {}
    BY QueueAssumption
  <2>2. \A i, j \in DOMAIN fQueue : fQueue[i] = fQueue[j] => i = j
    BY <2>1
  <2>3. /\ scanning = FALSE /\ iter \in Nat /\ intervalMilli \in Nat /\ elapsed \in Nat
        /\ fTimeoutInMilSecs \in [Timers -> Nat]
        /\ fTimeoutAtThisTime \in [Timers -> Int]
        /\ {armed, timedOut, seen} \subseteq [Timers -> BOOLEAN]
    OBVIOUS
  <2>4. QED
    BY <2>1, <2>2, <2>3 DEF TypeOK
<1>2. QueueInv /\ DueInv /\ SeenInv
  BY DEF QueueInv, DueInv, SeenInv, Unnoticed, Expired, InQueue
<1>3. Climb(MaxTimers) \in Nat
  BY ClimbFacts, QueueAssumption
<1>4. IntervalInv
  BY <1>3, TimesAssumption DEF IntervalInv, LongestInterval
<1>5. QED
  BY <1>1, <1>2, <1>4 DEF Inv
-----------------------------------------------------------------------------
(* Setting a timer touches that timer only, and leaves it not expired.     *)
LEMMA StartTimerFacts ==
    ASSUME TypeOK, NEW t \in Timers, NEW n \in Nat, StartTimer(t, n)
    PROVE  /\ fTimeoutInMilSecs' \in [Timers -> Nat] /\ armed' \in [Timers -> BOOLEAN]
           /\ fTimeoutAtThisTime' \in [Timers -> Int]
           /\ timedOut' \in [Timers -> BOOLEAN] /\ seen' \in [Timers -> BOOLEAN]
           /\ (armed'[t] <=> n # 0) /\ fTimeoutAtThisTime'[t] = n
           /\ fTimeoutInMilSecs'[t] = n /\ ~ seen'[t]
           /\ \A u \in Timers : u # t =>
                 /\ (armed'[u] <=> armed[u]) /\ fTimeoutAtThisTime'[u] = fTimeoutAtThisTime[u]
                 /\ fTimeoutInMilSecs'[u] = fTimeoutInMilSecs[u]
                 /\ (timedOut'[u] <=> timedOut[u]) /\ (seen'[u] <=> seen[u])
<1>1. /\ armed \in [Timers -> BOOLEAN] /\ timedOut \in [Timers -> BOOLEAN]
      /\ seen \in [Timers -> BOOLEAN] /\ fTimeoutAtThisTime \in [Timers -> Int]
      /\ fTimeoutInMilSecs \in [Timers -> Nat]
  BY DEF TypeOK
<1>2. /\ fTimeoutInMilSecs' \in [Timers -> Nat] /\ armed' \in [Timers -> BOOLEAN]
      /\ fTimeoutAtThisTime' \in [Timers -> Int]
      /\ timedOut' \in [Timers -> BOOLEAN] /\ seen' \in [Timers -> BOOLEAN]
  BY <1>1 DEF StartTimer
<1>3. /\ fTimeoutAtThisTime'[t] = n /\ fTimeoutInMilSecs'[t] = n
      /\ \A u \in Timers : u # t => /\ fTimeoutAtThisTime'[u] = fTimeoutAtThisTime[u]
                                    /\ fTimeoutInMilSecs'[u] = fTimeoutInMilSecs[u]
  BY <1>1 DEF StartTimer
<1>4. /\ armed'[t] <=> n # 0
      /\ \A u \in Timers : u # t => (armed'[u] <=> armed[u])
  BY <1>1, Zenon DEF StartTimer
<1>5. /\ ~ seen'[t]
      /\ \A u \in Timers : u # t => (timedOut'[u] <=> timedOut[u]) /\ (seen'[u] <=> seen[u])
  BY <1>1, Zenon DEF StartTimer
<1>6. QED
  BY <1>2, <1>3, <1>4, <1>5

(* What is needed of a queue: its bound, and no duplicates.                *)
QueueOK(q) ==
    /\ q \in Seq(Timers) /\ Len(q) <= MaxTimers
    /\ \A i, j \in DOMAIN q : q[i] = q[j] => i = j

LEMMA Appended ==
    ASSUME QueueOK(fQueue), NEW t \in Timers, ~ InQueue(t), Len(fQueue) < MaxTimers
    PROVE  /\ QueueOK(Append(fQueue, t))
           /\ \E i \in DOMAIN Append(fQueue, t) : Append(fQueue, t)[i] = t
           /\ \A i \in DOMAIN fQueue : i \in DOMAIN Append(fQueue, t)
                                       /\ Append(fQueue, t)[i] = fQueue[i]
<1>1. PICK N \in Nat : N = Len(fQueue) /\ DOMAIN fQueue = 1 .. N
  BY DEF QueueOK
<1>2. PICK q \in Seq(Timers) : q = Append(fQueue, t)
  <2>1. fQueue \in Seq(Timers)
    BY DEF QueueOK
  <2>2. Append(fQueue, t) \in Seq(Timers)
    BY <2>1
  <2>3. QED
    BY <2>2
<1>3. DOMAIN q = 1 .. N + 1 /\ Len(q) = N + 1 /\ q[N + 1] = t
  BY <1>1, <1>2 DEF QueueOK
<1>4. \A i \in 1 .. N : q[i] = fQueue[i]
  BY <1>1, <1>2 DEF QueueOK
<1>5. \A i \in 1 .. N : fQueue[i] # t
  BY <1>1 DEF InQueue
<1>6. ASSUME NEW i \in 1 .. N + 1, NEW j \in 1 .. N + 1, q[i] = q[j] PROVE i = j
  <2>1. CASE i \in 1 .. N /\ j \in 1 .. N
    BY <2>1, <1>6, <1>4, <1>1 DEF QueueOK
  <2>2. CASE i = N + 1 \/ j = N + 1
    BY <2>2, <1>6, <1>4, <1>5, <1>3
  <2>3. QED
    BY <2>1, <2>2
<1>7. N + 1 \in 1 .. N + 1 /\ N + 1 <= MaxTimers
  BY <1>1, QueueAssumption
<1>8. QueueOK(q)
  BY <1>3, <1>6, <1>7 DEF QueueOK
<1>9. QED
  BY <1>1, <1>2, <1>3, <1>4, <1>7, <1>8

LEMMA Removed ==
    ASSUME QueueOK(fQueue), NEW k \in DOMAIN fQueue
    PROVE  /\ QueueOK(Without(k))
           /\ \A i \in DOMAIN fQueue : i # k =>
                 \E j \in DOMAIN Without(k) : Without(k)[j] = fQueue[i]
<1>1. PICK N \in Nat : N = Len(fQueue) /\ DOMAIN fQueue = 1 .. N
  BY DEF QueueOK
<1>2. \A i \in 1 .. N : fQueue[i] \in Timers
  BY <1>1 DEF QueueOK
<1>3. PICK q : q = Without(k)
  OBVIOUS
<1>4. q = [j \in 1 .. N - 1 |-> fQueue[IF j < k THEN j ELSE j + 1]]
  BY <1>1, <1>3 DEF Without
<1>5. k \in 1 .. N /\ N - 1 \in Nat
  BY <1>1
<1>6. \A j \in 1 .. N - 1 : (IF j < k THEN j ELSE j + 1) \in 1 .. N
  BY <1>5
<1>7. q \in Seq(Timers) /\ Len(q) = N - 1 /\ DOMAIN q = 1 .. N - 1
  <2>1. q \in [1 .. N - 1 -> Timers]
    BY <1>4, <1>6, <1>2
  <2>2. QED
    BY <2>1, <1>5
<1>8. \A j \in 1 .. N - 1 : q[j] = fQueue[IF j < k THEN j ELSE j + 1]
  BY <1>4
<1>9. ASSUME NEW i \in 1 .. N - 1, NEW j \in 1 .. N - 1, q[i] = q[j] PROVE i = j
  <2>1. (IF i < k THEN i ELSE i + 1) = (IF j < k THEN j ELSE j + 1)
    BY <1>9, <1>8, <1>6, <1>1 DEF QueueOK
  <2>2. QED
    BY <2>1, <1>5
<1>10. QueueOK(q)
  BY <1>7, <1>9, <1>1, QueueAssumption DEF QueueOK
<1>11. ASSUME NEW i \in 1 .. N, i # k PROVE \E j \in 1 .. N - 1 : q[j] = fQueue[i]
  <2>1. CASE i < k
    <3>1. i \in 1 .. N - 1 /\ q[i] = fQueue[i]
      BY <2>1, <1>5, <1>8
    <3>2. QED
      BY <3>1
  <2>2. CASE i > k
    <3>1. i - 1 \in 1 .. N - 1 /\ ~ (i - 1 < k) /\ (i - 1) + 1 = i
      BY <2>2, <1>5
    <3>2. q[i - 1] = fQueue[i]
      BY <3>1, <1>8
    <3>3. QED
      BY <3>1, <3>2
  <2>3. QED
    BY <2>1, <2>2, <1>11, <1>5
<1>12. QED
  BY <1>1, <1>3, <1>7, <1>10, <1>11

LEMMA Bounds == LongestInterval \in Nat /\ Climb(MaxTimers) \in Nat
                /\ Climb(MaxTimers - 1) \in Nat /\ LatestForSeen \in Nat
<1>1. MaxTimers - 1 \in Nat /\ MaxTimers \in Nat
  BY QueueAssumption
<1>2. QED
  <2>1. Climb(MaxTimers) \in Nat /\ Climb(MaxTimers - 1) \in Nat
    BY <1>1, ClimbFacts
  <2>2. QED
    BY <2>1, TimesAssumption DEF LongestInterval, LatestForSeen
-----------------------------------------------------------------------------
(* SetTimeout, the constructor and the destructor: only timer t changes,   *)
(* and the other timers keep their place in the queue.                     *)
LEMMA SetTimeoutInv ==
    ASSUME Inv, NEW t \in Timers, NEW n \in Timeouts, SetTimeout(t, n)
    PROVE  Inv'
<1>1. TypeOK /\ n \in Nat
  BY TimesAssumption DEF Inv, Timeouts
<1>3. UNCHANGED <<fQueue, scanning, iter, intervalMilli, elapsed>> /\ StartTimer(t, n) /\ InQueue(t)
  BY DEF SetTimeout, scanVars
<1>4. TypeOK'
  BY <1>1, <1>3, StartTimerFacts DEF TypeOK
<1>5. QueueInv'
  BY <1>1, <1>3, StartTimerFacts DEF Inv, QueueInv, InQueue
<1>6. IntervalInv'
  BY <1>3 DEF Inv, IntervalInv
<1>7. ASSUME NEW u \in Timers
      PROVE  /\ Unnoticed(u)' => u # t /\ Unnoticed(u)
             /\ seen'[u] => u # t /\ seen[u]
             /\ u # t => fTimeoutAtThisTime'[u] = fTimeoutAtThisTime[u]
  BY <1>1, <1>3, StartTimerFacts DEF Unnoticed, Expired
<1>8. scanning => \A i \in 1 .. iter - 1 : fQueue[i] \in Timers
  BY <1>1 DEF TypeOK
<1>9. DueInv'
  BY <1>3, <1>7, <1>8 DEF Inv, DueInv
<1>10. SeenInv'
  BY <1>3, <1>7, <1>8 DEF Inv, SeenInv
<1>11. QED
  BY <1>4, <1>5, <1>6, <1>9, <1>10 DEF Inv

LEMMA CreateInv ==
    ASSUME Inv, NEW t \in Timers, NEW n \in Timeouts, Create(t, n)
    PROVE  Inv'
<1>1. TypeOK /\ n \in Nat /\ ~ scanning
  BY TimesAssumption DEF Inv, Timeouts, Create, MayLock
<1>2. /\ UNCHANGED <<scanning, iter, intervalMilli, elapsed>> /\ StartTimer(t, n)
      /\ fQueue' = Append(fQueue, t) /\ Len(fQueue) < MaxTimers /\ ~ InQueue(t)
  BY DEF Create, scanVars
<1>3. QueueOK(fQueue)
  BY <1>1 DEF TypeOK, QueueOK
<1>4. /\ QueueOK(fQueue') /\ InQueue(t)'
      /\ \A i \in DOMAIN fQueue : i \in DOMAIN fQueue' /\ fQueue'[i] = fQueue[i]
  BY <1>2, <1>3, Appended DEF InQueue
<1>5. TypeOK'
  BY <1>1, <1>2, <1>4, StartTimerFacts DEF TypeOK, QueueOK
<1>6. \A u \in Timers : InQueue(u) => InQueue(u)'
  BY <1>4 DEF InQueue
<1>7. QueueInv'
  <2>1. SUFFICES ASSUME NEW u \in Timers
                 PROVE  /\ ~ InQueue(u)' => ~ armed'[u] /\ ~ seen'[u]
                        /\ fTimeoutAtThisTime'[u] <= fTimeoutInMilSecs'[u]
    BY DEF QueueInv
  <2>2. CASE u = t
    BY <2>2, <1>1, <1>2, <1>4, StartTimerFacts
  <2>3. CASE u # t
    <3>1. /\ ~ InQueue(u) => ~ armed[u] /\ ~ seen[u]
          /\ fTimeoutAtThisTime[u] <= fTimeoutInMilSecs[u]
      BY DEF Inv, QueueInv
    <3>2. QED
      BY <3>1, <2>3, <1>1, <1>2, <1>6, StartTimerFacts
  <2>4. QED
    BY <2>2, <2>3
<1>8. ASSUME NEW u \in Timers
      PROVE  /\ Unnoticed(u)' => u # t /\ Unnoticed(u)
             /\ seen'[u] => u # t /\ seen[u]
             /\ u # t => fTimeoutAtThisTime'[u] = fTimeoutAtThisTime[u]
  BY <1>1, <1>2, StartTimerFacts DEF Unnoticed, Expired
<1>9. IntervalInv' /\ DueInv' /\ SeenInv'
  BY <1>1, <1>2, <1>8 DEF Inv, IntervalInv, DueInv, SeenInv
<1>10. QED
  BY <1>5, <1>7, <1>9 DEF Inv

LEMMA DeleteInv ==
    ASSUME Inv, NEW t \in Timers, Delete(t)
    PROVE  Inv'
<1>1. TypeOK /\ ~ scanning
  BY DEF Inv, Delete, MayLock
<1>2. UNCHANGED <<scanning, iter, intervalMilli, elapsed>> /\ StartTimer(t, 0)
  BY DEF Delete, scanVars
<1>3. PICK k \in DOMAIN fQueue : fQueue[k] = t /\ fQueue' = Without(k)
  BY DEF Delete
<1>4. QueueOK(fQueue)
  BY <1>1 DEF TypeOK, QueueOK
<1>5. /\ QueueOK(fQueue')
      /\ \A i \in DOMAIN fQueue : i # k => \E j \in DOMAIN fQueue' : fQueue'[j] = fQueue[i]
  BY <1>3, <1>4, Removed
<1>6. TypeOK'
  BY <1>1, <1>2, <1>5, StartTimerFacts DEF TypeOK, QueueOK
<1>7. \A u \in Timers : InQueue(u) /\ u # t => InQueue(u)'
  BY <1>3, <1>5 DEF InQueue
<1>8. QueueInv'
  BY <1>1, <1>2, <1>7, StartTimerFacts DEF Inv, QueueInv
<1>9. ASSUME NEW u \in Timers
      PROVE  /\ Unnoticed(u)' => u # t /\ Unnoticed(u)
             /\ seen'[u] => u # t /\ seen[u]
             /\ u # t => fTimeoutAtThisTime'[u] = fTimeoutAtThisTime[u]
  BY <1>1, <1>2, StartTimerFacts DEF Unnoticed, Expired
<1>10. IntervalInv' /\ DueInv' /\ SeenInv'
  BY <1>1, <1>2, <1>9 DEF Inv, IntervalInv, DueInv, SeenInv
<1>11. QED
  BY <1>6, <1>8, <1>10 DEF Inv

(* RefreshTimeout moves a timer further away, or to now.                   *)
LEMMA RefreshInv ==
    ASSUME Inv, NEW t \in Timers, RefreshTimeout(t)
    PROVE  Inv'
<1>1. TypeOK /\ fTimeoutInMilSecs[t] \in Nat /\ InQueue(t)
  BY DEF Inv, TypeOK, RefreshTimeout
<1>2. UNCHANGED <<fTimeoutInMilSecs, fQueue, scanning, iter, intervalMilli, elapsed, seen>>
  BY DEF RefreshTimeout, scanVars
<1>3. TypeOK'
  BY <1>1, <1>2 DEF TypeOK, RefreshTimeout
<1>4. /\ fTimeoutAtThisTime'[t] = fTimeoutInMilSecs[t]
      /\ \A u \in Timers : u # t => /\ fTimeoutAtThisTime'[u] = fTimeoutAtThisTime[u]
                                    /\ (armed'[u] <=> armed[u]) /\ (timedOut'[u] <=> timedOut[u])
  BY <1>1 DEF TypeOK, RefreshTimeout
<1>5. \A u \in Timers : /\ fTimeoutAtThisTime[u] <= fTimeoutAtThisTime'[u]
                        /\ fTimeoutAtThisTime'[u] <= fTimeoutInMilSecs'[u]
                        /\ fTimeoutAtThisTime[u] \in Int /\ fTimeoutAtThisTime'[u] \in Int
  <2>1. SUFFICES ASSUME NEW u \in Timers
                 PROVE  /\ fTimeoutAtThisTime[u] <= fTimeoutAtThisTime'[u]
                        /\ fTimeoutAtThisTime'[u] <= fTimeoutInMilSecs'[u]
                        /\ fTimeoutAtThisTime[u] \in Int /\ fTimeoutAtThisTime'[u] \in Int
    OBVIOUS
  <2>2. /\ fTimeoutAtThisTime[u] <= fTimeoutInMilSecs[u]
        /\ fTimeoutAtThisTime[u] \in Int /\ fTimeoutInMilSecs[u] \in Nat
    BY <1>1 DEF Inv, QueueInv, TypeOK
  <2>3. fTimeoutInMilSecs'[u] = fTimeoutInMilSecs[u]
    BY <1>2
  <2>4. CASE u = t
    BY <2>2, <2>3, <2>4, <1>4
  <2>5. CASE u # t
    BY <2>2, <2>3, <2>5, <1>4
  <2>6. QED
    BY <2>4, <2>5
<1>6. QueueInv'
  BY <1>1, <1>2, <1>4, <1>5 DEF Inv, QueueInv, InQueue
<1>7. IntervalInv'
  BY <1>2 DEF Inv, IntervalInv
<1>8. \A u \in Timers : Unnoticed(u)' => \/ Unnoticed(u) /\ fTimeoutAtThisTime'[u] = fTimeoutAtThisTime[u]
                                         \/ fTimeoutAtThisTime'[u] = 0
  BY <1>1, <1>4 DEF Unnoticed, Expired
<1>9. scanning => \A i \in 1 .. iter - 1 : fQueue[i] \in Timers
  BY <1>1 DEF TypeOK
<1>10. elapsed \in Nat /\ intervalMilli \in Nat /\ iter \in Nat
  BY <1>1 DEF TypeOK
<1>11. DueInv'
  BY <1>2, <1>8, <1>9, <1>10 DEF Inv, DueInv
<1>12. SeenInv'
  <2>1. LatestForSeen \in Nat /\ Climb(MaxTimers - 1) \in Nat /\ Slack \in Nat
    BY Bounds, TimesAssumption
  <2>2. scanning => \A i \in 1 .. iter - 1 : Climb(iter - 1 - i) \in Nat
    <3>1. SUFFICES ASSUME scanning, NEW i \in 1 .. iter - 1 PROVE iter - 1 - i \in Nat
      BY ClimbFacts
    <3>2. QED
      BY <1>10
  <2>3. SeenInv
    BY DEF Inv
  <2>4. ~ scanning => \A u \in Timers : seen[u] =>
          intervalMilli - elapsed <= fTimeoutAtThisTime'[u] + Slack + Climb(MaxTimers - 1)
    BY <1>5, <1>10, <2>1, <2>3 DEF SeenInv
  <2>5. scanning => \A u \in Timers : seen[u] => - fTimeoutAtThisTime'[u] <= LatestForSeen
    BY <1>5, <2>1, <2>3 DEF SeenInv
  <2>6. scanning => \A i \in 1 .. iter - 1 : seen[fQueue[i]] =>
          intervalMilli <= fTimeoutAtThisTime'[fQueue[i]] + Slack + Climb(iter - 1 - i)
    BY <1>5, <1>9, <1>10, <2>1, <2>2, <2>3 DEF SeenInv
  <2>7. QED
    BY <1>2, <2>4, <2>5, <2>6 DEF SeenInv
<1>13. QED
  BY <1>3, <1>6, <1>7, <1>11, <1>12 DEF Inv
-----------------------------------------------------------------------------
(* The scan                                                                *)

LEMMA StartRunInv == Inv /\ StartRun => Inv'
<1> SUFFICES ASSUME Inv, StartRun PROVE Inv'
  OBVIOUS
<1>1. /\ ~ scanning /\ scanning' /\ scanning' \in BOOLEAN /\ iter' = 1 /\ intervalMilli' = Interval
      /\ UNCHANGED <<fTimeoutInMilSecs, armed, fTimeoutAtThisTime, fQueue, elapsed, timedOut, seen>>
      /\ elapsed >= intervalMilli
  BY DEF StartRun, timerVars, historyVars
<1>2. TypeOK
  BY DEF Inv
<1>3. TypeOK'
  <2>1. 1 \in 1 .. Len(fQueue) + 1
    BY <1>2 DEF TypeOK
  <2>2. QED
    BY <1>1, <1>2, <2>1, TimesAssumption DEF TypeOK
<1>4. QueueInv'
  BY <1>1 DEF Inv, QueueInv, InQueue
<1>5. IntervalInv'
  BY <1>1, ClimbFacts, TimesAssumption DEF Inv, IntervalInv
<1>6. 1 .. iter' - 1 = {}
  BY <1>1
<1>7. DueInv'
  BY <1>1, <1>6 DEF Inv, DueInv, Unnoticed, Expired
<1>8. ASSUME NEW t \in Timers, seen[t] PROVE - fTimeoutAtThisTime[t] <= LatestForSeen
  <2>1. intervalMilli - elapsed <= fTimeoutAtThisTime[t] + Slack + Climb(MaxTimers - 1)
    BY <1>1, <1>8 DEF Inv, SeenInv
  <2>2. elapsed <= intervalMilli + MaxLate
    BY <1>1 DEF Inv, IntervalInv
  <2>3. /\ fTimeoutAtThisTime[t] \in Int /\ elapsed \in Nat /\ intervalMilli \in Nat
        /\ Climb(MaxTimers - 1) \in Nat
    BY <1>2, Bounds DEF TypeOK
  <2>4. QED
    BY <2>1, <2>2, <2>3, TimesAssumption DEF LatestForSeen
<1>9. SeenInv'
  BY <1>1, <1>6, <1>8 DEF SeenInv
<1>10. QED
  BY <1>3, <1>4, <1>5, <1>7, <1>9 DEF Inv

LEMMA ScanTimerInv == Inv /\ ScanTimer => Inv'
<1> SUFFICES ASSUME Inv, ScanTimer PROVE Inv'
  OBVIOUS
<1>1. TypeOK /\ scanning /\ iter <= Len(fQueue)
  BY DEF Inv, ScanTimer
<1>2. PICK N \in Nat : N = Len(fQueue) /\ DOMAIN fQueue = 1 .. N
  BY <1>1 DEF TypeOK
<1>3. PICK p \in 1 .. N : p = iter
  BY <1>1, <1>2 DEF TypeOK
<1>4. PICK t \in Timers : t = fQueue[p]
  BY <1>1, <1>2 DEF TypeOK
<1>5. /\ timedOut' = [timedOut EXCEPT ![t] = @ \/ Expired(t)]
      /\ seen' = [seen EXCEPT ![t] = Pending(t)]
      /\ intervalMilli' = IF Pending(t) /\ IsSooner(t)
                          THEN fTimeoutAtThisTime[t] + Slack ELSE intervalMilli
      /\ iter' = p + 1
      /\ UNCHANGED <<fTimeoutInMilSecs, armed, fTimeoutAtThisTime, fQueue, scanning, elapsed>>
  BY <1>3, <1>4 DEF ScanTimer, timerVars
<1>6. /\ Expired(t) \in BOOLEAN /\ Pending(t) \in BOOLEAN /\ fTimeoutAtThisTime[t] \in Int
      /\ intervalMilli \in Nat /\ elapsed \in Nat /\ Slack \in Nat /\ armed \in [Timers -> BOOLEAN]
      /\ timedOut \in [Timers -> BOOLEAN] /\ seen \in [Timers -> BOOLEAN]
  <2>1. Expired(t) \in BOOLEAN /\ Pending(t) \in BOOLEAN
    BY DEF Expired, Pending
  <2>2. QED
    BY <1>1, <2>1, TimesAssumption DEF TypeOK
<1>7. /\ timedOut' \in [Timers -> BOOLEAN] /\ seen' \in [Timers -> BOOLEAN]
      /\ timedOut'[t] <=> timedOut[t] \/ Expired(t)
      /\ seen'[t] <=> Pending(t)
      /\ \A u \in Timers : u # t => (timedOut'[u] <=> timedOut[u]) /\ (seen'[u] <=> seen[u])
  BY <1>5, <1>6, Zenon
<1>8. /\ intervalMilli' \in Nat
      /\ intervalMilli' <= intervalMilli + Slack - 1
      /\ Pending(t) => intervalMilli' <= fTimeoutAtThisTime[t] + Slack
  BY <1>5, <1>6, TimesAssumption DEF Pending, IsSooner
<1>9. TypeOK'
  <2>1. p + 1 \in 1 .. Len(fQueue) + 1 /\ iter' \in Nat
    BY <1>2, <1>3, <1>5
  <2>2. QED
    BY <1>1, <1>5, <1>7, <1>8, <2>1 DEF TypeOK
<1>10. InQueue(t)
  BY <1>2, <1>3, <1>4 DEF InQueue
<1>11. QueueInv'
  BY <1>5, <1>7, <1>10 DEF Inv, QueueInv, InQueue
<1>12. IntervalInv'
  <2>1. intervalMilli <= Interval + Climb(p - 1) /\ elapsed <= LongestInterval + MaxLate
    BY <1>1, <1>3 DEF Inv, IntervalInv
  <2>2. Climb(p) = Climb(p - 1) + Slack - 1 /\ Climb(p - 1) \in Nat
    <3>1. p - 1 \in Nat /\ (p - 1) + 1 = p
      BY <1>2
    <3>2. QED
      BY <3>1, ClimbFacts
  <2>3. intervalMilli' <= Interval + Climb(p)
    BY <2>1, <2>2, <1>6, <1>8, TimesAssumption
  <2>4. iter' - 1 = p
    BY <1>2, <1>5
  <2>5. QED
    BY <2>1, <2>3, <2>4, <1>1, <1>5 DEF IntervalInv
<1>13. ASSUME NEW u \in Timers, Unnoticed(u)' PROVE Unnoticed(u) /\ u # t
  BY <1>5, <1>7, <1>13 DEF Unnoticed, Expired
<1>14. \A i \in 1 .. p : fQueue[i] \in Timers /\ (i # p => i \in 1 .. p - 1)
  BY <1>1, <1>2 DEF TypeOK
<1>15. \A i \in 1 .. p - 1 : fQueue[i] # t
  <2>1. \A i \in 1 .. p - 1 : i \in 1 .. N /\ i # p
    BY <1>2
  <2>2. QED
    BY <2>1, <1>1, <1>2, <1>4 DEF TypeOK
<1>16. iter' - 1 = p /\ iter - 1 = p - 1
  BY <1>2, <1>3, <1>5
<1>17. DueInv'
  <2>1. \A u \in Timers : Unnoticed(u)' => - fTimeoutAtThisTime'[u] <= elapsed'
    BY <1>5, <1>13 DEF Inv, DueInv
  <2>2. \A i \in 1 .. p : Unnoticed(fQueue[i])' => fTimeoutAtThisTime'[fQueue[i]] = 0
    <3>1. SUFFICES ASSUME NEW i \in 1 .. p, Unnoticed(fQueue[i])'
                   PROVE  fTimeoutAtThisTime'[fQueue[i]] = 0
      OBVIOUS
    <3>2. PICK u \in Timers : u = fQueue[i]
      BY <1>14
    <3>3. Unnoticed(u)'
      BY <3>1, <3>2, <1>5 DEF Unnoticed, Expired
    <3>4. Unnoticed(u) /\ i \in 1 .. p - 1
      BY <3>2, <3>3, <1>4, <1>13, <1>14
    <3>5. QED
      BY <3>2, <3>4, <1>1, <1>5, <1>16 DEF Inv, DueInv
  <2>3. QED
    BY <2>1, <2>2, <1>5, <1>16 DEF DueInv, Unnoticed, Expired
<1>18. SeenInv'
  <2>1. ASSUME NEW u \in Timers, seen'[u] PROVE - fTimeoutAtThisTime[u] <= LatestForSeen
    <3>1. CASE u = t
      <4>1. fTimeoutAtThisTime[t] > 0
        BY <2>1, <3>1, <1>7 DEF Pending
      <4>2. QED
        BY <4>1, <3>1, <1>6, Bounds
    <3>2. CASE u # t
      BY <2>1, <3>2, <1>1, <1>7 DEF Inv, SeenInv
    <3>3. QED
      BY <3>1, <3>2
  <2>2. ASSUME NEW i \in 1 .. p, seen'[fQueue[i]]
        PROVE  intervalMilli' <= fTimeoutAtThisTime[fQueue[i]] + Slack + Climb(p - i)
    <3>1. CASE i = p
      <4>1. Climb(p - i) = 0
        BY <3>1, <1>2, ClimbFacts
      <4>2. Pending(t)
        BY <2>2, <3>1, <1>4, <1>7
      <4>3. QED
        BY <4>1, <4>2, <3>1, <1>4, <1>6, <1>8
    <3>2. CASE i # p
      <4>1. i \in 1 .. p - 1 /\ fQueue[i] # t /\ fQueue[i] \in Timers
        BY <3>2, <1>14, <1>15
      <4>2. intervalMilli <= fTimeoutAtThisTime[fQueue[i]] + Slack + Climb(p - 1 - i)
        BY <4>1, <2>2, <1>1, <1>7, <1>16 DEF Inv, SeenInv
      <4>3. Climb(p - i) = Climb(p - 1 - i) + Slack - 1 /\ Climb(p - 1 - i) \in Nat
        <5>1. p - 1 - i \in Nat /\ (p - 1 - i) + 1 = p - i
          BY <4>1, <1>2
        <5>2. QED
          BY <5>1, ClimbFacts
      <4>4. fTimeoutAtThisTime[fQueue[i]] \in Int
        BY <4>1, <1>1 DEF TypeOK
      <4>5. QED
        BY <4>2, <4>3, <4>4, <1>6, <1>8
    <3>3. QED
      BY <3>1, <3>2
  <2>3. QED
    BY <2>1, <2>2, <1>1, <1>5, <1>16 DEF SeenInv
<1>19. QED
  BY <1>9, <1>11, <1>12, <1>17, <1>18 DEF Inv
LEMMA EndRunInv == Inv /\ EndRun => Inv'
<1> SUFFICES ASSUME Inv, EndRun PROVE Inv'
  OBVIOUS
<1>1. /\ scanning /\ iter > Len(fQueue) /\ ~ scanning' /\ scanning' \in BOOLEAN
      /\ iter' = 0 /\ elapsed' = 0
      /\ UNCHANGED <<fTimeoutInMilSecs, armed, fTimeoutAtThisTime, fQueue, intervalMilli, timedOut, seen>>
  BY DEF EndRun, timerVars, historyVars
<1>2. TypeOK
  BY DEF Inv
<1>3. PICK N \in Nat : N = Len(fQueue) /\ DOMAIN fQueue = 1 .. N /\ iter = N + 1 /\ N <= MaxTimers
  BY <1>1, <1>2 DEF TypeOK
<1>4. TypeOK'
  BY <1>1, <1>2 DEF TypeOK
<1>5. QueueInv'
  BY <1>1 DEF Inv, QueueInv, InQueue
<1>6. intervalMilli \in Nat /\ iter - 1 = N /\ MaxTimers \in Nat /\ Slack \in Nat
  BY <1>2, <1>3, QueueAssumption, TimesAssumption DEF TypeOK
<1>7. IntervalInv'
  <2>1. intervalMilli <= Interval + Climb(N)
    BY <1>1, <1>6 DEF Inv, IntervalInv
  <2>2. Climb(N) <= Climb(MaxTimers) /\ Climb(N) \in Nat /\ Climb(MaxTimers) \in Nat
    BY <1>3, <1>6, ClimbFacts
  <2>3. intervalMilli <= Interval + Climb(MaxTimers)
    BY <2>1, <2>2, <1>6, TimesAssumption
  <2>4. 0 <= LongestInterval + MaxLate /\ 0 <= intervalMilli + MaxLate
    BY Bounds, <1>6, TimesAssumption
  <2>5. QED
    BY <1>1, <2>3, <2>4 DEF IntervalInv
<1>8. ASSUME NEW t \in Timers, armed[t] \/ seen[t]
      PROVE  \E i \in 1 .. iter - 1 : fQueue[i] = t
  BY <1>3, <1>6, <1>8 DEF Inv, QueueInv, InQueue
<1>9. DueInv'
  <2>1. SUFFICES ASSUME NEW t \in Timers, Unnoticed(t) PROVE - fTimeoutAtThisTime[t] <= 0
    BY <1>1 DEF DueInv, Unnoticed, Expired
  <2>2. PICK i \in 1 .. iter - 1 : fQueue[i] = t
    BY <2>1, <1>8 DEF Unnoticed, Expired
  <2>3. fTimeoutAtThisTime[t] = 0
    BY <2>1, <2>2, <1>1 DEF Inv, DueInv
  <2>4. QED
    BY <2>3
<1>10. SeenInv'
  <2>1. SUFFICES ASSUME NEW t \in Timers, seen[t]
                 PROVE  intervalMilli - 0 <= fTimeoutAtThisTime[t] + Slack + Climb(MaxTimers - 1)
    BY <1>1 DEF SeenInv
  <2>2. PICK i \in 1 .. N : fQueue[i] = t
    BY <2>1, <1>6, <1>8
  <2>3. intervalMilli <= fTimeoutAtThisTime[t] + Slack + Climb(N - i)
    BY <2>1, <2>2, <1>1, <1>6 DEF Inv, SeenInv
  <2>4. /\ N - i \in Nat /\ MaxTimers - 1 \in Nat /\ N - i <= MaxTimers - 1
    BY <2>2, <1>3, <1>6
  <2>5. Climb(N - i) <= Climb(MaxTimers - 1) /\ Climb(N - i) \in Nat /\ Climb(MaxTimers - 1) \in Nat
    BY <2>4, ClimbFacts
  <2>6. fTimeoutAtThisTime[t] \in Int
    BY <1>2 DEF TypeOK
  <2>7. QED
    BY <2>3, <2>5, <2>6, <1>6
<1>11. QED
  BY <1>4, <1>5, <1>7, <1>9, <1>10 DEF Inv

LEMMA TickInv == Inv /\ Tick => Inv'
<1> SUFFICES ASSUME Inv, Tick PROVE Inv'
  OBVIOUS
<1>1. /\ ~ scanning /\ elapsed < intervalMilli + MaxLate /\ elapsed' = elapsed + 1
      /\ UNCHANGED <<fTimeoutInMilSecs, armed, fQueue, scanning, iter, intervalMilli, timedOut, seen>>
      /\ fTimeoutAtThisTime' =
            [t \in Timers |-> IF armed[t] /\ ~ timedOut[t]
                              THEN fTimeoutAtThisTime[t] - 1 ELSE fTimeoutAtThisTime[t]]
  BY DEF Tick, historyVars
<1>2. TypeOK
  BY DEF Inv
<1>3. /\ elapsed \in Nat /\ intervalMilli \in Nat /\ MaxLate \in Nat
      /\ \A t \in Timers : fTimeoutAtThisTime[t] \in Int /\ fTimeoutInMilSecs[t] \in Nat
  BY <1>2, TimesAssumption DEF TypeOK
<1>4. \A t \in Timers :
         /\ fTimeoutAtThisTime'[t] \in Int
         /\ fTimeoutAtThisTime'[t] <= fTimeoutAtThisTime[t]
         /\ fTimeoutAtThisTime[t] - 1 <= fTimeoutAtThisTime'[t]
  BY <1>1, <1>3
<1>5. TypeOK'
  <2>1. fTimeoutAtThisTime' \in [Timers -> Int] /\ elapsed' \in Nat
    BY <1>1, <1>3
  <2>2. QED
    BY <1>1, <1>2, <2>1 DEF TypeOK
<1>6. QueueInv'
  BY <1>1, <1>3, <1>4 DEF Inv, QueueInv, InQueue
<1>7. IntervalInv'
  <2>1. intervalMilli <= Interval + Climb(MaxTimers)
    BY <1>1 DEF Inv, IntervalInv
  <2>2. elapsed + 1 <= intervalMilli + MaxLate
    BY <1>1, <1>3
  <2>3. elapsed + 1 <= LongestInterval + MaxLate
    BY <2>1, <2>2, <1>3, Bounds, TimesAssumption DEF LongestInterval
  <2>4. QED
    BY <1>1, <2>1, <2>2, <2>3 DEF IntervalInv
<1>8. DueInv'
  <2>1. SUFFICES ASSUME NEW t \in Timers, Unnoticed(t)'
                 PROVE  - fTimeoutAtThisTime'[t] <= elapsed + 1
    BY <1>1 DEF DueInv
  <2>2. CASE fTimeoutAtThisTime[t] <= 0
    <3>1. - fTimeoutAtThisTime[t] <= elapsed
      BY <2>1, <2>2, <1>1 DEF Inv, DueInv, Unnoticed, Expired
    <3>2. QED
      BY <3>1, <1>3, <1>4
  <2>3. CASE fTimeoutAtThisTime[t] > 0
    BY <2>3, <1>3, <1>4
  <2>4. QED
    BY <2>2, <2>3, <1>3
<1>9. SeenInv'
  <2>1. SUFFICES ASSUME NEW t \in Timers, seen[t]
                 PROVE  intervalMilli - (elapsed + 1)
                          <= fTimeoutAtThisTime'[t] + Slack + Climb(MaxTimers - 1)
    BY <1>1 DEF SeenInv
  <2>2. intervalMilli - elapsed <= fTimeoutAtThisTime[t] + Slack + Climb(MaxTimers - 1)
    BY <2>1, <1>1 DEF Inv, SeenInv
  <2>3. QED
    BY <2>2, <1>3, <1>4, Bounds, TimesAssumption
<1>10. QED
  BY <1>5, <1>6, <1>7, <1>8, <1>9 DEF Inv

LEMMA StutterInv == Inv /\ UNCHANGED vars => Inv'
<1> SUFFICES ASSUME Inv, UNCHANGED vars PROVE Inv'
  OBVIOUS
<1> USE DEF vars, timerVars, scanVars, historyVars
<1>1. TypeOK'
  BY DEF Inv, TypeOK
<1>2. QueueInv' /\ IntervalInv'
  BY DEF Inv, QueueInv, IntervalInv, InQueue
<1>3. DueInv' /\ SeenInv'
  BY DEF Inv, DueInv, SeenInv, Unnoticed, Expired
<1>4. QED
  BY <1>1, <1>2, <1>3 DEF Inv

-----------------------------------------------------------------------------
(* The invariant holds of every run.                                       *)
THEOREM Inductive == Spec => []Inv
<1>1. Inv /\ [Next]_vars => Inv'
  <2>1. SUFFICES ASSUME Inv, Next PROVE Inv'
    BY StutterInv
  <2>2. CASE \E t \in Timers, n \in Timeouts : Create(t, n) \/ SetTimeout(t, n)
    BY <2>1, <2>2, CreateInv, SetTimeoutInv
  <2>3. CASE \E t \in Timers : Delete(t) \/ RefreshTimeout(t)
    BY <2>1, <2>3, DeleteInv, RefreshInv
  <2>4. CASE StartRun \/ ScanTimer \/ EndRun \/ Tick
    BY <2>1, <2>4, StartRunInv, ScanTimerInv, EndRunInv, TickInv
  <2>5. QED
    BY <2>1, <2>2, <2>3, <2>4 DEF Next
<1>2. QED
  BY <1>1, InitInv, PTL DEF Spec

(* A scan never leaves the queue, in which no timer is twice, for any      *)
(* number of timers and any times.                                         *)
THEOREM TimeoutTypeCorrect == Spec => []TypeOK
<1>1. Inv => TypeOK
  BY DEF Inv
<1>2. QED
  BY <1>1, Inductive, PTL

(* No timer that has run out waits for its event longer than the longest   *)
(* interval of TimeoutTaskThread::Run.                                     *)
THEOREM OverdueIsBounded == Spec => []OverdueBounded
<1>1. Inv => OverdueBounded
  <2>1. SUFFICES ASSUME Inv, NEW t \in Timers, Expired(t), ~ timedOut[t]
                 PROVE  - fTimeoutAtThisTime[t] <= LongestInterval + MaxLate
    BY DEF OverdueBounded
  <2>2. - fTimeoutAtThisTime[t] <= elapsed /\ elapsed <= LongestInterval + MaxLate
    BY <2>1 DEF Inv, DueInv, Unnoticed, IntervalInv
  <2>3. fTimeoutAtThisTime[t] \in Int /\ elapsed \in Nat
    BY <2>1 DEF Inv, TypeOK
  <2>4. QED
    BY <2>2, <2>3, Bounds, TimesAssumption
<1>2. QED
  BY <1>1, Inductive, PTL

(* A timer that a scan found pending is signalled at most one slack, and   *)
(* less than a slack for every other timer, after it runs out.             *)
THEOREM SeenArePunctual == Spec => []PunctualTimers
<1>1. Inv => PunctualTimers
  <2>1. SUFFICES ASSUME Inv, NEW t \in Timers, seen[t]
                 PROVE  - fTimeoutAtThisTime[t] <= LatestForSeen
    BY DEF PunctualTimers
  <2>2. CASE scanning
    BY <2>1, <2>2 DEF Inv, SeenInv
  <2>3. CASE ~ scanning
    <3>1. /\ intervalMilli - elapsed <= fTimeoutAtThisTime[t] + Slack + Climb(MaxTimers - 1)
          /\ elapsed <= intervalMilli + MaxLate
      BY <2>1, <2>3 DEF Inv, SeenInv, IntervalInv
    <3>2. fTimeoutAtThisTime[t] \in Int /\ elapsed \in Nat /\ intervalMilli \in Nat
      BY <2>1 DEF Inv, TypeOK
    <3>3. QED
      BY <3>1, <3>2, Bounds, TimesAssumption DEF LatestForSeen
  <2>4. QED
    BY <2>2, <2>3
<1>2. QED
  BY <1>1, Inductive, PTL
=============================================================================
