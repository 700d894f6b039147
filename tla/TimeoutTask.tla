---------------------------- MODULE TimeoutTask ----------------------------
(***************************************************************************)
(* TimeoutTask.cpp: a task, run about once a minute, goes through a queue  *)
(* of timers and sends kTimeoutEvent to the tasks of those that ran out.   *)
(*                                                                         *)
(* fMutex is held for a whole scan; SetTimeout and RefreshTimeout do not   *)
(* take it.  fTimeoutAtThisTime is counted relative to now.  A scan takes  *)
(* no time: the code reads the clock once, at its start.                   *)
(***************************************************************************)
EXTENDS Integers, Sequences

CONSTANTS
    Timers,         \* TimeoutTask objects
    MaxTimers,      \* bound: number of timers in the queue
    MaxTimeout,     \* bound: largest timeout asked for
    MaxLate,        \* bound: how late Run may be called
    Interval,       \* kIntervalSeconds
    Slack           \* the second added to the time of a timer

ASSUME TimesAssumption ==
    /\ MaxTimeout \in Nat \ {0} /\ MaxLate \in Nat
    /\ Interval \in Nat \ {0} /\ Slack \in Nat \ {0}
ASSUME QueueAssumption == MaxTimers \in Nat \ {0}

VARIABLES
    \* of a TimeoutTask: 0 <= timeout; fTimeoutAtThisTime # 0; its value
    fTimeoutInMilSecs, armed, fTimeoutAtThisTime,
    \* the queue, oldest first; a scan is on; its position; the result of
    \* the last or of this scan; time since the last scan
    fQueue, scanning, iter, intervalMilli, elapsed,
    \* history: kTimeoutEvent was sent since the timer was last set; the
    \* last scan found the timer pending
    timedOut, seen

timerVars == <<fTimeoutInMilSecs, armed, fTimeoutAtThisTime>>
scanVars == <<scanning, iter, intervalMilli, elapsed>>
historyVars == <<timedOut, seen>>
vars == <<timerVars, fQueue, scanVars, historyVars>>

Timeouts == 0 .. MaxTimeout

(* Initialize sends kStartEvent: the first Run comes at once.              *)
Init ==
    /\ fTimeoutInMilSecs = [t \in Timers |-> 0]
    /\ armed = [t \in Timers |-> FALSE]
    /\ fTimeoutAtThisTime = [t \in Timers |-> 0]
    /\ fQueue = <<>>
    /\ scanning = FALSE /\ iter = 0 /\ intervalMilli = 0 /\ elapsed = 0
    /\ timedOut = [t \in Timers |-> FALSE]
    /\ seen = [t \in Timers |-> FALSE]

InQueue(t) == \E i \in DOMAIN fQueue : fQueue[i] = t

-----------------------------------------------------------------------------
(* The timers                                                              *)

(* Zero disarms the timer.                                                 *)
StartTimer(t, n) ==
    /\ fTimeoutInMilSecs' = [fTimeoutInMilSecs EXCEPT ![t] = n]
    /\ armed' = [armed EXCEPT ![t] = n # 0]
    /\ fTimeoutAtThisTime' = [fTimeoutAtThisTime EXCEPT ![t] = n]
    /\ timedOut' = [timedOut EXCEPT ![t] = FALSE]
    /\ seen' = [seen EXCEPT ![t] = FALSE]

(* The constructor and the destructor wait for fMutex.                     *)
MayLock_Always == TRUE   \* slip: no locker
MayLock == ~ scanning

Create(t, n) ==
    /\ ~ InQueue(t)
    /\ MayLock
    /\ Len(fQueue) < MaxTimers
    /\ StartTimer(t, n)
    /\ fQueue' = Append(fQueue, t)
    /\ UNCHANGED scanVars

Without(i) == [j \in 1 .. Len(fQueue) - 1 |-> fQueue[IF j < i THEN j ELSE j + 1]]

Delete(t) ==
    /\ MayLock
    /\ \E i \in DOMAIN fQueue : fQueue[i] = t /\ fQueue' = Without(i)
    /\ StartTimer(t, 0)
    /\ UNCHANGED scanVars

SetTimeout(t, n) ==
    /\ InQueue(t)
    /\ StartTimer(t, n)
    /\ UNCHANGED <<fQueue, scanVars>>

(* Now plus the timeout, whatever the timeout is.                          *)
RefreshTimeout(t) ==
    /\ InQueue(t)
    /\ armed' = [armed EXCEPT ![t] = TRUE]
    /\ fTimeoutAtThisTime' = [fTimeoutAtThisTime EXCEPT ![t] = fTimeoutInMilSecs[t]]
    /\ timedOut' = [timedOut EXCEPT ![t] = FALSE]
    /\ UNCHANGED <<fTimeoutInMilSecs, fQueue, scanVars, seen>>

-----------------------------------------------------------------------------
(* TimeoutTaskThread::Run                                                  *)

StartRun ==
    /\ ~ scanning
    /\ elapsed >= intervalMilli
    /\ scanning' = TRUE
    /\ iter' = 1
    /\ intervalMilli' = Interval
    /\ UNCHANGED <<timerVars, fQueue, elapsed, historyVars>>

Expired(t) == armed[t] /\ fTimeoutAtThisTime[t] <= 0

Pending(t) == armed[t] /\ fTimeoutAtThisTime[t] > 0 /\ fTimeoutInMilSecs[t] > 0

(* Make the interval shorter for a timer that runs out within it.          *)
IsSooner_Always(t) == TRUE   \* slip: the last timer decides
IsSooner(t) == intervalMilli > fTimeoutAtThisTime[t]

ScanTimer ==
    /\ scanning
    /\ iter <= Len(fQueue)
    /\ LET t == fQueue[iter]
       IN  /\ timedOut' = [timedOut EXCEPT ![t] = @ \/ Expired(t)]
           /\ seen' = [seen EXCEPT ![t] = Pending(t)]
           /\ intervalMilli' = IF Pending(t) /\ IsSooner(t)
                               THEN fTimeoutAtThisTime[t] + Slack
                               ELSE intervalMilli
    /\ iter' = iter + 1
    /\ UNCHANGED <<timerVars, fQueue, scanning, elapsed>>

(* Return the interval, after which the task scheduler calls Run again.    *)
EndRun ==
    /\ scanning
    /\ iter > Len(fQueue)
    /\ scanning' = FALSE
    /\ iter' = 0
    /\ elapsed' = 0
    /\ UNCHANGED <<timerVars, fQueue, intervalMilli, historyVars>>

(* Time passes.  How long ago a timer ran out that was signalled does not  *)
(* matter.                                                                 *)
Tick ==
    /\ ~ scanning
    /\ elapsed < intervalMilli + MaxLate
    /\ elapsed' = elapsed + 1
    /\ fTimeoutAtThisTime' =
          [t \in Timers |-> IF armed[t] /\ ~ timedOut[t]
                            THEN fTimeoutAtThisTime[t] - 1 ELSE fTimeoutAtThisTime[t]]
    /\ UNCHANGED <<fTimeoutInMilSecs, armed, fQueue, scanning, iter,
                   intervalMilli, historyVars>>

Next ==
    \/ \E t \in Timers :
          \/ \E n \in Timeouts : Create(t, n) \/ SetTimeout(t, n)
          \/ Delete(t) \/ RefreshTimeout(t)
    \/ StartRun \/ ScanTimer \/ EndRun \/ Tick

Spec == Init /\ [][Next]_vars

-----------------------------------------------------------------------------
(* Properties                                                              *)

(* The longest interval that Run returns: every timer visited after the    *)
(* one that set it can make it longer again, by less than the slack.       *)
Climb(n) == n * (Slack - 1)
LongestInterval == Interval + Climb(MaxTimers)

(* How late the scan can be for a timer it knows of.                       *)
LatestForSeen == Slack + Climb(MaxTimers - 1) + MaxLate

(* Types; the position of a scan stays in the queue, which has no          *)
(* duplicates.                                                             *)
TypeOK ==
    /\ fTimeoutInMilSecs \in [Timers -> Nat]
    /\ armed \in [Timers -> BOOLEAN]
    /\ fTimeoutAtThisTime \in [Timers -> Int]
    /\ fQueue \in Seq(Timers) /\ Len(fQueue) <= MaxTimers
    /\ scanning \in BOOLEAN
    /\ iter \in Nat /\ intervalMilli \in Nat /\ elapsed \in Nat
    /\ scanning => iter \in 1 .. Len(fQueue) + 1
    /\ timedOut \in [Timers -> BOOLEAN] /\ seen \in [Timers -> BOOLEAN]
    /\ \A i, j \in DOMAIN fQueue : fQueue[i] = fQueue[j] => i = j

(* "Specified task will get a Task::kTimeoutEvent if this function isn't   *)
(* called within the timeout period" (TimeoutTask.h): a timer that has run *)
(* out is signalled within one longest interval, whatever was created,     *)
(* deleted or set again while a scan was on.                               *)
OverdueBounded ==
    \A t \in Timers :
        (InQueue(t) /\ Expired(t) /\ ~ timedOut[t])
            => - fTimeoutAtThisTime[t] <= LongestInterval + MaxLate

(* Run adapts its interval to the timers: one that a scan found pending is *)
(* signalled at most one slack, and a little for every other timer, late.  *)
PunctualTimers ==
    \A t \in Timers :
        (seen[t] /\ Expired(t) /\ ~ timedOut[t])
            => - fTimeoutAtThisTime[t] <= LatestForSeen
=============================================================================
