------------------------- MODULE ClientSession_proofs -------------------------
(***************************************************************************)
(* Theorems about ClientSession, for any number of sessions and of streams.*)
(***************************************************************************)
EXTENDS ClientSession, TLAPS

-----------------------------------------------------------------------------
(* Types.  fNumSetups stays in range because a SETUP is only sent while    *)
(* fewer than NumStreams were answered.                                    *)

BeforePlay == {"Options", "Describe", "Setup"}

SetupInv ==
    \A s \in Sessions :
        (fState[s] \in BeforePlay \/ (pc[s] = "state" /\ at[s] \in BeforePlay))
            => fNumSetups[s] < NumStreams

(* Nothing happens to a session before Play.                               *)
NewInv ==
    \A s \in Sessions :
        caller[s] = "new" => /\ status[s] = "idle" /\ pending[s] = {}
                             /\ fState[s] = "Describe" /\ ~ armed[s]

TypeInv == TypeOK /\ SetupInv /\ NewInv

LEMMA TypeInit == Init => TypeInv
BY NumStreamsAssumption, MaxPartsAssumption
   DEF Init, TypeInv, TypeOK, SetupInv, NewInv, BeforePlay, SessionTask!TaskInit, States, Requests, SessionEvents

LEMMA TypeNext == TypeInv /\ [Next]_vars => TypeInv'
<1> SUFFICES ASSUME TypeInv, [Next]_vars PROVE TypeInv'
    OBVIOUS
<1> USE NumStreamsAssumption, MaxPartsAssumption
        DEF Goto, Becomes, taskVars, sessionVars, clientVars, runVars, userVars, historyVars,
            SessionTask!Set, TypeInv
<1>1. CASE UNCHANGED vars
  BY <1>1 DEF vars, TypeOK, SetupInv, NewInv
<1>2. ASSUME NEW s \in Sessions, Play(s) PROVE TypeInv'
  <2>1. PICK ping \in BOOLEAN :
          /\ m_PingServerRequest' = [m_PingServerRequest EXCEPT ![s] = ping]
          /\ fState' = [fState EXCEPT ![s] = IF ping THEN "Options" ELSE fState[s]]
    BY <1>2 DEF Play
  <2>2. m_PingServerRequest' \in [Sessions -> BOOLEAN]
    BY <2>1, Zenon DEF TypeOK
  <2>3. /\ fState' \in [Sessions -> States]
        /\ \A t \in Sessions : t # s => fState'[t] = fState[t]
    BY <2>1 DEF TypeOK, States, Requests
  <2>4. /\ status' \in [Sessions -> {"idle", "scheduled", "running", "dead"}]
        /\ pending' \in [Sessions -> SUBSET (SessionEvents \cup {"kIdle"})]
        /\ \A t \in Sessions : pc'[t] # "none" <=> status'[t] = "running"
    BY <1>2 DEF Play, TypeOK, SessionTask!Post, SessionEvents
  <2> QED
    <3>1. TypeOK'
      BY <1>2, <2>2, <2>3, <2>4 DEF Play, TypeOK
    <3>2. SetupInv'
      BY <1>2, <2>3 DEF Play, SetupInv, NewInv, BeforePlay
    <3>3. NewInv'
      BY <1>2, <2>3 DEF Play, NewInv, SessionTask!Post, TypeOK
    <3> QED
      BY <3>1, <3>2, <3>3
<1>3. ASSUME NEW s \in Sessions, TearDown(s) PROVE TypeInv'
  BY <1>3 DEF TearDown, TearDownState, TypeOK, SetupInv, NewInv, BeforePlay, States, Requests
<1>4. ASSUME NEW s \in Sessions, SignalTeardown(s) PROVE TypeInv'
  BY <1>4 DEF SignalTeardown, TypeOK, SetupInv, NewInv, SessionTask!Post, SessionEvents
<1>5. ASSUME NEW s \in Sessions, ForgetDVR(s) PROVE TypeInv'
  BY <1>5 DEF ForgetDVR, TypeOK, SetupInv, NewInv
<1>6. ASSUME NEW s \in Sessions, Ready(s) PROVE TypeInv'
  BY <1>6 DEF Ready, TypeOK, SetupInv, NewInv, SessionTask!Post, SessionEvents
<1>7. ASSUME NEW s \in Sessions, Timeout(s) PROVE TypeInv'
  BY <1>7 DEF Timeout, TypeOK, SetupInv, NewInv, SessionTask!Post, SessionEvents
<1>8. ASSUME NEW s \in Sessions, Begin(s) PROVE TypeInv'
  BY <1>8 DEF Begin, TypeOK, SetupInv, NewInv, SessionTask!Begin
<1>9. ASSUME NEW s \in Sessions, Start(s) PROVE TypeInv'
  BY <1>9 DEF Start, GetEvents, TypeOK, SetupInv, NewInv, SessionTask!Collect
<1>10. ASSUME NEW s \in Sessions, TimeOut(s) PROVE TypeInv'
  BY <1>10 DEF TimeOut, GetEvents, TypeOK, SetupInv, NewInv, BeforePlay, States, SessionTask!Collect
<1>11. ASSUME NEW s \in Sessions, Kill(s) PROVE TypeInv'
  BY <1>11 DEF Kill, TypeOK, SetupInv, NewInv, SessionTask!Delete
<1>12. ASSUME NEW s \in Sessions, Enter(s) PROVE TypeInv'
  BY <1>12 DEF Enter, GetEvents, ToldToTearDown, TypeOK, SetupInv, NewInv, SessionTask!Collect
<1>13. ASSUME NEW s \in Sessions, Switch(s) PROVE TypeInv'
  BY <1>13 DEF Switch, TypeOK, SetupInv, NewInv, BeforePlay
<1>14. ASSUME NEW s \in Sessions, Wait(s) PROVE TypeInv'
  BY <1>14 DEF Wait, Transact, InProgress, WaitsForEvent, TypeOK, SetupInv, NewInv
<1>15. ASSUME NEW s \in Sessions, Answer(s) PROVE TypeInv'
  <2>1. /\ fNumSetups[s] \in 0 .. NumStreams /\ at[s] \in Requests /\ pc[s] = "state"
        /\ at[s] \in BeforePlay => fNumSetups[s] < NumStreams
    BY <1>15 DEF Answer, Transact, TypeOK, SetupInv
  <2>2. /\ NextState(s) \in States
        /\ NextState(s) \in BeforePlay =>
              fNumSetups[s] + (IF at[s] = "Setup" THEN 1 ELSE 0) < NumStreams
    BY <2>1 DEF NextState, LastSetup, TypeOK, SetupInv, BeforePlay, States, Requests
  <2>3. /\ fState' = [fState EXCEPT ![s] = NextState(s)]
        /\ fNumSetups' = [fNumSetups EXCEPT ![s] = IF at[s] = "Setup" THEN @ + 1 ELSE @]
        /\ pc' = [pc EXCEPT ![s] = "switch"] /\ at' = at
    BY <1>15 DEF Answer
  <2>4. /\ fState' \in [Sessions -> States]
        /\ fNumSetups' \in [Sessions -> 0 .. NumStreams]
    BY <2>1, <2>2, <2>3 DEF TypeOK, BeforePlay
  <2>5. TypeOK'
    BY <1>15, <2>4 DEF Answer, Transact, TypeOK
  <2>6. SetupInv'
    BY <2>1, <2>2, <2>3 DEF TypeOK, SetupInv
  <2>7. NewInv'
    BY <1>15, <2>1 DEF Answer, TypeOK, NewInv
  <2> QED
    BY <2>5, <2>6, <2>7
<1>16. ASSUME NEW s \in Sessions, Refuse(s) PROVE TypeInv'
  BY <1>16 DEF Refuse, Transact, TypeOK, SetupInv, NewInv, BeforePlay, States
<1>17. ASSUME NEW s \in Sessions, Break(s) PROVE TypeInv'
  BY <1>17 DEF Break, Transact, InProgress, TypeOK, SetupInv, NewInv, BeforePlay, States
<1>18. ASSUME NEW s \in Sessions, ReadFails(s) PROVE TypeInv'
  BY <1>18 DEF ReadFails, Read, TypeOK, SetupInv, NewInv, BeforePlay, States
<1>19. ASSUME NEW s \in Sessions, StopPlaying(s) PROVE TypeInv'
  BY <1>19 DEF StopPlaying, Read, TypeOK, SetupInv, NewInv, BeforePlay, States, Requests
<1>20. ASSUME NEW s \in Sessions, KeepPlaying(s) PROVE TypeInv'
  BY <1>20 DEF KeepPlaying, Read, TypeOK, SetupInv, NewInv
<1>21. ASSUME NEW s \in Sessions, Finish(s) PROVE TypeInv'
  BY <1>21 DEF Finish, TypeOK, SetupInv, NewInv
<1>22. ASSUME NEW s \in Sessions, Report(s) PROVE TypeInv'
  BY <1>22 DEF Report, Tells, TypeOK, SetupInv, NewInv
<1>23. ASSUME NEW s \in Sessions, SignalKill(s) PROVE TypeInv'
  BY <1>23 DEF SignalKill, TypeOK, SetupInv, NewInv, SessionTask!Post, SessionEvents
<1>24. ASSUME NEW s \in Sessions, Return(s) PROVE TypeInv'
  BY <1>24 DEF Return, TypeOK, SetupInv, NewInv, SessionTask!Again, SessionTask!Rest
<1>25. ASSUME NEW s \in Sessions, ReceiveMsg(s) PROVE TypeInv'
  BY <1>25 DEF ReceiveMsg, TypeOK, SetupInv, NewInv
<1> QED
  BY <1>1, <1>2, <1>3, <1>4, <1>5, <1>6, <1>7, <1>8, <1>9, <1>10, <1>11, <1>12, <1>13,
     <1>14, <1>15, <1>16, <1>17, <1>18, <1>19, <1>20, <1>21, <1>22, <1>23, <1>24, <1>25
     DEF Next, RunStep, TearDownStep

(* Every variable keeps its type; in particular no more SETUPs are counted *)
(* than the description has tracks.                                        *)
THEOREM SessionTypeCorrect == Spec => []TypeOK
<1>1. TypeInv /\ [Next]_vars => TypeInv'
  BY TypeNext
<1> QED
  BY TypeInit, <1>1, PTL DEF Spec, TypeInv

-----------------------------------------------------------------------------
(* What Run and TearDown owe each other.  Each invariant is the promise,   *)
(* strengthened by what holds at the steps of Run on the way to it.        *)

Remembers(s) ==
    caller[s] = "signal" \/ "kTeardown" \in pending[s] \/ fTeardownImmediately[s]

(* Until the first Run, fState itself remembers; and a state that was read *)
(* before TearDown will be overwritten only while something else remembers.*)
RememberInv ==
    \A s \in Sessions :
        /\ "kStart" \in pending[s] =>
              /\ pc[s] \in {"none", "events"}
              /\ TornDown(s) => fState[s] \in {"Teardown", "Done"}
        /\ pc[s] = "state" =>
              /\ at[s] # "Done"
              /\ TornDown(s) /\ at[s] # "Teardown" => Remembers(s)
        /\ TornDown(s) /\ status[s] # "dead" =>
              fState[s] \in {"Teardown", "Done"} \/ Remembers(s)

(* An event reaches its session, which is awake then, and no other.        *)
LEMMA PostEffect ==
    ASSUME TypeInv, NEW s \in Sessions, NEW e \in SessionEvents, SessionTask!Post(s, e)
    PROVE  /\ pending'[s] = pending[s] \cup {e} /\ status'[s] # "idle"
           /\ \A r \in Sessions : r # s => pending'[r] = pending[r] /\ status'[r] = status[r]
BY DEF SessionTask!Post, SessionTask!Set, TypeInv, TypeOK

LEMMA RememberNext == TypeInv /\ RememberInv /\ [Next]_vars => RememberInv'
<1> SUFFICES ASSUME TypeInv, RememberInv, [Next]_vars PROVE RememberInv'
    OBVIOUS
<1> USE DEF Goto, Becomes, taskVars, sessionVars, clientVars, runVars, userVars, historyVars,
            SessionTask!Set, TypeInv, TypeOK, RememberInv, Remembers, TornDown, NewInv
<1>1. CASE UNCHANGED vars
  BY <1>1 DEF vars
<1>2. ASSUME NEW s \in Sessions, Play(s) PROVE RememberInv'
  BY <1>2 DEF Play, SessionTask!Post
<1>3. ASSUME NEW s \in Sessions, TearDown(s) PROVE RememberInv'
  BY <1>3 DEF TearDown, TearDownState
<1>4. ASSUME NEW s \in Sessions, SignalTeardown(s) PROVE RememberInv'
  BY <1>4 DEF SignalTeardown, SessionTask!Post
<1>5. ASSUME NEW s \in Sessions, ForgetDVR(s) PROVE RememberInv'
  BY <1>5 DEF ForgetDVR
<1>6. ASSUME NEW s \in Sessions, Ready(s) PROVE RememberInv'
  BY <1>6 DEF Ready, SessionTask!Post
<1>7. ASSUME NEW s \in Sessions, Timeout(s) PROVE RememberInv'
  BY <1>7 DEF Timeout, SessionTask!Post
<1>8. ASSUME NEW s \in Sessions, Begin(s) PROVE RememberInv'
  BY <1>8 DEF Begin, SessionTask!Begin
<1>9. ASSUME NEW s \in Sessions, Start(s) PROVE RememberInv'
  BY <1>9 DEF Start, GetEvents, SessionTask!Collect
<1>10. ASSUME NEW s \in Sessions, TimeOut(s) PROVE RememberInv'
  BY <1>10 DEF TimeOut, GetEvents, SessionTask!Collect
<1>11. ASSUME NEW s \in Sessions, Kill(s) PROVE RememberInv'
  BY <1>11 DEF Kill, SessionTask!Delete
<1>12. ASSUME NEW s \in Sessions, Enter(s) PROVE RememberInv'
  <2>1. fTeardownImmediately'[s] <=> fTeardownImmediately[s] \/ "kTeardown" \in pending[s]
    BY <1>12, Zenon DEF Enter, ToldToTearDown
  <2>2. \A r \in Sessions : r # s =>
           /\ fTeardownImmediately'[r] = fTeardownImmediately[r]
           /\ pending'[r] = pending[r] /\ status'[r] = status[r] /\ pc'[r] = pc[r]
    BY <1>12 DEF Enter, GetEvents, SessionTask!Collect
  <2>3. pc'[s] = "switch" /\ pending'[s] = {} /\ UNCHANGED <<fState, at, caller>>
    BY <1>12 DEF Enter, GetEvents, SessionTask!Collect
  <2>4. status'[s] = "running" /\ status[s] = "running"
    BY <1>12 DEF Enter, GetEvents, SessionTask!Collect
  <2> QED
    BY <2>1, <2>2, <2>3, <2>4
<1>13. ASSUME NEW s \in Sessions, Switch(s) PROVE RememberInv'
  BY <1>13 DEF Switch
<1>14. ASSUME NEW s \in Sessions, Wait(s) PROVE RememberInv'
  BY <1>14 DEF Wait, Transact, WaitsForEvent
<1>15. ASSUME NEW s \in Sessions, Answer(s) PROVE RememberInv'
  BY <1>15 DEF Answer, Transact, NextState
<1>16. ASSUME NEW s \in Sessions, Refuse(s) PROVE RememberInv'
  BY <1>16 DEF Refuse, Transact
<1>17. ASSUME NEW s \in Sessions, Break(s) PROVE RememberInv'
  BY <1>17 DEF Break, Transact
<1>18. ASSUME NEW s \in Sessions, ReadFails(s) PROVE RememberInv'
  BY <1>18 DEF ReadFails, Read
<1>19. ASSUME NEW s \in Sessions, StopPlaying(s) PROVE RememberInv'
  BY <1>19 DEF StopPlaying, Read
<1>20. ASSUME NEW s \in Sessions, KeepPlaying(s) PROVE RememberInv'
  BY <1>20 DEF KeepPlaying, Read
<1>21. ASSUME NEW s \in Sessions, Finish(s) PROVE RememberInv'
  BY <1>21 DEF Finish
<1>22. ASSUME NEW s \in Sessions, Report(s) PROVE RememberInv'
  BY <1>22 DEF Report, Tells
<1>23. ASSUME NEW s \in Sessions, SignalKill(s) PROVE RememberInv'
  BY <1>23 DEF SignalKill, SessionTask!Post
<1>24. ASSUME NEW s \in Sessions, Return(s) PROVE RememberInv'
  BY <1>24 DEF Return, SessionTask!Again, SessionTask!Rest
<1>25. ASSUME NEW s \in Sessions, ReceiveMsg(s) PROVE RememberInv'
  BY <1>25 DEF ReceiveMsg
<1> QED
  BY <1>1, <1>2, <1>3, <1>4, <1>5, <1>6, <1>7, <1>8, <1>9, <1>10, <1>11,
     <1>12, <1>13, <1>14, <1>15, <1>16, <1>17, <1>18, <1>19, <1>20, <1>21,
     <1>22, <1>23, <1>24, <1>25
     DEF Next, RunStep, TearDownStep

(* kKillEvent is only on its way once the user was told or has let go.     *)
ToldInv ==
    \A s \in Sessions :
        /\ ~ m_DVR[s] => TornDown(s)
        /\ pc[s] = "kill" \/ "kKill" \in pending[s] \/ status[s] = "dead"
              => told[s] \/ TornDown(s)

LEMMA ToldNext == TypeInv /\ ToldInv /\ [Next]_vars => ToldInv'
<1> SUFFICES ASSUME TypeInv, ToldInv, [Next]_vars PROVE ToldInv'
    OBVIOUS
<1> USE DEF Goto, Becomes, taskVars, sessionVars, clientVars, runVars, userVars, historyVars,
            SessionTask!Set, TypeInv, TypeOK, ToldInv, TornDown, NewInv
<1>1. CASE UNCHANGED vars
  BY <1>1 DEF vars
<1>2. ASSUME NEW s \in Sessions, Play(s) PROVE ToldInv'
  BY <1>2 DEF Play, SessionTask!Post
<1>3. ASSUME NEW s \in Sessions, TearDown(s) PROVE ToldInv'
  BY <1>3 DEF TearDown, TearDownState
<1>4. ASSUME NEW s \in Sessions, SignalTeardown(s) PROVE ToldInv'
  BY <1>4 DEF SignalTeardown, SessionTask!Post
<1>5. ASSUME NEW s \in Sessions, ForgetDVR(s) PROVE ToldInv'
  BY <1>5 DEF ForgetDVR
<1>6. ASSUME NEW s \in Sessions, Ready(s) PROVE ToldInv'
  BY <1>6 DEF Ready, SessionTask!Post
<1>7. ASSUME NEW s \in Sessions, Timeout(s) PROVE ToldInv'
  BY <1>7 DEF Timeout, SessionTask!Post
<1>8. ASSUME NEW s \in Sessions, Begin(s) PROVE ToldInv'
  BY <1>8 DEF Begin, SessionTask!Begin
<1>9. ASSUME NEW s \in Sessions, Start(s) PROVE ToldInv'
  BY <1>9 DEF Start, GetEvents, SessionTask!Collect
<1>10. ASSUME NEW s \in Sessions, TimeOut(s) PROVE ToldInv'
  BY <1>10 DEF TimeOut, GetEvents, SessionTask!Collect
<1>11. ASSUME NEW s \in Sessions, Kill(s) PROVE ToldInv'
  BY <1>11 DEF Kill, SessionTask!Delete
<1>12. ASSUME NEW s \in Sessions, Enter(s) PROVE ToldInv'
  BY <1>12 DEF Enter, GetEvents, ToldToTearDown, SessionTask!Collect
<1>13. ASSUME NEW s \in Sessions, Switch(s) PROVE ToldInv'
  BY <1>13 DEF Switch
<1>14. ASSUME NEW s \in Sessions, Wait(s) PROVE ToldInv'
  BY <1>14 DEF Wait, Transact, WaitsForEvent
<1>15. ASSUME NEW s \in Sessions, Answer(s) PROVE ToldInv'
  BY <1>15 DEF Answer, Transact, NextState
<1>16. ASSUME NEW s \in Sessions, Refuse(s) PROVE ToldInv'
  BY <1>16 DEF Refuse, Transact
<1>17. ASSUME NEW s \in Sessions, Break(s) PROVE ToldInv'
  BY <1>17 DEF Break, Transact
<1>18. ASSUME NEW s \in Sessions, ReadFails(s) PROVE ToldInv'
  BY <1>18 DEF ReadFails, Read
<1>19. ASSUME NEW s \in Sessions, StopPlaying(s) PROVE ToldInv'
  BY <1>19 DEF StopPlaying, Read
<1>20. ASSUME NEW s \in Sessions, KeepPlaying(s) PROVE ToldInv'
  BY <1>20 DEF KeepPlaying, Read
<1>21. ASSUME NEW s \in Sessions, Finish(s) PROVE ToldInv'
  BY <1>21 DEF Finish
<1>22. ASSUME NEW s \in Sessions, Report(s) PROVE ToldInv'
  BY <1>22 DEF Report, Tells
<1>23. ASSUME NEW s \in Sessions, SignalKill(s) PROVE ToldInv'
  BY <1>23 DEF SignalKill, SessionTask!Post
<1>24. ASSUME NEW s \in Sessions, Return(s) PROVE ToldInv'
  BY <1>24 DEF Return, SessionTask!Again, SessionTask!Rest
<1>25. ASSUME NEW s \in Sessions, ReceiveMsg(s) PROVE ToldInv'
  <2>1. /\ told \in [Sessions -> BOOLEAN] /\ m_DVR \in [Sessions -> BOOLEAN]
        /\ pc \in [Sessions -> {"none", "events", "switch", "state", "finish", "report",
                                "tell", "kill", "return"}]
        /\ pc' = [pc EXCEPT ![s] = "kill"]
        /\ UNCHANGED <<pending, status, m_DVR, caller>>
    BY <1>25 DEF ReceiveMsg
  <2>2. PICK owner \in {TRUE, m_DVR[s]} : told' = [told EXCEPT ![s] = told[s] \/ owner]
    BY <1>25, Zenon DEF ReceiveMsg
  <2>3. told'[s] = (told[s] \/ owner)
    BY <2>1, <2>2, Zenon
  <2>4. \A t \in Sessions : t # s => told'[t] = told[t]
    BY <2>1, <2>2, Zenon
  <2>5. told'[s] \/ TornDown(s)
    BY <2>2, <2>3, Zenon DEF ToldInv
  <2> QED
    BY <2>1, <2>4, <2>5
<1> QED
  BY <1>1, <1>2, <1>3, <1>4, <1>5, <1>6, <1>7, <1>8, <1>9, <1>10, <1>11,
     <1>12, <1>13, <1>14, <1>15, <1>16, <1>17, <1>18, <1>19, <1>20, <1>21,
     <1>22, <1>23, <1>24, <1>25
     DEF Next, RunStep, TearDownStep

(* Run only ends for good once something will wake the session.            *)
WillWake(s) ==
    armed[s] \/ pending[s] # {} \/ caller[s] = "signal" \/ timedOut[s] \/ noDelay[s]

WakeInv ==
    \A s \in Sessions :
        /\ "kTimeout" \in pending[s] => timedOut[s]
        /\ pc[s] = "finish" /\ fState[s] # "Done" => WillWake(s)
        /\ pc[s] = "return" /\ ~ delay[s] => WillWake(s)
        /\ status[s] = "idle" /\ caller[s] # "new" =>
              armed[s] \/ caller[s] = "signal" \/ timedOut[s] \/ noDelay[s]

(* What an assignment does to a flag of every session.                     *)
LEMMA Updated ==
    ASSUME NEW f \in [Sessions -> BOOLEAN], NEW s \in Sessions, NEW b \in BOOLEAN
    PROVE  /\ [f EXCEPT ![s] = b][s] = b
           /\ \A r \in Sessions : r # s => [f EXCEPT ![s] = b][r] = f[r]
OBVIOUS

(* A session to which an event is posted has something to wake it, however *)
(* its user and its socket change at that.                                 *)
LEMMA PostedWakes ==
    ASSUME TypeInv, WakeInv, NEW s \in Sessions, NEW e \in SessionEvents \ {"kTimeout"},
           SessionTask!Post(s, e), UNCHANGED <<fState, delay, timedOut, noDelay>>,
           \A r \in Sessions : r # s =>
              armed'[r] = armed[r] /\ pc'[r] = pc[r] /\ caller'[r] = caller[r]
    PROVE  WakeInv'
<1>1. /\ pending'[s] = pending[s] \cup {e} /\ status'[s] # "idle"
      /\ \A r \in Sessions : r # s => pending'[r] = pending[r] /\ status'[r] = status[r]
  BY PostEffect
<1>2. WillWake(s)'
  BY <1>1 DEF WillWake
<1>3. "kTimeout" \in pending'[s] => timedOut'[s]
  BY <1>1 DEF WakeInv
<1>4. ASSUME NEW r \in Sessions, r # s PROVE WillWake(r)' = WillWake(r)
  BY <1>1, <1>4 DEF WillWake
<1> QED
  BY <1>1, <1>2, <1>3, <1>4 DEF WakeInv

LEMMA WakeNext == TypeInv /\ WakeInv /\ [Next]_vars => WakeInv'
<1> SUFFICES ASSUME TypeInv, WakeInv, [Next]_vars PROVE WakeInv'
    OBVIOUS
<1> USE DEF Goto, Becomes, taskVars, sessionVars, clientVars, runVars, userVars, historyVars,
            SessionTask!Set, TypeInv, TypeOK, WakeInv, WillWake, NewInv
<1>1. CASE UNCHANGED vars
  BY <1>1 DEF vars
<1>2. ASSUME NEW s \in Sessions, Play(s) PROVE WakeInv'
  BY <1>2 DEF Play, SessionTask!Post
<1>3. ASSUME NEW s \in Sessions, TearDown(s) PROVE WakeInv'
  BY <1>3 DEF TearDown, TearDownState
<1>4. ASSUME NEW s \in Sessions, SignalTeardown(s) PROVE WakeInv'
  <2>1. CASE status[s] = "dead"
    BY <1>4, <2>1 DEF SignalTeardown
  <2>2. CASE status[s] # "dead"
    <3>1. SessionTask!Post(s, "kTeardown")
      BY <1>4, <2>2 DEF SignalTeardown
    <3>2. caller' = [caller EXCEPT ![s] = "forget"] /\ caller[s] = "signal"
      BY <1>4 DEF SignalTeardown
    <3>3. UNCHANGED <<sessionVars, clientVars, runVars, told, historyVars>>
      BY <1>4 DEF SignalTeardown
    <3> QED
      BY PostedWakes, <3>1, <3>2, <3>3 DEF SessionEvents
  <2> QED
    BY <2>1, <2>2
<1>5. ASSUME NEW s \in Sessions, ForgetDVR(s) PROVE WakeInv'
  BY <1>5 DEF ForgetDVR
<1>6. ASSUME NEW s \in Sessions, Ready(s) PROVE WakeInv'
  <2> HIDE DEF TypeInv, WakeInv
  <2>1. SessionTask!Post(s, "kRead") /\ armed' = [armed EXCEPT ![s] = FALSE]
    BY <1>6 DEF Ready
  <2>2. \A r \in Sessions : r # s => armed'[r] = armed[r]
    BY <2>1, Updated DEF TypeInv
  <2>3. UNCHANGED <<sessionVars, request, parts, runVars, userVars, historyVars>>
    BY <1>6 DEF Ready
  <2> QED
    BY PostedWakes, <2>1, <2>2, <2>3 DEF SessionEvents
<1>7. ASSUME NEW s \in Sessions, Timeout(s) PROVE WakeInv'
  BY <1>7 DEF Timeout, SessionTask!Post
<1>8. ASSUME NEW s \in Sessions, Begin(s) PROVE WakeInv'
  BY <1>8 DEF Begin, SessionTask!Begin
<1>9. ASSUME NEW s \in Sessions, Start(s) PROVE WakeInv'
  <2>1. PICK some \in BOOLEAN : /\ delay' = [delay EXCEPT ![s] = some]
                                /\ noDelay' = [noDelay EXCEPT ![s] = ~ some]
    BY <1>9 DEF Start
  <2>2. ~ delay'[s] => noDelay'[s]
    <3>1. delay'[s] = some /\ noDelay'[s] = ~ some
      BY <2>1, Updated
    <3> QED
      BY <3>1, Zenon
  <2>3. \A t \in Sessions : t # s => delay'[t] = delay[t] /\ noDelay'[t] = noDelay[t]
    BY <2>1
  <2> QED
    BY <1>9, <2>2, <2>3 DEF Start, GetEvents, SessionTask!Collect
<1>10. ASSUME NEW s \in Sessions, TimeOut(s) PROVE WakeInv'
  BY <1>10 DEF TimeOut, GetEvents, SessionTask!Collect
<1>11. ASSUME NEW s \in Sessions, Kill(s) PROVE WakeInv'
  BY <1>11 DEF Kill, SessionTask!Delete
<1>12. ASSUME NEW s \in Sessions, Enter(s) PROVE WakeInv'
  BY <1>12 DEF Enter, GetEvents, ToldToTearDown, SessionTask!Collect
<1>13. ASSUME NEW s \in Sessions, Switch(s) PROVE WakeInv'
  BY <1>13 DEF Switch
<1>14. ASSUME NEW s \in Sessions, Wait(s) PROVE WakeInv'
  <2>1. armed'[s]
    <3>1. armed' = [armed EXCEPT ![s] = TRUE]
      BY <1>14 DEF Wait, WaitsForEvent
    <3> QED
      BY <3>1, Updated
  <2>2. \A r \in Sessions : r # s => armed'[r] = armed[r] /\ pc'[r] = pc[r]
    BY <1>14 DEF Wait
  <2>3. UNCHANGED <<taskVars, sessionVars, at, delay, userVars, timedOut, noDelay, quiet>>
    BY <1>14 DEF Wait
  <2>4. WillWake(s)'
    BY <2>1
  <2> QED
    BY <2>1, <2>2, <2>3, <2>4
<1>15. ASSUME NEW s \in Sessions, Answer(s) PROVE WakeInv'
  BY <1>15 DEF Answer, Transact, NextState
<1>16. ASSUME NEW s \in Sessions, Refuse(s) PROVE WakeInv'
  BY <1>16 DEF Refuse, Transact
<1>17. ASSUME NEW s \in Sessions, Break(s) PROVE WakeInv'
  BY <1>17 DEF Break, Transact
<1>18. ASSUME NEW s \in Sessions, ReadFails(s) PROVE WakeInv'
  BY <1>18 DEF ReadFails, Read
<1>19. ASSUME NEW s \in Sessions, StopPlaying(s) PROVE WakeInv'
  BY <1>19 DEF StopPlaying, Read
<1>20. ASSUME NEW s \in Sessions, KeepPlaying(s) PROVE WakeInv'
  BY <1>20 DEF KeepPlaying, Read
<1>21. ASSUME NEW s \in Sessions, Finish(s) PROVE WakeInv'
  BY <1>21 DEF Finish
<1>22. ASSUME NEW s \in Sessions, Report(s) PROVE WakeInv'
  BY <1>22 DEF Report, Tells
<1>23. ASSUME NEW s \in Sessions, SignalKill(s) PROVE WakeInv'
  BY <1>23, PostedWakes DEF SignalKill, SessionEvents
<1>24. ASSUME NEW s \in Sessions, Return(s) PROVE WakeInv'
  BY <1>24 DEF Return, SessionTask!Again, SessionTask!Rest
<1>25. ASSUME NEW s \in Sessions, ReceiveMsg(s) PROVE WakeInv'
  BY <1>25 DEF ReceiveMsg
<1> QED
  BY <1>1, <1>2, <1>3, <1>4, <1>5, <1>6, <1>7, <1>8, <1>9, <1>10, <1>11,
     <1>12, <1>13, <1>14, <1>15, <1>16, <1>17, <1>18, <1>19, <1>20, <1>21,
     <1>22, <1>23, <1>24, <1>25
     DEF Next, RunStep, TearDownStep

(* A tear-down that came between two requests is on its way to TEARDOWN.   *)
QuietInv ==
    \A s \in Sessions :
        quiet[s] /\ ~ begun[s] /\ ~ timedOut[s] =>
            /\ TornDown(s) /\ status[s] # "dead"
            /\ fState[s] = "Teardown" /\ request[s] = "none"
            /\ "kKill" \notin pending[s]
            /\ pc[s] \in {"none", "events", "return", "switch", "state"}
            /\ pc[s] = "state" => at[s] = "Teardown"

LEMMA QuietNext == TypeInv /\ ToldInv /\ WakeInv /\ QuietInv /\ [Next]_vars => QuietInv'
<1> SUFFICES ASSUME TypeInv, ToldInv, WakeInv, QuietInv, [Next]_vars PROVE QuietInv'
    OBVIOUS
<1> USE DEF Goto, Becomes, taskVars, sessionVars, clientVars, runVars, userVars, historyVars,
            SessionTask!Set, TypeInv, TypeOK, ToldInv, WakeInv, QuietInv, TornDown
<1>1. CASE UNCHANGED vars
  BY <1>1 DEF vars
<1>2. ASSUME NEW s \in Sessions, Play(s) PROVE QuietInv'
  BY <1>2 DEF Play, SessionTask!Post
<1>3. ASSUME NEW s \in Sessions, TearDown(s) PROVE QuietInv'
  BY <1>3 DEF TearDown, TearDownState
<1>4. ASSUME NEW s \in Sessions, SignalTeardown(s) PROVE QuietInv'
  BY <1>4 DEF SignalTeardown, SessionTask!Post
<1>5. ASSUME NEW s \in Sessions, ForgetDVR(s) PROVE QuietInv'
  BY <1>5 DEF ForgetDVR
<1>6. ASSUME NEW s \in Sessions, Ready(s) PROVE QuietInv'
  BY <1>6 DEF Ready, SessionTask!Post
<1>7. ASSUME NEW s \in Sessions, Timeout(s) PROVE QuietInv'
  BY <1>7 DEF Timeout, SessionTask!Post
<1>8. ASSUME NEW s \in Sessions, Begin(s) PROVE QuietInv'
  BY <1>8 DEF Begin, SessionTask!Begin
<1>9. ASSUME NEW s \in Sessions, Start(s) PROVE QuietInv'
  BY <1>9 DEF Start, GetEvents, SessionTask!Collect
<1>10. ASSUME NEW s \in Sessions, TimeOut(s) PROVE QuietInv'
  BY <1>10 DEF TimeOut, GetEvents, SessionTask!Collect
<1>11. ASSUME NEW s \in Sessions, Kill(s) PROVE QuietInv'
  BY <1>11 DEF Kill, SessionTask!Delete
<1>12. ASSUME NEW s \in Sessions, Enter(s) PROVE QuietInv'
  BY <1>12 DEF Enter, GetEvents, ToldToTearDown, SessionTask!Collect
<1>13. ASSUME NEW s \in Sessions, Switch(s) PROVE QuietInv'
  BY <1>13 DEF Switch
<1>14. ASSUME NEW s \in Sessions, Wait(s) PROVE QuietInv'
  BY <1>14 DEF Wait, Transact, WaitsForEvent
<1>15. ASSUME NEW s \in Sessions, Answer(s) PROVE QuietInv'
  BY <1>15 DEF Answer, Transact, NextState
<1>16. ASSUME NEW s \in Sessions, Refuse(s) PROVE QuietInv'
  BY <1>16 DEF Refuse, Transact
<1>17. ASSUME NEW s \in Sessions, Break(s) PROVE QuietInv'
  BY <1>17 DEF Break, Transact
<1>18. ASSUME NEW s \in Sessions, ReadFails(s) PROVE QuietInv'
  BY <1>18 DEF ReadFails, Read
<1>19. ASSUME NEW s \in Sessions, StopPlaying(s) PROVE QuietInv'
  BY <1>19 DEF StopPlaying, Read
<1>20. ASSUME NEW s \in Sessions, KeepPlaying(s) PROVE QuietInv'
  BY <1>20 DEF KeepPlaying, Read
<1>21. ASSUME NEW s \in Sessions, Finish(s) PROVE QuietInv'
  BY <1>21 DEF Finish
<1>22. ASSUME NEW s \in Sessions, Report(s) PROVE QuietInv'
  BY <1>22 DEF Report, Tells
<1>23. ASSUME NEW s \in Sessions, SignalKill(s) PROVE QuietInv'
  BY <1>23 DEF SignalKill, SessionTask!Post
<1>24. ASSUME NEW s \in Sessions, Return(s) PROVE QuietInv'
  BY <1>24 DEF Return, SessionTask!Again, SessionTask!Rest
<1>25. ASSUME NEW s \in Sessions, ReceiveMsg(s) PROVE QuietInv'
  BY <1>25 DEF ReceiveMsg
<1> QED
  BY <1>1, <1>2, <1>3, <1>4, <1>5, <1>6, <1>7, <1>8, <1>9, <1>10, <1>11,
     <1>12, <1>13, <1>14, <1>15, <1>16, <1>17, <1>18, <1>19, <1>20, <1>21,
     <1>22, <1>23, <1>24, <1>25
     DEF Next, RunStep, TearDownStep

-----------------------------------------------------------------------------
SessionInv == TypeInv /\ RememberInv /\ ToldInv /\ WakeInv /\ QuietInv

LEMMA SessionInvInit == Init => SessionInv
<1> SUFFICES ASSUME Init PROVE SessionInv
    OBVIOUS
<1>1. TypeInv
  BY TypeInit
<1> QED
  BY <1>1 DEF Init, SessionInv, RememberInv, Remembers, ToldInv, WakeInv, WillWake, QuietInv,
              TornDown, SessionTask!TaskInit

LEMMA SessionInvariant == Spec => []SessionInv
<1>1. SessionInv /\ [Next]_vars => SessionInv'
  BY TypeNext, RememberNext, ToldNext, WakeNext, QuietNext DEF SessionInv
<1> QED
  BY SessionInvInit, <1>1, PTL DEF Spec

(* Wherever TearDown falls between the steps of Run, the session does not  *)
(* forget it and go on playing with no user.                               *)
THEOREM TearDownNotForgotten == Spec => []TearDownRemembered
<1>1. SessionInv => TearDownRemembered
  BY DEF SessionInv, RememberInv, Remembers, TearDownRemembered
<1> QED
  BY SessionInvariant, <1>1, PTL

(* No session is deleted under a user that was not told and did not tear   *)
(* it down.                                                                *)
THEOREM NoSilentDeath == Spec => []ReportedBeforeDeath
<1>1. SessionInv => ReportedBeforeDeath
  BY DEF SessionInv, ToldInv, ReportedBeforeDeath
<1> QED
  BY SessionInvariant, <1>1, PTL

(* A started session that sleeps can be woken, unless it timed out or drew *)
(* a delay of 0.                                                           *)
THEOREM NoStrandedSession == Spec => []CanBeWoken
<1>1. SessionInv => CanBeWoken
  BY DEF SessionInv, WakeInv, CanBeWoken
<1> QED
  BY SessionInvariant, <1>1, PTL

(* A tear-down between two requests leads to a TEARDOWN before the session *)
(* is deleted, unless it timed out.                                        *)
THEOREM QuietTearDownIsSent == Spec => []TearDownIsSent
<1>1. SessionInv => TearDownIsSent
  BY DEF SessionInv, TypeInv, TypeOK, QuietInv, TearDownIsSent
<1> QED
  BY SessionInvariant, <1>1, PTL
=============================================================================
