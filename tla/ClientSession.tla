---------------------------- MODULE ClientSession ----------------------------
(***************************************************************************)
(* ClientSession.cpp, ClientSession_Channel.cpp: the task that asks a      *)
(* server for a stream, reads it and relays it, and the calls its user     *)
(* makes on it from other threads.  Run and TearDown share fState and      *)
(* m_DVR without a lock, so a read and a later write of them are two steps.*)
(*                                                                         *)
(* The session runs as Task promises: the events pending and the turns of  *)
(* Run are those of that module.  Answers are what the server and the      *)
(* network may do; times are left out but for their order.                 *)
(***************************************************************************)
EXTENDS Naturals

CONSTANTS
    Sessions,       \* ClientSession objects
    NumStreams,     \* tracks in the server's description
    MaxParts,       \* bound: times one answer keeps its reader waiting
    Timeouts        \* TRUE: the server may be silent for kIdleTimeoutInMsec

ASSUME NumStreamsAssumption == NumStreams \in Nat \ {0}
ASSUME MaxPartsAssumption == MaxParts \in Nat
ASSUME TimeoutsAssumption == Timeouts \in BOOLEAN

VARIABLES
    \* the task: see Task
    status, pending,
    \* the members of a session; m_DVR is TRUE while it points to its owner
    fState, fNumSetups, fTeardownImmediately, m_DVR, m_PingServerRequest,
    \* RTSPClient: the request whose answer is awaited, and the EAGAINs of it;
    \* the socket has asked for an event
    request, parts, armed,
    \* Run: its step, the state its switch has read, whether it returns a delay
    pc, at, delay,
    \* the user's step; the user was told that the session is over
    caller, told,
    \* history: kTimeoutEvent was sent; the random delay was 0; TearDown came
    \* between two requests; TEARDOWN was begun
    timedOut, noDelay, quiet, begun

taskVars == <<status, pending>>
sessionVars == <<fState, fNumSetups, fTeardownImmediately, m_DVR, m_PingServerRequest>>
clientVars == <<request, parts, armed>>
runVars == <<pc, at, delay>>
userVars == <<caller, told>>
historyVars == <<timedOut, noDelay, quiet, begun>>
vars == <<taskVars, sessionVars, clientVars, runVars, userVars, historyVars>>

SessionEvents == {"kStart", "kTimeout", "kKill", "kTeardown", "kRead"}

SessionTask == INSTANCE Task
               WITH Tasks <- Sessions, SignalEvents <- SessionEvents,
                    Events <- SessionEvents \cup {"kIdle"}

Requests == {"Options", "Describe", "Setup", "Play", "Teardown"}
States == Requests \cup {"Playing", "Done"}

Init ==
    /\ SessionTask!TaskInit
    /\ fState = [s \in Sessions |-> "Describe"]
    /\ fNumSetups = [s \in Sessions |-> 0]
    /\ fTeardownImmediately = [s \in Sessions |-> FALSE]
    /\ m_DVR = [s \in Sessions |-> TRUE]
    /\ m_PingServerRequest = [s \in Sessions |-> FALSE]
    /\ request = [s \in Sessions |-> "none"]
    /\ parts = [s \in Sessions |-> 0]
    /\ armed = [s \in Sessions |-> FALSE]
    /\ pc = [s \in Sessions |-> "none"]
    /\ at = [s \in Sessions |-> "Describe"]
    /\ delay = [s \in Sessions |-> FALSE]
    /\ caller = [s \in Sessions |-> "new"]
    /\ told = [s \in Sessions |-> FALSE]
    /\ timedOut = [s \in Sessions |-> FALSE]
    /\ noDelay = [s \in Sessions |-> FALSE]
    /\ quiet = [s \in Sessions |-> FALSE]
    /\ begun = [s \in Sessions |-> FALSE]

Goto(s, step) == pc' = [pc EXCEPT ![s] = step]
Becomes(s, state) == fState' = [fState EXCEPT ![s] = state]

-----------------------------------------------------------------------------
(* The user: Play, and Destroy by way of RelayDVR::DestroyChannel          *)

Play(s) ==
    /\ caller[s] = "new"
    /\ caller' = [caller EXCEPT ![s] = "playing"]
    /\ \E ping \in BOOLEAN :
          /\ m_PingServerRequest' = [m_PingServerRequest EXCEPT ![s] = ping]
          /\ Becomes(s, IF ping THEN "Options" ELSE fState[s])
    /\ SessionTask!Post(s, "kStart")
    /\ UNCHANGED <<fNumSetups, fTeardownImmediately, m_DVR, clientVars, runVars, told,
                   historyVars>>

(* TearDown writes the state, signals, and drops the owner.  A user that   *)
(* was told of the end does not call it.                                   *)
TearDownState_Done == "Done"   \* slip: the session is done at once
TearDownState == "Teardown"

TearDown(s) ==
    /\ caller[s] = "playing" /\ ~ told[s]
    /\ caller' = [caller EXCEPT ![s] = "signal"]
    /\ Becomes(s, TearDownState)
    /\ quiet' = [quiet EXCEPT ![s] = request[s] = "none" /\ status[s] # "running"]
    /\ UNCHANGED <<taskVars, fNumSetups, fTeardownImmediately, m_DVR, m_PingServerRequest,
                   clientVars, runVars, told, timedOut, noDelay, begun>>

(* The session may be deleted by now: what the call does to freed memory   *)
(* is left out.                                                            *)
SignalTeardown(s) ==
    /\ caller[s] = "signal"
    /\ caller' = [caller EXCEPT ![s] = "forget"]
    /\ IF status[s] = "dead" THEN UNCHANGED taskVars ELSE SessionTask!Post(s, "kTeardown")
    /\ UNCHANGED <<sessionVars, clientVars, runVars, told, historyVars>>

ForgetDVR(s) ==
    /\ caller[s] = "forget"
    /\ caller' = [caller EXCEPT ![s] = "gone"]
    /\ m_DVR' = [m_DVR EXCEPT ![s] = FALSE]
    /\ UNCHANGED <<taskVars, fState, fNumSetups, fTeardownImmediately, m_PingServerRequest,
                   clientVars, runVars, told, historyVars>>

-----------------------------------------------------------------------------
(* The event thread and the timeout thread                                 *)

Ready(s) ==
    /\ armed[s] /\ status[s] # "dead"
    /\ armed' = [armed EXCEPT ![s] = FALSE]
    /\ SessionTask!Post(s, "kRead")
    /\ UNCHANGED <<sessionVars, request, parts, runVars, userVars, historyVars>>

(* The timeout is refreshed where Run is past its early returns, and is    *)
(* much longer than the delays Run asks for.                               *)
Timeout(s) ==
    /\ Timeouts
    /\ caller[s] # "new"
    /\ status[s] \in {"idle", "scheduled"} \/ pc[s] = "events"
    /\ "kIdle" \notin pending[s]
    /\ SessionTask!Post(s, "kTimeout")
    /\ timedOut' = [timedOut EXCEPT ![s] = TRUE]
    /\ UNCHANGED <<sessionVars, clientVars, runVars, userVars, noDelay, quiet, begun>>

-----------------------------------------------------------------------------
(* Run: the events                                                         *)

Begin(s) ==
    /\ SessionTask!Begin(s)
    /\ Goto(s, "events")
    /\ UNCHANGED <<sessionVars, clientVars, at, delay, userVars, historyVars>>

GetEvents(s) == pc[s] = "events" /\ SessionTask!Collect(s, pending[s])

(* kStartEvent: away for a random time.  The other events are dropped.     *)
Start(s) ==
    /\ GetEvents(s)
    /\ "kStart" \in pending[s]
    /\ \E some \in BOOLEAN :
          /\ delay' = [delay EXCEPT ![s] = some]
          /\ noDelay' = [noDelay EXCEPT ![s] = ~ some]
    /\ Goto(s, "return")
    /\ UNCHANGED <<sessionVars, clientVars, at, userVars, timedOut, quiet, begun>>

TimeOut(s) ==
    /\ GetEvents(s)
    /\ "kStart" \notin pending[s] /\ "kTimeout" \in pending[s]
    /\ Becomes(s, "Done")
    /\ delay' = [delay EXCEPT ![s] = FALSE]
    /\ Goto(s, "return")
    /\ UNCHANGED <<fNumSetups, fTeardownImmediately, m_DVR, m_PingServerRequest, clientVars,
                   at, userVars, historyVars>>

(* kKillEvent: Run returns -1 and the pool deletes the session.            *)
Kill(s) ==
    /\ pc[s] = "events"
    /\ pending[s] \cap {"kStart", "kTimeout"} = {} /\ "kKill" \in pending[s]
    /\ SessionTask!Delete(s)
    /\ Goto(s, "none")
    /\ UNCHANGED <<sessionVars, clientVars, at, delay, userVars, historyVars>>

ToldToTearDown_Not(s) == FALSE   \* slip: kTeardownEvent is not looked at
ToldToTearDown(s) == "kTeardown" \in pending[s]

Enter(s) ==
    /\ GetEvents(s)
    /\ pending[s] \cap {"kStart", "kTimeout", "kKill"} = {}
    /\ fTeardownImmediately' =
          [fTeardownImmediately EXCEPT ![s] = @ \/ ToldToTearDown(s)]
    /\ Goto(s, "switch")
    /\ UNCHANGED <<fState, fNumSetups, m_DVR, m_PingServerRequest, clientVars, at, delay,
                   userVars, historyVars>>

-----------------------------------------------------------------------------
(* Run: the state machine.  A request that is in progress is continued,    *)
(* whichever request the state stands for by now.                          *)

Switch(s) ==
    /\ pc[s] = "switch"
    /\ at' = [at EXCEPT ![s] = fState[s]]
    /\ Goto(s, IF fState[s] = "Done" THEN "finish" ELSE "state")
    /\ UNCHANGED <<taskVars, sessionVars, clientVars, delay, userVars, historyVars>>

Transact(s) ==
    /\ pc[s] = "state" /\ at[s] \in Requests
    /\ begun' = [begun EXCEPT ![s] = @ \/ (request[s] = "none" /\ at[s] = "Teardown")]

InProgress(s) == IF request[s] = "none" THEN at[s] ELSE request[s]

(* EAGAIN or EINPROGRESS: RequestEvent.                                    *)
WaitsForEvent_Not(s) == FALSE   \* slip: no event is asked for
WaitsForEvent(s) == TRUE

Wait(s) ==
    /\ Transact(s)
    /\ parts[s] < MaxParts
    /\ parts' = [parts EXCEPT ![s] = @ + 1]
    /\ request' = [request EXCEPT ![s] = InProgress(s)]
    /\ armed' = [armed EXCEPT ![s] = @ \/ WaitsForEvent(s)]
    /\ Goto(s, "finish")
    /\ UNCHANGED <<taskVars, sessionVars, at, delay, userVars, timedOut, noDelay, quiet>>

LastSetup(s) == fNumSetups[s] + 1 = NumStreams

(* What fState becomes when 200 OK arrives.                                *)
NextState(s) ==
    CASE at[s] = "Options"  -> IF m_PingServerRequest[s] THEN "Done" ELSE "Describe"
      [] at[s] = "Describe" -> "Setup"
      [] at[s] = "Setup"    -> IF LastSetup(s) THEN "Play" ELSE fState[s]
      [] at[s] = "Play"     -> "Playing"
      [] at[s] = "Teardown" -> "Done"

Answer(s) ==
    /\ Transact(s)
    /\ Becomes(s, NextState(s))
    /\ fNumSetups' = [fNumSetups EXCEPT ![s] = IF at[s] = "Setup" THEN @ + 1 ELSE @]
    /\ request' = [request EXCEPT ![s] = "none"]
    /\ parts' = [parts EXCEPT ![s] = 0]
    /\ Goto(s, "switch")
    /\ UNCHANGED <<taskVars, fTeardownImmediately, m_DVR, m_PingServerRequest, armed, at,
                   delay, userVars, timedOut, noDelay, quiet>>

(* Another status is an error, but TEARDOWN's is not looked at.            *)
Refuse(s) ==
    /\ Transact(s) /\ at[s] # "Teardown"
    /\ Becomes(s, "Done")
    /\ request' = [request EXCEPT ![s] = "none"]
    /\ parts' = [parts EXCEPT ![s] = 0]
    /\ Goto(s, "finish")
    /\ UNCHANGED <<taskVars, fNumSetups, fTeardownImmediately, m_DVR, m_PingServerRequest,
                   armed, at, delay, userVars, timedOut, noDelay, quiet>>

(* The connection fails; the transaction stays started.                    *)
Break(s) ==
    /\ Transact(s)
    /\ Becomes(s, "Done")
    /\ request' = [request EXCEPT ![s] = InProgress(s)]
    /\ Goto(s, "finish")
    /\ UNCHANGED <<taskVars, fNumSetups, fTeardownImmediately, m_DVR, m_PingServerRequest,
                   parts, armed, at, delay, userVars, timedOut, noDelay, quiet>>

(* kPlaying: read what there is, and be back after fReadInterval, or stop. *)
Read(s) == pc[s] = "state" /\ at[s] = "Playing"

ReadFails(s) ==
    /\ Read(s)
    /\ Becomes(s, "Done")
    /\ Goto(s, "finish")
    /\ UNCHANGED <<taskVars, fNumSetups, fTeardownImmediately, m_DVR, m_PingServerRequest,
                   clientVars, at, delay, userVars, historyVars>>

StopPlaying(s) ==
    /\ Read(s) /\ fTeardownImmediately[s]
    /\ Becomes(s, "Teardown")
    /\ Goto(s, "switch")
    /\ UNCHANGED <<taskVars, fNumSetups, fTeardownImmediately, m_DVR, m_PingServerRequest,
                   clientVars, at, delay, userVars, historyVars>>

KeepPlaying(s) ==
    /\ Read(s) /\ ~ fTeardownImmediately[s]
    /\ delay' = [delay EXCEPT ![s] = TRUE]
    /\ Goto(s, "return")
    /\ UNCHANGED <<taskVars, sessionVars, clientVars, at, userVars, historyVars>>

-----------------------------------------------------------------------------
(* Run: the end                                                            *)

Finish(s) ==
    /\ pc[s] = "finish"
    /\ delay' = [delay EXCEPT ![s] = FALSE]
    /\ Goto(s, IF fState[s] = "Done" THEN "report" ELSE "return")
    /\ UNCHANGED <<taskVars, sessionVars, clientVars, at, userVars, historyVars>>

Tells_Never(s) == FALSE   \* slip: the owner is not told
Tells(s) == m_DVR[s]

(* m_DVR is tested ...                                                     *)
Report(s) ==
    /\ pc[s] = "report"
    /\ Goto(s, IF Tells(s) THEN "tell" ELSE "kill")
    /\ UNCHANGED <<taskVars, sessionVars, clientVars, at, delay, userVars, historyVars>>

(* ... and used: what was tested, or read again, which may be NULL by now. *)
ReceiveMsg(s) ==
    /\ pc[s] = "tell"
    /\ \E owner \in {TRUE, m_DVR[s]} : told' = [told EXCEPT ![s] = @ \/ owner]
    /\ Goto(s, "kill")
    /\ UNCHANGED <<taskVars, sessionVars, clientVars, at, delay, caller, historyVars>>

SignalKill(s) ==
    /\ pc[s] = "kill"
    /\ SessionTask!Post(s, "kKill")
    /\ Goto(s, "return")
    /\ UNCHANGED <<sessionVars, clientVars, at, delay, userVars, historyVars>>

Return(s) ==
    /\ pc[s] = "return"
    /\ \/ delay[s] /\ SessionTask!Again(s, {"kIdle"})
       \/ ~ delay[s] /\ (SessionTask!Again(s, {}) \/ SessionTask!Rest(s))
    /\ Goto(s, "none")
    /\ UNCHANGED <<sessionVars, clientVars, at, delay, userVars, historyVars>>

-----------------------------------------------------------------------------
RunStep(s) ==
    \/ Begin(s) \/ Start(s) \/ TimeOut(s) \/ Kill(s) \/ Enter(s)
    \/ Switch(s) \/ Wait(s) \/ Answer(s) \/ Refuse(s) \/ Break(s)
    \/ ReadFails(s) \/ StopPlaying(s) \/ KeepPlaying(s)
    \/ Finish(s) \/ Report(s) \/ ReceiveMsg(s) \/ SignalKill(s) \/ Return(s)

TearDownStep(s) == SignalTeardown(s) \/ ForgetDVR(s)

Next == \E s \in Sessions :
            Play(s) \/ TearDown(s) \/ TearDownStep(s) \/ Ready(s) \/ Timeout(s) \/ RunStep(s)

Spec == Init /\ [][Next]_vars

(* A task thread comes to a scheduled task and finishes its Run, a call    *)
(* that was begun ends, and an armed socket sees an answer or an error.    *)
FairSpec ==
    /\ Spec
    /\ \A s \in Sessions : /\ WF_vars(RunStep(s))
                           /\ WF_vars(TearDownStep(s))
                           /\ WF_vars(Ready(s))

-----------------------------------------------------------------------------
(* Properties                                                              *)

(* Every variable keeps its type; a step of Run is only taken while the    *)
(* task runs.                                                              *)
TypeOK ==
    /\ status \in [Sessions -> {"idle", "scheduled", "running", "dead"}]
    /\ pending \in [Sessions -> SUBSET (SessionEvents \cup {"kIdle"})]
    /\ fState \in [Sessions -> States] /\ at \in [Sessions -> States]
    /\ fNumSetups \in [Sessions -> 0 .. NumStreams]
    /\ fTeardownImmediately \in [Sessions -> BOOLEAN] /\ m_DVR \in [Sessions -> BOOLEAN]
    /\ m_PingServerRequest \in [Sessions -> BOOLEAN] /\ armed \in [Sessions -> BOOLEAN]
    /\ delay \in [Sessions -> BOOLEAN] /\ told \in [Sessions -> BOOLEAN]
    /\ timedOut \in [Sessions -> BOOLEAN] /\ noDelay \in [Sessions -> BOOLEAN]
    /\ quiet \in [Sessions -> BOOLEAN] /\ begun \in [Sessions -> BOOLEAN]
    /\ request \in [Sessions -> Requests \cup {"none"}]
    /\ parts \in [Sessions -> 0 .. MaxParts]
    /\ pc \in [Sessions -> {"none", "events", "switch", "state", "finish", "report", "tell",
                            "kill", "return"}]
    /\ caller \in [Sessions -> {"new", "playing", "signal", "forget", "gone"}]
    /\ \A s \in Sessions : pc[s] # "none" <=> status[s] = "running"

TornDown(s) == caller[s] \in {"signal", "forget", "gone"}

(* A session that is torn down does not forget it: if Run has overwritten  *)
(* fState, the event is still to come or its flag is set, so that the      *)
(* stream is not left playing with no user (ClientSession.h:106-114).      *)
TearDownRemembered ==
    \A s \in Sessions :
        TornDown(s) /\ status[s] # "dead" =>
            \/ fState[s] \in {"Teardown", "Done"}
            \/ caller[s] = "signal"
            \/ "kTeardown" \in pending[s]
            \/ fTeardownImmediately[s]

(* A session is never deleted under a user that neither tore it down nor   *)
(* was told, who would go on to use it (ClientSession.cpp:447-450).        *)
ReportedBeforeDeath ==
    \A s \in Sessions : status[s] = "dead" => told[s] \/ TornDown(s)

(* A started session that sleeps without a timer can be woken: it has      *)
(* asked its socket for an event or TearDown is about to signal it, unless *)
(* it timed out or drew a delay of 0 (ClientSession.cpp:516, :527, :865).  *)
CanBeWoken ==
    \A s \in Sessions :
        status[s] = "idle" /\ caller[s] # "new" =>
            armed[s] \/ caller[s] = "signal" \/ timedOut[s] \/ noDelay[s]

(* If TearDown comes while Run is away and no answer is awaited, a         *)
(* TEARDOWN is begun before the session is deleted, unless it timed out    *)
(* (ClientSession.h:171).                                                  *)
TearDownIsSent ==
    \A s \in Sessions : status[s] = "dead" /\ quiet[s] => begun[s] \/ timedOut[s]

(* A session that is torn down gets deleted, unless it timed out or drew a *)
(* delay of 0.                                                             *)
TearDownEnds ==
    \A s \in Sessions :
        TornDown(s) ~> (status[s] = "dead" \/ timedOut[s] \/ noDelay[s])
=============================================================================
