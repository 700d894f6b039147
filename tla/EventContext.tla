----------------------------- MODULE EventContext -----------------------------
(***************************************************************************)
(* EventContext.cpp, OSRef.cpp and win32ev.cpp: sockets that ask for an    *)
(* event, the window the messages of all of them arrive at, and the event  *)
(* thread that finds the context of a message by its ID in a table of      *)
(* counted references and signals its task.                                *)
(*                                                                         *)
(* Each context is used by one task at a time, so a context carries the    *)
(* step its user is at.  A section under the mutex of the table is one     *)
(* step.  The key of a reference points into its context: it is the        *)
(* context's fUniqueID, and the table the set of contexts that are in it.  *)
(***************************************************************************)
EXTENDS Integers, Sequences, FiniteSets

CONSTANTS
    Contexts,       \* EventContext objects
    Handles,        \* what the system names sockets with
    FirstID,        \* WM_USER
    LastID,         \* 8192, where sUniqueID starts again
    MaxOpens,       \* bound: number of sockets opened
    Quits,          \* TRUE: the event thread may be asked to exit
    NoContext, NoHandle

ASSUME IDsAssumption == FirstID \in Nat \ {0} /\ LastID \in Nat /\ FirstID < LastID
ASSUME BoundAssumption == MaxOpens \in Nat
ASSUME NamesAssumption == NoContext \notin Contexts /\ NoHandle \notin Handles
ASSUME SwitchAssumption == Quits \in BOOLEAN

VARIABLES
    sUniqueID,
    \* of a context
    step, fFileDesc, fUniqueID, fWatchEventCalled, fRefCount,
    \* fRefTable: the contexts whose reference is in it
    fTable,
    \* of a context that takes over another: that other one
    fromContext,
    \* of a task: kReadEvent is pending
    readEvent,
    \* Windows, of a handle: the socket it names, 0 if none, its message
    \* ID, 0 if none, and unread data; the messages posted; the window
    current, asyncSelect, readable, messages, sMsgWindow,
    \* the event thread: its step, theCurrentEvent, the reference resolved
    pc, theCurrentEvent, ref,
    \* history: sockets opened; the one a context opened, 0 if none; those
    \* that something about another socket was done to since their owner
    \* armed them; contexts that wait for an event; WM_QUIT sent
    opens, socket, disturbed, waiting, quitting

contextVars == <<step, fFileDesc, fUniqueID, fWatchEventCalled, fromContext, socket>>
refVars == <<fTable, fRefCount>>
windowVars == <<current, asyncSelect, messages, sMsgWindow>>
threadVars == <<pc, theCurrentEvent, ref>>
taskVars == <<readEvent, readable, waiting>>
countVars == <<sUniqueID, opens, disturbed, quitting>>
vars == <<contextVars, refVars, windowVars, threadVars, taskVars, countVars>>

quitMessage == [handle |-> NoHandle, id |-> 0, socket |-> 0]

Init ==
    /\ sUniqueID = FirstID
    /\ step = [c \in Contexts |-> "none"]
    /\ fFileDesc = [c \in Contexts |-> NoHandle]
    /\ fUniqueID = [c \in Contexts |-> 0]
    /\ fWatchEventCalled = [c \in Contexts |-> FALSE]
    /\ fRefCount = [c \in Contexts |-> 0]
    /\ fTable = {}
    /\ fromContext = [c \in Contexts |-> NoContext]
    /\ readEvent = [c \in Contexts |-> FALSE]
    /\ current = [h \in Handles |-> 0] /\ asyncSelect = [h \in Handles |-> 0]
    /\ readable = [h \in Handles |-> FALSE]
    /\ messages = <<>> /\ sMsgWindow = FALSE
    /\ pc = "waitevent" /\ theCurrentEvent = quitMessage /\ ref = NoContext
    /\ opens = 0 /\ socket = [c \in Contexts |-> 0]
    /\ disturbed = {} /\ waiting = {} /\ quitting = FALSE

Goto(c, s) == step' = [step EXCEPT ![c] = s]

-----------------------------------------------------------------------------
(* Construction, Socket::Open and the first RequestEvent                   *)

Construct(c) ==
    /\ step[c] = "none"
    /\ Goto(c, "closed")
    /\ UNCHANGED <<fFileDesc, fUniqueID, fWatchEventCalled, fromContext, socket, refVars,
                   windowVars, threadVars, taskVars, countVars>>

Messages == {messages[i] : i \in DOMAIN messages}

(* The system hands out any handle that is not open, also one that old     *)
(* messages name or that a context has left to close a second time.        *)
FreeHandles == {h \in Handles : current[h] = 0}

(* The other socket, if any, that a call with c's handle works on.         *)
Disturbs(c) == {current[fFileDesc[c]]} \ {0, socket[c]}

Open(c) ==
    /\ step[c] = "closed" /\ ~ fWatchEventCalled[c]
    /\ opens < MaxOpens
    /\ opens' = opens + 1
    /\ \E h \in FreeHandles :
          /\ fFileDesc' = [fFileDesc EXCEPT ![c] = h]
          /\ current' = [current EXCEPT ![h] = opens + 1]
    /\ socket' = [socket EXCEPT ![c] = opens + 1]
    /\ Goto(c, "open")
    /\ UNCHANGED <<fUniqueID, fWatchEventCalled, fromContext, refVars, asyncSelect, messages,
                   sMsgWindow, threadVars, taskVars, sUniqueID, disturbed, quitting>>

RequestEvent(c) ==
    /\ step[c] = "open"
    /\ Goto(c, IF fWatchEventCalled[c] THEN "modwatch" ELSE "uniqueID")
    /\ UNCHANGED <<fFileDesc, fUniqueID, fWatchEventCalled, fromContext, socket, refVars,
                   windowVars, threadVars, taskVars, countVars>>

(* compare_and_store ...                                                   *)
StartAgain(c) ==
    /\ step[c] = "uniqueID"
    /\ IF sUniqueID = LastID
       THEN /\ sUniqueID' = FirstID
            /\ fUniqueID' = [fUniqueID EXCEPT ![c] = FirstID]
            /\ Goto(c, "register")
       ELSE Goto(c, "atomicAdd") /\ UNCHANGED <<sUniqueID, fUniqueID>>
    /\ UNCHANGED <<fFileDesc, fWatchEventCalled, fromContext, socket, refVars, windowVars,
                   threadVars, taskVars, opens, disturbed, quitting>>

(* ... and atomic_add, as a second operation.                              *)
NextID_Same == sUniqueID   \* slip: the value before the addition
NextID == sUniqueID + 1

TakeID(c) ==
    /\ step[c] = "atomicAdd"
    /\ sUniqueID' = NextID
    /\ fUniqueID' = [fUniqueID EXCEPT ![c] = NextID]
    /\ Goto(c, "register")
    /\ UNCHANGED <<fFileDesc, fWatchEventCalled, fromContext, socket, refVars, windowVars,
                   threadVars, taskVars, opens, disturbed, quitting>>

Map(id) == {d \in fTable : fUniqueID[d] = id}

(* Register leaves the table alone if the ID is taken.                     *)
Register(c) ==
    /\ step[c] = "register"
    /\ fTable' = IF Map(fUniqueID[c]) = {} THEN fTable \cup {c} ELSE fTable
    /\ fWatchEventCalled' = [fWatchEventCalled EXCEPT ![c] = TRUE]
    /\ Goto(c, "modwatch")
    /\ UNCHANGED <<fFileDesc, fUniqueID, fromContext, socket, fRefCount, windowVars,
                   threadVars, taskVars, countVars>>

(* select_modwatch first waits for the window.  WSAAsyncSelect fails on a  *)
(* handle that is closed, and arms the socket of another if the handle has *)
(* been given to it.                                                       *)
Armed_Never(c) == asyncSelect   \* slip: WSAAsyncSelect forgotten
Armed(c) ==
    IF current[fFileDesc[c]] = 0 THEN asyncSelect
    ELSE [asyncSelect EXCEPT ![fFileDesc[c]] = fUniqueID[c]]

Modwatch(c) ==
    /\ step[c] = "modwatch"
    /\ sMsgWindow
    /\ asyncSelect' = Armed(c)
    /\ disturbed' = (disturbed \ {socket[c]}) \cup Disturbs(c)
    /\ waiting' = waiting \cup {c}
    /\ Goto(c, "open")
    /\ UNCHANGED <<fFileDesc, fUniqueID, fWatchEventCalled, fromContext, socket, refVars,
                   current, messages, sMsgWindow, threadVars, readEvent, readable, sUniqueID,
                   opens, quitting>>

(* The task runs on its kReadEvent, reads the socket and asks again.       *)
RunTask(c) ==
    /\ step[c] = "open" /\ readEvent[c]
    /\ readEvent' = [readEvent EXCEPT ![c] = FALSE]
    /\ readable' = [readable EXCEPT ![fFileDesc[c]] = FALSE]
    /\ disturbed' = disturbed \cup Disturbs(c)
    /\ Goto(c, IF fWatchEventCalled[c] THEN "modwatch" ELSE "uniqueID")
    /\ UNCHANGED <<fFileDesc, fUniqueID, fWatchEventCalled, fromContext, socket, refVars,
                   windowVars, threadVars, waiting, sUniqueID, opens, quitting>>

-----------------------------------------------------------------------------
(* Cleanup and the destructor                                              *)

Cleanup(c) ==
    /\ step[c] = "open"
    /\ Goto(c, IF fUniqueID[c] > 0 THEN "unregister" ELSE "close")
    /\ waiting' = waiting \ {c}
    /\ UNCHANGED <<fFileDesc, fUniqueID, fWatchEventCalled, fromContext, socket, refVars,
                   windowVars, threadVars, readEvent, readable, countVars>>

(* UnRegister waits on fCond until nobody uses the reference.              *)
Unused_Always(c) == TRUE   \* slip: the reference count is not looked at
Unused(c) == fRefCount[c] = 0

UnRegister(c) ==
    /\ step[c] = "unregister"
    /\ Unused(c)
    /\ fTable' = fTable \ {c}
    /\ Goto(c, "closeFirst")
    /\ UNCHANGED <<fFileDesc, fUniqueID, fWatchEventCalled, fromContext, socket, fRefCount,
                   windowVars, threadVars, taskVars, countVars>>

(* closesocket, on whatever socket the handle names by now: no more        *)
(* messages, but those posted stay.                                        *)
closesocket(h) ==
    /\ current' = [current EXCEPT ![h] = 0]
    /\ asyncSelect' = [asyncSelect EXCEPT ![h] = 0]
    /\ readable' = [readable EXCEPT ![h] = FALSE]
    /\ disturbed' = disturbed \ {current[h]}

(* A context that was registered closes its socket here ...                *)
CloseFirst(c) ==
    /\ step[c] = "closeFirst"
    /\ closesocket(fFileDesc[c])
    /\ Goto(c, "close")
    /\ UNCHANGED <<fFileDesc, fUniqueID, fWatchEventCalled, fromContext, socket, refVars,
                   messages, sMsgWindow, threadVars, readEvent, waiting, sUniqueID, opens,
                   quitting>>

(* ... and every context here: the else before it covers a printf only.    *)
Close(c) ==
    /\ step[c] = "close"
    /\ closesocket(fFileDesc[c])
    /\ fFileDesc' = [fFileDesc EXCEPT ![c] = NoHandle]
    /\ fUniqueID' = [fUniqueID EXCEPT ![c] = 0]
    /\ socket' = [socket EXCEPT ![c] = 0]
    /\ Goto(c, "closed")
    /\ UNCHANGED <<fWatchEventCalled, fromContext, refVars, messages, sMsgWindow,
                   threadVars, readEvent, waiting, sUniqueID, opens, quitting>>

(* A context without a socket cleans nothing up.  What is left has the     *)
(* values the next constructor gives it.                                   *)
Delete(c) ==
    /\ step[c] = "closed"
    /\ Goto(c, "none")
    /\ fUniqueID' = [fUniqueID EXCEPT ![c] = 0]
    /\ fWatchEventCalled' = [fWatchEventCalled EXCEPT ![c] = FALSE]
    /\ readEvent' = [readEvent EXCEPT ![c] = FALSE]
    /\ UNCHANGED <<fFileDesc, fromContext, socket, refVars, windowVars, threadVars,
                   readable, waiting, countVars>>

-----------------------------------------------------------------------------
(* SnarfSocket: a session of an HTTP tunnel takes over the other's socket  *)

SnarfSocket(c, from) ==
    /\ step[c] = "closed" /\ fUniqueID[c] = 0
    /\ step[from] = "open" /\ fUniqueID[from] > 0
    /\ fFileDesc' = [fFileDesc EXCEPT ![c] = fFileDesc[from], ![from] = NoHandle]
    /\ socket' = [socket EXCEPT ![c] = socket[from], ![from] = 0]
    /\ fUniqueID' = [fUniqueID EXCEPT ![c] = fUniqueID[from]]
    /\ fWatchEventCalled' = [fWatchEventCalled EXCEPT ![c] = fWatchEventCalled[from]]
    /\ fromContext' = [fromContext EXCEPT ![c] = from]
    /\ step' = [step EXCEPT ![c] = "swap", ![from] = "snarfed"]
    /\ waiting' = waiting \ {from}
    /\ UNCHANGED <<refVars, windowVars, threadVars, readEvent, readable, countVars>>

(* Swap takes whatever has the ID out of the table.                        *)
Swap(c) ==
    /\ step[c] = "swap"
    /\ fTable' = IF Map(fUniqueID[c]) = {} THEN fTable
                 ELSE (fTable \ Map(fUniqueID[c])) \cup {c}
    /\ Goto(c, "swapped")
    /\ UNCHANGED <<fFileDesc, fUniqueID, fWatchEventCalled, fromContext, socket, fRefCount,
                   windowVars, threadVars, taskVars, countVars>>

(* The donor's reference is removed a second time; then the session is     *)
(* signalled kReadEvent or goes on reading by itself.                      *)
EndSnarf(c) ==
    /\ step[c] = "swapped"
    /\ Unused(fromContext[c])
    /\ fTable' = fTable \ {fromContext[c]}
    /\ step' = [step EXCEPT ![c] = "open", ![fromContext[c]] = "closed"]
    /\ fromContext' = [fromContext EXCEPT ![c] = NoContext]
    /\ readEvent' = [readEvent EXCEPT ![c] = TRUE]
    /\ UNCHANGED <<fFileDesc, fUniqueID, fWatchEventCalled, socket, fRefCount, windowVars,
                   threadVars, readable, waiting, countVars>>

-----------------------------------------------------------------------------
(* Windows                                                                 *)

Receive(h) ==
    /\ current[h] # 0
    /\ readable' = [readable EXCEPT ![h] = TRUE]
    /\ UNCHANGED <<contextVars, refVars, windowVars, threadVars, readEvent, waiting,
                   countVars>>

(* One message is posted for the data of a socket that is armed.           *)
Post(h) ==
    LET m == [handle |-> h, id |-> asyncSelect[h], socket |-> current[h]]
    IN  /\ asyncSelect[h] # 0 /\ readable[h]
        /\ sMsgWindow
        /\ m \notin Messages
        /\ messages' = Append(messages, m)
        /\ UNCHANGED <<contextVars, refVars, current, asyncSelect, sMsgWindow, threadVars,
                       taskVars, countVars>>

-----------------------------------------------------------------------------
(* EventThread::Entry                                                      *)

CreateWindow ==
    /\ pc = "waitevent" /\ ~ sMsgWindow
    /\ sMsgWindow' = TRUE
    /\ UNCHANGED <<contextVars, refVars, current, asyncSelect, messages, threadVars, taskVars,
                   countVars>>

(* What the handle of the message names by now is disarmed until the next  *)
(* modwatch, under whatever ID it was armed.                               *)
GetMessage ==
    /\ pc = "waitevent" /\ sMsgWindow /\ messages # <<>>
    /\ Head(messages) # quitMessage
    /\ theCurrentEvent' = Head(messages)
    /\ messages' = Tail(messages)
    /\ LET h == Head(messages).handle
       IN  /\ asyncSelect' = [asyncSelect EXCEPT ![h] = 0]
           /\ disturbed' = IF asyncSelect[h] \in {0, Head(messages).id} THEN disturbed
                           ELSE disturbed \cup {current[h]}
    /\ pc' = "resolve"
    /\ UNCHANGED <<contextVars, refVars, current, sMsgWindow, ref, taskVars, sUniqueID, opens,
                   quitting>>

GetQuitMessage ==
    /\ pc = "waitevent" /\ sMsgWindow /\ messages # <<>>
    /\ Head(messages) = quitMessage
    /\ sMsgWindow' = FALSE
    /\ messages' = <<>>
    /\ pc' = "exited"
    /\ UNCHANGED <<contextVars, refVars, current, asyncSelect, theCurrentEvent, ref, taskVars,
                   countVars>>

NotFound ==
    /\ pc = "resolve"
    /\ Map(theCurrentEvent.id) = {}
    /\ theCurrentEvent' = quitMessage
    /\ pc' = "waitevent"
    /\ UNCHANGED <<contextVars, refVars, windowVars, ref, taskVars, countVars>>

Resolve ==
    /\ pc = "resolve"
    /\ \E c \in Map(theCurrentEvent.id) :
          /\ ref' = c
          /\ fRefCount' = [fRefCount EXCEPT ![c] = @ + 1]
    /\ pc' = "processEvent"
    /\ UNCHANGED <<contextVars, fTable, windowVars, theCurrentEvent, taskVars, countVars>>

(* ProcessEvent: fTask->Signal(Task::kReadEvent).                          *)
ProcessEvent ==
    /\ pc = "processEvent"
    /\ readEvent' = [readEvent EXCEPT ![ref] = TRUE]
    /\ waiting' = waiting \ {ref}
    /\ pc' = "release"
    /\ UNCHANGED <<contextVars, refVars, windowVars, theCurrentEvent, ref, readable,
                   countVars>>

Released_Not == fRefCount   \* slip: the reference is not given back
Released == [fRefCount EXCEPT ![ref] = @ - 1]

Release ==
    /\ pc = "release"
    /\ fRefCount' = Released
    /\ ref' = NoContext
    /\ theCurrentEvent' = quitMessage
    /\ pc' = "waitevent"
    /\ UNCHANGED <<contextVars, fTable, windowVars, taskVars, countVars>>

(* WZD_Signal_EventThread_To_Exit; without a window the message is lost.   *)
SignalExit ==
    /\ Quits /\ ~ quitting
    /\ quitting' = TRUE
    /\ messages' = IF sMsgWindow THEN Append(messages, quitMessage) ELSE messages
    /\ UNCHANGED <<contextVars, refVars, current, asyncSelect, sMsgWindow, threadVars,
                   taskVars, sUniqueID, opens, disturbed>>

-----------------------------------------------------------------------------
EventThreadStep ==
    CreateWindow \/ GetMessage \/ GetQuitMessage \/ NotFound \/ Resolve
        \/ ProcessEvent \/ Release

(* What a call on a context does by itself once it has begun.              *)
CallStep(c) ==
    \/ StartAgain(c) \/ TakeID(c) \/ Register(c) \/ Modwatch(c) \/ RunTask(c)
    \/ UnRegister(c) \/ CloseFirst(c) \/ Close(c) \/ Swap(c) \/ EndSnarf(c)

Next ==
    \/ EventThreadStep \/ SignalExit
    \/ \E h \in Handles : Receive(h) \/ Post(h)
    \/ \E c \in Contexts :
          \/ CallStep(c) \/ Construct(c) \/ Open(c) \/ RequestEvent(c) \/ Cleanup(c)
          \/ Delete(c)
          \/ \E from \in Contexts : SnarfSocket(c, from)

Spec == Init /\ [][Next]_vars

(* Threads are scheduled, Windows posts what it owes, tasks run.           *)
Fairness ==
    /\ WF_vars(EventThreadStep)
    /\ \A h \in Handles : WF_vars(Post(h))
    /\ \A c \in Contexts : WF_vars(CallStep(c))

FairSpec == Spec /\ Fairness

-----------------------------------------------------------------------------
(* Properties                                                              *)

Holding == pc \in {"processEvent", "release"}

(* Types; the count of a reference is the number of its users.             *)
TypeOK ==
    /\ sUniqueID \in Nat /\ opens \in Nat /\ {sMsgWindow, quitting} \subseteq BOOLEAN
    /\ step \in [Contexts -> {"none", "closed", "open", "uniqueID", "atomicAdd", "register",
                              "modwatch", "unregister", "closeFirst", "close", "swap",
                              "swapped", "snarfed"}]
    /\ fFileDesc \in [Contexts -> Handles \cup {NoHandle}]
    /\ fUniqueID \in [Contexts -> Nat]
    /\ fWatchEventCalled \in [Contexts -> BOOLEAN] /\ readEvent \in [Contexts -> BOOLEAN]
    /\ fTable \subseteq Contexts /\ waiting \subseteq Contexts
    /\ fromContext \in [Contexts -> Contexts \cup {NoContext}]
    /\ asyncSelect \in [Handles -> Nat] /\ readable \in [Handles -> BOOLEAN]
    /\ current \in [Handles -> Nat] /\ socket \in [Contexts -> Nat] /\ disturbed \subseteq Nat
    /\ messages \in Seq([handle : Handles, id : Nat, socket : Nat] \cup {quitMessage})
    /\ theCurrentEvent \in [handle : Handles, id : Nat, socket : Nat] \cup {quitMessage}
    /\ pc \in {"waitevent", "resolve", "processEvent", "release", "exited"}
    /\ ref \in Contexts \cup {NoContext}
    /\ fRefCount = [c \in Contexts |-> IF Holding /\ c = ref THEN 1 ELSE 0]

(* "ProcessEvent cannot be going on when this object gets deleted, because *)
(* the resolve / release mechanism of EventContext will ensure this thread *)
(* will block before destructing stuff" (TCPListenerSocket.cpp): the event *)
(* thread is never inside a context that is deleted or has no socket.      *)
ResolvedIsAlive == Holding => step[ref] \notin {"none", "closed", "closeFirst", "close"}

(* A context whose socket was closed by another's second closesocket: its  *)
(* handle is closed or names a socket opened later.                        *)
Robbed(c) == fFileDesc[c] # NoHandle /\ current[fFileDesc[c]] # socket[c]

(* "allocate a Unique ID for this socket" (EventContext.cpp): a message    *)
(* about a socket is handed to the context that opened it or has taken it  *)
(* over, or that owned it and is just being taken over, though the handle  *)
(* in the message may name another socket by now.  Only a context that     *)
(* lost its own socket to a second closesocket can get one of another.     *)
EventIsOwn ==
    Holding => theCurrentEvent.socket = socket[ref] \/ step[ref] = "snarfed" \/ Robbed(ref)

(* A task that waits for data gets a kReadEvent once there are some,       *)
(* unless it stops waiting or the event thread is told to exit.  The code  *)
(* breaks this in two ways, which are left out: its socket was closed by   *)
(* another's second closesocket; or it was disarmed, armed or read for     *)
(* another, by a message left over from the last socket with its handle    *)
(* or by a context whose own socket was closed so.                         *)
DataIsSignalled ==
    \A c \in Contexts :
        (c \in waiting /\ readable[fFileDesc[c]])
            ~> (c \notin waiting \/ readEvent[c] \/ quitting
                   \/ Robbed(c) \/ socket[c] \in disturbed)

(* Cleanup, which waits for the event thread, ends; the deadlocks that     *)
(* OSRef.h warns of do not happen.                                         *)
CleanupReturns == \A c \in Contexts : step[c] = "unregister" ~> step[c] = "closed"
=============================================================================
