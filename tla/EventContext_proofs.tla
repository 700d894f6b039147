------------------------- MODULE EventContext_proofs -------------------------
(***************************************************************************)
(* The reference table keeps the event thread out of dead contexts, for    *)
(* any number of contexts and sockets, whether or not the IDs wrap, the    *)
(* handles are reused or closed twice, or the thread is asked to exit.     *)
(* Until the IDs wrap, it is also kept out of contexts of other sockets,   *)
(* and no context that waits for data is forgotten, except for those that  *)
(* a second closesocket or a reused handle takes the socket from.          *)
(***************************************************************************)
EXTENDS EventContext, TLAPS

Message == [handle : Handles, id : Nat, socket : Nat] \cup {quitMessage}
Steps == {"none", "closed", "open", "uniqueID", "atomicAdd", "register", "modwatch",
          "unregister", "closeFirst", "close", "swap", "swapped", "snarfed"}

(* A reference in use belongs to a context.                                *)
HoldsContext == Holding => ref \in Contexts

(* A context between opening and closing has a handle.                     *)
Idle == {"none", "closed", "snarfed"}
HasHandle == \A c \in Contexts : fFileDesc[c] = NoHandle => step[c] \in Idle

Typed == TypeOK /\ HoldsContext
TypeInv == Typed /\ HasHandle

Users(c) == IF Holding /\ c = ref THEN 1 ELSE 0

LEMMA TypeInit == Init => TypeInv
<1> SUFFICES ASSUME Init PROVE TypeInv
  OBVIOUS
<1> USE DEF Init
<1>1. ~ Holding /\ pc = "waitevent" /\ ref = NoContext
  BY DEF Holding
<1>2. fRefCount = [c \in Contexts |-> IF Holding /\ c = ref THEN 1 ELSE 0]
  BY <1>1
<1>3. messages \in Seq(Message) /\ theCurrentEvent \in Message
  BY DEF Message, quitMessage
<1>4. sUniqueID \in Nat /\ opens \in Nat
  BY IDsAssumption
<1>5. HasHandle
  BY DEF HasHandle, Idle
<1> QED
  BY <1>1, <1>2, <1>3, <1>4, <1>5 DEF TypeInv, Typed, TypeOK, HoldsContext, Message

(* The steps of a context: all but the event thread's leave the count of   *)
(* users alone.                                                            *)
LEMMA TypeContextStep ==
    ASSUME TypeInv, NEW c \in Contexts,
           \/ Construct(c) \/ Open(c) \/ RequestEvent(c) \/ StartAgain(c) \/ TakeID(c)
           \/ Register(c) \/ Modwatch(c) \/ RunTask(c) \/ Cleanup(c) \/ UnRegister(c)
           \/ CloseFirst(c) \/ Close(c) \/ Delete(c) \/ Swap(c) \/ EndSnarf(c)
           \/ \E from \in Contexts : SnarfSocket(c, from)
    PROVE  Typed'
<1> USE DEF Goto, contextVars, refVars, windowVars, threadVars, taskVars, countVars
<1>0. /\ step \in [Contexts -> Steps] /\ fFileDesc \in [Contexts -> Handles \cup {NoHandle}]
      /\ fUniqueID \in [Contexts -> Nat] /\ socket \in [Contexts -> Nat]
      /\ fTable \subseteq Contexts /\ waiting \subseteq Contexts
      /\ fromContext \in [Contexts -> Contexts \cup {NoContext}]
      /\ current \in [Handles -> Nat] /\ asyncSelect \in [Handles -> Nat]
      /\ sUniqueID \in Nat /\ opens \in Nat /\ disturbed \subseteq Nat
  BY DEF TypeInv, Typed, TypeOK, Steps
<1>b. /\ readEvent \in [Contexts -> BOOLEAN] /\ fWatchEventCalled \in [Contexts -> BOOLEAN]
      /\ readable \in [Handles -> BOOLEAN]
  BY DEF TypeInv, Typed, TypeOK
<1>1. CASE Construct(c) \/ Open(c) \/ RequestEvent(c) \/ Delete(c)
  <2>1. readEvent' \in [Contexts -> BOOLEAN] /\ fWatchEventCalled' \in [Contexts -> BOOLEAN]
    BY <1>b, <1>1, Zenon DEF Construct, Open, RequestEvent, Delete
  <2>2. /\ UNCHANGED <<fTable, fRefCount, fromContext, asyncSelect, messages, sMsgWindow, pc,
                       theCurrentEvent, ref, readable, waiting, sUniqueID, disturbed, quitting>>
    BY <1>0, <1>1 DEF Construct, Open, RequestEvent, Delete
  <2>3. \E s \in Steps : step' = [step EXCEPT ![c] = s]
    BY <1>0, <1>1 DEF Construct, Open, RequestEvent, Delete, Steps
  <2>6. step' \in [Contexts -> Steps] /\ opens' \in Nat
    <3>1. opens' \in {opens, opens + 1}
      BY <1>0, <1>1 DEF Construct, Open, RequestEvent, Delete
    <3> QED
      BY <1>0, <2>3, <3>1 DEF Steps
  <2>4. fUniqueID' \in [Contexts -> Nat]
    BY <1>0, <1>1 DEF Construct, Open, RequestEvent, Delete
  <2>5. fFileDesc' \in [Contexts -> Handles \cup {NoHandle}]
    BY <1>0, <1>1 DEF Construct, Open, RequestEvent, Delete, FreeHandles
  <2>7. socket' \in [Contexts -> Nat] /\ current' \in [Handles -> Nat]
    BY <1>0, <1>1 DEF Construct, Open, RequestEvent, Delete, FreeHandles
  <2> QED
    BY <2>1, <2>2, <2>4, <2>5, <2>6, <2>7 DEF TypeInv, Typed, TypeOK, HoldsContext, Holding, Steps
<1>2. CASE StartAgain(c) \/ TakeID(c)
  <2>1. fUniqueID' \in [Contexts -> Nat] /\ sUniqueID' \in Nat
    <3>1. CASE StartAgain(c)
      <4>1. \/ fUniqueID' = [fUniqueID EXCEPT ![c] = FirstID] /\ sUniqueID' = FirstID
            \/ UNCHANGED <<fUniqueID, sUniqueID>>
        BY <3>1 DEF StartAgain
      <4> QED
        BY <1>0, <4>1, IDsAssumption
    <3>2. CASE TakeID(c)
      <4>1. fUniqueID' = [fUniqueID EXCEPT ![c] = sUniqueID + 1] /\ sUniqueID' = sUniqueID + 1
        BY <3>2 DEF TakeID, NextID
      <4> QED
        BY <1>0, <4>1
    <3> QED
      BY <1>0, <1>2, <3>1, <3>2
  <2>2. step' \in [Contexts -> Steps]
    <3>1. \E s \in Steps : step' = [step EXCEPT ![c] = s]
      BY <1>0, <1>2 DEF StartAgain, TakeID, Steps
    <3> QED
      BY <1>0, <3>1 DEF Steps
  <2>3. UNCHANGED <<fFileDesc, fWatchEventCalled, fromContext, socket, refVars, windowVars,
                    threadVars, taskVars, opens, disturbed, quitting>>
    BY <1>2 DEF StartAgain, TakeID
  <2> QED
    BY <2>1, <2>2, <2>3 DEF TypeInv, Typed, TypeOK, HoldsContext, Holding, Steps
<1>3. CASE Register(c) \/ Cleanup(c) \/ UnRegister(c)
  <2>1. fWatchEventCalled' \in [Contexts -> BOOLEAN]
    BY <1>b, <1>3, Zenon DEF Register, Cleanup, UnRegister
  <2>2. step' \in [Contexts -> Steps]
    BY <1>0, <1>3 DEF Register, Cleanup, UnRegister, Steps
  <2>3. fTable' \subseteq Contexts /\ waiting' \subseteq Contexts
    BY <1>0, <1>3 DEF Register, Cleanup, UnRegister
  <2>4. UNCHANGED <<fFileDesc, fUniqueID, fromContext, socket, fRefCount, windowVars,
                    threadVars, readEvent, readable, countVars>>
    BY <1>3 DEF Register, Cleanup, UnRegister
  <2> QED
    BY <2>1, <2>2, <2>3, <2>4 DEF TypeInv, Typed, TypeOK, HoldsContext, Holding, Steps
<1>4. CASE CloseFirst(c) \/ Close(c)
  <2>1. PICK h \in Handles \cup {NoHandle} : h = fFileDesc[c]
    BY <1>0
  <2>2. asyncSelect' \in [Handles -> Nat] /\ current' \in [Handles -> Nat]
    BY <1>0, <1>4, <2>1 DEF CloseFirst, Close, closesocket
  <2>3. readable' \in [Handles -> BOOLEAN]
    BY <1>b, <1>4, Zenon DEF CloseFirst, Close, closesocket
  <2>4. step' \in [Contexts -> Steps]
    <3>1. \E s \in Steps : step' = [step EXCEPT ![c] = s]
      BY <1>0, <1>4 DEF CloseFirst, Close, Steps
    <3> QED
      BY <1>0, <3>1 DEF Steps
  <2>5. /\ fUniqueID' \in [Contexts -> Nat] /\ socket' \in [Contexts -> Nat]
        /\ fFileDesc' \in [Contexts -> Handles \cup {NoHandle}]
    BY <1>0, <1>4 DEF CloseFirst, Close
  <2>7. disturbed' \subseteq Nat
    <3>1. disturbed' \subseteq disturbed
      BY <1>4 DEF CloseFirst, Close, closesocket
    <3> QED
      BY <1>0, <3>1
  <2>6. UNCHANGED <<fWatchEventCalled, fromContext, refVars, messages, sMsgWindow, threadVars,
                    readEvent, waiting, sUniqueID, opens, quitting>>
    BY <1>0, <1>4 DEF CloseFirst, Close
  <2> QED
    BY <2>2, <2>3, <2>4, <2>5, <2>6, <2>7 DEF TypeInv, Typed, TypeOK, HoldsContext, Holding, Steps
<1>5. CASE Modwatch(c) \/ RunTask(c)
  <2>1. readEvent' \in [Contexts -> BOOLEAN] /\ readable' \in [Handles -> BOOLEAN]
    BY <1>b, <1>5, Zenon DEF Modwatch, RunTask
  <2>2. step' \in [Contexts -> Steps]
    <3>1. \E s \in Steps : step' = [step EXCEPT ![c] = s]
      BY <1>0, <1>5 DEF Modwatch, RunTask, Steps
    <3> QED
      BY <1>0, <3>1 DEF Steps
  <2>3. asyncSelect' \in [Handles -> Nat] /\ waiting' \subseteq Contexts
    BY <1>0, <1>5 DEF Modwatch, RunTask, Armed
  <2>4. fFileDesc[c] \in Handles
    BY <1>0, <1>5 DEF Modwatch, RunTask, TypeInv, HasHandle, Idle
  <2>5. disturbed' \subseteq Nat
    <3>1. current[fFileDesc[c]] \in Nat
      BY <1>0, <2>4
    <3>2. disturbed' \subseteq disturbed \cup {current[fFileDesc[c]]}
      BY <1>5 DEF Modwatch, RunTask, Disturbs
    <3> QED
      BY <1>0, <3>1, <3>2
  <2>6. UNCHANGED <<fFileDesc, fUniqueID, fWatchEventCalled, fromContext, socket, refVars,
                    current, messages, sMsgWindow, threadVars, sUniqueID, opens, quitting>>
    BY <1>0, <1>5 DEF Modwatch, RunTask
  <2> QED
    BY <2>1, <2>2, <2>3, <2>5, <2>6 DEF TypeInv, Typed, TypeOK, HoldsContext, Holding, Steps
<1>6. CASE Swap(c) \/ EndSnarf(c)
  <2>1. readEvent' \in [Contexts -> BOOLEAN]
    BY <1>b, <1>6, Zenon DEF Swap, EndSnarf
  <2>2. step' \in [Contexts -> Steps] /\ fTable' \subseteq Contexts
    BY <1>0, <1>6 DEF Swap, EndSnarf, Steps
  <2>3. fromContext' \in [Contexts -> Contexts \cup {NoContext}]
    BY <1>0, <1>6 DEF Swap, EndSnarf
  <2>4. UNCHANGED <<fFileDesc, fUniqueID, fWatchEventCalled, socket, fRefCount, windowVars,
                    threadVars, readable, waiting, countVars>>
    BY <1>6 DEF Swap, EndSnarf
  <2> QED
    BY <2>1, <2>2, <2>3, <2>4 DEF TypeInv, Typed, TypeOK, HoldsContext, Holding, Steps
<1>7. ASSUME NEW from \in Contexts, SnarfSocket(c, from) PROVE Typed'
  <2>1. fWatchEventCalled' \in [Contexts -> BOOLEAN]
    BY <1>b, <1>7, Zenon DEF SnarfSocket
  <2>2. step' \in [Contexts -> Steps]
    BY <1>0, <1>7 DEF SnarfSocket, Steps
  <2>3. /\ fFileDesc' \in [Contexts -> Handles \cup {NoHandle}]
        /\ fUniqueID' \in [Contexts -> Nat]
        /\ fromContext' \in [Contexts -> Contexts \cup {NoContext}]
        /\ socket' \in [Contexts -> Nat]
    BY <1>0, <1>7 DEF SnarfSocket
  <2>4. /\ waiting' \subseteq Contexts
        /\ UNCHANGED <<refVars, windowVars, threadVars, readEvent, readable, countVars>>
    BY <1>0, <1>7 DEF SnarfSocket
  <2> QED
    BY <2>1, <2>2, <2>3, <2>4 DEF TypeInv, Typed, TypeOK, HoldsContext, Holding, Steps
<1> QED
  BY <1>1, <1>2, <1>3, <1>4, <1>5, <1>6, <1>7

LEMMA AppendMessage ==
    ASSUME NEW q \in Seq(Message), NEW m \in Message PROVE Append(q, m) \in Seq(Message)
  OBVIOUS

LEMMA OneUser ==
    ASSUME NEW c \in Contexts
    PROVE  [[d \in Contexts |-> 0] EXCEPT ![c] = @ + 1]
               = [d \in Contexts |-> IF d = c THEN 1 ELSE 0]
  OBVIOUS

LEMMA OneLess ==
    ASSUME NEW c \in Contexts
    PROVE  [[d \in Contexts |-> IF d = c THEN 1 ELSE 0] EXCEPT ![c] = @ - 1]
               = [d \in Contexts |-> 0]
<1> DEFINE One == [d \in Contexts |-> IF d = c THEN 1 ELSE 0]
<1>1. One[c] - 1 = 0 /\ \A d \in Contexts : d # c => One[d] = 0
  OBVIOUS
<1>2. [One EXCEPT ![c] = @ - 1] = [d \in Contexts |-> IF d = c THEN One[c] - 1 ELSE One[d]]
  OBVIOUS
<1> QED
  BY <1>1, <1>2, Zenon

(* The steps of the event thread and of Windows: resolving adds a user,    *)
(* releasing takes one away.                                               *)
LEMMA TypeEventStep ==
    ASSUME TypeInv,
           EventThreadStep \/ SignalExit \/ \E h \in Handles : Receive(h) \/ Post(h)
    PROVE  Typed'
<1> USE DEF TypeInv, Typed, TypeOK, HoldsContext, contextVars, refVars, windowVars, threadVars,
        taskVars, countVars
<1>1. quitMessage \in Message
  BY DEF quitMessage, Message
<1>2. CASE CreateWindow \/ GetQuitMessage \/ NotFound \/ SignalExit
  <2>1. messages' \in Seq(Message)
    <3>1. messages' \in {messages, <<>>, Append(messages, quitMessage)}
      BY <1>2 DEF CreateWindow, GetQuitMessage, NotFound, SignalExit
    <3>2. messages \in Seq(Message)
      BY DEF Message
    <3>3. Append(messages, quitMessage) \in Seq(Message)
      BY <1>1, <3>2, AppendMessage
    <3>4. CASE messages' = Append(messages, quitMessage)
      BY <3>3, <3>4, Zenon
    <3>5. CASE messages' = messages
      BY <3>2, <3>5, Zenon
    <3>6. CASE messages' = <<>>
      BY <3>6
    <3> QED
      BY <3>1, <3>4, <3>5, <3>6
  <2>2. theCurrentEvent' \in Message
    BY <1>1, <1>2 DEF CreateWindow, GetQuitMessage, NotFound, SignalExit, Message
  <2>3. (~ Holding /\ ~ Holding') \/ UNCHANGED <<pc, ref>>
    BY <1>2 DEF CreateWindow, GetQuitMessage, NotFound, SignalExit, Holding
  <2>4. UNCHANGED <<fRefCount, ref>> /\ pc' \in {"waitevent", "exited", pc}
    BY <1>2 DEF CreateWindow, GetQuitMessage, NotFound, SignalExit
  <2> QED
    BY <1>2, <2>1, <2>2, <2>3, <2>4
    DEF CreateWindow, GetQuitMessage, NotFound, SignalExit, Message, Holding
<1>3. CASE GetMessage
  <2>1. messages \in Seq(Message) /\ messages # <<>>
    BY <1>3 DEF GetMessage, Message
  <2>2. Head(messages) \in Message /\ Tail(messages) \in Seq(Message)
    BY <2>1
  <2>3. asyncSelect' \in [Handles -> Nat]
    BY <1>3 DEF GetMessage
  <2>4. Head(messages).handle \in Handles
    BY <1>3, <2>2 DEF GetMessage, Message
  <2>5. disturbed' \in {disturbed, disturbed \cup {current[Head(messages).handle]}}
    BY <1>3 DEF GetMessage
  <2>6. disturbed' \subseteq Nat
    BY <2>4, <2>5
  <2> QED
    BY <1>3, <2>2, <2>3, <2>6 DEF GetMessage, Message, Holding
<1>4. CASE Resolve
  <2>1. PICK c \in Map(theCurrentEvent.id) :
           ref' = c /\ fRefCount' = [fRefCount EXCEPT ![c] = @ + 1]
    BY <1>4 DEF Resolve
  <2>2. c \in Contexts
    BY DEF Map
  <2>3. ~ Holding /\ Holding' /\ pc' = "processEvent"
    BY <1>4 DEF Resolve, Holding
  <2>4. fRefCount = [d \in Contexts |-> 0]
    BY <2>3
  <2>5. fRefCount' = [d \in Contexts |-> IF d = c THEN 1 ELSE 0]
    BY <2>1, <2>2, <2>4, OneUser, Zenon
  <2> QED
    BY <1>4, <2>1, <2>2, <2>3, <2>5 DEF Resolve
<1>5. CASE ProcessEvent
  <2>1. readEvent' \in [Contexts -> BOOLEAN]
    BY <1>5, Zenon DEF ProcessEvent
  <2>2. Holding /\ Holding' /\ pc' = "release" /\ waiting' \subseteq Contexts
    BY <1>5 DEF ProcessEvent, Holding
  <2> QED
    BY <1>5, <2>1, <2>2 DEF ProcessEvent
<1>6. CASE Release
  <2>1. Holding /\ ~ Holding' /\ pc' = "waitevent" /\ ref \in Contexts
    BY <1>6 DEF Release, Holding
  <2>2. fRefCount = [d \in Contexts |-> IF d = ref THEN 1 ELSE 0]
    BY <2>1
  <2>4. fRefCount' = [fRefCount EXCEPT ![ref] = @ - 1]
    BY <1>6 DEF Release, Released
  <2>3. fRefCount' = [d \in Contexts |-> 0]
    BY <2>1, <2>2, <2>4, OneLess, Zenon
  <2> QED
    BY <1>1, <1>6, <2>1, <2>3 DEF Release, Message
<1>7. ASSUME NEW h \in Handles, Post(h) PROVE Typed'
  <2>1. [handle |-> h, id |-> asyncSelect[h], socket |-> current[h]] \in Message
    BY DEF Message
  <2>2. messages' \in Seq(Message)
    BY <1>7, <2>1 DEF Post, Message
  <2> QED
    BY <1>7, <2>2 DEF Post, Message, Holding
<1>8. ASSUME NEW h \in Handles, Receive(h) PROVE Typed'
  <2>1. readable' \in [Handles -> BOOLEAN]
    BY <1>8, Zenon DEF Receive
  <2> QED
    BY <1>8, <2>1 DEF Receive, Holding
<1> QED
  BY <1>2, <1>3, <1>4, <1>5, <1>6, <1>7, <1>8 DEF EventThreadStep

(* Opening and taking over come with a handle, closing and giving away     *)
(* end the use of it.                                                      *)
LEMMA HandleNext == TypeInv /\ [Next]_vars => HasHandle'
<1> SUFFICES ASSUME TypeInv, [Next]_vars PROVE HasHandle'
  OBVIOUS
<1> USE DEF contextVars, refVars, windowVars, threadVars, taskVars, countVars, Goto, Idle
<1>0. /\ step \in [Contexts -> Steps] /\ fFileDesc \in [Contexts -> Handles \cup {NoHandle}]
      /\ NoHandle \notin Handles /\ HasHandle
  BY NamesAssumption DEF TypeInv, Typed, TypeOK, Steps
<1>1. CASE UNCHANGED <<step, fFileDesc>>
  BY <1>0, <1>1 DEF HasHandle
<1>2. ASSUME NEW c \in Contexts, UNCHANGED fFileDesc, \A d \in Contexts \ {c} : step'[d] = step[d],
             step[c] \in Idle => step'[c] \in Idle
      PROVE  HasHandle'
  BY <1>0, <1>2 DEF HasHandle
<1>3. ASSUME NEW c \in Contexts,
             CallStep(c) \/ Construct(c) \/ Open(c) \/ RequestEvent(c) \/ Cleanup(c)
               \/ Delete(c)
      PROVE  HasHandle'
  <2>1. CASE Construct(c) \/ RequestEvent(c) \/ Cleanup(c) \/ Delete(c)
             \/ StartAgain(c) \/ TakeID(c) \/ Register(c) \/ Modwatch(c) \/ RunTask(c)
             \/ UnRegister(c) \/ CloseFirst(c) \/ Swap(c)
    <3>1. /\ UNCHANGED fFileDesc
          /\ \A d \in Contexts \ {c} : step'[d] = step[d]
          /\ step[c] \in Idle => step'[c] \in Idle
      BY <1>0, <2>1 DEF Construct, RequestEvent, Cleanup, Delete, StartAgain, TakeID,
         Register, Modwatch, RunTask, UnRegister, CloseFirst, Swap
    <3> QED
      BY <1>2, <3>1
  <2>2. CASE Open(c)
    <3>1. PICK h \in Handles : fFileDesc' = [fFileDesc EXCEPT ![c] = h]
      BY <2>2 DEF Open, FreeHandles
    <3>2. step' = [step EXCEPT ![c] = "open"]
      BY <2>2 DEF Open
    <3> QED
      BY <1>0, <3>1, <3>2 DEF HasHandle
  <2>3. CASE Close(c)
    BY <1>0, <2>3 DEF Close, HasHandle
  <2>4. CASE EndSnarf(c)
    <3>1. PICK from : from = fromContext[c]
      OBVIOUS
    <3>2. /\ UNCHANGED fFileDesc /\ step[c] = "swapped"
          /\ step' = [step EXCEPT ![c] = "open", ![from] = "closed"]
      BY <2>4, <3>1 DEF EndSnarf
    <3> QED
      BY <1>0, <3>2 DEF HasHandle
  <2> QED
    BY <1>3, <2>1, <2>2, <2>3, <2>4 DEF CallStep
<1>4. ASSUME NEW c \in Contexts, NEW from \in Contexts, SnarfSocket(c, from) PROVE HasHandle'
  BY <1>0, <1>4 DEF SnarfSocket, HasHandle
<1>5. CASE UNCHANGED vars \/ EventThreadStep \/ SignalExit
           \/ \E h \in Handles : Receive(h) \/ Post(h)
  BY <1>1, <1>5 DEF vars, EventThreadStep, CreateWindow, GetMessage, GetQuitMessage, NotFound,
     Resolve, ProcessEvent, Release, SignalExit, Receive, Post
<1> QED
  BY <1>3, <1>4, <1>5 DEF Next

LEMMA TypeNext == TypeInv /\ [Next]_vars => TypeInv'
<1> SUFFICES ASSUME TypeInv, [Next]_vars PROVE Typed'
  BY HandleNext DEF TypeInv
<1>1. CASE UNCHANGED vars
  BY <1>1 DEF vars, TypeInv, Typed, TypeOK, HoldsContext, Holding, contextVars, refVars,
     windowVars, threadVars, taskVars, countVars
<1> QED
  BY <1>1, TypeContextStep, TypeEventStep DEF Next, CallStep

(* Every variable keeps its type and every reference the count of its      *)
(* users, which the event thread alone changes.                            *)
THEOREM EventTypeCorrect == Spec => []TypeOK
<1>1. TypeInv => TypeOK
  BY DEF TypeInv, Typed
<1> QED
  BY <1>1, TypeInit, TypeNext, PTL DEF Spec

-----------------------------------------------------------------------------
(* A context in use, from the table or by the event thread, has a socket   *)
(* and an ID.  The ID matters because Cleanup only unregisters a context   *)
(* that has one.                                                           *)

InUse(c) == c \in fTable \/ (Holding /\ ref = c)
Dead == {"none", "closed", "closeFirst", "close"}

UseInv ==
    /\ sUniqueID > 0
    /\ \A c \in Contexts : step[c] = "register" => fUniqueID[c] > 0
    /\ \A c \in Contexts : InUse(c) => step[c] \notin Dead /\ fUniqueID[c] > 0

LEMMA UseInit == Init => UseInv
  BY IDsAssumption DEF Init, UseInv, InUse, Dead, Holding

(* The steps of a context neither put it to use nor end its life.          *)
LEMMA UseOfOther ==
    ASSUME TypeInv, UseInv, sUniqueID' > 0, UNCHANGED <<pc, ref>>, NEW c \in Contexts,
           \A d \in Contexts \ {c} : /\ step'[d] = step[d] /\ fUniqueID'[d] = fUniqueID[d]
                                     /\ d \in fTable' => d \in fTable,
           step'[c] = "register" => fUniqueID'[c] > 0,
           InUse(c)' => step'[c] \notin Dead /\ fUniqueID'[c] > 0
    PROVE  UseInv'
<1>1. \A d \in Contexts \ {c} : InUse(d)' => InUse(d)
  BY DEF InUse, Holding
<1> QED
  BY <1>1 DEF UseInv

LEMMA UseContextStep ==
    ASSUME TypeInv, UseInv, NEW c \in Contexts,
           \/ Construct(c) \/ Open(c) \/ RequestEvent(c) \/ StartAgain(c) \/ TakeID(c)
           \/ Register(c) \/ Modwatch(c) \/ RunTask(c) \/ Cleanup(c) \/ UnRegister(c)
           \/ CloseFirst(c) \/ Close(c) \/ Delete(c)
    PROVE  UseInv'
<1> USE DEF Goto, contextVars, refVars, windowVars, threadVars, taskVars, countVars, Dead
<1>1. /\ step \in [Contexts -> Steps] /\ fUniqueID \in [Contexts -> Nat] /\ sUniqueID \in Nat
      /\ fRefCount = [d \in Contexts |-> IF Holding /\ d = ref THEN 1 ELSE 0]
      /\ fTable \subseteq Contexts
  BY DEF TypeInv, Typed, TypeOK, Steps
<1>2. InUse(c) => step[c] \notin Dead /\ fUniqueID[c] > 0
  BY DEF UseInv
<1>3. sUniqueID > 0
  BY DEF UseInv
<1>4. CASE Construct(c) \/ Open(c) \/ CloseFirst(c) \/ Close(c) \/ Delete(c)
  <2>1. /\ UNCHANGED <<pc, ref, sUniqueID, fTable>> /\ step'[c] # "register"
        /\ \A d \in Contexts \ {c} : step'[d] = step[d] /\ fUniqueID'[d] = fUniqueID[d]
    BY <1>1, <1>4 DEF Construct, Open, CloseFirst, Close, Delete
  <2>2. step[c] \in Dead
    BY <1>4 DEF Construct, Open, CloseFirst, Close, Delete
  <2>3. ~ InUse(c)'
    BY <1>2, <2>1, <2>2 DEF InUse, Holding
  <2> QED
    BY <1>3, <2>1, <2>3, UseOfOther
<1>5. CASE RequestEvent(c) \/ Modwatch(c) \/ RunTask(c)
  <2>1. /\ UNCHANGED <<pc, ref, sUniqueID, fTable, fUniqueID>>
        /\ step'[c] \in {"uniqueID", "modwatch", "open", step[c]}
        /\ \A d \in Contexts \ {c} : step'[d] = step[d]
    BY <1>1, <1>5 DEF RequestEvent, Modwatch, RunTask
  <2>2. step'[c] = "register" => fUniqueID'[c] > 0
    BY <2>1 DEF UseInv
  <2>3. InUse(c)' => InUse(c)
    BY <2>1 DEF InUse, Holding
  <2>4. InUse(c)' => step'[c] \notin Dead /\ fUniqueID'[c] > 0
    BY <1>2, <2>1, <2>3
  <2> QED
    BY <1>3, <2>1, <2>2, <2>4, UseOfOther
<1>6. CASE StartAgain(c) \/ TakeID(c)
  <2>1. /\ UNCHANGED <<pc, ref, fTable>> /\ step'[c] \in {"atomicAdd", "register"}
        /\ \A d \in Contexts \ {c} : step'[d] = step[d] /\ fUniqueID'[d] = fUniqueID[d]
    BY <1>1, <1>6 DEF StartAgain, TakeID
  <2>2. sUniqueID' > 0 /\ (step'[c] = "register" => fUniqueID'[c] > 0)
    BY <1>1, <1>3, <1>6, IDsAssumption DEF StartAgain, TakeID, NextID
  <2>3. InUse(c)' => InUse(c)
    BY <2>1 DEF InUse, Holding
  <2>4. fUniqueID'[c] > 0 \/ fUniqueID'[c] = fUniqueID[c]
    BY <1>1, <1>3, <1>6, IDsAssumption DEF StartAgain, TakeID, NextID
  <2> QED
    BY <1>2, <2>1, <2>2, <2>3, <2>4, UseOfOther
<1>7. CASE Register(c)
  <2>1. /\ UNCHANGED <<pc, ref, sUniqueID, fUniqueID>> /\ step'[c] = "modwatch"
        /\ \A d \in Contexts \ {c} : step'[d] = step[d] /\ (d \in fTable' => d \in fTable)
        /\ step[c] = "register"
    BY <1>1, <1>7 DEF Register
  <2>2. fUniqueID'[c] > 0
    BY <2>1 DEF UseInv
  <2> QED
    BY <1>3, <2>1, <2>2, UseOfOther
<1>8. CASE Cleanup(c)
  <2>1. /\ UNCHANGED <<pc, ref, sUniqueID, fTable, fUniqueID>>
        /\ step'[c] = IF fUniqueID[c] > 0 THEN "unregister" ELSE "close"
        /\ \A d \in Contexts \ {c} : step'[d] = step[d]
    BY <1>1, <1>8 DEF Cleanup
  <2>2. InUse(c)' => InUse(c)
    BY <2>1 DEF InUse, Holding
  <2> QED
    BY <1>2, <1>3, <2>1, <2>2, UseOfOther
<1>9. CASE UnRegister(c)
  <2>1. /\ UNCHANGED <<pc, ref, sUniqueID, fUniqueID>> /\ step'[c] = "closeFirst"
        /\ \A d \in Contexts \ {c} : step'[d] = step[d]
        /\ fTable' = fTable \ {c} /\ fRefCount[c] = 0
    BY <1>1, <1>9 DEF UnRegister, Unused
  <2>2. ~ (Holding /\ ref = c)
    BY <1>1, <2>1
  <2>3. ~ InUse(c)'
    BY <2>1, <2>2 DEF InUse, Holding
  <2> QED
    BY <1>3, <2>1, <2>3, UseOfOther
<1> QED
  BY <1>4, <1>5, <1>6, <1>7, <1>8, <1>9

(* Taking over a socket: the donor is only closed once nobody uses it.     *)
LEMMA UseSnarf ==
    ASSUME TypeInv, UseInv, NEW c \in Contexts,
           Swap(c) \/ EndSnarf(c) \/ \E from \in Contexts : SnarfSocket(c, from)
    PROVE  UseInv'
<1> USE DEF Goto, contextVars, refVars, windowVars, threadVars, taskVars, countVars, Dead
<1>1. /\ step \in [Contexts -> Steps] /\ fUniqueID \in [Contexts -> Nat] /\ sUniqueID \in Nat
      /\ fRefCount = [d \in Contexts |-> IF Holding /\ d = ref THEN 1 ELSE 0]
      /\ fTable \subseteq Contexts /\ fromContext \in [Contexts -> Contexts \cup {NoContext}]
  BY DEF TypeInv, Typed, TypeOK, Steps
<1>2. sUniqueID > 0 /\ \A d \in Contexts : InUse(d) => step[d] \notin Dead /\ fUniqueID[d] > 0
  BY DEF UseInv
<1>3. CASE Swap(c)
  <2>1. /\ UNCHANGED <<pc, ref, sUniqueID, fUniqueID>> /\ step'[c] = "swapped"
        /\ \A d \in Contexts \ {c} : step'[d] = step[d] /\ (d \in fTable' => d \in fTable)
    BY <1>1, <1>3 DEF Swap
  <2>2. c \in fTable' => fUniqueID[c] > 0
    <3>1. CASE Map(fUniqueID[c]) = {}
      BY <1>2, <1>3, <3>1 DEF Swap, InUse
    <3>2. CASE Map(fUniqueID[c]) # {}
      BY <1>1, <1>2, <3>2 DEF Map, InUse
    <3> QED
      BY <3>1, <3>2
  <2>3. InUse(c)' => fUniqueID'[c] > 0
    BY <1>2, <2>1, <2>2 DEF InUse, Holding
  <2> QED
    BY <1>2, <2>1, <2>3, UseOfOther
<1>4. CASE EndSnarf(c)
  <2>1. PICK from \in Contexts \cup {NoContext} : from = fromContext[c]
    BY <1>1
  <2>2. /\ UNCHANGED <<pc, ref, sUniqueID, fUniqueID>> /\ fTable' = fTable \ {from}
        /\ step' = [step EXCEPT ![c] = "open", ![from] = "closed"] /\ fRefCount[from] = 0
    BY <1>4, <2>1 DEF EndSnarf, Unused
  <2>3. ASSUME NEW d \in Contexts, InUse(d)' PROVE InUse(d) /\ d # from
    BY <1>1, <2>2, <2>3 DEF InUse, Holding
  <2>4. \A d \in Contexts : step'[d] \in {"open", "closed", step[d]}
    BY <1>1, <2>2
  <2>5. \A d \in Contexts \ {from} : step'[d] \in {"open", step[d]}
    BY <1>1, <2>2
  <2> QED
    BY <1>2, <2>2, <2>3, <2>4, <2>5 DEF UseInv
<1>5. ASSUME NEW from \in Contexts, SnarfSocket(c, from) PROVE UseInv'
  <2>1. /\ UNCHANGED <<pc, ref, sUniqueID, fTable>> /\ step[c] = "closed"
        /\ step'[c] = "swap" /\ step'[from] = "snarfed"
        /\ \A d \in Contexts \ {c, from} : step'[d] = step[d]
        /\ \A d \in Contexts \ {c} : fUniqueID'[d] = fUniqueID[d]
    BY <1>1, <1>5 DEF SnarfSocket
  <2>2. \A d \in Contexts : InUse(d)' => InUse(d)
    BY <2>1 DEF InUse, Holding
  <2>3. ~ InUse(c)
    BY <1>2, <2>1
  <2> QED
    BY <1>2, <2>1, <2>2, <2>3 DEF UseInv
<1> QED
  BY <1>3, <1>4, <1>5

LEMMA UseNext == TypeInv /\ UseInv /\ [Next]_vars => UseInv'
<1> SUFFICES ASSUME TypeInv, UseInv, [Next]_vars PROVE UseInv'
  OBVIOUS
<1> USE DEF contextVars, refVars, windowVars, threadVars, taskVars, countVars
<1>1. ASSUME UNCHANGED <<step, fUniqueID, fTable, sUniqueID>>, Holding' => Holding /\ ref' = ref
      PROVE  UseInv'
  BY <1>1 DEF UseInv, InUse
<1>2. CASE UNCHANGED vars
  BY <1>1, <1>2 DEF vars, Holding
<1>3. CASE CreateWindow \/ GetMessage \/ GetQuitMessage \/ NotFound \/ ProcessEvent \/ Release
  BY <1>1, <1>3 DEF CreateWindow, GetMessage, GetQuitMessage, NotFound, ProcessEvent, Release,
     Holding
<1>4. CASE SignalExit \/ \E h \in Handles : Receive(h) \/ Post(h)
  BY <1>1, <1>4 DEF SignalExit, Receive, Post, Holding
<1>5. CASE Resolve
  <2>1. PICK c \in fTable : ref' = c
    BY <1>5 DEF Resolve, Map
  <2>2. UNCHANGED <<step, fUniqueID, fTable, sUniqueID>>
    BY <1>5 DEF Resolve
  <2>3. \A d \in Contexts : InUse(d)' => InUse(d)
    BY <2>1, <2>2 DEF InUse
  <2> QED
    BY <2>2, <2>3 DEF UseInv
<1> QED
  BY <1>2, <1>3, <1>4, <1>5, UseContextStep, UseSnarf DEF Next, CallStep, EventThreadStep

(* The event thread is never inside a context that is deleted or has no    *)
(* socket, whatever the IDs in the table.                                  *)
THEOREM NeverInsideDead == Spec => []ResolvedIsAlive
<1>1. TypeInv /\ UseInv => ResolvedIsAlive
  BY DEF TypeInv, Typed, HoldsContext, UseInv, InUse, Dead, ResolvedIsAlive
<1> QED
  BY <1>1, TypeInit, TypeNext, UseInit, UseNext, PTL DEF Spec

-----------------------------------------------------------------------------
(* A message reaches the context of its socket.  The ID in it is that of   *)
(* the socket's owner, because a socket has taken its ID before it is      *)
(* armed (WatchInv) and a context arms another's socket only if its own    *)
(* was closed under it (Robbed); and of two contexts with one ID, one has  *)
(* given its socket away (IDInv), as long as the IDs have not started      *)
(* again.                                                                  *)

ContextStep(c) ==
    \/ CallStep(c) \/ Construct(c) \/ Open(c) \/ RequestEvent(c) \/ Cleanup(c) \/ Delete(c)

TakesOver(c) == step[c] \in {"swap", "swapped"}
GaveAway(c) == step[c] \in {"snarfed", "closed"}

WatchOf(c) ==
    /\ step[c] \in {"uniqueID", "atomicAdd", "register"} => ~ fWatchEventCalled[c]
    /\ step[c] \in {"modwatch", "swap", "swapped"} => fWatchEventCalled[c]
    /\ fUniqueID[c] > 0 => fWatchEventCalled[c] \/ step[c] = "register"
    /\ InUse(c) => fWatchEventCalled[c]

WatchInv == \A c \in Contexts : WatchOf(c)

DonorInv ==
    \A c \in Contexts : TakesOver(c) =>
        /\ fromContext[c] \in Contexts /\ step[fromContext[c]] = "snarfed"
        /\ \A d \in Contexts \ {c} : TakesOver(d) => fromContext[d] # fromContext[c]

IDInv ==
    \A c \in Contexts :
        /\ fUniqueID[c] <= sUniqueID
        /\ \A d \in Contexts \ {c} :
              fUniqueID[c] = fUniqueID[d] /\ fUniqueID[c] > 0 => GaveAway(c) \/ GaveAway(d)

(* A socket has one owner, and the handle that names it is the owner's.    *)
SocketOf(c) ==
    /\ socket[c] <= opens /\ (fFileDesc[c] = NoHandle <=> socket[c] = 0)
    /\ \A d \in Contexts \ {c} : socket[c] = socket[d] => socket[c] = 0
    /\ \A h \in Handles : current[h] = socket[c] /\ socket[c] > 0 => fFileDesc[c] = h

SocketInv ==
    /\ \A c \in Contexts : SocketOf(c)
    /\ \A h \in Handles : current[h] <= opens /\ (current[h] = 0 => asyncSelect[h] = 0)

(* An ID under which something is known about socket s: whoever has it     *)
(* owns s.                                                                 *)
About(s, id) ==
    \A c \in Contexts : fUniqueID[c] = id => socket[c] = s \/ Robbed(c) \/ GaveAway(c)

ArmedInv ==
    \A h \in Handles : asyncSelect[h] > 0 =>
        asyncSelect[h] <= sUniqueID /\ About(current[h], asyncSelect[h])

AboutOwner(m) == m # quitMessage => m.id > 0 /\ m.id <= sUniqueID /\ About(m.socket, m.id)

Pending == Messages \cup IF pc \in {"resolve", "processEvent", "release"}
                         THEN {theCurrentEvent} ELSE {}

MessageInv ==
    /\ \A m \in Pending : AboutOwner(m)
    /\ pc \in {"resolve", "processEvent", "release"} => theCurrentEvent # quitMessage
    /\ Holding => fUniqueID[ref] = theCurrentEvent.id

(* What the invariants say at first.                                       *)
LEMMA OwnInit == Init => WatchInv /\ DonorInv /\ SocketInv /\ IDInv /\ ArmedInv /\ MessageInv
<1> SUFFICES ASSUME Init
             PROVE  WatchInv /\ DonorInv /\ SocketInv /\ IDInv /\ ArmedInv /\ MessageInv
  OBVIOUS
<1>1. WatchInv /\ DonorInv /\ ArmedInv
  BY DEF Init, WatchInv, WatchOf, DonorInv, ArmedInv, InUse, Holding, TakesOver
<1>2. IDInv /\ MessageInv
  BY IDsAssumption DEF Init, IDInv, MessageInv, Pending, Messages, Holding
<1>3. SocketInv
  BY DEF Init, SocketInv, SocketOf
<1> QED
  BY <1>1, <1>2, <1>3

(* Only contexts are watched, and being watched ends with their deletion.  *)
LEMMA WatchNext == TypeInv /\ UseInv /\ DonorInv /\ WatchInv /\ [Next]_vars => WatchInv'
<1> SUFFICES ASSUME TypeInv, UseInv, DonorInv, WatchInv, [Next]_vars PROVE WatchInv'
  OBVIOUS
<1> USE DEF contextVars, refVars, windowVars, threadVars, taskVars, countVars, Goto
<1>0. /\ step \in [Contexts -> Steps] /\ fUniqueID \in [Contexts -> Nat]
      /\ fWatchEventCalled \in [Contexts -> BOOLEAN] /\ fTable \subseteq Contexts
      /\ HoldsContext
  BY DEF TypeInv, Typed, TypeOK, Steps
<1>1. ASSUME UNCHANGED <<step, fUniqueID, fWatchEventCalled, fTable>>,
             Holding' => Holding /\ ref' = ref
      PROVE  WatchInv'
  BY <1>1 DEF WatchInv, WatchOf, InUse
<1>2. CASE UNCHANGED vars \/ CreateWindow \/ GetMessage \/ GetQuitMessage \/ NotFound
           \/ ProcessEvent \/ Release \/ SignalExit \/ \E h \in Handles : Receive(h) \/ Post(h)
  BY <1>1, <1>2 DEF vars, CreateWindow, GetMessage, GetQuitMessage, NotFound, ProcessEvent,
     Release, SignalExit, Receive, Post, Holding
<1>3. CASE Resolve
  <2>1. PICK c \in fTable : ref' = c
    BY <1>3 DEF Resolve, Map
  <2>2. UNCHANGED <<step, fUniqueID, fWatchEventCalled, fTable>>
    BY <1>3 DEF Resolve
  <2>3. \A d \in Contexts : InUse(d)' => InUse(d)
    BY <2>1, <2>2 DEF InUse
  <2> QED
    BY <2>2, <2>3 DEF WatchInv, WatchOf
<1>4. ASSUME NEW c \in Contexts, UNCHANGED <<pc, ref>>, WatchOf(c)',
             \A d \in Contexts \ {c} :
                /\ step'[d] \in {step[d], "snarfed", "closed"} /\ fUniqueID'[d] = fUniqueID[d]
                /\ fWatchEventCalled'[d] = fWatchEventCalled[d]
                /\ step'[d] = step[d] \/ step[d] # "register"
                /\ d \in fTable' => d \in fTable
      PROVE  WatchInv'
  BY <1>4 DEF WatchInv, WatchOf, InUse, Holding
<1>5. ASSUME NEW c \in Contexts, ContextStep(c)
      PROVE  WatchInv'
  <2>1. UNCHANGED <<pc, ref>> /\ WatchOf(c) /\ (Holding' <=> Holding)
    BY <1>5 DEF ContextStep, CallStep, Construct, Open, RequestEvent, Cleanup, Delete,
       StartAgain, TakeID, Register, Modwatch, RunTask, UnRegister, CloseFirst, Close, Swap,
       EndSnarf, WatchInv, Holding
  <2>2. CASE Construct(c) \/ Open(c) \/ RequestEvent(c) \/ Cleanup(c)
             \/ Modwatch(c) \/ RunTask(c) \/ UnRegister(c) \/ CloseFirst(c)
    <3>1. /\ UNCHANGED <<fUniqueID, fWatchEventCalled>>
          /\ \A d \in Contexts \ {c} : step'[d] = step[d]
          /\ \A d \in Contexts : d \in fTable' => d \in fTable
          /\ \/ step'[c] \in {"closed", "open", "unregister", "closeFirst", "close"}
             \/ step'[c] = step[c]
             \/ step'[c] = IF fWatchEventCalled[c] THEN "modwatch" ELSE "uniqueID"
          /\ step[c] # "register" \/ step'[c] = step[c]
      BY <1>0, <2>2 DEF Construct, Open, RequestEvent, Cleanup, Modwatch, RunTask,
         UnRegister, CloseFirst
    <3>2. WatchOf(c)'
      BY <1>0, <2>1, <3>1 DEF WatchOf, InUse
    <3> QED
      BY <1>4, <2>1, <3>1, <3>2
  <2>3. CASE Close(c) \/ Delete(c)
    <3>1. /\ UNCHANGED fTable /\ fUniqueID' = [fUniqueID EXCEPT ![c] = 0]
          /\ \A d \in Contexts \ {c} :
                step'[d] = step[d] /\ fWatchEventCalled'[d] = fWatchEventCalled[d]
          /\ step'[c] \in {"none", "closed"} /\ step[c] \in Dead
      BY <1>0, <2>3 DEF Close, Delete, Dead
    <3>2. ~ InUse(c)'
      BY <2>1, <3>1 DEF UseInv, InUse
    <3>3. WatchOf(c)'
      BY <1>0, <3>1, <3>2 DEF WatchOf
    <3> QED
      BY <1>0, <1>4, <2>1, <3>1, <3>3
  <2>4. CASE StartAgain(c) \/ TakeID(c)
    <3>1. /\ UNCHANGED <<fTable, fWatchEventCalled>>
          /\ \A d \in Contexts \ {c} : step'[d] = step[d] /\ fUniqueID'[d] = fUniqueID[d]
          /\ \/ step'[c] = "register"
             \/ step'[c] = "atomicAdd" /\ fUniqueID'[c] = fUniqueID[c]
          /\ step[c] \in {"uniqueID", "atomicAdd"}
      BY <1>0, <2>4 DEF StartAgain, TakeID
    <3>2. WatchOf(c)'
      BY <1>0, <2>1, <3>1 DEF WatchOf, InUse
    <3> QED
      BY <1>4, <2>1, <3>1, <3>2
  <2>5. CASE Register(c)
    <3>1. /\ UNCHANGED fUniqueID /\ fWatchEventCalled' = [fWatchEventCalled EXCEPT ![c] = TRUE]
          /\ \A d \in Contexts \ {c} : step'[d] = step[d] /\ (d \in fTable' => d \in fTable)
          /\ step'[c] = "modwatch"
      BY <1>0, <2>5 DEF Register
    <3>2. WatchOf(c)'
      BY <1>0, <3>1 DEF WatchOf
    <3> QED
      BY <1>0, <1>4, <2>1, <3>1, <3>2
  <2>6. CASE Swap(c)
    <3>1. /\ UNCHANGED <<fUniqueID, fWatchEventCalled>> /\ step'[c] = "swapped"
          /\ \A d \in Contexts \ {c} : step'[d] = step[d] /\ (d \in fTable' => d \in fTable)
          /\ step[c] = "swap"
      BY <1>0, <2>6 DEF Swap
    <3>2. WatchOf(c)'
      BY <1>0, <2>1, <3>1 DEF WatchOf
    <3> QED
      BY <1>4, <2>1, <3>1, <3>2
  <2>7. CASE EndSnarf(c)
    <3>1. /\ UNCHANGED <<fUniqueID, fWatchEventCalled>> /\ step[c] = "swapped"
          /\ \A d \in Contexts : step'[d] \in {step[d], "open", "closed"}
          /\ \A d \in Contexts : d \in fTable' => d \in fTable
      BY <1>0, <2>7 DEF EndSnarf
    <3>2. ASSUME NEW d \in Contexts PROVE WatchOf(d)'
      <4>1. WatchOf(d) /\ (InUse(d)' => InUse(d))
        BY <2>1, <3>1 DEF WatchInv, InUse
      <4>2. CASE step'[d] = step[d]
        BY <3>1, <4>1, <4>2 DEF WatchOf
      <4>3. CASE step'[d] # step[d] /\ step[d] # "register"
        BY <3>1, <4>1, <4>3 DEF WatchOf
      <4>4. CASE step'[d] # step[d] /\ step[d] = "register"
        BY <1>0, <2>7, <3>1, <4>4 DEF EndSnarf, DonorInv, TakesOver
      <4> QED
        BY <4>2, <4>3, <4>4
    <3> QED
      BY <3>2 DEF WatchInv
  <2> QED
    BY <1>5, <2>2, <2>3, <2>4, <2>5, <2>6, <2>7 DEF ContextStep, CallStep
<1>6. ASSUME NEW c \in Contexts, NEW from \in Contexts, SnarfSocket(c, from) PROVE WatchInv'
  <2>1. /\ UNCHANGED <<pc, ref, fTable>> /\ step[c] = "closed"
        /\ step[from] = "open" /\ fUniqueID[from] > 0
        /\ step' = [step EXCEPT ![c] = "swap", ![from] = "snarfed"]
        /\ fUniqueID' = [fUniqueID EXCEPT ![c] = fUniqueID[from]]
        /\ fWatchEventCalled' = [fWatchEventCalled EXCEPT ![c] = fWatchEventCalled[from]]
    BY <1>6 DEF SnarfSocket
  <2>2. fWatchEventCalled[from]
    BY <2>1 DEF WatchInv, WatchOf
  <2>3. WatchOf(c)'
    BY <1>0, <2>1, <2>2 DEF WatchOf
  <2>4. \A d \in Contexts \ {c} :
           /\ step'[d] = step[d] \/ (step'[d] = "snarfed" /\ step[d] = "open")
           /\ fUniqueID'[d] = fUniqueID[d] /\ fWatchEventCalled'[d] = fWatchEventCalled[d]
    BY <1>0, <2>1
  <2> QED
    BY <1>4, <2>1, <2>3, <2>4
<1> QED
  BY <1>2, <1>3, <1>5, <1>6 DEF Next, ContextStep, EventThreadStep

(* A donor waits for the one that takes over its socket, which is one.     *)
LEMMA DonorNext == TypeInv /\ DonorInv /\ [Next]_vars => DonorInv'
<1> SUFFICES ASSUME TypeInv, DonorInv, [Next]_vars PROVE DonorInv'
  OBVIOUS
<1> USE DEF contextVars, refVars, windowVars, threadVars, taskVars, countVars, Goto
<1>0. /\ step \in [Contexts -> Steps]
      /\ fromContext \in [Contexts -> Contexts \cup {NoContext}]
  BY DEF TypeInv, Typed, TypeOK, Steps
<1>1. CASE UNCHANGED <<step, fromContext>>
  BY <1>1 DEF DonorInv, TakesOver
<1>2. ASSUME NEW c \in Contexts, UNCHANGED fromContext, step[c] # "snarfed",
             \A d \in Contexts \ {c} : step'[d] = step[d],
             step'[c] \in {"swap", "swapped"} => TakesOver(c)
      PROVE  DonorInv'
  BY <1>2 DEF DonorInv, TakesOver
<1>3. ASSUME NEW c \in Contexts, ContextStep(c)
      PROVE  DonorInv'
  <2>1. CASE Construct(c) \/ Open(c) \/ RequestEvent(c) \/ Cleanup(c) \/ Delete(c)
             \/ StartAgain(c) \/ TakeID(c) \/ Register(c) \/ Modwatch(c) \/ RunTask(c)
             \/ UnRegister(c) \/ CloseFirst(c) \/ Close(c) \/ Swap(c)
    <3>1. /\ UNCHANGED fromContext /\ step[c] # "snarfed"
          /\ \A d \in Contexts \ {c} : step'[d] = step[d]
          /\ step'[c] \in {"swap", "swapped"} => step[c] = "swap"
      BY <1>0, <2>1 DEF Construct, Open, RequestEvent, Cleanup, Delete, StartAgain, TakeID,
         Register, Modwatch, RunTask, UnRegister, CloseFirst, Close, Swap
    <3> QED
      BY <1>2, <3>1 DEF TakesOver
  <2>2. CASE EndSnarf(c)
    <3>1. PICK from \in Contexts : from = fromContext[c] /\ step[from] = "snarfed"
      BY <2>2 DEF EndSnarf, DonorInv, TakesOver
    <3>2. /\ step[c] = "swapped" /\ step' = [step EXCEPT ![c] = "open", ![from] = "closed"]
          /\ fromContext' = [fromContext EXCEPT ![c] = NoContext]
      BY <2>2, <3>1 DEF EndSnarf
    <3>3. \A d \in Contexts : TakesOver(d)' => d # c /\ TakesOver(d)
      BY <1>0, <3>1, <3>2 DEF TakesOver
    <3>4. \A d \in Contexts \ {c} : /\ fromContext'[d] = fromContext[d]
                                    /\ TakesOver(d) => fromContext[d] # from
      BY <1>0, <3>1, <3>2 DEF DonorInv, TakesOver
    <3>5. \A d \in Contexts : step[d] = "snarfed" /\ d # from => step'[d] = "snarfed"
      BY <1>0, <3>2
    <3>6. ASSUME NEW d \in Contexts, TakesOver(d)'
          PROVE  /\ fromContext'[d] \in Contexts /\ step'[fromContext'[d]] = "snarfed"
                 /\ \A e \in Contexts \ {d} : TakesOver(e)' => fromContext'[e] # fromContext'[d]
      <4>1. /\ d # c /\ TakesOver(d) /\ fromContext'[d] = fromContext[d]
            /\ fromContext[d] # from
        BY <3>3, <3>4, <3>6
      <4>2. /\ fromContext[d] \in Contexts /\ step[fromContext[d]] = "snarfed"
            /\ \A e \in Contexts \ {d} : TakesOver(e) => fromContext[e] # fromContext[d]
        BY <4>1 DEF DonorInv
      <4> QED
        BY <3>3, <3>4, <3>5, <4>1, <4>2
    <3> QED
      BY <3>6 DEF DonorInv
  <2> QED
    BY <1>3, <2>1, <2>2 DEF ContextStep, CallStep
<1>4. ASSUME NEW c \in Contexts, NEW from \in Contexts, SnarfSocket(c, from) PROVE DonorInv'
  <2>1. /\ step[c] = "closed" /\ step[from] = "open"
        /\ step' = [step EXCEPT ![c] = "swap", ![from] = "snarfed"]
        /\ fromContext' = [fromContext EXCEPT ![c] = from]
    BY <1>4 DEF SnarfSocket
  <2>2. \A d \in Contexts \ {c} : /\ fromContext'[d] = fromContext[d]
                                  /\ TakesOver(d)' => TakesOver(d)
    BY <1>0, <2>1 DEF TakesOver
  <2>3. fromContext'[c] = from /\ step'[from] = "snarfed"
    BY <1>0, <2>1
  <2>4. \A d \in Contexts : step[d] = "snarfed" => step'[d] = "snarfed"
    BY <1>0, <2>1
  <2>5. \A d \in Contexts \ {c} : TakesOver(d)' => fromContext'[d] # from
    BY <2>1, <2>2 DEF DonorInv
  <2>6. \A d \in Contexts \ {c} : TakesOver(d)' =>
           fromContext'[d] \in Contexts /\ step'[fromContext'[d]] = "snarfed"
    BY <2>2, <2>4 DEF DonorInv
  <2>7. \A d, e \in Contexts \ {c} :
           d # e /\ TakesOver(d)' /\ TakesOver(e)' => fromContext'[d] # fromContext'[e]
    BY <2>2 DEF DonorInv
  <2> QED
    BY <2>3, <2>5, <2>6, <2>7 DEF DonorInv
<1>5. CASE \/ UNCHANGED vars \/ EventThreadStep \/ SignalExit
            \/ \E h \in Handles : Receive(h) \/ Post(h)
  BY <1>1, <1>5 DEF vars, EventThreadStep, CreateWindow, GetMessage, GetQuitMessage, NotFound,
     Resolve, ProcessEvent, Release, SignalExit, Receive, Post
<1> QED
  BY <1>3, <1>4, <1>5 DEF Next, ContextStep

(* IDs go up until they start again, so that a new one is nobody's.        *)
LEMMA IDNext ==
    /\ TypeInv /\ DonorInv /\ WatchInv /\ IDInv
    /\ sUniqueID < LastID /\ [Next]_vars
    => IDInv'
<1> SUFFICES ASSUME TypeInv, DonorInv, WatchInv, IDInv, sUniqueID < LastID, [Next]_vars
             PROVE  IDInv'
  OBVIOUS
<1> USE DEF contextVars, refVars, windowVars, threadVars, taskVars, countVars, Goto
<1>0. /\ step \in [Contexts -> Steps] /\ fUniqueID \in [Contexts -> Nat] /\ sUniqueID \in Nat
      /\ LastID \in Nat
  BY IDsAssumption DEF TypeInv, Typed, TypeOK, Steps
<1>1. CASE UNCHANGED <<step, fUniqueID, sUniqueID>>
  BY <1>1 DEF IDInv, GaveAway
<1>2. ASSUME NEW c \in Contexts, UNCHANGED sUniqueID, fUniqueID'[c] \in {0, fUniqueID[c]},
             \A d \in Contexts \ {c} : step'[d] = step[d] /\ fUniqueID'[d] = fUniqueID[d],
             GaveAway(c) => GaveAway(c)' \/ fUniqueID'[c] = 0
      PROVE  IDInv'
  BY <1>0, <1>2 DEF IDInv, GaveAway
<1>3. ASSUME NEW c \in Contexts, ContextStep(c)
      PROVE  IDInv'
  <2>1. CASE RequestEvent(c) \/ Cleanup(c) \/ StartAgain(c) \/ Register(c) \/ Modwatch(c)
             \/ RunTask(c) \/ UnRegister(c) \/ CloseFirst(c) \/ Swap(c)
    <3>1. /\ UNCHANGED <<sUniqueID, fUniqueID>> /\ ~ GaveAway(c)
          /\ \A d \in Contexts \ {c} : step'[d] = step[d]
      BY <1>0, <2>1 DEF RequestEvent, Cleanup, StartAgain, Register, Modwatch, RunTask,
         UnRegister, CloseFirst, Swap, GaveAway
    <3> QED
      BY <1>2, <3>1
  <2>2. CASE Construct(c) \/ Close(c) \/ Delete(c)
    <3>1. /\ UNCHANGED sUniqueID /\ fUniqueID'[c] \in {0, fUniqueID[c]}
          /\ \A d \in Contexts \ {c} : step'[d] = step[d] /\ fUniqueID'[d] = fUniqueID[d]
          /\ GaveAway(c) => fUniqueID'[c] = 0
      BY <1>0, <2>2 DEF Construct, Close, Delete, GaveAway
    <3> QED
      BY <1>2, <3>1
  <2>3. CASE Open(c)
    <3>1. /\ UNCHANGED <<sUniqueID, fUniqueID>> /\ step[c] = "closed" /\ ~ fWatchEventCalled[c]
          /\ \A d \in Contexts \ {c} : step'[d] = step[d]
      BY <1>0, <2>3 DEF Open
    <3>2. fUniqueID[c] = 0
      BY <1>0, <3>1 DEF WatchInv, WatchOf
    <3> QED
      BY <1>2, <3>1, <3>2
  <2>4. CASE TakeID(c)
    <3>1. /\ sUniqueID' = sUniqueID + 1 /\ fUniqueID' = [fUniqueID EXCEPT ![c] = sUniqueID + 1]
          /\ \A d \in Contexts \ {c} : step'[d] = step[d]
      BY <1>0, <2>4 DEF TakeID, NextID
    <3>2. \A d \in Contexts : fUniqueID[d] < sUniqueID + 1
      BY <1>0 DEF IDInv
    <3>3. fUniqueID'[c] = sUniqueID + 1
      BY <1>0, <3>1
    <3>4. \A d \in Contexts \ {c} : fUniqueID'[d] = fUniqueID[d] /\ fUniqueID'[d] # fUniqueID'[c]
      BY <1>0, <3>1, <3>2, <3>3
    <3> QED
      BY <1>0, <3>1, <3>2, <3>3, <3>4 DEF IDInv, GaveAway
  <2>5. CASE EndSnarf(c)
    <3>1. PICK from \in Contexts : from = fromContext[c] /\ step[from] = "snarfed"
      BY <2>5 DEF EndSnarf, DonorInv, TakesOver
    <3>2. /\ UNCHANGED <<sUniqueID, fUniqueID>> /\ step[c] = "swapped"
          /\ step' = [step EXCEPT ![c] = "open", ![from] = "closed"]
      BY <2>5, <3>1 DEF EndSnarf
    <3>3. \A d \in Contexts : GaveAway(d) => GaveAway(d)'
      BY <1>0, <3>1, <3>2 DEF GaveAway
    <3> QED
      BY <3>2, <3>3 DEF IDInv
  <2> QED
    BY <1>3, <2>1, <2>2, <2>3, <2>4, <2>5 DEF ContextStep, CallStep
<1>4. ASSUME NEW c \in Contexts, NEW from \in Contexts, SnarfSocket(c, from) PROVE IDInv'
  <2>1. /\ step[c] = "closed" /\ step[from] = "open" /\ UNCHANGED sUniqueID
        /\ fUniqueID[c] = 0 /\ fUniqueID[from] > 0
        /\ step' = [step EXCEPT ![c] = "swap", ![from] = "snarfed"]
        /\ fUniqueID' = [fUniqueID EXCEPT ![c] = fUniqueID[from]]
    BY <1>4 DEF SnarfSocket
  <2>2. ~ GaveAway(from) /\ GaveAway(from)' /\ fUniqueID'[c] = fUniqueID[from]
    BY <1>0, <2>1 DEF GaveAway
  <2>3. \A d \in Contexts \ {c} : fUniqueID'[d] = fUniqueID[d] /\ (GaveAway(d) => GaveAway(d)')
    BY <1>0, <2>1 DEF GaveAway
  <2>4. \A d \in Contexts \ {c} :
           fUniqueID[d] = fUniqueID[from] => d = from \/ GaveAway(d)
    BY <2>1, <2>2 DEF IDInv
  <2> QED
    BY <2>1, <2>2, <2>3, <2>4 DEF IDInv
<1>5. CASE \/ UNCHANGED vars \/ EventThreadStep \/ SignalExit
            \/ \E h \in Handles : Receive(h) \/ Post(h)
  BY <1>1, <1>5 DEF vars, EventThreadStep, CreateWindow, GetMessage, GetQuitMessage, NotFound,
     Resolve, ProcessEvent, Release, SignalExit, Receive, Post
<1> QED
  BY <1>3, <1>4, <1>5 DEF Next, ContextStep

(* A socket opened later has a serial of its own, and the handle of a      *)
(* socket that is closed names none.                                       *)
LEMMA SocketFrame ==
    ASSUME TypeInv, SocketInv, UNCHANGED <<socket, fFileDesc, opens>>,
           \A h \in Handles :
              \/ current'[h] = 0 /\ asyncSelect'[h] = 0
              \/ current'[h] = current[h] /\ asyncSelect'[h] \in {0, asyncSelect[h]}
              \/ current'[h] = current[h] /\ current[h] # 0
    PROVE  SocketInv'
<1>0. opens \in Nat /\ current \in [Handles -> Nat] /\ socket \in [Contexts -> Nat]
  BY DEF TypeInv, Typed, TypeOK
<1>1. \A h \in Handles : current'[h] <= opens' /\ (current'[h] = 0 => asyncSelect'[h] = 0)
  BY <1>0 DEF SocketInv
<1>2. ASSUME NEW c \in Contexts PROVE SocketOf(c)'
  <2>1. SocketOf(c)
    BY DEF SocketInv
  <2>2. \A h \in Handles : current'[h] = socket[c] /\ socket[c] > 0 => current[h] = socket[c]
    BY <1>0
  <2> QED
    BY <1>0, <2>1, <2>2 DEF SocketOf
<1> QED
  BY <1>1, <1>2 DEF SocketInv

LEMMA SocketNext == TypeInv /\ SocketInv /\ [Next]_vars => SocketInv'
<1> SUFFICES ASSUME TypeInv, SocketInv, [Next]_vars PROVE SocketInv'
  OBVIOUS
<1> USE DEF contextVars, refVars, windowVars, threadVars, taskVars, countVars, Goto
<1>0. /\ opens \in Nat /\ current \in [Handles -> Nat] /\ socket \in [Contexts -> Nat]
      /\ asyncSelect \in [Handles -> Nat] /\ NoHandle \notin Handles
      /\ step \in [Contexts -> Steps] /\ fFileDesc \in [Contexts -> Handles \cup {NoHandle}]
  BY NamesAssumption DEF TypeInv, Typed, TypeOK, Steps
<1>1. CASE UNCHANGED <<socket, fFileDesc, opens, current, asyncSelect>>
  BY <1>1, SocketFrame
<1>2. CASE UNCHANGED vars \/ EventThreadStep \/ SignalExit
           \/ \E h \in Handles : Receive(h) \/ Post(h)
  <2>1. CASE GetMessage
    <3>1. /\ UNCHANGED <<socket, fFileDesc, opens, current>>
          /\ \A h \in Handles : asyncSelect'[h] \in {0, asyncSelect[h]}
      BY <1>0, <2>1 DEF GetMessage
    <3> QED
      BY <3>1, SocketFrame
  <2>2. CASE ~ GetMessage
    BY <1>1, <1>2, <2>2 DEF vars, EventThreadStep, CreateWindow, GetQuitMessage, NotFound,
       Resolve, ProcessEvent, Release, SignalExit, Receive, Post
  <2> QED
    BY <2>1, <2>2
<1>3. ASSUME NEW c \in Contexts, ContextStep(c) PROVE SocketInv'
  <2>1. CASE Construct(c) \/ RequestEvent(c) \/ StartAgain(c) \/ TakeID(c) \/ Register(c)
             \/ RunTask(c) \/ Cleanup(c) \/ UnRegister(c) \/ Delete(c) \/ Swap(c) \/ EndSnarf(c)
    BY <1>1, <2>1 DEF Construct, RequestEvent, StartAgain, TakeID, Register, RunTask, Cleanup,
       UnRegister, Delete, Swap, EndSnarf
  <2>2. CASE Modwatch(c)
    <3>1. /\ UNCHANGED <<socket, fFileDesc, opens, current>>
          /\ asyncSelect' = Armed(c)
      BY <2>2 DEF Modwatch
    <3>2. \A h \in Handles : asyncSelect'[h] = asyncSelect[h] \/ current[h] # 0
      BY <1>0, <3>1 DEF Armed
    <3> QED
      BY <3>1, <3>2, SocketFrame
  <2>3. CASE CloseFirst(c)
    <3>1. /\ UNCHANGED <<socket, fFileDesc, opens>>
          /\ current' = [current EXCEPT ![fFileDesc[c]] = 0]
          /\ asyncSelect' = [asyncSelect EXCEPT ![fFileDesc[c]] = 0]
      BY <2>3 DEF CloseFirst, closesocket
    <3>2. \A h \in Handles : \/ current'[h] = 0 /\ asyncSelect'[h] = 0
                             \/ current'[h] = current[h] /\ asyncSelect'[h] = asyncSelect[h]
      BY <1>0, <3>1
    <3> QED
      BY <3>1, <3>2, SocketFrame
  <2>4. CASE Close(c)
    <3>1. /\ UNCHANGED opens
          /\ socket' = [socket EXCEPT ![c] = 0] /\ fFileDesc' = [fFileDesc EXCEPT ![c] = NoHandle]
          /\ current' = [current EXCEPT ![fFileDesc[c]] = 0]
          /\ asyncSelect' = [asyncSelect EXCEPT ![fFileDesc[c]] = 0]
      BY <2>4 DEF Close, closesocket
    <3>2. \A h \in Handles : \/ current'[h] = 0 /\ asyncSelect'[h] = 0
                             \/ current'[h] = current[h] /\ asyncSelect'[h] = asyncSelect[h]
      BY <1>0, <3>1
    <3>3. \A h \in Handles : current'[h] <= opens' /\ (current'[h] = 0 => asyncSelect'[h] = 0)
      BY <1>0, <3>1, <3>2 DEF SocketInv
    <3>4. SocketOf(c)'
      BY <1>0, <3>1 DEF SocketOf
    <3>5. ASSUME NEW d \in Contexts, d # c PROVE SocketOf(d)'
      <4>1. SocketOf(d) /\ socket'[d] = socket[d] /\ fFileDesc'[d] = fFileDesc[d] /\ socket'[c] = 0
        BY <1>0, <3>1, <3>5 DEF SocketInv
      <4>2. \A h \in Handles : current'[h] = socket[d] /\ socket[d] > 0 => current[h] = socket[d]
        BY <1>0, <3>2
      <4>3. \A e \in Contexts \ {d} : socket'[e] \in {0, socket[e]}
        BY <1>0, <3>1
      <4> QED
        BY <1>0, <3>1, <4>1, <4>2, <4>3 DEF SocketOf
    <3> QED
      BY <3>3, <3>4, <3>5 DEF SocketInv
  <2>5. CASE Open(c)
    <3>1. PICK h0 \in FreeHandles :
             fFileDesc' = [fFileDesc EXCEPT ![c] = h0] /\ current' = [current EXCEPT ![h0] = opens + 1]
      BY <2>5 DEF Open
    <3>2. /\ opens' = opens + 1 /\ socket' = [socket EXCEPT ![c] = opens + 1] /\ UNCHANGED asyncSelect
          /\ h0 \in Handles
      BY <2>5 DEF Open, FreeHandles
    <3>3. \A h \in Handles : current'[h] <= opens' /\ (current'[h] = 0 => asyncSelect'[h] = 0)
      BY <1>0, <3>1, <3>2 DEF SocketInv
    <3>4. \A d \in Contexts : socket[d] <= opens
      BY DEF SocketInv, SocketOf
    <3>5. \A h \in Handles \ {h0} : current'[h] = current[h] /\ current[h] <= opens
      BY <1>0, <3>1 DEF SocketInv
    <3>6. \A d \in Contexts \ {c} : socket'[d] = socket[d] /\ fFileDesc'[d] = fFileDesc[d]
      BY <1>0, <3>1, <3>2
    <3>7. SocketOf(c)'
      <4>1. socket'[c] = opens + 1 /\ fFileDesc'[c] = h0 /\ h0 # NoHandle
        BY <1>0, <3>1, <3>2
      <4>2. \A h \in Handles : current'[h] = opens + 1 => h = h0
        BY <1>0, <3>5
      <4> QED
        BY <1>0, <3>2, <3>4, <3>6, <4>1, <4>2 DEF SocketOf
    <3>8. ASSUME NEW d \in Contexts, d # c PROVE SocketOf(d)'
      <4>1. SocketOf(d) /\ socket'[c] = opens + 1 /\ current'[h0] = opens + 1
        BY <1>0, <3>1, <3>2 DEF SocketInv
      <4>2. \A h \in Handles : current'[h] = socket[d] => current[h] = socket[d]
        BY <1>0, <3>4, <3>5, <4>1
      <4> QED
        BY <1>0, <3>2, <3>4, <3>6, <3>8, <4>1, <4>2 DEF SocketOf
    <3> QED
      BY <3>3, <3>7, <3>8 DEF SocketInv
  <2> QED
    BY <1>3, <2>1, <2>2, <2>3, <2>4, <2>5 DEF ContextStep, CallStep
<1>4. ASSUME NEW c \in Contexts, NEW from \in Contexts, SnarfSocket(c, from) PROVE SocketInv'
  <2>1. /\ step[c] = "closed" /\ step[from] = "open" /\ UNCHANGED <<current, asyncSelect, opens>>
        /\ fFileDesc' = [fFileDesc EXCEPT ![c] = fFileDesc[from], ![from] = NoHandle]
        /\ socket' = [socket EXCEPT ![c] = socket[from], ![from] = 0]
    BY <1>4 DEF SnarfSocket
  <2>2. c # from
    BY <2>1
  <2>3. /\ fFileDesc'[c] = fFileDesc[from] /\ fFileDesc'[from] = NoHandle
        /\ socket'[c] = socket[from] /\ socket'[from] = 0
        /\ \A d \in Contexts \ {c, from} : fFileDesc'[d] = fFileDesc[d] /\ socket'[d] = socket[d]
    BY <1>0, <2>1, <2>2
  <2>4. SocketOf(from)
    BY DEF SocketInv
  <2>5. SocketOf(c)' /\ SocketOf(from)'
    BY <1>0, <2>1, <2>2, <2>3, <2>4 DEF SocketOf
  <2>6. ASSUME NEW d \in Contexts, d \notin {c, from} PROVE SocketOf(d)'
    <3>1. SocketOf(d)
      BY DEF SocketInv
    <3> QED
      BY <1>0, <2>1, <2>2, <2>3, <2>6, <3>1 DEF SocketOf
  <2> QED
    BY <2>1, <2>5, <2>6 DEF SocketInv
<1> QED
  BY <1>2, <1>3, <1>4 DEF Next, ContextStep

(* Who lost its socket does not get it back.                               *)
LEMMA RobbedStays ==
    ASSUME TypeInv, SocketInv, NEW d \in Contexts, Robbed(d),
           \A h \in Handles : current'[h] \in {current[h], 0, opens + 1},
           fFileDesc'[d] = fFileDesc[d], socket'[d] = socket[d]
    PROVE  Robbed(d)'
<1>0. opens \in Nat /\ current \in [Handles -> Nat] /\ socket \in [Contexts -> Nat]
      /\ fFileDesc \in [Contexts -> Handles \cup {NoHandle}]
  BY DEF TypeInv, Typed, TypeOK
<1>1. /\ fFileDesc[d] # NoHandle /\ fFileDesc[d] \in Handles /\ current[fFileDesc[d]] # socket[d]
      /\ socket[d] # 0 /\ socket[d] <= opens
  BY <1>0 DEF Robbed, SocketInv, SocketOf
<1>2. current'[fFileDesc[d]] # socket[d]
  BY <1>0, <1>1
<1> QED
  BY <1>1, <1>2 DEF Robbed

(* What is known about a socket stays known: an ID that was given out is   *)
(* nobody else's.                                                          *)
LEMMA AboutFrame ==
    ASSUME TypeInv, SocketInv, NEW s, NEW id \in Nat, About(s, id), NEW c \in Contexts,
           \A h \in Handles : current'[h] \in {current[h], 0, opens + 1},
           \A d \in Contexts :
              \/ fUniqueID'[d] # id
              \/ /\ fUniqueID'[d] = fUniqueID[d] /\ fFileDesc'[d] = fFileDesc[d]
                 /\ socket'[d] = socket[d] /\ (GaveAway(d) => GaveAway(d)')
    PROVE  About(s, id)'
<1> SUFFICES ASSUME NEW d \in Contexts, fUniqueID'[d] = id
             PROVE  socket'[d] = s \/ Robbed(d)' \/ GaveAway(d)'
  BY DEF About
<1>1. /\ fUniqueID[d] = id /\ fFileDesc'[d] = fFileDesc[d]
      /\ socket'[d] = socket[d] /\ (GaveAway(d) => GaveAway(d)')
  OBVIOUS
<1> QED
  BY <1>1, RobbedStays DEF About

LEMMA AboutNext ==
    ASSUME TypeInv, WatchInv, DonorInv, SocketInv, IDInv, sUniqueID < LastID, [Next]_vars,
           NEW s, NEW id \in Nat, id > 0, id <= sUniqueID, About(s, id)
    PROVE  About(s, id)'
<1> USE DEF contextVars, refVars, windowVars, threadVars, taskVars, countVars, Goto
<1>0. /\ step \in [Contexts -> Steps] /\ fUniqueID \in [Contexts -> Nat] /\ sUniqueID \in Nat
      /\ LastID \in Nat /\ socket \in [Contexts -> Nat] /\ current \in [Handles -> Nat]
      /\ fFileDesc \in [Contexts -> Handles \cup {NoHandle}] /\ opens \in Nat
      /\ fWatchEventCalled \in [Contexts -> BOOLEAN]
  BY IDsAssumption DEF TypeInv, Typed, TypeOK, Steps
<1>1. CASE UNCHANGED <<step, fUniqueID, fFileDesc, socket, current>>
  BY <1>1 DEF About, Robbed, GaveAway
<1>2. CASE UNCHANGED vars \/ EventThreadStep \/ SignalExit
           \/ \E h \in Handles : Receive(h) \/ Post(h)
  BY <1>1, <1>2 DEF vars, EventThreadStep, CreateWindow, GetMessage, GetQuitMessage, NotFound,
     Resolve, ProcessEvent, Release, SignalExit, Receive, Post
<1>3. ASSUME NEW c \in Contexts, ContextStep(c) PROVE About(s, id)'
  <2>1. CASE RequestEvent(c) \/ StartAgain(c) \/ Register(c) \/ Modwatch(c) \/ RunTask(c)
             \/ Cleanup(c) \/ UnRegister(c) \/ Swap(c)
    <3>1. /\ UNCHANGED <<fUniqueID, fFileDesc, socket, current>> /\ ~ GaveAway(c)
          /\ \A d \in Contexts \ {c} : step'[d] = step[d]
      BY <1>0, <2>1 DEF RequestEvent, StartAgain, Register, Modwatch, RunTask, Cleanup,
         UnRegister, Swap, GaveAway
    <3> QED
      BY <3>1, AboutFrame DEF GaveAway
  <2>2. CASE CloseFirst(c)
    <3>1. /\ UNCHANGED <<fUniqueID, fFileDesc, socket>> /\ ~ GaveAway(c)
          /\ current' = [current EXCEPT ![fFileDesc[c]] = 0]
          /\ \A d \in Contexts \ {c} : step'[d] = step[d]
      BY <1>0, <2>2 DEF CloseFirst, closesocket, GaveAway
    <3>2. \A h \in Handles : current'[h] \in {current[h], 0, opens + 1}
      BY <1>0, <3>1
    <3> QED
      BY <3>1, <3>2, AboutFrame DEF GaveAway
  <2>3. CASE Construct(c) \/ Delete(c)
    <3>1. /\ UNCHANGED <<fFileDesc, socket, current>>
          /\ fUniqueID'[c] = 0 \/ (fUniqueID'[c] = fUniqueID[c] /\ ~ GaveAway(c))
          /\ \A d \in Contexts \ {c} : step'[d] = step[d] /\ fUniqueID'[d] = fUniqueID[d]
      BY <1>0, <2>3 DEF Construct, Delete, GaveAway
    <3> QED
      BY <3>1, AboutFrame DEF GaveAway
  <2>4. CASE Close(c)
    <3>1. /\ current' = [current EXCEPT ![fFileDesc[c]] = 0] /\ fUniqueID'[c] = 0
          /\ \A d \in Contexts \ {c} :
                /\ step'[d] = step[d] /\ fUniqueID'[d] = fUniqueID[d]
                /\ fFileDesc'[d] = fFileDesc[d] /\ socket'[d] = socket[d]
      BY <1>0, <2>4 DEF Close, closesocket
    <3>2. \A h \in Handles : current'[h] \in {current[h], 0, opens + 1}
      BY <1>0, <3>1
    <3> QED
      BY <3>1, <3>2, AboutFrame DEF GaveAway
  <2>5. CASE Open(c)
    <3>1. PICK h0 \in FreeHandles : /\ fFileDesc' = [fFileDesc EXCEPT ![c] = h0]
                                    /\ current' = [current EXCEPT ![h0] = opens + 1]
      BY <2>5 DEF Open
    <3>2. \A h \in Handles : current'[h] \in {current[h], 0, opens + 1}
      BY <1>0, <3>1
    <3>3. fUniqueID'[c] = 0
      BY <1>0, <2>5 DEF Open, WatchInv, WatchOf
    <3>4. \A d \in Contexts \ {c} :
             /\ step'[d] = step[d] /\ fUniqueID'[d] = fUniqueID[d]
             /\ fFileDesc'[d] = fFileDesc[d] /\ socket'[d] = socket[d]
      BY <1>0, <2>5, <3>1 DEF Open
    <3> QED
      BY <3>2, <3>3, <3>4, AboutFrame DEF GaveAway
  <2>6. CASE TakeID(c)
    <3>1. /\ UNCHANGED <<fFileDesc, socket, current>> /\ fUniqueID'[c] = sUniqueID + 1
          /\ \A d \in Contexts \ {c} : step'[d] = step[d] /\ fUniqueID'[d] = fUniqueID[d]
      BY <1>0, <2>6 DEF TakeID, NextID
    <3>2. fUniqueID'[c] # id
      BY <1>0, <3>1
    <3> QED
      BY <3>1, <3>2, AboutFrame DEF GaveAway
  <2>7. CASE EndSnarf(c)
    <3>1. PICK from \in Contexts : from = fromContext[c] /\ step[from] = "snarfed"
      BY <2>7 DEF EndSnarf, DonorInv, TakesOver
    <3>2. /\ UNCHANGED <<fUniqueID, fFileDesc, socket, current>> /\ step[c] = "swapped"
          /\ step' = [step EXCEPT ![c] = "open", ![from] = "closed"]
      BY <2>7, <3>1 DEF EndSnarf
    <3>3. \A d \in Contexts : GaveAway(d) => GaveAway(d)'
      BY <1>0, <3>1, <3>2 DEF GaveAway
    <3> QED
      BY <3>2, <3>3, AboutFrame
  <2> QED
    BY <1>3, <2>1, <2>2, <2>3, <2>4, <2>5, <2>6, <2>7 DEF ContextStep, CallStep
<1>4. ASSUME NEW c \in Contexts, NEW from \in Contexts, SnarfSocket(c, from) PROVE About(s, id)'
  <2>1. /\ step[c] = "closed" /\ step[from] = "open" /\ UNCHANGED current
        /\ step' = [step EXCEPT ![c] = "swap", ![from] = "snarfed"]
        /\ fUniqueID' = [fUniqueID EXCEPT ![c] = fUniqueID[from]]
        /\ fFileDesc' = [fFileDesc EXCEPT ![c] = fFileDesc[from], ![from] = NoHandle]
        /\ socket' = [socket EXCEPT ![c] = socket[from], ![from] = 0]
    BY <1>4 DEF SnarfSocket
  <2>2. /\ fUniqueID'[c] = fUniqueID[from] /\ fFileDesc'[c] = fFileDesc[from]
        /\ socket'[c] = socket[from] /\ GaveAway(from)' /\ ~ GaveAway(from)
        /\ \A d \in Contexts \ {c, from} :
              /\ step'[d] = step[d] /\ fUniqueID'[d] = fUniqueID[d]
              /\ fFileDesc'[d] = fFileDesc[d] /\ socket'[d] = socket[d]
    BY <1>0, <2>1 DEF GaveAway
  <2>3. fUniqueID'[c] = id => socket'[c] = s \/ Robbed(c)'
    BY <2>1, <2>2 DEF About, Robbed
  <2>4. ASSUME NEW d \in Contexts \ {c, from}, fUniqueID'[d] = id
        PROVE  socket'[d] = s \/ Robbed(d)' \/ GaveAway(d)'
    BY <2>1, <2>2, <2>4 DEF About, Robbed, GaveAway
  <2> QED
    BY <2>2, <2>3, <2>4 DEF About
<1> QED
  BY <1>2, <1>3, <1>4 DEF Next, ContextStep

LEMMA AboutStays ==
    ASSUME TypeInv, WatchInv, DonorInv, SocketInv, IDInv, sUniqueID < LastID, [Next]_vars
    PROVE  \A s, id \in Nat : id > 0 /\ id <= sUniqueID /\ About(s, id) => About(s, id)'
<1> SUFFICES ASSUME NEW s \in Nat, NEW id \in Nat, id > 0, id <= sUniqueID, About(s, id)
             PROVE  About(s, id)'
  OBVIOUS
<1> QED
  BY AboutNext

(* IDs are not taken back.                                                 *)
LEMMA IDsGoUp ==
    TypeInv /\ sUniqueID < LastID /\ [Next]_vars => sUniqueID' \in Nat /\ sUniqueID <= sUniqueID'
<1> SUFFICES ASSUME TypeInv, sUniqueID < LastID, [Next]_vars
             PROVE  sUniqueID' \in Nat /\ sUniqueID <= sUniqueID'
  OBVIOUS
<1> USE DEF contextVars, refVars, windowVars, threadVars, taskVars, countVars
<1>0. sUniqueID \in Nat /\ LastID \in Nat
  BY IDsAssumption DEF TypeInv, Typed, TypeOK
<1>1. CASE \E c \in Contexts : StartAgain(c) \/ TakeID(c)
  BY <1>0, <1>1 DEF StartAgain, TakeID, NextID
<1>2. CASE UNCHANGED sUniqueID
  BY <1>0, <1>2
<1>3. ASSUME NEW c \in Contexts, ContextStep(c), ~ StartAgain(c), ~ TakeID(c)
      PROVE  UNCHANGED sUniqueID
  BY <1>3 DEF ContextStep, CallStep, Construct, Open, RequestEvent, Register, Modwatch, RunTask,
     Cleanup, UnRegister, CloseFirst, Close, Delete, Swap, EndSnarf
<1>4. CASE UNCHANGED vars \/ EventThreadStep \/ SignalExit
           \/ \E h \in Handles : Receive(h) \/ Post(h)
  BY <1>2, <1>4 DEF vars, EventThreadStep, CreateWindow, GetMessage, GetQuitMessage, NotFound,
     Resolve, ProcessEvent, Release, SignalExit, Receive, Post
<1>5. ASSUME NEW c \in Contexts, NEW from \in Contexts, SnarfSocket(c, from)
      PROVE  UNCHANGED sUniqueID
  BY <1>5 DEF SnarfSocket
<1> QED
  BY <1>1, <1>2, <1>3, <1>4, <1>5 DEF Next, ContextStep

(* A socket is armed with its owner's ID, or with that of a context whose  *)
(* own socket was closed.                                                  *)
LEMMA ArmedNext ==
    /\ TypeInv /\ WatchInv /\ DonorInv /\ SocketInv /\ IDInv /\ ArmedInv
    /\ sUniqueID < LastID /\ [Next]_vars
    => ArmedInv'
<1> SUFFICES ASSUME TypeInv, WatchInv, DonorInv, SocketInv, IDInv, ArmedInv,
                    sUniqueID < LastID, [Next]_vars
             PROVE  ArmedInv'
  OBVIOUS
<1> USE DEF contextVars, refVars, windowVars, threadVars, taskVars, countVars, Goto
<1>0. /\ step \in [Contexts -> Steps] /\ fUniqueID \in [Contexts -> Nat] /\ sUniqueID \in Nat
      /\ asyncSelect \in [Handles -> Nat] /\ current \in [Handles -> Nat]
      /\ fFileDesc \in [Contexts -> Handles \cup {NoHandle}]
  BY DEF TypeInv, Typed, TypeOK, Steps
<1>1. ASSUME NEW h \in Handles, asyncSelect'[h] = asyncSelect[h], current'[h] = current[h],
             asyncSelect'[h] > 0
      PROVE  asyncSelect'[h] <= sUniqueID' /\ About(current[h], asyncSelect[h])'
  <2>1. asyncSelect[h] <= sUniqueID /\ About(current[h], asyncSelect[h])
    BY <1>1 DEF ArmedInv
  <2>2. PICK s \in Nat, id \in Nat : s = current[h] /\ id = asyncSelect[h]
    BY <1>0
  <2>3. About(s, id)'
    BY <1>1, <2>1, <2>2, AboutStays
  <2>4. About(current[h], asyncSelect[h])'
    BY <1>1, <2>2, <2>3 DEF About
  <2>5. asyncSelect'[h] <= sUniqueID'
    BY <1>0, <1>1, <2>1, IDsGoUp
  <2> QED
    BY <2>4, <2>5
<1>2. ASSUME \A h \in Handles : \/ asyncSelect'[h] = 0
                                \/ asyncSelect'[h] = asyncSelect[h] /\ current'[h] = current[h]
      PROVE  ArmedInv'
  <2> SUFFICES ASSUME NEW h \in Handles, asyncSelect'[h] > 0
               PROVE  asyncSelect'[h] <= sUniqueID' /\ About(current[h], asyncSelect[h])'
    BY DEF ArmedInv
  <2>1. asyncSelect'[h] = asyncSelect[h] /\ current'[h] = current[h]
    BY <1>2
  <2> QED
    BY <1>1, <2>1
<1>3. CASE UNCHANGED <<asyncSelect, current>>
  BY <1>2, <1>3
<1>4. CASE UNCHANGED vars \/ EventThreadStep \/ SignalExit
           \/ \E h \in Handles : Receive(h) \/ Post(h)
  <2>1. CASE GetMessage
    <3>1. UNCHANGED current /\ \A h \in Handles : asyncSelect'[h] \in {0, asyncSelect[h]}
      BY <1>0, <2>1 DEF GetMessage
    <3> QED
      BY <1>2, <3>1
  <2>2. CASE ~ GetMessage
    BY <1>3, <1>4, <2>2 DEF vars, EventThreadStep, CreateWindow, GetQuitMessage, NotFound,
       Resolve, ProcessEvent, Release, SignalExit, Receive, Post
  <2> QED
    BY <2>1, <2>2
<1>5. ASSUME NEW c \in Contexts,
             ContextStep(c) \/ \E from \in Contexts : SnarfSocket(c, from)
      PROVE  ArmedInv'
  <2>1. CASE Construct(c) \/ RequestEvent(c) \/ StartAgain(c) \/ TakeID(c) \/ Register(c)
             \/ RunTask(c) \/ Cleanup(c) \/ UnRegister(c) \/ Delete(c) \/ Swap(c) \/ EndSnarf(c)
             \/ \E from \in Contexts : SnarfSocket(c, from)
    BY <1>3, <2>1 DEF Construct, RequestEvent, StartAgain, TakeID, Register, RunTask, Cleanup,
       UnRegister, Delete, Swap, EndSnarf, SnarfSocket
  <2>2. CASE CloseFirst(c) \/ Close(c)
    <3>1. /\ current' = [current EXCEPT ![fFileDesc[c]] = 0]
          /\ asyncSelect' = [asyncSelect EXCEPT ![fFileDesc[c]] = 0]
      BY <2>2 DEF CloseFirst, Close, closesocket
    <3>2. \A h \in Handles : \/ asyncSelect'[h] = 0
                             \/ asyncSelect'[h] = asyncSelect[h] /\ current'[h] = current[h]
      BY <1>0, <3>1
    <3> QED
      BY <1>2, <3>2
  <2>3. CASE Open(c)
    <3>1. PICK h0 \in FreeHandles : current' = [current EXCEPT ![h0] = opens + 1]
      BY <2>3 DEF Open
    <3>2. UNCHANGED asyncSelect /\ asyncSelect[h0] = 0
      BY <2>3 DEF Open, FreeHandles, SocketInv
    <3>3. \A h \in Handles : \/ asyncSelect'[h] = 0
                             \/ asyncSelect'[h] = asyncSelect[h] /\ current'[h] = current[h]
      BY <1>0, <3>1, <3>2
    <3> QED
      BY <1>2, <3>3
  <2>4. CASE Modwatch(c)
    <3>1. /\ UNCHANGED <<current, fUniqueID, socket, fFileDesc, sUniqueID>> /\ step[c] = "modwatch"
          /\ step' = [step EXCEPT ![c] = "open"] /\ asyncSelect' = Armed(c)
      BY <2>4 DEF Modwatch
    <3>2. fFileDesc[c] \in Handles
      BY <1>0, <3>1 DEF TypeInv, HasHandle, Idle
    <3>3. About(current[fFileDesc[c]], fUniqueID[c])' \/ fUniqueID[c] = 0
      <4> SUFFICES ASSUME fUniqueID[c] > 0, NEW d \in Contexts, fUniqueID[d] = fUniqueID[c]
                   PROVE  socket[d] = current[fFileDesc[c]] \/ Robbed(d)' \/ GaveAway(d)'
        BY <1>0, <3>1 DEF About
      <4>1. CASE d = c
        BY <1>0, <3>1, <3>2, <4>1, NamesAssumption DEF Robbed
      <4>2. CASE d # c
        BY <1>0, <3>1, <4>2 DEF IDInv, GaveAway
      <4> QED
        BY <4>1, <4>2
    <3> SUFFICES ASSUME NEW h \in Handles, asyncSelect'[h] > 0
                 PROVE  asyncSelect'[h] <= sUniqueID' /\ About(current[h], asyncSelect[h])'
      BY DEF ArmedInv
    <3>4. CASE asyncSelect'[h] = asyncSelect[h]
      BY <1>1, <3>1, <3>4
    <3>5. CASE asyncSelect'[h] # asyncSelect[h]
      <4>1. h = fFileDesc[c] /\ asyncSelect'[h] = fUniqueID[c]
        BY <1>0, <3>1, <3>5 DEF Armed
      <4>2. fUniqueID[c] <= sUniqueID
        BY DEF IDInv
      <4>3. About(current[h], asyncSelect[h])'
        BY <1>0, <3>1, <3>3, <4>1 DEF About
      <4> QED
        BY <3>1, <4>1, <4>2, <4>3
    <3> QED
      BY <3>4, <3>5
  <2> QED
    BY <1>5, <2>1, <2>2, <2>3, <2>4 DEF ContextStep, CallStep
<1> QED
  BY <1>4, <1>5 DEF Next, ContextStep

(* The event thread's reference keeps its ID while it is in use.           *)
LEMMA UsedKeepsID ==
    ASSUME TypeInv, UseInv, WatchInv, Holding, NEW c \in Contexts,
           ContextStep(c) \/ \E from \in Contexts : SnarfSocket(c, from)
    PROVE  fUniqueID'[ref] = fUniqueID[ref]
<1> USE DEF contextVars, refVars, windowVars, threadVars, taskVars, countVars, Goto
<1>1. ref \in Contexts /\ InUse(ref) /\ fUniqueID \in [Contexts -> Nat]
  BY DEF TypeInv, Typed, TypeOK, HoldsContext, InUse
<1>2. step[ref] \notin Dead \cup {"uniqueID", "atomicAdd"}
  BY <1>1 DEF UseInv, WatchInv, WatchOf
<1>3. CASE StartAgain(c) \/ TakeID(c) \/ Close(c) \/ Delete(c)
           \/ \E from \in Contexts : SnarfSocket(c, from)
  BY <1>1, <1>2, <1>3 DEF StartAgain, TakeID, Close, Delete, SnarfSocket, Dead
<1>4. CASE UNCHANGED fUniqueID
  BY <1>4
<1> QED
  BY <1>3, <1>4 DEF ContextStep, CallStep, Construct, Open, RequestEvent, Cleanup, Register,
     Modwatch, RunTask, UnRegister, CloseFirst, Swap, EndSnarf

(* A message that is under way keeps naming the ID of its socket's owner.  *)
LEMMA StaysAboutOwner ==
    ASSUME TypeInv, WatchInv, DonorInv, SocketInv, IDInv, sUniqueID < LastID, [Next]_vars,
           NEW m \in Message, AboutOwner(m)
    PROVE  AboutOwner(m)'
<1> SUFFICES ASSUME m # quitMessage
             PROVE  m.id > 0 /\ m.id <= sUniqueID' /\ About(m.socket, m.id)'
  BY DEF AboutOwner
<1>1. m.id \in Nat /\ m.socket \in Nat /\ m.id > 0 /\ m.id <= sUniqueID /\ About(m.socket, m.id)
  BY DEF Message, AboutOwner
<1>2. About(m.socket, m.id)'
  BY <1>1, AboutStays
<1>3. sUniqueID \in Nat
  BY DEF TypeInv, Typed, TypeOK
<1> QED
  BY <1>1, <1>2, <1>3, IDsGoUp

LEMMA MessageNext ==
    /\ TypeInv /\ UseInv /\ WatchInv /\ DonorInv /\ SocketInv /\ IDInv /\ ArmedInv /\ MessageInv
    /\ sUniqueID < LastID /\ [Next]_vars
    => MessageInv'
<1> SUFFICES ASSUME TypeInv, UseInv, WatchInv, DonorInv, SocketInv, IDInv, ArmedInv, MessageInv,
                    sUniqueID < LastID, [Next]_vars
             PROVE  MessageInv'
  OBVIOUS
<1> USE DEF contextVars, refVars, windowVars, threadVars, taskVars, countVars
<1>0. messages \in Seq(Message) /\ theCurrentEvent \in Message
  BY DEF TypeInv, Typed, TypeOK, Message
<1>1. \A m \in Message : AboutOwner(m) => AboutOwner(m)'
  BY StaysAboutOwner
<1>2. Pending \subseteq Message
  BY <1>0 DEF Pending, Messages
<1>3. ASSUME Pending' \subseteq Pending PROVE \A m \in Pending' : AboutOwner(m)'
  BY <1>1, <1>2, <1>3 DEF MessageInv
<1>4. ASSUME NEW c \in Contexts,
             ContextStep(c) \/ \E from \in Contexts : SnarfSocket(c, from)
      PROVE  MessageInv'
  <2>1. UNCHANGED <<messages, pc, theCurrentEvent, ref>>
    BY <1>4 DEF ContextStep, CallStep, Construct, Open, RequestEvent, Cleanup, Delete,
       StartAgain, TakeID, Register, Modwatch, RunTask, UnRegister, CloseFirst, Close, Swap,
       EndSnarf, SnarfSocket
  <2>2. Pending' = Pending /\ (Holding' <=> Holding)
    BY <2>1 DEF Pending, Messages, Holding
  <2>3. Holding' => fUniqueID'[ref'] = theCurrentEvent'.id
    BY <1>4, <2>1, <2>2, UsedKeepsID DEF MessageInv
  <2> QED
    BY <1>3, <2>1, <2>2, <2>3 DEF MessageInv
<1>5. CASE UNCHANGED vars \/ CreateWindow \/ ProcessEvent \/ Resolve
           \/ \E h \in Handles : Receive(h)
  <2>1. UNCHANGED <<fUniqueID, theCurrentEvent>> /\ Pending' \subseteq Pending
    BY <1>5 DEF vars, CreateWindow, ProcessEvent, Resolve, Receive, Pending, Messages
  <2>2. /\ pc' \in {"resolve", "processEvent", "release"} =>
              pc \in {"resolve", "processEvent", "release"}
        /\ Holding' => fUniqueID[ref'] = theCurrentEvent.id
    BY <1>5 DEF vars, CreateWindow, ProcessEvent, Resolve, Receive, Holding, Map, MessageInv
  <2> QED
    BY <1>3, <2>1, <2>2 DEF MessageInv
<1>6. CASE GetMessage
  <2>1. /\ ~ Holding' /\ messages # <<>> /\ theCurrentEvent' = Head(messages)
        /\ messages' = Tail(messages) /\ Head(messages) # quitMessage
    BY <1>6 DEF GetMessage, Holding
  <2>2. Head(messages) \in Messages /\ Messages' \subseteq Messages
    BY <1>0, <2>1 DEF Messages
  <2>3. Pending' \subseteq Pending
    BY <2>1, <2>2 DEF Pending
  <2> QED
    BY <1>3, <2>1, <2>3 DEF MessageInv
<1>7. CASE GetQuitMessage \/ NotFound \/ Release
  <2>1. pc' \in {"exited", "waitevent"} /\ messages' \in {messages, <<>>}
    BY <1>7 DEF GetQuitMessage, NotFound, Release
  <2>2. Pending' \subseteq Pending /\ ~ Holding'
    BY <2>1 DEF Pending, Messages, Holding
  <2> QED
    BY <1>3, <2>1, <2>2 DEF MessageInv
<1>8. CASE SignalExit \/ \E h \in Handles : Post(h)
  <2>1. UNCHANGED <<fUniqueID, pc, theCurrentEvent, ref>>
    BY <1>8 DEF SignalExit, Post
  <2>2. messages' = messages \/ \E m \in Message : messages' = Append(messages, m) /\ AboutOwner(m)
    <3>1. CASE SignalExit
      BY <3>1 DEF SignalExit, AboutOwner, Message, quitMessage
    <3>2. ASSUME NEW h \in Handles, Post(h)
          PROVE  \E m \in Message : messages' = Append(messages, m) /\ AboutOwner(m)
      <4> DEFINE m == [handle |-> h, id |-> asyncSelect[h], socket |-> current[h]]
      <4>1. asyncSelect[h] \in Nat /\ current[h] \in Nat /\ asyncSelect[h] > 0
        BY <3>2 DEF Post, TypeInv, Typed, TypeOK
      <4>2. m \in Message
        BY <4>1 DEF Message
      <4>3. AboutOwner(m)
        BY <4>1 DEF AboutOwner, ArmedInv
      <4> QED
        BY <3>2, <4>2, <4>3 DEF Post
    <3> QED
      BY <1>8, <3>1, <3>2
  <2>3. ASSUME NEW m \in Message, messages' = Append(messages, m) PROVE Messages' = Messages \cup {m}
    BY <1>0, <2>3 DEF Messages
  <2>4. \A m \in Pending' : m \in Message /\ AboutOwner(m)
    BY <1>2, <2>1, <2>2, <2>3 DEF Pending, Messages, MessageInv
  <2>5. \A m \in Pending' : AboutOwner(m)'
    BY <1>1, <2>4
  <2> QED
    BY <2>1, <2>5 DEF MessageInv, Holding
<1> QED
  BY <1>4, <1>5, <1>6, <1>7, <1>8 DEF Next, EventThreadStep, ContextStep

(* Until the IDs start again, events are not misrouted, though handles are *)
(* reused while messages about their old sockets wait: the only context    *)
(* that gets one of another socket lost its own to a second closesocket.   *)
THEOREM EventsAreOwn == Spec /\ [](sUniqueID < LastID) => []EventIsOwn
<1>1. TypeInv /\ UseInv /\ MessageInv => EventIsOwn
  <2> SUFFICES ASSUME TypeInv, UseInv, MessageInv, Holding
               PROVE  theCurrentEvent.socket = socket[ref] \/ step[ref] = "snarfed" \/ Robbed(ref)
    BY DEF EventIsOwn
  <2>1. AboutOwner(theCurrentEvent) /\ theCurrentEvent # quitMessage
    BY DEF MessageInv, Pending, Holding
  <2>2. ref \in Contexts /\ step[ref] \notin Dead /\ fUniqueID[ref] = theCurrentEvent.id
    BY DEF TypeInv, Typed, HoldsContext, UseInv, InUse, MessageInv
  <2> QED
    BY <2>1, <2>2 DEF AboutOwner, About, GaveAway, Dead
<1>2. Spec /\ [](sUniqueID < LastID)
        => [](TypeInv /\ UseInv /\ DonorInv /\ WatchInv /\ SocketInv /\ IDInv /\ ArmedInv
              /\ MessageInv)
  BY TypeInit, TypeNext, UseInit, UseNext, OwnInit, DonorNext, WatchNext, SocketNext, IDNext,
     ArmedNext, MessageNext, PTL DEF Spec
<1> QED
  BY <1>1, <1>2, PTL

-----------------------------------------------------------------------------
(* No wakeup is lost: what is watched is in the table under an ID of its   *)
(* own (TableInv), so that the message which disarms a socket under its    *)
(* own ID finds the context that waits for it.                             *)

Registered(c) ==
    step[c] \in {"modwatch", "swapped"} \/ (step[c] = "open" /\ fWatchEventCalled[c])

UniqueIDs == \A c, d \in fTable : fUniqueID[c] = fUniqueID[d] => c = d

TableOf(c) ==
    /\ step[c] = "register" => \A d \in Contexts \ {c} : fUniqueID[d] # fUniqueID[c]
    /\ Registered(c) => c \in fTable
    /\ step[c] = "swap" =>
          fromContext[c] \in fTable /\ fUniqueID[fromContext[c]] = fUniqueID[c]

TableInv == UniqueIDs /\ \A c \in Contexts : TableOf(c)

OnItsWay(c) ==
    \/ pc = "resolve" /\ theCurrentEvent.id = fUniqueID[c]
    \/ pc = "processEvent" /\ ref = c

(* What DataIsSignalled leaves out.                                        *)
Lost(c) == Robbed(c) \/ socket[c] \in disturbed

WaitOf(c) ==
    /\ Registered(c) /\ step[c] # "swapped"
    /\ asyncSelect[fFileDesc[c]] = fUniqueID[c] \/ OnItsWay(c) \/ Lost(c)

WaitInv == \A c \in waiting : WaitOf(c)

LEMMA ArmedInit == Init => TableInv /\ WaitInv
<1> SUFFICES ASSUME Init PROVE TableInv /\ WaitInv
  OBVIOUS
<1>1. UniqueIDs /\ WaitInv
  BY DEF Init, UniqueIDs, WaitInv
<1>2. \A c \in Contexts : step[c] = "none"
  BY DEF Init
<1> QED
  BY <1>1, <1>2 DEF TableInv, TableOf, Registered

(* The steps of a context that leave the table and the IDs alone, and      *)
(* those that change the ID of a context that is not in the table.         *)
LEMMA TableFrame ==
    ASSUME TypeInv, TableInv, NEW c \in Contexts,
           UNCHANGED <<fTable, fUniqueID, fWatchEventCalled, fromContext>>,
           \A d \in Contexts \ {c} : step'[d] = step[d],
           step'[c] \in {"register", "swap"} => step'[c] = step[c],
           Registered(c)' => Registered(c)
    PROVE  TableInv'
<1>1. UniqueIDs'
  BY DEF TableInv, UniqueIDs
<1>2. \A d \in Contexts : Registered(d)' => Registered(d)
  BY DEF Registered
<1>3. \A d \in Contexts : step'[d] \in {"register", "swap"} => step'[d] = step[d]
  OBVIOUS
<1> QED
  BY <1>1, <1>2, <1>3 DEF TableInv, TableOf

LEMMA TableFreshID ==
    ASSUME TypeInv, TableInv, NEW c \in Contexts, c \notin fTable,
           UNCHANGED <<fTable, fromContext>>,
           \A d \in Contexts \ {c} :
              /\ step'[d] = step[d] /\ fUniqueID'[d] = fUniqueID[d]
              /\ fWatchEventCalled'[d] = fWatchEventCalled[d]
              /\ step[d] = "register" => fUniqueID'[c] # fUniqueID[d],
           step'[c] = "register" => \A d \in Contexts \ {c} : fUniqueID[d] # fUniqueID'[c],
           step'[c] # "swap", ~ Registered(c)'
    PROVE  TableInv'
<1>0. fTable \subseteq Contexts
  BY DEF TypeInv, Typed, TypeOK
<1>1. UniqueIDs'
  BY <1>0 DEF TableInv, UniqueIDs
<1>2. TableOf(c)'
  BY DEF TableOf
<1>3. ASSUME NEW d \in Contexts, d # c PROVE TableOf(d)'
  <2>1. TableOf(d)
    BY DEF TableInv
  <2>2. Registered(d)' => Registered(d)
    BY <1>3 DEF Registered
  <2> QED
    BY <1>0, <1>3, <2>1, <2>2 DEF TableOf
<1> QED
  BY <1>1, <1>2, <1>3 DEF TableInv

LEMMA TableContextStep ==
    ASSUME TypeInv, UseInv, DonorInv, WatchInv, IDInv, TableInv, sUniqueID < LastID,
           NEW c \in Contexts, ContextStep(c)
    PROVE  TableInv'
<1> USE DEF contextVars, refVars, windowVars, threadVars, taskVars, countVars, Goto
<1>0. /\ step \in [Contexts -> Steps] /\ fUniqueID \in [Contexts -> Nat] /\ sUniqueID \in Nat
      /\ LastID \in Nat /\ fTable \subseteq Contexts
      /\ fWatchEventCalled \in [Contexts -> BOOLEAN]
      /\ fromContext \in [Contexts -> Contexts \cup {NoContext}]
  BY IDsAssumption DEF TypeInv, Typed, TypeOK, Steps
<1>1. \A d \in fTable : step[d] \notin {"none", "closed", "closeFirst", "close",
                                       "uniqueID", "atomicAdd", "register"}
  BY <1>0 DEF UseInv, WatchInv, WatchOf, InUse, Dead
<1>2. CASE Construct(c) \/ Open(c) \/ RequestEvent(c) \/ StartAgain(c) \/ Modwatch(c)
           \/ RunTask(c) \/ Cleanup(c) \/ CloseFirst(c)
  <2>1. /\ UNCHANGED <<fTable, fUniqueID, fWatchEventCalled, fromContext>>
        /\ \A d \in Contexts \ {c} : step'[d] = step[d]
        /\ step'[c] \in {"register", "swap"} => step'[c] = step[c]
    BY <1>0, <1>2 DEF Construct, Open, RequestEvent, StartAgain, Modwatch, RunTask, Cleanup,
       CloseFirst
  <2>2. CASE Construct(c) \/ Open(c) \/ StartAgain(c) \/ Cleanup(c) \/ CloseFirst(c)
    <3>1. step'[c] \in {"closed", "atomicAdd", "unregister", "close"}
          \/ (step'[c] = "open" /\ ~ fWatchEventCalled[c])
      BY <1>0, <2>2 DEF Construct, Open, StartAgain, Cleanup, CloseFirst
    <3> QED
      BY <2>1, <3>1, TableFrame DEF Registered
  <2>3. CASE RequestEvent(c) \/ RunTask(c) \/ Modwatch(c)
    <3>1. /\ step[c] = "modwatch"
             \/ (step[c] = "open" /\ step'[c] = IF fWatchEventCalled[c] THEN "modwatch"
                                                ELSE "uniqueID")
      BY <1>0, <2>3 DEF RequestEvent, RunTask, Modwatch
    <3>2. Registered(c)' => Registered(c)
      BY <2>1, <3>1 DEF Registered
    <3> QED
      BY <2>1, <3>2, TableFrame
  <2> QED
    BY <1>2, <2>2, <2>3
<1>3. CASE Close(c) \/ Delete(c)
  <2>1. /\ UNCHANGED <<fTable, fromContext>> /\ step'[c] \in {"none", "closed"}
        /\ step[c] \in {"close", "closed"} /\ fUniqueID'[c] = 0
        /\ \A d \in Contexts \ {c} :
              /\ step'[d] = step[d] /\ fUniqueID'[d] = fUniqueID[d]
              /\ fWatchEventCalled'[d] = fWatchEventCalled[d]
    BY <1>0, <1>3 DEF Close, Delete
  <2>2. c \notin fTable /\ \A d \in Contexts : step[d] = "register" => fUniqueID[d] > 0
    BY <1>1, <2>1 DEF UseInv
  <2> QED
    BY <1>0, <2>1, <2>2, TableFreshID DEF Registered
<1>4. CASE TakeID(c)
  <2>1. /\ UNCHANGED <<fTable, fWatchEventCalled, fromContext>>
        /\ step[c] = "atomicAdd" /\ step'[c] = "register" /\ fUniqueID'[c] = sUniqueID + 1
        /\ \A d \in Contexts \ {c} : step'[d] = step[d] /\ fUniqueID'[d] = fUniqueID[d]
    BY <1>0, <1>4 DEF TakeID, NextID
  <2>2. c \notin fTable
    BY <1>1, <2>1
  <2>3. \A d \in Contexts : fUniqueID[d] # sUniqueID + 1
    BY <1>0 DEF IDInv
  <2> QED
    BY <2>1, <2>2, <2>3, TableFreshID DEF Registered
<1>5. CASE Register(c)
  <2>1. /\ UNCHANGED <<fUniqueID, fromContext>> /\ step[c] = "register"
        /\ step' = [step EXCEPT ![c] = "modwatch"]
        /\ fTable' = IF Map(fUniqueID[c]) = {} THEN fTable \cup {c} ELSE fTable
        /\ \A d \in Contexts \ {c} : fWatchEventCalled'[d] = fWatchEventCalled[d]
    BY <1>0, <1>5 DEF Register
  <2>2. c \notin fTable /\ \A d \in Contexts \ {c} : fUniqueID[d] # fUniqueID[c]
    BY <1>1, <2>1 DEF TableInv, TableOf
  <2>3. fTable' = fTable \cup {c}
    BY <1>0, <2>1, <2>2 DEF Map
  <2>4. UniqueIDs'
    BY <1>0, <2>1, <2>2, <2>3 DEF TableInv, UniqueIDs
  <2>5. ASSUME NEW d \in Contexts, d # c PROVE TableOf(d)'
    <3>1. step'[d] = step[d] /\ (Registered(d)' => Registered(d))
      BY <1>0, <2>1, <2>5 DEF Registered
    <3> QED
      BY <2>1, <2>3, <3>1 DEF TableInv, TableOf
  <2>6. TableOf(c)'
    BY <1>0, <2>1, <2>3 DEF TableOf
  <2> QED
    BY <2>4, <2>5, <2>6 DEF TableInv
<1>6. CASE UnRegister(c)
  <2>1. /\ UNCHANGED <<fUniqueID, fromContext, fWatchEventCalled>> /\ step[c] = "unregister"
        /\ step' = [step EXCEPT ![c] = "closeFirst"] /\ fTable' = fTable \ {c}
    BY <1>6 DEF UnRegister
  <2>2. UniqueIDs'
    BY <2>1 DEF TableInv, UniqueIDs
  <2>3. ASSUME NEW d \in Contexts, d # c PROVE TableOf(d)'
    <3>1. step'[d] = step[d] /\ (Registered(d)' => Registered(d))
      BY <1>0, <2>1, <2>3 DEF Registered
    <3>2. step[d] = "swap" => fromContext[d] # c
      BY <2>1 DEF DonorInv, TakesOver
    <3> QED
      BY <2>1, <2>3, <3>1, <3>2 DEF TableInv, TableOf
  <2>4. TableOf(c)'
    BY <1>0, <2>1 DEF TableOf, Registered
  <2> QED
    BY <2>2, <2>3, <2>4 DEF TableInv
<1>7. CASE Swap(c)
  <2>1. /\ UNCHANGED <<fUniqueID, fromContext, fWatchEventCalled>> /\ step[c] = "swap"
        /\ step' = [step EXCEPT ![c] = "swapped"]
        /\ fTable' = IF Map(fUniqueID[c]) = {} THEN fTable
                     ELSE (fTable \ Map(fUniqueID[c])) \cup {c}
    BY <1>7 DEF Swap
  <2>2. PICK from \in fTable : from = fromContext[c] /\ fUniqueID[from] = fUniqueID[c]
    BY <2>1 DEF TableInv, TableOf
  <2>3. Map(fUniqueID[c]) = {from}
    BY <2>2 DEF Map, TableInv, UniqueIDs
  <2>4. fTable' = (fTable \ {from}) \cup {c}
    BY <2>1, <2>3
  <2>5. UniqueIDs'
    BY <2>1, <2>2, <2>4 DEF TableInv, UniqueIDs
  <2>6. step[from] = "snarfed" /\ \A d \in Contexts \ {c} : TakesOver(d) => fromContext[d] # from
    BY <2>1, <2>2 DEF DonorInv, TakesOver
  <2>7. ASSUME NEW d \in Contexts, d # c PROVE TableOf(d)'
    <3>1. step'[d] = step[d] /\ (Registered(d)' => Registered(d) /\ d # from)
      BY <1>0, <2>1, <2>6, <2>7 DEF Registered
    <3>2. step[d] = "swap" => fromContext[d] # from
      BY <2>6, <2>7 DEF TakesOver
    <3> QED
      BY <2>1, <2>4, <2>7, <3>1, <3>2 DEF TableInv, TableOf
  <2>8. TableOf(c)'
    BY <1>0, <2>1, <2>4 DEF TableOf
  <2> QED
    BY <2>5, <2>7, <2>8 DEF TableInv
<1>8. CASE EndSnarf(c)
  <2>1. PICK from \in Contexts :
           /\ from = fromContext[c] /\ step[from] = "snarfed"
           /\ \A d \in Contexts \ {c} : TakesOver(d) => fromContext[d] # from
    BY <1>8 DEF EndSnarf, DonorInv, TakesOver
  <2>2. /\ UNCHANGED <<fUniqueID, fWatchEventCalled>> /\ step[c] = "swapped"
        /\ step' = [step EXCEPT ![c] = "open", ![from] = "closed"]
        /\ fTable' = fTable \ {from}
        /\ fromContext' = [fromContext EXCEPT ![c] = NoContext]
    BY <1>8, <2>1 DEF EndSnarf
  <2>3. UniqueIDs'
    BY <2>2 DEF TableInv, UniqueIDs
  <2>4. step'[c] = "open" /\ step'[from] = "closed" /\ c # from
    BY <1>0, <2>1, <2>2
  <2>5. ASSUME NEW d \in Contexts, d \notin {c, from} PROVE TableOf(d)'
    <3>1. /\ step'[d] = step[d] /\ (Registered(d)' => Registered(d))
          /\ fromContext'[d] = fromContext[d]
      BY <1>0, <2>2, <2>5 DEF Registered
    <3>2. step[d] = "swap" => fromContext[d] # from
      BY <2>1, <2>5 DEF TakesOver
    <3> QED
      BY <2>2, <2>5, <3>1, <3>2 DEF TableInv, TableOf
  <2>6. TableOf(c)'
    <3>1. c \in fTable
      BY <2>2 DEF TableInv, TableOf, Registered
    <3> QED
      BY <2>2, <2>4, <3>1 DEF TableOf
  <2>7. TableOf(from)'
    BY <2>4 DEF TableOf, Registered
  <2> QED
    BY <2>3, <2>5, <2>6, <2>7 DEF TableInv
<1> QED
  BY <1>2, <1>3, <1>4, <1>5, <1>6, <1>7, <1>8 DEF ContextStep, CallStep

(* As long as the IDs go up, the table has one context for each ID and     *)
(* every context that is watched, or the donor whose place it takes.       *)
LEMMA TableNext ==
    /\ TypeInv /\ UseInv /\ DonorInv /\ WatchInv /\ IDInv /\ TableInv
    /\ sUniqueID < LastID /\ [Next]_vars
    => TableInv'
<1> SUFFICES ASSUME TypeInv, UseInv, DonorInv, WatchInv, IDInv, TableInv, sUniqueID < LastID,
                    [Next]_vars
             PROVE  TableInv'
  OBVIOUS
<1> USE DEF contextVars, refVars, windowVars, threadVars, taskVars, countVars
<1>1. CASE UNCHANGED <<step, fUniqueID, fWatchEventCalled, fTable, fromContext>>
  BY <1>1 DEF TableInv, TableOf, UniqueIDs, Registered
<1>2. ASSUME NEW c \in Contexts, NEW from \in Contexts, SnarfSocket(c, from) PROVE TableInv'
  <2>0. /\ step \in [Contexts -> Steps] /\ fUniqueID \in [Contexts -> Nat]
        /\ fWatchEventCalled \in [Contexts -> BOOLEAN] /\ fTable \subseteq Contexts
        /\ fromContext \in [Contexts -> Contexts \cup {NoContext}]
    BY DEF TypeInv, Typed, TypeOK, Steps
  <2>1. /\ step[c] = "closed" /\ step[from] = "open" /\ UNCHANGED fTable
        /\ fUniqueID[c] = 0 /\ fUniqueID[from] > 0
        /\ step' = [step EXCEPT ![c] = "swap", ![from] = "snarfed"]
        /\ fUniqueID' = [fUniqueID EXCEPT ![c] = fUniqueID[from]]
        /\ fWatchEventCalled' = [fWatchEventCalled EXCEPT ![c] = fWatchEventCalled[from]]
        /\ fromContext' = [fromContext EXCEPT ![c] = from]
    BY <1>2 DEF SnarfSocket
  <2>2. c # from /\ c \notin fTable
    BY <2>1 DEF UseInv, InUse, Dead
  <2>3. /\ \A d \in Contexts \ {c, from} :
              step'[d] = step[d] /\ fWatchEventCalled'[d] = fWatchEventCalled[d]
        /\ \A d \in Contexts \ {c} :
              fUniqueID'[d] = fUniqueID[d] /\ fromContext'[d] = fromContext[d]
        /\ step'[c] = "swap" /\ step'[from] = "snarfed" /\ fromContext'[c] = from
        /\ fUniqueID'[c] = fUniqueID[from]
    BY <2>0, <2>1, <2>2
  <2>4. UniqueIDs'
    BY <2>0, <2>1, <2>2, <2>3 DEF TableInv, UniqueIDs
  <2>5. from \in fTable
    <3>1. fWatchEventCalled[from]
      BY <2>1 DEF WatchInv, WatchOf
    <3> QED
      BY <2>1, <3>1 DEF TableInv, TableOf, Registered
  <2>6. TableOf(c)' /\ TableOf(from)'
    BY <2>1, <2>2, <2>3, <2>5 DEF TableOf, Registered
  <2>7. ASSUME NEW d \in Contexts, d \notin {c, from} PROVE TableOf(d)'
    <3>1. TableOf(d) /\ (Registered(d)' => Registered(d))
      BY <2>3, <2>7 DEF TableInv, Registered
    <3>2. step[d] = "swap" => fromContext[d] # c
      BY <2>2, <3>1 DEF TableOf
    <3>3. step'[d] = "register" => \A e \in Contexts \ {d} : fUniqueID'[e] # fUniqueID'[d]
      BY <2>3, <2>7, <3>1 DEF TableOf
    <3> QED
      BY <2>0, <2>1, <2>3, <2>7, <3>1, <3>2, <3>3 DEF TableOf
  <2> QED
    BY <2>4, <2>6, <2>7 DEF TableInv
<1>3. CASE \/ UNCHANGED vars \/ EventThreadStep \/ SignalExit
            \/ \E h \in Handles : Receive(h) \/ Post(h)
  BY <1>1, <1>3 DEF vars, EventThreadStep, CreateWindow, GetMessage, GetQuitMessage, NotFound,
     Resolve, ProcessEvent, Release, SignalExit, Receive, Post
<1> QED
  BY <1>2, <1>3, TableContextStep DEF Next, ContextStep

(* A context that waits is armed, or about to be signalled, or has lost    *)
(* its socket, as long as what disarms it says so.                         *)
LEMMA WaitStays ==
    ASSUME TypeInv, SocketInv, NEW d \in Contexts, WaitOf(d), UNCHANGED threadVars,
           step'[d] = step[d] \/ step'[d] = "open" \/ step'[d] = "modwatch",
           Registered(d)', fFileDesc'[d] = fFileDesc[d], fUniqueID'[d] = fUniqueID[d],
           socket'[d] = socket[d],
           \A h \in Handles : current'[h] \in {current[h], 0, opens + 1},
           asyncSelect'[fFileDesc[d]] = asyncSelect[fFileDesc[d]] \/ Lost(d)',
           socket[d] \in disturbed => socket[d] \in disturbed' \/ Robbed(d)'
    PROVE  WaitOf(d)'
<1>1. Lost(d) => Lost(d)'
  BY RobbedStays DEF Lost
<1>2. OnItsWay(d) => OnItsWay(d)'
  BY DEF OnItsWay, threadVars
<1>3. step'[d] # "swapped"
  BY DEF WaitOf
<1> QED
  BY <1>1, <1>2, <1>3 DEF WaitOf

(* A context that waits keeps waiting while others arm, read or close      *)
(* sockets; what they do to its own they record.                           *)
LEMMA WaitContextStep ==
    ASSUME TypeInv, DonorInv, WatchInv, SocketInv, WaitInv, NEW c \in Contexts, ContextStep(c)
    PROVE  WaitInv'
<1> USE DEF contextVars, refVars, windowVars, taskVars, countVars, Goto
<1>0. /\ step \in [Contexts -> Steps] /\ fUniqueID \in [Contexts -> Nat]
      /\ waiting \subseteq Contexts /\ asyncSelect \in [Handles -> Nat]
      /\ fFileDesc \in [Contexts -> Handles \cup {NoHandle}] /\ NoHandle \notin Handles
      /\ fWatchEventCalled \in [Contexts -> BOOLEAN]
      /\ socket \in [Contexts -> Nat] /\ current \in [Handles -> Nat]
  BY NamesAssumption DEF TypeInv, Typed, TypeOK, Steps
<1>1. UNCHANGED threadVars
  BY DEF ContextStep, CallStep, Construct, Open, RequestEvent, Cleanup, Delete, StartAgain,
     TakeID, Register, Modwatch, RunTask, UnRegister, CloseFirst, Close, Swap, EndSnarf
<1>2. \A d \in waiting : /\ step[d] \in {"open", "modwatch"} /\ WaitOf(d) /\ Registered(d)
                         /\ fFileDesc[d] \in Handles /\ socket[d] > 0
  BY <1>0 DEF WaitInv, WaitOf, Registered, TypeInv, HasHandle, Idle, SocketInv, SocketOf
<1>3. CASE Construct(c) \/ StartAgain(c) \/ TakeID(c) \/ Register(c) \/ Cleanup(c)
           \/ UnRegister(c) \/ Delete(c) \/ Swap(c)
  <2>1. /\ UNCHANGED <<asyncSelect, current, disturbed, socket, fFileDesc>>
        /\ waiting' \subseteq waiting \ {c}
        /\ \A d \in Contexts \ {c} :
              /\ step'[d] = step[d] /\ fWatchEventCalled'[d] = fWatchEventCalled[d]
              /\ fUniqueID'[d] = fUniqueID[d]
    <3>1. CASE Construct(c) \/ StartAgain(c) \/ TakeID(c) \/ Register(c)
      BY <1>0, <1>2, <3>1 DEF Construct, StartAgain, TakeID, Register
    <3>2. CASE Cleanup(c) \/ UnRegister(c) \/ Delete(c) \/ Swap(c)
      BY <1>0, <1>2, <3>2 DEF Cleanup, UnRegister, Delete, Swap
    <3> QED
      BY <1>3, <3>1, <3>2
  <2>2. \A d \in waiting' : WaitOf(d)'
    BY <1>0, <1>1, <1>2, <2>1, WaitStays DEF Registered
  <2> QED
    BY <2>2 DEF WaitInv
<1>4. CASE Open(c)
  <2>1. PICK h0 \in FreeHandles : /\ fFileDesc' = [fFileDesc EXCEPT ![c] = h0]
                                  /\ current' = [current EXCEPT ![h0] = opens + 1]
    BY <1>4 DEF Open
  <2>2. /\ UNCHANGED <<asyncSelect, disturbed, waiting, fUniqueID, fWatchEventCalled>>
        /\ socket' = [socket EXCEPT ![c] = opens + 1] /\ step' = [step EXCEPT ![c] = "open"]
        /\ c \notin waiting
    BY <1>2, <1>4 DEF Open
  <2>3. \A h \in Handles : current'[h] \in {current[h], 0, opens + 1}
    BY <1>0, <2>1
  <2>4. ASSUME NEW d \in waiting PROVE WaitOf(d)'
    <3>1. /\ d # c /\ step'[d] = step[d] /\ fFileDesc'[d] = fFileDesc[d]
          /\ socket'[d] = socket[d]
      BY <1>0, <2>1, <2>2
    <3>2. Registered(d)'
      BY <1>2, <2>2, <3>1 DEF Registered
    <3> QED
      BY <1>0, <1>1, <1>2, <2>2, <2>3, <3>1, <3>2, WaitStays
  <2> QED
    BY <2>2, <2>4 DEF WaitInv
<1>5. CASE RequestEvent(c) \/ RunTask(c)
  <2>1. /\ UNCHANGED <<asyncSelect, current, socket, waiting, fWatchEventCalled, fFileDesc,
                       fUniqueID>>
        /\ disturbed \subseteq disturbed'
        /\ \A d \in Contexts \ {c} : step'[d] = step[d]
        /\ step[c] = "open"
        /\ step'[c] = IF fWatchEventCalled[c] THEN "modwatch" ELSE "uniqueID"
    BY <1>0, <1>5 DEF RequestEvent, RunTask
  <2>2. ASSUME NEW d \in waiting PROVE WaitOf(d)'
    <3>1. Registered(d)' /\ (step'[d] = step[d] \/ step'[d] = "modwatch")
      BY <1>0, <1>2, <2>1 DEF Registered
    <3> QED
      BY <1>0, <1>1, <1>2, <2>1, <3>1, WaitStays
  <2> QED
    BY <2>1, <2>2 DEF WaitInv
<1>6. CASE Modwatch(c)
  <2>1. /\ UNCHANGED <<current, socket, fWatchEventCalled, fFileDesc, fUniqueID>>
        /\ step[c] = "modwatch" /\ step' = [step EXCEPT ![c] = "open"]
        /\ asyncSelect' = Armed(c) /\ waiting' = waiting \cup {c}
        /\ disturbed' = (disturbed \ {socket[c]}) \cup Disturbs(c)
    BY <1>6 DEF Modwatch
  <2>2. fWatchEventCalled[c] /\ fFileDesc[c] \in Handles /\ socket[c] > 0
    BY <1>0, <2>1 DEF WatchInv, WatchOf, TypeInv, HasHandle, Idle, SocketInv, SocketOf
  <2>3. WaitOf(c)'
    <3>1. Registered(c)' /\ step'[c] # "swapped"
      BY <1>0, <2>1, <2>2 DEF Registered
    <3>2. CASE current[fFileDesc[c]] = 0
      <4>1. Robbed(c)'
        BY <1>0, <2>1, <2>2, <3>2 DEF Robbed
      <4> QED
        BY <3>1, <4>1 DEF WaitOf, Lost
    <3>3. CASE current[fFileDesc[c]] # 0
      <4>1. asyncSelect'[fFileDesc[c]] = fUniqueID[c]
        BY <1>0, <2>1, <2>2, <3>3 DEF Armed
      <4> QED
        BY <2>1, <3>1, <4>1 DEF WaitOf
    <3> QED
      BY <3>2, <3>3
  <2>4. ASSUME NEW d \in waiting, d # c PROVE WaitOf(d)'
    <3>1. WaitOf(d) /\ step'[d] = step[d] /\ Registered(d)' /\ fFileDesc[d] \in Handles
      BY <1>0, <1>2, <2>1, <2>4 DEF Registered
    <3>2. socket[d] # socket[c]
      BY <1>0, <1>2, <2>2, <2>4 DEF SocketInv, SocketOf
    <3>3. asyncSelect'[fFileDesc[d]] = asyncSelect[fFileDesc[d]] \/ Lost(d)'
      <4>1. SUFFICES ASSUME fFileDesc[d] = fFileDesc[c], current[fFileDesc[c]] # 0, ~ Robbed(d)
                     PROVE  socket[d] \in disturbed'
        BY <1>0, <2>1, <2>2, <3>1 DEF Armed, Lost, Robbed
      <4>2. current[fFileDesc[c]] = socket[d]
        BY <1>0, <3>1, <4>1 DEF Robbed
      <4> QED
        BY <2>1, <3>2, <4>1, <4>2 DEF Disturbs
    <3>4. socket[d] \in disturbed => socket[d] \in disturbed'
      BY <2>1, <3>2
    <3> QED
      BY <1>0, <1>1, <2>1, <3>1, <3>3, <3>4, WaitStays
  <2> QED
    BY <2>1, <2>3, <2>4 DEF WaitInv
<1>7. CASE CloseFirst(c) \/ Close(c)
  <2>1. /\ UNCHANGED <<fWatchEventCalled, waiting>> /\ step[c] \in {"closeFirst", "close"}
        /\ current' = [current EXCEPT ![fFileDesc[c]] = 0]
        /\ asyncSelect' = [asyncSelect EXCEPT ![fFileDesc[c]] = 0]
        /\ disturbed' = disturbed \ {current[fFileDesc[c]]}
        /\ \A d \in Contexts \ {c} : /\ step'[d] = step[d] /\ fFileDesc'[d] = fFileDesc[d]
                                     /\ fUniqueID'[d] = fUniqueID[d] /\ socket'[d] = socket[d]
    BY <1>0, <1>7 DEF CloseFirst, Close, closesocket
  <2>2. fFileDesc[c] \in Handles
    BY <1>0, <2>1 DEF TypeInv, HasHandle, Idle
  <2>3. \A h \in Handles : current'[h] \in {current[h], 0, opens + 1}
    BY <1>0, <2>1
  <2>4. ASSUME NEW d \in waiting PROVE WaitOf(d)'
    <3>1. d # c /\ WaitOf(d) /\ Registered(d)' /\ fFileDesc[d] \in Handles /\ socket[d] > 0
      BY <1>0, <1>2, <2>1 DEF Registered
    <3>2. fFileDesc[d] = fFileDesc[c] => Robbed(d)'
      BY <1>0, <2>1, <3>1 DEF Robbed
    <3>3. asyncSelect'[fFileDesc[d]] = asyncSelect[fFileDesc[d]] \/ Lost(d)'
      BY <1>0, <2>1, <3>1, <3>2 DEF Lost
    <3>4. socket[d] \in disturbed => socket[d] \in disturbed' \/ Robbed(d)'
      <4>1. current[fFileDesc[c]] = socket[d] => fFileDesc[d] = fFileDesc[c]
        BY <1>0, <2>2, <3>1 DEF SocketInv, SocketOf
      <4> QED
        BY <2>1, <3>2, <4>1
    <3> QED
      BY <1>0, <1>1, <2>1, <2>3, <3>1, <3>3, <3>4, WaitStays
  <2> QED
    BY <2>1, <2>4 DEF WaitInv
<1>8. CASE EndSnarf(c)
  <2>1. PICK from \in Contexts : from = fromContext[c] /\ step[from] = "snarfed"
    BY <1>8 DEF EndSnarf, DonorInv, TakesOver
  <2>2. /\ UNCHANGED <<fWatchEventCalled, waiting, fFileDesc, fUniqueID, asyncSelect, current,
                       socket, disturbed>>
        /\ step[c] = "swapped" /\ step' = [step EXCEPT ![c] = "open", ![from] = "closed"]
    BY <1>8, <2>1 DEF EndSnarf
  <2>3. ASSUME NEW d \in waiting PROVE WaitOf(d)'
    <3>1. WaitOf(d) /\ d \notin {c, from}
      BY <1>2, <2>1, <2>2
    <3>2. step'[d] = step[d] /\ Registered(d)'
      BY <1>0, <1>2, <2>2, <3>1 DEF Registered
    <3> QED
      BY <1>0, <1>1, <2>2, <3>1, <3>2, WaitStays
  <2> QED
    BY <2>2, <2>3 DEF WaitInv
<1> QED
  BY <1>3, <1>4, <1>5, <1>6, <1>7, <1>8 DEF ContextStep, CallStep

(* The message that disarms a socket under its own ID is about the context *)
(* that waits for it, which the event thread then finds in the table; what *)
(* another message disarms is recorded.                                    *)
LEMMA WaitEventStep ==
    ASSUME TypeInv, UseInv, SocketInv, TableInv, WaitInv,
           EventThreadStep \/ SignalExit \/ \E h \in Handles : Receive(h) \/ Post(h)
    PROVE  WaitInv'
<1> USE DEF contextVars, refVars, windowVars, threadVars, taskVars, countVars
<1>0. /\ waiting \subseteq Contexts /\ asyncSelect \in [Handles -> Nat]
      /\ fFileDesc \in [Contexts -> Handles \cup {NoHandle}]
      /\ messages \in Seq(Message) /\ fUniqueID \in [Contexts -> Nat]
  BY DEF TypeInv, Typed, TypeOK, Message
<1>1. UNCHANGED <<step, fFileDesc, fUniqueID, fWatchEventCalled, fTable, socket, current>>
  BY DEF EventThreadStep, CreateWindow, GetMessage, GetQuitMessage, NotFound, Resolve,
     ProcessEvent, Release, SignalExit, Receive, Post
<1>2. \A d \in waiting : /\ Registered(d) /\ Registered(d)' /\ step'[d] # "swapped"
                         /\ d \in fTable /\ fFileDesc[d] \in Handles /\ fUniqueID[d] > 0
  BY <1>0, <1>1 DEF WaitInv, WaitOf, Registered, TableInv, TableOf, TypeInv, HasHandle, Idle,
     UseInv, InUse
<1>3. ASSUME UNCHANGED <<asyncSelect, disturbed>>, waiting' \subseteq waiting,
             \A d \in waiting' : OnItsWay(d) => OnItsWay(d)'
      PROVE  WaitInv'
  BY <1>1, <1>2, <1>3 DEF WaitInv, WaitOf, Lost, Robbed
<1>4. pc = "resolve" =>
         \A d \in waiting : theCurrentEvent.id = fUniqueID[d] => d \in Map(theCurrentEvent.id)
  BY <1>0, <1>2 DEF Map
<1>5. CASE CreateWindow \/ GetQuitMessage \/ Release \/ SignalExit
           \/ \E h \in Handles : Receive(h) \/ Post(h)
  BY <1>1, <1>3, <1>5 DEF CreateWindow, GetQuitMessage, Release, SignalExit, Receive, Post,
     OnItsWay
<1>6. CASE GetMessage
  <2>1. PICK m \in Message, h \in Handles : m = Head(messages) /\ m # quitMessage /\ h = m.handle
    BY <1>0, <1>6 DEF GetMessage, Message
  <2>2. /\ UNCHANGED waiting /\ pc = "waitevent" /\ pc' = "resolve" /\ theCurrentEvent' = m
        /\ asyncSelect' = [asyncSelect EXCEPT ![h] = 0]
        /\ disturbed' = IF asyncSelect[h] \in {0, m.id} THEN disturbed
                        ELSE disturbed \cup {current[h]}
    BY <1>6, <2>1 DEF GetMessage
  <2>3. ASSUME NEW d \in waiting PROVE WaitOf(d)'
    <3>1. asyncSelect[fFileDesc[d]] = fUniqueID[d] \/ Lost(d)
      BY <2>2 DEF WaitInv, WaitOf, OnItsWay
    <3>2. CASE Lost(d)
      BY <1>1, <1>2, <2>2, <3>2 DEF WaitOf, Lost, Robbed
    <3>3. CASE asyncSelect[fFileDesc[d]] = fUniqueID[d] /\ h # fFileDesc[d]
      <4>1. asyncSelect'[fFileDesc[d]] = fUniqueID[d]
        BY <1>0, <2>2, <3>3
      <4> QED
        BY <1>1, <1>2, <4>1 DEF WaitOf
    <3>4. CASE asyncSelect[h] = fUniqueID[d] /\ h = fFileDesc[d] /\ m.id = fUniqueID[d]
      <4>1. OnItsWay(d)'
        BY <1>1, <2>2, <3>4 DEF OnItsWay
      <4> QED
        BY <1>1, <1>2, <4>1 DEF WaitOf
    <3>5. CASE asyncSelect[h] = fUniqueID[d] /\ h = fFileDesc[d] /\ m.id # fUniqueID[d]
      <4>1. current[h] \in disturbed'
        BY <1>0, <1>2, <2>2, <3>5
      <4>2. Lost(d)'
        BY <1>0, <1>1, <1>2, <3>5, <4>1, NamesAssumption DEF Lost, Robbed
      <4> QED
        BY <1>1, <1>2, <4>2 DEF WaitOf
    <3> QED
      BY <3>1, <3>2, <3>3, <3>4, <3>5
  <2> QED
    BY <2>2, <2>3 DEF WaitInv
<1>7. CASE NotFound
  <2>1. /\ UNCHANGED <<asyncSelect, disturbed, waiting>> /\ pc = "resolve"
        /\ Map(theCurrentEvent.id) = {}
    BY <1>7 DEF NotFound
  <2>2. \A d \in waiting : ~ OnItsWay(d)
    BY <1>4, <2>1 DEF OnItsWay
  <2> QED
    BY <1>3, <2>1, <2>2
<1>8. CASE Resolve
  <2>1. PICK c \in Map(theCurrentEvent.id) : ref' = c
    BY <1>8 DEF Resolve
  <2>2. /\ UNCHANGED <<asyncSelect, disturbed, waiting>> /\ pc = "resolve"
        /\ pc' = "processEvent"
    BY <1>8 DEF Resolve
  <2>3. \A d \in waiting : OnItsWay(d) => d = c
    BY <1>4, <2>1, <2>2 DEF OnItsWay, Map, TableInv, UniqueIDs
  <2> QED
    BY <1>3, <2>1, <2>2, <2>3 DEF OnItsWay
<1>9. CASE ProcessEvent
  <2>1. UNCHANGED <<asyncSelect, disturbed>> /\ waiting' = waiting \ {ref} /\ pc = "processEvent"
    BY <1>9 DEF ProcessEvent
  <2>2. \A d \in waiting' : ~ OnItsWay(d)
    BY <2>1 DEF OnItsWay
  <2> QED
    BY <1>3, <2>1, <2>2
<1> QED
  BY <1>5, <1>6, <1>7, <1>8, <1>9 DEF EventThreadStep

LEMMA WaitNext ==
    /\ TypeInv /\ UseInv /\ DonorInv /\ WatchInv /\ SocketInv /\ TableInv /\ WaitInv
    /\ [Next]_vars
    => WaitInv'
<1> SUFFICES ASSUME TypeInv, UseInv, DonorInv, WatchInv, SocketInv, TableInv, WaitInv,
                    [Next]_vars
             PROVE  WaitInv'
  OBVIOUS
<1>0. /\ waiting \subseteq Contexts /\ step \in [Contexts -> Steps]
      /\ fFileDesc \in [Contexts -> Handles \cup {NoHandle}]
      /\ fUniqueID \in [Contexts -> Nat] /\ fWatchEventCalled \in [Contexts -> BOOLEAN]
      /\ socket \in [Contexts -> Nat]
  BY DEF TypeInv, Typed, TypeOK, Steps
<1>1. ASSUME NEW c \in Contexts, NEW from \in Contexts, SnarfSocket(c, from) PROVE WaitInv'
  <2>1. /\ step[c] = "closed" /\ waiting' = waiting \ {from}
        /\ UNCHANGED <<asyncSelect, current, disturbed, threadVars>>
        /\ fFileDesc' = [fFileDesc EXCEPT ![c] = fFileDesc[from], ![from] = NoHandle]
        /\ socket' = [socket EXCEPT ![c] = socket[from], ![from] = 0]
        /\ step' = [step EXCEPT ![c] = "swap", ![from] = "snarfed"]
        /\ fUniqueID' = [fUniqueID EXCEPT ![c] = fUniqueID[from]]
        /\ fWatchEventCalled' = [fWatchEventCalled EXCEPT ![c] = fWatchEventCalled[from]]
    BY <1>1 DEF SnarfSocket, windowVars, countVars
  <2>2. c \notin waiting
    BY <2>1 DEF WaitInv, WaitOf, Registered
  <2>3. ASSUME NEW d \in waiting' PROVE WaitOf(d)'
    <3>1. /\ step'[d] = step[d] /\ fFileDesc'[d] = fFileDesc[d] /\ socket'[d] = socket[d]
          /\ fUniqueID'[d] = fUniqueID[d] /\ fWatchEventCalled'[d] = fWatchEventCalled[d]
      BY <1>0, <2>1, <2>2
    <3>2. WaitOf(d) /\ Registered(d)'
      BY <2>1, <3>1 DEF WaitInv, WaitOf, Registered
    <3> QED
      BY <1>0, <2>1, <3>1, <3>2, WaitStays
  <2> QED
    BY <2>3 DEF WaitInv
<1>2. CASE UNCHANGED vars
  BY <1>2 DEF vars, WaitInv, WaitOf, Registered, OnItsWay, Lost, Robbed, contextVars, windowVars,
     threadVars, taskVars, countVars
<1> QED
  BY <1>1, <1>2, WaitContextStep, WaitEventStep DEF Next, ContextStep

(* A context that waits for data is armed under its own ID, or the event   *)
(* thread is about to signal it for the message that disarmed it: what the *)
(* promise of a kReadEvent rests on.  Left out is what DataIsSignalled     *)
(* leaves out.                                                             *)
WaiterIsArmed ==
    \A c \in waiting :
        /\ fUniqueID[c] > 0
        /\ \/ asyncSelect[fFileDesc[c]] = fUniqueID[c] \/ OnItsWay(c)
           \/ Robbed(c) \/ socket[c] \in disturbed

(* Until the IDs start again, no context that waits is forgotten: neither  *)
(* by Windows, which posts for the armed sockets only, nor between the     *)
(* message that disarms its socket and the Signal; except for one whose    *)
(* socket a second closesocket took, or which a message or a call of       *)
(* another socket disarmed.                                                *)
THEOREM WaitersAreArmed == Spec /\ [](sUniqueID < LastID) => []WaiterIsArmed
<1>1. TypeInv /\ UseInv /\ TableInv /\ WaitInv => WaiterIsArmed
  BY DEF TypeInv, Typed, TypeOK, UseInv, InUse, TableInv, TableOf, WaitInv, WaitOf, Lost,
     WaiterIsArmed
<1>2. Spec /\ [](sUniqueID < LastID)
        => [](TypeInv /\ UseInv /\ DonorInv /\ WatchInv /\ SocketInv /\ IDInv /\ TableInv
              /\ WaitInv)
  BY TypeInit, TypeNext, UseInit, UseNext, OwnInit, DonorNext, WatchNext, SocketNext, IDNext,
     ArmedInit, TableNext, WaitNext, PTL DEF Spec
<1> QED
  BY <1>1, <1>2, PTL
=============================================================================
