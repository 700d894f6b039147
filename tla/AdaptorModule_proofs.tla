------------------------ MODULE AdaptorModule_proofs ------------------------
(***************************************************************************)
(* Proofs about AdaptorModule, for any number of viewers, requests and     *)
(* waits.                                                                  *)
(***************************************************************************)
EXTENDS AdaptorModule, TLAPS

-----------------------------------------------------------------------------
(* Types                                                                   *)

LEMMA TypesOfVisit ==
    ASSUME TypeOK, NEW p \in Nat, VisitAfter(p)
    PROVE  pc' \in {"store", "meta"} /\ pos' \in Nat /\ at' \in Viewers
BY DEF TypeOK, VisitAfter, Listed

LEMMA TypesOfRelay == TypeOK /\ ReceiveData => TypeOK'
<1> SUFFICES ASSUME TypeOK, ReceiveData PROVE TypeOK'
  OBVIOUS
<1> USE DEF TypeOK, theirVars, sessionVars, listVars, packagerVars, relayVars, passVars, sentVars
<1>1. CASE SendMetaData
  BY <1>1 DEF SendMetaData, MetaDataFound, Set, Kinds
<1>2. CASE SendNoMetaData
  BY <1>2 DEF SendNoMetaData, Kinds
<1>3. CASE NoStream
  BY <1>3, MaxWaitsAssumption DEF NoStream, DoneAnd, Done, Kinds
<1>4. CASE Write
  BY <1>4 DEF Write
<1>5. CASE Sent
  <2>1. DoneAnd /\ UNCHANGED theirVars
    BY <1>5 DEF Sent, DoneAnd
  <2>2. metaDone' \in [Viewers -> BOOLEAN] /\ gotData' \in [Viewers -> BOOLEAN]
    BY <1>5 DEF Sent, Set
  <2>3. late' \in [Viewers -> Nat]
    BY <1>5 DEF Sent, Set
  <2>4. waits' \in 0 .. MaxWaits
    BY <2>1, MaxWaitsAssumption DEF DoneAnd
  <2>5. pc' \in {"call", "next"} /\ sending' \in Kinds /\ served' \subseteq Viewers
    BY <2>1 DEF DoneAnd, Done, Kinds
  <2> QED
    BY <2>1, <2>2, <2>3, <2>4, <2>5 DEF DoneAnd
<1>6. CASE WouldBlock
  BY <1>6, MaxWaitsAssumption DEF WouldBlock, Retries
<1>7. CASE Fails
  BY <1>7, MaxWaitsAssumption DEF Fails, LeavesLoop, Done, Set, Kinds
<1>8. CASE NextViewer
  BY <1>8, TypesOfVisit DEF NextViewer
<1>9. CASE NextFromRemoved
  BY <1>9 DEF NextFromRemoved, Listed
<1>10. CASE Store
  BY <1>10 DEF Store, KeepsMetaData, Kinds
<1> HIDE DEF TypeOK
<1> QED
  BY <1>1, <1>2, <1>3, <1>4, <1>5, <1>6, <1>7, <1>8, <1>9, <1>10 DEF ReceiveData

LEMMA TypesOfViewer ==
    ASSUME TypeOK, NEW v \in Viewers,
           Request(v) \/ Response(v) \/ Closing(v) \/ TimeOut(v) \/ KilledByServer(v)
    PROVE  TypeOK'
<1> USE DEF TypeOK, sessionVars, listVars, packagerVars, channelVars, relayVars, passVars, sentVars, Set
<1>1. CASE DoSetup(v)
  BY <1>1 DEF DoSetup
<1>2. CASE DoPlay(v)
  BY <1>2 DEF DoPlay, Attach_DataReceiver
<1>3. CASE DoTearDown(v)
  BY <1>3 DEF DoTearDown, Detach_DataReceiver, ClearRTPStreamObject
<1>4. CASE Response(v)
  BY <1>4 DEF Response, EndPlay, EndTearDown
<1>5. CASE Closing(v)
  <2>1. CASE RTP_ClientSessionClosing(v)
    <3>1. place' \in [Viewers -> Nat] /\ nodes' \in Nat /\ owed' \subseteq Viewers
      BY <2>1 DEF RTP_ClientSessionClosing, ClosingDetaches, Detach_DataReceiver
    <3>2. /\ session' = [session EXCEPT ![v] = "closed"]
          /\ m_LP_S_ChannelElem' = [m_LP_S_ChannelElem EXCEPT ![v] = FALSE]
          /\ m_LP_S_ConnectionElem' = [m_LP_S_ConnectionElem EXCEPT ![v] = FALSE]
          /\ UNCHANGED <<request, fRTPStreamObject, fbMetaDataSented, packagerVars,
                         channelVars, relayVars, passVars, sentVars, ended>>
      BY <2>1 DEF RTP_ClientSessionClosing
    <3> QED
      BY <3>1, <3>2
  <2>2. CASE Delete(v)
    BY <2>2 DEF Delete
  <2> QED
    BY <1>5, <2>1, <2>2 DEF Closing
<1>6. CASE TimeOut(v)
  <2>1. \/ /\ fRTPStreamObject' = [fRTPStreamObject EXCEPT ![v] = FALSE]
           /\ ended' = [ended EXCEPT ![v] = TRUE]
        \/ UNCHANGED <<fRTPStreamObject, ended>>
    BY <1>6 DEF TimeOut, ClearRTPStreamObject
  <2>2. fRTPStreamObject' \in [Viewers -> BOOLEAN] /\ ended' \in [Viewers -> BOOLEAN]
    BY <2>1
  <2>3. /\ session' = [session EXCEPT ![v] = "killed"]
        /\ UNCHANGED <<request, m_LP_S_ConnectionElem, m_LP_S_ChannelElem,
                       fbMetaDataSented, listVars, packagerVars, channelVars, relayVars, passVars,
                       owed, sentVars>>
    BY <1>6 DEF TimeOut
  <2> QED
    BY <2>2, <2>3
<1>7. CASE KilledByServer(v)
  BY <1>7 DEF KilledByServer
<1> HIDE DEF TypeOK
<1> QED
  BY <1>1, <1>2, <1>3, <1>4, <1>5, <1>6, <1>7 DEF Request

LEMMA TypesInit == Init => TypeOK
<1> SUFFICES ASSUME Init PROVE TypeOK
  OBVIOUS
<1>1. waits \in 0 .. MaxWaits
  BY MaxWaitsAssumption DEF Init
<1> QED
  BY <1>1 DEF Init, TypeOK, Kinds

LEMMA TypesNext == TypeOK /\ [Next]_vars => TypeOK'
<1> SUFFICES ASSUME TypeOK, [Next]_vars PROVE TypeOK'
  OBVIOUS
<1> USE DEF sessionVars, listVars, packagerVars, channelVars, relayVars, passVars, sentVars, theirVars
<1>1. ASSUME NEW k \in Kinds, Packet(k) PROVE TypeOK'
  <2>1. pc' \in {"store", "meta"} /\ pos' \in Nat /\ at' \in Viewers
    BY <1>1, TypesOfVisit DEF Packet
  <2> QED
    BY <1>1, <2>1 DEF Packet, TypeOK, Listed
<1>2. CASE SourceEnds
  BY <1>2 DEF SourceEnds, TypeOK
<1>3. CASE UNCHANGED vars
  BY <1>3 DEF vars, TypeOK
<1> QED
  BY <1>1, <1>2, <1>3, TypesOfRelay, TypesOfViewer DEF Next

(* Every variable keeps its type.                                          *)
THEOREM TypeCorrect == Spec => []TypeOK
BY TypesInit, TypesNext, PTL DEF Spec

-----------------------------------------------------------------------------
(* The thread of the channel changes nothing of the viewers, and they      *)
(* change nothing of its pass but the list it goes through.                *)

ViewerStep(v) ==
    Request(v) \/ Response(v) \/ Closing(v) \/ TimeOut(v) \/ KilledByServer(v)
RelayStep == ReceiveData \/ \E k \in Kinds : Packet(k)
passAndPackager ==
    <<relayVars, passVars, packagerVars, fbMetaDataSented, sentVars, m_MetaData>>

LEMMA RelayFrame == RelayStep => UNCHANGED theirVars
BY DEF RelayStep, ReceiveData, SendMetaData, SendNoMetaData, NoStream, Write, Sent, WouldBlock,
       Fails, DoneAnd, NextViewer, NextFromRemoved, Store, Packet

LEMMA ViewerFrame == ASSUME NEW v \in Viewers, ViewerStep(v) PROVE UNCHANGED passAndPackager
<1>1. CASE Request(v)
  BY <1>1 DEF Request, DoSetup, DoPlay, DoTearDown, passAndPackager, channelVars
<1>2. CASE Response(v)
  BY <1>2 DEF Response, EndPlay, EndTearDown, passAndPackager, channelVars
<1>3. CASE Closing(v)
  BY <1>3 DEF Closing, RTP_ClientSessionClosing, Delete, passAndPackager, channelVars
<1>4. CASE TimeOut(v) \/ KilledByServer(v)
  BY <1>4 DEF TimeOut, KilledByServer, passAndPackager, channelVars
<1> QED
  BY <1>1, <1>2, <1>3, <1>4 DEF ViewerStep

LEMMA NextSteps ==
    ASSUME [Next]_vars
    PROVE  \/ RelayStep \/ SourceEnds \/ UNCHANGED vars
           \/ \E v \in Viewers : ViewerStep(v)
BY DEF Next, RelayStep, ViewerStep

-----------------------------------------------------------------------------
(* The list and the sessions                                               *)

Left(v) == session[v] \in {"closed", "deleted"}

SessionInv ==
    \A v \in Viewers :
        /\ request[v] # "none" => Registered(v)
        /\ m_LP_S_ChannelElem[v] => m_LP_S_ConnectionElem[v]
        /\ place[v] > 0 => m_LP_S_ChannelElem[v] /\ ~ Left(v)
        /\ m_LP_S_ChannelElem[v] /\ fRTPStreamObject[v] => place[v] > 0
        /\ ended[v] => ~ fRTPStreamObject[v] /\ (m_LP_S_ConnectionElem[v] \/ Left(v))

LEMMA SessionInit == Init => SessionInv
<1> SUFFICES ASSUME Init, NEW v \in Viewers
             PROVE  /\ request[v] = "none" /\ ~ m_LP_S_ChannelElem[v] /\ ~ ended[v]
                    /\ ~ (place[v] > 0)
  BY DEF SessionInv
<1> QED
  BY DEF Init

LEMMA SessionViewer ==
    ASSUME TypeOK, SessionInv, NEW v \in Viewers, ViewerStep(v)
    PROVE  SessionInv'
<1> USE DEF TypeOK, SessionInv, Registered, Left, Set, sessionVars, listVars
<1>1. CASE DoSetup(v)
  BY <1>1 DEF DoSetup
<1>2. CASE DoPlay(v)
  BY <1>2 DEF DoPlay, Attach_DataReceiver
<1>3. CASE DoTearDown(v)
  BY <1>3 DEF DoTearDown, Detach_DataReceiver, ClearRTPStreamObject
<1>4. CASE EndPlay(v)
  BY <1>4 DEF EndPlay
<1>5. CASE EndTearDown(v)
  BY <1>5 DEF EndTearDown
<1>6. CASE RTP_ClientSessionClosing(v)
  <2>1. CASE m_LP_S_ChannelElem[v]
    BY <1>6, <2>1 DEF RTP_ClientSessionClosing, ClosingDetaches, Detach_DataReceiver
  <2>2. CASE ~ m_LP_S_ChannelElem[v]
    BY <1>6, <2>2 DEF RTP_ClientSessionClosing
  <2> QED
    BY <2>1, <2>2
<1>7. CASE Delete(v)
  BY <1>7 DEF Delete
<1>8. CASE TimeOut(v)
  <2>1. CASE m_LP_S_ConnectionElem[v]
    BY <1>8, <2>1 DEF TimeOut, ClearRTPStreamObject
  <2>2. CASE ~ m_LP_S_ConnectionElem[v]
    BY <1>8, <2>2 DEF TimeOut
  <2> QED
    BY <2>1, <2>2
<1>9. CASE KilledByServer(v)
  BY <1>9 DEF KilledByServer
<1> HIDE DEF TypeOK, SessionInv
<1> QED
  BY <1>1, <1>2, <1>3, <1>4, <1>5, <1>6, <1>7, <1>8, <1>9
     DEF ViewerStep, Request, Response, Closing

LEMMA SessionNext == TypeOK /\ SessionInv /\ [Next]_vars => SessionInv'
<1> SUFFICES ASSUME TypeOK, SessionInv, [Next]_vars PROVE SessionInv'
  OBVIOUS
<1>1. ASSUME UNCHANGED theirVars PROVE SessionInv'
  BY <1>1 DEF SessionInv, Registered, Left, theirVars, sessionVars, listVars
<1>2. ASSUME SourceEnds \/ UNCHANGED vars PROVE SessionInv'
  BY <1>2 DEF SourceEnds, vars, SessionInv, Registered, Left, sessionVars, listVars
<1> QED
  BY <1>1, <1>2, RelayFrame, SessionViewer, NextSteps

(* The viewers in the list are those whose session will detach them, and   *)
(* those that play and have a stream.                                      *)
THEOREM ListMatchesSessionsHolds == Spec => []ListMatchesSessions
<1>1. SessionInv => ListMatchesSessions
  BY DEF SessionInv, ListMatchesSessions, Listed, Left
<1> QED
  BY <1>1, TypesInit, TypesNext, SessionInit, SessionNext, PTL DEF Spec

-----------------------------------------------------------------------------
(* A pass through the list                                                 *)

PlacesInv ==
    /\ \A v \in Viewers : place[v] <= nodes
    /\ \A v, w \in Viewers : place[v] > 0 /\ place[v] = place[w] => v = w
    /\ owed \subseteq Listed

PassInv ==
    ~ raced =>
        /\ pc \in {"meta", "call", "write"} =>
               \A v \in owed : v \in served \/ v = at \/ place[v] > pos
        /\ pc = "next" => \A v \in owed : v \in served \/ place[v] > pos
        /\ pc = "store" => owed \subseteq served

LEMMA PassInit == Init => PlacesInv /\ PassInv
BY DEF Init, PlacesInv, PassInv, Listed

(* Who moves the iterator leaves behind only what is not behind it.        *)
LEMMA VisitEffect ==
    ASSUME TypeOK, PlacesInv, NEW p \in Nat, VisitAfter(p), UNCHANGED <<place, served>>,
           owed' \subseteq Listed, \A v \in owed' : v \in served \/ place[v] > p
    PROVE  PassInv'
<1>1. CASE pc' = "store" /\ {v \in Listed : place[v] > p} = {}
  <2>1. owed' \subseteq served'
    BY <1>1
  <2> QED
    BY <1>1, <2>1 DEF PassInv
<1>2. ASSUME NEW v \in Listed, place[v] > p, pc' = "meta", pos' = place[v], at' = v,
             \A w \in {u \in Listed : place[u] > p} : place[v] <= place[w]
      PROVE  PassInv'
  <2>1. ASSUME NEW w \in owed' PROVE w \in served' \/ w = at' \/ place'[w] > pos'
    <3>1. CASE w \in served
      BY <3>1
    <3>2. CASE place[w] > p
      <4>1. w \in Viewers /\ place[w] \in Nat /\ place[v] \in Nat /\ place[v] <= place[w]
        BY <1>2, <3>2 DEF TypeOK, Listed
      <4> QED
        BY <1>2, <4>1 DEF PlacesInv, Listed
    <3> QED
      BY <3>1, <3>2
  <2> QED
    BY <1>2, <2>1 DEF PassInv
<1> QED
  BY <1>1, <1>2 DEF VisitAfter

LEMMA PassRelay ==
    ASSUME TypeOK, PlacesInv, PassInv, RelayStep
    PROVE  PlacesInv' /\ PassInv'
<1>1. UNCHANGED theirVars
  BY RelayFrame
<1>2. PlacesInv'
  <2>1. owed' = owed \/ owed' = {} \/ owed' = Listed
    BY DEF RelayStep, ReceiveData, SendMetaData, SendNoMetaData, NoStream, Write, Sent,
           WouldBlock, Fails, DoneAnd, NextViewer, NextFromRemoved, Store, Packet
  <2> QED
    BY <1>1, <2>1 DEF PlacesInv, Listed, theirVars, listVars
<1> SUFFICES PassInv'
  BY <1>2
<1>3. CASE SendMetaData \/ SendNoMetaData \/ Write \/ WouldBlock
  BY <1>1, <1>3 DEF PassInv, SendMetaData, SendNoMetaData, Write, WouldBlock, passVars,
                    theirVars, listVars
<1>4. CASE NoStream \/ Sent \/ Fails
  <2>1. /\ pc \in {"call", "write"} /\ Done /\ UNCHANGED <<pos, at, raced, owed, place>>
    BY <1>1, <1>4 DEF NoStream, Sent, Fails, DoneAnd, LeavesLoop, theirVars, listVars
  <2> QED
    BY <2>1 DEF PassInv, Done
<1>5. CASE NextViewer
  <2>1. CASE raced
    BY <1>5, <2>1 DEF NextViewer, passVars, PassInv
  <2>2. CASE ~ raced
    BY <1>1, <1>5, <2>2, VisitEffect
       DEF NextViewer, PassInv, PlacesInv, TypeOK, passVars, theirVars, listVars
  <2> QED
    BY <2>1, <2>2
<1>6. CASE NextFromRemoved
  BY <1>6 DEF NextFromRemoved, PassInv
<1>7. CASE Store
  BY <1>7 DEF Store, PassInv
<1>8. ASSUME NEW k \in Kinds, Packet(k) PROVE PassInv'
  BY <1>1, <1>8, VisitEffect DEF Packet, Listed, theirVars, listVars
<1> QED
  BY <1>3, <1>4, <1>5, <1>6, <1>7, <1>8 DEF RelayStep, ReceiveData

(* A viewer leaves the list, or comes to its end; the pass owes it nothing.*)
LEMMA PassViewer ==
    ASSUME TypeOK, PlacesInv, PassInv, NEW v \in Viewers, ViewerStep(v)
    PROVE  PlacesInv' /\ PassInv'
<1>1. UNCHANGED <<pc, pos, at, raced, served>>
  BY ViewerFrame DEF passAndPackager, relayVars, passVars
<1>2. \/ UNCHANGED <<place, nodes, owed>>
      \/ Attach_DataReceiver(v)
      \/ Detach_DataReceiver(v)
  BY DEF ViewerStep, Request, Response, Closing, DoSetup, DoPlay, DoTearDown, EndPlay,
         EndTearDown, RTP_ClientSessionClosing, ClosingDetaches, Delete, TimeOut,
         KilledByServer, listVars
<1>3. /\ \A w \in owed' : w \in owed /\ w \in Viewers /\ place'[w] = place[w]
      /\ owed' \subseteq owed
  BY <1>2 DEF Attach_DataReceiver, Detach_DataReceiver, Set, TypeOK
<1>4. PassInv'
  BY <1>1, <1>3 DEF PassInv
<1>5. PlacesInv'
  <2>1. CASE UNCHANGED <<place, nodes, owed>>
    BY <2>1 DEF PlacesInv, Listed
  <2>2. CASE Attach_DataReceiver(v)
    BY <2>2 DEF Attach_DataReceiver, PlacesInv, Listed, Set, TypeOK
  <2>3. CASE Detach_DataReceiver(v)
    BY <2>3 DEF Detach_DataReceiver, PlacesInv, Listed, Set, TypeOK
  <2> QED
    BY <1>2, <2>1, <2>2, <2>3
<1> QED
  BY <1>4, <1>5

LEMMA PassNext == TypeOK /\ PlacesInv /\ PassInv /\ [Next]_vars => PlacesInv' /\ PassInv'
<1>1. ASSUME PlacesInv, PassInv, SourceEnds \/ UNCHANGED vars PROVE PlacesInv' /\ PassInv'
  BY <1>1 DEF SourceEnds, vars, PlacesInv, PassInv, Listed, listVars, relayVars, passVars
<1> QED
  BY <1>1, PassRelay, PassViewer, NextSteps

(* A packet is offered to all who are in the list from beginning to end of *)
(* its pass, if the node its thread stood on was not removed.              *)
THEOREM EveryViewerServedHolds == Spec => []EveryViewerServed
<1>1. PassInv => EveryViewerServed
  BY DEF PassInv, EveryViewerServed
<1> QED
  BY <1>1, TypesInit, TypesNext, PassInit, PassNext, PTL DEF Spec

-----------------------------------------------------------------------------
(* The metadata of a channel                                               *)

Known(v) == m_LP_S_ConnectionElem[v] \/ Left(v)

MetaInv ==
    /\ first = "none" => pc = "idle" /\ fbMetaDataSupported
    /\ first = "head" => fbMetaDataSupported /\ (m_MetaData \/ (pc # "idle" /\ kind = "head"))
    /\ pc \in {"meta", "call", "write"} => Known(at)
    /\ \A v \in Viewers : fbMetaDataSented[v] => Known(v)
    /\ \A v \in Viewers : gotData[v] => metaDone[v] \/ ~ fbMetaDataSupported

(* Who is flagged has had its metadata, or is getting it, or has no stream *)
(* left; and so no data is written to who has not.                         *)
SentInv ==
    fbMetaDataSupported =>
        /\ \A v \in Viewers :
              fbMetaDataSented[v] =>
                  \/ metaDone[v] \/ ~ fRTPStreamObject[v]
                  \/ at = v /\ pc \in {"call", "write"} /\ sending = "head"
        /\ pc = "call" /\ sending = "data" => metaDone[at] \/ ~ fRTPStreamObject[at]
        /\ pc = "write" /\ sending = "data" => metaDone[at]

LEMMA MetaInit == Init => MetaInv /\ SentInv
<1> SUFFICES ASSUME Init PROVE MetaInv /\ SentInv
  OBVIOUS
<1>1. \A v \in Viewers : ~ fbMetaDataSented[v] /\ ~ gotData[v]
  BY DEF Init
<1> QED
  BY <1>1 DEF Init, MetaInv, SentInv

(* The viewer the iterator comes to is in the list.                        *)
LEMMA KnownAtVisit ==
    ASSUME TypeOK, SessionInv, RelayStep, pc' = "meta"
    PROVE  Known(at')
<1>1. \A v \in Listed : v \in Viewers /\ Known(v)
  BY DEF SessionInv, Listed, Known
<1>2. at' \in Listed
  BY DEF RelayStep, ReceiveData, SendMetaData, SendNoMetaData, NoStream, Write, Sent,
         WouldBlock, Fails, LeavesLoop, DoneAnd, Done, NextViewer, NextFromRemoved, Store, Packet,
         VisitAfter
<1> QED
  BY <1>1, <1>2

LEMMA MetaRelay ==
    ASSUME TypeOK, SessionInv, MetaInv, SentInv, RelayStep
    PROVE  MetaInv' /\ SentInv'
<1>1. UNCHANGED <<session, m_LP_S_ConnectionElem, fRTPStreamObject>>
  BY RelayFrame DEF theirVars, sessionVars
<1>2. \A v \in Viewers : Known(v)' <=> Known(v)
  BY <1>1 DEF Known, Left
<1>3. pc' = "meta" => Known(at') /\ at' \in Viewers
  BY KnownAtVisit, TypesNext DEF RelayStep, Next, TypeOK
<1> USE DEF TypeOK
<1>4. CASE SendMetaData
  <2>1. /\ pc = "meta" /\ fbMetaDataSupported /\ pc' = "call" /\ Known(at)
        /\ fbMetaDataSupported' = MetaDataFound
        /\ sending' = IF MetaDataFound THEN "head" ELSE "data"
        /\ UNCHANGED <<kind, at, first, m_MetaData, metaDone, gotData>>
        /\ \A v \in Viewers : fbMetaDataSented'[v] => fbMetaDataSented[v] \/ v = at
    BY <1>4 DEF SendMetaData, MetaDataDue, Set, MetaInv, passVars, sentVars
  <2>2. first = "head" => MetaDataFound
    BY <2>1 DEF MetaInv, MetaDataFound
  <2>3. MetaInv'
    BY <1>2, <2>1, <2>2 DEF MetaInv
  <2>4. SentInv'
    BY <1>1, <2>1 DEF SentInv
  <2> QED
    BY <2>3, <2>4
<1>5. CASE SendNoMetaData
  <2>1. /\ pc = "meta" /\ pc' = "call" /\ sending' = "data"
        /\ fbMetaDataSupported => fbMetaDataSented[at]
        /\ UNCHANGED <<fbMetaDataSupported, fbMetaDataSented, kind, at, first, m_MetaData,
                       metaDone, gotData>>
    BY <1>5 DEF SendNoMetaData, MetaDataDue, passVars, sentVars, packagerVars
  <2>2. MetaInv'
    BY <1>2, <2>1 DEF MetaInv
  <2>3. SentInv'
    BY <1>1, <2>1 DEF SentInv
  <2> QED
    BY <2>2, <2>3
<1>6. CASE NoStream \/ Fails \/ Sent
  <2>1. /\ pc \in {"call", "write"} /\ Done
        /\ UNCHANGED <<fbMetaDataSupported, fbMetaDataSented, kind, at, first, m_MetaData>>
    BY <1>6 DEF NoStream, Fails, Sent, LeavesLoop, DoneAnd, packagerVars
  <2>2. /\ \A v \in Viewers : metaDone[v] => metaDone'[v]
        /\ sending = "head" => metaDone'[at] \/ ~ fRTPStreamObject[at]
        /\ \A v \in Viewers : gotData'[v] => \/ gotData[v]
                                             \/ v = at /\ pc = "write" /\ sending = "data"
    <3>1. CASE NoStream
      BY <3>1 DEF NoStream, sentVars
    <3>2. CASE Fails
      BY <3>2 DEF Fails, Set
    <3>3. CASE Sent /\ sending = "head"
      BY <3>3 DEF Sent, Set
    <3>4. CASE Sent /\ sending # "head"
      BY <3>4 DEF Sent, Set, Kinds
    <3> QED
      BY <1>6, <3>1, <3>2, <3>3, <3>4
  <2>3. MetaInv'
    BY <1>2, <2>1, <2>2 DEF MetaInv, SentInv, Done
  <2>4. SentInv'
    BY <1>1, <2>1, <2>2 DEF SentInv, Done, Kinds
  <2> QED
    BY <2>3, <2>4
<1>7. CASE Write \/ WouldBlock
  <2>1. /\ \/ pc = "call" /\ pc' = "write" /\ fRTPStreamObject[at]
           \/ pc = "write" /\ pc' = "call" /\ sending = "head"
        /\ UNCHANGED <<sending, fbMetaDataSupported, fbMetaDataSented, kind, at, first,
                       m_MetaData, metaDone, gotData>>
    BY <1>7 DEF Write, WouldBlock, Retries, packagerVars, passVars, sentVars
  <2>2. MetaInv'
    BY <1>2, <2>1 DEF MetaInv
  <2>3. SentInv'
    BY <1>1, <2>1 DEF SentInv
  <2> QED
    BY <2>2, <2>3
<1>8. CASE NextViewer \/ NextFromRemoved
  <2>1. /\ pc = "next" /\ pc' \in {"meta", "store"}
        /\ UNCHANGED <<fbMetaDataSupported, fbMetaDataSented, kind, first,
                       m_MetaData, metaDone, gotData>>
    BY <1>8 DEF NextViewer, NextFromRemoved, VisitAfter, packagerVars, passVars, sentVars
  <2>2. MetaInv'
    BY <1>2, <1>3, <2>1 DEF MetaInv
  <2>3. SentInv'
    BY <1>1, <2>1 DEF SentInv
  <2> QED
    BY <2>2, <2>3
<1>9. CASE Store
  <2>1. /\ pc = "store" /\ pc' = "idle" /\ m_MetaData' = (m_MetaData \/ kind = "head")
        /\ UNCHANGED <<fbMetaDataSupported, fbMetaDataSented, first, metaDone, gotData>>
    BY <1>9 DEF Store, KeepsMetaData, packagerVars, sentVars
  <2>2. MetaInv'
    BY <1>2, <2>1 DEF MetaInv
  <2>3. SentInv'
    BY <1>1, <2>1 DEF SentInv
  <2> QED
    BY <2>2, <2>3
<1>10. ASSUME NEW k \in Kinds, Packet(k) PROVE MetaInv' /\ SentInv'
  <2>1. /\ pc = "idle" /\ pc' \in {"meta", "store"} /\ kind' = k
        /\ first' = IF first = "none" THEN k ELSE first
        /\ UNCHANGED <<fbMetaDataSupported, fbMetaDataSented, m_MetaData, metaDone, gotData>>
    BY <1>10 DEF Packet, VisitAfter, packagerVars, sentVars
  <2>2. MetaInv'
    BY <1>2, <1>3, <2>1 DEF MetaInv, Kinds
  <2>3. SentInv'
    BY <1>1, <2>1 DEF SentInv
  <2> QED
    BY <2>2, <2>3
<1> QED
  BY <1>4, <1>5, <1>6, <1>7, <1>8, <1>9, <1>10 DEF RelayStep, ReceiveData

(* A viewer that is known stays so and gets no stream any more.            *)
LEMMA ViewerKeeps ==
    ASSUME TypeOK, SessionInv, NEW v \in Viewers, ViewerStep(v)
    PROVE  \A w \in Viewers :
               Known(w) => Known(w)' /\ (fRTPStreamObject'[w] => fRTPStreamObject[w])
<1> USE DEF TypeOK, Known, Left, Registered, Set, sessionVars
<1>1. CASE DoSetup(v)
  BY <1>1 DEF DoSetup
<1>2. CASE DoPlay(v)
  BY <1>2 DEF DoPlay
<1>3. CASE DoTearDown(v)
  BY <1>3 DEF DoTearDown, ClearRTPStreamObject
<1>4. CASE EndPlay(v)
  BY <1>4 DEF EndPlay
<1>5. CASE EndTearDown(v)
  BY <1>5 DEF EndTearDown, SessionInv
<1>6. CASE Closing(v)
  BY <1>6 DEF Closing, RTP_ClientSessionClosing, Delete
<1>7. CASE TimeOut(v) \/ KilledByServer(v)
  BY <1>7 DEF TimeOut, KilledByServer, ClearRTPStreamObject
<1> HIDE DEF TypeOK, Known
<1> QED
  BY <1>1, <1>2, <1>3, <1>4, <1>5, <1>6, <1>7 DEF ViewerStep, Request, Response

LEMMA MetaViewer ==
    ASSUME TypeOK, SessionInv, MetaInv, SentInv, NEW v \in Viewers, ViewerStep(v)
    PROVE  MetaInv' /\ SentInv'
<1>1. UNCHANGED <<pc, kind, at, sending, first, fbMetaDataSupported, fbMetaDataSented, metaDone,
                  gotData, m_MetaData>>
  BY ViewerFrame DEF passAndPackager, relayVars, passVars, packagerVars, sentVars
<1>2. at \in Viewers
  BY DEF TypeOK
<1>3. MetaInv'
  BY <1>1, <1>2, ViewerKeeps DEF MetaInv
<1>4. SentInv'
  BY <1>1, <1>2, ViewerKeeps DEF SentInv, MetaInv
<1> QED
  BY <1>3, <1>4

LEMMA MetaNext ==
    TypeOK /\ SessionInv /\ MetaInv /\ SentInv /\ [Next]_vars => MetaInv' /\ SentInv'
<1>1. ASSUME MetaInv, SentInv, SourceEnds \/ UNCHANGED vars PROVE MetaInv' /\ SentInv'
  BY <1>1 DEF SourceEnds, vars, MetaInv, SentInv, Known, Left, sessionVars, relayVars, passVars,
              packagerVars, channelVars, sentVars
<1> QED
  BY <1>1, MetaRelay, MetaViewer, NextSteps

(* Data never comes before the metadata of a channel that has any.         *)
THEOREM MetaDataFirstHolds == Spec => []MetaDataFirst
<1>1. MetaInv => MetaDataFirst
  BY DEF MetaInv, MetaDataFirst
<1> QED
  BY <1>1, TypesInit, TypesNext, SessionInit, SessionNext, MetaInit, MetaNext, PTL DEF Spec

(* A channel that begins with its metadata supports it to the end.         *)
THEOREM MetaDataNotGivenUpHolds == Spec => []MetaDataNotGivenUp
<1>1. MetaInv => MetaDataNotGivenUp
  BY DEF MetaInv, MetaDataNotGivenUp
<1> QED
  BY <1>1, TypesInit, TypesNext, SessionInit, SessionNext, MetaInit, MetaNext, PTL DEF Spec

-----------------------------------------------------------------------------
(* Packets after the end                                                   *)

LateInv ==
    \A v \in Viewers :
        /\ late[v] <= 1
        /\ late[v] > 0 => ended[v] /\ ~ (pc = "write" /\ at = v)

LEMMA LateInit == Init => LateInv
<1> SUFFICES ASSUME Init PROVE \A v \in Viewers : late[v] <= 1 /\ ~ (late[v] > 0)
  BY DEF LateInv
<1>1. \A v \in Viewers : late[v] = 0
  BY DEF Init
<1>2. 0 <= 1 /\ ~ (0 > 0)
  OBVIOUS
<1> QED
  BY <1>1, <1>2, Zenon

LEMMA LateRelay ==
    ASSUME TypeOK, SessionInv, LateInv, RelayStep
    PROVE  LateInv'
<1>1. UNCHANGED <<ended, fRTPStreamObject>>
  BY RelayFrame DEF theirVars
<1>2. CASE Sent
  BY <1>1, <1>2 DEF Sent, DoneAnd, Done, LateInv, TypeOK, Set
<1>3. CASE Write
  BY <1>1, <1>3 DEF Write, LateInv, SessionInv, sentVars, TypeOK
<1>4. CASE ~ Sent /\ ~ Write
  <2>1. UNCHANGED late /\ pc' # "write"
    BY <1>4 DEF RelayStep, ReceiveData, SendMetaData, SendNoMetaData, NoStream,
                WouldBlock, Fails, LeavesLoop, DoneAnd, Done, NextViewer, NextFromRemoved, Store,
                Packet, VisitAfter, sentVars
  <2> QED
    BY <1>1, <2>1 DEF LateInv
<1> QED
  BY <1>2, <1>3, <1>4

LEMMA LateNext == TypeOK /\ SessionInv /\ LateInv /\ [Next]_vars => LateInv'
<1>1. ASSUME TypeOK, LateInv, NEW v \in Viewers, ViewerStep(v) PROVE LateInv'
  <2>1. UNCHANGED <<pc, at, late>>
    BY <1>1, ViewerFrame DEF passAndPackager, relayVars, sentVars
  <2>2. \A w \in Viewers : ended[w] => ended'[w]
    BY <1>1 DEF ViewerStep, Request, Response, Closing, DoSetup, DoPlay, DoTearDown, EndPlay,
                EndTearDown, RTP_ClientSessionClosing, Delete, TimeOut, KilledByServer,
                ClearRTPStreamObject, Set, TypeOK
  <2> QED
    BY <1>1, <2>1, <2>2 DEF LateInv
<1>2. ASSUME LateInv, SourceEnds \/ UNCHANGED vars PROVE LateInv'
  BY <1>2 DEF SourceEnds, vars, LateInv, relayVars, sentVars
<1> QED
  BY <1>1, <1>2, LateRelay, NextSteps

(* One packet at most goes out once the pointer of a viewer is cleared.    *)
THEOREM OneLatePacketHolds == Spec => []OneLatePacket
<1>1. LateInv => OneLatePacket
  BY DEF LateInv, OneLatePacket
<1> QED
  BY <1>1, TypesInit, TypesNext, SessionInit, SessionNext, LateInit, LateNext, PTL DEF Spec
=============================================================================
