--------------------------- MODULE AdaptorModule ---------------------------
(***************************************************************************)
(* The AdaptorModule of the server: viewers that share one channel.  RTSP  *)
(* requests attach and detach viewers under m_Mutex, the RTP session of a  *)
(* viewer closes and is deleted by its own task, and the thread of the     *)
(* channel hands every packet to all of the viewers.                       *)
(*                                                                         *)
(* That thread never locks m_Mutex, so its steps fall anywhere between     *)
(* those of the viewers.  One that stands on a node of m_ConnectionList    *)
(* which is removed goes on in freed memory: it may end, or find any node. *)
(*                                                                         *)
(* A viewer has one node in the list, because Attach removes it before it  *)
(* appends it; place tells the nodes apart and orders them.                *)
(***************************************************************************)
EXTENDS Naturals

CONSTANTS
    Viewers,    \* RTP sessions of the server
    MaxPlays,   \* bound: PLAY requests of all viewers
    MaxWaits    \* WouldBlock_SleepMaxTime / WouldBlock_SleepUnitTime

ASSUME MaxPlaysAssumption == MaxPlays \in Nat
ASSUME MaxWaitsAssumption == MaxWaits \in Nat

VARIABLES
    \* a viewer: its RTP session, the request that holds a reference to the
    \* session and its mutex
    session, request,
    m_LP_S_ConnectionElem, m_LP_S_ChannelElem,
    \* its ConnectionElem
    fRTPStreamObject, fbMetaDataSented,
    \* ChannelElem: m_ConnectionList as the places of the nodes (0: no node),
    \* the nodes made, the packager; fRTPMetaDataBuffer: a packet is stored
    place, nodes, fbMetaDataSupported, fRTPMetaDataBuffer,
    \* the relayed channel; m_MetaData: it knows its metadata
    m_Channel, m_MetaData,
    \* ReceiveData: its step, the packet it was given, its iterator and the
    \* viewer it found there, the packet it sends, how often it has waited
    pc, kind, pos, at, sending, waits,
    \* history: the first packet of the channel; this pass met a freed node;
    \* viewers in the list since it began, and those it has dealt with
    first, raced, owed, served,
    \* history of a viewer: its metadata was sent, or refused to the end; data
    \* was sent; its pointer was cleared; packets sent after that
    metaDone, gotData, ended, late

sessionVars == <<session, request, m_LP_S_ConnectionElem, m_LP_S_ChannelElem>>
listVars == <<place, nodes>>
packagerVars == <<fbMetaDataSupported, fRTPMetaDataBuffer>>
channelVars == <<m_Channel, m_MetaData>>
relayVars == <<pc, kind, pos, at, sending, waits>>
passVars == <<first, raced, served>>
sentVars == <<metaDone, gotData, late>>
vars == <<sessionVars, fRTPStreamObject, fbMetaDataSented, listVars, packagerVars,
          channelVars, relayVars, passVars, owed, sentVars, ended>>

Kinds == {"head", "data"}   \* DATA_TYPES_NET_DVR_SYSHEAD, _STREAMDATA

Init ==
    /\ session = [v \in Viewers |-> "open"] /\ request = [v \in Viewers |-> "none"]
    /\ m_LP_S_ConnectionElem = [v \in Viewers |-> FALSE]
    /\ m_LP_S_ChannelElem = [v \in Viewers |-> FALSE]
    /\ fRTPStreamObject = [v \in Viewers |-> FALSE]
    /\ fbMetaDataSented = [v \in Viewers |-> FALSE]
    /\ place = [v \in Viewers |-> 0] /\ nodes = 0
    /\ fbMetaDataSupported = TRUE /\ fRTPMetaDataBuffer = FALSE
    /\ m_Channel = "none" /\ m_MetaData = FALSE
    /\ pc = "idle" /\ kind = "data" /\ pos = 0 /\ at \in Viewers
    /\ sending = "data" /\ waits = 0
    /\ first = "none" /\ raced = FALSE /\ owed = {} /\ served = {}
    /\ metaDone = [v \in Viewers |-> FALSE] /\ gotData = [v \in Viewers |-> FALSE]
    /\ ended = [v \in Viewers |-> FALSE]
    /\ late = [v \in Viewers |-> 0]

Set(f, v, x) == [f EXCEPT ![v] = x]
Listed == {v \in Viewers : place[v] > 0}

-----------------------------------------------------------------------------
(* RTSP requests.  A session that is to be killed still takes them until   *)
(* it has left the session map.                                            *)

Registered(v) == session[v] \in {"open", "killed"}

(* The ConnectionElem is made by the first SETUP.                          *)
DoSetup(v) ==
    /\ Registered(v) /\ request[v] = "none"
    /\ ~ m_LP_S_ConnectionElem[v]
    /\ m_LP_S_ConnectionElem' = Set(m_LP_S_ConnectionElem, v, TRUE)
    /\ fRTPStreamObject' = Set(fRTPStreamObject, v, TRUE)
    /\ UNCHANGED <<session, request, m_LP_S_ChannelElem, fbMetaDataSented, listVars,
                   packagerVars, channelVars, relayVars, passVars, owed, sentVars, ended>>

Attach_DataReceiver(v) ==
    /\ nodes' = nodes + 1
    /\ place' = Set(place, v, nodes + 1)
    /\ owed' = owed \ {v}

Detach_DataReceiver(v) ==
    /\ place' = Set(place, v, 0)
    /\ owed' = owed \ {v}
    /\ UNCHANGED nodes

(* The channel is created once and kept until the server ends.  What Play  *)
(* does to a channel that has deleted itself is left out.                  *)
DoPlay(v) ==
    /\ Registered(v) /\ request[v] = "none"
    /\ m_LP_S_ConnectionElem[v]
    /\ nodes < MaxPlays
    /\ request' = Set(request, v, "play")
    /\ m_LP_S_ChannelElem' = Set(m_LP_S_ChannelElem, v, TRUE)
    /\ m_Channel' = IF m_Channel = "none" THEN "live" ELSE m_Channel
    /\ Attach_DataReceiver(v)
    /\ UNCHANGED <<session, m_LP_S_ConnectionElem, fRTPStreamObject, fbMetaDataSented,
                   packagerVars, m_MetaData, relayVars, passVars, sentVars, ended>>

(* QTSS_Play and the response.                                             *)
EndPlay(v) ==
    /\ request[v] = "play"
    /\ request' = Set(request, v, "none")
    /\ UNCHANGED <<session, m_LP_S_ConnectionElem, m_LP_S_ChannelElem,
                   fRTPStreamObject, fbMetaDataSented, listVars, packagerVars, channelVars,
                   relayVars, passVars, owed, sentVars, ended>>

ClearRTPStreamObject_Kept(v) ==   \* slip: the pointer stays
    ended' = Set(ended, v, TRUE) /\ UNCHANGED fRTPStreamObject
ClearRTPStreamObject(v) ==
    /\ fRTPStreamObject' = Set(fRTPStreamObject, v, FALSE)
    /\ ended' = Set(ended, v, TRUE)

(* TEARDOWN of a session that never played, which has no ChannelElem to    *)
(* call, is left out.                                                      *)
DoTearDown(v) ==
    /\ Registered(v) /\ request[v] = "none"
    /\ m_LP_S_ConnectionElem[v] /\ m_LP_S_ChannelElem[v]
    /\ request' = Set(request, v, "teardown")
    /\ Detach_DataReceiver(v)
    /\ ClearRTPStreamObject(v)
    /\ UNCHANGED <<session, m_LP_S_ConnectionElem, m_LP_S_ChannelElem,
                   fbMetaDataSented, packagerVars, channelVars, relayVars, passVars, sentVars>>

(* QTSS_Teardown.                                                          *)
EndTearDown(v) ==
    /\ request[v] = "teardown"
    /\ request' = Set(request, v, "none")
    /\ session' = Set(session, v, "killed")
    /\ UNCHANGED <<m_LP_S_ConnectionElem, m_LP_S_ChannelElem, fRTPStreamObject,
                   fbMetaDataSented, listVars, packagerVars, channelVars, relayVars, passVars,
                   owed, sentVars, ended>>

-----------------------------------------------------------------------------
(* The task of the RTP session                                             *)

(* kTimeoutEvent clears the pointer before the session leaves the map; if  *)
(* a request holds a reference, Run comes back with kKillEvent.            *)
TimeOut(v) ==
    /\ session[v] = "open"
    /\ session' = Set(session, v, "killed")
    /\ IF m_LP_S_ConnectionElem[v] THEN ClearRTPStreamObject(v)
       ELSE UNCHANGED <<fRTPStreamObject, ended>>
    /\ UNCHANGED <<request, m_LP_S_ConnectionElem, m_LP_S_ChannelElem,
                   fbMetaDataSented, listVars, packagerVars, channelVars, relayVars, passVars,
                   owed, sentVars>>

(* kKillEvent from the server, which is over its bandwidth or shuts down.  *)
KilledByServer(v) ==
    /\ session[v] = "open"
    /\ session' = Set(session, v, "killed")
    /\ UNCHANGED <<request, m_LP_S_ConnectionElem, m_LP_S_ChannelElem,
                   fRTPStreamObject, fbMetaDataSented, listVars, packagerVars, channelVars,
                   relayVars, passVars, owed, sentVars, ended>>

ClosingDetaches_Not(v) == UNCHANGED <<listVars, owed>>   \* slip
ClosingDetaches(v) == Detach_DataReceiver(v)

(* TryUnRegister, which fails while a request holds a reference, and the   *)
(* closing role: Delete_Connection_Channel, whose assert(0) fails without  *)
(* a ChannelElem where assertions are compiled in.                         *)
RTP_ClientSessionClosing(v) ==
    /\ session[v] = "killed" /\ request[v] = "none"
    /\ session' = Set(session, v, "closed")
    /\ IF m_LP_S_ChannelElem[v] THEN ClosingDetaches(v) ELSE UNCHANGED <<listVars, owed>>
    /\ m_LP_S_ChannelElem' = Set(m_LP_S_ChannelElem, v, FALSE)
    /\ m_LP_S_ConnectionElem' = Set(m_LP_S_ConnectionElem, v, FALSE)
    /\ UNCHANGED <<request, fRTPStreamObject, fbMetaDataSented, packagerVars,
                   channelVars, relayVars, passVars, sentVars, ended>>

(* ~RTPSession: the RTPStreams go with the session.                        *)
Delete(v) ==
    /\ session[v] = "closed"
    /\ session' = Set(session, v, "deleted")
    /\ UNCHANGED <<request, m_LP_S_ConnectionElem, m_LP_S_ChannelElem,
                   fRTPStreamObject, fbMetaDataSented, listVars, packagerVars, channelVars,
                   relayVars, passVars, owed, sentVars, ended>>

-----------------------------------------------------------------------------
(* The thread of the channel: ReceiveData for one packet                   *)

theirVars == <<sessionVars, fRTPStreamObject, listVars, m_Channel, ended>>

(* The iterator moves to the first node behind a place, or the loop ends.  *)
VisitAfter(place0) ==
    LET behind == {v \in Listed : place[v] > place0}
    IN  \/ /\ behind = {}
           /\ pc' = "store"
           /\ UNCHANGED <<pos, at>>
        \/ \E v \in behind :
              /\ \A w \in behind : place[v] <= place[w]
              /\ pc' = "meta" /\ pos' = place[v] /\ at' = v

Packet(k) ==
    /\ pc = "idle" /\ m_Channel = "live"
    /\ kind' = k
    /\ VisitAfter(0)
    /\ first' = IF first = "none" THEN k ELSE first
    /\ owed' = Listed
    /\ UNCHANGED <<theirVars, fbMetaDataSented, packagerVars, m_MetaData, sending, waits,
                   raced, served, sentVars>>

(* SendMetaData, up to its call of ConnectionElem::ReceiveData.  Metadata  *)
(* that is not known when it is wanted is taken not to exist.              *)
MetaDataFound == fRTPMetaDataBuffer \/ kind = "head" \/ m_MetaData

MetaDataDue_Later == FALSE   \* slip: not before the data
MetaDataDue == fbMetaDataSupported /\ ~ fbMetaDataSented[at]

SendMetaData ==
    /\ pc = "meta" /\ MetaDataDue
    /\ fbMetaDataSented' = Set(fbMetaDataSented, at, TRUE)
    /\ fRTPMetaDataBuffer' = TRUE
    /\ fbMetaDataSupported' = MetaDataFound
    /\ sending' = IF MetaDataFound THEN "head" ELSE "data"
    /\ pc' = "call"
    /\ UNCHANGED <<theirVars, m_MetaData, kind, pos, at, waits, passVars, owed, sentVars>>

SendNoMetaData ==
    /\ pc = "meta" /\ ~ MetaDataDue
    /\ sending' = "data" /\ pc' = "call"
    /\ UNCHANGED <<theirVars, fbMetaDataSented, packagerVars, m_MetaData, kind, pos, at, waits,
                   passVars, owed, sentVars>>

(* ConnectionElem::ReceiveData is done with the packet it sends.           *)
Done ==
    IF sending = "head"
    THEN pc' = "call" /\ sending' = "data" /\ UNCHANGED served
    ELSE pc' = "next" /\ served' = served \cup {at} /\ UNCHANGED sending

DoneAnd == /\ Done
           /\ waits' = 0
           /\ UNCHANGED <<theirVars, fbMetaDataSented, packagerVars, m_MetaData, kind, pos, at,
                          first, raced, owed>>

NoStream ==
    /\ pc = "call" /\ ~ fRTPStreamObject[at]
    /\ DoneAnd
    /\ UNCHANGED sentVars

(* QTSS_Write has read the pointer.                                        *)
Write ==
    /\ pc = "call" /\ fRTPStreamObject[at]
    /\ pc' = "write"
    /\ UNCHANGED <<theirVars, fbMetaDataSented, packagerVars, m_MetaData, kind, pos, at,
                   sending, waits, passVars, owed, sentVars>>

(* RTPStream::Write needs the session mutex, which a request may hold.     *)
Sent ==
    /\ pc = "write"
    /\ request[at] = "none" /\ session[at] # "deleted"
    /\ IF sending = "head"
       THEN metaDone' = Set(metaDone, at, TRUE) /\ UNCHANGED gotData
       ELSE gotData' = Set(gotData, at, TRUE) /\ UNCHANGED metaDone
    /\ late' = IF ended[at] THEN Set(late, at, late[at] + 1) ELSE late
    /\ DoneAnd

Retries == sending = "head" /\ waits < MaxWaits

(* The retry does not test the pointer again, but QTSS_Write refuses a     *)
(* null one, and a refused packet is given up like one without a stream.   *)
WouldBlock ==
    /\ pc = "write" /\ Retries
    /\ waits' = waits + 1
    /\ pc' = "call"
    /\ UNCHANGED <<theirVars, fbMetaDataSented, packagerVars, m_MetaData, kind, pos, at,
                   sending, passVars, owed, sentVars>>

LeavesLoop_Return == pc' = "store" /\ UNCHANGED <<sending, served>>   \* slip: ends the loop
LeavesLoop == Done

(* It blocks for too long, or the viewer is not connected.                 *)
Fails ==
    /\ pc = "write"
    /\ metaDone' = IF sending = "head" THEN Set(metaDone, at, TRUE) ELSE metaDone
    /\ LeavesLoop
    /\ waits' = 0
    /\ UNCHANGED <<theirVars, fbMetaDataSented, packagerVars, m_MetaData, kind, pos, at,
                   first, raced, owed, gotData, late>>

NodeRemoved == place[at] # pos

NextViewer ==
    /\ pc = "next" /\ ~ NodeRemoved
    /\ VisitAfter(pos)
    /\ UNCHANGED <<theirVars, fbMetaDataSented, packagerVars, m_MetaData, kind, sending, waits,
                   passVars, owed, sentVars>>

(* ++pos reads the freed node.                                             *)
NextFromRemoved ==
    /\ pc = "next" /\ NodeRemoved
    /\ raced' = TRUE
    /\ \/ /\ pc' = "store"
          /\ UNCHANGED <<pos, at>>
       \/ \E v \in Listed : pc' = "meta" /\ pos' = place[v] /\ at' = v
    /\ UNCHANGED <<theirVars, fbMetaDataSented, packagerVars, m_MetaData, kind, sending, waits,
                   first, owed, served, sentVars>>

(* The client session keeps the metadata after it has delivered it.        *)
KeepsMetaData_Not == UNCHANGED m_MetaData   \* slip
KeepsMetaData == m_MetaData' = (m_MetaData \/ kind = "head")

Store ==
    /\ pc = "store"
    /\ KeepsMetaData
    /\ pc' = "idle" /\ kind' = "data" /\ pos' = 0 /\ sending' = "data"
    /\ raced' = FALSE /\ owed' = {} /\ served' = {}
    /\ UNCHANGED <<theirVars, fbMetaDataSented, packagerVars, at, waits, first, sentVars>>

(* The relayed session ends, and deletes itself.                           *)
SourceEnds ==
    /\ pc = "idle" /\ m_Channel = "live"
    /\ m_Channel' = "deleted"
    /\ UNCHANGED <<sessionVars, fRTPStreamObject, fbMetaDataSented, listVars, packagerVars,
                   m_MetaData, relayVars, passVars, owed, sentVars, ended>>

-----------------------------------------------------------------------------
ReceiveData ==
    \/ SendMetaData \/ SendNoMetaData \/ NoStream \/ Write \/ Sent \/ WouldBlock \/ Fails
    \/ NextViewer \/ NextFromRemoved \/ Store

Request(v) == DoSetup(v) \/ DoPlay(v) \/ DoTearDown(v)
Response(v) == EndPlay(v) \/ EndTearDown(v)
Closing(v) == RTP_ClientSessionClosing(v) \/ Delete(v)

Next ==
    \/ ReceiveData \/ SourceEnds \/ \E k \in Kinds : Packet(k)
    \/ \E v \in Viewers : \/ Request(v) \/ Response(v) \/ Closing(v)
                          \/ TimeOut(v) \/ KilledByServer(v)

Spec == Init /\ [][Next]_vars

(* A channel that lives keeps sending, its thread gets on, and so do       *)
(* requests and the task of a session that is to be deleted.               *)
Fairness ==
    /\ WF_vars(ReceiveData) /\ WF_vars(\E k \in Kinds : Packet(k))
    /\ \A v \in Viewers : WF_vars(Response(v)) /\ WF_vars(Closing(v))
FairSpec == Spec /\ Fairness

-----------------------------------------------------------------------------
(* Properties                                                              *)

TypeOK ==
    /\ session \in [Viewers -> {"open", "killed", "closed", "deleted"}]
    /\ request \in [Viewers -> {"none", "play", "teardown"}]
    /\ m_LP_S_ConnectionElem \in [Viewers -> BOOLEAN]
    /\ m_LP_S_ChannelElem \in [Viewers -> BOOLEAN]
    /\ fRTPStreamObject \in [Viewers -> BOOLEAN] /\ fbMetaDataSented \in [Viewers -> BOOLEAN]
    /\ place \in [Viewers -> Nat] /\ nodes \in Nat
    /\ fbMetaDataSupported \in BOOLEAN /\ fRTPMetaDataBuffer \in BOOLEAN
    /\ m_Channel \in {"none", "live", "deleted"} /\ m_MetaData \in BOOLEAN
    /\ pc \in {"idle", "meta", "call", "write", "next", "store"}
    /\ kind \in Kinds /\ sending \in Kinds /\ pos \in Nat /\ at \in Viewers
    /\ waits \in 0 .. MaxWaits
    /\ first \in Kinds \cup {"none"} /\ raced \in BOOLEAN
    /\ owed \subseteq Viewers /\ served \subseteq Viewers
    /\ metaDone \in [Viewers -> BOOLEAN] /\ gotData \in [Viewers -> BOOLEAN]
    /\ ended \in [Viewers -> BOOLEAN]
    /\ late \in [Viewers -> Nat]

(* The list and the sessions agree: a viewer in it has a session that      *)
(* knows the channel and will detach it, and one that plays and still has  *)
(* a stream is in it (ModuleAdaptor.cpp:110, :140, :185).                  *)
ListMatchesSessions ==
    \A v \in Viewers :
        /\ v \in Listed => m_LP_S_ChannelElem[v] /\ session[v] \notin {"closed", "deleted"}
        /\ m_LP_S_ChannelElem[v] /\ fRTPStreamObject[v] => v \in Listed

(* A packet is offered to every viewer that is in the list from beginning  *)
(* to end, whatever others do and whichever writes fail, unless the node   *)
(* the thread stood on was removed.                                        *)
EveryViewerServed == pc = "store" /\ ~ raced => owed \subseteq served

(* No viewer gets data before its metadata, which the flag counts as sent  *)
(* before it is: it was sent, refused, or there is none.                   *)
MetaDataFirst ==
    \A v \in Viewers : gotData[v] => metaDone[v] \/ ~ fbMetaDataSupported

(* "Initially it must be TRUE" (StreamPackager.cpp:37): a channel whose    *)
(* first packet is its metadata never stops supporting it, whoever is      *)
(* attached when it comes.                                                 *)
MetaDataNotGivenUp == first = "head" => fbMetaDataSupported

(* Once a viewer's pointer is cleared, "to stop relay streaming, when      *)
(* session closes" (ConnectionElem.h:21), one packet at most is sent to it.*)
OneLatePacket == \A v \in Viewers : late[v] <= 1

(* "There's no way another thread could get involved anyway"               *)
(* (RTPSession.cpp:553): no thread is in a stream that is deleted.         *)
NoWriteToDeletedStream == pc = "write" => session[at] # "deleted"

(* A viewer that stays in the list is offered a packet, while the channel  *)
(* lives.                                                                  *)
ViewerIsServed ==
    \A v \in Viewers : v \in Listed ~> (v \in served \/ v \notin Listed \/ m_Channel = "deleted")
=============================================================================
