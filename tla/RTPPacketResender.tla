------------------------- MODULE RTPPacketResender -------------------------
(***************************************************************************)
(* RTPPacketResender.cpp with RTPBandwidthTracker.cpp: reliable UDP.  Each *)
(* stream of a session keeps the packets that are not acknowledged, sends  *)
(* them again and drops them when they expire; all streams share one       *)
(* congestion window, which decides whether another packet may be sent.    *)
(*                                                                         *)
(* All of it runs under the session mutex (an ack that finds the mutex     *)
(* taken is thrown away), so the loops of PLAY and of a resend pass are    *)
(* the only interleaving: between their steps nothing else happens.  The   *)
(* clock is two marks of a packet: old, its age is above the longest       *)
(* retransmit timeout there is, and expired.                               *)
(***************************************************************************)
EXTENDS Integers, FiniteSets

CONSTANTS
    NumStreams,             \* streams of the session
    SeqNums,                \* sequence numbers of packets
    Sizes,                  \* sizes of packets
    MaxPackets,             \* bound: packets one stream may have outstanding
    kMaximumSegmentSize,
    ClientWindow,           \* the window PLAY chooses
    UseSlowStart,
    Word                    \* integers of the window wrap here: 2^32

ASSUME StreamAssumption == NumStreams \in Nat \ {0} /\ MaxPackets \in Nat
ASSUME PacketAssumption == SeqNums \subseteq Nat /\ Sizes \subseteq Nat \ {0}
ASSUME WindowAssumption ==
    /\ kMaximumSegmentSize \in Nat \ {0} /\ ClientWindow \in Nat \ {0, 1}
    /\ UseSlowStart \in BOOLEAN /\ Word \in Nat \ {0}

Streams == 1 .. NumStreams
Slots == 0 .. MaxPackets - 1

VARIABLES
    \* of a stream: its array of packets, and how many of them it uses
    fPacketArray, fPacketsInList,
    \* the bandwidth tracker; adjusted: the window was halved within 250 ms
    fClientWindow, fCongestionWindow, fSlowStartThreshold, fBytesInList, adjusted,
    \* the loop that is running, with its stream and index
    op, stream, packetIndex

listVars == <<fPacketArray, fPacketsInList>>
trackerVars == <<fClientWindow, fCongestionWindow, fSlowStartThreshold, fBytesInList, adjusted>>
loopVars == <<op, stream, packetIndex>>
vars == <<listVars, trackerVars, loopVars>>

Entry == [seq : SeqNums, size : Sizes, old : BOOLEAN, expired : BOOLEAN]
Empty == [seq |-> 0, size |-> 0, old |-> FALSE, expired |-> FALSE]   \* memset

Init ==
    /\ fPacketArray = [s \in Streams |-> [i \in Slots |-> Empty]]
    /\ fPacketsInList = [s \in Streams |-> 0]
    /\ fClientWindow = 0 /\ fCongestionWindow = kMaximumSegmentSize
    /\ fSlowStartThreshold = 0 /\ fBytesInList = 0 /\ adjusted = FALSE
    /\ op = "idle" /\ stream = 1 /\ packetIndex = 0

AtLeast(a, b) == IF a < b THEN b ELSE a
AtMost(a, b) == IF a > b THEN b ELSE a

-----------------------------------------------------------------------------
(* RTPBandwidthTracker                                                     *)

IsFlowControlled_Above == fBytesInList > fCongestionWindow   \* slip
IsFlowControlled == fBytesInList >= fCongestionWindow

ReadyForAckProcessing == fClientWindow > 0 /\ fCongestionWindow > 0

Growth(n) ==
    IF fCongestionWindow >= fSlowStartThreshold
    THEN ((n * n) % Word) \div fCongestionWindow
    ELSE n

EmptyWindow_Forgotten(bytesIncreased, updateBytesInList) ==   \* slip: the bytes stay counted
    LET n == AtMost(bytesIncreased, fBytesInList)
    IN  /\ fCongestionWindow' = AtMost(fCongestionWindow + Growth(n), fClientWindow)
        /\ UNCHANGED <<fBytesInList, fClientWindow, fSlowStartThreshold, adjusted>>
EmptyWindow(bytesIncreased, updateBytesInList) ==
    LET n == AtMost(bytesIncreased, fBytesInList)
    IN  /\ fBytesInList' = IF updateBytesInList THEN fBytesInList - n ELSE fBytesInList
        /\ fCongestionWindow' = AtMost(fCongestionWindow + Growth(n), fClientWindow)
        /\ UNCHANGED <<fClientWindow, fSlowStartThreshold, adjusted>>

(* The window is halved at most once in 250 ms.                            *)
AdjustWindowForRetransmit ==
    /\ IF adjusted
       THEN /\ fSlowStartThreshold' = AtLeast(fSlowStartThreshold, kMaximumSegmentSize)
            /\ fCongestionWindow' = AtLeast(fCongestionWindow, kMaximumSegmentSize)
       ELSE /\ fSlowStartThreshold' = (fCongestionWindow * 3) \div 4
            /\ fCongestionWindow' = AtLeast(fCongestionWindow \div 2, kMaximumSegmentSize)
    /\ adjusted' = TRUE
    /\ UNCHANGED <<fClientWindow, fBytesInList>>

(* Only the first PLAY of a session sets the window.                       *)
SetWindowSize ==
    IF fClientWindow > 0 THEN UNCHANGED trackerVars
    ELSE /\ fClientWindow' = ClientWindow
         /\ fCongestionWindow' = IF UseSlowStart THEN ClientWindow \div 2 ELSE ClientWindow
         /\ fSlowStartThreshold' =
                AtLeast(IF UseSlowStart THEN (ClientWindow * 3) \div 4 ELSE ClientWindow,
                        kMaximumSegmentSize)
         /\ adjusted' = FALSE
         /\ UNCHANGED fBytesInList

-----------------------------------------------------------------------------
(* The list of a stream                                                    *)

Listed(s) == 0 .. fPacketsInList[s] - 1
IndexesOf(s, q) == {i \in Listed(s) : fPacketArray[s][i].seq = q}

SetEntry(s, i, e) == fPacketArray' = [fPacketArray EXCEPT ![s][i] = e]

(* RemovePacket(i), reuseIndex: the last entry moves to the free place.    *)
RemovePacket_LastStays(s, i) ==   \* slip: the entry that moved is not erased
    LET last == fPacketsInList[s] - 1
    IN  /\ SetEntry(s, i, fPacketArray[s][last])
        /\ fPacketsInList' = [fPacketsInList EXCEPT ![s] = last]
RemovePacket(s, i) ==
    LET last == fPacketsInList[s] - 1
    IN  /\ fPacketArray' = [fPacketArray EXCEPT ![s] =
               [@ EXCEPT ![i] = fPacketArray[s][last], ![last] = Empty]]
        /\ fPacketsInList' = [fPacketsInList EXCEPT ![s] = last]

(* GetEmptyEntry and AddPacket for a packet that is not listed: the next   *)
(* entry is taken, but left as it is if it is not empty.                   *)
AddEntry(s, q, size) ==
    LET next == fPacketsInList[s]
    IN  /\ fPacketsInList' = [fPacketsInList EXCEPT ![s] = next + 1]
        /\ IF fPacketArray[s][next].size > 0
           THEN UNCHANGED <<fPacketArray, trackerVars>>
           ELSE /\ SetEntry(s, next, [seq |-> q, size |-> size,
                                      old |-> FALSE, expired |-> FALSE])
                /\ fBytesInList' = fBytesInList + size   \* FillWindow
                /\ UNCHANGED <<fClientWindow, fCongestionWindow, fSlowStartThreshold, adjusted>>

-----------------------------------------------------------------------------
(* RTPSession::Play: ClearOutstandingPackets of every stream               *)

Play ==
    /\ op = "idle"
    /\ SetWindowSize
    /\ op' = "play" /\ stream' = 1 /\ packetIndex' = 0
    /\ UNCHANGED listVars

(* RemovePacket(i, false): the entry is erased where it is.                *)
ClearPacket ==
    /\ op = "play" /\ packetIndex \in Listed(stream)
    /\ EmptyWindow(fPacketArray[stream][packetIndex].size, FALSE)
    /\ SetEntry(stream, packetIndex, Empty)
    /\ packetIndex' = packetIndex + 1
    /\ UNCHANGED <<fPacketsInList, op, stream>>

ClearEnd ==
    /\ op = "play" /\ packetIndex \notin Listed(stream)
    /\ EmptyWindow(fBytesInList, TRUE)
    /\ fPacketsInList' = [fPacketsInList EXCEPT ![stream] = 0]
    /\ IF stream < NumStreams
       THEN stream' = stream + 1 /\ packetIndex' = 0 /\ UNCHANGED op
       ELSE op' = "idle" /\ stream' = 1 /\ packetIndex' = 0
    /\ UNCHANGED fPacketArray

-----------------------------------------------------------------------------
(* ResendDueEntries of every stream, by Run or before a packet is written. *)
(* Nothing is written before the first PLAY.                               *)

LastIndex_OffByOne(s) == fPacketsInList[s] - 2   \* slip
LastIndex(s) == fPacketsInList[s] - 1

BeginPass ==
    /\ op = "idle" /\ fClientWindow > 0
    /\ op' = "pass" /\ stream' = 1 /\ packetIndex' = LastIndex(1)
    /\ UNCHANGED <<listVars, trackerVars>>

NextPacket ==
    /\ packetIndex' = packetIndex - 1
    /\ UNCHANGED <<op, stream>>

Visiting == op = "pass" /\ packetIndex >= 0
Visited == fPacketArray[stream][packetIndex]

(* An old packet is due; another one may be.                               *)
NotDue ==
    /\ Visiting
    /\ ~ Visited.old
    /\ NextPacket
    /\ UNCHANGED <<listVars, trackerVars>>

IsExpired_Never(e) == FALSE   \* slip: packets are sent again for ever
IsExpired(e) == e.expired

ExpirePacket ==
    /\ Visiting
    /\ Visited.size > 0
    /\ IsExpired(Visited)
    /\ EmptyWindow(Visited.size, TRUE)
    /\ RemovePacket(stream, packetIndex)
    /\ NextPacket

Resend ==
    /\ Visiting
    /\ Visited.size > 0
    /\ ~ IsExpired(Visited)
    /\ SetEntry(stream, packetIndex, [Visited EXCEPT !.old = FALSE])
    /\ AdjustWindowForRetransmit
    /\ NextPacket
    /\ UNCHANGED fPacketsInList

NextStream ==
    /\ op = "pass" /\ packetIndex < 0 /\ stream < NumStreams
    /\ stream' = stream + 1 /\ packetIndex' = LastIndex(stream + 1)
    /\ UNCHANGED <<listVars, trackerVars, op>>

AtEndOfPass == op = "pass" /\ packetIndex < 0 /\ stream = NumStreams
Idle == op' = "idle" /\ stream' = 1 /\ packetIndex' = 0

(* The pass of Run; or the write is refused, the window being full, or the *)
(* packet is sent but not kept: it is too old, or listed already.          *)
EndPass ==
    /\ AtEndOfPass
    /\ Idle
    /\ UNCHANGED <<listVars, trackerVars>>

AddPacket(s, q, size) ==
    /\ AtEndOfPass
    /\ ~ IsFlowControlled
    /\ IndexesOf(s, q) = {}
    /\ fPacketsInList[s] < MaxPackets
    /\ AddEntry(s, q, size)
    /\ Idle

-----------------------------------------------------------------------------
(* RTCP: AckPacket, for any number the client names                        *)

AckListed_Uncounted(size) == EmptyWindow(size, FALSE)   \* slip
AckListed(size) == EmptyWindow(size, TRUE)

AckPacket(s, q) ==
    /\ op = "idle"
    /\ ReadyForAckProcessing
    /\ \/ \E i \in IndexesOf(s, q) :
              /\ AckListed(fPacketArray[s][i].size)
              /\ RemovePacket(s, i)
       \/ /\ IndexesOf(s, q) = {}
          /\ EmptyWindow(kMaximumSegmentSize, FALSE)
          /\ UNCHANGED listVars
    /\ UNCHANGED loopVars

(* Time passes between the operations, each of which reads the clock once. *)
GetsOld(s, q) ==
    /\ op = "idle"
    /\ \E i \in IndexesOf(s, q) :
          /\ ~ fPacketArray[s][i].old
          /\ SetEntry(s, i, [fPacketArray[s][i] EXCEPT !.old = TRUE])
    /\ UNCHANGED <<fPacketsInList, trackerVars, loopVars>>

Expires(s, q) ==
    /\ op = "idle"
    /\ \E i \in IndexesOf(s, q) :
          /\ ~ fPacketArray[s][i].expired
          /\ SetEntry(s, i, [fPacketArray[s][i] EXCEPT !.expired = TRUE])
    /\ UNCHANGED <<fPacketsInList, trackerVars, loopVars>>

MayAdjustAgain ==
    /\ op = "idle" /\ adjusted
    /\ adjusted' = FALSE
    /\ UNCHANGED <<listVars, fClientWindow, fCongestionWindow, fSlowStartThreshold,
                   fBytesInList, loopVars>>

-----------------------------------------------------------------------------
Loop == ClearPacket \/ ClearEnd \/ NotDue \/ ExpirePacket \/ Resend \/ NextStream \/ EndPass

Next ==
    \/ Play \/ BeginPass \/ Loop \/ MayAdjustAgain
    \/ \E s \in Streams, q \in SeqNums :
          \/ AckPacket(s, q) \/ GetsOld(s, q) \/ Expires(s, q)
          \/ \E size \in Sizes : AddPacket(s, q, size)

Spec == Init /\ [][Next]_vars

(* A loop that has begun ends, the session keeps sending, and time passes  *)
(* for every packet, though a pass may come in between.                    *)
Fairness ==
    /\ WF_vars(Loop) /\ SF_vars(BeginPass)
    /\ \A s \in Streams, q \in SeqNums : SF_vars(GetsOld(s, q)) /\ SF_vars(Expires(s, q))
FairSpec == Spec /\ Fairness

-----------------------------------------------------------------------------
(* Properties                                                              *)

TypeOK ==
    /\ fPacketArray \in [Streams -> [Slots -> Entry \cup {Empty}]]
    /\ fPacketsInList \in [Streams -> 0 .. MaxPackets]
    /\ fClientWindow \in {0, ClientWindow}
    /\ fCongestionWindow \in Nat /\ fSlowStartThreshold \in Nat /\ fBytesInList \in Nat
    /\ adjusted \in BOOLEAN
    /\ op \in {"idle", "play", "pass"} /\ stream \in Streams /\ packetIndex \in Int

(* The entries a list counts hold different packets, and the others are    *)
(* empty: AddPacket never meets an entry in use (RTPPacketResender.cpp).   *)
ListExact ==
    op # "play" =>
        \A s \in Streams :
            /\ \A i \in Listed(s) : fPacketArray[s][i].size > 0
            /\ \A i \in Slots \ Listed(s) : fPacketArray[s][i] = Empty
            /\ \A i, j \in Listed(s) :
                  fPacketArray[s][i].seq = fPacketArray[s][j].seq => i = j

(* One element for each byte that is sent and not acknowledged.            *)
BytesOf(s, e) == {<<s, e.seq, k>> : k \in 1 .. e.size}
OutstandingBytes ==
    UNION {UNION {BytesOf(s, fPacketArray[s][i]) : i \in Listed(s)} : s \in Streams}

(* fBytesInList, which decides about flow control and which every way out  *)
(* of a list has to lower, is the bytes of the packets in all the lists.   *)
BytesAccounted ==
    op # "play" => IsFiniteSet(OutstandingBytes) /\ fBytesInList = Cardinality(OutstandingBytes)

(* The window never closes for good and never grows beyond the larger of   *)
(* the client's window and a segment, and what is outstanding is within it *)
(* but for the last packet, however large: no count wraps below 0, which   *)
(* the tracker's assertion fBytesInList < fClientWindow + 2000 is there to *)
(* catch.  The assertion itself is not what holds: a packet over 2000      *)
(* bytes, or a client's window smaller than a segment, can make it hit.    *)
WindowBounded ==
    LET limit == AtLeast(ClientWindow, kMaximumSegmentSize)
    IN  /\ fCongestionWindow \in 1 .. limit
        /\ fBytesInList = 0 \/ \E size \in Sizes : fBytesInList < limit + size

(* A pass looks at every packet although it moves packets as it removes    *)
(* them: the old ones behind it have been dropped or sent again.           *)
PassLeavesNoOld ==
    op = "pass" =>
        \A s \in Streams : \A i \in Listed(s) :
            (s < stream \/ (s = stream /\ i > packetIndex)) => ~ fPacketArray[s][i].old

(* "Assert(this->GetBandwidthTracker()->BytesInList() == 0)" at the end of *)
(* RTPSession::Play, after each stream has cleared its list.               *)
PlayStartsEmpty ==
    [][(op = "play" /\ op' = "idle") =>
          fBytesInList' = 0 /\ \A s \in Streams : fPacketsInList'[s] = 0]_vars

(* Flow control ends, even if the client acknowledges nothing: packets     *)
(* expire and free the window that the retransmissions have narrowed.      *)
FlowReopens == IsFlowControlled ~> ~ IsFlowControlled
=============================================================================
