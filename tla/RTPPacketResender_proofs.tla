---------------------- MODULE RTPPacketResender_proofs ----------------------
(***************************************************************************)
(* Proofs about RTPPacketResender: for any number of streams, packets and  *)
(* sizes the lists and the congestion window they share stay in step.      *)
(***************************************************************************)
EXTENDS RTPPacketResender, FiniteSetTheorems, TLAPS

Limit == AtLeast(ClientWindow, kMaximumSegmentSize)

(* The arithmetic of the tracker                                           *)
LEMMA Division ==
    ASSUME NEW a \in Nat, NEW b \in Nat, b > 0
    PROVE  a \div b \in Nat
OBVIOUS

LEMMA Squares == ASSUME NEW n \in Nat PROVE (n * n) % Word \in Nat
<1>1. n * n \in Int
  OBVIOUS
<1> QED
  BY <1>1, WindowAssumption

LEMMA GrowthType ==
    ASSUME NEW n \in Nat, fCongestionWindow \in Nat, fCongestionWindow > 0
    PROVE  Growth(n) \in Nat
<1>1. ((n * n) % Word) \div fCongestionWindow \in Nat
  BY Squares, Division
<1> QED
  BY <1>1 DEF Growth

TrackerInv ==
    /\ fClientWindow \in {0, ClientWindow}
    /\ fCongestionWindow \in 1 .. Limit /\ fSlowStartThreshold \in Nat /\ fBytesInList \in Nat
    /\ adjusted \in BOOLEAN
    /\ op # "idle" => fClientWindow = ClientWindow

(* EmptyWindow, called with the window set: it never closes, the client's  *)
(* window limits it, and the bytes never wrap.                             *)
LEMMA EmptyWindowEffect ==
    ASSUME TrackerInv, fClientWindow = ClientWindow, NEW n \in Nat, NEW update \in BOOLEAN,
           EmptyWindow(n, update)
    PROVE  /\ fClientWindow' = ClientWindow /\ fCongestionWindow' \in 1 .. Limit
           /\ fSlowStartThreshold' \in Nat /\ adjusted' \in BOOLEAN
           /\ fBytesInList' = IF ~ update THEN fBytesInList
                              ELSE IF n > fBytesInList THEN 0 ELSE fBytesInList - n
           /\ fBytesInList' \in Nat /\ fBytesInList' <= fBytesInList
<1> DEFINE m == AtMost(n, fBytesInList)
<1>1. /\ fCongestionWindow \in Nat /\ fCongestionWindow > 0 /\ fBytesInList \in Nat
      /\ ClientWindow \in Nat /\ ClientWindow > 0 /\ ClientWindow <= Limit
      /\ Limit \in Nat
  BY WindowAssumption DEF TrackerInv, Limit, AtLeast
<1>2. m \in Nat /\ m <= fBytesInList /\ m = IF n > fBytesInList THEN fBytesInList ELSE n
  BY <1>1 DEF AtMost
<1>3. /\ fBytesInList' = IF update THEN fBytesInList - m ELSE fBytesInList
      /\ fCongestionWindow' = AtMost(fCongestionWindow + Growth(m), fClientWindow)
      /\ UNCHANGED <<fClientWindow, fSlowStartThreshold, adjusted>>
  BY DEF EmptyWindow
<1> HIDE DEF m
<1>4. Growth(m) \in Nat
  BY <1>1, <1>2, GrowthType
<1>5. fCongestionWindow' \in 1 .. Limit
  BY <1>1, <1>3, <1>4 DEF AtMost
<1>6. /\ fBytesInList' = IF ~ update THEN fBytesInList
                         ELSE IF n > fBytesInList THEN 0 ELSE fBytesInList - n
      /\ fBytesInList' \in Nat /\ fBytesInList' <= fBytesInList
  BY <1>1, <1>2, <1>3
<1> QED
  BY <1>3, <1>5, <1>6 DEF TrackerInv

LEMMA AdjustEffect ==
    ASSUME TrackerInv, AdjustWindowForRetransmit
    PROVE  /\ fClientWindow' = fClientWindow /\ fCongestionWindow' \in 1 .. Limit
           /\ fSlowStartThreshold' \in Nat /\ adjusted' \in BOOLEAN
           /\ fBytesInList' = fBytesInList
BY WindowAssumption DEF TrackerInv, AdjustWindowForRetransmit, Limit, AtLeast

LEMMA SetWindowEffect ==
    ASSUME TrackerInv, SetWindowSize
    PROVE  /\ fClientWindow' = ClientWindow /\ fCongestionWindow' \in 1 .. Limit
           /\ fSlowStartThreshold' \in Nat /\ adjusted' \in BOOLEAN
           /\ fBytesInList' = fBytesInList
<1>1. CASE fClientWindow > 0
  BY <1>1, WindowAssumption DEF TrackerInv, SetWindowSize, trackerVars
<1>2. CASE ~ (fClientWindow > 0)
  <2>1. /\ ClientWindow \in 1 .. Limit /\ ClientWindow \div 2 \in 1 .. Limit
        /\ (ClientWindow * 3) \div 4 \in Nat
    BY WindowAssumption DEF Limit, AtLeast
  <2>2. /\ fClientWindow' = ClientWindow
        /\ fCongestionWindow' = IF UseSlowStart THEN ClientWindow \div 2 ELSE ClientWindow
        /\ fSlowStartThreshold' =
               AtLeast(IF UseSlowStart THEN (ClientWindow * 3) \div 4 ELSE ClientWindow,
                       kMaximumSegmentSize)
        /\ adjusted' = FALSE /\ fBytesInList' = fBytesInList
    BY <1>2 DEF SetWindowSize
  <2>3. fSlowStartThreshold' \in Nat
    BY <2>1, <2>2, WindowAssumption DEF AtLeast
  <2>4. fCongestionWindow' \in 1 .. Limit
    BY <2>1, <2>2
  <2> QED
    BY <2>2, <2>3, <2>4
<1> QED
  BY <1>1, <1>2

-----------------------------------------------------------------------------
(* The bytes of a packet, and of the packets that are listed               *)

LEMMA BytesOfCount ==
    ASSUME NEW s, NEW e, e.size \in Nat
    PROVE  IsFiniteSet(BytesOf(s, e)) /\ Cardinality(BytesOf(s, e)) = e.size
<1> DEFINE f == [k \in 1 .. e.size |-> <<s, e.seq, k>>]
<1>1. f \in Bijection(1 .. e.size, BytesOf(s, e))
  BY DEF Bijection, Injection, Surjection, BytesOf, IsInjective
<1>2. IsFiniteSet(1 .. e.size) /\ Cardinality(1 .. e.size) = e.size
  BY FS_Interval
<1> HIDE DEF f
<1>3. ExistsBijection(1 .. e.size, BytesOf(s, e))
  BY <1>1 DEF ExistsBijection
<1> QED
  BY <1>2, <1>3, FS_Bijection

LEMMA Outstanding ==
    ASSUME NEW b
    PROVE  b \in OutstandingBytes <=>
               \E s \in Streams : \E i \in Listed(s) : b \in BytesOf(s, fPacketArray[s][i])
BY DEF OutstandingBytes

LEMMA OutstandingNext ==
    ASSUME NEW b
    PROVE  b \in OutstandingBytes' <=>
               \E s \in Streams : \E i \in Listed(s)' : b \in BytesOf(s, fPacketArray'[s][i])
BY DEF OutstandingBytes, BytesOf

ArrayType ==
    /\ fPacketArray \in [Streams -> [Slots -> Entry \cup {Empty}]]
    /\ fPacketsInList \in [Streams -> 0 .. MaxPackets]

LEMMA EntrySize ==
    ASSUME ArrayType, NEW s \in Streams, NEW i \in Slots
    PROVE  /\ fPacketArray[s][i] \in Entry \cup {Empty}
           /\ fPacketArray[s][i].size \in Nat
           /\ fPacketArray[s][i].size > 0 => fPacketArray[s][i] \in Entry
           /\ fPacketArray[s][i] = Empty => fPacketArray[s][i].size = 0
           /\ ~ Empty.old
<1>1. fPacketArray[s][i] \in Entry \cup {Empty}
  BY DEF ArrayType
<1>2. Empty.size = 0 /\ ~ Empty.old
  BY DEF Empty
<1>3. \A e \in Entry : e.size \in Nat
  BY PacketAssumption DEF Entry
<1> QED
  BY <1>1, <1>2, <1>3

LEMMA ListedSlots ==
    ASSUME ArrayType, NEW s \in Streams
    PROVE  Listed(s) \subseteq Slots /\ \A i \in Listed(s) : i \in Nat /\ i < fPacketsInList[s]
BY StreamAssumption DEF ArrayType, Listed, Slots

(* What ListExact says outside of PLAY.                                    *)
Lists ==
    \A s \in Streams :
        /\ \A i \in Listed(s) : fPacketArray[s][i].size > 0
        /\ \A i \in Slots \ Listed(s) : fPacketArray[s][i] = Empty
        /\ \A i, j \in Listed(s) :
              fPacketArray[s][i].seq = fPacketArray[s][j].seq => i = j

Accounted == IsFiniteSet(OutstandingBytes) /\ fBytesInList = Cardinality(OutstandingBytes)

LEMMA OneStream ==
    ASSUME NEW s \in Streams, NEW b, NEW e, b \in BytesOf(s, e)
    PROVE  b[1] = s /\ b[2] = e.seq
BY DEF BytesOf

(* A packet that is taken out takes its bytes, and no others, along.       *)
LEMMA RemoveEffect ==
    ASSUME ArrayType, Lists, NEW s \in Streams, NEW i \in Listed(s), RemovePacket(s, i)
    PROVE  /\ ArrayType' /\ Lists'
           /\ fPacketsInList'[s] = fPacketsInList[s] - 1
           /\ \A r \in Streams : r # s => /\ fPacketsInList'[r] = fPacketsInList[r]
                                        /\ fPacketArray'[r] = fPacketArray[r]
           /\ \A j \in Slots : j # i /\ j # fPacketsInList[s] - 1 =>
                                    fPacketArray'[s][j] = fPacketArray[s][j]
           /\ i # fPacketsInList[s] - 1 =>
                  fPacketArray'[s][i] = fPacketArray[s][fPacketsInList[s] - 1]
           /\ BytesOf(s, fPacketArray[s][i]) \subseteq OutstandingBytes
           /\ OutstandingBytes' = OutstandingBytes \ BytesOf(s, fPacketArray[s][i])
<1> DEFINE last == fPacketsInList[s] - 1
<1>1. /\ fPacketsInList[s] \in Nat /\ fPacketsInList[s] <= MaxPackets /\ MaxPackets \in Nat
      /\ i \in Int /\ 0 <= i /\ i <= last /\ last \in Int
      /\ last \in Slots /\ last \in Listed(s) /\ i \in Slots
  BY StreamAssumption DEF ArrayType, Listed, Slots
<1>2. /\ fPacketArray' = [fPacketArray EXCEPT ![s] =
               [@ EXCEPT ![i] = fPacketArray[s][last], ![last] = Empty]]
      /\ fPacketsInList' = [fPacketsInList EXCEPT ![s] = last]
  BY DEF RemovePacket
<1>3. /\ fPacketsInList'[s] = last
      /\ \A r \in Streams : r # s => fPacketsInList'[r] = fPacketsInList[r]
      /\ \A r \in Streams : Listed(r)' = IF r = s THEN 0 .. last - 1 ELSE Listed(r)
  BY <1>2 DEF ArrayType, Listed
<1>4. /\ \A r \in Streams : r # s => fPacketArray'[r] = fPacketArray[r]
      /\ \A j \in Slots : fPacketArray'[s][j] = IF j = last THEN Empty
                            ELSE IF j = i THEN fPacketArray[s][last] ELSE fPacketArray[s][j]
  BY <1>1, <1>2 DEF ArrayType
<1>5. ArrayType'
  <2>1. fPacketArray' \in [Streams -> [Slots -> Entry \cup {Empty}]]
    <3>1. [fPacketArray[s] EXCEPT ![i] = fPacketArray[s][last], ![last] = Empty]
              \in [Slots -> Entry \cup {Empty}]
      BY <1>1 DEF ArrayType
    <3> QED
      BY <1>2, <3>1 DEF ArrayType
  <2>2. fPacketsInList' \in [Streams -> 0 .. MaxPackets]
    BY <1>1, <1>2 DEF ArrayType
  <2> QED
    BY <2>1, <2>2 DEF ArrayType
<1> HIDE DEF last
<1>6. Lists'
  <2> SUFFICES ASSUME NEW r \in Streams
               PROVE  /\ \A j \in Listed(r)' : fPacketArray'[r][j].size > 0
                      /\ \A j \in Slots \ Listed(r)' : fPacketArray'[r][j] = Empty
                      /\ \A j, k \in Listed(r)' :
                            fPacketArray'[r][j].seq = fPacketArray'[r][k].seq => j = k
    BY DEF Lists
  <2>1. CASE r # s
    BY <2>1, <1>3, <1>4 DEF Lists
  <2>2. CASE r = s
    <3>1. \A j \in 0 .. last - 1 : j \in Listed(s) /\ j \in Slots /\ j # last
      BY <1>1, ListedSlots DEF Listed, last
    <3>2. \A j \in Listed(s) : j \in 0 .. last - 1 \/ j = last
      BY <1>1 DEF Listed, last
    <3>3. \A j \in Slots \ (0 .. last - 1) : fPacketArray'[s][j] = Empty
      BY <1>1, <1>4, <3>2 DEF Lists
    <3>4. \A j \in 0 .. last - 1 :
             fPacketArray'[s][j] = fPacketArray[s][IF j = i THEN last ELSE j]
      BY <1>4, <3>1
    <3>5. \A j \in 0 .. last - 1 : (IF j = i THEN last ELSE j) \in Listed(s)
      BY <1>1, <3>1
    <3>6. \A j \in 0 .. last - 1 : fPacketArray'[s][j].size > 0
      BY <3>4, <3>5 DEF Lists
    <3>7. ASSUME NEW j \in 0 .. last - 1, NEW k \in 0 .. last - 1,
                 fPacketArray'[s][j].seq = fPacketArray'[s][k].seq
          PROVE  j = k
      <4>1. (IF j = i THEN last ELSE j) = (IF k = i THEN last ELSE k)
        BY <3>4, <3>5, <3>7 DEF Lists
      <4> QED
        BY <3>1, <4>1
    <3> QED
      BY <2>2, <1>3, <3>3, <3>6, <3>7
  <2> QED
    BY <2>1, <2>2
<1>7. BytesOf(s, fPacketArray[s][i]) \subseteq OutstandingBytes
  BY Outstanding
<1>8. ASSUME NEW b, b \in OutstandingBytes' PROVE b \in OutstandingBytes \ BytesOf(s, fPacketArray[s][i])
  <2>1. PICK r \in Streams : \E j \in Listed(r)' : b \in BytesOf(r, fPacketArray'[r][j])
    BY <1>8, OutstandingNext
  <2>2. PICK j \in Listed(r)' : b \in BytesOf(r, fPacketArray'[r][j])
    BY <2>1
  <2>3. CASE r # s
    <3>1. j \in Listed(r) /\ b \in BytesOf(r, fPacketArray[r][j])
      BY <1>3, <1>4, <2>2, <2>3
    <3>2. b \notin BytesOf(s, fPacketArray[s][i])
      BY <2>3, <3>1, OneStream
    <3> QED
      BY <3>1, <3>2, Outstanding
  <2>4. CASE r = s
    <3>1. j \in 0 .. last - 1 /\ j \in Listed(s) /\ j \in Slots /\ j # last
      BY <1>1, <1>3, <2>2, <2>4, ListedSlots DEF Listed, last
    <3>2. PICK k \in Listed(s) : k # i /\ fPacketArray'[s][j] = fPacketArray[s][k]
      BY <1>1, <1>4, <3>1
    <3>3. b \in BytesOf(s, fPacketArray[s][k])
      BY <2>2, <2>4, <3>2
    <3>4. fPacketArray[s][k].seq # fPacketArray[s][i].seq
      BY <3>2 DEF Lists
    <3>5. b \notin BytesOf(s, fPacketArray[s][i])
      BY <3>3, <3>4, OneStream
    <3> QED
      BY <3>3, <3>5, Outstanding
  <2> QED
    BY <2>3, <2>4
<1>9. ASSUME NEW b, b \in OutstandingBytes, b \notin BytesOf(s, fPacketArray[s][i])
      PROVE  b \in OutstandingBytes'
  <2>1. PICK r \in Streams : \E j \in Listed(r) : b \in BytesOf(r, fPacketArray[r][j])
    BY <1>9, Outstanding
  <2>2. PICK j \in Listed(r) : b \in BytesOf(r, fPacketArray[r][j])
    BY <2>1
  <2>3. CASE r # s
    BY <1>3, <1>4, <2>2, <2>3, OutstandingNext
  <2>4. CASE r = s
    <3>1. j # i
      BY <1>9, <2>2, <2>4
    <3>2. \A k \in 0 .. last - 1 : k \in Listed(s)' /\ k \in Slots
      BY <1>1, <1>3, ListedSlots DEF Listed, last, Slots
    <3>3. CASE j = last
      <4>1. i \in 0 .. last - 1 /\ fPacketArray'[s][i] = fPacketArray[s][j]
        BY <1>1, <1>4, <3>1, <3>3
      <4> QED
        BY <2>2, <2>4, <3>2, <4>1, OutstandingNext
    <3>4. CASE j # last
      <4>1. j \in 0 .. last - 1
        BY <1>1, <2>2, <2>4, <3>4 DEF Listed, last
      <4>2. fPacketArray'[s][j] = fPacketArray[s][j]
        BY <1>4, <3>1, <3>2, <3>4, <4>1
      <4> QED
        BY <2>2, <2>4, <3>2, <4>1, <4>2, OutstandingNext
    <3> QED
      BY <3>3, <3>4
  <2> QED
    BY <2>3, <2>4
<1>10. OutstandingBytes' = OutstandingBytes \ BytesOf(s, fPacketArray[s][i])
  BY <1>8, <1>9
<1> QED
  BY <1>1, <1>3, <1>4, <1>5, <1>6, <1>7, <1>10 DEF last

(* A packet that is marked or sent again keeps its place and its bytes.    *)
LEMMA MarkEffect ==
    ASSUME ArrayType, Lists, NEW s \in Streams, NEW i \in Listed(s), NEW e \in Entry,
           e.seq = fPacketArray[s][i].seq, e.size = fPacketArray[s][i].size,
           SetEntry(s, i, e), UNCHANGED fPacketsInList
    PROVE  /\ ArrayType' /\ Lists'
           /\ \A r \in Streams : Listed(r)' = Listed(r) /\ (r # s => fPacketArray'[r] = fPacketArray[r])
           /\ \A j \in Slots : fPacketArray'[s][j] = IF j = i THEN e ELSE fPacketArray[s][j]
           /\ OutstandingBytes' = OutstandingBytes
<1>1. i \in Slots
  BY ListedSlots
<1>2. /\ \A r \in Streams : Listed(r)' = Listed(r) /\ (r # s => fPacketArray'[r] = fPacketArray[r])
      /\ \A j \in Slots : fPacketArray'[s][j] = IF j = i THEN e ELSE fPacketArray[s][j]
  BY <1>1 DEF SetEntry, ArrayType, Listed
<1>3. ArrayType'
  <2>1. [fPacketArray[s] EXCEPT ![i] = e] \in [Slots -> Entry \cup {Empty}]
    BY <1>1 DEF ArrayType
  <2>2. fPacketArray' = [fPacketArray EXCEPT ![s] = [fPacketArray[s] EXCEPT ![i] = e]]
    BY DEF SetEntry
  <2> QED
    BY <2>1, <2>2 DEF ArrayType
<1>4. \A r \in Streams : \A j \in Listed(r) :
         /\ fPacketArray'[r][j].seq = fPacketArray[r][j].seq
         /\ fPacketArray'[r][j].size = fPacketArray[r][j].size
  BY <1>2, ListedSlots
<1>5. Lists'
  BY <1>2, <1>4 DEF Lists
<1>6. \A r \in Streams : \A j \in Listed(r) : BytesOf(r, fPacketArray'[r][j]) = BytesOf(r, fPacketArray[r][j])
  BY <1>4 DEF BytesOf
<1>7. \A b : b \in OutstandingBytes' <=> b \in OutstandingBytes
  BY <1>2, <1>6, Outstanding, OutstandingNext
<1> QED
  BY <1>2, <1>3, <1>5, <1>7

(* A new packet adds its bytes, none of which was there.                   *)
LEMMA AddEffect ==
    ASSUME ArrayType, Lists, NEW s \in Streams, NEW q \in SeqNums, NEW size \in Sizes,
           IndexesOf(s, q) = {}, fPacketsInList[s] < MaxPackets, AddEntry(s, q, size)
    PROVE  /\ ArrayType' /\ Lists'
           /\ fBytesInList' = fBytesInList + size
           /\ UNCHANGED <<fClientWindow, fCongestionWindow, fSlowStartThreshold, adjusted>>
           /\ \E e \in Entry : /\ e.size = size
                               /\ OutstandingBytes' = OutstandingBytes \cup BytesOf(s, e)
                               /\ OutstandingBytes \cap BytesOf(s, e) = {}
<1> DEFINE next == fPacketsInList[s]
           e == [seq |-> q, size |-> size, old |-> FALSE, expired |-> FALSE]
<1>1. /\ next \in Nat /\ next \in Slots /\ next \notin Listed(s)
      /\ Listed(s) = 0 .. next - 1
  BY StreamAssumption DEF ArrayType, Slots, Listed
<1>2. fPacketArray[s][next].size = 0
  BY <1>1, EntrySize DEF Lists
<1>3. /\ SetEntry(s, next, e) /\ fBytesInList' = fBytesInList + size
      /\ UNCHANGED <<fClientWindow, fCongestionWindow, fSlowStartThreshold, adjusted>>
      /\ fPacketsInList' = [fPacketsInList EXCEPT ![s] = next + 1]
  BY <1>2 DEF AddEntry
<1>4. e \in Entry /\ e.size = size /\ e.seq = q /\ size > 0
  BY PacketAssumption DEF Entry
<1> HIDE DEF e
<1>5. /\ \A r \in Streams : r # s => fPacketArray'[r] = fPacketArray[r]
      /\ \A j \in Slots : fPacketArray'[s][j] = IF j = next THEN e ELSE fPacketArray[s][j]
      /\ \A r \in Streams : Listed(r)' = IF r = s THEN Listed(s) \cup {next} ELSE Listed(r)
  <2>1. fPacketArray' = [fPacketArray EXCEPT ![s] = [fPacketArray[s] EXCEPT ![next] = e]]
    BY <1>3 DEF SetEntry
  <2>2. /\ \A r \in Streams : r # s => fPacketArray'[r] = fPacketArray[r]
        /\ \A j \in Slots : fPacketArray'[s][j] = IF j = next THEN e ELSE fPacketArray[s][j]
    BY <1>1, <2>1 DEF ArrayType
  <2>3. /\ fPacketsInList'[s] = next + 1
        /\ \A r \in Streams : r # s => fPacketsInList'[r] = fPacketsInList[r]
    BY <1>3 DEF ArrayType
  <2>4. \A r \in Streams : Listed(r)' = IF r = s THEN Listed(s) \cup {next} ELSE Listed(r)
    <3>1. 0 .. (next + 1) - 1 = (0 .. next - 1) \cup {next}
      BY <1>1
    <3>2. Listed(s)' = 0 .. (next + 1) - 1
      BY <2>3 DEF Listed
    <3>3. \A r \in Streams : r # s => Listed(r)' = Listed(r)
      BY <2>3 DEF Listed
    <3> QED
      BY <1>1, <3>1, <3>2, <3>3
  <2> QED
    BY <2>2, <2>4
<1>6. ArrayType'
  <2>1. [fPacketArray[s] EXCEPT ![next] = e] \in [Slots -> Entry \cup {Empty}]
    BY <1>1, <1>4 DEF ArrayType
  <2>2. fPacketArray' = [fPacketArray EXCEPT ![s] = [fPacketArray[s] EXCEPT ![next] = e]]
    BY <1>3 DEF SetEntry
  <2>3. fPacketsInList' \in [Streams -> 0 .. MaxPackets]
    BY <1>1, <1>3, StreamAssumption DEF ArrayType
  <2> QED
    BY <2>1, <2>2, <2>3 DEF ArrayType
<1>7. \A j \in Listed(s) : /\ fPacketArray[s][j].seq # q /\ j # next /\ j \in Slots
                           /\ fPacketArray'[s][j] = fPacketArray[s][j]
  BY <1>1, <1>5, ListedSlots DEF IndexesOf
<1> HIDE DEF next
<1>8. fPacketArray'[s][next] = e
  BY <1>1, <1>5
<1>9. Lists'
  <2> SUFFICES ASSUME NEW r \in Streams
               PROVE  /\ \A j \in Listed(r)' : fPacketArray'[r][j].size > 0
                      /\ \A j \in Slots \ Listed(r)' : fPacketArray'[r][j] = Empty
                      /\ \A j, k \in Listed(r)' :
                            fPacketArray'[r][j].seq = fPacketArray'[r][k].seq => j = k
    BY DEF Lists
  <2>1. CASE r # s
    BY <2>1, <1>5 DEF Lists
  <2>2. CASE r = s
    <3>1. \A j \in Slots \ (Listed(s) \cup {next}) : fPacketArray'[s][j] = Empty
      BY <1>5 DEF Lists
    <3> QED
      BY <2>2, <1>4, <1>5, <1>7, <1>8, <3>1 DEF Lists
  <2> QED
    BY <2>1, <2>2
<1>10. \A b : b \in OutstandingBytes' <=> b \in OutstandingBytes \/ b \in BytesOf(s, e)
  <2>1. ASSUME NEW b, b \in OutstandingBytes' PROVE b \in OutstandingBytes \/ b \in BytesOf(s, e)
    <3>1. PICK r \in Streams : \E j \in Listed(r)' : b \in BytesOf(r, fPacketArray'[r][j])
      BY <2>1, OutstandingNext
    <3>2. PICK j \in Listed(r)' : b \in BytesOf(r, fPacketArray'[r][j])
      BY <3>1
    <3> QED
      BY <3>2, <1>5, <1>7, <1>8, Outstanding
  <2>2. ASSUME NEW b, b \in OutstandingBytes PROVE b \in OutstandingBytes'
    <3>1. PICK r \in Streams : \E j \in Listed(r) : b \in BytesOf(r, fPacketArray[r][j])
      BY <2>2, Outstanding
    <3>2. PICK j \in Listed(r) : b \in BytesOf(r, fPacketArray[r][j])
      BY <3>1
    <3> QED
      BY <3>2, <1>5, <1>7, OutstandingNext
  <2>3. ASSUME NEW b, b \in BytesOf(s, e) PROVE b \in OutstandingBytes'
    BY <2>3, <1>5, <1>8, OutstandingNext
  <2> QED
    BY <2>1, <2>2, <2>3
<1>11. ASSUME NEW b, b \in OutstandingBytes, b \in BytesOf(s, e) PROVE FALSE
  <2>1. PICK r \in Streams : \E j \in Listed(r) : b \in BytesOf(r, fPacketArray[r][j])
    BY <1>11, Outstanding
  <2>2. PICK j \in Listed(r) : b \in BytesOf(r, fPacketArray[r][j])
    BY <2>1
  <2>3. r = s /\ fPacketArray[r][j].seq = q
    BY <1>4, <1>11, <2>2, OneStream
  <2> QED
    BY <1>7, <2>2, <2>3
<1> QED
  BY <1>3, <1>4, <1>6, <1>9, <1>10, <1>11

-----------------------------------------------------------------------------
(* The invariant.  While PLAY clears the lists, those of the streams it has *)
(* done are empty, and so is the window, which the first of them emptied.  *)

LoopInv ==
    /\ op \in {"idle", "play", "pass"} /\ stream \in Streams /\ packetIndex \in Int
    /\ op = "pass" => -1 <= packetIndex /\ packetIndex < fPacketsInList[stream]
    /\ op = "play" => 0 <= packetIndex /\ packetIndex <= fPacketsInList[stream]

PlayInv ==
    op = "play" =>
        /\ \A s \in Streams : s < stream => fPacketsInList[s] = 0
        /\ stream > 1 => fBytesInList = 0
        /\ \A s \in Streams : \A i \in Slots \ Listed(s) : fPacketArray[s][i] = Empty
        /\ \A i \in 0 .. packetIndex - 1 : fPacketArray[stream][i] = Empty

BytesBounded == fBytesInList = 0 \/ \E size \in Sizes : fBytesInList < Limit + size

Inv ==
    /\ ArrayType /\ TrackerInv /\ LoopInv /\ BytesBounded /\ PlayInv
    /\ op # "play" => Lists /\ Accounted
    /\ PassLeavesNoOld

LEMMA ListMatters ==
    ASSUME UNCHANGED listVars
    PROVE  /\ ArrayType => ArrayType'
           /\ Lists => Lists'
           /\ OutstandingBytes' = OutstandingBytes
           /\ \A s : Listed(s)' = Listed(s)
BY DEF listVars, ArrayType, Lists, Listed, OutstandingBytes, BytesOf

LEMMA NothingOutstanding ==
    ASSUME ArrayType', \A s \in Streams : fPacketsInList'[s] = 0
    PROVE  OutstandingBytes' = {}
<1>1. \A s \in Streams : Listed(s)' = {}
  BY DEF Listed
<1> QED
  BY <1>1, OutstandingNext

LEMMA Bounded ==
    ASSUME BytesBounded, TrackerInv, fBytesInList' \in Nat, fBytesInList' <= fBytesInList
    PROVE  BytesBounded'
BY PacketAssumption, WindowAssumption DEF BytesBounded, TrackerInv, Limit, AtLeast

LEMMA InvInit == Init => Inv
<1> SUFFICES ASSUME Init PROVE Inv
  OBVIOUS
<1>1. ArrayType
  BY StreamAssumption DEF Init, ArrayType
<1>2. \A s \in Streams : fPacketsInList[s] = 0 /\ Listed(s) = {}
  BY DEF Init, Listed
<1>3. OutstandingBytes = {}
  BY <1>2, Outstanding
<1>4. Lists
  BY <1>2 DEF Init, Lists
<1>5. TrackerInv
  <2>1. kMaximumSegmentSize \in 1 .. Limit
    BY WindowAssumption DEF Limit, AtLeast
  <2> QED
    BY <2>1 DEF Init, TrackerInv
<1>6. LoopInv /\ PlayInv /\ PassLeavesNoOld /\ BytesBounded
  BY StreamAssumption DEF Init, LoopInv, PlayInv, PassLeavesNoOld, BytesBounded, Streams
<1>7. Accounted
  BY <1>3, FS_EmptySet DEF Init, Accounted
<1> QED
  BY <1>1, <1>4, <1>5, <1>6, <1>7 DEF Inv

LEMMA PlayStep == ASSUME Inv, Play PROVE Inv'
<1>1. /\ op = "idle" /\ SetWindowSize /\ op' = "play" /\ stream' = 1 /\ packetIndex' = 0
      /\ UNCHANGED listVars
  BY DEF Play
<1>2. ArrayType' /\ \A s : Listed(s)' = Listed(s)
  BY <1>1, ListMatters DEF Inv
<1>3. TrackerInv' /\ BytesBounded'
  BY <1>1, SetWindowEffect, Bounded DEF Inv, TrackerInv
<1>4. 1 \in Streams /\ \A s \in Streams : ~ (s < 1)
  BY StreamAssumption DEF Streams
<1>5. LoopInv' /\ PassLeavesNoOld'
  BY <1>1, <1>4 DEF Inv, LoopInv, ArrayType, listVars, PassLeavesNoOld
<1>6. PlayInv'
  <2>1. \A i \in 0 .. packetIndex' - 1 : FALSE
    BY <1>1
  <2> QED
    BY <1>1, <1>2, <1>4, <2>1 DEF Inv, Lists, listVars, PlayInv
<1> QED
  BY <1>1, <1>2, <1>3, <1>5, <1>6 DEF Inv

LEMMA ClearPacketStep == ASSUME Inv, ClearPacket PROVE Inv'
<1> DEFINE e == fPacketArray[stream][packetIndex]
<1>1. /\ op = "play" /\ packetIndex \in Listed(stream) /\ stream \in Streams
      /\ EmptyWindow(e.size, FALSE) /\ SetEntry(stream, packetIndex, Empty)
      /\ packetIndex' = packetIndex + 1 /\ UNCHANGED <<fPacketsInList, op, stream>>
  BY DEF ClearPacket, Inv, LoopInv
<1>2. /\ packetIndex \in Slots /\ packetIndex \in Nat /\ packetIndex < fPacketsInList[stream]
      /\ fPacketsInList[stream] \in Nat
  BY <1>1, ListedSlots, StreamAssumption DEF Inv, ArrayType
<1>3. e.size \in Nat
  BY <1>1, <1>2, EntrySize DEF Inv
<1> HIDE DEF e
<1>4. TrackerInv' /\ BytesBounded' /\ fBytesInList' = fBytesInList
  BY <1>1, <1>3, EmptyWindowEffect, Bounded DEF Inv, TrackerInv
<1>5. /\ \A r \in Streams : r # stream => fPacketArray'[r] = fPacketArray[r]
      /\ \A j \in Slots : fPacketArray'[stream][j] = IF j = packetIndex THEN Empty ELSE fPacketArray[stream][j]
      /\ fPacketArray' \in [Streams -> [Slots -> Entry \cup {Empty}]]
  <2>1. fPacketArray' = [fPacketArray EXCEPT ![stream] = [fPacketArray[stream] EXCEPT ![packetIndex] = Empty]]
    BY <1>1 DEF SetEntry
  <2>2. [fPacketArray[stream] EXCEPT ![packetIndex] = Empty] \in [Slots -> Entry \cup {Empty}]
    BY <1>1, <1>2 DEF Inv, ArrayType
  <2> QED
    BY <1>1, <1>2, <2>1, <2>2 DEF Inv, ArrayType
<1>6. ArrayType' /\ \A s : Listed(s)' = Listed(s)
  BY <1>1, <1>5 DEF Inv, ArrayType, Listed
<1>7. LoopInv' /\ PassLeavesNoOld'
  BY <1>1, <1>2 DEF Inv, LoopInv, PassLeavesNoOld
<1>8. PlayInv'
  <2>1. \A s \in Streams : s < stream => fPacketsInList[s] = 0
    BY <1>1 DEF Inv, PlayInv
  <2>2. stream > 1 => fBytesInList' = 0
    BY <1>1, <1>4 DEF Inv, PlayInv
  <2>3. \A s \in Streams : \A i \in Slots \ Listed(s) : fPacketArray'[s][i] = Empty
    BY <1>1, <1>5 DEF Inv, PlayInv
  <2>4. \A i \in 0 .. packetIndex' - 1 : i \in Slots /\ (i = packetIndex \/ i \in 0 .. packetIndex - 1)
    BY <1>1, <1>2, StreamAssumption DEF Slots
  <2>5. \A i \in 0 .. packetIndex' - 1 : fPacketArray'[stream][i] = Empty
    BY <1>1, <1>5, <2>4 DEF Inv, PlayInv
  <2> QED
    BY <1>1, <1>6, <2>1, <2>2, <2>3, <2>5 DEF PlayInv
<1> QED
  BY <1>1, <1>4, <1>6, <1>7, <1>8 DEF Inv

(* The end of a stream; at the end of the last one nothing is left.        *)
LEMMA ClearEndStep ==
    ASSUME Inv, ClearEnd
    PROVE  /\ Inv'
           /\ op' = "idle" => fBytesInList' = 0 /\ \A s \in Streams : fPacketsInList'[s] = 0
<1>1. /\ op = "play" /\ packetIndex \notin Listed(stream) /\ stream \in Streams
      /\ EmptyWindow(fBytesInList, TRUE)
      /\ fPacketsInList' = [fPacketsInList EXCEPT ![stream] = 0]
      /\ packetIndex' = 0 /\ UNCHANGED fPacketArray
      /\ \/ stream < NumStreams /\ stream' = stream + 1 /\ op' = "play"
         \/ stream = NumStreams /\ stream' = 1 /\ op' = "idle"
  <2>1. stream \in Streams /\ (stream < NumStreams \/ stream = NumStreams)
    BY StreamAssumption DEF Inv, LoopInv, Streams
  <2>2. CASE stream < NumStreams
    BY <2>1, <2>2 DEF ClearEnd
  <2>3. CASE ~ (stream < NumStreams)
    BY <2>1, <2>3 DEF ClearEnd
  <2> QED
    BY <2>2, <2>3
<1>2. packetIndex = fPacketsInList[stream] /\ packetIndex \in 0 .. MaxPackets
  <2>1. /\ packetIndex \in Int /\ 0 <= packetIndex /\ packetIndex <= fPacketsInList[stream]
        /\ fPacketsInList[stream] \in 0 .. MaxPackets
    BY <1>1 DEF Inv, LoopInv, ArrayType
  <2> QED
    BY <1>1, <2>1 DEF Listed
<1>3. TrackerInv' /\ BytesBounded' /\ fBytesInList' = 0
  <2>1. fBytesInList \in Nat
    BY DEF Inv, TrackerInv
  <2>2. fClientWindow = ClientWindow
    BY <1>1 DEF Inv, TrackerInv
  <2>3. fBytesInList' = 0
    <3>1. fBytesInList' = IF fBytesInList > fBytesInList THEN 0 ELSE fBytesInList - fBytesInList
      BY <1>1, <2>1, <2>2, EmptyWindowEffect DEF Inv
    <3> QED
      BY <2>1, <3>1
  <2>4. TrackerInv'
    BY <1>1, <2>1, <2>2, EmptyWindowEffect DEF Inv, TrackerInv
  <2> QED
    BY <2>3, <2>4 DEF BytesBounded
<1>4. /\ ArrayType' /\ fPacketsInList'[stream] = 0
      /\ \A s \in Streams : s # stream => fPacketsInList'[s] = fPacketsInList[s]
  BY <1>1, StreamAssumption DEF Inv, ArrayType
<1>5. /\ stream' \in Streams /\ stream \in 1 .. NumStreams
      /\ \A s \in Streams : s \in Int /\ s <= NumStreams
      /\ stream < NumStreams => \A s \in Streams : s < stream + 1 => s = stream \/ s < stream
  BY <1>1, StreamAssumption DEF Streams
<1>6. LoopInv' /\ PassLeavesNoOld'
  BY <1>1, <1>4, <1>5 DEF Inv, LoopInv, ArrayType, PassLeavesNoOld
<1>7. \A s \in Streams : \A i \in Slots \ Listed(s)' : fPacketArray'[s][i] = Empty
  <2>1. ASSUME NEW s \in Streams, NEW i \in Slots, i \notin Listed(s)' PROVE fPacketArray[s][i] = Empty
    <3>1. CASE s = stream
      <4>1. i \in Listed(s) => i \in 0 .. packetIndex - 1
        BY <1>2, <3>1 DEF Listed
      <4> QED
        BY <1>1, <2>1, <3>1, <4>1 DEF Inv, PlayInv
    <3>2. CASE s # stream
      <4>1. i \notin Listed(s)
        BY <1>4, <2>1, <3>2 DEF Listed
      <4> QED
        BY <1>1, <2>1, <4>1 DEF Inv, PlayInv
    <3> QED
      BY <3>1, <3>2
  <2> QED
    BY <1>1, <2>1
<1>8. CASE op' = "play"
  <2>1. \A s \in Streams : s < stream' => fPacketsInList'[s] = 0
    BY <1>1, <1>4, <1>5, <1>8 DEF Inv, PlayInv
  <2>2. \A i \in 0 .. packetIndex' - 1 : FALSE
    BY <1>1
  <2>3. PlayInv'
    BY <1>3, <1>7, <2>1, <2>2 DEF PlayInv
  <2> QED
    BY <1>3, <1>4, <1>6, <1>8, <2>3 DEF Inv
<1>9. CASE op' = "idle"
  <2>1. stream = NumStreams
    BY <1>1, <1>9
  <2>2. \A s \in Streams : s = stream \/ s < stream
    BY <1>5, <2>1
  <2>3. \A s \in Streams : fPacketsInList'[s] = 0
    BY <1>1, <1>4, <2>2 DEF Inv, PlayInv
  <2>4. \A s \in Streams : Listed(s)' = {}
    BY <2>3 DEF Listed
  <2>5. Lists'
    BY <1>7, <2>4 DEF Lists
  <2>6. Accounted'
    BY <1>3, <1>4, <2>3, NothingOutstanding, FS_EmptySet DEF Accounted
  <2>7. PlayInv'
    BY <1>9 DEF PlayInv
  <2> QED
    BY <1>3, <1>4, <1>6, <2>3, <2>5, <2>6, <2>7 DEF Inv
<1> QED
  BY <1>1, <1>8, <1>9

-----------------------------------------------------------------------------
(* The steps of a pass, acknowledgements and the clock                     *)

LEMMA AccountedAfterRemove ==
    ASSUME ArrayType, Lists, Accounted, NEW s \in Streams, NEW i \in Listed(s), RemovePacket(s, i),
           LET size == fPacketArray[s][i].size
           IN  fBytesInList' = IF size > fBytesInList THEN 0 ELSE fBytesInList - size
    PROVE  Accounted'
<1> DEFINE B == BytesOf(s, fPacketArray[s][i])
           size == fPacketArray[s][i].size
<1>1. B \subseteq OutstandingBytes /\ OutstandingBytes' = OutstandingBytes \ B
  BY RemoveEffect
<1>2. size \in Nat
  BY ListedSlots, EntrySize
<1>3. IsFiniteSet(B) /\ Cardinality(B) = size
  BY <1>2, BytesOfCount
<1>4. fBytesInList' = IF size > fBytesInList THEN 0 ELSE fBytesInList - size
  OBVIOUS
<1> HIDE DEF B, size
<1>5. /\ IsFiniteSet(OutstandingBytes) /\ Cardinality(OutstandingBytes) = fBytesInList
      /\ fBytesInList \in Nat
  BY FS_CardinalityType DEF Accounted
<1>6. size <= fBytesInList
  BY <1>1, <1>3, <1>5, FS_Subset
<1>7. OutstandingBytes \cap B = B
  BY <1>1
<1>8. IsFiniteSet(OutstandingBytes \ B) /\ Cardinality(OutstandingBytes \ B) = fBytesInList - size
  <2>1. /\ IsFiniteSet(OutstandingBytes \ B)
        /\ Cardinality(OutstandingBytes \ B)
              = Cardinality(OutstandingBytes) - Cardinality(OutstandingBytes \cap B)
    BY <1>5, FS_Difference
  <2> QED
    BY <1>3, <1>5, <1>7, <2>1
<1> QED
  BY <1>1, <1>2, <1>4, <1>5, <1>6, <1>8 DEF Accounted

LEMMA BeginPassStep == ASSUME Inv, BeginPass PROVE Inv'
<1>1. /\ op = "idle" /\ fClientWindow > 0 /\ op' = "pass" /\ stream' = 1
      /\ packetIndex' = fPacketsInList[1] - 1 /\ UNCHANGED <<listVars, trackerVars>>
  BY DEF BeginPass, LastIndex
<1>2. /\ 1 \in Streams /\ fPacketsInList[1] \in Nat
      /\ \A s \in Streams : ~ (s < 1)
      /\ \A i \in Listed(1) : ~ (i > packetIndex')
  BY <1>1, StreamAssumption DEF Streams, Inv, ArrayType, Listed
<1>3. TrackerInv' /\ BytesBounded' /\ fBytesInList' = fBytesInList
  BY <1>1, WindowAssumption DEF Inv, TrackerInv, BytesBounded, trackerVars
<1>4. ArrayType' /\ Lists' /\ OutstandingBytes' = OutstandingBytes /\ \A s : Listed(s)' = Listed(s)
  BY <1>1, ListMatters DEF Inv
<1>5. LoopInv' /\ PlayInv'
  BY <1>1, <1>2 DEF LoopInv, PlayInv, listVars
<1>6. PassLeavesNoOld'
  BY <1>1, <1>2, <1>4 DEF PassLeavesNoOld
<1>7. Accounted'
  BY <1>1, <1>3, <1>4 DEF Accounted, Inv
<1> QED
  BY <1>3, <1>4, <1>5, <1>6, <1>7 DEF Inv

LEMMA NotDueStep == ASSUME Inv, NotDue PROVE Inv'
<1>1. /\ op = "pass" /\ packetIndex >= 0 /\ ~ fPacketArray[stream][packetIndex].old
      /\ packetIndex' = packetIndex - 1
      /\ UNCHANGED <<listVars, trackerVars, op, stream>>
  BY DEF NotDue, Visiting, Visited, NextPacket
<1>2. TrackerInv' /\ BytesBounded' /\ fBytesInList' = fBytesInList
  BY <1>1 DEF Inv, TrackerInv, BytesBounded, trackerVars
<1>3. ArrayType' /\ Lists' /\ OutstandingBytes' = OutstandingBytes /\ \A s : Listed(s)' = Listed(s)
  BY <1>1, ListMatters DEF Inv
<1>4. LoopInv' /\ PlayInv'
  BY <1>1 DEF Inv, LoopInv, PlayInv, listVars, ArrayType
<1>5. PassLeavesNoOld'
  <2>1. \A i \in Listed(stream) : i > packetIndex - 1 => i = packetIndex \/ i > packetIndex
    BY <1>1, ListedSlots DEF Inv, LoopInv
  <2> QED
    BY <1>1, <1>3, <2>1 DEF Inv, PassLeavesNoOld, listVars
<1>6. Accounted'
  BY <1>1, <1>2, <1>3 DEF Accounted, Inv
<1> QED
  BY <1>2, <1>3, <1>4, <1>5, <1>6 DEF Inv

LEMMA ExpirePacketStep == ASSUME Inv, ExpirePacket PROVE Inv'
<1> DEFINE size == fPacketArray[stream][packetIndex].size
           last == fPacketsInList[stream] - 1
<1>1. /\ op = "pass" /\ packetIndex >= 0 /\ size > 0 /\ EmptyWindow(size, TRUE)
      /\ RemovePacket(stream, packetIndex) /\ packetIndex' = packetIndex - 1
      /\ UNCHANGED <<op, stream>>
  BY DEF ExpirePacket, Visiting, Visited, NextPacket
<1>2. /\ stream \in Streams /\ packetIndex \in Listed(stream) /\ packetIndex \in Nat
      /\ last \in Int /\ packetIndex <= last /\ last \in Listed(stream)
  BY <1>1, StreamAssumption DEF Inv, LoopInv, ArrayType, Listed
<1>3. size \in Nat
  BY <1>2, ListedSlots, EntrySize DEF Inv
<1>4. TrackerInv' /\ BytesBounded' /\ fBytesInList' = IF size > fBytesInList THEN 0 ELSE fBytesInList - size
  BY <1>1, <1>3, EmptyWindowEffect, Bounded DEF Inv, TrackerInv
<1>5. /\ ArrayType' /\ Lists'
      /\ fPacketsInList'[stream] = last
      /\ \A r \in Streams : r # stream => /\ fPacketsInList'[r] = fPacketsInList[r]
                                        /\ fPacketArray'[r] = fPacketArray[r]
      /\ \A j \in Slots : j # packetIndex /\ j # last => fPacketArray'[stream][j] = fPacketArray[stream][j]
      /\ packetIndex # last => fPacketArray'[stream][packetIndex] = fPacketArray[stream][last]
  BY <1>1, <1>2, RemoveEffect DEF Inv
<1>6. Accounted'
  BY <1>1, <1>2, <1>4, AccountedAfterRemove DEF Inv
<1> HIDE DEF size, last
<1>7. LoopInv' /\ PlayInv'
  BY <1>1, <1>2, <1>5 DEF Inv, LoopInv, PlayInv
<1>8. PassLeavesNoOld'
  <2>1. ASSUME NEW s \in Streams, NEW i \in Listed(s)', s < stream PROVE ~ fPacketArray'[s][i].old
    <3>1. s # stream /\ i \in Listed(s)
      BY <1>2, <1>5, <2>1 DEF Listed, Streams
    <3> QED
      BY <1>1, <1>5, <2>1, <3>1 DEF Inv, PassLeavesNoOld
  <2>2. ASSUME NEW i \in Listed(stream)', i > packetIndex - 1 PROVE ~ fPacketArray'[stream][i].old
    <3>1. i \in 0 .. last - 1
      BY <1>1, <1>5, <2>2 DEF Listed
    <3>2. i \in Listed(stream) /\ i \in Slots /\ i # last
      BY <1>2, <3>1, ListedSlots DEF Listed, Inv, last
    <3>3. CASE i = packetIndex
      <4>1. last > packetIndex /\ fPacketArray'[stream][i] = fPacketArray[stream][last]
        BY <1>2, <1>5, <3>2, <3>3
      <4> QED
        BY <1>1, <1>2, <4>1 DEF Inv, PassLeavesNoOld
    <3>4. CASE i # packetIndex
      <4>1. i > packetIndex /\ fPacketArray'[stream][i] = fPacketArray[stream][i]
        BY <1>2, <1>5, <2>2, <3>1, <3>2, <3>4
      <4> QED
        BY <1>1, <1>2, <3>2, <4>1 DEF Inv, PassLeavesNoOld
    <3> QED
      BY <3>3, <3>4
  <2> QED
    BY <1>1, <2>1, <2>2 DEF PassLeavesNoOld
<1> QED
  BY <1>1, <1>4, <1>5, <1>6, <1>7, <1>8 DEF Inv

LEMMA ResendStep == ASSUME Inv, Resend PROVE Inv'
<1> DEFINE e == [fPacketArray[stream][packetIndex] EXCEPT !.old = FALSE]
<1>1. /\ op = "pass" /\ packetIndex >= 0 /\ fPacketArray[stream][packetIndex].size > 0
      /\ SetEntry(stream, packetIndex, e) /\ AdjustWindowForRetransmit
      /\ packetIndex' = packetIndex - 1
      /\ UNCHANGED <<op, stream, fPacketsInList>>
  BY DEF Resend, Visiting, Visited, NextPacket
<1>2. /\ stream \in Streams /\ packetIndex \in Listed(stream) /\ packetIndex \in Nat
      /\ packetIndex \in Slots
  BY <1>1, StreamAssumption DEF Inv, LoopInv, ArrayType, Listed, Slots
<1>3. fPacketArray[stream][packetIndex] \in Entry
  BY <1>1, <1>2, EntrySize DEF Inv
<1>4. /\ e \in Entry /\ ~ e.old /\ e.seq = fPacketArray[stream][packetIndex].seq
      /\ e.size = fPacketArray[stream][packetIndex].size
  BY <1>3 DEF Entry
<1> HIDE DEF e
<1>5. TrackerInv' /\ BytesBounded' /\ fBytesInList' = fBytesInList
  BY <1>1, AdjustEffect DEF Inv, TrackerInv, BytesBounded
<1>6. /\ ArrayType' /\ Lists' /\ OutstandingBytes' = OutstandingBytes
      /\ \A r \in Streams : Listed(r)' = Listed(r) /\ (r # stream => fPacketArray'[r] = fPacketArray[r])
      /\ \A j \in Slots : fPacketArray'[stream][j] = IF j = packetIndex THEN e ELSE fPacketArray[stream][j]
  BY <1>1, <1>2, <1>4, MarkEffect DEF Inv
<1>7. LoopInv' /\ PlayInv'
  BY <1>1, <1>2 DEF Inv, LoopInv, PlayInv, ArrayType
<1>8. PassLeavesNoOld'
  <2>1. ASSUME NEW s \in Streams, NEW i \in Listed(s), s < stream PROVE ~ fPacketArray'[s][i].old
    <3>1. s # stream
      BY <1>2, <2>1 DEF Streams
    <3> QED
      BY <1>1, <1>6, <2>1, <3>1 DEF Inv, PassLeavesNoOld
  <2>2. ASSUME NEW i \in Listed(stream), i > packetIndex - 1 PROVE ~ fPacketArray'[stream][i].old
    <3>1. i \in Slots /\ (i = packetIndex \/ i > packetIndex)
      BY <1>2, <2>2, ListedSlots DEF Inv
    <3> QED
      BY <1>1, <1>2, <1>4, <1>6, <3>1 DEF Inv, PassLeavesNoOld
  <2> QED
    BY <1>1, <1>6, <2>1, <2>2 DEF PassLeavesNoOld
<1>9. Accounted'
  BY <1>1, <1>5, <1>6 DEF Accounted, Inv
<1> QED
  BY <1>5, <1>6, <1>7, <1>8, <1>9 DEF Inv

LEMMA NextStreamStep == ASSUME Inv, NextStream PROVE Inv'
<1>1. /\ op = "pass" /\ packetIndex < 0 /\ stream < NumStreams /\ stream' = stream + 1
      /\ packetIndex' = fPacketsInList[stream + 1] - 1
      /\ UNCHANGED <<listVars, trackerVars, op>>
  BY DEF NextStream, LastIndex
<1>2. /\ stream \in Streams /\ stream + 1 \in Streams /\ fPacketsInList[stream + 1] \in Nat
      /\ \A s \in Streams : s < stream + 1 => s = stream \/ s < stream
      /\ \A i \in Listed(stream + 1) : ~ (i > packetIndex')
  <2>1. stream \in Streams /\ stream + 1 \in Streams
    BY <1>1, StreamAssumption DEF Inv, LoopInv, Streams
  <2>2. fPacketsInList[stream + 1] \in Nat
    BY <2>1, StreamAssumption DEF Inv, ArrayType
  <2> QED
    BY <1>1, <2>1, <2>2, StreamAssumption DEF Streams, Listed
<1>3. TrackerInv' /\ BytesBounded' /\ fBytesInList' = fBytesInList
  BY <1>1 DEF Inv, TrackerInv, BytesBounded, trackerVars
<1>4. ArrayType' /\ Lists' /\ OutstandingBytes' = OutstandingBytes /\ \A s : Listed(s)' = Listed(s)
  BY <1>1, ListMatters DEF Inv
<1>5. LoopInv' /\ PlayInv'
  BY <1>1, <1>2 DEF LoopInv, PlayInv, listVars
<1>6. PassLeavesNoOld'
  <2>1. packetIndex = -1 /\ \A i \in Listed(stream) : i > packetIndex
    BY <1>1, <1>2, ListedSlots DEF Inv, LoopInv
  <2> QED
    BY <1>1, <1>2, <1>4, <2>1 DEF Inv, PassLeavesNoOld, listVars
<1>7. Accounted'
  BY <1>1, <1>3, <1>4 DEF Accounted, Inv
<1> QED
  BY <1>3, <1>4, <1>5, <1>6, <1>7 DEF Inv

LEMMA EndPassStep == ASSUME Inv, EndPass PROVE Inv'
<1>1. /\ op = "pass" /\ op' = "idle" /\ stream' = 1 /\ packetIndex' = 0
      /\ UNCHANGED <<listVars, trackerVars>>
  BY DEF EndPass, AtEndOfPass, Idle
<1>2. TrackerInv' /\ BytesBounded' /\ fBytesInList' = fBytesInList
  BY <1>1 DEF Inv, TrackerInv, BytesBounded, trackerVars
<1>3. ArrayType' /\ Lists' /\ OutstandingBytes' = OutstandingBytes
  BY <1>1, ListMatters DEF Inv
<1>4. LoopInv' /\ PlayInv' /\ PassLeavesNoOld'
  BY <1>1, StreamAssumption DEF LoopInv, PlayInv, PassLeavesNoOld, Streams
<1>5. Accounted'
  BY <1>1, <1>2, <1>3 DEF Accounted, Inv
<1> QED
  BY <1>2, <1>3, <1>4, <1>5 DEF Inv

LEMMA AddPacketStep ==
    ASSUME Inv, NEW s \in Streams, NEW q \in SeqNums, NEW size \in Sizes, AddPacket(s, q, size)
    PROVE  Inv'
<1>1. /\ op = "pass" /\ op' = "idle" /\ stream' = 1 /\ packetIndex' = 0
      /\ fBytesInList < fCongestionWindow /\ AddEntry(s, q, size)
      /\ IndexesOf(s, q) = {} /\ fPacketsInList[s] < MaxPackets
  BY DEF AddPacket, AtEndOfPass, Idle, IsFlowControlled, Inv, TrackerInv
<1>2. /\ ArrayType' /\ Lists'
      /\ fBytesInList' = fBytesInList + size
      /\ UNCHANGED <<fClientWindow, fCongestionWindow, fSlowStartThreshold, adjusted>>
      /\ \E e \in Entry : /\ e.size = size
                          /\ OutstandingBytes' = OutstandingBytes \cup BytesOf(s, e)
                          /\ OutstandingBytes \cap BytesOf(s, e) = {}
  BY <1>1, AddEffect DEF Inv
<1>3. size \in Nat /\ Limit \in Nat /\ fBytesInList \in Nat /\ fBytesInList < Limit
  BY <1>1, PacketAssumption, WindowAssumption DEF Inv, TrackerInv, Limit, AtLeast
<1>4. TrackerInv' /\ BytesBounded'
  BY <1>1, <1>2, <1>3 DEF Inv, TrackerInv, BytesBounded
<1>5. LoopInv' /\ PlayInv' /\ PassLeavesNoOld'
  BY <1>1, StreamAssumption DEF LoopInv, PlayInv, PassLeavesNoOld, Streams
<1>6. Accounted'
  <2>1. PICK e \in Entry : /\ e.size = size
                           /\ OutstandingBytes' = OutstandingBytes \cup BytesOf(s, e)
                           /\ OutstandingBytes \cap BytesOf(s, e) = {}
    BY <1>2
  <2>2. IsFiniteSet(BytesOf(s, e)) /\ Cardinality(BytesOf(s, e)) = size
    BY <1>3, <2>1, BytesOfCount
  <2>3. IsFiniteSet(OutstandingBytes) /\ fBytesInList = Cardinality(OutstandingBytes)
    BY <1>1 DEF Inv, Accounted
  <2>4. /\ IsFiniteSet(OutstandingBytes \cup BytesOf(s, e))
        /\ Cardinality(OutstandingBytes \cup BytesOf(s, e)) = fBytesInList + size - Cardinality({})
    <3>1. /\ IsFiniteSet(OutstandingBytes \cup BytesOf(s, e))
          /\ Cardinality(OutstandingBytes \cup BytesOf(s, e))
                = Cardinality(OutstandingBytes) + Cardinality(BytesOf(s, e))
                  - Cardinality(OutstandingBytes \cap BytesOf(s, e))
      BY <2>2, <2>3, FS_Union
    <3> QED
      BY <2>1, <2>2, <2>3, <3>1
  <2>5. Cardinality({}) = 0
    BY FS_EmptySet
  <2>6. Cardinality(OutstandingBytes') = fBytesInList + size
    BY <1>3, <2>1, <2>4, <2>5
  <2> QED
    BY <1>2, <2>1, <2>4, <2>6 DEF Accounted
<1> QED
  BY <1>2, <1>4, <1>5, <1>6 DEF Inv

LEMMA AckPacketStep ==
    ASSUME Inv, NEW s \in Streams, NEW q \in SeqNums, AckPacket(s, q)
    PROVE  Inv'
<1>1. op = "idle" /\ fClientWindow = ClientWindow /\ UNCHANGED <<op, stream, packetIndex>>
  BY DEF AckPacket, ReadyForAckProcessing, loopVars, Inv, TrackerInv
<1>2. CASE \E i \in IndexesOf(s, q) : AckListed(fPacketArray[s][i].size) /\ RemovePacket(s, i)
  <2>1. PICK i \in IndexesOf(s, q) : AckListed(fPacketArray[s][i].size) /\ RemovePacket(s, i)
    BY <1>2
  <2>2. i \in Listed(s) /\ EmptyWindow(fPacketArray[s][i].size, TRUE)
    BY <2>1 DEF IndexesOf, AckListed
  <2>3. fPacketArray[s][i].size \in Nat
    BY <2>2, ListedSlots, EntrySize DEF Inv
  <2>4. /\ TrackerInv' /\ BytesBounded'
        /\ fBytesInList' = IF fPacketArray[s][i].size > fBytesInList THEN 0
                           ELSE fBytesInList - fPacketArray[s][i].size
    BY <1>1, <2>2, <2>3, EmptyWindowEffect, Bounded DEF Inv, TrackerInv
  <2>5. ArrayType' /\ Lists'
    BY <1>1, <2>1, <2>2, RemoveEffect DEF Inv
  <2>6. Accounted'
    BY <1>1, <2>1, <2>2, <2>4, AccountedAfterRemove DEF Inv
  <2> QED
    BY <1>1, <2>4, <2>5, <2>6 DEF Inv, LoopInv, PlayInv, PassLeavesNoOld
<1>3. CASE EmptyWindow(kMaximumSegmentSize, FALSE) /\ UNCHANGED listVars
  <2>1. TrackerInv' /\ BytesBounded' /\ fBytesInList' = fBytesInList
    BY <1>1, <1>3, EmptyWindowEffect, Bounded, WindowAssumption DEF Inv, TrackerInv
  <2>2. ArrayType' /\ Lists' /\ OutstandingBytes' = OutstandingBytes
    BY <1>1, <1>3, ListMatters DEF Inv
  <2>3. Accounted'
    BY <1>1, <2>1, <2>2 DEF Accounted, Inv
  <2> QED
    BY <1>1, <2>1, <2>2, <2>3 DEF Inv, LoopInv, PlayInv, PassLeavesNoOld
<1> QED
  BY <1>2, <1>3 DEF AckPacket

LEMMA ClockStep ==
    ASSUME Inv, NEW s \in Streams, NEW q \in SeqNums, GetsOld(s, q) \/ Expires(s, q)
    PROVE  Inv'
<1>1. op = "idle" /\ UNCHANGED <<fPacketsInList, trackerVars, op, stream, packetIndex>>
  BY DEF GetsOld, Expires, loopVars
<1>2. PICK i \in IndexesOf(s, q) :
         \E e \in {[fPacketArray[s][i] EXCEPT !.old = TRUE], [fPacketArray[s][i] EXCEPT !.expired = TRUE]} :
            SetEntry(s, i, e)
  BY DEF GetsOld, Expires
<1>3. PICK e \in {[fPacketArray[s][i] EXCEPT !.old = TRUE], [fPacketArray[s][i] EXCEPT !.expired = TRUE]} :
         SetEntry(s, i, e)
  BY <1>2
<1>4. i \in Listed(s) /\ i \in Slots
  BY ListedSlots DEF IndexesOf, Inv
<1>5. fPacketArray[s][i] \in Entry
  BY <1>1, <1>4, EntrySize DEF Inv, Lists
<1>6. e \in Entry /\ e.seq = fPacketArray[s][i].seq /\ e.size = fPacketArray[s][i].size
  BY <1>5 DEF Entry
<1>7. ArrayType' /\ Lists' /\ OutstandingBytes' = OutstandingBytes
  BY <1>1, <1>3, <1>4, <1>6, MarkEffect DEF Inv
<1>8. TrackerInv' /\ BytesBounded' /\ Accounted'
  BY <1>1, <1>7 DEF Inv, TrackerInv, BytesBounded, trackerVars, Accounted
<1> QED
  BY <1>1, <1>7, <1>8 DEF Inv, LoopInv, PlayInv, PassLeavesNoOld

LEMMA InvNext == Inv /\ [Next]_vars => Inv'
<1> SUFFICES ASSUME Inv, [Next]_vars PROVE Inv'
  OBVIOUS
<1>1. CASE Play
  BY <1>1, PlayStep
<1>2. CASE BeginPass
  BY <1>2, BeginPassStep
<1>3. CASE Loop
  BY <1>3, ClearPacketStep, ClearEndStep, NotDueStep, ExpirePacketStep, ResendStep,
     NextStreamStep, EndPassStep DEF Loop
<1>4. CASE MayAdjustAgain
  <2>1. ArrayType' /\ Lists' /\ OutstandingBytes' = OutstandingBytes
    BY <1>4, ListMatters DEF MayAdjustAgain, Inv
  <2> QED
    BY <1>4, <2>1 DEF MayAdjustAgain, Inv, TrackerInv, LoopInv, loopVars, BytesBounded, PlayInv,
                      PassLeavesNoOld, Accounted
<1>5. CASE \E s \in Streams, q \in SeqNums :
             \/ AckPacket(s, q) \/ GetsOld(s, q) \/ Expires(s, q)
             \/ \E size \in Sizes : AddPacket(s, q, size)
  BY <1>5, AckPacketStep, ClockStep, AddPacketStep
<1>6. CASE UNCHANGED vars
  <2>1. /\ UNCHANGED <<listVars, fClientWindow, fCongestionWindow, fSlowStartThreshold, fBytesInList,
                       adjusted, op, stream, packetIndex, fPacketArray, fPacketsInList>>
    BY <1>6 DEF vars, listVars, trackerVars, loopVars
  <2>2. ArrayType' /\ (Lists => Lists') /\ OutstandingBytes' = OutstandingBytes
        /\ \A s : Listed(s)' = Listed(s)
    BY <2>1, ListMatters DEF Inv
  <2> QED
    BY <2>1, <2>2 DEF Inv, TrackerInv, LoopInv, BytesBounded, PlayInv, PassLeavesNoOld, Accounted
<1> QED
  BY <1>1, <1>2, <1>3, <1>4, <1>5, <1>6 DEF Next

LEMMA Invariant == Spec => []Inv
BY InvInit, InvNext, PTL DEF Spec

-----------------------------------------------------------------------------
(* The theorems                                                            *)

(* The variables keep their types: no index leaves its list.               *)
THEOREM TypeCorrect == Spec => []TypeOK
<1>1. Inv => TypeOK
  BY WindowAssumption DEF Inv, TypeOK, ArrayType, TrackerInv, LoopInv, Limit, AtLeast
<1> QED
  BY <1>1, Invariant, PTL

(* The lists hold different packets without gaps, so that AddPacket        *)
(* (RTPPacketResender.cpp) never meets an entry in use.                    *)
THEOREM ListsAreExact == Spec => []ListExact
<1>1. Inv => ListExact
  BY DEF Inv, Lists, ListExact
<1> QED
  BY <1>1, Invariant, PTL

(* fBytesInList is the bytes of all the packets that are listed.           *)
THEOREM BytesAreAccounted == Spec => []BytesAccounted
<1>1. Inv => BytesAccounted
  BY DEF Inv, Accounted, BytesAccounted
<1> QED
  BY <1>1, Invariant, PTL

(* The congestion window stays open and within its limit, and what is      *)
(* outstanding within it but for one packet of any of the Sizes.           *)
THEOREM WindowIsBounded == Spec => []WindowBounded
<1>1. Inv => WindowBounded
  BY DEF Inv, TrackerInv, BytesBounded, WindowBounded, Limit
<1> QED
  BY <1>1, Invariant, PTL

(* A pass of ResendDueEntries passes over no packet.                       *)
THEOREM PassIsComplete == Spec => []PassLeavesNoOld
<1>1. Inv => PassLeavesNoOld
  BY DEF Inv
<1> QED
  BY <1>1, Invariant, PTL

(* PLAY starts with every list and the window empty (RTPSession::Play).    *)
THEOREM PlayIsEmpty == Spec => PlayStartsEmpty
<1>1. Inv /\ [Next]_vars => [(op = "play" /\ op' = "idle") =>
          fBytesInList' = 0 /\ \A s \in Streams : fPacketsInList'[s] = 0]_vars
  <2> SUFFICES ASSUME Inv, Next, op = "play", op' = "idle"
               PROVE  fBytesInList' = 0 /\ \A s \in Streams : fPacketsInList'[s] = 0
    OBVIOUS
  <2>1. ClearEnd
    BY DEF Next, Loop, Play, BeginPass, MayAdjustAgain, ClearPacket, NotDue, ExpirePacket, Resend,
           Visiting, NextStream, EndPass, AddPacket, AtEndOfPass, AckPacket, GetsOld, Expires
  <2> QED
    BY <2>1, ClearEndStep
<1> QED
  BY <1>1, Invariant, PTL DEF Spec, PlayStartsEmpty
=============================================================================
