--------------------------- MODULE IdleTask_proofs ---------------------------
(***************************************************************************)
(* First the heap by itself (OSHeap), for any set of elements and any      *)
(* values: it is ordered, and a priority queue to its users, until Remove  *)
(* puts the last leaf below a greater element (the leaf never rises), and  *)
(* that takes an array of six.  None of these facts uses an assumption of  *)
(* IdleTask.                                                               *)
(*                                                                         *)
(* Then the idle thread (IdleTask), whose heap it is: who holds its mutex, *)
(* that deleted tasks leave no timer, and that it never oversleeps.        *)
(***************************************************************************)
EXTENDS IdleTask, WellFoundedInduction, TLAPS

N == Len(fHeap)

(* A swap and the filling of a hole give arrays of elements again.         *)
LEMMA SwapProperties ==
    ASSUME fHeap \in Seq(Elems), NEW i \in 1 .. N, NEW j \in 1 .. N
    PROVE  /\ Swap(i, j) \in Seq(Elems)
           /\ Len(Swap(i, j)) = N
           /\ \A k \in 1 .. N : Swap(i, j)[k] = IF k = j THEN fHeap[i]
                                              ELSE IF k = i THEN fHeap[j] ELSE fHeap[k]
<1>1. \A k \in 1 .. N : fHeap[k] \in Elems
  BY DEF N
<1>2. DOMAIN Swap(i, j) = 1 .. N
  BY DEF Swap, N
<1>3. \A k \in 1 .. N : Swap(i, j)[k] = IF k = j THEN fHeap[i]
                                       ELSE IF k = i THEN fHeap[j] ELSE fHeap[k]
  BY DEF Swap, N
<1>4. Swap(i, j) = [k \in 1 .. N |-> Swap(i, j)[k]]
  BY <1>2 DEF Swap, N
<1>5. Swap(i, j) \in [1 .. N -> Elems]
  BY <1>1, <1>3, <1>4
<1>6. N \in Nat
  BY DEF N
<1> QED
  BY <1>3, <1>5, <1>6

LEMMA FilledProperties ==
    ASSUME fHeap \in Seq(Elems), NEW i \in 1 .. N
    PROVE  /\ Filled(i) \in Seq(Elems)
           /\ Len(Filled(i)) = N - 1
           /\ \A k \in 1 .. N - 1 : Filled(i)[k] = IF k = i THEN fHeap[N] ELSE fHeap[k]
<1>1. N \in Nat /\ N - 1 \in Nat /\ \A k \in 1 .. N : fHeap[k] \in Elems
  BY DEF N
<1>2. Filled(i) \in [1 .. N - 1 -> Elems]
  BY <1>1 DEF Filled, N
<1>3. \A k \in 1 .. N - 1 : Filled(i)[k] = IF k = i THEN fHeap[N] ELSE fHeap[k]
  BY DEF Filled, N
<1> QED
  BY <1>1, <1>2, <1>3

LEMMA LeastProperties ==
    ASSUME TypeOK, NEW p \in 1 .. N
    PROVE  /\ Least(p) \in {p, 2 * p, 2 * p + 1} /\ Least(p) \in 1 .. N
           /\ ValueAt(Least(p)) <= ValueAt(p)
           /\ 2 * p \in 1 .. N => ValueAt(Least(p)) <= ValueAt(2 * p)
           /\ 2 * p + 1 \in 1 .. N => ValueAt(Least(p)) <= ValueAt(2 * p + 1)
<1>1. N \in Nat /\ \A k \in 1 .. N : fHeap[k] \in Elems
  BY DEF N, TypeOK
<1>2. \A k \in 1 .. N : ValueAt(k) \in Int
  BY <1>1, ValuesAssumption DEF ValueAt, TypeOK
<1> DEFINE left == IF 2 * p < fFreeIndex /\ ValueAt(2 * p) < ValueAt(p)
                   THEN 2 * p ELSE p
<1>3. /\ left \in {p, 2 * p} /\ left \in 1 .. N
      /\ ValueAt(left) <= ValueAt(p)
      /\ 2 * p \in 1 .. N => ValueAt(left) <= ValueAt(2 * p)
  BY <1>1, <1>2 DEF fFreeIndex, N
<1>4. Least(p) = IF 2 * p + 1 < fFreeIndex /\ ValueAt(2 * p + 1) < ValueAt(left)
                 THEN 2 * p + 1 ELSE left
  BY DEF Least
<1> HIDE DEF left
<1>5. CASE 2 * p + 1 < fFreeIndex /\ ValueAt(2 * p + 1) < ValueAt(left)
  <2>1. Least(p) = 2 * p + 1 /\ 2 * p + 1 \in 1 .. N /\ 2 * p \in 1 .. N
    BY <1>1, <1>4, <1>5 DEF fFreeIndex, N
  <2> QED
    BY <1>2, <1>3, <1>5, <2>1
<1>6. CASE ~ (2 * p + 1 < fFreeIndex /\ ValueAt(2 * p + 1) < ValueAt(left))
  <2>1. Least(p) = left
    BY <1>4, <1>6
  <2>2. 2 * p + 1 \in 1 .. N => ValueAt(left) <= ValueAt(2 * p + 1)
    BY <1>1, <1>2, <1>3, <1>6 DEF fFreeIndex, N
  <2> QED
    BY <1>3, <2>1, <2>2
<1> QED
  BY <1>5, <1>6
LEMMA Half ==
    ASSUME NEW n \in Nat, NEW i \in 2 .. n
    PROVE  i \div 2 \in 1 .. n /\ i \div 2 < i /\ (i = 2 * (i \div 2) \/ i = 2 * (i \div 2) + 1)
  OBVIOUS

LEMMA HalfOfChild ==
    ASSUME NEW p \in Nat \ {0}
    PROVE  (2 * p) \div 2 = p /\ (2 * p + 1) \div 2 = p
  OBVIOUS

-----------------------------------------------------------------------------
(* HeapOrder is not inductive: within a loop it fails at pos.  LoopInv says *)
(* where it may fail, and that the elements below pos are in order with    *)
(* the one above it, which is what the next swap relies on.                *)

BelowAbove == pos > 1 =>
    \A i \in 2 .. N : i \div 2 = pos => ValueAt(pos \div 2) <= ValueAt(i)

LoopInv ==
    /\ loop = "none" => \A i \in 2 .. N : Ordered(i)
    /\ loop = "up" => BelowAbove /\ \A i \in 2 .. N : i # pos => Ordered(i)
    /\ loop = "down" => BelowAbove /\ \A i \in 2 .. N : i \div 2 # pos => Ordered(i)

(* ... until a leaf has been misplaced.                                    *)
OrderInv == ~ misplaced => LoopInv

LEMMA HeapInit == Init => TypeOK /\ OrderInv
<1>1. Init => TypeOK
  <2>1. Init => misplaced \in BOOLEAN /\ inHeap \in [Elems -> BOOLEAN]
    BY DEF Init
  <2> QED
    BY <2>1 DEF Init, TypeOK
<1>2. Init => OrderInv
  BY DEF Init, OrderInv, LoopInv, BelowAbove, N, Ordered
<1> QED
  BY <1>1, <1>2

LEMMA ExtractCases ==
    ASSUME TypeOK, ExtractMin \/ \E e \in Elems : Remove(e)
    PROVE  \E i \in 1 .. N : Extract(i)
<1>1. fHeap \in Seq(Elems) /\ DOMAIN fHeap = 1 .. N
  BY DEF TypeOK, N
<1>2. ExtractMin => 1 \in 1 .. N
  BY <1>1 DEF ExtractMin, N
<1> QED
  BY <1>1, <1>2 DEF ExtractMin, Remove

LEMMA HeapType == TypeOK /\ [Next]_vars => TypeOK'
<1> SUFFICES ASSUME TypeOK, [Next]_vars PROVE TypeOK'
  OBVIOUS
<1> USE DEF TypeOK
<1>0. least' \in Elems \cup {NoElem}
  <2>1. CASE ExtractMin
    BY <2>1 DEF ExtractMin, Extract
  <2>2. CASE least' \in {least, NoElem}
    BY <2>2
  <2> QED
    BY <2>1, <2>2 DEF Next, vars, Insert, Remove, Rise, Sink, EndInsert, EndExtract
<1>1. ASSUME NEW e \in Elems, NEW v \in Values, Insert(e, v) PROVE TypeOK'
  BY <1>1 DEF Insert, LastLeaf, fFreeIndex
<1>2. ASSUME NEW i \in 1 .. N, Extract(i) PROVE TypeOK'
  <2>1. fHeap' \in Seq(Elems) /\ pos' \in 1 .. Len(fHeap') + 1
    BY <1>2, FilledProperties DEF Extract, N
  <2>2. loop' = "down" /\ UNCHANGED <<fValue, inElem>>
    BY <1>2 DEF Extract
  <2>3. inHeap' \in [Elems -> BOOLEAN] /\ misplaced' \in BOOLEAN
    <3>1. inHeap' = [inHeap EXCEPT ![fHeap[i]] = FALSE]
      BY <1>2 DEF Extract
    <3>2. misplaced' = (misplaced \/ Misplaces(i))
      BY <1>2 DEF Extract
    <3> QED
      BY <3>1, <3>2
  <2> QED
    BY <1>0, <2>1, <2>2, <2>3
<1>3. CASE Rise
  <2>1. pos \in 2 .. N /\ N \in Nat
    BY <1>3 DEF Rise, MustRise, N
  <2>2. pos \div 2 \in 1 .. N
    BY <2>1, Half
  <2>3. fHeap' \in Seq(Elems) /\ Len(fHeap') = N /\ pos' \in 1 .. N
    BY <1>3, <2>1, <2>2, SwapProperties DEF Rise
  <2> QED
    BY <1>3, <2>3 DEF Rise
<1>4. CASE EndInsert \/ EndExtract
  <2>1. inHeap' \in [Elems -> BOOLEAN]
    BY <1>4 DEF EndInsert, EndExtract
  <2> QED
    BY <1>4, <2>1 DEF EndInsert, EndExtract
<1>5. CASE Sink
  <2>1. pos \in 1 .. N
    BY <1>5 DEF Sink, MustSink, fFreeIndex, N
  <2>2. Least(pos) \in 1 .. N
    BY <2>1, LeastProperties
  <2>3. fHeap' \in Seq(Elems) /\ Len(fHeap') = N /\ pos' \in 1 .. N
    BY <1>5, <2>1, <2>2, SwapProperties DEF Sink
  <2>4. pos' \in 1 .. Len(fHeap') + 1
    BY <2>3 DEF N
  <2> QED
    BY <1>5, <2>3, <2>4 DEF Sink
<1>6. CASE UNCHANGED vars
  BY <1>6 DEF vars
<1> QED
  BY <1>1, <1>2, <1>3, <1>4, <1>5, <1>6, ExtractCases DEF Next

(* Membership: a swap permutes the array and the last leaf fills the hole. *)
LEMMA HeapMembership == TypeOK /\ Membership /\ [Next]_vars => Membership'
<1> SUFFICES ASSUME TypeOK, Membership, [Next]_vars PROVE Membership'
  OBVIOUS
<1>1. /\ N \in Nat /\ DOMAIN fHeap = 1 .. N /\ fHeap \in Seq(Elems)
      /\ \A k \in 1 .. N : fHeap[k] \in Elems
  BY DEF N, TypeOK
<1>2. \A i, j \in 1 .. N : fHeap[i] = fHeap[j] => i = j
  BY <1>1 DEF Membership
<1>3. ASSUME NEW i \in 1 .. N, NEW j \in 1 .. N, fHeap' = Swap(i, j),
             UNCHANGED <<inHeap, loop, inElem>>
      PROVE  Membership'
  <2>1. /\ DOMAIN fHeap' = 1 .. N
        /\ \A k \in 1 .. N : fHeap'[k] = IF k = j THEN fHeap[i]
                                         ELSE IF k = i THEN fHeap[j] ELSE fHeap[k]
    BY <1>1, <1>3, SwapProperties
  <2>2. \A k, l \in 1 .. N : fHeap'[k] = fHeap'[l] => k = l
    BY <1>2, <2>1
  <2>3. \A e \in Elems : (\E k \in 1 .. N : fHeap'[k] = e) <=> \E k \in 1 .. N : fHeap[k] = e
    BY <2>1
  <2> QED
    BY <1>1, <1>3, <2>1, <2>2, <2>3 DEF Membership
<1>4. ASSUME NEW e \in Elems, NEW v \in Values, Insert(e, v) PROVE Membership'
  <2>1. /\ DOMAIN fHeap' = 1 .. N + 1 /\ fHeap'[N + 1] = e
        /\ \A k \in 1 .. N : fHeap'[k] = fHeap[k]
        /\ inHeap' = inHeap /\ loop = "none" /\ loop' = "up" /\ inElem' = e
    BY <1>1, <1>4 DEF Insert, N
  <2>2. \A k \in 1 .. N : fHeap[k] # e
    BY <1>1, <1>4, <2>1 DEF Membership, Insert
  <2>3. \A k, l \in 1 .. N + 1 : fHeap'[k] = fHeap'[l] => k = l
    BY <1>1, <1>2, <2>1, <2>2
  <2>4. \A u \in Elems : (\E k \in 1 .. N + 1 : fHeap'[k] = u)
                            <=> (\E k \in 1 .. N : fHeap[k] = u) \/ u = e
    BY <1>1, <2>1
  <2> QED
    BY <1>1, <2>1, <2>3, <2>4 DEF Membership
<1>5. ASSUME NEW i \in 1 .. N, Extract(i) PROVE Membership'
  <2>1. /\ fHeap' = Filled(i) /\ inHeap' = [inHeap EXCEPT ![fHeap[i]] = FALSE]
        /\ loop = "none" /\ loop' = "down"
    BY <1>5 DEF Extract
  <2>2. /\ DOMAIN fHeap' = 1 .. N - 1
        /\ \A k \in 1 .. N - 1 : fHeap'[k] = IF k = i THEN fHeap[N] ELSE fHeap[k]
    BY <1>1, <2>1, FilledProperties
  <2>3. \A k, l \in 1 .. N - 1 : fHeap'[k] = fHeap'[l] => k = l
    BY <1>1, <1>2, <2>2
  <2>4. \A u \in Elems : (\E k \in 1 .. N - 1 : fHeap'[k] = u)
                            <=> (\E k \in 1 .. N : fHeap[k] = u) /\ u # fHeap[i]
    <3>1. ASSUME NEW u \in Elems, NEW k \in 1 .. N - 1, fHeap'[k] = u
          PROVE  (\E l \in 1 .. N : fHeap[l] = u) /\ u # fHeap[i]
      BY <1>1, <1>2, <2>2, <3>1
    <3>2. ASSUME NEW u \in Elems, NEW k \in 1 .. N, fHeap[k] = u, u # fHeap[i]
          PROVE  \E l \in 1 .. N - 1 : fHeap'[l] = u
      <4>1. CASE k = N
        BY <1>1, <2>2, <3>2, <4>1
      <4>2. CASE k # N
        BY <1>1, <2>2, <3>2, <4>2
      <4> QED
        BY <4>1, <4>2
    <3> QED
      BY <3>1, <3>2
  <2>5. \A u \in Elems : inHeap'[u] <=> inHeap[u] /\ u # fHeap[i]
    BY <1>1, <2>1 DEF TypeOK
  <2> QED
    BY <1>1, <2>1, <2>2, <2>3, <2>4, <2>5 DEF Membership
<1>6. CASE Rise
  <2>1. pos \in 2 .. N
    BY <1>1, <1>6 DEF Rise, MustRise, N, TypeOK
  <2>2. pos \div 2 \in 1 .. N
    BY <1>1, <2>1, Half
  <2> QED
    BY <1>1, <1>3, <1>6, <2>1, <2>2 DEF Rise
<1>7. CASE Sink
  <2>1. pos \in 1 .. N
    BY <1>7 DEF Sink, MustSink, fFreeIndex, N, TypeOK
  <2>2. Least(pos) \in 1 .. N
    BY <2>1, LeastProperties
  <2> QED
    BY <1>3, <1>7, <2>1, <2>2 DEF Sink
<1>8. CASE EndInsert
  <2>1. \A e \in Elems : inHeap'[e] <=> inHeap[e] \/ e = inElem
    BY <1>8 DEF EndInsert, TypeOK
  <2> QED
    BY <1>8, <2>1 DEF EndInsert, Membership
<1>9. CASE EndExtract \/ UNCHANGED vars
  BY <1>9 DEF EndExtract, vars, Membership
<1> QED
  BY <1>4, <1>5, <1>6, <1>7, <1>8, <1>9, ExtractCases DEF Next

(* As long as no leaf is misplaced each pass keeps the order.              *)
LEMMA LoopStep ==
    ASSUME TypeOK, Membership, LoopInv, ~ misplaced', [Next]_vars
    PROVE  LoopInv'
<1>1. N \in Nat /\ (\A k \in 1 .. N : fHeap[k] \in Elems) /\ fHeap \in Seq(Elems)
  BY DEF N, TypeOK
<1>2. \A k \in 1 .. N : ValueAt(k) \in Int
  BY <1>1, ValuesAssumption DEF ValueAt, TypeOK
<1>3. \A i \in 2 .. N : i \div 2 \in 1 .. N /\ i \div 2 < i
                        /\ (i = 2 * (i \div 2) \/ i = 2 * (i \div 2) + 1)
  BY <1>1, Half
<1>4. ASSUME NEW e \in Elems, NEW v \in Values, Insert(e, v) PROVE LoopInv'
  <2>1. N' = N + 1 /\ pos' = N + 1 /\ loop' = "up"
    BY <1>1, <1>4 DEF Insert, LastLeaf, fFreeIndex, N
  <2>2. \A k \in 1 .. N : fHeap[k] # e
    BY <1>1, <1>4 DEF Membership, Insert, N
  <2>3. \A k \in 1 .. N : ValueAt(k)' = ValueAt(k)
    <3>1. \A k \in 1 .. N : fHeap'[k] = fHeap[k]
      BY <1>1, <1>4 DEF Insert, N
    <3> QED
      BY <1>1, <1>4, <2>2, <3>1 DEF Insert, ValueAt, TypeOK
  <2>4. \A i \in 2 .. N : Ordered(i)'
    BY <1>3, <1>4, <2>3 DEF LoopInv, Insert, Ordered
  <2>5. \A i \in 2 .. N + 1 : i \div 2 # N + 1
    BY <1>1, Half
  <2> QED
    BY <1>1, <2>1, <2>4, <2>5 DEF LoopInv, BelowAbove
<1>5. CASE ExtractMin
  <2>1. 1 \in 1 .. N /\ loop = "none"
    BY <1>1, <1>5 DEF ExtractMin, Extract, fFreeIndex, N
  <2>2. /\ N' = N - 1 /\ pos' = 1 /\ loop' = "down" /\ fValue' = fValue
        /\ \A k \in 1 .. N - 1 : k # 1 => fHeap'[k] = fHeap[k]
    BY <1>1, <1>5, <2>1, FilledProperties DEF ExtractMin, Extract, N
  <2>3. \A k \in 2 .. N - 1 : ValueAt(k)' = ValueAt(k)
    BY <1>1, <2>2 DEF ValueAt
  <2>4. \A i \in 2 .. N - 1 : i \div 2 # 1 => Ordered(i)'
    <3>1. ASSUME NEW i \in 2 .. N - 1, i \div 2 # 1 PROVE Ordered(i)'
      <4>1. i \in 2 .. N /\ i \div 2 \in 2 .. N - 1
        BY <1>1, <1>3, <3>1
      <4> QED
        BY <2>1, <2>3, <4>1 DEF LoopInv, Ordered
    <3> QED
      BY <3>1
  <2> QED
    BY <2>2, <2>4 DEF LoopInv, BelowAbove
<1>6. CASE Rise
  <2>1. PICK p \in 2 .. N : p = pos
    BY <1>1, <1>6 DEF Rise, MustRise, N, TypeOK
  <2>2. PICK up \in 1 .. N : up = p \div 2 /\ up < p
    BY <1>1, <1>3
  <2>3. /\ ValueAt(p) < ValueAt(up) /\ loop = "up" /\ loop' = "up" /\ pos' = up
        /\ ValueAt(p) \in Int /\ ValueAt(up) \in Int
    BY <1>1, <1>2, <1>6, <2>1, <2>2 DEF Rise, MustRise
  <2>4. N' = N /\ \A k \in 1 .. N : ValueAt(k)' = IF k = up THEN ValueAt(p)
                                    ELSE IF k = p THEN ValueAt(up) ELSE ValueAt(k)
    BY <1>1, <1>6, <2>1, <2>2, SwapProperties DEF Rise, ValueAt, N
  <2>5. \A i \in 2 .. N : i # p => ValueAt(i \div 2) <= ValueAt(i)
    BY <2>1, <2>3 DEF LoopInv, Ordered
  <2>6. \A i \in 2 .. N : i \div 2 = p => ValueAt(up) <= ValueAt(i)
    BY <2>1, <2>2, <2>3 DEF LoopInv, BelowAbove
  <2>7. ASSUME NEW i \in 2 .. N, i # up PROVE ValueAt(i \div 2)' <= ValueAt(i)'
    <3>1. /\ i \div 2 \in 1 .. N /\ i \div 2 # i /\ i \in 1 .. N
          /\ ValueAt(i) \in Int /\ ValueAt(i \div 2) \in Int
      BY <1>1, <1>2, <1>3
    <3>2. CASE i = p
      <4>1. ValueAt(i)' = ValueAt(up) /\ ValueAt(i \div 2)' = ValueAt(p)
        BY <2>2, <2>4, <2>7, <3>1, <3>2
      <4> QED
        BY <2>3, <4>1
    <3>3. CASE i # p
      <4>1. ValueAt(i)' = ValueAt(i)
        BY <2>4, <2>7, <3>1, <3>3
      <4>2. CASE i \div 2 = p
        <5>1. ValueAt(i \div 2)' = ValueAt(up)
          BY <2>2, <2>4, <3>1, <4>2
        <5> QED
          BY <2>6, <4>1, <4>2, <5>1
      <4>3. CASE i \div 2 = up
        <5>1. ValueAt(i \div 2)' = ValueAt(p) /\ ValueAt(up) <= ValueAt(i)
          BY <2>4, <2>5, <3>1, <3>3, <4>3
        <5> QED
          BY <2>3, <3>1, <4>1, <5>1
      <4>4. CASE i \div 2 # p /\ i \div 2 # up
        <5>1. ValueAt(i \div 2)' = ValueAt(i \div 2)
          BY <2>4, <3>1, <4>4
        <5> QED
          BY <2>5, <3>3, <4>1, <5>1
      <4> QED
        BY <4>2, <4>3, <4>4
    <3> QED
      BY <3>2, <3>3
  <2>8. ASSUME up > 1, NEW i \in 2 .. N, i \div 2 = up
        PROVE  ValueAt(up \div 2)' <= ValueAt(i)'
    <3>1. up \in 2 .. N /\ up \div 2 \in 1 .. N /\ up \div 2 < up
      BY <1>1, <1>3, <2>8
    <3>2. ValueAt(up \div 2) <= ValueAt(up) /\ ValueAt(up \div 2)' = ValueAt(up \div 2)
      BY <2>2, <2>4, <2>5, <3>1
    <3>3. CASE i = p
      <4>1. ValueAt(i)' = ValueAt(up)
        BY <2>2, <2>4, <3>3
      <4> QED
        BY <3>2, <4>1
    <3>4. CASE i # p
      <4>1. ValueAt(up) <= ValueAt(i) /\ i # up /\ i \in 1 .. N
        BY <1>3, <2>5, <2>8, <3>4
      <4>2. ValueAt(i)' = ValueAt(i)
        BY <2>4, <3>4, <4>1
      <4>3. ValueAt(i) \in Int /\ ValueAt(up \div 2) \in Int
        BY <1>2, <3>1, <4>1
      <4> QED
        BY <2>3, <3>2, <4>1, <4>2, <4>3
    <3> QED
      BY <3>3, <3>4
  <2> QED
    BY <2>3, <2>4, <2>7, <2>8 DEF LoopInv, BelowAbove, Ordered
<1>7. CASE EndInsert
  <2>1. ASSUME NEW i \in 2 .. N PROVE Ordered(i)
    <3>1. CASE i = pos
      <4>1. ~ (ValueAt(i) < ValueAt(i \div 2))
        BY <1>1, <1>7, <3>1 DEF EndInsert, MustRise
      <4>2. i \in 1 .. N /\ i \div 2 \in 1 .. N
        BY <1>1, <1>3
      <4> QED
        BY <1>2, <4>1, <4>2 DEF Ordered
    <3> QED
      BY <1>7, <3>1 DEF EndInsert, LoopInv
  <2> QED
    BY <1>7, <2>1 DEF EndInsert, LoopInv, Ordered, ValueAt, N
<1>8. CASE Sink
  <2>1. PICK p \in 1 .. N : p = pos
    BY <1>8 DEF Sink, MustSink, fFreeIndex, N, TypeOK
  <2>2. PICK child \in 1 .. N : child = Least(p) /\ child # p
    BY <1>8, <2>1, LeastProperties DEF Sink, MustSink
  <2>3. /\ child \in 2 .. N /\ child \div 2 = p /\ p < child
        /\ ValueAt(child) <= ValueAt(p)
        /\ \A i \in 2 .. N : i \div 2 = p => ValueAt(child) <= ValueAt(i)
    <3>1. /\ child \in {2 * p, 2 * p + 1} /\ child \in 1 .. N
          /\ ValueAt(child) <= ValueAt(p)
      BY <2>2, LeastProperties
    <3>2. child \div 2 = p
      BY <3>1, HalfOfChild
    <3>3. ASSUME NEW i \in 2 .. N, i \div 2 = p PROVE ValueAt(child) <= ValueAt(i)
      <4>1. i = 2 * p \/ i = 2 * p + 1
        BY <1>3, <3>3
      <4>2. i \in 1 .. N
        BY <1>1
      <4> QED
        BY <2>2, <4>1, <4>2, LeastProperties
    <3> QED
      BY <1>1, <2>1, <3>1, <3>2, <3>3
  <2>4. loop = "down" /\ loop' = "down" /\ pos' = child
    BY <1>8, <2>1, <2>2 DEF Sink
  <2>5. N' = N /\ \A k \in 1 .. N : ValueAt(k)' = IF k = child THEN ValueAt(p)
                                    ELSE IF k = p THEN ValueAt(child) ELSE ValueAt(k)
    <3>1. fHeap' = Swap(p, child) /\ UNCHANGED fValue /\ child \in 1 .. N
      BY <1>8, <2>1, <2>2 DEF Sink
    <3>2. fHeap \in Seq(Elems)
      BY DEF TypeOK
    <3> QED
      BY <2>1, <3>1, <3>2, SwapProperties DEF ValueAt, N
  <2>6. \A i \in 2 .. N : i \div 2 # p => ValueAt(i \div 2) <= ValueAt(i)
    BY <2>1, <2>4 DEF LoopInv, Ordered
  <2>7. ASSUME NEW i \in 2 .. N, i \div 2 # child PROVE ValueAt(i \div 2)' <= ValueAt(i)'
    <3>1. i \div 2 \in 1 .. N /\ i \div 2 # i /\ i \in 1 .. N
      BY <1>1, <1>3
    <3>2. CASE i = child
      <4>1. ValueAt(i)' = ValueAt(p) /\ ValueAt(i \div 2)' = ValueAt(child)
        BY <2>3, <2>5, <3>1, <3>2
      <4> QED
        BY <2>3, <4>1
    <3>3. CASE i # child /\ i \div 2 = p
      <4>1. i # p
        BY <3>1, <3>3
      <4>2. ValueAt(i)' = ValueAt(i) /\ ValueAt(i \div 2)' = ValueAt(child)
        BY <2>5, <2>7, <3>1, <3>3, <4>1
      <4> QED
        BY <2>3, <3>3, <4>2
    <3>4. CASE i = p
      <4>1. ValueAt(i \div 2) <= ValueAt(child)
        BY <1>1, <2>1, <2>3, <2>4, <3>4 DEF LoopInv, BelowAbove
      <4>2. ValueAt(i)' = ValueAt(child) /\ ValueAt(i \div 2)' = ValueAt(i \div 2)
        BY <2>2, <2>5, <2>7, <3>1, <3>4
      <4> QED
        BY <4>1, <4>2
    <3>5. CASE i # child /\ i # p /\ i \div 2 # p
      <4>1. ValueAt(i)' = ValueAt(i) /\ ValueAt(i \div 2)' = ValueAt(i \div 2)
        BY <2>5, <2>7, <3>1, <3>5
      <4> QED
        BY <2>6, <3>5, <4>1
    <3> QED
      BY <3>2, <3>3, <3>4, <3>5
  <2>8. ASSUME NEW i \in 2 .. N, i \div 2 = child
        PROVE  ValueAt(child \div 2)' <= ValueAt(i)'
    <3>1. ValueAt(child) <= ValueAt(i) /\ i # child /\ i # p /\ i \in 1 .. N
      BY <1>3, <2>3, <2>6, <2>8
    <3>2. ValueAt(i)' = ValueAt(i) /\ ValueAt(child \div 2)' = ValueAt(child)
      BY <2>2, <2>3, <2>5, <3>1
    <3> QED
      BY <3>1, <3>2
  <2> QED
    BY <2>4, <2>5, <2>7, <2>8 DEF LoopInv, BelowAbove, Ordered
<1>9. CASE EndExtract
  <2>1. \A i \in 2 .. N : Ordered(i)
    <3>1. ASSUME NEW i \in 2 .. N, i \div 2 = pos PROVE Ordered(i)
      <4>1. pos \in 1 .. N /\ (i = 2 * pos \/ i = 2 * pos + 1) /\ i \in 1 .. N
        BY <1>1, <1>3, <3>1
      <4>2. Least(pos) = pos
        BY <1>9, <4>1 DEF EndExtract, MustSink, fFreeIndex, N
      <4>3. ValueAt(pos) <= ValueAt(i)
        BY <4>1, <4>2, LeastProperties
      <4> QED
        BY <3>1, <4>3 DEF Ordered
    <3> QED
      BY <1>9, <3>1 DEF EndExtract, LoopInv
  <2> QED
    BY <1>9, <2>1 DEF EndExtract, LoopInv, Ordered, ValueAt, N
<1>10. CASE UNCHANGED vars
  BY <1>10 DEF vars, LoopInv, BelowAbove, Ordered, ValueAt, N
<1>11. ASSUME NEW e \in Elems, Remove(e) PROVE LoopInv'
  <2>1. PICK i \in 1 .. N : Extract(i)
    BY <1>11, ExtractCases
  <2>2. i < N => i = 1 \/ ValueAt(i \div 2) <= ValueAt(N)
    <3>1. ~ Misplaces(i)
      BY <2>1 DEF Extract
    <3>2. i < N /\ i # 1 => i \in 2 .. N /\ N \in 1 .. N
      BY <1>1
    <3>3. i < N /\ i # 1 => i \div 2 \in 1 .. N
      BY <1>3, <3>2
    <3> QED
      BY <1>2, <3>1, <3>2, <3>3 DEF Misplaces, N
  <2>3. /\ N' = N - 1 /\ pos' = i /\ loop = "none" /\ loop' = "down" /\ fValue' = fValue
        /\ \A k \in 1 .. N - 1 : fHeap'[k] = IF k = i THEN fHeap[N] ELSE fHeap[k]
    BY <1>1, <2>1, FilledProperties DEF Extract, N
  <2>4. \A k \in 1 .. N - 1 : ValueAt(k)' = IF k = i THEN ValueAt(N) ELSE ValueAt(k)
    BY <2>3 DEF ValueAt
  <2>5. \A k \in 2 .. N : ValueAt(k \div 2) <= ValueAt(k)
    BY <2>3 DEF LoopInv, Ordered
  <2>6. \A k \in 2 .. N - 1 : k \in 2 .. N /\ k \in 1 .. N - 1 /\ k \div 2 \in 1 .. N - 1
    <3>1. ASSUME NEW k \in 2 .. N - 1
          PROVE  k \in 2 .. N /\ k \in 1 .. N - 1 /\ k \div 2 \in 1 .. N - 1
      <4>1. k \in 2 .. N
        BY <1>1
      <4>2. k \div 2 \in 1 .. N /\ k \div 2 < k
        BY <1>3, <4>1
      <4> QED
        BY <1>1, <4>1, <4>2
    <3> QED
      BY <3>1
  <2>7. ASSUME NEW k \in 2 .. N - 1, k \div 2 # i PROVE ValueAt(k \div 2)' <= ValueAt(k)'
    <3>1. ValueAt(k \div 2)' = ValueAt(k \div 2)
      BY <2>4, <2>6, <2>7
    <3>2. CASE k = i
      <4>1. ValueAt(k)' = ValueAt(N) /\ i < N /\ i # 1
        BY <1>1, <2>4, <2>6, <3>2
      <4> QED
        BY <2>2, <3>1, <3>2, <4>1
    <3>3. CASE k # i
      BY <2>4, <2>5, <2>6, <3>1, <3>3
    <3> QED
      BY <3>2, <3>3
  <2>8. ASSUME i > 1, NEW k \in 2 .. N - 1, k \div 2 = i
        PROVE  ValueAt(i \div 2)' <= ValueAt(k)'
    <3>1. i \in 2 .. N - 1 /\ k # i /\ k \in 1 .. N /\ i \in 2 .. N /\ i \in 1 .. N
      BY <1>1, <1>3, <2>6, <2>8
    <3>2. i \div 2 \in 1 .. N - 1 /\ i \div 2 # i /\ i \div 2 \in 1 .. N
      BY <1>3, <2>6, <3>1
    <3>3. ValueAt(i \div 2)' = ValueAt(i \div 2) /\ ValueAt(k)' = ValueAt(k)
      BY <2>4, <2>6, <3>1, <3>2
    <3>4. ValueAt(i \div 2) <= ValueAt(i) /\ ValueAt(i) <= ValueAt(k)
      BY <2>5, <2>6, <2>8, <3>1
    <3>5. ValueAt(i \div 2) \in Int /\ ValueAt(i) \in Int /\ ValueAt(k) \in Int
      BY <1>2, <3>1, <3>2
    <3> QED
      BY <3>3, <3>4, <3>5
  <2> QED
    BY <2>3, <2>7, <2>8 DEF LoopInv, BelowAbove, Ordered
<1> QED
  BY <1>4, <1>5, <1>6, <1>7, <1>8, <1>9, <1>10, <1>11 DEF Next


(* What has been misplaced stays so.                                       *)
LEMMA HeapStep == TypeOK /\ Membership /\ OrderInv /\ [Next]_vars => OrderInv'
<1>1. misplaced /\ TypeOK /\ [Next]_vars => misplaced'
  BY ExtractCases DEF Next, vars, Insert, Rise, Sink, EndInsert, EndExtract, Extract
<1> QED
  BY <1>1, LoopStep DEF OrderInv, TypeOK

(* A leaf of another branch than the hole, in an array in order: the hole  *)
(* is not the root and not above the leaf, so there are six at least.      *)
LEMMA MisplacedStep ==
    ASSUME TypeOK, OrderInv, [Next]_vars, ~ misplaced, misplaced'
    PROVE  Len(fHeap) >= 6
<1>1. N \in Nat /\ \A k \in 1 .. N : ValueAt(k) \in Int
  <2>1. N \in Nat /\ \A k \in 1 .. N : fHeap[k] \in Elems
    BY DEF N, TypeOK
  <2> QED
    BY <2>1, ValuesAssumption DEF ValueAt, TypeOK
<1>2. PICK i \in 1 .. N : Extract(i)
  BY ExtractCases DEF Next, vars, Insert, Rise, Sink, EndInsert, EndExtract
<1>3. 1 < i /\ i < N /\ ValueAt(N) < ValueAt(i \div 2)
  BY <1>2 DEF Extract, Misplaces, N
<1>4. \A k \in 2 .. N : ValueAt(k \div 2) <= ValueAt(k)
  BY <1>2 DEF Extract, OrderInv, LoopInv, Ordered
<1>5. SUFFICES ASSUME N \in 3 .. 5 PROVE FALSE
  <2>1. i \in Nat /\ N >= 3 /\ Len(fHeap) = N
    BY <1>1, <1>3 DEF N
  <2>2. N \in 3 .. 5 \/ N >= 6
    BY <1>1, <2>1
  <2> QED
    BY <2>1, <2>2
<1>6. 1 \in 1 .. N /\ 2 \in 1 .. N /\ N \in 1 .. N /\ 2 \in 2 .. N /\ N \in 2 .. N
  BY <1>5
<1>7. i \in {2, 3, 4} /\ N \in {3, 4, 5} /\ (i \in {2, 3} => i \div 2 = 1) /\ (i = 4 => i \div 2 = 2 /\ N = 5)
  BY <1>3, <1>5
<1>8. N \div 2 = IF N = 3 THEN 1 ELSE 2
  BY <1>5
<1>9. ValueAt(1) <= ValueAt(2) /\ ValueAt(N \div 2) <= ValueAt(N)
  <2>1. 2 \div 2 = 1
    OBVIOUS
  <2> QED
    BY <1>4, <1>6, <2>1
<1>10. ValueAt(1) \in Int /\ ValueAt(2) \in Int /\ ValueAt(N) \in Int
  BY <1>1, <1>6
<1>11. ValueAt(1) <= ValueAt(N) /\ (N = 5 => ValueAt(2) <= ValueAt(N))
  BY <1>5, <1>8, <1>9, <1>10
<1>12. CASE i \in {2, 3}
  BY <1>3, <1>7, <1>10, <1>11, <1>12
<1>13. CASE i = 4
  BY <1>3, <1>7, <1>10, <1>11, <1>13
<1> QED
  BY <1>7, <1>12, <1>13

-----------------------------------------------------------------------------

(* No loop of Insert or Extract leaves the array.                          *)
THEOREM HeapTypeCorrect == Spec => []TypeOK
  BY HeapInit, HeapType, PTL DEF Spec

(* An element is in the array once, exactly while it is marked a member.   *)
THEOREM HeapMembers == Spec => []Membership
<1>1. Init => Membership
  BY DEF Init, Membership
<1> QED
  BY <1>1, HeapInit, HeapType, HeapMembership, PTL DEF Spec

(* After each operation no element is smaller than its parent, until a     *)
(* Remove puts the last leaf below a greater element.                      *)
THEOREM HeapOrdered == Spec => []OrderedUntilMisplaced
<1>1. Init => Membership
  BY DEF Init, Membership
<1>2. OrderInv => OrderedUntilMisplaced
  BY DEF OrderInv, LoopInv, OrderedUntilMisplaced, InOrder, N
<1> QED
  BY <1>1, <1>2, HeapStep, HeapInit, HeapType, HeapMembership, PTL DEF Spec

(* The first Remove that does so finds six elements or more: with five     *)
(* timers or fewer the order is never lost.                                *)
THEOREM HeapOfFiveInOrder == Spec => MisplacedBySix
<1>1. Init => Membership
  BY DEF Init, Membership
<1>2. TypeOK /\ OrderInv /\ [Next]_vars => [~ misplaced /\ misplaced' => Len(fHeap) >= 6]_vars
  BY MisplacedStep
<1> QED
  BY <1>1, <1>2, HeapStep, HeapInit, HeapType, HeapMembership, PTL DEF Spec, MisplacedBySix
-----------------------------------------------------------------------------
(* The heap implements PriorityQueue                                       *)

(* The least-number principle, in the form the proof of RootIsLeast uses.  *)
LEMMA SmallestOf ==
    ASSUME NEW S \in SUBSET Nat, S # {}
    PROVE  \E m \in S : \A n \in S : m <= n
<1> DEFINE R == {ss \in Nat \X Nat : ss[1] < ss[2]}
<1>1. IsWellFoundedOn(R, Nat)
  BY NatLessThanWellFounded DEF OpToRel
<1>2. PICK m \in S : \A n \in S : ~ (<<n, m>> \in R)
  <2> HIDE DEF R
  <2> QED
    BY <1>1, WFMin
<1>3. \A n \in S : ~ (n < m)
  BY <1>2
<1> QED
  BY <1>3

(* If some element were less than the root, the first of them would be     *)
(* less than its parent, which comes before it.                            *)
LEMMA RootIsLeast ==
    ASSUME TypeOK, \A i \in 2 .. N : Ordered(i), NEW i \in 1 .. N
    PROVE  ValueAt(1) <= ValueAt(i)
<1>1. N \in Nat /\ \A k \in 1 .. N : ValueAt(k) \in Int
  <2>1. N \in Nat /\ \A k \in 1 .. N : fHeap[k] \in Elems
    BY DEF N, TypeOK
  <2>2. \A e \in Elems : fValue[e] \in Int
    BY ValuesAssumption DEF TypeOK
  <2> QED
    BY <2>1, <2>2 DEF ValueAt
<1> DEFINE Less == {k \in 1 .. N : ValueAt(k) < ValueAt(1)}
<1>2. SUFFICES ASSUME Less # {} PROVE FALSE
  BY <1>1
<1>3. PICK m \in Less : \A k \in Less : m <= k
  <2>1. Less \in SUBSET Nat
    OBVIOUS
  <2> HIDE DEF Less
  <2> QED
    BY <1>2, <2>1, SmallestOf
<1>4. m \in 2 .. N /\ m \div 2 \in 1 .. N /\ m \div 2 < m
  <2>1. m \in 2 .. N
    BY <1>1
  <2> QED
    BY <1>1, <2>1, Half
<1>5. ValueAt(m \div 2) <= ValueAt(m)
  BY <1>4 DEF Ordered
<1>6. m \div 2 \in Less
  BY <1>1, <1>4, <1>5
<1> QED
  BY <1>3, <1>4, <1>6

Members == {e \in Elems : inHeap[e] \/ (loop = "up" /\ e = inElem)}

LEMMA QueueIsMembers ==
    /\ Membership => queue = Members
    /\ Membership' => queue' = Members'
  BY DEF Membership, queue, Members

LEMMA ExtractedLeaves ==
    ASSUME TypeOK, Membership, Membership', NEW i \in 1 .. N, Extract(i)
    PROVE  fHeap[i] \in queue /\ queue' = queue \ {fHeap[i]} /\ fHeap[i] \in Elems
<1>1. fHeap[i] \in Elems /\ DOMAIN fHeap = 1 .. N
  BY DEF TypeOK, N
<1>2. loop = "none" /\ loop' = "down" /\ inHeap' = [inHeap EXCEPT ![fHeap[i]] = FALSE]
  BY DEF Extract
<1>3. \A e \in Elems : inHeap'[e] <=> inHeap[e] /\ e # fHeap[i]
  BY <1>1, <1>2 DEF TypeOK
<1>4. queue = Members /\ queue' = Members'
  BY QueueIsMembers
<1> QED
  BY <1>1, <1>2, <1>3, <1>4 DEF Members, queue

LEMMA QueueStep ==
    ASSUME TypeOK, Membership, Membership', OrderInv, [Next]_vars
    PROVE  [QueueSpec!Next]_<<queue, fValue, least, ~ misplaced>>
<1>0. /\ N \in Nat /\ DOMAIN fHeap = 1 .. N /\ \A k \in 1 .. N : fHeap[k] \in Elems
      /\ queue = Members /\ queue' = Members'
  BY QueueIsMembers DEF N, TypeOK
<1>1. ASSUME NEW e \in Elems, NEW v \in Values, Insert(e, v) PROVE QueueSpec!Next
  <2>1. queue' = queue \cup {e} /\ e \notin queue
    BY <1>0, <1>1 DEF Insert, Members
  <2> QED
    BY <1>1, <2>1 DEF Insert, QueueSpec!Next, QueueSpec!Insert
<1>2. CASE ExtractMin
  <2>1. /\ 1 \in 1 .. N /\ Extract(1) /\ least' = fHeap[1] /\ UNCHANGED fValue
        /\ loop = "none" /\ UNCHANGED misplaced
    BY <1>0, <1>2 DEF ExtractMin, Extract, Misplaces, N, fFreeIndex, TypeOK
  <2>2. fHeap[1] \in queue /\ queue' = queue \ {fHeap[1]} /\ fHeap[1] \in Elems
    BY <2>1, ExtractedLeaves
  <2>3. ~ misplaced => \A i \in 1 .. N : fValue[fHeap[1]] <= fValue[fHeap[i]]
    BY <2>1, RootIsLeast DEF OrderInv, LoopInv, ValueAt
  <2>4. ~ misplaced => \A u \in queue : fValue[fHeap[1]] <= fValue[u]
    BY <1>0, <2>3 DEF queue
  <2> QED
    BY <2>1, <2>2, <2>4 DEF QueueSpec!Next, QueueSpec!ExtractMin, QueueSpec!IsLeast
<1>3. ASSUME NEW e \in Elems, Remove(e) PROVE QueueSpec!Next
  <2>1. PICK i \in 1 .. N : fHeap[i] = e /\ Extract(i)
    BY <1>0, <1>3 DEF Remove
  <2>2. e \in queue /\ queue' = queue \ {e}
    BY <2>1, ExtractedLeaves
  <2>3. UNCHANGED <<fValue, least>> /\ (~ misplaced)' \in {~ misplaced, FALSE}
    BY <1>3, <2>1 DEF Remove, Extract, TypeOK
  <2> QED
    BY <2>2, <2>3 DEF QueueSpec!Next, QueueSpec!Remove
<1>4. CASE Rise \/ Sink
  BY <1>0, <1>4 DEF Rise, Sink, Members
<1>5. CASE EndInsert
  <2>1. \A e \in Elems : inHeap'[e] <=> inHeap[e] \/ e = inElem
    BY <1>5 DEF EndInsert, TypeOK
  <2> QED
    BY <1>0, <1>5, <2>1 DEF EndInsert, Members
<1>6. CASE EndExtract
  <2>1. UNCHANGED <<queue, fValue, misplaced>> /\ least' = NoElem
    BY <1>0, <1>6 DEF EndExtract, Members
  <2> QED
    BY <2>1 DEF QueueSpec!Next, QueueSpec!Return
<1>7. CASE UNCHANGED vars
  BY <1>7 DEF vars, queue
<1> QED
  BY <1>1, <1>2, <1>3, <1>4, <1>5, <1>6, <1>7 DEF Next

(* The heap is a priority queue: ExtractMin takes out a least element as   *)
(* long as no leaf has been misplaced, and a member in any case; Remove    *)
(* takes out the one it is given; the loops in between change nothing.     *)
THEOREM HeapImplementsQueue == Spec => ImplementsPriorityQueue
<1>1. Init => Membership /\ QueueSpec!Init
  BY DEF Init, Membership, queue, QueueSpec!Init
<1>2. TypeOK /\ Membership /\ OrderInv /\ [Next]_vars =>
         OrderInv' /\ [QueueSpec!Next]_<<queue, fValue, least, ~ misplaced>>
  BY HeapStep, HeapMembership, QueueStep
<1> QED
  BY <1>1, <1>2, HeapInit, HeapType, HeapMembership, PTL
     DEF Spec, ImplementsPriorityQueue, QueueSpec!Spec
-----------------------------------------------------------------------------
(* The heap in use: IdleTask                                               *)

ThreadSteps == {"top", "waitEmpty", "relock", "relockTop", "drain", "extracting", "asleep", "exited"}
CallSteps == {"none", "lock", "insert", "signal", "remove"}

(* What SetIdleTimer sets and time counts down stays a time.               *)
TimesOK == fValue \in [Elems -> Times]

IdleTypes ==
    /\ holder \in Elems \cup {NoElem, IdleThread}
    /\ fHeapCond \in BOOLEAN /\ fStopRequested \in BOOLEAN
    /\ pc \in ThreadSteps
    /\ msec \in -(MaxLate + MaxTimeout) .. MaxTimeout
    /\ waitLeft \in 0 .. MaxTimeout + MaxLate
    /\ call \in [Elems -> CallSteps]
    /\ alive \in [Elems -> BOOLEAN] /\ idled \in [Elems -> BOOLEAN]
    /\ pc \in {"drain", "extracting"} => msec \in - MaxLate .. 0

(* Who holds fHeapMutex, and what is left to do while it is held.          *)
Mutex ==
    /\ holder = IdleThread <=> pc \in {"top", "drain", "extracting"}
    /\ \A t \in Elems : holder = t <=> call[t] \in {"insert", "remove"}
    /\ loop = "up" => call[inElem] = "insert"
    /\ loop = "down" => pc = "extracting" \/ \E t \in Elems : call[t] = "remove"
    /\ least # NoElem <=> pc = "extracting"

(* A task that is being deleted, or is, is in no heap.                     *)
Removed ==
    \A t \in Elems :
        /\ call[t] = "remove" => ~ inHeap[t]
        /\ ~ alive[t] => call[t] = "none" /\ ~ inHeap[t] /\ t # least

(* The loops run under the mutex, so whoever takes it finds none.          *)
LEMMA NoLoop ==
    ASSUME TypeOK, IdleTypes, Mutex,
           holder = NoElem \/ (holder = IdleThread /\ pc # "extracting")
    PROVE  loop = "none"
<1>1. loop # "up"
  BY NoElemAssumption, ThreadAssumption DEF TypeOK, IdleTypes, Mutex
<1>2. loop # "down"
  BY NoElemAssumption, ThreadAssumption DEF TypeOK, IdleTypes, Mutex
<1> QED
  BY <1>1, <1>2 DEF TypeOK

-----------------------------------------------------------------------------
(* What a step of IdleTask does to the heap                                *)

SameArray == UNCHANGED <<fHeap, inHeap, loop, pos, inElem, least, misplaced>>

(* The steps that set a time: of a timer that is in no heap, or all of     *)
(* them as time passes.                                                    *)
SetsTime ==
    /\ SameArray
    /\ \E t \in Elems, n \in 1 .. MaxTimeout :
          /\ ~ inHeap[t] /\ call[t] = "none"
          /\ fValue' = [fValue EXCEPT ![t] = n]

TimePasses ==
    /\ SameArray
    /\ \A t \in Counting : fValue[t] > - MaxLate
    /\ fValue' = [t \in Elems |-> IF t \in Counting THEN fValue[t] - 1 ELSE fValue[t]]

LEMMA IdleHeapStep ==
    ASSUME TypeOK, Mutex, IdleTypes, [IdleNext]_idleVars
    PROVE  ([Next]_vars /\ UNCHANGED fValue) \/ SetsTime \/ TimePasses
<1> USE DEF idleVars, vars, syncVars, threadVars, taskVars, SameArray
<1>1. CASE ThreadStep
  <2>1. CASE Drain
    BY <2>1 DEF Drain, Next, ExtractMin, Extract
  <2>2. CASE SignalIdle
    BY <2>2 DEF SignalIdle, Next, EndExtract
  <2> QED
    BY <1>1, <2>1, <2>2 DEF ThreadStep, LoopTop, WakeEmpty, Relock, Sleep, Wake
<1>2. CASE HeapLoop
  BY <1>2 DEF HeapLoop, Next, Rise, Sink
<1>3. CASE Tick
  BY <1>3 DEF Tick, Counting, TimePasses
<1>4. CASE SignalIdleThreadExit
  BY <1>4 DEF SignalIdleThreadExit
<1>5. ASSUME NEW t \in Elems, NEW n \in 1 .. MaxTimeout, SetIdleTimer(t, n)
      PROVE  SetsTime
  BY <1>5 DEF SetIdleTimer, SetsTime
<1>6. ASSUME NEW t \in Elems, CallStep(t) PROVE [Next]_vars /\ UNCHANGED fValue
  <2>1. CASE InsertTimer(t)
    <3>1. fValue[t] \in Values /\ [fValue EXCEPT ![t] = fValue[t]] = fValue
      BY DEF TypeOK
    <3>2. Insert(t, fValue[t])
      BY <2>1 DEF InsertTimer
    <3>3. Next
      BY <3>1, <3>2 DEF Next
    <3> QED
      BY <3>1, <3>2, <3>3 DEF Insert
  <2>2. CASE TimerInserted(t) \/ Deleted(t)
    BY <2>2 DEF TimerInserted, Deleted, Next, EndInsert, EndExtract
  <2> QED
    BY <1>6, <2>1, <2>2 DEF CallStep, SignalHeapCond
<1>7. ASSUME NEW t \in Elems, Delete(t) PROVE [Next]_vars /\ UNCHANGED fValue
  <2>1. CASE inHeap[t]
    BY <1>7, <2>1 DEF Delete, Next, Remove, Extract
  <2> QED
    BY <1>7, <2>1 DEF Delete
<1>8. ASSUME NEW t \in Elems, Create(t) PROVE [Next]_vars /\ UNCHANGED fValue
  BY <1>8 DEF Create
<1> QED
  BY <1>1, <1>2, <1>3, <1>4, <1>5, <1>6, <1>7, <1>8 DEF IdleNext

(* No element of the array is free to be set, and all of them count.       *)
LEMMA ArrayCounts ==
    ASSUME TypeOK, Membership, Mutex, NEW k \in 1 .. N
    PROVE  /\ fHeap[k] \in Counting
           /\ inHeap[fHeap[k]] \/ call[fHeap[k]] = "insert"
<1>1. fHeap[k] \in Elems /\ k \in DOMAIN fHeap
  BY DEF TypeOK, N
<1>2. inHeap[fHeap[k]] \/ (loop = "up" /\ fHeap[k] = inElem)
  BY <1>1 DEF Membership
<1> QED
  BY <1>1, <1>2 DEF Mutex, Counting

LEMMA SetTimeOrder ==
    ASSUME TypeOK, TimesOK, Membership, Mutex, SetsTime \/ TimePasses
    PROVE  TypeOK' /\ TimesOK' /\ Membership' /\ (OrderInv => OrderInv')
<1>1. N \in Nat /\ N' = N /\ fHeap' = fHeap
      /\ \A k \in 1 .. N : fHeap[k] \in Elems /\ ValueAt(k) \in Int
  <2>1. N \in Nat /\ \A k \in 1 .. N : fHeap[k] \in Elems
    BY DEF N, TypeOK
  <2>2. \A e \in Elems : fValue[e] \in Int
    BY ValuesAssumption DEF TypeOK
  <2>3. N' = N /\ fHeap' = fHeap
    BY DEF SetsTime, TimePasses, SameArray, N
  <2> QED
    BY <2>1, <2>2, <2>3 DEF ValueAt
<1>2. fValue' \in [Elems -> Times]
  <2>1. CASE SetsTime
    BY <2>1, TimesAssumption DEF SetsTime, TimesOK, Times
  <2>2. CASE TimePasses
    <3>1. \A t \in Counting : fValue[t] - 1 \in Times
      BY <2>2, TimesAssumption DEF TimePasses, TimesOK, Counting, Times
    <3> QED
      BY <2>2, <3>1 DEF TimePasses, TimesOK
  <2> QED
    BY <2>1, <2>2
<1>3. TypeOK' /\ TimesOK'
  BY <1>2, HeapAssumption DEF SetsTime, TimePasses, SameArray, TypeOK, TimesOK
<1>4. Membership'
  BY DEF SetsTime, TimePasses, SameArray, Membership
<1>5. \E d \in {0, 1} : \A k \in 1 .. N : ValueAt(k)' = ValueAt(k) - d
  <2>1. CASE SetsTime
    <3>1. PICK t \in Elems, n \in 1 .. MaxTimeout :
             ~ inHeap[t] /\ call[t] = "none" /\ fValue' = [fValue EXCEPT ![t] = n]
      BY <2>1 DEF SetsTime
    <3>2. \A k \in 1 .. N : fHeap[k] # t
      BY <3>1, ArrayCounts
    <3>3. \A k \in 1 .. N : fValue'[fHeap[k]] = fValue[fHeap[k]]
      BY <1>1, <3>1, <3>2 DEF TypeOK
    <3> QED
      BY <1>1, <3>3 DEF ValueAt
  <2>2. CASE TimePasses
    <3>1. \A k \in 1 .. N : fValue'[fHeap[k]] = fValue[fHeap[k]] - 1
      BY <1>1, <2>2, ArrayCounts DEF TimePasses
    <3> QED
      BY <1>1, <3>1 DEF ValueAt
  <2> QED
    BY <2>1, <2>2
<1>6. LoopInv => LoopInv'
  <2>1. PICK d \in {0, 1} : \A k \in 1 .. N : ValueAt(k)' = ValueAt(k) - d
    BY <1>5
  <2>2. \A j, k \in 1 .. N : ValueAt(j) <= ValueAt(k) => ValueAt(j)' <= ValueAt(k)'
    BY <1>1, <2>1
  <2>3. \A i \in 2 .. N : i \in 1 .. N /\ i \div 2 \in 1 .. N
    BY <1>1, Half
  <2>4. \A i \in 2 .. N : Ordered(i) => Ordered(i)'
    BY <1>1, <2>2, <2>3 DEF Ordered
  <2>5. UNCHANGED <<loop, pos>>
    BY DEF SetsTime, TimePasses, SameArray
  <2>6. BelowAbove => BelowAbove'
    <3>1. SUFFICES ASSUME BelowAbove, pos > 1, NEW i \in 2 .. N, i \div 2 = pos
                   PROVE  ValueAt(pos \div 2)' <= ValueAt(i)'
      BY <1>1, <2>5 DEF BelowAbove
    <3>2. pos \in 2 .. N /\ ValueAt(pos \div 2) <= ValueAt(i)
      BY <1>1, <2>3, <3>1 DEF BelowAbove
    <3> QED
      BY <2>2, <2>3, <2>5, <3>2
  <2> QED
    BY <1>1, <2>4, <2>5, <2>6 DEF LoopInv
<1>7. OrderInv => OrderInv'
  BY <1>6 DEF OrderInv, SetsTime, TimePasses, SameArray
<1> QED
  BY <1>3, <1>4, <1>7

LEMMA IdleHeapInvariants ==
    ASSUME TypeOK, TimesOK, Membership, IdleTypes, Mutex, [IdleNext]_idleVars
    PROVE  TypeOK' /\ TimesOK' /\ Membership' /\ (OrderInv => OrderInv')
<1>1. UNCHANGED fValue => TimesOK'
  BY DEF TimesOK
<1> QED
  BY <1>1, IdleHeapStep, HeapType, HeapMembership, HeapStep, SetTimeOrder

-----------------------------------------------------------------------------
(* Types, the mutex, and deleted tasks                                     *)

LEMMA RootTime ==
    ASSUME TypeOK, TimesOK, fHeap # <<>>
    PROVE  ValueAt(1) \in -(MaxLate + MaxTimeout) .. MaxTimeout /\ 1 \in 1 .. N
<1>1. 1 \in 1 .. N /\ fHeap[1] \in Elems
  BY DEF TypeOK, N
<1> QED
  BY <1>1 DEF ValueAt, TimesOK, Times

LEMMA IdleTypesStep ==
    ASSUME TypeOK, TimesOK, IdleTypes, [IdleNext]_idleVars
    PROVE  IdleTypes'
<1> USE DEF idleVars, vars, syncVars, threadVars, taskVars, CallSteps
<1>1. CASE ThreadStep
  <2>1. CASE LoopTop
    BY <2>1, TimesAssumption DEF LoopTop, IdleTypes, ThreadSteps
  <2>2. CASE WakeEmpty
    BY <2>2 DEF WakeEmpty, IdleTypes, ThreadSteps
  <2>3. CASE Relock
    BY <2>3, TimesAssumption DEF Relock, IdleTypes, ThreadSteps
  <2>4. CASE Drain
    BY <2>4 DEF Drain, IdleTypes, ThreadSteps
  <2>5. CASE SignalIdle
    <3>1. idled' \in [Elems -> BOOLEAN]
      BY <2>5 DEF SignalIdle, IdleTypes
    <3> QED
      BY <2>5, <3>1 DEF SignalIdle, IdleTypes, ThreadSteps
  <2>6. CASE Sleep
    <3>1. waitLeft' \in 0 .. MaxTimeout + MaxLate
      <4>1. CASE fHeap = <<>>
        BY <2>6, <4>1 DEF Sleep, IdleTypes
      <4>2. CASE fHeap # <<>>
        <5>1. ValueAt(1) \in -(MaxLate + MaxTimeout) .. MaxTimeout
          BY <4>2, RootTime
        <5>2. ~ (ValueAt(1) <= msec) /\ msec \in - MaxLate .. 0
          BY <2>6, <4>2 DEF Sleep, HasDue, IdleTypes
        <5>3. waitLeft' = ValueAt(1) - msec
          BY <2>6, <4>2 DEF Sleep, SleepTime
        <5> QED
          BY <5>1, <5>2, <5>3, TimesAssumption
      <4> QED
        BY <4>1, <4>2
    <3> QED
      BY <2>6, <3>1 DEF Sleep, IdleTypes, ThreadSteps
  <2>7. CASE Wake
    <3>1. /\ pc' = "relockTop" /\ waitLeft' = 0 /\ fHeapCond' = FALSE
          /\ UNCHANGED <<holder, fStopRequested, msec, call, alive, idled>>
      BY <2>7 DEF Wake
    <3>2. waitLeft' \in 0 .. MaxTimeout + MaxLate
      BY <3>1, TimesAssumption
    <3> QED
      BY <3>1, <3>2 DEF IdleTypes, ThreadSteps
  <2> QED
    BY <1>1, <2>1, <2>2, <2>3, <2>4, <2>5, <2>6, <2>7 DEF ThreadStep
<1>2. CASE HeapLoop
  BY <1>2 DEF HeapLoop, IdleTypes
<1>3. CASE Tick
  <2>1. /\ pc \in {"drain", "extracting"} => msec > - MaxLate
        /\ msec' = IF pc \in {"drain", "extracting", "asleep"} /\ msec > -(MaxLate + MaxTimeout)
                   THEN msec - 1 ELSE msec
        /\ waitLeft' = IF waitLeft > 0 THEN waitLeft - 1 ELSE 0
        /\ UNCHANGED <<holder, fHeapCond, fStopRequested, pc, call, alive, idled>>
    BY <1>3 DEF Tick
  <2>2. waitLeft' \in 0 .. MaxTimeout + MaxLate
    BY <2>1, TimesAssumption DEF IdleTypes
  <2>3. /\ msec' \in -(MaxLate + MaxTimeout) .. MaxTimeout
        /\ pc \in {"drain", "extracting"} => msec' \in - MaxLate .. 0
    BY <2>1, TimesAssumption DEF IdleTypes
  <2> QED
    BY <2>1, <2>2, <2>3 DEF IdleTypes
<1>4. CASE SignalIdleThreadExit
  BY <1>4 DEF SignalIdleThreadExit, Signalled, IdleTypes
<1>5. ASSUME NEW t \in Elems, NEW n \in 1 .. MaxTimeout, SetIdleTimer(t, n)
      PROVE  IdleTypes'
  <2>1. idled' \in [Elems -> BOOLEAN]
    BY <1>5 DEF SetIdleTimer, IdleTypes
  <2> QED
    BY <1>5, <2>1 DEF SetIdleTimer, IdleTypes
<1>6. ASSUME NEW t \in Elems, CallStep(t) PROVE IdleTypes'
  <2>1. CASE InsertTimer(t)
    BY <2>1 DEF InsertTimer, IdleTypes
  <2>2. CASE TimerInserted(t)
    BY <2>2 DEF TimerInserted, IdleTypes
  <2>3. CASE SignalHeapCond(t)
    BY <2>3 DEF SignalHeapCond, Signalled, IdleTypes
  <2>4. CASE Deleted(t)
    <3>1. alive' \in [Elems -> BOOLEAN]
      BY <2>4 DEF Deleted, IdleTypes
    <3> QED
      BY <2>4, <3>1 DEF Deleted, IdleTypes
  <2> QED
    BY <1>6, <2>1, <2>2, <2>3, <2>4 DEF CallStep
<1>7. ASSUME NEW t \in Elems, Delete(t) PROVE IdleTypes'
  <2>1. CASE inHeap[t]
    BY <1>7, <2>1 DEF Delete, IdleTypes
  <2>2. CASE ~ inHeap[t]
    <3>1. alive' \in [Elems -> BOOLEAN]
      BY <1>7, <2>2 DEF Delete, IdleTypes
    <3> QED
      BY <1>7, <2>2, <3>1 DEF Delete, IdleTypes
  <2> QED
    BY <2>1, <2>2
<1>8. ASSUME NEW t \in Elems, Create(t) PROVE IdleTypes'
  <2>1. alive' \in [Elems -> BOOLEAN] /\ idled' \in [Elems -> BOOLEAN]
    BY <1>8 DEF Create, IdleTypes
  <2> QED
    BY <1>8, <2>1 DEF Create, IdleTypes
<1>9. CASE UNCHANGED idleVars
  BY <1>9 DEF IdleTypes
<1> QED
  BY <1>1, <1>2, <1>3, <1>4, <1>5, <1>6, <1>7, <1>8, <1>9 DEF IdleNext

(* The steps that leave the mutex and the calls alone.                     *)
LEMMA MutexKept ==
    ASSUME Mutex, UNCHANGED <<holder, loop, inElem, least, call>>,
           pc' = pc \/ (pc \notin {"top", "drain", "extracting"}
                        /\ pc' \notin {"top", "drain", "extracting"})
                    \/ {pc, pc'} \subseteq {"top", "drain"}
    PROVE  Mutex'
  BY DEF Mutex

LEMMA MutexStep ==
    ASSUME TypeOK, IdleTypes, Mutex, [IdleNext]_idleVars
    PROVE  Mutex'
<1> USE DEF idleVars, vars, syncVars, threadVars, taskVars
<1>0. NoElem \notin Elems /\ IdleThread \notin Elems /\ IdleThread # NoElem
  BY NoElemAssumption, ThreadAssumption
<1>1. CASE ThreadStep
  <2>1. CASE LoopTop
    <3>1. pc = "top" /\ holder = IdleThread /\ loop = "none" /\ least = NoElem
      BY <2>1, NoLoop DEF LoopTop, Mutex
    <3>2. \/ pc' \in {"exited", "waitEmpty"} /\ holder' = NoElem
          \/ pc' = "drain" /\ holder' = IdleThread
      BY <2>1, <3>1 DEF LoopTop
    <3>3. UNCHANGED <<loop, inElem, least, call>>
      BY <2>1 DEF LoopTop
    <3> QED
      BY <1>0, <3>1, <3>2, <3>3 DEF Mutex
  <2>2. CASE WakeEmpty
    BY <2>2, MutexKept DEF WakeEmpty
  <2>3. CASE Relock
    <3>1. loop = "none" /\ holder = NoElem /\ holder' = IdleThread /\ pc \in {"relock", "relockTop"}
          /\ pc' \in {"top", "drain"} /\ UNCHANGED <<loop, inElem, least, call>>
      BY <2>3, NoLoop DEF Relock
    <3> QED
      BY <1>0, <3>1 DEF Mutex
  <2>4. CASE Drain
    <3>1. /\ pc = "drain" /\ pc' = "extracting" /\ loop' = "down" /\ UNCHANGED <<holder, call>>
          /\ least' = fHeap[1] /\ fHeap # <<>>
      BY <2>4 DEF Drain, ExtractMin, Extract
    <3>2. least' # NoElem
      BY <1>0, <3>1 DEF TypeOK
    <3> QED
      BY <3>1, <3>2 DEF Mutex
  <2>5. CASE SignalIdle
    <3>1. /\ pc = "extracting" /\ pc' = "drain" /\ loop' = "none" /\ UNCHANGED <<holder, call>>
          /\ least' = NoElem
      BY <2>5 DEF SignalIdle, EndExtract
    <3> QED
      BY <3>1 DEF Mutex
  <2>6. CASE Sleep
    <3>1. pc = "drain" /\ holder = IdleThread /\ loop = "none" /\ least = NoElem
      BY <2>6, NoLoop DEF Sleep, Mutex
    <3>2. \/ pc' = "top" /\ holder' = IdleThread
          \/ pc' = "asleep" /\ holder' = NoElem
      BY <2>6, <3>1 DEF Sleep
    <3>3. UNCHANGED <<loop, inElem, least, call>>
      BY <2>6 DEF Sleep
    <3> QED
      BY <1>0, <3>1, <3>2, <3>3 DEF Mutex
  <2>7. CASE Wake
    BY <2>7, MutexKept DEF Wake
  <2> QED
    BY <1>1, <2>1, <2>2, <2>3, <2>4, <2>5, <2>6, <2>7 DEF ThreadStep
<1>2. CASE HeapLoop
  BY <1>2, MutexKept DEF HeapLoop, Rise, Sink
<1>3. CASE Tick \/ SignalIdleThreadExit
  BY <1>3, MutexKept DEF Tick, SignalIdleThreadExit
<1>4. ASSUME NEW t \in Elems, NEW n \in 1 .. MaxTimeout, SetIdleTimer(t, n)
      PROVE  Mutex'
  <2>1. call[t] = "none" /\ call' = [call EXCEPT ![t] = "lock"]
        /\ UNCHANGED <<holder, loop, inElem, least, pc>>
    BY <1>4 DEF SetIdleTimer
  <2>2. \A u \in Elems : call'[u] = IF u = t THEN "lock" ELSE call[u]
    BY <2>1 DEF IdleTypes
  <2> QED
    BY <2>1, <2>2 DEF Mutex, TypeOK
<1>5. ASSUME NEW t \in Elems, CallStep(t) PROVE Mutex'
  <2>1. CASE InsertTimer(t)
    <3>1. /\ holder = NoElem /\ holder' = t /\ loop' = "up" /\ inElem' = t
          /\ call[t] = "lock" /\ call' = [call EXCEPT ![t] = "insert"] /\ UNCHANGED <<pc, least>>
      BY <2>1 DEF InsertTimer, Insert
    <3>2. \A u \in Elems : call'[u] = IF u = t THEN "insert" ELSE call[u]
      BY <3>1 DEF IdleTypes
    <3> QED
      BY <1>0, <3>1, <3>2 DEF Mutex
  <2>2. CASE TimerInserted(t) \/ Deleted(t)
    <3>1. PICK to \in {"signal", "none"} : call' = [call EXCEPT ![t] = to]
      BY <2>2 DEF TimerInserted, Deleted
    <3>2. \A u \in Elems : call'[u] = IF u = t THEN to ELSE call[u]
      BY <3>1 DEF IdleTypes
    <3>3. /\ call[t] \in {"insert", "remove"} /\ holder' = NoElem /\ loop' = "none"
          /\ UNCHANGED pc /\ least' \in {least, NoElem}
      BY <2>2 DEF TimerInserted, Deleted, EndInsert, EndExtract
    <3>4. holder = t /\ least = NoElem
      BY <1>0, <3>3 DEF Mutex
    <3> QED
      BY <1>0, <3>1, <3>2, <3>3, <3>4 DEF Mutex
  <2>3. CASE SignalHeapCond(t)
    <3>1. call[t] = "signal" /\ call' = [call EXCEPT ![t] = "none"]
          /\ UNCHANGED <<holder, loop, inElem, least, pc>>
      BY <2>3 DEF SignalHeapCond
    <3>2. \A u \in Elems : call'[u] = IF u = t THEN "none" ELSE call[u]
      BY <3>1 DEF IdleTypes
    <3> QED
      BY <3>1, <3>2 DEF Mutex, TypeOK
  <2> QED
    BY <1>5, <2>1, <2>2, <2>3 DEF CallStep
<1>6. ASSUME NEW t \in Elems, Delete(t) PROVE Mutex'
  <2>1. CASE inHeap[t]
    <3>1. /\ holder = NoElem /\ holder' = t /\ loop' = "down"
          /\ call[t] = "none" /\ call' = [call EXCEPT ![t] = "remove"] /\ UNCHANGED <<pc, least>>
      BY <1>6, <2>1 DEF Delete, MayLock, Remove, Extract
    <3>2. \A u \in Elems : call'[u] = IF u = t THEN "remove" ELSE call[u]
      BY <3>1 DEF IdleTypes
    <3> QED
      BY <1>0, <3>1, <3>2 DEF Mutex
  <2>2. CASE ~ inHeap[t]
    BY <1>6, <2>2, MutexKept DEF Delete
  <2> QED
    BY <2>1, <2>2
<1>7. ASSUME NEW t \in Elems, Create(t) PROVE Mutex'
  BY <1>7, MutexKept DEF Create
<1>8. CASE UNCHANGED idleVars
  BY <1>8, MutexKept
<1> QED
  BY <1>1, <1>2, <1>3, <1>4, <1>5, <1>6, <1>7, <1>8 DEF IdleNext

LEMMA RemovedStep ==
    ASSUME TypeOK, Membership, IdleTypes, Mutex, Removed, [IdleNext]_idleVars
    PROVE  Removed'
<1> USE DEF idleVars, vars, syncVars, threadVars, taskVars
<1>0. NoElem \notin Elems /\ IdleThread \notin Elems /\ IdleThread # NoElem
  BY NoElemAssumption, ThreadAssumption
<1>1. CASE UNCHANGED <<inHeap, call, alive, least>>
  BY <1>1 DEF Removed
<1>2. CASE Drain
  <2>1. /\ loop = "none" /\ fHeap # <<>> /\ least' = fHeap[1] /\ UNCHANGED <<call, alive>>
        /\ inHeap' = [inHeap EXCEPT ![fHeap[1]] = FALSE]
    BY <1>2 DEF Drain, ExtractMin, Extract
  <2>2. fHeap[1] \in Elems /\ inHeap[fHeap[1]]
    BY <2>1 DEF TypeOK, Membership
  <2>3. \A u \in Elems : inHeap'[u] => inHeap[u]
    BY <2>1 DEF TypeOK
  <2> QED
    BY <2>1, <2>2, <2>3 DEF Removed
<1>3. CASE SignalIdle
  <2>1. UNCHANGED <<inHeap, call, alive>> /\ least' = NoElem
    BY <1>3 DEF SignalIdle, EndExtract
  <2> QED
    BY <1>0, <2>1 DEF Removed
<1>4. ASSUME NEW t \in Elems, call[t] # "none", call' = [call EXCEPT ![t] = call'[t]],
             call'[t] # "remove", UNCHANGED <<alive, least>>,
             \A u \in Elems : inHeap'[u] => inHeap[u] \/ u = t
      PROVE  Removed'
  <2>1. \A u \in Elems : u # t => call'[u] = call[u]
    BY <1>4 DEF IdleTypes
  <2>2. alive[t]
    BY <1>4 DEF Removed
  <2>3. ASSUME NEW u \in Elems
        PROVE  /\ call'[u] = "remove" => ~ inHeap'[u]
               /\ ~ alive'[u] => call'[u] = "none" /\ ~ inHeap'[u] /\ u # least'
    <3>1. CASE u = t
      BY <1>4, <2>2, <3>1
    <3>2. CASE u # t
      BY <1>4, <2>1, <3>2 DEF Removed
    <3> QED
      BY <3>1, <3>2
  <2> QED
    BY <2>3 DEF Removed
<1>5. ASSUME NEW t \in Elems, CallStep(t), ~ Deleted(t) PROVE Removed'
  <2>1. call[t] # "none" /\ call' = [call EXCEPT ![t] = call'[t]] /\ call'[t] # "remove"
    BY <1>5 DEF CallStep, InsertTimer, TimerInserted, SignalHeapCond, IdleTypes
  <2>2. UNCHANGED <<alive, least>>
    BY <1>5 DEF CallStep, InsertTimer, TimerInserted, SignalHeapCond, Insert, EndInsert
  <2>3. \A u \in Elems : inHeap'[u] => inHeap[u] \/ u = t
    <3>1. CASE TimerInserted(t)
      <4>1. call[t] = "insert" /\ loop = "up" /\ inHeap' = [inHeap EXCEPT ![inElem] = TRUE]
        BY <3>1 DEF TimerInserted, EndInsert
      <4>2. inElem = t
        <5>1. inElem \in Elems /\ call[inElem] = "insert"
          BY <4>1 DEF TypeOK, Mutex
        <5> QED
          BY <4>1, <5>1 DEF Mutex
      <4> QED
        BY <4>1, <4>2 DEF TypeOK
    <3>2. CASE InsertTimer(t)
      BY <3>2 DEF InsertTimer, Insert
    <3>3. CASE SignalHeapCond(t)
      BY <3>3 DEF SignalHeapCond
    <3> QED
      BY <1>5, <3>1, <3>2, <3>3 DEF CallStep
  <2> QED
    BY <1>4, <2>1, <2>2, <2>3
<1>6. ASSUME NEW t \in Elems, NEW n \in 1 .. MaxTimeout, SetIdleTimer(t, n)
      PROVE  Removed'
  <2>1. alive[t] /\ call' = [call EXCEPT ![t] = "lock"] /\ UNCHANGED <<inHeap, alive, least>>
    BY <1>6 DEF SetIdleTimer
  <2>2. \A u \in Elems : call'[u] = IF u = t THEN "lock" ELSE call[u]
    BY <2>1 DEF IdleTypes
  <2> QED
    BY <2>1, <2>2 DEF Removed
<1>7. ASSUME NEW t \in Elems, ~ inHeap'[t], call'[t] = "none", t # least', call' = [call EXCEPT ![t] = "none"],
             alive' = [alive EXCEPT ![t] = FALSE], UNCHANGED <<inHeap, least>>
      PROVE  Removed'
  <2>1. \A u \in Elems : u # t => call'[u] = call[u] /\ alive'[u] = alive[u]
    BY <1>7 DEF IdleTypes
  <2>2. ASSUME NEW u \in Elems
        PROVE  /\ call'[u] = "remove" => ~ inHeap'[u]
               /\ ~ alive'[u] => call'[u] = "none" /\ ~ inHeap'[u] /\ u # least'
    <3>1. CASE u = t
      BY <1>7, <3>1
    <3>2. CASE u # t
      BY <1>7, <2>1, <3>2 DEF Removed
    <3> QED
      BY <3>1, <3>2
  <2> QED
    BY <2>2 DEF Removed
<1>8. ASSUME NEW t \in Elems, Deleted(t) PROVE Removed'
  <2>1. /\ call[t] = "remove" /\ call' = [call EXCEPT ![t] = "none"]
        /\ alive' = [alive EXCEPT ![t] = FALSE] /\ UNCHANGED inHeap /\ least' = NoElem
    BY <1>8 DEF Deleted, EndExtract
  <2>2. ~ inHeap'[t] /\ call'[t] = "none" /\ t # least'
    BY <1>0, <2>1 DEF Removed, IdleTypes
  <2>3. least = NoElem
    BY <1>0, <2>1 DEF Mutex
  <2> QED
    BY <1>7, <2>1, <2>2, <2>3
<1>9. ASSUME NEW t \in Elems, Delete(t) PROVE Removed'
  <2>1. CASE inHeap[t]
    <3>1. /\ call' = [call EXCEPT ![t] = "remove"] /\ UNCHANGED <<alive, least>>
          /\ inHeap' = [inHeap EXCEPT ![t] = FALSE]
      BY <1>9, <2>1 DEF Delete, Remove, Extract
    <3>2. \A u \in Elems : call'[u] = IF u = t THEN "remove" ELSE call[u]
      BY <3>1 DEF IdleTypes
    <3>3. \A u \in Elems : inHeap'[u] <=> inHeap[u] /\ u # t
      BY <3>1 DEF TypeOK
    <3>4. alive[t]
      BY <2>1 DEF Removed
    <3> QED
      BY <3>1, <3>2, <3>3, <3>4 DEF Removed
  <2>2. CASE ~ inHeap[t]
    <3>1. /\ alive' = [alive EXCEPT ![t] = FALSE] /\ UNCHANGED <<inHeap, least, call>>
          /\ call[t] = "none" /\ holder = NoElem
      BY <1>9, <2>2 DEF Delete, MayLock
    <3>2. least = NoElem
      BY <1>0, <3>1 DEF Mutex
    <3>3. call' = [call EXCEPT ![t] = "none"]
      BY <3>1 DEF IdleTypes
    <3> QED
      BY <1>0, <1>7, <2>2, <3>1, <3>2, <3>3
  <2> QED
    BY <2>1, <2>2
<1>10. ASSUME NEW t \in Elems, Create(t) PROVE Removed'
  <2>1. alive' = [alive EXCEPT ![t] = TRUE] /\ UNCHANGED <<inHeap, least, call>>
    BY <1>10 DEF Create
  <2>2. \A u \in Elems : alive[u] => alive'[u]
    BY <2>1 DEF IdleTypes
  <2> QED
    BY <2>1, <2>2 DEF Removed
<1>11. CASE ThreadStep \/ HeapLoop \/ Tick \/ SignalIdleThreadExit
  BY <1>1, <1>2, <1>3, <1>11 DEF ThreadStep, LoopTop, WakeEmpty, Relock,
     Sleep, Wake, HeapLoop, Rise, Sink, Tick, SignalIdleThreadExit
<1> QED
  BY <1>1, <1>5, <1>6, <1>8, <1>9, <1>10, <1>11 DEF IdleNext

IdleInv == TypeOK /\ TimesOK /\ Membership /\ IdleTypes /\ Mutex /\ Removed

LEMMA IdleInitial == ASSUME IdleInit PROVE IdleInv /\ OrderInv
<1> USE DEF IdleInit
<1>1. TypeOK /\ OrderInv
  BY HeapInit
<1>4. TimesOK /\ Membership
  BY TimesAssumption DEF Init, TimesOK, Times, Membership
<1>2. IdleTypes
  <2>1. /\ call \in [Elems -> CallSteps] /\ alive \in [Elems -> BOOLEAN]
        /\ idled \in [Elems -> BOOLEAN]
    BY DEF CallSteps
  <2>2. 0 \in -(MaxLate + MaxTimeout) .. MaxTimeout /\ 0 \in 0 .. MaxTimeout + MaxLate
    BY TimesAssumption
  <2> QED
    BY <2>1, <2>2 DEF IdleTypes, ThreadSteps
<1>3. Mutex /\ Removed
  BY NoElemAssumption, ThreadAssumption DEF Init, Mutex, Removed
<1> QED
  BY <1>1, <1>2, <1>3, <1>4 DEF IdleInv

LEMMA IdleInductive == IdleInv /\ [IdleNext]_idleVars => IdleInv'
  BY IdleHeapInvariants, IdleTypesStep, MutexStep, RemovedStep DEF IdleInv

(* The loops of the heap run for the holder of fHeapMutex only, and no     *)
(* clock or time left goes out of its range.                               *)
THEOREM IdleTypeCorrect == IdleSpec => []IdleTypeOK
<1>1. IdleInv => IdleTypeOK
  <2> SUFFICES ASSUME IdleInv PROVE IdleTypeOK
    OBVIOUS
  <2>1. loop # "none" => holder # NoElem
    BY NoLoop DEF IdleInv
  <2> QED
    BY <2>1 DEF IdleInv, TimesOK, IdleTypes, IdleTypeOK, Times, ThreadSteps, CallSteps
<1> QED
  BY <1>1, IdleInitial, IdleInductive, PTL DEF IdleSpec

(* However many tasks are created, armed and deleted, and however long the *)
(* heap: a deleted task has no timer left and is not being signalled.      *)
THEOREM DeletedTasksHaveNoTimer == IdleSpec => []DeletedHasNoTimer
<1>1. IdleInv => DeletedHasNoTimer
  <2> SUFFICES ASSUME IdleInv, NEW t \in Elems, ~ alive[t]
               PROVE  ~ inHeap[t] /\ t # least /\ \A i \in DOMAIN fHeap : fHeap[i] # t
    BY DEF DeletedHasNoTimer
  <2>1. call[t] = "none" /\ ~ inHeap[t] /\ t # least
    BY DEF IdleInv, Removed
  <2>2. \A i \in DOMAIN fHeap : fHeap[i] # t
    BY <2>1, ArrayCounts DEF IdleInv, TypeOK, N
  <2> QED
    BY <2>1, <2>2
<1> QED
  BY <1>1, IdleInitial, IdleInductive, PTL DEF IdleSpec

-----------------------------------------------------------------------------
(* The sleep of the idle thread                                            *)

(* Without a signal on its way the thread that waits covers every timer    *)
(* whose SetIdleTimer is over, in a heap in order.  (The bound on fValue[t] + MaxLate keeps    *)
(* the first one true once msec has reached its lower limit.)              *)
Covers(t) == waitLeft <= fValue[t] - msec /\ waitLeft <= fValue[t] + MaxLate

SleepInv ==
    ~ fHeapCond => \A t \in Elems : inHeap[t] /\ call[t] # "signal" =>
        pc # "waitEmpty" /\ (pc = "asleep" /\ ~ misplaced => Covers(t))

(* Steps that put nothing into the heap, change no time and start no wait. *)
LEMMA SleepKept ==
    ASSUME SleepInv, UNCHANGED fHeapCond,
           pc' \in {"waitEmpty", "asleep"} => pc' = pc /\ UNCHANGED <<waitLeft, msec>>,
           misplaced => misplaced',
           \A t \in Elems : inHeap'[t] /\ call'[t] # "signal" =>
                inHeap[t] /\ call[t] # "signal" /\ fValue'[t] = fValue[t]
    PROVE  SleepInv'
  BY DEF SleepInv, Covers

LEMMA SleepStarts ==
    ASSUME IdleInv, OrderInv, Sleep PROVE SleepInv'
<1>1. pc = "drain" /\ holder = IdleThread /\ msec \in - MaxLate .. 0 /\ ~ HasDue
  BY DEF Sleep, IdleInv, Mutex, IdleTypes
<1>2. UNCHANGED <<fHeap, fValue, inHeap, misplaced, msec>>
  BY DEF Sleep, vars
<1>3. loop = "none"
  BY <1>1, NoLoop DEF IdleInv
<1>4. CASE fHeap = <<>>
  <2>1. pc' = "top"
    BY <1>4 DEF Sleep
  <2> QED
    BY <2>1 DEF SleepInv
<1>5. CASE fHeap # <<>>
  <2>1. pc' = "asleep" /\ waitLeft' = ValueAt(1) - msec
    BY <1>5 DEF Sleep, SleepTime
  <2>2. ASSUME NEW t \in Elems, inHeap[t], ~ misplaced PROVE Covers(t)'
    <3>1. PICK i \in DOMAIN fHeap : fHeap[i] = t
      BY <2>2 DEF IdleInv, Membership
    <3>2. i \in 1 .. N /\ TypeOK /\ TimesOK
      BY DEF IdleInv, TypeOK, N
    <3>3. ValueAt(1) <= fValue[t]
      BY <1>3, <2>2, <3>1, <3>2, RootIsLeast DEF OrderInv, LoopInv, ValueAt
    <3>4. ValueAt(1) \in Int /\ fValue[t] \in Int
      BY <1>5, <3>2, RootTime, TimesAssumption DEF TimesOK, Times
    <3> QED
      BY <1>1, <1>2, <2>1, <3>3, <3>4, TimesAssumption DEF Covers
  <2> QED
    BY <1>2, <2>1, <2>2 DEF SleepInv
<1> QED
  BY <1>4, <1>5

LEMMA SleepTicks ==
    ASSUME IdleInv, SleepInv, Tick PROVE SleepInv'
<1>1. /\ \A t \in Counting : fValue[t] > - MaxLate
      /\ fValue' = [t \in Elems |-> IF t \in Counting THEN fValue[t] - 1 ELSE fValue[t]]
      /\ msec' = IF pc \in {"drain", "extracting", "asleep"} /\ msec > -(MaxLate + MaxTimeout)
                 THEN msec - 1 ELSE msec
      /\ waitLeft' = IF waitLeft > 0 THEN waitLeft - 1 ELSE 0
      /\ UNCHANGED <<inHeap, misplaced, fHeapCond, pc, call>>
  BY DEF Tick, Counting, syncVars, taskVars
<1>2. ASSUME NEW t \in Elems, inHeap[t], pc = "asleep", Covers(t) PROVE Covers(t)'
  <2>1. t \in Counting /\ fValue[t] > - MaxLate /\ fValue'[t] = fValue[t] - 1
    BY <1>1, <1>2 DEF Counting
  <2>2. fValue[t] \in Int /\ msec \in -(MaxLate + MaxTimeout) .. MaxTimeout /\ waitLeft \in Nat
    BY TimesAssumption DEF IdleInv, IdleTypes, TimesOK, Times
  <2>3. waitLeft' <= fValue'[t] + MaxLate
    BY <1>1, <1>2, <2>1, <2>2, TimesAssumption DEF Covers
  <2>4. waitLeft' <= fValue'[t] - msec'
    <3>1. CASE msec > -(MaxLate + MaxTimeout)
      BY <1>1, <1>2, <2>1, <2>2, <3>1, TimesAssumption DEF Covers
    <3>2. CASE msec = -(MaxLate + MaxTimeout)
      BY <1>1, <2>1, <2>2, <2>3, <3>2, TimesAssumption
    <3> QED
      BY <2>2, <3>1, <3>2, TimesAssumption
  <2> QED
    BY <2>3, <2>4 DEF Covers
<1> QED
  BY <1>1, <1>2 DEF SleepInv

LEMMA SleepStep ==
    ASSUME IdleInv, OrderInv, SleepInv, [IdleNext]_idleVars PROVE SleepInv'
<1> USE DEF idleVars, vars, syncVars, threadVars, taskVars
<1>0. TypeOK /\ IdleTypes
  BY DEF IdleInv
<1>1. CASE ThreadStep
  <2>1. CASE LoopTop
    <3>1. CASE pc' = "waitEmpty"
      <4>1. fHeap = <<>> /\ UNCHANGED inHeap
        BY <2>1, <3>1 DEF LoopTop
      <4>2. \A t \in Elems : ~ inHeap'[t]
        BY <4>1 DEF IdleInv, Membership
      <4> QED
        BY <4>2 DEF SleepInv
    <3>2. CASE pc' # "waitEmpty"
      BY <2>1, <3>2 DEF LoopTop, SleepInv
    <3> QED
      BY <3>1, <3>2
  <2>2. CASE WakeEmpty \/ Wake
    BY <2>2 DEF WakeEmpty, Wake, SleepInv
  <2>3. CASE Relock
    BY <2>3 DEF Relock, SleepInv
  <2>4. CASE Drain \/ SignalIdle
    BY <2>4 DEF Drain, SignalIdle, SleepInv
  <2>5. CASE Sleep
    BY <2>5, SleepStarts
  <2> QED
    BY <1>1, <2>1, <2>2, <2>3, <2>4, <2>5 DEF ThreadStep
<1>2. CASE HeapLoop
  BY <1>2, SleepKept DEF HeapLoop, Rise, Sink
<1>3. CASE Tick
  BY <1>3, SleepTicks
<1>4. CASE SignalIdleThreadExit
  BY <1>4 DEF SignalIdleThreadExit, Signalled, SleepInv
<1>5. ASSUME NEW t \in Elems, NEW n \in 1 .. MaxTimeout, SetIdleTimer(t, n)
      PROVE  SleepInv'
  <2>1. /\ ~ inHeap[t] /\ call' = [call EXCEPT ![t] = "lock"] /\ fValue' = [fValue EXCEPT ![t] = n]
        /\ UNCHANGED <<inHeap, misplaced, fHeapCond, pc, msec, waitLeft>>
    BY <1>5 DEF SetIdleTimer
  <2>2. \A u \in Elems : u # t => call'[u] = call[u] /\ fValue'[u] = fValue[u]
    BY <1>0, <2>1 DEF IdleTypes, TypeOK
  <2> QED
    BY <2>1, <2>2, SleepKept
<1>6. ASSUME NEW t \in Elems, CallStep(t) PROVE SleepInv'
  <2>1. CASE InsertTimer(t)
    <3>1. /\ ~ inHeap[t] /\ call' = [call EXCEPT ![t] = "insert"]
          /\ fValue' = [fValue EXCEPT ![t] = fValue[t]]
          /\ UNCHANGED <<inHeap, misplaced, fHeapCond, pc, msec, waitLeft>>
      BY <2>1 DEF InsertTimer, Insert
    <3>2. \A u \in Elems : u # t => call'[u] = call[u] /\ fValue'[u] = fValue[u]
      BY <1>0, <3>1 DEF IdleTypes, TypeOK
    <3> QED
      BY <3>1, <3>2, SleepKept
  <2>2. CASE TimerInserted(t)
    <3>1. /\ call[t] = "insert" /\ loop = "up" /\ call' = [call EXCEPT ![t] = "signal"]
          /\ inHeap' = [inHeap EXCEPT ![inElem] = TRUE]
          /\ UNCHANGED <<fValue, fHeapCond, pc, msec, waitLeft>>
          /\ misplaced => misplaced'
      BY <2>2 DEF TimerInserted, EndInsert
    <3>2. inElem = t
      BY <1>0, <3>1 DEF IdleInv, Mutex, TypeOK
    <3>3. \A u \in Elems : u # t => call'[u] = call[u] /\ (inHeap'[u] <=> inHeap[u])
      BY <1>0, <3>1, <3>2 DEF IdleTypes, TypeOK
    <3>4. call'[t] = "signal"
      BY <1>0, <3>1 DEF IdleTypes
    <3> QED
      BY <3>1, <3>3, <3>4, SleepKept
  <2>3. CASE SignalHeapCond(t)
    BY <2>3 DEF SignalHeapCond, Signalled, SleepInv
  <2>4. CASE Deleted(t)
    <3>1. /\ call[t] = "remove" /\ call' = [call EXCEPT ![t] = "none"]
          /\ UNCHANGED <<inHeap, fValue, misplaced, fHeapCond, pc, msec, waitLeft>>
      BY <2>4 DEF Deleted, EndExtract
    <3>2. \A u \in Elems : call'[u] = call[u] \/ call[u] = "remove"
      BY <1>0, <3>1 DEF IdleTypes
    <3> QED
      BY <3>1, <3>2, SleepKept
  <2> QED
    BY <1>6, <2>1, <2>2, <2>3, <2>4 DEF CallStep
<1>7. ASSUME NEW t \in Elems, Delete(t) PROVE SleepInv'
  <2>1. CASE inHeap[t]
    <3>1. /\ call[t] = "none" /\ call' = [call EXCEPT ![t] = "remove"]
          /\ inHeap' = [inHeap EXCEPT ![t] = FALSE]
          /\ UNCHANGED <<fValue, fHeapCond, pc, msec, waitLeft>>
          /\ misplaced => misplaced'
      BY <1>7, <2>1 DEF Delete, Remove, Extract
    <3>2. \A u \in Elems : (call'[u] = call[u] \/ call[u] = "none") /\ (inHeap'[u] => inHeap[u])
      BY <1>0, <3>1 DEF IdleTypes, TypeOK
    <3> QED
      BY <3>1, <3>2, SleepKept
  <2>2. CASE ~ inHeap[t]
    BY <1>7, <2>2, SleepKept DEF Delete
  <2> QED
    BY <2>1, <2>2
<1>8. ASSUME NEW t \in Elems, Create(t) PROVE SleepInv'
  BY <1>8, SleepKept DEF Create
<1>9. CASE UNCHANGED idleVars
  BY <1>9, SleepKept
<1> QED
  BY <1>1, <1>2, <1>3, <1>4, <1>5, <1>6, <1>7, <1>8, <1>9 DEF IdleNext

(* The idle thread sleeps past no timer, for any tasks and timeouts, until *)
(* a Remove misplaces one; that takes six timers (HeapOfFiveInOrder).      *)
THEOREM SleepCoversTimers == IdleSpec => []SleepCovers
<1>1. IdleInit => IdleInv /\ OrderInv /\ SleepInv
  <2>1. IdleInit => SleepInv
    BY DEF IdleInit, SleepInv
  <2> QED
    BY <2>1, IdleInitial
<1>2. IdleInv /\ OrderInv /\ SleepInv /\ [IdleNext]_idleVars => IdleInv' /\ OrderInv' /\ SleepInv'
  <2>1. IdleInv /\ OrderInv /\ [IdleNext]_idleVars => OrderInv'
    BY IdleHeapInvariants DEF IdleInv
  <2> QED
    BY <2>1, IdleInductive, SleepStep
<1>3. SleepInv => SleepCovers
  BY DEF SleepInv, Covers, SleepCovers
<1> QED
  BY <1>1, <1>2, <1>3, PTL DEF IdleSpec
=============================================================================
