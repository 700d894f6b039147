------------------------------- MODULE OSHeap -------------------------------
(***************************************************************************)
(* The binary heap of CommonUtilitiesLib/OSHeap.cpp, which orders timers   *)
(* by the time they run out.  One step is one pass of the loop of Insert   *)
(* or Extract.  The array is the sequence fHeap[1], fHeap[2], ... and      *)
(* fFreeIndex the first position after it.                                 *)
(***************************************************************************)
EXTENDS Integers, Sequences

CONSTANTS
    Elems,          \* OSHeapElem objects
    Values,         \* times a timer can be set to
    NoElem          \* the null OSHeapElem*

ASSUME ValuesAssumption == Values \subseteq Int
ASSUME NoElemAssumption == NoElem \notin Elems

VARIABLES
    fHeap,          \* the array
    fValue,         \* of an element
    inHeap,         \* of an element: fCurrentHeap is set
    loop,           \* which loop runs: "none", "up" (Insert), "down" (Extract)
    pos,            \* swapPos of Insert, parent of Extract
    inElem,         \* the argument of Insert while its loop runs
    least,          \* what ExtractMin is going to return
    misplaced       \* history: Remove has put a leaf below a greater element

vars == <<fHeap, fValue, inHeap, loop, pos, inElem, least, misplaced>>

fFreeIndex == Len(fHeap) + 1
ValueAt(i) == fValue[fHeap[i]]

Init ==
    /\ fHeap = <<>>
    /\ fValue \in [Elems -> Values]
    /\ inHeap = [e \in Elems |-> FALSE]
    /\ loop = "none" /\ pos = 0 /\ inElem = NoElem /\ least = NoElem
    /\ misplaced = FALSE

Swap(i, j) == [fHeap EXCEPT ![i] = fHeap[j], ![j] = fHeap[i]]

-----------------------------------------------------------------------------
(* Insert                                                                  *)

(* The element goes to the last leaf; Insert asserts it is in no heap.     *)
LastLeaf == fFreeIndex

Insert(e, v) ==
    /\ loop = "none"
    /\ ~ inHeap[e]
    /\ fValue' = [fValue EXCEPT ![e] = v]
    /\ fHeap' = Append(fHeap, e)
    /\ loop' = "up" /\ pos' = LastLeaf /\ inElem' = e
    /\ UNCHANGED <<inHeap, least, misplaced>>

MustRise == pos > 1 /\ ValueAt(pos) < ValueAt(pos \div 2)

Rise ==
    /\ loop = "up"
    /\ MustRise
    /\ fHeap' = Swap(pos, pos \div 2)
    /\ pos' = pos \div 2
    /\ UNCHANGED <<fValue, inHeap, loop, inElem, least, misplaced>>

EndInsert ==
    /\ loop = "up"
    /\ ~ MustRise
    /\ inHeap' = [inHeap EXCEPT ![inElem] = TRUE]
    /\ loop' = "none" /\ pos' = 0 /\ inElem' = NoElem
    /\ UNCHANGED <<fHeap, fValue, least, misplaced>>

-----------------------------------------------------------------------------
(* Extract                                                                 *)

(* The array when the last leaf has filled the hole at i.                  *)
Filled_Not(i) == SubSeq(fHeap, 1, Len(fHeap) - 1)   \* slip: not filled
Filled(i) == [j \in 1 .. Len(fHeap) - 1 |->
                 IF j = i THEN fHeap[Len(fHeap)] ELSE fHeap[j]]

(* The loop of Extract only moves the leaf down, never up: it stays below  *)
(* the parent of the hole, which may be greater if the leaf comes from     *)
(* another branch.                                                         *)
Misplaces(i) ==
    1 < i /\ i < Len(fHeap) /\ ValueAt(Len(fHeap)) < ValueAt(i \div 2)

Extract(i) ==
    /\ loop = "none"
    /\ i < fFreeIndex
    /\ inHeap' = [inHeap EXCEPT ![fHeap[i]] = FALSE]
    /\ fHeap' = Filled(i)
    /\ loop' = "down" /\ pos' = i
    /\ misplaced' = (misplaced \/ Misplaces(i))
    /\ UNCHANGED <<fValue, inElem>>

(* The child that must change places with its parent, or the parent.       *)
Least(p) ==
    LET left == IF 2 * p < fFreeIndex /\ ValueAt(2 * p) < ValueAt(p)
                THEN 2 * p ELSE p
    IN  IF 2 * p + 1 < fFreeIndex /\ ValueAt(2 * p + 1) < ValueAt(left)
        THEN 2 * p + 1 ELSE left

MustSink == pos < fFreeIndex /\ Least(pos) # pos

Sink ==
    /\ loop = "down"
    /\ MustSink
    /\ fHeap' = Swap(pos, Least(pos))
    /\ pos' = Least(pos)
    /\ UNCHANGED <<fValue, inHeap, loop, inElem, least, misplaced>>

EndExtract ==
    /\ loop = "down"
    /\ ~ MustSink
    /\ loop' = "none" /\ pos' = 0 /\ least' = NoElem
    /\ UNCHANGED <<fHeap, fValue, inHeap, inElem, misplaced>>

ExtractMin ==
    /\ fHeap # <<>>
    /\ Extract(1)
    /\ least' = fHeap[1]

(* Remove looks the element up and extracts it from where it is.           *)
Remove(e) ==
    /\ \E i \in DOMAIN fHeap : fHeap[i] = e /\ Extract(i)
    /\ UNCHANGED least

Next ==
    \/ \E e \in Elems, v \in Values : Insert(e, v)
    \/ ExtractMin
    \/ \E e \in Elems : Remove(e)
    \/ Rise \/ EndInsert \/ Sink \/ EndExtract

Spec == Init /\ [][Next]_vars

-----------------------------------------------------------------------------
(* Properties                                                              *)

(* No loop leaves the array.                                               *)
TypeOK ==
    /\ fHeap \in Seq(Elems)
    /\ fValue \in [Elems -> Values]
    /\ inHeap \in [Elems -> BOOLEAN]
    /\ loop \in {"none", "up", "down"}
    /\ {inElem, least} \subseteq Elems \cup {NoElem}
    /\ misplaced \in BOOLEAN
    /\ pos \in Nat
    /\ loop = "up" => pos \in 1 .. Len(fHeap) /\ inElem \in Elems
    /\ loop = "down" => pos \in 1 .. Len(fHeap) + 1

(* IsMemberOfAnyHeap tells the truth: exactly the elements marked as       *)
(* members are in the array, each of them once.                            *)
Membership ==
    /\ \A i, j \in DOMAIN fHeap : fHeap[i] = fHeap[j] => i = j
    /\ \A e \in Elems :
          (inHeap[e] \/ (loop = "up" /\ e = inElem))
              <=> \E i \in DOMAIN fHeap : fHeap[i] = e

Ordered(i) == ValueAt(i \div 2) <= ValueAt(i)

(* SanityCheck: outside the loops no element is smaller than its parent.   *)
(* Remove breaks it, in an array of six or more.                           *)
InOrder == \A i \in 2 .. Len(fHeap) : Ordered(i)
HeapOrder == loop = "none" => InOrder

(* ... and nothing else does: the order holds until Remove has put a leaf  *)
(* below a greater element.                                                *)
OrderedUntilMisplaced == loop = "none" /\ ~ misplaced => InOrder

(* That takes an array of six at least, whose last leaf can come from      *)
(* another branch than the hole.                                           *)
MisplacedBySix == [][~ misplaced /\ misplaced' => Len(fHeap) >= 6]_vars

-----------------------------------------------------------------------------
(* Refinement of PriorityQueue.                                            *)

queue == {e \in Elems : \E i \in DOMAIN fHeap : fHeap[i] = e}

QueueSpec == INSTANCE PriorityQueue
                 WITH key <- fValue, result <- least, exact <- ~ misplaced
ImplementsPriorityQueue == QueueSpec!Spec
=============================================================================
