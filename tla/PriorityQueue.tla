---------------------------- MODULE PriorityQueue ----------------------------
(***************************************************************************)
(* What the users of OSHeap get: an element put in is in until it is taken *)
(* out, and Remove takes out the one it is given.  ExtractMin hands out an *)
(* element with the smallest value of all that are in the heap while the   *)
(* queue is exact, which a Remove may end.                                 *)
(***************************************************************************)
EXTENDS Integers

CONSTANTS Elems, Values, NoElem

VARIABLES queue, key, result, exact

Init == queue = {} /\ key \in [Elems -> Values] /\ result = NoElem /\ exact = TRUE

Insert(e, v) ==
    /\ e \notin queue
    /\ queue' = queue \cup {e}
    /\ key' = [key EXCEPT ![e] = v]
    /\ UNCHANGED <<result, exact>>

IsLeast(e) == \A u \in queue : key[e] <= key[u]

ExtractMin(e) ==
    /\ e \in queue /\ (exact => IsLeast(e))
    /\ queue' = queue \ {e}
    /\ result' = e
    /\ UNCHANGED <<key, exact>>

Remove(e) ==
    /\ e \in queue
    /\ queue' = queue \ {e}
    /\ exact' \in {exact, FALSE}
    /\ UNCHANGED <<key, result>>

Return ==
    /\ result' = NoElem
    /\ UNCHANGED <<queue, key, exact>>

Next ==
    \/ \E e \in Elems : (\E v \in Values : Insert(e, v)) \/ ExtractMin(e) \/ Remove(e)
    \/ Return

Spec == Init /\ [][Next]_<<queue, key, result, exact>>
=============================================================================
