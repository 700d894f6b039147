------------------------------- MODULE Task -------------------------------
(***************************************************************************)
(* What class Task promises its users, whatever threads, queues and heaps  *)
(* are behind it: Run is not re-entered, and a task only becomes idle when *)
(* no event is pending, so no Signal is ever lost.                         *)
(***************************************************************************)
CONSTANTS Tasks, SignalEvents, Events

VARIABLES status, pending

taskState == <<status, pending>>

TaskInit ==
    /\ status = [t \in Tasks |-> "idle"]
    /\ pending = [t \in Tasks |-> {}]

Set(t, st, ev) ==
    /\ status' = [status EXCEPT ![t] = st]
    /\ pending' = [pending EXCEPT ![t] = ev]

(* Signal wakes an idle task and adds to the events of any other.          *)
Post(t, e) ==
    /\ status[t] # "dead"
    /\ Set(t, IF status[t] = "idle" THEN "scheduled" ELSE status[t],
           pending[t] \cup {e})

Begin(t) == status[t] = "scheduled" /\ Set(t, "running", pending[t])

(* GetEvents hands some of the pending events to Run.                      *)
Collect(t, taken) == status[t] = "running" /\ Set(t, "running", pending[t] \ taken)

(* Run has returned: nothing is left to do ...                             *)
Rest(t) == status[t] = "running" /\ pending[t] = {} /\ Set(t, "idle", {})

(* ... or events are pending, or a timer brings more of them.              *)
Again(t, more) ==
    /\ status[t] = "running"
    /\ pending[t] \cup more # {}
    /\ Set(t, "scheduled", pending[t] \cup more)

(* By its own wish, or with the pool while it waits for its turn.          *)
Delete(t) ==
    /\ status[t] = "running"
    /\ Set(t, "dead", pending[t])

DeleteScheduled(D) ==
    /\ \A t \in D : status[t] = "scheduled"
    /\ status' = [t \in Tasks |-> IF t \in D THEN "dead" ELSE status[t]]
    /\ UNCHANGED pending

TaskNext ==
    \/ \E t \in Tasks :
          \/ \E e \in SignalEvents : Post(t, e)
          \/ Begin(t) \/ Rest(t) \/ Delete(t)
          \/ \E E \in SUBSET Events : Collect(t, E) \/ Again(t, E)
    \/ \E D \in SUBSET Tasks : DeleteScheduled(D)

Spec == TaskInit /\ [][TaskNext]_taskState
=============================================================================
