---------------------------- MODULE PoolPromise ----------------------------
(***************************************************************************)
(* What the queue of the inspector (internal/queue) promises its callers:  *)
(* the handler is called once for every task handed to Submit, with a      *)
(* reason that is true, and Close returns when nothing is left but what    *)
(* the callers' own goroutines hold.  QueuePool implements this            *)
(* specification; Inspector is built on it.                                *)
(***************************************************************************)
EXTENDS Naturals, FiniteSets

CONSTANTS
    Tasks,  \* tasks that may be submitted
    Depth   \* queue_max

VARIABLES
    full,    \* queue_full: "drop" or "wait"
    task,    \* where each task is
    why,     \* what the handler was called with: "checked", "deadline", "limit"
    late,    \* tasks that ran out of time
    closed   \* Close has begun

pool == <<full, task, why, late, closed>>

In(place) == {t \in Tasks : task[t] = place}

Init ==
    /\ full \in {"drop", "wait"}
    /\ task = [t \in Tasks |-> "new"]
    /\ why = [t \in Tasks |-> "none"]
    /\ late = {}
    /\ closed = FALSE

Move(S, place) == task' = [t \in Tasks |-> IF t \in S THEN place ELSE task[t]]

\* The handler is called for task t.
Hand(t, reason) ==
    /\ Move({t}, "answered")
    /\ why' = [why EXCEPT ![t] = reason]
    /\ UNCHANGED <<full, late, closed>>

\* A caller enters Submit; a task without time is answered there and then.
Submit(t) ==
    /\ task[t] = "new"
    /\ \/ t \notin late /\ Move({t}, "calling") /\ UNCHANGED <<full, why, late, closed>>
       \/ t \in late /\ Hand(t, "deadline")

\* Submit returns and leaves the task in the queue.
Enqueue(t) ==
    /\ task[t] = "calling"
    /\ ~closed /\ Cardinality(In("queued")) < Depth
    /\ Move({t}, "queued")
    /\ UNCHANGED <<full, why, late, closed>>

\* The caller answers its own task: no room, no time, or no pool any more.
TurnAway(t, reason) ==
    /\ task[t] = "calling"
    /\ reason = "limit" => full = "drop" /\ ~closed /\ Cardinality(In("queued")) = Depth
    /\ reason = "deadline" => t \in late \/ closed
    /\ reason # "checked"
    /\ Hand(t, reason)

\* Tasks leave the queue: into the hands of the pool's goroutines, or, if they
\* have run out of time, of a caller that found them so.
Take(S, who) ==
    /\ S # {} /\ S \subseteq In("queued")
    /\ \/ who = "pool"
       \/ who = "caller" /\ In("calling") # {} /\ S \subseteq late
    /\ Move(S, who)
    /\ UNCHANGED <<full, why, late, closed>>

\* The handler is called for a task that was taken.
Answer(t) ==
    /\ task[t] \in {"pool", "caller"}
    /\ Hand(t, IF t \in late THEN "deadline" ELSE "checked")

RunsLate(t) ==
    /\ late' = late \cup {t}
    /\ UNCHANGED <<full, task, why, closed>>

Close ==
    /\ closed' = TRUE
    /\ UNCHANGED <<full, task, why, late>>

\* Close may return: what is left is with the callers.
Drained == closed /\ In("queued") = {} /\ In("pool") = {}

Next ==
    \/ \E t \in Tasks : Submit(t) \/ Enqueue(t) \/ Answer(t) \/ RunsLate(t)
    \/ \E t \in Tasks, reason \in {"limit", "deadline"} : TurnAway(t, reason)
    \/ \E S \in SUBSET In("queued"), who \in {"pool", "caller"} : Take(S, who)
    \/ Close

Spec == Init /\ [][Next]_pool
=============================================================================
