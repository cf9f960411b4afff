----------------------------- MODULE QueuePool -----------------------------
(***************************************************************************)
(* The inspector's bounded queue: callers submit tasks, workers take them, *)
(* a sweeper removes the ones that ran out of time, and all of them meet   *)
(* at one mutex and one condition variable.                                *)
(*                                                                         *)
(* Code modelled: internal/queue/queue.go (Submit, submitWaitLocked,       *)
(* enqueueLocked, takeExpiredLocked, sweep, work, pop, budget, replyDead,  *)
(* Close).  A step is what a goroutine does under one hold of the mutex.   *)
(* A task is late once what is left of its deadline is below min_budget;   *)
(* min_budget is positive, so the timer of a wait fires on late tasks only.*)
(***************************************************************************)
EXTENDS Integers, Sequences, FiniteSets, SequencesExt

CONSTANTS
    Tasks,     \* tasks, each with the goroutine that submits it
    Workers,   \* goroutines of work()
    Sweeper,   \* the goroutine of sweep()
    Depth,     \* queue_max
    Fulls      \* values of queue_full: "drop", "wait"

NoTask == "none"

ASSUME PoolAssumption ==
    /\ Depth \in Nat \ {0}
    /\ Fulls \subseteq {"drop", "wait"}
    /\ IsFiniteSet(Tasks) /\ IsFiniteSet(Workers) /\ Workers # {}
    /\ Tasks \cap Workers = {} /\ Sweeper \notin Tasks \cup Workers
    /\ NoTask \notin Tasks

VARIABLES
    full,     \* Config.Full, fixed when the pool is made
    q,        \* Pool.q
    stopped,  \* Pool.stop is closed
    closed,   \* Pool.closed
    waiting,  \* goroutines in cond.Wait
    pc,       \* where each goroutine is
    hand,     \* expired tasks that a goroutine took and has to answer
    job,      \* the task each worker is at
    timer,    \* timer of each wait: "off", "armed" or "fired"
    late,     \* tasks that ran out of time
    answers   \* reasons that the handler was called with, per task

vars == <<full, q, stopped, closed, waiting, pc, hand, job, timer, late, answers>>

Actors == Tasks \cup Workers \cup {Sweeper}
NoHand == [a \in Actors |-> {}]

Init ==
    /\ full \in Fulls
    /\ q = <<>>
    /\ stopped = FALSE /\ closed = FALSE
    /\ waiting = {}
    /\ pc = [a \in Actors |-> IF a \in Tasks THEN "idle" ELSE "run"]
    /\ hand = NoHand
    /\ job = [w \in Workers |-> NoTask]
    /\ timer = [t \in Tasks |-> "off"]
    /\ late = {}
    /\ answers = [t \in Tasks |-> <<>>]

(***************************************************************************)
(* The condition variable and the queue                                    *)
(***************************************************************************)

\* Mutant of Room: one more than queue_max.
RoomForOneMore == Len(q) <= Depth

Room == Len(q) < Depth

\* Cond.Signal: one waiting goroutine, if there is one, goes on.
Signal ==
    \/ waiting = {} /\ waiting' = {}
    \/ \E a \in waiting : waiting' = waiting \ {a}

\* Mutant of Broadcast: only one waiting goroutine is woken.
BroadcastToOne == Signal

Broadcast == waiting' = {}

\* Mutant of Expired: the deadlines are not looked at.
ExpiredAll == ToSet(q)

\* takeExpiredLocked: what it takes and what it keeps.
Expired == {t \in ToSet(q) : t \in late}
Kept ==
    LET kept[i \in 0 .. Len(q)] ==
          IF i = 0 THEN <<>>
          ELSE IF q[i] \in late THEN kept[i - 1] ELSE Append(kept[i - 1], q[i])
    IN  kept[Len(q)]

\* A goroutine is free to take the mutex: not waiting, nothing left to answer.
Free(a) == a \notin waiting /\ hand[a] = {}

Goto(a, p) == pc' = [pc EXCEPT ![a] = p]
Answer(t, reason) == answers' = [answers EXCEPT ![t] = Append(@, reason)]

\* Mutant of TakeExpired: the expired tasks are not cut out of the queue.
TakeExpiredKeeps(a, p) ==
    /\ Expired # {}
    /\ q' = q
    /\ hand' = [hand EXCEPT ![a] = Expired]
    /\ Broadcast
    /\ Goto(a, p)

\* takeExpiredLocked with something to take; a goes on at p.
TakeExpired(a, p) ==
    /\ Expired # {}
    /\ q' = Kept
    /\ hand' = [hand EXCEPT ![a] = Expired]
    /\ Broadcast
    /\ Goto(a, p)

\* replyDead: one call of the handler for each task taken.
ReplyDead(a) ==
    /\ \E t \in hand[a] :
         /\ Answer(t, "deadline")
         /\ hand' = [hand EXCEPT ![a] = @ \ {t}]
    /\ UNCHANGED <<full, q, stopped, closed, waiting, pc, job, timer, late>>

(***************************************************************************)
(* Submit                                                                  *)
(***************************************************************************)

\* Submit is called: a task with no time is answered at once.
SubmitStart(t) ==
    /\ pc[t] = "idle"
    /\ IF t \in late
       THEN Answer(t, "deadline") /\ Goto(t, "done")
       ELSE Goto(t, "collect") /\ UNCHANGED answers
    /\ UNCHANGED <<full, q, stopped, closed, waiting, hand, job, timer, late>>

\* collectExpired, before the task is looked at.
Collect(t) ==
    /\ pc[t] = "collect"
    /\ \/ TakeExpired(t, "enter")
       \/ Expired = {} /\ Goto(t, "enter") /\ UNCHANGED <<q, hand, waiting>>
    /\ UNCHANGED <<full, stopped, closed, job, timer, late, answers>>

\* enqueueLocked and the unlock.
Enqueue(t) ==
    /\ q' = Append(q, t)
    /\ Signal
    /\ Goto(t, "done")
    /\ UNCHANGED <<hand, answers>>

\* The task is answered by its own goroutine and never queued.
TurnAway(t, reason) ==
    /\ Answer(t, reason)
    /\ Goto(t, "done")
    /\ UNCHANGED <<q, hand, waiting>>

\* timer.Stop: a timer whose function has begun still fires.
StopTimer(t) ==
    \/ timer' = [timer EXCEPT ![t] = IF @ = "armed" THEN "off" ELSE @]
    \/ timer[t] = "armed" /\ t \in late /\ UNCHANGED timer

\* One round of the loop of submitWaitLocked, or what follows the loop.
WaitRound(t) ==
    \/ /\ ~Room /\ timer[t] # "fired" /\ ~closed
       /\ \/ TakeExpired(t, "wait") /\ UNCHANGED answers
          \/ /\ Expired = {}
             /\ waiting' = waiting \cup {t}
             /\ Goto(t, "wait")
             /\ UNCHANGED <<q, hand, answers>>
       /\ timer' = [timer EXCEPT ![t] = "armed"]
    \/ closed /\ TurnAway(t, "deadline") /\ StopTimer(t)
    \/ ~closed /\ Room /\ Enqueue(t) /\ StopTimer(t)
    \/ ~closed /\ ~Room /\ timer[t] = "fired" /\ TurnAway(t, "deadline") /\ UNCHANGED timer

\* The part of Submit under the mutex.
Enter(t) ==
    /\ pc[t] = "enter"
    /\ Free(t)
    /\ \/ closed /\ TurnAway(t, "deadline") /\ UNCHANGED timer
       \/ ~closed /\ Room /\ Enqueue(t) /\ UNCHANGED timer
       \/ ~closed /\ ~Room /\ full = "drop" /\ TurnAway(t, "limit") /\ UNCHANGED timer
       \/ /\ ~closed /\ ~Room /\ full = "wait"
          /\ IF t \in late THEN TurnAway(t, "deadline") /\ UNCHANGED timer
                           ELSE WaitRound(t)
    /\ UNCHANGED <<full, stopped, closed, job, late>>

\* The wait goes on after cond.Wait returned, or after replyDead.
WaitOn(t) ==
    /\ pc[t] = "wait"
    /\ Free(t)
    /\ WaitRound(t)
    /\ UNCHANGED <<full, stopped, closed, job, late>>

\* Mutant of TimerFires: the wait is cut short.
TimerFiresEarly(t) ==
    /\ timer[t] = "armed"
    /\ timer' = [timer EXCEPT ![t] = "fired"]
    /\ Broadcast
    /\ UNCHANGED <<full, q, stopped, closed, pc, hand, job, late, answers>>

\* The function of the timer.
TimerFires(t) ==
    /\ timer[t] = "armed" /\ t \in late
    /\ timer' = [timer EXCEPT ![t] = "fired"]
    /\ Broadcast
    /\ UNCHANGED <<full, q, stopped, closed, pc, hand, job, late, answers>>

(***************************************************************************)
(* Workers, the sweeper, Close and the clock                               *)
(***************************************************************************)

\* pop: the expired tasks and the first of the others, or nothing and an end.
Pop(w) ==
    /\ pc[w] = "run"
    /\ Free(w)
    /\ hand' = [hand EXCEPT ![w] = Expired]
    /\ \/ /\ Kept # <<>>
          /\ job' = [job EXCEPT ![w] = Head(Kept)]
          /\ q' = Tail(Kept)
          /\ Broadcast
          /\ Goto(w, "handle")
       \/ /\ Kept = <<>> /\ closed
          /\ q' = <<>>
          /\ IF Expired # {} THEN Broadcast ELSE UNCHANGED waiting
          /\ Goto(w, "exit")
          /\ UNCHANGED job
       \/ /\ Kept = <<>> /\ ~closed /\ Expired # {}
          /\ q' = <<>>
          /\ Broadcast
          /\ UNCHANGED <<pc, job>>
       \/ /\ q = <<>> /\ ~closed
          /\ waiting' = waiting \cup {w}
          /\ UNCHANGED <<q, pc, job>>
    /\ UNCHANGED <<full, stopped, closed, timer, late, answers>>

\* budget and the handler: a task that ran out of time since is shed.
Handle(w) ==
    /\ pc[w] = "handle"
    /\ Free(w)
    /\ Answer(job[w], IF job[w] \in late THEN "deadline" ELSE "checked")
    /\ job' = [job EXCEPT ![w] = NoTask]
    /\ Goto(w, "run")
    /\ UNCHANGED <<full, q, stopped, closed, waiting, hand, timer, late>>

\* A tick of sweep(); one may still win the select after the stop.
Sweep ==
    /\ pc[Sweeper] = "run" /\ Free(Sweeper)
    /\ TakeExpired(Sweeper, "run")
    /\ UNCHANGED <<full, stopped, closed, job, timer, late, answers>>

SweepEnds ==
    /\ pc[Sweeper] = "run" /\ Free(Sweeper)
    /\ stopped
    /\ Goto(Sweeper, "exit")
    /\ UNCHANGED <<full, q, stopped, closed, waiting, hand, job, timer, late, answers>>

\* Close, first half: close(p.stop).
CloseStop ==
    /\ ~stopped
    /\ stopped' = TRUE
    /\ UNCHANGED <<full, q, closed, waiting, pc, hand, job, timer, late, answers>>

\* Mutant of CloseQueue: nobody is woken.
CloseQueueQuiet ==
    /\ stopped /\ ~closed
    /\ closed' = TRUE
    /\ UNCHANGED <<full, q, stopped, waiting, pc, hand, job, timer, late, answers>>

\* Close, second half: closed under the mutex; then it waits for the goroutines.
CloseQueue ==
    /\ stopped /\ ~closed
    /\ closed' = TRUE
    /\ Broadcast
    /\ UNCHANGED <<full, q, stopped, pc, hand, job, timer, late, answers>>

\* A task runs out of time.
RunsLate(t) ==
    /\ t \notin late
    /\ late' = late \cup {t}
    /\ UNCHANGED <<full, q, stopped, closed, waiting, pc, hand, job, timer, answers>>

SubmitStep(t) == SubmitStart(t) \/ Collect(t) \/ Enter(t) \/ WaitOn(t)
WorkerStep(w) == Pop(w) \/ Handle(w)

Next ==
    \/ \E t \in Tasks : SubmitStep(t) \/ TimerFires(t) \/ RunsLate(t)
    \/ \E w \in Workers : WorkerStep(w)
    \/ \E a \in Actors : ReplyDead(a)
    \/ Sweep \/ SweepEnds \/ CloseStop \/ CloseQueue

\* The steps of one goroutine: of a caller once it is in Submit, of a worker and
\* of the sweeper.
CallerStep(t) == Collect(t) \/ Enter(t) \/ WaitOn(t) \/ ReplyDead(t)
WorkerGoes(w) == WorkerStep(w) \/ ReplyDead(w)
SweeperStep == Sweep \/ SweepEnds \/ ReplyDead(Sweeper)

\* Goroutines that can go on do; deadlines pass and timers fire, each at most
\* once for a task; Close, once begun, goes on.
Fairness ==
    /\ \A t \in Tasks : WF_vars(CallerStep(t))
    /\ WF_vars(\E t \in Tasks : TimerFires(t)) /\ WF_vars(\E t \in Tasks : RunsLate(t))
    /\ \A w \in Workers : WF_vars(WorkerGoes(w))
    /\ WF_vars(SweeperStep) /\ WF_vars(CloseQueue)

Spec == Init /\ [][Next]_vars /\ Fairness

(***************************************************************************)
(* Properties                                                              *)
(***************************************************************************)

\* What wg.Wait in Close waits for.
GoroutinesEnded == \A a \in Workers \cup {Sweeper} : pc[a] = "exit" /\ hand[a] = {}

Reasons == {"checked", "deadline", "limit"}

\* Type correctness of the queue, of the goroutines and of the answers; queue_max
\* bounds the queue, whichever waiting caller is woken first.
TypeOK ==
    /\ full \in {"drop", "wait"}
    /\ q \in Seq(Tasks) /\ Len(q) <= Depth
    /\ stopped \in BOOLEAN /\ closed \in BOOLEAN
    /\ waiting \subseteq Tasks \cup Workers
    /\ pc \in [Actors -> {"idle", "collect", "enter", "wait", "done", "run", "handle", "exit"}]
    /\ hand \in [Actors -> SUBSET Tasks]
    /\ job \in [Workers -> Tasks \cup {NoTask}]
    /\ timer \in [Tasks -> {"off", "armed", "fired"}]
    /\ late \subseteq Tasks
    /\ answers \in [Tasks -> Seq(Reasons)]

\* Places in the pool where task t is.
Held(t) ==
    Cardinality({i \in 1 .. Len(q) : q[i] = t})
    + Cardinality({a \in Actors : t \in hand[a]})
    + Cardinality({w \in Workers : job[w] = t})

\* Every task that Submit has let go is in one place only: in the queue, in
\* the hands of the goroutine that took it, or answered, once; so no request
\* is answered twice and none is lost, whoever found it expired and whatever
\* the order of Submit, pop, the sweep and Close.
OnePlace ==
    \A t \in Tasks :
        Held(t) + Len(answers[t]) = IF pc[t] = "done" THEN 1 ELSE 0

\* Signal wakes the right goroutine: callers wait only for a full queue, and
\* while a worker waits every queued task has a worker on its way to pop, so
\* the one shared condition loses no wake-up.
NoLostWakeup ==
    /\ \A t \in Tasks \cap waiting : ~Room /\ ~closed /\ timer[t] # "fired"
    /\ Workers \cap waiting # {} =>
         Len(q) <= Cardinality({w \in Workers \ waiting : pc[w] = "run"})

\* Where task t is, for a caller of the pool.
Place(t) ==
    CASE pc[t] = "idle" -> "new"
      [] answers[t] # <<>> -> "answered"
      [] pc[t] \in {"collect", "enter", "wait"} -> "calling"
      [] t \in ToSet(q) -> "queued"
      [] \E c \in Tasks : t \in hand[c] -> "caller"
      [] OTHER -> "pool"

Promise == INSTANCE PoolPromise WITH
    task <- [t \in Tasks |-> Place(t)],
    why <- [t \in Tasks |-> IF answers[t] = <<>> THEN "none" ELSE Head(answers[t])]

\* The pool keeps its promise to the inspector: one call of the handler for each
\* task, AUTH_DEADLINE_EXCEEDED only for a task that ran out of time or a pool
\* that is closing, AUTH_QUEUE_LIMIT only when the queue is full and callers do
\* not wait for room (inspector.conf:8-9), a queue within queue_max; and when
\* the goroutines that Close waits for have ended, nothing is left but what
\* callers hold.
KeepsPromise ==
    /\ Promise!Spec
    /\ [](GoroutinesEnded => Promise!Drained)

\* Every task that is submitted is answered in the end, before, during and
\* after Close.
EveryTaskAnswered == <>[](\A t \in Tasks : pc[t] # "idle" => answers[t] # <<>>)

\* Close returns: the workers and the sweeper end.
CloseReturns ==
    stopped ~> GoroutinesEnded
=============================================================================
