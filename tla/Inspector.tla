----------------------------- MODULE Inspector -----------------------------
(***************************************************************************)
(* The inspector process around its queue: the NATS client delivers one    *)
(* message at a time, receive answers what it can by itself and submits    *)
(* the rest, evaluate runs on the pool's goroutines or, for what is shed,  *)
(* on the delivery goroutine, send publishes the reply and hands a record  *)
(* to the audit sink, rules write lists and ask other inspectors; SIGTERM  *)
(* drains, closes the pool, then the sink, then the connection.            *)
(*                                                                         *)
(* Code modelled: cmd/inspector/handler.go (receive, evaluate, inspect,    *)
(* send, recoverInto, fireEvent, fireOverload, overloadOnShed), lists.go,  *)
(* main.go (run), internal/overload, the replies of internal/protocol.     *)
(* The queue is its promise, PoolPromise, which QueuePool implements; what *)
(* the gate decides is GateFlow.  The client library is external: it       *)
(* drops what exceeds the pending limit and Drain is asynchronous.         *)
(***************************************************************************)
EXTENDS Integers, Sequences, FiniteSets, SequencesExt

CONSTANTS
    Streams,    \* sequences of messages that may arrive, see KindType
    Depth,      \* queue_max
    Workers,    \* WAF_AUTH_WORKERS
    Spare,      \* what SetPendingLimits adds to them: 2 in main.go
    Rules,      \* the list rules of the profile, see RuleType
    MaxUnsent   \* bound on the publications that fail

Msgs == UNION {1 .. Len(s) : s \in Streams}

\* What Parse, Supports and the phase tell apart, whether the message has a
\* reply subject and an audit subject, and whether its profile is on.
KindType ==
    [is : {"malformed", "version", "frame", "request", "response"},
     reply : BOOLEAN, audit : BOOLEAN, on : BOOLEAN]

\* A rule that writes a list, for an event of the gate or for overload, with the
\* address or with the networks that the coder knows of it.  Asks of other
\* inspectors are part of the reply, whose content is left out.
RuleType == [on : {"event", "overload"}, net : BOOLEAN, at : 25 .. 100]

ASSUME InspectorAssumption ==
    /\ Depth \in Nat \ {0} /\ Workers \in Nat \ {0} /\ Spare \in Nat
    /\ MaxUnsent \in Nat
    /\ Streams # {} /\ \A s \in Streams : s \in Seq(KindType)
    /\ Rules \subseteq RuleType

VARIABLES
    full, task, why, late, closed,  \* the pool, see PoolPromise
    kind,     \* the messages
    arrived,  \* how many of them have arrived
    buffer,   \* the client's buffer, the message being delivered at its head
    dropped,  \* messages that exceeded the pending limit
    at,       \* how far each message has come
    runner,   \* the goroutine that evaluates it: "delivery" or "pool"
    fill,     \* Task.Fill
    sent,     \* how many replies were published for each message
    unsent,   \* messages whose publish failed
    ran,      \* how often each rule was run for each message
    pending,  \* records handed to the audit sink and not known to have left it
    phase     \* of the process

pool == <<full, task, why, late, closed>>
net == <<kind, arrived, buffer, dropped>>
work == <<at, runner, fill, sent, unsent, ran>>
vars == <<pool, net, work, pending, phase>>

Pool == INSTANCE PoolPromise WITH Tasks <- Msgs

Arrived == 1 .. arrived

Init ==
    /\ Pool!Init
    /\ kind \in Streams
    /\ arrived = 0 /\ buffer = <<>> /\ dropped = {}
    /\ at = [m \in Msgs |-> "new"]
    /\ runner = [m \in Msgs |-> "none"]
    /\ fill = [m \in Msgs |-> 0]
    /\ sent = [m \in Msgs |-> 0]
    /\ unsent = {}
    /\ ran = [m \in Msgs |-> [r \in Rules |-> 0]]
    /\ pending = {}
    /\ phase = "run"

Running == phase # "exited"

(***************************************************************************)
(* The client library: the buffer of the subscription                      *)
(***************************************************************************)

PendingLimit == Depth + Workers + Spare

Arrive ==
    /\ Running /\ arrived < Len(kind)
    /\ arrived' = arrived + 1
    /\ IF Len(buffer) < PendingLimit
       THEN buffer' = Append(buffer, arrived') /\ UNCHANGED dropped
       ELSE dropped' = dropped \cup {arrived'} /\ UNCHANGED buffer
    /\ UNCHANGED <<kind, pool, work, pending, phase>>

\* The delivery goroutine is at message m; Evaluating(g) is what g evaluates.
Delivers(m) == buffer # <<>> /\ Head(buffer) = m
Evaluating(g) == {m \in Msgs : runner[m] = g /\ at[m] # "done"}
DeliveryFree == Evaluating("delivery") = {} /\ Pool!In("caller") = {}

\* receive returns and the next message is delivered.
Returns(m) ==
    /\ Running /\ Delivers(m) /\ DeliveryFree
    /\ at[m] = "done" \/ task[m] \notin {"new", "calling"}
    /\ buffer' = Tail(buffer)
    /\ UNCHANGED <<kind, arrived, dropped, pool, work, pending, phase>>

(***************************************************************************)
(* receive                                                                 *)
(***************************************************************************)

\* send, up to audit.Add: without a reply subject nothing happens, a failed publish
\* is only logged; req tells whether send is given the request, without which, as
\* without an audit subject, there is no record.
Sends(m, req) ==
    /\ \/ ~kind[m].reply /\ UNCHANGED <<sent, unsent>>
       \/ kind[m].reply /\ sent' = [sent EXCEPT ![m] = @ + 1] /\ UNCHANGED unsent
       \/ /\ kind[m].reply /\ Cardinality(unsent) < MaxUnsent
          /\ unsent' = unsent \cup {m} /\ UNCHANGED sent
    /\ at' = [at EXCEPT ![m] = IF kind[m].reply /\ req /\ kind[m].audit THEN "record" ELSE "done"]

\* Messages that receive answers by itself.
Rejects(m) ==
    /\ Running /\ Delivers(m) /\ at[m] = "new"
    /\ kind[m].is \in {"malformed", "version", "frame"}
    /\ runner' = [runner EXCEPT ![m] = "delivery"]
    /\ Sends(m, kind[m].is # "malformed")
    /\ UNCHANGED <<pool, net, fill, ran, pending, phase>>

\* evaluate is called for m by goroutine g.
Called(m, g) ==
    /\ at' = [at EXCEPT ![m] = "evaluate"]
    /\ runner' = [runner EXCEPT ![m] = g]
    /\ UNCHANGED <<net, sent, unsent, ran, pending, phase>>

\* h.pool.Submit, up to where the task is answered or the mutex is taken.
Submits(m) ==
    /\ Running /\ Delivers(m) /\ at[m] = "new"
    /\ kind[m].is \in {"request", "response"}
    /\ Pool!Submit(m)
    /\ IF m \in late
       THEN Called(m, "delivery") /\ UNCHANGED fill
       ELSE UNCHANGED <<net, work, pending, phase>>

\* fillLocked.
Fill ==
    LET n == Cardinality(Pool!In("queued")) IN
    IF n >= Depth THEN 100 ELSE (n * 100) \div Depth

\* The caller waits for room: it found the queue full.
WaitsForRoom(m) ==
    /\ Running /\ task[m] = "calling" /\ DeliveryFree
    /\ full = "wait" /\ Fill = 100 /\ fill[m] # 100
    /\ fill' = [fill EXCEPT ![m] = 100]
    /\ UNCHANGED <<pool, net, at, runner, sent, unsent, ran, pending, phase>>

Enqueues(m) ==
    /\ Running /\ DeliveryFree
    /\ Pool!Enqueue(m)
    /\ fill' = [fill EXCEPT ![m] = IF @ = 100 THEN 100 ELSE Fill]
    /\ UNCHANGED <<net, at, runner, sent, unsent, ran, pending, phase>>

TurnsAway(m) ==
    /\ Running /\ DeliveryFree
    /\ \E reason \in {"limit", "deadline"} : Pool!TurnAway(m, reason)
    /\ fill' = [fill EXCEPT ![m] = IF closed THEN @ ELSE Fill]
    /\ Called(m, "delivery")

\* Tasks leave the queue, for the pool's goroutines or for the caller.
Takes ==
    /\ Running
    /\ \E S \in SUBSET Pool!In("queued") :
         \/ Pool!Take(S, "pool")
         \/ DeliveryFree /\ Pool!Take(S, "caller")
    /\ UNCHANGED <<net, work, pending, phase>>

\* The handler is called for a task taken from the queue.
Answers(m) ==
    LET g == IF task[m] = "caller" THEN "delivery" ELSE "pool" IN
    /\ Running
    /\ Cardinality(Evaluating(g)) < (IF g = "pool" THEN Workers + 1 ELSE 1)
    /\ Pool!Answer(m)
    /\ Called(m, g)
    /\ UNCHANGED fill

RunsLate(m) ==
    /\ Running /\ m \notin late
    /\ Delivers(m) \/ task[m] \in {"queued", "pool", "caller"}
    /\ Pool!RunsLate(m)
    /\ UNCHANGED <<net, work, pending, phase>>

(***************************************************************************)
(* evaluate                                                                *)
(***************************************************************************)

\* The messages that the gate is asked about.
Gated(m) == kind[m].is = "request" /\ kind[m].on

\* overload.Fires
Fires(threshold, percent, shed) == shed \/ (threshold < 100 /\ percent >= threshold)

\* The rules that are due: for the event of the gate, if there is one, and for
\* overload.
EventDue(event) == {r \in Rules : event /\ r.on = "event"}
OverloadDue(percent, shed) == {r \in Rules : r.on = "overload" /\ Fires(r.at, percent, shed)}

\* The rules that a message runs; what becomes of each write is left out: a failed
\* publish and an address unknown to the coder are logged, and the loop goes on
\* even when the coder fails.
Runs(m, due) ==
    ran' = [ran EXCEPT ![m] = [r \in Rules |-> @[r] + (IF r \in due THEN 1 ELSE 0)]]

\* What evaluate leaves alone; the task, and its Fill with it, is gone afterwards.
Evaluated(m) ==
    /\ fill' = [fill EXCEPT ![m] = 0]
    /\ UNCHANGED <<pool, net, runner, pending, phase>>

\* Mutant of EvaluateShed: the return after the send of the shed reply is missing.
EvaluateShedOn(m) ==
    /\ Running /\ at[m] = "evaluate" /\ why[m] # "checked"
    /\ kind[m].reply /\ sent' = [sent EXCEPT ![m] = @ + 2]
    /\ at' = [at EXCEPT ![m] = "done"]
    /\ Evaluated(m) /\ UNCHANGED <<unsent, ran>>

\* evaluate with a reason to shed, and overloadOnShed: only a full queue counts.
EvaluateShed(m) ==
    /\ Running /\ at[m] = "evaluate" /\ why[m] # "checked"
    /\ Runs(m, IF why[m] = "limit" /\ Gated(m) THEN OverloadDue(fill[m], TRUE) ELSE {})
    /\ Sends(m, TRUE)
    /\ Evaluated(m)

\* inspect and the send of its reply: a response, a profile that is unknown or off,
\* headers that the store does not give, or the rules for the event of the gate
\* and, unless the coder failed, those for overload.
Inspect(m) ==
    /\ Running /\ at[m] = "evaluate" /\ why[m] = "checked"
    /\ \/ Runs(m, {})
       \/ /\ Gated(m)
          /\ \E event \in BOOLEAN :
               \/ Runs(m, EventDue(event) \cup OverloadDue(fill[m], FALSE))
               \/ (\E r \in EventDue(event) : r.net) /\ Runs(m, EventDue(event))
    /\ Sends(m, TRUE)
    /\ Evaluated(m)

\* Mutant of Panics: the panic is recovered in receive, for the message in hand.
PanicsInReceive(m) ==
    /\ Running /\ at[m] = "evaluate"
    /\ IF runner[m] = "delivery" /\ ~Delivers(m)
       THEN at' = [at EXCEPT ![m] = "done"] /\ UNCHANGED <<sent, unsent>>
       ELSE Sends(m, FALSE)
    /\ Evaluated(m) /\ UNCHANGED ran

\* A panic in evaluate, before or after some rules were run, which recoverInto
\* turns into a reply to the same message.
Panics(m) ==
    /\ Running /\ at[m] = "evaluate"
    /\ \E due \in SUBSET {r \in Rules : Gated(m) /\ why[m] # "deadline"} : Runs(m, due)
    /\ Sends(m, FALSE)
    /\ Evaluated(m)

\* The rest of send: audit.Add.
Records(m) ==
    /\ Running /\ at[m] = "record"
    /\ at' = [at EXCEPT ![m] = "done"]
    /\ pending' = pending \cup {m}
    /\ UNCHANGED <<pool, net, runner, fill, sent, unsent, ran, phase>>

(***************************************************************************)
(* The audit sink and the end of the process                               *)
(***************************************************************************)

\* SIGTERM: stop(), sub.Drain(), which does not wait, and the start of pool.Close.
Terminates ==
    /\ phase = "run"
    /\ phase' = "close"
    /\ Pool!Close
    /\ UNCHANGED <<net, work, pending>>

\* Mutant of ClosesSink: pool.Close does not wait for its goroutines.
ClosesSinkEarly ==
    /\ phase = "close"
    /\ phase' = "closed"
    /\ pending' = {}
    /\ UNCHANGED <<pool, net, work>>

\* pool.Close returns and auditSink.Close makes the last flush; the ones before it,
\* AuditSink's matter, are left out.
ClosesSink ==
    /\ phase = "close"
    /\ Pool!Drained /\ Evaluating("pool") = {}
    /\ phase' = "closed"
    /\ pending' = {}
    /\ UNCHANGED <<pool, net, work>>

\* run returns: nc.Close, and the process ends under the delivery goroutine.
Exits ==
    /\ phase = "closed"
    /\ phase' = "exited"
    /\ UNCHANGED <<pool, net, work, pending>>

Evaluates(m) == EvaluateShed(m) \/ Inspect(m) \/ Panics(m) \/ Records(m)
Receives(m) == Rejects(m) \/ Submits(m) \/ Enqueues(m) \/ TurnsAway(m) \/ Returns(m)
Shutdown == ClosesSink \/ Exits

Next ==
    \/ Arrive
    \/ \E m \in Arrived : Receives(m) \/ WaitsForRoom(m) \/ Answers(m) \/ RunsLate(m) \/ Evaluates(m)
    \/ Takes \/ Terminates \/ Shutdown

\* What the process does by itself.
Goes ==
    \/ \E m \in Arrived : Receives(m) \/ Answers(m) \/ RunsLate(m) \/ Evaluates(m)
    \/ Takes \/ Shutdown

\* The process goes on as long as one of its goroutines can: the pool's do
\* (QueuePool: every task is answered, Close returns), deadlines pass, and every
\* call in an evaluation has a timeout.  No message is at the same place twice,
\* so this is as much as fairness to each goroutine.
Fairness == WF_vars(Goes)

Spec == Init /\ [][Next]_vars /\ Fairness

(***************************************************************************)
(* Properties                                                              *)
(***************************************************************************)

\* A message is handled once: one reply at most, whoever evaluated it and whether
\* or not it panicked, and each rule is run at most once for it.
HandledOnce ==
    \A m \in Arrived : sent[m] <= 1 /\ \A r \in Rules : ran[m][r] <= 1

\* What a message is still owed: a reply, or the record of one.
Owed(m) ==
    \/ kind[m].reply /\ sent[m] = 0 /\ m \notin unsent
    \/ at[m] = "record" \/ m \in pending

\* A shutdown loses nothing that the pool took: when the process ends, a message
\* without its reply or its record was dropped by the client, is still in its
\* buffer, or was in the hands of the delivery goroutine, which nothing waits for: a task that
\* Submit found expired in the queue may be lost that way too.
ShutdownAccounted ==
    phase = "exited" =>
        \A m \in Arrived :
            Owed(m) => \/ m \in dropped \cup ToSet(buffer)
                       \/ task[m] = "caller" \/ runner[m] = "delivery"

\* Every message with a reply subject is answered in the end, by whatever path,
\* unless the client dropped it or could not publish or the process ends; and the
\* process does end once it is told to.
AnsweredInTheEnd ==
    <>[](/\ phase \in {"run", "exited"}
         /\ phase = "run" =>
              \A m \in Arrived : kind[m].reply => sent[m] > 0 \/ m \in dropped \cup unsent)
=============================================================================
