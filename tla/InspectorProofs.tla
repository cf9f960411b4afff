--------------------------- MODULE InspectorProofs ---------------------------
(* Proofs about Inspector and about LearnApp, for every value of their     *)
(* constants.  The two share no state: the handler's part of a response is *)
(* in Inspector, what observe learns from it in LearnApp.                  *)
EXTENDS Inspector, LearnApp, TLAPS

(***************************************************************************)
(* The inductive invariant                                                 *)
(***************************************************************************)

\* The places of a task that Submit has let go and nobody has answered.
InPool == {"queued", "pool", "caller"}
\* How far the evaluation of a message can be.
Stages == {"new", "evaluate", "record", "done"}

\* The types of the process's state.
TypeOK ==
    /\ kind \in Streams /\ arrived \in 0 .. Len(kind)
    /\ buffer \in Seq(Msgs)
    /\ task \in [Msgs -> {"new", "calling", "answered"} \cup InPool]
    /\ at \in [Msgs -> Stages]
    /\ runner \in [Msgs -> {"none", "delivery", "pool"}]
    /\ sent \in [Msgs -> Nat]
    /\ ran \in [Msgs -> [Rules -> Nat]]

\* The messages that receive submits.
Submitted(m) == kind[m].is \in {"request", "response"}

\* How far a message has come, what was done for it, and where its task is.
Stage(m) ==
    /\ at[m] \in {"new", "evaluate"} =>
         m \notin pending /\ sent[m] = 0 /\ \A r \in Rules : ran[m][r] = 0
    /\ sent[m] <= 1 /\ \A r \in Rules : ran[m][r] <= 1
    /\ at[m] # "new" => runner[m] # "none"
    /\ at[m] \in {"record", "done"} => (kind[m].reply => sent[m] > 0 \/ m \in unsent)
    /\ at[m] = "record" => m \notin pending
    /\ task[m] \in InPool \cup {"calling"} => at[m] = "new"
    /\ task[m] = "answered" => at[m] # "new"
    /\ task[m] # "new" => Submitted(m)

\* A message that arrived is with the client, or receive went on with it.
Somewhere(m) ==
    m \in dropped \cup ToSet(buffer) \/ at[m] # "new" \/ task[m] \in InPool

\* What pool.Close leaves: the queue shut and empty, and nothing of the pool's
\* goroutines that the last flush did not take.
Ending ==
    /\ phase # "run" => closed
    /\ phase \in {"closed", "exited"} =>
         \A m \in Msgs : /\ task[m] \notin {"queued", "pool"}
                         /\ runner[m] = "pool" => at[m] = "done" /\ m \notin pending

\* The inductive invariant.
IInv ==
    /\ TypeOK
    /\ \A m \in Msgs : Stage(m)
    /\ \A m \in Arrived : Somewhere(m)
    /\ Ending

(***************************************************************************)
(* What the steps do                                                       *)
(***************************************************************************)

\* The messages that have arrived are messages.
LEMMA ArrivedFacts ==
    ASSUME TypeOK
    PROVE  Len(kind) \in Nat /\ arrived \in Nat /\ Arrived \subseteq Msgs
  BY InspectorAssumption DEF TypeOK, Arrived, Msgs

\* Tasks of a set move to one place.
LEMMA MoveFacts ==
    ASSUME TypeOK, NEW S, NEW p, Pool!Move(S, p)
    PROVE  /\ \A u \in Msgs : task'[u] = IF u \in S THEN p ELSE task[u]
           /\ p \in {"new", "calling", "answered"} \cup InPool =>
                task' \in [Msgs -> {"new", "calling", "answered"} \cup InPool]
  BY DEF Pool!Move, TypeOK

\* The steps of the pool: which task goes where, and that closed stays.
LEMMA PoolFacts ==
    ASSUME TypeOK
    PROVE  /\ \A m \in Msgs : Pool!Submit(m) /\ m \notin late =>
                task[m] = "new" /\ Pool!Move({m}, "calling") /\ UNCHANGED closed
           /\ \A m \in Msgs : Pool!Submit(m) /\ m \in late =>
                task[m] = "new" /\ Pool!Move({m}, "answered") /\ UNCHANGED closed
           /\ \A m \in Msgs : Pool!Enqueue(m) =>
                task[m] = "calling" /\ ~closed /\ Pool!Move({m}, "queued") /\ UNCHANGED closed
           /\ \A m \in Msgs, reason \in {"limit", "deadline"} : Pool!TurnAway(m, reason) =>
                task[m] = "calling" /\ Pool!Move({m}, "answered") /\ UNCHANGED closed
           /\ \A S, who : Pool!Take(S, who) =>
                /\ S # {} /\ \A m \in S : m \in Msgs /\ task[m] = "queued"
                /\ who \in {"pool", "caller"} /\ Pool!Move(S, who) /\ UNCHANGED closed
           /\ \A m \in Msgs : Pool!Answer(m) =>
                task[m] \in {"pool", "caller"} /\ Pool!Move({m}, "answered") /\ UNCHANGED closed
<1>1. ASSUME NEW m \in Msgs, NEW reason, Pool!Hand(m, reason)
      PROVE  Pool!Move({m}, "answered") /\ UNCHANGED closed
  BY <1>1 DEF Pool!Hand
<1>2. ASSUME NEW m \in Msgs, Pool!Submit(m)
      PROVE  /\ task[m] = "new" /\ UNCHANGED closed
             /\ m \notin late => Pool!Move({m}, "calling")
             /\ m \in late => Pool!Move({m}, "answered")
  BY <1>2, <1>1 DEF Pool!Submit
<1>3. ASSUME NEW m \in Msgs, Pool!Enqueue(m)
      PROVE  task[m] = "calling" /\ ~closed /\ Pool!Move({m}, "queued") /\ UNCHANGED closed
  BY <1>3 DEF Pool!Enqueue
<1>4. ASSUME NEW m \in Msgs, NEW reason \in {"limit", "deadline"}, Pool!TurnAway(m, reason)
      PROVE  task[m] = "calling" /\ Pool!Move({m}, "answered") /\ UNCHANGED closed
  BY <1>4, <1>1 DEF Pool!TurnAway
<1>5. ASSUME NEW S, NEW who, Pool!Take(S, who)
      PROVE  /\ S # {} /\ \A m \in S : m \in Msgs /\ task[m] = "queued"
             /\ who \in {"pool", "caller"} /\ Pool!Move(S, who) /\ UNCHANGED closed
  BY <1>5 DEF Pool!Take, Pool!In
<1>6. ASSUME NEW m \in Msgs, Pool!Answer(m)
      PROVE  task[m] \in {"pool", "caller"} /\ Pool!Move({m}, "answered") /\ UNCHANGED closed
  BY <1>6 DEF Pool!Answer, Pool!Hand
<1> QED
  BY <1>2, <1>3, <1>4, <1>5, <1>6

\* send, for a message that nothing was sent for.
LEMMA SendsFacts ==
    ASSUME TypeOK, NEW m \in Msgs, NEW req, Sends(m, req), sent[m] = 0
    PROVE  /\ at' \in [Msgs -> Stages] /\ at'[m] \in {"record", "done"}
           /\ sent' \in [Msgs -> Nat] /\ sent'[m] <= 1
           /\ kind[m].reply => sent'[m] > 0 \/ m \in unsent'
           /\ unsent \subseteq unsent'
           /\ \A u \in Msgs \ {m} : at'[u] = at[u] /\ sent'[u] = sent[u]
<1>1. \E x \in {"record", "done"} : at' = [at EXCEPT ![m] = x]
  BY DEF Sends
<1>2. \/ ~kind[m].reply /\ UNCHANGED <<sent, unsent>>
      \/ sent' = [sent EXCEPT ![m] = 1] /\ UNCHANGED unsent
      \/ unsent' = unsent \cup {m} /\ UNCHANGED sent
  BY DEF Sends, TypeOK
<1> QED
  BY <1>1, <1>2 DEF TypeOK, Stages

\* The rules that were run for a message.
LEMMA RunsFacts ==
    ASSUME TypeOK, NEW m \in Msgs, NEW due, Runs(m, due), \A r \in Rules : ran[m][r] = 0
    PROVE  /\ ran' \in [Msgs -> [Rules -> Nat]]
           /\ \A r \in Rules : ran'[m][r] <= 1
           /\ \A u \in Msgs \ {m} : ran'[u] = ran[u]
<1> DEFINE f == [r \in Rules |-> ran[m][r] + (IF r \in due THEN 1 ELSE 0)]
<1>1. f \in [Rules -> Nat] /\ \A r \in Rules : f[r] <= 1
  OBVIOUS
<1>2. ran' = [ran EXCEPT ![m] = f]
  BY DEF Runs
<1> HIDE DEF f
<1> QED
  BY <1>1, <1>2 DEF TypeOK

\* A message that a step has nothing to do with, except that its task may move
\* through the pool.
LEMMA StageStays ==
    ASSUME NEW m \in Msgs, Stage(m), kind' = kind,
           at'[m] = at[m], runner'[m] = runner[m], sent'[m] = sent[m], ran'[m] = ran[m],
           unsent \subseteq unsent', m \in pending' => m \in pending,
           \/ task'[m] = task[m]
           \/ task'[m] \in InPool \cup {"calling"} /\ at[m] = "new" /\ Submitted(m)
    PROVE  Stage(m)'
  BY DEF Stage, InPool, Submitted

\* A message that is somewhere stays somewhere: it leaves the buffer only for a
\* receiver or to be dropped, and the pool only for a handler.
LEMMA SomewhereStays ==
    ASSUME NEW m, Somewhere(m),
           dropped \subseteq dropped', m \in ToSet(buffer) => m \in ToSet(buffer'),
           at[m] # "new" => at'[m] # "new",
           task[m] \in InPool => task'[m] \in InPool \/ at'[m] # "new"
    PROVE  Somewhere(m)'
  BY DEF Somewhere

\* The invariant after a step that no message arrives in.
LEMMA Kept ==
    ASSUME IInv, TypeOK', UNCHANGED <<kind, arrived>>,
           dropped \subseteq dropped', phase' = phase, closed' = closed,
           \A m \in Msgs : Stage(m)',
           \A m \in Arrived : Somewhere(m)',
           \A m \in Msgs : /\ task'[m] \in {"queued", "pool"} =>
                                task[m] \in {"queued", "pool"} \/ ~closed
                           /\ runner'[m] = "pool" =>
                                \/ runner[m] = "pool" /\ (at[m] = "done" => at'[m] = "done")
                                \/ task[m] = "pool"
                           /\ m \in pending' => m \in pending \/ at[m] = "record"
    PROVE  IInv'
<1>1. Ending'
  BY DEF IInv, Ending
<1> QED
  BY <1>1 DEF IInv, Arrived

\* A message is replied to, and the record of the reply is still to be added,
\* or not: rules may have been run for it before.
LEMMA SendKeeps ==
    ASSUME IInv, NEW m \in Arrived, NEW req, Sends(m, req), at[m] \in {"new", "evaluate"},
           runner' = IF at[m] = "new" THEN [runner EXCEPT ![m] = "delivery"] ELSE runner,
           at[m] = "new" => task[m] \notin InPool \cup {"calling"},
           UNCHANGED ran \/ \E due : Runs(m, due),
           UNCHANGED <<pool, net, pending, phase>>
    PROVE  IInv'
<1>1. TypeOK /\ m \in Msgs /\ Stage(m) /\ UNCHANGED <<task, closed, kind, arrived, buffer, dropped>>
  BY ArrivedFacts DEF IInv, pool, net
<1>2. sent[m] = 0 /\ m \notin pending /\ \A r \in Rules : ran[m][r] = 0
  BY <1>1 DEF Stage
<1>3. /\ at' \in [Msgs -> Stages] /\ at'[m] \in {"record", "done"}
      /\ sent' \in [Msgs -> Nat] /\ sent'[m] <= 1
      /\ kind[m].reply => sent'[m] > 0 \/ m \in unsent'
      /\ unsent \subseteq unsent'
      /\ \A u \in Msgs \ {m} : at'[u] = at[u] /\ sent'[u] = sent[u]
  BY <1>1, <1>2, SendsFacts
<1>4. /\ ran' \in [Msgs -> [Rules -> Nat]] /\ \A r \in Rules : ran'[m][r] <= 1
      /\ \A u \in Msgs \ {m} : ran'[u] = ran[u]
  <2>1. CASE UNCHANGED ran
    BY <1>1, <1>2, <2>1 DEF TypeOK
  <2>2. CASE \E due : Runs(m, due)
    BY <1>1, <1>2, <2>2, RunsFacts
  <2> QED
    BY <2>1, <2>2
<1>5. /\ runner' \in [Msgs -> {"none", "delivery", "pool"}]
      /\ runner'[m] # "none" /\ (runner'[m] = "pool" => runner[m] = "pool")
      /\ \A u \in Msgs \ {m} : runner'[u] = runner[u]
  BY <1>1 DEF TypeOK, Stage
<1>6. TypeOK'
  BY <1>1, <1>3, <1>4, <1>5 DEF TypeOK
<1>7. ASSUME NEW u \in Msgs
      PROVE  Stage(u)'
  <2>1. CASE u = m
    BY <1>1, <1>2, <1>3, <1>4, <1>5, <2>1 DEF Stage, Submitted
  <2>2. CASE u # m
    BY <1>1, <1>3, <1>4, <1>5, <2>2, StageStays DEF IInv
  <2> QED
    BY <2>1, <2>2
<1>8. ASSUME NEW u \in Arrived
      PROVE  Somewhere(u)'
  <2>1. u \in Msgs /\ Somewhere(u)
    BY <1>1, ArrivedFacts DEF IInv
  <2>2. at[u] # "new" => at'[u] # "new"
    BY <1>3, <2>1
  <2> QED
    BY <1>1, <2>1, <2>2, SomewhereStays
<1>9. ASSUME NEW u \in Msgs, runner'[u] = "pool"
      PROVE  runner[u] = "pool" /\ (at[u] = "done" => at'[u] = "done")
  BY <1>1, <1>3, <1>5, <1>9
<1> QED
  BY <1>1, <1>6, <1>7, <1>8, <1>9, Kept

\* Tasks move through the pool, and nothing is evaluated.
LEMMA MoveKeeps ==
    ASSUME IInv, NEW S, NEW p, Pool!Move(S, p),
           \A m \in S : m \in Msgs /\ at[m] = "new" /\ Submitted(m),
           \/ p = "calling" /\ \A m \in S : task[m] = "new"
           \/ p = "queued" /\ ~closed
           \/ p \in {"pool", "caller"} /\ \A m \in S : task[m] = "queued",
           UNCHANGED <<closed, net, at, runner, sent, unsent, ran, pending, phase>>
    PROVE  IInv'
<1>1. TypeOK /\ UNCHANGED <<kind, arrived, buffer, dropped>>
      /\ \A u \in Msgs : task'[u] = IF u \in S THEN p ELSE task[u]
  BY MoveFacts DEF IInv, net
<1>2. task' \in [Msgs -> {"new", "calling", "answered"} \cup InPool]
  BY <1>1, MoveFacts DEF InPool
<1>3. TypeOK'
  BY <1>1, <1>2 DEF TypeOK
<1>4. ASSUME NEW u \in Msgs
      PROVE  Stage(u)'
  BY <1>1, StageStays DEF IInv, InPool
<1>5. ASSUME NEW u \in Arrived
      PROVE  Somewhere(u)'
  BY <1>1, ArrivedFacts, SomewhereStays DEF IInv, InPool
<1>6. ASSUME NEW u \in Msgs, task'[u] \in {"queued", "pool"}
      PROVE  task[u] \in {"queued", "pool"} \/ ~closed
  BY <1>1, <1>6
<1> QED
  BY <1>1, <1>3, <1>4, <1>5, <1>6, Kept

\* The handler is called, by goroutine g.
LEMMA CallKeeps ==
    ASSUME IInv, NEW m \in Arrived, NEW g \in {"delivery", "pool"}, Called(m, g),
           Pool!Move({m}, "answered"), UNCHANGED closed, at[m] = "new", Submitted(m),
           g = "pool" => task[m] = "pool"
    PROVE  IInv'
<1>1. /\ TypeOK /\ m \in Msgs /\ Stage(m) /\ UNCHANGED <<kind, arrived, buffer, dropped>>
      /\ UNCHANGED <<sent, unsent, ran, pending, phase>>
      /\ at' = [at EXCEPT ![m] = "evaluate"] /\ runner' = [runner EXCEPT ![m] = g]
  BY ArrivedFacts DEF IInv, net, Called
<1>2. /\ \A u \in Msgs : task'[u] = IF u = m THEN "answered" ELSE task[u]
      /\ task' \in [Msgs -> {"new", "calling", "answered"} \cup InPool]
  BY <1>1, MoveFacts
<1>3. /\ at' \in [Msgs -> Stages] /\ at'[m] = "evaluate"
      /\ runner' \in [Msgs -> {"none", "delivery", "pool"}] /\ runner'[m] = g
      /\ \A u \in Msgs \ {m} : at'[u] = at[u] /\ runner'[u] = runner[u]
  BY <1>1 DEF TypeOK, Stages
<1>4. TypeOK'
  BY <1>1, <1>2, <1>3 DEF TypeOK
<1>5. ASSUME NEW u \in Msgs
      PROVE  Stage(u)'
  <2>1. CASE u = m
    BY <1>1, <1>2, <1>3, <2>1 DEF Stage, InPool, Submitted
  <2>2. CASE u # m
    BY <1>1, <1>2, <1>3, <2>2, StageStays DEF IInv
  <2> QED
    BY <2>1, <2>2
<1>6. ASSUME NEW u \in Arrived
      PROVE  Somewhere(u)'
  <2>1. u \in Msgs /\ Somewhere(u)
    BY <1>1, ArrivedFacts DEF IInv
  <2>2. (at[u] # "new" => at'[u] # "new") /\ (task[u] \in InPool => task'[u] \in InPool \/ at'[u] # "new")
    BY <1>2, <1>3, <2>1
  <2> QED
    BY <1>1, <2>1, <2>2, SomewhereStays
<1>7. ASSUME NEW u \in Msgs
      PROVE  /\ task'[u] \in {"queued", "pool"} => task[u] \in {"queued", "pool"} \/ ~closed
             /\ runner'[u] = "pool" =>
                  \/ runner[u] = "pool" /\ (at[u] = "done" => at'[u] = "done")
                  \/ task[u] = "pool"
             /\ u \in pending' => u \in pending \/ at[u] = "record"
  BY <1>1, <1>2, <1>3
<1> QED
  BY <1>1, <1>4, <1>5, <1>6, <1>7, Kept

\* The record of a reply is handed to the sink.
LEMMA RecordKeeps ==
    ASSUME IInv, NEW m \in Arrived, Records(m)
    PROVE  IInv'
<1>1. /\ TypeOK /\ m \in Msgs /\ Stage(m) /\ at[m] = "record"
      /\ UNCHANGED <<task, closed, kind, arrived, buffer, dropped, runner, sent, unsent, ran, phase>>
      /\ at' = [at EXCEPT ![m] = "done"] /\ pending' = pending \cup {m}
  BY ArrivedFacts DEF IInv, net, pool, Records
<1>2. /\ at' \in [Msgs -> Stages] /\ at'[m] = "done" /\ \A u \in Msgs \ {m} : at'[u] = at[u]
  BY <1>1 DEF TypeOK, Stages
<1>3. TypeOK'
  BY <1>1, <1>2 DEF TypeOK
<1>4. ASSUME NEW u \in Msgs
      PROVE  Stage(u)'
  <2>1. CASE u = m
    BY <1>1, <1>2, <2>1 DEF Stage, Submitted
  <2>2. CASE u # m
    BY <1>1, <1>2, <2>2, StageStays DEF IInv
  <2> QED
    BY <2>1, <2>2
<1>5. ASSUME NEW u \in Arrived
      PROVE  Somewhere(u)'
  BY <1>1, <1>2, ArrivedFacts, SomewhereStays DEF IInv
<1>6. ASSUME NEW u \in Msgs
      PROVE  /\ at[u] = "done" => at'[u] = "done"
             /\ u \in pending' => u \in pending \/ at[u] = "record"
  BY <1>1, <1>2
<1> QED
  BY <1>1, <1>3, <1>4, <1>5, <1>6, Kept

\* Nothing that the invariant speaks of changes, but for what is late.
LEMMA SameKeeps ==
    ASSUME IInv, UNCHANGED <<task, closed, net, at, runner, sent, unsent, ran, pending, phase>>
    PROVE  IInv'
<1>1. UNCHANGED <<kind, arrived, buffer, dropped>>
  BY DEF net
<1>2. TypeOK' /\ Ending'
  BY <1>1 DEF IInv, TypeOK, Ending
<1>3. ASSUME NEW u \in Msgs
      PROVE  Stage(u)'
  BY <1>1, StageStays DEF IInv
<1>4. ASSUME NEW u \in Arrived
      PROVE  Somewhere(u)'
  BY <1>1, SomewhereStays DEF IInv
<1> QED
  BY <1>1, <1>2, <1>3, <1>4 DEF IInv, Arrived

(***************************************************************************)
(* The invariant                                                           *)
(***************************************************************************)

\* A message that receive is at, or whose task is in the pool, is of the
\* subscription's own.
LEMMA ReceiveKeeps ==
    ASSUME IInv, NEW m \in Arrived, Receives(m)
    PROVE  IInv'
<1>1. TypeOK /\ m \in Msgs /\ Stage(m)
  BY ArrivedFacts DEF IInv
<1>2. CASE Submits(m)
  <2>1. at[m] = "new" /\ Pool!Submit(m) /\ task[m] = "new" /\ Submitted(m)
    BY <1>1, <1>2, PoolFacts DEF Submits, Submitted
  <2>2. CASE m \in late
    <3>1. Called(m, "delivery") /\ Pool!Move({m}, "answered") /\ UNCHANGED closed
      BY <1>1, <1>2, <2>1, <2>2, PoolFacts DEF Submits
    <3> QED
      BY <2>1, <3>1, CallKeeps
  <2>3. CASE m \notin late
    <3>1. Pool!Move({m}, "calling") /\ UNCHANGED <<closed, net, work, pending, phase>>
      BY <1>1, <1>2, <2>1, <2>3, PoolFacts DEF Submits
    <3>2. UNCHANGED <<at, runner, sent, unsent, ran>>
      BY <3>1 DEF work
    <3> QED
      BY <1>1, <2>1, <3>1, <3>2, MoveKeeps
  <2> QED
    BY <2>2, <2>3
<1>3. CASE Rejects(m)
  <2>1. at[m] = "new" /\ task[m] = "new"
    BY <1>1, <1>3 DEF Rejects, Stage, Submitted
  <2>2. \E req : Sends(m, req)
    BY <1>3 DEF Rejects
  <2>3. /\ runner' = [runner EXCEPT ![m] = "delivery"]
        /\ UNCHANGED <<pool, net, ran, pending, phase>>
    BY <1>3 DEF Rejects
  <2> QED
    BY <2>1, <2>2, <2>3, SendKeeps DEF InPool
<1>4. CASE Enqueues(m)
  <2>1. /\ task[m] = "calling" /\ ~closed /\ Pool!Move({m}, "queued") /\ UNCHANGED closed
        /\ UNCHANGED <<net, at, runner, sent, unsent, ran, pending, phase>>
    BY <1>1, <1>4, PoolFacts DEF Enqueues
  <2>2. at[m] = "new" /\ Submitted(m)
    BY <1>1, <2>1 DEF Stage
  <2> QED
    BY <1>1, <2>1, <2>2, MoveKeeps
<1>5. CASE TurnsAway(m)
  <2>1. /\ task[m] = "calling" /\ Pool!Move({m}, "answered") /\ UNCHANGED closed
        /\ Called(m, "delivery")
    BY <1>1, <1>5, PoolFacts DEF TurnsAway
  <2>2. at[m] = "new" /\ Submitted(m)
    BY <1>1, <2>1 DEF Stage
  <2> QED
    BY <2>1, <2>2, CallKeeps
<1>6. CASE Returns(m)
  <2>1. /\ buffer # <<>> /\ m = Head(buffer) /\ buffer' = Tail(buffer)
        /\ at[m] = "done" \/ task[m] \notin {"new", "calling"}
        /\ UNCHANGED <<kind, arrived, dropped, task, closed, at, runner, sent, unsent, ran>>
        /\ UNCHANGED <<pending, phase>>
    BY <1>6 DEF Returns, Delivers, pool, work
  <2>2. buffer' \in Seq(Msgs)
    BY <1>1, <2>1 DEF TypeOK
  <2>3. TypeOK' /\ Ending'
    BY <1>1, <2>1, <2>2 DEF TypeOK, IInv, Ending
  <2>4. ASSUME NEW u \in Msgs
        PROVE  Stage(u)'
    BY <2>1, StageStays DEF IInv
  <2>5. ASSUME NEW u \in Arrived
        PROVE  Somewhere(u)'
    <3>1. Somewhere(u)
      BY DEF IInv
    <3>2. CASE u = m
      BY <1>1, <2>1, <3>2 DEF Stage, Somewhere, InPool, TypeOK
    <3>3. CASE u # m
      <4>1. ASSUME u \in ToSet(buffer)
            PROVE  u \in ToSet(buffer')
        <5>1. PICK i \in 1 .. Len(buffer) : u = buffer[i]
          <6>1. DOMAIN buffer = 1 .. Len(buffer)
            BY <2>1 DEF TypeOK
          <6>2. ToSet(buffer) = {buffer[i] : i \in DOMAIN buffer}
            BY DEF ToSet
          <6> QED
            BY <4>1, <6>1, <6>2
        <5>2. /\ i # 1 /\ i - 1 \in 1 .. Len(Tail(buffer))
              /\ Tail(buffer)[i - 1] = buffer[i]
          BY <1>1, <2>1, <3>3, <5>1 DEF TypeOK
        <5>3. DOMAIN buffer' = 1 .. Len(Tail(buffer)) /\ buffer' = Tail(buffer)
          BY <2>1, <2>2 DEF TypeOK
        <5>4. ToSet(buffer') = {buffer'[j] : j \in DOMAIN buffer'}
          BY DEF ToSet
        <5> QED
          BY <5>1, <5>2, <5>3, <5>4
      <4> QED
        BY <2>1, <3>1, <4>1, SomewhereStays
    <3> QED
      BY <3>2, <3>3
  <2> QED
    BY <2>1, <2>3, <2>4, <2>5 DEF IInv, Arrived
<1> QED
  BY <1>2, <1>3, <1>4, <1>5, <1>6 DEF Receives

\* evaluate, by whatever goroutine and with whatever outcome.
LEMMA EvaluateKeeps ==
    ASSUME IInv, NEW m \in Arrived, Evaluates(m)
    PROVE  IInv'
<1>1. CASE EvaluateShed(m) \/ Inspect(m) \/ Panics(m)
  <2>1. /\ at[m] = "evaluate" /\ UNCHANGED <<pool, net, runner, pending, phase>>
        /\ \E req : Sends(m, req)
    BY <1>1 DEF EvaluateShed, Inspect, Panics, Evaluated
  <2>2. \E due : Runs(m, due)
    BY <1>1 DEF EvaluateShed, Inspect, Panics
  <2> QED
    BY <2>1, <2>2, SendKeeps
<1> QED
  BY <1>1, RecordKeeps DEF Evaluates

\* A message arrives.
LEMMA ArriveKeeps ==
    ASSUME IInv, Arrive
    PROVE  IInv'
<1>1. /\ TypeOK /\ arrived \in Nat /\ Len(kind) \in Nat /\ arrived < Len(kind)
      /\ arrived' = arrived + 1
      /\ \/ buffer' = Append(buffer, arrived') /\ UNCHANGED dropped
         \/ dropped' = dropped \cup {arrived'} /\ UNCHANGED buffer
      /\ UNCHANGED <<kind, task, closed, at, runner, sent, unsent, ran, pending, phase>>
  BY ArrivedFacts DEF Arrive, IInv, pool, work
<1>2. arrived' \in Msgs /\ arrived' \in 0 .. Len(kind)
  BY <1>1 DEF Msgs, TypeOK
<1>3. /\ buffer' \in Seq(Msgs) /\ ToSet(buffer) \subseteq ToSet(buffer')
      /\ arrived' \in dropped' \cup ToSet(buffer') /\ dropped \subseteq dropped'
  <2>1. CASE UNCHANGED buffer
    BY <1>1, <1>2, <2>1 DEF TypeOK, ToSet
  <2>2. CASE buffer' = Append(buffer, arrived') /\ UNCHANGED dropped
    <3> DEFINE n == Len(buffer)
    <3>1. /\ buffer \in Seq(Msgs) /\ n \in Nat /\ buffer' \in Seq(Msgs) /\ Len(buffer') = n + 1
          /\ buffer'[n + 1] = arrived' /\ \A i \in 1 .. n : buffer'[i] = buffer[i]
      BY <1>1, <1>2, <2>2 DEF TypeOK
    <3>2. n + 1 \in 1 .. Len(buffer') /\ \A i \in 1 .. n : i \in 1 .. Len(buffer')
      BY <3>1
    <3> HIDE DEF n
    <3> QED
      BY <2>2, <3>1, <3>2 DEF ToSet, n
  <2> QED
    BY <1>1, <2>1, <2>2
<1>4. TypeOK' /\ Ending'
  BY <1>1, <1>2, <1>3 DEF TypeOK, IInv, Ending
<1>5. ASSUME NEW u \in Msgs
      PROVE  Stage(u)'
  BY <1>1, StageStays DEF IInv
<1>6. ASSUME NEW u \in 1 .. arrived + 1
      PROVE  Somewhere(u)'
  <2>1. CASE u = arrived + 1
    BY <1>1, <1>3, <2>1 DEF Somewhere
  <2>2. CASE u # arrived + 1
    <3>1. u \in Arrived
      BY <1>1, <2>2 DEF Arrived
    <3> QED
      BY <1>1, <1>3, <3>1, SomewhereStays DEF IInv
  <2> QED
    BY <2>1, <2>2
<1> QED
  BY <1>1, <1>4, <1>5, <1>6 DEF IInv, Arrived

\* The end of the process.
LEMMA EndKeeps ==
    ASSUME IInv, Terminates \/ ClosesSink \/ Exits
    PROVE  IInv'
<1>1. /\ TypeOK /\ UNCHANGED <<net, at, runner, sent, unsent, ran, task>>
      /\ UNCHANGED <<kind, arrived, buffer, dropped>> /\ pending' \subseteq pending
  BY DEF IInv, Terminates, ClosesSink, Exits, pool, work, net, Pool!Close
<1>2. TypeOK'
  BY <1>1 DEF TypeOK
<1>3. ASSUME NEW u \in Msgs
      PROVE  Stage(u)'
  BY <1>1, StageStays DEF IInv
<1>4. ASSUME NEW u \in Arrived
      PROVE  Somewhere(u)'
  BY <1>1, SomewhereStays DEF IInv
<1>5. Ending'
  <2>1. CASE Terminates
    BY <2>1 DEF Terminates, Pool!Close, Ending
  <2>2. CASE ClosesSink
    BY <1>1, <2>2 DEF ClosesSink, Pool!Drained, Pool!In, Evaluating, Ending, pool
  <2>3. CASE Exits
    BY <1>1, <2>3 DEF Exits, IInv, Ending, pool
  <2> QED
    BY <2>1, <2>2, <2>3
<1> QED
  BY <1>1, <1>2, <1>3, <1>4, <1>5 DEF IInv, Arrived

\* Every step keeps the invariant.
LEMMA NextInv ==
    ASSUME IInv, [Next]_vars
    PROVE  IInv'
<1>1. TypeOK /\ Arrived \subseteq Msgs
  BY ArrivedFacts DEF IInv
<1>2. ASSUME NEW m \in Arrived, WaitsForRoom(m) \/ RunsLate(m)
      PROVE  IInv'
  BY <1>2, SameKeeps DEF WaitsForRoom, RunsLate, Pool!RunsLate, pool, work
<1>3. ASSUME NEW m \in Arrived, Answers(m)
      PROVE  IInv'
  <2>1. /\ task[m] \in {"pool", "caller"} /\ Pool!Move({m}, "answered") /\ UNCHANGED closed
        /\ Called(m, IF task[m] = "caller" THEN "delivery" ELSE "pool")
    BY <1>1, <1>3, PoolFacts DEF Answers
  <2>2. at[m] = "new" /\ Submitted(m)
    BY <1>1, <2>1 DEF IInv, Stage, InPool
  <2> QED
    BY <2>1, <2>2, CallKeeps
<1>4. CASE Takes
  <2>1. PICK S : Pool!Take(S, "pool") \/ Pool!Take(S, "caller")
    BY <1>4 DEF Takes
  <2>2. UNCHANGED <<net, at, runner, sent, unsent, ran, pending, phase>>
    BY <1>4 DEF Takes, work
  <2>3. /\ \A m \in S : m \in Msgs /\ task[m] = "queued"
        /\ Pool!Move(S, "pool") \/ Pool!Move(S, "caller")
        /\ UNCHANGED closed
    BY <1>1, <2>1, PoolFacts
  <2>4. \A m \in S : at[m] = "new" /\ Submitted(m)
    BY <2>3 DEF IInv, Stage, InPool
  <2> QED
    BY <2>1, <2>2, <2>3, <2>4, MoveKeeps
<1>5. CASE UNCHANGED vars
  BY <1>5, SameKeeps DEF vars, pool, work
<1> QED
  BY <1>2, <1>3, <1>4, <1>5, ReceiveKeeps, EvaluateKeeps, ArriveKeeps, EndKeeps
  DEF Next, Shutdown

\* Before Run nothing has arrived and nothing is on its way.
LEMMA InitInv ==
    ASSUME Init
    PROVE  IInv
<1>1. /\ task = [m \in Msgs |-> "new"] /\ kind \in Streams /\ Len(kind) \in Nat /\ arrived = 0
      /\ buffer = <<>> /\ pending = {} /\ phase = "run"
      /\ at = [m \in Msgs |-> "new"] /\ runner = [m \in Msgs |-> "none"]
      /\ sent = [m \in Msgs |-> 0] /\ ran = [m \in Msgs |-> [r \in Rules |-> 0]]
  BY InspectorAssumption DEF Init, Pool!Init
<1>2. TypeOK
  <2>1. ran \in [Msgs -> [Rules -> Nat]]
    BY <1>1
  <2> QED
    BY <1>1, <2>1 DEF TypeOK, Stages
<1>3. \A m \in Msgs : Stage(m)
  BY <1>1 DEF Stage, InPool
<1>4. Arrived = {} /\ Ending
  BY <1>1 DEF Arrived, Ending
<1> QED
  BY <1>2, <1>3, <1>4 DEF IInv

(***************************************************************************)
(* The safety theorems                                                     *)
(***************************************************************************)

\* Whatever the client delivers, the pool answers and the goroutines evaluate:
\* how far each message has come agrees with what was done for it, and a
\* shutdown leaves nothing of the pool's behind.
THEOREM Invariance == Spec => []IInv
<1>1. Init => IInv
  BY InitInv
<1>2. IInv /\ [Next]_vars => IInv'
  BY NextInv
<1> QED
  BY <1>1, <1>2, PTL DEF Spec

\* One reply at most to a message, and each rule at most once for it, whoever
\* evaluated it and wherever it panicked.
THEOREM RepliesOnce == Spec => []HandledOnce
<1>1. IInv => HandledOnce
  BY ArrivedFacts DEF IInv, Stage, HandledOnce
<1> QED
  BY <1>1, Invariance, PTL

\* What a shutdown may lose: what the client had, and what the delivery goroutine
\* was at.
THEOREM NothingLost == Spec => []ShutdownAccounted
<1>1. ASSUME IInv, phase = "exited", NEW m \in Arrived, Owed(m)
      PROVE  \/ m \in dropped \cup ToSet(buffer)
             \/ task[m] = "caller" \/ runner[m] = "delivery"
  <2>1. /\ TypeOK /\ m \in Msgs /\ Stage(m) /\ Somewhere(m)
        /\ task[m] \notin {"queued", "pool"}
        /\ runner[m] = "pool" => at[m] = "done" /\ m \notin pending
    BY <1>1, ArrivedFacts DEF IInv, Ending
  <2>2. CASE at[m] = "new"
    BY <2>1, <2>2 DEF Somewhere, InPool
  <2>3. CASE at[m] # "new"
    <3>1. runner[m] \in {"delivery", "pool"}
      BY <2>1, <2>3 DEF Stage, TypeOK
    <3>2. runner[m] # "pool"
      BY <1>1, <2>1 DEF Owed, Stage, TypeOK
    <3> QED
      BY <3>1, <3>2
  <2> QED
    BY <2>2, <2>3
<1>2. IInv => ShutdownAccounted
  BY <1>1 DEF ShutdownAccounted
<1> QED
  BY <1>2, Invariance, PTL

(***************************************************************************)
(* Learning: the inductive invariant                                       *)
(***************************************************************************)

\* Responses of logins and of logouts, seen by observe and by the browser or
\* not yet.
LoginResponses ==
    [op : {"login"}, user : Users, issued : Cookies \cup {None}, requested : Cookies \cup {None},
     good : BOOLEAN, seen : BOOLEAN, out : BOOLEAN]
LogoutResponses ==
    [op : {"logout"}, user : {None}, issued : {None}, requested : Cookies,
     good : BOOLEAN, seen : BOOLEAN, out : BOOLEAN]

\* The types of the application, the browser, the responses and the list.
LearnTypeOK ==
    /\ known \subseteq Cookies /\ jar \in known \cup {None}
    /\ flight \in [Flights -> {Idle} \cup LoginResponses \cup LogoutResponses]
    /\ list \in [Cookies -> Users \cup {None}]
    /\ \A f \in Flights : flight[f] # Idle =>
         flight[f].issued \in known \cup {None} /\ flight[f].requested \in known \cup {None}

\* A login whose cookie the request did not have yet.
NewLogin(r) == r # Idle /\ r.op = "login" /\ r.issued # None /\ r.issued # r.requested

\* Only accepted logins, and those that look like one, issue a cookie of their own
\* with a status of success.
NewAccepted ==
    \A f \in Flights : NewLogin(flight[f]) /\ flight[f].good =>
        \/ <<flight[f].issued, flight[f].user>> \in accepted
        \/ flight[f].issued \in lookalike

\* Until the browser has the response of a login, nobody else knows its cookie;
\* when it comes before observe has seen the response, the cookie is in missed.
CookieIsNew ==
    \A f \in Flights : NewLogin(flight[f]) /\ ~flight[f].seen =>
        IF flight[f].out THEN flight[f].issued \in missed
        ELSE /\ jar # flight[f].issued /\ flight[f].issued \notin ended
             /\ \A g \in Flights : g # f /\ flight[g] # Idle =>
                  flight[f].issued \notin {flight[g].issued, flight[g].requested}

\* A logout that observe has still to take off the list.
Pending(r, c) == r # Idle /\ r.op = "logout" /\ r.good /\ ~r.seen /\ r.requested = c

\* A cookie that was logged out is off the list or is about to be.
LoggedOut ==
    \A c \in ended : \/ c \in blind \cup missed \/ list[c] = None
                     \/ \E f \in Flights : Pending(flight[f], c)

\* Only cookies that were handed out are logged out.
EndedKnown == ended \subseteq known

\* The inductive invariant.
LearnInv ==
    /\ LearnTypeOK /\ EndedKnown /\ NewAccepted /\ CookieIsNew /\ LoggedOut
    /\ TrustsAccepted

(***************************************************************************)
(* What the steps do                                                       *)
(***************************************************************************)

\* What a response can be.
LEMMA ResponseFacts ==
    ASSUME LearnTypeOK, NEW f \in Flights
    PROVE  /\ flight[f].op = "none" <=> flight[f] = Idle
           /\ flight[f].op = "login" <=> flight[f] \in LoginResponses
           /\ flight[f].op = "logout" <=> flight[f] \in LogoutResponses
           /\ flight[f].op \in {"none", "login", "logout"}
<1>1. flight[f] \in {Idle} \cup LoginResponses \cup LogoutResponses
  BY DEF LearnTypeOK
<1>2. Idle.op = "none"
  BY DEF Idle
<1>3. /\ \A r \in LoginResponses : r.op = "login"
      /\ \A r \in LogoutResponses : r.op = "logout"
  BY DEF LoginResponses, LogoutResponses
<1> QED
  BY <1>1, <1>2, <1>3

\* A step that brings a new response changes that of one flight.
LEMMA NewFlight ==
    ASSUME LearnTypeOK, NEW f \in Flights, NEW n, flight' = [flight EXCEPT ![f] = n]
    PROVE  /\ flight'[f] = n
           /\ \A g \in Flights : g # f => flight'[g] = flight[g]
           /\ \A g \in Flights : flight'[g] = n \/ flight'[g] = flight[g]
           /\ (n \in {Idle} \cup LoginResponses \cup LogoutResponses
                 => flight' \in [Flights -> {Idle} \cup LoginResponses \cup LogoutResponses])
  BY DEF LearnTypeOK

\* The application makes a session of nobody.
LEMMA VisitKeeps ==
    ASSUME LearnInv, NEW c \in Cookies, Visit(c)
    PROVE  LearnInv'
<1>1. /\ known' = known \cup {c} /\ jar' = c /\ c \notin known
      /\ UNCHANGED <<app, flight, list, accepted, ended, blind, missed, lookalike>>
  BY DEF Visit, history
<1>2. LearnTypeOK'
  BY <1>1 DEF LearnInv, LearnTypeOK
<1>3. NewAccepted' /\ LoggedOut' /\ TrustsAccepted'
  BY <1>1 DEF LearnInv, NewAccepted, NewLogin, LoggedOut, Pending, TrustsAccepted
<1>4. CookieIsNew'
  <2> SUFFICES ASSUME NEW f \in Flights, NewLogin(flight[f]), ~flight[f].seen
               PROVE  IF flight[f].out THEN flight[f].issued \in missed
                      ELSE /\ c # flight[f].issued /\ flight[f].issued \notin ended
                           /\ \A g \in Flights : g # f /\ flight[g] # Idle =>
                                flight[f].issued \notin {flight[g].issued, flight[g].requested}
    BY <1>1 DEF CookieIsNew, NewLogin
  <2>1. flight[f].issued \in known
    BY DEF LearnInv, LearnTypeOK, NewLogin
  <2> QED
    BY <1>1, <2>1 DEF LearnInv, CookieIsNew
<1> QED
  BY <1>1, <1>2, <1>3, <1>4 DEF LearnInv, EndedKnown

\* list.ttl is over for a record.
LEMMA ExpiresKeeps ==
    ASSUME LearnInv, NEW c \in Cookies, RecordExpires(c)
    PROVE  LearnInv'
<1>1. /\ list' = [list EXCEPT ![c] = None]
      /\ UNCHANGED <<app, known, jar, flight, accepted, ended, blind, missed, lookalike>>
  BY DEF RecordExpires, history
<1>2. /\ list' \in [Cookies -> Users \cup {None}]
      /\ \A d \in Cookies : list'[d] = None \/ list'[d] = list[d]
  BY <1>1 DEF LearnInv, LearnTypeOK
<1>3. LearnTypeOK' /\ NewAccepted' /\ CookieIsNew'
  BY <1>1, <1>2 DEF LearnInv, LearnTypeOK, NewAccepted, NewLogin, CookieIsNew
<1>4. LoggedOut'
  <2> SUFFICES ASSUME NEW d \in ended, d \notin blind \cup missed,
                      ~\E f \in Flights : Pending(flight[f], d)
               PROVE  list'[d] = None
    BY <1>1 DEF LoggedOut, Pending
  <2>1. list[d] = None
    BY DEF LearnInv, LoggedOut
  <2> QED
    BY <1>1, <2>1 DEF LearnInv, LearnTypeOK
<1>5. TrustsAccepted'
  BY <1>1, <1>2 DEF LearnInv, TrustsAccepted
<1> QED
  BY <1>1, <1>3, <1>4, <1>5 DEF LearnInv, EndedKnown

\* The application answers a login with a fresh cookie.
LEMMA FreshKeeps ==
    ASSUME LearnInv, NEW f \in Flights, NEW u \in Users, NEW c \in Cookies, NEW good \in BOOLEAN,
           flight[f] = Idle, c \notin known, known' = known \cup {c},
           flight' = [flight EXCEPT ![f] = Response("login", u, c, good)],
           UNCHANGED <<jar, list, ended, blind, missed>>,
           accepted \subseteq accepted', lookalike \subseteq lookalike',
           good => <<c, u>> \in accepted' \/ c \in lookalike'
    PROVE  LearnInv'
<1>1. PICK n : n = Response("login", u, c, good)
  OBVIOUS
<1>2. /\ flight[f] = Idle /\ c \notin known /\ known' = known \cup {c}
      /\ flight' = [flight EXCEPT ![f] = n]
      /\ UNCHANGED <<jar, list, ended, blind, missed>>
  BY <1>1
<1>3. /\ n.op = "login" /\ n.user = u /\ n.issued = c /\ n.requested = jar /\ n.good = good
      /\ n.seen = FALSE /\ n.out = FALSE /\ n # Idle
  <2>1. n = [op |-> "login", user |-> u, issued |-> c, requested |-> jar, good |-> good,
             seen |-> FALSE, out |-> FALSE]
    BY <1>1 DEF Response
  <2>2. Idle.op = "none"
    BY DEF Idle
  <2> QED
    BY <2>1, <2>2
<1>4. n \in LoginResponses
  BY <1>1 DEF Response, LoginResponses, LearnInv, LearnTypeOK
<1>5. /\ flight'[f] = n
      /\ \A g \in Flights : g # f => flight'[g] = flight[g]
      /\ \A g \in Flights : flight'[g] = n \/ flight'[g] = flight[g]
      /\ flight' \in [Flights -> {Idle} \cup LoginResponses \cup LogoutResponses]
  BY <1>2, <1>4, NewFlight DEF LearnInv
<1>6. LearnTypeOK'
  BY <1>2, <1>3, <1>5 DEF LearnInv, LearnTypeOK
<1>7. NewAccepted'
  <2> SUFFICES ASSUME NEW h \in Flights, NewLogin(flight'[h]), flight'[h].good
               PROVE  \/ <<flight'[h].issued, flight'[h].user>> \in accepted'
                      \/ flight'[h].issued \in lookalike'
    BY DEF NewAccepted, NewLogin
  <2>1. CASE h = f
    BY <1>3, <1>5, <2>1
  <2>2. CASE h # f
    BY <1>5, <2>2 DEF LearnInv, NewAccepted
  <2> QED
    BY <2>1, <2>2
<1>8. CookieIsNew'
  <2> SUFFICES ASSUME NEW h \in Flights, NEW r, r = flight'[h], NewLogin(r), ~r.seen
               PROVE  IF r.out THEN r.issued \in missed
                      ELSE /\ jar # r.issued /\ r.issued \notin ended
                           /\ \A g \in Flights : g # h /\ flight'[g] # Idle =>
                                r.issued \notin {flight'[g].issued, flight'[g].requested}
    BY <1>2 DEF CookieIsNew, NewLogin
  <2>1. CASE h = f
    <3>1. r = n
      BY <1>5, <2>1
    <3>2. c # jar /\ c # None
      BY <1>2, LearnAssumption DEF LearnInv, LearnTypeOK
    <3>3. c \notin ended
      BY <1>2 DEF LearnInv, EndedKnown
    <3>4. \A g \in Flights : g # h /\ flight[g] # Idle =>
             c \notin {flight[g].issued, flight[g].requested}
      BY <1>2, <3>2 DEF LearnInv, LearnTypeOK
    <3> QED
      BY <1>3, <1>5, <2>1, <3>1, <3>2, <3>3, <3>4
  <2>2. CASE h # f
    <3>1. r = flight[h]
      BY <1>5, <2>2
    <3>2. r.issued \in known
      BY <3>1 DEF LearnInv, LearnTypeOK, NewLogin
    <3>3. IF r.out THEN r.issued \in missed
          ELSE /\ jar # r.issued /\ r.issued \notin ended
               /\ \A g \in Flights : g # h /\ flight[g] # Idle =>
                    r.issued \notin {flight[g].issued, flight[g].requested}
      BY <3>1 DEF LearnInv, CookieIsNew
    <3>4. r.out \in BOOLEAN
      BY <3>1, ResponseFacts DEF LearnInv, NewLogin, LoginResponses
    <3> QED
      BY <1>2, <1>3, <1>5, <2>2, <3>2, <3>3, <3>4
  <2> QED
    BY <2>1, <2>2
<1>9. LoggedOut'
  <2>1. \A g \in Flights : \A d : Pending(flight[g], d) => g # f
    BY <1>2 DEF Pending
  <2> QED
    BY <1>2, <1>5, <2>1 DEF LearnInv, LoggedOut, Pending
<1>10. TrustsAccepted'
  BY <1>2 DEF LearnInv, TrustsAccepted
<1>11. EndedKnown'
  BY <1>2 DEF LearnInv, EndedKnown
<1> QED
  BY <1>6, <1>7, <1>8, <1>9, <1>10, <1>11 DEF LearnInv

\* The application accepts a login.
LEMMA AcceptedKeeps ==
    ASSUME LearnInv, NEW f \in Flights, NEW u \in Users, NEW c \in Cookies, LoginAccepted(f, u, c)
    PROVE  LearnInv'
<1>1. /\ flight[f] = Idle /\ c \notin known /\ known' = known \cup {c}
      /\ flight' = [flight EXCEPT ![f] = Response("login", u, c, TRUE)]
      /\ UNCHANGED <<jar, list, ended, blind, missed>>
      /\ accepted \subseteq accepted' /\ lookalike \subseteq lookalike'
      /\ <<c, u>> \in accepted'
  BY DEF LoginAccepted
<1> QED
  BY <1>1, FreshKeeps

\* The application rejects one and sets a fresh cookie.
LEMMA AnewKeeps ==
    ASSUME LearnInv, NEW f \in Flights, NEW u \in Users, NEW c \in Cookies, NEW good \in BOOLEAN,
           LoginRejectedAnew(f, u, c, good)
    PROVE  LearnInv'
<1>1. /\ flight[f] = Idle /\ c \notin known /\ known' = known \cup {c}
      /\ flight' = [flight EXCEPT ![f] = Response("login", u, c, good)]
      /\ UNCHANGED <<jar, list, ended, blind, missed>>
      /\ accepted \subseteq accepted' /\ lookalike \subseteq lookalike'
      /\ good => c \in lookalike'
  BY DEF LoginRejectedAnew
<1> QED
  BY <1>1, FreshKeeps

\* The application rejects a login, and may set the cookie of the visit again.
LEMMA RejectedKeeps ==
    ASSUME LearnInv, NEW f \in Flights, NEW u \in Users, NEW good \in BOOLEAN,
           LoginRejected(f, u, good)
    PROVE  LearnInv'
<1>1. /\ flight[f] = Idle
      /\ UNCHANGED <<app, known, jar, list, accepted, ended, blind, missed, lookalike>>
  BY DEF LoginRejected, history
<1>2. PICK c \in {None, jar} : flight' = [flight EXCEPT ![f] = Response("login", u, c, good)]
  BY DEF LoginRejected
<1>3. PICK n : n = Response("login", u, c, good)
  OBVIOUS
<1>4. /\ n.op = "login" /\ n.issued = c /\ n.requested = jar /\ n.seen = FALSE /\ n # Idle
  <2>1. n = [op |-> "login", user |-> u, issued |-> c, requested |-> jar, good |-> good,
             seen |-> FALSE, out |-> FALSE]
    BY <1>3 DEF Response
  <2>2. Idle.op = "none"
    BY DEF Idle
  <2> QED
    BY <2>1, <2>2
<1>5. n \in LoginResponses
  BY <1>3 DEF Response, LoginResponses, LearnInv, LearnTypeOK
<1>6. /\ flight'[f] = n
      /\ \A g \in Flights : g # f => flight'[g] = flight[g]
      /\ flight' \in [Flights -> {Idle} \cup LoginResponses \cup LogoutResponses]
  BY <1>2, <1>3, <1>5, NewFlight DEF LearnInv
<1>7. ~NewLogin(n)
  BY <1>4 DEF NewLogin
<1>8. LearnTypeOK'
  BY <1>1, <1>4, <1>6 DEF LearnInv, LearnTypeOK
<1>9. NewAccepted'
  BY <1>1, <1>6, <1>7 DEF LearnInv, NewAccepted
<1>10. CookieIsNew'
  <2> SUFFICES ASSUME NEW h \in Flights, NewLogin(flight'[h]), ~flight'[h].seen
               PROVE  IF flight'[h].out THEN flight'[h].issued \in missed
                      ELSE /\ jar # flight'[h].issued /\ flight'[h].issued \notin ended
                           /\ \A g \in Flights : g # h /\ flight'[g] # Idle =>
                                flight'[h].issued \notin {flight'[g].issued, flight'[g].requested}
    BY <1>1 DEF CookieIsNew
  <2>1. h # f /\ flight'[h] = flight[h]
    BY <1>6, <1>7
  <2>2. flight[h].issued # None /\ NewLogin(flight[h]) /\ ~flight[h].seen
    BY <2>1 DEF NewLogin
  <2>3. IF flight[h].out THEN flight[h].issued \in missed
        ELSE /\ jar # flight[h].issued /\ flight[h].issued \notin ended
             /\ \A g \in Flights : g # h /\ flight[g] # Idle =>
                  flight[h].issued \notin {flight[g].issued, flight[g].requested}
    BY <2>2 DEF LearnInv, CookieIsNew
  <2> QED
    BY <1>4, <1>6, <2>1, <2>2, <2>3
<1>11. LoggedOut'
  <2>1. \A g \in Flights : \A d : Pending(flight[g], d) => g # f
    BY <1>1 DEF Pending
  <2> QED
    BY <1>1, <1>6, <2>1 DEF LearnInv, LoggedOut, Pending
<1> QED
  BY <1>1, <1>8, <1>9, <1>10, <1>11 DEF LearnInv, EndedKnown, TrustsAccepted

\* A logout, which the application accepts or refuses.
LEMMA LogoutKeeps ==
    ASSUME LearnInv, NEW f \in Flights, NEW good \in BOOLEAN, LogoutPosted(f, good)
    PROVE  LearnInv'
<1>1. PICK n : n = Response("logout", None, None, good)
  OBVIOUS
<1>2. /\ flight[f] = Idle /\ jar # None
      /\ ended' = (IF good THEN ended \cup {jar} ELSE ended)
      /\ flight' = [flight EXCEPT ![f] = n]
      /\ UNCHANGED <<known, jar, list, accepted, blind, missed, lookalike>>
  BY <1>1 DEF LogoutPosted
<1>3. /\ n.op = "logout" /\ n.issued = None /\ n.requested = jar /\ n.seen = FALSE /\ n # Idle
  <2>1. n = [op |-> "logout", user |-> None, issued |-> None, requested |-> jar,
             good |-> good, seen |-> FALSE, out |-> FALSE]
    BY <1>1 DEF Response
  <2>2. Idle.op = "none"
    BY DEF Idle
  <2> QED
    BY <2>1, <2>2
<1>4. n.good = good
  BY <1>1 DEF Response
<1>5. jar \in known /\ jar \in Cookies
  BY <1>2 DEF LearnInv, LearnTypeOK
<1>6. n \in LogoutResponses
  BY <1>1, <1>5 DEF Response, LogoutResponses
<1>7. /\ flight'[f] = n
      /\ \A g \in Flights : g # f => flight'[g] = flight[g]
      /\ flight' \in [Flights -> {Idle} \cup LoginResponses \cup LogoutResponses]
  BY <1>2, <1>6, NewFlight DEF LearnInv
<1>8. ~NewLogin(n)
  BY <1>3 DEF NewLogin
<1>9. LearnTypeOK'
  BY <1>2, <1>3, <1>7 DEF LearnInv, LearnTypeOK
<1>10. NewAccepted'
  BY <1>2, <1>7, <1>8 DEF LearnInv, NewAccepted
<1>11. CookieIsNew'
  <2> SUFFICES ASSUME NEW h \in Flights, NewLogin(flight'[h]), ~flight'[h].seen
               PROVE  IF flight'[h].out THEN flight'[h].issued \in missed
                      ELSE /\ jar # flight'[h].issued /\ flight'[h].issued \notin ended'
                           /\ \A g \in Flights : g # h /\ flight'[g] # Idle =>
                                flight'[h].issued \notin {flight'[g].issued, flight'[g].requested}
    BY <1>2 DEF CookieIsNew
  <2>1. h # f /\ flight'[h] = flight[h]
    BY <1>7, <1>8
  <2>2. flight[h].issued # None /\ NewLogin(flight[h]) /\ ~flight[h].seen
    BY <2>1 DEF NewLogin
  <2>3. IF flight[h].out THEN flight[h].issued \in missed
        ELSE /\ jar # flight[h].issued /\ flight[h].issued \notin ended
             /\ \A g \in Flights : g # h /\ flight[g] # Idle =>
                  flight[h].issued \notin {flight[g].issued, flight[g].requested}
    BY <2>2 DEF LearnInv, CookieIsNew
  <2> QED
    BY <1>2, <1>3, <1>7, <2>1, <2>2, <2>3
<1>12. LoggedOut'
  <2> SUFFICES ASSUME NEW d \in ended', d \notin blind \cup missed, list[d] # None
               PROVE  \E g \in Flights : Pending(flight'[g], d)
    BY <1>2 DEF LoggedOut
  <2>1. CASE d \in ended
    <3>1. PICK g \in Flights : Pending(flight[g], d)
      BY <2>1 DEF LearnInv, LoggedOut
    <3>2. g # f
      BY <1>2, <3>1 DEF Pending
    <3> QED
      BY <1>7, <3>1, <3>2 DEF Pending
  <2>2. CASE d \notin ended
    <3>1. good /\ d = jar
      BY <1>2, <2>2
    <3> QED
      BY <1>3, <1>4, <1>7, <3>1 DEF Pending
  <2> QED
    BY <2>1, <2>2
<1>13. EndedKnown' /\ TrustsAccepted'
  BY <1>2, <1>5 DEF LearnInv, EndedKnown, TrustsAccepted
<1> QED
  BY <1>9, <1>10, <1>11, <1>12, <1>13 DEF LearnInv

\* The browser has a response.
LEMMA ReleaseKeeps ==
    ASSUME LearnInv, NEW f \in Flights, Release(f)
    PROVE  LearnInv'
<1>1. PICK r : r = flight[f]
  OBVIOUS
<1>2. PICK o : o = [r EXCEPT !.out = TRUE]
  OBVIOUS
<1>3. PICK n : n = IF r.seen THEN Idle ELSE o
  OBVIOUS
<1>4. /\ r # Idle
      /\ flight' = [flight EXCEPT ![f] = n]
      /\ UNCHANGED <<known, list, accepted, ended, blind, lookalike>>
  BY <1>1, <1>2, <1>3 DEF Release
<1>5. /\ jar' \in {None, jar} \/ (r.op = "login" /\ jar' = r.issued)
      /\ missed \subseteq missed'
      /\ r.op = "login" /\ ~r.seen /\ r.issued # None => r.issued \in missed'
  BY <1>1, <1>4, ResponseFacts DEF Release, Touched, LearnInv
<1>6. r \in LoginResponses \cup LogoutResponses
  BY <1>1, <1>4 DEF LearnInv, LearnTypeOK
<1>7. /\ o.op = r.op /\ o.user = r.user /\ o.issued = r.issued /\ o.requested = r.requested
      /\ o.out = TRUE
      /\ o \in LoginResponses \cup LogoutResponses
  BY <1>2, <1>6 DEF LoginResponses, LogoutResponses
<1>8. (o.seen <=> r.seen) /\ (o.good <=> r.good)
  BY <1>2, <1>6 DEF LoginResponses, LogoutResponses
<1>9. /\ flight'[f] = n
      /\ \A g \in Flights : g # f => flight'[g] = flight[g]
      /\ flight' \in [Flights -> {Idle} \cup LoginResponses \cup LogoutResponses]
  BY <1>3, <1>4, <1>7, NewFlight DEF LearnInv
<1>10. /\ r.issued \in known \cup {None} /\ r.requested \in known \cup {None}
  BY <1>1, <1>4 DEF LearnInv, LearnTypeOK
<1>11. LearnTypeOK'
  <2>1. jar' \in known \cup {None}
    BY <1>5, <1>10 DEF LearnInv, LearnTypeOK
  <2>2. \A g \in Flights : flight'[g] # Idle =>
          flight'[g].issued \in known \cup {None} /\ flight'[g].requested \in known \cup {None}
    BY <1>3, <1>7, <1>9, <1>10 DEF LearnInv, LearnTypeOK
  <2> QED
    BY <1>4, <1>9, <2>1, <2>2 DEF LearnInv, LearnTypeOK
<1>12. NewLogin(n) => NewLogin(r)
  BY <1>3, <1>4, <1>7 DEF NewLogin
<1>13. NewAccepted'
  <2> SUFFICES ASSUME NEW h \in Flights, NewLogin(flight'[h]), flight'[h].good
               PROVE  \/ <<flight'[h].issued, flight'[h].user>> \in accepted
                      \/ flight'[h].issued \in lookalike
    BY <1>4 DEF NewAccepted
  <2>1. CASE h = f
    <3>1. n = o
      BY <1>3, <1>9, <2>1 DEF NewLogin
    <3>2. NewLogin(r) /\ r.good
      BY <1>8, <1>9, <1>12, <2>1, <3>1
    <3> QED
      BY <1>1, <1>7, <1>9, <2>1, <3>1, <3>2 DEF LearnInv, NewAccepted
  <2>2. CASE h # f
    BY <1>9, <2>2 DEF LearnInv, NewAccepted
  <2> QED
    BY <2>1, <2>2
<1>14. CookieIsNew'
  <2> SUFFICES ASSUME NEW h \in Flights, NewLogin(flight'[h]), ~flight'[h].seen
               PROVE  IF flight'[h].out THEN flight'[h].issued \in missed'
                      ELSE /\ jar' # flight'[h].issued /\ flight'[h].issued \notin ended
                           /\ \A g \in Flights : g # h /\ flight'[g] # Idle =>
                                flight'[h].issued \notin {flight'[g].issued, flight'[g].requested}
    BY <1>4 DEF CookieIsNew
  <2>1. CASE h = f
    <3>1. n = o
      BY <1>3, <1>9, <2>1 DEF NewLogin
    <3>2. r.op = "login" /\ r.issued # None /\ ~r.seen
      BY <1>7, <1>8, <1>9, <2>1, <3>1 DEF NewLogin
    <3> QED
      BY <1>5, <1>7, <1>9, <2>1, <3>1, <3>2
  <2>2. CASE h # f
    <3>1. flight'[h] = flight[h]
      BY <1>9, <2>2
    <3>2. flight[h].issued # None /\ NewLogin(flight[h]) /\ ~flight[h].seen
      BY <3>1 DEF NewLogin
    <3>3. IF flight[h].out THEN flight[h].issued \in missed
          ELSE /\ jar # flight[h].issued /\ flight[h].issued \notin ended
               /\ \A g \in Flights : g # h /\ flight[g] # Idle =>
                    flight[h].issued \notin {flight[g].issued, flight[g].requested}
      BY <3>2 DEF LearnInv, CookieIsNew
    <3>4. CASE flight[h].out
      BY <1>5, <3>1, <3>3, <3>4
    <3>5. CASE ~flight[h].out
      <4>1. flight[h].issued \notin {r.issued, r.requested}
        BY <1>1, <1>4, <2>2, <3>3, <3>5
      <4>2. jar' # flight[h].issued
        BY <1>5, <3>2, <3>3, <3>5, <4>1
      <4>3. \A g \in Flights : g # h /\ flight'[g] # Idle =>
              flight[h].issued \notin {flight'[g].issued, flight'[g].requested}
        BY <1>3, <1>7, <1>9, <3>3, <3>5, <4>1
      <4> QED
        BY <3>1, <3>3, <3>5, <4>2, <4>3
    <3> QED
      BY <3>4, <3>5
  <2> QED
    BY <2>1, <2>2
<1>15. LoggedOut'
  <2> SUFFICES ASSUME NEW d \in ended, d \notin blind \cup missed', list[d] # None
               PROVE  \E g \in Flights : Pending(flight'[g], d)
    BY <1>4 DEF LoggedOut
  <2>1. PICK g \in Flights : Pending(flight[g], d)
    BY <1>5 DEF LearnInv, LoggedOut
  <2>2. CASE g = f
    <3>1. n = o
      BY <1>1, <1>3, <2>1, <2>2 DEF Pending
    <3>2. n # Idle
      BY <1>7, <3>1 DEF LoginResponses, LogoutResponses, Idle
    <3> QED
      BY <1>1, <1>7, <1>8, <1>9, <2>1, <2>2, <3>1, <3>2 DEF Pending
  <2>3. CASE g # f
    BY <1>9, <2>1, <2>3 DEF Pending
  <2> QED
    BY <2>2, <2>3
<1>16. EndedKnown' /\ TrustsAccepted'
  BY <1>4 DEF LearnInv, EndedKnown, TrustsAccepted
<1> QED
  BY <1>11, <1>13, <1>14, <1>15, <1>16 DEF LearnInv

\* A response that observe is through with: no more a login or a logout that
\* it has not seen, and no other response changes.
LEMMA ObservedFlight ==
    ASSUME LearnTypeOK, NEW f \in Flights, Observed(f), flight[f] # Idle
    PROVE  /\ flight' \in [Flights -> {Idle} \cup LoginResponses \cup LogoutResponses]
           /\ \A g \in Flights : g # f => flight'[g] = flight[g]
           /\ flight'[f] # Idle =>
                /\ flight'[f].seen
                /\ flight'[f].op = flight[f].op /\ flight'[f].user = flight[f].user
                /\ flight'[f].issued = flight[f].issued
                /\ flight'[f].requested = flight[f].requested
                /\ flight'[f].good <=> flight[f].good
<1>1. PICK r : r = flight[f]
  OBVIOUS
<1>2. PICK o : o = [r EXCEPT !.seen = TRUE]
  OBVIOUS
<1>3. PICK n : n = IF r.out THEN Idle ELSE o
  OBVIOUS
<1>4. flight' = [flight EXCEPT ![f] = n]
  BY <1>1, <1>2, <1>3 DEF Observed
<1>5. r \in LoginResponses \cup LogoutResponses
  BY <1>1 DEF LearnTypeOK
<1>6. /\ o.op = r.op /\ o.user = r.user /\ o.issued = r.issued /\ o.requested = r.requested
      /\ o.seen /\ (o.good <=> r.good)
      /\ o \in LoginResponses \cup LogoutResponses
  BY <1>2, <1>5 DEF LoginResponses, LogoutResponses
<1>7. n \in {Idle} \cup LoginResponses \cup LogoutResponses
  BY <1>3, <1>6
<1> QED
  BY <1>1, <1>3, <1>4, <1>6, <1>7, NewFlight

\* Being through with a response disturbs neither the types nor what the
\* invariant says of logins, whatever becomes of the list.
LEMMA ObservedKeeps ==
    ASSUME LearnInv, NEW f \in Flights, Observed(f), flight[f] # Idle,
           UNCHANGED <<known, jar, accepted, ended, lookalike>>, missed \subseteq missed',
           list' \in [Cookies -> Users \cup {None}]
    PROVE  LearnTypeOK' /\ EndedKnown' /\ NewAccepted' /\ CookieIsNew'
<1>1. /\ flight' \in [Flights -> {Idle} \cup LoginResponses \cup LogoutResponses]
      /\ \A g \in Flights : g # f => flight'[g] = flight[g]
      /\ flight'[f] # Idle =>
           /\ flight'[f].seen
           /\ flight'[f].op = flight[f].op /\ flight'[f].user = flight[f].user
           /\ flight'[f].issued = flight[f].issued
           /\ flight'[f].requested = flight[f].requested
           /\ flight'[f].good <=> flight[f].good
  BY ObservedFlight DEF LearnInv
<1>2. LearnTypeOK'
  BY <1>1 DEF LearnInv, LearnTypeOK
<1>3. NewAccepted'
  BY <1>1 DEF LearnInv, NewAccepted, NewLogin
<1>4. CookieIsNew'
  <2> SUFFICES ASSUME NEW h \in Flights, NewLogin(flight'[h]), ~flight'[h].seen
               PROVE  IF flight'[h].out THEN flight'[h].issued \in missed'
                      ELSE /\ jar # flight'[h].issued /\ flight'[h].issued \notin ended
                           /\ \A g \in Flights : g # h /\ flight'[g] # Idle =>
                                flight'[h].issued \notin {flight'[g].issued, flight'[g].requested}
    BY DEF CookieIsNew
  <2>1. h # f /\ flight'[h] = flight[h]
    BY <1>1 DEF NewLogin
  <2>2. flight[h].issued # None /\ NewLogin(flight[h]) /\ ~flight[h].seen
    BY <2>1 DEF NewLogin
  <2>3. IF flight[h].out THEN flight[h].issued \in missed
        ELSE /\ jar # flight[h].issued /\ flight[h].issued \notin ended
             /\ \A g \in Flights : g # h /\ flight[g] # Idle =>
                  flight[h].issued \notin {flight[g].issued, flight[g].requested}
    BY <2>2 DEF LearnInv, CookieIsNew
  <2>4. \A g \in Flights : g # h /\ flight'[g] # Idle =>
          /\ flight[g] # Idle
          /\ flight'[g].issued = flight[g].issued /\ flight'[g].requested = flight[g].requested
    BY <1>1
  <2> QED
    BY <2>1, <2>3, <2>4
<1> QED
  BY <1>2, <1>3, <1>4 DEF LearnInv, EndedKnown

\* A response passes without the inspector.
LEMMA UnobservedKeeps ==
    ASSUME LearnInv, NEW f \in Flights, Unobserved(f)
    PROVE  LearnInv'
<1>1. /\ flight[f] # Idle /\ Observed(f)
      /\ missed' = missed \cup Touched(flight[f])
      /\ UNCHANGED <<known, jar, list, accepted, ended, blind, lookalike>>
  BY DEF Unobserved
<1>2. LearnTypeOK' /\ EndedKnown' /\ NewAccepted' /\ CookieIsNew'
  BY <1>1, ObservedKeeps DEF LearnInv, LearnTypeOK
<1>3. LoggedOut'
  <2> SUFFICES ASSUME NEW d \in ended, d \notin blind \cup missed', list[d] # None
               PROVE  \E g \in Flights : Pending(flight'[g], d)
    BY <1>1 DEF LoggedOut
  <2>1. PICK g \in Flights : Pending(flight[g], d)
    BY <1>1 DEF LearnInv, LoggedOut
  <2>2. d # None
    BY LearnAssumption DEF LearnInv, EndedKnown, LearnTypeOK
  <2>3. g # f
    BY <1>1, <2>1, <2>2 DEF Pending, Touched
  <2>4. flight'[g] = flight[g]
    BY <1>1, <2>3, ObservedFlight DEF LearnInv
  <2> QED
    BY <2>1, <2>4
<1>4. TrustsAccepted'
  BY <1>1 DEF LearnInv, TrustsAccepted
<1> QED
  BY <1>2, <1>3, <1>4 DEF LearnInv

\* What a list command does to the list and to missed.
LEMMA PutFacts ==
    ASSUME list \in [Cookies -> Users \cup {None}],
           NEW c \in Cookies, NEW u \in Users \cup {None}, Put(c, u)
    PROVE  /\ list' \in [Cookies -> Users \cup {None}]
           /\ missed \subseteq missed'
           /\ list'[c] = u \/ (list'[c] = list[c] /\ c \in missed')
           /\ \A d \in Cookies : d # c => list'[d] = list[d]
  BY DEF Put

\* observe takes a response; a login is learned only when its cookie was not in
\* the request.
LEMMA ObserveKeeps ==
    ASSUME CookieNew, LearnInv, NEW f \in Flights, observe(f)
    PROVE  LearnInv'
<1>1. PICK r : r = flight[f]
  OBVIOUS
<1>2. PICK cookie \in RequestCookies(r) :
        /\ IF r.op = "logout" THEN Logout(r, cookie) ELSE Login(r, cookie)
        /\ blind' = IF cookie = r.requested THEN blind ELSE blind \cup Touched(r)
  BY <1>1 DEF observe
<1>3. /\ r # Idle /\ ~r.seen /\ Observed(f)
      /\ UNCHANGED <<known, jar, accepted, ended, lookalike>>
  BY <1>1 DEF observe
<1>4. cookie \in {r.requested, None} /\ blind \subseteq blind'
  BY <1>2 DEF RequestCookies
<1>5. /\ known \subseteq Cookies /\ list \in [Cookies -> Users \cup {None}]
      /\ r.issued \in known \cup {None} /\ r.requested \in known \cup {None}
  BY <1>1, <1>3 DEF LearnInv, LearnTypeOK
<1>6. /\ r.op \in {"login", "logout"}
      /\ r.op = "login" => r.user \in Users
      /\ r.op = "logout" => r.requested # None
  BY <1>1, <1>3, ResponseFacts, LearnAssumption DEF LearnInv, LoginResponses, LogoutResponses
\* Either nothing is put, or the command is about the touched cookie.
<1>7. \/ list' = list /\ missed' = missed
      \/ /\ r.op = "login" /\ Put(r.issued, r.user)
         /\ r.issued \in Cookies /\ r.user \in Users /\ r.issued # cookie /\ r.good
      \/ /\ r.op = "logout" /\ Put(cookie, None)
         /\ cookie \in Cookies /\ cookie = r.requested
  <2>1. CASE r.op = "logout"
    BY <1>2, <1>4, <1>5, <2>1 DEF Logout
  <2>2. CASE r.op = "login"
    BY <1>2, <1>5, <1>6, <2>2 DEF Login, Succeeded
  <2> QED
    BY <1>6, <2>1, <2>2
<1>8. list' \in [Cookies -> Users \cup {None}] /\ missed \subseteq missed'
  BY <1>5, <1>7, PutFacts
<1>9. LearnTypeOK' /\ EndedKnown' /\ NewAccepted' /\ CookieIsNew'
  BY <1>1, <1>3, <1>8, ObservedKeeps
\* A login that is learned is an accepted one or looks like one, or its request
\* headers are gone.
<1>10. r.op = "login" /\ r.issued \in Cookies /\ r.issued # cookie /\ r.good =>
         \/ r.issued \in blind'
         \/ /\ NewLogin(r)
            /\ <<r.issued, r.user>> \in accepted \/ r.issued \in lookalike
  <2> SUFFICES ASSUME r.op = "login", r.issued \in Cookies, r.issued # cookie, r.good,
                      r.issued \notin blind'
               PROVE  /\ NewLogin(r)
                      /\ <<r.issued, r.user>> \in accepted \/ r.issued \in lookalike
    OBVIOUS
  <2>1. r.issued # None
    BY LearnAssumption
  <2>2. cookie = r.requested
    BY <1>2, <2>1 DEF Touched
  <2>3. NewLogin(r)
    BY <1>3, <2>1, <2>2 DEF NewLogin
  <2> QED
    BY <1>1, <2>3 DEF LearnInv, NewAccepted
<1>11. TrustsAccepted'
  <2> SUFFICES ASSUME NEW d \in Cookies, d \notin blind', d \notin lookalike, list'[d] # None
               PROVE  <<d, list'[d]>> \in accepted
    BY <1>3 DEF TrustsAccepted
  <2>1. CASE list'[d] = list[d]
    BY <1>4, <2>1 DEF LearnInv, TrustsAccepted
  <2>2. CASE list'[d] # list[d]
    <3>1. /\ r.op = "login" /\ r.issued \in Cookies /\ r.issued # cookie /\ r.good
          /\ d = r.issued /\ list'[d] = r.user
      BY <1>5, <1>7, <2>2, PutFacts
    <3> QED
      BY <1>10, <3>1
  <2> QED
    BY <2>1, <2>2
<1>12. LoggedOut'
  <2> SUFFICES ASSUME NEW d \in ended, d \notin blind' \cup missed', list'[d] # None
               PROVE  \E g \in Flights : Pending(flight'[g], d)
    BY <1>3 DEF LoggedOut
  <2>1. d \in Cookies
    BY <1>5 DEF LearnInv, EndedKnown
  \* The login that issued a cookie which has been logged out is not learned.
  <2>2. list'[d] = list[d]
    <3> SUFFICES ASSUME list'[d] # list[d]
                 PROVE  FALSE
      OBVIOUS
    <3>1. /\ r.op = "login" /\ r.issued \in Cookies /\ r.issued # cookie /\ r.good
          /\ d = r.issued
      BY <1>5, <1>7, <2>1, PutFacts
    <3>2. NewLogin(r)
      BY <1>10, <3>1
    <3>3. r.issued \in missed \/ r.issued \notin ended
      BY <1>1, <1>3, <3>2 DEF LearnInv, CookieIsNew
    <3> QED
      BY <1>8, <3>1, <3>3
  <2>3. PICK g \in Flights : Pending(flight[g], d)
    BY <1>4, <1>8, <2>2 DEF LearnInv, LoggedOut
  <2>4. CASE g = f
    <3>1. r.op = "logout" /\ r.good /\ r.requested = d /\ d # None
      BY <1>1, <1>6, <2>3, <2>4 DEF Pending
    <3>2. cookie = r.requested
      BY <1>2, <3>1 DEF Touched
    <3>3. Put(d, None)
      BY <1>2, <3>1, <3>2 DEF Logout
    <3> QED
      BY <1>5, <2>1, <3>3, PutFacts
  <2>5. CASE g # f
    BY <1>1, <1>3, <2>3, <2>5, ObservedFlight DEF LearnInv
  <2> QED
    BY <2>4, <2>5
<1> QED
  BY <1>9, <1>11, <1>12 DEF LearnInv

(***************************************************************************)
(* Learning: the theorems                                                  *)
(***************************************************************************)

\* LearnInv holds at the start.
LEMMA LearnStarts == LearnInit => LearnInv
<1> SUFFICES ASSUME LearnInit
             PROVE  LearnInv
  OBVIOUS
<1>1. /\ known = {} /\ jar = None /\ flight = [f \in Flights |-> Idle]
      /\ list = [c \in Cookies |-> None] /\ ended = {}
  BY DEF LearnInit
<1>2. \A f \in Flights : flight[f] = Idle
  BY <1>1
<1>3. LearnTypeOK
  BY <1>1, <1>2 DEF LearnTypeOK
<1>4. NewAccepted /\ CookieIsNew
  BY <1>2 DEF NewAccepted, CookieIsNew, NewLogin
<1>5. LoggedOut /\ EndedKnown /\ TrustsAccepted
  BY <1>1 DEF LoggedOut, EndedKnown, TrustsAccepted
<1> QED
  BY <1>3, <1>4, <1>5 DEF LearnInv

\* Every step keeps LearnInv, when only new cookies are learned.
LEMMA LearnStep ==
    ASSUME CookieNew, LearnInv, [LearnNext]_learnVars
    PROVE  LearnInv'
<1>1. CASE LearnNext
  BY <1>1, VisitKeeps, ExpiresKeeps, AcceptedKeeps, AnewKeeps, RejectedKeeps, LogoutKeeps, ReleaseKeeps,
     ObserveKeeps, UnobservedKeeps DEF LearnNext
<1>2. CASE UNCHANGED learnVars
  BY <1>2 DEF learnVars, LearnInv, LearnTypeOK, EndedKnown, NewAccepted, NewLogin, CookieIsNew,
     LoggedOut, Pending, TrustsAccepted
<1> QED
  BY <1>1, <1>2

\* LearnInv is an invariant.
THEOREM LearnInvariance == ASSUME CookieNew PROVE LearnSpec => []LearnInv
  BY LearnStarts, LearnStep, PTL DEF LearnSpec

\* Of any number of logins, logouts and workers, the gate trusts only cookies
\* of accepted logins, when only new cookies are learned (learn.go, Succeeded):
\* the ones observed without their request headers apart, and the fresh ones that
\* a rejected login set in a response with a status of success.
THEOREM LearnedLogins == ASSUME CookieNew PROVE LearnSpec => []TrustsAccepted
<1>1. LearnInv => TrustsAccepted
  BY DEF LearnInv
<1> QED
  BY <1>1, LearnInvariance, PTL

\* A logout ends the trust in whichever order the responses are taken.
THEOREM LogoutsEnd == ASSUME CookieNew PROVE LearnSpec => []LogoutEnds
<1>1. LearnInv => LogoutEnds
  BY DEF LearnInv, LoggedOut, LogoutEnds, Pending
<1> QED
  BY <1>1, LearnInvariance, PTL

=============================================================================
