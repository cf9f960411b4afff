--------------------------- MODULE QueuePoolProofs ---------------------------
(* Proofs about QueuePool and about AuditSink, for every value of their    *)
(* constants: the queue of the inspector's workers and the buffer that     *)
(* their audit records leave by.                                           *)
EXTENDS QueuePool, AuditSink, FiniteSetTheorems, TLAPS

(***************************************************************************)
(* The inductive invariant                                                 *)
(***************************************************************************)

\* Where goroutines can be, what they have in hand there, and who may wait.
CallerShape(t) ==
    /\ pc[t] \in {"idle", "collect", "enter", "wait", "done"}
    /\ pc[t] \in {"idle", "collect", "done"} => hand[t] = {}

\* A worker waits only for a task, and leaves only when the pool is closed and
\* its queue empty.
WorkerShape(w) ==
    /\ pc[w] \in {"run", "handle", "exit"}
    /\ pc[w] = "handle" <=> job[w] # NoTask
    /\ w \in waiting => pc[w] = "run"
    /\ pc[w] = "exit" => closed /\ q = <<>>

\* Where all the goroutines can be.
Shape ==
    /\ \A t \in Tasks : CallerShape(t)
    /\ \A w \in Workers : WorkerShape(w)
    /\ pc[Sweeper] \in {"run", "exit"}

\* Only tasks that ran out of time are taken as such, and cut a wait short.
LateOnly ==
    /\ \A a \in Actors : hand[a] \subseteq late
    /\ \A t \in Tasks : timer[t] = "fired" => t \in late

\* A queue without a task twice.
Distinct(s) == \A i, j \in 1 .. Len(s) : s[i] = s[j] => i = j

\* The four places of a task in the pool.
Queued(t) == t \in ToSet(q)
InHand(t) == \E a \in Actors : t \in hand[a]
AtWork(t) == \E w \in Workers : job[w] = t
Answered(t) == answers[t] # <<>>

\* A task is in the pool at one place or answered once, from the moment Submit
\* has let it go.
OneOf(t) ==
    /\ \A a, b \in Actors : t \in hand[a] /\ t \in hand[b] => a = b
    /\ \A v, w \in Workers : job[v] = t /\ job[w] = t => v = w
    /\ Queued(t) => ~InHand(t) /\ ~AtWork(t) /\ ~Answered(t)
    /\ InHand(t) => ~AtWork(t) /\ ~Answered(t)
    /\ AtWork(t) => ~Answered(t)
    /\ Len(answers[t]) <= 1
    /\ pc[t] = "done" <=> Queued(t) \/ InHand(t) \/ AtWork(t) \/ Answered(t)

Places == Distinct(q) /\ \A t \in Tasks : OneOf(t)

IInv == TypeOK /\ Shape /\ LateOnly /\ Places /\ NoLostWakeup

(***************************************************************************)
(* Sequences without a task twice                                          *)
(***************************************************************************)

\* What Place does to the buffer: a task that was not in it is in it once.
LEMMA AppendFacts ==
    ASSUME NEW s \in Seq(Tasks), NEW t \in Tasks
    PROVE  /\ Append(s, t) \in Seq(Tasks)
           /\ Len(Append(s, t)) = Len(s) + 1
           /\ ToSet(Append(s, t)) = ToSet(s) \cup {t}
           /\ Distinct(s) /\ t \notin ToSet(s) => Distinct(Append(s, t))
<1> DEFINE x == Append(s, t)
<1>1. /\ x \in Seq(Tasks) /\ Len(x) = Len(s) + 1 /\ Len(s) \in Nat
      /\ x[Len(s) + 1] = t
      /\ \A i \in 1 .. Len(s) : x[i] = s[i]
      /\ DOMAIN x = 1 .. Len(s) + 1 /\ DOMAIN s = 1 .. Len(s)
  OBVIOUS
<1> HIDE DEF x
<1>2. \A i \in 1 .. Len(s) + 1 : i \in 1 .. Len(s) \/ i = Len(s) + 1
  BY <1>1
<1>3. ToSet(x) = ToSet(s) \cup {t}
  <2>1. \A e \in ToSet(x) : e \in ToSet(s) \cup {t}
    BY <1>1, <1>2 DEF ToSet
  <2>2. \A e \in ToSet(s) : e \in ToSet(x)
    <3>1. \A i \in 1 .. Len(s) : i \in 1 .. Len(s) + 1
      BY <1>1
    <3> QED
      BY <1>1, <3>1 DEF ToSet
  <2>3. t \in ToSet(x)
    <3>1. Len(s) + 1 \in 1 .. Len(s) + 1
      BY <1>1
    <3> QED
      BY <1>1, <3>1 DEF ToSet
  <2> QED
    BY <2>1, <2>2, <2>3
<1>4. ASSUME Distinct(s), t \notin ToSet(s)
      PROVE  Distinct(x)
  <2>1. \A i \in 1 .. Len(s) : s[i] # t
    BY <1>1, <1>4 DEF ToSet
  <2> QED
    BY <1>1, <1>2, <1>4, <2>1 DEF Distinct
<1> QED
  BY <1>1, <1>3, <1>4 DEF x

\* What pop does to the buffer: the oldest task leaves it, and only that one.
LEMMA TailFacts ==
    ASSUME NEW s \in Seq(Tasks), s # <<>>, Distinct(s)
    PROVE  /\ Head(s) \in ToSet(s) /\ Head(s) \in Tasks
           /\ Tail(s) \in Seq(Tasks) /\ Len(Tail(s)) = Len(s) - 1
           /\ ToSet(Tail(s)) = ToSet(s) \ {Head(s)}
           /\ Distinct(Tail(s))
<1> DEFINE x == Tail(s)
<1>1. /\ x \in Seq(Tasks) /\ Len(x) = Len(s) - 1 /\ Len(s) \in Nat /\ 1 <= Len(s)
      /\ \A i \in 1 .. Len(s) - 1 : x[i] = s[i + 1]
      /\ DOMAIN x = 1 .. Len(s) - 1 /\ DOMAIN s = 1 .. Len(s)
      /\ Head(s) = s[1] /\ Head(s) \in Tasks
  OBVIOUS
<1> HIDE DEF x
<1>2. \A i \in 1 .. Len(s) : i = 1 \/ (i - 1 \in 1 .. Len(s) - 1 /\ x[i - 1] = s[i])
  BY <1>1
<1>3. \A i \in 1 .. Len(s) - 1 : i + 1 \in 1 .. Len(s) /\ i + 1 # 1
  BY <1>1
<1>4. Head(s) \in ToSet(s)
  BY <1>1 DEF ToSet
<1>5. ToSet(x) = ToSet(s) \ {Head(s)}
  <2>1. \A e \in ToSet(x) : e \in ToSet(s) \ {Head(s)}
    BY <1>1, <1>3 DEF ToSet, Distinct
  <2>2. ASSUME NEW e \in ToSet(s) \ {Head(s)}
        PROVE  e \in ToSet(x)
    <3>1. PICK i \in 1 .. Len(s) : e = s[i]
      BY <1>1 DEF ToSet
    <3>2. i - 1 \in 1 .. Len(s) - 1 /\ x[i - 1] = e
      BY <1>1, <1>2, <3>1
    <3> QED
      BY <1>1, <3>2 DEF ToSet
  <2> QED
    BY <2>1, <2>2
<1>6. Distinct(x)
  BY <1>1, <1>3 DEF Distinct
<1> QED
  BY <1>1, <1>4, <1>5, <1>6 DEF x

\* As many tasks as places in the queue.
LEMMA DistinctLen ==
    ASSUME NEW s \in Seq(Tasks), Distinct(s)
    PROVE  IsFiniteSet(ToSet(s)) /\ Cardinality(ToSet(s)) = Len(s)
<1>1. Len(s) \in Nat /\ DOMAIN s = 1 .. Len(s)
  OBVIOUS
<1>2. IsFiniteSet(1 .. Len(s)) /\ Cardinality(1 .. Len(s)) = Len(s)
  BY <1>1, FS_Interval
<1>3. s \in Bijection(1 .. Len(s), ToSet(s))
  <2>1. s \in [1 .. Len(s) -> ToSet(s)]
    BY <1>1 DEF ToSet
  <2>2. \A e \in ToSet(s) : \E i \in 1 .. Len(s) : s[i] = e
    BY <1>1 DEF ToSet
  <2> QED
    BY <2>1, <2>2 DEF Bijection, Injection, Surjection, IsInjective, Distinct
<1> QED
  BY <1>2, <1>3, FS_Bijection DEF ExistsBijection

(***************************************************************************)
(* takeExpiredLocked                                                       *)
(***************************************************************************)

\* A set of numbers that is not empty has a least one.
LEMMA Least ==
    ASSUME NEW T, T \subseteq Nat, T # {}
    PROVE  \E m \in T : \A k \in T : m <= k
<1> DEFINE R == OpToRel(<, Nat)
<1>1. IsWellFoundedOn(R, Nat)
  BY NatLessThanWellFounded
<1>2. PICK m \in T : \A k \in T : ~(<<k, m>> \in R)
  <2> HIDE DEF R
  <2> QED
    BY <1>1, WFMin
<1>3. \A k \in T : ~(k < m)
  BY <1>2 DEF OpToRel
<1> QED
  BY <1>3

\* What the loop over the queue keeps of its first tasks.
KeptTo(G, n) ==
    G = [i \in 0 .. n |->
           IF i = 0 THEN <<>>
           ELSE IF q[i] \in late THEN G[i - 1] ELSE Append(G[i - 1], q[i])]

\* The loop comes to its end.
LEMMA KeptLoop ==
    ASSUME q \in Seq(Tasks)
    PROVE  \E G : KeptTo(G, Len(q)) /\ Kept = G[Len(q)]
<1> DEFINE Bad == {n \in 0 .. Len(q) : ~\E G : KeptTo(G, n)}
<1>1. Len(q) \in Nat
  OBVIOUS
<1>2. ASSUME Bad # {}
      PROVE  FALSE
  <2>1. PICK m \in Bad : \A k \in Bad : m <= k
    <3>1. Bad \subseteq Nat
      BY <1>1
    <3> HIDE DEF Bad
    <3> QED
      BY <1>2, <3>1, Least
  <2>2. m # 0
    <3> DEFINE G == [i \in 0 .. 0 |-> <<>>]
    <3>1. KeptTo(G, 0)
      BY DEF KeptTo
    <3> HIDE DEF G
    <3> QED
      BY <2>1, <3>1
  <2>3. m \in Nat /\ m - 1 \in 0 .. Len(q) /\ m - 1 \notin Bad
    BY <1>1, <2>1, <2>2
  <2>4. PICK G : KeptTo(G, m - 1)
    BY <2>3
  <2> DEFINE H == [i \in 0 .. m |->
                     IF i = m
                     THEN IF q[m] \in late THEN G[m - 1] ELSE Append(G[m - 1], q[m])
                     ELSE G[i]]
  <2>5. KeptTo(H, m)
    <3> SUFFICES ASSUME NEW i \in 0 .. m
                 PROVE  H[i] = IF i = 0 THEN <<>>
                               ELSE IF q[i] \in late THEN H[i - 1] ELSE Append(H[i - 1], q[i])
      BY DEF KeptTo
    <3>1. CASE i = m
      <4>1. H[i - 1] = G[m - 1]
        BY <2>2, <2>3, <3>1
      <4>2. H[i] = IF q[m] \in late THEN G[m - 1] ELSE Append(G[m - 1], q[m])
        BY <3>1
      <4> HIDE DEF H
      <4> QED
        BY <2>2, <3>1, <4>1, <4>2
    <3>2. CASE i # m
      <4>1. i \in 0 .. m - 1 /\ H[i] = G[i] /\ (i # 0 => H[i - 1] = G[i - 1])
        BY <2>3, <3>2
      <4>2. G[i] = IF i = 0 THEN <<>>
                   ELSE IF q[i] \in late THEN G[i - 1] ELSE Append(G[i - 1], q[i])
        BY <2>4, <4>1 DEF KeptTo
      <4> HIDE DEF H
      <4> QED
        BY <4>1, <4>2
    <3> QED
      BY <3>1, <3>2
  <2> HIDE DEF H
  <2> QED
    BY <2>1, <2>5
<1>3. \E G : KeptTo(G, Len(q))
  BY <1>1, <1>2
<1>4. Kept = (CHOOSE G : KeptTo(G, Len(q)))[Len(q)]
  BY DEF Kept, KeptTo
<1> QED
  BY <1>3, <1>4

\* takeExpiredLocked cuts the late tasks out of the queue and keeps the others.
LEMMA KeptFacts ==
    ASSUME q \in Seq(Tasks)
    PROVE  /\ Kept \in Seq(Tasks)
           /\ Len(Kept) <= Len(q)
           /\ ToSet(Kept) = ToSet(q) \ late
           /\ Distinct(q) => Distinct(Kept)
<1> DEFINE First(n) == {q[i] : i \in 1 .. n}
           Right(s, n) == /\ s \in Seq(Tasks) /\ Len(s) <= n
                          /\ ToSet(s) = First(n) \ late
                          /\ Distinct(q) => Distinct(s)
<1>1. PICK G : KeptTo(G, Len(q)) /\ Kept = G[Len(q)]
  BY KeptLoop
<1>2. Len(q) \in Nat /\ ToSet(q) = First(Len(q))
  BY DEF ToSet
<1> DEFINE Bad == {n \in 0 .. Len(q) : ~Right(G[n], n)}
<1>3. Right(G[0], 0)
  <2>1. G[0] = <<>>
    BY <1>1, <1>2 DEF KeptTo
  <2>2. First(0) = {} /\ ToSet(<<>>) = {} /\ Distinct(<<>>)
    BY DEF ToSet, Distinct
  <2>3. <<>> \in Seq(Tasks) /\ Len(<<>>) <= 0
    OBVIOUS
  <2> HIDE DEF First
  <2> QED
    BY <2>1, <2>2, <2>3
<1>4. ASSUME NEW m \in 1 .. Len(q), Right(G[m - 1], m - 1)
      PROVE  Right(G[m], m)
  <2> DEFINE s == G[m - 1]
  <2>1. m \in Nat /\ m - 1 \in Nat /\ q[m] \in Tasks /\ m # 0 /\ m \in 0 .. Len(q)
    BY <1>2
  <2>2. G[m] = IF q[m] \in late THEN s ELSE Append(s, q[m])
    BY <1>1, <2>1 DEF KeptTo
  <2>3. First(m) = First(m - 1) \cup {q[m]}
    <3>1. \A i \in 1 .. m : i \in 1 .. m - 1 \/ i = m
      BY <2>1
    <3>2. 1 .. m - 1 \subseteq 1 .. m /\ m \in 1 .. m
      BY <2>1
    <3> QED
      BY <3>1, <3>2
  <2>4. Distinct(q) => q[m] \notin First(m - 1)
    <3>1. \A i \in 1 .. m - 1 : i \in 1 .. Len(q) /\ i # m
      BY <1>2, <2>1
    <3> QED
      BY <3>1 DEF Distinct
  <2> HIDE DEF s, First
  <2>5. s \in Seq(Tasks) /\ Len(s) <= m - 1 /\ Len(s) \in Nat /\ ToSet(s) = First(m - 1) \ late
        /\ (Distinct(q) => Distinct(s))
    BY <1>4 DEF s
  <2>6. CASE q[m] \in late
    BY <2>1, <2>2, <2>3, <2>5, <2>6
  <2>7. CASE q[m] \notin late
    <3>1. /\ Append(s, q[m]) \in Seq(Tasks) /\ Len(Append(s, q[m])) = Len(s) + 1
          /\ ToSet(Append(s, q[m])) = ToSet(s) \cup {q[m]}
          /\ Distinct(s) /\ q[m] \notin ToSet(s) => Distinct(Append(s, q[m]))
      BY <2>1, <2>5, AppendFacts
    <3> QED
      BY <2>1, <2>2, <2>3, <2>4, <2>5, <2>7, <3>1
  <2> QED
    BY <2>6, <2>7
<1> HIDE DEF Right
<1>5. ASSUME Bad # {}
      PROVE  FALSE
  <2>1. PICK m \in Bad : \A k \in Bad : m <= k
    <3>1. Bad \subseteq Nat
      BY <1>2
    <3> HIDE DEF Bad
    <3> QED
      BY <1>5, <3>1, Least
  <2>2. m # 0 /\ m \in 1 .. Len(q)
    BY <1>2, <1>3, <2>1
  <2>3. m - 1 \in 0 .. Len(q) /\ m - 1 \notin Bad
    BY <1>2, <2>1, <2>2
  <2> QED
    BY <1>4, <2>1, <2>2, <2>3
<1>6. Right(Kept, Len(q))
  BY <1>1, <1>2, <1>5
<1> HIDE DEF First
<1> QED
  BY <1>2, <1>6 DEF Right

(***************************************************************************)
(* What the steps do                                                       *)
(***************************************************************************)

\* The goroutines are of three kinds.
LEMMA Kinds ==
    /\ \A t \in Tasks : t \in Actors /\ t \notin Workers /\ t # Sweeper
    /\ \A w \in Workers : w \in Actors /\ w \notin Tasks /\ w # Sweeper
    /\ Sweeper \in Actors /\ Sweeper \notin Tasks /\ Sweeper \notin Workers
    /\ \A a \in Actors : a \in Tasks \/ a \in Workers \/ a = Sweeper
    /\ Depth \in Nat /\ Depth # 0 /\ NoTask \notin Tasks
  BY PoolAssumption DEF Actors

\* What a queue holds, and what takeExpiredLocked makes of it.
LEMMA QueueFacts ==
    ASSUME TypeOK
    PROVE  /\ q \in Seq(Tasks) /\ Len(q) \in Nat /\ Len(q) <= Depth
           /\ ToSet(q) \subseteq Tasks
           /\ Expired = ToSet(q) \cap late
           /\ Kept \in Seq(Tasks) /\ Len(Kept) <= Len(q) /\ Len(Kept) \in Nat
           /\ ToSet(Kept) = ToSet(q) \ late
           /\ Distinct(q) => Distinct(Kept)
           /\ q = <<>> => Expired = {} /\ Kept = <<>>
           /\ Kept = <<>> /\ Expired = {} => q = <<>>
<1>1. q \in Seq(Tasks) /\ Len(q) \in Nat /\ Len(q) <= Depth /\ ToSet(q) \subseteq Tasks
  BY DEF TypeOK, ToSet
<1>2. Expired = ToSet(q) \cap late
  BY DEF Expired
<1>3. /\ Kept \in Seq(Tasks) /\ Len(Kept) <= Len(q) /\ Len(Kept) \in Nat
      /\ ToSet(Kept) = ToSet(q) \ late /\ (Distinct(q) => Distinct(Kept))
  BY <1>1, KeptFacts
<1>4. \A s \in Seq(Tasks) : s = <<>> <=> ToSet(s) = {}
  <2> SUFFICES ASSUME NEW s \in Seq(Tasks)
               PROVE  s = <<>> <=> ToSet(s) = {}
    OBVIOUS
  <2>1. s # <<>> => s[1] \in ToSet(s)
    BY DEF ToSet
  <2>2. s = <<>> => ToSet(s) = {}
    BY DEF ToSet
  <2> QED
    BY <2>1, <2>2
<1> QED
  BY <1>1, <1>2, <1>3, <1>4

\* The wait of a caller goes on in cond.Wait.
Waits(t) ==
    /\ ~Room /\ ~closed
    /\ waiting' = waiting \cup {t}
    /\ timer' = [timer EXCEPT ![t] = "armed"]
    /\ Goto(t, "wait")
    /\ UNCHANGED <<q, hand, answers>>

\* The timer of a wait is set, stopped, or left as it is.
TimerGoes(t) == \E x \in {"off", "armed", timer[t]} : timer' = [timer EXCEPT ![t] = x]

\* What the part of Submit under the mutex comes to.
LEMMA SubmitGoes ==
    ASSUME TypeOK, LateOnly, NEW t \in Tasks, Enter(t) \/ WaitOn(t)
    PROVE  /\ pc[t] \in {"enter", "wait"} /\ Free(t)
           /\ UNCHANGED <<full, stopped, closed, job, late>>
           /\ TimerGoes(t)
           /\ \/ ~closed /\ Room /\ Enqueue(t)
              \/ ~closed /\ ~Room /\ full = "drop" /\ TurnAway(t, "limit")
              \/ (closed \/ t \in late) /\ TurnAway(t, "deadline")
              \/ TakeExpired(t, "wait") /\ UNCHANGED answers
              \/ Waits(t)
<1> DEFINE Goal == /\ TimerGoes(t)
                   /\ \/ ~closed /\ Room /\ Enqueue(t)
                      \/ ~closed /\ ~Room /\ full = "drop" /\ TurnAway(t, "limit")
                      \/ (closed \/ t \in late) /\ TurnAway(t, "deadline")
                      \/ TakeExpired(t, "wait") /\ UNCHANGED answers
                      \/ Waits(t)
<1>1. pc[t] \in {"enter", "wait"} /\ Free(t) /\ UNCHANGED <<full, stopped, closed, job, late>>
  BY DEF Enter, WaitOn
<1>2. timer = [timer EXCEPT ![t] = timer[t]]
  BY DEF TypeOK
<1>3. /\ UNCHANGED timer => TimerGoes(t)
      /\ StopTimer(t) => TimerGoes(t)
      /\ timer' = [timer EXCEPT ![t] = "armed"] => TimerGoes(t)
  <2>1. ASSUME timer' = [timer EXCEPT ![t] = IF @ = "armed" THEN "off" ELSE @]
        PROVE  TimerGoes(t)
    BY <2>1 DEF TimerGoes
  <2> QED
    BY <1>2, <2>1 DEF TimerGoes, StopTimer
<1>4. WaitRound(t) => Goal
  BY <1>3 DEF WaitRound, Waits, LateOnly
<1>5. Goal
  BY <1>3, <1>4 DEF Enter, WaitOn
<1> QED
  BY <1>1, <1>5

(***************************************************************************)
(* Type correctness                                                        *)
(***************************************************************************)

\* The helpers keep the types of what they change.
LEMMA HelperTypes ==
    ASSUME TypeOK
    PROVE  /\ Signal \/ Broadcast => waiting' \subseteq Tasks \cup Workers
           /\ \A a \in Actors, p \in {"collect", "enter", "wait", "done", "run", "handle", "exit"} :
                Goto(a, p) =>
                  pc' \in [Actors -> {"idle", "collect", "enter", "wait", "done",
                                      "run", "handle", "exit"}]
           /\ \A t \in Tasks, reason \in Reasons :
                Answer(t, reason) => answers' \in [Tasks -> Seq(Reasons)]
           /\ \A a \in Actors, S \in SUBSET Tasks :
                hand' = [hand EXCEPT ![a] = S] => hand' \in [Actors -> SUBSET Tasks]
           /\ Expired \in SUBSET Tasks
           /\ \A t \in Tasks : TimerGoes(t) => timer' \in [Tasks -> {"off", "armed", "fired"}]
<1>1. Signal \/ Broadcast => waiting' \subseteq Tasks \cup Workers
  BY DEF TypeOK, Signal, Broadcast
<1>2. ASSUME NEW a \in Actors,
             NEW p \in {"collect", "enter", "wait", "done", "run", "handle", "exit"}, Goto(a, p)
      PROVE  pc' \in [Actors -> {"idle", "collect", "enter", "wait", "done",
                                 "run", "handle", "exit"}]
  BY <1>2 DEF TypeOK, Goto
<1>3. ASSUME NEW t \in Tasks, NEW reason \in Reasons, Answer(t, reason)
      PROVE  answers' \in [Tasks -> Seq(Reasons)]
  <2>1. Append(answers[t], reason) \in Seq(Reasons)
    BY DEF TypeOK
  <2> QED
    BY <1>3, <2>1 DEF TypeOK, Answer
<1>4. ASSUME NEW a \in Actors, NEW S \in SUBSET Tasks, hand' = [hand EXCEPT ![a] = S]
      PROVE  hand' \in [Actors -> SUBSET Tasks]
  BY <1>4 DEF TypeOK
<1>5. Expired \in SUBSET Tasks
  BY QueueFacts
<1>6. ASSUME NEW t \in Tasks, TimerGoes(t)
      PROVE  timer' \in [Tasks -> {"off", "armed", "fired"}]
  BY <1>6 DEF TypeOK, TimerGoes
<1> QED
  BY <1>1, <1>2, <1>3, <1>4, <1>5, <1>6

\* takeExpiredLocked and the turning away of a task keep the types.
LEMMA MoveTypes ==
    ASSUME TypeOK
    PROVE  /\ \A a \in Actors, p \in {"enter", "wait", "run"} : TakeExpired(a, p) =>
                /\ q' \in Seq(Tasks) /\ Len(q') <= Depth
                /\ waiting' \subseteq Tasks \cup Workers
                /\ pc' \in [Actors -> {"idle", "collect", "enter", "wait", "done",
                                       "run", "handle", "exit"}]
                /\ hand' \in [Actors -> SUBSET Tasks]
           /\ \A t \in Tasks, reason \in Reasons : TurnAway(t, reason) =>
                /\ UNCHANGED <<q, hand, waiting>>
                /\ pc' \in [Actors -> {"idle", "collect", "enter", "wait", "done",
                                       "run", "handle", "exit"}]
                /\ answers' \in [Tasks -> Seq(Reasons)]
<1>1. ASSUME NEW a \in Actors, NEW p \in {"enter", "wait", "run"}, TakeExpired(a, p)
      PROVE  /\ q' \in Seq(Tasks) /\ Len(q') <= Depth
             /\ waiting' \subseteq Tasks \cup Workers
             /\ pc' \in [Actors -> {"idle", "collect", "enter", "wait", "done",
                                    "run", "handle", "exit"}]
             /\ hand' \in [Actors -> SUBSET Tasks]
  <2>1. q' = Kept /\ Broadcast /\ Goto(a, p) /\ hand' = [hand EXCEPT ![a] = Expired]
    BY <1>1 DEF TakeExpired
  <2>2. Kept \in Seq(Tasks) /\ Len(Kept) <= Depth
    BY QueueFacts, Kinds
  <2> QED
    BY <2>1, <2>2, HelperTypes
<1>2. ASSUME NEW t \in Tasks, NEW reason \in Reasons, TurnAway(t, reason)
      PROVE  /\ UNCHANGED <<q, hand, waiting>>
             /\ pc' \in [Actors -> {"idle", "collect", "enter", "wait", "done",
                                    "run", "handle", "exit"}]
             /\ answers' \in [Tasks -> Seq(Reasons)]
  <2>1. t \in Actors
    BY Kinds
  <2> QED
    BY <1>2, <2>1, HelperTypes DEF TurnAway
<1> QED
  BY <1>1, <1>2

\* Every step keeps the types and the bound of the queue.
LEMMA NextTypes ==
    ASSUME TypeOK, Shape, LateOnly, [Next]_vars
    PROVE  TypeOK'
<1> DEFINE Pcs == {"idle", "collect", "enter", "wait", "done", "run", "handle", "exit"}
<1>1. /\ full \in {"drop", "wait"} /\ q \in Seq(Tasks) /\ Len(q) <= Depth
      /\ stopped \in BOOLEAN /\ closed \in BOOLEAN /\ waiting \subseteq Tasks \cup Workers
      /\ pc \in [Actors -> Pcs] /\ hand \in [Actors -> SUBSET Tasks]
      /\ job \in [Workers -> Tasks \cup {NoTask}]
      /\ timer \in [Tasks -> {"off", "armed", "fired"}] /\ late \subseteq Tasks
      /\ answers \in [Tasks -> Seq(Reasons)]
  BY DEF TypeOK
<1>2. ASSUME full' \in {"drop", "wait"}, q' \in Seq(Tasks), Len(q') <= Depth,
             stopped' \in BOOLEAN, closed' \in BOOLEAN, waiting' \subseteq Tasks \cup Workers,
             pc' \in [Actors -> Pcs], hand' \in [Actors -> SUBSET Tasks],
             job' \in [Workers -> Tasks \cup {NoTask}],
             timer' \in [Tasks -> {"off", "armed", "fired"}], late' \subseteq Tasks,
             answers' \in [Tasks -> Seq(Reasons)]
      PROVE  TypeOK'
  BY <1>2 DEF TypeOK
<1> HIDE DEF Pcs
<1>3. ASSUME NEW t \in Tasks, SubmitStart(t) \/ Collect(t)
      PROVE  TypeOK'
  <2>1. t \in Actors /\ "deadline" \in Reasons
    BY Kinds DEF Reasons
  <2>2. CASE SubmitStart(t)
    <3>1. pc' \in [Actors -> Pcs] /\ answers' \in [Tasks -> Seq(Reasons)]
      BY <1>1, <2>1, <2>2, HelperTypes DEF SubmitStart, Pcs
    <3> QED
      BY <1>1, <1>2, <2>2, <3>1 DEF SubmitStart
  <2>3. CASE Collect(t)
    <3>1. CASE TakeExpired(t, "enter")
      <4>1. /\ q' \in Seq(Tasks) /\ Len(q') <= Depth
            /\ waiting' \subseteq Tasks \cup Workers
            /\ pc' \in [Actors -> Pcs] /\ hand' \in [Actors -> SUBSET Tasks]
        BY <2>1, <3>1, MoveTypes DEF Pcs
      <4> QED
        BY <1>1, <1>2, <2>3, <4>1 DEF Collect
    <3>2. CASE Goto(t, "enter") /\ UNCHANGED <<q, hand, waiting>>
      <4>1. pc' \in [Actors -> Pcs]
        BY <2>1, <3>2, HelperTypes DEF Pcs
      <4> QED
        BY <1>1, <1>2, <2>3, <3>2, <4>1 DEF Collect
    <3> QED
      BY <2>3, <3>1, <3>2 DEF Collect
  <2> QED
    BY <1>3, <2>2, <2>3
<1>4. ASSUME NEW t \in Tasks, Enter(t) \/ WaitOn(t)
      PROVE  TypeOK'
  <2>1. t \in Actors /\ "deadline" \in Reasons /\ "limit" \in Reasons
    BY Kinds DEF Reasons
  <2>2. /\ UNCHANGED <<full, stopped, closed, job, late>>
        /\ timer' \in [Tasks -> {"off", "armed", "fired"}]
    BY <1>4, SubmitGoes, HelperTypes
  <2>3. CASE Room /\ Enqueue(t)
    <3>1. q' \in Seq(Tasks) /\ Len(q') <= Depth
      <4>1. q' = Append(q, t) /\ Len(q) < Depth
        BY <2>3 DEF Enqueue, Room
      <4>2. Append(q, t) \in Seq(Tasks) /\ Len(Append(q, t)) = Len(q) + 1
        BY <1>1, AppendFacts
      <4> QED
        BY <4>1, <4>2, QueueFacts, Kinds
    <3>2. pc' \in [Actors -> Pcs] /\ waiting' \subseteq Tasks \cup Workers
      BY <2>1, <2>3, HelperTypes DEF Enqueue, Pcs
    <3> QED
      BY <1>1, <1>2, <2>2, <2>3, <3>1, <3>2 DEF Enqueue
  <2>4. CASE TurnAway(t, "limit") \/ TurnAway(t, "deadline")
    <3>1. /\ UNCHANGED <<q, hand, waiting>>
          /\ pc' \in [Actors -> Pcs] /\ answers' \in [Tasks -> Seq(Reasons)]
      BY <2>1, <2>4, MoveTypes DEF Pcs
    <3> QED
      BY <1>1, <1>2, <2>2, <3>1
  <2>5. CASE TakeExpired(t, "wait") /\ UNCHANGED answers
    <3>1. /\ q' \in Seq(Tasks) /\ Len(q') <= Depth
          /\ waiting' \subseteq Tasks \cup Workers
          /\ pc' \in [Actors -> Pcs] /\ hand' \in [Actors -> SUBSET Tasks]
      BY <2>1, <2>5, MoveTypes DEF Pcs
    <3> QED
      BY <1>1, <1>2, <2>2, <2>5, <3>1
  <2>6. CASE Waits(t)
    <3>1. pc' \in [Actors -> Pcs]
      BY <2>1, <2>6, HelperTypes DEF Waits, Pcs
    <3> QED
      BY <1>1, <1>2, <2>2, <2>6, <3>1 DEF Waits
  <2> QED
    BY <1>4, <2>3, <2>4, <2>5, <2>6, SubmitGoes
<1>5. ASSUME NEW w \in Workers, Pop(w)
      PROVE  TypeOK'
  <2>1. w \in Actors
    BY Kinds
  <2>2. /\ UNCHANGED <<full, stopped, closed, timer, late, answers>>
        /\ hand' \in [Actors -> SUBSET Tasks]
    BY <1>5, <2>1, HelperTypes DEF Pop
  <2>3. /\ Kept # <<>> => /\ Head(Kept) \in Tasks /\ Tail(Kept) \in Seq(Tasks)
                          /\ Len(Tail(Kept)) <= Depth
        /\ <<>> \in Seq(Tasks) /\ Len(<<>>) <= Depth
    BY QueueFacts, Kinds
  <2>4. q' \in Seq(Tasks) /\ Len(q') <= Depth
    BY <1>1, <1>5, <2>3 DEF Pop
  <2>5. job' \in [Workers -> Tasks \cup {NoTask}]
    BY <1>1, <1>5, <2>3 DEF Pop
  <2>6. pc' \in [Actors -> Pcs] /\ waiting' \subseteq Tasks \cup Workers
    BY <1>1, <1>5, <2>1, HelperTypes DEF Pop, Pcs
  <2> QED
    BY <1>1, <1>2, <2>2, <2>4, <2>5, <2>6
<1>6. ASSUME NEW w \in Workers, Handle(w)
      PROVE  TypeOK'
  <2>1. w \in Actors /\ job[w] \in Tasks /\ "deadline" \in Reasons /\ "checked" \in Reasons
    BY <1>1, <1>6, Kinds DEF Handle, Shape, WorkerShape, Reasons
  <2>2. answers' \in [Tasks -> Seq(Reasons)] /\ pc' \in [Actors -> Pcs]
    BY <1>6, <2>1, HelperTypes DEF Handle, Pcs
  <2> QED
    BY <1>1, <1>2, <1>6, <2>2 DEF Handle
<1>7. ASSUME NEW a \in Actors, ReplyDead(a)
      PROVE  TypeOK'
  <2>1. PICK t \in hand[a] : Answer(t, "deadline") /\ hand' = [hand EXCEPT ![a] = @ \ {t}]
    BY <1>7 DEF ReplyDead
  <2>2. t \in Tasks /\ hand[a] \ {t} \in SUBSET Tasks /\ "deadline" \in Reasons
    BY <1>1 DEF Reasons
  <2>3. answers' \in [Tasks -> Seq(Reasons)] /\ hand' \in [Actors -> SUBSET Tasks]
    BY <2>1, <2>2, HelperTypes
  <2> QED
    BY <1>1, <1>2, <1>7, <2>3 DEF ReplyDead
<1>8. CASE Sweep
  <2>1. /\ q' \in Seq(Tasks) /\ Len(q') <= Depth
        /\ waiting' \subseteq Tasks \cup Workers
        /\ pc' \in [Actors -> Pcs] /\ hand' \in [Actors -> SUBSET Tasks]
    BY <1>8, Kinds, MoveTypes DEF Sweep, Pcs
  <2> QED
    BY <1>1, <1>2, <1>8, <2>1 DEF Sweep
<1>9. CASE SweepEnds
  <2>1. pc' \in [Actors -> Pcs]
    BY <1>9, Kinds, HelperTypes DEF SweepEnds, Pcs
  <2> QED
    BY <1>1, <1>2, <1>9, <2>1 DEF SweepEnds
<1>10. CASE CloseStop \/ CloseQueue \/ UNCHANGED vars
  BY <1>1, <1>2, <1>10 DEF CloseStop, CloseQueue, Broadcast, vars
<1>11. ASSUME NEW t \in Tasks, TimerFires(t) \/ RunsLate(t)
       PROVE  TypeOK'
  BY <1>1, <1>2, <1>11 DEF TimerFires, RunsLate, Broadcast
<1> QED
  BY <1>3, <1>4, <1>5, <1>6, <1>7, <1>8, <1>9, <1>10, <1>11
  DEF Next, SubmitStep, WorkerStep

(***************************************************************************)
(* Late tasks                                                              *)
(***************************************************************************)

\* Every step takes late tasks only as expired and fires timers of late tasks.
LEMMA NextLate ==
    ASSUME TypeOK, LateOnly, [Next]_vars
    PROVE  LateOnly'
<1>1. Expired \subseteq late
  BY DEF Expired
<1>2. ASSUME late \subseteq late', UNCHANGED timer,
             hand' = hand \/ \E a \in Actors, S \in SUBSET late : hand' = [hand EXCEPT ![a] = S]
      PROVE  LateOnly'
  BY <1>2 DEF LateOnly, TypeOK
<1>3. ASSUME NEW t \in Tasks, SubmitStart(t) \/ Collect(t)
      PROVE  LateOnly'
  <2>1. t \in Actors
    BY Kinds
  <2> QED
    BY <1>1, <1>2, <1>3, <2>1 DEF SubmitStart, Collect, TakeExpired
<1>4. ASSUME NEW t \in Tasks, Enter(t) \/ WaitOn(t)
      PROVE  LateOnly'
  <2>1. /\ t \in Actors /\ UNCHANGED late /\ TimerGoes(t)
        /\ hand' = hand \/ hand' = [hand EXCEPT ![t] = Expired]
    BY <1>4, SubmitGoes, Kinds DEF Enqueue, TurnAway, TakeExpired, Waits
  <2>2. \A u \in Tasks : timer'[u] = "fired" => timer[u] = "fired"
    BY <2>1 DEF TimerGoes, TypeOK
  <2>3. \A a \in Actors : hand'[a] \subseteq late
    BY <1>1, <2>1 DEF LateOnly, TypeOK
  <2> QED
    BY <2>1, <2>2, <2>3 DEF LateOnly
<1>5. ASSUME NEW w \in Workers, Pop(w) \/ Handle(w)
      PROVE  LateOnly'
  <2>1. w \in Actors
    BY Kinds
  <2> QED
    BY <1>1, <1>2, <1>5, <2>1 DEF Pop, Handle
<1>6. ASSUME NEW a \in Actors, ReplyDead(a)
      PROVE  LateOnly'
  <2>1. PICK t \in hand[a] : hand' = [hand EXCEPT ![a] = hand[a] \ {t}]
    BY <1>6 DEF ReplyDead
  <2>2. hand[a] \ {t} \in SUBSET late
    BY DEF LateOnly
  <2> QED
    BY <1>2, <1>6, <2>1, <2>2 DEF ReplyDead
<1>7. CASE Sweep
  BY <1>1, <1>2, <1>7, Kinds DEF Sweep, TakeExpired
<1>8. CASE SweepEnds \/ CloseStop \/ CloseQueue \/ UNCHANGED vars
  BY <1>2, <1>8 DEF SweepEnds, CloseStop, CloseQueue, vars
<1>9. ASSUME NEW t \in Tasks, TimerFires(t) \/ RunsLate(t)
      PROVE  LateOnly'
  BY <1>9 DEF TimerFires, RunsLate, LateOnly, TypeOK
<1> QED
  BY <1>3, <1>4, <1>5, <1>6, <1>7, <1>8, <1>9 DEF Next, SubmitStep, WorkerStep

(***************************************************************************)
(* One place for each task                                                 *)
(***************************************************************************)

\* takeExpiredLocked moves the late tasks from the queue into empty hands.
LEMMA TakePlaces ==
    ASSUME TypeOK, Places, NEW a \in Actors, hand[a] = {},
           q' = Kept, hand' = [hand EXCEPT ![a] = Expired], UNCHANGED <<job, answers>>,
           \A t \in Tasks : pc'[t] = "done" <=> pc[t] = "done"
    PROVE  Places'
<1>1. Distinct(q')
  BY QueueFacts DEF Places
<1>2. ASSUME NEW t \in Tasks
      PROVE  OneOf(t)'
  <2>1. OneOf(t)
    BY DEF Places
  <2>2. /\ Queued(t)' <=> Queued(t) /\ t \notin late
        /\ t \in Expired <=> Queued(t) /\ t \in late
    BY QueueFacts DEF Queued
  <2>3. \A b \in Actors : t \in hand'[b] <=> IF b = a THEN t \in Expired ELSE t \in hand[b]
    BY DEF TypeOK
  <2>4. InHand(t)' <=> InHand(t) \/ t \in Expired
    BY <2>3 DEF InHand
  <2>5. (AtWork(t)' <=> AtWork(t)) /\ (Answered(t)' <=> Answered(t))
    BY DEF AtWork, Answered
  <2>6. \A b, c \in Actors : t \in hand'[b] /\ t \in hand'[c] => b = c
    BY <2>1, <2>2, <2>3 DEF OneOf, InHand
  <2>7. \A v, w \in Workers : job'[v] = t /\ job'[w] = t => v = w
    BY <2>1 DEF OneOf
  <2> QED
    BY <2>1, <2>2, <2>4, <2>5, <2>6, <2>7 DEF OneOf
<1> QED
  BY <1>1, <1>2 DEF Places

\* enqueueLocked puts a task of a caller at the end of the queue.
LEMMA EnqueuePlaces ==
    ASSUME TypeOK, Places, NEW t \in Tasks, pc[t] # "done", Enqueue(t), UNCHANGED job
    PROVE  Places'
<1>1. /\ q' = Append(q, t) /\ UNCHANGED <<hand, answers>>
      /\ \A u \in Tasks : pc'[u] = "done" <=> pc[u] = "done" \/ u = t
  BY Kinds DEF Enqueue, Goto, TypeOK
<1>2. ~Queued(t) /\ ~InHand(t) /\ ~AtWork(t) /\ ~Answered(t)
  BY DEF Places, OneOf
<1>3. ToSet(q') = ToSet(q) \cup {t} /\ Distinct(q')
  BY <1>1, <1>2, AppendFacts, QueueFacts DEF Places, Queued
<1>4. ASSUME NEW u \in Tasks
      PROVE  OneOf(u)'
  <2>1. OneOf(u)
    BY DEF Places
  <2>2. Queued(u)' <=> Queued(u) \/ u = t
    BY <1>3 DEF Queued
  <2>3. (InHand(u)' <=> InHand(u)) /\ (AtWork(u)' <=> AtWork(u)) /\ (Answered(u)' <=> Answered(u))
    BY <1>1 DEF InHand, AtWork, Answered
  <2> QED
    BY <1>1, <1>2, <2>1, <2>2, <2>3 DEF OneOf
<1> QED
  BY <1>3, <1>4 DEF Places

\* A task that its caller, or nobody but worker w or the hand of actor a, holds
\* is answered: it leaves that place, and no other task moves.
LEMMA AnswerPlaces ==
    ASSUME TypeOK, Places, NEW t \in Tasks, NEW reason \in Reasons, Answer(t, reason),
           ~Queued(t), ~Answered(t), UNCHANGED q,
           \A a \in Actors : hand'[a] = hand[a] \ {t},
           \A w \in Workers : job'[w] = IF job[w] = t THEN NoTask ELSE job[w],
           \A u \in Tasks : pc'[u] = "done" <=> pc[u] = "done" \/ u = t
    PROVE  Places'
<1>1. /\ answers'[t] # <<>> /\ Len(answers'[t]) = 1
      /\ \A u \in Tasks \ {t} : answers'[u] = answers[u]
  <2>1. answers[t] = <<>> /\ answers'[t] = Append(answers[t], reason)
    BY DEF Answered, Answer, TypeOK
  <2> QED
    BY <2>1 DEF Answer, TypeOK
<1>2. ASSUME NEW u \in Tasks
      PROVE  OneOf(u)'
  <2>1. OneOf(u)
    BY DEF Places
  <2>2. (Queued(u)' <=> Queued(u))
    BY DEF Queued
  <2>3. CASE u = t
    <3>1. ~InHand(u)'
      BY <2>3 DEF InHand
    <3>2. ~AtWork(u)'
      BY <2>3, Kinds DEF AtWork
    <3>3. Answered(u)' /\ Len(answers'[u]) = 1 /\ ~Queued(u)'
      BY <1>1, <2>2, <2>3 DEF Answered
    <3>4. \A v, w \in Workers : job'[v] = u /\ job'[w] = u => v = w
      BY <3>2 DEF AtWork
    <3>5. \A a, b \in Actors : u \in hand'[a] /\ u \in hand'[b] => a = b
      BY <3>1 DEF InHand
    <3> QED
      BY <2>3, <3>1, <3>2, <3>3, <3>4, <3>5 DEF OneOf
  <2>4. CASE u # t
    <3>1. \A a \in Actors : u \in hand'[a] <=> u \in hand[a]
      BY <2>4
    <3>2. \A w \in Workers : job'[w] = u <=> job[w] = u
      BY <2>4, Kinds
    <3>3. (InHand(u)' <=> InHand(u)) /\ (AtWork(u)' <=> AtWork(u))
      BY <3>1, <3>2 DEF InHand, AtWork
    <3>4. (Answered(u)' <=> Answered(u)) /\ answers'[u] = answers[u]
      BY <1>1, <2>4 DEF Answered
    <3> QED
      BY <2>1, <2>2, <2>4, <3>1, <3>2, <3>3, <3>4 DEF OneOf
  <2> QED
    BY <2>3, <2>4
<1> QED
  BY <1>2 DEF Places

\* pop moves the late tasks into empty hands and the first of the others to
\* the worker.
LEMMA PopPlaces ==
    ASSUME TypeOK, Places, NEW w \in Workers, hand[w] = {}, job[w] = NoTask, Kept # <<>>,
           q' = Tail(Kept), hand' = [hand EXCEPT ![w] = Expired],
           job' = [job EXCEPT ![w] = Head(Kept)], UNCHANGED answers,
           \A t \in Tasks : pc'[t] = "done" <=> pc[t] = "done"
    PROVE  Places'
<1>1. /\ Head(Kept) \in ToSet(q) \ late /\ Head(Kept) \in Tasks
      /\ ToSet(q') = (ToSet(q) \ late) \ {Head(Kept)} /\ Distinct(q')
  BY QueueFacts, TailFacts DEF Places
<1>2. ASSUME NEW t \in Tasks
      PROVE  OneOf(t)'
  <2>1. OneOf(t)
    BY DEF Places
  <2>2. /\ Queued(t)' <=> Queued(t) /\ t \notin late /\ t # Head(Kept)
        /\ t \in Expired <=> Queued(t) /\ t \in late
        /\ t = Head(Kept) => Queued(t) /\ t \notin late
    BY <1>1, QueueFacts DEF Queued
  <2>3. \A b \in Actors : t \in hand'[b] <=> IF b = w THEN t \in Expired ELSE t \in hand[b]
    BY Kinds DEF TypeOK
  <2>4. InHand(t)' <=> InHand(t) \/ t \in Expired
    BY <2>3, Kinds DEF InHand
  <2>5. \A v \in Workers : job'[v] = IF v = w THEN Head(Kept) ELSE job[v]
    BY DEF TypeOK
  <2>6. AtWork(t)' <=> AtWork(t) \/ t = Head(Kept)
    BY <2>5, Kinds DEF AtWork
  <2>7. Answered(t)' <=> Answered(t)
    BY DEF Answered
  <2>8. \A b, c \in Actors : t \in hand'[b] /\ t \in hand'[c] => b = c
    BY <2>1, <2>2, <2>3 DEF OneOf, InHand
  <2>9. \A u, v \in Workers : job'[u] = t /\ job'[v] = t => u = v
    BY <2>1, <2>2, <2>5 DEF OneOf, AtWork
  <2> QED
    BY <2>1, <2>2, <2>4, <2>6, <2>7, <2>8, <2>9 DEF OneOf
<1> QED
  BY <1>1, <1>2 DEF Places

\* Steps that move no task.
LEMMA SamePlaces ==
    ASSUME Places, UNCHANGED <<q, hand, job, answers>>,
           \A t \in Tasks : pc'[t] = "done" <=> pc[t] = "done"
    PROVE  Places'
<1>1. ASSUME NEW t \in Tasks
      PROVE  OneOf(t)'
  <2>1. OneOf(t)
    BY DEF Places
  <2> QED
    BY <2>1 DEF OneOf, Queued, InHand, AtWork, Answered
<1> QED
  BY <1>1 DEF Places

\* Where Goto leaves the callers.
LEMMA GotoFacts ==
    ASSUME TypeOK, NEW a \in Actors, NEW p, Goto(a, p)
    PROVE  /\ pc'[a] = p
           /\ \A b \in Actors \ {a} : pc'[b] = pc[b]
  BY DEF TypeOK, Goto

\* Every step keeps each task at its one place.
LEMMA NextPlaces ==
    ASSUME TypeOK, Shape, LateOnly, Places, [Next]_vars
    PROVE  Places'
<1>1. ASSUME NEW a \in Actors, NEW p \in {"enter", "wait", "run"}, TakeExpired(a, p),
             hand[a] = {}, a \in Tasks => pc[a] # "done", UNCHANGED <<job, answers>>
      PROVE  Places'
  <2>1. \A t \in Tasks : pc'[t] = "done" <=> pc[t] = "done"
    BY <1>1, GotoFacts, Kinds DEF TakeExpired
  <2> QED
    BY <1>1, <2>1, TakePlaces DEF TakeExpired
<1>2. ASSUME NEW t \in Tasks, NEW reason \in Reasons, Answer(t, reason), Goto(t, "done"),
             pc[t] # "done", UNCHANGED <<q, hand, job>>
      PROVE  Places'
  <2>1. OneOf(t)
    BY DEF Places
  <2>2. ~Queued(t) /\ ~InHand(t) /\ ~AtWork(t) /\ ~Answered(t)
    BY <1>2, <2>1 DEF OneOf
  <2>3. \A u \in Tasks : pc'[u] = "done" <=> pc[u] = "done" \/ u = t
    BY <1>2, GotoFacts, Kinds
  <2>4. \A a \in Actors : hand'[a] = hand[a] \ {t}
    BY <1>2, <2>2 DEF InHand, TypeOK
  <2>5. \A w \in Workers : job'[w] = IF job[w] = t THEN NoTask ELSE job[w]
    BY <1>2, <2>2 DEF AtWork
  <2> QED
    BY <1>2, <2>2, <2>3, <2>4, <2>5, AnswerPlaces
<1>3. ASSUME NEW t \in Tasks, SubmitStart(t) \/ Collect(t)
      PROVE  Places'
  <2>1. t \in Actors /\ "deadline" \in Reasons
    BY Kinds DEF Reasons
  <2>2. CASE SubmitStart(t)
    <3>1. CASE t \in late
      BY <1>2, <2>1, <2>2, <3>1 DEF SubmitStart
    <3>2. CASE t \notin late
      <4>1. \A u \in Tasks : pc'[u] = "done" <=> pc[u] = "done"
        BY <2>1, <2>2, <3>2, GotoFacts, Kinds DEF SubmitStart
      <4> QED
        BY <2>2, <3>2, <4>1, SamePlaces DEF SubmitStart
    <3> QED
      BY <3>1, <3>2
  <2>3. CASE Collect(t)
    <3>1. pc[t] = "collect" /\ hand[t] = {} /\ UNCHANGED <<job, answers>>
      BY <2>3 DEF Collect, Shape, CallerShape
    <3>2. CASE TakeExpired(t, "enter")
      BY <1>1, <2>1, <3>1, <3>2
    <3>3. CASE Goto(t, "enter") /\ UNCHANGED <<q, hand, waiting>>
      <4>1. \A u \in Tasks : pc'[u] = "done" <=> pc[u] = "done"
        BY <2>1, <3>1, <3>3, GotoFacts, Kinds
      <4> QED
        BY <3>1, <3>3, <4>1, SamePlaces
    <3> QED
      BY <2>3, <3>2, <3>3 DEF Collect
  <2> QED
    BY <1>3, <2>2, <2>3
<1>4. ASSUME NEW t \in Tasks, Enter(t) \/ WaitOn(t)
      PROVE  Places'
  <2>1. t \in Actors /\ "deadline" \in Reasons /\ "limit" \in Reasons
    BY Kinds DEF Reasons
  <2>2. pc[t] \in {"enter", "wait"} /\ hand[t] = {} /\ UNCHANGED job
    BY <1>4, SubmitGoes DEF Free
  <2>3. CASE Enqueue(t)
    BY <2>2, <2>3, EnqueuePlaces
  <2>4. CASE TurnAway(t, "limit") \/ TurnAway(t, "deadline")
    BY <1>2, <2>1, <2>2, <2>4 DEF TurnAway
  <2>5. CASE TakeExpired(t, "wait") /\ UNCHANGED answers
    BY <1>1, <2>1, <2>2, <2>5
  <2>6. CASE Waits(t)
    <3>1. \A u \in Tasks : pc'[u] = "done" <=> pc[u] = "done"
      BY <2>1, <2>2, <2>6, GotoFacts, Kinds DEF Waits
    <3> QED
      BY <2>2, <2>6, <3>1, SamePlaces DEF Waits
  <2> QED
    BY <1>4, <2>3, <2>4, <2>5, <2>6, SubmitGoes
<1>5. ASSUME NEW w \in Workers, Pop(w)
      PROVE  Places'
  <2>1. w \in Actors /\ w \notin Tasks
    BY Kinds
  <2>2. /\ pc[w] = "run" /\ hand[w] = {} /\ job[w] = NoTask
        /\ hand' = [hand EXCEPT ![w] = Expired] /\ UNCHANGED answers
    BY <1>5 DEF Pop, Free, Shape, WorkerShape
  <2>3. \A u \in Tasks : pc'[u] = "done" <=> pc[u] = "done"
    <3>1. UNCHANGED pc \/ Goto(w, "handle") \/ Goto(w, "exit")
      BY <1>5 DEF Pop
    <3> QED
      BY <2>1, <3>1, GotoFacts, Kinds
  <2>4. CASE Kept # <<>>
    <3>1. q' = Tail(Kept) /\ job' = [job EXCEPT ![w] = Head(Kept)]
      BY <1>5, <2>4, QueueFacts DEF Pop
    <3> QED
      BY <2>2, <2>3, <2>4, <3>1, PopPlaces
  <2>5. CASE Kept = <<>>
    <3>1. q' = Kept /\ UNCHANGED job
      BY <1>5, <2>5, QueueFacts DEF Pop
    <3> QED
      BY <2>1, <2>2, <2>3, <3>1, TakePlaces
  <2> QED
    BY <2>4, <2>5
<1>6. ASSUME NEW w \in Workers, Handle(w)
      PROVE  Places'
  <2> DEFINE t == job[w]
             reason == IF t \in late THEN "deadline" ELSE "checked"
  <2>1. /\ w \in Actors /\ w \notin Tasks /\ t \in Tasks /\ pc[w] = "handle"
        /\ reason \in Reasons
    BY <1>6, Kinds DEF Handle, Shape, WorkerShape, TypeOK, Reasons
  <2>2. /\ Answer(t, reason) /\ UNCHANGED <<q, hand>>
        /\ job' = [job EXCEPT ![w] = NoTask] /\ Goto(w, "run")
    BY <1>6 DEF Handle
  <2>3. OneOf(t) /\ AtWork(t)
    BY <2>1 DEF Places, AtWork
  <2> HIDE DEF reason
  <2>4. ~Queued(t) /\ ~InHand(t) /\ ~Answered(t) /\ pc[t] = "done"
    BY <2>3 DEF OneOf
  <2>5. \A u \in Tasks : pc'[u] = "done" <=> pc[u] = "done" \/ u = t
    BY <2>1, <2>2, <2>4, GotoFacts, Kinds
  <2>6. \A a \in Actors : hand'[a] = hand[a] \ {t}
    BY <2>2, <2>4 DEF InHand, TypeOK
  <2>7. \A v \in Workers : job'[v] = IF job[v] = t THEN NoTask ELSE job[v]
    BY <2>1, <2>2, <2>3 DEF OneOf, TypeOK
  <2> QED
    BY <2>1, <2>2, <2>4, <2>5, <2>6, <2>7, AnswerPlaces
<1>7. ASSUME NEW a \in Actors, ReplyDead(a)
      PROVE  Places'
  <2>1. PICK t \in hand[a] : Answer(t, "deadline") /\ hand' = [hand EXCEPT ![a] = hand[a] \ {t}]
    BY <1>7 DEF ReplyDead
  <2>2. t \in Tasks /\ "deadline" \in Reasons /\ UNCHANGED <<q, pc, job>>
    BY <1>7 DEF ReplyDead, TypeOK, Reasons
  <2>3. OneOf(t) /\ InHand(t)
    BY <2>1, <2>2 DEF Places, InHand
  <2>4. ~Queued(t) /\ ~AtWork(t) /\ ~Answered(t) /\ pc[t] = "done"
    BY <2>3 DEF OneOf
  <2>5. \A b \in Actors : hand'[b] = hand[b] \ {t}
    <3>1. \A b \in Actors \ {a} : t \notin hand[b]
      BY <2>1, <2>3 DEF OneOf
    <3> QED
      BY <2>1, <3>1 DEF TypeOK
  <2>6. \A v \in Workers : job'[v] = IF job[v] = t THEN NoTask ELSE job[v]
    BY <2>2, <2>4 DEF AtWork
  <2>7. \A u \in Tasks : pc'[u] = "done" <=> pc[u] = "done" \/ u = t
    BY <2>2, <2>4
  <2> QED
    BY <2>1, <2>2, <2>4, <2>5, <2>6, <2>7, AnswerPlaces
<1>8. CASE Sweep
  BY <1>1, <1>8, Kinds DEF Sweep, Free
<1>9. CASE SweepEnds
  <2>1. \A u \in Tasks : pc'[u] = "done" <=> pc[u] = "done"
    BY <1>9, GotoFacts, Kinds DEF SweepEnds
  <2> QED
    BY <1>9, <2>1, SamePlaces DEF SweepEnds
<1>10. CASE CloseStop \/ CloseQueue \/ UNCHANGED vars
  BY <1>10, SamePlaces DEF CloseStop, CloseQueue, vars
<1>11. ASSUME NEW t \in Tasks, TimerFires(t) \/ RunsLate(t)
       PROVE  Places'
  BY <1>11, SamePlaces DEF TimerFires, RunsLate
<1> QED
  BY <1>3, <1>4, <1>5, <1>6, <1>7, <1>8, <1>9, <1>10, <1>11
  DEF Next, SubmitStep, WorkerStep

(***************************************************************************)
(* The shape of the goroutines                                             *)
(***************************************************************************)

\* Every step keeps it.
LEMMA NextShape ==
    ASSUME TypeOK, Shape, LateOnly, [Next]_vars
    PROVE  Shape'
<1>1. ASSUME NEW t \in Tasks, pc[t] # "done",
             pc'[t] \in {"collect", "enter", "wait", "done"},
             pc'[t] \in {"collect", "done"} => hand'[t] = {},
             \A a \in Actors \ {t} : pc'[a] = pc[a] /\ hand'[a] = hand[a],
             UNCHANGED <<job, closed>>,
             waiting' \cap Workers \subseteq waiting,
             closed /\ q = <<>> => q' = <<>>
      PROVE  Shape'
  <2>1. ASSUME NEW u \in Tasks
        PROVE  CallerShape(u)'
    BY <1>1, Kinds DEF Shape, CallerShape
  <2>2. ASSUME NEW w \in Workers
        PROVE  WorkerShape(w)'
    BY <1>1, Kinds DEF Shape, WorkerShape
  <2>3. pc'[Sweeper] \in {"run", "exit"}
    BY <1>1, Kinds DEF Shape
  <2> QED
    BY <2>1, <2>2, <2>3 DEF Shape
<1>2. ASSUME NEW a \in Actors, a \notin Tasks, NEW p, pc' = [pc EXCEPT ![a] = p],
             \A t \in Tasks : hand'[t] = hand[t],
             \A w \in Workers : WorkerShape(w)',
             a = Sweeper => p \in {"run", "exit"}
      PROVE  Shape'
  <2>1. ASSUME NEW u \in Tasks
        PROVE  CallerShape(u)'
    BY <1>2, Kinds DEF Shape, CallerShape, TypeOK
  <2>2. pc'[Sweeper] \in {"run", "exit"}
    BY <1>2, Kinds DEF Shape, TypeOK
  <2> QED
    BY <1>2, <2>1, <2>2 DEF Shape
<1>3. ASSUME NEW t \in Tasks, SubmitStart(t) \/ Collect(t)
      PROVE  Shape'
  <2>1. t \in Actors
    BY Kinds
  <2>2. CASE SubmitStart(t)
    <3>1. \E p \in {"collect", "done"} : Goto(t, p)
      BY <2>2 DEF SubmitStart
    <3>2. pc[t] = "idle" /\ hand[t] = {} /\ UNCHANGED <<q, closed, waiting, hand, job>>
      BY <2>2 DEF SubmitStart, Shape, CallerShape
    <3> QED
      BY <1>1, <2>1, <3>1, <3>2, GotoFacts
  <2>3. CASE Collect(t)
    <3>1. /\ pc[t] = "collect" /\ Goto(t, "enter") /\ UNCHANGED <<closed, job, answers>>
          /\ hand' = hand \/ hand' = [hand EXCEPT ![t] = Expired]
          /\ waiting' = waiting \/ waiting' = {}
          /\ q' = q \/ q' = Kept
      BY <2>3 DEF Collect, TakeExpired, Broadcast
    <3>2. \A a \in Actors \ {t} : hand'[a] = hand[a]
      BY <3>1 DEF TypeOK
    <3> QED
      BY <1>1, <2>1, <3>1, <3>2, GotoFacts, QueueFacts
  <2> QED
    BY <1>3, <2>2, <2>3
<1>4. ASSUME NEW t \in Tasks, Enter(t) \/ WaitOn(t), LateOnly
      PROVE  Shape'
  <2>1. /\ t \in Actors /\ pc[t] \in {"enter", "wait"} /\ hand[t] = {}
        /\ UNCHANGED <<closed, job>>
    BY <1>4, SubmitGoes, Kinds DEF Free
  <2>2. CASE ~closed /\ Enqueue(t)
    <3>1. waiting' \subseteq waiting /\ Goto(t, "done") /\ UNCHANGED <<hand, answers>>
      BY <2>2 DEF Enqueue, Signal
    <3> QED
      BY <1>1, <2>1, <2>2, <3>1, GotoFacts
  <2>3. CASE TurnAway(t, "limit") \/ TurnAway(t, "deadline")
    <3>1. Goto(t, "done") /\ UNCHANGED <<q, hand, waiting>>
      BY <2>3 DEF TurnAway
    <3> QED
      BY <1>1, <2>1, <3>1, GotoFacts
  <2>4. CASE TakeExpired(t, "wait") /\ UNCHANGED answers
    <3>1. /\ Goto(t, "wait") /\ q' = Kept /\ waiting' = {}
          /\ \A a \in Actors \ {t} : hand'[a] = hand[a]
      BY <2>4 DEF TakeExpired, Broadcast, TypeOK
    <3> QED
      BY <1>1, <2>1, <2>4, <3>1, GotoFacts, QueueFacts
  <2>5. CASE Waits(t)
    <3>1. /\ Goto(t, "wait") /\ UNCHANGED <<q, hand, answers>>
          /\ waiting' \cap Workers \subseteq waiting
      BY <2>5, Kinds DEF Waits
    <3> QED
      BY <1>1, <2>1, <3>1, GotoFacts
  <2> QED
    BY <1>4, <2>2, <2>3, <2>4, <2>5, SubmitGoes
<1>5. ASSUME NEW w \in Workers, Pop(w)
      PROVE  Shape'
  <2>1. w \in Actors /\ w \notin Tasks /\ w # Sweeper
    BY Kinds
  <2>2. /\ pc[w] = "run" /\ job[w] = NoTask /\ UNCHANGED <<closed, answers>>
        /\ \A t \in Tasks : hand'[t] = hand[t]
    BY <1>5, Kinds DEF Pop, Shape, WorkerShape, TypeOK
  <2>3. /\ q = <<>> => q' = <<>>
        /\ Kept # <<>> => Head(Kept) # NoTask
    BY <1>5, QueueFacts, Kinds DEF Pop
  <2>4. ASSUME NEW v \in Workers
        PROVE  WorkerShape(v)'
    <3>1. CASE v = w
      <4>1. CASE Kept # <<>>
        BY <1>5, <2>2, <2>3, <3>1, <4>1, Kinds
        DEF Pop, Goto, Broadcast, WorkerShape, TypeOK
      <4>2. CASE Kept = <<>> /\ closed
        <5>1. /\ q' = <<>> /\ pc' = [pc EXCEPT ![w] = "exit"] /\ UNCHANGED <<job, closed>>
              /\ waiting' \subseteq waiting
          BY <1>5, <4>2, QueueFacts DEF Pop, Goto, Broadcast
        <5>2. w \notin waiting
          BY <1>5 DEF Pop, Free
        <5> QED
          BY <2>1, <2>2, <3>1, <4>2, <5>1, <5>2 DEF WorkerShape, TypeOK
      <4>3. CASE Kept = <<>> /\ ~closed
        <5>1. UNCHANGED <<pc, job>>
          BY <1>5, <4>3 DEF Pop
        <5> QED
          BY <2>2, <3>1, <5>1 DEF WorkerShape
      <4> QED
        BY <4>1, <4>2, <4>3
    <3>2. CASE v # w
      <4>1. waiting' \subseteq waiting \cup {w}
        BY <1>5 DEF Pop, Broadcast
      <4>2. pc'[v] = pc[v] /\ job'[v] = job[v]
        BY <1>5, <3>2, Kinds DEF Pop, Goto, TypeOK
      <4> QED
        BY <2>2, <2>3, <3>2, <4>1, <4>2 DEF Shape, WorkerShape
    <3> QED
      BY <3>1, <3>2
  <2>5. \E p : pc' = [pc EXCEPT ![w] = p]
    <3>1. pc = [pc EXCEPT ![w] = pc[w]]
      BY DEF TypeOK
    <3> QED
      BY <1>5, <3>1 DEF Pop, Goto
  <2> QED
    BY <1>2, <2>1, <2>2, <2>4, <2>5
<1>6. ASSUME NEW w \in Workers, Handle(w)
      PROVE  Shape'
  <2>1. /\ w \in Actors /\ w \notin Tasks /\ w # Sweeper /\ pc[w] = "handle"
        /\ job[w] \in Tasks /\ job[w] # NoTask
    BY <1>6, Kinds DEF Handle, Shape, WorkerShape, TypeOK
  <2>2. /\ pc' = [pc EXCEPT ![w] = "run"] /\ job' = [job EXCEPT ![w] = NoTask]
        /\ UNCHANGED <<q, closed, waiting, hand>>
    BY <1>6 DEF Handle, Goto
  <2>3. ASSUME NEW v \in Workers
        PROVE  WorkerShape(v)'
    <3>1. pc'[v] = IF v = w THEN "run" ELSE pc[v]
      BY <2>2, Kinds DEF TypeOK
    <3>2. job'[v] = IF v = w THEN NoTask ELSE job[v]
      BY <2>2 DEF TypeOK
    <3> QED
      BY <2>1, <2>2, <3>1, <3>2 DEF Shape, WorkerShape
  <2> QED
    BY <1>2, <2>1, <2>2, <2>3
<1>7. ASSUME NEW a \in Actors, ReplyDead(a)
      PROVE  Shape'
  <2>1. /\ UNCHANGED <<q, closed, waiting, pc, job>>
        /\ \A b \in Actors : hand'[b] \subseteq hand[b]
    BY <1>7 DEF ReplyDead, TypeOK
  <2> QED
    BY <2>1, Kinds DEF Shape, CallerShape, WorkerShape
<1>8. CASE Sweep
  <2>1. /\ pc' = [pc EXCEPT ![Sweeper] = "run"] /\ q' = Kept /\ waiting' = {}
        /\ UNCHANGED <<closed, job, answers>>
        /\ \A t \in Tasks : hand'[t] = hand[t]
    BY <1>8, Kinds DEF Sweep, TakeExpired, Goto, Broadcast, TypeOK
  <2>2. ASSUME NEW v \in Workers
        PROVE  WorkerShape(v)'
    <3>1. pc'[v] = pc[v]
      BY <2>1, Kinds DEF TypeOK
    <3> QED
      BY <2>1, <3>1, QueueFacts DEF Shape, WorkerShape
  <2> QED
    BY <1>2, <2>1, <2>2, Kinds
<1>9. CASE SweepEnds
  <2>1. /\ pc' = [pc EXCEPT ![Sweeper] = "exit"]
        /\ UNCHANGED <<q, closed, waiting, job, answers, hand>>
    BY <1>9 DEF SweepEnds, Goto
  <2>2. ASSUME NEW v \in Workers
        PROVE  WorkerShape(v)'
    <3>1. pc'[v] = pc[v]
      BY <2>1, Kinds DEF TypeOK
    <3> QED
      BY <2>1, <3>1 DEF Shape, WorkerShape
  <2> QED
    BY <1>2, <2>1, <2>2, Kinds
<1>10. ASSUME UNCHANGED <<q, pc, hand, job>>, waiting' \subseteq waiting,
              closed => closed'
       PROVE  Shape'
  BY <1>10 DEF Shape, CallerShape, WorkerShape
<1>11. CASE CloseStop \/ CloseQueue \/ UNCHANGED vars
  BY <1>10, <1>11 DEF CloseStop, CloseQueue, Broadcast, vars
<1>12. ASSUME NEW t \in Tasks, TimerFires(t) \/ RunsLate(t)
       PROVE  Shape'
  BY <1>10, <1>12 DEF TimerFires, RunsLate, Broadcast
<1> QED
  BY <1>3, <1>4, <1>5, <1>6, <1>7, <1>8, <1>9, <1>11, <1>12
  DEF Next, SubmitStep, WorkerStep

(***************************************************************************)
(* Wake-ups                                                                *)
(***************************************************************************)

\* The workers that are on their way to pop.
Runners == {w \in Workers \ waiting : pc[w] = "run"}

\* There are finitely many workers, so finitely many are on their way to pop.
LEMMA RunnersFinite ==
    /\ IsFiniteSet(Runners) /\ Cardinality(Runners) \in Nat
    /\ IsFiniteSet(Runners') /\ Cardinality(Runners') \in Nat
<1>1. Runners \subseteq Workers /\ Runners' \subseteq Workers /\ IsFiniteSet(Workers)
  BY PoolAssumption DEF Runners
<1> QED
  BY <1>1, FS_Subset, FS_CardinalityType

\* A broadcast leaves nobody to be forgotten.
LEMMA WakeAll ==
    ASSUME waiting' = {}
    PROVE  NoLostWakeup'
  BY DEF NoLostWakeup

\* Steps that put nobody to sleep, make no room and take no worker off its way.
LEMMA WakeSame ==
    ASSUME TypeOK, NoLostWakeup, waiting' = waiting, UNCHANGED <<q, closed>>,
           \A t \in Tasks \cap waiting : timer'[t] = timer[t],
           \A w \in Workers \ waiting : pc[w] = "run" => pc'[w] = "run"
    PROVE  NoLostWakeup'
<1>1. Runners \subseteq Runners'
  BY DEF Runners
<1>2. Cardinality(Runners) <= Cardinality(Runners')
  BY <1>1, RunnersFinite, FS_Subset
<1>3. Len(q) \in Nat
  BY QueueFacts
<1>4. Workers \cap waiting' # {} => Len(q') <= Cardinality(Runners')
  BY <1>2, <1>3, RunnersFinite DEF NoLostWakeup, Runners
<1> QED
  BY <1>4 DEF NoLostWakeup, Runners, Room

\* An empty queue needs no worker.
LEMMA WakeEmpty ==
    ASSUME q' = <<>>, \A t \in Tasks \cap waiting' : ~Room' /\ ~closed' /\ timer'[t] # "fired"
    PROVE  NoLostWakeup'
<1>1. Len(q') <= Cardinality(Runners')
  BY RunnersFinite
<1> QED
  BY <1>1 DEF NoLostWakeup, Runners

\* Signal on a new task wakes a worker: no caller waits while there is room.
LEMMA WakeOne ==
    ASSUME TypeOK, Shape, NoLostWakeup, NEW t \in Tasks, Room, Enqueue(t), UNCHANGED closed
    PROVE  NoLostWakeup'
<1>1. /\ Tasks \cap waiting = {} /\ q' = Append(q, t) /\ Signal
      /\ \A w \in Workers : pc'[w] = pc[w]
  BY Kinds DEF NoLostWakeup, Enqueue, Goto, TypeOK
<1>2. CASE waiting' = {}
  BY <1>2, WakeAll
<1>3. CASE waiting' # {}
  <2>1. PICK a \in waiting : waiting' = waiting \ {a}
    BY <1>1, <1>3 DEF Signal
  <2>2. a \in Workers /\ pc[a] = "run"
    BY <1>1 DEF TypeOK, Shape, WorkerShape
  <2>3. Runners' = Runners \cup {a} /\ a \notin Runners
    BY <1>1, <2>1, <2>2 DEF Runners
  <2>4. Cardinality(Runners') = Cardinality(Runners) + 1
    BY <2>3, RunnersFinite, FS_AddElement
  <2>5. Len(q') = Len(q) + 1 /\ Len(q) \in Nat
    BY <1>1, AppendFacts, QueueFacts
  <2>6. Len(q) <= Cardinality(Runners)
    BY <2>2 DEF NoLostWakeup, Runners
  <2>7. Len(q') <= Cardinality(Runners')
    BY <2>4, <2>5, <2>6, RunnersFinite
  <2>8. Tasks \cap waiting' = {}
    BY <1>1, <2>1
  <2> QED
    BY <2>7, <2>8 DEF NoLostWakeup, Runners
<1> QED
  BY <1>2, <1>3

\* Every step keeps the wake-ups.
LEMMA NextWake ==
    ASSUME TypeOK, Shape, LateOnly, NoLostWakeup, [Next]_vars
    PROVE  NoLostWakeup'
<1>1. ASSUME NEW t \in Tasks, SubmitStart(t) \/ Collect(t)
      PROVE  NoLostWakeup'
  <2>1. UNCHANGED <<closed, timer>> /\ \A w \in Workers : pc'[w] = pc[w]
    BY <1>1, Kinds DEF SubmitStart, Collect, TakeExpired, Goto, TypeOK
  <2>2. waiting' = {} \/ UNCHANGED <<waiting, q>>
    BY <1>1 DEF SubmitStart, Collect, TakeExpired, Broadcast
  <2> QED
    BY <2>1, <2>2, WakeAll, WakeSame
<1>2. ASSUME NEW t \in Tasks, Enter(t) \/ WaitOn(t)
      PROVE  NoLostWakeup'
  <2>1. /\ t \in Actors /\ t \notin waiting /\ UNCHANGED closed
        /\ \A u \in Tasks \ {t} : timer'[u] = timer[u]
    BY <1>2, SubmitGoes, Kinds DEF Free, TimerGoes, TypeOK
  <2>2. CASE Room /\ Enqueue(t)
    BY <2>1, <2>2, WakeOne
  <2>3. CASE TurnAway(t, "limit") \/ TurnAway(t, "deadline")
    <3>1. UNCHANGED <<q, waiting>> /\ \A w \in Workers : pc'[w] = pc[w]
      BY <2>1, <2>3, GotoFacts, Kinds DEF TurnAway
    <3> QED
      BY <2>1, <3>1, WakeSame
  <2>4. CASE TakeExpired(t, "wait")
    BY <2>4, WakeAll DEF TakeExpired, Broadcast
  <2>5. CASE Waits(t)
    <3>1. /\ UNCHANGED <<q, closed>> /\ waiting' = waiting \cup {t}
          /\ timer'[t] = "armed" /\ ~Room /\ ~closed
          /\ \A w \in Workers : pc'[w] = pc[w]
      BY <2>1, <2>5, GotoFacts, Kinds DEF Waits, TypeOK
    <3>2. Runners' = Runners /\ Workers \cap waiting' = Workers \cap waiting
      BY <3>1, Kinds DEF Runners
    <3>3. \A u \in Tasks \cap waiting' : ~Room' /\ ~closed' /\ timer'[u] # "fired"
      BY <2>1, <3>1 DEF NoLostWakeup, Room
    <3>4. Workers \cap waiting' # {} => Len(q') <= Cardinality(Runners')
      BY <3>1, <3>2 DEF NoLostWakeup, Runners
    <3> QED
      BY <3>3, <3>4 DEF NoLostWakeup, Runners
  <2> QED
    BY <1>2, <2>2, <2>3, <2>4, <2>5, SubmitGoes
<1>3. ASSUME NEW w \in Workers, Pop(w)
      PROVE  NoLostWakeup'
  <2>1. UNCHANGED <<closed, timer>> /\ w \notin Tasks
    BY <1>3, Kinds DEF Pop
  <2>2. CASE waiting' = {}
    BY <2>2, WakeAll
  <2>3. CASE waiting' # {}
    <3>1. /\ q = <<>> /\ q' = <<>>
          /\ waiting' = waiting \/ waiting' = waiting \cup {w}
      BY <1>3, <2>3, QueueFacts DEF Pop, Broadcast
    <3>2. \A t \in Tasks \cap waiting' : ~Room' /\ ~closed' /\ timer'[t] # "fired"
      BY <2>1, <3>1 DEF NoLostWakeup, Room
    <3> QED
      BY <3>1, <3>2, WakeEmpty
  <2> QED
    BY <2>2, <2>3
<1>4. ASSUME NEW w \in Workers, Handle(w)
      PROVE  NoLostWakeup'
  <2>1. UNCHANGED <<q, closed, waiting, timer>>
    BY <1>4 DEF Handle
  <2>2. \A v \in Workers : pc[v] = "run" => pc'[v] = "run"
    BY <1>4, Kinds DEF Handle, Goto, TypeOK
  <2> QED
    BY <2>1, <2>2, WakeSame
<1>5. ASSUME NEW a \in Actors, ReplyDead(a)
      PROVE  NoLostWakeup'
  BY <1>5, WakeSame DEF ReplyDead
<1>6. CASE Sweep \/ CloseQueue
  BY <1>6, WakeAll DEF Sweep, TakeExpired, Broadcast, CloseQueue
<1>7. CASE SweepEnds
  <2>1. UNCHANGED <<q, closed, waiting, timer>> /\ \A w \in Workers : pc'[w] = pc[w]
    BY <1>7, Kinds DEF SweepEnds, Goto, TypeOK
  <2> QED
    BY <2>1, WakeSame
<1>8. CASE CloseStop \/ UNCHANGED vars
  BY <1>8, WakeSame DEF CloseStop, vars
<1>9. ASSUME NEW t \in Tasks, TimerFires(t) \/ RunsLate(t)
      PROVE  NoLostWakeup'
  <2>1. CASE TimerFires(t)
    BY <2>1, WakeAll DEF TimerFires, Broadcast
  <2>2. CASE RunsLate(t)
    BY <2>2, WakeSame DEF RunsLate
  <2> QED
    BY <1>9, <2>1, <2>2
<1> QED
  BY <1>1, <1>2, <1>3, <1>4, <1>5, <1>6, <1>7, <1>8, <1>9
  DEF Next, SubmitStep, WorkerStep

(***************************************************************************)
(* The safety theorems                                                     *)
(***************************************************************************)

\* A new pool satisfies the invariant.
LEMMA InitInv ==
    ASSUME Init
    PROVE  IInv
<1>1. q = <<>> /\ waiting = {} /\ late = {} /\ closed = FALSE
  BY DEF Init
<1>2. \A t \in Tasks : /\ pc[t] = "idle" /\ hand[t] = {} /\ answers[t] = <<>>
                       /\ timer[t] = "off"
  BY Kinds DEF Init, NoHand
<1>3. \A w \in Workers : pc[w] = "run" /\ job[w] = NoTask
  BY Kinds DEF Init
<1>4. pc[Sweeper] = "run" /\ \A a \in Actors : hand[a] = {}
  BY Kinds DEF Init, NoHand
<1>5. TypeOK
  <2>1. full \in {"drop", "wait"} /\ stopped \in BOOLEAN /\ closed \in BOOLEAN
    BY PoolAssumption DEF Init
  <2>2. q \in Seq(Tasks) /\ Len(q) <= Depth
    BY <1>1, PoolAssumption
  <2>3. pc \in [Actors -> {"idle", "collect", "enter", "wait", "done", "run", "handle", "exit"}]
    BY DEF Init
  <2>4. hand \in [Actors -> SUBSET Tasks]
    BY DEF Init, NoHand
  <2>5. /\ job \in [Workers -> Tasks \cup {NoTask}]
        /\ timer \in [Tasks -> {"off", "armed", "fired"}]
        /\ answers \in [Tasks -> Seq(Reasons)]
    BY DEF Init
  <2> QED
    BY <1>1, <2>1, <2>2, <2>3, <2>4, <2>5 DEF TypeOK
<1>6. Shape
  BY <1>1, <1>2, <1>3, <1>4 DEF Shape, CallerShape, WorkerShape
<1>7. LateOnly
  BY <1>2, <1>4 DEF LateOnly
<1>8. Places
  <2>1. Distinct(q) /\ ToSet(q) = {}
    BY <1>1 DEF Distinct, ToSet
  <2>2. ASSUME NEW t \in Tasks
        PROVE  OneOf(t)
    <3>1. ~Queued(t) /\ ~InHand(t) /\ ~AtWork(t) /\ ~Answered(t) /\ Len(answers[t]) = 0
      BY <1>2, <1>3, <1>4, <2>1, Kinds DEF Queued, InHand, AtWork, Answered
    <3> QED
      BY <1>2, <3>1 DEF OneOf, InHand, AtWork
  <2> QED
    BY <2>1, <2>2 DEF Places
<1>9. NoLostWakeup
  BY <1>1 DEF NoLostWakeup
<1> QED
  BY <1>5, <1>6, <1>7, <1>8, <1>9 DEF IInv

\* Every step keeps the invariant.
LEMMA NextInv == IInv /\ [Next]_vars => IInv'
  BY NextTypes, NextShape, NextLate, NextPlaces, NextWake DEF IInv

\* Whatever Submit, pop, the sweep, the timers and Close interleave: the types
\* of the pool, the state of its goroutines, each task at one place, and a
\* worker on its way for each queued task while another one sleeps.
THEOREM Invariance == Spec => []IInv
<1>1. Init => IInv
  BY InitInv
<1>2. IInv /\ [Next]_vars => IInv'
  BY NextInv
<1> QED
  BY <1>1, <1>2, PTL DEF Spec

\* queue_max bounds the queue, whichever waiting caller is woken first, with any
\* number of callers and workers.
THEOREM TypeCorrect == Spec => []TypeOK
<1>1. IInv => TypeOK
  BY DEF IInv
<1> QED
  BY <1>1, Invariance, PTL

\* The one condition variable of callers and workers loses no wake-up.
THEOREM NoWakeupLost == Spec => []NoLostWakeup
<1>1. IInv => NoLostWakeup
  BY DEF IInv
<1> QED
  BY <1>1, Invariance, PTL

\* How often a task is in the queue, in hands and at work is what Places says.
LEMMA HeldIs ==
    ASSUME TypeOK, Places, NEW t \in Tasks
    PROVE  Held(t) + Len(answers[t]) = IF pc[t] = "done" THEN 1 ELSE 0
<1> DEFINE I == {i \in 1 .. Len(q) : q[i] = t}
           A == {a \in Actors : t \in hand[a]}
           W == {w \in Workers : job[w] = t}
<1>1. OneOf(t) /\ Distinct(q) /\ DOMAIN q = 1 .. Len(q)
  BY QueueFacts DEF Places
<1>2. /\ Queued(t) => \E i \in 1 .. Len(q) : I = {i}
      /\ ~Queued(t) => I = {}
  BY <1>1 DEF Queued, ToSet, Distinct
<1>3. /\ InHand(t) => \E a \in Actors : A = {a}
      /\ ~InHand(t) => A = {}
  BY <1>1 DEF OneOf, InHand
<1>4. /\ AtWork(t) => \E w \in Workers : W = {w}
      /\ ~AtWork(t) => W = {}
  BY <1>1 DEF OneOf, AtWork
<1>5. Held(t) = Cardinality(I) + Cardinality(A) + Cardinality(W)
  BY DEF Held
<1> HIDE DEF I, A, W
<1>6. /\ Cardinality(I) = IF Queued(t) THEN 1 ELSE 0
      /\ Cardinality(A) = IF InHand(t) THEN 1 ELSE 0
      /\ Cardinality(W) = IF AtWork(t) THEN 1 ELSE 0
  BY <1>2, <1>3, <1>4, FS_EmptySet, FS_Singleton
<1>7. Len(answers[t]) = IF Answered(t) THEN 1 ELSE 0
  <2>1. answers[t] \in Seq(Reasons) /\ Len(answers[t]) \in Nat
    BY DEF TypeOK
  <2>2. Len(answers[t]) = 0 <=> answers[t] = <<>>
    BY <2>1
  <2> QED
    BY <1>1, <2>1, <2>2 DEF OneOf, Answered
<1> QED
  BY <1>1, <1>5, <1>6, <1>7 DEF OneOf

\* No request is answered twice and none is lost: a task that Submit has let go
\* is queued, in the hands of one goroutine, or answered once.
THEOREM OnePlaceEach == Spec => []OnePlace
<1>1. IInv => OnePlace
  BY HeldIs DEF IInv, OnePlace
<1> QED
  BY <1>1, Invariance, PTL

(***************************************************************************)
(* QueuePool implements PoolPromise                                        *)
(***************************************************************************)

Calling == {"collect", "enter", "wait"}

\* Which state of the pool stands for which place of the promise.
Stands(t) ==
    /\ Place(t) = "new" <=> pc[t] = "idle"
    /\ Place(t) = "answered" <=> Answered(t)
    /\ Place(t) = "calling" <=> pc[t] \in Calling
    /\ Place(t) = "queued" <=> Queued(t)
    /\ Place(t) = "caller" <=> \E c \in Tasks : t \in hand[c]
    /\ Place(t) = "pool" <=> AtWork(t) \/ \E a \in Actors \ Tasks : t \in hand[a]

PlacesAre == \A t \in Tasks : Stands(t)

\* The places of Place are the places of OneOf.
LEMMA PlacesRead == IInv => PlacesAre
<1> SUFFICES ASSUME IInv, NEW t \in Tasks
             PROVE  Stands(t)
  BY DEF PlacesAre
<1>1. OneOf(t) /\ CallerShape(t)
  BY DEF IInv, Places, Shape
<1>2. InHand(t) <=> \/ \E c \in Tasks : t \in hand[c]
                    \/ \E a \in Actors \ Tasks : t \in hand[a]
  BY Kinds DEF InHand
<1>3. ~((\E c \in Tasks : t \in hand[c]) /\ \E a \in Actors \ Tasks : t \in hand[a])
  BY <1>1, Kinds DEF OneOf
<1>4. CASE pc[t] = "idle"
  <2>1. ~Queued(t) /\ ~InHand(t) /\ ~AtWork(t) /\ ~Answered(t)
    BY <1>1, <1>4 DEF OneOf
  <2>2. Place(t) = "new"
    BY <1>2, <1>4, <2>1 DEF Place, Answered, Queued
  <2> QED
    BY <1>2, <1>4, <2>1, <2>2 DEF Stands, Calling
<1>5. CASE pc[t] \in Calling
  <2>1. ~Queued(t) /\ ~InHand(t) /\ ~AtWork(t) /\ ~Answered(t)
    BY <1>1, <1>5 DEF OneOf, Calling
  <2>2. Place(t) = "calling"
    BY <1>2, <1>5, <2>1 DEF Place, Answered, Calling, Queued
  <2> QED
    BY <1>2, <1>5, <2>1, <2>2 DEF Stands, Calling
<1>6. CASE pc[t] = "done"
  <2>1. CASE Answered(t)
    <3>1. Place(t) = "answered"
      BY <1>1, <1>6, <2>1 DEF Place, Answered, OneOf, Queued, InHand, Actors
    <3> QED
      BY <1>1, <1>2, <1>6, <2>1, <3>1 DEF Stands, Calling, OneOf
  <2>2. CASE Queued(t)
    <3>1. ~Answered(t) /\ ~InHand(t)
      BY <1>1, <2>2 DEF OneOf
    <3>2. Place(t) = "queued"
      BY <1>2, <1>6, <2>2, <3>1 DEF Place, Answered, Queued
    <3> QED
      BY <1>1, <1>2, <1>6, <2>2, <3>1, <3>2 DEF Stands, Calling, OneOf
  <2>3. CASE \E c \in Tasks : t \in hand[c]
    <3>1. ~Answered(t) /\ ~Queued(t) /\ ~AtWork(t)
      BY <1>1, <1>2, <2>3 DEF OneOf
    <3>2. Place(t) = "caller"
      BY <1>6, <2>3, <3>1 DEF Place, Answered, Queued
    <3> QED
      BY <1>3, <1>6, <2>3, <3>1, <3>2 DEF Stands, Calling
  <2>4. CASE AtWork(t) \/ \E a \in Actors \ Tasks : t \in hand[a]
    <3>1. ~Answered(t) /\ ~Queued(t) /\ ~\E c \in Tasks : t \in hand[c]
      BY <1>1, <1>2, <1>3, <2>4 DEF OneOf
    <3>2. Place(t) = "pool"
      BY <1>6, <3>1 DEF Place, Answered, Queued
    <3> QED
      BY <1>6, <2>4, <3>1, <3>2 DEF Stands, Calling
  <2> QED
    BY <1>1, <1>2, <1>6, <2>1, <2>2, <2>3, <2>4 DEF OneOf
<1> QED
  BY <1>1, <1>4, <1>5, <1>6 DEF CallerShape, Calling

\* The module of the promise counts the tasks of a set as this one does.
LEMMA CountRead ==
    ASSUME NEW S
    PROVE  Promise!Cardinality(S) = Cardinality(S)
  BY DEF Promise!Cardinality, Cardinality, Promise!IsFiniteSet, IsFiniteSet

\* A task that nothing moved is where it was.
LEMMA PlaceStays ==
    ASSUME NEW t \in Tasks,
           pc'[t] = "idle" <=> pc[t] = "idle", pc'[t] \in Calling <=> pc[t] \in Calling,
           answers'[t] = answers[t], Queued(t)' <=> Queued(t),
           \A c \in Tasks : t \in hand'[c] <=> t \in hand[c]
    PROVE  Place(t)' = Place(t)
  BY DEF Place, Queued, Calling

\* The queue of the promise is what q holds.
LEMMA QueueRead ==
    ASSUME IInv
    PROVE  /\ Promise!In("queued") = ToSet(q)
           /\ Cardinality(Promise!In("queued")) = Len(q)
           /\ \A t \in Tasks : pc[t] \in Calling => Promise!In("calling") # {}
<1>1. PlacesAre /\ TypeOK /\ Distinct(q)
  BY PlacesRead DEF IInv, Places
<1>2. Promise!In("queued") = ToSet(q)
  BY <1>1, QueueFacts DEF Promise!In, PlacesAre, Stands, Queued
<1>3. Cardinality(ToSet(q)) = Len(q)
  BY <1>1, QueueFacts, DistinctLen
<1>4. ASSUME NEW t \in Tasks, pc[t] \in Calling
      PROVE  t \in Promise!In("calling")
  BY <1>1, <1>4 DEF Promise!In, PlacesAre, Stands
<1> QED
  BY <1>2, <1>3, <1>4

\* Tasks of a set S move to one place.
LEMMA MoveRead ==
    ASSUME NEW S, NEW p, \A t \in Tasks : Place(t)' = IF t \in S THEN p ELSE Place(t)
    PROVE  Promise!Move(S, p)
  BY DEF Promise!Move

Why == [t \in Tasks |-> IF answers[t] = <<>> THEN "none" ELSE Head(answers[t])]

\* The handler was called for task t and for no other.
LEMMA HandRead ==
    ASSUME TypeOK, NEW t \in Tasks, NEW reason \in Reasons, Answer(t, reason), ~Answered(t),
           Place(t)' = "answered", \A u \in Tasks \ {t} : Place(u)' = Place(u),
           UNCHANGED <<full, late, closed>>
    PROVE  Promise!Hand(t, reason)
<1>1. Promise!Move({t}, "answered")
  <2>1. \A u \in Tasks : Place(u)' = IF u \in {t} THEN "answered" ELSE Place(u)
    OBVIOUS
  <2> QED
    BY <2>1, MoveRead
<1>2. answers'[t] = <<reason>> /\ \A u \in Tasks \ {t} : answers'[u] = answers[u]
  <2>1. answers[t] = <<>> /\ answers'[t] = Append(answers[t], reason)
    BY DEF Answered, Answer, TypeOK
  <2> QED
    BY <2>1 DEF Answer, TypeOK
<1>3. Why' = [Why EXCEPT ![t] = reason]
  <2>1. Head(answers'[t]) = reason /\ answers'[t] # <<>>
    BY <1>2
  <2> QED
    BY <1>2, <2>1 DEF Why
<1> QED
  BY <1>1, <1>3 DEF Promise!Hand, Why

\* Late tasks go from the queue into the hands of a goroutine, a caller's or
\* one of the pool's.
LEMMA TakeRead ==
    ASSUME IInv, PlacesAre', NEW a \in Actors, Expired # {}, hand[a] = {},
           q' = Kept, hand' = [hand EXCEPT ![a] = Expired], UNCHANGED <<full, late, closed, answers>>,
           \A t \in Tasks : pc'[t] = pc[t] \/ (pc'[t] \in Calling /\ pc[t] \in Calling),
           a \in Tasks => pc[a] \in Calling
    PROVE  Promise!Next
<1> DEFINE who == IF a \in Tasks THEN "caller" ELSE "pool"
<1>1. /\ TypeOK /\ PlacesAre /\ Expired = ToSet(q) \cap late /\ Expired \subseteq Tasks
      /\ ToSet(Kept) = ToSet(q) \ late
  BY PlacesRead, QueueFacts DEF IInv
<1>2. \A b \in Actors : hand'[b] = IF b = a THEN Expired ELSE hand[b]
  BY <1>1 DEF TypeOK
<1>3. ASSUME NEW t \in Tasks
      PROVE  Place(t)' = IF t \in Expired THEN who ELSE Place(t)
  <2>1. CASE t \in Expired
    <3>1. CASE a \in Tasks
      <4>1. t \in hand'[a]
        BY <1>2, <2>1
      <4> QED
        BY <2>1, <3>1, <4>1 DEF PlacesAre, Stands
    <3>2. CASE a \notin Tasks
      <4>1. t \in hand'[a] /\ a \in Actors \ Tasks
        BY <1>2, <2>1, <3>2
      <4> QED
        BY <2>1, <3>2, <4>1 DEF PlacesAre, Stands
    <3> QED
      BY <3>1, <3>2
  <2>2. CASE t \notin Expired
    <3>1. Queued(t)' <=> Queued(t)
      BY <1>1, <2>2 DEF Queued
    <3>2. \A c \in Tasks : t \in hand'[c] <=> t \in hand[c]
      BY <1>2, <2>2, Kinds
    <3>3. (pc'[t] = "idle" <=> pc[t] = "idle") /\ (pc'[t] \in Calling <=> pc[t] \in Calling)
      BY DEF Calling
    <3> QED
      BY <2>2, <3>1, <3>2, <3>3, PlaceStays
  <2> QED
    BY <2>1, <2>2
<1> HIDE DEF who
<1>4. Promise!Move(Expired, who)
  BY <1>3, MoveRead
<1>5. Expired \subseteq Promise!In("queued") /\ Expired \subseteq late
  BY <1>1, QueueRead
<1>6. who = "pool" \/ (who = "caller" /\ Promise!In("calling") # {})
  <2>1. a \in Tasks => Promise!In("calling") # {}
    BY QueueRead
  <2>2. who = "pool" \/ (who = "caller" /\ a \in Tasks)
    BY DEF who
  <2> QED
    BY <2>1, <2>2
<1>7. UNCHANGED Why
  BY DEF Why
<1>8. Promise!Take(Expired, who)
  BY <1>4, <1>5, <1>6, <1>7 DEF Promise!Take, Why
<1> QED
  BY <1>5, <1>6, <1>8 DEF Promise!Next

\* A task that its caller holds is answered by its own goroutine.
LEMMA OwnAnswer ==
    ASSUME IInv, PlacesAre', NEW t \in Tasks, NEW reason \in {"limit", "deadline"},
           pc[t] # "done", Answer(t, reason), Goto(t, "done"),
           UNCHANGED <<full, late, closed, q, hand>>
    PROVE  Promise!Hand(t, reason)
<1>1. TypeOK /\ OneOf(t) /\ t \in Actors /\ reason \in Reasons
  BY Kinds DEF IInv, Places, Reasons
<1>2. ~Answered(t) /\ \A u \in Tasks \ {t} : answers'[u] = answers[u]
  BY <1>1 DEF OneOf, Answer, TypeOK
<1>3. answers'[t] # <<>>
  <2>1. answers'[t] = Append(answers[t], reason) /\ answers[t] \in Seq(Reasons)
    BY <1>1 DEF Answer, TypeOK
  <2> QED
    BY <1>1, <2>1
<1>4. Place(t)' = "answered"
  BY <1>3 DEF PlacesAre, Stands, Answered
<1>5. ASSUME NEW u \in Tasks \ {t}
      PROVE  Place(u)' = Place(u)
  <2>1. pc'[u] = pc[u] /\ (Queued(u)' <=> Queued(u))
    BY <1>1, GotoFacts, Kinds DEF Queued
  <2> QED
    BY <1>2, <2>1, PlaceStays
<1> QED
  BY <1>1, <1>2, <1>4, <1>5, HandRead

\* A task that was taken is answered by the goroutine that took it.
LEMMA TakenAnswer ==
    ASSUME IInv, PlacesAre', NEW t \in Tasks, NEW a \in Actors,
           t \in hand[a] \/ AtWork(t),
           NEW reason \in Reasons, reason = IF t \in late THEN "deadline" ELSE "checked",
           Answer(t, reason), UNCHANGED <<full, late, closed, q>>,
           \A u \in Tasks : pc'[u] = pc[u],
           \A b \in Actors, u \in Tasks \ {t} : u \in hand'[b] <=> u \in hand[b]
    PROVE  Promise!Next
<1>1. TypeOK /\ OneOf(t) /\ PlacesAre
  BY PlacesRead DEF IInv, Places
<1>2. Place(t) \in {"caller", "pool"}
  BY <1>1, Kinds DEF PlacesAre, Stands
<1>3. ~Answered(t) /\ \A u \in Tasks \ {t} : answers'[u] = answers[u]
  BY <1>1 DEF OneOf, Answer, TypeOK, InHand
<1>4. answers'[t] # <<>>
  <2>1. answers'[t] = Append(answers[t], reason) /\ answers[t] \in Seq(Reasons)
    BY <1>1 DEF Answer, TypeOK
  <2> QED
    BY <1>1, <2>1
<1>5. Place(t)' = "answered"
  BY <1>4 DEF PlacesAre, Stands, Answered
<1>6. ASSUME NEW u \in Tasks \ {t}
      PROVE  Place(u)' = Place(u)
  <2>1. Queued(u)' <=> Queued(u)
    BY DEF Queued
  <2> QED
    BY <1>3, <2>1, PlaceStays, Kinds
<1>7. Promise!Hand(t, reason)
  BY <1>1, <1>3, <1>5, <1>6, HandRead
<1>8. Promise!Answer(t)
  BY <1>2, <1>7 DEF Promise!Answer, Promise!Hand
<1> QED
  BY <1>8 DEF Promise!Next

\* Every step of the pool is a step of the promise, or none of it.
LEMMA NextRead ==
    ASSUME IInv, IInv', PlacesAre', [Next]_vars
    PROVE  [Promise!Next]_Promise!pool
<1>1. TypeOK /\ Shape /\ LateOnly /\ PlacesAre /\ "limit" \in Reasons /\ "deadline" \in Reasons
  BY PlacesRead DEF IInv, Reasons
<1>2. ASSUME UNCHANGED <<full, late, closed, answers, q>>,
             \A t \in Tasks : \/ pc'[t] = pc[t]
                              \/ pc'[t] \in Calling /\ pc[t] \in Calling,
             \A t \in Tasks : hand'[t] = hand[t]
      PROVE  UNCHANGED Promise!pool
  <2>1. ASSUME NEW t \in Tasks
        PROVE  Place(t)' = Place(t)
    <3>1. (pc'[t] = "idle" <=> pc[t] = "idle") /\ (pc'[t] \in Calling <=> pc[t] \in Calling)
      BY <1>2 DEF Calling
    <3>2. (Queued(t)' <=> Queued(t)) /\ \A c \in Tasks : t \in hand'[c] <=> t \in hand[c]
      BY <1>2 DEF Queued
    <3> QED
      BY <1>2, <3>1, <3>2, PlaceStays
  <2> QED
    BY <1>2, <2>1 DEF Promise!pool
<1>3. ASSUME NEW t \in Tasks, SubmitStart(t)
      PROVE  Promise!Next
  <2>1. /\ pc[t] = "idle" /\ t \in Actors /\ Place(t) = "new"
        /\ UNCHANGED <<full, late, closed, q, hand>>
    BY <1>1, <1>3, Kinds DEF SubmitStart, PlacesAre, Stands
  <2>2. CASE t \in late
    <3>1. Promise!Hand(t, "deadline")
      BY <1>3, <2>1, <2>2, OwnAnswer DEF SubmitStart
    <3> QED
      BY <2>1, <2>2, <3>1 DEF Promise!Next, Promise!Submit
  <2>3. CASE t \notin late
    <3>1. UNCHANGED answers /\ Goto(t, "collect")
      BY <1>3, <2>3 DEF SubmitStart
    <3>2. Place(t)' = "calling"
      BY <1>1, <2>1, <3>1, GotoFacts DEF PlacesAre, Stands, Calling
    <3>3. ASSUME NEW u \in Tasks \ {t}
          PROVE  Place(u)' = Place(u)
      <4>1. pc'[u] = pc[u] /\ (Queued(u)' <=> Queued(u))
        BY <1>1, <2>1, <3>1, GotoFacts, Kinds DEF Queued
      <4> QED
        BY <2>1, <3>1, <4>1, PlaceStays
    <3>4. Promise!Move({t}, "calling")
      <4>1. \A u \in Tasks : Place(u)' = IF u \in {t} THEN "calling" ELSE Place(u)
        BY <3>2, <3>3
      <4> QED
        BY <4>1, MoveRead
    <3>5. UNCHANGED Why
      BY <3>1 DEF Why
    <3>6. Promise!Submit(t)
      BY <2>1, <2>3, <3>4, <3>5 DEF Promise!Submit, Why
    <3> QED
      BY <3>6 DEF Promise!Next
  <2> QED
    BY <2>2, <2>3
<1>4. ASSUME NEW t \in Tasks, TakeExpired(t, "enter") \/ TakeExpired(t, "wait"),
             pc[t] \in Calling, hand[t] = {}, UNCHANGED <<full, late, closed, answers>>
      PROVE  Promise!Next
  <2>1. /\ Expired # {} /\ q' = Kept /\ hand' = [hand EXCEPT ![t] = Expired]
        /\ t \in Actors /\ \E p \in Calling : Goto(t, p)
    BY <1>4, Kinds DEF TakeExpired, Calling
  <2>2. \A u \in Tasks : \/ pc'[u] = pc[u]
                         \/ pc'[u] \in Calling /\ pc[u] \in Calling
    BY <1>1, <1>4, <2>1, GotoFacts, Kinds
  <2> QED
    BY <1>4, <2>1, <2>2, TakeRead
<1>5. ASSUME NEW t \in Tasks, Collect(t)
      PROVE  [Promise!Next]_Promise!pool
  <2>1. /\ pc[t] \in Calling /\ hand[t] = {} /\ t \in Actors
        /\ UNCHANGED <<full, late, closed, answers>>
    BY <1>1, <1>5, Kinds DEF Collect, Shape, CallerShape, Calling
  <2>2. CASE TakeExpired(t, "enter")
    BY <1>4, <2>1, <2>2
  <2>3. CASE Goto(t, "enter") /\ UNCHANGED <<q, hand, waiting>>
    <3>1. \A u \in Tasks : \/ pc'[u] = pc[u]
                           \/ pc'[u] \in Calling /\ pc[u] \in Calling
      BY <1>1, <2>1, <2>3, GotoFacts, Kinds DEF Calling
    <3> QED
      BY <1>2, <2>1, <2>3, <3>1
  <2> QED
    BY <1>5, <2>2, <2>3 DEF Collect
<1>6. ASSUME NEW t \in Tasks, pc[t] \in Calling, ~closed, Room, Enqueue(t),
             UNCHANGED <<full, late, closed>>
      PROVE  Promise!Next
  <2>1. /\ q' = Append(q, t) /\ Goto(t, "done") /\ UNCHANGED <<hand, answers>>
        /\ t \in Actors /\ ToSet(q') = ToSet(q) \cup {t}
    BY <1>1, <1>6, QueueFacts, AppendFacts, Kinds DEF Enqueue
  <2>2. Place(t) = "calling" /\ Place(t)' = "queued"
    BY <1>1, <1>6, <2>1 DEF PlacesAre, Stands, Queued
  <2>3. ASSUME NEW u \in Tasks \ {t}
        PROVE  Place(u)' = Place(u)
    <3>1. pc'[u] = pc[u] /\ (Queued(u)' <=> Queued(u))
      BY <1>1, <2>1, GotoFacts, Kinds DEF Queued
    <3> QED
      BY <2>1, <3>1, PlaceStays
  <2>4. Promise!Move({t}, "queued")
    <3>1. \A u \in Tasks : Place(u)' = IF u \in {t} THEN "queued" ELSE Place(u)
      BY <2>2, <2>3
    <3> QED
      BY <3>1, MoveRead
  <2>5. Cardinality(Promise!In("queued")) < Depth
    BY <1>6, QueueRead DEF Room
  <2>6. UNCHANGED Why
    BY <2>1 DEF Why
  <2>7. Promise!Enqueue(t)
    BY <1>6, <2>2, <2>4, <2>5, <2>6, CountRead DEF Promise!Enqueue, Why
  <2> QED
    BY <2>7 DEF Promise!Next
<1>7. ASSUME NEW t \in Tasks, NEW reason \in {"limit", "deadline"}, TurnAway(t, reason),
             pc[t] \in Calling, UNCHANGED <<full, late, closed>>,
             reason = "limit" => ~closed /\ ~Room /\ full = "drop",
             reason = "deadline" => closed \/ t \in late
      PROVE  Promise!Next
  <2>1. Promise!Hand(t, reason)
    BY <1>7, OwnAnswer DEF TurnAway, Calling
  <2>2. Place(t) = "calling"
    BY <1>1, <1>7 DEF PlacesAre, Stands
  <2>3. ~Room => Cardinality(Promise!In("queued")) = Depth
    BY <1>1, QueueRead, QueueFacts, Kinds DEF Room
  <2>4. Promise!TurnAway(t, reason)
    BY <1>7, <2>1, <2>2, <2>3, CountRead DEF Promise!TurnAway
  <2> QED
    BY <2>4 DEF Promise!Next
<1>8. ASSUME NEW t \in Tasks, Enter(t) \/ WaitOn(t)
      PROVE  [Promise!Next]_Promise!pool
  <2>1. /\ pc[t] \in Calling /\ hand[t] = {} /\ t \in Actors
        /\ UNCHANGED <<full, late, closed>>
    BY <1>1, <1>8, SubmitGoes, Kinds DEF Free, Calling
  <2>2. CASE ~closed /\ Room /\ Enqueue(t)
    BY <1>6, <2>1, <2>2
  <2>3. CASE ~closed /\ ~Room /\ full = "drop" /\ TurnAway(t, "limit")
    BY <1>7, <2>1, <2>3
  <2>4. CASE (closed \/ t \in late) /\ TurnAway(t, "deadline")
    BY <1>7, <2>1, <2>4
  <2>5. CASE TakeExpired(t, "wait") /\ UNCHANGED answers
    BY <1>4, <2>1, <2>5
  <2>6. CASE Waits(t)
    <3>1. \A u \in Tasks : \/ pc'[u] = pc[u]
                           \/ pc'[u] \in Calling /\ pc[u] \in Calling
      BY <1>1, <2>1, <2>6, GotoFacts, Kinds DEF Calling, Waits
    <3> QED
      BY <1>2, <2>1, <2>6, <3>1 DEF Waits
  <2> QED
    BY <1>1, <1>8, <2>2, <2>3, <2>4, <2>5, <2>6, SubmitGoes
<1>9. ASSUME NEW a \in Actors \ Tasks, Expired # {}, hand[a] = {}, q' = Kept,
             hand' = [hand EXCEPT ![a] = Expired], UNCHANGED <<full, late, closed, answers>>,
             \A t \in Tasks : pc'[t] = pc[t]
      PROVE  Promise!Next
  BY <1>9, TakeRead
<1>10. ASSUME NEW w \in Workers, Pop(w)
       PROVE  [Promise!Next]_Promise!pool
  <2>1. /\ w \in Actors \ Tasks /\ pc[w] = "run" /\ hand[w] = {}
        /\ hand' = [hand EXCEPT ![w] = Expired] /\ UNCHANGED <<full, late, closed, answers>>
        /\ Expired = ToSet(q) \cap late
    BY <1>1, <1>10, QueueFacts, Kinds DEF Pop, Free
  <2>2. \A t \in Tasks : pc'[t] = pc[t] /\ hand'[t] = hand[t]
    <3>1. UNCHANGED pc \/ Goto(w, "handle") \/ Goto(w, "exit")
      BY <1>10 DEF Pop
    <3> QED
      BY <1>1, <2>1, <3>1, GotoFacts, Kinds DEF TypeOK
  <2>3. CASE Kept # <<>>
    <3> DEFINE h == Head(Kept)
               S == Expired \cup {h}
    <3>1. q' = Tail(Kept) /\ job' = [job EXCEPT ![w] = h]
      BY <1>1, <1>10, <2>3, QueueFacts DEF Pop
    <3>2. /\ h \in Tasks /\ h \in ToSet(q) \ late
          /\ ToSet(q') = (ToSet(q) \ late) \ {h}
      BY <1>1, <2>3, <3>1, QueueFacts, TailFacts DEF IInv, Places
    <3>3. job'[w] = h /\ \A t \in Expired : t \in hand'[w]
      BY <1>1, <2>1, <3>1 DEF TypeOK
    <3> HIDE DEF h
    <3>4. ASSUME NEW t \in Tasks
          PROVE  Place(t)' = IF t \in S THEN "pool" ELSE Place(t)
      <4>1. CASE t \in Expired
        BY <2>1, <3>3, <4>1 DEF PlacesAre, Stands
      <4>2. CASE t = h
        BY <3>3, <4>2 DEF PlacesAre, Stands, AtWork
      <4>3. CASE t \notin S
        <5>1. Queued(t)' <=> Queued(t)
          BY <2>1, <3>2, <4>3 DEF Queued
        <5> QED
          BY <2>1, <2>2, <4>3, <5>1, PlaceStays
      <4> QED
        BY <4>1, <4>2, <4>3
    <3>5. S \subseteq Promise!In("queued") /\ S # {}
      BY <2>1, <3>2, QueueRead
    <3> HIDE DEF S
    <3>6. Promise!Move(S, "pool")
      BY <3>4, MoveRead
    <3>7. UNCHANGED Why
      BY <2>1 DEF Why
    <3>8. Promise!Take(S, "pool")
      BY <2>1, <3>5, <3>6, <3>7 DEF Promise!Take, Why
    <3> QED
      BY <3>5, <3>8 DEF Promise!Next
  <2>4. CASE Kept = <<>> /\ Expired # {}
    <3>1. q' = Kept
      BY <1>10, <2>4, QueueFacts, <1>1 DEF Pop
    <3> QED
      BY <1>9, <2>1, <2>2, <2>4, <3>1
  <2>5. CASE Kept = <<>> /\ Expired = {}
    <3>1. q = <<>> /\ q' = q
      BY <1>1, <1>10, <2>5, QueueFacts DEF Pop
    <3> QED
      BY <1>2, <2>1, <2>2, <3>1
  <2> QED
    BY <2>3, <2>4, <2>5
<1>11. ASSUME NEW w \in Workers, Handle(w)
       PROVE  Promise!Next
  <2> DEFINE t == job[w]
             reason == IF t \in late THEN "deadline" ELSE "checked"
  <2>1. /\ w \in Actors /\ t \in Tasks /\ AtWork(t) /\ reason \in Reasons
        /\ Answer(t, reason) /\ UNCHANGED <<full, late, closed, q, hand>>
    BY <1>1, <1>11, Kinds DEF Handle, Shape, WorkerShape, TypeOK, AtWork, Reasons
  <2>2. \A u \in Tasks : pc'[u] = pc[u]
    BY <1>1, <1>11, <2>1, GotoFacts, Kinds DEF Handle
  <2> QED
    BY <2>1, <2>2, TakenAnswer
<1>12. ASSUME NEW a \in Actors, ReplyDead(a)
       PROVE  Promise!Next
  <2>1. PICK t \in hand[a] : Answer(t, "deadline") /\ hand' = [hand EXCEPT ![a] = hand[a] \ {t}]
    BY <1>12 DEF ReplyDead
  <2>2. t \in Tasks /\ t \in late /\ UNCHANGED <<full, late, closed, q, pc>>
    BY <1>1, <1>12 DEF ReplyDead, TypeOK, LateOnly
  <2>3. \A b \in Actors, u \in Tasks \ {t} : u \in hand'[b] <=> u \in hand[b]
    BY <1>1, <2>1 DEF TypeOK
  <2> QED
    BY <1>1, <2>1, <2>2, <2>3, TakenAnswer
<1>13. CASE Sweep
  <2>1. \A t \in Tasks : pc'[t] = pc[t]
    BY <1>1, <1>13, GotoFacts, Kinds DEF Sweep, TakeExpired
  <2> QED
    BY <1>9, <1>13, <2>1, Kinds DEF Sweep, TakeExpired, Free
<1>14. CASE SweepEnds
  <2>1. \A t \in Tasks : pc'[t] = pc[t]
    BY <1>1, <1>14, GotoFacts, Kinds DEF SweepEnds
  <2> QED
    BY <1>2, <1>14, <2>1 DEF SweepEnds
<1>15. ASSUME UNCHANGED <<pc, answers, q, hand>>
       PROVE  UNCHANGED <<[t \in Tasks |-> Place(t)], Why>>
  BY <1>15 DEF Place, Why
<1>16. CASE CloseStop \/ UNCHANGED vars
  BY <1>2, <1>16 DEF CloseStop, vars
<1>17. CASE CloseQueue
  BY <1>15, <1>17 DEF CloseQueue, Promise!Next, Promise!Close, Why
<1>18. ASSUME NEW t \in Tasks, TimerFires(t)
       PROVE  UNCHANGED Promise!pool
  BY <1>2, <1>18 DEF TimerFires
<1>19. ASSUME NEW t \in Tasks, RunsLate(t)
       PROVE  Promise!Next
  <2>1. Promise!RunsLate(t)
    BY <1>15, <1>19 DEF RunsLate, Promise!RunsLate, Why
  <2> QED
    BY <2>1 DEF Promise!Next
<1> QED
  BY <1>3, <1>5, <1>8, <1>10, <1>11, <1>12, <1>13, <1>14, <1>16, <1>17, <1>18, <1>19
  DEF Next, SubmitStep, WorkerStep

\* When the goroutines have ended, the pool holds nothing any more.
LEMMA EndedDrained ==
    ASSUME IInv, GoroutinesEnded
    PROVE  Promise!Drained
<1>1. /\ Shape /\ PlacesAre
      /\ \A a \in Workers \cup {Sweeper} : pc[a] = "exit" /\ hand[a] = {}
  BY PlacesRead DEF IInv, GoroutinesEnded
<1>2. PICK w \in Workers : TRUE
  BY PoolAssumption
<1>3. closed /\ q = <<>>
  BY <1>1, <1>2 DEF Shape, WorkerShape
<1>4. Promise!In("queued") = {}
  BY <1>3, QueueRead DEF ToSet
<1>5. ASSUME NEW t \in Tasks
      PROVE  Place(t) # "pool"
  <2>1. ~AtWork(t)
    BY <1>1, Kinds DEF Shape, WorkerShape, AtWork
  <2>2. ~\E a \in Actors \ Tasks : t \in hand[a]
    BY <1>1, Kinds
  <2> QED
    BY <1>1, <2>1, <2>2 DEF PlacesAre, Stands
<1>6. Promise!In("pool") = {}
  BY <1>5 DEF Promise!In
<1> QED
  BY <1>3, <1>4, <1>6 DEF Promise!Drained

\* The pool, with all its goroutines, its mutex and its one condition, is what
\* the inspector is built on: PoolPromise, and a Close that leaves nothing in it.
THEOREM PromiseKept == Spec => KeepsPromise
<1>1. Init => Promise!Init
  <2> SUFFICES ASSUME Init
               PROVE  Promise!Init
    OBVIOUS
  <2>1. full \in {"drop", "wait"} /\ late = {} /\ closed = FALSE
    BY PoolAssumption DEF Init
  <2>2. \A t \in Tasks : pc[t] = "idle" /\ answers[t] = <<>>
    BY Kinds DEF Init
  <2>3. \A t \in Tasks : Place(t) = "new"
    BY <2>2, InitInv, PlacesRead DEF PlacesAre, Stands
  <2> QED
    BY <2>1, <2>2, <2>3 DEF Promise!Init
<1>2. IInv' => PlacesAre'
  BY PlacesRead, PTL
<1>3. IInv /\ [Next]_vars => [Promise!Next]_Promise!pool
  BY <1>2, NextInv, NextRead
<1>4. IInv => (GoroutinesEnded => Promise!Drained)
  BY EndedDrained
<1> QED
  BY <1>1, <1>3, <1>4, Invariance, PTL DEF Spec, KeepsPromise, Promise!Spec

(***************************************************************************)
(* The audit sink: sequences of records                                    *)
(***************************************************************************)

\* Records as Add numbers them.
Records == [id : Nat, subject : Subjects, size : Nat]

\* The records of a sequence are in the order of their numbers.
Ascending(s) == \A i, j \in DOMAIN s : i < j => s[i].id < s[j].id

\* A record joins the end of a sequence.
LEMMA RecordJoins ==
    ASSUME NEW s \in Seq(Records), NEW x \in Records
    PROVE  /\ Append(s, x) \in Seq(Records)
           /\ Ids(Append(s, x)) = Ids(s) \cup {x.id}
           /\ Ascending(s) /\ (\A i \in Ids(s) : i < x.id) => Ascending(Append(s, x))
<1> DEFINE t == Append(s, x)
<1>1. /\ t \in Seq(Records) /\ Len(s) \in Nat
      /\ t[Len(s) + 1] = x
      /\ \A i \in 1 .. Len(s) : t[i] = s[i]
      /\ DOMAIN t = 1 .. Len(s) + 1 /\ DOMAIN s = 1 .. Len(s)
  OBVIOUS
<1> HIDE DEF t
<1>2. \A i \in DOMAIN t : i \in DOMAIN s \/ i = Len(s) + 1
  BY <1>1
<1>3. \A i \in DOMAIN s : i \in DOMAIN t /\ t[i] = s[i] /\ i < Len(s) + 1
  BY <1>1
<1>4. Len(s) + 1 \in DOMAIN t
  BY <1>1
<1>5. Ids(t) = Ids(s) \cup {x.id}
  BY <1>1, <1>2, <1>3, <1>4 DEF Ids
<1>6. ASSUME Ascending(s), \A i \in Ids(s) : i < x.id
      PROVE  Ascending(t)
  <2> SUFFICES ASSUME NEW i \in DOMAIN t, NEW j \in DOMAIN t, i < j
               PROVE  t[i].id < t[j].id
    BY DEF Ascending
  <2>1. i \in DOMAIN s
    BY <1>1, <1>2
  <2>2. CASE j \in DOMAIN s
    BY <1>1, <1>3, <1>6, <2>1, <2>2 DEF Ascending
  <2>3. CASE j = Len(s) + 1
    BY <1>1, <1>3, <1>6, <2>1, <2>3 DEF Ids
  <2> QED
    BY <1>2, <2>2, <2>3
<1> QED
  BY <1>1, <1>5, <1>6 DEF t

\* The first n records of a sequence, and the others.
Older(s, n) == SubSeq(s, 1, n)
Newer(s, n) == SubSeq(s, n + 1, Len(s))

\* A cut makes two sequences, the older records in the first.
LEMMA RecordsSplit ==
    ASSUME NEW s \in Seq(Records), NEW n \in 0 .. Len(s), Ascending(s)
    PROVE  /\ Older(s, n) \in Seq(Records) /\ Newer(s, n) \in Seq(Records)
           /\ Ascending(Older(s, n)) /\ Ascending(Newer(s, n))
           /\ Ids(s) = Ids(Older(s, n)) \cup Ids(Newer(s, n))
           /\ \A i \in Ids(Older(s, n)), j \in Ids(Newer(s, n)) : i < j
           /\ n = 0 => Newer(s, n) = s
<1> DEFINE a == Older(s, n)
           b == Newer(s, n)
<1>1. Len(s) \in Nat /\ n \in Nat /\ n <= Len(s) /\ DOMAIN s = 1 .. Len(s)
  OBVIOUS
<1>2. /\ a \in Seq(Records) /\ DOMAIN a = 1 .. n
      /\ \A i \in 1 .. n : i \in DOMAIN s /\ a[i] = s[i]
  BY <1>1 DEF Older
<1>3. /\ b \in Seq(Records) /\ DOMAIN b = 1 .. Len(s) - n
      /\ \A i \in 1 .. Len(s) - n : n + i \in DOMAIN s /\ b[i] = s[n + i]
  BY <1>1 DEF Newer
<1> HIDE DEF a, b
<1>4. Ascending(a)
  BY <1>2 DEF Ascending
<1>5. Ascending(b)
  <2> SUFFICES ASSUME NEW i \in DOMAIN b, NEW j \in DOMAIN b, i < j
               PROVE  b[i].id < b[j].id
    BY DEF Ascending
  <2>1. n + i \in DOMAIN s /\ n + j \in DOMAIN s /\ n + i < n + j
    BY <1>1, <1>3
  <2> QED
    BY <1>3, <2>1 DEF Ascending
<1>6. \A i \in DOMAIN s : (i \in DOMAIN a /\ s[i] = a[i]) \/ (i - n \in DOMAIN b /\ s[i] = b[i - n])
  BY <1>1, <1>2, <1>3
<1>7. Ids(s) = Ids(a) \cup Ids(b)
  <2>1. \A e \in Ids(s) : e \in Ids(a) \cup Ids(b)
    BY <1>6 DEF Ids
  <2>2. \A e \in Ids(a) : e \in Ids(s)
    BY <1>2 DEF Ids
  <2>3. \A e \in Ids(b) : e \in Ids(s)
    BY <1>3 DEF Ids
  <2> QED
    BY <2>1, <2>2, <2>3
<1>8. \A i \in Ids(a), j \in Ids(b) : i < j
  <2> SUFFICES ASSUME NEW i \in DOMAIN a, NEW j \in DOMAIN b
               PROVE  a[i].id < b[j].id
    BY DEF Ids
  <2>1. i \in DOMAIN s /\ n + j \in DOMAIN s /\ i < n + j
    BY <1>1, <1>2, <1>3
  <2> QED
    BY <1>2, <1>3, <2>1 DEF Ascending
<1>9. n = 0 => b = s
  BY <1>1, <1>3
<1> QED
  BY <1>2, <1>3, <1>4, <1>5, <1>7, <1>8, <1>9 DEF a, b

\* A sequence joins another one.
LEMMA RecordsJoin ==
    ASSUME NEW s \in Seq(Records), NEW t \in Seq(Records), Ascending(s), Ascending(t),
           \A i \in Ids(s), j \in Ids(t) : i < j
    PROVE  /\ s \o t \in Seq(Records) /\ Ascending(s \o t)
           /\ Ids(s \o t) = Ids(s) \cup Ids(t)
<1> DEFINE u == s \o t
<1>1. /\ u \in Seq(Records) /\ Len(s) \in Nat /\ Len(t) \in Nat
      /\ DOMAIN s = 1 .. Len(s) /\ DOMAIN t = 1 .. Len(t)
      /\ DOMAIN u = 1 .. Len(s) + Len(t)
      /\ \A i \in 1 .. Len(s) : u[i] = s[i]
      /\ \A i \in 1 .. Len(t) : u[Len(s) + i] = t[i]
  OBVIOUS
<1> HIDE DEF u
<1>2. \A i \in DOMAIN u : \/ i \in DOMAIN s /\ u[i] = s[i]
                          \/ i > Len(s) /\ i - Len(s) \in DOMAIN t /\ u[i] = t[i - Len(s)]
  BY <1>1
<1>3. /\ \A i \in DOMAIN s : i \in DOMAIN u /\ u[i] = s[i]
      /\ \A i \in DOMAIN t : Len(s) + i \in DOMAIN u /\ u[Len(s) + i] = t[i]
  BY <1>1
<1>4. Ids(u) = Ids(s) \cup Ids(t)
  BY <1>2, <1>3 DEF Ids
<1>5. Ascending(u)
  <2> SUFFICES ASSUME NEW i \in DOMAIN u, NEW j \in DOMAIN u, i < j
               PROVE  u[i].id < u[j].id
    BY DEF Ascending
  <2>1. CASE i \in DOMAIN s /\ u[i] = s[i]
    <3>1. CASE j \in DOMAIN s /\ u[j] = s[j]
      BY <2>1, <3>1 DEF Ascending
    <3>2. CASE j > Len(s) /\ j - Len(s) \in DOMAIN t /\ u[j] = t[j - Len(s)]
      BY <2>1, <3>2 DEF Ids
    <3> QED
      BY <1>2, <3>1, <3>2
  <2>2. CASE i > Len(s) /\ i - Len(s) \in DOMAIN t /\ u[i] = t[i - Len(s)]
    <3>1. j - Len(s) \in DOMAIN t /\ u[j] = t[j - Len(s)]
      BY <1>1, <1>2, <2>2
    <3>2. i - Len(s) < j - Len(s)
      BY <1>1
    <3> QED
      BY <2>2, <3>1, <3>2 DEF Ascending
  <2> QED
    BY <1>2, <2>1, <2>2
<1> QED
  BY <1>1, <1>4, <1>5 DEF u

(***************************************************************************)
(* The audit sink: sizeOf and groupBySubject                               *)
(***************************************************************************)

\* What the loop of sizeOf has added up after n records.
SumTo(F, items, n) ==
    F = [i \in 0 .. n |-> IF i = 0 THEN 0 ELSE F[i - 1] + items[i].size]

\* The loop of sizeOf comes to its end, and can be followed to any record.
LEMMA SumLoop ==
    ASSUME NEW s \in Seq(Records), NEW n \in 0 .. Len(s)
    PROVE  \E F : SumTo(F, s, n)
<1> DEFINE Bad == {k \in 0 .. Len(s) : ~\E F : SumTo(F, s, k)}
<1>1. Len(s) \in Nat
  OBVIOUS
<1>2. ASSUME Bad # {}
      PROVE  FALSE
  <2>1. PICK m \in Bad : \A k \in Bad : m <= k
    <3>1. Bad \subseteq Nat
      BY <1>1
    <3> HIDE DEF Bad
    <3> QED
      BY <1>2, <3>1, Least
  <2>2. m # 0
    <3> DEFINE F == [i \in 0 .. 0 |-> 0]
    <3>1. SumTo(F, s, 0)
      BY DEF SumTo
    <3> HIDE DEF F
    <3> QED
      BY <2>1, <3>1
  <2>3. m \in Nat /\ m - 1 \in 0 .. Len(s) /\ m - 1 \notin Bad
    BY <1>1, <2>1, <2>2
  <2>4. PICK F : SumTo(F, s, m - 1)
    BY <2>3
  <2> DEFINE H == [i \in 0 .. m |-> IF i = m THEN F[m - 1] + s[m].size ELSE F[i]]
  <2>5. SumTo(H, s, m)
    <3> SUFFICES ASSUME NEW i \in 0 .. m
                 PROVE  H[i] = IF i = 0 THEN 0 ELSE H[i - 1] + s[i].size
      BY DEF SumTo
    <3>1. CASE i = m
      <4>1. H[i - 1] = F[m - 1] /\ H[i] = F[m - 1] + s[m].size
        BY <2>2, <2>3, <3>1
      <4> HIDE DEF H
      <4> QED
        BY <2>2, <3>1, <4>1
    <3>2. CASE i # m
      <4>1. i \in 0 .. m - 1 /\ H[i] = F[i] /\ (i # 0 => H[i - 1] = F[i - 1])
        BY <2>3, <3>2
      <4>2. F[i] = IF i = 0 THEN 0 ELSE F[i - 1] + s[i].size
        BY <2>4, <4>1 DEF SumTo
      <4> HIDE DEF H
      <4> QED
        BY <4>1, <4>2
    <3> QED
      BY <3>1, <3>2
  <2> HIDE DEF H
  <2> QED
    BY <2>1, <2>5
<1> QED
  BY <1>1, <1>2

\* The first n records of two sequences are the same.
SameTo(s, t, n) == \A i \in 1 .. n : s[i] = t[i]

\* Two runs of the loop over the same records agree.
LEMMA SumsAgree ==
    ASSUME NEW s, NEW t, NEW n \in Nat, NEW m \in Nat, n <= m,
           SameTo(s, t, n),
           NEW F, NEW G, SumTo(F, s, n), SumTo(G, t, m)
    PROVE  F[n] = G[n]
<1> DEFINE Bad == {k \in 0 .. n : F[k] # G[k]}
<1>1. ASSUME Bad # {}
      PROVE  FALSE
  <2>1. PICK k \in Bad : \A j \in Bad : k <= j
    <3>1. Bad \subseteq Nat
      OBVIOUS
    <3> HIDE DEF Bad
    <3> QED
      BY <1>1, <3>1, Least
  <2>2. k \in 0 .. n /\ k \in 0 .. m /\ F[k] # G[k]
    BY <2>1
  <2>3. /\ F[k] = IF k = 0 THEN 0 ELSE F[k - 1] + s[k].size
        /\ G[k] = IF k = 0 THEN 0 ELSE G[k - 1] + t[k].size
    BY <2>2 DEF SumTo
  <2>4. k # 0 /\ k \in 1 .. n /\ k - 1 \in 0 .. n
    BY <2>2, <2>3
  <2>5. F[k - 1] = G[k - 1]
    BY <2>1, <2>4
  <2> QED
    BY <2>2, <2>3, <2>4, <2>5 DEF SameTo
<1> QED
  BY <1>1

\* sizeOf is what its loop ends with.
LEMMA SizeIs ==
    ASSUME NEW s \in Seq(Records)
    PROVE  \E F : SumTo(F, s, Len(s)) /\ sizeOf(s) = F[Len(s)]
<1>1. \E F : SumTo(F, s, Len(s))
  BY SumLoop
<1>2. sizeOf(s) = (CHOOSE F : SumTo(F, s, Len(s)))[Len(s)]
  BY DEF sizeOf, SumTo
<1> QED
  BY <1>1, <1>2

\* Add keeps Sink.size up with its buffer without another run of the loop.
LEMMA SizeFacts ==
    /\ sizeOf(<<>>) = 0
    /\ \A s \in Seq(Records), x \in Records : sizeOf(Append(s, x)) = sizeOf(s) + x.size
<1>1. sizeOf(<<>>) = 0
  <2>1. PICK F : SumTo(F, <<>>, Len(<<>>)) /\ sizeOf(<<>>) = F[Len(<<>>)]
    <3>1. <<>> \in Seq(Records)
      OBVIOUS
    <3> QED
      BY <3>1, SizeIs
  <2>2. Len(<<>>) = 0
    OBVIOUS
  <2> QED
    BY <2>1, <2>2 DEF SumTo
<1>2. ASSUME NEW s \in Seq(Records), NEW x \in Records
      PROVE  sizeOf(Append(s, x)) = sizeOf(s) + x.size
  <2>1. PICK t : t = Append(s, x)
    OBVIOUS
  <2>2. PICK n \in Nat : n = Len(s)
    OBVIOUS
  <2>3. /\ t \in Seq(Records) /\ Len(t) = n + 1
        /\ t[n + 1] = x
        /\ \A i \in 1 .. n : s[i] = t[i]
    BY <2>1, <2>2
  <2>4. PICK F : SumTo(F, s, n) /\ sizeOf(s) = F[n]
    BY <2>2, SizeIs
  <2>5. PICK G : SumTo(G, t, n + 1) /\ sizeOf(t) = G[n + 1]
    BY <2>3, SizeIs
  <2>6. F[n] = G[n]
    <3>1. PICK m \in Nat : m = n + 1
      OBVIOUS
    <3>2. n <= m /\ SumTo(F, s, n) /\ SumTo(G, t, m) /\ SameTo(s, t, n)
      BY <2>3, <2>4, <2>5, <3>1 DEF SameTo
    <3> HIDE DEF SumTo
    <3> QED
      BY <3>2, SumsAgree
  <2>7. G[n + 1] = G[n] + x.size
    <3>1. n + 1 \in 0 .. n + 1 /\ n + 1 # 0 /\ (n + 1) - 1 = n
      OBVIOUS
    <3>2. G[n + 1] = IF n + 1 = 0 THEN 0 ELSE G[(n + 1) - 1] + t[n + 1].size
      BY <2>5, <3>1 DEF SumTo
    <3> QED
      BY <2>3, <3>1, <3>2
  <2> QED
    BY <2>1, <2>4, <2>5, <2>6, <2>7
<1> QED
  BY <1>1, <1>2

\* The group of a subject after n records of a batch.
GroupTo(F, items, s, n) ==
    F = [i \in 0 .. n |->
           IF i = 0 THEN <<>>
           ELSE IF items[i].subject = s THEN Append(F[i - 1], items[i]) ELSE F[i - 1]]

\* The loop of groupBySubject comes to its end.
LEMMA GroupLoop ==
    ASSUME NEW items \in Seq(Records), NEW s
    PROVE  \E F : GroupTo(F, items, s, Len(items)) /\ grouped(items, s) = F[Len(items)]
<1> DEFINE Bad == {k \in 0 .. Len(items) : ~\E F : GroupTo(F, items, s, k)}
<1>1. Len(items) \in Nat
  OBVIOUS
<1>2. ASSUME Bad # {}
      PROVE  FALSE
  <2>1. PICK m \in Bad : \A k \in Bad : m <= k
    <3>1. Bad \subseteq Nat
      BY <1>1
    <3> HIDE DEF Bad
    <3> QED
      BY <1>2, <3>1, Least
  <2>2. m # 0
    <3> DEFINE F == [i \in 0 .. 0 |-> <<>>]
    <3>1. GroupTo(F, items, s, 0)
      BY DEF GroupTo
    <3> HIDE DEF F
    <3> QED
      BY <2>1, <3>1
  <2>3. m \in Nat /\ m - 1 \in 0 .. Len(items) /\ m - 1 \notin Bad
    BY <1>1, <2>1, <2>2
  <2>4. PICK F : GroupTo(F, items, s, m - 1)
    BY <2>3
  <2> DEFINE H == [i \in 0 .. m |->
                     IF i = m
                     THEN IF items[m].subject = s THEN Append(F[m - 1], items[m]) ELSE F[m - 1]
                     ELSE F[i]]
  <2>5. GroupTo(H, items, s, m)
    <3> SUFFICES ASSUME NEW i \in 0 .. m
                 PROVE  H[i] = IF i = 0 THEN <<>>
                               ELSE IF items[i].subject = s THEN Append(H[i - 1], items[i])
                               ELSE H[i - 1]
      BY DEF GroupTo
    <3>1. CASE i = m
      <4>1. H[i - 1] = F[m - 1]
        BY <2>2, <2>3, <3>1
      <4>2. H[i] = IF items[m].subject = s THEN Append(F[m - 1], items[m]) ELSE F[m - 1]
        BY <3>1
      <4> HIDE DEF H
      <4> QED
        BY <2>2, <3>1, <4>1, <4>2
    <3>2. CASE i # m
      <4>1. i \in 0 .. m - 1 /\ H[i] = F[i] /\ (i # 0 => H[i - 1] = F[i - 1])
        BY <2>3, <3>2
      <4>2. F[i] = IF i = 0 THEN <<>>
                   ELSE IF items[i].subject = s THEN Append(F[i - 1], items[i]) ELSE F[i - 1]
        BY <2>4, <4>1 DEF GroupTo
      <4> HIDE DEF H
      <4> QED
        BY <4>1, <4>2
    <3> QED
      BY <3>1, <3>2
  <2> HIDE DEF H
  <2> QED
    BY <2>1, <2>5
<1>3. \E F : GroupTo(F, items, s, Len(items))
  BY <1>1, <1>2
<1>4. grouped(items, s) = (CHOOSE F : GroupTo(F, items, s, Len(items)))[Len(items)]
  BY DEF grouped, GroupTo
<1> QED
  BY <1>3, <1>4

\* The records of a batch for one subject.
SubjectIds(items, s) == {items[i].id : i \in {j \in DOMAIN items : items[j].subject = s}}

\* groupBySubject leaves none of them out, brings no other in and keeps their order.
LEMMA GroupFacts ==
    ASSUME NEW items \in Seq(Records), NEW s, Ascending(items)
    PROVE  /\ grouped(items, s) \in Seq(Records)
           /\ Ascending(grouped(items, s))
           /\ Ids(grouped(items, s)) = SubjectIds(items, s)
<1> DEFINE First(n) == {items[i].id : i \in {j \in 1 .. n : items[j].subject = s}}
           Right(g, n) == g \in Seq(Records) /\ Ascending(g) /\ Ids(g) = First(n)
<1>1. PICK F : GroupTo(F, items, s, Len(items)) /\ grouped(items, s) = F[Len(items)]
  BY GroupLoop
<1>2. /\ Len(items) \in Nat /\ DOMAIN items = 1 .. Len(items)
      /\ SubjectIds(items, s) = First(Len(items))
  BY DEF SubjectIds
<1> DEFINE Bad == {n \in 0 .. Len(items) : ~Right(F[n], n)}
<1>3. Right(F[0], 0)
  <2>1. F[0] = <<>>
    BY <1>1, <1>2 DEF GroupTo
  <2>2. First(0) = {} /\ Ids(<<>>) = {} /\ Ascending(<<>>)
    BY DEF Ids, Ascending
  <2>3. <<>> \in Seq(Records)
    OBVIOUS
  <2> HIDE DEF First
  <2> QED
    BY <2>1, <2>2, <2>3
<1>4. ASSUME NEW m \in 1 .. Len(items), Right(F[m - 1], m - 1)
      PROVE  Right(F[m], m)
  <2> DEFINE g == F[m - 1]
  <2>1. /\ m \in Nat /\ m - 1 \in Nat /\ items[m] \in Records /\ m # 0 /\ m \in 0 .. Len(items)
        /\ m \in DOMAIN items
    BY <1>2
  <2>2. F[m] = IF items[m].subject = s THEN Append(g, items[m]) ELSE g
    BY <1>1, <2>1 DEF GroupTo
  <2>3. \A i \in 1 .. m : i \in 1 .. m - 1 \/ i = m
    BY <2>1
  <2>4. /\ \A i \in 1 .. m - 1 : i \in 1 .. m /\ i \in DOMAIN items /\ i < m
        /\ m \in 1 .. m
    BY <1>2, <2>1
  <2>5. First(m) = IF items[m].subject = s THEN First(m - 1) \cup {items[m].id} ELSE First(m - 1)
    BY <2>3, <2>4
  <2>6. \A e \in First(m - 1) : e < items[m].id
    BY <2>1, <2>4 DEF Ascending
  <2> HIDE DEF g, First
  <2>7. g \in Seq(Records) /\ Ascending(g) /\ Ids(g) = First(m - 1)
    BY <1>4 DEF g
  <2>8. /\ Append(g, items[m]) \in Seq(Records)
        /\ Ids(Append(g, items[m])) = Ids(g) \cup {items[m].id}
        /\ Ascending(Append(g, items[m]))
    BY <2>1, <2>6, <2>7, RecordJoins
  <2> QED
    BY <2>2, <2>5, <2>7, <2>8
<1> HIDE DEF Right
<1>5. ASSUME Bad # {}
      PROVE  FALSE
  <2>1. PICK m \in Bad : \A k \in Bad : m <= k
    <3>1. Bad \subseteq Nat
      BY <1>2
    <3> HIDE DEF Bad
    <3> QED
      BY <1>5, <3>1, Least
  <2>2. m # 0 /\ m \in 1 .. Len(items)
    BY <1>2, <1>3, <2>1
  <2>3. m - 1 \in 0 .. Len(items) /\ m - 1 \notin Bad
    BY <1>2, <2>1, <2>2
  <2> QED
    BY <1>4, <2>1, <2>2, <2>3
<1>6. Right(grouped(items, s), Len(items))
  BY <1>1, <1>2, <1>5
<1> HIDE DEF First
<1> QED
  BY <1>2, <1>6 DEF Right

(***************************************************************************)
(* The audit sink: the inductive invariant                                 *)
(***************************************************************************)

\* The types of the buffer, the batch and what was published.
SinkTypeOK ==
    /\ pending \in Seq(Records) /\ take \in Seq(Records)
    /\ sent \in [Subjects -> Seq(Records)]
    /\ added \in Nat /\ loop \in {"select", "flush", "last", "done"}

\* Add and flush keep Sink.size up with the buffer.
SizeKept == size = sizeOf(pending)

\* The records that have left the buffer.
Gone == Sent \cup Ids(take) \cup refused \cup dropped

\* The buffer, the batch and what was published each hold their records in the
\* order of their Adds; what left the buffer is older than what is in it, and
\* what NATS was offered is older than the batch under way.
Ordered ==
    /\ Ascending(pending) /\ Ascending(take)
    /\ \A s \in Subjects : Ascending(sent[s])
    /\ \A i \in Gone, p \in Ids(pending) : i < p
    /\ \A i \in Sent \cup refused, t \in Ids(take) : i < t

\* Every record is somewhere, and what was dropped, published or refused is
\* that alone, and published under one subject.
Sorted ==
    /\ Ids(pending) \cup Gone = 1 .. added
    /\ dropped \cap (Sent \cup Ids(take) \cup refused) = {}
    /\ Sent \cap refused = {}
    /\ \A s, t \in Subjects : s # t => Ids(sent[s]) \cap Ids(sent[t]) = {}

\* The inductive invariant.
SinkInv == SinkTypeOK /\ SizeKept /\ Ordered /\ Sorted /\ FullWakes

(***************************************************************************)
(* The audit sink: what the steps do                                       *)
(***************************************************************************)

\* What Add cuts off is older than what it keeps.
LEMMA CutFacts ==
    ASSUME NEW items \in Seq(Records), Ascending(items)
    PROVE  /\ Cut(items) \in Seq(Records) /\ Ascending(Cut(items))
           /\ Ids(Cut(items)) \subseteq Ids(items)
           /\ \A i \in Ids(items) \ Ids(Cut(items)), p \in Ids(Cut(items)) : i < p
           /\ ~(Len(items) > MaxPending) => Cut(items) = items
<1>1. Len(items) \in Nat /\ MaxPending \in Nat
  BY SinkAssumption
<1>2. CASE Len(items) > MaxPending
  <2>1. PICK n \in 0 .. Len(items) : n = Len(items) - MaxPending
    BY <1>1, <1>2
  <2>2. Cut(items) = Newer(items, n)
    BY <1>2, <2>1 DEF Cut, Newer
  <2> QED
    BY <1>2, <2>1, <2>2, RecordsSplit
<1>3. CASE ~(Len(items) > MaxPending)
  BY <1>3 DEF Cut
<1> QED
  BY <1>2, <1>3

\* What Gone consists of.
LEMMA GoneFacts ==
    /\ \A i \in Gone : i \in Sent \/ i \in Ids(take) \/ i \in refused \/ i \in dropped
    /\ Sent \subseteq Gone /\ Ids(take) \subseteq Gone /\ refused \subseteq Gone /\ dropped \subseteq Gone
  BY DEF Gone

\* The numbers of records are numbers.
LEMMA IdsAre ==
    ASSUME SinkInv
    PROVE  Ids(pending) \cup Gone \subseteq Nat /\ \A i \in Ids(pending) \cup Gone : i < added + 1
<1>1. added \in Nat /\ Ids(pending) \cup Gone = 1 .. added
  BY DEF SinkInv, SinkTypeOK, Sorted
<1> QED
  BY <1>1

\* A record is added, and the oldest ones may be dropped for it.
LEMMA AddKeeps ==
    ASSUME SinkInv, NEW a \in Adders, NEW s \in Subjects, NEW n \in Sizes, Add(a, s, n)
    PROVE  SinkInv'
<1>1. PICK x : x = [id |-> added + 1, subject |-> s, size |-> n]
  OBVIOUS
<1>2. PICK all : all = Append(pending, x)
  OBVIOUS
<1>3. /\ added' = added + 1 /\ pending' = Cut(all)
      /\ size' = IF Len(all) > MaxPending THEN sizeOf(pending') ELSE size + n
      /\ dropped' = dropped \cup (Ids(all) \ Ids(pending'))
      /\ adder' = IF Full THEN adder \cup {a} ELSE adder
      /\ UNCHANGED <<wake, loop, take, sent, refused>>
  BY <1>1, <1>2 DEF Add
<1>4. added \in Nat /\ n \in Nat
  BY SinkAssumption DEF SinkInv, SinkTypeOK
<1>5. x \in Records /\ x.id = added + 1 /\ x.size = n
  BY <1>1, <1>4 DEF Records
<1>6. pending \in Seq(Records) /\ Ascending(pending) /\ \A i \in Ids(pending) : i < x.id
  BY <1>5, IdsAre DEF SinkInv, SinkTypeOK, Ordered
<1>7. all \in Seq(Records) /\ Ids(all) = Ids(pending) \cup {added + 1} /\ Ascending(all)
  BY <1>2, <1>5, <1>6, RecordJoins
<1>8. /\ pending' \in Seq(Records) /\ Ascending(pending')
      /\ Ids(pending') \subseteq Ids(all)
      /\ \A i \in Ids(all) \ Ids(pending'), p \in Ids(pending') : i < p
      /\ ~(Len(all) > MaxPending) => pending' = all
  BY <1>3, <1>7, CutFacts
<1>9. SinkTypeOK'
  BY <1>3, <1>4, <1>8 DEF SinkInv, SinkTypeOK
<1>10. SizeKept'
  <2>1. CASE Len(all) > MaxPending
    BY <1>3, <2>1 DEF SizeKept
  <2>2. CASE ~(Len(all) > MaxPending)
    <3>1. sizeOf(all) = sizeOf(pending) + n
      BY <1>2, <1>5, <1>6, SizeFacts
    <3> QED
      BY <1>3, <1>8, <2>2, <3>1 DEF SinkInv, SizeKept
  <2> QED
    BY <2>1, <2>2
<1>11. Sent' = Sent /\ Ids(take)' = Ids(take) /\ Gone' = Gone \cup (Ids(all) \ Ids(pending'))
  BY <1>3 DEF Sent, Ids, Gone
<1>12. \A i \in Gone, p \in Ids(all) : i < p
  BY <1>7, IdsAre DEF SinkInv, Ordered
<1>13. Ordered'
  <2>1. \A i \in Gone', p \in Ids(pending') : i < p
    BY <1>8, <1>11, <1>12
  <2> QED
    BY <1>3, <1>8, <1>11, <2>1 DEF SinkInv, Ordered, Ascending, Ids
<1>14. Sorted'
  <2>1. Ids(pending') \cup Gone' = 1 .. added + 1
    <3>1. Ids(pending) \cup Gone = 1 .. added
      BY DEF SinkInv, Sorted
    <3>2. 1 .. added + 1 = (1 .. added) \cup {added + 1}
      BY <1>4
    <3> QED
      BY <1>7, <1>8, <1>11, <3>1, <3>2
  <2>2. dropped' \cap (Sent \cup Ids(take) \cup refused) = {}
    <3>1. dropped \cap (Sent \cup Ids(take) \cup refused) = {}
      BY DEF SinkInv, Sorted
    <3>2. \A i \in Gone : i \notin Ids(all)
      BY <1>7, <1>12, IdsAre
    <3> QED
      BY <1>3, <3>1, <3>2, GoneFacts
  <2> QED
    BY <1>3, <1>11, <2>1, <2>2 DEF SinkInv, Sorted
<1>15. FullWakes'
  <2>1. CASE Full
    BY <1>3, <2>1 DEF FullWakes
  <2>2. CASE ~Full
    BY <1>3, <1>10, <2>2 DEF FullWakes, Full, SizeKept
  <2> QED
    BY <2>1, <2>2
<1> QED
  BY <1>9, <1>10, <1>13, <1>14, <1>15 DEF SinkInv

\* A round of flush takes the oldest records, or finds nothing to do.
LEMMA FlushKeeps ==
    ASSUME SinkInv, Flush
    PROVE  SinkInv'
<1>1. Len(pending) \in Nat /\ MaxItems \in Nat /\ MaxItems > 0 /\ MaxSize > 0
  BY SinkAssumption DEF SinkInv, SinkTypeOK
<1>2. PICK n : n = IF Len(pending) > MaxItems THEN MaxItems ELSE Len(pending)
  OBVIOUS
<1>3. n \in 0 .. Len(pending)
  BY <1>1, <1>2
<1>4. /\ loop \in {"flush", "last"} /\ take = <<>>
      /\ take' = SubSeq(pending, 1, n) /\ pending' = SubSeq(pending, n + 1, Len(pending))
      /\ size' = sizeOf(pending')
      /\ loop' = IF pending # <<>> THEN loop ELSE IF loop = "flush" THEN "select" ELSE "done"
      /\ UNCHANGED <<dropped, wake, sent, refused, adder, added>>
  BY <1>2 DEF Flush
<1>5. pending \in Seq(Records) /\ Ascending(pending)
  BY DEF SinkInv, SinkTypeOK, Ordered
<1>6. /\ take' \in Seq(Records) /\ pending' \in Seq(Records)
      /\ Ascending(take') /\ Ascending(pending')
      /\ Ids(pending) = Ids(take') \cup Ids(pending')
      /\ \A i \in Ids(take'), p \in Ids(pending') : i < p
      /\ n = 0 => pending' = pending
  <2>1. take' = Older(pending, n) /\ pending' = Newer(pending, n)
    BY <1>4 DEF Older, Newer
  <2> QED
    BY <1>3, <1>5, <2>1, RecordsSplit
<1>7. Ids(take) = {} /\ Sent' = Sent
  BY <1>4 DEF Ids, Sent
<1>8. Gone' = Gone \cup Ids(take')
  BY <1>4, <1>7 DEF Gone
<1>9. \A i \in Gone, p \in Ids(pending) : i < p
  BY DEF SinkInv, Ordered
<1>10. SinkTypeOK' /\ SizeKept'
  BY <1>4, <1>6 DEF SinkInv, SinkTypeOK, SizeKept
<1>11. Ordered'
  <2>1. \A i \in Gone', p \in Ids(pending') : i < p
    BY <1>6, <1>8, <1>9
  <2>2. \A i \in Sent \cup refused, t \in Ids(take') : i < t
    BY <1>6, <1>9, GoneFacts
  <2> QED
    BY <1>4, <1>6, <1>7, <2>1, <2>2 DEF SinkInv, Ordered
<1>12. Sorted'
  <2>1. Ids(pending') \cup Gone' = Ids(pending) \cup Gone
    BY <1>6, <1>8
  <2>2. Ids(pending) \cap dropped = {}
    BY <1>9, GoneFacts, IdsAre
  <2> QED
    BY <1>4, <1>6, <1>7, <2>1, <2>2 DEF SinkInv, Sorted
<1>13. FullWakes'
  <2> SUFFICES ASSUME loop' = "select"
               PROVE  ~(Len(pending') >= MaxItems \/ sizeOf(pending') >= MaxSize)
    BY DEF FullWakes
  <2>1. pending = <<>>
    BY <1>4
  <2>2. n = 0
    BY <1>1, <1>2, <2>1
  <2>3. pending' = <<>> /\ Len(<<>>) = 0 /\ sizeOf(<<>>) = 0
    BY <1>6, <2>1, <2>2, SizeFacts
  <2> QED
    BY <1>1, <2>3, SinkAssumption
<1> QED
  BY <1>10, <1>11, <1>12, <1>13 DEF SinkInv

\* What publish offers NATS for a subject joins what was sent for it.
LEMMA SentFacts ==
    ASSUME SinkInv, NEW ok \in SUBSET {take[i].subject : i \in DOMAIN take}, NEW s \in Subjects,
           sent' = [t \in Subjects |->
                      IF t \in ok THEN sent[t] \o grouped(take, t) ELSE sent[t]]
    PROVE  /\ sent'[s] \in Seq(Records) /\ Ascending(sent'[s])
           /\ Ids(sent'[s]) = IF s \in ok THEN Ids(sent[s]) \cup SubjectIds(take, s)
                              ELSE Ids(sent[s])
<1>1. /\ take \in Seq(Records) /\ Ascending(take)
      /\ sent[s] \in Seq(Records) /\ Ascending(sent[s])
  BY DEF SinkInv, SinkTypeOK, Ordered
<1>2. sent'[s] = IF s \in ok THEN sent[s] \o grouped(take, s) ELSE sent[s]
  OBVIOUS
<1>3. PICK g : g = grouped(take, s)
  OBVIOUS
<1>4. g \in Seq(Records) /\ Ascending(g) /\ Ids(g) = SubjectIds(take, s)
  BY <1>1, <1>3, GroupFacts
<1>5. \A i \in Ids(sent[s]), j \in Ids(g) : i < j
  <2>1. Ids(g) \subseteq Ids(take)
    BY <1>4 DEF SubjectIds, Ids
  <2>2. Ids(sent[s]) \subseteq Sent
    BY DEF Sent
  <2> QED
    BY <2>1, <2>2 DEF SinkInv, Ordered
<1>6. PICK o : o = sent[s]
  OBVIOUS
<1>7. o \o g \in Seq(Records) /\ Ascending(o \o g) /\ Ids(o \o g) = Ids(o) \cup Ids(g)
  BY <1>1, <1>4, <1>5, <1>6, RecordsJoin
<1> QED
  BY <1>1, <1>2, <1>3, <1>4, <1>6, <1>7

\* A batch is published, refused, or some of each by subject.
LEMMA PublishKeeps ==
    ASSUME SinkInv, Publish
    PROVE  SinkInv'
<1>1. PICK ok \in SUBSET {take[i].subject : i \in DOMAIN take} :
        /\ sent' = [t \in Subjects |->
                      IF t \in ok THEN sent[t] \o grouped(take, t) ELSE sent[t]]
        /\ refused' = refused \cup
             {take[i].id : i \in {j \in DOMAIN take : take[j].subject \notin ok}}
  BY DEF Publish
<1>2. take' = <<>> /\ UNCHANGED <<pending, size, dropped, wake, loop, adder, added>>
  BY DEF Publish
<1>3. /\ take \in Seq(Records) /\ Ascending(take) /\ DOMAIN take = 1 .. Len(take)
      /\ \A i \in DOMAIN take : take[i] \in Records
  BY DEF SinkInv, SinkTypeOK, Ordered
<1>4. ok \subseteq Subjects
  BY <1>3 DEF Records
<1>5. \A s \in Subjects :
        /\ sent'[s] \in Seq(Records) /\ Ascending(sent'[s])
        /\ Ids(sent'[s]) = IF s \in ok THEN Ids(sent[s]) \cup SubjectIds(take, s)
                           ELSE Ids(sent[s])
  BY <1>1, SentFacts
\* The batch falls into what NATS took and what it refused.
<1> DEFINE Took == {take[i].id : i \in {j \in DOMAIN take : take[j].subject \in ok}}
           Left == {take[i].id : i \in {j \in DOMAIN take : take[j].subject \notin ok}}
<1>6. Ids(take) = Took \cup Left
  BY DEF Ids
<1>7. \A i, j \in DOMAIN take : i # j => take[i].id # take[j].id
  <2> SUFFICES ASSUME NEW i \in DOMAIN take, NEW j \in DOMAIN take, i # j
               PROVE  take[i].id # take[j].id
    OBVIOUS
  <2>1. i < j \/ j < i
    BY <1>3
  <2>2. take[i].id \in Nat /\ take[j].id \in Nat
    BY <1>3 DEF Records
  <2> QED
    BY <1>3, <2>1, <2>2 DEF Ascending
<1>8. Took \cap Left = {}
  BY <1>7
<1>9. Sent' = Sent \cup Took
  <2>1. Took = UNION {SubjectIds(take, s) : s \in ok}
    BY DEF SubjectIds
  <2>2. Sent' = UNION {Ids(sent'[s]) : s \in Subjects}
    BY DEF Sent, Ids
  <2> HIDE DEF Took
  <2>3. \A i \in Sent' : i \in Sent \cup Took
    <3> SUFFICES ASSUME NEW s \in Subjects, NEW i \in Ids(sent'[s])
                 PROVE  i \in Sent \cup Took
      BY <2>2
    <3> QED
      BY <1>5, <2>1 DEF Sent
  <2>4. \A i \in Sent : i \in Sent'
    BY <1>5, <2>2 DEF Sent
  <2>5. \A i \in Took : i \in Sent'
    BY <1>4, <1>5, <2>1, <2>2
  <2> QED
    BY <2>3, <2>4, <2>5
<1>10. refused' = refused \cup Left
  BY <1>1
<1> HIDE DEF Took, Left
<1>11. Ids(take') = {}
  BY <1>2 DEF Ids
<1>12. Gone' = Gone
  BY <1>2, <1>6, <1>9, <1>10, <1>11 DEF Gone
<1>13. SinkTypeOK' /\ SizeKept' /\ FullWakes'
  <2>1. sent' \in [Subjects -> Seq(Records)]
    BY <1>1, <1>5
  <2> QED
    BY <1>2, <2>1 DEF SinkInv, SinkTypeOK, SizeKept, FullWakes
<1>14. Ordered'
  <2>1. Ascending(take')
    BY <1>2 DEF Ascending
  <2> QED
    BY <1>2, <1>5, <1>11, <1>12, <2>1 DEF SinkInv, Ordered
<1>15. Sorted'
  <2>1. \A i \in Sent \cup refused : i \notin Ids(take)
    BY IdsAre, GoneFacts DEF SinkInv, Ordered
  <2>2. Sent \cap refused = {}
    BY DEF SinkInv, Sorted
  <2>3. Sent' \cap refused' = {}
    BY <1>6, <1>8, <1>9, <1>10, <2>1, <2>2
  <2>4. Sent' \cup Ids(take') \cup refused' = Sent \cup Ids(take) \cup refused
    BY <1>6, <1>9, <1>10, <1>11
  <2>5. \A s, t \in Subjects : s # t => Ids(sent[s])' \cap Ids(sent[t])' = {}
    <3> SUFFICES ASSUME NEW s \in Subjects, NEW t \in Subjects, s # t
                 PROVE  Ids(sent[s])' \cap Ids(sent[t])' = {}
      OBVIOUS
    <3>1. /\ SubjectIds(take, s) \cap SubjectIds(take, t) = {}
          /\ SubjectIds(take, s) \subseteq Ids(take) /\ SubjectIds(take, t) \subseteq Ids(take)
      BY <1>7 DEF SubjectIds, Ids
    <3>2. Ids(sent[s]) \subseteq Sent /\ Ids(sent[t]) \subseteq Sent
      BY DEF Sent
    <3>3. Ids(sent[s]) \cap Ids(sent[t]) = {}
      BY DEF SinkInv, Sorted
    <3>4. /\ Ids(sent[s])' \subseteq Ids(sent[s]) \cup SubjectIds(take, s)
          /\ Ids(sent[t])' \subseteq Ids(sent[t]) \cup SubjectIds(take, t)
      <4>1. Ids(sent[s])' = Ids(sent'[s]) /\ Ids(sent[t])' = Ids(sent'[t])
        BY DEF Ids
      <4> QED
        BY <1>5, <4>1
    <3> QED
      BY <2>1, <3>1, <3>2, <3>3, <3>4
  <2> QED
    BY <1>2, <1>12, <2>3, <2>4, <2>5 DEF SinkInv, Sorted
<1> QED
  BY <1>13, <1>14, <1>15 DEF SinkInv

\* kick, the select, Close and a stutter leave the records where they are.
LEMMA SignalsKeep ==
    ASSUME SinkInv, (\E a \in Adders : kick(a)) \/ Select \/ Close \/ UNCHANGED sinkVars
    PROVE  SinkInv'
<1>1. /\ UNCHANGED <<pending, size, dropped, take, sent, refused, added>>
      /\ loop' \in {loop, "flush", "last"}
      /\ wake' \/ (UNCHANGED <<loop, wake, adder>>) \/ loop' # "select"
  BY DEF kick, Select, Close, sinkVars
<1>2. SinkTypeOK' /\ SizeKept' /\ FullWakes'
  BY <1>1 DEF SinkInv, SinkTypeOK, SizeKept, FullWakes
<1>3. Ids(pending)' = Ids(pending) /\ Ids(take)' = Ids(take) /\ Sent' = Sent /\ Gone' = Gone
  BY <1>1 DEF Ids, Sent, Gone
<1>4. Ordered'
  BY <1>1, <1>3 DEF SinkInv, Ordered, Ascending
<1>5. Sorted'
  <2>1. \A s \in Subjects : Ids(sent[s])' = Ids(sent[s])
    BY <1>1 DEF Ids
  <2> QED
    BY <1>1, <1>3, <2>1 DEF SinkInv, Sorted
<1> QED
  BY <1>2, <1>4, <1>5 DEF SinkInv

(***************************************************************************)
(* The audit sink: the theorems                                            *)
(***************************************************************************)

\* SinkInv holds at the start.
LEMMA SinkStarts == SinkInit => SinkInv
<1> SUFFICES ASSUME SinkInit
             PROVE  SinkInv
  OBVIOUS
<1>1. /\ pending = <<>> /\ size = 0 /\ dropped = {} /\ loop = "select" /\ take = <<>>
      /\ sent = [s \in Subjects |-> <<>>] /\ refused = {} /\ added = 0
  BY DEF SinkInit
<1>2. <<>> \in Seq(Records) /\ Len(<<>>) = 0 /\ sizeOf(<<>>) = 0 /\ 1 .. 0 = {}
  BY SizeFacts
<1>3. Ids(<<>>) = {} /\ Ascending(<<>>)
  BY DEF Ids, Ascending
<1>4. \A s \in Subjects : sent[s] = <<>>
  BY <1>1
<1>5. Sent = {}
  BY <1>3, <1>4 DEF Sent
<1>6. SinkTypeOK /\ SizeKept
  BY <1>1, <1>2 DEF SinkTypeOK, SizeKept
<1>7. Ordered /\ Sorted
  BY <1>1, <1>2, <1>3, <1>4, <1>5 DEF Ordered, Sorted, Gone
<1>8. FullWakes
  BY <1>1, <1>2, SinkAssumption DEF FullWakes
<1> QED
  BY <1>6, <1>7, <1>8 DEF SinkInv

\* Every step keeps SinkInv.
LEMMA SinkStep == SinkInv /\ [SinkNext]_sinkVars => SinkInv'
<1> SUFFICES ASSUME SinkInv, [SinkNext]_sinkVars
             PROVE  SinkInv'
  OBVIOUS
<1>1. CASE \E a \in Adders, s \in Subjects, n \in Sizes : Add(a, s, n)
  BY <1>1, AddKeeps
<1>2. CASE Flush
  BY <1>2, FlushKeeps
<1>3. CASE Publish
  BY <1>3, PublishKeeps
<1>4. CASE (\E a \in Adders : kick(a)) \/ Select \/ Close \/ UNCHANGED sinkVars
  BY <1>4, SignalsKeep
<1> QED
  BY <1>1, <1>2, <1>3, <1>4 DEF SinkNext

\* SinkInv is an invariant.
THEOREM SinkInvariance == SinkSpec => []SinkInv
  BY SinkStarts, SinkStep, PTL DEF SinkSpec

\* However many goroutines add and however NATS answers, each record is in one
\* place (Add, flush, publish).
THEOREM RecordsAccounted == SinkSpec => []Accounted
<1> SUFFICES ASSUME SinkInv
             PROVE  Accounted
  BY SinkInvariance, PTL
<1>1. PICK p : p = <<Ids(pending), Ids(take), Sent, refused, dropped>>
  OBVIOUS
<1>2. /\ DOMAIN p = 1 .. 5
      /\ p[1] = Ids(pending) /\ p[2] = Ids(take) /\ p[3] = Sent /\ p[4] = refused /\ p[5] = dropped
  BY <1>1
<1>3. UNION Range(p) = Ids(pending) \cup Gone
  <2>1. Range(p) = {p[i] : i \in 1 .. 5}
    BY <1>2 DEF Range
  <2>2. \A i \in 1 .. 5 : i = 1 \/ i = 2 \/ i = 3 \/ i = 4 \/ i = 5
    OBVIOUS
  <2>3. Range(p) = {Ids(pending), Ids(take), Sent, refused, dropped}
    BY <1>2, <2>1, <2>2
  <2> QED
    BY <2>3 DEF Gone
<1>4. /\ Ids(pending) \cap Gone = {}
      /\ Ids(take) \cap (Sent \cup refused) = {}
  BY IdsAre, GoneFacts DEF SinkInv, Ordered
<1>5. /\ dropped \cap (Sent \cup Ids(take) \cup refused) = {}
      /\ Sent \cap refused = {}
  BY DEF SinkInv, Sorted
<1>6. \A i, j \in 1 .. 5 : i < j => p[i] \cap p[j] = {}
  <2>1. \A i, j \in 1 .. 5 : i < j =>
          i = 1 \/ (i = 2 /\ j \in {3, 4, 5}) \/ (i = 3 /\ j \in {4, 5}) \/ (i = 4 /\ j = 5)
    OBVIOUS
  <2>2. \A j \in 1 .. 5 : 1 < j => p[j] \subseteq Gone
    <3>1. \A j \in 1 .. 5 : 1 < j => j \in {2, 3, 4, 5}
      OBVIOUS
    <3> QED
      BY <1>2, <3>1, GoneFacts
  <2> QED
    BY <1>2, <1>4, <1>5, <2>1, <2>2
<1>7. \A i, j \in DOMAIN p : i # j => p[i] \cap p[j] = {}
  BY <1>2, <1>6
<1> QED
  BY <1>1, <1>3, <1>7 DEF Accounted, SinkInv, Sorted

\* What is published of a subject is in the order of the Adds, and what is
\* dropped is older than what is kept.
THEOREM RecordsInOrder == SinkSpec => []InOrder
<1>1. SinkInv => InOrder
  BY GoneFacts DEF SinkInv, Ordered, InOrder, Ascending
<1> QED
  BY <1>1, SinkInvariance, PTL

\* The goroutine never sleeps over a full buffer that nobody will wake it for.
THEOREM SinkWakes == SinkSpec => []FullWakes
<1>1. SinkInv => FullWakes
  BY DEF SinkInv
<1> QED
  BY <1>1, SinkInvariance, PTL

=============================================================================
