----------------------------- MODULE AuditSink -----------------------------
(***************************************************************************)
(* The buffer of audit records between the handlers of the inspector and   *)
(* one goroutine that publishes them in batches.                           *)
(*                                                                         *)
(* Code modelled: internal/audit/sink.go (Add, kick, loop, flush, publish, *)
(* groupBySubject, send, Close).  A record is numbered in the order of its *)
(* Add; NATS (external) takes or refuses a batch.                          *)
(***************************************************************************)
EXTENDS Integers, Sequences, FiniteSets, SequencesExt

CONSTANTS
    Adders,      \* goroutines that call Add
    Subjects,    \* audit subjects
    Sizes,       \* sizes of a record
    MaxItems,    \* maxItems: records of a batch
    MaxSize,     \* maxSize: size that wakes the goroutine
    MaxPending,  \* maxPending: records that are kept
    MaxAdds      \* bound: records of a behaviour

ASSUME SinkAssumption ==
    /\ MaxItems \in Nat \ {0} /\ MaxPending \in Nat \ {0}
    /\ MaxSize \in Nat \ {0} /\ MaxAdds \in Nat
    /\ Sizes \subseteq Nat

VARIABLES
    pending,  \* Sink.pending
    size,     \* Sink.size
    dropped,  \* records cut from the front, Sink.dropped being their number
    wake,     \* a token is in Sink.wake
    stop,     \* Sink.stop is closed
    loop,     \* where the goroutine is
    take,     \* the batch in its hands
    sent,     \* what NATS took, by subject
    refused,  \* records of the batches that NATS refused
    adder,    \* the goroutines that have yet to kick
    added,    \* records so far
    before    \* history: records added before Close was called

sinkVars == <<pending, size, dropped, wake, stop, loop, take, sent, refused, adder, added, before>>

SinkInit ==
    /\ pending = <<>> /\ size = 0 /\ dropped = {}
    /\ wake = FALSE /\ stop = FALSE
    /\ loop = "select" /\ take = <<>>
    /\ sent = [s \in Subjects |-> <<>>] /\ refused = {}
    /\ adder = {} /\ added = 0 /\ before = 0

\* The loop of flush and Add over what is left.
sizeOf(items) ==
    LET sum[i \in 0 .. Len(items)] == IF i = 0 THEN 0 ELSE sum[i - 1] + items[i].size
    IN  sum[Len(items)]
Ids(items) == {items[i].id : i \in DOMAIN items}

\* groupBySubject: the records for s, in the order of the batch.
grouped(items, s) ==
    LET group[i \in 0 .. Len(items)] ==
          IF i = 0 THEN <<>>
          ELSE IF items[i].subject = s THEN Append(group[i - 1], items[i]) ELSE group[i - 1]
    IN  group[Len(items)]

(***************************************************************************)
(* Add                                                                     *)
(***************************************************************************)

\* Mutant of Cut: the newest records go.
CutNewest(items) ==
    IF Len(items) > MaxPending
    THEN SubSeq(items, 1, MaxPending)
    ELSE items

\* Past maxPending the oldest records go.
Cut(items) ==
    IF Len(items) > MaxPending
    THEN SubSeq(items, Len(items) - MaxPending + 1, Len(items))
    ELSE items

\* Mutant of Full: the size wakes nobody.
FullByCount == Len(pending') >= MaxItems

Full == Len(pending') >= MaxItems \/ size' >= MaxSize

\* Add under the mutex.
Add(a, subject, n) ==
    /\ a \notin adder
    /\ added < MaxAdds
    /\ added' = added + 1
    /\ LET all == Append(pending, [id |-> added + 1, subject |-> subject, size |-> n])
       IN  /\ pending' = Cut(all)
           /\ size' = IF Len(all) > MaxPending THEN sizeOf(pending') ELSE size + n
           /\ dropped' = dropped \cup (Ids(all) \ Ids(pending'))
    /\ adder' = IF Full THEN adder \cup {a} ELSE adder
    /\ UNCHANGED <<wake, stop, loop, take, sent, refused, before>>

\* kick, after the unlock: a token that is there already is enough.
kick(a) ==
    /\ a \in adder
    /\ adder' = adder \ {a}
    /\ wake' = TRUE
    /\ UNCHANGED <<pending, size, dropped, stop, loop, take, sent, refused, added, before>>

(***************************************************************************)
(* The goroutine                                                           *)
(***************************************************************************)

\* Mutant of Select: the stop ends the goroutine without a last flush.
SelectAbandons ==
    /\ loop = "select"
    /\ \/ stop /\ loop' = "done" /\ UNCHANGED wake
       \/ wake /\ wake' = FALSE /\ loop' = "flush"
       \/ loop' = "flush" /\ UNCHANGED wake
    /\ UNCHANGED <<pending, size, dropped, stop, take, sent, refused, adder, added, before>>

\* The select of loop: any case that is ready.
Select ==
    /\ loop = "select"
    /\ \/ stop /\ loop' = "last" /\ UNCHANGED wake
       \/ wake /\ wake' = FALSE /\ loop' = "flush"
       \/ loop' = "flush" /\ UNCHANGED wake
    /\ UNCHANGED <<pending, size, dropped, stop, take, sent, refused, adder, added, before>>

\* Mutant of Flush: the buffer is emptied behind the batch.
FlushForgets ==
    /\ loop \in {"flush", "last"}
    /\ take = <<>>
    /\ take' = SubSeq(pending, 1, IF Len(pending) > MaxItems THEN MaxItems ELSE Len(pending))
    /\ pending' = <<>> /\ size' = 0
    /\ loop' = IF pending # <<>> THEN loop ELSE IF loop = "flush" THEN "select" ELSE "done"
    /\ UNCHANGED <<dropped, wake, stop, sent, refused, adder, added, before>>

\* Mutant of Flush: a batch that is not full is left for later.
FlushFullOnly ==
    /\ loop \in {"flush", "last"}
    /\ take = <<>>
    /\ LET n == IF Len(pending) >= MaxItems THEN MaxItems ELSE 0
       IN  /\ take' = SubSeq(pending, 1, n)
           /\ pending' = SubSeq(pending, n + 1, Len(pending))
           /\ loop' = IF n # 0 THEN loop ELSE IF loop = "flush" THEN "select" ELSE "done"
    /\ size' = sizeOf(pending')
    /\ UNCHANGED <<dropped, wake, stop, sent, refused, adder, added, before>>

\* One round of flush under the mutex: nothing to do, or a batch is taken.
Flush ==
    /\ loop \in {"flush", "last"}
    /\ take = <<>>
    /\ LET n == IF Len(pending) > MaxItems THEN MaxItems ELSE Len(pending)
       IN  /\ take' = SubSeq(pending, 1, n)
           /\ pending' = SubSeq(pending, n + 1, Len(pending))
    /\ size' = sizeOf(pending')
    /\ loop' = IF pending # <<>> THEN loop ELSE IF loop = "flush" THEN "select" ELSE "done"
    /\ UNCHANGED <<dropped, wake, stop, sent, refused, adder, added, before>>

\* publish: one batch per subject, which NATS takes or refuses.
Publish ==
    /\ take # <<>>
    /\ \E ok \in SUBSET {take[i].subject : i \in DOMAIN take} :
         /\ sent' = [s \in Subjects |->
              IF s \in ok THEN sent[s] \o grouped(take, s) ELSE sent[s]]
         /\ refused' = refused \cup
              {take[i].id : i \in {j \in DOMAIN take : take[j].subject \notin ok}}
    /\ take' = <<>>
    /\ UNCHANGED <<pending, size, dropped, wake, stop, loop, adder, added, before>>

\* Close; it returns when the goroutine is done.
Close ==
    /\ ~stop
    /\ stop' = TRUE
    /\ before' = added
    /\ UNCHANGED <<pending, size, dropped, wake, loop, take, sent, refused, adder, added>>

SinkNext ==
    \/ \E a \in Adders, s \in Subjects, n \in Sizes : Add(a, s, n)
    \/ \E a \in Adders : kick(a)
    \/ Select \/ Flush \/ Publish \/ Close

\* The goroutine of loop runs, its ticker included, and a stop that stays
\* ready is chosen in the end.
SinkSpec ==
    /\ SinkInit /\ [][SinkNext]_sinkVars
    /\ WF_sinkVars(Flush) /\ WF_sinkVars(Publish) /\ WF_sinkVars(Select)
    /\ SF_sinkVars(Select /\ loop' = "last")

(***************************************************************************)
(* Properties                                                              *)
(***************************************************************************)

Sent == UNION {Ids(sent[s]) : s \in Subjects}

\* No record is lost without a trace or published twice: each is in the
\* buffer, in the batch under way, published, refused by NATS (logged) or
\* counted as dropped, in one of these only and under one subject only.
Accounted ==
    LET places == <<Ids(pending), Ids(take), Sent, refused, dropped>> IN
    /\ UNION Range(places) = 1 .. added
    /\ \A i, j \in DOMAIN places : i # j => places[i] \cap places[j] = {}
    /\ \A s, t \in Subjects : s # t => Ids(sent[s]) \cap Ids(sent[t]) = {}

\* Batches, cuts and the grouping by subject keep the records of a subject in
\* the order of their Adds, and what is dropped is older than what is kept.
InOrder ==
    /\ \A s \in Subjects : \A i, j \in DOMAIN sent[s] : i < j => sent[s][i].id < sent[s][j].id
    /\ \A i \in Sent \cup Ids(take), p \in Ids(pending) : i < p
    /\ \A d \in dropped, p \in Ids(pending) : d < p

\* A full buffer does not wait for the ticker: the goroutine sleeps over one
\* only while a token is in wake or the Add that filled it is about to kick.
FullWakes ==
    loop = "select" /\ (Len(pending) >= MaxItems \/ sizeOf(pending) >= MaxSize) =>
        wake \/ adder # {}

\* Every record leaves the buffer in the end, unless the sink was closed under
\* its Add: neither a lost token nor a full buffer leaves one behind.
EveryRecordLeaves == <>[](pending = <<>> \/ loop = "done")

\* Close returns, and then everything added before it was called is off the
\* buffer; Adds that came later may stay in it.
CloseDrains == stop ~> (loop = "done" /\ \A p \in Ids(pending) : p > before)
=============================================================================
