----------------------------- MODULE ListMirror -----------------------------
(***************************************************************************)
(* A process's mirror of one list: frames of the keeper over NATS, which   *)
(* may be lost, packages and snapshots in Redis, which may be gone or      *)
(* malformed, and one goroutine per list that follows them.                *)
(*                                                                         *)
(* Code modelled: internal/livelist/livelist.go (Ensure, run, onFrame,     *)
(* catchUp, applyPackage, verify, snapshot, resync, composition.apply).    *)
(* The keeper is not in this repository: it is modelled from what the      *)
(* mirror expects of it.  A composition is a set of values and stands for  *)
(* its own hash.                                                           *)
(***************************************************************************)
EXTENDS Integers, Sequences, FiniteSets, SequencesExt

CONSTANTS
    Values,           \* values that may be on the list
    QueueDepth,       \* queueDepth, the buffer of set.in
    PackagesPerRead,  \* packagesPerRead
    MaxEpoch,         \* bound: restarts of the keeper
    MaxHist           \* bound: compositions of a behaviour

ASSUME MirrorAssumption ==
    /\ QueueDepth \in Nat \ {0} /\ PackagesPerRead \in Nat \ {0}
    /\ MaxEpoch \in Nat /\ MaxHist \in Nat \ {0}

VARIABLES
    hist,   \* keeper: every composition with its epoch and seq, oldest first
    redis,  \* Redis: what is at waf:diff:<name>:<seq>
    in,     \* set.in: frames that wait for the goroutine
    st,     \* the set: ready, epoch, seq, comp, snapBad
    misread,  \* history: the snapshot in use did not give the keeper's hash
    run     \* where the goroutine is

keeper == <<hist, redis>>
vars == <<hist, redis, in, st, misread, run>>

Current == Last(hist)

Gone == [kind |-> "gone"]
Malformed == [kind |-> "malformed"]
Package(e, s, op, v, set) ==
    [kind |-> "package", epoch |-> e, seq |-> s, op |-> op, value |-> v, hash |-> set]

Seqs == 1 .. MaxHist
NotYet == [ready |-> FALSE, epoch |-> 0, seq |-> 0, comp |-> {}, snapBad |-> FALSE]

Init ==
    /\ hist = <<[epoch |-> 1, seq |-> 0, set |-> {}]>>
    /\ redis = [s \in Seqs |-> Gone]
    /\ in = <<>>
    /\ st = NotYet /\ misread = FALSE
    /\ run = [pc |-> "snapshot"]

(***************************************************************************)
(* The keeper, NATS and Redis (external)                                   *)
(***************************************************************************)

\* A frame reaches set.in, or is lost: by NATS, or because the buffer is full.
Deliver(f) ==
    \/ in' = in
    \/ Len(in) < QueueDepth /\ in' = Append(in, f)

Frame(op, inline) ==
    [op |-> op, epoch |-> Current.epoch, seq |-> Current.seq, hash |-> Current.set,
     inline |-> inline]

\* composition.apply: one record of a package.
apply(set, op, v) == IF op = "add" THEN set \cup {v} ELSE set \ {v}

\* The keeper adds or removes a value: a package, and a frame that carries the
\* package inside if it is small.
KeeperChange(op, v, inside) ==
    /\ Len(hist) < MaxHist
    /\ LET set == apply(Current.set, op, v)
           seq == Current.seq + 1
           p == Package(Current.epoch, seq, op, v, set)
       IN  /\ hist' = Append(hist, [epoch |-> Current.epoch, seq |-> seq, set |-> set])
           /\ redis' = [redis EXCEPT ![seq] = p]
           /\ Deliver([op |-> "diff", epoch |-> Current.epoch, seq |-> seq, hash |-> set,
                       inline |-> IF inside THEN p ELSE Gone])
    /\ UNCHANGED <<st, misread, run>>

\* The keeper restarts: a new epoch over what it still has.
KeeperRestart ==
    /\ Len(hist) < MaxHist
    /\ Current.epoch < MaxEpoch
    /\ \E s \in {Current.set, {}} :
         hist' = Append(hist, [epoch |-> Current.epoch + 1, seq |-> 0, set |-> s])
    /\ UNCHANGED <<redis, in, st, misread, run>>

\* The keeper's tick frame.
KeeperTick ==
    /\ Deliver(Frame("tick", Gone))
    /\ UNCHANGED <<hist, redis, st, misread, run>>

\* A package is evicted from Redis, or damaged there.
Evict(s) ==
    /\ redis[s].kind = "package"
    /\ redis' = [redis EXCEPT ![s] = Gone] \/ redis' = [redis EXCEPT ![s] = Malformed]
    /\ UNCHANGED <<hist, in, st, misread, run>>

(***************************************************************************)
(* The mirror                                                              *)
(***************************************************************************)

Idle == [pc |-> "idle"]

\* resync: a set that is not ready gets a frame of its own.
Resync ==
    /\ ~st.ready
    /\ Len(in) < QueueDepth
    /\ in' = Append(in, [op |-> "resync"])
    /\ UNCHANGED <<hist, redis, st, misread, run>>

\* verify: where the goroutine goes when the hash is to be good.
verify(s, want, good) ==
    IF s.comp = want THEN good
    ELSE IF s.snapBad THEN Idle
    ELSE [pc |-> "snapshot"]

\* Mutant of applyPackage: a package of another epoch is applied.
applyPackageAnyEpoch(p, want, good) ==
    IF p.kind # "package" \/ p.seq # want
    THEN st' = st /\ run' = [pc |-> "snapshot"]
    ELSE LET s == [st EXCEPT !.comp = apply(@, p.op, p.value), !.seq = p.seq]
         IN  st' = s /\ run' = verify(s, p.hash, good)

\* Mutant of applyPackage: a package that is gone ends the catching up.
applyPackageGivesUp(p, want, good) ==
    IF p.kind # "package" \/ p.epoch # st.epoch \/ p.seq # want
    THEN st' = st /\ run' = Idle
    ELSE LET s == [st EXCEPT !.comp = apply(@, p.op, p.value), !.seq = p.seq]
         IN  st' = s /\ run' = verify(s, p.hash, good)

\* applyPackage: the set and where the goroutine goes on, at good if all is well.
applyPackage(p, want, good) ==
    IF p.kind # "package" \/ p.epoch # st.epoch \/ p.seq # want
    THEN st' = st /\ run' = [pc |-> "snapshot"]
    ELSE LET s == [st EXCEPT !.comp = apply(@, p.op, p.value), !.seq = p.seq]
         IN  st' = s /\ run' = verify(s, p.hash, good)

\* onFrame.
OnFrame ==
    /\ run = Idle
    /\ in # <<>>
    /\ in' = Tail(in)
    /\ LET f == Head(in) IN
         \/ ~st.ready /\ run' = [pc |-> "snapshot"] /\ st' = st
         \/ st.ready /\ f.op = "resync" /\ UNCHANGED <<st, run>>
         \/ /\ st.ready /\ f.op # "resync" /\ f.epoch # st.epoch
            /\ st' = [st EXCEPT !.snapBad = FALSE]
            /\ run' = [pc |-> "snapshot"]
         \/ /\ st.ready /\ f.op # "resync" /\ f.epoch = st.epoch
            /\ \/ f.seq < st.seq /\ UNCHANGED <<st, run>>
               \/ f.seq = st.seq /\ st' = st /\ run' = verify(st, f.hash, Idle)
               \/ /\ f.seq = st.seq + 1 /\ f.inline.kind = "package"
                  /\ applyPackage(f.inline, f.seq, Idle)
               \/ /\ f.seq > st.seq /\ (f.inline.kind # "package" \/ f.seq # st.seq + 1)
                  /\ run' = [pc |-> "read", upto |-> f.seq, want |-> f.hash]
                  /\ st' = st
    /\ UNCHANGED <<keeper, misread>>

Lower(a, b) == IF a < b THEN a ELSE b

\* catchUp: one read of the next packages, or the last check.
CatchUpRead ==
    /\ run.pc = "read"
    /\ \/ st.seq >= run.upto /\ run' = verify(st, run.want, Idle)
       \/ /\ st.seq < run.upto
          /\ LET n == Lower(run.upto - st.seq, PackagesPerRead) IN
               run' = [pc |-> "apply", upto |-> run.upto, want |-> run.want,
                       objs |-> [i \in 1 .. n |-> redis[st.seq + i]]]
       \/ st.seq < run.upto /\ run' = Idle
    /\ UNCHANGED <<hist, redis, in, st, misread>>

\* catchUp: one package of those read.
CatchUpApply ==
    /\ run.pc = "apply"
    /\ LET rest == Tail(run.objs)
           again == [pc |-> "read", upto |-> run.upto, want |-> run.want]
       IN  applyPackage(Head(run.objs), st.seq + 1,
                        IF rest = <<>> THEN again ELSE [run EXCEPT !.objs = rest])
    /\ UNCHANGED <<hist, redis, in, misread>>

\* snapshot: the keeper names an object of its current composition, or the
\* request fails or is refused.
SnapshotRequest ==
    /\ run.pc = "snapshot"
    /\ \/ ~st.snapBad /\ run' = [pc |-> "object", ref |-> Current]
       \/ run' = Idle
    /\ UNCHANGED <<hist, redis, in, st, misread>>

Snapshot(ref, set, bad) ==
    /\ st' = [ready |-> TRUE, epoch |-> ref.epoch, seq |-> ref.seq, comp |-> set, snapBad |-> bad]
    /\ misread' = bad

\* Mutant of SnapshotObject: the records of the snapshot are added to the old ones.
SnapshotObjectMerged ==
    /\ run.pc = "object"
    /\ run' = Idle
    /\ \/ Snapshot(run.ref, st.comp \cup run.ref.set, FALSE)
       \/ UNCHANGED <<st, misread>>
    /\ UNCHANGED <<hist, redis, in>>

\* snapshot: the object is read and takes the place of the set, or it is gone.
\* A composition that does not give the keeper's hash is taken and marked.
SnapshotObject ==
    /\ run.pc = "object"
    /\ run' = Idle
    /\ \/ Snapshot(run.ref, run.ref.set, FALSE)
       \/ \E v \in run.ref.set : Snapshot(run.ref, run.ref.set \ {v}, TRUE)
       \/ UNCHANGED <<st, misread>>
    /\ UNCHANGED <<hist, redis, in>>

Next ==
    \/ \E op \in {"add", "remove"}, v \in Values, b \in BOOLEAN : KeeperChange(op, v, b)
    \/ KeeperRestart \/ KeeperTick
    \/ \E s \in Seqs : Evict(s)
    \/ Resync \/ OnFrame \/ CatchUpRead \/ CatchUpApply \/ SnapshotRequest \/ SnapshotObject

\* A snapshot request that is answered, an object that is read.
Answered == SnapshotRequest /\ run'.pc = "object"
ObjectRead == SnapshotObject /\ st' # st
PackagesRead == CatchUpRead /\ run' # Idle
TickHeard == KeeperTick /\ in' # in

\* The goroutine goes on; the keeper ticks, and neither NATS nor Redis fails
\* every time.
Fairness ==
    /\ WF_vars(OnFrame) /\ WF_vars(CatchUpRead) /\ WF_vars(CatchUpApply)
    /\ WF_vars(SnapshotRequest) /\ WF_vars(SnapshotObject) /\ WF_vars(Resync)
    /\ SF_vars(TickHeard) /\ SF_vars(Answered) /\ SF_vars(ObjectRead) /\ SF_vars(PackagesRead)

Spec == Init /\ [][Next]_vars /\ Fairness

(***************************************************************************)
(* Properties                                                              *)
(***************************************************************************)

\* A mirror that answers holds the composition that the keeper had at the
\* mirror's epoch and seq, whatever frames were lost, packages evicted and
\* epochs begun in between, provided that its snapshot was read well.
MirrorSound ==
    st.ready /\ ~misread =>
        \E i \in DOMAIN hist : hist[i] = [epoch |-> st.epoch, seq |-> st.seq, set |-> st.comp]

\* The index of the mirror's composition in the keeper's history.
ViewIndex ==
    LET at == {i \in DOMAIN hist : hist[i].epoch = st.epoch /\ hist[i].seq = st.seq}
    IN  IF at = {} THEN 1 ELSE CHOOSE i \in at : TRUE

Prefix == INSTANCE PrefixMirror WITH
    history <- [i \in DOMAIN hist |-> hist[i].set],
    ready <- st.ready, damaged <- misread, view <- ViewIndex, content <- st.comp

\* The mirror keeps the promise of PrefixMirror that SessionLife counts on: it
\* answers with real compositions and never falls back to an older one, damaged
\* snapshots, which it marks, apart.
IsPrefixMirror == Prefix!Spec

\* A mirror whose keeper has stopped changing the list ends up with the
\* keeper's composition, though any single frame, package or snapshot may fail;
\* only a snapshot that was marked bad may hold it back.
CatchesUp ==
    <>[](st.snapBad \/ (st.ready /\ st.epoch = Current.epoch /\ st.comp = Current.set))
=============================================================================
