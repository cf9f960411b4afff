-------------------------- MODULE ListMirrorProofs --------------------------
(* Proofs about ListMirror, for every value of its constants.              *)
EXTENDS ListMirror, TLAPS

(***************************************************************************)
(* The inductive invariant                                                 *)
(***************************************************************************)

\* What the keeper can have had.
Compositions == [epoch : Nat \ {0}, seq : Nat, set : SUBSET Values]

\* What the keeper writes for one change.
Packages == [kind : {"package"}, epoch : Nat, seq : Nat, op : {"add", "remove"},
             value : Values, hash : SUBSET Values]
\* What a read of Redis can give.
Objects == {Gone, Malformed} \cup Packages

\* What the keeper sends over NATS.
Frames ==
    [op : {"resync"}]
    \cup [op : {"diff", "tick"}, epoch : Nat, seq : 0 .. MaxHist, hash : SUBSET Values,
          inline : Objects]

\* What the mirror's goroutine can be at.
Runs ==
    {Idle, [pc |-> "snapshot"]}
    \cup [pc : {"object"}, ref : Compositions]
    \cup [pc : {"read"}, upto : 0 .. MaxHist, want : SUBSET Values]
    \cup [pc : {"apply"}, upto : 0 .. MaxHist, want : SUBSET Values,
          objs : Seq(Objects) \ {<<>>}]

\* What livelist.Set can hold.
Sets == [ready : BOOLEAN, epoch : Nat, seq : Nat, comp : SUBSET Values, snapBad : BOOLEAN]

\* The types of the keeper's, NATS's, Redis's and the mirror's state.
TypeOK ==
    /\ hist \in Seq(Compositions) /\ Len(hist) \in 1 .. MaxHist
    /\ redis \in [Seqs -> Objects]
    /\ in \in Seq(Frames)
    /\ st \in Sets
    /\ misread \in BOOLEAN
    /\ run \in Runs

\* The keeper numbers its compositions: within an epoch one by one, and an
\* epoch that is over does not come back.
Numbered ==
    /\ \A i \in 1 .. Len(hist) : hist[i].seq < i
    /\ \A i, j \in 1 .. Len(hist) :
         i <= j => /\ hist[i].epoch <= hist[j].epoch
                   /\ hist[i].epoch = hist[j].epoch => hist[j].seq = hist[i].seq + (j - i)

\* A package, wherever it is, leads from one composition of the keeper to the
\* next.
Leads(h, p, j) ==
    /\ h[j - 1].epoch = p.epoch /\ h[j].epoch = p.epoch
    /\ h[j].seq = p.seq
    /\ h[j].set = apply(h[j - 1].set, p.op, p.value)

TruePackage(h, p) == p.kind = "package" => \E j \in 2 .. Len(h) : Leads(h, p, j)

AllTrue ==
    /\ \A s \in Seqs : TruePackage(hist, redis[s])
    /\ \A i \in 1 .. Len(in) : in[i].op # "resync" => TruePackage(hist, in[i].inline)
    /\ run.pc = "apply" => \A i \in 1 .. Len(run.objs) : TruePackage(hist, run.objs[i])

\* Set s stands at composition i of history h.
StandsAt(h, s, i) == h[i].epoch = s.epoch /\ h[i].seq = s.seq

Standing ==
    /\ ~st.ready => st.epoch = 0 /\ run.pc \notin {"read", "apply"}
    /\ st.ready => \E i \in 1 .. Len(hist) : /\ StandsAt(hist, st, i)
                                             /\ ~misread => hist[i].set = st.comp

\* The keeper's answer to a request for a snapshot is not older than the set.
Newer ==
    run.pc = "object" =>
        \E i \in 1 .. Len(hist) : /\ hist[i] = run.ref
                                  /\ \A j \in 1 .. Len(hist) : StandsAt(hist, st, j) => j <= i

IInv == TypeOK /\ Numbered /\ AllTrue /\ Standing /\ Newer

(***************************************************************************)
(* The keeper's history and its packages                                   *)
(***************************************************************************)

\* The composition that the keeper has now.
LEMMA CurrentFacts ==
    ASSUME TypeOK
    PROVE  /\ Len(hist) \in Nat \ {0} /\ Current = hist[Len(hist)]
           /\ \A i \in 1 .. Len(hist) : hist[i] \in Compositions
  BY DEF TypeOK, Current, Last

\* No two compositions have the same number, and the next number is that of the
\* next composition.
LEMMA NumbersDiffer ==
    ASSUME TypeOK, Numbered, NEW i \in 1 .. Len(hist), NEW j \in 1 .. Len(hist),
           hist[i].epoch = hist[j].epoch
    PROVE  /\ hist[i].seq = hist[j].seq => i = j
           /\ hist[j].seq = hist[i].seq + 1 => j = i + 1
<1>1. hist[i].seq \in Nat /\ hist[j].seq \in Nat
  BY CurrentFacts DEF Compositions
<1>2. CASE i <= j
  BY <1>1, <1>2 DEF Numbered
<1>3. CASE j <= i
  BY <1>1, <1>3 DEF Numbered
<1> QED
  BY <1>2, <1>3

\* The keeper's next composition.
Extends(c) ==
    /\ hist' = Append(hist, c) /\ c \in Compositions /\ Len(hist) < MaxHist
    /\ \/ c.epoch = Current.epoch /\ c.seq = Current.seq + 1
       \/ c.epoch = Current.epoch + 1 /\ c.seq = 0

\* A change of the list leaves the earlier compositions where they are.
LEMMA Extended ==
    ASSUME TypeOK, NEW c, Extends(c)
    PROVE  /\ hist' \in Seq(Compositions) /\ Len(hist') = Len(hist) + 1
           /\ Len(hist') \in 1 .. MaxHist
           /\ \A i \in 1 .. Len(hist) : hist'[i] = hist[i]
           /\ hist'[Len(hist) + 1] = c
<1>1. Len(hist) \in Nat
  BY CurrentFacts
<1>2. /\ hist' \in Seq(Compositions) /\ Len(hist') = Len(hist) + 1
      /\ \A i \in 1 .. Len(hist) : hist'[i] = hist[i]
      /\ hist'[Len(hist) + 1] = c
  BY DEF Extends, TypeOK
<1>3. Len(hist) + 1 \in 1 .. MaxHist
  BY <1>1, MirrorAssumption DEF Extends
<1> QED
  BY <1>2, <1>3

\* The keeper's numbering goes on.
LEMMA NumberedStep ==
    ASSUME TypeOK, Numbered, NEW c, Extends(c)
    PROVE  Numbered'
<1> DEFINE n == Len(hist)
<1>1. /\ n \in Nat \ {0} /\ Len(hist') = n + 1
      /\ \A i \in 1 .. n : hist'[i] = hist[i]
      /\ hist'[n + 1] = c
  BY CurrentFacts, Extended
<1>2. \A i \in 1 .. n : hist[i].epoch \in Nat /\ hist[i].seq \in Nat
  BY CurrentFacts DEF Compositions
<1>3. /\ c.epoch \in Nat /\ c.seq \in Nat
      /\ \/ c.epoch = hist[n].epoch /\ c.seq = hist[n].seq + 1
         \/ c.epoch = hist[n].epoch + 1 /\ c.seq = 0
  BY CurrentFacts DEF Extends, Compositions
<1>4. /\ \A i \in 1 .. n : hist[i].seq < i
      /\ \A i, j \in 1 .. n :
           i <= j => /\ hist[i].epoch <= hist[j].epoch
                     /\ hist[i].epoch = hist[j].epoch => hist[j].seq = hist[i].seq + (j - i)
  BY DEF Numbered
<1> HIDE DEF n
<1>5. \A i \in 1 .. n : /\ hist[i].epoch <= c.epoch
                        /\ hist[i].epoch = c.epoch => c.seq = hist[i].seq + (n + 1 - i)
  <2> TAKE i \in 1 .. n
  <2>1. n \in 1 .. n /\ i <= n
    BY <1>1
  <2>2. /\ hist[i].epoch <= hist[n].epoch
        /\ hist[i].epoch = hist[n].epoch => hist[n].seq = hist[i].seq + (n - i)
    BY <1>4, <2>1
  <2> QED
    BY <1>1, <1>2, <1>3, <2>1, <2>2
<1>6. c.seq < n + 1
  <2>1. n \in 1 .. n
    BY <1>1
  <2> QED
    BY <1>1, <1>2, <1>3, <1>4, <2>1
<1>7. \A i \in 1 .. n + 1 : i \in 1 .. n \/ i = n + 1
  BY <1>1
<1>8. \A i \in 1 .. n + 1 : hist'[i].seq < i
  BY <1>1, <1>4, <1>6, <1>7
<1>9. \A i, j \in 1 .. n + 1 :
        i <= j => /\ hist'[i].epoch <= hist'[j].epoch
                  /\ hist'[i].epoch = hist'[j].epoch => hist'[j].seq = hist'[i].seq + (j - i)
  <2> SUFFICES ASSUME NEW i \in 1 .. n + 1, NEW j \in 1 .. n + 1, i <= j
               PROVE  /\ hist'[i].epoch <= hist'[j].epoch
                      /\ hist'[i].epoch = hist'[j].epoch
                           => hist'[j].seq = hist'[i].seq + (j - i)
    OBVIOUS
  <2>1. CASE j \in 1 .. n
    <3>1. i \in 1 .. n
      BY <1>1, <2>1
    <3> QED
      BY <1>1, <1>4, <2>1, <3>1
  <2>2. CASE j = n + 1 /\ i \in 1 .. n
    BY <1>1, <1>5, <2>2
  <2>3. CASE j = n + 1 /\ i = n + 1
    BY <1>1, <1>3, <2>3
  <2> QED
    BY <1>7, <2>1, <2>2, <2>3
<1> QED
  BY <1>1, <1>8, <1>9 DEF Numbered

\* The history is only ever added to: packages stay true, and so does what the
\* set stands at.
LEMMA TrueStays ==
    ASSUME TypeOK, NEW p, TruePackage(hist, p), hist' = hist \/ \E c : Extends(c)
    PROVE  TruePackage(hist', p)
<1>1. CASE hist' = hist
  BY <1>1 DEF TruePackage, Leads
<1>2. ASSUME NEW c, Extends(c), p.kind = "package"
      PROVE  \E j \in 2 .. Len(hist') : Leads(hist', p, j)
  <2>1. PICK j \in 2 .. Len(hist) : Leads(hist, p, j)
    BY <1>2 DEF TruePackage
  <2>2. /\ Len(hist) \in Nat /\ Len(hist') = Len(hist) + 1
        /\ \A i \in 1 .. Len(hist) : hist'[i] = hist[i]
    BY <1>2, CurrentFacts, Extended
  <2>3. j \in 2 .. Len(hist') /\ hist'[j] = hist[j] /\ hist'[j - 1] = hist[j - 1]
    BY <2>2
  <2>4. Leads(hist', p, j)
    BY <2>1, <2>3 DEF Leads
  <2> QED
    BY <2>3, <2>4
<1> QED
  BY <1>1, <1>2 DEF TruePackage

(***************************************************************************)
(* The keeper's steps                                                      *)
(***************************************************************************)

\* A step of the keeper leaves the mirror alone: frames are added at the end.
LEMMA QuietMirror ==
    ASSUME IInv, NEW c, Extends(c), UNCHANGED <<st, misread, run>>,
           redis' \in [Seqs -> Objects], \A s \in Seqs : TruePackage(hist', redis'[s]),
           NEW f \in Frames, in' = in \/ in' = Append(in, f),
           f.op # "resync" => TruePackage(hist', f.inline)
    PROVE  IInv'
<1>1. /\ TypeOK /\ Numbered /\ Len(hist) \in Nat /\ Len(hist') = Len(hist) + 1
      /\ \A i \in 1 .. Len(hist) : hist'[i] = hist[i]
      /\ hist'[Len(hist) + 1] = c
  BY CurrentFacts, Extended DEF IInv
<1>2. TypeOK'
  <2>1. in' \in Seq(Frames)
    BY <1>1 DEF TypeOK
  <2> QED
    BY <1>1, <2>1, Extended DEF TypeOK
<1>3. Numbered'
  BY <1>1, NumberedStep
<1>4. \A p : TruePackage(hist, p) => TruePackage(hist', p)
  BY <1>1, TrueStays
<1>5. AllTrue'
  <2>1. run.pc = "apply" => \A i \in 1 .. Len(run.objs) : TruePackage(hist', run.objs[i])
    BY <1>4 DEF IInv, AllTrue
  <2>2. \A i \in 1 .. Len(in') : in'[i].op # "resync" => TruePackage(hist', in'[i].inline)
    <3>1. \A i \in 1 .. Len(in) : in[i].op # "resync" => TruePackage(hist', in[i].inline)
      BY <1>4 DEF IInv, AllTrue
    <3>2. CASE in' = in
      BY <3>1, <3>2
    <3>3. CASE in' = Append(in, f)
      <4>1. /\ Len(in) \in Nat /\ Len(in') = Len(in) + 1
            /\ \A i \in 1 .. Len(in) : in'[i] = in[i]
            /\ in'[Len(in) + 1] = f
        BY <1>1, <3>3 DEF TypeOK
      <4>2. \A i \in 1 .. Len(in') : i \in 1 .. Len(in) \/ i = Len(in) + 1
        BY <4>1
      <4> QED
        BY <3>1, <4>1, <4>2
    <3> QED
      BY <3>2, <3>3
  <2> QED
    BY <2>1, <2>2 DEF AllTrue
<1>6. \A i \in 1 .. Len(hist) : i \in 1 .. Len(hist') /\ (StandsAt(hist', st, i) <=> StandsAt(hist, st, i))
  BY <1>1 DEF StandsAt
<1>7. Standing'
  BY <1>1, <1>6 DEF IInv, Standing
<1>8. Newer'
  <2> SUFFICES ASSUME run.pc = "object"
               PROVE  \E i \in 1 .. Len(hist') :
                         /\ hist'[i] = run.ref
                         /\ \A j \in 1 .. Len(hist') : StandsAt(hist', st, j) => j <= i
    BY DEF Newer
  <2>1. PICK i \in 1 .. Len(hist) : /\ hist[i] = run.ref
                                   /\ \A j \in 1 .. Len(hist) : StandsAt(hist, st, j) => j <= i
    BY DEF IInv, Newer
  <2>2. ~StandsAt(hist', st, Len(hist) + 1)
    <3>1. PICK n : n = Len(hist) + 1
      OBVIOUS
    <3>2. ASSUME StandsAt(hist', st, n) PROVE FALSE
      <4>1. c.epoch = st.epoch /\ c.seq = st.seq
        BY <1>1, <3>1, <3>2 DEF StandsAt
      <4>2. st.epoch # 0
        BY <1>1, <4>1 DEF Extends, Compositions
      <4>3. PICK k \in 1 .. Len(hist) : StandsAt(hist, st, k)
        BY <4>2 DEF IInv, Standing, TypeOK, Sets
      <4>4. /\ n \in 1 .. Len(hist') /\ k \in 1 .. Len(hist')
            /\ hist'[n] = c /\ hist'[k] = hist[k]
        BY <1>1, <3>1
      <4>5. hist'[n].epoch = hist'[k].epoch /\ hist'[n].seq = hist'[k].seq
        BY <4>1, <4>3, <4>4 DEF StandsAt
      <4>6. n = k
        <5>1. /\ hist'[n].seq \in Nat
              /\ n <= k => hist'[k].seq = hist'[n].seq + (k - n)
              /\ k <= n => hist'[n].seq = hist'[k].seq + (n - k)
          BY <1>1, <1>3, <4>4, <4>5 DEF Numbered, Extends, Compositions
        <5> QED
          BY <1>1, <3>1, <4>5, <5>1
      <4> QED
        BY <1>1, <3>1, <4>3, <4>6
    <3>3. ~StandsAt(hist', st, n)
      BY <3>2
    <3> QED
      BY <3>1, <3>3, <1>1 DEF StandsAt
  <2> QED
    BY <1>1, <1>6, <2>1, <2>2
<1> QED
  BY <1>2, <1>3, <1>5, <1>7, <1>8 DEF IInv

\* Every step of the keeper keeps the invariant.
LEMMA KeeperStep ==
    ASSUME IInv,
           \/ \E op \in {"add", "remove"}, v \in Values, b \in BOOLEAN : KeeperChange(op, v, b)
           \/ KeeperRestart
    PROVE  IInv'
<1>1. /\ TypeOK /\ Len(hist) \in Nat \ {0} /\ Current = hist[Len(hist)]
      /\ Current \in Compositions /\ Current.seq < Len(hist)
  BY CurrentFacts DEF IInv, Numbered
<1>2. ASSUME NEW op \in {"add", "remove"}, NEW v \in Values, NEW b \in BOOLEAN,
             KeeperChange(op, v, b)
      PROVE  IInv'
  <2>1. PICK set : set = apply(Current.set, op, v)
    OBVIOUS
  <2>2. PICK seq : seq = Current.seq + 1
    OBVIOUS
  <2>3. PICK p : p = Package(Current.epoch, seq, op, v, set)
    OBVIOUS
  <2>4. PICK c : c = [epoch |-> Current.epoch, seq |-> seq, set |-> set]
    OBVIOUS
  <2>5. PICK f : f = [op |-> "diff", epoch |-> Current.epoch, seq |-> seq, hash |-> set,
                      inline |-> IF b THEN p ELSE Gone]
    OBVIOUS
  <2>6. /\ Len(hist) < MaxHist /\ hist' = Append(hist, c)
        /\ redis' = [redis EXCEPT ![seq] = p] /\ Deliver(f)
        /\ UNCHANGED <<st, misread, run>>
    BY <1>2, <2>1, <2>2, <2>3, <2>4, <2>5 DEF KeeperChange
  <2>7. set \in SUBSET Values /\ seq \in Seqs /\ seq \in 0 .. MaxHist /\ seq \in Nat
        /\ Current.epoch \in Nat \ {0}
    BY <1>1, <2>1, <2>2, <2>6, MirrorAssumption DEF apply, Seqs, Compositions
  <2>8. p \in Packages /\ c \in Compositions
    BY <2>3, <2>4, <2>7 DEF Package, Packages, Compositions
  <2>9. f \in Frames /\ f.op = "diff" /\ f.inline \in {p, Gone}
    BY <2>5, <2>7, <2>8 DEF Frames, Objects
  <2>10. Extends(c)
    BY <2>2, <2>4, <2>6, <2>8 DEF Extends
  <2>11. /\ Len(hist') = Len(hist) + 1 /\ hist'[Len(hist) + 1] = c
         /\ \A i \in 1 .. Len(hist) : hist'[i] = hist[i]
    BY <1>1, <2>10, Extended
  <2>12. TruePackage(hist', p)
    <3>1. PICK j : j = Len(hist) + 1
      OBVIOUS
    <3>2. /\ j \in 2 .. Len(hist') /\ hist'[j] = c /\ hist'[j - 1] = Current
      BY <1>1, <2>11, <3>1
    <3>3. /\ p.epoch = Current.epoch /\ p.seq = seq /\ p.op = op /\ p.value = v
          /\ c.epoch = Current.epoch /\ c.seq = seq /\ c.set = set
      BY <2>3, <2>4 DEF Package
    <3>4. Leads(hist', p, j)
      BY <2>1, <3>2, <3>3 DEF Leads
    <3> QED
      BY <3>2, <3>4 DEF TruePackage
  <2>13. \A s \in Seqs : TruePackage(hist', redis'[s])
    <3> TAKE s \in Seqs
    <3>1. TruePackage(hist', redis[s])
      BY <1>1, <2>10, TrueStays DEF IInv, AllTrue
    <3>2. redis'[s] = p \/ redis'[s] = redis[s]
      BY <1>1, <2>6 DEF TypeOK
    <3> QED
      BY <2>12, <3>1, <3>2
  <2>14. redis' \in [Seqs -> Objects]
    BY <1>1, <2>6, <2>8 DEF TypeOK, Objects
  <2>15. f.op # "resync" => TruePackage(hist', f.inline)
    BY <2>9, <2>12 DEF TruePackage, Gone
  <2>16. in' = in \/ in' = Append(in, f)
    BY <2>6 DEF Deliver
  <2> QED
    BY <2>6, <2>9, <2>10, <2>13, <2>14, <2>15, <2>16, QuietMirror
<1>3. CASE KeeperRestart
  <2>1. PICK s \in {Current.set, {}} :
          hist' = Append(hist, [epoch |-> Current.epoch + 1, seq |-> 0, set |-> s])
    BY <1>3 DEF KeeperRestart
  <2>2. PICK c : c = [epoch |-> Current.epoch + 1, seq |-> 0, set |-> s]
    OBVIOUS
  <2>3. c \in Compositions
    BY <1>1, <2>2 DEF Compositions
  <2>4. Extends(c) /\ UNCHANGED <<redis, in, st, misread, run>>
    BY <1>3, <2>1, <2>2, <2>3 DEF KeeperRestart, Extends
  <2>5. \A s1 \in Seqs : TruePackage(hist', redis'[s1])
    BY <1>1, <2>4, TrueStays DEF IInv, AllTrue
  <2>6. [op |-> "resync"] \in Frames /\ redis' \in [Seqs -> Objects]
    BY <1>1, <2>4 DEF Frames, TypeOK
  <2> QED
    BY <2>4, <2>5, <2>6, QuietMirror
<1> QED
  BY <1>2, <1>3

(***************************************************************************)
(* The mirror's steps                                                      *)
(***************************************************************************)

\* What verify may do: go on, stop, or ask for a snapshot.
LEMMA VerifyRuns ==
    ASSUME NEW s, NEW want, NEW good
    PROVE  verify(s, want, good) \in {good, Idle, [pc |-> "snapshot"]}
  BY DEF verify

\* applyPackage takes the set to the keeper's next composition, or leaves it
\* alone and asks for a snapshot.
Advances(i) ==
    /\ StandsAt(hist, st, i) /\ i + 1 \in 1 .. Len(hist) /\ StandsAt(hist, st', i + 1)
    /\ st'.ready = st.ready
    /\ hist[i].set = st.comp => hist[i + 1].set = st'.comp

\* applyPackage on a ready set: the set stays, or takes exactly the next change.
LEMMA ApplyStep ==
    ASSUME IInv, st.ready, NEW p \in Objects, TruePackage(hist, p),
           NEW want, want = st.seq + 1, NEW good,
           applyPackage(p, want, good)
    PROVE  /\ st' \in Sets
           /\ run' \in {good, Idle, [pc |-> "snapshot"]}
           /\ st' = st \/ \E i \in 1 .. Len(hist) : Advances(i)
<1>1. CASE p.kind # "package" \/ p.epoch # st.epoch \/ p.seq # want
  BY <1>1 DEF applyPackage, IInv, TypeOK
<1>2. CASE ~(p.kind # "package" \/ p.epoch # st.epoch \/ p.seq # want)
  <2>1. PICK s : s = [st EXCEPT !.comp = apply(@, p.op, p.value), !.seq = p.seq]
    OBVIOUS
  <2>2. st' = s /\ run' = verify(s, p.hash, good)
    BY <1>2, <2>1 DEF applyPackage
  <2>3. p \in Packages /\ p.kind = "package" /\ p.epoch = st.epoch /\ p.seq = st.seq + 1
    BY <1>2 DEF Objects, Gone, Malformed, Packages
  <2>4. st \in Sets /\ st.epoch \in Nat /\ st.seq \in Nat
    BY DEF IInv, TypeOK, Sets
  <2>5. /\ s \in Sets /\ s.epoch = st.epoch /\ s.seq = st.seq + 1 /\ s.ready = st.ready
        /\ s.comp = apply(st.comp, p.op, p.value)
    <3>1. apply(st.comp, p.op, p.value) \in SUBSET Values
      BY <2>3, <2>4 DEF apply, Packages, Sets
    <3>2. PICK a : a = apply(st.comp, p.op, p.value)
      OBVIOUS
    <3>3. PICK n : n = st.seq + 1
      OBVIOUS
    <3>4. s = [st EXCEPT !.comp = a, !.seq = n]
      BY <2>1, <2>3, <2>4, <3>2, <3>3 DEF Sets
    <3>5. a \in SUBSET Values /\ n \in Nat
      BY <2>4, <3>1, <3>2, <3>3
    <3>6. s \in Sets /\ s.epoch = st.epoch /\ s.seq = n /\ s.ready = st.ready /\ s.comp = a
      BY <2>4, <3>4, <3>5 DEF Sets
    <3> QED
      BY <3>2, <3>3, <3>6
  <2>6. PICK j \in 2 .. Len(hist) : Leads(hist, p, j)
    BY <2>3 DEF TruePackage
  <2>7. PICK i \in 1 .. Len(hist) : StandsAt(hist, st, i)
    BY DEF IInv, Standing
  <2>8. j = i + 1
    <3>1. TypeOK /\ Numbered /\ Len(hist) \in Nat /\ j \in 1 .. Len(hist)
      BY CurrentFacts DEF IInv
    <3>2. hist[i].epoch = hist[j].epoch /\ hist[j].seq = hist[i].seq + 1
      BY <2>3, <2>6, <2>7 DEF Leads, StandsAt
    <3> QED
      BY <3>1, <3>2, NumbersDiffer
  <2>9. Advances(i)
    <3>1. j \in 1 .. Len(hist) /\ j - 1 = i
      BY <2>8, CurrentFacts DEF IInv
    <3> QED
      BY <2>2, <2>3, <2>5, <2>6, <2>7, <2>8, <3>1 DEF Advances, StandsAt, Leads
  <2> QED
    BY <2>2, <2>5, <2>9, VerifyRuns
<1> QED
  BY <1>1, <1>2

\* The goroutine's steps within one composition or to the next, and those of
\* NATS and Redis around it.
SameStand == /\ st'.ready = st.ready /\ st'.epoch = st.epoch
             /\ st'.seq = st.seq /\ st'.comp = st.comp

\* A step of the mirror keeps the invariant when the set stays or advances and
\* what is on its way are true packages.
LEMMA MirrorFrame ==
    ASSUME IInv, UNCHANGED <<hist, misread>>,
           redis' \in [Seqs -> Objects], \A s \in Seqs : TruePackage(hist, redis'[s]),
           in' \in Seq(Frames),
           \A i \in 1 .. Len(in') : in'[i].op # "resync" => TruePackage(hist, in'[i].inline),
           st' \in Sets, SameStand \/ (st.ready /\ \E i \in 1 .. Len(hist) : Advances(i)),
           run' \in Runs,
           run'.pc = "object" => st' = st /\ (run' = run \/ run'.ref = Current),
           run'.pc \in {"read", "apply"} => st.ready,
           run'.pc = "apply" => \A i \in 1 .. Len(run'.objs) : TruePackage(hist, run'.objs[i])
    PROVE  IInv'
<1>1. TypeOK' /\ Numbered' /\ AllTrue'
  BY DEF IInv, TypeOK, Numbered, AllTrue
<1>2. Standing'
  <2>1. CASE SameStand
    BY <2>1 DEF IInv, Standing, SameStand, StandsAt
  <2>2. ASSUME st.ready, NEW i \in 1 .. Len(hist), Advances(i) PROVE Standing'
    <3>1. ~misread => hist[i].set = st.comp
      <4>1. PICK k \in 1 .. Len(hist) : StandsAt(hist, st, k) /\ (~misread => hist[k].set = st.comp)
        BY <2>2 DEF IInv, Standing
      <4>2. hist[i].epoch = hist[k].epoch /\ hist[i].seq = hist[k].seq
        BY <2>2, <4>1 DEF Advances, StandsAt
      <4>3. i = k
        BY <2>2, <4>2, NumbersDiffer DEF IInv
      <4> QED
        BY <4>1, <4>3
    <3> QED
      BY <2>2, <3>1 DEF Advances, Standing
  <2> QED
    BY <2>1, <2>2
<1>3. Newer'
  <2>1. CASE run'.pc = "object" /\ run' = run
    BY <2>1 DEF IInv, Newer
  <2>2. CASE run'.pc = "object" /\ run'.ref = Current
    <3>1. Len(hist) \in 1 .. Len(hist) /\ hist[Len(hist)] = Current
      BY CurrentFacts DEF IInv
    <3> QED
      BY <2>2, <3>1 DEF Newer
  <2> QED
    BY <2>1, <2>2 DEF Newer
<1> QED
  BY <1>1, <1>2, <1>3 DEF IInv

\* A frame that leaves the buffer leaves the others in it.
LEMMA TailFacts ==
    ASSUME TypeOK, AllTrue, in # <<>>
    PROVE  /\ Head(in) \in Frames
           /\ Head(in).op # "resync" => TruePackage(hist, Head(in).inline)
           /\ Tail(in) \in Seq(Frames)
           /\ \A i \in 1 .. Len(Tail(in)) :
                Tail(in)[i].op # "resync" => TruePackage(hist, Tail(in)[i].inline)
<1>1. /\ Len(in) \in Nat \ {0} /\ Head(in) = in[1] /\ Tail(in) \in Seq(Frames)
      /\ Len(Tail(in)) = Len(in) - 1
      /\ \A i \in 1 .. Len(in) - 1 : Tail(in)[i] = in[i + 1]
      /\ \A i \in 1 .. Len(in) : in[i] \in Frames
  BY DEF TypeOK
<1>2. 1 \in 1 .. Len(in)
  BY <1>1
<1>3. \A i \in 1 .. Len(in) - 1 : i + 1 \in 1 .. Len(in)
  BY <1>1
<1> QED
  BY <1>1, <1>2, <1>3 DEF AllTrue

\* And one that enters it joins the others.
LEMMA AppendFacts ==
    ASSUME TypeOK, AllTrue, NEW f \in Frames, f.op # "resync" => TruePackage(hist, f.inline),
           in' = in \/ in' = Append(in, f)
    PROVE  /\ in' \in Seq(Frames)
           /\ \A i \in 1 .. Len(in') :
                in'[i].op # "resync" => TruePackage(hist, in'[i].inline)
<1>1. CASE in' = in
  BY <1>1 DEF TypeOK, AllTrue
<1>2. CASE in' = Append(in, f)
  <2>1. /\ Len(in) \in Nat /\ Len(in') = Len(in) + 1 /\ in' \in Seq(Frames)
        /\ \A i \in 1 .. Len(in) : in'[i] = in[i]
        /\ in'[Len(in) + 1] = f
    BY <1>2 DEF TypeOK
  <2>2. \A i \in 1 .. Len(in') : i \in 1 .. Len(in) \/ i = Len(in) + 1
    BY <2>1
  <2> QED
    BY <2>1, <2>2 DEF AllTrue
<1> QED
  BY <1>1, <1>2

\* NATS and Redis around the mirror: ticks, evictions, the set's own frames.
LEMMA AroundStep ==
    ASSUME IInv, KeeperTick \/ Resync \/ \E s \in Seqs : Evict(s)
    PROVE  IInv'
<1>1. /\ TypeOK /\ AllTrue /\ redis \in [Seqs -> Objects] /\ in \in Seq(Frames)
      /\ st \in Sets /\ run \in Runs
      /\ run.pc \in {"read", "apply"} => st.ready
      /\ run.pc = "apply" => \A i \in 1 .. Len(run.objs) : TruePackage(hist, run.objs[i])
      /\ \A s \in Seqs : TruePackage(hist, redis[s])
      /\ \A i \in 1 .. Len(in) : in[i].op # "resync" => TruePackage(hist, in[i].inline)
  BY DEF IInv, TypeOK, Standing, AllTrue
<1>2. ASSUME NEW f \in Frames, f.op # "resync" => TruePackage(hist, f.inline),
             in' = in \/ in' = Append(in, f), UNCHANGED <<hist, redis, st, misread, run>>
      PROVE  IInv'
  <2>1. /\ in' \in Seq(Frames)
        /\ \A i \in 1 .. Len(in') : in'[i].op # "resync" => TruePackage(hist, in'[i].inline)
    BY <1>1, <1>2, AppendFacts
  <2> QED
    BY <1>1, <1>2, <2>1, MirrorFrame DEF SameStand
<1>3. CASE KeeperTick
  <2>1. PICK f : f = Frame("tick", Gone)
    OBVIOUS
  <2>2. Current.epoch \in Nat /\ Current.seq \in 0 .. MaxHist /\ Current.set \in SUBSET Values
    <3>1. /\ Current \in Compositions /\ Current.seq < Len(hist) /\ Len(hist) \in 1 .. MaxHist
      BY CurrentFacts DEF IInv, Numbered, TypeOK
    <3> QED
      BY <3>1, MirrorAssumption DEF Compositions
  <2>3. f \in Frames /\ f.inline = Gone
    BY <2>1, <2>2 DEF Frame, Frames, Objects
  <2>4. TruePackage(hist, f.inline)
    BY <2>3 DEF TruePackage, Gone
  <2> QED
    BY <1>2, <1>3, <2>1, <2>3, <2>4 DEF KeeperTick, Deliver
<1>4. CASE Resync
  <2>1. [op |-> "resync"] \in Frames
    BY DEF Frames
  <2> QED
    BY <1>2, <1>4, <2>1 DEF Resync
<1>5. ASSUME NEW s \in Seqs, Evict(s) PROVE IInv'
  <2>1. PICK o \in {Gone, Malformed} : redis' = [redis EXCEPT ![s] = o]
    BY <1>5 DEF Evict
  <2>2. TruePackage(hist, o) /\ o \in Objects
    BY DEF TruePackage, Gone, Malformed, Objects
  <2>3. redis' \in [Seqs -> Objects] /\ \A i \in Seqs : TruePackage(hist, redis'[i])
    BY <1>1, <2>1, <2>2
  <2> QED
    BY <1>1, <1>5, <2>3, MirrorFrame DEF Evict, SameStand
<1> QED
  BY <1>3, <1>4, <1>5

\* The goroutine's next stops that need no proof of their own.
LEMMA PlainRuns ==
    ASSUME NEW want \in SUBSET Values, NEW upto \in 0 .. MaxHist
    PROVE  /\ Idle \in Runs /\ Idle.pc = "idle"
           /\ [pc |-> "snapshot"] \in Runs
           /\ [pc |-> "read", upto |-> upto, want |-> want] \in Runs
  BY DEF Runs, Idle

\* onFrame keeps the invariant.
LEMMA OnFrameStep ==
    ASSUME IInv, OnFrame
    PROVE  IInv'
<1>1. /\ TypeOK /\ AllTrue /\ redis \in [Seqs -> Objects] /\ st \in Sets /\ run = Idle
      /\ in # <<>> /\ in' = Tail(in) /\ UNCHANGED <<hist, redis, misread>>
      /\ \A s \in Seqs : TruePackage(hist, redis[s])
  BY DEF IInv, TypeOK, AllTrue, OnFrame, keeper
<1>2. PICK f : f = Head(in)
  OBVIOUS
<1>3. /\ f \in Frames /\ (f.op # "resync" => TruePackage(hist, f.inline))
      /\ in' \in Seq(Frames)
      /\ \A i \in 1 .. Len(in') : in'[i].op # "resync" => TruePackage(hist, in'[i].inline)
  BY <1>1, <1>2, TailFacts
<1>4. ASSUME st' \in Sets, SameStand \/ (st.ready /\ \E i \in 1 .. Len(hist) : Advances(i)),
             run' \in Runs, run'.pc \notin {"object", "apply"},
             run'.pc = "read" => st.ready
      PROVE  IInv'
  BY <1>1, <1>3, <1>4, MirrorFrame
<1>5. /\ Idle \in Runs /\ Idle.pc = "idle" /\ [pc |-> "snapshot"] \in Runs
  BY DEF Runs, Idle
<1>6. CASE ~st.ready /\ run' = [pc |-> "snapshot"] /\ st' = st
  BY <1>1, <1>4, <1>5, <1>6 DEF SameStand
<1>7. CASE UNCHANGED <<st, run>>
  BY <1>1, <1>4, <1>5, <1>7 DEF SameStand
<1>8. CASE st' = [st EXCEPT !.snapBad = FALSE] /\ run' = [pc |-> "snapshot"]
  <2>1. st' \in Sets /\ SameStand
    BY <1>1, <1>8 DEF Sets, SameStand
  <2> QED
    BY <1>4, <1>5, <1>8, <2>1
<1>9. CASE st' = st /\ run' = verify(st, f.hash, Idle)
  <2>1. run' \in {Idle, [pc |-> "snapshot"]}
    BY <1>9, VerifyRuns
  <2> QED
    BY <1>1, <1>4, <1>5, <1>9, <2>1 DEF SameStand
<1>10. CASE /\ st.ready /\ f.op # "resync" /\ f.seq = st.seq + 1
            /\ applyPackage(f.inline, f.seq, Idle)
  <2>1. f.inline \in Objects /\ TruePackage(hist, f.inline)
    BY <1>3, <1>10 DEF Frames
  <2>2. /\ st' \in Sets /\ run' \in {Idle, [pc |-> "snapshot"]}
        /\ st' = st \/ \E i \in 1 .. Len(hist) : Advances(i)
    BY <1>10, <2>1, ApplyStep
  <2>3. st' = st => SameStand
    BY DEF SameStand
  <2>4. run' \in Runs /\ run'.pc \notin {"object", "apply", "read"}
    BY <1>5, <2>2
  <2> QED
    BY <1>4, <1>10, <2>2, <2>3, <2>4
<1>11. CASE /\ st.ready /\ f.op # "resync" /\ st' = st
            /\ run' = [pc |-> "read", upto |-> f.seq, want |-> f.hash]
  <2>1. f.seq \in 0 .. MaxHist /\ f.hash \in SUBSET Values
    BY <1>3, <1>11 DEF Frames
  <2>2. run' \in Runs /\ run'.pc = "read"
    BY <1>11, <2>1 DEF Runs
  <2> QED
    BY <1>1, <1>4, <1>11, <2>2 DEF SameStand
<1> QED
  BY <1>2, <1>6, <1>7, <1>8, <1>9, <1>10, <1>11 DEF OnFrame

\* catchUp keeps the invariant: what it reads are packages of the keeper.
LEMMA CatchUpStep ==
    ASSUME IInv, CatchUpRead \/ CatchUpApply
    PROVE  IInv'
<1>1. /\ TypeOK /\ AllTrue /\ redis \in [Seqs -> Objects] /\ st \in Sets
      /\ in \in Seq(Frames) /\ UNCHANGED <<hist, redis, in, misread>>
      /\ run.pc \in {"read", "apply"} /\ st.ready
      /\ \A s \in Seqs : TruePackage(hist, redis[s])
      /\ \A i \in 1 .. Len(in) : in[i].op # "resync" => TruePackage(hist, in[i].inline)
  BY DEF IInv, TypeOK, AllTrue, Standing, CatchUpRead, CatchUpApply
<1>2. ASSUME st' \in Sets, SameStand \/ \E i \in 1 .. Len(hist) : Advances(i),
             run' \in Runs, run'.pc # "object",
             run'.pc = "apply" => \A i \in 1 .. Len(run'.objs) : TruePackage(hist, run'.objs[i])
      PROVE  IInv'
  BY <1>1, <1>2, MirrorFrame
<1>3. /\ run.upto \in 0 .. MaxHist /\ run.want \in SUBSET Values
      /\ st.seq \in Nat
  BY <1>1 DEF TypeOK, Runs, Idle, Sets
<1>4. /\ Idle \in Runs /\ Idle.pc = "idle" /\ [pc |-> "snapshot"] \in Runs
      /\ [pc |-> "read", upto |-> run.upto, want |-> run.want] \in Runs
  BY <1>3, PlainRuns
<1>5. CASE CatchUpRead
  <2>1. st' = st /\ st' \in Sets /\ SameStand
    BY <1>1, <1>5 DEF CatchUpRead, SameStand
  <2>2. CASE run' = verify(st, run.want, Idle)
    <3>1. run' \in {Idle, [pc |-> "snapshot"]}
      BY <2>2, VerifyRuns
    <3> QED
      BY <1>2, <1>4, <2>1, <3>1
  <2>3. CASE run' = Idle
    BY <1>2, <1>4, <2>1, <2>3
  <2>4. ASSUME NEW n, n = Lower(run.upto - st.seq, PackagesPerRead), st.seq < run.upto,
               NEW objs, objs = [i \in 1 .. n |-> redis[st.seq + i]],
               run' = [pc |-> "apply", upto |-> run.upto, want |-> run.want, objs |-> objs]
        PROVE  IInv'
    <3>1. n \in Nat \ {0} /\ st.seq + n <= run.upto
      BY <1>3, <2>4, MirrorAssumption DEF Lower
    <3>2. \A i \in 1 .. n : st.seq + i \in Seqs
      BY <1>3, <3>1, MirrorAssumption DEF Seqs
    <3>3. \A i \in 1 .. n : objs[i] \in Objects /\ TruePackage(hist, objs[i])
      BY <1>1, <2>4, <3>2
    <3>4. objs \in Seq(Objects) /\ Len(objs) = n
      BY <2>4, <3>1, <3>3
    <3>5. objs # <<>>
      BY <3>1, <3>4
    <3>6. run' \in Runs /\ run'.pc = "apply" /\ run'.objs = objs
      BY <1>3, <2>4, <3>4, <3>5 DEF Runs
    <3> QED
      BY <1>2, <2>1, <3>3, <3>4, <3>6
  <2> QED
    BY <1>5, <2>2, <2>3, <2>4 DEF CatchUpRead
<1>6. CASE CatchUpApply
  <2>1. PICK objs : objs = run.objs
    OBVIOUS
  <2>2. /\ objs \in Seq(Objects) /\ objs # <<>> /\ run.pc = "apply"
        /\ \A i \in 1 .. Len(objs) : TruePackage(hist, objs[i])
    BY <1>1, <1>6, <2>1 DEF TypeOK, Runs, Idle, AllTrue, CatchUpApply
  <2>3. /\ Len(objs) \in Nat \ {0} /\ Head(objs) = objs[1] /\ objs[1] \in Objects
        /\ Tail(objs) \in Seq(Objects) /\ Len(Tail(objs)) = Len(objs) - 1
        /\ \A i \in 1 .. Len(objs) - 1 : Tail(objs)[i] = objs[i + 1]
    BY <2>2
  <2>4. TruePackage(hist, Head(objs)) /\ Head(objs) \in Objects
    <3>1. 1 \in 1 .. Len(objs)
      BY <2>3
    <3> QED
      BY <2>2, <2>3, <3>1
  <2>5. \A i \in 1 .. Len(Tail(objs)) : TruePackage(hist, Tail(objs)[i])
    <3>1. \A i \in 1 .. Len(objs) - 1 : i + 1 \in 1 .. Len(objs)
      BY <2>3
    <3> QED
      BY <2>2, <2>3, <3>1
  <2>6. PICK rest : rest = Tail(objs)
    OBVIOUS
  <2>7. PICK good : good = IF rest = <<>>
                           THEN [pc |-> "read", upto |-> run.upto, want |-> run.want]
                           ELSE [run EXCEPT !.objs = rest]
    OBVIOUS
  <2>8. applyPackage(Head(objs), st.seq + 1, good)
    BY <1>6, <2>1, <2>6, <2>7 DEF CatchUpApply
  <2>9. /\ st' \in Sets /\ run' \in {good, Idle, [pc |-> "snapshot"]}
        /\ st' = st \/ \E i \in 1 .. Len(hist) : Advances(i)
    BY <1>1, <2>4, <2>8, ApplyStep
  <2>10. /\ good \in Runs /\ good.pc \in {"read", "apply"}
         /\ good.pc = "apply" => \A i \in 1 .. Len(good.objs) : TruePackage(hist, good.objs[i])
    <3>1. CASE rest = <<>>
      BY <1>4, <2>7, <3>1
    <3>2. CASE rest # <<>>
      <4>1. good = [run EXCEPT !.objs = rest]
        BY <2>7, <3>2
      <4>2. run \in [pc : {"apply"}, upto : 0 .. MaxHist, want : SUBSET Values,
                     objs : Seq(Objects) \ {<<>>}]
        BY <1>1, <2>2 DEF TypeOK, Runs, Idle
      <4>3. good \in Runs /\ good.objs = rest
        BY <2>3, <2>6, <3>2, <4>1, <4>2 DEF Runs
      <4> QED
        BY <2>5, <2>6, <4>1, <4>2, <4>3
    <3> QED
      BY <3>1, <3>2
  <2>11. st' = st => SameStand
    BY DEF SameStand
  <2> QED
    BY <1>2, <1>4, <2>9, <2>10, <2>11
<1> QED
  BY <1>5, <1>6

\* The snapshot is the keeper's composition of the moment it was asked.
LEMMA SnapshotStep ==
    ASSUME IInv, SnapshotRequest \/ SnapshotObject
    PROVE  IInv'
<1>1. /\ TypeOK /\ AllTrue /\ redis \in [Seqs -> Objects] /\ st \in Sets
      /\ in \in Seq(Frames) /\ UNCHANGED <<hist, redis, in>>
      /\ \A s \in Seqs : TruePackage(hist, redis[s])
      /\ \A i \in 1 .. Len(in) : in[i].op # "resync" => TruePackage(hist, in[i].inline)
  BY DEF IInv, TypeOK, AllTrue, SnapshotRequest, SnapshotObject
<1>2. Idle \in Runs /\ Idle.pc = "idle"
  BY DEF Runs, Idle
<1>3. CASE SnapshotRequest
  <2>1. run' = [pc |-> "object", ref |-> Current] \/ run' = Idle
    BY <1>3 DEF SnapshotRequest
  <2>2. Current \in Compositions
    BY <1>1, CurrentFacts
  <2>3. run' \in Runs /\ run'.pc \notin {"read", "apply"}
        /\ (run'.pc = "object" => run'.ref = Current)
    BY <1>2, <2>1, <2>2 DEF Runs
  <2> QED
    BY <1>1, <1>3, <2>3, MirrorFrame DEF SnapshotRequest, SameStand
<1>4. ASSUME UNCHANGED <<st, misread>>, run' = Idle PROVE IInv'
  BY <1>1, <1>2, <1>4, MirrorFrame DEF SameStand
<1>5. ASSUME NEW set, NEW bad \in BOOLEAN, SnapshotObject, Snapshot(run.ref, set, bad),
             set \in SUBSET run.ref.set, bad = FALSE => set = run.ref.set
      PROVE  IInv'
  <2>1. run.pc = "object" /\ run' = Idle
    BY <1>5 DEF SnapshotObject
  <2>2. PICK i \in 1 .. Len(hist) : hist[i] = run.ref
    BY <2>1 DEF IInv, Newer
  <2>3. hist[i] \in Compositions
    BY <1>1, CurrentFacts
  <2>4. /\ st' = [ready |-> TRUE, epoch |-> hist[i].epoch, seq |-> hist[i].seq,
                  comp |-> set, snapBad |-> bad]
        /\ misread' = bad
    BY <1>5, <2>2 DEF Snapshot
  <2>5. set \in SUBSET Values
    BY <1>5, <2>2, <2>3 DEF Compositions
  <2>6. TypeOK'
    BY <1>1, <1>2, <2>1, <2>3, <2>4, <2>5 DEF TypeOK, Sets, Compositions
  <2>7. /\ st'.ready /\ StandsAt(hist, st', i)
        /\ ~misread' => hist[i].set = st'.comp
    BY <1>5, <2>2, <2>4 DEF StandsAt
  <2>8. Standing'
    BY <1>1, <2>7 DEF Standing
  <2>9. Numbered' /\ AllTrue' /\ Newer'
    BY <1>1, <1>2, <2>1 DEF IInv, Numbered, AllTrue, Newer
  <2> QED
    BY <2>6, <2>8, <2>9 DEF IInv
<1>6. CASE SnapshotObject
  <2>1. \/ Snapshot(run.ref, run.ref.set, FALSE)
        \/ \E v \in run.ref.set : Snapshot(run.ref, run.ref.set \ {v}, TRUE)
        \/ UNCHANGED <<st, misread>>
    BY <1>6 DEF SnapshotObject
  <2>2. run' = Idle
    BY <1>6 DEF SnapshotObject
  <2> QED
    BY <1>4, <1>5, <1>6, <2>1, <2>2
<1> QED
  BY <1>3, <1>6

\* Every step keeps the invariant.
LEMMA IInvStep ==
    ASSUME IInv, [Next]_vars
    PROVE  IInv'
<1>1. CASE UNCHANGED vars
  BY <1>1 DEF vars, IInv, TypeOK, Numbered, AllTrue, Standing, Newer
<1> QED
  BY <1>1, KeeperStep, AroundStep, OnFrameStep, CatchUpStep, SnapshotStep DEF Next

\* At the start the keeper has an empty list and the mirror nothing.
LEMMA IInvInit ==
    ASSUME Init
    PROVE  IInv
<1>1. PICK c : c = [epoch |-> 1, seq |-> 0, set |-> {}]
  OBVIOUS
<1>2. c \in Compositions
  BY <1>1 DEF Compositions
<1>3. hist = <<c>> /\ Len(hist) = 1 /\ hist[1] = c /\ hist \in Seq(Compositions)
  BY <1>1, <1>2 DEF Init
<1>4. Gone \in Objects /\ TruePackage(hist, Gone)
  BY DEF Objects, TruePackage, Gone
<1>5. TypeOK
  <2>1. NotYet \in Sets /\ [pc |-> "snapshot"] \in Runs
    BY DEF NotYet, Sets, Runs
  <2>2. redis \in [Seqs -> Objects] /\ in \in Seq(Frames)
    BY <1>4 DEF Init
  <2>3. Len(hist) \in 1 .. MaxHist
    BY <1>3, MirrorAssumption
  <2> QED
    BY <1>3, <2>1, <2>2, <2>3 DEF Init, TypeOK
<1>6. Numbered
  BY <1>1, <1>3 DEF Numbered
<1>7. AllTrue /\ Standing /\ Newer
  BY <1>4 DEF Init, AllTrue, Standing, Newer, NotYet
<1> QED
  BY <1>5, <1>6, <1>7 DEF IInv

\* The invariant holds throughout every behaviour of keeper, NATS, Redis and
\* mirror.
THEOREM Invariance == Spec => []IInv
<1>1. Init => IInv
  BY IInvInit
<1>2. IInv /\ [Next]_vars => IInv'
  BY IInvStep
<1> QED
  BY <1>1, <1>2, PTL DEF Spec

\* verify and applyPackage: a mirror that answers holds the composition that
\* the keeper had at that epoch and seq, whatever was lost in between.
THEOREM MirrorIsSound == Spec => []MirrorSound
<1>1. IInv => MirrorSound
  <2> SUFFICES ASSUME IInv, st.ready, ~misread
               PROVE  \E i \in DOMAIN hist :
                        hist[i] = [epoch |-> st.epoch, seq |-> st.seq, set |-> st.comp]
    BY DEF MirrorSound
  <2>1. PICK i \in 1 .. Len(hist) : StandsAt(hist, st, i) /\ hist[i].set = st.comp
    BY DEF IInv, Standing
  <2>2. hist[i] \in Compositions /\ DOMAIN hist = 1 .. Len(hist)
    BY CurrentFacts DEF IInv, TypeOK
  <2>3. hist[i] = [epoch |-> st.epoch, seq |-> st.seq, set |-> st.comp]
    BY <2>1, <2>2 DEF StandsAt, Compositions
  <2> QED
    BY <2>2, <2>3
<1> QED
  BY <1>1, Invariance, PTL

(***************************************************************************)
(* The mirror keeps the promise of PrefixMirror                            *)
(***************************************************************************)

\* The composition that the mirror answers with, as PrefixMirror numbers it.
ViewIs == /\ \A i \in 1 .. Len(hist) : StandsAt(hist, st, i) => ViewIndex = i
          /\ ~st.ready => ViewIndex = 1

\* The view is the composition on which the set stands.
LEMMA ViewFacts == IInv => ViewIs
<1> SUFFICES ASSUME IInv PROVE ViewIs
  OBVIOUS
<1> DEFINE At == {i \in DOMAIN hist : hist[i].epoch = st.epoch /\ hist[i].seq = st.seq}
<1>1. /\ DOMAIN hist = 1 .. Len(hist)
      /\ ViewIndex = IF At = {} THEN 1 ELSE CHOOSE i \in At : TRUE
  BY DEF IInv, TypeOK, ViewIndex
<1>2. ASSUME NEW i \in 1 .. Len(hist), StandsAt(hist, st, i) PROVE ViewIndex = i
  <2>1. \A j \in At : j = i
    BY <1>1, <1>2, NumbersDiffer DEF IInv, StandsAt
  <2>2. i \in At
    BY <1>1, <1>2 DEF StandsAt
  <2> HIDE DEF At
  <2> QED
    BY <1>1, <2>1, <2>2
<1>3. ASSUME ~st.ready PROVE ViewIndex = 1
  <2>1. st.epoch = 0 /\ \A i \in 1 .. Len(hist) : hist[i].epoch # 0
    BY <1>3, CurrentFacts DEF IInv, Standing, Compositions
  <2>2. At = {}
    BY <1>1, <2>1
  <2> HIDE DEF At
  <2> QED
    BY <1>1, <2>2
<1> QED
  BY <1>2, <1>3 DEF ViewIs

\* The keeper's steps are the list's.
LEMMA GrowRead ==
    ASSUME IInv, IInv', ViewIs, ViewIs', NEW c, Extends(c), UNCHANGED <<st, misread>>
    PROVE  Prefix!Grow
<1>1. /\ Len(hist) \in Nat /\ Len(hist') = Len(hist) + 1 /\ hist'[Len(hist) + 1] = c
      /\ \A i \in 1 .. Len(hist) : hist'[i] = hist[i]
      /\ DOMAIN hist = 1 .. Len(hist) /\ DOMAIN hist' = 1 .. Len(hist')
      /\ \A i \in 1 .. Len(hist) : hist[i].set \in SUBSET Values
      /\ c.set \in SUBSET Values
  BY CurrentFacts, Extended DEF IInv, TypeOK, Extends, Compositions
<1>2. ViewIndex' = ViewIndex
  <2>1. CASE ~st.ready
    BY <2>1 DEF ViewIs
  <2>2. CASE st.ready
    <3>1. PICK i \in 1 .. Len(hist) : StandsAt(hist, st, i)
      BY <2>2 DEF IInv, Standing
    <3>2. i \in 1 .. Len(hist') /\ StandsAt(hist', st', i)
      BY <1>1, <3>1 DEF StandsAt
    <3> QED
      BY <3>1, <3>2 DEF ViewIs
  <2> QED
    BY <2>1, <2>2
<1>3. [i \in DOMAIN hist' |-> hist'[i].set]
        = Append([i \in DOMAIN hist |-> hist[i].set], c.set)
  <2> DEFINE G == [i \in 1 .. Len(hist) |-> hist[i].set]
  <2>1. G \in Seq(SUBSET Values) /\ Len(G) = Len(hist)
    BY <1>1
  <2>2. /\ Append(G, c.set) = [i \in 1 .. Len(hist) + 1 |->
                                IF i = Len(hist) + 1 THEN c.set ELSE G[i]]
    <3> HIDE DEF G
    <3> QED
      BY <1>1, <2>1
  <2>3. [i \in DOMAIN hist' |-> hist'[i].set]
          = [i \in 1 .. Len(hist) + 1 |-> IF i = Len(hist) + 1 THEN c.set ELSE G[i]]
    BY <1>1
  <2> QED
    BY <1>1, <2>2, <2>3
<1> QED
  BY <1>1, <1>2, <1>3 DEF Prefix!Grow

\* A package or a snapshot takes the mirror's view forward.
LEMMA FollowRead ==
    ASSUME IInv, IInv', ViewIs, ViewIs', hist' = hist,
           NEW i \in 1 .. Len(hist), StandsAt(hist, st', i), st'.ready,
           ViewIndex <= i
    PROVE  Prefix!Follow
<1>1. ViewIndex' = i
  BY DEF ViewIs
<1>2. DOMAIN hist = 1 .. Len(hist) /\ Len(hist) \in Nat
  BY DEF IInv, TypeOK
<1>3. ViewIndex \in Nat
  <2>1. CASE ~st.ready
    BY <2>1 DEF ViewIs
  <2>2. CASE st.ready
    BY <2>2 DEF ViewIs, IInv, Standing
  <2> QED
    BY <2>1, <2>2
<1>4. i \in ViewIndex .. Len([k \in DOMAIN hist |-> hist[k].set])
  <2>1. Len([k \in 1 .. Len(hist) |-> hist[k].set]) = Len(hist)
    BY <1>2
  <2> QED
    BY <1>2, <1>3, <2>1
<1>5. st'.comp \in SUBSET Values /\ misread' \in BOOLEAN
  BY DEF IInv, TypeOK, Sets
<1>6. ~misread' => st'.comp = hist[i].set
  <2> SUFFICES ASSUME ~misread' PROVE st'.comp = hist[i].set
    OBVIOUS
  <2>1. PICK k \in 1 .. Len(hist) : StandsAt(hist, st', k) /\ hist[k].set = st'.comp
    BY DEF IInv, Standing
  <2>2. k = i
    BY <2>1, <1>1 DEF ViewIs
  <2> QED
    BY <2>1, <2>2
<1>7. [k \in DOMAIN hist |-> hist[k].set][i] = hist[i].set
  BY <1>2
<1> QED
  BY <1>1, <1>4, <1>5, <1>6, <1>7 DEF Prefix!Follow

\* Steps that leave the set's composition alone are none of the promise.
LEMMA StutterRead ==
    ASSUME UNCHANGED <<hist, misread>>, SameStand
    PROVE  UNCHANGED Prefix!vars
<1>1. ViewIndex' = ViewIndex
  BY DEF ViewIndex, SameStand
<1> QED
  BY <1>1 DEF Prefix!vars, SameStand

\* A package takes the view one composition on.
LEMMA AdvanceRead ==
    ASSUME IInv, IInv', ViewIs, ViewIs', UNCHANGED <<hist, misread>>, st.ready,
           NEW i \in 1 .. Len(hist), Advances(i)
    PROVE  Prefix!Follow
<1>1. PICK k : k = i + 1
  OBVIOUS
<1>2. k \in 1 .. Len(hist) /\ StandsAt(hist, st', k) /\ st'.ready
  BY <1>1 DEF Advances
<1>3. ViewIndex = i
  BY DEF Advances, ViewIs
<1> QED
  BY <1>1, <1>2, <1>3, FollowRead

\* onFrame and catchUp.
LEMMA PackagesFollow ==
    ASSUME IInv, IInv', ViewIs, ViewIs', OnFrame \/ CatchUpApply
    PROVE  Prefix!Follow \/ UNCHANGED Prefix!vars
<1>1. /\ UNCHANGED <<hist, misread>> /\ TypeOK /\ AllTrue /\ st \in Sets
      /\ run.pc = "apply" => st.ready
  BY DEF IInv, TypeOK, Standing, OnFrame, CatchUpApply, keeper
<1>2. ASSUME NEW p \in Objects, TruePackage(hist, p), st.ready,
             NEW want, want = st.seq + 1, NEW good, applyPackage(p, want, good)
      PROVE  Prefix!Follow \/ UNCHANGED Prefix!vars
  <2>1. st' = st \/ \E i \in 1 .. Len(hist) : Advances(i)
    BY <1>2, ApplyStep
  <2>2. CASE st' = st
    BY <1>1, <2>2, StutterRead DEF SameStand
  <2> QED
    BY <1>1, <1>2, <2>1, <2>2, AdvanceRead
<1>3. CASE OnFrame
  <2>1. PICK f : f = Head(in)
    OBVIOUS
  <2>2. f \in Frames /\ (f.op # "resync" => TruePackage(hist, f.inline))
    BY <1>1, <1>3, <2>1, TailFacts DEF OnFrame
  <2>3. CASE st' = st \/ st' = [st EXCEPT !.snapBad = FALSE]
    <3>1. SameStand
      BY <1>1, <2>3 DEF SameStand, Sets
    <3> QED
      BY <1>1, <3>1, StutterRead
  <2>4. CASE /\ st.ready /\ f.op # "resync" /\ f.seq = st.seq + 1
             /\ applyPackage(f.inline, f.seq, Idle)
    <3>1. f.inline \in Objects
      BY <2>2, <2>4 DEF Frames
    <3> QED
      BY <1>2, <2>2, <2>4, <3>1
  <2> QED
    BY <1>3, <2>1, <2>3, <2>4 DEF OnFrame
<1>4. CASE CatchUpApply
  <2>1. PICK objs : objs = run.objs
    OBVIOUS
  <2>2. /\ objs \in Seq(Objects) /\ objs # <<>> /\ run.pc = "apply"
        /\ \A i \in 1 .. Len(objs) : TruePackage(hist, objs[i])
    BY <1>1, <1>4, <2>1 DEF TypeOK, Runs, Idle, AllTrue, CatchUpApply
  <2>3. 1 \in 1 .. Len(objs) /\ Head(objs) = objs[1] /\ objs[1] \in Objects
    BY <2>2
  <2>4. \E good : applyPackage(Head(objs), st.seq + 1, good)
    BY <1>4, <2>1 DEF CatchUpApply
  <2> QED
    BY <1>1, <1>2, <2>2, <2>3, <2>4
<1> QED
  BY <1>3, <1>4

\* snapshot: the object that was read is not older than the set.
LEMMA SnapshotRead ==
    ASSUME IInv, IInv', ViewIs, ViewIs', SnapshotObject
    PROVE  Prefix!Follow \/ UNCHANGED Prefix!vars
<1>1. run.pc = "object" /\ UNCHANGED hist
  BY DEF SnapshotObject
<1>2. CASE UNCHANGED <<st, misread>>
  BY <1>1, <1>2, StutterRead DEF SameStand
<1>3. ASSUME NEW set, NEW bad, Snapshot(run.ref, set, bad)
      PROVE  Prefix!Follow
  <2>1. PICK i \in 1 .. Len(hist) :
               /\ hist[i] = run.ref
               /\ \A j \in 1 .. Len(hist) : StandsAt(hist, st, j) => j <= i
    BY <1>1 DEF IInv, Newer
  <2>2. StandsAt(hist, st', i) /\ st'.ready
    BY <1>3, <2>1 DEF Snapshot, StandsAt
  <2>3. ViewIndex <= i
    <3>1. CASE st.ready
      <4>1. PICK j \in 1 .. Len(hist) : StandsAt(hist, st, j)
        BY <3>1 DEF IInv, Standing
      <4>2. ViewIndex = j /\ j <= i
        BY <2>1, <4>1 DEF ViewIs
      <4> QED
        BY <4>2
    <3>2. CASE ~st.ready
      BY <3>2 DEF ViewIs
    <3> QED
      BY <3>1, <3>2
  <2> QED
    BY <1>1, <2>2, <2>3, FollowRead
<1> QED
  BY <1>2, <1>3 DEF SnapshotObject

\* The keeper's steps add one composition.
LEMMA KeeperExtends ==
    ASSUME IInv,
           \/ \E op \in {"add", "remove"}, v \in Values, b \in BOOLEAN : KeeperChange(op, v, b)
           \/ KeeperRestart
    PROVE  UNCHANGED <<st, misread>> /\ \E c : Extends(c)
<1>1. /\ Current \in Compositions /\ Current.seq \in Nat /\ Current.epoch \in Nat \ {0}
      /\ Current.set \in SUBSET Values
  <2>1. Current \in Compositions
    BY CurrentFacts DEF IInv
  <2> QED
    BY <2>1 DEF Compositions
<1>2. ASSUME NEW e, NEW s, NEW set \in SUBSET Values, Len(hist) < MaxHist,
             hist' = Append(hist, [epoch |-> e, seq |-> s, set |-> set]),
             \/ e = Current.epoch /\ s = Current.seq + 1
             \/ e = Current.epoch + 1 /\ s = 0
      PROVE  \E c : Extends(c)
  <2>1. PICK c : c = [epoch |-> e, seq |-> s, set |-> set]
    OBVIOUS
  <2>2. c \in Compositions
    BY <1>1, <1>2, <2>1 DEF Compositions
  <2> QED
    BY <1>2, <2>1, <2>2 DEF Extends
<1>3. CASE \E op \in {"add", "remove"}, v \in Values, b \in BOOLEAN : KeeperChange(op, v, b)
  <2>1. PICK op \in {"add", "remove"}, v \in Values, b \in BOOLEAN : KeeperChange(op, v, b)
    BY <1>3
  <2>2. PICK set : set = apply(Current.set, op, v)
    OBVIOUS
  <2>3. PICK s : s = Current.seq + 1
    OBVIOUS
  <2>4. set \in SUBSET Values
    BY <1>1, <2>2 DEF apply
  <2>5. /\ Len(hist) < MaxHist /\ UNCHANGED <<st, misread>>
        /\ hist' = Append(hist, [epoch |-> Current.epoch, seq |-> s, set |-> set])
    BY <2>1, <2>2, <2>3 DEF KeeperChange
  <2> QED
    BY <1>2, <2>3, <2>4, <2>5
<1>4. CASE KeeperRestart
  <2>1. PICK set \in {Current.set, {}} :
          hist' = Append(hist, [epoch |-> Current.epoch + 1, seq |-> 0, set |-> set])
    BY <1>4 DEF KeeperRestart
  <2>2. PICK e : e = Current.epoch + 1
    OBVIOUS
  <2>3. set \in SUBSET Values /\ Len(hist) < MaxHist /\ UNCHANGED <<st, misread>>
    BY <1>1, <1>4, <2>1 DEF KeeperRestart
  <2> QED
    BY <1>2, <2>1, <2>2, <2>3
<1> QED
  BY <1>3, <1>4

\* Every step of the mirror is a step of the promise, or none.
LEMMA NextRead ==
    ASSUME IInv, IInv', ViewIs, ViewIs', [Next]_vars
    PROVE  [Prefix!Next]_(Prefix!vars)
<1>1. CASE \/ \E op \in {"add", "remove"}, v \in Values, b \in BOOLEAN : KeeperChange(op, v, b)
           \/ KeeperRestart
  BY <1>1, KeeperExtends, GrowRead DEF Prefix!Next
<1>2. CASE OnFrame \/ CatchUpApply
  BY <1>2, PackagesFollow DEF Prefix!Next
<1>3. CASE SnapshotObject
  BY <1>3, SnapshotRead DEF Prefix!Next
<1>4. CASE UNCHANGED <<hist, st, misread>>
  BY <1>4, StutterRead DEF SameStand
<1>5. CASE UNCHANGED vars
  BY <1>4, <1>5 DEF vars
<1>6. CASE \/ KeeperTick \/ (\E s \in Seqs : Evict(s)) \/ Resync \/ CatchUpRead
           \/ SnapshotRequest
  BY <1>4, <1>6 DEF KeeperTick, Evict, Resync, CatchUpRead, SnapshotRequest
<1> QED
  BY <1>1, <1>2, <1>3, <1>5, <1>6 DEF Next

\* The mirror starts as the promise does.
LEMMA InitRead ==
    ASSUME Init
    PROVE  Prefix!Init
<1>1. IInv /\ ViewIs
  BY IInvInit, ViewFacts
<1>2. ViewIndex = 1
  BY <1>1 DEF Init, NotYet, ViewIs
<1>3. /\ Len(hist) = 1 /\ DOMAIN hist = 1 .. Len(hist)
      /\ \A i \in 1 .. Len(hist) : hist[i].set \in SUBSET Values
  BY <1>1, CurrentFacts DEF Init, IInv, TypeOK, Compositions
<1>4. /\ [i \in DOMAIN hist |-> hist[i].set] \in Seq(SUBSET Values)
      /\ Len([i \in 1 .. Len(hist) |-> hist[i].set]) = 1
  BY <1>3
<1>5. [i \in DOMAIN hist |-> hist[i].set] # <<>>
  BY <1>3, <1>4
<1> QED
  BY <1>2, <1>4, <1>5 DEF Prefix!Init, Init, NotYet

\* onFrame, catchUp and snapshot: the mirror answers with compositions that the
\* list had, never goes back to an older one, and marks what it read badly, as
\* SessionLife's copies of the lists do.
THEOREM PrefixKept == Spec => IsPrefixMirror
<1>1. Init => Prefix!Init
  BY InitRead
<1>2. IInv /\ IInv' /\ ViewIs /\ ViewIs' /\ [Next]_vars => [Prefix!Next]_(Prefix!vars)
  BY NextRead
<1> QED
  BY <1>1, <1>2, Invariance, ViewFacts, PTL DEF Spec, IsPrefixMirror, Prefix!Spec
=============================================================================
