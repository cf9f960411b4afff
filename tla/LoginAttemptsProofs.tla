------------------------- MODULE LoginAttemptsProofs -------------------------
(* Proofs about LoginAttempts, for every value of its constants.           *)
EXTENDS LoginAttempts, FiniteSetTheorems, TLAPS

(***************************************************************************)
(* The inductive invariant                                                 *)
(***************************************************************************)

\* The loops of a submit over one scope or two, at one of them.
Loops ==
    {q \in [pc : Pcs, scopes : Seq(Scopes), i : 1 .. 2, over : BOOLEAN, n : [1 .. 2 -> Nat]] :
        q.i <= Len(q.scopes) /\ Len(q.scopes) <= 2}

\* The types of the counters, locks, slots and submits.
TypeOK ==
    /\ submit \in [Submits -> {NoSubmit} \cup Loops]
    /\ fails \in [Scopes -> Nat]
    /\ locks \in [Scopes -> BOOLEAN]
    /\ faults \in Nat /\ slots \in Int
    /\ counted \in [Scopes -> SUBSET Submits]

\* Nothing has turned this submit away so far, and it is past its first count.
Live(q) ==
    \/ q.pc \in {"slot", "verify", "spent", "clear", "done", "panicked"}
    \/ q.pc \in {"count", "read"} /\ ~q.over

\* It will not read the lock of this scope any more.
Settled(q, sc) == Live(q) /\ ~(q.pc = "read" /\ q.scopes[q.i] = sc)

\* The counted submits of a scope that are live, and that are settled there.
Alive(sc) == {r \in counted[sc] : Live(submit[r])}
Decided(sc) == {r \in counted[sc] : Settled(submit[r], sc)}

\* While a scope is open its counter covers every counted submit; once it is
\* locked, whoever has not read the lock yet is going to be turned away by it.
Bounded(sc) ==
    IF locks[sc]
    THEN Cardinality(Decided(sc)) <= Attempts
    ELSE Cardinality(counted[sc]) <= fails[sc] /\ Cardinality(Alive(sc)) <= Attempts

\* Nobody is counted before reserve() begins.
CountedLater ==
    \A sc \in Scopes : \A r \in counted[sc] : submit[r].pc \notin {"idle", "check", "ready"}

GuessInv == CountedLater /\ \A sc \in Scopes : Bounded(sc)

IInv == TypeOK /\ SlotsAccounted /\ GuessInv

(***************************************************************************)
(* Type correctness                                                        *)
(***************************************************************************)

\* lockScopes yields one scope or two.
LEMMA LockScopes ==
    ASSUME NEW s \in Sources, NEW ip \in Ips, NEW login \in Logins \cup {NoLogin}
    PROVE  /\ lockScopes(s, ip, login) \in Seq(Scopes)
           /\ 1 <= Len(lockScopes(s, ip, login)) /\ Len(lockScopes(s, ip, login)) <= 2
<1>1. <<s, "ip", ip>> \in Scopes
  BY DEF Scopes
<1>2. login # NoLogin => <<s, "user", login>> \in Scopes
  BY DEF Scopes
<1> QED
  BY <1>1, <1>2 DEF lockScopes

\* A submit in its loops is at one of its scopes.
LEMMA AtScope ==
    ASSUME TypeOK, NEW r \in Submits, submit[r].pc # "idle"
    PROVE  submit[r] \in Loops /\ Scope(r) \in Scopes
<1>1. submit[r] \in Loops
  BY DEF TypeOK, NoSubmit
<1> QED
  BY <1>1 DEF Loops, Scope

\* The types of the fields, once and for all.
LEMMA LoopFields ==
    ASSUME NEW q \in Loops
    PROVE  /\ q \in [pc : Pcs, scopes : Seq(Scopes), i : 1 .. 2, over : BOOLEAN,
                     n : [1 .. 2 -> Nat]]
           /\ q.pc \in Pcs /\ q.scopes \in Seq(Scopes) /\ q.i \in 1 .. 2 /\ q.over \in BOOLEAN
           /\ q.n \in [1 .. 2 -> Nat]
           /\ Len(q.scopes) \in Nat /\ q.i <= Len(q.scopes) /\ Len(q.scopes) <= 2
  BY DEF Loops

\* Changes of single fields keep a submit in its loops.
LEMMA SetPc ==
    ASSUME NEW q \in Loops, NEW p \in Pcs
    PROVE  /\ [q EXCEPT !.pc = p] \in Loops
           /\ [q EXCEPT !.pc = p].pc = p
           /\ [q EXCEPT !.pc = p].over = q.over
  BY LoopFields DEF Loops

\* The loop notes that a scope is over its limit.
LEMMA SetOver ==
    ASSUME NEW q \in Loops, NEW b \in BOOLEAN
    PROVE  /\ [q EXCEPT !.over = b] \in Loops
           /\ [q EXCEPT !.over = b].over = b
  BY LoopFields DEF Loops

\* The loop notes the count of its scope and goes on.
LEMMA SetCount ==
    ASSUME NEW q \in Loops, NEW k \in Nat, NEW p \in Pcs
    PROVE  LET x == [q EXCEPT !.n[q.i] = k, !.pc = p] IN
             x \in Loops /\ x.pc = p /\ x.over = q.over /\ x.scopes = q.scopes /\ x.i = q.i
<1>1. [q.n EXCEPT ![q.i] = k] \in [1 .. 2 -> Nat]
  BY LoopFields
<1> QED
  BY <1>1, LoopFields DEF Loops

\* Loop goes to the next scope or leaves, and changes nothing else.
LEMMA LoopFacts ==
    ASSUME NEW q \in Loops, NEW again \in Pcs, NEW end \in Pcs
    PROVE  /\ Loop(q, again, end) \in Loops
           /\ Loop(q, again, end).pc \in {again, end}
           /\ Loop(q, again, end).over = q.over
<1> DEFINE To(p, j) == [q EXCEPT !.pc = p, !.i = j]
<1>1. /\ q \in [pc : Pcs, scopes : Seq(Scopes), i : 1 .. 2, over : BOOLEAN,
                n : [1 .. 2 -> Nat]]
      /\ q.i <= Len(q.scopes) /\ Len(q.scopes) <= 2 /\ Len(q.scopes) \in Nat
  BY DEF Loops
<1>2. \A p \in Pcs, j \in 1 .. 2 :
        j <= Len(q.scopes) => To(p, j) \in Loops /\ To(p, j).pc = p /\ To(p, j).over = q.over
  BY <1>1 DEF Loops
<1>3. Loop(q, again, end) = IF q.i < Len(q.scopes) THEN To(again, q.i + 1) ELSE To(end, 1)
  BY DEF Loop
<1>4. /\ 1 \in 1 .. 2 /\ 1 <= Len(q.scopes)
      /\ q.i < Len(q.scopes) => q.i + 1 \in 1 .. 2 /\ q.i + 1 <= Len(q.scopes)
  BY <1>1
<1> HIDE DEF To
<1> QED
  BY <1>2, <1>3, <1>4

\* Submit r goes on at state q, which is in its loops.
Goes(r, q) == q \in Loops /\ submit' = [submit EXCEPT ![r] = q]

\* The rest of reserve(): the next scope, or the way out that "over" decides.
LEMMA ReserveLoopFacts ==
    ASSUME NEW r \in Submits, NEW q \in Loops, ReserveLoop(r, q)
    PROVE  \E x \in Loops :
             /\ Goes(r, x) /\ x.over = q.over
             /\ x.pc \in {"count", IF q.over THEN "refused" ELSE "slot"}
<1> DEFINE x == Loop(q, "count", IF q.over THEN "refused" ELSE "slot")
<1>1. "count" \in Pcs /\ (IF q.over THEN "refused" ELSE "slot") \in Pcs
  BY DEF Pcs
<1>2. x \in Loops /\ x.over = q.over /\ x.pc \in {"count", IF q.over THEN "refused" ELSE "slot"}
  BY <1>1, LoopFacts
<1>3. submit' = [submit EXCEPT ![r] = x]
  BY DEF ReserveLoop, Goto
<1> QED
  BY <1>2, <1>3 DEF Goes

\* The calls of the roster keep the types of the keys.
LEMMA RosterTypes ==
    ASSUME TypeOK, NEW sc \in Scopes
    PROVE  /\ Works \/ Fails => faults' \in Nat
           /\ Lock(sc) => locks' \in [Scopes -> BOOLEAN] /\ fails' \in [Scopes -> Nat]
           /\ Fail(sc) => fails' \in [Scopes -> Nat]
           /\ Clear(sc) => /\ locks' \in [Scopes -> BOOLEAN] /\ fails' \in [Scopes -> Nat]
                           /\ counted' \in [Scopes -> SUBSET Submits]
<1>1. Works \/ Fails => faults' \in Nat
  BY DEF TypeOK, Works, Fails
<1>2. Lock(sc) => locks' \in [Scopes -> BOOLEAN] /\ fails' \in [Scopes -> Nat]
  BY DEF TypeOK, Lock
<1>3. Fail(sc) => fails' \in [Scopes -> Nat]
  BY DEF TypeOK, Fail
<1>4. Clear(sc) => /\ locks' \in [Scopes -> BOOLEAN] /\ fails' \in [Scopes -> Nat]
                   /\ counted' \in [Scopes -> SUBSET Submits]
  BY DEF TypeOK, Clear
<1> QED
  BY <1>1, <1>2, <1>3, <1>4

\* The way of a submit.
Edge(from, to) ==
    \/ from = "check" /\ to \in {"check", "ready", "refused"}
    \/ from = "ready" /\ to \in {"count", "slot", "refused"}
    \/ from \in {"count", "lock", "read"} /\ to \in {"count", "lock", "read", "slot", "refused"}
    \/ from = "slot" /\ to \in {"verify", "refused"}
    \/ from = "verify" /\ to \in {"spent", "clear", "done", "panicked"}
    \/ from \in {"spent", "clear"} /\ to \in {from, "done"}

\* A step of a submit that is under way keeps it in its loops and on its way.
LEMMA StepGoes ==
    ASSUME TypeOK, NEW r \in Submits, Step(r)
    PROVE  /\ submit[r] \in Loops /\ Scope(r) \in Scopes
           /\ \E q \in Loops : Goes(r, q) /\ Edge(submit[r].pc, q.pc)
<1>1. submit[r].pc # "idle"
  BY DEF Step, LockCheck, Reserve, Count, CountFails, ReserveLock, LockRead, LockReadFails,
         TakeSlot, LockSpent, ClearScope, Verified, At
<1>2. submit[r] \in Loops /\ Scope(r) \in Scopes
  BY <1>1, AtScope
<1>3. /\ submit[r].i \in 1 .. 2 /\ submit[r].over \in BOOLEAN
      /\ locks[Scope(r)] \in BOOLEAN /\ fails[Scope(r)] \in Nat
  BY <1>2, LoopFields DEF TypeOK
<1> DEFINE Goal == \E q \in Loops : Goes(r, q) /\ Edge(submit[r].pc, q.pc)
           Set(p) == [submit[r] EXCEPT !.pc = p]
<1>4. ASSUME NEW x \in Loops, submit' = [submit EXCEPT ![r] = x], Edge(submit[r].pc, x.pc)
      PROVE  Goal
  BY <1>4 DEF Goes
<1>5. ASSUME NEW p \in Pcs, Goto(r, Set(p)), Edge(submit[r].pc, p)
      PROVE  Goal
  BY <1>2, <1>4, <1>5, SetPc DEF Goto
<1>6. ASSUME NEW q \in Loops, ReserveLoop(r, q), submit[r].pc \in {"count", "lock", "read"}
      PROVE  Goal
  BY <1>6, ReserveLoopFacts DEF Edge
<1> SUFFICES Goal
  BY <1>2 DEF Goal
<1> HIDE DEF Goal, Set
<1>7. CASE LockCheck(r)
  <2>1. PICK seen \in BOOLEAN :
          LET q == [submit[r] EXCEPT !.over = @ \/ seen]
          IN  Goto(r, Loop(q, "check", IF q.over THEN "refused" ELSE "ready"))
    BY <1>3, <1>7 DEF LockCheck
  <2> DEFINE q == [submit[r] EXCEPT !.over = @ \/ seen]
             end == IF q.over THEN "refused" ELSE "ready"
             x == Loop(q, "check", end)
  <2>2. (submit[r].over \/ seen) \in BOOLEAN
    OBVIOUS
  <2>3. q \in Loops
    BY <1>2, <2>2, SetOver
  <2>4. "check" \in Pcs /\ end \in Pcs /\ end \in {"refused", "ready"}
    BY DEF Pcs
  <2>5. submit' = [submit EXCEPT ![r] = x]
    BY <2>1 DEF Goto
  <2> HIDE DEF q, end
  <2>6. x \in Loops /\ x.pc \in {"check", end}
    BY <2>3, <2>4, LoopFacts
  <2>7. Edge(submit[r].pc, x.pc)
    BY <1>7, <2>4, <2>6 DEF LockCheck, At, Edge
  <2> QED
    BY <1>4, <2>5, <2>6, <2>7
<1>8. CASE Reserve(r)
  <2>1. \E p \in Pcs : Goto(r, Set(p)) /\ Edge(submit[r].pc, p)
    BY <1>8 DEF Reserve, At, Pcs, Set, Edge
  <2> QED
    BY <2>1, <1>5
<1>9. CASE Count(r)
  <2> DEFINE k == fails[Scope(r)] + 1
             p == IF k > Attempts THEN "lock" ELSE "read"
             x == [submit[r] EXCEPT !.n[submit[r].i] = k, !.pc = p]
  <2>1. k \in Nat /\ p \in Pcs
    BY <1>3 DEF Pcs
  <2>2. submit' = [submit EXCEPT ![r] = x]
    BY <1>9 DEF Count, Goto
  <2>3. x \in Loops /\ x.pc = p
    BY <1>2, <2>1, SetCount
  <2> HIDE DEF x
  <2>4. Edge(submit[r].pc, x.pc)
    BY <1>9, <2>3 DEF Count, At, Edge
  <2> QED
    BY <1>4, <2>2, <2>3, <2>4
<1>10. CASE CountFails(r) \/ LockReadFails(r)
  BY <1>2, <1>6, <1>10 DEF CountFails, LockReadFails, At
<1>11. CASE ReserveLock(r)
  BY <1>2, <1>6, <1>11, SetOver DEF ReserveLock, At
<1>12. CASE LockRead(r)
  <2>1. (submit[r].over \/ locks[Scope(r)]) \in BOOLEAN
    OBVIOUS
  <2> QED
    BY <1>2, <1>6, <1>12, <2>1, SetOver DEF LockRead, At
<1>13. CASE TakeSlot(r)
  <2>1. \E p \in Pcs : Goto(r, Set(p)) /\ Edge(submit[r].pc, p)
    BY <1>13 DEF TakeSlot, At, Pcs, Set, Edge
  <2> QED
    BY <2>1, <1>5
<1>14. CASE LockSpent(r) \/ ClearScope(r)
  <2>1. PICK again \in {"spent", "clear"} :
          submit[r].pc = again /\ Goto(r, Loop(submit[r], again, "done"))
    BY <1>14 DEF LockSpent, ClearScope, At
  <2> DEFINE x == Loop(submit[r], again, "done")
  <2>2. again \in Pcs /\ "done" \in Pcs
    BY DEF Pcs
  <2>3. x \in Loops /\ x.pc \in {again, "done"}
    BY <1>2, <2>2, LoopFacts
  <2>4. submit' = [submit EXCEPT ![r] = x]
    BY <2>1 DEF Goto
  <2> HIDE DEF x
  <2>5. Edge(submit[r].pc, x.pc)
    BY <2>1, <2>3 DEF Edge
  <2> QED
    BY <1>4, <2>3, <2>4, <2>5
<1>15. ASSUME NEW o \in Outcomes, Verified(r, o)
       PROVE  Goal
  <2>1. \E p \in Pcs : Goto(r, Set(p)) /\ Edge(submit[r].pc, p)
    BY <1>15 DEF Verified, At, Outcomes, Pcs, Set, Edge
  <2> QED
    BY <2>1, <1>5
<1> QED
  BY <1>7, <1>8, <1>9, <1>10, <1>11, <1>12, <1>13, <1>14, <1>15 DEF Step

\* A submit that arrives is at its first scope.
LEMMA NewLoop ==
    ASSUME NEW sq \in Seq(Scopes), 1 <= Len(sq), Len(sq) <= 2, NEW m \in [1 .. 2 -> Nat]
    PROVE  [pc |-> "check", scopes |-> sq, i |-> 1, over |-> FALSE, n |-> m] \in Loops
<1> DEFINE q == [pc |-> "check", scopes |-> sq, i |-> 1, over |-> FALSE, n |-> m]
<1>1. "check" \in Pcs /\ 1 \in 1 .. 2 /\ FALSE \in BOOLEAN
  BY DEF Pcs
<1>2. q \in [pc : Pcs, scopes : Seq(Scopes), i : 1 .. 2, over : BOOLEAN, n : [1 .. 2 -> Nat]]
  BY <1>1
<1>3. q.i = 1 /\ q.scopes = sq
  OBVIOUS
<1>4. q \in Loops
  <2> HIDE DEF q
  <2> QED
    BY <1>2, <1>3 DEF Loops
<1> QED
  BY <1>4

\* Every step keeps the types.
LEMMA NextTypes ==
    ASSUME TypeOK, [Next]_vars
    PROVE  TypeOK'
<1> USE DEF TypeOK
<1>1. ASSUME NEW r \in Submits, NEW s \in Sources, NEW ip \in Ips,
             NEW l \in Logins \cup {NoLogin}, Arrive(r, s, ip, l)
      PROVE  TypeOK'
  <2> DEFINE q == [pc |-> "check", scopes |-> lockScopes(s, ip, l),
                   i |-> 1, over |-> FALSE, n |-> <<0, 0>>]
  <2>1. <<0, 0>> \in [1 .. 2 -> Nat]
    OBVIOUS
  <2>2. /\ lockScopes(s, ip, l) \in Seq(Scopes)
        /\ 1 <= Len(lockScopes(s, ip, l)) /\ Len(lockScopes(s, ip, l)) <= 2
    BY LockScopes
  <2>3. q \in Loops
    BY <2>1, <2>2, NewLoop
  <2>4. submit' = [submit EXCEPT ![r] = q]
    BY <1>1 DEF Arrive, Goto
  <2> HIDE DEF q
  <2> QED
    BY <1>1, <2>3, <2>4 DEF Arrive
<1>2. ASSUME NEW r \in Submits, Step(r)
      PROVE  TypeOK'
  <2>1. PICK q \in Loops : submit' = [submit EXCEPT ![r] = q]
    BY <1>2, StepGoes DEF Goes
  <2>2. Scope(r) \in Scopes
    BY <1>2, StepGoes
  <2>3. submit' \in [Submits -> {NoSubmit} \cup Loops]
    BY <2>1
  <2>4. faults' \in Nat
    BY <1>2, <2>2, RosterTypes
    DEF Step, LockCheck, Reserve, Count, CountFails, ReserveLock, LockRead, LockReadFails,
        TakeSlot, LockSpent, ClearScope, Verified, LockOrFail
  <2>5. fails' \in [Scopes -> Nat] /\ locks' \in [Scopes -> BOOLEAN]
    BY <1>2, <2>2, RosterTypes
    DEF Step, LockCheck, Reserve, Count, CountFails, ReserveLock, LockRead, LockReadFails,
        TakeSlot, LockSpent, ClearScope, Verified, LockOrFail
  <2>6. slots' \in Int
    <3>1. slots' \in {slots, slots + 1, slots - 1}
      BY <1>2
      DEF Step, LockCheck, Reserve, Count, CountFails, ReserveLock, LockRead, LockReadFails,
          TakeSlot, LockSpent, ClearScope, Verified
    <3> QED
      BY <3>1
  <2>7. counted' \in [Scopes -> SUBSET Submits]
    <3>1. \/ counted' = counted \/ Clear(Scope(r))
          \/ counted' = [counted EXCEPT ![Scope(r)] = @ \cup {r}]
          \/ counted' = [counted EXCEPT ![Scope(r)] = @ \ {r}]
      BY <1>2
      DEF Step, LockCheck, Reserve, Count, CountFails, ReserveLock, LockRead, LockReadFails,
          TakeSlot, LockSpent, ClearScope, Verified
    <3> QED
      BY <2>2, <3>1, RosterTypes
  <2> QED
    BY <2>3, <2>4, <2>5, <2>6, <2>7
<1>3. ASSUME NEW sc \in Scopes, LockExpires(sc) \/ CounterExpires(sc)
      PROVE  TypeOK'
  <2>1. CASE LockExpires(sc)
    BY <2>1 DEF LockExpires
  <2>2. CASE CounterExpires(sc)
    BY <2>2 DEF CounterExpires
  <2> QED
    BY <1>3, <2>1, <2>2
<1>4. CASE UNCHANGED vars
  BY <1>4 DEF vars
<1> QED
  BY <1>1, <1>2, <1>3, <1>4 DEF Next

(***************************************************************************)
(* The verification slots                                                  *)
(***************************************************************************)

\* A step of a submit changes the ones that hold a slot by that submit at most.
LEMMA HoldingGoes ==
    ASSUME TypeOK, NEW r \in Submits, NEW q, submit' = [submit EXCEPT ![r] = q]
    PROVE  Holding' = IF q.pc \in {"verify", "panicked"}
                     THEN Holding \cup {r}
                     ELSE Holding \ {r}
  BY DEF TypeOK, Holding

\* Every step keeps the account: only TakeSlot puts a token in server.verify, the
\* end of the check takes it out, and a check that panics leaves it there.
LEMMA NextSlots ==
    ASSUME TypeOK, SlotsAccounted, [Next]_vars
    PROVE  SlotsAccounted'
<1>1. /\ IsFiniteSet(Holding) /\ slots = Cardinality(Holding)
      /\ slots \in Nat /\ slots <= VerifyLimit
  <2>1. IsFiniteSet(Holding)
    BY AttemptsAssumption, FS_Subset DEF Holding
  <2> QED
    BY <2>1, FS_CardinalityType DEF SlotsAccounted, Holding
<1> SUFFICES slots' = Cardinality(Holding') /\ slots' <= VerifyLimit
  BY DEF SlotsAccounted, Holding
<1>2. ASSUME Holding' = Holding, slots' = slots
      PROVE  slots' = Cardinality(Holding') /\ slots' <= VerifyLimit
  BY <1>1, <1>2
<1>3. ASSUME NEW r \in Submits, Step(r)
      PROVE  slots' = Cardinality(Holding') /\ slots' <= VerifyLimit
  <2>1. PICK q \in Loops : submit' = [submit EXCEPT ![r] = q] /\ Edge(submit[r].pc, q.pc)
    BY <1>3, StepGoes DEF Goes
  <2>2. submit'[r] = q
    BY <2>1 DEF TypeOK
  <2>3. CASE submit[r].pc \notin {"slot", "verify"}
    <3>1. q.pc \notin {"verify", "panicked"} /\ r \notin Holding
      BY <2>1, <2>3 DEF Edge, Holding
    <3>2. Holding' = Holding
      BY <2>1, <3>1, HoldingGoes
    <3>3. slots' = slots
      BY <1>3, <2>3
      DEF Step, LockCheck, Reserve, Count, CountFails, ReserveLock, LockRead, LockReadFails,
          TakeSlot, LockSpent, ClearScope, Verified, At
    <3> QED
      BY <1>2, <3>2, <3>3
  <2>4. CASE submit[r].pc = "slot"
    <3>1. r \notin Holding /\ TakeSlot(r)
      BY <1>3, <2>4
      DEF Holding, Step, LockCheck, Reserve, Count, CountFails, ReserveLock, LockRead,
          LockReadFails, TakeSlot, LockSpent, ClearScope, Verified, At
    <3>2. \/ q.pc = "verify" /\ slots < VerifyLimit /\ slots' = slots + 1
          \/ q.pc = "refused" /\ slots' = slots
      <4>1. submit[r] \in Loops
        BY <1>3, StepGoes
      <4>2. \A p \in {"verify", "refused"} : [submit[r] EXCEPT !.pc = p].pc = p
        BY <4>1, SetPc DEF Pcs
      <4>3. \A p : Goto(r, [submit[r] EXCEPT !.pc = p]) => q = [submit[r] EXCEPT !.pc = p]
        BY <2>2 DEF Goto, TypeOK
      <4> QED
        BY <3>1, <4>2, <4>3 DEF TakeSlot
    <3>3. CASE q.pc = "verify"
      <4>1. Holding' = Holding \cup {r}
        BY <2>1, <3>3, HoldingGoes
      <4>2. Cardinality(Holding \cup {r}) = Cardinality(Holding) + 1
        BY <1>1, <3>1, FS_AddElement
      <4>3. slots < VerifyLimit /\ slots' = slots + 1
        BY <3>2, <3>3
      <4> QED
        BY <1>1, <4>1, <4>2, <4>3, AttemptsAssumption
    <3>4. CASE q.pc = "refused"
      <4>1. Holding' = Holding
        BY <2>1, <3>1, <3>4, HoldingGoes
      <4> QED
        BY <1>2, <3>2, <3>4, <4>1
    <3> QED
      BY <3>2, <3>3, <3>4
  <2>5. CASE submit[r].pc = "verify"
    <3>1. r \in Holding /\ q.pc # "verify"
      BY <2>1, <2>5 DEF Holding, Edge
    <3>2. PICK o \in Outcomes : Verified(r, o)
      BY <1>3, <2>5
      DEF Step, LockCheck, Reserve, Count, CountFails, ReserveLock, LockRead,
          LockReadFails, TakeSlot, LockSpent, ClearScope, At
    <3>3. /\ slots' = IF o = "panicked" THEN slots ELSE slots - 1
          /\ q.pc = "panicked" <=> o = "panicked"
      <4>1. submit[r] \in Loops
        BY <1>3, StepGoes
      <4>2. \A p \in Pcs : [submit[r] EXCEPT !.pc = p].pc = p
        BY <4>1, SetPc
      <4>3. \A p : Goto(r, [submit[r] EXCEPT !.pc = p]) => q = [submit[r] EXCEPT !.pc = p]
        BY <2>2 DEF Goto, TypeOK
      <4>4. "clear" \in Pcs /\ "spent" \in Pcs /\ "done" \in Pcs /\ "panicked" \in Pcs
        BY DEF Pcs
      <4> QED
        BY <3>2, <4>2, <4>3, <4>4 DEF Verified, Outcomes
    <3>4. CASE q.pc = "panicked"
      <4>1. Holding' = Holding
        BY <2>1, <3>1, <3>4, HoldingGoes
      <4> QED
        BY <1>2, <3>3, <3>4, <4>1
    <3>5. CASE q.pc # "panicked"
      <4>1. Holding' = Holding \ {r}
        BY <2>1, <3>1, <3>5, HoldingGoes
      <4>2. Cardinality(Holding \ {r}) = Cardinality(Holding) - 1
        BY <1>1, <3>1, FS_RemoveElement
      <4>3. slots' = slots - 1
        BY <3>3, <3>5
      <4> QED
        BY <1>1, <4>1, <4>2, <4>3, AttemptsAssumption
    <3> QED
      BY <3>4, <3>5
  <2> QED
    BY <2>3, <2>4, <2>5
<1>4. ASSUME NEW r \in Submits, NEW s \in Sources, NEW ip \in Ips,
             NEW l \in Logins \cup {NoLogin}, Arrive(r, s, ip, l)
      PROVE  slots' = Cardinality(Holding') /\ slots' <= VerifyLimit
  <2>1. r \notin Holding /\ slots' = slots
    BY <1>4 DEF Arrive, Holding, At
  <2> DEFINE q == [pc |-> "check", scopes |-> lockScopes(s, ip, l),
                   i |-> 1, over |-> FALSE, n |-> <<0, 0>>]
  <2>2. submit' = [submit EXCEPT ![r] = q] /\ q.pc = "check"
    BY <1>4 DEF Arrive, Goto
  <2> HIDE DEF q
  <2>3. Holding' = Holding \ {r}
    BY <2>2, HoldingGoes
  <2> QED
    BY <1>2, <2>1, <2>3
<1>5. CASE UNCHANGED <<submit, slots>>
  BY <1>2, <1>5 DEF Holding, At
<1>6. ASSUME NEW sc \in Scopes, LockExpires(sc) \/ CounterExpires(sc)
      PROVE  UNCHANGED <<submit, slots>>
  BY <1>6 DEF LockExpires, CounterExpires
<1> QED
  BY <1>3, <1>4, <1>5, <1>6 DEF Next, vars

(***************************************************************************)
(* The bound on the guesses                                                *)
(***************************************************************************)

\* The sets of submits in the invariant are finite, and so their sizes numbers.
LEMMA Finite ==
    ASSUME TypeOK, NEW sc \in Scopes
    PROVE  /\ IsFiniteSet(counted[sc]) /\ Cardinality(counted[sc]) \in Nat
           /\ IsFiniteSet(Alive(sc)) /\ Cardinality(Alive(sc)) \in Nat
           /\ IsFiniteSet(Decided(sc)) /\ Cardinality(Decided(sc)) \in Nat
           /\ Decided(sc) \subseteq Alive(sc) /\ Alive(sc) \subseteq counted[sc]
           /\ fails[sc] \in Nat /\ Attempts \in Nat
<1>1. counted[sc] \subseteq Submits /\ fails[sc] \in Nat
  BY DEF TypeOK
<1>2. Decided(sc) \subseteq Alive(sc) /\ Alive(sc) \subseteq counted[sc]
  BY DEF Decided, Alive, Settled
<1>3. IsFiniteSet(counted[sc]) /\ IsFiniteSet(Alive(sc)) /\ IsFiniteSet(Decided(sc))
  BY <1>1, <1>2, AttemptsAssumption, FS_Subset
<1> QED
  BY <1>1, <1>2, <1>3, AttemptsAssumption, FS_CardinalityType

\* A step of submit r that counts nobody, keeps the counter and leaves the lock
\* as it was or sets it keeps the bound, when it makes nobody live or settled.
LEMMA KeepsBound ==
    ASSUME TypeOK, TypeOK', NEW r \in Submits, NEW q, submit' = [submit EXCEPT ![r] = q],
           NEW sc \in Scopes, Bounded(sc), counted'[sc] \subseteq counted[sc],
           r \in counted'[sc] /\ Live(q) => Live(submit[r]),
           r \in counted'[sc] /\ locks[sc] /\ Settled(q, sc) => Settled(submit[r], sc),
           locks'[sc] \/ (~locks[sc] /\ ~locks'[sc] /\ fails[sc] <= fails'[sc])
    PROVE  Bounded(sc)'
<1>1. \A u \in Submits : submit'[u] = IF u = r THEN q ELSE submit[u]
  BY DEF TypeOK
<1>2. counted'[sc] \subseteq Submits /\ counted[sc] \subseteq Submits
  BY DEF TypeOK
<1>3. Alive(sc)' \subseteq Alive(sc)
  BY <1>1, <1>2 DEF Alive
<1>4. locks[sc] => Decided(sc)' \subseteq Decided(sc)
  BY <1>1, <1>2 DEF Decided
<1>5. Decided(sc)' \subseteq Alive(sc)
  BY <1>3 DEF Decided, Alive, Settled
<1>6. /\ Cardinality(counted'[sc]) <= Cardinality(counted[sc])
      /\ Cardinality(Alive(sc)') <= Cardinality(Alive(sc))
      /\ locks[sc] => Cardinality(Decided(sc)') <= Cardinality(Decided(sc))
      /\ Cardinality(Decided(sc)') <= Cardinality(Alive(sc))
  BY <1>3, <1>4, <1>5, Finite, FS_Subset
<1>7. /\ Cardinality(Decided(sc)') \in Nat /\ Cardinality(Alive(sc)') \in Nat
      /\ Cardinality(counted'[sc]) \in Nat /\ fails'[sc] \in Nat
  <2>1. counted'[sc] \in SUBSET Submits /\ fails'[sc] \in Nat
    BY DEF TypeOK
  <2>2. IsFiniteSet(counted'[sc]) /\ IsFiniteSet(Alive(sc)') /\ IsFiniteSet(Decided(sc)')
    BY <1>3, <1>5, Finite, FS_Subset
  <2> QED
    BY <2>1, <2>2, FS_CardinalityType
<1>8. CASE locks'[sc]
  <2>1. Cardinality(Decided(sc)') <= Attempts
    <3>1. CASE locks[sc]
      BY <1>6, <1>7, <3>1, Finite DEF Bounded
    <3>2. CASE ~locks[sc]
      BY <1>6, <1>7, <3>2, Finite DEF Bounded
    <3> QED
      BY <3>1, <3>2
  <2> QED
    BY <1>8, <2>1 DEF Bounded
<1>9. CASE ~locks'[sc]
  <2>1. ~locks[sc] /\ fails[sc] <= fails'[sc]
    BY <1>9
  <2>2. Cardinality(counted[sc]) <= fails[sc] /\ Cardinality(Alive(sc)) <= Attempts
    BY <2>1 DEF Bounded
  <2>3. Cardinality(counted'[sc]) <= fails'[sc] /\ Cardinality(Alive(sc)') <= Attempts
    BY <1>6, <1>7, <2>1, <2>2, Finite
  <2> QED
    BY <1>9, <2>3 DEF Bounded
<1> QED
  BY <1>8, <1>9

\* A scope that starts anew is within the bound.
LEMMA ResetBound ==
    ASSUME TypeOK', NEW sc \in Scopes, counted'[sc] = {}
    PROVE  Bounded(sc)'
<1>1. Alive(sc)' = {} /\ Decided(sc)' = {}
  BY DEF Alive, Decided
<1>2. fails'[sc] \in Nat
  BY DEF TypeOK
<1> QED
  BY <1>1, <1>2, FS_EmptySet, AttemptsAssumption DEF Bounded

\* Count: the counter grows with the counted submits, and past the limit the
\* submit goes to the lock and not to its check.
LEMMA CountBound ==
    ASSUME TypeOK, TypeOK', NEW r \in Submits, Count(r), NEW sc \in Scopes, Bounded(sc)
    PROVE  Bounded(sc)'
<1> DEFINE s0 == Scope(r)
           k == fails[s0] + 1
           p == IF k > Attempts THEN "lock" ELSE "read"
           q == [submit[r] EXCEPT !.n[submit[r].i] = k, !.pc = p]
<1>1. /\ submit[r] \in Loops /\ s0 \in Scopes /\ submit[r].pc = "count"
      /\ s0 = submit[r].scopes[submit[r].i]
  <2>1. submit[r].pc = "count"
    BY DEF Count, At
  <2> QED
    BY <2>1, AtScope DEF Scope
<1>2. k \in Nat /\ p \in Pcs /\ k = fails[s0] + 1
  BY <1>1, AttemptsAssumption DEF TypeOK, Pcs
<1>3. q.pc = p /\ q.over = submit[r].over /\ q.scopes = submit[r].scopes /\ q.i = submit[r].i
  <2> DEFINE u == submit[r]
             x == [u EXCEPT !.n[u.i] = k, !.pc = p]
  <2>1. u \in Loops /\ k \in Nat /\ p \in Pcs
    BY <1>1, <1>2
  <2> HIDE DEF k, p, u
  <2>2. x.pc = p /\ x.over = u.over /\ x.scopes = u.scopes /\ x.i = u.i
    BY <2>1, SetCount
  <2> QED
    BY <2>2 DEF u
<1>4. /\ submit' = [submit EXCEPT ![r] = q] /\ locks' = locks
      /\ fails' = [fails EXCEPT ![s0] = k]
      /\ counted' = [counted EXCEPT ![s0] = @ \cup {r}]
  BY DEF Count, Goto, Fail
<1>5. (p = "lock" /\ k > Attempts) \/ (p = "read" /\ k <= Attempts)
  BY <1>2, AttemptsAssumption
<1> HIDE DEF s0, k, p, q
<1>6. CASE sc # s0
  <2>1. counted'[sc] = counted[sc] /\ locks'[sc] = locks[sc] /\ fails'[sc] = fails[sc]
    BY <1>1, <1>4, <1>6 DEF TypeOK
  <2>2. Live(q) => Live(submit[r])
    BY <1>1, <1>3, <1>5 DEF Live
  <2>3. Settled(q, sc) => Settled(submit[r], sc)
    BY <1>1, <2>2 DEF Settled
  <2>4. fails[sc] <= fails[sc] /\ locks[sc] \in BOOLEAN
    BY DEF TypeOK
  <2> QED
    BY <1>4, <2>1, <2>2, <2>3, <2>4, KeepsBound
<1>7. CASE sc = s0
  <2>1. counted'[sc] = counted[sc] \cup {r} /\ locks'[sc] = locks[sc] /\ fails'[sc] = k
    BY <1>1, <1>4, <1>7 DEF TypeOK
  <2>2. \A u \in Submits : submit'[u] = IF u = r THEN q ELSE submit[u]
    BY <1>4 DEF TypeOK
  <2>3. counted[sc] \subseteq Submits
    BY DEF TypeOK
  <2>4. ~Settled(q, sc)
    BY <1>1, <1>3, <1>5, <1>7 DEF Settled, Live
  <2>5. Decided(sc)' \subseteq Decided(sc)
    BY <2>1, <2>2, <2>3, <2>4 DEF Decided
  <2>6. Cardinality(Decided(sc)') <= Cardinality(Decided(sc))
    BY <2>5, Finite, FS_Subset
  <2>7. IsFiniteSet(Decided(sc)') /\ Cardinality(Decided(sc)') \in Nat
    BY <2>5, Finite, FS_Subset, FS_CardinalityType
  <2>8. CASE locks[sc]
    <3>1. Cardinality(Decided(sc)) <= Attempts
      BY <2>8 DEF Bounded
    <3>2. Cardinality(Decided(sc)') <= Attempts
      BY <2>6, <2>7, <3>1, Finite
    <3> QED
      BY <2>1, <2>8, <3>2 DEF Bounded
  <2>9. CASE ~locks[sc]
    <3>1. Cardinality(counted[sc]) <= fails[sc] /\ Cardinality(Alive(sc)) <= Attempts
      BY <2>9 DEF Bounded
    <3>2. /\ IsFiniteSet(counted'[sc])
          /\ Cardinality(counted'[sc]) \in Nat
          /\ Cardinality(counted'[sc]) <= Cardinality(counted[sc]) + 1
      <4>1. /\ IsFiniteSet(counted[sc] \cup {r})
            /\ Cardinality(counted[sc] \cup {r}) = IF r \in counted[sc]
                                                   THEN Cardinality(counted[sc])
                                                   ELSE Cardinality(counted[sc]) + 1
        BY Finite, FS_AddElement
      <4> QED
        BY <2>1, <4>1, Finite
    <3>3. Cardinality(counted'[sc]) <= k
      BY <1>2, <1>7, <3>1, <3>2, Finite
    <3>4. Alive(sc)' \subseteq counted'[sc]
      BY DEF Alive
    <3>5. Cardinality(Alive(sc)') <= Attempts
      <4>1. CASE k <= Attempts
        <5>1. Cardinality(Alive(sc)') <= Cardinality(counted'[sc])
              /\ Cardinality(Alive(sc)') \in Nat
          BY <3>2, <3>4, FS_Subset, FS_CardinalityType
        <5> QED
          BY <1>2, <3>2, <3>3, <4>1, <5>1, AttemptsAssumption
      <4>2. CASE k > Attempts
        <5>1. ~Live(q)
          BY <1>2, <1>3, <1>5, <4>2, AttemptsAssumption DEF Live
        <5>2. Alive(sc)' \subseteq Alive(sc)
          BY <2>1, <2>2, <2>3, <5>1 DEF Alive
        <5>3. Cardinality(Alive(sc)') <= Cardinality(Alive(sc))
              /\ Cardinality(Alive(sc)') \in Nat
          BY <5>2, Finite, FS_Subset, FS_CardinalityType
        <5> QED
          BY <3>1, <5>3, Finite
      <4> QED
        BY <1>2, <4>1, <4>2, AttemptsAssumption
    <3> QED
      BY <2>1, <2>9, <3>3, <3>5 DEF Bounded
  <2> QED
    BY <2>8, <2>9
<1> QED
  BY <1>6, <1>7

\* The other steps of reserve(): its loop goes on with what "over" says.
LEMMA ReserveBound ==
    ASSUME TypeOK, TypeOK', NEW r \in Submits, CountFails(r) \/ ReserveLock(r) \/ LockRead(r)
                                               \/ LockReadFails(r),
           NEW sc \in Scopes, Bounded(sc)
    PROVE  Bounded(sc)'
<1>1. /\ submit[r] \in Loops /\ Scope(r) \in Scopes /\ submit[r].pc \in {"count", "lock", "read"}
      /\ Scope(r) = submit[r].scopes[submit[r].i]
  <2>1. submit[r].pc \in {"count", "lock", "read"}
    BY DEF CountFails, ReserveLock, LockRead, LockReadFails, At
  <2> QED
    BY <2>1, AtScope DEF Scope
<1>2. /\ locks[sc] \in BOOLEAN /\ fails[sc] \in Nat /\ fails[sc] <= fails[sc]
      /\ locks[Scope(r)] \in BOOLEAN
  BY <1>1 DEF TypeOK
<1>3. ASSUME NEW q \in Loops, ReserveLoop(r, q), counted'[sc] \subseteq counted[sc],
             submit[r].pc \in {"count", "read"} /\ ~q.over => ~submit[r].over,
             submit[r].pc = "lock" => q.over,
             /\ r \in counted'[sc] /\ locks[sc] /\ submit[r].pc = "read" /\ Scope(r) = sc
             => q.over,
             locks'[sc] \/ (~locks[sc] /\ ~locks'[sc] /\ fails[sc] <= fails'[sc])
      PROVE  Bounded(sc)'
  <2>1. PICK x \in Loops : /\ Goes(r, x) /\ x.over = q.over
                           /\ x.pc \in {"count", IF q.over THEN "refused" ELSE "slot"}
    BY <1>3, ReserveLoopFacts
  <2>2. submit' = [submit EXCEPT ![r] = x]
    BY <2>1 DEF Goes
  <2>3. Live(x) => ~q.over
    BY <2>1 DEF Live
  <2>4. Live(x) => Live(submit[r])
    BY <1>1, <1>3, <2>3 DEF Live
  <2>5. r \in counted'[sc] /\ locks[sc] /\ Settled(x, sc) => Settled(submit[r], sc)
    BY <1>1, <1>3, <2>3, <2>4 DEF Settled
  <2> QED
    BY <1>3, <2>2, <2>4, <2>5, KeepsBound
<1>4. CASE CountFails(r)
  <2>1. fails' = [fails EXCEPT ![Scope(r)] = @ + 1] \/ fails' = fails
    BY <1>4 DEF CountFails, Fail
  <2>2. fails[sc] <= fails'[sc]
    BY <1>1, <1>2, <2>1 DEF TypeOK
  <2>3. /\ ReserveLoop(r, submit[r]) /\ counted' = counted /\ locks' = locks
        /\ submit[r].pc = "count"
    BY <1>4 DEF CountFails, At
  <2> QED
    BY <1>1, <1>2, <1>3, <2>2, <2>3
<1>5. CASE ReserveLock(r)
  <2> DEFINE q == [submit[r] EXCEPT !.over = TRUE]
  <2>1. ReserveLoop(r, q) /\ counted' = counted /\ submit[r].pc = "lock"
    BY <1>5 DEF ReserveLock, At
  <2>2. q \in Loops /\ q.over = TRUE
    BY <1>1, SetOver
  <2>3. locks'[sc] \/ (~locks[sc] /\ ~locks'[sc] /\ fails[sc] <= fails'[sc])
    <3>1. Lock(Scope(r)) \/ UNCHANGED <<locks, fails>>
      BY <1>5 DEF ReserveLock, LockOrFail
    <3>2. CASE Lock(Scope(r))
      BY <1>1, <1>2, <3>2 DEF Lock, TypeOK
    <3>3. CASE UNCHANGED <<locks, fails>>
      BY <1>2, <3>3
    <3> QED
      BY <3>1, <3>2, <3>3
  <2> HIDE DEF q
  <2> QED
    BY <1>3, <2>1, <2>2, <2>3
<1>6. CASE LockRead(r)
  <2> DEFINE q == [submit[r] EXCEPT !.over = @ \/ locks[Scope(r)]]
  <2>1. /\ ReserveLoop(r, q) /\ counted' = counted /\ locks' = locks /\ fails' = fails
        /\ submit[r].pc = "read"
    BY <1>6 DEF LockRead, At
  <2>2. (submit[r].over \/ locks[Scope(r)]) \in BOOLEAN
    OBVIOUS
  <2>3. q \in Loops /\ q.over = (submit[r].over \/ locks[Scope(r)])
    BY <1>1, <2>2, SetOver
  <2> HIDE DEF q
  <2> QED
    BY <1>2, <1>3, <2>1, <2>3
<1>7. CASE LockReadFails(r)
  <2>1. /\ ReserveLoop(r, submit[r]) /\ locks' = locks /\ fails' = fails
        /\ submit[r].pc = "read" /\ counted' = [counted EXCEPT ![Scope(r)] = @ \ {r}]
    BY <1>7 DEF LockReadFails, At
  <2>2. counted'[sc] \subseteq counted[sc] /\ (Scope(r) = sc => r \notin counted'[sc])
    BY <1>1, <2>1 DEF TypeOK
  <2> QED
    BY <1>1, <1>2, <1>3, <2>1, <2>2
<1> QED
  BY <1>4, <1>5, <1>6, <1>7

\* The rest: submits that are not counted yet, and those past reserve().
LEMMA OtherBound ==
    ASSUME TypeOK, TypeOK', CountedLater, NEW r \in Submits, Step(r),
           submit[r].pc \notin {"count", "lock", "read"}, NEW sc \in Scopes, Bounded(sc)
    PROVE  Bounded(sc)'
<1>1. PICK q \in Loops : submit' = [submit EXCEPT ![r] = q] /\ Edge(submit[r].pc, q.pc)
  BY StepGoes DEF Goes
<1>2. Scope(r) \in Scopes
  BY StepGoes
<1>3. r \in counted[sc] => submit[r].pc \in {"slot", "verify", "spent", "clear"}
  BY <1>1 DEF CountedLater, Edge
<1>4. r \in counted[sc] => Live(submit[r]) /\ Settled(submit[r], sc)
  BY <1>3 DEF Live, Settled
<1>5. /\ \/ counted'[sc] = {}
         \/ counted'[sc] = counted[sc]
      /\ \/ counted'[sc] = {}
         \/ locks'[sc]
         \/ ~locks[sc] /\ ~locks'[sc] /\ fails[sc] <= fails'[sc]
  <2>1. \/ Lock(Scope(r)) /\ counted' = counted
        \/ UNCHANGED <<locks, fails, counted>>
        \/ Clear(Scope(r))
    BY DEF Step, LockCheck, Reserve, Count, CountFails, ReserveLock, LockRead, LockReadFails,
           TakeSlot, LockSpent, ClearScope, Verified, LockOrFail, At
  <2>2. /\ locks \in [Scopes -> BOOLEAN] /\ fails \in [Scopes -> Nat]
        /\ counted \in [Scopes -> SUBSET Submits]
    BY DEF TypeOK
  <2>3. fails[sc] <= fails[sc] /\ locks[sc] \in BOOLEAN
    BY <2>2
  <2>4. CASE Lock(Scope(r)) /\ counted' = counted
    BY <1>2, <2>2, <2>3, <2>4 DEF Lock
  <2>5. CASE UNCHANGED <<locks, fails, counted>>
    BY <2>3, <2>5
  <2>6. CASE Clear(Scope(r))
    BY <1>2, <2>2, <2>3, <2>6 DEF Clear
  <2> QED
    BY <2>1, <2>4, <2>5, <2>6
<1>6. CASE counted'[sc] = {}
  BY <1>6, ResetBound
<1>7. CASE counted'[sc] # {}
  BY <1>1, <1>4, <1>5, <1>7, KeepsBound
<1> QED
  BY <1>6, <1>7

\* Every step keeps the bound, and counts nobody before reserve() begins.
LEMMA NextGuesses ==
    ASSUME TypeOK, TypeOK', GuessInv, [Next]_vars
    PROVE  GuessInv'
<1>1. ASSUME NEW r \in Submits, NEW s \in Sources, NEW ip \in Ips,
             NEW l \in Logins \cup {NoLogin}, Arrive(r, s, ip, l)
      PROVE  GuessInv'
  <2> DEFINE q == [pc |-> "check", scopes |-> lockScopes(s, ip, l),
                   i |-> 1, over |-> FALSE, n |-> <<0, 0>>]
  <2>1. /\ submit' = [submit EXCEPT ![r] = q] /\ submit[r].pc = "idle"
        /\ UNCHANGED <<fails, locks, counted>>
    BY <1>1 DEF Arrive, Goto, At
  <2> HIDE DEF q
  <2>2. \A sc \in Scopes : r \notin counted[sc] /\ counted[sc] \subseteq Submits
    BY <2>1 DEF GuessInv, CountedLater, TypeOK
  <2>3. CountedLater'
    BY <2>1, <2>2 DEF GuessInv, CountedLater, TypeOK
  <2>4. ASSUME NEW sc \in Scopes
        PROVE  Bounded(sc)'
    <3>1. fails[sc] <= fails[sc] /\ locks[sc] \in BOOLEAN /\ Bounded(sc)
      BY DEF TypeOK, GuessInv
    <3> QED
      BY <2>1, <2>2, <3>1, KeepsBound
  <2> QED
    BY <2>3, <2>4 DEF GuessInv
<1>2. ASSUME NEW r \in Submits, Step(r)
      PROVE  GuessInv'
  <2>1. PICK q \in Loops : submit' = [submit EXCEPT ![r] = q] /\ Edge(submit[r].pc, q.pc)
    BY <1>2, StepGoes DEF Goes
  <2>2. \A u \in Submits : submit'[u] = IF u = r THEN q ELSE submit[u]
    BY <2>1 DEF TypeOK
  <2>3. ASSUME NEW sc \in Scopes
        PROVE  /\ counted'[sc] \subseteq counted[sc] \cup {r}
               /\ submit[r].pc \in {"check", "ready"} => counted'[sc] = counted[sc]
    <3>1. \/ counted' = counted \/ Clear(Scope(r))
          \/ counted' = [counted EXCEPT ![Scope(r)] = @ \cup {r}]
          \/ counted' = [counted EXCEPT ![Scope(r)] = @ \ {r}]
      BY <1>2
      DEF Step, LockCheck, Reserve, Count, CountFails, ReserveLock, LockRead, LockReadFails,
          TakeSlot, LockSpent, ClearScope, Verified
    <3>2. submit[r].pc \in {"check", "ready"} => counted' = counted
      BY <1>2
      DEF Step, LockCheck, Reserve, Count, CountFails, ReserveLock, LockRead, LockReadFails,
          TakeSlot, LockSpent, ClearScope, Verified, At
    <3>3. Scope(r) \in Scopes /\ counted \in [Scopes -> SUBSET Submits]
      BY <1>2, StepGoes DEF TypeOK
    <3> QED
      BY <3>1, <3>2, <3>3 DEF Clear
  <2>4. CountedLater'
    <3> SUFFICES ASSUME NEW sc \in Scopes, NEW u \in counted'[sc]
                 PROVE  submit'[u].pc \notin {"idle", "check", "ready"}
      BY DEF CountedLater
    <3>1. u \in Submits
      BY DEF TypeOK
    <3>2. CASE u # r
      BY <2>2, <2>3, <3>1, <3>2 DEF GuessInv, CountedLater
    <3>3. CASE u = r
      <4>1. submit[r].pc \notin {"check", "ready"}
        BY <2>3, <3>3 DEF GuessInv, CountedLater
      <4>2. q.pc \notin {"idle", "check", "ready"}
        BY <2>1, <4>1 DEF Edge
      <4> QED
        BY <2>2, <3>1, <3>3, <4>2
    <3> QED
      BY <3>2, <3>3
  <2>5. ASSUME NEW sc \in Scopes
        PROVE  Bounded(sc)'
    <3>1. Bounded(sc) /\ CountedLater
      BY DEF GuessInv
    <3>2. CASE submit[r].pc \notin {"count", "lock", "read"}
      BY <1>2, <3>1, <3>2, OtherBound
    <3>3. CASE submit[r].pc \in {"count", "lock", "read"}
      <4>1. Count(r) \/ CountFails(r) \/ ReserveLock(r) \/ LockRead(r) \/ LockReadFails(r)
        BY <1>2, <3>3
        DEF Step, LockCheck, Reserve, Count, CountFails, ReserveLock, LockRead,
            LockReadFails, TakeSlot, LockSpent, ClearScope, Verified, At
      <4> QED
        BY <3>1, <4>1, CountBound, ReserveBound
    <3> QED
      BY <3>2, <3>3
  <2> QED
    BY <2>4, <2>5 DEF GuessInv
<1>3. ASSUME NEW sc \in Scopes, LockExpires(sc) \/ CounterExpires(sc)
      PROVE  GuessInv'
  <2>1. submit' = submit
    BY <1>3 DEF LockExpires, CounterExpires
  <2>2. ASSUME NEW x \in Scopes
        PROVE  /\ counted'[x] \in {counted[x], {}}
               /\ \/ counted'[x] = {}
                  \/ UNCHANGED <<locks[x], fails[x]>>
                  \/ locks[x] /\ locks'[x]
    BY <1>3 DEF LockExpires, CounterExpires, TypeOK
  <2>3. CountedLater'
    BY <2>1, <2>2 DEF GuessInv, CountedLater
  <2>4. ASSUME NEW x \in Scopes
        PROVE  Bounded(x)'
    <3>1. Bounded(x) /\ fails[x] \in Nat
      BY DEF GuessInv, TypeOK
    <3>2. CASE counted'[x] = {}
      BY <3>2, ResetBound
    <3>3. CASE counted'[x] = counted[x]
      <4>1. Alive(x)' = Alive(x) /\ Decided(x)' = Decided(x)
        BY <2>1, <3>3 DEF Alive, Decided
      <4>2. CASE UNCHANGED <<locks[x], fails[x]>>
        BY <3>1, <3>3, <4>1, <4>2 DEF Bounded
      <4>3. CASE locks[x] /\ locks'[x]
        BY <3>1, <4>1, <4>3 DEF Bounded
      <4> QED
        BY <2>2, <3>2, <4>2, <4>3
    <3> QED
      BY <2>2, <3>2, <3>3
  <2> QED
    BY <2>3, <2>4 DEF GuessInv
<1>4. CASE UNCHANGED vars
  BY <1>4 DEF vars, GuessInv, CountedLater, Bounded, Alive, Decided
<1> QED
  BY <1>1, <1>2, <1>3, <1>4 DEF Next

(***************************************************************************)
(* The theorems                                                            *)
(***************************************************************************)

\* The state of the form process at its start satisfies the invariant.
LEMMA InitInv ==
    ASSUME Init
    PROVE  IInv
<1>1. TypeOK
  BY DEF Init, TypeOK
<1>2. SlotsAccounted
  <2>1. Holding = {}
    BY DEF Init, Holding, NoSubmit
  <2> QED
    BY <2>1, FS_EmptySet, AttemptsAssumption DEF Init, SlotsAccounted
<1>3. \A sc \in Scopes : counted[sc] = {} /\ Alive(sc) = {} /\ fails[sc] = 0 /\ ~locks[sc]
  BY DEF Init, Alive
<1>4. GuessInv
  BY <1>3, FS_EmptySet, AttemptsAssumption DEF GuessInv, CountedLater, Bounded
<1> QED
  BY <1>1, <1>2, <1>4 DEF IInv

\* Bounded holds of every scope in every reachable state: the counted submits
\* that may still get their check, or got it, stay within lockout.attempts
\* whatever submit(), reserve() and the roster interleave.
THEOREM Invariance == Spec => []IInv
<1>1. Init => IInv
  BY InitInv
<1>2. IInv /\ [Next]_vars => IInv'
  BY NextTypes, NextSlots, NextGuesses DEF IInv
<1> QED
  BY <1>1, <1>2, PTL DEF Spec

\* Parallel submits of the form get no extra guesses, with any number of them,
\* of scopes and of failing calls to the roster.
THEOREM NoExtraGuesses == Spec => []GuessBound
<1>1. IInv => GuessBound
  <2> SUFFICES ASSUME IInv, NEW sc \in Scopes
               PROVE  Cardinality(counted[sc] \cap Guessing) <= Attempts
    BY DEF GuessBound
  <2>1. TypeOK /\ Bounded(sc)
    BY DEF IInv, GuessInv
  <2> DEFINE G == counted[sc] \cap Guessing
  <2>2. G \subseteq Decided(sc)
    BY DEF Guessing, Decided, Settled, Live
  <2>3. Cardinality(G) <= Cardinality(Decided(sc)) /\ Cardinality(G) \in Nat
    BY <2>1, <2>2, Finite, FS_Subset, FS_CardinalityType
  <2>4. Cardinality(Decided(sc)) <= Cardinality(Alive(sc))
    BY <2>1, Finite, FS_Subset
  <2> HIDE DEF G
  <2>5. Cardinality(G) <= Attempts
    BY <2>1, <2>3, <2>4, Finite DEF Bounded
  <2> QED
    BY <2>5 DEF G
<1> QED
  BY <1>1, Invariance, PTL

\* The only submits whose check is over and that still hold a slot of
\* server.verify are those whose provider panicked (release() is not deferred),
\* and the password checks running at once stay within WAF_AUTH_VERIFY_LIMIT.
THEOREM SlotsKept == Spec => []SlotsAccounted
<1>1. IInv => SlotsAccounted
  BY DEF IInv
<1> QED
  BY <1>1, Invariance, PTL
=============================================================================
