--------------------------- MODULE LoginAttempts ---------------------------
(***************************************************************************)
(* The attempt counters and the lockout of the sign-in form: several       *)
(* submits of the form run at once, each a sequence of single calls to the *)
(* roster in Redis, with the password check between them.                  *)
(*                                                                         *)
(* Code modelled: cmd/http/login.go (submit, reserve, lockSpent, lock,     *)
(* verifySlot, lockedFor, accepted, rejected, lockScopes) and              *)
(* internal/roster/roster.go (Fail, Clear, Lock, LockedFor of Redis).      *)
(* Keys of Redis expire by themselves at any time: the durations           *)
(* lockout.window and lockout.lock are arbitrary.  The single use of       *)
(* tickets and codes is in module OneTimeUse.                              *)
(***************************************************************************)
EXTENDS Integers, Sequences, FiniteSets

CONSTANTS
    Submits,      \* the submits of the form in a behaviour
    Sources,      \* sources the form process serves
    Ips,          \* client addresses, an IPv6 one being its /64
    Logins,       \* logins that are entered
    NoLogin,      \* the form has no login field, or it was left empty
    Attempts,     \* lockout.attempts, 0 for no limit
    VerifyLimit,  \* WAF_AUTH_VERIFY_LIMIT
    MaxFaults     \* bound on the calls to Redis that fail

ASSUME AttemptsAssumption ==
    /\ Attempts \in Nat
    /\ VerifyLimit \in Nat \ {0}
    /\ MaxFaults \in Nat
    /\ NoLogin \notin Logins
    /\ IsFiniteSet(Submits)

VARIABLES
    submit,   \* where each submit of the form is
    fails,    \* roster: fail:<scope>, 0 while the key does not exist
    locks,    \* roster: lock:<scope> exists
    faults,   \* calls to Redis that failed
    slots,    \* tokens in the channel server.verify
    counted   \* history: submits counted in each scope since it was last reset

vars == <<submit, fails, locks, faults, slots, counted>>

(***************************************************************************)
(* Scopes                                                                  *)
(***************************************************************************)

Scopes == (Sources \X {"ip"} \X Ips) \cup (Sources \X {"user"} \X Logins)

\* lockScopes: the counters that a submit of source s runs up.
lockScopes(s, ip, login) ==
    IF login = NoLogin
    THEN << <<s, "ip", ip>> >>
    ELSE << <<s, "ip", ip>>, <<s, "user", login>> >>

\* The scope that submit r is at in its loop.
Scope(r) == submit[r].scopes[submit[r].i]

(***************************************************************************)
(* The roster                                                              *)
(***************************************************************************)

\* A call to Redis works, or it fails.
Works == UNCHANGED faults
Fails == faults < MaxFaults /\ faults' = faults + 1

\* INCR of the counter.
Fail(sc) == fails' = [fails EXCEPT ![sc] = @ + 1]

\* MULTI: SET of the lock, DEL of the counter.
Lock(sc) ==
    /\ locks' = [locks EXCEPT ![sc] = TRUE]
    /\ fails' = [fails EXCEPT ![sc] = 0]

LockOrFail(sc) == (Lock(sc) /\ Works) \/ (Fails /\ UNCHANGED <<locks, fails>>)

\* DEL of both keys: the scope starts anew.
Clear(sc) ==
    /\ locks' = [locks EXCEPT ![sc] = FALSE]
    /\ fails' = [fails EXCEPT ![sc] = 0]
    /\ counted' = [counted EXCEPT ![sc] = {}]

(***************************************************************************)
(* A submit                                                                *)
(***************************************************************************)

NoSubmit == [pc |-> "idle"]

Init ==
    /\ submit = [r \in Submits |-> NoSubmit]
    /\ fails = [sc \in Scopes |-> 0]
    /\ locks = [sc \in Scopes |-> FALSE]
    /\ faults = 0 /\ slots = 0
    /\ counted = [sc \in Scopes |-> {}]

At(r, pc) == submit[r].pc = pc

\* The state of submit r after its work on the scope at hand: the next scope,
\* back at pc again, or past the loop, at pc end.
Loop(q, again, end) ==
    IF q.i < Len(q.scopes)
    THEN [q EXCEPT !.pc = again, !.i = @ + 1]
    ELSE [q EXCEPT !.pc = end, !.i = 1]

Goto(r, q) == submit' = [submit EXCEPT ![r] = q]

\* A submit with a good ticket arrives.
Arrive(r, s, ip, login) ==
    /\ At(r, "idle")
    /\ Goto(r, [pc |-> "check", scopes |-> lockScopes(s, ip, login),
                i |-> 1, over |-> FALSE, n |-> <<0, 0>>])
    /\ UNCHANGED <<fails, locks, faults, slots, counted>>

\* lockedFor: one read of a lock; a read that fails counts as unlocked.
LockCheck(r) ==
    /\ At(r, "check")
    /\ \E seen \in {locks[Scope(r)], FALSE} :
         /\ IF seen = locks[Scope(r)] THEN Works ELSE Fails
         /\ LET q == [submit[r] EXCEPT !.over = @ \/ seen]
            IN  Goto(r, Loop(q, "check", IF q.over THEN "refused" ELSE "ready"))
    /\ UNCHANGED <<fails, locks, slots, counted>>

\* The nonce is fresh and the first gate passed: reserve() begins, or has
\* nothing to count.  Otherwise the form comes back.
Reserve(r) ==
    /\ At(r, "ready")
    /\ \/ Goto(r, [submit[r] EXCEPT !.pc = IF Attempts = 0 THEN "slot" ELSE "count"])
       \/ Goto(r, [submit[r] EXCEPT !.pc = "refused"])
    /\ UNCHANGED <<fails, locks, faults, slots, counted>>

\* What reserve() does once the work on a scope is over.
ReserveLoop(r, q) == Goto(r, Loop(q, "count", IF q.over THEN "refused" ELSE "slot"))

\* The attempt is counted, before the password is checked.
Count(r) ==
    /\ At(r, "count")
    /\ Fail(Scope(r))
    /\ LET n == fails[Scope(r)] + 1
       IN  Goto(r, [submit[r] EXCEPT !.n[submit[r].i] = n,
                                     !.pc = IF n > Attempts THEN "lock" ELSE "read"])
    /\ counted' = [counted EXCEPT ![Scope(r)] = @ \cup {r}]
    /\ Works
    /\ UNCHANGED <<locks, slots>>

\* The count failed, applied or not: the scope does not limit this submit.
CountFails(r) ==
    /\ At(r, "count")
    /\ Fails
    /\ Fail(Scope(r)) \/ UNCHANGED fails
    /\ ReserveLoop(r, submit[r])
    /\ UNCHANGED <<locks, slots, counted>>

\* Past the limit: the scope is locked.
ReserveLock(r) ==
    /\ At(r, "lock")
    /\ LockOrFail(Scope(r))
    /\ ReserveLoop(r, [submit[r] EXCEPT !.over = TRUE])
    /\ UNCHANGED <<slots, counted>>

\* Mutant of LockRead: the lock is not read again after the count.
LockNotRead(r) ==
    /\ At(r, "read")
    /\ ReserveLoop(r, submit[r])
    /\ Works
    /\ UNCHANGED <<fails, locks, slots, counted>>

\* Within the limit: the lock is read after the count.
LockRead(r) ==
    /\ At(r, "read")
    /\ ReserveLoop(r, [submit[r] EXCEPT !.over = @ \/ locks[Scope(r)]])
    /\ Works
    /\ UNCHANGED <<fails, locks, slots, counted>>

\* That read fails and counts as unlocked: the scope does not limit this submit.
LockReadFails(r) ==
    /\ At(r, "read")
    /\ Fails
    /\ ReserveLoop(r, submit[r])
    /\ counted' = [counted EXCEPT ![Scope(r)] = @ \ {r}]
    /\ UNCHANGED <<fails, locks, slots>>

\* verifySlot: a slot is free, or the wait for one is over.
TakeSlot(r) ==
    /\ At(r, "slot")
    /\ \/ /\ slots < VerifyLimit
          /\ slots' = slots + 1
          /\ Goto(r, [submit[r] EXCEPT !.pc = "verify"])
       \/ /\ slots' = slots
          /\ Goto(r, [submit[r] EXCEPT !.pc = "refused"])
    /\ UNCHANGED <<fails, locks, faults, counted>>

\* Mutant of Verified: the early return for an unavailable provider keeps the slot.
VerifiedLeaks(r, outcome) ==
    /\ At(r, "verify")
    /\ slots' = IF outcome \in {"unavailable", "panicked"} THEN slots ELSE slots - 1
    /\ Goto(r, [submit[r] EXCEPT !.pc =
         CASE outcome = "accepted" -> "clear"
           [] outcome = "rejected" -> "spent"
           [] outcome = "unavailable" -> "done"
           [] outcome = "panicked" -> "panicked"])
    /\ UNCHANGED <<fails, locks, faults, counted>>

\* provider.Run returns and the slot is free again, whatever burnCode says then:
\* the outcome is the verdict of both.  A provider that is unavailable ends the
\* submit without a lock.  One that panics (a code period below one second
\* divides by zero) ends the submit, which net/http recovers: release() is not
\* deferred, so the slot stays taken.
Verified(r, outcome) ==
    /\ At(r, "verify")
    /\ slots' = IF outcome = "panicked" THEN slots ELSE slots - 1
    /\ Goto(r, [submit[r] EXCEPT !.pc =
         CASE outcome = "accepted" -> "clear"
           [] outcome = "rejected" -> "spent"
           [] outcome = "unavailable" -> "done"
           [] outcome = "panicked" -> "panicked"])
    /\ UNCHANGED <<fails, locks, faults, counted>>

\* rejected(), lockSpent: the scopes whose last attempt this was are locked.
LockSpent(r) ==
    /\ At(r, "spent")
    /\ IF Attempts > 0 /\ submit[r].n[submit[r].i] >= Attempts
       THEN LockOrFail(Scope(r))
       ELSE UNCHANGED <<locks, fails, faults>>
    /\ Goto(r, Loop(submit[r], "spent", "done"))
    /\ UNCHANGED <<slots, counted>>

\* accepted(): the scopes start anew.
ClearScope(r) ==
    /\ At(r, "clear")
    /\ (Clear(Scope(r)) /\ Works) \/ (Fails /\ UNCHANGED <<locks, fails, counted>>)
    /\ Goto(r, Loop(submit[r], "clear", "done"))
    /\ UNCHANGED slots

\* lockout.lock is over: the scope starts anew (Redis, external).
LockExpires(sc) ==
    /\ locks[sc]
    /\ locks' = [locks EXCEPT ![sc] = FALSE]
    /\ counted' = [counted EXCEPT ![sc] = {}]
    /\ UNCHANGED <<submit, fails, faults, slots>>

\* lockout.window went by without an attempt: an open scope starts anew
\* (Redis, external).
CounterExpires(sc) ==
    /\ fails[sc] > 0
    /\ fails' = [fails EXCEPT ![sc] = 0]
    /\ counted' = [counted EXCEPT ![sc] = IF locks[sc] THEN @ ELSE {}]
    /\ UNCHANGED <<submit, locks, faults, slots>>

Outcomes == {"accepted", "rejected", "unavailable", "panicked"}

Step(r) ==
    \/ LockCheck(r) \/ Reserve(r) \/ Count(r) \/ CountFails(r) \/ ReserveLock(r)
    \/ LockRead(r) \/ LockReadFails(r) \/ TakeSlot(r) \/ LockSpent(r) \/ ClearScope(r)
    \/ \E o \in Outcomes : Verified(r, o)

Next ==
    \/ \E r \in Submits, s \in Sources, ip \in Ips, l \in Logins \cup {NoLogin} :
         Arrive(r, s, ip, l)
    \/ \E r \in Submits : Step(r)
    \/ \E sc \in Scopes : LockExpires(sc) \/ CounterExpires(sc)

Spec == Init /\ [][Next]_vars

(***************************************************************************)
(* Properties                                                              *)
(***************************************************************************)

Pcs == {"check", "ready", "count", "lock", "read", "slot", "verify", "spent",
        "clear", "done", "panicked", "refused"}

\* The submits whose password or code is checked, was checked or will be.
Guessing ==
    {r \in Submits :
        submit[r].pc \in {"slot", "verify", "spent", "clear", "done", "panicked"}}

\* Parallel submits get no extra guesses (README.md:97): between two resets of
\* a scope (a sign-in, the end of a lock, an idle window) at most
\* lockout.attempts of the submits that reserve() counted there get their
\* check, however the counts, the locks and the deletion of the counter by
\* Lock interleave.
GuessBound ==
    Attempts > 0 =>
        \A sc \in Scopes : Cardinality(counted[sc] \cap Guessing) <= Attempts

\* The submits that hold a slot: their check runs, or it panicked.
Holding == {r \in Submits : submit[r].pc \in {"verify", "panicked"}}

\* Password checks running at once stay within WAF_AUTH_VERIFY_LIMIT, and the
\* only check that keeps its slot of server.verify once it is over is one whose
\* provider panicked (login.go:124, otp.go:41): every other way out of submit,
\* the early returns among them, gives the slot back.  What is left for the
\* others is therefore VerifyLimit less the panics since the process started;
\* after that many of them every submit is refused.
SlotsAccounted ==
    /\ slots = Cardinality(Holding)
    /\ slots <= VerifyLimit
=============================================================================
