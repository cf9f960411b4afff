----------------------------- MODULE OneTimeUse -----------------------------
(***************************************************************************)
(* What a sign-in may use once: the login ticket and the TOTP code.  Both  *)
(* are tested against the clock first and burned in the roster later, so a *)
(* second use is kept out by the burnt key while the ticket or the code    *)
(* is still good, and by the clock afterwards.                             *)
(*                                                                         *)
(* The key of a code is not the code: burnCode joins the subject to it as  *)
(* the first gate's session spells it, while secretOf looks the secret up  *)
(* by the lower-cased login.  An LDAP bind by upn or dn_template, or NTLM  *)
(* without a search, keeps the case that was typed, so one person may come *)
(* under several spellings that share the secret and its codes but no key. *)
(*                                                                         *)
(* Code modelled: cmd/http/server.go (page), cmd/http/login.go (submit,    *)
(* burnCode), internal/decide/decide.go (redirect), internal/token/token.go*)
(* (OpenTicket), internal/provider/code.go (totp), internal/otp/otp.go     *)
(* (counter) and internal/roster/roster.go (Burn).  The counters and locks *)
(* of module LoginAttempts only refuse more submits.                       *)
(***************************************************************************)
EXTENDS Integers, FiniteSets

CONSTANTS
    Submits,      \* submits of the form in a behaviour
    Nonces,       \* nonces that token.NewID may draw
    Spellings,    \* subjects that first gates give the person: alice, Alice
    SecondTicks,  \* clock ticks per second
    TicketTTLs,   \* values that reloads give to ticket.ttl, in ticks
    ReturnSpan,   \* least time from the issue of a ticket to a submit with it
    CheckSpan,    \* longest time from OpenTicket to the burning of the nonce
    Period,       \* providers.code.period, in whole seconds
    Skew,         \* providers.code.skew
    CodeSpan,     \* longest time from the test of a code to its burning
    MaxClock      \* bound: last tick of a behaviour

ASSUME OneTimeAssumption ==
    /\ SecondTicks \in Nat \ {0} /\ Period \in Nat \ {0}
    /\ TicketTTLs \subseteq Nat \ {0} /\ TicketTTLs # {}
    /\ ReturnSpan \in Nat /\ CheckSpan \in Nat /\ CodeSpan \in Nat
    /\ Skew \in Nat /\ MaxClock \in Nat

VARIABLES
    now,       \* the clock
    ttl,       \* ticket.ttl of the current snapshot of the profiles
    tickets,   \* tickets handed out, in any copy
    nonceKey,  \* roster: until when nonce:<nonce> exists
    codeKey,   \* roster: until when totp:<spelling>:<code> exists
    submit,    \* where each submit is
    nonceUses, \* history: submits that burned each nonce
    codeUses   \* history: submits signed in with each code, by the spelling

vars == <<now, ttl, tickets, nonceKey, codeKey, submit, nonceUses, codeUses>>

Floor(t) == t - (t % SecondTicks)

\* otp.counter: the number of the period that the clock is in.
counter(t) == (t \div SecondTicks) \div Period

\* The codes of the person's secret, named by their counters.
Codes == 0 .. (counter(MaxClock) + Skew)

\* What burnCode burns: id.Subject + ":" + creds.Code, case-sensitive.
CodeKeys == Spellings \X Codes

(***************************************************************************)
(* The tests against the clock and the burning                             *)
(***************************************************************************)

\* OpenTicket: the ticket's expiry lies ahead.
OpenTicket(k) == Floor(now) < k.expiry

\* Code.totp: the code is the one of a counter within the skew.
totp(c) == c \in (counter(now) - Skew) .. (counter(now) + Skew)

\* Mutant of Fresh: the key goes a tick too early.
FreshEarly(until) == until <= now + 1

\* Roster.Burn: SETNX, the key being there for d.
Fresh(until) == until <= now

\* Mutant of CodeWindow: the window that the code is good for, and no more.
CodeWindowShort == Period * SecondTicks * (2 * Skew + 1)

\* How long burnCode keeps a code: Period * (2 * Skew + 2).
CodeWindow == Period * SecondTicks * (2 * Skew + 2)

(***************************************************************************)
(* Actions                                                                 *)
(***************************************************************************)

Idle == [pc |-> "idle"]

Init ==
    /\ now = 0
    /\ ttl \in TicketTTLs
    /\ tickets = {}
    /\ nonceKey = [n \in Nonces |-> 0]
    /\ codeKey = [k \in CodeKeys |-> 0]
    /\ submit = [r \in Submits |-> Idle]
    /\ nonceUses = [n \in Nonces |-> 0]
    /\ codeUses = [k \in CodeKeys |-> 0]

\* The form, or the inspector's redirect to it, hands out a fresh ticket.
IssueTicket(n) ==
    /\ \A k \in tickets : k.nonce # n
    /\ tickets' = tickets \cup {[nonce |-> n, issued |-> now, expiry |-> Floor(now + ttl)]}
    /\ UNCHANGED <<now, ttl, nonceKey, codeKey, submit, nonceUses, codeUses>>

\* submit(): the ticket opens, with the source of the snapshot at hand.
Open(r, k) ==
    /\ submit[r] = Idle
    /\ now >= k.issued + ReturnSpan
    /\ OpenTicket(k)
    /\ submit' = [submit EXCEPT
         ![r] = [pc |-> "burn", nonce |-> k.nonce, ttl |-> ttl, since |-> now]]
    /\ UNCHANGED <<now, ttl, tickets, nonceKey, codeKey, nonceUses, codeUses>>

\* The nonce is burned for the ttl of that snapshot.
BurnNonce(r) ==
    /\ submit[r].pc = "burn"
    /\ Fresh(nonceKey[submit[r].nonce])
    /\ nonceKey' = [nonceKey EXCEPT ![submit[r].nonce] = now + submit[r].ttl]
    /\ nonceUses' = [nonceUses EXCEPT ![submit[r].nonce] = @ + 1]
    /\ submit' = [submit EXCEPT ![r] = [pc |-> "verify"]]
    /\ UNCHANGED <<now, ttl, tickets, codeKey, codeUses>>

\* provider.Run accepts the code c of a person whom the first gate calls sub:
\* the secret is the same for every spelling.
Verify(r, sub, c) ==
    /\ submit[r].pc = "verify"
    /\ totp(c)
    /\ submit' = [submit EXCEPT ![r] = [pc |-> "code", key |-> <<sub, c>>, since |-> now]]
    /\ UNCHANGED <<now, ttl, tickets, nonceKey, codeKey, nonceUses, codeUses>>

\* burnCode: the code is burned and the session issued.
BurnCode(r) ==
    /\ submit[r].pc = "code"
    /\ Fresh(codeKey[submit[r].key])
    /\ codeKey' = [codeKey EXCEPT ![submit[r].key] = now + CodeWindow]
    /\ codeUses' = [codeUses EXCEPT ![submit[r].key] = @ + 1]
    /\ submit' = [submit EXCEPT ![r] = [pc |-> "done"]]
    /\ UNCHANGED <<now, ttl, tickets, nonceKey, nonceUses>>

\* The key is there already, Redis fails (both refuse), the code is wrong or
\* the client went away.
Refuse(r) ==
    /\ submit[r].pc \in {"burn", "verify", "code"}
    /\ submit' = [submit EXCEPT ![r] = [pc |-> "done"]]
    /\ UNCHANGED <<now, ttl, tickets, nonceKey, codeKey, nonceUses, codeUses>>

\* A reload of the profiles brings another ticket.ttl.
Reload(t) ==
    /\ t # ttl
    /\ ttl' = t
    /\ UNCHANGED <<now, tickets, nonceKey, codeKey, submit, nonceUses, codeUses>>

\* Time passes, but no submit outlives its spans.
Tick ==
    /\ now < MaxClock
    /\ \A r \in Submits :
         /\ submit[r].pc = "burn" => now < submit[r].since + CheckSpan
         /\ submit[r].pc = "code" => now < submit[r].since + CodeSpan
    /\ now' = now + 1
    /\ UNCHANGED <<ttl, tickets, nonceKey, codeKey, submit, nonceUses, codeUses>>

Next ==
    \/ \E n \in Nonces : IssueTicket(n)
    \/ \E r \in Submits, k \in tickets : Open(r, k)
    \/ \E r \in Submits, sub \in Spellings, c \in Codes : Verify(r, sub, c)
    \/ \E r \in Submits : BurnNonce(r) \/ BurnCode(r) \/ Refuse(r)
    \/ \E t \in TicketTTLs : Reload(t)
    \/ Tick

Spec == Init /\ [][Next]_vars

(***************************************************************************)
(* Properties                                                              *)
(***************************************************************************)

\* A ticket comes back no sooner than a submit takes from the test of the
\* ticket to the burning of its nonce, and than a reload can shorten its life.
TicketTimely == \A s, t \in TicketTTLs : CheckSpan + s - t <= ReturnSpan

\* The login ticket is single-use (README.md:97), in parallel submits and at
\* the last moment of its life too: the burnt nonce outlives every submit that
\* opened the ticket in time.
TicketOnce == TicketTimely => \A n \in Nonces : nonceUses[n] <= 1

\* A TOTP code signs in once under each spelling of the subject that a first
\* gate gives: burnCode keeps it longer than any clock within the skew takes it,
\* and a check that is slower than one period is the only way past that.  A
\* person is kept to one use where the first gates write the subject one way; the
\* typed case of an LDAP bind by upn or dn_template (ldap.go:385) is one more use
\* for each spelling, since the key is case-sensitive (login.go:335) and the
\* secret is not (code.go:55).
CodeOnce ==
    CodeSpan <= Period * SecondTicks => \A k \in CodeKeys : codeUses[k] <= 1
=============================================================================
