-------------------------- MODULE OneTimeUseProofs --------------------------
(* Proofs about OneTimeUse, for every value of its constants.              *)
EXTENDS OneTimeUse, TLAPS

(***************************************************************************)
(* The inductive invariant                                                 *)
(***************************************************************************)

Tickets == [nonce : Nonces, issued : Nat, expiry : Nat]
Burning == [pc : {"burn"}, nonce : Nonces, ttl : TicketTTLs, since : Nat]
Proving == [pc : {"code"}, key : CodeKeys, since : Nat]
Others == [pc : {"idle", "verify", "done"}]

\* The types of tickets, keys and submits.
TypeOK ==
    /\ now \in Nat
    /\ ttl \in TicketTTLs
    /\ tickets \subseteq Tickets
    /\ nonceKey \in [Nonces -> Nat]
    /\ codeKey \in [CodeKeys -> Nat]
    /\ submit \in [Submits -> Burning \cup Proving \cup Others]
    /\ nonceUses \in [Nonces -> Nat]
    /\ codeUses \in [CodeKeys -> Nat]

\* A nonce is drawn for one ticket.
OneTicket == \A j, k \in tickets : j.nonce = k.nonce => j = k

\* A ticket ends at a whole second, and after some ttl of its day at most.
TicketLife ==
    \A k \in tickets :
        /\ \E m \in Nat : k.expiry = SecondTicks * m
        /\ \E t \in TicketTTLs : k.expiry <= k.issued + t

\* A submit that opened ticket k has come back no sooner than it can, while the
\* ticket was good, and it is within its span.
Opened(q, k) ==
    /\ k.nonce = q.nonce
    /\ k.issued + ReturnSpan <= q.since /\ q.since < k.expiry
    /\ q.since <= now /\ now <= q.since + CheckSpan

\* Every submit about to burn a nonce opened a ticket with it.
BurnKept ==
    \A r \in Submits : submit[r].pc = "burn" => \E k \in tickets : Opened(submit[r], k)

\* The key of a burnt nonce outlives every submit that opened its ticket.
NonceKept ==
    \A n \in Nonces :
        nonceUses[n] > 0 =>
            \E k \in tickets : k.nonce = n /\ k.expiry + CheckSpan <= nonceKey[n]

\* A nonce is used once, and its key stays as long as it must.
TicketInv == TicketTimely => NonceKept /\ \A n \in Nonces : nonceUses[n] <= 1

\* One period, in ticks.
Window == Period * SecondTicks

\* A submit whose code was right at since, and that is within its span.
ProofKept ==
    \A r \in Submits : submit[r].pc = "code" =>
        /\ Window * (submit[r].key[2] - Skew) <= submit[r].since
        /\ submit[r].since < Window * (submit[r].key[2] + Skew + 1)
        /\ submit[r].since <= now /\ now <= submit[r].since + CodeSpan

\* The key of a burnt code outlives every submit whose code was right.
CodeKept ==
    \A k \in CodeKeys : codeUses[k] > 0 => Window * (k[2] + Skew + 2) <= codeKey[k]

\* A code is used once under each spelling.
CodeInv == CodeSpan <= Window => \A k \in CodeKeys : codeUses[k] <= 1

IInv ==
    /\ TypeOK /\ OneTicket /\ TicketLife /\ BurnKept /\ TicketInv
    /\ ProofKept /\ CodeKept /\ CodeInv

(***************************************************************************)
(* Seconds and periods                                                     *)
(***************************************************************************)

\* The order of multiples is the order of the numbers.
LEMMA Multiples ==
    ASSUME NEW s \in Nat \ {0}, NEW m \in Int, NEW n \in Int
    PROVE  /\ s * m \in Int /\ s * n \in Int
           /\ m <= n => s * m <= s * n
           /\ m < n => s * m + s <= s * n
<1>1. ASSUME m <= n
      PROVE  s * m <= s * n
  <2>1. PICK d \in Nat : n = m + d
    <3>1. n - m \in Nat /\ n = m + (n - m)
      BY <1>1
    <3> QED
      BY <3>1
  <2>2. s * n = s * m + s * d /\ s * d \in Nat
    BY <2>1
  <2> QED
    BY <2>2
<1>2. ASSUME m < n
      PROVE  s * m + s <= s * n
  <2>1. PICK d \in Nat : n = m + 1 + d
    <3>1. n - m - 1 \in Nat /\ n = m + 1 + (n - m - 1)
      BY <1>2
    <3> QED
      BY <3>1
  <2>2. s * n = s * m + s + s * d /\ s * d \in Nat
    BY <2>1
  <2> QED
    BY <2>2
<1> QED
  BY <1>1, <1>2

\* A time is a multiple of s and a rest below s.
LEMMA Division ==
    ASSUME NEW s \in Nat \ {0}, NEW t \in Nat
    PROVE  /\ t \div s \in Nat
           /\ t - (t % s) = s * (t \div s)
           /\ s * (t \div s) <= t
           /\ t < s * (t \div s) + s
<1>1. /\ t \div s \in Nat /\ t % s \in 0 .. s - 1
      /\ t = s * (t \div s) + (t % s)
  OBVIOUS
<1>2. s * (t \div s) \in Nat
  BY <1>1
<1> QED
  BY <1>1, <1>2

\* Floor, the cut to the second, yields a whole second that is not later.
LEMMA FloorFacts ==
    ASSUME NEW t \in Nat
    PROVE  Floor(t) \in Nat /\ Floor(t) <= t /\ Floor(t) = SecondTicks * (t \div SecondTicks)
<1>1. SecondTicks * (t \div SecondTicks) \in Nat
  BY Division, OneTimeAssumption
<1> QED
  BY <1>1, Division, OneTimeAssumption DEF Floor

\* A clock whose second lies before a whole second lies before it itself, so
\* the test of a ticket at the second is one at the tick.
LEMMA FloorBelow ==
    ASSUME NEW t \in Nat, NEW m \in Nat, Floor(t) < SecondTicks * m
    PROVE  t < SecondTicks * m
<1> DEFINE e == t \div SecondTicks
<1>1. /\ e \in Nat /\ Floor(t) = SecondTicks * e
      /\ t < SecondTicks * e + SecondTicks
  BY Division, FloorFacts, OneTimeAssumption
<1> HIDE DEF e
<1>2. ~(m <= e) /\ SecondTicks * e \in Int /\ SecondTicks * m \in Int
  BY <1>1, Multiples, OneTimeAssumption
<1>3. SecondTicks * e + SecondTicks <= SecondTicks * m
  BY <1>1, <1>2, Multiples, OneTimeAssumption
<1> QED
  BY <1>1, <1>3, OneTimeAssumption

\* counter is the number of the period that the clock is in.
LEMMA CounterFacts ==
    ASSUME NEW t \in Nat
    PROVE  /\ counter(t) \in Nat /\ Window \in Nat \ {0}
           /\ Window * counter(t) <= t
           /\ t < Window * counter(t) + Window
<1> DEFINE d == t \div SecondTicks
           e == d \div Period
<1>1. d \in Nat /\ SecondTicks * d <= t /\ t < SecondTicks * d + SecondTicks
  BY Division, OneTimeAssumption
<1>2. e \in Nat /\ Period * e <= d /\ d < Period * e + Period
  BY <1>1, Division, OneTimeAssumption
<1>3. counter(t) = e
  BY DEF counter
<1> HIDE DEF d, e
<1>4. /\ Period * e \in Nat
      /\ SecondTicks * (Period * e) <= SecondTicks * d
      /\ SecondTicks * d + SecondTicks <= SecondTicks * (Period * e + Period)
      /\ SecondTicks * d \in Int
  <2>1. Period * e \in Nat /\ Period * e + Period \in Nat
    BY <1>2, OneTimeAssumption
  <2> QED
    BY <1>1, <1>2, <2>1, Multiples, OneTimeAssumption
<1>5. /\ SecondTicks * (Period * e) = Window * e
      /\ SecondTicks * (Period * e + Period) = Window * e + Window
      /\ Window \in Nat \ {0} /\ Window * e \in Nat
  BY <1>2, OneTimeAssumption DEF Window
<1> QED
  BY <1>1, <1>2, <1>3, <1>4, <1>5, OneTimeAssumption

\* A code that totp takes is the one of a period within the skew.
LEMMA ProofTimes ==
    ASSUME now \in Nat, NEW c \in Int, totp(c)
    PROVE  Window * (c - Skew) <= now /\ now < Window * (c + Skew + 1)
<1>1. /\ counter(now) \in Nat /\ Window \in Nat \ {0}
      /\ Window * counter(now) <= now /\ now < Window * counter(now) + Window
  BY CounterFacts
<1>2. /\ c - Skew \in Int /\ c + Skew + 1 \in Int
      /\ c - Skew <= counter(now) /\ counter(now) < c + Skew + 1
  BY <1>1, OneTimeAssumption DEF totp
<1>3. /\ Window * (c - Skew) \in Int /\ Window * (c + Skew + 1) \in Int
      /\ Window * (c - Skew) <= Window * counter(now)
      /\ Window * counter(now) + Window <= Window * (c + Skew + 1)
  BY <1>1, <1>2, Multiples
<1> QED
  BY <1>1, <1>3

(***************************************************************************)
(* Type correctness                                                        *)
(***************************************************************************)

\* How long burnCode keeps a code is a number of ticks.
LEMMA CodeWindowFacts == CodeWindow \in Nat /\ CodeWindow = Window * (2 * Skew + 2)
<1>1. Period * SecondTicks \in Nat /\ 2 * Skew + 2 \in Nat
  BY OneTimeAssumption
<1> QED
  BY <1>1 DEF CodeWindow, Window

\* A submit that is at a step holds what the step uses.
LEMMA SubmitTypes ==
    ASSUME TypeOK, NEW r \in Submits
    PROVE  /\ submit[r].pc = "burn" => submit[r] \in Burning
           /\ submit[r].pc = "code" => submit[r] \in Proving
  BY DEF TypeOK, Burning, Proving, Others

\* Before the first submit nothing is burnt and nothing is used.
LEMMA InitInv ==
    ASSUME Init
    PROVE  IInv
<1>1. Idle \in Others /\ Idle.pc = "idle"
  BY DEF Idle, Others
<1>2. TypeOK
  BY <1>1 DEF Init, TypeOK
<1>3. OneTicket /\ TicketLife
  BY DEF Init, OneTicket, TicketLife
<1>4. BurnKept /\ ProofKept
  BY <1>1 DEF Init, BurnKept, ProofKept
<1>5. NonceKept /\ \A n \in Nonces : nonceUses[n] <= 1
  BY DEF Init, NonceKept
<1>6. CodeKept /\ \A k \in CodeKeys : codeUses[k] <= 1
  BY DEF Init, CodeKept
<1> QED
  BY <1>2, <1>3, <1>4, <1>5, <1>6 DEF IInv, TicketInv, CodeInv

\* Every step keeps the types.
LEMMA NextTypes ==
    ASSUME TypeOK, [Next]_vars
    PROVE  TypeOK'
<1> USE DEF TypeOK
<1>1. ASSUME NEW n \in Nonces, IssueTicket(n)
      PROVE  TypeOK'
  <2>1. ttl \in Nat /\ now + ttl \in Nat
    BY OneTimeAssumption
  <2>2. Floor(now + ttl) \in Nat
    BY <2>1, FloorFacts
  <2>3. [nonce |-> n, issued |-> now, expiry |-> Floor(now + ttl)] \in Tickets
    BY <2>2 DEF Tickets
  <2> QED
    BY <1>1, <2>3 DEF IssueTicket
<1>2. ASSUME NEW r \in Submits, NEW k \in tickets, Open(r, k)
      PROVE  TypeOK'
  <2>1. [pc |-> "burn", nonce |-> k.nonce, ttl |-> ttl, since |-> now] \in Burning
    BY DEF Burning, Tickets
  <2> QED
    BY <1>2, <2>1 DEF Open
<1>3. ASSUME NEW r \in Submits, NEW sub \in Spellings, NEW c \in Codes, Verify(r, sub, c)
      PROVE  TypeOK'
  <2>1. [pc |-> "code", key |-> <<sub, c>>, since |-> now] \in Proving
    BY DEF Proving, CodeKeys
  <2> QED
    BY <1>3, <2>1 DEF Verify
<1>4. [pc |-> "verify"] \in Others /\ [pc |-> "done"] \in Others
  BY DEF Others
<1>5. ASSUME NEW r \in Submits, BurnNonce(r)
      PROVE  TypeOK'
  <2>1. submit[r].nonce \in Nonces /\ submit[r].ttl \in TicketTTLs
    BY <1>5, SubmitTypes DEF BurnNonce, Burning
  <2>2. submit[r].ttl \in Nat
    BY <2>1, OneTimeAssumption
  <2>3. now + submit[r].ttl \in Nat
    BY <2>2
  <2> QED
    BY <1>4, <1>5, <2>1, <2>3 DEF BurnNonce
<1>6. ASSUME NEW r \in Submits, BurnCode(r)
      PROVE  TypeOK'
  <2>1. submit[r].key \in CodeKeys /\ now + CodeWindow \in Nat
    BY <1>6, SubmitTypes, CodeWindowFacts DEF BurnCode, Proving
  <2> QED
    BY <1>4, <1>6, <2>1 DEF BurnCode
<1>7. ASSUME NEW r \in Submits, Refuse(r)
      PROVE  TypeOK'
  BY <1>4, <1>7 DEF Refuse
<1>8. ASSUME NEW t \in TicketTTLs, Reload(t)
      PROVE  TypeOK'
  BY <1>8 DEF Reload
<1>9. CASE Tick
  BY <1>9 DEF Tick
<1>10. CASE UNCHANGED vars
  BY <1>10 DEF vars
<1> QED
  BY <1>1, <1>2, <1>3, <1>5, <1>6, <1>7, <1>8, <1>9, <1>10 DEF Next

(***************************************************************************)
(* Tickets                                                                 *)
(***************************************************************************)

\* A submit that has opened a ticket burns its nonce before the key of an
\* earlier burning is gone.
LEMMA KeyStands ==
    ASSUME TypeOK, OneTicket, BurnKept, NonceKept,
           NEW r \in Submits, submit[r].pc = "burn", nonceUses[submit[r].nonce] > 0
    PROVE  now < nonceKey[submit[r].nonce]
<1> DEFINE n == submit[r].nonce
<1>1. n \in Nonces /\ nonceKey[n] \in Nat /\ submit[r].since \in Nat
  BY SubmitTypes DEF Burning, TypeOK
<1>2. PICK k \in tickets : Opened(submit[r], k)
  BY DEF BurnKept
<1>3. PICK j \in tickets : j.nonce = n /\ j.expiry + CheckSpan <= nonceKey[n]
  BY <1>1 DEF NonceKept
<1>4. k.expiry + CheckSpan <= nonceKey[n]
  BY <1>2, <1>3 DEF OneTicket, Opened
<1>5. k.expiry \in Nat /\ now \in Nat
  BY DEF TypeOK, Tickets
<1> QED
  BY <1>1, <1>2, <1>4, <1>5, OneTimeAssumption DEF Opened

\* The key of a nonce that is burned now stands until no submit that opened the
\* ticket is left, whatever ticket.ttl a reload has set in between.
LEMMA KeyCovers ==
    ASSUME TypeOK, TicketLife, TicketTimely, NEW r \in Submits, submit[r].pc = "burn",
           NEW k \in tickets, Opened(submit[r], k)
    PROVE  k.expiry + CheckSpan <= now + submit[r].ttl
<1>1. PICK t \in TicketTTLs : k.expiry <= k.issued + t
  BY DEF TicketLife
<1>2. /\ submit[r].ttl \in TicketTTLs /\ submit[r].ttl \in Nat /\ t \in Nat
      /\ submit[r].since \in Nat
  BY SubmitTypes, OneTimeAssumption DEF Burning
<1>3. CheckSpan + t - submit[r].ttl <= ReturnSpan
  BY <1>2 DEF TicketTimely
<1>4. k.expiry \in Nat /\ k.issued \in Nat /\ now \in Nat
  BY DEF TypeOK, Tickets
<1> QED
  BY <1>1, <1>2, <1>3, <1>4, OneTimeAssumption DEF Opened

\* A step that leaves the nonces in the roster alone and loses no ticket keeps
\* what the roster has of them.
LEMMA NoncesAlone ==
    ASSUME TicketInv, UNCHANGED <<nonceKey, nonceUses>>, tickets \subseteq tickets'
    PROVE  TicketInv'
  BY DEF TicketInv, NonceKept, TicketTimely

\* Every step keeps the tickets, the submits that opened one, and the nonces.
LEMMA NextTicket ==
    ASSUME TypeOK, OneTicket, TicketLife, BurnKept, TicketInv, [Next]_vars
    PROVE  OneTicket' /\ TicketLife' /\ BurnKept' /\ TicketInv'
<1>1. ASSUME NEW n \in Nonces, IssueTicket(n)
      PROVE  OneTicket' /\ TicketLife' /\ BurnKept' /\ TicketInv'
  <2> DEFINE k == [nonce |-> n, issued |-> now, expiry |-> Floor(now + ttl)]
  <2>1. /\ tickets' = tickets \cup {k} /\ k.nonce = n
        /\ k.issued = now /\ k.expiry = Floor(now + ttl)
        /\ \A j \in tickets : j.nonce # n
        /\ UNCHANGED <<now, submit, nonceKey, nonceUses>>
    BY <1>1 DEF IssueTicket
  <2>2. /\ Floor(now + ttl) <= now + ttl
        /\ \E m \in Nat : Floor(now + ttl) = SecondTicks * m
    <3>1. ttl \in Nat /\ now + ttl \in Nat
      BY OneTimeAssumption DEF TypeOK
    <3> QED
      BY <3>1, FloorFacts, Division, OneTimeAssumption
  <2> HIDE DEF k
  <2>3. OneTicket'
    BY <2>1 DEF OneTicket
  <2>4. TicketLife'
    BY <2>1, <2>2 DEF TicketLife, TypeOK
  <2>5. BurnKept'
    BY <2>1 DEF BurnKept, Opened
  <2> QED
    BY <2>1, <2>3, <2>4, <2>5, NoncesAlone
<1>2. ASSUME NEW r \in Submits, NEW k \in tickets, Open(r, k)
      PROVE  OneTicket' /\ TicketLife' /\ BurnKept' /\ TicketInv'
  <2> DEFINE q == [pc |-> "burn", nonce |-> k.nonce, ttl |-> ttl, since |-> now]
  <2>1. /\ submit' = [submit EXCEPT ![r] = q] /\ q.nonce = k.nonce /\ q.since = now
        /\ k.issued + ReturnSpan <= now /\ Floor(now) < k.expiry
        /\ UNCHANGED <<now, tickets, nonceKey, nonceUses>>
    BY <1>2, OneTimeAssumption DEF Open, OpenTicket, TypeOK, Tickets
  <2>2. now < k.expiry
    BY <2>1, FloorBelow DEF TicketLife, TypeOK
  <2> HIDE DEF q
  <2>3. Opened(submit[r], k)'
    <3>1. submit'[r] = q /\ now \in Nat /\ now <= now /\ now <= now + CheckSpan
      BY <2>1, OneTimeAssumption DEF TypeOK
    <3> QED
      BY <2>1, <2>2, <3>1 DEF Opened
  <2>4. BurnKept'
    BY <2>1, <2>3 DEF BurnKept, Opened, TypeOK
  <2> QED
    BY <2>1, <2>4, NoncesAlone DEF OneTicket, TicketLife
<1>3. ASSUME NEW r \in Submits, BurnNonce(r)
      PROVE  OneTicket' /\ TicketLife' /\ BurnKept' /\ TicketInv'
  <2> DEFINE n == submit[r].nonce
  <2>1. /\ submit[r].pc = "burn" /\ nonceKey[n] <= now
        /\ nonceKey' = [nonceKey EXCEPT ![n] = now + submit[r].ttl]
        /\ nonceUses' = [nonceUses EXCEPT ![n] = @ + 1]
        /\ submit' = [submit EXCEPT ![r] = [pc |-> "verify"]]
        /\ UNCHANGED <<now, tickets>>
    BY <1>3 DEF BurnNonce, Fresh
  <2>2. n \in Nonces
    BY <2>1, SubmitTypes DEF Burning
  <2>3. BurnKept'
    BY <2>1 DEF BurnKept, Opened, TypeOK
  <2>4. PICK k \in tickets : Opened(submit[r], k)
    BY <2>1 DEF BurnKept
  <2>5. ASSUME TicketTimely
        PROVE  NonceKept' /\ \A x \in Nonces : nonceUses'[x] <= 1
    <3>1. NonceKept /\ \A x \in Nonces : nonceUses[x] <= 1
      BY <2>5 DEF TicketInv
    <3>2. nonceUses[n] = 0
      <4>1. nonceUses[n] \in Nat /\ nonceKey[n] \in Nat /\ now \in Nat
        BY <2>2 DEF TypeOK
      <4> QED
        BY <2>1, <3>1, <4>1, KeyStands
    <3>3. /\ nonceUses'[n] = 1 /\ nonceKey'[n] = now + submit[r].ttl
          /\ \A x \in Nonces \ {n} : nonceUses'[x] = nonceUses[x] /\ nonceKey'[x] = nonceKey[x]
      BY <2>1, <2>2, <3>2 DEF TypeOK
    <3>4. k.expiry + CheckSpan <= now + submit[r].ttl /\ k.nonce = n
      BY <2>1, <2>4, <2>5, KeyCovers DEF Opened
    <3> HIDE DEF n
    <3>5. NonceKept'
      BY <2>1, <2>2, <3>1, <3>3, <3>4 DEF NonceKept
    <3> QED
      BY <3>1, <3>3, <3>5
  <2> QED
    BY <2>1, <2>3, <2>5 DEF OneTicket, TicketLife, TicketInv, TicketTimely
<1>4. ASSUME NEW r \in Submits, NEW q, submit' = [submit EXCEPT ![r] = q], q.pc # "burn",
             UNCHANGED <<now, tickets, nonceKey, nonceUses>>
      PROVE  OneTicket' /\ TicketLife' /\ BurnKept' /\ TicketInv'
  <2>1. BurnKept'
    BY <1>4 DEF BurnKept, Opened, TypeOK
  <2> QED
    BY <1>4, <2>1, NoncesAlone DEF OneTicket, TicketLife
<1>5. ASSUME NEW r \in Submits,
             BurnCode(r) \/ Refuse(r) \/ \E sub \in Spellings, c \in Codes : Verify(r, sub, c)
      PROVE  OneTicket' /\ TicketLife' /\ BurnKept' /\ TicketInv'
  <2>1. \E q : /\ submit' = [submit EXCEPT ![r] = q] /\ q.pc # "burn"
               /\ UNCHANGED <<now, tickets, nonceKey, nonceUses>>
    <3>1. CASE BurnCode(r) \/ Refuse(r)
      <4>1. [pc |-> "done"].pc # "burn"
        OBVIOUS
      <4> QED
        BY <3>1, <4>1 DEF BurnCode, Refuse
    <3>2. ASSUME NEW sub \in Spellings, NEW c \in Codes, Verify(r, sub, c)
          PROVE  \E q : /\ submit' = [submit EXCEPT ![r] = q] /\ q.pc # "burn"
                        /\ UNCHANGED <<now, tickets, nonceKey, nonceUses>>
      <4>1. [pc |-> "code", key |-> <<sub, c>>, since |-> now].pc # "burn"
        OBVIOUS
      <4> QED
        BY <3>2, <4>1 DEF Verify
    <3> QED
      BY <1>5, <3>1, <3>2
  <2> QED
    BY <1>4, <2>1
<1>6. CASE Tick
  <2>1. BurnKept'
    <3> SUFFICES ASSUME NEW r \in Submits, submit[r].pc = "burn"
                 PROVE  \E k \in tickets : Opened(submit[r], k)'
      BY <1>6 DEF Tick, BurnKept
    <3>1. PICK k \in tickets : Opened(submit[r], k)
      BY DEF BurnKept
    <3>2. submit[r].since \in Nat /\ now \in Nat
      BY SubmitTypes DEF Burning, TypeOK
    <3>3. now < submit[r].since + CheckSpan /\ now' = now + 1 /\ submit' = submit
      BY <1>6 DEF Tick
    <3> QED
      BY <3>1, <3>2, <3>3, OneTimeAssumption DEF Opened
  <2> QED
    BY <1>6, <2>1, NoncesAlone DEF Tick, OneTicket, TicketLife
<1>7. ASSUME UNCHANGED <<now, tickets, submit, nonceKey, nonceUses>>
      PROVE  OneTicket' /\ TicketLife' /\ BurnKept' /\ TicketInv'
  BY <1>7, NoncesAlone DEF OneTicket, TicketLife, BurnKept, Opened
<1>8. ASSUME NEW t \in TicketTTLs, Reload(t)
      PROVE  OneTicket' /\ TicketLife' /\ BurnKept' /\ TicketInv'
  BY <1>7, <1>8 DEF Reload
<1> QED
  BY <1>1, <1>2, <1>3, <1>5, <1>6, <1>7, <1>8 DEF Next, vars

(***************************************************************************)
(* Codes                                                                   *)
(***************************************************************************)

\* A step that leaves the codes in the roster alone keeps what is said of them.
LEMMA CodesAlone ==
    ASSUME CodeKept, CodeInv, UNCHANGED <<codeKey, codeUses>>
    PROVE  CodeKept' /\ CodeInv'
  BY DEF CodeKept, CodeInv

\* Every step keeps the submits whose code was right, and the burnt codes.
LEMMA NextCode ==
    ASSUME TypeOK, ProofKept, CodeKept, CodeInv, [Next]_vars
    PROVE  ProofKept' /\ CodeKept' /\ CodeInv'
<1>1. ASSUME NEW r \in Submits, NEW sub \in Spellings, NEW c \in Codes, Verify(r, sub, c)
      PROVE  ProofKept' /\ CodeKept' /\ CodeInv'
  <2> DEFINE q == [pc |-> "code", key |-> <<sub, c>>, since |-> now]
  <2>1. /\ submit' = [submit EXCEPT ![r] = q] /\ q.key[2] = c /\ q.since = now
        /\ totp(c) /\ UNCHANGED <<now, codeKey, codeUses>>
    BY <1>1 DEF Verify
  <2>2. c \in Int /\ now \in Nat
    BY OneTimeAssumption DEF Codes, TypeOK
  <2>3. Window * (c - Skew) <= now /\ now < Window * (c + Skew + 1)
    BY <2>1, <2>2, ProofTimes
  <2>4. now <= now /\ now <= now + CodeSpan
    BY <2>2, OneTimeAssumption
  <2> HIDE DEF q
  <2>5. ProofKept'
    BY <2>1, <2>3, <2>4 DEF ProofKept, TypeOK
  <2> QED
    BY <2>1, <2>5, CodesAlone
<1>2. ASSUME NEW r \in Submits, BurnCode(r)
      PROVE  ProofKept' /\ CodeKept' /\ CodeInv'
  <2> DEFINE k == submit[r].key
             c == k[2]
  <2>1. /\ submit[r].pc = "code" /\ codeKey[k] <= now
        /\ codeKey' = [codeKey EXCEPT ![k] = now + CodeWindow]
        /\ codeUses' = [codeUses EXCEPT ![k] = @ + 1]
        /\ submit' = [submit EXCEPT ![r] = [pc |-> "done"]]
        /\ UNCHANGED now
    BY <1>2 DEF BurnCode, Fresh
  <2>2. k \in CodeKeys /\ submit[r].since \in Nat
    BY <2>1, SubmitTypes DEF Proving
  <2>3. ProofKept'
    BY <2>1 DEF ProofKept, TypeOK
  <2>4. /\ Window * (c - Skew) <= submit[r].since
        /\ submit[r].since < Window * (c + Skew + 1)
        /\ submit[r].since <= now /\ now <= submit[r].since + CodeSpan
    BY <2>1 DEF ProofKept
  <2>5. /\ codeKey'[k] = now + CodeWindow /\ codeUses'[k] = codeUses[k] + 1
        /\ \A x \in CodeKeys \ {k} : codeKey'[x] = codeKey[x] /\ codeUses'[x] = codeUses[x]
        /\ now \in Nat /\ codeKey[k] \in Nat /\ codeUses[k] \in Nat
    BY <2>1, <2>2 DEF TypeOK
  <2>6. c \in Int
    BY <2>2, OneTimeAssumption DEF CodeKeys, Codes
  <2>7. /\ Window \in Nat
        /\ Window * (c - Skew) \in Int
        /\ Window * (c + Skew + 1) = Window * (c - Skew) + Window * (2 * Skew + 1)
        /\ Window * (c + Skew + 2) = Window * (c - Skew) + CodeWindow
        /\ Window * (c + Skew + 2) = Window * (c + Skew + 1) + Window
    <3>1. Window \in Nat
      BY OneTimeAssumption DEF Window
    <3>2. Window * (c - Skew) \in Int
      BY <2>6, <3>1, OneTimeAssumption
    <3> QED
      BY <2>6, <3>1, <3>2, CodeWindowFacts, OneTimeAssumption
  <2>8. CodeKept'
    <3>1. Window * (c + Skew + 2) <= codeKey'[k]
      BY <2>2, <2>4, <2>5, <2>7, CodeWindowFacts
    <3> QED
      BY <2>5, <3>1 DEF CodeKept
  <2>9. CodeInv'
    <3> SUFFICES ASSUME CodeSpan <= Window
                 PROVE  \A x \in CodeKeys : codeUses'[x] <= 1
      BY DEF CodeInv
    <3>1. ~(Window * (c + Skew + 2) <= codeKey[k])
      BY <2>1, <2>2, <2>4, <2>5, <2>7, OneTimeAssumption
    <3>2. codeUses[k] = 0
      BY <2>2, <2>5, <3>1 DEF CodeKept
    <3> QED
      BY <2>5, <3>2 DEF CodeInv
  <2> QED
    BY <2>3, <2>8, <2>9
<1>3. ASSUME NEW r \in Submits, NEW q, submit' = [submit EXCEPT ![r] = q], q.pc # "code",
             UNCHANGED <<now, codeKey, codeUses>>
      PROVE  ProofKept' /\ CodeKept' /\ CodeInv'
  <2>1. ProofKept'
    BY <1>3 DEF ProofKept, TypeOK
  <2> QED
    BY <1>3, <2>1, CodesAlone
<1>4. ASSUME NEW r \in Submits, BurnNonce(r) \/ Refuse(r) \/ \E k \in tickets : Open(r, k)
      PROVE  ProofKept' /\ CodeKept' /\ CodeInv'
  <2>1. CASE BurnNonce(r)
    <3>1. [pc |-> "verify"].pc # "code"
      OBVIOUS
    <3> QED
      BY <1>3, <2>1, <3>1 DEF BurnNonce
  <2>2. CASE Refuse(r)
    <3>1. [pc |-> "done"].pc # "code"
      OBVIOUS
    <3> QED
      BY <1>3, <2>2, <3>1 DEF Refuse
  <2>3. ASSUME NEW k \in tickets, Open(r, k)
        PROVE  ProofKept' /\ CodeKept' /\ CodeInv'
    <3>1. [pc |-> "burn", nonce |-> k.nonce, ttl |-> ttl, since |-> now].pc # "code"
      OBVIOUS
    <3> QED
      BY <1>3, <2>3, <3>1 DEF Open
  <2> QED
    BY <1>4, <2>1, <2>2, <2>3
<1>5. CASE Tick
  <2>1. ProofKept'
    <3> SUFFICES ASSUME NEW r \in Submits, submit[r].pc = "code"
                 PROVE  submit[r].since <= now' /\ now' <= submit[r].since + CodeSpan
      BY <1>5 DEF Tick, ProofKept
    <3>1. submit[r].since \in Nat /\ now \in Nat
      BY SubmitTypes DEF Proving, TypeOK
    <3> QED
      BY <1>5, <3>1, OneTimeAssumption DEF Tick, ProofKept
  <2> QED
    BY <1>5, <2>1, CodesAlone DEF Tick
<1>6. ASSUME UNCHANGED <<now, submit, codeKey, codeUses>>
      PROVE  ProofKept' /\ CodeKept' /\ CodeInv'
  BY <1>6, CodesAlone DEF ProofKept
<1>7. ASSUME NEW n \in Nonces, IssueTicket(n)
      PROVE  ProofKept' /\ CodeKept' /\ CodeInv'
  BY <1>6, <1>7 DEF IssueTicket
<1>8. ASSUME NEW t \in TicketTTLs, Reload(t)
      PROVE  ProofKept' /\ CodeKept' /\ CodeInv'
  BY <1>6, <1>8 DEF Reload
<1> QED
  BY <1>1, <1>2, <1>4, <1>5, <1>6, <1>7, <1>8 DEF Next, vars

(***************************************************************************)
(* The theorems                                                            *)
(***************************************************************************)

\* What the roster keeps of nonces and codes outlives every submit that tested
\* its ticket or its code before they were burned.
THEOREM Invariance == Spec => []IInv
<1>1. Init => IInv
  BY InitInv
<1>2. IInv /\ [Next]_vars => IInv'
  BY NextTypes, NextTicket, NextCode DEF IInv
<1> QED
  BY <1>1, <1>2, PTL DEF Spec

\* Roster.Burn lets one submit through for each ticket that was handed out, at
\* the last moment of the ticket too, on the condition TicketTimely: the ticket
\* comes back no sooner than the longest delay before the burning together with
\* what a reload can take off ticket.ttl.  Without it a second submit passes.
THEOREM TicketsOnce == Spec => []TicketOnce
<1>1. IInv => TicketOnce
  BY DEF IInv, TicketInv, TicketOnce
<1> QED
  BY <1>1, Invariance, PTL

\* burnCode lets one sign-in through for each TOTP code and spelling of the
\* subject, when its check and the burning lie within one period.
THEOREM CodesOnce == Spec => []CodeOnce
<1>1. IInv => CodeOnce
  BY DEF IInv, CodeInv, CodeOnce, Window
<1> QED
  BY <1>1, Invariance, PTL
=============================================================================
