-------------------------- MODULE SessionLifeProofs --------------------------
(* Proofs about SessionLife, for every value of its constants.             *)
EXTENDS SessionLife, WellFoundedInduction, TLAPS

(***************************************************************************)
(* The inductive invariant                                                 *)
(***************************************************************************)

\* A multiple of a second, as every time a cookie carries is.
WholeSecond(t) == \E n \in Nat : t = SecondTicks * n

\* A session carries the second of its sign-in through every renewal.
BirthKept(k) ==
    /\ signedIn[k.sid] # Never
    /\ k.born <= signedIn[k.sid]
    /\ MaxTTL > 0 => k.expiry <= k.born + MaxTTL

\* No session outlives the loss of its user by more than one check and one ttl.
LossKept(k) ==
    /\ k.expiry <= now + TTL
    /\ offSince # Never => k.expiry <= offSince + VerifySpan + TTL
    /\ k.cred # user.password =>
         replacedAt[k.cred] # Never /\ k.expiry <= replacedAt[k.cred] + VerifySpan + TTL

\* A password check in progress started before its user was lost.
CheckKept(r) ==
    /\ r.since <= now /\ now <= r.since + VerifySpan
    /\ Usable(r.user) /\ offSince # Never => r.since <= offSince
    /\ r.user.password # user.password =>
         replacedAt[r.user.password] # Never /\ r.since <= replacedAt[r.user.password]

Kept(k) == WholeSecond(k.expiry) /\ BirthKept(k) /\ LossKept(k)

RequestKept(r) ==
    /\ r.st = "verify" => CheckKept(r)
    /\ r.st = "issue" => Kept(r.session)

\* The parts of the invariant: the history of the user's losses, the sessions
\* in cookies, and the requests that are about to put one in a cookie.
OffKept == (Usable(user) <=> offSince = Never) /\ offSince <= now
TokensKept == \A k \in tokens : Kept(k)
RequestsKept == \A h \in Handlers : RequestKept(handler[h])

IInv == TypeOK /\ OffKept /\ TokensKept /\ RequestsKept

(***************************************************************************)
(* Whole seconds                                                           *)
(***************************************************************************)

\* Division: a time is its whole seconds and a rest shorter than a second.
LEMMA Seconds ==
    ASSUME NEW t \in Nat
    PROVE  /\ t \div SecondTicks \in Nat
           /\ t % SecondTicks \in 0 .. SecondTicks - 1
           /\ t = SecondTicks * (t \div SecondTicks) + (t % SecondTicks)
  BY SessionAssumption

\* The order of whole seconds is the order of their numbers.
LEMMA SecondOrder ==
    ASSUME NEW m \in Nat, NEW n \in Nat, SecondTicks * m < SecondTicks * n
    PROVE  SecondTicks * m + SecondTicks <= SecondTicks * n
<1> DEFINE s == SecondTicks
<1>1. s \in Nat \ {0}
  BY SessionAssumption
<1>2. m + 1 <= n
  <2>1. CASE n <= m
    <3>1. PICK d \in Nat : m = n + d
      BY <2>1
    <3>2. s * m = s * n + s * d /\ s * d \in Nat /\ s * n \in Nat
      BY <1>1, <3>1
    <3> QED
      BY <3>2
  <2> QED
    BY <2>1
<1>3. PICK d \in Nat : n = m + 1 + d
  BY <1>2
<1>4. s * n = s * m + s + s * d /\ s * d \in Nat /\ s * m \in Nat
  BY <1>1, <1>3
<1> QED
  BY <1>1, <1>4

\* Floor, the cut of a time to the second by time.Time.Unix, yields a whole
\* second that is not later and less than a second earlier.
LEMMA FloorFacts ==
    ASSUME NEW t \in Nat
    PROVE  /\ Floor(t) \in Nat
           /\ Floor(t) <= t
           /\ t < Floor(t) + SecondTicks
           /\ Floor(t) = SecondTicks * (t \div SecondTicks)
<1>1. SecondTicks * (t \div SecondTicks) \in Nat
  BY Seconds, SessionAssumption
<1> QED
  BY <1>1, Seconds, SessionAssumption DEF Floor

\* A clock whose second lies before a whole second lies before it itself.
LEMMA FloorBelow ==
    ASSUME NEW t \in Nat, NEW e, WholeSecond(e), Floor(t) < e
    PROVE  t < e
<1>1. PICK n \in Nat : e = SecondTicks * n
  BY DEF WholeSecond
<1>2. SecondTicks * (t \div SecondTicks) < SecondTicks * n
  BY <1>1, FloorFacts
<1>3. SecondTicks * (t \div SecondTicks) + SecondTicks <= SecondTicks * n
  BY <1>2, SecondOrder, Seconds
<1>4. e \in Nat
  BY <1>1, SessionAssumption
<1> QED
  BY <1>1, <1>3, <1>4, FloorFacts, SessionAssumption

\* What expiryOf returns: a whole second, no later than ttl from now and than
\* max_ttl from the birth of the session.
LEMMA ExpiryFacts ==
    ASSUME NEW t \in Nat, NEW born \in Nat
    PROVE  /\ expiryOf(t, born) \in Nat
           /\ WholeSecond(expiryOf(t, born))
           /\ expiryOf(t, born) <= t + TTL
           /\ MaxTTL > 0 => expiryOf(t, born) <= born + MaxTTL
<1> DEFINE end == IF MaxTTL > 0 THEN Lesser(t + TTL, born + MaxTTL) ELSE t + TTL
<1>1. /\ end \in Nat
      /\ end <= t + TTL
      /\ MaxTTL > 0 => end <= born + MaxTTL
  BY SessionAssumption DEF Lesser
<1>2. expiryOf(t, born) = Floor(end)
  BY DEF expiryOf
<1> HIDE DEF end
<1>3. Floor(end) \in Nat /\ Floor(end) <= end /\ WholeSecond(Floor(end))
  BY <1>1, FloorFacts, Seconds DEF WholeSecond
<1> QED
  BY <1>1, <1>2, <1>3, SessionAssumption

(***************************************************************************)
(* Type correctness                                                        *)
(***************************************************************************)

\* The sessions that accepted() and renew() build are well formed.
LEMMA SessionTypes ==
    ASSUME TypeOK
    PROVE  /\ \A sid \in Sids, c \in Passwords : NewSession(sid, c, now) \in Tokens
           /\ \A k \in Tokens : Renewed(k, now) \in Tokens
<1>1. now \in Nat /\ Floor(now) \in Nat
  BY FloorFacts DEF TypeOK
<1>2. \A b \in Nat : expiryOf(now, b) \in Nat
  BY <1>1, ExpiryFacts
<1> QED
  BY <1>1, <1>2 DEF NewSession, Renewed, Tokens

\* A list command keeps the types of the log and of the lost sessions.
LEMMA PublishTypes ==
    ASSUME TypeOK, NEW op \in {"add", "remove"}, NEW sid \in Sids, NEW exp \in Int,
           Publish(Command(op, sid, exp))
    PROVE  log' \in Seq(Commands) /\ lost' \in SUBSET Sids
<1> DEFINE c == Command(op, sid, exp)
<1>1. c \in Commands /\ c.sid = sid
  BY DEF TypeOK, Command, Commands
<1>2. \/ log' = Append(log, c) /\ lost' = lost
      \/ log' = log /\ lost' = lost \cup {c.sid}
  BY DEF Publish
<1>3. log \in Seq(Commands) /\ lost \in SUBSET Sids
  BY DEF TypeOK
<1> HIDE DEF c
<1> QED
  BY <1>1, <1>2, <1>3

\* Type correctness is inductive.
LEMMA TypeStep ==
    ASSUME TypeOK, [Next]_vars
    PROVE  TypeOK'
<1> USE DEF TypeOK
<1>1. ASSUME NEW h \in Handlers, LoginStart(h) PROVE TypeOK'
  BY <1>1 DEF LoginStart, Verifying, Requests
<1>2. ASSUME NEW h \in Handlers, HandlerFails(h) PROVE TypeOK'
  BY <1>2 DEF HandlerFails, Requests
<1>3. ASSUME NEW h \in Handlers, Issue(h) PROVE TypeOK'
  <2> DEFINE k == handler[h].session
             exp == now + Lesser(k.expiry - now, ListTTL)
  <2>1. k \in Tokens
    BY <1>3 DEF Issue, Requests, Idle
  <2>2. exp \in Int /\ k.sid \in Sids
    BY <2>1, SessionAssumption DEF Tokens, Lesser
  <2>3. log' \in Seq(Commands) /\ lost' \in SUBSET Sids
    <3>1. CASE ListOn
      <4>1. Publish(Command("add", k.sid, exp))
        BY <1>3, <3>1 DEF Issue
      <4> HIDE DEF exp, k
      <4> QED
        BY <4>1, <2>2, PublishTypes
    <3>2. CASE ~ListOn
      BY <1>3, <3>2 DEF Issue
    <3> QED
      BY <3>1, <3>2
  <2>4. tokens' \in SUBSET Tokens
    BY <1>3, <2>1 DEF Issue
  <2> QED
    BY <1>3, <2>3, <2>4 DEF Issue, Requests
<1>4. ASSUME NEW h \in Handlers, NEW s \in Sids, LoginAccepted(h, s) PROVE TypeOK'
  <2>1. handler[h].user.password \in Passwords
    BY <1>4 DEF LoginAccepted, Requests, Idle, Users
  <2>2. NewSession(s, handler[h].user.password, now) \in Tokens
    BY <2>1, SessionTypes
  <2> QED
    BY <1>4, <2>2 DEF LoginAccepted, Issuing, Requests
<1>5. ASSUME NEW h \in Handlers, NEW k \in tokens, RenewGranted(h, k) PROVE TypeOK'
  <2>1. Renewed(k, now) \in Tokens
    BY SessionTypes
  <2> QED
    BY <1>5, <2>1 DEF RenewGranted, Issuing, Requests
<1>6. ASSUME NEW k \in tokens, RenewRefused(k) \/ Logout(k) PROVE TypeOK'
  <2>1. k.sid \in Sids
    BY DEF Tokens
  <2>2. Publish(Command("remove", k.sid, 0))
    BY <1>6 DEF RenewRefused, Logout
  <2>3. log' \in Seq(Commands) /\ lost' \in SUBSET Sids
    BY <2>1, <2>2, PublishTypes
  <2> QED
    BY <1>6, <2>3 DEF RenewRefused, Logout
<1>7. ASSUME NEW s \in Sids, PanelRemove(s) PROVE TypeOK'
  <2>1. Command("remove", s, 0) \in Commands
    BY DEF Command, Commands
  <2> QED
    BY <1>7, <2>1 DEF PanelRemove
<1>8. ASSUME NEW p \in Procs, MirrorAdvance(p) PROVE TypeOK'
  <2>1. PICK n \in mirror[p].seq .. Len(log) :
          mirror' = [mirror EXCEPT ![p] = [ready |-> TRUE, seq |-> n]]
    BY <1>8 DEF MirrorAdvance
  <2>2. n \in Nat
    OBVIOUS
  <2> QED
    BY <1>8, <2>1, <2>2 DEF MirrorAdvance
<1>9. ASSUME NEW p \in Procs, MirrorRestart(p) PROVE TypeOK'
  BY <1>9 DEF MirrorRestart
<1>10. ASSUME NEW u \in Users, UserChange(u) PROVE TypeOK'
  BY <1>10 DEF UserChange, Users
<1>11. CASE Tick
  BY <1>11 DEF Tick
<1>12. CASE UNCHANGED vars
  BY <1>12 DEF vars
<1> QED
  BY <1>1, <1>2, <1>3, <1>4, <1>5, <1>6, <1>7, <1>8, <1>9, <1>10, <1>11, <1>12 DEF Next

(***************************************************************************)
(* The bounds on the life of a session                                     *)
(***************************************************************************)

\* What one step may do to a session that is already built and keep it so:
\* the clock does not run back, no sign-in is redated, and a loss of the user
\* or of a password is dated at the step that makes it.
LEMMA KeptFrame ==
    ASSUME TypeOK, TypeOK', NEW k \in Tokens, Kept(k),
           now <= now',
           signedIn'[k.sid] = signedIn[k.sid],
           offSince' = offSince \/ offSince' = Never \/ offSince' = now,
           \/ user'.password = user.password /\ replacedAt' = replacedAt
           \/ replacedAt' = [replacedAt EXCEPT ![user.password] = now]
    PROVE  Kept(k)'
<1>1. WholeSecond(k.expiry)' /\ BirthKept(k)'
  BY DEF Kept, BirthKept, WholeSecond
<1>2. /\ now \in Nat /\ now' \in Nat /\ k.expiry \in Nat /\ k.cred \in Passwords
      /\ TTL \in Nat /\ VerifySpan \in Nat
      /\ replacedAt \in [Passwords -> Nat \cup {Never}]
      /\ user.password \in Passwords
      /\ k.expiry <= now + TTL
  BY SessionAssumption DEF TypeOK, Tokens, Users, Kept, LossKept
<1>3. offSince' # Never => k.expiry <= offSince' + VerifySpan + TTL
  BY <1>2 DEF Kept, LossKept
<1>4. k.cred # user'.password =>
        replacedAt'[k.cred] # Never /\ k.expiry <= replacedAt'[k.cred] + VerifySpan + TTL
  <2> SUFFICES ASSUME k.cred # user'.password
               PROVE  replacedAt'[k.cred] # Never
                      /\ k.expiry <= replacedAt'[k.cred] + VerifySpan + TTL
    OBVIOUS
  <2>1. CASE k.cred # user.password
    <3>1. replacedAt'[k.cred] = replacedAt[k.cred]
      BY <1>2, <2>1
    <3> QED
      BY <2>1, <3>1 DEF Kept, LossKept
  <2>2. CASE k.cred = user.password
    <3>1. replacedAt'[k.cred] = now
      BY <1>2, <2>2
    <3> QED
      BY <1>2, <3>1 DEF Never
  <2> QED
    BY <2>1, <2>2
<1> QED
  BY <1>1, <1>2, <1>3, <1>4 DEF Kept, LossKept

\* The same for a request in progress, as long as its own span holds.
LEMMA RequestFrame ==
    ASSUME TypeOK, TypeOK', NEW r \in Requests, RequestKept(r),
           now <= now',
           r.st = "verify" => now' <= r.since + VerifySpan,
           r.st = "issue" => signedIn'[r.session.sid] = signedIn[r.session.sid],
           offSince' = offSince \/ offSince' = Never \/ offSince' = now,
           \/ user'.password = user.password /\ replacedAt' = replacedAt
           \/ replacedAt' = [replacedAt EXCEPT ![user.password] = now]
    PROVE  RequestKept(r)'
<1>1. ASSUME r.st = "issue" PROVE Kept(r.session)'
  <2>1. r.session \in Tokens
    BY <1>1 DEF Requests, Idle
  <2> QED
    BY <1>1, <2>1, KeptFrame DEF RequestKept
<1>2. ASSUME r.st = "verify" PROVE CheckKept(r)'
  <2>1. /\ CheckKept(r) /\ r.since \in Nat /\ r.user.password \in Passwords
    BY <1>2 DEF RequestKept, Requests, Users, Idle
  <2>2. /\ now \in Nat /\ now' \in Nat
        /\ replacedAt \in [Passwords -> Nat \cup {Never}]
        /\ user.password \in Passwords
    BY DEF TypeOK, Users
  <2>3. r.since <= now' /\ now' <= r.since + VerifySpan
    BY <1>2, <2>1, <2>2 DEF CheckKept
  <2>4. Usable(r.user) /\ offSince' # Never => r.since <= offSince'
    BY <2>1, <2>2 DEF CheckKept
  <2>5. r.user.password # user'.password =>
          replacedAt'[r.user.password] # Never /\ r.since <= replacedAt'[r.user.password]
    BY <2>1, <2>2 DEF CheckKept, Never
  <2> QED
    BY <2>3, <2>4, <2>5 DEF CheckKept
<1> QED
  BY <1>1, <1>2 DEF RequestKept

\* Steps that leave the clock, the user and the histories alone keep every
\* session and every request that was there before.
LEMMA QuietFrame ==
    ASSUME IInv, TypeOK', UNCHANGED <<now, user, signedIn, replacedAt, offSince>>
    PROVE  /\ OffKept'
           /\ \A k \in Tokens : Kept(k) => Kept(k)'
           /\ \A r \in Requests : RequestKept(r) => RequestKept(r)'
  BY DEF IInv, OffKept, Kept, RequestKept, BirthKept, LossKept, CheckKept,
         WholeSecond, Usable

\* The invariant is inductive: one case per action.
LEMMA IInvStep ==
    ASSUME IInv, [Next]_vars
    PROVE  IInv'
<1>1. TypeOK'
  BY TypeStep DEF IInv
<1>2. /\ TypeOK /\ OffKept /\ TokensKept /\ RequestsKept
      /\ now \in Nat /\ tokens \subseteq Tokens
      /\ handler \in [Handlers -> Requests]
  BY DEF IInv, TypeOK
<1>3. RequestKept(Idle)'
  BY DEF RequestKept, Idle
<1>4. ASSUME NEW h \in Handlers, LoginStart(h) PROVE IInv'
  <2>1. PICK r : r = Verifying(user)
    OBVIOUS
  <2>2. /\ handler' = [handler EXCEPT ![h] = r]
        /\ UNCHANGED <<now, user, tokens, signedIn, replacedAt, offSince>>
    BY <1>4, <2>1 DEF LoginStart
  <2>3. RequestKept(r)'
    BY <1>2, <2>1, <2>2, SessionAssumption
    DEF RequestKept, Verifying, CheckKept, OffKept, Usable
  <2> QED
    BY <1>1, <1>2, <2>2, <2>3, QuietFrame DEF IInv, TokensKept, RequestsKept
<1>5. ASSUME NEW h \in Handlers, HandlerFails(h) PROVE IInv'
  BY <1>1, <1>2, <1>3, <1>5, QuietFrame DEF HandlerFails, IInv, TokensKept, RequestsKept
<1>6. ASSUME NEW h \in Handlers, Issue(h) PROVE IInv'
  <2>1. handler[h].session \in Tokens /\ Kept(handler[h].session)
    BY <1>2, <1>6 DEF Issue, RequestsKept, RequestKept, Requests, Idle
  <2>2. /\ tokens' = tokens \cup {handler[h].session}
        /\ handler' = [handler EXCEPT ![h] = Idle]
        /\ UNCHANGED <<now, user, signedIn, replacedAt, offSince>>
    BY <1>6 DEF Issue
  <2> QED
    BY <1>1, <1>2, <1>3, <2>1, <2>2, QuietFrame DEF IInv, TokensKept, RequestsKept
<1>7. ASSUME NEW h \in Handlers, NEW s \in Sids, LoginAccepted(h, s) PROVE IInv'
  <2>r. PICK r \in Requests : r = handler[h]
    BY <1>2
  <2>n. PICK n : n = NewSession(s, r.user.password, now)
    OBVIOUS
  <2>1. /\ r.st = "verify" /\ Usable(r.user) /\ signedIn[s] = Never
        /\ signedIn' = [signedIn EXCEPT ![s] = now]
        /\ handler' = [handler EXCEPT ![h] = [st |-> "issue", since |-> now, session |-> n]]
        /\ UNCHANGED <<now, user, tokens, replacedAt, offSince>>
    BY <1>7, <2>r, <2>n DEF LoginAccepted, Issuing
  <2>2. /\ CheckKept(r) /\ r.since \in Nat /\ r.user.password \in Passwords
        /\ signedIn \in [Sids -> Nat \cup {Never}]
        /\ replacedAt \in [Passwords -> Nat \cup {Never}]
        /\ offSince \in Nat \cup {Never}
    BY <1>2, <2>r, <2>1 DEF RequestsKept, RequestKept, Requests, Users, Idle, TypeOK
  <2>3. /\ n.sid = s /\ n.born = Floor(now) /\ n.cred = r.user.password
        /\ n.expiry = expiryOf(now, Floor(now))
    BY <2>n DEF NewSession
  <2>4. /\ Floor(now) \in Nat /\ Floor(now) <= now
        /\ n.expiry \in Nat /\ WholeSecond(n.expiry) /\ n.expiry <= now + TTL
        /\ MaxTTL > 0 => n.expiry <= n.born + MaxTTL
    BY <1>2, <2>3, FloorFacts, ExpiryFacts
  <2>5. BirthKept(n)'
    BY <1>2, <2>1, <2>2, <2>3, <2>4 DEF BirthKept, Never
  <2>6. LossKept(n)'
    <3>1. n.expiry <= r.since + VerifySpan + TTL
      BY <1>2, <2>2, <2>4, SessionAssumption DEF CheckKept
    <3> QED
      BY <1>2, <2>1, <2>2, <2>3, <2>4, <3>1, SessionAssumption
      DEF LossKept, CheckKept, Never
  <2>7. Kept(n)'
    BY <2>4, <2>5, <2>6 DEF Kept, WholeSecond
  <2>8. \A k \in Tokens : Kept(k) => signedIn'[k.sid] = signedIn[k.sid]
    BY <2>1, <2>2 DEF Kept, BirthKept, Tokens
  <2>9. TokensKept'
    BY <1>1, <1>2, <2>1, <2>8, KeptFrame DEF TokensKept
  <2>10. ASSUME NEW g \in Handlers PROVE RequestKept(handler[g])'
    <3>1. CASE g = h
      BY <1>2, <2>1, <2>7, <3>1 DEF RequestKept
    <3>2. CASE g # h
      <4> PICK q \in Requests : q = handler[g]
        BY <1>2
      <4>1. handler'[g] = q /\ RequestKept(q)
        BY <1>2, <2>1, <3>2 DEF RequestsKept
      <4>2. q.st = "verify" => now' <= q.since + VerifySpan
        BY <2>1, <4>1 DEF RequestKept, CheckKept
      <4>3. q.st = "issue" => signedIn'[q.session.sid] = signedIn[q.session.sid]
        BY <2>8, <4>1 DEF RequestKept, Requests, Idle
      <4>4. RequestKept(q)'
        BY <1>1, <1>2, <2>1, <4>1, <4>2, <4>3, RequestFrame
      <4> QED
        BY <4>1, <4>4
    <3> QED
      BY <3>1, <3>2
  <2>11. OffKept'
    BY <1>2, <2>1 DEF OffKept, Usable
  <2> QED
    BY <1>1, <2>9, <2>10, <2>11 DEF IInv, RequestsKept
<1>8. ASSUME NEW h \in Handlers, NEW k \in tokens, RenewGranted(h, k) PROVE IInv'
  <2>n. PICK n : n = Renewed(k, now)
    OBVIOUS
  <2>1. /\ ~spent(k)
        /\ handler' = [handler EXCEPT ![h] = [st |-> "issue", since |-> now, session |-> n]]
        /\ UNCHANGED <<now, user, tokens, signedIn, replacedAt, offSince>>
    BY <1>8, <2>n DEF RenewGranted, Issuing
  <2>2. k \in Tokens /\ k.born \in Nat /\ Kept(k)
    BY <1>2 DEF TokensKept, Tokens
  <2>3. n.sid = k.sid /\ n.born = k.born /\ n.cred = k.cred /\ n.expiry = expiryOf(now, k.born)
    BY <2>2, <2>n DEF Renewed, Tokens
  <2>4. /\ n.expiry \in Nat /\ WholeSecond(n.expiry) /\ n.expiry <= now + TTL
        /\ MaxTTL > 0 => n.expiry <= n.born + MaxTTL
    BY <1>2, <2>2, <2>3, ExpiryFacts
  <2>5. offSince = Never /\ n.cred = user.password
    BY <1>2, <2>1, <2>3 DEF spent, OffKept
  <2>6. Kept(n)
    BY <2>2, <2>3, <2>4, <2>5 DEF Kept, BirthKept, LossKept
  <2>7. n \in Tokens
    BY <1>2, <2>2, <2>n, SessionTypes
  <2>8. Kept(n)'
    BY <1>1, <2>1, <2>6, <2>7, QuietFrame
  <2>9. RequestKept(handler[h])'
    BY <1>2, <2>1, <2>8 DEF RequestKept
  <2> QED
    BY <1>1, <1>2, <2>1, <2>9, QuietFrame DEF IInv, TokensKept, RequestsKept
<1>9. ASSUME UNCHANGED <<now, user, tokens, handler, signedIn, replacedAt, offSince>>
      PROVE  IInv'
  BY <1>1, <1>2, <1>9, QuietFrame DEF IInv, TokensKept, RequestsKept
<1>10. ASSUME NEW u \in Users, UserChange(u) PROVE IInv'
  <2>1. /\ UNCHANGED <<now, tokens, handler, signedIn>>
        /\ offSince' = offSince \/ offSince' = Never \/ offSince' = now
        /\ \/ user'.password = user.password /\ replacedAt' = replacedAt
           \/ replacedAt' = [replacedAt EXCEPT ![user.password] = now]
    BY <1>10 DEF UserChange
  <2>2. OffKept'
    BY <1>2, <1>10 DEF UserChange, OffKept, Usable, Never
  <2>3. TokensKept'
    BY <1>1, <1>2, <2>1, KeptFrame DEF TokensKept
  <2>4. ASSUME NEW g \in Handlers PROVE RequestKept(handler[g])'
    <3> PICK q \in Requests : q = handler[g]
      BY <1>2
    <3>1. handler'[g] = q /\ RequestKept(q)
      BY <1>2, <2>1 DEF RequestsKept
    <3>2. q.st = "verify" => now' <= q.since + VerifySpan
      BY <2>1, <3>1 DEF RequestKept, CheckKept
    <3>3. RequestKept(q)'
      BY <1>1, <1>2, <2>1, <3>1, <3>2, RequestFrame
    <3> QED
      BY <3>1, <3>3
  <2> QED
    BY <1>1, <2>2, <2>3, <2>4 DEF IInv, RequestsKept
<1>11. CASE Tick
  <2>1. /\ UNCHANGED <<user, tokens, handler, signedIn, replacedAt, offSince>>
        /\ now' = now + 1
    BY <1>11 DEF Tick
  <2>2. OffKept'
    BY <1>2, <2>1 DEF OffKept, Usable, TypeOK
  <2>3. TokensKept'
    BY <1>1, <1>2, <2>1, KeptFrame DEF TokensKept
  <2>4. ASSUME NEW g \in Handlers PROVE RequestKept(handler[g])'
    <3> PICK q \in Requests : q = handler[g]
      BY <1>2
    <3>1. handler'[g] = q /\ RequestKept(q)
      BY <1>2, <2>1 DEF RequestsKept
    <3>2. ASSUME q.st = "verify" PROVE now' <= q.since + VerifySpan
      <4>1. q.since \in Nat /\ now < q.since + VerifySpan
        BY <1>11, <3>1, <3>2 DEF Tick, Requests, Idle
      <4> QED
        BY <1>2, <2>1, <4>1, SessionAssumption
    <3>3. RequestKept(q)'
      BY <1>1, <1>2, <2>1, <3>1, <3>2, RequestFrame
    <3> QED
      BY <3>1, <3>3
  <2> QED
    BY <1>1, <2>2, <2>3, <2>4 DEF IInv, RequestsKept
<1>12. ASSUME NEW k \in tokens, RenewRefused(k) \/ Logout(k) PROVE IInv'
  BY <1>9, <1>12 DEF RenewRefused, Logout
<1>13. ASSUME NEW s \in Sids, PanelRemove(s) PROVE IInv'
  BY <1>9, <1>13 DEF PanelRemove
<1>14. ASSUME NEW p \in Procs, MirrorAdvance(p) \/ MirrorRestart(p) PROVE IInv'
  BY <1>9, <1>14 DEF MirrorAdvance, MirrorRestart
<1>15. CASE UNCHANGED vars
  BY <1>9, <1>15 DEF vars
<1> QED
  BY <1>4, <1>5, <1>6, <1>7, <1>8, <1>10, <1>11, <1>12, <1>13, <1>14, <1>15 DEF Next

\* The invariant holds when the processes start: there is no cookie and no
\* request yet.
LEMMA IInvInit ==
    ASSUME Init
    PROVE  IInv
<1>1. TypeOK
  BY SessionAssumption DEF Init, TypeOK, Users, Passwords, Requests, Idle, Never
<1>2. OffKept /\ TokensKept /\ RequestsKept
  BY DEF Init, OffKept, TokensKept, RequestsKept, RequestKept, Idle, Usable, Never
<1> QED
  BY <1>1, <1>2 DEF IInv

\* A cookie that decide.open admits has its expiry ahead, to the tick.
LEMMA AdmittedBeforeExpiry ==
    ASSUME IInv, NEW k \in tokens, Admitted(k)
    PROVE  now < k.expiry
<1>1. Floor(now) < k.expiry
  BY DEF Admitted, open, OpenSession
<1> QED
  BY <1>1, FloorBelow DEF IInv, TypeOK, TokensKept, Kept

\* The invariant gives the two bounds.
LEMMA IInvBounds ==
    ASSUME IInv
    PROVE  LifeBound /\ UserLossBound
<1> SUFFICES ASSUME NEW k \in tokens, Admitted(k)
             PROVE  /\ MaxTTL > 0 => now < signedIn[k.sid] + MaxTTL
                    /\ offSince # Never => now < offSince + VerifySpan + TTL
                    /\ k.cred # user.password => now < replacedAt[k.cred] + VerifySpan + TTL
  BY DEF LifeBound, UserLossBound
<1>1. now < k.expiry
  BY AdmittedBeforeExpiry
<1>2. /\ k \in Tokens /\ Kept(k) /\ now \in Nat
      /\ signedIn[k.sid] \in Nat \cup {Never}
      /\ replacedAt[k.cred] \in Nat \cup {Never}
      /\ offSince \in Nat \cup {Never}
      /\ k.expiry \in Nat /\ k.born \in Nat
  BY DEF IInv, TypeOK, TokensKept, Tokens
<1> QED
  BY <1>1, <1>2, SessionAssumption DEF Kept, BirthKept, LossKept

\* The invariant holds throughout every behaviour of the form, the list and
\* the inspector.
THEOREM Invariance == Spec => []IInv
<1>1. Init => IInv
  BY IInvInit
<1>2. IInv /\ [Next]_vars => IInv'
  BY IInvStep
<1> QED
  BY <1>1, <1>2, PTL DEF Spec

\* Cookies, list, mirrors and requests keep their types.
THEOREM TypeCorrect == Spec => []TypeOK
<1>1. IInv => TypeOK
  BY DEF IInv
<1> QED
  BY <1>1, Invariance, PTL

\* expiryOf keeps session.max_ttl through every renewal: no cookie is admitted
\* max_ttl after the sign-in, whatever the ttl, the clock and the requests.
THEOREM LifeBounded == Spec => []LifeBound
<1>1. IInv => LifeBound
  BY IInvBounds
<1> QED
  BY <1>1, Invariance, PTL

\* spent() keeps a lost user's renewals out: no cookie of a user who was
\* removed, disabled or given a new password outlives the loss by more than
\* one password check and one ttl.
THEOREM UserLossBounded == Spec => []UserLossBound
<1>1. IInv => UserLossBound
  BY IInvBounds
<1> QED
  BY <1>1, Invariance, PTL

(***************************************************************************)
(* The session list                                                        *)
(***************************************************************************)

\* Commands are numbered as they were made, and a mirror that answers holds
\* every command that has gone round.
LogDated == \A i \in 1 .. Len(log) : log[i].at <= now
MirrorCurrent ==
    \A p \in Procs :
        /\ mirror[p].seq <= Len(log)
        /\ mirror[p].ready =>
             \A i \in (mirror[p].seq + 1) .. Len(log) : now <= log[i].at + RoundTrip

\* All the cookies of a session carry the second of its one sign-in.
SameBirth(k) == k.born = Floor(signedIn[k.sid])

\* A session on its way to the browser was built at most IssueSpan ago.
JustBuilt(r) ==
    /\ r.since <= now /\ now <= r.since + IssueSpan
    /\ r.session.issued = Floor(r.since)
    /\ r.session.expiry = expiryOf(r.since, r.session.born)

\* The record that remember() put on the list with a cookie: command i was
\* made in time, and neither it nor any later one for the session ends before
\* the cookie by more than the span of an issue.
RecordedAt(k, i) ==
    /\ log[i].sid = k.sid /\ log[i].op = "add"
    /\ log[i].at < k.issued + SecondTicks + IssueSpan
    /\ \A m \in i .. Len(log) :
         log[m].sid = k.sid /\ log[m].op = "add"
             => Floor(k.expiry - IssueSpan) <= log[m].exp

Recorded(k) == k.sid \in lost \/ \E i \in 1 .. Len(log) : RecordedAt(k, i)

BirthsSame ==
    /\ \A k \in tokens : SameBirth(k)
    /\ \A h \in Handlers : handler[h].st = "issue" => SameBirth(handler[h].session)
BuiltInTime == \A h \in Handlers : handler[h].st = "issue" => JustBuilt(handler[h])
AllRecorded == ListOn /\ ListTTL = TTL => \A k \in tokens : Recorded(k)

ListInv == LogDated /\ MirrorCurrent /\ BirthsSame /\ BuiltInTime /\ AllRecorded

\* A non-empty set of numbers up to n has a greatest one, and it is its Max.
LEMMA MaxFacts ==
    ASSUME NEW n \in Nat, NEW T, T \subseteq 1 .. n, T # {}
    PROVE  /\ Max(T) \in T
           /\ \A k \in T : k <= Max(T)
<1> DEFINE R == OpToRel(<, Nat)
           D == {n - k : k \in T}
<1>1. D \subseteq Nat /\ D # {}
  <2>1. PICK k : k \in T
    OBVIOUS
  <2>2. n - k \in D
    BY <2>1
  <2> QED
    BY <2>2
<1>2. PICK d \in D : \A e \in D : ~(<<e, d>> \in R)
  <2> HIDE DEF R, D
  <2>1. IsWellFoundedOn(R, Nat)
    BY NatLessThanWellFounded DEF R
  <2> QED
    BY <1>1, <2>1, WFMin
<1>3. \A e \in D : d <= e
  <2>1. \A e \in D : ~(e < d)
    BY <1>1, <1>2 DEF OpToRel
  <2> QED
    BY <1>1, <2>1
<1>4. \E m \in T : \A k \in T : m >= k
  BY <1>3
<1> QED
  BY <1>4 DEF Max

\* A later time does not fall in an earlier second.
LEMMA FloorOrder ==
    ASSUME NEW a \in Int, NEW b \in Nat, a <= b
    PROVE  Floor(a) <= Floor(b)
<1> DEFINE s == SecondTicks
           m == a \div s
           n == b \div s
<1>1. s \in Nat \ {0}
  BY SessionAssumption
<1>2. /\ m \in Int /\ a = s * m + (a % s) /\ a % s \in 0 .. s - 1
      /\ n \in Int /\ b = s * n + (b % s) /\ b % s \in 0 .. s - 1
  BY <1>1
<1>3. Floor(a) = s * m /\ Floor(b) = s * n
  <2>1. s * m \in Int /\ s * n \in Int
    BY <1>1, <1>2
  <2>2. Floor(a) = a - (a % s) /\ Floor(b) = b - (b % s)
    BY DEF Floor
  <2> HIDE DEF m, n
  <2> QED
    BY <1>2, <2>1, <2>2
<1> HIDE DEF m, n
<1>4. CASE m <= n
  <2>1. PICK d \in Nat : n = m + d
    BY <1>2, <1>4
  <2>2. s * n = s * m + s * d /\ s * d \in Nat /\ s * m \in Int
    BY <1>1, <1>2, <2>1
  <2> QED
    BY <1>3, <2>2
<1>5. CASE n < m
  <2>1. PICK d \in Nat : m = n + 1 + d
    BY <1>2, <1>5
  <2>2. s * m = s * n + s + s * d /\ s * d \in Nat /\ s * n \in Int
    BY <1>1, <1>2, <2>1
  <2>3. a >= s * m /\ b < s * n + s
    BY <1>1, <1>2, <2>2
  <2> QED
    BY <1>1, <1>2, <2>2, <2>3
<1> QED
  BY <1>2, <1>4, <1>5

\* The log takes at most one command in a step, at the end, and while it does
\* the clock stands.
Grows(c) == log' = Append(log, c) /\ c \in Commands /\ c.at = now /\ now' = now

\* A step publishes at most one command, and time never goes back.
LEMMA LogGrows ==
    ASSUME TypeOK, [Next]_vars
    PROVE  /\ now' \in Nat /\ now <= now'
           /\ log' = log \/ \E c : Grows(c)
<1>1. ASSUME NEW op \in {"add", "remove"}, NEW sid \in Sids, NEW exp \in Int, now' = now,
             \/ Publish(Command(op, sid, exp))
             \/ log' = Append(log, Command(op, sid, exp))
      PROVE  log' = log \/ \E c : Grows(c)
  <2>1. PICK c : c = Command(op, sid, exp)
    OBVIOUS
  <2>2. c \in Commands /\ c.at = now
    BY <2>1 DEF TypeOK, Command, Commands
  <2>3. log' = log \/ log' = Append(log, c)
    BY <1>1, <2>1 DEF Publish
  <2> QED
    BY <1>1, <2>2, <2>3 DEF Grows
<1>2. ASSUME NEW h \in Handlers, Issue(h)
      PROVE  log' = log \/ \E c : Grows(c)
  <2> DEFINE k == handler[h].session
             exp == now + Lesser(k.expiry - now, ListTTL)
  <2>1. k.sid \in Sids /\ exp \in Int
    BY <1>2, SessionAssumption DEF Issue, TypeOK, Requests, Idle, Tokens, Lesser
  <2>2. log' = log \/ Publish(Command("add", k.sid, exp))
    BY <1>2 DEF Issue
  <2>3. now' = now
    BY <1>2 DEF Issue
  <2> HIDE DEF k, exp
  <2> QED
    BY <1>1, <2>1, <2>2, <2>3
<1>3. ASSUME NEW k \in tokens, RenewRefused(k) \/ Logout(k)
      PROVE  log' = log \/ \E c : Grows(c)
  <2>1. k.sid \in Sids /\ now' = now /\ Publish(Command("remove", k.sid, 0))
    BY <1>3 DEF RenewRefused, Logout, TypeOK, Tokens
  <2> QED
    BY <1>1, <2>1
<1>4. ASSUME NEW sid \in Sids, PanelRemove(sid)
      PROVE  log' = log \/ \E c : Grows(c)
  BY <1>1, <1>4 DEF PanelRemove
<1> QED
  BY <1>2, <1>3, <1>4
  DEF Next, vars, TypeOK, LoginStart, HandlerFails, Issue, LoginAccepted, RenewGranted,
      RenewRefused, Logout, PanelRemove, MirrorAdvance, MirrorRestart, UserChange, Tick

\* What the log becomes with one more command.
LEMMA Grown ==
    ASSUME TypeOK, NEW c, Grows(c)
    PROVE  /\ Len(log) \in Nat /\ Len(log') = Len(log) + 1
           /\ \A i \in 1 .. Len(log) : log[i] \in Commands /\ log'[i] = log[i]
           /\ log'[Len(log) + 1] = c
  BY DEF TypeOK, Grows

\* The fields of the commands that were made.
LEMMA LogTypes ==
    ASSUME TypeOK
    PROVE  /\ Len(log) \in Nat
           /\ \A i \in 1 .. Len(log) : /\ log[i].at \in Nat /\ log[i].exp \in Int
                                     /\ log[i].sid \in Sids /\ log[i].op \in {"add", "remove"}
<1>1. Len(log) \in Nat /\ \A i \in 1 .. Len(log) : log[i] \in Commands
  BY DEF TypeOK
<1> QED
  BY <1>1 DEF Commands

\* A command is dated when it is made and the clock does not run back.
LEMMA LogDatedStep ==
    ASSUME TypeOK, LogDated, [Next]_vars
    PROVE  LogDated'
<1>1. now \in Nat /\ now' \in Nat /\ now <= now'
  BY LogGrows DEF TypeOK
<1>2. \A i \in 1 .. Len(log) : log[i].at \in Nat
  BY LogTypes
<1>3. CASE log' = log
  BY <1>1, <1>2, <1>3 DEF LogDated
<1>4. ASSUME NEW c, Grows(c) PROVE LogDated'
  <2>1. \A i \in 1 .. Len(log') : i \in 1 .. Len(log) \/ i = Len(log) + 1
    BY <1>4, Grown
  <2> QED
    BY <1>1, <1>2, <1>4, <2>1, Grown DEF LogDated, Grows
<1> QED
  BY <1>3, <1>4, LogGrows

\* No mirror that answers misses a command for longer than the round trip.
LEMMA MirrorCurrentStep ==
    ASSUME TypeOK, LogDated, MirrorCurrent, [Next]_vars
    PROVE  MirrorCurrent'
<1>1. /\ now \in Nat /\ RoundTrip \in Nat /\ Len(log) \in Nat
      /\ \A p \in Procs : mirror[p].seq \in Nat
      /\ \A i \in 1 .. Len(log) : log[i].at \in Nat
  BY LogTypes, SessionAssumption DEF TypeOK
<1>2. ASSUME UNCHANGED <<now, log, mirror>> PROVE MirrorCurrent'
  BY <1>2 DEF MirrorCurrent
<1>3. ASSUME NEW c, Grows(c), mirror' = mirror PROVE MirrorCurrent'
  <2>1. \A i \in 1 .. Len(log') : i \in 1 .. Len(log) \/ i = Len(log) + 1
    BY <1>3, Grown
  <2>2. ASSUME NEW p \in Procs, mirror[p].ready,
               NEW i \in (mirror[p].seq + 1) .. Len(log')
        PROVE  now <= log'[i].at + RoundTrip
    <3>1. i \in 1 .. Len(log')
      BY <1>1, <2>2
    <3>2. CASE i \in 1 .. Len(log)
      <4>1. i \in (mirror[p].seq + 1) .. Len(log)
        BY <1>1, <2>2, <3>2
      <4> QED
        BY <1>3, <2>2, <3>2, <4>1, Grown DEF MirrorCurrent
    <3>3. CASE i = Len(log) + 1
      BY <1>1, <1>3, <3>3, Grown DEF Grows
    <3> QED
      BY <2>1, <3>1, <3>2, <3>3
  <2>3. /\ now' = now /\ Len(log') = Len(log) + 1
        /\ \A p \in Procs : mirror[p].seq <= Len(log)
    BY <1>3, Grown DEF MirrorCurrent, Grows
  <2> QED
    BY <1>1, <1>3, <2>2, <2>3 DEF MirrorCurrent
<1>4. ASSUME NEW p \in Procs, MirrorAdvance(p) PROVE MirrorCurrent'
  <2>1. PICK n \in mirror[p].seq .. Len(log) :
          /\ Fresh(n)
          /\ mirror' = [mirror EXCEPT ![p] = [ready |-> TRUE, seq |-> n]]
    BY <1>4 DEF MirrorAdvance
  <2>2. now' = now /\ log' = log
    BY <1>4 DEF MirrorAdvance
  <2>3. n \in Nat /\ n <= Len(log)
    BY <1>1, <2>1
  <2>4. \A i \in (n + 1) .. Len(log) : now <= log[i].at + RoundTrip
    <3>1. \A i \in (n + 1) .. Len(log) : i \in 1 .. Len(log)
      BY <2>3
    <3> QED
      BY <1>1, <2>1, <3>1 DEF Fresh
  <2>5. \A g \in Procs : mirror'[g] = IF g = p THEN [ready |-> TRUE, seq |-> n] ELSE mirror[g]
    BY <2>1 DEF TypeOK
  <2> QED
    BY <2>2, <2>3, <2>4, <2>5 DEF MirrorCurrent
<1>5. ASSUME NEW p \in Procs, MirrorRestart(p) PROVE MirrorCurrent'
  <2>1. \A g \in Procs : mirror'[g] = IF g = p THEN [ready |-> FALSE, seq |-> 0] ELSE mirror[g]
    BY <1>5 DEF MirrorRestart, TypeOK
  <2> QED
    BY <1>1, <1>5, <2>1 DEF MirrorCurrent, MirrorRestart
<1>6. CASE Tick
  <2>1. /\ now' = now + 1 /\ UNCHANGED <<log, mirror>>
        /\ \A p \in Procs : mirror[p].ready => Fresh(mirror[p].seq)
    BY <1>6 DEF Tick
  <2>2. ASSUME NEW p \in Procs, mirror[p].ready,
               NEW i \in (mirror[p].seq + 1) .. Len(log)
        PROVE  now + 1 <= log[i].at + RoundTrip
    <3>1. i \in 1 .. Len(log) /\ now < log[i].at + RoundTrip
      BY <1>1, <2>1, <2>2 DEF Fresh
    <3> QED
      BY <1>1, <3>1
  <2> QED
    BY <2>1, <2>2 DEF MirrorCurrent
<1>7. ASSUME now' = now, mirror' = mirror PROVE MirrorCurrent'
  BY <1>2, <1>3, <1>7, LogGrows
<1> QED
  BY <1>4, <1>5, <1>6, <1>7
  DEF Next, vars, LoginStart, HandlerFails, Issue, LoginAccepted, RenewGranted,
      RenewRefused, Logout, PanelRemove, UserChange

\* accepted() dates a session once and renew() carries the date over.
LEMMA BirthsStep ==
    ASSUME IInv, BirthsSame, [Next]_vars
    PROVE  BirthsSame'
<1>1. /\ handler \in [Handlers -> Requests] /\ tokens \subseteq Tokens
      /\ signedIn \in [Sids -> Nat \cup {Never}]
      /\ \A k \in tokens : Kept(k)
      /\ \A h \in Handlers : handler[h].st = "issue" =>
           handler[h].session \in Tokens /\ Kept(handler[h].session)
  BY DEF IInv, TypeOK, TokensKept, RequestsKept, RequestKept, Requests, Idle
<1>2. ASSUME UNCHANGED <<tokens, handler, signedIn>> PROVE BirthsSame'
  BY <1>2 DEF BirthsSame, SameBirth
<1>3. ASSUME NEW h \in Handlers, LoginStart(h) \/ HandlerFails(h) PROVE BirthsSame'
  BY <1>1, <1>3 DEF LoginStart, HandlerFails, Verifying, Idle, BirthsSame, SameBirth
<1>4. ASSUME NEW h \in Handlers, Issue(h) PROVE BirthsSame'
  BY <1>1, <1>4 DEF Issue, Idle, BirthsSame, SameBirth
<1>5. ASSUME NEW h \in Handlers, NEW sid \in Sids, LoginAccepted(h, sid) PROVE BirthsSame'
  <2>1. PICK n : n = NewSession(sid, handler[h].user.password, now)
    OBVIOUS
  <2>2. n.sid = sid /\ n.born = Floor(now)
    BY <2>1 DEF NewSession
  <2>3. /\ signedIn[sid] = Never /\ signedIn' = [signedIn EXCEPT ![sid] = now]
        /\ handler' = [handler EXCEPT ![h] = [st |-> "issue", since |-> now, session |-> n]]
        /\ tokens' = tokens
    BY <1>5, <2>1 DEF LoginAccepted, Issuing
  <2>4. \A k \in Tokens : Kept(k) => signedIn'[k.sid] = signedIn[k.sid]
    BY <1>1, <2>3 DEF Kept, BirthKept, Tokens
  <2>5. \A k \in tokens : SameBirth(k)'
    BY <1>1, <2>3, <2>4 DEF BirthsSame, SameBirth
  <2>6. ASSUME NEW g \in Handlers, handler'[g].st = "issue" PROVE SameBirth(handler[g].session)'
    <3>1. CASE g = h
      <4>1. handler'[g].session = n
        BY <1>1, <2>3, <3>1
      <4>2. n.born = Floor(signedIn'[n.sid])
        BY <1>1, <2>2, <2>3
      <4> QED
        BY <4>1, <4>2 DEF SameBirth
    <3>2. CASE g # h
      <4>1. handler'[g] = handler[g]
        BY <1>1, <2>3, <3>2
      <4> QED
        BY <1>1, <2>4, <2>6, <4>1 DEF BirthsSame, SameBirth
    <3> QED
      BY <3>1, <3>2
  <2> QED
    BY <2>3, <2>5, <2>6 DEF BirthsSame, SameBirth
<1>6. ASSUME NEW h \in Handlers, NEW k \in tokens, RenewGranted(h, k) PROVE BirthsSame'
  <2>1. PICK n : n = Renewed(k, now)
    OBVIOUS
  <2>2. n.sid = k.sid /\ n.born = k.born
    BY <1>1, <2>1 DEF Renewed, Tokens
  <2>3. /\ handler' = [handler EXCEPT ![h] = [st |-> "issue", since |-> now, session |-> n]]
        /\ UNCHANGED <<tokens, signedIn>>
    BY <1>6, <2>1 DEF RenewGranted, Issuing
  <2> QED
    BY <1>1, <2>2, <2>3 DEF BirthsSame, SameBirth
<1> QED
  BY <1>2, <1>3, <1>4, <1>5, <1>6
  DEF Next, vars, RenewRefused, Logout, PanelRemove, MirrorAdvance, MirrorRestart,
      UserChange, Tick

\* Time does not pass a request that has outlived the span of an issue.
LEMMA BuiltStep ==
    ASSUME IInv, BuiltInTime, [Next]_vars
    PROVE  BuiltInTime'
<1>1. /\ handler \in [Handlers -> Requests] /\ tokens \subseteq Tokens
      /\ now \in Nat /\ IssueSpan \in Nat
  BY SessionAssumption DEF IInv, TypeOK
<1>2. ASSUME UNCHANGED <<now, handler>> PROVE BuiltInTime'
  BY <1>2 DEF BuiltInTime, JustBuilt
<1>3. ASSUME NEW h \in Handlers, LoginStart(h) \/ HandlerFails(h) \/ Issue(h)
      PROVE  BuiltInTime'
  BY <1>1, <1>3 DEF LoginStart, HandlerFails, Issue, Verifying, Idle, BuiltInTime, JustBuilt
<1>4. ASSUME NEW h \in Handlers, NEW n, now' = now,
             handler' = [handler EXCEPT ![h] = [st |-> "issue", since |-> now, session |-> n]],
             n.issued = Floor(now), n.expiry = expiryOf(now, n.born)
      PROVE  BuiltInTime'
  <2>1. JustBuilt([st |-> "issue", since |-> now, session |-> n])
    BY <1>1, <1>4 DEF JustBuilt
  <2>2. \A g \in Handlers : handler'[g] = handler[g]
                             \/ handler'[g] = [st |-> "issue", since |-> now, session |-> n]
    BY <1>1, <1>4
  <2>3. \A g \in Handlers : handler'[g].st = "issue" => JustBuilt(handler'[g])
    BY <2>1, <2>2 DEF BuiltInTime
  <2> QED
    BY <1>4, <2>3 DEF BuiltInTime, JustBuilt
<1>5. ASSUME NEW h \in Handlers, NEW sid \in Sids, LoginAccepted(h, sid) PROVE BuiltInTime'
  <2>1. PICK n : n = NewSession(sid, handler[h].user.password, now)
    OBVIOUS
  <2>2. n.issued = Floor(now) /\ n.expiry = expiryOf(now, n.born)
    BY <2>1 DEF NewSession
  <2>3. /\ handler' = [handler EXCEPT ![h] = [st |-> "issue", since |-> now, session |-> n]]
        /\ now' = now
    BY <1>5, <2>1 DEF LoginAccepted, Issuing
  <2> QED
    BY <1>4, <2>2, <2>3
<1>6. ASSUME NEW h \in Handlers, NEW k \in tokens, RenewGranted(h, k) PROVE BuiltInTime'
  <2>1. PICK n : n = Renewed(k, now)
    OBVIOUS
  <2>2. n.issued = Floor(now) /\ n.expiry = expiryOf(now, n.born)
    BY <1>1, <2>1 DEF Renewed, Tokens
  <2>3. /\ handler' = [handler EXCEPT ![h] = [st |-> "issue", since |-> now, session |-> n]]
        /\ now' = now
    BY <1>6, <2>1 DEF RenewGranted, Issuing
  <2> QED
    BY <1>4, <2>2, <2>3
<1>7. CASE Tick
  <2>1. /\ now' = now + 1 /\ handler' = handler
        /\ \A h \in Handlers : handler[h].st = "issue" => now < handler[h].since + IssueSpan
    BY <1>7 DEF Tick
  <2>2. ASSUME NEW h \in Handlers, handler[h].st = "issue"
        PROVE  handler[h].since <= now + 1 /\ now + 1 <= handler[h].since + IssueSpan
    <3>1. handler[h].since \in Nat
      BY <1>1, <2>2 DEF Requests, Idle
    <3> QED
      BY <1>1, <2>1, <2>2, <3>1 DEF BuiltInTime, JustBuilt
  <2> QED
    BY <2>1, <2>2 DEF BuiltInTime, JustBuilt
<1> QED
  BY <1>2, <1>3, <1>5, <1>6, <1>7
  DEF Next, vars, RenewRefused, Logout, PanelRemove, MirrorAdvance, MirrorRestart, UserChange

\* A command that is no "add" for the session of k that ends too early.
Spares(k, c) ==
    c.sid = k.sid /\ c.op = "add" => Floor(k.expiry - IssueSpan) <= c.exp

\* A record stays good through every such command.
LEMMA RecordKept ==
    ASSUME TypeOK, NEW k \in Tokens, Recorded(k), lost \subseteq lost',
           \/ log' = log
           \/ \E c : Grows(c) /\ Spares(k, c)
    PROVE  Recorded(k)'
<1>1. CASE k.sid \in lost
  BY <1>1 DEF Recorded
<1>2. CASE log' = log
  BY <1>2 DEF Recorded, RecordedAt
<1>3. ASSUME NEW i \in 1 .. Len(log), RecordedAt(k, i),
             NEW c, Grows(c), Spares(k, c)
      PROVE  Recorded(k)'
  <2>1. /\ Len(log) \in Nat /\ Len(log') = Len(log) + 1
        /\ \A m \in 1 .. Len(log) : log'[m] = log[m]
        /\ log'[Len(log) + 1] = c
    BY <1>3, Grown
  <2>2. ASSUME NEW m \in i .. Len(log'), log'[m].sid = k.sid, log'[m].op = "add"
        PROVE  Floor(k.expiry - IssueSpan) <= log'[m].exp
    <3>1. CASE m = Len(log) + 1
      BY <1>3, <2>1, <2>2, <3>1 DEF Spares
    <3>2. CASE m # Len(log) + 1
      <4>1. m \in 1 .. Len(log) /\ m \in i .. Len(log)
        BY <2>1, <3>2
      <4> QED
        BY <1>3, <2>1, <2>2, <4>1 DEF RecordedAt
    <3> QED
      BY <3>1, <3>2
  <2>3. RecordedAt(k, i)'
    BY <1>3, <2>1, <2>2 DEF RecordedAt
  <2>4. i \in 1 .. Len(log')
    BY <2>1
  <2> QED
    BY <2>3, <2>4 DEF Recorded
<1>4. CASE k.sid \notin lost /\ log' # log
  <2>1. PICK i \in 1 .. Len(log) : RecordedAt(k, i)
    BY <1>4 DEF Recorded
  <2>2. PICK c : Grows(c) /\ Spares(k, c)
    BY <1>4
  <2> QED
    BY <1>3, <2>1, <2>2
<1> QED
  BY <1>1, <1>2, <1>4

\* However two renewals of a session overlap, the one that reaches remember()
\* last ends no earlier than the other but for the span of an issue.
LEMMA LastIssueEnds ==
    ASSUME IInv, BirthsSame, BuiltInTime,
           NEW h \in Handlers, handler[h].st = "issue",
           NEW k \in Tokens, Kept(k), SameBirth(k), k.sid = handler[h].session.sid
    PROVE  Floor(k.expiry - IssueSpan) <= handler[h].session.expiry
<1>r. PICK r \in Requests : r = handler[h]
  BY DEF IInv, TypeOK
<1>1. /\ r.st = "issue" /\ r.since \in Nat /\ r.session.born \in Nat
      /\ now \in Nat /\ k.expiry \in Nat /\ k.born \in Nat
      /\ TTL \in Nat /\ MaxTTL \in Nat /\ IssueSpan \in Nat
  BY <1>r, SessionAssumption DEF Requests, Idle, Tokens, IInv, TypeOK
<1>2. k.born = r.session.born
  BY <1>r DEF BirthsSame, SameBirth
<1>3. k.expiry <= now + TTL /\ (MaxTTL > 0 => k.expiry <= k.born + MaxTTL)
  BY DEF Kept, LossKept, BirthKept
<1>4. now <= r.since + IssueSpan /\ r.session.expiry = expiryOf(r.since, r.session.born)
  BY <1>r DEF BuiltInTime, JustBuilt
<1>5. PICK b \in Nat : b = r.session.born
  BY <1>1
<1>6. PICK end : end = IF MaxTTL > 0 THEN Lesser(r.since + TTL, b + MaxTTL) ELSE r.since + TTL
  OBVIOUS
<1>7. end \in Nat /\ k.expiry - IssueSpan \in Int /\ k.expiry - IssueSpan <= end
  BY <1>1, <1>2, <1>3, <1>4, <1>5, <1>6 DEF Lesser
<1>8. r.session.expiry = Floor(end)
  BY <1>4, <1>5, <1>6 DEF expiryOf
<1> QED
  BY <1>r, <1>7, <1>8, FloorOrder

\* remember() records a session for what is left of it.
LEMMA RecordsStep ==
    ASSUME IInv, BirthsSame, BuiltInTime, AllRecorded, [Next]_vars
    PROVE  AllRecorded'
<1> SUFFICES ASSUME ListOn, ListTTL = TTL
             PROVE  (\A k \in tokens : Recorded(k))'
  BY DEF AllRecorded
<1>1. /\ TypeOK /\ tokens \subseteq Tokens
      /\ \A k \in tokens : Kept(k) /\ SameBirth(k) /\ Recorded(k)
  BY DEF IInv, TypeOK, TokensKept, BirthsSame, AllRecorded
<1>2. ASSUME UNCHANGED <<tokens, log, lost>> PROVE (\A k \in tokens : Recorded(k))'
  BY <1>1, <1>2, RecordKept
<1>3. ASSUME NEW sid \in Sids, UNCHANGED <<tokens, now>>, lost \subseteq lost',
             log' = log \/ log' = Append(log, Command("remove", sid, 0))
      PROVE  (\A k \in tokens : Recorded(k))'
  <2>1. PICK c : c = Command("remove", sid, 0)
    OBVIOUS
  <2>2. c.op = "remove" /\ (log' = log \/ Grows(c))
    BY <1>1, <1>3, <2>1 DEF Command, Commands, Grows, TypeOK
  <2> QED
    BY <1>1, <1>3, <2>2, RecordKept DEF Spares
<1>4. ASSUME NEW k \in tokens, RenewRefused(k) \/ Logout(k)
      PROVE  (\A j \in tokens : Recorded(j))'
  <2>1. k.sid \in Sids
    BY <1>1 DEF Tokens
  <2>2. UNCHANGED <<tokens, now>> /\ Publish(Command("remove", k.sid, 0))
    BY <1>4 DEF RenewRefused, Logout
  <2>3. /\ lost \subseteq lost'
        /\ log' = log \/ log' = Append(log, Command("remove", k.sid, 0))
    BY <2>2 DEF Publish
  <2> QED
    BY <1>3, <2>1, <2>2, <2>3
<1>5. ASSUME NEW sid \in Sids, PanelRemove(sid) PROVE (\A k \in tokens : Recorded(k))'
  BY <1>3, <1>5 DEF PanelRemove
<1>6. ASSUME NEW h \in Handlers, Issue(h) PROVE (\A k \in tokens : Recorded(k))'
  <2>r. PICK r \in Requests : r = handler[h]
    BY <1>1 DEF TypeOK
  <2>n. PICK n : n = r.session
    OBVIOUS
  <2>1. /\ r.st = "issue" /\ r.since \in Nat /\ n \in Tokens
        /\ now \in Nat /\ n.expiry \in Nat /\ n.issued \in Nat /\ n.sid \in Sids
    BY <1>1, <1>6, <2>r, <2>n DEF Issue, Requests, Idle, Tokens, TypeOK
  <2>2. Kept(n) /\ SameBirth(n) /\ JustBuilt(r)
    BY <1>6, <2>r, <2>n DEF Issue, IInv, RequestsKept, RequestKept, BirthsSame, BuiltInTime
  <2>3. n.expiry <= now + TTL
    BY <2>2 DEF Kept, LossKept
  <2>4. now + Lesser(n.expiry - now, ListTTL) = n.expiry
    BY <2>1, <2>3, SessionAssumption DEF Lesser
  <2>c. PICK c : c = Command("add", n.sid, n.expiry)
    OBVIOUS
  <2>5. tokens' = tokens \cup {n} /\ now' = now /\ Publish(c)
    BY <1>6, <2>r, <2>n, <2>c, <2>4 DEF Issue
  <2>6. c \in Commands /\ c.op = "add" /\ c.sid = n.sid /\ c.exp = n.expiry /\ c.at = now
    BY <2>1, <2>c DEF Command, Commands
  <2>7. \/ Grows(c) /\ lost' = lost
        \/ log' = log /\ lost' = lost \cup {n.sid}
    BY <2>5, <2>6 DEF Publish, Grows
  <2>8. \A k \in Tokens : Kept(k) /\ SameBirth(k) /\ k.sid = n.sid
                         => Floor(k.expiry - IssueSpan) <= n.expiry
    BY <2>r, <2>n, <2>1, LastIssueEnds
  <2>9. \A k \in tokens : Recorded(k)'
    <3>1. lost \subseteq lost'
      BY <2>7
    <3>2. \A k \in tokens : Spares(k, c)
      BY <1>1, <2>6, <2>8 DEF Spares
    <3> QED
      BY <1>1, <2>7, <3>1, <3>2, RecordKept
  <2>10. Recorded(n)'
    <3>1. CASE lost' = lost \cup {n.sid}
      BY <3>1 DEF Recorded
    <3>2. CASE Grows(c)
      <4>1. /\ Len(log) \in Nat /\ Len(log') = Len(log) + 1
            /\ log'[Len(log) + 1] = c
        BY <1>1, <3>2, Grown
      <4>2. now < n.issued + SecondTicks + IssueSpan
        <5>1. /\ now <= r.since + IssueSpan /\ r.since < n.issued + SecondTicks
          BY <2>n, <2>1, <2>2, FloorFacts DEF JustBuilt
        <5> QED
          BY <2>1, <5>1, SessionAssumption
      <4>3. Floor(n.expiry - IssueSpan) <= n.expiry
        BY <2>1, <2>2, <2>8
      <4>4. PICK i : i = Len(log) + 1
        OBVIOUS
      <4>5. /\ log'[i] = c /\ \A m \in i .. Len(log') : m = i
            /\ i \in 1 .. Len(log')
        BY <4>1, <4>4
      <4>6. RecordedAt(n, i)'
        BY <2>6, <4>2, <4>3, <4>5 DEF RecordedAt
      <4> QED
        BY <4>5, <4>6 DEF Recorded
    <3> QED
      BY <2>7, <3>1, <3>2
  <2> QED
    BY <2>5, <2>9, <2>10
<1> QED
  BY <1>2, <1>4, <1>5, <1>6
  DEF Next, vars, LoginStart, HandlerFails, LoginAccepted, RenewGranted, MirrorAdvance,
      MirrorRestart, UserChange, Tick

\* A removal that has gone round is the last word of the mirror as well.
LEMMA MirrorRemoves ==
    ASSUME IInv, LogDated, MirrorCurrent, NEW k \in tokens,
           mirror["inspector"].ready, RemovedBefore(k.sid, now - RoundTrip)
    PROVE  ~Contains("inspector", k.sid)
<1> DEFINE n == mirror["inspector"].seq
           on == CommandsOn(k.sid, Len(log))
           seen == CommandsOn(k.sid, n)
<1>1. /\ TypeOK /\ Len(log) \in Nat /\ now \in Nat /\ RoundTrip \in Nat
      /\ n \in Nat /\ n <= Len(log)
      /\ \A i \in (n + 1) .. Len(log) : now <= log[i].at + RoundTrip
  BY LogTypes, SessionAssumption DEF IInv, TypeOK, Procs, MirrorCurrent
<1>2. on \subseteq 1 .. Len(log) /\ on # {} /\ seen \subseteq 1 .. n
  BY DEF RemovedBefore, CommandsOn
<1>3. PICK j : j = Max(on)
  OBVIOUS
<1>4. j \in on /\ (\A i \in on : i <= j) /\ log[j].op = "remove" /\ log[j].at < now - RoundTrip
  BY <1>1, <1>2, <1>3, MaxFacts DEF RemovedBefore
<1>5. j <= n
  <2>1. j \in 1 .. Len(log) /\ log[j].at \in Nat
    BY <1>1, <1>2, <1>4, LogTypes
  <2> HIDE DEF n, on
  <2> QED
    BY <1>1, <1>4, <2>1
<1>6. j \in seen /\ seen \subseteq on
  BY <1>1, <1>4, <1>5 DEF CommandsOn
<1>7. PICK m : m = Max(seen)
  OBVIOUS
<1>8. m \in seen /\ j <= m
  <2> HIDE DEF seen
  <2> QED
    BY <1>1, <1>2, <1>6, <1>7, MaxFacts
<1>9. m = j
  <2>1. m <= j /\ m \in Nat /\ j \in Nat
    BY <1>1, <1>2, <1>4, <1>6, <1>8
  <2> QED
    BY <1>8, <2>1
<1> QED
  BY <1>4, <1>7, <1>9 DEF Contains, ListedAt

\* Once the round trip is over a removal that nothing followed is what the
\* inspector's mirror answers, whatever happened before it.
LEMMA InvRemoves ==
    ASSUME IInv, ListInv
    PROVE  RemovalBites
<1> SUFFICES ASSUME NEW k \in tokens, ListOn, Admitted(k), RemovedBefore(k.sid, now - RoundTrip),
                    ~(now - k.issued <= Grace)
             PROVE  FALSE
  BY DEF RemovalBites
<1>1. mirror["inspector"].ready /\ Contains("inspector", k.sid)
  BY DEF Admitted, open
<1> QED
  BY <1>1, MirrorRemoves DEF ListInv

\* A record that was put in time and never removed is in the mirror when the
\* grace window closes, and stays there to the end of the cookie.
LEMMA MirrorLists ==
    ASSUME IInv, ListInv, ListOn, GraceCovers, NEW k \in tokens, k.sid \notin lost,
           \A i \in CommandsOn(k.sid, Len(log)) : log[i].op = "add",
           now < Floor(k.expiry - IssueSpan), Grace < now - k.issued,
           mirror["inspector"].ready
    PROVE  Contains("inspector", k.sid)
<1> DEFINE n == mirror["inspector"].seq
           seen == CommandsOn(k.sid, n)
           bound == Floor(k.expiry - IssueSpan)
<1>1. /\ TypeOK /\ Len(log) \in Nat /\ now \in Nat /\ k.issued \in Nat /\ k.expiry \in Nat
      /\ RoundTrip \in Nat /\ IssueSpan \in Nat /\ Grace \in Nat /\ SecondTicks \in Nat \ {0}
      /\ n \in Nat /\ n <= Len(log)
      /\ \A i \in (n + 1) .. Len(log) : now <= log[i].at + RoundTrip
  BY LogTypes, SessionAssumption DEF IInv, TypeOK, Tokens, Procs, ListInv, MirrorCurrent
<1>2. PICK i \in 1 .. Len(log) : RecordedAt(k, i)
  BY DEF ListInv, AllRecorded, Recorded, GraceCovers
<1>3. i <= n
  <2>1. log[i].at \in Nat
    BY <1>1, LogTypes
  <2>2. log[i].at < k.issued + SecondTicks + IssueSpan
    BY <1>2 DEF RecordedAt
  <2>3. RoundTrip + IssueSpan + SecondTicks - 1 <= Grace
    BY DEF GraceCovers
  <2>4. ~(now <= log[i].at + RoundTrip)
    BY <1>1, <2>1, <2>2, <2>3
  <2> HIDE DEF n
  <2> QED
    BY <1>1, <2>4
<1>4. i \in seen /\ seen \subseteq 1 .. n
  BY <1>1, <1>2, <1>3 DEF CommandsOn, RecordedAt
<1>5. PICK m : m = Max(seen)
  OBVIOUS
<1>6. m \in seen /\ i <= m
  <2> HIDE DEF seen
  <2> QED
    BY <1>1, <1>4, <1>5, MaxFacts
<1>7. m \in i .. Len(log) /\ m \in CommandsOn(k.sid, Len(log)) /\ log[m].sid = k.sid
  BY <1>1, <1>4, <1>6 DEF CommandsOn
<1>8. log[m].op = "add"
  BY <1>7
<1>9. bound <= log[m].exp
  BY <1>2, <1>7, <1>8 DEF RecordedAt
<1>10. log[m].exp > now
  <2>1. log[m].exp \in Int
    BY <1>1, <1>7, LogTypes
  <2>2. bound \in Int
    <3>1. k.expiry - IssueSpan \in Int
      BY <1>1
    <3>2. \A a \in Int : Floor(a) \in Int
      BY SessionAssumption DEF Floor
    <3> QED
      BY <3>1, <3>2
  <2> HIDE DEF bound
  <2>3. now < bound
    BY DEF bound
  <2> QED
    BY <1>1, <1>9, <2>1, <2>2, <2>3
<1> QED
  BY <1>4, <1>5, <1>8, <1>10 DEF Contains, ListedAt

\* The grace window and the record together leave no gap.
LEMMA InvNoFalseRevoke ==
    ASSUME IInv, ListInv
    PROVE  NoFalseRevoke
<1> SUFFICES ASSUME GraceCovers, NEW k \in tokens, k.sid \notin lost,
                    \A i \in CommandsOn(k.sid, Len(log)) : log[i].op = "add",
                    now < Floor(k.expiry - IssueSpan),
                    open(k) = "AUTH_SESSION_REVOKED"
             PROVE  FALSE
  BY DEF NoFalseRevoke
<1>1. /\ ListOn /\ mirror["inspector"].ready /\ ~Contains("inspector", k.sid)
      /\ ~(now - k.issued <= Grace)
  BY DEF open
<1>2. Grace < now - k.issued
  <2>1. now \in Nat /\ k.issued \in Nat /\ Grace \in Nat
    BY SessionAssumption DEF IInv, TypeOK, Tokens
  <2> QED
    BY <1>1, <2>1
<1> QED
  BY <1>1, <1>2, MirrorLists

\* What the list and the requests keep throughout every behaviour.
THEOREM ListInvariance == Spec => [](IInv /\ ListInv)
<1>1. Init => ListInv
  <2> SUFFICES ASSUME Init PROVE ListInv
    OBVIOUS
  <2>1. /\ Len(log) = 0 /\ tokens = {}
        /\ \A p \in Procs : mirror[p] = [ready |-> FALSE, seq |-> 0]
        /\ \A h \in Handlers : handler[h].st = "idle"
    BY DEF Init, Idle
  <2> QED
    BY <2>1 DEF ListInv, LogDated, MirrorCurrent, BirthsSame, BuiltInTime, AllRecorded
<1>2. IInv /\ ListInv /\ [Next]_vars => ListInv'
  BY LogDatedStep, MirrorCurrentStep, BirthsStep, BuiltStep, RecordsStep DEF ListInv, IInv
<1>3. Spec => []IInv
  BY Invariance
<1> QED
  BY <1>1, <1>2, <1>3, PTL DEF Spec

\* A removal that nothing followed ends the session for the inspector when the
\* round trip is over: only cookies younger than the grace window still pass.
THEOREM RemovalsBite == Spec => []RemovalBites
<1>1. IInv /\ ListInv => RemovalBites
  BY InvRemoves
<1> QED
  BY <1>1, ListInvariance, PTL

\* A grace window that covers the round trip and the span of an issue keeps
\* decide.open from revoking a session whose record was published and never
\* removed, however many of its renewals overlap.
THEOREM NeverFalselyRevoked == Spec => []NoFalseRevoke
<1>1. IInv /\ ListInv => NoFalseRevoke
  BY InvNoFalseRevoke
<1> QED
  BY <1>1, ListInvariance, PTL
=============================================================================
