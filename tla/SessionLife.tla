---------------------------- MODULE SessionLife ----------------------------
(***************************************************************************)
(* The life of a session of one source with provider `local`: the form     *)
(* process issues, renews and ends it, the session list says whether it    *)
(* has been ended, and the inspector admits or refuses every request that  *)
(* carries one of its cookies.                                             *)
(*                                                                         *)
(* Code modelled: cmd/http/server.go (alive, renew, spent, expiryOf,       *)
(* closeGate, issue, remember, forget), cmd/http/login.go (accepted),      *)
(* internal/provider/local.go (Verify), internal/token/token.go            *)
(* (OpenSession) and internal/decide/decide.go (open).  The list itself    *)
(* (the sequencer and the mirrors that follow it) appears only through     *)
(* what the two processes see of it: a log of commands, and for each       *)
(* process the length of the prefix that its mirror has applied.           *)
(*                                                                         *)
(* Time is counted in ticks, SecondTicks to a second.  A sealed cookie     *)
(* holds Unix seconds, so every time it carries went through Floor.        *)
(***************************************************************************)
EXTENDS Integers, Sequences, FiniteSets, FiniteSetsExt

CONSTANTS
    Sids,          \* session ids that token.NewID may draw
    Handlers,      \* HTTP requests the form process serves at once
    SecondTicks,   \* clock ticks per second
    TTL,           \* session.ttl
    MaxTTL,        \* session.max_ttl, 0 for no limit
    ListOn,        \* list.sessions is set
    ListTTL,       \* list.ttl
    Grace,         \* list.grace
    RoundTrip,     \* longest time from a list command to its effect in a mirror
    VerifySpan,    \* longest password check, from the read of the users on
    IssueSpan,     \* longest time from the building of a session to its issue
    MaxClock,      \* bound: last tick of a behaviour
    MaxLog,        \* bound: list commands of a behaviour
    MaxPassword,   \* bound: last version of the password
    Statuses       \* bound: what a user's record can become

ASSUME SessionAssumption ==
    /\ SecondTicks \in Nat \ {0}
    /\ TTL \in Nat \ {0}
    /\ MaxTTL \in Nat
    /\ MaxTTL # 0 => TTL <= MaxTTL
    /\ ListOn \in BOOLEAN
    /\ ListTTL \in Nat /\ Grace \in Nat
    /\ RoundTrip \in Nat /\ VerifySpan \in Nat /\ IssueSpan \in Nat
    /\ MaxClock \in Nat /\ MaxLog \in Nat /\ MaxPassword \in Nat
    /\ "active" \in Statuses

VARIABLES
    now,        \* the clock
    user,       \* the user behind the sessions, in the form's current snapshot
    tokens,     \* every session cookie that was handed out, in any copy
    log,        \* commands accepted by the list's sequencer, oldest first
    mirror,     \* what each process's mirror of the list has applied
    handler,    \* the form's requests in progress
    signedIn,   \* history: when each session was built, -1 for never
    replacedAt, \* history: when each version of the password was replaced, -1 for never
    offSince,   \* history: since when the user cannot sign in, -1 while it can
    lost        \* history: sessions with a list command that was never published

vars == <<now, user, tokens, log, mirror, handler, signedIn, replacedAt, offSince, lost>>

Procs == {"form", "inspector"}
Passwords == 0 .. MaxPassword
Never == -1

\* time.Time.Unix and back: a time cut to the whole second.
Floor(t) == t - (t % SecondTicks)

Lesser(a, b) == IF a <= b THEN a ELSE b

(***************************************************************************)
(* The session cookie                                                      *)
(***************************************************************************)

\* Mutant of expiryOf: the ttl is subtracted.
expiryOfBackwards(t, born) ==
    Floor(IF MaxTTL > 0 THEN Lesser(t - TTL, born + MaxTTL) ELSE t - TTL)

\* expiryOf: a session ends TTL from now, or max_ttl after it was born.
expiryOf(t, born) ==
    Floor(IF MaxTTL > 0 THEN Lesser(t + TTL, born + MaxTTL) ELSE t + TTL)

\* The session that accepted() builds at time t.
NewSession(sid, cred, t) ==
    [sid |-> sid, issued |-> Floor(t), expiry |-> expiryOf(t, Floor(t)),
     born |-> Floor(t), cred |-> cred]

\* Mutant of Renewed: max_ttl counts from the renewal.
RenewedReborn(k, t) ==
    [k EXCEPT !.issued = Floor(t), !.expiry = expiryOf(t, Floor(t))]

\* The session that renew() builds from k at time t.
Renewed(k, t) ==
    [k EXCEPT !.issued = Floor(t), !.expiry = expiryOf(t, k.born)]

\* OpenSession: the cookie opens while its expiry lies ahead.
OpenSession(k) == Floor(now) < k.expiry

(***************************************************************************)
(* The session list                                                        *)
(***************************************************************************)

Command(op, sid, exp) == [op |-> op, sid |-> sid, exp |-> exp, at |-> now]

\* Indices of the commands on sid within the first n of the log.
CommandsOn(sid, n) == {i \in 1 .. n : log[i].sid = sid}

\* A record of sid is in the composition of the first n commands and is alive.
ListedAt(sid, n) ==
    LET on == CommandsOn(sid, n) IN
    /\ on # {}
    /\ log[Max(on)].op = "add"
    /\ log[Max(on)].exp > now

\* Mirror.Contains of process p, for a mirror that is ready.
Contains(p, sid) == ListedAt(sid, mirror[p].seq)

\* The first n commands hold every command older than the round trip.
Fresh(n) == \A i \in (n + 1) .. Len(log) : now < log[i].at + RoundTrip

\* A command leaves for the sequencer, or the publish fails and is only logged.
Publish(c) ==
    /\ Len(log) < MaxLog
    /\ \/ log' = Append(log, c) /\ lost' = lost
       \/ log' = log /\ lost' = lost \cup {c.sid}

(***************************************************************************)
(* The inspector's decision                                                *)
(***************************************************************************)

\* Mutant of open: a list that does not answer is taken for a yes.
openWithoutList(k) ==
    IF ~OpenSession(k) THEN "AUTH_SESSION_EXPIRED"
    ELSE IF ~ListOn \/ now - k.issued <= Grace THEN "AUTH_OK"
    ELSE IF ~mirror["inspector"].ready \/ Contains("inspector", k.sid) THEN "AUTH_OK"
    ELSE "AUTH_SESSION_REVOKED"

\* Mutant of open: the last moment of the grace window is left out.
openShortGrace(k) ==
    IF ~OpenSession(k) THEN "AUTH_SESSION_EXPIRED"
    ELSE IF ~ListOn \/ now - k.issued < Grace THEN "AUTH_OK"
    ELSE IF ~mirror["inspector"].ready THEN "AUTH_LIST_UNAVAILABLE"
    ELSE IF Contains("inspector", k.sid) THEN "AUTH_OK"
    ELSE "AUTH_SESSION_REVOKED"

\* decide.open for a request whose cookie opens to session k.
open(k) ==
    IF ~OpenSession(k) THEN "AUTH_SESSION_EXPIRED"
    ELSE IF ~ListOn \/ now - k.issued <= Grace THEN "AUTH_OK"
    ELSE IF ~mirror["inspector"].ready THEN "AUTH_LIST_UNAVAILABLE"
    ELSE IF Contains("inspector", k.sid) THEN "AUTH_OK"
    ELSE "AUTH_SESSION_REVOKED"

Admitted(k) == open(k) = "AUTH_OK"

(***************************************************************************)
(* The form's decision                                                     *)
(***************************************************************************)

\* server.alive: the form asks its own mirror, and takes no answer for a no.
alive(k) ==
    \/ ~ListOn
    \/ now - k.issued <= Grace
    \/ mirror["form"].ready /\ Contains("form", k.sid)

Usable(u) == u.status = "active"

\* Mutant of spent: the user is not looked up again.
spentByAge(k) == MaxTTL > 0 /\ now - k.born >= MaxTTL

\* server.spent: the session has lived its life, or its user is gone,
\* disabled or has another password.
spent(k) ==
    \/ MaxTTL > 0 /\ now - k.born >= MaxTTL
    \/ ~Usable(user)
    \/ k.cred # user.password

(***************************************************************************)
(* Initial state and actions                                               *)
(***************************************************************************)

Idle == [st |-> "idle"]
Verifying(u) == [st |-> "verify", since |-> now, user |-> u]
Issuing(k) == [st |-> "issue", since |-> now, session |-> k]

Init ==
    /\ now = 0
    /\ user = [status |-> "active", password |-> 0]
    /\ tokens = {}
    /\ log = <<>>
    /\ mirror = [p \in Procs |-> [ready |-> FALSE, seq |-> 0]]
    /\ handler = [h \in Handlers |-> Idle]
    /\ signedIn = [s \in Sids |-> Never]
    /\ replacedAt = [v \in Passwords |-> Never]
    /\ offSince = Never
    /\ lost = {}

\* A sign-in reaches the password check with the users of the snapshot that
\* route() picked at the start of the request.
LoginStart(h) ==
    /\ handler[h] = Idle
    /\ handler' = [handler EXCEPT ![h] = Verifying(user)]
    /\ UNCHANGED <<now, user, tokens, log, mirror, signedIn, replacedAt, offSince, lost>>

\* Local.Verify accepts and accepted() builds the session.
LoginAccepted(h, sid) ==
    /\ handler[h].st = "verify"
    /\ Usable(handler[h].user)
    /\ signedIn[sid] = Never
    /\ signedIn' = [signedIn EXCEPT ![sid] = now]
    /\ handler' = [handler EXCEPT
         ![h] = Issuing(NewSession(sid, handler[h].user.password, now))]
    /\ UNCHANGED <<now, user, tokens, log, mirror, replacedAt, offSince, lost>>

\* Local.Verify refuses, or the request is dropped before anything is issued.
HandlerFails(h) ==
    /\ handler[h] # Idle
    /\ handler' = [handler EXCEPT ![h] = Idle]
    /\ UNCHANGED <<now, user, tokens, log, mirror, signedIn, replacedAt, offSince, lost>>

\* renew() up to the rebuilt session; the request may carry any copy of a
\* cookie.  The paths that only redirect to the form change no state.
RenewGranted(h, k) ==
    /\ handler[h] = Idle
    /\ OpenSession(k) /\ alive(k) /\ ~spent(k)
    /\ handler' = [handler EXCEPT ![h] = Issuing(Renewed(k, now))]
    /\ UNCHANGED <<now, user, tokens, log, mirror, signedIn, replacedAt, offSince, lost>>

\* renew() of a spent session: forget() takes its record off the list.
RenewRefused(k) ==
    /\ OpenSession(k) /\ alive(k) /\ spent(k)
    /\ ListOn
    /\ Publish(Command("remove", k.sid, 0))
    /\ UNCHANGED <<now, user, tokens, mirror, handler, signedIn, replacedAt, offSince>>

\* issue(): the cookie is handed out and remember() puts the record on the
\* list for what is left of the session, at most list.ttl.
Issue(h) ==
    /\ handler[h].st = "issue"
    /\ LET k == handler[h].session
           exp == now + Lesser(k.expiry - now, ListTTL)
       IN  /\ tokens' = tokens \cup {k}
           /\ IF ListOn THEN Publish(Command("add", k.sid, exp)) ELSE UNCHANGED <<log, lost>>
    /\ handler' = [handler EXCEPT ![h] = Idle]
    /\ UNCHANGED <<now, user, mirror, signedIn, replacedAt, offSince>>

\* closeGate(): sign-out with any copy of the cookie that still opens.  The
\* browser drops its own copy; the others stay.
Logout(k) ==
    /\ OpenSession(k)
    /\ ListOn
    /\ Publish(Command("remove", k.sid, 0))
    /\ UNCHANGED <<now, user, tokens, mirror, handler, signedIn, replacedAt, offSince>>

\* The panel or a script removes the record (external to this repository).
PanelRemove(sid) ==
    /\ ListOn
    /\ Len(log) < MaxLog
    /\ CommandsOn(sid, Len(log)) # {}
    /\ log' = Append(log, Command("remove", sid, 0))
    /\ UNCHANGED <<now, user, tokens, mirror, handler, signedIn, replacedAt, offSince, lost>>

\* A mirror takes a snapshot or applies the next packages.
MirrorAdvance(p) ==
    /\ ListOn
    /\ \E n \in mirror[p].seq .. Len(log) :
         /\ Fresh(n)
         /\ mirror' = [mirror EXCEPT ![p] = [ready |-> TRUE, seq |-> n]]
    /\ UNCHANGED <<now, user, tokens, log, handler, signedIn, replacedAt, offSince, lost>>

\* The process restarts: its mirror is empty and not ready.
MirrorRestart(p) ==
    /\ mirror[p].ready
    /\ mirror' = [mirror EXCEPT ![p] = [ready |-> FALSE, seq |-> 0]]
    /\ UNCHANGED <<now, user, tokens, log, handler, signedIn, replacedAt, offSince, lost>>

\* A reload of the profiles brings another record of the user: removed or
\* back, disabled or enabled, or with the next password.
UserChange(u) ==
    /\ u # user
    /\ u.password \in {user.password, user.password + 1}
    /\ user' = u
    /\ replacedAt' = IF u.password = user.password THEN replacedAt
                     ELSE [replacedAt EXCEPT ![user.password] = now]
    /\ offSince' = IF Usable(u) THEN Never
                   ELSE IF offSince = Never THEN now ELSE offSince
    /\ UNCHANGED <<now, tokens, log, mirror, handler, signedIn, lost>>

\* Time passes, but no request in progress outlives its span and no ready
\* mirror falls behind the list by more than the round trip.
Tick ==
    /\ now < MaxClock
    /\ \A h \in Handlers :
         /\ handler[h].st = "verify" => now < handler[h].since + VerifySpan
         /\ handler[h].st = "issue" => now < handler[h].since + IssueSpan
    /\ \A p \in Procs : mirror[p].ready => Fresh(mirror[p].seq)
    /\ now' = now + 1
    /\ UNCHANGED <<user, tokens, log, mirror, handler, signedIn, replacedAt, offSince, lost>>

Users == [status : Statuses, password : Passwords]

Next ==
    \/ \E h \in Handlers : LoginStart(h) \/ HandlerFails(h) \/ Issue(h)
    \/ \E h \in Handlers, s \in Sids : LoginAccepted(h, s)
    \/ \E h \in Handlers, k \in tokens : RenewGranted(h, k)
    \/ \E k \in tokens : RenewRefused(k) \/ Logout(k)
    \/ \E s \in Sids : PanelRemove(s)
    \/ \E p \in Procs : MirrorAdvance(p) \/ MirrorRestart(p)
    \/ \E u \in Users : UserChange(u)
    \/ Tick

Spec == Init /\ [][Next]_vars

(***************************************************************************)
(* Properties                                                              *)
(***************************************************************************)

Tokens == [sid : Sids, issued : Nat, expiry : Nat, born : Nat, cred : Passwords]

Requests ==
    {Idle}
    \cup [st : {"verify"}, since : Nat, user : Users]
    \cup [st : {"issue"}, since : Nat, session : Tokens]

Commands == [op : {"add", "remove"}, sid : Sids, exp : Int, at : Nat]

\* Type correctness of the cookies, the list, the mirrors and the requests
\* that cmd/http and the inspector keep.
TypeOK ==
    /\ now \in Nat
    /\ user \in Users
    /\ tokens \in SUBSET Tokens
    /\ log \in Seq(Commands)
    /\ mirror \in [Procs -> [ready : BOOLEAN, seq : Nat]]
    /\ handler \in [Handlers -> Requests]
    /\ signedIn \in [Sids -> Nat \cup {Never}]
    /\ replacedAt \in [Passwords -> Nat \cup {Never}]
    /\ offSince \in Nat \cup {Never}
    /\ lost \in SUBSET Sids

\* session.max_ttl is the longest a session lives from sign-in, renewals
\* included (README.md:92): whatever renew() was asked and when, decide.open
\* admits no cookie of a session max_ttl after its sign-in.
LifeBound ==
    MaxTTL > 0 =>
        \A k \in tokens : Admitted(k) => now < signedIn[k.sid] + MaxTTL

\* A user who was removed, disabled or given a new password is out at the
\* latest when the cookies of that moment expire: spent() stops every
\* renewal, and only a sign-in whose password check was already running may
\* still issue a cookie.
UserLossBound ==
    \A k \in tokens : Admitted(k) =>
        /\ offSince # Never => now < offSince + VerifySpan + TTL
        /\ k.cred # user.password => now < replacedAt[k.cred] + VerifySpan + TTL

\* The last command on sid in the whole log is a removal made before time t.
RemovedBefore(sid, t) ==
    LET on == CommandsOn(sid, Len(log)) IN
    on # {} /\ log[Max(on)].op = "remove" /\ log[Max(on)].at < t

\* A removal of the record that nothing followed ends the session: once the
\* round trip is over decide.open admits only cookies younger than the grace
\* window, from whichever process and in whichever order the commands came.
RemovalBites ==
    \A k \in tokens :
        ListOn /\ Admitted(k) /\ RemovedBefore(k.sid, now - RoundTrip)
            => now - k.issued <= Grace

\* The grace window covers the round trip of the record, the way from the
\* building of the session to its issue, and the cut of issued to a second.
GraceCovers == ListTTL = TTL /\ RoundTrip + IssueSpan + SecondTicks - 1 <= Grace

\* list.grace is the window for the sequencer round-trip (source.go:426): a
\* session whose record was published and never removed is not refused as
\* revoked, neither at the edge of the window nor later.  Renewals of one
\* session may overlap, and the one that was built first may reach remember()
\* last: its record then replaces a longer one, by no more than the span of an
\* issue and the cut of its end to a second.
NoFalseRevoke ==
    GraceCovers =>
        \A k \in tokens :
            /\ k.sid \notin lost
            /\ \A i \in CommandsOn(k.sid, Len(log)) : log[i].op = "add"
            /\ now < Floor(k.expiry - IssueSpan)
            => open(k) # "AUTH_SESSION_REVOKED"

\* Removing the record ends the session (README.md:78-83): once a removal has
\* gone round and the grace windows are over, the session is never admitted
\* again.  The code does not keep this: renew() puts the record back.
EndedStaysEnded ==
    \A k \in tokens, i \in 1 .. Len(log) :
        /\ log[i].sid = k.sid /\ log[i].op = "remove"
        /\ now > log[i].at + RoundTrip + Grace
        /\ now - k.issued > Grace
        => ~Admitted(k)
=============================================================================
