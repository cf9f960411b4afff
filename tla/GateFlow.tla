------------------------------ MODULE GateFlow ------------------------------
(***************************************************************************)
(* The gate of one profile and the browser that passes it: the inspector   *)
(* decides on every request, and its redirects take the browser to the     *)
(* sign-in form or to the renewal, and back to the page.                   *)
(*                                                                         *)
(* Code modelled: internal/decide/decide.go (Check, gate, open, openJWT,   *)
(* openApp, priorAsk, eventOf, reauthDue, allow, sessionsOf, redirect,     *)
(* renew, navigational), cmd/inspector/handler.go (inspect) and, as far as *)
(* the browser sees them, cmd/http/server.go (renew) and                   *)
(* cmd/http/login.go (accepted).                                           *)
(*                                                                         *)
(* A session carries its age in whole seconds, up to the largest that      *)
(* matters, instead of times; module SessionLife has the clock itself.     *)
(***************************************************************************)
EXTENDS Integers, FiniteSets

CONSTANTS
    Modes,        \* modes of the profile
    Providers,    \* "form" for local, code, ldap and ntlm; "jwt"; "app"
    TTL,          \* session.ttl, in seconds
    MaxTTL,       \* session.max_ttl, 0 for no limit
    RenewAfter,   \* session.renew_after, 0 for never
    ReauthAfter,  \* trigger.reauth_after
    Grace,        \* list.grace
    Lead          \* how far the inspector's clock is ahead of the form's

ASSUME GateAssumption ==
    /\ Modes \subseteq {"enforce", "observe", "off"}
    /\ Providers \subseteq {"form", "jwt", "app"}
    /\ TTL \in Nat \ {0}
    /\ MaxTTL \in Nat /\ (MaxTTL # 0 => TTL <= MaxTTL)
    /\ RenewAfter \in Nat /\ RenewAfter < TTL
    /\ ReauthAfter \in Nat /\ Grace \in Nat /\ Lead \in Nat

VARIABLES
    cfg,      \* the profile and its source
    cookie,   \* what the browser presents
    list,     \* the session list as the processes see it
    asks,     \* what other inspectors ask of this request
    at,       \* where the browser is
    last      \* the request just answered, if the last step was an answer

vars == <<cfg, cookie, list, asks, at, last>>

(***************************************************************************)
(* What is presented                                                       *)
(***************************************************************************)

NoCookie == [kind |-> "none"]

\* A session just sealed: its age, the time from sign-in to this renewal, and
\* whether the client's network, the cookie's scope, the issuing source and
\* the groups fit.
Sealed(member) ==
    [kind |-> "sealed", age |-> 0, span |-> 0, net |-> TRUE, scope |-> TRUE,
     iss |-> TRUE, member |-> member]

\* A token of the application's own: the checks that it passes.
JWTs == [kind : {"jwt"}, sig : BOOLEAN, expired : BOOLEAN, early : BOOLEAN,
         iss : BOOLEAN, aud : BOOLEAN, member : BOOLEAN, recent : BOOLEAN]

Garbage == [kind |-> "garbage"]

Requests == [own : BOOLEAN, method : {"GET", "POST"}, page : BOOLEAN]

(***************************************************************************)
(* decide.open                                                             *)
(***************************************************************************)

\* What decide.open yields: a session or none, and the code.
Opened(code) == [sess |-> code = "AUTH_OK", code |-> code]

\* The age of the session by the inspector's clock, and the age that expiryOf
\* has set for its end.
Seen(k) == k.age + Lead
Lifetime(k) == IF MaxTTL > 0 /\ MaxTTL - k.span < TTL THEN MaxTTL - k.span ELSE TTL

openSealed(k) ==
    Opened(IF k.kind # "sealed" THEN "AUTH_SESSION_BAD"
           ELSE IF Seen(k) >= Lifetime(k) THEN "AUTH_SESSION_EXPIRED"
           ELSE IF ~k.net THEN "AUTH_SESSION_BIND"
           ELSE IF ~k.scope THEN "AUTH_SESSION_SCOPE"
           ELSE IF ~k.iss THEN "AUTH_SESSION_SOURCE"
           ELSE IF ~cfg.list \/ Seen(k) <= Grace THEN "AUTH_OK"
           ELSE IF ~list.ready THEN "AUTH_LIST_UNAVAILABLE"
           ELSE IF ~list.has THEN "AUTH_SESSION_REVOKED"
           ELSE "AUTH_OK")

openJWT(k) ==
    Opened(IF k.kind # "jwt" THEN "AUTH_SESSION_BAD"
           ELSE IF cfg.verify /\ ~k.sig THEN "AUTH_SESSION_BAD"
           ELSE IF k.expired THEN "AUTH_SESSION_EXPIRED"
           ELSE IF k.early THEN "AUTH_SESSION_BAD"
           ELSE IF ~k.iss THEN "AUTH_SESSION_SOURCE"
           ELSE IF ~k.aud THEN "AUTH_SESSION_SCOPE"
           ELSE "AUTH_OK")

openApp(k) ==
    Opened(IF ~list.ready THEN "AUTH_LIST_UNAVAILABLE"
           ELSE IF ~list.has THEN "AUTH_NO_SESSION"
           ELSE "AUTH_OK")

open(k) ==
    IF k = NoCookie THEN Opened("AUTH_NO_SESSION")
    ELSE IF cfg.provider = "jwt" THEN openJWT(k)
    ELSE IF cfg.provider = "app" THEN openApp(k)
    ELSE openSealed(k)

(***************************************************************************)
(* decide.Check                                                            *)
(***************************************************************************)

\* Mutant of Allows: a session without groups is in all of them.
AllowsWithoutGroups(k) == cfg.groups => cfg.provider = "app" \/ k.member

\* GroupsAllow: sessions of provider app carry no groups.
Allows(k) ==
    cfg.groups => cfg.provider # "app" /\ k.member

\* priorAsk: asks of the request phase that a rule of trigger.prior accepts.
asked(do) == \E a \in asks : a.phase = "request" /\ a.do = do /\ do \in cfg.prior

\* Mutant of reauthDue: a fresh session has to sign in again too.
reauthAlwaysDue(k) == TRUE

\* reauthDue and NeedsRenew: the time of issue is in the session or among the
\* claims of the token, and unknown, so long ago, for provider app; only a
\* sealed session has a time of renewal.
reauthDue(k) ==
    \/ ReauthAfter = 0
    \/ cfg.provider = "form" /\ Seen(k) >= ReauthAfter
    \/ cfg.provider = "jwt" /\ ~k.recent
    \/ cfg.provider = "app"

NeedsRenew(k) == k.kind = "sealed" /\ RenewAfter # 0 /\ Seen(k) >= RenewAfter

navigational(r) == r.method = "GET" /\ (cfg.htmlOnly => r.page)

External == cfg.provider \in {"jwt", "app"}

Result(verdict, code, to, sess, user) ==
    [verdict |-> verdict, code |-> code, to |-> to, sess |-> sess, user |-> user]

\* Mutant of headerOf: without a session no header is set.
headerOfSession(sess) ==
    IF cfg.source /\ cfg.upstream /\ sess THEN "session" ELSE "client"

\* setHeader: whose name the application reads.  A header is set over the one the
\* client has sent, empty without a session, if the profile has a source and that
\* names the header.
headerOf(sess) ==
    IF ~cfg.source \/ ~cfg.upstream THEN "client"
    ELSE IF sess THEN "session" ELSE "empty"

\* allow, and the answers that do not reach the application.
allow(code, sess) == Result("allow", code, "page", sess, headerOf(sess))
turned(verdict, code, to) == Result(verdict, code, to, FALSE, "unsent")
deny(code) == turned("deny", code, "page")

\* redirect and gate: to the form, or the form inside the answer; an external
\* source without a login page has nowhere to send the browser.
gate(code) ==
    IF External /\ ~cfg.loginURI THEN deny(code)
    ELSE turned(IF cfg.inline THEN "deny" ELSE "redirect", code, "form")

\* What a request without a session, or with one that must sign in again, gets.
turnAway(r, code, sess) ==
    IF cfg.mode = "observe" THEN allow("AUTH_OBSERVE", sess)
    ELSE IF navigational(r) THEN gate(code) ELSE deny(code)

withSession(r, k) ==
    IF asked("reauth") /\ ~asked("skip") /\ reauthDue(k)
    THEN turnAway(r, "AUTH_REAUTH", TRUE)
    ELSE IF NeedsRenew(k) /\ navigational(r)
    THEN IF cfg.mode = "observe" THEN allow("AUTH_OBSERVE", TRUE)
         ELSE turned("redirect", "AUTH_RENEW", "renew")
    ELSE allow("AUTH_OK", TRUE)

Check(r, k) ==
    LET o == open(k) IN
    IF cfg.mode = "off" THEN allow("AUTH_OFF", FALSE)
    ELSE IF r.own THEN allow("AUTH_SELF", FALSE)
    ELSE IF o.code = "AUTH_LIST_UNAVAILABLE" THEN turned("error", o.code, "page")
    ELSE IF o.sess /\ ~Allows(k)
    THEN IF cfg.mode = "observe" THEN allow("AUTH_OBSERVE", TRUE) ELSE deny("AUTH_FORBIDDEN")
    ELSE IF o.sess THEN withSession(r, k)
    ELSE IF asked("skip") THEN allow("AUTH_SKIPPED", FALSE)
    ELSE turnAway(r, o.code, FALSE)

\* eventOf: the event that the rules of the profile are fired with.
eventOf(r, k) ==
    IF cfg.mode = "off" \/ r.own THEN "none"
    ELSE IF open(k).sess /\ ~Allows(k) THEN "forbidden"
    ELSE IF open(k).sess THEN "authenticated"
    ELSE IF open(k).code = "AUTH_NO_SESSION" THEN "anonymous"
    ELSE IF open(k).code = "AUTH_LIST_UNAVAILABLE" THEN "none"
    ELSE "invalid"

(***************************************************************************)
(* The browser                                                             *)
(***************************************************************************)

Configs == [mode : Modes, provider : Providers, groups : BOOLEAN, list : BOOLEAN,
            inline : BOOLEAN, htmlOnly : {TRUE}, verify : BOOLEAN, loginURI : BOOLEAN,
            prior : {{}, {"reauth", "skip"}}, source : BOOLEAN, upstream : BOOLEAN]

\* What validation accepts: only a profile in mode off may do without a source,
\* and then what a source would say is of no account.
Sensible(c) ==
    /\ c.provider = "app" => c.list
    /\ c.provider = "jwt" => ~c.list
    /\ c.provider # "jwt" => c.verify
    /\ c.provider = "form" => c.loginURI
    /\ ~c.source => c.mode = "off" /\ c.provider = "form" /\ ~c.list /\ c.upstream

Asking(p, D) == {[phase |-> p, do |-> d] : d \in D}
AskSets == {Asking("request", D) : D \in SUBSET {"reauth", "skip"}}
           \cup {Asking("response", {"reauth", "skip"})}

NoAnswer == [by |-> "none"]

Init ==
    /\ cfg \in {c \in Configs : Sensible(c)}
    /\ cookie = NoCookie
    /\ list = [has |-> FALSE, ready |-> TRUE]
    /\ asks \in AskSets
    /\ at = "rest"
    /\ last = NoAnswer

\* Why a request cannot be answered: the snapshot at hand does not know the
\* profile, the store that holds the headers fails, or the geo data that a rule
\* needs are missing.
Faults == {"AUTH_UNKNOWN_PROFILE"} \cup
          IF cfg.mode = "off" THEN {} ELSE {"AUTH_STORE_UNAVAILABLE", "AUTH_GEO_UNAVAILABLE"}

\* inlineForm: a form that cannot be put into the answer is redirected to, and
\* that of an external source, which comes with no ticket, never can.
verdicts(res) ==
    IF res.to # "form" \/ res.verdict # "deny" THEN {res.verdict}
    ELSE IF External THEN {"redirect"} ELSE {"deny", "redirect"}

\* handler.inspect: the answers that a request can get.  A ticket that cannot be
\* sealed leaves a plain refusal.
inspect(r, k) ==
    LET res == Check(r, k) IN
    {[res |-> [res EXCEPT !.verdict = v], event |-> eventOf(r, k)] : v \in verdicts(res)}
    \cup (IF res.to = "form" /\ ~External
          THEN {[res |-> deny(res.code), event |-> eventOf(r, k)]} ELSE {})
    \cup {[res |-> turned("error", code, "page"), event |-> "none"] : code \in Faults}

\* The inspector answers request r; the browser follows a redirect.  By is the
\* way the browser came: "user", or back from the form or the renewal.
Ask(r, by) ==
    /\ \E a \in inspect(r, cookie) :
         /\ last' = [by |-> by, req |-> r, res |-> a.res, event |-> a.event]
         /\ at' = IF a.res.to = "page" THEN "rest" ELSE a.res.to
    /\ UNCHANGED <<cfg, cookie, list, asks>>

Navigate(r) == at = "rest" /\ last = NoAnswer /\ Ask(r, "user")

\* The browser shows the page that it got.
Shown ==
    /\ at = "rest" /\ last # NoAnswer
    /\ last' = NoAnswer
    /\ UNCHANGED <<cfg, cookie, list, asks, at>>

\* Back on the page that the form was asked for.
GoBack ==
    /\ at \in {"back-form", "back-renew"}
    /\ Ask([own |-> FALSE, method |-> "GET", page |-> TRUE], at)

\* accepted(): a fresh session and its record on the list.
SignIn ==
    /\ at = "form" /\ ~External
    /\ \E m \in BOOLEAN : cookie' = Sealed(m)
    /\ list' = [list EXCEPT !.has = cfg.list]
    /\ at' = "back-form"
    /\ last' = NoAnswer
    /\ UNCHANGED <<cfg, asks>>

\* The form's own reading of the session, by its own clock.
RenewOpens ==
    /\ cookie.kind = "sealed" /\ cookie.net /\ cookie.scope /\ cookie.iss
    /\ cookie.age < Lifetime(cookie)
    /\ ~cfg.list \/ cookie.age <= Grace \/ (list.ready /\ list.has)

Spent == MaxTTL > 0 /\ cookie.span + cookie.age >= MaxTTL

\* server.renew: reissued, or off to the form, without a record if it is spent.
Renew ==
    /\ at = "renew"
    /\ \/ /\ RenewOpens /\ ~Spent
          /\ cookie' = [cookie EXCEPT !.age = 0,
                                      !.span = IF MaxTTL > 0 THEN @ + cookie.age ELSE @]
          /\ list' = [list EXCEPT !.has = cfg.list]
          /\ at' = "back-renew"
       \/ /\ ~RenewOpens \/ Spent
          /\ list' = [list EXCEPT !.has = @ /\ ~RenewOpens]
          /\ at' = "form"
          /\ UNCHANGED cookie
    /\ last' = NoAnswer
    /\ UNCHANGED <<cfg, asks>>

\* The user leaves the form, or a form that is not this system's signs in.
Leave ==
    /\ at = "form"
    /\ at' = "rest"
    /\ last' = NoAnswer
    /\ UNCHANGED <<cfg, cookie, list, asks>>

\* The browser brings something else: nothing, another network, a cookie of
\* another scope or source, a token of the application.
Present(k) ==
    /\ at = "rest"
    /\ cookie' = k
    /\ last' = NoAnswer
    /\ UNCHANGED <<cfg, list, asks, at>>

Altered ==
    {NoCookie, Garbage} \cup
    (IF cookie.kind = "sealed" /\ cookie.net /\ cookie.scope /\ cookie.iss
     THEN {[cookie EXCEPT !.net = FALSE], [cookie EXCEPT !.scope = FALSE],
           [cookie EXCEPT !.iss = FALSE]}
     ELSE {})
    \cup (IF cfg.provider = "jwt" /\ cookie = NoCookie THEN JWTs ELSE {})

\* The list: a record removed or, for provider app, learned; a mirror that is
\* not ready.
ListChange ==
    /\ cfg.list
    /\ at = "rest"
    /\ \/ list' = [list EXCEPT !.ready = ~@]
       \/ list' = [list EXCEPT !.has = IF cfg.provider = "app" THEN ~@ ELSE FALSE]
    /\ last' = NoAnswer
    /\ UNCHANGED <<cfg, cookie, asks, at>>

\* A second passes while the user reads or types; past TTL the age is all the
\* same.
Second ==
    /\ at \in {"rest", "form"}
    /\ cookie.kind = "sealed" /\ cookie.age < TTL
    /\ cookie' = [cookie EXCEPT !.age = @ + 1]
    /\ last' = NoAnswer
    /\ UNCHANGED <<cfg, list, asks, at>>

Next ==
    \/ \E r \in Requests : Navigate(r)
    \/ Shown \/ GoBack \/ SignIn \/ Renew \/ Leave \/ ListChange \/ Second
    \/ \E k \in Altered : Present(k)

Spec == Init /\ [][Next]_vars

(***************************************************************************)
(* Properties                                                              *)
(***************************************************************************)

\* A credential that stands for a session: written from what a session is, not
\* from the order of the tests in decide.open.
Genuine(k) ==
    CASE cfg.provider = "form" ->
           /\ k.kind = "sealed" /\ k.net /\ k.scope /\ k.iss
           /\ k.age + Lead < TTL
           /\ MaxTTL > 0 => k.span + k.age + Lead < MaxTTL
           /\ cfg.list => (k.age + Lead <= Grace \/ (list.ready /\ list.has))
      [] cfg.provider = "jwt" ->
           /\ k.kind = "jwt" /\ k.iss /\ k.aud /\ ~k.expired /\ ~k.early
           /\ cfg.verify => k.sig
      [] cfg.provider = "app" -> k # NoCookie /\ list.ready /\ list.has

\* The gate lets nobody through without a session of its source, and stops
\* nobody where it only watches: an enforcing profile allows its own pages, what
\* another inspector has asked to skip, and genuine sessions of a member of the
\* groups; in the other modes only what cannot be decided is an error, for want
\* of the profile and, in observe, of the list, the store or the geo data.
GateHolds ==
    last # NoAnswer =>
        IF cfg.mode = "enforce"
        THEN last.res.verdict = "allow" =>
               \/ last.req.own
               \/ /\ last.res.code = "AUTH_SKIPPED"
                  /\ "skip" \in cfg.prior /\ [phase |-> "request", do |-> "skip"] \in asks
               \/ /\ Genuine(cookie)
                  /\ cfg.groups => cfg.provider # "app" /\ cookie.member
        ELSE \/ last.res.verdict = "allow"
             \/ /\ last.res.verdict = "error"
                /\ \/ last.res.code \in Faults
                   \/ cfg.mode = "observe" /\ cfg.list /\ ~list.ready

\* The identity headers name a subject only for a genuine session, and without
\* one they are emptied over whatever the client has sent, in every mode
\* (README.md:107-113) but one case: a profile in mode off needs no source
\* (profile.go:599, the default of deploy/Dockerfile:39), and without one, as
\* with a source that leaves upstream.user empty, the client's own X-WAF-User
\* goes through (decide.go:630).  The rules see a session exactly when there is
\* one.
IdentityGenuine ==
    last # NoAnswer =>
        /\ last.res.sess \/ last.res.user = "session" => Genuine(cookie)
        /\ last.res.user = "client" => (cfg.mode = "off" /\ ~cfg.source) \/ ~cfg.upstream
        /\ last.event \in {"authenticated", "forbidden"} <=>
             Genuine(cookie) /\ cfg.mode # "off" /\ ~last.req.own /\ last.res.verdict # "error"

\* The inspector's clock is close enough to the form's.
LeadSmall == Lead <= Grace /\ Lead < ReauthAfter /\ Lead < TTL /\ (RenewAfter # 0 => Lead < RenewAfter)

\* No redirect loop: a browser that comes back from a sign-in is not sent to
\* the form or to the renewal again, though an inspector keeps asking for
\* reauth, and one that comes back from the renewal is not sent to renew again.
NoLoop ==
    last # NoAnswer /\ LeadSmall =>
        /\ last.by = "back-form" => last.res.to = "page"
        /\ last.by = "back-renew" => last.res.to # "renew"
=============================================================================
