--------------------------- MODULE GateFlowProofs ---------------------------
(* Proofs about GateFlow and about ConfigApply, for every value of their   *)
(* constants: the decisions of a gate, and the generations of profiles     *)
(* that they are taken with.                                               *)
EXTENDS GateFlow, ConfigApply, TLAPS

(***************************************************************************)
(* The inductive invariant                                                 *)
(***************************************************************************)

\* The cookies that a browser can bring.
Seals == [kind : {"sealed"}, age : Nat, span : Nat, net : BOOLEAN, scope : BOOLEAN,
          iss : BOOLEAN, member : BOOLEAN]
Cookies == {NoCookie, Garbage} \cup JWTs \cup Seals

\* Where a browser can be in a chain of redirects.
Places == {"rest", "form", "renew", "back-form", "back-renew"}

\* Where the browser is, what it brings, and the configurations that validation
\* accepts.
TypeOK ==
    /\ cfg \in {c \in Configs : Sensible(c)}
    /\ cookie \in Cookies
    /\ list \in [has : BOOLEAN, ready : BOOLEAN]
    /\ asks \in AskSets
    /\ at \in Places

\* The session of somebody who just signed in opens for the inspector too.
Fresh(k) == k \in Seals /\ k.age = 0 /\ k.span = 0 /\ k.net /\ k.scope /\ k.iss

\* What a browser brings that comes back from the form or from the renewal.
Returning ==
    /\ at = "back-form" => Fresh(cookie) /\ ~External
    /\ at = "back-renew" => cookie \in Seals /\ cookie.age = 0

\* The answer on show was given for what the browser presents and for the list
\* as it still is.
Current ==
    last # NoAnswer =>
        /\ last.req \in Requests
        /\ \E a \in inspect(last.req, cookie) : last.res = a.res /\ last.event = a.event

IInv == TypeOK /\ Returning /\ Current /\ NoLoop

(***************************************************************************)
(* decide.open and decide.Check                                            *)
(***************************************************************************)

\* The configurations that validation accepts.
LEMMA CfgTypes ==
    ASSUME TypeOK
    PROVE  /\ cfg.mode \in {"enforce", "observe", "off"}
           /\ cfg.provider \in {"form", "jwt", "app"}
           /\ {cfg.groups, cfg.list, cfg.inline, cfg.htmlOnly, cfg.verify, cfg.loginURI,
               cfg.source, cfg.upstream} \subseteq BOOLEAN
           /\ ~cfg.source => cfg.mode = "off"
           /\ cfg.provider = "app" => cfg.list
           /\ cfg.provider = "form" => cfg.loginURI
  BY GateAssumption DEF TypeOK, Configs, Sensible

\* expiryOf ends a session at session.ttl or session.max_ttl, whichever comes
\* first.
LEMMA LifetimeFacts ==
    ASSUME NEW k \in Seals
    PROVE  Seen(k) < Lifetime(k) <=>
             k.age + Lead < TTL /\ (MaxTTL > 0 => k.span + k.age + Lead < MaxTTL)
  BY GateAssumption DEF Seals, Seen, Lifetime

\* The order of the tests in decide.open does not matter to what it accepts:
\* it opens exactly the credentials that stand for a session.
LEMMA OpenGenuine ==
    ASSUME TypeOK
    PROVE  open(cookie).sess <=> Genuine(cookie)
<1>1. CASE cfg.provider = "form"
  <2>1. CASE cookie.kind # "sealed"
    BY <1>1, <2>1 DEF open, openSealed, Opened, Genuine
  <2>2. CASE cookie.kind = "sealed"
    <3>1. cookie \in Seals /\ cookie # NoCookie
      BY <2>2 DEF TypeOK, Cookies, NoCookie, Garbage, JWTs
    <3>2. /\ cookie.net \in BOOLEAN /\ cookie.scope \in BOOLEAN /\ cookie.iss \in BOOLEAN
          /\ cfg.list \in BOOLEAN /\ list.ready \in BOOLEAN /\ list.has \in BOOLEAN
          /\ cookie.age \in Nat /\ Lead \in Nat /\ Grace \in Nat
      BY <3>1, CfgTypes, GateAssumption DEF TypeOK, Seals
    <3>3. Seen(cookie) >= Lifetime(cookie) <=> ~(Seen(cookie) < Lifetime(cookie))
      BY <3>1, GateAssumption DEF Seals, Seen, Lifetime
    <3>4. open(cookie) = openSealed(cookie)
      BY <1>1, <3>1 DEF open
    <3>5. openSealed(cookie).sess <=>
            /\ Seen(cookie) < Lifetime(cookie) /\ cookie.net /\ cookie.scope /\ cookie.iss
            /\ ~cfg.list \/ Seen(cookie) <= Grace \/ (list.ready /\ list.has)
      BY <2>2, <3>2, <3>3 DEF openSealed, Opened
    <3>6. Genuine(cookie) <=>
            /\ Seen(cookie) < Lifetime(cookie) /\ cookie.net /\ cookie.scope /\ cookie.iss
            /\ ~cfg.list \/ Seen(cookie) <= Grace \/ (list.ready /\ list.has)
      BY <1>1, <2>2, <3>1, <3>2, LifetimeFacts DEF Genuine, Seen
    <3> QED
      BY <3>4, <3>5, <3>6
  <2> QED
    BY <2>1, <2>2
<1>2. CASE cfg.provider = "jwt"
  <2>1. CASE cookie.kind # "jwt"
    BY <1>2, <2>1 DEF open, openJWT, Opened, Genuine
  <2>2. CASE cookie.kind = "jwt"
    <3>1. cookie \in JWTs /\ cookie # NoCookie
      BY <2>2 DEF TypeOK, Cookies, NoCookie, Garbage, Seals
    <3> QED
      BY <1>2, <2>2, <3>1 DEF open, openJWT, Opened, Genuine, JWTs
  <2> QED
    BY <2>1, <2>2
<1>3. CASE cfg.provider = "app"
  BY <1>3 DEF open, openApp, Opened, Genuine, TypeOK
<1> QED
  BY <1>1, <1>2, <1>3, CfgTypes

\* What decide.open yields beside the session.
LEMMA OpenCode ==
    ASSUME TypeOK
    PROVE  /\ open(cookie).sess \in BOOLEAN
           /\ open(cookie).sess <=> open(cookie).code = "AUTH_OK"
           /\ open(cookie).code = "AUTH_LIST_UNAVAILABLE" => cfg.list /\ ~list.ready
<1>1. /\ openApp(cookie).code = "AUTH_LIST_UNAVAILABLE" => ~list.ready
      /\ openSealed(cookie).code = "AUTH_LIST_UNAVAILABLE" => cfg.list /\ ~list.ready
      /\ openJWT(cookie).code # "AUTH_LIST_UNAVAILABLE"
  BY DEF openApp, openSealed, openJWT, Opened
<1>2. PICK c : open(cookie) = Opened(c)
  BY DEF open, openJWT, openApp, openSealed
<1>3. open(cookie).sess \in BOOLEAN /\ (open(cookie).sess <=> open(cookie).code = "AUTH_OK")
  <2>1. open(cookie).code = c /\ open(cookie).sess = (c = "AUTH_OK")
    BY <1>2 DEF Opened
  <2> QED
    BY <2>1, Zenon
<1>4. open(cookie).code = "AUTH_LIST_UNAVAILABLE" => cfg.list /\ ~list.ready
  <2>1. Opened("AUTH_NO_SESSION").code = "AUTH_NO_SESSION"
    BY DEF Opened
  <2> QED
    BY <1>1, <2>1, CfgTypes DEF open
<1> QED
  BY <1>3, <1>4

\* What decide.Check answers, in an enforcing profile and in the others.
LEMMA CheckAnswer ==
    ASSUME TypeOK, NEW r \in Requests
    PROVE  LET a == Check(r, cookie)
               o == open(cookie)
           IN  /\ a.sess => o.sess
               /\ a.user = "session" => o.sess
               /\ a.user = "client" => ~cfg.source \/ ~cfg.upstream
               /\ a.verdict = "error" => /\ cfg.mode # "off" /\ ~r.own /\ ~o.sess
                                         /\ a.code = "AUTH_LIST_UNAVAILABLE"
                                         /\ cfg.list /\ ~list.ready
               /\ cfg.mode # "enforce" => a.verdict \in {"allow", "error"}
               /\ cfg.mode = "off" => a.verdict = "allow"
               /\ cfg.mode = "enforce" /\ a.verdict = "allow" =>
                    \/ r.own
                    \/ a.code = "AUTH_SKIPPED" /\ asked("skip")
                    \/ o.sess /\ Allows(cookie)
<1>1. PICK o : o = open(cookie)
  OBVIOUS
<1>2. /\ o.sess \in BOOLEAN /\ (o.sess <=> o.code = "AUTH_OK")
      /\ o.code = "AUTH_LIST_UNAVAILABLE" => cfg.list /\ ~list.ready
  BY <1>1, OpenCode
<1>3. r.own \in BOOLEAN
  BY DEF Requests
<1>4. ASSUME NEW code, NEW sess \in BOOLEAN
      PROVE  LET a == turnAway(r, code, sess) IN
             /\ a.sess => sess
             /\ a.user = "session" => sess
             /\ a.user = "client" => ~cfg.source \/ ~cfg.upstream
             /\ a.verdict # "error"
             /\ cfg.mode # "enforce" => cfg.mode = "off" \/ a.verdict = "allow"
             /\ cfg.mode = "enforce" => a.verdict # "allow"
  <2>1. CASE cfg.mode = "observe"
    BY <1>4, <2>1, CfgTypes DEF turnAway, allow, Result, headerOf
  <2>2. CASE cfg.mode # "observe"
    BY <1>4, <2>2, CfgTypes DEF turnAway, gate, deny, turned, Result
  <2> QED
    BY <2>1, <2>2
<1>5. LET a == withSession(r, cookie) IN
      /\ a.verdict # "error"
      /\ cfg.mode # "enforce" => cfg.mode = "off" \/ a.verdict = "allow"
      /\ a.user = "client" => ~cfg.source \/ ~cfg.upstream
  <2>1. CASE withSession(r, cookie) = turnAway(r, "AUTH_REAUTH", TRUE)
    BY <1>4, <2>1
  <2>2. CASE withSession(r, cookie) \in {allow("AUTH_OBSERVE", TRUE), allow("AUTH_OK", TRUE)}
    BY <2>2, CfgTypes DEF allow, Result, headerOf
  <2>3. CASE /\ withSession(r, cookie) = turned("redirect", "AUTH_RENEW", "renew")
             /\ cfg.mode # "observe"
    BY <2>3, CfgTypes DEF turned, Result
  <2> QED
    BY <2>1, <2>2, <2>3 DEF withSession
<1> QED
  <2> DEFINE a == Check(r, cookie)
  <2>1. \/ cfg.mode = "off" /\ a = allow("AUTH_OFF", FALSE)
        \/ cfg.mode # "off" /\ r.own /\ a = allow("AUTH_SELF", FALSE)
        \/ /\ cfg.mode # "off" /\ ~r.own /\ o.code = "AUTH_LIST_UNAVAILABLE"
           /\ a = turned("error", o.code, "page")
        \/ /\ cfg.mode = "observe" /\ o.sess /\ a = allow("AUTH_OBSERVE", TRUE)
        \/ a = deny("AUTH_FORBIDDEN") /\ cfg.mode # "observe" /\ cfg.mode # "off"
        \/ cfg.mode # "off" /\ o.sess /\ Allows(cookie) /\ a = withSession(r, cookie)
        \/ cfg.mode # "off" /\ asked("skip") /\ a = allow("AUTH_SKIPPED", FALSE)
        \/ cfg.mode # "off" /\ a = turnAway(r, o.code, FALSE)
    BY <1>1 DEF Check
  <2> DEFINE Goal ==
        /\ a.sess => o.sess
        /\ a.user = "session" => o.sess
        /\ a.user = "client" => ~cfg.source \/ ~cfg.upstream
        /\ a.verdict = "error" => /\ cfg.mode # "off" /\ ~r.own /\ ~o.sess
                                  /\ a.code = "AUTH_LIST_UNAVAILABLE"
                                  /\ cfg.list /\ ~list.ready
        /\ cfg.mode # "enforce" => a.verdict \in {"allow", "error"}
        /\ cfg.mode = "off" => a.verdict = "allow"
        /\ cfg.mode = "enforce" /\ a.verdict = "allow" =>
             \/ r.own
             \/ a.code = "AUTH_SKIPPED" /\ asked("skip")
             \/ o.sess /\ Allows(cookie)
  <2> SUFFICES Goal
    BY <1>1
  <2> HIDE DEF a
  <2>2. CASE \/ cfg.mode = "off" /\ a = allow("AUTH_OFF", FALSE)
             \/ cfg.mode # "off" /\ r.own /\ a = allow("AUTH_SELF", FALSE)
             \/ cfg.mode # "off" /\ asked("skip") /\ a = allow("AUTH_SKIPPED", FALSE)
    BY <2>2, CfgTypes DEF allow, Result, headerOf
  <2>3. CASE /\ cfg.mode # "off" /\ ~r.own /\ o.code = "AUTH_LIST_UNAVAILABLE"
             /\ a = turned("error", o.code, "page")
    BY <1>2, <2>3, CfgTypes DEF turned, Result
  <2>4. CASE cfg.mode = "observe" /\ o.sess /\ a = allow("AUTH_OBSERVE", TRUE)
    BY <1>2, <2>4, CfgTypes DEF allow, Result, headerOf
  <2>5. CASE a = deny("AUTH_FORBIDDEN") /\ cfg.mode # "observe" /\ cfg.mode # "off"
    BY <2>5, CfgTypes DEF deny, turned, Result
  <2>6. CASE cfg.mode # "off" /\ o.sess /\ Allows(cookie) /\ a = withSession(r, cookie)
    BY <1>2, <1>5, <2>6, CfgTypes
  <2>7. CASE cfg.mode # "off" /\ a = turnAway(r, o.code, FALSE)
    <3>1. /\ ~a.sess /\ a.user # "session" /\ a.verdict # "error"
          /\ a.user = "client" => ~cfg.source \/ ~cfg.upstream
          /\ cfg.mode # "enforce" => a.verdict = "allow"
          /\ cfg.mode = "enforce" => a.verdict # "allow"
      BY <1>4, <2>7
    <3> QED
      BY <2>7, <3>1, CfgTypes
  <2> QED
    BY <2>1, <2>2, <2>3, <2>4, <2>5, <2>6, <2>7

\* handler.inspect: what decide.Check answers, the same with a redirect for a
\* form, a refusal for want of a ticket, or an error that shows nothing.
LEMMA InspectAnswer ==
    ASSUME NEW r \in Requests, NEW a \in inspect(r, cookie)
    PROVE  LET res == Check(r, cookie) IN
           \/ a.res = res /\ a.event = eventOf(r, cookie)
           \/ /\ a.event = eventOf(r, cookie)
              /\ res.verdict = "deny" /\ a.res.verdict = "redirect"
              /\ a.res.sess = res.sess /\ a.res.to = res.to /\ a.res.user = res.user
           \/ /\ a.event = eventOf(r, cookie)
              /\ res.to = "form" /\ a.res.verdict = "deny"
              /\ a.res.to = "page" /\ a.res.sess = FALSE /\ a.res.user = "unsent"
           \/ /\ a.event = "none"
              /\ a.res.verdict = "error" /\ a.res.code \in Faults
              /\ a.res.to = "page" /\ a.res.sess = FALSE /\ a.res.user = "unsent"
<1>1. PICK res : res = Check(r, cookie)
  OBVIOUS
<1>2. \E v, c, t, b, u :
        res = [verdict |-> v, code |-> c, to |-> t, sess |-> b, user |-> u]
  BY <1>1 DEF Check, allow, deny, turned, turnAway, gate, withSession, Result
<1>3. [res EXCEPT !.verdict = res.verdict] = res
  BY <1>2
<1>4. ASSUME NEW v \in verdicts(res),
             a = [res |-> [res EXCEPT !.verdict = v], event |-> eventOf(r, cookie)]
      PROVE  \/ a.res = res /\ a.event = eventOf(r, cookie)
             \/ /\ a.event = eventOf(r, cookie)
                /\ res.verdict = "deny" /\ a.res.verdict = "redirect"
                /\ a.res.sess = res.sess /\ a.res.to = res.to /\ a.res.user = res.user
  <2>1. a.res = [res EXCEPT !.verdict = v] /\ a.event = eventOf(r, cookie)
    BY <1>4
  <2>2. v = res.verdict \/ (v = "redirect" /\ res.verdict = "deny")
    BY DEF verdicts
  <2> QED
    BY <1>2, <1>3, <2>1, <2>2
<1>5. CASE res.to = "form" /\ a = [res |-> deny(res.code), event |-> eventOf(r, cookie)]
  BY <1>1, <1>5 DEF deny, turned, Result
<1>6. ASSUME NEW code \in Faults,
             a = [res |-> turned("error", code, "page"), event |-> "none"]
      PROVE  /\ a.event = "none"
             /\ a.res.verdict = "error" /\ a.res.code \in Faults
             /\ a.res.to = "page" /\ a.res.sess = FALSE /\ a.res.user = "unsent"
  BY <1>6 DEF turned, Result
<1>7. \/ \E v \in verdicts(res) :
           a = [res |-> [res EXCEPT !.verdict = v], event |-> eventOf(r, cookie)]
      \/ res.to = "form" /\ a = [res |-> deny(res.code), event |-> eventOf(r, cookie)]
      \/ \E code \in Faults :
           a = [res |-> turned("error", code, "page"), event |-> "none"]
  BY <1>1 DEF inspect
<1> QED
  BY <1>1, <1>4, <1>5, <1>6, <1>7

\* The rules see a session exactly when decide.open yields one.
LEMMA EventFacts ==
    ASSUME TypeOK, NEW r \in Requests
    PROVE  eventOf(r, cookie) \in {"authenticated", "forbidden"} <=>
             open(cookie).sess /\ cfg.mode # "off" /\ ~r.own
  BY OpenCode DEF eventOf, Requests

(***************************************************************************)
(* The gate and the identity                                               *)
(***************************************************************************)

\* The answer on show is one that the gate may give.
LEMMA InvGateHolds ==
    ASSUME IInv
    PROVE  GateHolds
<1> SUFFICES ASSUME last # NoAnswer
             PROVE  IF cfg.mode = "enforce"
                    THEN last.res.verdict = "allow" =>
                           \/ last.req.own
                           \/ /\ last.res.code = "AUTH_SKIPPED"
                              /\ "skip" \in cfg.prior
                              /\ [phase |-> "request", do |-> "skip"] \in asks
                           \/ /\ Genuine(cookie)
                              /\ cfg.groups => cfg.provider # "app" /\ cookie.member
                    ELSE \/ last.res.verdict = "allow"
                         \/ /\ last.res.verdict = "error"
                            /\ \/ last.res.code \in Faults
                               \/ cfg.mode = "observe" /\ cfg.list /\ ~list.ready
  BY DEF GateHolds
<1>1. PICK r \in Requests : r = last.req
  BY DEF IInv, Current
<1>2. PICK a \in inspect(r, cookie) : last.res = a.res /\ last.event = a.event
  BY <1>1 DEF IInv, Current
<1>3. PICK res : res = Check(r, cookie)
  OBVIOUS
<1>4. TypeOK /\ (open(cookie).sess <=> Genuine(cookie))
  BY OpenGenuine DEF IInv
<1>5. CASE cfg.mode = "enforce"
  <2> SUFFICES ASSUME a.res.verdict = "allow"
               PROVE  \/ r.own
                      \/ /\ a.res.code = "AUTH_SKIPPED"
                         /\ "skip" \in cfg.prior
                         /\ [phase |-> "request", do |-> "skip"] \in asks
                      \/ /\ Genuine(cookie)
                         /\ cfg.groups => cfg.provider # "app" /\ cookie.member
    BY <1>1, <1>2, <1>5
  <2>1. a.res = Check(r, cookie)
    BY InspectAnswer
  <2>2. \/ r.own
        \/ a.res.code = "AUTH_SKIPPED" /\ asked("skip")
        \/ open(cookie).sess /\ Allows(cookie)
    BY <1>4, <1>5, <2>1, CheckAnswer
  <2>3. asked("skip") => "skip" \in cfg.prior /\ [phase |-> "request", do |-> "skip"] \in asks
    <3>1. \A q \in asks : q.phase = "request" /\ q.do = "skip"
                           => q = [phase |-> "request", do |-> "skip"]
      BY <1>4 DEF TypeOK, AskSets, Asking
    <3> QED
      BY <3>1 DEF asked
  <2> QED
    BY <1>4, <2>2, <2>3 DEF Allows
<1>6. CASE cfg.mode # "enforce"
  <2>1. /\ res.verdict \in {"allow", "error"}
        /\ cfg.mode = "off" => res.verdict = "allow"
        /\ res.verdict = "error" => cfg.list /\ ~list.ready
    BY <1>3, <1>4, <1>6, CheckAnswer
  <2>2. \/ a.res = res
        \/ a.res.verdict = "error" /\ a.res.code \in Faults
    <3>1. res.to # "form"
      BY <1>3, <1>4, <1>6, CfgTypes
      DEF Check, allow, deny, turnAway, gate, withSession, turned, Result
    <3> QED
      BY <1>3, <2>1, <3>1, InspectAnswer
  <2>3. cfg.mode \in {"off", "observe"}
    BY <1>4, <1>6, CfgTypes
  <2> QED
    BY <1>2, <1>6, <2>1, <2>2, <2>3
<1> QED
  BY <1>5, <1>6

\* The identity of the answer on show is that of a session that is presented.
LEMMA InvIdentityGenuine ==
    ASSUME IInv
    PROVE  IdentityGenuine
<1> SUFFICES ASSUME last # NoAnswer
             PROVE  /\ last.res.sess \/ last.res.user = "session" => Genuine(cookie)
                    /\ last.res.user = "client" =>
                         (cfg.mode = "off" /\ ~cfg.source) \/ ~cfg.upstream
                    /\ last.event \in {"authenticated", "forbidden"} <=>
                         /\ Genuine(cookie) /\ cfg.mode # "off" /\ ~last.req.own
                         /\ last.res.verdict # "error"
  BY DEF IdentityGenuine
<1>1. PICK r \in Requests : r = last.req
  BY DEF IInv, Current
<1>2. PICK a \in inspect(r, cookie) : last.res = a.res /\ last.event = a.event
  BY <1>1 DEF IInv, Current
<1>3. PICK res : res = Check(r, cookie)
  OBVIOUS
<1>4. TypeOK /\ (open(cookie).sess <=> Genuine(cookie))
  BY OpenGenuine DEF IInv
<1>5. /\ res.sess \/ res.user = "session" => Genuine(cookie)
      /\ res.user = "client" => (cfg.mode = "off" /\ ~cfg.source) \/ ~cfg.upstream
      /\ res.verdict = "error" => eventOf(r, cookie) \notin {"authenticated", "forbidden"}
  BY <1>3, <1>4, CheckAnswer, EventFacts, CfgTypes
<1>6. eventOf(r, cookie) \in {"authenticated", "forbidden"} <=>
        Genuine(cookie) /\ cfg.mode # "off" /\ ~r.own
  BY <1>4, EventFacts
<1>7. \/ a.res = res /\ a.event = eventOf(r, cookie)
      \/ /\ a.event = eventOf(r, cookie) /\ a.res.verdict \in {"redirect", "deny"}
         /\ a.res.sess = res.sess \/ a.res.sess = FALSE
         /\ a.res.user = res.user \/ a.res.user = "unsent"
      \/ /\ a.event = "none" /\ a.res.verdict = "error"
         /\ a.res.sess = FALSE /\ a.res.user = "unsent"
  BY <1>3, InspectAnswer
<1> QED
  BY <1>1, <1>2, <1>5, <1>6, <1>7

(***************************************************************************)
(* The invariant is inductive                                              *)
(***************************************************************************)

\* The cookies that steps put in the browser are cookies.
LEMMA AlteredCookies ==
    ASSUME TypeOK, NEW k \in Altered
    PROVE  k \in Cookies
<1>1. CASE cookie.kind = "sealed"
  <2>1. cookie \in Seals
    BY <1>1 DEF TypeOK, Cookies, NoCookie, Garbage, JWTs
  <2> QED
    BY <2>1 DEF Altered, Cookies, Seals
<1>2. CASE cookie.kind # "sealed"
  BY <1>2 DEF Altered, Cookies
<1> QED
  BY <1>1, <1>2

\* Types, and what a returning browser brings, step by step.
LEMMA TypeStep ==
    ASSUME TypeOK, Returning, [Next]_vars
    PROVE  TypeOK' /\ Returning'
<1> USE DEF Returning
<1>a. ASSUME NEW r \in Requests, NEW by, Ask(r, by) PROVE TypeOK' /\ Returning'
  <2>1. PICK a \in inspect(r, cookie) : at' = IF a.res.to = "page" THEN "rest" ELSE a.res.to
    BY <1>a DEF Ask
  <2>2. Check(r, cookie).to \in {"page", "form", "renew"}
    BY DEF Check, allow, deny, turnAway, gate, withSession, turned, Result
  <2>3. a.res.to \in {"page", "form", "renew"}
    BY <2>2, InspectAnswer
  <2>4. UNCHANGED <<cfg, cookie, list, asks>>
    BY <1>a DEF Ask
  <2> QED
    BY <2>1, <2>3, <2>4 DEF TypeOK, Places
<1>1. CASE (\E r \in Requests : Navigate(r)) \/ GoBack
  BY <1>a, <1>1 DEF Navigate, GoBack, Requests
<1>2. CASE Shown \/ Leave
  BY <1>2 DEF Shown, Leave, TypeOK, Places
<1>3. CASE SignIn
  <2>1. PICK m \in BOOLEAN : cookie' = Sealed(m)
    BY <1>3 DEF SignIn
  <2>2. Sealed(m) \in Seals /\ Fresh(Sealed(m))
    BY DEF Sealed, Seals, Fresh
  <2>3. /\ at' = "back-form" /\ UNCHANGED <<cfg, asks>> /\ ~External
        /\ list' = [list EXCEPT !.has = cfg.list]
    BY <1>3 DEF SignIn
  <2>4. cookie' \in Cookies /\ Fresh(cookie')
    BY <2>1, <2>2 DEF Cookies
  <2>5. list' \in [has : BOOLEAN, ready : BOOLEAN]
    BY <2>3, CfgTypes DEF TypeOK
  <2> QED
    BY <2>3, <2>4, <2>5 DEF TypeOK, Places, External, Fresh
<1>4. CASE Renew
  <2>1. UNCHANGED <<cfg, asks>> /\ at' \in {"back-renew", "form"}
    BY <1>4 DEF Renew
  <2>2. list' \in [has : BOOLEAN, ready : BOOLEAN]
    BY <1>4, CfgTypes DEF Renew, TypeOK, RenewOpens
  <2>3. cookie' \in Cookies /\ (at' = "back-renew" => cookie' \in Seals /\ cookie'.age = 0)
    <3>1. CASE UNCHANGED cookie /\ at' = "form"
      BY <3>1 DEF TypeOK
    <3>2. CASE /\ RenewOpens
               /\ cookie' = [cookie EXCEPT !.age = 0,
                                           !.span = IF MaxTTL > 0 THEN @ + cookie.age ELSE @]
      <4>1. cookie \in Seals
        BY <3>2 DEF RenewOpens, TypeOK, Cookies, NoCookie, Garbage, JWTs
      <4>2. PICK n : n = IF MaxTTL > 0 THEN cookie.span + cookie.age ELSE cookie.span
        OBVIOUS
      <4>3. n \in Nat
        BY <4>1, <4>2 DEF Seals
      <4>4. cookie' = [cookie EXCEPT !.age = 0, !.span = n]
        BY <3>2, <4>1, <4>2 DEF Seals
      <4> QED
        BY <4>1, <4>3, <4>4 DEF Seals, Cookies
    <3> QED
      BY <1>4, <3>1, <3>2 DEF Renew
  <2> QED
    BY <2>1, <2>2, <2>3 DEF TypeOK, Places
<1>5. ASSUME NEW k \in Altered, Present(k) PROVE TypeOK' /\ Returning'
  BY <1>5, AlteredCookies DEF Present, TypeOK, Places
<1>6. CASE ListChange
  <2>1. list' \in [has : BOOLEAN, ready : BOOLEAN]
    BY <1>6 DEF ListChange, TypeOK
  <2> QED
    BY <1>6, <2>1 DEF ListChange, TypeOK, Places
<1>7. CASE Second
  <2>1. cookie \in Seals
    BY <1>7 DEF Second, TypeOK, Cookies, NoCookie, Garbage, JWTs
  <2>2. cookie' \in Seals
    BY <1>7, <2>1 DEF Second, Seals
  <2> QED
    BY <1>7, <2>2 DEF Second, TypeOK, Cookies, Places
<1>8. CASE UNCHANGED vars
  BY <1>8 DEF vars, TypeOK, Fresh, External
<1> QED
  BY <1>1, <1>2, <1>3, <1>4, <1>5, <1>6, <1>7, <1>8 DEF Next

\* With the clocks close enough, the first answer after a sign-in is the page,
\* and the first one after a renewal is not another renewal.
LEMMA ReturnAnswer ==
    ASSUME TypeOK, LeadSmall, NEW r \in Requests, NEW a \in inspect(r, cookie)
    PROVE  /\ Fresh(cookie) /\ ~External => a.res.to = "page"
           /\ cookie \in Seals /\ cookie.age = 0 => a.res.to # "renew"
<1>1. a.res.to = Check(r, cookie).to \/ a.res.to = "page"
  BY InspectAnswer
<1>2. TTL \in Nat /\ MaxTTL \in Nat /\ RenewAfter \in Nat /\ ReauthAfter \in Nat /\ Grace \in Nat
      /\ Lead \in Nat /\ (MaxTTL # 0 => TTL <= MaxTTL)
  BY GateAssumption
<1>3. ASSUME cookie \in Seals, cookie.age = 0
      PROVE  ~NeedsRenew(cookie) /\ Seen(cookie) = Lead
  BY <1>2, <1>3 DEF NeedsRenew, Seen, Seals, LeadSmall
<1>4. ASSUME cookie \in Seals, cookie.age = 0
      PROVE  Check(r, cookie).to # "renew"
  BY <1>3, <1>4 DEF Check, allow, deny, turnAway, gate, withSession, turned, Result
<1>5. ASSUME Fresh(cookie), ~External
      PROVE  Check(r, cookie).to = "page"
  <2>1. cfg.provider = "form"
    BY <1>5, CfgTypes DEF External
  <2>2. cookie \in Seals /\ ~NeedsRenew(cookie) /\ Seen(cookie) = Lead
    BY <1>3, <1>5 DEF Fresh
  <2>3. ~reauthDue(cookie)
    BY <1>2, <2>1, <2>2 DEF reauthDue, LeadSmall
  <2>4. Genuine(cookie)
    BY <1>2, <1>5, <2>1, <2>2 DEF Genuine, Fresh, Seals, LeadSmall
  <2>5. open(cookie).sess /\ open(cookie).code = "AUTH_OK"
    BY <2>4, OpenGenuine, OpenCode
  <2> QED
    BY <2>2, <2>3, <2>5 DEF Check, allow, deny, turned, withSession, Result
<1> QED
  BY <1>1, <1>4, <1>5

\* The gate's answers depend on what is presented, the list and the asks alone.
LEMMA SameAnswers ==
    ASSUME UNCHANGED <<cfg, cookie, list, asks>>, NEW r
    PROVE  inspect(r, cookie)' = inspect(r, cookie)
<1>1. open(cookie)' = open(cookie)
  BY DEF open, openJWT, openApp, openSealed
<1>2. eventOf(r, cookie)' = eventOf(r, cookie)
  BY <1>1 DEF eventOf, Allows
<1>3. \A c, b : turnAway(r, c, b)' = turnAway(r, c, b)
  BY DEF turnAway, navigational, gate, External, allow, headerOf
<1>4. withSession(r, cookie)' = withSession(r, cookie)
  BY <1>3 DEF withSession, asked, reauthDue, navigational, allow, headerOf
<1>5. Check(r, cookie)' = Check(r, cookie)
  BY <1>1, <1>3, <1>4 DEF Check, asked, Allows, allow, headerOf
<1> QED
  BY <1>2, <1>5 DEF inspect, Faults, verdicts, External

\* The whole invariant: an answer is given for what is presented, and every
\* step that changes what is presented takes the answer off the screen.
LEMMA IInvStep ==
    ASSUME IInv, [Next]_vars
    PROVE  IInv'
<1>1. TypeOK' /\ Returning'
  BY TypeStep DEF IInv
<1>2. ASSUME last' = NoAnswer PROVE IInv'
  BY <1>1, <1>2 DEF IInv, Current, NoLoop
<1>3. ASSUME NEW r \in Requests, NEW by \in {"user", "back-form", "back-renew"}, Ask(r, by),
             by = "back-form" => Fresh(cookie) /\ ~External,
             by = "back-renew" => cookie \in Seals /\ cookie.age = 0
      PROVE  IInv'
  <2>1. PICK a \in inspect(r, cookie) :
          last' = [by |-> by, req |-> r, res |-> a.res, event |-> a.event]
    BY <1>3 DEF Ask
  <2>2. UNCHANGED <<cfg, cookie, list, asks>>
    BY <1>3 DEF Ask
  <2>3. inspect(r, cookie)' = inspect(r, cookie)
    BY <2>2, SameAnswers
  <2>4. /\ last'.by = by /\ last'.req = r /\ last'.res = a.res /\ last'.event = a.event
    BY <2>1
  <2>5. Current'
    BY <2>2, <2>3, <2>4 DEF Current
  <2>6. NoLoop'
    BY <1>3, <2>4, ReturnAnswer DEF NoLoop, IInv, LeadSmall
  <2> QED
    BY <1>1, <2>5, <2>6 DEF IInv
<1>4. ASSUME NEW r \in Requests, Navigate(r) PROVE IInv'
  BY <1>3, <1>4 DEF Navigate
<1>5. CASE GoBack
  BY <1>3, <1>5 DEF GoBack, Requests, IInv, Returning
<1>6. CASE UNCHANGED vars
  <2>1. inspect(last.req, cookie)' = inspect(last.req, cookie)
    BY <1>6, SameAnswers DEF vars
  <2> QED
    BY <1>1, <1>6, <2>1 DEF vars, IInv, Current, NoLoop
<1>7. ASSUME NEW k \in Altered, Present(k) PROVE IInv'
  BY <1>2, <1>7 DEF Present
<1> QED
  BY <1>2, <1>4, <1>5, <1>6, <1>7 DEF Next, Shown, SignIn, Renew, Leave, ListChange, Second

\* At the start there is no cookie and no answer.
LEMMA IInvInit ==
    ASSUME Init
    PROVE  IInv
  BY DEF Init, IInv, TypeOK, Cookies, Places, Returning, Current, NoLoop

\* The invariant holds throughout every behaviour of browser and gate.
THEOREM Invariance == Spec => []IInv
<1>1. Init => IInv
  BY IInvInit
<1>2. IInv /\ [Next]_vars => IInv'
  BY IInvStep
<1> QED
  BY <1>1, <1>2, PTL DEF Spec

\* decide.Check: an enforcing profile lets nobody through without a genuine
\* session, and the other modes stop nobody who can be decided about.
THEOREM GateKept == Spec => []GateHolds
<1>1. IInv => GateHolds
  BY InvGateHolds
<1> QED
  BY <1>1, Invariance, PTL

\* handler.inspect and allow: the identity headers name a subject only for a
\* genuine session, and take the place of the client's own, in every mode but for
\* a profile in mode off without a source and a source that leaves upstream.user
\* empty; the rules see a session exactly when there is one.
THEOREM IdentityKept == Spec => []IdentityGenuine
<1>1. IInv => IdentityGenuine
  BY InvIdentityGenuine
<1> QED
  BY <1>1, Invariance, PTL

\* gate, renew and accepted: with clocks that are close enough, no browser is
\* sent round in circles.
THEOREM NeverLoops == Spec => []NoLoop
<1>1. IInv => NoLoop
  BY DEF IInv
<1> QED
  BY <1>1, Invariance, PTL

(***************************************************************************)
(* Configuration: the inductive invariant                                  *)
(***************************************************************************)

\* What Apply can write, what a directory can hold, and where Store.dir points.
Generations == Manifests \ Unparsed
Wholes == {Absent} \cup {Tree(m) : m \in Generations}
Dirs == {"seed", "live"}

\* How far an Apply can be: with the tree in use in its place, or with that
\* tree parked at .prev.
Steady == {"idle", "write", "clear", "park", "repoint", "reload", "failed"}
Moving == {"promote", "point", "load", "done", "undo", "restore"}

Jobs ==
    [at : Steady \cup Moving, m : Generations \cup {None}, lived : BOOLEAN, was : Dirs]

\* What a Reload has read so far.
Snapshots ==
    [sources : SUBSET (Manifests \cup {Seed}), profiles : SUBSET (Manifests \cup {Seed}),
     fingerprint : Trees]
Reloads ==
    {AtRest} \cup [at : {"sources"}]
    \cup [at : {"profiles"}, dir : Dirs, sources : SUBSET (Manifests \cup {Seed})]
    \cup [at : {"stamp"}, dir : Dirs, sources : SUBSET (Manifests \cup {Seed}),
          profiles : SUBSET (Manifests \cup {Seed})]
    \cup [at : {"store"}, snap : Snapshots]

\* The types of the directories, of the Apply under way and of the Reloads.
ConfigTypeOK ==
    /\ bucket \in Manifests \cup {None} /\ inbox \in Seq(Manifests)
    /\ disk \in [live : Trees, prev : Trees, next : Trees]
    /\ dir \in Dirs
    /\ job \in Jobs
    /\ job.at # "idle" => job.m \in Generations
    /\ applied \in [m : Manifests \cup {None}, apply : {"", "ok", "apply_failed"}]
    /\ reload \in [Reloaders -> Reloads]
    /\ faults \in Nat

\* The trees in place and parked are whole but for what a removal has left.
WholeTrees ==
    /\ "live" \in torn \/ disk.live \in Wholes
    /\ job.at \in Moving /\ job.lived => "prev" \in torn \/ disk.prev \in Wholes

\* What Apply has on disk at each of its steps: the tree it writes and the one it
\* tries, with what a removal has left.
Staged ==
    /\ job.at = "write" => "next" \in torn \/ disk.next \subseteq Tree(job.m)
    /\ job.at \in {"clear", "park", "promote"} => "next" \in torn \/ disk.next = Tree(job.m)
    /\ job.at = "promote" => disk.live = Absent
    /\ job.at \in {"point", "load", "done", "undo"} => "live" \in torn \/ disk.live = Tree(job.m)
    /\ job.at \in {"load", "done", "reload"} => dir = "live"
    /\ job.at = "done" =>
         /\ Readable(disk.live)
         /\ crossed \/ (cur = ReadOf(disk.live) /\ ("live" \in torn => "cur" \in torn))
    /\ job.at \in {"undo", "restore"} => "live" \in torn \/ ~Readable(disk.live)
    /\ job.at = "restore" => job.lived /\ (disk.live = Absent \/ faults # 0)

\* What is served is what one good generation, or the seed, reads as.
WholeCur == Mixed \/ \E m \in Good \cup {Seed} : cur = ReadOf(Tree(m))

\* The tree in use: where it was, or parked while Apply tries another.
Old ==
    IF job.at \notin Moving THEN disk.live
    ELSE IF job.lived THEN disk.prev ELSE Absent
OldTorn == IF job.at \notin Moving THEN "live" \in torn ELSE job.lived /\ "prev" \in torn

\* Snapshot x is served, or already that of the tree that Apply tries.
Serves(x) ==
    \/ crossed
    \/ job.at # "done" /\ cur = x
    \/ job.at \in {"point", "load", "done"} /\ Readable(disk.live) /\ cur = ReadOf(disk.live)

\* Apply is about to read the tree in use again.
Rereads == job.at \in {"undo", "restore", "repoint", "reload"} /\ Readable(Old)

\* What Bootstrap makes of a tree.
BootOf(tree) == IF Readable(tree) THEN ReadOf(tree) ELSE ReadOf(Tree(Seed))
DirOf(tree) == IF Readable(tree) THEN "live" ELSE "seed"

\* Without a failed file operation the tree in use tells what is served, or what
\* will be when Apply has read it.
FollowsDisk ==
    faults = 0 =>
        /\ job.at \notin {"load", "reload", "done"} => dir = DirOf(Old)
        /\ job.at \in {"load", "reload"} => job.was = DirOf(Old)
        /\ Serves(BootOf(Old)) \/ Rereads

\* With or without one, the last success tells what is served, and no other
\* whole generation that loads takes the place of its tree.
FollowsReport ==
    applied.m # None =>
        /\ dir = "live"
        /\ job.at \in {"load", "reload"} => job.was = "live"
        /\ Readable(Old) => OldTorn \/ Old = Tree(applied.m)
        /\ Serves(ReadOf(Tree(applied.m))) \/ "cur" \in torn

\* The inductive invariant.
ConfigInv ==
    /\ ConfigTypeOK /\ WholeTrees /\ Staged /\ WholeCur
    /\ FollowsDisk /\ FollowsReport

(***************************************************************************)
(* Configuration: trees                                                    *)
(***************************************************************************)

\* What the tree of a manifest reads as, and which trees load.
LEMMA TreeFacts ==
    /\ \A m \in Manifests \cup {Seed} :
         Of(Tree(m), "sources") = {m} /\ Of(Tree(m), "profiles") = {m}
    /\ \A m \in Manifests \cup {Seed} : Tree(m) # Absent /\ Tree(m) \in Trees
    /\ \A m \in Generations : Readable(Tree(m)) <=> m \in Good
    /\ Readable(Tree(Seed)) /\ ~Readable(Absent)
    /\ Good \subseteq Generations /\ Generations \subseteq Manifests
<1>1. ASSUME NEW m \in Manifests \cup {Seed}
      PROVE  /\ "sources" \in Parts(m) /\ "profiles" \in Parts(m)
             /\ "bad source" \in Parts(m) <=> m \in BadSources
             /\ "bad profile" \in Parts(m) <=> m \in BadProfiles
             /\ Parts(m) \subseteq Pieces
  BY DEF Parts, Pieces
<1>2. ASSUME NEW m \in Manifests \cup {Seed}
      PROVE  /\ Of(Tree(m), "sources") = {m} /\ Of(Tree(m), "profiles") = {m}
             /\ Of(Tree(m), "bad source") = {} <=> m \notin BadSources
             /\ Of(Tree(m), "bad profile") = {} <=> m \notin BadProfiles
  BY <1>1 DEF Of, Tree
<1>3. ASSUME NEW m \in Manifests \cup {Seed}
      PROVE  Tree(m) # Absent /\ Tree(m) \in Trees
  <2>1. <<"sources", m>> \in Tree(m)
    BY <1>1 DEF Tree
  <2>2. Tree(m) \subseteq Pieces \X (Manifests \cup {Seed})
    BY <1>1 DEF Tree
  <2> QED
    BY <2>1, <2>2 DEF Absent, Trees
<1>4. Of(Absent, "profiles") = {}
  BY DEF Of, Absent
<1>5. ASSUME NEW m \in Manifests \cup {Seed}
      PROVE  Readable(Tree(m)) <=> m \notin BadSources /\ m \notin BadProfiles
  BY <1>2 DEF Readable, SourcesLoad, ProfilesLoad
<1> QED
  BY <1>2, <1>3, <1>4, <1>5, ConfigAssumption DEF Generations, Good, Readable, ProfilesLoad

\* The tree at a directory is one manifest's, or nothing is there.
LEMMA WholeFacts ==
    ASSUME NEW T \in Wholes
    PROVE  /\ T \in Trees
           /\ Readable(T) => T # Absent /\ \E m \in Good : T = Tree(m)
<1>1. T = Absent \/ \E m \in Generations : T = Tree(m)
  BY DEF Wholes
<1>2. Absent \in Trees
  BY DEF Absent, Trees
<1> QED
  BY <1>1, <1>2, TreeFacts

\* Bootstrap takes the tree in place if it loads.
LEMMA BootFacts ==
    ASSUME NEW dd
    PROVE  (Bootstraps(dd) <=> Readable(dd.live)) /\ Booted(dd) = BootOf(dd.live)
  BY DEF Bootstraps, Booted, BootOf, Readable, ProfilesLoad

\* What the invariant needs of a tree that has just been read in.
LEMMA BootWhole ==
    ASSUME NEW T \in Wholes
    PROVE  \E m \in Good \cup {Seed} : BootOf(T) = ReadOf(Tree(m))
  BY WholeFacts DEF BootOf

(***************************************************************************)
(* Configuration: what the steps do                                        *)
(***************************************************************************)

\* The stages of an Apply are told apart by their names.
LEMMA Stages ==
    ASSUME ConfigTypeOK
    PROVE  job.at \in {"idle", "write", "clear", "park", "repoint", "reload", "failed",
                       "promote", "point", "load", "done", "undo", "restore"}
  BY DEF ConfigTypeOK, Jobs, Steady, Moving

\* Where the updates wait, and how many file operations have failed.
LEMMA Counted ==
    ASSUME ConfigInv
    PROVE  inbox \in Seq(Manifests) /\ faults \in Nat /\ bucket \in Manifests \cup {None}
  BY DEF ConfigInv, ConfigTypeOK

\* What changes neither the trees nor the Apply nor what is served.
LEMMA ApartKeeps ==
    ASSUME ConfigInv, UNCHANGED <<disk, dir, cur, job, applied, crossed, torn, faults>>,
           bucket' \in Manifests \cup {None}, inbox' \in Seq(Manifests),
           reload' \in [Reloaders -> Reloads]
    PROVE  ConfigInv'
<1>1. ConfigTypeOK'
  BY DEF ConfigInv, ConfigTypeOK
<1>2. Old' = Old /\ OldTorn' = OldTorn /\ (Rereads' <=> Rereads)
  BY DEF Old, OldTorn, Rereads, Readable, SourcesLoad, ProfilesLoad, Of
<1>3. WholeTrees' /\ Staged' /\ WholeCur'
  BY DEF ConfigInv, WholeTrees, Staged, WholeCur, Mixed
<1>4. FollowsDisk' /\ FollowsReport'
  BY <1>2 DEF ConfigInv, FollowsDisk, FollowsReport, Serves, Readable
<1> QED
  BY <1>1, <1>3, <1>4 DEF ConfigInv

\* The controller publishes.
LEMMA PublishesKeeps ==
    ASSUME ConfigInv, NEW m \in Manifests, Publish(m)
    PROVE  ConfigInv'
<1>1. /\ bucket' = m /\ inbox' = Append(inbox, m)
      /\ UNCHANGED <<disk, dir, cur, job, applied, reload, crossed, torn, faults>>
  BY DEF Publish
<1>2. inbox' \in Seq(Manifests)
  BY <1>1, Counted
<1>3. reload' \in [Reloaders -> Reloads]
  BY <1>1 DEF ConfigInv, ConfigTypeOK
<1> QED
  BY <1>1, <1>2, <1>3, ApartKeeps

\* A step of Apply changes the stage and leaves the rest of the job.
LEMMA JobMoves ==
    ASSUME ConfigTypeOK, NEW stage \in Steady \cup Moving, job' = [job EXCEPT !.at = stage],
           job.at # "idle"
    PROVE  /\ job' \in Jobs
           /\ job'.at = stage /\ job'.m = job.m /\ (job'.lived <=> job.lived) /\ job'.was = job.was
           /\ job'.m \in Generations
  BY DEF ConfigTypeOK, Jobs

\* The types hold after a step of Apply.
LEMMA TypesKeep ==
    ASSUME ConfigInv, UNCHANGED <<bucket, reload>>, inbox' \in Seq(Manifests),
           disk' \in [live : Trees, prev : Trees, next : Trees], dir' \in Dirs,
           job' \in Jobs, job'.at # "idle" => job'.m \in Generations,
           applied' \in [m : Manifests \cup {None}, apply : {"", "ok", "apply_failed"}],
           faults' \in Nat
    PROVE  ConfigTypeOK'
  BY DEF ConfigInv, ConfigTypeOK

\* What RemoveAll leaves is a tree, and nothing unless it fails.
LEMMA Leaves ==
    ASSUME ConfigInv, NEW T \in Trees, NEW some \in SUBSET SUBSET T, NEW left \in Remains(some),
           Costs(left)
    PROVE  left \in Trees /\ faults' \in Nat /\ (faults' = 0 => left = Absent /\ faults = 0)
<1>1. left = Absent \/ left \in SUBSET T
  BY DEF Remains
<1>2. left \in Trees
  BY <1>1 DEF Trees, Absent
<1>3. faults \in Nat /\ faults' = IF left = Absent THEN faults ELSE faults + 1
  BY DEF Costs, ConfigInv, ConfigTypeOK
<1> QED
  BY <1>2, <1>3

\* The trees that Apply finds.
LEMMA DiskFacts ==
    ASSUME ConfigInv
    PROVE  /\ disk.live \in Trees /\ disk.prev \in Trees /\ disk.next \in Trees
           /\ Absent \in Trees /\ Absent \in Wholes
           /\ inbox \in Seq(Manifests) /\ faults \in Nat /\ dir \in Dirs
           /\ applied \in [m : Manifests \cup {None}, apply : {"", "ok", "apply_failed"}]
  BY DEF ConfigInv, ConfigTypeOK, Absent, Trees, Wholes

\* Steps that leave the tree in use and what is served where they are, before
\* Apply parks that tree.
LEMMA SteadyKeeps ==
    ASSUME ConfigInv, ConfigTypeOK',
           job.at \in {"idle", "write", "clear", "park"},
           job'.at \in {"write", "clear", "park", "failed"},
           UNCHANGED <<dir, cur, crossed, applied>>, disk'.live = disk.live,
           "live" \in torn' <=> "live" \in torn, "cur" \in torn' <=> "cur" \in torn,
           faults' = 0 => faults = 0,
           job'.at = "write" => "next" \in torn' \/ disk'.next \subseteq Tree(job'.m),
           job'.at \in {"clear", "park"} => "next" \in torn' \/ disk'.next = Tree(job'.m)
    PROVE  ConfigInv'
<1>1. Old' = Old /\ (OldTorn' <=> OldTorn)
  BY DEF Old, OldTorn, Moving
<1>2. WholeTrees' /\ Staged'
  BY DEF ConfigInv, WholeTrees, Staged, Moving
<1>3. WholeCur'
  BY DEF ConfigInv, WholeCur, Mixed
<1>4. FollowsDisk'
  BY <1>1 DEF ConfigInv, FollowsDisk, Serves, Rereads
<1>5. FollowsReport'
  BY <1>1 DEF ConfigInv, FollowsReport, Serves
<1> QED
  BY <1>2, <1>3, <1>4, <1>5 DEF ConfigInv

\* The watcher takes an update.
LEMMA TakeKeeps ==
    ASSUME ConfigInv, Take
    PROVE  ConfigInv'
<1>1. /\ job.at = "idle" /\ inbox # <<>> /\ inbox' = Tail(inbox)
      /\ UNCHANGED <<bucket, reload, dir, cur, crossed, applied>>
  BY DEF Take, world
<1>2. Head(inbox) \in Manifests /\ inbox' \in Seq(Manifests)
  BY <1>1, Counted
<1>3. CASE Skips(Head(inbox))
  <2>1. UNCHANGED <<disk, torn, job, faults>>
    BY <1>3 DEF Take
  <2>2. bucket' \in Manifests \cup {None} /\ reload' \in [Reloaders -> Reloads]
    BY <1>1 DEF ConfigInv, ConfigTypeOK
  <2> QED
    BY <1>1, <1>2, <2>1, <2>2, ApartKeeps
<1>4. CASE ~Skips(Head(inbox))
  <2>1. Head(inbox) \in Generations
    BY <1>2, <1>4 DEF Skips, Generations
  <2>2. PICK left \in Remains(SUBSET disk.next) : Begin(left) /\ Costs(left)
    BY <1>4 DEF Take
  <2>3. left \in Trees /\ faults' \in Nat /\ (faults' = 0 => faults = 0)
    BY <2>2, Leaves, DiskFacts
  <2>4. /\ disk' \in [live : Trees, prev : Trees, next : Trees]
        /\ disk'.live = disk.live /\ disk'.next = left
    BY <2>2, <2>3 DEF Begin, ConfigInv, ConfigTypeOK
  <2>5. job' \in Jobs /\ job'.at = "write" /\ job'.m = Head(inbox)
    BY <2>1, <2>2 DEF Begin, Idle, Jobs, Steady, Dirs
  <2>6. ConfigTypeOK'
    BY <1>1, <1>2, <2>1, <2>3, <2>4, <2>5, TypesKeep, DiskFacts
  <2>7. /\ "live" \in torn' <=> "live" \in torn
        /\ "cur" \in torn' <=> "cur" \in torn
        /\ "next" \in torn' \/ disk'.next = Absent
    BY <2>2, <2>4 DEF Begin
  <2>8. "next" \in torn' \/ disk'.next \subseteq Tree(job'.m)
    BY <2>7 DEF Absent
  <2> QED
    BY <1>1, <2>3, <2>4, <2>5, <2>6, <2>7, <2>8, SteadyKeeps
<1> QED
  BY <1>3, <1>4

\* write puts another half of the generation down.
LEMMA WriteKeeps ==
    ASSUME ConfigInv, Write
    PROVE  ConfigInv'
<1>1. PICK half : disk' = [disk EXCEPT !.next = disk.next \cup ((half \cap Parts(job.m)) \X {job.m})]
  BY DEF Write
<1>2. /\ job.at = "write"
      /\ job' = IF Tree(job.m) \subseteq disk'.next THEN [job EXCEPT !.at = "clear"] ELSE job
      /\ UNCHANGED <<bucket, reload, inbox, dir, cur, crossed, torn, applied, faults>>
  BY DEF Write, world
<1>3. job.m \in Generations /\ ("next" \in torn \/ disk.next \subseteq Tree(job.m))
  BY <1>2 DEF ConfigInv, ConfigTypeOK, Staged
<1>4. PICK more : more = (half \cap Parts(job.m)) \X {job.m}
  OBVIOUS
<1>5. more \subseteq Tree(job.m)
  BY <1>4 DEF Tree
<1>6. Tree(job.m) \in Trees
  BY <1>3, TreeFacts
<1>7. disk.next \cup more \in Trees
  BY <1>5, <1>6, DiskFacts DEF Trees
<1>8. /\ disk' \in [live : Trees, prev : Trees, next : Trees]
      /\ disk'.live = disk.live /\ disk'.next = disk.next \cup more
  BY <1>1, <1>4, <1>7 DEF ConfigInv, ConfigTypeOK
<1>9. /\ job' \in Jobs /\ job'.m = job.m /\ job'.m \in Generations
      /\ job'.at = "write" \/ (job'.at = "clear" /\ Tree(job.m) \subseteq disk'.next)
  <2>1. CASE Tree(job.m) \subseteq disk'.next
    <3>1. "clear" \in Steady \cup Moving /\ job' = [job EXCEPT !.at = "clear"] /\ job.at # "idle"
      BY <1>2, <2>1 DEF Steady
    <3> QED
      BY <2>1, <3>1, JobMoves DEF ConfigInv
  <2>2. CASE ~(Tree(job.m) \subseteq disk'.next)
    BY <1>2, <1>3, <2>2 DEF ConfigInv, ConfigTypeOK
  <2> QED
    BY <2>1, <2>2
<1>10. ConfigTypeOK'
  BY <1>2, <1>8, <1>9, TypesKeep, DiskFacts
<1>11. "next" \in torn' \/ disk'.next \subseteq Tree(job'.m)
  BY <1>2, <1>3, <1>5, <1>8, <1>9
<1>12. job'.at = "clear" => "next" \in torn' \/ disk'.next = Tree(job'.m)
  BY <1>9, <1>11
<1> QED
  BY <1>2, <1>8, <1>9, <1>10, <1>11, <1>12, SteadyKeeps

\* What an older Apply parked is removed, or is left in the way.
LEMMA ClearKeeps ==
    ASSUME ConfigInv, ClearPrev
    PROVE  ConfigInv'
<1>1. PICK left \in Remains({disk.prev}) : disk' = [disk EXCEPT !.prev = left] /\ Costs(left)
  BY DEF ClearPrev
<1>2. /\ job.at = "clear" /\ torn' = torn \ {"prev"}
      /\ job' = [job EXCEPT !.at = "park"]
      /\ UNCHANGED <<bucket, reload, inbox, dir, cur, crossed, applied>>
  BY DEF ClearPrev, world
<1>3. left \in Trees /\ faults' \in Nat /\ (faults' = 0 => faults = 0)
  BY <1>1, Leaves, DiskFacts
<1>4. /\ disk' \in [live : Trees, prev : Trees, next : Trees]
      /\ disk'.live = disk.live /\ disk'.next = disk.next
  BY <1>1, <1>3 DEF ConfigInv, ConfigTypeOK
<1>5. job' \in Jobs /\ job'.at = "park" /\ job'.m = job.m /\ job'.m \in Generations
  <2>1. "park" \in Steady \cup Moving /\ job.at # "idle"
    BY <1>2 DEF Steady
  <2> QED
    BY <1>2, <2>1, JobMoves DEF ConfigInv
<1>6. ConfigTypeOK'
  BY <1>2, <1>3, <1>4, <1>5, TypesKeep, DiskFacts
<1>7. "next" \in torn' \/ disk'.next = Tree(job'.m)
  BY <1>2, <1>4, <1>5 DEF ConfigInv, Staged
<1> QED
  BY <1>2, <1>3, <1>4, <1>5, <1>6, <1>7, SteadyKeeps

\* The tree in use is parked.
LEMMA ParkKeeps ==
    ASSUME ConfigInv, Park
    PROVE  ConfigInv'
<1>1. /\ job.at = "park"
      /\ IF disk.live = Absent THEN UNCHANGED disk
         ELSE disk' = [disk EXCEPT !.prev = disk.live, !.live = Absent]
      /\ torn' = (torn \ {"live", "prev"}) \cup (IF "live" \in torn THEN {"prev"} ELSE {})
      /\ job' = [job EXCEPT !.at = "promote", !.lived = disk.live # Absent]
      /\ UNCHANGED <<bucket, reload, inbox, dir, cur, crossed, applied, faults>>
  BY DEF Park, Carries, world
<1>2. /\ disk' \in [live : Trees, prev : Trees, next : Trees]
      /\ disk'.live = Absent /\ disk'.next = disk.next
      /\ disk.live # Absent => disk'.prev = disk.live
  BY <1>1, DiskFacts DEF ConfigInv, ConfigTypeOK
<1>3. /\ job' \in Jobs /\ job'.at = "promote" /\ job'.m = job.m /\ job'.m \in Generations
      /\ job'.lived <=> disk.live # Absent
  BY <1>1 DEF ConfigInv, ConfigTypeOK, Jobs, Moving
<1>4. ConfigTypeOK'
  BY <1>1, <1>2, <1>3, TypesKeep, DiskFacts
<1>5. /\ "live" \notin torn' /\ ("prev" \in torn' <=> "live" \in torn)
      /\ ("cur" \in torn' <=> "cur" \in torn) /\ ("next" \in torn' <=> "next" \in torn)
  BY <1>1
<1>6. WholeTrees'
  BY <1>2, <1>3, <1>5, DiskFacts DEF ConfigInv, WholeTrees
<1>7. Staged'
  BY <1>1, <1>2, <1>3, <1>5 DEF ConfigInv, Staged
<1>8. Old' = Old /\ (OldTorn' => OldTorn) /\ (Readable(Old) /\ OldTorn => OldTorn')
  <2>1. Old' = Old
    BY <1>1, <1>2, <1>3 DEF Old, Moving
  <2>2. OldTorn' => OldTorn
    BY <1>1, <1>3, <1>5 DEF OldTorn, Moving
  <2>3. Readable(Old) => disk.live # Absent
    BY <1>1, TreeFacts DEF Old, Moving
  <2> QED
    BY <1>1, <1>3, <1>5, <2>1, <2>2, <2>3 DEF OldTorn, Moving
<1>9. WholeCur'
  BY <1>1, <1>5 DEF ConfigInv, WholeCur, Mixed
<1>10. FollowsDisk'
  BY <1>1, <1>3, <1>8 DEF ConfigInv, FollowsDisk, Serves, Rereads
<1>11. FollowsReport'
  BY <1>1, <1>3, <1>5, <1>8 DEF ConfigInv, FollowsReport, Serves
<1> QED
  BY <1>4, <1>6, <1>7, <1>9, <1>10, <1>11 DEF ConfigInv

\* The staging tree takes its place.
LEMMA PromoteKeeps ==
    ASSUME ConfigInv, Promote
    PROVE  ConfigInv'
<1>1. /\ job.at = "promote"
      /\ disk' = [disk EXCEPT !.live = disk.next, !.next = Absent]
      /\ torn' = (torn \ {"next", "live"}) \cup (IF "next" \in torn THEN {"live"} ELSE {})
      /\ job' = [job EXCEPT !.at = "point"]
      /\ UNCHANGED <<bucket, reload, inbox, dir, cur, crossed, applied, faults>>
  BY DEF Promote, Carries, world
<1>2. job.m \in Generations /\ ("next" \in torn \/ disk.next = Tree(job.m))
  BY <1>1 DEF ConfigInv, ConfigTypeOK, Staged
<1>3. /\ disk' \in [live : Trees, prev : Trees, next : Trees]
      /\ disk'.live = disk.next /\ disk'.prev = disk.prev
  BY <1>1, DiskFacts DEF ConfigInv, ConfigTypeOK
<1>4. /\ job' \in Jobs /\ job'.at = "point" /\ job'.m = job.m /\ job'.m \in Generations
      /\ job'.lived <=> job.lived
  <2>1. "point" \in Steady \cup Moving /\ job.at # "idle"
    BY <1>1 DEF Moving
  <2> QED
    BY <1>1, <2>1, JobMoves DEF ConfigInv
<1>5. ConfigTypeOK'
  BY <1>1, <1>3, <1>4, TypesKeep, DiskFacts
<1>6. /\ ("live" \in torn' <=> "next" \in torn) /\ ("prev" \in torn' <=> "prev" \in torn)
      /\ ("cur" \in torn' <=> "cur" \in torn)
  BY <1>1
<1>7. WholeTrees' /\ Staged'
  BY <1>1, <1>2, <1>3, <1>4, <1>6 DEF ConfigInv, WholeTrees, Staged, Wholes, Moving
<1>8. Old' = Old /\ (OldTorn' <=> OldTorn)
  BY <1>1, <1>3, <1>4, <1>6 DEF Old, OldTorn, Moving
<1>9. WholeCur'
  BY <1>1, <1>6 DEF ConfigInv, WholeCur, Mixed
<1>10. FollowsDisk' /\ FollowsReport'
  BY <1>1, <1>4, <1>6, <1>8 DEF ConfigInv, FollowsDisk, FollowsReport, Serves, Rereads
<1> QED
  BY <1>5, <1>7, <1>9, <1>10 DEF ConfigInv

\* The staging tree is removed, or is left for the next Apply.
LEMMA Unstages ==
    ASSUME ConfigInv, NEW stage, Unstage(stage)
    PROVE  /\ disk' \in [live : Trees, prev : Trees, next : Trees]
           /\ disk'.live = disk.live /\ torn' = torn \ {"next"} /\ job.at = stage
<1>1. PICK left \in {Absent, disk.next} : disk' = [disk EXCEPT !.next = left]
  BY DEF Unstage
<1>2. left \in Trees
  BY <1>1, DiskFacts
<1> QED
  BY <1>1, <1>2 DEF Unstage, ConfigInv, ConfigTypeOK

\* What is parked comes back with what a removal has left of it.
LEMMA Backs ==
    ASSUME ConfigInv, Back, job.at \in {"promote", "restore"}, job.lived
    PROVE  /\ disk' \in [live : Trees, prev : Trees, next : Trees]
           /\ disk'.live = disk.prev /\ Old = disk.prev
           /\ "live" \in torn' <=> OldTorn
           /\ "cur" \in torn' <=> "cur" \in torn
           /\ "live" \in torn' \/ disk'.live \in Wholes
<1>1. /\ disk' = [disk EXCEPT !.live = disk.prev, !.prev = Absent]
      /\ torn' = (torn \ {"prev", "live"}) \cup (IF "prev" \in torn THEN {"live"} ELSE {})
  BY DEF Back, Carries
<1>2. disk' \in [live : Trees, prev : Trees, next : Trees] /\ disk'.live = disk.prev
  BY <1>1, DiskFacts DEF ConfigInv, ConfigTypeOK
<1>3. ("live" \in torn' <=> "prev" \in torn) /\ ("cur" \in torn' <=> "cur" \in torn)
  BY <1>1
<1>4. Old = disk.prev /\ (OldTorn <=> "prev" \in torn)
  BY DEF Old, OldTorn, Moving
<1>5. "prev" \in torn \/ disk.prev \in Wholes
  BY DEF ConfigInv, WholeTrees, Moving
<1> QED
  BY <1>2, <1>3, <1>4, <1>5

\* Apply has failed with a file operation, or because one had failed before; the
\* tree that is in place is the one in use, none, or one that does not load.
LEMMA FailureKeeps ==
    ASSUME ConfigInv, ConfigTypeOK', job'.at = "failed", faults' # 0,
           job.at \in {"write", "park", "promote", "restore", "undo"},
           UNCHANGED <<dir, cur, crossed, applied>>,
           "cur" \in torn' <=> "cur" \in torn,
           "live" \in torn' \/ disk'.live \in Wholes,
           \/ "live" \in torn'
           \/ ~Readable(disk'.live)
           \/ disk'.live = Old /\ ~OldTorn
    PROVE  ConfigInv'
<1>1. Old' = disk'.live /\ (OldTorn' <=> "live" \in torn')
  BY DEF Old, OldTorn, Moving
<1>2. WholeTrees' /\ Staged'
  BY DEF WholeTrees, Staged, Moving
<1>3. WholeCur' /\ FollowsDisk'
  BY DEF ConfigInv, WholeCur, Mixed, FollowsDisk
<1>4. FollowsReport'
  BY <1>1 DEF ConfigInv, FollowsReport, Serves, Readable, SourcesLoad, ProfilesLoad, Of
<1> QED
  BY <1>2, <1>3, <1>4 DEF ConfigInv

\* The job of an Apply that has failed.
LEMMA JobFails ==
    ASSUME ConfigInv, job' = [job EXCEPT !.at = "failed"], job.at # "idle"
    PROVE  job' \in Jobs /\ job'.at = "failed" /\ job'.m \in Generations
<1>1. "failed" \in Steady \cup Moving
  BY DEF Steady
<1> QED
  BY <1>1, JobMoves DEF ConfigInv

\* What an older Apply parked is in the way.
LEMMA BlockedKeeps ==
    ASSUME ConfigInv, Blocked
    PROVE  ConfigInv'
<1>1. /\ Unstage("park") /\ job' = [job EXCEPT !.at = "failed"]
      /\ UNCHANGED <<bucket, reload, inbox, dir, cur, crossed, applied, faults>>
  BY DEF Blocked, world
<1>2. /\ disk' \in [live : Trees, prev : Trees, next : Trees]
      /\ disk'.live = disk.live /\ torn' = torn \ {"next"} /\ job.at = "park"
  BY <1>1, Unstages
<1>3. job' \in Jobs /\ job'.at = "failed" /\ job'.m \in Generations
  BY <1>1, <1>2, JobFails
<1>4. ConfigTypeOK'
  BY <1>1, <1>2, <1>3, TypesKeep, DiskFacts
<1>5. ("live" \in torn' <=> "live" \in torn) /\ ("cur" \in torn' <=> "cur" \in torn)
  BY <1>2
<1> QED
  BY <1>1, <1>2, <1>3, <1>4, <1>5, SteadyKeeps

\* A file operation fails: the parked tree is back in its place, or nothing is.
LEMMA FaultKeeps ==
    ASSUME ConfigInv, Fault
    PROVE  ConfigInv'
<1>1. /\ faults' = faults + 1 /\ job' = [job EXCEPT !.at = "failed"]
      /\ UNCHANGED <<bucket, reload, inbox, dir, cur, crossed, applied>>
  BY DEF Fault, world
<1>2. faults' \in Nat /\ faults' # 0
  BY <1>1, Counted
<1>3. CASE Unstage("write") \/ Unstage("park")
  <2>1. /\ disk' \in [live : Trees, prev : Trees, next : Trees]
        /\ disk'.live = disk.live /\ torn' = torn \ {"next"} /\ job.at \in {"write", "park"}
    BY <1>3, Unstages
  <2>2. job' \in Jobs /\ job'.at = "failed" /\ job'.m \in Generations
    BY <1>1, <2>1, JobFails
  <2>3. ConfigTypeOK'
    BY <1>1, <1>2, <2>1, <2>2, TypesKeep, DiskFacts
  <2>4. ("live" \in torn' <=> "live" \in torn) /\ ("cur" \in torn' <=> "cur" \in torn)
    BY <2>1
  <2> QED
    BY <1>1, <1>2, <2>1, <2>2, <2>3, <2>4, SteadyKeeps
<1>4. CASE Unstage("promote")
  <2>1. /\ disk' \in [live : Trees, prev : Trees, next : Trees]
        /\ disk'.live = disk.live /\ torn' = torn \ {"next"} /\ job.at = "promote"
    BY <1>4, Unstages
  <2>2. job' \in Jobs /\ job'.at = "failed" /\ job'.m \in Generations
    BY <1>1, <2>1, JobFails
  <2>3. ConfigTypeOK'
    BY <1>1, <1>2, <2>1, <2>2, TypesKeep, DiskFacts
  <2>4. disk'.live = Absent /\ ("cur" \in torn' <=> "cur" \in torn)
    BY <2>1 DEF ConfigInv, Staged
  <2>5. disk'.live \in Wholes /\ ~Readable(disk'.live)
    BY <2>4, TreeFacts, DiskFacts
  <2> QED
    BY <1>1, <1>2, <2>1, <2>2, <2>3, <2>4, <2>5, FailureKeeps
<1>5. CASE job.at = "promote" /\ job.lived /\ Back
  <2>1. /\ disk' \in [live : Trees, prev : Trees, next : Trees]
        /\ disk'.live = disk.prev /\ Old = disk.prev
        /\ "live" \in torn' <=> OldTorn
        /\ "cur" \in torn' <=> "cur" \in torn
        /\ "live" \in torn' \/ disk'.live \in Wholes
    BY <1>5, Backs
  <2>2. job' \in Jobs /\ job'.at = "failed" /\ job'.m \in Generations
    BY <1>1, <1>5, JobFails
  <2>3. ConfigTypeOK'
    BY <1>1, <1>2, <2>1, <2>2, TypesKeep, DiskFacts
  <2> QED
    BY <1>1, <1>2, <1>5, <2>1, <2>2, <2>3, FailureKeeps
<1> QED
  BY <1>3, <1>4, <1>5 DEF Fault

\* ReloadFrom sets the directory.
LEMMA PointKeeps ==
    ASSUME ConfigInv, Point
    PROVE  ConfigInv'
<1>1. PICK stage : stage = IF job.at = "point" THEN "load" ELSE "reload"
  OBVIOUS
<1>2. /\ job.at \in {"point", "repoint"} /\ dir' = "live"
      /\ job' = [job EXCEPT !.at = stage, !.was = dir]
      /\ UNCHANGED <<bucket, reload, inbox, disk, cur, crossed, torn, applied, faults>>
  BY <1>1 DEF Point, world
<1>3. /\ job' \in Jobs /\ job'.at = stage /\ job'.m = job.m /\ job'.m \in Generations
      /\ job'.was = dir /\ (job'.lived <=> job.lived)
  <2>1. stage \in Steady \cup Moving /\ job.at # "idle"
    BY <1>1, <1>2 DEF Steady, Moving
  <2> QED
    BY <1>2, <2>1 DEF ConfigInv, ConfigTypeOK, Jobs
<1>4. ConfigTypeOK'
  <2>1. dir' \in Dirs /\ disk' \in [live : Trees, prev : Trees, next : Trees]
    BY <1>2 DEF Dirs, ConfigInv, ConfigTypeOK
  <2> QED
    BY <1>2, <1>3, <2>1, TypesKeep, DiskFacts
<1>5. WholeTrees' /\ Staged'
  BY <1>1, <1>2, <1>3 DEF ConfigInv, WholeTrees, Staged, Moving
<1>6. Old' = Old /\ (OldTorn' <=> OldTorn)
  BY <1>1, <1>2, <1>3 DEF Old, OldTorn, Moving
<1>7. WholeCur'
  BY <1>2 DEF ConfigInv, WholeCur, Mixed
<1>8. FollowsDisk'
  BY <1>1, <1>2, <1>3, <1>6 DEF ConfigInv, FollowsDisk, Serves, Rereads
<1>9. FollowsReport'
  BY <1>1, <1>2, <1>3, <1>6 DEF ConfigInv, FollowsReport, Serves
<1> QED
  BY <1>4, <1>5, <1>7, <1>8, <1>9 DEF ConfigInv

\* ReloadFrom reads the tree, or sets the directory back.
LEMMA LoadKeeps ==
    ASSUME ConfigInv, Load
    PROVE  ConfigInv'
<1>1. PICK stage : stage = IF job.at = "reload" THEN "failed"
                        ELSE IF Readable(disk.live) THEN "done" ELSE "undo"
  OBVIOUS
<1>2. /\ job.at \in {"load", "reload"}
      /\ IF Readable(disk.live)
         THEN cur' = ReadOf(disk.live) /\ crossed' = FALSE /\ dir' = dir
              /\ torn' = ReadFrom("live" \in torn)
         ELSE dir' = job.was /\ UNCHANGED <<cur, crossed, torn>>
      /\ job' = [job EXCEPT !.at = stage]
      /\ UNCHANGED <<bucket, reload, inbox, disk, applied, faults>>
  BY <1>1 DEF Load, world
<1>3. /\ job' \in Jobs /\ job'.at = stage /\ job'.m = job.m /\ job'.m \in Generations
      /\ job'.lived <=> job.lived
  <2>1. stage \in Steady \cup Moving /\ job.at # "idle"
    BY <1>1, <1>2 DEF Steady, Moving
  <2> QED
    BY <1>2, <2>1, JobMoves DEF ConfigInv
<1>4. dir = "live" /\ job.was \in Dirs
  BY <1>2 DEF ConfigInv, ConfigTypeOK, Jobs, Staged
<1>5. ConfigTypeOK'
  <2>1. dir' \in Dirs /\ disk' \in [live : Trees, prev : Trees, next : Trees]
    BY <1>2, <1>4 DEF Dirs, ConfigInv, ConfigTypeOK
  <2> QED
    BY <1>2, <1>3, <2>1, TypesKeep, DiskFacts
<1>6. /\ "live" \in torn' <=> "live" \in torn
      /\ "prev" \in torn' <=> "prev" \in torn
      /\ "next" \in torn' <=> "next" \in torn
      /\ Readable(disk.live) => ("cur" \in torn' <=> "live" \in torn)
      /\ ~Readable(disk.live) => ("cur" \in torn' <=> "cur" \in torn)
  BY <1>2 DEF ReadFrom
<1>7. WholeTrees'
  BY <1>1, <1>2, <1>3, <1>6 DEF ConfigInv, WholeTrees, Moving
<1>8. Staged'
  BY <1>1, <1>2, <1>3, <1>4, <1>6 DEF ConfigInv, Staged, Moving, Readable
<1>9. Old' = Old /\ (OldTorn' <=> OldTorn)
  BY <1>1, <1>2, <1>3, <1>6 DEF Old, OldTorn, Moving
<1>10. WholeCur'
  <2>1. CASE Readable(disk.live)
    <3>1. "live" \in torn \/ \E m \in Good : disk.live = Tree(m)
      BY <2>1, WholeFacts DEF ConfigInv, WholeTrees
    <3> QED
      BY <1>2, <1>6, <2>1, <3>1 DEF WholeCur, Mixed
  <2>2. CASE ~Readable(disk.live)
    BY <1>2, <1>6, <2>2 DEF ConfigInv, WholeCur, Mixed
  <2> QED
    BY <2>1, <2>2
<1>11. CASE Readable(disk.live)
  <2>1. cur' = ReadOf(disk.live) /\ dir' = "live" /\ disk' = disk /\ UNCHANGED <<applied, faults>>
    BY <1>2, <1>4, <1>11
  <2>2. CASE job.at = "load"
    <3>1. job'.at = "done"
      BY <1>1, <1>3, <1>11, <2>2
    <3>2. Serves(BootOf(Old))' /\ Serves(ReadOf(Tree(applied.m)))'
      BY <1>11, <2>1, <3>1 DEF Serves, Readable
    <3>3. FollowsDisk' /\ FollowsReport'
      BY <1>9, <2>1, <3>1, <3>2 DEF ConfigInv, FollowsDisk, FollowsReport
    <3> QED
      BY <1>5, <1>7, <1>8, <1>10, <3>3 DEF ConfigInv
  <2>3. CASE job.at = "reload"
    <3>1. job'.at = "failed" /\ Old = disk.live /\ (OldTorn <=> "live" \in torn)
      BY <1>1, <1>3, <2>3 DEF Old, OldTorn, Moving
    <3>2. BootOf(Old) = ReadOf(disk.live) /\ DirOf(Old) = "live"
      BY <1>11, <3>1 DEF BootOf, DirOf
    <3>3. FollowsDisk'
      BY <1>9, <2>1, <3>1, <3>2 DEF FollowsDisk, Serves, BootOf, DirOf
    <3>4. applied.m # None => "cur" \in torn' \/ Old = Tree(applied.m)
      BY <1>6, <1>11, <3>1 DEF ConfigInv, FollowsReport
    <3>5. FollowsReport'
      BY <1>9, <2>1, <3>1, <3>4 DEF ConfigInv, FollowsReport, Serves
    <3> QED
      BY <1>5, <1>7, <1>8, <1>10, <3>3, <3>5 DEF ConfigInv
  <2> QED
    BY <1>2, <2>2, <2>3
<1>12. CASE ~Readable(disk.live)
  <2>1. /\ dir' = job.was /\ UNCHANGED <<cur, crossed, torn, disk, applied, faults>>
        /\ job.at = "load" => job'.at = "undo"
        /\ job.at = "reload" => job'.at = "failed" /\ Old = disk.live
    BY <1>1, <1>2, <1>3, <1>12 DEF Old, Moving
  <2>2. FollowsDisk'
    BY <1>2, <1>9, <1>12, <2>1 DEF ConfigInv, FollowsDisk, Serves, Rereads
  <2>3. FollowsReport'
    BY <1>2, <1>9, <1>12, <2>1 DEF ConfigInv, FollowsReport, Serves
  <2> QED
    BY <1>5, <1>7, <1>8, <1>10, <2>2, <2>3 DEF ConfigInv
<1> QED
  BY <1>11, <1>12

\* The rejected tree is removed, as far as that succeeds.
LEMMA UndoKeeps ==
    ASSUME ConfigInv, Undo
    PROVE  ConfigInv'
<1>1. /\ job.at = "undo"
      /\ UNCHANGED <<bucket, reload, inbox, dir, cur, crossed, applied>>
  BY DEF Undo, world
<1>2. "live" \in torn \/ (disk.live \in Wholes /\ ~Readable(disk.live))
  BY <1>1 DEF ConfigInv, WholeTrees, Staged
<1>3. CASE Unlink
  <2>1. PICK left : /\ left \subseteq disk.live
                    /\ disk' = [disk EXCEPT !.live = left] /\ torn' = torn \cup {"live"}
                    /\ UNCHANGED <<job, faults>>
    BY <1>3 DEF Unlink
  <2>2. left \in Trees
    BY <2>1, DiskFacts DEF Trees
  <2>3. /\ disk' \in [live : Trees, prev : Trees, next : Trees]
        /\ disk'.live = left /\ disk'.prev = disk.prev
    BY <2>1, <2>2, DiskFacts DEF ConfigInv, ConfigTypeOK
  <2>4. ConfigTypeOK'
    BY <1>1, <2>1, <2>3 DEF ConfigInv, ConfigTypeOK
  <2>5. /\ "live" \in torn' /\ ("prev" \in torn' <=> "prev" \in torn)
        /\ "cur" \in torn' <=> "cur" \in torn
    BY <2>1
  <2>6. WholeTrees' /\ Staged'
    BY <1>1, <2>1, <2>3, <2>5 DEF ConfigInv, WholeTrees, Staged
  <2>7. Old' = Old /\ (OldTorn' <=> OldTorn)
    BY <1>1, <2>1, <2>3, <2>5 DEF Old, OldTorn, Moving
  <2>8. WholeCur'
    BY <1>1, <2>5 DEF ConfigInv, WholeCur, Mixed
  <2>9. FollowsDisk'
    BY <1>1, <2>1, <2>7 DEF ConfigInv, FollowsDisk, Serves, Rereads
  <2>10. FollowsReport'
    BY <1>1, <2>1, <2>5, <2>7 DEF ConfigInv, FollowsReport, Serves
  <2> QED
    BY <2>4, <2>6, <2>8, <2>9, <2>10 DEF ConfigInv
<1>4. CASE Unlinked
  <2>1. PICK stage : stage = IF job.lived THEN "restore" ELSE "failed"
    OBVIOUS
  <2>2. PICK left \in Remains({disk.live}) :
          /\ disk' = [disk EXCEPT !.live = left] /\ Costs(left)
          /\ torn' = IF left = Absent THEN torn \ {"live"} ELSE torn
    BY <1>4 DEF Unlinked
  <2>3. job' = [job EXCEPT !.at = stage]
    BY <1>4, <2>1 DEF Unlinked
  <2>4. left \in Trees /\ faults' \in Nat /\ (faults' = 0 => left = Absent /\ faults = 0)
    BY <2>2, Leaves, DiskFacts
  <2>5. left \in {Absent, disk.live}
    BY <2>2 DEF Remains
  <2>6. /\ disk' \in [live : Trees, prev : Trees, next : Trees]
        /\ disk'.live = left /\ disk'.prev = disk.prev
    BY <2>2, <2>4, DiskFacts DEF ConfigInv, ConfigTypeOK
  <2>7. /\ job' \in Jobs /\ job'.at = stage /\ job'.m \in Generations
        /\ job'.lived <=> job.lived
    <3>1. stage \in Steady \cup Moving /\ job.at # "idle"
      BY <1>1, <2>1 DEF Steady, Moving
    <3> QED
      BY <2>3, <3>1, JobMoves DEF ConfigInv
  <2>8. ConfigTypeOK'
    BY <1>1, <2>4, <2>6, <2>7, TypesKeep, DiskFacts
  <2>9. /\ "prev" \in torn' <=> "prev" \in torn
        /\ "cur" \in torn' <=> "cur" \in torn
        /\ left # Absent => ("live" \in torn' <=> "live" \in torn)
    BY <2>2
  <2>10. ("live" \in torn' \/ left \in Wholes) /\ ("live" \in torn' \/ ~Readable(left))
    BY <1>2, <2>5, <2>9, TreeFacts, DiskFacts
  <2>11. CASE job.lived
    <3>1. stage = "restore"
      BY <2>1, <2>11
    <3>2. WholeTrees'
      BY <1>1, <2>6, <2>7, <2>9, <2>10, <3>1 DEF ConfigInv, WholeTrees, Moving
    <3>3. Staged'
      BY <2>4, <2>6, <2>7, <2>10, <2>11, <3>1 DEF Staged, Readable
    <3>4. Old' = Old /\ (OldTorn' <=> OldTorn)
      BY <1>1, <2>6, <2>7, <2>9, <3>1 DEF Old, OldTorn, Moving
    <3>5. WholeCur'
      BY <1>1, <2>9 DEF ConfigInv, WholeCur, Mixed
    <3>6. FollowsDisk'
      BY <1>1, <2>4, <2>7, <3>1, <3>4 DEF ConfigInv, FollowsDisk, Serves, Rereads
    <3>7. FollowsReport'
      BY <1>1, <2>7, <2>9, <3>1, <3>4 DEF ConfigInv, FollowsReport, Serves
    <3> QED
      BY <2>8, <3>2, <3>3, <3>5, <3>6, <3>7 DEF ConfigInv
  <2>12. CASE ~job.lived
    <3>1. stage = "failed" /\ Old = Absent
      BY <1>1, <2>1, <2>12 DEF Old, Moving
    <3>2. CASE faults' # 0
      BY <1>1, <2>6, <2>7, <2>8, <2>9, <2>10, <3>1, <3>2, FailureKeeps
    <3>3. CASE faults' = 0
      <4>1. left = Absent /\ faults = 0
        BY <2>4, <3>3
      <4>2. Old' = Old /\ ~Readable(Old) /\ Old'= disk'.live
        BY <2>6, <2>7, <3>1, <4>1, TreeFacts DEF Old, Moving
      <4>3. WholeTrees' /\ Staged'
        BY <2>6, <2>7, <2>10, <3>1 DEF WholeTrees, Staged, Moving
      <4>4. WholeCur'
        BY <1>1, <2>9 DEF ConfigInv, WholeCur, Mixed
      <4>5. FollowsDisk'
        BY <1>1, <2>7, <3>1, <4>1, <4>2 DEF ConfigInv, FollowsDisk, Serves, Rereads
      <4>6. FollowsReport'
        BY <1>1, <2>7, <2>9, <3>1, <4>2 DEF ConfigInv, FollowsReport, Serves
      <4> QED
        BY <2>8, <4>3, <4>4, <4>5, <4>6 DEF ConfigInv
    <3> QED
      BY <3>2, <3>3
  <2> QED
    BY <2>11, <2>12
<1> QED
  BY <1>3, <1>4 DEF Undo

\* The parked tree is put back, or is not.
LEMMA RestoreKeeps ==
    ASSUME ConfigInv, Restore
    PROVE  ConfigInv'
<1>1. /\ job.at = "restore"
      /\ UNCHANGED <<bucket, reload, inbox, dir, cur, crossed, applied>>
  BY DEF Restore, world
<1>2. /\ "live" \in torn \/ (disk.live \in Wholes /\ ~Readable(disk.live))
      /\ disk.live = Absent \/ faults # 0
  BY <1>1 DEF ConfigInv, WholeTrees, Staged
<1>3. CASE /\ disk.live = Absent /\ Back
           /\ job' = [job EXCEPT !.at = "repoint"]
           /\ UNCHANGED faults
  <2>1. CASE job.lived
    <3>1. /\ disk' \in [live : Trees, prev : Trees, next : Trees]
          /\ disk'.live = disk.prev /\ Old = disk.prev
          /\ "live" \in torn' <=> OldTorn
          /\ "cur" \in torn' <=> "cur" \in torn
          /\ "live" \in torn' \/ disk'.live \in Wholes
      BY <1>1, <1>3, <2>1, Backs
    <3>2. job' \in Jobs /\ job'.at = "repoint" /\ job'.m \in Generations
      <4>1. "repoint" \in Steady \cup Moving /\ job.at # "idle"
        BY <1>1 DEF Steady
      <4> QED
        BY <1>3, <4>1, JobMoves DEF ConfigInv
    <3>3. ConfigTypeOK'
      BY <1>1, <1>3, <3>1, <3>2, TypesKeep, DiskFacts
    <3>4. WholeTrees' /\ Staged'
      BY <3>1, <3>2 DEF WholeTrees, Staged, Moving
    <3>5. Old' = Old /\ (OldTorn' <=> OldTorn)
      BY <3>1, <3>2 DEF Old, OldTorn, Moving
    <3>6. WholeCur'
      BY <1>1, <3>1 DEF ConfigInv, WholeCur, Mixed
    <3>7. FollowsDisk'
      BY <1>1, <1>3, <3>2, <3>5 DEF ConfigInv, FollowsDisk, Serves, Rereads
    <3>8. FollowsReport'
      BY <1>1, <3>1, <3>2, <3>5 DEF ConfigInv, FollowsReport, Serves
    <3> QED
      BY <3>3, <3>4, <3>6, <3>7, <3>8 DEF ConfigInv
  <2> QED
    BY <1>1, <2>1 DEF ConfigInv, Staged
<1>4. CASE /\ IF disk.live # Absent THEN UNCHANGED faults ELSE faults' = faults + 1
           /\ job' = [job EXCEPT !.at = "failed"]
           /\ UNCHANGED <<disk, torn>>
  <2>1. job' \in Jobs /\ job'.at = "failed" /\ job'.m \in Generations
    BY <1>1, <1>4, JobFails
  <2>2. faults' \in Nat /\ faults' # 0
    BY <1>2, <1>4, Counted
  <2>3. disk' \in [live : Trees, prev : Trees, next : Trees]
    BY <1>4 DEF ConfigInv, ConfigTypeOK
  <2>4. ConfigTypeOK'
    BY <1>1, <2>1, <2>2, <2>3, TypesKeep, DiskFacts
  <2> QED
    BY <1>1, <1>2, <1>4, <2>1, <2>2, <2>4, FailureKeeps
<1> QED
  BY <1>3, <1>4 DEF Restore

\* Apply ends and Watch reports.
LEMMA FinishKeeps ==
    ASSUME ConfigInv, Finish
    PROVE  ConfigInv'
<1>1. /\ job.at \in {"done", "failed"} /\ Cleared /\ job' = Idle
      /\ applied' = IF job.at = "done" THEN [m |-> job.m, apply |-> "ok"]
                    ELSE [applied EXCEPT !.apply = "apply_failed"]
      /\ torn' = torn \ {"prev"}
      /\ UNCHANGED <<bucket, reload, inbox, dir, cur, crossed>>
  BY DEF Finish, world
<1>2. /\ disk' \in [live : Trees, prev : Trees, next : Trees]
      /\ disk'.live = disk.live /\ faults' \in Nat /\ (faults' = 0 => faults = 0)
  <2>1. CASE job.at = "done"
    <3>1. PICK left \in Remains({disk.prev}) : disk' = [disk EXCEPT !.prev = left] /\ Costs(left)
      BY <1>1, <2>1 DEF Cleared
    <3>2. left \in Trees /\ faults' \in Nat /\ (faults' = 0 => faults = 0)
      BY <3>1, Leaves, DiskFacts
    <3> QED
      BY <3>1, <3>2 DEF ConfigInv, ConfigTypeOK
  <2>2. CASE job.at # "done"
    BY <1>1, <2>2 DEF Cleared, ConfigInv, ConfigTypeOK
  <2> QED
    BY <2>1, <2>2
<1>3. job' \in Jobs /\ job'.at = "idle"
  BY <1>1 DEF Idle, Jobs, Steady, Dirs
<1>4. ConfigTypeOK'
  <2>1. applied' \in [m : Manifests \cup {None}, apply : {"", "ok", "apply_failed"}]
    <3>1. CASE job.at = "done"
      <4>1. job.m \in Manifests
        BY <3>1 DEF ConfigInv, ConfigTypeOK, Generations
      <4> QED
        BY <1>1, <3>1, <4>1
    <3>2. CASE job.at = "failed"
      BY <1>1, <3>2 DEF ConfigInv, ConfigTypeOK
    <3> QED
      BY <1>1, <3>1, <3>2
  <2> QED
    BY <1>1, <1>2, <1>3, <2>1, TypesKeep, DiskFacts
<1>5. ("live" \in torn' <=> "live" \in torn) /\ ("cur" \in torn' <=> "cur" \in torn)
  BY <1>1
<1>6. WholeTrees' /\ Staged'
  BY <1>2, <1>3, <1>5 DEF ConfigInv, WholeTrees, Staged, Moving
<1>7. Old' = disk.live /\ (OldTorn' <=> "live" \in torn)
  BY <1>2, <1>3, <1>5 DEF Old, OldTorn, Moving
<1>8. WholeCur'
  BY <1>1, <1>5 DEF ConfigInv, WholeCur, Mixed
<1>9. CASE job.at = "done"
  <2>1. /\ dir = "live" /\ Readable(disk.live) /\ ("live" \in torn \/ disk.live = Tree(job.m))
        /\ crossed \/ (cur = ReadOf(disk.live) /\ ("live" \in torn => "cur" \in torn))
    BY <1>9 DEF ConfigInv, Staged
  <2>2. applied'.m = job.m
    BY <1>1, <1>9
  <2>3. FollowsDisk'
    BY <1>1, <1>3, <1>7, <2>1 DEF FollowsDisk, Serves, BootOf, DirOf
  <2>4. FollowsReport'
    BY <1>1, <1>3, <1>5, <1>7, <2>1, <2>2 DEF FollowsReport, Serves
  <2> QED
    BY <1>4, <1>6, <1>8, <2>3, <2>4 DEF ConfigInv
<1>10. CASE job.at = "failed"
  <2>1. Old = disk.live /\ (OldTorn <=> "live" \in torn)
    BY <1>10 DEF Old, OldTorn, Moving
  <2>2. applied'.m = applied.m
    BY <1>1, <1>10 DEF ConfigInv, ConfigTypeOK
  <2>3. FollowsDisk'
    BY <1>1, <1>2, <1>3, <1>7, <1>10, <2>1 DEF ConfigInv, FollowsDisk, Serves, Rereads
  <2>4. FollowsReport'
    BY <1>1, <1>3, <1>5, <1>7, <1>10, <2>1, <2>2 DEF ConfigInv, FollowsReport, Serves
  <2> QED
    BY <1>4, <1>6, <1>8, <2>3, <2>4 DEF ConfigInv
<1> QED
  BY <1>1, <1>9, <1>10

\* A crash and the start after it.
LEMMA RestartKeeps ==
    ASSUME ConfigInv, Restart
    PROVE  ConfigInv'
<1>1. /\ cur' = Booted(disk) /\ crossed' = FALSE
      /\ torn' = ReadFrom("live" \in torn /\ Bootstraps(disk))
      /\ dir' = (IF Bootstraps(disk) THEN "live" ELSE "seed")
      /\ job' = Idle /\ applied' = NotApplied
      /\ reload' = [r \in Reloaders |-> AtRest]
      /\ inbox' = (IF bucket = None THEN <<>> ELSE <<bucket>>)
      /\ UNCHANGED <<bucket, disk, faults>>
  BY DEF Restart
<1>2. inbox' \in Seq(Manifests) /\ bucket' \in Manifests \cup {None} /\ faults' \in Nat
  BY <1>1, Counted
<1>3. job' \in Jobs /\ job'.at = "idle"
  BY <1>1 DEF Idle, Jobs, Steady, Dirs
<1>4. /\ applied' \in [m : Manifests \cup {None}, apply : {"", "ok", "apply_failed"}]
      /\ applied'.m = None
  BY <1>1 DEF NotApplied
<1>5. dir' \in Dirs /\ disk' \in [live : Trees, prev : Trees, next : Trees]
  BY <1>1 DEF Dirs, ConfigInv, ConfigTypeOK
<1>6. reload' \in [Reloaders -> Reloads]
  <2>1. AtRest \in Reloads
    BY DEF Reloads
  <2> QED
    BY <1>1, <2>1
<1>7. ConfigTypeOK'
  BY <1>2, <1>3, <1>4, <1>5, <1>6 DEF ConfigTypeOK
<1>8. /\ "live" \in torn' <=> "live" \in torn
      /\ "cur" \in torn' <=> "live" \in torn /\ Bootstraps(disk)
  BY <1>1 DEF ReadFrom
<1>9. WholeTrees' /\ Staged'
  BY <1>1, <1>3, <1>8 DEF ConfigInv, WholeTrees, Staged, Moving
<1>10. Old' = disk.live
  BY <1>1, <1>3 DEF Old, Moving
<1>11. cur' = BootOf(disk.live) /\ dir' = DirOf(disk.live)
  BY <1>1, BootFacts DEF DirOf
<1>12. WholeCur'
  <2>1. CASE "cur" \in torn'
    BY <2>1 DEF WholeCur, Mixed
  <2>2. CASE "cur" \notin torn'
    <3>1. ~Readable(disk.live) \/ disk.live \in Wholes
      BY <1>8, <2>2, BootFacts DEF ConfigInv, WholeTrees
    <3>2. \E m \in Good \cup {Seed} : BootOf(disk.live) = ReadOf(Tree(m))
      BY <3>1, BootWhole DEF BootOf
    <3> QED
      BY <1>11, <3>2 DEF WholeCur
  <2> QED
    BY <2>1, <2>2
<1>13. FollowsDisk'
  BY <1>3, <1>10, <1>11 DEF FollowsDisk, Serves, BootOf, DirOf
<1>14. FollowsReport'
  BY <1>4 DEF FollowsReport
<1> QED
  BY <1>7, <1>9, <1>12, <1>13, <1>14 DEF ConfigInv

\* What a Reload has in hand at each of its steps.
LEMMA ReloadFacts ==
    ASSUME ConfigInv, NEW r \in Reloaders
    PROVE  /\ reload[r].at = "profiles" =>
                reload[r].dir \in Dirs /\ reload[r].sources \subseteq Manifests \cup {Seed}
           /\ reload[r].at = "stamp" =>
                /\ reload[r].dir \in Dirs
                /\ reload[r].sources \subseteq Manifests \cup {Seed}
                /\ reload[r].profiles \subseteq Manifests \cup {Seed}
<1>1. reload[r] \in Reloads
  BY DEF ConfigInv, ConfigTypeOK
<1>2. AtRest.at = "idle"
  BY DEF AtRest
<1>3. \/ reload[r].at \in {"idle", "sources"}
      \/ reload[r] \in [at : {"profiles"}, dir : Dirs, sources : SUBSET (Manifests \cup {Seed})]
      \/ reload[r] \in [at : {"stamp"}, dir : Dirs, sources : SUBSET (Manifests \cup {Seed}),
                        profiles : SUBSET (Manifests \cup {Seed})]
      \/ reload[r] \in [at : {"store"}, snap : Snapshots]
  BY <1>1, <1>2 DEF Reloads
<1> QED
  BY <1>3

\* The tree that Store.dir points to.
LEMMA TreeAtFacts ==
    ASSUME ConfigInv, NEW d \in Dirs
    PROVE  /\ TreeAt(d, disk) \in Trees
           /\ Of(TreeAt(d, disk), "sources") \subseteq Manifests \cup {Seed}
           /\ Of(TreeAt(d, disk), "profiles") \subseteq Manifests \cup {Seed}
           /\ d = "seed" => TreeAt(d, disk) = Tree(Seed)
           /\ d = "live" => TreeAt(d, disk) = disk.live
  BY DiskFacts, TreeFacts DEF TreeAt, Dirs, Of

\* A step of a Reload.
LEMMA ReloadMoves ==
    ASSUME ConfigInv, NEW r \in Reloaders, NEW x \in Reloads,
           reload' = [reload EXCEPT ![r] = x]
    PROVE  reload' \in [Reloaders -> Reloads]
  BY DEF ConfigInv, ConfigTypeOK

\* A Reload reads the tree.
LEMMA ReadingKeeps ==
    ASSUME ConfigInv, NEW r \in Reloaders,
           Notice(r) \/ ReadSources(r) \/ ReadProfiles(r) \/ Stamp(r)
    PROVE  ConfigInv'
<1>1. UNCHANGED <<bucket, inbox, disk, dir, job, applied, faults, cur, crossed, torn>>
  BY DEF Notice, ReadSources, ReadProfiles, Stamp, still
<1>2. dir \in Dirs /\ AtRest \in Reloads
  BY DEF ConfigInv, ConfigTypeOK, Reloads
<1>3. reload' \in [Reloaders -> Reloads]
  <2>1. CASE Notice(r)
    <3>1. PICK x : x = [at |-> "sources"]
      OBVIOUS
    <3>2. x \in Reloads /\ reload' = [reload EXCEPT ![r] = x]
      BY <2>1, <3>1 DEF Notice, Reloads
    <3> QED
      BY <3>2, ReloadMoves
  <2>2. CASE ReadSources(r)
    <3>1. PICK y : y = [at |-> "profiles", dir |-> dir, sources |-> Of(TreeAt(dir, disk), "sources")]
      OBVIOUS
    <3>2. y \in Reloads
      BY <1>2, <3>1, TreeAtFacts DEF Reloads
    <3>3. PICK x : x = IF SourcesLoad(TreeAt(dir, disk)) THEN y ELSE AtRest
      OBVIOUS
    <3>4. x \in Reloads
      BY <1>2, <3>2, <3>3
    <3>5. reload' = [reload EXCEPT ![r] = x]
      BY <2>2, <3>1, <3>3 DEF ReadSources
    <3> QED
      BY <3>4, <3>5, ReloadMoves
  <2>3. CASE ReadProfiles(r)
    <3>1. PICK s, p, d : /\ s = reload[r].sources /\ d = reload[r].dir
                         /\ p = Of(TreeAt(d, disk), "profiles")
      OBVIOUS
    <3>2. s \subseteq Manifests \cup {Seed} /\ d \in Dirs /\ p \subseteq Manifests \cup {Seed}
      BY <2>3, <3>1, ReloadFacts, TreeAtFacts DEF ReadProfiles
    <3>3. PICK x : x = IF ProfilesLoad(s, TreeAt(d, disk))
                       THEN [at |-> "stamp", dir |-> d, sources |-> s, profiles |-> p] ELSE AtRest
      OBVIOUS
    <3>4. x \in Reloads
      BY <1>2, <3>2, <3>3 DEF Reloads
    <3>5. reload' = [reload EXCEPT ![r] = x]
      BY <2>3, <3>1, <3>3 DEF ReadProfiles
    <3> QED
      BY <3>4, <3>5, ReloadMoves
  <2>4. CASE Stamp(r)
    <3>1. PICK s, p, T : /\ s = reload[r].sources /\ p = reload[r].profiles
                         /\ T = TreeAt(reload[r].dir, disk)
      OBVIOUS
    <3>2. /\ s \subseteq Manifests \cup {Seed} /\ p \subseteq Manifests \cup {Seed}
          /\ T \in Trees
      BY <2>4, <3>1, ReloadFacts, TreeAtFacts DEF Stamp
    <3>3. PICK n : n = Snapshot(s, p, T)
      OBVIOUS
    <3>4. n \in Snapshots
      BY <3>2, <3>3 DEF Snapshot, Snapshots
    <3>5. PICK x : x = IF T = Absent THEN AtRest ELSE [at |-> "store", snap |-> n]
      OBVIOUS
    <3>6. x \in Reloads
      BY <1>2, <3>4, <3>5 DEF Reloads
    <3>7. reload' = [reload EXCEPT ![r] = x]
      BY <2>4, <3>1, <3>3, <3>5 DEF Stamp
    <3> QED
      BY <3>6, <3>7, ReloadMoves
  <2> QED
    BY <2>1, <2>2, <2>3, <2>4
<1>4. bucket' \in Manifests \cup {None} /\ inbox' \in Seq(Manifests)
  BY <1>1, Counted
<1> QED
  BY <1>1, <1>3, <1>4, ApartKeeps

\* A Reload stores its snapshot: one that the tree moved under, or what the tree
\* that Store.dir points to reads as.
LEMMA StoreKeeps ==
    ASSUME ConfigInv, NEW r \in Reloaders, StoreSnapshot(r)
    PROVE  ConfigInv'
<1>1. PICK n, T : n = reload[r].snap /\ T = TreeAt(dir, disk)
  OBVIOUS
<1>2. /\ cur' = n /\ (crossed' <=> ~(Readable(T) /\ n = ReadOf(T)))
      /\ torn' = ReadFrom(dir = "live" /\ "live" \in torn)
      /\ reload' = [reload EXCEPT ![r] = AtRest]
      /\ UNCHANGED <<bucket, inbox, disk, dir, job, applied, faults>>
  BY <1>1 DEF StoreSnapshot, Marks, still
<1>3. reload' \in [Reloaders -> Reloads]
  <2>1. AtRest \in Reloads
    BY DEF Reloads
  <2> QED
    BY <1>2, <2>1, ReloadMoves
<1>4. ConfigTypeOK'
  BY <1>2, <1>3 DEF ConfigInv, ConfigTypeOK
<1>5. /\ "live" \in torn' <=> "live" \in torn
      /\ "prev" \in torn' <=> "prev" \in torn
      /\ "next" \in torn' <=> "next" \in torn
      /\ "cur" \in torn' <=> dir = "live" /\ "live" \in torn
  BY <1>2 DEF ReadFrom
<1>6. (dir = "seed" /\ T = Tree(Seed)) \/ (dir = "live" /\ T = disk.live)
  BY <1>1, TreeAtFacts, DiskFacts DEF Dirs
<1>7. ~crossed' => cur' = ReadOf(T) /\ Readable(T)
  BY <1>2
<1>8. WholeTrees'
  BY <1>2, <1>5 DEF ConfigInv, WholeTrees
<1>9. WholeCur'
  <2> SUFFICES ASSUME ~crossed', "cur" \notin torn'
               PROVE  \E m \in Good \cup {Seed} : T = Tree(m)
    BY <1>7 DEF WholeCur, Mixed
  <2>1. CASE dir = "seed"
    BY <1>6, <2>1
  <2>2. CASE dir = "live"
    <3>1. T \in Wholes /\ Readable(T)
      BY <1>5, <1>6, <1>7, <2>2 DEF ConfigInv, WholeTrees
    <3> QED
      BY <3>1, WholeFacts
  <2> QED
    BY <1>6, <2>1, <2>2
<1>10. Staged'
  BY <1>2, <1>5, <1>6, <1>7 DEF ConfigInv, Staged, Readable
<1>11. Old' = Old /\ (OldTorn' <=> OldTorn)
  BY <1>2, <1>5 DEF Old, OldTorn
\* A tree that loads is the one Apply tries, the one in use, or what a removal has
\* left.
<1>12. ~crossed' /\ dir = "live" =>
         /\ cur' = ReadOf(disk.live) /\ Readable(disk.live)
         /\ \/ job.at \in {"point", "load", "done"}
            \/ job.at \in Steady /\ Old = disk.live /\ (OldTorn <=> "live" \in torn)
            \/ job.at \in {"undo", "restore"} /\ "live" \in torn
  BY <1>6, <1>7, TreeFacts, Stages DEF ConfigInv, Staged, Old, OldTorn, Moving, Steady
<1>13. FollowsDisk'
  <2>1. faults = 0 => Serves(BootOf(Old))' \/ Rereads'
    <3> SUFFICES ASSUME faults = 0, ~crossed'
                 PROVE  Serves(BootOf(Old))' \/ Rereads'
      BY DEF Serves
    <3>1. CASE dir = "live"
      <4>1. CASE job.at \in {"point", "load", "done"}
        BY <1>2, <1>12, <3>1, <4>1 DEF Serves, Readable
      <4>2. CASE job.at \in Steady /\ Old = disk.live
        BY <1>2, <1>11, <1>12, <3>1, <4>2 DEF Serves, BootOf, Steady
      <4>3. CASE job.at \in {"undo", "restore"}
        <5>1. Readable(Old)
          BY <3>1, <4>3 DEF ConfigInv, FollowsDisk, DirOf
        <5> QED
          BY <1>2, <1>11, <4>3, <5>1 DEF Rereads
      <4> QED
        BY <1>12, <3>1, <4>1, <4>2, <4>3
    <3>2. CASE dir = "seed"
      <4>1. job.at \notin {"load", "done", "reload"}
        BY <3>2 DEF ConfigInv, Staged
      <4>2. ~Readable(Old)
        BY <3>2, <4>1 DEF ConfigInv, FollowsDisk, DirOf
      <4> QED
        BY <1>2, <1>6, <1>7, <1>11, <3>2, <4>1, <4>2 DEF Serves, BootOf
    <3> QED
      BY <1>6, <3>1, <3>2
  <2> QED
    BY <1>2, <1>11, <2>1 DEF ConfigInv, FollowsDisk
<1>14. FollowsReport'
  <2> SUFFICES ASSUME applied.m # None
               PROVE  /\ dir = "live"
                      /\ job.at \in {"load", "reload"} => job.was = "live"
                      /\ Readable(Old) => OldTorn \/ Old = Tree(applied.m)
                      /\ Serves(ReadOf(Tree(applied.m)))' \/ "cur" \in torn'
    BY <1>2, <1>11 DEF FollowsReport
  <2>1. /\ dir = "live"
        /\ job.at \in {"load", "reload"} => job.was = "live"
        /\ Readable(Old) => OldTorn \/ Old = Tree(applied.m)
    BY DEF ConfigInv, FollowsReport
  <2>2. ASSUME ~crossed', "cur" \notin torn'
        PROVE  Serves(ReadOf(Tree(applied.m)))'
    <3>1. CASE job.at \in {"point", "load", "done"}
      BY <1>2, <1>12, <2>1, <2>2, <3>1 DEF Serves, Readable
    <3>2. CASE job.at \in Steady /\ Old = disk.live /\ (OldTorn <=> "live" \in torn)
      <4>1. Old = Tree(applied.m)
        BY <1>5, <1>12, <2>1, <2>2, <3>2
      <4> QED
        BY <1>2, <1>12, <2>1, <2>2, <3>2, <4>1 DEF Serves, Steady
    <3> QED
      BY <1>5, <1>12, <2>1, <2>2, <3>1, <3>2
  <2> QED
    BY <2>1, <2>2 DEF Serves
<1> QED
  BY <1>4, <1>8, <1>9, <1>10, <1>13, <1>14 DEF ConfigInv

(***************************************************************************)
(* Configuration: the theorems                                             *)
(***************************************************************************)

\* ConfigInv holds at the start.
LEMMA ConfigStarts == ConfigInit => ConfigInv
<1> SUFFICES ASSUME ConfigInit
             PROVE  ConfigInv
  OBVIOUS
<1>1. /\ bucket = None /\ inbox = <<>>
      /\ disk = [live |-> Absent, prev |-> Absent, next |-> Absent]
      /\ dir = "seed" /\ cur = ReadOf(Tree(Seed)) /\ job = Idle /\ applied = NotApplied
      /\ reload = [r \in Reloaders |-> AtRest] /\ crossed = FALSE /\ torn = {} /\ faults = 0
  BY DEF ConfigInit
<1>2. Absent \in Wholes /\ Absent \in Trees
  BY DEF Wholes, Trees, Absent
<1>3. job.at = "idle" /\ applied.m = None
  BY <1>1 DEF Idle, NotApplied
<1>4. ConfigTypeOK
  <2>1. AtRest \in Reloads
    BY DEF Reloads
  <2>2. inbox \in Seq(Manifests) /\ faults \in Nat
    BY <1>1
  <2>3. job \in Jobs
    BY <1>1 DEF Idle, Jobs, Steady, Dirs
  <2>4. applied \in [m : Manifests \cup {None}, apply : {"", "ok", "apply_failed"}]
    BY <1>1 DEF NotApplied
  <2> QED
    BY <1>1, <1>2, <1>3, <2>1, <2>2, <2>3, <2>4 DEF ConfigTypeOK, Dirs
<1>5. WholeTrees
  BY <1>1, <1>2, <1>3 DEF WholeTrees, Moving
<1>6. Staged /\ FollowsReport
  BY <1>3 DEF Staged, FollowsReport, Moving
<1>7. Old = Absent /\ ~Readable(Absent)
  BY <1>1, <1>3, TreeFacts DEF Old, Moving
<1>8. WholeCur /\ FollowsDisk
  BY <1>1, <1>3, <1>7 DEF WholeCur, FollowsDisk, Serves, BootOf, DirOf
<1> QED
  BY <1>4, <1>5, <1>6, <1>8 DEF ConfigInv

\* Every step keeps ConfigInv.
LEMMA ConfigStep == ConfigInv /\ [ConfigNext]_configVars => ConfigInv'
<1> SUFFICES ASSUME ConfigInv, [ConfigNext]_configVars
             PROVE  ConfigInv'
  OBVIOUS
<1>1. CASE \E m \in Manifests : Publish(m)
  BY <1>1, PublishesKeeps
<1>2. CASE Take \/ Fault \/ Restart
  BY <1>2, TakeKeeps, FaultKeeps, RestartKeeps
<1>3. CASE Apply
  BY <1>3, WriteKeeps, ClearKeeps, ParkKeeps, BlockedKeeps, PromoteKeeps, PointKeeps, LoadKeeps, UndoKeeps,
     RestoreKeeps, FinishKeeps DEF Apply
<1>4. CASE \E r \in Reloaders : Reload(r)
  BY <1>4, ReadingKeeps, StoreKeeps DEF Reload
<1>5. CASE UNCHANGED configVars
  <2>1. UNCHANGED <<bucket, inbox, disk, dir, cur, job, applied, reload, crossed, torn, faults>>
    BY <1>5 DEF configVars
  <2>2. /\ bucket' \in Manifests \cup {None} /\ inbox' \in Seq(Manifests)
        /\ reload' \in [Reloaders -> Reloads]
    BY <2>1, Counted DEF ConfigInv, ConfigTypeOK
  <2> QED
    BY <2>1, <2>2, ApartKeeps
<1> QED
  BY <1>1, <1>2, <1>3, <1>4, <1>5 DEF ConfigNext

\* ConfigInv is an invariant.
THEOREM ConfigInvariance == ConfigSpec => []ConfigInv
  BY ConfigStarts, ConfigStep, PTL DEF ConfigSpec

\* Through any crashes, faults and reloads a process serves one good generation,
\* whole, or the seed, unless a Reload read a tree while it moved or what it read
\* was left by a RemoveAll that had not ended (ReloadFrom, Reload, Bootstrap).
THEOREM GenerationsServed == ConfigSpec => []ServesGenerations
<1>1. ASSUME ConfigInv
      PROVE  ServesGenerations
  <2> SUFFICES ASSUME NEW m \in Good \cup {Seed}, cur = ReadOf(Tree(m))
               PROVE  cur.sources = {m} /\ cur.profiles = {m}
    BY <1>1 DEF ConfigInv, WholeCur, ServesGenerations
  <2>1. m \in Manifests \cup {Seed}
    BY TreeFacts
  <2>2. Of(Tree(m), "sources") = {m} /\ Of(Tree(m), "profiles") = {m}
    BY <2>1, TreeFacts
  <2> QED
    BY <2>2 DEF ReadOf, Snapshot
<1> QED
  BY <1>1, ConfigInvariance, PTL

\* Between two updates a restart finds on disk what is served, after crashes in the
\* middle of a removal too, unless a file operation failed or a Reload stored what
\* it read while the tree moved.
THEOREM RestartsSame == ConfigSpec => []RestartSame
<1>1. ConfigInv => RestartSame
  BY BootFacts DEF ConfigInv, FollowsDisk, Serves, Rereads, Old, Moving, RestartSame
<1> QED
  BY <1>1, ConfigInvariance, PTL

\* The heartbeat names the generation that is served, with the same exceptions.
THEOREM ReportsHonest == ConfigSpec => []HonestReport
<1>1. ConfigInv => HonestReport
  BY DEF ConfigInv, FollowsReport, Serves, HonestReport, Mixed
<1> QED
  BY <1>1, ConfigInvariance, PTL

=============================================================================
