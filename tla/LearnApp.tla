------------------------------ MODULE LearnApp ------------------------------
(***************************************************************************)
(* Provider app: the inspector watches the responses of the application,   *)
(* puts the cookies of accepted logins on the session list and takes those *)
(* of logouts off it; decide.openApp trusts what is on the list.           *)
(*                                                                         *)
(* Code modelled: cmd/inspector/learn.go (observe, requestHeaders) and     *)
(* internal/learn/learn.go (Matches, Issued, Succeeded, Hash).  The        *)
(* application, the browser and the proxy, which hands a response on when  *)
(* the inspector has answered, are external; workers of the inspector take *)
(* the responses in any order.  The list takes effect at once here, its    *)
(* mirrors are in modules SessionLife and ListMirror.                      *)
(***************************************************************************)
EXTENDS Integers, FiniteSets

CONSTANTS
    Cookies,    \* values of the application's cookie
    Users,      \* users of the application
    Flights,    \* responses under inspection at once
    None,       \* no cookie, no user
    CookieNew,  \* learn.success.cookie_new, on unless switched off
    Mishaps     \* what may go wrong: see below

ASSUME LearnAssumption ==
    /\ None \notin Cookies \cup Users
    /\ CookieNew \in BOOLEAN
    \* "lossy": the stored request headers are gone; "shed": the queue sheds the
    \* response; "list": the list command is not published; "hasty": the proxy
    \* hands the response on at its deadline, before the answer.
    /\ Mishaps \subseteq {"lossy", "shed", "list", "hasty"}

VARIABLES
    app,       \* the application: the user of each of its sessions
    known,     \* cookies that the application has handed out
    jar,       \* the browser's cookie
    flight,    \* the responses under inspection
    list,      \* the session list: the user of each record
    accepted,  \* history: logins that the application accepted
    ended,     \* history: cookies that the application logged out
    blind,     \* history: cookies observed without the stored request headers
    missed,    \* history: cookies whose response was shed, whose list command
               \* was lost, or whose login was handed on before the answer
    lookalike  \* history: fresh cookies that a rejected login set in a response
               \* that looks like that of an accepted one

learnVars == <<app, known, jar, flight, list, accepted, ended, blind, missed, lookalike>>
history == <<accepted, ended, blind, missed, lookalike>>

Idle == [op |-> "none"]

LearnInit ==
    /\ app = [c \in Cookies |-> None]
    /\ known = {} /\ jar = None
    /\ flight = [f \in Flights |-> Idle]
    /\ list = [c \in Cookies |-> None]
    /\ accepted = {} /\ ended = {} /\ blind = {} /\ missed = {} /\ lookalike = {}

(***************************************************************************)
(* The application and the browser (external)                              *)
(***************************************************************************)

\* A response on its way: what observe can see of it, whether it has been
\* observed, and whether the browser has it.
Response(op, user, issued, good) ==
    [op |-> op, user |-> user, issued |-> issued, requested |-> jar, good |-> good,
     seen |-> FALSE, out |-> FALSE]

\* The cookie that a response is about: the one that a logout ends, the one that
\* a login issues.
Touched(r) == {IF r.op = "logout" THEN r.requested ELSE r.issued} \ {None}

\* A first visit: a session of nobody.
Visit(c) ==
    /\ jar = None /\ c \notin known
    /\ known' = known \cup {c} /\ jar' = c
    /\ UNCHANGED <<app, flight, list, history>>

\* The application accepts a login and issues a fresh cookie.
LoginAccepted(f, u, c) ==
    /\ flight[f] = Idle /\ c \notin known
    /\ known' = known \cup {c}
    /\ app' = [app EXCEPT ![c] = u]
    /\ accepted' = accepted \cup {<<c, u>>}
    /\ flight' = [flight EXCEPT ![f] = Response("login", u, c, TRUE)]
    /\ UNCHANGED <<jar, list, ended, blind, missed, lookalike>>

\* It rejects one, with a status of its own or the page again, and may set the
\* cookie of the visit once more.
LoginRejected(f, u, good) ==
    /\ flight[f] = Idle
    /\ \E c \in {None, jar} : flight' = [flight EXCEPT ![f] = Response("login", u, c, good)]
    /\ UNCHANGED <<app, known, jar, list, history>>

\* It may also set a fresh cookie, as a page does for a visitor who has none or
\* whose session it replaces; with the page again or a redirect, the response is
\* as good as that of an accepted login.
LoginRejectedAnew(f, u, c, good) ==
    /\ flight[f] = Idle /\ c \notin known
    /\ known' = known \cup {c}
    /\ flight' = [flight EXCEPT ![f] = Response("login", u, c, good)]
    /\ lookalike' = IF good THEN lookalike \cup {c} ELSE lookalike
    /\ UNCHANGED <<app, jar, list, accepted, ended, blind, missed>>

\* A logout, which the application may refuse.
LogoutPosted(f, good) ==
    /\ flight[f] = Idle /\ jar # None
    /\ app' = IF good THEN [app EXCEPT ![jar] = None] ELSE app
    /\ ended' = IF good THEN ended \cup {jar} ELSE ended
    /\ flight' = [flight EXCEPT ![f] = Response("logout", None, None, good)]
    /\ UNCHANGED <<known, jar, list, accepted, blind, missed, lookalike>>

\* The browser has the response.
Release(f) ==
    LET r == flight[f] IN
    /\ r # Idle /\ ~r.out
    /\ r.seen \/ "hasty" \in Mishaps
    /\ jar' = CASE r.op = "login" /\ r.issued # None -> r.issued
                [] r.op = "logout" /\ r.good /\ r.requested = jar -> None
                [] OTHER -> jar
    /\ flight' = [flight EXCEPT ![f] = IF r.seen THEN Idle ELSE [r EXCEPT !.out = TRUE]]
    /\ missed' = IF r.seen \/ r.op = "logout" THEN missed ELSE missed \cup Touched(r)
    /\ UNCHANGED <<app, known, list, accepted, ended, blind, lookalike>>

\* list.ttl is over.
RecordExpires(c) ==
    /\ list[c] # None
    /\ list' = [list EXCEPT ![c] = None]
    /\ UNCHANGED <<app, known, jar, flight, history>>

(***************************************************************************)
(* handler.observe                                                         *)
(***************************************************************************)

\* What store.Cookie finds in the stored request headers.
RequestCookies(r) == {r.requested} \cup (IF "lossy" \in Mishaps THEN {None} ELSE {})

\* Mutant of Succeeded: a cookie that was there before counts as new.
SucceededByStatus(r, requested) == r.good

\* learn.Succeeded, the status and the JSON test being one.
Succeeded(r, requested) == r.good /\ (CookieNew => r.issued # requested)

\* lists.Add and lists.Remove, which may fail and are then only logged.
Put(c, u) ==
    \/ list' = [list EXCEPT ![c] = u] /\ UNCHANGED missed
    \/ "list" \in Mishaps /\ missed' = missed \cup {c} /\ UNCHANGED list

\* Mutant of Logout: the status test is upside down.
LogoutInverted(r, cookie) ==
    IF cookie = None \/ r.good THEN UNCHANGED <<list, missed>> ELSE Put(cookie, None)

Logout(r, cookie) ==
    IF cookie = None \/ ~r.good THEN UNCHANGED <<list, missed>> ELSE Put(cookie, None)

Login(r, cookie) ==
    IF r.issued = None \/ ~Succeeded(r, cookie) THEN UNCHANGED <<list, missed>> ELSE Put(r.issued, r.user)

Observed(f) ==
    flight' = [flight EXCEPT ![f] = IF flight[f].out THEN Idle ELSE [flight[f] EXCEPT !.seen = TRUE]]

observe(f) ==
    /\ flight[f] # Idle /\ ~flight[f].seen
    /\ \E cookie \in RequestCookies(flight[f]) :
         /\ IF flight[f].op = "logout" THEN Logout(flight[f], cookie) ELSE Login(flight[f], cookie)
         /\ blind' = IF cookie = flight[f].requested THEN blind ELSE blind \cup Touched(flight[f])
    /\ Observed(f)
    /\ UNCHANGED <<app, known, jar, accepted, ended, lookalike>>

\* The queue sheds the response, or the login's body cannot be read.
Unobserved(f) ==
    /\ "shed" \in Mishaps
    /\ flight[f] # Idle /\ ~flight[f].seen
    /\ Observed(f)
    /\ missed' = missed \cup Touched(flight[f])
    /\ UNCHANGED <<app, known, jar, list, accepted, ended, blind, lookalike>>

LearnNext ==
    \/ \E c \in Cookies : Visit(c) \/ RecordExpires(c)
    \/ \E f \in Flights, u \in Users, c \in Cookies : LoginAccepted(f, u, c)
    \/ \E f \in Flights, u \in Users, good \in BOOLEAN : LoginRejected(f, u, good)
    \/ \E f \in Flights, u \in Users, c \in Cookies, good \in BOOLEAN :
         LoginRejectedAnew(f, u, c, good)
    \/ \E f \in Flights, good \in BOOLEAN : LogoutPosted(f, good)
    \/ \E f \in Flights : Release(f) \/ observe(f) \/ Unobserved(f)

LearnSpec == LearnInit /\ [][LearnNext]_learnVars

(***************************************************************************)
(* Properties                                                              *)
(***************************************************************************)

\* The gate trusts only the cookie of a login that it watched the application
\* accept (README.md:54), and under the name of the user who logged in: a
\* rejected login that sets the cookie again is not taken for a new session.
\* Two responses get past this: one observed without its request headers, and a
\* rejected login that answers with a status of learn.success (200, 302 and 303
\* unless configured, source.go:737) and with a cookie that the request did not
\* have, which is all that tells an accepted one (cmd/inspector/learn.go:127).
TrustsAccepted ==
    \A c \in Cookies \ (blind \cup lookalike) : list[c] # None => <<c, list[c]>> \in accepted

\* A logout ends the trust: once no response is under way, no cookie that the
\* application logged out is on the list, in whichever order the workers took
\* the responses of parallel logins and logouts and whatever befell those of
\* other cookies.
LogoutEnds ==
    (\A f \in Flights : flight[f] = Idle \/ flight[f].seen) =>
        \A c \in ended \ (blind \cup missed) : list[c] = None
=============================================================================
