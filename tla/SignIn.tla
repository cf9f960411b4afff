------------------------------- MODULE SignIn -------------------------------
(***************************************************************************)
(* Signing in: a browser with several tabs at the forms of an accepted     *)
(* tree of sources, the providers that check what is typed, step by step,  *)
(* and the cache of the secrets that the checks need.                      *)
(*                                                                         *)
(* Code modelled: cmd/http/server.go (page, issue, identify, cookieValue), *)
(* cmd/http/login.go (submit, priorIdentity, burnCode, rejected,           *)
(* accepted), internal/provider (Build, Run, Local, Code, LDAP, NTLM) and  *)
(* internal/secrets/secrets.go (Get, cached, resolveScope, remember).      *)
(*                                                                         *)
(* The counters and locks of submit are in LoginAttempts, the expiry of    *)
(* tickets and codes in OneTimeUse, the life of a session in SessionLife:  *)
(* here no lock is on, every code typed is a new one and nothing expires   *)
(* but the cached secrets.                                                 *)
(***************************************************************************)
EXTENDS SourceRules, FiniteSetsExt, SequencesExt

CONSTANTS
    Worlds,      \* the trees, with the people and the directories around them
    Tabs,        \* the tabs of the browser
    CacheTTL,    \* cacheTTL of the secrets, in ticks
    FetchMax,    \* the timeout of the secrets' HTTP client, in ticks
    MaxWrong,    \* bound: attempts that are not to succeed
    MaxFaults,   \* bound: calls that fail
    MaxRotate    \* bound: changes of secrets in the controller

ASSUME SignInAssumption ==
    {CacheTTL, FetchMax, MaxWrong, MaxFaults, MaxRotate} \subseteq Nat

\* The secrets of a world are those that its sources and user files refer to.
ASSUME WorldAssumption ==
    \A w \in Worlds : Reads(w.tree) =>
        \A n \in DOMAIN w.tree.sources : LET s == w.tree.sources[n] IN
            /\ s.provider \in {"ldap", "ntlm"} => Section(s).search.store \in w.secrets \cup {""}
            /\ TOTP(s) => \A i \in DOMAIN s.files[UsersFile(s)] :
                              s.files[UsersFile(s)][i].store \in w.secrets \cup {""}

VARIABLES
    world,    \* the world the run is in
    jar,      \* the cookies of the browser
    tab,      \* what each tab shows or waits for
    vault,    \* for each secret, how long each earlier value of it is retired
    cache,    \* Store.cache
    issued,   \* the sessions issued so far
    budget    \* what is left of the bounds

vars == <<world, jar, tab, vault, cache, issued, budget>>

(***************************************************************************)
(* The world                                                               *)
(***************************************************************************)

Src(g) == world.tree.sources[g]
Opt(g) == Section(Src(g))
Gates == {g \in DOMAIN world.tree.sources : ~External(Src(g))}
Directory(g) == Src(g).provider \in {"ldap", "ntlm"}
StaticCode(g) == Src(g).provider = "code" /\ ~TOTP(Src(g))

\* The user file's record of a person, as a set of at most one.
UserOf(g, p) ==
    LET file == Src(g).files[UsersFile(Src(g))]
    IN  {file[i] : i \in {j \in DOMAIN file : file[j].login = p}}
Active(g, p) == \E u \in UserOf(g, p) : u.active

\* The directory's: how many entries the filter finds for the login, whether
\* they have memberOf, and the groups they are in.
EntryOf(g, p) == world.entry[g][p]

\* The version of a secret that is in the controller, and in the directory or
\* in the user's authenticator too.
Current(id) == Len(vault[id]) + 1
Secrets == DOMAIN vault

\* The version of what comes from the environment or from the user file.
Fixed == 0

(***************************************************************************)
(* The browser's cookies                                                   *)
(***************************************************************************)

Root == <<>>

\* cookieValue: of the cookies of a name the browser sends those of the longer
\* paths first, and r.Cookie takes the first.
Sent(uri, name) ==
    LET fits == {c \in jar : c.name = name /\ IsPrefix(c.path, uri)}
    IN  {c \in fits : \A d \in fits : Len(d.path) <= Len(c.path)}

With(cookies, c) == {d \in cookies : d.name # c.name \/ d.path # c.path} \cup {c}
Without(cookies, name, path) == {d \in cookies : d.name # name \/ d.path # path}

Cookie(name, path, kind, src, sub, burnt) ==
    [name |-> name, path |-> path, kind |-> kind, src |-> src, sub |-> sub,
     burnt |-> burnt]

\* A ticket; "burnt" stands for the key of its nonce in the roster.
TicketCookie(g, burnt) == Cookie(Src(g).ticket, Src(g).uri, "ticket", g, "", burnt)

\* OpenTicket and the test of its scope.
Ticket(g) ==
    {c \in Sent(Src(g).uri, Src(g).ticket) : c.kind = "ticket" /\ c.src = g}

\* The session that opens a page of the application behind gate g.
SessionAt(g, uri) ==
    {c \in Sent(uri, Src(g).session) : c.kind = "session" /\ c.src = g}
SignedIn(g) == SessionAt(g, Root) # {}

\* priorIdentity: the subject of the first gate's session, from the cookies
\* that come with the request to this gate's form.
Prior(g) == {c.sub : c \in SessionAt(Src(g).from, Src(g).uri)}

\* issue and identify: the session, the ticket cleared, the record of the
\* list and the identity for the application.
Issue(g, sub) ==
    LET s == Src(g)
        in == With(jar, Cookie(s.session, Root, "session", g, sub, FALSE))
        cleared == Without(in, s.ticket, s.uri)
        listed == IF Enabled(s)
                  THEN With(cleared, Cookie(s.list, Root, "record", g, sub, FALSE))
                  ELSE cleared
    IN  IF s.upstream # ""
        THEN With(listed, Cookie(s.upstream, Root, "identity", g, sub, FALSE))
        ELSE listed

(***************************************************************************)
(* Tabs                                                                    *)
(***************************************************************************)

Idle == [at |-> "idle"]

\* A form: "fits" says that its nonce is that of the ticket in the jar.
Form(g, fits, told) == [at |-> "form", gate |-> g, fits |-> fits, told |-> told]

\* page: a ticket that is good is kept, unless it is rotated.  A new one
\* leaves the forms of the other tabs with the old nonce.
Page(t, g, rotate, told) ==
    IF Ticket(g) # {} /\ ~rotate
    THEN /\ tab' = [tab EXCEPT ![t] = Form(g, TRUE, told)]
         /\ UNCHANGED jar
    ELSE /\ jar' = With(jar, TicketCookie(g, FALSE))
         /\ tab' = [u \in Tabs |->
                       IF u = t THEN Form(g, TRUE, told)
                       ELSE IF tab[u].at = "form" /\ tab[u].gate = g
                       THEN [tab[u] EXCEPT !.fits = FALSE] ELSE tab[u]]

Spend(what) == budget[what] > 0 /\ budget' = [budget EXCEPT ![what] = @ - 1]

(***************************************************************************)
(* The steps of provider.Run                                               *)
(***************************************************************************)

\* Whether the check asks for the directory entry.
LooksUp(g) ==
    \/ Src(g).provider = "ldap" /\ Opt(g).bind = "search"
    \/ Src(g).provider = "ntlm" /\ (Opt(g).groups # {} \/ Opt(g).search.base # "")

\* Verify of each provider, as the sequence of what it waits for.  LDAP asks
\* for the service password again, on a new connection, to find the groups of
\* an entry without memberOf; NTLM has both at hand.
Steps(g, p) ==
    IF Src(g).provider = "local" THEN <<"hash">>
    ELSE IF TOTP(Src(g)) THEN <<"given", "secret", "code">>
    ELSE IF Src(g).provider = "code" THEN <<"given", "code">>
    ELSE IF ~LooksUp(g) THEN <<"given", "bind">>
    ELSE IF Src(g).provider = "ldap"
    THEN <<"given", "secret", "lookup", "bind">>
             \o (IF EntryOf(g, p).memberOf THEN <<>> ELSE <<"secret", "reverse">>)
    ELSE <<"given", "bind", "secret", "lookup">>
             \o (IF EntryOf(g, p).memberOf THEN <<>> ELSE <<"reverse">>)

\* The person whose account is checked: the one named in the form or, at a
\* TOTP gate, the one who passed the first gate.
Account(c) == IF TOTP(Src(c.gate)) THEN c.prior ELSE c.who

\* The references in the store that the check of a person's account reads: one
\* or none.
References(g, p) ==
    LET search == Opt(g).search
        named == IF TOTP(Src(g)) THEN {u.store : u \in UserOf(g, p)}
                 ELSE IF ~Directory(g) \/ search.bindDN = "" THEN {} ELSE {search.store}
    IN  named \ {""}

\* servicePassword and serviceBind: anonymous, or with a password that has to
\* be there and to be the current one.
Binds(c) ==
    LET search == Opt(c.gate).search
    IN  IF search.bindDN = "" THEN TRUE
        ELSE IF search.store # "" THEN c.got = Current(search.store)
        ELSE search.env \in world.tree.environ

\* Mutant of ServiceOutcome: the refusal of the service account is reported
\* like the refusal of the user.
ServiceOutcomeAsUser(c) == IF Binds(c) THEN "pass" ELSE "invalid"

ServiceOutcome(c) == IF Binds(c) THEN "pass" ELSE "unavailable"

\* lookup after serviceBind: a filter that does not take the login, a size
\* limit that is hit, and ldapErr's reading of what the directory refuses.
LookupOutcome(c) ==
    LET e == EntryOf(c.gate, c.who)
    IN  IF ServiceOutcome(c) # "pass" THEN ServiceOutcome(c)
        ELSE IF ~Opt(c.gate).search.filter THEN "unavailable"
        ELSE IF ~world.readable THEN "notallowed"
        ELSE IF ~world.base THEN "invalid"
        ELSE IF e.found > 2 THEN "unavailable"
        ELSE IF e.found # 1 THEN "invalid"
        ELSE "pass"

\* The code is that of the version of the secret the authenticator had when
\* it was typed.  The modulus of a ten-digit code overflows 32 bits: "high"
\* values come out wrong.
CodeOutcome(c, high) ==
    IF c.kind # "right" THEN "invalid"
    ELSE IF ~TOTP(Src(c.gate)) THEN "pass"
    ELSE IF c.who # c.prior \/ c.got # c.typed THEN "invalid"
    ELSE IF high /\ Opt(c.gate).digits = 10 THEN "invalid"
    ELSE "pass"

\* secretOf: the user has to be there, active, and have a secret.
SecretOutcome(c) ==
    IF TOTP(Src(c.gate)) /\ (\/ ~Active(c.gate, c.prior)
                             \/ \A u \in UserOf(c.gate, c.prior) : u.totp = "" /\ u.store = "")
    THEN "notallowed" ELSE "pass"

\* What a step that waits for nobody else comes to.
StepOutcome(c, high) ==
    LET step == Head(c.todo)
    IN  CASE step = "given" -> IF c.kind = "empty" THEN "invalid" ELSE "pass"
          [] step = "hash" ->
                 IF c.kind # "right" \/ UserOf(c.gate, c.who) = {} THEN "invalid"
                 ELSE IF ~Active(c.gate, c.who) THEN "notallowed"
                 ELSE "pass"
          [] step = "bind" -> IF c.kind = "right" THEN "pass" ELSE "invalid"
          [] step = "lookup" -> LookupOutcome(c)
          [] step = "reverse" -> ServiceOutcome(c)
          [] step = "code" -> CodeOutcome(c, high)

GroupsAllow(g, groups) == Opt(g).groups = {} \/ Opt(g).groups \cap groups # {}

\* finish: the groups the source wants.
FinishOutcome(c) ==
    IF Directory(c.gate) /\ ~GroupsAllow(c.gate, IF LooksUp(c.gate)
                                              THEN EntryOf(c.gate, c.who).groups ELSE {})
    THEN "notallowed" ELSE "pass"

\* Mutant of SubjectOf: the first gate's session is read again at the end.
SubjectReread(c) ==
    IF TOTP(Src(c.gate)) /\ Prior(c.gate) # {} THEN CHOOSE p \in Prior(c.gate) : TRUE
    ELSE IF StaticCode(c.gate) THEN "code" ELSE c.who

\* The subject of the session.  A static code belongs to nobody: Code.static
\* takes the login that was posted beside it, and "code" when there is none.
SubjectOf(c) ==
    IF ~StaticCode(c.gate) THEN Account(c) ELSE IF c.prior = "" THEN "code" ELSE c.prior

(***************************************************************************)
(* The form                                                                *)
(***************************************************************************)

\* A form, opened for a gate that is not passed yet, after the gate it takes
\* the identity from.  A ticket for another page to return to is replaced.
OpenForm(t, g) ==
    /\ tab[t] = Idle
    /\ ~SignedIn(g)
    /\ Src(g).from \in Gates => SignedIn(Src(g).from)
    /\ \E other \in BOOLEAN : Page(t, g, other, "")
    /\ UNCHANGED <<world, vault, cache, issued, budget>>

At(t, place) == tab[t].at = place

\* submit with a nonce that is not that of the ticket, or without a ticket.
SubmitStale(t) ==
    /\ At(t, "form") /\ (~tab[t].fits \/ Ticket(tab[t].gate) = {})
    /\ Page(t, tab[t].gate, FALSE, "stale")
    /\ UNCHANGED <<world, vault, cache, issued, budget>>

\* submit of a nonce that is burnt.
SubmitBurnt(t) ==
    /\ At(t, "form") /\ tab[t].fits
    /\ \E c \in Ticket(tab[t].gate) : c.burnt
    /\ Page(t, tab[t].gate, TRUE, "stale")
    /\ UNCHANGED <<world, vault, cache, issued, budget>>

\* The name that Verify is given beside the credentials: at a TOTP gate the
\* identity of the first gate; at a gate of static codes the login, which its
\* form does not ask for and submit reads all the same, when there is one.
Beside(g) ==
    IF TOTP(Src(g)) THEN Prior(g) ELSE IF StaticCode(g) THEN world.people \cup {""} ELSE {""}

\* submit up to the check, with the credentials of a person: right, wrong or
\* left empty.  The ticket is burnt and the first gate's identity taken.
Submit(t, who, kind) ==
    LET g == tab[t].gate
        sensible == kind = "right" /\ (TOTP(Src(g)) /\ Prior(g) # {} => who \in Prior(g))
    IN  /\ At(t, "form") /\ tab[t].fits
        /\ \E c \in Ticket(g) : ~c.burnt
        /\ IF sensible THEN UNCHANGED budget ELSE Spend("wrong")
        /\ IF TOTP(Src(g)) /\ Prior(g) = {}
           THEN Page(t, g, TRUE, "firstgate")
           ELSE /\ jar' = With(jar, TicketCookie(g, TRUE))
                /\ \E prior \in Beside(g) :
                       LET typed == {Current(id) : id \in References(g, who)}
                           c == [at |-> "check", gate |-> g, who |-> who, kind |-> kind,
                                 prior |-> prior, todo |-> Steps(g, who),
                                 typed |-> IF TOTP(Src(g)) /\ typed # {} THEN Max(typed)
                                           ELSE Fixed,
                                 got |-> Fixed, wait |-> 0]
                       IN  tab' = [tab EXCEPT ![t] = c]
        /\ UNCHANGED <<world, vault, cache, issued>>

\* Burn fails, or no verification slot comes free in time.
SubmitRefused(t) ==
    /\ At(t, "form") /\ tab[t].fits
    /\ \E c \in Ticket(tab[t].gate) : ~c.burnt
    /\ Spend("faults")
    /\ Page(t, tab[t].gate, TRUE, "unavailable")
    /\ UNCHANGED <<world, vault, cache, issued>>

(***************************************************************************)
(* The check                                                               *)
(***************************************************************************)

Checks(t, step) == At(t, "check") /\ tab[t].todo # <<>> /\ Head(tab[t].todo) = step

\* rejected: the form again, with a new ticket and the reason.
Rejected(t, told) == Page(t, tab[t].gate, TRUE, told)

Goes(t, got) ==
    LET c == tab[t]
    IN  tab' = [tab EXCEPT ![t] = [c EXCEPT !.at = "check", !.todo = Tail(c.todo), !.got = got,
                                            !.wait = 0]]

\* A step of Verify: the hash, the directory's answer, the code.
Step(t) ==
    /\ At(t, "check") /\ tab[t].todo # <<>> /\ Head(tab[t].todo) # "secret"
    /\ ~(Head(tab[t].todo) = "code" /\ TOTP(Src(tab[t].gate)) /\ Opt(tab[t].gate).period < Second)
    /\ \E high \in BOOLEAN : LET told == StepOutcome(tab[t], high) IN
           IF told = "pass" THEN Goes(t, tab[t].got) /\ UNCHANGED jar
           ELSE Rejected(t, told)
    /\ UNCHANGED <<world, vault, cache, issued, budget>>

\* A period of less than a second divides by zero: the request dies and the
\* browser gets no answer.
Panics(t) ==
    /\ Checks(t, "code") /\ TOTP(Src(tab[t].gate)) /\ Opt(tab[t].gate).period < Second
    /\ tab' = [tab EXCEPT ![t] = Idle]
    /\ UNCHANGED <<world, jar, vault, cache, issued, budget>>

\* Mutant of cached: an entry never grows old.
cachedForever(id) == {e \in {cache[id]} : e.version # Fixed}

\* Store.cached: an entry of at most CacheTTL.
cached(id) == {e \in {cache[id]} : e.version # Fixed /\ e.age <= CacheTTL}

\* secretOf and servicePassword up to Store.Get: no reference, a fresh entry of
\* the cache, or a request to the controller.
Secret(t) ==
    LET refs == References(tab[t].gate, Account(tab[t]))
    IN  /\ Checks(t, "secret")
        /\ \/ /\ SecretOutcome(tab[t]) # "pass"
              /\ Rejected(t, SecretOutcome(tab[t]))
           \/ /\ SecretOutcome(tab[t]) = "pass" /\ refs = {}
              /\ Goes(t, Fixed) /\ UNCHANGED jar
           \/ /\ SecretOutcome(tab[t]) = "pass"
              /\ \E id \in refs :
                    IF cached(id) # {}
                    THEN \E e \in cached(id) : Goes(t, e.version)
                    ELSE tab' = [tab EXCEPT ![t].at = "asked"]
              /\ UNCHANGED jar
        /\ UNCHANGED <<world, vault, cache, issued, budget>>

\* The controller answers with the blob (after the space, the first time).
Fetch(t) ==
    /\ At(t, "asked")
    /\ \E id \in References(tab[t].gate, Account(tab[t])) :
           tab' = [tab EXCEPT ![t].at = "read", ![t].got = Current(id)]
    /\ UNCHANGED <<world, jar, vault, cache, issued, budget>>

\* Store.remember
Remember(t) ==
    /\ At(t, "read")
    /\ \E id \in References(tab[t].gate, Account(tab[t])) :
           cache' = [cache EXCEPT ![id] = [version |-> tab[t].got, age |-> 0]]
    /\ Goes(t, tab[t].got)
    /\ UNCHANGED <<world, jar, vault, issued, budget>>

\* The controller, the directory, or the roster that burns the code, fails.
Fails(t) ==
    /\ \/ At(t, "asked")
       \/ \E step \in {"bind", "lookup", "reverse"} : Checks(t, step)
       \/ Checks(t, "code") /\ TOTP(Src(tab[t].gate)) /\ CodeOutcome(tab[t], FALSE) = "pass"
    /\ Spend("faults")
    /\ Rejected(t, "unavailable")
    /\ UNCHANGED <<world, vault, cache, issued>>

\* accepted, after every step and the groups.
Accepted(t) ==
    LET c == tab[t]
    IN  /\ At(t, "check") /\ c.todo = <<>>
        /\ IF FinishOutcome(c) # "pass" THEN Rejected(t, FinishOutcome(c)) /\ UNCHANGED issued
           ELSE /\ jar' = Issue(c.gate, SubjectOf(c))
                /\ tab' = [u \in Tabs |->
                              IF u = t THEN Idle
                              ELSE IF tab[u].at = "form" /\ tab[u].gate = c.gate
                              THEN [tab[u] EXCEPT !.fits = FALSE] ELSE tab[u]]
                /\ issued' = issued \cup {[gate |-> c.gate, sub |-> SubjectOf(c),
                                           by |-> c.who, kind |-> c.kind]}
        /\ UNCHANGED <<world, vault, cache, budget>>

(***************************************************************************)
(* The rest of the world                                                   *)
(***************************************************************************)

\* A secret gets a new value, in the controller and where it is checked.
Rotate(id) ==
    /\ Spend("rotate")
    /\ vault' = [vault EXCEPT ![id] = Append(@, 0)]
    /\ UNCHANGED <<world, jar, tab, cache, issued>>

Older(n, most) == IF n < most THEN n + 1 ELSE n

Tick ==
    /\ \A t \in Tabs : tab[t].at \in {"asked", "read"} => tab[t].wait < FetchMax
    /\ tab' = [t \in Tabs |-> IF tab[t].at \in {"asked", "read"}
                              THEN [tab[t] EXCEPT !.wait = @ + 1] ELSE tab[t]]
    /\ vault' = [id \in Secrets |-> [v \in DOMAIN vault[id] |->
                                       Older(vault[id][v], CacheTTL + FetchMax + 1)]]
    /\ cache' = [id \in Secrets |-> IF cache[id].version = Fixed THEN cache[id]
                                    ELSE [cache[id] EXCEPT !.age = Older(@, CacheTTL + 1)]]
    /\ UNCHANGED <<world, jar, issued, budget>>

Init ==
    /\ world \in {w \in Worlds : Reads(w.tree)}
    /\ jar = {}
    /\ tab = [t \in Tabs |-> Idle]
    /\ vault = [id \in world.secrets |-> <<>>]
    /\ cache = [id \in world.secrets |-> [version |-> Fixed, age |-> 0]]
    /\ issued = {}
    /\ budget = [wrong |-> MaxWrong, faults |-> MaxFaults, rotate |-> MaxRotate]

\* What the user and the service do about one tab, faults aside.
TabStep(t) ==
    \/ \E g \in Gates : OpenForm(t, g)
    \/ SubmitStale(t) \/ SubmitBurnt(t)
    \/ \E who \in world.people, kind \in {"right", "wrong", "empty"} : Submit(t, who, kind)
    \/ Step(t) \/ Panics(t) \/ Secret(t) \/ Fetch(t) \/ Remember(t) \/ Accepted(t)

Next ==
    \/ \E t \in Tabs : TabStep(t) \/ SubmitRefused(t) \/ Fails(t)
    \/ \E id \in Secrets : Rotate(id)
    \/ Tick

\* The user goes on until every gate is passed, the service answers, and time
\* passes.
Fairness == (\A t \in Tabs : WF_vars(TabStep(t))) /\ WF_vars(Tick)

Spec == Init /\ [][Next]_vars /\ Fairness

(***************************************************************************)
(* Properties                                                              *)
(***************************************************************************)

\* Who is to be let in at a gate, from the user file and the directory alone.
Entitled(g, p) ==
    IF Src(g).provider = "local" THEN Active(g, p)
    ELSE IF TOTP(Src(g))
    THEN \E u \in UserOf(g, p) : u.active /\ (u.totp # "" \/ u.store # "")
    ELSE Directory(g) =>
             /\ LooksUp(g) => EntryOf(g, p).found = 1
             /\ Opt(g).groups # {} => EntryOf(g, p).groups \cap Opt(g).groups # {}

\* The configurations that validation accepts although a gate cannot work.
Workable ==
    /\ \A g \in Gates : LET s == Src(g) IN
           /\ TOTP(s) => /\ s.from \in Gates /\ ~StaticCode(s.from)
                         /\ Opt(g).digits < 10 /\ Opt(g).period >= Second
           /\ Directory(g) => (LooksUp(g) => Opt(g).search.filter)
           /\ Directory(g) /\ Opt(g).search.bindDN # "" /\ Opt(g).search.store = ""
                  => Opt(g).search.env \in world.tree.environ
    \* identity.from leads to a first gate,
    /\ \E rank \in [Gates -> 1 .. Cardinality(Gates)] :
           \A g \in Gates : Src(g).from # "" => rank[Src(g).from] < rank[g]
    \* and no cookie of one source hides or replaces the session of another.
    /\ \A g, h \in Gates : g # h =>
           Src(h).session \notin ({Src(g).ticket, Src(g).upstream}
                                     \cup IF Enabled(Src(g)) THEN {Src(g).list} ELSE {})

\* The directory can be read and everybody around may pass every gate.
Grounded ==
    /\ Workable /\ world.base /\ world.readable
    /\ \A g \in Gates, p \in world.people : Entitled(g, p)

\* Only verified people have sessions (provider.Run, priorIdentity, accepted):
\* the subject is the one whose right credentials were checked and who is
\* entitled to pass, and at a TOTP gate the one who passed the first gate
\* before, whatever the other tabs did to the cookies meanwhile.  At a gate of
\* static codes it is only known that a right code was typed: whoever has one
\* may post any login with it and be that subject (code.go, static).
VerifiedGenuine ==
    \A i \in issued :
        /\ i.kind = "right"
        /\ i.sub = i.by \/ StaticCode(i.gate)
        /\ Entitled(i.gate, i.by)
        /\ TOTP(Src(i.gate)) => \E j \in issued : j.gate = Src(i.gate).from /\ j.sub = i.sub

\* The answer of somebody entitled, with the right credentials, in a workable
\* configuration.  A code of another version of the secret than the one that
\* the cache or the controller gave does not count as right.
Innocent(c) ==
    /\ c.kind = "right" /\ c.who = Account(c) /\ Entitled(c.gate, c.who)
    /\ Workable /\ world.base /\ world.readable
    /\ TOTP(Src(c.gate)) => c.got = c.typed

\* Nobody is told off, and locked out in the end (rejected, lockSpent), for a
\* failure of the service: the right credentials of an entitled person are
\* never answered with "Invalid credentials" or "Access denied", whatever
\* fails and whichever secret is changed during the check.
Blameless ==
    [][\A t \in Tabs :
          /\ At(t, "check")
          /\ tab'[t].at = "form" /\ tab'[t].told \in {"invalid", "notallowed"}
          => ~Innocent(tab[t])]_vars

\* A secret that was changed in the controller is not handed to a provider
\* (Store.Get) later than cacheTTL and the longest fetch after the change,
\* although fetches overlap and the one that began first may be remembered
\* last.
SecretFresh ==
    [][\A t \in Tabs :
          /\ tab[t].at # "form" /\ tab'[t].at = "check" /\ tab'[t].todo # tab[t].todo
          /\ Head(tab[t].todo) = "secret"
          => \A id \in References(tab[t].gate, Account(tab[t])) :
                 tab'[t].got = Current(id) \/ vault[id][tab'[t].got] <= CacheTTL + FetchMax]_vars

\* In an accepted configuration that can work, a user who goes on trying is
\* past every gate in the end and stays so: the gates do not take each other's
\* sessions and tickets away, across tabs, faults, retries and changed secrets
\* (read, page, submit, issue, cached).
GatesOpen == Grounded => <>[](\A g \in Gates : SignedIn(g))
=============================================================================
