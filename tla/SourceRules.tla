---------------------------- MODULE SourceRules ----------------------------
(***************************************************************************)
(* Which sources and which trees of them the profile store accepts.        *)
(*                                                                         *)
(* Code modelled: internal/config/source.go (the types, sourceDefaults,    *)
(* ParseUsers, Validate and what it calls) and internal/config/profiles.go *)
(* (read, readSources, attachUsers, attachLoginPage, attachJWTKey).        *)
(*                                                                         *)
(* A source is one record.  An absent text is "", an absent section of     *)
(* "providers" is <<>> and a present one <<section>>.  The shape of a text *)
(* (an absolute path, a plain dataset name, an HTTP status) is not spelt   *)
(* out: "malformed" is the set of the settings whose text has not the      *)
(* shape asked for.  Durations are in milliseconds.                        *)
(***************************************************************************)
EXTENDS Integers, Sequences, FiniteSets

Second == 1000
Minute == 60 * Second

sourceDefaults(name) ==
    [name |-> name, uri |-> <<>>,
     session |-> "waf_sid_" \o name, ttl |-> 480 * Minute, renew |-> 0, max |-> 0,
     bind |-> {"subnet", "ua"}, v4 |-> 24, v6 |-> 64,
     ticket |-> "waf_lgn_" \o name, ticketTTL |-> 10 * Minute,
     sessions |-> "", list |-> "waf_sess", listTTL |-> 0, grace |-> 0,
     upstream |-> "", upstreamTTL |-> 0,
     attempts |-> 5, roster |-> [store |-> "redis", prefix |-> "auth:"],
     provider |-> "", section |-> <<>>, from |-> "",
     files |-> [f \in {} |-> <<>>], page |-> "none", malformed |-> {}]

WellFormed(s, setting) == setting \notin s.malformed

Enabled(s) == s.sessions # ""
External(s) == s.provider \in {"jwt", "app"}
Section(s) == s.section[1]
TOTP(s) == s.provider = "code" /\ s.section # <<>> /\ Section(s).kind = "totp"

(***************************************************************************)
(* Source.Validate                                                         *)
(***************************************************************************)

LoginRules(s) ==
    /\ s.uri = <<>> => External(s)
    /\ WellFormed(s, "login.uri")

CookieRules(s) ==
    /\ s.session # "" /\ s.ticket # ""
    /\ s.session # s.ticket
    /\ s.upstream # "" => s.upstream \notin {s.session, s.ticket} /\ s.upstreamTTL >= 0

SessionRules(s) ==
    /\ s.ttl > 0
    /\ s.renew # 0 => s.renew < s.ttl
    /\ s.max # 0 => s.ttl <= s.max
    /\ s.bind \subseteq {"subnet", "ua"}
    /\ s.v4 \in 0 .. 32 /\ s.v6 \in 0 .. 128
    /\ s.ticketTTL > 0

\* What Validate fills in on its way.
Normalised(s) ==
    IF ~Enabled(s) THEN s
    ELSE [s EXCEPT !.listTTL = IF @ <= 0 THEN s.ttl ELSE @,
                   !.grace = IF @ <= 0 THEN 2 * Second ELSE @]

ListRules(s) ==
    Enabled(s) =>
        /\ Normalised(s).listTTL <= s.ttl
        /\ Normalised(s).grace <= 5 * Minute
        /\ WellFormed(s, "list.sessions")
        /\ s.list \notin {"", s.session, s.ticket}

\* validateSearchSecret
SearchSecretRules(search) ==
    search.bindDN # "" => (search.env = "") # (search.store = "")

validateCode(c, from) ==
    \/ /\ c.kind = "totp"
       /\ c.digits \in 6 .. 10 /\ c.period > 0 /\ c.skew \in 0 .. 5
       /\ from # "" /\ c.users # ""
    \/ /\ c.kind = "static"
       /\ c.codes # <<>>
       /\ \A j \in DOMAIN c.codes : c.codes[j].bcrypt

validateLDAP(l) ==
    /\ l.url # ""
    /\ \/ l.bind = "upn" /\ l.suffix # ""
       \/ l.bind = "dn_template" /\ l.template
       \/ l.bind = "search" /\ l.search.base # "" /\ l.search.filter
    /\ l.groups # {} => l.bind = "search"
    /\ SearchSecretRules(l.search)

validateNTLM(n) == n.url # "" /\ n.domain # "" /\ SearchSecretRules(n.search)

HMAC == {"HS256", "HS384", "HS512"}
Algs == HMAC \cup {"RS256", "RS384", "RS512", "ES256", "ES384", "none"}

validateJWT(j, s) ==
    /\ (j.cookie = "") # (j.header = "")
    /\ j.cookie # "" => j.cookie \notin {s.session, s.ticket}
    /\ j.alg \in Algs
    /\ IF j.alg = "none" THEN j.file = "" /\ j.env = ""
       ELSE (j.file = "") # (j.env = "") /\ (j.env # "" => j.alg \in HMAC)
    /\ j.leeway >= 0

validateApp(a, s) ==
    /\ a.cookie \notin {"", s.session, s.ticket, s.list}
    /\ Enabled(s)
    /\ a.login
    /\ \A setting \in {"learn.login", "learn.logout", "learn.success"} :
           WellFormed(s, setting)
    /\ a.from \in {"body.form", "body.json", "args", "header"} /\ a.field # ""

validateProvider(s) ==
    /\ s.from # "" => s.from # s.name /\ TOTP(s)
    /\ s.section # <<>>
    /\ CASE s.provider = "local" -> Section(s).users # ""
         [] s.provider = "code" -> validateCode(Section(s), s.from)
         [] s.provider = "ldap" -> validateLDAP(Section(s))
         [] s.provider = "ntlm" -> validateNTLM(Section(s))
         [] s.provider = "jwt" -> validateJWT(Section(s), s)
         [] s.provider = "app" -> validateApp(Section(s), s)
         [] OTHER -> FALSE

Validate(s) ==
    /\ LoginRules(s) /\ CookieRules(s) /\ SessionRules(s) /\ ListRules(s)
    /\ s.roster.store \in {"redis", "memory"} /\ s.attempts >= 0
    /\ validateProvider(s)

(***************************************************************************)
(* What is read beside source.yaml                                         *)
(***************************************************************************)

UsersFile(s) ==
    IF s.section # <<>> /\ (s.provider = "local" \/ TOTP(s)) THEN Section(s).users ELSE ""

\* ParseUsers: logins are compared without case and blanks; a login is here
\* the person it is of.
ParseUsers(users) ==
    /\ \A i, j \in DOMAIN users : i # j => users[i].login # users[j].login
    /\ \A i \in DOMAIN users :
           /\ users[i].login # "" /\ users[i].bcrypt
           /\ ~(users[i].totp # "" /\ users[i].store # "")

attachUsers(s) ==
    UsersFile(s) # "" => UsersFile(s) \in DOMAIN s.files /\ ParseUsers(s.files[UsersFile(s)])

attachJWTKey(s, environ) ==
    s.provider = "jwt" /\ Section(s).alg # "none" =>
        IF Section(s).file # ""
        THEN Section(s).file \in DOMAIN s.files /\ s.files[Section(s).file] # <<>>
        ELSE Section(s).env \in environ

(***************************************************************************)
(* Store.read                                                              *)
(***************************************************************************)

\* readSources: every source by itself, and login.uri, which routes.
readSources(tree) ==
    /\ \A n \in DOMAIN tree.sources : LET s == tree.sources[n] IN
           attachUsers(s) /\ s.page # "bad" /\ Validate(s) /\ attachJWTKey(s, tree.environ)
    /\ \A n, k \in DOMAIN tree.sources :
           n # k /\ ~External(tree.sources[n]) /\ ~External(tree.sources[k])
               => tree.sources[n].uri # tree.sources[k].uri

KnownSources(tree) ==
    /\ "default" \in DOMAIN tree.profiles
    /\ \A p \in DOMAIN tree.profiles :
           tree.profiles[p] # "" => tree.profiles[p] \in DOMAIN tree.sources
    /\ \A n \in DOMAIN tree.sources :
           tree.sources[n].from # "" => tree.sources[n].from \in DOMAIN tree.sources

\* A source that takes the identity of another one has cookies of its own.
ChainCookies(tree) ==
    \A n \in DOMAIN tree.sources : LET s == tree.sources[n] IN
        s.from # "" => LET from == tree.sources[s.from] IN
            /\ from.session # s.session /\ from.ticket # s.ticket
            /\ ~(Enabled(s) /\ Enabled(from) /\ s.list = from.list)

\* Mutant of OwnCookies: only the ticket cookies are compared.
OwnTicketCookies(tree) ==
    \A n, k \in DOMAIN tree.sources :
        n # k => tree.sources[n].ticket # tree.sources[k].ticket

\* "a session space belongs to exactly one source"
OwnCookies(tree) ==
    \A n, k \in DOMAIN tree.sources :
        n # k => /\ tree.sources[n].session # tree.sources[k].session
                 /\ tree.sources[n].ticket # tree.sources[k].ticket

OneRoster(tree) ==
    \A n, k \in DOMAIN tree.sources : tree.sources[n].roster = tree.sources[k].roster

Reads(tree) ==
    /\ readSources(tree)
    /\ KnownSources(tree)
    /\ ChainCookies(tree)
    /\ OwnCookies(tree)
    /\ OneRoster(tree)
=============================================================================
