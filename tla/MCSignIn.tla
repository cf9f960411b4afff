------------------------------ MODULE MCSignIn ------------------------------
(* The instance of SignIn that TLC checks: see SignIn.cfg. *)
EXTENDS SignIn, TLC

User(login, totp, store, active) ==
    [login |-> login, bcrypt |-> TRUE, totp |-> totp, store |-> store, active |-> active]

NoSearch == [base |-> "", filter |-> FALSE, bindDN |-> "", env |-> "", store |-> ""]
Search(env, store) ==
    [base |-> "dc", filter |-> TRUE, bindDN |-> IF env \o store = "" THEN "" ELSE "svc",
     env |-> env, store |-> store]

Source(name, provider, section) ==
    [sourceDefaults(name) EXCEPT !.uri = <<name>>, !.provider = provider,
                                 !.section = <<section>>]
Local(name, users) ==
    [Source(name, "local", [users |-> "u"]) EXCEPT !.files = "u" :> users]
Totp(name, from, digits, period, users) ==
    [Source(name, "code", [kind |-> "totp", digits |-> digits, period |-> period, skew |-> 1,
                           users |-> "u", codes |-> <<>>])
        EXCEPT !.from = from, !.files = "u" :> users]
Static(name) ==
    Source(name, "code", [kind |-> "static", codes |-> <<[bcrypt |-> TRUE]>>])
Ldap(name, bind, groups, search) ==
    Source(name, "ldap", [url |-> "ldaps", bind |-> bind, suffix |-> "@", template |-> TRUE,
                          groups |-> groups, search |-> search])
Ntlm(name, groups, search) ==
    Source(name, "ntlm", [url |-> "ldaps", domain |-> "d", groups |-> groups,
                          search |-> search])

Entry(found, memberOf, groups) == [found |-> found, memberOf |-> memberOf, groups |-> groups]

World(people, secrets, sources, entry, base, readable) ==
    [tree |-> [sources |-> sources, profiles |-> "default" :> "", environ |-> {"PW"}],
     people |-> people, secrets |-> secrets, entry |-> entry, base |-> base,
     readable |-> readable]
Sound(people, secrets, sources, entry) == World(people, secrets, sources, entry, TRUE, TRUE)

NoEntry == [g \in {} |-> <<>>]
Pwd == <<User("ann", "", "", TRUE), User("bob", "", "", TRUE)>>
Inline == <<User("ann", "inline", "", TRUE), User("bob", "inline", "", TRUE)>>
Stored == <<User("ann", "", "t", TRUE)>>

\* Two gates, the second with a code for the first one's identity.
Chain(digits, period, users) ==
    "a" :> Local("a", Pwd) @@ "b" :> Totp("b", "a", digits, period, users)

Shared == [Local("b", Pwd) EXCEPT !.session = "waf_sid_a"]
Shadowed == [Totp("b", "a", 6, Minute, Inline) EXCEPT !.ticket = "waf_sid_a"]
Mixed == <<User("ann", "", "", TRUE), User("bob", "t", "", FALSE)>>

Members == "ann" :> Entry(1, TRUE, {"g"}) @@ "bob" :> Entry(1, FALSE, {"g"})
Strangers == "ann" :> Entry(1, FALSE, {}) @@ "bob" :> Entry(2, TRUE, {"g"})
                 @@ "cleo" :> Entry(3, TRUE, {"g"})

MCWorlds == {
    Sound({"ann", "bob"}, {}, Chain(6, Minute, Inline), NoEntry),
    Sound({"ann"}, {"t"}, Chain(6, Minute, Stored), NoEntry),
    Sound({"ann"}, {}, Chain(10, Minute, Inline), NoEntry),
    Sound({"ann"}, {}, Chain(6, 1, Inline), NoEntry),
    Sound({"ann"}, {}, "a" :> Local("a", Pwd) @@ "b" :> Shared, NoEntry),
    Sound({"ann"}, {}, "a" :> Local("a", Pwd) @@ "b" :> Shadowed, NoEntry),
    Sound({"ann", "bob"}, {}, "a" :> Local("a", Mixed) @@ "b" :> Totp("b", "a", 6, Minute, Mixed),
          NoEntry),
    Sound({"ann"}, {}, "a" :> Static("a") @@ "b" :> Ldap("b", "upn", {}, NoSearch),
          "b" :> Members),
    Sound({"ann", "bob"}, {}, "a" :> Static("a") @@ "b" :> Totp("b", "a", 6, Minute, Inline),
          NoEntry),
    Sound({"bob"}, {"s"}, "a" :> Ldap("a", "search", {"g"}, Search("", "s")),
          "a" :> Members),
    Sound({"ann", "bob"}, {}, "a" :> Ntlm("a", {"g"}, Search("PW", "")), "a" :> Members),
    Sound({"ann", "bob", "cleo"}, {}, "a" :> Ldap("a", "search", {"g"}, Search("", "")),
          "a" :> Strangers),
    Sound({"ann"}, {}, "a" :> Ntlm("a", {"g"}, NoSearch), "a" :> Members),
    Sound({"ann"}, {}, "a" :> Ntlm("a", {}, NoSearch), "a" :> Members),
    World({"ann"}, {}, "a" :> Ldap("a", "search", {}, Search("", "")), "a" :> Members, TRUE, FALSE),
    World({"ann"}, {}, "a" :> Ldap("a", "search", {}, Search("", "")), "a" :> Members, FALSE, TRUE)
    }
=============================================================================
