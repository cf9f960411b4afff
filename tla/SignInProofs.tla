---------------------------- MODULE SignInProofs ----------------------------
(* Proofs about SignIn, for every value of its constants.                  *)
EXTENDS SignIn, TLAPS

(***************************************************************************)
(* The inductive invariant                                                 *)
(***************************************************************************)

\* What Verify of some provider asks.
StepNames == {"given", "hash", "secret", "code", "bind", "lookup", "reverse"}
\* A tab whose submit is being checked.
Checking == {"check", "asked", "read"}

\* Every tab shows nothing or a form, or waits for a check, at a gate of the tree.
FormOf(c) ==
    /\ c.at = "form"
    /\ c = [at |-> "form", gate |-> c.gate, fits |-> c.fits, told |-> c.told]
    /\ c.gate \in Gates

CheckOf(c) ==
    /\ c.at \in Checking
    /\ c = [at |-> c.at, gate |-> c.gate, who |-> c.who, kind |-> c.kind, prior |-> c.prior,
            todo |-> c.todo, typed |-> c.typed, got |-> c.got, wait |-> c.wait]
    /\ c.gate \in Gates
    /\ c.todo \in Seq(StepNames)
    /\ c.at \in {"asked", "read"} =>
         c.todo # <<>> /\ Head(c.todo) = "secret" /\ SecretOutcome(c) = "pass"

\* A step that the check has still to take.
Left(todo, step) == \E i \in 1 .. Len(todo) : todo[i] = step

\* What the steps that were taken have shown.
ShownLocal(c) ==
    Src(c.gate).provider = "local" =>
        Left(c.todo, "hash") \/ (c.kind = "right" /\ Active(c.gate, c.who))

ShownCode(c) ==
    Src(c.gate).provider = "code" => Left(c.todo, "code") \/ c.kind = "right"

ShownTOTP(c) ==
    TOTP(Src(c.gate)) =>
        /\ Left(c.todo, "secret") \/ SecretOutcome(c) = "pass"
        /\ Left(c.todo, "code") \/ c.who = c.prior
        /\ \E j \in issued : j.gate = Src(c.gate).from /\ j.sub = c.prior

ShownDirectory(c) ==
    Directory(c.gate) =>
        /\ Left(c.todo, "bind") \/ c.kind = "right"
        /\ LooksUp(c.gate) => Left(c.todo, "lookup") \/ EntryOf(c.gate, c.who).found = 1

\* The steps left are the gate's.
OwnSteps(c) ==
    /\ Left(c.todo, "hash") => Src(c.gate).provider = "local"
    /\ Left(c.todo, "lookup") => LooksUp(c.gate)

Shown(c) ==
    /\ ShownLocal(c) /\ ShownCode(c) /\ ShownTOTP(c) /\ ShownDirectory(c)
    /\ OwnSteps(c)

Placed(c) == c = Idle \/ FormOf(c) \/ (CheckOf(c) /\ Shown(c))

Places == {tab[t] : t \in Tabs}
TabsPlaced == /\ tab = [t \in Tabs |-> tab[t]]
              /\ \A c \in Places : Placed(c)

\* The browser has no sessions but those that were issued.
JarIssued ==
    \A k \in jar : k.kind = "session" =>
        \E j \in issued : j.gate = k.src /\ j.sub = k.sub

IInv == Reads(world.tree) /\ TabsPlaced /\ JarIssued /\ VerifiedGenuine

(***************************************************************************)
(* What the world says does not change, and issued sessions stay           *)
(***************************************************************************)

\* While the world stays, so does all that is read from it.
LEMMA SameWorld ==
    ASSUME world' = world
    PROVE  /\ \A g : Src(g)' = Src(g) /\ Opt(g)' = Opt(g) /\ Directory(g)' = Directory(g)
           /\ \A g : LooksUp(g)' = LooksUp(g) /\ StaticCode(g)' = StaticCode(g)
           /\ Gates' = Gates
           /\ \A g, p : Active(g, p)' = Active(g, p)
           /\ \A g, p : UserOf(g, p)' = UserOf(g, p)
           /\ \A g, p : EntryOf(g, p)' = EntryOf(g, p)
           /\ \A g, p : Entitled(g, p)' = Entitled(g, p)
           /\ \A c : SecretOutcome(c)' = SecretOutcome(c)
<1>1. \A g : Src(g)' = Src(g)
  BY DEF Src
<1>2. \A g : Opt(g)' = Opt(g) /\ Directory(g)' = Directory(g)
  BY <1>1 DEF Opt, Directory
<1>3. \A g : LooksUp(g)' = LooksUp(g) /\ StaticCode(g)' = StaticCode(g)
  BY <1>1, <1>2 DEF LooksUp, StaticCode
<1>4. Gates' = Gates
  BY <1>1 DEF Gates
<1>5. \A g, p : UserOf(g, p)' = UserOf(g, p)
  BY <1>1 DEF UserOf
<1>6. \A g, p : Active(g, p)' = Active(g, p)
  BY <1>5 DEF Active
<1>7. \A g, p : EntryOf(g, p)' = EntryOf(g, p)
  BY DEF EntryOf
<1>8. \A g, p : Entitled(g, p)' = Entitled(g, p)
  BY <1>1, <1>2, <1>3, <1>5, <1>6, <1>7 DEF Entitled
<1>9. \A c : SecretOutcome(c)' = SecretOutcome(c)
  BY <1>1, <1>5, <1>6 DEF SecretOutcome
<1> QED
  BY <1>1, <1>2, <1>3, <1>4, <1>5, <1>6, <1>7, <1>8, <1>9

\* What was shown about a check stays shown.
LEMMA PlacedStays ==
    ASSUME world' = world, issued \subseteq issued', NEW c, Placed(c)
    PROVE  Placed(c)'
<1>1. FormOf(c) => FormOf(c)'
  BY SameWorld DEF FormOf
<1>2. CheckOf(c) => CheckOf(c)'
  BY SameWorld DEF CheckOf
<1>3. ShownLocal(c) => ShownLocal(c)'
  BY SameWorld DEF ShownLocal
<1>4. ShownCode(c) => ShownCode(c)'
  BY SameWorld DEF ShownCode
<1>5. ShownTOTP(c) => ShownTOTP(c)'
  BY SameWorld DEF ShownTOTP
<1>6. ShownDirectory(c) => ShownDirectory(c)'
  BY SameWorld DEF ShownDirectory
<1>7. OwnSteps(c) => OwnSteps(c)'
  BY SameWorld DEF OwnSteps
<1> QED
  BY <1>1, <1>2, <1>3, <1>4, <1>5, <1>6, <1>7 DEF Placed, Shown

\* A step changes what its own tab shows, and at most spoils the forms of the
\* others.
Spoils(t) ==
    /\ tab' = [u \in Tabs |-> tab'[u]]
    /\ \A u \in Tabs \ {t} :
         \/ tab'[u] = tab[u]
         \/ tab[u].at = "form" /\ tab'[u] = [tab[u] EXCEPT !.fits = FALSE]

\* A step of one tab keeps the others where they may be.
LEMMA TabsStay ==
    ASSUME TabsPlaced, world' = world, issued \subseteq issued', NEW t \in Tabs,
           Spoils(t), NEW n, tab'[t] = n, Placed(n)
    PROVE  TabsPlaced'
<1>1. \A u \in Tabs : Placed(tab[u])
  BY DEF TabsPlaced, Places
<1> SUFFICES ASSUME NEW u \in Tabs, NEW c, c = tab'[u] PROVE Placed(c)'
  BY DEF TabsPlaced, Places, Spoils
<1>3. CASE u = t
  BY <1>3, PlacedStays
<1>4. CASE c = tab[u]
  BY <1>1, <1>4, PlacedStays
<1>5. CASE tab[u].at = "form" /\ c = [tab[u] EXCEPT !.fits = FALSE]
  <2>1. PICK d : d = tab[u]
    OBVIOUS
  <2>2. FormOf(d)
    <3>1. Placed(d) /\ d.at = "form"
      BY <1>1, <1>5, <2>1
    <3>2. d # Idle
      BY <3>1 DEF Idle
    <3>3. ~CheckOf(d)
      <4>1. CheckOf(d) => d.at \in Checking
        BY DEF CheckOf
      <4> QED
        BY <3>1, <4>1 DEF Checking
    <3> QED
      BY <3>1, <3>2, <3>3 DEF Placed
  <2>3. c = [at |-> "form", gate |-> d.gate, fits |-> FALSE, told |-> d.told]
    BY <1>5, <2>1, <2>2 DEF FormOf
  <2>4. Placed(c)
    BY <2>2, <2>3 DEF FormOf, Placed
  <2> QED
    BY <2>4, PlacedStays
<1> QED
  BY <1>3, <1>4, <1>5 DEF Spoils

\* The jar may lose cookies, and get any but sessions.
LEMMA JarStays ==
    ASSUME JarIssued, issued \subseteq issued', NEW new,
           jar' \subseteq jar \cup new, \A k \in new : k.kind # "session"
    PROVE  JarIssued'
  BY DEF JarIssued

\* The sessions issued so far, when there is none to add.
LEMMA IssuedStay ==
    ASSUME VerifiedGenuine, UNCHANGED <<world, issued>>
    PROVE  VerifiedGenuine'
  BY SameWorld DEF VerifiedGenuine

\* setCookie adds at most one cookie to the jar.
LEMMA WithIn == ASSUME NEW S, NEW c PROVE With(S, c) \subseteq S \cup {c}
  BY DEF With

\* page: the form in its tab, and at most a new ticket.
LEMMA PageFacts ==
    ASSUME TabsPlaced, NEW t \in Tabs, NEW g, NEW rotate, NEW told, Page(t, g, rotate, told)
    PROVE  /\ tab'[t] = Form(g, TRUE, told) /\ Spoils(t)
           /\ jar' \subseteq jar \cup {TicketCookie(g, FALSE)}
<1>1. tab = [u \in Tabs |-> tab[u]]
  BY DEF TabsPlaced
<1>2. PICK n : n = Form(g, TRUE, told)
  OBVIOUS
<1>3. CASE Ticket(g) # {} /\ ~rotate
  <2>1. tab' = [tab EXCEPT ![t] = n] /\ jar' = jar
    BY <1>2, <1>3 DEF Page
  <2> QED
    BY <1>1, <1>2, <2>1 DEF Spoils
<1>4. CASE ~(Ticket(g) # {} /\ ~rotate)
  <2>1. /\ jar' = With(jar, TicketCookie(g, FALSE))
        /\ tab' = [u \in Tabs |->
                     IF u = t THEN n
                     ELSE IF tab[u].at = "form" /\ tab[u].gate = g
                     THEN [tab[u] EXCEPT !.fits = FALSE] ELSE tab[u]]
    BY <1>2, <1>4 DEF Page
  <2>2. tab'[t] = n /\ Spoils(t)
    BY <2>1 DEF Spoils
  <2> QED
    BY <1>2, <2>1, <2>2, WithIn
<1> QED
  BY <1>3, <1>4

\* A form that is shown keeps the invariant.
LEMMA PageStep ==
    ASSUME IInv, NEW t \in Tabs, NEW g \in Gates, NEW rotate, NEW told,
           Page(t, g, rotate, told), UNCHANGED <<world, issued>>
    PROVE  IInv'
<1>1. PICK n : n = Form(g, TRUE, told)
  OBVIOUS
<1>2. Placed(n)
  BY <1>1 DEF Form, Placed, FormOf
<1>3. tab'[t] = n /\ Spoils(t) /\ jar' \subseteq jar \cup {TicketCookie(g, FALSE)}
  BY <1>1, PageFacts DEF IInv
<1>4. TicketCookie(g, FALSE).kind # "session"
  BY DEF TicketCookie, Cookie
<1>5. JarIssued'
  <2>1. PICK new : new = {TicketCookie(g, FALSE)}
    OBVIOUS
  <2>2. jar' \subseteq jar \cup new /\ \A k \in new : k.kind # "session"
    BY <1>3, <1>4, <2>1
  <2>3. JarIssued /\ issued \subseteq issued'
    BY DEF IInv
  <2> QED
    BY <2>2, <2>3, JarStays
<1>6. TabsPlaced'
  BY <1>2, <1>3, TabsStay DEF IInv
<1> QED
  BY <1>5, <1>6, IssuedStay DEF IInv

(***************************************************************************)
(* The steps of a check                                                    *)
(***************************************************************************)

\* Validate: the gates that have a form of their own.
LEMMA GateFacts ==
    ASSUME Reads(world.tree), NEW g \in Gates
    PROVE  /\ Src(g).provider \in {"local", "code", "ldap", "ntlm"}
           /\ TOTP(Src(g)) => Src(g).provider = "code"
           /\ LooksUp(g) => Directory(g)
<1>1. g \in DOMAIN world.tree.sources /\ ~External(Src(g))
  BY DEF Gates
<1>2. validateProvider(Src(g))
  BY <1>1 DEF Reads, readSources, Validate, Src
<1>3. Src(g).provider \in {"local", "code", "ldap", "ntlm"}
  BY <1>1, <1>2 DEF validateProvider, External
<1> QED
  BY <1>3 DEF TOTP, LooksUp, Directory

\* ParseUsers: a person has one record at most.
LEMMA OneUser ==
    ASSUME Reads(world.tree), NEW g \in Gates, NEW p,
           Src(g).provider = "local" \/ TOTP(Src(g)),
           NEW u \in UserOf(g, p), NEW v \in UserOf(g, p)
    PROVE  u = v
<1>1. g \in DOMAIN world.tree.sources
  BY DEF Gates
<1>2. attachUsers(Src(g)) /\ validateProvider(Src(g))
  BY <1>1 DEF Reads, readSources, Validate, Src
<1>3. UsersFile(Src(g)) # ""
  <2>1. CASE Src(g).provider = "local"
    BY <1>2, <2>1 DEF validateProvider, UsersFile
  <2>2. CASE TOTP(Src(g))
    BY <1>2, <2>2 DEF validateProvider, validateCode, UsersFile, TOTP
  <2> QED
    BY <2>1, <2>2
<1>4. PICK file : file = Src(g).files[UsersFile(Src(g))]
  OBVIOUS
<1>5. ParseUsers(file)
  BY <1>2, <1>3, <1>4 DEF attachUsers
<1>6. \A w \in UserOf(g, p) : \E i \in DOMAIN file : file[i].login = p /\ w = file[i]
  BY <1>4 DEF UserOf
<1>7. PICK i \in DOMAIN file : file[i].login = p /\ u = file[i]
  BY <1>6
<1>8. PICK j \in DOMAIN file : file[j].login = p /\ v = file[j]
  BY <1>6
<1>9. i = j
  BY <1>5, <1>7, <1>8 DEF ParseUsers
<1> QED
  BY <1>7, <1>8, <1>9

\* A step that is left and is not the first is left afterwards.
LEMMA LeftTail ==
    ASSUME NEW todo \in Seq(StepNames), todo # <<>>, NEW step, Left(todo, step)
    PROVE  Head(todo) = step \/ Left(Tail(todo), step)
<1>1. PICK i \in 1 .. Len(todo) : todo[i] = step
  BY DEF Left
<1>2. /\ Len(todo) \in Nat \ {0} /\ Head(todo) = todo[1]
      /\ Len(Tail(todo)) = Len(todo) - 1
      /\ \A k \in 1 .. Len(todo) - 1 : Tail(todo)[k] = todo[k + 1]
  OBVIOUS
<1>3. CASE i = 1
  BY <1>1, <1>2, <1>3
<1>4. CASE i # 1
  <2>1. PICK k : k = i - 1
    OBVIOUS
  <2>2. k \in 1 .. Len(todo) - 1 /\ k + 1 = i
    BY <1>1, <1>2, <1>4, <2>1
  <2>3. Tail(todo)[k] = step /\ k \in 1 .. Len(Tail(todo))
    BY <1>1, <1>2, <2>2
  <2> QED
    BY <2>3 DEF Left
<1> QED
  BY <1>3, <1>4

\* What is left afterwards was left before.
LEMMA LeftOfTail ==
    ASSUME NEW todo \in Seq(StepNames), todo # <<>>
    PROVE  /\ Left(todo, Head(todo))
           /\ \A step : Left(Tail(todo), step) => Left(todo, step)
<1>1. /\ Len(todo) \in Nat \ {0} /\ Head(todo) = todo[1]
      /\ Len(Tail(todo)) = Len(todo) - 1
      /\ \A k \in 1 .. Len(todo) - 1 : Tail(todo)[k] = todo[k + 1]
  OBVIOUS
<1>2. 1 \in 1 .. Len(todo)
  BY <1>1
<1>3. \A k \in 1 .. Len(todo) - 1 : k + 1 \in 1 .. Len(todo)
  BY <1>1
<1> QED
  BY <1>1, <1>2, <1>3 DEF Left

\* What is left of two lists of steps is left of one of them.
LEMMA LeftConcat ==
    ASSUME NEW a \in Seq(StepNames), NEW b \in Seq(StepNames), NEW step
    PROVE  Left(a \o b, step) <=> Left(a, step) \/ Left(b, step)
<1>1. /\ Len(a) \in Nat /\ Len(b) \in Nat /\ Len(a \o b) = Len(a) + Len(b)
      /\ \A i \in 1 .. Len(a) : (a \o b)[i] = a[i]
      /\ \A i \in 1 .. Len(b) : (a \o b)[Len(a) + i] = b[i]
  OBVIOUS
<1>2. \A i \in 1 .. Len(a) : i \in 1 .. Len(a \o b)
  BY <1>1
<1>3. \A i \in 1 .. Len(b) : Len(a) + i \in 1 .. Len(a \o b)
  BY <1>1
<1>4. ASSUME NEW i \in 1 .. Len(a \o b), (a \o b)[i] = step, ~Left(a, step)
      PROVE  Left(b, step)
  <2>1. PICK k : k = i - Len(a)
    OBVIOUS
  <2>2. i \notin 1 .. Len(a)
    BY <1>1, <1>4 DEF Left
  <2>3. k \in 1 .. Len(b) /\ i = Len(a) + k
    BY <1>1, <2>1, <2>2
  <2> QED
    BY <1>1, <1>4, <2>3 DEF Left
<1> QED
  BY <1>1, <1>2, <1>3, <1>4 DEF Left

\* Nothing is left of an empty list.
LEMMA NothingLeft == \A step : ~Left(<<>>, step)
  BY DEF Left

\* Verify of every provider begins with all of its steps before it.
LEMMA StepsFacts ==
    ASSUME Reads(world.tree), NEW g \in Gates, NEW p
    PROVE  /\ Steps(g, p) \in Seq(StepNames)
           /\ Src(g).provider = "local" => Left(Steps(g, p), "hash")
           /\ Src(g).provider = "code" => Left(Steps(g, p), "code")
           /\ TOTP(Src(g)) => Left(Steps(g, p), "secret")
           /\ Directory(g) => Left(Steps(g, p), "bind")
           /\ LooksUp(g) <=> Left(Steps(g, p), "lookup")
           /\ Left(Steps(g, p), "hash") => Src(g).provider = "local"
<1>1. /\ Src(g).provider \in {"local", "code", "ldap", "ntlm"}
      /\ TOTP(Src(g)) => Src(g).provider = "code"
      /\ LooksUp(g) => Directory(g)
  BY GateFacts
<1>2. CASE Src(g).provider = "local"
  <2>1. Steps(g, p) = <<"hash">>
    BY <1>2 DEF Steps
  <2>2. /\ Left(<<"hash">>, "hash") /\ <<"hash">> \in Seq(StepNames)
        /\ ~Left(<<"hash">>, "lookup")
    BY DEF Left, StepNames
  <2> QED
    BY <1>1, <1>2, <2>1, <2>2 DEF Directory
<1>3. CASE TOTP(Src(g))
  <2>1. Steps(g, p) = <<"given", "secret", "code">>
    BY <1>1, <1>3 DEF Steps
  <2>2. PICK q : q = <<"given", "secret", "code">>
    OBVIOUS
  <2>3. /\ q \in Seq(StepNames) /\ Len(q) = 3
        /\ q[1] = "given" /\ q[2] = "secret" /\ q[3] = "code"
    BY <2>2 DEF StepNames
  <2>4. Left(q, "secret") /\ Left(q, "code") /\ ~Left(q, "hash") /\ ~Left(q, "lookup")
    BY <2>3 DEF Left
  <2> QED
    BY <1>1, <1>3, <2>1, <2>2, <2>3, <2>4 DEF Directory
<1>4. CASE Src(g).provider = "code" /\ ~TOTP(Src(g))
  <2>1. Steps(g, p) = <<"given", "code">>
    BY <1>4 DEF Steps
  <2>2. PICK q : q = <<"given", "code">>
    OBVIOUS
  <2>3. q \in Seq(StepNames) /\ Len(q) = 2 /\ q[1] = "given" /\ q[2] = "code"
    BY <2>2 DEF StepNames
  <2>4. Left(q, "code") /\ ~Left(q, "hash") /\ ~Left(q, "lookup")
    BY <2>3 DEF Left
  <2> QED
    BY <1>1, <1>4, <2>1, <2>2, <2>3, <2>4 DEF Directory
<1>5. CASE Directory(g)
  <2>1. Src(g).provider \notin {"local", "code"} /\ ~TOTP(Src(g))
    BY <1>1, <1>5 DEF Directory
  <2>2. CASE ~LooksUp(g)
    <3>1. Steps(g, p) = <<"given", "bind">>
      BY <2>1, <2>2 DEF Steps
    <3>2. PICK q : q = <<"given", "bind">>
      OBVIOUS
    <3>3. q \in Seq(StepNames) /\ Len(q) = 2 /\ q[1] = "given" /\ q[2] = "bind"
      BY <3>2 DEF StepNames
    <3>4. Left(q, "bind") /\ ~Left(q, "hash") /\ ~Left(q, "lookup")
      BY <3>3 DEF Left
    <3> QED
      BY <2>1, <2>2, <3>1, <3>2, <3>3, <3>4
  <2>3. CASE LooksUp(g)
    <3>1. PICK a : a = IF Src(g).provider = "ldap"
                       THEN <<"given", "secret", "lookup", "bind">>
                       ELSE <<"given", "bind", "secret", "lookup">>
      OBVIOUS
    <3>2. PICK b \in {<<>>, <<"reverse">>, <<"secret", "reverse">>} : Steps(g, p) = a \o b
      BY <2>1, <2>3, <3>1 DEF Steps
    <3>3. b \in Seq(StepNames) /\ ~Left(b, "hash")
      <4>1. <<"reverse">> \in Seq(StepNames) /\ <<>> \in Seq(StepNames)
        BY DEF StepNames
      <4>2. <<"secret", "reverse">> \in Seq(StepNames)
        BY DEF StepNames
      <4>3. ~Left(<<>>, "hash")
        BY NothingLeft
      <4>4. ~Left(<<"reverse">>, "hash")
        BY DEF Left
      <4>5. ~Left(<<"secret", "reverse">>, "hash")
        <5>1. PICK q : q = <<"secret", "reverse">>
          OBVIOUS
        <5>2. Len(q) = 2 /\ q[1] = "secret" /\ q[2] = "reverse"
          BY <5>1
        <5> QED
          BY <5>1, <5>2 DEF Left
      <4> QED
        BY <3>2, <4>1, <4>2, <4>3, <4>4, <4>5
    <3>4. a \in Seq(StepNames) /\ Len(a) = 4 /\ (a[3] = "lookup" \/ a[4] = "lookup")
          /\ (a[2] = "bind" \/ a[4] = "bind")
          /\ a[1] # "hash" /\ a[2] # "hash" /\ a[3] # "hash" /\ a[4] # "hash"
      <4>1. CASE Src(g).provider = "ldap"
        <5>1. a = <<"given", "secret", "lookup", "bind">>
          BY <3>1, <4>1
        <5> QED
          BY <5>1 DEF StepNames
      <4>2. CASE Src(g).provider # "ldap"
        <5>1. a = <<"given", "bind", "secret", "lookup">>
          BY <3>1, <4>2
        <5> QED
          BY <5>1 DEF StepNames
      <4> QED
        BY <4>1, <4>2
    <3>5. Left(a, "bind") /\ Left(a, "lookup") /\ ~Left(a, "hash")
      BY <3>4 DEF Left
    <3>6. Left(a \o b, "bind") /\ Left(a \o b, "lookup") /\ ~Left(a \o b, "hash")
      BY <3>3, <3>4, <3>5, LeftConcat
    <3>7. a \o b \in Seq(StepNames)
      BY <3>3, <3>4
    <3> QED
      BY <2>1, <2>3, <3>2, <3>6, <3>7
  <2> QED
    BY <2>2, <2>3
<1> QED
  BY <1>1, <1>2, <1>3, <1>4, <1>5 DEF Directory

\* What a tab shows, by the place it is at.
LEMMA PlaceFacts ==
    ASSUME TabsPlaced, NEW t \in Tabs
    PROVE  /\ Placed(tab[t])
           /\ At(t, "form") => FormOf(tab[t])
           /\ tab[t].at \in Checking => CheckOf(tab[t]) /\ Shown(tab[t])
<1>1. Placed(tab[t])
  BY DEF TabsPlaced, Places
<1>2. FormOf(tab[t]) => tab[t].at = "form"
  BY DEF FormOf
<1>3. CheckOf(tab[t]) => tab[t].at \in Checking
  BY DEF CheckOf
<1>4. tab[t] = Idle => tab[t].at = "idle"
  BY DEF Idle
<1> QED
  BY <1>1, <1>2, <1>3, <1>4 DEF Placed, At, Checking

\* A check that waits for the secrets keeps what was shown.
LEMMA SameCheck ==
    ASSUME NEW c, CheckOf(c), Shown(c), NEW n,
           n.gate = c.gate, n.who = c.who, n.kind = c.kind, n.prior = c.prior, n.todo = c.todo,
           n = [at |-> n.at, gate |-> n.gate, who |-> n.who, kind |-> n.kind,
                prior |-> n.prior, todo |-> n.todo, typed |-> n.typed, got |-> n.got,
                wait |-> n.wait],
           n.at \in Checking,
           n.at \in {"asked", "read"} =>
             c.todo # <<>> /\ Head(c.todo) = "secret" /\ SecretOutcome(c) = "pass"
    PROVE  Placed(n)
<1>1. SecretOutcome(n) = SecretOutcome(c)
  BY DEF SecretOutcome
<1>2. CheckOf(n)
  BY <1>1 DEF CheckOf
<1>3. ShownLocal(n) /\ ShownCode(n)
  BY DEF Shown, ShownLocal, ShownCode
<1>4. ShownTOTP(n)
  BY <1>1 DEF Shown, ShownTOTP
<1>5. ShownDirectory(n) /\ OwnSteps(n)
  BY DEF Shown, ShownDirectory, OwnSteps
<1> QED
  BY <1>2, <1>3, <1>4, <1>5 DEF Placed, Shown

\* What a step that passes has shown.
Passed(c) ==
    /\ c.todo # <<>>
    /\ Head(c.todo) = "hash" => c.kind = "right" /\ Active(c.gate, c.who)
    /\ Head(c.todo) = "secret" /\ TOTP(Src(c.gate)) => SecretOutcome(c) = "pass"
    /\ Head(c.todo) = "code" => c.kind = "right" /\ (TOTP(Src(c.gate)) => c.who = c.prior)
    /\ Head(c.todo) = "bind" => c.kind = "right"
    /\ Head(c.todo) = "lookup" => EntryOf(c.gate, c.who).found = 1

\* A check whose first step passed goes on, and has shown that step too.
LEMMA NextCheck ==
    ASSUME NEW c, CheckOf(c), Shown(c), Passed(c), NEW got,
           NEW n, n = [c EXCEPT !.at = "check", !.todo = Tail(c.todo), !.got = got, !.wait = 0]
    PROVE  Placed(n)
<1>1. n = [at |-> "check", gate |-> c.gate, who |-> c.who, kind |-> c.kind, prior |-> c.prior,
           todo |-> Tail(c.todo), typed |-> c.typed, got |-> got, wait |-> 0]
  <2>1. PICK gate, who, kind, prior, todo, typed, at, old, wait :
          c = [at |-> at, gate |-> gate, who |-> who, kind |-> kind, prior |-> prior,
               todo |-> todo, typed |-> typed, got |-> old, wait |-> wait]
    BY DEF CheckOf
  <2> QED
    BY <2>1
<1>2. /\ n.at = "check" /\ n.gate = c.gate /\ n.who = c.who /\ n.kind = c.kind
      /\ n.prior = c.prior /\ n.todo = Tail(c.todo) /\ n.typed = c.typed
      /\ n.got = got /\ n.wait = 0
  BY <1>1
<1>3. c.todo \in Seq(StepNames) /\ c.todo # <<>> /\ Tail(c.todo) \in Seq(StepNames)
  BY DEF CheckOf, Passed
<1>4. \A step : Left(c.todo, step) => Head(c.todo) = step \/ Left(n.todo, step)
  BY <1>2, <1>3, LeftTail
<1>5. CheckOf(n)
  <2>1. n = [at |-> n.at, gate |-> n.gate, who |-> n.who, kind |-> n.kind, prior |-> n.prior,
             todo |-> n.todo, typed |-> n.typed, got |-> n.got, wait |-> n.wait]
    BY <1>1, <1>2
  <2>2. n.at \in Checking /\ n.at \notin {"asked", "read"} /\ n.gate \in Gates
    BY <1>2 DEF CheckOf, Checking
  <2> QED
    BY <1>2, <1>3, <2>1, <2>2 DEF CheckOf
<1>6. ShownLocal(n)
  BY <1>2, <1>4 DEF Shown, ShownLocal, Passed
<1>7. ShownCode(n)
  BY <1>2, <1>4 DEF Shown, ShownCode, Passed
<1>8. ShownTOTP(n)
  <2>1. SecretOutcome(n) = SecretOutcome(c)
    BY <1>2 DEF SecretOutcome
  <2> QED
    BY <1>2, <1>4, <2>1 DEF Shown, ShownTOTP, Passed
<1>9. ShownDirectory(n)
  BY <1>2, <1>4 DEF Shown, ShownDirectory, Passed
<1>10. OwnSteps(n)
  BY <1>2, <1>3, LeftOfTail DEF Shown, OwnSteps
<1> QED
  BY <1>5, <1>6, <1>7, <1>8, <1>9, <1>10 DEF Placed, Shown

\* A step that changes the state of its own tab only.
LEMMA OwnTab ==
    ASSUME IInv, UNCHANGED <<world, jar, issued>>, NEW t \in Tabs, NEW n, Placed(n),
           tab' = [tab EXCEPT ![t] = n]
    PROVE  IInv'
<1>1. tab = [u \in Tabs |-> tab[u]]
  BY DEF IInv, TabsPlaced
<1>2. tab'[t] = n /\ Spoils(t)
  BY <1>1 DEF Spoils
<1>3. TabsPlaced'
  BY <1>2, TabsStay DEF IInv
<1>4. JarIssued'
  BY DEF IInv, JarIssued
<1> QED
  BY <1>3, <1>4, IssuedStay DEF IInv

\* A step of Verify that passes.
LEMMA GoesStep ==
    ASSUME IInv, UNCHANGED <<world, jar, issued>>, NEW t \in Tabs, tab[t].at \in Checking,
           NEW got, Goes(t, got), Passed(tab[t])
    PROVE  IInv'
<1>1. PICK c : c = tab[t]
  OBVIOUS
<1>2. PICK n : n = [c EXCEPT !.at = "check", !.todo = Tail(c.todo), !.got = got, !.wait = 0]
  OBVIOUS
<1>3. tab' = [tab EXCEPT ![t] = n]
  BY <1>1, <1>2 DEF Goes
<1>4. CheckOf(c) /\ Shown(c) /\ Passed(c)
  BY <1>1, PlaceFacts DEF IInv
<1>5. Placed(n)
  BY <1>2, <1>4, NextCheck
<1> QED
  BY <1>3, <1>5, OwnTab

\* An answer that shows the form again.
LEMMA RejectedStep ==
    ASSUME IInv, UNCHANGED <<world, issued>>, NEW t \in Tabs, tab[t].at \in Checking,
           NEW told, Rejected(t, told)
    PROVE  IInv'
<1>1. tab[t].gate \in Gates
  BY PlaceFacts DEF IInv, CheckOf
<1> QED
  BY <1>1, PageStep DEF Rejected

(***************************************************************************)
(* The actions                                                             *)
(***************************************************************************)

\* The form: opened, or refused before the check.
LEMMA FormStep ==
    ASSUME IInv, NEW t \in Tabs,
           \/ \E g \in Gates : OpenForm(t, g)
           \/ SubmitStale(t) \/ SubmitBurnt(t) \/ SubmitRefused(t)
    PROVE  IInv'
<1>1. CASE \E g \in Gates : OpenForm(t, g)
  BY <1>1, PageStep DEF OpenForm
<1>2. At(t, "form") => tab[t].gate \in Gates
  BY PlaceFacts DEF IInv, FormOf
<1>3. CASE SubmitStale(t)
  BY <1>2, <1>3, PageStep DEF SubmitStale
<1>4. CASE SubmitBurnt(t)
  BY <1>2, <1>4, PageStep DEF SubmitBurnt
<1>5. CASE SubmitRefused(t)
  BY <1>2, <1>5, PageStep DEF SubmitRefused
<1> QED
  BY <1>1, <1>3, <1>4, <1>5

\* submit up to the check: at a TOTP gate the subject is one who passed the
\* first gate.
LEMMA SubmitStep ==
    ASSUME IInv, NEW t \in Tabs, NEW who, NEW kind, Submit(t, who, kind)
    PROVE  IInv'
<1>1. PICK g : g = tab[t].gate
  OBVIOUS
<1>2. g \in Gates /\ UNCHANGED <<world, issued>>
  BY <1>1, PlaceFacts DEF IInv, FormOf, Submit
<1>3. CASE TOTP(Src(g)) /\ Prior(g) = {}
  <2>1. Page(t, g, TRUE, "firstgate")
    BY <1>1, <1>3 DEF Submit
  <2> QED
    BY <1>2, <2>1, PageStep
<1>4. CASE ~(TOTP(Src(g)) /\ Prior(g) = {})
  <2>1. jar' = With(jar, TicketCookie(g, TRUE))
    BY <1>1, <1>4 DEF Submit
  <2>2. PICK prior \in Beside(g) :
           \E typed : tab' = [tab EXCEPT ![t] =
                       [at |-> "check", gate |-> g, who |-> who, kind |-> kind,
                        prior |-> prior, todo |-> Steps(g, who), typed |-> typed,
                        got |-> Fixed, wait |-> 0]]
    BY <1>1, <1>4 DEF Submit
  <2>3. PICK typed, n :
          /\ n = [at |-> "check", gate |-> g, who |-> who, kind |-> kind, prior |-> prior,
                  todo |-> Steps(g, who), typed |-> typed, got |-> Fixed, wait |-> 0]
          /\ tab' = [tab EXCEPT ![t] = n]
    BY <2>2
  <2>4. /\ n.at = "check" /\ n.gate = g /\ n.prior = prior /\ n.todo = Steps(g, who)
        /\ n = [at |-> n.at, gate |-> n.gate, who |-> n.who, kind |-> n.kind,
                prior |-> n.prior, todo |-> n.todo, typed |-> n.typed, got |-> n.got,
                wait |-> n.wait]
    BY <2>3
  <2>5. /\ n.todo \in Seq(StepNames)
        /\ Src(g).provider = "local" => Left(n.todo, "hash")
        /\ Src(g).provider = "code" => Left(n.todo, "code")
        /\ TOTP(Src(g)) => Left(n.todo, "secret") /\ Src(g).provider = "code"
        /\ Directory(g) => Left(n.todo, "bind")
        /\ LooksUp(g) <=> Left(n.todo, "lookup")
        /\ Left(n.todo, "hash") => Src(g).provider = "local"
    BY <1>2, <2>4, StepsFacts, GateFacts DEF IInv
  <2>6. CheckOf(n)
    BY <1>2, <2>4, <2>5 DEF CheckOf, Checking
  <2>7. TOTP(Src(g)) => \E j \in issued : j.gate = Src(g).from /\ j.sub = prior
    <3> SUFFICES ASSUME TOTP(Src(g)) PROVE \E j \in issued : j.gate = Src(g).from /\ j.sub = prior
      OBVIOUS
    <3>1. prior \in Prior(g)
      BY DEF Beside
    <3>2. PICK k \in SessionAt(Src(g).from, Src(g).uri) : prior = k.sub
      BY <3>1 DEF Prior
    <3>3. k \in jar /\ k.kind = "session" /\ k.src = Src(g).from
      BY <3>2 DEF SessionAt, Sent
    <3> QED
      BY <3>2, <3>3 DEF IInv, JarIssued
  <2>8. Shown(n)
    BY <2>4, <2>5, <2>7 DEF Shown, ShownLocal, ShownCode, ShownTOTP, ShownDirectory, OwnSteps
  <2>9. TabsPlaced'
    <3>1. tab = [u \in Tabs |-> tab[u]]
      BY DEF IInv, TabsPlaced
    <3>2. tab'[t] = n /\ Spoils(t)
      BY <2>3, <3>1 DEF Spoils
    <3>3. Placed(n)
      BY <2>6, <2>8 DEF Placed
    <3> QED
      BY <1>2, <3>2, <3>3, TabsStay DEF IInv
  <2>10. JarIssued'
    <3>1. PICK new : new = {TicketCookie(g, TRUE)}
      OBVIOUS
    <3>2. jar' \subseteq jar \cup new
      BY <2>1, <3>1, WithIn
    <3>3. TicketCookie(g, TRUE).kind = "ticket"
      BY DEF TicketCookie, Cookie
    <3>4. \A k \in new : k.kind # "session"
      BY <3>1, <3>3
    <3>5. JarIssued /\ issued \subseteq issued'
      BY <1>2 DEF IInv
    <3> QED
      BY <3>2, <3>4, <3>5, JarStays
  <2> QED
    BY <1>2, <2>9, <2>10, IssuedStay DEF IInv
<1> QED
  BY <1>3, <1>4

\* Every step of Verify shows what it checks.
LEMMA StepShows ==
    ASSUME IInv, NEW t \in Tabs, At(t, "check"), tab[t].todo # <<>>,
           Head(tab[t].todo) # "secret", NEW high, StepOutcome(tab[t], high) = "pass"
    PROVE  Passed(tab[t])
<1>1. PICK c : c = tab[t]
  OBVIOUS
<1>2. CheckOf(c) /\ c.todo # <<>> /\ Head(c.todo) # "secret" /\ StepOutcome(c, high) = "pass"
  BY <1>1, PlaceFacts DEF IInv, At, Checking
<1>3. Head(c.todo) = "hash" => c.kind = "right" /\ Active(c.gate, c.who)
  BY <1>2 DEF StepOutcome
<1>4. Head(c.todo) = "bind" => c.kind = "right"
  BY <1>2 DEF StepOutcome
<1>5. Head(c.todo) = "lookup" => EntryOf(c.gate, c.who).found = 1
  <2> SUFFICES ASSUME Head(c.todo) = "lookup" PROVE EntryOf(c.gate, c.who).found = 1
    OBVIOUS
  <2>1. LookupOutcome(c) = "pass"
    BY <1>2 DEF StepOutcome
  <2> QED
    BY <2>1 DEF LookupOutcome
<1>6. Head(c.todo) = "code" => c.kind = "right" /\ (TOTP(Src(c.gate)) => c.who = c.prior)
  <2> SUFFICES ASSUME Head(c.todo) = "code"
               PROVE  c.kind = "right" /\ (TOTP(Src(c.gate)) => c.who = c.prior)
    OBVIOUS
  <2>1. CodeOutcome(c, high) = "pass"
    BY <1>2 DEF StepOutcome
  <2> QED
    BY <2>1 DEF CodeOutcome
<1> QED
  BY <1>1, <1>2, <1>3, <1>4, <1>5, <1>6, Zenon DEF Passed

\* Verify: its steps, a failure of one, and the secrets they need.
LEMMA VerifyStep ==
    ASSUME IInv, NEW t \in Tabs,
           Step(t) \/ Panics(t) \/ Secret(t) \/ Fetch(t) \/ Remember(t) \/ Fails(t)
    PROVE  IInv'
<1>1. PICK c : c = tab[t]
  OBVIOUS
<1>2. c.at \in Checking
  BY <1>1 DEF Step, Panics, Secret, Fetch, Remember, Fails, Checks, At, Checking
<1>3. UNCHANGED <<world, issued>>
  BY DEF Step, Panics, Secret, Fetch, Remember, Fails
<1>4. CheckOf(c) /\ Shown(c)
  BY <1>1, <1>2, PlaceFacts DEF IInv
<1>5. ASSUME NEW told, Rejected(t, told) PROVE IInv'
  BY <1>1, <1>2, <1>3, <1>5, RejectedStep
<1>6. ASSUME NEW got, Goes(t, got), UNCHANGED jar, Passed(c) PROVE IInv'
  BY <1>1, <1>2, <1>3, <1>6, GoesStep
<1>7. ASSUME NEW n, Placed(n), tab' = [tab EXCEPT ![t] = n], UNCHANGED jar PROVE IInv'
  BY <1>3, <1>7, OwnTab
<1>8. CASE Step(t)
  <2>1. PICK high : IF StepOutcome(c, high) = "pass" THEN Goes(t, c.got) /\ UNCHANGED jar
                    ELSE Rejected(t, StepOutcome(c, high))
    BY <1>1, <1>8 DEF Step
  <2>2. CASE StepOutcome(c, high) = "pass"
    BY <1>1, <1>6, <1>8, <2>1, <2>2, StepShows DEF Step
  <2>3. CASE StepOutcome(c, high) # "pass"
    BY <1>5, <2>1, <2>3
  <2> QED
    BY <2>2, <2>3
<1>9. CASE Panics(t)
  <2>1. Placed(Idle)
    BY DEF Placed
  <2> QED
    BY <1>7, <1>9, <2>1 DEF Panics
<1>10. CASE Secret(t)
  <2>1. At(t, "check") /\ c.todo # <<>> /\ Head(c.todo) = "secret"
    BY <1>1, <1>10 DEF Secret, Checks
  <2>2. CASE SecretOutcome(c) # "pass" /\ Rejected(t, SecretOutcome(c))
    BY <1>5, <2>2
  <2>3. ASSUME SecretOutcome(c) = "pass", NEW got, Goes(t, got), UNCHANGED jar PROVE IInv'
    <3>1. Passed(c)
      BY <2>1, <2>3 DEF Passed
    <3> QED
      BY <1>6, <2>3, <3>1
  <2>4. ASSUME SecretOutcome(c) = "pass", tab' = [tab EXCEPT ![t].at = "asked"], UNCHANGED jar
        PROVE  IInv'
    <3>1. PICK n : n = [c EXCEPT !.at = "asked"]
      OBVIOUS
    <3>2. n = [at |-> "asked", gate |-> c.gate, who |-> c.who, kind |-> c.kind,
               prior |-> c.prior, todo |-> c.todo, typed |-> c.typed, got |-> c.got,
               wait |-> c.wait]
      BY <1>4, <3>1 DEF CheckOf
    <3>3. Placed(n)
      BY <1>4, <2>1, <2>4, <3>2, SameCheck DEF Checking
    <3>4. tab' = [tab EXCEPT ![t] = n]
      BY <1>1, <2>4, <3>1
    <3> QED
      BY <1>7, <2>4, <3>3, <3>4
  <2> QED
    BY <1>1, <1>10, <2>2, <2>3, <2>4 DEF Secret
<1>11. CASE Fetch(t)
  <2>1. PICK v : tab' = [tab EXCEPT ![t].at = "read", ![t].got = v]
    BY <1>11 DEF Fetch
  <2>2. PICK n : n = [c EXCEPT !.at = "read", !.got = v]
    OBVIOUS
  <2>3. n = [at |-> "read", gate |-> c.gate, who |-> c.who, kind |-> c.kind,
             prior |-> c.prior, todo |-> c.todo, typed |-> c.typed, got |-> v,
             wait |-> c.wait]
    BY <1>4, <2>2 DEF CheckOf
  <2>4. c.at = "asked" /\ UNCHANGED jar
    BY <1>1, <1>11 DEF Fetch, At
  <2>5. Placed(n)
    <3>1. c.todo # <<>> /\ Head(c.todo) = "secret" /\ SecretOutcome(c) = "pass"
      BY <1>4, <2>4 DEF CheckOf
    <3> QED
      BY <1>4, <2>3, <3>1, SameCheck DEF Checking
  <2>6. tab' = [tab EXCEPT ![t] = n]
    BY <1>1, <2>1, <2>2
  <2> QED
    BY <1>7, <2>4, <2>5, <2>6
<1>12. CASE Remember(t)
  <2>1. c.at = "read" /\ Goes(t, c.got) /\ UNCHANGED jar
    BY <1>1, <1>12 DEF Remember, At
  <2>2. c.todo # <<>> /\ Head(c.todo) = "secret" /\ SecretOutcome(c) = "pass"
    BY <1>4, <2>1 DEF CheckOf
  <2>3. Passed(c)
    BY <2>2 DEF Passed
  <2> QED
    BY <1>6, <2>1, <2>3
<1>13. CASE Fails(t)
  BY <1>5, <1>13 DEF Fails
<1> QED
  BY <1>8, <1>9, <1>10, <1>11, <1>12, <1>13

\* A check with no step left has shown that the person is entitled and who it
\* is.
LEMMA AllShown ==
    ASSUME IInv, NEW c, CheckOf(c), Shown(c), c.todo = <<>>, FinishOutcome(c) = "pass"
    PROVE  /\ c.kind = "right"
           /\ SubjectOf(c) = c.who \/ StaticCode(c.gate)
           /\ Entitled(c.gate, c.who)
           /\ TOTP(Src(c.gate)) => \E j \in issued : j.gate = Src(c.gate).from /\ j.sub = SubjectOf(c)
<1>1. \A step : ~Left(c.todo, step)
  BY NothingLeft
<1>2. PICK g : g = c.gate
  OBVIOUS
<1>3. /\ g \in Gates /\ Src(g).provider \in {"local", "code", "ldap", "ntlm"}
      /\ TOTP(Src(g)) => Src(g).provider = "code"
      /\ LooksUp(g) => Directory(g)
  BY <1>2, GateFacts DEF CheckOf, IInv
<1>4. c.kind = "right"
  <2>1. Src(g).provider \in {"local", "code"} \/ Directory(g)
    BY <1>3 DEF Directory
  <2> QED
    BY <1>1, <1>2, <2>1 DEF Shown, ShownLocal, ShownCode, ShownDirectory
<1>5. TOTP(Src(g)) => /\ SecretOutcome(c) = "pass" /\ c.who = c.prior
                      /\ \E j \in issued : j.gate = Src(g).from /\ j.sub = c.prior
  BY <1>1, <1>2 DEF Shown, ShownTOTP
<1>6. SubjectOf(c) = c.who \/ StaticCode(g)
  BY <1>2, <1>5 DEF SubjectOf, Account
<1>7. TOTP(Src(g)) => \E j \in issued : j.gate = Src(g).from /\ j.sub = SubjectOf(c)
  BY <1>5, <1>6 DEF StaticCode
<1>8. Entitled(g, c.who)
  <2>1. CASE Src(g).provider = "local"
    <3>1. Active(g, c.who)
      BY <1>1, <1>2, <2>1 DEF Shown, ShownLocal
    <3> QED
      BY <2>1, <3>1 DEF Entitled
  <2>2. CASE TOTP(Src(g))
    <3>1. /\ Active(g, c.who)
          /\ \E u \in UserOf(g, c.who) : u.totp # "" \/ u.store # ""
      BY <1>2, <1>5, <2>2 DEF SecretOutcome
    <3>2. PICK u \in UserOf(g, c.who) : u.totp # "" \/ u.store # ""
      BY <3>1
    <3>3. PICK v \in UserOf(g, c.who) : v.active
      BY <3>1 DEF Active
    <3>4. u = v
      BY <1>3, <2>2, OneUser DEF IInv
    <3>5. u.active
      BY <3>3, <3>4
    <3>6. \E w \in UserOf(g, c.who) : w.active /\ (w.totp # "" \/ w.store # "")
      BY <3>2, <3>5, Zenon
    <3> QED
      BY <1>3, <2>2, <3>6 DEF Entitled
  <2>3. CASE Src(g).provider = "code" /\ ~TOTP(Src(g))
    BY <2>3 DEF Entitled, Directory
  <2>4. CASE Directory(g)
    <3>1. Src(g).provider # "local" /\ ~TOTP(Src(g))
      BY <1>3, <2>4 DEF Directory
    <3>2. LooksUp(g) => EntryOf(g, c.who).found = 1
      BY <1>1, <1>2, <2>4 DEF Shown, ShownDirectory
    <3>3. GroupsAllow(g, IF LooksUp(g) THEN EntryOf(g, c.who).groups ELSE {})
      BY <1>2, <2>4 DEF FinishOutcome
    <3>4. Opt(g).groups # {} => EntryOf(g, c.who).groups \cap Opt(g).groups # {}
      <4> SUFFICES ASSUME Opt(g).groups # {}
                   PROVE  EntryOf(g, c.who).groups \cap Opt(g).groups # {}
        OBVIOUS
      <4>1. Opt(g).groups \cap (IF LooksUp(g) THEN EntryOf(g, c.who).groups ELSE {}) # {}
        BY <3>3 DEF GroupsAllow
      <4>2. LooksUp(g)
        BY <4>1
      <4> QED
        BY <4>1, <4>2
    <3> QED
      BY <3>1, <3>2, <3>4 DEF Entitled
  <2> QED
    BY <1>3, <2>1, <2>2, <2>3, <2>4 DEF Directory
<1> QED
  BY <1>2, <1>4, <1>6, <1>7, <1>8

\* issue: the only session that enters the jar is the one that is issued.
LEMMA IssueIn ==
    ASSUME NEW g, NEW sub, NEW k \in Issue(g, sub), k.kind = "session"
    PROVE  k \in jar \/ (k.src = g /\ k.sub = sub)
<1> DEFINE s == Src(g)
           new == Cookie(s.session, Root, "session", g, sub, FALSE)
           in == With(jar, new)
           cleared == Without(in, s.ticket, s.uri)
           record == Cookie(s.list, Root, "record", g, sub, FALSE)
           listed == IF Enabled(s) THEN With(cleared, record) ELSE cleared
           identity == Cookie(s.upstream, Root, "identity", g, sub, FALSE)
<1>1. Issue(g, sub) = IF s.upstream # "" THEN With(listed, identity) ELSE listed
  BY DEF Issue
<1>2. new.src = g /\ new.sub = sub /\ record.kind = "record" /\ identity.kind = "identity"
  BY DEF Cookie
<1>3. in \subseteq jar \cup {new}
  BY WithIn
<1>4. cleared \subseteq in
  BY DEF Without
<1>5. listed \subseteq cleared \cup {record}
  <2>1. PICK S, r : S = cleared /\ r = record
    OBVIOUS
  <2>2. With(S, r) \subseteq S \cup {r}
    BY WithIn
  <2>3. listed = IF Enabled(s) THEN With(S, r) ELSE S
    BY <2>1
  <2> QED
    BY <2>1, <2>2, <2>3
<1>6. Issue(g, sub) \subseteq listed \cup {identity}
  <2>1. PICK S, r : S = listed /\ r = identity
    OBVIOUS
  <2>2. With(S, r) \subseteq S \cup {r}
    BY WithIn
  <2>3. Issue(g, sub) = IF s.upstream # "" THEN With(S, r) ELSE S
    BY <1>1, <2>1
  <2> QED
    BY <2>1, <2>2, <2>3
<1> HIDE DEF listed, cleared, in, new, record, identity
<1>7. k \in jar \/ k = new \/ k = record \/ k = identity
  BY <1>3, <1>4, <1>5, <1>6
<1> QED
  BY <1>2, <1>7

\* accepted: the session is for the one who was checked.
LEMMA AcceptedStep ==
    ASSUME IInv, NEW t \in Tabs, Accepted(t)
    PROVE  IInv'
<1>1. PICK c : c = tab[t]
  OBVIOUS
<1>2. c.at = "check" /\ c.todo = <<>> /\ UNCHANGED world
  BY <1>1 DEF Accepted, At
<1>3. CheckOf(c) /\ Shown(c)
  BY <1>1, <1>2, PlaceFacts DEF IInv, Checking
<1>4. CASE FinishOutcome(c) # "pass"
  <2>1. Rejected(t, FinishOutcome(c)) /\ UNCHANGED issued
    BY <1>1, <1>4 DEF Accepted
  <2> QED
    BY <1>1, <1>2, <2>1, RejectedStep DEF Checking
<1>5. CASE FinishOutcome(c) = "pass"
  <2>1. PICK sub, i : /\ sub = SubjectOf(c)
                      /\ i = [gate |-> c.gate, sub |-> sub, by |-> c.who, kind |-> c.kind]
    OBVIOUS
  <2>2. /\ jar' = Issue(c.gate, sub)
        /\ tab' = [u \in Tabs |->
                     IF u = t THEN Idle
                     ELSE IF tab[u].at = "form" /\ tab[u].gate = c.gate
                     THEN [tab[u] EXCEPT !.fits = FALSE] ELSE tab[u]]
        /\ issued' = issued \cup {i}
    BY <1>1, <1>5, <2>1 DEF Accepted
  <2>3. i.gate = c.gate /\ i.sub = sub /\ i.by = c.who /\ i.kind = c.kind
    BY <2>1
  <2>4. TabsPlaced'
    <3>1. tab'[t] = Idle /\ Spoils(t)
      BY <2>2 DEF Spoils
    <3>2. Placed(Idle)
      BY DEF Placed
    <3> QED
      BY <1>2, <2>2, <3>1, <3>2, TabsStay DEF IInv
  <2>5. JarIssued'
    <3> SUFFICES ASSUME NEW k \in jar', k.kind = "session"
                 PROVE  \E j \in issued' : j.gate = k.src /\ j.sub = k.sub
      BY DEF JarIssued
    <3>1. k \in jar \/ (k.src = c.gate /\ k.sub = sub)
      BY <2>2, IssueIn
    <3>2. CASE k \in jar
      BY <2>2, <3>2 DEF IInv, JarIssued
    <3> QED
      BY <2>2, <2>3, <3>1, <3>2
  <2>6. VerifiedGenuine'
    <3>1. /\ i.kind = "right"
          /\ i.sub = i.by \/ StaticCode(i.gate)
          /\ Entitled(i.gate, i.by)
          /\ TOTP(Src(i.gate)) => \E j \in issued : j.gate = Src(i.gate).from /\ j.sub = i.sub
      BY <1>2, <1>3, <1>5, <2>1, <2>3, AllShown
    <3>2. \A k \in issued' :
            /\ k.kind = "right"
            /\ k.sub = k.by \/ StaticCode(k.gate)
            /\ Entitled(k.gate, k.by)
            /\ TOTP(Src(k.gate)) => \E j \in issued' : j.gate = Src(k.gate).from /\ j.sub = k.sub
      <4> TAKE k \in issued'
      <4>1. CASE k \in issued
        BY <2>2, <4>1 DEF IInv, VerifiedGenuine
      <4>2. CASE k = i
        BY <2>2, <3>1, <4>2
      <4> QED
        BY <2>2, <4>1, <4>2
    <3> QED
      BY <1>2, <3>2, SameWorld DEF VerifiedGenuine
  <2> QED
    BY <1>2, <2>4, <2>5, <2>6 DEF IInv
<1> QED
  BY <1>4, <1>5

\* Time and the controller show nothing and take nothing back.
LEMMA WorldStep ==
    ASSUME IInv, Tick \/ \E id \in Secrets : Rotate(id)
    PROVE  IInv'
<1>1. UNCHANGED <<world, jar, issued>>
  BY DEF Tick, Rotate
<1>2. TabsPlaced'
  <2>1. ASSUME NEW u \in Tabs, NEW c, c = tab'[u] PROVE Placed(c)'
    <3>1. PICK d : d = tab[u]
      OBVIOUS
    <3>2. Placed(d)
      BY <3>1, PlaceFacts DEF IInv
    <3>3. c = d \/ (d.at \in {"asked", "read"} /\ c = [d EXCEPT !.wait = @ + 1])
      BY <2>1, <3>1 DEF Tick, Rotate
    <3>4. CASE d.at \in {"asked", "read"} /\ c = [d EXCEPT !.wait = @ + 1]
      <4>1. CheckOf(d) /\ Shown(d)
        BY <3>1, <3>4, PlaceFacts DEF IInv, Checking
      <4>2. PICK wait : wait = d.wait + 1
        OBVIOUS
      <4>3. c = [at |-> d.at, gate |-> d.gate, who |-> d.who, kind |-> d.kind,
                 prior |-> d.prior, todo |-> d.todo, typed |-> d.typed, got |-> d.got,
                 wait |-> wait]
        BY <3>4, <4>1, <4>2 DEF CheckOf
      <4>4. d.todo # <<>> /\ Head(d.todo) = "secret" /\ SecretOutcome(d) = "pass"
        BY <3>4, <4>1 DEF CheckOf
      <4>5. Placed(c)
        BY <3>4, <4>1, <4>3, <4>4, SameCheck DEF Checking
      <4> QED
        BY <1>1, <4>5, PlacedStays
    <3> QED
      BY <1>1, <3>2, <3>3, <3>4, PlacedStays
  <2>2. tab' = [u \in Tabs |-> tab'[u]]
    BY DEF Tick, Rotate, IInv, TabsPlaced
  <2> QED
    BY <2>1, <2>2 DEF TabsPlaced, Places
<1>3. JarIssued'
  BY <1>1 DEF IInv, JarIssued
<1> QED
  BY <1>1, <1>2, <1>3, IssuedStay DEF IInv

\* Every step keeps the invariant.
LEMMA IInvStep ==
    ASSUME IInv, [Next]_vars
    PROVE  IInv'
<1>1. CASE UNCHANGED vars
  <2>1. UNCHANGED <<world, tab, jar, issued>>
    BY <1>1 DEF vars
  <2>2. TabsPlaced'
    <3>1. ASSUME NEW u \in Tabs, NEW c, c = tab'[u] PROVE Placed(c)'
      BY <2>1, <3>1, PlaceFacts, PlacedStays DEF IInv
    <3> QED
      BY <2>1, <3>1 DEF IInv, TabsPlaced, Places
  <2>3. JarIssued'
    BY <2>1 DEF IInv, JarIssued
  <2> QED
    BY <2>1, <2>2, <2>3, IssuedStay DEF IInv
<1>2. ASSUME NEW t \in Tabs, TabStep(t) \/ SubmitRefused(t) \/ Fails(t) PROVE IInv'
  BY <1>2, FormStep, SubmitStep, VerifyStep, AcceptedStep DEF TabStep
<1> QED
  BY <1>1, <1>2, WorldStep DEF Next

\* The browser starts empty.
LEMMA IInvInit ==
    ASSUME Init
    PROVE  IInv
<1>1. Reads(world.tree) /\ jar = {} /\ issued = {} /\ tab = [t \in Tabs |-> Idle]
  BY DEF Init
<1>2. TabsPlaced
  BY <1>1 DEF TabsPlaced, Places, Placed
<1> QED
  BY <1>1, <1>2 DEF IInv, JarIssued, VerifiedGenuine

\* The invariant holds throughout every behaviour of the browser and the service.
THEOREM Invariance == Spec => []IInv
<1>1. Init => IInv
  BY IInvInit
<1>2. IInv /\ [Next]_vars => IInv'
  BY IInvStep
<1> QED
  BY <1>1, <1>2, PTL DEF Spec

\* provider.Run, priorIdentity and accepted: only verified people have
\* sessions, in every accepted tree of sources, for every set of tabs; those of
\* static codes, whose login nobody checks, say that somebody had a right code.
THEOREM OnlyVerified == Spec => []VerifiedGenuine
<1>1. IInv => VerifiedGenuine
  BY DEF IInv
<1> QED
  BY <1>1, Invariance, PTL

(***************************************************************************)
(* The answers to the innocent                                             *)
(***************************************************************************)

\* What a tab does spoils at most the forms of the others.
LEMMA TabSpoils ==
    ASSUME IInv, NEW t \in Tabs, TabStep(t) \/ SubmitRefused(t) \/ Fails(t)
    PROVE  Spoils(t)
<1>1. tab = [u \in Tabs |-> tab[u]]
  BY DEF IInv, TabsPlaced
<1>2. ASSUME NEW n, tab' = [tab EXCEPT ![t] = n] PROVE Spoils(t)
  BY <1>1, <1>2 DEF Spoils
<1>3. ASSUME NEW g, NEW rotate, NEW told, Page(t, g, rotate, told) PROVE Spoils(t)
  BY <1>3, PageFacts DEF IInv
<1>4. CASE \/ \E g \in Gates : OpenForm(t, g)
           \/ SubmitStale(t) \/ SubmitBurnt(t) \/ SubmitRefused(t) \/ Fails(t)
  BY <1>3, <1>4 DEF OpenForm, SubmitStale, SubmitBurnt, SubmitRefused, Fails, Rejected
<1>5. ASSUME NEW who, NEW kind, Submit(t, who, kind) PROVE Spoils(t)
  <2>1. \/ \E g : Page(t, g, TRUE, "firstgate")
        \/ \E n : tab' = [tab EXCEPT ![t] = n]
    BY <1>5 DEF Submit
  <2> QED
    BY <1>2, <1>3, <2>1
<1>6. ASSUME NEW got, Goes(t, got) PROVE Spoils(t)
  <2>1. \E n : tab' = [tab EXCEPT ![t] = n]
    BY <1>6 DEF Goes
  <2> QED
    BY <1>2, <2>1
<1>7. CASE Step(t)
  BY <1>3, <1>6, <1>7 DEF Step, Rejected
<1>8. CASE Panics(t)
  BY <1>2, <1>8 DEF Panics
<1>9. CASE Secret(t)
  <2>1. \/ \E told : Rejected(t, told)
        \/ \E got : Goes(t, got)
        \/ tab' = [tab EXCEPT ![t].at = "asked"]
    BY <1>9 DEF Secret
  <2> QED
    BY <1>2, <1>3, <1>6, <2>1 DEF Rejected
<1>10. CASE Fetch(t)
  <2>1. PICK v : tab' = [tab EXCEPT ![t].at = "read", ![t].got = v]
    BY <1>10 DEF Fetch
  <2>2. PICK n : n = [tab[t] EXCEPT !.at = "read", !.got = v]
    OBVIOUS
  <2> QED
    BY <1>2, <2>1, <2>2
<1>11. CASE Remember(t)
  BY <1>6, <1>11 DEF Remember
<1>12. CASE Accepted(t)
  BY <1>3, <1>12 DEF Accepted, Rejected, Spoils
<1> QED
  BY <1>4, <1>5, <1>7, <1>8, <1>9, <1>10, <1>11, <1>12 DEF TabStep

\* The steps of Verify do not find fault with the innocent.
LEMMA StepBlames ==
    ASSUME IInv, NEW c, CheckOf(c), Shown(c), Innocent(c), c.todo # <<>>,
           Head(c.todo) # "secret", NEW high
    PROVE  StepOutcome(c, high) \notin {"invalid", "notallowed"}
<1>1. PICK g : g = c.gate
  OBVIOUS
<1>2. /\ g \in Gates /\ c.kind = "right" /\ c.who = Account(c) /\ Entitled(g, c.who)
      /\ Workable /\ world.base /\ world.readable
      /\ TOTP(Src(g)) => c.got = c.typed
  BY <1>1 DEF CheckOf, Innocent
<1>3. /\ TOTP(Src(g)) => Src(g).provider = "code"
      /\ LooksUp(g) => Directory(g)
  BY <1>2, GateFacts DEF IInv
<1>4. Left(c.todo, Head(c.todo)) /\ Head(c.todo) \in StepNames
  BY LeftOfTail DEF CheckOf
<1>5. CASE Head(c.todo) = "given"
  BY <1>2, <1>5 DEF StepOutcome
<1>6. CASE Head(c.todo) = "hash"
  <2>1. Src(g).provider = "local"
    BY <1>1, <1>4, <1>6 DEF Shown, OwnSteps
  <2>2. Active(g, c.who)
    BY <1>2, <2>1 DEF Entitled
  <2>3. UserOf(g, c.who) # {}
    BY <2>2 DEF Active
  <2> QED
    BY <1>1, <1>2, <1>6, <2>2, <2>3 DEF StepOutcome
<1>7. CASE Head(c.todo) = "bind"
  BY <1>2, <1>7 DEF StepOutcome
<1>8. ServiceOutcome(c) \in {"pass", "unavailable"}
  BY DEF ServiceOutcome
<1>9. CASE Head(c.todo) = "lookup"
  <2>1. LooksUp(g)
    BY <1>1, <1>4, <1>9 DEF Shown, OwnSteps
  <2>2. EntryOf(g, c.who).found = 1
    BY <1>2, <1>3, <2>1 DEF Entitled, Directory
  <2>3. LookupOutcome(c) \notin {"invalid", "notallowed"}
    BY <1>1, <1>2, <1>8, <2>2 DEF LookupOutcome
  <2> QED
    BY <1>9, <2>3 DEF StepOutcome
<1>10. CASE Head(c.todo) = "reverse"
  BY <1>8, <1>10 DEF StepOutcome
<1>11. CASE Head(c.todo) = "code"
  <2>1. TOTP(Src(g)) => c.who = c.prior
    BY <1>1, <1>2 DEF Account
  <2>2. TOTP(Src(g)) => Opt(g).digits # 10
    <3>1. TOTP(Src(g)) => Opt(g).digits < 10
      BY <1>2, Zenon DEF Workable
    <3> QED
      BY <3>1
  <2>3. CodeOutcome(c, high) = "pass"
    BY <1>1, <1>2, <2>1, <2>2 DEF CodeOutcome
  <2> QED
    BY <1>11, <2>3 DEF StepOutcome
<1> QED
  BY <1>4, <1>5, <1>6, <1>7, <1>9, <1>10, <1>11 DEF StepNames

\* Nor do secretOf and finish.
LEMMA OthersBlame ==
    ASSUME IInv, NEW c, CheckOf(c), Innocent(c)
    PROVE  SecretOutcome(c) = "pass" /\ FinishOutcome(c) = "pass"
<1>1. PICK g : g = c.gate
  OBVIOUS
<1>2. g \in Gates /\ c.who = Account(c) /\ Entitled(g, c.who)
  BY <1>1 DEF CheckOf, Innocent
<1>3. /\ TOTP(Src(g)) => Src(g).provider = "code"
      /\ LooksUp(g) => Directory(g)
  BY <1>2, GateFacts DEF IInv
<1>4. SecretOutcome(c) = "pass"
  <2>1. CASE TOTP(Src(g))
    <3>1. c.who = c.prior
      BY <1>1, <1>2, <2>1 DEF Account
    <3>2. PICK u \in UserOf(g, c.prior) : u.active /\ (u.totp # "" \/ u.store # "")
      BY <1>2, <1>3, <2>1, <3>1 DEF Entitled
    <3>3. Active(g, c.prior)
      BY <3>2, Zenon DEF Active
    <3> QED
      BY <1>1, <3>2, <3>3 DEF SecretOutcome
  <2>2. CASE ~TOTP(Src(g))
    BY <1>1, <2>2 DEF SecretOutcome
  <2> QED
    BY <2>1, <2>2
<1>5. FinishOutcome(c) = "pass"
  <2>1. CASE Directory(g)
    <3>1. Src(g).provider # "local" /\ ~TOTP(Src(g))
      BY <1>3, <2>1 DEF Directory
    <3>2. Opt(g).groups # {} => EntryOf(g, c.who).groups \cap Opt(g).groups # {}
      BY <1>2, <2>1, <3>1 DEF Entitled
    <3>3. Opt(g).groups # {} => LooksUp(g)
      <4>1. g \in DOMAIN world.tree.sources
        BY <1>2 DEF Gates
      <4>2. validateProvider(Src(g))
        BY <4>1 DEF IInv, Reads, readSources, Validate, Src
      <4>3. Src(g).provider = "ldap" => validateLDAP(Opt(g))
        BY <4>2 DEF validateProvider, Opt
      <4> QED
        BY <2>1, <4>3 DEF LooksUp, Directory, validateLDAP
    <3>4. GroupsAllow(g, IF LooksUp(g) THEN EntryOf(g, c.who).groups ELSE {})
      BY <3>2, <3>3 DEF GroupsAllow
    <3> QED
      BY <1>1, <3>4 DEF FinishOutcome
  <2>2. CASE ~Directory(g)
    BY <1>1, <2>2 DEF FinishOutcome
  <2> QED
    BY <2>1, <2>2
<1> QED
  BY <1>4, <1>5

\* rejected, lockSpent: the right credentials of an entitled person are never
\* answered with "Invalid credentials" or "Access denied", whatever fails and
\* whichever secret changes during the check.
THEOREM NobodyBlamed == Spec => Blameless
<1>1. ASSUME IInv, [Next]_vars, NEW t \in Tabs, At(t, "check"),
             tab'[t].at = "form", tab'[t].told \in {"invalid", "notallowed"}
      PROVE  ~Innocent(tab[t])
  <2> SUFFICES ASSUME NEW c, c = tab[t], Innocent(c) PROVE FALSE
    OBVIOUS
  <2>1. c.at = "check" /\ CheckOf(c) /\ Shown(c)
    BY <1>1, PlaceFacts DEF IInv, At, Checking
  <2>2. ASSUME NEW told, told \notin {"invalid", "notallowed"}, Rejected(t, told) PROVE FALSE
    <3>1. PICK g : g = c.gate
      OBVIOUS
    <3>2. TabsPlaced /\ Page(t, g, TRUE, told)
      BY <1>1, <2>2, <3>1 DEF IInv, Rejected
    <3>3. tab'[t] = Form(g, TRUE, told)
      BY <3>2, PageFacts
    <3>4. tab'[t].told = told
      BY <3>3 DEF Form
    <3> QED
      BY <1>1, <2>2, <3>4
  <2>3. tab'[t] # c
    BY <1>1, <2>1
  <2>4. ASSUME NEW n, tab' = [tab EXCEPT ![t] = n], n.at # "form" PROVE FALSE
    BY <1>1, <2>4 DEF IInv, TabsPlaced
  <2>5. ASSUME NEW got, Goes(t, got) PROVE FALSE
    <3>1. PICK n : n = [c EXCEPT !.at = "check", !.todo = Tail(c.todo), !.got = got, !.wait = 0]
      OBVIOUS
    <3>2. tab' = [tab EXCEPT ![t] = n]
      BY <2>5, <3>1 DEF Goes
    <3>3. n.at = "check"
      BY <2>1, <3>1 DEF CheckOf
    <3> QED
      BY <2>4, <3>2, <3>3
  <2>6. ASSUME NEW u \in Tabs, u # t, TabStep(u) \/ SubmitRefused(u) \/ Fails(u) PROVE FALSE
    <3>1. Spoils(u)
      BY <1>1, <2>6, TabSpoils
    <3>2. tab'[t] = tab[t] \/ tab[t].at = "form"
      BY <2>6, <3>1 DEF Spoils
    <3> QED
      BY <2>1, <2>3, <3>2
  <2>7. ASSUME TabStep(t) \/ SubmitRefused(t) \/ Fails(t) PROVE FALSE
    <3>1. CASE Fails(t)
      BY <2>2, <3>1 DEF Fails
    <3>2. CASE Step(t)
      <4>1. PICK high : IF StepOutcome(c, high) = "pass" THEN Goes(t, c.got)
                        ELSE Rejected(t, StepOutcome(c, high))
        BY <3>2 DEF Step
      <4>2. StepOutcome(c, high) \notin {"invalid", "notallowed"}
        BY <1>1, <2>1, <3>2, StepBlames DEF Step
      <4> QED
        BY <2>2, <2>5, <4>1, <4>2
    <3>3. CASE Panics(t)
      <4>1. tab' = [tab EXCEPT ![t] = Idle] /\ Idle.at # "form"
        BY <3>3 DEF Panics, Idle
      <4> QED
        BY <2>4, <4>1
    <3>4. CASE Secret(t)
      <4>1. SecretOutcome(c) = "pass"
        BY <1>1, <2>1, OthersBlame
      <4>2. (\E got : Goes(t, got)) \/ tab' = [tab EXCEPT ![t].at = "asked"]
        BY <3>4, <4>1 DEF Secret
      <4>3. CASE tab' = [tab EXCEPT ![t].at = "asked"]
        <5>1. PICK n : n = [c EXCEPT !.at = "asked"]
          OBVIOUS
        <5>2. tab' = [tab EXCEPT ![t] = n]
          BY <4>3, <5>1
        <5>3. n.at = "asked"
          BY <2>1, <5>1 DEF CheckOf
        <5> QED
          BY <2>4, <5>2, <5>3
      <4> QED
        BY <2>5, <4>2, <4>3
    <3>5. CASE Accepted(t)
      <4>1. FinishOutcome(c) = "pass"
        BY <1>1, <2>1, OthersBlame
      <4>2. tab'[t] = Idle
        BY <3>5, <4>1 DEF Accepted
      <4> QED
        BY <1>1, <4>2 DEF Idle
    <3>6. CASE \E g \in Gates : OpenForm(t, g)
      <4>1. c = Idle /\ Idle.at # "check"
        BY <3>6 DEF OpenForm, Idle
      <4> QED
        BY <2>1, <4>1
    <3> QED
      BY <2>1, <2>7, <3>1, <3>2, <3>3, <3>4, <3>5, <3>6
         DEF TabStep, SubmitStale, SubmitBurnt, SubmitRefused, Submit, Fetch, Remember, At
  <2>8. CASE Tick
    BY <1>1, <2>1, <2>3, <2>8 DEF Tick
  <2>9. CASE \E id \in Secrets : Rotate(id)
    BY <2>3, <2>9 DEF Rotate
  <2>10. CASE UNCHANGED vars
    BY <2>3, <2>10 DEF vars
  <2> QED
    BY <1>1, <2>6, <2>7, <2>8, <2>9, <2>10 DEF Next
<1>2. IInv /\ [Next]_vars =>
        [\A t \in Tabs : /\ At(t, "check")
                         /\ tab'[t].at = "form" /\ tab'[t].told \in {"invalid", "notallowed"}
                         => ~Innocent(tab[t])]_vars
  BY <1>1
<1> QED
  BY <1>2, Invariance, PTL DEF Spec, Blameless

(***************************************************************************)
(* The secrets are fresh                                                   *)
(***************************************************************************)

\* Version v of a secret is the current one or has been retired for most ticks
\* at most.
Young(id, v, most) ==
    /\ v \in 1 .. Current(id)
    /\ v # Current(id) => vault[id][v] <= most

\* What a check that waits for the controller holds is no older than the wait.
Waits(c) ==
    c.at \in Checking =>
        /\ c.wait \in 0 .. FetchMax
        /\ c.at = "read" =>
             \A id \in References(c.gate, Account(c)) : Young(id, c.got, c.wait)

\* The store knows each secret of the world, with the age of its old values.
VaultKept == /\ vault = [id \in world.secrets |-> vault[id]]
             /\ \A id \in Secrets : vault[id] \in Seq(Nat)

\* What the cache holds is no older than its age and the longest fetch.
CacheKept ==
    /\ cache = [id \in world.secrets |-> cache[id]]
    /\ \A id \in Secrets :
         /\ cache[id] = [version |-> cache[id].version, age |-> cache[id].age]
         /\ cache[id].age \in Nat
         /\ cache[id].version # Fixed => Young(id, cache[id].version, cache[id].age + FetchMax)

\* What every check waits for or has read is young enough.
AllWait == \A c \in Places : Waits(c)

FreshInv ==
    /\ world \in Worlds /\ VaultKept /\ CacheKept
    /\ AllWait

\* A person's check reads one secret at most, and it is in the vault.
LEMMA OneReference ==
    ASSUME IInv, world \in Worlds, VaultKept, NEW g \in Gates, NEW p
    PROVE  /\ References(g, p) \subseteq Secrets
           /\ \A i, j \in References(g, p) : i = j
<1>1. Secrets = world.secrets
  BY DEF Secrets, VaultKept
<1>2. PICK s : s = Src(g)
  OBVIOUS
<1>3. g \in DOMAIN world.tree.sources /\ s = world.tree.sources[g] /\ Reads(world.tree)
  BY <1>2 DEF Gates, Src, IInv
<1>4. /\ s.provider \in {"ldap", "ntlm"} => Section(s).search.store \in world.secrets \cup {""}
      /\ TOTP(s) => \A i \in DOMAIN s.files[UsersFile(s)] :
                        s.files[UsersFile(s)][i].store \in world.secrets \cup {""}
  BY <1>3, WorldAssumption
<1>5. CASE TOTP(s)
  <2>1. References(g, p) = {u.store : u \in UserOf(g, p)} \ {""}
    BY <1>2, <1>5 DEF References
  <2>2. \A u \in UserOf(g, p) : u.store \in world.secrets \cup {""}
    BY <1>2, <1>4, <1>5 DEF UserOf
  <2>3. \A u, v \in UserOf(g, p) : u = v
    BY <1>2, <1>5, OneUser DEF IInv
  <2> QED
    BY <1>1, <2>1, <2>2, <2>3
<1>6. CASE ~TOTP(s) /\ Directory(g)
  <2>1. References(g, p) \subseteq {Section(s).search.store} \ {""}
    BY <1>2, <1>6 DEF References, Opt
  <2>2. Section(s).search.store \in world.secrets \cup {""}
    BY <1>2, <1>4, <1>6 DEF Directory
  <2> QED
    BY <1>1, <2>1, <2>2
<1>7. CASE ~TOTP(s) /\ ~Directory(g)
  <2>1. References(g, p) = {}
    BY <1>2, <1>7 DEF References
  <2> QED
    BY <2>1
<1> QED
  BY <1>5, <1>6, <1>7

\* Nothing that is not about the vault changes what a check holds.
LEMMA WaitsStay ==
    ASSUME UNCHANGED <<world, vault>>, NEW c, Waits(c)
    PROVE  Waits(c)'
<1>1. ASSUME NEW g, NEW p PROVE References(g, p)' = References(g, p)
  <2>1. /\ Src(g)' = Src(g) /\ Opt(g)' = Opt(g) /\ Directory(g)' = Directory(g)
        /\ UserOf(g, p)' = UserOf(g, p)
    BY SameWorld
  <2> QED
    BY <2>1 DEF References
<1>2. \A id : Current(id)' = Current(id)
  BY DEF Current
<1>3. Account(c)' = Account(c)
  BY SameWorld DEF Account
<1> QED
  BY <1>1, <1>2, <1>3 DEF Waits, Young

\* A step of one tab keeps what the other tabs wait for.
LEMMA AllWaitStays ==
    ASSUME IInv, FreshInv, UNCHANGED <<world, vault>>, NEW t \in Tabs, Spoils(t),
           NEW n, tab'[t] = n, Waits(n)
    PROVE  AllWait'
<1>1. ASSUME NEW u \in Tabs, NEW c, c = tab'[u] PROVE Waits(c)'
  <2>1. CASE u = t
    <3>1. c = n
      BY <1>1, <2>1
    <3> QED
      BY <3>1, WaitsStay
  <2>2. CASE c = tab[u]
    <3>1. Waits(c)
      BY <2>2 DEF FreshInv, AllWait, Places
    <3> QED
      BY <3>1, WaitsStay
  <2>3. CASE tab[u].at = "form" /\ c = [tab[u] EXCEPT !.fits = FALSE]
    <3>1. PICK d : d = tab[u]
      OBVIOUS
    <3>2. FormOf(d)
      BY <2>3, <3>1, PlaceFacts DEF IInv, At
    <3>3. c.at = "form"
      BY <2>3, <3>1, <3>2 DEF FormOf
    <3>4. Waits(c)
      BY <3>3 DEF Waits, Checking
    <3> QED
      BY <3>4, WaitsStay
  <2> QED
    BY <1>1, <2>1, <2>2, <2>3 DEF Spoils
<1> QED
  BY <1>1 DEF AllWait, Places

\* A step that sets a tab going on has waited for nothing.
LEMMA GoesTab ==
    ASSUME IInv, NEW t \in Tabs, tab[t].at \in Checking, NEW got, Goes(t, got)
    PROVE  /\ tab'[t].at = "check" /\ tab'[t].wait = 0 /\ tab'[t].got = got
           /\ Waits(tab'[t])
<1>1. PICK c : c = tab[t]
  OBVIOUS
<1>2. CheckOf(c)
  BY <1>1, PlaceFacts DEF IInv
<1>3. PICK n : n = [c EXCEPT !.at = "check", !.todo = Tail(c.todo), !.got = got, !.wait = 0]
  OBVIOUS
<1>4. tab' = [tab EXCEPT ![t] = n]
  BY <1>1, <1>3 DEF Goes
<1>5. tab'[t] = n
  BY <1>4 DEF IInv, TabsPlaced
<1>6. n.at = "check" /\ n.wait = 0 /\ n.got = got
  BY <1>2, <1>3 DEF CheckOf
<1>7. Waits(n)
  BY <1>6, SignInAssumption DEF Waits
<1> QED
  BY <1>5, <1>6, <1>7

\* A tab to which page answers shows a form, and waits for nothing.
LEMMA FormTab ==
    ASSUME IInv, NEW t \in Tabs, NEW g, NEW rotate, NEW told, Page(t, g, rotate, told)
    PROVE  tab'[t].at = "form" /\ Waits(tab'[t])
<1>1. tab'[t] = Form(g, TRUE, told)
  BY PageFacts DEF IInv
<1>2. PICK n : n = Form(g, TRUE, told)
  OBVIOUS
<1>3. n.at = "form"
  BY <1>2 DEF Form
<1> QED
  BY <1>1, <1>2, <1>3 DEF Waits, Checking

\* Whatever a tab does, what it holds then is young.
LEMMA TabWaits ==
    ASSUME IInv, FreshInv, NEW t \in Tabs, TabStep(t) \/ SubmitRefused(t) \/ Fails(t)
    PROVE  Waits(tab'[t])
<1>1. PICK c : c = tab[t]
  OBVIOUS
<1>2. Waits(c)
  BY <1>1 DEF FreshInv, AllWait, Places
<1>3. c.at \in Checking => CheckOf(c)
  BY <1>1, PlaceFacts DEF IInv
<1>4. tab = [u \in Tabs |-> tab[u]]
  BY DEF IInv, TabsPlaced
<1>5. ASSUME NEW told, Rejected(t, told) PROVE Waits(tab'[t])
  BY <1>5, FormTab DEF Rejected
<1>6. ASSUME NEW got, Goes(t, got), c.at \in Checking PROVE Waits(tab'[t])
  BY <1>1, <1>6, GoesTab
<1>7. CASE \/ \E g \in Gates : OpenForm(t, g)
           \/ SubmitStale(t) \/ SubmitBurnt(t) \/ SubmitRefused(t) \/ Fails(t)
  BY <1>7, FormTab DEF OpenForm, SubmitStale, SubmitBurnt, SubmitRefused, Fails, Rejected
<1>8. ASSUME NEW who, NEW kind, Submit(t, who, kind) PROVE Waits(tab'[t])
  <2>1. \/ \E g : Page(t, g, TRUE, "firstgate")
        \/ \E g, prior, todo, typed, n :
             /\ n = [at |-> "check", gate |-> g, who |-> who, kind |-> kind,
                     prior |-> prior, todo |-> todo, typed |-> typed,
                     got |-> Fixed, wait |-> 0]
             /\ tab' = [tab EXCEPT ![t] = n]
    BY <1>8 DEF Submit
  <2>2. ASSUME NEW n, tab' = [tab EXCEPT ![t] = n], n.at = "check", n.wait = 0
        PROVE  Waits(tab'[t])
    <3>1. tab'[t] = n
      BY <1>4, <2>2
    <3>2. Waits(n)
      BY <2>2, SignInAssumption DEF Waits
    <3> QED
      BY <3>1, <3>2
  <2>3. ASSUME NEW g, NEW prior, NEW todo, NEW typed, NEW n,
               n = [at |-> "check", gate |-> g, who |-> who, kind |-> kind,
                    prior |-> prior, todo |-> todo, typed |-> typed,
                    got |-> Fixed, wait |-> 0],
               tab' = [tab EXCEPT ![t] = n]
        PROVE  Waits(tab'[t])
    <3>1. n.at = "check" /\ n.wait = 0
      BY <2>3
    <3> QED
      BY <2>2, <2>3, <3>1
  <2>4. ASSUME NEW g, Page(t, g, TRUE, "firstgate") PROVE Waits(tab'[t])
    BY <2>4, FormTab
  <2> QED
    BY <2>1, <2>3, <2>4, Zenon
<1>9. CASE Step(t)
  <2>1. c.at \in Checking
    BY <1>1, <1>9 DEF Step, At, Checking
  <2> QED
    BY <1>5, <1>6, <1>9, <2>1 DEF Step
<1>10. ASSUME tab'[t] = Idle PROVE Waits(tab'[t])
  BY <1>10 DEF Waits, Idle, Checking
<1>11. CASE Panics(t)
  BY <1>4, <1>10, <1>11 DEF Panics
<1>12. CASE Secret(t)
  <2>1. c.at = "check"
    BY <1>1, <1>12 DEF Secret, Checks, At
  <2>2. \/ \E told : Rejected(t, told)
        \/ \E got : Goes(t, got)
        \/ tab' = [tab EXCEPT ![t].at = "asked"]
    BY <1>12 DEF Secret
  <2>3. CASE tab' = [tab EXCEPT ![t].at = "asked"]
    <3>1. PICK n : n = [c EXCEPT !.at = "asked"]
      OBVIOUS
    <3>2. n.at = "asked" /\ n.wait = c.wait
      BY <1>3, <2>1, <3>1 DEF CheckOf, Checking
    <3>3. tab'[t] = n
      BY <1>1, <1>4, <2>3, <3>1
    <3>4. Waits(n)
      BY <1>2, <2>1, <3>2 DEF Waits, Checking
    <3> QED
      BY <3>3, <3>4
  <2> QED
    BY <1>5, <1>6, <2>1, <2>2, <2>3 DEF Checking
<1>13. CASE Fetch(t)
  <2>1. PICK id \in References(c.gate, Account(c)) :
          tab' = [tab EXCEPT ![t].at = "read", ![t].got = Current(id)]
    BY <1>1, <1>13 DEF Fetch
  <2>2. c.at = "asked" /\ CheckOf(c)
    BY <1>1, <1>3, <1>13 DEF Fetch, At, Checking
  <2>3. PICK n, v : v = Current(id) /\ n = [c EXCEPT !.at = "read", !.got = v]
    OBVIOUS
  <2>4. tab'[t] = n
    BY <1>1, <1>4, <2>1, <2>3
  <2>5. /\ n.at = "read" /\ n.wait = c.wait /\ n.got = v /\ n.gate = c.gate
        /\ n.prior = c.prior /\ n.who = c.who
    BY <2>2, <2>3 DEF CheckOf
  <2>6. Account(n) = Account(c)
    BY <2>5 DEF Account
  <2>7. \A i \in References(c.gate, Account(c)) : i = id
    BY <2>1, <2>2, OneReference DEF FreshInv, CheckOf
  <2>8. Young(id, v, c.wait)
    <3>1. id \in Secrets
      BY <2>1, <2>2, OneReference DEF FreshInv, CheckOf
    <3>2. v \in Nat \ {0}
      BY <2>3, <3>1 DEF FreshInv, VaultKept, Current
    <3> QED
      BY <2>3, <3>2 DEF Young
  <2>9. Waits(n)
    BY <1>2, <2>2, <2>5, <2>6, <2>7, <2>8 DEF Waits, Checking
  <2> QED
    BY <2>4, <2>9
<1>14. CASE Remember(t)
  <2>1. c.at = "read" /\ Goes(t, c.got)
    BY <1>1, <1>14 DEF Remember, At
  <2> QED
    BY <1>6, <2>1 DEF Checking
<1>15. CASE Accepted(t)
  <2>1. (\E told : Rejected(t, told)) \/ tab'[t] = Idle
    BY <1>15 DEF Accepted
  <2> QED
    BY <1>5, <1>10, <2>1
<1> QED
  BY <1>7, <1>8, <1>9, <1>11, <1>12, <1>13, <1>14, <1>15 DEF TabStep

\* Steps that leave vault and cache alone.
LEMMA CacheStays ==
    ASSUME FreshInv, UNCHANGED <<world, vault, cache>>
    PROVE  VaultKept' /\ CacheKept'
<1>1. \A id : Current(id)' = Current(id)
  BY DEF Current
<1>2. Secrets' = Secrets
  BY DEF Secrets
<1> QED
  BY <1>1, <1>2 DEF FreshInv, VaultKept, CacheKept, Young

\* Store.remember
LEMMA RememberFresh ==
    ASSUME IInv, FreshInv, NEW t \in Tabs, Remember(t)
    PROVE  VaultKept' /\ CacheKept'
<1>1. PICK c : c = tab[t]
  OBVIOUS
<1>2. c.at = "read" /\ UNCHANGED <<world, vault>>
  BY <1>1 DEF Remember, At
<1>3. PICK id \in References(c.gate, Account(c)) :
        cache' = [cache EXCEPT ![id] = [version |-> c.got, age |-> 0]]
  BY <1>1 DEF Remember
<1>4. c.wait \in 0 .. FetchMax /\ Young(id, c.got, c.wait)
  BY <1>1, <1>2, <1>3 DEF FreshInv, AllWait, Places, Waits, Checking
<1>5. id \in Secrets /\ Secrets = world.secrets
  <2>1. c.gate \in Gates
    BY <1>1, <1>2, PlaceFacts DEF IInv, CheckOf, Checking
  <2> QED
    BY <1>3, <2>1, OneReference DEF FreshInv, Secrets, VaultKept
<1>6. \A i : Current(i)' = Current(i)
  BY <1>2 DEF Current
<1>7. Secrets' = Secrets
  BY <1>2 DEF Secrets
<1>8. \A i, v, most : Young(i, v, most)' <=> Young(i, v, most)
  BY <1>2, <1>6 DEF Young
<1>9. VaultKept'
  BY <1>2, <1>7 DEF FreshInv, VaultKept
<1>10. Young(id, c.got, 0 + FetchMax)
  <2>1. c.got # Current(id) => vault[id][c.got] \in Nat
    <3>1. vault[id] \in Seq(Nat)
      BY <1>5 DEF FreshInv, VaultKept
    <3> QED
      BY <1>4, <3>1 DEF Young, Current
  <2> QED
    BY <1>4, <2>1, SignInAssumption DEF Young
<1>11. PICK e : e = [version |-> c.got, age |-> 0]
  OBVIOUS
<1>12. cache' = [cache EXCEPT ![id] = e] /\ e.version = c.got /\ e.age = 0
  BY <1>3, <1>11
<1>13. cache' = [i \in world.secrets |-> cache'[i]]
  BY <1>12 DEF FreshInv, CacheKept
<1>14. ASSUME NEW i \in Secrets
       PROVE  /\ cache'[i] = [version |-> cache'[i].version, age |-> cache'[i].age]
              /\ cache'[i].age \in Nat
              /\ cache'[i].version # Fixed => Young(i, cache'[i].version, cache'[i].age + FetchMax)
  <2>1. CASE i = id
    <3>1. cache'[i] = e
      BY <1>5, <1>12, <2>1 DEF FreshInv, CacheKept
    <3>2. e = [version |-> e.version, age |-> e.age]
      BY <1>11
    <3> QED
      BY <1>10, <1>12, <2>1, <3>1, <3>2
  <2>2. CASE i # id
    <3>1. cache'[i] = cache[i]
      BY <1>5, <1>12, <2>2 DEF FreshInv, CacheKept
    <3> QED
      BY <3>1 DEF FreshInv, CacheKept
  <2> QED
    BY <2>1, <2>2
<1> QED
  BY <1>2, <1>7, <1>8, <1>9, <1>13, <1>14 DEF CacheKept

\* What a secret's check waits for does not depend on the vault.
LEMMA SameReferences ==
    ASSUME world' = world
    PROVE  /\ \A g, p : References(g, p)' = References(g, p)
           /\ \A c : Account(c)' = Account(c)
<1>1. ASSUME NEW g, NEW p PROVE References(g, p)' = References(g, p)
  <2>1. /\ Src(g)' = Src(g) /\ Opt(g)' = Opt(g) /\ Directory(g)' = Directory(g)
        /\ UserOf(g, p)' = UserOf(g, p)
    BY SameWorld
  <2> QED
    BY <2>1 DEF References
<1> QED
  BY <1>1, SameWorld DEF Account

\* A secret is changed: the value that was current has been retired just now.
LEMMA RotateFresh ==
    ASSUME IInv, FreshInv, NEW id \in Secrets, Rotate(id)
    PROVE  FreshInv'
<1>1. UNCHANGED <<world, tab, cache>> /\ vault' = [vault EXCEPT ![id] = Append(@, 0)]
  BY DEF Rotate
<1>2. /\ Secrets = world.secrets /\ Secrets' = Secrets
      /\ vault' = [i \in world.secrets |-> vault'[i]]
  BY <1>1 DEF FreshInv, VaultKept, Secrets
<1>3. /\ \A i \in Secrets : vault[i] \in Seq(Nat)
      /\ \A i \in Secrets : vault'[i] = IF i = id THEN Append(vault[i], 0) ELSE vault[i]
  BY <1>1, <1>2 DEF FreshInv, VaultKept
<1>4. VaultKept'
  BY <1>1, <1>2, <1>3 DEF VaultKept
<1>5. ASSUME NEW i \in Secrets, NEW v, NEW most \in Nat, Young(i, v, most)
      PROVE  Young(i, v, most)'
  <2>1. /\ vault[i] \in Seq(Nat) /\ Len(vault[i]) \in Nat /\ v \in 1 .. Len(vault[i]) + 1
        /\ v # Len(vault[i]) + 1 => vault[i][v] <= most
    BY <1>3, <1>5 DEF Young, Current
  <2>2. CASE i # id
    <3>1. vault'[i] = vault[i]
      BY <1>3, <2>2
    <3> QED
      BY <2>1, <3>1 DEF Young, Current
  <2>3. CASE i = id
    <3>1. PICK s : s = vault[i]
      OBVIOUS
    <3>2. vault'[i] = Append(s, 0)
      BY <1>3, <2>3, <3>1
    <3>3. /\ Len(Append(s, 0)) = Len(s) + 1 /\ Append(s, 0)[Len(s) + 1] = 0
          /\ \A k \in 1 .. Len(s) : Append(s, 0)[k] = s[k]
      BY <2>1, <3>1
    <3> QED
      BY <2>1, <3>1, <3>2, <3>3 DEF Young, Current
  <2> QED
    BY <2>2, <2>3
<1>6. CacheKept'
  <2>1. ASSUME NEW i \in Secrets, cache[i].version # Fixed
        PROVE  Young(i, cache[i].version, cache[i].age + FetchMax)'
    <3>1. PICK v, most : v = cache[i].version /\ most = cache[i].age + FetchMax
      OBVIOUS
    <3>2. most \in Nat /\ Young(i, v, most)
      <4>1. cache[i].age \in Nat /\ Young(i, cache[i].version, cache[i].age + FetchMax)
        BY <2>1 DEF FreshInv, CacheKept
      <4> QED
        BY <3>1, <4>1, SignInAssumption
    <3>3. Young(i, v, most)'
      BY <1>5, <3>2
    <3> QED
      BY <1>1, <3>1, <3>3
  <2> QED
    BY <1>1, <1>2, <2>1 DEF FreshInv, CacheKept
<1>7. AllWait'
  <2>1. ASSUME NEW u \in Tabs, NEW c, c = tab[u] PROVE Waits(c)'
    <3>1. Waits(c)
      BY <2>1 DEF FreshInv, AllWait, Places
    <3>2. ASSUME c.at = "read", NEW i \in References(c.gate, Account(c))
          PROVE  Young(i, c.got, c.wait)'
      <4>1. c.gate \in Gates
        BY <2>1, <3>2, PlaceFacts DEF IInv, CheckOf, Checking
      <4>2. i \in Secrets
        BY <3>2, <4>1, OneReference DEF FreshInv
      <4>3. c.wait \in Nat /\ Young(i, c.got, c.wait)
        BY <3>1, <3>2 DEF Waits, Checking
      <4> QED
        BY <1>5, <4>2, <4>3
    <3> QED
      BY <1>1, <3>1, <3>2, SameReferences DEF Waits
  <2> QED
    BY <1>1, <2>1 DEF AllWait, Places
<1> QED
  BY <1>1, <1>4, <1>6, <1>7 DEF FreshInv

\* Time passes for what is retired, cached and waited for alike.
LEMMA TickFresh ==
    ASSUME IInv, FreshInv, Tick
    PROVE  FreshInv'
<1> DEFINE Cap == CacheTTL + FetchMax + 1
<1>1. /\ UNCHANGED world
      /\ vault' = [i \in Secrets |-> [v \in DOMAIN vault[i] |-> Older(vault[i][v], Cap)]]
      /\ cache' = [i \in Secrets |-> IF cache[i].version = Fixed THEN cache[i]
                                     ELSE [cache[i] EXCEPT !.age = Older(@, CacheTTL + 1)]]
  BY DEF Tick
<1>2. Secrets = world.secrets /\ Secrets' = Secrets
  BY <1>1 DEF FreshInv, VaultKept, Secrets
<1>3. CacheTTL \in Nat /\ FetchMax \in Nat /\ Cap \in Nat
  BY SignInAssumption
<1> HIDE DEF Cap
<1>4. ASSUME NEW i \in Secrets
      PROVE  /\ vault[i] \in Seq(Nat) /\ vault'[i] \in Seq(Nat)
             /\ Len(vault'[i]) = Len(vault[i])
             /\ \A v \in 1 .. Len(vault[i]) : vault'[i][v] = Older(vault[i][v], Cap)
  <2>1. PICK s : s = vault[i]
    OBVIOUS
  <2>2. s \in Seq(Nat) /\ DOMAIN s = 1 .. Len(s) /\ Len(s) \in Nat
    BY <2>1 DEF FreshInv, VaultKept
  <2>3. vault'[i] = [v \in 1 .. Len(s) |-> Older(s[v], Cap)]
    BY <1>1, <2>1, <2>2
  <2>4. \A v \in 1 .. Len(s) : Older(s[v], Cap) \in Nat
    <3> TAKE v \in 1 .. Len(s)
    <3>1. s[v] \in Nat
      BY <2>2
    <3> QED
      BY <3>1 DEF Older
  <2>5. PICK r : r = [v \in 1 .. Len(s) |-> Older(s[v], Cap)]
    OBVIOUS
  <2>6. r \in Seq(Nat) /\ Len(r) = Len(s)
    BY <2>2, <2>4, <2>5
  <2> QED
    BY <2>1, <2>2, <2>3, <2>5, <2>6
<1>5. VaultKept'
  BY <1>1, <1>2, <1>4 DEF VaultKept
<1>6. ASSUME NEW i \in Secrets, NEW v, NEW most \in Nat, NEW more \in Nat, Young(i, v, most),
             most + 1 <= more \/ Cap <= more, most <= more
      PROVE  Young(i, v, more)'
  <2>1. /\ v \in 1 .. Len(vault[i]) + 1
        /\ v # Len(vault[i]) + 1 => vault[i][v] <= most
    BY <1>6 DEF Young, Current
  <2>2. v \in 1 .. Len(vault'[i]) + 1
    BY <1>4, <2>1
  <2>3. ASSUME v # Len(vault'[i]) + 1 PROVE vault'[i][v] <= more
    <3>1. v \in 1 .. Len(vault[i]) /\ vault[i][v] <= most
      BY <1>4, <2>1, <2>3
    <3>2. PICK a : a = vault[i][v]
      OBVIOUS
    <3>3. a \in Nat /\ vault'[i][v] = Older(a, Cap)
      BY <1>4, <3>1, <3>2
    <3> QED
      BY <1>3, <1>6, <3>1, <3>2, <3>3 DEF Older
  <2> QED
    BY <2>2, <2>3 DEF Young, Current
<1>7. CacheKept'
  <2>1. ASSUME NEW i \in Secrets
        PROVE  /\ cache'[i] = [version |-> cache'[i].version, age |-> cache'[i].age]
               /\ cache'[i].age \in Nat
               /\ cache'[i].version # Fixed =>
                    \A v, most : v = cache'[i].version /\ most = cache'[i].age + FetchMax
                                  => Young(i, v, most)'
    <3>1. PICK e : e = cache[i]
      OBVIOUS
    <3>2. /\ e = [version |-> e.version, age |-> e.age] /\ e.age \in Nat
          /\ e.version # Fixed => Young(i, e.version, e.age + FetchMax)
      BY <3>1 DEF FreshInv, CacheKept
    <3>3. CASE e.version = Fixed
      <4>1. cache'[i] = e
        BY <1>1, <3>1, <3>3
      <4> QED
        BY <3>2, <3>3, <4>1
    <3>4. CASE e.version # Fixed
      <4>1. PICK v, n, f : /\ v = e.version /\ n = Older(e.age, CacheTTL + 1)
                           /\ f = [version |-> v, age |-> n]
        OBVIOUS
      <4>2. cache'[i] = f /\ f.version = v /\ f.age = n
        <5>1. [e EXCEPT !.age = Older(@, CacheTTL + 1)] = f
          BY <3>2, <4>1
        <5>2. cache'[i] = [e EXCEPT !.age = Older(@, CacheTTL + 1)]
          BY <1>1, <3>1, <3>4
        <5> QED
          BY <4>1, <5>1, <5>2
      <4>3. n \in Nat /\ e.age <= n /\ (e.age + 1 <= n \/ CacheTTL + 1 <= n)
        BY <1>3, <3>2, <4>1 DEF Older
      <4>4. PICK most, more : most = e.age + FetchMax /\ more = n + FetchMax
        OBVIOUS
      <4>5. /\ most \in Nat /\ more \in Nat /\ most <= more
            /\ most + 1 <= more \/ Cap <= more
        BY <1>3, <3>2, <4>3, <4>4 DEF Cap
      <4>6. Young(i, v, more)'
        BY <1>6, <3>2, <3>4, <4>1, <4>4, <4>5
      <4> QED
        BY <4>1, <4>2, <4>3, <4>4, <4>6
    <3> QED
      BY <3>3, <3>4
  <2>2. cache' = [i \in world'.secrets |-> cache'[i]]
    BY <1>1, <1>2
  <2> QED
    BY <1>2, <2>1, <2>2 DEF CacheKept, Young, Current
<1>8. AllWait'
  <2>1. ASSUME NEW u \in Tabs, NEW c, c = tab'[u] PROVE Waits(c)'
    <3>1. PICK d : d = tab[u]
      OBVIOUS
    <3>2. Waits(d)
      BY <3>1 DEF FreshInv, AllWait, Places
    <3>3. CASE d.at \notin {"asked", "read"}
      <4>1. c = d
        BY <2>1, <3>1, <3>3 DEF Tick
      <4> QED
        BY <3>2, <3>3, <4>1 DEF Waits
    <3>4. CASE d.at \in {"asked", "read"}
      <4>1. d.wait < FetchMax /\ c = [d EXCEPT !.wait = @ + 1]
        BY <2>1, <3>1, <3>4 DEF Tick
      <4>2. CheckOf(d)
        BY <3>1, <3>4, PlaceFacts DEF IInv, Checking
      <4>3. d.wait \in 0 .. FetchMax
        BY <3>2, <3>4 DEF Waits, Checking
      <4>4. PICK wait : wait = d.wait + 1
        OBVIOUS
      <4>5. /\ c.at = d.at /\ c.gate = d.gate /\ c.who = d.who /\ c.prior = d.prior
            /\ c.got = d.got /\ c.wait = wait
        BY <4>1, <4>2, <4>4 DEF CheckOf
      <4>6. wait \in 0 .. FetchMax
        BY <1>3, <4>1, <4>3, <4>4
      <4>7. Account(c) = Account(d)
        BY <4>5 DEF Account
      <4>8. ASSUME d.at = "read", NEW i \in References(d.gate, Account(d))
            PROVE  Young(i, c.got, c.wait)'
        <5>1. d.gate \in Gates
          BY <4>2 DEF CheckOf
        <5>2. i \in Secrets
          BY <4>8, <5>1, OneReference DEF FreshInv
        <5>3. Young(i, d.got, d.wait)
          BY <3>2, <4>8 DEF Waits, Checking
        <5>4. PICK v, most : v = d.got /\ most = d.wait
          OBVIOUS
        <5>5. most \in Nat /\ wait \in Nat /\ most <= wait /\ most + 1 <= wait
          BY <1>3, <4>3, <4>4, <5>4
        <5>6. Young(i, v, wait)'
          BY <1>6, <5>2, <5>3, <5>4, <5>5
        <5> QED
          BY <4>5, <5>4, <5>6
      <4> QED
        BY <1>1, <4>5, <4>6, <4>7, <4>8, SameReferences DEF Waits
    <3> QED
      BY <3>3, <3>4
  <2> QED
    BY <2>1 DEF AllWait, Places
<1> QED
  BY <1>1, <1>5, <1>7, <1>8 DEF FreshInv

\* Every step keeps what is cached and held young.
LEMMA FreshStep ==
    ASSUME IInv, FreshInv, [Next]_vars
    PROVE  FreshInv'
<1>1. ASSUME NEW t \in Tabs, TabStep(t) \/ SubmitRefused(t) \/ Fails(t) PROVE FreshInv'
  <2>1. UNCHANGED <<world, vault>> /\ (UNCHANGED cache \/ Remember(t))
    BY <1>1 DEF TabStep, OpenForm, SubmitStale, SubmitBurnt, Submit, SubmitRefused, Step, Panics,
                Secret, Fetch, Remember, Fails, Accepted
  <2>2. AllWait'
    <3>1. Spoils(t) /\ Waits(tab'[t])
      BY <1>1, TabSpoils, TabWaits
    <3> QED
      BY <2>1, <3>1, AllWaitStays
  <2>3. VaultKept' /\ CacheKept'
    BY <2>1, CacheStays, RememberFresh
  <2> QED
    BY <2>1, <2>2, <2>3 DEF FreshInv
<1>2. CASE UNCHANGED vars
  <2>1. UNCHANGED <<world, vault, cache, tab>>
    BY <1>2 DEF vars
  <2>2. VaultKept' /\ CacheKept'
    BY <2>1, CacheStays
  <2>3. AllWait'
    <3>1. ASSUME NEW c \in Places PROVE Waits(c)'
      BY <2>1, <3>1, WaitsStay DEF FreshInv, AllWait
    <3> QED
      BY <2>1, <3>1 DEF AllWait, Places
  <2> QED
    BY <2>1, <2>2, <2>3 DEF FreshInv
<1> QED
  BY <1>1, <1>2, RotateFresh, TickFresh DEF Next

\* At the start no secret is cached and no check waits for one.
LEMMA FreshInit ==
    ASSUME Init
    PROVE  FreshInv
<1>1. /\ world \in Worlds /\ tab = [t \in Tabs |-> Idle]
      /\ vault = [i \in world.secrets |-> <<>>] /\ Secrets = world.secrets
      /\ cache = [i \in world.secrets |-> [version |-> Fixed, age |-> 0]]
  BY DEF Init, Secrets
<1>2. VaultKept
  BY <1>1 DEF VaultKept
<1>3. CacheKept
  BY <1>1 DEF CacheKept
<1>4. AllWait
  BY <1>1 DEF AllWait, Places, Waits, Idle, Checking
<1> QED
  BY <1>1, <1>2, <1>3, <1>4 DEF FreshInv

\* No value in the cache and no value on its way to a provider has been out of
\* date for longer than its age and the longest fetch.
THEOREM FreshInvariance == Spec => [](IInv /\ FreshInv)
<1>1. Init => IInv /\ FreshInv
  BY IInvInit, FreshInit
<1>2. IInv /\ FreshInv /\ [Next]_vars => (IInv /\ FreshInv)'
  BY IInvStep, FreshStep
<1> QED
  BY <1>1, <1>2, PTL DEF Spec

\* What Store.Get hands to a provider is young enough.
LEMMA GetFresh ==
    ASSUME IInv, FreshInv, NEW t \in Tabs, Secret(t) \/ Remember(t),
           tab'[t].at = "check", tab'[t].todo # tab[t].todo,
           NEW id \in References(tab[t].gate, Account(tab[t]))
    PROVE  tab'[t].got = Current(id) \/ vault[id][tab'[t].got] <= CacheTTL + FetchMax
<1>1. PICK c : c = tab[t]
  OBVIOUS
<1>2. c.at \in {"check", "read"} /\ CheckOf(c) /\ Waits(c)
  BY <1>1, PlaceFacts DEF IInv, FreshInv, AllWait, Places, Secret, Remember, Checks, At, Checking
<1>3. /\ id \in References(c.gate, Account(c)) /\ id \in Secrets
      /\ \A i \in References(c.gate, Account(c)) : i = id
  BY <1>1, <1>2, OneReference DEF FreshInv, CheckOf
<1>4. /\ vault[id] \in Seq(Nat) /\ CacheTTL \in Nat /\ FetchMax \in Nat
  BY <1>3, SignInAssumption DEF FreshInv, VaultKept
<1>5. ASSUME NEW v, NEW most \in Nat, most <= CacheTTL + FetchMax, Young(id, v, most),
             tab'[t].got = v
      PROVE  tab'[t].got = Current(id) \/ vault[id][tab'[t].got] <= CacheTTL + FetchMax
  <2> SUFFICES ASSUME v # Current(id) PROVE vault[id][v] <= CacheTTL + FetchMax
    BY <1>5
  <2>1. v \in 1 .. Len(vault[id]) /\ vault[id][v] <= most
    BY <1>4, <1>5 DEF Young, Current
  <2>2. vault[id][v] \in Nat
    BY <1>4, <2>1
  <2> QED
    BY <1>4, <1>5, <2>1, <2>2
<1>6. CASE Remember(t)
  <2>1. c.at = "read" /\ tab'[t].got = c.got
    BY <1>1, <1>2, <1>6, GoesTab DEF Remember, At, Checking
  <2>2. c.wait \in 0 .. FetchMax /\ Young(id, c.got, c.wait)
    BY <1>2, <1>3, <2>1 DEF Waits, Checking
  <2> QED
    BY <1>4, <1>5, <2>1, <2>2
<1>7. CASE Secret(t)
  <2>1. \A told : ~Rejected(t, told)
    BY FormTab DEF Rejected
  <2>2. tab' # [tab EXCEPT ![t].at = "asked"]
    <3> SUFFICES ASSUME tab' = [tab EXCEPT ![t].at = "asked"] PROVE FALSE
      OBVIOUS
    <3>1. tab'[t] = [c EXCEPT !.at = "asked"]
      BY <1>1 DEF IInv, TabsPlaced
    <3>2. tab'[t].at = "asked"
      BY <1>2, <3>1 DEF CheckOf
    <3> QED
      BY <3>2
  <2>3. PICK e \in cached(id) : Goes(t, e.version)
    BY <1>1, <1>3, <1>7, <2>1, <2>2 DEF Secret
  <2>4. tab'[t].got = e.version
    BY <1>1, <1>2, <2>3, GoesTab DEF Checking
  <2>5. e = cache[id] /\ e.version # Fixed /\ e.age <= CacheTTL
    BY <2>3 DEF cached
  <2>6. e.age \in Nat /\ Young(id, e.version, e.age + FetchMax)
    BY <1>3, <2>5 DEF FreshInv, CacheKept
  <2>7. PICK v, most : v = e.version /\ most = e.age + FetchMax
    OBVIOUS
  <2>8. most \in Nat /\ most <= CacheTTL + FetchMax
    BY <1>4, <2>5, <2>6, <2>7
  <2> QED
    BY <1>5, <2>4, <2>6, <2>7, <2>8
<1> QED
  BY <1>6, <1>7

\* Store.Get: a secret that was changed is not handed to a provider later than
\* cacheTTL and the longest fetch after the change, whatever fetches overlap.
THEOREM SecretsFresh == Spec => SecretFresh
<1>1. ASSUME IInv, FreshInv, [Next]_vars, NEW t \in Tabs,
             tab[t].at # "form", tab'[t].at = "check", tab'[t].todo # tab[t].todo,
             Head(tab[t].todo) = "secret",
             NEW id \in References(tab[t].gate, Account(tab[t]))
      PROVE  tab'[t].got = Current(id) \/ vault[id][tab'[t].got] <= CacheTTL + FetchMax
  <2>1. PICK c : c = tab[t]
    OBVIOUS
  <2>2. tab'[t] # c
    BY <1>1, <2>1
  <2>3. ASSUME NEW u \in Tabs, u # t, TabStep(u) \/ SubmitRefused(u) \/ Fails(u) PROVE FALSE
    <3>1. Spoils(u)
      BY <1>1, <2>3, TabSpoils
    <3>2. tab'[t] = tab[t] \/ tab[t].at = "form"
      BY <2>3, <3>1 DEF Spoils
    <3> QED
      BY <1>1, <2>1, <2>2, <3>2
  <2>4. ASSUME TabStep(t) \/ SubmitRefused(t) \/ Fails(t) PROVE Secret(t) \/ Remember(t)
    <3>1. \A g, rotate, told : ~Page(t, g, rotate, told)
      BY <1>1, FormTab
    <3>2. ~(\/ \E g \in Gates : OpenForm(t, g)
            \/ SubmitRefused(t) \/ Fails(t))
      BY <3>1 DEF OpenForm, SubmitRefused, Fails, Rejected
    <3>3. ~(\/ SubmitStale(t) \/ SubmitBurnt(t)
            \/ \E who \in world.people, kind \in {"right", "wrong", "empty"} : Submit(t, who, kind))
      BY <1>1 DEF SubmitStale, SubmitBurnt, Submit, At
    <3>4. ~Step(t)
      BY <1>1 DEF Step
    <3>5. tab'[t] # Idle
      BY <1>1 DEF Idle
    <3>6. ~Panics(t)
      <4> SUFFICES ASSUME Panics(t) PROVE FALSE
        OBVIOUS
      <4>1. tab' = [tab EXCEPT ![t] = Idle]
        BY DEF Panics
      <4>2. tab'[t] = Idle
        BY <1>1, <4>1 DEF IInv, TabsPlaced
      <4> QED
        BY <3>5, <4>2
    <3>7. ~Accepted(t)
      BY <3>1, <3>5 DEF Accepted, Rejected
    <3>8. ~Fetch(t)
      <4> SUFFICES ASSUME Fetch(t) PROVE FALSE
        OBVIOUS
      <4>1. c.at = "asked" /\ CheckOf(c)
        BY <1>1, <2>1, PlaceFacts DEF Fetch, At, IInv, Checking
      <4>2. PICK v : tab' = [tab EXCEPT ![t].at = "read", ![t].got = v]
        BY DEF Fetch
      <4>3. tab'[t] = [c EXCEPT !.at = "read", !.got = v]
        BY <1>1, <2>1, <4>2 DEF IInv, TabsPlaced
      <4>4. tab'[t].at = "read"
        BY <4>1, <4>3 DEF CheckOf
      <4> QED
        BY <1>1, <4>4
    <3> QED
      BY <2>4, <3>2, <3>3, <3>4, <3>6, <3>7, <3>8 DEF TabStep
  <2>5. ASSUME Tick PROVE FALSE
    <3>1. c.at \in {"asked", "read"} /\ tab'[t] = [c EXCEPT !.wait = @ + 1]
      BY <2>1, <2>2, <2>5 DEF Tick
    <3>2. CheckOf(c)
      BY <1>1, <2>1, <3>1, PlaceFacts DEF IInv, Checking
    <3>3. tab'[t].at = c.at
      BY <3>1, <3>2 DEF CheckOf
    <3> QED
      BY <1>1, <3>1, <3>3
  <2>6. ~(\E i \in Secrets : Rotate(i)) /\ ~UNCHANGED vars
    BY <2>1, <2>2 DEF Rotate, vars
  <2>7. Secret(t) \/ Remember(t)
    BY <1>1, <2>3, <2>4, <2>5, <2>6 DEF Next
  <2> QED
    BY <1>1, <2>7, GetFresh
<1>2. IInv /\ FreshInv /\ [Next]_vars =>
        [\A t \in Tabs :
           /\ tab[t].at # "form" /\ tab'[t].at = "check" /\ tab'[t].todo # tab[t].todo
           /\ Head(tab[t].todo) = "secret"
           => \A id \in References(tab[t].gate, Account(tab[t])) :
                tab'[t].got = Current(id) \/ vault[id][tab'[t].got] <= CacheTTL + FetchMax]_vars
  BY <1>1
<1> QED
  BY <1>2, FreshInvariance, PTL DEF Spec, SecretFresh

(***************************************************************************)
(* Accepted sources                                                        *)
(***************************************************************************)

\* The durations of a source: what its file says, of any sign.
Durations == {"ttl", "max", "renew", "listTTL", "grace"}

\* What Validate accepts and fills in has the times that SessionLife and
\* GateFlow assume of a source: a session that ends, a limit that is not below
\* it, a renewal before it ends (one that is not positive is none: renewAt),
\* and, with a list, records that do not outlive the session and a grace that
\* is a window and not a second session.
THEOREM AcceptedTimes ==
    ASSUME NEW s, Durations \subseteq DOMAIN s, \A d \in Durations : s[d] \in Int,
           Validate(s)
    PROVE  LET n == Normalised(s) IN
           /\ n.ttl \in Nat \ {0}
           /\ n.max \in Nat /\ (n.max # 0 => n.ttl <= n.max)
           /\ n.renew < n.ttl
           /\ Enabled(n) => /\ 0 < n.listTTL /\ n.listTTL <= n.ttl
                            /\ 0 < n.grace /\ n.grace <= 5 * Minute
<1>1. s.ttl \in Int /\ s.max \in Int /\ s.renew \in Int /\ s.listTTL \in Int /\ s.grace \in Int
  BY DEF Durations
<1>2. /\ s.ttl > 0 /\ (s.renew # 0 => s.renew < s.ttl) /\ (s.max # 0 => s.ttl <= s.max)
      /\ Enabled(s) => Normalised(s).listTTL <= s.ttl /\ Normalised(s).grace <= 5 * Minute
  BY DEF Validate, SessionRules, ListRules
<1>3. PICK n : n = Normalised(s)
  OBVIOUS
<1>4. n.ttl = s.ttl /\ n.max = s.max /\ n.renew = s.renew /\ n.sessions = s.sessions
  BY <1>3 DEF Normalised, Durations
<1>5. n.ttl \in Nat \ {0} /\ n.max \in Nat /\ (n.max # 0 => n.ttl <= n.max)
  BY <1>1, <1>2, <1>4
<1>6. n.renew < n.ttl
  BY <1>1, <1>2, <1>4
<1>7. ASSUME Enabled(n)
      PROVE  /\ 0 < n.listTTL /\ n.listTTL <= n.ttl
             /\ 0 < n.grace /\ n.grace <= 5 * Minute
  <2>1. Enabled(s)
    BY <1>4, <1>7 DEF Enabled
  <2>2. /\ n.listTTL = IF s.listTTL <= 0 THEN s.ttl ELSE s.listTTL
        /\ n.grace = IF s.grace <= 0 THEN 2 * Second ELSE s.grace
    BY <1>3, <2>1 DEF Normalised, Durations
  <2>3. n.listTTL <= s.ttl /\ n.grace <= 5 * Minute
    BY <1>2, <1>3, <2>1
  <2>4. 0 < n.listTTL /\ n.listTTL <= n.ttl
    BY <1>1, <1>2, <1>4, <2>2, <2>3
  <2>5. 0 < 2 * Second
    BY DEF Second
  <2>6. 0 < n.grace
    BY <1>1, <2>2, <2>5
  <2> QED
    BY <2>3, <2>4, <2>6
<1> QED
  BY <1>3, <1>5, <1>6, <1>7

=============================================================================
