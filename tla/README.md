# A TLA+ model of Placitum auth

Placitum auth is a login gate in front of an application: an *inspector* that answers every request
of a route with allow, redirect, deny or error, and a *login form* that issues, renews and ends
sessions. This directory holds a model of the parts of it that keep state, TLC runs that check them on small
instances, and TLAPS proofs for every instance.

    tlasany M.tla                          parse a module
    tlc -workers 2 -config X.cfg MCM       check a run (the run's module is in PROJECT.json)
    tlapm MProofs.tla                      check the proofs about M (three of them are about two modules)

`PROJECT.json` lists the components, the runs, the source lines behind every definition, the hazards,
the findings and the theorems.

## The system

| Part | State | Operations | Talks to | What is hard about it |
| --- | --- | --- | --- | --- |
| sessions (`cmd/http/server.go`, `login.go`, `internal/token`) | sealed cookies in browsers, records on a list | sign-in, renew, sign-out | the list keeper over NATS, the profile store | the cookie cannot be taken back, the list is asynchronous, times are cut to seconds |
| gate decision (`internal/decide`) | none | `Check` | the list mirror, asks of other inspectors | many early returns over three kinds of credential; redirects can loop |
| attempts (`login.go`, `internal/roster`) | counters and locks in Redis, a channel of slots | `submit` | Redis, the provider | parallel submits, single Redis calls that may fail, keys that expire |
| single use (`login.go`, `internal/otp`) | burnt nonces and codes in Redis | `submit`, `burnCode` | Redis, the clock | the test of the clock and the burning are apart |
| queue (`internal/queue`) | a queue, one mutex, one condition | `Submit`, `work`, `sweep`, `Close` | NATS callbacks, the handler | lost wake-ups, double answers, closing |
| list mirror (`internal/livelist`) | a composition per list | frames, packages, snapshots | the keeper over NATS, Redis | loss, gaps, epochs, evicted objects |
| generations (`internal/desired`, `internal/config/profiles.go`) | trees on disk, a snapshot in memory | `Apply`, `Bootstrap`, `Reload` | the KV bucket, the ticker, SIGHUP | crashes between renames, roll-back, reloads without a lock |
| audit sink (`internal/audit/sink.go`) | a bounded buffer | `Add`, `loop`, `Close` | NATS | overflow, wake-ups after the unlock, closing |
| learning (`cmd/inspector/learn.go`, `internal/learn`) | records on the list | `observe` | the application's responses, stored headers | workers in any order, headers that are gone |
| inspector handler (`cmd/inspector/handler.go`) | none | receive, evaluate, inspect, send | everything above | one answer per message on every path, panics included |
| sign-in over several gates (`server.go`, `login.go`, `internal/provider`) | the browser's cookies | `page`, `submit`, `Verify` | directories, the secrets cache | tabs share the jar, gates take identities from each other, many calls may fail in one check |
| secrets cache (`internal/secrets`) | secrets with the time they were fetched | `Get` | the controller over HTTP | overlapping fetches of a changing secret |
| configuration (`internal/config`) | | `Validate`, `Store.read` | files | which trees are accepted |
| JWT, codecs, object store | | | | pure functions |

The two processes share only the list (each has its own mirror), Redis and the generations. A cookie
says that a session was issued; the record on the list says that it has not been ended; the roster in
Redis keeps sign-in from being tried too often or twice with the same ticket.

## Modules

`MC<Module>` adds the symmetry set and the model values that TLC needs, if any, nothing else. An operator whose
comment begins with "Mutant of" is a plausible mistake in the code it names: it is not used by the
specification, and the runs must find it.

**SessionLife.** `tokens` is every cookie ever handed out, in any copy, since a browser may present any
of them. `log` is the sequence of list commands and `mirror[p].seq` the prefix that process *p* has
applied, which is what PrefixMirror promises. `handler` holds requests of the form between the read of
the users and the building of the session ("verify") and between that and the issue ("issue"). One action
per operation: `LoginStart`, `LoginAccepted`, `RenewGranted`, `RenewRefused` (with `forget`), `Issue`
(with `remember`), `Logout`, `PanelRemove`, `UserChange` for a reload, and the moves of the mirrors. Time is in ticks; `Floor`
is `time.Unix`. `signedIn`, `replacedAt`, `offSince` and `lost` are history. Paths of `renew` that only redirect change
nothing and have no action. A publish may fail, as it does in `remember` and `forget`.

**GateFlow.** `Check` and its helpers keep the names and the order of `decide.go`; `inspect` adds what
`handler.inspect` does around it (store and geo faults, the form that cannot be inlined). The browser follows redirects to the form or the
renewal and comes back. Ages replace times, because only differences matter to the decision; `Lead` is the lead of the
inspector's clock over the form's. `Genuine` is a second, independent statement of what a valid credential is. `Result.user` is whose
name the application reads: that of the session, an empty one, or the client's own where `allow` sets no header, which is in a
profile in mode off without a source and with a source that leaves `upstream.user` empty.

**LoginAttempts.** A submit is a program over single Redis calls: lock test, count, lock or second lock
test per scope, slot, check, then clear or lock. Any call may fail, `MaxFaults` of them in a behaviour. Keys expire at any moment,
which covers every value of `lockout.window` and `lockout.lock`. A check may panic, which ends its submit and keeps its slot. `counted` is history: who was counted in a scope since it
last started anew.

**OneTimeUse.** The clock, tickets, burnt keys and submits between the test and the burning. `CheckSpan`,
`CodeSpan` and `ReturnSpan` bound how long these take; the properties name the relation between them that they need. The key of a burnt code
is the subject, as one of its `Spellings`, with the code; the secret, and with it which codes are right, is the same for all of them.

**QueuePool** and **PoolPromise.** PoolPromise is what the queue promises the handler: it is called once for every task, with
a reason that is true at that moment ("limit" only while the queue is full, "deadline" only when time is up or the pool closed,
"checked" only in time), and `Close` returns when only callers hold tasks. QueuePool implements it; Inspector is built on it.
In QueuePool there is one action per hold of the mutex. `waiting` is the set in `cond.Wait`; `Signal` takes any one out of
it, `Broadcast` all. `hand` are expired tasks that a goroutine took and must answer after the unlock.
`timer` has its own life, because `timer.Stop` may come too late. `full` is `queue_full`, chosen at the start.

**ListMirror** and **PrefixMirror.** The keeper (not in this repository) is modelled from what the
mirror expects of it: `hist` is everything it ever had. The mirror's goroutine is between two calls to NATS or Redis in
each state. PrefixMirror is the abstract specification: the mirror answers with a composition that the
list really had and never goes back, apart from a snapshot that did not give the keeper's hash (`misread`, history; the code marks it
with `snapBad`). ListMirror implements it under the mapping `Prefix`.

**ConfigApply.** The trees `profiles` (live), `.prev` and `.next` as sets of parts, each part with the manifest it is from;
one action per file operation of `Apply`, one per read of `Reload`. `Restart` is a crash and the start after it. A removal may
fail and leave any of what it has not unlinked. That of a rejected live tree, which Reload and a start can see, is more than one step
(`Unlink`, `Unlinked`): the tree without the parts that do not load is there for a while. `crossed` and `torn` are history:
that the snapshot in use was stored by a Reload that the tree moved under, and which trees, and whether that snapshot, come from a removal
that left something. Of `.prev`, which nobody reads, it only matters that something is there.

**AuditSink.** `Add` under the mutex, `kick` after it, the select, one round of `flush`, `publish`.

**Inspector.** The process around its queue: the client's buffer and its limit, `receive` on the one delivery goroutine, the pool
as an instance of PoolPromise, `evaluate` with its three ways (shed, inspected, panicked), list rules for events and
overload, the two halves of `send` (publish, then `audit.Add`) and the shutdown in the order of `run`. Which
verdict `inspect` comes to is GateFlow's matter and does not appear. A fallback reply after a panic has no audit record
(`recoverInto` passes no request); panics within `send` itself are left out. `fill` is `Task.Fill`, reset when the task is gone.

**SourceRules.** `source.go` and the part of `profiles.go` that reads sources, as operators over records: what each provider
accepts, what `Validate` fills in, and what `read` tests across sources. A text is there or not (`malformed`
says that its shape is wrong); YAML is not modelled.

**SignIn.** A browser with tabs and one jar of cookies (name and path, the longer path first, as `cookieValue` gets them) at the gates of a tree that
`Reads` accepts. `tab` is what a tab shows or which step of `Verify` its submit waits for: `Steps` gives for each provider the
sequence of what is asked of the user file, the secrets store and the directory, and every one of them may
fail. The subject at a gate of static codes is the login that was posted beside the code, anybody's. `Secret`, `Fetch` and `Remember` are `secrets.Store.Get`. `vault` counts for how long each value of a secret has been replaced. The
worlds in MCSignIn differ in the tree, the people and the directory.
Assumed there: one NTLM domain, the login is the `sAMAccountName`, every code typed is new, sessions do not expire, `WAF_AUTH_KEY` is the same in
all processes, a secret changes in the store and in the directory or authenticator at once, and the
directory puts no other restriction on an account.

**LearnApp.** The application, the browser and the proxy around `observe`; `Mishaps` says which
of the four things that can go wrong may; `blind` and `missed` are history, the cookies that such a mishap was about. A rejected login
may set no cookie, the old one or a fresh one, with any status; `lookalike` is history, the fresh ones with a status of `learn.success`.

Order of work: sessions first, because everything else serves them; then the form's limits
(LoginAttempts, OneTimeUse), what every request passes through (QueuePool, GateFlow), what both processes depend on
(ListMirror, ConfigApply), what hangs on the inspector (AuditSink, LearnApp), then the processes around these parts (Inspector,
SignIn). SessionLife counts on PrefixMirror, which ListMirror implements; Inspector on PoolPromise, which
QueuePool implements; SignIn on SourceRules.

## Runs

Every passing run finishes within three minutes on two cores. Only QueuePool (the bound on the queue) and SessionLife state a
type invariant; the proof modules state those of the others. Deadlock checking is off where the bound on submits, tasks, publications or
records really ends a behaviour. Symmetry is used in runs without temporal properties only.

| Run | What it shows | Bounds and why they are enough |
| --- | --- | --- |
| SessionLife | types, `LifeBound`, `UserLossBound`, `RemovalBites`, `NoFalseRevoke` | list on, half-second ticks, ttl 4, max_ttl 6, 6 ticks: renewals up to max_ttl; the user disabled and back, a second password, before, during and after a check; grace 2 is exactly the round trip plus the cut to seconds, so that its last moment matters; two commands and any number of lost ones; one request of the form at a time and an issue that takes no time. `NoFalseRevoke` for overlapping requests is the proof's part: the instance with two of them and `IssueSpan` 1 has ten million states |
| SessionEnded | violation of `EndedStaysEnded` | one session, three commands: added, removed and added again; see findings |
| LoginAttempts | `GuessBound`, `SlotsAccounted` | one attempt, three submits with one or two scopes each: a lock, the deletion of the counter, a submit that starts it anew and one that is stopped in the other scope; one call may fail, anywhere; two slots, so that panics use them up |
| OneTimeUse | `TicketOnce`, `CodeOnce` | two submits, half-second ticks, a ttl of 4 or 5 ticks: two submits at both edges of every window; two spellings of the login |
| QueuePool | types with the bound on the queue, `OnePlace`, `NoLostWakeup`, `KeepsPromise` (implements PoolPromise), `EveryTaskAnswered`, `CloseReturns` | both modes of `queue_full`; three callers, two workers, one place: two callers wait while workers sleep, the sweeper runs and Close comes at any time |
| ListMirror | `MirrorSound`, `IsPrefixMirror`, `CatchesUp` | two epochs, four compositions, a buffer of one frame, reads of two packages: gaps, stale frames, old packages at the keys of the new epoch |
| GateFlow | `GateHolds`, `IdentityGenuine`, `NoLoop` | every mode, kind of provider, list, groups, inline form (of external sources too), ask, with and without a source and `upstream.user`, an unknown profile, a ticket that is not sealed; ttl 4, max_ttl 6, renewal and reauth at 2, lead 1: renewals up to max_ttl |
| ConfigApply | `ServesGenerations`, `RestartSame`, `HonestReport`, `Converges`, `FreshInTheEnd` | five manifests, good and bad in three ways, three publications, a crash anywhere, also within a removal, one failing file operation, one caller of Reload (the ticker): a good generation, a refused one and a third over what these left |
| AuditSink | `Accounted`, `InOrder`, `FullWakes`, `EveryRecordLeaves`, `CloseDrains` | batches of 2, a buffer of 3, 4 records: cut, wake by number and by size, two subjects |
| LearnApp | `TrustsAccepted`, `LogoutEnds` | two cookies, two users, two responses at once, all four mishaps: a visit and a login, or two logins, accepted or rejected with any cookie, in parallel with a logout |
| Inspector | `HandledOnce`, `ShutdownAccounted`, `AnsweredInTheEnd` | a queue of one, one worker, a client buffer of two (`Spare` 0 for main.go's 2), up to three messages in four mixes: full queue, full buffer, every kind of message, two rules, one failing publish, SIGTERM at any moment |
| SignIn | `VerifiedGenuine`, `Blameless`, `SecretFresh`, `GatesOpen` | two tabs, two gates, fifteen accepted trees; one wrong attempt, one fault, one changed secret; a cache and a fetch of one tick each: two overlapping fetches around a change |

### Fairness

- QueuePool: weak fairness of every goroutine's next step (the Go scheduler), of deadlines passing, of the sweeper's
  ticker and of the second half of Close once the first is done. No submit is assumed to happen.
- ListMirror: weak fairness of the mirror's goroutine and of `resync`; strong fairness of a heard tick, an
  answered request and a read object: NATS and Redis fail any number of times, not for ever.
- ConfigApply: weak fairness of the watcher's goroutine and of each caller of Reload. Crashes and faults are bounded.
- AuditSink: weak fairness of the goroutine with its ticker; strong fairness of the stop case, because a
  Go select chooses among the ready cases at random.
- Inspector: weak fairness of the process as a whole (`Goes`). No message comes to the same place twice, so that each goroutine's fairness
  gives no more. Calls within an evaluation have timeouts, which is why every evaluation ends. Messages and SIGTERM need not come.
- SignIn: weak fairness of each tab, for a user who goes on until every gate is passed, and of the clock. Faults, wrong attempts and
  changed secrets are bounded; which form a user opens and which tab goes first is free.

The other modules state safety only.

### Findings

**SessionEnded.** README.md:82 says that removing the record ends a session. `renew` tests the list in `alive` and
adds the record in `issue`: a renewal that overlaps the removal, or within `list.grace`, brings the session back.

Other places where the code and the words about it part, met while modelling and kept out of the properties by a named condition:

- README.md:100 calls the address lock shared by every profile of the process; `lockScopes` (login.go:375) puts the source into the key, and
  `GuessBound` is stated per scope.
- README.md:97 says that a ticket is single-use; the nonce is burned for the *current* ticket.ttl (login.go:74), which a reload may have made
  shorter than the life of the ticket. `TicketOnce` needs `TicketTimely`; with `TicketTTLs = {2, 5}` a ticket is taken twice.
- INSTALL.md:14 says that the gate is silent until a generation has come; a crash between the two renames of `Apply` (desired.go:183, 193)
  leaves no live tree, and `Bootstrap` starts with the silent profile until the watch brings the generation again. `RestartSame` speaks of the
  time between two updates, `Converges` of the end.
- README.md:54 says that the cookie of an accepted login is trusted; with the stored request headers gone `observe` (learn.go:81-86) compares the
  issued cookie with nothing, and a rejected login may be learned. `TrustsAccepted` leaves out the cookies in `blind`. Nor does `observe` tell
  a rejected login from an accepted one if the application answers it with 200, 302 or 303 (source.go:737) and a fresh session cookie
  (learn.go:127): it is learned under the name that was typed. `TrustsAccepted` leaves out the cookies in `lookalike`.
- README.md:107-113 says that the headers are set every time, even empty. `allow` sets them only for a profile that has a source
  (decide.go:630) and for a header that the source names: in mode off a profile needs no source (profile.go:599; the default profile of
  deploy/Dockerfile:39 has none), and the client's own `X-WAF-User` goes through. `IdentityGenuine` names both cases.
- `release()` is called after the provider returns, not deferred (login.go:124): a provider that panics keeps its slot of `server.verify`, and
  after `WAF_AUTH_VERIFY_LIMIT` panics nobody signs in until the process restarts. `SlotsAccounted` counts the panicked checks.
- `burnCode` burns the subject, as the first gate spells it, with the code (login.go:335), while the secret is looked up by the lower-cased login
  (code.go:55): where a bind without a search keeps the typed case (ldap.go:385), Alice and alice use one code twice. `CodeOnce` is
  stated for each spelling.
- A static code belongs to nobody, but the login posted beside it becomes the subject of the session (code.go:126; "code" is only what an empty one
  gives). `VerifiedGenuine` says of such a gate that a right code was typed, and a TOTP gate after it is not `Workable`: it asks for the secret of
  whoever was named.
- INSTALL.md:14 speaks of generations. `Store.Reload` (profiles.go:164) takes no lock: reading across two updates it may store the sources of one
  generation with the profiles of the next and the fingerprint of the last, and no later Reload repairs it. `FreshInTheEnd` is about the
  fingerprint only, and the other properties name the case (`crossed`).
- INSTALL.md:14 also leaves no room for this: `os.RemoveAll` of a refused live tree (desired.go:204) unlinks file by file, and its error is dropped.
  A start after a crash in it, a Reload beside it or after its failure may find the refused manifest without the file that did not load,
  and serves the rest. What a failing `RemoveAll` of the staging tree leaves (desired.go:171) goes into the next generation.
  `ServesGenerations` and `HonestReport` name it (`torn`); that nothing else makes such a tree is what they say.
- `validateCode` accepts ten digits and any positive period. The modulus of ten digits overflows 32 bits (otp.go:69), so that about a third of the
  right codes are refused; a period below one second divides by zero (otp.go:41). Both are in SignIn, and `Workable` excludes them; what the panic does to the slot
  is in LoginAttempts.
- `Store.read` compares session cookies with session cookies and ticket cookies with ticket cookies. A session cookie named like the ticket,
  list or upstream cookie of another source, or `identity.from` in a circle or to a `jwt` or `app` source, is accepted, and its
  gates need not open, or not stay open: `GatesOpen` needs `Workable`.
- A directory that refuses the search of a bound service account, or has no such base, is reported as "Access denied" or
  "Invalid credentials" (`ldapErr`, ldap.go:428), and the attempt counts; `Blameless` speaks of directories that can be read.

Behaviour that is by design and that properties state as an exception: a counter that fails lets a submit pass uncounted; in mode
observe an unavailable list, store or geo source is still an error; a snapshot marked bad holds a mirror back until the next epoch;
`reauth_after: 0`, or a clock lead beyond `LeadSmall`, does loop; submits count before the check, also while the provider is down; at shutdown, what is in the
client's buffer or in the hands of the delivery goroutine may go unanswered.

## Proofs

Eight modules hold theorems about the modules they extend: InspectorProofs about Inspector and LearnApp, QueuePoolProofs about QueuePool and AuditSink,
GateFlowProofs about GateFlow and ConfigApply, the others about the module they are named after. Every safety property that a passing run checks is
a theorem there, for every value of the constants that satisfies the module's
assumptions. The assumptions say which numbers are numbers, which sets are finite and which values differ; three say more:
`SessionAssumption` and `GateAssumption` have `TTL <= MaxTTL` and `RenewAfter < TTL`, which theorem `AcceptedTimes` of SignInProofs derives from
`Source.Validate` as SourceRules has it (a negative `renew_after` counts as none), and `WorldAssumption` of
SignIn says that a world has the secrets that its sources and user files refer to, and no name is left dangling. `MaxSize > 0` in AuditSink is
the 512 KiB of sink.go:18: with 0 the empty buffer would be full.

The theorems about LearnApp have a hypothesis: `learn.success.cookie_new` is on, as it is by default (`CookieNew`). Without it the status alone tells a
login from a rejected one, and neither property holds.

Hardly any of the invariants that the runs check is inductive. Each part therefore begins with an inductive one (`IInv`; `LearnInv`, `SinkInv` and `ConfigInv` for the
second modules), which theorem `Invariance` (`LearnInvariance`, ...) shows to hold
throughout; TLC checked each of them on the instance of the module's run before it was proved. What it adds is what the code relies on without
saying so:

| Module | Theorems | What the inductive invariant adds |
| --- | --- | --- |
| SessionLifeProofs | `TypeCorrect`, `LifeBounded`, `UserLossBounded` | `TokensKept`, `RequestsKept`: the two bounds for every cookie, also one that is not admitted now and would be renewed, and for every session between its building and its issue; `OffKept`: the history agrees with the user |
| | `RemovalsBite`, `NeverFalselyRevoked` | `ListInv`: a mirror that answers has every command that has gone round; all cookies of a session carry the second of its sign-in; the record of a cookie is in the log no later than one second and an issue after it, and no later record of the session ends sooner by more than an issue |
| LoginAttemptsProofs | `NoExtraGuesses`, `SlotsKept` | `Bounded`: while a scope is open its counter covers everybody counted, and those who may still get their check fit in the limit; once it is locked, only those who have read the lock already count; the slots taken are the running and the panicked checks |
| OneTimeUseProofs | `TicketsOnce`, `CodesOnce` | `NonceKept`, `CodeKept`: a burnt key (a code's is one per spelling) outlives every submit that tested its ticket or code before; `BurnKept`, `ProofKept`: how old that test can be |
| QueuePoolProofs | `TypeCorrect`, `OnePlaceEach`, `NoWakeupLost`, `PromiseKept` | `Places`: a task is queued, in one goroutine's hands, at work or answered once, exactly when Submit has let it go; `Shape`: where each goroutine can be and who may wait; `LateOnly` |
| | `RecordsAccounted`, `RecordsInOrder`, `SinkWakes` | of AuditSink: `SizeKept`: `Sink.size` is the size of the buffer; `Ordered`: buffer, batch and each subject's publications ascend, and whatever has left the buffer is older than what is in it; `Sorted`: every record is somewhere, and what has left for good is in one place |
| InspectorProofs | `RepliesOnce`, `NothingLost` | `Stage`: how far a message has come, against what was done for it; `Somewhere`: none is nowhere; `Ending`: what `pool.Close` leaves |
| | `LearnedLogins`, `LogoutsEnd` | of LearnApp: `CookieIsNew`: the cookie of a login that `observe` has not seen is in no other response, not in the browser and not logged out, or it is `missed`; `NewAccepted`: a login that sets a cookie of its own with a status of success was accepted, or the cookie is a `lookalike`; `LoggedOut`: a cookie that was logged out is off the list or its logout is on its way to `observe` |
| GateFlowProofs | `GateKept`, `IdentityKept`, `NeverLoops` | `Returning`: what a browser brings back from the form or the renewal; `Current`: the last answer is one to what it presents |
| | `GenerationsServed`, `RestartsSame`, `ReportsHonest` | of ConfigApply: `Staged`: what lies at the three places of the tree at each step of `Apply`, whole or, where `torn` says so, what a removal has left; `ReloadsLoad`: what a Reload that is under way will store loads; `FollowsDisk`, `FollowsReport`: at each step, what is served is what the tree in use, or the last success, reads as, or already what the tree under trial does |
| ListMirrorProofs | `MirrorIsSound`, `PrefixKept` | `Numbered`: how the keeper numbers its compositions; `AllTrue`: every package in Redis, in the buffer or in hand leads from one of them to the next; `Standing`, `Newer`: where the set stands, and that no answer to a request is older |
| SignInProofs | `OnlyVerified`, `NobodyBlamed` | `Shown`: the steps that a check has behind it have shown what they ask (the right password, the prior identity, the entry in the directory); `JarIssued`: no session in the jar that was not issued |
| | `SecretsFresh`, `AcceptedTimes` | `FreshInv`: a cached value has been out of date no longer than its age and the longest fetch, one on its way no longer than it has waited |

How the arguments go:

- *SessionLife.* Lemmas about `Floor` and `expiryOf` carry the arithmetic; `AdmittedBeforeExpiry` links the inspector's decision to the expiry.
  The two bounds use no property of the list and hold even if it fails altogether. `NoFalseRevoke` holds for any number of overlapping renewals
  only while `now < Floor(expiry - IssueSpan)`: of two renewals of one session the one that was built first may publish last, and then the record
  ends up to one issue before the newer cookie. The invariant that would have covered the last moments is false, which is how this came to light.
- *LoginAttempts.* Each call to Redis is a step, and each has a lemma that keeps `Bounded` in the scope it touches. The proof does not use
  how many calls fail: `MaxFaults` is any number.
- *QueuePool.* Lemmas say what `Append`, `Tail` and `takeExpiredLocked` do to a queue without repetitions. `Kept` is a recursive function, so that
  what it keeps can be proved: the facts about it go by the least index at which they would fail (`Least`, from the
  library's `NatLessThanWellFounded`). `NoLostWakeup` compares the number of workers on their way with the number of tasks. `PromiseKept` maps every
  step of a goroutine to a step of PoolPromise or to none, and shows that `Close` answers what it took before it returns.
- *AuditSink.* `RecordsSplit` and `RecordsJoin` say what cutting and joining ascending sequences does to their order and their numbers; a batch, a cut and
  a subject's publications are all made of these. `sizeOf` and `grouped` are recursive functions: facts about them go by the least index, as above. The size after an `Add`
  is the sum of the longer buffer, or the sum anew after a cut, which is how `FullWakes` follows from the test of `Sink.size`.
- *Inspector.* The pool is used only through PoolPromise, so that QueuePoolProofs and InspectorProofs together cover the code with its mutex.
- *LearnApp.* The application hands out a cookie once; `observe` with `cookie_new` learns it only from the response that first carries it. So the record of a
  cookie can only come back after its logout if the browser had the cookie before `observe` saw the login, and that is a mishap.
- *GateFlow.* `OpenGenuine`: whatever the order of the tests in `open`, a session comes out exactly for a credential that `Genuine` accepts;
  the rest is a case analysis of `Check` over it.
- *ConfigApply.* `Old` is the tree in use, wherever `Apply` has moved it. Each file operation keeps it or, at the end, puts the new tree in its place, so
  that a crash at any step leaves a live tree that is whole, none, or one that `torn` names, which is only there from the first unlinking of a refused
  tree or after a failure. `RestartsSame` goes by `FollowsDisk`, which a failed file operation breaks;
  `ReportsHonest` goes by `FollowsReport`, which none does: a tree that fails to come back leaves the live place empty or with what a removal left of the refused one,
  never with another generation.
- *ListMirror.* `ApplyStep`: a package goes onto a ready set only if it leads on from where the set stands. `PrefixKept` needs `Newer`, since a snapshot replaces
  the set without looking at it.
- *SignIn.* `StepsFacts` gives what `Verify` of each provider has still to ask; a step that passes moves one `Left` into `Shown`. `NobodyBlamed` and
  `SecretsFresh` are action properties over the same invariants.

Some definitions of the model were given a form that can be reasoned about, with the same meaning: decisions by several overlapping conditions are chains of
IF in the order of the code (GateFlow, SignIn, ConfigApply, AuditSink), since the prover reads CASE as a set of equations, and `Kept`, `sizeOf` and `grouped` are functions.

Only model-checked: liveness, which is out of the prover's reach (`EveryTaskAnswered`, `CloseReturns`, `CatchesUp`, `Converges`, `FreshInTheEnd`,
`EveryRecordLeaves`, `CloseDrains`, `AnsweredInTheEnd`, `GatesOpen`). What a recursive function computes is proved only where it goes by a least
index; ENABLED, and with it the fairness conditions, is not used in any proof.
No module declares a RECURSIVE operator.

## Not modelled, and the plan

Not modelled: cryptography (sealing, bcrypt, RSA envelopes, JWT signatures: taken as sound), the LDAP protocol and its TLS settings, YAML, JSON and
decompression, the process file, the start and the heartbeat of the processes, the shutdown of the form's HTTP server, the probe, the
login page, the formatting of audit records. They keep no state that two steps could see differently. The in-memory roster does under a mutex what the
Redis one does with single commands, and allows fewer interleavings.

The plan is done: every safety property that the runs check is proved, and liveness stays with TLC. A change that gives the start of the processes, the
probe or the login page a state of its own would call for a module.
