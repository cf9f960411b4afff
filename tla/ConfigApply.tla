---------------------------- MODULE ConfigApply ----------------------------
(***************************************************************************)
(* How a process takes over the generations that the controller publishes: *)
(* the watcher writes each one to disk, swaps it for the one in use and    *)
(* reads it in, while the ticker and SIGHUP read the same tree again; the  *)
(* process may crash between any two file operations.                      *)
(*                                                                         *)
(* Code modelled: internal/desired/desired.go (Parse, Apply, write, Watch, *)
(* Bootstrap, Applied) and internal/config/profiles.go (LoadProfiles,      *)
(* ReloadFrom, Reload, Watch, read, fingerprint).  The KV bucket and the   *)
(* file system are external: a rename is atomic and fails onto a directory *)
(* that is there, a tree is written in two halves, a removal that fails    *)
(* leaves what it has not unlinked, and a watch starts with the value that *)
(* the bucket holds.  Nobody reads .next and .prev, so what a removal of   *)
(* these has left counts only when it has failed; of .prev only that       *)
(* something is there.                                                     *)
(***************************************************************************)
EXTENDS Integers, Sequences, FiniteSets

CONSTANTS
    Manifests,     \* what the controller publishes
    Unparsed,      \* manifests that desired.Parse rejects
    BadSources,    \* manifests with a source that does not load
    BadProfiles,   \* manifests with a profile that does not load
    Reloaders,     \* callers of Store.Reload: the ticker, SIGHUP
    MaxPublish,    \* bound on the publications
    MaxCrashes,    \* bound on the crashes
    MaxFaults,     \* bound on the file operations that fail
    None, Seed     \* no manifest; the bootstrap profiles

ASSUME ConfigAssumption ==
    /\ Unparsed \subseteq Manifests
    /\ BadSources \subseteq Manifests /\ BadProfiles \subseteq Manifests
    /\ None \notin Manifests /\ Seed \notin Manifests /\ None # Seed
    /\ MaxPublish \in Nat /\ MaxCrashes \in Nat /\ MaxFaults \in Nat

VARIABLES
    bucket,     \* the value in the KV bucket
    published,  \* how many times it was put
    inbox,      \* updates that the watcher has yet to take
    disk,       \* the trees profiles, .prev and .next of the data directory
    dir,        \* Store.dir: "seed" or "live"
    cur,        \* Store.cur
    job,        \* the Apply under way
    applied,    \* desired.Applied
    reload,     \* the Reload under way, by caller
    crossed,    \* history: cur was stored by a Reload that the tree moved under
    torn,       \* history: the trees with what a removal has left, and "cur" if read from one
    crashes, faults

configVars == <<bucket, published, inbox, disk, dir, cur, job, applied, reload, crossed, torn, crashes, faults>>

(***************************************************************************)
(* Trees and snapshots                                                     *)
(***************************************************************************)

Pieces == {"sources", "profiles", "bad source", "bad profile"}

\* What a manifest has: its sources and its profiles, and one that does not load.
Parts(m) ==
    Pieces \ ({p \in {"bad source"} : m \notin BadSources}
               \cup {p \in {"bad profile"} : m \notin BadProfiles})

\* A tree is the set of the pieces in it, each with the manifest it is from.
Trees == SUBSET (Pieces \X (Manifests \cup {Seed}))
Tree(m) == Parts(m) \X {m}
Absent == {}

Of(tree, piece) == {m \in Manifests \cup {Seed} : <<piece, m>> \in tree}

\* The tree at Store.dir.
TreeAt(d, dd) == IF d = "seed" THEN Tree(Seed) ELSE dd.live

\* Store.read, first readSources, then readProfiles: each entry loads, and the
\* profiles of a manifest name sources; the bootstrap profile names none.
SourcesLoad(tree) == Of(tree, "bad source") = {}
ProfilesLoad(sources, tree) ==
    /\ Of(tree, "profiles") # {} /\ Of(tree, "bad profile") = {}
    /\ sources = {} => Of(tree, "profiles") \subseteq {Seed}

Snapshot(sources, profiles, tree) ==
    [sources |-> sources, profiles |-> profiles, fingerprint |-> tree]

ReadOf(tree) == Snapshot(Of(tree, "sources"), Of(tree, "profiles"), tree)
Readable(tree) == SourcesLoad(tree) /\ ProfilesLoad(Of(tree, "sources"), tree)

\* desired.Bootstrap: the directory and the snapshot a process starts with.
Bootstraps(dd) == Of(dd.live, "profiles") # {} /\ Readable(dd.live)
Booted(dd) == IF Bootstraps(dd) THEN ReadOf(dd.live) ELSE ReadOf(Tree(Seed))

\* History: the snapshot in use is read from a tree with what a removal has left.
ReadFrom(left) == (torn \ {"cur"}) \cup (IF left THEN {"cur"} ELSE {})

(***************************************************************************)
(* The controller                                                          *)
(***************************************************************************)

Idle == [at |-> "idle", m |-> None, lived |-> FALSE, was |-> "seed"]
AtRest == [at |-> "idle"]
NotApplied == [m |-> None, apply |-> ""]

ConfigInit ==
    /\ bucket = None /\ published = 0 /\ inbox = <<>>
    /\ disk = [live |-> Absent, prev |-> Absent, next |-> Absent]
    /\ dir = "seed" /\ cur = ReadOf(Tree(Seed))
    /\ job = Idle /\ applied = NotApplied
    /\ reload = [r \in Reloaders |-> AtRest]
    /\ crossed = FALSE /\ torn = {}
    /\ crashes = 0 /\ faults = 0

Publish(m) ==
    /\ published < MaxPublish
    /\ published' = published + 1
    /\ bucket' = m
    /\ inbox' = Append(inbox, m)
    /\ UNCHANGED <<disk, dir, cur, job, applied, reload, crossed, torn, crashes, faults>>

(***************************************************************************)
(* desired.Watch and desired.Apply, one action per file operation          *)
(***************************************************************************)

world == <<bucket, published, reload, crashes>>

Skips(m) == m \in Unparsed \/ applied = [m |-> m, apply |-> "ok"]

\* RemoveAll, whose error nobody looks at, leaves nothing, or fails and leaves one
\* of some trees.
Remains(some) == {Absent} \cup {left \in some : faults < MaxFaults}
Costs(left) == faults' = IF left = Absent THEN faults ELSE faults + 1

Begin(left) ==
    /\ disk' = [disk EXCEPT !.next = left]
    /\ torn' = IF left = Absent THEN torn \ {"next"} ELSE torn \cup {"next"}
    /\ job' = [Idle EXCEPT !.at = "write", !.m = Head(inbox)]

\* Mutant of Take: what a crash left in the staging tree stays there.
TakeUncleared ==
    /\ job.at = "idle" /\ inbox # <<>>
    /\ inbox' = Tail(inbox)
    /\ job' = IF Skips(Head(inbox)) THEN job ELSE [Idle EXCEPT !.at = "write", !.m = Head(inbox)]
    /\ UNCHANGED <<world, disk, dir, cur, crossed, torn, applied, faults>>

\* An update: skipped, or Apply begins by clearing the staging tree.
Take ==
    /\ job.at = "idle" /\ inbox # <<>>
    /\ inbox' = Tail(inbox)
    /\ IF Skips(Head(inbox))
       THEN UNCHANGED <<disk, torn, job, faults>>
       ELSE \E left \in Remains(SUBSET disk.next) : Begin(left) /\ Costs(left)
    /\ UNCHANGED <<world, dir, cur, crossed, applied>>

\* write: the sources and the profiles, in the order of a map.
Write ==
    /\ job.at = "write"
    /\ \E half \in {{"sources", "bad source"}, {"profiles", "bad profile"}} :
         disk' = [disk EXCEPT !.next = @ \cup ((half \cap Parts(job.m)) \X {job.m})]
    /\ job' = IF Tree(job.m) \subseteq disk'.next THEN [job EXCEPT !.at = "clear"] ELSE job
    /\ UNCHANGED <<world, inbox, dir, cur, crossed, torn, applied, faults>>

ClearPrev ==
    /\ job.at = "clear"
    /\ \E left \in Remains({disk.prev}) : disk' = [disk EXCEPT !.prev = left] /\ Costs(left)
    /\ torn' = torn \ {"prev"}
    /\ job' = [job EXCEPT !.at = "park"]
    /\ UNCHANGED <<world, inbox, dir, cur, crossed, applied>>

\* History: a rename takes what a removal has left along.
Carries(from, to) ==
    torn' = (torn \ {from, to}) \cup (IF from \in torn THEN {to} ELSE {})

\* The rename of the tree in use, when there is one and nothing is in its way.
Park ==
    /\ job.at = "park" /\ (disk.live = Absent \/ disk.prev = Absent)
    /\ IF disk.live = Absent THEN UNCHANGED disk
       ELSE disk' = [disk EXCEPT !.prev = disk.live, !.live = Absent]
    /\ Carries("live", "prev")
    /\ job' = [job EXCEPT !.at = "promote", !.lived = disk.live # Absent]
    /\ UNCHANGED <<world, inbox, dir, cur, crossed, applied, faults>>

Promote ==
    /\ job.at = "promote"
    /\ disk' = [disk EXCEPT !.live = disk.next, !.next = Absent]
    /\ Carries("next", "live")
    /\ job' = [job EXCEPT !.at = "point"]
    /\ UNCHANGED <<world, inbox, dir, cur, crossed, applied, faults>>

\* The parked tree is where it was.
Back ==
    /\ disk' = [disk EXCEPT !.live = disk.prev, !.prev = Absent]
    /\ Carries("prev", "live")

\* A file operation fails: the staging tree is removed, as far as that succeeds.
Unstage(stage) ==
    /\ job.at = stage
    /\ \E left \in {Absent, disk.next} : disk' = [disk EXCEPT !.next = left]
    /\ torn' = torn \ {"next"}

\* What an older Apply parked is in the way of the rename.
Blocked ==
    /\ disk.live # Absent /\ disk.prev # Absent
    /\ Unstage("park")
    /\ job' = [job EXCEPT !.at = "failed"]
    /\ UNCHANGED <<world, inbox, dir, cur, crossed, applied, faults>>

\* Any other failure; a tree already parked is put back, unless that fails too.
Fault ==
    /\ faults < MaxFaults
    /\ \/ Unstage("write")
       \/ Unstage("park") /\ disk.live # Absent
       \/ Unstage("promote")
       \/ job.at = "promote" /\ job.lived /\ Back
    /\ faults' = faults + 1
    /\ job' = [job EXCEPT !.at = "failed"]
    /\ UNCHANGED <<world, inbox, dir, cur, crossed, applied>>

\* ReloadFrom, first the directory, then the tree; the tree put back after a
\* failed one is read the same way.
Point ==
    /\ job.at \in {"point", "repoint"}
    /\ dir' = "live"
    /\ job' = [job EXCEPT !.at = IF job.at = "point" THEN "load" ELSE "reload", !.was = dir]
    /\ UNCHANGED <<world, inbox, disk, cur, crossed, torn, applied, faults>>

Load ==
    /\ job.at \in {"load", "reload"}
    /\ IF Readable(disk.live)
       THEN /\ cur' = ReadOf(disk.live)
            /\ crossed' = FALSE /\ torn' = ReadFrom("live" \in torn)
            /\ dir' = dir
       ELSE /\ dir' = job.was
            /\ UNCHANGED <<cur, crossed, torn>>
    /\ job' = [job EXCEPT !.at = IF job.at = "reload" THEN "failed"
                                 ELSE IF Readable(disk.live) THEN "done" ELSE "undo"]
    /\ UNCHANGED <<world, inbox, disk, applied, faults>>

\* Mutant of Undo: the parked tree is not put back.
UndoHalf ==
    /\ job.at = "undo"
    /\ disk' = [disk EXCEPT !.live = Absent]
    /\ torn' = torn \ {"live"}
    /\ job' = [job EXCEPT !.at = "failed"]
    /\ UNCHANGED <<world, inbox, dir, cur, crossed, applied, faults>>

\* The rejected tree is removed, file by file, until nothing is left or a removal
\* fails.  Of the trees in between, the one without the pieces that do not load is
\* a step of its own; the others load as little as the whole tree does.
Unlink ==
    LET left == disk.live \ ({"bad source", "bad profile"} \X Manifests) IN
    /\ left \notin {disk.live, Absent}
    /\ disk' = [disk EXCEPT !.live = left]
    /\ torn' = torn \cup {"live"}
    /\ UNCHANGED <<job, faults>>

Unlinked ==
    /\ \E left \in Remains({disk.live}) :
         /\ disk' = [disk EXCEPT !.live = left] /\ Costs(left)
         /\ torn' = IF left = Absent THEN torn \ {"live"} ELSE torn
    /\ job' = [job EXCEPT !.at = IF job.lived THEN "restore" ELSE "failed"]

Undo ==
    /\ job.at = "undo"
    /\ Unlink \/ Unlinked
    /\ UNCHANGED <<world, inbox, dir, cur, crossed, applied>>

\* The parked one is put back, unless what is left is in its way.
Restore ==
    /\ job.at = "restore"
    /\ \/ /\ disk.live = Absent /\ Back
          /\ job' = [job EXCEPT !.at = "repoint"]
          /\ UNCHANGED faults
       \/ /\ IF disk.live # Absent THEN UNCHANGED faults
             ELSE faults < MaxFaults /\ faults' = faults + 1
          /\ job' = [job EXCEPT !.at = "failed"]
          /\ UNCHANGED <<disk, torn>>
    /\ UNCHANGED <<world, inbox, dir, cur, crossed, applied>>

\* What an Apply that succeeded parked is removed.
Cleared ==
    IF job.at = "done"
    THEN \E left \in Remains({disk.prev}) : disk' = [disk EXCEPT !.prev = left] /\ Costs(left)
    ELSE UNCHANGED <<disk, faults>>

\* Mutant of Finish: the report of a failure names the manifest that failed.
FinishBoasts ==
    /\ job.at \in {"done", "failed"} /\ Cleared
    /\ applied' = [m |-> job.m, apply |-> IF job.at = "done" THEN "ok" ELSE "apply_failed"]
    /\ torn' = torn \ {"prev"}
    /\ job' = Idle
    /\ UNCHANGED <<world, inbox, dir, cur, crossed>>

\* The end of Apply and what Watch reports of it.
Finish ==
    /\ job.at \in {"done", "failed"} /\ Cleared
    /\ applied' = IF job.at = "done" THEN [m |-> job.m, apply |-> "ok"]
                  ELSE [applied EXCEPT !.apply = "apply_failed"]
    /\ torn' = torn \ {"prev"}
    /\ job' = Idle
    /\ UNCHANGED <<world, inbox, dir, cur, crossed>>

(***************************************************************************)
(* Store.Reload, which takes no lock                                       *)
(***************************************************************************)

still == <<bucket, published, inbox, disk, dir, job, applied, crashes, faults>>

\* The fingerprint of the tree differs from the one in use.
Notice(r) ==
    /\ reload[r].at = "idle"
    /\ TreeAt(dir, disk) \notin {Absent, cur.fingerprint}
    /\ reload' = [reload EXCEPT ![r] = [at |-> "sources"]]
    /\ UNCHANGED <<still, cur, crossed, torn>>

ReadSources(r) ==
    /\ reload[r].at = "sources"
    /\ reload' = [reload EXCEPT ![r] =
                    IF SourcesLoad(TreeAt(dir, disk))
                    THEN [at |-> "profiles", dir |-> dir,
                          sources |-> Of(TreeAt(dir, disk), "sources")]
                    ELSE AtRest]
    /\ UNCHANGED <<still, cur, crossed, torn>>

ReadProfiles(r) ==
    LET tree == TreeAt(reload[r].dir, disk) IN
    /\ reload[r].at = "profiles"
    /\ reload' = [reload EXCEPT ![r] =
                    IF ProfilesLoad(reload[r].sources, tree)
                    THEN [at |-> "stamp", dir |-> reload[r].dir,
                          sources |-> reload[r].sources, profiles |-> Of(tree, "profiles")]
                    ELSE AtRest]
    /\ UNCHANGED <<still, cur, crossed, torn>>

\* The fingerprint of the snapshot is taken after the tree has been read.
Stamp(r) ==
    LET s == reload[r] IN
    /\ s.at = "stamp"
    /\ reload' = [reload EXCEPT ![r] =
                    IF TreeAt(s.dir, disk) = Absent THEN AtRest
                    ELSE [at |-> "store",
                          snap |-> Snapshot(s.sources, s.profiles, TreeAt(s.dir, disk))]]
    /\ UNCHANGED <<still, cur, crossed, torn>>

\* History: what is stored is not what the tree in use reads as, or that tree is
\* what a removal has left.
Marks(snap) ==
    LET tree == TreeAt(dir, disk) IN
    /\ crossed' = ~(Readable(tree) /\ snap = ReadOf(tree))
    /\ torn' = ReadFrom(dir = "live" /\ "live" \in torn)

\* Mutant of StoreSnapshot: the snapshot goes without its fingerprint.
StoreUnstamped(r) ==
    /\ reload[r].at = "store"
    /\ cur' = [reload[r].snap EXCEPT !.fingerprint = Absent]
    /\ Marks(reload[r].snap)
    /\ reload' = [reload EXCEPT ![r] = AtRest]
    /\ UNCHANGED still

StoreSnapshot(r) ==
    /\ reload[r].at = "store"
    /\ cur' = reload[r].snap
    /\ Marks(reload[r].snap)
    /\ reload' = [reload EXCEPT ![r] = AtRest]
    /\ UNCHANGED still

Reload(r) == Notice(r) \/ ReadSources(r) \/ ReadProfiles(r) \/ Stamp(r) \/ StoreSnapshot(r)

\* Mutant of Restart: the watch starts with the next update.
RestartUpdatesOnly ==
    /\ crashes < MaxCrashes
    /\ crashes' = crashes + 1
    /\ cur' = Booted(disk) /\ crossed' = FALSE
    /\ torn' = ReadFrom("live" \in torn /\ Bootstraps(disk))
    /\ dir' = IF Bootstraps(disk) THEN "live" ELSE "seed"
    /\ job' = Idle /\ applied' = NotApplied
    /\ reload' = [r \in Reloaders |-> AtRest]
    /\ inbox' = <<>>
    /\ UNCHANGED <<bucket, published, disk, faults>>

\* A crash and the start that follows: LoadProfiles, Bootstrap, a new watch.
Restart ==
    /\ crashes < MaxCrashes
    /\ crashes' = crashes + 1
    /\ cur' = Booted(disk) /\ crossed' = FALSE
    /\ torn' = ReadFrom("live" \in torn /\ Bootstraps(disk))
    /\ dir' = IF Bootstraps(disk) THEN "live" ELSE "seed"
    /\ job' = Idle /\ applied' = NotApplied
    /\ reload' = [r \in Reloaders |-> AtRest]
    /\ inbox' = IF bucket = None THEN <<>> ELSE <<bucket>>
    /\ UNCHANGED <<bucket, published, disk, faults>>

Apply == Write \/ ClearPrev \/ Park \/ Blocked \/ Promote \/ Point \/ Load \/ Undo \/ Restore \/ Finish

ConfigNext ==
    \/ \E m \in Manifests : Publish(m)
    \/ Take \/ Apply \/ Fault \/ Restart
    \/ \E r \in Reloaders : Reload(r)

ConfigSpec == ConfigInit /\ [][ConfigNext]_configVars

\* The watcher's goroutine and each caller of Reload keep running.
FairConfigSpec == ConfigSpec /\ WF_configVars(Take \/ Apply) /\ \A r \in Reloaders : WF_configVars(Reload(r))

(***************************************************************************)
(* Properties                                                              *)
(***************************************************************************)

Good == Manifests \ (Unparsed \cup BadSources \cup BadProfiles)

\* Two things make a snapshot that no manifest gives.  A Reload read the tree while
\* Apply moved it (Reload takes no lock, profiles.go:164).  Or the tree was left by
\* a RemoveAll, which is not one step and whose error is dropped: the live tree of
\* a refused manifest (desired.go:204) still being unlinked, or left so by a crash
\* or a failure, loads once the piece that does not load is gone; and what a
\* failing removal leaves in the staging tree (desired.go:171) is promoted with the
\* next manifest.  Either lasts until the next Apply, Reload or start reads a tree.
Mixed == crossed \/ "cur" \in torn

\* What is served is one generation, whole, and none that was refused, whatever
\* crashes, faults and reloads came between (INSTALL.md:14, "Real profiles come
\* from the controller as generations"), except as Mixed says: a crash while a tree
\* is written, parked, promoted or put back makes none.
ServesGenerations ==
    Mixed \/ \E m \in Good \cup {Seed} : cur.sources = {m} /\ cur.profiles = {m}

\* The heartbeat reports what is served: after a success the generation just
\* applied, after a failure the one before it (Watch keeps hash and rev), also
\* when the refused tree is not removed or the one before not put back; except
\* when a snapshot that Mixed names is served.
HonestReport ==
    job.at = "idle" /\ applied.m # None /\ ~Mixed => cur = ReadOf(Tree(applied.m))

\* Between two updates a crash changes nothing: Bootstrap would find on disk
\* exactly what is being served, refused manifests and crashes before it included,
\* those in the middle of a removal too, as long as no file operation has failed
\* and what is served was not stored by a Reload that the tree moved under.
RestartSame == job.at = "idle" /\ faults = 0 /\ ~crossed => cur = Booted(disk)

\* Whatever crashes, reloads and refused manifests came before, the last manifest,
\* if it is good, is served in the end; an Apply that failed for a file operation
\* is not tried again, so this is said of behaviours without such a failure.
Converges ==
    <>[](faults = 0 /\ ~crossed /\ bucket \in Good => cur = ReadOf(Tree(bucket)))

\* A stale snapshot that a slow Reload stored over a newer one is replaced in the
\* end: what is served carries the fingerprint of the tree in use, if that loads.
FreshInTheEnd ==
    <>[](Readable(TreeAt(dir, disk)) => cur.fingerprint = TreeAt(dir, disk))
=============================================================================
