------------------------------- MODULE Updater -------------------------------
(***************************************************************************)
(* Installation, update and rollback of the managed release (update.rs).   *)
(* A release is a directory under releases/; `current' is a symlink to     *)
(* one, and the public launcher is a symlink to current/bin/pika.  Jobs    *)
(* are processes that change them one at a time under .install.lock; any   *)
(* of them may be killed, and the machine may lose power.                  *)
(*                                                                         *)
(* Every directory entry has what processes see and, in `disk', the set of *)
(* values a power loss may leave: writing adds a value, an fsync of the    *)
(* directory leaves only the present one.  A rename is atomic.             *)
(***************************************************************************)
EXTENDS Integers, FiniteSets

CONSTANTS
  Jobs,            \* processes; a job is also the name of the stage it makes
  Shipped,         \* the job whose release is there from the beginning
  Versions,        \* release versions, in their order
  MaxLosses,       \* power losses and failed directory syncs
  Missing

ASSUME UpdaterConstants ==
  /\ Versions \subseteq Nat /\ Versions # {}
  /\ Shipped \notin Jobs
  /\ MaxLosses \in Nat

Dirs == Jobs \union {Shipped}
JobKinds == {"install", "update", "rollback"}
Forms == {"stage", "release"}   \* .stage-UUID, VERSION-TARGET-SHA
Paths == Dirs \X Forms

ASSUME MissingConstant == Missing \notin Jobs \union Paths

VARIABLES
  job,        \* where each job is, what it does, the version it wants, the
              \* release that was active when it began, the directory it will
              \* activate, and whether it staged a launcher under a private name
  lock,       \* holder of .install.lock
  root,       \* the managed root: absent, bare (no marker), marked
  form,       \* name of each release directory
  content,    \* partial, written (complete, not synced), synced
  version,    \* version each directory was built for
  current,    \* path the activation link names
  launcher,   \* the public launcher exists
  disk,       \* what a power loss may leave of root, form, current, launcher
  doubt,      \* history: activations that were not made durable
  losses      \* power losses and sync failures so far

tree == <<form, content, version>>
files == <<root, tree, current, launcher>>
updaterVars == <<job, lock, files, disk, doubt, losses>>

Job(j, at, kind, want, seen) ==
  [at |-> at, kind |-> kind, want |-> want, seen |-> seen, dir |-> j, temporary |-> FALSE]

\* A job that does not run holds nothing.
Idle(j, at) == Job(j, at, "install", 0, Missing)
Running(j) == job[j].at \notin {"idle", "done", "dead"}

\* A path resolves if its directory still has that name, and can be run if
\* all of its files are there.
Exists(path) == path # Missing /\ form[path[1]] = path[2]
Runnable(path) == Exists(path) /\ content[path[1]] # "partial"

\* Either nothing is installed, or one complete release with its launcher.
UpdaterInit ==
  /\ job = [j \in Jobs |-> Idle(j, "idle")]
  /\ lock = Missing
  /\ doubt = {}
  /\ losses = 0
  /\ version = [d \in Dirs |-> IF d = Shipped THEN 1 ELSE 0]
  /\ \E fresh \in BOOLEAN :
       /\ root = IF fresh THEN "absent" ELSE "marked"
       /\ form = [d \in Dirs |-> IF d = Shipped /\ ~fresh THEN "release" ELSE "none"]
       /\ content = [d \in Dirs |-> IF d = Shipped /\ ~fresh THEN "synced" ELSE "partial"]
       /\ current = IF fresh THEN Missing ELSE <<Shipped, "release">>
       /\ launcher = ~fresh
  /\ disk = [root |-> {root}, form |-> [d \in Dirs |-> {form[d]}],
             current |-> {current}, launcher |-> {launcher}]

JobAt(j, here) == job[j].at = here
JobTo(j, next) == job' = [job EXCEPT ![j].at = next]

\* The end of a job's run drops its lock, on every path.
JobEnds(j) ==
  /\ job' = [job EXCEPT ![j] = Idle(j, "done")]
  /\ lock' = IF lock = j THEN Missing ELSE lock

-----------------------------------------------------------------------------
(* Before the lock.                                                        *)

\* discover_managed_install: an update or a rollback starts from the release
\* that is active; an update ends here unless its version is newer.
Discover(j) ==
  /\ JobAt(j, "idle")
  /\ \E k \in {"update", "rollback"}, v \in Versions :
       /\ root = "marked" /\ Runnable(current)
       /\ k = "update" => v > version[current[1]]
       /\ job' = [job EXCEPT ![j] = Job(j, "lock", k, v, current)]
  /\ UNCHANGED <<lock, files, disk, doubt, losses>>

\* install_staged run by the installer.  A root that is there must have its
\* marker already.
OpenRoot(j) ==
  /\ JobAt(j, "idle")
  /\ IF root = "absent"
     THEN root' = "bare" /\ disk' = [disk EXCEPT !.root = @ \union {"bare"}]
     ELSE UNCHANGED <<root, disk>>
  /\ \E v \in Versions :
       job' = [job EXCEPT ![j] =
                 CASE root = "absent" -> Job(j, "mark", "install", v, Missing)
                   [] root = "bare"   -> Idle(j, "done")
                   [] root = "marked" -> Job(j, "lock", "install", v, Missing)]
  /\ UNCHANGED <<lock, tree, current, launcher, doubt, losses>>

\* The marker, the root and the root's parent are synced.
MarkRoot(j) ==
  /\ JobAt(j, "mark")
  /\ root' = "marked"
  /\ disk' = [disk EXCEPT !.root = {"marked"}]
  /\ JobTo(j, "lock")
  /\ UNCHANGED <<lock, tree, current, launcher, doubt, losses>>

TakeLock(j) ==
  /\ JobAt(j, "lock")
  /\ IF lock = Missing
     THEN lock' = j /\ JobTo(j, IF job[j].kind = "rollback" THEN "retained" ELSE "settle")
     ELSE JobEnds(j)
  /\ UNCHANGED <<files, disk, doubt, losses>>

-----------------------------------------------------------------------------
(* install_staged under the lock.                                          *)

\* Fault: what an interrupted job left is trusted without being synced.
SettleNothing(j) ==
  /\ JobAt(j, "settle")
  /\ JobTo(j, "compare")
  /\ UNCHANGED <<lock, files, disk, doubt, losses>>

\* sync_directory of releases and of the root.
Settle(j) ==
  /\ JobAt(j, "settle")
  /\ disk' = [disk EXCEPT !.form = [d \in Dirs |-> {form[d]}], !.current = {current}]
  /\ JobTo(j, "compare")
  /\ UNCHANGED <<lock, files, doubt, losses>>

\* Fault: the version was compared before the lock was taken.
CompareBeforeLock(j) ==
  /\ JobAt(j, "compare")
  /\ JobTo(j, "build")
  /\ UNCHANGED <<lock, files, disk, doubt, losses>>

\* validate_current and the comparison with the active release's receipt: an
\* older version is refused, the same one only gets its launcher back.
Compare(j) ==
  /\ JobAt(j, "compare")
  /\ IF current = Missing \/ (Exists(current) /\ job[j].want > version[current[1]])
     THEN JobTo(j, "build") /\ UNCHANGED lock
     ELSE IF Runnable(current) /\ job[j].want = version[current[1]] /\ ~launcher
          THEN JobTo(j, "relaunch") /\ UNCHANGED lock
          ELSE JobEnds(j)
  /\ UNCHANGED <<files, disk, doubt, losses>>

\* A receipt that was lost with the rest of an incomplete release is an error.
ReceiptLost(j) ==
  /\ JobAt(j, "compare")
  /\ Exists(current) /\ ~Runnable(current)
  /\ JobEnds(j)
  /\ UNCHANGED <<files, disk, doubt, losses>>

\* ensure_launcher
Relaunch(j) ==
  /\ JobAt(j, "relaunch")
  /\ launcher' = TRUE
  /\ disk' = [disk EXCEPT !.launcher = @ \union {TRUE}]
  /\ JobTo(j, "syncbin")
  /\ UNCHANGED <<lock, root, tree, current, doubt, losses>>

Released(v) == {d \in Dirs : form[d] = "release" /\ version[d] = v}

\* The release may be there from an interrupted job; it is validated again.
\* Otherwise a private stage is created.
Build(j) ==
  /\ JobAt(j, "build")
  /\ IF Released(job[j].want) = {}
     THEN /\ form' = [form EXCEPT ![j] = "stage"]
          /\ version' = [version EXCEPT ![j] = job[j].want]
          /\ disk' = [disk EXCEPT !.form[j] = @ \union {"stage"}]
          /\ JobTo(j, "payload")
          /\ UNCHANGED lock
     ELSE /\ \E d \in Released(job[j].want) :
               IF content[d] = "partial"
               THEN JobEnds(j)
               ELSE job' = [job EXCEPT ![j].at = "launcher", ![j].dir = d] /\ UNCHANGED lock
          /\ UNCHANGED <<form, version, disk>>
  /\ UNCHANGED <<root, content, current, launcher, doubt, losses>>

\* prepare_release writes every file, and then syncs bin, bundle and stage.
WritePayload(j) ==
  /\ JobAt(j, "payload")
  /\ content' = [content EXCEPT ![j] = "written"]
  /\ JobTo(j, "hierarchy")
  /\ UNCHANGED <<lock, root, form, version, current, launcher, disk, doubt, losses>>

SyncHierarchy(j) ==
  /\ JobAt(j, "hierarchy")
  /\ content' = [content EXCEPT ![j] = "synced"]
  /\ JobTo(j, "rename")
  /\ UNCHANGED <<lock, root, form, version, current, launcher, disk, doubt, losses>>

\* An error while preparing removes the stage.
DiscardStage(j) ==
  /\ job[j].at \in {"payload", "hierarchy", "rename"}
  /\ form' = [form EXCEPT ![j] = "none"]
  /\ disk' = [disk EXCEPT !.form[j] = @ \union {"none"}]
  /\ content' = [content EXCEPT ![j] = "partial"]
  /\ JobEnds(j)
  /\ UNCHANGED <<root, version, current, launcher, doubt, losses>>

RenameStage(j) ==
  /\ JobAt(j, "rename")
  /\ form' = [form EXCEPT ![j] = "release"]
  /\ disk' = [disk EXCEPT !.form[j] = @ \union {"release"}]
  /\ JobTo(j, "publish")
  /\ UNCHANGED <<lock, root, content, version, current, launcher, doubt, losses>>

SyncReleases(j) ==
  /\ JobAt(j, "publish")
  /\ disk' = [disk EXCEPT !.form = [d \in Dirs |-> {form[d]}]]
  /\ JobTo(j, "launcher")
  /\ UNCHANGED <<lock, files, doubt, losses>>

\* stage_launcher: a private name in the launcher's directory.
StageLauncher(j) ==
  /\ JobAt(j, "launcher")
  /\ job' = [job EXCEPT ![j].at = "link", ![j].temporary = ~launcher]
  /\ UNCHANGED <<lock, files, disk, doubt, losses>>

-----------------------------------------------------------------------------
(* rollback_managed under the lock.                                        *)

\* Any directory under releases that passes validation with an older version
\* will do, whatever its name.
Retained(j) ==
  {d \in Dirs : /\ form[d] # "none" /\ content[d] # "partial"
                /\ d # job[j].seen[1]
                /\ version[d] < version[job[j].seen[1]]}

Newest(ds) == {d \in ds : \A e \in ds : version[e] <= version[d]}

Choose(j, d) == job' = [job EXCEPT ![j].at = "link", ![j].dir = d]

\* Fault: the release that was active when the rollback started is not
\* compared with the one that is active now.
ChooseFromStale(j) ==
  /\ JobAt(j, "retained")
  /\ IF Retained(j) # {}
     THEN /\ \E d \in Newest(Retained(j)) : Choose(j, d)
          /\ UNCHANGED lock
     ELSE JobEnds(j)
  /\ UNCHANGED <<files, disk, doubt, losses>>

\* The newest, or the requested one if there is such.
ChooseRetained(j) ==
  /\ JobAt(j, "retained")
  /\ \/ /\ current = job[j].seen /\ Exists(current)
        /\ \E d \in Newest(Retained(j)) \union {e \in Retained(j) : version[e] = job[j].want} :
             Choose(j, d)
        /\ UNCHANGED lock
     \/ JobEnds(j)
  /\ UNCHANGED <<files, disk, doubt, losses>>

-----------------------------------------------------------------------------
(* atomic_symlink and the launcher.                                        *)

\* The temporary link and the old activation are made durable first.
LinkTemporary(j) ==
  /\ JobAt(j, "link")
  /\ disk' = [disk EXCEPT !.current = {current}]
  /\ JobTo(j, "swap")
  /\ UNCHANGED <<lock, files, doubt, losses>>

\* An activation is in doubt if power loss may take its directory away, and until
\* another one has been made durable.
Debris(d) == IF content[d] = "synced" /\ disk.form[d] = {form[d]} THEN {} ELSE {"debris"}

SwapCurrent(j) ==
  LET path == <<job[j].dir, form[job[j].dir]>> IN
  /\ JobAt(j, "swap")
  /\ current' = path
  /\ disk' = [disk EXCEPT !.current = @ \union {path}]
  /\ doubt' = doubt \union Debris(job[j].dir)
  /\ JobTo(j, "confirm")
  /\ UNCHANGED <<lock, root, tree, launcher, losses>>

AfterSwap(j) ==
  IF job[j].temporary THEN JobTo(j, "expose") /\ UNCHANGED lock ELSE JobEnds(j)

ConfirmSwap(j) ==
  /\ JobAt(j, "confirm")
  /\ disk' = [disk EXCEPT !.current = {current}]
  /\ doubt' = Debris(job[j].dir)
  /\ AfterSwap(j)
  /\ UNCHANGED <<files, losses>>

\* SwitchedDurabilityUnconfirmed: the failed sync is not an error.
SwapUnconfirmed(j) ==
  /\ JobAt(j, "confirm")
  /\ losses < MaxLosses
  /\ losses' = losses + 1
  /\ doubt' = doubt \union {"switch"}
  /\ AfterSwap(j)
  /\ UNCHANGED <<files, disk>>

\* publish_staged_launcher
ExposeLauncher(j) ==
  /\ JobAt(j, "expose")
  /\ launcher' = TRUE
  /\ disk' = [disk EXCEPT !.launcher = @ \union {TRUE}]
  /\ job' = [job EXCEPT ![j].at = "syncbin", ![j].temporary = FALSE]
  /\ UNCHANGED <<lock, root, tree, current, doubt, losses>>

SyncLauncher(j) ==
  /\ JobAt(j, "syncbin")
  /\ disk' = [disk EXCEPT !.launcher = {launcher}]
  /\ JobEnds(j)
  /\ UNCHANGED <<files, doubt, losses>>

-----------------------------------------------------------------------------
(* Faults of the machine.                                                  *)

\* A sync that fails elsewhere ends the job with an error.
SyncFails(j) ==
  /\ job[j].at \in {"settle", "publish", "link", "syncbin"}
  /\ losses < MaxLosses
  /\ losses' = losses + 1
  /\ JobEnds(j)
  /\ UNCHANGED <<files, disk, doubt>>

\* The kernel drops the lock of a process that dies.
JobKilled(j) ==
  /\ Running(j)
  /\ job' = [job EXCEPT ![j] = Idle(j, "dead")]
  /\ lock' = IF lock = j THEN Missing ELSE lock
  /\ UNCHANGED <<files, disk, doubt, losses>>

PowerLoss ==
  /\ losses < MaxLosses
  /\ losses' = losses + 1
  /\ job' = [j \in Jobs |-> IF Running(j) THEN Idle(j, "dead") ELSE job[j]]
  /\ lock' = Missing
  /\ root' \in disk.root
  /\ form' \in [Dirs -> {"none"} \union Forms] /\ \A d \in Dirs : form'[d] \in disk.form[d]
  /\ content' \in [Dirs -> {"partial", "synced"}]
  /\ \A d \in Dirs : content[d] # "written" => content'[d] = content[d]
  /\ current' \in disk.current
  /\ launcher' \in disk.launcher
  /\ disk' = [root |-> {root'}, form |-> [d \in Dirs |-> {form'[d]}],
              current |-> {current'}, launcher |-> {launcher'}]
  /\ UNCHANGED <<version, doubt>>

Approach(j) ==
  \/ Discover(j) \/ OpenRoot(j) \/ MarkRoot(j) \/ TakeLock(j)

Install(j) ==
  \/ Settle(j) \/ Compare(j) \/ ReceiptLost(j) \/ Relaunch(j) \/ Build(j)
  \/ WritePayload(j) \/ SyncHierarchy(j) \/ DiscardStage(j) \/ RenameStage(j)
  \/ SyncReleases(j) \/ StageLauncher(j)

Activate(j) ==
  \/ ChooseRetained(j) \/ LinkTemporary(j) \/ SwapCurrent(j) \/ ConfirmSwap(j)
  \/ SwapUnconfirmed(j) \/ ExposeLauncher(j) \/ SyncLauncher(j)

UpdaterNext ==
  \/ \E j \in Jobs : Approach(j) \/ Install(j) \/ Activate(j) \/ SyncFails(j) \/ JobKilled(j)
  \/ PowerLoss

UpdaterSpec == UpdaterInit /\ [][UpdaterNext]_updaterVars

-----------------------------------------------------------------------------
(* Properties.                                                             *)

UpdaterTypeOK ==
  /\ \A j \in Jobs :
       /\ job[j].at \in {"idle", "done", "dead", "mark", "lock", "settle", "compare", "relaunch",
            "build", "payload", "hierarchy", "rename", "publish", "launcher", "retained", "link",
            "swap", "confirm", "expose", "syncbin"}
       /\ job[j].kind \in JobKinds /\ job[j].dir \in Dirs
       /\ lock = j => Running(j)
  /\ lock \in Jobs \union {Missing}
  /\ root \in {"absent", "bare", "marked"}
  /\ form \in [Dirs -> {"none"} \union Forms]
  /\ content \in [Dirs -> {"partial", "written", "synced"}]
  /\ current \in Paths \union {Missing}
  /\ current \in disk.current /\ launcher \in disk.launcher
  /\ root \in disk.root /\ \A d \in Dirs : form[d] \in disk.form[d]

\* Wherever a job dies or the power goes, the public launcher runs a complete
\* release: the order of the syncs in prepare_release, install_staged and
\* atomic_symlink, and the first sync of the next job.  Excepted are the
\* activations whose final sync failed and the rollbacks onto a stage that an
\* interrupted job left unsynced.
LauncherRuns == launcher /\ doubt = {} => Runnable(current)

\* What the documents promise without exception: "either the prior release
\* or the fully persisted new release" (docs/RELEASE_FORMAT.md:130), "never a
\* broken one" (update.rs:1809).
LauncherNeverBroken == launcher => Runnable(current)

\* Jobs that started from one release and overtake each other still move the
\* activation in order: an installation only forward, and a rollback from
\* the release that was active when the user asked for it to an older one,
\* past no newer one that is retained unless it was named.
ActivatesInOrder ==
  [][\A j \in Jobs :
       JobAt(j, "swap") /\ job'[j].at = "confirm" /\ current # Missing =>
         LET old == version[current[1]]
             new == version[current'[1]]
         IN IF job[j].kind # "rollback" THEN new > old
            ELSE /\ current = job[j].seen /\ new < old
                 /\ \/ new = job[j].want
                    \/ \A d \in Dirs :
                         form[d] # "none" /\ content[d] # "partial" /\ version[d] > new
                           => version[d] >= old]_updaterVars
=============================================================================
