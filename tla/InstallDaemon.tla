---------------------------- MODULE InstallDaemon ----------------------------
(***************************************************************************)
(* The install daemon.  D-Bus methods put jobs on a queue that lives in    *)
(* memory; one worker runs them in order, step by step: install, upgrade   *)
(* and uninstall of a package, install, update and uninstall of a Flatpak. *)
(* RestoreApp and CleanupTrash do not go through the queue: they change    *)
(* the same directories while the worker runs.  Any step may be the last   *)
(* one before a crash, and a step may fail; a failed install is rolled     *)
(* back from what the transaction registered.                              *)
(***************************************************************************)
EXTENDS Naturals, Sequences, FiniteSets

CONSTANTS
    Apps,          \* ids of packaged apps
    Caps,          \* what an app may ask for
    HighImpact,    \* the part of Caps whose growth needs consent
    Packages,      \* signed packages: [app, version, caps, parts]
    FlatContext,   \* the permissions of each commit of the one Flatpak app
    MaxJobs, MaxTrouble

VARIABLES
    dir,      \* the app's directory under apps/
    trash,    \* the app's directory under .trash/
    parts,    \* what the app has outside its directory
    desktop,  \* whether the app has a desktop entry
    lock,     \* what installed.lock records as granted
    flat,     \* the Flatpak: deployed commit (0: none), permission profile,
              \* and what it asked for when it was installed
    head,     \* the commit its remote offers
    jobs,     \* all jobs, in the order of the queue
    work,     \* where the worker stands
    rst, cln, \* a RestoreApp and a CleanupTrash call in progress
    asked,    \* what was asked for when somebody chose to install the app
    had,      \* whether an install completed that nobody has uninstalled
    stray,    \* parts left by a step that failed halfway
    raced,    \* whether a restore moved the app while the worker had a job for
              \* it, or a cleanup deleted an entry the worker had just put there
    trouble   \* crashes and failed steps

disk == <<dir, trash, parts, desktop, lock>>
flatVars == <<flat, head>>
ghosts == <<asked, had, stray, raced>>
installVars == <<disk, flatVars, jobs, work, rst, cln, ghosts, trouble>>
-----------------------------------------------------------------------------
Parts == {"schemas", "modules", "keys", "settings"}

ASSUME PackagesAssumption ==
    /\ HighImpact \subseteq Caps
    /\ \A p \in Packages : p.app \in Apps /\ p.caps \subseteq Caps /\ p.parts \subseteq Parts
    /\ "none" \notin Apps

ASSUME FlatAssumption == FlatContext \in Seq(SUBSET Caps) /\ FlatContext # <<>>

NoPackage == [app |-> "none", version |-> 0, caps |-> {}, parts |-> {}]

\* A directory: the versions whose files are in it, its manifest, and its
\* .trash-info (none, one inside the 30 days, one past them).
Nowhere == [there |-> FALSE, files |-> {}, manifest |-> NoPackage, info |-> "none"]
EmptyDir == [Nowhere EXCEPT !.there = TRUE]

Unlocked == [known |-> FALSE, caps |-> {}]
Idle == [job |-> 0, at |-> "idle", todo |-> {}, seen |-> 0]
IdleCall == [app |-> "none", at |-> "idle"]

\* The order of the install steps; what they register is undone from the back.
Steps == <<"files", "schemas", "modules", "keys", "settings", "desktop">>
Position(step) == CHOOSE i \in DOMAIN Steps : Steps[i] = step
AfterKeys(step) ==
    IF step = "keys" THEN "desktop"
    ELSE IF step = Steps[Len(Steps)] THEN "record" ELSE Steps[Position(step) + 1]

After(step) ==
    IF step = Steps[Len(Steps)] THEN "record" ELSE Steps[Position(step) + 1]
LastOf(steps) == CHOOSE s \in steps : \A other \in steps : Position(other) <= Position(s)

\* diff_capabilities: only additions of high impact need consent.
Widens(old, new) == ~((new \cap HighImpact) \subseteq old)

Init ==
    /\ dir = [a \in Apps |-> Nowhere] /\ trash = [a \in Apps |-> Nowhere]
    /\ parts = [a \in Apps |-> {}] /\ desktop = [a \in Apps |-> FALSE]
    /\ lock = [a \in Apps |-> Unlocked]
    /\ flat = [commit |-> 0, profile |-> "none", asked |-> {}] /\ head = 1
    /\ jobs = <<>> /\ work = Idle /\ rst = IdleCall /\ cln = IdleCall
    /\ asked = [a \in Apps |-> {}] /\ had = [a \in Apps |-> FALSE]
    /\ stray = [a \in Apps |-> {}] /\ raced = [a \in Apps |-> FALSE]
    /\ trouble = 0
-----------------------------------------------------------------------------
(***************************************************************************)
(* The queue and the worker's loop.                                        *)
(***************************************************************************)
Job == jobs[work.job]
Pkg == Job.pkg
App == Pkg.app

Enqueue(kind, pkg) ==
    /\ Len(jobs) < MaxJobs
    /\ jobs' = Append(jobs, [kind |-> kind, pkg |-> pkg, state |-> "pending"])
    /\ asked' = IF kind = "install" THEN [asked EXCEPT ![pkg.app] = @ \cup {pkg.caps}]
                ELSE asked
    /\ UNCHANGED <<disk, flatVars, work, rst, cln, had, stray, raced, trouble>>

\* Uninstall carries only the app's id, Flatpak jobs only theirs.
Bare(app) == [NoPackage EXCEPT !.app = app]

FirstStep(kind) ==
    CASE kind = "install"     -> "open"
      [] kind = "upgrade"     -> "gate"
      [] kind = "uninstall"   -> "stage"
      [] kind = "flatinstall" -> "pull"
      [] kind = "flatupdate"  -> "examine"
      [] kind = "flatremove"  -> "drop"

Take(id) ==
    /\ work = Idle /\ id \in DOMAIN jobs /\ jobs[id].state = "pending"
    /\ \A other \in 1 .. id - 1 : jobs[other].state # "pending"
    /\ jobs' = [jobs EXCEPT ![id].state = "running"]
    /\ work' = [Idle EXCEPT !.job = id, !.at = FirstStep(jobs[id].kind)]
    /\ UNCHANGED <<disk, flatVars, rst, cln, ghosts, trouble>>

\* Of a job that is over, nothing but its outcome is ever asked for.
At(step) == work.at = step
Goto(step) == work' = [work EXCEPT !.at = step] /\ UNCHANGED jobs
Over(state) == [kind |-> "over", pkg |-> NoPackage, state |-> state]
Ends(state) == work' = Idle /\ jobs' = [jobs EXCEPT ![work.job] = Over(state)]

\* A step that fails although its input is good: a full disk, a lost file.
Fault == trouble < MaxTrouble /\ trouble' = trouble + 1
Fine == trouble' = trouble
-----------------------------------------------------------------------------
(***************************************************************************)
(* Installing.  Opening a package (extract, structure, signature, manifest *)
(* and disk space) changes nothing.  Until the manifest is copied the      *)
(* directory is not registered with the transaction.                       *)
(***************************************************************************)
OpenPackage ==
    /\ At("open")
    /\ \/ Goto("mkdir") /\ Fine
       \/ Job.kind = "install" /\ Ends("failed") /\ Fine
       \/ Job.kind = "upgrade" /\ Ends("failed") /\ Fault
    /\ UNCHANGED <<disk, flatVars, rst, cln, ghosts>>

MakeDir ==
    /\ At("mkdir")
    /\ IF dir[App].there THEN Ends("failed") /\ UNCHANGED dir
       ELSE dir' = [dir EXCEPT ![App] = EmptyDir] /\ Goto("copy")
    /\ Fine /\ UNCHANGED <<trash, parts, desktop, lock, flatVars, rst, cln, ghosts>>

CopyFiles ==
    /\ At("copy")
    /\ dir' = [dir EXCEPT ![App].files = @ \cup {Pkg}]
    /\ \/ Goto("files") /\ Fine
       \/ Ends("failed") /\ Fault
    /\ UNCHANGED <<trash, parts, desktop, lock, flatVars, rst, cln, ghosts>>

\* The manifest, and after it the signature, which may fail: the end of
\* install_to_user, and only from here a failure rolls the directory back.
CopyManifest ==
    /\ At("files")
    /\ dir' = [dir EXCEPT ![App].manifest = Pkg]
    /\ \/ /\ work' = [work EXCEPT !.at = After("files"), !.todo = {"files"}]
          /\ UNCHANGED jobs /\ Fine
       \/ Ends("failed") /\ Fault
    /\ UNCHANGED <<trash, parts, desktop, lock, flatVars, rst, cln, ghosts>>

\* One part after the other, each registered once its step is done.
PutPart(part) ==
    /\ At(part) /\ part \in Parts
    /\ IF part \in Pkg.parts
       THEN /\ parts' = [parts EXCEPT ![App] = @ \cup {part}]
            /\ stray' = [stray EXCEPT ![App] = @ \ {part}]
            /\ work' = [work EXCEPT !.at = After(part), !.todo = @ \cup {part}]
       ELSE work' = [work EXCEPT !.at = After(part)] /\ UNCHANGED <<parts, stray>>
    /\ Fine /\ UNCHANGED <<jobs, dir, trash, desktop, lock, flatVars, rst, cln,
                           asked, had, raced>>

\* A part's step fails.  Schemas and modules are copied file by file, and what
\* was copied is not registered; a fragment or a settings schema is renamed
\* into place or not at all.
PartFails(part) ==
    /\ At(part) /\ part \in Pkg.parts /\ Fault
    /\ \/ UNCHANGED <<parts, stray>>
       \/ /\ part \in {"schemas", "modules"}
          /\ parts' = [parts EXCEPT ![App] = @ \cup {part}]
          /\ stray' = [stray EXCEPT ![App] = @ \cup {part}]
    /\ Goto("rollback")
    /\ UNCHANGED <<dir, trash, desktop, lock, flatVars, rst, cln, asked, had, raced>>

DesktopEntry ==
    /\ At("desktop")
    /\ \/ /\ desktop' = [desktop EXCEPT ![App] = TRUE]
          /\ Goto("record") /\ Fine
       \/ UNCHANGED desktop /\ Goto("rollback") /\ Fault
    /\ UNCHANGED <<dir, trash, parts, lock, flatVars, rst, cln, ghosts>>

\* After the commit: the lock is written on a best-effort basis.  An install
\* is what somebody chose; an upgrade is not.
Record ==
    /\ At("record")
    /\ \/ /\ lock' = [lock EXCEPT ![App] = [known |-> TRUE, caps |-> Pkg.caps]]
          /\ Fine
       \/ UNCHANGED lock /\ Fault
    /\ had' = [had EXCEPT ![App] = TRUE]
    /\ Ends("completed")
    /\ UNCHANGED <<dir, trash, parts, desktop, flatVars, rst, cln, asked, stray, raced>>

RollbackFilesFirst ==
    /\ At("rollback") /\ work.todo # {}
    /\ LET step == IF "files" \in work.todo THEN "files" ELSE LastOf(work.todo) IN
       /\ work' = [work EXCEPT !.todo = @ \ {step}]
       /\ \/ /\ dir' = IF step = "files" THEN [dir EXCEPT ![App] = Nowhere] ELSE dir
             /\ parts' = [parts EXCEPT ![App] = @ \ {step}]
             /\ UNCHANGED stray
          \/ /\ step \in Parts
             /\ stray' = [stray EXCEPT ![App] = @ \cup {step}]
             /\ UNCHANGED <<dir, parts>>
          \/ /\ step = "files"
             /\ \/ UNCHANGED dir
                \/ dir' = [dir EXCEPT ![App].manifest = NoPackage]
             /\ UNCHANGED <<parts, stray>>
    /\ Fine
    /\ UNCHANGED <<jobs, trash, desktop, lock, flatVars, rst, cln, asked, had, raced>>

\* The transaction is dropped uncommitted: what it registered goes, last first.
\* A removal that fails goes unnoticed; it is not a trouble of its own, since
\* something must have failed to come here.  Nothing can fail after the desktop
\* entry, so that one is never rolled back.
Rollback ==
    /\ At("rollback") /\ work.todo # {}
    /\ LET step == LastOf(work.todo) IN
       /\ work' = [work EXCEPT !.todo = @ \ {step}]
       /\ \/ /\ dir' = IF step = "files" THEN [dir EXCEPT ![App] = Nowhere] ELSE dir
             /\ parts' = [parts EXCEPT ![App] = @ \ {step}]
             /\ UNCHANGED stray
          \/ /\ step \in Parts
             /\ stray' = [stray EXCEPT ![App] = @ \cup {step}]
             /\ UNCHANGED <<dir, parts>>
          \/ /\ step = "files"
             /\ \/ UNCHANGED dir
                \/ dir' = [dir EXCEPT ![App].manifest = NoPackage]
             /\ UNCHANGED <<parts, stray>>
    /\ Fine
    /\ UNCHANGED <<jobs, trash, desktop, lock, flatVars, rst, cln, asked, had, raced>>

RolledBack ==
    /\ At("rollback") /\ work.todo = {}
    /\ Ends("failed")
    /\ Fine /\ UNCHANGED <<disk, flatVars, rst, cln, ghosts>>
-----------------------------------------------------------------------------
(***************************************************************************)
(* Upgrading and uninstalling.  Both stage the installed version: its      *)
(* parts go, an older trash entry goes, its directory becomes the trash    *)
(* entry, and the entry gets its date.                                     *)
(***************************************************************************)
UngatedUpgrade ==
    /\ At("gate")
    /\ Goto("stage")
    /\ Fine /\ UNCHANGED <<disk, flatVars, rst, cln, ghosts>>

\* preview_upgrade: nothing recorded, or a version that asks for more, ends
\* the job and changes nothing.
Gate ==
    /\ At("gate")
    /\ IF lock[App].known /\ ~Widens(lock[App].caps, Pkg.caps)
       THEN Goto("stage") \/ Ends("failed")
       ELSE Ends("failed")
    /\ Fine /\ UNCHANGED <<disk, flatVars, rst, cln, ghosts>>

\* What the manifest lets the daemon find again; without one, nothing.
Removable(manifest) ==
    IF manifest = NoPackage THEN {} ELSE manifest.parts \cup {"keys", "settings"}

Stage ==
    /\ At("stage")
    /\ IF dir[App].there
       THEN /\ work' = [work EXCEPT !.at = "unpart",
                          !.todo = parts[App] \cap Removable(dir[App].manifest)]
            /\ had' = [had EXCEPT ![App] = @ /\ Job.kind = "upgrade"]
            /\ UNCHANGED jobs
       ELSE Ends("failed") /\ UNCHANGED had
    /\ Fine /\ UNCHANGED <<disk, flatVars, rst, cln, asked, stray, raced>>

\* A part that cannot be removed is left behind and nobody is told.
RemovePart ==
    /\ At("unpart") /\ work.todo # {}
    /\ LET part == LastOf(work.todo) IN
       /\ work' = [work EXCEPT !.todo = @ \ {part}]
       /\ \/ /\ parts' = [parts EXCEPT ![App] = @ \ {part}]
             /\ stray' = [stray EXCEPT ![App] = @ \ {part}]
             /\ Fine
          \/ /\ stray' = [stray EXCEPT ![App] = @ \cup {part}]
             /\ UNCHANGED parts /\ Fault
    /\ UNCHANGED <<jobs, dir, trash, desktop, lock, flatVars, rst, cln, asked, had, raced>>

RemoveOldEntry ==
    /\ At("unpart") /\ work.todo = {}
    /\ \/ trash' = [trash EXCEPT ![App] = Nowhere] /\ Goto("move") /\ Fine
       \/ UNCHANGED trash /\ trash[App].there /\ Ends("failed") /\ Fault
    /\ UNCHANGED <<dir, parts, desktop, lock, flatVars, rst, cln, ghosts>>

DeleteDir ==
    /\ At("move")
    /\ dir' = [dir EXCEPT ![App] = Nowhere]
    /\ Goto("info") /\ Fine
    /\ UNCHANGED <<trash, parts, desktop, lock, flatVars, rst, cln, ghosts>>

MoveToTrash ==
    /\ At("move")
    /\ \/ /\ trash' = [trash EXCEPT ![App] = dir[App]]
          /\ dir' = [dir EXCEPT ![App] = Nowhere]
          /\ Goto("info") /\ Fine
       \/ UNCHANGED <<dir, trash>> /\ Ends("failed") /\ Fault
    /\ UNCHANGED <<parts, desktop, lock, flatVars, rst, cln, ghosts>>

WriteInfoIfThere ==
    /\ At("info") /\ trash[App].there
    /\ trash' = [trash EXCEPT ![App].info = "fresh"]
    /\ Goto(IF Job.kind = "upgrade" THEN "open" ELSE "undesktop")
    /\ Fine /\ UNCHANGED <<dir, parts, desktop, lock, flatVars, rst, cln, ghosts>>

\* A restore or a cleanup may have taken the entry in the meantime.
WriteInfo ==
    /\ At("info")
    /\ IF trash[App].there
       THEN \/ /\ trash' = [trash EXCEPT ![App].info = "fresh"]
               /\ Goto(IF Job.kind = "upgrade" THEN "open" ELSE "undesktop")
               /\ Fine
            \/ UNCHANGED trash /\ Ends("failed") /\ Fault
       ELSE UNCHANGED trash /\ Ends("failed") /\ Fine
    /\ UNCHANGED <<dir, parts, desktop, lock, flatVars, rst, cln, ghosts>>

RemoveDesktop ==
    /\ At("undesktop")
    /\ \/ desktop' = [desktop EXCEPT ![App] = FALSE] /\ Goto("unlock") /\ Fine
       \/ UNCHANGED desktop /\ desktop[App] /\ Ends("failed") /\ Fault
    /\ UNCHANGED <<dir, trash, parts, lock, flatVars, rst, cln, ghosts>>

RemoveFromLock ==
    /\ At("unlock")
    /\ \/ lock' = [lock EXCEPT ![App] = Unlocked] /\ Fine
       \/ UNCHANGED lock /\ lock[App].known /\ Fault
    /\ Ends("completed")
    /\ UNCHANGED <<dir, trash, parts, desktop, flatVars, rst, cln, ghosts>>
-----------------------------------------------------------------------------
(***************************************************************************)
(* RestoreApp and CleanupTrash, beside the worker.  Renaming a directory   *)
(* onto an empty one replaces it, onto any other one fails.                *)
(***************************************************************************)
RestoreBegins(app) ==
    /\ rst = IdleCall /\ trash[app].there /\ ~dir[app].there
    /\ rst' = [app |-> app, at |-> "move"]
    /\ UNCHANGED <<disk, flatVars, jobs, work, cln, ghosts, trouble>>

RestoreMoves ==
    /\ rst.at = "move"
    /\ IF trash[rst.app].there /\ dir[rst.app] \in {Nowhere, EmptyDir}
       THEN /\ dir' = [dir EXCEPT ![rst.app] = trash[rst.app]]
            /\ trash' = [trash EXCEPT ![rst.app] = Nowhere]
            /\ raced' = [raced EXCEPT ![rst.app] =
                           @ \/ (work # Idle /\ App = rst.app)]
            /\ rst' = [rst EXCEPT !.at = "info"]
       ELSE rst' = IdleCall /\ UNCHANGED <<dir, trash, raced>>
    /\ UNCHANGED <<parts, desktop, lock, flatVars, jobs, work, cln, asked, had, stray, trouble>>

\* The date goes and the manifest is read, if the worker left them there; that
\* the date or the entry could not be written goes unnoticed.
RestoreReads ==
    /\ rst.at = "info"
    /\ \/ dir' = [dir EXCEPT ![rst.app].info = "none"] /\ Fine
       \/ UNCHANGED dir /\ dir[rst.app].info # "none" /\ Fault
    /\ rst' = IF dir[rst.app].manifest = NoPackage THEN IdleCall
              ELSE [rst EXCEPT !.at = "entry"]
    /\ UNCHANGED <<trash, parts, desktop, lock, flatVars, jobs, work, cln, ghosts>>

RestoreEntry ==
    /\ rst.at = "entry"
    /\ \/ desktop' = [desktop EXCEPT ![rst.app] = TRUE] /\ Fine
       \/ UNCHANGED desktop /\ Fault
    /\ rst' = IdleCall
    /\ UNCHANGED <<dir, trash, parts, lock, flatVars, jobs, work, cln, ghosts>>

\* Only an entry whose date can be read and is past its 30 days is deleted.
CleanupReads(app) ==
    /\ cln = IdleCall /\ trash[app].there /\ trash[app].info = "expired"
    /\ cln' = [app |-> app, at |-> "delete"]
    /\ UNCHANGED <<disk, flatVars, jobs, work, rst, ghosts, trouble>>

\* A deletion that fails has deleted part of the entry.
CleanupDeletes ==
    /\ cln.at = "delete"
    /\ \/ trash' = [trash EXCEPT ![cln.app] = Nowhere] /\ Fine
       \/ /\ trash[cln.app].there
          /\ trash' = [trash EXCEPT ![cln.app].manifest = NoPackage] /\ Fault
    /\ had' = [had EXCEPT ![cln.app] = @ /\ trash[cln.app].info # "expired"]
    /\ raced' = [raced EXCEPT ![cln.app] =
                   @ \/ (trash[cln.app].there /\ trash[cln.app].info # "expired")]
    /\ cln' = IdleCall
    /\ UNCHANGED <<dir, parts, desktop, lock, flatVars, jobs, work, rst, asked, stray>>

ThirtyDays(app) ==
    /\ trash[app].info = "fresh"
    /\ trash' = [trash EXCEPT ![app].info = "expired"]
    /\ UNCHANGED <<dir, parts, desktop, lock, flatVars, jobs, work, rst, cln, ghosts, trouble>>
-----------------------------------------------------------------------------
(***************************************************************************)
(* Flatpak jobs.  The remote may publish at any time.                      *)
(***************************************************************************)
Publish ==
    /\ head < Len(FlatContext)
    /\ head' = head + 1
    /\ UNCHANGED <<disk, flat, jobs, work, rst, cln, ghosts, trouble>>

EditProfile ==
    /\ flat.profile = "default"
    /\ flat' = [flat EXCEPT !.profile = "edited"]
    /\ UNCHANGED <<disk, head, jobs, work, rst, cln, ghosts, trouble>>

FlatInstall ==
    /\ At("pull")
    /\ \/ /\ flat' = IF flat.commit # 0 THEN flat
                     ELSE [flat EXCEPT !.commit = head, !.asked = FlatContext[head]]
          /\ Goto("profile")
       \/ UNCHANGED flat /\ Ends("failed")
    /\ Fine /\ UNCHANGED <<disk, head, rst, cln, ghosts>>

\* A profile that exists may have been narrowed by its owner and is kept.
FlatProfile ==
    /\ At("profile")
    /\ \/ /\ flat' = [flat EXCEPT !.profile = IF @ = "none" THEN "default" ELSE @]
          /\ Ends("completed") /\ Fine
       \/ UNCHANGED flat /\ flat.profile = "none" /\ Ends("failed") /\ Fault
    /\ UNCHANGED <<disk, head, rst, cln, ghosts>>

FlatRemove ==
    /\ At("drop")
    /\ \/ /\ flat.commit # 0
          /\ flat' = [flat EXCEPT !.commit = 0]
          /\ Goto("unprofile")
       \/ UNCHANGED flat /\ Ends("failed")
    /\ Fine /\ UNCHANGED <<disk, head, rst, cln, ghosts>>

\* The profile's removal may fail unnoticed.
FlatUnprofile ==
    /\ At("unprofile")
    /\ \/ flat' = [flat EXCEPT !.profile = "none"] /\ Fine
       \/ UNCHANGED flat /\ flat.profile # "none" /\ Fault
    /\ Ends("completed")
    /\ UNCHANGED <<disk, head, rst, cln, ghosts>>

\* The commit is read once, and what it asks for is compared with what the
\* deployed one has; more, or nothing to compare, ends the job.
FlatExamine ==
    /\ At("examine")
    /\ \/ /\ flat.commit # 0 /\ FlatContext[head] \subseteq FlatContext[flat.commit]
          /\ work' = [work EXCEPT !.at = "deploy", !.seen = head]
          /\ UNCHANGED jobs
       \/ Ends("failed")
    /\ Fine /\ UNCHANGED <<disk, flatVars, rst, cln, ghosts>>

FlatDeployHead ==
    /\ At("deploy")
    /\ \/ flat' = [flat EXCEPT !.commit = head] /\ Ends("completed")
       \/ UNCHANGED flat /\ Ends("failed")
    /\ Fine /\ UNCHANGED <<disk, head, rst, cln, ghosts>>

FlatDeploy ==
    /\ At("deploy")
    /\ \/ flat' = [flat EXCEPT !.commit = work.seen] /\ Ends("completed")
       \/ UNCHANGED flat /\ Ends("failed")
    /\ Fine /\ UNCHANGED <<disk, head, rst, cln, ghosts>>
-----------------------------------------------------------------------------
\* The process or the machine dies: the queue is gone, nothing is rolled back.
\* The lock's new text is renamed into place without having been synced, so a
\* power loss may leave it empty, which reads as a lock without entries.
Crash ==
    /\ Fault
    /\ \/ UNCHANGED lock
       \/ lock' = [a \in Apps |-> Unlocked]
    /\ jobs' = [id \in DOMAIN jobs |->
                  IF jobs[id].state \in {"pending", "running"}
                  THEN Over("lost") ELSE jobs[id]]
    /\ work' = Idle /\ rst' = IdleCall /\ cln' = IdleCall
    /\ UNCHANGED <<dir, trash, parts, desktop, flatVars, ghosts>>

InstallStep ==
    \/ OpenPackage \/ MakeDir \/ CopyFiles \/ CopyManifest
    \/ \E part \in Parts : PutPart(part) \/ PartFails(part)
    \/ DesktopEntry \/ Record \/ Rollback \/ RolledBack

StageStep ==
    \/ Gate \/ Stage \/ RemovePart \/ RemoveOldEntry \/ MoveToTrash \/ WriteInfo
    \/ RemoveDesktop \/ RemoveFromLock

FlatStep ==
    \/ FlatInstall \/ FlatProfile \/ FlatRemove \/ FlatUnprofile
    \/ FlatExamine \/ FlatDeploy

Worker ==
    \/ \E id \in DOMAIN jobs : Take(id)
    \/ InstallStep \/ StageStep \/ FlatStep

Requests ==
    \/ \E pkg \in Packages : Enqueue("install", pkg) \/ Enqueue("upgrade", pkg)
    \/ \E app \in Apps : Enqueue("uninstall", Bare(app))
    \/ \E kind \in {"flatinstall", "flatupdate", "flatremove"} : Enqueue(kind, NoPackage)

Calls ==
    \/ \E app \in Apps : RestoreBegins(app) \/ CleanupReads(app)
    \/ RestoreMoves \/ RestoreReads \/ RestoreEntry \/ CleanupDeletes

Outside ==
    \/ \E app \in Apps : ThirtyDays(app)
    \/ Publish \/ EditProfile \/ Crash

Next == Requests \/ Worker \/ Calls \/ Outside

Spec == Init /\ [][Next]_installVars

\* The worker task is always scheduled again.
FairSpec == Spec /\ WF_installVars(Worker)
-----------------------------------------------------------------------------
(***************************************************************************)
(* Properties                                                              *)
(***************************************************************************)
Dir == [there : BOOLEAN, files : SUBSET Packages,
        manifest : Packages \cup {NoPackage}, info : {"none", "fresh", "expired"}]

Kinds == {"install", "upgrade", "uninstall", "flatinstall", "flatupdate", "flatremove"}

\* Which kinds of job have a step of that name.
KindsAt(step) ==
    CASE step \in {"open", "mkdir", "copy", "files", "schemas", "modules", "keys",
                  "settings", "desktop", "record", "rollback"} -> {"install", "upgrade"}
      [] step \in {"stage", "unpart", "move", "info"} -> {"upgrade", "uninstall"}
      [] step = "gate" -> {"upgrade"}
      [] step \in {"undesktop", "unlock"} -> {"uninstall"}
      [] step \in {"pull", "profile"} -> {"flatinstall"}
      [] step \in {"drop", "unprofile"} -> {"flatremove"}
      [] step \in {"examine", "deploy"} -> {"flatupdate"}
      [] OTHER -> {}

JobType == [kind : Kinds \cup {"over"}, pkg : Packages \cup {NoPackage} \cup {Bare(a) : a \in Apps},
            state : {"pending", "running", "completed", "failed", "lost"}]

Places == {"idle", "open", "mkdir", "copy", "files", "schemas", "modules", "keys",
           "settings", "desktop", "record", "rollback", "gate", "stage", "unpart",
           "move", "info", "undesktop", "unlock", "pull", "profile", "drop",
           "unprofile", "examine", "deploy"}

WorkType == [job : Nat, at : Places, todo : SUBSET (Parts \cup {"files"}),
             seen : 0 .. Len(FlatContext)]

DiskTypes ==
    /\ dir \in [Apps -> Dir] /\ trash \in [Apps -> Dir]
    /\ parts \in [Apps -> SUBSET Parts] /\ desktop \in [Apps -> BOOLEAN]
    /\ lock \in [Apps -> [known : BOOLEAN, caps : SUBSET Caps]]
    /\ flat \in [commit : 0 .. Len(FlatContext), asked : SUBSET Caps,
                 profile : {"none", "default", "edited"}]
    /\ head \in 1 .. Len(FlatContext)
    /\ asked \in [Apps -> SUBSET SUBSET Caps] /\ stray \in [Apps -> SUBSET Parts]
    /\ had \in [Apps -> BOOLEAN] /\ raced \in [Apps -> BOOLEAN]
    /\ rst = IdleCall \/ rst \in [app : Apps, at : {"move", "info", "entry"}]
    /\ cln = IdleCall \/ cln \in [app : Apps, at : {"delete"}]
    /\ trouble \in Nat

\* A job names what it is about, and the worker is at a step of the one job
\* that is marked running.
QueueTypes ==
    /\ jobs \in Seq(JobType)
    /\ \A id \in DOMAIN jobs :
          /\ jobs[id].state \in {"pending", "running"} <=> jobs[id].kind # "over"
          /\ jobs[id].kind \in {"install", "upgrade"} => jobs[id].pkg \in Packages
          /\ jobs[id].kind = "uninstall" => jobs[id].pkg \in {Bare(a) : a \in Apps}
          /\ jobs[id].state = "running" <=> work.job = id
    /\ work \in WorkType
    /\ work = Idle \/ (work.job \in DOMAIN jobs /\ Job.kind \in KindsAt(work.at))

\* The daemon's files have their types, and its queue and its worker agree
\* about what is running and at which step (enqueue, update_progress,
\* mark_completed and mark_failed).
TypeOK == DiskTypes /\ QueueTypes

\* No version with more high-impact reach than somebody once chose to install
\* gets onto the disk, into the trash (from where it can be restored) or into
\* the lock (against which the next upgrade is compared): upgrades are silent,
\* so upgrade_gate, record_in_lock, restore_app and the pinned Flatpak commit
\* must keep it so between them, whatever fails, crashes or is published.
WithinAsked(app, caps) == \E chosen \in asked[app] : ~Widens(chosen, caps)

NothingUnasked ==
    /\ \A a \in Apps :
          /\ \A p \in dir[a].files \cup trash[a].files : WithinAsked(a, p.caps)
          /\ lock[a].known => WithinAsked(a, lock[a].caps)
    /\ flat.commit # 0 => FlatContext[flat.commit] \subseteq flat.asked

\* What an app has outside its directory (schemas, modules with their
\* permission profiles, key bindings, a settings page) can be found again from
\* the manifest in its directory, at every step of an install, a rollback and
\* an uninstall and so after a crash at any of them; only what a step left that
\* failed halfway is lost track of.
PartsAreNamed ==
    \A a \in Apps : parts[a] \ stray[a] \subseteq Removable(dir[a].manifest)

\* A single crash or failed step never costs the user an app that was installed
\* and that nobody uninstalled: whenever the worker is between jobs a whole
\* version is in place or in the trash (run_upgrade stages the old version and
\* only then installs), unless a restore or a cleanup collided with the worker.
SomeVersionSurvives ==
    \A a \in Apps : had[a] /\ ~raced[a] /\ trouble <= 1 /\ work = Idle =>
        dir[a].manifest # NoPackage \/ trash[a].manifest # NoPackage

\* A job that reports success has done its work, also when restores and
\* cleanups run beside it: an install or upgrade left the version, all its
\* parts and the entry, an uninstall took back what the manifest names.
CompletedIsDone ==
    [][\A id \in DOMAIN jobs :
         jobs[id].state = "running" /\ jobs'[id].state = "completed" =>
           LET p == jobs[id].pkg IN
           /\ jobs[id].kind \in {"install", "upgrade"} =>
                 /\ dir'[p.app].manifest = p /\ p \in dir'[p.app].files
                 /\ p.parts \subseteq parts'[p.app] /\ desktop'[p.app]
           /\ jobs[id].kind = "uninstall" =>
                 parts'[p.app] \subseteq stray'[p.app]]_installVars

\* A permission profile that the user has edited survives installs and updates
\* and goes only when the Flatpak is uninstalled (run_install_flatpak).
EditedProfileIsKept ==
    [][flat.profile = "edited" /\ flat'.profile # "edited" =>
         flat.commit = 0 /\ Job.kind = "flatremove"]_installVars

\* Every job that was accepted ends, or dies with the daemon (run_worker): time
\* and again, and so for good once no more jobs are accepted, all are over.
JobsEnd ==
    []<>(\A id \in DOMAIN jobs : jobs[id].state \in {"completed", "failed", "lost"})
=============================================================================
