------------------------- MODULE InstallDaemonProofs ------------------------
(***************************************************************************)
(* What the install daemon keeps, for every set of apps, packages and      *)
(* capabilities and any number of jobs, crashes and failed steps.          *)
(***************************************************************************)
EXTENDS InstallDaemon, TLAPS

\* Replacing one element of a sequence.
LEMMA SeqUpdate ==
  ASSUME NEW S, NEW s \in Seq(S), NEW i \in 1 .. Len(s), NEW e \in S
  PROVE  /\ [s EXCEPT ![i] = e] \in Seq(S)
         /\ Len([s EXCEPT ![i] = e]) = Len(s)
         /\ \A j \in 1 .. Len(s) : [s EXCEPT ![i] = e][j] = IF j = i THEN e ELSE s[j]
OBVIOUS

\* Adding one at its end.
LEMMA SeqAppend ==
  ASSUME NEW S, NEW s \in Seq(S), NEW e \in S
  PROVE  /\ Append(s, e) \in Seq(S)
         /\ Len(Append(s, e)) = Len(s) + 1
         /\ \A i \in 1 .. Len(s) : Append(s, e)[i] = s[i]
         /\ Append(s, e)[Len(s) + 1] = e
OBVIOUS

\* The worker's job, once and for all.
LEMMA Running ==
  ASSUME QueueTypes, work # Idle
  PROVE  /\ work.job \in DOMAIN jobs /\ Job \in JobType
         /\ Job.state = "running" /\ Job.kind \in KindsAt(work.at)
         /\ Job.kind \in {"install", "upgrade"} => Pkg \in Packages /\ App \in Apps
         /\ Job.kind = "uninstall" => App \in Apps
<1>1. work.job \in DOMAIN jobs /\ Job.kind \in KindsAt(work.at) /\ Job.state = "running"
  BY Zenon DEF QueueTypes, Job
<1>2. Job \in JobType
  BY <1>1 DEF QueueTypes, Job
<1>3. Job.kind \in {"install", "upgrade"} => Pkg \in Packages /\ App \in Apps
  BY <1>1, PackagesAssumption, Zenon DEF QueueTypes, Job, Pkg, App
<1>4. Job.kind = "uninstall" => App \in Apps
  BY <1>1 DEF QueueTypes, Job, Pkg, App, Bare, NoPackage
<1> QED
  BY <1>1, <1>2, <1>3, <1>4, Zenon

LEMMA IdleWork == Idle \in WorkType /\ Idle.job = 0
<1>1. Len(FlatContext) \in Nat
  BY FlatAssumption
<1> QED
  BY <1>1 DEF Idle, WorkType, Places

\* Ending the job, or going on to a step the job has, keeps queue and worker
\* in agreement.
LEMMA EndsQueue ==
  ASSUME QueueTypes, work # Idle, NEW state \in {"completed", "failed"}, Ends(state)
  PROVE  QueueTypes'
<1>1. work.job \in DOMAIN jobs
  BY Running, Zenon
<1>2. Over(state) \in JobType
  BY Zenon DEF Over, JobType
<1>3. /\ jobs' \in Seq(JobType) /\ DOMAIN jobs' = DOMAIN jobs
      /\ jobs'[work.job] = Over(state)
      /\ \A id \in DOMAIN jobs : id # work.job => jobs'[id] = jobs[id]
  BY <1>1, <1>2, SeqUpdate DEF Ends, QueueTypes
<1>4. work' = Idle
  BY Zenon DEF Ends
<1>5. work'.job = 0 /\ 0 \notin DOMAIN jobs
  BY <1>4 DEF Idle, QueueTypes
<1>6. \A id \in DOMAIN jobs' :
          /\ jobs'[id].state \in {"pending", "running"} <=> jobs'[id].kind # "over"
          /\ jobs'[id].kind \in {"install", "upgrade"} => jobs'[id].pkg \in Packages
          /\ jobs'[id].kind = "uninstall" => jobs'[id].pkg \in {Bare(a) : a \in Apps}
          /\ jobs'[id].state = "running" <=> work'.job = id
  <2> SUFFICES ASSUME NEW id \in DOMAIN jobs
      PROVE /\ jobs'[id].state \in {"pending", "running"} <=> jobs'[id].kind # "over"
            /\ jobs'[id].kind \in {"install", "upgrade"} => jobs'[id].pkg \in Packages
            /\ jobs'[id].kind = "uninstall" => jobs'[id].pkg \in {Bare(a) : a \in Apps}
            /\ jobs'[id].state = "running" <=> work'.job = id
    BY <1>3, Zenon
  <2>1. CASE id = work.job
    BY <1>3, <1>5, <2>1 DEF Over
  <2>2. CASE id # work.job
    BY <1>3, <1>5, <2>2 DEF QueueTypes
  <2> QED
    BY <2>1, <2>2, Zenon
<1>7. work' \in WorkType
  BY <1>4, IdleWork, Zenon
<1> QED
  BY <1>3, <1>4, <1>6, <1>7, Zenon DEF QueueTypes

LEMMA StepQueue ==
  ASSUME QueueTypes, work # Idle, UNCHANGED jobs, work'.job = work.job,
         Job.kind \in KindsAt(work'.at), work' \in WorkType
  PROVE  QueueTypes'
<1>1. work.job \in DOMAIN jobs
  BY Running, Zenon
<1>2. Job' = Job
  BY Zenon DEF Job
<1> QED
  BY <1>1, <1>2 DEF QueueTypes

LEMMA GotoQueue ==
  ASSUME QueueTypes, work # Idle, NEW step \in Places, Goto(step), Job.kind \in KindsAt(step)
  PROVE  QueueTypes'
<1>1. work' = [work EXCEPT !.at = step] /\ UNCHANGED jobs
  BY Zenon DEF Goto
<1>2. work' \in WorkType /\ work'.at = step /\ work'.job = work.job
  BY <1>1, Zenon DEF QueueTypes, WorkType
<1> QED
  BY <1>1, <1>2, StepQueue, Zenon
-----------------------------------------------------------------------------
(***************************************************************************)
(* The inductive invariant.                                                *)
(***************************************************************************)
\* What an install job asks for was chosen when it was accepted, and an upgrade
\* that is past its gate asks for no more than was chosen once.
Chosen ==
    \A id \in DOMAIN jobs : jobs[id].kind = "install" =>
        jobs[id].pkg.caps \in asked[jobs[id].pkg.app]

Cleared ==
    /\ work # Idle /\ work.at # "gate" /\ Job.kind \in {"install", "upgrade"} =>
          WithinAsked(App, Pkg.caps)
    /\ work.at = "deploy" => FlatContext[work.seen] \subseteq flat.asked

\* A directory that is not there has no content.
AbsentIsEmpty ==
    \A a \in Apps : /\ ~dir[a].there => dir[a] = Nowhere
                    /\ ~trash[a].there => trash[a] = Nowhere

Kept(app) == parts[app] \ stray[app]

\* The parts whose step is over once the worker is at the given one.
Before(step) ==
    CASE step = "modules"  -> {"schemas"}
      [] step = "keys"     -> {"schemas", "modules"}
      [] step = "settings" -> {"schemas", "modules", "keys"}
      [] step \in {"desktop", "record"} -> Parts
      [] OTHER -> {}

\* How far the directory and the parts are at each step of the worker.
Unpacking ==
    work.at \in {"copy", "files"} =>
        dir[App].there /\ Kept(App) = {} /\ (work.at = "files" => Pkg \in dir[App].files)

Placing ==
    work.at \in Parts \cup {"desktop", "record"} =>
        /\ dir[App].there /\ dir[App].manifest = Pkg /\ Pkg \in dir[App].files
        /\ Kept(App) \subseteq work.todo /\ work.todo \subseteq Pkg.parts \cup {"files"}
        /\ "files" \in work.todo
        /\ Pkg.parts \cap Before(work.at) \subseteq parts[App]
        /\ work.at = "record" => desktop[App]

Undoing ==
    work.at = "rollback" =>
        /\ Kept(App) \subseteq work.todo
        /\ work.todo # {} => /\ dir[App].there /\ dir[App].manifest = Pkg
                             /\ "files" \in work.todo

Staging ==
    /\ work.at \in {"unpart", "move"} => dir[App].there
    /\ work.at = "unpart" => Kept(App) \subseteq work.todo /\ work.todo \subseteq Parts
    /\ work.at \in {"move", "info", "undesktop", "unlock"} => Kept(App) = {}

Asked == Chosen /\ Cleared /\ NothingUnasked
Placed == AbsentIsEmpty /\ PartsAreNamed /\ Unpacking /\ Placing /\ Undoing /\ Staging
-----------------------------------------------------------------------------
(***************************************************************************)
(* The order of the steps.                                                 *)
(***************************************************************************)
LEMMA Positions ==
  /\ Position("files") = 1 /\ Position("schemas") = 2 /\ Position("modules") = 3
  /\ Position("keys") = 4 /\ Position("settings") = 5 /\ Position("desktop") = 6
<1>1. DOMAIN Steps = 1 .. 6
  BY DEF Steps
<1>2. /\ Steps[1] = "files" /\ Steps[2] = "schemas" /\ Steps[3] = "modules"
      /\ Steps[4] = "keys" /\ Steps[5] = "settings" /\ Steps[6] = "desktop"
  BY Zenon DEF Steps
<1>3. ASSUME NEW n \in 1 .. 6
      PROVE  Position(Steps[n]) = n
  <2>1. \A i \in 1 .. 6 : Steps[i] = Steps[n] => i = n
    BY <1>2, <1>3
  <2>2. Position(Steps[n]) = CHOOSE i \in 1 .. 6 : Steps[i] = Steps[n]
    BY <1>1, Zenon DEF Position
  <2> QED
    BY <2>1, <2>2, Zenon
<1> QED
  BY <1>2, <1>3

LEMMA Afters ==
  /\ After("files") = "schemas" /\ After("schemas") = "modules"
  /\ After("modules") = "keys" /\ After("keys") = "settings"
  /\ After("settings") = "desktop"
<1>1. Len(Steps) = 6
  BY Zenon DEF Steps
<1>2. /\ Steps[1] = "files" /\ Steps[2] = "schemas" /\ Steps[3] = "modules"
      /\ Steps[4] = "keys" /\ Steps[5] = "settings" /\ Steps[6] = "desktop"
  BY Zenon DEF Steps
<1> QED
  BY <1>1, <1>2, Positions DEF After

\* What is undone next is one of the things to undo, and the files come last.
LEMMA LastOfTodo ==
  ASSUME NEW S \in SUBSET (Parts \cup {"files"}), S # {}
  PROVE  LastOf(S) \in S /\ (LastOf(S) = "files" => S = {"files"})
<1>1. \E s \in S : \A other \in S : Position(other) <= Position(s)
  <2>1. CASE "settings" \in S
    BY <2>1, Positions DEF Parts
  <2>2. CASE "settings" \notin S /\ "keys" \in S
    BY <2>2, Positions DEF Parts
  <2>3. CASE "settings" \notin S /\ "keys" \notin S /\ "modules" \in S
    BY <2>3, Positions DEF Parts
  <2>4. CASE "settings" \notin S /\ "keys" \notin S /\ "modules" \notin S /\ "schemas" \in S
    BY <2>4, Positions DEF Parts
  <2>5. CASE "settings" \notin S /\ "keys" \notin S /\ "modules" \notin S /\ "schemas" \notin S
    <3>1. S = {"files"}
      BY <2>5, Zenon DEF Parts
    <3> QED
      BY <3>1, Positions
  <2> QED
    BY <2>1, <2>2, <2>3, <2>4, <2>5, Zenon
<1>2. LastOf(S) \in S /\ \A other \in S : Position(other) <= Position(LastOf(S))
  BY <1>1, Zenon DEF LastOf
<1>3. LastOf(S) = "files" => S = {"files"}
  <2> SUFFICES ASSUME LastOf(S) = "files", NEW other \in S
      PROVE other = "files"
    BY <1>2, Zenon
  <2>1. Position(other) <= 1
    BY <1>2, Positions, Zenon
  <2>2. other \in {"files", "schemas", "modules", "keys", "settings"}
    BY Zenon DEF Parts
  <2> QED
    BY <2>1, <2>2, Positions
<1> QED
  BY <1>2, <1>3, Zenon
-----------------------------------------------------------------------------
(***************************************************************************)
(* The queue and the worker agree.                                         *)
(***************************************************************************)
LEMMA AtWork ==
  ASSUME QueueTypes, NEW step, At(step), step # "idle"
  PROVE  work # Idle /\ Job.kind \in KindsAt(step)
<1>1. work # Idle
  BY DEF At, Idle
<1> QED
  BY <1>1, Zenon DEF At, QueueTypes

LEMMA EnqueueQueue ==
  ASSUME QueueTypes, NEW kind \in Kinds, NEW pkg, Enqueue(kind, pkg),
         kind \in {"install", "upgrade"} => pkg \in Packages,
         kind = "uninstall" => pkg \in {Bare(a) : a \in Apps},
         kind \notin {"install", "upgrade", "uninstall"} => pkg = NoPackage
  PROVE  QueueTypes'
<1> DEFINE new == [kind |-> kind, pkg |-> pkg, state |-> "pending"]
<1>1. new \in JobType
  BY Zenon DEF JobType, Kinds
<1>2. jobs' = Append(jobs, new) /\ UNCHANGED work
  BY Zenon DEF Enqueue, installVars
<1>3. /\ jobs' \in Seq(JobType) /\ DOMAIN jobs' = 1 .. Len(jobs) + 1
      /\ \A id \in DOMAIN jobs : jobs'[id] = jobs[id]
      /\ jobs'[Len(jobs) + 1] = new
  BY <1>1, <1>2, SeqAppend DEF QueueTypes
<1>4. DOMAIN jobs = 1 .. Len(jobs) /\ Len(jobs) \in Nat
  BY DEF QueueTypes
<1>5. work.job # Len(jobs) + 1
  BY <1>4 DEF QueueTypes, Idle
<1>6. \A id \in DOMAIN jobs' :
          /\ jobs'[id].state \in {"pending", "running"} <=> jobs'[id].kind # "over"
          /\ jobs'[id].kind \in {"install", "upgrade"} => jobs'[id].pkg \in Packages
          /\ jobs'[id].kind = "uninstall" => jobs'[id].pkg \in {Bare(a) : a \in Apps}
          /\ jobs'[id].state = "running" <=> work'.job = id
  <2> SUFFICES ASSUME NEW id \in DOMAIN jobs'
      PROVE /\ jobs'[id].state \in {"pending", "running"} <=> jobs'[id].kind # "over"
            /\ jobs'[id].kind \in {"install", "upgrade"} => jobs'[id].pkg \in Packages
            /\ jobs'[id].kind = "uninstall" => jobs'[id].pkg \in {Bare(a) : a \in Apps}
            /\ jobs'[id].state = "running" <=> work'.job = id
    BY Zenon
  <2>1. CASE id = Len(jobs) + 1
    BY <1>2, <1>3, <1>5, <2>1 DEF Kinds
  <2>2. CASE id # Len(jobs) + 1
    BY <1>2, <1>3, <1>4, <2>2 DEF QueueTypes
  <2> QED
    BY <2>1, <2>2, Zenon
<1>7. work = Idle \/ (work'.job \in DOMAIN jobs' /\ Job' = Job)
  BY <1>2, <1>3, <1>4 DEF QueueTypes, Job
<1>8. work' = Idle \/ (work'.job \in DOMAIN jobs' /\ Job'.kind \in KindsAt(work'.at))
  BY <1>2, <1>7, Zenon DEF QueueTypes
<1> QED
  BY <1>2, <1>3, <1>6, <1>8, Zenon DEF QueueTypes

LEMMA TakeQueue ==
  ASSUME QueueTypes, NEW id, Take(id)
  PROVE  QueueTypes'
<1>1. work = Idle /\ id \in DOMAIN jobs /\ jobs[id].state = "pending"
  BY Zenon DEF Take
<1>2. jobs[id] \in JobType /\ jobs[id].kind \in Kinds
  <2>1. jobs[id] \in JobType /\ jobs[id].kind # "over"
    BY <1>1 DEF QueueTypes
  <2> QED
    BY <2>1, Zenon DEF JobType
<1> DEFINE now == [jobs[id] EXCEPT !.state = "running"]
<1>3. now \in JobType /\ now.kind = jobs[id].kind /\ now.pkg = jobs[id].pkg /\ now.state = "running"
  BY <1>2, Zenon DEF JobType
<1>4. jobs' = [jobs EXCEPT ![id] = now]
  BY Zenon DEF Take
<1>5. /\ jobs' \in Seq(JobType) /\ DOMAIN jobs' = DOMAIN jobs /\ jobs'[id] = now
      /\ \A other \in DOMAIN jobs : other # id => jobs'[other] = jobs[other]
  BY <1>1, <1>3, <1>4, SeqUpdate DEF QueueTypes
<1>6. work' = [job |-> id, at |-> FirstStep(jobs[id].kind), todo |-> {}, seen |-> 0]
  BY Zenon DEF Take, Idle
<1>7. FirstStep(jobs[id].kind) \in Places /\ jobs[id].kind \in KindsAt(FirstStep(jobs[id].kind))
  <2>1. CASE jobs[id].kind = "install"
    BY <2>1, Zenon DEF FirstStep, KindsAt, Places
  <2>2. CASE jobs[id].kind = "upgrade"
    BY <2>2, Zenon DEF FirstStep, KindsAt, Places
  <2>3. CASE jobs[id].kind = "uninstall"
    BY <2>3, Zenon DEF FirstStep, KindsAt, Places
  <2>4. CASE jobs[id].kind = "flatinstall"
    BY <2>4, Zenon DEF FirstStep, KindsAt, Places
  <2>5. CASE jobs[id].kind = "flatupdate"
    BY <2>5, Zenon DEF FirstStep, KindsAt, Places
  <2>6. CASE jobs[id].kind = "flatremove"
    BY <2>6, Zenon DEF FirstStep, KindsAt, Places
  <2> QED
    BY <1>2, <2>1, <2>2, <2>3, <2>4, <2>5, <2>6, Zenon DEF Kinds
<1>8. work' \in WorkType
  BY <1>1, <1>6, <1>7, FlatAssumption DEF QueueTypes, WorkType
<1>9. \A other \in DOMAIN jobs : jobs[other].state # "running"
  BY <1>1 DEF QueueTypes, Idle
<1>10. \A other \in DOMAIN jobs' :
          /\ jobs'[other].state \in {"pending", "running"} <=> jobs'[other].kind # "over"
          /\ jobs'[other].kind \in {"install", "upgrade"} => jobs'[other].pkg \in Packages
          /\ jobs'[other].kind = "uninstall" => jobs'[other].pkg \in {Bare(a) : a \in Apps}
          /\ jobs'[other].state = "running" <=> work'.job = other
  <2> SUFFICES ASSUME NEW other \in DOMAIN jobs
      PROVE /\ jobs'[other].state \in {"pending", "running"} <=> jobs'[other].kind # "over"
            /\ jobs'[other].kind \in {"install", "upgrade"} => jobs'[other].pkg \in Packages
            /\ jobs'[other].kind = "uninstall" => jobs'[other].pkg \in {Bare(a) : a \in Apps}
            /\ jobs'[other].state = "running" <=> work'.job = other
    BY <1>5, Zenon
  <2>1. CASE other = id
    BY ZenonT(60), <1>1, <1>3, <1>5, <1>6, <2>1 DEF QueueTypes
  <2>2. CASE other # id
    BY <1>5, <1>6, <1>9, <2>2 DEF QueueTypes
  <2> QED
    BY <2>1, <2>2, Zenon
<1>11. Job' = now /\ work'.job \in DOMAIN jobs' /\ work'.at = FirstStep(jobs[id].kind)
  BY <1>1, <1>5, <1>6, Zenon DEF Job
<1> QED
  BY <1>3, <1>5, <1>7, <1>8, <1>10, <1>11, Zenon DEF QueueTypes

LEMMA CrashQueue ==
  ASSUME QueueTypes, Crash
  PROVE  QueueTypes'
<1> DEFINE ended(id) == IF jobs[id].state \in {"pending", "running"}
                        THEN Over("lost") ELSE jobs[id]
<1>1. jobs' = [id \in DOMAIN jobs |-> ended(id)] /\ work' = Idle
  BY Zenon DEF Crash
<1>2. Over("lost") \in JobType
  BY Zenon DEF Over, JobType
<1>3. \A id \in DOMAIN jobs : ended(id) \in JobType
  BY <1>2 DEF QueueTypes
<1>4. jobs' \in Seq(JobType)
  BY <1>1, <1>3 DEF QueueTypes
<1>5. Idle \in WorkType /\ Idle.job = 0
  BY IdleWork, Zenon
<1>6. \A id \in DOMAIN jobs :
          /\ ended(id).state \notin {"pending", "running"} /\ ended(id).kind = "over"
          /\ id # 0
  BY DEF QueueTypes, JobType, Over
<1> QED
  BY <1>1, <1>4, <1>5, <1>6 DEF QueueTypes

LEMMA KindsAtSteps ==
  /\ KindsAt("open") = {"install", "upgrade"}
  /\ KindsAt("mkdir") = {"install", "upgrade"}
  /\ KindsAt("copy") = {"install", "upgrade"}
  /\ KindsAt("files") = {"install", "upgrade"}
  /\ KindsAt("schemas") = {"install", "upgrade"}
  /\ KindsAt("modules") = {"install", "upgrade"}
  /\ KindsAt("keys") = {"install", "upgrade"}
  /\ KindsAt("settings") = {"install", "upgrade"}
  /\ KindsAt("desktop") = {"install", "upgrade"}
  /\ KindsAt("record") = {"install", "upgrade"}
  /\ KindsAt("rollback") = {"install", "upgrade"}
  /\ KindsAt("stage") = {"upgrade", "uninstall"}
  /\ KindsAt("unpart") = {"upgrade", "uninstall"}
  /\ KindsAt("move") = {"upgrade", "uninstall"}
  /\ KindsAt("info") = {"upgrade", "uninstall"}
  /\ KindsAt("gate") = {"upgrade"}
  /\ KindsAt("undesktop") = {"uninstall"}
  /\ KindsAt("unlock") = {"uninstall"}
  /\ KindsAt("pull") = {"flatinstall"}
  /\ KindsAt("profile") = {"flatinstall"}
  /\ KindsAt("drop") = {"flatremove"}
  /\ KindsAt("unprofile") = {"flatremove"}
  /\ KindsAt("examine") = {"flatupdate"}
  /\ KindsAt("deploy") = {"flatupdate"}
BY Zenon DEF KindsAt

\* Every step of the worker keeps queue and worker in agreement.
LEMMA WorkerQueue ==
  ASSUME TypeOK, InstallStep \/ StageStep \/ FlatStep
  PROVE  QueueTypes'
<1> USE DEF TypeOK
<1>1. CASE OpenPackage
  <2>1. work # Idle /\ Job.kind \in KindsAt("open")
    BY <1>1, AtWork, Zenon DEF OpenPackage
  <2>2. Goto("mkdir") \/ Ends("failed")
    BY <1>1, Zenon DEF OpenPackage
  <2> QED
    BY <2>1, <2>2, GotoQueue, KindsAtSteps, EndsQueue, Zenon DEF Places
<1>2. CASE MakeDir
  <2>1. work # Idle /\ Job.kind \in KindsAt("mkdir")
    BY <1>2, AtWork, Zenon DEF MakeDir
  <2>2. Goto("copy") \/ Ends("failed")
    BY <1>2, Zenon DEF MakeDir
  <2> QED
    BY <2>1, <2>2, GotoQueue, KindsAtSteps, EndsQueue, Zenon DEF Places
<1>3. CASE CopyFiles
  <2>1. work # Idle /\ Job.kind \in KindsAt("copy")
    BY <1>3, AtWork, Zenon DEF CopyFiles
  <2>2. Goto("files") \/ Ends("failed")
    BY <1>3, Zenon DEF CopyFiles
  <2> QED
    BY <2>1, <2>2, GotoQueue, KindsAtSteps, EndsQueue, Zenon DEF Places
<1>4. CASE DesktopEntry
  <2>1. work # Idle /\ Job.kind \in KindsAt("desktop")
    BY <1>4, AtWork, Zenon DEF DesktopEntry
  <2>2. Goto("record") \/ Goto("rollback")
    BY <1>4, Zenon DEF DesktopEntry
  <2> QED
    BY <2>1, <2>2, GotoQueue, KindsAtSteps, Zenon DEF Places
<1>5. CASE Record
  <2>1. work # Idle /\ Job.kind \in KindsAt("record")
    BY <1>5, AtWork, Zenon DEF Record
  <2>2. Ends("completed")
    BY <1>5, Zenon DEF Record
  <2> QED
    BY <2>1, <2>2, EndsQueue, Zenon
<1>6. CASE RolledBack
  <2>1. work # Idle /\ Job.kind \in KindsAt("rollback")
    BY <1>6, AtWork, Zenon DEF RolledBack
  <2>2. Ends("failed")
    BY <1>6, Zenon DEF RolledBack
  <2> QED
    BY <2>1, <2>2, EndsQueue, Zenon
<1>7. CASE Gate
  <2>1. work # Idle /\ Job.kind \in KindsAt("gate")
    BY <1>7, AtWork, Zenon DEF Gate
  <2>2. Goto("stage") \/ Ends("failed")
    BY <1>7, Zenon DEF Gate
  <2> QED
    BY <2>1, <2>2, GotoQueue, KindsAtSteps, EndsQueue, Zenon DEF Places
<1>8. CASE RemoveOldEntry
  <2>1. work # Idle /\ Job.kind \in KindsAt("unpart")
    BY <1>8, AtWork, Zenon DEF RemoveOldEntry
  <2>2. Goto("move") \/ Ends("failed")
    BY <1>8, Zenon DEF RemoveOldEntry
  <2> QED
    BY <2>1, <2>2, GotoQueue, KindsAtSteps, EndsQueue, Zenon DEF Places
<1>9. CASE MoveToTrash
  <2>1. work # Idle /\ Job.kind \in KindsAt("move")
    BY <1>9, AtWork, Zenon DEF MoveToTrash
  <2>2. Goto("info") \/ Ends("failed")
    BY <1>9, Zenon DEF MoveToTrash
  <2> QED
    BY <2>1, <2>2, GotoQueue, KindsAtSteps, EndsQueue, Zenon DEF Places
<1>10. CASE RemoveDesktop
  <2>1. work # Idle /\ Job.kind \in KindsAt("undesktop")
    BY <1>10, AtWork, Zenon DEF RemoveDesktop
  <2>2. Goto("unlock") \/ Ends("failed")
    BY <1>10, Zenon DEF RemoveDesktop
  <2> QED
    BY <2>1, <2>2, GotoQueue, KindsAtSteps, EndsQueue, Zenon DEF Places
<1>11. CASE RemoveFromLock
  <2>1. work # Idle /\ Job.kind \in KindsAt("unlock")
    BY <1>11, AtWork, Zenon DEF RemoveFromLock
  <2>2. Ends("completed")
    BY <1>11, Zenon DEF RemoveFromLock
  <2> QED
    BY <2>1, <2>2, EndsQueue, Zenon
<1>12. CASE FlatInstall
  <2>1. work # Idle /\ Job.kind \in KindsAt("pull")
    BY <1>12, AtWork, Zenon DEF FlatInstall
  <2>2. Goto("profile") \/ Ends("failed")
    BY <1>12, Zenon DEF FlatInstall
  <2> QED
    BY <2>1, <2>2, GotoQueue, KindsAtSteps, EndsQueue, Zenon DEF Places
<1>13. CASE FlatProfile
  <2>1. work # Idle /\ Job.kind \in KindsAt("profile")
    BY <1>13, AtWork, Zenon DEF FlatProfile
  <2>2. Ends("completed") \/ Ends("failed")
    BY <1>13, Zenon DEF FlatProfile
  <2> QED
    BY <2>1, <2>2, EndsQueue, Zenon
<1>14. CASE FlatRemove
  <2>1. work # Idle /\ Job.kind \in KindsAt("drop")
    BY <1>14, AtWork, Zenon DEF FlatRemove
  <2>2. Goto("unprofile") \/ Ends("failed")
    BY <1>14, Zenon DEF FlatRemove
  <2> QED
    BY <2>1, <2>2, GotoQueue, KindsAtSteps, EndsQueue, Zenon DEF Places
<1>15. CASE FlatUnprofile
  <2>1. work # Idle /\ Job.kind \in KindsAt("unprofile")
    BY <1>15, AtWork, Zenon DEF FlatUnprofile
  <2>2. Ends("completed")
    BY <1>15, Zenon DEF FlatUnprofile
  <2> QED
    BY <2>1, <2>2, EndsQueue, Zenon
<1>16. CASE FlatDeploy
  <2>1. work # Idle /\ Job.kind \in KindsAt("deploy")
    BY <1>16, AtWork, Zenon DEF FlatDeploy
  <2>2. Ends("completed") \/ Ends("failed")
    BY <1>16, Zenon DEF FlatDeploy
  <2> QED
    BY <2>1, <2>2, EndsQueue, Zenon
<1>17. CASE CopyManifest
  <2>1. work # Idle /\ Job.kind \in KindsAt("files")
    BY <1>17, AtWork, Zenon DEF CopyManifest
  <2>2. CASE Ends("failed")
    BY <2>1, <2>2, EndsQueue, Zenon
  <2>3. CASE work' = [work EXCEPT !.at = "schemas", !.todo = {"files"}] /\ UNCHANGED jobs
    <3>1. work' \in WorkType /\ work'.at = "schemas" /\ work'.job = work.job
      BY <2>3, Zenon DEF QueueTypes, WorkType, Places
    <3> QED
      BY <2>1, <2>3, <3>1, StepQueue, KindsAtSteps, Zenon
  <2> QED
    BY <1>17, <2>2, <2>3, Afters, Zenon DEF CopyManifest
<1>18. CASE \E part \in Parts : PutPart(part)
  <2>1. PICK part \in Parts : PutPart(part)
    BY <1>18, Zenon
  <2>2. part \in {"schemas", "modules", "keys", "settings"}
    BY Zenon DEF Parts
  <2>3. work # Idle /\ Job.kind \in KindsAt(part)
    BY <2>1, <2>2, AtWork, Zenon DEF PutPart
  <2>4. /\ After(part) \in {"modules", "keys", "settings", "desktop"} /\ UNCHANGED jobs
        /\ \/ work' = [work EXCEPT !.at = After(part), !.todo = @ \cup {part}]
           \/ work' = [work EXCEPT !.at = After(part)]
    BY <2>1, <2>2, Afters, Zenon DEF PutPart
  <2>5. work' \in WorkType /\ work'.at = After(part) /\ work'.job = work.job
    <3>1. After(part) \in Places /\ work \in WorkType
      BY <2>4, Zenon DEF QueueTypes, Places
    <3>2. work.todo \cup {part} \in SUBSET (Parts \cup {"files"})
      BY <3>1, Zenon DEF WorkType
    <3> QED
      BY <2>4, <3>1, <3>2, Zenon DEF WorkType
  <2> QED
    BY <2>2, <2>3, <2>4, <2>5, StepQueue, KindsAtSteps
<1>19. CASE \E part \in Parts : PartFails(part)
  <2>1. PICK part \in Parts : PartFails(part)
    BY <1>19, Zenon
  <2>2. part \in {"schemas", "modules", "keys", "settings"}
    BY Zenon DEF Parts
  <2>3. work # Idle /\ Job.kind \in KindsAt(part) /\ Goto("rollback")
    BY <2>1, <2>2, AtWork, Zenon DEF PartFails
  <2> QED
    BY <2>2, <2>3, GotoQueue, KindsAtSteps, Zenon DEF Places
<1>20. CASE Rollback
  <2>1. work # Idle /\ Job.kind \in KindsAt("rollback")
    BY <1>20, AtWork, Zenon DEF Rollback
  <2>2. work' = [work EXCEPT !.todo = @ \ {LastOf(work.todo)}] /\ UNCHANGED jobs
    BY <1>20, Zenon DEF Rollback
  <2>3. work' \in WorkType /\ work'.at = work.at /\ work'.job = work.job
    BY <2>2, Zenon DEF QueueTypes, WorkType
  <2> QED
    BY <1>20, <2>1, <2>2, <2>3, StepQueue, Zenon DEF Rollback, At
<1>21. CASE Stage
  <2>1. work # Idle /\ Job.kind \in KindsAt("stage") /\ App \in Apps
    BY <1>21, AtWork, KindsAtSteps, Running, Zenon DEF Stage
  <2>2. CASE Ends("failed")
    BY <2>1, <2>2, EndsQueue, Zenon
  <2>3. CASE /\ work' = [work EXCEPT !.at = "unpart",
                           !.todo = parts[App] \cap Removable(dir[App].manifest)]
             /\ UNCHANGED jobs
    <3>1. parts[App] \subseteq Parts
      BY <2>1, Zenon DEF DiskTypes
    <3>2. work' \in WorkType /\ work'.at = "unpart" /\ work'.job = work.job
      BY <2>3, <3>1, Zenon DEF QueueTypes, WorkType, Places
    <3> QED
      BY <2>1, <2>3, <3>2, StepQueue, KindsAtSteps, Zenon
  <2> QED
    BY <1>21, <2>2, <2>3, Zenon DEF Stage
<1>22. CASE RemovePart
  <2>1. work # Idle /\ Job.kind \in KindsAt("unpart")
    BY <1>22, AtWork, Zenon DEF RemovePart
  <2>2. work' = [work EXCEPT !.todo = @ \ {LastOf(work.todo)}] /\ UNCHANGED jobs
    BY <1>22, Zenon DEF RemovePart
  <2>3. work' \in WorkType /\ work'.at = work.at /\ work'.job = work.job
    BY <2>2, Zenon DEF QueueTypes, WorkType
  <2> QED
    BY <1>22, <2>1, <2>2, <2>3, StepQueue, Zenon DEF RemovePart, At
<1>23. CASE WriteInfo
  <2>1. work # Idle /\ Job.kind \in KindsAt("info")
    BY <1>23, AtWork, Zenon DEF WriteInfo
  <2>2. Ends("failed") \/ Goto(IF Job.kind = "upgrade" THEN "open" ELSE "undesktop")
    BY <1>23, Zenon DEF WriteInfo
  <2>3. CASE Ends("failed")
    BY <2>1, <2>3, EndsQueue, Zenon
  <2>4. CASE Goto(IF Job.kind = "upgrade" THEN "open" ELSE "undesktop")
    BY <2>1, <2>4, GotoQueue, KindsAtSteps, Zenon DEF Places
  <2> QED
    BY <2>2, <2>3, <2>4, Zenon
<1>24. CASE FlatExamine
  <2>1. work # Idle /\ Job.kind \in KindsAt("examine")
    BY <1>24, AtWork, Zenon DEF FlatExamine
  <2>2. CASE Ends("failed")
    BY <2>1, <2>2, EndsQueue, Zenon
  <2>3. CASE work' = [work EXCEPT !.at = "deploy", !.seen = head] /\ UNCHANGED jobs
    <3>1. head \in 0 .. Len(FlatContext)
      BY FlatAssumption DEF DiskTypes
    <3>2. work' \in WorkType /\ work'.at = "deploy" /\ work'.job = work.job
      BY <2>3, <3>1, Zenon DEF QueueTypes, WorkType, Places
    <3> QED
      BY <2>1, <2>3, <3>2, StepQueue, KindsAtSteps, Zenon
  <2> QED
    BY <1>24, <2>2, <2>3, Zenon DEF FlatExamine
<1> QED
  BY SMTT(60), <1>1, <1>2, <1>3, <1>4, <1>5, <1>6, <1>7, <1>8, <1>9, <1>10, <1>11, <1>12, <1>13, <1>14, <1>15, <1>16, <1>17, <1>18, <1>19, <1>20, <1>21, <1>22, <1>23, <1>24
  DEF InstallStep, StageStep, FlatStep

LEMMA NextQueue ==
  ASSUME TypeOK, [Next]_installVars
  PROVE  QueueTypes'
<1>1. CASE Requests
  <2>1. ASSUME NEW pkg \in Packages, Enqueue("install", pkg) \/ Enqueue("upgrade", pkg)
        PROVE  QueueTypes'
    BY <2>1, EnqueueQueue, Zenon DEF TypeOK, Kinds
  <2>2. ASSUME NEW app \in Apps, Enqueue("uninstall", Bare(app))
        PROVE  QueueTypes'
    BY <2>2, EnqueueQueue, Zenon DEF TypeOK, Kinds
  <2>3. ASSUME NEW kind \in {"flatinstall", "flatupdate", "flatremove"}, Enqueue(kind, NoPackage)
        PROVE  QueueTypes'
    BY <2>3, EnqueueQueue, Zenon DEF TypeOK, Kinds
  <2> QED
    BY <1>1, <2>1, <2>2, <2>3, Zenon DEF Requests
<1>2. CASE Worker
  BY <1>2, TakeQueue, WorkerQueue, Zenon DEF TypeOK, Worker
<1>3. CASE Crash
  BY <1>3, CrashQueue, Zenon DEF TypeOK
<1>4. CASE UNCHANGED <<jobs, work>>
  BY <1>4, Zenon DEF TypeOK, QueueTypes, Job
<1>5. Calls \/ Outside \/ UNCHANGED installVars => Crash \/ UNCHANGED <<jobs, work>>
  BY Zenon DEF Calls, Outside, installVars, RestoreBegins, RestoreMoves, RestoreReads, RestoreEntry,
         CleanupReads, CleanupDeletes, ThirtyDays, Publish, EditProfile
<1> QED
  BY <1>1, <1>2, <1>3, <1>4, <1>5, Zenon DEF Next
-----------------------------------------------------------------------------
(***************************************************************************)
(* The files keep their types.                                             *)
(***************************************************************************)
LEMMA DirTypes ==
  /\ Nowhere \in Dir /\ EmptyDir \in Dir
  /\ ~Nowhere.there /\ EmptyDir.there
  /\ Nowhere.manifest = NoPackage /\ EmptyDir.manifest = NoPackage
  /\ Nowhere.files = {} /\ EmptyDir.files = {}
  /\ Nowhere.info = "none" /\ EmptyDir.info = "none"
BY Zenon DEF Nowhere, EmptyDir, Dir

LEMMA DirChanges ==
  ASSUME NEW d \in Dir
  PROVE  /\ \A p \in Packages : /\ [d EXCEPT !.manifest = p] \in Dir
                                /\ [d EXCEPT !.files = @ \cup {p}] \in Dir
         /\ \A i \in {"none", "fresh", "expired"} : [d EXCEPT !.info = i] \in Dir
<1>1. ASSUME NEW p \in Packages
      PROVE  [d EXCEPT !.manifest = p] \in Dir
  BY Zenon DEF Dir
<1>2. ASSUME NEW p \in Packages
      PROVE  [d EXCEPT !.files = @ \cup {p}] \in Dir
  <2>1. d.files \cup {p} \in SUBSET Packages
    BY Zenon DEF Dir
  <2> QED
    BY <2>1, Zenon DEF Dir
<1>3. ASSUME NEW i \in {"none", "fresh", "expired"}
      PROVE  [d EXCEPT !.info = i] \in Dir
  BY Zenon DEF Dir
<1> QED
  BY <1>1, <1>2, <1>3, Zenon

LEMMA DirPut ==
  ASSUME NEW f \in [Apps -> Dir], NEW a, NEW d \in Dir
  PROVE  [f EXCEPT ![a] = d] \in [Apps -> Dir]
BY Zenon

LEMMA FlagChange ==
  ASSUME NEW f \in [Apps -> BOOLEAN], NEW a, NEW b \in BOOLEAN
  PROVE  [f EXCEPT ![a] = b] \in [Apps -> BOOLEAN]
BY Zenon

LEMMA LockEntries ==
  /\ Unlocked \in [known : BOOLEAN, caps : SUBSET Caps]
  /\ \A c \in SUBSET Caps : [known |-> TRUE, caps |-> c] \in [known : BOOLEAN, caps : SUBSET Caps]
BY Zenon DEF Unlocked

\* The app the worker's step is about.
LEMMA AtApp ==
  ASSUME TypeOK, NEW step, At(step),
         step \in {"open", "mkdir", "copy", "files", "schemas", "modules", "keys",
                  "settings", "desktop", "record", "rollback", "gate", "stage",
                  "unpart", "move", "info", "undesktop", "unlock"}
  PROVE  /\ work # Idle /\ App \in Apps
         /\ step \notin {"stage", "unpart", "move", "info", "undesktop", "unlock"} =>
               Pkg \in Packages /\ Pkg # NoPackage
<1>1. work # Idle /\ Job.kind \in KindsAt(step)
  BY AtWork, Zenon DEF TypeOK
<1>2. Job.kind \in {"install", "upgrade", "uninstall"}
  BY <1>1, KindsAtSteps
<1>3. step \notin {"stage", "unpart", "move", "info", "undesktop", "unlock"} =>
          Job.kind \in {"install", "upgrade"}
  BY <1>1, KindsAtSteps
<1>4. \A p \in Packages : p # NoPackage
  BY PackagesAssumption DEF NoPackage
<1> QED
  BY <1>1, <1>2, <1>3, <1>4, Running, Zenon DEF TypeOK

LEMMA InstallDisk ==
  ASSUME TypeOK, InstallStep
  PROVE  DiskTypes'
<1> USE DEF TypeOK
<1>1. CASE OpenPackage
  BY SMTT(60), <1>1 DEF OpenPackage, DiskTypes, disk, flatVars, ghosts, Fine, Fault
<1>2. CASE MakeDir
  BY <1>2, AtApp, DirTypes DEF MakeDir, DiskTypes, flatVars, ghosts, Fine
<1>3. CASE CopyFiles
  <2>1. App \in Apps /\ Pkg \in Packages
    BY <1>3, AtApp DEF CopyFiles
  <2>2. [dir[App] EXCEPT !.files = @ \cup {Pkg}] \in Dir
    BY <2>1, DirChanges, Zenon DEF DiskTypes
  <2>3. dir' \in [Apps -> Dir]
    BY <1>3, <2>1, <2>2, Zenon DEF CopyFiles, DiskTypes
  <2> QED
    BY <1>3, <2>3 DEF CopyFiles, DiskTypes, flatVars, ghosts, Fine, Fault
<1>4. CASE CopyManifest
  <2>1. App \in Apps /\ Pkg \in Packages
    BY <1>4, AtApp DEF CopyManifest
  <2>2. [dir[App] EXCEPT !.manifest = Pkg] \in Dir
    BY <2>1, DirChanges, Zenon DEF DiskTypes
  <2>3. dir' \in [Apps -> Dir]
    BY <1>4, <2>1, <2>2, Zenon DEF CopyManifest, DiskTypes
  <2> QED
    BY <1>4, <2>3 DEF CopyManifest, DiskTypes, flatVars, ghosts, Fine, Fault
<1>5. CASE \E part \in Parts : PutPart(part) \/ PartFails(part)
  <2>1. PICK part \in Parts : PutPart(part) \/ PartFails(part)
    BY <1>5, Zenon
  <2>2. parts' \in [Apps -> SUBSET Parts] /\ stray' \in [Apps -> SUBSET Parts]
    <3>1. parts \in [Apps -> SUBSET Parts] /\ stray \in [Apps -> SUBSET Parts]
      BY Zenon DEF DiskTypes
    <3>2. \A f \in [Apps -> SUBSET Parts] :
             /\ [f EXCEPT ![App] = @ \cup {part}] \in [Apps -> SUBSET Parts]
             /\ [f EXCEPT ![App] = @ \ {part}] \in [Apps -> SUBSET Parts]
      BY Zenon
    <3>3. /\ parts' \in {parts, [parts EXCEPT ![App] = @ \cup {part}]}
          /\ stray' \in {stray, [stray EXCEPT ![App] = @ \cup {part}], [stray EXCEPT ![App] = @ \ {part}]}
      BY <2>1, Zenon DEF PutPart, PartFails
    <3> QED
      BY <3>1, <3>2, <3>3, Zenon
  <2> QED
    BY <2>1, <2>2 DEF PutPart, PartFails, DiskTypes, flatVars, Fine, Fault
<1>6. CASE DesktopEntry
  <2>1. desktop' \in [Apps -> BOOLEAN]
    BY <1>6, FlagChange, Zenon DEF DesktopEntry, DiskTypes
  <2> QED
    BY <1>6, <2>1 DEF DesktopEntry, DiskTypes, flatVars, ghosts, Fine, Fault
<1>7. CASE Record
  <2>1. App \in Apps /\ Pkg.caps \subseteq Caps
    BY <1>7, AtApp, PackagesAssumption DEF Record
  <2>2. lock' \in [Apps -> [known : BOOLEAN, caps : SUBSET Caps]]
    <3>1. [known |-> TRUE, caps |-> Pkg.caps] \in [known : BOOLEAN, caps : SUBSET Caps]
      BY <2>1, LockEntries, Zenon
    <3>2. \/ UNCHANGED lock
          \/ lock' = [lock EXCEPT ![App] = [known |-> TRUE, caps |-> Pkg.caps]]
      BY <1>7, Zenon DEF Record
    <3> QED
      BY <3>1, <3>2, Zenon DEF DiskTypes
  <2>3. had' \in [Apps -> BOOLEAN]
    BY <1>7, <2>1, Zenon DEF Record, DiskTypes
  <2> QED
    BY <1>7, <2>2, <2>3 DEF Record, DiskTypes, flatVars, Fine, Fault
<1>8. CASE Rollback
  <2>0. dir[App] \in Dir => [dir[App] EXCEPT !.manifest = NoPackage] \in Dir
    BY Zenon DEF Dir
  <2>1. dir' \in [Apps -> Dir]
    BY <1>8, <2>0, DirTypes, Zenon DEF Rollback, DiskTypes
  <2>2. parts' \in [Apps -> SUBSET Parts] /\ stray' \in [Apps -> SUBSET Parts]
    BY <1>8 DEF Rollback, DiskTypes
  <2> QED
    BY <1>8, <2>1, <2>2, Zenon DEF Rollback, DiskTypes, flatVars, ghosts, Fine
<1>9. CASE RolledBack
  BY <1>9, Zenon DEF RolledBack, DiskTypes, disk, flatVars, ghosts, Fine
<1> QED
  BY <1>1, <1>2, <1>3, <1>4, <1>5, <1>6, <1>7, <1>8, <1>9, Zenon DEF InstallStep

LEMMA StageDisk ==
  ASSUME TypeOK, Staging, StageStep
  PROVE  DiskTypes'
<1> USE DEF TypeOK
<1>1. CASE Gate
  BY <1>1, Zenon DEF Gate, DiskTypes, disk, flatVars, ghosts, Fine
<1>2. CASE Stage
  <2>1. had' \in [Apps -> BOOLEAN]
    BY <1>2, Zenon DEF Stage, DiskTypes
  <2> QED
    BY <1>2, <2>1, Zenon DEF Stage, DiskTypes, disk, flatVars, Fine
<1>3. CASE RemovePart
  <2>1. LastOf(work.todo) \in Parts
    BY <1>3, LastOfTodo, Zenon DEF RemovePart, Staging, At
  <2>2. parts' \in [Apps -> SUBSET Parts] /\ stray' \in [Apps -> SUBSET Parts]
    BY SMTT(60), <1>3, <2>1 DEF RemovePart, DiskTypes
  <2> QED
    BY <1>3, <2>2 DEF RemovePart, DiskTypes, flatVars, Fine, Fault
<1>4. CASE RemoveOldEntry
  BY <1>4, DirTypes DEF RemoveOldEntry, DiskTypes, flatVars, ghosts, Fine, Fault
<1>5. CASE MoveToTrash
  <2>1. App \in Apps
    BY SMTT(60), <1>5, AtApp DEF MoveToTrash
  <2>2. dir' \in [Apps -> Dir] /\ trash' \in [Apps -> Dir]
    BY SMTT(60), <1>5, <2>1, DirTypes DEF MoveToTrash, DiskTypes
  <2> QED
    BY <1>5, <2>2 DEF MoveToTrash, DiskTypes, flatVars, ghosts, Fine, Fault
<1>6. CASE WriteInfo
  <2>1. App \in Apps
    BY <1>6, AtApp, Zenon DEF WriteInfo
  <2>2. [trash[App] EXCEPT !.info = "fresh"] \in Dir
    BY <2>1, DirChanges, Zenon DEF DiskTypes
  <2>3. trash' \in [Apps -> Dir]
    BY <1>6, <2>1, <2>2, Zenon DEF WriteInfo, DiskTypes
  <2> QED
    BY <1>6, <2>3 DEF WriteInfo, DiskTypes, flatVars, ghosts, Fine, Fault
<1>7. CASE RemoveDesktop
  <2>1. desktop' \in [Apps -> BOOLEAN]
    BY <1>7, FlagChange, Zenon DEF RemoveDesktop, DiskTypes
  <2> QED
    BY <1>7, <2>1 DEF RemoveDesktop, DiskTypes, flatVars, ghosts, Fine, Fault
<1>8. CASE RemoveFromLock
  <2>1. lock' \in [Apps -> [known : BOOLEAN, caps : SUBSET Caps]]
    BY <1>8, LockEntries DEF RemoveFromLock, DiskTypes
  <2> QED
    BY <1>8, <2>1 DEF RemoveFromLock, DiskTypes, flatVars, ghosts, Fine, Fault
<1> QED
  BY <1>1, <1>2, <1>3, <1>4, <1>5, <1>6, <1>7, <1>8, Zenon DEF StageStep

LEMMA FlatDisk ==
  ASSUME TypeOK, FlatStep
  PROVE  DiskTypes'
<1> USE DEF TypeOK
<1> DEFINE Flat == [commit : 0 .. Len(FlatContext), asked : SUBSET Caps,
                    profile : {"none", "default", "edited"}]
<1>1. CASE FlatInstall
  <2>1. FlatContext[head] \in SUBSET Caps /\ head \in 0 .. Len(FlatContext)
    BY FlatAssumption DEF DiskTypes
  <2>2. flat' \in Flat
    BY <1>1, <2>1, Zenon DEF FlatInstall, DiskTypes
  <2> QED
    BY <1>1, <2>2, Zenon DEF FlatInstall, DiskTypes, disk, ghosts, Fine
<1>2. CASE FlatProfile
  <2>1. flat' \in Flat
    BY <1>2 DEF FlatProfile, DiskTypes
  <2> QED
    BY <1>2, <2>1 DEF FlatProfile, DiskTypes, disk, ghosts, Fine, Fault
<1>3. CASE FlatRemove
  <2>1. 0 \in 0 .. Len(FlatContext)
    BY FlatAssumption
  <2>2. flat' \in Flat
    BY SMTT(60), <1>3, <2>1 DEF FlatRemove, DiskTypes
  <2> QED
    BY <1>3, <2>2, Zenon DEF FlatRemove, DiskTypes, disk, ghosts, Fine
<1>4. CASE FlatUnprofile
  <2>1. flat' \in Flat
    BY <1>4 DEF FlatUnprofile, DiskTypes
  <2> QED
    BY <1>4, <2>1 DEF FlatUnprofile, DiskTypes, disk, ghosts, Fine, Fault
<1>5. CASE FlatExamine
  BY <1>5, Zenon DEF FlatExamine, DiskTypes, disk, flatVars, ghosts, Fine
<1>6. CASE FlatDeploy
  <2>1. work.seen \in 0 .. Len(FlatContext)
    BY Zenon DEF QueueTypes, WorkType
  <2>2. flat' \in Flat
    BY <1>6, <2>1 DEF FlatDeploy, DiskTypes
  <2> QED
    BY <1>6, <2>2, Zenon DEF FlatDeploy, DiskTypes, disk, ghosts, Fine
<1> QED
  BY <1>1, <1>2, <1>3, <1>4, <1>5, <1>6, Zenon DEF FlatStep

LEMMA OtherDisk ==
  ASSUME TypeOK, Requests \/ Calls \/ Outside \/ UNCHANGED installVars \/ (\E id : Take(id))
  PROVE  DiskTypes'
<1> USE DEF TypeOK
<1>1. CASE UNCHANGED installVars
  BY SMTT(60), <1>1 DEF installVars, DiskTypes, disk, flatVars, ghosts
<1>2. CASE \E id : Take(id)
  BY ZenonT(60), <1>2 DEF Take, DiskTypes, disk, flatVars, ghosts
<1>3. ASSUME NEW kind, NEW pkg, Enqueue(kind, pkg), kind = "install" => pkg \in Packages
      PROVE  DiskTypes'
  <2>1. asked' \in [Apps -> SUBSET SUBSET Caps]
    BY <1>3, PackagesAssumption DEF Enqueue, DiskTypes
  <2> QED
    BY <1>3, <2>1, Zenon DEF Enqueue, DiskTypes, disk, flatVars
<1>4. CASE Requests
  BY <1>3, <1>4, Zenon DEF Requests
<1>5. ASSUME NEW app \in Apps, RestoreBegins(app)
      PROVE  DiskTypes'
  BY <1>5, Zenon DEF RestoreBegins, DiskTypes, disk, flatVars, ghosts
<1>6. CASE RestoreMoves
  <2>1. rst.app \in Apps /\ rst \in [app : Apps, at : {"move", "info", "entry"}]
    BY <1>6 DEF RestoreMoves, DiskTypes, IdleCall
  <2>2. dir' \in [Apps -> Dir] /\ trash' \in [Apps -> Dir]
    <3>1. trash[rst.app] \in Dir /\ Nowhere \in Dir
      BY <2>1, DirTypes, Zenon DEF DiskTypes
    <3>2. \/ UNCHANGED <<dir, trash>>
          \/ /\ dir' = [dir EXCEPT ![rst.app] = trash[rst.app]]
             /\ trash' = [trash EXCEPT ![rst.app] = Nowhere]
      BY <1>6, Zenon DEF RestoreMoves
    <3>3. dir \in [Apps -> Dir] /\ trash \in [Apps -> Dir]
      BY Zenon DEF DiskTypes
    <3>4. dir' \in [Apps -> Dir]
      BY <3>1, <3>2, <3>3, DirPut, Zenon
    <3>5. trash' \in [Apps -> Dir]
      BY <3>1, <3>2, <3>3, DirPut, Zenon
    <3> QED
      BY <3>4, <3>5, Zenon
  <2>3. raced' \in [Apps -> BOOLEAN]
    <3>1. (raced[rst.app] \/ (work # Idle /\ App = rst.app)) \in BOOLEAN
      BY Zenon
    <3>2. \/ raced' = raced
          \/ raced' = [raced EXCEPT ![rst.app] = @ \/ (work # Idle /\ App = rst.app)]
      BY <1>6, Zenon DEF RestoreMoves
    <3> QED
      BY <3>1, <3>2, FlagChange, Zenon DEF DiskTypes
  <2>4. rst' = IdleCall \/ rst' \in [app : Apps, at : {"move", "info", "entry"}]
    BY <1>6, <2>1, Zenon DEF RestoreMoves
  <2> QED
    BY <1>6, <2>2, <2>3, <2>4, Zenon DEF RestoreMoves, DiskTypes, flatVars
<1>7. CASE RestoreReads
  <2>1. rst.app \in Apps /\ rst \in [app : Apps, at : {"move", "info", "entry"}]
    BY <1>7 DEF RestoreReads, DiskTypes, IdleCall
  <2>2. [dir[rst.app] EXCEPT !.info = "none"] \in Dir
    BY <2>1, DirChanges, Zenon DEF DiskTypes
  <2>3. dir' \in [Apps -> Dir]
    BY <1>7, <2>1, <2>2, Zenon DEF RestoreReads, DiskTypes
  <2>4. rst' = IdleCall \/ rst' \in [app : Apps, at : {"move", "info", "entry"}]
    BY <1>7, <2>1, Zenon DEF RestoreReads
  <2> QED
    BY <1>7, <2>3, <2>4 DEF RestoreReads, DiskTypes, flatVars, ghosts, Fine, Fault
<1>8. CASE RestoreEntry
  <2>1. desktop' \in [Apps -> BOOLEAN]
    BY <1>8, FlagChange, Zenon DEF RestoreEntry, DiskTypes
  <2> QED
    BY <1>8, <2>1 DEF RestoreEntry, DiskTypes, flatVars, ghosts, Fine, Fault
<1>9. ASSUME NEW app \in Apps, CleanupReads(app)
      PROVE  DiskTypes'
  BY <1>9, Zenon DEF CleanupReads, DiskTypes, disk, flatVars, ghosts
<1>10. CASE CleanupDeletes
  <2>1. had' \in [Apps -> BOOLEAN] /\ raced' \in [Apps -> BOOLEAN]
    BY <1>10, FlagChange, Zenon DEF CleanupDeletes, DiskTypes
  <2>2. trash' \in [Apps -> Dir]
    <3>1. trash[cln.app] \in Dir => [trash[cln.app] EXCEPT !.manifest = NoPackage] \in Dir
      BY Zenon DEF Dir
    <3> QED
      BY <1>10, <3>1, DirTypes DEF CleanupDeletes, DiskTypes
  <2> QED
    BY <1>10, <2>1, <2>2 DEF CleanupDeletes, DiskTypes, flatVars, Fine, Fault
<1>11. ASSUME NEW app \in Apps, ThirtyDays(app)
       PROVE  DiskTypes'
  <2>1. [trash[app] EXCEPT !.info = "expired"] \in Dir
    BY DirChanges, Zenon DEF DiskTypes
  <2>2. trash' \in [Apps -> Dir]
    BY <1>11, <2>1, Zenon DEF ThirtyDays, DiskTypes
  <2> QED
    BY <1>11, <2>2, Zenon DEF ThirtyDays, DiskTypes, flatVars, ghosts
<1>12. CASE Publish
  BY <1>12, FlatAssumption DEF Publish, DiskTypes, disk, ghosts
<1>13. CASE EditProfile
  <2>1. flat' \in [commit : 0 .. Len(FlatContext), asked : SUBSET Caps,
                   profile : {"none", "default", "edited"}]
    BY SMTT(60), <1>13 DEF EditProfile, DiskTypes
  <2> QED
    BY <1>13, <2>1, Zenon DEF EditProfile, DiskTypes, disk, ghosts
<1>14. CASE Crash
  <2>1. lock' \in [Apps -> [known : BOOLEAN, caps : SUBSET Caps]]
    BY <1>14, LockEntries DEF Crash, DiskTypes
  <2> QED
    BY SMTT(60), <1>14, <2>1 DEF Crash, DiskTypes, flatVars, ghosts, Fault
<1> QED
  BY SMTT(60), <1>1, <1>2, <1>4, <1>5, <1>6, <1>7, <1>8, <1>9, <1>10, <1>11, <1>12, <1>13, <1>14
  DEF Calls, Outside

LEMMA NextTypes ==
  ASSUME TypeOK, Staging, [Next]_installVars
  PROVE  TypeOK'
<1>1. DiskTypes'
  BY InstallDisk, StageDisk, FlatDisk, OtherDisk, Zenon DEF Next, Worker
<1> QED
  BY <1>1, NextQueue, Zenon DEF TypeOK

\* A request changes the queue and what was asked for, and nothing else.
LEMMA RequestFrame ==
  ASSUME Requests
  PROVE  UNCHANGED <<dir, trash, parts, desktop, lock, flat, work, stray>>
BY Zenon DEF Requests, Enqueue, disk, flatVars

\* What each kind of step may change.
LEMMA OutsideFrame ==
  ASSUME Calls \/ Outside \/ UNCHANGED installVars
  PROVE  /\ UNCHANGED <<asked, parts, stray>>
         /\ Crash \/ UNCHANGED <<jobs, work, lock>>
         /\ EditProfile \/ UNCHANGED flat
         /\ RestoreEntry \/ UNCHANGED desktop
         /\ RestoreMoves \/ RestoreReads \/ UNCHANGED dir
         /\ RestoreMoves \/ CleanupDeletes \/ (\E app \in Apps : ThirtyDays(app)) \/ UNCHANGED trash
<1>1. UNCHANGED <<asked, parts, stray>>
  BY Zenon DEF Calls, Outside, installVars, disk, ghosts, RestoreBegins, RestoreMoves, RestoreReads, RestoreEntry,
     CleanupReads, CleanupDeletes, ThirtyDays, Publish, EditProfile, Crash
<1>2. Crash \/ UNCHANGED <<jobs, work, lock>>
  BY Zenon DEF Calls, Outside, installVars, disk, RestoreBegins, RestoreMoves, RestoreReads, RestoreEntry,
     CleanupReads, CleanupDeletes, ThirtyDays, Publish,
     EditProfile
<1>3. EditProfile \/ UNCHANGED flat
  BY Zenon DEF Calls, Outside, installVars, flatVars, RestoreBegins, RestoreMoves, RestoreReads, RestoreEntry,
     CleanupReads, CleanupDeletes, ThirtyDays, Publish, Crash
<1>4. RestoreEntry \/ UNCHANGED desktop
  BY Zenon DEF Calls, Outside, installVars, disk, RestoreBegins, RestoreMoves, RestoreReads, CleanupReads,
     CleanupDeletes, ThirtyDays, Publish, EditProfile, Crash
<1>5. RestoreMoves \/ RestoreReads \/ UNCHANGED dir
  BY Zenon DEF Calls, Outside, installVars, disk, RestoreBegins, RestoreEntry, CleanupReads, CleanupDeletes,
     ThirtyDays, Publish, EditProfile, Crash
<1>6. RestoreMoves \/ CleanupDeletes \/ (\E app \in Apps : ThirtyDays(app)) \/ UNCHANGED trash
  BY Zenon DEF Calls, Outside, installVars, disk, RestoreBegins, RestoreReads, RestoreEntry, CleanupReads,
     Publish, EditProfile, Crash
<1> QED
  BY <1>1, <1>2, <1>3, <1>4, <1>5, <1>6, Zenon

LEMMA InstallFrame ==
  ASSUME InstallStep
  PROVE  /\ UNCHANGED <<asked, flat, trash>>
         /\ Record \/ Ends("failed") \/ UNCHANGED jobs
         /\ Record \/ UNCHANGED lock
         /\ MakeDir \/ CopyFiles \/ CopyManifest \/ Rollback \/ UNCHANGED dir
         /\ \/ \E part \in Parts : PutPart(part) \/ PartFails(part)
            \/ Rollback \/ UNCHANGED <<parts, stray>>
         /\ \/ work' = Idle \/ (CopyManifest /\ work' # Idle) \/ Rollback
            \/ \E part \in Parts : PutPart(part)
            \/ \E step \in {"mkdir", "copy", "files", "rollback", "record"} : Goto(step)
<1>1. UNCHANGED <<asked, flat, trash>>
  BY ZenonT(60) DEF InstallStep, disk, flatVars, ghosts, OpenPackage, MakeDir, CopyFiles, CopyManifest, PutPart, PartFails,
     DesktopEntry, Record, Rollback, RolledBack
<1>2. Record \/ Ends("failed") \/ UNCHANGED jobs
  BY ZenonT(60) DEF InstallStep, Goto, OpenPackage, MakeDir, CopyFiles, CopyManifest, PutPart,
     PartFails, DesktopEntry, Rollback, RolledBack
<1>3. Record \/ UNCHANGED lock
  BY ZenonT(60) DEF InstallStep, disk, OpenPackage, MakeDir, CopyFiles, CopyManifest, PutPart,
     PartFails, DesktopEntry, Rollback, RolledBack
<1>4. MakeDir \/ CopyFiles \/ CopyManifest \/ Rollback \/ UNCHANGED dir
  BY Zenon DEF InstallStep, disk, OpenPackage, PutPart, PartFails, DesktopEntry, Record,
     RolledBack
<1>5. \/ \E part \in Parts : PutPart(part) \/ PartFails(part)
      \/ Rollback \/ UNCHANGED <<parts, stray>>
  BY Zenon DEF InstallStep, disk, ghosts, OpenPackage, MakeDir, CopyFiles, CopyManifest, DesktopEntry,
     Record, RolledBack
<1>6. \/ work' = Idle \/ (CopyManifest /\ work' # Idle) \/ Rollback
      \/ \E part \in Parts : PutPart(part)
      \/ \E step \in {"mkdir", "copy", "files", "rollback", "record"} : Goto(step)
  BY Zenon DEF InstallStep, Ends, OpenPackage, MakeDir, CopyFiles, PartFails, DesktopEntry,
     Record, RolledBack
<1> QED
  BY SMTT(60), <1>1, <1>2, <1>3, <1>4, <1>5, <1>6

LEMMA StageFrame ==
  ASSUME StageStep
  PROVE  /\ UNCHANGED <<asked, flat>>
         /\ RemoveFromLock \/ Ends("failed") \/ UNCHANGED jobs
         /\ RemoveFromLock \/ UNCHANGED lock
         /\ MoveToTrash \/ UNCHANGED dir
         /\ RemoveOldEntry \/ MoveToTrash \/ WriteInfo \/ UNCHANGED trash
         /\ RemovePart \/ UNCHANGED <<parts, stray>>
         /\ \/ work' = Idle \/ Stage \/ RemovePart
            \/ \E step \in {"stage", "move", "info", "open", "undesktop", "unlock"} : Goto(step)
<1>1. UNCHANGED <<asked, flat>>
  BY Zenon DEF StageStep, disk, flatVars, ghosts, Gate, Stage, RemovePart, RemoveOldEntry, MoveToTrash,
     WriteInfo, RemoveDesktop, RemoveFromLock
<1>2. RemoveFromLock \/ Ends("failed") \/ UNCHANGED jobs
  BY Zenon DEF StageStep, Goto, Gate, Stage, RemovePart, RemoveOldEntry, MoveToTrash,
     WriteInfo, RemoveDesktop
<1>3. RemoveFromLock \/ UNCHANGED lock
  BY Zenon DEF StageStep, disk, Gate, Stage, RemovePart, RemoveOldEntry, MoveToTrash,
     WriteInfo, RemoveDesktop
<1>4. MoveToTrash \/ UNCHANGED dir
  BY Zenon DEF StageStep, disk, Gate, Stage, RemovePart, RemoveOldEntry, WriteInfo,
     RemoveDesktop, RemoveFromLock
<1>5. RemoveOldEntry \/ MoveToTrash \/ WriteInfo \/ UNCHANGED trash
  BY Zenon DEF StageStep, disk, Gate, Stage, RemovePart, RemoveDesktop, RemoveFromLock
<1>6. RemovePart \/ UNCHANGED <<parts, stray>>
  BY Zenon DEF StageStep, disk, ghosts, Gate, Stage, RemoveOldEntry, MoveToTrash, WriteInfo,
     RemoveDesktop, RemoveFromLock
<1>7. \/ work' = Idle \/ Stage \/ RemovePart
      \/ \E step \in {"stage", "move", "info", "open", "undesktop", "unlock"} : Goto(step)
  BY Zenon DEF StageStep, Ends, Gate, RemoveOldEntry, MoveToTrash, WriteInfo, RemoveDesktop,
     RemoveFromLock
<1> QED
  BY <1>1, <1>2, <1>3, <1>4, <1>5, <1>6, <1>7

LEMMA FlatFrame ==
  ASSUME FlatStep
  PROVE  /\ UNCHANGED <<asked, dir, trash, parts, stray, lock>>
         /\ (\E state \in {"completed", "failed"} : Ends(state)) \/ UNCHANGED jobs
         /\ \/ work' = Idle \/ FlatExamine
            \/ \E step \in {"profile", "unprofile"} : Goto(step)
<1>1. UNCHANGED <<asked, dir, trash, parts, stray, lock>>
  BY Zenon DEF FlatStep, disk, ghosts, FlatInstall, FlatProfile, FlatRemove, FlatUnprofile,
     FlatExamine, FlatDeploy
<1>2. (\E state \in {"completed", "failed"} : Ends(state)) \/ UNCHANGED jobs
  BY Zenon DEF FlatStep, Goto, FlatInstall, FlatProfile, FlatRemove, FlatUnprofile,
     FlatExamine, FlatDeploy
<1>3. \/ work' = Idle \/ FlatExamine
      \/ \E step \in {"profile", "unprofile"} : Goto(step)
  BY Zenon DEF FlatStep, Ends, FlatInstall, FlatProfile, FlatRemove, FlatUnprofile,
     FlatDeploy
<1> QED
  BY <1>1, <1>2, <1>3, Zenon

LEMMA TakeFrame ==
  ASSUME NEW id, Take(id)
  PROVE  UNCHANGED <<asked, flat, dir, trash, parts, stray, lock, desktop>>
BY Zenon DEF Take, disk, flatVars, ghosts

LEMMA JobEnds ==
  ASSUME InstallStep \/ StageStep \/ FlatStep
  PROVE  (\E state : Ends(state)) \/ UNCHANGED jobs
BY InstallFrame, StageFrame, FlatFrame, Zenon DEF Record, RemoveFromLock

LEMMA FlatTouched ==
  ASSUME [Next]_installVars
  PROVE  FlatStep \/ EditProfile \/ UNCHANGED flat
BY RequestFrame, OutsideFrame, InstallFrame, StageFrame, TakeFrame DEF Next, Worker

\* The steps that change a directory.
LEMMA DirSteps ==
  ASSUME [Next]_installVars
  PROVE  \/ UNCHANGED <<dir, trash>> \/ MakeDir \/ CopyFiles \/ CopyManifest
         \/ Rollback \/ RemoveOldEntry \/ MoveToTrash \/ WriteInfo
         \/ RestoreMoves \/ RestoreReads \/ CleanupDeletes
         \/ \E app \in Apps : ThirtyDays(app)
<1>1. InstallStep => \/ UNCHANGED <<dir, trash>> \/ MakeDir \/ CopyFiles \/ CopyManifest
                     \/ Rollback
  BY InstallFrame, Zenon
<1>2. StageStep => UNCHANGED <<dir, trash>> \/ RemoveOldEntry \/ MoveToTrash \/ WriteInfo
  BY StageFrame, Zenon
<1>3. Calls \/ Outside \/ UNCHANGED installVars =>
          \/ UNCHANGED <<dir, trash>> \/ RestoreMoves \/ RestoreReads \/ CleanupDeletes
          \/ \E app \in Apps : ThirtyDays(app)
  BY OutsideFrame, Zenon
<1>4. FlatStep \/ Requests \/ (\E id : Take(id)) => UNCHANGED <<dir, trash>>
  BY FlatFrame, RequestFrame, TakeFrame, Zenon
<1> QED
  BY <1>1, <1>2, <1>3, <1>4, Zenon DEF Next, Worker

\* What happens outside the worker leaves it alone or, in a crash, idle.
LEMMA OutsideMoves ==
  ASSUME TypeOK, Requests \/ Calls \/ Outside \/ UNCHANGED installVars
  PROVE  work' = Idle \/ (UNCHANGED work /\ (work # Idle => Job' = Job))
<1>1. ASSUME NEW kind, NEW pkg, Enqueue(kind, pkg), work # Idle
      PROVE  Job' = Job
  <2>1. work.job \in DOMAIN jobs /\ jobs \in Seq(JobType)
    BY <1>1, Zenon DEF TypeOK, QueueTypes
  <2> QED
    BY <1>1, <2>1 DEF Enqueue, Job
<1>2. CASE Requests
  BY <1>1, <1>2, RequestFrame, Zenon DEF Requests
<1>3. CASE Calls \/ Outside \/ UNCHANGED installVars
  <2>1. work' = Idle \/ UNCHANGED <<work, jobs>>
    BY <1>3, OutsideFrame, Zenon DEF Crash
  <2> QED
    BY <2>1, Zenon DEF Job
<1> QED
  BY <1>2, <1>3, Zenon

LEMMA Going ==
  ASSUME TypeOK, NEW step, Goto(step)
  PROVE  /\ work'.at = step /\ work'.todo = work.todo
         /\ Job' = Job /\ Pkg' = Pkg /\ App' = App
BY Zenon DEF TypeOK, QueueTypes, WorkType, Goto, Job, Pkg, App

\* How the worker may move: take a job, end it, stay, or go on with it.
LEMMA Moves ==
  ASSUME TypeOK, [Next]_installVars
  PROVE  \/ \E id : Take(id)
         \/ work' = Idle
         \/ UNCHANGED work /\ (work # Idle => Job' = Job)
         \/ /\ work # Idle /\ work' # Idle /\ work'.job = work.job /\ UNCHANGED jobs
            /\ work.at = "gate" => Gate
            /\ work'.at = "deploy" => FlatExamine
            /\ InstallStep \/ StageStep \/ FlatStep
<1>0. work \in WorkType
  BY Zenon DEF TypeOK, QueueTypes
<1>1. CASE Requests \/ Calls \/ Outside \/ UNCHANGED installVars
  BY <1>1, OutsideMoves, Zenon
<1>2. CASE InstallStep \/ StageStep \/ FlatStep
  <2>1. work # Idle
    <3>1. InstallStep => work.at # "idle"
      BY DEF At, InstallStep, OpenPackage, MakeDir, CopyFiles, CopyManifest,
         PutPart, PartFails, DesktopEntry, Record, Rollback, RolledBack, Parts
    <3>2. StageStep => work.at # "idle"
      BY Zenon DEF At, StageStep, Gate, Stage, RemovePart, RemoveOldEntry, MoveToTrash, WriteInfo,
         RemoveDesktop, RemoveFromLock
    <3>3. FlatStep => work.at # "idle"
      BY Zenon DEF At, FlatStep, FlatInstall, FlatProfile, FlatRemove, FlatUnprofile, FlatExamine,
         FlatDeploy
    <3> QED
      BY SMTT(60), <1>2, <3>1, <3>2, <3>3 DEF Idle
  <2>2. work.at = "gate" => Gate
    <3>1. InstallStep => work.at # "gate"
      BY Zenon DEF At, InstallStep, OpenPackage, MakeDir, CopyFiles, CopyManifest,
         PutPart, PartFails, DesktopEntry, Record, Rollback, RolledBack, Parts
    <3>2. StageStep => Gate \/ work.at # "gate"
      BY Zenon DEF At, StageStep, Stage, RemovePart, RemoveOldEntry, MoveToTrash, WriteInfo,
         RemoveDesktop, RemoveFromLock
    <3>3. FlatStep => work.at # "gate"
      BY Zenon DEF At, FlatStep, FlatInstall, FlatProfile, FlatRemove, FlatUnprofile, FlatExamine,
         FlatDeploy
    <3> QED
      BY SMTT(60), <1>2, <3>1, <3>2, <3>3
  <2>3. ASSUME NEW step, Goto(step)
        PROVE  UNCHANGED jobs /\ work'.job = work.job /\ work'.at = step
    BY <1>0, <2>3, Zenon DEF Goto, WorkType
  <2>4. ASSUME NEW part \in Parts, PutPart(part)
        PROVE  UNCHANGED jobs /\ work'.job = work.job /\ work'.at # "deploy"
    <3>1. After(part) # "deploy"
      BY Afters, Zenon DEF Parts
    <3> QED
      BY <1>0, <2>4, <3>1, Zenon DEF PutPart, WorkType
  <2>5. (CopyManifest /\ work' # Idle) \/ Rollback \/ RemovePart =>
            UNCHANGED jobs /\ work'.job = work.job /\ work'.at # "deploy"
    BY <1>0, Afters, Zenon DEF CopyManifest, Rollback, RemovePart, WorkType, At, Ends
  <2>6. Stage => work' = Idle \/ (UNCHANGED jobs /\ work'.job = work.job /\ work'.at # "deploy")
    <3>1. ASSUME NEW todo, work' = [work EXCEPT !.at = "unpart", !.todo = todo]
          PROVE  work'.job = work.job /\ work'.at = "unpart"
      BY <1>0, <3>1, Zenon DEF WorkType
    <3> QED
      BY <3>1, Zenon DEF Stage, Ends
  <2>7. FlatExamine => work' = Idle \/ (UNCHANGED jobs /\ work'.job = work.job)
    BY <1>0, Zenon DEF FlatExamine, WorkType, Ends
  <2>11. work' = Idle \/ (UNCHANGED jobs /\ work'.job = work.job /\ (work'.at = "deploy" => FlatExamine))
    BY <1>2, <2>3, <2>4, <2>5, <2>6, <2>7,
       InstallFrame, StageFrame, FlatFrame
  <2> QED
    BY <1>2, <2>1, <2>2, <2>11
<1> QED
  BY <1>1, <1>2 DEF Next, Worker
-----------------------------------------------------------------------------
(***************************************************************************)
(* Nothing that was not asked for.                                         *)
(***************************************************************************)
LEMMA AskedGrows ==
  ASSUME TypeOK, [Next]_installVars
  PROVE  \A a \in Apps : asked[a] \subseteq asked'[a]
<1>1. ASSUME NEW kind, NEW pkg, Enqueue(kind, pkg)
      PROVE  \A a \in Apps : asked[a] \subseteq asked'[a]
  BY <1>1, Zenon DEF Enqueue, TypeOK, DiskTypes
<1>2. CASE Requests
  BY <1>1, <1>2, Zenon DEF Requests
<1>3. ~Requests => UNCHANGED asked
  BY OutsideFrame, InstallFrame, StageFrame, FlatFrame, TakeFrame, Zenon DEF Next, Worker
<1> QED
  BY <1>2, <1>3, Zenon

LEMMA WithinNarrows ==
  ASSUME NEW a \in Apps, NEW old, NEW new, WithinAsked(a, old), ~Widens(old, new)
  PROVE  WithinAsked(a, new)
BY Zenon DEF WithinAsked, Widens

\* A job keeps what it is about until it is over.
LEMMA JobsKeep ==
  ASSUME TypeOK, [Next]_installVars
  PROVE  \A id \in DOMAIN jobs :
            /\ id \in DOMAIN jobs'
            /\ jobs'[id].kind # "over" => /\ jobs'[id].kind = jobs[id].kind
                                          /\ jobs'[id].pkg = jobs[id].pkg
<1> SUFFICES ASSUME NEW id \in DOMAIN jobs
    PROVE  /\ id \in DOMAIN jobs'
           /\ jobs'[id].kind # "over" => /\ jobs'[id].kind = jobs[id].kind
                                         /\ jobs'[id].pkg = jobs[id].pkg
  BY Zenon
<1>0. jobs \in Seq(JobType) /\ jobs[id] \in JobType
  BY DEF TypeOK, QueueTypes
<1>1. ASSUME NEW kind, NEW pkg, Enqueue(kind, pkg)
      PROVE  id \in DOMAIN jobs' /\ jobs'[id] = jobs[id]
  BY <1>0, <1>1 DEF Enqueue
<1>2. ASSUME NEW other, Take(other)
      PROVE  id \in DOMAIN jobs' /\ jobs'[id].kind = jobs[id].kind /\ jobs'[id].pkg = jobs[id].pkg
  BY <1>0, <1>2, Zenon DEF Take, JobType
<1>3. ASSUME NEW state, Ends(state)
      PROVE  id \in DOMAIN jobs' /\ (jobs'[id] = jobs[id] \/ jobs'[id].kind = "over")
  BY <1>0, <1>3, Zenon DEF Ends, Over
<1>4. CASE Crash
  BY <1>4, Zenon DEF Crash, Over
<1>5. CASE UNCHANGED jobs
  BY <1>5, Zenon
<1>6. InstallStep \/ StageStep \/ FlatStep => (\E state : Ends(state)) \/ UNCHANGED jobs
  BY JobEnds, Zenon
<1>7. Calls \/ Outside \/ UNCHANGED installVars => Crash \/ UNCHANGED jobs
  BY OutsideFrame, Zenon
<1> QED
  BY <1>1, <1>2, <1>3, <1>4, <1>5, <1>6, <1>7 DEF Next, Worker, Requests
-----------------------------------------------------------------------------
(***************************************************************************)
(* Nothing comes onto the disk that was not asked for; where the files and *)
(* the parts are at each step.                                             *)
(***************************************************************************)
LEMMA ChosenStays ==
  ASSUME TypeOK, Chosen, [Next]_installVars
  PROVE  Chosen'
<1>0. \A id \in DOMAIN jobs :
            /\ id \in DOMAIN jobs'
            /\ jobs'[id].kind # "over" => /\ jobs'[id].kind = jobs[id].kind
                                          /\ jobs'[id].pkg = jobs[id].pkg
  BY JobsKeep, Zenon
<1>1. \A a \in Apps : asked[a] \subseteq asked'[a]
  BY AskedGrows, Zenon
<1>2. ASSUME NEW id \in DOMAIN jobs, jobs'[id].kind = "install"
      PROVE  jobs'[id].pkg.caps \in asked'[jobs'[id].pkg.app]
  <2>0. jobs'[id].kind # "over" =>
            jobs'[id].kind = jobs[id].kind /\ jobs'[id].pkg = jobs[id].pkg
    BY <1>0, Zenon
  <2>1. jobs[id].kind = "install" /\ jobs'[id].pkg = jobs[id].pkg
    BY <1>2, <2>0
  <2>2. jobs[id].pkg.app \in Apps
    BY <2>1, PackagesAssumption DEF TypeOK, QueueTypes
  <2> QED
    BY <1>1, <2>1, <2>2 DEF Chosen
<1>3. ASSUME NEW kind, NEW pkg, Enqueue(kind, pkg), kind = "install" => pkg \in Packages
      PROVE  Chosen'
  <2>1. /\ jobs' = Append(jobs, [kind |-> kind, pkg |-> pkg, state |-> "pending"])
        /\ jobs \in Seq(JobType)
    BY <1>3 DEF Enqueue, TypeOK, QueueTypes
  <2>2. \A id \in DOMAIN jobs' : id \in DOMAIN jobs \/ (jobs'[id].kind = kind /\ jobs'[id].pkg = pkg)
    BY <2>1
  <2>3. kind = "install" => pkg.app \in Apps
    BY <1>3, PackagesAssumption, Zenon
  <2>4. kind = "install" => pkg.caps \in asked'[pkg.app]
    BY <1>3, <2>3 DEF Enqueue, TypeOK, DiskTypes
  <2> QED
    BY <1>2, <2>2, <2>4 DEF Chosen
<1>4. CASE Requests
  BY <1>3, <1>4, Zenon DEF Requests
<1>5. ~Requests => DOMAIN jobs' = DOMAIN jobs
  <2>1. ASSUME NEW state, Ends(state)
        PROVE  DOMAIN jobs' = DOMAIN jobs
    BY <2>1 DEF Ends, TypeOK, QueueTypes
  <2>2. ASSUME NEW id, Take(id)
        PROVE  DOMAIN jobs' = DOMAIN jobs
    BY <2>2 DEF Take, TypeOK, QueueTypes
  <2>3. Crash => DOMAIN jobs' = DOMAIN jobs
    BY Zenon DEF Crash
  <2>4. InstallStep \/ StageStep \/ FlatStep => (\E state : Ends(state)) \/ UNCHANGED jobs
    BY JobEnds, Zenon
  <2>5. Calls \/ Outside \/ UNCHANGED installVars => Crash \/ UNCHANGED jobs
    BY OutsideFrame, Zenon
  <2> QED
    BY <2>1, <2>2, <2>3, <2>4, <2>5 DEF Next, Worker
<1> QED
  BY <1>2, <1>4, <1>5 DEF Chosen

\* What a Flatpak asked for is noted when it is installed, and only then.
LEMMA FlatAsked ==
  ASSUME TypeOK, [Next]_installVars
  PROVE  flat'.asked = flat.asked \/ At("pull")
<1>1. flat \in [commit : 0 .. Len(FlatContext), asked : SUBSET Caps,
               profile : {"none", "default", "edited"}]
  BY Zenon DEF TypeOK, DiskTypes
<1>2. FlatStep \/ EditProfile => flat'.asked = flat.asked \/ At("pull")
  BY <1>1, Zenon DEF FlatStep, EditProfile, FlatInstall, FlatProfile, FlatRemove, FlatUnprofile,
     FlatExamine, FlatDeploy, flatVars
<1> QED
  BY <1>2, FlatTouched, Zenon

LEMMA ClearedStays ==
  ASSUME TypeOK, TypeOK', Asked, [Next]_installVars
  PROVE  Cleared'
<1>0. \A a \in Apps : asked[a] \subseteq asked'[a]
  BY AskedGrows, Zenon
<1>1. ASSUME NEW id, Take(id)
      PROVE  Cleared'
  <2>1. /\ id \in DOMAIN jobs /\ jobs[id].state = "pending" /\ jobs[id] \in JobType
        /\ jobs' = [jobs EXCEPT ![id].state = "running"] /\ UNCHANGED asked
        /\ work'.job = id /\ work'.at = FirstStep(jobs[id].kind)
    <3>1. work' = [Idle EXCEPT !.job = id, !.at = FirstStep(jobs[id].kind)]
      BY <1>1, Zenon DEF Take
    <3>2. work'.job = id /\ work'.at = FirstStep(jobs[id].kind)
      BY <3>1, Zenon DEF Idle
    <3> QED
      BY <1>1, <3>2 DEF Take, ghosts, TypeOK, QueueTypes
  <2>2. Job'.kind = jobs[id].kind /\ Job'.pkg = jobs[id].pkg
    BY <2>1, Zenon DEF Job, JobType, TypeOK, QueueTypes
  <2>3. jobs[id].kind \in Kinds
    BY <2>1, Zenon DEF TypeOK, QueueTypes, JobType
  <2>4. FirstStep(jobs[id].kind) # "deploy"
    BY <2>3, Zenon DEF Kinds, FirstStep
  <2>5. jobs[id].kind = "upgrade" => work'.at = "gate"
    BY <2>1, Zenon DEF FirstStep
  <2>6. jobs[id].kind = "install" => WithinAsked(App, Pkg.caps)'
    <3>1. jobs[id].kind = "install" => Pkg'.caps \in asked'[App']
      BY <2>1, <2>2, Zenon DEF Asked, Chosen, Pkg, App
    <3>2. \A caps : ~Widens(caps, caps)
      BY Zenon DEF Widens
    <3> QED
      BY <3>1, <3>2, Zenon DEF WithinAsked
  <2> QED
    BY <2>1, <2>2, <2>4, <2>5, <2>6 DEF Cleared
<1>2. CASE work' = Idle
  BY <1>2, Zenon DEF Cleared, Idle
<1>3. CASE UNCHANGED work /\ (work # Idle => Job' = Job)
  <2>1. work'.at = "deploy" => FlatContext[work'.seen] \subseteq flat'.asked
    BY <1>3, FlatAsked, Zenon DEF Asked, Cleared, At
  <2>2. ASSUME work # Idle, work.at # "gate", Job.kind \in {"install", "upgrade"}
        PROVE  WithinAsked(App, Pkg.caps)'
    <3>1. WithinAsked(App, Pkg.caps) /\ App \in Apps
      BY <2>2, Running, Zenon DEF Asked, Cleared, TypeOK
    <3>2. App' = App /\ Pkg' = Pkg
      BY <1>3, <2>2 DEF App, Pkg
    <3> QED
      BY <1>0, <3>1, <3>2, Zenon DEF WithinAsked
  <2> QED
    BY <1>3, <2>1, <2>2, Zenon DEF Cleared
<1>4. CASE /\ work # Idle /\ work' # Idle /\ work'.job = work.job /\ UNCHANGED jobs
           /\ work.at = "gate" => Gate
           /\ work'.at = "deploy" => FlatExamine
           /\ InstallStep \/ StageStep \/ FlatStep
  <2>1. Job' = Job /\ Pkg' = Pkg /\ App' = App
    BY <1>4, Zenon DEF Job, Pkg, App
  <2>2. Job.kind \in {"install", "upgrade"} => WithinAsked(App, Pkg.caps)
    <3>1. CASE work.at # "gate"
      BY <1>4, <3>1, Zenon DEF Asked, Cleared
    <3>2. CASE work.at = "gate"
      <4>1. Gate /\ App \in Apps
        BY <1>4, <3>2, AtApp, Zenon DEF Gate
      <4>2. lock[App].known /\ ~Widens(lock[App].caps, Pkg.caps)
        BY <1>4, <4>1, Zenon DEF Gate, Ends
      <4>3. WithinAsked(App, lock[App].caps)
        BY <4>1, <4>2, Zenon DEF Asked, NothingUnasked
      <4> QED
        BY <4>1, <4>2, <4>3, WithinNarrows, Zenon
    <3> QED
      BY <3>1, <3>2, Zenon
  <2>3. Job.kind \in {"install", "upgrade"} => App \in Apps
    BY <1>4, Running, Zenon DEF TypeOK
  <2>4. Job'.kind \in {"install", "upgrade"} => WithinAsked(App, Pkg.caps)'
    BY <1>0, <2>1, <2>2, <2>3 DEF WithinAsked
  <2>5. ASSUME work'.at = "deploy"
        PROVE  FlatContext[work'.seen] \subseteq flat'.asked
    <3>1. FlatExamine /\ work \in WorkType
      BY <1>4, <2>5 DEF TypeOK, QueueTypes
    <3>2. /\ flat.commit # 0 /\ FlatContext[head] \subseteq FlatContext[flat.commit]
          /\ work' = [work EXCEPT !.at = "deploy", !.seen = head] /\ UNCHANGED flat
      BY <1>4, <3>1, Zenon DEF FlatExamine, Ends, flatVars
    <3>3. work'.seen = head
      BY <3>1, <3>2, Zenon DEF WorkType
    <3> QED
      BY <3>2, <3>3, Zenon DEF Asked, NothingUnasked
  <2> QED
    BY <2>4, <2>5, Zenon DEF Cleared
<1> QED
  BY <1>1, <1>2, <1>3, <1>4, Moves, Zenon

\* Rolling the files back takes the directory, or its manifest, or nothing.
LEMMA RollbackDir ==
  ASSUME TypeOK, Rollback
  PROVE  /\ UNCHANGED trash
         /\ \A a \in Apps :
               \/ dir'[a] = dir[a]
               \/ a = App /\ LastOf(work.todo) = "files" /\ dir'[a] = Nowhere
               \/ /\ a = App /\ LastOf(work.todo) = "files"
                  /\ dir'[a] = [dir[a] EXCEPT !.manifest = NoPackage]
                  /\ dir'[a].there = dir[a].there /\ dir'[a].files = dir[a].files
<1>0. dir \in [Apps -> Dir]
  BY Zenon DEF TypeOK, DiskTypes
<1>1. \A d \in Dir : /\ [d EXCEPT !.manifest = NoPackage].there = d.there
                     /\ [d EXCEPT !.manifest = NoPackage].files = d.files
  BY Zenon DEF Dir
<1>2. /\ UNCHANGED trash
      /\ \/ UNCHANGED dir
         \/ LastOf(work.todo) = "files" /\ dir' = [dir EXCEPT ![App] = Nowhere]
         \/ /\ LastOf(work.todo) = "files"
            /\ dir' = [dir EXCEPT ![App] = [dir[App] EXCEPT !.manifest = NoPackage]]
  BY Zenon DEF Rollback
<1>3. CASE UNCHANGED dir
  BY <1>2, <1>3, Zenon
<1>4. CASE LastOf(work.todo) = "files" /\ dir' = [dir EXCEPT ![App] = Nowhere]
  BY <1>0, <1>2, <1>4, Zenon
<1>5. CASE /\ LastOf(work.todo) = "files"
           /\ dir' = [dir EXCEPT ![App] = [dir[App] EXCEPT !.manifest = NoPackage]]
  <2>1. \A a \in Apps : a # App => dir'[a] = dir[a]
    BY <1>0, <1>5, Zenon
  <2>2. App \in Apps => dir[App] \in Dir /\ dir'[App] = [dir[App] EXCEPT !.manifest = NoPackage]
    BY <1>0, <1>5, Zenon
  <2>3. App \in Apps => dir'[App].there = dir[App].there /\ dir'[App].files = dir[App].files
    BY <1>1, <2>2, Zenon
  <2> QED
    BY <1>2, <1>5, <2>1, <2>2, <2>3, Zenon
<1> QED
  BY <1>2, <1>3, <1>4, <1>5, Zenon

\* Versions come onto the disk by being copied there, and only then.
LEMMA FilesStay ==
  ASSUME TypeOK, [Next]_installVars
  PROVE  \A a \in Apps : \A p \in dir'[a].files \cup trash'[a].files :
            \/ p \in dir[a].files \cup trash[a].files
            \/ At("copy") /\ a = App /\ p = Pkg
<1> SUFFICES ASSUME NEW a \in Apps, NEW p \in dir'[a].files \cup trash'[a].files
    PROVE  \/ p \in dir[a].files \cup trash[a].files
           \/ At("copy") /\ a = App /\ p = Pkg
  BY Zenon
<1>0. dir \in [Apps -> Dir] /\ trash \in [Apps -> Dir]
  BY Zenon DEF TypeOK, DiskTypes
<1>1. CASE UNCHANGED <<dir, trash>>
  BY <1>1, Zenon
<1>2. CASE MakeDir
  BY <1>0, <1>2, DirTypes, Zenon DEF MakeDir
<1>3. CASE CopyFiles
  BY <1>0, <1>3 DEF CopyFiles, Dir
<1>4. CASE CopyManifest
  BY <1>0, <1>4 DEF CopyManifest, Dir
<1>5. CASE Rollback
  BY <1>5, DirTypes, RollbackDir, Zenon
<1>6. CASE RemoveOldEntry
  BY <1>0, <1>6, DirTypes, Zenon DEF RemoveOldEntry
<1>7. CASE MoveToTrash
  BY <1>0, <1>7, DirTypes DEF MoveToTrash
<1>8. CASE WriteInfo
  BY <1>0, <1>8 DEF WriteInfo, Dir
<1>9. CASE RestoreMoves
  BY <1>0, <1>9, DirTypes DEF RestoreMoves
<1>10. CASE RestoreReads
  BY <1>0, <1>10 DEF RestoreReads, Dir
<1>11. CASE CleanupDeletes
  <2>1. \A d \in Dir : [d EXCEPT !.manifest = NoPackage].files = d.files
    BY Zenon DEF Dir
  <2>2. /\ UNCHANGED dir
        /\ \/ trash' = [trash EXCEPT ![cln.app] = Nowhere]
           \/ trash' = [trash EXCEPT ![cln.app] = [trash[cln.app] EXCEPT !.manifest = NoPackage]]
    BY <1>11, Zenon DEF CleanupDeletes
  <2>3. \/ trash'[a] = trash[a] \/ trash'[a] = Nowhere
        \/ trash'[a] = [trash[a] EXCEPT !.manifest = NoPackage]
    BY <1>0, <2>2, Zenon
  <2>4. trash'[a].files \subseteq trash[a].files
    <3>1. trash[a] \in Dir /\ Nowhere.files = {}
      BY <1>0, DirTypes, Zenon
    <3> QED
      BY <2>1, <2>3, <3>1, Zenon
  <2> QED
    BY <2>2, <2>4, Zenon
<1>12. ASSUME NEW app \in Apps, ThirtyDays(app)
       PROVE  p \in dir[a].files \cup trash[a].files
  BY <1>0, <1>12, Zenon DEF ThirtyDays, Dir
<1> QED
  BY SMTT(60), <1>1, <1>2, <1>3, <1>4, <1>5, <1>6, <1>7, <1>8, <1>9, <1>10, <1>11, <1>12, DirSteps

LEMMA LockStays ==
  ASSUME TypeOK, [Next]_installVars
  PROVE  \A a \in Apps : lock'[a].known =>
            \/ lock[a].known /\ lock'[a].caps = lock[a].caps
            \/ At("record") /\ a = App /\ lock'[a].caps = Pkg.caps
<1>0. lock \in [Apps -> [known : BOOLEAN, caps : SUBSET Caps]] /\ ~Unlocked.known
  BY Zenon DEF TypeOK, DiskTypes, Unlocked
<1>1. CASE UNCHANGED lock
  BY <1>1, Zenon
<1>2. CASE Record
  BY <1>0, <1>2 DEF Record
<1>3. CASE RemoveFromLock
  BY <1>0, <1>3, Zenon DEF RemoveFromLock
<1>4. CASE Crash
  BY <1>0, <1>4, Zenon DEF Crash
<1>5. UNCHANGED lock \/ Record \/ RemoveFromLock \/ Crash
  BY RequestFrame, OutsideFrame, InstallFrame, StageFrame, FlatFrame, TakeFrame, Zenon DEF Next, Worker
<1> QED
  BY <1>1, <1>2, <1>3, <1>4, <1>5

LEMMA AskedStays ==
  ASSUME TypeOK, TypeOK', Asked, [Next]_installVars
  PROVE  Asked'
<1>0. \A a \in Apps : asked[a] \subseteq asked'[a]
  BY AskedGrows, Zenon
<1>1. ASSUME NEW step \in {"copy", "record"}, At(step)
      PROVE  WithinAsked(App, Pkg.caps) /\ App \in Apps
  <2>1. work # Idle /\ App \in Apps
    BY <1>1, AtApp, Zenon
  <2>2. Job.kind \in {"install", "upgrade"} /\ work.at # "gate"
    BY <1>1, AtWork, KindsAtSteps DEF TypeOK, At
  <2> QED
    BY <2>1, <2>2, Zenon DEF Asked, Cleared
<1>2. ASSUME NEW a \in Apps, NEW p \in dir'[a].files \cup trash'[a].files
      PROVE  WithinAsked(a, p.caps)'
  <2>1. \/ p \in dir[a].files \cup trash[a].files
        \/ At("copy") /\ a = App /\ p = Pkg
    BY FilesStay, Zenon
  <2>2. WithinAsked(a, p.caps)
    BY <1>1, <2>1, Zenon DEF Asked, NothingUnasked
  <2> QED
    BY <1>0, <2>2, Zenon DEF WithinAsked
<1>3. ASSUME NEW a \in Apps, lock'[a].known
      PROVE  WithinAsked(a, lock[a].caps)'
  <2>1. \/ lock[a].known /\ lock'[a].caps = lock[a].caps
        \/ At("record") /\ a = App /\ lock'[a].caps = Pkg.caps
    BY <1>3, LockStays, Zenon
  <2>2. WithinAsked(a, lock'[a].caps)
    BY <1>1, <2>1, Zenon DEF Asked, NothingUnasked
  <2> QED
    BY <1>0, <2>2, Zenon DEF WithinAsked
<1>4. ASSUME flat'.commit # 0
      PROVE  FlatContext[flat'.commit] \subseteq flat'.asked
  <2>0. flat \in [commit : 0 .. Len(FlatContext), asked : SUBSET Caps,
                 profile : {"none", "default", "edited"}]
    BY Zenon DEF TypeOK, DiskTypes
  <2>1. CASE FlatStep
    <3>1. CASE FlatDeploy
      <4>1. flat'.asked = flat.asked /\ (flat'.commit = flat.commit \/ flat'.commit = work.seen)
        BY <2>0, <3>1, Zenon DEF FlatDeploy
      <4>2. FlatContext[work.seen] \subseteq flat.asked
        BY <3>1, Zenon DEF FlatDeploy, At, Asked, Cleared
      <4> QED
        BY <1>4, <4>1, <4>2, Zenon DEF Asked, NothingUnasked
    <3>2. CASE FlatInstall
      BY <1>4, <2>0, <3>2, Zenon DEF FlatInstall, Asked, NothingUnasked
    <3>3. CASE FlatProfile \/ FlatUnprofile \/ FlatExamine \/ FlatRemove
      <4>1. flat'.asked = flat.asked /\ flat'.commit \in {0, flat.commit}
        BY <2>0, <3>3, Zenon DEF FlatProfile, FlatUnprofile, FlatExamine, FlatRemove, flatVars
      <4> QED
        BY <1>4, <4>1, Zenon DEF Asked, NothingUnasked
    <3> QED
      BY <2>1, <3>1, <3>2, <3>3 DEF FlatStep
  <2>2. CASE EditProfile
    <3>1. flat'.asked = flat.asked /\ flat'.commit = flat.commit
      BY <2>0, <2>2, Zenon DEF EditProfile
    <3> QED
      BY <1>4, <3>1, Zenon DEF Asked, NothingUnasked
  <2>3. CASE UNCHANGED flat
    BY <1>4, <2>3, Zenon DEF Asked, NothingUnasked
  <2> QED
    BY <2>1, <2>2, <2>3, FlatTouched
<1>5. NothingUnasked'
  BY <1>2, <1>3, <1>4, Zenon DEF NothingUnasked
<1>6. Chosen' /\ Cleared'
  BY ChosenStays, ClearedStays, Zenon DEF Asked
<1> QED
  BY <1>5, <1>6, Zenon DEF Asked
-----------------------------------------------------------------------------
(***************************************************************************)
(* The profile the user edited.                                            *)
(***************************************************************************)
\* At the last step of its uninstall the Flatpak is gone.
Dropped == work.at = "unprofile" => flat.commit = 0

LEMMA ProfileStep ==
  ASSUME TypeOK, Dropped, [Next]_installVars, flat.profile = "edited", flat'.profile # "edited"
  PROVE  flat.commit = 0 /\ Job.kind = "flatremove"
<1>1. flat \in [commit : 0 .. Len(FlatContext), asked : SUBSET Caps,
               profile : {"none", "default", "edited"}]
  BY Zenon DEF TypeOK, DiskTypes
<1>2. FlatUnprofile
  BY <1>1, FlatTouched, Zenon DEF FlatStep, EditProfile, FlatInstall, FlatProfile, FlatRemove,
     FlatExamine, FlatDeploy, flatVars
<1> QED
  BY <1>2, AtWork, KindsAtSteps DEF FlatUnprofile, At, Dropped, TypeOK

LEMMA DroppedStays ==
  ASSUME TypeOK, Dropped, [Next]_installVars
  PROVE  Dropped'
<1>1. flat \in [commit : 0 .. Len(FlatContext), asked : SUBSET Caps,
               profile : {"none", "default", "edited"}] /\ work \in WorkType
  BY Zenon DEF TypeOK, DiskTypes, QueueTypes
<1>2. CASE FlatStep
  <2>1. CASE FlatRemove
    BY <1>1, <2>1 DEF FlatRemove, Dropped, Ends, Idle
  <2>2. CASE FlatInstall \/ FlatProfile \/ FlatUnprofile \/ FlatExamine \/ FlatDeploy
    <3>1. \/ \E state : Ends(state)
          \/ Goto("profile")
          \/ work' = [work EXCEPT !.at = "deploy", !.seen = head]
      BY <2>2, Zenon DEF FlatInstall, FlatProfile, FlatUnprofile, FlatExamine, FlatDeploy
    <3>2. ASSUME work' = [work EXCEPT !.at = "deploy", !.seen = head]
          PROVE  work'.at # "unprofile"
      BY <1>1, <3>2, Zenon DEF WorkType
    <3>3. ASSUME NEW state, Ends(state)
          PROVE  work'.at # "unprofile"
      BY <3>3, Zenon DEF Ends, Idle
    <3>4. work'.at # "unprofile"
      BY <3>1, <3>2, <3>3, Going
    <3> QED
      BY <3>4, Zenon DEF Dropped
  <2> QED
    BY <1>2, <2>1, <2>2, Zenon DEF FlatStep
<1>3. CASE EditProfile
  BY <1>1, <1>3, Zenon DEF EditProfile, Dropped
<1>4. CASE UNCHANGED flat /\ ~FlatStep
  <2>1. work'.at # "unprofile" \/ UNCHANGED work
    <3>1. ASSUME NEW id, Take(id)
          PROVE  work'.at # "unprofile"
      <4>1. jobs[id].kind \in Kinds
        <5>1. id \in DOMAIN jobs /\ jobs[id] \in JobType /\ jobs[id].kind # "over"
          BY <3>1 DEF Take, TypeOK, QueueTypes
        <5> QED
          BY <5>1, Zenon DEF JobType
      <4>2. work'.at = FirstStep(jobs[id].kind)
        BY <3>1, Zenon DEF Take, Idle
      <4> QED
        BY <4>1, <4>2, Zenon DEF Kinds, FirstStep
    <3>2. InstallStep \/ StageStep => work'.at # "unprofile"
      <4>1. ASSUME NEW step \in {"mkdir", "copy", "files", "rollback", "record", "stage", "move",
                                 "info", "open", "undesktop", "unlock"}, Goto(step)
            PROVE  work'.at # "unprofile"
        BY <4>1, Going, Zenon
      <4>2. ASSUME NEW part \in Parts, PutPart(part)
            PROVE  work'.at # "unprofile"
        <5>1. After(part) # "unprofile"
          BY Afters, Zenon DEF Parts
        <5> QED
          BY <1>1, <4>2, <5>1, Zenon DEF PutPart, WorkType
      <4>3. (CopyManifest /\ work' # Idle) \/ Rollback \/ RemovePart => work'.at # "unprofile"
        BY <1>1, Afters, Zenon DEF CopyManifest, Rollback, RemovePart, WorkType, At, Ends
      <4>0. Stage => work'.at # "unprofile"
        <5>1. ASSUME NEW todo, work' = [work EXCEPT !.at = "unpart", !.todo = todo]
              PROVE  work'.at # "unprofile"
          BY <1>1, <5>1, Zenon DEF WorkType
        <5>2. ASSUME work' = Idle
              PROVE  work'.at # "unprofile"
          BY <5>2, Zenon DEF Idle
        <5>3. Stage => \/ work' = Idle
                       \/ work' = [work EXCEPT !.at = "unpart",
                                    !.todo = parts[App] \cap Removable(dir[App].manifest)]
          BY Zenon DEF Stage, Ends
        <5> QED
          BY <5>1, <5>2, <5>3, Zenon
      <4>4. work' = Idle => work'.at # "unprofile"
        BY DEF Idle
      <4> QED
        BY Zenon, <4>0, <4>1, <4>2, <4>3, <4>4,
           InstallFrame, StageFrame
    <3>3. Requests \/ Calls \/ Outside \/ UNCHANGED installVars => work' = Idle \/ UNCHANGED work
      BY OutsideMoves, Zenon
    <3> QED
      BY <1>4, <3>1, <3>2, <3>3 DEF Next, Worker, Idle
  <2> QED
    BY <1>4, <2>1, Zenon DEF Dropped
<1> QED
  BY <1>2, <1>3, <1>4, FlatTouched

LEMMA AbsentStays ==
  ASSUME TypeOK, Placed, [Next]_installVars
  PROVE  AbsentIsEmpty'
<1>0. dir \in [Apps -> Dir] /\ trash \in [Apps -> Dir]
  BY Zenon DEF TypeOK, DiskTypes
<1>00. AbsentIsEmpty
  BY Zenon DEF Placed
<1>1. CASE UNCHANGED <<dir, trash>>
  BY <1>00, <1>1, Zenon DEF AbsentIsEmpty
<1>2. CASE MakeDir
  BY <1>0, <1>00, <1>2, DirTypes DEF MakeDir, AbsentIsEmpty
<1>3. CASE CopyFiles
  <2>1. dir[App].there /\ dir[App] \in Dir /\ App \in Apps
    BY <1>0, <1>3, AtApp DEF CopyFiles, Placed, Unpacking, At
  <2>2. [dir[App] EXCEPT !.files = @ \cup {Pkg}].there = dir[App].there
    BY <2>1, Zenon DEF Dir
  <2>3. dir' = [dir EXCEPT ![App] = [dir[App] EXCEPT !.files = @ \cup {Pkg}]] /\ UNCHANGED trash
    BY <1>3, Zenon DEF CopyFiles
  <2> QED
    BY <1>0, <1>00, <2>1, <2>2, <2>3 DEF AbsentIsEmpty
<1>4. CASE CopyManifest
  <2>1. dir[App].there /\ dir[App] \in Dir /\ App \in Apps
    BY <1>0, <1>4, AtApp DEF CopyManifest, Placed, Unpacking, At
  <2>2. [dir[App] EXCEPT !.manifest = Pkg].there = dir[App].there
    BY <2>1, Zenon DEF Dir
  <2>3. dir' = [dir EXCEPT ![App] = [dir[App] EXCEPT !.manifest = Pkg]] /\ UNCHANGED trash
    BY <1>4, Zenon DEF CopyManifest
  <2> QED
    BY <1>0, <1>00, <2>1, <2>2, <2>3 DEF AbsentIsEmpty
<1>5. CASE Rollback
  <2>1. dir[App].there
    BY <1>5, Zenon DEF Rollback, Placed, Undoing, At
  <2> QED
    BY <1>00, <1>5, <2>1, RollbackDir, Zenon DEF AbsentIsEmpty
<1>6. CASE RemoveOldEntry
  BY <1>0, <1>00, <1>6 DEF RemoveOldEntry, AbsentIsEmpty
<1>7. CASE MoveToTrash
  BY <1>0, <1>00, <1>7, AtApp DEF MoveToTrash, AbsentIsEmpty
<1>8. CASE WriteInfo
  <2>1. App \in Apps /\ trash[App] \in Dir
    BY <1>0, <1>8, AtApp, Zenon DEF WriteInfo
  <2>2. [trash[App] EXCEPT !.info = "fresh"].there = trash[App].there
    BY <2>1, Zenon DEF Dir
  <2>3. /\ UNCHANGED dir
        /\ \/ UNCHANGED trash
           \/ /\ trash[App].there
              /\ trash' = [trash EXCEPT ![App] = [trash[App] EXCEPT !.info = "fresh"]]
    BY <1>8 DEF WriteInfo
  <2> QED
    BY <1>0, <1>00, <2>1, <2>2, <2>3, Zenon DEF AbsentIsEmpty
<1>9. CASE RestoreMoves
  <2>1. rst.app \in Apps
    BY <1>9 DEF RestoreMoves, TypeOK, DiskTypes, IdleCall
  <2> QED
    BY <1>0, <1>00, <1>9, <2>1 DEF RestoreMoves, AbsentIsEmpty
<1>10. CASE RestoreReads
  <2>1. rst.app \in Apps /\ dir[rst.app] \in Dir
    BY <1>0, <1>10 DEF RestoreReads, TypeOK, DiskTypes, IdleCall
  <2>2. [dir[rst.app] EXCEPT !.info = "none"].there = dir[rst.app].there
    BY <2>1, Zenon DEF Dir
  <2>3. dir[rst.app].info = "none" => [dir[rst.app] EXCEPT !.info = "none"] = dir[rst.app]
    BY <2>1, Zenon DEF Dir
  <2>4. /\ UNCHANGED trash
        /\ \/ UNCHANGED dir
           \/ dir' = [dir EXCEPT ![rst.app] = [dir[rst.app] EXCEPT !.info = "none"]]
    BY <1>10, Zenon DEF RestoreReads
  <2> QED
    BY <1>0, <1>00, <2>1, <2>2, <2>3, <2>4, DirTypes, Zenon DEF AbsentIsEmpty
<1>11. CASE CleanupDeletes
  <2>1. \A d \in Dir : [d EXCEPT !.manifest = NoPackage].there = d.there
    BY Zenon DEF Dir
  <2>2. /\ UNCHANGED dir
        /\ \/ trash' = [trash EXCEPT ![cln.app] = Nowhere]
           \/ /\ trash[cln.app].there
              /\ trash' = [trash EXCEPT ![cln.app] = [trash[cln.app] EXCEPT !.manifest = NoPackage]]
    BY <1>11, Zenon DEF CleanupDeletes
  <2>3. \A a \in Apps :
           \/ trash'[a] = trash[a] \/ trash'[a] = Nowhere
           \/ trash[a].there /\ trash'[a] = [trash[a] EXCEPT !.manifest = NoPackage]
    BY <1>0, <2>2, Zenon
  <2>4. \A a \in Apps : trash[a] \in Dir
    BY DirTypes, <1>0, Zenon
  <2>5. \A a \in Apps : trash'[a] = trash[a] \/ trash'[a] = Nowhere \/ trash'[a].there
    BY <2>1, <2>3, <2>4, Zenon
  <2> QED
    BY <1>00, <2>2, <2>5, ZenonT(60) DEF AbsentIsEmpty
<1>12. ASSUME NEW app \in Apps, ThirtyDays(app)
       PROVE  AbsentIsEmpty'
  <2>1. trash[app].there
    BY <1>0, <1>00, <1>12, DirTypes DEF ThirtyDays, AbsentIsEmpty
  <2>2. [trash[app] EXCEPT !.info = "expired"].there = trash[app].there
    BY <1>0, Zenon DEF Dir
  <2>3. trash' = [trash EXCEPT ![app] = [trash[app] EXCEPT !.info = "expired"]] /\ UNCHANGED dir
    BY <1>12, Zenon DEF ThirtyDays
  <2> QED
    BY <1>0, <1>00, <2>1, <2>2, <2>3 DEF AbsentIsEmpty
<1> QED
  BY <1>1, <1>2, <1>3, <1>4, <1>5, <1>6, <1>7, <1>8, <1>9, <1>10, <1>11, <1>12, DirSteps

\* What is kept of an app's parts is named by a manifest that names it.
LEMMA NamedBy ==
  ASSUME NEW m, m # NoPackage
  PROVE  m.parts \subseteq Removable(m)
BY Zenon DEF Removable

LEMMA PartsStay ==
  ASSUME TypeOK, Placed, [Next]_installVars
  PROVE  PartsAreNamed'
<1>0. /\ dir \in [Apps -> Dir] /\ trash \in [Apps -> Dir]
      /\ parts \in [Apps -> SUBSET Parts] /\ stray \in [Apps -> SUBSET Parts]
  BY Zenon DEF TypeOK, DiskTypes
<1>00. \A a \in Apps : Kept(a) \subseteq Removable(dir[a].manifest)
  BY Zenon DEF Placed, PartsAreNamed, Kept
<1>000. Removable(NoPackage) = {}
  BY Zenon DEF Removable
<1>1. ASSUME \A a \in Apps : Kept(a)' \subseteq Removable(dir'[a].manifest)
      PROVE  PartsAreNamed'
  BY <1>1, Zenon DEF PartsAreNamed, Kept
<1>2. ASSUME \A a \in Apps : Kept(a)' \subseteq Kept(a) /\ dir'[a].manifest = dir[a].manifest
      PROVE  PartsAreNamed'
  BY <1>00, <1>1, <1>2, Zenon
<1>3. CASE UNCHANGED <<dir, parts, stray>>
  BY <1>2, <1>3 DEF Kept
<1>4. CASE MakeDir
  BY <1>0, <1>2, <1>4, DirTypes DEF MakeDir, Placed, AbsentIsEmpty, Kept, ghosts
<1>5. CASE CopyFiles
  BY <1>0, <1>2, <1>5 DEF CopyFiles, Dir, Kept, ghosts
<1>6. CASE CopyManifest
  <2>1. App \in Apps /\ Kept(App) = {}
    BY <1>6, AtApp, Zenon DEF CopyManifest, Placed, Unpacking, At
  <2>2. \A a \in Apps : a # App => dir'[a] = dir[a]
    BY <1>0, <1>6 DEF CopyManifest
  <2>3. \A a \in Apps : Kept(a)' = Kept(a)
    BY <1>6, Zenon DEF CopyManifest, Kept, ghosts
  <2> QED
    BY <1>00, <1>1, <2>1, <2>2, <2>3
<1>7. ASSUME NEW part \in Parts, PutPart(part)
      PROVE  PartsAreNamed'
  <2>1. part \in {"schemas", "modules", "keys", "settings"}
    BY Zenon DEF Parts
  <2>2. App \in Apps /\ Pkg # NoPackage
    BY <1>7, <2>1, AtApp DEF PutPart
  <2>3. dir[App].manifest = Pkg
    BY <1>7, Zenon DEF PutPart, Placed, Placing, At
  <2>4. \A a \in Apps : Kept(a)' \subseteq Kept(a)
                          \/ (a = App /\ part \in Pkg.parts /\ Kept(a)' \subseteq Kept(a) \cup {part})
    BY <1>0, <1>7, <2>2 DEF PutPart, Kept
  <2>5. UNCHANGED dir /\ Pkg.parts \subseteq Removable(Pkg)
    BY <1>7, <2>2, NamedBy, Zenon DEF PutPart
  <2> QED
    BY <1>00, <1>1, <2>3, <2>4, <2>5
<1>8. ASSUME NEW part \in Parts, PartFails(part)
      PROVE  PartsAreNamed'
  <2>1. \A a \in Apps : Kept(a)' \subseteq Kept(a)
    BY <1>0, <1>8 DEF PartFails, Kept
  <2> QED
    BY <1>2, <1>8, <2>1, Zenon DEF PartFails
<1>9. CASE Rollback
  <2>1. App \in Apps
    BY <1>9, AtApp, Zenon DEF Rollback
  <2>2. \A a \in Apps : Kept(a)' \subseteq Kept(a)
    BY <1>0, <1>9 DEF Rollback, Kept, ghosts
  <2>3. LastOf(work.todo) = "files" => Kept(App) = {}
    <3>1. LastOf(work.todo) = "files" => work.todo = {"files"}
      BY <1>9, LastOfTodo DEF Rollback, TypeOK, QueueTypes, WorkType
    <3>2. Kept(App) \subseteq work.todo /\ Kept(App) \subseteq Parts
      BY <1>0, <1>9, <2>1, Zenon DEF Rollback, Placed, Undoing, At, Kept
    <3> QED
      BY <3>1, <3>2 DEF Parts
  <2>4. \A a \in Apps : dir'[a] = dir[a] \/ (a = App /\ LastOf(work.todo) = "files")
    BY <1>0, <1>9, Zenon DEF Rollback
  <2> QED
    BY <1>00, <1>1, <2>2, <2>3, <2>4, Zenon
<1>10. CASE RemovePart
  <2>1. \A a \in Apps : Kept(a)' \subseteq Kept(a)
    BY <1>0, <1>10 DEF RemovePart, Kept
  <2> QED
    BY <1>2, <1>10, <2>1, Zenon DEF RemovePart
<1>11. CASE MoveToTrash
  <2>1. App \in Apps /\ Kept(App) = {}
    BY <1>11, AtApp, Zenon DEF MoveToTrash, Placed, Staging, At
  <2>2. \A a \in Apps : a # App => dir'[a] = dir[a]
    BY <1>0, <1>11, Zenon DEF MoveToTrash
  <2>3. \A a \in Apps : Kept(a)' = Kept(a)
    BY <1>11, Zenon DEF MoveToTrash, Kept, ghosts
  <2> QED
    BY <1>00, <1>1, <2>1, <2>2, <2>3, Zenon
<1>12. CASE RestoreMoves
  <2>1. \A a \in Apps : dir'[a] = dir[a] \/ dir[a].manifest = NoPackage
    BY <1>0, <1>12, DirTypes DEF RestoreMoves
  <2>2. \A a \in Apps : Kept(a)' = Kept(a)
    BY <1>12, Zenon DEF RestoreMoves, Kept
  <2> QED
    BY <1>00, <1>000, <1>1, <2>1, <2>2
<1>13. CASE RestoreReads
  BY <1>0, <1>2, <1>13 DEF RestoreReads, Dir, Kept, ghosts
<1>14. InstallStep => \/ UNCHANGED <<dir, parts, stray>> \/ MakeDir \/ CopyFiles \/ CopyManifest
                      \/ \E part \in Parts : PutPart(part) \/ PartFails(part)
                      \/ Rollback
  BY InstallFrame, Zenon
<1>15. StageStep => UNCHANGED <<dir, parts, stray>> \/ RemovePart \/ MoveToTrash
  BY StageFrame, Zenon
<1>16. Calls \/ Outside \/ UNCHANGED installVars =>
          UNCHANGED <<dir, parts, stray>> \/ RestoreMoves \/ RestoreReads
  BY OutsideFrame, Zenon
<1>17. FlatStep \/ Requests \/ (\E id : Take(id)) => UNCHANGED <<dir, parts, stray>>
  BY FlatFrame, RequestFrame, TakeFrame, Zenon
<1> QED
  BY SMTT(60), <1>3, <1>4, <1>5, <1>6, <1>7, <1>8, <1>9, <1>10, <1>11, <1>12, <1>13, <1>14, <1>15,
     <1>16, <1>17 DEF Next, Worker

\* Away from the steps that Placed speaks of there is nothing to show.
LEMMA Elsewhere ==
  ASSUME work'.at \notin {"copy", "files", "schemas", "modules", "keys", "settings", "desktop",
                          "record", "rollback", "unpart", "move", "info", "undesktop", "unlock"}
  PROVE  (Unpacking /\ Placing /\ Undoing /\ Staging)'
BY Zenon DEF Unpacking, Placing, Undoing, Staging, Parts

LEMMA WhenIdle ==
  ASSUME work' = Idle
  PROVE  (Unpacking /\ Placing /\ Undoing /\ Staging)'
BY Elsewhere, Zenon DEF Idle

\* Nothing beside the worker takes away what the worker has put in place.
LEMMA OutsideKeeps ==
  ASSUME TypeOK, Placed, Requests \/ Calls \/ Outside \/ UNCHANGED installVars
  PROVE  /\ UNCHANGED <<parts, stray>>
         /\ \A a \in Apps : /\ dir[a].there => dir'[a].there
                            /\ dir[a].files \subseteq dir'[a].files
                            /\ dir[a].manifest # NoPackage => dir'[a].manifest = dir[a].manifest
                            /\ desktop[a] => desktop'[a]
<1>0. dir \in [Apps -> Dir] /\ trash \in [Apps -> Dir] /\ desktop \in [Apps -> BOOLEAN]
  BY Zenon DEF TypeOK, DiskTypes
<1>1. UNCHANGED <<parts, stray>>
  BY RequestFrame, OutsideFrame, Zenon
<1>2. \A a \in Apps : desktop[a] => desktop'[a]
  <2>1. RestoreEntry \/ UNCHANGED desktop
    BY RequestFrame, OutsideFrame, Zenon
  <2>2. RestoreEntry => UNCHANGED desktop \/ desktop' = [desktop EXCEPT ![rst.app] = TRUE]
    BY Zenon DEF RestoreEntry
  <2> QED
    BY <1>0, <2>1, <2>2, Zenon
<1>3. \A a \in Apps : /\ dir[a].there => dir'[a].there
                      /\ dir[a].files \subseteq dir'[a].files
                      /\ dir[a].manifest # NoPackage => dir'[a].manifest = dir[a].manifest
  <2>1. CASE RestoreMoves
    BY <1>0, <2>1, DirTypes DEF RestoreMoves
  <2>2. CASE RestoreReads
    <3>1. \/ UNCHANGED dir
          \/ dir' = [dir EXCEPT ![rst.app] = [dir[rst.app] EXCEPT !.info = "none"]]
      BY <2>2, Zenon DEF RestoreReads
    <3>2. ASSUME NEW a \in Apps
          PROVE  /\ dir'[a].there = dir[a].there /\ dir'[a].files = dir[a].files
                 /\ dir'[a].manifest = dir[a].manifest
      <4>1. dir'[a] = dir[a] \/ dir'[a] = [dir[a] EXCEPT !.info = "none"]
        BY <1>0, <3>1, Zenon
      <4> QED
        BY <1>0, <4>1 DEF Dir
    <3> QED
      BY <3>2, Zenon
  <2>3. CASE UNCHANGED dir
    BY <2>3, Zenon
  <2>4. RestoreMoves \/ RestoreReads \/ UNCHANGED dir
    BY RequestFrame, OutsideFrame, Zenon
  <2> QED
    BY <2>1, <2>2, <2>3, <2>4
<1> QED
  BY <1>1, <1>2, <1>3, Zenon

LEMMA OutsideStands ==
  ASSUME TypeOK, Placed, Requests \/ Calls \/ Outside \/ UNCHANGED installVars
  PROVE  (Unpacking /\ Placing /\ Undoing /\ Staging)'
<1>1. CASE work' = Idle
  BY <1>1, WhenIdle, Zenon
<1>2. CASE work = Idle /\ UNCHANGED work
  BY <1>2, WhenIdle, Zenon
<1>3. CASE work # Idle /\ UNCHANGED work /\ Job' = Job
  <2>1. Pkg' = Pkg /\ App' = App
    BY <1>3, Zenon DEF Pkg, App
  <2>2. /\ UNCHANGED <<parts, stray>>
        /\ \A a \in Apps : /\ dir[a].there => dir'[a].there
                           /\ dir[a].files \subseteq dir'[a].files
                           /\ dir[a].manifest # NoPackage => dir'[a].manifest = dir[a].manifest
                           /\ desktop[a] => desktop'[a]
    BY OutsideKeeps, Zenon
  <2>3. Kept(App)' = Kept(App)
    BY <2>1, <2>2, Zenon DEF Kept
  <2>4. Unpacking'
    <3>1. work.at \in {"copy", "files"} => App \in Apps
      BY AtApp, Zenon DEF At
    <3> QED
      BY <1>3, <2>1, <2>2, <2>3, <3>1 DEF Placed, Unpacking
  <2>5. Placing'
    <3>1. work.at \in Parts \cup {"desktop", "record"} => App \in Apps /\ Pkg # NoPackage
      BY AtApp, Zenon DEF At, Parts
    <3> QED
      BY <1>3, <2>1, <2>2, <2>3, <3>1 DEF Placed, Placing
  <2>6. Undoing'
    <3>1. work.at = "rollback" => App \in Apps /\ Pkg # NoPackage
      BY AtApp DEF At
    <3> QED
      BY <1>3, <2>1, <2>2, <2>3, <3>1 DEF Placed, Undoing
  <2>7. Staging'
    <3>1. work.at \in {"unpart", "move"} => App \in Apps
      BY AtApp, Zenon DEF At
    <3> QED
      BY <1>3, <2>1, <2>2, <2>3, <3>1 DEF Placed, Staging
  <2> QED
    BY <2>4, <2>5, <2>6, <2>7
<1> QED
  BY <1>1, <1>2, <1>3, OutsideMoves

\* What a step of the worker leaves as it is.
LEMMA SameJob ==
  ASSUME TypeOK, work'.job = work.job, UNCHANGED jobs
  PROVE  Job' = Job /\ Pkg' = Pkg /\ App' = App
BY Zenon DEF Job, Pkg, App

LEMMA InstallStands ==
  ASSUME TypeOK, Placed, InstallStep
  PROVE  (Unpacking /\ Placing /\ Undoing /\ Staging)'
<1>0. /\ dir \in [Apps -> Dir] /\ parts \in [Apps -> SUBSET Parts] /\ stray \in [Apps -> SUBSET Parts]
      /\ work \in WorkType /\ desktop \in [Apps -> BOOLEAN]
  BY DEF TypeOK, DiskTypes, QueueTypes
<1>1. ASSUME NEW state, Ends(state)
      PROVE  (Unpacking /\ Placing /\ Undoing /\ Staging)'
  BY <1>1, WhenIdle DEF Ends
<1>2. CASE OpenPackage
  BY <1>1, <1>2, Going, Elsewhere DEF OpenPackage
<1>3. CASE MakeDir
  <2>1. CASE Goto("copy") /\ ~dir[App].there /\ dir' = [dir EXCEPT ![App] = EmptyDir]
    <3>1. App \in Apps /\ work'.at = "copy" /\ App' = App
      BY <1>3, <2>1, AtApp, Going, Zenon DEF MakeDir
    <3>2. Kept(App) = {}
      <4>1. dir[App].manifest = NoPackage
        BY <2>1, <3>1, DirTypes, Zenon DEF Placed, AbsentIsEmpty
      <4> QED
        BY <3>1, <4>1, Zenon DEF Placed, PartsAreNamed, Kept, Removable
    <3>3. Kept(App)' = {} /\ dir'[App'].there
      BY <1>0, <1>3, <2>1, <3>1, <3>2, DirTypes DEF MakeDir, Kept, ghosts
    <3> QED
      BY <3>1, <3>3, Zenon DEF Unpacking, Placing, Undoing, Staging, Parts
  <2> QED
    BY <1>1, <1>3, <2>1, Zenon DEF MakeDir
<1>4. CASE CopyFiles
  <2>1. CASE Goto("files")
    <3>1. App \in Apps /\ work'.at = "files" /\ App' = App /\ Pkg' = Pkg
      BY <1>4, <2>1, AtApp, Going DEF CopyFiles
    <3>2. Kept(App)' = {} /\ dir[App].there
      BY <1>4, <3>1, Zenon DEF CopyFiles, Placed, Unpacking, At, Kept, ghosts
    <3>3. dir'[App].there = dir[App].there /\ Pkg \in dir'[App].files
      BY <1>0, <1>4, <3>1 DEF CopyFiles, Dir
    <3> QED
      BY <3>1, <3>2, <3>3, Zenon DEF Unpacking, Placing, Undoing, Staging, Parts
  <2> QED
    BY <1>1, <1>4, <2>1, Zenon DEF CopyFiles
<1>5. CASE CopyManifest /\ work' # Idle
  <2>1. App \in Apps
    BY <1>5, AtApp, Zenon DEF CopyManifest
  <2>2. work'.at = "schemas" /\ work'.todo = {"files"} /\ App' = App /\ Pkg' = Pkg
    <3>1. work' = [work EXCEPT !.at = "schemas", !.todo = {"files"}] /\ UNCHANGED jobs
      BY <1>5, Afters, Zenon DEF CopyManifest, Ends
    <3>2. work'.at = "schemas" /\ work'.todo = {"files"} /\ work'.job = work.job
      BY <1>0, <3>1, Zenon DEF WorkType
    <3> QED
      BY <3>1, <3>2, SameJob, Zenon
  <2>3. Kept(App)' = {} /\ dir[App].there /\ Pkg \in dir[App].files
    BY <1>5, <2>1, <2>2, Zenon DEF CopyManifest, Placed, Unpacking, At, Kept, ghosts
  <2>4. dir'[App].there = dir[App].there /\ dir'[App].files = dir[App].files /\ dir'[App].manifest = Pkg
    BY <1>0, <1>5, <2>1 DEF CopyManifest, Dir
  <2>5. Before("schemas") = {}
    BY Zenon DEF Before
  <2> QED
    BY <2>2, <2>3, <2>4, <2>5, Zenon DEF Unpacking, Placing, Undoing, Staging, Parts
<1>6. ASSUME NEW part \in Parts, PutPart(part)
      PROVE  (Unpacking /\ Placing /\ Undoing /\ Staging)'
  <2>1. part \in {"schemas", "modules", "keys", "settings"}
    BY Zenon DEF Parts
  <2>2. App \in Apps /\ work.at = part
    BY <1>6, <2>1, AtApp DEF PutPart, At
  <2>3. /\ work'.at = After(part) /\ work'.job = work.job /\ UNCHANGED jobs
        /\ work'.todo = IF part \in Pkg.parts THEN work.todo \cup {part} ELSE work.todo
    BY <1>0, <1>6, Zenon DEF PutPart, WorkType
  <2>4. App' = App /\ Pkg' = Pkg
    BY <2>3, SameJob, Zenon
  <2>5. /\ dir[App].there /\ dir[App].manifest = Pkg /\ Pkg \in dir[App].files
        /\ Kept(App) \subseteq work.todo /\ work.todo \subseteq Pkg.parts \cup {"files"}
        /\ "files" \in work.todo
        /\ Pkg.parts \cap Before(part) \subseteq parts[App]
    BY <2>2, Zenon DEF Placed, Placing
  <2>6. Before(After(part)) = Before(part) \cup {part} /\ After(part) \in Parts \cup {"desktop"}
    BY <2>1, Afters, Zenon DEF Before, Parts
  <2>7. UNCHANGED dir /\ parts'[App] = IF part \in Pkg.parts THEN parts[App] \cup {part} ELSE parts[App]
    BY <1>0, <1>6, <2>2, Zenon DEF PutPart
  <2>8. Kept(App)' \subseteq work'.todo
    BY <1>0, <1>6, <2>2, <2>3, <2>4, <2>5 DEF PutPart, Kept
  <2>9. Pkg.parts \cap Before(After(part)) \subseteq parts'[App]
    BY <2>5, <2>6, <2>7, Zenon
  <2>10. Placing'
    BY SMTT(60), <2>3, <2>4, <2>5, <2>6, <2>7, <2>8, <2>9 DEF Placing, Parts
  <2> QED
    BY <2>3, <2>6, <2>10, Zenon DEF Unpacking, Undoing, Staging, Parts
<1>7. ASSUME NEW part \in Parts, PartFails(part)
      PROVE  (Unpacking /\ Placing /\ Undoing /\ Staging)'
  <2>1. part \in {"schemas", "modules", "keys", "settings"}
    BY Zenon DEF Parts
  <2>2. App \in Apps /\ work.at = part
    BY <1>7, <2>1, AtApp, Zenon DEF PartFails, At
  <2>3. work'.at = "rollback" /\ work'.todo = work.todo /\ App' = App /\ Pkg' = Pkg /\ UNCHANGED dir
    BY <1>7, Going, Zenon DEF PartFails
  <2>4. /\ dir[App].there /\ dir[App].manifest = Pkg
        /\ Kept(App) \subseteq work.todo /\ "files" \in work.todo
    BY <2>2, Zenon DEF Placed, Placing
  <2>5. Kept(App)' \subseteq Kept(App)
    BY <1>0, <1>7, <2>2, <2>3 DEF PartFails, Kept
  <2> QED
    BY <2>3, <2>4, <2>5 DEF Unpacking, Placing, Undoing, Staging, Parts
<1>8. CASE DesktopEntry
  <2>1. App \in Apps /\ work.at = "desktop"
    BY <1>8, AtApp, Zenon DEF DesktopEntry, At
  <2>2. /\ dir[App].there /\ dir[App].manifest = Pkg /\ Pkg \in dir[App].files
        /\ Kept(App) \subseteq work.todo /\ work.todo \subseteq Pkg.parts \cup {"files"}
        /\ "files" \in work.todo
        /\ Pkg.parts \cap Before("desktop") \subseteq parts[App]
    BY <2>1, Zenon DEF Placed, Placing
  <2>3. UNCHANGED <<dir, parts, stray>>
    BY <1>8, Zenon DEF DesktopEntry, ghosts
  <2>4. CASE Goto("rollback")
    <3>1. work'.at = "rollback" /\ work'.todo = work.todo /\ App' = App /\ Pkg' = Pkg
      BY <2>4, Going, Zenon
    <3> QED
      BY <2>2, <2>3, <3>1, Zenon DEF Unpacking, Placing, Undoing, Staging, Parts, Kept
  <2>5. CASE Goto("record") /\ desktop' = [desktop EXCEPT ![App] = TRUE]
    <3>1. work'.at = "record" /\ work'.todo = work.todo /\ App' = App /\ Pkg' = Pkg
      BY <2>5, Going, Zenon
    <3>2. desktop'[App']
      BY <1>0, <2>1, <2>5, <3>1, Zenon
    <3>3. Before("record") = Before("desktop")
      BY Zenon DEF Before
    <3>4. Placing'
      BY SMTT(60), <2>2, <2>3, <3>1, <3>2, <3>3 DEF Placing, Kept
    <3> QED
      BY <3>1, <3>4 DEF Unpacking, Undoing, Staging
  <2> QED
    BY <1>8, <2>4, <2>5, Zenon DEF DesktopEntry
<1>9. CASE Record \/ RolledBack
  BY <1>1, <1>9, Zenon DEF Record, RolledBack
<1>10. CASE Rollback
  <2>1. App \in Apps /\ work.at = "rollback" /\ work.todo # {}
    BY <1>10, AtApp, Zenon DEF Rollback, At
  <2>2. /\ work'.at = "rollback" /\ work'.todo = work.todo \ {LastOf(work.todo)}
        /\ work'.job = work.job /\ UNCHANGED jobs
    BY <1>0, <1>10, <2>1 DEF Rollback, WorkType
  <2>3. App' = App /\ Pkg' = Pkg
    BY <2>2, SameJob, Zenon
  <2>4. dir[App].there /\ dir[App].manifest = Pkg /\ "files" \in work.todo /\ Kept(App) \subseteq work.todo
    BY <2>1, Zenon DEF Placed, Undoing
  <2>5. LastOf(work.todo) = "files" => work.todo = {"files"}
    BY SMTT(60), <1>0, <2>1, LastOfTodo DEF WorkType
  <2>6. Kept(App)' \subseteq Kept(App) \ {LastOf(work.todo)}
    <3>1. \/ parts' = [parts EXCEPT ![App] = @ \ {LastOf(work.todo)}] /\ UNCHANGED stray
          \/ stray' = [stray EXCEPT ![App] = @ \cup {LastOf(work.todo)}] /\ UNCHANGED parts
          \/ LastOf(work.todo) = "files" /\ UNCHANGED <<parts, stray>>
      BY <1>10 DEF Rollback
    <3>2. parts \in [Apps -> SUBSET Parts] /\ stray \in [Apps -> SUBSET Parts] /\ "files" \notin Parts
      BY Zenon DEF TypeOK, DiskTypes, Parts
    <3> QED
      BY <2>1, <2>3, <3>1, <3>2 DEF Kept
  <2>7. LastOf(work.todo) # "files" => UNCHANGED dir
    BY <1>10, Zenon DEF Rollback
  <2>8. Undoing'
    BY <2>2, <2>3, <2>4, <2>5, <2>6, <2>7 DEF Undoing
  <2> QED
    BY <2>2, <2>8, Zenon DEF Unpacking, Placing, Staging, Parts
<1> QED
  BY SMTT(60), WhenIdle, <1>2, <1>3, <1>4, <1>5, <1>6, <1>7, <1>8, <1>9, <1>10 DEF InstallStep

LEMMA StageStands ==
  ASSUME TypeOK, Placed, StageStep
  PROVE  (Unpacking /\ Placing /\ Undoing /\ Staging)'
<1>0. /\ dir \in [Apps -> Dir] /\ parts \in [Apps -> SUBSET Parts] /\ stray \in [Apps -> SUBSET Parts]
      /\ work \in WorkType
  BY DEF TypeOK, DiskTypes, QueueTypes
<1>1. ASSUME NEW state, Ends(state)
      PROVE  (Unpacking /\ Placing /\ Undoing /\ Staging)'
  BY <1>1, WhenIdle, Zenon DEF Ends
<1>2. ASSUME NEW step \in {"info", "undesktop", "unlock"}, Goto(step), Kept(App)' = {}
      PROVE  (Unpacking /\ Placing /\ Undoing /\ Staging)'
  <2>1. work'.at = step
    BY <1>2, Going, Zenon
  <2> QED
    BY <1>2, <2>1, Zenon DEF Unpacking, Placing, Undoing, Staging, Parts
<1>3. CASE Gate
  BY <1>1, <1>3, Going, Elsewhere DEF Gate
<1>4. CASE Stage
  <2>1. CASE /\ dir[App].there /\ UNCHANGED jobs
             /\ work' = [work EXCEPT !.at = "unpart",
                           !.todo = parts[App] \cap Removable(dir[App].manifest)]
    <3>1. App \in Apps
      BY <1>4, AtApp, Zenon DEF Stage
    <3>2. /\ work'.at = "unpart" /\ work'.job = work.job
          /\ work'.todo = parts[App] \cap Removable(dir[App].manifest)
      BY <1>0, <2>1, Zenon DEF WorkType
    <3>3. App' = App
      BY <2>1, <3>2, SameJob, Zenon
    <3>4. UNCHANGED <<dir, parts, stray>>
      BY <1>4, Zenon DEF Stage, disk
    <3>5. Kept(App)' \subseteq work'.todo /\ work'.todo \subseteq Parts
      BY SMTT(60), <1>0, <3>1, <3>2, <3>3, <3>4 DEF Placed, PartsAreNamed, Kept
    <3> QED
      BY <2>1, <3>2, <3>3, <3>4, <3>5 DEF Unpacking, Placing, Undoing, Staging, Parts
  <2> QED
    BY <1>1, <1>4, <2>1, Zenon DEF Stage
<1>5. CASE RemovePart
  <2>1. App \in Apps /\ work.at = "unpart"
    BY <1>5, AtApp, Zenon DEF RemovePart, At
  <2>2. /\ work'.at = "unpart" /\ work'.todo = work.todo \ {LastOf(work.todo)}
        /\ work'.job = work.job /\ UNCHANGED <<jobs, dir>>
    BY <1>0, <1>5, <2>1, Zenon DEF RemovePart, WorkType
  <2>3. App' = App
    BY <2>2, SameJob, Zenon
  <2>4. dir[App].there /\ Kept(App) \subseteq work.todo /\ work.todo \subseteq Parts
    BY <2>1, Zenon DEF Placed, Staging
  <2>5. Kept(App)' \subseteq Kept(App) \ {LastOf(work.todo)}
    BY SMTT(60), <1>0, <1>5, <2>1, <2>3 DEF RemovePart, Kept
  <2> QED
    BY <2>2, <2>3, <2>4, <2>5 DEF Unpacking, Placing, Undoing, Staging, Parts
<1>6. CASE RemoveOldEntry
  <2>1. CASE Goto("move")
    <3>1. App \in Apps /\ work.at = "unpart" /\ work.todo = {}
      BY <1>6, AtApp, Zenon DEF RemoveOldEntry, At
    <3>2. work'.at = "move" /\ App' = App /\ UNCHANGED <<dir, parts, stray>>
      BY <1>6, <2>1, Going, Zenon DEF RemoveOldEntry, ghosts
    <3>3. dir[App].there /\ Kept(App) = {}
      BY <3>1, Zenon DEF Placed, Staging
    <3> QED
      BY <3>2, <3>3, Zenon DEF Unpacking, Placing, Undoing, Staging, Parts, Kept
  <2> QED
    BY <1>1, <1>6, <2>1 DEF RemoveOldEntry
<1>7. CASE MoveToTrash
  <2>1. CASE Goto("info")
    <3>1. Kept(App)' = {}
      BY <1>7, <2>1, Going, Zenon DEF MoveToTrash, At, Placed, Staging, Kept, ghosts
    <3> QED
      BY <1>2, <2>1, <3>1, Zenon
  <2> QED
    BY <1>1, <1>7, <2>1, Zenon DEF MoveToTrash
<1>8. CASE WriteInfo
  <2>1. CASE Goto("undesktop")
    <3>1. Kept(App)' = {}
      BY <1>8, <2>1, Going, Zenon DEF WriteInfo, At, Placed, Staging, Kept, ghosts
    <3> QED
      BY <1>2, <2>1, <3>1, Zenon
  <2>2. CASE Goto("open")
    BY <2>2, Going, Elsewhere
  <2> QED
    BY <1>1, <1>8, <2>1, <2>2 DEF WriteInfo
<1>9. CASE RemoveDesktop
  <2>1. CASE Goto("unlock")
    <3>1. Kept(App)' = {}
      BY <1>9, <2>1, Going, Zenon DEF RemoveDesktop, At, Placed, Staging, Kept, ghosts
    <3> QED
      BY <1>2, <2>1, <3>1, Zenon
  <2> QED
    BY <1>1, <1>9, <2>1, Zenon DEF RemoveDesktop
<1>10. CASE RemoveFromLock
  BY <1>1, <1>10, Zenon DEF RemoveFromLock
<1> QED
  BY SMTT(60), <1>3, <1>4, <1>5, <1>6, <1>7, <1>8, <1>9, <1>10 DEF StageStep

LEMMA PlacedStays ==
  ASSUME TypeOK, Placed, [Next]_installVars
  PROVE  Placed'
<1>1. ASSUME NEW id, Take(id)
      PROVE  (Unpacking /\ Placing /\ Undoing /\ Staging)'
  <2>1. jobs[id].kind \in Kinds
    <3>1. id \in DOMAIN jobs /\ jobs[id] \in JobType /\ jobs[id].kind # "over"
      BY <1>1 DEF Take, TypeOK, QueueTypes
    <3> QED
      BY <3>1, Zenon DEF JobType
  <2>2. work' = [Idle EXCEPT !.job = id, !.at = FirstStep(jobs[id].kind)]
    BY <1>1, Zenon DEF Take
  <2>3. work'.at = FirstStep(jobs[id].kind)
    BY <2>2, Zenon DEF Idle
  <2>4. FirstStep(jobs[id].kind) \in {"open", "gate", "stage", "pull", "examine", "drop"}
    BY <2>1, Zenon DEF Kinds, FirstStep
  <2> QED
    BY <2>3, <2>4, Elsewhere, Zenon
<1>2. ASSUME FlatStep
      PROVE  (Unpacking /\ Placing /\ Undoing /\ Staging)'
  <2>1. FlatExamine => work' = Idle \/ work'.at = "deploy"
    BY Zenon DEF FlatExamine, Ends, TypeOK, QueueTypes, WorkType
  <2>2. work' = Idle \/ work'.at \in {"profile", "unprofile", "deploy"}
    BY <1>2, <2>1, FlatFrame, Going, Zenon
  <2> QED
    BY <2>2, Elsewhere, WhenIdle, Zenon
<1>3. ASSUME InstallStep
      PROVE  (Unpacking /\ Placing /\ Undoing /\ Staging)'
  BY <1>3, InstallStands, Zenon
<1>4. ASSUME StageStep
      PROVE  (Unpacking /\ Placing /\ Undoing /\ Staging)'
  BY <1>4, StageStands, Zenon
<1>5. ASSUME Requests \/ Calls \/ Outside \/ UNCHANGED installVars
      PROVE  (Unpacking /\ Placing /\ Undoing /\ Staging)'
  BY <1>5, OutsideStands, Zenon
<1>6. (Unpacking /\ Placing /\ Undoing /\ Staging)'
  <2>1. CASE Worker
    BY <1>1, <1>2, <1>3, <1>4, <2>1 DEF Worker
  <2> QED
    BY <1>5, <2>1, Zenon DEF Next
<1>7. AbsentIsEmpty'
  BY AbsentStays, Zenon
<1>8. PartsAreNamed'
  BY SMTT(60), PartsStay
<1> QED
  BY <1>6, <1>7, <1>8, Zenon DEF Placed

LEMMA CompletedStep ==
  ASSUME TypeOK, Placed, [Next]_installVars,
         NEW id \in DOMAIN jobs, jobs[id].state = "running", jobs'[id].state = "completed"
  PROVE  LET p == jobs[id].pkg IN
           /\ jobs[id].kind \in {"install", "upgrade"} =>
                 /\ dir'[p.app].manifest = p /\ p \in dir'[p.app].files
                 /\ p.parts \subseteq parts'[p.app] /\ desktop'[p.app]
           /\ jobs[id].kind = "uninstall" => parts'[p.app] \subseteq stray'[p.app]
<1>1. work.job = id /\ jobs \in Seq(JobType)
  BY Zenon DEF TypeOK, QueueTypes
<1>2. Job = jobs[id] /\ Pkg = jobs[id].pkg /\ App = jobs[id].pkg.app
  BY SMTT(60), <1>1 DEF Job, Pkg, App
<1>3. CASE Record
  <2>1. App \in Apps /\ work.at = "record" /\ Job.kind \in {"install", "upgrade"}
    BY <1>3, AtApp, AtWork, KindsAtSteps, Zenon DEF Record, At, TypeOK
  <2>2. /\ dir[App].manifest = Pkg /\ Pkg \in dir[App].files
        /\ Pkg.parts \cap Before("record") \subseteq parts[App] /\ desktop[App]
    BY <2>1, Zenon DEF Placed, Placing
  <2>3. Before("record") = Parts
    BY Zenon DEF Before
  <2>4. Pkg.parts \subseteq Parts
    BY <1>3, AtApp, PackagesAssumption DEF Record
  <2>5. UNCHANGED <<dir, parts, desktop>>
    BY <1>3, Zenon DEF Record
  <2> QED
    BY SMTT(60), <1>2, <2>1, <2>2, <2>3, <2>4, <2>5
<1>4. CASE RemoveFromLock
  <2>1. Job.kind = "uninstall" /\ Kept(App) = {}
    BY <1>4, AtWork, KindsAtSteps, Zenon DEF RemoveFromLock, TypeOK, At, Placed, Staging
  <2>2. UNCHANGED <<parts, stray>>
    BY <1>4, Zenon DEF RemoveFromLock, ghosts
  <2> QED
    BY SMTT(60), <1>2, <2>1, <2>2 DEF Kept
<1>5. CASE FlatStep
  <2>1. Job.kind \in {"flatinstall", "flatupdate", "flatremove"}
    BY <1>5, AtWork, KindsAtSteps, Zenon DEF TypeOK, FlatStep, FlatInstall, FlatProfile, FlatRemove,
       FlatUnprofile, FlatExamine, FlatDeploy
  <2> QED
    BY <1>2, <2>1, Zenon
<1>6. ASSUME Ends("failed")
      PROVE  FALSE
  BY SMTT(60), <1>1, <1>6 DEF Ends, Over
<1>7. CASE UNCHANGED jobs
  BY <1>7, Zenon
<1>8. ASSUME NEW kind, NEW pkg, Enqueue(kind, pkg)
      PROVE  FALSE
  BY <1>1, <1>8 DEF Enqueue
<1>9. ASSUME NEW other, Take(other)
      PROVE  FALSE
  BY SMTT(60), <1>1, <1>9 DEF Take, TypeOK, QueueTypes, Idle, JobType
<1>10. ASSUME Crash
       PROVE  FALSE
  BY SMTT(60), <1>10 DEF Crash, Over
<1>11. InstallStep \/ StageStep => Record \/ RemoveFromLock \/ Ends("failed") \/ UNCHANGED jobs
  BY InstallFrame, StageFrame, Zenon
<1>12. Calls \/ Outside \/ UNCHANGED installVars => Crash \/ UNCHANGED jobs
  BY OutsideFrame, Zenon
<1>13. ~Requests
  BY <1>8, Zenon DEF Requests
<1>14. InstallStep \/ StageStep \/ FlatStep \/ Calls \/ Outside \/ UNCHANGED installVars
  BY ZenonT(60), <1>9, <1>13 DEF Next, Worker
<1>15. Record \/ RemoveFromLock \/ FlatStep \/ UNCHANGED jobs
  BY ZenonT(60), <1>6, <1>10, <1>11, <1>12, <1>14
<1> QED
  BY ZenonT(60), <1>3, <1>4, <1>5, <1>7, <1>15
-----------------------------------------------------------------------------
(***************************************************************************)
(* Some version survives.  Where an app is that nobody uninstalled depends *)
(* on how far the worker has come with it and on whether anything has gone *)
(* wrong yet.                                                              *)
(***************************************************************************)
Here(a) == dir[a].manifest # NoPackage
Trashed(a) == trash[a].manifest # NoPackage

OnIt(a) == work # Idle /\ Job.kind \in {"install", "upgrade", "uninstall"} /\ App = a

\* The worker is elsewhere or has changed nothing of the app yet.
Untouched(a) ==
    \/ ~OnIt(a)
    \/ work.at \in {"gate", "stage"}
    \/ Job.kind = "install" /\ work.at \in {"open", "mkdir"}

Building == {"copy", "files", "schemas", "modules", "keys", "settings", "desktop", "record",
             "rollback"}

\* Where an app is that nobody uninstalled.  Until something goes wrong it is in
\* place, or staged while its upgrade runs; an upgrade that begins after that
\* may meet a directory without a manifest, and can then no longer fail.
Lives(a) ==
    /\ Untouched(a) => Here(a) \/ (trouble = 1 /\ Trashed(a))
    /\ ~Untouched(a) =>
          /\ Job.kind # "uninstall"
          /\ work.at \in {"unpart", "move"} => trouble = 1 \/ Here(a)
          /\ work.at \in {"info", "open", "mkdir"} => ~dir[a].there /\ (trouble = 1 \/ Trashed(a))
          /\ work.at = "info" => trash[a].there
          /\ work.at \in Building =>
                /\ Trashed(a) \/ (trouble = 1 /\ Job.kind = "upgrade" /\ work.at # "rollback")
                /\ Job.kind = "install" \/ work.at = "rollback" => trouble = 1

Survival == \A a \in Apps : had[a] /\ ~raced[a] /\ trouble <= 1 => Lives(a)

SameHome(a) ==
    /\ dir'[a].manifest = dir[a].manifest /\ dir'[a].there = dir[a].there
    /\ trash'[a].manifest = trash[a].manifest /\ trash'[a].there = trash[a].there

MoreTrouble == trouble' = trouble \/ trouble' = trouble + 1

LEMMA Resting ==
  ASSUME NEW a \in Apps, Untouched(a)', Here(a)' \/ (trouble' = 1 /\ Trashed(a)')
  PROVE  Lives(a)'
BY Zenon DEF Lives

LEMMA RestsIdle ==
  ASSUME NEW a \in Apps, work' = Idle, Here(a)' \/ (trouble' = 1 /\ Trashed(a)')
  PROVE  Lives(a)'
<1>1. Untouched(a)'
  BY Zenon DEF Untouched, OnIt
<1> QED
  BY <1>1, Resting, Zenon

LEMMA StillResting ==
  ASSUME NEW a \in Apps, Lives(a), Untouched(a), Untouched(a)', SameHome(a),
         trouble \in Nat, MoreTrouble, trouble' <= 1
  PROVE  Lives(a)'
<1>1. Here(a) \/ (trouble = 1 /\ Trashed(a))
  BY Zenon DEF Lives
<1>2. trouble = 1 => trouble' = 1
  BY DEF MoreTrouble
<1>3. Here(a)' \/ (trouble' = 1 /\ Trashed(a)')
  BY <1>1, <1>2, Zenon DEF Here, Trashed, SameHome
<1> QED
  BY <1>3, Resting, Zenon

\* As long as nothing has gone wrong the app is somewhere.
LEMMA Nearby ==
  ASSUME TypeOK, NEW a \in Apps, Lives(a), trouble = 0
  PROVE  Here(a) \/ Trashed(a)
<1>1. CASE Untouched(a)
  BY <1>1 DEF Lives
<1>2. CASE ~Untouched(a)
  <2>1. /\ work # Idle /\ Job.kind \in {"install", "upgrade"}
        /\ work.at \notin {"gate", "stage"}
    BY <1>2, Zenon DEF Lives, Untouched, OnIt
  <2>2. Job.kind \in KindsAt(work.at) /\ work.at \in Places
    BY <2>1, Running, Zenon DEF TypeOK, QueueTypes, WorkType
  <2>3. work.at \in {"unpart", "move", "info", "open", "mkdir"} \cup Building
    <3>1. KindsAt("idle") = {}
      BY Zenon DEF KindsAt
    <3> QED
      BY <2>1, <2>2, <3>1, KindsAtSteps DEF Places, Building
  <2> QED
    BY <1>2, <2>3 DEF Lives
<1> QED
  BY <1>1, <1>2, Zenon

\* A failure that ends the job leaves it there.
LEMMA FailsSafely ==
  ASSUME TypeOK, NEW a \in Apps, Lives(a), SameHome(a), work' = Idle,
         trouble' = trouble + 1, trouble' <= 1
  PROVE  Lives(a)'
<1>1. trouble = 0 /\ trouble' = 1
  BY DEF TypeOK, DiskTypes
<1>2. Here(a) \/ Trashed(a)
  BY <1>1, Nearby, Zenon
<1>3. Here(a)' \/ (trouble' = 1 /\ Trashed(a)')
  BY <1>1, <1>2, Zenon DEF Here, Trashed, SameHome
<1> QED
  BY <1>3, RestsIdle, Zenon

\* Nothing changes for an app when neither its directories nor the worker do.
LEMMA SameLife ==
  ASSUME NEW a \in Apps, Lives(a), SameHome(a), UNCHANGED work, work # Idle => Job' = Job,
         trouble \in Nat, MoreTrouble, trouble' <= 1
  PROVE  Lives(a)'
<1>1. Untouched(a)' <=> Untouched(a)
  <2>1. OnIt(a)' <=> OnIt(a)
    BY Zenon DEF OnIt, App, Pkg
  <2>2. OnIt(a) => Job' = Job
    BY Zenon DEF OnIt
  <2> QED
    BY <2>1, <2>2, Zenon DEF Untouched
<1>2. trouble = 1 => trouble' = 1
  BY DEF MoreTrouble
<1>3. CASE Untouched(a)
  BY <1>1, <1>3, StillResting, Zenon
<1>4. CASE ~Untouched(a)
  <2>1. Job' = Job
    BY <1>4, Zenon DEF Untouched, OnIt
  <2>2. (Here(a)' <=> Here(a)) /\ (Trashed(a)' <=> Trashed(a))
    BY Zenon DEF SameHome, Here, Trashed
  <2> QED
    BY <1>1, <1>2, <1>4, <2>1, <2>2, Zenon DEF Lives, SameHome
<1> QED
  BY <1>3, <1>4, Zenon

\* What the steps beside the worker do to the history and to the directories.
LEMMA OutsideHistory ==
  ASSUME Requests \/ Calls \/ Outside \/ UNCHANGED installVars
  PROVE  /\ CleanupDeletes \/ UNCHANGED had
         /\ CleanupDeletes \/ RestoreMoves \/ UNCHANGED raced
         /\ MoreTrouble
<1>1. CleanupDeletes \/ UNCHANGED had
  BY Zenon DEF Requests, Enqueue, Calls, Outside, installVars, ghosts, RestoreBegins, RestoreMoves,
     RestoreReads, RestoreEntry, CleanupReads, ThirtyDays, Publish, EditProfile, Crash
<1>2. CleanupDeletes \/ RestoreMoves \/ UNCHANGED raced
  BY Zenon DEF Requests, Enqueue, Calls, Outside, installVars, ghosts, RestoreBegins,
     RestoreReads, RestoreEntry, CleanupReads, ThirtyDays, Publish, EditProfile, Crash
<1>3. MoreTrouble
  BY Zenon DEF MoreTrouble, Fine, Fault, Requests, Enqueue, Calls, Outside, installVars,
     RestoreBegins, RestoreMoves, RestoreReads, RestoreEntry, CleanupReads, CleanupDeletes,
     ThirtyDays, Publish, EditProfile, Crash
<1> QED
  BY <1>1, <1>2, <1>3, Zenon

LEMMA OutsideHomes ==
  ASSUME TypeOK, NEW a \in Apps, Requests \/ Calls \/ Outside \/ UNCHANGED installVars
  PROVE  \/ SameHome(a)
         \/ RestoreMoves /\ a = rst.app
         \/ CleanupDeletes /\ a = cln.app
<1>0. dir \in [Apps -> Dir] /\ trash \in [Apps -> Dir]
  BY Zenon DEF TypeOK, DiskTypes
<1>1. CASE RestoreMoves /\ a # rst.app
  BY <1>0, <1>1, Zenon DEF RestoreMoves, SameHome
<1>2. CASE CleanupDeletes /\ a # cln.app
  BY <1>0, <1>2, Zenon DEF CleanupDeletes, SameHome
<1>3. CASE RestoreReads
  <2>1. UNCHANGED trash /\ (dir'[a] = dir[a] \/ dir'[a] = [dir[a] EXCEPT !.info = "none"])
    BY <1>0, <1>3 DEF RestoreReads
  <2> QED
    BY <1>0, <2>1 DEF SameHome, Dir
<1>4. ASSUME NEW app \in Apps, ThirtyDays(app)
      PROVE  SameHome(a)
  <2>1. UNCHANGED dir /\ (trash'[a] = trash[a] \/ trash'[a] = [trash[a] EXCEPT !.info = "expired"])
    BY <1>0, <1>4 DEF ThirtyDays
  <2> QED
    BY <1>0, <2>1 DEF SameHome, Dir
<1>5. CASE UNCHANGED <<dir, trash>>
  BY <1>5, Zenon DEF SameHome
<1>6. \/ RestoreMoves \/ CleanupDeletes \/ RestoreReads
      \/ (\E app \in Apps : ThirtyDays(app)) \/ UNCHANGED <<dir, trash>>
  BY RequestFrame, OutsideFrame, Zenon
<1> QED
  BY <1>1, <1>2, <1>3, <1>4, <1>5, <1>6, Zenon

\* A restore moves the one version there is; a cleanup deletes what expired.
LEMMA OutsideSurvives ==
  ASSUME TypeOK, Placed, Survival, Requests \/ Calls \/ Outside \/ UNCHANGED installVars
  PROVE  Survival'
<1> SUFFICES ASSUME NEW a \in Apps, had'[a], ~raced'[a], trouble' <= 1
    PROVE  Lives(a)'
  BY Zenon DEF Survival
<1>0. /\ dir \in [Apps -> Dir] /\ trash \in [Apps -> Dir] /\ trouble \in Nat
      /\ had \in [Apps -> BOOLEAN] /\ raced \in [Apps -> BOOLEAN]
  BY Zenon DEF TypeOK, DiskTypes
<1>1. MoreTrouble /\ trouble <= 1
  <2>1. MoreTrouble
    BY OutsideHistory, Zenon
  <2> QED
    BY <1>0, <2>1 DEF MoreTrouble
<1>2. had[a]
  BY <1>0, OutsideHistory, Zenon DEF CleanupDeletes
<1>3. ~raced[a]
  BY <1>0, OutsideHistory, Zenon DEF CleanupDeletes, RestoreMoves
<1>4. Lives(a)
  BY <1>1, <1>2, <1>3, Zenon DEF Survival
<1>5. CASE SameHome(a)
  <2>1. CASE UNCHANGED work /\ (work # Idle => Job' = Job)
    BY <1>0, <1>1, <1>4, <1>5, <2>1, SameLife, Zenon
  <2>2. CASE Crash
    BY <1>4, <1>5, <2>2, FailsSafely, Zenon DEF Crash, Fault
  <2>3. Crash \/ (UNCHANGED work /\ (work # Idle => Job' = Job))
    <3>1. CASE Requests
      BY <3>1, RequestFrame, OutsideMoves, Zenon
    <3>2. CASE Calls \/ Outside \/ UNCHANGED installVars
      BY <3>2, OutsideFrame, Zenon DEF Job
    <3> QED
      BY <3>1, <3>2, Zenon
  <2> QED
    BY <2>1, <2>2, <2>3, Zenon
<1>6. CASE RestoreMoves /\ a = rst.app /\ ~SameHome(a)
  <2>1. dir[a] \in {Nowhere, EmptyDir} /\ dir' = [dir EXCEPT ![a] = trash[a]]
    BY <1>6, Zenon DEF RestoreMoves, SameHome
  <2>2. raced' = [raced EXCEPT ![a] = @ \/ (work # Idle /\ App = a)]
    BY <1>6, Zenon DEF RestoreMoves, SameHome
  <2>3. Untouched(a) /\ Untouched(a)'
    <3>1. ~(work # Idle /\ App = a)
      BY <1>0, <2>2, Zenon
    <3>2. UNCHANGED <<work, jobs>>
      BY <1>6, Zenon DEF RestoreMoves
    <3> QED
      BY <3>1, <3>2, Zenon DEF Untouched, OnIt, App, Pkg, Job
  <2>4. Trashed(a)
    BY <1>4, <2>1, <2>3, DirTypes, Zenon DEF Lives, Here
  <2>5. Here(a)'
    BY <1>0, <2>1, <2>4, Zenon DEF Here, Trashed
  <2> QED
    BY <2>3, <2>5, Resting, Zenon
<1>7. CASE CleanupDeletes /\ a = cln.app
  <2>1. trash[a].info # "expired"
    BY <1>0, <1>7, Zenon DEF CleanupDeletes
  <2>2. ~trash[a].there
    BY <1>0, <1>7, <2>1, Zenon DEF CleanupDeletes
  <2>3. trash[a] = Nowhere
    BY <2>2, Zenon DEF Placed, AbsentIsEmpty
  <2>4. trash' = [trash EXCEPT ![a] = Nowhere] /\ UNCHANGED <<dir, work, jobs>>
    BY <1>7, <2>2, Zenon DEF CleanupDeletes
  <2>5. SameHome(a)
    BY <1>0, <2>3, <2>4, Zenon DEF SameHome
  <2> QED
    BY <1>5, <2>5, Zenon
<1> QED
  BY <1>5, <1>6, <1>7, OutsideHomes, Zenon

\* What the worker does to the history, and to the apps it is not at.
LEMMA WorkerHistory ==
  ASSUME Worker
  PROVE  UNCHANGED raced /\ (Record \/ Stage \/ UNCHANGED had) /\ MoreTrouble
<1>1. CASE \E id \in DOMAIN jobs : Take(id)
  BY <1>1, Zenon DEF Take, ghosts, MoreTrouble
<1>2. CASE InstallStep
  BY <1>2, Zenon DEF MoreTrouble, Fine, Fault, InstallStep, ghosts, OpenPackage, MakeDir, CopyFiles,
     CopyManifest, PutPart, PartFails, DesktopEntry, Record, Rollback, RolledBack
<1>3. CASE StageStep
  BY <1>3, Zenon DEF MoreTrouble, Fine, Fault, StageStep, ghosts, Gate, Stage, RemovePart,
     RemoveOldEntry, MoveToTrash, WriteInfo, RemoveDesktop, RemoveFromLock
<1>4. CASE FlatStep
  BY <1>4, Zenon DEF MoreTrouble, Fine, Fault, FlatStep, ghosts, FlatInstall, FlatProfile, FlatRemove,
     FlatUnprofile, FlatExamine, FlatDeploy
<1> QED
  BY <1>1, <1>2, <1>3, <1>4, Zenon DEF Worker

LEMMA HomesElsewhere ==
  ASSUME TypeOK, NEW a \in Apps, a # App, InstallStep \/ StageStep
  PROVE  SameHome(a)
<1>0. dir \in [Apps -> Dir] /\ trash \in [Apps -> Dir]
  BY Zenon DEF TypeOK, DiskTypes
<1>1. CASE UNCHANGED <<dir, trash>>
  BY <1>1, Zenon DEF SameHome
<1>2. CASE MakeDir \/ CopyFiles \/ CopyManifest
  BY <1>0, <1>2, Zenon DEF MakeDir, CopyFiles, CopyManifest, SameHome
<1>3. CASE Rollback
  BY <1>3, RollbackDir, Zenon DEF SameHome
<1>4. CASE RemoveOldEntry \/ MoveToTrash \/ WriteInfo
  BY <1>0, <1>4, Zenon DEF RemoveOldEntry, MoveToTrash, WriteInfo, SameHome
<1> QED
  BY <1>1, <1>2, <1>3, <1>4, InstallFrame, StageFrame, Zenon

\* The steps of an install happen in an install or an upgrade of the app.
LEMMA AtInstall ==
  ASSUME TypeOK, InstallStep
  PROVE  /\ work # Idle /\ App \in Apps /\ Job.kind \in {"install", "upgrade"}
         /\ work.at \in {"open", "mkdir"} \cup Building
<1>1. work.at \in {"open", "mkdir"} \cup Building
  BY Zenon DEF InstallStep, At, OpenPackage, MakeDir, CopyFiles, CopyManifest, PutPart, PartFails,
     DesktopEntry, Record, Rollback, RolledBack, Parts, Building
<1>2. work # Idle
  BY <1>1 DEF Idle, Building
<1>3. Job.kind \in {"install", "upgrade"}
  BY <1>1, <1>2, Running, KindsAtSteps DEF TypeOK, Building
<1>4. App \in Apps
  BY <1>2, <1>3, Running, Zenon DEF TypeOK
<1> QED
  BY <1>1, <1>2, <1>3, <1>4, Zenon

LEMMA AtStage ==
  ASSUME TypeOK, StageStep
  PROVE  /\ work # Idle /\ App \in Apps /\ Job.kind \in {"upgrade", "uninstall"}
         /\ work.at \in {"undesktop", "unlock"} => Job.kind = "uninstall"
<1>1. work.at \in {"gate", "stage", "unpart", "move", "info", "undesktop", "unlock"}
  BY Zenon DEF StageStep, At, Gate, Stage, RemovePart, RemoveOldEntry, MoveToTrash, WriteInfo,
     RemoveDesktop, RemoveFromLock
<1>2. work # Idle
  BY <1>1 DEF Idle
<1>3. /\ Job.kind \in {"upgrade", "uninstall"}
      /\ work.at \in {"undesktop", "unlock"} => Job.kind = "uninstall"
  BY <1>1, <1>2, Running, KindsAtSteps DEF TypeOK
<1>4. App \in Apps
  BY <1>2, <1>3, Running, Zenon DEF TypeOK
<1> QED
  BY <1>1, <1>2, <1>3, <1>4, Zenon

LEMMA StaysOnIt ==
  ASSUME TypeOK, NEW a \in Apps, OnIt(a), UNCHANGED jobs, work'.job = work.job, work'.at # "idle"
  PROVE  OnIt(a)' /\ Job' = Job
<1>1. work' # Idle
  BY DEF Idle
<1> QED
  BY <1>1, SameJob, Zenon DEF OnIt

\* The worker is at another app, or at none, before and after its step.
LEMMA OthersSurvive ==
  ASSUME TypeOK, NEW a \in Apps, Lives(a), trouble' <= 1,
         \/ InstallStep /\ a # App
         \/ StageStep /\ a # App
         \/ FlatStep \/ \E id \in DOMAIN jobs : Take(id)
  PROVE  Lives(a)'
<1>0. trouble \in Nat /\ MoreTrouble
  BY WorkerHistory, Zenon DEF TypeOK, DiskTypes, Worker
<1>1. CASE \E id \in DOMAIN jobs : Take(id)
  <2>1. PICK id \in DOMAIN jobs : Take(id)
    BY <1>1, Zenon
  <2>2. SameHome(a)
    BY <2>1, TakeFrame, Zenon DEF SameHome
  <2>3. Untouched(a)
    BY <2>1, Zenon DEF Take, Untouched, OnIt
  <2>4. Untouched(a)'
    <3>1. work'.job = id /\ work'.at = FirstStep(jobs[id].kind)
      BY <2>1, Zenon DEF Take, Idle
    <3>2. Job' = [jobs[id] EXCEPT !.state = "running"] /\ jobs[id] \in JobType
      <4>1. jobs \in Seq(JobType)
        BY Zenon DEF TypeOK, QueueTypes
      <4>2. jobs' = [jobs EXCEPT ![id].state = "running"]
        BY <2>1, Zenon DEF Take
      <4>3. jobs[id] \in JobType
        BY <4>1
      <4>4. jobs'[id] = [jobs[id] EXCEPT !.state = "running"]
        BY <4>2
      <4> QED
        BY <3>1, <4>3, <4>4, Zenon DEF Job
    <3>3. Job'.kind = jobs[id].kind
      BY <3>2, Zenon DEF JobType
    <3>4. /\ FirstStep("install") = "open" /\ FirstStep("upgrade") = "gate"
          /\ FirstStep("uninstall") = "stage"
      BY Zenon DEF FirstStep
    <3>5. CASE Job'.kind = "install"
      BY <3>1, <3>3, <3>4, <3>5, Zenon DEF Untouched
    <3>6. CASE Job'.kind \in {"upgrade", "uninstall"}
      BY <3>1, <3>3, <3>4, <3>6, Zenon DEF Untouched
    <3>7. CASE Job'.kind \notin {"install", "upgrade", "uninstall"}
      BY <3>7, Zenon DEF Untouched, OnIt
    <3> QED
      BY <3>5, <3>6, <3>7, Zenon
  <2> QED
    BY <1>0, <2>2, <2>3, <2>4, StillResting, Zenon
<1>2. CASE (InstallStep \/ StageStep \/ FlatStep) /\ ~(\E id : Take(id))
  <2>1. SameHome(a)
    BY <1>1, <1>2, HomesElsewhere, FlatFrame, Zenon DEF SameHome
  <2>2. ASSUME FlatStep
        PROVE  Job.kind \notin {"install", "upgrade", "uninstall"}
    <3>1. work.at \in {"pull", "profile", "drop", "unprofile", "examine", "deploy"}
      BY <2>2, Zenon DEF FlatStep, At, FlatInstall, FlatProfile, FlatRemove, FlatUnprofile,
         FlatExamine, FlatDeploy
    <3>2. work # Idle
      BY <3>1 DEF Idle
    <3> QED
      BY <3>1, <3>2, Running, KindsAtSteps DEF TypeOK
  <2>3. App # a \/ Job.kind \notin {"install", "upgrade", "uninstall"}
    BY <1>1, <1>2, <2>2, Zenon
  <2>4. Untouched(a)
    BY <2>3, Zenon DEF Untouched, OnIt
  <2>5. work' = Idle \/ (Job' = Job /\ App' = App) \/ (work = Idle /\ UNCHANGED work)
    <3>1. \/ work' = Idle
          \/ UNCHANGED work /\ (work # Idle => Job' = Job)
          \/ work'.job = work.job /\ UNCHANGED jobs
      BY <1>2, Moves, Zenon DEF Next, Worker
    <3> QED
      BY <3>1, SameJob, Zenon DEF App, Pkg
  <2>6. Untouched(a)'
    BY <2>3, <2>5, Zenon DEF Untouched, OnIt
  <2> QED
    BY <1>0, <2>1, <2>4, <2>6, StillResting, Zenon
<1>3. CASE (InstallStep \/ StageStep \/ FlatStep) /\ (\E id : Take(id))
  BY <1>1, <1>3, Zenon DEF Take
<1> QED
  BY <1>1, <1>2, <1>3, Zenon

\* An install or an upgrade of the app: an upgrade fails only with the old
\* version staged, and an install only begins when it is in the trash already.
LEMMA InstallSurvives ==
  ASSUME TypeOK, Placed, InstallStep, ~Record, Lives(App), trouble' <= 1
  PROVE  \A a \in Apps : a = App => Lives(a)'
<1> SUFFICES ASSUME NEW a \in Apps, a = App
    PROVE  Lives(a)'
  BY Zenon
<1>0. /\ dir \in [Apps -> Dir] /\ work \in WorkType /\ trouble \in Nat
      /\ UNCHANGED trash /\ (Trashed(a)' <=> Trashed(a)) /\ Lives(a)
  BY InstallFrame, Zenon DEF TypeOK, DiskTypes, QueueTypes, Trashed
<1>1. OnIt(a) /\ Job.kind \in {"install", "upgrade"} /\ work.at \in {"open", "mkdir"} \cup Building
  BY AtInstall, Zenon DEF OnIt
<1>2. ASSUME NEW step, Goto(step), step # "idle"
      PROVE  OnIt(a)' /\ Job' = Job /\ work'.at = step
  <2>1. work'.job = work.job /\ work'.at = step /\ UNCHANGED jobs
    BY <1>0, <1>2, Zenon DEF Goto, WorkType
  <2> QED
    BY <1>1, <1>2, <2>1, StaysOnIt, Zenon
<1>3. ASSUME work.at \in Building \ {"rollback"}, OnIt(a)', Job' = Job,
             work'.at \in Building \ {"rollback"}, trouble' = trouble
      PROVE  Lives(a)'
  <2>1. ~Untouched(a) /\ ~Untouched(a)'
    BY <1>1, <1>3 DEF Untouched, Building
  <2>2. /\ work'.at \notin {"unpart", "move", "info", "open", "mkdir"}
        /\ work'.at \in Building
    BY <1>3 DEF Building
  <2>3. /\ Trashed(a) \/ (trouble = 1 /\ Job.kind = "upgrade")
        /\ Job.kind = "install" => trouble = 1
    BY <1>0, <1>3, <2>1, Zenon DEF Lives
  <2> QED
    BY <1>0, <1>1, <1>3, <2>1, <2>2, <2>3, Zenon DEF Lives
<1>4. ASSUME work.at \in Building, work.at = "rollback" => trouble' = trouble,
             work.at # "rollback" => Fault
      PROVE  trouble' = 1 /\ Trashed(a)'
  <2>1. ~Untouched(a)
    BY <1>1, <1>4 DEF Untouched, Building
  <2>2. CASE work.at = "rollback"
    BY <1>0, <1>4, <2>1, <2>2, Zenon DEF Lives
  <2>3. CASE work.at # "rollback"
    <3>1. trouble = 0 /\ trouble' = 1
      BY <1>0, <1>4, <2>3 DEF Fault
    <3> QED
      BY <1>0, <1>4, <2>1, <3>1 DEF Lives
  <2> QED
    BY <2>2, <2>3, Zenon
<1>5. ASSUME OnIt(a)', work'.at = "rollback", Job' = Job, trouble' = 1, Trashed(a)'
      PROVE  Lives(a)'
  <2>1. ~Untouched(a)'
    BY <1>5 DEF Untouched
  <2> QED
    BY <1>1, <1>5, <2>1, Zenon DEF Lives
<1>6. CASE OpenPackage
  <2>0. SameHome(a)
    BY <1>6, Zenon DEF OpenPackage, disk, SameHome
  <2>1. CASE Goto("mkdir") /\ Fine
    <3>1. OnIt(a)' /\ Job' = Job /\ work'.at = "mkdir" /\ work.at = "open" /\ trouble' = trouble
      BY <1>2, <1>6, <2>1, Zenon DEF OpenPackage, At, Fine
    <3>2. CASE Job.kind = "install"
      BY <1>0, <2>0, <3>1, <3>2, StillResting, Zenon DEF Untouched, MoreTrouble
    <3>3. CASE Job.kind = "upgrade"
      <4>1. ~Untouched(a) /\ ~Untouched(a)'
        BY <1>1, <3>1, <3>3, Zenon DEF Untouched
      <4>2. ~dir'[a].there /\ (trouble' = 1 \/ Trashed(a)')
        BY <1>0, <2>0, <3>1, <4>1, Zenon DEF Lives, SameHome
      <4> QED
        BY <3>1, <3>3, <4>1, <4>2, Zenon DEF Lives, Building
    <3> QED
      BY <1>1, <3>2, <3>3, Zenon
  <2>2. CASE Job.kind = "install" /\ Ends("failed") /\ Fine
    <3>1. Untouched(a) /\ Untouched(a)'
      BY <1>6, <2>2, Zenon DEF OpenPackage, At, Untouched, OnIt, Ends
    <3> QED
      BY <1>0, <2>0, <2>2, <3>1, StillResting, Zenon DEF MoreTrouble, Fine
  <2>3. CASE Ends("failed") /\ Fault
    BY <1>0, <2>0, <2>3, FailsSafely, Zenon DEF Ends, Fault
  <2> QED
    BY <1>6, <2>1, <2>2, <2>3, Zenon DEF OpenPackage
<1>7. CASE MakeDir
  <2>1. work.at = "mkdir" /\ trouble' = trouble
    BY <1>7, Zenon DEF MakeDir, At, Fine
  <2>2. CASE dir[a].there
    <3>1. work' = Idle /\ SameHome(a)
      BY <1>7, <2>2, Zenon DEF MakeDir, Ends, SameHome
    <3>2. Untouched(a)
      BY <1>0, <1>1, <2>1, <2>2, Zenon DEF Lives
    <3>3. Untouched(a)'
      BY <3>1, Zenon DEF Untouched, OnIt
    <3> QED
      BY <1>0, <2>1, <3>1, <3>2, <3>3, StillResting, Zenon DEF MoreTrouble
  <2>3. CASE ~dir[a].there
    <3>1. OnIt(a)' /\ Job' = Job /\ work'.at = "copy"
      BY <1>2, <1>7, <2>3, Zenon DEF MakeDir
    <3>2. ~Here(a)
      BY <2>3, DirTypes, Zenon DEF Placed, AbsentIsEmpty, Here
    <3>3. /\ Job.kind = "install" => trouble = 1 /\ Trashed(a)
          /\ Job.kind = "upgrade" => trouble = 1 \/ Trashed(a)
      <4>1. CASE Job.kind = "install"
        BY <1>0, <2>1, <3>2, <4>1, Zenon DEF Lives, Untouched
      <4>2. CASE Job.kind = "upgrade"
        <5>1. ~Untouched(a)
          BY <1>1, <2>1, <4>2, Zenon DEF Untouched
        <5> QED
          BY <1>0, <2>1, <4>2, <5>1, Zenon DEF Lives
      <4> QED
        BY <1>1, <4>1, <4>2, Zenon
    <3>4. ~Untouched(a)'
      BY <3>1, Zenon DEF Untouched
    <3> QED
      BY <1>0, <1>1, <2>1, <3>1, <3>3, <3>4, Zenon DEF Lives, Building
  <2> QED
    BY <2>2, <2>3, Zenon
<1>8. CASE CopyFiles \/ CopyManifest
  <2>1. work.at \in Building \ {"rollback"} /\ After("files") = "schemas"
    BY <1>8, Afters DEF CopyFiles, CopyManifest, At, Building
  <2>2. CASE Fault /\ Ends("failed")
    <3>1. trouble' = 1 /\ Trashed(a)' /\ work' = Idle
      BY <1>4, <2>1, <2>2, Zenon DEF Ends
    <3> QED
      BY <3>1, RestsIdle, Zenon
  <2>3. CASE Goto("files") /\ Fine
    BY <1>2, <1>3, <2>1, <2>3 DEF Fine, Building
  <2>4. CASE work' = [work EXCEPT !.at = After("files"), !.todo = {"files"}] /\ UNCHANGED jobs /\ Fine
    <3>1. work'.job = work.job /\ work'.at = "schemas"
      BY <1>0, <2>1, <2>4, Zenon DEF WorkType
    <3>2. OnIt(a)' /\ Job' = Job
      BY <1>1, <2>4, <3>1, StaysOnIt
    <3> QED
      BY <1>3, <2>1, <2>4, <3>1, <3>2 DEF Fine, Building
  <2> QED
    BY <1>8, <2>2, <2>3, <2>4, Zenon DEF CopyFiles, CopyManifest
<1>9. ASSUME NEW part \in Parts, PutPart(part)
      PROVE  Lives(a)'
  <2>1. work.at = part /\ trouble' = trouble /\ UNCHANGED jobs
    BY <1>9, Zenon DEF PutPart, At, Fine
  <2>2. work'.job = work.job /\ work'.at = After(part)
    BY <1>0, <1>9, Zenon DEF PutPart, WorkType
  <2>3. part \in Building \ {"rollback"} /\ After(part) \in Building \ {"rollback"}
    BY Afters DEF Parts, Building
  <2>4. OnIt(a)' /\ Job' = Job
    <3>1. After(part) # "idle"
      BY <2>3 DEF Building
    <3> QED
      BY <1>1, <2>1, <2>2, <3>1, StaysOnIt, Zenon
  <2> QED
    BY <1>3, <2>1, <2>2, <2>3, <2>4, Zenon
<1>10. ASSUME NEW part \in Parts, PartFails(part)
       PROVE  Lives(a)'
  <2>1. work.at = part /\ Fault /\ Goto("rollback")
    BY <1>10, Zenon DEF PartFails, At
  <2>2. part \in Building \ {"rollback"}
    BY DEF Parts, Building
  <2>3. trouble' = 1 /\ Trashed(a)'
    BY <1>4, <2>1, <2>2, Zenon
  <2>4. OnIt(a)' /\ Job' = Job /\ work'.at = "rollback"
    BY <1>2, <2>1, Zenon
  <2> QED
    BY <1>5, <2>3, <2>4, Zenon
<1>11. CASE DesktopEntry
  <2>1. work.at = "desktop" /\ "desktop" \in Building \ {"rollback"} /\ "record" \in Building \ {"rollback"}
    BY <1>11, Zenon DEF DesktopEntry, At, Building
  <2>2. CASE Goto("record") /\ Fine
    BY <1>2, <1>3, <2>1, <2>2, Zenon DEF Fine
  <2>3. CASE Goto("rollback") /\ Fault
    <3>1. trouble' = 1 /\ Trashed(a)'
      BY <1>4, <2>1, <2>3, Zenon
    <3> QED
      BY <1>2, <1>5, <2>3, <3>1, Zenon
  <2> QED
    BY <1>11, <2>2, <2>3, Zenon DEF DesktopEntry
<1>12. CASE Rollback \/ RolledBack
  <2>1. work.at = "rollback" /\ trouble' = trouble
    BY <1>12, Zenon DEF Rollback, RolledBack, At, Fine
  <2>2. trouble' = 1 /\ Trashed(a)'
    <3>1. "rollback" \in Building
      BY DEF Building
    <3> QED
      BY <1>4, <2>1, <3>1, Zenon
  <2>3. CASE RolledBack
    BY <2>2, <2>3, RestsIdle, Zenon DEF RolledBack, Ends
  <2>4. CASE Rollback
    <3>1. work'.job = work.job /\ work'.at = "rollback" /\ UNCHANGED jobs
      BY <1>0, <2>1, <2>4, Zenon DEF Rollback, WorkType
    <3> QED
      BY <1>1, <1>5, <2>2, <3>1, StaysOnIt
  <2> QED
    BY <1>12, <2>3, <2>4, Zenon
<1> QED
  BY <1>6, <1>7, <1>8, <1>9, <1>10, <1>11, <1>12, Zenon DEF InstallStep

\* An install or upgrade that is recorded has its version in place.
LEMMA RecordSurvives ==
  ASSUME TypeOK, Placed, Record
  PROVE  \A a \in Apps : a = App => Lives(a)'
<1> SUFFICES ASSUME NEW a \in Apps, a = App
    PROVE  Lives(a)'
  BY Zenon
<1>1. dir[a].manifest = Pkg /\ Pkg # NoPackage
  <2>1. Pkg # NoPackage
    BY AtApp DEF Record
  <2> QED
    BY <2>1 DEF Record, At, Placed, Placing
<1>2. Here(a)' /\ work' = Idle
  BY <1>1, Zenon DEF Record, Ends, Here
<1> QED
  BY <1>2, RestsIdle, Zenon

\* Staging for an upgrade moves the version to the trash before anything else
\* touches it; staging for an uninstall is what the user asked for.
LEMMA StageSurvives ==
  ASSUME TypeOK, Placed, StageStep, Lives(App), had'[App], trouble' <= 1
  PROVE  \A a \in Apps : a = App => Lives(a)'
<1> SUFFICES ASSUME NEW a \in Apps, a = App
    PROVE  Lives(a)'
  BY Zenon
<1>0. /\ dir \in [Apps -> Dir] /\ trash \in [Apps -> Dir] /\ work \in WorkType /\ trouble \in Nat
      /\ had \in [Apps -> BOOLEAN] /\ Lives(a) /\ MoreTrouble
  BY WorkerHistory, Zenon DEF TypeOK, DiskTypes, QueueTypes, Worker
<1>1. /\ OnIt(a) /\ Job.kind \in {"upgrade", "uninstall"}
      /\ work.at \in {"undesktop", "unlock"} => Job.kind = "uninstall"
  BY AtStage, Zenon DEF OnIt
<1>2. ASSUME NEW step, Goto(step), step # "idle"
      PROVE  OnIt(a)' /\ Job' = Job /\ work'.at = step
  <2>1. work'.job = work.job /\ work'.at = step /\ UNCHANGED jobs
    BY <1>0, <1>2, Zenon DEF Goto, WorkType
  <2> QED
    BY <1>1, <1>2, <2>1, StaysOnIt, Zenon
<1>3. ASSUME work.at \notin {"gate", "stage"}
      PROVE  ~Untouched(a) /\ Job.kind = "upgrade"
  <2>1. ~Untouched(a)
    BY <1>1, <1>3, Zenon DEF Untouched
  <2> QED
    BY <1>0, <1>1, <2>1, Zenon DEF Lives
<1>4. trouble = 1 => trouble' = 1
  BY <1>0 DEF MoreTrouble
<1>5. CASE Gate
  <2>1. SameHome(a) /\ Untouched(a)
    BY <1>5, Zenon DEF Gate, disk, SameHome, Untouched, At
  <2>2. Untouched(a)'
    <3>1. CASE Goto("stage")
      BY <1>2, <3>1, Zenon DEF Untouched
    <3>2. CASE Ends("failed")
      BY <3>2, Zenon DEF Untouched, OnIt, Ends
    <3> QED
      BY <1>5, <3>1, <3>2, Zenon DEF Gate
  <2> QED
    BY <1>0, <2>1, <2>2, StillResting, Zenon
<1>6. CASE Stage
  <2>1. SameHome(a) /\ Untouched(a)
    BY <1>6, Zenon DEF Stage, disk, SameHome, Untouched, At
  <2>2. CASE ~dir[a].there
    <3>1. Untouched(a)'
      BY <1>6, <2>2, Zenon DEF Stage, Ends, Untouched, OnIt
    <3> QED
      BY <1>0, <2>1, <3>1, StillResting, Zenon
  <2>3. CASE dir[a].there
    <3>1. Job.kind = "upgrade"
      BY <1>0, <1>6, <2>3, Zenon DEF Stage
    <3>2. work'.job = work.job /\ work'.at = "unpart" /\ UNCHANGED jobs
      BY <1>0, <1>6, <2>3, Zenon DEF Stage, WorkType
    <3>3. OnIt(a)' /\ Job' = Job
      BY <1>1, <3>2, StaysOnIt
    <3>4. trouble' = 1 \/ Here(a)'
      BY <1>0, <1>4, <2>1, Zenon DEF Lives, Here, SameHome
    <3>5. ~Untouched(a)'
      BY <3>1, <3>2, <3>3, Zenon DEF Untouched
    <3> QED
      BY <3>1, <3>2, <3>3, <3>4, <3>5 DEF Lives, Building
  <2> QED
    BY <2>2, <2>3, Zenon
<1>7. CASE RemovePart
  <2>1. SameHome(a) /\ work.at = "unpart"
    BY <1>7, Zenon DEF RemovePart, SameHome, At
  <2>2. work'.job = work.job /\ work'.at = "unpart" /\ UNCHANGED jobs
    BY <1>0, <1>7, <2>1, Zenon DEF RemovePart, WorkType
  <2>3. OnIt(a)' /\ Job' = Job
    BY <1>1, <2>2, StaysOnIt
  <2>4. Job.kind = "upgrade" /\ (trouble' = 1 \/ Here(a)')
    BY <1>0, <1>3, <1>4, <2>1, Zenon DEF Lives, Here, SameHome
  <2>5. ~Untouched(a)'
    BY <2>2, <2>3, <2>4, Zenon DEF Untouched
  <2> QED
    BY <2>2, <2>3, <2>4, <2>5 DEF Lives, Building
<1>8. CASE RemoveOldEntry
  <2>1. work.at = "unpart" /\ UNCHANGED dir
    BY <1>8, Zenon DEF RemoveOldEntry, At
  <2>2. CASE Goto("move")
    <3>1. OnIt(a)' /\ Job' = Job /\ work'.at = "move"
      BY <1>2, <2>2, Zenon
    <3>2. Job.kind = "upgrade" /\ (trouble' = 1 \/ Here(a)')
      BY <1>0, <1>3, <1>4, <2>1, Zenon DEF Lives, Here
    <3>3. ~Untouched(a)'
      BY <3>1, <3>2, Zenon DEF Untouched
    <3> QED
      BY <3>1, <3>2, <3>3 DEF Lives, Building
  <2>3. CASE UNCHANGED trash /\ Ends("failed") /\ Fault
    BY <1>0, <2>1, <2>3, FailsSafely, Zenon DEF SameHome, Ends, Fault
  <2> QED
    BY <1>8, <2>2, <2>3, Zenon DEF RemoveOldEntry
<1>9. CASE MoveToTrash
  <2>1. work.at = "move" /\ dir[a].there
    BY <1>9, Zenon DEF MoveToTrash, At, Placed, Staging
  <2>2. CASE /\ trash' = [trash EXCEPT ![a] = dir[a]]
             /\ dir' = [dir EXCEPT ![a] = Nowhere]
             /\ Goto("info")
    <3>1. OnIt(a)' /\ Job' = Job /\ work'.at = "info"
      BY <1>2, <2>2, Zenon
    <3>2. Job.kind = "upgrade" /\ (trouble' = 1 \/ Here(a))
      BY <1>0, <1>3, <1>4, <2>1, Zenon DEF Lives
    <3>3. dir'[a] = Nowhere /\ trash'[a] = dir[a]
      BY <1>0, <2>2, Zenon
    <3>4. ~dir'[a].there /\ trash'[a].there /\ (trouble' = 1 \/ Trashed(a)')
      BY <2>1, <3>2, <3>3, DirTypes, Zenon DEF Here, Trashed
    <3>5. ~Untouched(a)'
      BY <3>1, <3>2, Zenon DEF Untouched
    <3> QED
      BY <3>1, <3>2, <3>4, <3>5 DEF Lives, Building
  <2>3. CASE UNCHANGED <<dir, trash>> /\ Ends("failed") /\ Fault
    BY <1>0, <2>3, FailsSafely, Zenon DEF SameHome, Ends, Fault
  <2> QED
    BY <1>9, <2>2, <2>3, Zenon DEF MoveToTrash
<1>10. CASE WriteInfo
  <2>1. work.at = "info" /\ UNCHANGED dir
    BY <1>10, Zenon DEF WriteInfo, At
  <2>2. /\ Job.kind = "upgrade" /\ trash[a].there
        /\ ~dir[a].there /\ (trouble = 1 \/ Trashed(a))
    BY <1>0, <1>3, <2>1, Zenon DEF Lives
  <2>3. CASE trash' = [trash EXCEPT ![a].info = "fresh"] /\ Goto("open")
    <3>1. OnIt(a)' /\ Job' = Job /\ work'.at = "open"
      BY <1>2, <2>3, Zenon
    <3>2. trash'[a] = [trash[a] EXCEPT !.info = "fresh"]
      BY <1>0, <2>3, Zenon
    <3>3. trash'[a].manifest = trash[a].manifest
      BY <1>0, <3>2 DEF Dir
    <3>4. ~dir'[a].there /\ (trouble' = 1 \/ Trashed(a)')
      BY <1>4, <2>1, <2>2, <3>3, Zenon DEF Trashed
    <3>5. ~Untouched(a)'
      BY <2>2, <3>1, Zenon DEF Untouched
    <3> QED
      BY <2>2, <3>1, <3>4, <3>5 DEF Lives, Building
  <2>4. CASE UNCHANGED trash /\ Ends("failed") /\ Fault
    BY <1>0, <2>1, <2>4, FailsSafely, Zenon DEF SameHome, Ends, Fault
  <2> QED
    BY <1>10, <2>2, <2>3, <2>4, Zenon DEF WriteInfo
<1>11. CASE RemoveDesktop \/ RemoveFromLock
  <2>1. work.at \in {"undesktop", "unlock"}
    BY <1>11, Zenon DEF RemoveDesktop, RemoveFromLock, At
  <2> QED
    BY <1>1, <1>3, <2>1
<1> QED
  BY <1>5, <1>6, <1>7, <1>8, <1>9, <1>10, <1>11, Zenon DEF StageStep

LEMMA SurvivalStays ==
  ASSUME TypeOK, Placed, Survival, [Next]_installVars
  PROVE  Survival'
<1>1. CASE Requests \/ Calls \/ Outside \/ UNCHANGED installVars
  BY <1>1, OutsideSurvives, Zenon
<1>2. CASE Worker
  <2> SUFFICES ASSUME NEW a \in Apps, had'[a], ~raced'[a], trouble' <= 1
      PROVE  Lives(a)'
    BY Zenon DEF Survival
  <2>0. had \in [Apps -> BOOLEAN] /\ trouble \in Nat
    BY Zenon DEF TypeOK, DiskTypes
  <2>1. MoreTrouble /\ UNCHANGED raced
    BY <1>2, WorkerHistory, Zenon
  <2>2. trouble <= 1
    BY <2>0, <2>1 DEF MoreTrouble
  <2>3. CASE Record /\ a = App
    BY <2>3, RecordSurvives, Zenon
  <2>4. CASE ~(Record /\ a = App)
    <3>1. had[a]
      BY <1>2, <2>0, <2>4, WorkerHistory, Zenon DEF Record, Stage
    <3>2. Lives(a)
      BY <2>1, <2>2, <3>1, Zenon DEF Survival
    <3>3. CASE InstallStep /\ a = App
      BY <2>4, <3>2, <3>3, InstallSurvives, Zenon
    <3>4. CASE StageStep /\ a = App
      BY <3>2, <3>4, StageSurvives, Zenon
    <3> QED
      BY <1>2, <3>2, <3>3, <3>4, OthersSurvive, Zenon DEF Worker
  <2> QED
    BY <2>3, <2>4, Zenon
<1> QED
  BY <1>1, <1>2, Zenon DEF Next
-----------------------------------------------------------------------------
(***************************************************************************)
(* The theorems.                                                           *)
(***************************************************************************)
IInv == TypeOK /\ Asked /\ Placed /\ Dropped

LEMMA InitHolds == Init => IInv
<1> SUFFICES ASSUME Init
    PROVE  IInv
  BY Zenon
<1>1. DiskTypes
  <2>1. Len(FlatContext) \in Nat \ {0}
    BY SMTT(15), FlatAssumption
  <2>2. flat \in [commit : 0 .. Len(FlatContext), asked : SUBSET Caps,
                  profile : {"none", "default", "edited"}] /\ head \in 1 .. Len(FlatContext)
    <3>1. flat = [commit |-> 0, profile |-> "none", asked |-> {}] /\ head = 1
      BY Zenon DEF Init
    <3> QED
      BY <2>1, <3>1
  <2>3. lock \in [Apps -> [known : BOOLEAN, caps : SUBSET Caps]]
    BY LockEntries, Zenon DEF Init
  <2>4. dir \in [Apps -> Dir] /\ trash \in [Apps -> Dir]
    BY DirTypes, Zenon DEF Init
  <2>5. desktop \in [Apps -> BOOLEAN] /\ had \in [Apps -> BOOLEAN] /\ raced \in [Apps -> BOOLEAN]
    BY Zenon DEF Init
  <2> QED
    BY <2>2, <2>3, <2>4, <2>5, Zenon DEF Init, DiskTypes
<1>2. QueueTypes
  <2>1. jobs = <<>> /\ work = Idle
    BY Zenon DEF Init
  <2> QED
    BY <2>1, IdleWork DEF QueueTypes
<1>3. Asked
  <2>1. /\ jobs = <<>> /\ work = Idle /\ dir = [a \in Apps |-> Nowhere]
        /\ trash = [a \in Apps |-> Nowhere] /\ lock = [a \in Apps |-> Unlocked]
        /\ flat = [commit |-> 0, profile |-> "none", asked |-> {}]
    BY Zenon DEF Init
  <2>2. Chosen
    BY <2>1 DEF Chosen
  <2>3. Cleared
    BY <2>1 DEF Cleared, Idle
  <2>4. NothingUnasked
    BY <2>1, DirTypes DEF NothingUnasked, Unlocked
  <2> QED
    BY <2>2, <2>3, <2>4, Zenon DEF Asked
<1>4. Placed
  BY DirTypes, Zenon DEF Init, Placed, AbsentIsEmpty, PartsAreNamed, Unpacking, Placing, Undoing,
     Staging, Idle, Parts
<1>5. Dropped
  BY Zenon DEF Init, Dropped, Idle
<1> QED
  BY <1>1, <1>2, <1>3, <1>4, <1>5 DEF IInv, TypeOK

LEMMA NextHolds ==
  ASSUME IInv, [Next]_installVars
  PROVE  IInv'
<1>1. TypeOK'
  BY NextTypes, Zenon DEF IInv, Placed
<1>2. Asked'
  BY <1>1, AskedStays, Zenon DEF IInv
<1>3. Placed'
  BY PlacedStays, Zenon DEF IInv
<1>4. Dropped'
  BY DroppedStays, Zenon DEF IInv
<1> QED
  BY <1>1, <1>2, <1>3, <1>4, Zenon DEF IInv

LEMMA IInvAlways == Spec => []IInv
<1>1. IInv /\ [Next]_installVars => IInv'
  BY NextHolds, Zenon
<1> QED
  BY <1>1, InitHolds, PTL DEF Spec

\* The files of the install daemon have their types, and its queue and its
\* worker agree on what is running (JobQueue, run_worker), for any apps,
\* packages and number of jobs.
THEOREM InstallTypes == Spec => []TypeOK
<1>1. IInv => TypeOK
  BY Zenon DEF IInv
<1> QED
  BY <1>1, IInvAlways, PTL

\* No version reaches the disk, the trash or the lock with more high-impact
\* reach than somebody once chose to install (upgrade_gate, record_in_lock,
\* restore_app, run_update_flatpak).
THEOREM InstallStaysWithinAsked == Spec => []NothingUnasked
<1>1. IInv => NothingUnasked
  BY Zenon DEF IInv, Asked
<1> QED
  BY <1>1, IInvAlways, PTL

\* Everything an app has outside its directory is named by the manifest inside
\* it, but for what a failed step left (InstallTransaction, stage_for_deletion).
THEOREM InstallPartsAreNamed == Spec => []PartsAreNamed
<1>1. IInv => PartsAreNamed
  BY Zenon DEF IInv, Placed
<1> QED
  BY <1>1, IInvAlways, PTL

\* A job that is marked completed has done its work, whatever RestoreApp and
\* CleanupTrash do beside it (run_install_package, run_uninstall).
THEOREM InstallReportsTruly == Spec => CompletedIsDone
<1>1. IInv /\ [Next]_installVars =>
        [\A id \in DOMAIN jobs :
           jobs[id].state = "running" /\ jobs'[id].state = "completed" =>
             LET p == jobs[id].pkg IN
             /\ jobs[id].kind \in {"install", "upgrade"} =>
                   /\ dir'[p.app].manifest = p /\ p \in dir'[p.app].files
                   /\ p.parts \subseteq parts'[p.app] /\ desktop'[p.app]
             /\ jobs[id].kind = "uninstall" =>
                   parts'[p.app] \subseteq stray'[p.app]]_installVars
  BY CompletedStep, Zenon DEF IInv
<1> QED
  BY <1>1, IInvAlways, PTL DEF Spec, CompletedIsDone

\* A profile that the user edited is kept until the Flatpak is uninstalled
\* (run_install_flatpak, run_uninstall_flatpak).
THEOREM InstallKeepsEdits == Spec => EditedProfileIsKept
<1>1. IInv /\ [Next]_installVars =>
        [flat.profile = "edited" /\ flat'.profile # "edited" =>
           flat.commit = 0 /\ Job.kind = "flatremove"]_installVars
  BY ProfileStep, Zenon DEF IInv
<1> QED
  BY <1>1, IInvAlways, PTL DEF Spec, EditedProfileIsKept

\* No single crash or failed step costs the user an app that nobody uninstalled,
\* unless a restore or a cleanup collided with the worker (run_upgrade,
\* stage_for_deletion, the rollback of InstallTransaction).
THEOREM InstallKeepsAVersion == Spec => []SomeVersionSurvives
<1>1. Init => Survival
  BY Zenon DEF Init, Survival
<1>2. IInv /\ Survival /\ [Next]_installVars => Survival'
  BY SurvivalStays, Zenon DEF IInv
<1>3. IInv /\ Survival => SomeVersionSurvives
  <2> SUFFICES ASSUME Survival, NEW a \in Apps, had[a] /\ ~raced[a] /\ trouble <= 1 /\ work = Idle
      PROVE  dir[a].manifest # NoPackage \/ trash[a].manifest # NoPackage
    BY Zenon DEF SomeVersionSurvives
  <2>1. Lives(a) /\ Untouched(a)
    BY Zenon DEF Survival, Untouched, OnIt
  <2> QED
    BY <2>1, Zenon DEF Lives, Here, Trashed
<1> QED
  BY <1>1, <1>2, <1>3, IInvAlways, PTL DEF Spec
=============================================================================
