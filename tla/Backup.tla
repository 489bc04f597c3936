------------------------------- MODULE Backup -------------------------------
(***************************************************************************)
(* services/backup.go and the backup half of backup_scheduler.go: create,  *)
(* restore, delete and prune, with the server process that reads and       *)
(* writes the same world directory.                                        *)
(*                                                                         *)
(* The world is one region file in two halves <<a, b>>, each holding the   *)
(* version the JVM last wrote there, 0 when it is missing; it is whole     *)
(* when both are of one version. The config files archived with it behave  *)
(* like it, but nothing is promised of them, and they are left out.        *)
(* Archives are named by the second they were begun in.                    *)
(***************************************************************************)
EXTENDS Naturals, FiniteSets, Sequences

CONSTANTS Job,      \* goroutines: requests and the scheduler
          Scheduler, \* the one that prunes after its backup
          None,
          Keep,     \* backup_config.keep
          MaxVersions, MaxSeconds, MaxConsole, MaxCrashes   \* bounds

ASSUME KeepAssumption == Keep \in Nat \ {0}
ASSUME BoundAssumption ==
  /\ MaxVersions \in Nat \ {0} /\ MaxSeconds \in Nat \ {0}
  /\ MaxConsole \in Nat \ {0} /\ MaxCrashes \in Nat

VARIABLES
  alive,     \* the JVM runs
  saveOn,    \* the JVM saves on its own
  console,   \* commands sent and not yet obeyed
  world,     \* the live world directory
  version,   \* the last version written
  archives,  \* the finished archive of each second, None without one
  clock,     \* the current second
  lock,      \* backupMu: the job that holds it
  job,       \* what each job is doing
  aside,     \* world.bak-<nanoseconds> of the restore in progress
  orphans,   \* the whole worlds in world.bak directories nobody will remove
  overlap,   \* history: a job held backupMu while the server saved as usual: it
             \* was started meanwhile, or the job took it for stopped, or it
             \* had not obeyed save-off when the two seconds were over
  wrecked,   \* history: a restore left the old world aside and no whole one in
             \* its place: the API died in the extraction or in the rollback,
             \* or the rollback could not remove or rename what it had to
  cut,       \* history: the API died, or its save-on got lost, while the JVM
             \* was told not to save
  crashes,   \* history: how often the API died at work
  thinned    \* history: an archive was deleted by hand since the last listing

server == <<alive, saveOn, console>>
disk == <<world, version>>
history == <<overlap, wrecked, cut, crashes, thinned>>
vars == <<server, disk, archives, clock, lock, job, aside, orphans, history>>

Half == 0 .. MaxVersions
World == Half \X Half

ASSUME NoneAssumption == None \notin Job /\ None \notin World

Absent == <<0, 0>>
Whole(w) == w[1] = w[2] /\ w # Absent
Second == 1 .. MaxSeconds

Idle == [pc |-> "idle", name |-> 0, paused |-> FALSE, zip |-> Absent, old |-> {}]

Creating == {"pause", "sleep", "zip1", "zip2", "rename", "resume"}
Restoring == {"aside", "extract1", "extract2", "rest", "putback"}
Pruning == {"list", "prune"}

Label == {"idle"} \cup Creating \cup Restoring \cup Pruning
Task == [pc : Label, name : {0} \cup Second, paused : BOOLEAN, zip : World,
         old : SUBSET Second]

\* Who works on the world holds backupMu; an archive that is restored has a name.
Jobs ==
  /\ job \in [Job -> Task]
  /\ \A j \in Job : /\ job[j].pc \in Creating \cup Restoring => lock = j
                    /\ job[j].pc \in Restoring => job[j].name # 0

TypeOK ==
  /\ alive \in BOOLEAN /\ saveOn \in BOOLEAN
  /\ console \in Seq({"pause", "resume"})
  /\ world \in World /\ version \in Half
  /\ archives \in [Second -> World \cup {None}]
  /\ clock \in Second
  /\ lock \in Job \cup {None}
  /\ Jobs
  /\ aside \in World /\ orphans \subseteq World
  /\ overlap \in BOOLEAN /\ wrecked \in BOOLEAN
  /\ cut \in BOOLEAN /\ thinned \in BOOLEAN
  /\ crashes \in 0 .. MaxCrashes

\* A server that has run once and is stopped
Init ==
  /\ alive = FALSE /\ saveOn = TRUE /\ console = <<>>
  /\ world = <<1, 1>> /\ version = 1
  /\ archives = [s \in Second |-> None] /\ clock = 1
  /\ lock = None /\ job = [j \in Job |-> Idle]
  /\ aside = Absent /\ orphans = {}
  /\ overlap = FALSE /\ wrecked = FALSE /\ cut = FALSE
  /\ crashes = 0 /\ thinned = FALSE

-----------------------------------------------------------------------------
(* The server *)

\* A JVM makes what it does not find of the world: one half here, the other
\* with SaveRest.
Launch ==
  /\ ~alive
  /\ alive' = TRUE /\ saveOn' = TRUE
  /\ IF world[1] = 0
     THEN /\ version < MaxVersions
          /\ version' = version + 1 /\ world' = <<version', world[2]>>
     ELSE UNCHANGED <<world, version>>
  /\ overlap' = (overlap \/ lock # None)
  /\ UNCHANGED <<console, archives, clock, lock, job, aside, orphans,
                 wrecked, cut, crashes, thinned>>

\* It stops having finished its writes; what it was still to read is lost. (One
\* killed within a write leaves a torn file of its own making, which no backup
\* could tell from a whole one; that is left out.)
Exit ==
  /\ alive
  /\ world[1] = world[2]
  /\ alive' = FALSE /\ console' = <<>>
  /\ cut' = FALSE
  /\ UNCHANGED <<saveOn, disk, archives, clock, lock, job, aside, orphans,
                 overlap, wrecked, crashes, thinned>>

SaveHalf ==
  /\ alive /\ saveOn
  /\ world[1] = world[2]
  /\ version < MaxVersions
  /\ version' = version + 1
  /\ world' = <<version', world[2]>>
  /\ UNCHANGED <<server, archives, clock, lock, job, aside, orphans, history>>

SaveRest ==
  /\ alive
  /\ world[1] # world[2]
  /\ world' = <<world[1], world[1]>>
  /\ UNCHANGED <<server, version, archives, clock, lock, job, aside,
                 orphans, history>>

\* save-off with save-all flush, or save-on
Obey ==
  /\ alive /\ console # <<>>
  /\ console' = Tail(console)
  /\ saveOn' = (Head(console) = "resume")
  /\ world' = IF Head(console) = "pause" THEN <<world[1], world[1]>> ELSE world
  /\ UNCHANGED <<alive, version, archives, clock, lock, job, aside,
                 orphans, history>>

ClockTicks ==
  /\ clock < MaxSeconds
  /\ clock' = clock + 1
  /\ UNCHANGED <<server, disk, archives, lock, job, aside, orphans, history>>

-----------------------------------------------------------------------------
(* CreateBackup *)

Goto(j, pc) == job' = [job EXCEPT ![j].pc = pc]

\* IsServerRunning takes a torn status.json for "not running", and an old one
\* for what was true when it was written.
Seen == BOOLEAN

\* Mutant of BeginCreate: a running server is not told to pause saving.
BeginCreateUnpaused(j) ==
  /\ job[j].pc = "idle" /\ lock = None
  /\ world # Absent
  /\ lock' = j
  /\ job' = [job EXCEPT ![j] = [Idle EXCEPT !.pc = "zip1"]]
  /\ UNCHANGED <<server, disk, archives, clock, aside, orphans, history>>

\* backupMu is taken, there is a world, and the server seems to run or not.
BeginCreate(j) ==
  /\ job[j].pc = "idle" /\ lock = None
  /\ world # Absent
  /\ lock' = j
  /\ \E running \in Seen :
       /\ job' = [job EXCEPT ![j] = [Idle EXCEPT
            !.pc = IF running THEN "pause" ELSE "zip1", !.paused = running]]
       /\ overlap' = (overlap \/ (alive /\ ~running))
  /\ UNCHANGED <<server, disk, archives, clock, aside, orphans, wrecked,
                 cut, crashes, thinned>>

\* SendCommand refuses a server that seems to be stopped; that is logged. What
\* is sent to one that is down is dropped by the supervisor.
Send(cmd, running) ==
  /\ Len(console) < MaxConsole
  /\ console' = IF running /\ alive THEN Append(console, cmd) ELSE console

PauseSaving(j) ==
  /\ job[j].pc = "pause"
  /\ \E running \in Seen :
       /\ Send("pause", running)
       /\ overlap' = (overlap \/ (alive /\ ~running))
  /\ Goto(j, "sleep")
  /\ UNCHANGED <<alive, saveOn, disk, archives, clock, lock, aside, orphans,
                 wrecked, cut, crashes, thinned>>

\* Two seconds are given to the JVM; nobody looks whether it has obeyed.
SleepOver(j) ==
  /\ job[j].pc = "sleep"
  /\ overlap' = (overlap \/ console # <<>>)
  /\ Goto(j, "zip1")
  /\ UNCHANGED <<server, disk, archives, clock, lock, aside, orphans,
                 wrecked, cut, crashes, thinned>>

\* The name is taken from the clock; then whatever files are there are read one
\* by one: half a world makes an archive like a whole one.
ZipHalf(j) ==
  /\ job[j].pc = "zip1" /\ world # Absent
  /\ job' = [job EXCEPT ![j].pc = "zip2", ![j].name = clock,
                        ![j].zip = <<world[1], 0>>]
  /\ UNCHANGED <<server, disk, archives, clock, lock, aside, orphans, history>>

ZipRest(j) ==
  /\ job[j].pc = "zip2"
  /\ job' = [job EXCEPT ![j].pc = "rename", ![j].zip = <<@[1], world[2]>>]
  /\ UNCHANGED <<server, disk, archives, clock, lock, aside, orphans, history>>

\* The archive gets its final name, in place of one with that name.
Finalize(j) ==
  /\ job[j].pc = "rename"
  /\ archives' = [archives EXCEPT ![job[j].name] = job[j].zip]
  /\ Goto(j, "resume")
  /\ UNCHANGED <<server, disk, clock, lock, aside, orphans, history>>

\* Reading or writing fails: the unfinished archive is removed.
CreateFails(j) ==
  /\ job[j].pc \in {"zip1", "zip2", "rename"}
  /\ job' = [job EXCEPT ![j].pc = "resume", ![j].name = 0]
  /\ UNCHANGED <<server, disk, archives, clock, lock, aside, orphans, history>>

\* Mutant of EndCreate: save-on is sent only when there is a new archive.
EndCreateAfterSuccess(j) ==
  /\ job[j].pc = "resume"
  /\ IF job[j].paused /\ job[j].name # 0 THEN Send("resume", alive) ELSE UNCHANGED console
  /\ lock' = None
  /\ job' = [job EXCEPT ![j] = Idle]
  /\ UNCHANGED <<alive, saveOn, disk, archives, clock, aside, orphans, history>>

\* The deferred save-on, then the deferred unlock. The scheduler goes on to
\* prune if there is a new backup.
EndCreate(j) ==
  /\ job[j].pc = "resume"
  /\ IF job[j].paused
     THEN \E running \in Seen :
            Send("resume", running) /\ cut' = (cut \/ (alive /\ ~running))
     ELSE UNCHANGED <<console, cut>>
  /\ lock' = None
  /\ job' = [job EXCEPT ![j] = [Idle EXCEPT
       !.pc = IF j = Scheduler /\ job[j].name # 0 THEN "list" ELSE "idle"]]
  /\ UNCHANGED <<alive, saveOn, disk, archives, clock, aside, orphans,
                 overlap, wrecked, crashes, thinned>>

-----------------------------------------------------------------------------
(* PruneBackups, without backupMu, and DeleteBackup, with it *)

Existing == {s \in Second : archives[s] # None}

\* Mutant of BeyondKeep: one archive too many.
BeyondKeepByOne ==
  {s \in Existing : Cardinality({t \in Existing : t > s}) >= Keep - 1}

\* What lies beyond the first Keep of ListBackups, newest first
BeyondKeep ==
  {s \in Existing : Cardinality({t \in Existing : t > s}) >= Keep}

ListOld(j) ==
  /\ job[j].pc = "list"
  /\ job' = [job EXCEPT ![j].pc = IF BeyondKeep = {} THEN "idle" ELSE "prune",
                        ![j].old = BeyondKeep]
  /\ thinned' = FALSE
  /\ UNCHANGED <<server, disk, archives, clock, lock, aside, orphans, overlap,
                 wrecked, cut, crashes>>

\* The newest of them goes first; one that cannot be removed stays.
RemoveOld(j) ==
  /\ job[j].pc = "prune"
  /\ \E s \in job[j].old :
       /\ \A t \in job[j].old : t <= s
       /\ archives' \in {archives, [archives EXCEPT ![s] = None]}
       /\ job' = [job EXCEPT ![j].pc = IF job[j].old = {s} THEN "idle" ELSE @,
                             ![j].old = @ \ {s}]
  /\ UNCHANGED <<server, disk, clock, lock, aside, orphans, history>>

DeleteBackup(s) ==
  /\ lock = None
  /\ archives[s] # None
  /\ archives' = [archives EXCEPT ![s] = None]
  /\ thinned' = TRUE
  /\ UNCHANGED <<server, disk, clock, lock, job, aside, orphans,
                 overlap, wrecked, cut, crashes>>

-----------------------------------------------------------------------------
(* RestoreBackup *)

\* The server seems to be stopped, and the archive is there.
BeginRestore(j, s) ==
  /\ job[j].pc = "idle" /\ lock = None
  /\ archives[s] # None
  /\ lock' = j
  /\ overlap' = (overlap \/ alive)
  /\ job' = [job EXCEPT ![j] = [Idle EXCEPT !.pc = "aside", !.name = s]]
  /\ UNCHANGED <<server, disk, archives, clock, aside, orphans, wrecked,
                 cut, crashes, thinned>>

\* Mutant of MoveAside: the old world is removed.
RemoveWorld(j) ==
  /\ job[j].pc = "aside"
  /\ aside' = Absent
  /\ world' = Absent
  /\ Goto(j, "extract1")
  /\ UNCHANGED <<server, version, archives, clock, lock, orphans, history>>

MoveAside(j) ==
  /\ job[j].pc = "aside"
  /\ aside' = world
  /\ world' = Absent
  /\ Goto(j, "extract1")
  /\ UNCHANGED <<server, version, archives, clock, lock, orphans, history>>

MoveAsideFails(j) ==
  /\ job[j].pc = "aside"
  /\ lock' = None
  /\ job' = [job EXCEPT ![j] = Idle]
  /\ UNCHANGED <<server, disk, archives, clock, aside, orphans, history>>

\* A file that is not in the archive leaves what lies in its place.
Onto(new, old) == IF new = 0 THEN old ELSE new

\* The archive is opened here; pruning may have removed it.
ExtractHalf(j) ==
  /\ job[j].pc = "extract1"
  /\ LET zip == archives[job[j].name] IN
     /\ zip # None
     /\ world' = <<Onto(zip[1], world[1]), world[2]>>
     /\ job' = [job EXCEPT ![j].pc = "extract2", ![j].zip = zip]
  /\ UNCHANGED <<server, version, archives, clock, lock, aside, orphans, history>>

ExtractRest(j) ==
  /\ job[j].pc = "extract2"
  /\ world' = <<world[1], Onto(job[j].zip[2], world[2])>>
  /\ job' = [job EXCEPT ![j].pc = "rest", ![j].zip = Absent]
  /\ UNCHANGED <<server, version, archives, clock, lock, aside, orphans, history>>

\* What os.RemoveAll leaves of a directory: it may fail at any entry, and nobody
\* looks at its error.
Leavings(w) == {Absent, w, <<w[1], 0>>, <<0, w[2]>>}

Orphaned(w) == orphans' = orphans \cup {v \in {w} : Whole(v)}

\* The old world is removed, as far as that works.
EndRestore(j) ==
  /\ job[j].pc = "rest"
  /\ \E left \in Leavings(aside) : Orphaned(left)
  /\ aside' = Absent
  /\ lock' = None
  /\ job' = [job EXCEPT ![j] = Idle]
  /\ UNCHANGED <<server, disk, archives, clock, history>>

\* Any step of the extraction may fail; what it made is removed, as far as that
\* works. (Config files already extracted stay.)
RestoreFails(j) ==
  /\ job[j].pc \in {"extract1", "extract2", "rest"}
  /\ world' \in Leavings(world)
  /\ Goto(j, "putback")
  /\ UNCHANGED <<server, version, archives, clock, lock, aside, orphans, history>>

\* Mutant of PutBack: the old world stays aside.
PutBackNever(j) ==
  /\ job[j].pc = "putback"
  /\ Orphaned(aside)
  /\ aside' = Absent
  /\ lock' = None
  /\ job' = [job EXCEPT ![j] = Idle]
  /\ UNCHANGED <<server, disk, archives, clock, history>>

\* The old world is renamed back, which fails where anything is left, or where
\* a server has made a world of its own meanwhile, and may fail anyhow; nobody
\* looks at its error.
PutBack(j) ==
  /\ job[j].pc = "putback"
  /\ \/ world = Absent /\ world' = aside /\ UNCHANGED <<orphans, wrecked>>
     \/ Orphaned(aside) /\ wrecked' = TRUE /\ UNCHANGED world
  /\ aside' = Absent
  /\ lock' = None
  /\ job' = [job EXCEPT ![j] = Idle]
  /\ UNCHANGED <<server, version, archives, clock, overlap, cut, crashes, thinned>>

-----------------------------------------------------------------------------
\* The API process dies: nothing deferred runs, and nothing looks at the
\* directories aside when it starts again.
Crash ==
  /\ crashes < MaxCrashes
  /\ \E j \in Job : job[j].pc # "idle"
  /\ job' = [j \in Job |-> Idle]
  /\ lock' = None
  /\ Orphaned(aside)
  /\ aside' = Absent
  /\ wrecked' = (wrecked
       \/ \E j \in Job : job[j].pc \in {"extract1", "extract2", "putback"})
  /\ cut' = (cut \/ (alive /\ \E j \in Job : job[j].paused))
  /\ crashes' = crashes + 1
  /\ UNCHANGED <<server, disk, archives, clock, overlap, thinned>>

Next ==
  \/ Launch \/ Exit \/ SaveHalf \/ SaveRest \/ Obey \/ ClockTicks
  \/ \E j \in Job :
       \/ BeginCreate(j) \/ PauseSaving(j) \/ SleepOver(j) \/ ZipHalf(j)
       \/ ZipRest(j) \/ Finalize(j) \/ CreateFails(j) \/ EndCreate(j)
       \/ ListOld(j) \/ RemoveOld(j)
       \/ \E s \in Second : BeginRestore(j, s)
       \/ MoveAside(j) \/ MoveAsideFails(j) \/ ExtractHalf(j) \/ ExtractRest(j)
       \/ EndRestore(j) \/ RestoreFails(j) \/ PutBack(j)
  \/ \E s \in Second : DeleteBackup(s)
  \/ Crash

Spec == Init /\ [][Next]_vars

-----------------------------------------------------------------------------
\* backup.go:86: autosave is paused "so the zip doesn't capture a half-written
\* region file". It is so as long as the server is not started while a backup
\* is made (a start does not ask for backupMu), taken for stopped, or slower than
\* the two seconds; and as long as no restore left half a world behind, which
\* the next backup archives like a whole one.
ArchivesAreWhole == \A s \in Existing : Whole(archives[s])
WholeUnlessOverlap == (~overlap /\ ~wrecked) => ArchivesAreWhole

\* Whatever fails, and wherever the API dies, a whole world survives: in its
\* place, or in a directory moved aside, also after a restore that could not
\* put it back.
AWorldSurvives ==
  ~overlap => \/ Whole(world) \/ (alive /\ world # Absent)
              \/ Whole(aside)
              \/ \E w \in orphans : Whole(w)

\* A restore that fails, or that finds its archive pruned away, leaves a whole
\* world in place, unless its rollback fails too or the API dies in it; a death
\* at any other moment, of the restore too, does no harm.
WorldIsBack ==
  (~overlap /\ ~wrecked /\ lock = None) => Whole(world) \/ alive

\* When no backup is being made the JVM saves again, once it has read its
\* console; a backup must not leave it paused, however it ends. (An API that
\* died meanwhile, or whose save-on got lost, does, until the next start.)
SavingComesBack ==
  (lock = None /\ alive /\ console = <<>> /\ ~cut) => saveOn

\* Pruning leaves Keep archives, although new ones are finished while it runs;
\* it is only deletion by hand in the meantime that it does not see.
PruneLeavesKeep ==
  [][\A j \in Job : (RemoveOld(j) /\ ~thinned)
       => Cardinality({s \in Second : archives'[s] # None}) >= Keep]_vars
=============================================================================
