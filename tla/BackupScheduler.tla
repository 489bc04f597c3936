--------------------------- MODULE BackupScheduler ---------------------------
(***************************************************************************)
(* services/backup_scheduler.go and the handler that reconfigures it: the  *)
(* goroutine that waits on a ticker and on a reload channel of capacity    *)
(* one, while requests replace the configuration row.                      *)
(*                                                                         *)
(* What a scheduled backup does is in Backup; of the configuration, "keep" *)
(* is read only there.                                                     *)
(***************************************************************************)
EXTENDS Integers

CONSTANTS Request,
          Minutes,  \* the interval_minutes a request may carry
          Minute,   \* time.Minute, in nanoseconds
          Word,     \* 2^64
          None

ASSUME WordAssumption ==
  Word \in Nat \ {0} /\ Minute \in Nat \ {0} /\ Minutes \subseteq Int

VARIABLES
  row,     \* the backup_config row, None before the first save
  saved,   \* requests between saving the row and notifying the scheduler
  reload,  \* reloadCh holds a token
  pc,      \* where the scheduler is; "dead" when the process has panicked
  ticker,  \* period of its ticker, None without one
  due,     \* the ticker's channel holds a tick
  blind    \* history: the last reload could not read the row

vars == <<row, saved, reload, pc, ticker, due, blind>>

Config == [enabled : BOOLEAN, interval : Minutes]

\* Mutant of Valid: off by one.
ValidFromZero(cfg) == cfg.interval >= 0

\* ValidateBackupConfig
Valid(cfg) == cfg.interval >= 1

\* time.Duration(m) * time.Minute, in 64 bits with a sign
Duration(m) ==
  LET d == (m * Minute) % Word IN IF 2 * d < Word THEN d ELSE d - Word

\* What applyConfig makes of a row: defaults are disabled.
Period(cfg) == IF cfg = None \/ ~cfg.enabled THEN None ELSE Duration(cfg.interval)

TypeOK ==
  /\ row \in {c \in Config : Valid(c)} \cup {None}
  /\ saved \subseteq Request
  /\ reload \in BOOLEAN
  /\ pc \in {"apply", "wait", "backup", "dead"}
  /\ ticker \in {Duration(m) : m \in Minutes} \cup {None}
  /\ due \in BOOLEAN /\ blind \in BOOLEAN

Init ==
  /\ row = None
  /\ saved = {} /\ reload = FALSE
  /\ pc = "apply" /\ ticker = None /\ due = FALSE
  /\ blind = FALSE

-----------------------------------------------------------------------------
\* UpdateBackupConfigHandler: validate, save the row ...
Save(r, cfg) ==
  /\ pc # "dead"
  /\ r \notin saved
  /\ Valid(cfg)
  /\ row' = cfg
  /\ saved' = saved \cup {r}
  /\ UNCHANGED <<reload, pc, ticker, due, blind>>

\* Mutant of Notify: the channel has no buffer, so a token that the scheduler
\* is not waiting for is dropped.
NotifyUnbuffered(r) ==
  /\ r \in saved
  /\ saved' = saved \ {r}
  /\ reload' = (reload \/ pc = "wait")
  /\ UNCHANGED <<row, pc, ticker, due, blind>>

\* Mutant of Notify: the scheduler is told only when it has a schedule.
NotifyTicking(r) ==
  /\ r \in saved
  /\ saved' = saved \ {r}
  /\ reload' = (reload \/ ticker # None)
  /\ UNCHANGED <<row, pc, ticker, due, blind>>

\* ... and NotifyBackupConfigChanged, which drops the token when there is one.
Notify(r) ==
  /\ r \in saved
  /\ saved' = saved \ {r}
  /\ reload' = TRUE
  /\ UNCHANGED <<row, pc, ticker, due, blind>>

-----------------------------------------------------------------------------
(* runBackupScheduler *)

\* NewTicker panics unless its period is positive, and takes the process with
\* it.
Panics(period) == period # None /\ period <= 0

ApplyConfig ==
  /\ pc = "apply"
  /\ IF Panics(Period(row))
     THEN pc' = "dead" /\ saved' = {} /\ UNCHANGED ticker
     ELSE pc' = "wait" /\ ticker' = Period(row) /\ UNCHANGED saved
  /\ blind' = FALSE
  /\ UNCHANGED <<row, reload, due>>

\* The row cannot be read: no ticker.
ApplyFails ==
  /\ pc = "apply"
  /\ pc' = "wait"
  /\ blind' = TRUE
  /\ UNCHANGED <<row, saved, reload, ticker, due>>

TakeReload ==
  /\ pc = "wait" /\ reload
  /\ reload' = FALSE
  /\ ticker' = None /\ due' = FALSE
  /\ pc' = "apply"
  /\ UNCHANGED <<row, saved, blind>>

TakeTick ==
  /\ pc = "wait" /\ due
  /\ due' = FALSE
  /\ pc' = "backup"
  /\ UNCHANGED <<row, saved, reload, ticker, blind>>

EndBackup ==
  /\ pc = "backup"
  /\ pc' = "wait"
  /\ UNCHANGED <<row, saved, reload, ticker, due, blind>>

\* The ticker's channel holds one tick; more are dropped.
Tick ==
  /\ ticker # None /\ pc # "dead"
  /\ ~due
  /\ due' = TRUE
  /\ UNCHANGED <<row, saved, reload, pc, ticker, blind>>

\* The process is killed, or has panicked, and the container restarts it.
Restart ==
  /\ saved' = {} /\ reload' = FALSE
  /\ pc' = "apply" /\ ticker' = None /\ due' = FALSE
  /\ UNCHANGED <<row, blind>>

Next ==
  \/ \E r \in Request : \/ \E cfg \in Config : Save(r, cfg)
                        \/ Notify(r)
  \/ ApplyConfig \/ ApplyFails \/ TakeReload \/ TakeTick \/ EndBackup
  \/ Tick \/ Restart

Spec == Init /\ [][Next]_vars

\* The goroutine runs, and a backup ends. When a tick and a reload are both
\* ready, select chooses at random each time: neither is passed over for ever.
SchedulerRuns ==
  /\ WF_vars(ApplyConfig \/ ApplyFails) /\ WF_vars(EndBackup)
  /\ SF_vars(TakeReload)
  /\ \A r \in Request : WF_vars(Notify(r))

FairSpec == Spec /\ SchedulerRuns

-----------------------------------------------------------------------------
\* No wake-up is lost: a scheduler that waits with nothing to wait for but its
\* ticker runs at the period of the row, whatever requests did while it was
\* reloading or making a backup.
ScheduleFollowsRow ==
  (pc = "wait" /\ ~reload /\ saved = {} /\ ~blind) => ticker = Period(row)

\* A configuration that was saved is read in the end, however busy the
\* scheduler is with backups.
ChangeIsRead == \A r \in Request : r \in saved ~> pc = "apply"

\* types/backup.go:22: ValidateBackupConfig "rejects nonsensical schedules before
\* they're persisted": what takes the process down (again at every restart) is
\* an interval whose nanoseconds a word cannot hold, and nothing else.
OnlyOverflowPanics ==
  pc = "dead" => row # None /\ row.enabled /\ 2 * row.interval * Minute >= Word
=============================================================================
