--------------------------- MODULE TerminalRestore ---------------------------
(***************************************************************************)
(* The restore of a backup by the terminal manager (restoreSnapshotCLI):   *)
(* a process of its own that builds the configuration with a manager of    *)
(* its own, replaces the database under the running panel, and restarts    *)
(* the panel so that it reads the settings again.  What a call of a        *)
(* manager can end in is Endings (ApplyOutcome).                           *)
(***************************************************************************)
EXTENDS ApplyOutcome

CONSTANTS
  AcctSets,   \* account tables
  Settings,   \* settings: API port and base configuration
  Buildable,  \* configurations Xray's test accepts
  NoWork      \* the panel writes no accounts

Cfg == [accts : AcctSets, settings : Settings]

VARIABLES
  db,        \* SQLite
  xray,      \* the installed configuration of Xray
  mem,       \* settings the panel runs with
  up,        \* the panel runs
  work,      \* accounts the panel is about to write
  backups,   \* backup files
  step,      \* where the terminal stands
  old,       \* the snapshot it took
  target,    \* the one it restores
  report,    \* what it ended with
  slipped,   \* history: it ignored an error while rolling back
  quiet      \* history: the panel changed no account since the snapshot

vars == <<db, xray, mem, up, work, backups, step, old, target, report, slipped, quiet>>
panel == <<mem, up, work>>

Steps == {"idle", "backup", "load", "apply", "replace", "reapply", "restart",
          "unreplace", "restartAgain"}
Results == {"none", "refused", "broken", "rolled back", "ok"}

TypeOK ==
  /\ db \in Cfg /\ xray \in Cfg
  /\ mem \in Settings
  /\ up \in BOOLEAN
  /\ work \in AcctSets \cup {NoWork}
  /\ backups \subseteq Cfg
  /\ step \in Steps
  /\ old \in Cfg /\ target \in Cfg
  /\ report \in Results
  /\ slipped \in BOOLEAN /\ quiet \in BOOLEAN

(* Some backups were made before, by this host or by another one.          *)
Init ==
  /\ db \in Buildable
  /\ xray = db
  /\ mem = db.settings
  /\ up = TRUE
  /\ work = NoWork
  /\ backups \in SUBSET Cfg
  /\ step = "idle"
  /\ old = db /\ target = db
  /\ report = "none"
  /\ slipped = FALSE
  /\ quiet = TRUE

(***************************************************************************)
(* The panel: a request or the runtime loop reads the accounts, applies    *)
(* what it makes of them when that changes Xray, and writes them.          *)
(***************************************************************************)
PanelApply ==
  /\ up /\ work = NoWork
  /\ \E a \in AcctSets :
       LET next == [accts |-> a, settings |-> mem] IN
       /\ work' = a
       /\ \/ a = db.accts /\ UNCHANGED xray
          \/ next \in Buildable /\ xray' = next
  /\ quiet' = FALSE
  /\ UNCHANGED <<db, mem, up, backups, step, old, target, report, slipped>>

PanelWrite ==
  /\ up /\ work # NoWork
  /\ db' = [db EXCEPT !.accts = work]
  /\ work' = NoWork
  /\ quiet' = FALSE
  /\ UNCHANGED <<xray, mem, up, backups, step, old, target, report, slipped>>

(***************************************************************************)
(* The terminal                                                            *)
(***************************************************************************)
Goto(s) == step' = s /\ UNCHANGED report
Return(r) == step' = "idle" /\ report' = r
Refuse == Return("refused") /\ UNCHANGED <<db, xray, panel, backups, old, target, slipped, quiet>>

Snapshot ==
  /\ step = "idle"
  /\ old' = db
  /\ quiet' = (work = NoWork)
  /\ slipped' = FALSE
  /\ step' = "backup" /\ report' = "none"
  /\ UNCHANGED <<db, xray, panel, backups, target>>

(* Mutant of CreateBackup: an error of the backup is not looked at.        *)
BackupIgnored ==
  /\ step = "backup"
  /\ backups' \in {backups, backups \cup {old}}
  /\ Goto("load")
  /\ UNCHANGED <<db, xray, panel, old, target, slipped, quiet>>

CreateBackup ==
  /\ step = "backup"
  /\ \/ /\ backups' = backups \cup {old}
        /\ Goto("load")
        /\ UNCHANGED <<db, xray, panel, old, target, slipped, quiet>>
     \/ Refuse

(* Load, and the validation of the panel's settings.                       *)
Load ==
  /\ step = "load"
  /\ \/ /\ target' \in backups
        /\ Goto("apply")
        /\ UNCHANGED <<db, xray, panel, backups, old, slipped, quiet>>
     \/ Refuse

(* A call of the manager that has the settings of c.                       *)
Apply(c, r) ==
  /\ c \in Buildable \/ r = "refused"
  /\ \E e \in Endings(xray, c) : e.report = r /\ xray' = e.installed

Errors == Reports \ {"none", "ok"}

ApplyTarget ==
  /\ step = "apply"
  /\ \/ Apply(target, "ok") /\ Goto("replace") /\ UNCHANGED slipped
     \/ \E r \in Errors :
          /\ Apply(target, r)
          /\ Return("broken")
          /\ slipped' = (r = "unrestored")
  /\ UNCHANGED <<db, panel, backups, old, target, quiet>>

Replace ==
  /\ step = "replace"
  /\ \/ db' = target /\ Goto("restart")
     \/ UNCHANGED db /\ Goto("reapply")
  /\ UNCHANGED <<xray, panel, backups, old, target, slipped, quiet>>

(* oldMgr.Apply after a failed transaction.                                *)
Reapply ==
  /\ step = "reapply"
  /\ \E r \in Reports \ {"none"} : Apply(old, r) /\ slipped' = (slipped \/ r # "ok")
  /\ Return("rolled back")
  /\ UNCHANGED <<db, panel, backups, old, target, quiet>>

(* Mutant of Started: the panel goes on with the settings it has read.     *)
StartedStale == up' = TRUE /\ work' = NoWork /\ UNCHANGED mem

(* The panel starts anew, or its start fails.                              *)
Started == up' = TRUE /\ mem' = db.settings /\ work' = NoWork
Failed == up' = FALSE /\ work' = NoWork /\ UNCHANGED mem

(* Mutant of RestartPanel: the database is left as it is when it fails.    *)
RestartShrugs ==
  /\ step = "restart"
  /\ \/ Started /\ Return("ok")
     \/ Failed /\ Return("rolled back")
  /\ UNCHANGED <<db, xray, backups, old, target, slipped, quiet>>

RestartPanel ==
  /\ step = "restart"
  /\ \/ Started /\ Return("ok")
     \/ Failed /\ Goto("unreplace")
  /\ UNCHANGED <<db, xray, backups, old, target, slipped, quiet>>

(* The old snapshot and its configuration; errors are ignored.             *)
Unreplace ==
  /\ step = "unreplace"
  /\ \/ db' = old /\ UNCHANGED slipped
     \/ UNCHANGED db /\ slipped' = TRUE
  /\ Goto("restartAgain")
  /\ UNCHANGED <<xray, panel, backups, old, target, quiet>>

RestartAgain ==
  /\ step = "restartAgain"
  /\ \E r \in Reports \ {"none"} : Apply(old, r) /\ slipped' = (slipped \/ r # "ok")
  /\ Started \/ Failed
  /\ Return("rolled back")
  /\ UNCHANGED <<db, backups, old, target, quiet>>

(* The end of the terminal process half-way; systemd starts the panel.     *)
Interrupted ==
  /\ step # "idle"
  /\ step' = "idle" /\ report' = "none"
  /\ UNCHANGED <<db, xray, panel, backups, old, target, slipped, quiet>>

PanelStarts ==
  /\ Started
  /\ UNCHANGED <<db, xray, backups, step, old, target, report, slipped, quiet>>

Next ==
  \/ PanelApply \/ PanelWrite \/ PanelStarts
  \/ Snapshot \/ CreateBackup \/ Load \/ ApplyTarget \/ Replace \/ Reapply
  \/ RestartPanel \/ Unreplace \/ RestartAgain \/ Interrupted

Spec == Init /\ [][Next]_vars

(***************************************************************************)
(* "The backup is restored": database, Xray and the panel's own settings   *)
(* are all those of the backup, unless the panel worked on an account      *)
(* meanwhile; the panel's own restore cannot say so much.                  *)
(***************************************************************************)
RestoredWhole ==
  [][step = "restart" /\ report' = "ok" /\ quiet =>
       db' = target /\ xray' = target /\ mem' = target.settings]_vars

(***************************************************************************)
(* "... rolled back": database and Xray are again what they were before,   *)
(* when no step of the rollback failed in its turn.                        *)
(***************************************************************************)
RolledBackWhole ==
  [][step # "idle" /\ report' = "rolled back" /\ quiet /\ ~slipped' =>
       db' = old /\ xray' = old]_vars

(***************************************************************************)
(* What a restore takes away can be restored: wherever it is cut short,    *)
(* and after it, the database it found is still there or in a backup.      *)
(***************************************************************************)
NothingLost == quiet => db = old \/ old \in backups
=============================================================================
