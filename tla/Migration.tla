------------------------------ MODULE Migration ------------------------------
(***************************************************************************)
(* The guarded cutover from an X-Panel to X-port (migrate-xpanel.sh with   *)
(* the commands migrate and render of xport), the undo of a cutover that   *)
(* failed, and the rollback.sh that a successful one leaves behind.        *)
(*                                                                         *)
(* X-port's panel runs until the script stops it; a watchdog may start the *)
(* old services again; the script may be killed and the machine rebooted   *)
(* between any two commands.  Nothing resumes a cutover: the administrator *)
(* may start another one, on whatever is there.                            *)
(***************************************************************************)
EXTENDS Naturals

CONSTANTS
  Old,             \* systemd units of the old panel
  Main,            \* OLD_SERVICE, the one of them the script looks at
  Hosts,           \* states of the host at first
  MaxCutovers,     \* bound: cutovers begun
  MaxDisturbances  \* bound: writes of the panel, units started again, kills, reboots

(* What a file of X-port holds: nothing, what it held before, a later      *)
(* change of the panel, half of the import, or all of it.                  *)
Contents == {"none", "own", "later", "half", "migrated"}
Files == {"db", "config"}
Services == {"panel", "xray"}
FileOf(service) == IF service = "xray" THEN "config" ELSE "db"
Enabled == {"enabled", "disabled", "static", "masked"}

VARIABLES
  file,     \* XPORT_DB and DEST_CONFIG
  runs,     \* X-port's services that are active
  on,       \* on[u]: whether an old unit is enabled
  rmask,    \* old units masked until the next boot
  active,   \* old units that are active
  step,     \* where the script, or rollback.sh, stands
  todo,     \* units a loop of it has still to treat
  copy,     \* the copies in BACKUP
  rec,      \* old-unit-states.tsv and the *_WAS_ACTIVE variables
  script,   \* BACKUP/rollback.sh is there
  report,   \* how it ended
  begun,    \* number of cutovers begun
  disturbed,  \* number of disturbances
  found,    \* history: what the cutover began with
  wrote,    \* history: X-port wrote its old files after the cutover began
  woken,    \* history: a watchdog started an old unit since
  slipped,  \* history: an ignored command failed while undoing
  proved    \* history: the new services were seen active

vars == <<file, runs, on, rmask, active, step, todo, copy, rec, script, report,
          begun, disturbed, found, wrote, woken, slipped, proved>>
host == <<file, runs, on, rmask, active>>
ghosts == <<begun, disturbed, found, wrote, woken, slipped, proved>>
kept == <<copy, rec, script>>

Steps == {"idle", "copy", "stop", "quiesce", "source", "import", "render", "startXray",
          "startPanel", "finalize", "script",
          "undo", "dropDb", "copyDb", "dropConfig", "copyConfig", "units", "start",
          "services"}
Reports == {"none", "refused", "done", "undone", "stuck"}

(* systemctl is-enabled.                                                   *)
Shown(u) == IF u \in rmask THEN "masked-runtime" ELSE on[u]

Recorded == [shown : [Old -> Enabled \cup {"masked-runtime"}], active : SUBSET Old,
             runs : SUBSET Services]
Host == [file |-> file, runs |-> runs, on |-> on, rmask |-> rmask, active |-> active]

TypeOK ==
  /\ file \in [Files -> Contents] /\ copy \in [Files -> Contents]
  /\ runs \subseteq Services
  /\ on \in [Old -> Enabled]
  /\ rmask \subseteq Old /\ active \subseteq Old /\ todo \subseteq Old
  /\ step \in Steps /\ report \in Reports
  /\ rec \in Recorded
  /\ begun \in 0..MaxCutovers /\ disturbed \in 0..MaxDisturbances
  /\ script \in BOOLEAN /\ wrote \in BOOLEAN /\ woken \in BOOLEAN
  /\ slipped \in BOOLEAN /\ proved \in BOOLEAN

(* An installed X-port, perhaps not configured yet, beside an old panel,   *)
(* as it was or as a cutover that was killed has left it: no service runs  *)
(* without its file, and no masked unit.                                   *)
HostAssumption(h) ==
  /\ h.file \in [Files -> {"none", "own"}]
  /\ h.runs \subseteq {s \in Services : h.file[FileOf(s)] = "own"}
  /\ h.on \in [Old -> Enabled]
  /\ h.rmask \subseteq Old
  /\ h.active \subseteq {u \in Old \ h.rmask : h.on[u] # "masked"}

Init ==
  /\ \E h \in Hosts :
       /\ HostAssumption(h)
       /\ file = h.file /\ runs = h.runs
       /\ on = h.on /\ rmask = h.rmask /\ active = h.active
  /\ step = "idle" /\ todo = {}
  /\ copy = [f \in Files |-> "none"]
  /\ rec = [shown |-> [u \in Old |-> Shown(u)], active |-> {}, runs |-> {}]
  /\ script = FALSE
  /\ report = "none"
  /\ begun = 0 /\ disturbed = 0
  /\ found = Host
  /\ wrote = FALSE /\ woken = FALSE /\ slipped = FALSE /\ proved = FALSE

Goto(s, units) == step' = s /\ todo' = units /\ UNCHANGED report
Exit(r) == step' = "idle" /\ todo' = {} /\ report' = r
Slips(failed) == slipped' = (slipped \/ failed)
Proceed(s) == Goto(s, {})

(* A cutover ends in one of two ways when a command fails: before its trap *)
(* is set it exits, afterwards it undoes what it has done.                 *)
Trapped == {"stop", "quiesce", "source", "import", "render", "startXray", "startPanel",
            "finalize"}
Fails == Proceed("undo")

(***************************************************************************)
(* The dry run and the validation of a candidate change nothing, however   *)
(* they end.  Then the administrator agrees or not, and the states of the  *)
(* services and units are noted.                                           *)
(***************************************************************************)
Decline == step = "idle" /\ UNCHANGED vars

Begin ==
  /\ step = "idle"
  /\ begun < MaxCutovers
  /\ begun' = begun + 1
  /\ UNCHANGED disturbed
  /\ step' = "copy" /\ todo' = {} /\ report' = "none"
  /\ rec' = [shown |-> [u \in Old |-> Shown(u)], active |-> active, runs |-> runs]
  /\ copy' = [f \in Files |-> "none"]
  /\ script' = FALSE
  /\ found' = Host
  /\ wrote' = FALSE /\ woken' = FALSE /\ slipped' = FALSE /\ proved' = FALSE
  /\ UNCHANGED host

Copy ==
  /\ step = "copy"
  /\ \/ copy' = file /\ Proceed("stop")
     \/ Exit("refused") /\ UNCHANGED copy
  /\ UNCHANGED <<host, rec, script, ghosts>>

(* systemctl stop, whose failure is ignored.                               *)
Stop ==
  /\ step = "stop"
  /\ runs' \in SUBSET runs
  /\ Goto("quiesce", Old)
  /\ UNCHANGED <<file, on, rmask, active, kept, ghosts>>

(* Mutant of Quiesce: the units are disabled instead.                      *)
QuiesceDisables(u) ==
  /\ step = "quiesce" /\ u \in todo
  /\ on' = [on EXCEPT ![u] = IF @ = "enabled" THEN "disabled" ELSE @]
  /\ active' = active \ {u}
  /\ IF todo = {u} THEN Proceed("source") ELSE Goto("quiesce", todo \ {u})
  /\ UNCHANGED <<file, runs, rmask, kept, ghosts>>

(* Each old unit is masked until the next boot, and stopped.               *)
Quiesce(u) ==
  /\ step = "quiesce" /\ u \in todo
  /\ \/ /\ rmask' = rmask \cup {u}
        /\ active' = active \ {u}
        /\ IF todo = {u} THEN Proceed("source") ELSE Goto("quiesce", todo \ {u})
     \/ rmask' \in {rmask, rmask \cup {u}} /\ Fails /\ UNCHANGED active
  /\ UNCHANGED <<file, runs, on, kept, ghosts>>

(* assert_old_quiet; a process outside systemd makes it fail as well.  The *)
(* old database is copied, which changes nothing here.                     *)
Source ==
  /\ step = "source"
  /\ \/ Main \notin active /\ Proceed("import")
     \/ Fails
  /\ UNCHANGED <<host, kept, ghosts>>

(* migrateDB: three tables, a transaction or a statement each.             *)
Import ==
  /\ step = "import"
  /\ \/ file' = [file EXCEPT !["db"] = "migrated"] /\ Proceed("render")
     \/ file' \in {file, [file EXCEPT !["db"] = "half"]} /\ Fails
  /\ UNCHANGED <<runs, on, rmask, active, kept, ghosts>>

(* The configuration is rendered, tested, and the old panel looked at.     *)
Render ==
  /\ step = "render"
  /\ \/ /\ file' = [file EXCEPT !["config"] = "migrated"]
        /\ Main \notin active
        /\ Proceed("startXray")
     \/ file' \in {file, [file EXCEPT !["config"] = "migrated"]} /\ Fails
  /\ UNCHANGED <<runs, on, rmask, active, kept, ghosts>>

Starts(service, at, next) ==
  /\ step = at
  /\ \/ runs' = runs \cup {service} /\ next
     \/ runs' \in {runs \ {service}, runs \cup {service}} /\ Fails /\ UNCHANGED proved
  /\ UNCHANGED <<file, on, rmask, active, kept, begun, disturbed, found, wrote, woken, slipped>>

StartXray == Starts("xray", "startXray", Proceed("startPanel") /\ UNCHANGED proved)
StartPanel == Starts("panel", "startPanel", Goto("finalize", Old) /\ proved' = TRUE)

(* systemctl disable, whose failure is ignored.                            *)
Finalize(u) ==
  /\ step = "finalize" /\ u \in todo
  /\ \/ on[u] = "enabled" /\ on' = [on EXCEPT ![u] = "disabled"]
     \/ UNCHANGED on
  /\ IF todo = {u} THEN Proceed("script") ELSE Goto("finalize", todo \ {u})
  /\ UNCHANGED <<file, runs, rmask, active, kept, ghosts>>

(* The trap is gone: an error or a signal no longer undoes anything.       *)
WriteScript ==
  /\ step = "script"
  /\ script' \in BOOLEAN
  /\ Exit("done")
  /\ UNCHANGED <<host, copy, rec, ghosts>>

(* A signal the script handles.                                            *)
Interrupt ==
  /\ step \in Trapped
  /\ Fails
  /\ UNCHANGED <<host, kept, ghosts>>

(***************************************************************************)
(* rollback and rollback.sh: the copies, the units, the services.          *)
(***************************************************************************)
RollbackScript ==
  /\ step = "idle" /\ script
  /\ step' = "undo" /\ todo' = {} /\ report' = "none"
  /\ slipped' = FALSE
  /\ UNCHANGED <<host, kept, begun, disturbed, found, wrote, woken, proved>>

UndoStop ==
  /\ step = "undo"
  /\ runs' \in SUBSET runs
  /\ Slips(runs' # {})
  /\ Proceed("dropDb")
  /\ UNCHANGED <<file, on, rmask, active, kept, begun, disturbed, found, wrote, woken, proved>>

(* Under "set -e" a file that cannot be removed or copied ends the undo.   *)
Drop(f, at, next) ==
  /\ step = at
  /\ \/ file' = [file EXCEPT ![f] = "none"] /\ next
     \/ Exit("stuck") /\ UNCHANGED file
  /\ UNCHANGED <<runs, on, rmask, active, kept, ghosts>>
PutBack(f, at, next) ==
  /\ step = at
  /\ \/ file' = [file EXCEPT ![f] = copy[f]] /\ next
     \/ copy[f] # "none" /\ Exit("stuck") /\ UNCHANGED file
  /\ UNCHANGED <<runs, on, rmask, active, kept, ghosts>>

UndoDb == Drop("db", "dropDb", Proceed("copyDb")) \/ PutBack("db", "copyDb", Proceed("dropConfig"))
UndoConfig ==
  \/ Drop("config", "dropConfig", Proceed("copyConfig"))
  \/ PutBack("config", "copyConfig", Goto("units", Old))

(* Mutant of UndoUnit: what was enabled is not enabled again.              *)
UndoUnitUnmasks(u) ==
  /\ step = "units" /\ u \in todo
  /\ rmask' = IF rec.shown[u] = "masked-runtime" THEN rmask ELSE rmask \ {u}
  /\ IF todo = {u} THEN Goto("start", rec.active) ELSE Goto("units", todo \ {u})
  /\ UNCHANGED <<file, runs, on, active, kept, ghosts>>

(* The recorded state of a unit; every command may fail unseen.            *)
UndoUnit(u) ==
  LET state == rec.shown[u]
      masks == IF state = "masked-runtime" THEN rmask \cup {u} ELSE rmask \ {u}
      files == IF state \in {"enabled", "disabled"} THEN [on EXCEPT ![u] = state] ELSE on IN
  /\ step = "units" /\ u \in todo
  /\ rmask' \in {rmask, rmask \ {u}, masks}
  /\ on' \in {on, files}
  /\ Slips(rmask' # masks \/ on' # files)
  /\ IF todo = {u} THEN Goto("start", rec.active) ELSE Goto("units", todo \ {u})
  /\ UNCHANGED <<file, runs, active, kept, begun, disturbed, found, wrote, woken, proved>>

UndoStart ==
  /\ step = "start"
  /\ active' \in {active \cup S : S \in SUBSET todo}
  /\ Slips(~(todo \subseteq active'))
  /\ Proceed("services")
  /\ UNCHANGED <<file, runs, on, rmask, kept, begun, disturbed, found, wrote, woken, proved>>

UndoServices ==
  /\ step = "services"
  /\ runs' \in {runs \cup S : S \in SUBSET rec.runs}
  /\ Slips(~(rec.runs \subseteq runs'))
  /\ Exit("undone")
  /\ UNCHANGED <<file, on, rmask, active, kept, begun, disturbed, found, wrote, woken, proved>>

(***************************************************************************)
(* The panel writes what it runs with; a watchdog starts an old unit; the  *)
(* script, or a second signal its undo, is cut short; the machine reboots. *)
(* A unit file under /etc hides a runtime mask, and a watchdog need not be *)
(* systemd: Respawn does not ask for the mask.                             *)
(***************************************************************************)
Disturbs == disturbed < MaxDisturbances /\ disturbed' = disturbed + 1

PanelWrites ==
  /\ Disturbs
  /\ "panel" \in runs
  /\ \E f \in Files :
       /\ file[f] # "none"
       /\ file' = [file EXCEPT ![f] = "later"]
       /\ wrote' = (wrote \/ file[f] = found.file[f])
  /\ UNCHANGED <<runs, on, rmask, active, step, todo, kept, report, begun, found, woken,
                  slipped, proved>>

Respawn(u) ==
  /\ Disturbs
  /\ active' = active \cup {u}
  /\ woken' = TRUE
  /\ UNCHANGED <<file, runs, on, rmask, step, todo, kept, report, begun, found, wrote,
                  slipped, proved>>

Killed ==
  /\ Disturbs
  /\ step # "idle"
  /\ Exit("none")
  /\ UNCHANGED <<host, kept, begun, found, wrote, woken, slipped, proved>>

Reboot ==
  /\ Disturbs
  /\ rmask' = {}
  /\ active' \in SUBSET {u \in Old : on[u] \in {"enabled", "static"}}
  /\ woken' = (woken \/ active' # {})
  /\ runs' \in SUBSET {s \in Services : file[FileOf(s)] # "none"}
  /\ Exit("none")
  /\ UNCHANGED <<file, on, kept, begun, found, wrote, slipped, proved>>

Next ==
  \/ Decline \/ Begin \/ Copy \/ Stop \/ Source \/ Import \/ Render \/ StartXray \/ StartPanel
  \/ WriteScript \/ Interrupt
  \/ \E u \in Old : Quiesce(u) \/ Finalize(u) \/ UndoUnit(u) \/ Respawn(u)
  \/ RollbackScript \/ UndoStop \/ UndoDb \/ UndoConfig \/ UndoStart \/ UndoServices
  \/ PanelWrites \/ Killed \/ Reboot

Spec == Init /\ [][Next]_vars

(***************************************************************************)
(* "Restores the pre-migration X-port snapshot and the old systemd unit    *)
(* enable/active states": an undo that ends, at once or by rollback.sh     *)
(* much later, leaves all of it as the cutover found it, if no command it  *)
(* ignores has failed, and nobody else changed it meanwhile.               *)
(***************************************************************************)
AsBefore ==
  [][step # "idle" /\ report' = "undone" /\ ~slipped' /\ ~wrote =>
       /\ file' = found.file /\ runs' = found.runs
       /\ [u \in Old |-> Shown(u)]' = rec.shown
       /\ woken \/ active' = found.active]_vars

(***************************************************************************)
(* Wherever a cutover or its undo stops, for whatever reason, nothing is   *)
(* lost: X-port's files are in place or in the backup, and until the new   *)
(* services were seen active, what was enabled of the old panel is.        *)
(***************************************************************************)
Recoverable ==
  /\ ~wrote => \A f \in Files : file[f] = found.file[f] \/ copy[f] = found.file[f]
  /\ \A u \in Old : found.on[u] = "enabled" /\ ~proved => on[u] = "enabled"
=============================================================================
