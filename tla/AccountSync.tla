----------------------------- MODULE AccountSync -----------------------------
(***************************************************************************)
(* How the panel keeps three copies of its configuration together: SQLite, *)
(* the fields of xray.Manager, and the configuration Xray runs.            *)
(*                                                                         *)
(* Accounts.mu serialises the account operations, the runtime policy, the  *)
(* global-configuration editor and the restore of a backup.  The settings  *)
(* handler of the HTTP server does not take it.  Manager.mu makes each     *)
(* call of the manager atomic to its callers; what such a call promises is *)
(* Endings (ApplyOutcome), which XrayApply is shown to implement.          *)
(***************************************************************************)
EXTENDS ApplyOutcome

CONSTANTS
  Handlers,   \* goroutines serving requests, and the runtime loop
  AcctSets,   \* account tables, each the set of its enabled accounts' ports
  Ports,      \* Xray API ports
  Bases,      \* contents of the setting xray_global_config
  Free        \* Accounts.mu is not held

ASSUME FreeAssumption == Free \notin Handlers

Cfg == [accts: AcctSets, api: Ports, base: Bases]

(* BuildConfigWithBase refuses an API port that an enabled account uses.   *)
Buildable(c) == c.api \notin c.accts

VARIABLES
  db,         \* SQLite: accounts, xray_api_port, xray_global_config
  mem,        \* Manager.APIPort and Manager.BaseConfigJSON
  xray,       \* the installed Xray configuration
  statsPort,  \* StatsReader.Server, fixed when the panel starts
  mu,         \* holder of Accounts.mu
  kind,       \* kind[h]: the request h is serving
  pc,         \* pc[h]: where it stands
  old,        \* old[h]: what it read from SQLite
  new,        \* new[h]: what it wants to be there
  report,     \* what the request that ended in the last step returned
  alone,      \* alone[h]: history; no settings request was served during it
  upset       \* history: why the copies may differ, see Causes

vars == <<db, mem, xray, statsPort, mu, kind, pc, old, new, report, alone, upset>>
jobVars == <<kind, old, new, alone>>

Kinds == {"none", "accounts", "counters", "global", "settings", "restore"}
Locked == {"accounts", "counters", "global", "restore"}
Phases == {"idle", "apply", "save", "unsave", "undo"}

(***************************************************************************)
(* fault    a crash half-way, or a rollback that did not succeed           *)
(* overlap  a settings request was served together with another request    *)
(* restore  a restored backup has other settings than the running manager  *)
(***************************************************************************)
Causes == {"fault", "overlap", "restore"}

(* Mutant of Settings: the two settings change places.                     *)
SettingsSwapped(c) == [api |-> c.base, base |-> c.api]

Settings(c) == [api |-> c.api, base |-> c.base]

(* What a handler that serves nothing remembers. *)
Blank == CHOOSE c \in Cfg : TRUE

TypeOK ==
  /\ db \in Cfg /\ xray \in Cfg
  /\ mem \in [api: Ports, base: Bases]
  /\ statsPort \in Ports
  /\ mu \in Handlers \cup {Free}
  /\ kind \in [Handlers -> Kinds]
  /\ pc \in [Handlers -> Phases]
  /\ old \in [Handlers -> Cfg] /\ new \in [Handlers -> Cfg]
  /\ report \in {"none", "ok", "error"}
  /\ alone \in [Handlers -> BOOLEAN]
  /\ upset \subseteq Causes

(* serve(): the installer has rendered the configuration from SQLite.      *)
Init ==
  /\ db \in {c \in Cfg : Buildable(c)}
  /\ xray = db
  /\ mem = Settings(db)
  /\ statsPort = db.api
  /\ mu = Free
  /\ kind = [h \in Handlers |-> "none"]
  /\ pc = [h \in Handlers |-> "idle"]
  /\ old = [h \in Handlers |-> Blank]
  /\ new = [h \in Handlers |-> Blank]
  /\ report = "none"
  /\ alone = [h \in Handlers |-> FALSE]
  /\ upset = {}

(***************************************************************************)
(* Beginning a request                                                     *)
(***************************************************************************)
Overlaps(h, k) ==
  \E g \in Handlers \ {h} : kind[g] = "settings" \/ (k = "settings" /\ kind[g] # "none")

(* The request reads SQLite and decides what it wants there.               *)
Begin(h, k, phase, c) ==
  /\ kind[h] = "none"
  /\ kind' = [kind EXCEPT ![h] = k]
  /\ pc' = [pc EXCEPT ![h] = phase]
  /\ old' = [old EXCEPT ![h] = db]
  /\ new' = [new EXCEPT ![h] = c]
  /\ report' = "none"
  /\ alone' = [g \in Handlers |->
                 IF g = h THEN ~Overlaps(h, k) ELSE alone[g] /\ k # "settings"]
  /\ upset' = upset \cup (IF Overlaps(h, k) THEN {"overlap"} ELSE {})
  /\ UNCHANGED <<db, mem, xray, statsPort>>

(***************************************************************************)
(* Create, Update, Delete, Clone, UpdateAdvanced, UpdateExpert and         *)
(* SetEnabled; ResetTraffic and ApplyTraffic when configChanged.           *)
(***************************************************************************)
BeginAccounts(h) ==
  /\ mu = Free /\ mu' = h
  /\ \E a \in AcctSets : Begin(h, "accounts", "apply", [db EXCEPT !.accts = a])

(* ResetTraffic and ApplyTraffic when no account is switched on or off.    *)
BeginCounters(h) ==
  /\ mu = Free /\ mu' = h
  /\ Begin(h, "counters", "save", db)

(* UpdateGlobalXrayConfig                                                  *)
BeginGlobal(h) ==
  /\ mu = Free /\ mu' = h
  /\ \E b \in Bases : Begin(h, "global", "apply", [db EXCEPT !.base = b])

(* RestoreSnapshot; the backups are consistent ones.                       *)
BeginRestore(h) ==
  /\ mu = Free /\ mu' = h
  /\ \E c \in Cfg : Buildable(c) /\ Begin(h, "restore", "save", c)

(* updateSettings: no lock; Xray is left alone when the port is the same.  *)
BeginSettings(h) ==
  \E p \in Ports :
    /\ p \notin db.accts
    /\ Begin(h, "settings", IF p = db.api THEN "save" ELSE "apply", [db EXCEPT !.api = p])
    /\ UNCHANGED mu

(***************************************************************************)
(* Continuing it                                                           *)
(***************************************************************************)
Goto(h, phase) ==
  /\ pc' = [pc EXCEPT ![h] = phase]
  /\ report' = "none"
  /\ UNCHANGED <<jobVars, mu>>

(* The handler returns, releasing the lock if it holds it.                 *)
Return(h, r) ==
  /\ pc' = [pc EXCEPT ![h] = "idle"]
  /\ kind' = [kind EXCEPT ![h] = "none"]
  /\ old' = [old EXCEPT ![h] = Blank]
  /\ new' = [new EXCEPT ![h] = Blank]
  /\ alone' = [alone EXCEPT ![h] = FALSE]
  /\ report' = r
  /\ mu' = IF kind[h] \in Locked THEN Free ELSE mu

Blame(causes) == upset' = upset \cup causes

(* What the manager is asked to install when the request wants c: the rest *)
(* of the configuration is the manager's own, and, for a request that does *)
(* not change the accounts, the accounts it read when it began.            *)
Target(h, c) ==
  [accts |-> IF kind[h] \in {"accounts", "restore"} THEN c.accts ELSE old[h].accts,
   api   |-> IF kind[h] = "settings" THEN c.api ELSE mem.api,
   base  |-> IF kind[h] = "global" THEN c.base ELSE mem.base]

(* Mutants of Apply: a configuration that cannot be built is not refused;  *)
(* the fields keep the new values when the call fails.                     *)
ApplyUnbuildable(t, r) ==
  /\ \E e \in Endings(xray, t) : e.report = r /\ xray' = e.installed
  /\ mem' = IF r = "ok" THEN Settings(t) ELSE mem
  /\ UNCHANGED <<db, statsPort>>

ApplyKeepsFields(t, r) ==
  /\ Buildable(t) \/ r = "refused"
  /\ \E e \in Endings(xray, t) : e.report = r /\ xray' = e.installed
  /\ mem' = Settings(t)
  /\ UNCHANGED <<db, statsPort>>

(* Apply, ApplyWithBase, ApplyWithAPIPort: the field is set for the call   *)
(* and put back when it fails.                                             *)
Apply(t, r) ==
  /\ Buildable(t) \/ r = "refused"
  /\ \E e \in Endings(xray, t) : e.report = r /\ xray' = e.installed
  /\ mem' = IF r = "ok" THEN Settings(t) ELSE mem
  /\ UNCHANGED <<db, statsPort>>

Errors == Reports \ {"none", "ok"}
FaultIf(bad) == IF bad THEN {"fault"} ELSE {}

ApplyNew(h) ==
  /\ pc[h] = "apply"
  /\ kind[h] # "restore"
  /\ \/ Apply(Target(h, new[h]), "ok") /\ Goto(h, "save") /\ Blame({})
     \/ \E r \in Errors :
          /\ Apply(Target(h, new[h]), r)
          /\ Return(h, "error")
          /\ Blame(FaultIf(r = "unrestored"))

(* ReplaceAccounts, SetSetting and ApplySettings write their own rows only.*)
Saved(h) ==
  CASE kind[h] = "accounts" -> [db EXCEPT !.accts = new[h].accts]
    [] kind[h] = "counters" -> db
    [] kind[h] = "global"   -> [db EXCEPT !.base = new[h].base]
    [] kind[h] = "settings" -> [db EXCEPT !.api = new[h].api]
    [] OTHER                -> new[h]

(* A change of accounts that ran alone brings all copies together again.   *)
Repairs(h) == kind[h] = "accounts" /\ alone[h] /\ mem = Settings(db)

(* Requests that go on after SQLite has taken the change, and may answer   *)
(* with an error all the same: the saved account is read again, and a new  *)
(* administrator gets a new session.                                       *)
Rereads == {"accounts", "settings"}

Save(h) ==
  /\ pc[h] = "save"
  /\ kind[h] # "restore"
  /\ db' = Saved(h)
  /\ \/ Return(h, "ok")
     \/ kind[h] \in Rereads /\ Return(h, "error")
  /\ upset' = IF Repairs(h) THEN {} ELSE upset
  /\ UNCHANGED <<mem, xray, statsPort>>

(* Mutant of Applies: updateSettings forgets to call the manager again.    *)
AppliesAccounts(h) == kind[h] \in {"accounts", "global"}

(* The transaction fails; the manager is called again if it was before.    *)
Applies(h) == kind[h] # "counters" /\ (kind[h] = "settings" => new[h].api # old[h].api)

SaveFails(h) ==
  /\ pc[h] = "save"
  /\ kind[h] # "restore"
  /\ IF Applies(h) THEN Goto(h, "undo") ELSE Return(h, "error")
  /\ UNCHANGED <<db, mem, xray, statsPort, upset>>

(* The second call of the manager puts the old configuration back.         *)
Undo(h) ==
  /\ pc[h] = "undo"
  /\ \E r \in Reports \ {"none"} :
       /\ Apply(Target(h, old[h]), r)
       /\ Blame(FaultIf(r # "ok"))
  /\ Return(h, "error")

(***************************************************************************)
(* RestoreSnapshot saves first and applies afterwards.                     *)
(***************************************************************************)
RestoreSave(h) ==
  /\ pc[h] = "save" /\ kind[h] = "restore"
  /\ \/ db' = new[h] /\ Goto(h, "apply")
     \/ db' = db /\ Return(h, "error")
  /\ UNCHANGED <<mem, xray, statsPort, upset>>

RestoreApply(h) ==
  /\ pc[h] = "apply" /\ kind[h] = "restore"
  /\ \/ /\ Apply(Target(h, new[h]), "ok")
        /\ Return(h, "ok")
        /\ Blame(IF Settings(new[h]) = mem THEN {} ELSE {"restore"})
     \/ \E r \in Errors :
          /\ Apply(Target(h, new[h]), r)
          /\ Goto(h, "unsave")
          /\ Blame(FaultIf(r = "unrestored"))

(* Both halves of the rollback ignore their own errors.                    *)
RestoreUnsave(h) ==
  /\ pc[h] = "unsave"
  /\ \/ db' = old[h] /\ Blame({})
     \/ db' = db /\ Blame({"fault"})
  /\ Goto(h, "undo")
  /\ UNCHANGED <<mem, xray, statsPort>>

(***************************************************************************)
(* The panel dies and is started again.  Xray keeps what it has, or what a *)
(* call of the manager was about to install (Crash of ConfigApply).        *)
(***************************************************************************)
HalfDone(h) ==
  IF kind[h] = "restore" THEN pc[h] \in {"apply", "unsave", "undo"}
                         ELSE pc[h] \in {"save", "undo"} /\ Applies(h)

Installing ==
  {Target(h, new[h]) : h \in {g \in Handlers : pc[g] = "apply"}} \cup
  {Target(h, old[h]) : h \in {g \in Handlers : pc[g] = "undo"}}

Restart ==
  /\ xray' \in {xray} \cup {t \in Installing : Buildable(t)}
  /\ mem' = Settings(db)
  /\ statsPort' = db.api
  /\ mu' = Free
  /\ kind' = [h \in Handlers |-> "none"]
  /\ pc' = [h \in Handlers |-> "idle"]
  /\ old' = [h \in Handlers |-> Blank]
  /\ new' = [h \in Handlers |-> Blank]
  /\ alone' = [h \in Handlers |-> FALSE]
  /\ report' = "none"
  /\ Blame(FaultIf(xray' # xray \/ \E h \in Handlers : HalfDone(h)))
  /\ UNCHANGED db

Next ==
  \/ \E h \in Handlers :
       \/ BeginAccounts(h) \/ BeginCounters(h) \/ BeginGlobal(h)
       \/ BeginRestore(h) \/ BeginSettings(h)
       \/ ApplyNew(h) \/ Save(h) \/ SaveFails(h) \/ Undo(h)
       \/ RestoreSave(h) \/ RestoreApply(h) \/ RestoreUnsave(h)
  \/ Restart

Spec == Init /\ [][Next]_vars

-----------------------------------------------------------------------------
Quiet == \A h \in Handlers : kind[h] = "none"
InAgreement == xray = db /\ mem = Settings(db)

(***************************************************************************)
(* Between requests the three copies agree: SQLite holds what Xray runs    *)
(* and what the manager would build next.  Only a crash half-way, a        *)
(* rollback that failed, a settings request that overlapped another one or *)
(* a restored backup with other settings can end that, and the next change *)
(* of accounts that runs alone ends it again.                              *)
(***************************************************************************)
InSync == Quiet /\ upset = {} => InAgreement

(***************************************************************************)
(* A request that returns an error has changed nothing: the account table, *)
(* the settings and the running configuration are those it found.  Only a  *)
(* request that still reads or creates something after its save may say so *)
(* when it has changed everything: all three are then as it wanted them.   *)
(***************************************************************************)
Outcomes(h) == {old[h]} \cup (IF kind[h] \in Rereads THEN {new[h]} ELSE {})
AllOrNothing ==
  [][\A h \in Handlers :
        /\ kind[h] # "none" /\ kind'[h] = "none" /\ report' = "error"
        /\ upset = {} /\ upset' = {}
        => \E c \in Outcomes(h) : db' = c /\ xray' = c /\ mem' = Settings(c)]_vars

(***************************************************************************)
(* The API port never becomes the port of an enabled account, which would  *)
(* make BuildConfigWithBase refuse every later change.                     *)
(***************************************************************************)
NeverWedged == upset = {} => Buildable(db)

(***************************************************************************)
(* README, "one account maps to one Xray inbound": unless something failed *)
(* or a backup with other settings was restored, every enabled account of  *)
(* the database has its inbound once no request is in progress.            *)
(***************************************************************************)
OneInboundPerAccount ==
  Quiet /\ upset \cap {"fault", "restore"} = {} => xray.accts = db.accts

(***************************************************************************)
(* README, "every collection cycle: read and reset Xray's inbound          *)
(* counters": between requests the reader asks on the port Xray listens on.*)
(***************************************************************************)
StatsReachable == Quiet /\ upset = {} => statsPort = xray.api
==============================================================================
