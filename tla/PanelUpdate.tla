---------------------------- MODULE PanelUpdate ----------------------------
(***************************************************************************)
(* The panel replaces its own executable: Updater.Stage and Restore        *)
(* (internal/selfupdate), the handler updatePanel, the command             *)
(* updateXportCLI, and the transient unit that restarts the service and    *)
(* judges it (internal/ops).                                               *)
(*                                                                         *)
(* A request of the web interface dies with the panel it runs in.  A       *)
(* terminal command and a transient unit do not.  A build that cannot run  *)
(* is down as soon as it is started.                                       *)
(***************************************************************************)
EXTENDS Integers

CONSTANTS
  Web,       \* update requests to the panel
  Cli,       \* update commands of the terminal manager
  MaxBuild,  \* bound: builds released
  Broken     \* builds that do not stay active

None == 0    \* no such file
Down == 0    \* the panel does not run
Builds == 1..MaxBuild
Updates == Web \cup Cli

(* The build that is installed at first runs.                              *)
BuildAssumption == MaxBuild \in Nat \ {0} /\ 1 \notin Broken

VARIABLES
  bin,         \* the executable of the service
  previous,    \* its ".previous"
  serving,     \* the build that runs, or Down
  release,     \* newest release
  pending,     \* a firewall change waits for its confirmation
  step,        \* step[u]: where the update u stands
  own,         \* own[u]: CurrentVersion, the build u runs in
  staged,      \* staged[u]: the candidate u has downloaded
  unit,        \* unit[u]: the transient unit u has scheduled
  outcome,     \* outcome[u]: what u reported
  lastServed,  \* history: the last build that ran
  calm         \* history: no two updates have overlapped, none was cut short
               \* between Stage and its scheduled restart, no undo failed

vars == <<bin, previous, serving, release, pending, step, own, staged, unit,
          outcome, lastServed, calm>>
disk == <<bin, previous>>
env == <<release, pending>>

Steps == {"idle", "stage", "aside", "copy", "schedule", "restore"}
UnitStates == {"none", "timer", "watch", "fallback", "done"}
Outcomes == {"none", "refused", "current", "scheduled", "unverified"}

TypeOK ==
  /\ bin \in Builds \cup {None}
  /\ previous \in Builds \cup {None}
  /\ serving \in Builds \cup {Down}
  /\ release \in Builds
  /\ pending \in BOOLEAN
  /\ step \in [Updates -> Steps]
  /\ own \in [Updates -> Builds]
  /\ staged \in [Updates -> Builds]
  /\ unit \in [Updates -> UnitStates]
  /\ outcome \in [Updates -> Outcomes]
  /\ lastServed \in Builds
  /\ calm \in BOOLEAN

Init ==
  /\ bin = 1
  /\ previous = None
  /\ serving = 1
  /\ release = 1
  /\ pending = FALSE
  /\ step = [u \in Updates |-> "idle"]
  /\ own = [u \in Updates |-> 1]
  /\ staged = [u \in Updates |-> 1]
  /\ unit = [u \in Updates |-> "none"]
  /\ outcome = [u \in Updates |-> "none"]
  /\ lastServed = 1
  /\ calm = TRUE

Over(u) == step[u] = "idle" /\ unit[u] \in {"none", "done"}
Goto(u, s) == step' = [step EXCEPT ![u] = s] /\ UNCHANGED outcome
Return(u, o) == step' = [step EXCEPT ![u] = "idle"] /\ outcome' = [outcome EXCEPT ![u] = o]

(***************************************************************************)
(* updatePanel looks for pending firewall changes first; the command does  *)
(* not.                                                                    *)
(***************************************************************************)
Begin(u) ==
  /\ Over(u)
  /\ unit' = [unit EXCEPT ![u] = "none"]
  /\ calm' = (calm /\ \A v \in Updates : Over(v))
  /\ \/ /\ u \in Web
        /\ serving # Down
        /\ own' = [own EXCEPT ![u] = serving]
        /\ IF pending THEN Return(u, "refused") ELSE Goto(u, "stage")
     \/ /\ u \in Cli
        /\ bin # None
        /\ own' = [own EXCEPT ![u] = bin]
        /\ Goto(u, "stage")
  /\ UNCHANGED <<disk, serving, env, staged, lastServed>>

(* Stage up to the candidate: any error ends the call.                     *)
Stage(u) ==
  /\ step[u] = "stage"
  /\ \/ own[u] = release /\ Return(u, "current")
     \/ Return(u, "refused")
     \/ own[u] # release /\ Goto(u, "aside")
  /\ staged' = [staged EXCEPT ![u] = release]
  /\ UNCHANGED <<disk, serving, env, own, unit, lastServed, calm>>

(* Mutant of Aside: the executable is copied over without being kept.      *)
AsideOverwritten(u) ==
  /\ step[u] = "aside"
  /\ bin # None
  /\ Goto(u, "copy")
  /\ UNCHANGED <<disk, serving, env, own, staged, unit, lastServed, calm>>

Aside(u) ==
  /\ step[u] = "aside"
  /\ \/ bin # None /\ previous' = bin /\ bin' = None /\ Goto(u, "copy")
     \/ bin # None /\ previous' = None /\ Return(u, "refused") /\ UNCHANGED bin
     \/ bin = None /\ Return(u, "refused") /\ UNCHANGED disk
  /\ UNCHANGED <<serving, env, own, staged, unit, lastServed, calm>>

(* The rename that undoes a failed copy, and Restore.                      *)
PutBack ==
  \/ previous # None /\ bin' = previous /\ previous' = None /\ UNCHANGED calm
  \/ bin' = None /\ calm' = FALSE /\ UNCHANGED previous

Copy(u) ==
  /\ step[u] = "copy"
  /\ \/ bin' = staged[u] /\ Goto(u, "schedule") /\ UNCHANGED <<previous, calm>>
     \/ PutBack /\ Return(u, "refused")
  /\ UNCHANGED <<serving, env, own, staged, unit, lastServed>>

Watched(u) == unit' = [unit EXCEPT ![u] = "timer"] /\ Return(u, "scheduled") /\ UNCHANGED previous

(***************************************************************************)
(* The handler asks again and schedules under firewallMu, which a new      *)
(* firewall change needs: one step.  The command looks at the service      *)
(* only, and drops the old executable when it does not run.                *)
(***************************************************************************)
Schedule(u) ==
  /\ step[u] = "schedule"
  /\ \/ (u \in Web => ~pending) /\ (u \in Cli => serving # Down) /\ Watched(u)
     \/ /\ u \in Web \/ serving # Down
        /\ Goto(u, "restore")
        /\ UNCHANGED <<previous, unit>>
     \/ /\ u \in Cli /\ serving = Down
        /\ previous' = None
        /\ Return(u, "unverified")
        /\ UNCHANGED unit
  /\ UNCHANGED <<bin, serving, env, own, staged, lastServed, calm>>

(* Without the old executable it leaves the new one where it is.           *)
Restore(u) ==
  /\ step[u] = "restore"
  /\ \/ previous # None /\ PutBack
     \/ previous = None /\ UNCHANGED <<disk, calm>>
  /\ Return(u, "refused")
  /\ UNCHANGED <<serving, env, own, staged, unit, lastServed>>

(***************************************************************************)
(* A start of the service: every request inside the panel is gone.         *)
(***************************************************************************)
Launch(b) == IF b \in Broken THEN Down ELSE b
Launched(b) ==
  /\ serving' = Launch(b)
  /\ lastServed' = IF Launch(b) = Down THEN lastServed ELSE b
  /\ step' = [u \in Updates |-> IF u \in Web THEN "idle" ELSE step[u]]
  /\ UNCHANGED <<outcome, own, staged, env>>
Cut == \E u \in Updates : step[u] \in {"copy", "schedule", "restore"}

(* verifiedBinaryRestartScript.                                            *)
Fire(u) ==
  /\ unit[u] = "timer"
  /\ unit' = [unit EXCEPT ![u] = "watch"]
  /\ Launched(bin)
  /\ calm' = (calm /\ ~Cut)
  /\ UNCHANGED disk

(* Mutant of Judge: the service counts as running once it was restarted.   *)
JudgeStarted(u) ==
  /\ unit[u] = "watch"
  /\ unit' = [unit EXCEPT ![u] = "done"]
  /\ UNCHANGED <<disk, serving, env, step, own, staged, outcome, lastServed, calm>>

Judge(u) ==
  /\ unit[u] = "watch"
  /\ unit' = [unit EXCEPT ![u] = IF serving # Down THEN "done" ELSE "fallback"]
  /\ UNCHANGED <<disk, serving, env, step, own, staged, outcome, lastServed, calm>>

Fallback(u) ==
  /\ unit[u] = "fallback"
  /\ unit' = [unit EXCEPT ![u] = "done"]
  /\ IF previous = None
     THEN UNCHANGED <<disk, serving, env, step, own, staged, outcome, lastServed, calm>>
     ELSE /\ bin' = previous
          /\ previous' = None
          /\ Launched(previous)
          /\ calm' = (calm /\ ~Cut)

(* The restart button, or systemd after a crash of the panel.              *)
RestartPanel ==
  /\ serving # Down
  /\ Launched(bin)
  /\ calm' = (calm /\ ~Cut)
  /\ UNCHANGED <<disk, unit>>

(* The process of a terminal command dies.                                 *)
Interrupted(u) ==
  /\ u \in Cli
  /\ step[u] # "idle"
  /\ Return(u, "none")
  /\ calm' = (calm /\ ~Cut)
  /\ UNCHANGED <<disk, serving, env, own, staged, unit, lastServed>>

FirewallChange ==
  /\ serving # Down \/ pending
  /\ pending' = ~pending
  /\ UNCHANGED <<disk, serving, release, step, own, staged, unit, outcome, lastServed, calm>>

Publish ==
  /\ release < MaxBuild
  /\ release' = release + 1
  /\ UNCHANGED <<disk, serving, pending, step, own, staged, unit, outcome, lastServed, calm>>

Next ==
  \/ RestartPanel \/ FirewallChange \/ Publish
  \/ \E u \in Updates :
       \/ Begin(u) \/ Stage(u) \/ Aside(u) \/ Copy(u) \/ Schedule(u) \/ Restore(u)
       \/ Fire(u) \/ Judge(u) \/ Fallback(u) \/ Interrupted(u)

Spec == Init /\ [][Next]_vars

(***************************************************************************)
(* The build that ran last is on disk in every state, as the executable or *)
(* as ".previous": there is always something to go back to (Stage,         *)
(* Restore, the script).                                                   *)
(***************************************************************************)
BuildKept == calm => lastServed \in {bin, previous}

(***************************************************************************)
(* When no update is under way the panel runs, and runs its executable,    *)
(* however many broken builds were staged and refused in between.          *)
(***************************************************************************)
Serves == calm /\ (\A u \in Updates : Over(u)) => serving # Down /\ serving = bin

(***************************************************************************)
(* "A pending native firewall rollback must not be interrupted by a panel  *)
(* upgrade": no update restarts the panel while a change is pending.       *)
(***************************************************************************)
NotInterrupted == [][(\E u \in Updates : unit[u] = "timer" /\ unit'[u] = "watch") => ~pending]_vars
============================================================================
