--------------------------- MODULE MCTwoProcesses ---------------------------
(***************************************************************************)
(* TLC instance of TwoProcesses.                                           *)
(***************************************************************************)
EXTENDS TwoProcesses, TLC

(* Of the settings, s2 cannot be built with the accounts 2.                *)
Builds ==
  {c \in [accts : AcctSets, settings : Settings] : c.accts = 1 \/ c.settings = "s1"}

(* The host of a migration: x-ui.service with a watchdog, both enabled in  *)
(* some way, and what a killed cutover leaves.                             *)
Host(config, services, main, watch, masks, started) ==
  [file |-> [db |-> "own", config |-> config], runs |-> services,
   on |-> "x-ui" :> main @@ "watch" :> watch,
   rmask |-> masks, active |-> started]
FirstHost == Host("own", {"panel", "xray"}, "enabled", "static", {}, {"x-ui", "watch"})
LeftBehind == Host("none", {"panel"}, "disabled", "enabled", {"x-ui"}, {"watch"})
TwoHosts == {FirstHost, LeftBehind}

(* The parts that do not move rest where they began, in one state each.    *)
Resting ==
  /\ part # "apply" =>
       file = NoConfig /\ running = Down /\ managed = TRUE
       /\ want \in [Procs -> {CHOOSE c \in Accepted : TRUE}]
  /\ part # "admin" =>
       aDb \in [admins : [{CHOOSE n \in Names : TRUE} -> Passwords], cert : {NoPair}, key : {NoPair}]
  /\ part # "restore" =>
       tDb = [accts |-> 1, settings |-> "s1"] /\ tBackups = {}
  /\ part # "cutover" =>
       mOn = FirstHost.on /\ mRmask = {} /\ mFile = FirstHost.file
MCInit ==
  /\ part \in {"apply", "admin", "restore", "cutover"}
  /\ Resting
  /\ TwoInit
MCSpec == MCInit /\ [][TwoNext]_twoVars
==============================================================================
