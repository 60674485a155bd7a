---------------------------- MODULE TwoProcesses ----------------------------
(***************************************************************************)
(* The parts in which the panel and a terminal, two processes, change the  *)
(* same things, side by side: the configuration of Xray (a manager each),  *)
(* the administrator and the settings, the whole database, and in a        *)
(* migration also the services.  A behaviour moves the part it has chosen  *)
(* in its first state; the others rest in an initial state of theirs.      *)
(* XrayApply is extended and its variables go by their own names; those of *)
(* the other parts bear the initial of their part.                         *)
(***************************************************************************)
EXTENDS XrayApply, Naturals

CONSTANTS
  Requests, Names, Passwords, Pairs, NoName, NoPair,  \* AdminSettings
  AcctSets, Settings, Buildable, NoWork,              \* TerminalRestore
  Old, Main, Hosts, MaxCutovers, MaxDisturbances      \* Migration

VARIABLES
  part,  \* the part that moves
  aDb, aBackups, aSessions, aUp, aAt, aUser, aClearing, aForm, aHash, aLogin,
  aTerm, aOld, aPair, aTorn, aLagging,
  tDb, tXray, tMem, tUp, tWork, tBackups, tStep, tOld, tTarget, tReport,
  tSlipped, tQuiet,
  mFile, mRuns, mOn, mRmask, mActive, mStep, mTodo, mCopy, mRec, mScript, mReport,
  mBegun, mDisturbed, mFound, mWrote, mWoken, mSlipped, mProved

Admin == INSTANCE AdminSettings WITH
  db <- aDb, backups <- aBackups, sessions <- aSessions, up <- aUp, at <- aAt,
  user <- aUser, clearing <- aClearing, form <- aForm, hash <- aHash,
  login <- aLogin, term <- aTerm, old <- aOld, pair <- aPair, torn <- aTorn,
  lagging <- aLagging
adminVars == <<aDb, aBackups, aSessions, aUp, aAt, aUser, aClearing,
    aForm, aHash, aLogin, aTerm, aOld, aPair, aTorn, aLagging>>

Terminal == INSTANCE TerminalRestore WITH
  db <- tDb, xray <- tXray, mem <- tMem, up <- tUp,
  work <- tWork, backups <- tBackups, step <- tStep, old <- tOld,
  target <- tTarget, report <- tReport, slipped <- tSlipped, quiet <- tQuiet
restoreVars == <<tDb, tXray, tMem, tUp, tWork, tBackups, tStep, tOld,
    tTarget, tReport, tSlipped, tQuiet>>

Cutover == INSTANCE Migration WITH
  file <- mFile, runs <- mRuns, on <- mOn, rmask <- mRmask,
  active <- mActive, step <- mStep, todo <- mTodo, copy <- mCopy, rec <- mRec,
  script <- mScript, report <- mReport, begun <- mBegun,
  disturbed <- mDisturbed, found <- mFound, wrote <- mWrote, woken <- mWoken,
  slipped <- mSlipped, proved <- mProved
cutoverVars == <<mFile, mRuns, mOn, mRmask, mActive, mStep, mTodo, mCopy, mRec,
    mScript, mReport, mBegun, mDisturbed, mFound, mWrote, mWoken, mSlipped, mProved>>

(* The bounds of a migration; the other parts assume nothing more.         *)
ASSUME CutoverAssumption == MaxCutovers \in Nat /\ MaxDisturbances \in Nat

TwoInit ==
  /\ part \in {"apply", "admin", "restore", "cutover"}
  /\ Init /\ Admin!Init /\ Terminal!Init /\ Cutover!Init

ApplyMoves ==
  /\ part = "apply" /\ Next
  /\ UNCHANGED <<part, adminVars, restoreVars, cutoverVars>>
AdminMoves ==
  /\ part = "admin" /\ Admin!Next
  /\ UNCHANGED <<part, vars, restoreVars, cutoverVars>>
RestoreMoves ==
  /\ part = "restore" /\ Terminal!Next
  /\ UNCHANGED <<part, vars, adminVars, cutoverVars>>
CutoverMoves ==
  /\ part = "cutover" /\ Cutover!Next
  /\ UNCHANGED <<part, vars, adminVars, restoreVars>>

TwoNext ==
  \/ ApplyMoves \/ AdminMoves \/ RestoreMoves \/ CutoverMoves

twoVars ==
  <<part, vars, adminVars, restoreVars, cutoverVars>>
TwoSpec == TwoInit /\ [][TwoNext]_twoVars

(* The properties of the parts, stated in their modules.                   *)
OneAdmin == part = "admin" => Admin!OneAdmin
Startable == part = "admin" => Admin!Startable
SessionsCurrent == part = "admin" => Admin!SessionsCurrent
NothingLost == part = "restore" => Terminal!NothingLost
RestoredWhole == Terminal!RestoredWhole
RolledBackWhole == Terminal!RolledBackWhole
Recoverable == part = "cutover" => Cutover!Recoverable
AsBefore == Cutover!AsBefore
==============================================================================
