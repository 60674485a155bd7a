-------------------------------- MODULE Parts --------------------------------
(***************************************************************************)
(* The parts that share no state with each other, side by side: a          *)
(* behaviour moves the part it has chosen in its first state, and the      *)
(* others rest in an initial state of theirs.  LoginLimiter is extended    *)
(* and its variables go by their own names; those of the other parts bear  *)
(* the initial of their part.  Parts with a module of proofs are instances *)
(* of that module.                                                         *)
(***************************************************************************)
EXTENDS LoginLimiter

CONSTANTS
  Procs, Calls, ProcOf,                         \* RestartGate
  Configs, Accepted, NoConfig, XrayDown,        \* XrayApply
  Ids, Quotas, Expiries, MonthLength, Horizon,  \* AccountPolicy
  MaxSent, MaxPolicyFaults,
  Slots, Units, Delay, Kinds, MaxUnitFaults,    \* FirewallRecovery
  CoreCalls, MaxRelease, MaxUpdates,            \* CoreUpdate
  Web, Cli, MaxBuild, Broken,                   \* PanelUpdate
  Protocols, Imported, Texts, Forms, MaxEdits,  \* AccountEditor
  Groups, Ports, MaxRules                       \* RuleConflicts

VARIABLES
  part,  \* the part that moves
  rAge, rCount, rSince, rStable, rAt, rGated,
  xFile, xRunning, xManaged, xPc, xWant, xPrev, xResult, xClean,
  pPresent, pRow, pServing, pCounter, pNow, pTick, pSeen, pDelta, pFaults,
  pSent, pOff, pExceeded,
  fRuntime, fPermanent, fOwned, fPaused, fPending, fTimer, fJob, fFaults,
  fUndue, fForgone,
  cCore, cGeo, cGeoPrev, cMarker, cLatest, cPc, cCand, cNames, cHad, cResult,
  cLast, cFound, cSlipped, cAlone, cCalls,
  uBin, uPrevious, uServing, uRelease, uPending, uStep, uOwn, uStaged, uUnit,
  uOutcome, uLastServed, uCalm,
  eProtocol, eDoc, eEdits,
  gRules, gConflict

Gate == INSTANCE RestartGate WITH
  age <- rAge, count <- rCount, since <- rSince, stable <- rStable,
  at <- rAt, gated <- rGated
gateVars == <<rAge, rCount, rSince, rStable, rAt, rGated>>

Manager == INSTANCE XrayApplyProofs WITH
  Procs <- {"panel"}, Down <- XrayDown, file <- xFile,
  running <- xRunning, managed <- xManaged, pc <- xPc, want <- xWant,
  prev <- xPrev, result <- xResult, clean <- xClean
applyVars == <<xFile, xRunning, xManaged, xPc, xWant, xPrev, xResult,
    xClean>>

Policy == INSTANCE AccountPolicyProofs WITH
  MaxFaults <- MaxPolicyFaults, present <- pPresent,
  row <- pRow, serving <- pServing, counter <- pCounter, now <- pNow,
  tick <- pTick, seen <- pSeen, delta <- pDelta, faults <- pFaults,
  sent <- pSent, off <- pOff, exceeded <- pExceeded
policyVars == <<pPresent, pRow, pServing, pCounter, pNow, pTick, pSeen,
    pDelta, pFaults, pSent, pOff, pExceeded>>

Firewall == INSTANCE FirewallRecoveryProofs WITH
  MaxFaults <- MaxUnitFaults,
  runtime <- fRuntime, permanent <- fPermanent, owned <- fOwned,
  paused <- fPaused, pending <- fPending, timer <- fTimer, job <- fJob,
  faults <- fFaults, undue <- fUndue, forgone <- fForgone
firewallVars == <<fRuntime, fPermanent, fOwned, fPaused, fPending,
    fTimer, fJob, fFaults, fUndue, fForgone>>

Updater == INSTANCE CoreUpdateProofs WITH
  Calls <- CoreCalls, MaxCalls <- MaxUpdates, core <- cCore,
  geo <- cGeo, geoPrev <- cGeoPrev, marker <- cMarker, latest <- cLatest,
  pc <- cPc, cand <- cCand, names <- cNames, had <- cHad, result <- cResult,
  last <- cLast, found <- cFound, slipped <- cSlipped, alone <- cAlone,
  calls <- cCalls
coreVars == <<cCore, cGeo, cGeoPrev, cMarker, cLatest, cPc, cCand,
    cNames, cHad, cResult, cLast, cFound, cSlipped, cAlone, cCalls>>

SelfUpdate == INSTANCE PanelUpdate WITH
  bin <- uBin, previous <- uPrevious, serving <- uServing, release <- uRelease,
  pending <- uPending, step <- uStep, own <- uOwn, staged <- uStaged,
  unit <- uUnit, outcome <- uOutcome, lastServed <- uLastServed,
  calm <- uCalm
panelVars == <<uBin, uPrevious, uServing, uRelease, uPending, uStep,
    uOwn, uStaged, uUnit, uOutcome, uLastServed, uCalm>>

Editor == INSTANCE AccountEditorProofs WITH
  protocol <- eProtocol, doc <- eDoc, edits <- eEdits
editorVars == <<eProtocol, eDoc, eEdits>>

Page == INSTANCE RuleConflicts WITH
  rules <- gRules, conflict <- gConflict
pageVars == <<gRules, gConflict>>

(* What the parts assume of their constants.                               *)
ASSUME GateAssumption == Gate!CallAssumption
ASSUME ManagerAssumption ==
  Manager!AcceptedAssumption /\ Manager!DistinctAssumption
ASSUME PolicyAssumption ==
  Policy!TimeAssumption /\ Policy!DataAssumption /\ Policy!BoundAssumption
ASSUME FirewallAssumption ==
  Firewall!SlotsAssumption /\ Firewall!BoundAssumption
ASSUME UpdaterAssumption == Updater!Bounds
ASSUME SelfUpdateAssumption == SelfUpdate!BuildAssumption
ASSUME EditorAssumption == Editor!DocumentAssumption /\ Editor!FormAssumption
ASSUME PageAssumption == Page!PortAssumption

Movable ==
  {"gate", "apply", "policy", "firewall", "core", "panel", "login", "editor",
   "page"}
PartsInit ==
  /\ part \in Movable
  /\ Init /\ Gate!Init /\ Manager!Init /\ Policy!Init /\ Firewall!Init
  /\ Updater!Init /\ SelfUpdate!Init /\ Editor!Init
  /\ Page!Init

GateMoves ==
  /\ part = "gate" /\ Gate!Next
  /\ UNCHANGED <<part, applyVars, policyVars, firewallVars, coreVars, panelVars,
                  vars, editorVars, pageVars>>
ApplyMoves ==
  /\ part = "apply" /\ Manager!Next
  /\ UNCHANGED <<part, gateVars, policyVars, firewallVars, coreVars, panelVars,
                  vars, editorVars, pageVars>>
PolicyMoves ==
  /\ part = "policy" /\ Policy!Next
  /\ UNCHANGED <<part, gateVars, applyVars, firewallVars, coreVars, panelVars,
                  vars, editorVars, pageVars>>
FirewallMoves ==
  /\ part = "firewall" /\ Firewall!Next
  /\ UNCHANGED <<part, gateVars, applyVars, policyVars, coreVars, panelVars,
                  vars, editorVars, pageVars>>
CoreMoves ==
  /\ part = "core" /\ Updater!Next
  /\ UNCHANGED <<part, gateVars, applyVars, policyVars, firewallVars, panelVars,
                  vars, editorVars, pageVars>>
PanelMoves ==
  /\ part = "panel" /\ SelfUpdate!Next
  /\ UNCHANGED <<part, gateVars, applyVars, policyVars, firewallVars, coreVars,
                  vars, editorVars, pageVars>>
LoginMoves ==
  /\ part = "login" /\ Next
  /\ UNCHANGED <<part, gateVars, applyVars, policyVars, firewallVars, coreVars,
                  panelVars, editorVars, pageVars>>
EditorMoves ==
  /\ part = "editor" /\ Editor!Next
  /\ UNCHANGED <<part, gateVars, applyVars, policyVars, firewallVars, coreVars,
                  panelVars, vars, pageVars>>
PageMoves ==
  /\ part = "page" /\ Page!Next
  /\ UNCHANGED <<part, gateVars, applyVars, policyVars, firewallVars, coreVars,
                  panelVars, vars, editorVars>>

PartsNext ==
  \/ GateMoves \/ ApplyMoves \/ PolicyMoves \/ FirewallMoves \/ CoreMoves
  \/ PanelMoves \/ LoginMoves \/ EditorMoves \/ PageMoves

partsVars ==
  <<part, gateVars, applyVars, policyVars, firewallVars, coreVars, panelVars,
    vars, editorVars, pageVars>>
PartsSpec == PartsInit /\ [][PartsNext]_partsVars

(* The properties of the parts, stated in their modules.                   *)
FourPerWindow == part = "gate" => Gate!FourPerWindow
Headroom == Gate!Headroom
ImplementsConfigApply == Manager!ImplementsConfigApply
ChargedOnce == part = "policy" => Policy!ChargedOnce
AlwaysGuarded == part = "firewall" => Firewall!AlwaysGuarded
Survives == part = "core" => Updater!Survives
GeoTrue == part = "core" => Updater!GeoTrue
AsFound == part = "core" => Updater!AsFound
BuildKept == part = "panel" => SelfUpdate!BuildKept
Serves == part = "panel" => SelfUpdate!Serves
NotInterrupted == SelfUpdate!NotInterrupted
ExpertFaithful == part = "editor" => Editor!ExpertFaithful
AdvancedFaithful == part = "editor" => Editor!AdvancedFaithful
OrdinaryFaithful == part = "editor" => Editor!OrdinaryFaithful
ShownAsSent == part = "editor" => Editor!ShownAsSent
StaysEditable == Editor!StaysEditable
MarkedExactly == part = "page" => Page!MarkedExactly
ClearsAreClears == part = "editor" => Editor!ClearsAreClears
==============================================================================
