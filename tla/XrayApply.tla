------------------------------ MODULE XrayApply ------------------------------
(***************************************************************************)
(* How a candidate Xray configuration becomes the running one:             *)
(* Manager.applyLocked and restartAndVerify (internal/xray).               *)
(*                                                                         *)
(* Several operating-system processes may own a Manager at the same time   *)
(* (the panel, and a terminal-manager restore).  Manager.mu serialises the *)
(* calls of one process, so each process has at most one call in flight;   *)
(* nothing serialises two processes.                                       *)
(***************************************************************************)
EXTENDS ApplyOutcome

CONSTANTS
  Procs,      \* processes that hold a Manager
  Configs,    \* generated configurations, compared byte for byte
  Accepted,   \* those that "xray run -test" accepts
  NoConfig,   \* no file at ConfigPath
  Down        \* the Xray service is not active

ASSUME AcceptedAssumption == Accepted \subseteq Configs
ASSUME DistinctAssumption == NoConfig \notin Configs /\ Down \notin Configs

VARIABLES
  file,     \* contents of ConfigPath
  running,  \* configuration the Xray process loaded, or Down
  managed,  \* Manager.Service is set (it is not when no unit is installed)
  pc,       \* pc[p]: where the call of p stands
  want,     \* want[p]: cfg, the bytes built from the request
  prev,     \* prev[p]: previous, the bytes read before the rename
  result,   \* result[p]: what the last call of p returned
  clean     \* clean[p]: history; the call of p started with nothing stale
            \* and no other process has called during it

vars == <<file, running, managed, pc, want, prev, result, clean>>
callVars == <<want, prev, clean>>

Phases == {"idle", "validate", "compare", "recover", "recoverCheck", "rename",
           "restart", "check", "rollback", "clear", "rerestart", "recheck"}
Installed == {"restart", "check", "rollback"}  \* renamed and not yet judged

TypeOK ==
  /\ file \in Configs \cup {NoConfig}
  /\ running \in Configs \cup {Down}
  /\ managed \in BOOLEAN
  /\ pc \in [Procs -> Phases]
  /\ want \in [Procs -> Configs]
  /\ prev \in [Procs -> Configs \cup {NoConfig}]
  /\ result \in [Procs -> Reports]
  /\ clean \in [Procs -> BOOLEAN]

Init ==
  /\ file \in Accepted \cup {NoConfig}
  /\ running \in {Down} \cup ({file} \ {NoConfig})
  /\ managed \in BOOLEAN
  /\ pc = [p \in Procs |-> "idle"]
  /\ want \in [Procs -> Configs]
  /\ prev = [p \in Procs |-> NoConfig]
  /\ result = [p \in Procs |-> "none"]
  /\ clean = [p \in Procs |-> FALSE]

(***************************************************************************)
(* What a start of the unit can lead to: the process loads whatever is at  *)
(* ConfigPath at that moment, or it exits.                                 *)
(***************************************************************************)
Launched == {Down} \cup ({file} \ {NoConfig})
Stale == running \notin Launched

Goto(p, phase) == pc' = [pc EXCEPT ![p] = phase]
Return(p, r) == Goto(p, "idle") /\ result' = [result EXCEPT ![p] = r]

(***************************************************************************)
(* Apply(accounts): BuildConfigWithBase has produced the bytes c.          *)
(***************************************************************************)
Call(p, c) ==
  /\ pc[p] = "idle"
  /\ Goto(p, "validate")
  /\ want' = [want EXCEPT ![p] = c]
  /\ result' = [result EXCEPT ![p] = "none"]
  /\ clean' = [q \in Procs |-> IF q = p
                               THEN ~Stale /\ \A o \in Procs \ {p} : pc[o] = "idle"
                               ELSE clean[q] /\ pc[q] = "idle"]
  /\ UNCHANGED <<file, running, managed, prev>>

(* Mutant of Validate: the result of the test is not looked at.            *)
ValidateUntested(p) ==
  /\ pc[p] = "validate"
  /\ Goto(p, "compare")
  /\ UNCHANGED <<file, running, managed, result, callVars>>

(* The temporary file is written and tested; any error returns at once.    *)
Validate(p) ==
  /\ pc[p] = "validate"
  /\ \/ want[p] \in Accepted /\ Goto(p, "compare") /\ UNCHANGED result
     \/ Return(p, "refused")
  /\ UNCHANGED <<file, running, managed, callVars>>

(* Mutant of Compare: any previous file counts as identical.               *)
CompareExists(p) ==
  /\ pc[p] = "compare"
  /\ prev' = [prev EXCEPT ![p] = file]
  /\ Goto(p, IF file # NoConfig THEN "recover" ELSE "rename")
  /\ UNCHANGED <<file, running, managed, want, result, clean>>

(* The current bytes are read: equal bytes take the short cut.             *)
Compare(p) ==
  /\ pc[p] = "compare"
  /\ \/ /\ prev' = [prev EXCEPT ![p] = file]
        /\ Goto(p, IF file = want[p] THEN "recover" ELSE "rename")
        /\ UNCHANGED result
     \/ Return(p, "refused") /\ UNCHANGED prev
  /\ UNCHANGED <<file, running, managed, want, clean>>

(* Identical bytes: nothing to do while the service is active.             *)
Unchanged(p) ==
  /\ pc[p] = "recover"
  /\ ~managed \/ running # Down
  /\ Return(p, "ok")
  /\ UNCHANGED <<file, running, managed, callVars>>

(* Mutant of Rename: the service is looked at without being restarted.     *)
RenameNoRestart(p) ==
  /\ pc[p] = "rename"
  /\ file' = want[p]
  /\ Goto(p, "check")
  /\ UNCHANGED <<running, managed, result, callVars>>

Rename(p) ==
  /\ pc[p] = "rename"
  /\ \/ /\ file' = want[p]
        /\ IF managed THEN Goto(p, "restart") /\ UNCHANGED result ELSE Return(p, "ok")
     \/ Return(p, "refused") /\ UNCHANGED file
  /\ UNCHANGED <<running, managed, callVars>>

(***************************************************************************)
(* restartAndVerify, first half: "systemctl restart" returns 0, the unit   *)
(* having been started with the file of that moment ...                    *)
(***************************************************************************)
Start(p, at, next) ==
  /\ pc[p] = at
  /\ running' \in Launched
  /\ Goto(p, next)
  /\ UNCHANGED <<file, managed, result, callVars>>

(* ... or fails: start-limited (the old process is gone) or never run.     *)
StartFails(p, at, then) ==
  /\ pc[p] = at
  /\ running' \in {running, Down}
  /\ then
  /\ UNCHANGED <<file, managed, callVars>>

(* Second half: the service is seen active for long enough ...             *)
StaysActive(p, at, r) ==
  /\ pc[p] = at
  /\ running # Down
  /\ Return(p, r)
  /\ UNCHANGED <<file, running, managed, callVars>>

(* ... or it is not: it died, or systemctl did not answer in time.  Also   *)
(* the successful outcome of clearStartLimitForRollback.                   *)
MoveOn(p, at, next) ==
  /\ pc[p] = at
  /\ Goto(p, next)
  /\ UNCHANGED <<file, running, managed, result, callVars>>

GiveUp(p, at) ==
  /\ pc[p] = at
  /\ Return(p, "unrestored")
  /\ UNCHANGED <<file, running, managed, callVars>>

(* Identical bytes and a service not known to be active: restart it.       *)
RecoverSame(p) ==
  \/ managed /\ Start(p, "recover", "recoverCheck")
  \/ managed /\ StartFails(p, "recover", Return(p, "unrestored"))
  \/ StaysActive(p, "recoverCheck", "ok")
  \/ GiveUp(p, "recoverCheck")

ApplyNew(p) ==
  \/ Start(p, "restart", "check")
  \/ StartFails(p, "restart", Goto(p, "rollback") /\ UNCHANGED result)
  \/ StaysActive(p, "check", "ok")
  \/ MoveOn(p, "check", "rollback")

(* Mutant of Rollback: an error of restoreConfig is ignored.               *)
RollbackUnchecked(p) ==
  /\ pc[p] = "rollback"
  /\ prev[p] # NoConfig
  /\ file' \in {file, prev[p]}
  /\ Goto(p, "clear")
  /\ UNCHANGED <<running, managed, result, callVars>>

(* The first restart failed: restoreConfig puts the previous bytes back.   *)
Rollback(p) ==
  /\ pc[p] = "rollback"
  /\ prev[p] # NoConfig
  /\ \/ file' = prev[p] /\ Goto(p, "clear") /\ UNCHANGED result
     \/ Return(p, "unrestored") /\ UNCHANGED file
  /\ UNCHANGED <<running, managed, callVars>>

NoPrevious(p) == prev[p] = NoConfig /\ GiveUp(p, "rollback")

(* clearStartLimitForRollback, then the second restart.                    *)
Restore(p) ==
  \/ MoveOn(p, "clear", "rerestart")
  \/ GiveUp(p, "clear")
  \/ Start(p, "rerestart", "recheck")
  \/ StartFails(p, "rerestart", Return(p, "unrestored"))
  \/ StaysActive(p, "recheck", "restored")
  \/ GiveUp(p, "recheck")

(* The process is killed: only the files and the Xray unit survive.        *)
Crash(p) ==
  /\ pc[p] # "idle"
  /\ Return(p, "none")
  /\ UNCHANGED <<file, running, managed, callVars>>

(***************************************************************************)
(* The unit on its own: Xray exits; systemd, the restart button, the       *)
(* updater or the terminal manager start it again.                         *)
(***************************************************************************)
XrayExits ==
  /\ running # Down
  /\ running' = Down
  /\ UNCHANGED <<file, managed, pc, result, callVars>>

UnitStarts ==
  /\ running' \in Launched
  /\ UNCHANGED <<file, managed, pc, result, callVars>>

Step(p) ==
  \/ Validate(p) \/ Compare(p) \/ Unchanged(p) \/ Rename(p)
  \/ RecoverSame(p) \/ ApplyNew(p)
  \/ Rollback(p) \/ NoPrevious(p) \/ Restore(p)

Next ==
  \/ \E p \in Procs : (\E c \in Configs : Call(p, c)) \/ Step(p) \/ Crash(p)
  \/ XrayExits \/ UnitStarts

Spec == Init /\ [][Next]_vars

-----------------------------------------------------------------------------
(***************************************************************************)
(* Only configurations that passed "xray run -test" ever reach ConfigPath, *)
(* whatever processes interleave, roll back or die (applyLocked tests the  *)
(* temporary file before the rename and rolls back to bytes it read).      *)
(***************************************************************************)
OnlyTestedInstalled == file \in Accepted \cup {NoConfig}

Returns(p, r) == pc[p] # "idle" /\ pc'[p] = "idle" /\ result'[p] = r

(***************************************************************************)
(* A call that reports success, begun when nothing was stale and not       *)
(* overlapped by another process, leaves its own bytes installed and no    *)
(* other configuration running.                                            *)
(***************************************************************************)
SuccessIsInstalled ==
  [][\A p \in Procs : Returns(p, "ok") /\ clean[p] =>
        /\ file' = want[p]
        /\ managed => running' = want[p]]_vars

(***************************************************************************)
(* "previous configuration and service restored" is said only when it is   *)
(* so: the bytes found at the start are back and Xray runs them.           *)
(***************************************************************************)
RestoredIsPrevious ==
  [][\A p \in Procs : Returns(p, "restored") /\ clean[p] =>
        file' = prev[p] /\ running' = prev[p]]_vars

(***************************************************************************)
(* Xray never runs a configuration that is neither installed nor about to  *)
(* be put back, except after a crash or an error return that owned up to   *)
(* it: while a clean call is in flight the loaded bytes are the file's,    *)
(* the call's or the previous ones.                                        *)
(***************************************************************************)
NothingForeignRuns ==
  \A p \in Procs : pc[p] # "idle" /\ clean[p] =>
     \/ ~Stale
     \/ pc[p] \in {"restart", "rollback"} /\ running = prev[p]
     \/ pc[p] \in {"clear", "rerestart"} /\ running = want[p]

(***************************************************************************)
(* While one process only calls it, the manager keeps the promise its      *)
(* callers rely on (ConfigApply): the configuration that counts is the     *)
(* previous one from the rename until the restarted service has been       *)
(* judged, and the file's at any other time.                               *)
(***************************************************************************)
p1 == CHOOSE p \in Procs : TRUE

Promise == INSTANCE ConfigApply WITH
  installed <- IF pc[p1] \in Installed THEN prev[p1] ELSE file,
  request   <- IF pc[p1] = "idle" THEN NoConfig ELSE want[p1],
  report    <- result[p1]

ImplementsConfigApply == Promise!Spec
==============================================================================
