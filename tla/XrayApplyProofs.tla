--------------------------- MODULE XrayApplyProofs ---------------------------
(***************************************************************************)
(* Proofs about XrayApply for every set of processes and configurations,   *)
(* and that one process implements ConfigApply.                            *)
(***************************************************************************)
EXTENDS XrayApply, TLAPS

(* Past the test, a call carries a configuration that passed it.           *)
Tested ==
  \A p \in Procs :
    /\ pc[p] \notin {"idle", "validate"} => want[p] \in Accepted
    /\ prev[p] \in Accepted \cup {NoConfig}

(* Where a call that nobody disturbs stands, phase by phase.               *)
Undisturbed(p) ==
  /\ pc[p] \in {"validate", "compare"} => ~Stale
  /\ pc[p] \in {"recover", "recoverCheck"} => file = want[p] /\ ~Stale
  /\ pc[p] = "rename" => file = prev[p] /\ ~Stale
  /\ pc[p] \in {"restart", "rollback"} =>
       file = want[p] /\ running \in {Down, prev[p], want[p]}
  /\ pc[p] = "check" => file = want[p] /\ running \in {Down, want[p]}
  /\ pc[p] \in {"clear", "rerestart"} =>
       file = prev[p] /\ prev[p] # NoConfig /\ running \in {Down, prev[p], want[p]}
  /\ pc[p] = "recheck" => file = prev[p] /\ prev[p] # NoConfig /\ running \in {Down, prev[p]}

CleanInv ==
  \A p \in Procs : clean[p] /\ pc[p] # "idle" =>
    Undisturbed(p) /\ \A o \in Procs \ {p} : pc[o] = "idle"

IInv == TypeOK /\ OnlyTestedInstalled /\ Tested /\ CleanInv

-----------------------------------------------------------------------------
LEMMA TypeStep == TypeOK /\ [Next]_vars => TypeOK'
<1> SUFFICES ASSUME TypeOK, [Next]_vars PROVE TypeOK'
  OBVIOUS
<1> USE DEF TypeOK, Goto, Return, callVars, Reports, Phases
<1>1. ASSUME NEW p \in Procs, NEW c \in Configs, Call(p, c) PROVE TypeOK'
  BY <1>1 DEF Call
<1>2. ASSUME NEW p \in Procs, Validate(p) \/ Compare(p) \/ Unchanged(p) PROVE TypeOK'
  BY <1>2 DEF Validate, Compare, Unchanged
<1>3. ASSUME NEW p \in Procs, Rename(p) \/ Rollback(p) \/ NoPrevious(p) PROVE TypeOK'
  BY <1>3 DEF Rename, Rollback, NoPrevious, GiveUp
<1>4. ASSUME NEW p \in Procs, RecoverSame(p) PROVE TypeOK'
  BY <1>4 DEF RecoverSame, Start, StartFails, StaysActive, GiveUp, Launched
<1>5. ASSUME NEW p \in Procs, ApplyNew(p) PROVE TypeOK'
  BY <1>5 DEF ApplyNew, Start, StartFails, StaysActive, MoveOn, Launched
<1>6. ASSUME NEW p \in Procs, Restore(p) PROVE TypeOK'
  BY <1>6 DEF Restore, Start, StartFails, StaysActive, MoveOn, GiveUp, Launched
<1>7. ASSUME NEW p \in Procs, Crash(p) PROVE TypeOK'
  BY <1>7 DEF Crash
<1>8. CASE XrayExits \/ UnitStarts
  BY <1>8 DEF XrayExits, UnitStarts, Launched
<1>9. CASE UNCHANGED vars
  BY <1>9 DEF vars
<1>10. QED
  BY <1>1, <1>2, <1>3, <1>4, <1>5, <1>6, <1>7, <1>8, <1>9 DEF Next, Step

(***************************************************************************)
(* The file only ever receives tested bytes: what was wanted past the      *)
(* test, or what was read from it.                                         *)
(***************************************************************************)
LEMMA TestedStep ==
  TypeOK /\ OnlyTestedInstalled /\ Tested /\ [Next]_vars => (OnlyTestedInstalled /\ Tested)'
<1> SUFFICES ASSUME TypeOK, OnlyTestedInstalled, Tested, [Next]_vars
             PROVE  (OnlyTestedInstalled /\ Tested)'
  OBVIOUS
<1> USE DEF TypeOK, OnlyTestedInstalled, Tested, Goto, Return, callVars
<1>1. ASSUME NEW p \in Procs, NEW c \in Configs, Call(p, c)
      PROVE  (OnlyTestedInstalled /\ Tested)'
  BY <1>1 DEF Call
<1>2. ASSUME NEW p \in Procs, Validate(p) \/ Compare(p) \/ Unchanged(p)
      PROVE  (OnlyTestedInstalled /\ Tested)'
  BY <1>2 DEF Validate, Compare, Unchanged
<1>3. ASSUME NEW p \in Procs, Rename(p) \/ Rollback(p) \/ NoPrevious(p)
      PROVE  (OnlyTestedInstalled /\ Tested)'
  BY <1>3 DEF Rename, Rollback, NoPrevious, GiveUp
<1>4. ASSUME NEW p \in Procs, RecoverSame(p) \/ ApplyNew(p) \/ Restore(p)
      PROVE  (OnlyTestedInstalled /\ Tested)'
  BY <1>4 DEF RecoverSame, ApplyNew, Restore, Start, StartFails, StaysActive, MoveOn, GiveUp
<1>5. ASSUME NEW p \in Procs, Crash(p) PROVE (OnlyTestedInstalled /\ Tested)'
  BY <1>5 DEF Crash
<1>6. CASE XrayExits \/ UnitStarts
  BY <1>6 DEF XrayExits, UnitStarts
<1>7. CASE UNCHANGED vars
  BY <1>7 DEF vars
<1>8. QED
  BY <1>1, <1>2, <1>3, <1>4, <1>5, <1>6, <1>7 DEF Next, Step
(***************************************************************************)
(* A step of a process that is not idle disturbs no clean call of another  *)
(* one: there is none.  It has to be checked for its own call only.        *)
(***************************************************************************)
LEMMA OwnStep ==
  ASSUME TypeOK, CleanInv, NEW p \in Procs, NEW ph \in Phases, pc[p] # "idle", Goto(p, ph),
         UNCHANGED clean, clean[p] /\ ph # "idle" => Undisturbed(p)'
  PROVE  CleanInv'
<1> SUFFICES ASSUME NEW q \in Procs, clean'[q], pc'[q] # "idle"
             PROVE  Undisturbed(q)' /\ \A o \in Procs \ {q} : pc'[o] = "idle"
  BY DEF CleanInv
<1>1. q = p
  BY DEF CleanInv, Goto, TypeOK
<1>2. QED
  BY <1>1 DEF CleanInv, Goto, TypeOK

LEMMA CleanStep == TypeOK /\ CleanInv /\ [Next]_vars => CleanInv'
<1> SUFFICES ASSUME TypeOK, CleanInv, [Next]_vars PROVE CleanInv'
  OBVIOUS
<1> USE DEF TypeOK, callVars, Launched, Stale
<1>1. ASSUME NEW p \in Procs, NEW c \in Configs, Call(p, c) PROVE CleanInv'
  <2> SUFFICES ASSUME NEW q \in Procs, clean'[q], pc'[q] # "idle"
               PROVE  Undisturbed(q)' /\ \A o \in Procs \ {q} : pc'[o] = "idle"
    BY DEF CleanInv
  <2>1. q = p
    BY <1>1 DEF Call, Goto
  <2>2. QED
    BY <1>1, <2>1 DEF Call, Goto, Undisturbed
<1>2. ASSUME NEW p \in Procs, pc[p] # "idle", Goto(p, "idle"), UNCHANGED clean PROVE CleanInv'
  BY <1>2, OwnStep DEF Phases
<1>3. ASSUME NEW p \in Procs, Validate(p) PROVE CleanInv'
  <2>1. CASE Goto(p, "compare") /\ UNCHANGED <<file, running, managed, callVars>>
    <3>1. clean[p] => Undisturbed(p)'
      BY <1>3, <2>1 DEF Validate, CleanInv, Undisturbed, Goto
    <3>2. QED
      BY <1>3, <2>1, <3>1, OwnStep DEF Validate, Phases
  <2>2. QED
    BY <1>2, <1>3, <2>1 DEF Validate, Return
<1>4. ASSUME NEW p \in Procs, Compare(p) PROVE CleanInv'
  <2>1. CASE /\ prev' = [prev EXCEPT ![p] = file]
             /\ Goto(p, IF file = want[p] THEN "recover" ELSE "rename")
    <3>1. clean[p] => Undisturbed(p)'
      BY <1>4, <2>1 DEF Compare, CleanInv, Undisturbed, Goto
    <3>2. QED
      BY <1>4, <2>1, <3>1, OwnStep DEF Compare, Phases
  <2>2. QED
    BY <1>2, <1>4, <2>1 DEF Compare, Return
<1>5. ASSUME NEW p \in Procs, Unchanged(p) \/ NoPrevious(p) \/ Crash(p) PROVE CleanInv'
  BY <1>2, <1>5 DEF Unchanged, NoPrevious, GiveUp, Crash, Return
<1>6. ASSUME NEW p \in Procs, Rename(p) PROVE CleanInv'
  <2>1. CASE file' = want[p] /\ Goto(p, "restart")
    <3>1. clean[p] => Undisturbed(p)'
      BY <1>6, <2>1 DEF Rename, CleanInv, Undisturbed, Goto
    <3>2. QED
      BY <1>6, <2>1, <3>1, OwnStep DEF Rename, Phases
  <2>2. QED
    BY <1>2, <1>6, <2>1 DEF Rename, Return
<1>7. ASSUME NEW p \in Procs, Rollback(p) PROVE CleanInv'
  <2>1. CASE file' = prev[p] /\ Goto(p, "clear")
    <3>1. clean[p] => Undisturbed(p)'
      BY <1>7, <2>1 DEF Rollback, CleanInv, Undisturbed, Goto
    <3>2. QED
      BY <1>7, <2>1, <3>1, OwnStep DEF Rollback, Phases
  <2>2. QED
    BY <1>2, <1>7, <2>1 DEF Rollback, Return
<1>8. ASSUME NEW p \in Procs, NEW at \in Phases \ {"idle"}, NEW next \in Phases,
             <<at, next>> \in {<<"recover", "recoverCheck">>, <<"restart", "check">>,
                               <<"rerestart", "recheck">>},
             Start(p, at, next)
      PROVE  CleanInv'
  <2>1. clean[p] => Undisturbed(p)'
    BY <1>8 DEF Start, CleanInv, Undisturbed, Goto
  <2>2. QED
    BY <1>8, <2>1, OwnStep DEF Start
<1>9. ASSUME NEW p \in Procs, NEW at \in Phases \ {"idle"}, NEW next \in Phases,
             <<at, next>> \in {<<"check", "rollback">>, <<"clear", "rerestart">>},
             MoveOn(p, at, next)
      PROVE  CleanInv'
  <2>1. clean[p] => Undisturbed(p)'
    BY <1>9 DEF MoveOn, CleanInv, Undisturbed, Goto
  <2>2. QED
    BY <1>9, <2>1, OwnStep DEF MoveOn
<1>10. ASSUME NEW p \in Procs,
              StartFails(p, "restart", Goto(p, "rollback") /\ UNCHANGED result)
       PROVE  CleanInv'
  <2>1. clean[p] => Undisturbed(p)'
    BY <1>10 DEF StartFails, CleanInv, Undisturbed, Goto
  <2>2. QED
    BY <1>10, <2>1, OwnStep DEF StartFails, Phases
<1>11. ASSUME NEW p \in Procs, RecoverSame(p) PROVE CleanInv'
  BY <1>2, <1>8, <1>11 DEF RecoverSame, StartFails, StaysActive, GiveUp, Return, Phases
<1>12. ASSUME NEW p \in Procs, ApplyNew(p) PROVE CleanInv'
  BY <1>2, <1>8, <1>9, <1>10, <1>12 DEF ApplyNew, StaysActive, Return, Phases
<1>13. ASSUME NEW p \in Procs, Restore(p) PROVE CleanInv'
  BY <1>2, <1>8, <1>9, <1>13 DEF Restore, StartFails, StaysActive, GiveUp, Return, Phases
<1>14. CASE XrayExits \/ UnitStarts
  BY <1>14 DEF XrayExits, UnitStarts, CleanInv, Undisturbed
<1>15. CASE UNCHANGED vars
  BY <1>15 DEF vars, CleanInv, Undisturbed
<1>16. QED
  BY <1>1, <1>3, <1>4, <1>5, <1>6, <1>7, <1>11, <1>12, <1>13, <1>14, <1>15 DEF Next, Step
LEMMA Invariance == Spec => []IInv
<1>1. Init => IInv
  BY AcceptedAssumption
     DEF Init, IInv, TypeOK, Phases, Reports, OnlyTestedInstalled, Tested, CleanInv
<1>2. IInv /\ [Next]_vars => IInv'
  BY TypeStep, TestedStep, CleanStep DEF IInv
<1>3. QED
  BY <1>1, <1>2, PTL DEF Spec

-----------------------------------------------------------------------------
(***************************************************************************)
(* Every variable of XrayApply keeps its type.                             *)
(***************************************************************************)
THEOREM TypeCorrect == Spec => []TypeOK
<1>1. IInv => TypeOK
  BY DEF IInv
<1>2. QED
  BY <1>1, Invariance, PTL

(***************************************************************************)
(* However many processes apply, roll back and die at the same time, the   *)
(* file at ConfigPath is one that "xray run -test" accepted.               *)
(***************************************************************************)
THEOREM TestedOnly == Spec => []OnlyTestedInstalled
<1>1. IInv => OnlyTestedInstalled
  BY DEF IInv
<1>2. QED
  BY <1>1, Invariance, PTL

(***************************************************************************)
(* During a call that no other process disturbs, Xray runs the installed   *)
(* bytes or those the call replaced or tried.                              *)
(***************************************************************************)
THEOREM NoForeignConfig == Spec => []NothingForeignRuns
<1>1. IInv => NothingForeignRuns
  <2> SUFFICES ASSUME IInv, NEW p \in Procs, pc[p] # "idle", clean[p]
               PROVE  \/ ~Stale
                      \/ pc[p] \in {"restart", "rollback"} /\ running = prev[p]
                      \/ pc[p] \in {"clear", "rerestart"} /\ running = want[p]
    BY DEF NothingForeignRuns
  <2>1. Undisturbed(p) /\ pc[p] \in Phases /\ running \in Configs \cup {Down}
    BY DEF IInv, CleanInv, TypeOK
  <2>2. QED
    BY <2>1, DistinctAssumption DEF Undisturbed, Phases, Stale, Launched, IInv, TypeOK
<1>2. QED
  BY <1>1, Invariance, PTL

(* How a call that nobody disturbed ends.                                  *)
LEMMA EndStep ==
  ASSUME IInv, Next, NEW p \in Procs, clean[p], NEW r \in {"ok", "restored"}, Returns(p, r)
  PROVE  /\ r = "ok" => file' = want[p] /\ (managed => running' = want[p])
         /\ r = "restored" => file' = prev[p] /\ running' = prev[p]
<1> USE DEF IInv, TypeOK, Returns, Goto, Return
<1>1. Undisturbed(p)
  BY DEF CleanInv
<1>2. Step(p)
  <2>1. ASSUME NEW q \in Procs, NEW c \in Configs, Call(q, c) PROVE FALSE
    BY <2>1 DEF Call
  <2>2. ASSUME NEW q \in Procs \ {p}, Step(q) \/ Crash(q) PROVE FALSE
    <3>1. pc[q] # "idle"
      BY <2>2 DEF Step, Crash, Validate, Compare, Unchanged, Rename, RecoverSame, ApplyNew,
                  Rollback, NoPrevious, Restore, Start, StartFails, StaysActive, MoveOn, GiveUp
    <3>2. QED
      BY <3>1 DEF CleanInv
  <2>3. ~Crash(p) /\ ~XrayExits /\ ~UnitStarts
    BY DEF Crash, XrayExits, UnitStarts
  <2>4. QED
    BY <2>1, <2>2, <2>3 DEF Next
<1>3. \/ Unchanged(p) /\ r = "ok"
      \/ Rename(p) /\ r = "ok"
      \/ StaysActive(p, "recoverCheck", "ok") /\ r = "ok"
      \/ StaysActive(p, "check", "ok") /\ r = "ok"
      \/ StaysActive(p, "recheck", "restored") /\ r = "restored"
  BY <1>2 DEF Step, Validate, Compare, Unchanged, Rename, RecoverSame, ApplyNew,
              Rollback, NoPrevious, Restore, Start, StartFails, StaysActive, MoveOn, GiveUp
<1>4. QED
  BY <1>1, <1>3, DistinctAssumption
     DEF Undisturbed, Unchanged, Rename, StaysActive, Stale, Launched

(***************************************************************************)
(* A call that nobody disturbed and that reports success has installed its *)
(* bytes, and no other configuration is loaded.                            *)
(***************************************************************************)
THEOREM SuccessMeansInstalled == Spec => SuccessIsInstalled
<1>1. IInv /\ [Next]_vars =>
        [\A p \in Procs : Returns(p, "ok") /\ clean[p] =>
            /\ file' = want[p]
            /\ managed => running' = want[p]]_vars
  BY EndStep
<1>2. QED
  BY <1>1, Invariance, PTL DEF Spec, SuccessIsInstalled

(***************************************************************************)
(* A call that nobody disturbed and that says the previous configuration   *)
(* was restored has put those bytes back, and Xray has loaded them.        *)
(***************************************************************************)
THEOREM RestoredMeansPrevious == Spec => RestoredIsPrevious
<1>1. IInv /\ [Next]_vars =>
        [\A p \in Procs : Returns(p, "restored") /\ clean[p] =>
            file' = prev[p] /\ running' = prev[p]]_vars
  BY EndStep
<1>2. QED
  BY <1>1, Invariance, PTL DEF Spec, RestoredIsPrevious
-----------------------------------------------------------------------------
(***************************************************************************)
(* One process: the refinement of ConfigApply.                             *)
(***************************************************************************)
OneProcess == Procs # {} /\ \A p, q \in Procs : p = q

(* Without another process, the phase tells what is in the file.           *)
Alone ==
  /\ pc[p1] \in {"recover", "recoverCheck"} \cup Installed => file = want[p1]
  /\ pc[p1] = "rename" => file = prev[p1]

LEMMA P1 == ASSUME OneProcess PROVE p1 \in Procs /\ \A p \in Procs : p = p1
BY DEF OneProcess, p1

(* What the abstract specification sees of a step: a call, an end, a       *)
(* crash, or nothing.                                                      *)
installedBar == IF pc[p1] \in Installed THEN prev[p1] ELSE file
requestBar == IF pc[p1] = "idle" THEN NoConfig ELSE want[p1]

LEMMA AloneStep == ASSUME OneProcess PROVE TypeOK /\ Alone /\ [Next]_vars => Alone'
<1> SUFFICES ASSUME TypeOK, Alone, [Next]_vars PROVE Alone'
  OBVIOUS
<1> USE P1 DEF TypeOK, Alone, Installed, Goto, Return, callVars
<1>1. ASSUME NEW c \in Configs, Call(p1, c) PROVE Alone'
  BY <1>1 DEF Call
<1>2. CASE Validate(p1) \/ Compare(p1) \/ Unchanged(p1)
  BY <1>2 DEF Validate, Compare, Unchanged
<1>3. CASE Rename(p1) \/ Rollback(p1) \/ NoPrevious(p1) \/ Crash(p1)
  BY <1>3 DEF Rename, Rollback, NoPrevious, GiveUp, Crash
<1>4. CASE RecoverSame(p1) \/ ApplyNew(p1) \/ Restore(p1)
  BY <1>4 DEF RecoverSame, ApplyNew, Restore, Start, StartFails, StaysActive, MoveOn, GiveUp
<1>5. CASE XrayExits \/ UnitStarts \/ UNCHANGED vars
  BY <1>5 DEF XrayExits, UnitStarts, vars
<1>6. QED
  BY <1>1, <1>2, <1>3, <1>4, <1>5 DEF Next, Step

LEMMA RefineInit == ASSUME OneProcess PROVE Init => Promise!Init
<1> SUFFICES ASSUME Init PROVE Promise!Init
  OBVIOUS
<1>1. p1 \in Procs
  BY P1
<1>2. QED
  BY <1>1, AcceptedAssumption DEF Init, Promise!Init, Installed

(* A step that ends the call with report r: the promise allows it when the *)
(* configuration that counts afterwards is an ending of the call.          *)
LEMMA RefineEnd ==
  ASSUME TypeOK, OneProcess, NEW r \in Reports, pc[p1] # "idle", Return(p1, r),
         [installed |-> file', report |-> r] \in Endings(installedBar, want[p1])
  PROVE  Promise!End
<1>1. p1 \in Procs /\ want[p1] \in Configs /\ NoConfig \notin Configs
  BY P1, DistinctAssumption DEF TypeOK
<1>2. pc'[p1] = "idle" /\ result'[p1] = r
  BY <1>1 DEF Return, Goto, TypeOK
<1>3. requestBar # NoConfig /\ requestBar' = NoConfig /\ installedBar' = file' /\ requestBar = want[p1]
  BY <1>1, <1>2 DEF requestBar, installedBar, Installed
<1>4. Promise!Endings(installedBar, want[p1]) = Endings(installedBar, want[p1])
  BY DEF Promise!Endings, Endings
<1>5. PICK e \in Promise!Endings(installedBar, requestBar) : file' = e.installed /\ r = e.report
  BY <1>3, <1>4
<1>6. QED
  BY <1>2, <1>3, <1>5 DEF Promise!End, installedBar, requestBar

(* A step within the call: the promise stutters.                           *)
LEMMA RefineStutter ==
  ASSUME TypeOK, OneProcess, NEW ph \in Phases \ {"idle"}, pc[p1] # "idle", Goto(p1, ph),
         want' = want, result' = result, installedBar' = installedBar
  PROVE  UNCHANGED Promise!vars
<1>1. p1 \in Procs
  BY P1
<1>2. pc'[p1] # "idle"
  BY <1>1 DEF Goto, TypeOK
<1>3. QED
  BY <1>2 DEF Promise!vars, installedBar
LEMMA RefineStep ==
  ASSUME OneProcess
  PROVE  TypeOK /\ Alone /\ [Next]_vars => [Promise!Next]_Promise!vars
<1> SUFFICES ASSUME TypeOK, Alone, [Next]_vars PROVE [Promise!Next]_Promise!vars
  OBVIOUS
<1> USE P1 DEF callVars
<1>1. ASSUME NEW r \in Reports, pc[p1] # "idle", Return(p1, r),
             \/ r \in {"refused", "restored", "unrestored"} /\ file' = installedBar
             \/ r \in {"ok", "unrestored"} /\ file' = want[p1]
      PROVE  Promise!End
  <2>1. [installed |-> file', report |-> r] \in Endings(installedBar, want[p1])
    BY <1>1 DEF Endings
  <2>2. QED
    BY <1>1, <2>1, RefineEnd
<1>2. ASSUME NEW ph \in Phases \ {"idle"}, pc[p1] # "idle", Goto(p1, ph),
             want' = want, result' = result, installedBar' = installedBar
      PROVE  UNCHANGED Promise!vars
  BY <1>2, RefineStutter
<1>3. ASSUME NEW c \in Configs, Call(p1, c) PROVE Promise!Call(c)
  BY <1>3, DistinctAssumption DEF Call, Goto, TypeOK, Promise!Call, Installed
<1>4. CASE Validate(p1)
  <2>1. CASE Goto(p1, "compare") /\ result' = result
    BY <1>2, <1>4, <2>1 DEF Validate, Phases, Goto, TypeOK, installedBar, Installed
  <2>2. CASE Return(p1, "refused")
    BY <1>1, <1>4, <2>2 DEF Validate, Reports, installedBar, Installed, Promise!Next
  <2>3. QED
    BY <1>4, <2>1, <2>2 DEF Validate
<1>5. CASE Compare(p1)
  <2>1. CASE /\ Goto(p1, IF file = want[p1] THEN "recover" ELSE "rename")
             /\ result' = result
    BY <1>2, <1>5, <2>1 DEF Compare, Phases, Goto, TypeOK, installedBar, Installed
  <2>2. CASE Return(p1, "refused")
    BY <1>1, <1>5, <2>2 DEF Compare, Reports, installedBar, Installed, Promise!Next
  <2>3. QED
    BY <1>5, <2>1, <2>2 DEF Compare
<1>6. CASE Unchanged(p1)
  BY <1>1, <1>6 DEF Unchanged, Reports, Alone, Promise!Next
<1>7. CASE Rename(p1)
  <2>1. CASE file' = want[p1] /\ Goto(p1, "restart") /\ result' = result
    BY <1>2, <1>7, <2>1 DEF Rename, Alone, Phases, Goto, TypeOK, installedBar, Installed
  <2>2. CASE file' = want[p1] /\ Return(p1, "ok")
    BY <1>1, <1>7, <2>2 DEF Rename, Reports, Promise!Next
  <2>3. CASE Return(p1, "refused") /\ file' = file
    BY <1>1, <1>7, <2>3 DEF Rename, Reports, installedBar, Installed, Promise!Next
  <2>4. QED
    BY <1>7, <2>1, <2>2, <2>3 DEF Rename
<1>8. CASE Rollback(p1)
  <2>1. CASE file' = prev[p1] /\ Goto(p1, "clear") /\ result' = result
    BY <1>2, <1>8, <2>1 DEF Rollback, Phases, Goto, TypeOK, installedBar, Installed
  <2>2. CASE Return(p1, "unrestored") /\ file' = file
    BY <1>1, <1>8, <2>2 DEF Rollback, Alone, Reports, Installed, Promise!Next
  <2>3. QED
    BY <1>8, <2>1, <2>2 DEF Rollback
<1>9. CASE NoPrevious(p1)
  BY <1>1, <1>9 DEF NoPrevious, GiveUp, Alone, Reports, Installed, Promise!Next
<1>10. CASE RecoverSame(p1)
  <2>1. CASE Start(p1, "recover", "recoverCheck")
    BY <1>2, <2>1 DEF Start, Phases, Goto, TypeOK, installedBar, Installed
  <2>2. CASE \/ StartFails(p1, "recover", Return(p1, "unrestored"))
             \/ StaysActive(p1, "recoverCheck", "ok")
             \/ GiveUp(p1, "recoverCheck")
    BY <1>1, <2>2 DEF StartFails, StaysActive, GiveUp, Alone, Reports, Promise!Next
  <2>3. QED
    BY <1>10, <2>1, <2>2 DEF RecoverSame
<1>11. CASE ApplyNew(p1)
  <2>1. CASE \/ Start(p1, "restart", "check")
             \/ StartFails(p1, "restart", Goto(p1, "rollback") /\ UNCHANGED result)
             \/ MoveOn(p1, "check", "rollback")
    BY <1>2, <2>1 DEF Start, StartFails, MoveOn, Phases, Goto, TypeOK, installedBar, Installed
  <2>2. CASE StaysActive(p1, "check", "ok")
    BY <1>1, <2>2 DEF StaysActive, Alone, Reports, Installed, Promise!Next
  <2>3. QED
    BY <1>11, <2>1, <2>2 DEF ApplyNew
<1>12. CASE Restore(p1)
  <2>1. CASE MoveOn(p1, "clear", "rerestart") \/ Start(p1, "rerestart", "recheck")
    BY <1>2, <2>1 DEF Start, MoveOn, Phases, Goto, TypeOK, installedBar, Installed
  <2>2. CASE \/ GiveUp(p1, "clear") \/ GiveUp(p1, "recheck")
             \/ StartFails(p1, "rerestart", Return(p1, "unrestored"))
             \/ StaysActive(p1, "recheck", "restored")
    BY <1>1, <2>2
       DEF StartFails, StaysActive, GiveUp, Reports, installedBar, Installed, Promise!Next
  <2>3. QED
    BY <1>12, <2>1, <2>2 DEF Restore
<1>13. CASE Crash(p1)
  <2>1. /\ pc[p1] # "idle" /\ pc'[p1] = "idle" /\ result'[p1] = "none"
        /\ file' = file /\ prev' = prev /\ want' = want /\ want[p1] # NoConfig
    BY <1>13, DistinctAssumption DEF Crash, Return, Goto, TypeOK
  <2>2. Promise!Crash
    BY <2>1 DEF Promise!Crash, Alone, Installed
  <2>3. QED
    BY <2>2 DEF Promise!Next
<1>14. CASE XrayExits \/ UnitStarts \/ UNCHANGED vars
  BY <1>14 DEF XrayExits, UnitStarts, vars, Promise!vars
<1>15. QED
  BY <1>3, <1>4, <1>5, <1>6, <1>7, <1>8, <1>9, <1>10, <1>11, <1>12, <1>13, <1>14
     DEF Next, Step, Promise!Next

(***************************************************************************)
(* While a single process calls it, applyLocked keeps the promise its      *)
(* callers rely on: a register that a successful call replaces and an      *)
(* error leaves alone, unless it owns up to not having restored it.        *)
(***************************************************************************)
THEOREM Implements == ASSUME OneProcess PROVE Spec => ImplementsConfigApply
<1>1. Init => Alone
  BY P1 DEF Init, Alone, Installed
<1>2. TypeOK /\ Alone /\ [Next]_vars => Alone'
  BY AloneStep
<1>3. Init => Promise!Init
  BY RefineInit
<1>4. TypeOK /\ Alone /\ [Next]_vars => [Promise!Next]_Promise!vars
  BY RefineStep
<1>5. QED
  BY <1>1, <1>2, <1>3, <1>4, TypeCorrect, PTL DEF Spec, ImplementsConfigApply, Promise!Spec
==============================================================================
