-------------------------- MODULE TwoProcessesProofs --------------------------
(***************************************************************************)
(* Proofs about the parts of TwoProcesses, for any accounts, settings,     *)
(* names, passwords, requests, units and hosts.                            *)
(*                                                                         *)
(* Of each part the first lemma says that its variables follow its own     *)
(* next-state relation; its invariant and its theorems come after.  Those  *)
(* of the managers are taken from XrayApplyProofs.                         *)
(***************************************************************************)
EXTENDS TwoProcesses, XrayApplyProofs

-----------------------------------------------------------------------------
(* The managers of the panel and of the terminal                           *)
LEMMA ApplyRuns == TwoSpec => Spec
<1>1. TwoInit => Init
  BY DEF TwoInit
<1>2. [TwoNext]_twoVars => [Next]_vars
  BY DEF TwoNext, twoVars, vars, ApplyMoves, AdminMoves, RestoreMoves, CutoverMoves
<1>3. QED
  BY <1>1, <1>2, PTL DEF TwoSpec, Spec

(* Whatever panel and terminal do to each other's calls (applyLocked), no  *)
(* configuration is installed that xray run -test has not passed.          *)
THEOREM TestedBySomeone == TwoSpec => []OnlyTestedInstalled
BY ApplyRuns, TestedOnly, PTL

(* While a call is undisturbed, Xray runs what was there or what it        *)
(* installs (applyLocked, restoreConfig).                                  *)
THEOREM NoneForeign == TwoSpec => []NothingForeignRuns
BY ApplyRuns, NoForeignConfig, PTL

(* A call that reports success, and was not disturbed by the other         *)
(* process, has installed its configuration.                               *)
THEOREM SuccessIsTrue == TwoSpec => SuccessIsInstalled
BY ApplyRuns, SuccessMeansInstalled, PTL

(* A call that reports a restored service, and was not disturbed by the    *)
(* other process, has put the previous configuration back.                 *)
THEOREM RestoredIsTrue == TwoSpec => RestoredIsPrevious
BY ApplyRuns, RestoredMeansPrevious, PTL

-----------------------------------------------------------------------------
(* The restore of a backup by the terminal                                 *)
LEMMA RestoreRuns == TwoSpec => Terminal!Init /\ [][Terminal!Next]_Terminal!vars
<1>1. TwoInit => Terminal!Init
  BY DEF TwoInit
<1>2. [TwoNext]_twoVars => [Terminal!Next]_Terminal!vars
  BY DEF TwoNext, twoVars, restoreVars, Terminal!vars, ApplyMoves, AdminMoves,
         RestoreMoves, CutoverMoves
<1>3. QED
  BY <1>1, <1>2, PTL DEF TwoSpec

(* From here on the snapshot is in a backup.                               *)
Saved == {"load", "apply", "replace", "reapply", "restart", "unreplace", "restartAgain"}

Silent == tStep # "idle" => tReport = "none"
Kept == tStep \in Saved => tOld \in tBackups
Placed ==
  tQuiet =>
    /\ tStep \in {"backup", "load", "apply", "replace", "reapply"} => tDb = tOld
    /\ tStep \in {"replace", "restart"} => tXray = tTarget
    /\ tStep = "restart" => tDb = tTarget
    /\ tStep = "restartAgain" /\ ~tSlipped => tDb = tOld

RestoreInv == Silent /\ Kept /\ Placed /\ Terminal!NothingLost

LEMMA RestoreInitially == Terminal!Init => RestoreInv
  BY DEF Terminal!Init, RestoreInv, Silent, Kept, Placed, Terminal!NothingLost, Saved

(* What the panel does to an account ends the quiet.                       *)
LEMMA PanelKeeps == ASSUME RestoreInv, Terminal!PanelApply \/ Terminal!PanelWrite
   \/ Terminal!PanelStarts PROVE RestoreInv'
<1>1. CASE Terminal!PanelApply
  BY <1>1 DEF Terminal!PanelApply, RestoreInv, Silent, Kept, Placed, Terminal!NothingLost,
     Saved
<1>2. CASE Terminal!PanelWrite
  BY <1>2 DEF Terminal!PanelWrite, RestoreInv, Silent, Kept, Placed, Terminal!NothingLost,
     Saved
<1>3. CASE Terminal!PanelStarts
  BY <1>3 DEF Terminal!PanelStarts, RestoreInv, Silent, Kept, Placed, Terminal!NothingLost,
     Saved
<1> QED
  BY <1>1, <1>2, <1>3

(* A step that ends the call and leaves database and backups alone.        *)
LEMMA ReturnKeepsRestore ==
  ASSUME RestoreInv, tStep' = "idle", UNCHANGED <<tDb, tBackups, tOld, tQuiet>>
  PROVE  RestoreInv'
  BY DEF RestoreInv, Silent, Kept, Placed, Terminal!NothingLost, Saved

LEMMA PreparationKeeps == ASSUME RestoreInv, Terminal!Snapshot \/ Terminal!CreateBackup
   \/ Terminal!Load PROVE RestoreInv'
<1>1. CASE Terminal!Snapshot
  BY <1>1 DEF Terminal!Snapshot, RestoreInv, Silent, Kept, Placed, Terminal!NothingLost, Saved
<1>2. CASE Terminal!Refuse
  BY <1>2, ReturnKeepsRestore DEF Terminal!Refuse, Terminal!Return
<1>3. CASE tStep = "backup" /\ tBackups' = tBackups \cup {tOld} /\ Terminal!Goto("load")
           /\ UNCHANGED <<tDb, tXray, Terminal!panel, tOld, tTarget, tSlipped, tQuiet>>
  BY <1>3 DEF Terminal!Goto, RestoreInv, Silent, Kept, Placed, Terminal!NothingLost, Saved
<1>4. CASE tStep = "load" /\ tTarget' \in tBackups /\ Terminal!Goto("apply")
           /\ UNCHANGED <<tDb, tXray, Terminal!panel, tBackups, tOld, tSlipped, tQuiet>>
  BY <1>4 DEF Terminal!Goto, RestoreInv, Silent, Kept, Placed, Terminal!NothingLost, Saved
<1> QED
  BY <1>1, <1>2, <1>3, <1>4 DEF Terminal!CreateBackup, Terminal!Load

(* A call that reports "ok" has installed what it was asked to.            *)
LEMMA OkInstalls == ASSUME NEW c, Terminal!Apply(c, "ok") PROVE tXray' = c
<1>1. PICK e \in Terminal!Endings(tXray, c) : e.report = "ok" /\ tXray' = e.installed
  BY DEF Terminal!Apply
<1>2. e \in [installed : {tXray}, report : {"refused", "restored", "unrestored"}]
        => e.report # "ok"
  OBVIOUS
<1>3. e = [installed |-> c, report |-> "ok"] \/ e = [installed |-> c, report |-> "unrestored"]
  BY <1>1, <1>2 DEF Terminal!Endings
<1> QED
  BY <1>1, <1>3

LEMMA ApplyTargetKeeps == ASSUME RestoreInv, Terminal!ApplyTarget PROVE RestoreInv'
<1>1. CASE Terminal!Apply(tTarget, "ok") /\ Terminal!Goto("replace") /\ UNCHANGED tSlipped
  <2>1. tXray' = tTarget
    BY <1>1, OkInstalls
  <2> QED
    BY <1>1, <2>1 DEF Terminal!ApplyTarget, Terminal!Goto, RestoreInv, Silent, Kept, Placed,
       Terminal!NothingLost, Saved
<1>2. CASE \E r \in Terminal!Errors :
             Terminal!Apply(tTarget, r) /\ Terminal!Return("broken")
                /\ tSlipped' = (r = "unrestored")
  BY <1>2, ReturnKeepsRestore DEF Terminal!ApplyTarget, Terminal!Return
<1> QED
  BY <1>1, <1>2 DEF Terminal!ApplyTarget

LEMMA CommitKeeps == ASSUME RestoreInv, Terminal!Replace \/ Terminal!Reapply
   \/ Terminal!RestartPanel PROVE RestoreInv'
<1>1. CASE Terminal!Replace
  BY <1>1 DEF Terminal!Replace, Terminal!Goto, RestoreInv, Silent, Kept, Placed,
     Terminal!NothingLost, Saved
<1>2. CASE Terminal!Reapply
  BY <1>2, ReturnKeepsRestore DEF Terminal!Reapply, Terminal!Return
<1>3. CASE Terminal!RestartPanel
  <2>1. CASE Terminal!Return("ok")
    BY <1>3, <2>1, ReturnKeepsRestore DEF Terminal!RestartPanel, Terminal!Return
  <2>2. CASE Terminal!Goto("unreplace")
    BY <1>3, <2>2 DEF Terminal!RestartPanel, Terminal!Goto, RestoreInv, Silent, Kept, Placed,
       Terminal!NothingLost, Saved
  <2> QED
    BY <1>3, <2>1, <2>2 DEF Terminal!RestartPanel
<1> QED
  BY <1>1, <1>2, <1>3

LEMMA RollbackKeeps == ASSUME RestoreInv, Terminal!Unreplace \/ Terminal!RestartAgain
   \/ Terminal!Interrupted PROVE RestoreInv'
<1>1. CASE Terminal!Unreplace
  BY <1>1 DEF Terminal!Unreplace, Terminal!Goto, RestoreInv, Silent, Kept, Placed,
     Terminal!NothingLost, Saved
<1>2. CASE Terminal!RestartAgain
  BY <1>2, ReturnKeepsRestore DEF Terminal!RestartAgain, Terminal!Return
<1>3. CASE Terminal!Interrupted
  BY <1>3, ReturnKeepsRestore DEF Terminal!Interrupted
<1> QED
  BY <1>1, <1>2, <1>3

LEMMA RestoreInductive == RestoreInv /\ [Terminal!Next]_Terminal!vars => RestoreInv'
<1>1. ASSUME RestoreInv, UNCHANGED Terminal!vars PROVE RestoreInv'
  BY <1>1 DEF Terminal!vars, RestoreInv, Silent, Kept, Placed, Terminal!NothingLost, Saved
<1> QED
  BY <1>1, PanelKeeps, PreparationKeeps, ApplyTargetKeeps, CommitKeeps, RollbackKeeps
     DEF Terminal!Next

LEMMA RestoreInvariance == TwoSpec => []RestoreInv
  BY RestoreRuns, RestoreInitially, RestoreInductive, PTL

(* The database a restore found is still there, or in a backup, wherever   *)
(* restoreSnapshotCLI is cut short.                                        *)
THEOREM NeverLost == TwoSpec => []NothingLost
<1>1. RestoreInv => NothingLost
  BY DEF RestoreInv, NothingLost
<1> QED
  BY <1>1, RestoreInvariance, PTL

(* The panel's steps and the steps in the middle of a restore report       *)
(* nothing.                                                                *)
LEMMA ReportsAtEnd ==
  ASSUME RestoreInv, [Terminal!Next]_Terminal!vars, tStep # "idle", tReport' # "none"
  PROVE  Terminal!Refuse \/ Terminal!ApplyTarget \/ Terminal!Reapply
         \/ Terminal!RestartPanel \/ Terminal!RestartAgain
<1>1. tReport = "none"
  BY DEF RestoreInv, Silent
<1>2. ~UNCHANGED Terminal!vars
  BY <1>1 DEF Terminal!vars
<1>3. ~Terminal!PanelApply /\ ~Terminal!PanelWrite /\ ~Terminal!PanelStarts
  BY <1>1 DEF Terminal!PanelApply, Terminal!PanelWrite, Terminal!PanelStarts
<1>4. ~Terminal!Snapshot /\ ~Terminal!Replace /\ ~Terminal!Unreplace /\ ~Terminal!Interrupted
  BY <1>1 DEF Terminal!Snapshot, Terminal!Replace, Terminal!Unreplace, Terminal!Interrupted,
     Terminal!Goto
<1>5. Terminal!CreateBackup \/ Terminal!Load => Terminal!Refuse
  BY <1>1 DEF Terminal!CreateBackup, Terminal!Load, Terminal!Goto
<1> QED
  BY <1>2, <1>3, <1>4, <1>5 DEF Terminal!Next

(* A restore that reports success has brought database, Xray and panel to  *)
(* the backup, unless an account was worked on meanwhile.                  *)
THEOREM RestoresWhole == TwoSpec => RestoredWhole
<1>1. ASSUME RestoreInv, [Terminal!Next]_Terminal!vars, tStep = "restart", tReport' = "ok",
      tQuiet
      PROVE  tDb' = tTarget /\ tXray' = tTarget /\ tMem' = tTarget.settings
  <2>1. tDb = tTarget /\ tXray = tTarget
    BY <1>1 DEF RestoreInv, Placed
  <2>2. Terminal!RestartPanel
    BY <1>1, ReportsAtEnd DEF Terminal!Refuse, Terminal!Return, Terminal!ApplyTarget,
       Terminal!Reapply, Terminal!RestartAgain
  <2>3. Terminal!Started
    BY <1>1, <2>2 DEF Terminal!RestartPanel, Terminal!Goto, RestoreInv, Silent
  <2> QED
    BY <2>1, <2>2, <2>3 DEF Terminal!RestartPanel, Terminal!Started
<1>2. RestoreInv /\ [Terminal!Next]_Terminal!vars =>
        [tStep = "restart" /\ tReport' = "ok" /\ tQuiet =>
                 tDb' = tTarget /\ tXray' = tTarget /\ tMem' = tTarget.settings]_Terminal!vars
  BY <1>1
<1> QED
  BY <1>2, RestoreRuns, RestoreInvariance, PTL DEF RestoredWhole, Terminal!RestoredWhole

(* A restore that was rolled back has left database and Xray as it found   *)
(* them, when no step of the rollback failed.                              *)
THEOREM RollsBackWhole == TwoSpec => RolledBackWhole
<1>1. ASSUME RestoreInv, [Terminal!Next]_Terminal!vars, tStep # "idle",
      tReport' = "rolled back", tQuiet, ~tSlipped'
      PROVE  tDb' = tOld /\ tXray' = tOld
  <2>1. ~Terminal!RestartPanel
    BY <1>1 DEF Terminal!RestartPanel, Terminal!Return, Terminal!Goto, RestoreInv, Silent
  <2>2. ~Terminal!Refuse /\ ~Terminal!ApplyTarget
    BY <1>1 DEF Terminal!Refuse, Terminal!Return, Terminal!ApplyTarget, Terminal!Goto,
       RestoreInv, Silent
  <2>3. CASE Terminal!Reapply
    <3>1. Terminal!Apply(tOld, "ok")
      BY <1>1, <2>3 DEF Terminal!Reapply
    <3>2. tDb = tOld
      BY <1>1, <2>3 DEF Terminal!Reapply, RestoreInv, Placed
    <3> QED
      BY <2>3, <3>1, <3>2, OkInstalls DEF Terminal!Reapply
  <2>4. CASE Terminal!RestartAgain
    <3>1. Terminal!Apply(tOld, "ok") /\ ~tSlipped
      BY <1>1, <2>4 DEF Terminal!RestartAgain
    <3>2. tDb = tOld
      BY <1>1, <2>4, <3>1 DEF Terminal!RestartAgain, RestoreInv, Placed
    <3> QED
      BY <2>4, <3>1, <3>2, OkInstalls DEF Terminal!RestartAgain
  <2> QED
    BY <1>1, <2>1, <2>2, <2>3, <2>4, ReportsAtEnd
<1>2. RestoreInv /\ [Terminal!Next]_Terminal!vars =>
        [tStep # "idle" /\ tReport' = "rolled back" /\ tQuiet /\ ~tSlipped' =>
                 tDb' = tOld /\ tXray' = tOld]_Terminal!vars
  BY <1>1
<1> QED
  BY <1>2, RestoreRuns, RestoreInvariance, PTL DEF RolledBackWhole, Terminal!RolledBackWhole

-----------------------------------------------------------------------------
(* Administrator, sessions and settings                                    *)
LEMMA AdminRuns == TwoSpec => Admin!Init /\ [][Admin!Next]_Admin!vars
<1>1. TwoInit => Admin!Init
  BY DEF TwoInit
<1>2. [TwoNext]_twoVars => [Admin!Next]_Admin!vars
  BY DEF TwoNext, twoVars, adminVars, Admin!vars, ApplyMoves, AdminMoves,
         RestoreMoves, CutoverMoves
<1>3. QED
  BY <1>1, <1>2, PTL DEF TwoSpec

(* What a request that has read the administrator is going to write.       *)
Written ==
  \A r \in Requests :
    /\ aAt[r] # "idle" => aUser[r] \in Names /\ aForm[r] \in Admin!Forms
    /\ aAt[r] = "save" => aHash[r] \in Passwords

(* The values the terminal has written so far are those of its pair.       *)
Halfway ==
  ~aTorn => /\ aTerm = "cert" => aDb.cert = aPair
            /\ aTerm = "key" => aDb.key = aPair

(* A session about to be made is one of an administrator that is there.    *)
Making ==
  ~aLagging => /\ aLogin # NoName => aLogin \in Admin!Admins
               /\ \A r \in Requests : aAt[r] \in {"clear", "create"} =>
                    aForm[r].name \in Admin!Admins

AdminInv ==
  /\ Admin!TypeOK /\ Written
  /\ Admin!OneAdmin
  /\ Admin!Startable /\ Halfway
  /\ Admin!SessionsCurrent /\ Making

LEMMA Entries ==
  ASSUME NEW t \in Admin!Tables
  PROVE  DOMAIN t \subseteq Names /\ \A n \in DOMAIN t : t[n] \in Passwords
  BY DEF Admin!Tables

LEMMA RenameEntry ==
  ASSUME aDb \in Admin!Databases, NEW from, NEW to \in Names, NEW h \in Passwords
  PROVE  /\ Admin!Renamed(from, to, h) \in Admin!Tables
         /\ DOMAIN Admin!Renamed(from, to, h) = (Admin!Admins \ {from}) \cup {to}
<1>1. Admin!Admins \subseteq Names /\ \A n \in Admin!Admins : aDb.admins[n] \in Passwords
  BY Entries DEF Admin!Databases, Admin!Admins
<1>2. Admin!Renamed(from, to, h) \in [(Admin!Admins \ {from}) \cup {to} -> Passwords]
  BY <1>1 DEF Admin!Renamed
<1>3. QED
  BY <1>1, <1>2 DEF Admin!Tables

LEMMA AdminBegins == Admin!Init => AdminInv
<1> SUFFICES ASSUME Admin!Init PROVE AdminInv
  OBVIOUS
<1>1. PICK n \in Names, p \in Passwords :
        aDb = [admins |-> [m \in {n} |-> p], cert |-> NoPair, key |-> NoPair]
  BY DEF Admin!Init
<1>2. aDb \in Admin!Databases /\ Admin!Admins = {n}
  BY <1>1 DEF Admin!Databases, Admin!Tables, Admin!Files, Admin!Admins
<1>3. Admin!TypeOK
  BY <1>2 DEF Admin!Init, Admin!TypeOK, Admin!Phases, Admin!Files
<1>4. Written /\ Admin!OneAdmin /\ Admin!Startable /\ Halfway /\ Admin!SessionsCurrent
      /\ Making
  BY <1>1, <1>2 DEF Admin!Init, Written, Admin!OneAdmin, Admin!Startable, Halfway,
     Admin!SessionsCurrent, Making
<1>5. QED
  BY <1>3, <1>4 DEF AdminInv

LEMMA SendStep ==
  ASSUME AdminInv, NEW r \in Requests, Admin!Send(r)
  PROVE  AdminInv'
<1> USE DEF Admin!Send, Admin!terminal
<1>1. Admin!TypeOK'
  BY DEF AdminInv, Admin!TypeOK, Admin!Phases
<1>2. Written'
  BY DEF AdminInv, Admin!TypeOK, Written
<1>3. Admin!OneAdmin' /\ Admin!Startable' /\ Halfway' /\ Admin!SessionsCurrent' /\ Making'
  BY DEF AdminInv, Admin!TypeOK, Admin!OneAdmin, Admin!Admins, Admin!Startable, Halfway,
         Admin!SessionsCurrent, Making
<1>4. QED
  BY <1>1, <1>2, <1>3 DEF AdminInv

LEMMA ReadStep ==
  ASSUME AdminInv, NEW r \in Requests, Admin!Read(r)
  PROVE  AdminInv'
<1> USE DEF Admin!Read, Admin!terminal, Admin!Finish
<1>0. aUser[r] \in Admin!Admins => aDb.admins[aUser[r]] \in Passwords
  BY Entries DEF AdminInv, Admin!TypeOK, Admin!Databases, Admin!Admins
<1>1. Admin!TypeOK'
  BY <1>0 DEF AdminInv, Admin!TypeOK, Written, Admin!Phases, Admin!Forms
<1>2. Written'
  BY <1>0 DEF AdminInv, Admin!TypeOK, Written, Admin!Forms
<1>3. Admin!OneAdmin' /\ Admin!Startable' /\ Halfway' /\ Admin!SessionsCurrent' /\ Making'
  BY DEF AdminInv, Admin!TypeOK, Admin!OneAdmin, Admin!Admins, Admin!Startable, Halfway,
         Admin!SessionsCurrent, Making
<1>4. QED
  BY <1>1, <1>2, <1>3 DEF AdminInv

LEMMA SaveStep ==
  ASSUME AdminInv, NEW r \in Requests, Admin!Save(r)
  PROVE  AdminInv'
<1> USE DEF Admin!Save, Admin!terminal
<1>1. CASE UNCHANGED <<aDb, aTorn, aLagging>> /\ Admin!Finish(r)
  <2>1. Admin!TypeOK' /\ Written'
    BY <1>1 DEF AdminInv, Admin!TypeOK, Written, Admin!Finish, Admin!Phases
  <2>2. Admin!OneAdmin' /\ Admin!Startable' /\ Halfway' /\ Admin!SessionsCurrent' /\ Making'
    BY <1>1 DEF AdminInv, Admin!TypeOK, Admin!OneAdmin, Admin!Admins, Admin!Startable,
       Halfway, Admin!SessionsCurrent, Making, Admin!Finish
  <2>3. QED
    BY <2>1, <2>2 DEF AdminInv
<1>2. ASSUME NEW cert \in Admin!Files, NEW key \in Admin!Files, cert = key,
             Admin!CanApply(aUser[r], aForm[r].name),
             aDb' = [admins |-> Admin!Renamed(aUser[r], aForm[r].name, aHash[r]), cert |-> cert, key |-> key],
             Admin!Lags(Admin!Changing(r)), Admin!Tears(Admin!Mixed),
             \/ Admin!Changing(r) /\ aAt' = [aAt EXCEPT ![r] = "clear"]
                  /\ UNCHANGED <<aUser, aForm, aHash>>
             \/ ~Admin!Changing(r) /\ Admin!Finish(r)
      PROVE  AdminInv'
  <2>1. aUser[r] \in Names /\ aForm[r] \in Admin!Forms /\ aForm[r].name \in Names
        /\ aHash[r] \in Passwords
    BY DEF AdminInv, Written, Admin!Forms
  <2>2. /\ aDb' \in Admin!Databases
        /\ Admin!Admins' = {aForm[r].name}
        /\ aDb'.cert = aDb'.key
    <3>1. Admin!Admins = {aUser[r]}
      BY <1>2 DEF Admin!CanApply, AdminInv, Admin!OneAdmin
    <3>2. /\ Admin!Renamed(aUser[r], aForm[r].name, aHash[r]) \in Admin!Tables
          /\ DOMAIN Admin!Renamed(aUser[r], aForm[r].name, aHash[r])
                = (Admin!Admins \ {aUser[r]}) \cup {aForm[r].name}
      <4>1. aDb \in Admin!Databases
        BY DEF AdminInv, Admin!TypeOK
      <4>2. QED
        BY <2>1, <4>1, RenameEntry
    <3>3. QED
      BY <1>2, <3>1, <3>2 DEF Admin!Databases, Admin!Admins
  <2>3. Admin!TypeOK' /\ Written'
    BY <1>2, <2>2 DEF AdminInv, Admin!TypeOK, Written, Admin!Finish, Admin!Phases,
       Admin!Lags, Admin!Tears, Admin!Mixed, Admin!Changing
  <2>4. Admin!OneAdmin'
    BY <2>1, <2>2 DEF AdminInv, Admin!OneAdmin
  <2>5. Admin!Startable' /\ Halfway'
    BY <1>2, <2>2 DEF AdminInv, Admin!TypeOK, Admin!Startable, Halfway, Admin!Tears,
       Admin!Mixed
  <2>6. CASE Admin!Changing(r)
    <3>1. aAt' = [aAt EXCEPT ![r] = "clear"] /\ aForm' = aForm /\ aAt'[r] = "clear"
      BY <1>2, <2>6 DEF AdminInv, Admin!TypeOK, Admin!Finish
    <3>2. Admin!SessionsCurrent'
      BY <3>1 DEF Admin!SessionsCurrent
    <3>3. ~aLagging' => aLogin = NoName
          /\ \A q \in Requests : aAt[q] \notin {"clear", "create"}
      BY <1>2, <2>6 DEF Admin!Lags, AdminInv, Admin!TypeOK
    <3>4. Making'
      BY <2>2, <3>1, <3>3 DEF Making, AdminInv, Admin!TypeOK
    <3>5. QED
      BY <2>3, <2>4, <2>5, <3>2, <3>4 DEF AdminInv
  <2>7. CASE ~Admin!Changing(r)
    <3>1. Admin!Finish(r) /\ Admin!Admins' = Admin!Admins /\ aLagging' = aLagging
      BY <1>2, <2>2, <2>7 DEF Admin!Changing, Admin!CanApply, AdminInv, Admin!OneAdmin,
         Admin!Lags, Admin!TypeOK
    <3>2. Admin!SessionsCurrent' /\ Making'
      BY <3>1 DEF Admin!Finish, Admin!SessionsCurrent, Making, AdminInv, Admin!TypeOK
    <3>3. QED
      BY <2>3, <2>4, <2>5, <3>2 DEF AdminInv
  <2>8. QED
    BY <2>6, <2>7
<1>3. QED
  BY <1>1, <1>2 DEF Admin!ValidTLS

LEMMA ClearStep ==
  ASSUME AdminInv, NEW r \in Requests, Admin!Clear(r)
  PROVE  AdminInv'
<1> USE DEF Admin!Clear, Admin!terminal
<1>1. Admin!TypeOK' /\ Written'
  BY DEF AdminInv, Admin!TypeOK, Written, Admin!Phases
<1>2. Admin!OneAdmin' /\ Admin!Startable' /\ Halfway' /\ Admin!SessionsCurrent' /\ Making'
  BY DEF AdminInv, Admin!TypeOK, Admin!OneAdmin, Admin!Admins, Admin!Startable, Halfway,
         Admin!SessionsCurrent, Making
<1>3. QED
  BY <1>1, <1>2 DEF AdminInv

LEMMA CreateStep ==
  ASSUME AdminInv, NEW r \in Requests, Admin!Create(r)
  PROVE  AdminInv'
<1> USE DEF Admin!Create, Admin!terminal, Admin!Finish
<1>1. Admin!TypeOK' /\ Written'
  BY DEF AdminInv, Admin!TypeOK, Written, Admin!Phases, Admin!Forms
<1>2. Admin!OneAdmin' /\ Admin!Startable' /\ Halfway' /\ Admin!SessionsCurrent' /\ Making'
  BY DEF AdminInv, Admin!TypeOK, Admin!OneAdmin, Admin!Admins, Admin!Startable, Halfway,
         Admin!SessionsCurrent, Making
<1>3. QED
  BY <1>1, <1>2 DEF AdminInv

LEMMA LoginSteps ==
  ASSUME AdminInv, (\E n \in Names : Admin!Login(n) \/ Admin!SessionEnds(n)) \/ Admin!LoggedIn
  PROVE  AdminInv'
<1> USE DEF Admin!Login, Admin!SessionEnds, Admin!LoggedIn, Admin!request, Admin!terminal
<1>1. Admin!TypeOK' /\ Written'
  BY DEF AdminInv, Admin!TypeOK, Written
<1>2. Admin!OneAdmin' /\ Admin!Startable' /\ Halfway' /\ Admin!SessionsCurrent' /\ Making'
  BY DEF AdminInv, Admin!TypeOK, Admin!OneAdmin, Admin!Admins, Admin!Startable, Halfway,
         Admin!SessionsCurrent, Making
<1>3. QED
  BY <1>1, <1>2 DEF AdminInv

LEMMA BackupStep ==
  ASSUME AdminInv, Admin!Backup
  PROVE  AdminInv'
<1> USE DEF Admin!Backup, Admin!request, Admin!terminal, Admin!Tears, Admin!Mixed
<1>1. Admin!TypeOK' /\ Written'
  BY DEF AdminInv, Admin!TypeOK, Written
<1>2. Admin!OneAdmin' /\ Admin!Startable' /\ Halfway' /\ Admin!SessionsCurrent' /\ Making'
  BY DEF AdminInv, Admin!TypeOK, Admin!OneAdmin, Admin!Admins, Admin!Startable, Halfway,
         Admin!SessionsCurrent, Making
<1>3. QED
  BY <1>1, <1>2 DEF AdminInv

LEMMA RestoreStep ==
  ASSUME AdminInv, Admin!Restore
  PROVE  AdminInv'
<1> USE DEF Admin!Restore, Admin!terminal
<1>1. Admin!TypeOK' /\ Written'
  BY DEF AdminInv, Admin!TypeOK, Written, Admin!Tears, Admin!Lags, Admin!Mixed
<1>2. Admin!OneAdmin' /\ Admin!Startable' /\ Halfway'
  BY DEF AdminInv, Admin!TypeOK, Admin!OneAdmin, Admin!Admins, Admin!Startable, Halfway,
         Admin!Tears, Admin!Mixed
<1>3. Admin!SessionsCurrent' /\ Making'
  <2>1. ~aLagging' => aLogin = NoName /\ \A q \in Requests : aAt[q] \notin {"clear", "create"}
    BY DEF Admin!Lags, AdminInv, Admin!TypeOK
  <2>2. QED
    BY <2>1 DEF Admin!SessionsCurrent, Making
<1>4. QED
  BY <1>1, <1>2, <1>3 DEF AdminInv

LEMMA RestoredStep ==
  ASSUME AdminInv, Admin!Restored
  PROVE  AdminInv'
<1> USE DEF Admin!Restored, Admin!terminal
<1>1. Admin!TypeOK' /\ Written'
  BY DEF AdminInv, Admin!TypeOK, Written
<1>2. Admin!OneAdmin' /\ Admin!Startable' /\ Halfway' /\ Admin!SessionsCurrent' /\ Making'
  BY DEF AdminInv, Admin!TypeOK, Admin!OneAdmin, Admin!Admins, Admin!Startable, Halfway,
         Admin!SessionsCurrent, Making
<1>3. QED
  BY <1>1, <1>2 DEF AdminInv

LEMMA AdminMenuStep ==
  ASSUME AdminInv, Admin!AdminMenu
  PROVE  AdminInv'
<1> USE DEF Admin!AdminMenu, Admin!request
<1>1. Admin!TypeOK' /\ Written'
  <2>1. \A n \in Admin!Admins : n \in Names /\ aDb.admins[n] \in Passwords
    BY Entries DEF AdminInv, Admin!TypeOK, Admin!Databases, Admin!Admins
  <2>2. aOld' \in [name : Names, hash : Passwords]
    BY <2>1
  <2>3. QED
    BY <2>2 DEF AdminInv, Admin!TypeOK, Written
<1>2. Admin!OneAdmin' /\ Admin!Startable' /\ Halfway' /\ Admin!SessionsCurrent' /\ Making'
  BY DEF AdminInv, Admin!TypeOK, Admin!OneAdmin, Admin!Admins, Admin!Startable, Halfway,
         Admin!SessionsCurrent, Making
<1>3. QED
  BY <1>1, <1>2 DEF AdminInv

LEMMA AdminSaveStep ==
  ASSUME AdminInv, Admin!AdminSave
  PROVE  AdminInv'
<1> USE DEF Admin!AdminSave, Admin!request, Admin!Close
<1>1. CASE UNCHANGED <<aDb, aLagging>>
  <2>1. Admin!TypeOK' /\ Written'
    BY <1>1 DEF AdminInv, Admin!TypeOK, Written, Admin!Files
  <2>2. Admin!OneAdmin' /\ Admin!Startable' /\ Halfway' /\ Admin!SessionsCurrent' /\ Making'
    BY <1>1 DEF AdminInv, Admin!TypeOK, Admin!OneAdmin, Admin!Admins, Admin!Startable,
       Halfway, Admin!SessionsCurrent, Making
  <2>3. QED
    BY <2>1, <2>2 DEF AdminInv
<1>2. ASSUME NEW n \in Names, NEW h \in Passwords, Admin!CanApply(aOld.name, n),
             aDb' = [aDb EXCEPT !.admins = Admin!Renamed(aOld.name, n, h)], aLagging' = TRUE
      PROVE  AdminInv'
  <2>1. Admin!Admins = {aOld.name}
    BY <1>2 DEF Admin!CanApply, AdminInv, Admin!OneAdmin
  <2>2. /\ Admin!Renamed(aOld.name, n, h) \in Admin!Tables
        /\ DOMAIN Admin!Renamed(aOld.name, n, h) = (Admin!Admins \ {aOld.name}) \cup {n}
    <3>1. aDb \in Admin!Databases
      BY DEF AdminInv, Admin!TypeOK
    <3>2. QED
      BY <3>1, RenameEntry
  <2>3. aDb' \in Admin!Databases /\ Admin!Admins' = {n} /\ aDb'.cert = aDb.cert
        /\ aDb'.key = aDb.key
    BY <1>2, <2>1, <2>2 DEF AdminInv, Admin!TypeOK, Admin!Databases, Admin!Admins
  <2>4. Admin!TypeOK' /\ Written'
    BY <1>2, <2>3 DEF AdminInv, Admin!TypeOK, Written, Admin!Files
  <2>5. Admin!OneAdmin' /\ Admin!Startable' /\ Halfway' /\ Admin!SessionsCurrent' /\ Making'
    BY <1>2, <2>3 DEF AdminInv, Admin!OneAdmin, Admin!Startable, Halfway,
       Admin!SessionsCurrent, Making
  <2>6. QED
    BY <2>4, <2>5 DEF AdminInv
<1>3. QED
  BY <1>1, <1>2

LEMMA SettingsSteps ==
  ASSUME AdminInv, Admin!SettingsMenu \/ Admin!SetCert \/ Admin!SetKey \/ Admin!SettingsCut
  PROVE  AdminInv'
<1> USE DEF Admin!SettingsMenu, Admin!SetCert, Admin!SetKey, Admin!SettingsCut, Admin!Close,
            Admin!Tears, Admin!request
<1>1. aDb' \in Admin!Databases /\ Admin!Admins' = Admin!Admins
  <2>1. aDb \in Admin!Databases /\ aPair \in Admin!Files
    BY DEF AdminInv, Admin!TypeOK
  <2>2. aDb' = aDb \/ aDb' = [aDb EXCEPT !.cert = aPair] \/ aDb' = [aDb EXCEPT !.key = aPair]
    OBVIOUS
  <2>3. QED
    BY <2>1, <2>2 DEF Admin!Databases, Admin!Admins
<1>2. Admin!TypeOK' /\ Written'
  BY <1>1 DEF AdminInv, Admin!TypeOK, Written, Admin!Files
<1>3. Admin!Startable' /\ Halfway'
  BY DEF AdminInv, Admin!TypeOK, Admin!Databases, Admin!Startable, Halfway
<1>4. Admin!OneAdmin' /\ Admin!SessionsCurrent' /\ Making'
  BY <1>1 DEF AdminInv, Admin!OneAdmin, Admin!SessionsCurrent, Making
<1>5. QED
  BY <1>2, <1>3, <1>4 DEF AdminInv

LEMMA LaunchSteps ==
  ASSUME AdminInv, Admin!Restart \/ Admin!RestartAsked
  PROVE  AdminInv'
<1> USE DEF Admin!Restart, Admin!RestartAsked, Admin!Launch, Admin!Close, Admin!terminal
<1>1. Admin!TypeOK' /\ Written'
  <2>1. aUp' \in BOOLEAN
    BY Zenon
  <2>2. /\ UNCHANGED <<aDb, aBackups, aTorn, aLagging>>
        /\ aSessions' = {} /\ aLogin' = NoName /\ aClearing' = FALSE
        /\ aAt' = [r \in Requests |-> "idle"]
        /\ aUser' = [r \in Requests |-> NoName]
        /\ aForm' = [r \in Requests |-> Admin!NoForm]
        /\ aHash' = [r \in Requests |-> ""]
        /\ \/ UNCHANGED <<aTerm, aOld, aPair>>
           \/ aTerm' = "idle" /\ aOld' = Admin!NoAdmin /\ aPair' = NoPair
    BY Zenon
  <2> HIDE DEF Admin!Restart, Admin!RestartAsked, Admin!Launch, Admin!Close, Admin!terminal
  <2>3. QED
    BY <2>1, <2>2 DEF AdminInv, Admin!TypeOK, Written, Admin!Phases, Admin!Files
<1>2. Admin!OneAdmin' /\ Admin!Startable' /\ Halfway' /\ Admin!SessionsCurrent' /\ Making'
  BY DEF AdminInv, Admin!TypeOK, Admin!OneAdmin, Admin!Admins, Admin!Startable, Halfway,
         Admin!SessionsCurrent, Making
<1>3. QED
  BY <1>1, <1>2 DEF AdminInv

LEMMA AdminStutters ==
  ASSUME AdminInv, UNCHANGED Admin!vars
  PROVE  AdminInv'
<1> USE DEF Admin!vars
<1>1. Admin!TypeOK' /\ Written'
  BY DEF AdminInv, Admin!TypeOK, Written
<1>2. Admin!OneAdmin' /\ Admin!Startable' /\ Halfway' /\ Admin!SessionsCurrent' /\ Making'
  BY DEF AdminInv, Admin!OneAdmin, Admin!Admins, Admin!Startable, Halfway,
         Admin!SessionsCurrent, Making
<1>3. QED
  BY <1>1, <1>2 DEF AdminInv

LEMMA AdminInvariance == TwoSpec => []AdminInv
<1>1. AdminInv /\ [Admin!Next]_Admin!vars => AdminInv'
  <2> SUFFICES ASSUME AdminInv, [Admin!Next]_Admin!vars PROVE AdminInv'
    OBVIOUS
  <2>1. CASE Admin!Next
    BY <2>1, SendStep, ReadStep, SaveStep, ClearStep, CreateStep, LoginSteps, BackupStep,
       RestoreStep, RestoredStep, AdminMenuStep, AdminSaveStep, SettingsSteps, LaunchSteps
       DEF Admin!Next
  <2>2. QED
    BY <2>1, AdminStutters
<1>2. QED
  BY AdminRuns, AdminBegins, <1>1, PTL

(* Types of the administrator, its sessions, the settings and the backups. *)
THEOREM AdminTypeCorrect == TwoSpec => []Admin!TypeOK
<1>1. AdminInv => Admin!TypeOK
  BY DEF AdminInv
<1>2. QED
  BY AdminInvariance, <1>1, PTL

(* There is one administrator, in the database and in every backup,        *)
(* whoever saves (applyAdmin), restores or renames.                        *)
THEOREM KeepsOneAdmin == TwoSpec => []OneAdmin
<1>1. AdminInv => OneAdmin
  BY DEF AdminInv, OneAdmin
<1>2. QED
  BY AdminInvariance, <1>1, PTL

(* The panel can start with the TLS files it is told to use, unless the    *)
(* terminal was cut short between the two of them.                         *)
THEOREM StaysStartable == TwoSpec => []Startable
<1>1. AdminInv => Startable
  BY DEF AdminInv, Startable
<1>2. QED
  BY AdminInvariance, <1>1, PTL

(* A session is one of the administrator there is, unless the name was     *)
(* changed where the panel did not see it.                                 *)
THEOREM SessionsAreCurrent == TwoSpec => []SessionsCurrent
<1>1. AdminInv => SessionsCurrent
  BY DEF AdminInv, SessionsCurrent
<1>2. QED
  BY AdminInvariance, <1>1, PTL

-----------------------------------------------------------------------------
(* The cutover from the old panel                                          *)
LEMMA CutoverRuns == TwoSpec => Cutover!Init /\ [][Cutover!Next]_Cutover!vars
<1>1. TwoInit => Cutover!Init
  BY DEF TwoInit
<1>2. [TwoNext]_twoVars => [Cutover!Next]_Cutover!vars
  BY DEF TwoNext, twoVars, cutoverVars, Cutover!vars, ApplyMoves, AdminMoves,
         RestoreMoves, CutoverMoves
<1>3. QED
  BY <1>1, <1>2, PTL DEF TwoSpec

FoundOK ==
  mFound \in [file : [Cutover!Files -> Cutover!Contents], runs : SUBSET Cutover!Services, on : [Old -> Cutover!Enabled],
              rmask : SUBSET Old, active : SUBSET Old]

(* What was noted when a cutover began is what it found.                   *)
Noted ==
  /\ \A u \in Old : mRec.shown[u] = IF u \in mFound.rmask THEN "masked-runtime" ELSE mFound.on[u]
  /\ mScript \/ mStep # "idle" => mRec.runs = mFound.runs /\ mRec.active = mFound.active

(* The copies are made before anything is changed.                         *)
CopiedFirst ==
  ~mWrote =>
    /\ mStep = "copy" => mFile = mFound.file
    /\ mScript \/ mStep \notin {"idle", "copy"} => mCopy = mFound.file

(* Only what was enabled is disabled, and only after the proof; what is    *)
(* neither enabled nor disabled stays so.                                  *)
Enabling ==
  /\ mStep \in {"finalize", "script"} => mProved
  /\ \A u \in Old : mFound.on[u] \notin {"enabled", "disabled"} => mOn[u] = mFound.on[u]

(* What an undo has put back so far.                                       *)
Undone ==
  /\ mStep # "idle" => mReport = "none"
  /\ ~mWoken => mActive \subseteq mFound.active
  /\ ~mWrote /\ mStep \in {"dropConfig", "copyConfig", "units", "start", "services"} =>
       mFile["db"] = mFound.file["db"]
  /\ ~mWrote /\ mStep \in {"units", "start", "services"} =>
       mFile["config"] = mFound.file["config"]
  /\ ~mSlipped /\ mStep \in {"dropDb", "copyDb", "dropConfig", "copyConfig", "units", "start",
                             "services"} => mRuns = {}
  /\ ~mSlipped /\ mStep = "units" => \A u \in Old \ mTodo : Cutover!Shown(u) = mRec.shown[u]
  /\ ~mSlipped /\ mStep \in {"start", "services"} =>
       \A u \in Old : Cutover!Shown(u) = mRec.shown[u]
  /\ mStep = "start" => mTodo = mRec.active
  /\ ~mSlipped /\ ~mWoken /\ mStep = "services" => mActive = mFound.active

CutoverInv ==
  /\ Cutover!TypeOK /\ FoundOK
  /\ Noted /\ CopiedFirst /\ Enabling /\ Undone
  /\ Cutover!Recoverable

LEMMA CutoverBegins == Cutover!Init => CutoverInv
<1> SUFFICES ASSUME Cutover!Init PROVE CutoverInv
  OBVIOUS
<1>1. /\ mFile \in [Cutover!Files -> Cutover!Contents]
      /\ mRuns \subseteq Cutover!Services
      /\ mOn \in [Old -> Cutover!Enabled]
      /\ mRmask \subseteq Old /\ mActive \subseteq Old
  BY DEF Cutover!Init, Cutover!HostAssumption, Cutover!Contents
<1>2. Cutover!TypeOK /\ FoundOK
  <2>1. mRec \in Cutover!Recorded
    <3>1. [u \in Old |-> Cutover!Shown(u)] \in [Old -> Cutover!Enabled \cup {"masked-runtime"}]
      BY <1>1 DEF Cutover!Shown
    <3>2. QED
      BY <3>1 DEF Cutover!Init, Cutover!Recorded
  <2>2. /\ mStep = "idle" /\ mReport = "none" /\ mTodo = {} /\ mBegun = 0 /\ mDisturbed = 0
        /\ mCopy = [f \in Cutover!Files |-> "none"]
        /\ mScript = FALSE /\ mWrote = FALSE /\ mWoken = FALSE /\ mSlipped = FALSE
             /\ mProved = FALSE
    BY DEF Cutover!Init
  <2>3. Cutover!TypeOK
    <3>1. 0 \in 0..MaxCutovers /\ 0 \in 0..MaxDisturbances
      BY CutoverAssumption
    <3>2. mCopy \in [Cutover!Files -> Cutover!Contents]
      BY <2>2 DEF Cutover!Contents
    <3>3. QED
      BY <1>1, <2>1, <2>2, <3>1, <3>2 DEF Cutover!TypeOK, Cutover!Steps, Cutover!Reports
  <2>4. FoundOK
    BY <1>1 DEF Cutover!Init, FoundOK, Cutover!Host
  <2>5. QED
    BY <2>3, <2>4
<1>3. Noted /\ CopiedFirst /\ Enabling /\ Undone /\ Cutover!Recoverable
  BY DEF Cutover!Init, Cutover!HostAssumption, Noted, CopiedFirst, Enabling, Undone,
         Cutover!Recoverable, Cutover!Host, Cutover!Shown
<1>4. QED
  BY <1>2, <1>3 DEF CutoverInv

(* How a step moves on, and what it leaves alone.                          *)
USE DEF Cutover!host, Cutover!kept, Cutover!ghosts, Cutover!Goto, Cutover!Proceed,
   Cutover!Exit, Cutover!Fails, Cutover!Steps, Cutover!Reports

LEMMA BeginStep ==
  ASSUME CutoverInv, Cutover!Begin
  PROVE  CutoverInv'
<1> USE DEF Cutover!Begin, Cutover!Host
<1>1. Cutover!TypeOK' /\ FoundOK'
  <2>1. mRec' \in Cutover!Recorded /\ mCopy' \in [Cutover!Files -> Cutover!Contents]
    <3>1. [u \in Old |-> Cutover!Shown(u)] \in [Old -> Cutover!Enabled \cup {"masked-runtime"}]
      BY DEF CutoverInv, Cutover!TypeOK, Cutover!Shown
    <3>2. QED
      BY <3>1 DEF CutoverInv, Cutover!TypeOK, Cutover!Recorded, Cutover!Contents
  <2>2. mBegun' \in 0..MaxCutovers
    BY CutoverAssumption DEF CutoverInv, Cutover!TypeOK
  <2> HIDE DEF Cutover!Begin
  <2>5. Cutover!TypeOK'
    <3>1. /\ UNCHANGED <<mFile, mRuns, mOn, mRmask, mActive, mDisturbed>>
          /\ mStep' = "copy" /\ mTodo' = {} /\ mReport' = "none"
          /\ mScript' = FALSE /\ mWrote' = FALSE /\ mWoken' = FALSE
          /\ mSlipped' = FALSE /\ mProved' = FALSE
      BY DEF Cutover!Begin
    <3>2. QED
      BY <2>1, <2>2, <3>1 DEF CutoverInv, Cutover!TypeOK, Cutover!Steps, Cutover!Reports
  <2>3. FoundOK'
    BY DEF CutoverInv, Cutover!TypeOK, FoundOK, Cutover!Begin
  <2>4. QED
    BY <2>5, <2>3
<1>2. Noted' /\ CopiedFirst'
  BY DEF Noted, CopiedFirst, Cutover!Shown
<1>3. Enabling' /\ Cutover!Recoverable'
  BY DEF CutoverInv, Cutover!TypeOK, FoundOK, Noted, CopiedFirst, Enabling,
         Cutover!Recoverable
<1>4. Undone'
  BY DEF CutoverInv, Cutover!TypeOK, FoundOK, Noted, CopiedFirst, Undone, Cutover!Shown
<1>5. QED
  BY <1>1, <1>2, <1>3, <1>4 DEF CutoverInv

LEMMA PrepareSteps ==
  ASSUME CutoverInv, Cutover!Copy \/ Cutover!Stop \/ Cutover!Source
  PROVE  CutoverInv'
<1> USE DEF Cutover!Copy, Cutover!Stop, Cutover!Source
<1>1. Cutover!TypeOK' /\ FoundOK'
  BY DEF CutoverInv, Cutover!TypeOK, FoundOK
<1>2. Noted' /\ CopiedFirst'
  BY DEF CutoverInv, Cutover!TypeOK, FoundOK, Noted, CopiedFirst
<1>3. Enabling' /\ Cutover!Recoverable'
  BY DEF CutoverInv, Cutover!TypeOK, FoundOK, Noted, CopiedFirst, Enabling,
         Cutover!Recoverable
<1>4. Undone'
  BY DEF CutoverInv, Cutover!TypeOK, FoundOK, Noted, CopiedFirst, Undone, Cutover!Shown
<1>5. QED
  BY <1>1, <1>2, <1>3, <1>4 DEF CutoverInv

LEMMA UnitSteps ==
  ASSUME CutoverInv, NEW u \in Old, Cutover!Quiesce(u) \/ Cutover!Finalize(u)
  PROVE  CutoverInv'
<1> USE DEF Cutover!Quiesce, Cutover!Finalize, Cutover!Enabled
<1>1. Cutover!TypeOK' /\ FoundOK'
  BY DEF CutoverInv, Cutover!TypeOK, FoundOK
<1>2. Noted' /\ CopiedFirst'
  BY DEF CutoverInv, Cutover!TypeOK, FoundOK, Noted, CopiedFirst
<1>3. Enabling' /\ Cutover!Recoverable'
  BY DEF CutoverInv, Cutover!TypeOK, FoundOK, Noted, CopiedFirst, Enabling,
         Cutover!Recoverable
<1>4. Undone'
  BY DEF CutoverInv, Cutover!TypeOK, FoundOK, Noted, CopiedFirst, Undone, Cutover!Shown
<1>5. QED
  BY <1>1, <1>2, <1>3, <1>4 DEF CutoverInv

LEMMA FileSteps ==
  ASSUME CutoverInv, Cutover!Import \/ Cutover!Render
  PROVE  CutoverInv'
<1> USE DEF Cutover!Import, Cutover!Render, Cutover!Files, Cutover!Contents
<1>1. Cutover!TypeOK' /\ FoundOK'
  BY DEF CutoverInv, Cutover!TypeOK, FoundOK
<1>2. Noted' /\ CopiedFirst'
  BY DEF CutoverInv, Cutover!TypeOK, FoundOK, Noted, CopiedFirst
<1>3. Enabling' /\ Cutover!Recoverable'
  BY DEF CutoverInv, Cutover!TypeOK, FoundOK, Noted, CopiedFirst, Enabling,
         Cutover!Recoverable
<1>4. Undone'
  BY DEF CutoverInv, Cutover!TypeOK, FoundOK, Noted, CopiedFirst, Undone, Cutover!Shown
<1>5. QED
  BY <1>1, <1>2, <1>3, <1>4 DEF CutoverInv

LEMMA StartSteps ==
  ASSUME CutoverInv, Cutover!StartXray \/ Cutover!StartPanel
  PROVE  CutoverInv'
<1> USE DEF Cutover!StartXray, Cutover!StartPanel, Cutover!Starts, Cutover!Services
<1>1. Cutover!TypeOK' /\ FoundOK'
  BY DEF CutoverInv, Cutover!TypeOK, FoundOK
<1>2. Noted' /\ CopiedFirst'
  BY DEF CutoverInv, Cutover!TypeOK, FoundOK, Noted, CopiedFirst
<1>3. Enabling' /\ Cutover!Recoverable'
  BY DEF CutoverInv, Cutover!TypeOK, FoundOK, Noted, CopiedFirst, Enabling,
         Cutover!Recoverable
<1>4. Undone'
  BY DEF CutoverInv, Cutover!TypeOK, FoundOK, Noted, CopiedFirst, Undone, Cutover!Shown
<1>5. QED
  BY <1>1, <1>2, <1>3, <1>4 DEF CutoverInv

LEMMA EndSteps ==
  ASSUME CutoverInv, Cutover!WriteScript \/ Cutover!Interrupt \/ Cutover!RollbackScript
  PROVE  CutoverInv'
<1> USE DEF Cutover!WriteScript, Cutover!Interrupt, Cutover!RollbackScript, Cutover!Trapped
<1>1. Cutover!TypeOK' /\ FoundOK'
  BY DEF CutoverInv, Cutover!TypeOK, FoundOK
<1>2. Noted' /\ CopiedFirst'
  BY DEF CutoverInv, Cutover!TypeOK, FoundOK, Noted, CopiedFirst
<1>3. Enabling' /\ Cutover!Recoverable'
  BY DEF CutoverInv, Cutover!TypeOK, FoundOK, Noted, CopiedFirst, Enabling,
         Cutover!Recoverable
<1>4. Undone'
  BY DEF CutoverInv, Cutover!TypeOK, FoundOK, Noted, CopiedFirst, Undone, Cutover!Shown
<1>5. QED
  BY <1>1, <1>2, <1>3, <1>4 DEF CutoverInv

LEMMA UndoServiceSteps ==
  ASSUME CutoverInv, Cutover!UndoStop \/ Cutover!UndoStart \/ Cutover!UndoServices
  PROVE  CutoverInv'
<1> USE DEF Cutover!UndoStop, Cutover!UndoStart, Cutover!UndoServices, Cutover!Slips,
            Cutover!Recorded
<1>1. Cutover!TypeOK' /\ FoundOK'
  BY DEF CutoverInv, Cutover!TypeOK, FoundOK
<1>2. Noted' /\ CopiedFirst'
  BY DEF CutoverInv, Cutover!TypeOK, FoundOK, Noted, CopiedFirst
<1>3. Enabling' /\ Cutover!Recoverable'
  BY DEF CutoverInv, Cutover!TypeOK, FoundOK, Noted, CopiedFirst, Enabling,
         Cutover!Recoverable
<1>4. Undone'
  <2> USE DEF CutoverInv, Cutover!TypeOK, FoundOK, Noted, CopiedFirst, Undone, Cutover!Shown
  <2>1. CASE Cutover!UndoStop
    BY <2>1
  <2>2. CASE Cutover!UndoStart
    BY <2>2
  <2>3. CASE Cutover!UndoServices
    BY <2>3
  <2>4. QED
    BY <2>1, <2>2, <2>3
<1>5. QED
  BY <1>1, <1>2, <1>3, <1>4 DEF CutoverInv

LEMMA UndoFileSteps ==
  ASSUME CutoverInv, Cutover!UndoDb \/ Cutover!UndoConfig
  PROVE  CutoverInv'
<1> USE DEF Cutover!UndoDb, Cutover!UndoConfig, Cutover!Drop, Cutover!PutBack, Cutover!Files,
            Cutover!Contents
<1>1. Cutover!TypeOK' /\ FoundOK'
  BY DEF CutoverInv, Cutover!TypeOK, FoundOK
<1>2. Noted' /\ CopiedFirst'
  BY DEF CutoverInv, Cutover!TypeOK, FoundOK, Noted, CopiedFirst
<1>3. Enabling' /\ Cutover!Recoverable'
  BY DEF CutoverInv, Cutover!TypeOK, FoundOK, Noted, CopiedFirst, Enabling,
         Cutover!Recoverable
<1>4. Undone'
  BY DEF CutoverInv, Cutover!TypeOK, FoundOK, Noted, CopiedFirst, Undone, Cutover!Shown
<1>5. QED
  BY <1>1, <1>2, <1>3, <1>4 DEF CutoverInv

LEMMA UndoUnitStep ==
  ASSUME CutoverInv, NEW u \in Old, Cutover!UndoUnit(u)
  PROVE  CutoverInv'
<1> USE DEF Cutover!UndoUnit, Cutover!Slips, Cutover!Recorded, Cutover!Enabled
<1>1. Cutover!TypeOK' /\ FoundOK'
  BY DEF CutoverInv, Cutover!TypeOK, FoundOK
<1>2. Noted' /\ CopiedFirst'
  BY DEF CutoverInv, Cutover!TypeOK, FoundOK, Noted, CopiedFirst
<1>3. \A v \in Old : \/ mOn'[v] = mOn[v]
                     \/ mOn'[v] = mRec.shown[v] /\ mRec.shown[v] \in {"enabled", "disabled"}
  <2>1. mOn' \in {mOn, IF mRec.shown[u] \in {"enabled", "disabled"}
                                     THEN [mOn EXCEPT ![u] = mRec.shown[u]] ELSE mOn}
    BY Zenon
  <2>2. mOn \in [Old -> Cutover!Enabled]
    BY DEF CutoverInv, Cutover!TypeOK
  <2> HIDE DEF Cutover!UndoUnit
  <2>3. CASE mOn' = mOn
    BY <2>3
  <2>4. CASE mRec.shown[u] \in {"enabled", "disabled"}
        /\ mOn' = [mOn EXCEPT ![u] = mRec.shown[u]]
    <3>1. \A v \in Old : mOn'[v] = IF v = u THEN mRec.shown[u] ELSE mOn[v]
      BY <2>2, <2>4
    <3>2. QED
      BY <2>4, <3>1
  <2>5. QED
    BY <2>1, <2>3, <2>4
<1>4. \A v \in Old : mRec.shown[v] # "masked-runtime" => mFound.on[v] = mRec.shown[v]
  BY DEF CutoverInv, Noted
<1>5. Enabling' /\ Cutover!Recoverable'
  <2>1. Enabling'
    BY <1>3, <1>4 DEF CutoverInv, Enabling
  <2>2. Cutover!Recoverable'
    BY <1>3, <1>4 DEF CutoverInv, Cutover!Recoverable
  <2>3. QED
    BY <2>1, <2>2
<1>6. Undone'
  <2>1. \A v \in Old \ {u} : Cutover!Shown(v)' = Cutover!Shown(v)
    BY DEF CutoverInv, Cutover!TypeOK, Cutover!Shown
  <2>2. ~mSlipped' => ~mSlipped /\ Cutover!Shown(u)' = mRec.shown[u]
    <3>1. SUFFICES ASSUME ~mSlipped' PROVE ~mSlipped /\ Cutover!Shown(u)' = mRec.shown[u]
      OBVIOUS
    <3>2. CASE mRec.shown[u] = "masked-runtime"
      BY <3>1, <3>2 DEF Cutover!Shown
    <3>3. CASE mRec.shown[u] \in {"enabled", "disabled"}
      BY <3>1, <3>3 DEF Cutover!Shown, CutoverInv, Cutover!TypeOK
    <3>4. CASE mRec.shown[u] \notin {"masked-runtime", "enabled", "disabled"}
      BY <3>1, <3>4, <1>4 DEF Cutover!Shown, CutoverInv, Enabling
    <3>5. QED
      BY <3>2, <3>3, <3>4
  <2>3. QED
    BY <2>1, <2>2 DEF CutoverInv, Cutover!TypeOK, Undone
<1>7. QED
  BY <1>1, <1>2, <1>5, <1>6 DEF CutoverInv

LEMMA PanelWritesStep ==
  ASSUME CutoverInv, Cutover!PanelWrites
  PROVE  CutoverInv'
<1> USE DEF Cutover!PanelWrites, Cutover!Disturbs, Cutover!Files, Cutover!Contents
<1>1. Cutover!TypeOK' /\ FoundOK'
  BY CutoverAssumption DEF CutoverInv, Cutover!TypeOK, FoundOK
<1>2. Noted' /\ CopiedFirst'
  BY DEF CutoverInv, Cutover!TypeOK, FoundOK, Noted, CopiedFirst
<1>3. Enabling' /\ Cutover!Recoverable'
  <2>1. PICK f \in Cutover!Files :
          mFile' = [mFile EXCEPT ![f] = "later"] /\ mWrote' = (mWrote \/ mFile[f] = mFound.file[f])
    OBVIOUS
  <2>2. ~mWrote' => ~mWrote /\ mFile[f] # mFound.file[f]
    BY <2>1
  <2>3. ~mWrote' => \A g \in Cutover!Files : mFile'[g] = mFound.file[g]
        \/ mCopy[g] = mFound.file[g]
    BY <2>1, <2>2 DEF CutoverInv, Cutover!TypeOK, Cutover!Recoverable
  <2>4. QED
    BY <2>3 DEF CutoverInv, Enabling, Cutover!Recoverable
<1>4. Undone'
  BY DEF CutoverInv, Cutover!TypeOK, FoundOK, Noted, CopiedFirst, Undone, Cutover!Shown
<1>5. QED
  BY <1>1, <1>2, <1>3, <1>4 DEF CutoverInv

LEMMA RespawnStep ==
  ASSUME CutoverInv, NEW u \in Old, Cutover!Respawn(u)
  PROVE  CutoverInv'
<1> USE DEF Cutover!Respawn, Cutover!Disturbs
<1>1. Cutover!TypeOK' /\ FoundOK'
  BY CutoverAssumption DEF CutoverInv, Cutover!TypeOK, FoundOK
<1>2. Noted' /\ CopiedFirst'
  BY DEF CutoverInv, Cutover!TypeOK, FoundOK, Noted, CopiedFirst
<1>3. Enabling' /\ Cutover!Recoverable'
  BY DEF CutoverInv, Cutover!TypeOK, FoundOK, Noted, CopiedFirst, Enabling,
         Cutover!Recoverable
<1>4. Undone'
  BY DEF CutoverInv, Cutover!TypeOK, FoundOK, Noted, CopiedFirst, Undone, Cutover!Shown
<1>5. QED
  BY <1>1, <1>2, <1>3, <1>4 DEF CutoverInv

LEMMA CutSteps ==
  ASSUME CutoverInv, Cutover!Killed \/ Cutover!Reboot
  PROVE  CutoverInv'
<1> USE DEF Cutover!Killed, Cutover!Reboot, Cutover!Disturbs
<1>1. Cutover!TypeOK' /\ FoundOK'
  <2> USE CutoverAssumption DEF CutoverInv, Cutover!TypeOK, FoundOK
  <2>1. CASE Cutover!Killed
    BY <2>1
  <2>2. CASE Cutover!Reboot
    BY <2>2
  <2>3. QED
    BY <2>1, <2>2
<1>2. Noted' /\ CopiedFirst'
  BY DEF CutoverInv, Cutover!TypeOK, FoundOK, Noted, CopiedFirst
<1>3. Enabling' /\ Cutover!Recoverable'
  BY DEF CutoverInv, Cutover!TypeOK, FoundOK, Noted, CopiedFirst, Enabling,
         Cutover!Recoverable
<1>4. Undone'
  BY DEF CutoverInv, Cutover!TypeOK, FoundOK, Noted, CopiedFirst, Undone, Cutover!Shown
<1>5. QED
  BY <1>1, <1>2, <1>3, <1>4 DEF CutoverInv

LEMMA CutoverStutters ==
  ASSUME CutoverInv, UNCHANGED Cutover!vars
  PROVE  CutoverInv'
<1> USE DEF Cutover!vars
<1>1. Cutover!TypeOK' /\ FoundOK'
  BY DEF CutoverInv, Cutover!TypeOK, FoundOK
<1>2. Noted' /\ CopiedFirst'
  BY DEF CutoverInv, Cutover!TypeOK, FoundOK, Noted, CopiedFirst
<1>3. Enabling' /\ Cutover!Recoverable'
  BY DEF CutoverInv, Cutover!TypeOK, FoundOK, Noted, CopiedFirst, Enabling,
         Cutover!Recoverable
<1>4. Undone'
  BY DEF CutoverInv, Cutover!TypeOK, FoundOK, Noted, CopiedFirst, Undone, Cutover!Shown
<1>5. QED
  BY <1>1, <1>2, <1>3, <1>4 DEF CutoverInv

HIDE DEF Cutover!host, Cutover!kept, Cutover!ghosts, Cutover!Goto, Cutover!Proceed,
   Cutover!Exit, Cutover!Fails, Cutover!Steps, Cutover!Reports

LEMMA CutoverInvariance == TwoSpec => []CutoverInv
<1>1. CutoverInv /\ [Cutover!Next]_Cutover!vars => CutoverInv'
  <2> SUFFICES ASSUME CutoverInv, [Cutover!Next]_Cutover!vars PROVE CutoverInv'
    OBVIOUS
  <2>1. CASE Cutover!Next
    BY <2>1, BeginStep, PrepareSteps, UnitSteps, FileSteps, StartSteps, EndSteps,
       UndoFileSteps, UndoUnitStep, UndoServiceSteps, PanelWritesStep, RespawnStep, CutSteps,
       CutoverStutters DEF Cutover!Next, Cutover!Decline
  <2>2. QED
    BY <2>1, CutoverStutters
<1>2. QED
  BY CutoverRuns, CutoverBegins, <1>1, PTL

LEMMA EndsAsBefore ==
  ASSUME CutoverInv, [Cutover!Next]_Cutover!vars, mStep # "idle", mReport' = "undone",
     ~mSlipped', ~mWrote
  PROVE  /\ mFile' = mFound.file /\ mRuns' = mFound.runs
         /\ [u \in Old |-> Cutover!Shown(u)]' = mRec.shown
         /\ mWoken \/ mActive' = mFound.active
<1>1. Cutover!UndoServices
  <2>1. mReport = "none" /\ ~UNCHANGED Cutover!vars
    BY DEF CutoverInv, Undone, Cutover!vars
  <2>2. Cutover!Next
    BY <2>1
  <2> USE DEF Cutover!Goto, Cutover!Proceed, Cutover!Exit, Cutover!Fails
  <2>3. ~Cutover!Decline /\ ~Cutover!Begin /\ ~Cutover!Copy /\ ~Cutover!Stop
        /\ ~Cutover!Source /\ ~Cutover!Import /\ ~Cutover!Render
    BY <2>1 DEF Cutover!Decline, Cutover!Begin, Cutover!Copy, Cutover!Stop, Cutover!Source,
       Cutover!Import, Cutover!Render
  <2>4. ~Cutover!StartXray /\ ~Cutover!StartPanel /\ ~Cutover!WriteScript
        /\ ~Cutover!Interrupt
    BY <2>1 DEF Cutover!StartXray, Cutover!StartPanel, Cutover!Starts, Cutover!WriteScript,
       Cutover!Interrupt
  <2>5. \A u \in Old : ~Cutover!Quiesce(u) /\ ~Cutover!Finalize(u) /\ ~Cutover!UndoUnit(u)
        /\ ~Cutover!Respawn(u)
    BY <2>1 DEF Cutover!Quiesce, Cutover!Finalize, Cutover!UndoUnit, Cutover!Respawn,
       Cutover!kept
  <2>6. ~Cutover!RollbackScript /\ ~Cutover!UndoStop /\ ~Cutover!UndoDb
        /\ ~Cutover!UndoConfig /\ ~Cutover!UndoStart
    BY <2>1 DEF Cutover!RollbackScript, Cutover!UndoStop, Cutover!UndoDb, Cutover!UndoConfig,
       Cutover!Drop, Cutover!PutBack, Cutover!UndoStart
  <2>7. ~Cutover!PanelWrites /\ ~Cutover!Killed /\ ~Cutover!Reboot
    BY <2>1 DEF Cutover!PanelWrites, Cutover!Killed, Cutover!Reboot
  <2>8. QED
    BY <2>2, <2>3, <2>4, <2>5, <2>6, <2>7 DEF Cutover!Next
<1>2. /\ mStep = "services" /\ ~mSlipped
      /\ UNCHANGED <<mFile, mOn, mRmask, mActive>>
      /\ mRuns' = mRec.runs
  <2>1. mStep = "services" /\ ~mSlipped /\ UNCHANGED <<mFile, mOn, mRmask, mActive>>
    BY <1>1 DEF Cutover!UndoServices, Cutover!Slips
  <2>2. mRuns = {}
    BY <2>1 DEF CutoverInv, Undone
  <2>3. QED
    BY <1>1, <2>1, <2>2 DEF Cutover!UndoServices, Cutover!Slips
<1>3. mFile = mFound.file
  BY <1>2 DEF CutoverInv, Cutover!TypeOK, FoundOK, Undone, Cutover!Files
<1>4. [u \in Old |-> Cutover!Shown(u)] = mRec.shown
  <2>1. \A u \in Old : Cutover!Shown(u) = mRec.shown[u]
    BY <1>2 DEF CutoverInv, Undone
  <2>2. mRec.shown \in [Old -> Cutover!Enabled \cup {"masked-runtime"}]
    BY DEF CutoverInv, Cutover!TypeOK, Cutover!Recorded
  <2>3. QED
    BY <2>1, <2>2
<1>5. [u \in Old |-> Cutover!Shown(u)]' = [u \in Old |-> Cutover!Shown(u)]
  BY <1>2 DEF Cutover!Shown
<1>6. mRec.runs = mFound.runs
  BY <1>2 DEF CutoverInv, Noted
<1>7. mWoken \/ mActive' = mFound.active
  BY <1>2 DEF CutoverInv, Undone
<1>8. QED
  BY <1>2, <1>3, <1>4, <1>5, <1>6, <1>7

(* Types of the host, of the script and of what it has noted.              *)
THEOREM CutoverTypeCorrect == TwoSpec => []Cutover!TypeOK
<1>1. CutoverInv => Cutover!TypeOK
  BY DEF CutoverInv
<1>2. QED
  BY CutoverInvariance, <1>1, PTL

(* Wherever a cutover or its undo (migrate-xpanel.sh) stops, X-port's      *)
(* files are in place or in the backup, and the old panel is enabled as it *)
(* was until the new services were seen active.                            *)
THEOREM Recovers == TwoSpec => []Recoverable
<1>1. CutoverInv => Recoverable
  BY DEF CutoverInv, Recoverable
<1>2. QED
  BY CutoverInvariance, <1>1, PTL

(* An undo that ends, at once or by rollback.sh, leaves files, services    *)
(* and units as the cutover found them, if no command it ignores has       *)
(* failed and nobody else changed them.                                    *)
THEOREM UndoneIsAsBefore == TwoSpec => AsBefore
<1>1. CutoverInv /\ [Cutover!Next]_Cutover!vars =>
        [mStep # "idle" /\ mReport' = "undone" /\ ~mSlipped' /\ ~mWrote =>
                 /\ mFile' = mFound.file /\ mRuns' = mFound.runs
                 /\ [u \in Old |-> Cutover!Shown(u)]' = mRec.shown
                 /\ mWoken \/ mActive' = mFound.active]_Cutover!vars
  BY EndsAsBefore
<1>2. QED
  BY CutoverRuns, CutoverInvariance, <1>1, PTL DEF AsBefore, Cutover!AsBefore
==============================================================================
