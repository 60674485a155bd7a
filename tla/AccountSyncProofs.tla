-------------------------- MODULE AccountSyncProofs --------------------------
(***************************************************************************)
(* Proofs about AccountSync for every set of handlers, ports, account      *)
(* tables and global configurations: types, agreement of the three copies, *)
(* the API port, and all-or-nothing requests.                              *)
(***************************************************************************)
EXTENDS AccountSync, TLAPS

(* Accounts.mu is held exactly by the handler that serves a locked request.*)
LockInv == \A h \in Handlers : kind[h] \in Locked <=> mu = h

(* Where a request can stand, by its kind.                                 *)
PhaseInv ==
  \A h \in Handlers :
    /\ kind[h] = "none" <=> pc[h] = "idle"
    /\ kind[h] = "counters" => pc[h] = "save"
    /\ kind[h] # "restore" => pc[h] # "unsave"

(* alone[h] holds only while no other handler serves a settings request.   *)
AloneInv ==
  \A h \in Handlers : alone[h] => \A g \in Handlers \ {h} : kind[g] # "settings"

(* As long as nothing went wrong, a settings request is served by itself.  *)
OverlapInv ==
  upset = {} => \A g, h \in Handlers :
                  g # h /\ kind[g] = "settings" => kind[h] = "none"

(* The bookkeeping: nothing in it depends on a configuration.              *)
Book == LockInv /\ PhaseInv /\ AloneInv /\ OverlapInv

(* What a request wants differs from what it read in its own part only.    *)
OwnPart(k, o, n) ==
  /\ k = "accounts" => n.api = o.api /\ n.base = o.base
  /\ k = "global" => n.accts = o.accts /\ n.api = o.api
  /\ k = "settings" => n.accts = o.accts /\ n.base = o.base

(* The one request in progress, phase by phase.                            *)
Editing(h) ==
  /\ old[h] = db
  /\ OwnPart(kind[h], old[h], new[h])
  /\ pc[h] = "apply" => InAgreement
  /\ pc[h] \in {"save", "undo"} =>
       xray = new[h] /\ mem = Settings(new[h]) /\ Buildable(new[h])

Restoring(h) ==
  /\ xray = old[h] /\ mem = Settings(old[h])
  /\ Buildable(old[h]) /\ Buildable(new[h])
  /\ pc[h] \in {"save", "undo"} => db = old[h]
  /\ pc[h] \in {"apply", "unsave"} => db = new[h]

JobInv ==
  upset = {} => \A h \in Handlers :
    /\ kind[h] = "counters" => old[h] = db /\ InAgreement
    /\ kind[h] \in {"accounts", "global", "settings"} => Editing(h)
    /\ kind[h] = "restore" => Restoring(h)

(* A change of accounts that runs alone has installed what it will save.   *)
AloneSave ==
  \A h \in Handlers :
    alone[h] /\ kind[h] = "accounts" /\ pc[h] = "save" =>
      xray = Target(h, new[h]) /\ Buildable(xray)

(* The three copies and the requests that change them.                     *)
Data == JobInv /\ AloneSave /\ InSync /\ NeverWedged

IInv == TypeOK /\ Book /\ Data

-----------------------------------------------------------------------------
(* The value handlers forget to is a configuration, if there is any.       *)
LEMMA BlankType == ASSUME Cfg # {} PROVE Blank \in Cfg
BY Zenon DEF Blank

LEMMA CfgParts ==
  ASSUME NEW c \in Cfg
  PROVE  c.accts \in AcctSets /\ c.api \in Ports /\ c.base \in Bases
BY DEF Cfg

(* What a call of the manager leaves installed, and what it keeps of mem.  *)
LEMMA ApplyType ==
  ASSUME TypeOK, NEW t \in Cfg, NEW r \in Reports, Apply(t, r)
  PROVE  /\ xray' \in {xray, t} /\ db' = db /\ statsPort' = statsPort
         /\ mem' = IF r = "ok" THEN Settings(t) ELSE mem
         /\ r = "ok" => xray' = t /\ Buildable(t)
         /\ r \in {"refused", "restored"} => xray' = xray
         /\ mem' \in [api: Ports, base: Bases]
         /\ xray' \in Cfg
BY DEF Apply, Endings, Settings, TypeOK, Cfg, Reports

LEMMA TargetType ==
  ASSUME TypeOK, NEW h \in Handlers, NEW c \in Cfg
  PROVE  Target(h, c) \in Cfg
BY DEF Target, TypeOK, Cfg

LEMMA GotoType ==
  ASSUME TypeOK, NEW h \in Handlers, NEW ph \in Phases, Goto(h, ph)
  PROVE  /\ mu' \in Handlers \cup {Free}
         /\ kind' \in [Handlers -> Kinds] /\ pc' \in [Handlers -> Phases]
         /\ old' \in [Handlers -> Cfg] /\ new' \in [Handlers -> Cfg]
         /\ report' \in {"none", "ok", "error"} /\ alone' \in [Handlers -> BOOLEAN]
BY DEF Goto, TypeOK, jobVars

LEMMA ReturnType ==
  ASSUME TypeOK, NEW h \in Handlers, NEW r \in {"ok", "error"}, Return(h, r)
  PROVE  /\ mu' \in Handlers \cup {Free}
         /\ kind' \in [Handlers -> Kinds] /\ pc' \in [Handlers -> Phases]
         /\ old' \in [Handlers -> Cfg] /\ new' \in [Handlers -> Cfg]
         /\ report' \in {"none", "ok", "error"} /\ alone' \in [Handlers -> BOOLEAN]
<1>1. Blank \in Cfg
  BY BlankType DEF TypeOK
<1>2. QED
  BY <1>1 DEF Return, TypeOK, Kinds, Phases

LEMMA BeginType ==
  ASSUME TypeOK, NEW h \in Handlers, NEW k \in Kinds, NEW ph \in Phases, NEW c \in Cfg,
         Begin(h, k, ph, c), mu' \in Handlers \cup {Free}
  PROVE  TypeOK'
BY DEF Begin, TypeOK, Causes

(***************************************************************************)
(* Type correctness, one case per action.                                  *)
(***************************************************************************)
LEMMA TypeStep == TypeOK /\ [Next]_vars => TypeOK'
<1> SUFFICES ASSUME TypeOK, [Next]_vars PROVE TypeOK'
  OBVIOUS
<1> USE DEF Blame, FaultIf
<1>1. ASSUME NEW h \in Handlers, BeginAccounts(h) PROVE TypeOK'
  <2>1. PICK a \in AcctSets : Begin(h, "accounts", "apply", [db EXCEPT !.accts = a])
    BY <1>1 DEF BeginAccounts
  <2>2. [db EXCEPT !.accts = a] \in Cfg
    BY DEF TypeOK, Cfg
  <2>3. QED
    BY <1>1, <2>1, <2>2, BeginType DEF BeginAccounts, Kinds, Phases
<1>2. ASSUME NEW h \in Handlers, BeginCounters(h) PROVE TypeOK'
  BY <1>2, BeginType DEF BeginCounters, Kinds, Phases, TypeOK
<1>3. ASSUME NEW h \in Handlers, BeginGlobal(h) PROVE TypeOK'
  <2>1. PICK b \in Bases : Begin(h, "global", "apply", [db EXCEPT !.base = b])
    BY <1>3 DEF BeginGlobal
  <2>2. [db EXCEPT !.base = b] \in Cfg
    BY DEF TypeOK, Cfg
  <2>3. QED
    BY <1>3, <2>1, <2>2, BeginType DEF BeginGlobal, Kinds, Phases
<1>4. ASSUME NEW h \in Handlers, BeginRestore(h) PROVE TypeOK'
  BY <1>4, BeginType DEF BeginRestore, Kinds, Phases
<1>5. ASSUME NEW h \in Handlers, BeginSettings(h) PROVE TypeOK'
  <2>1. PICK p \in Ports :
          /\ Begin(h, "settings", IF p = db.api THEN "save" ELSE "apply", [db EXCEPT !.api = p])
          /\ UNCHANGED mu
    BY <1>5 DEF BeginSettings
  <2>2. [db EXCEPT !.api = p] \in Cfg
    BY DEF TypeOK, Cfg
  <2>3. (IF p = db.api THEN "save" ELSE "apply") \in Phases /\ mu' \in Handlers \cup {Free}
    BY <2>1 DEF Phases, TypeOK
  <2>4. QED
    BY <2>1, <2>2, <2>3, BeginType DEF Kinds
<1>6. ASSUME NEW h \in Handlers, ApplyNew(h) PROVE TypeOK'
  <2>1. new[h] \in Cfg /\ Target(h, new[h]) \in Cfg
    BY TargetType DEF TypeOK
  <2>2. CASE Apply(Target(h, new[h]), "ok") /\ Goto(h, "save") /\ upset' = upset \cup {}
    BY <2>1, <2>2, ApplyType, GotoType DEF TypeOK, Phases, Reports
  <2>3. ASSUME NEW r \in Errors, Apply(Target(h, new[h]), r), Return(h, "error"),
               upset' = upset \cup FaultIf(r = "unrestored")
        PROVE TypeOK'
    <3>1. r \in Reports
      BY DEF Errors
    <3>2. QED
      BY <2>1, <2>3, <3>1, ApplyType, ReturnType DEF TypeOK, Causes
  <2>4. QED
    BY <1>6, <2>2, <2>3 DEF ApplyNew
<1>7. ASSUME NEW h \in Handlers, Save(h) PROVE TypeOK'
  <2>1. Saved(h) \in Cfg
    BY DEF Saved, TypeOK, Cfg
  <2>2. QED
    BY <1>7, <2>1, ReturnType DEF Save, TypeOK, Causes
<1>8. ASSUME NEW h \in Handlers, SaveFails(h) PROVE TypeOK'
  BY <1>8, ReturnType, GotoType DEF SaveFails, TypeOK, Phases
<1>9. ASSUME NEW h \in Handlers, Undo(h) PROVE TypeOK'
  <2>1. PICK r \in Reports \ {"none"} :
          Apply(Target(h, old[h]), r) /\ upset' = upset \cup FaultIf(r # "ok")
    BY <1>9 DEF Undo
  <2>2. Target(h, old[h]) \in Cfg
    BY TargetType DEF TypeOK
  <2>3. QED
    BY <1>9, <2>1, <2>2, ApplyType, ReturnType DEF Undo, TypeOK, Causes
<1>10. ASSUME NEW h \in Handlers, RestoreSave(h) PROVE TypeOK'
  BY <1>10, ReturnType, GotoType DEF RestoreSave, TypeOK, Phases
<1>11. ASSUME NEW h \in Handlers, RestoreApply(h) PROVE TypeOK'
  <2>1. Target(h, new[h]) \in Cfg
    BY TargetType DEF TypeOK
  <2>2. CASE Apply(Target(h, new[h]), "ok") /\ Return(h, "ok") /\ upset' \subseteq Causes
    BY <2>1, <2>2, ApplyType, ReturnType DEF TypeOK, Reports
  <2>3. ASSUME NEW r \in Errors, Apply(Target(h, new[h]), r), Goto(h, "unsave"),
               upset' \subseteq Causes
        PROVE TypeOK'
    <3>1. r \in Reports /\ "unsave" \in Phases
      BY DEF Errors, Phases
    <3>2. QED
      BY <2>1, <2>3, <3>1, ApplyType, GotoType DEF TypeOK
  <2>4. QED
    BY <1>11, <2>2, <2>3 DEF RestoreApply, TypeOK, Causes
<1>12. ASSUME NEW h \in Handlers, RestoreUnsave(h) PROVE TypeOK'
  <2>1. "undo" \in Phases /\ old[h] \in Cfg
    BY DEF Phases, TypeOK
  <2>2. db' \in Cfg /\ upset' \subseteq Causes
    BY <1>12, <2>1 DEF RestoreUnsave, TypeOK, Causes
  <2>3. QED
    BY <1>12, <2>1, <2>2, GotoType DEF RestoreUnsave, TypeOK
<1>13. CASE Restart
  <2>1. Blank \in Cfg
    BY BlankType DEF TypeOK
  <2>2. xray' \in Cfg
    BY <1>13, TargetType DEF Restart, Installing, TypeOK
  <2>3. QED
    BY <1>13, <2>1, <2>2 DEF Restart, TypeOK, Cfg, Settings, Kinds, Phases, Causes
<1>14. CASE UNCHANGED vars
  BY <1>14 DEF vars, TypeOK
<1>15. QED
  BY <1>1, <1>2, <1>3, <1>4, <1>5, <1>6, <1>7, <1>8, <1>9, <1>10, <1>11, <1>12,
     <1>13, <1>14 DEF Next

LEMMA TypeInit == Init => TypeOK
<1> SUFFICES ASSUME Init PROVE TypeOK
  OBVIOUS
<1>1. db \in Cfg /\ Blank \in Cfg
  BY BlankType DEF Init
<1>2. QED
  BY <1>1 DEF Init, TypeOK, Cfg, Settings, Kinds, Phases, Causes

(***************************************************************************)
(* Every variable of AccountSync keeps its type: the panel's copies are    *)
(* always whole configurations and Accounts.mu has at most one holder.     *)
(***************************************************************************)
THEOREM TypeCorrect == Spec => []TypeOK
<1>1. QED
  BY TypeInit, TypeStep, PTL DEF Spec
-----------------------------------------------------------------------------
(* Bookkeeping, by the three shapes every action of a handler has.         *)
LEMMA BookBegin ==
  ASSUME TypeOK, Book, NEW h \in Handlers, NEW k \in Kinds \ {"none"}, NEW ph \in Phases,
         NEW c, Begin(h, k, ph, c),
         IF k = "settings" THEN mu' = mu ELSE mu = Free /\ mu' = h,
         ph \in {"apply", "save"}, k = "counters" => ph = "save"
  PROVE  Book'
<1> USE DEF Begin, TypeOK, Book
<1>1. LockInv'
  BY FreeAssumption DEF LockInv, Locked, Kinds
<1>2. PhaseInv'
  BY DEF PhaseInv
<1>3. AloneInv'
  BY DEF AloneInv, Overlaps
<1>4. OverlapInv'
  BY DEF OverlapInv, Overlaps
<1>5. QED
  BY <1>1, <1>2, <1>3, <1>4

LEMMA BookGoto ==
  ASSUME TypeOK, Book, NEW h \in Handlers, NEW ph \in Phases \ {"idle"}, Goto(h, ph),
         kind[h] \notin {"none", "counters"}, ph = "unsave" => kind[h] = "restore",
         upset \subseteq upset'
  PROVE  Book'
<1> USE DEF Goto, jobVars, TypeOK, Book
<1>1. LockInv' /\ AloneInv' /\ OverlapInv'
  BY DEF LockInv, AloneInv, OverlapInv
<1>2. PhaseInv'
  BY DEF PhaseInv
<1>3. QED
  BY <1>1, <1>2

LEMMA BookReturn ==
  ASSUME TypeOK, Book, NEW h \in Handlers, NEW r \in {"ok", "error"}, Return(h, r),
         kind[h] # "none",
         upset \subseteq upset' \/ \A g \in Handlers \ {h} : kind[g] # "settings"
  PROVE  Book'
<1> USE DEF Return, TypeOK, Book
<1>1. LockInv'
  BY FreeAssumption DEF LockInv, Locked
<1>2. PhaseInv' /\ AloneInv'
  BY DEF PhaseInv, AloneInv
<1>3. OverlapInv'
  BY DEF OverlapInv
<1>4. QED
  BY <1>1, <1>2, <1>3

(***************************************************************************)
(* As long as nothing went wrong, at most one request is in progress.      *)
(***************************************************************************)
LEMMA OneAtATime ==
  ASSUME TypeOK, Book, upset = {}, NEW h \in Handlers, kind[h] # "none"
  PROVE  \A g \in Handlers \ {h} : kind[g] = "none"
BY DEF TypeOK, Book, LockInv, OverlapInv, Locked, Kinds

(* A change of accounts that ran alone is the only request in progress.    *)
LEMMA AloneIsOnly ==
  ASSUME TypeOK, Book, NEW h \in Handlers, kind[h] = "accounts", alone[h]
  PROVE  \A g \in Handlers \ {h} : kind[g] = "none"
BY DEF TypeOK, Book, LockInv, AloneInv, Locked, Kinds

LEMMA SameCfg ==
  ASSUME NEW c \in Cfg, NEW d \in Cfg, c.accts = d.accts, Settings(c) = Settings(d)
  PROVE  c = d
<1>1. c.api = d.api /\ c.base = d.base
  BY DEF Settings
<1>2. QED
  BY <1>1 DEF Cfg

(* What the manager is asked for is what the request wants, and what it    *)
(* read when the request undoes its change.                                *)
LEMMA TargetNew ==
  ASSUME TypeOK, NEW h \in Handlers, kind[h] \in {"accounts", "global", "settings"},
         OwnPart(kind[h], old[h], new[h])
  PROVE  /\ mem = Settings(old[h]) => Target(h, new[h]) = new[h]
         /\ mem = Settings(new[h]) => Target(h, old[h]) = old[h]
BY DEF OwnPart, Target, Settings, TypeOK, Cfg

(* The whole invariant follows once no request is in progress.             *)
LEMMA QuietStep ==
  ASSUME Quiet', upset' = {} => InAgreement' /\ Buildable(db)', TypeOK'
  PROVE  JobInv' /\ AloneSave' /\ InSync' /\ NeverWedged'
BY DEF Quiet, JobInv, AloneSave, InSync, NeverWedged
-----------------------------------------------------------------------------
(***************************************************************************)
(* One action at a time: the bookkeeping, then the three copies.           *)
(***************************************************************************)
(* A request that begins, when nothing is wrong, finds agreement.          *)
LEMMA BeginStep ==
  ASSUME IInv, TypeOK', NEW h \in Handlers, NEW k \in Kinds \ {"none"},
         NEW ph \in {"apply", "save"}, NEW c \in Cfg, Begin(h, k, ph, c),
         IF k = "settings" THEN mu' = mu ELSE mu = Free /\ mu' = h,
         k = "counters" => ph = "save",
         k \in {"accounts", "global"} => ph = "apply",
         k = "settings" /\ ph = "save" => c = db,
         k \in {"accounts", "global", "settings"} => OwnPart(k, db, c),
         k = "restore" => ph = "save" /\ Buildable(c)
  PROVE  Book' /\ Data'
<1> USE DEF IInv, Data
<1>1. Book'
  <2>1. ph \in Phases
    BY DEF Phases
  <2>2. QED
    BY <2>1, BookBegin
<1>2. ASSUME upset' = {} PROVE upset = {} /\ Quiet /\ InAgreement /\ Buildable(db)
  <2>1. upset = {} /\ ~Overlaps(h, k)
    BY <1>2 DEF Begin
  <2>2. k # "settings" => \A g \in Handlers \ {h} : kind[g] \notin Locked
    BY FreeAssumption DEF Book, LockInv, TypeOK
  <2>3. \A g \in Handlers : kind[g] = "none"
    BY <2>1, <2>2 DEF Overlaps, Begin, Locked, TypeOK, Kinds
  <2>4. QED
    BY <2>1, <2>3 DEF Quiet, InSync, NeverWedged
<1>3. kind'[h] = k /\ pc'[h] = ph /\ old'[h] = db /\ new'[h] = c
  BY DEF Begin, TypeOK
<1>4. \A g \in Handlers \ {h} : /\ kind'[g] = kind[g] /\ pc'[g] = pc[g] /\ old'[g] = old[g]
                                /\ new'[g] = new[g] /\ (alone'[g] => alone[g])
  BY DEF Begin, TypeOK
<1>5. db' = db /\ mem' = mem /\ xray' = xray
  BY DEF Begin
<1>6. JobInv'
  <2> SUFFICES ASSUME upset' = {}, NEW g \in Handlers
               PROVE  /\ kind'[g] = "counters" => old'[g] = db' /\ InAgreement'
                      /\ kind'[g] \in {"accounts", "global", "settings"} => Editing(g)'
                      /\ kind'[g] = "restore" => Restoring(g)'
    BY DEF JobInv
  <2>1. CASE g # h
    BY <1>2, <1>4, <2>1 DEF Quiet
  <2>2. CASE g = h
    BY <1>2, <1>3, <1>5, <2>2 DEF Editing, Restoring, InAgreement
  <2>3. QED
    BY <2>1, <2>2
<1>7. AloneSave'
  BY <1>3, <1>4, <1>5 DEF AloneSave, Target
<1>8. InSync'
  BY <1>3 DEF InSync, Quiet
<1>9. NeverWedged'
  BY <1>2, <1>5 DEF NeverWedged
<1>10. QED
  BY <1>1, <1>6, <1>7, <1>8, <1>9 DEF Data

LEMMA StepBeginAccounts ==
  ASSUME IInv, TypeOK', NEW h \in Handlers, BeginAccounts(h) PROVE Book' /\ Data'
<1>1. PICK a \in AcctSets : Begin(h, "accounts", "apply", [db EXCEPT !.accts = a])
  BY DEF BeginAccounts
<1>2. [db EXCEPT !.accts = a] \in Cfg /\ OwnPart("accounts", db, [db EXCEPT !.accts = a])
  BY DEF IInv, TypeOK, Cfg, OwnPart
<1>3. "accounts" \in Kinds
  BY DEF Kinds
<1>4. QED
  BY <1>1, <1>2, <1>3, BeginStep DEF BeginAccounts

LEMMA StepBeginGlobal ==
  ASSUME IInv, TypeOK', NEW h \in Handlers, BeginGlobal(h) PROVE Book' /\ Data'
<1>1. PICK b \in Bases : Begin(h, "global", "apply", [db EXCEPT !.base = b])
  BY DEF BeginGlobal
<1>2. [db EXCEPT !.base = b] \in Cfg /\ OwnPart("global", db, [db EXCEPT !.base = b])
  BY DEF IInv, TypeOK, Cfg, OwnPart
<1>3. "global" \in Kinds
  BY DEF Kinds
<1>4. QED
  BY <1>1, <1>2, <1>3, BeginStep DEF BeginGlobal

LEMMA StepBeginOther ==
  ASSUME IInv, TypeOK', NEW h \in Handlers, BeginCounters(h) \/ BeginRestore(h)
  PROVE  Book' /\ Data'
<1>1. {"counters", "restore"} \subseteq Kinds /\ db \in Cfg
  BY DEF Kinds, IInv, TypeOK
<1>2. CASE BeginCounters(h)
  BY <1>1, <1>2, BeginStep DEF BeginCounters
<1>3. CASE BeginRestore(h)
  <2>1. PICK c \in Cfg : Buildable(c) /\ Begin(h, "restore", "save", c)
    BY <1>3 DEF BeginRestore
  <2>2. QED
    BY <1>1, <1>3, <2>1, BeginStep DEF BeginRestore
<1>4. QED
  BY <1>2, <1>3

LEMMA StepBeginSettings ==
  ASSUME IInv, TypeOK', NEW h \in Handlers, BeginSettings(h) PROVE Book' /\ Data'
<1>1. PICK p \in Ports :
        /\ Begin(h, "settings", IF p = db.api THEN "save" ELSE "apply", [db EXCEPT !.api = p])
        /\ UNCHANGED mu
  BY DEF BeginSettings
<1>2. [db EXCEPT !.api = p] \in Cfg /\ OwnPart("settings", db, [db EXCEPT !.api = p])
  BY DEF IInv, TypeOK, Cfg, OwnPart
<1>3. p = db.api => [db EXCEPT !.api = p] = db
  BY DEF IInv, TypeOK, Cfg
<1>4. "settings" \in Kinds
  BY DEF Kinds
<1>5. QED
  BY <1>1, <1>2, <1>3, <1>4, BeginStep
(***************************************************************************)
(* The handler returns and nothing else is in progress.                    *)
(***************************************************************************)
LEMMA ReturnStep ==
  ASSUME IInv, TypeOK', NEW h \in Handlers, NEW r \in {"ok", "error"}, Return(h, r),
         kind[h] # "none",
         upset \subseteq upset' \/ Repairs(h),
         upset' = {} => InAgreement' /\ Buildable(db)'
  PROVE  Book' /\ Data'
<1> USE DEF IInv, Data
<1>1. Book'
  <2>1. kind[h] = "accounts" /\ alone[h] => \A g \in Handlers \ {h} : kind[g] # "settings"
    BY AloneIsOnly
  <2>2. QED
    BY <2>1, BookReturn DEF Repairs
<1>2. ASSUME upset' = {} PROVE Quiet'
  <2>1. \A g \in Handlers \ {h} : kind[g] = "none"
    BY <1>2, OneAtATime, AloneIsOnly DEF Repairs
  <2>2. QED
    BY <2>1 DEF Return, TypeOK, Quiet
<1>3. JobInv' /\ InSync' /\ NeverWedged'
  BY <1>2 DEF JobInv, Quiet, InSync, NeverWedged
<1>4. ASSUME NEW g \in Handlers, alone'[g], kind'[g] = "accounts" PROVE FALSE
  <2>1. g # h /\ alone[g] /\ kind[g] = "accounts"
    BY <1>4 DEF Return, TypeOK
  <2>2. QED
    BY <2>1, AloneIsOnly
<1>5. AloneSave'
  BY <1>4 DEF AloneSave
<1>6. QED
  BY <1>1, <1>3, <1>5 DEF Data

(***************************************************************************)
(* The handler goes on: only its own job needs to be looked at.            *)
(***************************************************************************)
LEMMA GotoStep ==
  ASSUME IInv, TypeOK', NEW h \in Handlers, NEW ph \in Phases \ {"idle"}, Goto(h, ph),
         kind[h] \notin {"none", "counters"}, ph = "unsave" => kind[h] = "restore",
         upset \subseteq upset',
         upset' = {} => /\ kind[h] = "restore" => Restoring(h)'
                        /\ kind[h] # "restore" => Editing(h)'
                        /\ Buildable(db)',
         kind[h] = "accounts" /\ ph = "save" => xray' = Target(h, new[h])' /\ Buildable(xray)'
  PROVE  Book' /\ Data'
<1> USE DEF IInv, Data
<1>1. Book'
  BY BookGoto
<1>2. kind' = kind /\ alone' = alone /\ pc'[h] = ph
  BY DEF Goto, jobVars, TypeOK
<1>3. JobInv'
  <2> SUFFICES ASSUME upset' = {}, NEW g \in Handlers
               PROVE  /\ kind'[g] = "counters" => old'[g] = db' /\ InAgreement'
                      /\ kind'[g] \in {"accounts", "global", "settings"} => Editing(g)'
                      /\ kind'[g] = "restore" => Restoring(g)'
    BY DEF JobInv
  <2>1. CASE g # h
    <3>1. kind[g] = "none"
      BY <2>1, OneAtATime
    <3>2. QED
      BY <1>2, <3>1
  <2>2. CASE g = h
    BY <1>2, <2>2
  <2>3. QED
    BY <2>1, <2>2
<1>4. AloneSave'
  <2> SUFFICES ASSUME NEW g \in Handlers, alone'[g], kind'[g] = "accounts", pc'[g] = "save"
               PROVE  xray' = Target(g, new[g])' /\ Buildable(xray)'
    BY DEF AloneSave
  <2>1. g = h
    BY <1>2, AloneIsOnly
  <2>2. new' = new
    BY DEF Goto, jobVars
  <2>3. QED
    BY <1>2, <2>1, <2>2
<1>5. InSync' /\ NeverWedged'
  BY <1>2 DEF InSync, Quiet, NeverWedged
<1>6. QED
  BY <1>1, <1>3, <1>4, <1>5 DEF Data
(* What the current job is known to be, as long as nothing went wrong.     *)
LEMMA Job ==
  ASSUME IInv, upset = {}, NEW h \in Handlers
  PROVE  /\ Buildable(db)
         /\ kind[h] = "counters" => old[h] = db /\ InAgreement /\ pc[h] = "save"
         /\ kind[h] \in {"accounts", "global", "settings"} =>
              Editing(h) /\ pc[h] \in {"apply", "save", "undo"}
         /\ kind[h] = "restore" => Restoring(h)
         /\ old[h] \in Cfg /\ new[h] \in Cfg
BY DEF IInv, Data, Book, PhaseInv, JobInv, NeverWedged, TypeOK, Phases

LEMMA StepApplyNew ==
  ASSUME IInv, TypeOK', NEW h \in Handlers, ApplyNew(h) PROVE Book' /\ Data'
<1> DEFINE t == Target(h, new[h])
<1>1. TypeOK /\ t \in Cfg /\ kind[h] \in {"accounts", "global", "settings"}
  <2>1. kind[h] \in Kinds \ {"none", "counters", "restore"}
    BY DEF ApplyNew, IInv, Book, PhaseInv, TypeOK
  <2>2. QED
    BY <2>1, TargetType DEF IInv, TypeOK, Kinds
<1>2. ASSUME upset = {} PROVE t = new[h] /\ InAgreement /\ Editing(h) /\ Buildable(db)
  <2>1. Editing(h) /\ Buildable(db) /\ InAgreement
    BY <1>1, <1>2, Job DEF Editing, ApplyNew
  <2>2. QED
    BY <1>1, <2>1, TargetNew DEF Editing, InAgreement
<1>3. CASE Apply(t, "ok") /\ Goto(h, "save") /\ Blame({})
  <2>1. /\ xray' = t /\ Buildable(t) /\ db' = db /\ mem' = Settings(t)
        /\ upset' = upset /\ kind' = kind /\ old' = old /\ new' = new /\ pc'[h] = "save"
    BY <1>1, <1>3, ApplyType DEF Goto, jobVars, Blame, TypeOK, Reports
  <2>2. upset' = {} => Editing(h)' /\ Buildable(db)'
    BY <1>1, <1>2, <2>1 DEF Editing
  <2>3. kind[h] = "accounts" => xray' = Target(h, new[h])' /\ Buildable(xray)'
    BY <2>1 DEF Target, Settings
  <2>4. "save" \in Phases
    BY DEF Phases
  <2>5. QED
    BY <1>1, <1>3, <2>1, <2>2, <2>3, <2>4, GotoStep
<1>4. ASSUME NEW r \in Errors, Apply(t, r), Return(h, "error"), Blame(FaultIf(r = "unrestored"))
      PROVE  Book' /\ Data'
  <2>1. r \in Reports /\ db' = db /\ mem' = mem /\ upset \subseteq upset'
    BY <1>1, <1>4, ApplyType DEF Errors, Blame
  <2>2. upset' = {} => xray' = xray /\ upset = {}
    BY <1>1, <1>4, <2>1, ApplyType DEF Blame, FaultIf, Errors, Reports
  <2>3. upset' = {} => InAgreement' /\ Buildable(db)'
    BY <1>2, <2>1, <2>2 DEF InAgreement
  <2>4. QED
    BY <1>1, <1>4, <2>1, <2>3, ReturnStep
<1>5. QED
  BY <1>3, <1>4 DEF ApplyNew

LEMMA StepSave ==
  ASSUME IInv, TypeOK', NEW h \in Handlers, Save(h) PROVE Book' /\ Data'
<1>0. PICK r \in {"ok", "error"} : Return(h, r)
  BY DEF Save
<1>1. /\ Return(h, r) /\ pc[h] = "save" /\ kind[h] # "restore" /\ kind[h] # "none"
      /\ db' = Saved(h) /\ xray' = xray /\ mem' = mem
  BY <1>0 DEF Save, IInv, Book, PhaseInv
<1>2. TypeOK /\ new[h] \in Cfg /\ db \in Cfg /\ kind[h] \in Kinds
  BY DEF IInv, TypeOK
<1>3. CASE Repairs(h)
  <2>1. xray = Target(h, new[h]) /\ Buildable(xray)
    BY <1>1, <1>3 DEF Repairs, IInv, Data, AloneSave
  <2>2. db' = [db EXCEPT !.accts = new[h].accts] /\ mem = Settings(db)
    BY <1>1, <1>3 DEF Saved, Repairs
  <2>3. xray = [db EXCEPT !.accts = new[h].accts]
    BY <1>2, <1>3, <2>1, <2>2 DEF Target, Settings, Repairs, Cfg
  <2>4. Settings(db') = Settings(db)
    BY <1>2, <2>2 DEF Settings, Cfg
  <2>5. InAgreement' /\ Buildable(db)'
    BY <1>1, <2>1, <2>2, <2>3, <2>4 DEF InAgreement, Settings, Buildable
  <2>6. QED
    BY <1>1, <1>3, <2>5, ReturnStep
<1>4. CASE ~Repairs(h)
  <2>1. upset' = upset
    BY <1>4 DEF Save
  <2>2. ASSUME upset = {} PROVE InAgreement' /\ Buildable(db)'
    <3>1. CASE kind[h] = "counters"
      BY <1>1, <2>2, <3>1, Job DEF Saved, InAgreement, Settings, Buildable
    <3>2. CASE kind[h] \in {"accounts", "global", "settings"}
      <4>1. /\ old[h] = db /\ OwnPart(kind[h], old[h], new[h])
            /\ xray = new[h] /\ mem = Settings(new[h]) /\ Buildable(new[h])
        BY <1>1, <2>2, <3>2, Job DEF Editing
      <4>2. Saved(h) = new[h]
        BY <1>2, <3>2, <4>1 DEF Saved, OwnPart, Cfg
      <4>3. QED
        BY <1>1, <4>1, <4>2 DEF InAgreement, Settings, Buildable
    <3>3. QED
      BY <1>1, <1>2, <3>1, <3>2 DEF Kinds
  <2>3. QED
    BY <1>1, <2>1, <2>2, ReturnStep
<1>5. QED
  BY <1>3, <1>4

LEMMA StepSaveFails ==
  ASSUME IInv, TypeOK', NEW h \in Handlers, SaveFails(h) PROVE Book' /\ Data'
<1>1. /\ pc[h] = "save" /\ kind[h] # "restore" /\ kind[h] # "none"
      /\ db' = db /\ xray' = xray /\ mem' = mem /\ upset' = upset
  BY DEF SaveFails, IInv, Book, PhaseInv
<1>2. TypeOK /\ kind[h] \in Kinds
  BY DEF IInv, TypeOK
<1>3. CASE Applies(h)
  <2>1. Goto(h, "undo") /\ kind' = kind /\ old' = old /\ new' = new /\ pc'[h] = "undo"
    BY <1>2, <1>3 DEF SaveFails, Goto, jobVars, TypeOK
  <2>2. kind[h] \in {"accounts", "global", "settings"} /\ "undo" \in Phases
    BY <1>1, <1>2, <1>3 DEF Applies, Kinds, Phases
  <2>3. upset = {} => Editing(h)' /\ Buildable(db)'
    BY <1>1, <2>1, <2>2, Job DEF Editing
  <2>4. QED
    BY <1>1, <2>1, <2>2, <2>3, GotoStep
<1>4. CASE ~Applies(h)
  <2>1. Return(h, "error")
    BY <1>4 DEF SaveFails
  <2>2. ASSUME upset = {} PROVE InAgreement /\ Buildable(db)
    <3>1. CASE kind[h] = "counters"
      BY <2>2, <3>1, Job
    <3>2. CASE kind[h] = "settings" /\ new[h].api = old[h].api
      <4>1. Editing(h) /\ Buildable(db) /\ old[h] \in Cfg /\ new[h] \in Cfg
        BY <2>2, <3>2, Job
      <4>2. new[h] = old[h]
        BY <3>2, <4>1 DEF Editing, OwnPart, Cfg
      <4>3. QED
        BY <1>1, <4>1, <4>2 DEF Editing, InAgreement
    <3>3. QED
      BY <1>4, <3>1, <3>2 DEF Applies
  <2>3. QED
    BY <1>1, <2>1, <2>2, ReturnStep DEF InAgreement, Settings, Buildable
<1>5. QED
  BY <1>3, <1>4
LEMMA StepUndo ==
  ASSUME IInv, TypeOK', NEW h \in Handlers, Undo(h) PROVE Book' /\ Data'
<1> DEFINE t == Target(h, old[h])
<1>1. /\ TypeOK /\ t \in Cfg /\ pc[h] = "undo" /\ Return(h, "error")
      /\ kind[h] \in {"accounts", "global", "settings", "restore"}
  <2>1. kind[h] \in Kinds \ {"none", "counters"} /\ TypeOK
    BY DEF Undo, IInv, Book, PhaseInv, TypeOK
  <2>2. QED
    BY <2>1, TargetType DEF Undo, TypeOK, Kinds
<1>2. PICK r \in Reports \ {"none"} : Apply(t, r) /\ Blame(FaultIf(r # "ok"))
  BY DEF Undo
<1>3. db' = db /\ upset \subseteq upset' /\ (upset' = {} => upset = {} /\ r = "ok")
  BY <1>1, <1>2, ApplyType DEF Blame, FaultIf
<1>4. ASSUME upset' = {} PROVE InAgreement' /\ Buildable(db)'
  <2>1. upset = {} /\ Buildable(db) /\ old[h] \in Cfg
    BY <1>3, <1>4, Job
  <2>2. old[h] = db /\ t = old[h]
    <3>1. CASE kind[h] = "restore"
      BY <1>1, <2>1, <3>1, Job DEF Restoring, Target, Settings, Cfg
    <3>2. CASE kind[h] # "restore"
      BY <1>1, <2>1, <3>2, Job, TargetNew DEF Editing
    <3>3. QED
      BY <3>1, <3>2
  <2>3. xray' = t /\ mem' = Settings(t)
    BY <1>1, <1>2, <1>3, <1>4, ApplyType
  <2>4. QED
    BY <1>3, <2>1, <2>2, <2>3 DEF InAgreement, Settings, Buildable
<1>5. QED
  BY <1>1, <1>3, <1>4, ReturnStep

LEMMA StepRestoreSave ==
  ASSUME IInv, TypeOK', NEW h \in Handlers, RestoreSave(h) PROVE Book' /\ Data'
<1>1. /\ kind[h] = "restore" /\ pc[h] = "save" /\ TypeOK
      /\ xray' = xray /\ mem' = mem /\ upset' = upset
  BY DEF RestoreSave, IInv
<1>2. upset = {} => Restoring(h) /\ db = old[h]
  BY <1>1, Job DEF Restoring
<1>3. CASE db' = new[h] /\ Goto(h, "apply")
  <2>1. /\ kind' = kind /\ old' = old /\ new' = new /\ pc'[h] = "apply"
        /\ "apply" \in Phases
    BY <1>1, <1>3 DEF Goto, jobVars, TypeOK, Phases
  <2>2. upset = {} => Restoring(h)' /\ Buildable(db)'
    BY <1>1, <1>2, <1>3, <2>1 DEF Restoring, Buildable
  <2>3. QED
    BY <1>1, <1>3, <2>1, <2>2, GotoStep
<1>4. CASE db' = db /\ Return(h, "error")
  <2>1. upset = {} => InAgreement' /\ Buildable(db)'
    BY <1>1, <1>2, <1>4 DEF Restoring, InAgreement, Settings, Buildable
  <2>2. QED
    BY <1>1, <1>4, <2>1, ReturnStep
<1>5. QED
  BY <1>3, <1>4 DEF RestoreSave

LEMMA StepRestoreApply ==
  ASSUME IInv, TypeOK', NEW h \in Handlers, RestoreApply(h) PROVE Book' /\ Data'
<1> DEFINE t == Target(h, new[h])
<1>1. /\ kind[h] = "restore" /\ pc[h] = "apply" /\ TypeOK /\ t \in Cfg /\ new[h] \in Cfg
  BY TargetType DEF RestoreApply, IInv, TypeOK
<1>2. upset = {} => Restoring(h) /\ db = new[h] /\ Buildable(db)
  BY <1>1, Job DEF Restoring
<1>3. CASE /\ Apply(t, "ok")
           /\ Return(h, "ok")
           /\ Blame(IF Settings(new[h]) = mem THEN {} ELSE {"restore"})
  <2>1. xray' = t /\ mem' = Settings(t) /\ db' = db
    BY <1>1, <1>3, ApplyType DEF Reports
  <2>2. upset \subseteq upset'
    BY <1>3 DEF Blame
  <2>3. ASSUME upset' = {} PROVE InAgreement' /\ Buildable(db)'
    <3>1. upset = {} /\ Settings(new[h]) = mem
      BY <1>3, <2>3 DEF Blame
    <3>2. t = new[h]
      BY <1>1, <3>1 DEF Target, Settings, Cfg
    <3>3. QED
      BY <1>2, <2>1, <3>1, <3>2 DEF InAgreement, Settings, Buildable
  <2>4. QED
    BY <1>1, <1>3, <2>2, <2>3, ReturnStep
<1>4. ASSUME NEW r \in Errors, Apply(t, r), Goto(h, "unsave"), Blame(FaultIf(r = "unrestored"))
      PROVE  Book' /\ Data'
  <2>1. /\ r \in Reports /\ db' = db /\ mem' = mem /\ upset \subseteq upset'
        /\ kind' = kind /\ old' = old /\ new' = new /\ pc'[h] = "unsave"
        /\ "unsave" \in Phases
    BY <1>1, <1>4, ApplyType DEF Errors, Blame, Goto, jobVars, TypeOK, Phases
  <2>2. upset' = {} => xray' = xray /\ upset = {}
    BY <1>1, <1>4, <2>1, ApplyType DEF Blame, FaultIf, Errors, Reports
  <2>3. upset' = {} => Restoring(h)' /\ Buildable(db)'
    BY <1>1, <1>2, <2>1, <2>2 DEF Restoring, Buildable
  <2>4. QED
    BY <1>1, <1>4, <2>1, <2>3, GotoStep
<1>5. QED
  BY <1>3, <1>4 DEF RestoreApply

LEMMA StepRestoreUnsave ==
  ASSUME IInv, TypeOK', NEW h \in Handlers, RestoreUnsave(h) PROVE Book' /\ Data'
<1>1. /\ kind[h] = "restore" /\ pc[h] = "unsave" /\ TypeOK
      /\ Goto(h, "undo") /\ xray' = xray /\ mem' = mem
  BY DEF RestoreUnsave, IInv, Book, PhaseInv, TypeOK, Kinds, Phases
<1>2. upset = {} => Restoring(h)
  BY <1>1, Job
<1>3. /\ kind' = kind /\ old' = old /\ new' = new /\ pc'[h] = "undo"
      /\ "undo" \in Phases
  BY <1>1 DEF Goto, jobVars, TypeOK, Phases
<1>4. upset \subseteq upset' /\ (upset' = {} => upset = {} /\ db' = old[h])
  BY DEF RestoreUnsave, Blame
<1>5. upset' = {} => Restoring(h)' /\ Buildable(db)'
  BY <1>1, <1>2, <1>3, <1>4 DEF Restoring, Buildable
<1>6. QED
  BY <1>1, <1>3, <1>4, <1>5, GotoStep

LEMMA StepRestart ==
  ASSUME IInv, TypeOK', Restart PROVE Book' /\ Data'
<1>1. /\ db' = db /\ mem' = Settings(db)
      /\ \A h \in Handlers : kind'[h] = "none" /\ pc'[h] = "idle" /\ ~alone'[h]
      /\ mu' = Free
  BY DEF Restart
<1>2. Book'
  BY <1>1, FreeAssumption DEF Book, LockInv, PhaseInv, AloneInv, OverlapInv, Locked
<1>3. ASSUME upset' = {} PROVE InAgreement' /\ Buildable(db)'
  <2>1. upset = {} /\ xray' = xray /\ \A h \in Handlers : ~HalfDone(h)
    BY <1>3 DEF Restart, Blame, FaultIf
  <2>2. Buildable(db) /\ (Quiet => InAgreement)
    BY <2>1 DEF IInv, Data, NeverWedged, InSync
  <2>3. ASSUME NEW h \in Handlers, kind[h] # "none" PROVE xray = db
    <3>1. kind[h] \in Kinds
      BY DEF IInv, TypeOK
    <3>2. CASE kind[h] = "counters"
      BY <2>1, <3>2, Job DEF InAgreement
    <3>3. CASE kind[h] \in {"accounts", "global", "settings"}
      <4>1. Editing(h) /\ pc[h] \in {"apply", "save", "undo"} /\ old[h] \in Cfg /\ new[h] \in Cfg
        BY <2>1, <3>3, Job
      <4>2. CASE pc[h] = "apply"
        BY <4>1, <4>2 DEF Editing, InAgreement
      <4>3. CASE pc[h] \in {"save", "undo"}
        <5>1. kind[h] = "settings" /\ new[h].api = old[h].api
          BY <2>1, <3>3, <4>3 DEF HalfDone, Applies
        <5>2. new[h] = old[h]
          BY <4>1, <5>1 DEF Editing, OwnPart, Cfg
        <5>3. QED
          BY <4>1, <4>3, <5>2 DEF Editing
      <4>4. QED
        BY <4>1, <4>2, <4>3
    <3>4. CASE kind[h] = "restore"
      <4>1. Restoring(h) /\ pc[h] \in Phases \ {"apply", "unsave", "undo", "idle"}
        BY <2>1, <3>4, Job DEF HalfDone, IInv, TypeOK, Book, PhaseInv
      <4>2. QED
        BY <4>1 DEF Restoring, Phases
    <3>5. QED
      BY <2>3, <3>1, <3>2, <3>3, <3>4 DEF Kinds
  <2>4. xray = db
    BY <2>2, <2>3 DEF Quiet, InAgreement
  <2>5. QED
    BY <1>1, <2>1, <2>2, <2>4 DEF InAgreement, Settings, Buildable
<1>4. QED
  BY <1>1, <1>2, <1>3, QuietStep DEF Quiet, Data

-----------------------------------------------------------------------------
LEMMA IInvInit == Init => IInv
<1> SUFFICES ASSUME Init PROVE IInv
  OBVIOUS
<1>1. TypeOK
  BY TypeInit
<1>2. Book
  BY FreeAssumption DEF Init, Book, LockInv, PhaseInv, AloneInv, OverlapInv, Locked
<1>3. Data
  BY DEF Init, Data, JobInv, AloneSave, InSync, InAgreement, NeverWedged
<1>4. QED
  BY <1>1, <1>2, <1>3 DEF IInv

LEMMA IInvStep == IInv /\ [Next]_vars => IInv'
<1> SUFFICES ASSUME IInv, [Next]_vars PROVE IInv'
  OBVIOUS
<1>1. TypeOK'
  BY TypeStep DEF IInv
<1>2. ASSUME NEW h \in Handlers,
             \/ BeginAccounts(h) \/ BeginCounters(h) \/ BeginGlobal(h)
             \/ BeginRestore(h) \/ BeginSettings(h)
      PROVE  Book' /\ Data'
  BY <1>1, <1>2, StepBeginAccounts, StepBeginGlobal, StepBeginOther, StepBeginSettings
<1>3. ASSUME NEW h \in Handlers,
             \/ ApplyNew(h) \/ Save(h) \/ SaveFails(h) \/ Undo(h)
             \/ RestoreSave(h) \/ RestoreApply(h) \/ RestoreUnsave(h)
      PROVE  Book' /\ Data'
  BY <1>1, <1>3, StepApplyNew, StepSave, StepSaveFails, StepUndo,
     StepRestoreSave, StepRestoreApply, StepRestoreUnsave
<1>4. CASE Restart
  BY <1>1, <1>4, StepRestart DEF IInv
<1>5. CASE UNCHANGED vars
  <2>1. Book'
    BY <1>5 DEF IInv, vars, Book, LockInv, PhaseInv, AloneInv, OverlapInv
  <2>2. JobInv' /\ AloneSave'
    BY <1>5 DEF IInv, Data, vars, JobInv, AloneSave, Editing, Restoring, OwnPart,
                InAgreement, Target
  <2>3. InSync' /\ NeverWedged'
    BY <1>5 DEF IInv, Data, vars, InSync, Quiet, InAgreement, NeverWedged
  <2>4. QED
    BY <1>1, <2>1, <2>2, <2>3 DEF Data, IInv
<1>6. QED
  BY <1>1, <1>2, <1>3, <1>4, <1>5 DEF Next, IInv

LEMMA Invariance == Spec => []IInv
BY IInvInit, IInvStep, PTL DEF Spec

(***************************************************************************)
(* Whatever handlers interleave, between requests SQLite, the manager and  *)
(* Xray hold the same configuration, unless something went wrong since the *)
(* last change of accounts that ran alone.                                 *)
(***************************************************************************)
THEOREM Agreement == Spec => []InSync
<1>1. IInv => InSync
  BY DEF IInv, Data
<1>2. QED
  BY <1>1, Invariance, PTL

(***************************************************************************)
(* The settings handler and the account operations check the API port      *)
(* against each other well enough: no account ever gets it, nor it theirs. *)
(***************************************************************************)
THEOREM ApiPortStaysFree == Spec => []NeverWedged
<1>1. IInv => NeverWedged
  BY DEF IInv, Data
<1>2. QED
  BY <1>1, Invariance, PTL
(***************************************************************************)
(* Which steps end a request in an error, when nothing goes wrong: only    *)
(* the save of a request that reads afterwards writes SQLite, and it       *)
(* writes all the request wanted.                                          *)
(***************************************************************************)
LEMMA ErrorStep ==
  ASSUME IInv, Next, NEW h \in Handlers, kind[h] # "none", kind'[h] = "none",
         report' = "error", upset = {}, upset' = {}
  PROVE  db' \in Outcomes(h) /\ \A g \in Handlers \ {h} : kind'[g] = kind[g]
<1>1. PICK g \in Handlers :
        ApplyNew(g) \/ Save(g) \/ SaveFails(g) \/ Undo(g) \/ RestoreSave(g)
  BY DEF Next, BeginAccounts, BeginCounters, BeginGlobal, BeginRestore, BeginSettings, Begin,
         RestoreApply, RestoreUnsave, Return, Goto, Restart
<1>2. Return(g, "error")
  BY <1>1 DEF Save, ApplyNew, SaveFails, Undo, RestoreSave, Return, Goto
<1>3. kind[g] # "none" /\ g = h /\ \A f \in Handlers \ {h} : kind'[f] = kind[f]
  BY <1>2 DEF Return, IInv, TypeOK
<1>4. kind[h] \in Kinds /\ new[h] \in Cfg /\ db \in Cfg
  BY DEF IInv, TypeOK
<1>5. CASE Save(h)
  <2>1. kind[h] \in Rereads /\ db' = Saved(h)
    BY <1>5 DEF Save, Return
  <2>2. old[h] = db /\ OwnPart(kind[h], old[h], new[h])
    BY <2>1, Job DEF Rereads, Editing
  <2>3. Saved(h) = new[h]
    BY <1>4, <2>1, <2>2 DEF Rereads, Saved, OwnPart, Cfg
  <2>4. QED
    BY <1>3, <2>1, <2>3 DEF Outcomes
<1>6. CASE ~Save(h)
  <2>1. db' = db /\ (kind[h] = "restore" => pc[h] \in {"save", "undo"})
    <3>1. CASE ApplyNew(h)
      BY <3>1 DEF ApplyNew, Apply
    <3>2. CASE Undo(h)
      BY <3>2 DEF Undo, Apply
    <3>3. CASE SaveFails(h)
      BY <3>3 DEF SaveFails
    <3>4. CASE RestoreSave(h)
      <4>1. ~Goto(h, "apply")
        BY DEF Goto
      <4>2. QED
        BY <3>4, <4>1 DEF RestoreSave
    <3>5. QED
      BY <1>1, <1>3, <1>6, <3>1, <3>2, <3>3, <3>4
  <2>2. db = old[h]
    BY <1>4, <2>1, Job DEF Kinds, Editing, Restoring
  <2>3. QED
    BY <1>3, <2>1, <2>2 DEF Outcomes
<1>7. QED
  BY <1>5, <1>6

(***************************************************************************)
(* A request that ends in an error leaves SQLite, the manager and Xray as  *)
(* it found them, or, when it failed after its save, all three as it       *)
(* wanted them; unless the manager could not restore the configuration or  *)
(* the request was overlapped.                                             *)
(***************************************************************************)
THEOREM NothingOrEverything == Spec => AllOrNothing
<1> DEFINE Ended(h) ==
             /\ kind[h] # "none" /\ kind'[h] = "none" /\ report' = "error"
             /\ upset = {} /\ upset' = {}
             => \E c \in Outcomes(h) : db' = c /\ xray' = c /\ mem' = Settings(c)
<1>1. IInv /\ IInv' /\ [Next]_vars => [\A h \in Handlers : Ended(h)]_vars
  <2> SUFFICES ASSUME IInv, IInv', Next, NEW h \in Handlers, kind[h] # "none",
                      kind'[h] = "none", report' = "error", upset = {}, upset' = {}
               PROVE  \E c \in Outcomes(h) : db' = c /\ xray' = c /\ mem' = Settings(c)
    OBVIOUS
  <2>1. db' \in Outcomes(h) /\ \A g \in Handlers \ {h} : kind'[g] = kind[g]
    BY ErrorStep
  <2>2. Quiet'
    BY <2>1, OneAtATime DEF IInv, Quiet
  <2>3. InAgreement'
    BY <2>2 DEF IInv, Data, InSync
  <2>4. QED
    BY <2>1, <2>3 DEF InAgreement
<1>2. QED
  BY <1>1, Invariance, PTL DEF Spec, AllOrNothing
==============================================================================
