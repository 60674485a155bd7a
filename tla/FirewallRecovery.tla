--------------------------- MODULE FirewallRecovery ---------------------------
(***************************************************************************)
(* Changes of firewall rules that may cut the administrator off: each is   *)
(* preceded by a systemd timer that undoes it, and followed by a record    *)
(* that the user confirms in time (internal/server/firewall.go and         *)
(* firewall_pending.go, internal/ops/firewall_rollback.go).                *)
(*                                                                         *)
(* firewallMu lets one handler run at a time; the timers and their workers *)
(* belong to systemd, and other managers change the same firewalld.        *)
(* A slot is a port with its protocol and zone.  Whether a port is a       *)
(* management port or has a listener only decides if a handler starts.     *)
(***************************************************************************)
EXTENDS Naturals, Sequences

CONSTANTS
  Slots,      \* ports, each with a protocol and a zone
  Units,      \* names of systemd timers; the code draws them at random
  Delay,      \* life of a timer in ticks (FirewallRestoreAfter)
  Kinds,      \* the requests of the users (bound)
  MaxFaults   \* failures, crashes and interventions of others (bound)

ASSUME SlotsAssumption == Slots # {} /\ Units # {}
ASSUME BoundAssumption == Delay \in Nat \ {0, 1} /\ MaxFaults \in Nat

Rules == Slots \X {"allow", "drop"}
Guarded == {"remove-allow", "remove-drop", "pause-allow", "pause-drop",
            "add-drop", "edit-external"}
Plain == {"add-allow", "resume-allow", "resume-drop"}

VARIABLES
  runtime,    \* rules in force
  permanent,  \* rules in the permanent configuration
  owned,      \* settings firewall_owned:<id>
  paused,     \* settings firewall_paused:<id>
  pending,    \* settings firewall_pending:<id>
  timer,      \* timer[u]: the commands it has still to run, if any
  job,        \* the handler that holds firewallMu
  faults,     \* faults so far
  undue,      \* history: rules that an unconfirmed change switched
  forgone     \* history: rules X-port no longer answers for, see Abandon

vars == <<runtime, permanent, owned, paused, pending, timer, job, faults, undue, forgone>>
rules == <<runtime, permanent>>
settings == <<owned, paused, pending>>
history == <<undue, forgone>>

Commands == [on: BOOLEAN, perm: BOOLEAN, rule: Rules]
Phases == {"idle", "change", "move", "check", "save", "add", "record", "undo",
           "stage", "query", "stop", "verify", "finish"}
Changing == {"change", "move", "check", "save"}

Records == [kind: Guarded \cup {"none"}, to: Rules, unit: Units, left: 0 .. Delay]
Timers == [todo: Seq(Commands), waiting: BOOLEAN, left: 0 .. Delay]
Jobs == [at: Phases, kind: Guarded \cup Plain \cup {"none"}, rule: Rules, to: Rules, unit: Units]

AnyRule == CHOOSE r \in Rules : TRUE
AnyUnit == CHOOSE u \in Units : TRUE
NoRecord == [kind |-> "none", to |-> AnyRule, unit |-> AnyUnit, left |-> 0]
NoTimer == [todo |-> << >>, waiting |-> FALSE, left |-> 0]
Idle == [at |-> "idle", kind |-> "none", rule |-> AnyRule, to |-> AnyRule, unit |-> AnyUnit]

TypeOK ==
  /\ runtime \subseteq Rules /\ permanent \subseteq Rules
  /\ owned \subseteq Rules /\ paused \subseteq Rules
  /\ pending \in [Rules -> Records]
  /\ timer \in [Units -> Timers]
  /\ \A u \in Units : timer[u].waiting => timer[u].todo # << >>
  /\ job \in Jobs
  /\ faults \in 0 .. MaxFaults
  /\ undue \subseteq Rules /\ forgone \subseteq Rules

(* A firewall set up by X-port and by others, without contradictions.      *)
Init ==
  /\ runtime \in {s \in SUBSET Rules : \A p \in Slots : ~(<<p, "allow">> \in s /\ <<p, "drop">> \in s)}
  /\ permanent = runtime
  /\ owned \in SUBSET runtime
  /\ paused = {}
  /\ pending = [r \in Rules |-> NoRecord]
  /\ timer = [u \in Units |-> NoTimer]
  /\ job = Idle
  /\ faults = 0
  /\ undue = {} /\ forgone = {}

-----------------------------------------------------------------------------
(* What Inspect lists, and which of it lies on the port of r.              *)
Listed == runtime \cup permanent
SameSlot(r) == {q \in Listed : q[1] = r[1]}
Whole(r) == r \in runtime \cap permanent
Alone(r) == SameSlot(r) = {r} /\ Whole(r)

(* ensureNoPending: a record that has expired does not block.              *)
Waits(r) == pending[r].kind # "none" /\ pending[r].left > 0

Fault == faults < MaxFaults /\ faults' = faults + 1
Leave == job' = Idle
Goto(phase) == job' = [job EXCEPT !.at = phase]

Flipped == (runtime \ runtime') \cup (runtime' \ runtime)

(* History: a guarded change switches rules that are owed a recovery until *)
(* a confirmation stops the timer; a plain one is final; what another hand *)
(* switches is its own affair.                                             *)
Owe == undue' = (undue \ Flipped) \cup (Flipped \ undue) /\ forgone' = forgone \ Flipped
Settle == undue' = undue \ Flipped /\ forgone' = forgone \ Flipped
Abandon(rs) == undue' = undue \ Flipped /\ forgone' = forgone \cup Flipped \cup rs

(***************************************************************************)
(* Change and ChangeSimpleDrop, run by a helper: the runtime command, then *)
(* the permanent one.  A refusal changes nothing.  A failed runtime command*)
(* and the undo of the runtime after a failed permanent one may each have  *)
(* worked or not: a failure leaves none, either or both of the changes.    *)
(***************************************************************************)
Set(s, r, on) == IF on THEN s \cup {r} ELSE s \ {r}
Accepts(r, on) == IF on THEN SameSlot(r) = {} ELSE Alone(r)

Switch(r, on) ==
  /\ Accepts(r, on)
  /\ runtime' = Set(runtime, r, on) /\ permanent' = Set(permanent, r, on)
  /\ UNCHANGED faults

SwitchFails(r, on) ==
  \/ ~Accepts(r, on) /\ UNCHANGED <<rules, faults>>
  \/ Fault /\ UNCHANGED rules
  \/ /\ Accepts(r, on) /\ Fault
     /\ runtime' \in {runtime, Set(runtime, r, on)}
     /\ permanent' \in {permanent, Set(permanent, r, on)}

-----------------------------------------------------------------------------
(* The inverse that the timer runs, command by command.                    *)
Both(r, on) == <<[on |-> on, perm |-> FALSE, rule |-> r], [on |-> on, perm |-> TRUE, rule |-> r]>>
(* Mutant of Recovery: the permanent configuration only.                   *)
RecoveryPermanent(kind, r, to) == <<[on |-> kind # "add-drop", perm |-> TRUE, rule |-> r]>>
(* Mutant of Recovery: the new rule of an edit is left.                    *)
RecoverySource(kind, r, to) == Both(r, kind # "add-drop")
Recovery(kind, r, to) ==
  CASE kind = "edit-external" -> Both(r, TRUE) \o Both(to, FALSE)
    [] kind = "add-drop"      -> Both(r, FALSE)
    [] OTHER                  -> Both(r, TRUE)

(* What a handler demands of the snapshot and the settings before it acts. *)
(* The removal of an allowance looks at its ownership only.                *)
Permitted(kind, r, to) ==
  /\ ~Waits(r)
  /\ kind \in {"add-allow", "remove-allow", "edit-external"} \/ \A k \in {"allow", "drop"} : ~Waits(<<r[1], k>>)
  /\ kind = "edit-external" \/ to = r
  /\ CASE kind = "add-allow"    -> r[2] = "allow"
       [] kind = "remove-allow" -> r[2] = "allow" /\ r \in owned
       [] kind = "add-drop"     -> /\ r[2] = "drop" /\ SameSlot(r) = {}
                                   /\ \A k \in {"allow", "drop"} : <<r[1], k>> \notin paused
       [] kind = "remove-drop"  -> r[2] = "drop" /\ r \in owned /\ Alone(r)
       [] kind = "pause-drop"   -> r[2] = "drop" /\ r \in owned \ paused /\ Alone(r)
       [] kind = "pause-allow"  -> r[2] = "allow" /\ r \in owned \ paused /\ Alone(r)
       [] kind = "resume-drop"  -> r[2] = "drop" /\ r \in owned \cap paused /\ SameSlot(r) = {}
       [] kind = "resume-allow" -> r[2] = "allow" /\ r \in owned \cap paused /\ SameSlot(r) = {}
       [] OTHER                 -> /\ r[2] = "allow" /\ to[2] = "allow" /\ to[1] # r[1]
                                   /\ r \notin owned /\ Alone(r)
                                   /\ to \notin owned \cup paused /\ ~Waits(to)
                                   /\ SameSlot(to) = {}

Fresh(u) == timer[u] = NoTimer /\ \A r \in Rules : pending[r].kind = "none" \/ pending[r].unit # u

(* systemd-run; it may have set the timer although it reports an error.    *)
Arm(kind, r, to) ==
  /\ job = Idle
  /\ Permitted(kind, r, to)
  /\ \E u \in Units :
       /\ Fresh(u)
       /\ timer' = [timer EXCEPT ![u] =
                      [todo |-> Recovery(kind, r, to), waiting |-> TRUE, left |-> Delay]]
       /\ \/ job' = [at |-> "change", kind |-> kind, rule |-> r, to |-> to, unit |-> u]
             /\ UNCHANGED faults
          \/ Fault /\ UNCHANGED job
  /\ UNCHANGED <<rules, settings, history>>

Subject == IF job.kind = "edit-external" THEN job.to ELSE job.rule
Switches == job.kind \in {"add-drop", "edit-external"}

(* Mutant of ChangeRule: a failed change cancels its timer.                *)
ChangeDisarms ==
  /\ job.at = "change"
  /\ \/ Switch(Subject, Switches) /\ Goto(IF job.kind = "edit-external" THEN "move" ELSE "save")
        /\ UNCHANGED timer
     \/ SwitchFails(Subject, Switches) /\ Leave /\ timer' = [timer EXCEPT ![job.unit] = NoTimer]
  /\ Owe
  /\ UNCHANGED settings

(* The change itself; whatever comes of it the timer stays armed.          *)
ChangeRule ==
  /\ job.at = "change"
  /\ \/ Switch(Subject, Switches) /\ Goto(IF job.kind = "edit-external" THEN "move" ELSE "save")
     \/ SwitchFails(Subject, Switches) /\ Leave
  /\ Owe
  /\ UNCHANGED <<settings, timer>>

(* The second half of an edit: the old allowance goes ...                  *)
Move ==
  /\ job.at = "move"
  /\ \/ Switch(job.rule, FALSE) /\ Goto("check")
     \/ SwitchFails(job.rule, FALSE) /\ Leave
  /\ Owe
  /\ UNCHANGED <<settings, timer>>

(* ... and the result is looked at.                                        *)
CheckMove ==
  /\ job.at = "check"
  /\ \/ job.rule \notin Listed /\ Alone(job.to) /\ Goto("save") /\ UNCHANGED faults
     \/ ~(job.rule \notin Listed /\ Alone(job.to)) /\ Leave /\ UNCHANGED faults
     \/ Fault /\ Leave
  /\ UNCHANGED <<rules, settings, timer, history>>

(* firewallPendingSaveKind, firewallPendingExternalEdit                    *)
SavePending ==
  /\ job.at = "save"
  /\ \/ /\ pending' = [pending EXCEPT ![job.rule] =
                         [kind |-> job.kind, to |-> job.to, unit |-> job.unit,
                          left |-> timer[job.unit].left]]
        /\ UNCHANGED faults
     \/ Fault /\ UNCHANGED pending
  /\ Leave
  /\ UNCHANGED <<rules, owned, paused, timer, history>>

-----------------------------------------------------------------------------
(* Additions and resumptions need no timer: they cut nobody off.           *)
Begin(kind, r) ==
  /\ job = Idle
  /\ Permitted(kind, r, r)
  /\ job' = [Idle EXCEPT !.at = "add", !.kind = kind, !.rule = r, !.to = r]
  /\ UNCHANGED <<rules, settings, timer, faults, history>>

AddRule ==
  /\ job.at = "add"
  /\ \/ Switch(job.rule, TRUE) /\ Goto("record")
     \/ SwitchFails(job.rule, TRUE) /\ Leave
  /\ Settle
  /\ UNCHANGED <<settings, timer>>

Record ==
  /\ job.at = "record"
  /\ \/ /\ IF job.kind = "add-allow" THEN owned' = owned \cup {job.rule} /\ UNCHANGED paused
                                     ELSE paused' = paused \ {job.rule} /\ UNCHANGED owned
        /\ Leave /\ UNCHANGED faults
     \/ Fault /\ Goto("undo") /\ UNCHANGED <<owned, paused>>
  /\ UNCHANGED <<rules, pending, timer, history>>

UndoAdd ==
  /\ job.at = "undo"
  /\ Switch(job.rule, FALSE) \/ SwitchFails(job.rule, FALSE)
  /\ Leave
  /\ Abandon({})
  /\ UNCHANGED <<settings, timer>>

-----------------------------------------------------------------------------
(***************************************************************************)
(* firewallRuleConfirm.  The state must be the one that was presented; the *)
(* record of a removed allowance does not name its port, so that other     *)
(* rules on it are overlooked.                                             *)
(***************************************************************************)
Presented(kind, r, to) ==
  CASE kind = "edit-external" -> SameSlot(r) = {} /\ Alone(to)
    [] kind = "add-drop"      -> Alone(r)
    [] kind = "remove-allow"  -> r \notin Listed
    [] OTHER                  -> SameSlot(r) = {}

Confirm(r) ==
  /\ job = Idle
  /\ Waits(r)
  /\ Presented(pending[r].kind, r, pending[r].to)
  /\ job' = [at |-> "stage", kind |-> pending[r].kind, rule |-> r,
             to |-> pending[r].to, unit |-> pending[r].unit]
  /\ UNCHANGED <<rules, settings, timer, faults, history>>

Pauses == job.kind \in {"pause-allow", "pause-drop"}
Owns == job.kind = "add-drop"

(* The metadata first: if this fails the timer remains armed.              *)
Stage ==
  /\ job.at = "stage"
  /\ \/ /\ paused' = IF Pauses THEN paused \cup {job.rule} ELSE paused
        /\ owned' = IF Owns THEN owned \cup {job.rule} ELSE owned
        /\ Goto("query") /\ UNCHANGED faults
     \/ (Pauses \/ Owns) /\ Fault /\ Leave /\ UNCHANGED <<owned, paused>>
  /\ UNCHANGED <<rules, pending, timer, history>>

(* An error of CancelFirewallRestore takes the metadata back.              *)
Unstage ==
  /\ paused' = IF Pauses THEN paused \ {job.rule} ELSE paused
  /\ owned' = IF Owns THEN owned \ {job.rule} ELSE owned
  /\ Leave

(* CancelFirewallRestore: a timer is active while it waits and while the   *)
(* worker it started runs.                                                 *)
Query ==
  /\ job.at = "query"
  /\ \/ timer[job.unit] # NoTimer /\ Goto("stop") /\ UNCHANGED <<owned, paused, faults>>
     \/ timer[job.unit] = NoTimer /\ Unstage /\ UNCHANGED faults
     \/ Fault /\ Unstage
  /\ UNCHANGED <<rules, pending, timer, history>>

(* systemctl stop of the timer; the worker is another unit.                *)
Stop ==
  /\ job.at = "stop"
  /\ timer' = [timer EXCEPT ![job.unit] = IF @.waiting THEN NoTimer ELSE @]
  /\ \/ /\ timer[job.unit] # NoTimer /\ Goto("verify")
        /\ UNCHANGED <<owned, paused, faults, forgone>>
     \/ timer[job.unit] = NoTimer /\ Unstage /\ UNCHANGED <<faults, forgone>>
     \/ Fault /\ Unstage /\ forgone' = forgone \cup {job.rule, job.to}
  /\ undue' = undue \ {job.rule, job.to}
  /\ UNCHANGED <<rules, pending>>

Verify ==
  /\ job.at = "verify"
  /\ \/ Presented(job.kind, job.rule, job.to) /\ Goto("finish") /\ UNCHANGED faults
     \/ ~Presented(job.kind, job.rule, job.to) /\ Leave /\ UNCHANGED faults
     \/ Fault /\ Leave
  /\ UNCHANGED <<rules, settings, timer, history>>

Removes == job.kind \in {"remove-allow", "remove-drop"}

(* The keys are cleared one at a time; a removal drops the ownership, the  *)
(* record and the paused rule, in this order.                              *)
Finish ==
  /\ job.at = "finish"
  /\ \/ /\ pending' = [pending EXCEPT ![job.rule] = NoRecord]
        /\ owned' = IF Removes THEN owned \ {job.rule} ELSE owned
        /\ paused' = IF Removes THEN paused \ {job.rule} ELSE paused
        /\ UNCHANGED faults
     \/ Fault /\ UNCHANGED settings
     \/ /\ Removes /\ Fault
        /\ owned' = owned \ {job.rule}
        /\ pending' \in {pending, [pending EXCEPT ![job.rule] = NoRecord]}
        /\ UNCHANGED paused
  /\ Leave
  /\ UNCHANGED <<rules, timer, history>>

-----------------------------------------------------------------------------
(* The timer elapses within a second of its time, and its worker runs.     *)
Fire(u) ==
  /\ timer[u].waiting /\ timer[u].left < 2
  /\ timer' = [timer EXCEPT ![u].waiting = FALSE]
  /\ UNCHANGED <<rules, settings, job, faults, history>>

Work(u) ==
  /\ timer[u].todo # << >> /\ ~timer[u].waiting
  /\ LET c == Head(timer[u].todo) IN
       /\ runtime' = IF c.perm THEN runtime ELSE Set(runtime, c.rule, c.on)
       /\ permanent' = IF c.perm THEN Set(permanent, c.rule, c.on) ELSE permanent
       /\ IF c.on THEN Settle ELSE Abandon({})
  /\ timer' = [timer EXCEPT ![u] =
                  IF Len(timer[u].todo) = 1 THEN NoTimer
                                            ELSE [timer[u] EXCEPT !.todo = Tail(timer[u].todo)]]
  /\ UNCHANGED <<settings, job, faults>>

(* A handler that changes rules has ended before its own timer is due: its *)
(* context lasts 100 of the 120 seconds.  A worker ends within a tick.     *)
Tick ==
  /\ \A u \in Units : timer[u] = NoTimer \/ (timer[u].waiting /\ timer[u].left > 0)
  /\ job.at \in Changing => timer[job.unit].left > 2
  /\ \/ \E u \in Units : timer[u].waiting
     \/ \E r \in Rules : Waits(r)
  /\ timer' = [u \in Units |-> IF timer[u].waiting THEN [timer[u] EXCEPT !.left = @ - 1] ELSE timer[u]]
  /\ pending' = [r \in Rules |-> IF Waits(r) THEN [pending[r] EXCEPT !.left = @ - 1] ELSE pending[r]]
  /\ UNCHANGED <<rules, owned, paused, job, faults, history>>

(* The panel dies.                                                         *)
Crash ==
  /\ job # Idle
  /\ Fault
  /\ Leave
  /\ UNCHANGED <<rules, settings, timer, history>>

(* The machine starts again: transient timers are gone.                    *)
Reboot ==
  /\ Fault
  /\ runtime' = permanent /\ UNCHANGED permanent
  /\ timer' = [u \in Units |-> NoTimer]
  /\ Leave
  /\ Abandon(Rules)
  /\ UNCHANGED settings

(* Another manager adds or removes a rule, whole.                          *)
External(r) ==
  /\ Fault
  /\ \E on \in BOOLEAN : runtime' = Set(runtime, r, on) /\ permanent' = Set(permanent, r, on)
  /\ Abandon({})
  /\ UNCHANGED <<settings, timer, job>>

Handler ==
  \/ ChangeRule \/ Move \/ CheckMove \/ SavePending
  \/ AddRule \/ Record \/ UndoAdd
  \/ Stage \/ Query \/ Stop \/ Verify \/ Finish

Request ==
  \/ \E r, to \in Rules, kind \in Kinds \cap Guarded : Arm(kind, r, to)
  \/ \E r \in Rules, kind \in Kinds \cap Plain : Begin(kind, r)
  \/ \E r \in Rules : Confirm(r)

Systemd == Tick \/ \E u \in Units : Fire(u) \/ Work(u)

Next == Request \/ Handler \/ Systemd \/ Crash \/ Reboot \/ \E r \in Rules : External(r)

(* Time passes however many requests come; systemd runs what is due; and   *)
(* handlers end, for every context has a deadline.                         *)
Fairness ==
  /\ SF_vars(Tick)
  /\ \A u \in Units : WF_vars(Fire(u) \/ Work(u))
  /\ WF_vars(Handler)

Spec == Init /\ [][Next]_vars /\ Fairness

-----------------------------------------------------------------------------
(***************************************************************************)
(* Every rule that an unconfirmed change switched has a timer that will    *)
(* switch it back, at every moment from the change on: the timer is armed  *)
(* before, survives every error path, and only a verified confirmation     *)
(* cancels it.                                                             *)
(***************************************************************************)
Covers(u, r) ==
  \E i \in 1 .. Len(timer[u].todo) :
     timer[u].todo[i] = [on |-> r \notin runtime, perm |-> FALSE, rule |-> r]

Covered(r) == \E u \in Units : Covers(u, r)
AlwaysGuarded == \A r \in undue \ forgone : Covered(r)

(***************************************************************************)
(* A rule an unconfirmed change switched is switched back in the end or a  *)
(* confirmation has stopped its timer, unless the machine was restarted.   *)
(***************************************************************************)
Recovers == \A r \in Rules : r \in undue ~> (r \notin undue \/ r \in forgone)

(***************************************************************************)
(* docs/terminal-manager.md: "independently scheduled rollback re-opens a  *)
(* deleted rule after 120 seconds unless the authenticated WebUI confirms" *)
(* - once a deletion is confirmed no timer is waiting to re-open it.       *)
(***************************************************************************)
ConfirmedIsFinal ==
  [][job.at = "finish" /\ Removes /\ pending'[job.rule].kind = "none" =>
       ~\E u \in Units : timer[u].waiting /\ Covers(u, job.rule)]_vars

(***************************************************************************)
(* internal/server/firewall_pending.go: "Persist any resume metadata before*)
(* disabling automatic recovery" - from the request to pause a rule on     *)
(* either its timer or X-port's retained copy can bring it back.           *)
(***************************************************************************)
PauseKeepsRule ==
  \A r \in Rules \ (runtime \cup forgone) :
     pending[r].kind \in {"pause-allow", "pause-drop"} => r \in paused \/ Covered(r)
==============================================================================
