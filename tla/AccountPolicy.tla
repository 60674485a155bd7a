---------------------------- MODULE AccountPolicy ----------------------------
(***************************************************************************)
(* Traffic accounting, quota, expiry and the monthly reset of an account:  *)
(* ApplyTraffic and ResetTraffic (internal/service/runtime.go), the        *)
(* handlers that switch and edit accounts, and runtimeLoop (cmd/xport).    *)
(*                                                                         *)
(* A tick of the loop takes the time, reads and resets the counters of     *)
(* Xray, and only then asks for Accounts.mu; the handlers run under it.    *)
(* Time is a number of instants, MonthLength of which make a month; a      *)
(* month that was never accounted is NoMonth.                              *)
(***************************************************************************)
EXTENDS Naturals, FiniteSets

CONSTANTS
  Ids,          \* accounts
  Quotas,       \* quotas an account may be given, 0 for none
  Expiries,     \* expiry times an account may be given, 0 for never
  MonthLength,  \* instants in a month
  Horizon,      \* the last instant (bound)
  MaxSent,      \* bytes an inbound carries at most (bound)
  MaxFaults     \* failures and crashes (bound)

ASSUME TimeAssumption == MonthLength \in Nat \ {0} /\ Horizon \in Nat
ASSUME DataAssumption ==
  Quotas \subseteq Nat /\ Quotas # {} /\ Expiries \subseteq Nat /\ Expiries # {}
ASSUME BoundAssumption == MaxSent \in Nat /\ MaxFaults \in Nat

NoMonth == 0
Month(t) == 1 + t \div MonthLength
Instants == 0 .. Horizon

(* What the editor sends: accountcfg.Input. *)
Inputs == [enabled: BOOLEAN, quota: Quotas, expiry: Expiries, monthly: BOOLEAN]
Reasons == {"", "manual", "quota", "expiry"}

(* A row of the table accounts. UpBytes+DownBytes is used, AllTimeBytes all. *)
Rows == [enabled: BOOLEAN, reason: Reasons, used: Nat, all: Nat,
         quota: Quotas, expiry: Expiries, monthly: BOOLEAN, last: Nat]

VARIABLES
  present,  \* accounts that exist
  row,      \* row[i] of account i; of no meaning when i is not present
  serving,  \* accounts that have an inbound in the running Xray
  counter,  \* counter[i]: bytes Xray has counted since the last reset
  now,      \* the clock
  tick,     \* where the loop stands: "wait", "read" or "charged"
  seen,     \* the time it took at the beginning of the tick
  delta,    \* delta[i]: what it read from Xray
  faults,   \* failures so far
  sent,     \* sent[i]: history; bytes carried by the inbounds of i
  off,      \* off[i]: history; the user switched i off, and not on again
  exceeded  \* exceeded[i]: history; i has been over its quota since then

vars == <<present, row, serving, counter, now, tick, seen, delta, faults, sent, off, exceeded>>
loopVars == <<tick, seen, delta>>

Zero == [i \in Ids |-> 0]
Expired(a, t) == a.expiry > 0 /\ t >= a.expiry
OverQuota(a) == a.quota > 0 /\ a.used >= a.quota

TypeOK ==
  /\ present \subseteq Ids /\ serving \subseteq Ids
  /\ row \in [Ids -> Rows]
  /\ counter \in [Ids -> 0 .. MaxSent] /\ delta \in [Ids -> 0 .. MaxSent]
  /\ now \in Instants /\ seen \in Instants
  /\ tick \in {"wait", "read", "charged"}
  /\ faults \in 0 .. MaxFaults
  /\ sent \in [Ids -> 0 .. MaxSent]
  /\ off \in [Ids -> BOOLEAN] /\ exceeded \in [Ids -> BOOLEAN]

(* initializeMonthlyCycle *)
StartCycle(a, newly) ==
  IF a.monthly /\ (newly \/ a.last = NoMonth) THEN [a EXCEPT !.last = Month(now)] ELSE a

(* accountcfg.New *)
NewRow(in) ==
  StartCycle([enabled |-> in.enabled, reason |-> IF in.enabled THEN "" ELSE "manual",
              used |-> 0, all |-> 0, quota |-> in.quota, expiry |-> in.expiry,
              monthly |-> in.monthly, last |-> NoMonth], FALSE)

Blank == NewRow(CHOOSE in \in Inputs : TRUE)

(* An installation that has created some accounts and carried no traffic.  *)
Init ==
  /\ now = 0
  /\ \E p \in SUBSET Ids, in \in [Ids -> Inputs] :
       /\ present = p
       /\ row = [i \in Ids |-> IF i \in p THEN NewRow(in[i]) ELSE Blank]
  /\ serving = {i \in present : row[i].enabled}
  /\ counter = Zero
  /\ tick = "wait" /\ seen = 0 /\ delta = Zero
  /\ faults = 0
  /\ sent = Zero
  /\ off = [i \in Ids |-> ~row[i].enabled]
  /\ exceeded = [i \in Ids |-> FALSE]

(***************************************************************************)
(* The world                                                               *)
(***************************************************************************)
Transfer(i) ==
  /\ i \in serving
  /\ sent[i] < MaxSent
  /\ counter' = [counter EXCEPT ![i] = @ + 1]
  /\ sent' = [sent EXCEPT ![i] = @ + 1]
  /\ UNCHANGED <<present, row, serving, now, loopVars, faults, off>>

(* The service is restarted, by a button, an update or an expert edit that *)
(* changes nothing here: what was counted is forgotten.                    *)
XrayRestarts ==
  /\ counter' = Zero
  /\ UNCHANGED <<present, row, serving, now, loopVars, faults, sent, off>>

Clock ==
  /\ now < Horizon
  /\ now' = now + 1
  /\ UNCHANGED <<present, row, serving, counter, loopVars, faults, sent, off>>

Fault == faults < MaxFaults /\ faults' = faults + 1

(***************************************************************************)
(* Making a table effective: persistRuntimeState, applyAndPersist.         *)
(***************************************************************************)
Enabled(p, r) == {i \in p : r[i].enabled}

(* The table r over p is written, the user's hand o remembered, and the    *)
(* inbounds installed if that is called for; an install restarts Xray,     *)
(* which forgets what it counted.  Or the installation fails, or the       *)
(* transaction after it, and Xray is left with the old or the new inbounds.*)
Persist(p, r, o, changed) ==
  LET target == IF changed THEN Enabled(p, r) ELSE serving IN
  \/ /\ present' = p /\ row' = r /\ off' = o
     /\ serving' = target
     /\ counter' = IF target = serving THEN counter ELSE Zero
     /\ UNCHANGED faults
  \/ /\ Fault
     /\ serving' \in {serving, target}
     /\ counter' \in IF target = serving THEN {counter} ELSE {counter, Zero}
     /\ UNCHANGED <<present, row, off>>

(***************************************************************************)
(* The handlers, each under Accounts.mu                                    *)
(***************************************************************************)
Unlocked == tick # "charged"

(* An account that gets a tag gets a fresh one, or one that was in use     *)
(* before: what the loop has read under it is then charged to this account.*)
Tagged(i) == delta' \in {delta, [delta EXCEPT ![i] = 0]}

Added(i, a, o) ==
  /\ Unlocked
  /\ i \notin present
  /\ Persist(present \cup {i}, [row EXCEPT ![i] = a], [off EXCEPT ![i] = o], TRUE)
  /\ Tagged(i)
  /\ UNCHANGED <<now, tick, seen, sent>>

Create(i, in) == Added(i, NewRow(in), ~in.enabled)

(* Mutant: the copy keeps the lifetime traffic of its model. *)
CopyKeepsTotal(a) ==
  StartCycle([a EXCEPT !.last = NoMonth, !.reason = "",
                       !.enabled = @ \/ a.reason = "quota"], TRUE)

(* accountcfg.Clone: switched on if only its quota had switched it off.    *)
Copy(a) ==
  StartCycle([a EXCEPT !.used = 0, !.all = 0, !.last = NoMonth, !.reason = "",
                       !.enabled = @ \/ a.reason = "quota"], TRUE)

Clone(j, i) == j \in present /\ Added(i, Copy(row[j]), ~Copy(row[j]).enabled)

(* A handler that writes the row a of account i.                           *)
Change(i, a, o, changed) ==
  /\ Unlocked
  /\ i \in present
  /\ Persist(present, [row EXCEPT ![i] = a], [off EXCEPT ![i] = o], changed)
  /\ UNCHANGED <<now, tick, seen, sent>>

Delete(i) ==
  /\ Unlocked
  /\ i \in present
  /\ Persist(present \ {i}, [row EXCEPT ![i] = Blank], [off EXCEPT ![i] = FALSE], TRUE)
  /\ UNCHANGED <<now, loopVars, sent>>

(* Update: an account that stays off keeps the reason it was off for; one  *)
(* that moves to another port gets another tag.                            *)
Edited(a, in) ==
  StartCycle([a EXCEPT !.enabled = in.enabled, !.quota = in.quota, !.expiry = in.expiry,
                       !.monthly = in.monthly,
                       !.reason = IF in.enabled THEN ""
                                  ELSE IF a.enabled THEN "manual" ELSE @],
             ~a.monthly)

Update(i, in) ==
  /\ Change(i, Edited(row[i], in), ~in.enabled /\ (row[i].enabled \/ off[i]), TRUE)
  /\ Tagged(i)

SetEnabled(i, on) ==
  /\ row[i].enabled # on
  /\ on => ~Expired(row[i], now) /\ ~OverQuota(row[i])
  /\ Change(i, [row[i] EXCEPT !.enabled = on, !.reason = IF on THEN "" ELSE "manual"], ~on, TRUE)
  /\ UNCHANGED delta

(* Mutant: whatever the reason it is off for. *)
ResumesAny(a, t) == ~a.enabled /\ (a.expiry = 0 \/ t < a.expiry)

(* A suspension for quota ends with the traffic that caused it.            *)
Resumes(a, t) == ~a.enabled /\ a.reason = "quota" /\ (a.expiry = 0 \/ t < a.expiry)
Resumed(a, t) == IF Resumes(a, t) THEN [a EXCEPT !.enabled = TRUE, !.reason = ""] ELSE a

ResetTraffic(i) ==
  /\ Change(i, Resumed([row[i] EXCEPT !.used = 0], now), off[i], Resumes(row[i], now))
  /\ UNCHANGED delta

(***************************************************************************)
(* The runtime loop                                                        *)
(***************************************************************************)
(* Mutant: the query without -reset. *)
ReadOnly ==
  /\ tick = "wait"
  /\ tick' = "read"
  /\ seen' = now
  /\ delta' = counter
  /\ UNCHANGED <<present, row, serving, counter, now, faults, sent, off>>

(* ReadAndReset: an error leaves the counters, or loses them when the      *)
(* answer does not arrive in time.                                         *)
ReadAndReset ==
  /\ tick = "wait"
  /\ tick' = "read"
  /\ seen' = now
  /\ \/ delta' = counter /\ counter' = Zero
     \/ delta' = Zero /\ counter' \in {counter, Zero}
  /\ UNCHANGED <<present, row, serving, now, faults, sent, off>>

(* ApplyTraffic, first half: AddTrafficBatch.                              *)
AddTraffic ==
  /\ tick = "read"
  /\ \/ /\ row' = [i \in Ids |-> IF i \in present
                                 THEN [row[i] EXCEPT !.used = @ + delta[i], !.all = @ + delta[i]]
                                 ELSE row[i]]
        /\ tick' = "charged"
        /\ UNCHANGED faults
     \/ Fault /\ tick' = "wait" /\ UNCHANGED row
  /\ delta' = Zero
  /\ UNCHANGED <<present, serving, counter, now, seen, sent, off>>

Due(a, t) == a.monthly /\ a.last # NoMonth /\ a.last # Month(t)

(* Mutant: the new month is recorded, the traffic of the old one kept. *)
RenewedKeeps(a, t) == IF Due(a, t) THEN Resumed([a EXCEPT !.last = Month(t)], t) ELSE a

(* The monthly reset ... *)
Renewed(a, t) ==
  IF Due(a, t) THEN Resumed([a EXCEPT !.used = 0, !.last = Month(t)], t) ELSE a

(* Mutant: the quota itself is still allowed. *)
JudgedLate(a, t) ==
  IF Expired(a, t) THEN [a EXCEPT !.enabled = FALSE, !.reason = "expiry"]
  ELSE IF a.quota > 0 /\ a.used > a.quota THEN [a EXCEPT !.enabled = FALSE, !.reason = "quota"]
  ELSE a

(* ... and then expiry and quota. *)
Judged(a, t) ==
  IF Expired(a, t) THEN [a EXCEPT !.enabled = FALSE, !.reason = "expiry"]
  ELSE IF OverQuota(a) THEN [a EXCEPT !.enabled = FALSE, !.reason = "quota"]
  ELSE a

ConfigChanged(a, t) ==
  Renewed(a, t).enabled # a.enabled \/ Judged(Renewed(a, t), t).enabled # Renewed(a, t).enabled

(* ApplyTraffic, second half: nothing is written when nothing changes.     *)
Enforce ==
  LET next == [i \in Ids |-> IF i \in present THEN Judged(Renewed(row[i], seen), seen)
                                              ELSE row[i]]
  IN /\ tick = "charged"
     /\ tick' = "wait"
     /\ IF next = row
          THEN UNCHANGED <<present, row, off, serving, counter, faults>>
          ELSE Persist(present, next, off, \E i \in present : ConfigChanged(row[i], seen))
     /\ UNCHANGED <<now, seen, delta, sent>>

(* The panel dies and is started again: the tick is lost, Xray keeps on.   *)
Restart ==
  /\ tick # "wait"
  /\ Fault
  /\ tick' = "wait"
  /\ delta' = Zero
  /\ UNCHANGED <<present, row, serving, counter, now, seen, sent, off>>

User ==
  \/ \E i \in Ids, in \in Inputs : Create(i, in) \/ Update(i, in)
  \/ \E i, j \in Ids : Clone(j, i)
  \/ \E i \in Ids : Delete(i) \/ ResetTraffic(i) \/ \E on \in BOOLEAN : SetEnabled(i, on)

Watch == exceeded' = [i \in Ids |-> off'[i] /\ (exceeded[i] \/ OverQuota(row'[i]))]

Loop == ReadAndReset \/ AddTraffic \/ Enforce

Next ==
  /\ (\E i \in Ids : Transfer(i)) \/ XrayRestarts \/ Clock \/ User \/ Loop \/ Restart
  /\ Watch

(* The ticker of runtimeLoop fires for ever, and time passes.              *)
Spec == Init /\ [][Next]_vars /\ WF_vars(Loop /\ Watch) /\ WF_vars(Clock /\ Watch)

-----------------------------------------------------------------------------
(***************************************************************************)
(* A byte is charged at most once: what the loop and Xray still hold and   *)
(* what the account was charged over its life never exceed what it carried,*)
(* and the current period never exceeds the life, through failed           *)
(* transactions, restarts, resets and clones.                              *)
(***************************************************************************)
ChargedOnce ==
  \A i \in Ids :
    /\ i \in present => row[i].used <= row[i].all
    /\ (IF i \in present THEN row[i].all ELSE 0) + delta[i] + counter[i] <= sent[i]

(***************************************************************************)
(* Manually disabled accounts are not re-enabled by the monthly reset or   *)
(* the reset of the traffic, as long as they do not go over their quota    *)
(* while they are off.                                                     *)
(***************************************************************************)
StaysOff == \A i \in present : off[i] /\ ~exceeded[i] => ~row[i].enabled

(***************************************************************************)
(* README: "Accounts disabled automatically because of quota are           *)
(* re-enabled after their monthly reset; manually disabled or expired      *)
(* accounts are not": an account the user switched off stays off.          *)
(***************************************************************************)
ManualStaysOff == \A i \in present : off[i] => ~row[i].enabled

(***************************************************************************)
(* Quota and expiry are enforced: an account that is over its quota or has *)
(* expired does not stay enabled, whatever is done to it meanwhile.        *)
(***************************************************************************)
Overdue(i) == i \in present /\ row[i].enabled /\ (OverQuota(row[i]) \/ Expired(row[i], now))
Enforced == \A i \in Ids : Overdue(i) ~> ~Overdue(i)

(***************************************************************************)
(* README: "re-enabled after their monthly reset": an account suspended for*)
(* its quota, reset monthly and without expiry, is enabled again once a    *)
(* later month comes, unless it is deleted or edited out of this meanwhile.*)
(***************************************************************************)
AwaitsMonth(i) ==
  /\ i \in present
  /\ ~row[i].enabled /\ row[i].reason = "quota"
  /\ row[i].monthly /\ row[i].expiry = 0
Suspended(i) == AwaitsMonth(i) /\ row[i].last \notin {NoMonth, Month(Horizon)}
ComesBack == \A i \in Ids : Suspended(i) ~> ~AwaitsMonth(i)
==============================================================================
