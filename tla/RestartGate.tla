---------------------------- MODULE RestartGate ----------------------------
(***************************************************************************)
(* The gate every restart of Xray by its manager and its updater passes    *)
(* (xrayRestartGate and restartAndVerify, internal/xray), and the start    *)
(* limit of systemd it is there for.                                       *)
(*                                                                         *)
(* The gate is a variable of a process: the panel and a terminal command   *)
(* have one each.  The restart button, a crash of Xray and a change of the *)
(* service by hand start Xray without it.  Time is in fifths of a second.  *)
(***************************************************************************)
EXTENDS Integers

CONSTANTS
  Procs,    \* processes that restart Xray
  Calls,    \* calls of restartAndVerify
  ProcOf    \* the process of each

(* What is assumed of the constants.                                       *)
CallAssumption == ProcOf \in [Calls -> Procs]

Spacing == 15  \* minXrayRestartSpacing, three seconds
Dwell == 6  \* stableSince: a start is judged for 1.2 seconds or longer
Interval == 50  \* StartLimitIntervalSec and StartLimitBurst of systemd
Burst == 5

VARIABLES
  age,      \* age of systemd's window; more than Interval: there is none
  count,    \* starts it has counted
  since,    \* since[p]: time since last, as far as it matters
  stable,   \* stable[p]: age of the start p is judging, as far as it matters
  at,       \* at[c]: where a call stands
  gated     \* gated[p]: history; starts p has made through its gate since the
            \* window began

vars == <<age, count, since, stable, at, gated>>

(* limited: the call has ended since systemd refused its start.            *)
Phases == {"out", "limited", "lock", "wait", "stop", "verify"}
Held(p) == \E c \in Calls : ProcOf[c] = p /\ at[c] \in {"wait", "stop", "verify"}

TypeOK ==
  /\ age \in 0..(Interval + 1)
  /\ count \in 0..Burst
  /\ since \in [Procs -> 0..Spacing]
  /\ stable \in [Procs -> 0..Dwell]
  /\ at \in [Calls -> Phases]
  /\ gated \in [Procs -> 0..Burst]

Init ==
  /\ age = Interval + 1
  /\ count = 0
  /\ since = [p \in Procs |-> Spacing]
  /\ stable = [p \in Procs |-> Dwell]
  /\ at = [c \in Calls |-> "out"]
  /\ gated = [p \in Procs |-> 0]

Goto(c, phase) == at' = [at EXCEPT ![c] = phase]

(***************************************************************************)
(* systemd counts a start in its window, begins a new window with it, or   *)
(* refuses it; the window ends.                                            *)
(***************************************************************************)
Counted(S) ==
  \/ /\ age > Interval
     /\ age' = 0
     /\ count' = 1
     /\ gated' = [p \in Procs |-> IF p \in S THEN 1 ELSE 0]
  \/ /\ age <= Interval
     /\ count < Burst
     /\ count' = count + 1
     /\ gated' = [p \in Procs |-> IF p \in S THEN gated[p] + 1 ELSE gated[p]]
     /\ UNCHANGED age
Refused == age <= Interval /\ count = Burst
WindowEnds == age' = Interval + 1 /\ count' = 0 /\ gated' = [p \in Procs |-> 0]

Call(c) ==
  /\ at[c] \in {"out", "limited"}
  /\ Goto(c, "lock")
  /\ UNCHANGED <<age, count, since, stable, gated>>

Lock(c) ==
  /\ at[c] = "lock"
  /\ ~Held(ProcOf[c])
  /\ Goto(c, "wait")
  /\ UNCHANGED <<age, count, since, stable, gated>>

(* Mutants of Go: the time of the restart is not kept; the wait is short.  *)
GoUnrecorded(c) ==
  /\ at[c] = "wait"
  /\ since[ProcOf[c]] = Spacing
  /\ Goto(c, "stop")
  /\ UNCHANGED <<age, count, since, stable, gated>>
GoEarly(c) ==
  /\ at[c] = "wait"
  /\ since[ProcOf[c]] >= Spacing - 1
  /\ since' = [since EXCEPT ![ProcOf[c]] = 0]
  /\ Goto(c, "stop")
  /\ UNCHANGED <<age, count, stable, gated>>

(* The spacing is over: last is set, and systemctl begins to stop Xray.    *)
Go(c) ==
  /\ at[c] = "wait"
  /\ since[ProcOf[c]] = Spacing
  /\ since' = [since EXCEPT ![ProcOf[c]] = 0]
  /\ Goto(c, "stop")
  /\ UNCHANGED <<age, count, stable, gated>>

(* Xray is down, after any time, and systemd starts it.                    *)
Start(c) ==
  /\ at[c] = "stop"
  /\ Counted({ProcOf[c]})
  /\ stable' = [stable EXCEPT ![ProcOf[c]] = 0]
  /\ Goto(c, "verify")
  /\ UNCHANGED since

Limited(c) ==
  /\ at[c] = "stop"
  /\ Refused
  /\ Goto(c, "limited")
  /\ UNCHANGED <<age, count, since, stable, gated>>

(* systemctl fails or has taken twelve seconds: the call returns.  A start *)
(* that systemd makes all the same is one the gate has not seen.           *)
GivesUp(c) ==
  /\ at[c] = "stop"
  /\ Goto(c, "out")
  /\ UNCHANGED <<age, count, since, stable, gated>>

(* The start was stable, or the six seconds are over: the gate is free.    *)
Return(c) ==
  /\ at[c] = "verify"
  /\ stable[ProcOf[c]] = Dwell
  /\ Goto(c, "out")
  /\ UNCHANGED <<age, count, since, stable, gated>>

(* A start that does not pass the gate, whether or not systemd grants it.  *)
Ungated ==
  /\ Counted({})
  /\ UNCHANGED <<since, stable, at>>

(* A rollback resets systemd's counter when that has refused a start.      *)
ClearStartLimit ==
  /\ Refused
  /\ WindowEnds
  /\ UNCHANGED <<since, stable, at>>

(***************************************************************************)
(* A process ends and begins anew: last is zero, its calls are gone, and   *)
(* what it has started no longer counts as its own.                        *)
(***************************************************************************)
ProcessRestarts(p) ==
  /\ since' = [since EXCEPT ![p] = Spacing]
  /\ stable' = [stable EXCEPT ![p] = Dwell]
  /\ at' = [c \in Calls |-> IF ProcOf[c] = p THEN "out" ELSE at[c]]
  /\ gated' = [gated EXCEPT ![p] = 0]
  /\ UNCHANGED <<age, count>>

Tick ==
  /\ IF age < Interval THEN age' = age + 1 /\ UNCHANGED <<count, gated>> ELSE WindowEnds
  /\ since' = [p \in Procs |-> IF since[p] = Spacing THEN Spacing ELSE since[p] + 1]
  /\ stable' = [p \in Procs |-> IF stable[p] = Dwell THEN Dwell ELSE stable[p] + 1]
  /\ UNCHANGED at

Next ==
  \/ Ungated \/ ClearStartLimit \/ Tick
  \/ \E p \in Procs : ProcessRestarts(p)
  \/ \E c \in Calls :
       \/ Call(c) \/ Lock(c) \/ Go(c) \/ Start(c)
       \/ Limited(c) \/ GivesUp(c) \/ Return(c)

Spec == Init /\ [][Next]_vars

(***************************************************************************)
(* "Avoid more than four voluntary starts in the default systemd 10-second *)
(* window": as long as a process lives, its gate lets no more through,     *)
(* however long Xray needs to stop, of starts that its calls wait for.     *)
(***************************************************************************)
FourPerWindow == \A p \in Procs : gated[p] <= 4

(***************************************************************************)
(* "... leave headroom for a genuine unexpected restart": a gated start is *)
(* refused only after two starts in the window that its gate did not see.  *)
(***************************************************************************)
Headroom ==
  [][\A c \in Calls :
       at[c] # "limited" /\ at'[c] = "limited" => count - gated[ProcOf[c]] >= 2]_vars
============================================================================
