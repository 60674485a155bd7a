----------------------------- MODULE ConfigApply -----------------------------
(***************************************************************************)
(* What xray.Manager promises its callers: the installed configuration is  *)
(* a register.  A call either replaces it and says so, or reports an error *)
(* and leaves it alone; only an error that does not claim a rollback, or a *)
(* crash, may leave the new configuration behind.                          *)
(***************************************************************************)
EXTENDS ApplyOutcome

CONSTANTS Configs, NoConfig

VARIABLES
  installed,  \* the configuration Xray is meant to run
  request,    \* the configuration being applied, NoConfig when none is
  report      \* what the last call returned

vars == <<installed, request, report>>

Init ==
  /\ installed \in Configs \cup {NoConfig}
  /\ request = NoConfig
  /\ report = "none"

Call(c) ==
  /\ request = NoConfig
  /\ request' = c
  /\ report' = "none"
  /\ UNCHANGED installed

End ==
  /\ request # NoConfig
  /\ \E e \in Endings(installed, request) :
        installed' = e.installed /\ report' = e.report
  /\ request' = NoConfig

Crash ==
  /\ request # NoConfig
  /\ installed' \in {installed, request}
  /\ report' = "none"
  /\ request' = NoConfig

Next == (\E c \in Configs : Call(c)) \/ End \/ Crash

Spec == Init /\ [][Next]_vars
==============================================================================
