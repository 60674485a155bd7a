-------------------------- MODULE MCFirewallRecovery --------------------------
(***************************************************************************)
(* TLC instances of FirewallRecovery: two ports and one timer for edits    *)
(* and blocks, one port with its two rules and two timers for the rest.    *)
(* MCParts looks at two timers of allowances.                              *)
(***************************************************************************)
EXTENDS FirewallRecovery

AllKinds == Guarded \cup Plain
PortKinds == {"edit-external", "add-drop", "remove-drop", "pause-drop", "resume-drop"}
==============================================================================
