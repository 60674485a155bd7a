---------------------------- MODULE ApplyOutcome ----------------------------
(***************************************************************************)
(* What a caller of Manager.Apply can be told, and which configuration is  *)
(* then installed.  Shared by the abstract specification of the manager    *)
(* (ConfigApply) and by the components that call it.                       *)
(***************************************************************************)

(* "none" is not a return value: no call has returned since the start or   *)
(* since the last crash.  Every report but "ok" is an error to the caller. *)
Reports == {"none", "ok", "refused", "restored", "unrestored"}

(* The ways a call that wants to replace old by new ends.  An error leaves *)
(* old in place, save when the manager says it could not restore it.       *)
Endings(old, new) ==
  {[installed |-> new, report |-> "ok"], [installed |-> new, report |-> "unrestored"]}
    \cup [installed: {old}, report: {"refused", "restored", "unrestored"}]
==============================================================================
