------------------------------- MODULE Activities -------------------------------
(***************************************************************************)
(* What the workflows of all services share: Temporal retries an activity  *)
(* until an attempt's result comes back.  An attempt may take effect and   *)
(* its result be lost, by a crash of the worker, a timeout or a broken     *)
(* connection; the workflow then stays where it is (acked = FALSE).        *)
(***************************************************************************)
CONSTANTS
  NULL,       \* what is absent
  LostAcks    \* may an activity take effect and its result be lost?

ASSUME LostAcksAssumption == LostAcks \in BOOLEAN

Attempts == IF LostAcks THEN BOOLEAN ELSE {TRUE}
===============================================================================
