---------------------------- MODULE MCTicketUpdates ----------------------------
(***************************************************************************)
(* Small instances of TicketUpdates for TLC.                               *)
(***************************************************************************)
EXTENDS TicketUpdates

CONSTANTS k1, k2, k3, k4
===============================================================================
