--------------------------- MODULE MCClientRequests ---------------------------
(***************************************************************************)
(* Small instances of ClientRequests for TLC.                              *)
(***************************************************************************)
EXTENDS ClientRequests

EveryCommand == AllCommands \cup Queries
===============================================================================
