-------------------------- MODULE MCOrderReservation --------------------------
(***************************************************************************)
(* Small instances of OrderReservation for TLC.                            *)
(***************************************************************************)
EXTENDS OrderReservation, TLC

CONSTANTS t1, t2, u1, u2, o1, o2, o3

\* Orders and users are interchangeable; used only where no liveness is checked.
Symmetry == Permutations(Orders) \cup Permutations(Users)
===============================================================================
