-------------------------- MODULE MCPaymentSettlement --------------------------
(***************************************************************************)
(* Small instances of PaymentSettlement for TLC.                           *)
(***************************************************************************)
EXTENDS PaymentSettlement, TLC

CONSTANTS t1, u1, o1, o2, w1, w2

\* Orders and workers are interchangeable; used only where no liveness is checked.
Symmetry == Permutations(Orders) \cup Permutations(Workers)
===============================================================================
