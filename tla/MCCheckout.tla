------------------------------- MODULE MCCheckout -------------------------------
(***************************************************************************)
(* Small instances of Checkout for TLC.                                    *)
(***************************************************************************)
EXTENDS Checkout

CONSTANTS t1, u1, u2, o1, o2, w1, k1, k2, k3
===============================================================================
