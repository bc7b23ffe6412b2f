------------------------------- MODULE MCSessions -------------------------------
(***************************************************************************)
(* Small instances of Sessions for TLC.                                    *)
(***************************************************************************)
EXTENDS Sessions, TLC

CONSTANTS u1, u2, b1, b2, s1, s2, r1, r2

\* Nothing tells these apart; no liveness is checked.
Symmetry ==
  Permutations(Browsers) \cup Permutations(Users) \cup Permutations(Sessions)
    \cup Permutations(Requests)
===============================================================================
