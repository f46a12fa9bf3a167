------------------------------ MODULE MCShield ------------------------------
(***************************************************************************)
(* Instances of Shield for TLC.                                            *)
(***************************************************************************)
EXTENDS Shield

\* A shield limit the pool can fill and one that closes it.
MCLimits == {6, -1}
=============================================================================
