----------------------------- MODULE MCFirewall -----------------------------
(***************************************************************************)
(* TLC instance of Firewall.                                                *)
(***************************************************************************)
EXTENDS Firewall, TLC

MCSymmetry == Permutations(Requests)
=============================================================================
