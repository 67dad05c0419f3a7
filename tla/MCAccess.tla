------------------------------- MODULE MCAccess -------------------------------
(***************************************************************************)
(* TLC instance of Access.                                                  *)
(***************************************************************************)
EXTENDS Access, TLC

MCSymmetry == Permutations(Users) \cup Permutations(Requests)
=============================================================================
