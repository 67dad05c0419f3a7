-------------------------- MODULE MCKernelRegistry --------------------------
(***************************************************************************)
(* TLC instance of KernelRegistry.                                          *)
(***************************************************************************)
EXTENDS KernelRegistry, TLC

MCSymmetry == Permutations(Kernels) \cup Permutations(Requests)
=============================================================================
