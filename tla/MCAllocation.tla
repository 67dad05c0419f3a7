---------------------------- MODULE MCAllocation ----------------------------
(***************************************************************************)
(* TLC instance of Allocation: vm_cidr of two /30 blocks.                   *)
(***************************************************************************)
EXTENDS Allocation, TLC

\* Either block, all of vm_cidr, a /31, and a block outside.
MCCIDRs == {[first |-> 0, last |-> 3], [first |-> 4, last |-> 7],
            [first |-> 0, last |-> 7], [first |-> 2, last |-> 3],
            [first |-> 8, last |-> 11]}

MCSymmetry == Permutations(VMs) \cup Permutations(Nets) \cup Permutations(Requests)
=============================================================================
