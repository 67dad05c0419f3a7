---------------------------- MODULE PacketFilter ----------------------------
(***************************************************************************)
(* What applyNFT promises, with no table, no commands and no handlers: the  *)
(* rows ask for a set of rules, and the filter either has no settled        *)
(* contents or has exactly the rules that the rows ask for.                 *)
(***************************************************************************)
CONSTANTS
    Entries,   \* the rules there can be
    Unsettled  \* no promise, and no set of rules: a rebuild is due, under way, or was disturbed

VARIABLES wanted, force

Init == wanted \in SUBSET Entries /\ force = Unsettled

\* The rows change, or somebody touches the table.
Unsettle == wanted' \in SUBSET Entries /\ force' = Unsettled

\* A rebuild ends.
Settle == wanted' = wanted /\ force' = wanted

Next == Unsettle \/ Settle

Spec == Init /\ [][Next]_<<wanted, force>>
=============================================================================
