--------------------------- MODULE MCVMLifecycle ---------------------------
(* Small instances of VMLifecycle.                                         *)
EXTENDS VMLifecycle, TLC

CONSTANTS v1, v2, web, web2, r1, r2   \* model values of the configurations

\* Two VMs with names of their own.
OwnNames == [v \in {v1, v2} |-> IF v = v1 THEN web ELSE web2]

\* The second id takes the name of the first over.
SameName == [v \in {v1, v2} |-> web]

\* The name web occurs in the command line of the other VM, as in web2.
PrefixMatch == [n \in {web, web2} |-> IF n = web THEN {web, web2} ELSE {web2}]

\* No VM's name occurs in another's command line.
ExactMatchWeb == [n \in {web} |-> {n}]

\* Handlers are alike, and so are two ids with one name.
Alike == Permutations({r1, r2}) \cup Permutations({v1, v2})
=============================================================================
