----------------------------- MODULE MCAccounts -----------------------------
(* An instance of Accounts for TLC: one name in two spellings. *)
EXTENDS Accounts, TLC

CONSTANTS Ada, ada, root

Lowered == [n \in Names |-> IF n = Ada THEN ada ELSE n]
OperatorFiles == {{root}, {root, Ada}}

Symmetry == Permutations(Signups) \cup Permutations(Addresses)
            \cup Permutations(Subjects) \cup Permutations(Clients)
=============================================================================
