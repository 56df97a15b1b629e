----------------------------- MODULE MCRecovery -----------------------------
(* Instances of Recovery for TLC. *)
EXTENDS Recovery, TLC

Interchangeable ==
    Permutations(Database) \cup Permutations(Client) \cup Permutations(Id)
        \cup Permutations(Operator)

=============================================================================
