----------------------------- MODULE MCTenancy -----------------------------
(* Small instances of Tenancy for TLC. *)
EXTENDS Tenancy, TLC

Interchangeable ==
    Permutations(Users) \cup Permutations(Tenants) \cup Permutations(Requests)
=============================================================================
