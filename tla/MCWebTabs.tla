----------------------------- MODULE MCWebTabs -----------------------------
(* Small instances of WebTabs for TLC. *)
EXTENDS WebCalm, TLC

Interchangeable ==
    Permutations(Users) \cup Permutations(Tenants) \cup Permutations(Requests)
    \cup Permutations(Tabs)
=============================================================================
