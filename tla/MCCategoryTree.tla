--------------------------- MODULE MCCategoryTree ---------------------------
(* Small instances of CategoryTree for TLC. *)
EXTENDS CategoryTree, TLC

Interchangeable == Permutations(Categories) \cup Permutations(Requests)
=============================================================================
