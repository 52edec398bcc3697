--------------------------- MODULE MCSearchReads ---------------------------
(* A small instance of SearchReads for TLC. *)
EXTENDS SearchReads, TLC

CONSTANTS plumber, Plumber, cleaner

Normalized == [t \in Texts |-> IF t = Plumber THEN plumber ELSE t]

Slots == Permutations(Requests)
=============================================================================
