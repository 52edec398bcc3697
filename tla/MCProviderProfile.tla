------------------------- MODULE MCProviderProfile -------------------------
(* A small instance of ProviderProfile for TLC. *)
EXTENDS ProviderProfile, TLC

(* What clients ask for in one behaviour: the three services share the     *)
(* provider row only, so a behaviour is about one of them, and where       *)
(* profiles are updated at most two requests are under way and an update   *)
(* gives one list at most (bound).                                         *)
VARIABLE topic

Topics == {{"me", "update"}, {"submit", "review"}, {"addSlot", "changeSlot", "dropSlot"}}

MCInit == Init /\ topic \in Topics
Within ==
    /\ \A r \in Requests : req[r].op \in topic \cup {None}
    /\ "update" \in topic =>
         /\ Cardinality({r \in Requests : req[r] # Idle}) <= 2
         /\ \A r \in Requests : req[r].in # None =>
              Cardinality({k \in Kinds : req[r].in.lists[k] # "keep"}) <= 1

MCNext == Next /\ UNCHANGED topic /\ Within'
MCSpec == MCInit /\ [][MCNext]_<<vars, topic>>

AllOps == OwnOps \cup {"review"}
Interchangeable == Permutations(Requests) \cup Permutations(Ids) \cup Permutations(Batches)
=============================================================================
