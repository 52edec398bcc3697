------------------------- MODULE MCServiceCatalog -------------------------
(* Small instances of ServiceCatalog for TLC. *)
EXTENDS CatalogAlone, TLC

(* Bounds on what clients ask for. *)
AllOps == CatalogOps \cup ProviderOps \cup {"category"}
ConcurrentOps == CatalogOps \cup {"review"}

(* All services belong to one provider. *)
OneOwner == [s \in Services |-> CHOOSE p \in Providers : TRUE]

(* Request slots are interchangeable. *)
Slots == Permutations(Requests)

(* Until two requests overlap they are of any kind; those that overlap     *)
(* concern a service or its provider's verification, and find every        *)
(* category active.                                                        *)
Within ==
    ~alone => /\ \A r \in Requests : req[r].op \in ConcurrentOps \cup {None}
              /\ \A c \in Categories : active[c]

MCNext == Next /\ StaysAlone /\ Within'
MCSpec == AloneInit /\ [][MCNext]_aloneVars
=============================================================================
