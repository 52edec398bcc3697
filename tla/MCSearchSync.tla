--------------------------- MODULE MCSearchSync ---------------------------
(* Small instances of SearchSync for TLC. *)
EXTENDS SearchOrderly, TLC

(* Bounds on what clients ask for.  Submitting for verification changes the *)
(* document of a service and emits nothing, see QuietVerificationCurrent.   *)
EveryOp == CatalogOps \cup ProviderOps \cup {"category"}
EmittingOps == EveryOp \ {"submit"}
OverlapOps == {"create", "publish", "pause", "review"}

OneOwner == [s \in Services |-> CHOOSE p \in Providers : TRUE]

(* As long as a behaviour is orderly it is about two services, one of them *)
(* always complete, and every operation that emits an event.  Once a call  *)
(* has failed, the process has stopped or an index is being rebuilt, it is *)
(* about one service that is created, published, paused and reviewed.      *)
FirstService == CHOOSE s \in Services : TRUE

Within ==
    /\ \A s \in Services :
         service[s].status = "UNBORN" \/ s # FirstService => service[s].content \in Complete
    /\ ~orderly =>
         /\ \A r \in Requests : req[r].op \in OverlapOps \cup {None}
         /\ \A c \in Categories : active[c]
         /\ \A p \in Providers : provider[p].active <=> provider[p].verification # "SUSPENDED"
         /\ \A s \in Services :
              /\ service[s].content \in Complete
              /\ service[s].status # "ARCHIVED"
              /\ s # FirstService => service[s].status = "UNBORN"

mcVars == <<rebuildVars, orderly>>

MCNext == SearchNext /\ StaysOrderly /\ Remembers /\ Within'
MCInit == OrderlyInit /\ undisturbed = FALSE /\ Within
MCSpec == MCInit /\ [][MCNext]_mcVars /\ OrderlyFairness

(* All operations of the instance, in any order. *)
RaceInit == SearchInit /\ orderly = FALSE /\ undisturbed = FALSE
RaceSpec == RaceInit /\ [][SearchNext /\ UNCHANGED <<orderly, undisturbed>>]_mcVars
=============================================================================
