------------------------- MODULE ServiceLifecycle -------------------------
(***************************************************************************)
(* What the catalogue promises: the life of a service as a client and the  *)
(* error messages of the API describe it, each operation one atomic step   *)
(* that looks at the rows as they are when it takes effect.                *)
(*                                                                         *)
(*   - an archived service is neither edited, published nor paused;        *)
(*   - only a verified provider publishes, and only complete services;     *)
(*   - only a published service is paused;                                 *)
(*   - a published service is not deleted;                                 *)
(*   - the date of the first publication is kept.                          *)
(*                                                                         *)
(* ServiceCatalog models the handlers that are meant to deliver this.      *)
(***************************************************************************)
EXTENDS CatalogTypes

VARIABLES
    service,    \* service[s]: the row of service s
    provider,   \* provider[p]: verification status and isActive of provider p
    active      \* active[c]: isActive of category c

vars == <<service, provider, active>>

Init ==
    /\ service \in [Services -> {row \in Row : row.status = "UNBORN" /\ row.publishedAt = None}]
    /\ provider = [p \in Providers |-> [verification |-> "PENDING", active |-> TRUE]]
    /\ active = [c \in Categories |-> TRUE]

Becomes(s, row) ==
    /\ service' = [service EXCEPT ![s] = row]
    /\ UNCHANGED <<provider, active>>

Create(s) ==
    /\ service[s].status = "UNBORN"
    /\ \E x \in Contents, c \in Categories :
         /\ active[c]
         /\ Becomes(s, [status |-> "DRAFT", publishedAt |-> None, content |-> x, category |-> c])

Edit(s) ==
    /\ service[s].status \in Stored \ {"ARCHIVED"}
    /\ \E x \in Contents, c \in Categories :
         /\ c = service[s].category \/ active[c]
         /\ Becomes(s, [service[s] EXCEPT !.content = x, !.category = c])

Publish(s) ==
    /\ service[s].status \in Stored \ {"ARCHIVED"}
    /\ service[s].content \in Complete
    /\ provider[Owner[s]].verification = "VERIFIED"
    /\ \E d \in Dates :
         /\ service[s].publishedAt # None => d = service[s].publishedAt
         /\ Becomes(s, [service[s] EXCEPT !.status = "PUBLISHED", !.publishedAt = d])

Pause(s) ==
    /\ service[s].status = "PUBLISHED"
    /\ Becomes(s, [service[s] EXCEPT !.status = "PAUSED"])

Archive(s) ==
    /\ service[s].status \in Stored
    /\ Becomes(s, [service[s] EXCEPT !.status = "ARCHIVED"])

Delete(s) ==
    /\ service[s].status \in Stored \ {"PUBLISHED"}
    /\ Becomes(s, [service[s] EXCEPT !.status = "DELETED"])

Submit(p) ==
    /\ provider[p].verification \notin {"UNDER_REVIEW", "VERIFIED"}
    /\ provider' = [provider EXCEPT ![p].verification = "UNDER_REVIEW"]
    /\ UNCHANGED <<service, active>>

Review(p) ==
    /\ \E v \in {"VERIFIED", "REJECTED", "SUSPENDED"} :
         provider' = [provider EXCEPT ![p] = [verification |-> v, active |-> v # "SUSPENDED"]]
    /\ UNCHANGED <<service, active>>

SetProviderActive(p) ==
    /\ \E b \in BOOLEAN : provider' = [provider EXCEPT ![p].active = b]
    /\ UNCHANGED <<service, active>>

SetCategoryActive(c) ==
    /\ \E b \in BOOLEAN : active' = [active EXCEPT ![c] = b]
    /\ UNCHANGED <<service, provider>>

Next ==
    \/ \E s \in Services :
         Create(s) \/ Edit(s) \/ Publish(s) \/ Pause(s) \/ Archive(s) \/ Delete(s)
    \/ \E p \in Providers : Submit(p) \/ Review(p) \/ SetProviderActive(p)
    \/ \E c \in Categories : SetCategoryActive(c)

Spec == Init /\ [][Next]_vars
=============================================================================
