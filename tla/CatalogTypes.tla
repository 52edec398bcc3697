--------------------------- MODULE CatalogTypes ---------------------------
(***************************************************************************)
(* The rows of the service catalogue that the catalogue, the provider and  *)
(* the search modules share, as declared by prisma/schema.prisma.          *)
(*                                                                         *)
(* What a service says (its texts, price, duration, tags, media and        *)
(* locations) is one value of Contents; Complete is the subset that        *)
(* assertReadyToPublish accepts.  A service that does not exist yet is     *)
(* UNBORN and a deleted one is DELETED: an id is a fresh UUID, so a row    *)
(* that was deleted never comes back under the same id.                    *)
(***************************************************************************)
CONSTANTS
    Services,       \* service ids
    Providers,      \* provider ids
    Categories,     \* category ids
    Contents,       \* what a service and its child rows can say
    Complete,       \* the contents assertReadyToPublish accepts
    Dates,          \* the values of new Date()
    Owner,          \* Owner[s]: the provider of service s, fixed at creation
    None            \* the null of the database and of the program

Stored == {"DRAFT", "PUBLISHED", "PAUSED", "ARCHIVED"}
Status == Stored \cup {"UNBORN", "DELETED"}

Row == [status : Status, publishedAt : Dates \cup {None},
        content : Contents, category : Categories]

Verification == {"PENDING", "UNDER_REVIEW", "VERIFIED", "REJECTED", "SUSPENDED"}

Profile == [verification : Verification, active : BOOLEAN]

ASSUME CatalogAssumption ==
    /\ Owner \in [Services -> Providers]
    /\ Complete \subseteq Contents
    /\ None \notin Dates \cup Services \cup Providers \cup Categories \cup Row
=============================================================================
