---------------------------- MODULE SearchQuery ----------------------------
(***************************************************************************)
(* What a search asks for: the filters of the search pages, the URL they   *)
(* live in (search-params.ts) and what the API makes of them               *)
(* (search.dto.ts, search.service.ts).                                     *)
(*                                                                         *)
(* A query is a function on the parameters it sets.  An empty text and     *)
(* undefined are both None.                                                *)
(***************************************************************************)
EXTENDS Integers

CONSTANTS
    TooLong,        \* TooLong[k]: texts beyond the API's limit for parameter k
    None

(* 200 characters of q, 120 of a category or a city, 100 of what           *)
(* suggestions are asked for; no input of the pages has such a limit.      *)
ASSUME TooLongAssumption == DOMAIN TooLong = {"q", "category", "city", "autocomplete"}

Switches == {"verifiedOnly", "instantBooking"}
Numbers == {"page", "limit", "latitude", "longitude", "radius", "minPrice", "maxPrice", "minRating"}

Sets(f, k) == k \in DOMAIN f

Value(f, k, default) == IF Sets(f, k) THEN f[k] ELSE default

-----------------------------------------------------------------------------
(* serializeSearchParams: what is falsy is not in the URL. *)
Truthy(k, v) ==
    CASE k \in Switches -> v = TRUE
      [] k \in Numbers -> v \notin {None, 0}
      [] OTHER -> v # None

(* parseSearchParams reads back what is there. *)
Serialize(f) == [k \in {j \in DOMAIN f : Truthy(j, f[j])} |-> f[k]]

With(f, k, v) == [j \in DOMAIN f \cup {k} |-> IF j = k THEN v ELSE f[j]]

Without(f, k) == [j \in DOMAIN f \ {k} |-> f[j]]

-----------------------------------------------------------------------------
Between(f, k, low, high) == Sets(f, k) => f[k] \in low .. high

AtLeast(f, k, low) == Sets(f, k) => f[k] >= low

Fits(f, k) == Sets(f, k) => f[k] \notin TooLong[k]

(* SearchServicesQueryDto. *)
InRange(f) ==
    /\ Fits(f, "q") /\ Fits(f, "category") /\ Fits(f, "city")
    /\ AtLeast(f, "page", 1) /\ Between(f, "limit", 1, 50)
    /\ Between(f, "latitude", -90, 90) /\ Between(f, "longitude", -180, 180)
    /\ Between(f, "radius", 1, 500)
    /\ AtLeast(f, "minPrice", 0) /\ AtLeast(f, "maxPrice", 0)
    /\ Between(f, "minRating", 0, 5)

Located(f) == Sets(f, "latitude") /\ Sets(f, "longitude")

(* Mutant of LocatedIfNeeded: a radius without a place is let through. *)
LocatedIfSorted(f) ==
    /\ Value(f, "sort", "relevance") = "distance" => Located(f)
    /\ Sets(f, "latitude") \/ Sets(f, "longitude") => Located(f)

(* assertGeoSort. *)
LocatedIfNeeded(f) ==
    /\ Value(f, "sort", "relevance") = "distance" => Located(f)
    /\ Sets(f, "latitude") \/ Sets(f, "longitude") \/ Sets(f, "radius") => Located(f)

Admitted(f) == InRange(f) /\ LocatedIfNeeded(f)

OnPage(f) == Value(f, "page", 1)

(* What is asked for, whatever page of it. *)
Question(f) == Without(f, "page")
=============================================================================
