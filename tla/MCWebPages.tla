---------------------------- MODULE MCWebPages ----------------------------
(* A small instance of WebPages, with its history, for TLC. *)
EXTENDS PagesApart, TLC

CONSTANTS
    clean, essay, a,    \* what is typed; a is too short to be asked for, essay too long
    home,               \* the category
    s1, p1,             \* the service and its provider
    MaxMoves            \* what the user and others do in one behaviour (bound)

(* No slug of a category is too long. *)
Limits == [q |-> {essay}, category |-> {}, city |-> {essay}, autocomplete |-> {essay}]

Controls ==
    [category |-> {home}, city |-> {essay}, minPrice |-> {-1}, radius |-> {5},
     sort |-> {"distance"}]

OwnerOf == s1 :> p1

Interchangeable == Permutations(Slots)

VARIABLE
    moves       \* what the user and others have done

(* A draft may lack something or its provider be unverified; what is new or *)
(* published, and what a search page leads to, starts complete.            *)
MCInit ==
    /\ ApartInit /\ tab.url \in {Nothing, Search(clean)}
    /\ tab.place = "other" => next # None
    /\ tab.place # "other" => service[s1].status = "DRAFT"
    /\ \/ service[s1].content \in Complete /\ provider[p1].verification = "VERIFIED"
       \/ service[s1].status = "DRAFT" /\ tab.place = "other"
    /\ moves = 0

MCNext ==
    /\ \/ /\ SearchUse \/ WorkspaceUse \/ (Others /\ InWorkspace)
          /\ moves < MaxMoves /\ moves' = moves + 1
       \/ Machine /\ UNCHANGED moves
    /\ Remembers

MCSpec == MCInit /\ [][MCNext]_<<apartVars, moves>>
=============================================================================
