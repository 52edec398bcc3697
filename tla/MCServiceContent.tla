-------------------------- MODULE MCServiceContent --------------------------
(* A small instance of ServiceContent for TLC. *)
EXTENDS ServiceContent, TLC

(* What clients ask for in one behaviour (bound): the numbers of child     *)
(* rows of one service, the slugs of two, or what one and its child say.   *)
VARIABLE topic

(* Titles matter to slugs only. *)
Title == CHOOSE t \in Titles : TRUE

Nothing == [exempt |-> None, given |-> None]

About(r) ==
    LET pc == req[r].pc  in == req[r].in
        update == req[r].of # None /\ pc \in {"probe", "lock", "replace", "delete", "commit"} IN
    CASE topic = "numbers" ->
            /\ pc # "change"
            /\ pc \in {"count", "find", "insert", "drop"} => in = "media"
            /\ update => in.title = None /\ in.says = Nothing /\ in.lists = {"media"}
      [] topic = "slugs" ->
            /\ pc \notin {"count", "find", "remove"}
            /\ pc = "status" => in = "PUBLISHED"
            /\ update => in.title # None /\ in.says = Nothing /\ in.lists = {}
      [] topic = "claims" ->
            /\ pc \notin {"status", "remove", "drop"}
            /\ pc \in {"count", "find", "insert"} => in = "locations"
            /\ update => in.title = None /\ in.lists = {}

Stored(table) == {i \in DOMAIN table : table[i] # None}

Within ==
    /\ \A r \in Requests : About(r)
    /\ topic # "slugs" =>
         /\ Cardinality(Stored(row)) <= 1
         /\ \A r \in Requests : req[r].pc \in {"probe", "create"} => req[r].in = Title
    /\ topic = "claims" => Cardinality(Stored(child)) <= 1
    /\ topic # "claims" => \A s \in Stored(row) : row[s].says = Plain
    /\ \A c \in Stored(child) :
         child[c].kind = CASE topic = "numbers" -> "media"
                           [] topic = "slugs" -> "none"
                           [] topic = "claims" -> "locations"

MCInit == Init /\ topic \in {"numbers", "slugs", "claims"}
MCNext == Next /\ UNCHANGED topic /\ Within'
MCSpec == MCInit /\ [][MCNext]_<<vars, topic>>

Updates ==
    [title : Titles \cup {None}, says : {Nothing}, more : {FALSE}, lists : {{}}]
    \cup [title : {None}, says : Form, more : {FALSE}, lists : {{}}]
    \cup [title : {None}, says : {Nothing}, more : BOOLEAN, lists : {{"media"}}]

One == [k \in Kinds |-> 1]
Interchangeable == Permutations(Requests) \cup Permutations(Services) \cup Permutations(Children)
=============================================================================
