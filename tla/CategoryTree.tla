---------------------------- MODULE CategoryTree ----------------------------
(***************************************************************************)
(* The tree of categories: CategoryService, the mapper that nests it and   *)
(* the foreign keys of its table.                                          *)
(*                                                                         *)
(* A move walks from the new parent to the root, one read of the live      *)
(* table per step, and writes when it is there.  create and remove check   *)
(* before they write as well, but the foreign keys (onDelete: Restrict)    *)
(* repeat their checks at the write: each is one step here.  An id is a    *)
(* UUID: a value of Categories stands for a new row once nothing mentions  *)
(* the old one.                                                            *)
(***************************************************************************)
CONSTANTS
    Categories,  \* rows of the table (bound)
    Requests,    \* slots for moves: how many run at a time (bound)
    Root,        \* parentId of a category without a parent: null
    Absent,      \* no row
    None

ASSUME CategoryAssumption ==
    /\ Root \notin Categories
    /\ Absent \notin Categories
    /\ Root # Absent
    /\ None \notin Categories

VARIABLES
    parent,     \* parent[k]: parentId of the row k, or Absent
    req         \* req[r]: the move in slot r

vars == <<parent, req>>

(***************************************************************************)
(* overtaken is history, read by no action: another move has been written  *)
(* since the walk of this one began.                                       *)
(***************************************************************************)
Idle == [category |-> None, target |-> None, at |-> Root, visited |-> {}, overtaken |-> FALSE]

Move == [category : Categories, target : Categories, at : Categories \cup {Root},
         visited : SUBSET Categories, overtaken : BOOLEAN]

Exists == {k \in Categories : parent[k] # Absent}

TypeOK ==
    /\ parent \in [Categories -> Categories \cup {Root, Absent}]
    /\ req \in [Requests -> Move \cup {Idle}]

Init ==
    /\ parent = [k \in Categories |-> Absent]
    /\ req = [r \in Requests |-> Idle]

Mentions(r) ==
    {k \in Categories : k \in {req[r].category, req[r].target, req[r].at} \cup req[r].visited}

-----------------------------------------------------------------------------
(* assertCategoryExists, and the foreign key behind it. *)
Create(k, p) ==
    /\ parent[k] = Absent
    /\ \A r \in Requests : k \notin Mentions(r)
    /\ p \in Exists \cup {Root}
    /\ parent' = [parent EXCEPT ![k] = p]
    /\ UNCHANGED req

(* Mutant of Remove: neither the handler nor the foreign key looks at the children. *)
RemoveParent(k) ==
    /\ k \in Exists
    /\ parent' = [parent EXCEPT ![k] = Absent]
    /\ UNCHANGED req

(* No child categories, now and at the delete.  A category that has        *)
(* services is not removed either: that is a Remove which does not happen. *)
Remove(k) ==
    /\ k \in Exists
    /\ \A c \in Categories : parent[c] # k
    /\ parent' = [parent EXCEPT ![k] = Absent]
    /\ UNCHANGED req

(* An update with parentId null: nothing to walk. *)
MoveToRoot(k) ==
    /\ k \in Exists
    /\ parent' = [parent EXCEPT ![k] = Root]
    /\ UNCHANGED req

-----------------------------------------------------------------------------
(* An update with a parentId: both rows exist and differ. *)
BeginMove(r, k, p) ==
    /\ req[r] = Idle
    /\ {k, p} \subseteq Exists
    /\ k # p
    /\ req' = [req EXCEPT ![r] = [category |-> k, target |-> p, at |-> p, visited |-> {},
                                  overtaken |-> FALSE]]
    /\ UNCHANGED parent

Walking(r) == req[r].at # Root

(* "Cannot move a category under its own descendant" *)
Descends(r) == req[r].at = req[r].category

(* Mutant of Cyclic: the walk does not keep what it has visited. *)
NeverCyclic(r) == FALSE

(* "Category hierarchy cycle detected" *)
Cyclic(r) == req[r].at \in req[r].visited

Refuse(r) ==
    /\ Walking(r)
    /\ Descends(r) \/ Cyclic(r)
    /\ req' = [req EXCEPT ![r] = Idle]
    /\ UNCHANGED parent

(* Mutant of ReadParent: the walk skips every other ancestor. *)
ReadParentTwice(r) ==
    LET up == parent[req[r].at]
    IN IF up \in Categories THEN parent[up] ELSE up

ReadParent(r) == parent[req[r].at]

(* One turn of the loop; a row that is gone counts as a root. *)
Step(r) ==
    /\ Walking(r)
    /\ ~Descends(r) /\ ~Cyclic(r)
    /\ req' = [req EXCEPT ![r].visited = @ \cup {req[r].at},
                          ![r].at = IF ReadParent(r) = Absent THEN Root ELSE ReadParent(r)]
    /\ UNCHANGED parent

Overtaken(r) ==
    [q \in Requests |->
        IF q = r \/ req[q] = Idle THEN Idle ELSE [req[q] EXCEPT !.overtaken = TRUE]]

WriteMove(r) ==
    /\ req[r] # Idle /\ ~Walking(r)
    /\ {req[r].category, req[r].target} \subseteq Exists
    /\ parent' = [parent EXCEPT ![req[r].category] = req[r].target]
    /\ req' = Overtaken(r)

(* One of the rows is gone at the write, or a call to the database fails. *)
Fails(r) ==
    /\ req[r] # Idle
    /\ req' = [req EXCEPT ![r] = Idle]
    /\ UNCHANGED parent

Work(r) == Refuse(r) \/ Step(r) \/ WriteMove(r)

Next ==
    \/ \E k \in Categories :
         \/ Remove(k) \/ MoveToRoot(k)
         \/ \E p \in Categories \cup {Root} : Create(k, p)
    \/ \E r \in Requests :
         \/ \E k, p \in Categories : BeginMove(r, k, p)
         \/ Work(r) \/ Fails(r)

(* A handler under way goes on: its next call returns or throws. *)
Spec == Init /\ [][Next]_vars /\ \A r \in Requests : WF_vars(Work(r) \/ Fails(r))

-----------------------------------------------------------------------------
Closed(S) == \A k \in S : parent[k] \in S

(* toCategoryTree nests the rows from those without a parent downwards: it *)
(* lists the rows from which the parents lead to such a one.               *)
Listed == {k \in Exists : \A S \in SUBSET Categories : k \in S => ~Closed(S)}

(* "Cannot move a category under its own descendant" (category.service.ts, *)
(* line 196): no categories are each other's ancestors, so the tree lists  *)
(* every category.                                                         *)
Acyclic == Exists \subseteq Listed

(* A category that the tree lists is listed until it is deleted, whatever  *)
(* creations, deletions and moves overlap and whatever cycles there are    *)
(* already, unless a move is written that another one overtook: the walk   *)
(* of assertNotDescendant is right about every change except a move.       *)
ListedUnlessOvertaken ==
    [][\A k \in Listed : k \in Exists' /\ k \notin Listed'
         => \E r \in Requests : req[r].overtaken /\ ~Walking(r) /\ req'[r] = Idle]_vars

(* parentId names a row, so the walk never takes a dangling reference for  *)
(* the root.                                                               *)
ParentsExist == \A k \in Exists : parent[k] \in Exists \cup {Root}

(* Every walk ends, also on a table that has a cycle (the visited set of   *)
(* assertNotDescendant).                                                   *)
WalkEnds == \A r \in Requests : Walking(r) ~> ~Walking(r)
=============================================================================
