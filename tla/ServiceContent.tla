--------------------------- MODULE ServiceContent ---------------------------
(***************************************************************************)
(* What the services of one provider say: ServiceCatalogService over the   *)
(* columns of a service and over its child rows (media, tags, FAQs,        *)
(* requirements, locations).                                               *)
(*                                                                         *)
(*   idle --read--> count --> insert                    addMedia, addTag ... *)
(*              --> find --> change | drop              updateMedia, removeMedia ... *)
(*              --> [probe*] --> lock --> replace --> delete --> commit  update *)
(*              --> status | remove                     publish, pause, archive, remove *)
(*   idle --> probe* --> create                         create               *)
(*                                                                         *)
(* update and create are transactions.  If a column of the service is      *)
(* given, the first statement of update locks the service row until the    *)
(* commit; the inserts of child rows do not wait for that lock, unless the *)
(* update gives the row another slug.  If only lists are given, the data   *)
(* of that statement is empty, Prisma writes nothing and nothing is locked. *)
(* Who may call, the checks of publish and the events are in ServiceCatalog. *)
(***************************************************************************)
EXTENDS Integers, FiniteSets

CONSTANTS
    Requests,   \* request slots (bound)
    Services,   \* ids of services (bound)
    Children,   \* ids of child rows (bound)
    Kinds,      \* kinds of child rows
    Limit,      \* Limit[k]: how many of kind k a service may have
    Titles,     \* titles that differ once slugify has shortened them (bound)
    Attempts,   \* slugs tried for one title
    Asked,      \* what updates ask for (bound)
    None

VARIABLES
    row,        \* row[s]: the service row s, or None
    child,      \* child[c]: the child row c, or None
    lock,       \* lock[s]: the update that has written row s and not committed
    req,        \* req[r]: what the handler in slot r remembers
    overtaken,  \* history: requests whose read another write has made stale
    crowded,    \* history: <<s, k>> last filled on a stale count
    mixed       \* history: services and child rows last merged on a stale read

rows == <<row, child>>
history == <<overtaken, crowded, mixed>>
vars == <<row, child, lock, req, overtaken, crowded, mixed>>

Status == {"DRAFT", "PUBLISHED", "PAUSED", "ARCHIVED"}
Slug == [base : Titles, n : 1 .. Attempts]

(* Two columns that are checked together: a pricing model needs a price    *)
(* unless it is QUOTE_REQUIRED, a location a place unless it is REMOTE     *)
(* (city, country and coordinates are one here).                           *)
Claim == [exempt : BOOLEAN, given : BOOLEAN]
Form == [exempt : BOOLEAN \cup {None}, given : BOOLEAN \cup {None}]

(* What an update asks for: a title, one half or both of its claim, other  *)
(* columns or none, lists.                                                 *)
Update == [title : Titles \cup {None}, says : Form, more : BOOLEAN, lists : SUBSET Kinds]

Row == [status : Status, title : Titles, slug : Slug, says : Claim]
Child == [of : Services, kind : Kinds, says : Claim]

ASSUME ContentAssumption ==
    /\ Kinds \subseteq {"media", "tags", "faqs", "requirements", "locations"}
    /\ Limit \in [Kinds -> Nat \ {0}]
    /\ Attempts \in Nat \ {0}
    /\ Asked \subseteq Update
    /\ IsFiniteSet(Requests) /\ IsFiniteSet(Children)
    /\ Services \cap Children = {}
    /\ None \notin Requests \cup Services \cup Children \cup Titles
    /\ None \notin Kinds /\ None \notin BOOLEAN /\ None \notin Row /\ None \notin Child

Idle == [pc |-> "idle", of |-> None, in |-> None, slug |-> None, seen |-> None]

(* in: what the client sent; seen: a child row, or the deleted ones.       *)
Adding == [pc : {"count", "insert"}, of : Services, in : Kinds, slug : {None}, seen : {None}]
Finding == [pc : {"find"}, of : Services, in : Kinds, slug : {None}, seen : {None}]
Dropping == [pc : {"drop"}, of : Services, in : Kinds, slug : {None}, seen : Children]
Changing == [pc : {"change"}, of : Services, in : Form, slug : {None}, seen : Children]
Updating == [pc : {"probe", "lock", "replace"}, of : Services, in : Update, slug : Slug, seen : {None}]
Replacing == [pc : {"delete", "commit"}, of : Services, in : Update, slug : Slug, seen : SUBSET Children]
Creating == [pc : {"probe", "create"}, of : {None}, in : Titles, slug : Slug, seen : {None}]
Moving == [pc : {"status"}, of : Services, in : Status, slug : {None}, seen : {None}]
Removing == [pc : {"remove"}, of : Services, in : {None}, slug : {None}, seen : {None}]

Request == {Idle} \cup Adding \cup Finding \cup Dropping \cup Changing
           \cup Updating \cup Replacing \cup Creating \cup Moving \cup Removing

TypeOK ==
    /\ row \in [Services -> Row \cup {None}]
    /\ child \in [Children -> Child \cup {None}]
    /\ lock \in [Services -> Requests \cup {None}]
    /\ req \in [Requests -> Request]
    /\ overtaken \subseteq Requests
    /\ crowded \subseteq Services \X Kinds
    /\ mixed \subseteq Services \cup Children

Init ==
    /\ row = [s \in Services |-> None]
    /\ child = [c \in Children |-> None]
    /\ lock = [s \in Services |-> None]
    /\ req = [r \in Requests |-> Idle]
    /\ overtaken = {}
    /\ crowded = {}
    /\ mixed = {}

-----------------------------------------------------------------------------
Kids(s, k) == {c \in Children : child[c] # None /\ child[c].of = s /\ child[c].kind = k}

(* validatePricing and validateLocation. *)
Sound(says) == says.exempt \/ says.given

Given(new, old) == IF new = None THEN old ELSE new

Merge(form, says) ==
    [exempt |-> Given(form.exempt, says.exempt), given |-> Given(form.given, says.given)]
Partial(form) == None \in {form.exempt, form.given}

(* Only locations say something that is checked. *)
Plain == [exempt |-> TRUE, given |-> FALSE]
Says(k) == IF k = "locations" THEN {says \in Claim : Sound(says)} ELSE {Plain}

(* A new id: no row has it and no request remembers it. *)
Known(q) == IF req[q].pc \in {"delete", "commit"} THEN req[q].seen ELSE {req[q].seen}
Fresh == {c \in Children : child[c] = None /\ \A q \in Requests : c \notin Known(q)}

(* An update that is open has deleted c: other writers of c wait for it.   *)
Held(c) == \E q \in Requests : req[q].pc = "commit" /\ c \in req[q].seen

Goto(r, pc) == req' = [req EXCEPT ![r].pc = pc]

(* The answer is sent; others have read what this request has written. *)
Finish(r, others) ==
    /\ req' = [req EXCEPT ![r] = Idle]
    /\ overtaken' = (overtaken \cup others) \ {r}

(* requireEditableService: the read every handler of a child row begins with. *)
Editable(s) == row[s] # None /\ row[s].status # "ARCHIVED"

ReadForChild(r, s, k, pc) ==
    /\ req[r] = Idle
    /\ Editable(s)
    /\ req' = [req EXCEPT ![r] = [pc |-> pc, of |-> s, in |-> k, slug |-> None, seen |-> None]]
    /\ UNCHANGED <<rows, lock, history>>

-----------------------------------------------------------------------------
(***************************************************************************)
(* addMedia, addTag, addFaq, addRequirement, addLocation.                  *)
(***************************************************************************)
(* The other adds that have counted the children of kind k of s. *)
Counted(r, s, ks) ==
    {q \in Requests \ {r} : req[q].pc = "insert" /\ req[q].of = s /\ req[q].in \in ks}

(* Mutant of Count: one more than the limit passes. *)
CountInclusive(r) ==
    /\ req[r].pc = "count"
    /\ Cardinality(Kids(req[r].of, req[r].in)) <= Limit[req[r].in]
    /\ Goto(r, "insert")
    /\ UNCHANGED <<rows, lock, history>>

Count(r) ==
    /\ req[r].pc = "count"
    /\ Cardinality(Kids(req[r].of, req[r].in)) < Limit[req[r].in]
    /\ Goto(r, "insert")
    /\ UNCHANGED <<rows, lock, history>>

(* The reference to the service row waits for an update that moves its key. *)
Referable(s) ==
    /\ row[s] # None
    /\ lock[s] # None => req[lock[s]].in.title = None \/ req[lock[s]].slug = row[s].slug

Insert(r) ==
    /\ req[r].pc = "insert"
    /\ LET s == req[r].of  k == req[r].in IN
         /\ Referable(s)
         /\ \E c \in Fresh, says \in Says(k) :
              child' = [child EXCEPT ![c] = [of |-> s, kind |-> k, says |-> says]]
         /\ Finish(r, Counted(r, s, {k}))
         /\ crowded' = IF r \in overtaken THEN crowded \cup {<<s, k>>} ELSE crowded \ {<<s, k>>}
    /\ UNCHANGED <<row, lock, mixed>>

-----------------------------------------------------------------------------
(***************************************************************************)
(* updateMedia, updateFaq, updateRequirement, updateLocation and the       *)
(* handlers that remove one child row.                                     *)
(***************************************************************************)
FindToDrop(r) ==
    /\ req[r].pc = "find"
    /\ \E c \in Kids(req[r].of, req[r].in) : req' = [req EXCEPT ![r].pc = "drop", ![r].seen = c]
    /\ UNCHANGED <<rows, lock, history>>

(* Mutant of FindToChange: updateLocation checks what the client sent only. *)
FindToChangeGivenOnly(r) ==
    /\ req[r].pc = "find"
    /\ \E c \in Kids(req[r].of, req[r].in), form \in Form :
         /\ req[r].in = "locations" /\ ~Partial(form) => Sound(form)
         /\ req' = [req EXCEPT ![r].pc = "change", ![r].in = form, ![r].seen = c]
    /\ UNCHANGED <<rows, lock, history>>

FindToChange(r) ==
    /\ req[r].pc = "find"
    /\ \E c \in Kids(req[r].of, req[r].in), form \in Form :
         /\ Merge(form, child[c].says) \in Says(req[r].in)
         /\ req' = [req EXCEPT ![r].pc = "change", ![r].in = form, ![r].seen = c]
    /\ UNCHANGED <<rows, lock, history>>

Changers(r, c) == {q \in Requests \ {r} : req[q].pc = "change" /\ req[q].seen = c}

(* The row is written by its id; only what was sent is written. *)
Change(r) ==
    /\ req[r].pc = "change"
    /\ LET c == req[r].seen IN
         /\ child[c] # None /\ ~Held(c)
         /\ child' = [child EXCEPT ![c].says = Merge(req[r].in, @)]
         /\ Finish(r, Changers(r, c))
         /\ mixed' = IF r \in overtaken /\ Partial(req[r].in) THEN mixed \cup {c} ELSE mixed \ {c}
    /\ UNCHANGED <<row, lock, crowded>>

Drop(r) ==
    /\ req[r].pc = "drop"
    /\ child[req[r].seen] # None /\ ~Held(req[r].seen)
    /\ child' = [child EXCEPT ![req[r].seen] = None]
    /\ mixed' = mixed \ {req[r].seen}
    /\ Finish(r, {})
    /\ UNCHANGED <<row, lock, crowded>>

-----------------------------------------------------------------------------
(***************************************************************************)
(* allocateServiceSlug: one findUnique per candidate.                      *)
(***************************************************************************)
Holder(slug) == {s \in Services : row[s] # None /\ row[s].slug = slug}

Probe(r) ==
    /\ req[r].pc = "probe"
    /\ IF Holder(req[r].slug) \subseteq {req[r].of}
       THEN Goto(r, IF req[r].of = None THEN "create" ELSE "lock")
       ELSE /\ req[r].slug.n < Attempts
            /\ req' = [req EXCEPT ![r].slug.n = @ + 1]
    /\ UNCHANGED <<rows, lock, history>>

(* Mutant of Available: the table without its unique key. *)
AvailableProbed(slug, s) == TRUE

(* The unique key (providerId, slug) against committed rows and open updates. *)
Available(slug, s) ==
    /\ Holder(slug) \subseteq {s}
    /\ \A q \in Requests :
         req[q].pc \in {"replace", "delete", "commit"} /\ req[q].of # s /\ req[q].in.title # None
            => req[q].slug # slug

(* The new rows of a transaction: the kind of each id it uses, within the  *)
(* limits of validateNestedCollections.                                    *)
Lists(ks) ==
    {kind \in [Fresh -> ks \cup {None}] :
        \A k \in ks : Cardinality({c \in Fresh : kind[c] = k}) <= Limit[k]}

(* The child rows once those of gone are deleted and the new ones are in;  *)
(* the new locations all say place (bound).                                *)
Filled(s, kind, place, gone) ==
    [c \in Children |->
        IF c \in Fresh /\ kind[c] # None
        THEN [of |-> s, kind |-> kind[c],
              says |-> IF kind[c] = "locations" THEN place ELSE Plain]
        ELSE IF c \in gone THEN None ELSE child[c]]

BeginCreate(r, t) ==
    /\ req[r] = Idle
    /\ req' = [req EXCEPT ![r] = [pc |-> "probe", of |-> None, in |-> t,
                                  slug |-> [base |-> t, n |-> 1], seen |-> None]]
    /\ UNCHANGED <<rows, lock, history>>

Create(r) ==
    /\ req[r].pc = "create"
    /\ Available(req[r].slug, None)
    /\ \E s \in Services, says \in Claim :
         /\ row[s] = None /\ \A q \in Requests : req[q].of # s
         /\ Sound(says)
         /\ row' = [row EXCEPT ![s] = [status |-> "DRAFT", title |-> req[r].in,
                                       slug |-> req[r].slug, says |-> says]]
         /\ \E kind \in Lists(Kinds), place \in Says("locations") :
              child' = Filled(s, kind, place, {})
    /\ Finish(r, {})
    /\ UNCHANGED <<lock, crowded, mixed>>

-----------------------------------------------------------------------------
(***************************************************************************)
(* update.                                                                 *)
(***************************************************************************)
(* A new title brings a new slug while the service is not published. *)
Renames(title, s) ==
    title # None /\ title # row[s].title /\ row[s].status \in {"DRAFT", "PAUSED"}

(* Mutant of ReadForUpdate: the slug follows the title whatever the status. *)
ReadForUpdateAlwaysRenames(r, s, in) ==
    /\ req[r] = Idle
    /\ Editable(s)
    /\ Sound(Merge(in.says, row[s].says))
    /\ LET renames == in.title # None /\ in.title # row[s].title IN
         req' = [req EXCEPT ![r] =
            [pc |-> IF renames THEN "probe" ELSE "lock", of |-> s, in |-> in,
             slug |-> IF renames THEN [base |-> in.title, n |-> 1] ELSE row[s].slug,
             seen |-> None]]
    /\ UNCHANGED <<rows, lock, history>>

ReadForUpdate(r, s, in) ==
    /\ req[r] = Idle
    /\ Editable(s)
    /\ Sound(Merge(in.says, row[s].says))
    /\ req' = [req EXCEPT ![r] =
            [pc |-> IF Renames(in.title, s) THEN "probe" ELSE "lock", of |-> s, in |-> in,
             slug |-> IF Renames(in.title, s) THEN [base |-> in.title, n |-> 1] ELSE row[s].slug,
             seen |-> None]]
    /\ UNCHANGED <<rows, lock, history>>

(* The others that have read s to update it. *)
Updaters(r, s) == {q \in Requests \ {r} : req[q].of = s /\ req[q].pc \in {"probe", "lock"}}

(* Whether the update of the row has anything to write. *)
Columns(in) == in.title # None \/ in.says.exempt # None \/ in.says.given # None \/ in.more

LockRow(r) ==
    /\ req[r].pc = "lock"
    /\ LET s == req[r].of IN
         /\ row[s] # None
         /\ req[r].in.title # None => Available(req[r].slug, s)
         /\ \/ Columns(req[r].in) /\ lock[s] = None /\ lock' = [lock EXCEPT ![s] = r]
            \/ ~Columns(req[r].in) /\ UNCHANGED lock
    /\ Goto(r, "replace")
    /\ UNCHANGED <<rows, history>>

(* deleteMany of each list that was given: the rows committed when it begins. *)
FindLists(r) ==
    /\ req[r].pc = "replace"
    /\ req' = [req EXCEPT ![r].pc = "delete",
                          ![r].seen = UNION {Kids(req[r].of, k) : k \in req[r].in.lists}]
    /\ UNCHANGED <<rows, lock, history>>

(* It waits for the rows another open update has deleted, and then looks   *)
(* for no others.                                                          *)
DeleteLists(r) ==
    /\ req[r].pc = "delete"
    /\ \A c \in req[r].seen : child[c] # None => ~Held(c)
    /\ Goto(r, "commit")
    /\ UNCHANGED <<rows, lock, history>>

Commit(r) ==
    /\ req[r].pc = "commit"
    /\ LET s == req[r].of  in == req[r].in
           left == {k \in in.lists : ~ Kids(s, k) \subseteq req[r].seen}
           written == IF Columns(in) THEN {s} ELSE {} IN
         /\ row[s] # None
         /\ row' = [row EXCEPT
                ![s].title = Given(in.title, @),
                ![s].slug = IF in.title = None THEN @ ELSE req[r].slug,
                ![s].says = Merge(in.says, @)]
         /\ \E kind \in Lists(in.lists), place \in Says("locations") :
              /\ lock[s] = r \/ Referable(s) \/ \A c \in Fresh : kind[c] = None
              /\ child' = Filled(s, kind, place, req[r].seen)
         /\ lock' = [lock EXCEPT ![s] = IF @ = r THEN None ELSE @]
         /\ Finish(r, Counted(r, s, in.lists)
                      \cup IF Columns(in) THEN Updaters(r, s) ELSE {})
         /\ crowded' = (crowded \ ({s} \X in.lists)) \cup ({s} \X left)
         /\ mixed' = (mixed \ (written \cup req[r].seen))
                     \cup IF r \in overtaken /\ Partial(in.says) THEN written ELSE {}

-----------------------------------------------------------------------------
(***************************************************************************)
(* publish, pause, archive and remove: the status is read, then the row is *)
(* written by its id.                                                      *)
(***************************************************************************)
Admits(status, s) ==
    CASE status = "PUBLISHED" -> row[s].status # "ARCHIVED"
      [] status = "PAUSED" -> row[s].status = "PUBLISHED"
      [] status = "ARCHIVED" -> TRUE

ReadForStatus(r, s, status) ==
    /\ req[r] = Idle
    /\ row[s] # None
    /\ Admits(status, s)
    /\ req' = [req EXCEPT ![r] = [pc |-> "status", of |-> s, in |-> status,
                                  slug |-> None, seen |-> None]]
    /\ UNCHANGED <<rows, lock, history>>

WriteStatus(r) ==
    /\ req[r].pc = "status"
    /\ LET s == req[r].of IN
         /\ row[s] # None /\ lock[s] = None
         /\ row' = [row EXCEPT ![s].status = req[r].in]
         /\ Finish(r, Updaters(r, s))
    /\ UNCHANGED <<child, lock, crowded, mixed>>

ReadForRemove(r, s) ==
    /\ req[r] = Idle
    /\ row[s] # None
    /\ row[s].status # "PUBLISHED"
    /\ req' = [req EXCEPT ![r] = [pc |-> "remove", of |-> s, in |-> None,
                                  slug |-> None, seen |-> None]]
    /\ UNCHANGED <<rows, lock, history>>

(* The child rows go with the service (onDelete: Cascade). *)
Remove(r) ==
    /\ req[r].pc = "remove"
    /\ LET s == req[r].of IN
         /\ row[s] # None /\ lock[s] = None
         /\ \A k \in Kinds : \A c \in Kids(s, k) : ~Held(c)
         /\ row' = [row EXCEPT ![s] = None]
         /\ child' = [c \in Children |->
                IF child[c] # None /\ child[c].of = s THEN None ELSE child[c]]
         /\ crowded' = crowded \ ({s} \X Kinds)
         /\ mixed' = mixed \ ({s} \cup UNION {Kids(s, k) : k \in Kinds})
    /\ Finish(r, {})
    /\ UNCHANGED lock

(* A check refuses, a row is gone, a key is taken, a call throws: the      *)
(* request ends and its transaction is rolled back.                        *)
Fail(r) ==
    /\ req[r].pc # "idle"
    /\ lock' = [s \in Services |-> IF lock[s] = r THEN None ELSE lock[s]]
    /\ Finish(r, {})
    /\ UNCHANGED <<rows, crowded, mixed>>

Step(r) ==
    \/ \E s \in Services, k \in Kinds : ReadForChild(r, s, k, "count") \/ ReadForChild(r, s, k, "find")
    \/ Count(r) \/ Insert(r)
    \/ FindToDrop(r) \/ FindToChange(r) \/ Change(r) \/ Drop(r)
    \/ \E t \in Titles : BeginCreate(r, t)
    \/ Probe(r) \/ Create(r)
    \/ \E s \in Services, in \in Asked : ReadForUpdate(r, s, in)
    \/ LockRow(r) \/ FindLists(r) \/ DeleteLists(r) \/ Commit(r)
    \/ \E s \in Services, status \in Status \ {"DRAFT"} : ReadForStatus(r, s, status)
    \/ WriteStatus(r)
    \/ \E s \in Services : ReadForRemove(r, s)
    \/ Remove(r)
    \/ Fail(r)

Next == \E r \in Requests : Step(r)

Spec == Init /\ [][Next]_vars

-----------------------------------------------------------------------------
(* "A service may have at most 20 media items" (line 397, and 467, 507,    *)
(* 564, 625): so it has, unless an add rested on a stale count or was      *)
(* overlapped by a replacement of the list, or two replacements overlapped *)
(* that wrote no column and so held no lock (line 207); and then each      *)
(* overlapping request accounts for one full list at most.                 *)
LimitsHold ==
    \A s \in Services, k \in Kinds :
        Cardinality(Kids(s, k)) <=
            IF <<s, k>> \in crowded THEN Cardinality(Requests) * Limit[k] ELSE Limit[k]

(* Only services that are not published get another slug (lines 197 to     *)
(* 204): the address of a published service changes only by an update that *)
(* read the service before another request published or renamed it.        *)
PublishedKeepsSlug ==
    [][\A s \in Services :
         row[s] # None /\ row'[s] # None /\ row[s].status = "PUBLISHED" /\ row'[s].slug # row[s].slug
            => lock[s] \in overtaken]_vars

(* "basePrice is required for the selected pricing model" (line 841) and   *)
(* "Non-remote locations require city/country or latitude/longitude" (line *)
(* 870) hold of every stored row, except one whose last update sent one    *)
(* half only and had read the other before a second update replaced it.    *)
SoundUnlessMixed ==
    /\ \A s \in Services : row[s] # None /\ s \notin mixed => Sound(row[s].says)
    /\ \A c \in Children : child[c] # None /\ c \notin mixed => Sound(child[c].says)

(* Two services of the provider never share a slug: not after overlapping  *)
(* probes (allocateServiceSlug, line 906), nor after two updates of which  *)
(* one has not committed.                                                  *)
SlugsDiffer ==
    \A s, t \in Services :
        row[s] # None /\ row[t] # None /\ row[s].slug = row[t].slug => s = t
=============================================================================
