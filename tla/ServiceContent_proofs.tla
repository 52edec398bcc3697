----------------------- MODULE ServiceContent_proofs ------------------------
(***************************************************************************)
(* Theorems about ServiceContent, for any services, child rows, kinds,     *)
(* limits, titles and any number of requests at the same time.             *)
(***************************************************************************)
EXTENDS ServiceContent, FiniteSetTheorems, TLAPS

(* An update whose transaction is open. *)
Busy(r) == req[r].pc \in {"replace", "delete", "commit"}

(* One that has written the service row, because it has columns to write. *)
Open(r) == Busy(r) /\ Columns(req[r].in)

(* The row an open update has written is locked for it and stays. *)
Holding ==
    \A r \in Requests : Open(r) => row[req[r].of] # None /\ lock[req[r].of] = r

(* What a request is at each of its calls. *)
LEMMA Shapes ==
    ASSUME TypeOK, NEW r \in Requests
    PROVE  /\ req[r].pc \in {"count", "insert"} => req[r] \in Adding
           /\ req[r].pc = "find" => req[r] \in Finding
           /\ req[r].pc = "drop" => req[r] \in Dropping
           /\ req[r].pc = "change" => req[r] \in Changing
           /\ req[r].pc \in {"lock", "replace"} => req[r] \in Updating
           /\ req[r].pc \in {"delete", "commit"} => req[r] \in Replacing
           /\ req[r].pc = "create" => req[r] \in Creating
           /\ req[r].pc = "probe" => req[r] \in Updating \cup Creating
           /\ req[r].pc = "status" => req[r] \in Moving
           /\ req[r].pc = "remove" => req[r] \in Removing
           /\ req[r].pc = "idle" => req[r] = Idle
<1>1. req[r] \in Request
  BY DEF TypeOK
<1>. QED  BY <1>1 DEF Request, Idle, Adding, Finding, Dropping, Changing, Updating, Replacing,
            Creating, Moving, Removing

(* Types are kept request by request. *)
LEMMA RequestTyped ==
    ASSUME TypeOK, NEW r \in Requests, NEW x \in Request, req' = [req EXCEPT ![r] = x]
    PROVE  req' \in [Requests -> Request]
BY DEF TypeOK

LEMMA FinishTyped ==
    ASSUME TypeOK, NEW r \in Requests, NEW others \in SUBSET Requests, Finish(r, others)
    PROVE  req' \in [Requests -> Request] /\ overtaken' \subseteq Requests
<1>1. Idle \in Request
  BY DEF Request
<1>. QED  BY <1>1 DEF TypeOK, Finish

LEMMA InitType == Init => TypeOK /\ Holding
<1>1. Idle \in Request
  BY DEF Request
<1>. QED  BY <1>1 DEF Init, TypeOK, Holding, Open, Busy, Idle

LEMMA ReadTypes ==
    ASSUME TypeOK, NEW r \in Requests,
           \/ \E s \in Services, k \in Kinds : ReadForChild(r, s, k, "count") \/ ReadForChild(r, s, k, "find")
           \/ \E t \in Titles : BeginCreate(r, t)
           \/ \E s \in Services, status \in Status \ {"DRAFT"} : ReadForStatus(r, s, status)
           \/ \E s \in Services : ReadForRemove(r, s)
    PROVE  TypeOK'
<1>1. ASSUME NEW s \in Services, NEW k \in Kinds, NEW pc \in {"count", "find"}, ReadForChild(r, s, k, pc)
      PROVE  TypeOK'
  <2>1. [pc |-> pc, of |-> s, in |-> k, slug |-> None, seen |-> None] \in Request
    BY DEF Request, Adding, Finding
  <2>2. req' \in [Requests -> Request]
    BY <1>1, <2>1, RequestTyped DEF ReadForChild
  <2>. QED  BY <1>1, <2>2 DEF TypeOK, ReadForChild, rows, history
<1>2. ASSUME NEW t \in Titles, BeginCreate(r, t)
      PROVE  TypeOK'
  <2>1. [base |-> t, n |-> 1] \in Slug
    BY ContentAssumption DEF Slug
  <2>2. [pc |-> "probe", of |-> None, in |-> t, slug |-> [base |-> t, n |-> 1], seen |-> None] \in Request
    BY <2>1 DEF Request, Creating
  <2>3. req' \in [Requests -> Request]
    BY <1>2, <2>2, RequestTyped DEF BeginCreate
  <2>. QED  BY <1>2, <2>3 DEF TypeOK, BeginCreate, rows, history
<1>3. ASSUME NEW s \in Services, NEW status \in Status, ReadForStatus(r, s, status)
      PROVE  TypeOK'
  <2>1. [pc |-> "status", of |-> s, in |-> status, slug |-> None, seen |-> None] \in Request
    BY DEF Request, Moving
  <2>2. req' \in [Requests -> Request]
    BY <1>3, <2>1, RequestTyped DEF ReadForStatus
  <2>. QED  BY <1>3, <2>2 DEF TypeOK, ReadForStatus, rows, history
<1>4. ASSUME NEW s \in Services, ReadForRemove(r, s)
      PROVE  TypeOK'
  <2>1. [pc |-> "remove", of |-> s, in |-> None, slug |-> None, seen |-> None] \in Request
    BY DEF Request, Removing
  <2>2. req' \in [Requests -> Request]
    BY <1>4, <2>1, RequestTyped DEF ReadForRemove
  <2>. QED  BY <1>4, <2>2 DEF TypeOK, ReadForRemove, rows, history
<1>. QED  BY <1>1, <1>2, <1>3, <1>4

(* What child rows say is a claim that holds. *)
LEMMA SaysTyped ==
    ASSUME NEW k, NEW says \in Says(k)
    PROVE  says \in Claim /\ Sound(says)
<1>1. Plain \in Claim /\ Sound(Plain)
  BY DEF Plain, Claim, Sound
<1>2. CASE k = "locations"
  BY <1>2 DEF Says
<1>3. CASE k # "locations"
  <2>1. says = Plain
    BY <1>3 DEF Says
  <2>. QED  BY <1>1, <2>1
<1>. QED  BY <1>2, <1>3

(* What a merge of claims returns. *)
LEMMA MergeTyped ==
    ASSUME NEW form \in Form, NEW says \in Claim
    PROVE  /\ Merge(form, says) \in Claim
           /\ ~Partial(form) => \A other \in Claim : Merge(form, other) = Merge(form, says)
<1>1. Given(form.exempt, says.exempt) \in BOOLEAN /\ Given(form.given, says.given) \in BOOLEAN
  BY DEF Given, Form, Claim
<1>. QED  BY <1>1 DEF Merge, Claim, Given, Partial, Form

LEMMA AddTypes ==
    ASSUME TypeOK, NEW r \in Requests, Count(r) \/ Insert(r)
    PROVE  TypeOK'
<1>1. CASE Count(r)
  <2>1. req[r] \in Adding
    BY <1>1, Shapes DEF Count
  <2>2. [req[r] EXCEPT !.pc = "insert"] \in Adding
    BY <2>1 DEF Adding
  <2>3. req' = [req EXCEPT ![r] = [req[r] EXCEPT !.pc = "insert"]]
    BY <1>1 DEF TypeOK, Count, Goto
  <2>4. req' \in [Requests -> Request]
    BY <2>2, <2>3, RequestTyped DEF Request
  <2>. QED  BY <1>1, <2>4 DEF TypeOK, Count, rows, history
<1>2. CASE Insert(r)
  <2>1. req[r] \in Adding
    BY <1>2, Shapes DEF Insert
  <2>2. PICK c \in Fresh, says \in Says(req[r].in) :
          child' = [child EXCEPT ![c] = [of |-> req[r].of, kind |-> req[r].in, says |-> says]]
    BY <1>2 DEF Insert
  <2>3. says \in Claim
    BY <2>2, SaysTyped
  <2>4. [of |-> req[r].of, kind |-> req[r].in, says |-> says] \in Child
    BY <2>1, <2>3 DEF Adding, Child
  <2>5. child' \in [Children -> Child \cup {None}]
    BY <2>2, <2>4 DEF TypeOK, Fresh
  <2>6. Counted(r, req[r].of, {req[r].in}) \in SUBSET Requests
    BY DEF Counted
  <2>7. req' \in [Requests -> Request] /\ overtaken' \subseteq Requests
    BY <1>2, <2>6, FinishTyped DEF Insert
  <2>8. crowded' \subseteq Services \X Kinds
    BY <1>2, <2>1 DEF TypeOK, Insert, Adding
  <2>. QED  BY <1>2, <2>5, <2>7, <2>8 DEF TypeOK, Insert
<1>. QED  BY <1>1, <1>2

LEMMA ChildTypes ==
    ASSUME TypeOK, NEW r \in Requests, FindToDrop(r) \/ FindToChange(r) \/ Change(r) \/ Drop(r)
    PROVE  TypeOK'
<1>1. CASE FindToDrop(r)
  <2>1. req[r] \in Finding
    BY <1>1, Shapes DEF FindToDrop
  <2>2. PICK c \in Kids(req[r].of, req[r].in) : req' = [req EXCEPT ![r].pc = "drop", ![r].seen = c]
    BY <1>1 DEF FindToDrop
  <2>3. [req[r] EXCEPT !.pc = "drop", !.seen = c] \in Dropping
    BY <2>1, <2>2 DEF Finding, Dropping, Kids
  <2>4. req' = [req EXCEPT ![r] = [req[r] EXCEPT !.pc = "drop", !.seen = c]]
    BY <2>2 DEF TypeOK
  <2>5. req' \in [Requests -> Request]
    BY <2>3, <2>4, RequestTyped DEF Request
  <2>. QED  BY <1>1, <2>5 DEF TypeOK, FindToDrop, rows, history
<1>2. CASE FindToChange(r)
  <2>1. req[r] \in Finding
    BY <1>2, Shapes DEF FindToChange
  <2>2. PICK c \in Kids(req[r].of, req[r].in), form \in Form :
          req' = [req EXCEPT ![r].pc = "change", ![r].in = form, ![r].seen = c]
    BY <1>2 DEF FindToChange
  <2>3. [req[r] EXCEPT !.pc = "change", !.in = form, !.seen = c] \in Changing
    BY <2>1, <2>2 DEF Finding, Changing, Kids
  <2>4. req' = [req EXCEPT ![r] = [req[r] EXCEPT !.pc = "change", !.in = form, !.seen = c]]
    BY <2>2 DEF TypeOK
  <2>5. req' \in [Requests -> Request]
    BY <2>3, <2>4, RequestTyped DEF Request
  <2>. QED  BY <1>2, <2>5 DEF TypeOK, FindToChange, rows, history
<1>3. CASE Change(r)
  <2>1. req[r] \in Changing /\ child[req[r].seen] # None
    BY <1>3, Shapes DEF Change
  <2>2. req[r].seen \in Children /\ req[r].in \in Form /\ child[req[r].seen] \in Child
    BY <2>1 DEF Changing, TypeOK
  <2>3. Merge(req[r].in, child[req[r].seen].says) \in Claim
    BY <2>2, MergeTyped DEF Child
  <2>4. child' = [child EXCEPT ![req[r].seen] =
                   [child[req[r].seen] EXCEPT !.says = Merge(req[r].in, child[req[r].seen].says)]]
    BY <1>3 DEF Change, TypeOK
  <2>5. child' \in [Children -> Child \cup {None}]
    BY <2>2, <2>3, <2>4 DEF TypeOK, Child
  <2>6. Changers(r, req[r].seen) \in SUBSET Requests
    BY DEF Changers
  <2>7. req' \in [Requests -> Request] /\ overtaken' \subseteq Requests
    BY <1>3, <2>6, FinishTyped DEF Change
  <2>8. mixed' \subseteq Services \cup Children
    BY <1>3, <2>2 DEF TypeOK, Change
  <2>. QED  BY <1>3, <2>5, <2>7, <2>8 DEF TypeOK, Change
<1>4. CASE Drop(r)
  <2>1. req' \in [Requests -> Request] /\ overtaken' \subseteq Requests
    BY <1>4, FinishTyped DEF Drop
  <2>. QED  BY <1>4, <2>1 DEF TypeOK, Drop
<1>. QED  BY <1>1, <1>2, <1>3, <1>4

(* What the new rows of a transaction leave behind. *)
LEMMA FilledTyped ==
    ASSUME TypeOK, NEW s \in Services, NEW ks \in SUBSET Kinds, NEW kind \in Lists(ks),
           NEW place \in Says("locations"), NEW gone
    PROVE  Filled(s, kind, place, gone) \in [Children -> Child \cup {None}]
<1>1. place \in Claim /\ Plain \in Claim
  BY SaysTyped DEF Plain, Claim
<1>2. ASSUME NEW c \in Children
      PROVE  Filled(s, kind, place, gone)[c] \in Child \cup {None}
  <2>1. CASE c \in Fresh /\ kind[c] # None
    <3>1. kind[c] \in Kinds
      BY <2>1 DEF Lists
    <3>2. CASE kind[c] = "locations"
      BY <1>1, <2>1, <3>1, <3>2 DEF Filled, Child
    <3>3. CASE kind[c] # "locations"
      BY <1>1, <2>1, <3>1, <3>3 DEF Filled, Child
    <3>. QED  BY <3>2, <3>3
  <2>2. CASE ~ (c \in Fresh /\ kind[c] # None)
    BY <2>2 DEF Filled, TypeOK
  <2>. QED  BY <2>1, <2>2
<1>3. Filled(s, kind, place, gone) = [c \in Children |-> Filled(s, kind, place, gone)[c]]
  BY DEF Filled
<1>. QED  BY <1>2, <1>3

LEMMA SlugTypes ==
    ASSUME TypeOK, NEW r \in Requests, Probe(r) \/ Create(r)
    PROVE  TypeOK'
<1>1. CASE Probe(r)
  <2>1. req[r] \in Updating \cup Creating /\ req[r].pc = "probe"
    BY <1>1, Shapes DEF Probe
  <2>2. CASE req' = [req EXCEPT ![r].pc = "create"] /\ req[r].of = None
    <3>1. req[r] \in Creating
      BY <2>1, <2>2, ContentAssumption DEF Updating
    <3>2. [req[r] EXCEPT !.pc = "create"] \in Creating
      BY <3>1 DEF Creating
    <3>3. req' = [req EXCEPT ![r] = [req[r] EXCEPT !.pc = "create"]]
      BY <2>2 DEF TypeOK
    <3>4. req' \in [Requests -> Request]
      BY <3>2, <3>3, RequestTyped DEF Request
    <3>. QED  BY <1>1, <3>4 DEF TypeOK, Probe, rows, history
  <2>3. CASE req' = [req EXCEPT ![r].pc = "lock"] /\ req[r].of # None
    <3>1. req[r] \in Updating
      BY <2>1, <2>3 DEF Creating
    <3>2. [req[r] EXCEPT !.pc = "lock"] \in Updating
      BY <3>1 DEF Updating
    <3>3. req' = [req EXCEPT ![r] = [req[r] EXCEPT !.pc = "lock"]]
      BY <2>3 DEF TypeOK
    <3>4. req' \in [Requests -> Request]
      BY <3>2, <3>3, RequestTyped DEF Request
    <3>. QED  BY <1>1, <3>4 DEF TypeOK, Probe, rows, history
  <2>4. CASE req' = [req EXCEPT ![r].slug.n = @ + 1] /\ req[r].slug.n < Attempts
    <3>1. req[r].slug \in Slug
      BY <2>1 DEF Updating, Creating
    <3> DEFINE slug == [req[r].slug EXCEPT !.n = @ + 1]
    <3>2. slug \in Slug
      BY <3>1, <2>4, ContentAssumption DEF Slug
    <3>3. req' = [req EXCEPT ![r] = [req[r] EXCEPT !.slug = slug]]
      BY <2>4 DEF TypeOK
    <3> HIDE DEF slug
    <3>4. [req[r] EXCEPT !.slug = slug] \in Updating \cup Creating
      BY <2>1, <3>2 DEF Updating, Creating
    <3>5. req' \in [Requests -> Request]
      BY <3>3, <3>4, RequestTyped DEF Request
    <3>. QED  BY <1>1, <3>5 DEF TypeOK, Probe, rows, history
  <2>. QED  BY <1>1, <2>2, <2>3, <2>4 DEF Probe, Goto
<1>2. CASE Create(r)
  <2>1. req[r] \in Creating
    BY <1>2, Shapes DEF Create
  <2>2. PICK s \in Services, says \in Claim, kind \in Lists(Kinds), place \in Says("locations") :
          /\ row' = [row EXCEPT ![s] = [status |-> "DRAFT", title |-> req[r].in,
                                        slug |-> req[r].slug, says |-> says]]
          /\ child' = Filled(s, kind, place, {})
    BY <1>2 DEF Create
  <2>3. [status |-> "DRAFT", title |-> req[r].in, slug |-> req[r].slug, says |-> says] \in Row
    BY <2>1 DEF Creating, Row, Status
  <2>4. row' \in [Services -> Row \cup {None}]
    BY <2>2, <2>3 DEF TypeOK
  <2>5. child' \in [Children -> Child \cup {None}]
    BY <2>2, FilledTyped
  <2>6. req' \in [Requests -> Request] /\ overtaken' \subseteq Requests
    BY <1>2, FinishTyped DEF Create
  <2>. QED  BY <1>2, <2>4, <2>5, <2>6 DEF TypeOK, Create
<1>. QED  BY <1>1, <1>2

(* The request of an update that has read its service. *)
LEMMA ReadForUpdateRequest ==
    ASSUME TypeOK, NEW r \in Requests, NEW s \in Services, NEW in \in Asked, ReadForUpdate(r, s, in)
    PROVE  \E pc \in {"probe", "lock"}, slug \in Slug :
             /\ req' = [req EXCEPT ![r] = [pc |-> pc, of |-> s, in |-> in, slug |-> slug, seen |-> None]]
             /\ pc = "probe" => Renames(in.title, s)
             /\ pc = "lock" => slug = row[s].slug
<1>1. row[s] \in Row
  BY DEF TypeOK, ReadForUpdate, Editable
<1>2. CASE Renames(in.title, s)
  <2>1. in.title \in Titles
    BY <1>2, ContentAssumption DEF Renames, Update
  <2>2. [base |-> in.title, n |-> 1] \in Slug
    BY <2>1, ContentAssumption DEF Slug
  <2>. QED  BY <1>2, <2>2 DEF ReadForUpdate
<1>3. CASE ~ Renames(in.title, s)
  BY <1>1, <1>3 DEF ReadForUpdate, Row
<1>. QED  BY <1>2, <1>3

(* What a commit writes into the row: nothing if it has no columns. *)
LEMMA CommitWrites ==
    ASSUME TypeOK, NEW r \in Requests, Commit(r)
    PROVE  /\ req[r].of \in Services /\ row[req[r].of] \in Row /\ row'[req[r].of] \in Row
           /\ row'[req[r].of].says = Merge(req[r].in.says, row[req[r].of].says)
           /\ row'[req[r].of].slug =
                IF req[r].in.title = None THEN row[req[r].of].slug ELSE req[r].slug
           /\ \A s \in Services \ {req[r].of} : row'[s] = row[s]
           /\ row' \in [Services -> Row \cup {None}]
           /\ ~Columns(req[r].in) => row' = row
<1>1. req[r] \in Replacing /\ req[r].of \in Services /\ row[req[r].of] \in Row
  BY Shapes DEF Commit, Replacing, TypeOK
<1> DEFINE title == Given(req[r].in.title, row[req[r].of].title)
           slug == IF req[r].in.title = None THEN row[req[r].of].slug ELSE req[r].slug
           says == Merge(req[r].in.says, row[req[r].of].says)
<1>2. title \in Titles /\ slug \in Slug /\ says \in Claim
  BY <1>1, MergeTyped DEF Replacing, Update, Row, Given
<1>3. row' = [row EXCEPT ![req[r].of].title = title, ![req[r].of].slug = slug, ![req[r].of].says = says]
  BY <1>1 DEF Commit, TypeOK
<1>4. ASSUME ~Columns(req[r].in)
      PROVE  /\ title = row[req[r].of].title /\ slug = row[req[r].of].slug
             /\ says = row[req[r].of].says
  <2>1. title = row[req[r].of].title /\ slug = row[req[r].of].slug
    BY <1>4 DEF Columns, Given
  <2>2. row[req[r].of].says \in Claim
    BY <1>1 DEF Row
  <2>3. says = row[req[r].of].says
    BY <1>4, <2>2 DEF Columns, Merge, Given, Claim
  <2>. QED  BY <2>1, <2>3
<1> HIDE DEF title, slug, says
<1>5. /\ row'[req[r].of].says = says /\ row'[req[r].of].slug = slug /\ row'[req[r].of] \in Row
      /\ \A s \in Services \ {req[r].of} : row'[s] = row[s]
  BY <1>1, <1>2, <1>3 DEF TypeOK, Row
<1>6. row' \in [Services -> Row \cup {None}]
  BY <1>1, <1>2, <1>3 DEF TypeOK, Row
<1>7. ASSUME ~Columns(req[r].in) PROVE row' = row
  BY <1>1, <1>3, <1>4, <1>7 DEF TypeOK, Row
<1>. QED  BY <1>1, <1>5, <1>6, <1>7 DEF says, slug

LEMMA UpdateTypes ==
    ASSUME TypeOK, Holding, NEW r \in Requests,
           \/ \E s \in Services, in \in Asked : ReadForUpdate(r, s, in)
           \/ LockRow(r) \/ FindLists(r) \/ DeleteLists(r) \/ Commit(r)
    PROVE  TypeOK'
<1>1. ASSUME NEW s \in Services, NEW in \in Asked, ReadForUpdate(r, s, in)
      PROVE  TypeOK'
  <2>1. PICK pc \in {"probe", "lock"}, slug \in Slug :
          req' = [req EXCEPT ![r] = [pc |-> pc, of |-> s, in |-> in, slug |-> slug, seen |-> None]]
    BY <1>1, ReadForUpdateRequest
  <2>2. [pc |-> pc, of |-> s, in |-> in, slug |-> slug, seen |-> None] \in Request
    BY ContentAssumption DEF Request, Updating
  <2>3. req' \in [Requests -> Request]
    BY <2>1, <2>2, RequestTyped
  <2>. QED  BY <1>1, <2>3 DEF TypeOK, ReadForUpdate, rows, history
<1>2. CASE LockRow(r)
  <2>1. req[r] \in Updating
    BY <1>2, Shapes DEF LockRow
  <2>2. [req[r] EXCEPT !.pc = "replace"] \in Updating
    BY <2>1 DEF Updating
  <2>3. req' = [req EXCEPT ![r] = [req[r] EXCEPT !.pc = "replace"]]
    BY <1>2 DEF TypeOK, LockRow, Goto
  <2>4. req' \in [Requests -> Request]
    BY <2>2, <2>3, RequestTyped DEF Request
  <2>5. lock' \in [Services -> Requests \cup {None}]
    BY <1>2 DEF TypeOK, LockRow
  <2>. QED  BY <1>2, <2>4, <2>5 DEF TypeOK, LockRow, rows, history
<1>3. CASE FindLists(r)
  <2>1. req[r] \in Updating
    BY <1>3, Shapes DEF FindLists
  <2> DEFINE gone == UNION {Kids(req[r].of, k) : k \in req[r].in.lists}
  <2>2. gone \subseteq Children
    BY DEF Kids
  <2>3. req' = [req EXCEPT ![r] = [req[r] EXCEPT !.pc = "delete", !.seen = gone]]
    BY <1>3 DEF TypeOK, FindLists
  <2> HIDE DEF gone
  <2>4. [req[r] EXCEPT !.pc = "delete", !.seen = gone] \in Replacing
    BY <2>1, <2>2 DEF Updating, Replacing
  <2>5. req' \in [Requests -> Request]
    BY <2>3, <2>4, RequestTyped DEF Request
  <2>. QED  BY <1>3, <2>5 DEF TypeOK, FindLists, rows, history
<1>5. CASE DeleteLists(r)
  <2>1. req[r] \in Replacing
    BY <1>5, Shapes DEF DeleteLists
  <2>2. [req[r] EXCEPT !.pc = "commit"] \in Replacing
    BY <2>1 DEF Replacing
  <2>3. req' = [req EXCEPT ![r] = [req[r] EXCEPT !.pc = "commit"]]
    BY <1>5 DEF TypeOK, DeleteLists, Goto
  <2>4. req' \in [Requests -> Request]
    BY <2>2, <2>3, RequestTyped DEF Request
  <2>. QED  BY <1>5, <2>4 DEF TypeOK, DeleteLists, rows, history
<1>4. CASE Commit(r)
  <2>1. req[r] \in Replacing /\ req[r].pc = "commit"
    BY <1>4, Shapes DEF Commit
  <2>2. req[r].of \in Services /\ req[r].in \in Update /\ req[r].slug \in Slug
    BY <2>1 DEF Replacing
  <2> DEFINE in == req[r].in
  <2>6. row' \in [Services -> Row \cup {None}]
    BY <1>4, CommitWrites
  <2>7. PICK kind \in Lists(in.lists), place \in Says("locations") :
          child' = Filled(req[r].of, kind, place, req[r].seen)
    BY <1>4 DEF Commit
  <2>8. child' \in [Children -> Child \cup {None}]
    BY <2>2, <2>7, FilledTyped DEF Update
  <2> DEFINE others == Counted(r, req[r].of, in.lists)
                       \cup IF Columns(in) THEN Updaters(r, req[r].of) ELSE {}
  <2>9. others \in SUBSET Requests
    BY DEF Updaters, Counted
  <2>10. req' \in [Requests -> Request] /\ overtaken' \subseteq Requests
    BY <1>4, <2>9, FinishTyped DEF Commit
  <2>11. lock' \in [Services -> Requests \cup {None}]
    BY <1>4 DEF Commit, TypeOK
  <2>12. crowded' \subseteq Services \X Kinds
    BY <1>4, <2>2 DEF Commit, TypeOK, Update
  <2>13. mixed' \subseteq Services \cup Children
    BY <1>4, <2>2 DEF Commit, TypeOK
  <2>. QED  BY <2>6, <2>8, <2>10, <2>11, <2>12, <2>13 DEF TypeOK
<1>. QED  BY <1>1, <1>2, <1>3, <1>4, <1>5

LEMMA EndTypes ==
    ASSUME TypeOK, NEW r \in Requests, WriteStatus(r) \/ Remove(r) \/ Fail(r)
    PROVE  TypeOK'
<1>1. CASE WriteStatus(r)
  <2>1. req[r] \in Moving /\ row[req[r].of] # None
    BY <1>1, Shapes DEF WriteStatus
  <2>2. req[r].of \in Services /\ req[r].in \in Status
    BY <2>1 DEF Moving
  <2>3. row' \in [Services -> Row \cup {None}]
    BY <1>1, <2>1, <2>2 DEF WriteStatus, TypeOK, Row
  <2>4. Updaters(r, req[r].of) \in SUBSET Requests
    BY DEF Updaters
  <2>5. req' \in [Requests -> Request] /\ overtaken' \subseteq Requests
    BY <1>1, <2>4, FinishTyped DEF WriteStatus
  <2>. QED  BY <1>1, <2>3, <2>5 DEF TypeOK, WriteStatus
<1>2. CASE Remove(r)
  <2>1. row' \in [Services -> Row \cup {None}] /\ child' \in [Children -> Child \cup {None}]
    BY <1>2 DEF Remove, TypeOK
  <2>2. req' \in [Requests -> Request] /\ overtaken' \subseteq Requests
    BY <1>2, FinishTyped DEF Remove
  <2>. QED  BY <1>2, <2>1, <2>2 DEF TypeOK, Remove
<1>3. CASE Fail(r)
  <2>1. req' \in [Requests -> Request] /\ overtaken' \subseteq Requests
    BY <1>3, FinishTyped DEF Fail
  <2>2. lock' \in [Services -> Requests \cup {None}]
    BY <1>3 DEF Fail, TypeOK
  <2>. QED  BY <1>3, <2>1, <2>2 DEF TypeOK, Fail, rows
<1>. QED  BY <1>1, <1>2, <1>3

LEMMA StepTypes ==
    ASSUME TypeOK, Holding, NEW r \in Requests, Step(r)
    PROVE  TypeOK'
BY ReadTypes, AddTypes, ChildTypes, SlugTypes, UpdateTypes, EndTypes DEF Step

(* A step of a request that only reads. *)
Quiet(r) ==
    \/ \E s \in Services, k \in Kinds : ReadForChild(r, s, k, "count") \/ ReadForChild(r, s, k, "find")
    \/ \E t \in Titles : BeginCreate(r, t)
    \/ \E s \in Services, status \in Status \ {"DRAFT"} : ReadForStatus(r, s, status)
    \/ \E s \in Services : ReadForRemove(r, s)
    \/ \E s \in Services, in \in Asked : ReadForUpdate(r, s, in)
    \/ Count(r) \/ FindToDrop(r) \/ FindToChange(r) \/ Probe(r)

(* A step concerns the request that takes it. *)
LEMMA QuietFrame ==
    ASSUME TypeOK, NEW r \in Requests, Quiet(r)
    PROVE  /\ UNCHANGED <<row, child, lock, overtaken, crowded, mixed>>
           /\ \A q \in Requests \ {r} : req'[q] = req[q]
           /\ ~Busy(r)'
<1>1. UNCHANGED <<row, child, lock, overtaken, crowded, mixed>>
  BY DEF Quiet, ReadForChild, BeginCreate, ReadForStatus, ReadForRemove, ReadForUpdate, Count,
         FindToDrop, FindToChange, Probe, rows, history
<1>2. \A q \in Requests \ {r} : req'[q] = req[q]
  BY DEF Quiet, ReadForChild, BeginCreate, ReadForStatus, ReadForRemove, ReadForUpdate, Count,
         FindToDrop, FindToChange, Probe, Goto, TypeOK
<1>3. ~Busy(r)'
  <2>1. CASE \E s \in Services, in \in Asked : ReadForUpdate(r, s, in)
    BY <2>1 DEF ReadForUpdate, Busy, TypeOK
  <2>2. CASE Count(r)
    BY <2>2 DEF Count, Goto, Busy, TypeOK
  <2>3. CASE FindToDrop(r) \/ FindToChange(r)
    <3>1. PICK f, c : \/ req' = [req EXCEPT ![r].pc = "drop", ![r].seen = c]
                     \/ req' = [req EXCEPT ![r].pc = "change", ![r].in = f, ![r].seen = c]
      BY <2>3 DEF FindToDrop, FindToChange
    <3>2. req[r] \in Finding
      BY <2>3, Shapes DEF FindToDrop, FindToChange
    <3>3. req'[r].pc \in {"drop", "change"}
      BY <3>1, <3>2 DEF TypeOK, Finding
    <3>. QED  BY <3>3 DEF Busy
  <2>4. CASE Probe(r)
    <3>1. req[r] \in Updating \cup Creating /\ req[r].pc = "probe"
      BY <2>4, Shapes DEF Probe
    <3>. QED  BY <2>4, <3>1 DEF Probe, Goto, Busy, TypeOK, Updating, Creating
  <2>5. CASE \/ \E s \in Services, k \in Kinds : ReadForChild(r, s, k, "count") \/ ReadForChild(r, s, k, "find")
             \/ \E t \in Titles : BeginCreate(r, t)
             \/ \E s \in Services, status \in Status \ {"DRAFT"} : ReadForStatus(r, s, status)
             \/ \E s \in Services : ReadForRemove(r, s)
    BY <2>5 DEF ReadForChild, BeginCreate, ReadForStatus, ReadForRemove, Busy, TypeOK
  <2>. QED  BY <2>1, <2>2, <2>3, <2>4, <2>5 DEF Quiet
<1>. QED  BY <1>1, <1>2, <1>3

(* A request that finishes is idle, and nothing else happens to requests. *)
LEMMA FinishFrame ==
    ASSUME TypeOK, NEW r \in Requests, NEW others, Finish(r, others)
    PROVE  /\ req'[r] = Idle /\ ~Busy(r)'
           /\ \A q \in Requests \ {r} : req'[q] = req[q]
           /\ \A q \in Requests : q \notin overtaken' => q = r \/ (q \notin overtaken /\ q \notin others)
BY DEF Finish, TypeOK, Busy, Idle

LEMMA HoldingKept ==
    ASSUME TypeOK, Holding, NEW r \in Requests, Step(r)
    PROVE  Holding'
<1>1. CASE Quiet(r)
  BY <1>1, QuietFrame DEF Holding, Open, Busy
<1>2. CASE Insert(r) \/ Change(r) \/ Drop(r)
  <2>1. UNCHANGED <<row, lock>> /\ \E others : Finish(r, others)
    BY <1>2 DEF Insert, Change, Drop
  <2>. QED  BY <2>1, FinishFrame DEF Holding, Open, Busy
<1>3. CASE Create(r)
  <2>1. Finish(r, {}) /\ UNCHANGED lock
    BY <1>3 DEF Create
  <2>2. PICK s \in Services : /\ row[s] = None
                              /\ \E v : row' = [row EXCEPT ![s] = v]
    BY <1>3 DEF Create
  <2>3. \A q \in Requests \ {r} : Open(q) => row'[req[q].of] = row[req[q].of]
    BY <2>2 DEF Holding, TypeOK
  <2>. QED  BY <2>1, <2>3, FinishFrame DEF Holding, Open, Busy
<1>4. CASE LockRow(r)
  <2>1. req[r] \in Updating /\ req[r].of \in Services
    BY <1>4, Shapes DEF LockRow, Updating
  <2>2. /\ req'[r].of = req[r].of /\ req'[r].in = req[r].in
        /\ \A q \in Requests \ {r} : req'[q] = req[q]
    BY <1>4, <2>1 DEF LockRow, Goto, TypeOK, Updating
  <2>3. row' = row /\ row[req[r].of] # None
    BY <1>4 DEF LockRow, rows
  <2>4. CASE Columns(req[r].in)
    <3>1. lock[req[r].of] = None /\ lock' = [lock EXCEPT ![req[r].of] = r]
      BY <1>4, <2>4 DEF LockRow
    <3>2. \A q \in Requests \ {r} : Open(q) => req[q].of # req[r].of
      BY <3>1, ContentAssumption DEF Holding
    <3>3. lock'[req[r].of] = r
      BY <2>1, <3>1 DEF TypeOK
    <3>4. \A q \in Requests \ {r} : Open(q) => lock'[req[q].of] = lock[req[q].of]
      BY <3>1, <3>2 DEF TypeOK
    <3>. QED  BY <2>2, <2>3, <3>3, <3>4 DEF Holding, Open, Busy
  <2>5. CASE ~Columns(req[r].in)
    <3>1. UNCHANGED lock
      BY <1>4, <2>5 DEF LockRow
    <3>. QED  BY <2>2, <2>3, <2>5, <3>1 DEF Holding, Open, Busy
  <2>. QED  BY <2>4, <2>5
<1>5. CASE FindLists(r) \/ DeleteLists(r)
  <2>1. req[r] \in Updating \cup Replacing
    BY <1>5, Shapes DEF FindLists, DeleteLists
  <2>2. /\ req'[r].of = req[r].of /\ req'[r].in = req[r].in
        /\ \A q \in Requests \ {r} : req'[q] = req[q]
    BY <1>5, <2>1 DEF FindLists, DeleteLists, Goto, TypeOK, Updating, Replacing
  <2>3. Busy(r) /\ UNCHANGED <<row, lock>>
    BY <1>5 DEF FindLists, DeleteLists, Busy, rows
  <2>. QED  BY <2>2, <2>3 DEF Holding, Open, Busy
<1>6. CASE Commit(r)
  <2>1. \E others : Finish(r, others)
    BY <1>6 DEF Commit
  <2>2. \A q \in Requests : Open(q) => req[q].of \in Services
    BY Shapes DEF Open, Busy, Updating, Replacing
  <2>3. \A t \in Services : row[t] # None => row'[t] # None
    BY <1>6, CommitWrites, ContentAssumption
  <2>4. \A q \in Requests \ {r} : Open(q) => lock[req[q].of] # r
    BY DEF Holding
  <2>5. \A q \in Requests \ {r} : Open(q) => lock'[req[q].of] = lock[req[q].of]
    BY <1>6, <2>2, <2>4 DEF Commit, TypeOK
  <2>. QED  BY <2>1, <2>2, <2>3, <2>5, FinishFrame DEF Holding, Open, Busy
<1>7. CASE WriteStatus(r)
  <2>1. \E others : Finish(r, others)
    BY <1>7 DEF WriteStatus
  <2>2. UNCHANGED lock /\ lock[req[r].of] = None
    BY <1>7 DEF WriteStatus
  <2>3. \A q \in Requests : Open(q) => req[q].of # req[r].of
    BY <2>2, ContentAssumption DEF Holding
  <2>4. row' = [row EXCEPT ![req[r].of].status = req[r].in]
    BY <1>7 DEF WriteStatus
  <2>5. \A q \in Requests : Open(q) => row'[req[q].of] = row[req[q].of]
    BY <2>3, <2>4 DEF TypeOK
  <2>. QED  BY <2>1, <2>2, <2>5, FinishFrame DEF Holding, Open, Busy
<1>8. CASE Remove(r)
  <2>1. Finish(r, {}) /\ UNCHANGED lock /\ lock[req[r].of] = None
    BY <1>8 DEF Remove
  <2>2. \A q \in Requests : Open(q) => req[q].of # req[r].of
    BY <2>1, ContentAssumption DEF Holding
  <2>3. row' = [row EXCEPT ![req[r].of] = None]
    BY <1>8 DEF Remove
  <2>4. \A q \in Requests : Open(q) => row'[req[q].of] = row[req[q].of]
    BY <2>2, <2>3 DEF TypeOK
  <2>. QED  BY <2>1, <2>4, FinishFrame DEF Holding, Open, Busy
<1>9. CASE Fail(r)
  <2>1. Finish(r, {}) /\ UNCHANGED row
    BY <1>9 DEF Fail, rows
  <2>2. \A q \in Requests \ {r} : Open(q) => lock'[req[q].of] = lock[req[q].of]
    <3> SUFFICES ASSUME NEW q \in Requests \ {r}, Open(q)
                 PROVE  lock'[req[q].of] = lock[req[q].of]
      OBVIOUS
    <3>1. req[q].of \in Services /\ lock[req[q].of] # r
      BY Shapes DEF Holding, Open, Busy, Updating, Replacing
    <3>. QED  BY <1>9, <3>1 DEF Fail
  <2>. QED  BY <2>1, <2>2, FinishFrame DEF Holding, Open, Busy
<1>. QED  BY <1>1, <1>2, <1>3, <1>4, <1>5, <1>6, <1>7, <1>8, <1>9 DEF Step, Quiet

(* Every reachable state is well typed: in particular a request only goes  *)
(* on with rows that it has read; and an update that has written a column  *)
(* of a service holds its row, which is still there when it commits.       *)
THEOREM ContentTypeCorrect == Spec => [](TypeOK /\ Holding)
<1>1. TypeOK /\ Holding /\ [Next]_vars => (TypeOK /\ Holding)'
  <2> SUFFICES ASSUME TypeOK, Holding, [Next]_vars PROVE (TypeOK /\ Holding)'
    OBVIOUS
  <2>1. CASE Next
    BY <2>1, StepTypes, HoldingKept DEF Next
  <2>2. CASE UNCHANGED vars
    BY <2>2 DEF vars, TypeOK, Holding, Open, Busy
  <2>. QED  BY <2>1, <2>2
<1>. QED  BY <1>1, InitType, PTL DEF Spec

-----------------------------------------------------------------------------
(* An open update that brings a slug has it to itself: no other service of *)
(* the provider has it, and no other open update brings it.                *)
Brings(q, slug) == Open(q) /\ req[q].in.title # None /\ req[q].slug = slug

Reserved ==
    /\ \A q \in Requests, s \in Services :
         row[s] # None /\ Brings(q, row[s].slug) => s = req[q].of
    /\ \A p, q \in Requests :
         Brings(p, req[q].slug) /\ Brings(q, req[q].slug) => req[p].of = req[q].of

(* Steps that leave the slugs of rows and of open updates alone. *)
LEMMA SlugFrame ==
    ASSUME SlugsDiffer, Reserved,
           \A s \in Services : row'[s] # None => row[s] # None /\ row'[s].slug = row[s].slug,
           \A q \in Requests : Open(q)' =>
              /\ Open(q) /\ req'[q].of = req[q].of
              /\ req'[q].in = req[q].in /\ req'[q].slug = req[q].slug
    PROVE  SlugsDiffer' /\ Reserved'
BY DEF SlugsDiffer, Reserved, Brings

LEMMA SlugsKept ==
    ASSUME TypeOK, Holding, SlugsDiffer, Reserved, NEW r \in Requests, Step(r)
    PROVE  SlugsDiffer' /\ Reserved'
<1>1. CASE Quiet(r)
  <2>1. UNCHANGED row /\ \A q \in Requests : Open(q)' => Open(q) /\ req'[q] = req[q]
    BY <1>1, QuietFrame DEF Open, Busy
  <2>. QED  BY <2>1, SlugFrame
<1>2. CASE Insert(r) \/ Change(r) \/ Drop(r) \/ WriteStatus(r) \/ Remove(r) \/ Fail(r)
  <2>1. \E others : Finish(r, others)
    BY <1>2 DEF Insert, Change, Drop, WriteStatus, Remove, Fail
  <2>2. \A q \in Requests : Open(q)' => Open(q) /\ req'[q] = req[q]
    BY <2>1, FinishFrame DEF Open, Busy
  <2>3. \A s \in Services : row'[s] # None => row[s] # None /\ row'[s].slug = row[s].slug
    <3>1. CASE UNCHANGED row
      BY <3>1
    <3>2. CASE WriteStatus(r)
      BY <3>2 DEF WriteStatus, TypeOK, Row
    <3>3. CASE Remove(r)
      BY <3>3 DEF Remove, TypeOK
    <3>. QED  BY <1>2, <3>1, <3>2, <3>3 DEF Insert, Change, Drop, Fail, rows
  <2>. QED  BY <2>2, <2>3, SlugFrame
<1>3. CASE Create(r)
  <2>1. PICK n \in Services, says \in Claim :
          row[n] = None /\ row' = [row EXCEPT ![n] = [status |-> "DRAFT", title |-> req[r].in,
                                                      slug |-> req[r].slug, says |-> says]]
    BY <1>3 DEF Create
  <2>2. \A s \in Services : row[s] # None => row[s].slug # req[r].slug
    BY <1>3, ContentAssumption DEF Create, Available, Holder
  <2>3. \A q \in Requests : Open(q) => req[q].of \in Services
    BY Shapes DEF Open, Busy, Updating, Replacing
  <2>4. \A q \in Requests : Open(q) => ~Brings(q, req[r].slug)
    BY <1>3, <2>3, ContentAssumption DEF Create, Available, Brings, Open, Busy
  <2>5. \A q \in Requests : Open(q)' => Open(q) /\ req'[q] = req[q]
    BY <1>3, FinishFrame DEF Create, Open, Busy
  <2>6. \A q \in Requests : \A slug : Brings(q, slug)' => Brings(q, slug) /\ slug # req[r].slug
    BY <2>4, <2>5 DEF Brings
  <2>7. \A s \in Services : row'[s] # None =>
           \/ s # n /\ row[s] # None /\ row'[s] = row[s]
           \/ s = n /\ row'[s].slug = req[r].slug
    BY <2>1 DEF TypeOK
  <2>8. SlugsDiffer'
    BY <2>2, <2>7 DEF SlugsDiffer
  <2>9. Reserved'
    BY <2>5, <2>6, <2>7 DEF Reserved, Brings
  <2>. QED  BY <2>8, <2>9
<1>4. CASE LockRow(r)
  <2>1. req[r] \in Updating /\ req[r].of \in Services
    BY <1>4, Shapes DEF LockRow, Updating
  <2>2. /\ \A q \in Requests \ {r} : req'[q] = req[q]
        /\ req'[r].of = req[r].of /\ req'[r].in = req[r].in /\ req'[r].slug = req[r].slug
    BY <1>4, <2>1 DEF LockRow, Goto, TypeOK, Updating
  <2>3. row' = row /\ (req[r].in.title # None => Available(req[r].slug, req[r].of))
    BY <1>4 DEF LockRow, rows
  <2>4. req[r].in.title # None =>
          /\ \A s \in Services : row[s] # None /\ row[s].slug = req[r].slug => s = req[r].of
          /\ \A q \in Requests : Brings(q, req[r].slug) => req[q].of = req[r].of
    BY <2>3 DEF Available, Holder, Brings, Open, Busy
  <2>5. \A q \in Requests \ {r} : \A slug : Brings(q, slug)' <=> Brings(q, slug)
    BY <2>2 DEF Brings, Open, Busy
  <2>6. \A slug : Brings(r, slug)' => req[r].in.title # None /\ slug = req[r].slug
    BY <2>2 DEF Brings
  <2>7. SlugsDiffer'
    BY <2>3 DEF SlugsDiffer
  <2>8. Reserved'
    BY <2>2, <2>3, <2>4, <2>5, <2>6 DEF Reserved
  <2>. QED  BY <2>7, <2>8
<1>5. CASE FindLists(r) \/ DeleteLists(r)
  <2>1. Busy(r) /\ UNCHANGED row
    BY <1>5 DEF FindLists, DeleteLists, Busy, rows
  <2>4. req[r] \in Updating \cup Replacing
    BY <1>5, Shapes DEF FindLists, DeleteLists
  <2>2. /\ \A q \in Requests \ {r} : req'[q] = req[q]
        /\ req'[r].of = req[r].of /\ req'[r].in = req[r].in /\ req'[r].slug = req[r].slug
    BY <1>5, <2>4 DEF FindLists, DeleteLists, Goto, TypeOK, Updating, Replacing
  <2>3. \A q \in Requests : Open(q)' =>
              /\ Open(q) /\ req'[q].of = req[q].of
              /\ req'[q].in = req[q].in /\ req'[q].slug = req[q].slug
    BY <2>1, <2>2 DEF Open, Busy
  <2>. QED  BY <2>1, <2>3, SlugFrame
<1>6. CASE Commit(r)
  <2>1. req[r].of \in Services /\ row[req[r].of] \in Row
    BY <1>6, CommitWrites
  <2>2. \A q \in Requests : Open(q)' => Open(q) /\ q # r /\ req'[q] = req[q]
    BY <1>6, FinishFrame DEF Commit, Open, Busy
  <2>3. \A s \in Services \ {req[r].of} : row'[s] = row[s]
    BY <1>6, CommitWrites
  <2>4. row'[req[r].of].slug = IF req[r].in.title = None THEN row[req[r].of].slug ELSE req[r].slug
    BY <1>6, CommitWrites
  <2>5. CASE req[r].in.title = None
    <3>1. \A s \in Services : row'[s] # None => row[s] # None /\ row'[s].slug = row[s].slug
      BY <2>1, <2>3, <2>4, <2>5, ContentAssumption
    <3>. QED  BY <2>2, <3>1, SlugFrame
  <2>6. CASE req[r].in.title # None
    <3>1. Brings(r, req[r].slug) /\ row'[req[r].of].slug = req[r].slug
      BY <1>6, <2>4, <2>6 DEF Brings, Open, Busy, Columns, Commit
    <3>2. SlugsDiffer'
      BY <2>3, <3>1 DEF SlugsDiffer, Reserved
    <3>3. \A q \in Requests : \A slug : Brings(q, slug)' => Brings(q, slug) /\ req'[q] = req[q]
      BY <2>2 DEF Brings
    <3>4. Reserved'
      <4>1. ASSUME NEW q \in Requests, NEW s \in Services, (row[s] # None /\ Brings(q, row[s].slug))'
            PROVE  s = req'[q].of
        <5>1. Open(q) /\ q # r /\ req'[q] = req[q]
          BY <2>2, <4>1 DEF Brings
        <5>2. Open(q) /\ req[q].in.title # None /\ req[q].slug = row'[s].slug
          BY <4>1, <5>1 DEF Brings
        <5>3. CASE s = req[r].of
          BY <3>1, <5>1, <5>2, <5>3 DEF Reserved, Brings
        <5>4. CASE s # req[r].of
          BY <2>3, <4>1, <5>1, <5>2, <5>4 DEF Reserved, Brings
        <5>. QED  BY <5>3, <5>4
      <4>2. ASSUME NEW p \in Requests, NEW q \in Requests,
                   Brings(p, req[q].slug)', Brings(q, req[q].slug)'
            PROVE  req'[p].of = req'[q].of
        <5>1. Open(p) /\ Open(q) /\ req'[p] = req[p] /\ req'[q] = req[q]
          BY <2>2, <4>2 DEF Brings
        <5>2. Brings(p, req[q].slug) /\ Brings(q, req[q].slug)
          BY <4>2, <5>1 DEF Brings
        <5>. QED  BY <5>1, <5>2 DEF Reserved
      <4>. QED  BY <4>1, <4>2 DEF Reserved, Brings
    <3>. QED  BY <3>2, <3>4
  <2>. QED  BY <2>5, <2>6
<1>. QED  BY <1>1, <1>2, <1>3, <1>4, <1>5, <1>6 DEF Step, Quiet

(* Two services of the provider never share a slug, however many requests  *)
(* probe, insert and update at the same time: allocateServiceSlug probes   *)
(* and the unique key decides, also between updates that are still open.   *)
THEOREM SlugsApart == Spec => []SlugsDiffer
<1>1. Init => SlugsDiffer /\ Reserved
  BY DEF Init, SlugsDiffer, Reserved, Brings, Open, Busy, Idle
<1>2. TypeOK /\ Holding /\ SlugsDiffer /\ Reserved /\ [Next]_vars => (SlugsDiffer /\ Reserved)'
  <2> SUFFICES ASSUME TypeOK, Holding, SlugsDiffer, Reserved, [Next]_vars
               PROVE  (SlugsDiffer /\ Reserved)'
    OBVIOUS
  <2>1. CASE Next
    BY <2>1, SlugsKept DEF Next
  <2>2. CASE UNCHANGED vars
    BY <2>2 DEF vars, SlugsDiffer, Reserved, Brings, Open, Busy
  <2>. QED  BY <2>1, <2>2
<1>. QED  BY <1>1, <1>2, ContentTypeCorrect, PTL DEF Spec

-----------------------------------------------------------------------------
(* An update between its read of the service and its commit. *)
Updates(r) == Open(r) \/ req[r].pc = "lock" \/ (req[r].pc = "probe" /\ req[r].of # None)

(* What an update that nobody has overtaken does to the slug is right for  *)
(* the service as it is now.                                               *)
SlugCurrent ==
    \A r \in Requests \ overtaken :
        Updates(r) /\ row[req[r].of] # None /\ row[req[r].of].status = "PUBLISHED"
            => req[r].pc # "probe" /\ req[r].slug = row[req[r].of].slug

(* After a step of another request an update that is not overtaken finds   *)
(* the service as it was before.                                           *)
LEMMA UpdateFrame ==
    ASSUME TypeOK, Holding, NEW r \in Requests, Step(r),
           NEW q \in Requests \ {r}, Updates(q)', q \notin overtaken', row'[req'[q].of] # None
    PROVE  /\ Updates(q) /\ q \notin overtaken /\ req'[q] = req[q]
           /\ row'[req[q].of] = row[req[q].of]
<1>1. CASE Quiet(r)
  BY <1>1, QuietFrame DEF Updates, Open, Busy
<1>2. CASE Insert(r) \/ Change(r) \/ Drop(r) \/ Fail(r)
  <2>1. UNCHANGED row /\ \E others : Finish(r, others)
    BY <1>2 DEF Insert, Change, Drop, Fail, rows
  <2>. QED  BY <2>1, FinishFrame DEF Updates, Open, Busy
<1>3. CASE LockRow(r) \/ FindLists(r) \/ DeleteLists(r)
  <2>1. UNCHANGED <<row, overtaken>> /\ req'[q] = req[q]
    BY <1>3 DEF LockRow, FindLists, DeleteLists, Goto, TypeOK, rows, history
  <2>2. Updates(q)
    BY <2>1 DEF Updates, Open, Busy
  <2>. QED  BY <2>1, <2>2
<1>4. CASE Create(r)
  <2>1. PICK n, v : /\ n \in Services /\ req[q].of # n
                   /\ row' = [row EXCEPT ![n] = v]
    BY <1>4 DEF Create
  <2>2. req'[q] = req[q] /\ q \notin overtaken
    BY <1>4, FinishFrame DEF Create
  <2>3. Updates(q)
    BY <2>2 DEF Updates, Open, Busy
  <2>. QED  BY <2>1, <2>2, <2>3 DEF TypeOK
<1>6. CASE Commit(r) /\ ~Columns(req[r].in)
  <2>1. UNCHANGED row /\ \E others : Finish(r, others)
    BY <1>6, CommitWrites DEF Commit
  <2>. QED  BY <2>1, FinishFrame DEF Updates, Open, Busy
<1>5. CASE (Commit(r) /\ Columns(req[r].in)) \/ WriteStatus(r) \/ Remove(r)
  <2>1. \E others : Finish(r, others)
    BY <1>5 DEF Commit, WriteStatus, Remove
  <2>2. req'[q] = req[q] /\ q \notin overtaken
    BY <2>1, FinishFrame
  <2>3. Updates(q)
    BY <2>2 DEF Updates, Open, Busy
  <2>4. \A s \in Services \ {req[r].of} : row'[s] = row[s]
    BY <1>5, CommitWrites DEF WriteStatus, Remove, TypeOK
  <2>5. req[q].of \in Services
    BY <2>3, Shapes, ContentAssumption DEF Updates, Open, Busy, Updating, Replacing, Creating
  <2>6. req[q].of # req[r].of
    <3>1. CASE Remove(r)
      <4>1. req[r].of \in Services /\ row' = [row EXCEPT ![req[r].of] = None]
        BY <3>1, Shapes DEF Remove, Removing
      <4>. QED  BY <2>2, <4>1 DEF TypeOK
    <3>2. CASE (Commit(r) /\ Columns(req[r].in)) \/ WriteStatus(r)
      <4>1. ~Open(q) \/ req[q].of # req[r].of
        BY <3>2, ContentAssumption DEF Commit, WriteStatus, Holding, Open, Busy
      <4>2. q \notin Updaters(r, req[r].of)
        BY <3>2, FinishFrame DEF Commit, WriteStatus
      <4>. QED  BY <2>3, <4>1, <4>2 DEF Updaters, Updates
    <3>. QED  BY <1>5, <3>1, <3>2
  <2>. QED  BY <2>2, <2>3, <2>4, <2>5, <2>6
<1>. QED  BY <1>1, <1>2, <1>3, <1>4, <1>5, <1>6 DEF Step, Quiet

(* An update goes on with the service and the slug it has, or has just     *)
(* found out.                                                              *)
LEMMA UpdateGoesOn ==
    ASSUME TypeOK, NEW r \in Requests, Step(r), Updates(r)'
    PROVE  /\ UNCHANGED <<row, overtaken>>
           /\ \/ /\ Updates(r) /\ req'[r].of = req[r].of /\ req'[r].in = req[r].in
                 /\ req[r].pc # "probe" => req'[r].slug = req[r].slug /\ req'[r].pc # "probe"
              \/ \E s \in Services, in \in Asked : ReadForUpdate(r, s, in)
<1>1. ~ \E others : Finish(r, others)
  BY FinishFrame DEF Updates, Open, Busy, Idle
<1>2. ~ (Insert(r) \/ Change(r) \/ Drop(r) \/ Create(r) \/ Commit(r) \/ WriteStatus(r) \/ Remove(r) \/ Fail(r))
  BY <1>1 DEF Insert, Change, Drop, Create, Commit, WriteStatus, Remove, Fail
<1>3. CASE LockRow(r) \/ FindLists(r) \/ DeleteLists(r)
  <2>1. UNCHANGED <<row, overtaken>> /\ req[r].pc \in {"lock", "replace", "delete"}
    BY <1>3 DEF LockRow, FindLists, DeleteLists, rows, history
  <2>2. req[r] \in Updating \cup Replacing
    BY <2>1, Shapes
  <2>3. /\ req'[r].of = req[r].of /\ req'[r].in = req[r].in /\ req'[r].slug = req[r].slug
        /\ req'[r].pc \in {"replace", "delete", "commit"}
    BY <1>3, <2>2 DEF LockRow, FindLists, DeleteLists, Goto, TypeOK, Updating, Replacing
  <2>4. Updates(r)
    BY <2>1, <2>3 DEF Updates, Open, Busy
  <2>. QED  BY <2>1, <2>3, <2>4
<1>4. CASE Probe(r)
  <2>1. req[r] \in Updating \cup Creating /\ req[r].pc = "probe"
    BY <1>4, Shapes DEF Probe
  <2>2. req'[r].of = req[r].of /\ req'[r].in = req[r].in /\ UNCHANGED <<row, overtaken>>
    BY <1>4, <2>1 DEF Probe, Goto, TypeOK, Updating, Creating, rows, history
  <2>3. req[r].of # None
    BY <1>4, <2>1 DEF Probe, Goto, Updates, Open, Busy, TypeOK, Updating, Creating
  <2>. QED  BY <2>1, <2>2, <2>3 DEF Updates
<1>5. CASE \E s \in Services, in \in Asked : ReadForUpdate(r, s, in)
  BY <1>5 DEF ReadForUpdate, rows, history
<1>6. CASE \/ \E s \in Services, k \in Kinds : ReadForChild(r, s, k, "count") \/ ReadForChild(r, s, k, "find")
           \/ \E t \in Titles : BeginCreate(r, t)
           \/ \E s \in Services, status \in Status \ {"DRAFT"} : ReadForStatus(r, s, status)
           \/ \E s \in Services : ReadForRemove(r, s)
  BY <1>6 DEF ReadForChild, BeginCreate, ReadForStatus, ReadForRemove, Updates, Open, Busy, TypeOK
<1>7. CASE Count(r)
  BY <1>7 DEF Count, Goto, Updates, Open, Busy, TypeOK
<1>8. CASE FindToDrop(r) \/ FindToChange(r)
  <2>1. PICK f, c : \/ req' = [req EXCEPT ![r].pc = "drop", ![r].seen = c]
                   \/ req' = [req EXCEPT ![r].pc = "change", ![r].in = f, ![r].seen = c]
    BY <1>8 DEF FindToDrop, FindToChange
  <2>2. req[r] \in Finding
    BY <1>8, Shapes DEF FindToDrop, FindToChange
  <2>3. req'[r].pc \in {"drop", "change"}
    BY <2>1, <2>2 DEF TypeOK, Finding
  <2>. QED  BY <2>3 DEF Updates, Open, Busy
<1>. QED  BY <1>2, <1>3, <1>4, <1>5, <1>6, <1>7, <1>8 DEF Step

LEMMA SlugCurrentKept ==
    ASSUME TypeOK, Holding, SlugCurrent, NEW r \in Requests, Step(r)
    PROVE  SlugCurrent'
<1> SUFFICES ASSUME NEW q \in Requests, q \notin overtaken', Updates(q)', row'[req'[q].of] # None,
                    row'[req'[q].of].status = "PUBLISHED"
             PROVE  req'[q].pc # "probe" /\ req'[q].slug = row'[req'[q].of].slug
  BY DEF SlugCurrent
<1>1. CASE q # r
  <2>1. Updates(q) /\ q \notin overtaken /\ req'[q] = req[q] /\ row'[req[q].of] = row[req[q].of]
    BY <1>1, UpdateFrame
  <2>. QED  BY <2>1 DEF SlugCurrent
<1>2. CASE q = r /\ \E s \in Services, in \in Asked : ReadForUpdate(r, s, in)
  <2>1. PICK s \in Services, in \in Asked : ReadForUpdate(r, s, in)
    BY <1>2
  <2>2. PICK pc \in {"probe", "lock"}, slug \in Slug :
          /\ req' = [req EXCEPT ![r] = [pc |-> pc, of |-> s, in |-> in, slug |-> slug, seen |-> None]]
          /\ pc = "probe" => Renames(in.title, s)
          /\ pc = "lock" => slug = row[s].slug
    BY <2>1, ReadForUpdateRequest
  <2>3. row' = row /\ req'[r] = [pc |-> pc, of |-> s, in |-> in, slug |-> slug, seen |-> None]
    BY <2>1, <2>2 DEF ReadForUpdate, TypeOK, rows
  <2>4. pc # "probe"
    BY <1>2, <2>2, <2>3 DEF Renames
  <2>. QED  BY <1>2, <2>2, <2>3, <2>4
<1>3. CASE q = r /\ ~ \E s \in Services, in \in Asked : ReadForUpdate(r, s, in)
  <2>1. /\ UNCHANGED <<row, overtaken>> /\ Updates(r) /\ req'[r].of = req[r].of
        /\ req[r].pc # "probe" => req'[r].slug = req[r].slug /\ req'[r].pc # "probe"
    BY <1>3, UpdateGoesOn
  <2>. QED  BY <1>3, <2>1 DEF SlugCurrent
<1>. QED  BY <1>1, <1>2, <1>3

(* The address of a published service changes only by an update that       *)
(* another request has overtaken, however many run: the decision whether a *)
(* new title brings a new slug is made on the status that was read.        *)
THEOREM PublishedAddress == Spec => PublishedKeepsSlug
<1>1. Init => SlugCurrent
  BY DEF Init, SlugCurrent, Updates, Open, Busy, Idle
<1>2. TypeOK /\ Holding /\ SlugCurrent /\ [Next]_vars => SlugCurrent'
  <2> SUFFICES ASSUME TypeOK, Holding, SlugCurrent, [Next]_vars PROVE SlugCurrent'
    OBVIOUS
  <2>1. CASE Next
    BY <2>1, SlugCurrentKept DEF Next
  <2>2. CASE UNCHANGED vars
    BY <2>2 DEF vars, SlugCurrent, Updates, Open, Busy
  <2>. QED  BY <2>1, <2>2
<1> DEFINE Keeps == \A s \in Services :
         row[s] # None /\ row'[s] # None /\ row[s].status = "PUBLISHED" /\ row'[s].slug # row[s].slug
            => lock[s] \in overtaken
<1>3. TypeOK /\ Holding /\ SlugCurrent /\ [Next]_vars => [Keeps]_vars
  <2> SUFFICES ASSUME TypeOK, Holding, SlugCurrent, NEW r \in Requests, Step(r), NEW s \in Services,
                      row[s] # None, row'[s] # None, row[s].status = "PUBLISHED",
                      row'[s].slug # row[s].slug
               PROVE  lock[s] \in overtaken
    BY DEF Next
  <2>1. CASE Quiet(r)
    BY <2>1, QuietFrame
  <2>2. CASE Insert(r) \/ Change(r) \/ Drop(r) \/ Fail(r) \/ LockRow(r) \/ FindLists(r) \/ DeleteLists(r)
    BY <2>2 DEF Insert, Change, Drop, Fail, LockRow, FindLists, DeleteLists, rows
  <2>3. CASE Create(r)
    BY <2>3 DEF Create, TypeOK
  <2>4. CASE WriteStatus(r) \/ Remove(r)
    BY <2>4 DEF WriteStatus, Remove, TypeOK, Row
  <2>5. CASE Commit(r)
    <3>1. req[r].of = s /\ req[r].in.title # None /\ row'[s].slug = req[r].slug
      BY <2>5, CommitWrites
    <3>2. Open(r) /\ lock[s] = r
      BY <2>5, <3>1 DEF Commit, Open, Busy, Columns, Holding
    <3>. QED  BY <3>1, <3>2 DEF SlugCurrent, Updates
  <2>. QED  BY <2>1, <2>2, <2>3, <2>4, <2>5 DEF Step, Quiet
<1>. QED  BY <1>1, <1>2, <1>3, ContentTypeCorrect, PTL DEF Spec, PublishedKeepsSlug

-----------------------------------------------------------------------------
(* What was sent makes sense with the row as it is now, unless one half    *)
(* was sent only and another request has replaced the other.               *)
Settled(r, form) == r \notin overtaken \/ ~Partial(form)

ClaimsCurrent ==
    \A r \in Requests :
        Updates(r) /\ row[req[r].of] # None /\ Settled(r, req[r].in.says)
            => Sound(Merge(req[r].in.says, row[req[r].of].says))

PlacesCurrent ==
    \A r \in Requests :
        req[r].pc = "change" /\ child[req[r].seen] # None /\ Settled(r, req[r].in)
            => Sound(Merge(req[r].in, child[req[r].seen].says))

(* A step of another request leaves an update alone and does not bring its *)
(* service back.                                                           *)
LEMMA UpdateStays ==
    ASSUME TypeOK, Holding, NEW r \in Requests, Step(r), NEW q \in Requests \ {r}, Updates(q)'
    PROVE  /\ Updates(q) /\ req'[q] = req[q] /\ req[q].of \in Services /\ req[q].in \in Update
           /\ row'[req[q].of] # None => row[req[q].of] # None
<1>1. req'[q] = req[q]
  <2>1. CASE Quiet(r)
    BY <2>1, QuietFrame
  <2>2. CASE \E others : Finish(r, others)
    BY <2>2, FinishFrame
  <2>3. CASE LockRow(r) \/ FindLists(r) \/ DeleteLists(r)
    BY <2>3 DEF LockRow, FindLists, DeleteLists, Goto, TypeOK
  <2>. QED  BY <2>1, <2>2, <2>3 DEF Step, Quiet, Insert, Change, Drop, Create, Commit, WriteStatus,
              Remove, Fail
<1>2. Updates(q)
  BY <1>1 DEF Updates, Open, Busy
<1>3. req[q].of \in Services /\ req[q].in \in Update
  BY <1>2, Shapes, ContentAssumption DEF Updates, Open, Busy, Updating, Replacing, Creating
<1>4. ASSUME row[req[q].of] = None, row'[req[q].of] # None
      PROVE  FALSE
  <2>1. CASE Create(r)
    BY <1>3, <1>4, <2>1 DEF Create, TypeOK
  <2>2. CASE Commit(r)
    BY <1>3, <1>4, <2>2, CommitWrites, ContentAssumption
  <2>3. CASE WriteStatus(r)
    BY <1>3, <1>4, <2>3 DEF WriteStatus, TypeOK
  <2>4. CASE Remove(r)
    BY <1>3, <1>4, <2>4 DEF Remove, TypeOK
  <2>5. CASE Quiet(r)
    BY <1>4, <2>5, QuietFrame
  <2>6. CASE Insert(r) \/ Change(r) \/ Drop(r) \/ LockRow(r) \/ FindLists(r) \/ DeleteLists(r) \/ Fail(r)
    BY <1>4, <2>6 DEF Insert, Change, Drop, LockRow, FindLists, DeleteLists, Fail, rows
  <2>. QED  BY <2>1, <2>2, <2>3, <2>4, <2>5, <2>6 DEF Step, Quiet
<1>. QED  BY <1>1, <1>2, <1>3, <1>4

LEMMA ClaimsKept ==
    ASSUME TypeOK, TypeOK', Holding, ClaimsCurrent, NEW r \in Requests, Step(r)
    PROVE  ClaimsCurrent'
<1> SUFFICES ASSUME NEW q \in Requests, Updates(q)', row'[req'[q].of] # None,
                    q \notin overtaken' \/ ~Partial(req'[q].in.says)
             PROVE  Sound(Merge(req'[q].in.says, row'[req'[q].of].says))
  BY DEF ClaimsCurrent, Settled
<1>1. CASE q # r /\ q \notin overtaken'
  <2>1. Updates(q) /\ q \notin overtaken /\ req'[q] = req[q] /\ row'[req[q].of] = row[req[q].of]
    BY <1>1, UpdateFrame
  <2>. QED  BY <2>1 DEF ClaimsCurrent, Settled
<1>2. CASE q # r /\ ~Partial(req'[q].in.says)
  <2>1. /\ Updates(q) /\ req'[q] = req[q] /\ req[q].of \in Services /\ req[q].in \in Update
        /\ row[req[q].of] # None
    BY <1>2, UpdateStays
  <2>2. row[req[q].of].says \in Claim /\ row'[req[q].of].says \in Claim /\ req[q].in.says \in Form
    BY <2>1 DEF TypeOK, Row, Update
  <2>3. Merge(req[q].in.says, row'[req[q].of].says) = Merge(req[q].in.says, row[req[q].of].says)
    BY <1>2, <2>1, <2>2, MergeTyped
  <2>. QED  BY <1>2, <2>1, <2>3 DEF ClaimsCurrent, Settled
<1>3. CASE q = r /\ \E s \in Services, in \in Asked : ReadForUpdate(r, s, in)
  <2>1. PICK s \in Services, in \in Asked : ReadForUpdate(r, s, in)
    BY <1>3
  <2>2. PICK pc \in {"probe", "lock"}, slug \in Slug :
          req' = [req EXCEPT ![r] = [pc |-> pc, of |-> s, in |-> in, slug |-> slug, seen |-> None]]
    BY <2>1, ReadForUpdateRequest
  <2>3. row' = row /\ req'[r] = [pc |-> pc, of |-> s, in |-> in, slug |-> slug, seen |-> None]
    BY <2>1, <2>2 DEF ReadForUpdate, TypeOK, rows
  <2>4. Sound(Merge(in.says, row[s].says))
    BY <2>1 DEF ReadForUpdate
  <2>. QED  BY <1>3, <2>3, <2>4
<1>4. CASE q = r /\ ~ \E s \in Services, in \in Asked : ReadForUpdate(r, s, in)
  <2>1. /\ UNCHANGED <<row, overtaken>> /\ Updates(r)
        /\ req'[r].of = req[r].of /\ req'[r].in = req[r].in
    BY <1>4, UpdateGoesOn
  <2>. QED  BY <1>4, <2>1 DEF ClaimsCurrent, Settled
<1>. QED  BY <1>1, <1>2, <1>3, <1>4

(* A child row that appears says something sound and has an id that no     *)
(* request remembers; one that stays is only changed by updateLocation and *)
(* its like.                                                               *)
LEMMA FilledRow ==
    ASSUME NEW s \in Services, NEW ks \in SUBSET Kinds, NEW kind \in Lists(ks),
           NEW place \in Says("locations"), NEW gone, NEW c \in Children
    PROVE  \/ c \in Fresh /\ Sound(Filled(s, kind, place, gone)[c].says)
           \/ c \notin gone /\ Filled(s, kind, place, gone)[c] = child[c]
           \/ Filled(s, kind, place, gone)[c] = None
<1>1. Sound(place) /\ Sound(Plain)
  BY SaysTyped DEF Plain, Sound
<1>2. CASE c \in Fresh /\ kind[c] # None /\ kind[c] = "locations"
  BY <1>1, <1>2 DEF Filled
<1>3. CASE c \in Fresh /\ kind[c] # None /\ kind[c] # "locations"
  BY <1>1, <1>3 DEF Filled
<1>4. CASE ~ (c \in Fresh /\ kind[c] # None)
  BY <1>4 DEF Filled
<1>. QED  BY <1>2, <1>3, <1>4

LEMMA ChildFrame ==
    ASSUME TypeOK, NEW r \in Requests, Step(r), NEW c \in Children
    PROVE  \/ c \in Fresh /\ Sound(child'[c].says)
           \/ child'[c] = child[c]
           \/ child'[c] = None
           \/ Change(r) /\ c = req[r].seen
<1>1. CASE Insert(r)
  <2>1. PICK d \in Fresh, says \in Says(req[r].in) :
          child' = [child EXCEPT ![d] = [of |-> req[r].of, kind |-> req[r].in, says |-> says]]
    BY <1>1 DEF Insert
  <2>2. Sound(says)
    BY <2>1, SaysTyped
  <2>. QED  BY <2>1, <2>2 DEF TypeOK
<1>2. CASE Create(r)
  <2>1. PICK s \in Services, kind \in Lists(Kinds), place \in Says("locations") :
          child' = Filled(s, kind, place, {})
    BY <1>2 DEF Create
  <2>. QED  BY <2>1, FilledRow
<1>3. CASE Commit(r)
  <2>1. req[r].of \in Services /\ req[r].in.lists \in SUBSET Kinds
    BY <1>3, Shapes DEF Commit, Replacing, Update
  <2>2. PICK kind \in Lists(req[r].in.lists), place \in Says("locations") :
          child' = Filled(req[r].of, kind, place, req[r].seen)
    BY <1>3 DEF Commit
  <2>. QED  BY <2>1, <2>2, FilledRow
<1>4. CASE Change(r) \/ Drop(r) \/ Remove(r)
  BY <1>4 DEF Change, Drop, Remove, TypeOK
<1>5. CASE Quiet(r)
  BY <1>5, QuietFrame
<1>6. CASE LockRow(r) \/ FindLists(r) \/ DeleteLists(r) \/ WriteStatus(r) \/ Fail(r)
  BY <1>6 DEF LockRow, FindLists, DeleteLists, WriteStatus, Fail, rows
<1>. QED  BY <1>1, <1>2, <1>3, <1>4, <1>5, <1>6 DEF Step, Quiet

(* A change is begun by its find only, and left alone by other requests.   *)
LEMMA ChangeFrame ==
    ASSUME TypeOK, NEW r \in Requests, Step(r), NEW q \in Requests, req'[q].pc = "change"
    PROVE  \/ q = r /\ FindToChange(r)
           \/ /\ q # r /\ req'[q] = req[q]
              /\ q \notin overtaken' => q \notin overtaken /\ (Change(r) => req[q].seen # req[r].seen)
<1>1. CASE Quiet(r)
  <2>1. CASE q # r
    <3>1. ~Change(r)
      <4>1. req[r].pc # "change"
        <5>1. CASE req[r] = Idle
          BY <5>1 DEF Idle
        <5>2. CASE Count(r) \/ FindToDrop(r) \/ FindToChange(r) \/ Probe(r)
          BY <5>2 DEF Count, FindToDrop, FindToChange, Probe
        <5>. QED  BY <1>1, <5>1, <5>2 DEF Quiet, ReadForChild, BeginCreate, ReadForStatus,
                    ReadForRemove, ReadForUpdate
      <4>. QED  BY <4>1 DEF Change
    <3>. QED  BY <1>1, <2>1, <3>1, QuietFrame
  <2>2. CASE q = r
    <3>1. CASE Probe(r)
      <4>1. req[r] \in Updating \cup Creating /\ req[r].pc = "probe"
        BY <3>1, Shapes DEF Probe
      <4>. QED  BY <2>2, <3>1, <4>1 DEF Probe, Goto, TypeOK, Updating, Creating
    <3>2. CASE FindToDrop(r)
      <4>1. req[r] \in Finding
        BY <3>2, Shapes DEF FindToDrop
      <4>. QED  BY <2>2, <3>2, <4>1 DEF FindToDrop, TypeOK, Finding
    <3>3. CASE Count(r)
      BY <2>2, <3>3 DEF Count, Goto, TypeOK
    <3>. QED  BY <1>1, <2>2, <3>1, <3>2, <3>3 DEF Quiet, ReadForChild, BeginCreate, ReadForStatus,
                ReadForRemove, ReadForUpdate, TypeOK
  <2>. QED  BY <2>1, <2>2
<1>2. CASE LockRow(r) \/ FindLists(r) \/ DeleteLists(r)
  <2>1. req'[r].pc # "change" /\ UNCHANGED overtaken /\ ~Change(r)
        /\ \A p \in Requests \ {r} : req'[p] = req[p]
    <3>1. req[r] \in Updating \cup Replacing
      BY <1>2, Shapes DEF LockRow, FindLists, DeleteLists
    <3>. QED  BY <1>2, <3>1 DEF LockRow, FindLists, DeleteLists, Goto, TypeOK, history, Change,
                Updating, Replacing
  <2>. QED  BY <2>1
<1>3. CASE Change(r)
  <2>1. Finish(r, Changers(r, req[r].seen))
    BY <1>3 DEF Change
  <2>. QED  BY <2>1, FinishFrame DEF Changers, Idle
<1>4. CASE Insert(r) \/ Drop(r) \/ Create(r) \/ Commit(r) \/ WriteStatus(r) \/ Remove(r) \/ Fail(r)
  <2>1. \E others : Finish(r, others)
    BY <1>4 DEF Insert, Drop, Create, Commit, WriteStatus, Remove, Fail
  <2>2. q # r /\ req'[q] = req[q] /\ (q \notin overtaken' => q \notin overtaken)
    BY <2>1, FinishFrame DEF Idle
  <2>3. CASE ~Change(r)
    BY <2>2, <2>3
  <2>. QED  BY <1>3, <2>3
<1>. QED  BY <1>1, <1>2, <1>3, <1>4 DEF Step, Quiet

LEMMA PlacesKept ==
    ASSUME TypeOK, TypeOK', PlacesCurrent, NEW r \in Requests, Step(r)
    PROVE  PlacesCurrent'
<1> SUFFICES ASSUME NEW q \in Requests, req'[q].pc = "change", child'[req'[q].seen] # None,
                    q \notin overtaken' \/ ~Partial(req'[q].in)
             PROVE  Sound(Merge(req'[q].in, child'[req'[q].seen].says))
  BY DEF PlacesCurrent, Settled
<1>1. CASE q = r /\ FindToChange(r)
  <2>1. PICK c \in Kids(req[r].of, req[r].in), form \in Form :
          /\ Merge(form, child[c].says) \in Says(req[r].in)
          /\ req' = [req EXCEPT ![r].pc = "change", ![r].in = form, ![r].seen = c]
    BY <1>1 DEF FindToChange
  <2>2. req[r] \in Finding
    BY <1>1, Shapes DEF FindToChange
  <2>3. req'[r].in = form /\ req'[r].seen = c
    BY <2>1, <2>2 DEF TypeOK, Finding
  <2>4. UNCHANGED child /\ Sound(Merge(form, child[c].says))
    BY <1>1, <2>1, SaysTyped DEF FindToChange, rows
  <2>. QED  BY <1>1, <2>3, <2>4
<1>2. CASE q # r /\ req'[q] = req[q]
           /\ (q \notin overtaken' => q \notin overtaken /\ (Change(r) => req[q].seen # req[r].seen))
  <2>1. req[q].seen \in Children /\ req[q].in \in Form /\ req[q].pc = "change"
    BY <1>2, Shapes DEF Changing
  <2>2. req[q].seen \notin Fresh
    BY <2>1 DEF Fresh, Known
  <2>3. CASE child'[req[q].seen] = child[req[q].seen]
    BY <1>2, <2>1, <2>3 DEF PlacesCurrent, Settled
  <2>4. CASE Change(r) /\ req[q].seen = req[r].seen
    <3>1. ~Partial(req[q].in) /\ child[req[q].seen] # None
      BY <1>2, <2>4 DEF Change
    <3>2. child[req[q].seen].says \in Claim /\ child'[req[q].seen].says \in Claim
      BY <1>2, <2>1, <3>1 DEF TypeOK, Child
    <3>3. Merge(req[q].in, child'[req[q].seen].says) = Merge(req[q].in, child[req[q].seen].says)
      BY <2>1, <3>1, <3>2, MergeTyped
    <3>. QED  BY <1>2, <2>1, <3>1, <3>3 DEF PlacesCurrent, Settled
  <2>. QED  BY <1>2, <2>1, <2>2, <2>3, <2>4, ChildFrame
<1>. QED  BY <1>1, <1>2, ChangeFrame

(* What leaves the set of mixed rows has gone or has been written anew.    *)
LEMMA MixedFrame ==
    ASSUME TypeOK, NEW r \in Requests, Step(r), NEW x \in mixed, x \notin mixed'
    PROVE  \/ x \in Services /\ row'[x] = None
           \/ x \in Services /\ x = req[r].of /\ Commit(r) /\ Columns(req[r].in)
           \/ x \in Children /\ child'[x] = None
           \/ x \in Children /\ x = req[r].seen /\ Change(r)
<1>1. CASE Change(r)
  <2>1. req[r].seen \in Children
    BY <1>1, Shapes DEF Change, Changing
  <2>. QED  BY <1>1, <2>1 DEF Change
<1>2. CASE Drop(r)
  <2>1. req[r].seen \in Children
    BY <1>2, Shapes DEF Drop, Dropping
  <2>. QED  BY <1>2, <2>1 DEF Drop, TypeOK
<1>3. CASE Remove(r)
  <2>1. req[r].of \in Services
    BY <1>3, Shapes DEF Remove, Removing
  <2>. QED  BY <1>3, <2>1 DEF Remove, TypeOK, Kids
<1>4. CASE Commit(r)
  <2>1. req[r].of \in Services /\ req[r].seen \in SUBSET Children /\ req[r].in.lists \in SUBSET Kinds
    BY <1>4, Shapes DEF Commit, Replacing, Update
  <2>2. \A c \in req[r].seen : c \notin Fresh
    BY <1>4 DEF Commit, Fresh, Known
  <2>3. (x = req[r].of /\ Columns(req[r].in)) \/ x \in req[r].seen
    BY <1>4 DEF Commit
  <2>4. CASE x \in req[r].seen
    <3>1. PICK kind, place : child' = Filled(req[r].of, kind, place, req[r].seen)
      BY <1>4 DEF Commit
    <3>. QED  BY <2>1, <2>2, <2>4, <3>1 DEF Filled
  <2>. QED  BY <1>4, <2>1, <2>3, <2>4
<1>5. CASE Quiet(r)
  BY <1>5, QuietFrame
<1>6. CASE Insert(r) \/ Create(r) \/ LockRow(r) \/ FindLists(r) \/ DeleteLists(r) \/ WriteStatus(r) \/ Fail(r)
  BY <1>6 DEF Insert, Create, LockRow, FindLists, DeleteLists, WriteStatus, Fail, history
<1>. QED  BY <1>1, <1>2, <1>3, <1>4, <1>5, <1>6 DEF Step, Quiet

(* What a row says is only written by create and update. *)
LEMMA RowFrame ==
    ASSUME TypeOK, NEW r \in Requests, Step(r), NEW s \in Services, row'[s] # None
    PROVE  \/ row[s] # None /\ row'[s].says = row[s].says
           \/ Sound(row'[s].says)
           \/ Commit(r) /\ Columns(req[r].in) /\ s = req[r].of
<1>1. CASE Create(r)
  <2>1. PICK n \in Services, says \in Claim :
          Sound(says) /\ row' = [row EXCEPT ![n] = [status |-> "DRAFT", title |-> req[r].in,
                                                    slug |-> req[r].slug, says |-> says]]
    BY <1>1 DEF Create
  <2>. QED  BY <2>1 DEF TypeOK
<1>2. CASE Commit(r)
  BY <1>2, CommitWrites
<1>3. CASE WriteStatus(r)
  BY <1>3 DEF WriteStatus, TypeOK, Row
<1>4. CASE Remove(r)
  BY <1>4 DEF Remove, TypeOK
<1>5. CASE Quiet(r)
  BY <1>5, QuietFrame
<1>6. CASE Insert(r) \/ Change(r) \/ Drop(r) \/ LockRow(r) \/ FindLists(r) \/ DeleteLists(r) \/ Fail(r)
  BY <1>6 DEF Insert, Change, Drop, LockRow, FindLists, DeleteLists, Fail, rows
<1>. QED  BY <1>1, <1>2, <1>3, <1>4, <1>5, <1>6 DEF Step, Quiet

LEMMA SoundKept ==
    ASSUME TypeOK, TypeOK', Holding, ClaimsCurrent, PlacesCurrent, SoundUnlessMixed,
           NEW r \in Requests, Step(r)
    PROVE  SoundUnlessMixed'
<1>1. ASSUME NEW s \in Services, row'[s] # None, s \notin mixed'
      PROVE  Sound(row'[s].says)
  <2>1. CASE Commit(r) /\ Columns(req[r].in) /\ s = req[r].of
    <3>1. Open(r) /\ row[s] # None
      BY <2>1 DEF Commit, Open, Busy
    <3>2. r \notin overtaken \/ ~Partial(req[r].in.says)
      BY <1>1, <2>1 DEF Commit
    <3>3. row'[s].says = Merge(req[r].in.says, row[s].says)
      BY <2>1, CommitWrites
    <3>. QED  BY <2>1, <3>1, <3>2, <3>3 DEF ClaimsCurrent, Settled, Updates
  <2>2. CASE row[s] # None /\ row'[s].says = row[s].says 
                /\ ~ (Commit(r) /\ Columns(req[r].in) /\ s = req[r].of)
    <3>1. s \notin mixed
      BY <1>1, <2>2, MixedFrame, ContentAssumption
    <3>. QED  BY <2>2, <3>1 DEF SoundUnlessMixed
  <2>. QED  BY <1>1, <2>1, <2>2, RowFrame
<1>2. ASSUME NEW c \in Children, child'[c] # None, c \notin mixed'
      PROVE  Sound(child'[c].says)
  <2>1. CASE Change(r) /\ c = req[r].seen
    <3>1. child[c] # None /\ (r \notin overtaken \/ ~Partial(req[r].in))
      BY <1>2, <2>1 DEF Change
    <3>2. child[c] \in Child
      BY <3>1 DEF TypeOK
    <3>3. child'[c].says = Merge(req[r].in, child[c].says)
      BY <2>1, <3>1, <3>2 DEF Change, TypeOK, Child
    <3>. QED  BY <2>1, <3>1, <3>3 DEF PlacesCurrent, Settled, Change
  <2>2. CASE child'[c] = child[c] /\ ~ (Change(r) /\ c = req[r].seen)
    <3>1. c \notin mixed
      BY <1>2, <2>2, MixedFrame, ContentAssumption
    <3>. QED  BY <1>2, <2>2, <3>1 DEF SoundUnlessMixed
  <2>. QED  BY <1>2, <2>1, <2>2, ChildFrame
<1>. QED  BY <1>1, <1>2 DEF SoundUnlessMixed

(* A stored service has the price its pricing model needs and a stored     *)
(* location its place, for any number of overlapping requests, except a    *)
(* row that was last written with one half of the two by a request that    *)
(* had read the other before it was replaced.                              *)
THEOREM RowsSound == Spec => []SoundUnlessMixed
<1> DEFINE Inv == ClaimsCurrent /\ PlacesCurrent /\ SoundUnlessMixed
<1>1. Init => Inv
  BY DEF Init, ClaimsCurrent, PlacesCurrent, SoundUnlessMixed, Updates, Open, Busy, Idle
<1>2. (TypeOK /\ Holding) /\ (TypeOK /\ Holding)' /\ Inv /\ [Next]_vars => Inv'
  <2> SUFFICES ASSUME TypeOK, Holding, TypeOK', Inv, [Next]_vars PROVE Inv'
    OBVIOUS
  <2>1. CASE Next
    BY <2>1, ClaimsKept, PlacesKept, SoundKept DEF Next
  <2>2. CASE UNCHANGED vars
    BY <2>2 DEF vars, ClaimsCurrent, PlacesCurrent, SoundUnlessMixed, Settled, Updates, Open, Busy
  <2>. QED  BY <2>1, <2>2
<1>. QED  BY <1>1, <1>2, ContentTypeCorrect, PTL DEF Spec

-----------------------------------------------------------------------------
(* Child rows belong to a service that exists. *)
Owned == \A c \in Children : child[c] # None => row[child[c].of] # None

(* The adds that have counted and not inserted. *)
Adders(s, k) == {q \in Requests : req[q].pc = "insert" /\ req[q].of = s /\ req[q].in = k}

LEMMA Finite ==
    ASSUME NEW s, NEW k
    PROVE  /\ IsFiniteSet(Kids(s, k)) /\ Cardinality(Kids(s, k)) \in Nat
           /\ IsFiniteSet(Adders(s, k)) /\ Cardinality(Adders(s, k)) \in Nat
           /\ Cardinality(Adders(s, k)) <= Cardinality(Requests) /\ Cardinality(Requests) \in Nat
<1>1. Kids(s, k) \in SUBSET Children /\ Adders(s, k) \in SUBSET Requests
  BY DEF Kids, Adders
<1>. QED  BY <1>1, ContentAssumption, FS_Subset, FS_CardinalityType

(* The rows of one kind that a transaction leaves. *)
LEMMA FilledKids ==
    ASSUME TypeOK, NEW s \in Services, NEW ks \in SUBSET Kinds, NEW kind \in Lists(ks),
           NEW place \in Says("locations"), NEW gone,
           child' = Filled(s, kind, place, gone), NEW t \in Services, NEW k \in Kinds
    PROVE  \/ t = s /\ k \in ks /\
                \E new \in SUBSET Children :
                    /\ Cardinality(new) <= Limit[k]
                    /\ Kids(t, k)' \subseteq (Kids(t, k) \ gone) \cup new
           \/ ~ (t = s /\ k \in ks) /\ Kids(t, k)' \subseteq Kids(t, k)
<1>1. ASSUME NEW c \in Kids(t, k)', ~ (c \in Fresh /\ kind[c] # None)
      PROVE  c \in Kids(t, k) \ gone
  <2>1. c \in Children /\ child'[c] # None /\ child'[c].of = t /\ child'[c].kind = k
    BY DEF Kids
  <2>2. child'[c] = IF c \in gone THEN None ELSE child[c]
    BY <1>1, <2>1 DEF Filled
  <2>. QED  BY <2>1, <2>2 DEF Kids
<1>2. ASSUME NEW c \in Kids(t, k)', c \in Fresh /\ kind[c] # None
      PROVE  t = s /\ kind[c] = k /\ k \in ks
  <2>1. c \in Children /\ child'[c] # None /\ child'[c].of = t /\ child'[c].kind = k
    BY DEF Kids
  <2>2. child'[c].of = s /\ child'[c].kind = kind[c]
    BY <1>2, <2>1 DEF Filled
  <2>3. kind[c] \in ks
    BY <1>2 DEF Lists
  <2>. QED  BY <2>1, <2>2, <2>3
<1>3. CASE t = s /\ k \in ks
  <2> DEFINE new == {c \in Fresh : kind[c] = k}
  <2>1. new \in SUBSET Children /\ Cardinality(new) <= Limit[k]
    BY <1>3 DEF Lists, Fresh
  <2>2. Kids(t, k)' \subseteq (Kids(t, k) \ gone) \cup new
    BY <1>1, <1>2
  <2>. QED  BY <1>3, <2>1, <2>2
<1>4. CASE ~ (t = s /\ k \in ks)
  BY <1>1, <1>2, <1>4
<1>. QED  BY <1>3, <1>4

(* What a step does to the rows of kind k of service s. *)
Adds(r, s, k) ==
    Insert(r) /\ s = req[r].of /\ k = req[r].in /\ \E c : Kids(s, k)' \subseteq Kids(s, k) \cup {c}
Starts(r, s, k) ==
    Create(r) /\ Adders(s, k) = {} /\ \E new \in SUBSET Children :
        Cardinality(new) <= Limit[k] /\ Kids(s, k)' \subseteq new
        /\ \A q \in Requests : req[q].of # s
Replaces(r, s, k) ==
    Commit(r) /\ s = req[r].of /\ k \in req[r].in.lists /\ \E new \in SUBSET Children :
        Cardinality(new) <= Limit[k] /\ Kids(s, k)' \subseteq (Kids(s, k) \ req[r].seen) \cup new

LEMMA KidsFrame ==
    ASSUME TypeOK, Owned, NEW r \in Requests, Step(r), NEW s \in Services, NEW k \in Kinds
    PROVE  \/ Adds(r, s, k) \/ Starts(r, s, k) \/ Replaces(r, s, k)
           \/ Kids(s, k)' \subseteq Kids(s, k) /\ ~ (Commit(r) /\ s = req[r].of /\ k \in req[r].in.lists)
<1>1. CASE Insert(r)
  <2>1. PICK d \in Fresh, says \in Says(req[r].in) :
          child' = [child EXCEPT ![d] = [of |-> req[r].of, kind |-> req[r].in, says |-> says]]
    BY <1>1 DEF Insert
  <2>2. \A c \in Children : c # d => child'[c] = child[c]
    BY <2>1 DEF TypeOK
  <2>3. child'[d] = [of |-> req[r].of, kind |-> req[r].in, says |-> says]
    BY <2>1 DEF TypeOK, Fresh
  <2>4. Kids(s, k)' \subseteq Kids(s, k) \cup {d}
    BY <2>2 DEF Kids
  <2>5. CASE s = req[r].of /\ k = req[r].in
    BY <1>1, <2>4, <2>5 DEF Adds
  <2>6. CASE ~ (s = req[r].of /\ k = req[r].in)
    <3>1. Kids(s, k)' \subseteq Kids(s, k)
      BY <2>2, <2>3, <2>6 DEF Kids
    <3>2. ~Commit(r)
      BY <1>1 DEF Insert, Commit
    <3>. QED  BY <3>1, <3>2
  <2>. QED  BY <2>5, <2>6
<1>2. CASE Create(r)
  <2>1. PICK n \in Services, kind \in Lists(Kinds), place \in Says("locations") :
          /\ row[n] = None /\ \A q \in Requests : req[q].of # n
          /\ child' = Filled(n, kind, place, {})
    BY <1>2 DEF Create
  <2>2. ~Commit(r)
    BY <1>2 DEF Create, Commit
  <2>3. Kids(n, k) = {} /\ Adders(n, k) = {}
    BY <2>1 DEF Owned, Kids, Adders
  <2>4. \/ s = n /\ \E new \in SUBSET Children :
              Cardinality(new) <= Limit[k] /\ Kids(s, k)' \subseteq (Kids(s, k) \ {}) \cup new
        \/ Kids(s, k)' \subseteq Kids(s, k)
    BY <2>1, FilledKids
  <2>5. CASE s = n /\ \E new \in SUBSET Children :
              Cardinality(new) <= Limit[k] /\ Kids(s, k)' \subseteq (Kids(s, k) \ {}) \cup new
    <3>1. PICK new \in SUBSET Children :
              Cardinality(new) <= Limit[k] /\ Kids(s, k)' \subseteq (Kids(s, k) \ {}) \cup new
      BY <2>5
    <3>2. Kids(s, k)' \subseteq new
      BY <2>3, <2>5, <3>1
    <3>. QED  BY <1>2, <2>1, <2>3, <2>5, <3>1, <3>2 DEF Starts
  <2>. QED  BY <2>2, <2>4, <2>5
<1>3. CASE Commit(r)
  <2>1. req[r].of \in Services /\ req[r].in.lists \in SUBSET Kinds
    BY <1>3, Shapes DEF Commit, Replacing, Update
  <2>2. PICK kind \in Lists(req[r].in.lists), place \in Says("locations") :
          child' = Filled(req[r].of, kind, place, req[r].seen)
    BY <1>3 DEF Commit
  <2>3. \/ s = req[r].of /\ k \in req[r].in.lists /\ \E new \in SUBSET Children :
              Cardinality(new) <= Limit[k] /\ Kids(s, k)' \subseteq (Kids(s, k) \ req[r].seen) \cup new
        \/ ~ (s = req[r].of /\ k \in req[r].in.lists) /\ Kids(s, k)' \subseteq Kids(s, k)
    BY <2>1, <2>2, FilledKids
  <2>. QED  BY <1>3, <2>3 DEF Replaces
<1>4. CASE Change(r)
  <2>1. req[r].seen \in Children /\ child[req[r].seen] \in Child
    BY <1>4, Shapes DEF Change, Changing, TypeOK
  <2>2. \E v : child' = [child EXCEPT ![req[r].seen].says = v]
    BY <1>4 DEF Change
  <2>3. \A c \in Children : child'[c] # None => child[c] # None /\ child'[c].of = child[c].of
                                                  /\ child'[c].kind = child[c].kind
    BY <1>4, <2>1, <2>2 DEF TypeOK, Child, Change
  <2>4. Kids(s, k)' \subseteq Kids(s, k) /\ ~Commit(r)
    BY <1>4, <2>3 DEF Kids, Change, Commit
  <2>. QED  BY <2>4
<1>5. CASE Drop(r) \/ Remove(r)
  <2>1. \A c \in Children : child'[c] # None => child'[c] = child[c]
    BY <1>5 DEF Drop, Remove, TypeOK
  <2>2. Kids(s, k)' \subseteq Kids(s, k) /\ ~Commit(r)
    BY <1>5, <2>1 DEF Kids, Drop, Remove, Commit
  <2>. QED  BY <2>2
<1>6. CASE ~ (Insert(r) \/ Create(r) \/ Commit(r) \/ Change(r) \/ Drop(r) \/ Remove(r))
  <2>1. UNCHANGED child
    <3>1. CASE Quiet(r)
      BY <3>1, QuietFrame
    <3>2. CASE LockRow(r) \/ FindLists(r) \/ DeleteLists(r) \/ WriteStatus(r) \/ Fail(r)
      BY <3>2 DEF LockRow, FindLists, DeleteLists, WriteStatus, Fail, rows
    <3>. QED  BY <1>6, <3>1, <3>2 DEF Step, Quiet
  <2>. QED  BY <1>6, <2>1 DEF Kids
<1>. QED  BY <1>1, <1>2, <1>3, <1>4, <1>5, <1>6

LEMMA OwnedKept ==
    ASSUME TypeOK, Holding, Owned, NEW r \in Requests, Step(r)
    PROVE  Owned'
<1>1. CASE Insert(r)
  <2>1. PICK d, says : /\ d \in Fresh
                        /\ child' = [child EXCEPT ![d] =
                              [of |-> req[r].of, kind |-> req[r].in, says |-> says]]
    BY <1>1 DEF Insert
  <2>2. row[req[r].of] # None /\ UNCHANGED row
    BY <1>1 DEF Insert, Referable
  <2>. QED  BY <2>1, <2>2 DEF Owned, TypeOK
<1>2. CASE Create(r)
  <2>1. PICK n \in Services, says \in Claim, kind \in Lists(Kinds), place \in Says("locations") :
          /\ row' = [row EXCEPT ![n] = [status |-> "DRAFT", title |-> req[r].in,
                                        slug |-> req[r].slug, says |-> says]]
          /\ child' = Filled(n, kind, place, {})
    BY <1>2 DEF Create
  <2>2. row'[n] # None
    <3>1. req[r] \in Creating
      BY <1>2, Shapes DEF Create
    <3>2. [status |-> "DRAFT", title |-> req[r].in, slug |-> req[r].slug, says |-> says] \in Row
      BY <3>1 DEF Creating, Row, Status
    <3>. QED  BY <2>1, <3>2, ContentAssumption DEF TypeOK
  <2>3. \A s \in Services : row[s] # None => row'[s] # None
    BY <2>1, <2>2 DEF TypeOK
  <2>4. \A c \in Children : child'[c] # None => child'[c].of = n \/ child'[c] = child[c]
    BY <2>1 DEF Filled
  <2>5. \A c \in Children : child[c] # None => child[c].of \in Services
    BY DEF TypeOK, Child
  <2>. QED  BY <2>2, <2>3, <2>4, <2>5 DEF Owned
<1>3. CASE Commit(r)
  <2>1. req[r].of \in Services /\ row[req[r].of] # None
    BY <1>3, CommitWrites, ContentAssumption
  <2>2. \A s \in Services : row[s] # None => row'[s] # None
    BY <1>3, CommitWrites, ContentAssumption
  <2>3. PICK kind, place : child' = Filled(req[r].of, kind, place, req[r].seen)
    BY <1>3 DEF Commit
  <2>4. \A c \in Children : child'[c] # None => child'[c].of = req[r].of \/ child'[c] = child[c]
    BY <2>3 DEF Filled
  <2>5. \A c \in Children : child[c] # None => child[c].of \in Services
    BY DEF TypeOK, Child
  <2>. QED  BY <2>1, <2>2, <2>4, <2>5 DEF Owned
<1>4. CASE Change(r)
  <2>1. req[r].seen \in Children /\ child[req[r].seen] \in Child
    BY <1>4, Shapes DEF Change, Changing, TypeOK
  <2>2. \E v : child' = [child EXCEPT ![req[r].seen].says = v]
    BY <1>4 DEF Change
  <2>3. \A c \in Children : child'[c] # None => child[c] # None /\ child'[c].of = child[c].of
    BY <1>4, <2>1, <2>2 DEF TypeOK, Child, Change
  <2>4. UNCHANGED row
    BY <1>4 DEF Change
  <2>. QED  BY <2>3, <2>4 DEF Owned
<1>5. CASE Drop(r)
  BY <1>5 DEF Drop, TypeOK, Owned
<1>6. CASE Remove(r)
  <2>1. \A c \in Children : child'[c] # None => child'[c] = child[c] /\ child[c].of # req[r].of
    BY <1>6 DEF Remove
  <2>2. \A s \in Services \ {req[r].of} : row'[s] = row[s]
    BY <1>6 DEF Remove, TypeOK
  <2>3. \A c \in Children : child[c] # None => child[c].of \in Services
    BY DEF TypeOK, Child
  <2>. QED  BY <2>1, <2>2, <2>3 DEF Owned
<1>7. CASE WriteStatus(r)
  <2>1. UNCHANGED child /\ \A s \in Services : row[s] # None => row'[s] # None
    <3>1. req[r].of \in Services /\ row[req[r].of] \in Row /\ req[r].in \in Status
      BY <1>7, Shapes DEF WriteStatus, Moving, TypeOK
    <3>2. [row[req[r].of] EXCEPT !.status = req[r].in] \in Row
      BY <3>1 DEF Row
    <3>3. row' = [row EXCEPT ![req[r].of] = [row[req[r].of] EXCEPT !.status = req[r].in]]
      BY <1>7, <3>1 DEF WriteStatus, TypeOK
    <3>. QED  BY <1>7, <3>2, <3>3, ContentAssumption DEF WriteStatus, TypeOK
  <2>2. \A c \in Children : child[c] # None => child[c].of \in Services
    BY DEF TypeOK, Child
  <2>. QED  BY <2>1, <2>2 DEF Owned
<1>8. CASE Quiet(r)
  BY <1>8, QuietFrame DEF Owned
<1>9. CASE LockRow(r) \/ FindLists(r) \/ DeleteLists(r) \/ Fail(r)
  BY <1>9 DEF LockRow, FindLists, DeleteLists, Fail, rows, Owned
<1>. QED  BY <1>1, <1>2, <1>3, <1>4, <1>5, <1>6, <1>7, <1>8, <1>9 DEF Step, Quiet

LEMMA AddersFrame ==
    ASSUME TypeOK, NEW r \in Requests, Step(r), NEW s \in Services, NEW k \in Kinds
    PROVE  \/ Adders(s, k)' \subseteq Adders(s, k)
           \/ /\ Count(r) /\ s = req[r].of /\ k = req[r].in
              /\ Adders(s, k)' = Adders(s, k) \cup {r}
<1>1. CASE \E others : Finish(r, others)
  <2>1. req'[r].pc # "insert" /\ \A q \in Requests \ {r} : req'[q] = req[q]
    BY <1>1, FinishFrame DEF Idle
  <2>. QED  BY <2>1 DEF Adders
<1>2. CASE LockRow(r) \/ FindLists(r) \/ DeleteLists(r)
  <2>1. req[r] \in Updating \cup Replacing
    BY <1>2, Shapes DEF LockRow, FindLists, DeleteLists
  <2>2. req'[r].pc # "insert" /\ \A q \in Requests \ {r} : req'[q] = req[q]
    BY <1>2, <2>1 DEF LockRow, FindLists, DeleteLists, Goto, TypeOK, Updating, Replacing
  <2>. QED  BY <2>2 DEF Adders
<1>3. CASE Count(r)
  <2>1. req[r] \in Adding
    BY <1>3, Shapes DEF Count
  <2>2. /\ req'[r].pc = "insert" /\ req'[r].of = req[r].of /\ req'[r].in = req[r].in
        /\ \A q \in Requests \ {r} : req'[q] = req[q]
    BY <1>3, <2>1 DEF Count, Goto, TypeOK, Adding
  <2>3. CASE s = req[r].of /\ k = req[r].in
    BY <1>3, <2>2, <2>3 DEF Adders
  <2>4. CASE ~ (s = req[r].of /\ k = req[r].in)
    BY <2>2, <2>4 DEF Adders
  <2>. QED  BY <2>3, <2>4
<1>4. CASE Quiet(r) /\ ~Count(r)
  <2>1. req'[r].pc # "insert"
    <3>1. CASE Probe(r)
      <4>1. req[r] \in Updating \cup Creating /\ req[r].pc = "probe"
        BY <3>1, Shapes DEF Probe
      <4>. QED  BY <3>1, <4>1 DEF Probe, Goto, TypeOK, Updating, Creating
    <3>2. CASE FindToDrop(r) \/ FindToChange(r)
      <4>1. PICK f, c : \/ req' = [req EXCEPT ![r].pc = "drop", ![r].seen = c]
                       \/ req' = [req EXCEPT ![r].pc = "change", ![r].in = f, ![r].seen = c]
        BY <3>2 DEF FindToDrop, FindToChange
      <4>2. req[r] \in Finding
        BY <3>2, Shapes DEF FindToDrop, FindToChange
      <4>. QED  BY <4>1, <4>2 DEF TypeOK, Finding
    <3>3. CASE \E s0 \in Services, in \in Asked : ReadForUpdate(r, s0, in)
      BY <3>3 DEF ReadForUpdate, TypeOK
    <3>. QED  BY <1>4, <3>1, <3>2, <3>3 DEF Quiet, ReadForChild, BeginCreate, ReadForStatus,
                ReadForRemove, TypeOK
  <2>. QED  BY <1>4, <2>1, QuietFrame DEF Adders
<1>. QED  BY <1>1, <1>2, <1>3, <1>4 DEF Step, Quiet, Insert, Change, Drop, Create, Commit,
            WriteStatus, Remove, Fail

(* An add that nobody has overtaken still has room for its row. *)
Room ==
    \A r \in Requests \ overtaken :
        req[r].pc = "insert" => Cardinality(Kids(req[r].of, req[r].in)) < Limit[req[r].in]

(* The updates that are replacing list k of s and know the rows they will  *)
(* delete.                                                                 *)
Finders(s, k) ==
    {q \in Requests : req[q].pc \in {"delete", "commit"} /\ req[q].of = s /\ k \in req[q].in.lists}

Seen(Q) == UNION {req[q].seen : q \in Q}

(* Whichever of them commit first, the rows they leave and the adds under  *)
(* way fit in one full list for each of the other requests.                *)
Spread ==
    \A s \in Services, k \in Kinds : \A Q \in SUBSET Finders(s, k) :
        Cardinality(Kids(s, k) \ Seen(Q)) + Cardinality(Adders(s, k))
            <= (Cardinality(Requests) - Cardinality(Q)) * Limit[k]

Tight ==
    \A s \in Services, k \in Kinds :
        <<s, k>> \notin crowded => Cardinality(Kids(s, k)) <= Limit[k]

Counts == Room /\ Spread /\ Tight

LEMMA Numbers ==
    ASSUME NEW k \in Kinds, NEW r \in Requests
    PROVE  /\ Limit[k] \in Nat /\ Limit[k] >= 1
           /\ Cardinality(Requests) \in Nat /\ Cardinality(Requests) >= 1
<1>1. Cardinality(Requests) \in Nat /\ Cardinality(Requests) # 0
  BY ContentAssumption, FS_CardinalityType, FS_EmptySet
<1>. QED  BY <1>1, ContentAssumption

(* One full list more. *)
LEMMA Times ==
    ASSUME NEW m \in Nat, NEW L \in Nat
    PROVE  /\ m * L \in Nat /\ (m + 1) * L = m * L + L
           /\ L >= 1 => m <= m * L
           /\ L >= 1 /\ m >= 1 => (L - 1) + m <= m * L
<1>1. m * L \in Nat /\ (m + 1) * L = m * L + L
  OBVIOUS
<1>2. ASSUME L >= 1 PROVE m * L = m + m * (L - 1) /\ m * (L - 1) >= 0
  BY <1>2
<1>3. ASSUME L >= 1, m >= 1 PROVE m * (L - 1) >= L - 1
  <2>1. (m - 1) * (L - 1) >= 0
    BY <1>3
  <2>2. (m - 1) * (L - 1) = m * (L - 1) - (L - 1)
    BY <1>3
  <2>. QED  BY <2>1, <2>2, <1>3
<1>. QED  BY <1>1, <1>2, <1>3

(* A set in a set with one more element, and in the union of two. *)
LEMMA Smaller ==
    ASSUME NEW S, IsFiniteSet(S), NEW T, T \subseteq S
    PROVE  /\ IsFiniteSet(T) /\ Cardinality(T) \in Nat /\ Cardinality(S) \in Nat
           /\ Cardinality(T) <= Cardinality(S)
BY FS_Subset, FS_CardinalityType

LEMMA OneMore ==
    ASSUME NEW S, IsFiniteSet(S), NEW c, NEW T, T \subseteq S \cup {c}
    PROVE  Cardinality(T) <= Cardinality(S) + 1 /\ Cardinality(T) \in Nat
<1>1. IsFiniteSet(S \cup {c}) /\ Cardinality(S \cup {c}) <= Cardinality(S) + 1 /\ Cardinality(S) \in Nat
  <2>1. Cardinality(S) \in Nat
    BY FS_CardinalityType
  <2>2. /\ IsFiniteSet(S \cup {c})
        /\ Cardinality(S \cup {c}) = IF c \in S THEN Cardinality(S) ELSE Cardinality(S) + 1
    BY FS_AddElement
  <2>. QED  BY <2>1, <2>2
<1>2. Cardinality(T) <= Cardinality(S \cup {c}) /\ Cardinality(T) \in Nat
      /\ Cardinality(S \cup {c}) \in Nat
  BY <1>1, Smaller
<1>. QED  BY <1>1, <1>2

LEMMA Together ==
    ASSUME NEW S, IsFiniteSet(S), NEW N, IsFiniteSet(N), NEW T, T \subseteq S \cup N
    PROVE  Cardinality(T) <= Cardinality(S) + Cardinality(N) /\ Cardinality(T) \in Nat
<1>1. IsFiniteSet(S \cup N)
  BY FS_Union
<1>2. Cardinality(S \cup N) = Cardinality(S) + Cardinality(N) - Cardinality(S \cap N)
  BY FS_Union
<1>3. Cardinality(S \cap N) \in Nat /\ Cardinality(S) \in Nat /\ Cardinality(N) \in Nat
  <2>1. IsFiniteSet(S \cap N)
    BY Smaller
  <2>. QED  BY <2>1, FS_CardinalityType
<1>4. Cardinality(T) <= Cardinality(S \cup N) /\ Cardinality(T) \in Nat
      /\ Cardinality(S \cup N) \in Nat
  BY <1>1, Smaller
<1>. QED  BY <1>2, <1>3, <1>4

(* Another request goes on as it was, unless it has been overtaken. *)
LEMMA OthersStay ==
    ASSUME TypeOK, NEW r \in Requests, Step(r), NEW q \in Requests \ {r}
    PROVE  req'[q] = req[q] /\ (q \notin overtaken' => q \notin overtaken)
<1>1. CASE Quiet(r)
  BY <1>1, QuietFrame
<1>2. CASE \E others : Finish(r, others)
  BY <1>2, FinishFrame
<1>3. CASE LockRow(r) \/ FindLists(r) \/ DeleteLists(r)
  BY <1>3 DEF LockRow, FindLists, DeleteLists, Goto, TypeOK, history
<1>. QED  BY <1>1, <1>2, <1>3 DEF Step, Quiet, Insert, Change, Drop, Create, Commit, WriteStatus,
            Remove, Fail

LEMMA InsertAfterCount ==
    ASSUME TypeOK, TypeOK', NEW r \in Requests, Step(r), req'[r].pc = "insert"
    PROVE  Count(r)
<1>1. CASE \E others : Finish(r, others)
  BY <1>1, FinishFrame DEF Idle
<1>2. CASE Quiet(r) \/ LockRow(r) \/ FindLists(r) \/ DeleteLists(r)
  <2>1. req[r].pc # "insert"
    <3>1. CASE req[r] = Idle
      BY <3>1 DEF Idle
    <3>2. CASE Count(r) \/ FindToDrop(r) \/ FindToChange(r) \/ Probe(r) \/ LockRow(r) \/ FindLists(r) \/ DeleteLists(r)
      BY <3>2 DEF Count, FindToDrop, FindToChange, Probe, LockRow, FindLists, DeleteLists
    <3>. QED  BY <1>2, <3>1, <3>2 DEF Quiet, ReadForChild, BeginCreate, ReadForStatus,
                ReadForRemove, ReadForUpdate
  <2>2. req'[r] \in Adding
    BY DEF TypeOK, Request, Idle, Adding, Finding, Dropping, Changing, Updating, Replacing, Creating,
           Moving, Removing
  <2>3. PICK s \in Services, k \in Kinds : req'[r].of = s /\ req'[r].in = k
    BY <2>2 DEF Adding
  <2>4. r \in Adders(s, k)' /\ r \notin Adders(s, k)
    BY <2>1, <2>3 DEF Adders
  <2>. QED  BY <2>4, AddersFrame
<1>. QED  BY <1>1, <1>2 DEF Step, Quiet, Insert, Change, Drop, Create, Commit, WriteStatus,
            Remove, Fail

(* Who comes to know the rows of a list, and who still knows them.         *)
LEMMA FindersFrame ==
    ASSUME TypeOK, NEW r \in Requests, Step(r), NEW s \in Services, NEW k \in Kinds
    PROVE  /\ \A q \in Finders(s, k)' \ {r} : q \in Finders(s, k) /\ req'[q] = req[q]
           /\ r \in Finders(s, k)' =>
                \/ FindLists(r) /\ Kids(s, k)' \subseteq req'[r].seen
                \/ r \in Finders(s, k) /\ req'[r].seen = req[r].seen /\ DeleteLists(r)
<1>1. \A q \in Finders(s, k)' \ {r} : q \in Finders(s, k) /\ req'[q] = req[q]
  BY OthersStay DEF Finders
<1>2. ASSUME r \in Finders(s, k)'
      PROVE  \/ FindLists(r) /\ Kids(s, k)' \subseteq req'[r].seen
             \/ r \in Finders(s, k) /\ req'[r].seen = req[r].seen /\ DeleteLists(r)
  <2>1. FindLists(r) \/ DeleteLists(r)
    <3>1. req'[r].pc \in {"delete", "commit"}
      BY <1>2 DEF Finders
    <3>2. CASE Quiet(r)
      BY <3>1, <3>2, QuietFrame DEF Busy
    <3>3. CASE \E others : Finish(r, others)
      BY <3>1, <3>3, FinishFrame DEF Idle
    <3>4. CASE LockRow(r)
      <4>1. req[r] \in Updating
        BY <3>4, Shapes DEF LockRow
      <4>. QED  BY <3>1, <3>4, <4>1 DEF LockRow, Goto, TypeOK, Updating
    <3>. QED  BY <3>2, <3>3, <3>4 DEF Step, Quiet, Insert, Change, Drop, Create, Commit, WriteStatus,
                Remove, Fail
  <2>2. CASE FindLists(r)
    <3>1. req[r] \in Updating
      BY <2>2, Shapes DEF FindLists
    <3>2. /\ req'[r].of = req[r].of /\ req'[r].in = req[r].in
          /\ req'[r].seen = UNION {Kids(req[r].of, j) : j \in req[r].in.lists}
      BY <2>2, <3>1 DEF FindLists, TypeOK, Updating
    <3>3. Kids(s, k)' = Kids(s, k)
      BY <2>2 DEF FindLists, rows, Kids
    <3>4. s = req[r].of /\ k \in req[r].in.lists
      BY <1>2, <3>2 DEF Finders
    <3>. QED  BY <2>2, <3>2, <3>3, <3>4
  <2>3. CASE DeleteLists(r)
    <3>1. req[r] \in Replacing
      BY <2>3, Shapes DEF DeleteLists
    <3>2. req'[r].of = req[r].of /\ req'[r].in = req[r].in /\ req'[r].seen = req[r].seen
      BY <2>3, <3>1 DEF DeleteLists, Goto, TypeOK, Replacing
    <3>. QED  BY <1>2, <2>3, <3>2 DEF Finders, DeleteLists
  <2>. QED  BY <2>1, <2>2, <2>3
<1>. QED  BY <1>1, <1>2

(* The bound on rows and adds. *)
LEMMA SpreadKept ==
    ASSUME TypeOK, TypeOK', Owned, Counts, NEW r \in Requests, Step(r)
    PROVE  Spread'
<1> SUFFICES ASSUME NEW s \in Services, NEW k \in Kinds, NEW Q \in SUBSET Finders(s, k)'
             PROVE  Cardinality(Kids(s, k)' \ Seen(Q)') + Cardinality(Adders(s, k)')
                        <= (Cardinality(Requests) - Cardinality(Q)) * Limit[k]
  BY DEF Spread
<1> DEFINE K == Kids(s, k)  A == Adders(s, k)  S == Seen(Q)
           K1 == Kids(s, k)'  A1 == Adders(s, k)'  S1 == Seen(Q)'
           m == Cardinality(Requests) - Cardinality(Q)
           L == Limit[k]
<1>1. IsFiniteSet(K) /\ IsFiniteSet(A) /\ IsFiniteSet(K \ S)
      /\ Cardinality(K \ S) \in Nat /\ Cardinality(A) \in Nat
  BY Finite, Smaller
<1>2. L \in Nat /\ L >= 1
  BY Numbers
<1>3. Q \subseteq Requests /\ IsFiniteSet(Q) /\ A1 \subseteq Requests \ Q
  <2>1. Q \subseteq Requests /\ A1 \subseteq Requests \ Q
    BY DEF Finders, Adders
  <2>. QED  BY <2>1, ContentAssumption, Smaller
<1>4. /\ m \in Nat /\ Cardinality(A1) \in Nat /\ Cardinality(A1) <= m
      /\ Q # Requests => m >= 1
  <2>1. /\ IsFiniteSet(Requests \ Q)
        /\ Cardinality(Requests \ Q) = Cardinality(Requests) - Cardinality(Requests \cap Q)
    BY ContentAssumption, FS_Difference
  <2>2. Requests \cap Q = Q
    BY <1>3
  <2>3. Cardinality(Requests \ Q) \in Nat /\ (Q # Requests => Cardinality(Requests \ Q) # 0)
    <3>1. Q # Requests => Requests \ Q # {}
      BY <1>3
    <3>2. Cardinality(Requests \ Q) = 0 <=> Requests \ Q = {}
      BY <2>1, FS_EmptySet
    <3>. QED  BY <2>1, <3>1, <3>2, FS_CardinalityType
  <2>4. Cardinality(A1) \in Nat /\ Cardinality(A1) <= Cardinality(Requests \ Q)
    BY <1>3, <2>1, Smaller
  <2>5. m = Cardinality(Requests \ Q)
    BY <2>1, <2>2
  <2> HIDE DEF m, A1
  <2>. QED  BY <2>3, <2>4, <2>5
<1>5. m * L \in Nat /\ m <= m * L /\ (m >= 1 => (L - 1) + m <= m * L)
  <2>1. m \in Nat /\ L \in Nat
    BY <1>2, <1>4
  <2> HIDE DEF m, L
  <2>2. /\ m * L \in Nat
        /\ L >= 1 => m <= m * L
        /\ L >= 1 /\ m >= 1 => (L - 1) + m <= m * L
    BY <2>1, Times, Zenon
  <2>3. L >= 1
    BY <1>2
  <2>. QED  BY <2>2, <2>3, Zenon
<1>6. CASE FindLists(r) /\ r \in Q
  <2>1. K1 \subseteq req'[r].seen
    BY <1>6, FindersFrame DEF FindLists, DeleteLists
  <2>2. K1 \ S1 = {}
    BY <1>6, <2>1 DEF Seen
  <2>3. Cardinality(K1 \ S1) = 0
    BY <2>2, FS_EmptySet
  <2> HIDE DEF K, A, S, K1, A1, S1, m, L
  <2>4. Cardinality(K1 \ S1) + Cardinality(A1) <= m * L
    BY <1>4, <1>5, <2>3
  <2>. QED  BY <2>4 DEF K1, S1, A1, m, L
<1>7. CASE ~ (FindLists(r) /\ r \in Q)
  <2>1. Q \subseteq Finders(s, k) /\ \A q \in Q : req'[q].seen = req[q].seen
    BY <1>7, FindersFrame
  <2>2. S1 = S
    BY <2>1 DEF Seen
  <2>3. Cardinality(K \ S) + Cardinality(A) <= m * L
    BY <2>1 DEF Counts, Spread
  <2>4. CASE Adds(r, s, k)
    <3>1. PICK c : K1 \subseteq K \cup {c}
      BY <2>4 DEF Adds
    <3>2. K1 \ S \subseteq (K \ S) \cup {c}
      BY <3>1
    <3>3. Cardinality(K1 \ S) <= Cardinality(K \ S) + 1 /\ Cardinality(K1 \ S) \in Nat
      BY <1>1, <3>2, OneMore
    <3>4. r \in A /\ A1 \subseteq A \ {r}
      <4>1. r \in A /\ \E others : Finish(r, others)
        BY <2>4 DEF Adds, Insert, Adders
      <4>2. req'[r].pc # "insert" /\ \A p \in Requests \ {r} : req'[p] = req[p]
        BY <4>1, FinishFrame DEF Idle
      <4>. QED  BY <4>1, <4>2 DEF Adders
    <3>5. Cardinality(A \ {r}) = Cardinality(A) - 1 /\ IsFiniteSet(A \ {r})
      BY <1>1, <3>4, FS_RemoveElement
    <3>6. Cardinality(A1) <= Cardinality(A) - 1
      BY <3>4, <3>5, Smaller
    <3> HIDE DEF K, A, S, K1, A1, S1, m, L
    <3>7. Cardinality(K1 \ S1) + Cardinality(A1) <= m * L
      BY <1>1, <1>4, <1>5, <2>2, <2>3, <3>3, <3>6
    <3>. QED  BY <3>7 DEF K1, S1, A1, m, L
  <2>5. CASE Starts(r, s, k)
    <3>1. PICK new \in SUBSET Children : Cardinality(new) <= L /\ K1 \subseteq new
      BY <2>5 DEF Starts
    <3>2. IsFiniteSet(new)
      BY ContentAssumption, Smaller
    <3>3. Cardinality(K1 \ S) <= Cardinality(new) /\ Cardinality(K1 \ S) \in Nat /\ Cardinality(new) \in Nat
      BY <3>1, <3>2, Smaller
    <3>4. A1 = {}
      <4>1. A = {} /\ ~Count(r)
        BY <2>5 DEF Starts, Create, Count
      <4>. QED  BY <4>1, AddersFrame
    <3>5. Cardinality(A1) = 0
      BY <3>4, FS_EmptySet
    <3>6. Q = {}
      BY <2>1, <2>5 DEF Starts, Finders
    <3>7. m >= 1
      <4>1. r \notin Q
        BY <3>6
      <4>. QED  BY <1>4, <4>1
    <3> HIDE DEF K, A, S, K1, A1, S1, m, L
    <3>8. Cardinality(K1 \ S1) + Cardinality(A1) <= m * L
      BY <1>2, <1>4, <1>5, <2>2, <3>1, <3>3, <3>5, <3>7
    <3>. QED  BY <3>8 DEF K1, S1, A1, m, L
  <2>6. CASE Replaces(r, s, k)
    <3>1. PICK new \in SUBSET Children :
            Cardinality(new) <= L /\ K1 \subseteq (K \ req[r].seen) \cup new
      BY <2>6 DEF Replaces
    <3>2. r \notin Q
      <4>1. \E others : Finish(r, others)
        BY <2>6 DEF Replaces, Commit
      <4>2. req'[r] = Idle
        BY <4>1, FinishFrame
      <4>. QED  BY <4>2 DEF Finders, Idle
    <3>3. Q \cup {r} \in SUBSET Finders(s, k)
      BY <2>1, <2>6 DEF Finders, Replaces, Commit
    <3>4. Cardinality(Q \cup {r}) = Cardinality(Q) + 1 /\ Cardinality(Q) \in Nat
      BY <1>3, <3>2, FS_AddElement, FS_CardinalityType
    <3>5. K \ Seen(Q \cup {r}) = (K \ S) \ req[r].seen
      BY DEF Seen
    <3>6. Cardinality((K \ S) \ req[r].seen) + Cardinality(A) <= (m - 1) * L
      <4>1. Cardinality(K \ Seen(Q \cup {r})) + Cardinality(A)
               <= (Cardinality(Requests) - Cardinality(Q \cup {r})) * L
        BY <3>3 DEF Counts, Spread
      <4>2. Cardinality(Requests) - Cardinality(Q \cup {r}) = m - 1
        <5>1. Cardinality(Requests) \in Nat
          BY ContentAssumption, FS_CardinalityType
        <5>. QED  BY <3>4, <5>1
      <4>. QED  BY <3>5, <4>1, <4>2
    <3>7. /\ IsFiniteSet((K \ S) \ req[r].seen) /\ IsFiniteSet(new)
          /\ Cardinality((K \ S) \ req[r].seen) \in Nat /\ Cardinality(new) \in Nat
      BY <1>1, ContentAssumption, Smaller
    <3>8. Cardinality(K1 \ S) <= Cardinality((K \ S) \ req[r].seen) + Cardinality(new)
          /\ Cardinality(K1 \ S) \in Nat
      <4>1. K1 \ S \subseteq ((K \ S) \ req[r].seen) \cup new
        BY <3>1
      <4>. QED  BY <3>7, <4>1, Together
    <3>9. Cardinality(A1) <= Cardinality(A)
      <4>1. ~Count(r)
        BY <2>6 DEF Replaces, Commit, Count
      <4>. QED  BY <1>1, <4>1, AddersFrame, Smaller
    <3>10. (m - 1) * L + L = m * L /\ (m - 1) * L \in Int
      <4>1. m - 1 \in Nat
        BY <1>4, <3>2
      <4> HIDE DEF m, L
      <4>. QED  BY <1>2, <1>4, <4>1, Times
    <3> DEFINE B == (m - 1) * L
    <3> HIDE DEF K, A, S, K1, A1, S1, m, L, B
    <3>11. Cardinality(K1 \ S1) + Cardinality(A1) <= m * L
      <4>1. B + L = m * L /\ B \in Int /\ Cardinality((K \ S) \ req[r].seen) + Cardinality(A) <= B
        BY <3>6, <3>10 DEF B
      <4>. QED  BY <1>1, <1>2, <1>4, <1>5, <2>2, <3>1, <3>7, <3>8, <3>9, <4>1
    <3>. QED  BY <3>11 DEF K1, S1, A1, m, L
  <2>7. CASE K1 \subseteq K
    <3>1. Cardinality(K1 \ S) <= Cardinality(K \ S) /\ Cardinality(K1 \ S) \in Nat
      BY <1>1, <2>7, Smaller
    <3>2. CASE A1 \subseteq A
      <4>1. Cardinality(A1) <= Cardinality(A)
        BY <1>1, <3>2, Smaller
      <4> HIDE DEF K, A, S, K1, A1, S1, m, L
      <4>2. Cardinality(K1 \ S1) + Cardinality(A1) <= m * L
        BY <1>1, <1>4, <1>5, <2>2, <2>3, <3>1, <4>1
      <4>. QED  BY <4>2 DEF K1, S1, A1, m, L
    <3>3. CASE Count(r) /\ s = req[r].of /\ k = req[r].in
      <4>1. Cardinality(K) < L /\ Cardinality(K) \in Nat
        BY <3>3, Finite DEF Count
      <4>2. Cardinality(K \ S) <= Cardinality(K)
        BY <1>1, Smaller
      <4>3. m >= 1
        <5>1. r \notin Q
          BY <2>1, <3>3 DEF Finders, Count
        <5>. QED  BY <1>4, <5>1
      <4> HIDE DEF K, A, S, K1, A1, S1, m, L
      <4>4. Cardinality(K1 \ S1) + Cardinality(A1) <= m * L
        BY <1>1, <1>2, <1>4, <1>5, <2>2, <3>1, <4>1, <4>2, <4>3
      <4>. QED  BY <4>4 DEF K1, S1, A1, m, L
    <3>. QED  BY <3>2, <3>3, AddersFrame
  <2>. QED  BY <2>4, <2>5, <2>6, <2>7, KidsFrame
<1>. QED  BY <1>6, <1>7

LEMMA RoomKept ==
    ASSUME TypeOK, TypeOK', Owned, Counts, NEW r \in Requests, Step(r)
    PROVE  Room'
<1> SUFFICES ASSUME NEW q \in Requests, q \notin overtaken', req'[q].pc = "insert",
                    NEW s \in Services, NEW k \in Kinds, s = req'[q].of, k = req'[q].in
             PROVE  Cardinality(Kids(s, k)') < Limit[k]
  <2>1. \A q \in Requests : req'[q].pc = "insert" => req'[q] \in Adding
    BY DEF TypeOK, Request, Idle, Adding, Finding, Dropping, Changing, Updating, Replacing, Creating,
           Moving, Removing
  <2>. QED  BY <2>1 DEF Room, Adding
<1>1. Limit[k] \in Nat /\ IsFiniteSet(Kids(s, k)) /\ Cardinality(Kids(s, k)) \in Nat
  BY Numbers, Finite
<1>2. CASE q = r
  <2>1. Count(r)
    BY <1>2, InsertAfterCount
  <2>2. req[r] \in Adding
    BY <2>1, Shapes DEF Count
  <2>3. s = req[r].of /\ k = req[r].in /\ Kids(s, k)' = Kids(s, k)
    BY <1>2, <2>1, <2>2 DEF Count, Goto, TypeOK, Adding, Kids, rows
  <2>. QED  BY <2>1, <2>3 DEF Count
<1>3. CASE q # r
  <2>1. req'[q] = req[q] /\ q \notin overtaken
    BY <1>3, OthersStay
  <2>2. Cardinality(Kids(s, k)) < Limit[k]
    BY <2>1 DEF Counts, Room
  <2>3. ~Adds(r, s, k)
    BY <1>3, <2>1, FinishFrame DEF Adds, Insert, Counted
  <2>4. ~Starts(r, s, k)
    BY <2>1 DEF Starts
  <2>5. ~Replaces(r, s, k)
    BY <1>3, <2>1, FinishFrame DEF Replaces, Commit, Counted
  <2>6. Kids(s, k)' \subseteq Kids(s, k)
    BY <2>3, <2>4, <2>5, KidsFrame
  <2>7. Cardinality(Kids(s, k)') <= Cardinality(Kids(s, k)) /\ Cardinality(Kids(s, k)') \in Nat
    BY <1>1, <2>6, Smaller
  <2>. QED  BY <1>1, <2>2, <2>7
<1>. QED  BY <1>2, <1>3

(* A list leaves the crowded ones only when it is filled anew. *)
LEMMA CrowdedFrame ==
    ASSUME TypeOK, NEW r \in Requests, Step(r), NEW s \in Services, NEW k \in Kinds,
           <<s, k>> \in crowded, <<s, k>> \notin crowded'
    PROVE  \/ Insert(r) /\ s = req[r].of /\ k = req[r].in
           \/ Commit(r) /\ s = req[r].of /\ k \in req[r].in.lists
           \/ Remove(r) /\ Kids(s, k)' = {}
<1>1. CASE Insert(r)
  BY <1>1 DEF Insert
<1>2. CASE Commit(r)
  BY <1>2 DEF Commit
<1>3. CASE Remove(r)
  <2>1. s = req[r].of
    BY <1>3 DEF Remove
  <2>2. child' = [c \in Children |-> IF child[c] # None /\ child[c].of = s THEN None ELSE child[c]]
    BY <1>3, <2>1 DEF Remove
  <2>3. Kids(s, k)' = {}
    BY <2>2 DEF Kids
  <2>. QED  BY <1>3, <2>3
<1>4. CASE ~ (Insert(r) \/ Commit(r) \/ Remove(r))
  <2>1. UNCHANGED crowded
    <3>1. CASE Quiet(r)
      BY <3>1, QuietFrame
    <3>2. CASE Change(r) \/ Drop(r) \/ Create(r) \/ LockRow(r) \/ FindLists(r) \/ DeleteLists(r) \/ WriteStatus(r) \/ Fail(r)
      BY <3>2 DEF Change, Drop, Create, LockRow, FindLists, DeleteLists, WriteStatus, Fail, history
    <3>. QED  BY <1>4, <3>1, <3>2 DEF Step, Quiet
  <2>. QED  BY <2>1
<1>. QED  BY <1>1, <1>2, <1>3, <1>4

LEMMA TightKept ==
    ASSUME TypeOK, Owned, Counts, NEW r \in Requests, Step(r)
    PROVE  Tight'
<1> SUFFICES ASSUME NEW s \in Services, NEW k \in Kinds, <<s, k>> \notin crowded'
             PROVE  Cardinality(Kids(s, k)') <= Limit[k]
  BY DEF Tight
<1> DEFINE K == Kids(s, k)  K1 == Kids(s, k)'
<1>1. IsFiniteSet(K) /\ Cardinality(K) \in Nat
  BY Finite
<1>2. Limit[k] \in Nat
  BY Numbers
<1>3. CASE Insert(r) /\ s = req[r].of /\ k = req[r].in
  <2>1. r \notin overtaken /\ req[r].pc = "insert"
    BY <1>3 DEF Insert
  <2>2. Cardinality(K) < Limit[k]
    BY <1>3, <2>1 DEF Counts, Room
  <2>3. \E c : K1 \subseteq K \cup {c}
    <3>1. ~Starts(r, s, k) /\ ~Replaces(r, s, k)
      BY <1>3 DEF Starts, Replaces, Insert, Create, Commit
    <3>. QED  BY <3>1, KidsFrame DEF Adds
  <2>4. Cardinality(K1) <= Cardinality(K) + 1 /\ Cardinality(K1) \in Nat
    BY <1>1, <2>3, OneMore
  <2> HIDE DEF K, K1
  <2>. QED  BY <1>1, <1>2, <2>2, <2>4 DEF K1
<1>4. CASE Starts(r, s, k)
  <2>1. PICK new \in SUBSET Children : Cardinality(new) <= Limit[k] /\ K1 \subseteq new
    BY <1>4 DEF Starts
  <2>2. Cardinality(K1) <= Cardinality(new) /\ Cardinality(K1) \in Nat /\ Cardinality(new) \in Nat
    BY <2>1, ContentAssumption, Smaller
  <2> HIDE DEF K, K1
  <2>. QED  BY <1>2, <2>1, <2>2 DEF K1
<1>5. CASE Replaces(r, s, k)
  <2>1. PICK new \in SUBSET Children :
          Cardinality(new) <= Limit[k] /\ K1 \subseteq (K \ req[r].seen) \cup new
    BY <1>5 DEF Replaces
  <2>2. k \notin {j \in req[r].in.lists : ~ Kids(s, j) \subseteq req[r].seen}
    BY <1>5 DEF Replaces, Commit
  <2>3. K1 \subseteq new
    BY <1>5, <2>1, <2>2 DEF Replaces
  <2>4. Cardinality(K1) <= Cardinality(new) /\ Cardinality(K1) \in Nat /\ Cardinality(new) \in Nat
    BY <2>3, ContentAssumption, Smaller
  <2> HIDE DEF K, K1
  <2>. QED  BY <1>2, <2>1, <2>4 DEF K1
<1>6. CASE /\ K1 \subseteq K /\ ~ (Commit(r) /\ s = req[r].of /\ k \in req[r].in.lists)
           /\ ~ (Insert(r) /\ s = req[r].of /\ k = req[r].in)
  <2>1. CASE Remove(r) /\ K1 = {}
    BY <1>2, <2>1, FS_EmptySet
  <2>2. CASE <<s, k>> \notin crowded
    <3>1. Cardinality(K) <= Limit[k]
      BY <2>2 DEF Counts, Tight
    <3>2. Cardinality(K1) <= Cardinality(K) /\ Cardinality(K1) \in Nat
      BY <1>1, <1>6, Smaller
    <3> HIDE DEF K, K1
    <3>. QED  BY <1>1, <1>2, <3>1, <3>2 DEF K1
  <2>. QED  BY <1>6, <2>1, <2>2, CrowdedFrame
<1>. QED  BY <1>3, <1>4, <1>5, <1>6, KidsFrame DEF Adds

(* A service never has more media, tags, FAQs, requirements or locations   *)
(* than the limit, for any number of overlapping requests, unless an add   *)
(* inserted on a count that another had made stale, or a replacement of    *)
(* the list did not see all its rows; and then not more than one full list *)
(* for each request that may be under way.                                 *)
THEOREM LimitsKept == Spec => []LimitsHold
<1>1. ASSUME Init PROVE Owned /\ Counts
  <2>1. \A s \in Services, k \in Kinds :
           Kids(s, k) = {} /\ Adders(s, k) = {} /\ Finders(s, k) = {}
    BY <1>1 DEF Init, Kids, Adders, Finders, Idle
  <2>2. Tight
    <3> SUFFICES ASSUME NEW s \in Services, NEW k \in Kinds PROVE Cardinality(Kids(s, k)) <= Limit[k]
      BY DEF Tight
    <3>1. Cardinality(Kids(s, k)) = 0
      BY <2>1, FS_EmptySet
    <3>. QED  BY <3>1, ContentAssumption
  <2>3. Spread
    <3> SUFFICES ASSUME NEW s \in Services, NEW k \in Kinds, NEW Q \in SUBSET Finders(s, k)
                 PROVE  Cardinality(Kids(s, k) \ Seen(Q)) + Cardinality(Adders(s, k))
                            <= (Cardinality(Requests) - Cardinality(Q)) * Limit[k]
      BY DEF Spread
    <3>1. Q = {} /\ Kids(s, k) \ Seen(Q) = {} /\ Adders(s, k) = {}
      BY <2>1
    <3>2. Cardinality(Kids(s, k) \ Seen(Q)) = 0 /\ Cardinality(Adders(s, k)) = 0 /\ Cardinality(Q) = 0
      BY <3>1, FS_EmptySet
    <3>3. Cardinality(Requests) \in Nat /\ Limit[k] \in Nat
      BY ContentAssumption, FS_CardinalityType
    <3>4. Cardinality(Requests) * Limit[k] \in Nat
      BY <3>3, Times
    <3>. QED  BY <3>2, <3>3, <3>4
  <2>4. Owned /\ Room
    BY <1>1 DEF Init, Owned, Room, Idle
  <2>. QED  BY <2>2, <2>3, <2>4 DEF Counts
<1>2. (TypeOK /\ Holding) /\ (TypeOK /\ Holding)' /\ (Owned /\ Counts) /\ [Next]_vars
         => (Owned /\ Counts)'
  <2> SUFFICES ASSUME TypeOK, TypeOK', Holding, Owned, Counts, [Next]_vars
               PROVE  Owned' /\ Counts'
    OBVIOUS
  <2>1. CASE Next
    BY <2>1, OwnedKept, RoomKept, SpreadKept, TightKept DEF Next, Counts
  <2>2. CASE UNCHANGED vars
    <3>1. \A s, k : /\ Kids(s, k)' = Kids(s, k) /\ Adders(s, k)' = Adders(s, k)
                    /\ Finders(s, k)' = Finders(s, k)
      BY <2>2 DEF vars, Kids, Adders, Finders
    <3>2. \A Q : Seen(Q)' = Seen(Q)
      BY <2>2 DEF vars, Seen
    <3>3. UNCHANGED <<row, child, req, overtaken, crowded>>
      BY <2>2 DEF vars
    <3>4. Owned'
      BY <3>3 DEF Owned
    <3>5. Room'
      BY <3>1, <3>3 DEF Room, Counts
    <3>6. Spread'
      BY <3>1, <3>2 DEF Spread, Counts
    <3>7. Tight'
      BY <3>1, <3>3 DEF Tight, Counts
    <3>. QED  BY <3>4, <3>5, <3>6, <3>7 DEF Counts
  <2>. QED  BY <2>1, <2>2
<1>3. Counts => LimitsHold
  <2> SUFFICES ASSUME Counts, NEW s \in Services, NEW k \in Kinds
               PROVE  Cardinality(Kids(s, k)) <=
                        IF <<s, k>> \in crowded THEN Cardinality(Requests) * Limit[k] ELSE Limit[k]
    BY DEF LimitsHold
  <2>1. Cardinality(Kids(s, k) \ Seen({})) + Cardinality(Adders(s, k))
           <= (Cardinality(Requests) - Cardinality({})) * Limit[k]
    <3>1. {} \in SUBSET Finders(s, k)
      OBVIOUS
    <3>. QED  BY <3>1 DEF Counts, Spread
  <2>2. Kids(s, k) \ Seen({}) = Kids(s, k)
    BY DEF Seen
  <2>3. Cardinality({}) = 0
    BY FS_EmptySet
  <2>4. Cardinality(Kids(s, k)) \in Nat /\ Cardinality(Adders(s, k)) \in Nat
        /\ Cardinality(Requests) \in Nat /\ Limit[k] \in Nat
    BY Finite, ContentAssumption
  <2>5. Cardinality(Requests) * Limit[k] \in Nat
    BY <2>4, Times
  <2>6. Cardinality(Requests) - Cardinality({}) = Cardinality(Requests)
    BY <2>3, <2>4
  <2>7. Cardinality(Kids(s, k)) <= Cardinality(Requests) * Limit[k]
    <3> DEFINE B == Cardinality(Requests) * Limit[k]
    <3>1. Cardinality(Kids(s, k)) + Cardinality(Adders(s, k)) <= B
      BY <2>1, <2>2, <2>6
    <3>2. B \in Nat
      BY <2>5
    <3> HIDE DEF B
    <3>3. Cardinality(Kids(s, k)) <= B
      BY <2>4, <3>1, <3>2
    <3>. QED  BY <3>3 DEF B
  <2>. QED  BY <2>7 DEF Counts, Tight
<1>. QED  BY <1>1, <1>2, <1>3, ContentTypeCorrect, PTL DEF Spec
=============================================================================
