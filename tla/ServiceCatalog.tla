-------------------------- MODULE ServiceCatalog --------------------------
(***************************************************************************)
(* The handlers of ServiceCatalogService, with the writes of ProviderService,*)
(* ProviderVerificationService and CategoryService that its checks read.   *)
(*                                                                         *)
(* Every handler is asynchronous: it reads, decides on what it has read,   *)
(* writes by id, records an audit row and only then emits a search event.  *)
(* Other requests run between any two of these steps (PostgreSQL runs at   *)
(* READ COMMITTED and the writes are by id alone), so each database call   *)
(* is a step of its own:                                                   *)
(*                                                                         *)
(*   idle --read--> [category | verify] --> write --> notify --> idle      *)
(*                                                                         *)
(* A request refused by a check it makes on the row it has just read leaves *)
(* no trace, so the read step has that check as a guard.  The events go to *)
(* the in-process EventEmitter2: bus[r] is the event slot r has emitted and *)
(* no listener has been handed yet; a slot takes the next request when its *)
(* event has been handed over.                                             *)
(***************************************************************************)
EXTENDS CatalogTypes

CONSTANTS
    Requests,   \* request slots: how many requests run at a time (bound)
    Ops,        \* the operations clients call (bound)
    Faults      \* what may go wrong: a subset of {"audit", "crash"}

VARIABLES
    service,    \* service[s]: the row of service s
    provider,   \* provider[p]: verification status and isActive of provider p
    active,     \* active[c]: isActive of category c
    req,        \* req[r]: the request in slot r and what it has read
    bus         \* bus[r]: the event emitted by slot r, or None

catalogVars == <<service, provider, active, req, bus>>
rows == <<service, provider, active>>

CatalogOps == {"create", "update", "edit", "remove", "publish", "pause", "archive"}
ProviderOps == {"submit", "review", "profile"}

ASSUME RequestAssumption ==
    /\ Ops \subseteq CatalogOps \cup ProviderOps \cup {"category"}
    /\ Faults \subseteq {"audit", "crash"}

(***************************************************************************)
(* The search event an operation ends with.  "edit" stands for the handlers *)
(* on media, tags and locations.                                           *)
(***************************************************************************)
Upserts == {"update", "edit", "publish"}
Removes == {"remove", "pause", "archive"}

(* Mutant of EventOf: the media, tag and location handlers emit nothing. *)
EventOfQuietEdit(op, of) ==
    CASE op \in Upserts \ {"edit"}     -> [kind |-> "SERVICE_UPSERT", of |-> of]
      [] op \in Removes               -> [kind |-> "SERVICE_REMOVE", of |-> of]
      [] op \in {"review", "profile"} -> [kind |-> "PROVIDER_UPSERT", of |-> of]
      [] op = "category"              -> [kind |-> "CATEGORY_UPDATED", of |-> of]
      [] OTHER                        -> None

EventOf(op, of) ==
    CASE op \in Upserts               -> [kind |-> "SERVICE_UPSERT", of |-> of]
      [] op \in Removes               -> [kind |-> "SERVICE_REMOVE", of |-> of]
      [] op \in {"review", "profile"} -> [kind |-> "PROVIDER_UPSERT", of |-> of]
      [] op = "category"              -> [kind |-> "CATEGORY_UPDATED", of |-> of]
      [] OTHER                        -> None

Event == [kind : {"SERVICE_UPSERT", "SERVICE_REMOVE"}, of : Services]
         \cup [kind : {"PROVIDER_UPSERT"}, of : Providers]
         \cup [kind : {"CATEGORY_UPDATED"}, of : Categories]

ASSUME EventAssumption == None \notin Event

(* addMedia and its siblings write no audit row. *)
Audited == (CatalogOps \cup ProviderOps \cup {"category"}) \ {"edit"}

Idle == [pc |-> "idle", op |-> None, of |-> None, seen |-> None, category |-> None]

Running == {"category", "verify", "write", "notify"}

Request ==
    {Idle}
    \cup [pc : Running, op : CatalogOps \ {"create"}, of : Services,
          seen : Row, category : Categories \cup {None}]
    \cup [pc : Running, op : {"create"}, of : Providers, seen : {None}, category : Categories]
    \cup [pc : Running, op : ProviderOps, of : Providers, seen : {None}, category : {None}]
    \cup [pc : Running, op : {"category"}, of : Categories, seen : {None}, category : {None}]

TypeOK ==
    /\ service \in [Services -> Row]
    /\ provider \in [Providers -> Profile]
    /\ active \in [Categories -> BOOLEAN]
    /\ req \in [Requests -> Request]
    /\ bus \in [Requests -> Event \cup {None}]

(***************************************************************************)
(* Initially nothing has been offered yet and providers have just signed   *)
(* up (the defaults of the schema).                                        *)
(***************************************************************************)
Init ==
    /\ service \in [Services -> {row \in Row : row.status = "UNBORN" /\ row.publishedAt = None}]
    /\ provider = [p \in Providers |-> [verification |-> "PENDING", active |-> TRUE]]
    /\ active = [c \in Categories |-> TRUE]
    /\ req = [r \in Requests |-> Idle]
    /\ bus = [r \in Requests |-> None]

(***************************************************************************)
(* The reads.  Admits(op, status) is the check each handler makes on the   *)
(* status of the row that getAccessibleServiceOrThrow returned.            *)
(***************************************************************************)
(* Mutant of Admits: remove forgets the check on published services. *)
AdmitsAnyRemove(op, status) ==
    CASE op \in {"update", "edit", "publish"} -> status # "ARCHIVED"
      [] op \in {"remove", "archive"}         -> TRUE
      [] op = "pause"                         -> status = "PUBLISHED"

Admits(op, status) ==
    CASE op \in {"update", "edit", "publish"} -> status # "ARCHIVED"
      [] op = "remove"                        -> status # "PUBLISHED"
      [] op = "pause"                         -> status = "PUBLISHED"
      [] op = "archive"                       -> TRUE

Accept(r, pc, op, of, seen, c) ==
    /\ op \in Ops
    /\ req[r] = Idle
    /\ bus[r] = None
    /\ req' = [req EXCEPT ![r] =
                 [pc |-> pc, op |-> op, of |-> of, seen |-> seen, category |-> c]]
    /\ UNCHANGED <<rows, bus>>

ReadService(r, op, s) ==
    /\ service[s].status \in Stored
    /\ Admits(op, service[s].status)
    /\ Accept(r, IF op = "publish" THEN "verify" ELSE "write", op, s, service[s], None)

(* update whose dto has a categoryId: assertActiveCategory comes next. *)
ReadForMove(r, s, c) ==
    /\ service[s].status \in Stored
    /\ Admits("update", service[s].status)
    /\ Accept(r, "category", "update", s, service[s], c)

(* create: resolveWritableProvider has found the provider of the caller.   *)
(* Services is a bound: a create is taken up while there is an id left.    *)
ReadOwnProvider(r, p, c) ==
    /\ \E s \in Services : Owner[s] = p /\ service[s].status = "UNBORN"
    /\ Accept(r, "category", "create", p, None, c)

ReadProvider(r, op, p) ==
    /\ op = "submit" => provider[p].verification \notin {"UNDER_REVIEW", "VERIFIED"}
    /\ Accept(r, "write", op, p, None, None)

ReadCategory(r, c) == Accept(r, "write", "category", c, None, None)

(***************************************************************************)
(* The second read of create and update (the category) and of publish (the *)
(* provider, then assertReadyToPublish on the service read before).        *)
(***************************************************************************)
Proceed(r, pc) ==
    /\ req' = [req EXCEPT ![r].pc = pc]
    /\ UNCHANGED <<rows, bus>>

CheckCategory(r) ==
    /\ req[r].pc = "category"
    /\ active[req[r].category]
    /\ Proceed(r, "write")

(* Mutant of CheckProvider: assertReadyToPublish is not called. *)
CheckProviderOnly(r) ==
    /\ req[r].pc = "verify"
    /\ provider[Owner[req[r].of]].verification = "VERIFIED"
    /\ Proceed(r, "write")

CheckProvider(r) ==
    /\ req[r].pc = "verify"
    /\ provider[Owner[req[r].of]].verification = "VERIFIED"
    /\ req[r].seen.content \in Complete
    /\ Proceed(r, "write")

(* The request ends with an error: a check failed, or the row to write is gone. *)
Refuse(r) ==
    /\ \/ req[r].pc = "category" /\ ~active[req[r].category]
       \/ /\ req[r].pc = "verify"
          /\ \/ provider[Owner[req[r].of]].verification # "VERIFIED"
             \/ req[r].seen.content \notin Complete
       \/ /\ req[r].pc = "write"
          /\ req[r].op \in CatalogOps \ {"create"}
          /\ service[req[r].of].status \notin Stored
    /\ req' = [req EXCEPT ![r] = Idle]
    /\ UNCHANGED <<rows, bus>>

(***************************************************************************)
(* The writes.  Each names the row by its id and sets only the fields it   *)
(* is about, whatever has happened to the row since it was read.           *)
(***************************************************************************)
Writes(r, op) == req[r].pc = "write" /\ req[r].op = op

Store(r, s, row) ==
    /\ service' = [service EXCEPT ![s] = row]
    /\ req' = [req EXCEPT ![r].pc = "notify"]
    /\ UNCHANGED <<provider, active, bus>>

WriteCreate(r) ==
    /\ Writes(r, "create")
    /\ \E s \in Services, x \in Contents :
         /\ Owner[s] = req[r].of
         /\ service[s].status = "UNBORN"
         /\ Store(r, s, [status |-> "DRAFT", publishedAt |-> None,
                         content |-> x, category |-> req[r].category])

(* Mutant of Existing: the write is an upsert. *)
ExistingOrDeleted(r) == service[req[r].of].status # "UNBORN"

Existing(r) == service[req[r].of].status \in Stored

(* Mutant of WriteUpdate: the row that was read is written back as a whole. *)
WriteUpdateWholeRow(r) ==
    /\ Writes(r, "update")
    /\ Existing(r)
    /\ \E x \in Contents : Store(r, req[r].of, [req[r].seen EXCEPT !.content = x])

WriteUpdate(r) ==
    /\ Writes(r, "update")
    /\ Existing(r)
    /\ \E x \in Contents :
         Store(r, req[r].of,
               [service[req[r].of] EXCEPT
                  !.content = x,
                  !.category = IF req[r].category = None THEN @ ELSE req[r].category])

WriteEdit(r) ==
    /\ Writes(r, "edit")
    /\ Existing(r)
    /\ \E x \in Contents :
         Store(r, req[r].of, [service[req[r].of] EXCEPT !.content = x])

WriteRemove(r) ==
    /\ Writes(r, "remove")
    /\ Existing(r)
    /\ Store(r, req[r].of, [service[req[r].of] EXCEPT !.status = "DELETED"])

(* Mutant of WritePublish: publishedAt without its default. *)
WritePublishUndated(r) ==
    /\ Writes(r, "publish")
    /\ Existing(r)
    /\ Store(r, req[r].of,
             [service[req[r].of] EXCEPT !.status = "PUBLISHED",
                                        !.publishedAt = req[r].seen.publishedAt])

(* publishedAt: existing.publishedAt ?? new Date(), existing being the row read first. *)
WritePublish(r) ==
    /\ Writes(r, "publish")
    /\ Existing(r)
    /\ \E d \in Dates :
         /\ req[r].seen.publishedAt # None => d = req[r].seen.publishedAt
         /\ Store(r, req[r].of,
                  [service[req[r].of] EXCEPT !.status = "PUBLISHED", !.publishedAt = d])

WritePause(r) ==
    /\ Writes(r, "pause")
    /\ Existing(r)
    /\ Store(r, req[r].of, [service[req[r].of] EXCEPT !.status = "PAUSED"])

WriteArchive(r) ==
    /\ Writes(r, "archive")
    /\ Existing(r)
    /\ Store(r, req[r].of, [service[req[r].of] EXCEPT !.status = "ARCHIVED"])

SetProvider(r, profile) ==
    /\ provider' = [provider EXCEPT ![req[r].of] = profile]
    /\ req' = [req EXCEPT ![r].pc = "notify"]
    /\ UNCHANGED <<service, active, bus>>

WriteSubmit(r) ==
    /\ Writes(r, "submit")
    /\ SetProvider(r, [provider[req[r].of] EXCEPT !.verification = "UNDER_REVIEW"])

WriteReview(r) ==
    /\ Writes(r, "review")
    /\ \E v \in {"VERIFIED", "REJECTED", "SUSPENDED"} :
         SetProvider(r, [verification |-> v, active |-> v # "SUSPENDED"])

WriteProfile(r) ==
    /\ Writes(r, "profile")
    /\ \E b \in BOOLEAN : SetProvider(r, [provider[req[r].of] EXCEPT !.active = b])

WriteCategory(r) ==
    /\ Writes(r, "category")
    /\ \E b \in BOOLEAN : active' = [active EXCEPT ![req[r].of] = b]
    /\ req' = [req EXCEPT ![r].pc = "notify"]
    /\ UNCHANGED <<service, provider, bus>>

(***************************************************************************)
(* The audit row, then the event.  When the audit insert fails the handler *)
(* throws after its write was committed, and emits nothing.                *)
(***************************************************************************)
Notify(r) ==
    /\ req[r].pc = "notify"
    /\ bus' = [bus EXCEPT ![r] = EventOf(req[r].op, req[r].of)]
    /\ req' = [req EXCEPT ![r] = Idle]
    /\ UNCHANGED rows

AuditFails(r) ==
    /\ "audit" \in Faults
    /\ req[r].pc = "notify"
    /\ req[r].op \in Audited
    /\ req' = [req EXCEPT ![r] = Idle]
    /\ UNCHANGED <<rows, bus>>

(* The API process stops: requests and events are in its memory alone. *)
Crash ==
    /\ "crash" \in Faults
    /\ req' = [r \in Requests |-> Idle]
    /\ bus' = [r \in Requests |-> None]
    /\ UNCHANGED rows

(* EventEmitter2 hands the event to its listeners. *)
Dispatch(r) ==
    /\ bus[r] # None
    /\ bus' = [bus EXCEPT ![r] = None]
    /\ UNCHANGED <<rows, req>>

Read(r) ==
    \/ \E s \in Services : \E op \in CatalogOps \ {"create"} : ReadService(r, op, s)
    \/ \E s \in Services, c \in Categories : ReadForMove(r, s, c)
    \/ \E p \in Providers, c \in Categories : ReadOwnProvider(r, p, c)
    \/ \E p \in Providers, op \in ProviderOps : ReadProvider(r, op, p)
    \/ \E c \in Categories : ReadCategory(r, c)

Write(r) ==
    \/ WriteCreate(r) \/ WriteUpdate(r) \/ WriteEdit(r) \/ WriteRemove(r)
    \/ WritePublish(r) \/ WritePause(r) \/ WriteArchive(r)
    \/ WriteSubmit(r) \/ WriteReview(r) \/ WriteProfile(r) \/ WriteCategory(r)

Step(r) ==
    \/ Read(r) \/ CheckCategory(r) \/ CheckProvider(r) \/ Refuse(r)
    \/ Write(r) \/ Notify(r) \/ AuditFails(r)

CatalogNext == Crash \/ \E r \in Requests : Step(r)

Next == CatalogNext \/ \E r \in Requests : Dispatch(r)

Spec == Init /\ [][Next]_catalogVars

-----------------------------------------------------------------------------
(* A service that is published has the date of its publication, whatever   *)
(* else was going on when publish (line 307) wrote the two together.       *)
PublishedHasDate ==
    \A s \in Services : service[s].status = "PUBLISHED" => service[s].publishedAt # None

(* A write that was decided on an old read never brings a deleted service  *)
(* back: prisma's update by id fails on a missing row.                     *)
DeletedIsFinal ==
    [][\A s \in Services :
         service[s].status = "DELETED" => service'[s] = service[s]]_catalogVars

(* Changing what a service says is never also a change of its life: an     *)
(* edit that overlaps pause, archive or publish writes only its own fields *)
(* and does not put the status it read back.                               *)
EditsKeepStatus ==
    [][\A s \in Services :
         /\ service[s].status \in Stored
         /\ \/ service'[s].content # service[s].content
            \/ service'[s].category # service[s].category
         => /\ service'[s].status = service[s].status
            /\ service'[s].publishedAt = service[s].publishedAt]_catalogVars

(* A service becomes public only through a publish request that has read   *)
(* it complete and not archived (lines 294 and 305).                       *)
PublishedFromCompleteRead ==
    [][\A s \in Services :
         service[s].status # "PUBLISHED" /\ service'[s].status = "PUBLISHED"
         => \E r \in Requests :
              /\ req[r].op = "publish" /\ req[r].of = s
              /\ req[r].seen.content \in Complete
              /\ req[r].seen.status # "ARCHIVED"]_catalogVars

(* With no other request in between, what a request read is still so when  *)
(* it writes: the row, the category it moves to, the provider it checked.  *)
SeenIsCurrent ==
    \A r \in Requests :
        /\ req[r].pc = "category" => req[r].op \in {"create", "update"}
        /\ req[r].pc = "verify" => req[r].op = "publish"
        /\ req[r].pc \in {"category", "verify", "write"} =>
             /\ req[r].op \in CatalogOps \ {"create"} =>
                  /\ service[req[r].of] = req[r].seen
                  /\ req[r].seen.status \in Stored
                  /\ Admits(req[r].op, req[r].seen.status)
             /\ req[r].op = "submit" =>
                  provider[req[r].of].verification \notin {"UNDER_REVIEW", "VERIFIED"}
        /\ req[r].pc = "write" =>
             /\ req[r].op \in {"create", "update"} /\ req[r].category # None =>
                  active[req[r].category]
             /\ req[r].op = "publish" =>
                  /\ req[r].seen.content \in Complete
                  /\ provider[Owner[req[r].of]].verification = "VERIFIED"

(* One request at a time, the handlers deliver the promised life cycle.    *)
Lifecycle == INSTANCE ServiceLifecycle
ImplementsLifecycle == Lifecycle!Spec

(* "Archived services cannot be published" (line 295), nor edited (line    *)
(* 185): from ARCHIVED a service can only be deleted.                      *)
ArchivedIsFinal ==
    [][\A s \in Services :
         service[s].status = "ARCHIVED"
         => service'[s].status = "DELETED" \/ service'[s] = service[s]]_catalogVars

(* "Publish must be paused or archived before deleting" (line 267).        *)
PublishedNeverDeleted ==
    [][\A s \in Services :
         service[s].status = "PUBLISHED" => service'[s].status # "DELETED"]_catalogVars

(* "Only verified providers may publish services" (line 302).              *)
OnlyVerifiedPublish ==
    [][\A s \in Services :
         service[s].status # "PUBLISHED" /\ service'[s].status = "PUBLISHED"
         => provider[Owner[s]].verification = "VERIFIED"]_catalogVars
=============================================================================
