---------------------------- MODULE SearchSync ----------------------------
(***************************************************************************)
(* How the Meilisearch indexes follow the catalogue: ServiceCatalog        *)
(* composed with SearchSyncListener, the two indexers and the admin's full *)
(* reindex.                                                                *)
(*                                                                         *)
(* A handler emits its event after its write (ServiceCatalog!Notify); the  *)
(* listener handles it in a task of its own, which reads the row again and *)
(* then calls Meilisearch.  Meilisearch queues the calls of all clients and *)
(* applies them in order, so an index is modelled by what it holds once it *)
(* has applied the calls accepted so far.                                  *)
(*                                                                         *)
(*   task: [provider --> putProvider -->] [list -->] read <--> put --> idle *)
(*   rebuild: idle --read--> clear --> add --> idle, one for each index    *)
(*                                                                         *)
(* A slot of Requests stands for a request together with the task that its *)
(* event starts: it takes the next request when that task is over.  What   *)
(* runs at the same time is therefore bounded by Requests, and with one    *)
(* slot each change is carried to the index before the next is made.       *)
(***************************************************************************)
EXTENDS ServiceCatalog

CONSTANTS
    Outages,    \* the calls of Meilisearch that may fail: a subset of {"put", "rebuild"}
    Rebuilt     \* the indexes an administrator rebuilds while requests run (bound)

Indexes == {"services", "providers"}

ASSUME SearchAssumption ==
    /\ Outages \subseteq {"put", "rebuild"}
    /\ Rebuilt \subseteq Indexes

VARIABLES
    found,          \* found[s]: the document of service s in the services index, or None
    providerFound,  \* providerFound[p]: the document of provider p, or None
    task,           \* task[r]: the listener task started by the event of slot r
    rebuild         \* rebuild[i]: the reindexAll of index i and its snapshot

searchVars == <<found, providerFound, task, rebuild>>
vars == <<catalogVars, searchVars>>

(***************************************************************************)
(* The documents: what toDocument copies of a row and of the rows it joins. *)
(***************************************************************************)
Document == [content : Contents, category : Categories, verification : Verification]

ServiceDocument(s) ==
    [content |-> service[s].content, category |-> service[s].category,
     verification |-> provider[Owner[s]].verification]

(* Mutant of IsIndexable: the status of the service is not looked at. *)
IsIndexableAnyStatus(s) ==
    /\ service[s].status \in Stored
    /\ provider[Owner[s]].active
    /\ active[service[s].category]

IsIndexable(s) ==
    /\ service[s].status = "PUBLISHED"
    /\ provider[Owner[s]].active
    /\ active[service[s].category]

(* What upsertById makes of the row it has read: a document to add, or None to remove it. *)
Indexed(s) == IF IsIndexable(s) THEN ServiceDocument(s) ELSE None

(* cities, states and countries come from the locations of the published services. *)
ProviderDocument == [verification : Verification, places : SUBSET Contents]

ProviderIndexed(p) ==
    IF provider[p].active
    THEN [verification |-> provider[p].verification,
          places |-> {service[s].content : s \in {t \in Services :
                        Owner[t] = p /\ service[t].status = "PUBLISHED"}}]
    ELSE None

(***************************************************************************)
(* A task: todo are the services it still has to refresh, at is the one it *)
(* is refreshing and doc what it has read of it.                           *)
(***************************************************************************)
NoTask == [pc |-> "idle", of |-> None, todo |-> {}, at |-> None, doc |-> None]

Task ==
    {NoTask}
    \cup [pc : {"provider"}, of : Providers, todo : {{}}, at : {None}, doc : {None}]
    \cup [pc : {"putProvider"}, of : Providers, todo : {{}}, at : {None},
          doc : ProviderDocument \cup {None}]
    \cup [pc : {"listProvider"}, of : Providers, todo : {{}}, at : {None}, doc : {None}]
    \cup [pc : {"listCategory"}, of : Categories, todo : {{}}, at : {None}, doc : {None}]
    \cup [pc : {"read"}, of : {None}, todo : SUBSET Services, at : {None}, doc : {None}]
    \cup [pc : {"put"}, of : {None}, todo : SUBSET Services, at : Services,
          doc : Document \cup {None}]

(* Mutant of Remaining: the loop over the services is left out. *)
RemainingNone(todo) == NoTask

(* The task goes on with the services still to refresh, or is over. *)
Remaining(todo) == IF todo = {} THEN NoTask ELSE [NoTask EXCEPT !.pc = "read", !.todo = todo]

(* A rebuild of index i and the documents of its snapshot. *)
NoRebuild == [pc |-> "idle", docs |-> None]

Snapshot(i) ==
    IF i = "services" THEN [Services -> Document \cup {None}]
    ELSE [Providers -> ProviderDocument \cup {None}]

Rebuild(i) == {NoRebuild} \cup [pc : {"clear", "add"}, docs : Snapshot(i)]

SearchTypeOK ==
    /\ TypeOK
    /\ found \in [Services -> Document \cup {None}]
    /\ providerFound \in [Providers -> ProviderDocument \cup {None}]
    /\ task \in [Requests -> Task]
    /\ rebuild \in [Indexes -> UNION {Rebuild(i) : i \in Indexes}]
    /\ \A i \in Indexes : rebuild[i] \in Rebuild(i)

SearchInit ==
    /\ Init
    /\ found = [s \in Services |-> None]
    /\ providerFound = [p \in Providers |-> None]
    /\ task = [r \in Requests |-> NoTask]
    /\ rebuild = [i \in Indexes |-> NoRebuild]

(***************************************************************************)
(* The listener.  Each emitted event starts a task; tasks run side by side. *)
(***************************************************************************)
FirstStep(e) ==
    CASE e.kind = "SERVICE_UPSERT"   -> [NoTask EXCEPT !.pc = "read", !.todo = {e.of}]
      [] e.kind = "SERVICE_REMOVE"   -> [NoTask EXCEPT !.pc = "put", !.at = e.of]
      [] e.kind = "PROVIDER_UPSERT"  -> [NoTask EXCEPT !.pc = "provider", !.of = e.of]
      [] e.kind = "CATEGORY_UPDATED" -> [NoTask EXCEPT !.pc = "listCategory", !.of = e.of]

StartTask(r) ==
    /\ Dispatch(r)
    /\ task' = [task EXCEPT ![r] = FirstStep(bus[r])]
    /\ UNCHANGED <<found, providerFound, rebuild>>

TaskBecomes(r, t) ==
    /\ task' = [task EXCEPT ![r] = t]
    /\ UNCHANGED <<catalogVars, rebuild>>

(* ProviderSearchIndexer.upsertById, the first half of handleProviderUpsert. *)
ReadProviderDocument(r) ==
    /\ task[r].pc = "provider"
    /\ TaskBecomes(r, [task[r] EXCEPT !.pc = "putProvider", !.doc = ProviderIndexed(task[r].of)])
    /\ UNCHANGED <<found, providerFound>>

PutProvider(r) ==
    /\ task[r].pc = "putProvider"
    /\ providerFound' = [providerFound EXCEPT ![task[r].of] = task[r].doc]
    /\ TaskBecomes(r, [task[r] EXCEPT !.pc = "listProvider", !.doc = None])
    /\ UNCHANGED found

(* reindexByProviderId and reindexByCategoryId first list the services. *)
ListServices(r) ==
    /\ \/ /\ task[r].pc = "listProvider"
          /\ LET listed == {s \in Services :
                              service[s].status \in Stored /\ Owner[s] = task[r].of}
             IN  TaskBecomes(r, Remaining(listed))
       \/ /\ task[r].pc = "listCategory"
          /\ LET listed == {s \in Services :
                              service[s].status \in Stored /\ service[s].category = task[r].of}
             IN  TaskBecomes(r, Remaining(listed))
    /\ UNCHANGED <<found, providerFound>>

(* ServiceSearchIndexer.upsertById: read the row, then add or delete its document. *)
ReadDocument(r) ==
    /\ task[r].pc = "read"
    /\ \E s \in task[r].todo :
         TaskBecomes(r, [task[r] EXCEPT !.pc = "put", !.at = s, !.doc = Indexed(s),
                                        !.todo = @ \ {s}])
    /\ UNCHANGED <<found, providerFound>>

PutDocument(r) ==
    /\ task[r].pc = "put"
    /\ found' = [found EXCEPT ![task[r].at] = task[r].doc]
    /\ TaskBecomes(r, Remaining(task[r].todo))
    /\ UNCHANGED providerFound

(***************************************************************************)
(* A failed call: remove catches the error and its caller goes on; a failed *)
(* addDocuments is caught by the listener, which drops the rest.           *)
(***************************************************************************)
PutFails(r) ==
    /\ "put" \in Outages
    /\ \/ /\ task[r].pc \in {"put", "putProvider"}
          /\ task[r].doc # None
          /\ TaskBecomes(r, NoTask)
       \/ /\ task[r].pc = "put" /\ task[r].doc = None
          /\ TaskBecomes(r, Remaining(task[r].todo))
       \/ /\ task[r].pc = "putProvider" /\ task[r].doc = None
          /\ TaskBecomes(r, [task[r] EXCEPT !.pc = "listProvider"])
    /\ UNCHANGED <<found, providerFound>>

(***************************************************************************)
(* SearchAdminService.reindexAll rebuilds the two indexes side by side.    *)
(***************************************************************************)
RebuildBecomes(i, x) ==
    /\ rebuild' = [rebuild EXCEPT ![i] = x]
    /\ UNCHANGED <<catalogVars, task>>

ReadSnapshot(i) ==
    /\ i \in Rebuilt
    /\ rebuild[i] = NoRebuild
    /\ RebuildBecomes(i, [pc |-> "clear",
                          docs |-> IF i = "services" THEN [s \in Services |-> Indexed(s)]
                                   ELSE [p \in Providers |-> ProviderIndexed(p)]])
    /\ UNCHANGED <<found, providerFound>>

(* Mutant of ClearIndex: documents that no longer belong there stay. *)
ClearIndexNot(i) ==
    /\ rebuild[i].pc = "clear"
    /\ RebuildBecomes(i, [rebuild[i] EXCEPT !.pc = "add"])
    /\ UNCHANGED <<found, providerFound>>

ClearIndex(i) ==
    /\ rebuild[i].pc = "clear"
    /\ \/ /\ i = "services"
          /\ found' = [s \in Services |-> None]
          /\ UNCHANGED providerFound
       \/ /\ i = "providers"
          /\ providerFound' = [p \in Providers |-> None]
          /\ UNCHANGED found
    /\ RebuildBecomes(i, [rebuild[i] EXCEPT !.pc = "add"])

(* addDocuments adds or replaces; it leaves other documents where they are. *)
Merged(old, docs) == [k \in DOMAIN old |-> IF docs[k] = None THEN old[k] ELSE docs[k]]

AddSnapshot(i) ==
    /\ rebuild[i].pc = "add"
    /\ \/ /\ i = "services"
          /\ found' = Merged(found, rebuild[i].docs)
          /\ UNCHANGED providerFound
       \/ /\ i = "providers"
          /\ providerFound' = Merged(providerFound, rebuild[i].docs)
          /\ UNCHANGED found
    /\ RebuildBecomes(i, NoRebuild)

RebuildFails(i) ==
    /\ "rebuild" \in Outages
    /\ rebuild[i] # NoRebuild
    /\ RebuildBecomes(i, NoRebuild)
    /\ UNCHANGED <<found, providerFound>>

(* Tasks and rebuilds die with the process; the indexes do not. *)
CrashSearch ==
    /\ Crash
    /\ task' = [r \in Requests |-> NoTask]
    /\ rebuild' = [i \in Indexes |-> NoRebuild]
    /\ UNCHANGED <<found, providerFound>>

TaskStep(r) ==
    \/ ReadProviderDocument(r) \/ PutProvider(r) \/ ListServices(r)
    \/ ReadDocument(r) \/ PutDocument(r)

RebuildStep(i) == ClearIndex(i) \/ AddSnapshot(i)

(* A slot takes a request when the task of the last one is over. *)
RequestStep(r) ==
    /\ Step(r)
    /\ task[r] = NoTask
    /\ UNCHANGED searchVars

SearchNext ==
    \/ \E r \in Requests : RequestStep(r) \/ StartTask(r) \/ TaskStep(r) \/ PutFails(r)
    \/ \E i \in Indexes : ReadSnapshot(i) \/ RebuildStep(i) \/ RebuildFails(i)
    \/ CrashSearch

SearchSpec == SearchInit /\ [][SearchNext]_vars

-----------------------------------------------------------------------------
(* Nothing is going on. *)
Quiet ==
    /\ \A r \in Requests : req[r] = Idle /\ bus[r] = None /\ task[r] = NoTask
    /\ \A i \in Indexes : rebuild[i] = NoRebuild

(* A service that was never published is never found by a search, however  *)
(* requests, listener tasks, rebuilds and failures interleave: a document  *)
(* is only ever made from a row that isIndexable accepted (lines 132-138). *)
(* publishedAt of a deleted row is remembered here as a history.           *)
NeverPublishedNeverFound ==
    \A s \in Services : found[s] # None => service[s].publishedAt # None

(* The services index says what the rows say whenever nothing is going on. *)
QuietIndexExact ==
    Quiet => \A s \in Services : found[s] = Indexed(s)

(* "Index only PUBLISHED services with active providers and categories"    *)
(* (docs/architecture.md, line 42), once everything in flight is over.     *)
QuietIndexOnlyIndexable ==
    Quiet => \A s \in Services : found[s] # None => IsIndexable(s)

(* "Sync on ... provider profile/verification changes" (line 43): a service *)
(* is not shown with a verification status its provider no longer has.     *)
QuietVerificationCurrent ==
    Quiet => \A s \in Services :
                found[s] # None => found[s].verification = provider[Owner[s]].verification

(* The providers index is derived from the database (line 40): the places  *)
(* of a provider are those of its published services.                      *)
QuietPlacesCurrent ==
    Quiet => \A p \in Providers :
                providerFound[p] # None => providerFound[p] = ProviderIndexed(p)
=============================================================================
