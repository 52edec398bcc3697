------------------------- MODULE SearchSync_proofs -------------------------
(***************************************************************************)
(* Proofs about ServiceCatalog, for any number of concurrent requests, and *)
(* about SearchSync, for any number of tasks and failures beside them.     *)
(***************************************************************************)
EXTENDS SearchOrderly, CatalogAlone, TLAPS

(***************************************************************************)
(* The typing argument goes action by action.  Types of the pieces first.  *)
(***************************************************************************)
LEMMA InitTyped == Init => TypeOK
BY CatalogAssumption DEF Init, TypeOK, Row, Status, Stored, Profile, Verification, Request

LEMMA ReadTyped ==
    ASSUME TypeOK, NEW r \in Requests, Read(r)
    PROVE  TypeOK'
<1>1. ASSUME NEW s \in Services, NEW op \in CatalogOps \ {"create"}, ReadService(r, op, s)
      PROVE  TypeOK'
  BY <1>1 DEF TypeOK, ReadService, Accept, Request, Running, rows, CatalogOps
<1>2. ASSUME NEW s \in Services, NEW c \in Categories, ReadForMove(r, s, c)
      PROVE  TypeOK'
  BY <1>2 DEF TypeOK, ReadForMove, Accept, Request, Running, rows, CatalogOps
<1>3. ASSUME NEW p \in Providers, NEW c \in Categories, ReadOwnProvider(r, p, c)
      PROVE  TypeOK'
  BY <1>3 DEF TypeOK, ReadOwnProvider, Accept, Request, Running, rows
<1>4. ASSUME NEW p \in Providers, NEW op \in ProviderOps, ReadProvider(r, op, p)
      PROVE  TypeOK'
  BY <1>4 DEF TypeOK, ReadProvider, Accept, Request, Running, rows, ProviderOps
<1>5. ASSUME NEW c \in Categories, ReadCategory(r, c)
      PROVE  TypeOK'
  BY <1>5 DEF TypeOK, ReadCategory, Accept, Request, Running, rows
<1> QED
  BY <1>1, <1>2, <1>3, <1>4, <1>5 DEF Read

(* The handler of an operation that names a service holds a service id. *)
LEMMA SubjectTyped ==
    ASSUME TypeOK, NEW r \in Requests, req[r].pc \in Running
    PROVE  /\ req[r].op \in CatalogOps \ {"create"} =>
                /\ req[r].of \in Services
                /\ req[r].seen \in Row
                /\ req[r].category \in Categories \cup {None}
           /\ req[r].op = "create" => req[r].of \in Providers /\ req[r].category \in Categories
           /\ req[r].op \in ProviderOps => req[r].of \in Providers
           /\ req[r].op = "category" => req[r].of \in Categories
BY DEF TypeOK, Request, Running, Idle, CatalogOps, ProviderOps

LEMMA PcTyped ==
    ASSUME TypeOK, NEW r \in Requests, NEW pc \in Running, req[r].pc \in Running,
           req' = [req EXCEPT ![r].pc = pc]
    PROVE  req' \in [Requests -> Request]
<1>1. [req[r] EXCEPT !.pc = pc] \in Request
  BY DEF TypeOK, Request, Running, Idle
<1> QED
  BY <1>1 DEF TypeOK

LEMMA StoreTyped ==
    ASSUME TypeOK, NEW r \in Requests, NEW s \in Services, NEW row \in Row,
           req[r].pc \in Running, Store(r, s, row)
    PROVE  TypeOK'
<1>1. req' \in [Requests -> Request]
  BY PcTyped DEF Store, Running
<1> QED
  BY <1>1 DEF TypeOK, Store

LEMMA ProviderTyped ==
    ASSUME TypeOK, NEW r \in Requests, NEW profile \in Profile,
           req[r].pc \in Running, SetProvider(r, profile)
    PROVE  TypeOK'
<1>1. req' \in [Requests -> Request]
  BY PcTyped DEF SetProvider, Running
<1> QED
  BY <1>1 DEF TypeOK, SetProvider

LEMMA WriteTyped ==
    ASSUME TypeOK, NEW r \in Requests, Write(r)
    PROVE  TypeOK'
<1> DEFINE of == req[r].of
<1>0. req[r].pc \in Running
  BY DEF Write, WriteCreate, WriteUpdate, WriteEdit, WriteRemove, WritePublish, WritePause,
         WriteArchive, WriteSubmit, WriteReview, WriteProfile, WriteCategory, Writes, Running
<1>1. CASE WriteCreate(r)
  <2>1. PICK s \in Services, x \in Contents :
            Store(r, s, [status |-> "DRAFT", publishedAt |-> None,
                         content |-> x, category |-> req[r].category])
    BY <1>1 DEF WriteCreate
  <2>2. req[r].category \in Categories
    BY <1>0, <1>1, SubjectTyped DEF WriteCreate, Writes
  <2> QED
    BY <1>0, <2>1, <2>2, StoreTyped DEF Row, Status, Stored
<1>2. CASE WriteUpdate(r)
  <2>1. of \in Services /\ req[r].category \in Categories \cup {None}
    BY <1>0, <1>2, SubjectTyped DEF WriteUpdate, Writes, CatalogOps
  <2>2. service[of] \in Row
    BY <2>1 DEF TypeOK
  <2>3. PICK x \in Contents :
            Store(r, of, [service[of] EXCEPT
                            !.content = x,
                            !.category = IF req[r].category = None THEN @
                                         ELSE req[r].category])
    BY <1>2 DEF WriteUpdate
  <2> QED
    BY <1>0, <2>1, <2>2, <2>3, StoreTyped DEF Row
<1>3. CASE WriteEdit(r)
  <2>1. of \in Services
    BY <1>0, <1>3, SubjectTyped DEF WriteEdit, Writes, CatalogOps
  <2> QED
    BY <1>0, <1>3, <2>1, StoreTyped DEF WriteEdit, TypeOK, Row
<1>4. CASE WriteRemove(r)
  <2>1. of \in Services
    BY <1>0, <1>4, SubjectTyped DEF WriteRemove, Writes, CatalogOps
  <2> QED
    BY <1>0, <1>4, <2>1, StoreTyped DEF WriteRemove, TypeOK, Row, Status
<1>5. CASE WritePublish(r)
  <2>1. of \in Services
    BY <1>0, <1>5, SubjectTyped DEF WritePublish, Writes, CatalogOps
  <2> QED
    BY <1>0, <1>5, <2>1, StoreTyped DEF WritePublish, TypeOK, Row, Status, Stored
<1>6. CASE WritePause(r)
  <2>1. of \in Services
    BY <1>0, <1>6, SubjectTyped DEF WritePause, Writes, CatalogOps
  <2> QED
    BY <1>0, <1>6, <2>1, StoreTyped DEF WritePause, TypeOK, Row, Status, Stored
<1>7. CASE WriteArchive(r)
  <2>1. of \in Services
    BY <1>0, <1>7, SubjectTyped DEF WriteArchive, Writes, CatalogOps
  <2> QED
    BY <1>0, <1>7, <2>1, StoreTyped DEF WriteArchive, TypeOK, Row, Status, Stored
<1>8. CASE WriteSubmit(r)
  <2>1. of \in Providers
    BY <1>0, <1>8, SubjectTyped DEF WriteSubmit, Writes, ProviderOps
  <2> QED
    BY <1>0, <1>8, <2>1, ProviderTyped DEF WriteSubmit, TypeOK, Profile, Verification
<1>9. CASE WriteReview(r)
  BY <1>0, <1>9, ProviderTyped DEF WriteReview, Profile, Verification
<1>10. CASE WriteProfile(r)
  <2>1. of \in Providers
    BY <1>0, <1>10, SubjectTyped DEF WriteProfile, Writes, ProviderOps
  <2> QED
    BY <1>0, <1>10, <2>1, ProviderTyped DEF WriteProfile, TypeOK, Profile
<1>11. CASE WriteCategory(r)
  <2>1. req' \in [Requests -> Request]
    BY <1>0, <1>11, PcTyped DEF WriteCategory, Running
  <2> QED
    BY <1>11, <2>1 DEF WriteCategory, TypeOK
<1> QED
  BY <1>1, <1>2, <1>3, <1>4, <1>5, <1>6, <1>7, <1>8, <1>9, <1>10, <1>11 DEF Write

LEMMA NotifyTyped ==
    ASSUME TypeOK, NEW r \in Requests, Notify(r)
    PROVE  TypeOK'
<1>1. EventOf(req[r].op, req[r].of) \in Event \cup {None}
  BY SubjectTyped
  DEF Notify, EventOf, Event, Running, Upserts, Removes, CatalogOps, ProviderOps
<1> QED
  BY <1>1 DEF Notify, TypeOK, Request, rows

LEMMA NextTyped == TypeOK /\ [Next]_catalogVars => TypeOK'
<1> SUFFICES ASSUME TypeOK, [Next]_catalogVars
             PROVE  TypeOK'
  OBVIOUS
<1>1. ASSUME NEW r \in Requests, Step(r)
      PROVE  TypeOK'
  <2>1. CASE CheckCategory(r) \/ CheckProvider(r)
    BY <2>1, PcTyped DEF CheckCategory, CheckProvider, Proceed, Running, rows, TypeOK
  <2>2. CASE Refuse(r) \/ AuditFails(r)
    BY <2>2 DEF Refuse, AuditFails, TypeOK, Request, rows
  <2> QED
    BY <1>1, <2>1, <2>2, ReadTyped, WriteTyped, NotifyTyped DEF Step
<1>2. CASE Crash
  BY <1>2 DEF Crash, TypeOK, Request, rows
<1>3. ASSUME NEW r \in Requests, Dispatch(r)
      PROVE  TypeOK'
  BY <1>3 DEF Dispatch, TypeOK, rows
<1>4. CASE UNCHANGED catalogVars
  BY <1>4 DEF catalogVars, TypeOK
<1> QED
  BY <1>1, <1>2, <1>3, <1>4 DEF Next, CatalogNext

(* Every reachable state is well typed, however many requests run at once. *)
THEOREM TypeCorrect == Spec => []TypeOK
BY InitTyped, NextTyped, PTL DEF Spec

(***************************************************************************)
(* What a step can do to the row of one service, in one formula: nothing,  *)
(* insert it, or change a row that is stored, either in what it says or in *)
(* its status.  The three properties below are read off it.                *)
(***************************************************************************)
RowStep(s) ==
    \/ service'[s] = service[s]
    \/ /\ service[s].status = "UNBORN"
       /\ service'[s].status = "DRAFT"
    \/ /\ service[s].status \in Stored
       /\ service'[s].status = service[s].status
       /\ service'[s].publishedAt = service[s].publishedAt
    \/ /\ service[s].status \in Stored
       /\ service'[s].content = service[s].content
       /\ service'[s].category = service[s].category
       /\ \/ service'[s].status \in {"PAUSED", "ARCHIVED", "DELETED"}
             /\ service'[s].publishedAt = service[s].publishedAt
          \/ service'[s].status = "PUBLISHED" /\ service'[s].publishedAt \in Dates

LEMMA RowSteps ==
    ASSUME TypeOK, [Next]_catalogVars, NEW s \in Services
    PROVE  RowStep(s)
<1>0. service[s] \in Row
  BY DEF TypeOK
<1>1. ASSUME NEW r \in Requests, Write(r)
      PROVE  RowStep(s)
  <2> DEFINE of == req[r].of
  <2>1. CASE WriteCreate(r)
    <3>1. PICK t \in Services, x \in Contents :
            /\ service[t].status = "UNBORN"
            /\ Store(r, t, [status |-> "DRAFT", publishedAt |-> None,
                            content |-> x, category |-> req[r].category])
      BY <2>1 DEF WriteCreate
    <3> QED
      BY <3>1 DEF Store, RowStep, TypeOK
  <2>2. CASE WriteUpdate(r)
    BY <1>0, <2>2 DEF WriteUpdate, Existing, Store, RowStep, TypeOK, Row
  <2>3. CASE WriteEdit(r)
    BY <1>0, <2>3 DEF WriteEdit, Existing, Store, RowStep, TypeOK, Row
  <2>4. CASE WriteRemove(r)
    BY <1>0, <2>4 DEF WriteRemove, Existing, Store, RowStep, TypeOK, Row
  <2>5. CASE WritePublish(r)
    BY <1>0, <2>5 DEF WritePublish, Existing, Store, RowStep, TypeOK, Row
  <2>6. CASE WritePause(r)
    BY <1>0, <2>6 DEF WritePause, Existing, Store, RowStep, TypeOK, Row
  <2>7. CASE WriteArchive(r)
    BY <1>0, <2>7 DEF WriteArchive, Existing, Store, RowStep, TypeOK, Row
  <2>8. CASE WriteSubmit(r) \/ WriteReview(r) \/ WriteProfile(r) \/ WriteCategory(r)
    BY <2>8
    DEF WriteSubmit, WriteReview, WriteProfile, WriteCategory, SetProvider, RowStep
  <2> QED
    BY <1>1, <2>1, <2>2, <2>3, <2>4, <2>5, <2>6, <2>7, <2>8 DEF Write
<1>2. CASE UNCHANGED service
  BY <1>2 DEF RowStep
<1>3. ASSUME NEW r \in Requests, Step(r), ~Write(r)
      PROVE  UNCHANGED service
  BY <1>3
  DEF Step, Read, ReadService, ReadForMove, ReadOwnProvider, ReadProvider, ReadCategory, Accept,
      CheckCategory, CheckProvider, Proceed, Refuse, Notify, AuditFails, rows
<1> QED
  BY <1>1, <1>2, <1>3 DEF Next, CatalogNext, Crash, Dispatch, rows, catalogVars

(* Only WritePublish makes a service published. *)
LEMMA PublishingStep ==
    ASSUME TypeOK, Next, NEW s \in Services,
           service[s].status # "PUBLISHED", service'[s].status = "PUBLISHED"
    PROVE  \E r \in Requests : WritePublish(r) /\ req[r].of = s
<1>0. service[s] \in Row
  BY DEF TypeOK
<1>1. PICK r \in Requests : Write(r)
  BY DEF Next, CatalogNext, Crash, Dispatch, rows, Step, Read, ReadService, ReadForMove,
         ReadOwnProvider, ReadProvider, ReadCategory, Accept, CheckCategory, CheckProvider,
         Proceed, Refuse, Notify, AuditFails
<1>2. ASSUME NEW t, NEW row, Store(r, t, row)
      PROVE  t = s /\ service'[s] = row
  BY <1>2 DEF Store, TypeOK
<1>3. ~WriteCreate(r)
  <2> SUFFICES ASSUME WriteCreate(r) PROVE FALSE
    OBVIOUS
  <2>1. PICK t \in Services, x \in Contents :
          Store(r, t, [status |-> "DRAFT", publishedAt |-> None,
                       content |-> x, category |-> req[r].category])
    BY DEF WriteCreate
  <2> QED
    BY <1>2, <2>1
<1>4. ASSUME NEW row, Store(r, req[r].of, row)
      PROVE  row.status = "PUBLISHED" /\ service[req[r].of] = service[s]
  BY <1>2, <1>4
<1>8. ~WriteUpdate(r)
  <2> SUFFICES ASSUME WriteUpdate(r) PROVE FALSE
    OBVIOUS
  <2> DEFINE c == IF req[r].category = None THEN service[req[r].of].category ELSE req[r].category
  <2>1. PICK x \in Contents :
          Store(r, req[r].of, [service[req[r].of] EXCEPT !.content = x, !.category = c])
    BY DEF WriteUpdate
  <2>2. [service[s] EXCEPT !.content = x, !.category = c].status = service[s].status
    BY <1>0 DEF Row
  <2> QED
    BY <1>4, <2>1, <2>2
<1>9. ~WriteEdit(r)
  <2> SUFFICES ASSUME WriteEdit(r) PROVE FALSE
    OBVIOUS
  <2>1. PICK x \in Contents : Store(r, req[r].of, [service[req[r].of] EXCEPT !.content = x])
    BY DEF WriteEdit
  <2>2. [service[s] EXCEPT !.content = x].status = service[s].status
    BY <1>0 DEF Row
  <2> QED
    BY <1>4, <2>1, <2>2
<1>10. ASSUME NEW x \in {"DELETED", "PAUSED", "ARCHIVED"}
       PROVE  ~Store(r, req[r].of, [service[req[r].of] EXCEPT !.status = x])
  <2> SUFFICES ASSUME Store(r, req[r].of, [service[req[r].of] EXCEPT !.status = x])
               PROVE  FALSE
    OBVIOUS
  <2>1. [service[s] EXCEPT !.status = x].status = x
    BY <1>0 DEF Row
  <2> QED
    BY <1>4, <2>1
<1>11. ~WriteRemove(r) /\ ~WritePause(r) /\ ~WriteArchive(r)
  BY <1>10 DEF WriteRemove, WritePause, WriteArchive
<1>5. ~WriteSubmit(r) /\ ~WriteReview(r) /\ ~WriteProfile(r) /\ ~WriteCategory(r)
  BY DEF WriteSubmit, WriteReview, WriteProfile, WriteCategory, SetProvider
<1>6. WritePublish(r)
  BY <1>1, <1>3, <1>5, <1>8, <1>9, <1>11 DEF Write
<1>7. req[r].of = s
  BY <1>2, <1>6 DEF WritePublish
<1> QED
  BY <1>6, <1>7

(* However requests overlap, a published service has a publication date. *)
THEOREM PublicationDated == Spec => []PublishedHasDate
<1>1. Init => PublishedHasDate
  BY DEF Init, PublishedHasDate
<1>2. TypeOK /\ PublishedHasDate /\ [Next]_catalogVars => PublishedHasDate'
  <2> SUFFICES ASSUME TypeOK, PublishedHasDate, [Next]_catalogVars,
                      NEW s \in Services, service'[s].status = "PUBLISHED"
               PROVE  service'[s].publishedAt # None
    BY DEF PublishedHasDate
  <2>1. RowStep(s)
    BY RowSteps
  <2> QED
    BY <2>1, CatalogAssumption DEF RowStep, PublishedHasDate
<1> QED
  BY <1>1, <1>2, TypeCorrect, PTL DEF Spec

(* However requests overlap, no write brings a deleted service back. *)
THEOREM DeletionFinal == Spec => DeletedIsFinal
<1>1. TypeOK /\ [Next]_catalogVars =>
        [\A s \in Services :
           service[s].status = "DELETED" => service'[s] = service[s]]_catalogVars
  BY RowSteps DEF RowStep, Stored
<1> QED
  BY <1>1, TypeCorrect, PTL DEF Spec, DeletedIsFinal

(* However requests overlap, an edit leaves the life of a service alone. *)
THEOREM EditsHarmless == Spec => EditsKeepStatus
<1>1. TypeOK /\ [Next]_catalogVars =>
        [\A s \in Services :
           /\ service[s].status \in Stored
           /\ \/ service'[s].content # service[s].content
              \/ service'[s].category # service[s].category
           => /\ service'[s].status = service[s].status
              /\ service'[s].publishedAt = service[s].publishedAt]_catalogVars
  BY RowSteps DEF RowStep, Stored
<1> QED
  BY <1>1, TypeCorrect, PTL DEF Spec, EditsKeepStatus

(***************************************************************************)
(* Only what was read complete and not archived is published: the request  *)
(* that publishes carries what it read through its second read.            *)
(***************************************************************************)
PublishesComplete ==
    \A r \in Requests :
        req[r].op = "publish" =>
          /\ req[r].pc # "category"
          /\ req[r].pc \in {"verify", "write"} => req[r].seen.status # "ARCHIVED"
          /\ req[r].pc = "write" => req[r].seen.content \in Complete

(* A publish is accepted on the row that was read, and only then verified. *)
LEMMA PublishRead ==
    ASSUME TypeOK, PublishesComplete, NEW r \in Requests, Read(r)
    PROVE  PublishesComplete'
<1> USE DEF TypeOK, PublishesComplete, Accept
<1>1. ASSUME NEW s \in Services, NEW op \in CatalogOps \ {"create"}, ReadService(r, op, s)
      PROVE  PublishesComplete'
  BY <1>1 DEF ReadService, Admits
<1>2. ASSUME NEW s \in Services, NEW c \in Categories, ReadForMove(r, s, c)
      PROVE  PublishesComplete'
  BY <1>2 DEF ReadForMove
<1>3. ASSUME NEW p \in Providers, NEW c \in Categories, ReadOwnProvider(r, p, c)
      PROVE  PublishesComplete'
  BY <1>3 DEF ReadOwnProvider
<1>4. ASSUME NEW p \in Providers, NEW op \in ProviderOps, ReadProvider(r, op, p)
      PROVE  PublishesComplete'
  BY <1>4 DEF ReadProvider, ProviderOps
<1>5. ASSUME NEW c \in Categories, ReadCategory(r, c)
      PROVE  PublishesComplete'
  BY <1>5 DEF ReadCategory
<1> QED
  BY <1>1, <1>2, <1>3, <1>4, <1>5 DEF Read

LEMMA PublishStep ==
    ASSUME TypeOK, PublishesComplete, NEW r \in Requests, Step(r), ~Read(r)
    PROVE  PublishesComplete'
<1>1. req[r] \in Request /\ req \in [Requests -> Request]
  BY DEF TypeOK
<1>2. CASE CheckCategory(r)
  <2>1. req[r].op # "publish"
    BY <1>2 DEF CheckCategory, PublishesComplete
  <2> QED
    BY <1>1, <1>2 DEF CheckCategory, Proceed, PublishesComplete, Request, Idle
<1>3. CASE CheckProvider(r)
  BY <1>1, <1>3 DEF CheckProvider, Proceed, PublishesComplete, Request, Idle
<1>4. CASE Refuse(r) \/ Notify(r) \/ AuditFails(r)
  BY <1>1, <1>4 DEF Refuse, Notify, AuditFails, PublishesComplete, Idle
<1>5. CASE Write(r)
  <2>1. req' = [req EXCEPT ![r].pc = "notify"]
    BY <1>5
    DEF Write, WriteCreate, WriteUpdate, WriteEdit, WriteRemove, WritePublish, WritePause,
        WriteArchive, WriteSubmit, WriteReview, WriteProfile, WriteCategory, Store, SetProvider
  <2> QED
    BY <1>1, <2>1 DEF PublishesComplete, Request, Idle
<1> QED
  BY <1>2, <1>3, <1>4, <1>5 DEF Step

(* However requests overlap, what is published was read complete. *)
THEOREM PublishedWhatWasRead == Spec => PublishedFromCompleteRead
<1>1. Init => PublishesComplete
  BY CatalogAssumption DEF Init, PublishesComplete, Idle
<1>2. TypeOK /\ PublishesComplete /\ [Next]_catalogVars => PublishesComplete'
  <2>1. ASSUME UNCHANGED req \/ req' = [r \in Requests |-> Idle], PublishesComplete
        PROVE  PublishesComplete'
    BY <2>1 DEF PublishesComplete, Idle
  <2> QED
    BY <2>1, PublishRead, PublishStep
    DEF Next, CatalogNext, Crash, Dispatch, catalogVars
<1>3. TypeOK /\ PublishesComplete /\ [Next]_catalogVars =>
        [\A s \in Services :
           service[s].status # "PUBLISHED" /\ service'[s].status = "PUBLISHED"
           => \E r \in Requests :
                /\ req[r].op = "publish" /\ req[r].of = s
                /\ req[r].seen.content \in Complete
                /\ req[r].seen.status # "ARCHIVED"]_catalogVars
  <2> SUFFICES ASSUME TypeOK, PublishesComplete, Next, NEW s \in Services,
                      service[s].status # "PUBLISHED", service'[s].status = "PUBLISHED"
               PROVE  \E r \in Requests :
                        /\ req[r].op = "publish" /\ req[r].of = s
                        /\ req[r].seen.content \in Complete
                        /\ req[r].seen.status # "ARCHIVED"
    BY DEF catalogVars
  <2>1. PICK r \in Requests : WritePublish(r) /\ req[r].of = s
    BY PublishingStep
  <2> QED
    BY <2>1 DEF WritePublish, Writes, PublishesComplete
<1> QED
  BY <1>1, <1>2, <1>3, TypeCorrect, PTL DEF Spec, PublishedFromCompleteRead

(***************************************************************************)
(* Until two requests overlap the handlers implement ServiceLifecycle.     *)
(* The invariant that carries the proof is SeenIsCurrent: nothing else     *)
(* runs between the read of a request and its write.                       *)
(***************************************************************************)

(* Whoever acts, the others are idle. *)
LEMMA OthersIdle ==
    ASSUME OneAtATime, NEW r \in Requests, req[r].pc # "idle"
    PROVE  \A q \in Requests \ {r} : req[q] = Idle
BY DEF OneAtATime, Idle

LEMMA ReadIsCurrent ==
    ASSUME TypeOK, OneAtATime', NEW r \in Requests, Read(r)
    PROVE  SeenIsCurrent'
<1> USE DEF TypeOK, Accept, rows
<1>0. ASSUME req'[r].pc # "idle"
      PROVE  \A q \in Requests \ {r} : req'[q].pc = "idle"
  BY <1>0 DEF OneAtATime, Idle
<1>1. ASSUME NEW s \in Services, NEW op \in CatalogOps \ {"create"}, ReadService(r, op, s)
      PROVE  SeenIsCurrent'
  BY <1>0, <1>1 DEF ReadService, CatalogOps, SeenIsCurrent
<1>2. ASSUME NEW s \in Services, NEW c \in Categories, ReadForMove(r, s, c)
      PROVE  SeenIsCurrent'
  BY <1>0, <1>2 DEF ReadForMove, SeenIsCurrent
<1>3. ASSUME NEW p \in Providers, NEW c \in Categories, ReadOwnProvider(r, p, c)
      PROVE  SeenIsCurrent'
  BY <1>0, <1>3 DEF ReadOwnProvider, CatalogOps, SeenIsCurrent
<1>4. ASSUME NEW p \in Providers, NEW op \in ProviderOps, ReadProvider(r, op, p)
      PROVE  SeenIsCurrent'
  BY <1>0, <1>4 DEF ReadProvider, CatalogOps, ProviderOps, SeenIsCurrent
<1>5. ASSUME NEW c \in Categories, ReadCategory(r, c)
      PROVE  SeenIsCurrent'
  BY <1>0, <1>5 DEF ReadCategory, CatalogOps, SeenIsCurrent
<1> QED
  BY <1>1, <1>2, <1>3, <1>4, <1>5 DEF Read

LEMMA StaysCurrent ==
    ASSUME TypeOK, SeenIsCurrent, OneAtATime, OneAtATime', [Next]_catalogVars
    PROVE  SeenIsCurrent'
<1>1. ASSUME NEW r \in Requests, CheckCategory(r)
      PROVE  SeenIsCurrent'
  BY <1>1 DEF TypeOK, SeenIsCurrent, CheckCategory, Proceed, rows, Request
<1>2. ASSUME NEW r \in Requests, CheckProvider(r)
      PROVE  SeenIsCurrent'
  BY <1>2 DEF TypeOK, SeenIsCurrent, CheckProvider, Proceed, rows, Request
<1>3. ASSUME \A r \in Requests : req'[r].pc \in {"idle", "notify"}
      PROVE  SeenIsCurrent'
  BY <1>3 DEF SeenIsCurrent
<1>4. ASSUME NEW r \in Requests, Refuse(r) \/ Notify(r) \/ AuditFails(r)
      PROVE  SeenIsCurrent'
  <2>1. req[r].pc # "idle" /\ req' = [req EXCEPT ![r] = Idle]
    BY <1>4 DEF Refuse, Notify, AuditFails
  <2> QED
    BY <1>3, <2>1, OthersIdle DEF Idle, TypeOK
<1>5. CASE Crash
  BY <1>3, <1>5 DEF Crash, Idle
<1>6. ASSUME NEW r \in Requests, Write(r)
      PROVE  SeenIsCurrent'
  <2>1. req[r].pc = "write" /\ req' = [req EXCEPT ![r].pc = "notify"]
    BY <1>6
    DEF Write, WriteCreate, WriteUpdate, WriteEdit, WriteRemove, WritePublish, WritePause,
        WriteArchive, WriteSubmit, WriteReview, WriteProfile, WriteCategory, Store, SetProvider,
        Writes
  <2>2. DOMAIN req[r] = {"pc", "op", "of", "seen", "category"}
    BY DEF TypeOK, Request, Idle
  <2>3. req'[r].pc = "notify"
    BY <2>1, <2>2 DEF TypeOK
  <2>4. \A q \in Requests \ {r} : req'[q] = Idle
    BY <2>1, OthersIdle DEF TypeOK
  <2> QED
    BY <1>3, <2>3, <2>4 DEF Idle
<1>7. CASE UNCHANGED <<rows, req>>
  BY <1>7 DEF SeenIsCurrent, rows
<1> QED
  BY <1>1, <1>2, <1>4, <1>5, <1>6, <1>7, ReadIsCurrent
  DEF Next, CatalogNext, Step, Dispatch, catalogVars, rows

LEMMA WriteIsAtomic ==
    ASSUME TypeOK, SeenIsCurrent, NEW r \in Requests, Write(r)
    PROVE  Lifecycle!Next
<1> DEFINE of == req[r].of
<1>0. /\ req[r].pc = "write"
      /\ req[r].pc \in Running
  BY DEF Write, WriteCreate, WriteUpdate, WriteEdit, WriteRemove, WritePublish, WritePause,
         WriteArchive, WriteSubmit, WriteReview, WriteProfile, WriteCategory, Writes, Running
<1>1. ASSUME req[r].op \in CatalogOps \ {"create"}
      PROVE  /\ of \in Services
             /\ service[of] \in Row
             /\ service[of] = req[r].seen
             /\ service[of].status \in Stored
             /\ Admits(req[r].op, service[of].status)
  BY <1>0, <1>1, SubjectTyped DEF SeenIsCurrent, TypeOK
<1>2. CASE WriteCreate(r)
  <2>1. req[r].category \in Categories /\ active[req[r].category]
    BY <1>0, <1>2, SubjectTyped, CatalogAssumption DEF WriteCreate, Writes, SeenIsCurrent
  <2>2. PICK s \in Services : Lifecycle!Create(s)
    BY <1>2, <2>1 DEF WriteCreate, Store, Lifecycle!Create, Lifecycle!Becomes
  <2> QED
    BY <2>2 DEF Lifecycle!Next
<1>3. CASE WriteUpdate(r)
  <2>1. req[r].op = "update" /\ req[r].category \in Categories \cup {None}
    BY <1>0, <1>3, SubjectTyped DEF WriteUpdate, Writes, CatalogOps
  <2>2. of \in Services /\ service[of] \in Row /\ service[of].status \in Stored \ {"ARCHIVED"}
    BY <1>1, <2>1 DEF CatalogOps, Admits
  <2>3. PICK x \in Contents :
            Store(r, of, [service[of] EXCEPT
                            !.content = x,
                            !.category = IF req[r].category = None THEN @
                                         ELSE req[r].category])
    BY <1>3 DEF WriteUpdate
  <2> DEFINE c == IF req[r].category = None THEN service[of].category ELSE req[r].category
  <2>4. c \in Categories /\ (c = service[of].category \/ active[c])
    BY <1>0, <2>1, <2>2 DEF Row, SeenIsCurrent
  <2>5. Lifecycle!Becomes(of, [service[of] EXCEPT !.content = x, !.category = c])
    BY <2>2, <2>3 DEF Store, Lifecycle!Becomes, Row
  <2>6. Lifecycle!Edit(of)
    BY <2>2, <2>4, <2>5 DEF Lifecycle!Edit, Lifecycle!Stored, Stored
  <2> QED
    BY <2>2, <2>6 DEF Lifecycle!Next
<1>4. CASE WriteEdit(r)
  <2>1. of \in Services /\ service[of] \in Row /\ service[of].status \in Stored \ {"ARCHIVED"}
    BY <1>1, <1>4 DEF WriteEdit, Writes, CatalogOps, Admits
  <2>2. PICK x \in Contents : Store(r, of, [service[of] EXCEPT !.content = x])
    BY <1>4 DEF WriteEdit
  <2>3. Lifecycle!Becomes(of, [service[of] EXCEPT !.content = x,
                                                  !.category = service[of].category])
    BY <2>1, <2>2 DEF Store, Lifecycle!Becomes, Row
  <2>4. service[of].category \in Categories
    BY <2>1 DEF Row
  <2>5. Lifecycle!Edit(of)
    BY <2>1, <2>3, <2>4 DEF Lifecycle!Edit, Lifecycle!Stored, Stored
  <2> QED
    BY <2>1, <2>5 DEF Lifecycle!Next
<1>5. CASE WriteRemove(r)
  <2>1. of \in Services /\ Lifecycle!Delete(of)
    BY <1>1, <1>5
    DEF WriteRemove, Writes, CatalogOps, Admits, Store, Lifecycle!Delete, Lifecycle!Becomes,
        Lifecycle!Stored, Stored
  <2> QED
    BY <2>1 DEF Lifecycle!Next
<1>6. CASE WritePublish(r)
  <2>1. req[r].op = "publish"
    BY <1>6 DEF WritePublish, Writes
  <2>2. /\ service[of].content \in Complete
        /\ provider[Owner[of]].verification = "VERIFIED"
    BY <1>0, <1>1, <2>1 DEF SeenIsCurrent, CatalogOps
  <2>3. of \in Services /\ Lifecycle!Publish(of)
    BY <1>1, <1>6, <2>1, <2>2
    DEF WritePublish, CatalogOps, Admits, Store, Lifecycle!Publish, Lifecycle!Becomes,
        Lifecycle!Stored, Stored
  <2> QED
    BY <2>3 DEF Lifecycle!Next
<1>7. CASE WritePause(r)
  <2>1. of \in Services /\ Lifecycle!Pause(of)
    BY <1>1, <1>7
    DEF WritePause, Writes, CatalogOps, Admits, Store, Lifecycle!Pause, Lifecycle!Becomes
  <2> QED
    BY <2>1 DEF Lifecycle!Next
<1>8. CASE WriteArchive(r)
  <2>1. of \in Services /\ Lifecycle!Archive(of)
    BY <1>1, <1>8
    DEF WriteArchive, Writes, CatalogOps, Store, Lifecycle!Archive, Lifecycle!Becomes,
        Lifecycle!Stored, Stored
  <2> QED
    BY <2>1 DEF Lifecycle!Next
<1>9. CASE WriteSubmit(r)
  <2>1. of \in Providers /\ Lifecycle!Submit(of)
    BY <1>0, <1>9, SubjectTyped
    DEF WriteSubmit, Writes, ProviderOps, SetProvider, SeenIsCurrent, TypeOK, Profile,
        Lifecycle!Submit
  <2> QED
    BY <2>1 DEF Lifecycle!Next
<1>10. CASE WriteReview(r)
  <2>1. of \in Providers /\ Lifecycle!Review(of)
    BY <1>0, <1>10, SubjectTyped
    DEF WriteReview, Writes, ProviderOps, SetProvider, Lifecycle!Review
  <2> QED
    BY <2>1 DEF Lifecycle!Next
<1>11. CASE WriteProfile(r)
  <2>1. of \in Providers /\ Lifecycle!SetProviderActive(of)
    BY <1>0, <1>11, SubjectTyped
    DEF WriteProfile, Writes, ProviderOps, SetProvider, TypeOK, Profile,
        Lifecycle!SetProviderActive
  <2> QED
    BY <2>1 DEF Lifecycle!Next
<1>12. CASE WriteCategory(r)
  <2>1. of \in Categories /\ Lifecycle!SetCategoryActive(of)
    BY <1>0, <1>12, SubjectTyped
    DEF WriteCategory, Writes, Lifecycle!SetCategoryActive
  <2> QED
    BY <2>1 DEF Lifecycle!Next
<1> QED
  BY <1>2, <1>3, <1>4, <1>5, <1>6, <1>7, <1>8, <1>9, <1>10, <1>11, <1>12 DEF Write

(* Until two requests overlap, the catalogue is the atomic life cycle. *)
THEOREM AloneRefines == AloneSpec => AloneImplementsLifecycle
<1> DEFINE AloneInv == alone => OneAtATime /\ SeenIsCurrent
<1>1. AloneInit => Lifecycle!Init /\ AloneInv
  BY DEF AloneInit, Init, Lifecycle!Init, SeenIsCurrent, OneAtATime, Idle, Lifecycle!Row, Row,
         Lifecycle!Status, Status, Lifecycle!Stored, Stored
<1>2. TypeOK /\ AloneInv /\ [Next /\ StaysAlone]_aloneVars => AloneInv'
  <2> SUFFICES ASSUME TypeOK, AloneInv, [Next /\ StaysAlone]_aloneVars, alone'
               PROVE  (OneAtATime /\ SeenIsCurrent)'
    OBVIOUS
  <2>1. alone /\ [Next]_catalogVars
    BY DEF StaysAlone, aloneVars
  <2>2. OneAtATime'
    BY <2>1 DEF StaysAlone, aloneVars, OneAtATime, catalogVars
  <2> QED
    BY <2>1, <2>2, StaysCurrent
<1>3. TypeOK /\ AloneInv /\ [Next /\ StaysAlone]_aloneVars =>
        [alone' => [Lifecycle!Next]_(Lifecycle!vars)]_aloneVars
  <2> SUFFICES ASSUME TypeOK, AloneInv, Next, StaysAlone, alone'
               PROVE  [Lifecycle!Next]_(Lifecycle!vars)
    OBVIOUS
  <2>1. SeenIsCurrent
    BY DEF StaysAlone
  <2>2. ASSUME NEW r \in Requests, Step(r), ~Write(r)
        PROVE  UNCHANGED rows
    BY <2>2
    DEF Step, Read, ReadService, ReadForMove, ReadOwnProvider, ReadProvider, ReadCategory,
        Accept, CheckCategory, CheckProvider, Proceed, Refuse, Notify, AuditFails, rows
  <2> QED
    BY <2>1, <2>2, WriteIsAtomic
    DEF Next, CatalogNext, Crash, Dispatch, rows, Lifecycle!vars
<1>4. AloneSpec => Spec
  <2>1. AloneInit => Init
    BY DEF AloneInit
  <2>2. [Next /\ StaysAlone]_aloneVars => [Next]_catalogVars
    BY DEF aloneVars
  <2> QED
    BY <2>1, <2>2, PTL DEF AloneSpec, Spec
<1> QED
  BY <1>1, <1>2, <1>3, <1>4, TypeCorrect, PTL DEF AloneSpec, AloneImplementsLifecycle

-----------------------------------------------------------------------------
(***************************************************************************)
(* The catalogue composed with the search pipeline.                        *)
(***************************************************************************)
(* To the catalogue, every step of the composition is one of its own. *)
LEMMA CatalogSteps == [SearchNext]_vars => [Next]_catalogVars
<1> SUFFICES ASSUME [SearchNext]_vars PROVE [Next]_catalogVars
  OBVIOUS
<1>1. ASSUME NEW r \in Requests, RequestStep(r) \/ StartTask(r)
      PROVE  Next
  BY <1>1 DEF RequestStep, StartTask, Next, CatalogNext
<1>2. ASSUME NEW r \in Requests, TaskStep(r) \/ PutFails(r)
      PROVE  UNCHANGED catalogVars
  BY <1>2 DEF TaskStep, ReadProviderDocument, PutProvider, ListServices, ReadDocument,
              PutDocument, PutFails, TaskBecomes
<1>3. ASSUME NEW i \in Indexes, ReadSnapshot(i) \/ RebuildStep(i) \/ RebuildFails(i)
      PROVE  UNCHANGED catalogVars
  BY <1>3 DEF ReadSnapshot, RebuildStep, ClearIndex, AddSnapshot, RebuildFails, RebuildBecomes
<1> QED
  BY <1>1, <1>2, <1>3 DEF SearchNext, CrashSearch, Next, CatalogNext, vars

(* The composition implements the catalogue, so its theorems carry over. *)
THEOREM CompositionRefines == SearchSpec => Spec
BY CatalogSteps, PTL DEF SearchSpec, SearchInit, Spec

-----------------------------------------------------------------------------
(* Types of what is read for the indexes. *)
LEMMA DocumentsTyped ==
    ASSUME TypeOK
    PROVE  /\ \A s \in Services : Indexed(s) \in Document \cup {None}
           /\ \A p \in Providers : ProviderIndexed(p) \in ProviderDocument \cup {None}
<1>1. ASSUME NEW s \in Services
      PROVE  Indexed(s) \in Document \cup {None}
  <2>1. service[s] \in Row /\ provider[Owner[s]] \in Profile
    BY CatalogAssumption DEF TypeOK
  <2> QED
    BY <2>1 DEF Indexed, ServiceDocument, Document, Row, Profile
<1>2. ASSUME NEW p \in Providers
      PROVE  ProviderIndexed(p) \in ProviderDocument \cup {None}
  <2>1. provider[p] \in Profile
    BY DEF TypeOK
  <2>2. {service[s].content : s \in {t \in Services :
            Owner[t] = p /\ service[t].status = "PUBLISHED"}} \in SUBSET Contents
    BY DEF TypeOK, Row
  <2> QED
    BY <2>1, <2>2 DEF ProviderIndexed, ProviderDocument, Profile
<1> QED
  BY <1>1, <1>2

LEMMA RemainingTyped ==
    ASSUME NEW todo \in SUBSET Services
    PROVE  Remaining(todo) \in Task
BY DEF Remaining, Task, NoTask

LEMMA StartTyped ==
    ASSUME NEW e \in Event
    PROVE  FirstStep(e) \in Task
<1>1. CASE e.kind = "SERVICE_UPSERT"
  BY <1>1 DEF Event, FirstStep, Task, NoTask
<1>2. CASE e.kind = "SERVICE_REMOVE"
  BY <1>2 DEF Event, FirstStep, Task, NoTask
<1>3. CASE e.kind = "PROVIDER_UPSERT"
  BY <1>3 DEF Event, FirstStep, Task, NoTask
<1>4. CASE e.kind = "CATEGORY_UPDATED"
  BY <1>4 DEF Event, FirstStep, Task, NoTask
<1> QED
  BY <1>1, <1>2, <1>3, <1>4 DEF Event

LEMMA TaskFields ==
    ASSUME NEW t \in Task
    PROVE  /\ t.pc \in {"provider", "putProvider", "listProvider"} => t.of \in Providers
           /\ t.pc = "putProvider" => t.doc \in ProviderDocument \cup {None}
           /\ t.pc = "read" => t.todo \in SUBSET Services
           /\ t.pc = "put" => /\ t.todo \in SUBSET Services
                              /\ t.at \in Services
                              /\ t.doc \in Document \cup {None}
BY DEF Task, NoTask

LEMMA TaskStepTyped ==
    ASSUME SearchTypeOK, NEW r \in Requests, TaskStep(r) \/ PutFails(r), TypeOK'
    PROVE  SearchTypeOK'
<1> DEFINE t == task[r]
<1> USE DEF SearchTypeOK, TaskBecomes
<1>0. t \in Task
  OBVIOUS
<1>1. CASE ReadProviderDocument(r)
  <2>1. t \in [pc : {"provider"}, of : Providers, todo : {{}}, at : {None}, doc : {None}]
    BY <1>0, <1>1 DEF ReadProviderDocument, Task, NoTask
  <2>2. ProviderIndexed(t.of) \in ProviderDocument \cup {None}
    BY <2>1, DocumentsTyped
  <2>3. [t EXCEPT !.pc = "putProvider", !.doc = ProviderIndexed(t.of)]
          \in [pc : {"putProvider"}, of : Providers, todo : {{}}, at : {None},
               doc : ProviderDocument \cup {None}]
    BY <2>1, <2>2
  <2>4. [t EXCEPT !.pc = "putProvider", !.doc = ProviderIndexed(t.of)] \in Task
    BY <2>3 DEF Task
  <2> QED
    BY <1>1, <2>4 DEF ReadProviderDocument
<1>2. CASE PutProvider(r)
  <2>0. t \in [pc : {"putProvider"}, of : Providers, todo : {{}}, at : {None},
                doc : ProviderDocument \cup {None}]
    BY <1>0, <1>2 DEF PutProvider, Task, NoTask
  <2>1. [t EXCEPT !.pc = "listProvider", !.doc = None] \in Task
    BY <2>0 DEF Task
  <2> QED
    BY <1>0, <1>2, <2>1, TaskFields DEF PutProvider
<1>3. CASE ListServices(r)
  BY <1>3, RemainingTyped DEF ListServices
<1>4. CASE ReadDocument(r)
  <2>1. PICK s \in t.todo :
          TaskBecomes(r, [t EXCEPT !.pc = "put", !.at = s, !.doc = Indexed(s),
                                   !.todo = t.todo \ {s}])
    BY <1>4 DEF ReadDocument
  <2>0. t \in [pc : {"read"}, of : {None}, todo : SUBSET Services, at : {None}, doc : {None}]
    BY <1>0, <1>4 DEF ReadDocument, Task, NoTask
  <2> DEFINE u == [t EXCEPT !.pc = "put", !.at = s, !.doc = Indexed(s), !.todo = t.todo \ {s}]
  <2>a. s \in Services /\ t.todo \ {s} \in SUBSET Services
    BY <2>0
  <2>b. u \in [pc : {"put"}, of : {None}, todo : SUBSET Services, at : Services,
              doc : Document \cup {None}]
    BY <2>0, <2>a, DocumentsTyped
  <2>2. u \in Task
    BY <2>b DEF Task
  <2> QED
    BY <1>4, <2>1, <2>2 DEF ReadDocument
<1>5. CASE PutDocument(r)
  BY <1>0, <1>5, TaskFields, RemainingTyped DEF PutDocument
<1>6. CASE PutFails(r)
  <2>1. NoTask \in Task
    BY DEF Task
  <2>2. CASE t.pc = "putProvider" /\ TaskBecomes(r, [t EXCEPT !.pc = "listProvider"]) /\ t.doc = None
    <3>1. [t EXCEPT !.pc = "listProvider"] \in Task
      BY <1>0, <2>2 DEF Task, NoTask
    <3> QED
      BY <1>6, <2>2, <3>1 DEF PutFails
  <2>3. CASE t.pc = "put" /\ TaskBecomes(r, Remaining(t.todo))
    BY <1>0, <1>6, <2>3, TaskFields, RemainingTyped DEF PutFails
  <2> QED
    BY <1>6, <2>1, <2>2, <2>3 DEF PutFails
<1> QED
  BY <1>1, <1>2, <1>3, <1>4, <1>5, <1>6 DEF TaskStep

LEMMA RebuildStepTyped ==
    ASSUME SearchTypeOK, TypeOK', NEW i \in Indexes,
           ReadSnapshot(i) \/ RebuildStep(i) \/ RebuildFails(i)
    PROVE  SearchTypeOK'
<1> USE DEF SearchTypeOK
<1>1. ASSUME NEW x \in Rebuild(i), RebuildBecomes(i, x)
      PROVE  /\ rebuild' \in [Indexes -> UNION {Rebuild(j) : j \in Indexes}]
             /\ \A j \in Indexes : rebuild'[j] \in Rebuild(j)
             /\ UNCHANGED task
  BY <1>1 DEF RebuildBecomes
<1>2. CASE ReadSnapshot(i)
  <2> DEFINE docs == IF i = "services" THEN [s \in Services |-> Indexed(s)]
                     ELSE [p \in Providers |-> ProviderIndexed(p)]
  <2>1. docs \in Snapshot(i)
    BY DocumentsTyped DEF Snapshot
  <2>2. [pc |-> "clear", docs |-> docs] \in Rebuild(i)
    BY <2>1 DEF Rebuild
  <2> QED
    BY <1>1, <1>2, <2>2 DEF ReadSnapshot
<1>3. CASE ClearIndex(i)
  <2>1. [rebuild[i] EXCEPT !.pc = "add"] \in Rebuild(i)
    BY <1>3 DEF ClearIndex, Rebuild, NoRebuild
  <2> QED
    BY <1>1, <1>3, <2>1 DEF ClearIndex
<1>4. CASE AddSnapshot(i)
  <2>1. rebuild[i].docs \in Snapshot(i)
    BY <1>4 DEF AddSnapshot, Rebuild, NoRebuild
  <2>2. NoRebuild \in Rebuild(i)
    BY DEF Rebuild
  <2>3. CASE i = "services"
    <3>1. Merged(found, rebuild[i].docs) \in [Services -> Document \cup {None}]
      BY <2>1, <2>3 DEF Snapshot, Merged
    <3> QED
      BY <1>1, <1>4, <2>2, <2>3, <3>1 DEF AddSnapshot
  <2>4. CASE i = "providers"
    <3>1. Merged(providerFound, rebuild[i].docs) \in [Providers -> ProviderDocument \cup {None}]
      BY <2>1, <2>4 DEF Snapshot, Merged
    <3> QED
      BY <1>1, <1>4, <2>2, <2>4, <3>1 DEF AddSnapshot
  <2> QED
    BY <2>3, <2>4 DEF Indexes
<1>5. CASE RebuildFails(i)
  BY <1>1, <1>5 DEF RebuildFails, Rebuild
<1> QED
  BY <1>2, <1>3, <1>4, <1>5 DEF RebuildStep

(* The composed state is well typed, whatever overlaps and fails. *)
THEOREM SearchTypeCorrect == SearchSpec => []SearchTypeOK
<1>1. SearchInit => SearchTypeOK
  BY InitTyped DEF SearchInit, SearchTypeOK, Task, Rebuild
<1>2. SearchTypeOK /\ [SearchNext]_vars => SearchTypeOK'
  <2> SUFFICES ASSUME SearchTypeOK, [SearchNext]_vars
               PROVE  SearchTypeOK'
    OBVIOUS
  <2>0. TypeOK'
    BY CatalogSteps, NextTyped DEF SearchTypeOK
  <2>1. ASSUME NEW r \in Requests, RequestStep(r)
        PROVE  SearchTypeOK'
    BY <2>0, <2>1 DEF RequestStep, searchVars, SearchTypeOK
  <2>2. ASSUME NEW r \in Requests, StartTask(r)
        PROVE  SearchTypeOK'
    <3>1. bus[r] \in Event
      BY <2>2 DEF StartTask, Dispatch, SearchTypeOK, TypeOK
    <3> QED
      BY <2>0, <2>2, <3>1, StartTyped DEF StartTask, SearchTypeOK
  <2>3. CASE CrashSearch
    BY <2>0, <2>3 DEF CrashSearch, SearchTypeOK, Task, Rebuild
  <2>4. CASE UNCHANGED vars
    BY <2>0, <2>4 DEF vars, searchVars, SearchTypeOK
  <2> QED
    BY <2>0, <2>1, <2>2, <2>3, <2>4, TaskStepTyped, RebuildStepTyped DEF SearchNext
<1> QED
  BY <1>1, <1>2, PTL DEF SearchSpec

-----------------------------------------------------------------------------
(***************************************************************************)
(* Only published services are ever found.  The invariant follows the      *)
(* document from the read of the row to the index: whoever holds one - the *)
(* index, a task or the snapshot of a rebuild - holds it for a service that *)
(* has been published, and a publication date is never cleared.            *)
(***************************************************************************)
WasPublished(s) == service[s].publishedAt # None

DocumentsPublished ==
    /\ NeverPublishedNeverFound
    /\ \A r \in Requests :
         task[r].pc = "put" /\ task[r].doc # None => WasPublished(task[r].at)
    /\ \A s \in Services :
         rebuild["services"] # NoRebuild /\ rebuild["services"].docs[s] # None => WasPublished(s)

UnbornUndated == \A s \in Services : service[s].status = "UNBORN" => ~WasPublished(s)

LEMMA DatesStay ==
    ASSUME TypeOK, UnbornUndated, [Next]_catalogVars
    PROVE  /\ \A s \in Services : WasPublished(s) => WasPublished(s)'
           /\ UnbornUndated'
<1> SUFFICES ASSUME NEW s \in Services
             PROVE  /\ WasPublished(s) => WasPublished(s)'
                    /\ service'[s].status = "UNBORN" => ~WasPublished(s)'
  BY DEF UnbornUndated
<1>1. RowStep(s)
  BY RowSteps
<1> QED
  BY <1>1, CatalogAssumption DEF RowStep, WasPublished, UnbornUndated, Stored

(* A document read from a row shows that the row is published. *)
LEMMA ReadPublished ==
    ASSUME PublishedHasDate, NEW s \in Services, Indexed(s) # None
    PROVE  WasPublished(s)
BY DEF Indexed, IsIndexable, PublishedHasDate, WasPublished

LEMMA TaskStepPublished ==
    ASSUME SearchTypeOK, PublishedHasDate, DocumentsPublished,
           NEW r \in Requests, TaskStep(r) \/ PutFails(r)
    PROVE  DocumentsPublished'
<1> DEFINE t == task[r]
<1> USE DEF DocumentsPublished, NeverPublishedNeverFound, WasPublished, TaskBecomes
<1>0. t \in Task /\ task \in [Requests -> Task] /\ found \in [Services -> Document \cup {None}]
  BY DEF SearchTypeOK
<1>1. ASSUME NEW u, TaskBecomes(r, u), UNCHANGED found,
             u.pc = "put" /\ u.doc # None => WasPublished(u.at)
      PROVE  DocumentsPublished'
  BY <1>0, <1>1 DEF catalogVars
<1>2. \A todo : Remaining(todo).doc = None
  BY DEF Remaining, NoTask
<1>3. CASE ReadProviderDocument(r)
  <2>1. [t EXCEPT !.pc = "putProvider", !.doc = ProviderIndexed(t.of)].pc # "put"
    BY <1>0 DEF Task, NoTask
  <2> QED
    BY <1>1, <1>3, <2>1 DEF ReadProviderDocument
<1>4. CASE PutProvider(r)
  <2>1. [t EXCEPT !.pc = "listProvider", !.doc = None].doc = None
    BY <1>0 DEF Task, NoTask
  <2> QED
    BY <1>1, <1>4, <2>1 DEF PutProvider
<1>5. CASE ListServices(r)
  BY <1>1, <1>2, <1>5 DEF ListServices
<1>6. CASE ReadDocument(r)
  <2>1. PICK s \in t.todo :
          TaskBecomes(r, [t EXCEPT !.pc = "put", !.at = s, !.doc = Indexed(s),
                                   !.todo = t.todo \ {s}])
    BY <1>6 DEF ReadDocument
  <2> DEFINE u == [t EXCEPT !.pc = "put", !.at = s, !.doc = Indexed(s), !.todo = t.todo \ {s}]
  <2>2. s \in Services
    BY <1>0, <1>6, TaskFields DEF ReadDocument
  <2>3. u.at = s /\ u.doc = Indexed(s)
    BY <1>0 DEF Task, NoTask
  <2> HIDE DEF u
  <2>4. u.doc # None => WasPublished(u.at)
    BY <2>2, <2>3, ReadPublished
  <2> QED
    BY <1>1, <1>6, <2>1, <2>4 DEF ReadDocument, u
<1>7. CASE PutDocument(r)
  <2>1. t.at \in Services
    BY <1>0, <1>7, TaskFields DEF PutDocument
  <2>2. task' = [task EXCEPT ![r] = Remaining(t.todo)] /\ UNCHANGED <<catalogVars, rebuild>>
    BY <1>7 DEF PutDocument
  <2>3. found' = [found EXCEPT ![t.at] = t.doc]
    BY <1>7 DEF PutDocument
  <2>4. NeverPublishedNeverFound'
    BY <1>0, <1>7, <2>1, <2>2, <2>3 DEF PutDocument, catalogVars
  <2> QED
    BY <1>0, <1>2, <2>2, <2>4 DEF catalogVars
<1>8. CASE PutFails(r)
  <2>1. NoTask.doc = None
    BY DEF NoTask
  <2>2. [t EXCEPT !.pc = "listProvider"].pc # "put"
    BY <1>0 DEF Task, NoTask
  <2> QED
    BY <1>1, <1>2, <1>8, <2>1, <2>2 DEF PutFails
<1> QED
  BY <1>3, <1>4, <1>5, <1>6, <1>7, <1>8 DEF TaskStep

LEMMA RebuildStepPublished ==
    ASSUME SearchTypeOK, PublishedHasDate, DocumentsPublished, NEW i \in Indexes,
           ReadSnapshot(i) \/ RebuildStep(i) \/ RebuildFails(i)
    PROVE  DocumentsPublished'
<1> USE DEF DocumentsPublished, NeverPublishedNeverFound, WasPublished, RebuildBecomes, catalogVars
<1>0. /\ rebuild \in [Indexes -> UNION {Rebuild(j) : j \in Indexes}]
      /\ rebuild["services"] \in Rebuild("services")
      /\ found \in [Services -> Document \cup {None}]
  BY DEF SearchTypeOK, Indexes
<1>1. CASE ReadSnapshot(i)
  BY <1>0, <1>1, ReadPublished DEF ReadSnapshot, Indexes
<1>2. CASE ClearIndex(i)
  <2>1. [rebuild["services"] EXCEPT !.pc = "add"].docs = rebuild["services"].docs
    BY <1>0 DEF Rebuild, NoRebuild
  <2>2. i = "services" => rebuild["services"] # NoRebuild
    BY <1>2 DEF ClearIndex, NoRebuild
  <2> QED
    BY <1>0, <1>2, <2>1, <2>2 DEF ClearIndex, Indexes
<1>3. CASE AddSnapshot(i)
  <2>1. i = "services" => rebuild["services"] # NoRebuild
    BY <1>3 DEF AddSnapshot, NoRebuild
  <2> QED
    BY <1>0, <1>3, <2>1 DEF AddSnapshot, Merged, Indexes
<1>4. CASE RebuildFails(i)
  BY <1>0, <1>4 DEF RebuildFails, Indexes
<1> QED
  BY <1>1, <1>2, <1>3, <1>4 DEF RebuildStep

(* A service that was never published is never found by a search. *)
THEOREM OnlyPublishedFound == SearchSpec => []NeverPublishedNeverFound
<1> DEFINE IInv == UnbornUndated /\ DocumentsPublished
<1>1. SearchInit => IInv
  BY DEF SearchInit, Init, UnbornUndated, DocumentsPublished, NeverPublishedNeverFound, WasPublished,
         NoTask, Indexes
<1>2. SearchTypeOK /\ PublishedHasDate /\ IInv /\ [SearchNext]_vars => IInv'
  <2> SUFFICES ASSUME SearchTypeOK, PublishedHasDate, IInv, [SearchNext]_vars
               PROVE  IInv'
    OBVIOUS
  <2>0. [Next]_catalogVars /\ TypeOK
    BY CatalogSteps DEF SearchTypeOK
  <2>1. UnbornUndated' /\ \A s \in Services : WasPublished(s) => WasPublished(s)'
    BY <2>0, DatesStay
  <2>2. ASSUME UNCHANGED <<found, rebuild>>,
               \A r \in Requests : task'[r] = task[r] \/ task'[r].doc = None
        PROVE  DocumentsPublished'
    <3>1. ASSUME NEW r \in Requests, task'[r].pc = "put", task'[r].doc # None
          PROVE  service'[task'[r].at].publishedAt # None
      <4>1. task'[r] = task[r] /\ task[r].at \in Services
        BY <2>2, <3>1, TaskFields DEF SearchTypeOK
      <4> QED
        BY <2>1, <3>1, <4>1 DEF DocumentsPublished, WasPublished
    <3> QED
      BY <2>1, <2>2, <3>1 DEF DocumentsPublished, NeverPublishedNeverFound, WasPublished
  <2>3. ASSUME NEW r \in Requests, RequestStep(r)
        PROVE  DocumentsPublished'
    BY <2>2, <2>3 DEF RequestStep, searchVars
  <2>4. ASSUME NEW r \in Requests, StartTask(r)
        PROVE  DocumentsPublished'
    <3>1. FirstStep(bus[r]).doc = None
      <4>1. bus[r] \in Event
        BY <2>4 DEF StartTask, Dispatch, SearchTypeOK, TypeOK
      <4>2. /\ bus[r].kind = "SERVICE_UPSERT" => FirstStep(bus[r]).doc = None
            /\ bus[r].kind = "SERVICE_REMOVE" => FirstStep(bus[r]).doc = None
            /\ bus[r].kind = "PROVIDER_UPSERT" => FirstStep(bus[r]).doc = None
            /\ bus[r].kind = "CATEGORY_UPDATED" => FirstStep(bus[r]).doc = None
        BY DEF FirstStep, NoTask
      <4> QED
        BY <4>1, <4>2 DEF Event
    <3> QED
      BY <2>2, <2>4, <3>1 DEF StartTask, SearchTypeOK
  <2>5. CASE CrashSearch
    BY <2>1, <2>5 DEF CrashSearch, DocumentsPublished, NeverPublishedNeverFound, WasPublished,
                      NoTask, Indexes
  <2>6. CASE UNCHANGED vars
    BY <2>1, <2>2, <2>6 DEF vars, searchVars
  <2> QED
    BY <2>1, <2>3, <2>4, <2>5, <2>6, TaskStepPublished, RebuildStepPublished DEF SearchNext
<1>3. IInv => NeverPublishedNeverFound
  BY DEF DocumentsPublished
<1> QED
  BY <1>1, <1>2, <1>3, SearchTypeCorrect, CompositionRefines, PublicationDated, PTL DEF SearchSpec

-----------------------------------------------------------------------------
(* An undisturbed rebuild holds what the rows say, and has emptied the     *)
(* index when it comes to add it.                                          *)
Repairing ==
    undisturbed =>
        /\ rebuild["services"].docs = [s \in Services |-> Indexed(s)]
        /\ rebuild["services"].pc = "add" => found = [s \in Services |-> None]

LEMMA RepairingKept ==
    ASSUME SearchTypeOK, Repairing, SearchNext, Remembers
    PROVE  Repairing'
<1> SUFFICES ASSUME undisturbed'
             PROVE  /\ rebuild'["services"].docs = [s \in Services |-> Indexed(s)']
                    /\ rebuild'["services"].pc = "add" => found' = [s \in Services |-> None]
  BY DEF Repairing
<1> USE DEF Indexes
<1>1. Rebuilding' /\ (~Rebuilding \/ undisturbed)
  BY DEF Remembers
<1>2. ASSUME NEW i \in Indexes, ReadSnapshot(i), i = "services"
      PROVE  /\ rebuild'["services"].docs = [s \in Services |-> Indexed(s)']
             /\ rebuild'["services"].pc = "clear"
  <2>1. \A s \in Services : Indexed(s)' = Indexed(s)
    BY <1>2 DEF ReadSnapshot, RebuildBecomes, catalogVars, Indexed, IsIndexable, ServiceDocument
  <2> QED BY <1>2, <2>1 DEF ReadSnapshot, RebuildBecomes, SearchTypeOK
<1>3. CASE ~Rebuilding
  <2>1. rebuild'["services"] # rebuild["services"]
    BY <1>1, <1>3 DEF Rebuilding
  <2>2. ~CrashSearch /\ rebuild' # rebuild
    BY <1>1, <2>1 DEF CrashSearch, Rebuilding
  <2>3. \A r \in Requests : ~(RequestStep(r) \/ StartTask(r) \/ TaskStep(r) \/ PutFails(r))
    BY <2>2 DEF RequestStep, StartTask, TaskStep, PutFails, TaskBecomes, ReadProviderDocument,
               PutProvider, ListServices, ReadDocument, PutDocument, searchVars
  <2>4. PICK i \in Indexes : ReadSnapshot(i) \/ RebuildStep(i) \/ RebuildFails(i)
    BY <2>2, <2>3 DEF SearchNext
  <2>5. i = "services"
    BY <2>1, <2>4 DEF ReadSnapshot, RebuildStep, ClearIndex, AddSnapshot, RebuildFails,
                     RebuildBecomes, SearchTypeOK
  <2>6. ReadSnapshot(i)
    BY <1>3, <2>4, <2>5 DEF RebuildStep, ClearIndex, AddSnapshot, RebuildFails, Rebuilding, NoRebuild
  <2> QED BY <1>2, <2>5, <2>6
<1>4. CASE Rebuilding
  <2>1. undisturbed /\ UNCHANGED <<service, provider, active>>
        /\ (found' = found \/ rebuild' # rebuild)
    BY <1>4 DEF Remembers
  <2>2. \A s \in Services : Indexed(s)' = Indexed(s)
    BY <2>1 DEF Indexed, IsIndexable, ServiceDocument
  <2>3. CASE rebuild' = rebuild
    BY <2>1, <2>2, <2>3 DEF Repairing
  <2>4. CASE rebuild' # rebuild
    <3>1. ~CrashSearch
      BY <1>1 DEF CrashSearch, Rebuilding
    <3>2. \A r \in Requests : ~(RequestStep(r) \/ StartTask(r) \/ TaskStep(r) \/ PutFails(r))
      BY <2>4 DEF RequestStep, StartTask, TaskStep, PutFails, TaskBecomes, ReadProviderDocument,
                 PutProvider, ListServices, ReadDocument, PutDocument, searchVars
    <3>3. PICK i \in Indexes : ReadSnapshot(i) \/ RebuildStep(i) \/ RebuildFails(i)
      BY <3>1, <3>2 DEF SearchNext
    <3>4. CASE i = "providers"
      <4>1. rebuild'["services"] = rebuild["services"] /\ found' = found
        BY <3>3, <3>4 DEF ReadSnapshot, RebuildStep, ClearIndex, AddSnapshot, RebuildFails,
                         RebuildBecomes, SearchTypeOK
      <4> QED BY <2>1, <2>2, <4>1 DEF Repairing
    <3>5. CASE i = "services"
      <4>1. ~ReadSnapshot(i)
        BY <1>4, <3>5 DEF ReadSnapshot, Rebuilding
      <4>2. ~AddSnapshot(i) /\ ~RebuildFails(i)
        BY <1>1, <3>5 DEF AddSnapshot, RebuildFails, RebuildBecomes, Rebuilding, SearchTypeOK
      <4>3. ClearIndex(i)
        BY <3>3, <4>1, <4>2 DEF RebuildStep
      <4>4. rebuild["services"] \in Rebuild("services")
        BY DEF SearchTypeOK
      <4>5. rebuild'["services"].docs = rebuild["services"].docs
        BY <3>5, <4>3, <4>4 DEF ClearIndex, RebuildBecomes, SearchTypeOK, Rebuild, NoRebuild
      <4> QED BY <2>1, <2>2, <3>5, <4>3, <4>5 DEF ClearIndex, Repairing
    <3> QED BY <3>4, <3>5
  <2> QED BY <2>3, <2>4
<1> QED BY <1>3, <1>4

(* A rebuild of the services index that nothing disturbs leaves it exact,  *)
(* whatever it held before, for any number of requests and tasks.          *)
THEOREM RebuildsRepair == RebuildSpec => RebuildRepairs
<1>1. RebuildSpec => SearchSpec
  <2>1. [SearchNext /\ Remembers]_rebuildVars => [SearchNext]_vars
    BY DEF rebuildVars
  <2> QED BY <2>1, PTL DEF RebuildSpec, SearchSpec
<1>2. SearchInit /\ undisturbed = FALSE => Repairing
  BY DEF Repairing
<1>3. SearchTypeOK /\ Repairing /\ [SearchNext /\ Remembers]_rebuildVars => Repairing'
  <2> SUFFICES ASSUME SearchTypeOK, Repairing, [SearchNext /\ Remembers]_rebuildVars
               PROVE  Repairing'
    OBVIOUS
  <2>1. CASE SearchNext /\ Remembers
    BY <2>1, RepairingKept
  <2>2. CASE UNCHANGED rebuildVars
    <3>1. \A s \in Services : Indexed(s)' = Indexed(s)
      BY <2>2 DEF rebuildVars, vars, catalogVars, Indexed, IsIndexable, ServiceDocument
    <3> QED BY <2>2, <3>1 DEF rebuildVars, vars, searchVars, Repairing
  <2> QED BY <2>1, <2>2
<1>4. ASSUME SearchTypeOK, Repairing, undisturbed, AddSnapshot("services")
      PROVE  \A s \in Services : found'[s] = Indexed(s)
  BY <1>4 DEF Repairing, AddSnapshot, Merged
<1> QED BY <1>1, <1>2, <1>3, <1>4, SearchTypeCorrect, PTL DEF RebuildSpec, RebuildRepairs

-----------------------------------------------------------------------------
(***************************************************************************)
(* While behaviours are orderly the index is repaired.  The invariant names *)
(* who owes it: whenever a document differs from what the row calls for, a *)
(* request is about to emit an event about that service, or its event is   *)
(* on its way, or its task still has the service before it.                *)
(***************************************************************************)
Touches(e, s) ==
    /\ e # None
    /\ \/ e.kind \in {"SERVICE_UPSERT", "SERVICE_REMOVE"} /\ e.of = s
       \/ /\ service[s].status \in Stored
          /\ \/ e.kind = "PROVIDER_UPSERT" /\ e.of = Owner[s]
             \/ e.kind = "CATEGORY_UPDATED" /\ e.of = service[s].category

Mends(t, s) ==
    \/ /\ service[s].status \in Stored
       /\ \/ t.pc \in {"provider", "putProvider", "listProvider"} /\ t.of = Owner[s]
          \/ t.pc = "listCategory" /\ t.of = service[s].category
    \/ s \in t.todo
    \/ t.pc = "put" /\ t.at = s

Owes(r, s) ==
    \/ req[r].pc = "notify" /\ Touches(EventOf(req[r].op, req[r].of), s)
    \/ Touches(bus[r], s)
    \/ Mends(task[r], s)

Exact == \A s \in Services : found[s] = Indexed(s)

(* A removal is announced of services that are not published, and what a   *)
(* task is about to put is what the row calls for.                         *)
TellsTruth(r) ==
    /\ req[r].pc = "notify" /\ req[r].op \in Removes => service[req[r].of].status # "PUBLISHED"
    /\ bus[r] # None /\ bus[r].kind = "SERVICE_REMOVE" => service[bus[r].of].status # "PUBLISHED"
    /\ task[r].pc = "put" => task[r].doc = Indexed(task[r].at)

InTurn ==
    /\ OneBusy
    /\ \A i \in Indexes : rebuild[i] = NoRebuild
    /\ \A r \in Requests :
         /\ bus[r] # None => req[r] = Idle /\ task[r] = NoTask
         /\ task[r] # NoTask => req[r] = Idle
         /\ req[r] # Idle => req[r].op # "submit"

Owed ==
    /\ \A s \in Services : found[s] # Indexed(s) => \E r \in Requests : Owes(r, s)
    /\ \A r \in Requests : TellsTruth(r)

LEMMA RestingOwesNothing ==
    ASSUME NEW q, ~Busy(q)
    PROVE  \A s : ~Owes(q, s)
BY DEF Busy, Owes, Touches, Mends, Idle, NoTask

(* A request that has not written yet: nobody owes anything. *)
LEMMA BeforeWriting ==
    ASSUME Owed, NEW r \in Requests, req[r].pc # "notify", bus[r] = None, task[r] = NoTask,
           \A q \in Requests \ {r} : ~Busy(q)
    PROVE  Exact
<1>1. \A s : ~Owes(r, s)
  BY DEF Owes, Touches, Mends, NoTask
<1>2. \A q \in Requests, s \in Services : ~Owes(q, s)
  BY <1>1, RestingOwesNothing
<1>3. \A s \in Services : found[s] # Indexed(s) => \E q \in Requests : Owes(q, s)
  BY DEF Owed
<1> QED
  BY <1>2, <1>3 DEF Exact

LEMMA EventFacts ==
    /\ \A op \in Upserts : \A of : EventOf(op, of) = [kind |-> "SERVICE_UPSERT", of |-> of]
    /\ \A op \in Removes : \A of : EventOf(op, of) = [kind |-> "SERVICE_REMOVE", of |-> of]
    /\ \A op \in {"review", "profile"} : \A of :
         EventOf(op, of) = [kind |-> "PROVIDER_UPSERT", of |-> of]
    /\ \A of : EventOf("category", of) = [kind |-> "CATEGORY_UPDATED", of |-> of]
    /\ \A of : EventOf("create", of) = None
BY DEF EventOf, Upserts, Removes

(* A write changes what the row calls for only of the services its event is about. *)
LEMMA ServiceWriteTold ==
    ASSUME TypeOK, Exact, NEW r \in Requests, NEW row \in Row,
           UNCHANGED found, req[r].pc = "write",
           req[r].op \in Upserts \cup Removes, req[r].of \in Services,
           req[r].op \in Removes => row.status # "PUBLISHED",
           Store(r, req[r].of, row)
    PROVE  /\ \A s \in Services : found'[s] # Indexed(s)' =>
                                  Touches(EventOf(req[r].op, req[r].of), s)'
           /\ req[r].op \in Removes => service'[req[r].of].status # "PUBLISHED"
<1> DEFINE of == req[r].of
           op == req[r].op
<1>1. req'[r].op = op /\ req'[r].of = of
  BY DEF TypeOK, Request, Idle, Store
<1>2. service' = [service EXCEPT ![of] = row] /\ UNCHANGED <<provider, active>>
  BY DEF Store
<1>3. ASSUME NEW s \in Services, s # of
      PROVE  Indexed(s)' = Indexed(s)
  BY <1>2, <1>3 DEF TypeOK, Indexed, IsIndexable, ServiceDocument
<1>4. /\ EventOf(op, of) \in Event
      /\ EventOf(op, of).kind \in {"SERVICE_UPSERT", "SERVICE_REMOVE"}
      /\ EventOf(op, of).of = of
  BY EventFacts DEF Event
<1>5. Touches(EventOf(op, of), of)'
  BY <1>1, <1>4, EventAssumption DEF Touches
<1> QED
  BY <1>1, <1>2, <1>3, <1>5 DEF Exact, TypeOK

LEMMA WriteTold ==
    ASSUME TypeOK, Exact, NEW r \in Requests, Write(r), UNCHANGED found, req[r].op # "submit"
    PROVE  /\ \A s \in Services : found'[s] # Indexed(s)' =>
                                  Touches(EventOf(req[r].op, req[r].of), s)'
           /\ req[r].op \in Removes => service'[req[r].of].status # "PUBLISHED"
<1> DEFINE of == req[r].of
           op == req[r].op
           Told == /\ \A s \in Services : found'[s] # Indexed(s)' => Touches(EventOf(op, of), s)'
                   /\ op \in Removes => service'[of].status # "PUBLISHED"
<1>0. req[r].pc = "write" /\ req[r].pc \in Running
  BY DEF Write, WriteCreate, WriteUpdate, WriteEdit, WriteRemove, WritePublish, WritePause,
         WriteArchive, WriteSubmit, WriteReview, WriteProfile, WriteCategory, Writes, Running
<1>1. ASSUME op \in CatalogOps \ {"create"}
      PROVE  of \in Services /\ service[of] \in Row /\ req[r].category \in Categories \cup {None}
  BY <1>0, <1>1, SubjectTyped DEF TypeOK
<1>2. CASE WriteCreate(r)
  <2>1. PICK s \in Services, x \in Contents :
          /\ service[s].status = "UNBORN"
          /\ Store(r, s, [status |-> "DRAFT", publishedAt |-> None,
                          content |-> x, category |-> req[r].category])
    BY <1>2 DEF WriteCreate
  <2>2. \A t \in Services : Indexed(t)' = Indexed(t)
    BY <2>1 DEF Store, TypeOK, Indexed, IsIndexable, ServiceDocument
  <2>3. op = "create"
    BY <1>2 DEF WriteCreate, Writes
  <2> QED
    BY <2>2, <2>3 DEF Exact, Removes
<1>3. CASE WriteUpdate(r)
  BY <1>0, <1>1, <1>3, ServiceWriteTold
  DEF WriteUpdate, Writes, Row, Upserts, Removes, CatalogOps
<1>4. CASE WriteEdit(r)
  BY <1>0, <1>1, <1>4, ServiceWriteTold
  DEF WriteEdit, Writes, Row, Upserts, Removes, CatalogOps
<1>5. CASE WriteRemove(r)
  BY <1>0, <1>1, <1>5, ServiceWriteTold
  DEF WriteRemove, Writes, Row, Status, Removes, CatalogOps
<1>6. CASE WritePublish(r)
  BY <1>0, <1>1, <1>6, ServiceWriteTold
  DEF WritePublish, Writes, Row, Status, Stored, Upserts, Removes, CatalogOps
<1>7. CASE WritePause(r)
  BY <1>0, <1>1, <1>7, ServiceWriteTold
  DEF WritePause, Writes, Row, Status, Stored, Removes, CatalogOps
<1>8. CASE WriteArchive(r)
  BY <1>0, <1>1, <1>8, ServiceWriteTold
  DEF WriteArchive, Writes, Row, Status, Stored, Removes, CatalogOps
<1>9. CASE WriteSubmit(r)
  BY <1>9 DEF WriteSubmit, Writes
<1>10. CASE WriteReview(r) \/ WriteProfile(r)
  <2>1. op \in {"review", "profile"} /\ UNCHANGED <<service, active>>
    BY <1>10 DEF WriteReview, WriteProfile, Writes, SetProvider
  <2>2. of \in Providers
    BY <1>0, <2>1, SubjectTyped DEF ProviderOps
  <2>3. /\ \A p \in Providers \ {of} : provider'[p] = provider[p]
        /\ req' = [req EXCEPT ![r].pc = "notify"]
    BY <1>10 DEF WriteReview, WriteProfile, SetProvider, TypeOK
  <2>4. req'[r].op = op /\ req'[r].of = of
    BY <2>3 DEF TypeOK, Request, Idle
  <2>5. EventOf(op, of) \in Event /\ EventOf(op, of).kind = "PROVIDER_UPSERT"
        /\ EventOf(op, of).of = of
    BY <2>1, <2>2, EventFacts DEF Event
  <2>6. ASSUME NEW s \in Services, found'[s] # Indexed(s)'
        PROVE  Owner[s] = of /\ service[s].status = "PUBLISHED"
    BY <2>1, <2>3, <2>6, CatalogAssumption DEF Exact, Indexed, IsIndexable, ServiceDocument
  <2>7. \A s \in Services : found'[s] # Indexed(s)' => Touches(EventOf(op, of), s)'
    BY <2>1, <2>4, <2>5, <2>6, EventAssumption DEF Touches, Stored
  <2> QED
    BY <2>1, <2>7 DEF Removes
<1>11. CASE WriteCategory(r)
  <2>1. op = "category" /\ UNCHANGED <<service, provider>>
    BY <1>11 DEF WriteCategory, Writes
  <2>2. of \in Categories
    BY <1>0, <2>1, SubjectTyped
  <2>3. /\ \A c \in Categories \ {of} : active'[c] = active[c]
        /\ req' = [req EXCEPT ![r].pc = "notify"]
    BY <1>11 DEF WriteCategory, TypeOK
  <2>4. req'[r].op = op /\ req'[r].of = of
    BY <2>3 DEF TypeOK, Request, Idle
  <2>5. EventOf(op, of) \in Event /\ EventOf(op, of).kind = "CATEGORY_UPDATED"
        /\ EventOf(op, of).of = of
    BY <2>1, <2>2, EventFacts DEF Event
  <2>6. ASSUME NEW s \in Services, found'[s] # Indexed(s)'
        PROVE  service[s].category = of /\ service[s].status = "PUBLISHED"
    <3>1. service[s].category \in Categories
      BY DEF TypeOK, Row
    <3> QED
      BY <2>1, <2>3, <2>6, <3>1 DEF Exact, Indexed, IsIndexable, ServiceDocument
  <2>7. \A s \in Services : found'[s] # Indexed(s)' => Touches(EventOf(op, of), s)'
    BY <2>1, <2>4, <2>5, <2>6, EventAssumption DEF Touches, Stored
  <2> QED
    BY <2>1, <2>7 DEF Removes
<1> QED
  BY <1>2, <1>3, <1>4, <1>5, <1>6, <1>7, <1>8, <1>9, <1>10, <1>11 DEF Write

(* What a step of slot r has to show, everything else being as it was. *)
LEMMA SlotKeepsOwed ==
    ASSUME SearchTypeOK, Owed, NEW r \in Requests,
           \A q \in Requests \ {r} :
              /\ ~Busy(q)
              /\ req'[q] = req[q] /\ bus'[q] = bus[q] /\ task'[q] = task[q],
           \A s \in Services : found'[s] # Indexed(s)' => Owes(r, s)',
           TellsTruth(r)'
    PROVE  Owed'
<1>1. ASSUME NEW q \in Requests \ {r}
      PROVE  TellsTruth(q)'
  BY <1>1 DEF TellsTruth, Busy, Idle, NoTask
<1> QED
  BY <1>1 DEF Owed

LEMMA TaskKeepsOwed ==
    ASSUME SearchTypeOK, InTurn, Owed, NEW r \in Requests, TaskStep(r)
    PROVE  Owed'
<1> DEFINE t == task[r]
           u == task'[r]
<1>0. t \in Task /\ t # NoTask
  <2>1. t.pc \in {"provider", "putProvider", "listProvider", "listCategory", "read", "put"}
    BY DEF TaskStep, ReadProviderDocument, PutProvider, ListServices, ReadDocument, PutDocument
  <2> QED BY <2>1 DEF SearchTypeOK, NoTask
<1>1. req[r] = Idle /\ bus[r] = None
  BY <1>0 DEF InTurn
<1>2. \A q \in Requests \ {r} : ~Busy(q)
  BY <1>0 DEF InTurn, OneBusy, Busy
<1>3. /\ UNCHANGED catalogVars
      /\ \A q \in Requests \ {r} : task'[q] = task[q]
  BY DEF SearchTypeOK, TaskStep, ReadProviderDocument, PutProvider, ListServices, ReadDocument,
         PutDocument, TaskBecomes
<1>4. \A s \in Services : Indexed(s)' = Indexed(s)
  BY <1>3 DEF catalogVars, Indexed, IsIndexable, ServiceDocument
<1>5. \A s \in Services : found[s] # Indexed(s) => Mends(t, s)
  <2>1. \A q \in Requests \ {r}, s \in Services : ~Owes(q, s)
    BY <1>2, RestingOwesNothing
  <2>2. \A s \in Services : Owes(r, s) => Mends(t, s)
    BY <1>1 DEF Owes, Touches, Idle
  <2> QED BY <2>1, <2>2 DEF Owed
<1>6. SUFFICES /\ \A s \in Services : found'[s] # Indexed(s) => Mends(u, s)
               /\ u.pc = "put" => u.doc = Indexed(u.at)
  <2>0. TypeOK'
    BY CatalogSteps, NextTyped DEF SearchTypeOK, SearchNext
  <2>1. u \in Task
    BY <2>0, TaskStepTyped DEF SearchTypeOK
  <2>2. SUFFICES ASSUME /\ \A s \in Services : found'[s] # Indexed(s) => Mends(u, s)
                        /\ u.pc = "put" => u.doc = Indexed(u.at)
                 PROVE  Owed'
    OBVIOUS
  <2>3. \A s \in Services : found'[s] # Indexed(s)' => Mends(task[r], s)'
    BY <1>3, <1>4, <2>2 DEF Mends, catalogVars
  <2>4. TellsTruth(r)'
    BY <1>1, <1>3, <1>4, <2>1, <2>2, TaskFields DEF TellsTruth, Idle, catalogVars
  <2> QED
    BY <1>2, <1>3, <2>3, <2>4, SlotKeepsOwed DEF Owes, catalogVars
<1>7. CASE ReadProviderDocument(r)
  <2>1. u = [t EXCEPT !.pc = "putProvider", !.doc = ProviderIndexed(t.of)]
    BY <1>7 DEF ReadProviderDocument, TaskBecomes, SearchTypeOK
  <2>2. t.pc = "provider" /\ u.pc = "putProvider" /\ u.of = t.of /\ u.todo = t.todo
    BY <1>0, <1>7, <2>1 DEF ReadProviderDocument, Task, NoTask
  <2> QED BY <1>5, <1>7, <2>2 DEF ReadProviderDocument, Mends
<1>8. CASE PutProvider(r)
  <2>1. u = [t EXCEPT !.pc = "listProvider", !.doc = None]
    BY <1>8 DEF PutProvider, TaskBecomes, SearchTypeOK
  <2>2. t.pc = "putProvider" /\ u.pc = "listProvider" /\ u.of = t.of /\ u.todo = t.todo
    BY <1>0, <1>8, <2>1 DEF PutProvider, Task, NoTask
  <2> QED BY <1>5, <1>8, <2>2 DEF PutProvider, Mends
<1>9. \A todo : Remaining(todo).todo = todo /\ Remaining(todo).pc # "put"
  BY DEF Remaining, NoTask
<1>10. CASE ListServices(r)
  <2>1. t.todo = {} /\ t.pc # "put"
    BY <1>0, <1>10 DEF ListServices, Task, NoTask
  <2>2. \A s \in Services : Mends(t, s) => s \in u.todo
    BY <1>9, <1>10, <2>1, CatalogAssumption
    DEF ListServices, Mends, TaskBecomes, SearchTypeOK
  <2>3. u.pc # "put"
    BY <1>9, <1>10 DEF ListServices, TaskBecomes, SearchTypeOK
  <2> QED BY <1>5, <1>10, <2>2, <2>3 DEF ListServices, Mends
<1>11. CASE ReadDocument(r)
  <2>1. PICK x \in t.todo :
          u = [t EXCEPT !.pc = "put", !.at = x, !.doc = Indexed(x), !.todo = t.todo \ {x}]
    BY <1>11 DEF ReadDocument, TaskBecomes, SearchTypeOK
  <2>2. t.pc = "read" /\ u.pc = "put" /\ u.at = x /\ u.doc = Indexed(x) /\ u.todo = t.todo \ {x}
    BY <1>0, <1>11, <2>1 DEF ReadDocument, Task, NoTask
  <2> QED BY <1>5, <1>11, <2>2 DEF ReadDocument, Mends
<1>12. CASE PutDocument(r)
  <2>1. t.pc = "put" /\ t.at \in Services /\ t.doc = Indexed(t.at)
    BY <1>0, <1>12, TaskFields DEF PutDocument, Owed, TellsTruth
  <2>2. u = Remaining(t.todo) /\ found' = [found EXCEPT ![t.at] = t.doc]
    BY <1>12 DEF PutDocument, TaskBecomes, SearchTypeOK
  <2>3. ASSUME NEW s \in Services, found'[s] # Indexed(s)
        PROVE  s \in t.todo
    <3>1. s # t.at /\ found[s] # Indexed(s)
      BY <2>1, <2>2, <2>3 DEF SearchTypeOK
    <3> QED BY <1>5, <2>1, <3>1 DEF Mends
  <2> QED BY <1>9, <2>2, <2>3 DEF Mends
<1> QED
  BY <1>7, <1>8, <1>10, <1>11, <1>12 DEF TaskStep

LEMMA StartKeepsOwed ==
    ASSUME SearchTypeOK, InTurn, Owed, NEW r \in Requests, StartTask(r)
    PROVE  Owed'
<1> DEFINE e == bus[r]
           u == task'[r]
<1>1. e \in Event /\ e # None /\ req[r] = Idle /\ task[r] = NoTask
  BY DEF StartTask, Dispatch, SearchTypeOK, TypeOK, InTurn
<1>2. \A q \in Requests \ {r} : ~Busy(q)
  BY <1>1 DEF InTurn, OneBusy, Busy
<1>3. /\ UNCHANGED <<service, provider, active, req, found>>
      /\ bus' = [bus EXCEPT ![r] = None]
      /\ task' = [task EXCEPT ![r] = FirstStep(e)]
      /\ \A q \in Requests \ {r} : bus'[q] = bus[q] /\ task'[q] = task[q]
      /\ bus'[r] = None /\ u = FirstStep(e)
  BY DEF StartTask, Dispatch, rows, SearchTypeOK, TypeOK
<1>4. \A s \in Services : Indexed(s)' = Indexed(s)
  BY <1>3 DEF Indexed, IsIndexable, ServiceDocument
<1>5. \A s \in Services : found[s] # Indexed(s) => Touches(e, s)
  <2>1. \A q \in Requests \ {r}, s \in Services : ~Owes(q, s)
    BY <1>2, RestingOwesNothing
  <2>2. \A s \in Services : Owes(r, s) => Touches(e, s)
    BY <1>1 DEF Owes, Mends, Idle, NoTask
  <2> QED BY <2>1, <2>2 DEF Owed
<1>6. SUFFICES ASSUME TRUE
               PROVE  /\ \A s \in Services : Touches(e, s) => Mends(u, s)
                      /\ u.pc = "put" => u.at \in Services /\ u.doc = Indexed(u.at)
  <2>1. SUFFICES ASSUME /\ \A s \in Services : Touches(e, s) => Mends(u, s)
                        /\ u.pc = "put" => u.at \in Services /\ u.doc = Indexed(u.at)
                 PROVE  Owed'
    OBVIOUS
  <2>2. \A s \in Services : found'[s] # Indexed(s)' => Mends(task[r], s)'
    BY <1>3, <1>4, <1>5, <2>1 DEF Mends
  <2>3. TellsTruth(r)'
    BY <1>1, <1>3, <1>4, <2>1 DEF TellsTruth, Idle
  <2> QED
    BY <1>2, <1>3, <2>2, <2>3, SlotKeepsOwed DEF Owes
<1>7. CASE e.kind = "SERVICE_UPSERT"
  <2>1. FirstStep(e) = [NoTask EXCEPT !.pc = "read", !.todo = {e.of}]
    BY <1>7 DEF FirstStep
  <2>2. u.pc = "read" /\ u.todo = {e.of}
    BY <1>3, <2>1 DEF NoTask
  <2>3. \A s \in Services : Touches(e, s) => e.of = s
    BY <1>7 DEF Touches
  <2> QED BY <2>2, <2>3 DEF Mends
<1>8. CASE e.kind = "SERVICE_REMOVE"
  <2>1. FirstStep(e) = [NoTask EXCEPT !.pc = "put", !.at = e.of]
    BY <1>8 DEF FirstStep
  <2>2. u.pc = "put" /\ u.at = e.of /\ u.doc = None
    BY <1>3, <2>1 DEF NoTask
  <2>3. e.of \in Services
    BY <1>1, <1>8 DEF Event
  <2>4. Indexed(e.of) = None
    BY <1>1, <1>8 DEF Owed, TellsTruth, Indexed, IsIndexable
  <2>5. \A s \in Services : Touches(e, s) => e.of = s
    BY <1>8 DEF Touches
  <2> QED BY <2>2, <2>3, <2>4, <2>5 DEF Mends
<1>9. CASE e.kind = "PROVIDER_UPSERT"
  <2>1. FirstStep(e) = [NoTask EXCEPT !.pc = "provider", !.of = e.of]
    BY <1>9 DEF FirstStep
  <2>2. u.pc = "provider" /\ u.of = e.of
    BY <1>3, <2>1 DEF NoTask
  <2>3. \A s \in Services : Touches(e, s) => service[s].status \in Stored /\ e.of = Owner[s]
    BY <1>9 DEF Touches
  <2> QED BY <2>2, <2>3 DEF Mends
<1>10. CASE e.kind = "CATEGORY_UPDATED"
  <2>1. FirstStep(e) = [NoTask EXCEPT !.pc = "listCategory", !.of = e.of]
    BY <1>10 DEF FirstStep
  <2>2. u.pc = "listCategory" /\ u.of = e.of
    BY <1>3, <2>1 DEF NoTask
  <2>3. \A s \in Services : Touches(e, s) =>
          service[s].status \in Stored /\ e.of = service[s].category
    BY <1>10 DEF Touches
  <2> QED BY <2>2, <2>3 DEF Mends
<1> QED
  BY <1>1, <1>7, <1>8, <1>9, <1>10 DEF Event

LEMMA RequestKeepsOwed ==
    ASSUME SearchTypeOK, InTurn, Owed, NEW r \in Requests, RequestStep(r),
           req[r].pc = "notify" => Notify(r), OneBusy'
    PROVE  Owed'
<1> USE DEF RequestStep, searchVars
<1>0. TypeOK /\ task[r] = NoTask
  BY DEF SearchTypeOK
<1>1. /\ UNCHANGED <<found, task>>
      /\ \A q \in Requests \ {r} : req'[q] = req[q] /\ bus'[q] = bus[q]
  BY <1>0 DEF Step, Read, ReadService, ReadForMove, ReadOwnProvider, ReadProvider, ReadCategory, Accept,
              CheckCategory, CheckProvider, Proceed, Refuse, Write, WriteCreate, WriteUpdate,
              WriteEdit, WriteRemove, WritePublish, WritePause, WriteArchive, WriteSubmit,
              WriteReview, WriteProfile, WriteCategory, Store, SetProvider, Notify, AuditFails,
              TypeOK
<1>2. ASSUME req[r] # Idle \/ req'[r] # Idle
      PROVE  \A q \in Requests \ {r} : ~Busy(q)
  BY <1>1, <1>2 DEF InTurn, OneBusy, Busy
<1>3. CASE Read(r) \/ CheckCategory(r) \/ CheckProvider(r) \/ Refuse(r)
  <2>1. UNCHANGED rows /\ bus' = bus /\ bus[r] = None
    BY <1>3 DEF Read, ReadService, ReadForMove, ReadOwnProvider, ReadProvider, ReadCategory, Accept,
                CheckCategory, CheckProvider, Proceed, Refuse, InTurn, Idle
  <2>2. req[r].pc # "notify" /\ req'[r].pc # "notify"
    BY <1>0, <1>3 DEF Read, ReadService, ReadForMove, ReadOwnProvider, ReadProvider, ReadCategory,
                Accept, CheckCategory, CheckProvider, Proceed, Refuse, Idle, TypeOK, Request
  <2>3. req[r] # Idle \/ req'[r] # Idle
    BY <1>0, <1>3 DEF Read, ReadService, ReadForMove, ReadOwnProvider, ReadProvider, ReadCategory,
                Accept, CheckCategory, CheckProvider, Proceed, Refuse, Idle, TypeOK, Request
  <2>4. Exact
    BY <1>0, <1>2, <2>1, <2>2, <2>3, BeforeWriting
  <2>5. \A s \in Services : Indexed(s)' = Indexed(s)
    BY <2>1 DEF rows, Indexed, IsIndexable, ServiceDocument
  <2>6. TellsTruth(r)'
    BY <1>0, <1>1, <2>1, <2>2 DEF TellsTruth, NoTask
  <2> QED
    BY <1>1, <1>2, <2>1, <2>3, <2>4, <2>5, <2>6, SlotKeepsOwed DEF Exact
<1>4. CASE Write(r)
  <2>1. req[r].pc = "write" /\ bus' = bus /\ req' = [req EXCEPT ![r].pc = "notify"]
    BY <1>4 DEF Write, WriteCreate, WriteUpdate, WriteEdit, WriteRemove, WritePublish, WritePause,
                WriteArchive, WriteSubmit, WriteReview, WriteProfile, WriteCategory, Writes,
                Store, SetProvider
  <2>2. req[r] # Idle /\ bus[r] = None /\ req[r].op # "submit"
    BY <2>1 DEF Idle, InTurn
  <2>3. Exact
    BY <1>0, <1>2, <2>1, <2>2, BeforeWriting
  <2>4. req'[r].pc = "notify" /\ req'[r].op = req[r].op /\ req'[r].of = req[r].of
    BY <1>0, <2>1 DEF TypeOK, Request, Idle
  <2>5. /\ \A s \in Services : found'[s] # Indexed(s)' =>
                               Touches(EventOf(req[r].op, req[r].of), s)'
        /\ req[r].op \in Removes => service'[req[r].of].status # "PUBLISHED"
    BY <1>0, <1>1, <1>4, <2>2, <2>3, WriteTold
  <2>6. TellsTruth(r)'
    BY <1>0, <1>1, <2>1, <2>2, <2>4, <2>5 DEF TellsTruth, NoTask
  <2> QED
    BY <1>1, <1>2, <2>1, <2>2, <2>4, <2>5, <2>6, SlotKeepsOwed DEF Owes
<1>5. CASE Notify(r)
  <2>1. /\ req[r].pc = "notify" /\ UNCHANGED rows
        /\ bus'[r] = EventOf(req[r].op, req[r].of) /\ req'[r] = Idle
    BY <1>0, <1>5 DEF Notify, TypeOK
  <2>2. req[r] # Idle /\ bus[r] = None
    BY <2>1 DEF Idle, InTurn
  <2>3. \A s \in Services : Indexed(s)' = Indexed(s)
    BY <2>1 DEF rows, Indexed, IsIndexable, ServiceDocument
  <2>4. ASSUME NEW s \in Services, found[s] # Indexed(s)
        PROVE  Touches(EventOf(req[r].op, req[r].of), s)
    <3>1. \A q \in Requests \ {r} : ~Owes(q, s)
      BY <1>2, <2>2, RestingOwesNothing
    <3>2. Owes(r, s) => Touches(EventOf(req[r].op, req[r].of), s)
      BY <1>0, <2>2 DEF Owes, Touches, Mends, NoTask
    <3> QED BY <2>4, <3>1, <3>2 DEF Owed
  <2>5. \A s \in Services : found'[s] # Indexed(s)' => Owes(r, s)'
    BY <1>1, <2>1, <2>3, <2>4 DEF Owes, Touches, rows
  <2>6. TellsTruth(r)'
    <3>1. /\ req[r].op \in Upserts \cup Removes \cup {"review", "profile", "category", "create", "submit"}
          /\ req[r].op # "submit"
      BY <1>0, <2>1 DEF TypeOK, Request, Idle, CatalogOps, ProviderOps, Upserts, Removes, InTurn
    <3>2. bus'[r] # None /\ bus'[r].kind = "SERVICE_REMOVE" =>
            req[r].op \in Removes /\ bus'[r].of = req[r].of
      BY <2>1, <3>1, EventFacts
    <3>3. req[r].op \in Removes => service[req[r].of].status # "PUBLISHED"
      BY <2>1 DEF Owed, TellsTruth
    <3> QED BY <1>0, <1>1, <2>1, <3>2, <3>3 DEF TellsTruth, Idle, NoTask, rows
  <2> QED
    BY <1>1, <1>2, <2>2, <2>5, <2>6, SlotKeepsOwed
<1>6. CASE AuditFails(r)
  BY <1>5, <1>6 DEF AuditFails
<1> QED
  BY <1>3, <1>4, <1>5, <1>6 DEF Step

LEMMA TurnKept ==
    ASSUME SearchTypeOK, InTurn, CarriesOn, OneBusy'
    PROVE  InTurn'
<1>1. UNCHANGED rebuild
  BY DEF CarriesOn, RequestStep, searchVars, StartTask, TaskStep, ReadProviderDocument, PutProvider,
         ListServices, ReadDocument, PutDocument, TaskBecomes
<1> SUFFICES ASSUME NEW q \in Requests
             PROVE  /\ bus'[q] # None => req'[q] = Idle /\ task'[q] = NoTask
                    /\ task'[q] # NoTask => req'[q] = Idle
                    /\ req'[q] # Idle => req'[q].op # "submit"
  BY <1>1 DEF InTurn
<1>2. ASSUME NEW r \in Requests, RequestStep(r), req[r].pc = "notify" => Notify(r),
             req'[r].op # "submit"
      PROVE  /\ bus'[q] # None => req'[q] = Idle /\ task'[q] = NoTask
             /\ task'[q] # NoTask => req'[q] = Idle
             /\ req'[q] # Idle => req'[q].op # "submit"
  <2>1. task[r] = NoTask /\ UNCHANGED task
    BY <1>2 DEF RequestStep, searchVars
  <2>2. /\ q # r => req'[q] = req[q] /\ bus'[q] = bus[q]
        /\ bus'[r] = bus[r] \/ Notify(r)
    BY <1>2 DEF RequestStep, Step, Read, ReadService, ReadForMove, ReadOwnProvider, ReadProvider,
                ReadCategory, Accept, CheckCategory, CheckProvider, Proceed, Refuse, Write,
                WriteCreate, WriteUpdate, WriteEdit, WriteRemove, WritePublish, WritePause,
                WriteArchive, WriteSubmit, WriteReview, WriteProfile, WriteCategory, Store,
                SetProvider, Notify, AuditFails, SearchTypeOK, TypeOK
  <2>3. bus[r] # None => req[r] = Idle /\ ~Step(r)
    <3>1. bus[r] # None => req[r] = Idle
      BY DEF InTurn
    <3>2. Read(r) => bus[r] = None
      BY DEF Read, ReadService, ReadForMove, ReadOwnProvider, ReadProvider, ReadCategory, Accept
    <3>3. Step(r) /\ ~Read(r) => req[r].pc # "idle"
      BY DEF Step, CheckCategory, CheckProvider, Refuse, Write, WriteCreate, WriteUpdate,
             WriteEdit, WriteRemove, WritePublish, WritePause, WriteArchive, WriteSubmit,
             WriteReview, WriteProfile, WriteCategory, Writes, Notify, AuditFails
    <3> QED BY <3>1, <3>2, <3>3 DEF Idle
  <2>4. Notify(r) => req'[r] = Idle
    BY DEF Notify, SearchTypeOK, TypeOK
  <2>5. Step(r)
    BY <1>2 DEF RequestStep
  <2> QED
    BY <1>2, <2>1, <2>2, <2>3, <2>4, <2>5 DEF InTurn
<1>3. ASSUME NEW r \in Requests, StartTask(r)
      PROVE  /\ bus'[q] # None => req'[q] = Idle /\ task'[q] = NoTask
             /\ task'[q] # NoTask => req'[q] = Idle
             /\ req'[q] # Idle => req'[q].op # "submit"
  BY <1>3 DEF StartTask, Dispatch, InTurn, SearchTypeOK, TypeOK
<1>4. ASSUME NEW r \in Requests, TaskStep(r)
      PROVE  /\ bus'[q] # None => req'[q] = Idle /\ task'[q] = NoTask
             /\ task'[q] # NoTask => req'[q] = Idle
             /\ req'[q] # Idle => req'[q].op # "submit"
  <2>1. UNCHANGED catalogVars /\ (q # r => task'[q] = task[q])
    BY <1>4 DEF TaskStep, ReadProviderDocument, PutProvider, ListServices, ReadDocument, PutDocument,
                TaskBecomes, SearchTypeOK
  <2>2. task[r] # NoTask
    <3>1. task[r].pc \in {"provider", "putProvider", "listProvider", "listCategory", "read", "put"}
      BY <1>4 DEF TaskStep, ReadProviderDocument, PutProvider, ListServices, ReadDocument, PutDocument
    <3> QED BY <3>1 DEF NoTask
  <2> QED BY <2>1, <2>2 DEF InTurn, catalogVars
<1> QED
  BY <1>2, <1>3, <1>4 DEF CarriesOn

LEMMA OwedKept ==
    ASSUME SearchTypeOK, InTurn, Owed, CarriesOn, OneBusy'
    PROVE  Owed'
BY RequestKeepsOwed, StartKeepsOwed, TaskKeepsOwed DEF CarriesOn

(* As long as each change is carried to the index before the next one is   *)
(* made, the services index is exact whenever nothing is going on, for any *)
(* number of services, providers, categories and slots: no operation that  *)
(* changes a document or whether it belongs there, submitting for          *)
(* verification apart, lacks the event that repairs it.                    *)
THEOREM OrderlyExact == OrderlySpec => []OrderlyIndexExact
<1> DEFINE IInv == orderly => InTurn /\ Owed
<1>1. OrderlyInit => IInv
  <2> SUFFICES ASSUME OrderlyInit
               PROVE  InTurn /\ Owed
    OBVIOUS
  <2>1. \A s \in Services : found[s] = Indexed(s)
    BY DEF OrderlyInit, SearchInit, Init, Indexed, IsIndexable
  <2>2. \A r \in Requests : ~Busy(r) /\ TellsTruth(r)
    BY DEF OrderlyInit, SearchInit, Init, Busy, TellsTruth, Idle, NoTask
  <2> QED BY <2>1, <2>2 DEF InTurn, Owed, OneBusy, Busy, OrderlyInit, SearchInit
<1>2. SearchTypeOK /\ IInv /\ [SearchNext /\ StaysOrderly]_orderlyVars => IInv'
  <2> SUFFICES ASSUME SearchTypeOK, IInv, [SearchNext /\ StaysOrderly]_orderlyVars, orderly'
               PROVE  InTurn' /\ Owed'
    OBVIOUS
  <2>1. CASE SearchNext /\ StaysOrderly
    <3>1. orderly /\ CarriesOn /\ OneBusy'
      BY <2>1 DEF StaysOrderly
    <3> QED BY <3>1, TurnKept, OwedKept
  <2>2. CASE UNCHANGED orderlyVars
    <3>1. UNCHANGED <<service, provider, active, req, bus, found, task, rebuild, orderly>>
      BY <2>2 DEF orderlyVars, vars, catalogVars, searchVars
    <3>2. \A s \in Services : Indexed(s)' = Indexed(s)
      BY <3>1 DEF Indexed, IsIndexable, ServiceDocument
    <3>3. InTurn'
      BY <3>1 DEF InTurn, OneBusy, Busy
    <3>4. \A s \in Services : found'[s] # Indexed(s)' => \E r \in Requests : Owes(r, s)'
      BY <3>1, <3>2 DEF Owed, Owes, Touches, Mends
    <3>5. \A r \in Requests : TellsTruth(r)'
      BY <3>1, <3>2, TaskFields DEF Owed, TellsTruth, SearchTypeOK
    <3> QED BY <3>3, <3>4, <3>5 DEF Owed
  <2> QED BY <2>1, <2>2
<1>3. IInv => OrderlyIndexExact
  <2> SUFFICES ASSUME IInv, orderly, Quiet
               PROVE  \A s \in Services : found[s] = Indexed(s)
    BY DEF OrderlyIndexExact, QuietIndexExact
  <2>1. \A r \in Requests, s \in Services : ~Owes(r, s)
    BY RestingOwesNothing DEF Quiet, Busy
  <2> QED BY <2>1 DEF Owed
<1>4. OrderlySpec => SearchSpec
  <2>1. [SearchNext /\ StaysOrderly]_orderlyVars => [SearchNext]_vars
    BY DEF orderlyVars
  <2> QED BY <2>1, PTL DEF OrderlySpec, OrderlyInit, SearchSpec
<1> QED
  BY <1>1, <1>2, <1>3, <1>4, SearchTypeCorrect, PTL DEF OrderlySpec
=============================================================================
