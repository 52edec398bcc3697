# Verification of the local service marketplace

TLA+ modules of the local service marketplace, the TLC configurations that check
them on small instances, and theorems about them that TLAPS proves for every
instance. Paths below are relative to the repository; `api` stands for
`apps/api/src/modules`, `web` for `apps/web/src`.

    tlc -workers 2 -config MCServiceCatalog.cfg MCServiceCatalog     # one run
    tlapm Sessions_proofs.tla                                        # one module of proofs

`PROJECT.json` lists the runs, the theorems, the source lines each definition
stands for, and for every property a mutant of the model that violates it.

## 1. The system

A NestJS application (`apps/api`) keeps its data in PostgreSQL through Prisma, at
the default isolation level READ COMMITTED, caches a little in Redis and keeps two
Meilisearch indexes, `services` and `providers`. A Next.js application (`apps/web`)
keeps its session in each tab's sessionStorage.

What makes the code hard is the same almost everywhere. A handler is an `async`
function. It reads rows, decides, awaits something else, and writes by id; other
requests run at every `await`. Few handlers use a transaction, and those that do
read before it. An audit row is inserted after the write, and an event is emitted
after that, in memory. So the models give **every call to the database or to
another service a step of its own**, keep what the handler still remembers of its
reads, and let requests interleave.

### Inventory

| component | state | operations | what is hard | what makes it correct |
|---|---|---|---|---|
| Sessions (`api/identity/services/auth.service.ts`, `token.service.ts`) | password hash, refresh tokens with `revokedAt` and `replacedById`, reset tokens | register, login, refresh (rotation), logout, forgotPassword, resetPassword | rotation is read, issue, read, revoke; failures between; two refreshes or resets of one token | a session that is over stays over; one valid token per session; a reset token is spent once, but by resets that had read it before; a change of password ends the sessions |
| Access control (`api/identity/guards`, `strategies`) | none of its own; the access token's claims | JwtStrategy, PermissionsGuard, TenantGuard | claims that are older than the rows | a request acts for a member only |
| Audit (`api/identity/services/audit.service.ts`) | audit rows, never read | log | it throws after the write was committed | a failed insert loses nothing but the row and the event |
| Tenancy (`api/tenancy`) | tenants, organizations, memberships, `activeTenantId`, role BUSINESS | provision, createBusinessOrganizationForUser, switchTenant, resolve, getCurrentForUser | check before the transaction; the stored tenant, the token's and the answer's | a user is never given a tenant of somebody else; one owned business tenant per user |
| Provider profile (`api/providers/services/provider.service.ts`) | one profile per user and tenant, with qualifications, certifications, languages | getOrCreateMe, updateMe, updateById, list | two first calls; replacement of child rows | one profile; isActive reaches the index |
| Provider verification (`provider-verification.service.ts`) | `verificationStatus`, requests for verification | submitMine, review | submit and review overlap | a request is decided once; the status is that of the last decision |
| Provider availability (`provider-availability.service.ts`) | weekly slots | create, update, delete | each end of a slot is checked against a read of the other | a slot ends after it starts |
| Service catalogue (`api/services/services/service-catalog.service.ts`) | service rows with status and `publishedAt`, slug | create, update, publish, pause, archive, remove | all decisions rest on old reads | the life cycle; only verified providers publish complete services |
| Service children (same file) | media, tags, FAQs, requirements, locations | add, update, remove, and replacement by update | limits by count before insert | limits; a published service keeps what publishing demanded |
| Categories (`category.service.ts`) | rows with `parentId`, `isActive` | create, update (move), remove, tree | the walk to the root before a move | the parents form a forest, every category is listed |
| Search synchronization (`api/search/search-sync.listener.ts`, `indexers/`, `search-admin.service.ts`) | the two indexes; events, listener tasks and rebuilds in memory | handlers of four events, upsert, remove, reindexAll | tasks run side by side; crashes; failing calls; a rebuild among them | only indexable services are found, and all of them |
| Search queries (`search.service.ts`) | query statistics, a Redis cache, recently viewed | search, autocomplete, popular, recent, trackView | stale index and stale cache | a withdrawn service is not offered |
| Web session (`web/features/auth`, `features/tenancy`, `middleware.ts`) | tokens and tenant per tab, one cookie for all | forms, TenantProvider, TenantSelector, sign-out, gate | answers after the page or the session is gone | the tab shows the tenant it acts in; signed out means signed out |
| Web pages (`web/app`, `features/search`, `features/services`, `features/provider`) | what each page shows and has asked for | search, autocomplete, editors | answers out of order | a page shows the answer to its last question |
| Infrastructure, configuration, health, error filter, shared types, layout components, seed | none that changes while the program serves | | | |
| Bookings, payments, notifications, reviews | empty directories | | | |

How they interact: the web calls the API over HTTP; handlers share rows of
PostgreSQL and nothing else; catalogue, provider and category services emit events
to an in-process EventEmitter2; the listener alone writes the indexes, besides the
administrator's rebuild; `switchTenant`, `register` and the organization request
issue tokens through TokenService.

### Hazards

`PROJECT.json` lists them at their lines, with the properties that would notice each
going wrong. Three have none, because the code as it stands keeps no such property;
their notes say what happens instead. The notes of some others say which part of the
hazard their properties leave out, because the code does.

## 2. Modules

    CatalogTypes <-- ServiceLifecycle          what the catalogue promises
         ^             ^          ^ refines
         |             |          |
         +------- ServiceCatalog -+ <-- SearchSync <-- SearchRebuild <-- SearchOrderly
         |             |        ^--- CatalogAlone
         +-- ProviderPages <-- WebPages --> SearchPage --> SearchQuery
                                  ^--- PagesApart
    ServiceContent         what services say: slugs, prices, child rows
    ProviderProfile        profiles, verification, availability
    CategoryTree           the forest of categories
    SearchReads            popular searches and their cache
    SessionLife <-- refines -- Sessions <-- SessionsAlone
    Tenancy <-- WebTabs <-- WebCalm

Each `MCX` is the instance of `X` for TLC, and each `X_proofs` holds the theorems about
`X` and about what `X` is built on: those of ServiceCatalog are in SearchSync_proofs,
those of Tenancy in WebTabs_proofs, those of SearchPage and ProviderPages in
WebPages_proofs.

Much that users count on holds until requests overlap, or until something fails. The
small modules CatalogAlone, SessionsAlone, WebCalm, SearchOrderly and PagesApart add to a
specification one Boolean that says whether that has happened yet (`alone`, `calm`,
`orderly`, `apart`). It is a function of the steps taken and hinders none of them, so
each states its properties over the same behaviours as the rest: `alone => P`.
SessionsAlone also remembers which reset tokens have changed a password (`spent`) and which
resets had read theirs before that (`raced`), and PagesApart which pages answers have
announced (`told`); what is said with these is said of every behaviour, overlap included.

Common to the modules of the API: `Requests` is the set of request slots, so its size
bounds what runs at the same time; `req[r]` is what the handler in slot r remembers,
its `pc` the call it makes next; `Idle` is a free slot; `Ops` bounds the operations
clients call and `Faults` what may go wrong. A request that is refused by its first
read leaves no trace and is a request that does not happen. Variables called
histories (`overtaken`, `crossed`, `mixed`, `crowded`, `raced`, `stale`, `undisturbed`,
`unfit` of a page, and those of the modules just named) are read by properties only, never
by a guard.

### ServiceCatalog and ServiceLifecycle

`service[s]` is a row of `Service` with the fields the handlers decide on; texts,
price, duration, media, tags and locations together are one value of `Contents`,
and `Complete` are the contents `assertReadyToPublish` accepts. Ids are UUIDs, so a
deleted row is kept as `DELETED` and its id is not used again.

| action | code |
|---|---|
| ReadService, ReadForMove, ReadOwnProvider | getAccessibleServiceOrThrow with the handler's check of the status; resolveWritableProvider |
| CheckCategory | assertActiveCategory, in create and in an update that has a categoryId |
| CheckProvider | publish's read of the provider, then assertReadyToPublish on the row read **before** |
| WriteCreate ... WriteArchive | the prisma call of each handler: by id, only the fields it sets |
| WriteEdit | the handlers on media, tags and locations |
| WriteSubmit, WriteReview, WriteProfile, WriteCategory | the writes of other services that the checks read |
| Notify, AuditFails | the audit row, then the event; or the insert fails and there is no event |
| Refuse | a later check fails, or the row to write is gone (Prisma P2025) |
| Crash, Dispatch | the process stops; EventEmitter2 calls the listener |

`ServiceLifecycle` is the contract a client sees: the same operations, each one
atomic step that looks at the rows as they are when it takes effect.

### SearchSync

Extends ServiceCatalog by `found` and `providerFound`, the documents of the two
indexes, `task[r]`, the listener's task for the event of slot r, and `rebuild[i]`,
reindexAll of index i with its snapshot. A task reads the row again (ReadDocument)
and calls Meilisearch afterwards (PutDocument); for a provider or a category it
first lists the services and goes through them one by one. PutFails is a failed
call: `remove` swallows the error and its caller goes on, an add is caught by the
listener and the rest of the task is lost.

Meilisearch puts the calls of all clients into one queue and applies them in order,
so an index is modelled as what it holds when the calls accepted so far are applied.
A slot takes the next request when the task of the previous one is over: two slots
therefore give two tasks, or a task and a request, side by side.

SearchRebuild adds a history, `undisturbed`: since the rows were read for the rebuild of
the services index, no row has changed and no task has written to the index. What a
rebuild promises (`RebuildRepairs`) is stated of those rebuilds, since it promises
nothing of the others: a row that changes after the read is added as it was.

SearchOrderly adds `orderly`: so far every request, with its event and its task, was over
before the next one began, nothing failed, and nobody submitted his verification or
rebuilt an index. A submission is left out because it changes documents and emits no
event (a hazard of its own, with `MCSearchSubmit.cfg`).

### Sessions and SessionLife

Only hashes of tokens are stored, so a client can present what it has received:
`held` are the refresh tokens, `sent` the reset tokens that an answer carried. The
program has no name for a session; `token[t].session` gives one to the chain of
tokens that begins with a sign-in. Refreshing is ReadForRefresh, IssueToken,
RevokeOld, Reply. Fails ends a handler anywhere: a call throws, the answer is lost,
or refresh finds that the account is gone after it has rotated the token. Only the
first read of a handler looks at `expiresAt`, so a token that expires during its
rotation is taken to expire afterwards (ExpireToken has that guard; it loses no
behaviour, since nothing in between reads the field). forgotPassword hands its
token over in the answer, as the code does outside production; in production no
user ever receives one, which is a subset of these behaviours. No code sets a user
to DISABLED. `SessionLife` has users with passwords and sessions that begin, end and
never come back, and a change of password ends the sessions of its user.

### Tenancy and WebTabs

A tenant is written in one transaction with its owner's membership, its organization
and `activeTenantId`, and no code changes it later, so `tenant[t]` is one value.
`req[r].tenant` is the `tid` of the token a request issues, `req[r].shown` the tenant
context of its answer. `RowLeft` is a bound: a request that will create a tenant is
taken up while there is a row left for it.

WebTabs adds tabs. `session[c]` is the sessionStorage of tab c, `cookie` the cookie
shared by all of them. `from[r]` says which tab awaits request r and whether the page
that asked is still there (`open`): React keeps running an awaited function after its
page was left, and a reload drops it. Visit, Reload, SubmitForm, Select,
SubmitOrganization and SignOut are what a user does; Refresh, ClearSession,
DeleteCookie what the page does on its own; PersistSession, SetCookie, ShowCurrent,
Ignored and CallFails what becomes of an answer. `Habits` says what users do:
"reload" at any time, "hurry" to act again before the last answer is there.

### CategoryTree

`parent[k]` is `parentId`, `Root` for none, `Absent` for no row. A move walks from
the new parent to the root, reading the live table at each turn (Step, Refuse), and
then writes (WriteMove). create and remove check before they write as well, but the
foreign keys (`onDelete: Restrict`) repeat their checks at the write, so each is one
step; a move has no such second line. A value of `Categories` stands for a new UUID
once nothing mentions the old one. `overtaken` is a history: no action reads it.
`Listed` is what `toCategoryTree` shows: rows on a cycle are not reachable from a
root, so it omits them and everything below.

### ServiceContent

The same file as ServiceCatalog, seen from what a service says. `row[s]` has the
status, the slug and what the columns price and pricing model say; `child[c]` is a row
of media, tags, FAQs, requirements or locations, and, for a location, what city and
coordinates say. Status and rights are checked as in ServiceCatalog; nothing here is
about events.

| action | code |
|---|---|
| ReadForChild, Count, Insert | addMedia ... addLocation: getAccessibleServiceOrThrow, the count against the limit, the insert |
| FindToDrop, Drop; FindToChange, Change | removeX; updateX, updateLocation with its merge of what it read and what was sent |
| ReadForUpdate, Probe, LockRow, FindLists, DeleteLists, Commit | update: the check of price against pricing model, allocateServiceSlug probing `-2`, `-3` ..., then the transaction with replaceChildren |
| BeginCreate, Probe, Create | create: probes, then one transaction |
| ReadForStatus, WriteStatus; ReadForRemove, Remove | publish, pause, archive; remove with its cascade |
| Fail | a call throws, a unique key refuses, a foreign key refuses |

`update` is a transaction at READ COMMITTED. If a column is given (`Columns`), its first
statement locks the service row until the commit, and a second such update waits. If only
lists are given, the `data` of that statement is `{}` (lines 207 to 234): Prisma issues no
UPDATE and nothing is locked, so replacements of one list run side by side. A `deleteMany`
finds the rows committed when it begins (FindLists, `req[r].seen`), waits for those that
another open update has deleted (`Held`), and does not look for others afterwards
(DeleteLists); rows that were inserted meanwhile survive. An insert of a child takes a
key-share lock on the service row, which an UPDATE excludes only if it changes a key: the
slug is part of a unique key, so the insert waits exactly for an update that renames. A
probe sees committed rows only; the unique key on (provider, slug) decides at the write.

### ProviderProfile

Every handler of a provider begins with getOrCreateMe, which creates the profile if the
read found none; the unique key refuses the second of two (`CreateProfile`).
`lists[i][k]` says *which updates'* rows a list of a profile consists of, which is all the
replacement of qualifications, certifications and languages can get wrong. The transaction
is that of ServiceContent: the first statement holds the provider's row only if a column is
given, and with lists alone it holds nothing (lines 158 to 169). An element of `lists[i][k]`
therefore names the update (`batch`, one of `Batches`) and says whether it wrote columns. `filed[i]`
are the requests for verification, oldest first; a review acts on the newest it has
read. A slot's two ends are validated against the row as it was read and written one by
one.

### SearchReads

`stat` are the rows of SearchQueryStat, `cache[l]` what Redis holds for limit l. A
search starts a task nobody awaits (Count, Keys, Del); popular is Get, Rows, Set. Redis
may fail anywhere and an entry may expire at any time. `stale` is a history: the limits
whose entry was outdated when it was stored, or whose removal failed.

### SearchQuery, SearchPage, ProviderPages and WebPages

SearchQuery is the chain from the filters of a page to what the API makes of them: what the
URL drops (`Serialize`), what the DTO refuses (`InRange`, with the texts that are too long
for a parameter in `TooLong`; no input of these pages has a `maxLength`) and what
`assertGeoSort` refuses (`LocatedIfNeeded`). The total an answer states is Meilisearch's
estimate over an index that others change, so `Announced` leaves it open: an answer has no
items, counts only those it brings, or announces any number of pages from its own one to
`MaxPages`. SearchPage is one tab on the list, the map, the home page and
the page of a category, with the search bar. `tab` is the page that is shown, `nav` the
one asked for: a control computes a URL from the filters of the page that is *still
shown*, and a later navigation replaces one that has not arrived. `calls` and `asks`
are the searches and requests for suggestions under way, in the order they were sent
and answered in any order, as nothing takes them back.

ProviderPages is one tab in the workspace of a provider: the list, page and forms of
his services, his availability and the submission of his verification. The API is
`ServiceLifecycle`, one atomic step per call, and other tabs take steps of it as well;
a call is served (ServeLoad, ServeWrite), answered (Answer) or lost on the way (Lose).
A page that was left drops what an answer shows, but what the answer asks of the router
happens wherever the user is by then (`to = "tab"`). The DTOs of the API check more than the
zod schemas of the forms do (a price with three decimals, a city of more than 100
characters, a document's URL of more than 1000): `Unfit` are the contents for which only the
API notices (`Fit`), and `page.unfit` remembers that the page has sent such a one. WebPages puts both under the one
router of a tab: the last page that was asked for wins, whoever asked.

What reading these pages into a model showed, and the properties therefore leave room
for:

- A choice made while a navigation is pending drops the choice before it
  (`chosen.waited` in `ChosenIsKept`).
- The filter and the sort by distance are always refused: the API demands coordinates
  and no control sets them. Texts that are too long and negative prices are refused as
  well; nothing else is (`SearchRefusedForAReason`).
- An older call that fails late leaves its error over newer results (`list.crowded`),
  and an older answer is shown under newer filters (`list.late`). Next then leads to a
  page of a question that was never answered; as long as no two searches were under way
  together, a further page is asked for only after an answer to that very question has
  announced it (`ApartAskedPageAnnounced`, over the histories of PagesApart). That the
  page still exists when it is asked for is not promised: the index may have changed.
- A save, a creation or a deletion whose page was left still pushes its own page and
  replaces the one the user has asked for.
- The form for editing always sends `categoryId`, and a category that was retired is
  refused: such a service cannot be saved without another category.
- What only the API's validation finds unfit can be sent from the form of a service and
  from that of the verification, and is refused.
- Availability remembers one `deletingId`: a second removal gives the button of the
  first one back, and the second click on it is refused.

## 3. Runs

Every "pass" run terminates with the whole state space explored. Some instances choose
in their initial state what one behaviour is about (`topic` and the like, variables of
the MC module): a bound on what is asked for, never on how it interleaves.

| run | instance | question and answer |
|---|---|---|
| catalog | 1 service, 2 categories, 2 slots; failed audits, crashes | What holds when every decision may rest on an old read? A published service has its date (`PublishedHasDate`), a deleted one stays deleted (`DeletedIsFinal`), an edit is never a change of status (`EditsKeepStatus`), whoever publishes has read the service complete (`PublishedFromCompleteRead`). Until two requests overlap the handlers implement `ServiceLifecycle`, whatever fails (`AloneImplementsLifecycle`). |
| publish_race | 2 slots | *Violation.* A review rejects the provider between publish's check and its write (service-catalog.service.ts, lines 298-307). |
| search_sync | 2 services, 1 slot with its task, both rebuilds, every failure | A service that was never published is never found (`NeverPublishedNeverFound`). Whatever crashes and failing calls left in the index, a rebuild that nothing disturbs repairs it (`RebuildRepairs`). As long as each change reaches the index before the next is made and nothing fails (`orderly`), the index is exact at rest (`OrderlyIndexExact`) and catches up (`OrderlyIndexCatchesUp`): each operation emits the event that repairs what it changed. |
| search_overlap | 2 slots | *Violation.* The task of a publish reads the row; a pause and its own task run; then the first task adds its document. The paused service stays in the index. |
| sessions | 2 users, 3 tokens, 2 sessions, 2 slots; failures, crashes | A session that is over stays over (`OverIsOver`), even if two refreshes, a logout and a reset overlap. In whatever order resets run and fail, a reset token changes a password once, and again only for a request that had read it before it was marked as used (`ResetTokenSpentOnceUnlessRaced`). Until two requests overlap there is one token per session (`AloneOneTokenPerSession`) and tokens implement `SessionLife`; an answer lost in the middle of a rotation costs the session and nothing else. |
| web | 1 tab, 2 users, 3 tenants, 2 slots, reloads and errors | Nobody is given a tenant of somebody else (`ContextIsMember`), the header a tab sends belongs to its token (`HeaderAccepted`), owners of a business have the role (`BusinessOwnersHaveRole`), a signed-out tab is signed in by a form only (`SignedOutStaysOut`). As long as nothing failed and users waited (`calm`), the tab shows the tenant it acts in, passes the gate exactly if it has a session, and its users own one business tenant at most. |
| providers | 1 user, 2 profile rows, 1 slot of availability, 3 times, 3 request slots, 3 batches of rows | First calls that overlap leave one profile (`OneProfileEach`), a list never mixes the rows of two updates that held the provider's row, while lists given alone may stay beside those of another update (`ListsReplacedWhole`), who is under review has an open request and, without a stale decision, nobody else (`OpenWhileUnderReview`), and a slot ends after it starts unless two updates overlapped (`ForwardUnlessOvertaken`). |
| service_content | 2 services, 3 child rows, 2 titles and attempts, limit 1, 2 slots | Limits are exceeded by overlapping adds and replacements only, and then by one full list for each request that may be under way (`LimitsHold`); slugs stay apart (`SlugsDiffer`); a published service keeps its address unless an update had read it before (`PublishedKeepsSlug`); a price or location that contradicts itself takes two updates (`SoundUnlessMixed`). |
| categories | 3 categories, 2 slots | Parents exist, every walk ends even on a cycle (`WalkEnds`), and the tree loses a category only when a move is written that another one overtook (`ListedUnlessOvertaken`). |
| category_cycle | the same | *Violation.* Two moves under each other's category both reach the root and both write. |
| search_reads | 3 texts of 2 queries, 2 limits, 2 searches, 3 slots | Which outdated lists of popular searches Redis can hold, and that nothing else is outdated (`CachedIsCurrent`). |
| web_pages | 1 tab; answers that announce up to 2 pages; 3 texts (fit, too short, too long); 1 service, 1 unfit content, 3 availability slots; 3 acts of the user or others | At rest a list shows what its URL asks for (`ShownIsAsked`), suggestions fit the text (`SuggestedIsTyped`), the URL says what was chosen (`ChosenIsKept`), only distance, negative prices and texts that are too long are refused (`SearchRefusedForAReason`), a further page is asked for only if an answer to that question announced it (`ApartAskedPageAnnounced`); a workspace page shows what is stored (`ShowsWhatIsStored`) and offers what will not be refused (`RefusedForAReason`): each but for the cases named in it. |

Two configurations outside the list exhibit what the notes of two hazards say:
`MCSearchSubmit.cfg` (a submission for verification changes the documents of a
provider's services and emits nothing) and `MCSearchPlaces.cfg` (publishing a service
changes the places of its provider, whose document follows provider events only).
`MCTenancy.cfg` checks Tenancy alone, without tabs.

### Bounds, and why they are enough

- *Two request slots*, three where a third one waits for what the two do (providers,
  search_reads). What is at stake is one decision taken on a stale read, which needs
  the request that decides and one that interferes; either may repeat without limit,
  since slots are given back. The theorems hold for any number.
- *One slot in search_sync*, with its task, two rebuilds and all failures: what two
  tasks side by side do is what search_overlap exhibits, and `NeverPublishedNeverFound`
  is proved for any number.
- *One service, one provider.* Services share only their provider and category; the two
  services of search_sync make the refresh of a list longer than one.
- *Two contents* (complete or not), *two categories* (the one left and the one moved
  to), *two dates* (to tell the first publication from a later one).
- *Three tokens, two sessions.* A rotation needs two tokens, a second one in flight a
  third; two sessions tell a continued one from a new one. Tokens are not given back:
  when they are used up, what is left to do is to log out, and the run checks for
  deadlock.
- *Three tenants*: an individual tenant and two business tenants that could be the same
  user's, or one for each of two users. *One tab*: tabs share only the cookie and the
  rows; with two, one that switches tenant leaves the other showing the old one, and
  one that signs out takes the other's cookie along, so nothing that these properties
  say of a tab at rest survives.
- *A limit of 1 with three child rows* lets two adds exceed it, and two replacements that
  hold no lock; the bound of `LimitsHold`, two lists of one row for two slots, is reached.
  *Two attempts* at a slug: one that is
  taken and one that is free, or none.
- *Two updates of a profile at a time, one list each* (providers): the third slot serves the
  other topics. Three batches: the rows that are there and those of the two updates.
- *Three times of day*: two ends and one between or beyond.
- *Two searches, two limits*: one list that is current after a search and one that is
  not; the theorem holds for any number. The place in a list is what a limit cuts.
- *Two pages, two calls at a time, three acts* in web_pages: a page beyond the first, an
  answer that was overtaken, and an act after each; a fourth act takes the run, a million
  states as it is, past what is practical. One slug suffices for the category, as do a
  text that is fit to be asked for, one below two characters and one above the limits:
  the model compares texts in no other way. Every act may be followed by any number of
  steps of the machine. What was asked is answered or lost before or after the user
  moves on; a call that reaches the server only after a later one is in the order
  `sent` is served in, which is any.
- *Three categories*: a cycle of two, and one below it that is lost with it.
- *Symmetry* is used on slots, ids and users, which the modules compare for equality
  only, and never in a run with a liveness property.
- Deadlock is not checked in search_reads and web_pages: there `MaxSearches` and
  `MaxMoves` end the behaviour.

### Fairness

search_sync assumes weak fairness of three things per slot: an accepted request goes on
(the database answers), an emitted event reaches the listener (the Node event loop runs
every callback), a listener task makes its next call. Clients and administrators need
not do anything, and the fairness is demanded only as long as the behaviour is `orderly`.
The property is about behaviours in which nothing fails; with failures it is false, since nothing repeats a lost event until an administrator rebuilds the
index.

CategoryTree assumes, per slot, that a handler's next call returns or throws
(`WF(Work \/ Fails)`). No fairness makes a move succeed, and other moves may go on
changing the table for ever; walks still end because `visited` only grows.

The pages need no fairness: their properties are about pages at rest.

## 4. Proofs

TLAPS proves these for every value of the constants, from the named assumptions on
constants (`CatalogAssumption`, `RequestAssumption`, `EventAssumption`,
`SearchAssumption`, `SessionAssumption`, `TenancyAssumption`, `CallerAssumption`,
`HabitAssumption`, `CategoryAssumption`, `ProviderAssumption`, `ContentAssumption`,
`SearchesAssumption`, `LimitsAssumption`, `TextsAssumption`, `TextAssumption`,
`OffersAssumption`, `NoneAssumption`, `WorkspaceAssumption`, `TooLongAssumption`,
`MaxPagesAssumption`). They say
that parameters have the right shape, that `None` is no id, row, event or text, and, where
something is counted, that slots, child rows or texts are finitely many. TLC
evaluates every one of them. Type correctness of each of these modules is a theorem
rather than a property of a run.

The theorems about behaviours without overlap are about the specification with its
history, `alone => P`: they hold of every behaviour up to the step that overlaps, with
any number of slots.

**SearchSync_proofs, the catalogue.** `TypeCorrect`; `PublicationDated`, `DeletionFinal`
and `EditsHarmless` (with any number of requests). They rest on one lemma, `RowSteps`,
that says what a step can do to a row. `PublishedWhatWasRead`: whoever writes PUBLISHED
has read the row complete and not archived, however requests overlap; the invariant says
of every publish what it remembers at each of its calls. `AloneRefines`: until two
requests overlap, the specification implements `Lifecycle!Spec`. Its invariant is
`SeenIsCurrent`: without interference, what a request has read is still so. Type
correctness alone does not tell a write from the row that was read, and under overlap
`SeenIsCurrent` is false, which is exactly what publish_race exhibits.

**SearchSync_proofs, the indexes.** `CompositionRefines`: a step of the composition is a
step of the catalogue or leaves it alone, so all theorems on the catalogue carry over.
`SearchTypeCorrect`. `OnlyPublishedFound`: the property itself is not inductive, since
a document may be in the hands of a task or a snapshot; the invariant says of *every*
document, in the index, in a task or in a snapshot, that its service has a date, and a
date is never taken away (`DatesStay`). `RebuildsRepair`: `Repairing` says of a rebuild
that nothing has disturbed that its snapshot is still what the rows say and that, once it
has cleared the index, the index is empty. `OrderlyExact`: as long as the behaviour is
orderly, the index is exact at rest. The property says nothing of the moments between; the
invariant is `InTurn` (at most one slot is at work) and `Owed`: whatever document differs
from its row, the request, event or task under way will write it, at each of its calls.

**Sessions_proofs.** `Invariance` of `IInv`: types, that requests refer to tokens that
exist and that a token's session has one user, that a token known to a client or in an
answer belongs to a registered user. `OverForGood` follows from how the set of
usable tokens of a session can grow (`UsableShrinks`, `UsableIssued`,
`RefreshingReads`): only by a refresh that is under way, and only a live, held token
starts one. Until two requests overlap, an invariant adds to the two properties what
makes them inductive: the token a refresh has read is still valid and held, and until the
answer is sent nobody holds another one for that session. `AloneOneToken` and the
refinement `AloneSessions` follow. `ResetOnceUnlessRaced` is about any number of requests
that overlap and fail: `SpentMarked` says that a token that changed a password carries its
mark, `MarksKept` that no step takes the mark back, and `SpendsWrites` that nothing but the
transaction of resetPassword changes a password for a reset; so whoever is about to spend
a spent token read it before the mark. Without the mark in that transaction the property fails.

**WebTabs_proofs.** Of Tenancy: `TenancyTypeCorrect`; `ContextStaysMember` (the tenants
of active users and of requests are their own; inductive with types, because a membership
is never taken away); `OwnersHaveRole`; and, with one slot, `SerialOneBusiness` and
`SerialAnswersMatch`. Of the tabs over it: `WebUsesTenancy`, a step of the tabs is a step
of Tenancy or leaves it alone; `WebTypeCorrect`; `HeaderAlwaysAccepted`, with `CallLinked`, which
ties every call a tab waits for to the request that answers it, and `AnswerFull`, that a
request about to answer knows the tenants it answers with. `NobodySignsBackIn`, that a signed-out tab is signed in by a form only, assumes
that users are patient (no "hurry" in `Habits`), since an answer that comes after the
sign-out does sign back in. `CalmTabShowsItsTenant`, `CalmGateIsTheSession` and
`CalmUserOwnsOneBusiness` assume one tab and patient users; with two tabs, or with hurry,
TLC refutes each, so the hypotheses are the ones the code needs. They are about
any number of users, tenants and slots. The invariant says of the one request a tab waits
for that its answer will bring the session, the cookie and the selector together again.

**CategoryTree_proofs.** A category is listed exactly if no set that is closed under
`parent` contains it. `IInv` says of each walk that the category to move is not among
the visited rows, and, unless a move overtook it, that the parents of visited rows are
visited rows, `at` or a root, and that no closed set lies within them. Hence
`ListedUntilOvertaken`: a write that was not overtaken closes no set that was not
closed before.
`CategoryTypeCorrect`, `ParentsAlwaysExist`, and `AloneAcyclic`: with at most one move
at a time, and any creations and deletions beside it, the categories form a forest.

**ProviderProfile_proofs.** `ProfileTypeCorrect`, with `HasProfile`: whoever has found
or created a profile may rely on it, as none is deleted. `OneProfile`. `ListsWhole`,
from `Holding`: a transaction *that wrote a column* holds the row from its first statement
to its commit, so no other of its kind inserts rows beside it, and whatever rows of its
kind there are it has found. Of transactions that give lists only nothing of the sort is
assumed. `UnderReviewOpen`, from `Sound`:
what a submission has read of the status, and a review of the newest request, is still
so unless another one has overtaken it. `SlotsForward`, from `Compared`: the ends an
update has compared are the ones that will be stored.

**ServiceContent_proofs.** `ContentTypeCorrect` with `Holding`: the row an open update
has written, if it had a column to write, is locked for it and stays; an update of lists
only may find the row gone at its commit. `SlugsApart`: what an open update has written is
not visible to others, so the invariant adds `Reserved`, that no other row has the slug
an open update brings and no other open update brings it. `PublishedAddress`, from
`SlugCurrent`: an update that nobody overtook brings a published service its own slug.
`RowsSound`, from `ClaimsCurrent` and `PlacesCurrent`: what was sent makes sense with
the row as it is now, unless one half was sent only and another request has replaced the
other. `LimitsKept` counts, and uses no lock: `Room` (an add that is not overtaken has room for its
row), `Spread` (for every set of replacements under way: the rows they have not found and
the adds under way fit in one full list for each of the other slots) and `Tight` (without
overlap, the limit), over child rows of services that exist (`Owned`). That `Spread` speaks
of every *set* of replacements is what makes it inductive: when one of them commits, its
rows come in and the rows it found go, whichever the others have found.

**SearchReads_proofs.** `ReadsTypeCorrect` and `PopularCurrent`: `CachedIsCurrent` is
inductive with the types, since the only step that makes all lists outdated, the upsert
of a statistic, leaves a task that has yet to look for keys.

**WebPages_proofs.** The invariant of the pages is `PagesTypeOK` (`PagesTypeCorrect`),
`OneNavigation` (`OneNavigationAtATime`: search pages and workspace never both wait for a
page), `ListInv`, `BarInv` and `ChosenInv`. `Router` says that a step of the composition
is, for the search pages, a step of theirs, a navigation of theirs that the workspace
replaced, or the workspace taking their place. `ListShowsWhatIsAsked`: the list is the
answer to its URL, or the call that will answer is still the last one sent; the lemma
`AnsweredFacts` says what removing an answered call does to the others, `QueryFacts` that
the query is a function of what the URL keeps. `BarSuggestsWhatIsTyped` is the same of
the bar. `WaitingKeepsChoices`: a choice that did not wait is in the URL that is shown or
asked for. `SearchesRefusedForAReason`: `AdmittedIsAnswerable` says that, of all queries the
controls can produce, the API admits exactly those that need no place and have no negative
price and no text that is too long. `ApartPagesAnnounced`: `ApartInv` says of the URL that is
shown, of the one asked for and of the search under way that an answer has announced their
page of their question (`Heard`), and that what the list shows has been told.

**WebPages_proofs, the workspace.** `WorkspaceShowsWhatIsStored` and
`WorkspaceRefusesForAReason`, neither of them inductive: a page may be loading, waiting for
a write, or showing a service its own deletion has just removed. The invariant `WorkInv`
adds to that of the pages

- `WorkShape` (`WorkspaceTypesAndOrder`): types of the rows, and that the calls of pages
  that were left stand before those of the open one, which is what keeps the latter in
  order when the former are answered, dropped or lost;
- `OpenInv`, about a page that nobody has disturbed. `Single`: a page other than the hours
  has one call under way (`WorkspaceOneCall`). A load will bring what is stored. A write
  that is not yet served is one the page offers on the row as it is (`Unserved`), and its
  content is fit or the page is known to have sent what is not (`Suits`); one that
  was performed has left what its answer says (`Served`); one that was refused is excused.
  With none under way the page shows what is stored or is about to be left (`Fresh`, with
  `Leaving` for the router). `Hours`: several calls run side by side, so what is shown last
  is what the *last* list sent brings, unless one of those before it is answered after it
  and has then been marked as overtaken. `Quiet`: as long as no slot is written while another is,
  the call under way is one the API accepts.

`WorkStep` sorts the steps of the whole tab into six kinds (the page and its calls are left
alone, disturbed or closed, acted on, served, answered, or a page is mounted); one lemma per
kind shows `OpenInv` again (`IdleOpen`, `ActsOpen`, `ServedOpen`, `AnsweredOpen`,
`MountOpen`). They rest on what each operation on the sequence of calls leaves where
(`LeftOf`, `WorkAbandoned`), on what each update of the page does field by field, and on
what a write of the life cycle does to its row (`PerformedOne`, `RefusedOne`).

**Checked by TLC only.** Liveness (`OrderlyIndexCatchesUp`, `WalkEnds`): fairness is out
of the prover's reach. Every other property of the passing runs is stated by a theorem. No
module declares a RECURSIVE operator.

## 5. Not modelled

- Wording, formatting, hashing, rate limits, file storage (a pass-through of URLs): no
  state.
- Roles and permissions. JwtStrategy reads a user and its permissions anew for every
  request and the guards compare them with constants of the route; they keep nothing,
  and every handler in the models is one that was let through. Which *tenant* a request
  acts in does depend on what was issued before, and is in Tenancy and WebTabs.
- Recording a view, the recently viewed services and the public page of a service or a
  provider: single reads and one upsert that nothing else decides by.
- Ranking, highlighting and typo tolerance: Meilisearch's own.
- The paging of a provider's list of services: ProviderPages shows what fits on the first
  page (20 services).
- What the forms of profile, onboarding and administration contain. Their calls are the
  handlers of ProviderProfile and the reviews of ServiceCatalog; their pages load once
  and show what an answer says.
- A call of a page that is lost on its way to the server is not served later: losing it
  before or after it was served are the cases of `Lose`.
- That a handler's calls may be retried by a proxy: the code retries nothing, and a
  request sent twice is two requests, which the slots contain.
- Several API processes. A second process would add nothing to the interleavings of
  the database calls; its events and tasks would be lost separately in a crash, while
  `Crash` loses all of them at once.
- The seed, migrations, configuration, health checks and the error filter.

## 6. Plan

Done, in this order: ServiceCatalog with its contract (the heart of the marketplace),
SearchSync over it, Sessions with its contract, Tenancy, WebTabs over it, CategoryTree,
ProviderProfile, ServiceContent, SearchReads, the pages; theorems for all of them, with
what holds until requests overlap stated over histories.

What would come next:

1. The forms of profile and onboarding in ProviderPages, over the handlers of
   ProviderProfile instead of the life cycle's `submit`.
2. As theorems: that every step of the tab is, for the rows, a step of `ServiceLifecycle`
   or leaves them alone, and that the workspace asks for writes of the provider's own
   services only, whichever pages were left on the way.
