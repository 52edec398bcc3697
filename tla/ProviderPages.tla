--------------------------- MODULE ProviderPages ---------------------------
(***************************************************************************)
(* A tab in the workspace of a provider: the list of his services, the     *)
(* page of one (detail-client), the forms that create and edit one, his    *)
(* availability and his profile with its verification.                     *)
(*                                                                         *)
(* A page that is mounted loads what it shows; what the user does there is *)
(* a call whose answer the page shows, or after which it loads again or    *)
(* asks the router for another page.  A page can be left at any time: its  *)
(* calls reach the API all the same, their answers are dropped, but what   *)
(* they ask of the router happens wherever the user is by then.            *)
(*                                                                         *)
(* The API is the contract of ServiceLifecycle, one step per call; other   *)
(* tabs, the administrators among them, take steps of it too.  The two     *)
(* confirmation dialogs are part of the click.                             *)
(***************************************************************************)
EXTENDS CatalogTypes, Integers, Sequences, FiniteSets

CONSTANTS
    Me,         \* the provider whose tab this is
    Unfit,      \* what a form lets through and the API's validation does not
    Slots,      \* ids of availability slots (bound)
    MaxSent     \* calls under way at a time (bound)

VARIABLES
    service,    \* service[s]: the row of service s
    provider,   \* provider[p]: verification status and isActive of provider p
    active,     \* active[c]: isActive of category c
    slots,      \* slots[i]: whether slot i has been created and deleted
    page,       \* the page that is mounted
    next,       \* the page that was asked for and has not arrived, or None
    sent        \* the calls under way, in the order they were sent

Life == INSTANCE ServiceLifecycle

rows == <<service, provider, active>>
server == <<service, provider, active, slots>>
pagesVars == <<service, provider, active, slots, page, next, sent>>

OfOneService == {"detail", "edit"}
Forms == {"new", "edit"}

(***************************************************************************)
(* state: loading, or the error of the last load.  offers: the categories  *)
(* of a form.  removing: deletingId.  notice: how the last action ended.   *)
(* unfit: what the form sent last fails the API's validation.              *)
(* calm: since the page was mounted nobody else has changed anything, no   *)
(* call of a page that was left was served or answered, and no answer was  *)
(* lost.  rushed: a slot was written while another was.                    *)
(* late: the list that is shown had been overtaken by one sent later.      *)
(***************************************************************************)
Mounted(view, of) ==
    [view |-> view, of |-> of, state |-> "loading", shows |-> None, offers |-> {},
     busy |-> FALSE, removing |-> None, notice |-> "none", unfit |-> FALSE,
     calm |-> TRUE, rushed |-> FALSE, late |-> FALSE]

Away == [Mounted("away", None) EXCEPT !.state = "ready"]

Call(op, of, form) ==
    [op |-> op, of |-> of, form |-> form, reply |-> None, to |-> "page", passed |-> FALSE]

FirstLoad(view, of) ==
    IF view = "away" THEN <<>> ELSE <<Call("show", [view |-> view, of |-> of], None)>>

(* Those who sent them are gone: a load changes nothing any more, a write  *)
(* goes on.                                                                *)
Writes(s) == {i \in DOMAIN s : s[i].op # "show"}

Nth(I, n) == CHOOSE i \in I : Cardinality({j \in I : j <= i}) = n

Left(c) == [Call(c.op, c.of, c.form) EXCEPT !.reply = c.reply, !.to = "tab"]

Abandoned(s) == [n \in 1 .. Cardinality(Writes(s)) |-> Left(s[Nth(Writes(s), n)])]

RemoveAt(s, i) == SubSeq(s, 1, i - 1) \o SubSeq(s, i + 1, Len(s))

(* The i-th is answered: the loads sent before it have been overtaken. *)
Answered(s, i) ==
    RemoveAt([j \in DOMAIN s |-> IF j < i /\ s[i].op = "show"
                                 THEN [s[j] EXCEPT !.passed = TRUE] ELSE s[j]], i)

Send(op, of, form) ==
    /\ Len(sent) < MaxSent
    /\ sent' = Append(sent, Call(op, of, form))

-----------------------------------------------------------------------------
(* The API. *)
Mine == {s \in Services : Owner[s] = Me /\ service[s].status \in Stored}

Current(view, of) ==
    CASE view = "list"         -> [s \in Mine |-> service[s]]
      [] view \in OfOneService -> service[of]
      [] view = "availability" -> {i \in Slots : slots[i] = "stored"}
      [] view = "profile"      -> provider[Me].verification
      [] OTHER                 -> None

Found(view, of) == view \in OfOneService => of \in Mine

(* What can be opened by its URL. *)
ByUrl ==
    [view : {"list", "availability", "profile"}, of : {None}]
    \cup [view : OfOneService, of : Mine]

(* What was done before the tab was opened: a service may have been drafted *)
(* and published, the provider verified and his hours entered.             *)
PagesInit ==
    /\ service \in [Services -> {row \in Row :
            /\ row.status \in {"UNBORN", "DRAFT", "PUBLISHED"}
            /\ row.status = "PUBLISHED" <=> row.publishedAt # None
            /\ row.status = "PUBLISHED" => row.content \in Complete}]
    /\ provider \in [Providers -> [verification : {"PENDING", "VERIFIED"}, active : {TRUE}]]
    /\ active = [c \in Categories |-> TRUE]
    /\ \E unused \in Slots :
         slots = [i \in Slots |-> IF i = unused THEN "unborn" ELSE "stored"]
    /\ page = Away /\ sent = <<>>
    /\ next = None \/ next \in ByUrl

(* The form always names a category; it must be active, changed or not. *)
Filled(s, form) ==
    /\ active[form.category]
    /\ service'[s].content = form.content /\ service'[s].category = form.category

Add(i) == slots[i] = "unborn" /\ slots' = [slots EXCEPT ![i] = "stored"] /\ UNCHANGED rows

Drop(i) == slots[i] = "stored" /\ slots' = [slots EXCEPT ![i] = "deleted"] /\ UNCHANGED rows

(* The DTOs: a price of three decimals, a city of more than 100 characters, *)
(* the URL of a document of more than 1000 pass the schemas of the forms.  *)
Fit(op, form) == op \in {"create", "update", "submit"} => form.content \notin Unfit

Performs(op, of, form) ==
    \/ /\ Fit(op, form)
       /\ \/ op = "create" /\ Owner[of] = Me /\ Life!Create(of) /\ Filled(of, form)
          \/ op = "update" /\ Life!Edit(of) /\ Filled(of, form)
          \/ op = "publish" /\ Life!Publish(of)
          \/ op = "pause" /\ Life!Pause(of)
          \/ op = "archive" /\ Life!Archive(of)
          \/ op = "delete" /\ Life!Delete(of)
          \/ op = "submit" /\ Life!Submit(of)
       /\ UNCHANGED slots
    \/ op = "add" /\ Add(of)
    \/ op = "drop" /\ Drop(of)

(* The conditions of the contract, of Fit and of Filled. *)
Accepts(op, of, form) == Fit(op, form) /\
    CASE op = "create"  -> service[of].status = "UNBORN" /\ active[form.category]
      [] op = "update"  -> service[of].status \in Stored \ {"ARCHIVED"} /\ active[form.category]
      [] op = "publish" -> /\ service[of].status \in Stored \ {"ARCHIVED"}
                           /\ service[of].content \in Complete
                           /\ provider[Owner[of]].verification = "VERIFIED"
      [] op = "pause"   -> service[of].status = "PUBLISHED"
      [] op = "archive" -> service[of].status \in Stored
      [] op = "delete"  -> service[of].status \in Stored \ {"PUBLISHED"}
      [] op = "submit"  -> provider[of].verification \notin {"UNDER_REVIEW", "VERIFIED"}
      [] op = "add"     -> slots[of] = "unborn"
      [] op = "drop"    -> slots[of] = "stored"

(* What the page is told; after a failure the API says no more than that. *)
Said(op, of) ==
    IF op \in {"create", "update", "publish", "pause", "archive"} THEN service'[of]
    ELSE IF op = "submit" THEN provider'[Me].verification ELSE None

Yes(data, offers) == [ok |-> TRUE, data |-> data, offers |-> offers]
No == [ok |-> FALSE, data |-> None, offers |-> {}]

Disturbed(p) == [p EXCEPT !.calm = @ /\ p.view = "away"]

ServeLoad(i) ==
    LET what == sent[i].of IN
    /\ sent[i].op = "show" /\ sent[i].reply = None
    /\ sent' = [sent EXCEPT ![i].reply =
                  IF Found(what.view, what.of)
                  THEN Yes(Current(what.view, what.of),
                           IF what.view \in Forms THEN {c \in Categories : active[c]} ELSE {})
                  ELSE No]
    /\ UNCHANGED <<server, page, next>>

(* A page that did not send the call does not know what it changes. *)
ServeWrite(i) ==
    LET c == sent[i] IN
    /\ c.op # "show" /\ c.reply = None
    /\ \/ /\ Performs(c.op, c.of, c.form)
          /\ sent' = [sent EXCEPT ![i].reply = Yes(Said(c.op, c.of), {})]
          /\ page' = IF c.to = "page" THEN page ELSE Disturbed(page)
       \/ /\ ~Accepts(c.op, c.of, c.form)
          /\ sent' = [sent EXCEPT ![i].reply = No]
          /\ UNCHANGED <<server, page>>
    /\ UNCHANGED next

(* Another tab or an administrator. *)
Others ==
    /\ \/ Life!Next /\ UNCHANGED slots
       \/ \E i \in Slots : Add(i) \/ Drop(i)
    /\ page' = Disturbed(page)
    /\ UNCHANGED <<next, sent>>

-----------------------------------------------------------------------------
(* The router. *)
Goes(view, of) == next' = [view |-> view, of |-> of]

Arrive ==
    /\ next # None
    /\ IF next.view = page.view /\ next.of = page.of
       THEN UNCHANGED <<page, sent>>
       ELSE /\ page' = IF next.view = "away" THEN Away ELSE Mounted(next.view, next.of)
            /\ sent' = Abandoned(sent) \o FirstLoad(next.view, next.of)
    /\ next' = None
    /\ UNCHANGED server

Ready == page.state = "ready"

(* The links of the workspace and of its pages. *)
Linked(view, of) ==
    \/ view \in {"list", "availability", "profile"} /\ of = None
    \/ view = "new" /\ of = None /\ page.view = "list" /\ Ready
    \/ view \in OfOneService /\ page.view = "list" /\ Ready /\ of \in DOMAIN page.shows
    \/ view = "edit" /\ page.view = "detail" /\ Ready /\ of = page.of
    \/ view = "detail" /\ page.view = "edit" /\ Ready /\ of = page.of

FollowLink(view, of) ==
    /\ page.view # "away"
    /\ Linked(view, of)
    /\ Goes(view, of)
    /\ UNCHANGED <<server, page, sent>>

Enter ==
    /\ page.view = "away" /\ next = None
    /\ next' \in ByUrl
    /\ UNCHANGED <<server, page, sent>>

-----------------------------------------------------------------------------
(* The buttons of the page of one service. *)
(* Mutant of Offered: a published service can be deleted. *)
OfferedAnyDelete(op, status) ==
    CASE op = "publish" -> status \in {"DRAFT", "PAUSED"}
      [] op = "pause"   -> status = "PUBLISHED"
      [] op = "archive" -> status # "ARCHIVED"
      [] op = "delete"  -> TRUE

Offered(op, status) ==
    CASE op = "publish" -> status \in {"DRAFT", "PAUSED"}
      [] op = "pause"   -> status = "PUBLISHED"
      [] op = "archive" -> status # "ARCHIVED"
      [] op = "delete"  -> status # "PUBLISHED"

(* runAction: one at a time. *)
Press(op) ==
    /\ page.view = "detail" /\ Ready /\ ~page.busy
    /\ Offered(op, page.shows.status)
    /\ Send(op, page.of, None)
    /\ page' = [page EXCEPT !.busy = TRUE, !.notice = "none"]
    /\ UNCHANGED <<server, next>>

(* A category that is no longer offered stays in the form. *)
Choices == page.offers \cup IF page.view = "edit" THEN {page.shows.category} ELSE {}

(* ServiceForm; an id that was never used is what a new service gets. *)
Save(s, content, category) ==
    /\ page.view \in Forms /\ Ready /\ ~page.busy
    /\ IF page.view = "edit" THEN s = page.of
       ELSE Owner[s] = Me /\ service[s].status = "UNBORN"
            /\ \A i \in DOMAIN sent : sent[i].op = "create" => sent[i].of # s
    /\ category \in Choices
    /\ Send(IF page.view = "edit" THEN "update" ELSE "create", s,
            [content |-> content, category |-> category])
    /\ page' = [page EXCEPT !.busy = TRUE, !.notice = "none", !.unfit = content \in Unfit]
    /\ UNCHANGED <<server, next>>

(* VerificationSubmitForm; None is a document that the API takes. *)
SubmitDocuments(document) ==
    /\ page.view = "profile" /\ Ready /\ ~page.busy
    /\ page.shows \in {"PENDING", "REJECTED"}
    /\ Send("submit", Me, [content |-> document])
    /\ page' = [page EXCEPT !.busy = TRUE, !.notice = "none", !.unfit = document \in Unfit]
    /\ UNCHANGED <<server, next>>

(* AvailabilityEditor stays in use after a load that failed. *)
Editing == page.view = "availability" /\ page.state # "loading"

WriteSlot(p) ==
    page' = [p EXCEPT !.notice = "none",
                      !.rushed = @ \/ page.busy \/ page.removing # None]

AddSlot(i) ==
    /\ Editing /\ ~page.busy
    /\ slots[i] = "unborn" /\ \A j \in DOMAIN sent : sent[j].op = "add" => sent[j].of # i
    /\ Send("add", i, None)
    /\ WriteSlot([page EXCEPT !.busy = TRUE])
    /\ UNCHANGED <<server, next>>

(* Only the button of the slot that was chosen last is disabled. *)
RemoveSlot(i) ==
    /\ Editing /\ page.shows # None /\ i \in page.shows
    /\ page.removing # i
    /\ Send("drop", i, None)
    /\ WriteSlot([page EXCEPT !.removing = i])
    /\ UNCHANGED <<server, next>>

-----------------------------------------------------------------------------
(* What the page does with an answer. *)
Freed(op) ==
    [page EXCEPT !.busy = IF op = "drop" THEN @ ELSE FALSE,
                 !.removing = IF op = "drop" THEN None ELSE @]

(* The end of load, and of loadSlots for the action that waited for it. *)
Loaded(c, ok) ==
    LET waiting == IF c.form = None THEN page ELSE Freed(c.form) IN
    IF ok THEN [waiting EXCEPT !.state = IF @ = "loading" THEN "ready" ELSE @,
                               !.shows = c.reply.data, !.offers = c.reply.offers,
                               !.late = c.passed]
    ELSE [waiting EXCEPT !.state = "broken"]

Reload == Call("show", [view |-> "availability", of |-> None], None)

(* Where an action leads, wherever the user is. *)
Leads(c) ==
    CASE c.op \in {"create", "update"} -> Goes("detail", c.of)
      [] c.op = "delete"               -> Goes("list", None)
      [] OTHER                         -> UNCHANGED next

(* Mutant of Succeeds: the list of slots is not loaded again. *)
SucceedsWithoutReload(i) ==
    LET c == sent[i] IN
    /\ sent' = Answered(sent, i)
    /\ page' = IF c.reply.data # None
               THEN [Freed(c.op) EXCEPT !.shows = c.reply.data] ELSE Freed(c.op)
    /\ Leads(c)

Succeeds(i) ==
    LET c == sent[i] IN
    /\ IF c.op \in {"add", "drop"}
       THEN /\ sent' = Append(Answered(sent, i), [Reload EXCEPT !.form = c.op])
            /\ page' = [page EXCEPT !.state = "ready"]
       ELSE /\ sent' = Answered(sent, i)
            /\ page' = IF c.reply.data # None
                       THEN [Freed(c.op) EXCEPT !.shows = c.reply.data] ELSE Freed(c.op)
    /\ Leads(c)

Fails(i, notice) ==
    /\ page' = [Freed(sent[i].op) EXCEPT !.notice = notice]
    /\ sent' = Answered(sent, i)
    /\ UNCHANGED next

Answer(i) ==
    LET c == sent[i] IN
    /\ c.reply # None
    /\ \/ /\ c.to = "page" /\ c.op = "show"
          /\ page' = Loaded(c, c.reply.ok)
          /\ sent' = Answered(sent, i)
          /\ UNCHANGED next
       \/ c.to = "page" /\ c.op # "show" /\ c.reply.ok /\ Succeeds(i)
       \/ c.to = "page" /\ c.op # "show" /\ ~c.reply.ok /\ Fails(i, "refused")
       \/ /\ c.to = "tab"
          /\ IF c.reply.ok THEN Leads(c) ELSE UNCHANGED next
          /\ page' = Disturbed(page)
          /\ sent' = Answered(sent, i)
    /\ UNCHANGED server

(* The connection breaks before the request, or before the answer, arrives. *)
Lose(i) ==
    LET c == sent[i] IN
    /\ \/ /\ c.to = "page" /\ c.op = "show"
          /\ page' = [Loaded(c, FALSE) EXCEPT !.calm = FALSE]
       \/ /\ c.to = "page" /\ c.op # "show"
          /\ page' = [Freed(c.op) EXCEPT !.notice = "failed", !.calm = FALSE]
       \/ c.to = "tab" /\ UNCHANGED page
    /\ sent' = Answered(sent, i)
    /\ UNCHANGED <<server, next>>

-----------------------------------------------------------------------------
Uses ==
    \/ \E view \in {"list", "availability", "profile", "new"} : FollowLink(view, None)
    \/ \E view \in OfOneService, s \in Services : FollowLink(view, s)
    \/ \E op \in {"publish", "pause", "archive", "delete"} : Press(op)
    \/ \E s \in Services, x \in Contents \cup Unfit, c \in Categories : Save(s, x, c)
    \/ \E x \in {None} \cup Unfit : SubmitDocuments(x)
    \/ \E i \in Slots : AddSlot(i) \/ RemoveSlot(i)

Responds(i) == ServeLoad(i) \/ ServeWrite(i) \/ Answer(i) \/ Lose(i)

-----------------------------------------------------------------------------
(* A page at rest shows what is stored, unless somebody else changed it,   *)
(* a call of a page that was left came between, an answer was lost, or the *)
(* last list of slots had been overtaken.                                  *)
AtRest == next = None /\ \A i \in DOMAIN sent : sent[i].to # "page"

ShowsWhatIsStored ==
    AtRest /\ Ready /\ page.view # "away" /\ page.calm /\ ~page.late =>
        page.shows = Current(page.view, page.of)

(* Nobody is refused what a page offers him, unless somebody else changed  *)
(* something or he wrote two slots together, but for these: to send what   *)
(* only the API's validation finds unfit, to publish what is incomplete or *)
(* as a provider who is not verified, to go on with a service he has just  *)
(* deleted, to edit what is archived (the link is always there), and to    *)
(* keep a category that has been retired (the form always sends            *)
(* categoryId).                                                            *)
Excused ==
    \/ page.unfit
    \/ page.view = "detail" /\ \/ page.shows.content \notin Complete
                               \/ provider[Me].verification # "VERIFIED"
                               \/ service[page.of].status = "DELETED"
    \/ page.view = "edit" /\ \/ page.shows.status = "ARCHIVED"
                             \/ ~active[page.shows.category]

RefusedForAReason ==
    page.notice = "refused" /\ page.calm /\ ~page.rushed => Excused
=============================================================================
