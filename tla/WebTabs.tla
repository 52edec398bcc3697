------------------------------ MODULE WebTabs ------------------------------
(***************************************************************************)
(* The browser tabs of the web application and the API's tenancy: forms,   *)
(* TenantProvider and TenantSelector, session.ts, the sign-out of the      *)
(* account page, the session cookie and the middleware that reads it.      *)
(*                                                                         *)
(* A tab keeps its tokens and its tenant in sessionStorage, which no other *)
(* tab sees; the cookie lsm_authenticated is shared by all of them.  Every *)
(* request to the API comes from a tab, and its answer finds the page that *)
(* called mounted (open), left for another page, or the tab reloaded.      *)
(*                                                                         *)
(*   auth     the sign-in and registration forms                           *)
(*   mounted  a page with a TenantProvider whose refresh has not begun     *)
(*   account  that page afterwards                                         *)
(***************************************************************************)
EXTENDS Tenancy

CONSTANTS
    Tabs,
    Habits       \* what users do: a subset of {"reload", "hurry"}

ASSUME HabitAssumption == Habits \subseteq {"reload", "hurry"}

VARIABLES
    session,    \* session[c]: what sessionStorage of tab c holds, or None
    page,       \* page[c]: the page that tab c shows
    shown,      \* shown[c]: current, the tenant its TenantProvider shows, or None
    leaving,    \* leaving[c]: how far the sign-out of tab c is
    from,       \* from[r]: who awaits the answer to request r, or None
    cookie      \* the cookie lsm_authenticated is set

webVars == <<session, page, shown, leaving, from, cookie>>
vars == <<tenancyVars, webVars>>

Pages == {"auth", "mounted", "account"}

(* set: the answer is stored and the call that sets the cookie is under way. *)
Caller == [tab : Tabs, open : BOOLEAN, op : AllOps, shown : Tenants \cup {None}, set : BOOLEAN]

Stored == [user : Users, tid : Tenants, header : Tenants \cup {None}]

ASSUME CallerAssumption == None \notin Caller \cup Stored

WebTypeOK ==
    /\ TypeOK
    /\ session \in [Tabs -> Stored \cup {None}]
    /\ page \in [Tabs -> Pages]
    /\ shown \in [Tabs -> Tenants \cup {None}]
    /\ leaving \in [Tabs -> {"no", "logout", "cleared"}]
    /\ from \in [Requests -> Caller \cup {None}]
    /\ cookie \in BOOLEAN

WebInit ==
    /\ Init
    /\ session = [c \in Tabs |-> None]
    /\ page = [c \in Tabs |-> "auth"]
    /\ shown = [c \in Tabs |-> None]
    /\ leaving = [c \in Tabs |-> "no"]
    /\ from = [r \in Requests |-> None]
    /\ cookie = FALSE

Calls(c) == {r \in Requests : from[r] # None /\ from[r].tab = c}

OpenCalls(c) == {r \in Calls(c) : from[r].open}

-----------------------------------------------------------------------------
(* The middleware, by the cookie alone. *)
Lands(want) ==
    CASE want = "account" /\ ~cookie -> "auth"
      [] want = "auth" /\ cookie -> "account"
      [] OTHER -> want

Left(c) == [r \in Requests |-> IF r \in Calls(c) THEN [from[r] EXCEPT !.open = FALSE] ELSE from[r]]

(* Mutant of Dropped: the calls of the tab outlive the reload. *)
DroppedLeft(c) == [r \in Requests |-> IF r \in Calls(c) THEN [from[r] EXCEPT !.open = FALSE] ELSE from[r]]

Dropped(c) == [r \in Requests |-> IF r \in Calls(c) THEN None ELSE from[r]]

(* A page under a TenantProvider starts with the stored tenant. *)
Show(c, want, stored) ==
    /\ page' = [page EXCEPT ![c] = IF Lands(want) = "account" THEN "mounted" ELSE "auth"]
    /\ shown' = [shown EXCEPT ![c] = IF Lands(want) = "account" /\ stored # None
                                     THEN stored.header ELSE None]

(* A user in a hurry does not wait for what is under way in the tab. *)
Free(c) == "hurry" \in Habits \/ (leaving[c] = "no" /\ OpenCalls(c) = {})

(* The user follows a link: the calls of the page that is left go on. *)
Visit(c, want) ==
    /\ Free(c)
    /\ Show(c, want, session[c])
    /\ from' = Left(c)
    /\ UNCHANGED <<tenancyVars, session, leaving, cookie>>

(* The tab is loaded anew: nothing waits for its calls any more. *)
Reload(c, want) ==
    /\ "reload" \in Habits
    /\ Show(c, want, session[c])
    /\ from' = Dropped(c)
    /\ leaving' = [leaving EXCEPT ![c] = "no"]
    /\ UNCHANGED <<tenancyVars, session, cookie>>

Await(r, c, op) ==
    /\ from[r] = None
    /\ from' = [from EXCEPT ![r] = [tab |-> c, open |-> TRUE, op |-> op, shown |-> None,
                                    set |-> FALSE]]
    /\ UNCHANGED <<session, page, shown, leaving, cookie>>

SubmitForm(c, r, u) ==
    /\ page[c] = "auth"
    /\ Free(c) /\ OpenCalls(c) = {}
    /\ \/ Await(r, c, "register") /\ \E k \in Kinds : Register(r, u, k)
       \/ Await(r, c, "login") /\ ReadUser(r, "login", u)

(* TenantProvider's refresh, on mount and after a switch. *)
Refresh(c, r) ==
    /\ page[c] = "mounted"
    /\ session[c] # None
    /\ AskCurrent(r, session[c].user)
    /\ from[r] = None
    /\ from' = [from EXCEPT ![r] = [tab |-> c, open |-> TRUE, op |-> "current", shown |-> None,
                                    set |-> FALSE]]
    /\ page' = [page EXCEPT ![c] = "account"]
    /\ UNCHANGED <<session, shown, leaving, cookie>>

RefreshRefused(c) ==
    /\ page[c] = "mounted"
    /\ session[c] = None
    /\ page' = [page EXCEPT ![c] = "account"]
    /\ UNCHANGED <<tenancyVars, session, shown, leaving, from, cookie>>

(* TenantSelector is disabled while anything of it is under way. *)
Select(c, r, t) ==
    /\ page[c] = "account"
    /\ Free(c) /\ OpenCalls(c) = {}
    /\ session[c] # None
    /\ t # shown[c]
    /\ Await(r, c, "switch")
    /\ FindMembership(r, session[c].user, t)

SubmitOrganization(c, r) ==
    /\ page[c] = "account"
    /\ Free(c) /\ \A q \in OpenCalls(c) : from[q].op = "current"
    /\ session[c] # None
    /\ Await(r, c, "organization")
    /\ CheckOwned(r, session[c].user)

-----------------------------------------------------------------------------
Serve(r) == Work(r) /\ UNCHANGED webVars

(* An answer nobody waits for. *)
Ignored(r) ==
    /\ from[r] # None => from[r].op = "current" /\ ~from[r].open
    /\ Answer(r)
    /\ from' = [from EXCEPT ![r] = None]
    /\ UNCHANGED <<session, page, shown, leaving, cookie>>

(* Mutant of ShowCurrent: the answer is kept for the next call. *)
ShowCurrentKept(r) ==
    /\ from[r] # None /\ from[r].op = "current" /\ from[r].open
    /\ Answer(r)
    /\ shown' = [shown EXCEPT ![from[r].tab] = req[r].shown]
    /\ from' = [from EXCEPT ![r] = [@ EXCEPT !.op = None]]
    /\ UNCHANGED <<session, page, leaving, cookie>>

ShowCurrent(r) ==
    /\ from[r] # None /\ from[r].op = "current" /\ from[r].open
    /\ Answer(r)
    /\ shown' = [shown EXCEPT ![from[r].tab] = req[r].shown]
    /\ from' = [from EXCEPT ![r] = None]
    /\ UNCHANGED <<session, page, leaving, cookie>>

(* Mutant of PersistSession: the tokens alone are stored. *)
PersistTokens(r) ==
    /\ from[r] # None /\ from[r].op # "current"
    /\ Answer(r)
    /\ LET old == session[from[r].tab]
       IN session' = [session EXCEPT ![from[r].tab] =
              [user |-> req[r].user, tid |-> req[r].tenant,
               header |-> IF old = None THEN req[r].shown ELSE old.header]]
    /\ from' = [from EXCEPT ![r].set = TRUE, ![r].shown = req[r].shown]
    /\ UNCHANGED <<page, shown, leaving, cookie>>

(* persistSession stores the answer at once, whatever the tab has done     *)
(* since, and calls the route that sets the cookie.                        *)
PersistSession(r) ==
    /\ from[r] # None /\ from[r].op # "current"
    /\ Answer(r)
    /\ session' = [session EXCEPT ![from[r].tab] =
           [user |-> req[r].user, tid |-> req[r].tenant, header |-> req[r].shown]]
    /\ from' = [from EXCEPT ![r].set = TRUE, ![r].shown = req[r].shown]
    /\ UNCHANGED <<page, shown, leaving, cookie>>

(* ... and then goes on: switchTenant shows the tenant and refreshes, the  *)
(* forms open the account page (the middleware sees the cookie just set).  *)
SetCookie(r) ==
    /\ from[r] # None /\ from[r].set
    /\ cookie' = TRUE
    /\ LET c == from[r].tab
       IN IF from[r].op = "switch"
          THEN /\ page' = IF from[r].open THEN [page EXCEPT ![c] = "mounted"] ELSE page
               /\ shown' = IF from[r].open THEN [shown EXCEPT ![c] = from[r].shown] ELSE shown
               /\ from' = [from EXCEPT ![r] = None]
          ELSE /\ page' = [page EXCEPT ![c] = "mounted"]
               /\ shown' = [shown EXCEPT ![c] = IF session[c] = None THEN None
                                                ELSE session[c].header]
               /\ from' = [Left(c) EXCEPT ![r] = None]
    /\ UNCHANGED <<tenancyVars, session, leaving>>

(* The request or the cookie's call fails: the page shows an error. *)
CallFails(r) ==
    /\ "error" \in Faults
    /\ \/ Fails(r)
       \/ from[r] # None /\ from[r].set /\ UNCHANGED tenancyVars
    /\ from' = [from EXCEPT ![r] = None]
    /\ UNCHANGED <<session, page, shown, leaving, cookie>>

-----------------------------------------------------------------------------
(* handleLogout: the API is called, the session cleared, the cookie        *)
(* deleted and the sign-in page opened.                                    *)
SignOut(c) ==
    /\ page[c] # "auth"
    /\ leaving[c] = "no"
    /\ Free(c)
    /\ leaving' = [leaving EXCEPT ![c] = "logout"]
    /\ UNCHANGED <<tenancyVars, session, page, shown, from, cookie>>

(* Mutant of ClearSession: the tokens are cleared when the API's logout succeeds only. *)
ClearSessionIfAnswered(c) ==
    /\ leaving[c] = "logout"
    /\ session' \in {session, [session EXCEPT ![c] = None]}
    /\ leaving' = [leaving EXCEPT ![c] = "cleared"]
    /\ UNCHANGED <<tenancyVars, page, shown, from, cookie>>

ClearSession(c) ==
    /\ leaving[c] = "logout"
    /\ session' = [session EXCEPT ![c] = None]
    /\ leaving' = [leaving EXCEPT ![c] = "cleared"]
    /\ UNCHANGED <<tenancyVars, page, shown, from, cookie>>

DeleteCookie(c) ==
    /\ leaving[c] = "cleared"
    /\ cookie' = FALSE
    /\ leaving' = [leaving EXCEPT ![c] = "no"]
    /\ page' = [page EXCEPT ![c] = "auth"]
    /\ shown' = [shown EXCEPT ![c] = None]
    /\ from' = Left(c)
    /\ UNCHANGED <<tenancyVars, session>>

DeleteCookieFails(c) ==
    /\ "error" \in Faults
    /\ leaving[c] = "cleared"
    /\ leaving' = [leaving EXCEPT ![c] = "no"]
    /\ UNCHANGED <<tenancyVars, session, page, shown, from, cookie>>

-----------------------------------------------------------------------------
UserStep(c) ==
    \/ \E want \in {"auth", "account"} : Visit(c, want)
    \/ \E r \in Requests :
         \/ \E u \in Users : SubmitForm(c, r, u)
         \/ \E t \in Tenants : Select(c, r, t)
         \/ SubmitOrganization(c, r)
    \/ SignOut(c)

TabStep(c) ==
    \/ RefreshRefused(c) \/ \E r \in Requests : Refresh(c, r)
    \/ ClearSession(c) \/ DeleteCookie(c)

CallStep(r) ==
    \/ Serve(r) \/ Ignored(r) \/ ShowCurrent(r) \/ PersistSession(r) \/ SetCookie(r)

CalmStep ==
    \/ \E c \in Tabs : UserStep(c) \/ TabStep(c)
    \/ \E r \in Requests : CallStep(r)

Disturbance ==
    \/ \E c \in Tabs : DeleteCookieFails(c) \/ \E want \in {"auth", "account"} : Reload(c, want)
    \/ \E r \in Requests : CallFails(r)

WebNext == CalmStep \/ Disturbance

WebSpec == WebInit /\ [][WebNext]_vars

-----------------------------------------------------------------------------
(* TenantContextService.resolve: the header, the tid of the access token,  *)
(* the stored tenant.                                                      *)
Acting(c) ==
    LET s == session[c]
    IN IF s.header # None THEN s.header
       ELSE IF Member(s.user, s.tid) THEN s.tid ELSE Current(s.user)

AtRest(c) == Calls(c) = {} /\ leaving[c] = "no" /\ page[c] # "mounted"

(* "Resolve active tenant: header -> JWT tid -> User.activeTenantId"       *)
(* (tenant-context.service.ts, line 25): a tab at rest shows the tenant in *)
(* which its requests act.                                                 *)
ShownIsActedIn ==
    \A c \in Tabs :
        AtRest(c) /\ page[c] = "account" /\ session[c] # None => shown[c] = Acting(c)

(* "Still clear local session even if API logout fails." (account/page.tsx, *)
(* line 66): a tab that was signed out is signed in again by the sign-in    *)
(* and registration forms only.                                             *)
SignedOutStaysOut ==
    [][\A c \in Tabs :
         session[c] = None /\ session'[c] # None
           => \E r \in Calls(c) : from[r].op \in {"login", "register"}]_vars

(* "Middleware session cookie gate for protected routes" (architecture.md, *)
(* line 26): a tab at rest passes the gate exactly if it has a session.    *)
GateFollowsSession ==
    \A c \in Tabs : AtRest(c) => (cookie <=> session[c] # None)

(* The header a tab sends always names a tenant of the user its token      *)
(* names: resolve would refuse the request otherwise.                      *)
HeaderAccepted ==
    \A c \in Tabs :
        session[c] # None => \A t \in {session[c].tid, session[c].header} : Member(session[c].user, t)
=============================================================================
