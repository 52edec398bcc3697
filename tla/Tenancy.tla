------------------------------ MODULE Tenancy ------------------------------
(***************************************************************************)
(* Tenants and the tenant a user works in: TenancyProvisionService,        *)
(* TenancyQueryService, TenantContextService and the sign-in handlers of   *)
(* AuthService that read what these write.                                 *)
(*                                                                         *)
(*   register      idle --> issue --> answer --> idle                      *)
(*   organization  idle --> create --> issue --> answer --> idle           *)
(*   switch        idle --> update --> issue --> answer --> idle           *)
(*   login, refresh  idle --> issue --> context --> answer --> idle        *)
(*   current       idle --> context --> answer --> idle                    *)
(*                                                                         *)
(* A tenant is written in one transaction with its owner's membership and, *)
(* when it is a business, its organization.  No code changes a membership  *)
(* or a tenant afterwards, and only the seed writes another role than      *)
(* OWNER or another status than ACTIVE: a row of tenant is all three.      *)
(***************************************************************************)
EXTENDS FiniteSets, Naturals

CONSTANTS
    Users,
    Tenants,     \* tenant rows (bound)
    Requests,    \* request slots: how many requests run at a time (bound)
    Ops,         \* the operations clients call (bound)
    Faults,      \* what may go wrong: a subset of {"error"}
    None

AllOps == {"register", "organization", "switch", "login", "refresh", "current"}
Kinds == {"INDIVIDUAL", "BUSINESS"}

Tenant == [owner : Users, type : Kinds]

ASSUME TenancyAssumption ==
    /\ Ops \subseteq AllOps
    /\ Faults \subseteq {"error"}
    /\ None \notin Users \cup Tenants \cup AllOps
    /\ None \notin Tenant

VARIABLES
    tenant,     \* tenant[t]: the row of tenant t, or None
    active,     \* active[u]: activeTenantId of user u, None before u registers
    business,   \* the users with the role BUSINESS
    req         \* req[r]: the request in slot r

tenancyVars == <<tenant, active, business, req>>

(***************************************************************************)
(* tenant is the tenant a request is about, and so the tid of the token it *)
(* issues; shown is the tenantContext of its answer.                       *)
(***************************************************************************)
Idle == [pc |-> "idle", op |-> None, user |-> None, tenant |-> None, shown |-> None]

Request ==
    {Idle}
    \cup [pc : {"create"}, op : {"organization"}, user : Users, tenant : {None}, shown : {None}]
    \cup [pc : {"update"}, op : {"switch"}, user : Users, tenant : Tenants, shown : {None}]
    \cup [pc : {"issue"}, op : AllOps \ {"current"}, user : Users, tenant : Tenants,
          shown : {None}]
    \cup [pc : {"context"}, op : {"login", "refresh"}, user : Users, tenant : Tenants,
          shown : {None}]
    \cup [pc : {"context"}, op : {"current"}, user : Users, tenant : {None}, shown : {None}]
    \cup [pc : {"answer"}, op : AllOps, user : Users, tenant : Tenants \cup {None},
          shown : Tenants \cup {None}]

TypeOK ==
    /\ tenant \in [Tenants -> Tenant \cup {None}]
    /\ active \in [Users -> Tenants \cup {None}]
    /\ business \subseteq Users
    /\ req \in [Requests -> Request]

Init ==
    /\ tenant = [t \in Tenants |-> None]
    /\ active = [u \in Users |-> None]
    /\ business = {}
    /\ req = [r \in Requests |-> Idle]

Member(u, t) == t \in Tenants /\ tenant[t] # None /\ tenant[t].owner = u

Owned(u) == {t \in Tenants : Member(u, t) /\ tenant[t].type = "BUSINESS"}

-----------------------------------------------------------------------------
(* Mutant of Provision: the role is given at registration only. *)
ProvisionNoRole(u, t, k) ==
    /\ tenant[t] = None
    /\ tenant' = [tenant EXCEPT ![t] = [owner |-> u, type |-> k]]
    /\ active' = [active EXCEPT ![u] = t]
    /\ business' = IF k = "BUSINESS" /\ active[u] = None THEN business \cup {u} ELSE business

(* The transaction: tenant, organization, membership, activeTenantId, role. *)
Provision(u, t, k) ==
    /\ tenant[t] = None
    /\ tenant' = [tenant EXCEPT ![t] = [owner |-> u, type |-> k]]
    /\ active' = [active EXCEPT ![u] = t]
    /\ business' = IF k = "BUSINESS" THEN business \cup {u} ELSE business

Begin(r, op, pc, u, t) ==
    /\ op \in Ops
    /\ req[r] = Idle
    /\ req' = [req EXCEPT ![r] = [pc |-> pc, op |-> op, user |-> u, tenant |-> t, shown |-> None]]

(* A bound: a row is left for every tenant that is about to be written. *)
RowLeft ==
    Cardinality({r \in Requests : req[r].pc = "create"})
        < Cardinality({t \in Tenants : tenant[t] = None})

(* The address is unique, so the write is the check of a registration. *)
Register(r, u, k) ==
    /\ RowLeft
    /\ active[u] = None
    /\ \E t \in Tenants : Provision(u, t, k) /\ Begin(r, "register", "issue", u, t)

(* Mutant of CheckOwned: userOwnsBusinessTenant looks at the active tenant. *)
CheckOwnedActive(r, u) ==
    /\ RowLeft
    /\ active[u] # None
    /\ active[u] \notin Owned(u)
    /\ Begin(r, "organization", "create", u, None)
    /\ UNCHANGED <<tenant, active, business>>

(* userOwnsBusinessTenant, before the transaction. *)
CheckOwned(r, u) ==
    /\ RowLeft
    /\ active[u] # None
    /\ Owned(u) = {}
    /\ Begin(r, "organization", "create", u, None)
    /\ UNCHANGED <<tenant, active, business>>

CreateOrganization(r) ==
    /\ req[r].pc = "create"
    /\ \E t \in Tenants :
         /\ Provision(req[r].user, t, "BUSINESS")
         /\ req' = [req EXCEPT ![r].pc = "issue", ![r].tenant = t]

(* Mutant of FindMembership: the tenant exists, whoever its owner is. *)
FindTenant(r, u, t) ==
    /\ active[u] # None
    /\ tenant[t] # None
    /\ Begin(r, "switch", "update", u, t)
    /\ UNCHANGED <<tenant, active, business>>

FindMembership(r, u, t) ==
    /\ active[u] # None
    /\ Member(u, t)
    /\ Begin(r, "switch", "update", u, t)
    /\ UNCHANGED <<tenant, active, business>>

(* Mutant of UpdateActive: the switch is left to the token alone. *)
UpdateActiveNot(r) ==
    /\ req[r].pc = "update"
    /\ req' = [req EXCEPT ![r].pc = "issue"]
    /\ UNCHANGED <<tenant, active, business>>

UpdateActive(r) ==
    /\ req[r].pc = "update"
    /\ active' = [active EXCEPT ![req[r].user] = req[r].tenant]
    /\ req' = [req EXCEPT ![r].pc = "issue"]
    /\ UNCHANGED <<tenant, business>>

(* login finds the user by address, refresh by the token: both hold the row. *)
ReadUser(r, op, u) ==
    /\ op \in {"login", "refresh"}
    /\ active[u] # None
    /\ Begin(r, op, "issue", u, active[u])
    /\ UNCHANGED <<tenant, active, business>>

(* issueTokenPair(.., tid): the handlers that chose a tenant show that one. *)
IssueToken(r) ==
    /\ req[r].pc = "issue"
    /\ req' = IF req[r].op \in {"login", "refresh"}
              THEN [req EXCEPT ![r].pc = "context"]
              ELSE [req EXCEPT ![r].pc = "answer", ![r].shown = req[r].tenant]
    /\ UNCHANGED <<tenant, active, business>>

(* GET /tenants/current and GET /auth/me *)
AskCurrent(r, u) ==
    /\ active[u] # None
    /\ Begin(r, "current", "context", u, None)
    /\ UNCHANGED <<tenant, active, business>>

(* getCurrentForUser: the stored tenant, if the membership stands. *)
Current(u) == IF Member(u, active[u]) THEN active[u] ELSE None

ReadContext(r) ==
    /\ req[r].pc = "context"
    /\ req' = [req EXCEPT ![r].pc = "answer", ![r].shown = Current(req[r].user)]
    /\ UNCHANGED <<tenant, active, business>>

Answer(r) ==
    /\ req[r].pc = "answer"
    /\ req' = [req EXCEPT ![r] = Idle]
    /\ UNCHANGED <<tenant, active, business>>

(* A database call throws, the answer is lost or the process stops. *)
Fails(r) ==
    /\ "error" \in Faults
    /\ req[r] # Idle
    /\ req' = [req EXCEPT ![r] = Idle]
    /\ UNCHANGED <<tenant, active, business>>

Call(r, u) ==
    \/ \E k \in Kinds : Register(r, u, k)
    \/ CheckOwned(r, u)
    \/ \E t \in Tenants : FindMembership(r, u, t)
    \/ \E op \in {"login", "refresh"} : ReadUser(r, op, u)
    \/ AskCurrent(r, u)

Work(r) == CreateOrganization(r) \/ UpdateActive(r) \/ IssueToken(r) \/ ReadContext(r)

Next ==
    \E r \in Requests : \/ \E u \in Users : Call(r, u)
                        \/ Work(r) \/ Answer(r) \/ Fails(r)

Spec == Init /\ [][Next]_tenancyVars

-----------------------------------------------------------------------------
(* The tenant stored for a user, the tenant every token names and the one  *)
(* every answer shows are tenants that user is a member of, whatever other *)
(* requests do meanwhile (findActiveMembership, loadContext).              *)
ContextIsMember ==
    /\ \A u \in Users : active[u] # None => Member(u, active[u])
    /\ \A r \in Requests :
         \A t \in {req[r].tenant, req[r].shown} \ {None} : Member(req[r].user, t)

(* Whoever owns a business tenant has the role BUSINESS (the permissions   *)
(* of services and providers go by role): registration and                 *)
(* createBusinessOrganizationForUser write it in two different ways.       *)
BusinessOwnersHaveRole ==
    \A u \in Users : Owned(u) # {} => u \in business

(* "one owned business tenant per user" (organizations.controller.ts, line *)
(* 41)                                                                     *)
OneOwnedBusiness ==
    \A u \in Users : \A t1, t2 \in Owned(u) : t1 = t2

(* A session is answered with the context of the tenant its token names,   *)
(* and at that moment it is the stored one too.                            *)
AnswerMatchesToken ==
    \A r \in Requests :
        req[r].pc = "answer" => /\ req[r].tenant # None => req[r].shown = req[r].tenant
                                /\ req[r].shown = active[req[r].user]
=============================================================================
