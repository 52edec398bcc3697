--------------------------- MODULE WebTabs_proofs ---------------------------
(***************************************************************************)
(* Proofs about Tenancy and about the tabs of the web application that     *)
(* call it, for any users, tenants, overlapping requests and tabs.         *)
(*                                                                         *)
(* First Tenancy by itself (Spec), then Tenancy under the tabs (WebSpec,   *)
(* CalmSpec), each step of which is a step or a stutter of Tenancy.        *)
(***************************************************************************)
EXTENDS WebCalm, TLAPS

LEMMA TypeInit == Init => TypeOK
  BY DEF Init, TypeOK, Request

(* Every read leaves a well-typed request behind. *)
LEMMA TypeBegin ==
    ASSUME TypeOK, NEW r \in Requests, NEW q \in Request,
           req' = [req EXCEPT ![r] = q],
           tenant' \in [Tenants -> Tenant \cup {None}],
           active' \in [Users -> Tenants \cup {None}], business' \subseteq Users
    PROVE  TypeOK'
  BY DEF TypeOK

LEMMA TypeProvision ==
    ASSUME TypeOK, NEW u \in Users, NEW t \in Tenants, NEW k \in Kinds, Provision(u, t, k)
    PROVE  /\ tenant' \in [Tenants -> Tenant \cup {None}]
           /\ active' \in [Users -> Tenants \cup {None}]
           /\ business' \subseteq Users
<1>1. [owner |-> u, type |-> k] \in Tenant
  BY DEF Tenant
<1> QED
  BY <1>1 DEF TypeOK, Provision

LEMMA TypeNext == TypeOK /\ [Next]_tenancyVars => TypeOK'
<1> SUFFICES ASSUME TypeOK, [Next]_tenancyVars PROVE TypeOK'
  OBVIOUS
<1>1. ASSUME NEW r \in Requests, NEW u \in Users, Call(r, u) PROVE TypeOK'
  <2>1. ASSUME NEW k \in Kinds, Register(r, u, k) PROVE TypeOK'
    <3> PICK t \in Tenants : Provision(u, t, k) /\ Begin(r, "register", "issue", u, t)
      BY <2>1 DEF Register
    <3>1. [pc |-> "issue", op |-> "register", user |-> u, tenant |-> t, shown |-> None] \in Request
      BY DEF Request, AllOps
    <3> QED
      BY <3>1, TypeProvision, TypeBegin DEF Begin
  <2>2. CASE CheckOwned(r, u)
    <3>1. [pc |-> "create", op |-> "organization", user |-> u, tenant |-> None, shown |-> None]
            \in Request
      BY DEF Request
    <3> QED
      BY <2>2, <3>1 DEF CheckOwned, Begin, TypeOK
  <2>3. ASSUME NEW t \in Tenants, FindMembership(r, u, t) PROVE TypeOK'
    <3>1. [pc |-> "update", op |-> "switch", user |-> u, tenant |-> t, shown |-> None] \in Request
      BY DEF Request
    <3> QED
      BY <2>3, <3>1 DEF FindMembership, Begin, TypeOK
  <2>4. ASSUME NEW op \in {"login", "refresh"}, ReadUser(r, op, u) PROVE TypeOK'
    <3>1. active[u] \in Tenants
      BY <2>4 DEF ReadUser, TypeOK
    <3>2. [pc |-> "issue", op |-> op, user |-> u, tenant |-> active[u], shown |-> None] \in Request
      BY <3>1 DEF Request, AllOps
    <3> QED
      BY <2>4, <3>2 DEF ReadUser, Begin, TypeOK
  <2>5. CASE AskCurrent(r, u)
    <3>1. [pc |-> "context", op |-> "current", user |-> u, tenant |-> None, shown |-> None]
            \in Request
      BY DEF Request
    <3> QED
      BY <2>5, <3>1 DEF AskCurrent, Begin, TypeOK
  <2> QED
    BY <1>1, <2>1, <2>2, <2>3, <2>4, <2>5 DEF Call
<1>2. ASSUME NEW r \in Requests, Work(r) PROVE TypeOK'
  <2>1. req[r] \in Request
    BY DEF TypeOK
  <2>2. CASE CreateOrganization(r)
    <3>1. PICK t \in Tenants : /\ Provision(req[r].user, t, "BUSINESS")
                               /\ req' = [req EXCEPT ![r].pc = "issue", ![r].tenant = t]
      BY <2>2 DEF CreateOrganization
    <3>2. req[r].user \in Users /\ [req[r] EXCEPT !.pc = "issue", !.tenant = t] \in Request
      <4>1. req[r] \in [pc : {"create"}, op : {"organization"}, user : Users, tenant : {None},
                        shown : {None}]
        BY <2>1, <2>2 DEF CreateOrganization, Request, Idle
      <4>2. [req[r] EXCEPT !.pc = "issue", !.tenant = t]
              \in [pc : {"issue"}, op : {"organization"}, user : Users, tenant : Tenants,
                   shown : {None}]
        BY <4>1
      <4> QED
        BY <4>1, <4>2 DEF Request, AllOps
    <3>3. req' = [req EXCEPT ![r] = [req[r] EXCEPT !.pc = "issue", !.tenant = t]]
      BY <3>1 DEF TypeOK
    <3>4. "BUSINESS" \in Kinds
      BY DEF Kinds
    <3> QED
      BY <3>1, <3>2, <3>3, <3>4, TypeProvision, TypeBegin
  <2>3. CASE UpdateActive(r)
    <3>1. /\ req[r].user \in Users /\ req[r].tenant \in Tenants
          /\ [req[r] EXCEPT !.pc = "issue"] \in Request
      BY <2>1, <2>3 DEF UpdateActive, Request, AllOps, Idle
    <3> QED
      BY <2>3, <3>1 DEF UpdateActive, TypeOK
  <2>4. CASE IssueToken(r)
    <3>1. CASE req[r].op \in {"login", "refresh"}
      <4>1. [req[r] EXCEPT !.pc = "context"] \in Request
        BY <2>1, <2>4, <3>1 DEF IssueToken, Request, Idle
      <4> QED
        BY <2>4, <3>1, <4>1 DEF IssueToken, TypeOK
    <3>2. CASE req[r].op \notin {"login", "refresh"}
      <4>1. [req[r] EXCEPT !.pc = "answer", !.shown = req[r].tenant] \in Request
        <5>1. req[r] \in [pc : {"issue"}, op : AllOps \ {"current"}, user : Users,
                          tenant : Tenants, shown : {None}]
          BY <2>1, <2>4 DEF IssueToken, Request, Idle
        <5>2. [req[r] EXCEPT !.pc = "answer", !.shown = req[r].tenant]
                \in [pc : {"answer"}, op : AllOps, user : Users, tenant : Tenants,
                     shown : Tenants]
          BY <5>1
        <5> QED
          BY <5>2 DEF Request
      <4> QED
        BY <2>4, <3>2, <4>1 DEF IssueToken, TypeOK
    <3> QED
      BY <3>1, <3>2
  <2>5. CASE ReadContext(r)
    <3>1. req[r].user \in Users
      BY <2>1, <2>5 DEF ReadContext, Request, Idle
    <3>2. Current(req[r].user) \in Tenants \cup {None}
      BY <3>1 DEF Current, TypeOK
    <3>3. [req[r] EXCEPT !.pc = "answer", !.shown = Current(req[r].user)] \in Request
      <4>1. req[r] \in [pc : {"context"}, op : AllOps, user : Users, tenant : Tenants \cup {None},
                        shown : {None}]
        BY <2>1, <2>5 DEF ReadContext, Request, Idle, AllOps
      <4>2. [req[r] EXCEPT !.pc = "answer", !.shown = Current(req[r].user)]
              \in [pc : {"answer"}, op : AllOps, user : Users, tenant : Tenants \cup {None},
                   shown : Tenants \cup {None}]
        BY <3>2, <4>1
      <4> QED
        BY <4>2 DEF Request
    <3> QED
      BY <2>5, <3>3 DEF ReadContext, TypeOK
  <2> QED
    BY <1>2, <2>2, <2>3, <2>4, <2>5 DEF Work
<1>3. ASSUME NEW r \in Requests, Answer(r) \/ Fails(r) PROVE TypeOK'
  <2>1. Idle \in Request
    BY DEF Request
  <2> QED
    BY <1>3, <2>1 DEF Answer, Fails, TypeOK
<1>4. CASE UNCHANGED tenancyVars
  BY <1>4 DEF tenancyVars, TypeOK
<1> QED
  BY <1>1, <1>2, <1>3, <1>4 DEF Next

(* Type correctness: every field of the state keeps its range. *)
THEOREM TenancyTypeCorrect == Spec => []TypeOK
  BY TypeInit, TypeNext, PTL DEF Spec

-----------------------------------------------------------------------------
(***************************************************************************)
(* Tenants are only added, activeTenantId and the roles change with them   *)
(* or by a switch to a tenant that was found: what is stored or on its way *)
(* in a request stays a tenant of its user.                                *)
(***************************************************************************)
LEMMA MembersStay ==
    ASSUME TypeOK, [Next]_tenancyVars, NEW u \in Users, NEW t \in Tenants, Member(u, t)
    PROVE  Member(u, t)' /\ tenant'[t] = tenant[t]
<1>1. tenant'[t] = tenant[t]
  <2>1. ASSUME NEW v \in Users, NEW x \in Tenants, NEW k \in Kinds, Provision(v, x, k)
        PROVE  tenant'[t] = tenant[t]
    <3>1. x # t
      BY <2>1 DEF Provision, Member
    <3> QED
      BY <2>1, <3>1 DEF Provision, TypeOK
  <2>2. ASSUME NEW r \in Requests, NEW v \in Users, Call(r, v) PROVE tenant'[t] = tenant[t]
    BY <2>1, <2>2 DEF Call, Register, CheckOwned, FindMembership, ReadUser, AskCurrent
  <2>3. ASSUME NEW r \in Requests, CreateOrganization(r) PROVE tenant'[t] = tenant[t]
    <3>1. req[r].user \in Users
      BY <2>3 DEF CreateOrganization, TypeOK, Request, Idle
    <3> QED
      BY <2>1, <2>3, <3>1 DEF CreateOrganization, Kinds
  <2> QED
    BY <2>2, <2>3 DEF Next, Work, UpdateActive, IssueToken, ReadContext, Answer, Fails,
                      tenancyVars
<1> QED
  BY <1>1 DEF Member

ActiveMember == \A u \in Users : active[u] # None => Member(u, active[u])

RequestMember(r) ==
    /\ req[r].tenant # None => Member(req[r].user, req[r].tenant)
    /\ req[r].shown # None => Member(req[r].user, req[r].shown)

LEMMA ContextParts == ContextIsMember <=> ActiveMember /\ \A r \in Requests : RequestMember(r)
  BY DEF ContextIsMember, ActiveMember, RequestMember

LEMMA ActiveStep == TypeOK /\ ContextIsMember /\ [Next]_tenancyVars => ActiveMember'
<1> SUFFICES ASSUME TypeOK, ContextIsMember, [Next]_tenancyVars, NEW u \in Users,
                    active'[u] # None
             PROVE  Member(u, active[u])'
  BY DEF ActiveMember
<1>1. CASE active'[u] = active[u]
  <2>1. active[u] \in Tenants /\ Member(u, active[u])
    BY <1>1 DEF TypeOK, ContextIsMember
  <2>2. PICK t \in Tenants : t = active[u]
    BY <2>1
  <2>3. Member(u, t)'
    BY <2>1, <2>2, MembersStay
  <2> QED
    BY <1>1, <2>2, <2>3 DEF Member
<1>2. ASSUME NEW v \in Users, NEW t \in Tenants, NEW k \in Kinds, Provision(v, t, k),
             active'[u] # active[u]
      PROVE  Member(u, active[u])'
  <2>1. u = v /\ active'[u] = t
    BY <1>2 DEF Provision, TypeOK
  <2>2. tenant'[t] = [owner |-> u, type |-> k] /\ tenant'[t] # None
    <3>1. [owner |-> u, type |-> k] \in Tenant
      BY DEF Tenant
    <3>2. tenant'[t] = [owner |-> u, type |-> k]
      BY <1>2, <2>1 DEF Provision, TypeOK
    <3> QED
      BY <3>1, <3>2, TenancyAssumption
  <2>3. Member(u, t)'
    BY <2>2 DEF Member
  <2> QED
    BY <2>1, <2>3 DEF Member
<1>3. ASSUME NEW r \in Requests, NEW v \in Users, Call(r, v), active'[u] # active[u]
      PROVE  Member(u, active[u])'
  BY <1>2, <1>3 DEF Call, Register, CheckOwned, FindMembership, ReadUser, AskCurrent
<1>4. ASSUME NEW r \in Requests, CreateOrganization(r), active'[u] # active[u]
      PROVE  Member(u, active[u])'
  <2>1. req[r].user \in Users
    BY <1>4 DEF CreateOrganization, TypeOK, Request, Idle
  <2> QED
    BY <1>2, <1>4, <2>1 DEF CreateOrganization, Kinds
<1>5. ASSUME NEW r \in Requests, UpdateActive(r), active'[u] # active[u]
      PROVE  Member(u, active[u])'
  <2>1. u = req[r].user /\ active'[u] = req[r].tenant
    BY <1>5 DEF UpdateActive, TypeOK
  <2>2. req[r].tenant \in Tenants
    BY <1>5 DEF UpdateActive, TypeOK, Request, Idle
  <2>3. Member(u, req[r].tenant)
    BY <2>1, <2>2, TenancyAssumption DEF ContextIsMember
  <2>4. PICK t \in Tenants : t = req[r].tenant
    BY <2>2
  <2>5. Member(u, t)'
    BY <2>3, <2>4, MembersStay
  <2> QED
    BY <2>1, <2>4, <2>5 DEF Member
<1>6. CASE active' = active
  BY <1>1, <1>6
<1> QED
  BY <1>1, <1>3, <1>4, <1>5, <1>6 DEF Next, Work, IssueToken, ReadContext, Answer, Fails,
                                     tenancyVars

(* A request written by a read, or moved on without a new tenant. *)
LEMMA RequestStep == TypeOK /\ ContextIsMember /\ [Next]_tenancyVars
                       => \A r \in Requests : RequestMember(r)'
<1> SUFFICES ASSUME TypeOK, ContextIsMember, [Next]_tenancyVars, NEW q \in Requests
             PROVE  RequestMember(q)'
  OBVIOUS
<1> DEFINE same == /\ req'[q].user = req[q].user
                   /\ req'[q].tenant = req[q].tenant
                   /\ req'[q].shown \in {req[q].shown, req[q].tenant, None}
<1>1. ASSUME NEW u \in Users, NEW t, t # None, Member(u, t) PROVE Member(u, t)'
  <2>1. t \in Tenants
    BY <1>1 DEF Member
  <2> QED
    BY <1>1, <2>1, MembersStay
<1>2. /\ req[q].tenant # None => Member(req[q].user, req[q].tenant)
      /\ req[q].shown # None => Member(req[q].user, req[q].shown)
  BY ContextParts DEF RequestMember
<1>3. req[q] # Idle => req[q].user \in Users
  BY DEF TypeOK, Request
<1>4. CASE same /\ req[q] # Idle
  <2>1. PICK u \in Users : u = req[q].user
    BY <1>3, <1>4
  <2>2. PICK t \in Tenants \cup {None} : t = req[q].tenant
    BY <1>4 DEF TypeOK, Request
  <2>3. PICK s \in Tenants \cup {None} : s = req[q].shown
    BY <1>4 DEF TypeOK, Request
  <2>4. (t # None => Member(u, t)') /\ (s # None => Member(u, s)')
    BY <1>1, <1>2, <2>1, <2>2, <2>3
  <2>5. req'[q].user = u /\ req'[q].tenant = t /\ req'[q].shown \in {s, t, None}
    BY <1>4, <2>1, <2>2, <2>3
  <2> QED
    BY <2>4, <2>5 DEF RequestMember, Member
<1>5. CASE req'[q] = Idle
  BY <1>5 DEF RequestMember, Idle
<1>6. CASE req'[q] = req[q] /\ req[q] # Idle
  BY <1>4, <1>6
<1>7. CASE req'[q] = req[q]
  BY <1>5, <1>6, <1>7
<1>8. ASSUME NEW u \in Users, NEW t \in Tenants,
             req'[q].user = u, req'[q].tenant = t, req'[q].shown \in {None, t}, Member(u, t)'
      PROVE  RequestMember(q)'
  BY <1>8 DEF RequestMember, Member
<1>9. ASSUME NEW r \in Requests, NEW u \in Users, Call(r, u) PROVE RequestMember(q)'
  <2>1. CASE r # q
    <3>1. req'[q] = req[q]
      BY <1>9, <2>1 DEF Call, Register, CheckOwned, FindMembership, ReadUser, AskCurrent, Begin,
                        TypeOK
    <3> QED
      BY <1>7, <3>1
  <2>2. CASE r = q
    <3>1. ASSUME NEW k \in Kinds, Register(r, u, k) PROVE RequestMember(q)'
      <4> PICK t \in Tenants : Provision(u, t, k) /\ Begin(r, "register", "issue", u, t)
        BY <3>1 DEF Register
      <4>1. tenant'[t] = [owner |-> u, type |-> k]
        BY DEF Provision, TypeOK
      <4>2. tenant'[t] \in Tenant
        BY <4>1 DEF Tenant
      <4>3. Member(u, t)'
        BY <4>1, <4>2, TenancyAssumption DEF Member
      <4> QED
        BY <1>8, <2>2, <4>3 DEF Begin, TypeOK
    <3>2. CASE CheckOwned(r, u) \/ AskCurrent(r, u)
      BY <2>2, <3>2 DEF CheckOwned, AskCurrent, Begin, TypeOK, RequestMember
    <3>3. ASSUME NEW t \in Tenants, FindMembership(r, u, t) PROVE RequestMember(q)'
      <4>1. Member(u, t)'
        BY <3>3, MembersStay DEF FindMembership
      <4> QED
        BY <1>8, <2>2, <3>3, <4>1 DEF FindMembership, Begin, TypeOK
    <3>4. ASSUME NEW op \in {"login", "refresh"}, ReadUser(r, op, u) PROVE RequestMember(q)'
      <4>1. PICK t \in Tenants : t = active[u]
        BY <3>4 DEF ReadUser, TypeOK
      <4>2. Member(u, t)
        BY <3>4, <4>1 DEF ReadUser, ContextIsMember
      <4>3. Member(u, t)'
        BY <4>2, MembersStay
      <4> QED
        BY <1>8, <2>2, <3>4, <4>1, <4>3 DEF ReadUser, Begin, TypeOK
    <3> QED
      BY <1>9, <3>1, <3>2, <3>3, <3>4 DEF Call
  <2> QED
    BY <2>1, <2>2
<1>10. ASSUME NEW r \in Requests, Work(r) PROVE RequestMember(q)'
  <2>1. CASE r # q
    <3>1. req'[q] = req[q]
      BY <1>10, <2>1 DEF Work, CreateOrganization, UpdateActive, IssueToken, ReadContext, TypeOK
    <3> QED
      BY <1>7, <3>1
  <2>2. CASE r = q
    <3>0. req[q] \in Request
      BY DEF TypeOK
    <3>1. CASE CreateOrganization(q)
      <4> PICK t \in Tenants : /\ Provision(req[q].user, t, "BUSINESS")
                               /\ req' = [req EXCEPT ![q].pc = "issue", ![q].tenant = t]
        BY <3>1 DEF CreateOrganization
      <4>1. req[q].shown = None /\ req[q].user \in Users
        BY <3>0, <3>1 DEF CreateOrganization, Request, Idle
      <4>2. PICK u \in Users : u = req[q].user
        BY <4>1
      <4>3. req'[q].user = u /\ req'[q].tenant = t /\ req'[q].shown = None
        BY <3>0, <4>1, <4>2 DEF TypeOK, Request, Idle
      <4>4. tenant'[t] = [owner |-> u, type |-> "BUSINESS"]
        BY <4>2 DEF Provision, TypeOK
      <4>5. tenant'[t] \in Tenant
        BY <4>4 DEF Tenant, Kinds
      <4>6. Member(u, t)'
        BY <4>4, <4>5, TenancyAssumption DEF Member
      <4> QED
        BY <1>8, <4>3, <4>6
    <3>2. CASE UpdateActive(q) \/ IssueToken(q)
      <4>1. req[q] # Idle
        BY <3>2 DEF UpdateActive, IssueToken, Idle
      <4>2. same
        BY <3>0, <3>2 DEF UpdateActive, IssueToken, TypeOK, Request, Idle
      <4> QED
        BY <1>4, <4>1, <4>2
    <3>3. CASE ReadContext(q)
      <4>1. req[q].user \in Users
        BY <3>0, <3>3 DEF ReadContext, Request, Idle
      <4>2. PICK u \in Users : u = req[q].user
        BY <4>1
      <4>3. PICK t \in Tenants \cup {None} : t = req[q].tenant
        BY <3>0, <3>3 DEF ReadContext, Request, Idle
      <4>4. PICK s \in Tenants \cup {None} : s = Current(u)
        BY DEF Current, Member
      <4>5. (t # None => Member(u, t)) /\ (s # None => Member(u, s))
        BY <1>2, <4>2, <4>3, <4>4 DEF Current
      <4>6. (t # None => Member(u, t)') /\ (s # None => Member(u, s)')
        BY <1>1, <4>5
      <4>7. req'[q].user = u /\ req'[q].tenant = t /\ req'[q].shown = s
        BY <3>0, <3>3, <4>2, <4>3, <4>4 DEF ReadContext, TypeOK, Request, Idle
      <4> QED
        BY <4>6, <4>7 DEF RequestMember, Member
    <3> QED
      BY <1>10, <2>2, <3>1, <3>2, <3>3 DEF Work
  <2> QED
    BY <2>1, <2>2
<1>11. ASSUME NEW r \in Requests, Answer(r) \/ Fails(r) PROVE RequestMember(q)'
  BY <1>5, <1>7, <1>11 DEF Answer, Fails, TypeOK
<1>12. CASE UNCHANGED tenancyVars
  BY <1>7, <1>12 DEF tenancyVars
<1> QED
  BY <1>9, <1>10, <1>11, <1>12 DEF Next

LEMMA ContextInit == Init => ContextIsMember
  BY DEF Init, ContextIsMember, Idle

LEMMA ContextNext == TypeOK /\ ContextIsMember /\ [Next]_tenancyVars => ContextIsMember'
<1> SUFFICES ASSUME TypeOK, ContextIsMember, [Next]_tenancyVars PROVE ContextIsMember'
  OBVIOUS
<1>1. ActiveMember' /\ \A r \in Requests : RequestMember(r)'
  BY ActiveStep, RequestStep
<1> QED
  BY <1>1 DEF ActiveMember, RequestMember, ContextIsMember

(* No interleaving stores, names or shows a tenant of somebody else. *)
THEOREM ContextStaysMember == Spec => []ContextIsMember
  BY ContextInit, ContextNext, TenancyTypeCorrect, PTL DEF Spec

-----------------------------------------------------------------------------
(* The only steps that touch a tenant write all its parts. *)
LEMMA ProvisionOnly ==
    ASSUME TypeOK, [Next]_tenancyVars
    PROVE  \/ UNCHANGED <<tenant, business>>
           \/ \E u \in Users, t \in Tenants, k \in Kinds : Provision(u, t, k)
<1>1. ASSUME NEW r \in Requests, NEW u \in Users, Call(r, u)
      PROVE  UNCHANGED <<tenant, business>> \/ \E t \in Tenants, k \in Kinds : Provision(u, t, k)
  BY <1>1 DEF Call, Register, CheckOwned, FindMembership, ReadUser, AskCurrent
<1>2. ASSUME NEW r \in Requests, CreateOrganization(r)
      PROVE  \E u \in Users, t \in Tenants, k \in Kinds : Provision(u, t, k)
  <2>1. req[r].user \in Users
    BY <1>2 DEF CreateOrganization, TypeOK, Request, Idle
  <2> QED
    BY <1>2, <2>1 DEF CreateOrganization, Kinds
<1>3. CASE Next
  BY <1>1, <1>2, <1>3 DEF Next, Work, UpdateActive, IssueToken, ReadContext, Answer, Fails
<1>4. CASE UNCHANGED tenancyVars
  BY <1>4 DEF tenancyVars
<1> QED
  BY <1>3, <1>4

(* What Provision adds to the business tenants a user owns. *)
LEMMA OwnedAfter ==
    ASSUME TypeOK, NEW u \in Users, NEW t \in Tenants, NEW k \in Kinds, Provision(u, t, k),
           NEW v \in Users
    PROVE  Owned(v)' = IF v = u /\ k = "BUSINESS" THEN Owned(v) \cup {t} ELSE Owned(v)
<1>1. tenant'[t] = [owner |-> u, type |-> k] /\ tenant[t] = None
  BY DEF Provision, TypeOK
<1>2. tenant'[t] # None
  <2>1. tenant'[t] \in Tenant
    BY <1>1 DEF Tenant
  <2> QED
    BY <2>1, TenancyAssumption
<1>3. \A x \in Tenants \ {t} : tenant'[x] = tenant[x]
  BY DEF Provision, TypeOK
<1> QED
  BY <1>1, <1>2, <1>3 DEF Owned, Member

LEMMA RoleNext == TypeOK /\ BusinessOwnersHaveRole /\ [Next]_tenancyVars => BusinessOwnersHaveRole'
<1> SUFFICES ASSUME TypeOK, BusinessOwnersHaveRole, [Next]_tenancyVars,
                    NEW v \in Users, Owned(v)' # {}
             PROVE  v \in business'
  BY DEF BusinessOwnersHaveRole
<1>1. CASE UNCHANGED <<tenant, business>>
  BY <1>1 DEF BusinessOwnersHaveRole, Owned, Member
<1>2. ASSUME NEW u \in Users, NEW t \in Tenants, NEW k \in Kinds, Provision(u, t, k)
      PROVE  v \in business'
  <2>1. business' = IF k = "BUSINESS" THEN business \cup {u} ELSE business
    BY <1>2 DEF Provision
  <2>2. CASE v = u /\ k = "BUSINESS"
    BY <2>1, <2>2
  <2>3. CASE ~(v = u /\ k = "BUSINESS")
    <3>1. Owned(v) # {}
      BY <1>2, <2>3, OwnedAfter
    <3>2. v \in business
      BY <3>1 DEF BusinessOwnersHaveRole
    <3> QED
      BY <2>1, <3>2
  <2> QED
    BY <2>2, <2>3
<1> QED
  BY <1>1, <1>2, ProvisionOnly

(* Every owner of a business tenant has the role BUSINESS. *)
THEOREM OwnersHaveRole == Spec => []BusinessOwnersHaveRole
<1>1. Init => BusinessOwnersHaveRole
  BY DEF Init, BusinessOwnersHaveRole, Owned, Member
<1> QED
  BY <1>1, RoleNext, TenancyTypeCorrect, PTL DEF Spec

-----------------------------------------------------------------------------
(* Nobody owns a tenant before registering. *)
OwnersRegistered == \A t \in Tenants : tenant[t] # None => active[tenant[t].owner] # None

LEMMA ActiveStays ==
    ASSUME TypeOK, [Next]_tenancyVars
    PROVE  \A u \in Users : active[u] # None => active'[u] # None
<1>1. ASSUME NEW v \in Users, NEW x \in Tenants, NEW k \in Kinds, Provision(v, x, k)
      PROVE  \A u \in Users : active[u] # None => active'[u] # None
  BY <1>1, TenancyAssumption DEF Provision, TypeOK
<1>2. ASSUME NEW r \in Requests, UpdateActive(r)
      PROVE  \A u \in Users : active[u] # None => active'[u] # None
  <2>1. req[r].tenant \in Tenants
    BY <1>2 DEF UpdateActive, TypeOK, Request, Idle
  <2> QED
    BY <1>2, <2>1, TenancyAssumption DEF UpdateActive, TypeOK
<1>3. ASSUME NEW r \in Requests, CreateOrganization(r)
      PROVE  \A u \in Users : active[u] # None => active'[u] # None
  <2>1. req[r].user \in Users
    BY <1>3 DEF CreateOrganization, TypeOK, Request, Idle
  <2> QED
    BY <1>1, <1>3, <2>1 DEF CreateOrganization, Kinds
<1>4. ASSUME NEW r \in Requests, NEW v \in Users, Call(r, v)
      PROVE  \A u \in Users : active[u] # None => active'[u] # None
  BY <1>1, <1>4 DEF Call, Register, CheckOwned, FindMembership, ReadUser, AskCurrent
<1>5. CASE UNCHANGED active
  BY <1>5
<1> QED
  BY <1>2, <1>3, <1>4, <1>5 DEF Next, Work, IssueToken, ReadContext, Answer, Fails, tenancyVars

LEMMA OwnersRegisteredStep ==
    ASSUME TypeOK, OwnersRegistered, [Next]_tenancyVars
    PROVE  OwnersRegistered'
<1>1. CASE UNCHANGED tenant
  <2>1. \A t \in Tenants : tenant[t] # None => tenant[t].owner \in Users
    BY DEF TypeOK, Tenant
  <2> QED
    BY <1>1, <2>1, ActiveStays DEF OwnersRegistered
<1>2. ASSUME NEW u \in Users, NEW t \in Tenants, NEW k \in Kinds, Provision(u, t, k)
      PROVE  OwnersRegistered'
  <2>1. tenant'[t] = [owner |-> u, type |-> k] /\ active'[u] = t /\ t # None
    BY <1>2, TenancyAssumption DEF Provision, TypeOK
  <2>2. \A x \in Tenants \ {t} : tenant'[x] = tenant[x]
    BY <1>2 DEF Provision, TypeOK
  <2>3. \A x \in Tenants : tenant[x] # None => tenant[x].owner \in Users
    BY DEF TypeOK, Tenant
  <2> QED
    BY <2>1, <2>2, <2>3, ActiveStays DEF OwnersRegistered
<1> QED
  BY <1>1, <1>2, ProvisionOnly

-----------------------------------------------------------------------------
(***************************************************************************)
(* What a step of Tenancy does to its own request and to the others.       *)
(***************************************************************************)
OthersKept(r) == \A q \in Requests \ {r} : req'[q] = req[q]

(* A request begins, works on, or ends. *)
Begun(r, op, u) ==
    /\ req[r].pc = "idle" /\ req'[r].pc # "idle" /\ req'[r].pc # "answer"
    /\ req'[r].op = op /\ req'[r].user = u
    /\ OthersKept(r)

Worked(r) ==
    /\ req[r].pc # "idle" /\ req'[r].pc # "idle"
    /\ req'[r].op = req[r].op /\ req'[r].user = req[r].user
    /\ OthersKept(r)

Ended(r) ==
    /\ req[r].pc # "idle" /\ req'[r].pc = "idle"
    /\ OthersKept(r)

LEMMA RequestTyped ==
    ASSUME TypeOK, NEW r \in Requests
    PROVE  /\ req[r].pc = "idle" <=> req[r] = Idle
           /\ req[r].pc # "idle" => req[r].user \in Users /\ req[r].op \in AllOps
           /\ req[r].pc \in {"create"} => req[r].op = "organization"
           /\ req[r].pc \in {"update"} => req[r].op = "switch" /\ req[r].tenant \in Tenants
           /\ req[r].pc = "issue" => req[r].op # "current" /\ req[r].tenant \in Tenants
           /\ req[r].pc = "context" /\ req[r].op # "current" => req[r].tenant \in Tenants
           /\ req[r].pc = "context" => req[r].op \in {"login", "refresh", "current"}
           /\ req[r].tenant \in Tenants \cup {None} /\ req[r].shown \in Tenants \cup {None}
<1>1. req[r] \in Request
  BY DEF TypeOK
<1> QED
  BY <1>1 DEF Request, Idle, AllOps

LEMMA CallBegins ==
    ASSUME TypeOK, NEW r \in Requests, NEW u
    PROVE  /\ \A k \in Kinds : Register(r, u, k) => Begun(r, "register", u)
           /\ CheckOwned(r, u) => Begun(r, "organization", u)
           /\ \A t \in Tenants : FindMembership(r, u, t) => Begun(r, "switch", u)
           /\ \A op : ReadUser(r, op, u) => Begun(r, op, u)
           /\ AskCurrent(r, u) => Begun(r, "current", u)
<1>1. ASSUME NEW op, NEW pc, NEW t, Begin(r, op, pc, u, t), pc \notin {"idle", "answer"}
      PROVE  Begun(r, op, u)
  BY <1>1 DEF Begin, Begun, OthersKept, Idle, TypeOK
<1> QED
  BY <1>1 DEF Register, CheckOwned, FindMembership, ReadUser, AskCurrent

LEMMA WorkWorks ==
    ASSUME TypeOK, NEW r \in Requests, Work(r)
    PROVE  Worked(r)
<1>1. req[r] \in Request
  BY DEF TypeOK
<1>2. CASE CreateOrganization(r)
  <2>1. PICK t \in Tenants : req' = [req EXCEPT ![r].pc = "issue", ![r].tenant = t]
    BY <1>2 DEF CreateOrganization
  <2> QED
    BY <1>1, <1>2, <2>1 DEF CreateOrganization, Worked, OthersKept, TypeOK, Request, Idle
<1>3. CASE UpdateActive(r)
  BY <1>1, <1>3 DEF UpdateActive, Worked, OthersKept, TypeOK, Request, Idle
<1>4. CASE IssueToken(r)
  BY <1>1, <1>4 DEF IssueToken, Worked, OthersKept, TypeOK, Request, Idle
<1>5. CASE ReadContext(r)
  BY <1>1, <1>5 DEF ReadContext, Worked, OthersKept, TypeOK, Request, Idle
<1> QED
  BY <1>2, <1>3, <1>4, <1>5 DEF Work

LEMMA AnswerEnds ==
    ASSUME TypeOK, NEW r \in Requests, Answer(r) \/ Fails(r)
    PROVE  Ended(r) /\ UNCHANGED <<tenant, active, business>>
  BY RequestTyped DEF Answer, Fails, Ended, OthersKept, TypeOK, Idle

-----------------------------------------------------------------------------
(***************************************************************************)
(* An answer that carries a session names a tenant and shows one: its user *)
(* has registered and is a member of what is stored.                       *)
(***************************************************************************)
Registered == \A r \in Requests : req[r].pc # "idle" => active[req[r].user] # None

AnswerFull ==
    \A r \in Requests :
        req[r].pc = "answer" /\ req[r].op # "current" => req[r].tenant # None /\ req[r].shown # None

LEMMA RegisteredNext ==
    ASSUME TypeOK, Registered, [Next]_tenancyVars
    PROVE  Registered'
<1>1. ASSUME NEW r \in Requests, NEW u \in Users, Call(r, u) PROVE Registered'
  <2>1. PICK op : Begun(r, op, u)
    BY <1>1, CallBegins DEF Call
  <2>2. active'[u] # None
    BY <1>1, ActiveStays, TenancyAssumption
       DEF Call, Register, CheckOwned, FindMembership, ReadUser, AskCurrent, Provision, TypeOK
  <2>3. \A q \in Requests \ {r} : req'[q].pc # "idle" => active'[req'[q].user] # None
    BY <2>1, ActiveStays, RequestTyped DEF Begun, OthersKept, Registered
  <2> QED
    BY <2>1, <2>2, <2>3 DEF Registered, Begun
<1>2. ASSUME NEW r \in Requests, Worked(r) \/ Ended(r) PROVE Registered'
  BY <1>2, ActiveStays, RequestTyped DEF Worked, Ended, OthersKept, Registered
<1>3. CASE UNCHANGED tenancyVars
  BY <1>3 DEF tenancyVars, Registered
<1> QED
  BY <1>1, <1>2, <1>3, WorkWorks, AnswerEnds DEF Next

LEMMA AnswerFullNext ==
    ASSUME TypeOK, ContextIsMember, Registered, AnswerFull, [Next]_tenancyVars
    PROVE  AnswerFull'
<1>1. ASSUME NEW r \in Requests, OthersKept(r),
             req'[r].pc = "answer" /\ req'[r].op # "current"
               => req'[r].tenant # None /\ req'[r].shown # None
      PROVE  AnswerFull'
  BY <1>1 DEF AnswerFull, OthersKept
<1>2. ASSUME NEW r \in Requests, NEW u \in Users, Call(r, u) PROVE AnswerFull'
  BY <1>1, <1>2, CallBegins DEF Call, Begun
<1>3. ASSUME NEW r \in Requests, Work(r) PROVE AnswerFull'
  <2>0. req[r] \in Request /\ Worked(r)
    BY <1>3, WorkWorks DEF TypeOK
  <2>1. CASE CreateOrganization(r)
    <3>1. PICK t \in Tenants : req' = [req EXCEPT ![r].pc = "issue", ![r].tenant = t]
      BY <2>1 DEF CreateOrganization
    <3>2. req'[r].pc = "issue"
      BY <2>0, <3>1 DEF TypeOK, Request, Idle
    <3> QED
      BY <1>1, <2>0, <3>2 DEF Worked
  <2>2. CASE UpdateActive(r)
    <3>1. req'[r].pc = "issue"
      BY <2>0, <2>2 DEF UpdateActive, TypeOK, Request, Idle
    <3> QED
      BY <1>1, <2>0, <3>1 DEF Worked
  <2>3. CASE IssueToken(r)
    <3>1. req[r].tenant # None
      BY <2>3, RequestTyped, TenancyAssumption DEF IssueToken
    <3>2. \/ req'[r].pc = "context"
          \/ req'[r].tenant = req[r].tenant /\ req'[r].shown = req[r].tenant
      BY <2>0, <2>3 DEF IssueToken, TypeOK, Request, Idle
    <3> QED
      BY <1>1, <2>0, <3>1, <3>2 DEF Worked
  <2>4. CASE ReadContext(r)
    <3>1. req'[r].tenant = req[r].tenant /\ req'[r].shown = Current(req[r].user)
      BY <2>0, <2>4 DEF ReadContext, TypeOK, Request, Idle
    <3>2. req[r].op # "current" => req[r].tenant # None
      BY <2>4, RequestTyped, TenancyAssumption DEF ReadContext
    <3>3. Current(req[r].user) = active[req[r].user] /\ active[req[r].user] # None
      BY <2>4, RequestTyped DEF ReadContext, Current, ContextIsMember, Registered
    <3> QED
      BY <1>1, <2>0, <3>1, <3>2, <3>3 DEF Worked
  <2> QED
    BY <1>3, <2>1, <2>2, <2>3, <2>4 DEF Work
<1>4. ASSUME NEW r \in Requests, Answer(r) \/ Fails(r) PROVE AnswerFull'
  BY <1>1, <1>4, AnswerEnds DEF Ended
<1>5. CASE UNCHANGED tenancyVars
  BY <1>5 DEF tenancyVars, AnswerFull
<1> QED
  BY <1>2, <1>3, <1>4, <1>5 DEF Next

-----------------------------------------------------------------------------
(***************************************************************************)
(* One request at a time that stores a tenant for its user: what such a    *)
(* request has read or written still holds when it goes on.                *)
(***************************************************************************)
Chooser(r) == req[r].pc # "idle" /\ req[r].op # "current"

Lone == \A q, r \in Requests : Chooser(q) /\ Chooser(r) => q = r

ChoiceHolds(r) ==
    Chooser(r) =>
      /\ req[r].pc \in {"issue", "context", "answer"} => req[r].tenant = active[req[r].user]
      /\ req[r].pc = "answer" => req[r].shown = req[r].tenant

ChoicesHold == \A r \in Requests : ChoiceHolds(r)

LEMMA ChoicesHoldNext ==
    ASSUME TypeOK, ContextIsMember, Registered, Lone', ChoicesHold, [Next]_tenancyVars
    PROVE  ChoicesHold'
<1>1. ASSUME NEW r \in Requests, OthersKept(r), ChoiceHolds(r)',
             UNCHANGED active \/ Chooser(r)'
      PROVE  ChoicesHold'
  <2>1. ASSUME NEW q \in Requests \ {r} PROVE ChoiceHolds(q)'
    <3>1. req'[q] = req[q]
      BY <1>1 DEF OthersKept
    <3>2. CASE UNCHANGED active
      BY <3>1, <3>2 DEF ChoicesHold, ChoiceHolds, Chooser
    <3>3. CASE Chooser(r)'
      BY <2>1, <3>3 DEF Lone, ChoiceHolds
    <3> QED
      BY <1>1, <3>2, <3>3
  <2> QED
    BY <1>1, <2>1 DEF ChoicesHold
<1>2. ASSUME NEW r \in Requests, NEW u \in Users, Call(r, u) PROVE ChoicesHold'
  <2>1. ASSUME NEW k \in Kinds, Register(r, u, k) PROVE ChoicesHold'
    <3>1. PICK t \in Tenants : Provision(u, t, k) /\ Begin(r, "register", "issue", u, t)
      BY <2>1 DEF Register
    <3>2. active'[u] = t
      BY <3>1 DEF Provision, TypeOK
    <3>3. Begun(r, "register", u)
      BY <2>1, CallBegins
    <3>4. req'[r].tenant = t
      BY <3>1 DEF Begin, TypeOK
    <3> QED
      BY <1>1, <3>2, <3>3, <3>4 DEF Begun, ChoiceHolds, Chooser
  <2>2. CASE CheckOwned(r, u) \/ AskCurrent(r, u) \/ \E t \in Tenants : FindMembership(r, u, t)
    <3>1. OthersKept(r)
      BY <2>2, CallBegins DEF Begun
    <3>2. req'[r].pc \in {"create", "update"} \/ req'[r].op = "current"
      BY <2>2 DEF CheckOwned, AskCurrent, FindMembership, Begin, TypeOK
    <3>3. UNCHANGED active
      BY <2>2 DEF CheckOwned, AskCurrent, FindMembership
    <3> QED
      BY <1>1, <3>1, <3>2, <3>3 DEF ChoiceHolds, Chooser
  <2>3. ASSUME NEW op \in {"login", "refresh"}, ReadUser(r, op, u) PROVE ChoicesHold'
    <3>1. Begun(r, op, u) /\ active' = active
      BY <2>3, CallBegins DEF ReadUser
    <3>2. req'[r].tenant = active[u]
      BY <2>3 DEF ReadUser, Begin, TypeOK
    <3> QED
      BY <1>1, <3>1, <3>2 DEF Begun, ChoiceHolds, Chooser
  <2> QED
    BY <1>2, <2>1, <2>2, <2>3 DEF Call
<1>3. ASSUME NEW r \in Requests, Work(r) PROVE ChoicesHold'
  <2>0. req[r] \in Request /\ Worked(r)
    BY <1>3, WorkWorks DEF TypeOK
  <2>1. CASE CreateOrganization(r)
    <3>1. PICK t \in Tenants : /\ Provision(req[r].user, t, "BUSINESS")
                               /\ req' = [req EXCEPT ![r].pc = "issue", ![r].tenant = t]
      BY <2>1 DEF CreateOrganization
    <3>2. active'[req[r].user] = t
      BY <2>1, <3>1, RequestTyped DEF CreateOrganization, Provision, TypeOK
    <3>3. req'[r].pc = "issue" /\ req'[r].tenant = t
      BY <2>0, <3>1 DEF TypeOK, Request, Idle
    <3>4. req[r].op = "organization"
      BY <2>1, RequestTyped DEF CreateOrganization
    <3> QED
      BY <1>1, <2>0, <3>2, <3>3, <3>4 DEF Worked, ChoiceHolds, Chooser
  <2>2. CASE UpdateActive(r)
    <3>1. active'[req[r].user] = req[r].tenant
      BY <2>2, RequestTyped DEF UpdateActive, TypeOK
    <3>2. req'[r].pc = "issue" /\ req'[r].tenant = req[r].tenant
      BY <2>0, <2>2 DEF UpdateActive, TypeOK, Request, Idle
    <3>3. req[r].op = "switch"
      BY <2>2, RequestTyped DEF UpdateActive
    <3> QED
      BY <1>1, <2>0, <3>1, <3>2, <3>3 DEF Worked, ChoiceHolds, Chooser
  <2>3. CASE IssueToken(r)
    <3>1. req[r].tenant = active[req[r].user] /\ active' = active
      BY <2>3, RequestTyped DEF IssueToken, ChoicesHold, ChoiceHolds, Chooser
    <3>2. /\ req'[r].tenant = req[r].tenant
          /\ req'[r].pc = "answer" => req'[r].shown = req[r].tenant
      BY <2>0, <2>3 DEF IssueToken, TypeOK, Request, Idle
    <3> QED
      BY <1>1, <2>0, <3>1, <3>2 DEF Worked, ChoiceHolds, Chooser
  <2>4. CASE ReadContext(r)
    <3>1. Current(req[r].user) = active[req[r].user] /\ active' = active
      BY <2>4, RequestTyped DEF ReadContext, Current, ContextIsMember, Registered
    <3>2. req'[r].tenant = req[r].tenant /\ req'[r].shown = Current(req[r].user)
      BY <2>0, <2>4 DEF ReadContext, TypeOK, Request, Idle
    <3>3. Chooser(r) => req[r].tenant = active[req[r].user]
      BY <2>4 DEF ReadContext, ChoicesHold, ChoiceHolds
    <3> QED
      BY <1>1, <2>0, <2>4, <3>1, <3>2, <3>3 DEF Worked, ChoiceHolds, Chooser, ReadContext
  <2> QED
    BY <1>3, <2>1, <2>2, <2>3, <2>4 DEF Work
<1>4. ASSUME NEW r \in Requests, Answer(r) \/ Fails(r) PROVE ChoicesHold'
  BY <1>1, <1>4, AnswerEnds DEF Ended, ChoiceHolds, Chooser
<1>5. CASE UNCHANGED tenancyVars
  BY <1>5 DEF tenancyVars, ChoicesHold, ChoiceHolds, Chooser
<1> QED
  BY <1>2, <1>3, <1>4, <1>5 DEF Next

CheckHolds == \A r \in Requests : req[r].pc = "create" => Owned(req[r].user) = {}

LEMMA OneOwnedStep ==
    ASSUME Lone', TypeOK, OneOwnedBusiness, CheckHolds, OwnersRegistered, [Next]_tenancyVars
    PROVE  OneOwnedBusiness' /\ CheckHolds'
<1>1. ASSUME NEW u \in Users, NEW t \in Tenants, NEW k \in Kinds, Provision(u, t, k),
             Owned(u) = {}
      PROVE  OneOwnedBusiness'
  BY <1>1, OwnedAfter DEF OneOwnedBusiness
<1>2. ASSUME UNCHANGED tenant PROVE OneOwnedBusiness' /\ \A u : Owned(u)' = Owned(u)
  <2>1. \A u : Owned(u)' = Owned(u)
    BY <1>2 DEF Owned, Member
  <2> QED
    BY <2>1 DEF OneOwnedBusiness
(* One that writes a tenant is the only one that chooses. *)
<1>3. ASSUME NEW r \in Requests, OthersKept(r), Chooser(r)', req'[r].pc # "create"
      PROVE  CheckHolds'
  <2>1. ASSUME NEW q \in Requests, req'[q].pc = "create"
        PROVE  q = r
    <3>1. q # r => req[q].op = "organization" /\ req'[q] = req[q]
      BY <1>3, <2>1, RequestTyped DEF OthersKept
    <3>2. q # r => Chooser(q)'
      BY <2>1, <3>1 DEF Chooser
    <3> QED
      BY <1>3, <3>2 DEF Lone
  <2> QED
    BY <1>3, <2>1 DEF CheckHolds
<1>4. ASSUME UNCHANGED tenant, NEW r \in Requests, OthersKept(r), req'[r].pc # "create"
      PROVE  OneOwnedBusiness' /\ CheckHolds'
  BY <1>2, <1>4 DEF CheckHolds, OthersKept
<1>5. ASSUME NEW r \in Requests, NEW u \in Users, Call(r, u)
      PROVE  OneOwnedBusiness' /\ CheckHolds'
  <2>1. ASSUME NEW k \in Kinds, Register(r, u, k)
        PROVE  OneOwnedBusiness' /\ CheckHolds'
    <3> PICK t \in Tenants : Provision(u, t, k) /\ Begin(r, "register", "issue", u, t)
      BY <2>1 DEF Register
    <3>1. Begun(r, "register", u) /\ req'[r].pc = "issue"
      BY <2>1, CallBegins DEF Begin, TypeOK
    <3>2. ASSUME NEW x \in Owned(u) PROVE FALSE
      <4>1. x \in Tenants /\ tenant[x] # None /\ tenant[x].owner = u
        BY DEF Owned, Member
      <4>2. active[u] = None
        BY <2>1 DEF Register
      <4> QED
        BY <4>1, <4>2 DEF OwnersRegistered
    <3> QED
      BY <1>1, <1>3, <3>1, <3>2 DEF Begun, Chooser
  <2>2. CASE CheckOwned(r, u)
    <3>1. Begun(r, "organization", u) /\ Owned(u) = {} /\ UNCHANGED tenant
      BY <2>2, CallBegins DEF CheckOwned
    <3> QED
      BY <1>2, <3>1 DEF CheckHolds, Begun, OthersKept
  <2>3. CASE \/ \E t \in Tenants : FindMembership(r, u, t)
             \/ \E op \in {"login", "refresh"} : ReadUser(r, op, u)
             \/ AskCurrent(r, u)
    <3>1. req'[r].pc # "create" /\ UNCHANGED tenant
      BY <2>3 DEF FindMembership, ReadUser, AskCurrent, Begin, TypeOK
    <3>2. OthersKept(r)
      BY <2>3, CallBegins DEF Begun
    <3> QED
      BY <1>4, <3>1, <3>2
  <2> QED
    BY <1>5, <2>1, <2>2, <2>3 DEF Call
<1>6. ASSUME NEW r \in Requests, Work(r)
      PROVE  OneOwnedBusiness' /\ CheckHolds'
  <2>1. req[r] \in Request /\ Worked(r)
    BY <1>6, WorkWorks DEF TypeOK
  <2>2. req'[r].pc # "create"
    BY <1>6, <2>1 DEF Work, CreateOrganization, UpdateActive, IssueToken, ReadContext, TypeOK,
                      Idle, Request
  <2>3. CASE CreateOrganization(r)
    <3>1. req[r].user \in Users /\ Owned(req[r].user) = {} /\ req[r].op = "organization"
      BY <2>3, RequestTyped DEF CreateOrganization, CheckHolds
    <3>2. \E t \in Tenants : Provision(req[r].user, t, "BUSINESS")
      BY <2>3 DEF CreateOrganization
    <3> QED
      BY <1>1, <1>3, <2>1, <2>2, <3>1, <3>2 DEF Kinds, Worked, Chooser
  <2>4. CASE UNCHANGED tenant
    BY <1>4, <2>1, <2>2, <2>4 DEF Worked
  <2> QED
    BY <1>6, <2>3, <2>4 DEF Work, UpdateActive, IssueToken, ReadContext
<1>7. ASSUME NEW r \in Requests, Answer(r) \/ Fails(r)
      PROVE  OneOwnedBusiness' /\ CheckHolds'
  BY <1>4, <1>7, AnswerEnds DEF Ended
<1>8. CASE UNCHANGED tenancyVars
  BY <1>2, <1>8 DEF tenancyVars, CheckHolds
<1> QED
  BY <1>5, <1>6, <1>7, <1>8 DEF Next

(* Requests that run one at a time: there is one slot for them. *)
Serial == \A r, q \in Requests : r = q

(* One request at a time, a user never owns two business tenants: the      *)
(* check of userOwnsBusinessTenant still holds when the tenant is written. *)
THEOREM SerialOneBusiness ==
    ASSUME Serial
    PROVE  Spec => []OneOwnedBusiness
<1> DEFINE Inv == TypeOK /\ OneOwnedBusiness /\ CheckHolds /\ OwnersRegistered
<1>1. Init => Inv
  <2> SUFFICES ASSUME Init PROVE Inv
    OBVIOUS
  <2>1. TypeOK
    BY TypeInit
  <2>2. \A u \in Users : Owned(u) = {}
    BY DEF Init, Owned, Member
  <2> QED
    BY <2>1, <2>2 DEF Init, OneOwnedBusiness, CheckHolds, OwnersRegistered, Idle
<1>2. Inv /\ [Next]_tenancyVars => Inv'
  BY TypeNext, OneOwnedStep, OwnersRegisteredStep DEF Serial, Lone
<1> QED
  BY <1>1, <1>2, PTL DEF Spec

-----------------------------------------------------------------------------
(* What a request is about is what its user has stored. *)
InStep ==
    \A r \in Requests :
        /\ req[r].pc = "issue" => req[r].tenant = active[req[r].user]
        /\ req[r].pc = "context" /\ req[r].tenant # None => req[r].tenant = active[req[r].user]

LEMMA AnswerStep ==
    ASSUME Serial, TypeOK, ContextIsMember, InStep, AnswerMatchesToken, [Next]_tenancyVars
    PROVE  InStep' /\ AnswerMatchesToken'
<1>1. ASSUME NEW r \in Requests,
             /\ req'[r].pc = "issue" => req'[r].tenant = active'[req'[r].user]
             /\ req'[r].pc = "context" /\ req'[r].tenant # None
                  => req'[r].tenant = active'[req'[r].user]
             /\ req'[r].pc = "answer" => /\ req'[r].tenant # None => req'[r].shown = req'[r].tenant
                                         /\ req'[r].shown = active'[req'[r].user]
      PROVE  InStep' /\ AnswerMatchesToken'
  <2>1. \A q \in Requests : q = r
    BY DEF Serial
  <2> QED
    BY <1>1, <2>1 DEF InStep, AnswerMatchesToken
<1>2. ASSUME NEW r \in Requests, NEW u \in Users, Call(r, u) PROVE InStep' /\ AnswerMatchesToken'
  <2>1. ASSUME NEW k \in Kinds, Register(r, u, k) PROVE InStep' /\ AnswerMatchesToken'
    <3> PICK t \in Tenants : Provision(u, t, k) /\ Begin(r, "register", "issue", u, t)
      BY <2>1 DEF Register
    <3>1. active'[u] = t
      BY DEF Provision, TypeOK
    <3>2. /\ req'[r].pc = "issue" /\ req'[r].user = u /\ req'[r].tenant = t
      BY DEF Begin, TypeOK
    <3> QED
      BY <1>1, <3>1, <3>2
  <2>2. CASE CheckOwned(r, u) \/ AskCurrent(r, u) \/ \E t \in Tenants : FindMembership(r, u, t)
    <3>1. \/ req'[r].pc \in {"create", "update"}
          \/ req'[r].pc = "context" /\ req'[r].tenant = None
      BY <2>2 DEF CheckOwned, AskCurrent, FindMembership, Begin, TypeOK
    <3> QED
      BY <1>1, <3>1
  <2>3. ASSUME NEW op \in {"login", "refresh"}, ReadUser(r, op, u)
        PROVE  InStep' /\ AnswerMatchesToken'
    <3>1. /\ req'[r].pc = "issue" /\ req'[r].user = u /\ req'[r].tenant = active[u]
          /\ active' = active
      BY <2>3 DEF ReadUser, Begin, TypeOK
    <3> QED
      BY <1>1, <3>1
  <2> QED
    BY <1>2, <2>1, <2>2, <2>3 DEF Call
<1>3. ASSUME NEW r \in Requests, Work(r) PROVE InStep' /\ AnswerMatchesToken'
  <2>0. req[r] \in Request
    BY DEF TypeOK
  <2>1. CASE CreateOrganization(r)
    <3> PICK t \in Tenants : /\ Provision(req[r].user, t, "BUSINESS")
                             /\ req' = [req EXCEPT ![r].pc = "issue", ![r].tenant = t]
      BY <2>1 DEF CreateOrganization
    <3>1. req[r].user \in Users
      BY <2>0, <2>1 DEF CreateOrganization, Request, Idle
    <3>2. active'[req[r].user] = t
      BY <3>1 DEF Provision, TypeOK
    <3>3. req'[r].pc = "issue" /\ req'[r].tenant = t /\ req'[r].user = req[r].user
      BY <2>0 DEF TypeOK, Request, Idle
    <3> QED
      BY <1>1, <3>2, <3>3
  <2>2. CASE UpdateActive(r)
    <3>1. req[r].user \in Users
      BY <2>0, <2>2 DEF UpdateActive, Request, Idle
    <3>2. active'[req[r].user] = req[r].tenant
      BY <2>2, <3>1 DEF UpdateActive, TypeOK
    <3>3. req'[r].pc = "issue" /\ req'[r].tenant = req[r].tenant /\ req'[r].user = req[r].user
      BY <2>0, <2>2 DEF UpdateActive, TypeOK, Request, Idle
    <3> QED
      BY <1>1, <3>2, <3>3
  <2>3. CASE IssueToken(r)
    <3>1. req[r].tenant = active[req[r].user] /\ active' = active
      BY <2>3 DEF IssueToken, InStep
    <3>2. /\ req'[r].tenant = req[r].tenant /\ req'[r].user = req[r].user
          /\ \/ req'[r].pc = "context"
             \/ req'[r].pc = "answer" /\ req'[r].shown = req[r].tenant
      BY <2>0, <2>3 DEF IssueToken, TypeOK, Request, Idle
    <3> QED
      BY <1>1, <3>1, <3>2
  <2>4. CASE ReadContext(r)
    <3>1. req[r].user \in Users
      BY <2>0, <2>4 DEF ReadContext, Request, Idle
    <3>2. Current(req[r].user) = active[req[r].user] /\ active' = active
      BY <2>4, <3>1 DEF ReadContext, Current, ContextIsMember, TypeOK
    <3>3. /\ req'[r].tenant = req[r].tenant /\ req'[r].user = req[r].user
          /\ req'[r].pc = "answer" /\ req'[r].shown = Current(req[r].user)
      BY <2>0, <2>4 DEF ReadContext, TypeOK, Request, Idle
    <3>4. req[r].tenant # None => req[r].tenant = active[req[r].user]
      BY <2>4 DEF ReadContext, InStep
    <3> QED
      BY <1>1, <3>2, <3>3, <3>4
  <2> QED
    BY <1>3, <2>1, <2>2, <2>3, <2>4 DEF Work
<1>4. ASSUME NEW r \in Requests, Answer(r) \/ Fails(r) PROVE InStep' /\ AnswerMatchesToken'
  <2>1. req'[r].pc = "idle"
    BY <1>4 DEF Answer, Fails, TypeOK, Idle
  <2> QED
    BY <1>1, <2>1
<1>5. CASE UNCHANGED tenancyVars
  BY <1>5 DEF tenancyVars, InStep, AnswerMatchesToken
<1> QED
  BY <1>2, <1>3, <1>4, <1>5 DEF Next

(* One request at a time, every session is answered with the context of    *)
(* the tenant its token names, which is the tenant stored for the user.    *)
THEOREM SerialAnswersMatch ==
    ASSUME Serial
    PROVE  Spec => []AnswerMatchesToken
<1>1. Init => InStep /\ AnswerMatchesToken
  BY DEF Init, InStep, AnswerMatchesToken, Idle
<1>2. TypeOK /\ ContextIsMember /\ InStep /\ AnswerMatchesToken /\ [Next]_tenancyVars
        => (InStep /\ AnswerMatchesToken)'
  BY AnswerStep
<1> QED
  BY <1>1, <1>2, TenancyTypeCorrect, ContextStaysMember, PTL DEF Spec

-----------------------------------------------------------------------------
(***************************************************************************)
(* The tabs.  Each of their steps is a step or a stutter of Tenancy.       *)
(***************************************************************************)
LEMMA SessionTyped ==
    ASSUME WebTypeOK, NEW c \in Tabs, session[c] # None
    PROVE  /\ session[c] \in Stored /\ session[c].user \in Users
           /\ session[c].tid \in Tenants /\ session[c].header \in Tenants \cup {None}
  BY DEF WebTypeOK, Stored

LEMMA CallerTyped ==
    ASSUME WebTypeOK, NEW r \in Requests, from[r] # None
    PROVE  /\ from[r] \in Caller /\ from[r].tab \in Tabs /\ from[r].op \in AllOps
           /\ from[r].open \in BOOLEAN /\ from[r].set \in BOOLEAN
           /\ from[r].shown \in Tenants \cup {None}
  BY DEF WebTypeOK, Caller

LEMMA UserIsNext ==
    ASSUME WebTypeOK, NEW c \in Tabs, UserStep(c)
    PROVE  [Next]_tenancyVars
<1>1. ASSUME NEW r \in Requests, NEW u \in Users, SubmitForm(c, r, u) PROVE Next
  BY <1>1 DEF SubmitForm, Next, Call
<1>2. ASSUME NEW r \in Requests, NEW t \in Tenants, Select(c, r, t) PROVE Next
  BY <1>2, SessionTyped DEF Select, Next, Call
<1>3. ASSUME NEW r \in Requests, SubmitOrganization(c, r) PROVE Next
  BY <1>3, SessionTyped DEF SubmitOrganization, Next, Call
<1>4. ASSUME \/ \E want \in {"auth", "account"} : Visit(c, want)
             \/ SignOut(c)
      PROVE  UNCHANGED tenancyVars
  BY <1>4 DEF Visit, SignOut, tenancyVars
<1> QED
  BY <1>1, <1>2, <1>3, <1>4 DEF UserStep

LEMMA WebIsNext ==
    ASSUME WebTypeOK, [WebNext]_vars
    PROVE  [Next]_tenancyVars
<1>1. ASSUME NEW c \in Tabs, TabStep(c) PROVE [Next]_tenancyVars
  <2>1. ASSUME NEW r \in Requests, Refresh(c, r) PROVE Next
    BY <2>1, SessionTyped DEF Refresh, Next, Call
  <2> QED
    BY <1>1, <2>1 DEF TabStep, RefreshRefused, ClearSession, DeleteCookie, tenancyVars
<1>2. ASSUME NEW r \in Requests, CallStep(r) PROVE [Next]_tenancyVars
  BY <1>2 DEF CallStep, Serve, Ignored, ShowCurrent, PersistSession, SetCookie, Next
<1>3. CASE Disturbance
  BY <1>3 DEF Disturbance, DeleteCookieFails, Reload, CallFails, Next
<1> QED
  BY <1>1, <1>2, <1>3, UserIsNext DEF WebNext, CalmStep, vars, tenancyVars

(* What leaving a page does to the calls of a tab. *)
LEMMA LeftCalls ==
    ASSUME WebTypeOK, NEW c \in Tabs, NEW r \in Requests
    PROVE  /\ from[r] = None => Left(c)[r] = None
           /\ from[r] # None =>
                /\ Left(c)[r] \in Caller /\ Left(c)[r] # None
                /\ Left(c)[r].tab = from[r].tab /\ Left(c)[r].op = from[r].op
                /\ Left(c)[r].set = from[r].set /\ Left(c)[r].shown = from[r].shown
                /\ Left(c)[r].open = (from[r].open /\ from[r].tab # c)
<1>1. CASE from[r] # None /\ from[r].tab = c
  <2>1. from[r] \in Caller
    BY <1>1, CallerTyped
  <2>2. Left(c)[r] = [from[r] EXCEPT !.open = FALSE]
    BY <1>1 DEF Left, Calls
  <2> QED
    BY <1>1, <2>1, <2>2, CallerAssumption DEF Caller
<1>2. CASE from[r] # None /\ from[r].tab # c
  <2>1. Left(c)[r] = from[r]
    BY <1>2 DEF Left, Calls
  <2> QED
    BY <1>2, <2>1, CallerTyped
<1>3. CASE from[r] = None
  BY <1>3 DEF Left, Calls
<1> QED
  BY <1>1, <1>2, <1>3

LEMMA DroppedCalls ==
    ASSUME NEW c \in Tabs, NEW r \in Requests
    PROVE  Dropped(c)[r] = IF from[r] # None /\ from[r].tab = c THEN None ELSE from[r]
  BY DEF Dropped, Calls

-----------------------------------------------------------------------------
(* A tab calls: the request begins and the page awaits its answer. *)
Asked(c, r, op, u) ==
    /\ from[r] = None
    /\ from' = [from EXCEPT ![r] = [tab |-> c, open |-> TRUE, op |-> op, shown |-> None,
                                    set |-> FALSE]]
    /\ Begun(r, op, u)
    /\ u \in Users /\ op \in AllOps
    /\ UNCHANGED <<session, shown, leaving, cookie>>

LEMMA AskedCall ==
    ASSUME WebTypeOK, NEW c \in Tabs, NEW r \in Requests, NEW op, NEW u, Asked(c, r, op, u)
    PROVE  /\ from'[r] = [tab |-> c, open |-> TRUE, op |-> op, shown |-> None, set |-> FALSE]
           /\ from'[r] \in Caller /\ from'[r] # None
           /\ \A q \in Requests \ {r} : from'[q] = from[q]
<1>1. from'[r] = [tab |-> c, open |-> TRUE, op |-> op, shown |-> None, set |-> FALSE]
  BY DEF Asked, WebTypeOK
<1>2. from'[r] \in Caller
  <2>1. op \in AllOps
    BY DEF Asked
  <2>2. [tab |-> c, open |-> TRUE, op |-> op, shown |-> None, set |-> FALSE] \in Caller
    BY <2>1 DEF Caller
  <2> QED
    BY <1>1, <2>2
<1>3. \A q \in Requests \ {r} : from'[q] = from[q]
  BY DEF Asked, WebTypeOK
<1> QED
  BY <1>1, <1>2, <1>3, CallerAssumption

LEMMA FormAsks ==
    ASSUME WebTypeOK, NEW c \in Tabs, NEW r \in Requests, NEW u \in Users, SubmitForm(c, r, u)
    PROVE  /\ page' = page /\ page[c] = "auth" /\ Free(c) /\ OpenCalls(c) = {}
           /\ Asked(c, r, "register", u) \/ Asked(c, r, "login", u)
  BY CallBegins DEF SubmitForm, Await, Asked, AllOps, WebTypeOK

LEMMA SelectAsks ==
    ASSUME WebTypeOK, NEW c \in Tabs, NEW r \in Requests, NEW t \in Tenants, Select(c, r, t)
    PROVE  /\ page' = page /\ page[c] = "account" /\ Free(c) /\ OpenCalls(c) = {}
           /\ session[c] # None
           /\ Asked(c, r, "switch", session[c].user)
  BY CallBegins, SessionTyped DEF Select, Await, Asked, AllOps, WebTypeOK

LEMMA OrganizationAsks ==
    ASSUME WebTypeOK, NEW c \in Tabs, NEW r \in Requests, SubmitOrganization(c, r)
    PROVE  /\ page' = page /\ page[c] = "account" /\ Free(c)
           /\ \A q \in OpenCalls(c) : from[q].op = "current"
           /\ session[c] # None
           /\ Asked(c, r, "organization", session[c].user)
  BY CallBegins, SessionTyped DEF SubmitOrganization, Await, Asked, AllOps, WebTypeOK

LEMMA RefreshAsks ==
    ASSUME WebTypeOK, NEW c \in Tabs, NEW r \in Requests, Refresh(c, r)
    PROVE  /\ page' = [page EXCEPT ![c] = "account"] /\ page[c] = "mounted"
           /\ session[c] # None
           /\ Asked(c, r, "current", session[c].user)
  BY CallBegins, SessionTyped DEF Refresh, Asked, AllOps, WebTypeOK

-----------------------------------------------------------------------------
(***************************************************************************)
(* What a step does to a call: it begins, its answer is stored, it is      *)
(* over, or it goes on as what it is.                                      *)
(***************************************************************************)
Kept(q) ==
    /\ from[q] # None
    /\ from'[q].tab = from[q].tab /\ from'[q].op = from[q].op
    /\ from'[q].set = from[q].set /\ from'[q].shown = from[q].shown
    /\ from'[q].open => from[q].open
    /\ req'[q].pc = "idle" <=> req[q].pc = "idle"
    /\ req'[q].op = req[q].op /\ req'[q].user = req[q].user

Goes(q) == from'[q] # None => Kept(q)

LEMMA StillGoes ==
    ASSUME NEW q \in Requests, req'[q] = req[q], from'[q] = from[q] \/ from'[q] = None
    PROVE  Goes(q)
  BY DEF Goes, Kept

LEMMA LeftGoes ==
    ASSUME WebTypeOK, NEW c \in Tabs, NEW q \in Requests, from'[q] = Left(c)[q], req'[q] = req[q]
    PROVE  Goes(q)
  BY LeftCalls, CallerTyped DEF Goes, Kept

(* The answer of r is there and it is awaited no longer. *)
LEMMA AnsweredGoes ==
    ASSUME WebTypeOK, NEW r \in Requests, Answer(r) \/ Fails(r),
           from' = [from EXCEPT ![r] = None], NEW q \in Requests
    PROVE  Goes(q)
<1>1. Ended(r)
  BY AnswerEnds DEF WebTypeOK
<1>2. from'[q] = IF q = r THEN None ELSE from[q]
  BY DEF WebTypeOK
<1> QED
  BY <1>1, <1>2, StillGoes DEF Ended, OthersKept, Goes

Stores(r) ==
    /\ from[r] # None /\ from[r].op # "current" /\ req[r].pc = "answer"
    /\ from'[r].tab = from[r].tab /\ from'[r].op = from[r].op /\ from'[r].open = from[r].open
    /\ from'[r].set /\ from'[r].shown = req[r].shown /\ from'[r] # None
    /\ from'[r] \in Caller
    /\ Ended(r)
    /\ \A q \in Requests \ {r} : from'[q] = from[q]

LEMMA PersistStores ==
    ASSUME WebTypeOK, NEW r \in Requests, PersistSession(r)
    PROVE  Stores(r)
<1>1. from[r] # None /\ from[r].op # "current" /\ req[r].pc = "answer" /\ Ended(r)
  BY AnswerEnds DEF PersistSession, Answer, WebTypeOK
<1>2. from[r] \in Caller /\ req[r].shown \in Tenants \cup {None}
  BY <1>1, CallerTyped, RequestTyped DEF WebTypeOK
<1>3. from'[r] = [from[r] EXCEPT !.set = TRUE, !.shown = req[r].shown]
  BY DEF PersistSession, WebTypeOK
<1>4. /\ from'[r].tab = from[r].tab /\ from'[r].op = from[r].op /\ from'[r].open = from[r].open
      /\ from'[r].set /\ from'[r].shown = req[r].shown
      /\ from'[r] \in Caller
  BY <1>2, <1>3 DEF Caller
<1>5. \A q \in Requests \ {r} : from'[q] = from[q]
  BY DEF PersistSession, WebTypeOK
<1> QED
  BY <1>1, <1>4, <1>5, CallerAssumption DEF Stores

LEMMA CookieGoes ==
    ASSUME WebTypeOK, NEW r \in Requests, SetCookie(r), NEW q \in Requests
    PROVE  Goes(q) /\ req' = req
<1>1. from[r].tab \in Tabs /\ req' = req
  BY CallerTyped DEF SetCookie, tenancyVars
<1>2. from'[r] = None /\ (from'[q] = None \/ from'[q] = from[q] \/ from'[q] = Left(from[r].tab)[q])
  BY DEF SetCookie, WebTypeOK, Left
<1> QED
  BY <1>1, <1>2, StillGoes, LeftGoes

(* Every step, seen from one call. *)
LEMMA CallsMove ==
    ASSUME WebTypeOK, [WebNext]_vars, NEW q \in Requests
    PROVE  \/ Goes(q)
           \/ \E c \in Tabs, op \in AllOps, u \in Users : Asked(c, q, op, u)
           \/ Stores(q)
<1>1. ASSUME NEW c \in Tabs, NEW r \in Requests, NEW op \in AllOps, NEW u \in Users,
             Asked(c, r, op, u), q # r
      PROVE  Goes(q)
  BY <1>1, AskedCall, StillGoes DEF Asked, Begun, OthersKept
<1>2. ASSUME NEW c \in Tabs, UserStep(c)
      PROVE  Goes(q) \/ \E op \in AllOps, u \in Users : Asked(c, q, op, u)
  <2>1. ASSUME NEW want \in {"auth", "account"}, Visit(c, want) PROVE Goes(q)
    BY <2>1, LeftGoes DEF Visit, tenancyVars
  <2>2. CASE SignOut(c)
    BY <2>2, StillGoes DEF SignOut, tenancyVars
  <2>3. ASSUME NEW r \in Requests,
               \/ \E u \in Users : SubmitForm(c, r, u)
               \/ \E t \in Tenants : Select(c, r, t)
               \/ SubmitOrganization(c, r)
        PROVE  \E op \in AllOps, u \in Users : Asked(c, r, op, u)
    <3>1. \E op, u : Asked(c, r, op, u)
      BY <2>3, FormAsks, SelectAsks, OrganizationAsks
    <3> QED
      BY <3>1 DEF Asked
  <2> QED
    BY <1>1, <1>2, <2>1, <2>2, <2>3 DEF UserStep
<1>3. ASSUME NEW c \in Tabs, TabStep(c)
      PROVE  Goes(q) \/ \E op \in AllOps, u \in Users : Asked(c, q, op, u)
  <2>1. CASE RefreshRefused(c) \/ ClearSession(c)
    BY <2>1, StillGoes DEF RefreshRefused, ClearSession, tenancyVars
  <2>2. CASE DeleteCookie(c)
    BY <2>2, LeftGoes DEF DeleteCookie, tenancyVars
  <2>3. ASSUME NEW r \in Requests, Refresh(c, r)
        PROVE  \E op \in AllOps, u \in Users : Asked(c, r, op, u)
    BY <2>3, RefreshAsks DEF Asked
  <2> QED
    BY <1>1, <1>3, <2>1, <2>2, <2>3 DEF TabStep
<1>4. ASSUME NEW r \in Requests, CallStep(r)
      PROVE  Goes(q) \/ Stores(q)
  <2>1. CASE Serve(r)
    <3>1. Worked(r) /\ from' = from
      BY <2>1, WorkWorks DEF Serve, webVars, WebTypeOK
    <3>2. CASE q = r
      BY <3>1, <3>2 DEF Worked, Goes, Kept
    <3>3. CASE q # r
      BY <3>1, <3>3, StillGoes DEF Worked, OthersKept
    <3> QED
      BY <3>2, <3>3
  <2>2. CASE Ignored(r)
    BY <2>2, AnsweredGoes DEF Ignored
  <2>3. CASE ShowCurrent(r)
    BY <2>3, AnsweredGoes DEF ShowCurrent
  <2>4. CASE PersistSession(r)
    <3>1. Stores(r)
      BY <2>4, PersistStores
    <3>2. CASE q # r
      BY <3>1, <3>2, StillGoes DEF Stores, Ended, OthersKept
    <3> QED
      BY <3>1, <3>2
  <2>5. CASE SetCookie(r)
    BY <2>5, CookieGoes
  <2> QED
    BY <1>4, <2>1, <2>2, <2>3, <2>4, <2>5 DEF CallStep
<1>5. ASSUME Disturbance PROVE Goes(q)
  <2>1. ASSUME NEW c \in Tabs, DeleteCookieFails(c) PROVE Goes(q)
    BY <2>1, StillGoes DEF DeleteCookieFails, tenancyVars
  <2>2. ASSUME NEW c \in Tabs, NEW want \in {"auth", "account"}, Reload(c, want) PROVE Goes(q)
    BY <2>2, StillGoes, DroppedCalls DEF Reload, tenancyVars
  <2>3. ASSUME NEW r \in Requests, CallFails(r) PROVE Goes(q)
    <3>1. CASE Fails(r)
      BY <2>3, <3>1, AnsweredGoes DEF CallFails
    <3>2. CASE UNCHANGED tenancyVars
      BY <2>3, <3>2, StillGoes DEF CallFails, tenancyVars, WebTypeOK
    <3> QED
      BY <2>3, <3>1, <3>2 DEF CallFails
  <2> QED
    BY <1>5, <2>1, <2>2, <2>3 DEF Disturbance
<1>6. CASE UNCHANGED vars
  BY <1>6, StillGoes DEF vars, tenancyVars, webVars
<1> QED
  BY <1>2, <1>3, <1>4, <1>5, <1>6 DEF WebNext, CalmStep

(* The page that awaits a request awaits what the request does. *)
CallLinked ==
    \A r \in Requests : from[r] # None =>
        IF from[r].set THEN req[r].pc = "idle" /\ from[r].op # "current"
                       ELSE req[r].pc # "idle" /\ req[r].op = from[r].op

LEMMA LinkedNext ==
    ASSUME WebTypeOK, CallLinked, [WebNext]_vars
    PROVE  CallLinked'
<1> SUFFICES ASSUME NEW q \in Requests, from'[q] # None
             PROVE  IF from'[q].set THEN req'[q].pc = "idle" /\ from'[q].op # "current"
                                    ELSE req'[q].pc # "idle" /\ req'[q].op = from'[q].op
  BY DEF CallLinked
<1>1. CASE Goes(q)
  BY <1>1 DEF Goes, Kept, CallLinked
<1>2. ASSUME NEW c \in Tabs, NEW op \in AllOps, NEW u \in Users, Asked(c, q, op, u)
      PROVE  ~from'[q].set /\ req'[q].pc # "idle" /\ req'[q].op = from'[q].op
  BY <1>2, AskedCall DEF Asked, Begun
<1>3. CASE Stores(q)
  BY <1>3 DEF Stores, Ended
<1> QED
  BY <1>1, <1>2, <1>3, CallsMove

-----------------------------------------------------------------------------
(* What the session of a tab becomes. *)
LEMMA SessionMoves ==
    ASSUME WebTypeOK, CallLinked, AnswerFull, [WebNext]_vars, NEW c \in Tabs
    PROVE  \/ session'[c] = session[c]
           \/ session'[c] = None /\ ClearSession(c)
           \/ \E r \in Requests :
                /\ PersistSession(r) /\ from[r].tab = c /\ Stores(r)
                /\ req[r].user \in Users /\ req[r].tenant \in Tenants /\ req[r].shown \in Tenants
                /\ session'[c] = [user |-> req[r].user, tid |-> req[r].tenant,
                                  header |-> req[r].shown]
<1>1. ASSUME NEW d \in Tabs, UserStep(d) PROVE session'[c] = session[c]
  BY <1>1 DEF UserStep, Visit, SubmitForm, Select, SubmitOrganization, SignOut, Await
<1>2. ASSUME NEW d \in Tabs, TabStep(d)
      PROVE  session'[c] = session[c] \/ (session'[c] = None /\ ClearSession(c))
  BY <1>2 DEF TabStep, RefreshRefused, Refresh, ClearSession, DeleteCookie, WebTypeOK
<1>3. ASSUME NEW r \in Requests, PersistSession(r)
      PROVE  \/ session'[c] = session[c]
             \/ /\ from[r].tab = c /\ Stores(r)
                /\ req[r].user \in Users /\ req[r].tenant \in Tenants /\ req[r].shown \in Tenants
                /\ session'[c] = [user |-> req[r].user, tid |-> req[r].tenant,
                                  header |-> req[r].shown]
  <2>1. Stores(r)
    BY <1>3, PersistStores
  <2>2. req[r].op = from[r].op
    BY <2>1 DEF Stores, CallLinked
  <2>3. req[r].user \in Users /\ req[r].tenant \in Tenants /\ req[r].shown \in Tenants
    BY <2>1, <2>2, RequestTyped DEF Stores, AnswerFull, WebTypeOK
  <2> QED
    BY <1>3, <2>1, <2>3 DEF PersistSession, WebTypeOK
<1>4. ASSUME NEW r \in Requests, CallStep(r), ~PersistSession(r) PROVE session'[c] = session[c]
  BY <1>4 DEF CallStep, Serve, Ignored, ShowCurrent, SetCookie, webVars
<1>5. ASSUME Disturbance PROVE session'[c] = session[c]
  BY <1>5 DEF Disturbance, DeleteCookieFails, Reload, CallFails
<1>6. CASE UNCHANGED vars
  BY <1>6 DEF vars, webVars
<1> QED
  BY <1>1, <1>2, <1>3, <1>4, <1>5, <1>6 DEF WebNext, CalmStep

LEMMA LandsSomewhere ==
    ASSUME NEW want \in {"auth", "account"}
    PROVE  Lands(want) \in {"auth", "account"}
  BY DEF Lands

LEMMA ShowTyped ==
    ASSUME WebTypeOK, NEW c \in Tabs, NEW want \in {"auth", "account"},
           Show(c, want, session[c])
    PROVE  page' \in [Tabs -> Pages] /\ shown' \in [Tabs -> Tenants \cup {None}]
<1>1. session[c] # None => session[c].header \in Tenants \cup {None}
  BY SessionTyped
<1> QED
  BY <1>1 DEF Show, WebTypeOK, Pages

(* The pages and what they show keep their ranges. *)
LEMMA PagesTyped ==
    ASSUME WebTypeOK, [WebNext]_vars
    PROVE  /\ page' \in [Tabs -> Pages]
           /\ shown' \in [Tabs -> Tenants \cup {None}]
           /\ leaving' \in [Tabs -> {"no", "logout", "cleared"}]
           /\ cookie' \in BOOLEAN
<1>1. ASSUME NEW c \in Tabs, UserStep(c)
      PROVE  /\ page' \in [Tabs -> Pages] /\ shown' \in [Tabs -> Tenants \cup {None}]
             /\ leaving' \in [Tabs -> {"no", "logout", "cleared"}] /\ cookie' \in BOOLEAN
  <2>1. ASSUME NEW want \in {"auth", "account"}, Visit(c, want)
        PROVE  /\ page' \in [Tabs -> Pages] /\ shown' \in [Tabs -> Tenants \cup {None}]
               /\ UNCHANGED <<leaving, cookie>>
    BY <2>1, ShowTyped DEF Visit
  <2>2. ASSUME NEW r \in Requests,
               \/ \E u \in Users : SubmitForm(c, r, u)
               \/ \E t \in Tenants : Select(c, r, t)
               \/ SubmitOrganization(c, r)
        PROVE  UNCHANGED <<page, shown, leaving, cookie>>
    BY <2>2 DEF SubmitForm, Select, SubmitOrganization, Await
  <2>3. CASE SignOut(c)
    BY <2>3 DEF SignOut, WebTypeOK
  <2> QED
    BY <1>1, <2>1, <2>2, <2>3 DEF UserStep, WebTypeOK
<1>2. ASSUME NEW c \in Tabs, TabStep(c)
      PROVE  /\ page' \in [Tabs -> Pages] /\ shown' \in [Tabs -> Tenants \cup {None}]
             /\ leaving' \in [Tabs -> {"no", "logout", "cleared"}] /\ cookie' \in BOOLEAN
  BY <1>2 DEF TabStep, RefreshRefused, Refresh, ClearSession, DeleteCookie, WebTypeOK, Pages
<1>3. ASSUME NEW r \in Requests, CallStep(r)
      PROVE  /\ page' \in [Tabs -> Pages] /\ shown' \in [Tabs -> Tenants \cup {None}]
             /\ leaving' \in [Tabs -> {"no", "logout", "cleared"}] /\ cookie' \in BOOLEAN
  <2>1. CASE ShowCurrent(r)
    <3>1. req[r].shown \in Tenants \cup {None}
      BY RequestTyped DEF WebTypeOK
    <3> QED
      BY <2>1, <3>1 DEF ShowCurrent, WebTypeOK
  <2>2. CASE SetCookie(r)
    <3>1. from[r].tab \in Tabs /\ from[r].shown \in Tenants \cup {None}
      BY <2>2, CallerTyped DEF SetCookie
    <3>2. session[from[r].tab] # None => session[from[r].tab].header \in Tenants \cup {None}
      BY <3>1, SessionTyped
    <3>3. page' = page \/ page' = [page EXCEPT ![from[r].tab] = "mounted"]
      BY <2>2 DEF SetCookie
    <3>4. \/ shown' = shown
          \/ \E t \in Tenants \cup {None} : shown' = [shown EXCEPT ![from[r].tab] = t]
      BY <2>2, <3>1, <3>2 DEF SetCookie
    <3>5. leaving' = leaving /\ cookie' = TRUE
      BY <2>2 DEF SetCookie
    <3> QED
      BY <3>3, <3>4, <3>5 DEF WebTypeOK, Pages
  <2>3. CASE Serve(r) \/ Ignored(r) \/ PersistSession(r)
    BY <2>3 DEF Serve, Ignored, PersistSession, webVars, WebTypeOK
  <2> QED
    BY <1>3, <2>1, <2>2, <2>3 DEF CallStep
<1>4. ASSUME Disturbance
      PROVE  /\ page' \in [Tabs -> Pages] /\ shown' \in [Tabs -> Tenants \cup {None}]
             /\ leaving' \in [Tabs -> {"no", "logout", "cleared"}] /\ cookie' \in BOOLEAN
  <2>1. ASSUME NEW c \in Tabs, NEW want \in {"auth", "account"}, Reload(c, want)
        PROVE  /\ page' \in [Tabs -> Pages] /\ shown' \in [Tabs -> Tenants \cup {None}]
               /\ leaving' \in [Tabs -> {"no", "logout", "cleared"}] /\ cookie' = cookie
    BY <2>1, ShowTyped DEF Reload, WebTypeOK
  <2> QED
    BY <1>4, <2>1 DEF Disturbance, DeleteCookieFails, CallFails, WebTypeOK
<1>5. CASE UNCHANGED vars
  BY <1>5 DEF vars, webVars, WebTypeOK
<1> QED
  BY <1>1, <1>2, <1>3, <1>4, <1>5 DEF WebNext, CalmStep

(* So do the calls. *)
LEMMA CallsTyped ==
    ASSUME WebTypeOK, [WebNext]_vars
    PROVE  from' \in [Requests -> Caller \cup {None}]
<1>1. ASSUME NEW c \in Tabs PROVE Left(c) \in [Requests -> Caller \cup {None}]
  <2>1. \A r \in Requests : Left(c)[r] \in Caller \cup {None}
    BY LeftCalls
  <2> QED
    BY <2>1 DEF Left
<1>2. ASSUME NEW c \in Tabs PROVE Dropped(c) \in [Requests -> Caller \cup {None}]
  BY DEF Dropped, WebTypeOK
<1>3. ASSUME NEW c \in Tabs, NEW r \in Requests, NEW op, NEW u, Asked(c, r, op, u)
      PROVE  from' \in [Requests -> Caller \cup {None}]
  BY <1>3, AskedCall DEF Asked, WebTypeOK
<1>4. ASSUME NEW c \in Tabs, UserStep(c) PROVE from' \in [Requests -> Caller \cup {None}]
  <2>1. ASSUME NEW r \in Requests,
               \/ \E u \in Users : SubmitForm(c, r, u)
               \/ \E t \in Tenants : Select(c, r, t)
               \/ SubmitOrganization(c, r)
        PROVE  \E op, u : Asked(c, r, op, u)
    BY <2>1, FormAsks, SelectAsks, OrganizationAsks
  <2> QED
    BY <1>1, <1>3, <1>4, <2>1 DEF UserStep, Visit, SignOut, WebTypeOK
<1>5. ASSUME NEW c \in Tabs, TabStep(c) PROVE from' \in [Requests -> Caller \cup {None}]
  BY <1>1, <1>3, <1>5, RefreshAsks
     DEF TabStep, RefreshRefused, ClearSession, DeleteCookie, WebTypeOK
<1>6. ASSUME NEW r \in Requests, CallStep(r) PROVE from' \in [Requests -> Caller \cup {None}]
  <2>1. CASE PersistSession(r)
    <3>1. Stores(r)
      BY <2>1, PersistStores
    <3>2. \E x : from' = [from EXCEPT ![r] = x]
      BY <2>1 DEF PersistSession
    <3> QED
      BY <3>1, <3>2 DEF Stores, WebTypeOK
  <2>2. CASE SetCookie(r)
    <3>1. from[r].tab \in Tabs
      BY <2>2, CallerTyped DEF SetCookie
    <3> QED
      BY <1>1, <2>2, <3>1 DEF SetCookie, WebTypeOK
  <2>3. CASE Serve(r) \/ Ignored(r) \/ ShowCurrent(r)
    BY <2>3 DEF Serve, Ignored, ShowCurrent, webVars, WebTypeOK
  <2> QED
    BY <1>6, <2>1, <2>2, <2>3 DEF CallStep
<1>7. CASE Disturbance
  BY <1>2, <1>7 DEF Disturbance, DeleteCookieFails, Reload, CallFails, WebTypeOK
<1>8. CASE UNCHANGED vars
  BY <1>8 DEF vars, webVars, WebTypeOK
<1> QED
  BY <1>4, <1>5, <1>6, <1>7, <1>8 DEF WebNext, CalmStep

LEMMA WebTypeNext ==
    ASSUME WebTypeOK, CallLinked, AnswerFull, [WebNext]_vars
    PROVE  WebTypeOK'
<1>1. TypeOK'
  BY TypeNext, WebIsNext DEF WebTypeOK
<1>2. session' \in [Tabs -> Stored \cup {None}]
  <2>1. ASSUME NEW c \in Tabs PROVE session'[c] \in Stored \cup {None}
    <3>1. session[c] \in Stored \cup {None}
      BY DEF WebTypeOK
    <3>2. ASSUME NEW r \in Requests,
                 req[r].user \in Users, req[r].tenant \in Tenants, req[r].shown \in Tenants,
                 session'[c] = [user |-> req[r].user, tid |-> req[r].tenant,
                                header |-> req[r].shown]
          PROVE  session'[c] \in Stored
      BY <3>2 DEF Stored
    <3> QED
      BY <3>1, <3>2, SessionMoves
  <2>2. session' = session \/ \E c, x : session' = [session EXCEPT ![c] = x]
    <3>1. ASSUME NEW c \in Tabs, UserStep(c) PROVE session' = session
      BY <3>1 DEF UserStep, Visit, SubmitForm, Select, SubmitOrganization, SignOut, Await
    <3>2. ASSUME NEW c \in Tabs, TabStep(c)
          PROVE  session' = session \/ session' = [session EXCEPT ![c] = None]
      BY <3>2 DEF TabStep, RefreshRefused, Refresh, ClearSession, DeleteCookie
    <3>3. ASSUME NEW r \in Requests, CallStep(r)
          PROVE  session' = session \/ \E c, x : session' = [session EXCEPT ![c] = x]
      BY <3>3 DEF CallStep, Serve, Ignored, ShowCurrent, PersistSession, SetCookie, webVars
    <3>4. ASSUME Disturbance PROVE session' = session
      BY <3>4 DEF Disturbance, DeleteCookieFails, Reload, CallFails
    <3> QED
      BY <3>1, <3>2, <3>3, <3>4 DEF WebNext, CalmStep, vars, webVars
  <2>3. session' = [c \in Tabs |-> session'[c]]
    BY <2>2 DEF WebTypeOK
  <2> QED
    BY <2>1, <2>3
<1> QED
  BY <1>1, <1>2, PagesTyped, CallsTyped DEF WebTypeOK

(* The header names a tenant of the user, and so does the token. *)
LEMMA HeaderNext ==
    ASSUME WebTypeOK, CallLinked, AnswerFull, ContextIsMember, HeaderAccepted, [WebNext]_vars
    PROVE  HeaderAccepted'
<1> SUFFICES ASSUME NEW c \in Tabs, session'[c] # None,
                    NEW t, t = session'[c].tid \/ t = session'[c].header
             PROVE  Member(session[c].user, t)'
  BY DEF HeaderAccepted
<1>1. ASSUME NEW u \in Users, Member(u, t) PROVE Member(u, t)'
  <2>1. t \in Tenants
    BY <1>1 DEF Member
  <2> QED
    BY <1>1, <2>1, MembersStay, WebIsNext DEF WebTypeOK
<1>2. CASE session'[c] = session[c]
  <2>1. session[c].user \in Users /\ Member(session[c].user, t)
    BY <1>2, SessionTyped DEF HeaderAccepted
  <2>2. PICK u \in Users : u = session[c].user
    BY <2>1
  <2>3. Member(u, t)'
    BY <1>1, <2>1, <2>2
  <2> QED
    BY <1>2, <2>2, <2>3 DEF Member
<1>3. ASSUME NEW r \in Requests,
             req[r].user \in Users, req[r].tenant \in Tenants, req[r].shown \in Tenants,
             session'[c] = [user |-> req[r].user, tid |-> req[r].tenant, header |-> req[r].shown]
      PROVE  Member(session[c].user, t)'
  <2>1. Member(req[r].user, req[r].tenant) /\ Member(req[r].user, req[r].shown)
    BY <1>3, TenancyAssumption DEF ContextIsMember
  <2>2. PICK u \in Users : u = req[r].user
    BY <1>3
  <2>3. session'[c].user = u /\ session'[c].tid = req[r].tenant /\ session'[c].header = req[r].shown
    BY <1>3, <2>2
  <2>4. Member(u, t)'
    BY <1>1, <2>1, <2>2, <2>3
  <2> QED
    BY <2>3, <2>4 DEF Member
<1> QED
  BY <1>2, <1>3, SessionMoves

-----------------------------------------------------------------------------
(* Everything a step of the tabs and of the API needs. *)
WebInv ==
    /\ WebTypeOK
    /\ ContextIsMember
    /\ BusinessOwnersHaveRole
    /\ Registered
    /\ AnswerFull
    /\ CallLinked
    /\ HeaderAccepted

LEMMA WebInvInit == WebInit => WebInv
<1> SUFFICES ASSUME WebInit PROVE WebInv
  OBVIOUS
<1>1. TypeOK /\ ContextIsMember /\ Registered /\ AnswerFull /\ BusinessOwnersHaveRole
  BY TypeInit, ContextInit
     DEF WebInit, Init, Registered, AnswerFull, Idle, BusinessOwnersHaveRole, Owned, Member
<1> QED
  BY <1>1 DEF WebInit, WebInv, WebTypeOK, Pages, CallLinked, HeaderAccepted

LEMMA WebInvNext == WebInv /\ [WebNext]_vars => WebInv'
<1> SUFFICES ASSUME WebInv, [WebNext]_vars PROVE WebInv'
  OBVIOUS
<1>1. TypeOK /\ [Next]_tenancyVars
  BY WebIsNext DEF WebInv, WebTypeOK
<1> QED
  BY <1>1, WebTypeNext, LinkedNext, HeaderNext, ContextNext, RegisteredNext, AnswerFullNext,
     RoleNext
     DEF WebInv

LEMMA WebInvariance == WebSpec => []WebInv
  BY WebInvInit, WebInvNext, PTL DEF WebSpec

(* Type correctness of the tabs. *)
THEOREM WebTypeCorrect == WebSpec => []WebTypeOK
<1>1. WebInv => WebTypeOK
  BY DEF WebInv
<1> QED
  BY <1>1, WebInvariance, PTL

(* Whatever users do in their tabs, a tab never sends a header that        *)
(* resolve refuses.                                                        *)
THEOREM HeaderAlwaysAccepted == WebSpec => []HeaderAccepted
<1>1. WebInv => HeaderAccepted
  BY DEF WebInv
<1> QED
  BY <1>1, WebInvariance, PTL

(* The API driven by the tabs does what Tenancy describes. *)
THEOREM WebUsesTenancy == WebSpec => Spec
<1>1. WebInit => Init
  BY DEF WebInit
<1>2. WebInv /\ [WebNext]_vars => [Next]_tenancyVars
  BY WebIsNext DEF WebInv
<1> QED
  BY <1>1, <1>2, WebInvariance, PTL DEF WebSpec, Spec

-----------------------------------------------------------------------------
(***************************************************************************)
(* Users who wait for what is under way in a tab.  A call that will store  *)
(* a session is then alone in its tab, but for refreshes that a new        *)
(* organization overtakes, and its page stays until it is over.            *)
(***************************************************************************)
Patient == "hurry" \notin Habits

SessionCall(r) == from[r] # None /\ from[r].op # "current"

SignsIn(r) == from[r].op \in {"login", "register"}

Alone(r) ==
    \A q \in Requests :
        from[q] # None /\ from[q].open /\ from[q].tab = from[r].tab
          => q = r \/ (from[q].op = "current" /\ from[r].op = "organization")

QuietTab(r) ==
    /\ from[r].open
    /\ leaving[from[r].tab] = "no"
    /\ page[from[r].tab] # "mounted"
    /\ SignsIn(r) \/ session[from[r].tab] # None
    /\ from[r].set => /\ session[from[r].tab] # None
                      /\ from[r].shown = session[from[r].tab].header
    /\ SignsIn(r) \/ from[r].set \/ req[r].user = session[from[r].tab].user

Quiet == \A r \in Requests : SessionCall(r) => QuietTab(r) /\ Alone(r)

(* The page that is open refreshes the context of its own user. *)
OwnRefresh ==
    \A r \in Requests :
        from[r] # None /\ from[r].open /\ from[r].op = "current" /\ session[from[r].tab] # None
          => req[r].user = session[from[r].tab].user

LEMMA Waits ==
    ASSUME Patient, NEW c \in Tabs, Free(c)
    PROVE  /\ leaving[c] = "no"
           /\ \A r \in Requests : ~(from[r] # None /\ from[r].open /\ from[r].tab = c)
  BY DEF Patient, Free, OpenCalls, Calls

(* While such a call is under way, its tab does nothing else. *)
BusyTab(r) ==
    LET c == from[r].tab
    IN /\ page'[c] = page[c] /\ leaving'[c] = leaving[c]
       /\ from'[r].open
       /\ \A q \in Requests :
            from'[q] # None /\ from'[q].open /\ from'[q].tab = c
              => from[q] # None /\ from[q].open /\ from[q].tab = c /\ from'[q].op = from[q].op

Busy(r) ==
    \/ from'[r] = None
    \/ /\ BusyTab(r) /\ Goes(r) /\ session'[from[r].tab] = session[from[r].tab]
    \/ /\ BusyTab(r) /\ Stores(r) /\ PersistSession(r)
       /\ session'[from[r].tab] # None
       /\ session'[from[r].tab].header = req[r].shown
       /\ session'[from[r].tab].user = req[r].user

LEMMA BusyBySelf ==
    ASSUME NEW r \in Requests, SessionCall(r), QuietTab(r),
           req'[r] = req[r] \/ Worked(r),
           page'[from[r].tab] = page[from[r].tab],
           leaving'[from[r].tab] = leaving[from[r].tab],
           session'[from[r].tab] = session[from[r].tab],
           from'[r] = from[r],
           \A q \in Requests :
             from'[q] = from[q] \/ from'[q] = None
               \/ ~(from'[q] # None /\ from'[q].open /\ from'[q].tab = from[r].tab)
    PROVE  Busy(r)
<1>1. Goes(r)
  BY DEF SessionCall, Goes, Kept, Worked
<1>2. BusyTab(r)
  BY DEF BusyTab, QuietTab
<1> QED
  BY <1>1, <1>2 DEF Busy

(* A call of another tab. *)
LEMMA BusyMeanwhile ==
    ASSUME WebTypeOK, NEW r \in Requests, SessionCall(r), QuietTab(r),
           NEW c \in Tabs, NEW q \in Requests, NEW op, NEW u, Asked(c, q, op, u),
           from[r].tab # c, page'[from[r].tab] = page[from[r].tab]
    PROVE  Busy(r)
<1>1. q # r
  BY DEF SessionCall, Asked
<1>2. req'[r] = req[r]
  BY <1>1 DEF Asked, Begun, OthersKept
<1>3. /\ from'[q].tab = c
      /\ \A x \in Requests \ {q} : from'[x] = from[x]
  <2>1. from'[q] = [tab |-> c, open |-> TRUE, op |-> op, shown |-> None, set |-> FALSE]
    BY DEF Asked, WebTypeOK
  <2>2. \A x \in Requests \ {q} : from'[x] = from[x]
    BY DEF Asked, WebTypeOK
  <2> QED
    BY <2>1, <2>2
<1> QED
  BY <1>1, <1>2, <1>3, BusyBySelf DEF Asked

LEMMA BusyUser ==
    ASSUME WebInv, Quiet, Patient, NEW r \in Requests, SessionCall(r),
           NEW c \in Tabs, UserStep(c)
    PROVE  Busy(r)
<1>0. WebTypeOK /\ QuietTab(r) /\ from[r].tab \in Tabs /\ from[r].open
  BY CallerTyped DEF WebInv, Quiet, SessionCall, QuietTab
<1>1. Free(c) => from[r].tab # c
  BY <1>0, Waits DEF SessionCall
<1>2. ASSUME NEW want \in {"auth", "account"}, Visit(c, want) PROVE Busy(r)
  <2>1. /\ from[r].tab # c /\ session' = session /\ leaving' = leaving /\ req' = req
        /\ page'[from[r].tab] = page[from[r].tab]
    BY <1>0, <1>1, <1>2 DEF Visit, Show, WebTypeOK, tenancyVars
  <2>2. from'[r] = from[r]
    BY <1>2, <2>1 DEF Visit, Left, Calls
  <2>3. \A q \in Requests : from'[q] = from[q] \/ ~(from'[q] # None /\ from'[q].open)
    BY <1>0, <1>2, CallerTyped DEF Visit, Left, Calls, Caller
  <2> QED
    BY <1>0, <2>1, <2>2, <2>3, BusyBySelf
<1>3. ASSUME NEW q \in Requests, NEW u \in Users, SubmitForm(c, q, u) PROVE Busy(r)
  BY <1>0, <1>1, <1>3, FormAsks, BusyMeanwhile
<1>4. ASSUME NEW q \in Requests, NEW t \in Tenants, Select(c, q, t) PROVE Busy(r)
  BY <1>0, <1>1, <1>4, SelectAsks, BusyMeanwhile
<1>5. ASSUME NEW q \in Requests, SubmitOrganization(c, q) PROVE Busy(r)
  BY <1>0, <1>1, <1>5, OrganizationAsks, BusyMeanwhile
<1>6. CASE SignOut(c)
  <2>1. from[r].tab # c
    BY <1>1, <1>6 DEF SignOut
  <2>2. /\ session' = session /\ page' = page /\ req' = req /\ from' = from
        /\ leaving'[from[r].tab] = leaving[from[r].tab]
    BY <1>0, <1>6, <2>1 DEF SignOut, WebTypeOK, tenancyVars
  <2> QED
    BY <1>0, <2>2, BusyBySelf
<1> QED
  BY <1>2, <1>3, <1>4, <1>5, <1>6 DEF UserStep

LEMMA BusyOther ==
    ASSUME WebInv, Quiet, Patient, NEW r \in Requests, SessionCall(r),
           NEW c \in Tabs, TabStep(c)
    PROVE  Busy(r)
<1>0. WebTypeOK /\ QuietTab(r) /\ from[r].tab \in Tabs
  BY CallerTyped DEF WebInv, Quiet, SessionCall
<1>1. CASE RefreshRefused(c)
  <2>1. from[r].tab # c
    BY <1>0, <1>1 DEF RefreshRefused, QuietTab
  <2> QED
    BY <1>0, <1>1, <2>1, BusyBySelf DEF RefreshRefused, WebTypeOK, tenancyVars
<1>2. ASSUME NEW q \in Requests, Refresh(c, q) PROVE Busy(r)
  <2>1. from[r].tab # c
    BY <1>0, <1>2 DEF Refresh, QuietTab
  <2>2. page'[from[r].tab] = page[from[r].tab]
    BY <1>0, <1>2, <2>1 DEF Refresh, WebTypeOK
  <2> QED
    BY <1>0, <1>2, <2>1, <2>2, RefreshAsks, BusyMeanwhile
<1>3. CASE ClearSession(c)
  <2>1. from[r].tab # c
    BY <1>0, <1>3 DEF ClearSession, QuietTab
  <2> QED
    BY <1>0, <1>3, <2>1, BusyBySelf DEF ClearSession, WebTypeOK, tenancyVars
<1>4. CASE DeleteCookie(c)
  <2>1. from[r].tab # c
    BY <1>0, <1>4 DEF DeleteCookie, QuietTab
  <2>2. /\ session' = session /\ req' = req
        /\ page'[from[r].tab] = page[from[r].tab]
        /\ leaving'[from[r].tab] = leaving[from[r].tab]
    BY <1>0, <1>4, <2>1 DEF DeleteCookie, WebTypeOK, tenancyVars
  <2>3. from'[r] = from[r]
    BY <1>4, <2>1 DEF DeleteCookie, Left, Calls
  <2>4. \A q \in Requests : from'[q] = from[q] \/ ~(from'[q] # None /\ from'[q].open)
    BY <1>0, <1>4, CallerTyped DEF DeleteCookie, Left, Calls, Caller
  <2> QED
    BY <1>0, <2>2, <2>3, <2>4, BusyBySelf
<1> QED
  BY <1>1, <1>2, <1>3, <1>4 DEF TabStep

LEMMA BusyCall ==
    ASSUME WebInv, Quiet, NEW r \in Requests, SessionCall(r), NEW q \in Requests, CallStep(q)
    PROVE  Busy(r)
<1>0. WebTypeOK /\ QuietTab(r) /\ Alone(r) /\ from[r].tab \in Tabs
  BY CallerTyped DEF WebInv, Quiet, SessionCall
<1>1. CASE Serve(q)
  <2>1. Worked(q) /\ UNCHANGED webVars
    BY <1>0, <1>1, WorkWorks DEF Serve, WebTypeOK
  <2>2. req'[r] = req[r] \/ Worked(r)
    BY <2>1 DEF Worked, OthersKept
  <2> QED
    BY <1>0, <2>1, <2>2, BusyBySelf DEF webVars
<1>2. CASE Ignored(q) \/ ShowCurrent(q)
  <2>1. q # r
    BY <1>0, <1>2 DEF Ignored, ShowCurrent, SessionCall, QuietTab
  <2>2. Ended(q) /\ UNCHANGED <<session, page, leaving>>
    BY <1>0, <1>2, AnswerEnds DEF Ignored, ShowCurrent, WebTypeOK
  <2>3. \A x \in Requests : from'[x] = IF x = q THEN None ELSE from[x]
    BY <1>0, <1>2 DEF Ignored, ShowCurrent, WebTypeOK
  <2> QED
    BY <1>0, <2>1, <2>2, <2>3, BusyBySelf DEF Ended, OthersKept
<1>3. CASE PersistSession(q)
  <2>1. Stores(q) /\ UNCHANGED <<page, leaving>>
    BY <1>0, <1>3, PersistStores DEF PersistSession
  <2>2. from[q].tab \in Tabs
    BY <1>0, <2>1, CallerTyped DEF Stores
  <2>3. session' = [session EXCEPT ![from[q].tab] =
           [user |-> req[q].user, tid |-> req[q].tenant, header |-> req[q].shown]]
    BY <1>3 DEF PersistSession
  <2>4. CASE q = r
    <3>1. session'[from[r].tab] = [user |-> req[r].user, tid |-> req[r].tenant,
                                   header |-> req[r].shown]
      BY <1>0, <2>3, <2>4 DEF WebTypeOK
    <3>2. session'[from[r].tab] # None
      <4>1. req[r].user \in Users /\ req[r].tenant \in Tenants /\ req[r].shown \in Tenants
        BY <1>0, <2>1, <2>4, RequestTyped DEF Stores, WebInv, CallLinked, AnswerFull, WebTypeOK
      <4>2. session'[from[r].tab] \in Stored
        BY <3>1, <4>1 DEF Stored
      <4> QED
        BY <4>2, CallerAssumption
    <3>3. BusyTab(r)
      BY <1>0, <2>1, <2>4 DEF Stores, BusyTab, QuietTab
    <3> QED
      BY <1>3, <2>1, <2>4, <3>1, <3>2, <3>3 DEF Busy
  <2>5. CASE q # r
    <3>1. from[q].tab # from[r].tab
      <4>1. from[q] # None /\ from[q].op # "current" /\ from[q].open
        BY <2>1 DEF Stores, Quiet, SessionCall, QuietTab
      <4> QED
        BY <1>0, <2>5, <4>1 DEF Alone
    <3>2. session'[from[r].tab] = session[from[r].tab]
      BY <1>0, <2>2, <2>3, <3>1 DEF WebTypeOK
    <3>3. \A x \in Requests \ {q} : from'[x] = from[x] /\ req'[x] = req[x]
      BY <2>1 DEF Stores, Ended, OthersKept
    <3>4. from'[q].tab # from[r].tab
      BY <2>1, <3>1 DEF Stores
    <3> QED
      BY <1>0, <2>1, <2>5, <3>2, <3>3, <3>4, BusyBySelf
  <2> QED
    BY <2>4, <2>5
<1>4. CASE SetCookie(q)
  <2>1. /\ from[q] # None /\ from[q].set /\ from[q].tab \in Tabs /\ from'[q] = None
        /\ UNCHANGED <<session, leaving>> /\ req' = req
    BY <1>0, <1>4, CallerTyped DEF SetCookie, WebTypeOK, Left, tenancyVars
  <2>2. CASE q = r
    BY <2>1, <2>2 DEF Busy
  <2>3. CASE q # r
    <3>1. from[q].tab # from[r].tab
      <4>1. from[q].op # "current" /\ from[q].open
        BY <2>1 DEF WebInv, CallLinked, Quiet, SessionCall, QuietTab
      <4> QED
        BY <1>0, <2>1, <2>3, <4>1 DEF Alone
    <3>2. page'[from[r].tab] = page[from[r].tab]
      BY <1>0, <1>4, <2>1, <3>1 DEF SetCookie, WebTypeOK
    <3>3. \A x \in Requests \ {q} : from'[x] = from[x] \/ from'[x] = Left(from[q].tab)[x]
      BY <1>0, <1>4 DEF SetCookie, WebTypeOK, Left
    <3>4. \A x \in Requests : \/ Left(from[q].tab)[x] = from[x]
                              \/ ~(Left(from[q].tab)[x] # None /\ Left(from[q].tab)[x].open)
      BY <1>0, CallerTyped DEF Left, Calls, Caller
    <3>5. from'[r] = from[r]
      <4>1. Left(from[q].tab)[r] = from[r]
        BY <3>1 DEF Left, Calls
      <4> QED
        BY <2>3, <3>3, <4>1
    <3>6. \A x \in Requests :
             from'[x] = from[x] \/ from'[x] = None \/ ~(from'[x] # None /\ from'[x].open)
      BY <2>1, <3>3, <3>4
    <3> QED
      BY <1>0, <2>1, <3>2, <3>5, <3>6, BusyBySelf
  <2> QED
    BY <2>2, <2>3
<1> QED
  BY <1>1, <1>2, <1>3, <1>4 DEF CallStep

LEMMA BusyDisturbed ==
    ASSUME WebInv, Quiet, NEW r \in Requests, SessionCall(r), Disturbance
    PROVE  Busy(r)
<1>0. WebTypeOK /\ QuietTab(r) /\ from[r].tab \in Tabs
  BY CallerTyped DEF WebInv, Quiet, SessionCall
<1>1. ASSUME NEW c \in Tabs, DeleteCookieFails(c) PROVE Busy(r)
  <2>1. from[r].tab # c
    BY <1>0, <1>1 DEF DeleteCookieFails, QuietTab
  <2> QED
    BY <1>0, <1>1, <2>1, BusyBySelf DEF DeleteCookieFails, WebTypeOK, tenancyVars
<1>2. ASSUME NEW c \in Tabs, NEW want \in {"auth", "account"}, Reload(c, want) PROVE Busy(r)
  <2>1. \A q \in Requests : from'[q] = IF from[q] # None /\ from[q].tab = c THEN None ELSE from[q]
    BY <1>2, DroppedCalls DEF Reload
  <2>2. CASE from[r].tab = c
    BY <2>1, <2>2 DEF SessionCall, Busy
  <2>3. CASE from[r].tab # c
    BY <1>0, <1>2, <2>1, <2>3, BusyBySelf DEF Reload, Show, WebTypeOK, tenancyVars
  <2> QED
    BY <2>2, <2>3
<1>3. ASSUME NEW q \in Requests, CallFails(q) PROVE Busy(r)
  <2>1. \A x \in Requests : from'[x] = IF x = q THEN None ELSE from[x]
    BY <1>0, <1>3 DEF CallFails, WebTypeOK
  <2>2. \A x \in Requests \ {q} : req'[x] = req[x]
    BY <1>0, <1>3, AnswerEnds DEF CallFails, Ended, OthersKept, tenancyVars, WebTypeOK
  <2>3. CASE q = r
    BY <2>1, <2>3 DEF Busy
  <2>4. CASE q # r
    BY <1>0, <1>3, <2>1, <2>2, <2>4, BusyBySelf DEF CallFails
  <2> QED
    BY <2>3, <2>4
<1> QED
  BY <1>1, <1>2, <1>3 DEF Disturbance

LEMMA BusyNext ==
    ASSUME WebInv, Quiet, Patient, [WebNext]_vars, NEW r \in Requests, SessionCall(r)
    PROVE  Busy(r)
<1>1. CASE UNCHANGED vars
  BY <1>1, BusyBySelf DEF vars, tenancyVars, webVars, Quiet
<1> QED
  BY <1>1, BusyUser, BusyOther, BusyCall, BusyDisturbed DEF WebNext, CalmStep

(* A call is new only if its page has just asked. *)
LEMMA NewCall ==
    ASSUME WebTypeOK, [WebNext]_vars, NEW q \in Requests, from[q] = None, from'[q] # None
    PROVE  \E c \in Tabs : \/ \E u \in Users : SubmitForm(c, q, u)
                           \/ \E t \in Tenants : Select(c, q, t)
                           \/ SubmitOrganization(c, q)
                           \/ Refresh(c, q)
<1>0. \A c \in Tabs, r \in Requests : \A op, u : Asked(c, r, op, u) => r = q
  BY AskedCall
<1>1. ASSUME NEW c \in Tabs, UserStep(c)
      PROVE  \/ \E u \in Users : SubmitForm(c, q, u)
             \/ \E t \in Tenants : Select(c, q, t)
             \/ SubmitOrganization(c, q)
  <2>1. ~\E want \in {"auth", "account"} : Visit(c, want)
    BY LeftCalls DEF Visit
  <2>2. ~SignOut(c)
    BY DEF SignOut
  <2>3. ASSUME NEW r \in Requests, NEW u \in Users, SubmitForm(c, r, u) PROVE r = q
    BY <1>0, <2>3, FormAsks
  <2>4. ASSUME NEW r \in Requests, NEW t \in Tenants, Select(c, r, t) PROVE r = q
    BY <1>0, <2>4, SelectAsks
  <2>5. ASSUME NEW r \in Requests, SubmitOrganization(c, r) PROVE r = q
    BY <1>0, <2>5, OrganizationAsks
  <2> QED
    BY <1>1, <2>1, <2>2, <2>3, <2>4, <2>5 DEF UserStep
<1>2. ASSUME NEW c \in Tabs, TabStep(c) PROVE Refresh(c, q)
  <2>1. ~RefreshRefused(c) /\ ~ClearSession(c) /\ ~DeleteCookie(c)
    BY LeftCalls DEF RefreshRefused, ClearSession, DeleteCookie
  <2>2. ASSUME NEW r \in Requests, Refresh(c, r) PROVE r = q
    BY <1>0, <2>2, RefreshAsks
  <2> QED
    BY <1>2, <2>1, <2>2 DEF TabStep
<1>3. ASSUME NEW r \in Requests, CallStep(r) PROVE FALSE
  <2>1. CASE PersistSession(r)
    <3>1. Stores(r)
      BY <2>1, PersistStores
    <3> QED
      BY <3>1 DEF Stores
  <2>2. CASE SetCookie(r)
    BY <2>2, CookieGoes DEF Goes, Kept
  <2>3. CASE Serve(r) \/ Ignored(r) \/ ShowCurrent(r)
    BY <2>3 DEF Serve, Ignored, ShowCurrent, webVars, WebTypeOK
  <2> QED
    BY <1>3, <2>1, <2>2, <2>3 DEF CallStep
<1>4. ASSUME Disturbance PROVE FALSE
  BY <1>4, DroppedCalls DEF Disturbance, DeleteCookieFails, Reload, CallFails, WebTypeOK
<1>5. CASE UNCHANGED vars
  BY <1>5 DEF vars, webVars
<1> QED
  BY <1>1, <1>2, <1>3, <1>4, <1>5 DEF WebNext, CalmStep

(* A new call finds no other open in its tab, or replaces nothing.  *)
LEMMA QuietBegins ==
    ASSUME WebInv, Patient, [WebNext]_vars, NEW q \in Requests, from[q] = None, SessionCall(q)'
    PROVE  QuietTab(q)' /\ Alone(q)'
<1>0. WebTypeOK
  BY DEF WebInv
<1>1. ASSUME NEW c \in Tabs, NEW op, NEW u, Asked(c, q, op, u), page' = page,
             page[c] # "mounted", Free(c) \/ leaving[c] = "no",
             \/ op \in {"login", "register"}
             \/ session[c] # None /\ u = session[c].user,
             \A x \in Requests : from[x] # None /\ from[x].open /\ from[x].tab = c
               => from[x].op = "current" /\ op = "organization"
      PROVE  QuietTab(q)' /\ Alone(q)'
  <2>1. /\ from'[q] = [tab |-> c, open |-> TRUE, op |-> op, shown |-> None, set |-> FALSE]
        /\ \A x \in Requests \ {q} : from'[x] = from[x]
    BY <1>0, <1>1 DEF Asked, WebTypeOK
  <2>2. /\ from'[q].tab = c /\ from'[q].open /\ from'[q].op = op /\ ~from'[q].set
    BY <2>1
  <2>3. leaving'[c] = "no" /\ page'[c] # "mounted" /\ session' = session /\ req'[q].user = u
    BY <1>1, Waits DEF Asked, Begun
  <2>4. QuietTab(q)'
    BY <1>1, <2>2, <2>3 DEF QuietTab, SignsIn
  <2>5. Alone(q)'
    BY <1>1, <2>1, <2>2 DEF Alone
  <2> QED
    BY <2>4, <2>5
<1>2. ASSUME NEW c \in Tabs, NEW u \in Users, SubmitForm(c, q, u)
      PROVE  QuietTab(q)' /\ Alone(q)'
  BY <1>0, <1>1, <1>2, FormAsks, Waits
<1>3. ASSUME NEW c \in Tabs, NEW t \in Tenants, Select(c, q, t)
      PROVE  QuietTab(q)' /\ Alone(q)'
  BY <1>0, <1>1, <1>3, SelectAsks, Waits
<1>4. ASSUME NEW c \in Tabs, SubmitOrganization(c, q)
      PROVE  QuietTab(q)' /\ Alone(q)'
  <2>1. \A x \in Requests : from[x] # None /\ from[x].open /\ from[x].tab = c
               => from[x].op = "current"
    BY <1>0, <1>4, OrganizationAsks DEF OpenCalls, Calls
  <2> QED
    BY <1>0, <1>1, <1>4, <2>1, OrganizationAsks
<1>5. ASSUME NEW c \in Tabs, Refresh(c, q) PROVE FALSE
  <2>1. from'[q] = [tab |-> c, open |-> TRUE, op |-> "current", shown |-> None, set |-> FALSE]
    BY <1>0, <1>5 DEF Refresh, WebTypeOK
  <2> QED
    BY <2>1 DEF SessionCall
<1> QED
  BY <1>0, <1>2, <1>3, <1>4, <1>5, NewCall DEF SessionCall

LEMMA QuietNext ==
    ASSUME WebInv, Quiet, Patient, [WebNext]_vars
    PROVE  Quiet'
<1>0. WebTypeOK
  BY DEF WebInv
<1> SUFFICES ASSUME NEW r \in Requests, SessionCall(r)'
             PROVE  QuietTab(r)' /\ Alone(r)'
  BY DEF Quiet
<1>1. CASE from[r] = None
  BY <1>1, QuietBegins
<1>2. CASE from[r] # None /\ from[r].op = "current"
  <2>1. ~Stores(r) /\ ~Goes(r)
    BY <1>2 DEF Stores, Goes, Kept, SessionCall
  <2>2. \A c, op, u : ~Asked(c, r, op, u)
    BY <1>2 DEF Asked
  <2> QED
    BY <1>0, <2>1, <2>2, CallsMove
<1>3. CASE SessionCall(r)
  <2>0. QuietTab(r) /\ Alone(r) /\ from'[r] # None
    BY <1>3 DEF Quiet, SessionCall
  <2>1. BusyTab(r)
    BY <1>3, <2>0, BusyNext DEF Busy
  <2>2. from'[r].tab = from[r].tab /\ from'[r].op = from[r].op
    BY <1>3, <2>0, BusyNext DEF Busy, Goes, Kept, Stores
  <2>3. Alone(r)'
    BY <2>0, <2>1, <2>2 DEF Alone, BusyTab
  <2>4. CASE Goes(r) /\ session'[from[r].tab] = session[from[r].tab]
    BY <2>0, <2>1, <2>2, <2>3, <2>4 DEF QuietTab, BusyTab, SignsIn, Goes, Kept
  <2>5. CASE /\ Stores(r) /\ session'[from[r].tab] # None
             /\ session'[from[r].tab].header = req[r].shown
    BY <2>0, <2>1, <2>2, <2>3, <2>5 DEF QuietTab, BusyTab, Stores
  <2> QED
    BY <1>3, <2>0, <2>4, <2>5, BusyNext DEF Busy
<1> QED
  BY <1>1, <1>2, <1>3 DEF SessionCall

LEMMA OwnRefreshNext ==
    ASSUME WebInv, Quiet, OwnRefresh, [WebNext]_vars
    PROVE  OwnRefresh'
<1>0. WebTypeOK /\ CallLinked /\ AnswerFull
  BY DEF WebInv
<1> SUFFICES ASSUME NEW r \in Requests, from'[r] # None, from'[r].open,
                    from'[r].op = "current", session'[from'[r].tab] # None
             PROVE  req'[r].user = session'[from'[r].tab].user
  BY DEF OwnRefresh
<1>1. CASE from[r] = None
  <2>1. ASSUME NEW c \in Tabs, NEW op, NEW u, Asked(c, r, op, u)
        PROVE  from'[r].tab = c /\ from'[r].op = op /\ req'[r].user = u /\ session' = session
    <3>1. from'[r] = [tab |-> c, open |-> TRUE, op |-> op, shown |-> None, set |-> FALSE]
      BY <1>0, <2>1 DEF Asked, WebTypeOK
    <3> QED
      BY <2>1, <3>1 DEF Asked, Begun
  <2>2. PICK c \in Tabs : Refresh(c, r)
    <3>1. ASSUME NEW c \in Tabs, NEW u \in Users, SubmitForm(c, r, u) PROVE FALSE
      BY <1>0, <2>1, <3>1, FormAsks
    <3>2. ASSUME NEW c \in Tabs, NEW t \in Tenants, Select(c, r, t) PROVE FALSE
      BY <1>0, <2>1, <3>2, SelectAsks
    <3>3. ASSUME NEW c \in Tabs, SubmitOrganization(c, r) PROVE FALSE
      BY <1>0, <2>1, <3>3, OrganizationAsks
    <3> QED
      BY <1>0, <1>1, <3>1, <3>2, <3>3, NewCall
  <2> QED
    BY <1>0, <2>1, <2>2, RefreshAsks
<1>2. CASE from[r] # None
  <2>1. Goes(r)
    <3>1. ~Stores(r)
      BY DEF Stores
    <3>2. \A c, op, u : ~Asked(c, r, op, u)
      BY <1>2 DEF Asked
    <3> QED
      BY <1>0, <3>1, <3>2, CallsMove
  <2>2. /\ from[r].open /\ from[r].op = "current" /\ from'[r].tab = from[r].tab
        /\ req'[r].user = req[r].user /\ from[r].tab \in Tabs
    BY <1>0, <1>2, <2>1, CallerTyped DEF Goes, Kept
  <2>3. CASE session'[from[r].tab] = session[from[r].tab]
    BY <1>2, <2>2, <2>3 DEF OwnRefresh
  <2>4. ASSUME NEW q \in Requests, Stores(q), from[q].tab = from[r].tab,
               session'[from[r].tab] = [user |-> req[q].user, tid |-> req[q].tenant,
                                        header |-> req[q].shown]
        PROVE  req'[r].user = session'[from'[r].tab].user
    <3>1. SessionCall(q) /\ ~from[q].set
      BY <1>0, <2>4 DEF Stores, SessionCall, CallLinked
    <3>2. QuietTab(q) /\ Alone(q)
      BY <3>1 DEF Quiet
    <3>3. from[q].op = "organization"
      BY <1>2, <2>2, <2>4, <3>1, <3>2 DEF Alone, SessionCall
    <3>4. session[from[r].tab] # None /\ req[q].user = session[from[r].tab].user
      BY <2>4, <3>1, <3>2, <3>3 DEF QuietTab, SignsIn
    <3>5. session'[from[r].tab].user = req[q].user
      BY <2>4
    <3> QED
      BY <1>2, <2>2, <3>4, <3>5 DEF OwnRefresh
  <2> QED
    BY <1>0, <2>2, <2>3, <2>4, SessionMoves
<1> QED
  BY <1>1, <1>2

LEMMA QuietInit == WebInit => Quiet /\ OwnRefresh
  BY DEF WebInit, Quiet, OwnRefresh, SessionCall

LEMMA QuietInvariance ==
    ASSUME Patient
    PROVE  WebSpec => [](Quiet /\ OwnRefresh)
<1>1. WebInv /\ Quiet /\ OwnRefresh /\ [WebNext]_vars => (Quiet /\ OwnRefresh)'
  BY QuietNext, OwnRefreshNext
<1> QED
  BY <1>1, QuietInit, WebInvariance, PTL DEF WebSpec

(* Users who wait: whoever signs a tab out, no late answer, reload or      *)
(* failure signs it in again but a form of that tab.                       *)
THEOREM NobodySignsBackIn ==
    ASSUME Patient
    PROVE  WebSpec => SignedOutStaysOut
<1>1. WebInv /\ Quiet /\ [WebNext]_vars
        => [\A c \in Tabs :
              session[c] = None /\ session'[c] # None
                => \E r \in Calls(c) : from[r].op \in {"login", "register"}]_vars
  <2> SUFFICES ASSUME WebInv, Quiet, [WebNext]_vars, NEW c \in Tabs,
                      session[c] = None, session'[c] # None
               PROVE  \E r \in Calls(c) : from[r].op \in {"login", "register"}
    OBVIOUS
  <2>1. PICK r \in Requests : Stores(r) /\ from[r].tab = c
    BY SessionMoves DEF WebInv
  <2>2. SessionCall(r) /\ SignsIn(r)
    BY <2>1 DEF Stores, SessionCall, Quiet, QuietTab
  <2> QED
    BY <2>1, <2>2 DEF Calls, SessionCall, SignsIn
<1> QED
  BY <1>1, QuietInvariance, WebInvariance, PTL DEF WebSpec, SignedOutStaysOut

-----------------------------------------------------------------------------
(***************************************************************************)
(* One tab, while nothing is reloaded and nothing fails: every request of  *)
(* the API is awaited by the tab, so at most one of them stores a tenant.  *)
(***************************************************************************)
OneTab == \A c, d \in Tabs : c = d

Awaited == \A r \in Requests : req[r].pc # "idle" => from[r] # None

LEMMA LoneTab ==
    ASSUME OneTab, WebTypeOK, CallLinked, Quiet, Awaited
    PROVE  Lone
<1> SUFFICES ASSUME NEW q \in Requests, NEW r \in Requests, Chooser(q), Chooser(r)
             PROVE  q = r
  BY DEF Lone
<1>1. SessionCall(q) /\ SessionCall(r)
  BY DEF Chooser, Awaited, CallLinked, SessionCall
<1>2. from[q].tab = from[r].tab
  BY <1>1, CallerTyped DEF SessionCall, OneTab
<1> QED
  BY <1>1, <1>2 DEF Quiet, QuietTab, Alone, SessionCall

LEMMA AwaitedNext ==
    ASSUME WebTypeOK, CallLinked, Awaited, CalmStep
    PROVE  Awaited'
<1>1. ASSUME NEW c \in Tabs, NEW r \in Requests, NEW op, NEW u, Asked(c, r, op, u)
      PROVE  Awaited'
  <2>1. from'[r] # None /\ \A q \in Requests \ {r} : from'[q] = from[q]
    BY <1>1, AskedCall
  <2>2. \A q \in Requests \ {r} : req'[q] = req[q]
    BY <1>1 DEF Asked, Begun, OthersKept
  <2> QED
    BY <2>1, <2>2 DEF Awaited
<1>2. ASSUME NEW c \in Tabs, UserStep(c) PROVE Awaited'
  <2>1. ASSUME NEW want \in {"auth", "account"}, Visit(c, want) PROVE Awaited'
    BY <2>1, LeftCalls DEF Visit, Awaited, tenancyVars
  <2>2. CASE SignOut(c)
    BY <2>2 DEF SignOut, Awaited, tenancyVars
  <2> QED
    BY <1>1, <1>2, <2>1, <2>2, FormAsks, SelectAsks, OrganizationAsks DEF UserStep
<1>3. ASSUME NEW c \in Tabs, TabStep(c) PROVE Awaited'
  <2>1. CASE RefreshRefused(c) \/ ClearSession(c)
    BY <2>1 DEF RefreshRefused, ClearSession, Awaited, tenancyVars
  <2>2. CASE DeleteCookie(c)
    BY <2>2, LeftCalls DEF DeleteCookie, Awaited, tenancyVars
  <2> QED
    BY <1>1, <1>3, <2>1, <2>2, RefreshAsks DEF TabStep
<1>4. ASSUME NEW r \in Requests, CallStep(r) PROVE Awaited'
  <2>1. CASE Serve(r)
    <3>1. Worked(r) /\ from' = from
      BY <2>1, WorkWorks DEF Serve, webVars, WebTypeOK
    <3> QED
      BY <3>1 DEF Worked, OthersKept, Awaited
  <2>2. CASE Ignored(r) \/ ShowCurrent(r)
    <3>1. Ended(r) /\ from' = [from EXCEPT ![r] = None]
      BY <2>2, AnswerEnds DEF Ignored, ShowCurrent, WebTypeOK
    <3> QED
      BY <3>1 DEF Ended, OthersKept, Awaited, WebTypeOK
  <2>3. CASE PersistSession(r)
    <3>1. Stores(r)
      BY <2>3, PersistStores
    <3> QED
      BY <3>1 DEF Stores, Ended, OthersKept, Awaited
  <2>4. CASE SetCookie(r)
    <3>1. req' = req /\ from[r] # None /\ from[r].set /\ from[r].tab \in Tabs
      BY <2>4, CallerTyped DEF SetCookie, tenancyVars
    <3>2. req[r].pc = "idle"
      BY <3>1 DEF CallLinked
    <3>3. \A q \in Requests \ {r} : from'[q] = from[q] \/ from'[q] = Left(from[r].tab)[q]
      BY <2>4 DEF SetCookie, WebTypeOK, Left
    <3> QED
      BY <3>1, <3>2, <3>3, LeftCalls DEF Awaited
  <2> QED
    BY <1>4, <2>1, <2>2, <2>3, <2>4 DEF CallStep
<1> QED
  BY <1>2, <1>3, <1>4 DEF CalmStep

-----------------------------------------------------------------------------
(* A step that changes a stored tenant is one of a request that chooses.   *)
LEMMA ActiveMoves ==
    ASSUME TypeOK, [Next]_tenancyVars, active' # active
    PROVE  \E r \in Requests : Chooser(r)'
<1>1. ASSUME NEW r \in Requests, NEW u \in Users, Call(r, u) PROVE Chooser(r)'
  <2>1. \E k \in Kinds : Register(r, u, k)
    BY <1>1 DEF Call, CheckOwned, FindMembership, ReadUser, AskCurrent
  <2> QED
    BY <2>1, CallBegins DEF Begun, Chooser
<1>2. ASSUME NEW r \in Requests, Work(r) PROVE Chooser(r)'
  <2>1. req[r].op # "current"
    BY <1>2, RequestTyped DEF Work, CreateOrganization, UpdateActive, IssueToken, ReadContext
  <2> QED
    BY <1>2, <2>1, WorkWorks DEF Worked, Chooser
<1> QED
  BY <1>1, <1>2, AnswerEnds DEF Next, tenancyVars

Pending(r) == SessionCall(r) /\ ~from[r].set

(* A call ends when its answer is shown or its cookie is set. *)
LEMMA CallsEnd ==
    ASSUME WebTypeOK, CalmStep, NEW r \in Requests, from[r] # None, from'[r] = None
    PROVE  SetCookie(r) \/ Ignored(r) \/ ShowCurrent(r)
<1>1. ASSUME NEW c \in Tabs, NEW q \in Requests, NEW op, NEW u, Asked(c, q, op, u) PROVE FALSE
  BY <1>1, AskedCall DEF Asked
<1>2. ASSUME NEW c \in Tabs, UserStep(c) PROVE FALSE
  <2>1. ~(\E want \in {"auth", "account"} : Visit(c, want)) /\ ~SignOut(c)
    BY LeftCalls DEF Visit, SignOut
  <2> QED
    BY <1>1, <1>2, <2>1, FormAsks, SelectAsks, OrganizationAsks DEF UserStep
<1>3. ASSUME NEW c \in Tabs, TabStep(c) PROVE FALSE
  <2>1. ~RefreshRefused(c) /\ ~ClearSession(c) /\ ~DeleteCookie(c)
    BY LeftCalls DEF RefreshRefused, ClearSession, DeleteCookie
  <2> QED
    BY <1>1, <1>3, <2>1, RefreshAsks DEF TabStep
<1>4. ASSUME NEW q \in Requests, CallStep(q)
      PROVE  SetCookie(r) \/ Ignored(r) \/ ShowCurrent(r)
  <2>1. CASE Serve(q)
    BY <2>1 DEF Serve, webVars
  <2>2. CASE PersistSession(q)
    <3>1. Stores(q)
      BY <2>2, PersistStores
    <3> QED
      BY <3>1 DEF Stores
  <2>3. CASE Ignored(q) \/ ShowCurrent(q)
    <3>1. q = r
      BY <2>3 DEF Ignored, ShowCurrent, WebTypeOK
    <3> QED
      BY <2>3, <3>1
  <2>4. CASE SetCookie(q)
    <3>1. q # r => from'[r] = from[r] \/ from'[r] = Left(from[q].tab)[r]
      BY <2>4 DEF SetCookie, WebTypeOK, Left
    <3>2. from[q].tab \in Tabs
      BY <2>4, CallerTyped DEF SetCookie
    <3> QED
      BY <2>4, <3>1, <3>2, LeftCalls
  <2> QED
    BY <1>4, <2>1, <2>2, <2>3, <2>4 DEF CallStep
<1> QED
  BY <1>2, <1>3, <1>4 DEF CalmStep

(* A call that is to store a session goes on until it has. *)
LEMMA PendingStays ==
    ASSUME WebInv, Quiet, Patient, CalmStep, NEW r \in Requests, Pending(r)
    PROVE  Pending(r)' \/ PersistSession(r)
<1>0. WebTypeOK /\ SessionCall(r) /\ ~from[r].set /\ from[r].open
  BY DEF WebInv, Pending, Quiet, QuietTab
<1>1. from'[r] # None
  BY <1>0, CallsEnd DEF SetCookie, Ignored, ShowCurrent, SessionCall
<1> QED
  BY <1>0, <1>1, BusyNext DEF Busy, Goes, Kept, Pending, SessionCall, WebNext

(* So does every call that has or will store one, until the cookie is set. *)
LEMMA SessionCallStays ==
    ASSUME WebInv, Quiet, Patient, CalmStep, NEW r \in Requests, SessionCall(r)
    PROVE  SessionCall(r)' \/ SetCookie(r)
<1>0. WebTypeOK /\ from[r].open
  BY DEF WebInv, Quiet, QuietTab
<1>1. CASE from'[r] = None
  BY <1>0, <1>1, CallsEnd DEF Ignored, ShowCurrent, SessionCall
<1>2. CASE from'[r] # None
  BY <1>0, <1>2, BusyNext DEF Busy, Goes, Kept, Stores, SessionCall, WebNext
<1> QED
  BY <1>1, <1>2

-----------------------------------------------------------------------------
(* The stored header is the tenant the API has stored for the user.        *)
Settled(c) ==
    session[c] # None /\ (\A r \in Requests : ~Pending(r))
      => session[c].header = active[session[c].user]

CalmBase ==
    /\ WebInv /\ Quiet /\ OwnRefresh
    /\ Awaited /\ ChoicesHold

LEMMA SettledNext ==
    ASSUME OneTab, Patient, CalmBase, CalmBase', CalmStep, NEW c \in Tabs, Settled(c)
    PROVE  Settled(c)'
<1>0. /\ WebTypeOK /\ WebInv /\ CallLinked /\ AnswerFull /\ TypeOK
      /\ [WebNext]_vars /\ [Next]_tenancyVars
  BY WebIsNext DEF CalmBase, WebInv, WebTypeOK, WebNext
<1> SUFFICES ASSUME session'[c] # None, \A r \in Requests : ~Pending(r)'
             PROVE  session'[c].header = active'[session'[c].user]
  BY DEF Settled
<1>1. active' = active
  <2>1. \A r \in Requests : ~Chooser(r)'
    BY DEF CalmBase, WebInv, Chooser, Awaited, CallLinked, Pending, SessionCall
  <2> QED
    BY <1>0, <2>1, ActiveMoves
<1>2. ASSUME NEW r \in Requests, Stores(r),
             session'[c] = [user |-> req[r].user, tid |-> req[r].tenant, header |-> req[r].shown]
      PROVE  session'[c].header = active'[session'[c].user]
  <2>1. Chooser(r) /\ req[r].pc = "answer"
    BY <1>0, <1>2 DEF Stores, Ended, Chooser, CallLinked
  <2>2. req[r].shown = active[req[r].user]
    BY <2>1 DEF CalmBase, ChoicesHold, ChoiceHolds
  <2>3. session'[c].header = req[r].shown /\ session'[c].user = req[r].user
    BY <1>2
  <2> QED
    BY <1>1, <2>2, <2>3
<1>3. CASE session'[c] = session[c] /\ ~\E r \in Requests : PersistSession(r)
  <2>1. \A r \in Requests : ~Pending(r)
    BY <1>3, PendingStays DEF CalmBase
  <2> QED
    BY <1>1, <1>3, <2>1 DEF Settled
<1>4. ASSUME NEW r \in Requests, PersistSession(r)
      PROVE  session'[c].header = active'[session'[c].user]
  <2>1. Stores(r)
    BY <1>0, <1>4, PersistStores
  <2>2. from[r].tab = c
    BY <1>0, <2>1, CallerTyped DEF Stores, OneTab
  <2>3. session'[c] = [user |-> req[r].user, tid |-> req[r].tenant, header |-> req[r].shown]
    BY <1>0, <1>4, <2>2 DEF PersistSession, WebTypeOK
  <2> QED
    BY <1>2, <2>1, <2>3
<1> QED
  BY <1>0, <1>2, <1>3, <1>4, SessionMoves

-----------------------------------------------------------------------------
(***************************************************************************)
(* The tab shows the tenant of its header once it has asked for it.        *)
(***************************************************************************)
Open(r) == from[r] # None /\ from[r].open

Fresh(c) ==
    session[c] # None /\ leaving[c] = "no" /\ (\A r \in Requests : ~SessionCall(r)) =>
      /\ \A r \in Requests :
           Open(r) /\ req[r].pc = "answer" => req[r].shown = session[c].header
      /\ page[c] = "account" /\ (\A r \in Requests : ~Open(r)) => shown[c] = session[c].header

(* The context a request has just read is the stored one. *)
LEMMA CurrentAnswers ==
    ASSUME TypeOK, ContextIsMember, Registered, [Next]_tenancyVars, NEW r \in Requests,
           req'[r].pc = "answer", req'[r].op = "current"
    PROVE  req'[r] = req[r] \/ req'[r].shown = active'[req'[r].user]
<1>1. ASSUME NEW q \in Requests, OthersKept(q), q # r PROVE req'[r] = req[r]
  BY <1>1 DEF OthersKept
<1>2. ASSUME NEW q \in Requests, NEW u \in Users, Call(q, u) PROVE req'[r] = req[r]
  BY <1>1, <1>2, CallBegins DEF Call, Begun
<1>3. ASSUME NEW q \in Requests, Answer(q) \/ Fails(q) PROVE req'[r] = req[r]
  BY <1>1, <1>3, AnswerEnds DEF Ended
<1>4. ASSUME NEW q \in Requests, Work(q)
      PROVE  req'[r] = req[r] \/ req'[r].shown = active'[req'[r].user]
  <2>1. Worked(q)
    BY <1>4, WorkWorks
  <2>2. CASE q # r
    BY <1>1, <2>1, <2>2 DEF Worked
  <2>3. CASE q = r
    <3>1. ReadContext(r)
      BY <1>4, <2>1, <2>3, RequestTyped
         DEF Work, Worked, CreateOrganization, UpdateActive, IssueToken
    <3>2. req'[r].shown = Current(req[r].user) /\ active' = active
      <4>1. req[r] \in Request
        BY DEF TypeOK
      <4> QED
        BY <3>1, <4>1 DEF ReadContext, TypeOK, Request, Idle
    <3>3. Current(req[r].user) = active[req[r].user]
      BY <3>1, RequestTyped DEF ReadContext, Current, ContextIsMember, Registered
    <3> QED
      BY <2>1, <2>3, <3>2, <3>3 DEF Worked
  <2> QED
    BY <2>2, <2>3
<1>5. CASE UNCHANGED tenancyVars
  BY <1>5 DEF tenancyVars
<1> QED
  BY <1>2, <1>3, <1>4, <1>5 DEF Next

LEMMA FreshAnswers ==
    ASSUME OneTab, CalmBase, CalmBase', CalmStep, NEW c \in Tabs, Settled(c)',
           session'[c] # None, session'[c] = session[c], \A r \in Requests : ~SessionCall(r)',
           \A r \in Requests :
             Open(r) /\ req[r].pc = "answer" => req[r].shown = session[c].header,
           NEW r \in Requests, Open(r)', req'[r].pc = "answer"
    PROVE  req'[r].shown = session'[c].header
<1>0. /\ WebTypeOK /\ WebInv /\ TypeOK /\ ContextIsMember /\ Registered
      /\ [WebNext]_vars /\ [Next]_tenancyVars
  BY WebIsNext DEF CalmBase, WebInv, WebTypeOK, WebNext
<1>1. Goes(r)
  <2>1. ~Stores(r)
    BY DEF Stores, SessionCall
  <2>2. \A d, op, u : ~Asked(d, r, op, u)
    BY DEF Asked, Begun
  <2> QED
    BY <1>0, <2>1, <2>2, CallsMove
<1>2. Open(r) /\ from'[r].op = "current" /\ from'[r].tab = c
  <2>1. from'[r].tab \in Tabs
    BY <1>0, <1>1, CallerTyped DEF Open, Goes, Kept
  <2> QED
    BY <1>1, <2>1 DEF Open, Goes, Kept, SessionCall, OneTab
<1>3. req'[r].op = "current" /\ req'[r].user = session'[c].user
  BY <1>2 DEF CalmBase, WebInv, CallLinked, OwnRefresh, Open
<1>4. session'[c].header = active'[session'[c].user]
  BY DEF Settled, Pending
<1> QED
  BY <1>0, <1>2, <1>3, <1>4, CurrentAnswers

LEMMA FreshShown ==
    ASSUME OneTab, CalmBase, CalmStep, NEW c \in Tabs,
           session'[c] # None, session'[c] = session[c], leaving'[c] = "no", leaving[c] = "no",
           \A r \in Requests : ~SessionCall(r), \A r \in Requests : ~SessionCall(r)',
           \A r \in Requests :
             Open(r) /\ req[r].pc = "answer" => req[r].shown = session[c].header,
           page[c] = "account" /\ (\A r \in Requests : ~Open(r)) => shown[c] = session[c].header,
           page'[c] = "account", \A r \in Requests : ~Open(r)'
    PROVE  shown'[c] = session'[c].header
<1>0. WebTypeOK /\ \A d \in Tabs : d = c
  BY DEF CalmBase, WebInv, OneTab
<1>1. ASSUME NEW r \in Requests, NEW op, NEW u, Asked(c, r, op, u) PROVE FALSE
  <2>1. from'[r] = [tab |-> c, open |-> TRUE, op |-> op, shown |-> None, set |-> FALSE]
        /\ from'[r] # None
    BY <1>0, <1>1, AskedCall
  <2> QED
    BY <2>1 DEF Open
<1>2. ~UserStep(c)
  <2>1. \A want \in {"auth", "account"} : ~Visit(c, want)
    BY <1>0 DEF Visit, Show, WebTypeOK
  <2>2. ~SignOut(c)
    BY <1>0 DEF SignOut, WebTypeOK
  <2> QED
    BY <1>0, <1>1, <2>1, <2>2, FormAsks, SelectAsks, OrganizationAsks DEF UserStep
<1>3. ~TabStep(c)
  <2>1. ~RefreshRefused(c) /\ ~ClearSession(c) /\ ~DeleteCookie(c)
    BY <1>0 DEF RefreshRefused, ClearSession, DeleteCookie, WebTypeOK
  <2> QED
    BY <1>0, <1>1, <2>1, RefreshAsks DEF TabStep
<1>4. ASSUME NEW r \in Requests, CallStep(r) PROVE shown'[c] = session'[c].header
  <2>1. CASE Serve(r)
    BY <2>1 DEF Serve, webVars, Open
  <2>2. CASE Ignored(r)
    <3>1. \A q \in Requests : ~Open(q)
      <4>1. from' = [from EXCEPT ![r] = None] /\ ~Open(r)
        BY <2>2 DEF Ignored, Open
      <4> QED
        BY <1>0, <4>1 DEF Open, WebTypeOK
    <3> QED
      BY <2>2, <3>1 DEF Ignored
  <2>3. CASE ShowCurrent(r)
    <3>1. Open(r) /\ req[r].pc = "answer" /\ from[r].tab = c
      BY <1>0, <2>3, CallerTyped DEF ShowCurrent, Answer, Open
    <3>2. shown'[c] = req[r].shown
      BY <1>0, <2>3, <3>1 DEF ShowCurrent, WebTypeOK
    <3> QED
      BY <3>1, <3>2
  <2>4. ~PersistSession(r)
    BY DEF PersistSession, SessionCall
  <2>5. ~SetCookie(r)
    BY DEF SetCookie, SessionCall, CalmBase, WebInv, CallLinked
  <2> QED
    BY <1>4, <2>1, <2>2, <2>3, <2>4, <2>5 DEF CallStep
<1> QED
  BY <1>0, <1>2, <1>3, <1>4 DEF CalmStep

LEMMA FreshNext ==
    ASSUME OneTab, Patient, CalmBase, CalmBase', CalmStep, NEW c \in Tabs, Settled(c)', Fresh(c)
    PROVE  Fresh(c)'
<1>0. /\ WebTypeOK /\ WebInv /\ CallLinked /\ AnswerFull /\ [WebNext]_vars
      /\ \A d \in Tabs : d = c
  BY DEF CalmBase, WebInv, WebNext, OneTab
<1> SUFFICES ASSUME session'[c] # None, leaving'[c] = "no",
                    \A r \in Requests : ~SessionCall(r)'
             PROVE  /\ \A r \in Requests :
                         Open(r)' /\ req'[r].pc = "answer" => req'[r].shown = session'[c].header
                    /\ page'[c] = "account" /\ (\A r \in Requests : ~Open(r)')
                         => shown'[c] = session'[c].header
  BY DEF Fresh
<1>1. session'[c] = session[c]
  <2>1. \A r \in Requests : ~Stores(r)
    BY DEF Stores, SessionCall
  <2> QED
    BY <1>0, <2>1, SessionMoves
<1>2. ASSUME NEW q \in Requests, SessionCall(q)
      PROVE  page'[c] = "mounted" /\ \A r \in Requests : ~Open(r)'
  <2>1. SetCookie(q) /\ from[q].open /\ Alone(q) /\ from[q].tab = c
    BY <1>0, <1>2, SessionCallStays, CallerTyped
       DEF CalmBase, Quiet, QuietTab, SessionCall
  <2>2. page'[c] = "mounted"
    BY <1>0, <2>1 DEF SetCookie, WebTypeOK
  <2>3. CASE from[q].op = "switch"
    <3>1. \A r \in Requests : from'[r] = IF r = q THEN None ELSE from[r]
      BY <1>0, <2>1, <2>3 DEF SetCookie, WebTypeOK
    <3>2. \A r \in Requests : from[r] # None => from[r].tab = c
      BY <1>0, CallerTyped
    <3> QED
      BY <2>1, <2>2, <2>3, <3>1, <3>2 DEF Alone, Open
  <2>4. CASE from[q].op # "switch"
    <3>1. \A r \in Requests : from'[r] = IF r = q THEN None ELSE Left(c)[r]
      BY <2>1, <2>4 DEF SetCookie, Left
    <3>2. \A r \in Requests : from[r] # None => from[r].tab = c
      BY <1>0, CallerTyped
    <3> QED
      BY <1>0, <2>2, <3>1, <3>2, LeftCalls DEF Open
  <2> QED
    BY <2>2, <2>3, <2>4
<1>3. ASSUME leaving[c] # "no"
      PROVE  page'[c] = "auth" /\ \A r \in Requests : ~Open(r)'
  <2>1. ~\E d \in Tabs : UserStep(d)
    BY <1>0, <1>3 DEF UserStep, Visit, SubmitForm, Select, SubmitOrganization, SignOut, Await
  <2>2. ~\E r \in Requests : CallStep(r)
    BY <1>3 DEF CallStep, Serve, Ignored, ShowCurrent, PersistSession, SetCookie, webVars
  <2>3. DeleteCookie(c)
    BY <1>0, <1>3, <2>1, <2>2
       DEF CalmStep, TabStep, RefreshRefused, Refresh, ClearSession, WebTypeOK
  <2>4. \A r \in Requests : from[r] # None => from[r].tab = c
    BY <1>0, CallerTyped
  <2> QED
    BY <1>0, <2>3, <2>4, LeftCalls DEF DeleteCookie, Open, WebTypeOK
<1>4. CASE leaving[c] = "no" /\ \A r \in Requests : ~SessionCall(r)
  <2>1. /\ \A r \in Requests :
             Open(r) /\ req[r].pc = "answer" => req[r].shown = session[c].header
        /\ page[c] = "account" /\ (\A r \in Requests : ~Open(r)) => shown[c] = session[c].header
    BY <1>1, <1>4 DEF Fresh
  <2>2. \A r \in Requests :
           Open(r)' /\ req'[r].pc = "answer" => req'[r].shown = session'[c].header
    BY <1>1, <2>1, FreshAnswers
  <2>3. page'[c] = "account" /\ (\A r \in Requests : ~Open(r)') => shown'[c] = session'[c].header
    BY <1>1, <1>4, <2>1, FreshShown
  <2> QED
    BY <2>2, <2>3
<1> QED
  BY <1>2, <1>3, <1>4

-----------------------------------------------------------------------------
(* The cookie follows the session, but for the two calls that change it.   *)
Gated(c) ==
    /\ leaving[c] # "cleared" /\ (\A r \in Requests : SessionCall(r) => ~from[r].set)
         => (cookie <=> session[c] # None)
    /\ leaving[c] = "cleared" => session[c] = None

LEMMA GatedNext ==
    ASSUME OneTab, Patient, CalmBase, CalmStep, NEW c \in Tabs, Gated(c)
    PROVE  Gated(c)'
<1>0. /\ WebTypeOK /\ WebInv /\ CallLinked /\ [WebNext]_vars /\ \A d \in Tabs : d = c
  BY DEF CalmBase, WebInv, WebNext, OneTab
<1>1. ASSUME NEW q \in Requests, SessionCall(q), from[q].set PROVE Gated(c)'
  <2>1. QuietTab(q) /\ from[q].tab = c
    BY <1>0, <1>1, CallerTyped DEF CalmBase, Quiet, SessionCall
  <2>2. CASE SetCookie(q)
    BY <1>0, <2>1, <2>2, <1>1 DEF SetCookie, Gated, QuietTab
  <2>3. CASE SessionCall(q)'
    <3>1. BusyTab(q) /\ from'[q].set
      BY <1>0, <1>1, <2>3, BusyNext DEF CalmBase, Busy, Goes, Kept, Stores, SessionCall
    <3>2. leaving'[c] = "no"
      BY <2>1, <3>1 DEF BusyTab, QuietTab
    <3> QED
      BY <2>3, <3>1, <3>2 DEF Gated
  <2> QED
    BY <1>1, <2>2, <2>3, SessionCallStays DEF CalmBase
<1>2. ASSUME \A q \in Requests : SessionCall(q) => ~from[q].set PROVE Gated(c)'
  <2>1. ASSUME session'[c] = session[c], cookie' = cookie,
               leaving'[c] = leaving[c] \/ (leaving[c] = "no" /\ leaving'[c] = "logout")
        PROVE  Gated(c)'
    BY <1>2, <2>1 DEF Gated
  <2>2. CASE UserStep(c)
    <3>1. session' = session /\ cookie' = cookie
      BY <2>2 DEF UserStep, Visit, SubmitForm, Select, SubmitOrganization, SignOut, Await
    <3>2. leaving' = leaving \/ (leaving[c] = "no" /\ leaving' = [leaving EXCEPT ![c] = "logout"])
      BY <2>2 DEF UserStep, Visit, SubmitForm, Select, SubmitOrganization, SignOut, Await
    <3> QED
      BY <1>0, <2>1, <3>1, <3>2 DEF WebTypeOK
  <2>3. CASE RefreshRefused(c) \/ \E r \in Requests : Refresh(c, r)
    BY <2>1, <2>3 DEF RefreshRefused, Refresh
  <2>4. CASE ClearSession(c)
    BY <1>0, <2>4 DEF ClearSession, Gated, WebTypeOK
  <2>5. CASE DeleteCookie(c)
    <3>1. session[c] = None /\ session' = session /\ cookie' = FALSE /\ leaving'[c] = "no"
      BY <1>0, <2>5 DEF DeleteCookie, Gated, WebTypeOK
    <3> QED
      BY <3>1 DEF Gated
  <2>6. ASSUME NEW r \in Requests, Serve(r) \/ Ignored(r) \/ ShowCurrent(r) PROVE Gated(c)'
    BY <2>1, <2>6 DEF Serve, Ignored, ShowCurrent, webVars
  <2>7. ASSUME NEW r \in Requests, PersistSession(r) PROVE Gated(c)'
    <3>1. Stores(r) /\ leaving' = leaving
      BY <1>0, <2>7, PersistStores DEF PersistSession
    <3>2. SessionCall(r) /\ SessionCall(r)' /\ from'[r].set
      BY <3>1 DEF Stores, SessionCall
    <3>3. leaving[c] = "no"
      BY <1>0, <3>2, CallerTyped DEF CalmBase, Quiet, QuietTab, SessionCall
    <3> QED
      BY <3>1, <3>2, <3>3 DEF Gated
  <2>8. \A r \in Requests : ~SetCookie(r)
    BY <1>0, <1>2 DEF SetCookie, SessionCall, CallLinked
  <2> QED
    BY <1>0, <2>2, <2>3, <2>4, <2>5, <2>6, <2>7, <2>8 DEF CalmStep, TabStep, CallStep
<1> QED
  BY <1>1, <1>2

-----------------------------------------------------------------------------
CalmTab(c) == Settled(c) /\ Fresh(c) /\ Gated(c)

CalmInv ==
    /\ Awaited
    /\ ChoicesHold
    /\ OneOwnedBusiness
    /\ CheckHolds
    /\ \A c \in Tabs : CalmTab(c)

TabInv ==
    /\ WebInv
    /\ Quiet
    /\ OwnRefresh
    /\ OwnersRegistered
    /\ calm => CalmInv

LEMMA LoneTabAfter ==
    ASSUME OneTab
    PROVE  (WebTypeOK /\ CallLinked /\ Quiet /\ Awaited)' => Lone'
<1>1. WebTypeOK /\ CallLinked /\ Quiet /\ Awaited => Lone
  BY LoneTab
<1> QED
  BY <1>1, PTL

LEMMA TabInvInit == CalmInit => TabInv
<1> SUFFICES ASSUME CalmInit PROVE TabInv
  OBVIOUS
<1>1. WebInv /\ Quiet /\ OwnRefresh
  BY WebInvInit, QuietInit DEF CalmInit
<1>2. OwnersRegistered /\ OneOwnedBusiness /\ CheckHolds
  <2>1. \A u \in Users : Owned(u) = {}
    BY DEF CalmInit, WebInit, Init, Owned, Member
  <2> QED
    BY <2>1 DEF CalmInit, WebInit, Init, OwnersRegistered, OneOwnedBusiness, CheckHolds, Idle
<1>3. Awaited /\ ChoicesHold
  BY DEF CalmInit, WebInit, Init, Awaited, ChoicesHold, ChoiceHolds, Chooser, Idle
<1>4. \A c \in Tabs : CalmTab(c)
  BY DEF CalmInit, WebInit, CalmTab, Settled, Fresh, Gated
<1> QED
  BY <1>1, <1>2, <1>3, <1>4 DEF TabInv, CalmInv

LEMMA TabInvNext ==
    ASSUME OneTab, Patient
    PROVE  TabInv /\ [CalmNext]_calmVars => TabInv'
<1> SUFFICES ASSUME TabInv, [CalmNext]_calmVars PROVE TabInv'
  OBVIOUS
<1>1. [WebNext]_vars /\ [Next]_tenancyVars
  <2>1. [WebNext]_vars
    BY DEF CalmNext, calmVars, WebNext
  <2> QED
    BY <2>1, WebIsNext DEF TabInv, WebInv
<1>2. WebInv' /\ Quiet' /\ OwnRefresh' /\ OwnersRegistered'
  BY <1>1, WebInvNext, QuietNext, OwnRefreshNext, OwnersRegisteredStep
     DEF TabInv, WebInv, WebTypeOK
<1>3. ASSUME calm', CalmStep, calm PROVE CalmInv'
  <2>1. CalmInv
    BY <1>3 DEF TabInv
  <2>2. Awaited'
    BY <1>3, <2>1, AwaitedNext DEF TabInv, WebInv, CalmInv
  <2>3. Lone'
    BY <1>2, <2>2, LoneTabAfter DEF WebInv
  <2>4. ChoicesHold' /\ OneOwnedBusiness' /\ CheckHolds'
    BY <1>1, <2>1, <2>3, ChoicesHoldNext, OneOwnedStep
       DEF TabInv, WebInv, WebTypeOK, CalmInv
  <2>5. CalmBase /\ CalmBase'
    BY <1>2, <2>1, <2>2, <2>4 DEF CalmBase, TabInv, CalmInv
  <2>6. ASSUME NEW c \in Tabs PROVE CalmTab(c)'
    <3>1. Settled(c) /\ Fresh(c) /\ Gated(c)
      BY <2>1 DEF CalmInv, CalmTab
    <3>2. Settled(c)'
      BY <1>3, <2>5, <3>1, SettledNext
    <3>3. Fresh(c)' /\ Gated(c)'
      BY <1>3, <2>5, <3>1, <3>2, FreshNext, GatedNext
    <3> QED
      BY <3>2, <3>3 DEF CalmTab
  <2> QED
    BY <2>2, <2>4, <2>6 DEF CalmInv
<1>4. CASE UNCHANGED calmVars
  <2>1. TabInv'
    BY <1>4 DEF TabInv, calmVars, vars, tenancyVars, webVars, WebInv, WebTypeOK, TypeOK,
       ContextIsMember, Member, BusinessOwnersHaveRole, Owned, Registered, AnswerFull,
       CallLinked, HeaderAccepted, Quiet, SessionCall, QuietTab, SignsIn, Alone, OwnRefresh,
       OwnersRegistered, CalmInv, Awaited, ChoicesHold, ChoiceHolds, Chooser,
       OneOwnedBusiness, CheckHolds, CalmTab, Settled, Pending, Fresh, Open, Gated
  <2> QED
    BY <2>1
<1>5. calm' => (CalmStep /\ calm) \/ UNCHANGED calmVars
  BY DEF CalmNext
<1> QED
  BY <1>2, <1>3, <1>4, <1>5 DEF TabInv

LEMMA TabInvariance ==
    ASSUME OneTab, Patient
    PROVE  CalmSpec => []TabInv
<1>1. TabInv /\ [CalmNext]_calmVars => TabInv'
  BY TabInvNext
<1> QED
  BY <1>1, TabInvInit, PTL DEF CalmSpec

(* One tab and a user who waits: until something is reloaded or fails, the *)
(* tab at rest shows the tenant in which its requests act.                 *)
THEOREM CalmTabShowsItsTenant ==
    ASSUME OneTab, Patient
    PROVE  CalmSpec => []CalmShownIsActedIn
<1>1. TabInv => CalmShownIsActedIn
  <2> SUFFICES ASSUME TabInv, calm, NEW c \in Tabs, AtRest(c), page[c] = "account",
                      session[c] # None
               PROVE  shown[c] = Acting(c)
    BY DEF CalmShownIsActedIn, ShownIsActedIn
  <2>1. \A r \in Requests : from[r] = None
    <3>1. \A r \in Requests : from[r] # None => from[r].tab = c
      BY CallerTyped DEF TabInv, WebInv, OneTab
    <3> QED
      BY <3>1 DEF AtRest, Calls
  <2>2. Fresh(c)
    BY DEF TabInv, CalmInv, CalmTab
  <2>3. shown[c] = session[c].header
    BY <2>1, <2>2 DEF Fresh, AtRest, SessionCall, Open
  <2>4. session[c].header # None
    BY TenancyAssumption DEF TabInv, WebInv, HeaderAccepted, Member
  <2> QED
    BY <2>3, <2>4 DEF Acting
<1> QED
  BY <1>1, TabInvariance, PTL

(* So long, too, the gate of the pages opens exactly to a session.         *)
THEOREM CalmGateIsTheSession ==
    ASSUME OneTab, Patient
    PROVE  CalmSpec => []CalmGateFollowsSession
<1>1. TabInv => CalmGateFollowsSession
  <2> SUFFICES ASSUME TabInv, calm, NEW c \in Tabs, AtRest(c)
               PROVE  cookie <=> session[c] # None
    BY DEF CalmGateFollowsSession, GateFollowsSession
  <2>1. \A r \in Requests : from[r] = None
    <3>1. \A r \in Requests : from[r] # None => from[r].tab = c
      BY CallerTyped DEF TabInv, WebInv, OneTab
    <3> QED
      BY <3>1 DEF AtRest, Calls
  <2>2. Gated(c)
    BY DEF TabInv, CalmInv, CalmTab
  <2> QED
    BY <2>1, <2>2 DEF Gated, AtRest, SessionCall
<1> QED
  BY <1>1, TabInvariance, PTL

(* So long, too, the check of userOwnsBusinessTenant still holds when the  *)
(* organization is written, however many requests the API serves at once.  *)
THEOREM CalmUserOwnsOneBusiness ==
    ASSUME OneTab, Patient
    PROVE  CalmSpec => []CalmOneOwnedBusiness
<1>1. TabInv => CalmOneOwnedBusiness
  BY DEF TabInv, CalmInv, CalmOneOwnedBusiness
<1> QED
  BY <1>1, TabInvariance, PTL
=============================================================================
