SPECIFICATION CalmSpec
CONSTANTS
    Users = {u1, u2}
    Tenants = {t1, t2, t3}
    Requests = {r1, r2}
    Tabs = {c1}
    Ops <- AllOps
    Faults = {"error"}
    Habits = {"reload"}
    None = None
INVARIANTS WebTypeOK HeaderAccepted ContextIsMember BusinessOwnersHaveRole
    CalmShownIsActedIn CalmGateFollowsSession CalmOneOwnedBusiness
PROPERTY SignedOutStaysOut
SYMMETRY Interchangeable
