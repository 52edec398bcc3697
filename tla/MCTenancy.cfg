SPECIFICATION Spec
CONSTANTS
    Users = {u1, u2}
    Tenants = {t1, t2, t3}
    Requests = {r1, r2}
    Ops <- AllOps
    Faults = {"error"}
    None = None
INVARIANTS TypeOK ContextIsMember BusinessOwnersHaveRole
SYMMETRY Interchangeable
