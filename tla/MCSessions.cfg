SPECIFICATION MCSpec
CONSTANTS
  Users = {u1, u2}
  Passwords = {w1, w2}
  Tokens = {t1, t2, t3}
  SessionIds = {s1, s2}
  Resets = {k1}
  Requests = {r1, r2}
  Ops <- AllOps
  Faults = {"crash", "error"}
  None = None
INVARIANTS AloneOneTokenPerSession ResetTokenSpentOnceUnlessRaced
PROPERTIES OverIsOver AloneImplementsSessionLife
SYMMETRY Interchangeable
