SPECIFICATION MCSpec
CONSTANTS
  Services = {s1}
  Providers = {p1}
  Categories = {c1, c2}
  Contents = {draft, full}
  Complete = {full}
  Dates = {d1, d2}
  Owner <- OneOwner
  None = None
  Requests = {r1, r2}
  Ops <- AllOps
  Faults = {"audit", "crash"}
INVARIANTS PublishedHasDate
PROPERTIES DeletedIsFinal EditsKeepStatus PublishedFromCompleteRead AloneImplementsLifecycle
SYMMETRY Slots
