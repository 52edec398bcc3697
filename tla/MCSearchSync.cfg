SPECIFICATION MCSpec
CONSTANTS
  Services = {s1, s2}
  Providers = {p1}
  Categories = {c1}
  Contents = {draft, full}
  Complete = {full}
  Dates = {d1}
  Owner <- OneOwner
  None = None
  Requests = {r1}
  Ops <- EmittingOps
  Faults = {"audit", "crash"}
  Outages = {"put", "rebuild"}
  Rebuilt = {"services", "providers"}
INVARIANTS NeverPublishedNeverFound OrderlyIndexExact
PROPERTIES RebuildRepairs OrderlyIndexCatchesUp
