SPECIFICATION MCSpec
CONSTANTS
  Services = {s1}
  Providers = {p1}
  Categories = {c1}
  Contents = {draft, full}
  Complete = {full}
  Dates = {d1}
  Owner <- OneOwner
  None = None
  Requests = {r1, r2}
  Ops <- ConcurrentOps
  Faults = {}
PROPERTY OnlyVerifiedPublish
