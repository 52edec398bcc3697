SPECIFICATION RaceSpec
CONSTANTS
  Services = {s1}
  Providers = {p1}
  Categories = {c1}
  Contents = {full}
  Complete = {full}
  Dates = {d1}
  Owner <- OneOwner
  None = None
  Requests = {r1, r2}
  Ops <- OverlapOps
  Faults = {}
  Outages = {}
  Rebuilt = {}
INVARIANT QuietIndexOnlyIndexable
