SPECIFICATION MCSpec
CONSTANTS
  Requests = {r1, r2, r3}
  Owners = {u1}
  Ids = {p1, p2}
  Kinds = {qualifications, languages}
  Batches = {b1, b2, b3}
  Slots = {a1}
  Times = {1, 2, 3}
  MaxFiled = 3
  Ops <- AllOps
  None = None
INVARIANTS OneProfileEach OpenWhileUnderReview ForwardUnlessOvertaken ListsReplacedWhole
SYMMETRY Interchangeable
