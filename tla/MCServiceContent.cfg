SPECIFICATION MCSpec
CONSTANTS
  Requests = {r1, r2}
  Services = {s1, s2}
  Children = {c1, c2, c3}
  Kinds = {"media", "locations"}
  Limit <- One
  Titles = {t1, t2}
  Attempts = 2
  Asked <- Updates
  None = None
INVARIANTS LimitsHold SoundUnlessMixed SlugsDiffer
PROPERTY PublishedKeepsSlug
SYMMETRY Interchangeable
