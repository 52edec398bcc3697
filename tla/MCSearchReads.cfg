CONSTANTS
    plumber = plumber
    Plumber = Plumber
    cleaner = cleaner
    Texts = {plumber, Plumber, cleaner}
    Norm <- Normalized
    Limits = {1, 6}
    Requests = {r1, r2, r3}
    MaxSearches = 2
    None = None
SPECIFICATION Spec
INVARIANTS CachedIsCurrent
SYMMETRY Slots
CHECK_DEADLOCK FALSE
