CONSTANTS
    None = None
    clean = clean
    essay = essay
    a = a
    home = home
    s1 = s1
    p1 = p1
    TooLong <- Limits
    MaxPages = 2
    Texts = {clean, essay, a}
    Short = {a}
    Categories = {home}
    Offers <- Controls
    MaxCalls = 2
    Services = {s1}
    Providers = {p1}
    Contents = {full, partial}
    Complete = {full}
    Unfit = {odd}
    Dates = {today}
    Owner <- OwnerOf
    Me = p1
    Slots = {i1, i2, i3}
    MaxSent = 3
    MaxMoves = 3
SPECIFICATION MCSpec
SYMMETRY Interchangeable
INVARIANTS
    ShownIsAsked SuggestedIsTyped ChosenIsKept SearchRefusedForAReason ApartAskedPageAnnounced
    ShowsWhatIsStored RefusedForAReason
CHECK_DEADLOCK FALSE
