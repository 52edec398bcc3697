SPECIFICATION Spec
CONSTANTS
    Categories = {k1, k2, k3}
    Requests = {r1, r2}
    Root = Root
    Absent = Absent
    None = None
INVARIANTS ParentsExist
PROPERTIES ListedUnlessOvertaken WalkEnds
