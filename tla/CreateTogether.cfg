SPECIFICATION SceneSpec
CONSTANTS
    a = a
    b = b
    i1 = i1
    i2 = i2
    i3 = i3
    s1 = s1
    r1 = r1
    r2 = r2
    m1 = m1
    m2 = m2
    deploy = deploy
    other = other
    None = None
    CutShort = CutShort
    Torn = Torn
    Scenes = {"create", "beside"}
    Runs = {r1, r2}
    Names = {a, b}
    Ids = {i1, i2}
    Subnets = {s1}
    Engines = {}
    Operators = {}
    Placements = {None}
    Mishaps = {"fail", "lost", "unconfirmed", "refused", "unread", "kill"}
    Faults = {"fail", "lost"}
    Listing <- AB
    Refs <- EachOther
SYMMETRY Interchangeable
INVARIANTS NamesKept Accounted NothingLeftStopped
CHECK_DEADLOCK FALSE
