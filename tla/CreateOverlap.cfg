SPECIFICATION SceneSpec
CONSTANTS
    a = a
    b = b
    i1 = i1
    i2 = i2
    i3 = i3
    s1 = s1
    r1 = r1
    r2 = r2
    m1 = m1
    m2 = m2
    deploy = deploy
    other = other
    None = None
    CutShort = CutShort
    Torn = Torn
    Scenes = {"create"}
    Runs = {r1, r2}
    Names = {a, b}
    Ids = {i1, i2, i3}
    Subnets = {s1}
    Engines = {}
    Operators = {}
    Placements = {None}
    Mishaps = {}
    Faults = {}
    Listing <- AB
    Refs <- EachOther
PROPERTIES NoIdDropped
CHECK_DEADLOCK FALSE
