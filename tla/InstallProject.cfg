SPECIFICATION FairSpec
CONSTANTS
    a = a
    b = b
    m1 = m1
    m2 = m2
    r1 = r1
    None = None
    Torn = Torn
    Runs = {r1}
    Canisters = {a, b}
    Synced = {a}
    Modules = {m1, m2}
    Big = {m2}
    Breaking <- Breaks
    KindsOf <- Anything
    ScopeOf <- OneOrBoth
    BuildsOf <- Results
    Modes = {"auto", "install", "reinstall", "upgrade"}
    Faults = {"kill", "fail", "lost"}
PROPERTIES DeploysInOrder BreaksNothing RedeployHeals
CHECK_DEADLOCK FALSE
