SPECIFICATION SceneSpec
CONSTANTS
    c1 = c1
    c2 = c2
    d1 = d1
    d2 = d2
    p1 = p1
    p2 = p2
    p3 = p3
    p4 = p4
    q1 = q1
    q2 = q2
    None = None
    Torn = Torn
    Scenes = {"apart"}
    MaxBatches = 1
    Invocations = {d1, d2}
    MaxRecords = 3
    MaxTime = 2
    Interval = 2
    Guard = 1
    MaxAge = 1
    SizeLimit = 2
    Clis = {c1, c2}
    Projects = {p1, p2, p3, p4}
    Ports = {q1, q2}
    PortsOf <- Fixed
    GatewayOf <- Gateway
    MaxLaunches = 2
    Commands = {"start", "run", "stop", "deploy"}
    Faults = {"die", "reuse"}
PROPERTIES SigintOnlyOwn
