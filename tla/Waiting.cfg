SPECIFICATION SceneSpec
CONSTANTS
    t1 = t1
    t2 = t2
    t3 = t3
    h1 = h1
    h2 = h2
    h3 = h3
    c1 = c1
    c2 = c2
    p1 = p1
    p2 = p2
    q1 = q1
    q2 = q2
    None = None
    Torn = Torn
    Tasks = {t1, t2, t3}
    Handles = {h1, h2, h3}
    HandleOf <- OwnHandles
    Clis = {c1, c2}
    Projects = {p1, p2}
    Ports = {q1, q2}
    PortsOf <- OneCommon
    GatewayOf <- SameGateway
    MaxLaunches = 2
    Commands = {"start", "run", "stop"}
    Faults = {"overlap", "hang", "kill", "io"}
    HostPorts = {hp1}
    MaxLines = 1
    Troubles = {"daemon", "cut", "stalled", "stuck"}
    MaxPolls = 3
    MaxAttempts = 2
    Scenes = {"lock", "network", "container", "migration"}
INVARIANTS NothingLeaks StartsCleanly ReportTruthful
PROPERTIES AccessAsPromised GetsIn CommandsReturn OutputBeforeError WaitsEnd
CHECK_DEADLOCK FALSE
