SPECIFICATION SceneSpec
CONSTANTS
    a = a
    b = b
    da = da
    db = db
    p1 = p1
    p2 = p2
    k1 = k1
    k2 = k2
    r = r
    Names = {a, b}
    Users = {a, b, da, db}
    DlgUser <- DelegationUser
    P256 = {p1, p2}
    Keys = {k1, k2}
    Roots = {r}
    Faults = {"mismatch"}
    Formats = {"plain", "pbes2", "keyring"}
    MaxCuts = 1
    MaxPosts = 2
    Principals = {k1, k2}
    Passwords = {"long", "short"}
    Short = {"short"}
    Editors = {"alice", "bob"}
    Proxy = "proxy"
    Peer = "peer"
    Wire = "wire"
    Environments = {"local", "production", "shared"}
    BaseManifest <- Configured
    Declared <- Overridden
    Requests <- AllRequests
    Kinds = {"update", "sync", "deploy", "dependents"}
    Initial <- AtFirst
    People = {"alice", "bob", "proxy", "peer"}
    VarNames = {"wire", "own", "conf"}
    Values = {"user", "base", "over", "peer"}
    Canisters = {"a", "b"}
    Ids = {"x", "y"}
    Terminals = {"t1", "t2"}
    MaxFaults = 2
    Projects <- TwoVersions
    EnvironmentNames = {"local", "prod"}
    CanisterNames = {"a", "b"}
    NetworkNames = {"local", "test", "ic"}
    Local = "local"
    Ic = "ic"
    Mainnet = "mainnet"
    Scenes = {"store", "file", "login", "modules", "recipes", "launchers", "settings", "race", "overlap", "serial", "selection"}
    Anonymous = Anonymous
    good = good
    bad = bad
    None = None
    Torn = Torn
    Clis = {"old", "new"}
    CliVersion <- OldAndNew
    Wasms = {"wasm"}
    RecipeUrls = {"recipe"}
    Registry = {}
    Contents = {good, bad}
    Renders = {good}
    MaxVersion = 2
    MaxAsked = 3
    RequestKinds = {"wasm", "recipe", "start", "update"}
    CacheFaults = {"kill", "fail", "change"}
SYMMETRY Interchangeable
INVARIANTS IdentityIntact NothingLeftBehind KeyKept LoginBound Vouched  DeletionSafe AgentMatchesIds
PROPERTIES FreshLaunch
CHECK_DEADLOCK FALSE
