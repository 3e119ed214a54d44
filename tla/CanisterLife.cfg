SPECIFICATION SceneSpec
CONSTANTS
    s1 = s1
    s2 = s2
    r1 = r1
    Runs = {r1}
    Names = {a, b}
    Ids = {x, y}
    Subnets = {s1, s2}
    Engines = {s2}
    Operators = {s2}
    Placements <- AnyTarget
    Mishaps = {"fail", "lost", "kill"}
    Listing <- AB
    Refs <- EachOther
    CutShort = CutShort
    t1 = t1
    t2 = t2
    h1 = h1
    a = a
    b = b
    x = x
    y = y
    None = None
    Zero = Zero
    Torn = Torn
    Whole = Whole
    Scenes = {"create", "transfer"}
    Snapshots = {s1}
    Targets = {t1, t2}
    Order <- AllBlobs
    Chunks <- Sizes
    Hashes = {h1}
    Faults = {"stop"}
    UploadFaults = {"stop", "fail", "twice"}
    EarlyUpload = FALSE
INVARIANTS Arranged RecordedIsOnDisk DownloadFaithful UploadFaithful
PROPERTIES StoreKept DeployCompletes LedgerKept UploadEnds
CHECK_DEADLOCK FALSE
