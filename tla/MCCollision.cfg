CONSTANTS
    None = None
    t1 = t1
    t2 = t2
    api1 = api1
    api2 = api2
    short = short
    wideA = wideA
    wideB = wideB
    keyA = keyA
    keyB = keyB
    driftA = driftA
    driftA2 = driftA2
    driftB = driftB
    id1 = id1
    Processes = {api1, api2}
    Threads = {t1, t2}
    ProcessOf <- TwoProcesses
    CaseIds = {short, wideA, wideB}
    DedupKeys = {keyA, keyB}
    Contents = {driftA, driftB}
    KeyOf <- TwoKeys
    DisplayIds <- Colliding
    Events <- TwoDrifts
    Proposals = {}
    ReplayMode = TRUE
    LiveExecutor = FALSE
    DataHubConfigured = FALSE
    GeneratorConfigured = FALSE
    GitHubEnabled = FALSE
    MaxAttempts = 8
    Bounds <- BoundsNone
SPECIFICATION Spec
PROPERTIES
    WritesAreStoreOperations
