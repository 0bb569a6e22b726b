CONSTANTS
    None = None
    t1 = t1
    t2 = t2
    api1 = api1
    api2 = api2
    short = short
    wideA = wideA
    wideB = wideB
    keyA = keyA
    keyB = keyB
    driftA = driftA
    driftA2 = driftA2
    driftB = driftB
    id1 = id1
    Processes = {api1}
    Threads = {t1, t2}
    ProcessOf <- OneProcess
    CaseIds = {short}
    DedupKeys = {keyA}
    Contents = {driftA}
    KeyOf <- OneKey
    DisplayIds <- OneCase
    Events <- OneDrift
    Proposals = {"net"}
    ReplayMode = FALSE
    LiveExecutor = TRUE
    DataHubConfigured = TRUE
    GeneratorConfigured = TRUE
    GitHubEnabled = TRUE
    MaxAttempts = 8
    Bounds <- BoundsRacing
SPECIFICATION FairSpec

    
PROPERTIES
    EveryRequestAnswered
    ImplementsLifecycle
