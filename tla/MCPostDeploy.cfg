CONSTANTS
    None = None
    Null = Null
    p1 = p1
    p2 = p2
    sound = sound
    gross = gross
    lossy = lossy
    untested = untested
    martless = martless
    edited = edited
    Ops = {"report", "containment", "resolution"}
    ReadbackAttempts = 2
    Datasets = {"raw", "source", "staging", "mart"}
    Chain <- MCChain
    Parallel <- MCParallel
    Edges <- MCEdges
    Baseline <- MCBaseline
    ExpectedModels = {"stg_payments", "fct_revenue"}
    MinTests = 2
    Commits = {sound, gross, lossy, untested, martless, edited}
    ExactPatch = {sound, gross, lossy, untested, martless}
    ProjectOf <- MCProjectOf
    MaxMishaps = 2
SPECIFICATION Spec
INVARIANTS
    TypeOK
    ReportBeforeResolution
    
    LineageJudgedRight
PROPERTIES
    ImplementsRemoteCall
    EveryDeploymentSettles
CHECK_DEADLOCK FALSE
