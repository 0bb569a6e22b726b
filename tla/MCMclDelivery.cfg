CONSTANTS
    None = None
    gross = gross
    net = net
    key1 = key1
    key2 = key2
    caseA = caseA
    caseB = caseB
    Contents = {gross, net}
    DedupKeys = {key1, key2}
    KeyOf <- MCKeyOf
    CaseOf <- MCCaseOf
    EventIds = {id1, id2}
    Messages <- MCMessages
    id1 = id1
    id2 = id2
    RetryCount = 1
    MaxTopic = 3
    MaxMishaps = 2
SPECIFICATION Spec
INVARIANTS
    TypeOK
    CommittedIsRecorded
PROPERTIES
    EveryDriftArrives
CHECK_DEADLOCK FALSE
