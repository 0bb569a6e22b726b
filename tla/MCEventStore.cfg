CONSTANTS
    None = None
    caseA = caseA
    caseB = caseB
    key1 = key1
    key2 = key2
    gross = gross
    grossOther = grossOther
    net = net
    payments = payments
    orders = orders
    Assets = {payments, orders}
    AssetOf <- MCAssetOf
    CaseIds = {caseA, caseB}
    DedupKeys = {key1, key2}
    EventIds = {id1}
    Contents = {gross, grossOther, net}
    KeyOf <- MCKeyOf
    Times = {1, 2}
    Details <- MCDetails
    MaxLog = 5
SPECIFICATION Spec
SYMMETRY MCSymmetry
INVARIANTS
    TypeOK
    ScopesAgree
    UniqueInScope
    StreamsLegal
    RetryIsDuplicate
    GuardIsSound
    FollowersMissNothing
PROPERTIES
    OnlyResetRevokes
CHECK_DEADLOCK FALSE
