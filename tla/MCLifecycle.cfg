SPECIFICATION FairSpec
CONSTANTS
    fingerprint = fingerprint
    answers = answers
    u1 = u1
    op = op
    update = update
    StrictAt = 80
    StandardAt = 40
    Ttl = 3
    Kinds <- MCKinds
    First = fingerprint
    Reporters <- MCReporters
    Operators <- MCOperators
    Bodies <- MCBodies
    Separated = {}
    Weights <- MCWeights
    Unknown = 50
    ColdEvents = 1
    Votes = 2
    Window = 2
    MaxTime = 6
    MaxEpoch = 1
INVARIANTS
    TypeOK
    ConfirmCountsOnce
    RetiredIsGone
    OneStaleCharge
PROPERTIES
    VotesAreSpentOnce
    TrustOnlyFades
    
