SPECIFICATION Spec
CONSTANTS
    bot = bot
    dev = dev
    anon = anon
    t1 = t1
    t2 = t2
    x1 = x1
    x2 = x2
    x3 = x3
    x4 = x4
    Tests <- MCTests
    Traces <- MCTraces
    Separated = {}
    NameOf <- MCNameOf
    Wiring <- MCWiring
    TrustOf <- MCTrustOf
    Threshold <- MCThreshold
    Multiplier = 2
    FlakyMin = 3
    FlakyNum = 2
    FlakyDen = 3
    MaxLog = 4
SYMMETRY TracesAlike
INVARIANTS
    TypeOK
    JudgedOnce
    LifeIsOwnHistory
    RestartForgetsNothing
    FullWindowFires
PROPERTIES
    TripNeedsFailures
