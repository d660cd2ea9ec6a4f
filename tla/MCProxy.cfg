SPECIFICATION Spec
CONSTANTS
    r1 = r1
    r2 = r2
    k1 = k1
    s1 = s1
    s2 = s2
    s3 = s3
    Keys = {k1}
    Requests <- MCRequests
    Sessions <- MCSessions
    Drifts <- MCDrifts
    Samples = {0, 1, 4}
    ToolChains <- MCChains
    Faults = {"cut"}
    Blend <- MCBlend
    Far <- MCFar
    MinSamples = 2
    BreachLimit = 2
    RateUp <- MCRateUp
    RateDown <- MCRateDown
    RateLine = 1
    RateSamples = 2
    ConfirmSteps = 2
    MaxSessions = 2
SYMMETRY Alike
INVARIANTS
    TypeOK
    AnswersAreAudited
    SilentOnlyIfTorn
    SlotsAreRecent
PROPERTY
    AlertIsSustained
