SPECIFICATION Spec
CONSTANTS
    Keys = {k1}
    Requests = {r1}
    Loop = loop
    HitScores <- MCHits
    FloatScores = {1}
    ProbeWeights = {2}
    FailScores = {1}
    PassDecays = {2}
    WatchThreshold = 2
    BreakThreshold = 3
    ScoreFloor = 1
    BreakerEnabled = TRUE
    LogSink = TRUE
    Decay <- HalfLife
    Faults = {"churn", "crash", "shutdown"}
    MaxScore = 3
    MaxTime = 1
    MaxSubs = 1
INVARIANT ClearedStaysCleared
PROPERTY BreakerOutlives
