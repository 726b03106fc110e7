SPECIFICATION Spec
CONSTANTS
    None = None
    Blank = Blank
    Garbled = Garbled
    Hz = 2
    Day = 24
    Warmup = 4
    Drift = 10
    OutlierMin = 3
    OutlierDeg = 1
    Bundles <- MCBundles
    Jobs <- MCJobs
    Losses = {0, 20, 35}
    Rates = {2, 7, 12}
INVARIANTS
    TrackIsAnalysed
CHECK_DEADLOCK FALSE
