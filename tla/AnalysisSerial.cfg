SPECIFICATION Spec
CONSTANTS
    None = None
    h1 = h1
    h2 = h2
    whole = whole
    part = part
    Handlers = {h1}
    Workers = 2
    MaxUploads = 1
    MaxJobs = 2
    MaxWrites = 3
    MaxAttempts = 2
    Trims = {whole, part}
    NoTrim = whole
    Analyses <- MCAnalyses
    Manual <- MCManual
    Tolerance = 3
    Spacing = 4
    Faults <- AllFaults
INVARIANTS
    OneAnalysisPerEvent
    StatusTellsTask
    OneAnalysisShown
PROPERTIES
    UserRowsKept
    UserRowsWin
CHECK_DEADLOCK FALSE
