SPECIFICATION Spec
CONSTANTS
    None = None
    u1 = u1
    u2 = u2
    a = a
    b = b
    c = c
    d = d
    i = i
    x = x
    gps = gps
    imu = imu
    Uploads = {u1}
    Files = {a, b}
    Sensors = {gps}
    Threads = {t1, t2}
    Workers = {w1, w2}
    UploadOf <- MCUploadOf
    SensorOf <- MCSensorOf
    Outcome <- MCOutcome
    Span <- MCSpan
    OpenedAt = 2
    FinalChunk <- MCFinal
    MaxPuts = 1
    MaxAttempts = 1
    Reports <- MCReports
    Faults <- AllFaults
INVARIANTS
    RowsAreStored
    ProcessedHasStream
PROPERTIES
    MergeKeepsPoints
    CatalogSpec
CHECK_DEADLOCK FALSE
