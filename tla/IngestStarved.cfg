SPECIFICATION FairSpec
CONSTANTS
    None = None
    u1 = u1
    u2 = u2
    a = a
    b = b
    c = c
    d = d
    i = i
    x = x
    gps = gps
    imu = imu
    Uploads = {u1}
    Files = {a, b, d}
    Sensors = {gps}
    Threads = {t1}
    Workers = {w1}
    UploadOf <- MCUploadOf
    SensorOf <- MCSensorOf
    Outcome <- MCOutcome
    Span <- MCSpan
    OpenedAt = 2
    FinalChunk <- MCFinal
    MaxPuts = 1
    MaxAttempts = 2
    Reports <- NoReports
    Faults <- Slow
PROPERTIES
    EveryPutSettles
    FileIsRegistered
CHECK_DEADLOCK FALSE
