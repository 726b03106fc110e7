SPECIFICATION Spec
CONSTANTS
    None = None
    u1 = u1
    u2 = u2
    a = a
    b = b
    c = c
    d = d
    i = i
    x = x
    gps = gps
    imu = imu
    Uploads = {u1, u2}
    Files = {a, b, c, d, i, x}
    Sensors = {gps, imu}
    Threads = {t1, t2}
    Workers = {w1}
    UploadOf <- MCUploadOf
    SensorOf <- MCSensorOf
    Outcome <- MCOutcome
    Span <- MCSpan
    OpenedAt = 2
    FinalChunk <- MCFinal
    MaxPuts = 1
    MaxAttempts = 2
    Reports <- NoReports
    Faults <- Unreadable
INVARIANTS
    TypeOK
    StatusIsAggregate
    RowsDescribeBlobs
CHECK_DEADLOCK FALSE
