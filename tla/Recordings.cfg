SPECIFICATION Spec
CONSTANTS
    None = None
    trip1 = trip1
    trip2 = trip2
    tap1 = tap1
    tap2 = tap2
    Recordings = {trip1, trip2}
    Flows = {tap1, tap2}
    MaxTaps = 3
    MaxKills = 1
    MaxLost = 1
INVARIANTS
    TrackIsSafe
    RegisteredOnce
PROPERTIES
    FinishedIsUploaded
CHECK_DEADLOCK FALSE
