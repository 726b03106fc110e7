SPECIFICATION Spec
CONSTANTS
    None = None
    sloop = sloop
    race1 = race1
    Boats = {sloop}
    Races = {race1}
    RaceWindow <- TheRace
    Keys = {1}
    Windows <- TheWindows
    Gap <- TheGap
    Announced = 1
    Handlers = {1, 2}
    MaxRequests = 3
    MaxSessions = 3
    MaxActivities = 3
    MaxUploads = 3
INVARIANTS
    RetrySameUpload
    SessionCoversUploads
PROPERTIES
    OpensOnlyApart
    SessionsKept
CHECK_DEADLOCK FALSE
