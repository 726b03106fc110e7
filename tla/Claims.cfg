SPECIFICATION MCSpec
CONSTANTS
    None = None
    boat = boat
    crew = crew
    x1 = x1
    x2 = x2
    h1 = h1
    h2 = h2
    h3 = h3
    Targets = {boat, crew}
    Hardware = {x1, x2}
    Handlers = {h1, h2, h3}
    MaxRequests = 4
    MaxClaims = 2
    Faults <- Lossy
SYMMETRY ConcurrentSymmetry
INVARIANTS
    ExternalIdOnce
    KeyNamesItsHardware
    SerialKeyWorks
    SerialCodeUsable
CHECK_DEADLOCK FALSE
