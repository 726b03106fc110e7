SPECIFICATION Spec
CONSTANTS
    None = None
    ann = ann
    bob = bob
    Root = Root
    one = one
    two = two
    club = club
    club2 = club2
    group = group
    boat = boat
    Users = {ann, bob}
    Clubs = {club, club2}
    Groups = {group}
    Boats = {boat}
    Activities <- TheActivities
    Sessions <- TheSessions
    Handlers = {one, two}
    MaxOrgs = 1
    MaxRequests = 3
INVARIANTS
    BoatKeepsOwner
    ActiveWasVouched
    SameVisibility
SYMMETRY Alike
CHECK_DEADLOCK FALSE
