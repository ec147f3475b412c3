SPECIFICATION FairSpec
CONSTANTS
    Clients = {c1, c2}
    Slots = 2
    AcceptMayFail = TRUE
    CommandsMayFail = TRUE
    None = None
INVARIANTS
    TypeOK
    SessionKeepsItsClient
    OnePlaceForAClient
    ThreadsEndFirst
PROPERTIES
    ServerStopsWhenSessionsEnd
CHECK_DEADLOCK FALSE
