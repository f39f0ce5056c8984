SPECIFICATION FairSpec
CONSTANTS
    MaxSockets = 3
    Devices = {d1}
    Pairings = {q1}
    Relay = Relay
    None = None
    QueueCap = 2
    MaxActs = 2
INVARIANTS ReleasedRoomsAreEmpty RevokedDevicesLeave SeatIsOwned PresenceIsTrue
PROPERTY DeniedRoomsEmpty
CHECK_DEADLOCK FALSE
