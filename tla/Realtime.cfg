SPECIFICATION Spec
CONSTANTS
    u1 = u1
    s1 = s1
    s2 = s2
    Users = {u1, u2}
    Sockets = {s1, s2}
    Uses <- MCUses
    Calls = {c1, c2}
    MaxVersion = 2
    Anonymous = Anonymous
    NoSocket = NoSocket
INVARIANTS RegistryFollowsSockets
PROPERTIES SerialEventsAreCurrent EventsArrive
