SPECIFICATION Spec
CONSTANTS
    c1 = c1
    c2 = c2
    c3 = c3
    A = A
    B = B
    C = C
    near = near
    far = far
    nil = nil
    Client = {c1, c2, c3}
    Callsign = {A, B}
    callsignOf <- Shared
    Box = {near, far}
    Origin = near
    InRange <- Ranges
    Audience <- Everyone
    Supervisor = {}
    Kickable = {B}
    Kinds = {"position", "range", "reply", "send", "revoke"}
    SendChanCap = 1
    PacketBudget <- First1
    Staller = {}
    Leaver = {c1}
    MotdMayFail = TRUE
INVARIANTS
    RegistryExact
    ScanStable
    PresenceAccurate
PROPERTIES
    ImplementsPresence
CHECK_DEADLOCK FALSE
