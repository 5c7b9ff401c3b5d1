SPECIFICATION FairSpec
CONSTANTS
    c1 = c1
    c2 = c2
    c3 = c3
    A = A
    B = B
    C = C
    near = near
    far = far
    nil = nil
    Client = {c1, c2, c3}
    Callsign = {A, B, C}
    callsignOf <- Trio
    Box = {near, far}
    Origin = near
    InRange <- Ranges
    Audience <- Everyone
    Supervisor = {}
    Kickable = {}
    Kinds = {"broadcast"}
    SendChanCap = 1
    PacketBudget <- First2
    Staller = {}
    Leaver = {}
    MotdMayFail = FALSE
PROPERTIES
    AllReachesEveryone
CHECK_DEADLOCK FALSE
