SPECIFICATION FairSpec
CONSTANTS
    c1 = c1
    c2 = c2
    c3 = c3
    A = A
    B = B
    C = C
    near = near
    far = far
    nil = nil
    Client = {c1, c2}
    Callsign = {A, B}
    callsignOf <- Pair
    Box = {near, far}
    Origin = near
    InRange <- Ranges
    Audience <- Everyone
    Supervisor = {c1}
    Kickable = {}
    Kinds = {"broadcast", "delete", "range", "position", "send", "reply", "kill", "revoke"}
    SendChanCap = 1
    PacketBudget <- First1
    Staller = {c2}
    Leaver = {c2}
    MotdMayFail = FALSE
INVARIANTS
    TypeOK
    IndexExact
    LockDiscipline
    MutualAwareness
    QueueHasConsumer
PROPERTIES
    CancelledLeaves
    GoneLeaves
