SPECIFICATION NetSpec
CONSTANTS
    Clients = {c1}
    Servers = {s1}
    NSockets = 3
    NTimers = 3
    RxSlots = 2
    Backlog = 1
    Attempts = 1
    SeqMod = 64
    OurIsn = 5
    Stride = 8
    PeerIsn = 2
    PeerBytes = 3
    SendLens = {1}
    MaxSends = 2
    MaxOpens = 2
    Roles <- OneRole
    TxFails = TRUE
    Resets = TRUE
    Hosts = {h1, h2}
    DnsHost = h1
    Names = {n1, n2}
    UserPorts = {10}
    EphBase = 10
    BindTries = 2
    NUdp = 2
    SockSlots = 1
    GlobalSlots = 1
    IcmpSlots = 1
    ArpSlots = 2
    ArpTtl = 1
    MaxNow = 1
    MaxAsked = 2
    MaxArrivals = 2
    Uses <- EachUse
INVARIANTS StreamsInOrder UnackedArmed SocketsHeld DatagramsSound
PROPERTIES RetransmissionEnds
CHECK_DEADLOCK FALSE
