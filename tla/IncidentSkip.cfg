\* Incident forwarding: the destination site is not connected.
CONSTANTS
    Expected = 3
    Deadline = 2
    RecvTimeout = 4
    MaxSends = 4
    Envelopes <- IncidentAlphabet
    EntityType = "Incident/CLOSE"
    CheckEntity = TRUE
    SiteUp = {TRUE, FALSE}
    MulticastId = OP1
    TransmissionId = TX1
    Destination = SITE2
    EntityId = INC1
    None = None
    OP1 = OP1
    OP2 = OP2
    TX1 = TX1
    TX2 = TX2
    SITE2 = SITE2
    SITE3 = SITE3
    INC1 = INC1
    INC2 = INC2
SPECIFICATION Spec
INVARIANT SkipNotPassed
CHECK_DEADLOCK FALSE
