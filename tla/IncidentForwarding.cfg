\* Incident forwarding (test_incident_forwarding.py) with three expected
\* transmission updates instead of seventeen, and the code's 10 s / 20 s
\* bounds scaled to 2 s / 4 s.
CONSTANTS
    Expected = 3
    Deadline = 2
    RecvTimeout = 4
    MaxSends = 4
    Envelopes <- IncidentAlphabet
    EntityType = "Incident/CLOSE"
    CheckEntity = TRUE
    SiteUp = {TRUE, FALSE}
    MulticastId = OP1
    TransmissionId = TX1
    Destination = SITE2
    EntityId = INC1
    None = None
    OP1 = OP1
    OP2 = OP2
    TX1 = TX1
    TX2 = TX2
    SITE2 = SITE2
    SITE3 = SITE3
    INC1 = INC1
    INC2 = INC2
SPECIFICATION Spec
INVARIANTS TypeOK SuccessSound
PROPERTIES Terminates
CHECK_DEADLOCK FALSE
