\* Device configuration (test_device_configuration.py): one expected
\* transmission update, no entity-count assertion, no skip path.
CONSTANTS
    Expected = 1
    Deadline = 2
    RecvTimeout = 4
    MaxSends = 3
    Envelopes <- DeviceAlphabet
    EntityType = "Device/UPDATE"
    CheckEntity = FALSE
    SiteUp = {TRUE}
    MulticastId = OP1
    TransmissionId = TX1
    Destination = SITE2
    EntityId = INC1
    None = None
    OP1 = OP1
    OP2 = OP2
    TX1 = TX1
    TX2 = TX2
    SITE2 = SITE2
    SITE3 = SITE3
    INC1 = INC1
    INC2 = INC2
SPECIFICATION Spec
INVARIANT SuccessSound
CHECK_DEADLOCK FALSE
