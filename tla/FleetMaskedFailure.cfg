\* The fleet tests' stack with failing Mongo calls.
CONSTANTS
    Collections <- TridentCollections
    Layers <- FleetStack
    BodyWrites <- FleetWrites
    LoginMayFail = FALSE
    MongoMayFail = TRUE
SPECIFICATION Spec
INVARIANT FirstFailureReported
CHECK_DEADLOCK FALSE
