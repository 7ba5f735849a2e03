\* The fleet tests' stack; login, any Mongo call and the body may fail.
CONSTANTS
    Collections <- TridentCollections
    Layers <- FleetStack
    BodyWrites <- FleetWrites
    LoginMayFail = TRUE
    MongoMayFail = TRUE
SPECIFICATION Spec
INVARIANT FailureReported
CHECK_DEADLOCK FALSE
