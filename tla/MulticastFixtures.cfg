\* The multicast test's stack; login may be refused, the body may fail.
CONSTANTS
    Collections <- TridentCollections
    Layers <- MulticastStack
    BodyWrites <- MulticastWrites
    LoginMayFail = TRUE
    MongoMayFail = FALSE
SPECIFICATION Spec
INVARIANTS NoResidue ClientsReleased FailureReported
CHECK_DEADLOCK FALSE
