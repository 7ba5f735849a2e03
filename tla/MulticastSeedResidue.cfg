\* The multicast test's stack with failing Mongo calls.
CONSTANTS
    Collections <- TridentCollections
    Layers <- MulticastStack
    BodyWrites <- MulticastWrites
    LoginMayFail = FALSE
    MongoMayFail = TRUE
SPECIFICATION Spec
INVARIANT NoResidue
CHECK_DEADLOCK FALSE
