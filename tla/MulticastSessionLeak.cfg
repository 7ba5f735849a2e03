\* The multicast test's stack with a refused login.
CONSTANTS
    Collections <- TridentCollections
    Layers <- MulticastStack
    BodyWrites <- MulticastWrites
    LoginMayFail = TRUE
    MongoMayFail = FALSE
SPECIFICATION Spec
INVARIANT SessionsReleased
CHECK_DEADLOCK FALSE
