\* tcleaner_mongo with a cutoff: which documents the $gte query removes.
CONSTANTS
    Docs <- DocSet
    TimeField <- UtimeFormats
    OlderThanArgs <- Args
    CollectionArgs <- CollLists
    Now = 130
    NoArg = None
    None = None
SPECIFICATION Spec
INVARIANT OlderThanHonoured
CHECK_DEADLOCK FALSE
