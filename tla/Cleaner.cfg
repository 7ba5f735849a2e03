\* tcleaner_mongo over all the command lines of MCTCleanerMongo.
CONSTANTS
    Docs <- DocSet
    TimeField <- UtimeFormats
    OlderThanArgs <- Args
    CollectionArgs <- CollLists
    Now = 130
    NoArg = None
    None = None
SPECIFICATION Spec
INVARIANTS TruncatesNamed
PROPERTY CleanerRefinement
CHECK_DEADLOCK FALSE
