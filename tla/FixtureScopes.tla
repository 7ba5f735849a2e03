---------------------------- MODULE FixtureScopes ----------------------------
(***************************************************************************)
(* The scoped fixtures of the acceptance suite: the decorators             *)
(*   authenticate              (src/tests/acceptance/utilities/session.py) *)
(*   clean_collections_after   (src/tests/acceptance/utilities/mongo.py)   *)
(*   insert_collection_data    (src/tests/acceptance/utilities/mongo.py)   *)
(* stacked on one test method.  `Layers` lists the decorators from the     *)
(* outermost to the innermost; calling the test enters them in that order  *)
(* and, once the body has returned or raised, runs their `finally` blocks  *)
(* from the innermost out.  A layer whose set-up raised before its `try`   *)
(* was entered has no `finally` to run.  A later exception replaces the    *)
(* one in flight, as Python's `finally` does.                              *)
(*                                                                         *)
(* The database is abstracted to which kinds of documents each collection  *)
(* holds: "stale" (left by earlier runs), "seed" (inserted by a fixture)   *)
(* and "test" (written by the body through the API).                       *)
(***************************************************************************)
EXTENDS Naturals, Sequences, FiniteSets

CONSTANTS
    Collections,     \* the collection names of the trident database
    Layers,          \* the decorator stack, outermost first
    BodyWrites,      \* the collections the body's API calls write to
    LoginMayFail,    \* POST /session may answer something other than 200
    MongoMayFail     \* a delete_many / insert_many may raise

\* One decorator: its kind and the collections it names, in order.
LayerRecords ==
    [kind : {"authenticate"}, colls : {<<>>}]
    \cup [kind : {"clean_collections_after"}, colls : Seq(Collections) \ {<<>>}]
    \cup [kind : {"insert_collection_data"}, colls : {<<c>> : c \in Collections}]

ASSUME LayersAssumption == Layers \in Seq(LayerRecords)
ASSUME BodyWritesAssumption == BodyWrites \subseteq Collections
ASSUME FlagsAssumption == LoginMayFail \in BOOLEAN /\ MongoMayFail \in BOOLEAN

N == Len(Layers)

Tags == {"stale", "seed", "test"}

Errors == {"none", "assert", "login", "mongo"}

VARIABLES
    phase,      \* "enter" (set-up), "exit" (unwinding), "done"
    depth,      \* layers 1..depth are inside their `try`
    exc,        \* the exception propagating, "none" if the call returns
    failed,     \* history: some step of the call raised
    firstExc,   \* history: the first exception raised
    sessions,   \* layers whose requests Session is open
    clients,    \* layers whose MongoClient is open
    db          \* collection -> kinds of documents it holds

vars == <<phase, depth, exc, failed, firstExc, sessions, clients, db>>

\* The collections the layer at position i names.
CollsOf(i) == {Layers[i].colls[k] : k \in 1..Len(Layers[i].colls)}

\* db with the documents of collections s removed.
Cleared(s) == [c \in Collections |-> IF c \in s THEN {} ELSE db[c]]

\* Raise exception x from the current step and start unwinding.
Throw(x) ==
    /\ exc' = x
    /\ failed' = TRUE
    /\ firstExc' = IF failed THEN firstExc ELSE x
    /\ phase' = "exit"

Init ==
    /\ phase = "enter"
    /\ depth = 0
    /\ exc = "none"
    /\ failed = FALSE
    /\ firstExc = "none"
    /\ sessions = {}
    /\ clients = {}
    /\ db \in [Collections -> {{}, {"stale"}}]

-----------------------------------------------------------------------------
(* Set-up: `wrapped` of the next layer runs up to its `try`.               *)

\* authenticate: Session().login(...) creates the session and POSTs the
\* credentials; a non-200 answer raises before the `try`.
EnterAuthenticate(i) ==
    /\ Layers[i].kind = "authenticate"
    /\ sessions' = sessions \cup {i}
    /\ \/ depth' = i /\ UNCHANGED <<phase, exc, failed, firstExc>>
       \/ LoginMayFail /\ Throw("login") /\ UNCHANGED depth
    /\ UNCHANGED <<clients, db>>

\* clean_collections_after: connect(), then straight into the `try`.
EnterClean(i) ==
    /\ Layers[i].kind = "clean_collections_after"
    /\ clients' = clients \cup {i}
    /\ depth' = i
    /\ UNCHANGED <<phase, exc, failed, firstExc, sessions, db>>

\* insert_collection_data: connect(), delete_many({}), insert_many(data),
\* all before the `try`.  insert_many may fail after writing part of data.
EnterInsert(i) ==
    LET c == Layers[i].colls[1] IN
    /\ Layers[i].kind = "insert_collection_data"
    /\ clients' = clients \cup {i}
    /\ \/ /\ db' = [db EXCEPT ![c] = {"seed"}]
          /\ depth' = i
          /\ UNCHANGED <<phase, exc, failed, firstExc>>
       \/ MongoMayFail /\ Throw("mongo") /\ UNCHANGED <<db, depth>>
       \/ /\ MongoMayFail
          /\ \E part \in {{}, {"seed"}} : db' = [db EXCEPT ![c] = part]
          /\ Throw("mongo")
          /\ UNCHANGED depth
    /\ UNCHANGED sessions

Enter ==
    /\ phase = "enter"
    /\ depth < N
    /\ LET i == depth + 1 IN
       EnterAuthenticate(i) \/ EnterClean(i) \/ EnterInsert(i)

\* The test method: its API calls write to some of BodyWrites, then it
\* returns or an assertion fails.
Body ==
    /\ phase = "enter"
    /\ depth = N
    /\ \E w \in SUBSET BodyWrites :
         db' = [c \in Collections |-> IF c \in w THEN db[c] \cup {"test"} ELSE db[c]]
    /\ \/ phase' = "exit" /\ UNCHANGED <<exc, failed, firstExc>>
       \/ Throw("assert")
    /\ UNCHANGED <<depth, sessions, clients>>

-----------------------------------------------------------------------------
(* Unwinding: the `finally` block of the innermost entered layer.          *)

\* Variant: a `return ret` inside the `finally`, which swallows the
\* exception in flight.
ExitAuthenticateSwallow(i) ==
    /\ Layers[i].kind = "authenticate"
    /\ sessions' = sessions \ {i}
    /\ exc' = "none"
    /\ UNCHANGED <<failed, firstExc, clients, db>>

\* authenticate: session.close().
ExitAuthenticate(i) ==
    /\ Layers[i].kind = "authenticate"
    /\ sessions' = sessions \ {i}
    /\ UNCHANGED <<exc, failed, firstExc, clients, db>>

\* Variant: the clean-up written after the call instead of in a
\* `finally`, so it runs only when the call returned.
ExitCleanOnSuccess(i) ==
    /\ Layers[i].kind = "clean_collections_after"
    /\ db' = IF exc = "none" THEN Cleared(CollsOf(i)) ELSE db
    /\ clients' = clients \ {i}
    /\ UNCHANGED <<exc, failed, firstExc, sessions>>

\* clean_collections_after: delete_many({}) on each named collection in
\* order, then client.close(); a delete that raises ends the block there.
ExitClean(i) ==
    LET s == Layers[i].colls IN
    /\ Layers[i].kind = "clean_collections_after"
    /\ \/ /\ db' = Cleared(CollsOf(i))
          /\ clients' = clients \ {i}
          /\ UNCHANGED <<exc, failed, firstExc>>
       \/ /\ MongoMayFail
          /\ \E j \in 0..(Len(s) - 1) :
               db' = Cleared({s[k] : k \in 1..j})
          /\ exc' = "mongo" /\ failed' = TRUE
          /\ firstExc' = IF failed THEN firstExc ELSE "mongo"
          /\ UNCHANGED clients
    /\ UNCHANGED sessions

\* Variant: the `finally` clears the collection but never calls
\* client.close().
ExitInsertNoClose(i) ==
    LET c == Layers[i].colls[1] IN
    /\ Layers[i].kind = "insert_collection_data"
    /\ db' = Cleared({c})
    /\ UNCHANGED <<exc, failed, firstExc, clients, sessions>>

\* insert_collection_data: delete_many({}) on its collection, then
\* client.close().
ExitInsert(i) ==
    LET c == Layers[i].colls[1] IN
    /\ Layers[i].kind = "insert_collection_data"
    /\ \/ /\ db' = Cleared({c})
          /\ clients' = clients \ {i}
          /\ UNCHANGED <<exc, failed, firstExc>>
       \/ /\ MongoMayFail
          /\ exc' = "mongo" /\ failed' = TRUE
          /\ firstExc' = IF failed THEN firstExc ELSE "mongo"
          /\ UNCHANGED <<clients, db>>
    /\ UNCHANGED sessions

Exit ==
    /\ phase = "exit"
    /\ depth > 0
    /\ depth' = depth - 1
    /\ ExitAuthenticate(depth) \/ ExitClean(depth) \/ ExitInsert(depth)
    /\ UNCHANGED phase

\* The outermost wrapper has returned (or raised) to unittest.
Finish ==
    /\ phase = "exit"
    /\ depth = 0
    /\ phase' = "done"
    /\ UNCHANGED <<depth, exc, failed, firstExc, sessions, clients, db>>

Next == Enter \/ Body \/ Exit \/ Finish

Spec == Init /\ [][Next]_vars /\ WF_vars(Next)

-----------------------------------------------------------------------------
(* Properties.                                                             *)

TypeOK ==
    /\ phase \in {"enter", "exit", "done"}
    /\ depth \in 0..N
    /\ exc \in Errors
    /\ failed \in BOOLEAN
    /\ firstExc \in Errors
    /\ sessions \subseteq 1..N
    /\ clients \subseteq 1..N
    /\ db \in [Collections -> SUBSET Tags]

\* A test leaves nothing of its own behind: once the call is over, no
\* collection holds documents that its fixtures seeded or its body wrote
\* (documents left by earlier runs are not its doing).
NoResidue ==
    phase = "done" => \A c \in Collections : db[c] \cap {"seed", "test"} = {}

\* Every MongoClient a fixture opened is closed when the call is over.
ClientsReleased == phase = "done" => clients = {}

\* Every requests Session authenticate opened is closed when the call is
\* over (spec 9: release on every exit path).
SessionsReleased == phase = "done" => sessions = {}

\* A call in which something raised never reaches unittest as a success,
\* and one in which nothing raised never as a failure.
FailureReported == phase = "done" => (failed <=> exc # "none")

\* The exception that reaches unittest is the first one raised, so the
\* report names what really went wrong (spec 7).
FirstFailureReported == phase = "done" => exc = firstExc

=============================================================================
