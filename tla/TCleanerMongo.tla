---------------------------- MODULE TCleanerMongo ----------------------------
(***************************************************************************)
(* src/tms/cmd/tools/tcleaner_mongo/tcleaner_mongo.py: truncates the named *)
(* collections of the trident database, optionally only the documents      *)
(* selected by --older-than, then recreates /srv/ftp.                      *)
(*                                                                         *)
(* Times are whole seconds on one clock; a document is abstracted to its   *)
(* collection and the value of the collection's time field.  The          *)
(* arguments are fixed by Init from the small sets the MC module gives.    *)
(***************************************************************************)
EXTENDS Integers, Sequences, FiniteSets

CONSTANTS
    Docs,            \* the documents before the run: [coll, t]
    TimeField,       \* collection -> the format applied to since_time, for
                     \* the collections with a time field in collection_utime_field
    OlderThanArgs,   \* possible --older-than values: [given, num, unit]
    CollectionArgs,  \* possible --collections values: a sequence, or NoArg
    Now,             \* datetime.now()
    NoArg            \* an argument that was not given

ASSUME NowAssumption == Now \in Nat
ASSUME CollectionArgsAssumption == CollectionArgs \subseteq Seq(STRING) \cup {NoArg}
ASSUME NoArgAssumption == NoArg \notin Seq(STRING)

\* time_shortname, with each unit's length in seconds.
UnitSeconds == [d |-> 86400, s |-> 1, h |-> 3600, m |-> 60]

\* The value the query compares the time field with: collection_utime_field's
\* 'format' lambda applied to since_time.  `dt.time().second` keeps the
\* second of the minute; `dt.time().microsecond` is 0 for a whole-second
\* time; the other lambdas return the datetime itself.
Format(fmt, t) ==
    CASE fmt = "second" -> t % 60
      [] fmt = "microsecond" -> 0
      [] fmt = "datetime" -> t

VARIABLES
    pc,          \* "parse", "delete", "rmtree", "done"
    olderThan,   \* arg_values.older_than
    colls,       \* arg_values.collections
    since,       \* since_time, NoArg when not set
    i,           \* the next collection of the split list
    db,          \* the documents still stored
    client,      \* the MongoClient: "open" or "closed"
    ftp,         \* /srv/ftp: "full", "partial" (present, not empty),
                 \* "empty" or "absent"
    status       \* "running", "ok", "crashed"

vars == <<pc, olderThan, colls, since, i, db, client, ftp, status>>

\* Whether document d matches del_query for cutoff cut: without a cutoff, or
\* in a collection with no time field, the query is {} and matches all;
\* otherwise {field: {"$gte": format(since_time)}}.
Queried(d, cut) ==
    d.coll \in DOMAIN TimeField /\ cut # NoArg => d.t >= Format(TimeField[d.coll], cut)

\* The documents of collection c that delete_many(del_query) removes.
Selected(c) == {d \in db : d.coll = c /\ Queried(d, since)}

\* The argparse declarations and parse_args: --collections has no default
\* (None, here NoArg, when absent) and --older-than defaults to '', which
\* sets no cutoff.  --mongodb-url only names the server.
ArgValues == olderThan \in OlderThanArgs /\ colls \in CollectionArgs

Init ==
    /\ pc = "parse"
    /\ ArgValues
    /\ since = NoArg
    /\ i = 1
    /\ db = Docs
    /\ client = "open"
    /\ ftp \in {"full", "absent"}
    /\ status = "running"

\* An exception that escapes main: the script ends with a traceback.
Crash == pc' = "done" /\ status' = "crashed"

\* The --older-than parsing and the split of --collections.  An unknown
\* unit raises KeyError and a non-numeric count ValueError; only TypeError
\* is caught.  A missing --collections makes `.split` raise.
Parse ==
    /\ pc = "parse"
    /\ IF olderThan.given /\ (olderThan.unit \notin DOMAIN UnitSeconds \/ olderThan.num = NoArg)
       THEN Crash /\ UNCHANGED since
       ELSE /\ since' = IF olderThan.given
                        THEN Now - olderThan.num * UnitSeconds[olderThan.unit]
                        ELSE NoArg
            /\ IF colls = NoArg THEN Crash
               ELSE pc' = "delete" /\ UNCHANGED status
    /\ UNCHANGED <<olderThan, colls, i, db, client, ftp>>

\* One iteration of the loop over the first `last` collections of the list:
\* delete_many with the query built for the collection, or, after the last
\* one, client.close().  delete_many may raise (the server unreachable, or
\* an error part-way through a multi-document delete, which Mongo does not
\* roll back): what it removed stays removed, the exception ends main and
\* the client is never closed.
DeleteStep(last) ==
    /\ pc = "delete"
    /\ IF i <= last
       THEN \/ /\ db' = db \ Selected(colls[i])
               /\ i' = i + 1
               /\ UNCHANGED <<pc, client, status>>
            \/ /\ \E gone \in SUBSET Selected(colls[i]) : db' = db \ gone
               /\ Crash
               /\ UNCHANGED <<i, client>>
       ELSE /\ pc' = "rmtree" /\ client' = "closed"
            /\ UNCHANGED <<i, db, status>>
    /\ UNCHANGED <<olderThan, colls, since, ftp>>

\* Variant: the loop stops one collection short.
DeleteOneShort == DeleteStep(Len(colls) - 1)

\* Variant: a failed delete_many is reported and the loop goes on.
DeleteOneContinue ==
    /\ pc = "delete"
    /\ IF i <= Len(colls)
       THEN /\ \E gone \in SUBSET Selected(colls[i]) : db' = db \ gone
            /\ i' = i + 1
            /\ UNCHANGED <<pc, client, status>>
       ELSE /\ pc' = "rmtree" /\ client' = "closed"
            /\ UNCHANGED <<i, db, status>>
    /\ UNCHANGED <<olderThan, colls, since, ftp>>

\* for collection in arg_values.collections.split(','): ...; client.close()
DeleteOne == DeleteStep(Len(colls))

\* try: shutil.rmtree('/srv/ftp') finally: os.mkdir('/srv/ftp').  rmtree of
\* a missing directory raises FileNotFoundError after which mkdir creates
\* it.  rmtree that fails on a present one (an entry it may not remove)
\* leaves it present and not empty, so mkdir raises FileExistsError, which
\* replaces the first error.  Either exception ends main.
ResetFtp ==
    /\ pc = "rmtree"
    /\ \/ ftp = "absent" /\ ftp' = "empty" /\ status' = "crashed"
       \/ ftp # "absent" /\ ftp' = "empty" /\ status' = "ok"
       \/ ftp # "absent" /\ ftp' = "partial" /\ status' = "crashed"
    /\ pc' = "done"
    /\ UNCHANGED <<olderThan, colls, since, i, db, client>>

Next == Parse \/ DeleteOne \/ ResetFtp

Spec == Init /\ [][Next]_vars /\ WF_vars(Next)

-----------------------------------------------------------------------------
(* Properties.                                                             *)

TypeOK ==
    /\ pc \in {"parse", "delete", "rmtree", "done"}
    /\ db \subseteq Docs
    /\ client \in {"open", "closed"}
    /\ ftp \in {"full", "partial", "empty", "absent"}
    /\ status \in {"running", "ok", "crashed"}

\* The collections the run was asked to truncate.
Named == IF colls = NoArg THEN {} ELSE {colls[k] : k \in 1..Len(colls)}

\* Without --older-than, a run that got through the loop has emptied every
\* collection named on the command line and touched no other (the client
\* is closed right after the loop).
TruncatesNamed ==
    client = "closed" /\ since = NoArg =>
        db = {d \in Docs : d.coll \notin Named}

\* --older-than "how old data should be removed": with a cutoff, the run
\* removes exactly the documents of the named timed collections whose time
\* is before the cutoff.
OlderThanHonoured ==
    client = "closed" /\ since # NoArg =>
        \A d \in Docs :
            d.coll \in Named /\ d.coll \in DOMAIN TimeField =>
                (d \notin db <=> d.t < since)

-----------------------------------------------------------------------------
(* The refinement: the loop over the collections implements the contract's *)
(* single Truncate step.  Until the loop is over the contract still sees   *)
(* the documents of before the run; the step that closes the client is the *)
(* one at which they all change, and a delete_many that raises is the      *)
(* contract's Interrupted step.                                            *)

Contract == INSTANCE CleanerContract WITH
    store <- IF pc = "delete" THEN Docs ELSE db,
    dir <- ftp,
    named <- Named,
    cutoff <- since,
    stage <- CASE pc = "parse" -> "start"
               [] pc = "delete" -> "read"
               [] pc = "rmtree" -> "truncated"
               [] pc = "done" -> "over",
    Requests <- {IF cl = NoArg THEN {} ELSE {cl[k] : k \in 1..Len(cl)} : cl \in CollectionArgs},
    outcome <- CASE status = "running" -> "running"
                 [] status = "ok" -> "ok"
                 [] status = "crashed" -> "failed",
    NoCutoff <- NoArg,
    Selects <- Queried

\* tcleaner_mongo does what its contract says: deleting collection after
\* collection, with the query built for each, amounts to removing all the
\* selected documents of the named collections at once (duplicates in
\* --collections included); a delete_many that raises part-way, or a
\* connection lost between two collections, removes only selected
\* documents; a failed parse touches nothing; the tool exits 0 only with
\* the truncation complete and /srv/ftp present and empty, and never leaves
\* /srv/ftp absent; and the run ends.
CleanerRefinement == Contract!Spec

=============================================================================
