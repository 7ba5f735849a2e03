--------------------------- MODULE CleanerContract ---------------------------
(***************************************************************************)
(* What tcleaner_mongo promises its caller, with no loop in it.  After the *)
(* command line is read, either every document of the named collections   *)
(* that the selection picks disappears in one step and /srv/ftp is then    *)
(* recreated, or the run fails having removed some of those documents and  *)
(* no other.  A run that fails while reading its arguments changes         *)
(* nothing.  The run reports success only when the truncation is complete  *)
(* and /srv/ftp is left present and empty; it never leaves /srv/ftp absent *)
(* once it has got to it.                                                  *)
(*                                                                         *)
(* Which documents a cutoff selects is the parameter Selects(d, cut).      *)
(***************************************************************************)
CONSTANTS
    Docs,           \* the documents before the run
    Requests,       \* the possible sets of collections named on the command line
    NoCutoff,       \* the cutoff before the arguments are read
    Selects(_, _)   \* Selects(d, cut): document d falls under cutoff cut

VARIABLES
    store,    \* the documents stored
    dir,      \* /srv/ftp: "full", "partial", "empty" or "absent"
    named,    \* the collections the command line names
    cutoff,   \* the cutoff the command line gives
    stage,    \* "start", "read", "truncated", "over"
    outcome   \* "running", "ok", "failed"

cvars == <<store, dir, named, cutoff, stage, outcome>>

\* The documents the run is asked to remove.
Doomed(d) == d.coll \in named /\ Selects(d, cutoff)

Init ==
    /\ store = Docs
    /\ dir \in {"full", "absent"}
    /\ named \in Requests
    /\ cutoff = NoCutoff
    /\ stage = "start"
    /\ outcome = "running"

\* The arguments are read; the cutoff they give is fixed from here on.
Read ==
    /\ stage = "start"
    /\ stage' = "read"
    /\ UNCHANGED <<store, dir, named, outcome>>

\* Reading the arguments fails: the run ends with nothing changed.
Abort ==
    /\ stage = "start"
    /\ stage' = "over"
    /\ outcome' = "failed"
    /\ UNCHANGED <<store, dir, named>>

\* All selected documents of all named collections go at once.
Truncate ==
    /\ stage = "read"
    /\ store' = {d \in store : ~Doomed(d)}
    /\ stage' = "truncated"
    /\ UNCHANGED <<dir, named, cutoff, outcome>>

\* The truncation fails part-way: some of the selected documents are gone,
\* the others and every document that is not selected are still there.
Interrupted ==
    /\ stage = "read"
    /\ store' \subseteq store
    /\ \A d \in store \ store' : Doomed(d)
    /\ stage' = "over"
    /\ outcome' = "failed"
    /\ UNCHANGED <<dir, named, cutoff>>

\* /srv/ftp is recreated: it is left present, and the run succeeds only
\* if it is left empty.
Recreate ==
    /\ stage = "truncated"
    /\ dir' \in {"empty", "partial"}
    /\ outcome' \in {"ok", "failed"}
    /\ outcome' = "ok" => dir' = "empty"
    /\ stage' = "over"
    /\ UNCHANGED <<store, named, cutoff>>

Next == Read \/ Abort \/ Truncate \/ Interrupted \/ Recreate

Safety == Init /\ [][Next]_cvars

\* The run always gets to its end.
Spec == Safety /\ <>(stage = "over")

=============================================================================
