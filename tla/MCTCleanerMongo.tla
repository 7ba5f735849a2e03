-------------------------- MODULE MCTCleanerMongo --------------------------
(***************************************************************************)
(* A small trident database and the command lines of interest: no cutoff,  *)
(* "1m" and "60s" (the same cutoff, 70 s at Now = 130), an unknown unit    *)
(* and a non-numeric count.                                                *)
(***************************************************************************)
EXTENDS TCleanerMongo

CONSTANT None

DocSet == {[coll |-> c, t |-> t] : c \in {"incidents", "registry", "activity", "fleets"},
                                   t \in {69, 70, 71}}

\* collection_utime_field, for the collections with a time field.
UtimeFormats == [incidents |-> "datetime", registry |-> "second", activity |-> "microsecond"]

Arg(g, n, u) == [given |-> g, num |-> n, unit |-> u]

Args == {Arg(FALSE, 0, "s"), Arg(TRUE, 1, "m"), Arg(TRUE, 60, "s"),
         Arg(TRUE, 3, "x"), Arg(TRUE, None, "s")}

CollLists == {None, <<"incidents", "registry", "activity", "fleets">>,
              <<"fleets">>, <<"registry", "incidents">>}
=============================================================================
