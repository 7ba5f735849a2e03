------------------------- MODULE TCleanerMongoProofs -------------------------
(***************************************************************************)
(* Proofs about TCleanerMongo for every database, every command line and   *)
(* every time field table.                                                 *)
(*                                                                         *)
(* The invariant CleanerInv says what the delete loop has done so far:     *)
(* while it runs, the stored documents are those of before the run less    *)
(* the ones the queries of the first i-1 collections select; once the      *)
(* client is closed, they are those of before the run less the selected    *)
(* documents of all the named collections; a run still going has not      *)
(* ended, and one that ended with success closed the client and left       *)
(* /srv/ftp empty.  TruncatesNamed and the refinement of CleanerContract   *)
(* follow from it.                                                         *)
(***************************************************************************)
EXTENDS TCleanerMongo, TLAPS

USE CollectionArgsAssumption, NoArgAssumption

\* Document d was selected by the query of one of the first k collections.
Pruned(d, k) == \E j \in 1..k : d.coll = colls[j] /\ Queried(d, since)

\* What the run leaves: the documents not selected in a named collection.
Kept == {d \in Docs : ~(d.coll \in Named /\ Queried(d, since))}

CleanerInv ==
    /\ pc \in {"parse", "delete", "rmtree", "done"}
    /\ client \in {"open", "closed"}
    /\ colls \in CollectionArgs
    /\ pc = "parse" => db = Docs /\ since = NoArg /\ client = "open" /\ i = 1
    /\ pc = "delete" => /\ colls \in Seq(STRING)
                        /\ i \in 1..(Len(colls) + 1)
                        /\ client = "open"
                        /\ db = {d \in Docs : ~Pruned(d, i - 1)}
    /\ pc = "rmtree" => client = "closed"
    /\ client = "closed" => pc \in {"rmtree", "done"} /\ colls \in Seq(STRING) /\ db = Kept
    /\ pc # "done" => status = "running"
    /\ pc = "done" => status \in {"ok", "crashed"}
    /\ status = "ok" => client = "closed" /\ ftp = "empty"

\* One more loop iteration adds the selected documents of one collection.
LEMMA PrunedStep ==
    ASSUME NEW d, NEW k \in Nat, colls \in Seq(STRING), k + 1 \in 1..Len(colls)
    PROVE  Pruned(d, k + 1) <=> Pruned(d, k) \/ (d.coll = colls[k + 1] /\ Queried(d, since))
BY DEF Pruned

\* After the last iteration, the selected documents of every named
\* collection are gone.
LEMMA PrunedAll ==
    ASSUME NEW d, colls \in Seq(STRING)
    PROVE  Pruned(d, Len(colls)) <=> d.coll \in Named /\ Queried(d, since)
<1>1. Named = {colls[k] : k \in 1..Len(colls)}
  BY NoArgAssumption DEF Named
<1>. QED
  BY <1>1 DEF Pruned

LEMMA InitCleanerInv == Init => CleanerInv
BY DEF Init, ArgValues, CleanerInv

LEMMA NextCleanerInv == CleanerInv /\ [Next]_vars => CleanerInv'
<1> SUFFICES ASSUME CleanerInv, [Next]_vars PROVE CleanerInv'
  OBVIOUS
<1>1. CASE Parse
  <2>1. CASE olderThan.given /\ (olderThan.unit \notin DOMAIN UnitSeconds \/ olderThan.num = NoArg)
    BY <1>1, <2>1 DEF Parse, Crash, CleanerInv
  <2>2. CASE ~(olderThan.given /\ (olderThan.unit \notin DOMAIN UnitSeconds \/ olderThan.num = NoArg))
        /\ colls = NoArg
    BY <1>1, <2>2 DEF Parse, Crash, CleanerInv
  <2>3. CASE ~(olderThan.given /\ (olderThan.unit \notin DOMAIN UnitSeconds \/ olderThan.num = NoArg))
        /\ colls # NoArg
    <3>1. pc' = "delete" /\ UNCHANGED <<colls, i, db, client, status>>
      BY <1>1, <2>3 DEF Parse
    <3>2. colls \in Seq(STRING) /\ i = 1 /\ db = Docs /\ client = "open" /\ status = "running"
      BY <1>1, <2>3 DEF Parse, CleanerInv
    <3>3. db' = {d \in Docs : ~Pruned(d, i - 1)'}
      BY <3>1, <3>2 DEF Pruned
    <3>. QED
      BY <3>1, <3>2, <3>3 DEF CleanerInv
  <2>. QED
    BY <2>1, <2>2, <2>3
<1>2. CASE DeleteOne
  <2>1. pc = "delete" /\ colls \in Seq(STRING) /\ i \in 1..(Len(colls) + 1)
        /\ client = "open" /\ db = {d \in Docs : ~Pruned(d, i - 1)} /\ status = "running"
    BY <1>2 DEF DeleteOne, DeleteStep, CleanerInv
  <2>2. UNCHANGED <<colls, since, ftp>>
    BY <1>2 DEF DeleteOne, DeleteStep
  <2>3. CASE i <= Len(colls) /\ db' = db \ Selected(colls[i]) /\ i' = i + 1
             /\ UNCHANGED <<pc, client, status>>
    <3>1. \A d : Pruned(d, i - 1)' <=> Pruned(d, i - 1) \/ (d.coll = colls[i] /\ Queried(d, since))
      BY <2>1, <2>2, <2>3, PrunedStep DEF Pruned
    <3>2. db' = {d \in Docs : ~Pruned(d, i - 1)'}
      BY <2>1, <2>3, <3>1 DEF Selected
    <3>. QED
      BY <2>1, <2>2, <2>3, <3>2 DEF CleanerInv
  <2>4. CASE i <= Len(colls) /\ Crash /\ UNCHANGED <<i, client>>
    BY <2>1, <2>2, <2>4 DEF Crash, CleanerInv
  <2>5. CASE ~(i <= Len(colls))
    <3>1. i = Len(colls) + 1 /\ pc' = "rmtree" /\ client' = "closed" /\ UNCHANGED <<db, status>>
      BY <1>2, <2>1, <2>5 DEF DeleteOne, DeleteStep
    <3>2. db = Kept
      BY <2>1, <3>1, PrunedAll DEF Kept
    <3>. QED
      BY <2>1, <2>2, <3>1, <3>2 DEF CleanerInv, Kept, Named
  <2>. QED
    BY <1>2, <2>3, <2>4, <2>5 DEF DeleteOne, DeleteStep
<1>3. CASE ResetFtp
  BY <1>3 DEF ResetFtp, CleanerInv, Kept, Named
<1>4. CASE UNCHANGED vars
  BY <1>4 DEF vars, CleanerInv, Kept, Named, Pruned
<1>. QED
  BY <1>1, <1>2, <1>3, <1>4 DEF Next

\* The loop invariant of the delete loop holds in every reachable state.
THEOREM CleanerInvariant == Spec => []CleanerInv
BY InitCleanerInv, NextCleanerInv, PTL DEF Spec

\* Without --older-than, every run that gets through the loop has emptied
\* exactly the collections named in --collections, whatever the list (an
\* empty one, one with repeats) and whatever the database holds.
THEOREM CleanerTruncatesNamed == Spec => []TruncatesNamed
<1>1. CleanerInv => TruncatesNamed
  BY DEF CleanerInv, Kept, TruncatesNamed, Queried
<1>. QED
  BY <1>1, CleanerInvariant, PTL

\* The safety part of the refinement: every step of tcleaner_mongo is a
\* step of CleanerContract or leaves its state alone, under the mapping of
\* TCleanerMongo.  The last iteration of the loop is the atomic Truncate, a
\* delete_many that raises is Interrupted (it removed only selected
\* documents of a named collection), and the rmtree/mkdir is Recreate
\* (the tool exits 0 only with /srv/ftp present and empty).
THEOREM CleanerImplementsContract == Spec => Contract!Safety
<1>1. Init => Contract!Init
  BY DEF Init, ArgValues, Contract!Init, Named
<1>2. CleanerInv /\ [Next]_vars => [Contract!Next]_Contract!cvars
  <2> SUFFICES ASSUME CleanerInv, [Next]_vars PROVE [Contract!Next]_Contract!cvars
    OBVIOUS
  <2>1. CASE Parse
    <3>1. pc = "parse" /\ db = Docs /\ status = "running" /\ UNCHANGED <<colls, db, ftp>>
      BY <2>1 DEF Parse, CleanerInv
    <3>2. \/ pc' = "delete" /\ status' = "running"
          \/ pc' = "done" /\ status' = "crashed"
      BY <2>1, <3>1 DEF Parse, Crash
    <3>3. CASE pc' = "delete" /\ status' = "running"
      BY <3>1, <3>3 DEF Contract!Next, Contract!Read, Named
    <3>4. CASE pc' = "done" /\ status' = "crashed"
      BY <3>1, <3>4 DEF Contract!Next, Contract!Abort, Named
    <3>. QED
      BY <3>2, <3>3, <3>4
  <2>2. CASE DeleteOne
    <3>1. pc = "delete" /\ colls \in Seq(STRING) /\ i \in 1..(Len(colls) + 1)
          /\ db = {d \in Docs : ~Pruned(d, i - 1)} /\ status = "running"
          /\ UNCHANGED <<colls, since, ftp>>
      BY <2>2 DEF DeleteOne, DeleteStep, CleanerInv
    <3>2. CASE i <= Len(colls) /\ pc' = "delete" /\ UNCHANGED status
      BY <3>1, <3>2 DEF Contract!cvars, Named
    <3>3. CASE i <= Len(colls) /\ (\E gone \in SUBSET Selected(colls[i]) : db' = db \ gone) /\ Crash
      <4>1. PICK gone \in SUBSET Selected(colls[i]) : db' = db \ gone
        BY <3>3
      <4>2. db' \subseteq Docs
        BY <3>1, <4>1
      <4>3. ASSUME NEW d \in Docs \ db'
            PROVE  d.coll \in Named /\ Queried(d, since)
        <5>1. CASE d \notin db
          <6>1. Pruned(d, i - 1)
            BY <3>1, <5>1
          <6>. QED
            BY <3>1, <6>1, NoArgAssumption DEF Pruned, Named
        <5>2. CASE d \in gone
          BY <3>1, <3>3, <4>1, <5>2, NoArgAssumption DEF Selected, Named
        <5>. QED
          BY <4>1, <5>1, <5>2
      <4>. QED
        BY <3>1, <3>3, <4>2, <4>3 DEF Crash, Contract!Next, Contract!Interrupted,
           Contract!Doomed, Named
    <3>4. CASE ~(i <= Len(colls))
      <4>1. i = Len(colls) + 1 /\ db = {d \in Docs : ~Pruned(d, Len(colls))}
        BY <3>1, <3>4
      <4>2. db = {d \in Docs : ~(d.coll \in Named /\ Queried(d, since))}
        BY <3>1, <4>1, PrunedAll
      <4>3. pc' = "rmtree" /\ UNCHANGED <<db, status>>
        BY <2>2, <3>4 DEF DeleteOne, DeleteStep
      <4>. QED
        BY <3>1, <4>2, <4>3 DEF Contract!Next, Contract!Truncate, Contract!Doomed, Named
    <3>. QED
      BY <2>2, <3>1, <3>2, <3>3, <3>4 DEF DeleteOne, DeleteStep
  <2>3. CASE ResetFtp
    <3>1. pc = "rmtree" /\ pc' = "done" /\ status = "running" /\ UNCHANGED <<colls, since, db>>
      BY <2>3 DEF ResetFtp, CleanerInv
    <3>2. ftp' \in {"empty", "partial"} /\ status' \in {"ok", "crashed"}
          /\ (status' = "ok" => ftp' = "empty")
      BY <2>3 DEF ResetFtp
    <3>. QED
      BY <3>1, <3>2 DEF Contract!Next, Contract!Recreate, Named
  <2>4. CASE UNCHANGED vars
    BY <2>4 DEF vars, Contract!cvars, Named
  <2>. QED
    BY <2>1, <2>2, <2>3, <2>4 DEF Next
<1>. QED
  BY <1>1, <1>2, CleanerInvariant, PTL DEF Spec, Contract!Safety
=============================================================================
