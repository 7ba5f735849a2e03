------------------------- MODULE FixtureScopesProofs -------------------------
(***************************************************************************)
(* Proofs about FixtureScopes for every decorator stack.                   *)
(*                                                                         *)
(* FailureReported holds because every step that raises sets `failed` and  *)
(* an exception together, and no `finally` of the three decorators ever    *)
(* clears the exception in flight.                                         *)
(*                                                                         *)
(* ClientsReleased, SessionsReleased and NoResidue rest on a stack        *)
(* discipline: every open client or session, and every seeded or          *)
(* test-written collection, belongs to a layer that has reached its `try`  *)
(* (a position 1..depth), and unwinding a layer releases what belongs to   *)
(* it.  `depth` is 0 when the call is over, so nothing is left.  Each      *)
(* needs only the reliability its leak depends on: clients and residue     *)
(* that Mongo calls succeed, sessions that login succeeds.  NoResidue also *)
(* needs every collection the body writes to be named by some layer.      *)
(***************************************************************************)
EXTENDS FixtureScopes, TLAPS

USE LayersAssumption, BodyWritesAssumption, FlagsAssumption

\* Every exception that was raised is still propagating.
ExcTracked == failed <=> exc # "none"

LEMMA InitExcTracked == Init => ExcTracked
BY DEF Init, ExcTracked

LEMMA NextExcTracked == ExcTracked /\ [Next]_vars => ExcTracked'
<1> SUFFICES ASSUME ExcTracked, [Next]_vars PROVE ExcTracked'
  OBVIOUS
<1>1. CASE Enter
  BY <1>1 DEF Enter, EnterAuthenticate, EnterClean, EnterInsert, Throw, ExcTracked
<1>2. CASE Body
  BY <1>2 DEF Body, Throw, ExcTracked
<1>3. CASE Exit
  BY <1>3 DEF Exit, ExitAuthenticate, ExitClean, ExitInsert, ExcTracked
<1>4. CASE Finish \/ UNCHANGED vars
  BY <1>4 DEF Finish, vars, ExcTracked
<1>. QED
  BY <1>1, <1>2, <1>3, <1>4 DEF Next

\* For every stack: a call in which anything raised reaches unittest as an
\* error or failure, and one in which nothing raised as a success.
THEOREM FixturesFailureReported == Spec => []FailureReported
<1>1. ExcTracked => FailureReported
  BY DEF ExcTracked, FailureReported
<1>. QED
  BY InitExcTracked, NextExcTracked, <1>1, PTL DEF Spec
-----------------------------------------------------------------------------
(* The stack discipline.                                                   *)

\* The layer at position k has the shape its decorator gives it.
LEMMA LayerShape ==
    ASSUME NEW k \in 1..N
    PROVE  /\ Layers[k].kind \in {"authenticate", "clean_collections_after",
                                  "insert_collection_data"}
           /\ Layers[k].kind = "authenticate" => CollsOf(k) = {}
           /\ Layers[k].kind = "insert_collection_data" =>
                CollsOf(k) = {Layers[k].colls[1]} /\ Layers[k].colls[1] \in Collections
<1>1. Layers[k] \in LayerRecords
  BY DEF N
<1>. QED
  BY <1>1 DEF LayerRecords, CollsOf

\* The call moves through set-up, unwinding and return; only the layers
\* 1..depth are inside their `try`, and none is when the call is over.
StackShape ==
    /\ depth \in 0..N
    /\ phase \in {"enter", "exit", "done"}
    /\ phase = "done" => depth = 0

LEMMA InitStackShape == Init => StackShape
BY DEF Init, StackShape, N

LEMMA NextStackShape == StackShape /\ [Next]_vars => StackShape'
<1> SUFFICES ASSUME StackShape, [Next]_vars PROVE StackShape'
  OBVIOUS
<1>0. N \in Nat
  BY DEF N
<1>1. CASE Enter
  BY <1>0, <1>1 DEF Enter, EnterAuthenticate, EnterClean, EnterInsert, Throw, StackShape
<1>2. CASE Body
  BY <1>2 DEF Body, Throw, StackShape
<1>3. CASE Exit
  BY <1>0, <1>3 DEF Exit, StackShape
<1>4. CASE Finish \/ UNCHANGED vars
  BY <1>4 DEF Finish, vars, StackShape
<1>. QED
  BY <1>1, <1>2, <1>3, <1>4 DEF Next

\* The layer at the top of the stack when a step is taken.
LEMMA EnterShape ==
    ASSUME StackShape, Enter
    PROVE  /\ phase = "enter" /\ depth + 1 \in 1..N
           /\ \/ EnterAuthenticate(depth + 1)
              \/ EnterClean(depth + 1)
              \/ EnterInsert(depth + 1)
BY DEF Enter, StackShape, N

LEMMA ExitShape ==
    ASSUME StackShape, Exit
    PROVE  /\ phase = "exit" /\ depth \in 1..N /\ depth' = depth - 1 /\ phase' = phase
           /\ \/ ExitAuthenticate(depth)
              \/ ExitClean(depth)
              \/ ExitInsert(depth)
BY DEF Exit, StackShape
-----------------------------------------------------------------------------
(* Clients.  Every open MongoClient belongs to a clean_collections_after   *)
(* or insert_collection_data layer inside its `try`.  It needs reliable    *)
(* Mongo calls: a failed insert_many leaves the client of a layer that     *)
(* never reaches its `try`, and a failed delete_many skips client.close(). *)

ClientsOwned == clients \subseteq {k \in 1..depth : Layers[k].kind # "authenticate"}

LEMMA NextClientsOwned ==
    ASSUME ~MongoMayFail
    PROVE  StackShape /\ ClientsOwned /\ [Next]_vars => ClientsOwned'
<1> SUFFICES ASSUME StackShape, ClientsOwned, [Next]_vars PROVE ClientsOwned'
  OBVIOUS
<1>0. N \in Nat /\ depth \in 0..N
  BY DEF N, StackShape
<1>1. CASE Enter
  <2> DEFINE i == depth + 1
  <2>1. phase = "enter" /\ i \in 1..N
    BY <1>0, <1>1, EnterShape
  <2>2. CASE EnterAuthenticate(i)
    BY <1>0, <2>1, <2>2, LayerShape DEF EnterAuthenticate, Throw, ClientsOwned
  <2>3. CASE EnterClean(i)
    BY <1>0, <2>1, <2>3, LayerShape DEF EnterClean, ClientsOwned
  <2>4. CASE EnterInsert(i)
    BY <1>0, <2>1, <2>4, LayerShape DEF EnterInsert, ClientsOwned
  <2>. QED
    BY <1>0, <1>1, <2>2, <2>3, <2>4, EnterShape
<1>2. CASE Body
  BY <1>0, <1>2 DEF Body, Throw, ClientsOwned
<1>3. CASE Exit
  <2> DEFINE d == depth
  <2>1. d \in 1..N /\ depth' = d - 1
    BY <1>0, <1>3, ExitShape
  <2>2. clients \subseteq {k \in 1..d : Layers[k].kind # "authenticate"}
    BY <1>0 DEF ClientsOwned
  <2>3. CASE ExitAuthenticate(d)
    BY <1>0, <2>1, <2>2, <2>3 DEF ExitAuthenticate, ClientsOwned
  <2>4. CASE ExitClean(d)
    <3>1. clients' = clients \ {d}
      BY <2>4 DEF ExitClean
    <3>2. ASSUME NEW k \in clients'
          PROVE  k \in 1..(d - 1) /\ Layers[k].kind # "authenticate"
      <4>1. k \in clients /\ k # d
        BY <3>1
      <4>2. k \in 1..d /\ Layers[k].kind # "authenticate"
        BY <2>2, <4>1
      <4>. QED
        BY <1>0, <2>1, <4>1, <4>2
    <3>. QED
      BY <2>1, <3>2 DEF ClientsOwned
  <2>5. CASE ExitInsert(d)
    <3>1. clients' = clients \ {d}
      BY <2>5 DEF ExitInsert
    <3>2. ASSUME NEW k \in clients'
          PROVE  k \in 1..(d - 1) /\ Layers[k].kind # "authenticate"
      <4>1. k \in clients /\ k # d
        BY <3>1
      <4>2. k \in 1..d /\ Layers[k].kind # "authenticate"
        BY <2>2, <4>1
      <4>. QED
        BY <1>0, <2>1, <4>1, <4>2
    <3>. QED
      BY <2>1, <3>2 DEF ClientsOwned
  <2>. QED
    BY <1>0, <1>3, <2>3, <2>4, <2>5, ExitShape
<1>4. CASE Finish \/ UNCHANGED vars
  BY <1>0, <1>4 DEF Finish, vars, ClientsOwned
<1>. QED
  BY <1>1, <1>2, <1>3, <1>4 DEF Next

\* With Mongo reliable, every MongoClient the decorators open is closed by
\* the time the call returns to unittest, for every stack and whatever the
\* body writes, whether login, the body or nothing at all fails.
THEOREM FixturesClientsReleased ==
    ASSUME ~MongoMayFail
    PROVE  Spec => []ClientsReleased
<1>1. Init => StackShape /\ ClientsOwned
  BY InitStackShape DEF Init, ClientsOwned
<1>2. StackShape /\ ClientsOwned /\ [Next]_vars => (StackShape /\ ClientsOwned)'
  BY NextStackShape, NextClientsOwned
<1>3. StackShape /\ ClientsOwned => ClientsReleased
  BY DEF StackShape, ClientsOwned, ClientsReleased
<1>. QED
  BY <1>1, <1>2, <1>3, PTL DEF Spec
-----------------------------------------------------------------------------
(* Sessions.  Every open Session belongs to an authenticate layer inside   *)
(* its `try`.  It needs only that login succeeds: Mongo failures raise in  *)
(* other layers and never skip a session.close().                          *)

SessionsOwned == sessions \subseteq {k \in 1..depth : Layers[k].kind = "authenticate"}

LEMMA NextSessionsOwned ==
    ASSUME ~LoginMayFail
    PROVE  StackShape /\ SessionsOwned /\ [Next]_vars => SessionsOwned'
<1> SUFFICES ASSUME StackShape, SessionsOwned, [Next]_vars PROVE SessionsOwned'
  OBVIOUS
<1>0. N \in Nat /\ depth \in 0..N
  BY DEF N, StackShape
<1>1. CASE Enter
  <2> DEFINE i == depth + 1
  <2>1. phase = "enter" /\ i \in 1..N
    BY <1>0, <1>1, EnterShape
  <2>2. CASE EnterAuthenticate(i)
    <3>1. sessions' = sessions \cup {i} /\ depth' = i /\ Layers[i].kind = "authenticate"
      BY <2>2 DEF EnterAuthenticate
    <3>. QED
      BY <1>0, <2>1, <3>1 DEF SessionsOwned
  <2>3. CASE EnterClean(i)
    BY <1>0, <2>1, <2>3 DEF EnterClean, SessionsOwned
  <2>4. CASE EnterInsert(i)
    BY <1>0, <2>1, <2>4 DEF EnterInsert, Throw, SessionsOwned
  <2>. QED
    BY <1>0, <1>1, <2>2, <2>3, <2>4, EnterShape
<1>2. CASE Body
  BY <1>0, <1>2 DEF Body, Throw, SessionsOwned
<1>3. CASE Exit
  <2> DEFINE d == depth
  <2>1. d \in 1..N /\ depth' = d - 1
    BY <1>0, <1>3, ExitShape
  <2>2. sessions \subseteq {k \in 1..d : Layers[k].kind = "authenticate"}
    BY <1>0 DEF SessionsOwned
  <2>3. CASE ExitAuthenticate(d)
    BY <1>0, <2>1, <2>2, <2>3 DEF ExitAuthenticate, SessionsOwned
  <2>4. CASE ExitClean(d)
    BY <1>0, <2>1, <2>2, <2>4 DEF ExitClean, SessionsOwned
  <2>5. CASE ExitInsert(d)
    BY <1>0, <2>1, <2>2, <2>5 DEF ExitInsert, SessionsOwned
  <2>. QED
    BY <1>0, <1>3, <2>3, <2>4, <2>5, ExitShape
<1>4. CASE Finish \/ UNCHANGED vars
  BY <1>0, <1>4 DEF Finish, vars, SessionsOwned
<1>. QED
  BY <1>1, <1>2, <1>3, <1>4 DEF Next

\* When login succeeds, every requests Session authenticate opened is
\* closed when the call returns, for every stack, even with every Mongo
\* call fallible: the leak of multicast_session_leak has no other cause
\* than a login refused before the `try`.
THEOREM FixturesSessionsReleased ==
    ASSUME ~LoginMayFail
    PROVE  Spec => []SessionsReleased
<1>1. Init => StackShape /\ SessionsOwned
  BY InitStackShape DEF Init, SessionsOwned
<1>2. StackShape /\ SessionsOwned /\ [Next]_vars => (StackShape /\ SessionsOwned)'
  BY NextStackShape, NextSessionsOwned
<1>3. StackShape /\ SessionsOwned => SessionsReleased
  BY DEF StackShape, SessionsOwned, SessionsReleased
<1>. QED
  BY <1>1, <1>2, <1>3, PTL DEF Spec
-----------------------------------------------------------------------------
(* Residue.  Every collection holding seeded or test-written documents is  *)
(* named by a layer inside its `try`, whose `finally` will clear it.       *)

\* Every collection the body writes is named by a layer of the stack.
BodyCovered == \A c \in BodyWrites : \E k \in 1..N : c \in CollsOf(k)

Residue ==
    /\ db \in [Collections -> SUBSET Tags]
    /\ \A c \in Collections :
         db[c] \cap {"seed", "test"} # {} => \E k \in 1..depth : c \in CollsOf(k)

LEMMA InitResidue == Init => Residue
BY DEF Init, Residue, Tags

LEMMA NextResidue ==
    ASSUME ~MongoMayFail, BodyCovered
    PROVE  StackShape /\ Residue /\ [Next]_vars => Residue'
<1> SUFFICES ASSUME StackShape, Residue, [Next]_vars PROVE Residue'
  OBVIOUS
<1>0. N \in Nat /\ depth \in 0..N
  BY DEF N, StackShape
<1>1. CASE Enter
  <2> DEFINE i == depth + 1
  <2>1. phase = "enter" /\ i \in 1..N
    BY <1>0, <1>1, EnterShape
  <2>2. CASE EnterAuthenticate(i)
    BY <1>0, <2>1, <2>2 DEF EnterAuthenticate, Throw, Residue
  <2>3. CASE EnterClean(i)
    BY <1>0, <2>1, <2>3 DEF EnterClean, Residue
  <2>4. CASE EnterInsert(i)
    <3> DEFINE c == Layers[i].colls[1]
    <3>1. CollsOf(i) = {c} /\ c \in Collections
      BY <1>0, <2>1, <2>4, LayerShape DEF EnterInsert
    <3>2. db' = [db EXCEPT ![c] = {"seed"}] /\ depth' = i
      BY <1>0, <2>4 DEF EnterInsert
    <3>. QED
      BY <1>0, <2>1, <3>1, <3>2 DEF Residue, Tags
  <2>. QED
    BY <1>0, <1>1, <2>2, <2>3, <2>4, EnterShape
<1>2. CASE Body
  <2>1. depth = N /\ UNCHANGED depth
    BY <1>0, <1>2 DEF Body
  <2>2. PICK w \in SUBSET BodyWrites :
          db' = [c \in Collections |-> IF c \in w THEN db[c] \cup {"test"} ELSE db[c]]
    BY <1>0, <1>2 DEF Body
  <2>. QED
    BY <1>0, <2>1, <2>2 DEF Residue, BodyCovered, Tags
<1>3. CASE Exit
  <2> DEFINE d == depth
  <2>1. d \in 1..N /\ depth' = d - 1
    BY <1>0, <1>3, ExitShape
  \* Unwinding the top layer releases only what belongs to it.
  <2>2. ASSUME db' \in [Collections -> SUBSET Tags],
               \A c \in Collections : db'[c] \cap {"seed", "test"} # {} =>
                   db[c] \cap {"seed", "test"} # {} /\ c \notin CollsOf(d)
        PROVE  Residue'
    <3>1. ASSUME NEW c \in Collections, db'[c] \cap {"seed", "test"} # {}
          PROVE  \E k \in 1..depth' : c \in CollsOf(k)
      <4>1. db[c] \cap {"seed", "test"} # {} /\ c \notin CollsOf(d)
        BY <1>0, <2>2, <3>1
      <4>2. PICK k \in 1..d : c \in CollsOf(k)
        BY <1>0, <4>1 DEF Residue
      <4>3. k # d
        BY <1>0, <4>1, <4>2
      <4>. QED
        BY <1>0, <2>1, <4>2, <4>3
    <3>. QED
      BY <1>0, <2>2, <3>1 DEF Residue
  <2>3. CASE ExitAuthenticate(d)
    <3>1. CollsOf(d) = {}
      BY <1>0, <2>1, <2>3, LayerShape DEF ExitAuthenticate
    <3>2. UNCHANGED db
      BY <1>0, <2>3 DEF ExitAuthenticate
    <3>. QED
      BY <1>0, <2>2, <3>1, <3>2 DEF Residue
  <2>4. CASE ExitClean(d)
    <3>1. db' = Cleared(CollsOf(d))
      BY <1>0, <2>4 DEF ExitClean
    <3>2. \A c \in Collections : db'[c] = IF c \in CollsOf(d) THEN {} ELSE db[c]
      BY <1>0, <3>1 DEF Cleared
    <3>. QED
      BY <1>0, <2>2, <3>1, <3>2 DEF Residue, Cleared
  <2>5. CASE ExitInsert(d)
    <3>1. CollsOf(d) = {Layers[d].colls[1]}
      BY <1>0, <2>1, <2>5, LayerShape DEF ExitInsert
    <3>2. db' = Cleared(CollsOf(d))
      BY <1>0, <2>5, <3>1 DEF ExitInsert
    <3>3. \A c \in Collections : db'[c] = IF c \in CollsOf(d) THEN {} ELSE db[c]
      BY <1>0, <3>2 DEF Cleared
    <3>. QED
      BY <1>0, <2>2, <3>2, <3>3 DEF Residue, Cleared
  <2>. QED
    BY <1>0, <1>3, <2>3, <2>4, <2>5, ExitShape
<1>4. CASE Finish \/ UNCHANGED vars
  BY <1>0, <1>4 DEF Finish, vars, Residue
<1>. QED
  BY <1>1, <1>2, <1>3, <1>4 DEF Next

\* With Mongo reliable, and every collection the body writes named by some
\* layer, nothing a test seeded or wrote is left once the call is over.
THEOREM FixturesNoResidue ==
    ASSUME ~MongoMayFail, BodyCovered
    PROVE  Spec => []NoResidue
<1>1. Init => StackShape /\ Residue
  BY InitStackShape, InitResidue
<1>2. StackShape /\ Residue /\ [Next]_vars => (StackShape /\ Residue)'
  BY NextStackShape, NextResidue
<1>3. StackShape /\ Residue => NoResidue
  BY DEF StackShape, Residue, NoResidue
<1>. QED
  BY <1>1, <1>2, <1>3, PTL DEF Spec
=============================================================================
