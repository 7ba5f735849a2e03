---------------------- MODULE TransmissionHarnessProofs ----------------------
(***************************************************************************)
(* Proofs about TransmissionHarness for every value of its constants.      *)
(*                                                                         *)
(* TypeOK is not inductive by itself: a Receive step increments            *)
(* transmissionCount, which stays within 0..Expected only because the loop *)
(* enters recv() when fewer than Expected updates were counted.  IInv adds *)
(* that fact to TypeOK.                                                    *)
(***************************************************************************)
EXTENDS TransmissionHarness, FiniteSetTheorems, TLAPS

\* The strengthening: a pending recv() was started with room for one more
\* transmission update.
RecvHasRoom == pc = "Recv" => transmissionCount < Expected

IInv == TypeOK /\ RecvHasRoom

USE ExpectedAssumption, DeadlineAssumption, RecvTimeoutAssumption,
    MaxSendsAssumption, FlagAssumption

LEMMA InitIInv == Init => IInv
BY DEF Init, IInv, TypeOK, RecvHasRoom, Verdicts

\* Every verdict the harness can raise is one of Verdicts, and every
\* verdict maps to an outcome.
LEMMA FinalVerdictType == FinalVerdict \in Verdicts
BY DEF FinalVerdict, Verdicts

LEMMA OutcomeType == \A v \in Verdicts : OutcomeOf(v) \in {"none", "pass", "fail", "error"}
BY DEF OutcomeOf

LEMMA NextIInv == IInv /\ [Next]_vars => IInv'
<1> SUFFICES ASSUME IInv, [Next]_vars PROVE IInv'
  OBVIOUS
<1>. USE DEF IInv, TypeOK, RecvHasRoom
<1>1. CASE Setup
  BY <1>1 DEF Setup
<1>2. CASE Connect
  BY <1>2 DEF Connect, Raise, Verdicts
<1>3. CASE Post
  BY <1>3 DEF Post, Raise, Verdicts
<1>4. CASE Loop
  BY <1>4, FinalVerdictType DEF Loop, Raise
<1>5. CASE Receive
  <2>1. chan # <<>> /\ pc = "Recv"
    BY <1>5 DEF Receive
  <2>2. Head(chan) \in Envelopes /\ Tail(chan) \in Seq(Envelopes)
    BY <2>1
  <2>3. transmissionCount + 1 \in 0..Expected
    BY <2>1
  <2>4. received' = Append(received, Head(chan)) /\ chan' = Tail(chan)
    BY <1>5 DEF Receive
  <2>5. pc' \in {"Loop", "Unwind"} /\ verdict' \in Verdicts
    BY <1>5 DEF Receive, Raise, Verdicts
  <2>6. transmissionCount' \in {transmissionCount, transmissionCount + 1}
    BY <1>5 DEF Receive, Raise
  <2>7. incidentUpdateCount' \in {incidentUpdateCount, incidentUpdateCount + 1}
    BY <1>5 DEF Receive, Raise
  <2>8. UNCHANGED <<siteOk, ws, sends, now, recvStart, multicastId, outcome>>
    BY <1>5 DEF Receive
  <2>. QED
    BY <2>2, <2>3, <2>4, <2>5, <2>6, <2>7, <2>8
<1>6. CASE RecvTimedOut
  BY <1>6 DEF RecvTimedOut, Raise, Verdicts
<1>7. CASE RecvDropped
  BY <1>7 DEF RecvDropped, Raise, Verdicts
<1>8. CASE Unwind
  BY <1>8, OutcomeType DEF Unwind
<1>9. CASE \E e \in Envelopes : ServerSend(e)
  BY <1>9 DEF ServerSend
<1>10. CASE ServerDrop
  BY <1>10 DEF ServerDrop
<1>11. CASE Tick
  BY <1>11 DEF Tick
<1>12. CASE UNCHANGED vars
  BY <1>12 DEF vars
<1>. QED
  BY <1>1, <1>2, <1>3, <1>4, <1>5, <1>6, <1>7, <1>8, <1>9, <1>10, <1>11, <1>12
     DEF Next, Harness

\* Type correctness of the harness: every reachable state has the types of
\* TypeOK; in particular the loop never counts more transmission updates
\* than expected_transmission_count.
THEOREM TypeCorrect == Spec => []TypeOK
<1>1. Init => IInv
  BY InitIInv
<1>2. IInv /\ [Next]_vars => IInv'
  BY NextIInv
<1>3. IInv => TypeOK
  BY DEF IInv
<1>. QED
  BY <1>1, <1>2, <1>3, PTL DEF Spec
-----------------------------------------------------------------------------
(* No cross-talk.  The loop counts a frame exactly when it is an update of *)
(* the multicast whose id the POST returned; that id is fixed from the     *)
(* moment the loop starts, and every received frame is appended to the     *)
(* history once, so the count follows the number of matching positions.   *)

\* The positions of a frame sequence that hold the multicast's updates.
Own(t) == {i \in 1..Len(t) : OwnUpdate(t[i])}

LEMMA OwnFinite ==
    ASSUME NEW t \in Seq(Envelopes)
    PROVE  IsFiniteSet(Own(t))
<1>1. IsFiniteSet(1..Len(t))
  BY FS_Interval
<1>2. Own(t) \subseteq 1..Len(t)
  BY DEF Own
<1>. QED
  BY <1>1, <1>2, FS_Subset

\* Appending a frame adds one matching position exactly when the frame is
\* an update of the multicast.
LEMMA OwnAppend ==
    ASSUME NEW t \in Seq(Envelopes), NEW e \in Envelopes
    PROVE  Cardinality(Own(Append(t, e))) =
             IF OwnUpdate(e) THEN Cardinality(Own(t)) + 1 ELSE Cardinality(Own(t))
<1>1. Own(Append(t, e)) = IF OwnUpdate(e) THEN Own(t) \cup {Len(t) + 1} ELSE Own(t)
  BY DEF Own
<1>2. Len(t) + 1 \notin Own(t)
  BY DEF Own
<1>. QED
  BY <1>1, <1>2, OwnFinite, FS_AddElement

\* From the POST on, the harness compares parentIds with the multicast's id.
HasMulticastId == pc \in {"Loop", "Recv"} => multicastId = MulticastId

\* The count the loop keeps is the number of own updates received.
CountMatched == transmissionCount = Cardinality(OwnPositions)

CInv == IInv /\ HasMulticastId /\ CountMatched

LEMMA InitCInv == Init => CInv
<1>1. Own(<<>>) = {}
  BY DEF Own
<1>. QED
  BY InitIInv, <1>1, FS_EmptySet DEF Init, CInv, HasMulticastId, CountMatched, OwnPositions, Own

LEMMA NextCInv == CInv /\ [Next]_vars => CInv'
<1> SUFFICES ASSUME CInv, [Next]_vars PROVE CInv'
  OBVIOUS
<1>1. IInv'
  BY NextIInv DEF CInv
<1>2. HasMulticastId'
  BY DEF CInv, HasMulticastId, Next, Harness, Setup, Connect, Post, Loop, Receive,
         RecvTimedOut, RecvDropped, Unwind, ServerSend, ServerDrop, Tick, Raise, vars
<1>3. CountMatched'
  <2>1. OwnPositions = Own(received) /\ OwnPositions' = Own(received')
    BY DEF OwnPositions, Own
  <2>2. CASE Receive
    <3>1. pc = "Recv" /\ chan # <<>> /\ multicastId = MulticastId
      BY <2>2 DEF Receive, CInv, HasMulticastId
    <3>. DEFINE e == Head(chan)
    <3>2. e \in Envelopes /\ received \in Seq(Envelopes)
      BY <3>1 DEF CInv, IInv, TypeOK
    <3>3. received' = Append(received, e)
      BY <2>2 DEF Receive
    <3>4. transmissionCount' = IF OwnUpdate(e) THEN transmissionCount + 1
                                                ELSE transmissionCount
      BY <2>2, <3>1 DEF Receive, Raise, OwnUpdate, IsTransmissionUpdate, TxType, Malformed
    <3>. QED
      BY <2>1, <3>2, <3>3, <3>4, OwnAppend DEF CInv, CountMatched
  <2>3. CASE ~Receive
    <3>1. UNCHANGED <<transmissionCount, received>>
      BY <2>3 DEF Next, Harness, Setup, Connect, Post, Loop, RecvTimedOut, RecvDropped,
                  Unwind, ServerSend, ServerDrop, Tick, Raise, vars
    <3>. QED
      BY <2>1, <3>1 DEF CInv, CountMatched
  <2>. QED
    BY <2>2, <2>3
<1>. QED
  BY <1>1, <1>2, <1>3 DEF CInv

-----------------------------------------------------------------------------
(* Success is sound.  Every own update the loop has received so far passed *)
(* the assertions for its rank, as long as no assertion has failed; the    *)
(* verdict is still open while the loop runs; Success is raised only by    *)
(* the assertions after the loop, with the count at Expected and, where it *)
(* is checked, the entity count at one.                                    *)

\* Until the `async with` body is left, no verdict has been raised.
VerdictOpen == pc \in {"Setup", "Connect", "Post", "Loop", "Recv"} => verdict = "None"

\* Every own update received passed the checks of the n-th update, n its rank.
ChecksPassed ==
    verdict \in {"None", "Success"} =>
        \A p \in OwnPositions : TransmissionChecks(Rank(p), received[p])

\* The entity counter follows the received entity updates.
EntityCounted ==
    verdict \in {"None", "Success"} => incidentUpdateCount = Cardinality(EntityPositions)

\* Success is the verdict of the final assertions.
SuccessFinal ==
    verdict = "Success" => transmissionCount = Expected /\ (CheckEntity => incidentUpdateCount = 1)

SInv == CInv /\ VerdictOpen /\ ChecksPassed /\ EntityCounted /\ SuccessFinal

\* The rank of position p among the own positions of t.
Rk(t, p) == Cardinality({q \in Own(t) : q <= p})

\* The positions of a frame sequence that hold updates of the test's entity.
Ents(t) == {i \in 1..Len(t) : IsEntityUpdate(t[i])}

\* Appending a frame adds its position to the own positions exactly when it
\* is an own update.
LEMMA OwnAppendSet ==
    ASSUME NEW t \in Seq(Envelopes), NEW e \in Envelopes
    PROVE  Own(Append(t, e)) = IF OwnUpdate(e) THEN Own(t) \cup {Len(t) + 1} ELSE Own(t)
BY DEF Own

\* Appending a frame leaves the rank of every earlier own position alone.
LEMMA RankAppendOld ==
    ASSUME NEW t \in Seq(Envelopes), NEW e \in Envelopes, NEW p \in Own(t)
    PROVE  /\ p \in Own(Append(t, e))
           /\ Append(t, e)[p] = t[p]
           /\ Rk(Append(t, e), p) = Rk(t, p)
<1>1. p \in 1..Len(t)
  BY DEF Own
<1>2. {q \in Own(Append(t, e)) : q <= p} = {q \in Own(t) : q <= p}
  BY <1>1, OwnAppendSet
<1>3. p \in Own(Append(t, e))
  BY OwnAppendSet
<1>4. Append(t, e)[p] = t[p]
  BY <1>1
<1>5. Rk(Append(t, e), p) = Rk(t, p)
  BY <1>2 DEF Rk
<1>. QED
  BY <1>3, <1>4, <1>5

\* An own update appended to t has the rank one more than the own updates
\* of t.
LEMMA RankAppendNew ==
    ASSUME NEW t \in Seq(Envelopes), NEW e \in Envelopes, OwnUpdate(e)
    PROVE  /\ Len(t) + 1 \in Own(Append(t, e))
           /\ Rk(Append(t, e), Len(t) + 1) = Cardinality(Own(t)) + 1
<1>1. {q \in Own(Append(t, e)) : q <= Len(t) + 1} = Own(Append(t, e))
  BY DEF Own
<1>. QED
  BY <1>1, OwnAppendSet, OwnAppend DEF Rk

\* Appending a frame adds one entity position exactly when the frame is an
\* update of the test's entity.
LEMMA EntsAppend ==
    ASSUME NEW t \in Seq(Envelopes), NEW e \in Envelopes
    PROVE  Cardinality(Ents(Append(t, e))) =
             IF IsEntityUpdate(e) THEN Cardinality(Ents(t)) + 1 ELSE Cardinality(Ents(t))
<1>1. Ents(Append(t, e)) = IF IsEntityUpdate(e) THEN Ents(t) \cup {Len(t) + 1} ELSE Ents(t)
  BY DEF Ents
<1>2. Len(t) + 1 \notin Ents(t)
  BY DEF Ents
<1>3. IsFiniteSet(Ents(t))
  <2>1. IsFiniteSet(1..Len(t))
    BY FS_Interval
  <2>. QED
    BY <2>1, FS_Subset DEF Ents
<1>. QED
  BY <1>1, <1>2, <1>3, FS_AddElement
LEMMA InitSInv == Init => SInv
<1> SUFFICES ASSUME Init PROVE SInv
  OBVIOUS
<1>1. OwnPositions = {} /\ EntityPositions = {}
  BY DEF Init, OwnPositions, EntityPositions
<1>. QED
  BY <1>1, InitCInv, FS_EmptySet
     DEF Init, SInv, VerdictOpen, ChecksPassed, EntityCounted, SuccessFinal

\* The harness steps other than Receive leave the history and the entity
\* counter alone, and never open a verdict that was raised.
LEMMA NotReceive ==
    ASSUME SInv, [Next]_vars, ~Receive
    PROVE  /\ UNCHANGED <<received, incidentUpdateCount>>
           /\ verdict' \in {"None", "Success"} => verdict \in {"None", "Success"}
BY DEF Next, Harness, Setup, Connect, Post, Loop, RecvTimedOut, RecvDropped, Unwind,
       ServerSend, ServerDrop, Tick, Raise, vars, SInv, VerdictOpen

LEMMA NextSInv == SInv /\ [Next]_vars => SInv'
<1> SUFFICES ASSUME SInv, [Next]_vars PROVE SInv'
  OBVIOUS
<1>1. CInv'
  BY NextCInv DEF SInv
<1>2. VerdictOpen'
  BY DEF SInv, VerdictOpen, Next, Harness, Setup, Connect, Post, Loop, Receive,
         RecvTimedOut, RecvDropped, Unwind, ServerSend, ServerDrop, Tick, Raise, vars
<1>3. SuccessFinal'
  <2>1. CASE Loop
    BY <2>1 DEF Loop, Raise, FinalVerdict, SInv, SuccessFinal, VerdictOpen
  <2>2. CASE Receive
    <3>1. verdict = "None"
      BY <2>2 DEF Receive, SInv, VerdictOpen
    <3>2. verdict' \in {verdict, "StateMismatch", "DecodeError"}
      BY <2>2 DEF Receive, Raise
    <3>. QED
      BY <3>1, <3>2 DEF SuccessFinal
  <2>3. CASE ~Loop /\ ~Receive
    BY <2>3 DEF Next, Harness, Setup, Connect, Post, RecvTimedOut, RecvDropped, Unwind,
                ServerSend, ServerDrop, Tick, Raise, vars, SInv, SuccessFinal
  <2>. QED
    BY <2>1, <2>2, <2>3
<1>4. CASE ~Receive
  <2>1. UNCHANGED <<received, incidentUpdateCount>>
        /\ (verdict' \in {"None", "Success"} => verdict \in {"None", "Success"})
    BY <1>4, NotReceive
  <2>2. ChecksPassed'
    BY <2>1 DEF SInv, ChecksPassed, OwnPositions, Rank
  <2>3. EntityCounted'
    BY <2>1 DEF SInv, EntityCounted, EntityPositions
  <2>. QED
    BY <1>1, <1>2, <1>3, <2>2, <2>3 DEF SInv
<1>5. CASE Receive
  <2> DEFINE e == Head(chan)
             n == transmissionCount + 1
  <2>1. pc = "Recv" /\ chan # <<>> /\ verdict = "None" /\ multicastId = MulticastId
    BY <1>5 DEF Receive, SInv, VerdictOpen, CInv, HasMulticastId
  <2>2. e \in Envelopes /\ received \in Seq(Envelopes)
    BY <2>1 DEF SInv, CInv, IInv, TypeOK
  <2>3. received' = Append(received, e)
    BY <1>5 DEF Receive
  <2>4. OwnPositions = Own(received) /\ OwnPositions' = Own(received')
        /\ EntityPositions = Ents(received) /\ EntityPositions' = Ents(received')
    BY DEF OwnPositions, Own, EntityPositions, Ents
  <2>5. \A p : Rank(p) = Rk(received, p) /\ Rank(p)' = Rk(received', p)
    BY <2>4 DEF Rank, Rk
  <2>6. \A p \in OwnPositions : TransmissionChecks(Rank(p), received[p])
    BY <2>1 DEF SInv, ChecksPassed
  <2>7. incidentUpdateCount = Cardinality(EntityPositions)
        /\ transmissionCount = Cardinality(OwnPositions)
    BY <2>1 DEF SInv, EntityCounted, CInv, CountMatched
  <2>8. CASE e.type = Malformed
    <3>1. verdict' = "DecodeError"
      BY <1>5, <2>8 DEF Receive, Raise
    <3>. QED
      BY <1>1, <1>2, <1>3, <3>1 DEF SInv, ChecksPassed, EntityCounted
  <2>9. CASE e.type # Malformed
    <3>1. incidentUpdateCount' = IF IsEntityUpdate(e) THEN incidentUpdateCount + 1
                                                        ELSE incidentUpdateCount
      BY <1>5, <2>9 DEF Receive
    <3>2. EntityCounted'
      BY <2>2, <2>3, <2>4, <2>7, <3>1, EntsAppend DEF EntityCounted
    <3>3. IsTransmissionUpdate(e) <=> OwnUpdate(e)
      BY <2>1 DEF IsTransmissionUpdate, OwnUpdate
    <3>4. CASE OwnUpdate(e) /\ TransmissionChecks(n, e)
      <4>1. verdict' = "None"
        BY <1>5, <2>1, <2>9, <3>3, <3>4 DEF Receive
      <4>2. ASSUME NEW p \in OwnPositions'
            PROVE  TransmissionChecks(Rank(p)', received'[p])
        <5>1. CASE p \in Own(received)
          BY <2>2, <2>3, <2>4, <2>5, <2>6, <5>1, RankAppendOld
        <5>2. CASE p \notin Own(received)
          <6>1. p = Len(received) + 1
            BY <2>2, <2>3, <2>4, <3>4, <5>2, OwnAppendSet
          <6>2. Rank(p)' = n /\ received'[p] = e
            BY <2>2, <2>3, <2>5, <2>7, <2>4, <3>4, <6>1, RankAppendNew
          <6>. QED
            BY <3>4, <6>2
        <5>. QED
          BY <5>1, <5>2
      <4>. QED
        BY <1>1, <1>2, <1>3, <3>2, <4>2 DEF SInv, ChecksPassed
    <3>5. CASE OwnUpdate(e) /\ ~TransmissionChecks(n, e)
      <4>1. verdict' = "StateMismatch"
        BY <1>5, <2>9, <3>3, <3>5 DEF Receive, Raise
      <4>. QED
        BY <1>1, <1>2, <1>3, <4>1 DEF SInv, ChecksPassed, EntityCounted
    <3>6. CASE ~OwnUpdate(e)
      <4>1. verdict' = "None"
        BY <1>5, <2>1, <2>9, <3>3, <3>6 DEF Receive
      <4>2. OwnPositions' = OwnPositions
        BY <2>2, <2>3, <2>4, <3>6, OwnAppendSet
      <4>3. ASSUME NEW p \in OwnPositions'
            PROVE  TransmissionChecks(Rank(p)', received'[p])
        <5>1. p \in Own(received)
          BY <2>4, <4>2
        <5>2. received'[p] = received[p] /\ Rank(p)' = Rank(p)
          BY <2>2, <2>3, <2>5, <5>1, RankAppendOld
        <5>. QED
          BY <2>4, <2>6, <5>1, <5>2
      <4>. QED
        BY <1>1, <1>2, <1>3, <3>2, <4>3 DEF SInv, ChecksPassed
    <3>. QED
      BY <3>4, <3>5, <3>6
  <2>. QED
    BY <2>8, <2>9
<1>. QED
  BY <1>4, <1>5

\* Success is sound for the incident test's shape of the lifecycle (at
\* least three expected updates, 17 in the code): whatever the server
\* sends, in whatever order, with drops and timeouts, a Success verdict
\* means the own updates received were exactly the expected Pending,
\* Partial/211, ..., Success/200 sequence for the test's transmission and
\* destination, and one update of the test's entity where that is checked.
\* With fewer than three (the device test's 1) the if/elif chain never
\* reaches the Success check, and the property fails.
THEOREM HarnessSuccessSound ==
    ASSUME Expected >= 3
    PROVE  Spec => []SuccessSound
<1>1. SInv => SuccessSound
  <2> SUFFICES ASSUME SInv, verdict = "Success" PROVE SuccessSound
    BY DEF SuccessSound
  <2>1. transmissionCount = Expected /\ transmissionCount = Cardinality(OwnPositions)
    BY DEF SInv, SuccessFinal, CInv, CountMatched
  <2>2. \A p \in OwnPositions : TransmissionChecks(Rank(p), received[p])
    BY DEF SInv, ChecksPassed
  <2>3. CheckEntity => Cardinality(EntityPositions) = 1
    BY DEF SInv, SuccessFinal, EntityCounted
  <2>. QED
    BY <2>1, <2>2, <2>3 DEF SuccessSound, TransmissionChecks
<1>. QED
  BY <1>1, InitSInv, NextSInv, PTL DEF Spec
=============================================================================
