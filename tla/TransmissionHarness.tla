------------------------- MODULE TransmissionHarness -------------------------
(***************************************************************************)
(* The asynchronous transmission-verification harness of the acceptance    *)
(* suite: the `run_test` coroutines of                                     *)
(*   src/tests/acceptance/incidents/test_incident_forwarding.py            *)
(*   src/tests/acceptance/device/test_device_configuration.py              *)
(* together with the `setUp`/skip check that precedes them and the         *)
(* `async with session.websocket_connect('/')` scope they run in.          *)
(*                                                                         *)
(* One harness task (the asyncio loop runs exactly one coroutine) opens    *)
(* the push channel, POSTs the multicast, and then loops: while fewer than *)
(* `Expected` transmission updates were seen and less than `Deadline`      *)
(* seconds elapsed, it awaits the next frame with a `RecvTimeout`-second   *)
(* `asyncio.wait_for`, decodes it, counts entity updates of its entity and *)
(* transmission updates whose parentId is the multicast id, and asserts    *)
(* the checks of the `if/elif` chain on the latter.  After the loop it     *)
(* asserts the count (and, for incident forwarding, the entity count).     *)
(*                                                                         *)
(* The push server is the environment: after the socket is open it may     *)
(* send any envelope of `Envelopes`, in any order and with repeats, up to  *)
(* `MaxSends` of them, and it may drop the connection.  Frames on the      *)
(* socket are delivered in order (one TCP connection).  Time is counted in *)
(* whole seconds from `startTime` and passes only while the harness is     *)
(* blocked in `recv` with nothing buffered.                                *)
(***************************************************************************)
EXTENDS Naturals, Sequences, FiniteSets

CONSTANTS
    Expected,        \* expected_transmission_count (17 resp. 1 in the code)
    Deadline,        \* the `elapsedTime(startTime) < 10` loop bound
    RecvTimeout,     \* the `asyncio.wait_for(..., timeout=20)` bound
    MaxSends,        \* how many frames the server sends at most (model bound)
    Envelopes,       \* the frames the server may send
    EntityType,      \* 'Incident/CLOSE' resp. 'Device/UPDATE'
    CheckEntity,     \* whether the entity count is asserted after the loop
    SiteUp,          \* the possible connectionStatus checks of setUp
    MulticastId,     \* the id the POST /multicast response carries
    TransmissionId,  \* multicast['transmissions'][0]['id']
    Destination,     \* the expected transmission.destination
    EntityId,        \* the incident (resp. device) the test created
    None             \* no multicast id yet

ASSUME ExpectedAssumption == Expected \in Nat \ {0}
ASSUME DeadlineAssumption == Deadline \in Nat \ {0}
ASSUME RecvTimeoutAssumption == RecvTimeout \in Nat \ {0}
ASSUME MaxSendsAssumption == MaxSends \in Nat
ASSUME FlagAssumption == CheckEntity \in BOOLEAN /\ SiteUp \subseteq BOOLEAN /\ SiteUp # {}
ASSUME NoneAssumption == None # MulticastId

\* The transmission lifecycle states and the status sub-record.  A status
\* that the envelope does not carry decodes to the protobuf default.
States == {"Pending", "Partial", "Success"}
NoStatus == [code |-> 0, message |-> ""]
Sent == [code |-> 211, message |-> "transmission sent"]
Delivered == [code |-> 200, message |-> "transmission successful"]

TxType == "Transmission/UPDATE"
\* A frame that ParseFromString / json.loads rejects.
Malformed == "Malformed"

Verdicts == {"None", "Success", "TriggerFailed", "StateMismatch",
             "DeadlineExceeded", "EntityMismatch", "RecvTimeout",
             "DecodeError", "ChannelDropped"}

\* The unittest outcome of a verdict: AssertionError and self.fail are
\* failures, any other exception is an error.
OutcomeOf(v) ==
    IF v = "Success" THEN "pass"
    ELSE IF v \in {"TriggerFailed", "StateMismatch", "DeadlineExceeded",
                   "EntityMismatch"} THEN "fail"
    ELSE "error"

VARIABLES
    pc,                    \* where the harness task is
    siteOk,                \* self.site['connectionStatus'] == "Ok"
    ws,                    \* the websocket: "idle", "open", "dropped", "closed"
    chan,                  \* frames sent by the server, not yet received
    sends,                 \* how many frames the server has sent
    now,                   \* seconds since startTime
    recvStart,             \* the time the pending recv() began
    multicastId,           \* multicast['id'], None before the POST returned
    transmissionCount,
    incidentUpdateCount,   \* (device_update_count in the device test)
    received,              \* history: every frame the harness received
    verdict,
    outcome

vars == <<pc, siteOk, ws, chan, sends, now, recvStart, multicastId,
          transmissionCount, incidentUpdateCount, received, verdict, outcome>>

-----------------------------------------------------------------------------
(* Matching: what the loop body decides about one decoded frame.           *)

\* envelope.type == EntityType and the entity is the test's own one.
IsEntityUpdate(e) == e.type = EntityType /\ e.ref = EntityId

\* envelope.type == 'Transmission/UPDATE' and parentId == multicast['id'].
IsTransmissionUpdate(e) == e.type = TxType /\ e.ref = multicastId

\* Variant: the second update's state is checked but not its status.
TransmissionChecksNoStatus(n, e) ==
    /\ e.tx = TransmissionId
    /\ e.dest = Destination
    /\ IF n = 1 THEN e.state = "Pending"
       ELSE IF n = 2 THEN e.state = "Partial"
       ELSE IF n = Expected THEN e.state = "Success" /\ e.status = Delivered
       ELSE TRUE

\* The assertions on the n-th matching transmission update, in the order
\* of the code: the id and destination checks, then the if/elif chain
\* `n == 1`, `n == 2`, `n == expected_transmission_count`.
TransmissionChecks(n, e) ==
    /\ e.tx = TransmissionId
    /\ e.dest = Destination
    /\ IF n = 1 THEN e.state = "Pending"
       ELSE IF n = 2 THEN e.state = "Partial" /\ e.status = Sent
       ELSE IF n = Expected THEN e.state = "Success" /\ e.status = Delivered
       ELSE TRUE

\* The assertions after the loop, in the order of the code.
FinalVerdict ==
    IF transmissionCount # Expected THEN "DeadlineExceeded"
    ELSE IF CheckEntity /\ incidentUpdateCount # 1 THEN "EntityMismatch"
    ELSE "Success"

\* Leave the `async with` body with verdict v.
Raise(v) == verdict' = v /\ pc' = "Unwind"

-----------------------------------------------------------------------------
(* The harness task.                                                       *)

Init ==
    /\ pc = "Setup"
    /\ siteOk \in SiteUp
    /\ ws = "idle"
    /\ chan = <<>>
    /\ sends = 0
    /\ now = 0
    /\ recvStart = 0
    /\ multicastId = None
    /\ transmissionCount = 0
    /\ incidentUpdateCount = 0
    /\ received = <<>>
    /\ verdict = "None"
    /\ outcome = "none"

\* The guard at the top of the test: when the site is not connected the
\* test `return`s unittest.skip(...), which unittest records as a pass.
Setup ==
    /\ pc = "Setup"
    /\ IF siteOk
       THEN pc' = "Connect" /\ UNCHANGED outcome
       ELSE pc' = "Done" /\ outcome' = "pass"
    /\ UNCHANGED <<siteOk, ws, chan, sends, now, recvStart, multicastId,
                   transmissionCount, incidentUpdateCount, received, verdict>>

\* `async with session.websocket_connect('/')`: the handshake succeeds or
\* is refused.
Connect ==
    /\ pc = "Connect"
    /\ \/ ws' = "open" /\ pc' = "Post" /\ UNCHANGED verdict
       \/ Raise("ChannelDropped") /\ UNCHANGED ws
    /\ UNCHANGED <<siteOk, chan, sends, now, recvStart, multicastId,
                   transmissionCount, incidentUpdateCount, received, outcome>>

\* session.post('multicast/...'): the response is 201 with exactly one
\* transmission, or one of the two assertions on it fails.  The counters
\* start at 0 and startTime is taken.
Post ==
    /\ pc = "Post"
    /\ \/ /\ multicastId' = MulticastId
          /\ now' = 0
          /\ pc' = "Loop"
          /\ UNCHANGED verdict
       \/ Raise("TriggerFailed") /\ UNCHANGED <<multicastId, now>>
    /\ UNCHANGED <<siteOk, ws, chan, sends, recvStart, transmissionCount,
                   incidentUpdateCount, received, outcome>>

\* Variant: the `while` condition joined with `or` instead of `and`.
LoopEither ==
    /\ pc = "Loop"
    /\ IF transmissionCount < Expected \/ now < Deadline
       THEN pc' = "Recv" /\ recvStart' = now /\ UNCHANGED verdict
       ELSE Raise(FinalVerdict) /\ UNCHANGED recvStart
    /\ UNCHANGED <<siteOk, ws, chan, sends, now, multicastId,
                   transmissionCount, incidentUpdateCount, received, outcome>>

\* The `while` condition; on exit, the assertions after the loop.
Loop ==
    /\ pc = "Loop"
    /\ IF transmissionCount < Expected /\ now < Deadline
       THEN pc' = "Recv" /\ recvStart' = now /\ UNCHANGED verdict
       ELSE Raise(FinalVerdict) /\ UNCHANGED recvStart
    /\ UNCHANGED <<siteOk, ws, chan, sends, now, multicastId,
                   transmissionCount, incidentUpdateCount, received, outcome>>

\* `await asyncio.wait_for(websocket.recv(), timeout=20)` returns a frame,
\* which is decoded and run through the loop body.
Receive ==
    /\ pc = "Recv"
    /\ chan # <<>>
    /\ LET e == Head(chan)
           n == transmissionCount + 1
       IN  /\ chan' = Tail(chan)
           /\ received' = Append(received, e)
           /\ IF e.type = Malformed
              THEN Raise("DecodeError")
                   /\ UNCHANGED <<transmissionCount, incidentUpdateCount>>
              ELSE /\ incidentUpdateCount' =
                        IF IsEntityUpdate(e) THEN incidentUpdateCount + 1
                                             ELSE incidentUpdateCount
                   /\ IF IsTransmissionUpdate(e)
                      THEN /\ transmissionCount' = n
                           /\ IF TransmissionChecks(n, e)
                              THEN pc' = "Loop" /\ UNCHANGED verdict
                              ELSE Raise("StateMismatch")
                      ELSE pc' = "Loop" /\ UNCHANGED <<verdict, transmissionCount>>
    /\ UNCHANGED <<siteOk, ws, sends, now, recvStart, multicastId, outcome>>

\* Variant: a bare `await websocket.recv()` that never gives up.
RecvUnbounded == FALSE

\* wait_for gives up: asyncio.TimeoutError propagates out of the test.
RecvTimedOut ==
    /\ pc = "Recv"
    /\ chan = <<>>
    /\ now = recvStart + RecvTimeout
    /\ Raise("RecvTimeout")
    /\ UNCHANGED <<siteOk, ws, chan, sends, now, recvStart, multicastId,
                   transmissionCount, incidentUpdateCount, received, outcome>>

\* recv() on a connection the server closed raises ConnectionClosed.
RecvDropped ==
    /\ pc = "Recv"
    /\ chan = <<>>
    /\ ws = "dropped"
    /\ Raise("ChannelDropped")
    /\ UNCHANGED <<siteOk, ws, chan, sends, now, recvStart, multicastId,
                   transmissionCount, incidentUpdateCount, received, outcome>>

\* Leaving the `async with` closes the socket on every exit path; the
\* exception (or the normal return) then becomes the unittest outcome.
Unwind ==
    /\ pc = "Unwind"
    /\ ws' = IF ws = "idle" THEN "idle" ELSE "closed"
    /\ pc' = "Done"
    /\ outcome' = OutcomeOf(verdict)
    /\ UNCHANGED <<siteOk, chan, sends, now, recvStart, multicastId,
                   transmissionCount, incidentUpdateCount, received, verdict>>

-----------------------------------------------------------------------------
(* The environment: the push server and the clock.                         *)

\* The server pushes a frame on the open socket.  Updates of the test's
\* multicast exist only once the POST has created it.
ServerSend(e) ==
    /\ ws = "open"
    /\ sends < MaxSends
    /\ e.type = TxType /\ e.ref = MulticastId => multicastId # None
    /\ chan' = Append(chan, e)
    /\ sends' = sends + 1
    /\ UNCHANGED <<pc, siteOk, ws, now, recvStart, multicastId,
                   transmissionCount, incidentUpdateCount, received, verdict, outcome>>

\* The server closes the connection; frames already sent stay readable.
ServerDrop ==
    /\ ws = "open"
    /\ ws' = "dropped"
    /\ UNCHANGED <<pc, siteOk, chan, sends, now, recvStart, multicastId,
                   transmissionCount, incidentUpdateCount, received, verdict, outcome>>

\* A second passes while the harness is blocked in recv() with nothing
\* buffered, up to the point where wait_for gives up.
Tick ==
    /\ pc = "Recv"
    /\ chan = <<>>
    /\ now < recvStart + RecvTimeout
    /\ now' = now + 1
    /\ UNCHANGED <<pc, siteOk, ws, chan, sends, recvStart, multicastId,
                   transmissionCount, incidentUpdateCount, received, verdict, outcome>>

Harness == Setup \/ Connect \/ Post \/ Loop \/ Receive \/ RecvTimedOut
           \/ RecvDropped \/ Unwind

Next == Harness \/ (\E e \in Envelopes : ServerSend(e)) \/ ServerDrop \/ Tick

\* The asyncio loop keeps running the single harness coroutine, and the
\* wall clock keeps advancing; the server owes nothing.
Fairness == WF_vars(Harness) /\ WF_vars(Tick)

Spec == Init /\ [][Next]_vars /\ Fairness

-----------------------------------------------------------------------------
(* Properties.                                                             *)

TypeOK ==
    /\ pc \in {"Setup", "Connect", "Post", "Loop", "Recv", "Unwind", "Done"}
    /\ siteOk \in BOOLEAN
    /\ ws \in {"idle", "open", "dropped", "closed"}
    /\ chan \in Seq(Envelopes)
    /\ sends \in 0..MaxSends
    /\ now \in Nat
    /\ recvStart \in Nat
    /\ multicastId \in {None, MulticastId}
    /\ transmissionCount \in 0..Expected
    /\ incidentUpdateCount \in Nat
    /\ received \in Seq(Envelopes)
    /\ verdict \in Verdicts
    /\ outcome \in {"none", "pass", "fail", "error"}

\* A transmission update of the test's own multicast.
OwnUpdate(e) == e.type = TxType /\ e.ref = MulticastId

\* The positions of the received frames that are the multicast's updates.
OwnPositions == {i \in 1..Len(received) : OwnUpdate(received[i])}

\* The rank of own position p: p holds the Rank(p)-th own update received.
Rank(p) == Cardinality({q \in OwnPositions : q <= p})

\* The positions of the received frames that are updates of the test's entity.
EntityPositions == {i \in 1..Len(received) : IsEntityUpdate(received[i])}

\* Whenever the harness reports Success, the updates it saw for its own
\* multicast were exactly `Expected` many, all for its transmission and
\* destination, the first Pending, the second Partial with status 211
\* "transmission sent" (when there are at least three), the last Success
\* with status 200 "transmission successful"; and, where the entity count
\* is asserted, exactly one update of the test's entity arrived.  The k-th
\* own update is the one at the own position of rank k.
SuccessSound ==
    verdict = "Success" =>
        /\ Cardinality(OwnPositions) = Expected
        /\ \A p \in OwnPositions :
             LET e == received[p] IN
             /\ e.tx = TransmissionId /\ e.dest = Destination
             /\ Rank(p) = 1 => e.state = "Pending"
             /\ Rank(p) = 2 /\ Expected >= 3 => e.state = "Partial" /\ e.status = Sent
             /\ Rank(p) = Expected => e.state = "Success" /\ e.status = Delivered
        /\ CheckEntity => Cardinality(EntityPositions) = 1

\* Every run of the test ends with an outcome: the receive loop cannot
\* hang however the server behaves, because each recv() is bounded.
Terminates == <>(pc = "Done")

\* Every frame the server has sent on the socket so far: the socket is
\* FIFO, so it is what was received followed by what is still buffered.
SentFrames == received \o chan

\* "Expected exactly 1 incident update over the socket": the step that
\* fails the entity check is taken only when the frames the server had
\* put on the socket by then do not hold exactly one update of the test's
\* incident, whatever their order.
EntityCountFaithful ==
    [][verdict = "None" /\ verdict' = "EntityMismatch" =>
         Cardinality({i \in 1..Len(SentFrames) : IsEntityUpdate(SentFrames[i])}) # 1]_vars

\* A test that did not exercise the harness ("skips correctly when the
\* destination site is not running") is not reported as passed.
SkipNotPassed == outcome = "pass" => verdict = "Success"

=============================================================================
