# TLA+ models of the prisma-master acceptance harness

This directory holds TLA+ models of the asynchronous parts of
`src/tests/acceptance` and of the test-environment tool
`src/tms/cmd/tools/tcleaner_mongo`. Each model is checked with TLC on small
instances, and part of it is proved with TLAPS. `PROJECT.json` lists:

- the components;
- the runs;
- the mutants: a code-bug variant per checked property, which TLC must catch;
- the map from every definition to the source lines it translates;
- the findings, the hazards and the theorems.

## The system and its parts

The acceptance suite is a set of `unittest` test cases that run against a
tms server that is not part of `src/`. Three parts of it have control state
worth model-checking:

1. **The transmission-verification harness.** These are the `run_test`
   coroutines of `incidents/test_incident_forwarding.py` and
   `device/test_device_configuration.py`. Each one:
   1. opens the push websocket (`Session.websocket_connect`);
   2. POSTs a multicast;
   3. reads frames in a loop bounded by a count (`expected_transmission_count`),
      a 10 s deadline and a 20 s per-receive `asyncio.wait_for`;
   4. decodes each frame;
   5. counts entity updates and transmission updates correlated by
      `parentId`;
   6. asserts the lifecycle of each transmission update in arrival order;
   7. after the loop, asserts the counts.

   The push server sends frames for every activity on the site, interleaved
   on one socket.
2. **The scoped fixtures.** The decorators `authenticate` (`utilities/session.py`),
   `clean_collections_after` and `insert_collection_data`
   (`utilities/mongo.py`) are stacked on a test method. Calling the test runs
   each decorator's set-up from the outermost inwards, then the body, then
   each decorator's `finally` from the innermost outwards.
3. **`tcleaner_mongo.py`.** It parses `--older-than` and `--collections`,
   deletes from each named collection (restricted by a time query when a
   cutoff is given), closes the client, and recreates `/srv/ftp`.

The harness uses the fixtures: its test method is wrapped in
`@authenticate`. The models keep the two apart, because nothing the
harness does depends on the fixture's state beyond holding a logged-in
session.

## Modules

| module | models | state | actions |
|---|---|---|---|
| `TransmissionHarness` | the `run_test` coroutine, its skip guard and the `async with` scope | `pc`, the socket (`ws`, the FIFO `chan`), the clock (`now`, `recvStart`), `multicastId`, both counters, the history `received`, `verdict`, `outcome` | `Setup` (skip guard), `Connect`, `Post`, `Loop` (while condition and final asserts), `Receive` (recv, decode, both matches, asserts), `RecvTimedOut`, `RecvDropped`, `Unwind`; environment `ServerSend`, `ServerDrop`, `Tick` |
| `MCTransmissionHarness` | frame alphabets for the incident and device tests | | |
| `TransmissionHarnessProofs` | TLAPS proofs about `TransmissionHarness` | | |
| `FixtureScopes` | a stack of the three decorators | `phase`, `depth`, the exception in flight `exc`, the histories `failed` and `firstExc`, open `sessions` and `clients`, `db` (kinds of documents per collection) | `Enter` (one per decorator kind), `Body`, `Exit` (the `finally` of each kind), `Finish` |
| `MCFixtureScopes` | the stacks of `test_multicast_messages.py:20-24` and `test_get_fleet_data.py:11-14` | | |
| `TCleanerMongo` | `main()` of tcleaner_mongo | `pc`, the parsed arguments, `since`, the loop index `i`, `db`, `client`, `ftp`, `status` | `Parse`, `DeleteOne` (one loop iteration, in which `delete_many` may raise part-way, or `client.close()` after the last), `ResetFtp` (`rmtree` and the `finally` `mkdir`, with both ways they fail) |
| `MCTCleanerMongo` | a 12-document database and five command lines | | |
| `CleanerContract` | what the tool promises, with no loop: the abstract specification | `store`, `dir`, `named`, `cutoff`, `stage`, `outcome` | `Read`, `Abort`, `Truncate` (all selected documents at once), `Interrupted` (a failure that removed only selected documents), `Recreate` |
| `TCleanerMongoProofs` | TLAPS proofs about `TCleanerMongo` and its refinement | | |
| `FixtureScopesProofs` | TLAPS proofs about `FixtureScopes` | | |

How the harness model follows the code:

- **Frames.** A frame is a record `[type, ref, tx, dest, state, status]`.
  `ref` is the parentId, or the entity id. A frame that does not decode
  is `Malformed`, and a status the frame does not carry is the protobuf
  default `NoStatus`.
- **The loop body.** Every step of the body is one action, `Receive`. In
  the code's order it dequeues the frame, raises on a decode failure,
  counts the entity update, counts the transmission update, and runs the
  assertion chain (`TransmissionChecks`: id, destination, then the
  `if/elif` on the count). A failing assertion moves to `Unwind` with its
  verdict, as the exception does.
- **The outcome.** `Unwind` closes the socket on every path. `OutcomeOf`
  maps the verdict to what unittest records: an assertion failure is
  "fail", any other exception is "error", and a normal return is "pass".
- **The skip guard.** `return unittest.skip(...)` is a normal return, so
  it is recorded as "pass".
- **Time.** Time passes only while the harness is blocked in `recv` on an
  empty socket (`Tick`). Between receives the code runs in microseconds.
  A consequence is that the 10 s deadline can only pass while a receive
  waits, and that receive then ends by its own 20 s timeout or by a frame;
  so in the model the deadline is never what ends a run, and `Terminates`
  rests on the receive timeout.

In `FixtureScopes`, a layer whose set-up raised before its `try` gets no
`finally`. `depth` counts only the layers that reached their `try`. An
exception raised in a `finally` replaces the one in flight (`exc`), as
Python does, and `firstExc` remembers the first.

In `TCleanerMongo`, `delete_many` may raise in any iteration, after
removing any part of what its query selects (the server unreachable, or an
error part-way through a multi-document delete, which Mongo does not roll
back); the exception ends `main` with the client open. `rmtree` of a
missing `/srv/ftp` raises after the `finally` has created it; `rmtree`
that fails on a present one leaves it non-empty (`"partial"`), so the
`mkdir` raises `FileExistsError`. A failing `mkdir` after a successful
`rmtree` is left out: `rmtree` removing `/srv/ftp` itself means its parent
is writable.

## Runs

There are four passing runs.

| run | checks | states |
|---|---|---|
| `incident_forwarding` (`IncidentForwarding.cfg`) | `TypeOK`, `SuccessSound`, `Terminates` | ~570k |
| `multicast_fixtures` (`MulticastFixtures.cfg`) | `NoResidue`, `ClientsReleased`, `FailureReported` | 452 |
| `fleet_fixtures` (`FleetFixtures.cfg`) | `FailureReported` | 912 |
| `cleaner` (`Cleaner.cfg`) | `TruncatesNamed`, `CleanerRefinement` | 471 |

- **`incident_forwarding`.** This run has 3 expected updates, a deadline of
  2, a receive timeout of 4, and at most 4 frames from the server. The
  alphabet contains the own multicast's Pending, Partial/Sent,
  Success/Delivered and Partial/Failed updates, the update of another
  multicast, the own multicast with a foreign transmission id, the
  Incident/CLOSE of the test's incident and of another one, and garbage.
  The site may be up or down.
  - `SuccessSound`: a Success verdict implies that exactly `Expected` own
    updates arrived, all for the test's transmission and destination, the
    first Pending, the second Partial/211 and the last Success/200, and
    that exactly one update of the incident arrived. The code checks the
    updates ranked in between only for id, destination and parentId, so a
    repeat or a reorder among them passes the test and the property says
    nothing about them (at `Expected = 3` there are none). Foreign
    updates, of another multicast or entity kind, never count: the rank is
    taken over the own positions only. The k-th own update is the one at the
    own position of `Rank` k in `received`. On every reachable state of
    both harness instances, TLC found this equal to the statement by
    `SelectSeq(received, OwnUpdate)`.
  - `Terminates`: every run ends.
- **`multicast_fixtures`.** With a refused login and a failing body,
  nothing is left behind, every client is closed, and failure is reported
  exactly when something raised. Mongo calls succeed in this run, so at
  most one exception is ever raised; which exception is reported is the
  question of `fleet_masked_failure`.
- **`fleet_fixtures`.** With every Mongo call fallible, no failure is
  reported as success.
- **`cleaner`.** Any `delete_many` and the `rmtree` may fail. Without a
  cutoff, a run that gets through the loop has emptied exactly the named
  collections. `CleanerRefinement` checks that the tool implements
  `CleanerContract` (see below), with and without a cutoff.

**The refinement.** `CleanerContract` says what a caller of the tool may
rely on. Either the documents of the named collections that the cutoff
selects disappear in one step and `/srv/ftp` is recreated, or the run
fails having removed some of those documents and no other. It exits 0 only
with the truncation complete and `/srv/ftp` present and empty, never leaves
`/srv/ftp` absent once it has got to it, and ends. It
is an instance with `Selects <- Queried`, the code's own query, so the
contract fixes *which* documents go by the code's `del_query`, and
`cleaner_older_than` shows separately that this query is not the one the
option's help text promises. The mapping (`Contract` in `TCleanerMongo`):

- `store` is `Docs` while the loop runs and `db` otherwise. The loop's
  partial deletions are hidden, its last step (`client.close()`) is the
  contract's `Truncate`, and a `delete_many` that raises is `Interrupted`.
- `stage` follows `pc`: `parse` is "start", `delete` is "read", `rmtree` is
  "truncated", `done` is "over". A crash in `Parse` is `Abort`.
- `outcome` follows `status`: "running", "ok", and "failed" for "crashed".
- `named` is the set of collections the command line gives; `cutoff` is
  `since`.

The contract's liveness is `<>(stage = "over")` rather than weak fairness
on its `Next`. `Read` leaves the cutoff free, and TLC cannot evaluate
`ENABLED` of an action that does so.

Each violation run checks one property, stated as the spec, a docstring or
an assertion message says the code should behave. TLC finds each one
violated. The findings in `PROJECT.json` explain them. Two further divergences
from the spec are visible in the model itself and are not given runs. The
first is that `RecvTimedOut` ends the test with `asyncio.TimeoutError`,
where scenario C asks for a re-check of the deadline. The second is that
`Receive` raises on an undecodable frame, where spec 4.1 asks that the
frame be reported and skipped.

The violation runs:

| run | what happens in the counterexample |
|---|---|
| `device_success_unchecked` | expected = 1, so a lone Pending update passes |
| `incident_entity_order` | the Incident/CLOSE frame queued behind the last update is never read, and the entity assertion fails |
| `incident_skip` | a test whose site is down is recorded as passed |
| `multicast_session_leak` | a refused login leaks the Session |
| `multicast_seed_residue` | a partial `insert_many` before the `try` leaves seed documents |
| `fleet_client_leak` | the set-up `delete_many` of `insert_collection_data`, before its `try`, raises, and that layer's client is never closed |
| `fleet_masked_failure` | a clean-up error replaces the test's assertion failure |
| `cleaner_older_than` | `$gte` deletes the new documents and keeps the old ones; on registry it compares with the second of the minute |

**Why the bounds are enough.**

- *Harness.* Three expected updates is the smallest count at which the
  `n == 1`, `n == 2` and `n == expected` branches are distinct, and so the
  smallest at which all three checks happen. Four frames allow one
  foreign or entity frame around a full lifecycle. The deadline is
  smaller than the receive timeout, as 10 s is smaller than 20 s in the
  code, so both "deadline passes during a receive" and "receive times
  out" occur. `device_success_unchecked` uses the code's own count of 1.
- *Fixtures.* The stacks are the code's own.
- *Cleaner.* `Now = 130` and documents at t = 69, 70 and 71 put one
  document on each side of the 70 s cutoff and one on it. "1m" and "60s"
  give the same cutoff. The unknown unit and the non-numeric count reach
  both uncaught exceptions.

**Fairness.** `TransmissionHarness` assumes weak fairness of the harness
steps and of `Tick`:

- The asyncio loop runs the single coroutine whenever it is not blocked.
- Wall-clock time advances while it is blocked.

The server is given no fairness: it may stay silent forever. This is why
`Terminates` rests on the receive timeout. `FixtureScopes` and
`TCleanerMongo` are sequential programs, so they have weak fairness on
`Next`. Deadlock checking is off in every cfg because each program really
stops: the test call returns and the tool exits.

## Proofs

Each proof module proves its theorems for every value of the constants,
from the `ASSUME`s of the module it extends.

`TransmissionHarnessProofs` (assumptions: positive `Expected`, `Deadline`
and `RecvTimeout`, natural `MaxSends`, and `None` distinct from the
multicast id):

- `TypeCorrect`: `Spec => []TypeOK`.
  - `TypeOK` alone is not inductive. A `Receive` step increments
    `transmissionCount`, which stays within `0..Expected` only because
    `recv` is entered only when the count is below `Expected`.
  - The inductive invariant `IInv == TypeOK /\ RecvHasRoom` adds that
    fact.
  - `NextIInv` has one case per action. `Receive` is split into its
    dequeue, its counter updates and its exits.
- Lemma `NextCInv` proves the invariant `CInv == IInv /\ HasMulticastId
  /\ CountMatched`: from `Loop` on, the id the loop compares with is the
  multicast's, and the count equals the number of own positions. It rests
  on `OwnFinite` (the matching positions form a finite set) and
  `OwnAppend` (appending a frame adds one matching position exactly when
  the frame is an own update).
- `HarnessSuccessSound`: `Spec => []SuccessSound`, under the hypothesis
  `Expected >= 3`.
  - The hypothesis holds for the incident test, whose count is 17. With
    fewer than three updates, the `if/elif` chain never reaches the
    Success check. `device_success_unchecked` is that case (count 1), and
    there the property fails.
  - The invariant is `SInv == CInv /\ VerdictOpen /\ ChecksPassed /\
    EntityCounted /\ SuccessFinal`:
    - `VerdictOpen`: no verdict is raised while the loop runs.
    - `ChecksPassed`: while the verdict is None or Success, every own
      position `p` passed `TransmissionChecks(Rank(p), received[p])`.
    - `EntityCounted`: the entity counter equals the number of entity
      positions.
    - `SuccessFinal`: Success comes only from the final assertions.
  - `ChecksPassed` is the conjunct that needs strengthening. A `Receive`
    step checks the new frame against `transmissionCount + 1`. That
    number is its rank only because of `CountMatched` (from `CInv`).
  - The rank lemmas are `RankAppendOld` (appending leaves earlier ranks
    alone) and `RankAppendNew` (an appended own update gets rank
    count + 1). They rest on `OwnAppendSet`. `EntsAppend` counts the
    entity positions.
  - TLC checked `SInv` as an invariant of the incident instance (573k
    states) before it was proved.

`TCleanerMongoProofs` (assumptions: every `--collections` value is a
sequence of strings or absent, and `NoArg` is not a sequence):

- `CleanerInvariant`: `Spec => []CleanerInv`. `CleanerInv` is the loop
  invariant. While `pc = "delete"`, `db` is `Docs` less the documents
  `Pruned` by the first `i - 1` listed collections. Once the client is
  closed, `db` is `Kept`: `Docs` less what `Queried` selects in a named
  collection. Lemma `PrunedStep` covers one more iteration. `PrunedAll`
  covers the last one, a list with repeats included. `CleanerInv` also
  says that a run still going has `status = "running"`, and that
  `status = "ok"` means the client was closed and `/srv/ftp` left empty.
- `CleanerTruncatesNamed` follows from `CleanerInv`.
- `CleanerImplementsContract`: `Spec => Contract!Safety`. Initial states
  map to initial states, and, under `CleanerInv`, every step maps to a
  contract step or a stutter. A successful iteration leaves the mapped
  `store` alone. The loop's last step changes it, and `CleanerInv` says it
  is then `Kept`, which is what `Truncate` leaves. A failing iteration maps
  to `Interrupted`: a document missing afterwards was `Pruned` by an
  earlier iteration or selected by the current one, so it is in a named
  collection and selected.

`FixtureScopesProofs` (assumptions: `Layers` is a sequence of layer
records, and the body writes only existing collections):

- `FixturesFailureReported`: `Spec => []FailureReported`, for every stack
  and every failure setting. The invariant `ExcTracked` says `failed`
  holds exactly when an exception is in flight. No step clears `exc`
  without having set `failed` first.
- The other fixture theorems rest on a stack discipline.
  - `StackShape` is the skeleton: `depth \in 0..N`, and `depth = 0` once
    the call is over.
  - Each resource gets a part of its own, saying that what is held belongs
    to a layer in `1..depth`, that is, a layer inside its `try`.
  - An `Exit` step pops layer `depth`, and each kind of `finally` releases
    exactly what belongs to that layer. When the call is over, nothing is
    left.
  - Each theorem takes only the hypothesis that its counterexample run
    shows necessary:

| theorem | hypothesis | invariant | the run showing the hypothesis is needed |
|---|---|---|---|
| `FixturesClientsReleased` | `~MongoMayFail` | `ClientsOwned`: open clients belong to non-`authenticate` layers | `fleet_client_leak` |
| `FixturesSessionsReleased` | `~LoginMayFail` (Mongo may fail) | `SessionsOwned`: open sessions belong to `authenticate` layers | `multicast_session_leak` |
| `FixturesNoResidue` | `~MongoMayFail`, `BodyCovered` | `Residue`: a collection with seed or test documents is named by a layer | `multicast_seed_residue` |

  - `BodyCovered` says every collection the body writes is named by some
    layer. It holds for both stacks of the suite.
  - TLC checked each of the three invariants on both stacks, under every
    combination of the two failure flags, before they were proved.

Some properties are only model-checked:

- `SuccessSound` for `Expected < 3` is not a theorem. There it is false,
  and `device_success_unchecked` shows it.
- `Terminates`, and the `<>(stage = "over")` part of `CleanerRefinement`,
  are liveness properties, which are out of the prover's reach.
- The violated properties are refuted by TLC's counterexamples and are not
  theorems.

## Not modelled

- **The push server and the tms backend.** These are not under `src/`.
  The server is the nondeterministic environment of the harness
  (`ServerSend` and `ServerDrop`, marked as modelled from the spec).
- **The REST CRUD tests** (users, fleets, incidents, zones, audit, ...).
  They are straight-line request/assert sequences against the external
  server. Their fixtures are modelled.
- **`utilities/timeout.py`.** It is used by no test and cannot run as
  written.
- **`slack.py`, `tportald/beacon_requests.py`, the `Session` request
  helpers and `fixtures.py`.** These are pure I/O.

## Plan for later work

1. Prove `TypeOK` of `FixtureScopes` and `TCleanerMongo`.
2. Prove a refinement of the harness to an abstract "verdict = Success
   iff the lifecycle was observed" specification.
3. Model the device test's JSON decoding separately, where its frames
   differ from the incident test's.
