# Legislative voting: a verification project

TLA+ models of the voting system in this repository, checked with TLC, with
theorems proved by TLAPS. The reference is always the code; where a comment or
a description says something else, a run shows the difference.

Contents: [1 the system](#1-the-system-an-inventory) ·
[2 modules](#2-modules-and-how-they-correspond-to-the-code) ·
[3 runs](#3-runs-and-what-they-show) · [4 bounds](#4-bounds) ·
[5 fairness and deadlock](#5-fairness-and-deadlock) ·
[6 proofs](#6-what-is-proved-and-how) · [7 not modelled](#7-what-is-not-modelled) ·
[8 plan](#8-plan)

## 1 The system: an inventory

A chamber votes with Android terminals against one FastAPI process, the
*orchestrator*, which keeps everything in PostgreSQL, tells terminals and
dashboards what happens over WebSockets, and anchors every result in a contract
on the Polygon Amoy test chain. The repository has no tests.

| Component | State | Operations | What is hard |
|---|---|---|---|
| **Voting rounds** `voting_round_service.py`, `voting_round_router.py` | `voting_rounds` (status, parameters, RSA key, quorum snapshot, result, tie-breaking vote); `agenda_items.status` | create, update, delete, open, close, proclaim, rectify | concurrent HTTP requests, each one transaction at READ COMMITTED; some lock the round first, some read it unlocked; one open round per session is guarded by an index |
| **Votes** `vote_service.py`, `vote_router.py` | `nominal_votes`, `non_nominal_voters`, `non_nominal_tallies` | cast nominal; authorize (blind signature) and cast secret; break a tie | votes against close and rectify, retries, double spending, two steps under two identities |
| **Result and quorum** `quorum_service.py`, `calculate_round_result`, the tally endpoint | none | quorum, effective counts, denominator, threshold, suggested result | integer arithmetic at its boundaries; three counts read at three different times |
| **Audit ledger and notary** `audit_ledger_service.py`, `blockchain_notary.py`, `LegislativeNotary.sol` | `audit_ledger`, the contract's `rounds`, event logs | snapshot, anchor with three attempts, recover from logs, upsert | two stores and a crash between them; a receipt that times out; recovery over 1000 blocks |
| **Sessions and agenda** `legislative_session_service.py`, `agenda_item_service.py` | `legislative_sessions`, `agenda_items` | create, update, delete, change status, current session, floor | unlocked look-then-write; any status follows any other |
| **Attendance, legislators** | `session_attendances`, `legislators` | bulk update; register, remove | change while rounds are open |
| **Devices and provisioning** `device_service.py` | `devices`, provisioning tokens | enrol, wipe | two enrolments with one token; wipe against connect |
| **Connection manager** `core/websocket.py`, `websocket_router.py` | sockets by token, dashboards, a queue and a worker each | connect, disconnect, force disconnect, broadcast | awaits in the middle of map updates; full queues; broadcast order; missed events |
| **Merkle tree** `crypto_merkle.py`, portal's `audit-verification.service.ts` | none | leaf hashes, root, verification | two implementations that must agree |
| **Voter terminal** (Kotlin) | screen state, authorization state, volatile keys | events, hydrate, authorize, vote, break a tie, wipe | late answers, lost answers, reconnects, wipes |
| **Dashboards, portal, users, configuration** | views; `system_users` | CRUD, display | nothing concurrent of their own |

How they interact: the presidency's dashboard calls the round endpoints, the
terminals the vote endpoints (their payloads are signed, they carry no session).
Services share state only through PostgreSQL rows and their locks. The proclaim
and tie-breaker endpoints call the audit ledger *before* they commit, so that
the round's row lock is held while the chain is written. After a commit, a
background task broadcasts the event.

What makes each component correct:

- *Rounds.* A round goes through its life in order; it takes ballots only
  between its opening and its close; nobody's ballot is counted twice; a final
  result is never lost or changed; one round per session is open; a round on
  the particulars follows one that passed in general; no request waits for ever.
- *Votes.* A secret round holds no more ballots than authorized voters.
- *Result and quorum.* A quorum is a majority of the voting seats; the integer
  count decides as the exact rule; no minority carries a motion under a
  majority rule; a proclamation departs from what was suggested to the presidency
  only for a reason, and in its direction.
- *Ledger.* What is anchored is what is recorded, across crashes and retries.
- *Sessions.* At most one session is current. *Connections.* Every open socket
  is registered and fed; the order of events is the order of commits, per
  round. *Devices.* One active device per legislator. *Terminal.* What it shows
  as voted was voted. *Merkle.* Both implementations compute the same root.

## 2 Modules and how they correspond to the code

| Module | What it is |
|---|---|
| `QuorumRules` | the arithmetic, as operators: `quorum_service.py`, `calculate_round_result`, the tally's suggestion |
| `RoundCount`, `MCRoundCount` | one round as numbers: the chamber as it comes and goes, the snapshot at the opening, the votes, the suggested result, the count at the proclamation |
| `RoundLifecycle` | the abstract specification: what one round promises |
| `VotingRounds`, `MCVotingRounds` | the core: tables, handlers, transactions, row locks; extends `QuorumRules`, instantiates `RoundLifecycle` |
| `Merkle` | the root of a list of leaf hashes: `crypto_merkle.py` and the portal's `buildMerkleTree` |
| `Anchoring`, `MCAnchoring` | a closed round until its ledger row: attempts, nonces, the contract, event logs, crashes, names that change, and the portal's verification; extends `Merkle` |
| `Sessions`, `MCSessions` | sessions, attendance ledger, roll, agenda items and what is broadcast of them; extends `QuorumRules` |
| `Connections`, `MCConnections` | the connection manager await by await, with enrolment, wipe and removal |
| `Terminal`, `MCTerminal` | one terminal (three threads and the submissions under way) with the server's rounds and the events between them |
| `*_proofs` | the theorems: `QuorumRules`, `RoundCount`, `VotingRounds`, `Merkle`, `Anchoring`, `Connections`, `Sessions`, `Terminal` |

How they compose. `VotingRounds` implements `RoundLifecycle`. `Anchoring` takes
up a round where `VotingRounds` has `CommitProclaim` and `CommitTieBreak` stand
for the whole of `anchor_and_snapshot_round`; it has the same lock on the round
and the same steps that remain possible after the close (a late authorization, a
rectification), and adds the edit of a voter's name. `Sessions` has, of a round, its status and its item: the steps
of `RoundStep` are those of `VotingRounds` seen from the agenda. `Terminal` has,
of the server, the status of each round and what it signed and recorded, each
request in one step: what overlapping requests do to them is `VotingRounds`.
`Connections` shows what becomes of an event that is broadcast, `Terminal` loses,
reorders or delivers it.

### Rounds and votes: `QuorumRules`, `RoundCount`, `VotingRounds`

**Numbers.** `approval_threshold` is `Numeric(5, 2)`; it is an integer number of
hundredths of a percent here, so the `Decimal` arithmetic of the code is exact
integer arithmetic and `ROUND_CEILING` a division. Python's integers have no
width.

**One round in numbers.** `RoundCount` asks what three readings of the chamber at
three times do to one result, so a legislator is a unit of one of the counters
`waiting`, `away`, `done`, `gone`: present and yet to vote, not marked present,
voted, removed since. Until the opening all of them move in both directions
(`Arrive`, `Depart`, `RegisterLegislator`, `RemoveLegislator`), the roll does so
until the proclamation. The presiding officer's seat is one of the counters'
units; `officerHere` says which until the opening has looked at it. `Suggest` is the
tally endpoint; what it answered last, and of which roll, is history
(`suggested`). A legislator who voted and then is marked absent is not moved: no
count that is still read changes.

**Tables.** `rounds[r]` is a row of `voting_rounds`; `status = "NONE"` is no row.
Rows are soft-deleted (`deleted`). `nominalVotes`, `voters` and `tallies` are the
three vote tables; a ballot of the third carries an ephemeral key (`Tokens`).
`signed` is what the server has signed and answered, with the key of the round:
the blind signature a terminal can later unblind. A blinded token and the
ephemeral key under it are one thing in the model. The RSA key of a round is
named by the round it was generated for. `VOIDED` and some item statuses appear
in enumerations but no modelled handler assigns them. An agenda item's status is
changed here by decisions only.

**Transactions.** `txn[h]` is the request handler `h` is serving. A handler that
takes its row lock first and then reads only what the lock protects is one
action (`CloseVotingRound`). The others are two or three, and the record in `txn[h]`
says what is held between them:

| Handler | Steps |
|---|---|
| `create_voting_round`, SPECIFIC | `BeginSpecific` looks for a passed general round, `InsertSpecific` inserts after the RSA key is generated |
| `update_`, `soft_delete_voting_round` | `BeginUpdate`/`BeginDelete` read unlocked; `WriteUpdate`/`WriteDelete` write what differs (the ORM sends changed columns only), waiting for the row |
| `open_voting_round` | `BeginOpen` locks, looks for an open round, counts the quorum; `WriteOpen` meets the index `uq_one_open_round_per_session` |
| `cast_nominal_vote` | `VerifyVote`, then `LockForVote` takes the round FOR SHARE and checks it, then `InsertVote` meets the unique constraint |
| `authorize_vote` | `BeginAuthorize` (no lock on the round, no question whether it is open), `InsertVoter` |
| `cast_anonymous_vote` | `BeginSpend` takes the round FOR SHARE, `InsertTally` |
| `proclaim_voting_round` with its router | `BeginProclaim` locks the round and counts, `LockItem` waits for the agenda item while it holds the round, `CommitProclaim` commits after the snapshot and the anchoring |
| `rectify_voting_round` | `BeginRectify` locks the round, which stays locked while the clone's key is generated; `InsertClone` waits for the agenda item the clone refers to, voids the round and inserts the clone |
| `cast_tie_breaker_vote` | `BeginTieBreak` locks the round and reads the item unlocked; `CommitTieBreak` |

Locks are PostgreSQL's: `CanLockForUpdate` waits for every lock,
`CanLockForShare` (also the FOR KEY SHARE of a foreign key check) only for FOR
UPDATE, `CanUseItem` for the item a proclamation locked. The session is made with
`autoflush=False`, so what a handler assigns to a row reaches the database, and waits
there, at its flush or commit: the tie-breaking vote's UPDATE of the item is at
`CommitTieBreak`. A request that waits for its *first* lock has not begun: it holds
nothing and nobody waits for it. Every handler may
`Rollback`: an exception, a lost connection, a failed anchoring, a restart.
`BeginOpen` reads the attendance and the roll in one step; the code uses two
statements, and nothing depends on the two readings agreeing.

**The snapshot.** `extract_snapshot_data` reads `first_name` and `last_name` of
every voter; the legislators table has `full_name` only. So, as the code stands,
a round somebody voted in is counted and then rolled back. The constant
`NamedInParts` says whether the columns exist: FALSE is this code, and the run
`unnamed_voters` shows the consequence; the passing runs take TRUE, or nothing
after a proclamation would be reachable, and check the code with that
one defect repaired. The theorems hold for both values. Whether the anchoring
itself succeeds is left open (`Rollback` or commit).

**The refinement.** `RoundLifecycle` knows phase, outcome and ballot box of each
round. `phase` is the row's status, `outcome` its result, `box` the ballots of
both tables, a nominal one marked by its legislator and a secret one by its
ephemeral key. It lets a ballot in only while the round is open and never twice
under one mark, and has no way to change a final result.

### The audit ledger: `Merkle`, `Anchoring`

*State.* `status`, `tie`, `voters`, `name`, `ledger` are columns of PostgreSQL (whose
nominal votes or authorizations a round has, and what each legislator is called); `contract`
the mapping of `LegislativeNotary.sol`; `pending` and `mined` the transactions of
the server's one wallet, in the order of their nonces; `recent` the rounds whose
`RoundProclaimed` event lies in the last 1000 blocks. `txn[h]` is a request
between its count and its commit, at one of five places: asking the contract
(`check`, attempts after the first), building (`build`), sending (`send`),
waiting for the receipt (`wait`), about to commit (`anchored`).

*Steps.* `anchor_and_snapshot_round` makes three attempts and swallows what any
of them raises. `Synchronise`/`FindNothing` are its look at the contract and at
the event logs, `BuildTransaction`/`EstimateReverts` the nonce and the estimation
of gas, `CallFails` a call that fails or a transaction that never reaches the node,
`Send`, `SendRefused`, `SendReplaces` the node's answers, `Confirmed`,
`Reverted`, `TimedOut` the receipt's, `Commit` the one transaction that writes
ledger row, tie-breaking vote and status, `Crash` the loss of the process or of
the database at any of these places. `Mine` and `Age` are the chain.
`SendReplaces` is there because two requests can be given the same nonce.

*Roots.* A hash is the term it was computed from, so equal hashes were computed
from equal inputs, and a leaf is no inner node (the code hashes them under
different prefixes). `Listings` are the orders in which a query without ORDER BY
returns its rows; `Sorted` puts each at its `Place`, as a stable sort does;
`Levels` are what the list `nodes` holds in each round of the loop, up to the first
of length one (`IsTop`). A leaf of a vote or of an authorization hashes the
legislator's name (`NamedLeaf`), which `UpdateLegislator` changes at any time.

*Verification.* `VerifyE2E` is the portal's `verifyE2E`, without the signatures it also
checks; it looks for the lists of votes in the object it is given. `PublicAudit` is the
object it *is* given: the page passes on the whole answer of `/public/audit/{id}`
(`audit-shell.component.ts:69-72`), in which the lists lie one level down, under
`tally_payload`. So, as the page stands, the verification fails for every round
(lemma `NothingVerifiesAsFed` of `Anchoring_proofs`). What the two stores owe each other
is said of the record itself: `Rebuilds(r)` gives `VerifyE2E` the payload of the ledger
row.

*Not reached.* `proclaim_round` turns a `ContractCustomError` into an answer, but
the error is raised by the gas estimation, which is outside its `try`: the branch
is dead and not in the model. The library is modelled as the code uses it: with
the versions pinned in `pyproject.toml` (`web3` 7.16.0), `rawTransaction` and
`get_logs(fromBlock=...)` are names of an older interface, and an anchoring would
fail with an exception in each attempt.

### Sessions and agenda: `Sessions`

Nothing is locked here: each request is a beginning, which reads and decides,
and a commit, which writes what differs from what was read (the ORM's rule), or
a `Rollback`. `txn[h]` holds what was read. What is broadcast differs by router:
the status of a session after its commit (`CommitStatus`, then
`AnnounceStatus`), an item's update from a background task that runs *before*
the commit of the request's session (`AnnounceEdit`, then `CommitEdit`), so that
an announced update may yet be rolled back. `ghost` records which of the
overlaps happened; each property says what holds without them, and its exceptions
are the list of what can go wrong. Observations the model rests on: a failed
`ValueError` of `create_session` becomes a 500; the quorum of a start is counted
with `votesOrdinarily` true, attendance records of removed legislators included;
a pending session is deleted without a look at its rounds; rectification takes
any round that is not RESOLVED; two items APPROVED_IN_GENERAL, or in DEBATE, make
`GET /current` fail.

### Terminals' sockets and devices: `Connections`

*One process.* The manager's dictionaries change between awaits only, so what
lies between two awaits is one action: `TakeOver` ends at `await old.close()`,
`CompleteTakeOver` continues after it, and another socket's `JoinDevice` or
`TakeOver` can come in between. `queue[s]` is `_queues[s]`, `worker[s]` its task
(a cancelled task runs its `finally` later: `WorkerStops` closes the socket, which is
awaited, and `WorkerEnds` takes it out of the maps), `endpoint[s]` the
coroutine `ws_state`.

*Rows.* Enrolment holds the row of its legislator FOR UPDATE from the reading of
the token to the commit that burns it; a new token is generated for a row that was read
without a lock, and its write waits for that one; wipe and removal read without a lock,
tell the socket, then commit. `force_disconnect_device` awaits the `None` that
`_send_safe` returns, *after* the command was queued: the wipe of a connected
device therefore queues the command, raises `TypeError` and rolls back. A
legislator with two rows in `devices` is not found by `get_by_id`
(`MultipleResultsFound`, `models/legislator.py:52`): `Found`. The router's
description of the wipe says the legislator is soft-deleted too
(`device_router.py:49-52`); the service does not do it.

### The terminal: `Terminal`

Three threads share the screen and the keys: the service's, which handles events; the
observer's, which prepares an authorization for the round shown; the main thread, on
which every tap launches a coroutine that waits for the fingerprint and the network.
`jobs` are those coroutines, submissions of votes and of authorizations: nothing
disables a button while one is under way (`VotingScreen.kt:241`,
`VotingViewModel.kt:251-316`), so a second tap is a second job. `SessionManager.updateState`
looks whether the device is revoked, then writes: on the main thread these are two steps
(`writing`), and no other step of that thread comes between them (`MainIsFree`).

`blind` is the memory of `BlindSignatureManager`. Preparing a token replaces round, key
pair, blinded token and factor, and keeps an older signature, as the code does; with a
key that cannot be read it throws after the round and the key pair were replaced, the
state becomes `Error`, and the retry finds a round that seems prepared and asks for the
authorization of the *earlier* round's blinded token (`cached`; `JitAuthorizationManager.kt:86`,
`BlindSignatureManager.kt:41-60`). Such a key is not far-fetched: the opening announces
the ephemeral key of the *session*, a null one arrives as the text `"null"`
(`SessionKeepAliveService.kt:86`, `KeyOfEvent`), and `POST /ephemeral-key` takes any text
at any time, in any status (`SetSessionKey`, `Unreadable`). Ballots are verified with the
key of the *round*, and nothing in the repository sets the one to the other:
`SessionKeys` says what the session's key may be. `submitSignature` sends the token it was
given and uses the round the state requires *now*. `DRAFT`, `CLOSED` and `TIED` branches
of `initializeSession` never run (the server answers with open rounds only).

### Mutations

Operators introduced by "Mutation of ..." are plausible bugs of the
definition below them. They are used by nothing; each shows that one property
notices the bug.

## 3 Runs and what they show

| Run | Config | Checks | Shows |
|---|---|---|---|
| `round_count` | `MCRoundCount.cfg` | `ResultIsExact`, `PassedOutvotes`, `SuggestionStands`, `QuorumIsAMajority` | the arithmetic and the readings of a chamber that changes both ways: 10 500 000 states |
| `nominal` | `NominalRounds.cfg` | `TypeOK`, `StillAsChecked`, `OneOpenRoundPerSession`, `SpecificFollowsGeneral`, `ImplementsLifecycle`, `ItemsFollowRounds` | three rounds of one agenda item, in general and on the particulars, two concurrent requests, a presiding officer who breaks ties: 571 000 states |
| `secret` | `SecretRounds.cfg` | `NoOvervote` | two secret rounds, two voters, two keys: 571 000 states, 41 deep |
| `chamber` | `Chamber.cfg` | `PassedOutvotes` | a round while members come, go, are registered and removed, and its draft is edited: 388 000 states |
| `staged` | `StagedRounds.cfg` | `EveryRequestEnds` | a round in general and one on the particulars; liveness under `FairSpec`: 57 000 states |
| `anchoring` | `Anchoring.cfg` | `TypeOK`, `ReceiptIsOfTheAnchor`, `EveryAnchorHasItsRequest`, `RecoveredMatches`, `VerifiedIsAnchored`, `FinalForEver`, `RetryRecovers` | a nominal round and a tied secret one, anchored by two requests of three attempts with a fault, a late authorization and a voter who is renamed; liveness under `FairSpec`: 392 000 states |
| `connections` | `Connections.cfg` | `TypeOK`, `TokenEnrolsOnce`, `RegisteredIsServed`, `OpenIsRegistered`, `RevokedOnlyIfLate`, `RemovedHasNoDevice`, `DepartureIsCounted`, `WipeIsNotLost` | three sockets of two devices against enrolment, wipe and removal: 1 496 000 states |
| `sessions` | `Sessions.cfg` | `TypeOK`, `CurrentIsServed`, `AnnouncedIsCommitted`, `DeletedItemIsClosed`, `SettledOnceStarted`, `StartsWithMajority`, `MarksTakeEffect` | two sessions, items and rounds, four requests of which two overlap: 825 000 states |
| `terminal` | `Terminal.cfg` | `TypeOK`, `LockedIsRecorded`, `InvitesOnlyToOpen`, `MaterialIsKept`, `RevokedIsFinal` | the presiding officer's terminal in a secret and a nominal round, two submissions at once, a session key that changes and may be unreadable, one fault, one start: 2 810 000 states, 40 deep |
| `late_edit` | `LateEdit.cfg` | `EditedOnlyInDraft`, violated | a PATCH or DELETE overtaken by the opening |
| `documented_count` | `DocumentedCount.cfg` | `ResultAsDocumented`, violated | the denominator of MEMBERS_PRESENT is not the documented snapshot |
| `unnamed_voters` | `UnnamedVoters.cfg` | `ProclamationCanCommit`, violated | a round with a vote cannot be proclaimed |

The three violations are real disagreements:

- **`EditedOnlyInDraft`.** The routers say of PATCH and DELETE "Only allowed if
  status is DRAFT." The services read the status without a lock. The trace: a
  PATCH reads the draft, the opening commits, the PATCH commits. A round that
  takes nominal votes becomes a secret one; a deleted open round keeps the
  session's place in the index and no other round can be opened.
- **`ResultAsDocumented`.** The enumeration documents the quorum snapshot; the
  code divides by the larger of snapshot and votes. The code's rule is the one
  `PassedOutvotes` needs (its mutation is the documented rule).
- **`ProclamationCanCommit`.** See *The snapshot* above.

`PassedOutvotes` in `VotingRounds` asks "in one of the two tables", because an
overtaken PATCH can switch the table a round is counted from.

Properties with exceptions. Where nothing is locked, or a store cannot be rolled
back, the promise holds only up to a race, and the property names the race
through a history variable: a hazard that was thought of and is excluded is
visible in the formula, one that was not would be a counterexample. What the
exceptions amount to:

- `SuggestionStands`: the tally endpoint leaves out the abstentions and counts the roll
  at its own time. The presidency can be shown PASSED and proclaim FAILED, by late
  registrations or by more voters than the snapshot counted, abstentions among them;
  the property says that there is no third way, and in which direction each works.
- `RecoveredMatches`: a proclamation is recovered from the event of an earlier
  one that did not commit. Between the two a voter can have been authorized or
  renamed, or another tie-breaking vote signed: the ledger row then has other data
  than the contract, and no record of it will ever rebuild the anchored roots. Without
  such a change the record of every final result does; that the portal's page does not
  hand this record to the verification is another matter (see *Verification* above).
- `ItemsFollowRounds`: a tie-breaking vote finds the status it wants on its item and
  has nothing to write; before it commits, another round of the item is resolved.
  The item keeps what that round decided although the tie-breaking vote was the
  later one: an item approved in general by a tie-breaking vote can stay REJECTED.
- `CurrentIsServed`, `AnnouncedIsCommitted`, `DeletedItemIsClosed`: twins created at
  once, a CLOSED session reopened, a second item on the floor; overlapping
  requests, an announced update that was not committed, a proclamation (which
  broadcasts a round, not an item); a TIED or ABORTED round cloned after its item
  was deleted.
- `OpenIsRegistered`, `RevokedOnlyIfLate`, `RemovedHasNoDevice`: a third connection
  during a take-over; a socket registered after the revoking request had looked;
  an enrolment that committed inside a removal.
- `LockedIsRecorded`, `InvitesOnlyToOpen`, `RevokedIsFinal`: a submission that ends
  under another round; a missed or reordered event or an older answer; the thread that
  had passed the check of `updateState`, which contradicts the comment there but needs
  one particular interleaving of two lines.
- `MaterialIsKept`: the material of a round is given up (`gaveUp`) when another round's
  is prepared, at the end of a ballot, successful or not, and with the process; it is
  mixed with another round's (`mixed`) when it is prepared while the memory holds an
  older signature or with a key that cannot be read, and when the answer for another
  round comes late. What remains is what one round owes itself: repeated openings,
  retries, second taps and late answers of the same round cost it nothing, and even in a
  round prepared with an unreadable key the token that was signed is still the blinded
  one.

## 4 Bounds

Handlers are bounded by the size of `Handlers`, everything else by the sets of
identifiers. Two handlers are enough for every pairwise race: each handler holds
at most one round and one item, so a third adds waiting but no new overlap of
two transactions; the proofs remove the bound. Two rounds of one session are
the least for the index, a rectified round and its clone, and general/specific.
One session and one item: sessions share no row; the round's item is what two
rounds compete for. Two legislators, two keys and two rounds in
`secret` make concurrent and late authorizations and ballots. In `chamber` three legislators, of whom one is removable, two are
newcomers and both of these change their attendance, let the three readings of
the chamber differ in each direction, and several vote in one round. In `nominal` and
`staged` one legislator, who presides, reaches every result (he votes, abstains by
not voting, and breaks the tie). `nominal` has three rounds: one that passed in
general, and two whose decisions overlap; with two rounds the exception of
`ItemsFollowRounds` cannot occur. `staged` has two, because liveness is checked
without symmetry.
`MaxMembers = 5` in `round_count` covers even and odd rolls, with every base,
five thresholds (plurality, a third, a half, two thirds, all) and four
presidencies; members come and go, and are registered and removed, until the
proclamation. `Values` leaves abstentions to `RoundCount`.

`anchoring`: the nominal round has one ballot (a tree of one leaf), the secret
one two ballots and a tie-breaking vote (three leaves: an odd level), and a roll
of two that may grow to three; the voter of the nominal round may be renamed. Two
requests share the wallet, so nonces collide; three attempts are the code's own; one
fault is a lost call, a lost answer or a crash, at any place of a request. The proofs
have none of these bounds.

`connections`: one legislator with two devices meets every race of the rows
(replacement, wipe, removal against enrolment); three sockets are the least for
a connection during a take-over. `MaxQueue = 1` makes queues overflow after one
event, where the code has 1000. `Calm` (in `MCConnections`) opens the third socket
only while the rows are at rest. The proofs have none of these bounds.

`sessions`: of every race two requests and two rows are enough; `MaxRequests = 4`
lets two overlapping requests be prepared by two others. `ItemStatus` has the two
statuses of the floor and one for the rest. The proofs have none of these bounds.

`terminal`: two rounds of each kind of vote, two tokens (one given up, one in
use), four requests (both rounds opened and ended), one lost message or restart,
one application start. `Jobs` are two: any two submissions overlap, of votes, of
authorizations or one of each. The session's key is the secret round's or null (which
arrives as an unreadable text). `Bounds` (in `MCTerminal`) keeps two events on their way
at most, enough for a reordering, and one while something is being submitted; two
submissions overlap only before the first fault and while no answer to `GET /current` is
on its way; after a wipe only what was under way on the main thread goes on. The proofs
have none of these bounds.

Symmetry: handlers, rounds, tokens, sockets, devices, sessions, items and submissions are
interchangeable in the runs that use it; none of these checks liveness.

## 5 Fairness and deadlock

`FairSpec` is strong fairness of `Continue(h)`: a request that has started and
can run its next statement again and again runs it. PostgreSQL queues the
transactions that wait for a row lock, so a lock that is released again and
again is granted in the end: weak fairness would let a stream of FOR SHARE locks
starve a waiting UPDATE, which the queue prevents. Nobody is obliged to send
anything, so no other action is fair, and a `Rollback` is never needed for a
request to end.

In `Anchoring`, `FairSpec` is weak fairness of `Mine` (a chain that produces
blocks mines what is pending) and of `Continue(h)` (a request runs on: its waits
end with an answer or a timeout). Faults are bounded and never fair. Under it
`RetryRecovers` says that a request that meets an anchor left by an earlier one
commits the result; it needs the event to stay among the recent blocks, which
nothing guarantees. `Sessions`, `Connections` and `Terminal` state no liveness:
nobody is obliged to send, connect or vote, and what must happen after a step
(a departure is counted, a wipe is sent) is stated as an invariant or an action
property that no fairness is needed for.

All configs turn deadlock checking off because the system may
really stop: when every round is final and no request is running, nothing need
happen. That no *request* gets stuck is `EveryRequestEnds`.

## 6 What is proved, and how

Assumptions: keccak has no collisions (it is so in `Merkle`, by construction), and
the named ASSUMEs of `VotingRounds`, `RoundCount`, `Anchoring`,
`Connections`, `Sessions` and `Terminal`: types of the constants, that some sets are finite
and that `None` and rows of different tables differ. TLC evaluates them in every
run. Nothing is assumed of the number of rounds, sessions, items, sockets or
handlers.

- `QuorumRules_proofs`: the arithmetic for all numbers. The quorum is the least
  majority; a certified quorum is a majority of the voting seats whether or not
  the presiding officer is present or a member; the integer test is the exact
  test; what passes under a majority rule has more votes for than against.
- `RoundCount_proofs`: from these, `TypeOK` (proved, and not among the checks of a run), `ResultIsExact`, `PassedOutvotes`,
  `SuggestionStands` and `QuorumIsAMajority` as theorems of `Spec` for a chamber of any size. The
  inductive invariant adds that a proclaimed result is the function of counts
  that no longer change, and the last suggestion that of the same votes and the roll it
  was made from. `SuggestionStands` compares two denominators: a larger one asks for no
  fewer votes (`LargerAsksForMore`), so two decisions about the same votes differ only in
  its direction, or where one of them is 0 (`DecisionsDiffer`).
- `VotingRounds_proofs`: `IInv == TypeOK /\ LocksExclusive /\ StillAsChecked`. No
  conjunct is inductive alone: a handler's check survives because nobody else
  can lock its row (`LocksExclusive`), and locks stay exclusive because each
  handler acquires its own under the guard. `OneOpenRoundPerSession` follows
  from `IInv` with the index; the look before the write plays no part in the
  proof. `SpecificFollowsGeneral` needs `StagesInv`: a handler that is creating a
  round on the particulars has seen a general round that passed, and what passed
  stays (a result is final). `PassedOutvotes` needs `OutvotesInv`: between count
  and commit the lock keeps both tables as they were counted, and after it no vote
  enters a round that is not open.
  Every step of `Spec` is, under `IInv`, a step of `RoundLifecycle` or a stutter:
  `StillAsChecked` gives each abstract action its guard, the unique constraints
  give it fresh marks. `NoOvervote` needs `SecretInv`: each round has its own key,
  every signature was given for an authorized voter's token, every ballot counted
  or in flight is backed by one, tokens are spent once. The map from ballots to
  voters is then injective, and finite sets do the rest. `ItemsFollowRounds` follows
  from `IInv`: the status a result gives its item does not depend on the one that was
  read, so a stale reading decides only whether anything is written.
- `Merkle_proofs`: two theorems about trees of any size. `RootIsOfTheSet`: leaves
  that are all different have one root, in whatever order their rows are read.
  `RootDeterminesLeaves`: two finite sets of leaves with one root are the same set.
  The first is about sorting: the places of a list without repetitions are all
  different, so `Sorted` is increasing, and a set has only one increasing listing.
  For the second, each level has half the nodes of the one below, rounded up, so
  the loop ends; equal tops were made from equal levels all the way down, because
  a node determines its two children (a set, read with the odd node in mind) and
  no leaf is a node, so neither loop can end before the other. The inductions are
  over numbers and need no library theorem with an operator as a parameter: a
  claim about all *k* is a set, `{k \in Nat : ...}`, and a set of numbers that has 0
  and every successor is all of them (`SetInduction`, from `LeastElement`, which is the
  well-foundedness of `<` on the naturals). The
  recursive function of the levels is defined for every *k* by the same means
  (`FirstLevelsExist`, `LevelsAreRecursive`).
- `Anchoring_proofs`: all six safety properties of the run. The invariant `IInv`
  joins the two stores: a lock has one holder and its round is not final; every
  nonce below the next is taken once; an entry of the contract was mined with its
  nonce, and a transaction mined with success has its entry; a request about to
  commit holds that entry's nonce. `RootInv` says that every transaction, in
  preparation, pending or mined, has the roots of some listings of the payload it
  was made from. With `RootIsOfTheSet` it gives `RecoveredMatches`: the entry of a
  final round is that of its own request or of one that was given up, and if those
  wanted the same payload, its roots are the ones the ledger row rebuilds. With
  `RootDeterminesLeaves` it gives `VerifiedIsAnchored`: a row that verifies has the
  votes and the roll that were anchored. `FinalForEver` needs the row lock: while a request
  holds a round that is not final, no other can have published it. The lemma
  `NothingVerifiesAsFed` is about the page and not the stores: what it hands to the
  verification has no lists of votes, whatever the round.
- `Connections_proofs`: all eight properties of the run. The rows: tokens in
  `provisioning` are fresh, because each enrolment burns its own under the lock.
  The manager: by the phase of each endpoint, what the maps, the queue and the
  worker of its socket are, and a worker that has failed has a socket that is no longer
  open; a take-over in progress owns its place until it completes.
- `Sessions_proofs`: all seven properties of the run. `RequestOK(h)` says that a
  request without competition still finds what it read; `Sole`, that of two
  requests about the same row the overlap was recorded. A step is a beginning, a
  request that touches what it is about and nothing else (`Serves`), or one from
  outside (`Outside`): one lemma each carries the invariant over, and each action
  is shown to be one of the three.
- `Terminal_proofs`: all five properties of the run. The invariant says what each
  thread and each submission may rely on when it goes on. Screens: what the main thread
  is about to write is justified like what is shown (`VotesInv`), and after a wipe nothing
  is about to be written unless the wipe came between check and write (`RevocationInv`).
  Events: a round shown as open, or whose opening is on its way, is open or has an
  event behind it that ends it (`InvitationsInv`), which is why an empty queue
  proves `InvitesOnlyToOpen`. Material: every token that is signed, asked for or under way
  in a submission is the blinded token of its round in the memory, or that round's
  material was given up (`SignedIsOwned`, `RequiredIsHeld`, `JobIsOwned`); key pair, blinded
  token and signature belong together unless the round was mixed with another
  (`MaterialIsWhole`). So an answer that names the round it was asked for authorizes
  that round (`AuthorizationInv`). A preparation that throws gives up the
  round before, as every preparation does, and leaves the new one mixed; the first three
  hold of it nevertheless, because the retry asks for the token in the memory. The bounds of `MCTerminal`
  are not
  assumed.

Model-checked only: `EveryRequestEnds` and `RetryRecovers` (liveness and ENABLED are
out of the prover's reach). `EveryRequestEnds` is said of requests that have begun; one
that waits for its first lock holds nothing, and nobody waits for it. Every safety invariant and action property of the
passing runs is a theorem. No RECURSIVE operator is used.

## 7 What is not modelled

Signatures, blinding, hashes and JSON payloads stand for what they attest. The
anti-replay window (a clock compared with a signed timestamp) and the expiry of
provisioning tokens are choices of outcome: a late request is one that fails.

- *Chamber control plane, transparency portal pages*: views of the events and of
  the ledger, and a source of requests; nothing depends on what they display. The
  portal's verification is in `Anchoring`.
- *Users, authentication, roles, cookies*: who may call what, sequential CRUD.
- *Voting types*: CRUD of a table whose records are constants of `VotingRounds`.
- *Configuration, logging, migrations, generated contract types*: no behaviour of
  their own.
- *Of modelled components*: display columns, titles and timestamps; the creation of
  agenda items; contact data of legislators (their names are in `Anchoring`, the one
  place where an edit of them matters); the authentication and the payloads of dashboards; and of the
  terminal its provisioning screens, the countdown, key derivation, the second
  collector of events that `onStartCommand` launches, and data races inside
  `BlindSignatureManager` (its fields are read and written without a lock by two
  threads; the model lets its operations interleave, not their lines).

`PROJECT.json` lists every component and hazard. Five hazards have no property that would
catch them, because the code does what they say; the models have each of them, and a property that
comes near one names it as its exception:

- the volatile keys wiped by a failed submission (`VotingViewModel.kt:306`), on purpose:
  the round is given up;
- the answer to another round's authorization and the signature of the round before
  (`JitAuthorizationManager.kt:111`, `BlindSignatureManager.kt:90`), and a key that cannot be
  read (`BlindSignatureManager.kt:60`): the round is mixed with another, and the terminal
  may take itself for authorized without a signature of this round's token;
- a voter renamed between an anchoring and its recovery (`legislator_service.py:93`):
  the exception of `RecoveredMatches`;
- what the portal's page hands to the verification (`audit-shell.component.ts:72`): not a
  matter of steps, so a lemma says it.

Other hazards are covered up to the race itself; their notes in `PROJECT.json` say so.

## 8 Plan

Done, in this order: `QuorumRules` and `RoundCount`; `RoundLifecycle` and
`VotingRounds`; `Merkle` and `Anchoring`; `Sessions`; `Connections` (with devices and
provisioning); `Terminal`; proofs about all of them, the last of them about Merkle
roots and the portal's verification.

Left: a composition of `Connections` and `Terminal`, the lost and reordered events of
the one explained by the queues of the other.
