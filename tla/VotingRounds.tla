---------------------------- MODULE VotingRounds ----------------------------
(***************************************************************************)
(* The core of the orchestrator: voting rounds, the votes cast in them and *)
(* the HTTP handlers that work on them concurrently (orchestrator:         *)
(* voting_round_service.py, vote_service.py and their routers).            *)
(*                                                                         *)
(* The tables are variables.  A handler runs in one PostgreSQL transaction *)
(* at READ COMMITTED: what it read before it got a lock is kept in txn and *)
(* may be stale when it writes; a row it locked FOR UPDATE or FOR SHARE    *)
(* stays locked until it commits or rolls back.  A handler that locks its  *)
(* row first and reads nothing else that can change is one action.         *)
(***************************************************************************)
EXTENDS QuorumRules, FiniteSets

CONSTANTS
    Legislators,       \* every legislator there ever is
    Newcomers,         \* those registered after the start
    Removable,         \* those the administration may soft-delete
    RollCall,          \* those marked PRESENT at the start
    Movers,            \* those whose attendance changes later
    Sessions, Items, Rounds, Tokens,
    Handlers,          \* bound: requests in flight at once
    Values,            \* the vote values the terminals send
    VotingTypes,       \* records [base, threshold]
    PresType,          \* pres_type of each session
    PresidingOfficer,  \* presiding_officer_id of each session, or None
    Drafts,            \* the bodies POSTed to create a round
    Revisions,         \* the parameters PATCHed into a draft
    NamedInParts,      \* legislators have the first_name and last_name that the
                       \* snapshot reads; in the code they have a full_name only
    None

VoteValue == {"AFFIRMATIVE", "NEGATIVE", "ABSTENTION"}
RoundStage == {"SINGLE", "GENERAL", "SPECIFIC"}
RoundStatus == {"DRAFT", "VOTING_OPEN", "VOTING_CLOSED", "RESOLVED", "TIED", "ABORTED"}
ItemStatus == {"DEBATE", "APPROVED_IN_GENERAL", "APPROVED", "REJECTED"}

\* The columns update_voting_round may write that have an effect on the count.
Params == [nominal: BOOLEAN, presVotes: BOOLEAN, type: VotingTypes]
Draft == [session: Sessions, item: Items, stage: RoundStage, params: Params]

ASSUME VotingRoundsAssumption ==
    /\ IsFiniteSet(Legislators) /\ IsFiniteSet(Tokens)
    /\ Legislators \cap Tokens = {}
    /\ Newcomers \subseteq Legislators /\ Removable \subseteq Legislators \ Newcomers
    /\ RollCall \subseteq Legislators /\ Movers \subseteq Legislators
    /\ Values \subseteq VoteValue
    /\ VotingTypes \subseteq [base: CalculationBase, threshold: Thresholds]
    /\ PresType \in [Sessions -> PresidentType]
    /\ PresidingOfficer \in [Sessions -> Legislators \cup {None}]
    /\ Drafts \subseteq Draft /\ Revisions \subseteq Params
    /\ NamedInParts \in BOOLEAN
    /\ None \notin Legislators

VARIABLES
    rounds,        \* voting_rounds, status NONE where there is no row
    nominalVotes,  \* nominal_votes
    voters,        \* non_nominal_voters
    tallies,       \* non_nominal_tallies
    signed,        \* blind signatures the server has given out, by round key
    itemStatus,    \* agenda_items.status
    present,       \* the PRESENT rows of session_attendances
    active,        \* legislators not soft-deleted, with their active device
    txn            \* the transaction each handler is in

vars == <<rounds, nominalVotes, voters, tallies, signed, itemStatus, present, active, txn>>

NoRow == [status |-> "NONE", deleted |-> FALSE, session |-> None, item |-> None,
          stage |-> "NONE", params |-> None, key |-> None, quorum |-> 0,
          result |-> "NONE", tieBreaker |-> "NONE"]

Row == {NoRow} \cup
    [status: RoundStatus, deleted: BOOLEAN, session: Sessions, item: Items,
     stage: RoundStage, params: Params, key: Rounds, quorum: Nat,
     result: Results \cup {"NONE"}, tieBreaker: {"NONE", "AFFIRMATIVE", "NEGATIVE"}]

\* Mutation of NewRow: no key is generated.
NewRowWithoutKey(d, key) ==
    [status |-> "DRAFT", deleted |-> FALSE, session |-> d.session, item |-> d.item,
     stage |-> d.stage, params |-> d.params, key |-> None, quorum |-> 0,
     result |-> "NONE", tieBreaker |-> "NONE"]

\* A draft with the RSA key generated for it: keys are named by their round.
NewRow(d, key) ==
    [status |-> "DRAFT", deleted |-> FALSE, session |-> d.session, item |-> d.item,
     stage |-> d.stage, params |-> d.params, key |-> key, quorum |-> 0,
     result |-> "NONE", tieBreaker |-> "NONE"]

NominalVote == [round: Rounds, legislator: Legislators, value: VoteValue]
NonNominalVoter == [round: Rounds, legislator: Legislators, token: Tokens]
NonNominalTally == [round: Rounds, token: Tokens, value: VoteValue]
Signature == [key: Rounds, token: Tokens]

\* What a handler has read and not yet written.  A nominal vote is "verifying"
\* until its handler has the round FOR SHARE, and "casting" from then on.  A
\* proclamation is "proclaiming" with its round locked, and "anchoring" once it
\* has locked the agenda item too.
Idle == [op |-> "idle"]
Txn ==
    {Idle}
    \cup [op: {"creating"}, round: Rounds, draft: Drafts]
    \cup [op: {"updating"}, round: Rounds, read: Params, write: Params]
    \cup [op: {"deleting"}, round: Rounds]
    \cup [op: {"opening"}, round: Rounds, quorum: Nat]
    \cup [op: {"verifying", "casting"}, round: Rounds, legislator: Legislators,
          value: VoteValue]
    \cup [op: {"authorizing"}, round: Rounds, legislator: Legislators, token: Tokens]
    \cup [op: {"spending"}, round: Rounds, token: Tokens, value: VoteValue]
    \cup [op: {"proclaiming"}, round: Rounds, result: Results]
    \cup [op: {"anchoring"}, round: Rounds, result: Results \ {"TIED"}]
    \cup [op: {"rectifying"}, round: Rounds, clone: Rounds]
    \cup [op: {"tieBreaking"}, round: Rounds, value: {"AFFIRMATIVE", "NEGATIVE"},
          read: ItemStatus]

Init ==
    /\ rounds = [r \in Rounds |-> NoRow]
    /\ nominalVotes = {}
    /\ voters = {}
    /\ tallies = {}
    /\ signed = {}
    /\ itemStatus = [i \in Items |-> "DEBATE"]
    /\ present = [s \in Sessions |-> RollCall]
    /\ active = Legislators \ Newcomers
    /\ txn = [h \in Handlers |-> Idle]

-----------------------------------------------------------------------------
(* Transactions and row locks.                                             *)

Begin(h, t) ==
    /\ txn[h] = Idle
    /\ txn' = [txn EXCEPT ![h] = t]

Finish(h) == txn' = [txn EXCEPT ![h] = Idle]

Proclaiming == {"proclaiming", "anchoring"}
ForUpdateOps == {"opening", "tieBreaking", "rectifying"} \cup Proclaiming
ForShareOps == {"casting", "spending"}

Holds(h, r, ops) == txn[h].op \in ops /\ txn[h].round = r

\* Mutation of CanLockForUpdate: the vote handlers read their round unlocked.
CanLockDespiteShare(r) == \A h \in Handlers : ~Holds(h, r, ForUpdateOps)

\* SELECT ... FOR UPDATE, and the UPDATE of a row, wait for every other lock.
CanLockForUpdate(r) == \A h \in Handlers : ~Holds(h, r, ForUpdateOps \cup ForShareOps)

\* SELECT ... FOR SHARE, and the foreign key check of an INSERT that refers to
\* the row, wait only for FOR UPDATE.
CanLockForShare(r) == \A h \in Handlers : ~Holds(h, r, ForUpdateOps)

\* A proclamation that anchors has the agenda item FOR UPDATE, which the same lock
\* of another, an UPDATE of the item and an INSERT that refers to it wait for.
CanUseItem(i) ==
    \A h \in Handlers : ~(txn[h].op = "anchoring" /\ rounds[txn[h].round].item = i)

\* A handler raises, its connection is lost, the snapshot or its anchoring
\* fails, or the server restarts: the transaction leaves no trace.
Rollback(h) ==
    /\ txn[h] # Idle
    /\ Finish(h)
    /\ UNCHANGED <<rounds, nominalVotes, voters, tallies, signed, itemStatus, present, active>>

Exists(r) == rounds[r].status # "NONE" /\ ~rounds[r].deleted
HasStatus(r, status) == Exists(r) /\ rounds[r].status = status

votes == <<nominalVotes, voters, tallies, signed>>
chamber == <<itemStatus, present, active>>

-----------------------------------------------------------------------------
(* The presidency prepares rounds.                                         *)

\* Mutation of HasPassedGeneralRound: any round in general will do.
HasGeneralRound(i) ==
    \E r \in Rounds :
        /\ Exists(r)
        /\ rounds[r].item = i
        /\ rounds[r].stage = "GENERAL"

HasPassedGeneralRound(i) ==
    \E r \in Rounds :
        /\ Exists(r)
        /\ rounds[r].item = i
        /\ rounds[r].stage = "GENERAL"
        /\ rounds[r].result = "PASSED"

\* The identifier of a row that a handler is about to insert.
Allots(h, r) ==
    \/ Holds(h, r, {"creating"})
    \/ txn[h].op = "rectifying" /\ txn[h].clone = r

\* An identifier no row has and none will have: ids are UUIDs.
Fresh(r) == rounds[r].status = "NONE" /\ \A h \in Handlers : ~Allots(h, r)

\* create_voting_round; the item, the session and the type exist throughout.
CreateVotingRound(r, d) ==
    /\ d.stage # "SPECIFIC"
    /\ Fresh(r)
    /\ CanUseItem(d.item)
    /\ rounds' = [rounds EXCEPT ![r] = NewRow(d, r)]
    /\ UNCHANGED <<votes, chamber, txn>>

\* A round on the particulars: the rounds in general are read without a lock,
\* before the key is generated and the row inserted.
BeginSpecific(h, r, d) ==
    /\ d.stage = "SPECIFIC"
    /\ HasPassedGeneralRound(d.item)
    /\ Fresh(r)
    /\ Begin(h, [op |-> "creating", round |-> r, draft |-> d])
    /\ UNCHANGED <<rounds, votes, chamber>>

InsertSpecific(h) ==
    LET r == txn[h].round
        d == txn[h].draft
    IN
    /\ txn[h].op = "creating"
    /\ CanUseItem(d.item)
    /\ rounds' = [rounds EXCEPT ![r] = NewRow(d, r)]
    /\ Finish(h)
    /\ UNCHANGED <<votes, chamber>>

\* update_voting_round reads the round without a lock ...
BeginUpdate(h, r, p) ==
    /\ HasStatus(r, "DRAFT")
    /\ Begin(h, [op |-> "updating", round |-> r, read |-> rounds[r].params, write |-> p])
    /\ UNCHANGED <<rounds, votes, chamber>>

\* ... and writes the columns that differ from what it read.
Changed(current, read, write) ==
    [nominal   |-> IF write.nominal = read.nominal THEN current.nominal ELSE write.nominal,
     presVotes |-> IF write.presVotes = read.presVotes THEN current.presVotes
                                                       ELSE write.presVotes,
     type      |-> IF write.type = read.type THEN current.type ELSE write.type]

WriteUpdate(h) ==
    /\ txn[h].op = "updating"
    /\ CanLockForUpdate(txn[h].round)
    /\ rounds' = [rounds EXCEPT ![txn[h].round].params =
                                    Changed(@, txn[h].read, txn[h].write)]
    /\ Finish(h)
    /\ UNCHANGED <<votes, chamber>>

\* soft_delete_voting_round, likewise.
BeginDelete(h, r) ==
    /\ HasStatus(r, "DRAFT")
    /\ Begin(h, [op |-> "deleting", round |-> r])
    /\ UNCHANGED <<rounds, votes, chamber>>

WriteDelete(h) ==
    /\ txn[h].op = "deleting"
    /\ CanLockForUpdate(txn[h].round)
    /\ rounds' = [rounds EXCEPT ![txn[h].round].deleted = TRUE]
    /\ Finish(h)
    /\ UNCHANGED <<votes, chamber>>

-----------------------------------------------------------------------------
(* The presidency opens and closes a round.                                *)

OpenIn(s) == {r \in Rounds : rounds[r].session = s /\ rounds[r].status = "VOTING_OPEN"}

\* open_voting_round locks its own row, then reads the session's open round and
\* the quorum.
BeginOpen(h, r) ==
    LET s == rounds[r].session IN
    /\ CanLockForUpdate(r)
    /\ HasStatus(r, "DRAFT")
    /\ \A q \in OpenIn(s) : rounds[q].deleted
    /\ HasCertifiedQuorum(PresType[s], rounds[r].params.presVotes,
                          Cardinality(present[s]), Cardinality(active))
    /\ Begin(h, [op |-> "opening", round |-> r,
                 quorum |-> EffectiveCount(PresType[s], rounds[r].params.presVotes,
                                           Cardinality(present[s]))])
    /\ UNCHANGED <<rounds, votes, chamber>>

\* Mutation of OpenIndexAllows: the index is on the round, not on its session.
OpenIndexOnRound(r) == rounds[r].status # "VOTING_OPEN"

\* The index uq_one_open_round_per_session, which counts deleted rounds too.
OpenIndexAllows(r) == OpenIn(rounds[r].session) = {}

WriteOpen(h) ==
    LET r == txn[h].round IN
    /\ txn[h].op = "opening"
    /\ \/ /\ OpenIndexAllows(r)
          /\ rounds' = [rounds EXCEPT ![r].status = "VOTING_OPEN", ![r].quorum = txn[h].quorum]
       \/ /\ ~OpenIndexAllows(r)
          /\ UNCHANGED rounds
    /\ Finish(h)
    /\ UNCHANGED <<votes, chamber>>

\* close_voting_round.
CloseVotingRound(r) ==
    /\ CanLockForUpdate(r)
    /\ HasStatus(r, "VOTING_OPEN")
    /\ rounds' = [rounds EXCEPT ![r].status = "VOTING_CLOSED"]
    /\ UNCHANGED <<votes, chamber, txn>>

-----------------------------------------------------------------------------
(* A nominal vote.                                                         *)

\* cast_nominal_vote first finds the device and the legislator ...
VerifyVote(h, r, l, v) ==
    /\ l \in active
    /\ rounds[r].status # "NONE"
    /\ Begin(h, [op |-> "verifying", round |-> r, legislator |-> l, value |-> v])
    /\ UNCHANGED <<rounds, votes, chamber>>

\* ... then takes the round FOR SHARE and checks it and the attendance ...
LockForVote(h) ==
    LET r == txn[h].round IN
    /\ txn[h].op = "verifying"
    /\ CanLockForShare(r)
    /\ \/ /\ HasStatus(r, "VOTING_OPEN")
          /\ rounds[r].params.nominal
          /\ txn[h].legislator \in present[rounds[r].session]
          /\ txn' = [txn EXCEPT ![h].op = "casting"]
       \/ /\ \/ ~HasStatus(r, "VOTING_OPEN")
             \/ ~rounds[r].params.nominal
             \/ txn[h].legislator \notin present[rounds[r].session]
          /\ Finish(h)
    /\ UNCHANGED <<rounds, votes, chamber>>

\* ... and inserts the vote, which is unique by round and legislator.
HasVoted(r, l) == \E b \in nominalVotes : b.round = r /\ b.legislator = l

\* Mutation of InsertVote: it counts the vote on the round's own row as well.
InsertVoteAndCount(h) ==
    LET r == txn[h].round
        l == txn[h].legislator
    IN
    /\ txn[h].op = "casting"
    /\ \A g \in Handlers \ {h} : ~Holds(g, r, ForShareOps)
    /\ \/ /\ ~HasVoted(r, l)
          /\ nominalVotes' = nominalVotes
                \cup {[round |-> r, legislator |-> l, value |-> txn[h].value]}
       \/ /\ HasVoted(r, l)
          /\ UNCHANGED nominalVotes
    /\ Finish(h)
    /\ UNCHANGED <<rounds, voters, tallies, signed, chamber>>

InsertVote(h) ==
    LET r == txn[h].round
        l == txn[h].legislator
    IN
    /\ txn[h].op = "casting"
    /\ \/ /\ ~HasVoted(r, l)
          /\ nominalVotes' = nominalVotes
                \cup {[round |-> r, legislator |-> l, value |-> txn[h].value]}
       \/ /\ HasVoted(r, l)
          /\ UNCHANGED nominalVotes
    /\ Finish(h)
    /\ UNCHANGED <<rounds, voters, tallies, signed, chamber>>

-----------------------------------------------------------------------------
(* A secret vote: an authorization under the legislator's name, then a     *)
(* ballot under an ephemeral key that carries the server's signature.      *)

HasToken(r, l) == \E v \in voters : v.round = r /\ v.legislator = l

\* authorize_vote reads the round without a lock and asks neither whether it is
\* open nor whether the legislator is present.  A legislator authorized before
\* is refused another token, and given the signature of the same one again.
BeginAuthorize(h, r, l, t) ==
    /\ l \in active
    /\ Exists(r)
    /\ ~rounds[r].params.nominal
    /\ ~HasToken(r, l)
    /\ Begin(h, [op |-> "authorizing", round |-> r, legislator |-> l, token |-> t])
    /\ UNCHANGED <<rounds, votes, chamber>>

\* The row is unique by round and legislator; its signature leaves with it.
InsertVoter(h) ==
    LET r == txn[h].round
        l == txn[h].legislator
        t == txn[h].token
    IN
    /\ txn[h].op = "authorizing"
    /\ CanLockForShare(r)
    /\ \/ /\ ~HasToken(r, l)
          /\ voters' = voters \cup {[round |-> r, legislator |-> l, token |-> t]}
          /\ signed' = signed \cup {[key |-> rounds[r].key, token |-> t]}
       \/ /\ HasToken(r, l)
          /\ UNCHANGED <<voters, signed>>
    /\ Finish(h)
    /\ UNCHANGED <<rounds, nominalVotes, tallies, chamber>>

\* cast_anonymous_vote: whoever holds a token signed with the round's key.
BeginSpend(h, r, t, v) ==
    /\ CanLockForShare(r)
    /\ HasStatus(r, "VOTING_OPEN")
    /\ ~rounds[r].params.nominal
    /\ [key |-> rounds[r].key, token |-> t] \in signed
    /\ Begin(h, [op |-> "spending", round |-> r, token |-> t, value |-> v])
    /\ UNCHANGED <<rounds, votes, chamber>>

\* The ephemeral key is unique over all rounds.
IsSpent(t) == \E b \in tallies : b.token = t

InsertTally(h) ==
    LET t == txn[h].token IN
    /\ txn[h].op = "spending"
    /\ \/ /\ ~IsSpent(t)
          /\ tallies' = tallies
                \cup {[round |-> txn[h].round, token |-> t, value |-> txn[h].value]}
       \/ /\ IsSpent(t)
          /\ UNCHANGED tallies
    /\ Finish(h)
    /\ UNCHANGED <<rounds, nominalVotes, voters, signed, chamber>>

-----------------------------------------------------------------------------
(* The result.                                                             *)

NominalCount(r, v) == Cardinality({b \in nominalVotes : b.round = r /\ b.value = v})
TallyCount(r, v) == Cardinality({b \in tallies : b.round = r /\ b.value = v})

\* The table proclaim_voting_round counts.
VoteCount(r, v) == IF rounds[r].params.nominal THEN NominalCount(r, v) ELSE TallyCount(r, v)

ComputedResult(r) ==
    LET row == rounds[r] IN
    RoundResult(VoteCount(r, "AFFIRMATIVE"), VoteCount(r, "NEGATIVE"),
                VoteCount(r, "ABSTENTION"), row.params.type.base, row.params.type.threshold,
                row.quorum,
                EffectiveCount(PresType[row.session], row.params.presVotes,
                               Cardinality(active)))

VotersOf(r) == {v \in voters : v.round = r}
TalliesOf(r) == {b \in tallies : b.round = r}

\* extract_snapshot_data names every legislator in the record it anchors, and
\* asserts that no more ballots than voters are in it.
SnapshotSucceeds(r) ==
    \/ /\ rounds[r].params.nominal
       /\ NamedInParts \/ \A b \in nominalVotes : b.round # r
    \/ /\ ~rounds[r].params.nominal
       /\ NamedInParts \/ VotersOf(r) = {}
       /\ Cardinality(TalliesOf(r)) <= Cardinality(VotersOf(r))

\* proclaim_voting_round counts with the round locked ...
BeginProclaim(h, r) ==
    /\ CanLockForUpdate(r)
    /\ HasStatus(r, "VOTING_CLOSED")
    /\ ~rounds[r].params.nominal => Cardinality(TalliesOf(r)) <= Cardinality(VotersOf(r))
    /\ Begin(h, [op |-> "proclaiming", round |-> r, result |-> ComputedResult(r)])
    /\ UNCHANGED <<rounds, votes, chamber>>

\* ... and, unless it is a tie, waits for the agenda item with the round held ...
LockItem(h) ==
    /\ txn[h].op = "proclaiming"
    /\ txn[h].result # "TIED"
    /\ CanUseItem(rounds[txn[h].round].item)
    /\ txn' = [txn EXCEPT ![h].op = "anchoring"]
    /\ UNCHANGED <<rounds, votes, chamber>>

\* The agenda item of a round that is resolved.
ItemAfter(stage, result, before) ==
    CASE result = "PASSED" /\ stage = "GENERAL"  -> "APPROVED_IN_GENERAL"
      [] result = "PASSED" /\ stage # "GENERAL"  -> "APPROVED"
      [] result = "FAILED" /\ stage # "SPECIFIC" -> "REJECTED"
      [] OTHER -> before

\* ... and both stay locked while the router anchors the result, up to the commit.
CommitProclaim(h) ==
    LET r == txn[h].round
        res == txn[h].result
    IN
    /\ \/ /\ txn[h].op = "proclaiming"
          /\ res = "TIED"
          /\ rounds' = [rounds EXCEPT ![r].status = "TIED", ![r].result = res]
          /\ UNCHANGED itemStatus
       \/ /\ txn[h].op = "anchoring"
          /\ SnapshotSucceeds(r)
          /\ rounds' = [rounds EXCEPT ![r].status = "RESOLVED", ![r].result = res]
          /\ itemStatus' = [itemStatus EXCEPT ![rounds[r].item] =
                               ItemAfter(rounds[r].stage, res, @)]
    /\ Finish(h)
    /\ UNCHANGED <<votes, present, active>>

\* cast_tie_breaker_vote: the session's presiding officer, present, once.
\* It reads the agenda item without a lock, and writes a status that differs
\* from the one it read.
BeginTieBreak(h, r, l, v) ==
    /\ CanLockForUpdate(r)
    /\ HasStatus(r, "TIED")
    /\ rounds[r].tieBreaker = "NONE"
    /\ l = PresidingOfficer[rounds[r].session]
    /\ l \in active
    /\ l \in present[rounds[r].session]
    /\ v \in {"AFFIRMATIVE", "NEGATIVE"}
    /\ Begin(h, [op |-> "tieBreaking", round |-> r, value |-> v,
                 read |-> itemStatus[rounds[r].item]])
    /\ UNCHANGED <<rounds, votes, chamber>>

\* Mutation of CommitTieBreak: all columns of the item are written, as read.
CommitTieBreakWritingBack(h) ==
    LET r == txn[h].round
        res == IF txn[h].value = "AFFIRMATIVE" THEN "PASSED" ELSE "FAILED"
        i == rounds[r].item
    IN
    /\ txn[h].op = "tieBreaking"
    /\ SnapshotSucceeds(r)
    /\ CanUseItem(i)
    /\ rounds' = [rounds EXCEPT ![r].status = "RESOLVED", ![r].result = res,
                                ![r].tieBreaker = txn[h].value]
    /\ itemStatus' = [itemStatus EXCEPT ![i] = ItemAfter(rounds[r].stage, res, txn[h].read)]
    /\ Finish(h)
    /\ UNCHANGED <<votes, present, active>>

CommitTieBreak(h) ==
    LET r == txn[h].round
        res == IF txn[h].value = "AFFIRMATIVE" THEN "PASSED" ELSE "FAILED"
        i == rounds[r].item
        status == ItemAfter(rounds[r].stage, res, txn[h].read)
    IN
    /\ txn[h].op = "tieBreaking"
    /\ SnapshotSucceeds(r)
    /\ rounds' = [rounds EXCEPT ![r].status = "RESOLVED", ![r].result = res,
                                ![r].tieBreaker = txn[h].value]
    /\ \/ /\ status # txn[h].read
          /\ CanUseItem(i)
          /\ itemStatus' = [itemStatus EXCEPT ![i] = status]
       \/ /\ status = txn[h].read
          /\ UNCHANGED itemStatus
    /\ Finish(h)
    /\ UNCHANGED <<votes, present, active>>

\* rectify_voting_round: any round without a final result is voided and cloned.
\* The round stays locked while the key of the clone is generated ...
BeginRectify(h, r, n) ==
    /\ CanLockForUpdate(r)
    /\ Exists(r)
    /\ rounds[r].status # "RESOLVED"
    /\ Fresh(n)
    /\ Begin(h, [op |-> "rectifying", round |-> r, clone |-> n])
    /\ UNCHANGED <<rounds, votes, chamber>>

\* Mutation of InsertClone: the clone takes over the key.
InsertCloneKeepingKey(h) ==
    LET r == txn[h].round
        n == txn[h].clone
    IN
    /\ txn[h].op = "rectifying"
    /\ CanUseItem(rounds[r].item)
    /\ rounds' = [rounds EXCEPT ![r].status = "ABORTED",
                                ![n] = NewRow(rounds[r], rounds[r].key)]
    /\ Finish(h)
    /\ UNCHANGED <<votes, chamber>>

\* ... and while the INSERT waits for the agenda item that the clone refers to.
InsertClone(h) ==
    LET r == txn[h].round
        n == txn[h].clone
    IN
    /\ txn[h].op = "rectifying"
    /\ CanUseItem(rounds[r].item)
    /\ rounds' = [rounds EXCEPT ![r].status = "ABORTED", ![n] = NewRow(rounds[r], n)]
    /\ Finish(h)
    /\ UNCHANGED <<votes, chamber>>

-----------------------------------------------------------------------------
(* The chamber changes underneath.                                         *)

\* bulk_update_attendance, at any moment of the session.
SetAttendance(s, l) ==
    /\ present' = [present EXCEPT ![s] = IF l \in @ THEN @ \ {l} ELSE @ \cup {l}]
    /\ UNCHANGED <<rounds, votes, itemStatus, active, txn>>

\* create_legislator, with the enrolment of the legislator's terminal.
RegisterLegislator(l) ==
    /\ l \notin active
    /\ active' = active \cup {l}
    /\ UNCHANGED <<rounds, votes, itemStatus, present, txn>>

\* soft_delete_legislator: the attendance row and the votes stay.
RemoveLegislator(l) ==
    /\ l \in active
    /\ active' = active \ {l}
    /\ UNCHANGED <<rounds, votes, itemStatus, present, txn>>

-----------------------------------------------------------------------------
Presidency ==
    \/ \E r \in Rounds, d \in Drafts : CreateVotingRound(r, d)
    \/ \E r \in Rounds : CloseVotingRound(r)

Chamber ==
    \/ \E s \in Sessions, l \in Movers : SetAttendance(s, l)
    \/ \E l \in Newcomers : RegisterLegislator(l)
    \/ \E l \in Removable : RemoveLegislator(l)

Start(h) ==
    \E r \in Rounds :
        \/ \E d \in Drafts : BeginSpecific(h, r, d)
        \/ \E p \in Revisions : BeginUpdate(h, r, p)
        \/ BeginDelete(h, r)
        \/ BeginOpen(h, r)
        \/ \E l \in Legislators, v \in Values : VerifyVote(h, r, l, v)
        \/ \E l \in Legislators, t \in Tokens : BeginAuthorize(h, r, l, t)
        \/ \E t \in Tokens, v \in Values : BeginSpend(h, r, t, v)
        \/ BeginProclaim(h, r)
        \/ \E l \in Legislators, v \in Values : BeginTieBreak(h, r, l, v)
        \/ \E n \in Rounds : BeginRectify(h, r, n)

Continue(h) ==
    \/ InsertSpecific(h)
    \/ WriteUpdate(h) \/ WriteDelete(h) \/ WriteOpen(h)
    \/ LockForVote(h) \/ InsertVote(h)
    \/ InsertVoter(h) \/ InsertTally(h)
    \/ LockItem(h) \/ CommitProclaim(h) \/ CommitTieBreak(h)
    \/ InsertClone(h)

Next ==
    \/ Presidency
    \/ Chamber
    \/ \E h \in Handlers : Start(h) \/ Continue(h) \/ Rollback(h)

Spec == Init /\ [][Next]_vars

\* PostgreSQL queues the transactions that wait for a row, so a statement that
\* can run again and again is run in the end; nobody is bound to send anything.
FairSpec == Spec /\ \A h \in Handlers : SF_vars(Continue(h))

-----------------------------------------------------------------------------
(* Properties.                                                             *)

\* Rows, votes and transactions are what their tables and handlers can hold,
\* and only an existing round is ever referred to.
TypeOK ==
    /\ rounds \in [Rounds -> Row]
    /\ nominalVotes \subseteq NominalVote
    /\ voters \subseteq NonNominalVoter
    /\ tallies \subseteq NonNominalTally
    /\ signed \subseteq Signature
    /\ itemStatus \in [Items -> ItemStatus]
    /\ present \in [Sessions -> SUBSET Legislators]
    /\ active \subseteq Legislators
    /\ txn \in [Handlers -> Txn]

\* FOR UPDATE is exclusive, against FOR SHARE too, and an id is given out once.
LocksExclusive ==
    \A g, h \in Handlers, r \in Rounds :
        g # h => /\ Holds(g, r, ForUpdateOps) => ~Holds(h, r, ForUpdateOps \cup ForShareOps)
                 /\ Allots(g, r) => ~Allots(h, r)

\* What a handler found out about its round it may rely on when it writes: with
\* the row locked, all of it; without, only that the round is there.
ReliesOn(op) ==
    CASE op = "opening"     -> {"DRAFT"}
      [] op \in ForShareOps -> {"VOTING_OPEN"}
      [] op \in Proclaiming -> {"VOTING_CLOSED"}
      [] op = "tieBreaking" -> {"TIED"}
      [] op = "rectifying"  -> RoundStatus \ {"RESOLVED"}
      [] op = "creating"    -> {"NONE"}
      [] OTHER              -> RoundStatus

StillAsChecked ==
    \A h \in Handlers :
        /\ txn[h] # Idle => rounds[txn[h].round].status \in ReliesOn(txn[h].op)
        /\ txn[h].op = "rectifying" => rounds[txn[h].clone].status = "NONE"

\* The inductive invariant: the locks protect what was checked under them.
IInv == TypeOK /\ LocksExclusive /\ StillAsChecked

\* At most one round of a session takes votes at a time, whatever openings
\* race: each looks for an open round before it writes, and only the index
\* uq_one_open_round_per_session makes the look binding.
OneOpenRoundPerSession ==
    \A q, r \in Rounds :
        (/\ rounds[q].status = "VOTING_OPEN"
         /\ rounds[r].status = "VOTING_OPEN"
         /\ rounds[q].session = rounds[r].session)
        => q = r

\* A secret round never holds more ballots than authorized legislators, over
\* duplicate and concurrent authorizations, retries and rectified rounds.
\* (proclaim_voting_round and the snapshot refuse such a round for good.)
NoOvervote ==
    \A r \in Rounds : Cardinality(TalliesOf(r)) <= Cardinality(VotersOf(r))

\* Why: a ballot of a round, counted or about to be, has a token that a voter
\* of that round was authorized with, and no token is counted twice.
IsAuthorized(r, t) == \E v \in voters : v.round = r /\ v.token = t

SecretInv ==
    /\ \A r \in Rounds : rounds[r].status # "NONE" => rounds[r].key = r
    /\ \A s \in signed : IsAuthorized(s.key, s.token)
    /\ \A b \in tallies : IsAuthorized(b.round, b.token)
    /\ \A b, c \in tallies : b.token = c.token => b = c
    /\ \A h \in Handlers :
           txn[h].op = "spending" => IsAuthorized(txn[h].round, txn[h].token)
    /\ IsFiniteSet(voters)

\* A round on the particulars follows a round that passed in general, although
\* create_voting_round looks without a lock and rounds are rectified meanwhile.
SpecificFollowsGeneral ==
    \A r \in Rounds :
        rounds[r].stage = "SPECIFIC" =>
            \E g \in Rounds : /\ rounds[g].item = rounds[r].item
                              /\ rounds[g].stage = "GENERAL"
                              /\ rounds[g].result = "PASSED"

\* A final result reaches its agenda item in the same step, whichever request
\* brings it, and nothing else changes an item: not the tie-breaking vote, which
\* decides from a status it read without a lock.  Only if another round of the
\* item was resolved since (Overtaken) may the tie-breaking vote find nothing to
\* write and leave what the other round decided.
Resolves(r) == rounds[r].status # "RESOLVED" /\ rounds'[r].status = "RESOLVED"

Overtaken(r) ==
    \E h \in Handlers : /\ txn[h].op = "tieBreaking" /\ txn[h].round = r
                        /\ txn[h].read # itemStatus[rounds[r].item]

ItemsFollowRounds ==
    [][/\ \A r \in Rounds :
            LET i == rounds[r].item IN
            Resolves(r) =>
                \/ itemStatus'[i] = ItemAfter(rounds[r].stage, rounds'[r].result, itemStatus[i])
                \/ Overtaken(r) /\ itemStatus'[i] = itemStatus[i]
       /\ \A i \in Items : itemStatus'[i] # itemStatus[i] =>
            \E r \in Rounds : Resolves(r) /\ rounds[r].item = i]_<<rounds, itemStatus>>

\* Where every voting type asks for half or more of the votes or of the members
\* present, a motion that passed without the presiding officer has more votes
\* for it than against it in the table it was counted from, for ever.
MajorityTypes ==
    \A t \in VotingTypes :
        /\ t.base # "TOTAL_MEMBERS"
        /\ t.threshold = 0 \/ t.threshold >= 5000

PassedOutvotes ==
    MajorityTypes =>
        \A r \in Rounds :
            rounds[r].result = "PASSED" /\ rounds[r].tieBreaker = "NONE" =>
                \/ NominalCount(r, "AFFIRMATIVE") > NominalCount(r, "NEGATIVE")
                \/ TallyCount(r, "AFFIRMATIVE") > TallyCount(r, "NEGATIVE")

\* The refinement: a nominal ballot is marked by its legislator, a secret one
\* by its ephemeral key.
BallotsOf(r) ==
    {[mark |-> b.legislator, value |-> b.value] : b \in {c \in nominalVotes : c.round = r}}
    \cup {[mark |-> b.token, value |-> b.value] : b \in TalliesOf(r)}

Lifecycle == INSTANCE RoundLifecycle WITH
    Marks <- Legislators \cup Tokens,
    Values <- VoteValue,
    phase <- [r \in Rounds |-> rounds[r].status],
    outcome <- [r \in Rounds |-> rounds[r].result],
    box <- [r \in Rounds |-> BallotsOf(r)]

\* Every round keeps the promises of RoundLifecycle: no ballot is recorded
\* before the opening or after the close, none twice for one mark, and no
\* result is lost or changed, with any number of handlers in flight.
ImplementsLifecycle == Lifecycle!Spec

\* No request that has begun, and so has a row locked or holds what it read, waits
\* for ever: a proclamation and a rectification wait for an agenda item with their
\* round held, and no handler that holds the item waits, through others, for them.
\* (A request waiting for its first lock has not begun, and nobody waits for it.)
EveryRequestEnds == \A h \in Handlers : txn[h] # Idle ~> txn[h] = Idle

\* The proclaim endpoint "computes the result, generates Merkle Roots, anchors
\* [..] and statically saves the snapshot": a result that was computed can be
\* recorded, whoever voted.
ProclamationCanCommit ==
    \A h \in Handlers : txn[h].op = "anchoring" => ENABLED CommitProclaim(h)

\* The routers say of PATCH and of DELETE: only allowed if status is DRAFT.
EditedOnlyInDraft ==
    [][\A r \in Rounds :
          (rounds[r].params # rounds'[r].params \/ rounds[r].deleted # rounds'[r].deleted)
          => rounds[r].status \in {"NONE", "DRAFT"}]_rounds
=============================================================================
