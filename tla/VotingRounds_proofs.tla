------------------------ MODULE VotingRounds_proofs ------------------------
(***************************************************************************)
(* Proofs about VotingRounds, for any number of legislators, rounds,       *)
(* sessions and requests in flight: its invariants, that it implements     *)
(* RoundLifecycle, and that no secret round has more ballots than voters.  *)
(***************************************************************************)
EXTENDS VotingRounds, QuorumRules_proofs, FiniteSetTheorems, TLAPS

USE VotingRoundsAssumption

\* The rows of rounds that exist.
ExistingRow ==
    [status: RoundStatus, deleted: BOOLEAN, session: Sessions, item: Items,
     stage: RoundStage, params: Params, key: Rounds, quorum: Nat,
     result: Results \cup {"NONE"}, tieBreaker: {"NONE", "AFFIRMATIVE", "NEGATIVE"}]

LEMMA RowIsExisting ==
    ASSUME TypeOK, NEW r \in Rounds, rounds[r].status # "NONE"
    PROVE  rounds[r] \in ExistingRow
BY DEF TypeOK, Row, NoRow, ExistingRow

LEMMA RowIsNoRow ==
    ASSUME TypeOK, NEW r \in Rounds, rounds[r].status = "NONE"
    PROVE  rounds[r] = NoRow
BY DEF TypeOK, Row, NoRow, RoundStatus

LEMMA NewRowIsExisting ==
    ASSUME NEW d, d.session \in Sessions, d.item \in Items,
           d.stage \in RoundStage, d.params \in Params, NEW r \in Rounds
    PROVE  NewRow(d, r) \in ExistingRow
BY DEF NewRow, ExistingRow, RoundStatus

\* What get_certified_quorum counts are natural numbers.
LEMMA CountsAreNatural ==
    ASSUME TypeOK, NEW s \in Sessions
    PROVE  Cardinality(present[s]) \in Nat /\ Cardinality(active) \in Nat
<1>1. present[s] \in SUBSET Legislators /\ active \in SUBSET Legislators
  BY DEF TypeOK
<1>2. QED
  BY <1>1, FS_Subset, FS_CardinalityType

LEMMA QuorumIsNatural ==
    ASSUME NEW presType, NEW presVotes, NEW raw \in Nat
    PROVE  EffectiveCount(presType, presVotes, raw) \in Nat
BY DEF EffectiveCount, MaxOf, Seat

LEMMA ResultIsAResult ==
    ASSUME NEW r
    PROVE  ComputedResult(r) \in Results
BY DEF ComputedResult, RoundResult, Decide, Results

-----------------------------------------------------------------------------
(* Type correctness.                                                       *)

LEMMA InitTypeOK == Init => TypeOK
BY DEF Init, TypeOK, Row, Txn, ItemStatus

\* Which transaction a handler is in follows from its op.
LEMMA TxnByOp ==
    ASSUME TypeOK, NEW h \in Handlers
    PROVE  /\ txn[h].op = "creating" =>
                txn[h] \in [op: {"creating"}, round: Rounds, draft: Drafts]
           /\ txn[h].op = "updating" =>
                txn[h] \in [op: {"updating"}, round: Rounds, read: Params, write: Params]
           /\ txn[h].op = "deleting" => txn[h] \in [op: {"deleting"}, round: Rounds]
           /\ txn[h].op = "opening" =>
                txn[h] \in [op: {"opening"}, round: Rounds, quorum: Nat]
           /\ txn[h].op \in {"verifying", "casting"} =>
                txn[h] \in [op: {"verifying", "casting"}, round: Rounds,
                            legislator: Legislators, value: VoteValue]
           /\ txn[h].op = "authorizing" =>
                txn[h] \in [op: {"authorizing"}, round: Rounds, legislator: Legislators,
                            token: Tokens]
           /\ txn[h].op = "spending" =>
                txn[h] \in [op: {"spending"}, round: Rounds, token: Tokens,
                            value: VoteValue]
           /\ txn[h].op = "proclaiming" =>
                txn[h] \in [op: {"proclaiming"}, round: Rounds, result: Results]
           /\ txn[h].op = "anchoring" =>
                txn[h] \in [op: {"anchoring"}, round: Rounds, result: Results \ {"TIED"}]
           /\ txn[h].op = "rectifying" =>
                txn[h] \in [op: {"rectifying"}, round: Rounds, clone: Rounds]
           /\ txn[h].op = "tieBreaking" =>
                txn[h] \in [op: {"tieBreaking"}, round: Rounds,
                            value: {"AFFIRMATIVE", "NEGATIVE"}, read: ItemStatus]
           /\ txn[h] # Idle => txn[h].round \in Rounds
BY DEF TypeOK, Txn, Idle

\* Where one handler's transaction changes and the tables keep their types.
LEMMA FinishType ==
    ASSUME TypeOK, NEW h \in Handlers, Finish(h)
    PROVE  txn' \in [Handlers -> Txn]
BY DEF TypeOK, Finish, Txn

LEMMA BeginType ==
    ASSUME TypeOK, NEW h \in Handlers, NEW t \in Txn, Begin(h, t)
    PROVE  txn' \in [Handlers -> Txn]
BY DEF TypeOK, Begin

LEMMA PresidencyTypeOK == TypeOK /\ Presidency => TypeOK'
<1> SUFFICES ASSUME TypeOK, Presidency PROVE TypeOK'
  OBVIOUS
<1>1. ASSUME NEW r \in Rounds, NEW d \in Drafts, CreateVotingRound(r, d)
      PROVE  TypeOK'
  <2>1. d \in Draft
    OBVIOUS
  <2>2. NewRow(d, r) \in Row
    BY <2>1, NewRowIsExisting DEF Draft, Row, ExistingRow
  <2>3. QED
    BY <1>1, <2>2 DEF CreateVotingRound, TypeOK, votes, chamber
<1>2. ASSUME NEW r \in Rounds, CloseVotingRound(r)
      PROVE  TypeOK'
  <2>1. rounds[r] \in ExistingRow
    BY <1>2, RowIsExisting DEF CloseVotingRound, HasStatus, Exists
  <2>2. [rounds[r] EXCEPT !.status = "VOTING_CLOSED"] \in Row
    BY <2>1 DEF ExistingRow, Row, RoundStatus
  <2>3. QED
    BY <1>2, <2>2 DEF CloseVotingRound, TypeOK, votes, chamber
<1>3. QED
  BY <1>1, <1>2 DEF Presidency

LEMMA ChamberTypeOK == TypeOK /\ Chamber => TypeOK'
BY DEF Chamber, SetAttendance, RegisterLegislator, RemoveLegislator, TypeOK, votes

LEMMA StartTypeOK == ASSUME TypeOK, NEW h \in Handlers, Start(h) PROVE TypeOK'
<1> USE DEF votes, chamber
<1>1. SUFFICES txn' \in [Handlers -> Txn]
              /\ UNCHANGED <<rounds, nominalVotes, voters, tallies, signed,
                             itemStatus, present, active>>
  BY DEF TypeOK
<1>2. PICK r \in Rounds :
        \/ \E d \in Drafts : BeginSpecific(h, r, d)
        \/ \E p \in Revisions : BeginUpdate(h, r, p)
        \/ BeginDelete(h, r)
        \/ BeginOpen(h, r)
        \/ \E l \in Legislators, v \in Values : VerifyVote(h, r, l, v)
        \/ \E l \in Legislators, t \in Tokens : BeginAuthorize(h, r, l, t)
        \/ \E t \in Tokens, v \in Values : BeginSpend(h, r, t, v)
        \/ BeginProclaim(h, r)
        \/ \E l \in Legislators, v \in Values : BeginTieBreak(h, r, l, v)
        \/ \E n \in Rounds : BeginRectify(h, r, n)
  BY DEF Start
<1>3. CASE \E d \in Drafts : BeginSpecific(h, r, d)
  <2>1. PICK d \in Drafts : BeginSpecific(h, r, d)
    BY <1>3
  <2>2. [op |-> "creating", round |-> r, draft |-> d] \in Txn
    BY DEF Txn
  <2>3. QED
    BY <2>1, <2>2, BeginType DEF BeginSpecific
<1>4. CASE \E p \in Revisions : BeginUpdate(h, r, p)
  <2>1. PICK p \in Revisions : BeginUpdate(h, r, p)
    BY <1>4
  <2>2. rounds[r] \in ExistingRow
    BY <2>1, RowIsExisting DEF BeginUpdate, HasStatus
  <2>3. [op |-> "updating", round |-> r, read |-> rounds[r].params, write |-> p] \in Txn
    BY <2>2 DEF Txn, ExistingRow
  <2>4. QED
    BY <2>1, <2>3, BeginType DEF BeginUpdate
<1>5. CASE BeginDelete(h, r)
  <2>1. [op |-> "deleting", round |-> r] \in Txn
    BY DEF Txn
  <2>2. QED
    BY <1>5, <2>1, BeginType DEF BeginDelete
<1>6. CASE BeginOpen(h, r)
  <2> DEFINE s == rounds[r].session
             q == EffectiveCount(PresType[s], rounds[r].params.presVotes,
                                 Cardinality(present[s]))
  <2>1. s \in Sessions
    BY <1>6, RowIsExisting DEF BeginOpen, HasStatus, ExistingRow
  <2>2. q \in Nat
    BY <2>1, CountsAreNatural, QuorumIsNatural
  <2>3. [op |-> "opening", round |-> r, quorum |-> q] \in Txn
    BY <2>2 DEF Txn
  <2>4. QED
    BY <1>6, <2>3, BeginType DEF BeginOpen
<1>7. CASE \E l \in Legislators, v \in Values : VerifyVote(h, r, l, v)
  <2>1. PICK l \in Legislators, v \in Values : VerifyVote(h, r, l, v)
    BY <1>7
  <2>2. [op |-> "verifying", round |-> r, legislator |-> l, value |-> v] \in Txn
    BY DEF Txn
  <2>3. QED
    BY <2>1, <2>2, BeginType DEF VerifyVote
<1>8. CASE \E l \in Legislators, t \in Tokens : BeginAuthorize(h, r, l, t)
  <2>1. PICK l \in Legislators, t \in Tokens : BeginAuthorize(h, r, l, t)
    BY <1>8
  <2>2. [op |-> "authorizing", round |-> r, legislator |-> l, token |-> t] \in Txn
    BY DEF Txn
  <2>3. QED
    BY <2>1, <2>2, BeginType DEF BeginAuthorize
<1>9. CASE \E t \in Tokens, v \in Values : BeginSpend(h, r, t, v)
  <2>1. PICK t \in Tokens, v \in Values : BeginSpend(h, r, t, v)
    BY <1>9
  <2>2. [op |-> "spending", round |-> r, token |-> t, value |-> v] \in Txn
    BY DEF Txn
  <2>3. QED
    BY <2>1, <2>2, BeginType DEF BeginSpend
<1>10. CASE BeginProclaim(h, r)
  <2>1. [op |-> "proclaiming", round |-> r, result |-> ComputedResult(r)] \in Txn
    BY ResultIsAResult DEF Txn
  <2>2. QED
    BY <1>10, <2>1, BeginType DEF BeginProclaim
<1>11. CASE \E l \in Legislators, v \in Values : BeginTieBreak(h, r, l, v)
  <2>1. PICK l \in Legislators, v \in Values : BeginTieBreak(h, r, l, v)
    BY <1>11
  <2>2. itemStatus[rounds[r].item] \in ItemStatus
    BY <2>1, RowIsExisting DEF BeginTieBreak, HasStatus, ExistingRow, TypeOK
  <2>3. [op |-> "tieBreaking", round |-> r, value |-> v,
         read |-> itemStatus[rounds[r].item]] \in Txn
    BY <2>1, <2>2 DEF Txn, BeginTieBreak
  <2>4. QED
    BY <2>1, <2>3, BeginType DEF BeginTieBreak
<1>12. CASE \E n \in Rounds : BeginRectify(h, r, n)
  <2>1. PICK n \in Rounds : BeginRectify(h, r, n)
    BY <1>12
  <2>2. [op |-> "rectifying", round |-> r, clone |-> n] \in Txn
    BY DEF Txn
  <2>3. QED
    BY <2>1, <2>2, BeginType DEF BeginRectify
<1>13. QED
  BY <1>2, <1>3, <1>4, <1>5, <1>6, <1>7, <1>8, <1>9, <1>10, <1>11, <1>12

\* The steps that resolve a round end their transaction.
LEMMA CommitEnds ==
    ASSUME NEW h \in Handlers
    PROVE  /\ CommitProclaim(h) => txn[h].op \in {"proclaiming", "anchoring"} /\ Finish(h)
           /\ CommitTieBreak(h) => txn[h].op = "tieBreaking" /\ Finish(h)
<1>1. CommitProclaim(h) => txn[h].op \in {"proclaiming", "anchoring"} /\ Finish(h)
  BY DEF CommitProclaim
<1>2. CommitTieBreak(h) => txn[h].op = "tieBreaking" /\ Finish(h)
  BY DEF CommitTieBreak
<1>3. QED
  BY <1>1, <1>2

\* A resolution leaves an agenda item in a status there is.
LEMMA ItemAfterType ==
    ASSUME NEW stage, NEW result, NEW before \in ItemStatus
    PROVE  ItemAfter(stage, result, before) \in ItemStatus
BY DEF ItemAfter, ItemStatus

\* The columns of a row whose round is proclaimed.
LEMMA ProclaimedRow ==
    ASSUME TypeOK, NEW h \in Handlers, CommitProclaim(h), NEW r \in Rounds, r = txn[h].round
    PROVE  /\ \A q \in Rounds : q # r => rounds'[q] = rounds[q]
           /\ rounds[r].status # "NONE" =>
                /\ rounds'[r].status \in {"TIED", "RESOLVED"}
                /\ rounds'[r].result = txn[h].result
                /\ rounds'[r].status = "TIED" <=> txn[h].result = "TIED"
                /\ \A c \in {"item", "stage", "key", "session", "tieBreaker"} :
                        rounds'[r][c] = rounds[r][c]
<1>1. PICK st \in {"TIED", "RESOLVED"} :
        /\ rounds' = [rounds EXCEPT ![r].status = st, ![r].result = txn[h].result]
        /\ st = "TIED" <=> txn[h].result = "TIED"
  BY TxnByOp DEF CommitProclaim
<1>2. \A q \in Rounds : q # r => rounds'[q] = rounds[q]
  BY <1>1 DEF TypeOK
<1>3. rounds'[r] = [rounds[r] EXCEPT !.status = st, !.result = txn[h].result]
  BY <1>1 DEF TypeOK
<1>4. ASSUME rounds[r].status # "NONE"
      PROVE  /\ rounds'[r].status = st /\ rounds'[r].result = txn[h].result
             /\ \A c \in {"item", "stage", "key", "session", "tieBreaker"} :
                    rounds'[r][c] = rounds[r][c]
  <2>1. rounds[r] \in ExistingRow
    BY <1>4, RowIsExisting
  <2>2. QED
    BY <1>3, <2>1 DEF ExistingRow
<1>5. QED
  BY <1>1, <1>2, <1>4

\* The columns of a row whose tie is broken.
LEMMA TieBrokenRow ==
    ASSUME TypeOK, NEW h \in Handlers, CommitTieBreak(h), NEW r \in Rounds, r = txn[h].round
    PROVE  /\ \A q \in Rounds : q # r => rounds'[q] = rounds[q]
           /\ rounds[r].status # "NONE" =>
                /\ rounds'[r].status = "RESOLVED"
                /\ rounds'[r].result =
                        IF txn[h].value = "AFFIRMATIVE" THEN "PASSED" ELSE "FAILED"
                /\ \A c \in {"item", "stage", "key", "session"} :
                        rounds'[r][c] = rounds[r][c]
<1> PICK res : res = IF txn[h].value = "AFFIRMATIVE" THEN "PASSED" ELSE "FAILED"
  OBVIOUS
<1>1. rounds' = [rounds EXCEPT ![r].status = "RESOLVED", ![r].result = res,
                               ![r].tieBreaker = txn[h].value]
  BY DEF CommitTieBreak
<1>2. \A q \in Rounds : q # r => rounds'[q] = rounds[q]
  BY <1>1 DEF TypeOK
<1>3. rounds'[r] = [rounds[r] EXCEPT !.status = "RESOLVED", !.result = res,
                                     !.tieBreaker = txn[h].value]
  BY <1>1 DEF TypeOK
<1>4. ASSUME rounds[r].status # "NONE"
      PROVE  /\ rounds'[r].status = "RESOLVED" /\ rounds'[r].result = res
             /\ \A c \in {"item", "stage", "key", "session"} : rounds'[r][c] = rounds[r][c]
  <2>1. rounds[r] \in ExistingRow
    BY <1>4, RowIsExisting
  <2>2. QED
    BY <1>3, <2>1 DEF ExistingRow
<1>5. QED
  BY <1>2, <1>4

\* Two of the writes need that the round is still there (StillAsChecked).
LEMMA ContinueTypeOK ==
    ASSUME TypeOK, StillAsChecked, NEW h \in Handlers, Continue(h)
    PROVE  TypeOK'
<1> USE DEF votes, chamber
<1> DEFINE r == txn[h].round
<1>1. CASE InsertSpecific(h)
  <2>1. r \in Rounds /\ txn[h].draft \in Draft
    BY <1>1, TxnByOp DEF InsertSpecific
  <2>2. NewRow(txn[h].draft, r) \in Row
    BY <2>1, NewRowIsExisting DEF Draft, Row, ExistingRow
  <2>3. QED
    BY <1>1, <2>1, <2>2, FinishType DEF InsertSpecific, TypeOK
<1>2. CASE WriteUpdate(h)
  <2>1. /\ r \in Rounds /\ txn[h].read \in Params /\ txn[h].write \in Params
        /\ txn[h] # Idle
    BY <1>2, TxnByOp DEF WriteUpdate, Idle
  <2>2. rounds[r].status \in RoundStatus
    BY <1>2, <2>1 DEF StillAsChecked, ReliesOn, WriteUpdate, ForShareOps, Proclaiming
  <2>3. rounds[r] \in ExistingRow
    BY <2>1, <2>2, RowIsExisting DEF RoundStatus
  <2>4. Changed(rounds[r].params, txn[h].read, txn[h].write) \in Params
    BY <2>1, <2>3 DEF Changed, Params, ExistingRow
  <2>5. [rounds[r] EXCEPT !.params = Changed(@, txn[h].read, txn[h].write)] \in Row
    BY <2>3, <2>4 DEF Row, ExistingRow
  <2>6. QED
    BY <1>2, <2>1, <2>5, FinishType DEF WriteUpdate, TypeOK
<1>3. CASE WriteDelete(h)
  <2>1. r \in Rounds /\ txn[h] # Idle
    BY <1>3, TxnByOp DEF WriteDelete, Idle
  <2>2. rounds[r].status \in RoundStatus
    BY <1>3, <2>1 DEF StillAsChecked, ReliesOn, WriteDelete, ForShareOps, Proclaiming
  <2>3. rounds[r] \in ExistingRow
    BY <2>1, <2>2, RowIsExisting DEF RoundStatus
  <2>4. [rounds[r] EXCEPT !.deleted = TRUE] \in Row
    BY <2>3 DEF Row, ExistingRow
  <2>5. QED
    BY <1>3, <2>1, <2>4, FinishType DEF WriteDelete, TypeOK
<1>4. CASE WriteOpen(h)
  <2>1. r \in Rounds /\ txn[h].quorum \in Nat /\ txn[h] # Idle
    BY <1>4, TxnByOp DEF WriteOpen, Idle
  <2>2. rounds[r].status = "DRAFT"
    BY <1>4, <2>1 DEF StillAsChecked, ReliesOn, WriteOpen, ForShareOps, Proclaiming
  <2>3. rounds[r] \in ExistingRow
    BY <2>1, <2>2, RowIsExisting
  <2>4. [rounds[r] EXCEPT !.status = "VOTING_OPEN", !.quorum = txn[h].quorum] \in Row
    <3> DEFINE opened == [rounds[r] EXCEPT !.status = "VOTING_OPEN"]
    <3>1. opened \in ExistingRow
      BY <2>3 DEF ExistingRow, RoundStatus
    <3>2. [opened EXCEPT !.quorum = txn[h].quorum] \in ExistingRow
      BY <3>1, <2>1 DEF ExistingRow
    <3>3. QED
      BY <3>2 DEF Row, ExistingRow
  <2>5. rounds' \in [Rounds -> Row]
    BY <1>4, <2>1, <2>4 DEF WriteOpen, TypeOK
  <2>6. QED
    BY <1>4, <2>5, FinishType DEF WriteOpen, TypeOK
<1>5. CASE LockForVote(h)
  <2>1. txn[h] \in [op: {"verifying", "casting"}, round: Rounds,
                    legislator: Legislators, value: VoteValue]
    BY <1>5, TxnByOp DEF LockForVote
  <2>2. [txn[h] EXCEPT !.op = "casting"] \in Txn
    BY <2>1 DEF Txn
  <2>3. txn' \in [Handlers -> Txn]
    BY <1>5, <2>2, FinishType DEF LockForVote, TypeOK
  <2>4. QED
    BY <1>5, <2>3 DEF LockForVote, TypeOK
<1>6. CASE InsertVote(h)
  <2>1. txn[h] \in [op: {"verifying", "casting"}, round: Rounds,
                    legislator: Legislators, value: VoteValue]
    BY <1>6, TxnByOp DEF InsertVote
  <2>2. QED
    BY <1>6, <2>1, FinishType DEF InsertVote, TypeOK, NominalVote
<1>7. CASE InsertVoter(h)
  <2>1. txn[h] \in [op: {"authorizing"}, round: Rounds, legislator: Legislators,
                    token: Tokens]
    BY <1>7, TxnByOp DEF InsertVoter
  <2>2. rounds[r].status \in RoundStatus
    BY <1>7, <2>1 DEF StillAsChecked, ReliesOn, InsertVoter, ForShareOps, Proclaiming, Idle
  <2>3. rounds[r].key \in Rounds
    BY <2>1, <2>2, RowIsExisting DEF RoundStatus, ExistingRow
  <2>4. QED
    BY <1>7, <2>1, <2>3, FinishType DEF InsertVoter, TypeOK, NonNominalVoter, Signature
<1>8. CASE InsertTally(h)
  <2>1. txn[h] \in [op: {"spending"}, round: Rounds, token: Tokens, value: VoteValue]
    BY <1>8, TxnByOp DEF InsertTally
  <2>2. QED
    BY <1>8, <2>1, FinishType DEF InsertTally, TypeOK, NonNominalTally
<1>9. CASE CommitProclaim(h)
  <2>1. r \in Rounds /\ txn[h].result \in Results /\ txn[h] # Idle
    BY <1>9, CommitEnds, TxnByOp DEF Idle
  <2>2. rounds[r].status = "VOTING_CLOSED"
    BY <1>9, <2>1 DEF StillAsChecked, ReliesOn, CommitProclaim, ForShareOps, Proclaiming
  <2>3. rounds[r] \in ExistingRow
    BY <2>1, <2>2, RowIsExisting
  <2>4. ASSUME NEW st \in {"TIED", "RESOLVED"}
        PROVE  [rounds[r] EXCEPT !.status = st, !.result = txn[h].result] \in Row
    BY <2>1, <2>3 DEF Row, ExistingRow, RoundStatus
  <2>5. rounds' \in [Rounds -> Row]
    BY <1>9, <2>1, <2>4 DEF CommitProclaim, TypeOK
  <2>6. itemStatus' \in [Items -> ItemStatus]
    <3>1. rounds[r].item \in Items
      BY <2>3 DEF ExistingRow
    <3>2. QED
      BY <1>9, <3>1, ItemAfterType DEF CommitProclaim, TypeOK
  <2>7. QED
    BY <1>9, <2>5, <2>6, FinishType DEF CommitProclaim, TypeOK
<1>10. CASE CommitTieBreak(h)
  <2>1. /\ r \in Rounds /\ txn[h].value \in {"AFFIRMATIVE", "NEGATIVE"}
        /\ txn[h].read \in ItemStatus /\ txn[h] # Idle
    BY <1>10, CommitEnds, TxnByOp DEF Idle
  <2>2. rounds[r].status = "TIED"
    BY <1>10, <2>1 DEF StillAsChecked, ReliesOn, CommitTieBreak, ForShareOps, Proclaiming
  <2>3. rounds[r] \in ExistingRow
    BY <2>1, <2>2, RowIsExisting
  <2>4. ASSUME NEW res \in {"PASSED", "FAILED"}
        PROVE  [rounds[r] EXCEPT !.status = "RESOLVED", !.result = res,
                                 !.tieBreaker = txn[h].value] \in Row
    BY <2>1, <2>3 DEF Row, ExistingRow, RoundStatus, Results
  <2>5. rounds' \in [Rounds -> Row]
    BY <1>10, <2>1, <2>4 DEF CommitTieBreak, TypeOK
  <2>6. itemStatus' \in [Items -> ItemStatus]
    BY <1>10, <2>1, ItemAfterType DEF CommitTieBreak, TypeOK
  <2>7. QED
    BY <1>10, <2>5, <2>6, FinishType DEF CommitTieBreak, TypeOK
<1>11. CASE LockItem(h)
  <2>1. txn[h] \in [op: {"proclaiming"}, round: Rounds, result: Results]
    BY <1>11, TxnByOp DEF LockItem
  <2>2. [txn[h] EXCEPT !.op = "anchoring"] \in Txn
    BY <1>11, <2>1 DEF LockItem, Txn
  <2>3. QED
    BY <1>11, <2>2 DEF LockItem, TypeOK
<1>12. CASE InsertClone(h)
  <2>1. r \in Rounds /\ txn[h].clone \in Rounds /\ txn[h] # Idle
    BY <1>12, TxnByOp DEF InsertClone, Idle
  <2>2. rounds[r].status \in RoundStatus
    BY <1>12, <2>1 DEF StillAsChecked, ReliesOn, InsertClone, ForShareOps, Proclaiming
  <2>3. rounds[r] \in ExistingRow
    BY <2>1, <2>2, RowIsExisting DEF RoundStatus
  <2>4. [rounds[r] EXCEPT !.status = "ABORTED"] \in Row
    BY <2>3 DEF ExistingRow, Row, RoundStatus
  <2>5. NewRow(rounds[r], txn[h].clone) \in Row
    BY <2>1, <2>3, NewRowIsExisting DEF ExistingRow, Row
  <2>6. rounds' \in [Rounds -> Row]
    BY <1>12, <2>1, <2>4, <2>5 DEF InsertClone, TypeOK
  <2>7. QED
    BY <1>12, <2>6, FinishType DEF InsertClone, TypeOK
<1>13. QED
  BY <1>1, <1>2, <1>3, <1>4, <1>5, <1>6, <1>7, <1>8, <1>9, <1>10, <1>11, <1>12 DEF Continue

LEMMA RollbackTypeOK ==
    ASSUME TypeOK, NEW h \in Handlers, Rollback(h)
    PROVE  TypeOK'
BY FinishType DEF Rollback, TypeOK

LEMMA NextTypeOK == TypeOK /\ StillAsChecked /\ [Next]_vars => TypeOK'
<1> SUFFICES ASSUME TypeOK, StillAsChecked, [Next]_vars PROVE TypeOK'
  OBVIOUS
<1>1. CASE Next
  BY <1>1, PresidencyTypeOK, ChamberTypeOK, StartTypeOK, ContinueTypeOK, RollbackTypeOK
     DEF Next
<1>2. CASE UNCHANGED vars
  BY <1>2 DEF vars, TypeOK
<1>3. QED
  BY <1>1, <1>2

-----------------------------------------------------------------------------
(* Locks.                                                                  *)

\* A transaction that starts, goes on or ends keeps the locks exclusive if no other
\* handler has what it takes.
LEMMA TakeLock ==
    ASSUME TypeOK, LocksExclusive, NEW h \in Handlers, NEW t,
           txn' = [txn EXCEPT ![h] = t],
           \A g \in Handlers \ {h} :
               /\ t.op \in ForUpdateOps => ~Holds(g, t.round, ForUpdateOps \cup ForShareOps)
               /\ t.op \in ForShareOps => ~Holds(g, t.round, ForUpdateOps)
               /\ t.op = "creating" => ~Allots(g, t.round)
               /\ t.op = "rectifying" => ~Allots(g, t.clone)
    PROVE  LocksExclusive'
<1> SUFFICES ASSUME NEW f \in Handlers, NEW g \in Handlers, NEW r \in Rounds, f # g
             PROVE  /\ Holds(f, r, ForUpdateOps)'
                         => ~Holds(g, r, ForUpdateOps \cup ForShareOps)'
                    /\ Allots(f, r)' => ~Allots(g, r)'
  BY DEF LocksExclusive
<1>1. \A k \in Handlers : txn'[k] = IF k = h THEN t ELSE txn[k]
  BY DEF TypeOK
<1> USE DEF Holds, Allots, ForUpdateOps, ForShareOps, Proclaiming
<1>2. CASE f = h
  BY <1>1, <1>2
<1>3. CASE g = h
  BY <1>1, <1>3
<1>4. CASE f # h /\ g # h
  BY <1>1, <1>4 DEF LocksExclusive
<1>5. QED
  BY <1>2, <1>3, <1>4

\* A handler's first step reads, and takes its locks after it has waited.
LEMMA StartBegins ==
    ASSUME NEW h \in Handlers, Start(h)
    PROVE  /\ UNCHANGED <<rounds, votes, chamber>>
           /\ \E t : /\ Begin(h, t)
                     /\ t.op \in ForUpdateOps => CanLockForUpdate(t.round)
                     /\ t.op \in ForShareOps => CanLockForShare(t.round)
                     /\ t.op = "creating" => \A g \in Handlers : ~Allots(g, t.round)
                     /\ t.op = "rectifying" => \A g \in Handlers : ~Allots(g, t.clone)
<1> USE DEF ForUpdateOps, ForShareOps, Proclaiming
<1>1. PICK r \in Rounds :
        \/ \E d \in Drafts : BeginSpecific(h, r, d)
        \/ \E p \in Revisions : BeginUpdate(h, r, p)
        \/ BeginDelete(h, r) \/ BeginOpen(h, r) \/ BeginProclaim(h, r)
        \/ \E l \in Legislators, v \in Values : VerifyVote(h, r, l, v)
        \/ \E l \in Legislators, t \in Tokens : BeginAuthorize(h, r, l, t)
        \/ \E t \in Tokens, v \in Values : BeginSpend(h, r, t, v)
        \/ \E l \in Legislators, v \in Values : BeginTieBreak(h, r, l, v)
        \/ \E n \in Rounds : BeginRectify(h, r, n)
  BY DEF Start
<1>2. CASE \E d \in Drafts : BeginSpecific(h, r, d)
  BY <1>2 DEF BeginSpecific, Fresh
<1>3. CASE \E p \in Revisions : BeginUpdate(h, r, p)
  BY <1>3 DEF BeginUpdate
<1>4. CASE BeginDelete(h, r)
  BY <1>4 DEF BeginDelete
<1>5. CASE BeginOpen(h, r)
  BY <1>5 DEF BeginOpen
<1>6. CASE BeginProclaim(h, r)
  BY <1>6 DEF BeginProclaim
<1>7. CASE \E l \in Legislators, v \in Values : VerifyVote(h, r, l, v)
  BY <1>7 DEF VerifyVote
<1>8. CASE \E l \in Legislators, t \in Tokens : BeginAuthorize(h, r, l, t)
  BY <1>8 DEF BeginAuthorize
<1>9. CASE \E t \in Tokens, v \in Values : BeginSpend(h, r, t, v)
  BY <1>9 DEF BeginSpend
<1>10. CASE \E l \in Legislators, v \in Values : BeginTieBreak(h, r, l, v)
  BY <1>10 DEF BeginTieBreak
<1>11. CASE \E n \in Rounds : BeginRectify(h, r, n)
  BY <1>11 DEF BeginRectify, Fresh
<1>12. QED
  BY <1>1, <1>2, <1>3, <1>4, <1>5, <1>6, <1>7, <1>8, <1>9, <1>10, <1>11

LEMMA FinishLocks ==
    ASSUME TypeOK, LocksExclusive, NEW h \in Handlers, Finish(h)
    PROVE  LocksExclusive'
<1>1. Idle.op \notin ForUpdateOps \cup ForShareOps \cup {"creating", "rectifying"}
  BY DEF Idle, ForUpdateOps, ForShareOps, Proclaiming
<1>2. QED
  BY <1>1, TakeLock DEF Finish

LEMMA NextLocksExclusive ==
    ASSUME TypeOK, LocksExclusive, [Next]_vars
    PROVE  LocksExclusive'
<1>1. CASE UNCHANGED txn
  BY <1>1 DEF LocksExclusive, Holds, Allots
<1>2. ASSUME NEW h \in Handlers, Start(h)
      PROVE  LocksExclusive'
  <2>1. PICK t : /\ Begin(h, t)
                 /\ t.op \in ForUpdateOps => CanLockForUpdate(t.round)
                 /\ t.op \in ForShareOps => CanLockForShare(t.round)
                 /\ t.op = "creating" => \A g \in Handlers : ~Allots(g, t.round)
                 /\ t.op = "rectifying" => \A g \in Handlers : ~Allots(g, t.clone)
    BY <1>2, StartBegins
  <2>2. txn' = [txn EXCEPT ![h] = t]
    BY <2>1 DEF Begin
  <2>3. QED
    BY <2>1, <2>2, TakeLock DEF CanLockForUpdate, CanLockForShare
<1>3. ASSUME NEW h \in Handlers, LockForVote(h), ~Finish(h)
      PROVE  LocksExclusive'
  <2> DEFINE t == [txn[h] EXCEPT !.op = "casting"]
  <2>1. txn[h] \in [op: {"verifying", "casting"}, round: Rounds,
                    legislator: Legislators, value: VoteValue]
    BY <1>3, TxnByOp DEF LockForVote
  <2>2. txn' = [txn EXCEPT ![h] = t] /\ t.op = "casting" /\ t.round = txn[h].round
    BY <1>3, <2>1 DEF LockForVote
  <2>3. /\ t.op \notin ForUpdateOps \cup {"creating", "rectifying"}
        /\ \A g \in Handlers : ~Holds(g, t.round, ForUpdateOps)
    BY <1>3, <2>2 DEF LockForVote, CanLockForShare, ForUpdateOps, Proclaiming
  <2> HIDE DEF t
  <2>4. QED
    BY <2>2, <2>3, TakeLock
<1>4. ASSUME NEW h \in Handlers, LockItem(h)
      PROVE  LocksExclusive'
  <2> DEFINE t == [txn[h] EXCEPT !.op = "anchoring"]
  <2>1. txn[h] \in [op: {"proclaiming"}, round: Rounds, result: Results]
    BY <1>4, TxnByOp DEF LockItem
  <2>2. txn' = [txn EXCEPT ![h] = t] /\ t.op = "anchoring" /\ t.round = txn[h].round
    BY <1>4, <2>1 DEF LockItem
  <2>3. \A g \in Handlers \ {h} : ~Holds(g, t.round, ForUpdateOps \cup ForShareOps)
    BY <1>4, <2>1, <2>2 DEF LockItem, LocksExclusive, Holds, ForUpdateOps, Proclaiming
  <2>4. QED
    BY <2>2, <2>3, TakeLock DEF ForShareOps
<1>5. ASSUME NEW h \in Handlers, Continue(h) \/ Rollback(h), ~LockForVote(h), ~LockItem(h)
      PROVE  LocksExclusive'
  BY <1>5, FinishLocks DEF Continue, Rollback, InsertSpecific, WriteUpdate, WriteDelete,
     WriteOpen, InsertVote, InsertVoter, InsertTally, CommitProclaim, CommitTieBreak, InsertClone
<1>6. CASE Presidency \/ Chamber
  BY <1>1, <1>6 DEF Presidency, Chamber, CreateVotingRound, CloseVotingRound,
     SetAttendance, RegisterLegislator, RemoveLegislator
<1>7. QED
  BY <1>1, <1>2, <1>3, <1>4, <1>5, <1>6, FinishLocks DEF Next, vars

-----------------------------------------------------------------------------
(* What was checked stays true.                                            *)

\* A transaction finds the rounds as it left them.
StaysChecked(g) ==
    txn[g] # Idle =>
        /\ rounds'[txn[g].round].status \in ReliesOn(txn[g].op)
        /\ txn[g].op = "rectifying" => rounds'[txn[g].clone].status = "NONE"

\* A handler is not disturbed by the status of a round it has neither locked nor
\* allotted the identifier of.
LEMMA Undisturbed ==
    ASSUME TypeOK, StillAsChecked, NEW g \in Handlers,
           \A q \in Rounds :
               \/ rounds'[q].status = rounds[q].status
               \/ /\ rounds'[q].status \in RoundStatus
                  /\ rounds[q].status # "NONE"
                  /\ ~Holds(g, q, ForUpdateOps \cup ForShareOps)
               \/ /\ rounds'[q].status \in RoundStatus
                  /\ rounds[q].status = "NONE"
                  /\ ~Allots(g, q)
    PROVE  StaysChecked(g)
<1> SUFFICES ASSUME txn[g] # Idle
             PROVE  /\ rounds'[txn[g].round].status \in ReliesOn(txn[g].op)
                    /\ txn[g].op = "rectifying" => rounds'[txn[g].clone].status = "NONE"
  BY DEF StaysChecked
<1> DEFINE r == txn[g].round
<1>1. r \in Rounds /\ rounds[r].status \in ReliesOn(txn[g].op)
  BY TxnByOp DEF StillAsChecked
<1>2. rounds'[r].status \in ReliesOn(txn[g].op)
  BY <1>1 DEF ReliesOn, Holds, Allots, ForUpdateOps, ForShareOps, Proclaiming, RoundStatus
<1>3. ASSUME txn[g].op = "rectifying"
      PROVE  rounds'[txn[g].clone].status = "NONE"
  <2>1. txn[g].clone \in Rounds /\ rounds[txn[g].clone].status = "NONE"
    BY <1>3, TxnByOp DEF StillAsChecked
  <2>2. QED
    BY <1>3, <2>1 DEF Allots
<1>4. QED
  BY <1>2, <1>3

LEMMA PresidencyStillAsChecked ==
    ASSUME TypeOK, StillAsChecked, Presidency
    PROVE  StillAsChecked'
<1> USE DEF Exists, HasStatus
<1>1. ASSUME NEW g \in Handlers, NEW r \in Rounds, NEW d \in Drafts, CreateVotingRound(r, d)
      PROVE  StaysChecked(g)
  BY <1>1, Undisturbed DEF CreateVotingRound, Fresh, NewRow, TypeOK, RoundStatus
<1>2. ASSUME NEW g \in Handlers, NEW r \in Rounds, CloseVotingRound(r)
      PROVE  StaysChecked(g)
  <2>1. \A q \in Rounds : rounds'[q].status = IF q = r THEN "VOTING_CLOSED"
                                              ELSE rounds[q].status
    BY <1>2 DEF CloseVotingRound, TypeOK, Row, NoRow
  <2>2. QED
    BY <1>2, <2>1, Undisturbed DEF CloseVotingRound, CanLockForUpdate, RoundStatus
<1>3. txn' = txn
  BY DEF Presidency, CreateVotingRound, CloseVotingRound
<1>4. QED
  BY <1>1, <1>2, <1>3 DEF Presidency, StillAsChecked, StaysChecked, Idle

LEMMA StartStillAsChecked ==
    ASSUME TypeOK, StillAsChecked, NEW h \in Handlers, Start(h)
    PROVE  StillAsChecked'
<1>1. rounds' = rounds
  BY StartBegins
<1>2. \A g \in Handlers : g # h => txn'[g] = txn[g]
  BY StartBegins DEF Begin, TypeOK
<1>3. \A r \in Rounds : rounds[r].status \in RoundStatus \cup {"NONE"}
  BY DEF TypeOK, Row, NoRow
<1>4. ASSUME NEW t, Begin(h, t), rounds[t.round].status \in ReliesOn(t.op),
             t.op = "rectifying" => rounds[t.clone].status = "NONE"
      PROVE  StillAsChecked'
  BY <1>1, <1>2, <1>4 DEF Begin, StillAsChecked, TypeOK
<1> USE DEF ReliesOn, ForShareOps, Proclaiming, RoundStatus, HasStatus, Exists
<1>5. PICK r \in Rounds :
        \/ \E d \in Drafts : BeginSpecific(h, r, d)
        \/ \E p \in Revisions : BeginUpdate(h, r, p)
        \/ BeginDelete(h, r)
        \/ BeginOpen(h, r)
        \/ \E l \in Legislators, v \in Values : VerifyVote(h, r, l, v)
        \/ \E l \in Legislators, t \in Tokens : BeginAuthorize(h, r, l, t)
        \/ \E t \in Tokens, v \in Values : BeginSpend(h, r, t, v)
        \/ BeginProclaim(h, r)
        \/ \E l \in Legislators, v \in Values : BeginTieBreak(h, r, l, v)
        \/ \E n \in Rounds : BeginRectify(h, r, n)
  BY DEF Start
<1>6. CASE \E d \in Drafts : BeginSpecific(h, r, d)
  BY <1>4, <1>6 DEF BeginSpecific, Fresh
<1>7. CASE (\E p \in Revisions : BeginUpdate(h, r, p)) \/ BeginDelete(h, r)
  BY <1>4, <1>7 DEF BeginUpdate, BeginDelete
<1>8. CASE BeginOpen(h, r)
  BY <1>4, <1>8 DEF BeginOpen
<1>9. CASE \E l \in Legislators, v \in Values : VerifyVote(h, r, l, v)
  BY <1>3, <1>4, <1>9 DEF VerifyVote
<1>10. CASE \E l \in Legislators, t \in Tokens : BeginAuthorize(h, r, l, t)
  BY <1>3, <1>4, <1>10 DEF BeginAuthorize
<1>11. CASE \E t \in Tokens, v \in Values : BeginSpend(h, r, t, v)
  BY <1>4, <1>11 DEF BeginSpend
<1>12. CASE BeginProclaim(h, r)
  BY <1>4, <1>12 DEF BeginProclaim
<1>13. CASE \E l \in Legislators, v \in Values : BeginTieBreak(h, r, l, v)
  BY <1>4, <1>13 DEF BeginTieBreak
<1>14. CASE \E n \in Rounds : BeginRectify(h, r, n)
  BY <1>3, <1>4, <1>14 DEF BeginRectify, Fresh
<1>15. QED
  BY <1>5, <1>6, <1>7, <1>8, <1>9, <1>10, <1>11, <1>12, <1>13, <1>14

\* A write that ends a transaction leaves what the other handlers checked.
LEMMA FinishStillAsChecked ==
    ASSUME TypeOK, StillAsChecked, NEW h \in Handlers, Finish(h),
           \A g \in Handlers \ {h} : StaysChecked(g)
    PROVE  StillAsChecked'
BY DEF TypeOK, StillAsChecked, StaysChecked, Finish, Idle

LEMMA ContinueStillAsChecked ==
    ASSUME TypeOK, LocksExclusive, StillAsChecked, NEW h \in Handlers,
           Continue(h) \/ Rollback(h)
    PROVE  StillAsChecked'
<1> DEFINE r == txn[h].round
<1>1. ASSUME Finish(h), UNCHANGED rounds
      PROVE  StillAsChecked'
  BY <1>1, FinishStillAsChecked DEF StillAsChecked, StaysChecked
<1>2. CASE Rollback(h) \/ InsertVote(h) \/ InsertVoter(h) \/ InsertTally(h)
  BY <1>1, <1>2 DEF Rollback, InsertVote, InsertVoter, InsertTally
<1>3. CASE LockForVote(h)
  <2>1. txn[h] \in [op: {"verifying", "casting"}, round: Rounds,
                    legislator: Legislators, value: VoteValue]
    BY <1>3, TxnByOp DEF LockForVote
  <2>2. ASSUME ~Finish(h)
        PROVE  StillAsChecked'
    BY <1>3, <2>1, <2>2 DEF LockForVote, HasStatus, StillAsChecked, ReliesOn, ForShareOps, Proclaiming,
       TypeOK
  <2>3. QED
    BY <1>1, <1>3, <2>2 DEF LockForVote
<1>0. ASSUME Finish(h),
             \A q \in Rounds :
                 \/ rounds'[q].status = rounds[q].status
                 \/ /\ rounds'[q].status \in RoundStatus
                    /\ \/ rounds[q].status # "NONE" /\ Holds(h, q, ForUpdateOps)
                       \/ rounds[q].status = "NONE" /\ Allots(h, q)
      PROVE  StillAsChecked'
  <2>1. ASSUME NEW g \in Handlers \ {h}
        PROVE  StaysChecked(g)
    BY <1>0, <2>1, Undisturbed DEF LocksExclusive
  <2>2. QED
    BY <1>0, <2>1, FinishStillAsChecked
<1>4. ASSUME Finish(h), txn[h] # Idle, r \in Rounds,
             \A q \in Rounds : q # r => rounds'[q].status = rounds[q].status,
             \/ rounds'[r].status = rounds[r].status
             \/ /\ rounds'[r].status \in RoundStatus
                /\ \/ rounds[r].status # "NONE" /\ Holds(h, r, ForUpdateOps)
                   \/ rounds[r].status = "NONE" /\ Holds(h, r, {"creating"})
      PROVE  StillAsChecked'
  BY <1>4, <1>0 DEF Allots
<1>5. txn[h] # Idle => r \in Rounds /\ rounds[r].status \in ReliesOn(txn[h].op)
  BY TxnByOp DEF StillAsChecked
<1> USE DEF ReliesOn, Holds, ForUpdateOps, ForShareOps, Proclaiming, RoundStatus, Idle
<1>6. CASE InsertSpecific(h)
  BY <1>4, <1>5, <1>6 DEF InsertSpecific, NewRow, TypeOK
<1>7. CASE WriteUpdate(h) \/ WriteDelete(h)
  <2>1. CASE WriteUpdate(h)
    BY <1>4, <1>5, <2>1 DEF WriteUpdate, TypeOK, Row, NoRow
  <2>2. CASE WriteDelete(h)
    BY <1>4, <1>5, <2>2 DEF WriteDelete, TypeOK, Row, NoRow
  <2>3. QED
    BY <1>7, <2>1, <2>2
<1>8. CASE WriteOpen(h)
  BY <1>4, <1>5, <1>8 DEF WriteOpen, TypeOK, Row, NoRow
<1>9. CASE CommitProclaim(h)
  <2>1. r \in Rounds /\ rounds[r].status = "VOTING_CLOSED" /\ Holds(h, r, ForUpdateOps)
    BY <1>5, <1>9, CommitEnds
  <2>2. rounds'[r].status \in RoundStatus /\ \A q \in Rounds : q # r => rounds'[q] = rounds[q]
    BY <1>9, <2>1, ProclaimedRow
  <2>3. Finish(h) /\ txn[h] # Idle
    BY <1>9, CommitEnds
  <2>4. QED
    BY <1>4, <2>1, <2>2, <2>3
<1>10. CASE CommitTieBreak(h)
  <2>1. r \in Rounds /\ rounds[r].status = "TIED" /\ Holds(h, r, ForUpdateOps)
    BY <1>5, <1>10, CommitEnds
  <2>2. rounds'[r].status = "RESOLVED" /\ \A q \in Rounds : q # r => rounds'[q] = rounds[q]
    BY <1>10, <2>1, TieBrokenRow
  <2>3. Finish(h) /\ txn[h] # Idle
    BY <1>10, CommitEnds
  <2>4. QED
    BY <1>4, <2>1, <2>2, <2>3
<1>11. CASE LockItem(h)
  <2>1. txn[h] \in [op: {"proclaiming"}, round: Rounds, result: Results] /\ txn[h] # Idle
    BY <1>11, TxnByOp DEF LockItem
  <2>2. rounds[r].status = "VOTING_CLOSED" /\ rounds' = rounds
    BY <1>5, <1>11, <2>1 DEF LockItem
  <2>3. txn' = [txn EXCEPT ![h] = [txn[h] EXCEPT !.op = "anchoring"]]
    BY <1>11 DEF LockItem
  <2>4. QED
    BY <2>1, <2>2, <2>3 DEF StillAsChecked, TypeOK
<1>12. CASE InsertClone(h)
  <2> DEFINE n == txn[h].clone
  <2>1. r \in Rounds /\ n \in Rounds /\ Finish(h)
    BY <1>5, <1>12, TxnByOp DEF InsertClone
  <2>2. rounds[r].status \in RoundStatus /\ rounds[n].status = "NONE"
    BY <1>5, <1>12 DEF InsertClone, StillAsChecked
  <2>3. \A q \in Rounds : rounds'[q].status = IF q = r THEN "ABORTED"
                                              ELSE IF q = n THEN "DRAFT"
                                              ELSE rounds[q].status
    BY <1>12, <2>1, <2>2 DEF InsertClone, NewRow, TypeOK, Row, NoRow
  <2>4. Holds(h, r, ForUpdateOps) /\ Allots(h, n)
    BY <1>12 DEF InsertClone, Allots
  <2>5. QED
    BY <1>0, <2>1, <2>2, <2>3, <2>4
<1>13. QED
  BY <1>2, <1>3, <1>6, <1>7, <1>8, <1>9, <1>10, <1>11, <1>12 DEF Continue

LEMMA NextStillAsChecked ==
    ASSUME TypeOK, LocksExclusive, StillAsChecked, [Next]_vars
    PROVE  StillAsChecked'
<1>1. CASE Chamber \/ UNCHANGED vars
  BY <1>1 DEF Chamber, SetAttendance, RegisterLegislator, RemoveLegislator, vars,
     StillAsChecked
<1>2. QED
  BY <1>1, PresidencyStillAsChecked, StartStillAsChecked, ContinueStillAsChecked DEF Next

-----------------------------------------------------------------------------
(* The theorems.                                                           *)

\* IInv holds in every state: whatever a handler checked about a round it has
\* locked is still true when it writes.
THEOREM Inductive == Spec => []IInv
<1>1. Init => IInv
  BY InitTypeOK DEF Init, IInv, LocksExclusive, StillAsChecked, Holds, Allots, Idle,
     ForUpdateOps, ForShareOps, Proclaiming
<1>2. IInv /\ [Next]_vars => IInv'
  BY NextTypeOK, NextLocksExclusive, NextStillAsChecked DEF IInv
<1>3. QED
  BY <1>1, <1>2, PTL DEF Spec

\* Type correctness, for any number of requests in flight.
THEOREM TypeCorrect == Spec => []TypeOK
<1>1. IInv => TypeOK
  BY DEF IInv
<1>2. QED
  BY <1>1, Inductive, PTL

\* No handler writes on the strength of a check that no longer holds.
THEOREM ChecksHold == Spec => []StillAsChecked
<1>1. IInv => StillAsChecked
  BY DEF IInv
<1>2. QED
  BY <1>1, Inductive, PTL

\* A clone is inserted while its identifier is free and its round is there.
LEMMA CloneChecked ==
    ASSUME IInv, NEW h \in Handlers, InsertClone(h)
    PROVE  /\ txn[h].round \in Rounds /\ txn[h].clone \in Rounds
           /\ rounds[txn[h].round].status \in RoundStatus \ {"RESOLVED"}
           /\ rounds[txn[h].clone].status = "NONE"
           /\ rounds[txn[h].round] \in ExistingRow
<1>1. txn[h].op = "rectifying" /\ txn[h] # Idle
  BY DEF InsertClone, Idle
<1>2. txn[h].round \in Rounds /\ txn[h].clone \in Rounds
  BY <1>1, TxnByOp DEF IInv
<1>3. /\ rounds[txn[h].round].status \in RoundStatus \ {"RESOLVED"}
      /\ rounds[txn[h].clone].status = "NONE"
  BY <1>1 DEF IInv, StillAsChecked, ReliesOn, ForShareOps, Proclaiming
<1>4. QED
  BY <1>2, <1>3, RowIsExisting DEF IInv, RoundStatus

\* A handler that goes on ends, or locks one row more.
LEMMA GoesOn ==
    ASSUME NEW h \in Handlers, Continue(h) \/ Rollback(h)
    PROVE  Finish(h) \/ LockForVote(h) \/ LockItem(h)
BY DEF Continue, Rollback, InsertSpecific, WriteUpdate, WriteDelete, WriteOpen, InsertVote,
   InsertVoter, InsertTally, CommitProclaim, CommitTieBreak, InsertClone

\* Only WriteOpen makes a round take votes.
LEMMA OnlyWriteOpenOpens ==
    ASSUME IInv, [Next]_vars, \A h \in Handlers : ~WriteOpen(h), NEW q \in Rounds,
           rounds'[q].status = "VOTING_OPEN"
    PROVE  rounds[q].status = "VOTING_OPEN" /\ rounds'[q].session = rounds[q].session
<1> USE DEF IInv, TypeOK
<1>1. CASE UNCHANGED rounds
  BY <1>1
<1>2. ASSUME NEW r \in Rounds, NEW d \in Drafts, CreateVotingRound(r, d)
      PROVE  rounds'[q] = rounds[q]
  BY <1>2 DEF CreateVotingRound, NewRow
<1>3. ASSUME NEW r \in Rounds, CloseVotingRound(r)
      PROVE  rounds'[q] = rounds[q]
  BY <1>3 DEF CloseVotingRound, Row, NoRow
<1>4. ASSUME NEW h \in Handlers, InsertClone(h)
      PROVE  rounds'[q] = rounds[q]
  <2> DEFINE r == txn[h].round
             n == txn[h].clone
  <2>1. r \in Rounds /\ n \in Rounds /\ rounds[r].status # "NONE" /\ rounds[n].status = "NONE"
    BY <1>4, CloneChecked DEF RoundStatus
  <2>2. q # n /\ q # r
    BY <1>4, <2>1 DEF InsertClone, NewRow, Row, NoRow
  <2>3. QED
    BY <1>4, <2>2 DEF InsertClone
<1>5. ASSUME NEW h \in Handlers, InsertSpecific(h) \/ CommitProclaim(h) \/ CommitTieBreak(h)
      PROVE  rounds'[q] = rounds[q]
  <2>1. q # txn[h].round
    <3>1. CASE InsertSpecific(h)
      BY <3>1 DEF InsertSpecific, NewRow
    <3>2. CASE CommitProclaim(h)
      BY <3>2 DEF CommitProclaim, Row, NoRow
    <3>3. CASE CommitTieBreak(h)
      BY <3>3 DEF CommitTieBreak, Row, NoRow
    <3>4. QED
      BY <1>5, <3>1, <3>2, <3>3
  <2>2. QED
    BY <1>5, <2>1 DEF InsertSpecific, CommitProclaim, CommitTieBreak
<1>6. ASSUME NEW h \in Handlers, WriteUpdate(h) \/ WriteDelete(h)
      PROVE  /\ rounds'[q].status = rounds[q].status
             /\ rounds'[q].session = rounds[q].session
  BY <1>6 DEF WriteUpdate, WriteDelete, Row, NoRow
<1>7. ASSUME NEW h \in Handlers, Continue(h) \/ Rollback(h)
      PROVE  \/ UNCHANGED rounds
             \/ InsertSpecific(h) \/ CommitProclaim(h) \/ CommitTieBreak(h)
             \/ WriteUpdate(h) \/ WriteDelete(h) \/ InsertClone(h)
  BY <1>7 DEF Continue, LockForVote, InsertVote, InsertVoter, InsertTally, LockItem, Rollback
<1>8. ASSUME NEW h \in Handlers, Start(h)
      PROVE  UNCHANGED rounds
  BY <1>8, StartBegins
<1>9. CASE Chamber \/ UNCHANGED vars
  BY <1>1, <1>9 DEF Chamber, SetAttendance, RegisterLegislator, RemoveLegislator, vars
<1>10. QED
  BY <1>1, <1>2, <1>3, <1>4, <1>5, <1>6, <1>7, <1>8, <1>9 DEF Next, Presidency

\* However many openings race, one round of a session takes votes at a time.
THEOREM OneOpenRound == Spec => []OneOpenRoundPerSession
<1>1. Init => OneOpenRoundPerSession
  BY DEF Init, OneOpenRoundPerSession, NoRow
<1>2. ASSUME IInv, OneOpenRoundPerSession, [Next]_vars
      PROVE  OneOpenRoundPerSession'
  <2>1. ASSUME NEW h \in Handlers, WriteOpen(h)
        PROVE  OneOpenRoundPerSession'
    <3> DEFINE r == txn[h].round
    <3>1. r \in Rounds
      BY <1>2, <2>1, TxnByOp DEF IInv, WriteOpen, Idle
    <3>2. CASE OpenIndexAllows(r) /\ ~UNCHANGED rounds
      <4>1. \A q \in Rounds :
                /\ rounds'[q].session = rounds[q].session
                /\ rounds'[q].status = IF q = r THEN "VOTING_OPEN" ELSE rounds[q].status
        BY <1>2, <2>1, <3>1, <3>2 DEF IInv, TypeOK, WriteOpen, Row, NoRow
      <4>2. QED
        BY <1>2, <3>1, <3>2, <4>1 DEF OneOpenRoundPerSession, OpenIndexAllows, OpenIn
    <3>3. CASE UNCHANGED rounds
      BY <1>2, <3>3 DEF OneOpenRoundPerSession
    <3>4. QED
      BY <2>1, <3>2, <3>3 DEF WriteOpen
  <2>2. CASE \A h \in Handlers : ~WriteOpen(h)
    BY <1>2, <2>2, OnlyWriteOpenOpens DEF OneOpenRoundPerSession
  <2>3. QED
    BY <2>1, <2>2
<1>3. QED
  BY <1>1, <1>2, Inductive, PTL DEF Spec


-----------------------------------------------------------------------------
(* Final results.                                                          *)

\* A motion that passed has a final round.
PassedIsFinal == \A r \in Rounds : rounds[r].result = "PASSED" => rounds[r].status = "RESOLVED"

PassedInGeneral(i) ==
    \E g \in Rounds : /\ rounds[g].item = i
                      /\ rounds[g].stage = "GENERAL"
                      /\ rounds[g].result = "PASSED"

\* A round on the particulars that is being created has what it was created for.
CreationsFollowGeneral ==
    \A h \in Handlers : txn[h].op = "creating" => PassedInGeneral(txn[h].draft.item)

StagesInv == PassedIsFinal /\ SpecificFollowsGeneral /\ CreationsFollowGeneral

\* A round keeps its item and its stage, and its result once it is final ...
Kept(r) ==
    /\ rounds'[r].item = rounds[r].item /\ rounds'[r].stage = rounds[r].stage
    /\ rounds[r].status = "RESOLVED" =>
        /\ rounds'[r].status = "RESOLVED"
        /\ rounds'[r].result = rounds[r].result /\ rounds'[r].tieBreaker = rounds[r].tieBreaker
    /\ \/ rounds'[r].result = rounds[r].result /\ rounds'[r].tieBreaker = rounds[r].tieBreaker
       \/ rounds'[r].status = "RESOLVED"
       \/ rounds'[r].result = "TIED"

\* ... or it is new: in general, as it was requested, or like another one.
Inserted(r) ==
    /\ rounds[r].status = "NONE"
    /\ rounds'[r].result = "NONE"
    /\ \/ rounds'[r].stage # "SPECIFIC"
       \/ \E h \in Handlers : /\ txn[h].op = "creating"
                              /\ rounds'[r].item = txn[h].draft.item
       \/ \E q \in Rounds : /\ rounds'[r].item = rounds[q].item
                            /\ rounds'[r].stage = rounds[q].stage

LEMMA RowStep ==
    ASSUME IInv, [Next]_vars, NEW q \in Rounds
    PROVE  Kept(q) \/ Inserted(q)
<1> USE DEF IInv
<1>1. ASSUME rounds'[q] = rounds[q] PROVE Kept(q)
  BY <1>1 DEF Kept
<1>2. ASSUME NEW r \in Rounds, NEW d \in Drafts, CreateVotingRound(r, d)
      PROVE  Kept(q) \/ Inserted(q)
  <2>1. CASE q = r
    BY <1>2, <2>1 DEF CreateVotingRound, NewRow, Fresh, Inserted, TypeOK
  <2>2. CASE q # r
    BY <1>1, <1>2, <2>2 DEF CreateVotingRound, TypeOK
  <2>3. QED
    BY <2>1, <2>2
<1>3. ASSUME NEW r \in Rounds, CloseVotingRound(r)
      PROVE  Kept(q)
  <2>1. CASE q = r
    BY <1>3, <2>1 DEF CloseVotingRound, HasStatus, Kept, TypeOK, Row, NoRow
  <2>2. CASE q # r
    BY <1>1, <1>3, <2>2 DEF CloseVotingRound, TypeOK
  <2>3. QED
    BY <2>1, <2>2
<1>4. ASSUME NEW h \in Handlers, InsertClone(h)
      PROVE  Kept(q) \/ Inserted(q)
  <2> DEFINE r == txn[h].round
             n == txn[h].clone
  <2>1. /\ r \in Rounds /\ n \in Rounds /\ r # n
        /\ rounds[r].status # "RESOLVED" /\ rounds[n].status = "NONE"
    BY <1>4, CloneChecked DEF RoundStatus, IInv
  <2>2. CASE q = n
    BY <1>4, <2>1, <2>2 DEF InsertClone, NewRow, Inserted, TypeOK
  <2>3. CASE q = r
    BY <1>4, <2>1, <2>3 DEF InsertClone, Kept, TypeOK, Row, NoRow
  <2>4. CASE q # n /\ q # r
    BY <1>1, <1>4, <2>4 DEF InsertClone, TypeOK
  <2>5. QED
    BY <2>2, <2>3, <2>4
<1>5. ASSUME NEW h \in Handlers, InsertSpecific(h)
      PROVE  Kept(q) \/ Inserted(q)
  <2>1. CASE q = txn[h].round
    <3>1. rounds[q].status = "NONE"
      BY <1>5, <2>1 DEF InsertSpecific, StillAsChecked, ReliesOn, ForShareOps, Proclaiming, Idle
    <3>2. rounds' [q] = NewRow(txn[h].draft, q)
      BY <1>5, <2>1 DEF InsertSpecific, TypeOK
    <3>3. QED
      BY <1>5, <3>1, <3>2 DEF InsertSpecific, NewRow, Inserted
  <2>2. CASE q # txn[h].round
    BY <1>1, <1>5, <2>2 DEF InsertSpecific, TypeOK
  <2>3. QED
    BY <2>1, <2>2
<1>6. ASSUME NEW h \in Handlers, CommitProclaim(h) \/ CommitTieBreak(h)
      PROVE  Kept(q)
  <2>1. CASE q = txn[h].round
    <3>1. rounds[q].status \in {"VOTING_CLOSED", "TIED"}
      <4>1. CASE txn[h].op \in Proclaiming
        BY <2>1, <4>1 DEF StillAsChecked, ReliesOn, ForShareOps, Proclaiming, Idle
      <4>2. CASE txn[h].op = "tieBreaking"
        BY <2>1, <4>2 DEF StillAsChecked, ReliesOn, ForShareOps, Proclaiming, Idle
      <4>3. QED
        BY <1>6, <4>1, <4>2, CommitEnds DEF Proclaiming
    <3>2. CASE CommitProclaim(h)
      BY <2>1, <3>1, <3>2, ProclaimedRow DEF Kept
    <3>3. CASE CommitTieBreak(h)
      BY <2>1, <3>1, <3>3, TieBrokenRow DEF Kept
    <3>4. QED
      BY <1>6, <3>2, <3>3
  <2>2. CASE q # txn[h].round
    BY <1>1, <1>6, <2>2 DEF CommitProclaim, CommitTieBreak, TypeOK
  <2>3. QED
    BY <2>1, <2>2
<1>7. ASSUME NEW h \in Handlers, WriteUpdate(h) \/ WriteDelete(h) \/ WriteOpen(h)
      PROVE  Kept(q)
  <2>1. CASE q = txn[h].round
    <3>1. WriteOpen(h) => rounds[q].status = "DRAFT"
      BY <2>1 DEF WriteOpen, StillAsChecked, ReliesOn, ForShareOps, Proclaiming, Idle
    <3>2. QED
      BY <1>7, <2>1, <3>1 DEF WriteUpdate, WriteDelete, WriteOpen, Kept, TypeOK, Row, NoRow
  <2>2. CASE q # txn[h].round
    BY <1>1, <1>7, <2>2 DEF WriteUpdate, WriteDelete, WriteOpen, TypeOK
  <2>3. QED
    BY <2>1, <2>2
<1>8. CASE UNCHANGED rounds
  BY <1>1, <1>8
<1>9. ASSUME NEW h \in Handlers, Start(h) \/ Rollback(h) \/ LockForVote(h) \/ InsertVote(h)
                                  \/ InsertVoter(h) \/ InsertTally(h) \/ LockItem(h)
      PROVE  UNCHANGED rounds
  BY <1>9, StartBegins DEF Rollback, LockForVote, InsertVote, InsertVoter, InsertTally, LockItem
<1>10. CASE Chamber \/ UNCHANGED vars
  BY <1>8, <1>10 DEF Chamber, SetAttendance, RegisterLegislator, RemoveLegislator, vars
<1>11. QED
  BY <1>2, <1>3, <1>4, <1>5, <1>6, <1>7, <1>8, <1>9, <1>10 DEF Next, Presidency, Continue

LEMMA PassedStays ==
    ASSUME IInv, PassedIsFinal, [Next]_vars
    PROVE  \A i : PassedInGeneral(i) => PassedInGeneral(i)'
<1> SUFFICES ASSUME NEW i, PassedInGeneral(i) PROVE PassedInGeneral(i)'
  OBVIOUS
<1>1. PICK g \in Rounds : /\ rounds[g].item = i /\ rounds[g].stage = "GENERAL"
                          /\ rounds[g].result = "PASSED"
  BY DEF PassedInGeneral
<1>2. Kept(g)
  BY <1>1, RowStep DEF PassedIsFinal, Inserted
<1>3. QED
  BY <1>1, <1>2 DEF PassedIsFinal, Kept, PassedInGeneral

LEMMA StagesStep ==
    ASSUME IInv, StagesInv, [Next]_vars
    PROVE  StagesInv'
<1> USE DEF StagesInv
<1>1. PassedIsFinal'
  BY RowStep DEF PassedIsFinal, Kept, Inserted
<1>2. SpecificFollowsGeneral'
  <2> SUFFICES ASSUME NEW r \in Rounds, rounds'[r].stage = "SPECIFIC"
               PROVE  \E i : i = rounds'[r].item /\ PassedInGeneral(i)'
    BY DEF SpecificFollowsGeneral, PassedInGeneral
  <2>1. PassedInGeneral(rounds'[r].item)
    <3>1. CASE Kept(r)
      BY <3>1 DEF Kept, SpecificFollowsGeneral, PassedInGeneral
    <3>2. CASE Inserted(r)
      BY <3>2 DEF Inserted, SpecificFollowsGeneral, CreationsFollowGeneral, PassedInGeneral
    <3>3. QED
      BY <3>1, <3>2, RowStep
  <2>2. QED
    <3>1. PICK i : i = rounds'[r].item
      OBVIOUS
    <3>2. PassedInGeneral(i)'
      BY <2>1, <3>1, PassedStays
    <3>3. QED
      BY <3>1, <3>2
<1>3. CreationsFollowGeneral'
  <2> SUFFICES ASSUME NEW g \in Handlers, txn'[g].op = "creating"
               PROVE  \E i : i = txn'[g].draft.item /\ PassedInGeneral(i)'
    BY DEF CreationsFollowGeneral, PassedInGeneral
  <2>1. \/ txn'[g] = txn[g]
        \/ \E r \in Rounds, d \in Drafts : BeginSpecific(g, r, d)
    <3>1. ASSUME NEW h \in Handlers, Start(h)
          PROVE  txn'[g] = txn[g] \/ \E r \in Rounds, d \in Drafts : BeginSpecific(g, r, d)
      <4>1. \A t : Begin(h, t) => txn'[g] = txn[g] \/ (g = h /\ txn'[g] = t)
        BY DEF Begin, IInv, TypeOK
      <4>2. \/ \E r \in Rounds, d \in Drafts : BeginSpecific(h, r, d)
            \/ \E t : t.op # "creating" /\ Begin(h, t)
        <5> DEFINE Other == \E t : t.op # "creating" /\ Begin(h, t)
        <5>1. ASSUME NEW t, t.op # "creating", Begin(h, t) PROVE Other
          BY <5>1
        <5> HIDE DEF Other
        <5>2. ASSUME NEW r \in Rounds, NEW p \in Revisions, BeginUpdate(h, r, p) PROVE Other
          BY <5>1, <5>2 DEF BeginUpdate
        <5>3. ASSUME NEW r \in Rounds, BeginDelete(h, r) \/ BeginOpen(h, r) \/ BeginProclaim(h, r)
              PROVE  Other
          BY <5>1, <5>3 DEF BeginDelete, BeginOpen, BeginProclaim
        <5>4. ASSUME NEW r \in Rounds, NEW l \in Legislators, NEW v \in Values,
                     VerifyVote(h, r, l, v) \/ BeginTieBreak(h, r, l, v)
              PROVE  Other
          BY <5>1, <5>4 DEF VerifyVote, BeginTieBreak
        <5>5. ASSUME NEW r \in Rounds, NEW l \in Legislators, NEW t \in Tokens,
                     BeginAuthorize(h, r, l, t)
              PROVE  Other
          BY <5>1, <5>5 DEF BeginAuthorize
        <5>6. ASSUME NEW r \in Rounds, NEW t \in Tokens, NEW v \in Values, BeginSpend(h, r, t, v)
              PROVE  Other
          BY <5>1, <5>6 DEF BeginSpend
        <5>7. ASSUME NEW r \in Rounds, NEW n \in Rounds, BeginRectify(h, r, n) PROVE Other
          BY <5>1, <5>7 DEF BeginRectify
        <5>8. Other \/ \E r \in Rounds, d \in Drafts : BeginSpecific(h, r, d)
          BY <3>1, <5>2, <5>3, <5>4, <5>5, <5>6, <5>7 DEF Start
        <5>9. QED
          BY <5>8 DEF Other
      <4>3. QED
        BY <4>1, <4>2 DEF BeginSpecific
    <3>2. ASSUME NEW h \in Handlers, LockForVote(h) PROVE txn'[g] = txn[g]
      <4>1. txn[h] \in [op: {"verifying", "casting"}, round: Rounds, legislator: Legislators,
                        value: VoteValue]
        BY <3>2, TxnByOp DEF LockForVote, IInv
      <4>2. QED
        BY <3>2, <4>1 DEF LockForVote, Finish, Idle, IInv, TypeOK
    <3>3. ASSUME NEW h \in Handlers, Finish(h) PROVE txn'[g] = txn[g]
      BY <3>3 DEF Finish, Idle, IInv, TypeOK
    <3>4. CASE UNCHANGED txn
      BY <3>4
    <3>5. ASSUME NEW h \in Handlers, LockItem(h) PROVE txn'[g] = txn[g]
      <4>1. txn[h] \in [op: {"proclaiming"}, round: Rounds, result: Results]
        BY <3>5, TxnByOp DEF LockItem, IInv
      <4>2. QED
        BY <3>5, <4>1 DEF LockItem, IInv, TypeOK
    <3>6. CASE Presidency \/ Chamber \/ UNCHANGED vars
      BY <3>4, <3>6 DEF Presidency, CreateVotingRound, CloseVotingRound, Chamber,
         SetAttendance, RegisterLegislator, RemoveLegislator, vars
    <3>7. QED
      BY <3>1, <3>2, <3>3, <3>5, <3>6, GoesOn DEF Next
  <2>2. PassedInGeneral(txn'[g].draft.item)
    <3>1. CASE txn'[g] = txn[g]
      BY <3>1 DEF CreationsFollowGeneral
    <3>2. ASSUME NEW r \in Rounds, NEW d \in Drafts, BeginSpecific(g, r, d)
          PROVE  PassedInGeneral(txn'[g].draft.item)
      BY <3>2 DEF BeginSpecific, Begin, HasPassedGeneralRound, PassedInGeneral, IInv, TypeOK
    <3>3. QED
      BY <2>1, <3>1, <3>2
  <2>3. QED
    <3>1. PICK i : i = txn'[g].draft.item
      OBVIOUS
    <3>2. PassedInGeneral(i)'
      BY <2>2, <3>1, PassedStays
    <3>3. QED
      BY <3>1, <3>2
<1>4. QED
  BY <1>1, <1>2, <1>3

THEOREM StagesInductive == Spec => []StagesInv
<1>1. Init => StagesInv
  BY DEF Init, StagesInv, PassedIsFinal, SpecificFollowsGeneral, CreationsFollowGeneral, NoRow, Idle
<1>2. QED
  BY <1>1, StagesStep, Inductive, PTL DEF Spec

\* A round on the particulars follows a round that passed in general, whatever
\* is created, rectified and proclaimed meanwhile: a final result never goes.
THEOREM StagesFollow == Spec => []SpecificFollowsGeneral
<1>1. StagesInv => SpecificFollowsGeneral
  BY DEF StagesInv
<1>2. QED
  BY <1>1, StagesInductive, PTL


-----------------------------------------------------------------------------
(* What passed has outvoted.                                               *)

Outvoted(r) ==
    \/ NominalCount(r, "AFFIRMATIVE") > NominalCount(r, "NEGATIVE")
    \/ TallyCount(r, "AFFIRMATIVE") > TallyCount(r, "NEGATIVE")

\* The proclamation under way has counted a majority, too.
OutvotesInv ==
    /\ IsFiniteSet(nominalVotes) /\ IsFiniteSet(tallies)
    /\ MajorityTypes =>
        /\ \A h \in Handlers :
            txn[h].op \in Proclaiming /\ txn[h].result = "PASSED" => Outvoted(txn[h].round)
        /\ \A r \in Rounds :
            rounds[r].result = "PASSED" /\ rounds[r].tieBreaker = "NONE" => Outvoted(r)

LEMMA VotesCome ==
    ASSUME [Next]_vars
    PROVE  \/ UNCHANGED <<nominalVotes, tallies>>
           \/ \E h \in Handlers : InsertVote(h) \/ InsertTally(h)
<1>1. ASSUME NEW h \in Handlers, Start(h) PROVE UNCHANGED <<nominalVotes, tallies>>
  BY <1>1, StartBegins DEF votes
<1>2. ASSUME NEW h \in Handlers, Continue(h) \/ Rollback(h)
      PROVE  UNCHANGED <<nominalVotes, tallies>> \/ InsertVote(h) \/ InsertTally(h)
  BY <1>2 DEF Continue, InsertSpecific, WriteUpdate, WriteDelete, WriteOpen, LockForVote,
     InsertVoter, LockItem, CommitProclaim, CommitTieBreak, InsertClone, Rollback, votes
<1>3. CASE Presidency \/ Chamber \/ UNCHANGED vars
  BY <1>3 DEF Presidency, CreateVotingRound, CloseVotingRound, Chamber,
     SetAttendance, RegisterLegislator, RemoveLegislator, votes, vars
<1>4. QED
  BY <1>1, <1>2, <1>3 DEF Next

\* Votes come into a round only while it is open.
LEMMA VotesStay ==
    ASSUME IInv, [Next]_vars, NEW r \in Rounds, rounds[r].status # "VOTING_OPEN"
    PROVE  Outvoted(r) => Outvoted(r)'
<1> USE DEF IInv
<1>1. ASSUME NEW h \in Handlers, InsertVote(h)
      PROVE  {b \in nominalVotes' : b.round = r} = {b \in nominalVotes : b.round = r}
             /\ tallies' = tallies
  <2>1. txn[h].round # r
    BY <1>1 DEF InsertVote, StillAsChecked, ReliesOn, ForShareOps, Proclaiming, Idle
  <2>2. QED
    BY <1>1, <2>1 DEF InsertVote
<1>2. ASSUME NEW h \in Handlers, InsertTally(h)
      PROVE  {b \in tallies' : b.round = r} = {b \in tallies : b.round = r}
             /\ nominalVotes' = nominalVotes
  <2>1. txn[h].round # r
    BY <1>2 DEF InsertTally, StillAsChecked, ReliesOn, ForShareOps, Proclaiming, Idle
  <2>2. QED
    BY <1>2, <2>1 DEF InsertTally
<1>3. \/ UNCHANGED <<nominalVotes, tallies>>
      \/ \E h \in Handlers : InsertVote(h) \/ InsertTally(h)
  BY VotesCome
<1>4. /\ {b \in nominalVotes' : b.round = r} = {b \in nominalVotes : b.round = r}
      /\ {b \in tallies' : b.round = r} = {b \in tallies : b.round = r}
  BY <1>1, <1>2, <1>3
<1>5. \A v : /\ {b \in nominalVotes' : b.round = r /\ b.value = v}
                = {b \in nominalVotes : b.round = r /\ b.value = v}
             /\ {b \in tallies' : b.round = r /\ b.value = v}
                = {b \in tallies : b.round = r /\ b.value = v}
  <2>1. \A b : /\ b \in nominalVotes' /\ b.round = r <=> b \in nominalVotes /\ b.round = r
               /\ b \in tallies' /\ b.round = r <=> b \in tallies /\ b.round = r
    BY <1>4
  <2>2. QED
    BY <2>1
<1>6. \A v : NominalCount(r, v)' = NominalCount(r, v) /\ TallyCount(r, v)' = TallyCount(r, v)
  BY <1>5 DEF NominalCount, TallyCount
<1>7. QED
  BY <1>6 DEF Outvoted

LEMMA VotesAreFinite ==
    ASSUME [Next]_vars, IsFiniteSet(nominalVotes), IsFiniteSet(tallies)
    PROVE  IsFiniteSet(nominalVotes') /\ IsFiniteSet(tallies')
<1>1. ASSUME NEW h \in Handlers, InsertVote(h)
      PROVE  IsFiniteSet(nominalVotes') /\ IsFiniteSet(tallies')
  <2>1. tallies' = tallies
        /\ (nominalVotes' = nominalVotes \/ \E b : nominalVotes' = nominalVotes \cup {b})
    BY <1>1 DEF InsertVote
  <2>2. QED
    BY <2>1, FS_AddElement
<1>2. ASSUME NEW h \in Handlers, InsertTally(h)
      PROVE  IsFiniteSet(nominalVotes') /\ IsFiniteSet(tallies')
  <2>1. nominalVotes' = nominalVotes
        /\ (tallies' = tallies \/ \E b : tallies' = tallies \cup {b})
    BY <1>2 DEF InsertTally
  <2>2. QED
    BY <2>1, FS_AddElement
<1>3. \/ UNCHANGED <<nominalVotes, tallies>>
      \/ \E h \in Handlers : InsertVote(h) \/ InsertTally(h)
  BY VotesCome
<1>4. QED
  BY <1>1, <1>2, <1>3

\* Under the voting types of MajorityTypes, what is counted as PASSED has more
\* votes for it than against it.
LEMMA PassedIsOutvoted ==
    ASSUME TypeOK, IsFiniteSet(nominalVotes), IsFiniteSet(tallies), MajorityTypes,
           NEW r \in Rounds, rounds[r].status # "NONE", ComputedResult(r) = "PASSED"
    PROVE  Outvoted(r)
<1> DEFINE row == rounds[r]
           aff == VoteCount(r, "AFFIRMATIVE")
           neg == VoteCount(r, "NEGATIVE")
           abst == VoteCount(r, "ABSTENTION")
           total == EffectiveCount(PresType[row.session], row.params.presVotes, Cardinality(active))
           d == Denominator(row.params.type.base, aff, neg, abst, row.quorum, total)
<1>1. \A v : NominalCount(r, v) \in Nat /\ TallyCount(r, v) \in Nat
  <2> SUFFICES ASSUME NEW v PROVE NominalCount(r, v) \in Nat /\ TallyCount(r, v) \in Nat
    OBVIOUS
  <2>1. /\ IsFiniteSet({b \in nominalVotes : b.round = r /\ b.value = v})
        /\ IsFiniteSet({b \in tallies : b.round = r /\ b.value = v})
    BY FS_Subset
  <2>2. QED
    BY <2>1, FS_CardinalityType DEF NominalCount, TallyCount
<1>2. aff \in Nat /\ neg \in Nat /\ abst \in Nat
  BY <1>1 DEF VoteCount
<1>3. /\ row.quorum \in Nat /\ row.params.type \in VotingTypes /\ row.session \in Sessions
      /\ row.params.presVotes \in BOOLEAN
  BY RowIsExisting DEF ExistingRow, Params
<1>4. /\ row.params.type.base \in {"VOTES_CAST", "MEMBERS_PRESENT"}
      /\ row.params.type.threshold \in Thresholds
      /\ row.params.type.threshold = 0 \/ row.params.type.threshold >= 5000
  BY <1>3 DEF MajorityTypes, CalculationBase
<1>5. total \in Nat
  BY <1>3, CountsAreNatural, QuorumIsNatural
<1>6. Decide(aff, neg, d, row.params.type.threshold) = "PASSED"
  BY DEF ComputedResult, RoundResult
<1> HIDE DEF aff, neg, abst, total, row
<1>7. d \in Nat /\ d >= aff + neg
  BY <1>2, <1>3, <1>4, <1>5, DenominatorCountsVotes DEF Denominator, MaxOf
<1> HIDE DEF d
<1>8. aff > neg
  BY <1>2, <1>4, <1>6, <1>7, PassedHasAMajority
<1>9. QED
  BY <1>8 DEF aff, neg, VoteCount, Outvoted

\* A proclamation begins, ends or goes on.
LEMMA ProclaimingStep ==
    ASSUME IInv, [Next]_vars, NEW g \in Handlers, txn'[g].op \in Proclaiming
    PROVE  txn'[g] = txn[g] \/ LockItem(g) \/ \E r \in Rounds : BeginProclaim(g, r)
<1>1. ASSUME NEW h \in Handlers, Start(h)
      PROVE  txn'[g] = txn[g] \/ \E r \in Rounds : BeginProclaim(g, r)
  <2>1. \A t : Begin(h, t) => txn'[g] = txn[g] \/ (g = h /\ txn'[g] = t)
    BY DEF Begin, IInv, TypeOK
  <2> DEFINE Other == \E t : t.op \notin Proclaiming /\ Begin(h, t)
  <2>2. ASSUME NEW t, t.op \notin Proclaiming, Begin(h, t) PROVE Other
    BY <2>2
  <2>3. Other => txn'[g] = txn[g]
    BY <2>1
  <2> USE DEF Proclaiming
  <2> HIDE DEF Other
  <2>4. ASSUME NEW r \in Rounds, NEW p \in Revisions, BeginUpdate(h, r, p) PROVE Other
    BY <2>2, <2>4 DEF BeginUpdate
  <2>5. ASSUME NEW r \in Rounds, BeginDelete(h, r) \/ BeginOpen(h, r) PROVE Other
    BY <2>2, <2>5 DEF BeginDelete, BeginOpen
  <2>6. ASSUME NEW r \in Rounds, NEW l \in Legislators, NEW v \in Values,
               VerifyVote(h, r, l, v) \/ BeginTieBreak(h, r, l, v)
        PROVE  Other
    BY <2>2, <2>6 DEF VerifyVote, BeginTieBreak
  <2>7. ASSUME NEW r \in Rounds, NEW l \in Legislators, NEW t \in Tokens, BeginAuthorize(h, r, l, t)
        PROVE  Other
    BY <2>2, <2>7 DEF BeginAuthorize
  <2>8. ASSUME NEW r \in Rounds, NEW t \in Tokens, NEW v \in Values, BeginSpend(h, r, t, v)
        PROVE  Other
    BY <2>2, <2>8 DEF BeginSpend
  <2>9. ASSUME NEW r \in Rounds, NEW d \in Drafts, BeginSpecific(h, r, d) PROVE Other
    BY <2>2, <2>9 DEF BeginSpecific
  <2>10. Other \/ \E r \in Rounds : BeginProclaim(h, r)
    <3>1. ASSUME NEW r \in Rounds, NEW n \in Rounds, BeginRectify(h, r, n) PROVE Other
      BY <2>2, <3>1 DEF BeginRectify
    <3>2. QED
      BY <1>1, <2>4, <2>5, <2>6, <2>7, <2>8, <2>9, <3>1 DEF Start
  <2>11. ASSUME NEW r \in Rounds, BeginProclaim(h, r)
         PROVE  txn'[g] = txn[g] \/ \E q \in Rounds : BeginProclaim(g, q)
    BY <2>1, <2>11 DEF BeginProclaim
  <2>12. QED
    BY <2>3, <2>10, <2>11
<1>2. ASSUME NEW h \in Handlers, LockForVote(h) PROVE txn'[g] = txn[g]
  <2>1. txn[h] \in [op: {"verifying", "casting"}, round: Rounds, legislator: Legislators,
                    value: VoteValue]
    BY <1>2, TxnByOp DEF LockForVote, IInv
  <2>2. QED
    BY <1>2, <2>1 DEF LockForVote, Finish, Idle, Proclaiming, IInv, TypeOK
<1>3. ASSUME NEW h \in Handlers, Finish(h) PROVE txn'[g] = txn[g]
  BY <1>3 DEF Finish, Idle, Proclaiming, IInv, TypeOK
<1>4. ASSUME NEW h \in Handlers, LockItem(h) PROVE txn'[g] = txn[g] \/ LockItem(g)
  BY <1>4 DEF LockItem, IInv, TypeOK
<1>5. CASE Presidency \/ Chamber \/ UNCHANGED vars
  BY <1>5 DEF Presidency, CreateVotingRound, CloseVotingRound, Chamber,
     SetAttendance, RegisterLegislator, RemoveLegislator, vars
<1>6. QED
  BY <1>1, <1>2, <1>3, <1>4, <1>5, GoesOn DEF Next

\* A result that is written was counted, decided by a tie breaker, or a tie.
LEMMA WrittenResult ==
    ASSUME IInv, [Next]_vars, NEW r \in Rounds,
           rounds'[r].result = "PASSED", rounds[r].result # "PASSED", rounds'[r].tieBreaker = "NONE"
    PROVE  \E h \in Handlers : /\ txn[h].op \in Proclaiming /\ txn[h].round = r
                               /\ txn[h].result = "PASSED"
<1> USE DEF IInv
<1>1. ASSUME NEW h \in Handlers, CommitProclaim(h)
      PROVE  txn[h].op \in Proclaiming /\ txn[h].round = r /\ txn[h].result = "PASSED"
  BY <1>1 DEF CommitProclaim, Proclaiming, TypeOK, Row, NoRow
<1>2. ASSUME NEW h \in Handlers, CommitTieBreak(h)
      PROVE  FALSE
  <2>1. txn[h].value \in {"AFFIRMATIVE", "NEGATIVE"}
    BY <1>2, TxnByOp DEF CommitTieBreak
  <2>2. QED
    BY <1>2, <2>1 DEF CommitTieBreak, TypeOK, Row, NoRow
<1>3. ASSUME NEW h \in Handlers, WriteUpdate(h) \/ WriteDelete(h) \/ WriteOpen(h) \/ InsertSpecific(h)
      PROVE  FALSE
  BY <1>3 DEF WriteUpdate, WriteDelete, WriteOpen, InsertSpecific, NewRow, TypeOK, Row, NoRow
<1>0. ASSUME NEW h \in Handlers, InsertClone(h)
      PROVE  FALSE
  BY <1>0 DEF InsertClone, NewRow, TypeOK, Row, NoRow
<1>4. ASSUME Presidency PROVE FALSE
  BY <1>4 DEF Presidency, CreateVotingRound, CloseVotingRound, NewRow, TypeOK, Row,
     NoRow
<1>5. UNCHANGED rounds => FALSE
  OBVIOUS
<1>6. ASSUME NEW h \in Handlers, Start(h) \/ Rollback(h) \/ LockForVote(h) \/ InsertVote(h)
                                  \/ InsertVoter(h) \/ InsertTally(h) \/ LockItem(h)
      PROVE  UNCHANGED rounds
  BY <1>6, StartBegins DEF Rollback, LockForVote, InsertVote, InsertVoter, InsertTally, LockItem
<1>7. Chamber \/ UNCHANGED vars => UNCHANGED rounds
  BY DEF Chamber, SetAttendance, RegisterLegislator, RemoveLegislator, vars
<1>8. QED
  BY <1>0, <1>1, <1>2, <1>3, <1>4, <1>5, <1>6, <1>7 DEF Next, Continue

LEMMA OutvotesStep ==
    ASSUME IInv, PassedIsFinal, OutvotesInv, [Next]_vars
    PROVE  OutvotesInv'
<1> USE DEF OutvotesInv
<1>1. IsFiniteSet(nominalVotes') /\ IsFiniteSet(tallies')
  BY VotesAreFinite
<1>2. ASSUME MajorityTypes, NEW h \in Handlers, txn[h].op \in Proclaiming, txn[h].result = "PASSED",
             NEW r \in Rounds, r = txn[h].round
      PROVE  Outvoted(r)'
  <2>1. rounds[r].status = "VOTING_CLOSED"
    BY <1>2 DEF IInv, StillAsChecked, ReliesOn, ForShareOps, Proclaiming, Idle
  <2>2. QED
    BY <1>2, <2>1, VotesStay
<1>3. ASSUME MajorityTypes, NEW h \in Handlers, txn'[h].op \in Proclaiming, txn'[h].result = "PASSED"
      PROVE  \E r : r = txn'[h].round /\ Outvoted(r)'
  <2>1. CASE txn'[h] = txn[h]
    <3>1. txn[h].round \in Rounds
      BY <1>3, <2>1, TxnByOp DEF IInv, Idle, Proclaiming
    <3>2. PICK r \in Rounds : r = txn[h].round
      BY <3>1
    <3>3. QED
      BY <1>2, <1>3, <2>1, <3>2
  <2>2. ASSUME NEW r \in Rounds, BeginProclaim(h, r)
        PROVE  \E q : q = txn'[h].round /\ Outvoted(q)'
    <3>1. txn'[h] = [op |-> "proclaiming", round |-> r, result |-> ComputedResult(r)]
      BY <2>2 DEF BeginProclaim, Begin, IInv, TypeOK
    <3>2. Outvoted(r)
      BY <1>3, <2>2, <3>1, PassedIsOutvoted DEF BeginProclaim, HasStatus, IInv
    <3>3. Outvoted(r)'
      BY <2>2, <3>2, VotesStay DEF BeginProclaim, HasStatus
    <3>4. QED
      BY <3>1, <3>3
  <2>3. CASE LockItem(h)
    <3>1. /\ txn[h].op \in Proclaiming /\ txn[h].round \in Rounds
          /\ txn'[h].round = txn[h].round /\ txn'[h].result = txn[h].result
      <4>1. txn[h] \in [op: {"proclaiming"}, round: Rounds, result: Results]
        BY <2>3, TxnByOp DEF LockItem, IInv
      <4>2. txn'[h] = [txn[h] EXCEPT !.op = "anchoring"]
        BY <2>3 DEF LockItem, IInv, TypeOK
      <4>3. QED
        BY <4>1, <4>2 DEF Proclaiming
    <3>2. PICK r \in Rounds : r = txn[h].round
      BY <3>1
    <3>3. QED
      BY <1>2, <1>3, <3>1, <3>2
  <2>4. QED
    BY <1>3, <2>1, <2>2, <2>3, ProclaimingStep
<1>4. ASSUME MajorityTypes, NEW r \in Rounds, rounds'[r].result = "PASSED",
             rounds'[r].tieBreaker = "NONE"
      PROVE  Outvoted(r)'
  <2>1. CASE rounds[r].result = "PASSED"
    <3>1. rounds[r].status = "RESOLVED"
      BY <2>1 DEF PassedIsFinal
    <3>2. rounds[r].tieBreaker = "NONE"
      BY <1>4, <3>1, RowStep DEF Kept, Inserted
    <3>3. QED
      BY <1>4, <2>1, <3>1, <3>2, VotesStay
  <2>2. CASE rounds[r].result # "PASSED"
    <3>1. PICK h \in Handlers : /\ txn[h].op \in Proclaiming /\ txn[h].round = r
                                /\ txn[h].result = "PASSED"
      BY <1>4, <2>2, WrittenResult
    <3>2. QED
      BY <1>2, <1>4, <3>1
  <2>3. QED
    BY <2>1, <2>2
<1>5. MajorityTypes' <=> MajorityTypes
  BY DEF MajorityTypes
<1>6. QED
  BY <1>1, <1>3, <1>4, <1>5

THEOREM OutvotesInductive == Spec => []OutvotesInv
<1>1. Init => OutvotesInv
  BY FS_EmptySet DEF Init, OutvotesInv, NoRow, Idle, Proclaiming
<1>2. StagesInv => PassedIsFinal
  BY DEF StagesInv
<1>3. QED
  BY <1>1, <1>2, OutvotesStep, Inductive, StagesInductive, PTL DEF Spec

\* What passed without the presiding officer has more votes for it than against
\* it for ever, for any number of votes, late arrivals and rectified rounds.
THEOREM OutvotesForEver == Spec => []PassedOutvotes
<1>1. OutvotesInv => PassedOutvotes
  BY DEF OutvotesInv, Outvoted, PassedOutvotes
<1>2. QED
  BY <1>1, OutvotesInductive, PTL

-----------------------------------------------------------------------------
(* VotingRounds implements RoundLifecycle.                                 *)

\* The phase and the outcome of each round, as the refinement sees them.
Phase == [r \in Rounds |-> rounds[r].status]
Outcome == [r \in Rounds |-> rounds[r].result]
Box == [r \in Rounds |-> BallotsOf(r)]

LEMMA PhaseMoves ==
    ASSUME NEW r \in Rounds, NEW st,
           \A q \in Rounds : rounds'[q].status = IF q = r THEN st ELSE rounds[q].status
    PROVE  Phase' = [Phase EXCEPT ![r] = st]
BY DEF Phase

LEMMA SameOutcome ==
    ASSUME \A q \in Rounds : rounds'[q].result = rounds[q].result
    PROVE  Outcome' = Outcome
BY DEF Outcome

LEMMA SameBox ==
    ASSUME UNCHANGED <<nominalVotes, tallies>>
    PROVE  UNCHANGED Box
BY DEF Box, BallotsOf, TalliesOf

\* A nominal vote is a ballot with a mark that its round did not have.
LEMMA VoteIsCast ==
    ASSUME TypeOK, NEW r \in Rounds, NEW l \in Legislators, NEW v \in VoteValue,
           ~HasVoted(r, l), UNCHANGED tallies,
           nominalVotes' = nominalVotes \cup {[round |-> r, legislator |-> l, value |-> v]}
    PROVE  /\ l \notin {c.mark : c \in BallotsOf(r)}
           /\ Box' = [Box EXCEPT ![r] = @ \cup {[mark |-> l, value |-> v]}]
<1>1. \A b \in nominalVotes : b.legislator = l => b.round # r
  BY DEF HasVoted
<1>2. \A b \in tallies : b.token # l
  BY DEF TypeOK, NonNominalTally
<1>3. l \notin {c.mark : c \in BallotsOf(r)}
  BY <1>1, <1>2 DEF BallotsOf, TalliesOf
<1>4. BallotsOf(r)' = BallotsOf(r) \cup {[mark |-> l, value |-> v]}
  <2> DEFINE vote == [round |-> r, legislator |-> l, value |-> v]
             cast == {c \in nominalVotes : c.round = r}
  <2>1. cast' = cast \cup {vote}
    OBVIOUS
  <2>2. vote.legislator = l /\ vote.value = v
    OBVIOUS
  <2> HIDE DEF vote, cast
  <2>3. {[mark |-> b.legislator, value |-> b.value] : b \in cast \cup {vote}}
        = {[mark |-> b.legislator, value |-> b.value] : b \in cast}
          \cup {[mark |-> l, value |-> v]}
    BY <2>2
  <2>4. QED
    BY <2>1, <2>3 DEF BallotsOf, TalliesOf, cast
<1>5. \A q \in Rounds : q # r => BallotsOf(q)' = BallotsOf(q)
  BY DEF BallotsOf, TalliesOf
<1>6. QED
  BY <1>3, <1>4, <1>5 DEF Box

\* So is a secret one.
LEMMA TallyIsCast ==
    ASSUME TypeOK, NEW r \in Rounds, NEW t \in Tokens, NEW v \in VoteValue,
           ~IsSpent(t), UNCHANGED nominalVotes,
           tallies' = tallies \cup {[round |-> r, token |-> t, value |-> v]}
    PROVE  /\ t \notin {c.mark : c \in BallotsOf(r)}
           /\ Box' = [Box EXCEPT ![r] = @ \cup {[mark |-> t, value |-> v]}]
<1>1. \A b \in tallies : b.token # t
  BY DEF IsSpent
<1>2. \A b \in nominalVotes : b.legislator # t
  BY DEF TypeOK, NominalVote
<1>3. t \notin {c.mark : c \in BallotsOf(r)}
  BY <1>1, <1>2 DEF BallotsOf, TalliesOf
<1>4. BallotsOf(r)' = BallotsOf(r) \cup {[mark |-> t, value |-> v]}
  <2> DEFINE vote == [round |-> r, token |-> t, value |-> v]
  <2>1. TalliesOf(r)' = TalliesOf(r) \cup {vote}
    BY DEF TalliesOf
  <2>2. vote.token = t /\ vote.value = v
    OBVIOUS
  <2> HIDE DEF vote
  <2>3. {[mark |-> b.token, value |-> b.value] : b \in TalliesOf(r) \cup {vote}}
        = {[mark |-> b.token, value |-> b.value] : b \in TalliesOf(r)}
          \cup {[mark |-> t, value |-> v]}
    BY <2>2
  <2>4. QED
    BY <2>1, <2>3 DEF BallotsOf
<1>5. \A q \in Rounds : q # r => BallotsOf(q)' = BallotsOf(q)
  BY DEF BallotsOf, TalliesOf
<1>6. QED
  BY <1>3, <1>4, <1>5 DEF Box

-----------------------------------------------------------------------------
(* One lemma for each kind of step.                                        *)

LEMMA InitImplements == Init => Lifecycle!Init
BY DEF Init, Lifecycle!Init, NoRow, BallotsOf, TalliesOf

LEMMA PresidencyImplements ==
    ASSUME TypeOK, Presidency
    PROVE  Lifecycle!Next
<1>1. UNCHANGED Box
  BY SameBox DEF Presidency, CreateVotingRound, CloseVotingRound, votes
<1>2. ASSUME NEW r \in Rounds, NEW d \in Drafts, CreateVotingRound(r, d)
      PROVE  Lifecycle!Create(r)
  <2>1. rounds[r] = NoRow
    BY <1>2, RowIsNoRow DEF CreateVotingRound, Fresh
  <2>2. \A q \in Rounds :
            /\ rounds'[q].status = IF q = r THEN "DRAFT" ELSE rounds[q].status
            /\ rounds'[q].result = rounds[q].result
    BY <1>2, <2>1 DEF CreateVotingRound, NoRow, NewRow, TypeOK
  <2>3. QED
    BY <1>1, <2>1, <2>2, PhaseMoves, SameOutcome
       DEF Lifecycle!Create, Lifecycle!Move, Phase, Outcome, Box, NoRow
<1>3. ASSUME NEW r \in Rounds, CloseVotingRound(r)
      PROVE  Lifecycle!Close(r)
  <2>1. rounds[r] \in ExistingRow
    BY <1>3, RowIsExisting DEF CloseVotingRound, HasStatus, Exists
  <2>2. \A q \in Rounds :
            /\ rounds'[q].status = IF q = r THEN "VOTING_CLOSED" ELSE rounds[q].status
            /\ rounds'[q].result = rounds[q].result
    BY <1>3, <2>1 DEF CloseVotingRound, TypeOK, ExistingRow
  <2>3. QED
    BY <1>1, <1>3, <2>2, PhaseMoves, SameOutcome
       DEF CloseVotingRound, HasStatus, Lifecycle!Close, Lifecycle!Move, Phase, Outcome, Box
<1>4. QED
  BY <1>2, <1>3 DEF Presidency, Lifecycle!Next

\* A step that changes no status, no result and no ballot.
LEMMA Stutter ==
    ASSUME UNCHANGED <<nominalVotes, tallies>>,
           \A q \in Rounds : /\ rounds'[q].status = rounds[q].status
                             /\ rounds'[q].result = rounds[q].result
    PROVE  UNCHANGED Lifecycle!vars
<1>1. Phase' = Phase
  BY DEF Phase
<1>2. QED
  BY <1>1, SameOutcome, SameBox DEF Lifecycle!vars, Phase, Outcome, Box

LEMMA ContinueImplements ==
    ASSUME IInv, NEW h \in Handlers, Continue(h)
    PROVE  Lifecycle!Next \/ UNCHANGED Lifecycle!vars
<1> PICK r : r = txn[h].round
  OBVIOUS
<1>0. TypeOK /\ StillAsChecked
  BY DEF IInv
<1>1. txn[h] # Idle => r \in Rounds /\ rounds[r].status \in ReliesOn(txn[h].op)
  BY <1>0, TxnByOp DEF StillAsChecked
<1>2. CASE LockForVote(h) \/ InsertVoter(h) \/ LockItem(h)
  BY <1>2, Stutter DEF LockForVote, InsertVoter, LockItem, votes
<1>3. CASE WriteUpdate(h) \/ WriteDelete(h)
  BY <1>0, <1>3, Stutter DEF WriteUpdate, WriteDelete, votes, TypeOK, Row, NoRow
<1>4. CASE InsertSpecific(h)
  <2>1. r \in Rounds /\ rounds[r] = NoRow
    BY <1>0, <1>1, <1>4, RowIsNoRow DEF InsertSpecific, ReliesOn, ForShareOps, Proclaiming, Idle
  <2>2. \A q \in Rounds :
            /\ rounds'[q].status = IF q = r THEN "DRAFT" ELSE rounds[q].status
            /\ rounds'[q].result = rounds[q].result
    BY <1>0, <1>4, <2>1 DEF InsertSpecific, NoRow, NewRow, TypeOK
  <2>3. Lifecycle!Create(r)
    BY <1>4, <2>1, <2>2, PhaseMoves, SameOutcome, SameBox
       DEF InsertSpecific, votes, Lifecycle!Create, Lifecycle!Move, Phase, Outcome, Box, NoRow
  <2>4. QED
    BY <2>1, <2>3 DEF Lifecycle!Next
<1>5. CASE WriteOpen(h)
  <2>1. r \in Rounds /\ rounds[r].status = "DRAFT"
    BY <1>1, <1>5 DEF WriteOpen, ReliesOn, Idle, ForShareOps, Proclaiming
  <2>2. rounds[r] \in ExistingRow
    BY <1>0, <2>1, RowIsExisting
  <2>3. CASE UNCHANGED rounds
    BY <1>5, <2>3, Stutter DEF WriteOpen, votes
  <2>4. CASE ~UNCHANGED rounds
    <3>1. /\ rounds' = [rounds EXCEPT ![r].status = "VOTING_OPEN", ![r].quorum = txn[h].quorum]
          /\ UNCHANGED <<nominalVotes, tallies>>
      BY <1>5, <2>4 DEF WriteOpen, votes
    <3>2. /\ rounds'[r] = [rounds[r] EXCEPT !.status = "VOTING_OPEN",
                                            !.quorum = txn[h].quorum]
          /\ \A q \in Rounds : q # r => rounds'[q] = rounds[q]
      BY <1>0, <2>1, <3>1 DEF TypeOK
    <3>3. \A q \in Rounds :
              /\ rounds'[q].status = IF q = r THEN "VOTING_OPEN" ELSE rounds[q].status
              /\ rounds'[q].result = rounds[q].result
      <4>1. rounds'[r].status = "VOTING_OPEN" /\ rounds'[r].result = rounds[r].result
        BY <2>2, <3>2 DEF ExistingRow
      <4>2. QED
        BY <2>1, <3>2, <4>1
    <3>4. Lifecycle!Open(r)
      BY <2>1, <3>1, <3>3, PhaseMoves, SameOutcome, SameBox
         DEF Lifecycle!Open, Lifecycle!Move, Phase, Outcome, Box
    <3>5. QED
      BY <2>1, <3>4 DEF Lifecycle!Next
  <2>5. QED
    BY <2>3, <2>4
<1>6. CASE InsertVote(h)
  <2>1. CASE HasVoted(r, txn[h].legislator)
    BY <1>6, <2>1, Stutter DEF InsertVote
  <2>2. CASE ~HasVoted(r, txn[h].legislator)
    <3> PICK b : b = [mark |-> txn[h].legislator, value |-> txn[h].value]
      OBVIOUS
    <3>1. /\ r \in Rounds /\ rounds[r].status = "VOTING_OPEN"
          /\ txn[h].legislator \in Legislators /\ txn[h].value \in VoteValue
      BY <1>0, <1>1, <1>6, TxnByOp DEF InsertVote, ReliesOn, ForShareOps, Proclaiming, Idle
    <3>2. /\ b.mark \notin {c.mark : c \in BallotsOf(r)}
          /\ Box' = [Box EXCEPT ![r] = @ \cup {b}]
      BY <1>0, <1>6, <2>2, <3>1, VoteIsCast DEF InsertVote
    <3>3. b \in Lifecycle!Ballot
      BY <3>1 DEF Lifecycle!Ballot
    <3>4. Phase' = Phase /\ Outcome' = Outcome /\ Phase[r] = "VOTING_OPEN"
      BY <1>6, <3>1 DEF InsertVote, Phase, Outcome
    <3>5. Lifecycle!Cast(r, b)
      BY <3>1, <3>2, <3>4 DEF Lifecycle!Cast, Phase, Outcome, Box
    <3>6. QED
      BY <3>1, <3>3, <3>5 DEF Lifecycle!Next
  <2>3. QED
    BY <2>1, <2>2
<1>7. CASE InsertTally(h)
  <2>1. CASE IsSpent(txn[h].token)
    BY <1>7, <2>1, Stutter DEF InsertTally
  <2>2. CASE ~IsSpent(txn[h].token)
    <3> PICK b : b = [mark |-> txn[h].token, value |-> txn[h].value]
      OBVIOUS
    <3>1. /\ r \in Rounds /\ rounds[r].status = "VOTING_OPEN"
          /\ txn[h].token \in Tokens /\ txn[h].value \in VoteValue
      BY <1>0, <1>1, <1>7, TxnByOp DEF InsertTally, ReliesOn, ForShareOps, Proclaiming, Idle
    <3>2. /\ b.mark \notin {c.mark : c \in BallotsOf(r)}
          /\ Box' = [Box EXCEPT ![r] = @ \cup {b}]
      BY <1>0, <1>7, <2>2, <3>1, TallyIsCast DEF InsertTally
    <3>3. b \in Lifecycle!Ballot
      BY <3>1 DEF Lifecycle!Ballot
    <3>4. Phase' = Phase /\ Outcome' = Outcome /\ Phase[r] = "VOTING_OPEN"
      BY <1>7, <3>1 DEF InsertTally, Phase, Outcome
    <3>5. Lifecycle!Cast(r, b)
      BY <3>1, <3>2, <3>4 DEF Lifecycle!Cast, Phase, Outcome, Box
    <3>6. QED
      BY <3>1, <3>3, <3>5 DEF Lifecycle!Next
  <2>3. QED
    BY <2>1, <2>2
<1>8. CASE CommitProclaim(h)
  <2> PICK res : res = txn[h].result
    OBVIOUS
  <2>1. txn[h].op \in Proclaiming /\ UNCHANGED <<nominalVotes, tallies>>
    BY <1>8 DEF CommitProclaim, Proclaiming, votes
  <2>2. r \in Rounds /\ rounds[r].status = "VOTING_CLOSED" /\ res \in Results
    BY <1>0, <1>1, <2>1, TxnByOp DEF ReliesOn, ForShareOps, Proclaiming, Idle
  <2>3. /\ rounds'[r].status = IF res = "TIED" THEN "TIED" ELSE "RESOLVED"
        /\ rounds'[r].result = res
        /\ \A q \in Rounds : q # r => rounds'[q] = rounds[q]
    BY <1>0, <1>8, <2>2, ProclaimedRow
  <2>4. /\ Phase' = [Phase EXCEPT ![r] = IF res = "TIED" THEN "TIED" ELSE "RESOLVED"]
        /\ Outcome' = [Outcome EXCEPT ![r] = res] /\ Box' = Box
    BY <2>1, <2>2, <2>3, SameBox DEF Phase, Outcome
  <2>5. CASE res = "TIED"
    <3>1. Lifecycle!Tie(r)
      BY <2>2, <2>4, <2>5 DEF Lifecycle!Tie, Lifecycle!Move, Phase, Outcome, Box
    <3>2. QED
      BY <2>2, <2>5, <3>1 DEF Lifecycle!Next
  <2>6. CASE res # "TIED"
    <3>1. Lifecycle!Resolve(r, "VOTING_CLOSED", res)
      BY <2>2, <2>4, <2>6 DEF Lifecycle!Resolve, Lifecycle!Move, Phase, Outcome, Box
    <3>2. QED
      BY <2>2, <2>6, <3>1 DEF Lifecycle!Next, Results
  <2>7. QED
    BY <2>5, <2>6
<1>9. CASE CommitTieBreak(h)
  <2> PICK res : res = IF txn[h].value = "AFFIRMATIVE" THEN "PASSED" ELSE "FAILED"
    OBVIOUS
  <2>1. txn[h].op = "tieBreaking" /\ UNCHANGED <<nominalVotes, tallies>>
    BY <1>9 DEF CommitTieBreak, votes
  <2>2. r \in Rounds /\ rounds[r].status = "TIED"
    BY <1>1, <2>1 DEF ReliesOn, ForShareOps, Proclaiming, Idle
  <2>3. /\ rounds'[r].status = "RESOLVED" /\ rounds'[r].result = res
        /\ \A q \in Rounds : q # r => rounds'[q] = rounds[q]
    BY <1>0, <1>9, <2>2, TieBrokenRow
  <2>4. Phase' = [Phase EXCEPT ![r] = "RESOLVED"] /\ Outcome' = [Outcome EXCEPT ![r] = res]
        /\ Box' = Box
    BY <2>1, <2>2, <2>3, SameBox DEF Phase, Outcome
  <2>5. Lifecycle!Resolve(r, "TIED", res)
    BY <2>2, <2>4 DEF Lifecycle!Resolve, Lifecycle!Move, Phase, Outcome, Box
  <2>6. QED
    BY <2>2, <2>5 DEF Lifecycle!Next
<1>10. CASE InsertClone(h)
  <2> PICK n : n = txn[h].clone
    OBVIOUS
  <2>1. /\ r \in Rounds /\ n \in Rounds /\ UNCHANGED <<nominalVotes, tallies>>
        /\ rounds[r] \in ExistingRow /\ rounds[r].status # "RESOLVED"
    BY <1>10, CloneChecked DEF InsertClone, votes
  <2>2. rounds[n] = NoRow
    BY <1>0, <1>10, CloneChecked, RowIsNoRow
  <2>3. r # n
    BY <2>1, <2>2 DEF NoRow, ExistingRow, RoundStatus
  <2>4. \A q \in Rounds :
            /\ rounds'[q].status = IF q = r THEN "ABORTED"
                                   ELSE IF q = n THEN "DRAFT" ELSE rounds[q].status
            /\ rounds'[q].result = rounds[q].result
    BY <1>0, <1>10, <2>1, <2>2, <2>3
       DEF InsertClone, NoRow, NewRow, TypeOK, ExistingRow
  <2>5. Phase' = [Phase EXCEPT ![r] = "ABORTED", ![n] = "DRAFT"]
    BY <2>3, <2>4 DEF Phase
  <2>6. Phase[r] \notin {"NONE", "RESOLVED"} /\ Phase[n] = "NONE"
    BY <2>1, <2>2 DEF Phase, NoRow, ExistingRow, RoundStatus
  <2>7. Lifecycle!Rectify(r, n)
    BY <2>1, <2>4, <2>5, <2>6, SameOutcome, SameBox DEF Lifecycle!Rectify, Phase, Outcome, Box
  <2>8. QED
    BY <2>1, <2>7 DEF Lifecycle!Next
<1>11. QED
  BY <1>2, <1>3, <1>4, <1>5, <1>6, <1>7, <1>8, <1>9, <1>10 DEF Continue

LEMMA StepImplements ==
    ASSUME IInv, [Next]_vars
    PROVE  [Lifecycle!Next]_(Lifecycle!vars)
<1>1. ASSUME NEW h \in Handlers, Start(h) \/ Rollback(h)
      PROVE  UNCHANGED Lifecycle!vars
  BY <1>1, StartBegins, Stutter DEF Rollback, votes
<1>2. CASE Chamber \/ UNCHANGED vars
  BY <1>2, Stutter DEF Chamber, SetAttendance, RegisterLegislator, RemoveLegislator,
     vars, votes
<1>3. QED
  BY <1>1, <1>2, PresidencyImplements, ContinueImplements DEF Next, IInv

\* VotingRounds implements RoundLifecycle: no ballot is taken before the opening
\* or after the close, none twice for one mark, and what is resolved stays so.
THEOREM Implements == Spec => ImplementsLifecycle
<1>1. IInv /\ [Next]_vars => [Lifecycle!Next]_(Lifecycle!vars)
  BY StepImplements
<1>2. QED
  BY <1>1, InitImplements, Inductive, PTL DEF Spec, ImplementsLifecycle, Lifecycle!Spec

-----------------------------------------------------------------------------
(* Agenda items.                                                           *)

\* Only the two commits that resolve a round touch an item.
LEMMA OthersResolveNothing ==
    ASSUME IInv, [Next]_vars,
           \A h \in Handlers : ~CommitProclaim(h) /\ ~CommitTieBreak(h)
    PROVE  (\A q \in Rounds : ~Resolves(q)) /\ UNCHANGED itemStatus
<1> USE DEF IInv, Resolves
<1>1. CASE UNCHANGED <<rounds, itemStatus>>
  BY <1>1
<1>2. ASSUME NEW r \in Rounds, NEW d \in Drafts, CreateVotingRound(r, d)
      PROVE  (\A q \in Rounds : ~Resolves(q)) /\ UNCHANGED itemStatus
  BY <1>2 DEF CreateVotingRound, NewRow, TypeOK, chamber
<1>3. ASSUME NEW r \in Rounds, CloseVotingRound(r)
      PROVE  (\A q \in Rounds : ~Resolves(q)) /\ UNCHANGED itemStatus
  BY <1>3 DEF CloseVotingRound, HasStatus, TypeOK, Row, NoRow, chamber
<1>4. ASSUME NEW h \in Handlers, InsertClone(h)
      PROVE  (\A q \in Rounds : ~Resolves(q)) /\ UNCHANGED itemStatus
  BY <1>4 DEF InsertClone, NewRow, TypeOK, Row, NoRow, chamber
<1>5. ASSUME NEW h \in Handlers, Start(h)
      PROVE  UNCHANGED <<rounds, itemStatus>>
  BY <1>5, StartBegins DEF chamber
<1>6. ASSUME NEW h \in Handlers,
             \/ LockForVote(h) \/ InsertVote(h) \/ InsertVoter(h) \/ InsertTally(h)
             \/ LockItem(h) \/ Rollback(h)
      PROVE  UNCHANGED <<rounds, itemStatus>>
  BY <1>6 DEF LockForVote, InsertVote, InsertVoter, InsertTally, LockItem, Rollback, chamber
<1>7. ASSUME NEW h \in Handlers, InsertSpecific(h)
      PROVE  (\A q \in Rounds : ~Resolves(q)) /\ UNCHANGED itemStatus
  BY <1>7 DEF InsertSpecific, NewRow, TypeOK, chamber
<1>8. ASSUME NEW h \in Handlers, WriteUpdate(h)
      PROVE  (\A q \in Rounds : ~Resolves(q)) /\ UNCHANGED itemStatus
  BY <1>8 DEF WriteUpdate, TypeOK, Row, NoRow, chamber
<1>9. ASSUME NEW h \in Handlers, WriteDelete(h)
      PROVE  (\A q \in Rounds : ~Resolves(q)) /\ UNCHANGED itemStatus
  BY <1>9 DEF WriteDelete, TypeOK, Row, NoRow, chamber
<1>10. ASSUME NEW h \in Handlers, WriteOpen(h)
       PROVE  (\A q \in Rounds : ~Resolves(q)) /\ UNCHANGED itemStatus
  BY <1>10 DEF WriteOpen, TypeOK, Row, NoRow, chamber
<1>11. CASE Chamber
  BY <1>1, <1>11 DEF Chamber, SetAttendance, RegisterLegislator, RemoveLegislator
<1>12. CASE UNCHANGED vars
  BY <1>1, <1>12 DEF vars
<1>13. QED
  BY <1>1, <1>2, <1>3, <1>4, <1>5, <1>6, <1>7, <1>8, <1>9, <1>10, <1>11, <1>12
     DEF Next, Presidency, Continue

LEMMA ProclaimingResolves ==
    ASSUME IInv, NEW h \in Handlers, CommitProclaim(h)
    PROVE  \E r \in Rounds :
             /\ \A q \in Rounds : Resolves(q) => q = r
             /\ LET i == rounds[r].item IN
                \/ UNCHANGED itemStatus /\ ~Resolves(r)
                \/ /\ Resolves(r)
                   /\ itemStatus'[i] =
                        ItemAfter(rounds[r].stage, rounds'[r].result, itemStatus[i])
                   /\ \A j \in Items : j # i => itemStatus'[j] = itemStatus[j]
<1>1. PICK r \in Rounds : r = txn[h].round /\ rounds[r].status = "VOTING_CLOSED"
  <2>1. txn[h].op \in Proclaiming
    BY CommitEnds DEF Proclaiming
  <2>2. QED
    BY <2>1, TxnByOp DEF IInv, StillAsChecked, ReliesOn, ForShareOps, Proclaiming, Idle
<1>2. /\ \A q \in Rounds : q # r => rounds'[q] = rounds[q]
      /\ rounds'[r].result = txn[h].result
      /\ rounds'[r].status = IF txn[h].result = "TIED" THEN "TIED" ELSE "RESOLVED"
  BY <1>1, ProclaimedRow DEF IInv
<1>3. rounds[r].item \in Items
  BY <1>1, RowIsExisting DEF IInv, ExistingRow
<1>4. CASE txn[h].result = "TIED"
  <2>1. UNCHANGED itemStatus
    BY <1>4, TxnByOp DEF CommitProclaim, IInv
  <2>2. QED
    BY <1>1, <1>2, <1>4, <2>1 DEF Resolves
<1>5. CASE txn[h].result # "TIED"
  <2>1. itemStatus' = [itemStatus EXCEPT ![rounds[r].item] =
                          ItemAfter(rounds[r].stage, txn[h].result, @)]
    BY <1>1, <1>5 DEF CommitProclaim
  <2>2. /\ itemStatus'[rounds[r].item] =
             ItemAfter(rounds[r].stage, rounds'[r].result, itemStatus[rounds[r].item])
        /\ \A j \in Items : j # rounds[r].item => itemStatus'[j] = itemStatus[j]
    BY <1>2, <1>3, <2>1 DEF IInv, TypeOK
  <2>3. Resolves(r) /\ \A q \in Rounds : Resolves(q) => q = r
    BY <1>1, <1>2, <1>5 DEF Resolves
  <2>4. QED
    BY <2>2, <2>3
<1>6. QED
  BY <1>4, <1>5

\* Its own decision does not depend on what the tie-breaking vote read: only
\* whether there is anything to write does.
LEMMA TieBreakResolves ==
    ASSUME IInv, NEW h \in Handlers, CommitTieBreak(h)
    PROVE  \E r \in Rounds :
             /\ Resolves(r) /\ \A q \in Rounds : Resolves(q) => q = r
             /\ LET i == rounds[r].item IN
                /\ \/ itemStatus'[i] =
                        ItemAfter(rounds[r].stage, rounds'[r].result, itemStatus[i])
                   \/ Overtaken(r) /\ itemStatus'[i] = itemStatus[i]
                /\ \A j \in Items : j # i => itemStatus'[j] = itemStatus[j]
<1>1. PICK r \in Rounds : r = txn[h].round /\ rounds[r].status = "TIED"
  <2>1. txn[h].op = "tieBreaking"
    BY CommitEnds
  <2>2. QED
    BY <2>1, TxnByOp DEF IInv, StillAsChecked, ReliesOn, ForShareOps, Proclaiming, Idle
<1> PICK res, i, stage, read :
      /\ res = IF txn[h].value = "AFFIRMATIVE" THEN "PASSED" ELSE "FAILED"
      /\ i = rounds[r].item /\ stage = rounds[r].stage /\ read = txn[h].read
  OBVIOUS
<1>2. /\ \A q \in Rounds : q # r => rounds'[q] = rounds[q]
      /\ rounds'[r].result = res /\ rounds'[r].status = "RESOLVED"
  BY <1>1, TieBrokenRow DEF IInv
<1>3. i \in Items
  BY <1>1, RowIsExisting DEF IInv, ExistingRow
<1>4. Resolves(r) /\ \A q \in Rounds : Resolves(q) => q = r
  BY <1>1, <1>2 DEF Resolves
<1>5. \/ /\ ItemAfter(stage, res, read) # read
         /\ itemStatus' = [itemStatus EXCEPT ![i] = ItemAfter(stage, res, read)]
      \/ ItemAfter(stage, res, read) = read /\ UNCHANGED itemStatus
  BY <1>1 DEF CommitTieBreak
<1>6. ItemAfter(stage, res, read) # read =>
        ItemAfter(stage, res, read) = ItemAfter(stage, res, itemStatus[i])
  BY DEF ItemAfter
<1>7. CASE ItemAfter(stage, res, read) # read
  <2>1. /\ itemStatus'[i] = ItemAfter(stage, res, itemStatus[i])
        /\ \A j \in Items : j # i => itemStatus'[j] = itemStatus[j]
    BY <1>3, <1>5, <1>6, <1>7 DEF IInv, TypeOK
  <2>2. QED
    BY <1>2, <1>4, <2>1
<1>8. CASE ItemAfter(stage, res, read) = read
  <2>1. UNCHANGED itemStatus
    BY <1>5, <1>8
  <2>2. CASE read = itemStatus[i]
    BY <1>2, <1>4, <1>8, <2>1, <2>2
  <2>3. CASE read # itemStatus[i]
    <3>1. Overtaken(r)
      BY <1>1, <2>3, CommitEnds DEF Overtaken
    <3>2. QED
      BY <1>4, <2>1, <3>1
  <2>4. QED
    BY <2>2, <2>3
<1>9. QED
  BY <1>7, <1>8

\* An agenda item has what the last round that was resolved decided, whatever
\* requests overlap, save that an overtaken tie-breaking vote may write nothing.
THEOREM ResultsReachItems == Spec => ItemsFollowRounds
<1> DEFINE Step ==
      /\ \A r \in Rounds :
            LET i == rounds[r].item IN
            Resolves(r) =>
                \/ itemStatus'[i] = ItemAfter(rounds[r].stage, rounds'[r].result, itemStatus[i])
                \/ Overtaken(r) /\ itemStatus'[i] = itemStatus[i]
      /\ \A i \in Items : itemStatus'[i] # itemStatus[i] =>
            \E r \in Rounds : Resolves(r) /\ rounds[r].item = i
<1>1. ASSUME IInv, [Next]_vars PROVE Step
  <2>1. ASSUME NEW h \in Handlers, CommitProclaim(h) PROVE Step
    BY <1>1, <2>1, ProclaimingResolves
  <2>2. ASSUME NEW h \in Handlers, CommitTieBreak(h) PROVE Step
    BY <1>1, <2>2, TieBreakResolves
  <2>3. ASSUME \A h \in Handlers : ~CommitProclaim(h) /\ ~CommitTieBreak(h) PROVE Step
    BY <1>1, <2>3, OthersResolveNothing
  <2>4. QED
    BY <2>1, <2>2, <2>3
<1>2. IInv /\ [Next]_vars => [Step]_<<rounds, itemStatus>>
  BY <1>1
<1>3. QED
  BY <1>2, Inductive, PTL DEF Spec, ItemsFollowRounds

-----------------------------------------------------------------------------
(* The secret ballot.                                                      *)

LEMMA InitSecretInv == Init => SecretInv
BY FS_EmptySet DEF Init, SecretInv, NoRow, Idle

\* A round keeps its key: no step gives a round that exists another one.
LEMMA KeysStay ==
    ASSUME IInv, [Next]_vars, \A r \in Rounds : rounds[r].status # "NONE" => rounds[r].key = r,
           NEW q \in Rounds, rounds'[q].status # "NONE"
    PROVE  rounds'[q].key = q
<1> USE DEF IInv, TypeOK
<1>1. ASSUME NEW r \in Rounds, NEW d \in Drafts, CreateVotingRound(r, d)
      PROVE  rounds'[q].key = q
  BY <1>1 DEF CreateVotingRound, NewRow
<1>2. ASSUME NEW r \in Rounds, CloseVotingRound(r)
      PROVE  rounds'[q].key = q
  BY <1>2 DEF CloseVotingRound, HasStatus, Row, NoRow
<1>3. ASSUME NEW h \in Handlers, InsertClone(h)
      PROVE  rounds'[q].key = q
  <2> PICK r, n : r = txn[h].round /\ n = txn[h].clone
    OBVIOUS
  <2>1. /\ r \in Rounds /\ n \in Rounds /\ rounds[r].status # "NONE"
        /\ rounds[n].status = "NONE" /\ rounds[r] \in ExistingRow
    BY <1>3, CloneChecked DEF RoundStatus
  <2>2. rounds' = [rounds EXCEPT ![r].status = "ABORTED", ![n] = NewRow(rounds[r], n)]
    BY <1>3 DEF InsertClone
  <2>3. CASE q = n
    BY <2>1, <2>2, <2>3 DEF NewRow
  <2>4. CASE q = r /\ q # n
    BY <2>1, <2>2, <2>4 DEF ExistingRow
  <2>5. CASE q # n /\ q # r
    BY <2>2, <2>5
  <2>6. QED
    BY <2>3, <2>4, <2>5
<1>4. ASSUME NEW h \in Handlers, InsertSpecific(h)
      PROVE  rounds'[q].key = q
  BY <1>4 DEF InsertSpecific, NewRow
<1>5. ASSUME NEW h \in Handlers,
             WriteUpdate(h) \/ WriteDelete(h) \/ WriteOpen(h)
             \/ CommitProclaim(h) \/ CommitTieBreak(h)
      PROVE  rounds'[q].key = q
  <2> PICK r : r = txn[h].round
    OBVIOUS
  <2>1. r \in Rounds /\ rounds[r].status # "NONE"
    <3>1. txn[h].op \in {"updating", "deleting", "opening", "tieBreaking"} \cup Proclaiming
      BY <1>5 DEF WriteUpdate, WriteDelete, WriteOpen, CommitProclaim, CommitTieBreak,
         Proclaiming
    <3>2. QED
      <4>1. txn[h] # Idle
        BY <3>1 DEF Idle, Proclaiming
      <4>2. rounds[r].status \in RoundStatus
        BY <3>1, <4>1 DEF StillAsChecked, ReliesOn, ForShareOps, Proclaiming, RoundStatus
      <4>3. QED
        BY <4>1, <4>2, TxnByOp DEF RoundStatus
  <2>2. /\ rounds'[r].key = rounds[r].key
        /\ q # r => rounds'[q] = rounds[q]
    <3>0. rounds[r] \in ExistingRow
      BY <2>1, RowIsExisting
    <3>1. CASE WriteUpdate(h)
      BY <2>1, <3>0, <3>1 DEF WriteUpdate, ExistingRow
    <3>2. CASE WriteDelete(h)
      BY <2>1, <3>0, <3>2 DEF WriteDelete, ExistingRow
    <3>3. CASE WriteOpen(h)
      BY <2>1, <3>0, <3>3 DEF WriteOpen, ExistingRow
    <3>4. CASE CommitProclaim(h)
      BY <2>1, <3>4, ProclaimedRow
    <3>5. CASE CommitTieBreak(h)
      BY <2>1, <3>5, TieBrokenRow
    <3>6. QED
      BY <1>5, <3>1, <3>2, <3>3, <3>4, <3>5
  <2>3. QED
    BY <2>1, <2>2
<1>6. ASSUME NEW h \in Handlers, Start(h)
      PROVE  UNCHANGED rounds
  BY <1>6, StartBegins
<1>7. ASSUME NEW h \in Handlers,
             \/ LockForVote(h) \/ InsertVote(h) \/ InsertVoter(h) \/ InsertTally(h)
             \/ LockItem(h) \/ Rollback(h)
      PROVE  UNCHANGED rounds
  BY <1>7 DEF LockForVote, InsertVote, InsertVoter, InsertTally, LockItem, Rollback
<1>8. CASE Chamber \/ UNCHANGED vars
  BY <1>8 DEF Chamber, SetAttendance, RegisterLegislator, RemoveLegislator, vars
<1>9. QED
  BY <1>1, <1>2, <1>3, <1>4, <1>5, <1>6, <1>7, <1>8 DEF Next, Presidency, Continue

\* Only two steps touch the tables of the secret ballot.
LEMMA SecretTables ==
    ASSUME [Next]_vars, \A h \in Handlers : ~InsertVoter(h) /\ ~InsertTally(h)
    PROVE  UNCHANGED <<voters, signed, tallies>>
<1> USE DEF votes
<1>1. CASE Presidency
  BY <1>1 DEF Presidency, CreateVotingRound, CloseVotingRound
<1>2. CASE Chamber
  BY <1>2 DEF Chamber, SetAttendance, RegisterLegislator, RemoveLegislator
<1>3. ASSUME NEW h \in Handlers, Start(h)
      PROVE  UNCHANGED <<voters, signed, tallies>>
  BY <1>3, StartBegins
<1>4. ASSUME NEW h \in Handlers, Continue(h) \/ Rollback(h)
      PROVE  UNCHANGED <<voters, signed, tallies>>
  BY <1>4 DEF Continue, InsertSpecific, WriteUpdate, WriteDelete, WriteOpen, LockForVote,
     InsertVote, LockItem, CommitProclaim, CommitTieBreak, InsertClone, Rollback
<1>5. CASE UNCHANGED vars
  BY <1>5 DEF vars
<1>6. QED
  BY <1>1, <1>2, <1>3, <1>4, <1>5 DEF Next

\* A handler spends a token from the moment it has found its signature.
LEMMA SpendingStarts ==
    ASSUME TypeOK, [Next]_vars, NEW h \in Handlers, txn'[h].op = "spending"
    PROVE  \/ txn'[h] = txn[h]
           \/ \E r \in Rounds, t \in Tokens, v \in Values : BeginSpend(h, r, t, v)
<1>1. CASE UNCHANGED txn
  BY <1>1
<1>2. ASSUME NEW g \in Handlers, Start(g)
      PROVE  \/ txn'[h] = txn[h]
             \/ \E r \in Rounds, t \in Tokens, v \in Values : BeginSpend(h, r, t, v)
  <2>1. CASE g # h
    BY <1>2, <2>1, StartBegins DEF Begin, TypeOK
  <2>2. CASE g = h
    <3>1. PICK r \in Rounds :
            \/ \E d \in Drafts : BeginSpecific(h, r, d)
            \/ \E p \in Revisions : BeginUpdate(h, r, p)
            \/ BeginDelete(h, r)
            \/ BeginOpen(h, r)
            \/ \E l \in Legislators, v \in Values : VerifyVote(h, r, l, v)
            \/ \E l \in Legislators, t \in Tokens : BeginAuthorize(h, r, l, t)
            \/ \E t \in Tokens, v \in Values : BeginSpend(h, r, t, v)
            \/ BeginProclaim(h, r)
            \/ \E l \in Legislators, v \in Values : BeginTieBreak(h, r, l, v)
            \/ \E n \in Rounds : BeginRectify(h, r, n)
      BY <1>2, <2>2 DEF Start
    <3>2. /\ ~\E d \in Drafts : BeginSpecific(h, r, d)
          /\ ~\E p \in Revisions : BeginUpdate(h, r, p)
          /\ ~BeginDelete(h, r) /\ ~BeginOpen(h, r) /\ ~BeginProclaim(h, r)
      BY DEF BeginSpecific, BeginUpdate, BeginDelete, BeginOpen, BeginProclaim, Begin, TypeOK
    <3>3. /\ ~\E l \in Legislators, v \in Values : VerifyVote(h, r, l, v)
          /\ ~\E l \in Legislators, t \in Tokens : BeginAuthorize(h, r, l, t)
          /\ ~\E l \in Legislators, v \in Values : BeginTieBreak(h, r, l, v)
          /\ ~\E n \in Rounds : BeginRectify(h, r, n)
      BY DEF VerifyVote, BeginAuthorize, BeginTieBreak, BeginRectify, Begin, TypeOK
    <3>4. QED
      BY <3>1, <3>2, <3>3
  <2>3. QED
    BY <2>1, <2>2
<1>3. ASSUME NEW g \in Handlers, Continue(g) \/ Rollback(g)
      PROVE  txn'[h] = txn[h]
  <2>1. CASE Finish(g)
    BY <2>1 DEF Finish, TypeOK, Idle
  <2>2. CASE LockForVote(g) /\ ~Finish(g)
    <3>1. txn[g] \in [op: {"verifying", "casting"}, round: Rounds,
                      legislator: Legislators, value: VoteValue]
      BY <2>2, TxnByOp DEF LockForVote
    <3>2. QED
      BY <2>2, <3>1 DEF LockForVote, TypeOK
  <2>3. CASE LockItem(g)
    <3>1. txn[g] \in [op: {"proclaiming"}, round: Rounds, result: Results]
      BY <2>3, TxnByOp DEF LockItem
    <3>2. QED
      BY <2>3, <3>1 DEF LockItem, TypeOK
  <2>4. QED
    BY <1>3, <2>1, <2>2, <2>3, GoesOn
<1>4. CASE Presidency \/ Chamber
  BY <1>1, <1>4 DEF Presidency, Chamber, CreateVotingRound, CloseVotingRound,
     SetAttendance, RegisterLegislator, RemoveLegislator
<1>5. QED
  BY <1>1, <1>2, <1>3, <1>4 DEF Next, vars

LEMMA NextSecretInv ==
    ASSUME IInv, SecretInv, [Next]_vars
    PROVE  SecretInv'
<1>0. /\ TypeOK /\ StillAsChecked
      /\ \A r \in Rounds : rounds[r].status # "NONE" => rounds[r].key = r
  BY DEF IInv, SecretInv
<1>1. \A r \in Rounds : rounds'[r].status # "NONE" => rounds'[r].key = r
  BY <1>0, KeysStay
<1>2. ASSUME NEW h \in Handlers, txn'[h].op = "spending"
      PROVE  IsAuthorized(txn'[h].round, txn'[h].token)
  <2>1. CASE txn'[h] = txn[h]
    BY <1>2, <2>1 DEF SecretInv
  <2>2. ASSUME NEW r \in Rounds, NEW t \in Tokens, NEW v \in Values, BeginSpend(h, r, t, v)
        PROVE  IsAuthorized(txn'[h].round, txn'[h].token)
    <3>1. rounds[r].key = r /\ [key |-> r, token |-> t] \in signed
      BY <1>0, <2>2 DEF BeginSpend, HasStatus
    <3>2. IsAuthorized(r, t)
      BY <3>1 DEF SecretInv
    <3>3. txn'[h].round = r /\ txn'[h].token = t
      BY <1>0, <2>2 DEF BeginSpend, Begin, TypeOK
    <3>4. QED
      BY <3>2, <3>3
  <2>3. QED
    BY <1>0, <1>2, <2>1, <2>2, SpendingStarts
<1>3. ASSUME voters \subseteq voters', NEW r, NEW t, IsAuthorized(r, t)
      PROVE  IsAuthorized(r, t)'
  BY <1>3 DEF IsAuthorized
<1>4. CASE UNCHANGED <<voters, signed, tallies>>
  BY <1>1, <1>2, <1>3, <1>4 DEF SecretInv, IsAuthorized
<1>5. ASSUME NEW h \in Handlers, InsertVoter(h)
      PROVE  SecretInv'
  <2> PICK r, l, t : r = txn[h].round /\ l = txn[h].legislator /\ t = txn[h].token
    OBVIOUS
  <2>1. CASE UNCHANGED <<voters, signed>>
    BY <1>4, <1>5, <2>1 DEF InsertVoter
  <2>2. CASE ~UNCHANGED <<voters, signed>>
    <3>1. /\ voters' = voters \cup {[round |-> r, legislator |-> l, token |-> t]}
          /\ signed' = signed \cup {[key |-> rounds[r].key, token |-> t]}
          /\ tallies' = tallies
      BY <1>5, <2>2 DEF InsertVoter
    <3>2. rounds[r].key = r
      BY <1>0, <1>5, TxnByOp
         DEF InsertVoter, Idle, StillAsChecked, ReliesOn, ForShareOps, Proclaiming, RoundStatus
    <3>3. IsAuthorized(r, t)'
      <4> DEFINE v == [round |-> r, legislator |-> l, token |-> t]
      <4>1. v \in voters' /\ v.round = r /\ v.token = t
        BY <3>1
      <4>2. QED
        BY <4>1 DEF IsAuthorized
    <3>4. \A s \in signed' : IsAuthorized(s.key, s.token)'
      BY <1>3, <3>1, <3>2, <3>3 DEF SecretInv
    <3>5. \A b \in tallies' : IsAuthorized(b.round, b.token)'
      BY <1>3, <3>1 DEF SecretInv
    <3>6. IsFiniteSet(voters')
      BY <3>1, FS_AddElement DEF SecretInv
    <3>7. \A g \in Handlers :
              txn'[g].op = "spending" =>
                  \E v \in voters' : v.round = txn'[g].round /\ v.token = txn'[g].token
      BY <1>2, <3>1 DEF IsAuthorized
    <3>8. QED
      BY <1>1, <3>1, <3>4, <3>5, <3>6, <3>7 DEF SecretInv, IsAuthorized
  <2>3. QED
    BY <2>1, <2>2
<1>6. ASSUME NEW h \in Handlers, InsertTally(h)
      PROVE  SecretInv'
  <2> PICK r, t : r = txn[h].round /\ t = txn[h].token
    OBVIOUS
  <2>1. CASE UNCHANGED tallies
    BY <1>4, <1>6, <2>1 DEF InsertTally
  <2>2. CASE ~UNCHANGED tallies
    <3> PICK b : b = [round |-> r, token |-> t, value |-> txn[h].value]
      OBVIOUS
    <3>1. /\ tallies' = tallies \cup {b} /\ ~IsSpent(t)
          /\ UNCHANGED <<voters, signed>>
      BY <1>6, <2>2 DEF InsertTally
    <3>2. b.round = r /\ b.token = t /\ IsAuthorized(r, t)
      BY <1>6 DEF InsertTally, SecretInv
    <3>3. \A c \in tallies' : IsAuthorized(c.round, c.token)
      BY <3>1, <3>2 DEF SecretInv
    <3>4. \A c, d \in tallies' : c.token = d.token => c = d
      BY <3>1, <3>2 DEF SecretInv, IsSpent
    <3>5. QED
      BY <1>1, <1>2, <3>1, <3>3, <3>4 DEF SecretInv, IsAuthorized
  <2>3. QED
    BY <2>1, <2>2
<1>7. QED
  BY <1>4, <1>5, <1>6, SecretTables

\* The ballots of a round inject into its voters.
LEMMA SecretInvCounts ==
    ASSUME SecretInv
    PROVE  NoOvervote
<1> SUFFICES ASSUME NEW r \in Rounds
             PROVE  Cardinality(TalliesOf(r)) <= Cardinality(VotersOf(r))
  BY DEF NoOvervote
<1> DEFINE f == [b \in TalliesOf(r) |-> CHOOSE v \in VotersOf(r) : v.token = b.token]
<1>1. \A b \in TalliesOf(r) : \E v \in VotersOf(r) : v.token = b.token
  BY DEF SecretInv, IsAuthorized, TalliesOf, VotersOf
<1>2. \A b \in TalliesOf(r) : f[b] \in VotersOf(r) /\ f[b].token = b.token
  BY <1>1
<1> HIDE DEF f
<1>3. \A b, c \in TalliesOf(r) : f[b] = f[c] => b = c
  BY <1>2 DEF SecretInv, TalliesOf
<1>4. f \in Injection(TalliesOf(r), VotersOf(r))
  BY <1>2, <1>3 DEF f, Injection, IsInjective
<1>5. IsFiniteSet(VotersOf(r))
  BY FS_Subset DEF SecretInv, VotersOf
<1>6. QED
  BY <1>4, <1>5, FS_Injection

\* No secret round ever holds more ballots than authorized legislators.
THEOREM NeverOvervoted == Spec => []NoOvervote
<1>1. IInv /\ SecretInv /\ [Next]_vars => SecretInv'
  BY NextSecretInv
<1>2. SecretInv => NoOvervote
  BY SecretInvCounts
<1>3. QED
  BY <1>1, <1>2, InitSecretInv, Inductive, PTL DEF Spec
==============================================================================
