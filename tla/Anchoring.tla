----------------------------- MODULE Anchoring ------------------------------
(***************************************************************************)
(* Anchoring a proclaimed round in the LegislativeNotary contract          *)
(* (orchestrator: audit_ledger_service.py, blockchain_notary.py, and the   *)
(* two requests that anchor before they commit, proclaim_voting_round and  *)
(* cast_tie_breaker_vote).                                                 *)
(*                                                                         *)
(* Two stores are written: the contract, whose transactions stay even if   *)
(* the request that sent them is lost, and PostgreSQL, where the status,   *)
(* the tie-breaking vote and the ledger row appear together at the commit. *)
(* A request holds its round FOR UPDATE from its start to its end.         *)
(* The rounds are closed; who voted nominally and how is fixed, but not    *)
(* what the voters are called, which is part of the anchored record.       *)
(***************************************************************************)
EXTENDS Merkle

CONSTANTS
    Rounds,
    Nominal,      \* the nominal rounds; the others are secret
    Tied,         \* those whose count is a tie
    Legislators,
    Names,        \* what a legislator may be called
    InitialName,
    Renamed,      \* bound: the legislators who are renamed
    Voters,       \* who voted nominally or was authorized when each round closed
    NamedLeaf,    \* leaf hash of that vote or authorization, under the name
    Ballots,      \* leaf hashes of the secret ballots of each round
    TieVotes,     \* of the tie-breaking votes the presiding officer may sign
    Handlers,     \* bound: requests in flight at once
    MaxAttempts,  \* the three attempts of anchor_and_snapshot_round
    MaxFaults     \* bound: requests and answers lost

Hashes == Nat \ {0}

ASSUME AnchoringAssumption ==
    /\ Nominal \subseteq Rounds /\ Tied \subseteq Rounds
    /\ InitialName \in [Legislators -> Names]
    /\ Renamed \subseteq Legislators
    /\ Voters \in [Rounds -> SUBSET Legislators]
    /\ NamedLeaf \in [Rounds \X Legislators \X Names -> Hashes]
    /\ Ballots \in [Rounds -> SUBSET Hashes]
    /\ \A r \in Rounds : IsFiniteSet(Voters[r]) /\ IsFiniteSet(Ballots[r])
    /\ TieVotes \subseteq Hashes
    /\ MaxAttempts \in Nat \ {0}
    /\ MaxFaults \in Nat

VARIABLES
    status,     \* voting_rounds.status
    tie,        \* the tie-breaking vote of each round: a set of at most one
    voters,     \* nominal_votes, or non_nominal_voters: whose
    name,       \* legislators.full_name
    ledger,     \* audit_ledgers
    contract,   \* the contract's map of rounds
    recent,     \* rounds whose event is one of the last 1000 blocks
    pending,    \* transactions sent and not mined, in the order of their nonces
    mined,      \* those mined; the nonce of a transaction is its place in both
    txn,        \* the request each handler serves
    abandoned,  \* history: what requests that did not commit wanted to anchor
    faults      \* history: how many requests and answers were lost

database == <<status, tie, voters, name, ledger>>
chain == <<contract, recent, pending, mined>>
vars == <<database, chain, txn, abandoned, faults>>

-----------------------------------------------------------------------------
(* The record of a round and its roots.                                    *)

\* What extract_snapshot_data reads, as leaf hashes.
Payload == [nominal: BOOLEAN, votes: SUBSET Hashes, roll: SUBSET Hashes]

NamedLeaves(r) == {NamedLeaf[<<r, l, name[l]>>] : l \in voters[r]}

Snapshot(r, tieVote) ==
    [nominal |-> r \in Nominal,
     votes   |-> (IF r \in Nominal THEN NamedLeaves(r) ELSE Ballots[r]) \cup tieVote,
     roll    |-> IF r \in Nominal THEN {} ELSE NamedLeaves(r)]

\* A transaction carries roots; of, which is not on the chain, is what they
\* were computed from.
Tx(r, p, votesListed, rollListed) ==
    [round |-> r, nominal |-> p.nominal,
     votesRoot |-> Root(votesListed), rollRoot |-> Root(rollListed), of |-> p]

Unproclaimed == [isProclaimed |-> FALSE]
NoLedger == [published |-> FALSE]
Idle == [at |-> "idle"]

Proclaimed(r) == contract[r].isProclaimed

\* Mutation of Locked: the round is read without FOR UPDATE.
NeverLocked(r) == FALSE

Locked(r) == \E h \in Handlers : txn[h] # Idle /\ txn[h].round = r

Init ==
    /\ status = [r \in Rounds |-> "VOTING_CLOSED"]
    /\ tie = [r \in Rounds |-> {}]
    /\ voters = Voters
    /\ name = InitialName
    /\ ledger = [r \in Rounds |-> NoLedger]
    /\ contract = [r \in Rounds |-> Unproclaimed]
    /\ recent = {}
    /\ pending = <<>>
    /\ mined = <<>>
    /\ txn = [h \in Handlers |-> Idle]
    /\ abandoned = [r \in Rounds |-> {}]
    /\ faults = 0

-----------------------------------------------------------------------------
(* Requests that change a closed round, or what it is about.               *)

\* A tie is committed without anchoring.
ProclaimTied(r) ==
    /\ ~Locked(r)
    /\ status[r] = "VOTING_CLOSED"
    /\ r \in Tied
    /\ status' = [status EXCEPT ![r] = "TIED"]
    /\ UNCHANGED <<tie, voters, name, ledger, chain, txn, abandoned, faults>>

\* authorize_vote does not ask for the status; the foreign key check of its
\* INSERT waits for a request that holds the round.
AuthorizeLate(r, l) ==
    /\ ~Locked(r)
    /\ r \notin Nominal
    /\ l \notin voters[r]
    /\ voters' = [voters EXCEPT ![r] = @ \cup {l}]
    /\ UNCHANGED <<status, tie, name, ledger, chain, txn, abandoned, faults>>

\* update_legislator: a legislator who voted can be renamed at any time.
UpdateLegislator(l, n) ==
    /\ name' = [name EXCEPT ![l] = n]
    /\ UNCHANGED <<status, tie, voters, ledger, chain, txn, abandoned, faults>>

Rectify(r) ==
    /\ ~Locked(r)
    /\ status[r] \in {"VOTING_CLOSED", "TIED"}
    /\ status' = [status EXCEPT ![r] = "ABORTED"]
    /\ UNCHANGED <<tie, voters, name, ledger, chain, txn, abandoned, faults>>

\* The snapshot is taken, the roots are computed, and the attempts begin.
Begin(h, r, tieVote) ==
    /\ txn[h] = Idle
    /\ ~Locked(r)
    /\ LET p == Snapshot(r, tieVote) IN
       \E vs \in Listings(p.votes), rs \in Listings(p.roll) :
            txn' = [txn EXCEPT ![h] =
                [at |-> "build", round |-> r, tieVote |-> tieVote, attempt |-> 0,
                 nonce |-> 0, tx |-> Tx(r, p, vs, rs)]]
    /\ UNCHANGED <<database, chain, abandoned, faults>>

BeginProclaim(h, r) ==
    /\ status[r] = "VOTING_CLOSED"
    /\ r \notin Tied
    /\ Begin(h, r, {})

BeginTieBreak(h, r, v) ==
    /\ status[r] = "TIED"
    /\ tie[r] = {}
    /\ Begin(h, r, {v})

-----------------------------------------------------------------------------
(* The attempts of anchor_and_snapshot_round.                              *)

At(h, place) == txn[h].at = place
Go(h, place) == txn' = [txn EXCEPT ![h].at = place]

\* The request rolls back: only the history knows of it.
Abandon(h) ==
    /\ txn' = [txn EXCEPT ![h] = Idle]
    /\ abandoned' = [abandoned EXCEPT ![txn[h].round] = @ \cup {txn[h].tx.of}]

\* Mutation of NextAttempt: one attempt too many.
OneAttemptTooMany(h) ==
    IF txn[h].attempt + 1 <= MaxAttempts
    THEN /\ txn' = [txn EXCEPT ![h].at = "check", ![h].attempt = @ + 1]
         /\ UNCHANGED abandoned
    ELSE Abandon(h)

\* Mutation of NextAttempt: a retry does not ask the contract first.
RetryWithoutCheck(h) ==
    IF txn[h].attempt + 1 < MaxAttempts
    THEN /\ txn' = [txn EXCEPT ![h].at = "build", ![h].attempt = @ + 1]
         /\ UNCHANGED abandoned
    ELSE Abandon(h)

\* An exception in proclaim_round: the next attempt, or, after the last, none.
NextAttempt(h) ==
    IF txn[h].attempt + 1 < MaxAttempts
    THEN /\ txn' = [txn EXCEPT ![h].at = "check", ![h].attempt = @ + 1]
         /\ UNCHANGED abandoned
    ELSE Abandon(h)

Fault == faults < MaxFaults /\ faults' = faults + 1

\* Mutation of Synchronise: the event of any round will do.
SynchroniseWithAnyEvent(h) ==
    /\ At(h, "check")
    /\ Proclaimed(txn[h].round)
    /\ \E q \in recent :
         txn' = [txn EXCEPT ![h].at = "anchored", ![h].nonce = contract[q].nonce]
    /\ UNCHANGED <<database, chain, abandoned, faults>>

\* A retry first asks the contract; a round found there is taken from its
\* event, if that is recent enough.
Synchronise(h) ==
    /\ At(h, "check")
    /\ Proclaimed(txn[h].round)
    /\ txn[h].round \in recent
    /\ txn' = [txn EXCEPT ![h].at = "anchored",
                          ![h].nonce = contract[txn[h].round].nonce]
    /\ UNCHANGED <<database, chain, abandoned, faults>>

\* Not proclaimed, or the event is too old; or one of the calls failed.  What
\* the question raises is swallowed, and the round is proclaimed again.
FindNothing(h) ==
    /\ At(h, "check")
    /\ \/ ~Proclaimed(txn[h].round) /\ UNCHANGED faults
       \/ txn[h].round \notin recent /\ UNCHANGED faults
       \/ Fault
    /\ Go(h, "build")
    /\ UNCHANGED <<database, chain, abandoned>>

NextNonce == Len(mined) + Len(pending) + 1

\* proclaim_round counts the wallet's transactions, those pending included, and
\* has the gas estimated, which fails if the contract would refuse the call.
BuildTransaction(h) ==
    /\ At(h, "build")
    /\ ~Proclaimed(txn[h].round)
    /\ txn' = [txn EXCEPT ![h].at = "send", ![h].nonce = NextNonce]
    /\ UNCHANGED <<database, chain, abandoned, faults>>

EstimateReverts(h) ==
    /\ At(h, "build")
    /\ Proclaimed(txn[h].round)
    /\ NextAttempt(h)
    /\ UNCHANGED <<database, chain, faults>>

\* A call to the node fails, or the transaction never gets there.
CallFails(h) ==
    /\ At(h, "build") \/ At(h, "send")
    /\ Fault
    /\ NextAttempt(h)
    /\ UNCHANGED <<database, chain>>

\* The node takes a transaction with the next nonce ...
Send(h) ==
    /\ At(h, "send")
    /\ txn[h].nonce = NextNonce
    /\ pending' = Append(pending, txn[h].tx)
    /\ \/ Go(h, "wait") /\ UNCHANGED <<abandoned, faults>>
       \/ NextAttempt(h) /\ Fault      \* the answer is lost
    /\ UNCHANGED <<database, contract, recent, mined>>

\* ... refuses one whose nonce another request has used meanwhile ...
SendRefused(h) ==
    /\ At(h, "send")
    /\ txn[h].nonce < NextNonce
    /\ NextAttempt(h)
    /\ UNCHANGED <<database, chain, faults>>

\* ... or, if it pays more, takes it in the place of the other.
SendReplaces(h) ==
    LET place == txn[h].nonce - Len(mined) IN
    /\ At(h, "send")
    /\ place \in 1 .. Len(pending)
    /\ pending' = [pending EXCEPT ![place] = txn[h].tx]
    /\ Go(h, "wait")
    /\ UNCHANGED <<database, contract, recent, mined, abandoned, faults>>

IsMined(h) == txn[h].nonce <= Len(mined) /\ mined[txn[h].nonce].tx = txn[h].tx
IsPending(h) ==
    LET place == txn[h].nonce - Len(mined) IN
    place \in 1 .. Len(pending) /\ pending[place] = txn[h].tx

\* Mutation of Confirmed: the status of the receipt is not looked at.
ConfirmedWhateverStatus(h) ==
    /\ At(h, "wait")
    /\ IsMined(h)
    /\ Go(h, "anchored")
    /\ UNCHANGED <<database, chain, abandoned, faults>>

\* wait_for_transaction_receipt, with a status of 1 or 0 ...
Confirmed(h) ==
    /\ At(h, "wait")
    /\ IsMined(h)
    /\ mined[txn[h].nonce].ok
    /\ Go(h, "anchored")
    /\ UNCHANGED <<database, chain, abandoned, faults>>

Reverted(h) ==
    /\ At(h, "wait")
    /\ IsMined(h)
    /\ ~mined[txn[h].nonce].ok
    /\ NextAttempt(h)
    /\ UNCHANGED <<database, chain, faults>>

\* ... or none in 120 s, for want of a block or because it was replaced.
TimedOut(h) ==
    /\ At(h, "wait")
    /\ ~IsMined(h)
    /\ IF IsPending(h) THEN Fault ELSE UNCHANGED faults
    /\ NextAttempt(h)
    /\ UNCHANGED <<database, chain>>

\* Mutation of Commit: the ledger row is built from the round as it was before
\* the tie-breaking vote.
CommitWithoutTie(h) ==
    LET r == txn[h].round IN
    /\ At(h, "anchored")
    /\ ledger' = [ledger EXCEPT ![r] = [published |-> TRUE, payload |-> Snapshot(r, tie[r]),
                                        nonce |-> txn[h].nonce]]
    /\ tie' = [tie EXCEPT ![r] = txn[h].tieVote]
    /\ status' = [status EXCEPT ![r] = "RESOLVED"]
    /\ txn' = [txn EXCEPT ![h] = Idle]
    /\ UNCHANGED <<voters, name, chain, abandoned, faults>>

\* The ledger row has the payload of this request and the transaction of the
\* receipt, be it this request's or one recovered from the event.
Commit(h) ==
    LET r == txn[h].round IN
    /\ At(h, "anchored")
    /\ ledger' = [ledger EXCEPT ![r] = [published |-> TRUE, payload |-> txn[h].tx.of,
                                        nonce |-> txn[h].nonce]]
    /\ tie' = [tie EXCEPT ![r] = txn[h].tieVote]
    /\ status' = [status EXCEPT ![r] = "RESOLVED"]
    /\ txn' = [txn EXCEPT ![h] = Idle]
    /\ UNCHANGED <<voters, name, chain, abandoned, faults>>

\* The process stops, or the connection to the database is lost.
Crash(h) ==
    /\ txn[h] # Idle
    /\ Fault
    /\ Abandon(h)
    /\ UNCHANGED <<database, chain>>

-----------------------------------------------------------------------------
(* The chain.                                                              *)

\* proclaimRound: the second proclamation of a round reverts.
Mine ==
    LET tx == Head(pending)
        ok == ~Proclaimed(tx.round)
    IN
    /\ pending # <<>>
    /\ pending' = Tail(pending)
    /\ mined' = Append(mined, [tx |-> tx, ok |-> ok])
    /\ contract' = IF ok THEN [contract EXCEPT ![tx.round] =
                                [isProclaimed |-> TRUE, nonce |-> Len(mined'), tx |-> tx]]
                         ELSE contract
    /\ recent' = IF ok THEN recent \cup {tx.round} ELSE recent
    /\ UNCHANGED <<database, txn, abandoned, faults>>

\* A thousand blocks pass.
Age(r) ==
    /\ r \in recent
    /\ recent' = recent \ {r}
    /\ UNCHANGED <<database, contract, pending, mined, txn, abandoned, faults>>

-----------------------------------------------------------------------------
\* A request goes on by itself: it never waits for more than the chain.
Continue(h) ==
    \/ Synchronise(h) \/ FindNothing(h)
    \/ BuildTransaction(h) \/ EstimateReverts(h) \/ CallFails(h)
    \/ Send(h) \/ SendRefused(h) \/ SendReplaces(h)
    \/ Confirmed(h) \/ Reverted(h) \/ TimedOut(h)
    \/ Commit(h)

Next ==
    \/ \E r \in Rounds : ProclaimTied(r) \/ Rectify(r) \/ Age(r)
    \/ \E r \in Rounds, l \in Legislators : AuthorizeLate(r, l)
    \/ \E l \in Renamed, n \in Names : UpdateLegislator(l, n)
    \/ \E h \in Handlers, r \in Rounds :
        \/ BeginProclaim(h, r)
        \/ \E v \in TieVotes : BeginTieBreak(h, r, v)
    \/ \E h \in Handlers : Continue(h) \/ Crash(h)
    \/ Mine

Spec == Init /\ [][Next]_vars

\* The event loop runs every request, and the chain produces blocks.
FairSpec == Spec /\ WF_vars(Mine) /\ \A h \in Handlers : WF_vars(Continue(h))

-----------------------------------------------------------------------------
(* Properties.                                                             *)

RoundStatus == {"VOTING_CLOSED", "TIED", "RESOLVED", "ABORTED"}
Places == {"check", "build", "send", "wait", "anchored"}

IsTx(tx) == tx.round \in Rounds /\ tx.of \in Payload

IsRequest(t) ==
    /\ t = [at |-> t.at, round |-> t.round, tieVote |-> t.tieVote, attempt |-> t.attempt,
            nonce |-> t.nonce, tx |-> t.tx]
    /\ t.at \in Places
    /\ t.tieVote \subseteq TieVotes
    /\ t.attempt \in 0 .. MaxAttempts - 1
    /\ t.nonce \in Nat
    /\ IsTx(t.tx) /\ t.tx.round = t.round

\* Type invariant: the shape of the two stores, the requests and the histories.
TypeOK ==
    /\ status \in [Rounds -> RoundStatus]
    /\ tie \in [Rounds -> SUBSET TieVotes]
    /\ voters \in [Rounds -> SUBSET Legislators]
    /\ name \in [Legislators -> Names]
    /\ ledger \in [Rounds ->
            {NoLedger} \cup [published: {TRUE}, payload: Payload, nonce: Nat]]
    /\ DOMAIN contract = Rounds
    /\ \A r \in Rounds :
        contract[r] # Unproclaimed =>
            /\ contract[r] = [isProclaimed |-> TRUE, nonce |-> contract[r].nonce,
                              tx |-> contract[r].tx]
            /\ contract[r].nonce \in 1 .. Len(mined)
            /\ IsTx(contract[r].tx)
    /\ recent \subseteq Rounds
    /\ \A i \in 1 .. Len(pending) : IsTx(pending[i])
    /\ \A i \in 1 .. Len(mined) : IsTx(mined[i].tx) /\ mined[i].ok \in BOOLEAN
    /\ DOMAIN txn = Handlers
    /\ \A h \in Handlers : txn[h] # Idle => IsRequest(txn[h])
    /\ abandoned \in [Rounds -> SUBSET Payload]
    /\ faults \in 0 .. MaxFaults

\* A final result keeps its tie-breaking vote and its ledger row, although the row
\* is written by an upsert that would overwrite it: no second request for the
\* round may get as far as its commit, however many began (anchor_and_snapshot_round).
FinalForEver ==
    [][\A r \in Rounds :
        status[r] = "RESOLVED" => UNCHANGED <<status[r], tie[r], ledger[r]>>]_vars

\* A final result names the transaction that wrote the contract: not one that
\* was reverted or replaced, nor one of another round.
ReceiptIsOfTheAnchor ==
    \A r \in Rounds :
        status[r] = "RESOLVED" =>
            /\ Proclaimed(r)
            /\ ledger[r].published
            /\ ledger[r].nonce = contract[r].nonce

\* What is on the chain for a round is what its ledger row has, or what a request
\* in progress is anchoring, or what an abandoned request wanted to anchor.
EveryAnchorHasItsRequest ==
    \A r \in Rounds :
        Proclaimed(r) =>
            \/ ledger[r].published /\ ledger[r].payload = contract[r].tx.of
            \/ \E h \in Handlers :
                txn[h] # Idle /\ txn[h].round = r /\ txn[h].tx.of = contract[r].tx.of
            \/ contract[r].tx.of \in abandoned[r]

\* What GET /public/audit/{id} returns, and the portal passes on: the lists lie
\* under tally_payload.
PublicAudit(r) ==
    [round |-> r, nominal |-> ledger[r].payload.nominal, tally_payload |-> ledger[r].payload]

\* verifyE2E: it lists the leaves in an order of its own and compares the roots.
\* It looks for the lists in the object itself, and fails without them.
VerifyE2E(snapshot) ==
    LET anchored == contract[snapshot.round].tx IN
    /\ Proclaimed(snapshot.round)
    /\ snapshot.nominal = anchored.nominal
    /\ {"votes", "roll"} \subseteq DOMAIN snapshot
    /\ \A vs \in Listings(snapshot.votes) : Root(vs) = anchored.votesRoot
    /\ \/ snapshot.nominal
       \/ \A rs \in Listings(snapshot.roll) : Root(rs) = anchored.rollRoot

\* The payload of the ledger row, which has the round's number and kind as well,
\* rebuilds what is anchored.
Rebuilds(r) ==
    LET p == ledger[r].payload IN
    VerifyE2E([round |-> r, nominal |-> p.nominal, votes |-> p.votes, roll |-> p.roll])

\* The record of a final result rebuilds the anchored roots, also when they were
\* anchored by a request that failed, unless that request saw another record of
\* the round: a smaller roll, another tie-breaking vote or another name.  It is
\* said of the record: verifyE2E as the portal feeds it verifies nothing.
RecoveredMatches ==
    \A r \in Rounds :
        status[r] = "RESOLVED" /\ abandoned[r] \subseteq {ledger[r].payload} => Rebuilds(r)

\* No ledger row rebuilds the anchored roots but one with the votes and the roll
\* that were anchored, name for name.
VerifiedIsAnchored ==
    \A r \in Rounds :
        ledger[r].published /\ Rebuilds(r) => ledger[r].payload = contract[r].tx.of

\* A request for a round that an earlier one has left on the chain finds the
\* anchor and commits, if nothing fails any more and the event stays recent.
Recovering(r) ==
    /\ Proclaimed(r)
    /\ faults = MaxFaults
    /\ \E h \in Handlers : At(h, "build") /\ txn[h].round = r /\ txn[h].attempt = 0

RetryRecovers ==
    \A r \in Rounds : Recovering(r) ~> (status[r] = "RESOLVED" \/ r \notin recent)
=============================================================================
