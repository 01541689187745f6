-------------------------- MODULE Anchoring_proofs ---------------------------
(***************************************************************************)
(* Theorems about Anchoring, for any number of rounds, requests, attempts  *)
(* and faults: a final result stays, it names the transaction that wrote   *)
(* the contract, and nothing is on the chain that no request wanted there. *)
(* With what Merkle_proofs says of a root: the record of a final result    *)
(* rebuilds the anchored roots where it should, and only there.            *)
(***************************************************************************)
EXTENDS Anchoring, Merkle_proofs, SequenceTheorems, TLAPS

Roots == {Root(s) : s \in UNION {Listings(S) : S \in SUBSET Hashes}}

TxSet == [round: Rounds, nominal: BOOLEAN, votesRoot: Roots, rollRoot: Roots, of: Payload]

Request == [at: Places, round: Rounds, tieVote: SUBSET TieVotes,
            attempt: 0 .. MaxAttempts - 1, nonce: Nat, tx: TxSet]

LedgerRow == [published: {TRUE}, payload: Payload, nonce: Nat]
Entry == [isProclaimed: {TRUE}, nonce: Nat, tx: TxSet]
Mined == [tx: TxSet, ok: BOOLEAN]

Busy(h) == txn[h] # Idle

PType ==
    /\ status \in [Rounds -> RoundStatus]
    /\ tie \in [Rounds -> SUBSET TieVotes]
    /\ voters \in [Rounds -> SUBSET Legislators]
    /\ name \in [Legislators -> Names]
    /\ ledger \in [Rounds -> {NoLedger} \cup LedgerRow]
    /\ contract \in [Rounds -> {Unproclaimed} \cup Entry]
    /\ recent \subseteq Rounds
    /\ pending \in Seq(TxSet)
    /\ mined \in Seq(Mined)
    /\ txn \in [Handlers -> {Idle} \cup Request]
    /\ abandoned \in [Rounds -> SUBSET Payload]
    /\ faults \in 0 .. MaxFaults

\* The row lock of the round.
Exclusive ==
    \A g, h \in Handlers :
        Busy(g) /\ Busy(h) /\ txn[g].round = txn[h].round => g = h

\* A request holds a round that is not final, and its own transaction.
HoldsClosed ==
    \A h \in Handlers :
        Busy(h) => /\ txn[h].tx.round = txn[h].round
                   /\ status[txn[h].round] \in {"VOTING_CLOSED", "TIED"}

PublishedIsFinal == \A r \in Rounds : ledger[r].published => status[r] = "RESOLVED"

\* The contract's entries are the transactions that were mined with success.
EntryWasMined ==
    \A r \in Rounds :
        Proclaimed(r) =>
            /\ contract[r].nonce \in 1 .. Len(mined)
            /\ contract[r].tx.round = r

MinedHasEntry ==
    \A i \in 1 .. Len(mined) :
        mined[i].ok => /\ Proclaimed(mined[i].tx.round)
                       /\ contract[mined[i].tx.round].nonce = i

\* A request that goes on to its commit has the nonce of the entry.
AnchoredHasEntry ==
    \A h \in Handlers :
        At(h, "anchored") => /\ Proclaimed(txn[h].round)
                             /\ txn[h].nonce = contract[txn[h].round].nonce

\* A request that sends or waits has taken a nonce.
NonceTaken == \A h \in Handlers : txn[h].at \in {"send", "wait"} => txn[h].nonce # 0

\* Who wanted a transaction on the chain.
Known(tx) ==
    \/ ledger[tx.round].published /\ ledger[tx.round].payload = tx.of
    \/ \E h \in Handlers :
        Busy(h) /\ txn[h].round = tx.round /\ txn[h].tx.of = tx.of
    \/ tx.of \in abandoned[tx.round]

AllKnown ==
    /\ \A i \in 1 .. Len(pending) : Known(pending[i])
    /\ \A r \in Rounds : Proclaimed(r) => Known(contract[r].tx)

IInv ==
    /\ PType
    /\ Exclusive
    /\ HoldsClosed
    /\ PublishedIsFinal
    /\ EntryWasMined
    /\ MinedHasEntry
    /\ AnchoredHasEntry
    /\ NonceTaken
    /\ ReceiptIsOfTheAnchor
    /\ AllKnown

-----------------------------------------------------------------------------
(* The initial states.                                                     *)

LEMMA Initially == Init => IInv
<1> SUFFICES ASSUME Init PROVE IInv
    OBVIOUS
<1> USE AnchoringAssumption DEF Init
<1>1. PType
    BY DEF PType, RoundStatus
<1>2. \A r \in Rounds : ~Proclaimed(r) /\ ~ledger[r].published /\ status[r] # "RESOLVED"
    BY DEF Proclaimed, Unproclaimed, NoLedger
<1>3. \A h \in Handlers : ~Busy(h) /\ ~At(h, "anchored") /\ txn[h].at \notin {"send", "wait"}
    BY DEF Busy, At, Idle
<1>4. Len(pending) = 0 /\ Len(mined) = 0
    OBVIOUS
<1> QED
    BY <1>1, <1>2, <1>3, <1>4 DEF IInv, Exclusive, HoldsClosed, PublishedIsFinal,
        EntryWasMined, MinedHasEntry, AnchoredHasEntry, NonceTaken, ReceiptIsOfTheAnchor, AllKnown

\* The invariant and the type correctness it contains.
LEMMA InvariantTypes == ASSUME IInv PROVE TypeOK
<1> USE DEF IInv, PType
<1>1. \A h \in Handlers : txn[h] # Idle => IsRequest(txn[h])
    BY DEF HoldsClosed, Busy, IsRequest, IsTx, Request, TxSet
<1>2. \A r \in Rounds : contract[r] # Unproclaimed =>
            /\ contract[r] = [isProclaimed |-> TRUE, nonce |-> contract[r].nonce,
                              tx |-> contract[r].tx]
            /\ contract[r].nonce \in 1 .. Len(mined)
            /\ IsTx(contract[r].tx)
    BY DEF EntryWasMined, Proclaimed, Entry, IsTx, TxSet
<1>3. \A i \in 1 .. Len(pending) : IsTx(pending[i])
    <2> SUFFICES ASSUME NEW i \in 1 .. Len(pending) PROVE IsTx(pending[i])
        OBVIOUS
    <2>1. pending[i] \in TxSet
        BY ElementOfSeq
    <2> QED
        BY <2>1 DEF IsTx, TxSet
<1>4. \A i \in 1 .. Len(mined) : IsTx(mined[i].tx) /\ mined[i].ok \in BOOLEAN
    <2> SUFFICES ASSUME NEW i \in 1 .. Len(mined)
                 PROVE  IsTx(mined[i].tx) /\ mined[i].ok \in BOOLEAN
        OBVIOUS
    <2>1. mined[i] \in Mined
        BY ElementOfSeq
    <2> QED
        BY <2>1 DEF Mined, IsTx, TxSet
<1> QED
    BY <1>1, <1>2, <1>3, <1>4 DEF TypeOK, LedgerRow

-----------------------------------------------------------------------------
(* The steps of a request before its commit.                               *)

\* It goes on with the same round and transaction ...
Progress(h) ==
    /\ Busy(h)
    /\ \E t \in Request :
        /\ txn' = [txn EXCEPT ![h] = t]
        /\ t.round = txn[h].round
        /\ t.tx = txn[h].tx
        /\ t.at = "anchored" => /\ Proclaimed(t.round)
                                /\ t.nonce = contract[t.round].nonce
        /\ t.at \in {"send", "wait"} => t.nonce # 0
    /\ UNCHANGED abandoned

\* ... or is given up.
Drop(h) == Busy(h) /\ Abandon(h)

\* What was pending stays pending, is replaced by or joined by the request's own.
OwnPending(h) ==
    /\ pending' \in Seq(TxSet)
    /\ \A i \in 1 .. Len(pending') :
        \/ pending'[i] = txn[h].tx
        \/ i \in 1 .. Len(pending) /\ pending'[i] = pending[i]

RequestStep(h) ==
    /\ Progress(h) \/ Drop(h)
    /\ OwnPending(h)
    /\ faults' \in 0 .. MaxFaults
    /\ UNCHANGED <<database, contract, recent, mined>>

LEMMA BusyRequest ==
    ASSUME IInv, NEW h \in Handlers, Busy(h)
    PROVE  /\ txn[h] \in Request
           /\ txn[h].round \in Rounds
           /\ txn[h].tx \in TxSet
           /\ txn[h].tx.of \in Payload
           /\ txn[h].tx.round = txn[h].round
BY DEF IInv, PType, HoldsClosed, Busy, Request, TxSet

LEMMA ProclaimedEntry ==
    ASSUME IInv, NEW r \in Rounds, Proclaimed(r)
    PROVE  contract[r] \in Entry
BY DEF IInv, PType, Proclaimed, Unproclaimed

\* The next attempt or none.
LEMMA NextAttemptGoesOn ==
    ASSUME IInv, NEW h \in Handlers, Busy(h), NextAttempt(h)
    PROVE  Progress(h) \/ Drop(h)
<1>1. CASE txn[h].attempt + 1 < MaxAttempts
    <2> DEFINE t == [txn[h] EXCEPT !.at = "check", !.attempt = @ + 1]
    <2>1. txn' = [txn EXCEPT ![h] = t] /\ UNCHANGED abandoned
        BY <1>1, BusyRequest DEF NextAttempt, IInv, PType, Request
    <2>2. txn[h].attempt + 1 \in 0 .. MaxAttempts - 1
        BY <1>1, BusyRequest, AnchoringAssumption DEF Request
    <2>3. t \in Request /\ t.round = txn[h].round /\ t.tx = txn[h].tx /\ t.at = "check"
        BY <2>2, BusyRequest DEF Request, Places
    <2> QED
        BY <2>1, <2>3 DEF Progress
<1>2. CASE ~(txn[h].attempt + 1 < MaxAttempts)
    BY <1>2 DEF NextAttempt, Drop
<1> QED
    BY <1>1, <1>2

\* A request that only changes its place, or also its nonce.
LEMMA PlaceGoesOn ==
    ASSUME IInv, NEW h \in Handlers, Busy(h), NEW place \in Places, NEW n \in Nat,
           \/ txn' = [txn EXCEPT ![h].at = place] /\ n = txn[h].nonce
           \/ txn' = [txn EXCEPT ![h].at = place, ![h].nonce = n],
           place = "anchored" => /\ Proclaimed(txn[h].round)
                                 /\ n = contract[txn[h].round].nonce,
           place \in {"send", "wait"} => n # 0,
           UNCHANGED abandoned
    PROVE  Progress(h)
<1> DEFINE t == [txn[h] EXCEPT !.at = place, !.nonce = n]
<1>1. txn[h] \in Request
    BY BusyRequest
<1>2. txn' = [txn EXCEPT ![h] = t]
    BY <1>1 DEF IInv, PType, Request
<1>3. t \in Request /\ t.round = txn[h].round /\ t.tx = txn[h].tx
        /\ t.at = place /\ t.nonce = n
    BY <1>1 DEF Request
<1> QED
    BY <1>2, <1>3 DEF Progress

LEMMA SamePending == ASSUME IInv, NEW h, UNCHANGED pending PROVE OwnPending(h)
BY DEF IInv, PType, OwnPending

LEMMA BoundedFaults == ASSUME IInv, Fault \/ UNCHANGED faults PROVE faults' \in 0 .. MaxFaults
BY AnchoringAssumption DEF IInv, PType, Fault

LEMMA NonceIsNat == ASSUME IInv PROVE NextNonce \in Nat \ {0}
BY LenProperties DEF IInv, PType, NextNonce

\* Sending: the transaction goes to the end of the pool, or to the place of another.
LEMMA SendSteps ==
    ASSUME IInv, NEW h \in Handlers, Send(h) \/ SendReplaces(h)
    PROVE  RequestStep(h)
<1>1. Busy(h)
    BY DEF Send, SendReplaces, At, Busy, Idle
<1>2. pending \in Seq(TxSet) /\ txn[h].tx \in TxSet /\ txn[h].nonce \in Nat
    BY <1>1, BusyRequest DEF IInv, PType, Request
<1>3. ASSUME Go(h, "wait"), UNCHANGED abandoned PROVE Progress(h)
    <2>1. txn[h].nonce # 0
        BY DEF Send, SendReplaces, At, IInv, NonceTaken
    <2> QED
        BY <1>1, <1>2, <1>3, <2>1, PlaceGoesOn DEF Go, Places
<1>4. CASE Send(h)
    <2>1. OwnPending(h)
        BY <1>2, <1>4, AppendProperties DEF Send, OwnPending
    <2>2. Progress(h) \/ Drop(h)
        BY <1>1, <1>3, <1>4, NextAttemptGoesOn DEF Send
    <2> QED
        BY <1>4, <2>1, <2>2, BoundedFaults DEF Send, RequestStep
<1>5. CASE SendReplaces(h)
    <2>1. PICK place \in 1 .. Len(pending) :
            pending' = [pending EXCEPT ![place] = txn[h].tx]
        BY <1>5 DEF SendReplaces
    <2>2. OwnPending(h)
        BY <1>2, <2>1, ExceptSeq DEF OwnPending
    <2> QED
        BY <1>3, <1>5, <2>2, BoundedFaults DEF SendReplaces, RequestStep
<1> QED
    BY <1>4, <1>5

\* A receipt of this request's transaction is the receipt of the entry.
LEMMA ConfirmedStep ==
    ASSUME IInv, NEW h \in Handlers, Confirmed(h)
    PROVE  RequestStep(h)
<1>1. Busy(h)
    BY DEF Confirmed, At, Busy, Idle
<1>2. txn[h] \in Request /\ txn[h].nonce \in Nat
    BY <1>1, BusyRequest DEF Request
<1>3. Proclaimed(txn[h].round) /\ txn[h].nonce = contract[txn[h].round].nonce
    <2>1. txn[h].nonce \in 1 .. Len(mined)
        <3>1. txn[h].nonce # 0
            BY DEF Confirmed, At, IInv, NonceTaken
        <3> QED
            BY <1>2, <3>1 DEF Confirmed, IsMined, IInv, PType
    <2> QED
        BY <1>1, <2>1, BusyRequest DEF Confirmed, IsMined, IInv, MinedHasEntry
<1>4. Progress(h)
    BY <1>1, <1>2, <1>3, PlaceGoesOn DEF Confirmed, Go, Places
<1> QED
    BY <1>4, SamePending, BoundedFaults DEF Confirmed, RequestStep, chain

LEMMA RequestGoesOn ==
    ASSUME IInv, NEW h \in Handlers, Continue(h), ~Commit(h)
    PROVE  RequestStep(h)
<1>1. CASE Synchronise(h)
    <2>1. Busy(h)
        BY <1>1 DEF Synchronise, At, Busy, Idle
    <2>2. contract[txn[h].round].nonce \in Nat
        BY <1>1, <2>1, BusyRequest, ProclaimedEntry DEF Synchronise, Entry
    <2>3. Progress(h)
        BY <1>1, <2>1, <2>2, PlaceGoesOn DEF Synchronise, Places
    <2> QED
        BY <1>1, <2>3, SamePending, BoundedFaults DEF Synchronise, RequestStep, chain
<1>2. CASE FindNothing(h)
    <2>1. Busy(h)
        BY <1>2 DEF FindNothing, At, Busy, Idle
    <2>2. txn[h].nonce \in Nat
        BY <2>1, BusyRequest DEF Request
    <2>3. Progress(h)
        BY <1>2, <2>1, <2>2, PlaceGoesOn DEF FindNothing, Go, Places
    <2> QED
        BY <1>2, <2>3, SamePending, BoundedFaults DEF FindNothing, RequestStep, chain
<1>3. CASE BuildTransaction(h)
    <2>1. Busy(h)
        BY <1>3 DEF BuildTransaction, At, Busy, Idle
    <2>2. Progress(h)
        BY <1>3, <2>1, NonceIsNat, PlaceGoesOn DEF BuildTransaction, Places
    <2> QED
        BY <1>3, <2>2, SamePending, BoundedFaults DEF BuildTransaction, RequestStep, chain
<1>4. CASE EstimateReverts(h) \/ CallFails(h) \/ SendRefused(h) \/ Reverted(h) \/ TimedOut(h)
    <2>1. Busy(h)
        BY <1>4 DEF EstimateReverts, CallFails, SendRefused, Reverted, TimedOut, At, Busy, Idle
    <2>2. NextAttempt(h) /\ (Fault \/ UNCHANGED faults) /\ UNCHANGED <<database, chain>>
        BY <1>4 DEF EstimateReverts, CallFails, SendRefused, Reverted, TimedOut
    <2> QED
        BY <2>1, <2>2, NextAttemptGoesOn, SamePending, BoundedFaults DEF RequestStep, chain
<1>5. CASE Send(h) \/ SendReplaces(h)
    BY <1>5, SendSteps
<1>6. CASE Confirmed(h)
    BY <1>6, ConfirmedStep
<1> QED
    BY <1>1, <1>2, <1>3, <1>4, <1>5, <1>6 DEF Continue

LEMMA CrashIsRequestStep ==
    ASSUME IInv, NEW h \in Handlers, Crash(h)
    PROVE  RequestStep(h)
BY SamePending, BoundedFaults DEF Crash, Drop, Busy, RequestStep, chain

\* What is known stays known, whether the request goes on or is given up.
LEMMA RequestStepKeepsKnown ==
    ASSUME IInv, NEW h \in Handlers, RequestStep(h), NEW tx \in TxSet, Known(tx)
    PROVE  Known(tx)'
<1>0. tx.round \in Rounds /\ tx.of \in Payload /\ Busy(h)
    BY DEF TxSet, RequestStep, Progress, Drop
<1>1. UNCHANGED ledger
    BY DEF RequestStep, database
<1>2. tx.of \in abandoned[tx.round] => tx.of \in abandoned'[tx.round]
    <2>1. CASE Progress(h)
        BY <2>1 DEF Progress
    <2>2. CASE Drop(h)
        BY <1>0, <2>2, BusyRequest DEF Drop, Abandon, IInv, PType
    <2> QED
        BY <2>1, <2>2 DEF RequestStep
<1>3. ASSUME NEW g \in Handlers, Busy(g), txn[g].round = tx.round, txn[g].tx.of = tx.of
      PROVE  Known(tx)'
    <2>1. CASE g # h
        <3>1. txn'[g] = txn[g]
            BY <2>1 DEF RequestStep, Progress, Drop, Abandon, IInv, PType
        <3> QED
            BY <1>3, <3>1 DEF Known, Busy
    <2>2. CASE g = h /\ Progress(h)
        <3>1. txn'[h].round = txn[h].round /\ txn'[h].tx = txn[h].tx /\ txn'[h] # Idle
            BY <2>2 DEF Progress, IInv, PType, Request, Places, Idle
        <3> QED
            BY <1>3, <2>2, <3>1 DEF Known, Busy
    <2>3. CASE g = h /\ Drop(h)
        <3>1. tx.of \in abandoned'[tx.round]
            BY <1>0, <1>3, <2>3 DEF Drop, Abandon, IInv, PType
        <3> QED
            BY <3>1 DEF Known
    <2> QED
        BY <2>1, <2>2, <2>3 DEF RequestStep
<1> QED
    BY <1>1, <1>2, <1>3 DEF Known

\* Everything on its way to the chain, or there, was known and is still.
LEMMA KnownIsKept ==
    ASSUME \A tx \in TxSet : Known(tx) => Known(tx)',
           \A i \in 1 .. Len(pending') : \E tx \in TxSet : tx = pending'[i] /\ Known(tx),
           \A r \in Rounds : Proclaimed(r)' =>
                \E tx \in TxSet : tx = contract'[r].tx /\ Known(tx)
    PROVE  AllKnown'
<1>1. ASSUME NEW i \in 1 .. Len(pending') PROVE Known(pending[i])'
    <2>1. PICK tx \in TxSet : tx = pending'[i] /\ Known(tx)'
        OBVIOUS
    <2> QED
        BY <2>1 DEF Known
<1>2. ASSUME NEW r \in Rounds, Proclaimed(r)' PROVE Known(contract[r].tx)'
    <2>1. PICK tx \in TxSet : tx = contract'[r].tx /\ Known(tx)'
        BY <1>2
    <2> QED
        BY <2>1 DEF Known
<1> QED
    BY <1>1, <1>2 DEF AllKnown

LEMMA RequestStepKeepsInvariant ==
    ASSUME IInv, NEW h \in Handlers, RequestStep(h)
    PROVE  IInv'
<1>1. /\ UNCHANGED <<status, tie, voters, name, ledger, contract, recent, mined>>
      /\ Busy(h)
    BY DEF RequestStep, database, Progress, Drop
<1>2. \A g \in Handlers \ {h} : txn'[g] = txn[g]
    BY DEF RequestStep, Progress, Drop, Abandon, IInv, PType
<1>3. \/ /\ txn'[h] \in Request /\ Busy(h)'
         /\ txn'[h].round = txn[h].round /\ txn'[h].tx = txn[h].tx
         /\ txn'[h].at = "anchored" =>
                /\ Proclaimed(txn'[h].round)
                /\ txn'[h].nonce = contract[txn'[h].round].nonce
         /\ txn'[h].at \in {"send", "wait"} => txn'[h].nonce # 0
      \/ txn'[h] = Idle
    BY DEF RequestStep, Progress, Drop, Abandon, IInv, PType, Busy, Request, Places, Idle
<1>4. PType'
    <2>1. txn' \in [Handlers -> {Idle} \cup Request]
        BY DEF RequestStep, Progress, Drop, Abandon, IInv, PType
    <2>2. abandoned' \in [Rounds -> SUBSET Payload]
        <3>1. CASE Progress(h)
            BY <3>1 DEF Progress, IInv, PType
        <3>2. CASE Drop(h)
            BY <1>1, <3>2, BusyRequest DEF Drop, Abandon, IInv, PType
        <3> QED
            BY <3>1, <3>2 DEF RequestStep
    <2> QED
        BY <1>1, <2>1, <2>2 DEF RequestStep, OwnPending, IInv, PType
<1>5. Exclusive'
    BY <1>1, <1>2, <1>3 DEF IInv, Exclusive, Busy
<1>6. HoldsClosed'
    BY <1>1, <1>2, <1>3 DEF IInv, HoldsClosed, Busy
<1>7. PublishedIsFinal' /\ EntryWasMined' /\ MinedHasEntry' /\ ReceiptIsOfTheAnchor'
    BY <1>1 DEF IInv, PublishedIsFinal, EntryWasMined, MinedHasEntry,
        ReceiptIsOfTheAnchor, Proclaimed
<1>8. AnchoredHasEntry'
    BY <1>1, <1>2, <1>3 DEF IInv, AnchoredHasEntry, At, Proclaimed, Idle
<1>9. NonceTaken'
    BY <1>2, <1>3 DEF IInv, NonceTaken, Idle
<1>10. AllKnown'
    <2>1. \A tx \in TxSet : Known(tx) => Known(tx)'
        BY RequestStepKeepsKnown
    <2>2. Known(txn[h].tx) /\ txn[h].tx \in TxSet
        BY <1>1, BusyRequest DEF Known
    <2>3. \A i \in 1 .. Len(pending) : Known(pending[i]) /\ pending[i] \in TxSet
        BY ElementOfSeq DEF IInv, PType, AllKnown
    <2>4. \A i \in 1 .. Len(pending') : \E tx \in TxSet : tx = pending'[i] /\ Known(tx)
        BY <2>2, <2>3 DEF RequestStep, OwnPending
    <2>5. \A r \in Rounds : Proclaimed(r) => \E tx \in TxSet : tx = contract[r].tx /\ Known(tx)
        BY ProclaimedEntry DEF IInv, AllKnown, Entry
    <2> QED
        BY <1>1, <2>1, <2>4, <2>5, KnownIsKept DEF Proclaimed
<1> QED
    BY <1>4, <1>5, <1>6, <1>7, <1>8, <1>9, <1>10 DEF IInv

-----------------------------------------------------------------------------
(* The steps that change a closed round, and the beginning of a request.   *)

\* The steps that no request to anchor takes.
Elsewhere ==
    \/ \E r \in Rounds : ProclaimTied(r) \/ Rectify(r) \/ Age(r)
    \/ \E r \in Rounds, l \in Legislators : AuthorizeLate(r, l)
    \/ \E l \in Legislators, n \in Names : UpdateLegislator(l, n)

LEMMA RenamedAreLegislators == Renamed \subseteq Legislators
BY AnchoringAssumption

LEMMA ElsewhereKeepsInvariant ==
    ASSUME IInv, Elsewhere
    PROVE  IInv'
<1> USE DEF Elsewhere, ProclaimTied, Rectify, Age, AuthorizeLate, UpdateLegislator
<1>1. UNCHANGED <<tie, ledger, contract, pending, mined, txn, abandoned, faults>>
    BY DEF database, chain
<1>2. /\ status' \in [Rounds -> RoundStatus]
      /\ \A q \in Rounds : (\E h \in Handlers : Busy(h) /\ txn[h].round = q)
            => status'[q] = status[q]
      /\ \A q \in Rounds : status'[q] = "RESOLVED" <=> status[q] = "RESOLVED"
    BY DEF Locked, Busy, database, IInv, PType, RoundStatus
<1>3. /\ voters' \in [Rounds -> SUBSET Legislators]
      /\ name' \in [Legislators -> Names]
      /\ recent' \subseteq Rounds
    <2>1. CASE UNCHANGED <<voters, name>>
        BY <2>1 DEF chain, IInv, PType
    <2>2. ASSUME NEW r \in Rounds, NEW l \in Legislators, AuthorizeLate(r, l)
          PROVE  voters' \in [Rounds -> SUBSET Legislators] /\ UNCHANGED <<name, recent>>
        BY <2>2 DEF chain, IInv, PType
    <2>3. ASSUME NEW l \in Legislators, NEW n \in Names, UpdateLegislator(l, n)
          PROVE  name' \in [Legislators -> Names] /\ UNCHANGED <<voters, recent>>
        BY <2>3 DEF chain, IInv, PType
    <2> QED
        BY <2>1, <2>2, <2>3 DEF database, IInv, PType
<1> HIDE DEF Elsewhere, ProclaimTied, Rectify, Age, AuthorizeLate, UpdateLegislator
<1>4. PType'
    BY <1>1, <1>2, <1>3 DEF IInv, PType
<1>5. Exclusive' /\ AnchoredHasEntry' /\ NonceTaken'
    BY <1>1 DEF IInv, Exclusive, Busy, AnchoredHasEntry, At, Proclaimed, NonceTaken
<1>6. HoldsClosed'
    <2> SUFFICES ASSUME NEW h \in Handlers, Busy(h)
                 PROVE  /\ txn[h].tx.round = txn[h].round
                        /\ status'[txn[h].round] \in {"VOTING_CLOSED", "TIED"}
        BY <1>1 DEF HoldsClosed, Busy
    <2>1. status'[txn[h].round] = status[txn[h].round]
        BY <1>2, BusyRequest
    <2> QED
        BY <2>1 DEF IInv, HoldsClosed
<1>7. PublishedIsFinal' /\ EntryWasMined' /\ MinedHasEntry' /\ ReceiptIsOfTheAnchor'
    BY <1>1, <1>2 DEF IInv, PublishedIsFinal, EntryWasMined, MinedHasEntry,
        ReceiptIsOfTheAnchor, Proclaimed
<1>8. AllKnown'
    BY <1>1 DEF IInv, AllKnown, Known, Busy, Proclaimed
<1> QED
    BY <1>4, <1>5, <1>6, <1>7, <1>8 DEF IInv

LEMMA SnapshotIsPayload ==
    ASSUME IInv, NEW r \in Rounds, NEW tieVote \in SUBSET TieVotes
    PROVE  Snapshot(r, tieVote) \in Payload
<1>1. NamedLeaves(r) \in SUBSET Hashes
    BY AnchoringAssumption DEF IInv, PType, NamedLeaves
<1> QED
    BY <1>1, AnchoringAssumption DEF Snapshot, Payload

LEMMA BeginKeepsInvariant ==
    ASSUME IInv, NEW h \in Handlers, NEW r \in Rounds,
           \/ BeginProclaim(h, r)
           \/ \E v \in TieVotes : BeginTieBreak(h, r, v)
    PROVE  IInv'
<1>1. /\ ~Locked(r)
      /\ ~Busy(h)
      /\ status[r] \in {"VOTING_CLOSED", "TIED"}
      /\ UNCHANGED <<status, tie, voters, name, ledger, contract, recent, pending, mined, abandoned, faults>>
    BY DEF BeginProclaim, BeginTieBreak, Begin, Busy, database, chain
<1>2. PICK tieVote \in SUBSET TieVotes : Begin(h, r, tieVote)
    BY DEF BeginProclaim, BeginTieBreak
<1>3. PICK t \in Request :
        /\ txn' = [txn EXCEPT ![h] = t]
        /\ t.at = "build" /\ t.round = r /\ t.tx.round = r
    <2> DEFINE p == Snapshot(r, tieVote)
    <2>1. p \in Payload
        BY SnapshotIsPayload
    <2>2. PICK vs \in Listings(p.votes), rs \in Listings(p.roll) :
            txn' = [txn EXCEPT ![h] =
                [at |-> "build", round |-> r, tieVote |-> tieVote, attempt |-> 0,
                 nonce |-> 0, tx |-> Tx(r, p, vs, rs)]]
        BY <1>2 DEF Begin
    <2>3. p.nominal \in BOOLEAN /\ p.votes \in SUBSET Hashes /\ p.roll \in SUBSET Hashes
        BY <2>1 DEF Payload
    <2> HIDE DEF p
    <2>4. Root(vs) \in Roots /\ Root(rs) \in Roots
        BY <2>2, <2>3 DEF Roots
    <2>5. Tx(r, p, vs, rs) \in TxSet /\ Tx(r, p, vs, rs).round = r
        BY <2>1, <2>3, <2>4 DEF Tx, TxSet
    <2> DEFINE t == [at |-> "build", round |-> r, tieVote |-> tieVote, attempt |-> 0,
                     nonce |-> 0, tx |-> Tx(r, p, vs, rs)]
    <2>6. 0 \in 0 .. MaxAttempts - 1
        BY AnchoringAssumption
    <2>7. t \in Request /\ t.at = "build" /\ t.round = r /\ t.tx.round = r
        BY <2>5, <2>6 DEF Request, Places
    <2> QED
        BY <2>2, <2>7
<1>4. txn'[h] = t /\ t # Idle /\ \A g \in Handlers \ {h} : txn'[g] = txn[g]
    BY <1>3 DEF IInv, PType, Request, Places, Idle
<1>5. \A g \in Handlers : Busy(g) => txn[g].round # r
    BY <1>1 DEF Locked, Busy
<1>6. PType'
    BY <1>1, <1>3 DEF IInv, PType
<1>7. Exclusive'
    BY <1>3, <1>4, <1>5 DEF IInv, Exclusive, Busy
<1>8. HoldsClosed'
    BY <1>1, <1>3, <1>4 DEF IInv, HoldsClosed, Busy
<1>9. PublishedIsFinal' /\ EntryWasMined' /\ MinedHasEntry' /\ ReceiptIsOfTheAnchor'
    BY <1>1 DEF IInv, PublishedIsFinal, EntryWasMined, MinedHasEntry,
        ReceiptIsOfTheAnchor, Proclaimed
<1>10. AnchoredHasEntry' /\ NonceTaken'
    BY <1>1, <1>3, <1>4 DEF IInv, AnchoredHasEntry, At, Proclaimed, NonceTaken
<1>11. AllKnown'
    <2>1. \A tx : Known(tx) => Known(tx)'
        BY <1>1, <1>4 DEF Known, Busy
    <2> QED
        BY <1>1, <2>1 DEF IInv, AllKnown, Known, Proclaimed
<1> QED
    BY <1>6, <1>7, <1>8, <1>9, <1>10, <1>11 DEF IInv

-----------------------------------------------------------------------------
(* The commit.                                                             *)

LEMMA CommitKeepsInvariant ==
    ASSUME IInv, NEW h \in Handlers, Commit(h)
    PROVE  IInv'
<1> DEFINE r == txn[h].round
           row == [published |-> TRUE, payload |-> txn[h].tx.of, nonce |-> txn[h].nonce]
<1>1. Busy(h) /\ Proclaimed(r) /\ txn[h].nonce = contract[r].nonce
    BY DEF Commit, At, Busy, Idle, IInv, AnchoredHasEntry
<1>2. /\ r \in Rounds /\ txn[h].nonce \in Nat /\ txn[h].tieVote \subseteq TieVotes
      /\ txn[h].tx.of \in Payload /\ txn[h].tx.round = r
    BY <1>1, BusyRequest DEF Request
<1>3. /\ ledger' = [ledger EXCEPT ![r] = row]
      /\ tie' = [tie EXCEPT ![r] = txn[h].tieVote]
      /\ status' = [status EXCEPT ![r] = "RESOLVED"]
      /\ txn' = [txn EXCEPT ![h] = Idle]
      /\ UNCHANGED <<voters, name, contract, recent, pending, mined, abandoned, faults>>
    BY DEF Commit, chain
<1>4. row \in LedgerRow /\ row.published /\ row.nonce = contract[r].nonce
    BY <1>1, <1>2 DEF LedgerRow
<1> HIDE DEF row
<1>5. /\ ledger'[r] = row /\ status'[r] = "RESOLVED"
      /\ \A q \in Rounds \ {r} : ledger'[q] = ledger[q] /\ status'[q] = status[q]
      /\ txn'[h] = Idle /\ \A g \in Handlers \ {h} : txn'[g] = txn[g]
    BY <1>2, <1>3 DEF IInv, PType
<1>6. PType'
    BY <1>2, <1>3, <1>4 DEF IInv, PType, RoundStatus
<1>7. Exclusive'
    BY <1>5 DEF IInv, Exclusive, Busy
<1>8. HoldsClosed'
    <2> SUFFICES ASSUME NEW g \in Handlers, Busy(g)'
                 PROVE  /\ txn'[g].tx.round = txn'[g].round
                        /\ status'[txn'[g].round] \in {"VOTING_CLOSED", "TIED"}
        BY DEF HoldsClosed
    <2>1. g # h /\ txn'[g] = txn[g] /\ Busy(g)
        BY <1>5 DEF Busy
    <2>2. txn[g].round \in Rounds \ {r}
        BY <1>1, <2>1, BusyRequest DEF IInv, Exclusive
    <2> QED
        BY <1>5, <2>1, <2>2 DEF IInv, HoldsClosed
<1>9. PublishedIsFinal' /\ ReceiptIsOfTheAnchor'
    BY <1>1, <1>3, <1>4, <1>5 DEF IInv, PublishedIsFinal, ReceiptIsOfTheAnchor, Proclaimed
<1>10. EntryWasMined' /\ MinedHasEntry'
    BY <1>3 DEF IInv, EntryWasMined, MinedHasEntry, Proclaimed
<1>11. AnchoredHasEntry' /\ NonceTaken'
    BY <1>3, <1>5 DEF IInv, AnchoredHasEntry, At, Proclaimed, NonceTaken, Idle
<1>12. AllKnown'
    <2>1. ~ledger[r].published
        BY <1>1, <1>2 DEF IInv, HoldsClosed, PublishedIsFinal
    <2>2. ASSUME NEW tx \in TxSet, Known(tx) PROVE Known(tx)'
        <3>0. tx.round \in Rounds
            BY DEF TxSet
        <3>1. CASE tx.round = r /\ tx.of = txn[h].tx.of
            BY <1>4, <1>5, <3>1 DEF Known, row
        <3>2. CASE tx.of \in abandoned[tx.round]
            BY <1>3, <3>2 DEF Known
        <3>3. CASE ledger[tx.round].published /\ ledger[tx.round].payload = tx.of
            BY <1>5, <2>1, <3>0, <3>3 DEF Known
        <3>4. ASSUME NEW g \in Handlers \ {h}, Busy(g),
                     txn[g].round = tx.round, txn[g].tx.of = tx.of
              PROVE  Known(tx)'
            BY <1>5, <3>4 DEF Known, Busy
        <3> QED
            BY <2>2, <3>1, <3>2, <3>3, <3>4 DEF Known
    <2>3. \A i \in 1 .. Len(pending') : \E tx \in TxSet : tx = pending'[i] /\ Known(tx)
        BY <1>3, ElementOfSeq DEF IInv, PType, AllKnown
    <2>4. \A q \in Rounds : Proclaimed(q)' =>
            \E tx \in TxSet : tx = contract'[q].tx /\ Known(tx)
        BY <1>3, ProclaimedEntry DEF IInv, AllKnown, Entry, Proclaimed
    <2> QED
        BY <2>2, <2>3, <2>4, KnownIsKept
<1> QED
    BY <1>6, <1>7, <1>8, <1>9, <1>10, <1>11, <1>12 DEF IInv

-----------------------------------------------------------------------------
(* The chain.                                                              *)

\* A block: only a round that is not there is written, and in its last place.
LEMMA MineKeepsInvariant ==
    ASSUME IInv, Mine
    PROVE  IInv'
<1> DEFINE tx == Head(pending)
           r == tx.round
           ok == ~Proclaimed(r)
           n == Len(mined) + 1
           entry == [isProclaimed |-> TRUE, nonce |-> n, tx |-> tx]
<1>1. /\ tx \in TxSet /\ r \in Rounds /\ ok \in BOOLEAN
      /\ pending' \in Seq(TxSet)
      /\ \A i \in 1 .. Len(pending') : i + 1 \in 1 .. Len(pending) /\ pending'[i] = pending[i + 1]
      /\ tx = pending[1] /\ 1 \in 1 .. Len(pending)
    <2>1. pending \in Seq(TxSet) /\ pending # <<>> /\ pending' = Tail(pending)
        BY DEF Mine, IInv, PType
    <2>2. contract \in [Rounds -> {Unproclaimed} \cup Entry]
        BY DEF IInv, PType
    <2>3. tx \in TxSet /\ r \in Rounds
        <3>1. tx \in TxSet
            BY <2>1, HeadTailProperties
        <3> QED
            BY <3>1 DEF TxSet
    <2>4. ok \in BOOLEAN
        BY <2>2, <2>3 DEF Proclaimed, Unproclaimed, Entry
    <2> QED
        BY <2>1, <2>3, <2>4, HeadTailProperties
<1>2. /\ mined' = Append(mined, [tx |-> tx, ok |-> ok])
      /\ contract' = IF ok THEN [contract EXCEPT ![r] =
                        [isProclaimed |-> TRUE, nonce |-> Len(mined'), tx |-> tx]]
                     ELSE contract
      /\ recent' = IF ok THEN recent \cup {r} ELSE recent
      /\ UNCHANGED <<status, tie, voters, name, ledger, txn, abandoned, faults>>
    BY DEF Mine, database
<1>3. /\ mined \in Seq(Mined) /\ Len(mined) \in Nat /\ mined' \in Seq(Mined)
      /\ Len(mined') = n
      /\ mined'[n] = [tx |-> tx, ok |-> ok]
      /\ \A i \in 1 .. Len(mined) : mined'[i] = mined[i]
    BY <1>1, <1>2, AppendProperties, LenProperties DEF IInv, PType, Mined
<1>4. /\ ok => contract'[r] = entry /\ contract'[r].isProclaimed
      /\ \A q \in Rounds : q # r \/ ~ok => contract'[q] = contract[q]
      /\ \A q \in Rounds : Proclaimed(q) => contract'[q] = contract[q] /\ Proclaimed(q)'
    <2>1. contract \in [Rounds -> {Unproclaimed} \cup Entry]
        BY DEF IInv, PType
    <2>2. ok => contract' = [contract EXCEPT ![r] = entry]
        BY <1>2, <1>3
    <2>3. ok => contract'[r] = entry
        BY <1>1, <2>1, <2>2
    <2>4. \A q \in Rounds : q # r \/ ~ok => contract'[q] = contract[q]
        BY <1>1, <1>2, <2>1, <2>2
    <2>5. ok => contract'[r].isProclaimed
        BY <2>3
    <2>6. \A q \in Rounds : Proclaimed(q) => contract'[q] = contract[q] /\ Proclaimed(q)'
        BY <2>4 DEF Proclaimed
    <2> QED
        BY <2>3, <2>4, <2>5, <2>6
<1>5. PType'
    <2>1. entry \in Entry
        BY <1>1, <1>3 DEF Entry
    <2> HIDE DEF entry, ok
    <2>2. contract' \in [Rounds -> {Unproclaimed} \cup Entry]
        <3>1. contract' = IF ok THEN [contract EXCEPT ![r] = entry] ELSE contract
            BY <1>2, <1>3 DEF entry
        <3> QED
            BY <1>1, <2>1, <3>1 DEF IInv, PType
    <2>3. recent' \subseteq Rounds
        BY <1>1, <1>2 DEF IInv, PType
    <2> QED
        BY <1>1, <1>2, <1>3, <2>2, <2>3 DEF IInv, PType
<1>6. Exclusive' /\ HoldsClosed' /\ PublishedIsFinal' /\ NonceTaken'
    BY <1>2 DEF IInv, Exclusive, HoldsClosed, PublishedIsFinal, NonceTaken, Busy
<1>7. EntryWasMined'
    BY <1>1, <1>3, <1>4 DEF IInv, EntryWasMined, Proclaimed
<1>8. MinedHasEntry'
    <2> SUFFICES ASSUME NEW i \in 1 .. Len(mined'), mined'[i].ok
                 PROVE  /\ Proclaimed(mined[i].tx.round)'
                        /\ contract'[mined'[i].tx.round].nonce = i
        BY DEF MinedHasEntry
    <2>1. CASE i = n
        <3>1. mined'[i] = [tx |-> tx, ok |-> ok]
            BY <1>3, <2>1
        <3>2. ok /\ mined'[i].tx.round = r
            <4> HIDE DEF ok
            <4> QED
                BY <1>1, <3>1
        <3>3. contract'[r].isProclaimed /\ contract'[r].nonce = i
            BY <1>4, <2>1, <3>2
        <3> QED
            BY <3>2, <3>3 DEF Proclaimed
    <2>2. CASE i \in 1 .. Len(mined)
        <3>0. mined[i] \in Mined
            BY <1>3, <2>2, ElementOfSeq
        <3>1. mined[i].tx.round \in Rounds
            BY <3>0 DEF Mined, TxSet
        <3>2. Proclaimed(mined[i].tx.round) /\ contract[mined[i].tx.round].nonce = i
            BY <1>3, <2>2 DEF IInv, MinedHasEntry
        <3> QED
            BY <1>3, <1>4, <2>2, <3>1, <3>2 DEF Proclaimed
    <2> QED
        BY <1>3, <2>1, <2>2
<1>9. AnchoredHasEntry'
    <2> SUFFICES ASSUME NEW h \in Handlers, At(h, "anchored")
                 PROVE  /\ Proclaimed(txn[h].round)'
                        /\ txn[h].nonce = contract'[txn[h].round].nonce
        BY <1>2 DEF AnchoredHasEntry, At, Proclaimed
    <2>1. Busy(h) /\ Proclaimed(txn[h].round) /\ txn[h].nonce = contract[txn[h].round].nonce
        BY DEF IInv, AnchoredHasEntry, At, Busy, Idle
    <2> QED
        BY <1>2, <1>4, <2>1, BusyRequest DEF Proclaimed
<1>10. ReceiptIsOfTheAnchor'
    BY <1>2, <1>4 DEF IInv, ReceiptIsOfTheAnchor, Proclaimed
<1>11. AllKnown'
    <2>1. \A t \in TxSet : Known(t) => Known(t)'
        BY <1>2 DEF Known, Busy
    <2>2. \A i \in 1 .. Len(pending) : Known(pending[i]) /\ pending[i] \in TxSet
        BY ElementOfSeq DEF IInv, PType, AllKnown
    <2>3. \A i \in 1 .. Len(pending') : \E t \in TxSet : t = pending'[i] /\ Known(t)
        BY <1>1, <2>2
    <2>4. ASSUME NEW q \in Rounds, Proclaimed(q)'
          PROVE  \E t \in TxSet : t = contract'[q].tx /\ Known(t)
        <3>1. CASE q = r /\ ok
            BY <1>1, <1>4, <2>2, <3>1
        <3>2. CASE q # r \/ ~ok
            BY <1>4, <2>4, <3>2, ProclaimedEntry DEF IInv, AllKnown, Entry, Proclaimed
        <3> QED
            BY <3>1, <3>2
    <2> QED
        BY <2>1, <2>3, <2>4, KnownIsKept
<1> QED
    BY <1>5, <1>6, <1>7, <1>8, <1>9, <1>10, <1>11 DEF IInv

-----------------------------------------------------------------------------
(* The theorems.                                                           *)

LEMMA NextKeepsInvariant ==
    ASSUME IInv, [Next]_vars
    PROVE  IInv'
<1>1. CASE Elsewhere
    BY <1>1, ElsewhereKeepsInvariant
<1>2. CASE \E h \in Handlers, r \in Rounds :
                BeginProclaim(h, r) \/ \E v \in TieVotes : BeginTieBreak(h, r, v)
    BY <1>2, BeginKeepsInvariant
<1>3. CASE \E h \in Handlers : Continue(h) \/ Crash(h)
    <2>1. PICK h \in Handlers : Continue(h) \/ Crash(h)
        BY <1>3
    <2>2. CASE Commit(h)
        BY <2>2, CommitKeepsInvariant
    <2>3. CASE ~Commit(h)
        <3>1. RequestStep(h)
            BY <2>1, <2>3, RequestGoesOn, CrashIsRequestStep
        <3> QED
            BY <3>1, RequestStepKeepsInvariant
    <2> QED
        BY <2>2, <2>3
<1>4. CASE Mine
    BY <1>4, MineKeepsInvariant
<1>5. CASE UNCHANGED vars
    BY <1>5 DEF vars, database, chain, IInv, PType, Exclusive, HoldsClosed, PublishedIsFinal,
        EntryWasMined, MinedHasEntry, AnchoredHasEntry, NonceTaken, ReceiptIsOfTheAnchor,
        AllKnown, Known, Busy, Proclaimed, At
<1> QED
    BY <1>1, <1>2, <1>3, <1>4, <1>5, RenamedAreLegislators DEF Next, Elsewhere

THEOREM Invariance == Spec => []IInv
<1>1. Init => IInv
    BY Initially
<1>2. IInv /\ [Next]_vars => IInv'
    BY NextKeepsInvariant
<1> QED
    BY <1>1, <1>2, PTL DEF Spec

\* The rows, the contract, the pool and the requests keep their types.
THEOREM TypeCorrect == Spec => []TypeOK
<1>1. IInv => TypeOK
    BY InvariantTypes
<1> QED
    BY <1>1, Invariance, PTL

\* A final result is never written again: the lock lets one request at a time work
\* on a round, it begins on one that is not final, and it stays so until its commit.
THEOREM FinalResultsStay == Spec => FinalForEver
<1>1. ASSUME IInv, [Next]_vars, NEW r \in Rounds, status[r] = "RESOLVED"
      PROVE  UNCHANGED <<status[r], tie[r], ledger[r]>>
    <2>1. ASSUME NEW h \in Handlers, Commit(h)
          PROVE  UNCHANGED <<status[r], tie[r], ledger[r]>>
        <3>1. txn[h].round # r
            BY <1>1, <2>1 DEF Commit, At, Busy, Idle, IInv, HoldsClosed
        <3> QED
            BY <2>1, <3>1 DEF Commit, IInv, PType
    <2>2. CASE \E q \in Rounds : ProclaimTied(q) \/ Rectify(q)
        BY <1>1, <2>2 DEF ProclaimTied, Rectify, IInv, PType
    <2>3. CASE UNCHANGED <<status, tie, ledger>>
        BY <2>3
    <2>4. ASSUME NEW h \in Handlers, Continue(h) \/ Crash(h), ~Commit(h)
          PROVE  UNCHANGED <<status, tie, ledger>>
        BY <1>1, <2>4, RequestGoesOn, CrashIsRequestStep DEF RequestStep, database
    <2>5. CASE Elsewhere
        BY <2>2, <2>3, <2>5 DEF Elsewhere, Age, AuthorizeLate, UpdateLegislator, database
    <2>6. ASSUME NEW h \in Handlers, NEW q \in Rounds,
                 BeginProclaim(h, q) \/ \E v \in TieVotes : BeginTieBreak(h, q, v)
          PROVE  UNCHANGED <<status, tie, ledger>>
        BY <2>6 DEF BeginProclaim, BeginTieBreak, Begin, database
    <2>7. CASE Mine \/ UNCHANGED vars
        BY <2>3, <2>7 DEF Mine, vars, database
    <2> QED
        BY <1>1, <2>1, <2>3, <2>4, <2>5, <2>6, <2>7, RenamedAreLegislators DEF Next, Elsewhere
<1>2. IInv /\ [Next]_vars =>
        [\A r \in Rounds :
            status[r] = "RESOLVED" => UNCHANGED <<status[r], tie[r], ledger[r]>>]_vars
    BY <1>1
<1> QED
    BY <1>2, Invariance, PTL DEF Spec, FinalForEver

\* A final result names the transaction that wrote the contract.
THEOREM ReceiptIsTheAnchors == Spec => []ReceiptIsOfTheAnchor
<1>1. IInv => ReceiptIsOfTheAnchor
    BY DEF IInv
<1> QED
    BY <1>1, Invariance, PTL

\* What is on the chain was wanted there: by the ledger, by a request that is
\* still anchoring it, or by one that was given up.
THEOREM AnchorsHaveRequests == Spec => []EveryAnchorHasItsRequest
<1>1. ASSUME IInv PROVE EveryAnchorHasItsRequest
    BY <1>1 DEF IInv, AllKnown, Known, EntryWasMined, EveryAnchorHasItsRequest, Busy
<1> QED
    BY <1>1, Invariance, PTL
-----------------------------------------------------------------------------
(* Verification.                                                           *)

\* What a request wants to anchor: finite lists, and no roll of a nominal round.
Sound(p) ==
    /\ IsFiniteSet(p.votes) /\ IsFiniteSet(p.roll)
    /\ p.nominal => p.roll = {}

\* The roots of a transaction are those of what it was made from.
Rooted(tx) ==
    /\ Sound(tx.of)
    /\ tx.nominal = tx.of.nominal
    /\ \E u \in Listings(tx.of.votes) : tx.votesRoot = Root(u)
    /\ \E u \in Listings(tx.of.roll) : tx.rollRoot = Root(u)

VotersFinite == \A r \in Rounds : IsFiniteSet(voters[r])
LedgerSound == \A r \in Rounds : ledger[r].published => Sound(ledger[r].payload)
RequestsRooted == \A h \in Handlers : Busy(h) => Rooted(txn[h].tx)
PendingRooted == \A i \in 1 .. Len(pending) : Rooted(pending[i])
ContractRooted == \A r \in Rounds : Proclaimed(r) => Rooted(contract[r].tx)

RootInv ==
    /\ VotersFinite
    /\ LedgerSound
    /\ RequestsRooted
    /\ PendingRooted
    /\ ContractRooted

LEMMA RootedInitially == Init => RootInv
<1> SUFFICES ASSUME Init PROVE RootInv
    OBVIOUS
<1>1. VotersFinite
    BY AnchoringAssumption DEF Init, VotersFinite
<1>2. LedgerSound /\ ContractRooted
    BY DEF Init, LedgerSound, ContractRooted, Proclaimed, NoLedger, Unproclaimed
<1>3. RequestsRooted /\ PendingRooted
    BY DEF Init, RequestsRooted, PendingRooted, Busy
<1> QED
    BY <1>1, <1>2, <1>3 DEF RootInv

LEMMA ElsewhereKeepsRoots ==
    ASSUME IInv, RootInv, Elsewhere
    PROVE  RootInv'
<1>1. UNCHANGED <<ledger, contract, pending, txn>>
    BY DEF Elsewhere, ProclaimTied, Rectify, Age, AuthorizeLate, UpdateLegislator, database, chain
<1>2. VotersFinite'
    <2>1. CASE UNCHANGED voters
        BY <2>1 DEF RootInv, VotersFinite
    <2>2. ASSUME NEW r \in Rounds, NEW l \in Legislators, AuthorizeLate(r, l)
          PROVE  VotersFinite'
        <3>1. IsFiniteSet(voters[r] \cup {l})
            BY FS_AddElement DEF RootInv, VotersFinite
        <3>2. voters' = [voters EXCEPT ![r] = voters[r] \cup {l}] /\ DOMAIN voters = Rounds
            BY <2>2 DEF AuthorizeLate, IInv, PType
        <3> QED
            BY <3>1, <3>2 DEF RootInv, VotersFinite
    <2>3. UNCHANGED voters \/ \E r \in Rounds, l \in Legislators : AuthorizeLate(r, l)
        BY DEF Elsewhere, ProclaimTied, Rectify, Age, UpdateLegislator, database
    <2> QED
        BY <2>1, <2>2, <2>3
<1> QED
    BY <1>1, <1>2 DEF RootInv, LedgerSound, RequestsRooted, PendingRooted, ContractRooted,
        Busy, Proclaimed

LEMMA SnapshotIsSound ==
    ASSUME RootInv, NEW r \in Rounds, NEW tieVote, IsFiniteSet(tieVote)
    PROVE  Sound(Snapshot(r, tieVote))
<1> DEFINE p == Snapshot(r, tieVote)
           votes == IF r \in Nominal THEN NamedLeaves(r) ELSE Ballots[r]
<1>1. /\ p.nominal <=> r \in Nominal
      /\ p.votes = votes \cup tieVote
      /\ p.roll = IF r \in Nominal THEN {} ELSE NamedLeaves(r)
    BY DEF Snapshot
<1>2. IsFiniteSet(NamedLeaves(r))
    <2> DEFINE leaf == [l \in voters[r] |-> NamedLeaf[<<r, l, name[l]>>]]
    <2>1. IsFiniteSet(voters[r])
        BY DEF RootInv, VotersFinite
    <2>2. leaf \in Surjection(voters[r], NamedLeaves(r))
        BY DEF Surjection, NamedLeaves
    <2> QED
        BY <2>1, <2>2, FS_Surjection
<1>3. IsFiniteSet(votes \cup tieVote)
    BY <1>2, AnchoringAssumption, FS_Union
<1>4. IsFiniteSet({})
    BY FS_EmptySet
<1> HIDE DEF p, votes
<1>5. Sound(p)
    BY <1>1, <1>2, <1>3, <1>4 DEF Sound
<1> QED
    BY <1>5 DEF p

LEMMA BeginKeepsRoots ==
    ASSUME IInv, RootInv, NEW h \in Handlers, NEW r \in Rounds,
           \/ BeginProclaim(h, r)
           \/ \E v \in TieVotes : BeginTieBreak(h, r, v)
    PROVE  RootInv'
<1>1. UNCHANGED <<voters, name, ledger, contract, pending>>
    BY DEF BeginProclaim, BeginTieBreak, Begin, database, chain
<1>2. PICK tieVote : IsFiniteSet(tieVote) /\ Begin(h, r, tieVote)
    BY FS_EmptySet, FS_Singleton DEF BeginProclaim, BeginTieBreak
<1> DEFINE p == Snapshot(r, tieVote)
<1>3. PICK vs \in Listings(p.votes), rs \in Listings(p.roll) :
        txn' = [txn EXCEPT ![h] =
            [at |-> "build", round |-> r, tieVote |-> tieVote, attempt |-> 0,
             nonce |-> 0, tx |-> Tx(r, p, vs, rs)]]
    BY <1>2 DEF Begin
<1>4. Sound(p)
    BY <1>2, SnapshotIsSound
<1> HIDE DEF p
<1>5. Rooted(Tx(r, p, vs, rs))
    BY <1>3, <1>4 DEF Rooted, Tx
<1>6. txn'[h].tx = Tx(r, p, vs, rs) /\ \A g \in Handlers \ {h} : txn'[g] = txn[g]
    BY <1>3 DEF IInv, PType
<1>7. RequestsRooted'
    BY <1>5, <1>6 DEF RootInv, RequestsRooted, Busy
<1> QED
    BY <1>1, <1>7 DEF RootInv, VotersFinite, LedgerSound, PendingRooted, ContractRooted, Proclaimed

LEMMA RequestStepKeepsRoots ==
    ASSUME IInv, RootInv, NEW h \in Handlers, RequestStep(h)
    PROVE  RootInv'
<1>1. UNCHANGED <<voters, name, ledger, contract>> /\ Busy(h)
    BY DEF RequestStep, database, Progress, Drop
<1>2. \A g \in Handlers : Busy(g)' => Busy(g) /\ txn'[g].tx = txn[g].tx
    BY <1>1 DEF RequestStep, Progress, Drop, Abandon, IInv, PType, Busy
<1>3. RequestsRooted'
    BY <1>2 DEF RootInv, RequestsRooted
<1>4. PendingRooted'
    BY <1>1 DEF RequestStep, OwnPending, RootInv, RequestsRooted, PendingRooted
<1> QED
    BY <1>1, <1>3, <1>4 DEF RootInv, VotersFinite, LedgerSound, ContractRooted, Proclaimed

LEMMA CommitKeepsRoots ==
    ASSUME IInv, RootInv, NEW h \in Handlers, Commit(h)
    PROVE  RootInv'
<1> DEFINE r == txn[h].round
<1>1. Busy(h)
    BY DEF Commit, At, Busy, Idle
<1>2. /\ ledger' = [ledger EXCEPT ![r] = [published |-> TRUE, payload |-> txn[h].tx.of,
                                          nonce |-> txn[h].nonce]]
      /\ txn' = [txn EXCEPT ![h] = Idle]
      /\ UNCHANGED <<voters, name, contract, pending>>
    BY DEF Commit, chain
<1>3. r \in Rounds /\ Sound(txn[h].tx.of)
    BY <1>1, BusyRequest DEF RootInv, RequestsRooted, Rooted
<1>4. LedgerSound'
    BY <1>2, <1>3 DEF IInv, PType, RootInv, LedgerSound
<1>5. RequestsRooted'
    BY <1>2 DEF IInv, PType, RootInv, RequestsRooted, Busy
<1> QED
    BY <1>2, <1>4, <1>5 DEF RootInv, VotersFinite, PendingRooted, ContractRooted, Proclaimed

LEMMA MineKeepsRoots ==
    ASSUME IInv, RootInv, Mine
    PROVE  RootInv'
<1>1. pending \in Seq(TxSet) /\ pending # <<>> /\ pending' = Tail(pending)
    BY DEF Mine, IInv, PType
<1>2. /\ Head(pending) = pending[1] /\ 1 \in 1 .. Len(pending)
      /\ \A i \in 1 .. Len(pending') : i + 1 \in 1 .. Len(pending) /\ pending'[i] = pending[i + 1]
    BY <1>1, HeadTailProperties
<1>3. UNCHANGED <<voters, name, ledger, txn>>
    BY DEF Mine, database
<1>4. PendingRooted'
    BY <1>2 DEF RootInv, PendingRooted
<1>5. ContractRooted'
    <2>1. ASSUME NEW r \in Rounds
          PROVE  contract'[r] = contract[r] \/ contract'[r].tx = Head(pending)
        BY DEF Mine, IInv, PType
    <2>2. Rooted(Head(pending))
        BY <1>2 DEF RootInv, PendingRooted
    <2> QED
        BY <2>1, <2>2 DEF RootInv, ContractRooted, Proclaimed
<1> QED
    BY <1>3, <1>4, <1>5 DEF RootInv, VotersFinite, LedgerSound, RequestsRooted, Busy

LEMMA NextKeepsRoots ==
    ASSUME IInv, RootInv, [Next]_vars
    PROVE  RootInv'
<1>1. CASE Elsewhere
    BY <1>1, ElsewhereKeepsRoots
<1>2. CASE \E h \in Handlers, r \in Rounds :
                BeginProclaim(h, r) \/ \E v \in TieVotes : BeginTieBreak(h, r, v)
    BY <1>2, BeginKeepsRoots
<1>3. CASE \E h \in Handlers : Continue(h) \/ Crash(h)
    <2>1. PICK h \in Handlers : Continue(h) \/ Crash(h)
        BY <1>3
    <2>2. CASE Commit(h)
        BY <2>2, CommitKeepsRoots
    <2>3. CASE ~Commit(h)
        <3>1. RequestStep(h)
            BY <2>1, <2>3, RequestGoesOn, CrashIsRequestStep
        <3> QED
            BY <3>1, RequestStepKeepsRoots
    <2> QED
        BY <2>2, <2>3
<1>4. CASE Mine
    BY <1>4, MineKeepsRoots
<1>5. CASE UNCHANGED vars
    BY <1>5 DEF vars, database, chain, RootInv, VotersFinite, LedgerSound, RequestsRooted,
        PendingRooted, ContractRooted, Busy, Proclaimed
<1> QED
    BY <1>1, <1>2, <1>3, <1>4, <1>5, RenamedAreLegislators DEF Next, Elsewhere

THEOREM RootsInductive == Spec => []RootInv
<1>1. Init => RootInv
    BY RootedInitially
<1>2. IInv /\ RootInv /\ [Next]_vars => RootInv'
    BY NextKeepsRoots
<1> QED
    BY <1>1, <1>2, Invariance, PTL DEF Spec

\* The record of a final result rebuilds the anchored roots, also when it was
\* recovered from the event of a request that failed, unless that request saw
\* another record of the round: in any order in which votes and roll are listed,
\* however many there are, and whatever voters are called by then.
THEOREM FinalRecordsMatch == Spec => []RecoveredMatches
<1>1. ASSUME IInv, RootInv PROVE RecoveredMatches
    <2> SUFFICES ASSUME NEW r \in Rounds, status[r] = "RESOLVED",
                        abandoned[r] \subseteq {ledger[r].payload}
                 PROVE  Rebuilds(r)
        BY DEF RecoveredMatches
    <2> DEFINE tx == contract[r].tx
               p == ledger[r].payload
    <2>1. Proclaimed(r) /\ ledger[r].published
        BY <1>1 DEF IInv, ReceiptIsOfTheAnchor
    <2>2. tx.of = p
        <3>1. tx.round = r /\ Known(tx)
            BY <1>1, <2>1 DEF IInv, EntryWasMined, AllKnown
        <3>2. \A h \in Handlers : Busy(h) => txn[h].round # r
            BY <1>1 DEF IInv, HoldsClosed
        <3> QED
            BY <3>1, <3>2 DEF Known
    <2>3. Rooted(tx) /\ tx \in TxSet
        BY <1>1, <2>1, ProclaimedEntry DEF RootInv, ContractRooted, Entry
    <2> HIDE DEF tx, p
    <2>4. p.votes \in SUBSET Nat /\ p.roll \in SUBSET Nat
        BY <2>2, <2>3 DEF TxSet, Payload, Hashes
    <2>5. IsFiniteSet(p.votes) /\ IsFiniteSet(p.roll) /\ p.nominal = tx.nominal
        BY <2>2, <2>3 DEF Rooted, Sound
    <2>6. \A vs \in Listings(p.votes) : Root(vs) = tx.votesRoot
        BY <2>2, <2>3, <2>4, <2>5, RootIsOfTheSet DEF Rooted
    <2>7. \A rs \in Listings(p.roll) : Root(rs) = tx.rollRoot
        BY <2>2, <2>3, <2>4, <2>5, RootIsOfTheSet DEF Rooted
    <2> QED
        BY <2>1, <2>5, <2>6, <2>7 DEF Rebuilds, VerifyE2E, tx, p
<1> QED
    BY <1>1, Invariance, RootsInductive, PTL

\* A ledger row that rebuilds the anchored roots has the votes and the roll that were
\* anchored: no other row of any size could have passed.
THEOREM OnlyTheAnchoredVerifies == Spec => []VerifiedIsAnchored
<1>1. ASSUME IInv, RootInv PROVE VerifiedIsAnchored
    <2> SUFFICES ASSUME NEW r \in Rounds, ledger[r].published, Rebuilds(r)
                 PROVE  ledger[r].payload = contract[r].tx.of
        BY DEF VerifiedIsAnchored
    <2> DEFINE tx == contract[r].tx
               p == ledger[r].payload
    <2>1. /\ Proclaimed(r) /\ p.nominal = tx.nominal
          /\ \A vs \in Listings(p.votes) : Root(vs) = tx.votesRoot
          /\ p.nominal \/ \A rs \in Listings(p.roll) : Root(rs) = tx.rollRoot
        BY DEF Rebuilds, VerifyE2E
    <2>2. Rooted(tx) /\ tx.of \in Payload
        BY <1>1, <2>1, ProclaimedEntry DEF RootInv, ContractRooted, Entry, TxSet
    <2>3. Sound(p) /\ p \in Payload
        <3>1. ledger[r] \in {NoLedger} \cup LedgerRow
            BY <1>1 DEF IInv, PType
        <3>2. ledger[r] \in LedgerRow
            BY <3>1 DEF NoLedger
        <3>3. Sound(p)
            BY <1>1 DEF RootInv, LedgerSound
        <3> QED
            BY <3>2, <3>3 DEF LedgerRow
    <2> HIDE DEF tx, p
    <2>4. /\ p.votes \in SUBSET (Nat \ {0}) /\ p.roll \in SUBSET (Nat \ {0})
          /\ tx.of.votes \in SUBSET (Nat \ {0}) /\ tx.of.roll \in SUBSET (Nat \ {0})
        BY <2>2, <2>3 DEF Payload, Hashes
    <2>5. /\ IsFiniteSet(p.votes) /\ IsFiniteSet(p.roll)
          /\ IsFiniteSet(tx.of.votes) /\ IsFiniteSet(tx.of.roll)
        BY <2>2, <2>3 DEF Rooted, Sound
    <2>6. p.votes = tx.of.votes
        <3>1. PICK vs : vs \in Listings(p.votes)
            BY <2>5, ListingExists
        <3>2. PICK u \in Listings(tx.of.votes) : tx.votesRoot = Root(u)
            BY <2>2 DEF Rooted
        <3>3. Root(vs) = Root(u)
            BY <2>1, <3>1, <3>2
        <3> QED
            BY <2>4, <2>5, <3>1, <3>2, <3>3, RootDeterminesLeaves
    <2>7. p.nominal = tx.of.nominal
        BY <2>1, <2>2 DEF Rooted
    <2>8. p.roll = tx.of.roll
        <3>1. CASE p.nominal
            BY <2>2, <2>3, <2>7, <3>1 DEF Rooted, Sound
        <3>2. CASE ~p.nominal
            <4>1. PICK rs : rs \in Listings(p.roll)
                BY <2>5, ListingExists
            <4>2. PICK u \in Listings(tx.of.roll) : tx.rollRoot = Root(u)
                BY <2>2 DEF Rooted
            <4>3. Root(rs) = Root(u)
                BY <2>1, <3>2, <4>1, <4>2
            <4> QED
                BY <2>4, <2>5, <4>1, <4>2, <4>3, RootDeterminesLeaves
        <3> QED
            BY <3>1, <3>2
    <2>9. p = tx.of
        BY <2>2, <2>3, <2>6, <2>7, <2>8 DEF Payload
    <2> QED
        BY <2>9 DEF tx, p
<1> QED
    BY <1>1, Invariance, RootsInductive, PTL

\* As the portal feeds it, verifyE2E finds no lists and accepts no ledger row.
LEMMA NothingVerifiesAsFed == \A r \in Rounds : ~VerifyE2E(PublicAudit(r))
BY DEF VerifyE2E, PublicAudit
=============================================================================
