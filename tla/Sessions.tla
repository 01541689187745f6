------------------------------ MODULE Sessions ------------------------------
(***************************************************************************)
(* Legislative sessions, their attendance ledger and the agenda            *)
(* (orchestrator: legislative_session_service.py, attendance_service.py,   *)
(* agenda_item_service.py and their routers).                              *)
(*                                                                         *)
(* Nothing here locks a row: a request reads, decides, and writes later,   *)
(* and the ORM writes a column only if it differs from what was read.      *)
(* Voting rounds appear with the steps that matter to an agenda item; they *)
(* are modelled in full in VotingRounds.                                   *)
(***************************************************************************)
EXTENDS QuorumRules, FiniteSets

CONSTANTS
    Sessions, Items, Rounds, Legislators,
    Newcomers,     \* legislators registered during the run
    Handlers,      \* bound: requests in flight at once
    MaxRequests,   \* bound: requests in all, the steps of rounds apart
    None

ASSUME SessionsAssumption ==
    /\ IsFiniteSet(Sessions) /\ IsFiniteSet(Legislators) /\ IsFiniteSet(Items)
    /\ Sessions \cap Items = {}
    /\ Newcomers \subseteq Legislators
    /\ MaxRequests \in Nat
    /\ None \notin Sessions \cup Items \cup Rounds \cup Legislators

VARIABLES
    session,     \* legislative_sessions
    attendance,  \* session_attendances
    roll,        \* the legislators not soft-deleted
    item,        \* agenda_items
    round,       \* voting_rounds: status and item
    txn,         \* the request each handler serves
    announced,   \* the status last broadcast for each session and item
    requests,    \* requests so far
    ghost        \* history: see Ghosts

ledger == <<session, attendance>>
agenda == <<item, round>>
vars == <<ledger, roll, agenda, txn, announced, requests, ghost>>

SessionStatus == {"PENDING", "ACTIVE", "PAUSED", "CLOSED"}
Attendance == {"PRESENT", "ABSENT", "ON_LEAVE"}
\* "OTHER" is any status off the floor: DRAFT, APPROVED, SANCTIONED, ...
ItemStatus == {"OTHER", "DEBATE", "APPROVED_IN_GENERAL"}
Live == {"DRAFT", "VOTING_OPEN", "VOTING_CLOSED"}
RoundStatus == Live \cup {"TIED", "RESOLVED", "ABORTED"}

NoSession == [status |-> "NONE", deleted |-> FALSE, presType |-> "EX_OFFICIO"]
SessionRow == {NoSession} \cup
    [status: SessionStatus, deleted: BOOLEAN, presType: PresidentType]
ItemRow == [status: ItemStatus, deleted: BOOLEAN]
NoRound == [status |-> "NONE", item |-> None]
RoundRow == {NoRound} \cup [status: RoundStatus, item: Items]

\* "NONE" is a legislator without a record.
Ledger == [Legislators -> Attendance \cup {"NONE"}]
\* The records of a bulk update; "NONE" is a legislator it does not name.
Marks == Ledger

Idle == [op |-> "idle", on |-> None]
Txn ==
    {Idle}
    \cup [op: {"creating", "configuring"}, on: Sessions, presType: PresidentType]
    \cup [op: {"deleting"}, on: Sessions]
    \cup [op: {"announcing"}, on: Sessions, status: SessionStatus]
    \cup [op: {"changing"}, on: Sessions, read: SessionStatus, status: SessionStatus]
    \cup [op: {"marking"}, on: Sessions, read: Ledger, marks: Marks]
    \cup [op: {"editing", "saving"}, on: Items, read: ItemStatus, status: ItemStatus]
    \cup [op: {"withdrawing"}, on: Items]
    \cup [op: {"drafting"}, on: Items, round: Rounds]

\* contended: sessions and items that two requests were about at once.
\* twins: sessions created while another creation was under way.
\* closed: sessions that were CLOSED once.
\* rectifiable: items whose deletion found a round that can still be rectified.
\* unsaved: items whose update was announced and then not committed.
\* proclaimed: items whose status a proclamation wrote.
Ghosts == [contended: SUBSET (Sessions \cup Items), twins: SUBSET Sessions,
           closed: SUBSET Sessions, rectifiable: SUBSET Items, unsaved: SUBSET Items, proclaimed: SUBSET Items]

Init ==
    /\ session = [s \in Sessions |-> NoSession]
    /\ attendance = [s \in Sessions |-> [l \in Legislators |-> "NONE"]]
    /\ roll = Legislators \ Newcomers
    /\ item = [i \in Items |-> [status |-> "OTHER", deleted |-> FALSE]]
    /\ round = [r \in Rounds |-> NoRound]
    /\ txn = [h \in Handlers |-> Idle]
    /\ announced = [x \in Sessions \cup Items |-> "NONE"]
    /\ requests = 0
    /\ ghost = [contended |-> {}, twins |-> {}, closed |-> {}, rectifiable |-> {},
                unsaved |-> {}, proclaimed |-> {}]

-----------------------------------------------------------------------------
(* Requests.                                                               *)

Exists(s) == session[s].status # "NONE" /\ ~session[s].deleted
Listed(i) == ~item[i].deleted

Serving == {h \in Handlers : txn[h] # Idle}
InFlight == {txn[h].on : h \in Serving}
Creating == {txn[h].on : h \in {g \in Handlers : txn[g].op = "creating"}}

Request == requests < MaxRequests /\ requests' = requests + 1

Contend(X) == [ghost EXCEPT !.contended = @ \cup X]

Begin(h, t) ==
    /\ Request
    /\ txn[h] = Idle
    /\ txn' = [txn EXCEPT ![h] = t]

Finish(h) == txn' = [txn EXCEPT ![h] = Idle]

\* Mutation of Rollback: a status request that failed is announced.
RollbackAnnouncing(h) ==
    /\ txn[h].op \notin {"idle", "announcing"}
    /\ Finish(h)
    /\ announced' = IF txn[h].op = "changing"
                    THEN [announced EXCEPT ![txn[h].on] = txn[h].status] ELSE announced
    /\ UNCHANGED <<ledger, roll, agenda, requests, ghost>>

\* The service, the flush or the commit fails, or the answer cannot be built.
Rollback(h) ==
    /\ txn[h].op \notin {"idle", "announcing"}
    /\ Finish(h)
    /\ ghost' = [ghost EXCEPT !.unsaved =
                    @ \cup {i \in {txn[h].on} : txn[h].op = "saving"}]
    /\ UNCHANGED <<ledger, roll, agenda, announced, requests>>

-----------------------------------------------------------------------------
(* Sessions.                                                               *)

\* get_current_active: not CLOSED, not deleted.
Current == {s \in Sessions : Exists(s) /\ session[s].status # "CLOSED"}
OnFloor == {i \in Items : Listed(i) /\ item[i].status # "OTHER"}

\* GET /legislative-sessions/current: 404, 200, or 500 when a query that expects
\* one row at most finds more.
CurrentQuery ==
    IF Current = {} THEN "not found"
    ELSE IF Cardinality(Current) > 1 \/ Cardinality(OnFloor) > 1 THEN "fails"
    ELSE "found"

\* Mutation of MayCreate: only an ACTIVE session forbids another.
MayCreateBesideInactive == \A s \in Current : session[s].status # "ACTIVE"

MayCreate == Current = {}

BeginCreate(h, s, presType) ==
    /\ session[s] = NoSession
    /\ s \notin Creating
    /\ MayCreate
    /\ Begin(h, [op |-> "creating", on |-> s, presType |-> presType])
    /\ ghost' = [ghost EXCEPT !.twins = IF Creating = {} THEN @ ELSE @ \cup Creating \cup {s}]
    /\ UNCHANGED <<ledger, roll, agenda, announced>>

\* The row, then a record for each legislator of the roll: ABSENT, or PRESENT
\* for the presiding officer.
CommitCreate(h, officer) ==
    LET s == txn[h].on IN
    /\ txn[h].op = "creating"
    /\ session' = [session EXCEPT ![s] =
            [status |-> "PENDING", deleted |-> FALSE, presType |-> txn[h].presType]]
    /\ attendance' = [attendance EXCEPT ![s] =
            [l \in Legislators |->
                IF l \notin roll THEN "NONE"
                ELSE IF l = officer THEN "PRESENT" ELSE "ABSENT"]]
    /\ Finish(h)
    /\ UNCHANGED <<roll, agenda, announced, requests, ghost>>

\* A request about s or an item s; two at once contend for it.
BeginOn(h, s, t) ==
    /\ Begin(h, t)
    /\ ghost' = Contend({s} \cap InFlight)
    /\ UNCHANGED <<ledger, roll, agenda, announced>>

\* update_legislative_session.
BeginConfigure(h, s, presType) ==
    /\ Exists(s)
    /\ session[s].status = "PENDING"
    /\ BeginOn(h, s, [op |-> "configuring", on |-> s, presType |-> presType])

CommitConfigure(h) ==
    /\ txn[h].op = "configuring"
    /\ session' = [session EXCEPT ![txn[h].on].presType = txn[h].presType]
    /\ Finish(h)
    /\ UNCHANGED <<attendance, roll, agenda, announced, requests, ghost>>

\* Mutation of MayDelete: a session that is not ACTIVE can be deleted.
MayDeleteUnlessActive(s) == session[s].status # "ACTIVE"

MayDelete(s) == session[s].status = "PENDING"

\* soft_delete_legislative_session.
BeginDelete(h, s) ==
    /\ Exists(s)
    /\ MayDelete(s)
    /\ BeginOn(h, s, [op |-> "deleting", on |-> s])

CommitDelete(h) ==
    /\ txn[h].op = "deleting"
    /\ session' = [session EXCEPT ![txn[h].on].deleted = TRUE]
    /\ Finish(h)
    /\ UNCHANGED <<attendance, roll, agenda, announced, requests, ghost>>

\* Mutation of PresentIn: leave counts as presence.
NotAbsentIn(s) == {l \in Legislators : attendance[s][l] \in {"PRESENT", "ON_LEAVE"}}

\* Every PRESENT record counts, that of a removed legislator too.
PresentIn(s) == {l \in Legislators : attendance[s][l] = "PRESENT"}

\* update_legislative_session_status: any status may follow any other, ACTIVE
\* with a quorum in which the presiding officer always counts.
BeginStatus(h, s, status) ==
    /\ Exists(s)
    /\ status = "ACTIVE" =>
        HasCertifiedQuorum(session[s].presType, TRUE,
                           Cardinality(PresentIn(s)), Cardinality(roll))
    /\ BeginOn(h, s, [op |-> "changing", on |-> s,
                      read |-> session[s].status, status |-> status])

\* Written if it differs from what was read; then the request commits.
CommitStatus(h) ==
    LET t == txn[h] IN
    /\ t.op = "changing"
    /\ session' = IF t.status = t.read THEN session
                  ELSE [session EXCEPT ![t.on].status = t.status]
    /\ txn' = [txn EXCEPT ![h] = [op |-> "announcing", on |-> t.on, status |-> t.status]]
    /\ ghost' = [ghost EXCEPT !.closed =
                    @ \cup {s \in {t.on} : session'[s].status = "CLOSED"}]
    /\ UNCHANGED <<attendance, roll, agenda, announced, requests>>

\* SESSION_STATUS_CHANGED carries the answer of the request, after its commit.
AnnounceStatus(h) ==
    /\ txn[h].op = "announcing"
    /\ announced' = [announced EXCEPT ![txn[h].on] = txn[h].status]
    /\ Finish(h)
    /\ UNCHANGED <<ledger, roll, agenda, requests, ghost>>

-----------------------------------------------------------------------------
(* Attendance and the roll.                                                *)

\* bulk_update_attendance, of a deleted session too.
BeginMark(h, s, marks) ==
    /\ session[s] # NoSession
    /\ BeginOn(h, s, [op |-> "marking", on |-> s, read |-> attendance[s], marks |-> marks])

\* uq_session_attendances_session_legislator: a record inserted meanwhile makes
\* the insertion of another fail.
Inserts(t) == {l \in Legislators : t.marks[l] # "NONE" /\ t.read[l] = "NONE"}

\* Mutation of Marked: a legislator without a record is left out.
MarkedIfRecorded(t, l) ==
    IF t.read[l] # "NONE" /\ t.marks[l] \notin {"NONE", t.read[l]}
    THEN t.marks[l] ELSE attendance[t.on][l]

\* A record named in the request is inserted, or written if it differs from what
\* was read.
Marked(t, l) ==
    IF t.marks[l] \in {"NONE", t.read[l]} THEN attendance[t.on][l] ELSE t.marks[l]

CommitMark(h) ==
    LET t == txn[h] IN
    /\ t.op = "marking"
    /\ \A l \in Inserts(t) : attendance[t.on][l] = "NONE"
    /\ attendance' = [attendance EXCEPT ![t.on] = [l \in Legislators |-> Marked(t, l)]]
    /\ Finish(h)
    /\ UNCHANGED <<session, roll, agenda, announced, requests, ghost>>

\* create_legislator and soft_delete_legislator; requests that may have counted
\* the roll before are contended.
ChangeRoll(members) ==
    /\ Request
    /\ roll' = members
    /\ ghost' = Contend(InFlight \cap Sessions)
    /\ UNCHANGED <<ledger, agenda, txn, announced>>

Register(l) == l \in Newcomers \ roll /\ ChangeRoll(roll \cup {l})
Remove(l) == l \in roll \ Newcomers /\ ChangeRoll(roll \ {l})

-----------------------------------------------------------------------------
(* The agenda.                                                             *)

\* update_agenda_item: any status, written if it differs from what was read.
BeginEdit(h, i, status) ==
    /\ Listed(i)
    /\ BeginOn(h, i, [op |-> "editing", on |-> i,
                      read |-> item[i].status, status |-> status])

\* AGENDA_ITEM_UPDATED is broadcast with the response, before the session of the
\* request commits.
AnnounceEdit(h) ==
    LET t == txn[h] IN
    /\ t.op = "editing"
    /\ announced' = [announced EXCEPT ![t.on] = t.status]
    /\ txn' = [txn EXCEPT ![h].op = "saving"]
    /\ UNCHANGED <<ledger, roll, agenda, requests, ghost>>

Saved(t) ==
    IF t.status = t.read THEN item[t.on] ELSE [item[t.on] EXCEPT !.status = t.status]

CommitEdit(h) ==
    /\ txn[h].op = "saving"
    /\ item' = [item EXCEPT ![txn[h].on] = Saved(txn[h])]
    /\ Finish(h)
    /\ UNCHANGED <<ledger, roll, round, announced, requests, ghost>>

RoundsOf(i) == {r \in Rounds : round[r].item = i}
LiveRounds(i) == {r \in RoundsOf(i) : round[r].status \in Live}

\* Mutation of MayWithdraw: only an open round keeps the item.
MayWithdrawUnlessOpen(i) == \A r \in RoundsOf(i) : round[r].status # "VOTING_OPEN"

\* A TIED round does not keep the item.
MayWithdraw(i) == LiveRounds(i) = {}

\* soft_delete_agenda_item.
BeginWithdraw(h, i) ==
    /\ Listed(i)
    /\ MayWithdraw(i)
    /\ Begin(h, [op |-> "withdrawing", on |-> i])
    /\ ghost' = [Contend({i} \cap InFlight) EXCEPT !.rectifiable =
            @ \cup {j \in {i} : \E r \in RoundsOf(i) : round[r].status \in {"TIED", "ABORTED"}}]
    /\ UNCHANGED <<ledger, roll, agenda, announced>>

CommitWithdraw(h) ==
    /\ txn[h].op = "withdrawing"
    /\ item' = [item EXCEPT ![txn[h].on].deleted = TRUE]
    /\ Finish(h)
    /\ UNCHANGED <<ledger, roll, round, announced, requests, ghost>>

\* create_voting_round, after its look at the item.
BeginDraft(h, r, i) ==
    /\ Listed(i)
    /\ round[r] = NoRound
    /\ \A g \in Handlers : txn[g].op = "drafting" => txn[g].round # r
    /\ BeginOn(h, i, [op |-> "drafting", on |-> i, round |-> r])

CommitDraft(h) ==
    /\ txn[h].op = "drafting"
    /\ round[txn[h].round] = NoRound
    /\ round' = [round EXCEPT ![txn[h].round] = [status |-> "DRAFT", item |-> txn[h].on]]
    /\ Finish(h)
    /\ UNCHANGED <<ledger, roll, item, announced, requests, ghost>>

\* A round is opened, closed, or proclaimed a tie.
Advance(r) ==
    /\ \E step \in {<<"DRAFT", "VOTING_OPEN">>, <<"VOTING_OPEN", "VOTING_CLOSED">>,
                     <<"VOTING_CLOSED", "TIED">>} :
        /\ round[r].status = step[1]
        /\ round' = [round EXCEPT ![r].status = step[2]]
    /\ UNCHANGED <<ledger, roll, item, txn, announced, requests, ghost>>

\* It is resolved; the item keeps its status, passes in general or leaves the
\* floor.
Resolve(r, status) ==
    LET i == round[r].item IN
    /\ round[r].status \in {"VOTING_CLOSED", "TIED"}
    /\ status \in {item[i].status, "APPROVED_IN_GENERAL", "OTHER"}
    /\ round' = [round EXCEPT ![r].status = "RESOLVED"]
    /\ item' = [item EXCEPT ![i].status = status]
    /\ ghost' = [ghost EXCEPT !.proclaimed = @ \cup {i}]
    /\ UNCHANGED <<ledger, roll, txn, announced, requests>>

\* Mutation of Rectify: the clone is not given its item.
RectifyWithoutItem(r, clone) ==
    /\ round[r].status \notin {"NONE", "RESOLVED"}
    /\ round[clone] = NoRound
    /\ round' = [round EXCEPT ![r].status = "ABORTED",
                              ![clone] = [status |-> "DRAFT", item |-> None]]
    /\ UNCHANGED <<ledger, roll, item, txn, announced, requests, ghost>>

\* rectify_voting_round: whatever is not RESOLVED is voided and cloned.
Rectify(r, clone) ==
    /\ round[r].status \notin {"NONE", "RESOLVED"}
    /\ round[clone] = NoRound
    /\ round' = [round EXCEPT ![r].status = "ABORTED",
                              ![clone] = [status |-> "DRAFT", item |-> round[r].item]]
    /\ UNCHANGED <<ledger, roll, item, txn, announced, requests, ghost>>

-----------------------------------------------------------------------------
SessionRequest(h, s) ==
    \/ \E presType \in PresidentType : BeginCreate(h, s, presType)
    \/ \E presType \in PresidentType : BeginConfigure(h, s, presType)
    \/ BeginDelete(h, s)
    \/ \E status \in SessionStatus : BeginStatus(h, s, status)
    \/ \E marks \in Marks : BeginMark(h, s, marks)

ItemRequest(h, i) ==
    \/ \E status \in ItemStatus : BeginEdit(h, i, status)
    \/ BeginWithdraw(h, i)
    \/ \E r \in Rounds : BeginDraft(h, r, i)

Continue(h) ==
    \/ \E officer \in roll \cup {None} : CommitCreate(h, officer)
    \/ CommitConfigure(h) \/ CommitDelete(h)
    \/ CommitStatus(h) \/ AnnounceStatus(h) \/ CommitMark(h)
    \/ AnnounceEdit(h) \/ CommitEdit(h) \/ CommitWithdraw(h) \/ CommitDraft(h)
    \/ Rollback(h)

RoundStep(r) ==
    \/ Advance(r)
    \/ \E status \in ItemStatus : Resolve(r, status)
    \/ \E clone \in Rounds : Rectify(r, clone)

Next ==
    \/ \E h \in Handlers :
        \/ \E s \in Sessions : SessionRequest(h, s)
        \/ \E i \in Items : ItemRequest(h, i)
        \/ Continue(h)
    \/ \E r \in Rounds : RoundStep(r)
    \/ \E l \in Legislators : Register(l) \/ Remove(l)

Spec == Init /\ [][Next]_vars

-----------------------------------------------------------------------------
(* Properties.                                                             *)

\* Type invariant: the rows, the requests and what was announced.
TypeOK ==
    /\ session \in [Sessions -> SessionRow]
    /\ attendance \in [Sessions -> Ledger]
    /\ roll \subseteq Legislators
    /\ item \in [Items -> ItemRow]
    /\ round \in [Rounds -> RoundRow]
    /\ txn \in [Handlers -> Txn]
    /\ announced \in [Sessions \cup Items -> SessionStatus \cup ItemStatus \cup {"NONE"}]
    /\ requests \in 0 .. MaxRequests
    /\ ghost \in Ghosts

\* The terminals' query of the current session fails only if two sessions were
\* created at once, a closed one was reopened beside another, or two items are
\* on the floor (create_legislative_session, get_current_legislative_session).
CurrentIsServed ==
    CurrentQuery = "fails" =>
        \/ Current \cap (ghost.twins \cup ghost.closed) # {}
        \/ Cardinality(OnFloor) > 1

\* A session is deleted, and its president's rule changed, only while PENDING,
\* unless another request about it was under way: after that nothing takes its
\* rounds away (update_ and soft_delete_legislative_session).
SettledOnceStarted ==
    [][\A s \in Sessions :
        Exists(s) /\ session[s].status # "PENDING" /\ s \notin ghost.contended =>
            /\ ~session'[s].deleted
            /\ session'[s].presType = session[s].presType]_vars

Attending(s) == {l \in Legislators : attendance[s][l] = "PRESENT"}

\* A session becomes ACTIVE with the majority of the roll marked PRESENT, unless
\* the attendance or the roll changed while the request was under way, or a
\* removed legislator is still marked (update_legislative_session_status).
StartsWithMajority ==
    [][\A s \in Sessions :
        /\ session[s].status # "ACTIVE" /\ session'[s].status = "ACTIVE"
        /\ s \notin ghost.contended
        /\ Attending(s) \subseteq roll
        => 2 * Cardinality(Attending(s)) > Cardinality(roll)]_vars

\* A bulk update that commits leaves the records it named as it named them,
\* unless another request about the session overlapped: the ORM then compares
\* with a stale record (bulk_update_attendance).
MarksTakeEffect ==
    [][\A h \in Handlers :
        LET t == txn[h] IN
        CommitMark(h) /\ t.on \notin ghost.contended =>
            \A l \in Legislators :
                t.marks[l] # "NONE" => attendance'[t.on][l] = t.marks[l]]_vars

\* When no request about a session or an item is under way, the last status
\* broadcast is its status, unless two requests overlapped, an announced update
\* was not committed, or a proclamation wrote the item.
AnnouncedIsCommitted ==
    /\ \A s \in Sessions \ (InFlight \cup ghost.contended) :
        announced[s] \in {"NONE", session[s].status}
    /\ \A i \in Items \ (InFlight \cup ghost.contended \cup ghost.unsaved
                                     \cup ghost.proclaimed) :
        announced[i] \in {"NONE", item[i].status}

\* No round of a deleted item is still to be voted or proclaimed, unless the
\* deletion overlapped another request about the item or found a round that
\* rectification could clone (soft_delete_agenda_item).
DeletedItemIsClosed ==
    \A i \in Items :
        item[i].deleted =>
            LiveRounds(i) = {} \/ i \in ghost.contended \/ i \in ghost.rectifiable
=============================================================================
