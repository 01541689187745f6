------------------------------ MODULE Terminal ------------------------------
(***************************************************************************)
(* One voter terminal and the rounds it votes in (voter-terminal:          *)
(* SessionManager, SessionKeepAliveService, VotingViewModel,               *)
(* JitAuthorizationManager, BlindSignatureManager; orchestrator: the       *)
(* routers that commit a round and then broadcast it).                     *)
(*                                                                         *)
(* Three threads share the terminal's memory: the service's, which handles *)
(* the events, the observer's, which prepares an authorization for the     *)
(* round on the screen, and the main thread, with the submissions of votes *)
(* and of authorizations: each tap launches one, and it waits for the      *)
(* fingerprint and for the network.  Between updateState's look at the     *)
(* screen and its write, another thread may write: the main thread's two   *)
(* steps are apart, the service's one.  The displays between two rounds    *)
(* (Idle, DebateIdle) are one; the rules of a round are in VotingRounds.   *)
(***************************************************************************)
EXTENDS Naturals, SequencesExt

CONSTANTS
    Rounds,
    Nominal,      \* the nominal rounds; the others are secret
    SessionKeys,  \* what the session's key may be: a round's key, another text, or None
    Presiding,    \* whether the terminal is the presiding officer's
    MaxTokens,    \* bound: ephemeral keys the terminal generates
    MaxFaults,    \* bound: messages lost, connections lost, restarts
    MaxRequests,  \* bound: requests that change a round
    MaxStarts,    \* bound: times the application asks for the current session
    Jobs,         \* bound: submissions under way at once
    None,
    Unreadable    \* a text that is no key

ASSUME TerminalAssumption ==
    /\ Nominal \subseteq Rounds
    /\ SessionKeys \subseteq Rounds \cup {None, Unreadable}
    /\ Presiding \in BOOLEAN
    /\ MaxTokens \in Nat /\ MaxFaults \in Nat /\ MaxRequests \in Nat /\ MaxStarts \in Nat
    /\ None \notin Rounds \cup Nat
    /\ Unreadable \notin Rounds \cup {None}

VARIABLES
    status,        \* voting_rounds.status
    sessionKey,    \* the session's ephemeral_public_key
    signed,        \* the token signed for the terminal's legislator in each round
    recorded,      \* the rounds with a vote of this terminal
    broadcasting,  \* events of committed requests, in the order of the commits
    connected,     \* whether the terminal's socket is open
    enrolled,      \* whether the terminal has its device token and its keys
    screen,        \* SessionManager's state
    writing,       \* what the main thread, past updateState's check, will write
    unseen,        \* whether the observer has still to see the screen
    auth,          \* JitAuthorizationManager's state
    blind,         \* BlindSignatureManager's memory
    current,       \* initializeSession: the answer on its way
    jobs,          \* the votes and the authorizations that are being submitted
    counts,        \* bounds: tokens, faults, requests and starts so far
    ghost          \* history: see Ghosts

server == <<status, sessionKey, signed, recorded, broadcasting>>
link == <<connected, enrolled>>
memory == <<screen, writing, unseen>>
tasks == <<current, jobs>>
vars == <<server, link, memory, auth, blind, tasks, counts, ghost>>

RoundStatus == {"DRAFT", "VOTING_OPEN", "VOTING_CLOSED", "TIED", "RESOLVED", "ABORTED"}
Token == 1 .. MaxTokens
Key == Rounds \cup {None, Unreadable}

Event == [type: {"OPENED", "CLOSED", "TIED", "ENDED"}, round: Rounds, key: Key]

\* VotingState; open: the status it shows is VOTING_OPEN.
Screen == [at: {"none", "idle", "active", "locked", "tied", "tieBreak", "tieLocked", "revoked"},
           round: Rounds \cup {None}, key: Key, open: BOOLEAN]
Blank(at) == [at |-> at, round |-> None, key |-> None, open |-> FALSE]
NoWrite == Blank("none")
Active(r, key) == [at |-> "active", round |-> r, key |-> key, open |-> TRUE]

AuthorizationState ==
    [at: {"idle", "authorizing", "authorized", "error"}]
    \cup [at: {"required"}, round: Rounds, token: Token]

\* A signature: the token that was signed, and the round whose key signed it.
\* token: that of the key pair; cached: the one that was blinded, with the factor
\* that "key" stands for.  A preparation that fails leaves them apart.
NoSignature == [of |-> None, by |-> None]
NoMaterial == [round |-> None, token |-> None, cached |-> None, key |-> None,
               signature |-> NoSignature]
Material == {NoMaterial} \cup
    [round: Rounds, token: Token, cached: Token \cup {None}, key: Rounds \cup {None},
     signature: {NoSignature} \cup [of: Token, by: Rounds]]

Quiet == [at |-> "quiet"]
Vote == [at: {"sent", "accepted"}, kind: {"nominal", "secret", "tie"},
         round: Rounds, valid: BOOLEAN]
Signing == [at: {"prompt"}, round: Rounds, token: Token]
    \cup [at: {"signing"}, round: Rounds, token: Token, for: Rounds]
Job == {Quiet} \cup Vote \cup Signing

\* stale: the terminal missed an event, got two in the wrong order, or wrote an
\*        answer over a newer event.
\* mistaken: rounds marked as voted by the submission of another.
\* gaveUp: rounds whose material was given up for another round's, at the end of a
\*         secret ballot's submission, or with the process.
\* mixed: rounds with another's material: prepared while the memory held another's
\*        signature, prepared with a key that cannot be read, or authorized by the
\*        answer for another.
\* overtaken: the wipe came between the check and the write of updateState.
Ghosts == [stale: BOOLEAN, mistaken: SUBSET Rounds, gaveUp: SUBSET Rounds,
           mixed: SUBSET Rounds, overtaken: BOOLEAN]

Init ==
    /\ status = [r \in Rounds |-> "DRAFT"]
    /\ sessionKey \in SessionKeys
    /\ signed = [r \in Rounds |-> None]
    /\ recorded = {}
    /\ broadcasting = <<>>
    /\ connected = FALSE
    /\ enrolled = TRUE
    /\ screen = Blank("idle")
    /\ writing = NoWrite
    /\ unseen = FALSE
    /\ auth = [at |-> "idle"]
    /\ blind = NoMaterial
    /\ current = NoWrite
    /\ jobs = [j \in Jobs |-> Quiet]
    /\ counts = [tokens |-> 0, faults |-> 0, requests |-> 0, starts |-> 0]
    /\ ghost = [stale |-> FALSE, mistaken |-> {}, gaveUp |-> {}, mixed |-> {},
                overtaken |-> FALSE]

Fault == counts.faults < MaxFaults /\ counts' = [counts EXCEPT !.faults = @ + 1]

-----------------------------------------------------------------------------
(* The rounds.  Each request commits; its event is a background task.      *)

Request ==
    /\ counts.requests < MaxRequests
    /\ counts' = [counts EXCEPT !.requests = @ + 1]

\* POST /ephemeral-key takes any text, at any time.
SetSessionKey(key) ==
    /\ Request
    /\ key # sessionKey
    /\ sessionKey' = key
    /\ UNCHANGED <<status, signed, recorded, broadcasting, link, memory, auth, blind,
                   tasks, ghost>>

Commit(r, newStatus, type) ==
    /\ Request
    /\ status' = [status EXCEPT ![r] = newStatus]
    /\ broadcasting' = Append(broadcasting,
            [type |-> type, round |-> r, key |-> IF type = "OPENED" THEN sessionKey ELSE None])
    /\ UNCHANGED <<sessionKey, signed, recorded, link, memory, auth, blind, tasks, ghost>>

\* The event carries the key of the session, not that of the round.
OpenRound(r) ==
    /\ status[r] = "DRAFT"
    /\ \A q \in Rounds : status[q] # "VOTING_OPEN"
    /\ Commit(r, "VOTING_OPEN", "OPENED")

CloseRound(r) == status[r] = "VOTING_OPEN" /\ Commit(r, "VOTING_CLOSED", "CLOSED")

ProclaimRound(r) ==
    /\ status[r] = "VOTING_CLOSED"
    /\ Commit(r, "TIED", "TIED") \/ Commit(r, "RESOLVED", "ENDED")

RectifyRound(r) == status[r] \notin {"RESOLVED", "ABORTED"} /\ Commit(r, "ABORTED", "ENDED")

-----------------------------------------------------------------------------
(* The connection and the screen.                                          *)

\* Mutation of MayUpdate: the revoked state is not looked at.
MayUpdateAlways == TRUE

\* The check of updateState: a revoked terminal stays revoked.
MayUpdate == screen.at # "revoked"

Show(s) == screen' = s /\ unseen' = (unseen \/ s # screen)

\* The main thread is not inside updateState.
MainIsFree == writing = NoWrite

\* A submission's coroutine ends.
Ends(j) == jobs' = [jobs EXCEPT ![j] = Quiet]

\* updateState on the main thread: what it decides to write now ...
Decide(s) == writing' = IF MayUpdate THEN s ELSE writing

\* ... it writes a moment later.
Write ==
    /\ writing # NoWrite
    /\ Show(writing)
    /\ writing' = NoWrite
    /\ ghost' = [ghost EXCEPT !.stale =
            @ \/ (writing.at = "active" /\ status[writing.round] # "VOTING_OPEN")]
    /\ UNCHANGED <<server, link, auth, blind, tasks, counts>>

\* initializeSession: GET /current, when the view model is created ...
FetchCurrent ==
    /\ MainIsFree
    /\ counts.starts < MaxStarts
    /\ enrolled
    /\ current = NoWrite
    /\ counts' = [counts EXCEPT !.starts = @ + 1]
    /\ current' = IF \E r \in Rounds : status[r] = "VOTING_OPEN"
                  THEN Active(CHOOSE r \in Rounds : status[r] = "VOTING_OPEN", sessionKey)
                  ELSE Blank("idle")
    /\ UNCHANGED <<server, link, memory, auth, blind, jobs, ghost>>

\* ... is shown, and the service started, which connects; without an answer it
\* only connects.
ApplyCurrent ==
    /\ current # NoWrite
    /\ MainIsFree
    /\ current' = NoWrite
    /\ connected' = enrolled
    /\ \/ Decide(current) /\ UNCHANGED counts
       \/ UNCHANGED writing /\ Fault
    /\ UNCHANGED <<server, enrolled, screen, unseen, auth, blind, jobs, ghost>>

\* The socket breaks; observeState connects again and asks for nothing.
LoseConnection ==
    /\ connected
    /\ Fault
    /\ connected' = FALSE
    /\ UNCHANGED <<server, enrolled, memory, auth, blind, tasks, ghost>>

Reconnect ==
    /\ ~connected
    /\ counts.starts > 0
    /\ enrolled
    /\ connected' = TRUE
    /\ UNCHANGED <<server, enrolled, memory, auth, blind, tasks, counts, ghost>>

\* The content of a JSON null is the text "null".
KeyOfEvent(e) == IF e.key = None THEN Unreadable ELSE e.key

\* Mutation of Shown: the end of the voting changes only a terminal that voted.
ShownIfLocked(e) ==
    CASE e.type = "OPENED" -> Active(e.round, KeyOfEvent(e))
      [] e.type = "TIED"   -> IF Presiding THEN [Blank("tieBreak") EXCEPT !.round = e.round]
                              ELSE Blank("tied")
      [] e.type = "CLOSED" -> IF screen.at = "locked" THEN [screen EXCEPT !.open = FALSE]
                              ELSE screen
      [] e.type = "ENDED"  -> Blank("idle")

\* What the service shows for an event: only OPENED and TIED look at its round.
Shown(e) ==
    CASE e.type = "OPENED" -> Active(e.round, KeyOfEvent(e))
      [] e.type = "TIED"   -> IF Presiding THEN [Blank("tieBreak") EXCEPT !.round = e.round]
                              ELSE Blank("tied")
      [] e.type = "CLOSED" -> IF screen.at \in {"active", "locked"}
                              THEN [screen EXCEPT !.open = FALSE] ELSE screen
      [] e.type = "ENDED"  -> Blank("idle")

\* The background tasks of two requests run in any order.  A connected terminal
\* handles the event; another never gets it.
Broadcast(i) ==
    /\ broadcasting' = RemoveAt(broadcasting, i)
    /\ IF connected /\ MayUpdate THEN Show(Shown(broadcasting[i]))
       ELSE UNCHANGED <<screen, unseen>>
    /\ ghost' = [ghost EXCEPT !.stale = @ \/ i > 1 \/ ~connected]
    /\ UNCHANGED <<status, sessionKey, signed, recorded, link, writing, auth, blind,
                   tasks, counts>>

\* DEVICE_WIPE_COMMAND: the keys are cleared and the service stops.
ExecuteWipeProtocol ==
    /\ connected
    /\ Show(Blank("revoked"))
    /\ connected' = FALSE
    /\ enrolled' = FALSE
    /\ ghost' = [ghost EXCEPT !.overtaken = @ \/ writing # NoWrite]
    /\ UNCHANGED <<server, writing, auth, blind, tasks, counts>>

\* The system stops the process: its memory is gone, the enrolment is not.
Restart ==
    /\ Fault
    /\ enrolled
    /\ connected' = FALSE
    /\ screen' = Blank("idle")
    /\ writing' = NoWrite
    /\ unseen' = FALSE
    /\ auth' = [at |-> "idle"]
    /\ blind' = NoMaterial
    /\ current' = NoWrite
    /\ jobs' = [j \in Jobs |-> Quiet]
    /\ ghost' = [ghost EXCEPT !.gaveUp = @ \cup ({blind.round} \ {None}), !.stale = TRUE]
    /\ UNCHANGED <<server, enrolled>>

-----------------------------------------------------------------------------
(* Authorization.                                                          *)

\* What the history keeps when the material of a round is overwritten or wiped.
GiveUp == ghost.gaveUp \cup ({blind.round} \ {None})

IsAuthorized(r) == blind.round = r /\ blind.signature # NoSignature

IsPrepared(r) == blind.round = r /\ blind.token # None /\ blind.cached # None

\* Mutation of PrepareBlindedToken: nothing is cached.
PrepareAnew(r, key) ==
    /\ counts.tokens < MaxTokens
    /\ counts' = [counts EXCEPT !.tokens = @ + 1]
    /\ blind' = [blind EXCEPT !.round = r, !.token = counts.tokens + 1,
                              !.cached = counts.tokens + 1, !.key = key]
    /\ ghost' = [ghost EXCEPT !.gaveUp = IF blind.round = r THEN @ ELSE GiveUp]

\* prepareBlindedToken: one token for a round, until it is wiped or another round
\* asks for one.  A key that cannot be read makes it throw when the round and the
\* key pair are replaced and the rest, of the round before, is not.  The signature
\* of the round before stays in any case.
PrepareBlindedToken(r, key) ==
    IF IsPrepared(r) THEN UNCHANGED <<blind, counts, ghost>>
    ELSE LET token == counts.tokens + 1
             kept == [blind EXCEPT !.round = r, !.token = token]
         IN
         /\ counts.tokens < MaxTokens
         /\ counts' = [counts EXCEPT !.tokens = token]
         /\ blind' = IF key = Unreadable THEN kept
                     ELSE [kept EXCEPT !.cached = token, !.key = key]
         /\ ghost' = [ghost EXCEPT
                !.gaveUp = IF blind.round = r THEN @ ELSE GiveUp,
                !.mixed = IF key = Unreadable \/ blind.signature # NoSignature
                          THEN @ \cup {r} ELSE @]

\* checkAuthorization; without a key it leaves everything as it is.
CheckAuthorization(r, key) ==
    IF key = None THEN UNCHANGED <<auth, blind, counts, ghost>>
    ELSE IF IsAuthorized(r)
    THEN auth' = [at |-> "authorized"] /\ UNCHANGED <<blind, counts, ghost>>
    ELSE /\ PrepareBlindedToken(r, key)
         /\ auth' = IF ~IsPrepared(r) /\ key = Unreadable THEN [at |-> "error"]
                    ELSE [at |-> "required", round |-> r, token |-> blind'.cached]

\* The observer of the screen, a round's or another.
Observe ==
    /\ unseen
    /\ unseen' = FALSE
    /\ IF screen.at = "active" THEN CheckAuthorization(screen.round, screen.key)
       ELSE auth' = [at |-> "idle"] /\ UNCHANGED <<blind, counts, ghost>>
    /\ UNCHANGED <<server, link, screen, writing, tasks>>

RetryAuthorization ==
    /\ MainIsFree
    /\ auth.at = "error"
    /\ screen.at = "active"
    /\ CheckAuthorization(screen.round, screen.key)
    /\ UNCHANGED <<server, link, memory, tasks>>

\* authorizeIdentity: the payload is built and the fingerprint asked for ...
AuthorizeIdentity(j) ==
    /\ jobs[j] = Quiet
    /\ MainIsFree
    /\ auth.at = "required"
    /\ enrolled
    /\ jobs' = [jobs EXCEPT ![j] = [at |-> "prompt", round |-> auth.round, token |-> auth.token]]
    /\ UNCHANGED <<server, link, memory, auth, blind, current, counts, ghost>>

\* ... then submitSignature looks at the state again: the payload goes out if any
\* round, not only its own, waits for an authorization.
SubmitSignature(j) ==
    /\ jobs[j].at = "prompt"
    /\ MainIsFree
    /\ IF auth.at = "required" /\ enrolled
       THEN /\ auth' = [at |-> "authorizing"]
            /\ jobs' = [jobs EXCEPT ![j] = [at |-> "signing", round |-> @.round,
                                            token |-> @.token, for |-> auth.round]]
       ELSE Ends(j) /\ UNCHANGED auth
    /\ UNCHANGED <<server, link, memory, blind, current, counts, ghost>>

RefuseFingerprint(j) ==
    /\ jobs[j].at = "prompt"
    /\ MainIsFree
    /\ Ends(j)
    /\ UNCHANGED <<server, link, memory, auth, blind, current, counts, ghost>>

\* authorize_vote signs one token for a legislator in a secret round, open or not.
MaySign(r, token) == r \notin Nominal /\ signed[r] \in {None, token}
Sign(r, token) == signed' = [signed EXCEPT ![r] = token]

\* The answer: setAuthorizedPayload compares rounds, not tokens, and the state is
\* written whatever it compares.
Authorize(j) ==
    LET job == jobs[j] IN
    /\ job.at = "signing"
    /\ MainIsFree
    /\ MaySign(job.round, job.token) /\ Sign(job.round, job.token)
    /\ Ends(j)
    /\ auth' = [at |-> "authorized"]
    /\ blind' = IF job.for = blind.round
                THEN [blind EXCEPT !.signature = [of |-> job.token, by |-> job.round]]
                ELSE blind
    /\ ghost' = [ghost EXCEPT !.mixed = IF job.round = blind.round THEN @
                                        ELSE @ \cup ({blind.round} \ {None})]
    /\ UNCHANGED <<status, sessionKey, recorded, broadcasting, link, memory, current, counts>>

\* It is refused, or the request or its answer is lost.
AuthorizationFails(j) ==
    LET job == jobs[j] IN
    /\ job.at = "signing"
    /\ MainIsFree
    /\ \/ ~MaySign(job.round, job.token) /\ UNCHANGED <<signed, counts>>
       \/ MaySign(job.round, job.token) /\ Sign(job.round, job.token) /\ Fault
       \/ Fault /\ UNCHANGED signed
    /\ Ends(j)
    /\ auth' = [at |-> "error"]
    /\ UNCHANGED <<status, sessionKey, recorded, broadcasting, link, memory, blind,
                   current, ghost>>

-----------------------------------------------------------------------------
(* Voting.                                                                 *)

\* Mutation of WipeVolatileMemory: the signature is forgotten.
WipeAllButSignature ==
    /\ blind' = [NoMaterial EXCEPT !.signature = blind.signature]
    /\ ghost' = [ghost EXCEPT !.gaveUp = GiveUp]

WipeVolatileMemory == blind' = NoMaterial /\ ghost' = [ghost EXCEPT !.gaveUp = GiveUp]

Submit(j, kind, valid) ==
    jobs' = [jobs EXCEPT ![j] =
                [at |-> "sent", kind |-> kind, round |-> screen.round, valid |-> valid]]

\* The buttons are enabled for an authorized terminal, in a nominal round too, and
\* while a vote is under way.
MayVote(j) ==
    /\ jobs[j] = Quiet
    /\ MainIsFree
    /\ enrolled
    /\ screen.at = "active" /\ screen.open
    /\ auth.at = "authorized"

SubmitNominalVote(j) ==
    /\ MayVote(j)
    /\ screen.round \in Nominal
    /\ Submit(j, "nominal", TRUE)
    /\ UNCHANGED <<server, link, memory, auth, blind, current, counts, ghost>>

\* generateAnonymousPayload throws without a signature, a factor or a key that can
\* be read, and asks for no more: the ballot is valid if the round's key was used to
\* blind, to sign and to unblind this token.
SubmitSecretVote(j) ==
    /\ MayVote(j)
    /\ screen.round \notin Nominal
    /\ screen.key # None
    /\ IF blind.signature = NoSignature \/ blind.key = None \/ screen.key = Unreadable
       THEN WipeVolatileMemory /\ UNCHANGED jobs
       ELSE /\ Submit(j, "secret",
                 /\ blind.signature = [of |-> blind.token, by |-> screen.round]
                 /\ blind.cached = blind.token
                 /\ blind.key = screen.round
                 /\ screen.key = screen.round)
            /\ UNCHANGED <<blind, ghost>>
    /\ UNCHANGED <<server, link, memory, auth, current, counts>>

SubmitTieBreakerVote(j) ==
    /\ jobs[j] = Quiet
    /\ MainIsFree
    /\ enrolled
    /\ screen.at = "tieBreak"
    /\ Submit(j, "tie", TRUE)
    /\ UNCHANGED <<server, link, memory, auth, blind, current, counts, ghost>>

\* A second ballot of a secret round would be of the same token.
Acceptable(vote) ==
    IF vote.kind = "tie" THEN status[vote.round] = "TIED"
    ELSE status[vote.round] = "VOTING_OPEN" /\ vote.valid /\ vote.round \notin recorded

Record(vote) ==
    IF vote.kind = "tie"
    THEN status' = [status EXCEPT ![vote.round] = "RESOLVED"] /\ UNCHANGED recorded
    ELSE recorded' = recorded \cup {vote.round} /\ UNCHANGED status

\* The three vote endpoints commit before they answer.
CastVote(j) ==
    /\ jobs[j].at = "sent"
    /\ Acceptable(jobs[j]) /\ Record(jobs[j])
    /\ jobs' = [jobs EXCEPT ![j].at = "accepted"]
    /\ UNCHANGED <<sessionKey, signed, broadcasting, link, memory, auth, blind,
                   current, counts, ghost>>

\* The vote is refused, or the request or its answer is lost: the material of a
\* secret ballot is wiped all the same.
VoteFails(j) ==
    /\ MainIsFree
    /\ \/ jobs[j].at = "sent" /\ ~Acceptable(jobs[j]) /\ UNCHANGED counts
       \/ jobs[j].at \in {"sent", "accepted"} /\ Fault
    /\ Ends(j)
    /\ IF jobs[j].kind = "secret" THEN WipeVolatileMemory ELSE UNCHANGED <<blind, ghost>>
    /\ UNCHANGED <<server, link, memory, auth, current>>

\* Mutation of Submitted: any answer will do.
Answered(vote) == vote.at \in {"sent", "accepted"}

Submitted(vote) == vote.at = "accepted"

\* markVoteSubmitted and markTieBreakerSubmitted lock what the screen shows.
VoteSubmitted(j) ==
    LET vote == jobs[j]
        tie == vote.kind = "tie"
        ballot == vote.kind = "secret"
    IN
    /\ MainIsFree
    /\ Submitted(vote)
    /\ IF screen.at = (IF tie THEN "tieBreak" ELSE "active")
       THEN Decide([screen EXCEPT !.at = IF tie THEN "tieLocked" ELSE "locked"])
       ELSE UNCHANGED writing
    /\ blind' = IF ballot THEN NoMaterial ELSE blind
    /\ ghost' = [ghost EXCEPT !.gaveUp = IF ballot THEN GiveUp ELSE @,
                              !.mistaken = @ \cup ({screen.round} \ {None, vote.round})]
    /\ Ends(j)
    /\ UNCHANGED <<server, link, screen, unseen, auth, current, counts>>

-----------------------------------------------------------------------------
RoundRequest(r) ==
    OpenRound(r) \/ CloseRound(r) \/ ProclaimRound(r) \/ RectifyRound(r)

Screens ==
    \/ FetchCurrent \/ ApplyCurrent \/ Write
    \/ \E i \in 1 .. Len(broadcasting) : Broadcast(i)
    \/ ExecuteWipeProtocol
    \/ LoseConnection \/ Reconnect \/ Restart

Authorizing(j) ==
    \/ AuthorizeIdentity(j) \/ RefuseFingerprint(j) \/ SubmitSignature(j)
    \/ Authorize(j) \/ AuthorizationFails(j)

Voting(j) ==
    \/ SubmitNominalVote(j) \/ SubmitSecretVote(j) \/ SubmitTieBreakerVote(j)
    \/ CastVote(j) \/ VoteSubmitted(j) \/ VoteFails(j)

Next ==
    \/ \E r \in Rounds : RoundRequest(r)
    \/ \E key \in SessionKeys : SetSessionKey(key)
    \/ Screens
    \/ Observe \/ RetryAuthorization
    \/ \E j \in Jobs : Authorizing(j) \/ Voting(j)

Spec == Init /\ [][Next]_vars

-----------------------------------------------------------------------------
(* Properties.                                                             *)

\* Type invariant: the rounds, the connection and the terminal's memory.
TypeOK ==
    /\ status \in [Rounds -> RoundStatus]
    /\ sessionKey \in SessionKeys
    /\ signed \in [Rounds -> Token \cup {None}]
    /\ recorded \subseteq Rounds
    /\ broadcasting \in Seq(Event)
    /\ connected \in BOOLEAN /\ enrolled \in BOOLEAN
    /\ screen \in Screen \ {NoWrite}
    /\ writing \in Screen
    /\ unseen \in BOOLEAN
    /\ auth \in AuthorizationState
    /\ blind \in Material
    /\ current \in Screen
    /\ jobs \in [Jobs -> Job]
    /\ counts \in [tokens: 0 .. MaxTokens, faults: 0 .. MaxFaults,
                   requests: 0 .. MaxRequests, starts: 0 .. MaxStarts]
    /\ ghost \in Ghosts

\* A terminal that was told to wipe itself shows nothing else until its process
\* ends, unless the wipe came between the check and the write of another thread
\* (updateState: "once revoked, we do not transition to any other state").
RevokedIsFinal ==
    [][screen.at = "revoked" /\ ~ghost.overtaken => screen'.at = "revoked"]_vars

\* A round shown as voted has this terminal's vote, or was decided by it, unless
\* another round was on the screen when the submission began (submitVote,
\* submitTieBreakerVote).
LockedIsRecorded ==
    /\ screen.at = "locked" => screen.round \in recorded \cup ghost.mistaken
    /\ screen.at = "tieLocked" =>
        status[screen.round] = "RESOLVED" \/ screen.round \in ghost.mistaken

\* Once every event has arrived, a terminal that invites to vote shows a round that
\* is open, unless an event was missed, two came in the wrong order, or an older
\* answer to GET /current was written over them.
InvitesOnlyToOpen ==
    broadcasting = <<>> /\ ~ghost.stale /\ screen.at = "active" /\ screen.open =>
        status[screen.round] = "VOTING_OPEN"

\* The server signs one token for a voter in a round: the terminal still has it
\* and its key pair, unless it gave the round's material up; only the key pair is
\* lost in a round that was prepared with a key that cannot be read.
SignedTokenIsKept ==
    \A r \in Rounds : signed[r] # None =>
        \/ r \in ghost.gaveUp
        \/ /\ blind.round = r /\ blind.cached = signed[r]
           /\ blind.token = signed[r] \/ r \in ghost.mixed

\* A terminal that shows itself authorized for a round has a signature of this
\* round's token, unless it gave the round's material up or mixed it with another's.
AuthorizedHasSignature ==
    auth.at = "authorized" /\ ~unseen /\ screen.at = "active" /\ screen.key # None =>
        \/ screen.round \in ghost.gaveUp \cup ghost.mixed
        \/ /\ blind.round = screen.round
           /\ blind.signature = [of |-> blind.token, by |-> screen.round]

\* The material of a secret vote is kept from the first phase to the second by the
\* repeated and the late steps of one round; given up for another round's, at the
\* end of a ballot or with the process, or mixed with another round's, it need not
\* be (prepareBlindedToken, isAuthorized, setAuthorizedPayload).
MaterialIsKept == SignedTokenIsKept /\ AuthorizedHasSignature
=============================================================================
