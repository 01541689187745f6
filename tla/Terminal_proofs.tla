---------------------------- MODULE Terminal_proofs ----------------------------
(***************************************************************************)
(* Theorems about Terminal, for any number of rounds, tokens, faults and   *)
(* requests, and any number of submissions under way: what the terminal's  *)
(* threads may rely on when they wake, whatever the others did meanwhile.  *)
(***************************************************************************)
EXTENDS Terminal, SequenceTheorems, TLAPS

ProperScreen(s) == s.at \in {"active", "locked", "tieBreak", "tieLocked"} => s.round \in Rounds

\* What the threads show, write and fetch is a round where it has to be.
ScreensInv ==
    /\ ProperScreen(screen) /\ ProperScreen(writing) /\ ProperScreen(current)
    /\ writing.at \in {"none", "idle", "active", "locked", "tieLocked"}
    /\ current.at \in {"none", "idle", "active"}

\* A round shown, or about to be shown, as voted was voted.
Justified(s) ==
    /\ s.at = "locked" => s.round \in recorded \cup ghost.mistaken
    /\ s.at = "tieLocked" => status[s.round] = "RESOLVED" \/ s.round \in ghost.mistaken

\* An accepted vote is one the server has.
AcceptedIsDone(j) ==
    jobs[j].at = "accepted" =>
        IF jobs[j].kind = "tie" THEN status[jobs[j].round] = "RESOLVED"
        ELSE jobs[j].round \in recorded

VotesInv ==
    /\ Justified(screen) /\ Justified(writing)
    /\ \A j \in Jobs : AcceptedIsDone(j)

RevocationInv ==
    /\ connected => enrolled
    /\ screen.at = "revoked" => ~enrolled /\ (ghost.overtaken \/ writing = NoWrite)

\* A round shown as open is open, or an event that ends it is on its way; so will
\* be the rounds whose opening is on its way.
InvitationsInv ==
    ~ghost.stale =>
        /\ screen.at = "active" /\ screen.open =>
            \/ status[screen.round] = "VOTING_OPEN"
            \/ \E k \in 1 .. Len(broadcasting) : broadcasting[k].type # "OPENED"
        /\ \A j \in 1 .. Len(broadcasting) :
            broadcasting[j].type = "OPENED" =>
                \/ status[broadcasting[j].round] = "VOTING_OPEN"
                \/ \E k \in 1 .. Len(broadcasting) : k > j /\ broadcasting[k].type # "OPENED"

\* A token for a round is the blinded one, and its round that of the memory, until
\* the round's material is given up.
Owns(r, t) == r \in ghost.gaveUp \/ (blind.round = r /\ blind.cached = t)

SignedIsOwned == \A r \in Rounds : signed[r] # None => Owns(r, signed[r])

\* What the voter is asked to authorize is in the memory.
RequiredIsHeld ==
    auth.at = "required" =>
        \/ blind = NoMaterial /\ auth.round \in ghost.gaveUp
        \/ blind.round = auth.round /\ blind.cached = auth.token

\* So is what is under way, and it is sent for its own round.
JobIsOwned(j) ==
    /\ jobs[j].at \in {"prompt", "signing"} => Owns(jobs[j].round, jobs[j].token)
    /\ jobs[j].at = "signing" =>
            jobs[j].for = jobs[j].round \/ jobs[j].round \in ghost.gaveUp

\* Key pair, blinded token and signature belong together in a round that was neither
\* given up nor mixed with another.
MaterialIsWhole ==
    /\ blind.cached = blind.token \/ blind.round \in ghost.mixed
    /\ \/ blind.signature = NoSignature
       \/ blind.signature = [of |-> blind.token, by |-> blind.round]
       \/ blind.round \in ghost.gaveUp \cup ghost.mixed

MaterialInv ==
    /\ SignedIsOwned /\ RequiredIsHeld /\ MaterialIsWhole
    /\ \A j \in Jobs : JobIsOwned(j)

\* The observer has prepared what the screen asks for.
Observed == ~unseen /\ screen.at = "active" /\ screen.key # None

AuthorizationInv ==
    Observed =>
        /\ \/ blind.round = screen.round
           \/ blind = NoMaterial /\ screen.round \in ghost.gaveUp
        /\ auth.at = "authorized" =>
            \/ screen.round \in ghost.gaveUp \cup ghost.mixed
            \/ /\ blind.round = screen.round
               /\ blind.signature = [of |-> blind.token, by |-> screen.round]

\* What every thread relies on: types, and the parts above.
IInv ==
    /\ TypeOK /\ ScreensInv /\ VotesInv /\ RevocationInv /\ InvitationsInv
    /\ MaterialInv /\ AuthorizationInv

-----------------------------------------------------------------------------
(* Sequences and types.                                                    *)

\* Removing an event keeps the others in their order.
LEMMA RemoveAtProperties ==
    ASSUME NEW S, NEW s \in Seq(S), NEW i \in 1 .. Len(s)
    PROVE  /\ RemoveAt(s, i) \in Seq(S)
           /\ Len(RemoveAt(s, i)) = Len(s) - 1
           /\ \A j \in 1 .. Len(s) - 1 : RemoveAt(s, i)[j] = s[IF j < i THEN j ELSE j + 1]
<1> DEFINE before == SubSeq(s, 1, i - 1)
           after == SubSeq(s, i + 1, Len(s))
<1>1. /\ before \in Seq(S) /\ Len(before) = i - 1
      /\ \A j \in 1 .. i - 1 : before[j] = s[j]
    OBVIOUS
<1>2. /\ after \in Seq(S) /\ Len(after) = Len(s) - i
      /\ \A j \in 1 .. Len(s) - i : after[j] = s[i + j]
    <2>1. Len(s) \in Nat /\ i \in Nat /\ i + 1 \in Int /\ i <= Len(s)
        OBVIOUS
    <2>2. \A k \in i + 1 .. Len(s) : s[k] \in S
        OBVIOUS
    <2>3. /\ after \in Seq(S)
          /\ Len(after) = IF i + 1 <= Len(s) THEN Len(s) - (i + 1) + 1 ELSE 0
          /\ \A j \in 1 .. Len(s) - (i + 1) + 1 : after[j] = s[(i + 1) + j - 1]
        BY <2>1, <2>2, SubSeqProperties, SMTT(30)
    <2> HIDE DEF after
    <2>4. Len(after) = Len(s) - i
        BY <2>1, <2>3
    <2>5. ASSUME NEW j \in 1 .. Len(s) - i
          PROVE  after[j] = s[i + j]
        <3>1. (i + 1) + j - 1 = i + j /\ j \in 1 .. Len(s) - (i + 1) + 1
            BY <2>1
        <3> QED
            BY <2>3, <3>1
    <2> QED
        BY <2>3, <2>4, <2>5
<1> HIDE DEF before, after
<1>3. /\ before \o after \in Seq(S)
      /\ Len(before \o after) = Len(before) + Len(after)
      /\ \A j \in 1 .. Len(before) + Len(after) :
            (before \o after)[j] = IF j <= Len(before) THEN before[j] ELSE after[j - Len(before)]
    <2>1. before \in Seq(S) /\ after \in Seq(S)
        BY <1>1, <1>2
    <2> QED
        BY <2>1, ConcatProperties, Zenon
<1>4. ASSUME NEW j \in 1 .. Len(s) - 1
      PROVE  (before \o after)[j] = s[IF j < i THEN j ELSE j + 1]
    BY <1>1, <1>2, <1>3, SMTT(30)
<1>5. Len(before \o after) = Len(s) - 1
    <2>1. Len(before) = i - 1 /\ Len(after) = Len(s) - i /\ Len(s) \in Nat /\ i \in Nat
        BY <1>1, <1>2
    <2> QED
        BY <1>3, <2>1
<1>6. RemoveAt(s, i) = before \o after
    BY DEF RemoveAt, before, after
<1> QED
    BY <1>3, <1>4, <1>5, <1>6

USE TerminalAssumption

LEMMA ConstantScreens ==
    /\ NoWrite \in Screen
    /\ \A at \in {"idle", "tied", "revoked"} : Blank(at) \in Screen \ {NoWrite}
    /\ \A r \in Rounds : [Blank("tieBreak") EXCEPT !.round = r] \in Screen \ {NoWrite}
    /\ \A r \in Rounds, k \in Key : Active(r, k) \in Screen \ {NoWrite}
BY DEF NoWrite, Blank, Screen, Key, Active

LEMMA ShownType ==
    ASSUME TypeOK, NEW e \in Event
    PROVE  Shown(e) \in Screen \ {NoWrite}
<1>1. screen \in Screen \ {NoWrite}
    BY DEF TypeOK
<1>2. CASE e.type = "CLOSED"
    BY <1>1, <1>2 DEF Shown, Screen, NoWrite, Blank
<1>3. CASE e.type # "CLOSED"
    <2>1. KeyOfEvent(e) \in Key
        BY DEF KeyOfEvent, Event, Key
    <2> QED
        BY <1>3, <2>1, ConstantScreens DEF Shown, Event
<1> QED
    BY <1>2, <1>3

LEMMA ByState ==
    ASSUME TypeOK
    PROVE  /\ auth.at = "required" => auth.round \in Rounds /\ auth.token \in Token
           /\ \A j \in Jobs :
                /\ jobs[j] = Quiet <=> jobs[j].at = "quiet"
                /\ jobs[j].at \in {"prompt", "signing"} =>
                        jobs[j].round \in Rounds /\ jobs[j].token \in Token
                /\ jobs[j].at = "signing" => jobs[j].for \in Rounds
                /\ jobs[j].at \in {"sent", "accepted"} => jobs[j] \in Vote
<1>1. auth.at = "required" => auth.round \in Rounds /\ auth.token \in Token
    BY DEF TypeOK, AuthorizationState
<1>2. \A j \in Jobs : jobs[j] \in Job
    BY DEF TypeOK
<1> QED
    BY <1>1, <1>2 DEF Job, Vote, Signing, Quiet

\* A job that ends, or becomes another, leaves the others.
LEMMA JobType ==
    ASSUME TypeOK, NEW j \in Jobs, NEW job \in Job, jobs' = [jobs EXCEPT ![j] = job]
    PROVE  /\ jobs' \in [Jobs -> Job] /\ jobs'[j] = job
           /\ \A k \in Jobs \ {j} : jobs'[k] = jobs[k]
BY DEF TypeOK

LEMMA EndsType ==
    ASSUME TypeOK, NEW j \in Jobs, Ends(j)
    PROVE  /\ jobs' \in [Jobs -> Job] /\ jobs'[j] = Quiet
           /\ \A k \in Jobs \ {j} : jobs'[k] = jobs[k]
BY DEF TypeOK, Ends, Job

\* What the memory holds: nothing, or a key pair for a round, with what was blinded
\* and signed.
LEMMA MaterialByRound ==
    ASSUME TypeOK
    PROVE  /\ blind.round = None <=> blind = NoMaterial
           /\ blind.round \in Rounds =>
                blind \in [round: Rounds, token: Token, cached: Token \cup {None},
                           key: Rounds \cup {None},
                           signature: {NoSignature} \cup [of: Token, by: Rounds]]
           /\ blind.round \in Rounds \cup {None}
BY DEF TypeOK, Material, NoMaterial

LEMMA GiveUpType ==
    ASSUME TypeOK
    PROVE  /\ ghost.gaveUp \subseteq GiveUp /\ GiveUp \subseteq Rounds
           /\ blind.round # None => blind.round \in GiveUp
BY MaterialByRound DEF GiveUp, TypeOK, Ghosts

LEMMA RequestType ==
    ASSUME TypeOK, Request
    PROVE  counts' \in [tokens: 0 .. MaxTokens, faults: 0 .. MaxFaults,
                        requests: 0 .. MaxRequests, starts: 0 .. MaxStarts]
<1>1. counts \in [tokens: 0 .. MaxTokens, faults: 0 .. MaxFaults,
                  requests: 0 .. MaxRequests, starts: 0 .. MaxStarts]
    BY DEF TypeOK
<1>2. counts.requests + 1 \in 0 .. MaxRequests
    BY <1>1 DEF Request
<1> QED
    BY <1>1, <1>2 DEF Request

LEMMA CommitType ==
    ASSUME TypeOK, NEW r \in Rounds, NEW st \in RoundStatus,
           NEW type \in {"OPENED", "CLOSED", "TIED", "ENDED"}, Commit(r, st, type)
    PROVE  TypeOK'
<1> DEFINE e == [type |-> type, round |-> r, key |-> IF type = "OPENED" THEN sessionKey ELSE None]
<1>1. e \in Event
    BY DEF TypeOK, Event, Key
<1>2. Append(broadcasting, e) \in Seq(Event)
    BY <1>1 DEF TypeOK
<1> HIDE DEF e
<1>3. counts' \in [tokens: 0 .. MaxTokens, faults: 0 .. MaxFaults,
                   requests: 0 .. MaxRequests, starts: 0 .. MaxStarts]
    BY RequestType DEF Commit
<1>4. status' \in [Rounds -> RoundStatus]
    BY DEF TypeOK, Commit
<1>5. broadcasting' \in Seq(Event)
    BY <1>2 DEF Commit, e
<1> QED
    BY <1>3, <1>4, <1>5 DEF TypeOK, Commit, link, memory, tasks

LEMMA FaultType ==
    ASSUME TypeOK, Fault
    PROVE  counts' \in [tokens: 0 .. MaxTokens, faults: 0 .. MaxFaults,
                        requests: 0 .. MaxRequests, starts: 0 .. MaxStarts]
<1>1. counts \in [tokens: 0 .. MaxTokens, faults: 0 .. MaxFaults,
                  requests: 0 .. MaxRequests, starts: 0 .. MaxStarts]
    BY DEF TypeOK
<1>2. counts.faults + 1 \in 0 .. MaxFaults
    BY <1>1 DEF Fault
<1> QED
    BY <1>1, <1>2 DEF Fault

LEMMA WipeType ==
    ASSUME TypeOK, WipeVolatileMemory
    PROVE  blind' \in Material /\ ghost' \in Ghosts
BY GiveUpType DEF TypeOK, Ghosts, Material, WipeVolatileMemory

LEMMA PrepareType ==
    ASSUME TypeOK, NEW r \in Rounds, NEW key \in Rounds \cup {Unreadable},
           PrepareBlindedToken(r, key)
    PROVE  /\ blind' \in Material /\ ghost' \in Ghosts
           /\ blind'.round = r /\ blind'.token \in Token
           /\ IsPrepared(r) \/ key # Unreadable => blind'.cached \in Token
           /\ counts' \in [tokens: 0 .. MaxTokens, faults: 0 .. MaxFaults,
                           requests: 0 .. MaxRequests, starts: 0 .. MaxStarts]
<1>1. ghost \in Ghosts /\ blind \in Material
    BY DEF TypeOK
<1>2. CASE IsPrepared(r)
    <2>1. UNCHANGED <<blind, counts, ghost>> /\ blind.round = r /\ blind.cached # None
        BY <1>2 DEF PrepareBlindedToken, IsPrepared
    <2> QED
        BY <1>1, <2>1, MaterialByRound DEF TypeOK
<1>3. CASE ~IsPrepared(r)
    <2> DEFINE t == counts.tokens + 1
               kept == [blind EXCEPT !.round = r, !.token = t]
               mixed == IF key = Unreadable \/ blind.signature # NoSignature
                        THEN ghost.mixed \cup {r} ELSE ghost.mixed
    <2>1. /\ counts.tokens < MaxTokens /\ counts' = [counts EXCEPT !.tokens = t]
          /\ blind' = IF key = Unreadable THEN kept
                      ELSE [kept EXCEPT !.cached = t, !.key = key]
          /\ ghost' = [ghost EXCEPT !.gaveUp = IF blind.round = r THEN @ ELSE GiveUp,
                                    !.mixed = mixed]
        BY <1>3 DEF PrepareBlindedToken, TypeOK, Ghosts
    <2>2. t \in Token
        BY <2>1 DEF TypeOK, Token
    <2> HIDE DEF t
    <2>3. counts' \in [tokens: 0 .. MaxTokens, faults: 0 .. MaxFaults,
                       requests: 0 .. MaxRequests, starts: 0 .. MaxStarts]
        BY <2>1, <2>2 DEF TypeOK, Token
    <2>4. kept \in [round: Rounds, token: Token, cached: Token \cup {None},
                    key: Rounds \cup {None},
                    signature: {NoSignature} \cup [of: Token, by: Rounds]]
        <3>1. CASE blind = NoMaterial
            BY <2>2, <3>1 DEF NoMaterial
        <3>2. CASE blind # NoMaterial
            BY <1>1, <2>2, <3>2 DEF Material
        <3> QED
            BY <3>1, <3>2
    <2>5. kept.round = r /\ kept.token = t
        BY <1>1 DEF Material, NoMaterial
    <2> HIDE DEF kept
    <2>6. /\ blind' \in [round: Rounds, token: Token, cached: Token \cup {None},
                         key: Rounds \cup {None},
                         signature: {NoSignature} \cup [of: Token, by: Rounds]]
          /\ blind'.round = r /\ blind'.token \in Token
          /\ key # Unreadable => blind'.cached \in Token
        BY <2>1, <2>2, <2>4, <2>5
    <2>7. mixed \subseteq Rounds
        BY <1>1 DEF Ghosts
    <2> HIDE DEF mixed
    <2>8. ghost' \in Ghosts
        BY <1>1, <2>1, <2>7, GiveUpType DEF Ghosts
    <2> QED
        BY <1>3, <2>3, <2>6, <2>8 DEF Material
<1> QED
    BY <1>2, <1>3

LEMMA CheckType ==
    ASSUME TypeOK, ScreensInv, screen.at = "active", CheckAuthorization(screen.round, screen.key)
    PROVE  /\ auth' \in AuthorizationState /\ blind' \in Material /\ ghost' \in Ghosts
           /\ counts' \in [tokens: 0 .. MaxTokens, faults: 0 .. MaxFaults,
                           requests: 0 .. MaxRequests, starts: 0 .. MaxStarts]
<1>1. screen.round \in Rounds /\ screen.key \in Key
    BY DEF ScreensInv, ProperScreen, TypeOK, Screen
<1>2. CASE screen.key = None
    BY <1>2 DEF CheckAuthorization, TypeOK
<1>3. CASE screen.key # None /\ IsAuthorized(screen.round)
    BY <1>3 DEF CheckAuthorization, TypeOK, AuthorizationState
<1>4. CASE screen.key # None /\ ~IsAuthorized(screen.round)
    <2>1. PrepareBlindedToken(screen.round, screen.key)
        BY <1>4 DEF CheckAuthorization
    <2>2. screen.key \in Rounds \cup {Unreadable}
        BY <1>1, <1>4 DEF Key
    <2>3. CASE ~IsPrepared(screen.round) /\ screen.key = Unreadable
        BY <1>1, <1>4, <2>1, <2>2, <2>3, PrepareType DEF CheckAuthorization, AuthorizationState
    <2>4. CASE IsPrepared(screen.round) \/ screen.key # Unreadable
        <3>1. auth' = [at |-> "required", round |-> screen.round, token |-> blind'.cached]
            BY <1>4, <2>4 DEF CheckAuthorization
        <3>2. blind'.cached \in Token
            BY <1>1, <2>1, <2>2, <2>4, PrepareType
        <3>3. auth' \in AuthorizationState
            BY <1>1, <3>1, <3>2 DEF AuthorizationState
        <3> QED
            BY <1>1, <2>1, <2>2, <3>3, PrepareType
    <2> QED
        BY <2>3, <2>4
<1> QED
    BY <1>2, <1>3, <1>4

LEMMA InitType == Init => TypeOK
<1> SUFFICES ASSUME Init
             PROVE  TypeOK
    OBVIOUS
<1>1. broadcasting \in Seq(Event)
    BY DEF Init
<1>2. screen \in Screen \ {NoWrite} /\ writing \in Screen /\ current \in Screen
    BY ConstantScreens DEF Init
<1>3. counts \in [tokens: 0 .. MaxTokens, faults: 0 .. MaxFaults,
                  requests: 0 .. MaxRequests, starts: 0 .. MaxStarts]
    BY DEF Init
<1>4. ghost \in Ghosts
    BY DEF Init, Ghosts
<1> QED
    BY <1>1, <1>2, <1>3, <1>4
    DEF Init, TypeOK, RoundStatus, AuthorizationState, Material, Job

LEMMA SessionKeyType ==
    ASSUME TypeOK, NEW key \in SessionKeys, SetSessionKey(key)
    PROVE  TypeOK'
BY RequestType DEF SetSessionKey, TypeOK, link, memory, tasks

LEMMA RoundType ==
    ASSUME TypeOK, NEW r \in Rounds, RoundRequest(r)
    PROVE  TypeOK'
BY CommitType DEF RoundRequest, OpenRound, CloseRound, ProclaimRound, RectifyRound, RoundStatus

LEMMA ScreensType ==
    ASSUME TypeOK, ScreensInv, Screens
    PROVE  TypeOK'
<1> USE DEF server, link, memory, tasks
<1>1. CASE FetchCurrent
    <2>1. sessionKey \in Key
        BY DEF TypeOK, Key
    <2>2. current' \in Screen
        <3>1. CASE \E r \in Rounds : status[r] = "VOTING_OPEN"
            <4> DEFINE r == CHOOSE q \in Rounds : status[q] = "VOTING_OPEN"
            <4>1. r \in Rounds
                BY <3>1
            <4>2. current' = Active(r, sessionKey)
                BY <1>1, <3>1 DEF FetchCurrent
            <4> HIDE DEF r
            <4> QED
                BY <4>1, <4>2, <2>1, ConstantScreens DEF Key
        <3>2. CASE ~\E r \in Rounds : status[r] = "VOTING_OPEN"
            BY <1>1, <3>2, ConstantScreens DEF FetchCurrent
        <3> QED
            BY <3>1, <3>2
    <2>3. counts' \in [tokens: 0 .. MaxTokens, faults: 0 .. MaxFaults,
                       requests: 0 .. MaxRequests, starts: 0 .. MaxStarts]
        BY <1>1 DEF TypeOK, FetchCurrent
    <2> QED
        BY <1>1, <2>2, <2>3 DEF TypeOK, FetchCurrent
<1>2. CASE ApplyCurrent
    <2>1. writing' \in Screen
        BY <1>2 DEF ApplyCurrent, Decide, TypeOK
    <2>2. counts' \in [tokens: 0 .. MaxTokens, faults: 0 .. MaxFaults,
                       requests: 0 .. MaxRequests, starts: 0 .. MaxStarts]
        BY <1>2, FaultType DEF ApplyCurrent, TypeOK
    <2>3. current' \in Screen
        BY <1>2, ConstantScreens DEF ApplyCurrent
    <2> QED
        BY <1>2, <2>1, <2>2, <2>3 DEF ApplyCurrent, TypeOK
<1>3. CASE Write
    <2>1. ghost' \in Ghosts
        BY <1>3 DEF Write, TypeOK, Ghosts
    <2>2. screen' \in Screen \ {NoWrite} /\ unseen' \in BOOLEAN
        BY <1>3 DEF Write, Show, TypeOK
    <2>3. writing' \in Screen
        BY <1>3, ConstantScreens DEF Write
    <2> QED
        BY <1>3, <2>1, <2>2, <2>3 DEF Write, TypeOK
<1>4. ASSUME NEW i \in 1 .. Len(broadcasting), Broadcast(i)
      PROVE  TypeOK'
    <2>1. broadcasting' \in Seq(Event)
        BY <1>4, RemoveAtProperties DEF Broadcast, TypeOK
    <2>2. broadcasting[i] \in Event
        BY DEF TypeOK
    <2>3. screen' \in Screen \ {NoWrite} /\ unseen' \in BOOLEAN
        BY <1>4, <2>2, ShownType DEF Broadcast, Show, TypeOK
    <2>4. ghost' \in Ghosts
        <3>1. (i > 1) \in BOOLEAN
            OBVIOUS
        <3> QED
            BY <1>4, <3>1 DEF Broadcast, TypeOK, Ghosts
    <2> QED
        BY <1>4, <2>1, <2>3, <2>4 DEF Broadcast, TypeOK
<1>5. CASE ExecuteWipeProtocol
    <2>1. ghost' \in Ghosts
        BY <1>5 DEF ExecuteWipeProtocol, TypeOK, Ghosts
    <2>2. screen' \in Screen \ {NoWrite} /\ unseen' \in BOOLEAN
        BY <1>5, ConstantScreens DEF ExecuteWipeProtocol, Show, TypeOK
    <2> QED
        BY <1>5, <2>1, <2>2 DEF ExecuteWipeProtocol, TypeOK
<1>6. CASE LoseConnection \/ Reconnect
    BY <1>6, FaultType DEF LoseConnection, Reconnect, TypeOK
<1>7. CASE Restart
    <2>1. ghost' \in Ghosts
        BY <1>7, GiveUpType DEF Restart, TypeOK, Ghosts
    <2> QED
        BY <1>7, <2>1, FaultType, ConstantScreens
        DEF Restart, TypeOK, AuthorizationState, Material, Job
<1> QED
    BY <1>1, <1>2, <1>3, <1>4, <1>5, <1>6, <1>7 DEF Screens

LEMMA CheckingType ==
    ASSUME TypeOK, ScreensInv, Observe \/ RetryAuthorization
    PROVE  TypeOK'
<1> USE DEF server, link, memory, tasks
<1>1. CASE Observe /\ screen.at = "active"
    BY <1>1, CheckType DEF Observe, TypeOK
<1>2. CASE Observe /\ screen.at # "active"
    <2>1. auth' \in AuthorizationState
        BY <1>2 DEF Observe, AuthorizationState
    <2> QED
        BY <1>2, <2>1 DEF Observe, TypeOK
<1>3. CASE RetryAuthorization
    BY <1>3, CheckType DEF RetryAuthorization, TypeOK
<1> QED
    BY <1>1, <1>2, <1>3

LEMMA AuthorizingType ==
    ASSUME TypeOK, NEW j \in Jobs, Authorizing(j)
    PROVE  TypeOK'
<1> USE DEF server, link, memory, tasks
<1>1. CASE AuthorizeIdentity(j)
    <2>1. [at |-> "prompt", round |-> auth.round, token |-> auth.token] \in Job
        BY <1>1, ByState DEF AuthorizeIdentity, Job, Signing
    <2> QED
        BY <1>1, <2>1, JobType DEF AuthorizeIdentity, TypeOK
<1>2. CASE SubmitSignature(j)
    <2>1. CASE auth.at = "required" /\ enrolled
        <3> DEFINE job == [at |-> "signing", round |-> jobs[j].round,
                           token |-> jobs[j].token, for |-> auth.round]
        <3>1. job \in Job
            BY <1>2, <2>1, ByState DEF SubmitSignature, Job, Signing
        <3>2. jobs' = [jobs EXCEPT ![j] = job] /\ auth' \in AuthorizationState
            BY <1>2, <2>1 DEF SubmitSignature, AuthorizationState, TypeOK
        <3> HIDE DEF job
        <3> QED
            BY <1>2, <3>1, <3>2, JobType DEF SubmitSignature, TypeOK
    <2>2. CASE ~(auth.at = "required" /\ enrolled)
        BY <1>2, <2>2, EndsType DEF SubmitSignature, TypeOK
    <2> QED
        BY <2>1, <2>2
<1>3. CASE RefuseFingerprint(j)
    BY <1>3, EndsType DEF RefuseFingerprint, TypeOK
<1>4. CASE Authorize(j)
    <2>1. jobs[j].round \in Rounds /\ jobs[j].token \in Token /\ jobs[j].for \in Rounds
        BY <1>4, ByState DEF Authorize
    <2>2. signed' \in [Rounds -> Token \cup {None}]
        BY <1>4, <2>1 DEF Authorize, Sign, TypeOK
    <2>3. blind' \in Material
        <3>1. CASE jobs[j].for = blind.round
            <4> DEFINE signature == [of |-> jobs[j].token, by |-> jobs[j].round]
            <4>1. signature \in [of: Token, by: Rounds]
                BY <2>1
            <4>2. blind' = [blind EXCEPT !.signature = signature]
                BY <1>4, <3>1 DEF Authorize
            <4> HIDE DEF signature
            <4> QED
                BY <2>1, <3>1, <4>1, <4>2, MaterialByRound DEF Material
        <3>2. CASE jobs[j].for # blind.round
            BY <1>4, <3>2 DEF Authorize, TypeOK
        <3> QED
            BY <3>1, <3>2
    <2>4. ghost' \in Ghosts
        BY <1>4, MaterialByRound DEF Authorize, TypeOK, Ghosts
    <2> QED
        BY <1>4, <2>2, <2>3, <2>4, EndsType DEF Authorize, TypeOK, AuthorizationState
<1>5. CASE AuthorizationFails(j)
    <2>1. jobs[j].round \in Rounds /\ jobs[j].token \in Token
        BY <1>5, ByState DEF AuthorizationFails
    <2>2. signed' \in [Rounds -> Token \cup {None}]
        BY <1>5, <2>1 DEF AuthorizationFails, Sign, TypeOK
    <2>3. counts' \in [tokens: 0 .. MaxTokens, faults: 0 .. MaxFaults,
                       requests: 0 .. MaxRequests, starts: 0 .. MaxStarts]
        BY <1>5, FaultType DEF AuthorizationFails, TypeOK
    <2> QED
        BY <1>5, <2>2, <2>3, EndsType DEF AuthorizationFails, TypeOK, AuthorizationState
<1> QED
    BY <1>1, <1>2, <1>3, <1>4, <1>5 DEF Authorizing

LEMMA SubmitType ==
    ASSUME TypeOK, ScreensInv, NEW j \in Jobs, NEW kind \in {"nominal", "secret", "tie"},
           NEW valid \in BOOLEAN, screen.at \in {"active", "tieBreak"}, Submit(j, kind, valid)
    PROVE  /\ jobs' \in [Jobs -> Job] /\ jobs'[j].at = "sent"
           /\ \A k \in Jobs \ {j} : jobs'[k] = jobs[k]
<1> DEFINE job == [at |-> "sent", kind |-> kind, round |-> screen.round, valid |-> valid]
<1>1. job \in Job
    BY DEF ScreensInv, ProperScreen, Job, Vote
<1>2. jobs' = [jobs EXCEPT ![j] = job] /\ job.at = "sent"
    BY DEF Submit
<1> HIDE DEF job
<1> QED
    BY <1>1, <1>2, JobType

\* A tap changes nothing but the job, or it wipes the material.
LEMMA Submits ==
    ASSUME TypeOK, ScreensInv, NEW j \in Jobs,
           SubmitNominalVote(j) \/ SubmitSecretVote(j) \/ SubmitTieBreakerVote(j)
    PROVE  /\ UNCHANGED <<server, link, memory, auth, current, counts>>
           /\ \/ WipeVolatileMemory /\ UNCHANGED jobs
              \/ /\ UNCHANGED <<blind, ghost>>
                 /\ jobs' \in [Jobs -> Job] /\ jobs'[j].at = "sent"
                 /\ \A k \in Jobs \ {j} : jobs'[k] = jobs[k]
<1>1. CASE SubmitNominalVote(j) \/ SubmitTieBreakerVote(j)
    BY <1>1, SubmitType DEF SubmitNominalVote, SubmitTieBreakerVote, MayVote
<1>2. CASE SubmitSecretVote(j)
    <2> DEFINE valid == /\ blind.signature = [of |-> blind.token, by |-> screen.round]
                        /\ blind.cached = blind.token
                        /\ blind.key = screen.round
                        /\ screen.key = screen.round
    <2>1. /\ UNCHANGED <<server, link, memory, auth, current, counts>>
          /\ screen.at = "active"
          /\ \/ WipeVolatileMemory /\ UNCHANGED jobs
             \/ Submit(j, "secret", valid) /\ UNCHANGED <<blind, ghost>>
        BY <1>2 DEF SubmitSecretVote, MayVote
    <2>2. valid \in BOOLEAN
        OBVIOUS
    <2> HIDE DEF valid
    <2> QED
        BY <2>1, <2>2, SubmitType
<1> QED
    BY <1>1, <1>2

LEMMA VotingType ==
    ASSUME TypeOK, ScreensInv, NEW j \in Jobs, Voting(j)
    PROVE  TypeOK'
<1> USE DEF server, link, memory, tasks
<1>1. CASE SubmitNominalVote(j) \/ SubmitSecretVote(j) \/ SubmitTieBreakerVote(j)
    BY <1>1, Submits, WipeType DEF TypeOK
<1>2. CASE CastVote(j)
    <2> DEFINE job == [jobs[j] EXCEPT !.at = "accepted"]
    <2>1. jobs[j] \in Vote
        BY <1>2, ByState DEF CastVote
    <2>2. job \in Job /\ jobs' = [jobs EXCEPT ![j] = job]
        BY <1>2, <2>1 DEF CastVote, Job, Vote
    <2>3. status' \in [Rounds -> RoundStatus] /\ recorded' \subseteq Rounds
        BY <1>2, <2>1 DEF CastVote, Record, TypeOK, RoundStatus, Vote
    <2> HIDE DEF job
    <2> QED
        BY <1>2, <2>2, <2>3, JobType DEF CastVote, TypeOK
<1>3. CASE VoteFails(j)
    <2>1. counts' \in [tokens: 0 .. MaxTokens, faults: 0 .. MaxFaults,
                       requests: 0 .. MaxRequests, starts: 0 .. MaxStarts]
        BY <1>3, FaultType DEF VoteFails, TypeOK
    <2>2. blind' \in Material /\ ghost' \in Ghosts
        BY <1>3, WipeType DEF VoteFails, TypeOK
    <2> QED
        BY <1>3, <2>1, <2>2, EndsType DEF VoteFails, TypeOK
<1>4. CASE VoteSubmitted(j)
    <2>1. writing' \in Screen
        BY <1>4 DEF VoteSubmitted, Decide, TypeOK, Screen
    <2>2. blind' \in Material
        BY <1>4 DEF VoteSubmitted, TypeOK, Material
    <2>3. ghost' \in Ghosts
        <3> DEFINE marked == ghost.mistaken \cup ({screen.round} \ {None, jobs[j].round})
                   gone == IF jobs[j].kind = "secret" THEN GiveUp ELSE ghost.gaveUp
        <3>1. marked \subseteq Rounds /\ gone \subseteq Rounds
            BY GiveUpType DEF TypeOK, Screen, Ghosts
        <3>2. ghost' = [ghost EXCEPT !.gaveUp = gone, !.mistaken = marked]
            BY <1>4 DEF VoteSubmitted, TypeOK, Ghosts
        <3> HIDE DEF marked, gone
        <3> QED
            BY <3>1, <3>2 DEF TypeOK, Ghosts
    <2> QED
        BY <1>4, <2>1, <2>2, <2>3, EndsType DEF VoteSubmitted, TypeOK
<1> QED
    BY <1>1, <1>2, <1>3, <1>4 DEF Voting

LEMMA TypeStep ==
    ASSUME TypeOK, ScreensInv, [Next]_vars
    PROVE  TypeOK'
<1>1. CASE UNCHANGED vars
    BY <1>1 DEF vars, server, link, memory, tasks, TypeOK
<1>2. CASE Next
    BY <1>2, RoundType, SessionKeyType, ScreensType, CheckingType, AuthorizingType, VotingType
    DEF Next
<1> QED
    BY <1>1, <1>2

-----------------------------------------------------------------------------
(* Screens.                                                                *)

\* What a request that changes a round does: all of it is one event more.
LEMMA RoundRequestCommits ==
    ASSUME TypeOK, NEW r \in Rounds, RoundRequest(r)
    PROVE  /\ UNCHANGED <<sessionKey, signed, recorded, link, memory, auth, blind, tasks, ghost>>
           /\ \E st \in RoundStatus, type \in {"OPENED", "CLOSED", "TIED", "ENDED"} :
                /\ Commit(r, st, type)
                /\ type = "OPENED" => st = "VOTING_OPEN"
                /\ status[r] # "RESOLVED"
BY DEF RoundRequest, OpenRound, CloseRound, ProclaimRound, RectifyRound, Commit, RoundStatus

\* The event that a request leaves behind is the last.
LEMMA CommitAppends ==
    ASSUME TypeOK, NEW r \in Rounds, NEW st \in RoundStatus,
           NEW type \in {"OPENED", "CLOSED", "TIED", "ENDED"}, Commit(r, st, type)
    PROVE  /\ Len(broadcasting) \in Nat
           /\ Len(broadcasting') = Len(broadcasting) + 1
           /\ \A i \in 1 .. Len(broadcasting) : broadcasting'[i] = broadcasting[i]
           /\ broadcasting'[Len(broadcasting) + 1].type = type
           /\ broadcasting'[Len(broadcasting) + 1].round = r
           /\ status' = [status EXCEPT ![r] = st]
BY DEF Commit, TypeOK

\* The event that is handled leaves the others in their order.
LEMMA BroadcastRemoves ==
    ASSUME TypeOK, NEW i \in 1 .. Len(broadcasting), Broadcast(i)
    PROVE  /\ Len(broadcasting) \in Nat
           /\ Len(broadcasting') = Len(broadcasting) - 1
           /\ \A j \in 1 .. Len(broadcasting') :
                /\ j < i => broadcasting'[j] = broadcasting[j]
                /\ j >= i => broadcasting'[j] = broadcasting[j + 1] /\ j + 1 \in 1 .. Len(broadcasting)
<1>1. broadcasting \in Seq(Event) /\ broadcasting' = RemoveAt(broadcasting, i)
    BY DEF TypeOK, Broadcast
<1>2. Len(broadcasting) \in Nat /\ Len(broadcasting') = Len(broadcasting) - 1
    BY <1>1, RemoveAtProperties
<1>3. \A j \in 1 .. Len(broadcasting) - 1 :
            broadcasting'[j] = broadcasting[IF j < i THEN j ELSE j + 1]
    BY <1>1, RemoveAtProperties
<1> QED
    BY <1>2, <1>3

LEMMA ShownProper ==
    ASSUME TypeOK, ScreensInv, NEW i \in 1 .. Len(broadcasting)
    PROVE  ProperScreen(Shown(broadcasting[i]))
<1>1. broadcasting[i] \in Event
    BY DEF TypeOK
<1> QED
    BY <1>1 DEF ScreensInv, ProperScreen, Shown, Event, Active, Blank, TypeOK, Screen

LEMMA ScreensStep ==
    ASSUME TypeOK, ScreensInv, [Next]_vars
    PROVE  ScreensInv'
<1> USE DEF server, link, memory, tasks, ScreensInv, ProperScreen
<1>1. ASSUME NEW r \in Rounds, RoundRequest(r)
      PROVE  ScreensInv'
    BY <1>1, RoundRequestCommits
<1>2. CASE FetchCurrent
    <2>1. (\E r \in Rounds : status[r] = "VOTING_OPEN") =>
                (CHOOSE r \in Rounds : status[r] = "VOTING_OPEN") \in Rounds
        OBVIOUS
    <2> QED
        BY <1>2, <2>1 DEF FetchCurrent, Active, Blank
<1>3. CASE ApplyCurrent
    BY <1>3 DEF ApplyCurrent, Decide, NoWrite, Blank
<1>4. CASE Write
    BY <1>4 DEF Write, Show, NoWrite, Blank
<1>5. ASSUME NEW i \in 1 .. Len(broadcasting), Broadcast(i)
      PROVE  ScreensInv'
    BY <1>5, ShownProper DEF Broadcast, Show
<1>6. CASE ExecuteWipeProtocol \/ LoseConnection \/ Reconnect \/ Restart
    BY <1>6 DEF ExecuteWipeProtocol, LoseConnection, Reconnect, Restart, Show, NoWrite, Blank
<1>7. CASE Observe \/ RetryAuthorization \/ \E key \in SessionKeys : SetSessionKey(key)
    BY <1>7 DEF Observe, RetryAuthorization, SetSessionKey
<1>8. ASSUME NEW j \in Jobs, Authorizing(j)
      PROVE  ScreensInv'
    BY <1>8 DEF Authorizing, AuthorizeIdentity, RefuseFingerprint, SubmitSignature,
                Authorize, AuthorizationFails
<1>9. ASSUME NEW j \in Jobs, Voting(j)
      PROVE  ScreensInv'
    <2>1. CASE VoteSubmitted(j)
        BY <2>1 DEF VoteSubmitted, Decide, TypeOK, Screen
    <2>2. CASE ~VoteSubmitted(j)
        BY <1>9, <2>2, Submits DEF Voting, CastVote, VoteFails
    <2> QED
        BY <2>1, <2>2
<1>10. CASE UNCHANGED vars
    BY <1>10 DEF vars
<1> QED
    BY <1>1, <1>2, <1>3, <1>4, <1>5, <1>6, <1>7, <1>8, <1>9, <1>10 DEF Next, Screens

-----------------------------------------------------------------------------
(* Votes.                                                                  *)

\* What justifies a screen stays: a recorded vote, a resolved round, a mistake.
LEMMA JustificationStays ==
    ASSUME TypeOK, ScreensInv, [Next]_vars
    PROVE  /\ recorded \subseteq recorded' /\ ghost.mistaken \subseteq ghost'.mistaken
           /\ \A r \in Rounds : status[r] = "RESOLVED" => status'[r] = "RESOLVED"
<1> USE DEF server, link, memory, tasks
<1>1. ASSUME NEW r \in Rounds, RoundRequest(r)
      PROVE  /\ recorded' = recorded /\ ghost' = ghost
             /\ \A q \in Rounds : status[q] = "RESOLVED" => status'[q] = "RESOLVED"
    BY <1>1, RoundRequestCommits DEF Commit, TypeOK
<1>2. CASE Screens
    BY <1>2 DEF Screens, FetchCurrent, ApplyCurrent, Write, Broadcast, ExecuteWipeProtocol,
                LoseConnection, Reconnect, Restart, TypeOK, Ghosts
<1>3. CASE Observe \/ RetryAuthorization \/ \E key \in SessionKeys : SetSessionKey(key)
    BY <1>3 DEF Observe, RetryAuthorization, CheckAuthorization, PrepareBlindedToken,
                SetSessionKey, TypeOK, Ghosts
<1>4. ASSUME NEW j \in Jobs, Authorizing(j)
      PROVE  UNCHANGED <<recorded, status>> /\ ghost'.mistaken = ghost.mistaken
    BY <1>4 DEF Authorizing, AuthorizeIdentity, RefuseFingerprint, SubmitSignature,
                Authorize, AuthorizationFails, TypeOK, Ghosts
<1>5. ASSUME NEW j \in Jobs, Voting(j)
      PROVE  /\ recorded \subseteq recorded' /\ ghost.mistaken \subseteq ghost'.mistaken
             /\ \A r \in Rounds : status[r] = "RESOLVED" => status'[r] = "RESOLVED"
    <2>1. CASE CastVote(j)
        BY <2>1 DEF CastVote, Record, TypeOK
    <2>2. CASE VoteSubmitted(j)
        BY <2>2 DEF VoteSubmitted, TypeOK, Ghosts
    <2>3. CASE VoteFails(j)
        BY <2>3 DEF VoteFails, WipeVolatileMemory, TypeOK, Ghosts
    <2>4. CASE ~CastVote(j) /\ ~VoteSubmitted(j) /\ ~VoteFails(j)
        BY <1>5, <2>4, Submits DEF Voting, WipeVolatileMemory, TypeOK, Ghosts
    <2> QED
        BY <2>1, <2>2, <2>3, <2>4
<1>6. CASE UNCHANGED vars
    BY <1>6 DEF vars
<1> QED
    BY <1>1, <1>2, <1>3, <1>4, <1>5, <1>6 DEF Next

LEMMA JustifiedStays ==
    ASSUME TypeOK, ScreensInv, [Next]_vars,
           NEW s, ProperScreen(s), Justified(s)
    PROVE  /\ s.at = "locked" => s.round \in recorded' \cup ghost'.mistaken
           /\ s.at = "tieLocked" => status'[s.round] = "RESOLVED" \/ s.round \in ghost'.mistaken
BY JustificationStays DEF ProperScreen, Justified

\* An event does not lock a screen.
LEMMA ShownLocked ==
    ASSUME TypeOK, ScreensInv, NEW e \in Event
    PROVE  /\ Shown(e).at = "locked" => screen.at = "locked" /\ Shown(e).round = screen.round
           /\ Shown(e).at # "tieLocked" \/ screen = Shown(e)
BY DEF Shown, Event, Active, Blank, TypeOK, Screen

\* An accepted vote stays accepted by the server.
LEMMA AcceptedStays ==
    ASSUME TypeOK, ScreensInv, VotesInv, [Next]_vars,
           NEW j \in Jobs, jobs'[j] = jobs[j] \/ jobs'[j].at # "accepted"
    PROVE  AcceptedIsDone(j)'
<1>1. jobs[j].at = "accepted" => jobs[j].round \in Rounds
    BY ByState DEF Vote
<1> QED
    BY <1>1, JustificationStays DEF VotesInv, AcceptedIsDone

LEMMA VotesStep ==
    ASSUME TypeOK, ScreensInv, VotesInv, [Next]_vars
    PROVE  VotesInv'
<1> USE DEF server, link, memory, tasks
<1>1. ASSUME \A j \in Jobs : jobs'[j] = jobs[j] \/ jobs'[j].at # "accepted"
      PROVE  \A j \in Jobs : AcceptedIsDone(j)'
    BY <1>1, AcceptedStays
<1>2. ASSUME screen' = screen
      PROVE  Justified(screen)'
    BY <1>2, JustifiedStays DEF VotesInv, Justified, ScreensInv
<1>3. ASSUME writing' = writing
      PROVE  Justified(writing)'
    BY <1>3, JustifiedStays DEF VotesInv, Justified, ScreensInv
<1>4. Justified(NoWrite) /\ Justified(NoWrite)' /\ Justified(Blank("idle"))'
      /\ Justified(Blank("revoked"))'
    BY DEF Justified, NoWrite, Blank
<1>5. ASSUME UNCHANGED jobs
      PROVE  \A j \in Jobs : AcceptedIsDone(j)'
    BY <1>1, <1>5
<1>6. ASSUME UNCHANGED <<screen, writing, jobs>>
      PROVE  VotesInv'
    BY <1>2, <1>3, <1>5, <1>6 DEF VotesInv
<1>7. ASSUME NEW r \in Rounds, RoundRequest(r)
      PROVE  VotesInv'
    BY <1>6, <1>7, RoundRequestCommits
<1>8. CASE \/ \E key \in SessionKeys : SetSessionKey(key)
           \/ FetchCurrent \/ LoseConnection \/ Reconnect \/ Observe \/ RetryAuthorization
    BY <1>2, <1>3, <1>5, <1>8
    DEF SetSessionKey, FetchCurrent, LoseConnection, Reconnect, Observe, RetryAuthorization,
        VotesInv
<1>9. CASE ApplyCurrent
    <2>1. Justified(writing)'
        <3>1. CASE writing' = writing
            BY <1>3, <3>1
        <3>2. CASE writing' = current
            BY <3>2 DEF Justified, ScreensInv
        <3> QED
            BY <1>9, <3>1, <3>2 DEF ApplyCurrent, Decide
    <2> QED
        BY <1>2, <1>5, <1>9, <2>1 DEF ApplyCurrent, VotesInv
<1>10. CASE Write
    <2>1. screen' = writing /\ writing' = NoWrite /\ UNCHANGED jobs
        BY <1>10 DEF Write, Show
    <2>2. Justified(screen)'
        BY <2>1, JustifiedStays DEF VotesInv, Justified, ScreensInv
    <2> QED
        BY <1>4, <1>5, <2>1, <2>2 DEF VotesInv, Justified
<1>11. ASSUME NEW i \in 1 .. Len(broadcasting), Broadcast(i)
      PROVE  VotesInv'
    <2>1. broadcasting[i] \in Event
        BY DEF TypeOK
    <2>2. CASE screen' = screen
        BY <1>6, <1>11, <2>2 DEF Broadcast
    <2>3. CASE screen' # screen
        <3>1. screen' = Shown(broadcasting[i])
            BY <1>11, <2>3 DEF Broadcast, Show
        <3>2. Justified(screen)'
            BY <2>1, <2>3, <3>1, ShownLocked, JustifiedStays DEF VotesInv, Justified, ScreensInv
        <3> QED
            BY <1>3, <1>5, <1>11, <3>2 DEF Broadcast, VotesInv
    <2> QED
        BY <2>2, <2>3
<1>12. CASE ExecuteWipeProtocol
    BY <1>3, <1>4, <1>5, <1>12 DEF ExecuteWipeProtocol, Show, VotesInv, Justified
<1>13. CASE Restart
    <2>1. \A j \in Jobs : AcceptedIsDone(j)'
        BY <1>1, <1>13 DEF Restart, Quiet
    <2> QED
        BY <1>4, <1>13, <2>1 DEF Restart, VotesInv, Justified
<1>14. ASSUME NEW j \in Jobs, Authorizing(j)
      PROVE  VotesInv'
    <2>1. UNCHANGED <<screen, writing>>
        BY <1>14 DEF Authorizing, AuthorizeIdentity, RefuseFingerprint, SubmitSignature,
                     Authorize, AuthorizationFails
    <2>2. \A k \in Jobs : jobs'[k] = jobs[k] \/ jobs'[k].at # "accepted"
        <3>1. CASE Ends(j)
            BY <3>1, EndsType DEF Quiet
        <3>2. CASE ~Ends(j)
            BY <1>14, <3>2 DEF Authorizing, AuthorizeIdentity, RefuseFingerprint,
                SubmitSignature, Authorize, AuthorizationFails, TypeOK
        <3> QED
            BY <3>1, <3>2
    <2> QED
        BY <1>1, <1>2, <1>3, <2>1, <2>2 DEF VotesInv
<1>15. ASSUME NEW j \in Jobs,
              \/ SubmitNominalVote(j) \/ SubmitSecretVote(j) \/ SubmitTieBreakerVote(j)
              \/ VoteFails(j)
      PROVE  VotesInv'
    <2>1. CASE VoteFails(j)
        BY <1>1, <1>2, <1>3, <2>1, EndsType DEF VoteFails, VotesInv, Quiet
    <2>2. CASE ~VoteFails(j)
        <3>1. UNCHANGED <<screen, writing>>
            BY <1>15, <2>2, Submits
        <3>2. \A k \in Jobs : jobs'[k] = jobs[k] \/ jobs'[k].at # "accepted"
            BY <1>15, <2>2, Submits
        <3> QED
            BY <1>1, <1>2, <1>3, <3>1, <3>2 DEF VotesInv
    <2> QED
        BY <2>1, <2>2
<1>16. ASSUME NEW j \in Jobs, CastVote(j)
      PROVE  VotesInv'
    <2>1. jobs[j] \in Vote
        BY <1>16, ByState DEF CastVote
    <2>2. AcceptedIsDone(j)'
        <3>1. jobs'[j].kind = jobs[j].kind /\ jobs'[j].round = jobs[j].round
            BY <1>16, <2>1 DEF CastVote, TypeOK, Vote
        <3>2. jobs[j].round \in Rounds
            BY <2>1 DEF Vote
        <3> QED
            BY <1>16, <3>1, <3>2 DEF CastVote, Record, AcceptedIsDone, TypeOK
    <2>3. \A k \in Jobs \ {j} : jobs'[k] = jobs[k]
        BY <1>16 DEF CastVote, TypeOK
    <2>4. \A k \in Jobs : AcceptedIsDone(k)'
        BY <2>2, <2>3, AcceptedStays
    <2> QED
        BY <1>2, <1>3, <1>16, <2>4 DEF CastVote, VotesInv
<1>17. ASSUME NEW j \in Jobs, VoteSubmitted(j)
      PROVE  VotesInv'
    <2> DEFINE vote == jobs[j]
    <2>1. /\ vote.at = "accepted" /\ screen' = screen /\ Ends(j)
          /\ UNCHANGED <<status, recorded>>
        BY <1>17 DEF VoteSubmitted, Submitted
    <2>2. {screen.round} \ {None, vote.round} \subseteq ghost'.mistaken
        BY <1>17 DEF VoteSubmitted, TypeOK, Ghosts
    <2>3. IF vote.kind = "tie" THEN status[vote.round] = "RESOLVED" ELSE vote.round \in recorded
        BY <2>1 DEF VotesInv, AcceptedIsDone
    <2>4. \/ writing' = writing
          \/ /\ vote.kind = "tie" /\ screen.at = "tieBreak"
             /\ writing' = [screen EXCEPT !.at = "tieLocked"]
          \/ /\ vote.kind # "tie" /\ screen.at = "active"
             /\ writing' = [screen EXCEPT !.at = "locked"]
        BY <1>17 DEF VoteSubmitted, Decide
    <2> HIDE DEF vote
    <2>5. Justified(writing)'
        <3>1. CASE writing' = writing
            BY <1>3, <3>1
        <3>2. CASE vote.kind = "tie" /\ screen.at = "tieBreak"
                   /\ writing' = [screen EXCEPT !.at = "tieLocked"]
            <4>1. screen.round \in Rounds /\ writing'.at = "tieLocked" /\ writing'.round = screen.round
                BY <3>2 DEF ScreensInv, ProperScreen, TypeOK, Screen
            <4>2. screen.round = vote.round \/ screen.round \in ghost'.mistaken
                BY <2>2, <4>1
            <4> QED
                BY <2>1, <2>3, <3>2, <4>1, <4>2 DEF Justified
        <3>3. CASE vote.kind # "tie" /\ screen.at = "active"
                   /\ writing' = [screen EXCEPT !.at = "locked"]
            <4>1. screen.round \in Rounds /\ writing'.at = "locked" /\ writing'.round = screen.round
                BY <3>3 DEF ScreensInv, ProperScreen, TypeOK, Screen
            <4>2. screen.round = vote.round \/ screen.round \in ghost'.mistaken
                BY <2>2, <4>1
            <4> QED
                BY <2>1, <2>3, <3>3, <4>1, <4>2 DEF Justified
        <3> QED
            BY <2>4, <3>1, <3>2, <3>3
    <2>6. \A k \in Jobs : jobs'[k] = jobs[k] \/ jobs'[k].at # "accepted"
        BY <2>1, EndsType DEF Quiet
    <2> QED
        BY <1>1, <1>2, <2>1, <2>5, <2>6 DEF VotesInv
<1>18. CASE UNCHANGED vars
    BY <1>6, <1>18 DEF vars
<1> QED
    BY <1>7, <1>8, <1>9, <1>10, <1>11, <1>12, <1>13, <1>14, <1>15, <1>16, <1>17, <1>18
    DEF Next, Screens, Voting

-----------------------------------------------------------------------------
(* Revocation, and the rounds shown as open.                               *)

LEMMA ShownNotRevoked ==
    ASSUME TypeOK, NEW e \in Event, screen.at # "revoked"
    PROVE  Shown(e).at # "revoked"
BY DEF Shown, Event, Active, Blank, TypeOK, Screen

LEMMA RevocationStep ==
    ASSUME TypeOK, ScreensInv, RevocationInv, [Next]_vars
    PROVE  RevocationInv'
<1> USE DEF server, link, memory, tasks, RevocationInv
<1>1. ASSUME NEW r \in Rounds, RoundRequest(r)
      PROVE  RevocationInv'
    BY <1>1, RoundRequestCommits
<1>2. CASE FetchCurrent \/ LoseConnection \/ Reconnect
    BY <1>2 DEF FetchCurrent, LoseConnection, Reconnect
<1>3. CASE ApplyCurrent
    BY <1>3 DEF ApplyCurrent, Decide, MayUpdate
<1>4. CASE Write
    BY <1>4 DEF Write, Show, ScreensInv, TypeOK, Ghosts
<1>5. ASSUME NEW i \in 1 .. Len(broadcasting), Broadcast(i)
      PROVE  RevocationInv'
    <2>1. broadcasting[i] \in Event
        BY DEF TypeOK
    <2>2. screen'.at = "revoked" => screen' = screen
        BY <1>5, <2>1, ShownNotRevoked DEF Broadcast, Show, MayUpdate
    <2>3. ghost'.overtaken = ghost.overtaken
        BY <1>5 DEF Broadcast, TypeOK, Ghosts
    <2> QED
        BY <1>5, <2>2, <2>3 DEF Broadcast
<1>6. CASE ExecuteWipeProtocol
    BY <1>6 DEF ExecuteWipeProtocol, TypeOK, Ghosts
<1>7. CASE Restart
    BY <1>7 DEF Restart, Blank
<1>8. CASE Observe \/ RetryAuthorization \/ \E key \in SessionKeys : SetSessionKey(key)
    <2>1. UNCHANGED <<connected, enrolled, screen, writing>>
        BY <1>8 DEF Observe, RetryAuthorization, SetSessionKey
    <2>2. ghost'.overtaken = ghost.overtaken
        BY <1>8 DEF Observe, RetryAuthorization, CheckAuthorization, PrepareBlindedToken,
                    SetSessionKey, TypeOK, Ghosts
    <2> QED
        BY <2>1, <2>2
<1>9. ASSUME NEW j \in Jobs, Authorizing(j)
      PROVE  RevocationInv'
    <2>1. UNCHANGED <<connected, enrolled, screen, writing>>
        BY <1>9 DEF Authorizing, AuthorizeIdentity, RefuseFingerprint, SubmitSignature,
                    Authorize, AuthorizationFails
    <2>2. ghost'.overtaken = ghost.overtaken
        BY <1>9 DEF Authorizing, AuthorizeIdentity, RefuseFingerprint, SubmitSignature,
                    Authorize, AuthorizationFails, TypeOK, Ghosts
    <2> QED
        BY <2>1, <2>2
<1>10. ASSUME NEW j \in Jobs, Voting(j)
      PROVE  RevocationInv'
    <2>1. CASE VoteSubmitted(j)
        <3>1. ghost'.overtaken = ghost.overtaken
            BY <2>1 DEF VoteSubmitted, TypeOK, Ghosts
        <3> QED
            BY <2>1, <3>1 DEF VoteSubmitted, Decide, MayUpdate
    <2>2. CASE ~VoteSubmitted(j)
        <3>1. UNCHANGED <<connected, enrolled, screen, writing>>
            BY <1>10, <2>2, Submits DEF Voting, CastVote, VoteFails
        <3>2. ghost' = ghost \/ WipeVolatileMemory
            BY <1>10, <2>2, Submits DEF Voting, CastVote, VoteFails
        <3>3. ghost'.overtaken = ghost.overtaken
            BY <3>2 DEF WipeVolatileMemory, TypeOK, Ghosts
        <3> QED
            BY <3>1, <3>3
    <2> QED
        BY <2>1, <2>2
<1>11. CASE UNCHANGED vars
    BY <1>11 DEF vars
<1> QED
    BY <1>1, <1>2, <1>3, <1>4, <1>5, <1>6, <1>7, <1>8, <1>9, <1>10, <1>11 DEF Next, Screens

LEMMA EventRounds ==
    ASSUME TypeOK
    PROVE  \A j \in 1 .. Len(broadcasting) : broadcasting[j].round \in Rounds
<1>1. ASSUME NEW j \in 1 .. Len(broadcasting)
      PROVE  broadcasting[j] \in Event
    BY DEF TypeOK
<1> QED
    BY <1>1 DEF Event

\* Which rounds are open changes with an event that says so.
LEMMA InvitationsKept ==
    ASSUME TypeOK, ScreensInv, InvitationsInv,
           UNCHANGED <<screen, broadcasting>>, ghost'.stale = ghost.stale,
           \A r \in Rounds : status[r] = "VOTING_OPEN" => status'[r] = "VOTING_OPEN"
    PROVE  InvitationsInv'
<1>1. screen.at = "active" => screen.round \in Rounds
    BY DEF ScreensInv, ProperScreen
<1>2. ASSUME ~ghost.stale, screen.at = "active", screen.open
      PROVE  \/ status'[screen.round] = "VOTING_OPEN"
             \/ \E k \in 1 .. Len(broadcasting) : broadcasting[k].type # "OPENED"
    BY <1>1, <1>2 DEF InvitationsInv
<1>3. ASSUME ~ghost.stale, NEW j \in 1 .. Len(broadcasting), broadcasting[j].type = "OPENED"
      PROVE  \/ status'[broadcasting[j].round] = "VOTING_OPEN"
             \/ \E k \in 1 .. Len(broadcasting) : k > j /\ broadcasting[k].type # "OPENED"
    BY <1>3, EventRounds DEF InvitationsInv
<1> QED
    BY <1>2, <1>3 DEF InvitationsInv

LEMMA InvitationsStep ==
    ASSUME TypeOK, ScreensInv, RevocationInv, InvitationsInv, [Next]_vars
    PROVE  InvitationsInv'
<1> USE DEF server, link, memory, tasks
<1>1. ASSUME NEW r \in Rounds, RoundRequest(r)
      PROVE  InvitationsInv'
    <2>1. PICK st \in RoundStatus, type \in {"OPENED", "CLOSED", "TIED", "ENDED"} :
                Commit(r, st, type) /\ (type = "OPENED" => st = "VOTING_OPEN")
        BY <1>1, RoundRequestCommits
    <2> DEFINE n == Len(broadcasting)
    <2>2. /\ n \in Nat /\ Len(broadcasting') = n + 1
          /\ \A i \in 1 .. n : broadcasting'[i] = broadcasting[i]
          /\ broadcasting'[n + 1].type = type /\ broadcasting'[n + 1].round = r
          /\ status' = [status EXCEPT ![r] = st]
        BY <2>1, CommitAppends
    <2>3. screen' = screen /\ ghost' = ghost
        BY <1>1, RoundRequestCommits
    <2> HIDE DEF n
    <2>4. CASE type = "OPENED"
        <3>1. status'[r] = "VOTING_OPEN"
            BY <2>1, <2>2, <2>4 DEF TypeOK
        <3>2. \A q \in Rounds : status[q] = "VOTING_OPEN" => status'[q] = "VOTING_OPEN"
            BY <2>2, <3>1 DEF TypeOK
        <3>3. ASSUME ~ghost.stale, screen.at = "active", screen.open
              PROVE  \/ status'[screen.round] = "VOTING_OPEN"
                     \/ \E k \in 1 .. Len(broadcasting') : broadcasting'[k].type # "OPENED"
            <4>1. screen.round \in Rounds
                BY <3>3 DEF ScreensInv, ProperScreen
            <4>2. CASE status[screen.round] = "VOTING_OPEN"
                BY <3>2, <4>1, <4>2
            <4>3. CASE \E k \in 1 .. n : broadcasting[k].type # "OPENED"
                BY <2>2, <4>3
            <4> QED
                BY <3>3, <4>2, <4>3 DEF InvitationsInv, n
        <3>4. ASSUME ~ghost.stale, NEW j \in 1 .. n + 1, broadcasting'[j].type = "OPENED"
              PROVE  \/ status'[broadcasting'[j].round] = "VOTING_OPEN"
                     \/ \E k \in 1 .. n + 1 : k > j /\ broadcasting'[k].type # "OPENED"
            <4>1. CASE j = n + 1
                BY <2>2, <3>1, <4>1
            <4>2. CASE j \in 1 .. n
                <5>1. broadcasting'[j] = broadcasting[j] /\ broadcasting[j].round \in Rounds
                    BY <2>2, <4>2, EventRounds DEF n
                <5>2. CASE status[broadcasting[j].round] = "VOTING_OPEN"
                    BY <3>2, <5>1, <5>2
                <5>3. CASE \E k \in 1 .. n : k > j /\ broadcasting[k].type # "OPENED"
                    BY <2>2, <5>3
                <5> QED
                    BY <3>4, <4>2, <5>1, <5>2, <5>3 DEF InvitationsInv, n
            <4> QED
                BY <2>2, <4>1, <4>2
        <3> QED
            BY <2>2, <2>3, <3>3, <3>4 DEF InvitationsInv
    <2>5. CASE type # "OPENED"
        <3>1. n + 1 \in 1 .. n + 1 /\ broadcasting'[n + 1].type # "OPENED"
            BY <2>2, <2>5
        <3>2. \A j \in 1 .. n + 1 : broadcasting'[j].type = "OPENED" => n + 1 > j
            BY <2>2, <3>1
        <3> QED
            BY <2>2, <3>1, <3>2 DEF InvitationsInv
    <2> QED
        BY <2>4, <2>5
<1>2. CASE Write
    <2>1. /\ screen' = writing /\ UNCHANGED <<status, broadcasting>>
          /\ ghost'.stale = (ghost.stale \/ (writing.at = "active" /\ status[writing.round] # "VOTING_OPEN"))
        BY <1>2 DEF Write, Show, TypeOK, Ghosts
    <2> QED
        BY <2>1 DEF InvitationsInv
<1>3. ASSUME NEW i \in 1 .. Len(broadcasting), Broadcast(i)
      PROVE  InvitationsInv'
    <2> SUFFICES ASSUME ~ghost'.stale
                 PROVE  InvitationsInv'
        BY DEF InvitationsInv
    <2>1. ~ghost.stale /\ i = 1 /\ connected /\ status' = status
        <3>1. ghost'.stale = (ghost.stale \/ i > 1 \/ ~connected) /\ status' = status
            BY <1>3 DEF Broadcast, TypeOK, Ghosts
        <3>2. ~ghost.stale /\ ~(i > 1) /\ connected /\ status' = status
            BY <3>1
        <3> QED
            BY <3>2
    <2>2. screen.at # "revoked"
        BY <2>1 DEF RevocationInv
    <2> DEFINE e == broadcasting[1]
               n == Len(broadcasting)
    <2>3. screen' = Shown(e)
        BY <1>3, <2>1, <2>2 DEF Broadcast, MayUpdate, Show
    <2>4. /\ n \in Nat /\ n >= 1 /\ Len(broadcasting') = n - 1
          /\ \A j \in 1 .. n - 1 : broadcasting'[j] = broadcasting[j + 1] /\ j + 1 \in 1 .. n
        BY <1>3, <2>1, BroadcastRemoves
    <2>5. e \in Event
        BY <2>1 DEF TypeOK
    <2>6. ASSUME screen'.at = "active", screen'.open
          PROVE  e.type = "OPENED" /\ screen'.round = e.round
        BY <2>3, <2>5, <2>6 DEF Shown, Event, Active, Blank, TypeOK, Screen
    <2> HIDE DEF e
    <2>7. ASSUME NEW j \in 1 .. n, broadcasting[j].type = "OPENED"
          PROVE  \/ status[broadcasting[j].round] = "VOTING_OPEN"
                 \/ \E k \in 1 .. n - 1 : k > j - 1 /\ broadcasting'[k].type # "OPENED"
        <3>1. CASE status[broadcasting[j].round] = "VOTING_OPEN"
            BY <3>1
        <3>2. CASE \E k \in 1 .. n : k > j /\ broadcasting[k].type # "OPENED"
            <4>1. PICK k \in 1 .. n : k > j /\ broadcasting[k].type # "OPENED"
                BY <3>2
            <4>2. k - 1 \in 1 .. n - 1 /\ k - 1 > j - 1 /\ (k - 1) + 1 = k
                BY <2>4, <4>1
            <4>3. broadcasting'[k - 1].type # "OPENED"
                BY <2>4, <4>1, <4>2
            <4> QED
                BY <4>2, <4>3
        <3> QED
            BY <2>1, <2>7, <3>1, <3>2 DEF InvitationsInv
    <2>8. ASSUME screen'.at = "active", screen'.open
          PROVE  \/ status'[screen'.round] = "VOTING_OPEN"
                 \/ \E k \in 1 .. Len(broadcasting') : broadcasting'[k].type # "OPENED"
        <3>1. 1 \in 1 .. n /\ broadcasting[1].type = "OPENED" /\ screen'.round = broadcasting[1].round
            BY <2>4, <2>6, <2>8 DEF e
        <3>2. \/ status[broadcasting[1].round] = "VOTING_OPEN"
              \/ \E k \in 1 .. n - 1 : k > 1 - 1 /\ broadcasting'[k].type # "OPENED"
            BY <2>7, <3>1
        <3> QED
            BY <2>1, <2>4, <3>1, <3>2
    <2>9. ASSUME NEW j \in 1 .. Len(broadcasting'), broadcasting'[j].type = "OPENED"
          PROVE  \/ status'[broadcasting'[j].round] = "VOTING_OPEN"
                 \/ \E k \in 1 .. Len(broadcasting') : k > j /\ broadcasting'[k].type # "OPENED"
        <3>1. j + 1 \in 1 .. n /\ broadcasting'[j] = broadcasting[j + 1] /\ (j + 1) - 1 = j
            BY <2>4
        <3>2. \/ status[broadcasting[j + 1].round] = "VOTING_OPEN"
              \/ \E k \in 1 .. n - 1 : k > (j + 1) - 1 /\ broadcasting'[k].type # "OPENED"
            BY <2>7, <2>9, <3>1
        <3> QED
            BY <2>1, <2>4, <3>1, <3>2
    <2> QED
        BY <2>8, <2>9 DEF InvitationsInv
<1>4. CASE ExecuteWipeProtocol
    BY <1>4 DEF ExecuteWipeProtocol, Show, Blank, InvitationsInv, TypeOK, Ghosts
<1>5. CASE Restart
    BY <1>5 DEF Restart, InvitationsInv, TypeOK, Ghosts
<1>6. CASE FetchCurrent \/ ApplyCurrent \/ LoseConnection \/ Reconnect
    BY <1>6, InvitationsKept DEF FetchCurrent, ApplyCurrent, LoseConnection, Reconnect
<1>7. CASE Observe \/ RetryAuthorization \/ \E key \in SessionKeys : SetSessionKey(key)
    <2>1. ghost'.stale = ghost.stale
        BY <1>7 DEF Observe, RetryAuthorization, CheckAuthorization, PrepareBlindedToken,
                    SetSessionKey, TypeOK, Ghosts
    <2> QED
        BY <1>7, <2>1, InvitationsKept DEF Observe, RetryAuthorization, SetSessionKey
<1>8. ASSUME NEW j \in Jobs, Authorizing(j)
      PROVE  InvitationsInv'
    <2>1. ghost'.stale = ghost.stale
        BY <1>8 DEF Authorizing, AuthorizeIdentity, RefuseFingerprint, SubmitSignature,
                    Authorize, AuthorizationFails, TypeOK, Ghosts
    <2>2. UNCHANGED <<screen, broadcasting, status>>
        BY <1>8 DEF Authorizing, AuthorizeIdentity, RefuseFingerprint, SubmitSignature,
                    Authorize, AuthorizationFails
    <2> QED
        BY <2>1, <2>2, InvitationsKept
<1>9. ASSUME NEW j \in Jobs, Voting(j)
      PROVE  InvitationsInv'
    <2>1. UNCHANGED <<screen, broadcasting>>
        BY <1>9, Submits DEF Voting, CastVote, VoteFails, VoteSubmitted
    <2>2. \A r \in Rounds : status[r] = "VOTING_OPEN" => status'[r] = "VOTING_OPEN"
        <3>1. CASE CastVote(j)
            BY <3>1 DEF CastVote, Acceptable, Record, TypeOK
        <3>2. CASE ~CastVote(j)
            BY <1>9, <3>2, Submits DEF Voting, VoteFails, VoteSubmitted
        <3> QED
            BY <3>1, <3>2
    <2>3. ghost'.stale = ghost.stale
        <3>1. CASE VoteSubmitted(j)
            BY <3>1 DEF VoteSubmitted, TypeOK, Ghosts
        <3>2. CASE ~VoteSubmitted(j)
            <4>1. ghost' = ghost \/ WipeVolatileMemory
                BY <1>9, <3>2, Submits DEF Voting, CastVote, VoteFails
            <4> QED
                BY <4>1 DEF WipeVolatileMemory, TypeOK, Ghosts
        <3> QED
            BY <3>1, <3>2
    <2> QED
        BY <2>1, <2>2, <2>3, InvitationsKept
<1>10. CASE UNCHANGED vars
    BY <1>10, InvitationsKept DEF vars
<1> QED
    BY <1>1, <1>2, <1>3, <1>4, <1>5, <1>6, <1>7, <1>8, <1>9, <1>10 DEF Next, Screens

-----------------------------------------------------------------------------
(* Material.                                                               *)

\* What is given up stays so; a token's owner changes with the material, and this
\* is given up, or nothing was blinded with it.
LEMMA OwnsKept ==
    ASSUME TypeOK, NEW r \in Rounds, NEW t \in Token, Owns(r, t),
           ghost.gaveUp \subseteq ghost'.gaveUp,
           \/ blind'.round = blind.round /\ blind'.cached = blind.cached
           \/ blind.round \in ghost'.gaveUp \cup {None}
           \/ blind.cached = None
    PROVE  Owns(r, t)'
BY DEF Owns, Token

\* The tokens that are signed, asked for and under way are the type's.
LEMMA OwnedTokens ==
    ASSUME TypeOK
    PROVE  /\ \A r \in Rounds : signed[r] # None => signed[r] \in Token
           /\ \A j \in Jobs : jobs[j].at \in {"prompt", "signing"} =>
                    jobs[j].round \in Rounds /\ jobs[j].token \in Token
BY ByState DEF TypeOK

\* What every step does to the history.
LEMMA HistoryGrows ==
    ASSUME TypeOK, ScreensInv, [Next]_vars
    PROVE  ghost.gaveUp \subseteq ghost'.gaveUp /\ ghost.mixed \subseteq ghost'.mixed
<1> USE DEF server, link, memory, tasks
<1>1. ASSUME NEW r \in Rounds, RoundRequest(r)
      PROVE  ghost' = ghost
    BY <1>1, RoundRequestCommits
<1>2. CASE Screens
    <2>1. CASE Write \/ ExecuteWipeProtocol
        BY <2>1 DEF Write, ExecuteWipeProtocol, TypeOK, Ghosts
    <2>2. ASSUME NEW i \in 1 .. Len(broadcasting), Broadcast(i)
          PROVE  ghost'.gaveUp = ghost.gaveUp /\ ghost'.mixed = ghost.mixed
        BY <2>2 DEF Broadcast, TypeOK, Ghosts
    <2>3. CASE Restart
        BY <2>3 DEF Restart, TypeOK, Ghosts
    <2>4. CASE FetchCurrent \/ ApplyCurrent \/ LoseConnection \/ Reconnect
        BY <2>4 DEF FetchCurrent, ApplyCurrent, LoseConnection, Reconnect
    <2> QED
        BY <1>2, <2>1, <2>2, <2>3, <2>4 DEF Screens
<1>3. CASE Observe \/ RetryAuthorization \/ \E key \in SessionKeys : SetSessionKey(key)
    <2>1. CASE ghost' = ghost
        BY <2>1
    <2>2. CASE PrepareBlindedToken(screen.round, screen.key)
        <3>1. CASE IsPrepared(screen.round)
            BY <2>2, <3>1 DEF PrepareBlindedToken
        <3>2. CASE ~IsPrepared(screen.round)
            <4>1. /\ ghost'.gaveUp \in {ghost.gaveUp, GiveUp}
                  /\ ghost'.mixed \in {ghost.mixed, ghost.mixed \cup {screen.round}}
                BY <2>2, <3>2 DEF PrepareBlindedToken, TypeOK, Ghosts
            <4> QED
                BY <4>1, GiveUpType
        <3> QED
            BY <3>1, <3>2
    <2> QED
        BY <1>3, <2>1, <2>2
        DEF Observe, RetryAuthorization, CheckAuthorization, SetSessionKey
<1>4. ASSUME NEW j \in Jobs, Authorizing(j)
      PROVE  ghost.gaveUp \subseteq ghost'.gaveUp /\ ghost.mixed \subseteq ghost'.mixed
    BY <1>4 DEF Authorizing, AuthorizeIdentity, RefuseFingerprint, SubmitSignature,
                Authorize, AuthorizationFails, TypeOK, Ghosts
<1>5. ASSUME NEW j \in Jobs, Voting(j)
      PROVE  ghost.gaveUp \subseteq ghost'.gaveUp /\ ghost.mixed \subseteq ghost'.mixed
    <2>1. CASE VoteSubmitted(j)
        BY <2>1, GiveUpType DEF VoteSubmitted, TypeOK, Ghosts
    <2>2. CASE ~VoteSubmitted(j)
        <3>1. ghost' = ghost \/ WipeVolatileMemory
            BY <1>5, <2>2, Submits DEF Voting, CastVote, VoteFails
        <3> QED
            BY <3>1, GiveUpType DEF WipeVolatileMemory, TypeOK, Ghosts
    <2> QED
        BY <2>1, <2>2
<1>6. CASE UNCHANGED vars
    BY <1>6 DEF vars
<1> QED
    BY <1>1, <1>2, <1>3, <1>4, <1>5, <1>6 DEF Next

\* The steps that leave the material, or wipe it, and authorize nothing.
LEMMA MaterialKept ==
    ASSUME TypeOK, MaterialInv, signed' = signed,
           ghost.gaveUp \subseteq ghost'.gaveUp, ghost.mixed \subseteq ghost'.mixed,
           auth' = auth \/ auth'.at # "required",
           blind' = blind \/ (blind' = NoMaterial /\ blind.round \in ghost'.gaveUp \cup {None}),
           \A j \in Jobs : jobs'[j] = jobs[j] \/ jobs'[j].at \notin {"prompt", "signing"}
    PROVE  MaterialInv'
<1>1. \A r \in Rounds, t \in Token : Owns(r, t) => Owns(r, t)'
    BY OwnsKept
<1>2. SignedIsOwned'
    BY <1>1, OwnedTokens DEF MaterialInv, SignedIsOwned
<1>3. RequiredIsHeld'
    <2>1. auth.at = "required" => auth.round \in Rounds
        BY ByState
    <2> QED
        BY <2>1, MaterialByRound DEF MaterialInv, RequiredIsHeld
<1>4. ASSUME NEW j \in Jobs
      PROVE  JobIsOwned(j)'
    BY <1>1, OwnedTokens DEF MaterialInv, JobIsOwned
<1>5. MaterialIsWhole'
    BY DEF MaterialInv, MaterialIsWhole, NoMaterial
<1> QED
    BY <1>2, <1>3, <1>4, <1>5 DEF MaterialInv

\* A token for a round replaces nothing that another round, not given up, owns.
LEMMA PrepareKeeps ==
    ASSUME TypeOK, MaterialInv, NEW r \in Rounds, NEW key \in Rounds \cup {Unreadable},
           PrepareBlindedToken(r, key)
    PROVE  /\ \A q \in Rounds, t \in Token : Owns(q, t) => Owns(q, t)'
           /\ MaterialIsWhole'
<1>1. CASE IsPrepared(r)
    BY <1>1 DEF PrepareBlindedToken, MaterialInv, MaterialIsWhole, Owns
<1>2. CASE ~IsPrepared(r)
    <2> DEFINE t == counts.tokens + 1
               kept == [blind EXCEPT !.round = r, !.token = t]
    <2>1. /\ blind' = IF key = Unreadable THEN kept ELSE [kept EXCEPT !.cached = t, !.key = key]
          /\ ghost'.gaveUp = (IF blind.round = r THEN ghost.gaveUp ELSE GiveUp)
          /\ ghost'.mixed = IF key = Unreadable \/ blind.signature # NoSignature
                            THEN ghost.mixed \cup {r} ELSE ghost.mixed
        BY <1>2 DEF PrepareBlindedToken, TypeOK, Ghosts
    <2>2. /\ kept.round = r /\ kept.token = t
          /\ kept.cached = blind.cached /\ kept.signature = blind.signature
        BY DEF TypeOK, Material, NoMaterial
    <2>3. kept \in [round: {r}, token: {t}, cached: Token \cup {None}, key: Rounds \cup {None},
                    signature: {NoSignature} \cup [of: Token, by: Rounds]]
        <3> HIDE DEF t
        <3>1. CASE blind = NoMaterial
            BY <3>1 DEF NoMaterial
        <3>2. CASE blind # NoMaterial
            BY <3>2 DEF TypeOK, Material
        <3> QED
            BY <3>1, <3>2
    <2> HIDE DEF kept, t
    <2>4. /\ blind'.round = r /\ blind'.token = t /\ blind'.signature = blind.signature
          /\ key # Unreadable => blind'.cached = t
        BY <2>1, <2>2, <2>3
    <2>5. MaterialIsWhole'
        BY <2>1, <2>4 DEF MaterialIsWhole
    <2>6. ASSUME NEW q \in Rounds, NEW u \in Token, Owns(q, u)
          PROVE  Owns(q, u)'
        <3>1. ghost.gaveUp \subseteq ghost'.gaveUp
            BY <2>1, GiveUpType
        <3>2. CASE blind.round = r
            <4>1. blind.cached = None
                BY <1>2, <3>2, MaterialByRound DEF IsPrepared, Token
            <4> QED
                BY <2>6, <3>1, <4>1, OwnsKept
        <3>3. CASE blind.round # r
            <4>1. blind.round \in ghost'.gaveUp \cup {None}
                BY <2>1, <3>3, GiveUpType
            <4> QED
                BY <2>6, <3>1, <4>1, OwnsKept
        <3> QED
            BY <3>2, <3>3
    <2> QED
        BY <2>5, <2>6
<1> QED
    BY <1>1, <1>2

LEMMA CheckKeeps ==
    ASSUME TypeOK, ScreensInv, MaterialInv, screen.at = "active",
           CheckAuthorization(screen.round, screen.key), UNCHANGED <<signed, jobs>>,
           ghost.gaveUp \subseteq ghost'.gaveUp, ghost.mixed \subseteq ghost'.mixed
    PROVE  MaterialInv'
<1>1. screen.round \in Rounds /\ screen.key \in Key
    BY DEF ScreensInv, ProperScreen, TypeOK, Screen
<1>2. CASE screen.key = None \/ IsAuthorized(screen.round)
    <2>1. blind' = blind /\ (auth' = auth \/ auth'.at # "required")
        BY <1>2 DEF CheckAuthorization
    <2> QED
        BY <2>1, MaterialKept
<1>3. CASE screen.key # None /\ ~IsAuthorized(screen.round)
    <2>1. PrepareBlindedToken(screen.round, screen.key)
        BY <1>3 DEF CheckAuthorization
    <2>2. screen.key \in Rounds \cup {Unreadable}
        BY <1>1, <1>3 DEF Key
    <2>3. \A q \in Rounds, t \in Token : Owns(q, t) => Owns(q, t)'
        BY <1>1, <2>1, <2>2, PrepareKeeps
    <2>4. MaterialIsWhole'
        BY <1>1, <2>1, <2>2, PrepareKeeps
    <2>5. SignedIsOwned'
        BY <2>3, OwnedTokens DEF MaterialInv, SignedIsOwned
    <2>6. ASSUME NEW j \in Jobs
          PROVE  JobIsOwned(j)'
        BY <2>3, OwnedTokens DEF MaterialInv, JobIsOwned
    <2>7. RequiredIsHeld'
        <3>1. blind'.round = screen.round
            BY <1>1, <2>1, <2>2, PrepareType
        <3> QED
            BY <1>3, <3>1 DEF CheckAuthorization, RequiredIsHeld
    <2> QED
        BY <2>4, <2>5, <2>6, <2>7 DEF MaterialInv
<1> QED
    BY <1>2, <1>3

\* An authorization that is under way keeps the material; its end may sign it.
LEMMA AuthorizingKeeps ==
    ASSUME TypeOK, MaterialInv, NEW j \in Jobs, Authorizing(j),
           ghost.gaveUp \subseteq ghost'.gaveUp, ghost.mixed \subseteq ghost'.mixed
    PROVE  MaterialInv'
<1> USE DEF server, link, memory, tasks
<1>1. CASE AuthorizeIdentity(j)
    <2> DEFINE job == [at |-> "prompt", round |-> auth.round, token |-> auth.token]
    <2>1. /\ jobs' = [jobs EXCEPT ![j] = job] /\ auth.at = "required"
          /\ UNCHANGED <<signed, auth, blind, ghost>>
        BY <1>1 DEF AuthorizeIdentity
    <2>2. job \in Job /\ job.at = "prompt" /\ job.round = auth.round /\ job.token = auth.token
        BY <2>1, ByState DEF Job, Signing
    <2> HIDE DEF job
    <2>3. jobs'[j] = job /\ \A k \in Jobs \ {j} : jobs'[k] = jobs[k]
        BY <2>1, <2>2, JobType
    <2>4. Owns(auth.round, auth.token)
        BY <2>1 DEF MaterialInv, RequiredIsHeld, Owns
    <2>5. ASSUME NEW k \in Jobs
          PROVE  JobIsOwned(k)'
        <3>1. CASE k = j
            BY <2>1, <2>2, <2>3, <2>4, <3>1 DEF JobIsOwned, Owns
        <3>2. CASE k # j
            BY <2>1, <2>3, <3>2 DEF MaterialInv, JobIsOwned, Owns
        <3> QED
            BY <3>1, <3>2
    <2>6. SignedIsOwned' /\ RequiredIsHeld' /\ MaterialIsWhole'
        BY <2>1 DEF MaterialInv, SignedIsOwned, RequiredIsHeld, MaterialIsWhole, Owns
    <2> QED
        BY <2>5, <2>6 DEF MaterialInv
<1>2. CASE SubmitSignature(j) /\ auth.at = "required" /\ enrolled
    <2> DEFINE job == [at |-> "signing", round |-> jobs[j].round,
                       token |-> jobs[j].token, for |-> auth.round]
    <2>1. /\ jobs' = [jobs EXCEPT ![j] = job] /\ auth.at = "required"
          /\ auth'.at = "authorizing" /\ jobs[j].at = "prompt"
          /\ UNCHANGED <<signed, blind, ghost>>
        BY <1>2 DEF SubmitSignature
    <2>2. /\ job \in Job /\ job.at = "signing" /\ job.for = auth.round
          /\ job.round = jobs[j].round /\ job.token = jobs[j].token
        BY <2>1, ByState DEF Job, Signing
    <2> HIDE DEF job
    <2>3. jobs'[j] = job /\ \A k \in Jobs \ {j} : jobs'[k] = jobs[k]
        BY <2>1, <2>2, JobType
    <2>4. Owns(jobs[j].round, jobs[j].token) /\ jobs[j].round \in Rounds
        BY <2>1, OwnedTokens DEF MaterialInv, JobIsOwned
    <2>5. auth.round = jobs[j].round \/ jobs[j].round \in ghost.gaveUp
        BY <2>1, <2>4 DEF MaterialInv, RequiredIsHeld, Owns, NoMaterial
    <2>6. ASSUME NEW k \in Jobs
          PROVE  JobIsOwned(k)'
        <3>1. CASE k = j
            BY <2>1, <2>2, <2>3, <2>4, <2>5, <3>1 DEF JobIsOwned, Owns
        <3>2. CASE k # j
            BY <2>1, <2>3, <3>2 DEF MaterialInv, JobIsOwned, Owns
        <3> QED
            BY <3>1, <3>2
    <2>7. SignedIsOwned' /\ RequiredIsHeld' /\ MaterialIsWhole'
        BY <2>1 DEF MaterialInv, SignedIsOwned, RequiredIsHeld, MaterialIsWhole, Owns
    <2> QED
        BY <2>6, <2>7 DEF MaterialInv
<1>3. CASE RefuseFingerprint(j) \/ (SubmitSignature(j) /\ ~(auth.at = "required" /\ enrolled))
    <2>1. Ends(j) /\ UNCHANGED <<signed, auth, blind, ghost>>
        BY <1>3 DEF RefuseFingerprint, SubmitSignature
    <2>2. \A k \in Jobs : jobs'[k] = jobs[k] \/ jobs'[k].at \notin {"prompt", "signing"}
        BY <2>1, EndsType DEF Quiet
    <2> QED
        BY <2>1, <2>2, MaterialKept
<1>4. CASE Authorize(j) \/ AuthorizationFails(j)
    <2>1. PICK r \in Rounds, token \in Token :
            /\ r = jobs[j].round /\ token = jobs[j].token
            /\ jobs[j].at = "signing" /\ jobs[j].for \in Rounds
        <3>1. jobs[j].at = "signing"
            BY <1>4 DEF Authorize, AuthorizationFails
        <3> QED
            BY <3>1, ByState
    <2>2. /\ Ends(j) /\ auth'.at # "required"
          /\ signed' = signed \/ signed' = [signed EXCEPT ![r] = token]
        BY <1>4, <2>1 DEF Authorize, AuthorizationFails, Sign
    <2>3. /\ Owns(r, token)
          /\ jobs[j].for = r \/ r \in ghost.gaveUp
        BY <2>1 DEF MaterialInv, JobIsOwned
    <2>4. blind'.round = blind.round /\ blind'.cached = blind.cached /\ blind'.token = blind.token
        BY <1>4 DEF Authorize, AuthorizationFails, TypeOK, Material, NoMaterial
    <2>5. \A q \in Rounds, t \in Token : Owns(q, t) => Owns(q, t)'
        BY <2>4, OwnsKept
    <2>6. SignedIsOwned'
        <3>1. Owns(r, token)'
            BY <2>3, <2>5
        <3>2. ASSUME NEW q \in Rounds, signed'[q] # None
              PROVE  q \in ghost'.gaveUp \/ (blind'.round = q /\ blind'.cached = signed'[q])
            <4>1. CASE signed'[q] = signed[q]
                BY <2>5, <3>2, <4>1, OwnedTokens DEF MaterialInv, SignedIsOwned, Owns
            <4>2. CASE signed'[q] # signed[q]
                <5>1. q = r /\ signed'[q] = token
                    BY <2>2, <4>2 DEF TypeOK
                <5> QED
                    BY <3>1, <5>1 DEF Owns
            <4> QED
                BY <4>1, <4>2
        <3> QED
            BY <3>2 DEF SignedIsOwned, Owns
    <2>7. RequiredIsHeld'
        BY <2>2 DEF RequiredIsHeld
    <2>8. ASSUME NEW k \in Jobs
          PROVE  JobIsOwned(k)'
        <3>1. jobs'[k] = jobs[k] \/ jobs'[k].at \notin {"prompt", "signing"}
            BY <2>2, EndsType DEF Quiet
        <3> QED
            BY <2>5, <3>1, OwnedTokens DEF MaterialInv, JobIsOwned
    <2>9. MaterialIsWhole'
        <3>1. CASE blind' = blind
            BY <3>1 DEF MaterialInv, MaterialIsWhole
        <3>2. CASE blind' # blind
            <4>1. /\ Authorize(j) /\ jobs[j].for = blind.round
                  /\ blind' = [blind EXCEPT !.signature = [of |-> token, by |-> r]]
                BY <1>4, <2>1, <3>2 DEF Authorize, AuthorizationFails
            <4>2. blind'.signature = [of |-> token, by |-> r]
                BY <2>1, <4>1 DEF TypeOK, Material, NoMaterial
            <4>3. r = blind.round \/ blind.round \in ghost'.mixed
                BY <2>1, <4>1 DEF Authorize, TypeOK, Ghosts
            <4>4. ASSUME r = blind.round
                  PROVE  r \in ghost.gaveUp \/ token = blind.token \/ r \in ghost.mixed
                BY <2>3, <4>4 DEF Owns, MaterialInv, MaterialIsWhole
            <4> QED
                BY <2>4, <4>2, <4>3, <4>4 DEF MaterialInv, MaterialIsWhole
        <3> QED
            BY <3>1, <3>2
    <2> QED
        BY <2>6, <2>7, <2>8, <2>9 DEF MaterialInv
<1> QED
    BY <1>1, <1>2, <1>3, <1>4 DEF Authorizing

\* The end of a submission, whatever it was.
LEMMA VotingKeeps ==
    ASSUME TypeOK, ScreensInv, NEW j \in Jobs, Voting(j)
    PROVE  /\ UNCHANGED <<signed, screen, unseen, auth>>
           /\ \/ UNCHANGED <<blind, ghost>>
              \/ /\ blind' = blind
                 /\ ghost'.gaveUp = ghost.gaveUp /\ ghost'.mixed = ghost.mixed
              \/ blind' = NoMaterial /\ blind.round \in ghost'.gaveUp \cup {None}
           /\ \A k \in Jobs : jobs'[k] = jobs[k] \/ jobs'[k].at \notin {"prompt", "signing"}
<1> USE DEF server, link, memory, tasks
<1>1. WipeVolatileMemory => blind' = NoMaterial /\ blind.round \in ghost'.gaveUp \cup {None}
    BY GiveUpType DEF WipeVolatileMemory, TypeOK, Ghosts
<1>2. CASE SubmitNominalVote(j) \/ SubmitSecretVote(j) \/ SubmitTieBreakerVote(j)
    BY <1>1, <1>2, Submits
<1>3. CASE CastVote(j)
    <2>1. jobs[j] \in Vote
        BY <1>3, ByState DEF CastVote
    <2>2. jobs'[j].at = "accepted" /\ \A k \in Jobs \ {j} : jobs'[k] = jobs[k]
        BY <1>3, <2>1 DEF CastVote, TypeOK, Vote
    <2> QED
        BY <1>3, <2>2 DEF CastVote, Record
<1>4. CASE VoteFails(j)
    BY <1>1, <1>4, EndsType DEF VoteFails, Quiet
<1>5. CASE VoteSubmitted(j)
    <2>1. \A k \in Jobs : jobs'[k] = jobs[k] \/ jobs'[k].at \notin {"prompt", "signing"}
        BY <1>5, EndsType DEF VoteSubmitted, Quiet
    <2>2. CASE jobs[j].kind = "secret"
        <3>1. blind' = NoMaterial /\ ghost'.gaveUp = GiveUp
            BY <1>5, <2>2 DEF VoteSubmitted, TypeOK, Ghosts
        <3> QED
            BY <1>5, <2>1, <3>1, GiveUpType DEF VoteSubmitted
    <2>3. CASE jobs[j].kind # "secret"
        <3>1. blind' = blind /\ ghost'.gaveUp = ghost.gaveUp /\ ghost'.mixed = ghost.mixed
            BY <1>5, <2>3 DEF VoteSubmitted, TypeOK, Ghosts
        <3> QED
            BY <1>5, <2>1, <3>1 DEF VoteSubmitted
    <2> QED
        BY <2>2, <2>3
<1> QED
    BY <1>2, <1>3, <1>4, <1>5 DEF Voting

LEMMA MaterialStep ==
    ASSUME TypeOK, ScreensInv, MaterialInv, [Next]_vars
    PROVE  MaterialInv'
<1> USE DEF server, link, memory, tasks
<1>1. ghost.gaveUp \subseteq ghost'.gaveUp /\ ghost.mixed \subseteq ghost'.mixed
    BY HistoryGrows
<1>2. ASSUME UNCHANGED <<signed, auth, blind, jobs>>
      PROVE  MaterialInv'
    BY <1>1, <1>2, MaterialKept
<1>3. ASSUME NEW r \in Rounds, RoundRequest(r)
      PROVE  MaterialInv'
    BY <1>2, <1>3, RoundRequestCommits
<1>4. CASE Screens /\ ~Restart
    BY <1>2, <1>4 DEF Screens, FetchCurrent, ApplyCurrent, Write, Broadcast,
                      ExecuteWipeProtocol, LoseConnection, Reconnect
<1>5. CASE Restart
    <2>1. /\ signed' = signed /\ auth'.at = "idle" /\ blind' = NoMaterial
          /\ \A j \in Jobs : jobs'[j].at = "quiet"
          /\ blind.round \in ghost'.gaveUp \cup {None}
        BY <1>5 DEF Restart, Quiet, TypeOK, Ghosts
    <2> QED
        BY <1>1, <2>1, MaterialKept
<1>6. CASE Observe
    <2>1. CASE screen.at = "active"
        BY <1>1, <1>6, <2>1, CheckKeeps DEF Observe
    <2>2. CASE screen.at # "active"
        BY <1>1, <1>6, <2>2, MaterialKept DEF Observe
    <2> QED
        BY <2>1, <2>2
<1>7. CASE RetryAuthorization
    BY <1>1, <1>7, CheckKeeps DEF RetryAuthorization
<1>8. ASSUME NEW key \in SessionKeys, SetSessionKey(key)
      PROVE  MaterialInv'
    BY <1>2, <1>8 DEF SetSessionKey
<1>9. ASSUME NEW j \in Jobs, Authorizing(j)
      PROVE  MaterialInv'
    BY <1>1, <1>9, AuthorizingKeeps
<1>10. ASSUME NEW j \in Jobs, Voting(j)
       PROVE  MaterialInv'
    BY <1>1, <1>10, VotingKeeps, MaterialKept
<1>11. CASE UNCHANGED vars
    BY <1>2, <1>11 DEF vars
<1> QED
    BY <1>3, <1>4, <1>5, <1>6, <1>7, <1>8, <1>9, <1>10, <1>11 DEF Next, Screens

-----------------------------------------------------------------------------
(* Authorization.                                                          *)

\* A screen that changes is still to be observed.
LEMMA ShowUnseen ==
    ASSUME TypeOK, NEW s, Show(s), AuthorizationInv, UNCHANGED <<auth, blind>>,
           ghost.gaveUp \subseteq ghost'.gaveUp, ghost.mixed \subseteq ghost'.mixed
    PROVE  AuthorizationInv'
BY DEF TypeOK, Show, AuthorizationInv, Observed

LEMMA AuthorizationKept ==
    ASSUME AuthorizationInv, UNCHANGED <<screen, unseen, blind>>,
           ghost.gaveUp \subseteq ghost'.gaveUp, ghost.mixed \subseteq ghost'.mixed,
           auth' = auth \/ auth'.at # "authorized"
    PROVE  AuthorizationInv'
BY DEF AuthorizationInv, Observed

\* What the observer leaves, when it has looked at a round.
LEMMA CheckAuthorizes ==
    ASSUME TypeOK, ScreensInv, MaterialInv,
           screen.at = "active", screen' = screen, screen.key # None,
           CheckAuthorization(screen.round, screen.key)
    PROVE  AuthorizationInv'
<1>1. screen.round \in Rounds /\ screen.key \in Rounds \cup {Unreadable}
    BY DEF ScreensInv, ProperScreen, TypeOK, Screen, Key
<1>2. CASE IsAuthorized(screen.round)
    BY <1>2 DEF CheckAuthorization, IsAuthorized, MaterialInv, MaterialIsWhole, AuthorizationInv
<1>3. CASE ~IsAuthorized(screen.round)
    <2>1. PrepareBlindedToken(screen.round, screen.key) /\ auth'.at # "authorized"
        BY <1>3 DEF CheckAuthorization
    <2>2. blind'.round = screen.round
        BY <1>1, <2>1, PrepareType
    <2> QED
        BY <2>1, <2>2 DEF AuthorizationInv
<1> QED
    BY <1>2, <1>3

LEMMA AuthorizationStep ==
    ASSUME TypeOK, ScreensInv, MaterialInv, AuthorizationInv, [Next]_vars
    PROVE  AuthorizationInv'
<1> USE DEF server, link, memory, tasks
<1>1. ghost.gaveUp \subseteq ghost'.gaveUp /\ ghost.mixed \subseteq ghost'.mixed
    BY HistoryGrows
<1>2. ASSUME UNCHANGED <<screen, unseen, blind>>, auth' = auth \/ auth'.at # "authorized"
      PROVE  AuthorizationInv'
    BY <1>1, <1>2, AuthorizationKept
<1>3. ASSUME NEW r \in Rounds, RoundRequest(r)
      PROVE  AuthorizationInv'
    BY <1>2, <1>3, RoundRequestCommits
<1>4. CASE FetchCurrent \/ ApplyCurrent \/ LoseConnection \/ Reconnect
           \/ \E key \in SessionKeys : SetSessionKey(key)
    BY <1>2, <1>4 DEF FetchCurrent, ApplyCurrent, LoseConnection, Reconnect, SetSessionKey
<1>5. CASE Write \/ ExecuteWipeProtocol
    BY <1>1, <1>5, ShowUnseen DEF Write, ExecuteWipeProtocol
<1>6. ASSUME NEW i \in 1 .. Len(broadcasting), Broadcast(i)
      PROVE  AuthorizationInv'
    <2>1. CASE Show(Shown(broadcasting[i]))
        BY <1>1, <1>6, <2>1, ShowUnseen DEF Broadcast
    <2>2. CASE UNCHANGED <<screen, unseen>>
        BY <1>2, <1>6, <2>2 DEF Broadcast
    <2> QED
        BY <1>6, <2>1, <2>2 DEF Broadcast
<1>7. CASE Restart
    BY <1>7 DEF Restart, AuthorizationInv, Observed, Blank
<1>8. CASE Observe \/ RetryAuthorization
    <2>1. CASE screen.at = "active" /\ screen.key # None
        BY <1>8, <2>1, CheckAuthorizes DEF Observe, RetryAuthorization
    <2>2. CASE ~(screen.at = "active" /\ screen.key # None)
        BY <1>8, <2>2 DEF Observe, RetryAuthorization, AuthorizationInv, Observed
    <2> QED
        BY <2>1, <2>2
<1>9. ASSUME NEW j \in Jobs,
             \/ AuthorizeIdentity(j) \/ RefuseFingerprint(j) \/ SubmitSignature(j)
             \/ AuthorizationFails(j)
      PROVE  AuthorizationInv'
    BY <1>2, <1>9
    DEF AuthorizeIdentity, RefuseFingerprint, SubmitSignature, AuthorizationFails
<1>10. ASSUME NEW j \in Jobs, Authorize(j)
       PROVE  AuthorizationInv'
    <2>1. PICK r \in Rounds, token \in Token :
            /\ r = jobs[j].round /\ token = jobs[j].token
            /\ jobs[j].at = "signing" /\ jobs[j].for \in Rounds
        <3>1. jobs[j].at = "signing"
            BY <1>10 DEF Authorize
        <3> QED
            BY <3>1, ByState
    <2>2. /\ UNCHANGED <<screen, unseen>>
          /\ blind' = IF jobs[j].for = blind.round
                      THEN [blind EXCEPT !.signature = [of |-> token, by |-> r]] ELSE blind
        BY <1>10, <2>1 DEF Authorize
    <2>3. Owns(r, token) /\ (jobs[j].for = r \/ r \in ghost.gaveUp)
        BY <2>1 DEF MaterialInv, JobIsOwned
    <2>4. r = blind.round \/ blind.round \in ghost'.mixed \cup {None}
        BY <1>10, <2>1 DEF Authorize, TypeOK, Ghosts
    <2>5. blind'.round = blind.round /\ blind'.token = blind.token
        BY <2>2 DEF TypeOK, Material, NoMaterial
    <2>6. blind = NoMaterial => blind' = blind
        BY <2>2, <2>1 DEF NoMaterial
    <2>7. ASSUME r = blind.round, r \notin ghost.gaveUp \cup ghost.mixed
          PROVE  blind'.signature = [of |-> blind.token, by |-> blind.round]
        <3>1. blind.cached = token /\ jobs[j].for = blind.round
            BY <2>3, <2>7 DEF Owns
        <3>2. token = blind.token
            BY <2>7, <3>1 DEF MaterialInv, MaterialIsWhole
        <3> QED
            BY <2>2, <2>1, <2>7, <3>1, <3>2 DEF TypeOK, Material, NoMaterial
    <2>8. Observed' => Observed
        BY <2>2 DEF Observed
    <2>9. CASE blind.round = screen.round
        <3>1. CASE screen.round = None
            BY <2>8, <3>1 DEF AuthorizationInv, Observed, ScreensInv, ProperScreen
        <3>2. CASE screen.round # None
            BY <1>1, <2>2, <2>4, <2>5, <2>7, <2>9, <3>2 DEF AuthorizationInv
        <3> QED
            BY <3>1, <3>2
    <2>10. CASE blind.round # screen.round
        BY <1>1, <2>2, <2>6, <2>8, <2>10 DEF AuthorizationInv
    <2> QED
        BY <2>9, <2>10
<1>11. ASSUME NEW j \in Jobs, Voting(j)
       PROVE  AuthorizationInv'
    <2>1. UNCHANGED <<screen, unseen, auth>>
        BY <1>11, VotingKeeps
    <2>2. CASE blind' = blind
        BY <1>2, <2>1, <2>2
    <2>3. CASE blind' = NoMaterial /\ blind.round \in ghost'.gaveUp \cup {None}
        <3>1. Observed' => Observed /\ screen.round \in Rounds
            BY <2>1 DEF Observed, ScreensInv, ProperScreen
        <3>2. Observed => screen.round \in ghost'.gaveUp
            BY <1>1, <2>3, <3>1 DEF AuthorizationInv, Observed, ScreensInv, ProperScreen
        <3> QED
            BY <2>1, <2>3, <3>1, <3>2 DEF AuthorizationInv
    <2> QED
        BY <1>11, <2>2, <2>3, VotingKeeps
<1>12. CASE UNCHANGED vars
    BY <1>2, <1>12 DEF vars
<1> QED
    BY <1>3, <1>4, <1>5, <1>6, <1>7, <1>8, <1>9, <1>10, <1>11, <1>12
    DEF Next, Screens, Authorizing

-----------------------------------------------------------------------------
(* Theorems.                                                               *)

LEMMA InitIInv == Init => IInv
<1> SUFFICES ASSUME Init
             PROVE  IInv
    OBVIOUS
<1>1. ScreensInv /\ VotesInv /\ RevocationInv /\ InvitationsInv
    BY DEF Init, ScreensInv, ProperScreen, VotesInv, Justified, RevocationInv, InvitationsInv,
           AcceptedIsDone, Blank, NoWrite, Quiet
<1>2. MaterialInv /\ AuthorizationInv
    BY DEF Init, MaterialInv, SignedIsOwned, RequiredIsHeld, JobIsOwned, MaterialIsWhole,
           AuthorizationInv, Observed, Quiet, Blank, NoMaterial, NoSignature
<1> QED
    BY <1>1, <1>2, InitType DEF IInv

\* What the threads of the terminal rely on when they wake is kept by all of them.
THEOREM Invariance == Spec => []IInv
<1>1. IInv /\ [Next]_vars => IInv'
    BY TypeStep, ScreensStep, VotesStep, RevocationStep, InvitationsStep, MaterialStep,
       AuthorizationStep DEF IInv
<1> QED
    BY <1>1, InitIInv, PTL DEF Spec

\* The rounds, the connection and the terminal's memory keep their types.
THEOREM TypeCorrect == Spec => []TypeOK
<1>1. IInv => TypeOK
    BY DEF IInv
<1> QED
    BY <1>1, Invariance, PTL

\* A round shown as voted was voted by this terminal, or decided by it, unless
\* another round was on the screen (submitVote, submitTieBreakerVote).
THEOREM LockedRoundsAreRecorded == Spec => []LockedIsRecorded
<1>1. IInv => LockedIsRecorded
    BY DEF IInv, VotesInv, Justified, LockedIsRecorded
<1> QED
    BY <1>1, Invariance, PTL

\* With every event handled in order, a terminal that invites to vote shows an open
\* round (updateState, the service's handlers).
THEOREM InvitationsAreOpen == Spec => []InvitesOnlyToOpen
<1>1. IInv => InvitesOnlyToOpen
    <2> SUFFICES ASSUME IInv, broadcasting = <<>>, ~ghost.stale, screen.at = "active", screen.open
                 PROVE  status[screen.round] = "VOTING_OPEN"
        BY DEF InvitesOnlyToOpen
    <2>1. Len(broadcasting) = 0
        OBVIOUS
    <2>2. ~\E k \in 1 .. Len(broadcasting) : broadcasting[k].type # "OPENED"
        BY <2>1
    <2> QED
        BY <2>2 DEF IInv, InvitationsInv
<1> QED
    BY <1>1, Invariance, PTL

\* Between the two phases of a secret vote the repeated and late steps of one round
\* keep the token that was signed and its signature; what breaks this is another
\* round's preparation or answer, the end of a ballot, a key that cannot be read, or
\* the end of the process (prepareBlindedToken, setAuthorizedPayload,
\* wipeVolatileMemory).
THEOREM MaterialOutlivesPhases == Spec => []MaterialIsKept
<1>1. IInv => SignedTokenIsKept
    BY DEF IInv, MaterialInv, SignedIsOwned, MaterialIsWhole, Owns, SignedTokenIsKept
<1>2. IInv => AuthorizedHasSignature
    BY DEF IInv, AuthorizationInv, Observed, AuthorizedHasSignature
<1>3. IInv => MaterialIsKept
    BY <1>1, <1>2 DEF MaterialIsKept
<1> QED
    BY <1>3, Invariance, PTL

\* Nothing but the end of the process follows a wipe on the screen, unless another
\* thread had passed the check before it (updateState, executeWipeProtocol).
THEOREM RevocationIsFinal == Spec => RevokedIsFinal
<1>1. ASSUME IInv, [Next]_vars, screen.at = "revoked", ~ghost.overtaken
      PROVE  screen'.at = "revoked"
    <2> USE DEF server, link, memory, tasks
    <2>1. ~connected /\ ~enrolled /\ writing = NoWrite
        BY <1>1 DEF IInv, RevocationInv, TypeOK
    <2>2. CASE \E r \in Rounds : RoundRequest(r)
        BY <1>1, <2>2, RoundRequestCommits DEF IInv
    <2>3. CASE Screens
        BY <1>1, <2>1, <2>3 DEF Screens, FetchCurrent, ApplyCurrent, Write, Broadcast,
            ExecuteWipeProtocol, LoseConnection, Reconnect, Restart
    <2>4. CASE Observe \/ RetryAuthorization \/ \E key \in SessionKeys : SetSessionKey(key)
        BY <1>1, <2>4 DEF Observe, RetryAuthorization, SetSessionKey
    <2>5. ASSUME NEW j \in Jobs, Authorizing(j)
          PROVE  screen' = screen
        BY <2>5 DEF Authorizing, AuthorizeIdentity, RefuseFingerprint, SubmitSignature,
            Authorize, AuthorizationFails
    <2>6. ASSUME NEW j \in Jobs, Voting(j)
          PROVE  screen' = screen
        BY <1>1, <2>6, Submits DEF IInv, Voting, CastVote, VoteSubmitted, VoteFails
    <2>7. CASE UNCHANGED vars
        BY <1>1, <2>7 DEF vars
    <2> QED
        BY <1>1, <2>2, <2>3, <2>4, <2>5, <2>6, <2>7 DEF Next
<1> QED
    BY <1>1, Invariance, PTL DEF Spec, RevokedIsFinal
=============================================================================
